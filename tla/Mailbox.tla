------------------------------- MODULE Mailbox ------------------------------
(***************************************************************************)
(* Asking the GPU's firmware (rustypi_core::mailbox and drivers::mailbox): *)
(* a Batch of property tags is built in a message buffer, handed over      *)
(* through the hardware mailbox, and answered in place.                    *)
(*                                                                         *)
(* The firmware doesn't see the ARM cores' caches: a buffer is in memory,  *)
(* and a line of it may be cached as well.  The hardware may cache a line  *)
(* (speculatively) or evict one at any time.  The cores see one another's  *)
(* caches, so there is one here.  Tasks run on cores of their own.         *)
(*                                                                         *)
(* Sizes are in bytes, as in a message; a tag is its ID, a number above 0. *)
(***************************************************************************)
EXTENDS Integers, Sequences, SequencesExt

CONSTANTS Tasks,
          MessageWords,    \* MESSAGE_WORDS
          LineWords,       \* words of a cache line; MessageWords is a multiple
          RequestWords, ResponseWords, ResponseBytes,  \* what a Tag has, by its ID
          Lengths,         \* bytes the firmware may answer with
          Batches,         \* the tags that are asked for together
          MaxCalls, MaxNoise  \* bounds: messages sent, values of other channels

VARIABLES memory,          \* each task's message buffer in memory
          cache, lines, dirty,  \* what is cached of it: which lines, and whether they were written to
          at, batch,       \* where each task is, and with which Batch
          in_flight,       \* who has IN_FLIGHT
          mbox1, mbox0,    \* the mailboxes to and from the firmware
          result,          \* what the task got
          said,            \* what the firmware read and answered
          calls, noise

vars == <<memory, cache, lines, dirty, at, batch, in_flight, mbox1, mbox0, result, said, calls, noise>>
caches == <<memory, cache, lines, dirty>>

Request == 0
EndTag == 0
TagResponse == 1000   \* bit 31, scaled down
ResponseOk == 1000
Rejected == 1001
TagHeaderWords == 3
None == "none"
Nobody == "nobody"
Other == "other"      \* a value in mailbox 0 that isn't this message's
Unanswered == -1

Words == 0 .. MessageWords - 1
Lines == 0 .. (MessageWords \div LineWords - 1)
LineOf(word) == word \div LineWords
Blank == [i \in Words |-> 0]   \* what isn't cached

Go(t, place) == at' = [at EXCEPT ![t] = place]
-----------------------------------------------------------------------------
(* Batch                                                                   *)

New == [words |-> Blank, len |-> 2, full |-> FALSE, offsets |-> <<>>, tags |-> <<>>]

ValueWords(tag) == IF RequestWords[tag] >= ResponseWords[tag] THEN RequestWords[tag] ELSE ResponseWords[tag]

\* Batch::add; every word of a request is 1.  offsets and tags are the Handles.
Add(b, tag) ==
  LET offset == b.len
      value == offset + TagHeaderWords
      end == value + ValueWords(tag)
  IN  IF end + 1 > MessageWords THEN [b EXCEPT !.full = TRUE]
      ELSE [words |-> [i \in Words |->
                         CASE i = offset -> tag
                           [] i = offset + 1 -> 4 * ValueWords(tag)
                           [] i = offset + 2 -> Request
                           [] i \in value .. end - 1 -> IF i < value + RequestWords[tag] THEN 1 ELSE 0
                           [] OTHER -> b.words[i]],
            len |-> end, full |-> b.full,
            offsets |-> Append(b.offsets, offset), tags |-> Append(b.tags, tag)]

Built(tags) == FoldLeft(Add, New, tags)

Message(b) == [b.words EXCEPT ![b.len] = EndTag, ![0] = 4 * (b.len + 1), ![1] = Request]

Failed(error) == [error |-> error, replies |-> <<>>]

\* Batch::send: the message is written, so it is cached; the memory is as it was before.
Send(t, tags) ==
  LET b == Built(tags)
  IN  /\ at[t] = "idle" /\ calls < MaxCalls
      /\ calls' = calls + 1
      /\ IF b.full
         THEN /\ result' = [result EXCEPT ![t] = Failed("BatchFull")]
              /\ UNCHANGED <<cache, lines, dirty, at, batch>>
         ELSE /\ cache' = [cache EXCEPT ![t] = Message(b)]
              /\ lines' = [lines EXCEPT ![t] = Lines]
              /\ dirty' = [dirty EXCEPT ![t] = TRUE]
              /\ batch' = [batch EXCEPT ![t] = b]
              /\ result' = [result EXCEPT ![t] = Failed(None)]
              /\ Go(t, "lock")
      /\ said' = [said EXCEPT ![t] = <<>>]
      /\ UNCHANGED <<memory, in_flight, mbox1, mbox0, noise>>
-----------------------------------------------------------------------------
(* exchange                                                                *)

\* Mutated form of Lock: calls aren't kept apart.
LockNot(t) ==
  /\ at[t] = "lock"
  /\ in_flight' = t
  /\ Go(t, "clean")
  /\ UNCHANGED <<caches, batch, mbox1, mbox0, result, said, calls, noise>>

\* TryLock: another core spins for it.
Lock(t) ==
  /\ at[t] = "lock" /\ in_flight = Nobody
  /\ in_flight' = t
  /\ Go(t, "clean")
  /\ UNCHANGED <<caches, batch, mbox1, mbox0, result, said, calls, noise>>

\* What a buffer's memory is once its lines (or those of `some`) are written back.
WrittenBack(t, some) ==
  [memory EXCEPT ![t] = [i \in Words |-> IF dirty[t] /\ LineOf(i) \in lines[t] \cap some THEN cache[t][i] ELSE @[i]]]

\* sync_message: dc civac on every line.
SyncMessage(t) ==
  /\ memory' = WrittenBack(t, Lines)
  /\ lines' = [lines EXCEPT ![t] = {}]
  /\ dirty' = [dirty EXCEPT ![t] = FALSE]
  /\ cache' = [cache EXCEPT ![t] = Blank]

\* Mutated form of Clean: nothing is done before the message goes out.
CleanNot(t) ==
  /\ at[t] = "clean"
  /\ Go(t, "post")
  /\ UNCHANGED <<caches, batch, in_flight, mbox1, mbox0, result, said, calls, noise>>

Clean(t) ==
  /\ at[t] = "clean"
  /\ SyncMessage(t)
  /\ Go(t, "post")
  /\ UNCHANGED <<batch, in_flight, mbox1, mbox0, result, said, calls, noise>>

\* Never full: one message is on its way at a time.
Post(t) ==
  /\ at[t] = "post"
  /\ mbox1' = Append(mbox1, t)
  /\ Go(t, "wait")
  /\ UNCHANGED <<caches, batch, in_flight, mbox0, result, said, calls, noise>>

\* A value that isn't this message's is thrown away.
Receive(t) ==
  /\ at[t] = "wait" /\ mbox0 # <<>>
  /\ mbox0' = Tail(mbox0)
  /\ Go(t, IF Head(mbox0) = t THEN "sync" ELSE "wait")
  /\ UNCHANGED <<caches, batch, in_flight, mbox1, result, said, calls, noise>>

\* Mutated form of Invalidate: the answer is read through the cache as it is.
InvalidateNot(t) ==
  /\ at[t] = "sync"
  /\ in_flight' = Nobody
  /\ Go(t, "read")
  /\ UNCHANGED <<caches, batch, mbox1, mbox0, result, said, calls, noise>>

\* The second sync_message; then IN_FLIGHT is let go of.
Invalidate(t) ==
  /\ at[t] = "sync"
  /\ SyncMessage(t)
  /\ in_flight' = Nobody
  /\ Go(t, "read")
  /\ UNCHANGED <<batch, mbox1, mbox0, result, said, calls, noise>>

\* What the core reads.
Seen(t) == [i \in Words |-> IF LineOf(i) \in lines[t] THEN cache[t][i] ELSE memory[t][i]]

\* Replies::get
Get(buf, len, offset, tag) ==
  LET code == buf[offset + 2]
      bytes == code - TagResponse
      Error(error) == [error |-> error, words |-> <<>>]
  IN  CASE offset + TagHeaderWords > len \/ buf[offset] # tag -> Error("WrongBatch")
        [] code < TagResponse -> Error("Unanswered")
        [] bytes > buf[offset + 1] -> Error("Truncated")
        [] bytes < ResponseBytes[tag] -> Error("ShortResponse")
        [] OTHER -> [error |-> None,
                     words |-> [k \in 1 .. ResponseWords[tag] |-> buf[offset + TagHeaderWords + k - 1]]]

\* The end of send, and a get of every tag; then the message is dropped.
Read(t) ==
  LET buf == Seen(t)
      b == batch[t]
  IN  /\ at[t] = "read"
      /\ result' = [result EXCEPT ![t] =
                      IF buf[1] # ResponseOk THEN Failed("Firmware")
                      ELSE [error |-> None,
                            replies |-> [k \in DOMAIN b.tags |-> Get(buf, b.len, b.offsets[k], b.tags[k])]]]
      /\ Go(t, "idle")
      /\ batch' = [batch EXCEPT ![t] = New]
      /\ cache' = [cache EXCEPT ![t] = Blank]
      /\ lines' = [lines EXCEPT ![t] = {}]
      /\ UNCHANGED <<memory, dirty, in_flight, mbox1, mbox0, said, calls, noise>>
-----------------------------------------------------------------------------
(* The hardware and the firmware                                           *)

Fetch(t, line) ==
  /\ line \notin lines[t]
  /\ at[t] # "idle"
  /\ cache' = [cache EXCEPT ![t] = [i \in Words |-> IF LineOf(i) = line THEN memory[t][i] ELSE @[i]]]
  /\ lines' = [lines EXCEPT ![t] = @ \cup {line}]
  /\ UNCHANGED <<memory, dirty, at, batch, in_flight, mbox1, mbox0, result, said, calls, noise>>

Evict(t, line) ==
  /\ line \in lines[t] /\ at[t] # "idle"
  /\ memory' = WrittenBack(t, {line})
  /\ lines' = [lines EXCEPT ![t] = @ \ {line}]
  /\ cache' = [cache EXCEPT ![t] = [i \in Words |-> IF LineOf(i) = line THEN 0 ELSE @[i]]]
  /\ UNCHANGED <<dirty, at, batch, in_flight, mbox1, mbox0, result, said, calls, noise>>

\* Where the tags of a message are, in order.
Offsets(words) ==
  LET from[i \in Nat] == IF i + 2 >= MessageWords \/ words[i] = EndTag THEN <<>>
                         ELSE <<i>> \o from[i + TagHeaderWords + words[i + 1] \div 4]
  IN  from[2]

\* Word k of the firmware's answer to a message's n-th tag: no two answers are alike.
Says(n, k) == 100 * calls + 10 * n + k

\* Firmware: it reads the message in memory, answers each tag with some length or not at all, or
\* rejects the message, and puts its address in mailbox 0.
Answer(reject, lengths) ==
  LET t == Head(mbox1)
      offsets == Offsets(memory[t])
      Bytes(n) == lengths[n]
      Room(n) == memory[t][offsets[n] + 1] \div 4
      Value(i, n) == i - offsets[n] - TagHeaderWords   \* which word of the n-th tag's value i is
      Fills(i, n) == Bytes(n) > 4 * Value(i, n) /\ Value(i, n) \in 0 .. Room(n) - 1
      Answered == {n \in DOMAIN offsets : Bytes(n) # Unanswered}
  IN  /\ mbox1 # <<>> /\ Len(offsets) = Len(lengths)
      /\ reject => \A n \in DOMAIN lengths : lengths[n] = Unanswered
      /\ memory' = [memory EXCEPT ![t] =
           [i \in Words |->
              CASE i = 1 -> IF reject THEN Rejected ELSE ResponseOk
                [] ~reject /\ (\E n \in Answered : i = offsets[n] + 2) ->
                     TagResponse + Bytes(CHOOSE n \in Answered : i = offsets[n] + 2)
                [] ~reject /\ (\E n \in Answered : Fills(i, n)) ->
                     LET n == CHOOSE m \in Answered : Fills(i, m) IN Says(n, Value(i, n))
                [] OTHER -> @[i]]]
      /\ said' = [said EXCEPT ![t] =
           [n \in DOMAIN offsets |-> [tag |-> memory[t][offsets[n]], rejected |-> reject, bytes |-> Bytes(n),
                                      words |-> [k \in 1 .. 4 |-> Says(n, k - 1)]]]]
      /\ mbox1' = Tail(mbox1)
      /\ mbox0' = Append(mbox0, t)
      /\ UNCHANGED <<cache, lines, dirty, at, batch, in_flight, result, calls, noise>>

\* Something on another channel.
OtherChannel ==
  /\ noise < MaxNoise
  /\ mbox0' = Append(mbox0, Other)
  /\ noise' = noise + 1
  /\ UNCHANGED <<caches, at, batch, in_flight, mbox1, result, said, calls>>
-----------------------------------------------------------------------------
Init ==
  /\ memory = [t \in Tasks |-> Blank]
  /\ cache = memory
  /\ lines = [t \in Tasks |-> {}]
  /\ dirty = [t \in Tasks |-> FALSE]
  /\ at = [t \in Tasks |-> "idle"]
  /\ batch = [t \in Tasks |-> New]
  /\ in_flight = Nobody
  /\ mbox1 = <<>> /\ mbox0 = <<>>
  /\ result = [t \in Tasks |-> Failed(None)]
  /\ said = [t \in Tasks |-> <<>>]
  /\ calls = 0 /\ noise = 0

\* The steps of a call once it has begun.
InCall(t) == Lock(t) \/ Clean(t) \/ Post(t) \/ Receive(t) \/ Invalidate(t) \/ Read(t)

Firmware ==
  \E reject \in BOOLEAN, n \in 0 .. 2 : \E lengths \in [1 .. n -> Lengths \cup {Unanswered}] : Answer(reject, lengths)

Next ==
  \/ \E t \in Tasks, tags \in Batches : Send(t, tags)
  \/ \E t \in Tasks : InCall(t)
  \/ \E t \in Tasks, line \in Lines : Fetch(t, line) \/ Evict(t, line)
  \/ Firmware
  \/ OtherChannel

Spec == Init /\ [][Next]_vars
-----------------------------------------------------------------------------
(* Properties.                                                             *)

\* Everyone is somewhere, and values in flight are messages.
TypeOK ==
  /\ at \in [Tasks -> {"idle", "lock", "clean", "post", "wait", "sync", "read"}]
  /\ in_flight \in Tasks \cup {Nobody}
  /\ lines \in [Tasks -> SUBSET Lines] /\ dirty \in [Tasks -> BOOLEAN]
  /\ \A v \in ToSet(mbox1) \cup ToSet(mbox0) : v \in Tasks \cup {Other}

\* "so the firmware ... reads what we wrote": what the firmware finds in a message are the tags of
\* the batch, in order, whatever was cached, evicted or left in the buffer's memory.
AsksWhatWasAdded ==
  \A t \in Tasks : at[t] \in {"sync", "read"} =>
    [n \in DOMAIN said[t] |-> said[t][n].tag] = batch[t].tags

\* A message in mailbox 0 that isn't the reader's own is thrown away, so nobody may wait for one
\* that somebody else can take: whoever waits has its message with the firmware or its answer in
\* mailbox 0 (IN_FLIGHT, "held while a call is in flight").
AnswerIsComing ==
  \A t \in Tasks : at[t] = "wait" => t \in ToSet(mbox1) \cup ToSet(mbox0)

\* What a tag's types say of an answer.
Expected(answer) ==
  LET Larger == IF RequestWords[answer.tag] >= ResponseWords[answer.tag]
                THEN RequestWords[answer.tag] ELSE ResponseWords[answer.tag]
  IN  IF answer.bytes = Unanswered THEN "Unanswered"
      ELSE IF answer.bytes > 4 * Larger THEN "Truncated"
      ELSE IF answer.bytes < ResponseBytes[answer.tag] THEN "ShortResponse"
      ELSE None

\* "a response can't be read at the wrong offset", "and we read what it wrote": a tag's reply is the
\* firmware's answer to that tag in that call, and an error exactly when there is no whole answer.
RepliesAreAnswers ==
  \A t \in Tasks : at[t] = "idle" /\ said[t] # <<>> =>
    IF said[t][1].rejected THEN result[t].error = "Firmware"
    ELSE /\ result[t].error = None
         /\ \A n \in DOMAIN said[t] :
              LET reply == result[t].replies[n]
              IN  /\ reply.error = Expected(said[t][n])
                  /\ reply.error = None =>
                       reply.words = SubSeq(said[t][n].words, 1, ResponseWords[said[t][n].tag])
=============================================================================
