-------------------------------- MODULE Pipe --------------------------------
(***************************************************************************)
(* A pipe between programs (process::pipe), and the programs that hold its *)
(* ends.  The pipe's state is behind a spinlock, the scheduler's behind    *)
(* another, and a read or a write is a sequence of holds of the two:       *)
(* wait_until's loop (look at the event's generation, evaluate the         *)
(* condition, wait if the generation is still the same), then the hold     *)
(* that moves the bytes, then a notify.  Any other program may run between *)
(* two holds.                                                              *)
(*                                                                         *)
(* Bytes are numbered in the order they are written.  A generation is      *)
(* compared, never counted: what matters is whether a notify has come      *)
(* since a program looked (stale).                                         *)
(***************************************************************************)
EXTENDS Naturals, Sequences

CONSTANTS Programs,
          Maker,             \* the program that made the pipe, and starts the others
          Readers, Writers,  \* the programs that read and that write
          Killable,          \* the programs someone may kill
          Capacity,          \* PIPE_CAPACITY
          MaxBytes           \* bound: bytes written in all

VARIABLES bytes, readers, writers,  \* pipe::State
          ends,                     \* which ends each program has
          at, op,                   \* where each program is, and in which call
          stale,                    \* the programs that have looked before the last notify
          interrupted,              \* Entry::interrupt_pending
          killed, exiting,
          put, got                  \* how many bytes were written; those read, in order

pipe == <<bytes, readers, writers>>
history == <<put, got>>
vars == <<pipe, ends, at, op, stale, interrupted, killed, exiting, history>>

Kinds == {"Read", "Write"}

(*  unborn  not started yet         user   running its own code                  *)
(*  look    about to read the       ask    about to evaluate stop()              *)
(*          event's generation      check  about to evaluate the rest            *)
(*  wait    not ready, about to     asleep waiting for PIPE                      *)
(*          wait                    move   ready, about to move bytes            *)
(*  notify  about to notify PIPE    gone                                         *)
Places == {"unborn", "user", "look", "ask", "check", "wait", "asleep", "move", "notify", "gone"}

Go(p, place) == at' = [at EXCEPT ![p] = place]

Init ==
  /\ bytes = <<>>
  /\ readers = 1 /\ writers = 1
  /\ ends = [p \in Programs |-> IF p = Maker THEN Kinds ELSE {}]
  /\ at = [p \in Programs |-> IF p = Maker THEN "user" ELSE "unborn"]
  /\ op = [p \in Programs |-> "Read"]
  /\ stale = {} /\ interrupted = {} /\ killed = {} /\ exiting = {}
  /\ put = 0 /\ got = <<>>

Free(p) == at[p] = "user" /\ p \notin exiting /\ p \notin killed

\* handles::spawn: the child gets another handle on the ends its parent names.
Duplicate(p, q, kinds) ==
  /\ Free(p) /\ at[q] = "unborn" /\ kinds \subseteq ends[p]
  /\ readers' = IF "Read" \in kinds THEN readers + 1 ELSE readers
  /\ writers' = IF "Write" \in kinds THEN writers + 1 ELSE writers
  /\ ends' = [ends EXCEPT ![q] = kinds]
  /\ Go(q, "user")
  /\ UNCHANGED <<bytes, op, stale, interrupted, killed, exiting, history>>

\* The call finds the end; it keeps the pipe, not the end, while it waits.
Call(p, kind) ==
  /\ Free(p) /\ kind \in ends[p]
  /\ kind = "Read" => p \in Readers
  /\ kind = "Write" => p \in Writers /\ put < MaxBytes
  /\ op' = [op EXCEPT ![p] = kind]
  /\ Go(p, "look")
  /\ UNCHANGED <<pipe, ends, stale, interrupted, killed, exiting, history>>
-----------------------------------------------------------------------------
(* wait_until                                                              *)

Look(p) ==
  /\ at[p] = "look"
  /\ stale' = stale \ {p}
  /\ Go(p, "ask")
  /\ UNCHANGED <<pipe, ends, op, interrupted, killed, exiting, history>>

\* was_killed
Ask(p) ==
  /\ at[p] = "ask"
  /\ Go(p, IF p \in killed THEN "move" ELSE "check")
  /\ UNCHANGED <<pipe, ends, op, stale, interrupted, killed, exiting, history>>

\* Whether a call has something to do.
Possible(kind) ==
  IF kind = "Read"
  THEN bytes # <<>> \/ writers = 0
  ELSE Len(bytes) < Capacity \/ readers = 0

Check(p) ==
  /\ at[p] = "check"
  /\ Go(p, IF Possible(op[p]) THEN "move" ELSE "wait")
  /\ UNCHANGED <<pipe, ends, op, stale, interrupted, killed, exiting, history>>

\* Mutated form of WaitCurrent: a notify since the look is missed.
WaitRegardless(p) ==
  /\ at[p] = "wait"
  /\ interrupted' = interrupted \ {p}
  /\ Go(p, IF p \in interrupted THEN "look" ELSE "asleep")
  /\ UNCHANGED <<pipe, ends, op, stale, killed, exiting, history>>

\* Mutated form of WaitCurrent: the condition isn't evaluated again.
WaitOnce(p) ==
  /\ at[p] = "wait"
  /\ interrupted' = interrupted \ {p}
  /\ Go(p, IF p \in interrupted \/ p \in stale THEN "move" ELSE "asleep")
  /\ UNCHANGED <<pipe, ends, op, stale, killed, exiting, history>>

\* RunQueue::wait_current, and around the loop again when it doesn't wait.
WaitCurrent(p) ==
  /\ at[p] = "wait"
  /\ interrupted' = interrupted \ {p}
  /\ Go(p, IF p \in interrupted \/ p \in stale THEN "look" ELSE "asleep")
  /\ UNCHANGED <<pipe, ends, op, stale, killed, exiting, history>>
-----------------------------------------------------------------------------
(* Moving bytes, under the pipe's lock                                     *)

Least(m, n) == IF m <= n THEN m ELSE n

Returns(p, count) == Go(p, IF count > 0 THEN "notify" ELSE "user")

\* Mutated form of Read: the bytes stay in the pipe.
ReadKeeping(p, len) ==
  LET count == Least(len, Len(bytes))
  IN  /\ at[p] = "move" /\ op[p] = "Read"
      /\ got' = got \o SubSeq(bytes, 1, count)
      /\ Len(got') <= MaxBytes
      /\ Returns(p, count)
      /\ UNCHANGED <<pipe, ends, op, stale, interrupted, killed, exiting, put>>

Read(p, len) ==
  LET count == Least(len, Len(bytes))
  IN  /\ at[p] = "move" /\ op[p] = "Read"
      /\ got' = got \o SubSeq(bytes, 1, count)
      /\ bytes' = SubSeq(bytes, count + 1, Len(bytes))
      /\ Returns(p, count)
      /\ UNCHANGED <<readers, writers, ends, op, stale, interrupted, killed, exiting, put>>

Write(p, len) ==
  LET count == Least(len, Capacity - Len(bytes))
  IN  /\ at[p] = "move" /\ op[p] = "Write" /\ readers # 0
      /\ put' = put + count
      /\ bytes' = bytes \o [i \in 1 .. count |-> put + i]
      /\ Returns(p, count)
      /\ UNCHANGED <<readers, writers, ends, op, stale, interrupted, killed, exiting, got>>

BrokenPipe(p) ==
  /\ at[p] = "move" /\ op[p] = "Write" /\ readers = 0
  /\ Go(p, "user")
  /\ UNCHANGED <<pipe, ends, op, stale, interrupted, killed, exiting, history>>

\* RunQueue::notify(PIPE): every waiting program looks again.  Then the call returns.
Notify(p) ==
  /\ at[p] = "notify"
  /\ at' = [q \in Programs |-> IF q = p THEN "user"
                               ELSE IF at[q] = "asleep" THEN "look"
                               ELSE at[q]]
  /\ stale' = Programs
  /\ UNCHANGED <<pipe, ends, op, interrupted, killed, exiting, history>>
-----------------------------------------------------------------------------
(* Letting go of the ends                                                  *)

\* PipeEnd::drop, by handles::close or because the program ends.
Drop(p, kind) ==
  /\ at[p] = "user" /\ kind \in ends[p]
  /\ ends' = [ends EXCEPT ![p] = @ \ {kind}]
  /\ readers' = IF kind = "Read" THEN readers - 1 ELSE readers
  /\ writers' = IF kind = "Write" THEN writers - 1 ELSE writers
  /\ Go(p, "notify")
  /\ UNCHANGED <<bytes, op, stale, interrupted, killed, exiting, history>>

\* process::exit: of its own accord, or killed, once its system call has returned.
Exit(p) ==
  /\ at[p] = "user" /\ p \notin exiting
  /\ exiting' = exiting \cup {p}
  /\ UNCHANGED <<pipe, ends, at, op, stale, interrupted, killed, history>>

Finish(p) ==
  /\ at[p] = "user" /\ p \in exiting /\ ends[p] = {}
  /\ Go(p, "gone")
  /\ UNCHANGED <<pipe, ends, op, stale, interrupted, killed, exiting, history>>

\* process::kill: a program in its own code is sent to exit, any other interrupted
\* (RunQueue::interrupt).
Kill(p) ==
  /\ p \in Killable /\ at[p] \notin {"unborn", "gone"} /\ p \notin exiting /\ p \notin killed
  /\ killed' = killed \cup {p}
  /\ at' = IF at[p] = "asleep" THEN [at EXCEPT ![p] = "look"] ELSE at
  /\ interrupted' = IF at[p] \in {"user", "asleep"} THEN interrupted ELSE interrupted \cup {p}
  /\ UNCHANGED <<pipe, ends, op, stale, exiting, history>>
-----------------------------------------------------------------------------
(* What the kernel does on a program's behalf, without it having a say.    *)
InCall(p) ==
  \/ Look(p) \/ Ask(p) \/ Check(p) \/ WaitCurrent(p)
  \/ \E len \in 1 .. Capacity : Read(p, len)
  \/ \E len \in 1 .. MaxBytes - put : Write(p, len)
  \/ BrokenPipe(p) \/ Notify(p)
  \/ Finish(p)

Next ==
  \E p \in Programs :
    \/ InCall(p)
    \/ \E kind \in Kinds : Call(p, kind) \/ Drop(p, kind)
    \/ Exit(p)
    \/ Kill(p)
    \/ \E q \in Programs, kinds \in SUBSET Kinds : Duplicate(p, q, kinds)

Spec == Init /\ [][Next]_vars
-----------------------------------------------------------------------------
(* Properties.                                                             *)

\* Types of the pipe, and of the programs around it.
TypeOK ==
  /\ bytes \in Seq(1 .. MaxBytes) /\ Len(bytes) <= Capacity
  /\ readers \in Nat /\ writers \in Nat
  /\ ends \in [Programs -> SUBSET Kinds]
  /\ at \in [Programs -> Places]
  /\ op \in [Programs -> Kinds]
  /\ stale \subseteq Programs /\ interrupted \subseteq Programs
  /\ killed \subseteq Programs /\ exiting \subseteq Programs
  /\ put \in 0 .. MaxBytes /\ got \in Seq(1 .. MaxBytes)

\* A pipe is a queue: what has been read, followed by what is in it, is what was written,
\* however many programs read and write it and are killed meanwhile.
BytesInOrder == got \o bytes = [i \in 1 .. put |-> i]

\* No program waits for PIPE while its read or write could go on, or while it is killed, unless
\* someone is about to notify PIPE (read, write and drop notify after they have let go of the
\* pipe's lock).
NobodyForgotten ==
  \A p \in Programs :
    at[p] = "asleep" /\ (Possible(op[p]) \/ p \in killed) => \E q \in Programs : at[q] = "notify"

\* Who else may take what a call has found (Pipe::read and write look under one hold of the lock and
\* move bytes under another): another program that reads, or writes, the pipe as well.
Shares(p) == \E q \in (IF op[p] = "Read" THEN Readers ELSE Writers) : q # p

\* Whether someone has notified PIPE since p looked, or is about to.
MovedOn(p) == p \in stale \/ \E q \in Programs : at[q] = "notify"

\* A read of nothing has been killed ("or if `stop()` says to give up", Pipe::read), or no writers are
\* left, or another reader was faster: the pipe has changed since this one looked.  A program that is
\* the only one to read gets what rustypi-abi says of all ("0 at the end of a file, or of a pipe once
\* no writers are left").  Likewise for a write that wrote nothing.
ZeroMeansOverStep ==
  \A p \in Programs :
    at[p] = "move" /\ at'[p] = "user" =>
      \/ p \in killed
      \/ (IF op[p] = "Read" THEN writers ELSE readers) = 0
      \/ Shares(p) /\ MovedOn(p)
ZeroMeansOver == [][ZeroMeansOverStep]_vars

\* "a reader knows the input is over once every writer has gone ..., and a writer knows nobody
\* will read once every reader has": a call that must end then.
LeftAlone(p) ==
  at[p] \notin {"unborn", "user", "gone"} /\ (IF op[p] = "Read" THEN writers ELSE readers) = 0
-----------------------------------------------------------------------------
(* Why, for any programs: the ends are counted, so a count that is zero    *)
(* stays zero, and whoever makes a call possible is about to notify.       *)

\* There are n in a set when they can be numbered.
Numbered(n, set) ==
  \E f \in [1 .. n -> set] :
    /\ \A i, j \in 1 .. n : f[i] = f[j] => i = j
    /\ \A p \in set : \E i \in 1 .. n : f[i] = p

CanRead == {p \in Programs : "Read" \in ends[p]}
CanWrite == {p \in Programs : "Write" \in ends[p]}
EndsCounted ==
  /\ Numbered(readers, CanRead) /\ Numbered(writers, CanWrite)
  /\ \A p \in Programs : at[p] = "unborn" => ends[p] = {}

InOrder ==
  /\ Len(got) + Len(bytes) = put
  /\ \A i \in 1 .. Len(got) : got[i] = i
  /\ \A i \in 1 .. Len(bytes) : bytes[i] = Len(got) + i

CallsAllowed ==
  \A p \in Programs : at[p] \in {"look", "ask", "check", "wait", "asleep", "move"} =>
    p \in (IF op[p] = "Read" THEN Readers ELSE Writers)

KillsSeen ==
  \A p \in killed :
    /\ at[p] # "asleep"
    /\ at[p] \in {"check", "wait"} => p \in interrupted

NotifyComing ==
  \A p \in Programs :
    Possible(op[p]) /\ (at[p] = "asleep" \/ (at[p] = "wait" /\ p \notin stale)) =>
      \E q \in Programs : at[q] = "notify"

MovePossible ==
  \A p \in Programs : at[p] = "move" /\ p \notin killed => Possible(op[p]) \/ (Shares(p) /\ MovedOn(p))

PipeInv ==
  TypeOK /\ InOrder /\ EndsCounted /\ CallsAllowed /\ KillsSeen /\ NotifyComing /\ MovePossible
=============================================================================
