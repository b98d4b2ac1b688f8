------------------------------- MODULE SdCard -------------------------------
(***************************************************************************)
(* The SD card driver (drivers/sdcard.rs): the commands that identify the  *)
(* card, the transfers behind the block device, and the recovery after a   *)
(* failed one.  The driver polls: it sends a command to the controller,    *)
(* then waits for flags of the INTERRUPT register, each wait with a        *)
(* timeout.  The controller and the card run beside it: an answer may come *)
(* late (after the driver has given up), come garbled, or not come.        *)
(*                                                                         *)
(* A call goes through legs, each a script of steps.  The device is        *)
(* modelled from how the driver uses it: the controller runs one command   *)
(* at a time and raises flags, the card is in one of the states of the SD  *)
(* specification.                                                          *)
(***************************************************************************)
EXTENDS Naturals, Sequences, FiniteSets, SequencesExt

CONSTANTS Blocks,        \* the card's blocks, 0..n
          AddressSpan,   \* how many addresses a command's argument has (2^32)
          BlockBytes,    \* BLOCK_SIZE
          MaxPerTransfer,\* MAX_BLOCKS_PER_TRANSFER
          Cards,         \* the cards that may be in the slot: [version2, highCapacity]
          MaxCalls,      \* bound: transfers asked for
          MaxLength,     \* bound: blocks a transfer asks for
          MaxFaults      \* bound: late, garbled and failed answers

VARIABLES card,                      \* the card: [version2, highCapacity, powered, wide, burst]
          state, store, incoming,    \* its state, its blocks, what it received and has not programmed
          running, flags, fifo,      \* the controller: the command it runs, INTERRUPT, the data port
          answer,                    \* RESP0: the card's state and power bit when it answered
          leg, script,               \* the driver: the leg of the call it is in, and the steps left
          call, result, got,         \* the call, what it returned, the blocks it has read
          version2, highCapacity, width,  \* what init found out
          calls, faults, quiet       \* bounds; no fault since the call began

device == <<card, state, store, incoming, running, flags, fifo, answer>>
found == <<version2, highCapacity, width>>
vars == <<device, leg, script, call, result, got, found, calls, faults, quiet>>

-----------------------------------------------------------------------------
\* The commands: an R1b answer (busy) ends with DATA_DONE, and so does a data transfer.
Busy == {"SELECT_CARD", "STOP_TRANSMISSION"}
Reads == {"READ_BLOCKS", "SWITCH_FUNC"}
Writes == {"WRITE_BLOCKS"}

\* The steps of a script.
Send(cmd, at, count) == [do |-> "send", cmd |-> cmd, at |-> at, count |-> count]
Await(flag) == [do |-> "await", flag |-> flag]
Pull == [do |-> "pull"]
Push(value) == [do |-> "push", value |-> value]
Check(what) == [do |-> "check", what |-> what]
CheckAddress(lba) == [do |-> "check", what |-> "address", lba |-> lba]
Reset == [do |-> "reset"]

\* SdCard::command
Command(cmd, at, count) ==
  <<Send(cmd, at, count), Await("CMD_DONE")>> \o IF cmd \in Busy THEN <<Await("DATA_DONE")>> ELSE <<>>
Simple(cmd) == Command(cmd, 0, 0)
\* Mutated form of Poll: the card may still be programming at the end.
PollNot == <<>>

\* wait_until_programmed: one round of it; the check asks for another.
Poll == Simple("SEND_STATUS") \o <<Check("programmed")>>

\* address: a standard capacity card takes byte offsets, and they must fit the argument.
InRange(lba) == (IF highCapacity THEN lba ELSE lba * BlockBytes) < AddressSpan

\* read_many and write_many: chunks of at most MAX_BLOCKS_PER_TRANSFER blocks, a command each.
InChunks(n, each(_, _)) ==
  FlattenSeq([i \in 1..((n + MaxPerTransfer - 1) \div MaxPerTransfer) |->
                LET at == (i - 1) * MaxPerTransfer
                IN  each(at, IF at + MaxPerTransfer <= n THEN MaxPerTransfer ELSE n - at)])
Times(n, steps) == FlattenSeq([i \in 1..n |-> steps])

\* read_one and read_many, with read_data
ReadScript(lba, n) ==
  InChunks(n, LAMBDA at, count :
    <<CheckAddress(lba + at)>> \o Command("READ_BLOCKS", lba + at, count)
    \o Times(count, <<Await("READ_RDY"), Pull>>) \o <<Await("DATA_DONE")>>)

\* write_one and write_many, with write_data
WriteScript(lba, n, value) ==
  InChunks(n, LAMBDA at, count :
    <<CheckAddress(lba + at)>> \o Command("WRITE_BLOCKS", lba + at, count)
    \o Times(count, <<Await("WRITE_RDY"), Push(value)>>) \o <<Await("DATA_DONE")>> \o Poll)

\* Mutated form of Stop: recover does not stop the card.
StopNot == <<>>

\* recover's STOP_TRANSMISSION, whose outcome is ignored.
Stop == Simple("STOP_TRANSMISSION")

\* init's legs, and transfer's.  use_4_bit_bus and use_high_speed are the last two of init.
Script(l) ==
  CASE l = "idle" -> Simple("GO_IDLE_STATE")
    [] l = "version" -> Simple("SEND_IF_COND")
    [] l = "power" -> Simple("APP_CMD") \o Simple("SD_SEND_OP_COND") \o <<Check("ready")>>
    [] l = "identify" -> Simple("ALL_SEND_CID") \o Simple("SEND_RELATIVE_ADDR") \o Simple("SEND_CSD")
                         \o Simple("SELECT_CARD")
    [] l = "blocklen" -> IF highCapacity THEN <<>> ELSE Simple("SET_BLOCKLEN")
    [] l = "bus" -> Simple("APP_CMD") \o Simple("SET_BUS_WIDTH")
    [] l = "speed" -> Command("SWITCH_FUNC", 0, 1) \o <<Await("READ_RDY"), Pull, Await("DATA_DONE")>>
    [] l \in {"versionReset", "busReset", "speedReset", "reset1", "reset2"} -> <<Reset>>
    [] l = "stop" -> Stop
    [] OTHER -> <<>>

-----------------------------------------------------------------------------
NoCommand == [cmd |-> "none", stage |-> "none", at |-> 0, left |-> 0, room |-> FALSE]
InCall == leg \notin {"rest", "dead"}

Init ==
  /\ card \in {[version2 |-> c.version2, highCapacity |-> c.highCapacity,
                powered |-> FALSE, wide |-> FALSE, burst |-> FALSE] : c \in Cards}
  /\ state = "idle" /\ store = [b \in Blocks |-> 0] /\ incoming = <<>>
  /\ running = NoCommand /\ flags = {} /\ fifo = <<>> /\ answer = [state |-> "idle", ready |-> FALSE, highCapacity |-> FALSE]
  /\ version2 = FALSE /\ highCapacity = FALSE /\ width = 1
  /\ leg = "idle" /\ script = Script("idle")
  /\ call = [kind |-> "init", ready |-> FALSE] /\ result = "none" /\ got = <<>>
  /\ calls = 0 /\ faults = 0 /\ quiet = TRUE

At(do) == script # <<>> /\ Head(script).do = do
StepDone == script' = Tail(script) /\ UNCHANGED <<leg, result>>
Enter(l) == leg' = l /\ script' = Script(l) /\ UNCHANGED result
Answer(r) ==
  /\ leg' = IF call.kind = "init" /\ r = "error" THEN "dead" ELSE "rest"
  /\ script' = <<>> /\ result' = r

\* A fault is met, within the bound.
Fault == faults < MaxFaults /\ faults' = faults + 1 /\ quiet' = FALSE
NoFault == UNCHANGED <<faults, quiet>>

\* A step fails: with an error flag of the controller (`flagged') or by a timeout.  Only a card
\* that does not answer SEND_IF_COND, or turns a speed-up down, is let off; transfer recovers
\* from anything, and ignores what goes wrong while it does.
StepFailed(flagged) ==
  CASE leg = "version" /\ flagged -> Enter("versionReset")
    [] leg = "bus" -> Enter("busReset")
    [] leg = "speed" -> Enter("speedReset")
    [] leg = "transfer" -> Enter("reset1")
    [] leg = "reset1" -> Enter("stop")
    [] leg = "stop" -> Enter("reset2")
    [] OTHER -> Answer("error")

\* Mutated form of Capacity: every card of version 2 is taken for a high capacity one.
CapacityGuessed == version2

\* The capacity bit of the card's last answer to SD_SEND_OP_COND.
Capacity == answer.highCapacity

\* A leg has run to its end.
LegDone ==
  /\ InCall /\ script = <<>>
  /\ version2' = IF leg = "version" THEN TRUE ELSE version2
  /\ highCapacity' = IF leg = "power" THEN Capacity ELSE highCapacity
  /\ width' = IF leg = "bus" THEN 4 ELSE width
  /\ CASE leg = "idle" -> Enter("version")
       [] leg \in {"version", "versionReset"} -> Enter("power")
       [] leg = "power" -> Enter("identify")
       [] leg = "identify" -> Enter("blocklen")
       [] leg = "blocklen" -> Enter("bus")
       [] leg \in {"bus", "busReset"} -> Enter("speed")
       [] leg \in {"speed", "speedReset", "transfer"} -> Answer("ok")
       [] leg = "reset1" -> Enter("stop")
       [] leg = "stop" -> Enter("reset2")
       [] leg = "reset2" -> Answer("error")
  /\ UNCHANGED <<device, call, got, calls, faults, quiet>>

\* read_blocks and write_blocks.  A call's number is the value it writes.
Transfer(kind, lba, n) ==
  /\ leg = "rest" /\ calls < MaxCalls
  /\ lba + n - 1 \in Blocks
  /\ calls' = calls + 1
  /\ leg' = "transfer"
  /\ script' = IF kind = "read" THEN ReadScript(lba, n) ELSE WriteScript(lba, n, calls')
  /\ call' = [kind |-> kind, lba |-> lba, n |-> n, value |-> calls',
              ready |-> state = "tran" /\ running = NoCommand]
  /\ result' = "none" /\ got' = <<>> /\ quiet' = TRUE
  /\ UNCHANGED <<device, found, faults>>

-----------------------------------------------------------------------------
\* The driver's steps.

\* command: once the lines are idle, clear INTERRUPT and send.
SendCommand ==
  /\ At("send") /\ running = NoCommand
  /\ flags' = {}
  /\ running' = [cmd |-> Head(script).cmd, stage |-> "sent", at |-> Head(script).at,
               left |-> Head(script).count, room |-> FALSE]
  /\ StepDone /\ NoFault
  /\ UNCHANGED <<card, state, store, incoming, fifo, answer, call, got, found, calls>>

Flagged(flag) == flag \in flags

\* wait_for: an error flag wins, and clears INTERRUPT; the flag waited for is cleared alone.
WaitFor ==
  /\ At("await")
  /\ \/ /\ Flagged("ERROR")
        /\ flags' = {}
        /\ StepFailed(TRUE)
     \/ /\ ~Flagged("ERROR") /\ Flagged(Head(script).flag)
        /\ flags' = flags \ {Head(script).flag}
        /\ StepDone
  /\ NoFault
  /\ UNCHANGED <<card, state, store, incoming, running, fifo, answer, call, got, found, calls>>

\* wait: the time is up while the answer is still coming, or while the lines are busy.
TimeOut ==
  /\ \/ At("await") /\ ~Flagged("ERROR") /\ ~Flagged(Head(script).flag)
     \/ At("send") /\ running # NoCommand
  /\ IF At("send") THEN NoFault ELSE Fault
  /\ StepFailed(FALSE)
  /\ UNCHANGED <<device, call, got, found, calls>>

\* read_data: the words of a block, which are anything once the controller has given up on it.
Garbage == MaxCalls + 1
PullBlock ==
  /\ At("pull")
  /\ got' = IF leg # "transfer" THEN got ELSE Append(got, IF fifo = <<>> THEN Garbage ELSE fifo[1])
  /\ fifo' = <<>>
  /\ StepDone /\ NoFault
  /\ UNCHANGED <<card, state, store, incoming, running, flags, answer, call, found, calls>>

\* write_data
PushBlock ==
  /\ At("push")
  /\ fifo' = <<Head(script).value>>
  /\ StepDone /\ NoFault
  /\ UNCHANGED <<card, state, store, incoming, running, flags, answer, call, got, found, calls>>

\* A high capacity card never gets ready for a host that does not say it supports one.
GetsReady == card.highCapacity => version2

\* Mutated form of AsksAgain: one question must do.
AsksAgainNever(what) == FALSE

\* Until the time is up, a card that programs or powers up is asked again.
AsksAgain(what) == what = "programmed" \/ (what = "ready" /\ GetsReady)

\* What the driver makes of an answer: go on, ask again, or give up when the time is up; an
\* address it cannot send.
CheckAnswer ==
  LET what == Head(script).what
      good == CASE what = "programmed" -> answer.state = "tran"
                [] what = "ready" -> answer.ready
                [] what = "address" -> InRange(Head(script).lba)
  IN  /\ At("check")
      /\ \/ good /\ StepDone /\ NoFault
         \/ /\ ~good /\ AsksAgain(what) /\ NoFault
            /\ IF what = "ready" THEN Enter("power")
               ELSE script' = Poll \o Tail(script) /\ UNCHANGED <<leg, result>>
         \/ /\ ~good /\ StepFailed(FALSE)
            /\ IF AsksAgain(what) THEN Fault ELSE NoFault
      /\ UNCHANGED <<device, call, got, found, calls>>

\* reset_lines and reset_command_line: the controller drops what it was doing.
ResetStep ==
  /\ At("reset")
  /\ running' = NoCommand /\ fifo' = <<>>
  /\ StepDone /\ NoFault
  /\ UNCHANGED <<card, state, store, incoming, flags, answer, call, got, found, calls>>
ResetTimeOut ==
  /\ At("reset")
  /\ Fault /\ StepFailed(FALSE)
  /\ UNCHANGED <<device, call, got, found, calls>>

-----------------------------------------------------------------------------
\* The controller and the card.

Raise(flag) == flags' = flags \cup {flag}

\* Data gets through only while the card and the host use the same data lines.
SameLines == card.wide <=> width = 4

\* The states in which the card takes a command, and the one it goes to.
Takes(cmd) ==
  CASE cmd = "GO_IDLE_STATE" -> TRUE
    [] cmd = "SEND_IF_COND" -> state = "idle" /\ card.version2
    [] cmd = "SD_SEND_OP_COND" -> state = "idle"
    [] cmd = "ALL_SEND_CID" -> state = "ready"
    [] cmd = "SEND_RELATIVE_ADDR" -> state = "ident"
    [] cmd \in {"SEND_CSD", "SELECT_CARD"} -> state = "stby"
    [] cmd = "APP_CMD" -> TRUE
    [] cmd = "SEND_STATUS" -> state \in {"stby", "tran", "data", "rcv", "prg"}
    [] cmd = "STOP_TRANSMISSION" -> state \in {"data", "rcv"}
    [] OTHER -> state = "tran"
Then(cmd) ==
  CASE cmd = "SD_SEND_OP_COND" /\ card.powered /\ GetsReady -> "ready"
    [] cmd = "ALL_SEND_CID" -> "ident"
    [] cmd = "SEND_RELATIVE_ADDR" -> "stby"
    [] cmd = "SELECT_CARD" -> "tran"
    [] cmd \in Reads -> "data"
    [] cmd \in Writes -> "rcv"
    [] cmd = "STOP_TRANSMISSION" -> IF state = "rcv" /\ incoming # <<>> THEN "prg" ELSE "tran"
    [] OTHER -> state

\* The card takes the command: its answer arrives, or arrives garbled.
Obey ==
  /\ state' = Then(running.cmd)
  /\ card' = [card EXCEPT !.wide = @ \/ running.cmd = "SET_BUS_WIDTH",
                          !.burst = running.cmd \in Reads /\ running.left > 1]
  /\ answer' = [state |-> state, ready |-> card.powered /\ GetsReady, highCapacity |-> card.highCapacity]
Respond ==
  /\ running.stage = "sent" /\ Takes(running.cmd)
  /\ Obey
  /\ Raise("CMD_DONE")
  /\ running' = IF running.cmd \in Busy \cup Reads \cup Writes THEN [running EXCEPT !.stage = "data"] ELSE NoCommand
  /\ NoFault
  /\ UNCHANGED <<store, incoming, fifo, leg, script, call, result, got, found, calls>>
Garble ==
  /\ running.stage = "sent" /\ Takes(running.cmd)
  /\ Obey
  /\ Raise("ERROR")
  /\ running' = NoCommand
  /\ Fault
  /\ UNCHANGED <<store, incoming, fifo, leg, script, call, result, got, found, calls>>
\* The card does not take it (in its state it may not), or does not hear it.
Ignore ==
  /\ running.stage = "sent"
  /\ IF Takes(running.cmd) THEN Fault ELSE NoFault
  /\ Raise("ERROR")
  /\ running' = NoCommand
  /\ UNCHANGED <<card, state, store, incoming, fifo, answer, leg, script, call, result, got, found, calls>>

\* A block to read is there; or the last one has been read.
ReadReady ==
  /\ running.stage = "data" /\ running.cmd \in Reads /\ running.left > 0 /\ fifo = <<>> /\ SameLines
  /\ fifo' = <<IF running.cmd = "READ_BLOCKS" THEN store[running.at] ELSE 0>>
  /\ running' = [running EXCEPT !.at = @ + 1, !.left = @ - 1]
  /\ Raise("READ_RDY") /\ NoFault
  /\ UNCHANGED <<card, state, store, incoming, answer, leg, script, call, result, got, found, calls>>
\* Room for a block; a pushed block goes to the card.
WriteReady ==
  /\ running.stage = "data" /\ running.cmd \in Writes /\ running.left > 0 /\ ~running.room /\ SameLines
  /\ running' = [running EXCEPT !.room = TRUE]
  /\ Raise("WRITE_RDY") /\ NoFault
  /\ UNCHANGED <<card, state, store, incoming, fifo, answer, leg, script, call, result, got, found, calls>>
Receive ==
  /\ running.stage = "data" /\ running.cmd \in Writes /\ running.room /\ fifo # <<>>
  /\ incoming' = Append(incoming, [at |-> running.at, value |-> fifo[1]])
  /\ fifo' = <<>>
  /\ running' = [running EXCEPT !.at = @ + 1, !.left = @ - 1, !.room = FALSE]
  /\ NoFault
  /\ UNCHANGED <<card, state, store, flags, answer, leg, script, call, result, got, found, calls>>
\* The end of a transfer (with the automatic STOP of a long one), or of being busy.
DataDone ==
  /\ running.stage = "data" /\ running.left = 0
  /\ IF running.cmd \in Busy THEN state # "prg" ELSE fifo = <<>>
  /\ state' = CASE running.cmd \in Reads -> "tran"
                [] running.cmd \in Writes -> "prg"
                [] OTHER -> state
  /\ running' = NoCommand
  /\ Raise("DATA_DONE") /\ NoFault
  /\ UNCHANGED <<card, store, incoming, fifo, answer, leg, script, call, result, got, found, calls>>
DataError ==
  /\ running.stage = "data" /\ running.cmd \in Reads \cup Writes
  /\ running' = NoCommand /\ fifo' = <<>>
  /\ Raise("ERROR")
  /\ IF SameLines THEN Fault ELSE NoFault
  /\ UNCHANGED <<card, state, store, incoming, answer, leg, script, call, result, got, found, calls>>

\* The card writes what it received, and is powered up after a while.
Program ==
  /\ state = "prg"
  /\ store' = [b \in Blocks |->
                 LET last == SelectLastInSeq(incoming, LAMBDA w : w.at = b)
                 IN  IF last = 0 THEN store[b] ELSE incoming[last].value]
  /\ incoming' = <<>> /\ state' = "tran"
  /\ UNCHANGED <<card, running, flags, fifo, answer, leg, script, call, result, got, found, calls, faults, quiet>>
\* A single block is sent to its end even if the host has given up; a burst until it is stopped.
SendsOn ==
  /\ state = "data" /\ ~card.burst /\ running.stage # "data"
  /\ state' = "tran"
  /\ UNCHANGED <<card, store, incoming, running, flags, fifo, answer, leg, script, call, result, got, found, calls, faults, quiet>>
PowersUp ==
  /\ ~card.powered
  /\ card' = [card EXCEPT !.powered = TRUE]
  /\ UNCHANGED <<state, store, incoming, running, flags, fifo, answer, leg, script, call, result, got, found, calls, faults, quiet>>

-----------------------------------------------------------------------------
Driver == LegDone \/ SendCommand \/ WaitFor \/ TimeOut \/ PullBlock \/ PushBlock \/ CheckAnswer
          \/ ResetStep \/ ResetTimeOut
Device == Respond \/ Garble \/ Ignore \/ ReadReady \/ WriteReady \/ Receive \/ DataDone \/ DataError
Next ==
  \/ Driver \/ Device \/ Program \/ SendsOn \/ PowersUp
  \/ \E kind \in {"read", "write"}, lba \in Blocks, n \in 1..MaxLength : Transfer(kind, lba, n)

Spec == Init /\ [][Next]_vars

-----------------------------------------------------------------------------
\* The variables hold what their code counterparts can, and the transfer in hand is in range.
TypeOK ==
  /\ state \in {"idle", "ready", "ident", "stby", "tran", "data", "rcv", "prg"}
  /\ store \in [Blocks -> 0..MaxCalls]
  /\ flags \subseteq {"CMD_DONE", "DATA_DONE", "READ_RDY", "WRITE_RDY", "ERROR"}
  /\ Len(fifo) <= 1 /\ Len(incoming) <= MaxPerTransfer
  /\ width \in {1, 4}
  /\ result \in {"none", "ok", "error"}

\* A transfer that returned Ok has moved every block: what was written is on the card, what was
\* read is what the card holds, in order.
OkMeansDone ==
  leg = "rest" /\ result = "ok" =>
    /\ call.kind = "write" => \A i \in 0..(call.n - 1) : store[call.lba + i] = call.value
    /\ call.kind = "read" => got = [i \in 1..call.n |-> store[call.lba + i - 1]]
    /\ call.kind # "init" => state = "tran" /\ running = NoCommand

\* A card that can be used at all is addressed the way it expects.
AddressedRight == leg = "rest" => (highCapacity <=> card.highCapacity)

\* A failed transfer does not spoil the next one: with the card ready when a transfer starts and
\* nothing going wrong during it, it succeeds, whatever failed before.
QuietTransferSucceeds ==
  leg = "rest" /\ quiet /\ call.ready /\ SameLines =>
    result = "ok" \/ (call.kind # "init" /\ \E i \in 0..(call.n - 1) : ~InRange(call.lba + i))

\* And recovery leaves the card ready, or about to be: never in the middle of a transfer.
RecoveryStopsCard ==
  leg = "rest" /\ quiet /\ call.kind # "init" => state \in {"tran", "prg"} /\ running = NoCommand
=============================================================================
