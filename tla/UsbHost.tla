------------------------------ MODULE UsbHost ------------------------------
(***************************************************************************)
(* Transfers of the USB host controller driver (src/drivers/usb.rs):       *)
(* control transfers stage by stage, straight to the device or through a   *)
(* high speed hub's transaction translator, polls of an interrupt endpoint *)
(* and bulk transfers.  Every transaction run_channel gives the controller *)
(* may be refused (NAK), go wrong on the way there or on the way back, or  *)
(* never end; what the driver retries, what it gives up on and where it    *)
(* leaves the data toggle decides whether packets are lost or repeated.    *)
(*                                                                         *)
(* A call moves whole packets, numbered in the order the sending side has  *)
(* them.  The device and the translator follow the USB 2.0 rules the       *)
(* driver relies on.                                                       *)
(***************************************************************************)
EXTENDS Integers, Sequences

CONSTANTS
    Uses,           \* the endpoint: [kind, dir, split]
    Packets,        \* packets a control or bulk transfer moves
    MaxSplitErrors, \* MAX_SPLIT_ERRORS
    MaxNyets,       \* MAX_NYETS
    MaxCalls,       \* bound: transfers
    MaxFaults,      \* bound: transactions that go wrong
    MaxNaks         \* bound: transactions refused

VARIABLES
    use,        \* the endpoint this behaviour is about
    pc,         \* "idle", or the transaction run next: "run" (direct), "start", "complete"
    role,       \* what it carries: "setup", "data", "status"
    pid,        \* the PID of the next packet
    done,       \* packets moved in this stage
    got,        \* the DMA buffer: what arrived in this call
    errors, nyets, tries,
    toggle,     \* the endpoint's Toggle, kept by the caller between calls
    device,     \* the device's end: its toggle, the next packet it sends, what it took
    translator, \* the split transaction the translator is on
    delivered,  \* packets handed to callers, from calls that succeeded
    failed,     \* calls that returned an error
    late,       \* interrupt splits started over, the translator's answer overdue
    skewed,     \* a transfer ended without the driver learning the device's toggle
    calls, faults, naks

counters == <<errors, nyets, tries>>
host == <<pc, role, pid, done, got, counters, toggle>>
budget == <<faults, naks>>
vars == <<use, host, device, translator, delivered, failed, late, skewed, calls, budget>>

-----------------------------------------------------------------------------
(* The device's end of a transaction.                                       *)

Toggled(p) == 1 - p

\* The direction of a stage: the status stage goes the other way.
DirOf(r) == IF r = "setup" THEN "out"
            ELSE IF r = "data" THEN use.dir
            ELSE IF use.dir = "in" THEN "out" ELSE "in"

\* The device takes a packet: one with the wrong toggle it has already, and only
\* acknowledges.  SETUP is always taken, and starts the transfer over.
Took(r, p, packet) ==
    CASE r = "setup" -> [toggle |-> 1, next |-> 1, taken |-> <<>>]
      [] r = "status" \/ p # device.toggle -> device
      [] OTHER -> [device EXCEPT !.toggle = Toggled(@), !.taken = Append(@, packet)]

\* The device's packet was acknowledged: it goes on to the next.
Sent(r) == IF r = "status" THEN device
           ELSE [device EXCEPT !.toggle = Toggled(@), !.next = @ + 1]

Acted(r, p, packet) == IF DirOf(r) = "in" THEN Sent(r) ELSE Took(r, p, packet)

\* The packet the host sends next: later calls on a bulk endpoint go on where the last ended.
Sending == done + 1 + IF use.kind = "control" THEN 0 ELSE (calls - 1) * Packets

Fault == faults < MaxFaults /\ faults' = faults + 1 /\ UNCHANGED naks
Refuse == naks < MaxNaks /\ naks' = naks + 1 /\ UNCHANGED faults

-----------------------------------------------------------------------------
(* A call's end.                                                            *)

Idle == pc' = "idle" /\ UNCHANGED <<role, done>>

Ok == /\ Idle
      /\ delivered' = IF use.kind = "control" THEN got' ELSE delivered \o got'
      /\ UNCHANGED failed

Err == Idle /\ failed' = failed + 1 /\ UNCHANGED delivered

Going == UNCHANGED <<delivered, failed>>

\* The packets of the stage under way.
Length == IF role = "data" /\ use.kind # "interrupt" THEN Packets ELSE 1

\* control: after setup, data and status.  (All data here has a length.)
NextRole == IF role = "setup" THEN "data" ELSE "status"
Transaction == IF use.split THEN "start" ELSE "run"

\* Mutated form of FirstPid: DATA0.
FirstPidData0 == 0

\* Data and status stages start with DATA1.
FirstPid == 1

StageDone ==
    IF role = "status"
    THEN Ok /\ UNCHANGED <<pid, counters>>
    ELSE /\ role' = NextRole
         /\ pid' = FirstPid
         /\ done' = 0
         /\ pc' = Transaction
         /\ errors' = 0 /\ nyets' = 0 /\ tries' = 0
         /\ Going

\* One more packet moved.  A device with no more data sends an empty packet: a short packet
\* ends the stage early.
Short(packet) == use.kind = "control" /\ DirOf(role) = "in" /\ packet > Packets
Moved(packet) ==
    IF done + 1 < Length /\ ~Short(packet)
    THEN /\ done' = done + 1
         /\ pid' = Toggled(pid)
         /\ pc' = Transaction
         /\ errors' = 0 /\ nyets' = 0 /\ tries' = 0
         /\ UNCHANGED role
         /\ Going
    ELSE StageDone

Retry(step) == pc' = step /\ UNCHANGED <<role, pid, done>> /\ Going

Keep(bits, packet) ==
    got' = IF bits = "complete" /\ role = "data" /\ use.dir = "in" /\ ~Short(packet)
           THEN Append(got, packet) ELSE got

-----------------------------------------------------------------------------
(* A transaction straight to the device: it ends well, is refused, is lost  *)
(* on the way there or on the way back (a stall ends it like an error).  A  *)
(* packet that comes with the wrong toggle is acknowledged, dropped and     *)
(* reported as an error.                                                    *)

\* A control stage that is refused is run again from its start, into the same buffer.
Kept == IF use.kind = "control" /\ role = "data" THEN <<>> ELSE got

Channel(Outcome(_)) ==
    LET arrived == IF role = "data" /\ use.dir = "in" /\ device.toggle # pid
                   THEN "error" ELSE "complete"
    IN  \/ /\ device' = Acted(role, pid, Sending)
           /\ Keep(arrived, device.next)
           /\ Outcome(arrived)
           /\ UNCHANGED budget
        \/ Refuse /\ got' = Kept /\ UNCHANGED device /\ Outcome("nak")
        \/ Fault /\ UNCHANGED <<device, got>> /\ Outcome("error")
        \/ /\ Fault
           /\ IF DirOf(role) = "out"
              THEN device' = Took(role, pid, Sending) /\ UNCHANGED got /\ Outcome("error")
              ELSE UNCHANGED device /\ Keep(arrived, device.next) /\ Outcome(arrived)

Driver == UNCHANGED <<use, translator, late, calls>>

\* direct_transfer: all the stage's packets in one go; a device that is not ready is asked
\* again from the stage's first packet, for as long as it takes.
DirectTransfer ==
    LET Outcome(bits) ==
            CASE bits = "complete" -> Moved(device.next)
              [] bits = "nak" -> /\ pid' = IF role = "setup" THEN 0 ELSE FirstPid
                                 /\ done' = 0
                                 /\ UNCHANGED <<pc, role, counters>>
                                 /\ Going
              [] OTHER -> Err /\ UNCHANGED <<pid, counters>>
    IN  /\ pc = "run" /\ use.kind = "control"
        /\ Channel(Outcome)
        /\ UNCHANGED <<toggle, skewed>>
        /\ Driver

\* Mutated form of Ended: a poll that failed is one without a report.
EndedQuietly(bits) == IF bits = "complete" THEN Ok ELSE Idle /\ Going

\* interrupt_outcome.
Ended(bits) == CASE bits = "complete" -> Ok
                 [] bits = "nak" -> Idle /\ Going
                 [] OTHER -> Err

\* Mutated form of ToggleAfter: the toggle stays.
ToggleKept(bits) == toggle

\* interrupt_in: the endpoint's toggle moves on with every report.
ToggleAfter(bits) == IF bits = "complete" THEN Toggled(toggle) ELSE toggle

\* direct_interrupt, and interrupt_in around it: the toggle moves on when data arrives.
DirectInterrupt ==
    LET Outcome(bits) ==
            /\ Ended(bits)
            /\ toggle' = ToggleAfter(bits)
            /\ UNCHANGED <<pid, counters>>
    IN  /\ pc = "run" /\ use.kind = "interrupt"
        /\ Channel(Outcome)
        /\ UNCHANGED skewed
        /\ Driver

\* Mutated form of ChannelPid: a transfer refused part way goes on with the PID it began with.
ChannelPidStart(bits) ==
    IF bits = "complete" \/ (bits = "nak" /\ done % 2 = 1) THEN Toggled(pid) ELSE pid

\* channel_pid: where the controller left the toggle.
ChannelPid(bits) == IF bits = "complete" THEN Toggled(pid) ELSE pid

\* bulk: the controller counts the packets and the toggle; refused part way, the transfer
\* carries on from there, until it has taken too long.
Bulk ==
    LET Outcome(bits) ==
            /\ pid' = ChannelPid(bits)
            /\ toggle' = pid'
            /\ UNCHANGED counters
            /\ CASE bits = "complete" ->
                        IF done + 1 < Packets
                        THEN done' = done + 1 /\ UNCHANGED <<pc, role>> /\ Going ELSE Ok
                 [] bits = "nak" -> \/ UNCHANGED <<pc, role, done>> /\ Going
                                    \/ Err
                 [] OTHER -> Err
    IN  /\ pc = "run" /\ use.kind = "bulk"
        /\ Channel(Outcome)
        /\ UNCHANGED skewed
        /\ Driver

\* run_channel: the channel never halts by itself, and is stopped.  Where the toggle got to
\* is not read.
ChannelTimesOut ==
    /\ pc # "idle"
    /\ Fault
    /\ Err
    /\ skewed' = (skewed \/ toggle # device.toggle)
    /\ UNCHANGED <<pid, got, counters, toggle, device>>
    /\ Driver

-----------------------------------------------------------------------------
(* Split transactions.  The translator takes the start split, has its own     *)
(* transaction with the device, and hands over what came of it.              *)

NoSplit == [is |-> "none"]

TranslatorRuns ==
    LET t == translator
        Answer(bits) == translator' = [t EXCEPT !.is = bits, !.packet = device.next,
                                                !.pid = device.toggle]
    IN  /\ t.is = "pending"
        /\ \/ Answer("complete") /\ device' = Acted(t.role, t.pid, t.packet) /\ UNCHANGED budget
           \/ Refuse /\ Answer("nak") /\ UNCHANGED device
           \/ Fault /\ (Answer("error") \/ Answer("stall")) /\ UNCHANGED device
        /\ UNCHANGED <<use, host, delivered, failed, late, skewed, calls>>

Taken == translator' = [is |-> "pending", role |-> role, pid |-> pid, packet |-> Sending]

\* The start split: taken on, refused (the translator is busy), or lost.
StartSplit(Outcome(_)) ==
    \/ Taken /\ Outcome("ack") /\ UNCHANGED budget
    \/ Refuse /\ Outcome("nak") /\ UNCHANGED translator
    \/ Fault /\ Outcome("error") /\ (Taken \/ UNCHANGED translator)

\* The complete split: not yet (for too long, in a fault), the device's answer, or the
\* answer lost.
CompleteSplit(Outcome(_)) ==
    LET t == translator
        bits == IF t.is = "pending" THEN "nyet"
                ELSE IF t.is = "complete" /\ role = "data" /\ use.dir = "in" /\ t.pid # pid
                THEN "error" ELSE t.is
        overdue == IF use.kind = "control" THEN nyets = MaxNyets ELSE tries = 0
    IN  \/ /\ Keep(bits, t.packet)
           /\ Outcome(bits)
           /\ IF bits = "nyet" /\ overdue THEN Fault ELSE UNCHANGED budget
        \/ Fault /\ Outcome("error") /\ UNCHANGED got

Split == UNCHANGED <<use, device, toggle, late, skewed, calls>>

\* split_packet: a packet that takes too long, retries and all, is given up.
SplitTimesOut ==
    /\ pc = "start" /\ use.kind = "control"
    /\ Err
    /\ UNCHANGED <<pid, got, counters, translator, budget>>
    /\ Split

\* split_packet, the start.
SplitStart ==
    LET Outcome(bits) ==
            CASE bits = "ack" -> Retry("complete") /\ nyets' = 0 /\ UNCHANGED <<errors, tries>>
              [] bits = "error" /\ errors = MaxSplitErrors -> Err /\ UNCHANGED <<pid, counters>>
              [] OTHER -> /\ Retry("start")
                          /\ errors' = IF bits = "error" THEN errors + 1 ELSE errors
                          /\ UNCHANGED <<nyets, tries>>
    IN  /\ pc = "start" /\ use.kind = "control"
        /\ StartSplit(Outcome)
        /\ UNCHANGED got
        /\ Split

\* split_packet, the complete splits.
SplitComplete ==
    LET Outcome(bits) ==
            CASE bits = "complete" -> Moved(translator.packet)
              [] bits = "nak" -> Retry("start") /\ UNCHANGED counters
              [] bits = "nyet" /\ nyets = MaxNyets -> Retry("start") /\ UNCHANGED counters
              [] bits = "nyet" -> Retry("complete") /\ nyets' = nyets + 1 /\ UNCHANGED <<errors, tries>>
              [] bits = "stall" \/ errors = MaxSplitErrors -> Err /\ UNCHANGED <<pid, counters>>
              [] OTHER -> Retry("start") /\ errors' = errors + 1 /\ UNCHANGED <<nyets, tries>>
    IN  /\ pc = "complete" /\ use.kind = "control"
        /\ CompleteSplit(Outcome)
        /\ UNCHANGED translator
        /\ Split

\* split_interrupt: at most MAX_SPLIT_ERRORS starts, each with a few complete splits.
InterruptStart ==
    LET Outcome(bits) ==
            CASE bits = "ack" -> /\ Retry("complete")
                                 /\ tries' \in {2, 3}
                                 /\ UNCHANGED <<errors, nyets>>
              [] bits = "nak" -> Idle /\ Going /\ UNCHANGED <<pid, counters>>
              [] OTHER -> Err /\ UNCHANGED <<pid, counters>>
    IN  /\ pc = "start" /\ use.kind = "interrupt"
        /\ StartSplit(Outcome)
        /\ UNCHANGED got
        /\ Split

InterruptComplete ==
    LET Outcome(bits) ==
            /\ CASE bits # "nyet" -> Ended(bits) /\ UNCHANGED <<pid, counters>>
                 [] tries > 0 -> Retry("complete") /\ tries' = tries - 1 /\ UNCHANGED <<errors, nyets>>
                 [] errors + 1 < MaxSplitErrors ->
                        Retry("start") /\ errors' = errors + 1 /\ UNCHANGED <<nyets, tries>>
                 [] OTHER -> Err /\ UNCHANGED <<pid, counters>>
            /\ toggle' = ToggleAfter(bits)
            /\ late' = IF bits = "nyet" /\ tries = 0 THEN late + 1 ELSE late
    IN  /\ pc = "complete" /\ use.kind = "interrupt"
        /\ CompleteSplit(Outcome)
        /\ UNCHANGED <<use, device, translator, skewed, calls>>

-----------------------------------------------------------------------------
(* The callers.                                                             *)

Call ==
    /\ pc = "idle" /\ calls < MaxCalls
    /\ calls' = calls + 1
    /\ pc' = Transaction
    /\ role' = IF use.kind = "control" THEN "setup" ELSE "data"
    /\ pid' = IF use.kind = "control" THEN 0 ELSE toggle
    /\ done' = 0 /\ got' = <<>>
    /\ errors' = 0 /\ nyets' = 0 /\ tries' = 0
    /\ UNCHANGED <<use, toggle, device, translator, delivered, failed, late, skewed, budget>>

Init ==
    /\ use \in Uses
    /\ pc = "idle" /\ role = "data" /\ pid = 0 /\ done = 0 /\ got = <<>>
    /\ errors = 0 /\ nyets = 0 /\ tries = 0
    /\ toggle = 0
    /\ device = [toggle |-> 0, next |-> 1, taken |-> <<>>]
    /\ translator = NoSplit
    /\ delivered = <<>> /\ failed = 0 /\ late = 0 /\ skewed = FALSE
    /\ calls = 0 /\ faults = 0 /\ naks = 0

Next == \/ Call \/ DirectTransfer \/ DirectInterrupt \/ Bulk \/ ChannelTimesOut
        \/ TranslatorRuns \/ SplitTimesOut \/ SplitStart \/ SplitComplete \/ InterruptStart \/ InterruptComplete

\* The caller's task runs, and time passes.
Spec == Init /\ [][Next]_vars /\ WF_vars(Next) /\ WF_vars(TranslatorRuns)
             /\ SF_vars(SplitTimesOut)

-----------------------------------------------------------------------------
TypeOK ==
    /\ pc \in {"idle", "run", "start", "complete"}
    /\ role \in {"setup", "data", "status"}
    /\ pid \in 0..1 /\ toggle \in 0..1 /\ device.toggle \in 0..1
    /\ done \in 0..(Packets - 1)
    /\ errors \in 0..MaxSplitErrors /\ nyets \in 0..MaxNyets /\ tries \in 0..3

Increasing(s) == \A i, j \in DOMAIN s : i < j => s[i] < s[j]

\* A control transfer that succeeds moved its data exactly once and in order, whatever was
\* retried on the way: packets sent again are told apart by their toggle.  One that lost a
\* packet to a split started over comes out short, never with other data of the same length.
\* (With three packets it would not hold: a stage refused after its second packet starts over
\* with the toggle the device expects.  OUT stages of this kernel are one packet.)
ControlExact ==
    use.kind = "control" /\ pc = "idle" /\ calls > 0 /\ failed = 0 =>
        IF use.dir = "in" THEN Len(delivered) = Packets => delivered = [i \in 1..Packets |-> i]
        ELSE device.taken = [i \in 1..Packets |-> i]

\* Reports of an interrupt endpoint, and bursts of a bulk one, reach the caller in order and
\* none twice, though the device sends again what it thinks was not received.
InOrderOnce == use.kind # "control" => Increasing(delivered)

\* None is lost silently: every loss goes with an error the caller saw (at most what one
\* transfer carries and what it takes to agree on the toggle again), or with a translator
\* that answered after the driver had stopped asking.
Lost == device.next - 1 - Len(delivered)
LossReported ==
    use.kind # "control" /\ use.dir = "in" /\ pc = "idle" =>
        Lost <= failed * (Packets + 1) + late + (IF toggle = device.toggle THEN 0 ELSE 1)

\* A bulk OUT transfer that succeeds reached the device whole and in order, unless the
\* driver lost track of the device's toggle before.
SentWhole ==
    use.kind = "bulk" /\ use.dir = "out" /\ ~skewed =>
        /\ Increasing(device.taken)
        /\ pc = "idle" /\ failed = 0 => Len(device.taken) = calls * Packets

\* What has to end: retries are bounded or run out of time, as long as a device that is asked
\* again straight away is ready in the end.
InTransfer == pc # "idle"
=============================================================================
