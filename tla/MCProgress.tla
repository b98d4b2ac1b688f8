----------------------------- MODULE MCProgress ------------------------------
(***************************************************************************)
(* That what must happen does. Calls that wait for a device, a program or  *)
(* the network return, nothing received is forgotten, the clock goes on    *)
(* being set, and whoever waits for a lock gets it. Each behaviour is of   *)
(* one component, under the fairness that component may rely on. The locks *)
(* are those of Mutex, with its variables and its properties, and as they  *)
(* are at first in the behaviours of others.                               *)
(***************************************************************************)
EXTENDS Integers, Sequences, TLC, Mutex

CONSTANTS t1, t2, t3, l1, l2, root, hub, k, peer, gateway, far, s1, s2, c1, c2, n1, pool, bad, maker, second,
          Blocks, AddressSpan, BlockBytes, MaxPerTransfer, Cards, MaxCalls, MaxLength,
          CardMaxFaults, Devices, Root, Kind, SpeedOf, PortsOf, Arrangements, MaxDepth,
          MaxAddress, MaxPlugs, TreeMaxFaults, Uses, Packets, MaxSplitErrors, MaxNyets,
          HostMaxFaults, MaxNaks, RxLength, RxMaxBytes, Servers, RetryTime, RenewTime,
          RequestTries, MaxXid, Local, Remote, Gateway, ArpCache, ArpRetry, ArpGiveUp,
          PingTimeout, PingWait, MaxPackets, MaxMoves, Callers, Names, Pool, Bad, IdMod, Seed,
          DnsTries, DnsRetry, MaxAnswers, UsbWait, SntpTries, SntpRetry, Resync, ClockRetry,
          MaxLate, MaxAge, MaxTasks, MaxHandles, Asids, MaxFile, Sizes, Budget, MaxInput,
          PipePrograms, Maker, Readers, Writers, Killable, PipeCapacity, PipeMaxBytes

MCCards == {[version2 |-> FALSE, highCapacity |-> FALSE], [version2 |-> TRUE, highCapacity |-> FALSE],
            [version2 |-> TRUE, highCapacity |-> TRUE]}

\* A root hub with a port, a hub with a port, and a keyboard.
MCKind == root :> "hub" @@ hub :> "hub" @@ k :> "keyboard"
MCSpeedOf == root :> "high" @@ hub :> "high" @@ k :> "low"
MCPortsOf == root :> 1 @@ hub :> 1
MCArrangements == {hub :> <<>> @@ k :> <<>>, hub :> <<root, 1>> @@ k :> <<hub, 1>>}

MCUses == [kind : {"control"}, dir : {"in", "out"}, split : BOOLEAN]
            \cup [kind : {"interrupt"}, dir : {"in"}, split : BOOLEAN]
            \cup [kind : {"bulk"}, dir : {"in", "out"}, split : {FALSE}]

VARIABLES part,  \* the component whose behaviour this is
          \* its variables, as the INSTANCE lists them
          v1, v2, v3, v4, v5, v6, v7, v8, v9, v10, v11, v12, v13, v14, v15, v16, v17, v18, v19

Card == INSTANCE SdCard WITH
  MaxFaults <- CardMaxFaults, card <- v1, state <- v2, store <- v3, incoming <- v4,
  running <- v5, flags <- v6, fifo <- v7, answer <- v8, leg <- v9, script <- v10, call <- v11,
  result <- v12, got <- v13, version2 <- v14, highCapacity <- v15, width <- v16, calls <- v17,
  faults <- v18, quiet <- v19
Tree == INSTANCE UsbTree WITH
  MaxFaults <- TreeMaxFaults, up <- v1, port <- v2, address <- v3, tree <- v4, used <- v5,
  stack <- v6, at <- v7, cur <- v8, removed <- v9, keyboard <- v10, refused <- v11,
  plugs <- v12, faults <- v13, overlooked <- v14, orphaned <- v15, stuck <- v16
Host == INSTANCE UsbHost WITH
  MaxFaults <- HostMaxFaults, use <- v1, pc <- v2, role <- v3, pid <- v4, done <- v5,
  got <- v6, errors <- v7, nyets <- v8, tries <- v9, toggle <- v10, device <- v11,
  translator <- v12, delivered <- v13, failed <- v14, late <- v15, skewed <- v16, calls <- v17,
  faults <- v18, naks <- v19
Rx == INSTANCE RxQueue WITH
  Length <- RxLength, MaxBytes <- RxMaxBytes, entries <- v1, head <- v2, tail <- v3,
  overflowed <- v4, handler <- v5, task <- v6, popped <- v7, stale <- v8, received <- v9,
  fit <- v10, unsaid <- v11, out <- v12
Dhcp == INSTANCE Dhcp WITH
  dhcp <- v1, config <- v2, events <- v3, status <- v4, lastXid <- v5, asked <- v6,
  replies <- v7
Arp == INSTANCE Neighbours WITH
  config <- v1, cache <- v2, waiting <- v3, pings <- v4, asked <- v5, gone <- v6,
  packets <- v7, requests <- v8, answers <- v9, caller <- v10, mac <- v11, moves <- v12
Dns == INSTANCE NetTask WITH
  task <- v1, usb <- v2, waited <- v3, config <- v4, requests <- v5, answers <- v6,
  number <- v7, callers <- v8, nextId <- v9, pending <- v10, sync <- v11, asked <- v12
Clock == INSTANCE ClockSync WITH
  Retry <- ClockRetry, sync <- v1, wire <- v2, clock <- v3, late <- v4, polled <- v5
Prog == INSTANCE Programs WITH
  processes <- v1, at <- v2, call <- v3, leaving <- v4, exit <- v5, asids <- v6, held <- v7,
  tlb <- v8, printed <- v9, letGo <- v10
Pipe == INSTANCE Pipe WITH
  Programs <- PipePrograms, Capacity <- PipeCapacity, MaxBytes <- PipeMaxBytes, bytes <- v1,
  readers <- v2, writers <- v3, ends <- v4, at <- v5, op <- v6, stale <- v7, interrupted <- v8,
  killed <- v9, exiting <- v10, put <- v11, got <- v12

others == <<v1, v2, v3, v4, v5, v6, v7, v8, v9, v10, v11, v12, v13, v14, v15, v16, v17, v18, v19>>
allVars == <<part, vars, others>>

\* The variables a component has no use for.
Unused == 0

CardKeeps == UNCHANGED <<part, vars>>
TreeKeeps == UNCHANGED <<part, vars, v17, v18, v19>>
HostKeeps == UNCHANGED <<part, vars>>
RxKeeps == UNCHANGED <<part, vars, v13, v14, v15, v16, v17, v18, v19>>
DhcpKeeps == UNCHANGED <<part, vars, v8, v9, v10, v11, v12, v13, v14, v15, v16, v17, v18, v19>>
ArpKeeps == UNCHANGED <<part, vars, v13, v14, v15, v16, v17, v18, v19>>
DnsKeeps == UNCHANGED <<part, vars, v13, v14, v15, v16, v17, v18, v19>>
ClockKeeps == UNCHANGED <<part, vars, v6, v7, v8, v9, v10, v11, v12, v13, v14, v15, v16, v17, v18, v19>>
ProgKeeps == UNCHANGED <<part, vars, v11, v12, v13, v14, v15, v16, v17, v18, v19>>
LockKeeps == UNCHANGED <<part, others>>
PipeKeeps == UNCHANGED <<part, vars, v13, v14, v15, v16, v17, v18, v19>>

Starts ==
  \/ part = "card" /\ Card!Init
  \/ part = "tree" /\ Tree!Init
     /\ v17 = Unused /\ v18 = Unused /\ v19 = Unused
  \/ part = "host" /\ Host!Init
  \/ part = "receiving" /\ Rx!Init
     /\ v13 = Unused /\ v14 = Unused /\ v15 = Unused /\ v16 = Unused /\ v17 = Unused
     /\ v18 = Unused /\ v19 = Unused
  \/ part = "dhcp" /\ Dhcp!Init
     /\ v8 = Unused /\ v9 = Unused /\ v10 = Unused /\ v11 = Unused /\ v12 = Unused
     /\ v13 = Unused /\ v14 = Unused /\ v15 = Unused /\ v16 = Unused /\ v17 = Unused
     /\ v18 = Unused /\ v19 = Unused
  \/ part = "neighbours" /\ Arp!Init
     /\ v13 = Unused /\ v14 = Unused /\ v15 = Unused /\ v16 = Unused /\ v17 = Unused
     /\ v18 = Unused /\ v19 = Unused
  \/ part = "lookups" /\ Dns!Init
     /\ v13 = Unused /\ v14 = Unused /\ v15 = Unused /\ v16 = Unused /\ v17 = Unused
     /\ v18 = Unused /\ v19 = Unused
  \/ part = "clock" /\ Clock!Init
     /\ v6 = Unused /\ v7 = Unused /\ v8 = Unused /\ v9 = Unused /\ v10 = Unused
     /\ v11 = Unused /\ v12 = Unused /\ v13 = Unused /\ v14 = Unused /\ v15 = Unused
     /\ v16 = Unused /\ v17 = Unused /\ v18 = Unused /\ v19 = Unused
  \/ part = "programs" /\ Prog!Init
     /\ v11 = Unused /\ v12 = Unused /\ v13 = Unused /\ v14 = Unused /\ v15 = Unused
     /\ v16 = Unused /\ v17 = Unused /\ v18 = Unused /\ v19 = Unused
  \/ part = "pipe" /\ Pipe!Init
     /\ v13 = Unused /\ v14 = Unused /\ v15 = Unused /\ v16 = Unused /\ v17 = Unused
     /\ v18 = Unused /\ v19 = Unused
  \/ part = "lock"
     /\ v1 = Unused /\ v2 = Unused /\ v3 = Unused /\ v4 = Unused /\ v5 = Unused
     /\ v6 = Unused /\ v7 = Unused /\ v8 = Unused /\ v9 = Unused /\ v10 = Unused /\ v11 = Unused /\ v12 = Unused
     /\ v13 = Unused /\ v14 = Unused /\ v15 = Unused /\ v16 = Unused /\ v17 = Unused
     /\ v18 = Unused /\ v19 = Unused

Steps ==
  \/ part = "card" /\ Card!Next /\ CardKeeps
  \/ part = "tree" /\ Tree!Next /\ TreeKeeps
  \/ part = "host" /\ Host!Next /\ HostKeeps
  \/ part = "receiving" /\ Rx!Next /\ RxKeeps
  \/ part = "dhcp" /\ Dhcp!Next /\ DhcpKeeps
  \/ part = "neighbours" /\ Arp!Next /\ ArpKeeps
  \/ part = "lookups" /\ Dns!Next /\ DnsKeeps
  \/ part = "clock" /\ Clock!Next /\ ClockKeeps
  \/ part = "programs" /\ Prog!Next /\ ProgKeeps
  \/ part = "pipe" /\ Pipe!Next /\ PipeKeeps
  \/ part = "lock" /\ Next /\ LockKeeps

PartInit == Init /\ Starts

PartSpec == PartInit /\ [][Steps]_allVars

\* The steps that are taken if they stay possible: tasks that are ready run, devices answer.
Weak(i) ==
  \/ i = 1 /\ part = "card" /\ Card!Driver /\ CardKeeps
  \/ i = 2 /\ part = "card" /\ Card!Device /\ CardKeeps
  \/ i = 3 /\ part = "card" /\ Card!Program /\ CardKeeps
  \/ i = 4 /\ part = "card" /\ Card!SendsOn /\ CardKeeps
  \/ i = 5 /\ part = "card" /\ Card!PowersUp /\ CardKeeps
  \/ i = 1 /\ part = "tree" /\ Tree!Task /\ TreeKeeps
  \/ i = 2 /\ part = "tree" /\ Tree!FinishReset(<<root, 1>>) /\ TreeKeeps
  \/ i = 3 /\ part = "tree" /\ Tree!FinishReset(<<hub, 1>>) /\ TreeKeeps
  \/ i = 1 /\ part = "host" /\ Host!Next /\ HostKeeps
  \/ i = 2 /\ part = "host" /\ Host!TranslatorRuns /\ HostKeeps
  \/ i = 1 /\ part = "receiving" /\ Rx!Handler /\ RxKeeps
  \/ i = 2 /\ part = "receiving" /\ Rx!Task /\ RxKeeps
  \/ i = 1 /\ part = "dhcp" /\ Dhcp!Client /\ DhcpKeeps
  \/ i = 2 /\ part = "dhcp" /\ Dhcp!Tick /\ DhcpKeeps
  \/ i = 3 /\ part = "dhcp" /\ Dhcp!TakeEvents /\ DhcpKeeps
  \/ i = 1 /\ part = "neighbours" /\ Arp!Poll /\ ArpKeeps
  \/ i = 2 /\ part = "neighbours" /\ Arp!Tick /\ ArpKeeps
  \/ i = 3 /\ part = "neighbours" /\ Arp!SendPing /\ ArpKeeps
  \/ i = 4 /\ part = "neighbours" /\ (Arp!TakeAnswer \/ Arp!GiveUpPing \/ Arp!ReturnPing) /\ ArpKeeps
  \/ i = 1 /\ part = "lookups" /\ (Dns!QueryMac \/ Dns!WaitForUsb) /\ DnsKeeps
  \/ i = 2 /\ part = "lookups" /\ Dns!UsbStarts /\ DnsKeeps
  \/ i = 3 /\ part = "lookups" /\ Dns!Round /\ DnsKeeps
  \/ i = 4 /\ part = "lookups" /\ (Dns!TakeAnswer(c1) \/ Dns!Return(c1)) /\ DnsKeeps
  \/ i = 5 /\ part = "lookups" /\ (Dns!TakeAnswer(c2) \/ Dns!Return(c2)) /\ DnsKeeps
  \/ i = 1 /\ part = "clock" /\ Clock!Poll /\ ClockKeeps
  \/ i = 2 /\ part = "clock" /\ Clock!NextRound /\ ClockKeeps
  \/ i = 1 /\ part = "programs" /\ Prog!InKernel(1) /\ ProgKeeps
  \/ i = 2 /\ part = "programs" /\ Prog!InKernel(2) /\ ProgKeeps
  \/ i = 3 /\ part = "programs" /\ Prog!Ends(1) /\ ProgKeeps
  \/ i = 4 /\ part = "programs" /\ Prog!Ends(2) /\ ProgKeeps
  \/ i = 1 /\ part = "pipe" /\ Pipe!InCall(maker) /\ PipeKeeps
  \/ i = 2 /\ part = "pipe" /\ Pipe!InCall(second) /\ PipeKeeps
  \/ i = 1 /\ part = "lock" /\ Proceed(t1) /\ LockKeeps
  \/ i = 2 /\ part = "lock" /\ Proceed(t2) /\ LockKeeps
  \/ i = 3 /\ part = "lock" /\ Proceed(t3) /\ LockKeeps

\* The steps that are taken if they become possible again and again: time passes.
Strong(i) ==
  \/ i = 1 /\ part = "host" /\ Host!SplitTimesOut /\ HostKeeps
  \/ i = 1 /\ part = "lookups" /\ Dns!EndRound(1) /\ DnsKeeps
  \/ i = 1 /\ part = "clock" /\ Clock!Tick /\ ClockKeeps
  \/ i = 2 /\ part = "clock" /\ (\E found \in BOOLEAN : Clock!Resolved(found, 0)) /\ ClockKeeps

FairSpec ==
  /\ PartSpec
  /\ \A i \in 1 .. 5 : WF_allVars(Weak(i))
  /\ \A i \in 1 .. 2 : SF_allVars(Strong(i))
-----------------------------------------------------------------------------
\* Callers that wait, and programs that are to end. (Tasks that wait for a lock are alike.)
InCall(i) ==
  \/ i = 1 /\ part = "card" /\ Card!InCall
  \/ i = 1 /\ part = "host" /\ Host!InTransfer
  \/ i = 1 /\ part = "neighbours" /\ Arp!Pinging
  \/ i = 1 /\ part = "lookups" /\ Dns!Runs /\ Dns!Waits(c1)
  \/ i = 2 /\ part = "lookups" /\ Dns!Runs /\ Dns!Waits(c2)
  \/ i = 1 /\ part = "programs" /\ Prog!Doomed(1)
  \/ i = 2 /\ part = "programs" /\ Prog!Doomed(2)
  \/ i = 1 /\ part = "pipe" /\ Pipe!LeftAlone(maker)
  \/ i = 2 /\ part = "pipe" /\ Pipe!LeftAlone(second)
  \/ i = 1 /\ part = "lock" /\ Waits(t1)
  \/ i = 2 /\ part = "lock" /\ Waits(t2)

\* Every call returns: each wait ends with an answer, an error, a timeout or the other side
\* gone, and a program that is killed in a call, or makes one after it was killed, ends, whatever
\* call it is. Whoever waits for a lock gets it, however often others take it again ("a task that
\* keeps relocking can't starve the others"). For a transfer straight to a USB device that supposes
\* a device that is ready in the end (within MaxNaks tries): direct_transfer asks it again for as
\* long as it takes.
CallsReturn == \A i \in 1 .. 2 : InCall(i) ~> ~InCall(i)

\* What one side has noticed and the other has not, and the time between two settings of the clock.
Owed(i) ==
  \/ i = 1 /\ part = "tree" /\ Tree!Unnoticed(<<root, 1>>)
  \/ i = 2 /\ part = "tree" /\ Tree!Unnoticed(<<hub, 1>>)
  \/ i = 1 /\ part = "receiving" /\ Rx!Owed # {}
  \/ i = 2 /\ part = "receiving" /\ Rx!Unreported
  \/ i = 1 /\ part = "dhcp" /\ Dhcp!Unanswered
  \/ i = 1 /\ part = "neighbours" /\ Arp!Quiet /\ Arp!Awaiting
  \/ i = 1 /\ part = "clock" /\ ~Clock!Starting

\* Nothing is forgotten: what a hub reports is picked up, bytes received are returned and losses
\* reported, a DHCP server that no longer answers is given up, what waits for a
\* hop too, and setting the clock is started again and again.
NothingForgotten == \A i \in 1 .. 2 : Owed(i) ~> ~Owed(i)
=============================================================================
