------------------------------ MODULE NetTask -------------------------------
(***************************************************************************)
(* The network task (src/sys/net/mod.rs): bringing the LAN7800 up, then    *)
(* rounds that take what commands ask for, run the lookups                 *)
(* (src/sys/net/lookup.rs, with dns.rs of rustypi-core), and handle what   *)
(* arrives; and the commands that wait in `resolve` meanwhile.             *)
(*                                                                         *)
(* A round is a few steps, between which commands run and time passes.  A  *)
(* timer is the time left at the `now` the round began with.  DNS answers  *)
(* may arrive late, twice or not at all.  Of the clock only its lookups    *)
(* are here, the rest is ClockSync; DHCP and ARP are Dhcp and Neighbours.  *)
(***************************************************************************)
EXTENDS Integers, Sequences, FiniteSets, SequencesExt

CONSTANTS
    Callers, Names,     \* tasks that look names up; Pool and Bad are among the names
    Pool, Bad,          \* TIME_SERVERS, and a name DNS can't carry
    IdMod, Seed,        \* identifications wrap here (2^16), and begin with this one
    DnsTries, DnsRetry,
    MaxAnswers,         \* answers kept for their takers (16)
    UsbWait,
    MaxCalls            \* bound: calls of resolve

VARIABLES
    task,       \* where the network task is
    usb,        \* sys::usb's State
    waited,     \* bring_up: time spent waiting for USB
    config,     \* Interface.config: "none", "nodns", or "dns"
    requests,   \* RESOLVE_REQUESTS
    answers,    \* RESOLVE_ANSWERS
    number,     \* NEXT_REQUEST
    callers,    \* tasks in resolve
    nextId,     \* Resolver.next_id
    pending,    \* Resolver.pending
    sync,       \* ClockSync.sync: "waiting", "resolving" or "asking"
    asked       \* DNS queries a server may still answer

vars == <<task, usb, waited, config, requests, answers, number, callers,
          nextId, pending, sync, asked>>

Clock == -1
Command(n) == n
NotCalling == [pc |-> "idle", number |-> 0, name |-> Bad, result |-> <<"none", Bad>>]

Init ==
    /\ task = "query" /\ usb = "starting" /\ waited = 0
    /\ config = "none" /\ requests = <<>> /\ answers = <<>> /\ number = 0
    /\ callers = [c \in Callers |-> NotCalling]
    /\ nextId = Seed /\ pending = <<>>
    /\ sync = "waiting" /\ asked = {}
-----------------------------------------------------------------------------
(* bring_up: the MAC address, then USB, then the LAN7800.  Any failure     *)
(* ends the task for good.                                                 *)
End == task' = "ended"

QueryMac ==
    /\ task = "query"
    /\ task' = "wait" \/ End
    /\ UNCHANGED <<usb, waited, config, requests, answers, number, callers, nextId, pending, sync, asked>>

WaitForUsb ==
    /\ task = "wait"
    /\ \/ usb = "failed" /\ End /\ waited' = 0
       \/ usb = "running" /\ (task' = "take" \/ End) /\ waited' = 0
       \/ usb = "starting" /\ waited >= UsbWait /\ End /\ waited' = 0
       \/ usb = "starting" /\ waited < UsbWait /\ waited' = waited + 1 /\ UNCHANGED task
    /\ UNCHANGED <<usb, config, requests, answers, number, callers, nextId, pending, sync, asked>>

(* sys::usb's own task, seen from here.                                    *)
UsbStarts ==
    /\ usb = "starting" /\ usb' \in {"running", "failed"}
    /\ UNCHANGED <<task, waited, config, requests, answers, number, callers, nextId, pending, sync, asked>>
-----------------------------------------------------------------------------

(* Mutated form of Answered: one answer is kept.                           *)
AnsweredLatest(queue, n, result) == <<[number |-> n, result |-> result]>>

(* answer_lookup: the oldest answers go when too many wait.                *)
Answered(queue, n, result) ==
    LET longer == Append(queue, [number |-> n, result |-> result])
    IN IF Len(longer) > MaxAnswers THEN Tail(longer) ELSE longer

(* Resolver::start.  The identification is used up even by a bad name.     *)
Started(name, purpose) ==
    [id |-> (nextId + 1) % IdMod, name |-> name, purpose |-> purpose, left |-> DnsRetry, tries |-> 1]

Query(lookup) == [id |-> lookup.id, name |-> lookup.name]

StartLookup(name, purpose) ==
    /\ nextId' = (nextId + 1) % IdMod
    /\ IF name = Bad
       THEN UNCHANGED <<pending, asked>>
       ELSE /\ pending' = Append(pending, Started(name, purpose))
            /\ asked' = asked \cup {Query(Started(name, purpose))}

(* A round: the requests commands have queued, one at a time.              *)
TakeRequest ==
    /\ task = "take" /\ requests # <<>>
    /\ requests' = Tail(requests)
    /\ LET r == Head(requests)
           refused == CASE config = "none" -> <<"nonetwork", r.name>>
                        [] config = "nodns" -> <<"noserver", r.name>>
                        [] OTHER -> <<"badname", r.name>>
       IN IF config # "dns"
          THEN /\ answers' = Answered(answers, r.number, refused)
               /\ UNCHANGED <<nextId, pending, asked>>
          ELSE /\ StartLookup(r.name, Command(r.number))
               /\ answers' = IF r.name = Bad THEN Answered(answers, r.number, refused) ELSE answers
    /\ UNCHANGED <<task, usb, waited, config, number, callers, sync>>

(* Bound: identifications don't all get used (2^16 of them in the life of  *)
(* a datagram).                                                            *)
Left == (IdMod - 1) - ((nextId + IdMod - Seed) % IdMod)

(* The round goes on with ClockSync::poll.  When it is time to (ClockSync  *)
(* has the times) the clock's server is looked up, or asked directly.      *)
PollClock ==
    /\ task = "take" /\ requests = <<>>
    /\ task' = "lookups"
    /\ \/ UNCHANGED <<sync, nextId, pending, asked>>
       \/ /\ sync = "waiting" /\ config = "dns" /\ Left > MaxCalls
          /\ StartLookup(Pool, Clock)
          /\ sync' = IF Pool = Bad THEN "waiting" ELSE "resolving"
       \/ /\ sync = "waiting" /\ config = "nodns"
          /\ sync' = "asking" /\ UNCHANGED <<nextId, pending, asked>>
       \/ /\ sync = "asking" /\ config # "none"
          /\ sync' = "waiting" /\ UNCHANGED <<nextId, pending, asked>>
    /\ UNCHANGED <<usb, waited, config, requests, answers, number, callers>>

(* Mutated form of Resolved: the clock hears of an address only.           *)
ResolvedFound(result) == sync' = IF result[1] = "ok" THEN "asking" ELSE sync

(* finish_lookup for the clock: ClockSync::resolved.                       *)
Resolved(result) == sync' = IF result[1] = "ok" THEN "asking" ELSE "waiting"

(* Resolver::poll, with finish_lookup for what has timed out.              *)
Overdue(lookup) == lookup.left = 0
OutOfTries(lookup) == Overdue(lookup) /\ lookup.tries >= DnsTries
Again(lookup) ==
    IF Overdue(lookup) THEN [lookup EXCEPT !.tries = @ + 1, !.left = DnsRetry] ELSE lookup

Timeout(lookup) == <<"timeout", lookup.name>>

PollLookups ==
    /\ task = "lookups" /\ task' = "receive"
    /\ LET done == SelectSeq(pending, OutOfTries)
           kept == SelectSeq(pending, LAMBDA l: ~OutOfTries(l))
       IN /\ pending' = [i \in DOMAIN kept |-> Again(kept[i])]
          /\ asked' = asked \cup {Query(kept[i]) : i \in {j \in DOMAIN kept : Overdue(kept[j])}}
          /\ answers' = FoldLeft(LAMBDA queue, l: IF l.purpose = Clock THEN queue
                                                  ELSE Answered(queue, l.purpose, Timeout(l)),
                                 answers, done)
          /\ IF \E i \in DOMAIN done : done[i].purpose = Clock
             THEN Resolved(<<"timeout", Pool>>)
             ELSE UNCHANGED sync
    /\ UNCHANGED <<usb, waited, config, requests, number, callers, nextId>>
-----------------------------------------------------------------------------
(* A DNS answer arrives: Resolver::receive, with dns::parse's check of the *)
(* identification, and finish_lookup.                                      *)
Replies(q) == {<<kind, q.name>> : kind \in {"ok", "no"}}

(* Mutated form of Matches: any answer counts.                             *)
MatchesAny(lookup, q) == TRUE

Matches(lookup, q) == lookup.id = q.id

ReceiveDns(q) ==
    /\ task = "receive"
    /\ \E i \in DOMAIN pending, result \in Replies(q) :
          /\ Matches(pending[i], q)
          /\ \A j \in 1..i - 1 : ~Matches(pending[j], q)
          /\ pending' = RemoveAt(pending, i)
          /\ IF pending[i].purpose = Clock
             THEN Resolved(result) /\ UNCHANGED answers
             ELSE answers' = Answered(answers, pending[i].purpose, result) /\ UNCHANGED sync
    /\ UNCHANGED <<task, usb, waited, config, requests, number, callers, nextId, asked>>

(* The clock's answer arrives: ClockSync::receive.                         *)
ReceiveTime ==
    /\ task = "receive" /\ sync = "asking" /\ sync' = "waiting"
    /\ UNCHANGED <<task, usb, waited, config, requests, answers, number, callers, nextId, pending, asked>>

(* Nothing more has arrived: the round ends, and the next reads its `now`. *)
EndRound(spent) ==
    /\ task = "receive" /\ task' = "take"
    /\ pending' = [i \in DOMAIN pending |-> [pending[i] EXCEPT !.left = IF @ > spent THEN @ - spent ELSE 0]]
    /\ UNCHANGED <<usb, waited, config, requests, answers, number, callers, nextId, sync, asked>>
-----------------------------------------------------------------------------
(* resolve: the request, then looking for its answer until it is there.    *)
Call(c, name) ==
    /\ callers[c].pc = "idle" /\ number < MaxCalls
    /\ number' = number + 1
    /\ requests' = Append(requests, [number |-> number, name |-> name])
    /\ callers' = [callers EXCEPT ![c] = [NotCalling EXCEPT !.pc = "waits", !.number = number, !.name = name]]
    /\ UNCHANGED <<task, usb, waited, config, answers, nextId, pending, sync, asked>>

IsFor(a, c) == a.number = callers[c].number

TakeAnswer(c) ==
    /\ callers[c].pc = "waits"
    /\ \E i \in DOMAIN answers :
          /\ IsFor(answers[i], c)
          /\ answers' = RemoveAt(answers, i)
          /\ callers' = [callers EXCEPT ![c].pc = "done", ![c].result = answers[i].result]
    /\ UNCHANGED <<task, usb, waited, config, requests, number, nextId, pending, sync, asked>>

Return(c) ==
    /\ callers[c].pc = "done"
    /\ callers' = [callers EXCEPT ![c] = NotCalling]
    /\ UNCHANGED <<task, usb, waited, config, requests, answers, number, nextId, pending, sync, asked>>
-----------------------------------------------------------------------------
(* DHCP gives or takes the address, with or without a DNS server.          *)
Configure ==
    /\ task = "receive"
    /\ config' \in {"none", "nodns", "dns"} \ {config}
    /\ UNCHANGED <<task, usb, waited, requests, answers, number, callers, nextId, pending, sync, asked>>

Round == TakeRequest \/ PollClock \/ PollLookups \/ \E spent \in 0..1 : EndRound(spent)

Next ==
    \/ QueryMac \/ WaitForUsb \/ UsbStarts
    \/ Round \/ Configure
    \/ \E q \in asked : ReceiveDns(q)
    \/ ReceiveTime
    \/ \E c \in Callers : \/ \E name \in Names : Call(c, name)
                          \/ TakeAnswer(c)
                          \/ Return(c)

Spec == Init /\ [][Next]_vars

(* The scheduler runs the network task and every command, time passes, and *)
(* USB starts or fails in the end (Host::start and enumerate return).      *)
FairSpec ==
    /\ Spec
    /\ WF_vars(QueryMac) /\ WF_vars(WaitForUsb) /\ WF_vars(UsbStarts)
    /\ WF_vars(Round) /\ SF_vars(EndRound(1))
    /\ \A c \in Callers : WF_vars(TakeAnswer(c)) /\ WF_vars(Return(c))
-----------------------------------------------------------------------------
(* Every variable holds a value of its kind.                               *)
TypeOK ==
    /\ task \in {"query", "wait", "take", "lookups", "receive", "ended"}
    /\ Len(answers) <= MaxAnswers /\ nextId \in 0..IdMod - 1
    /\ \A i \in DOMAIN pending : pending[i].tries \in 1..DnsTries /\ pending[i].left \in 0..DnsRetry
    /\ sync \in {"waiting", "resolving", "asking"}

(* resolve returns what DNS, or the network task, said of the name it was  *)
(* called with: never another caller's answer, nor one meant for the       *)
(* clock, however late or often answers come.                              *)
AnswerIsMine ==
    \A c \in Callers : callers[c].pc = "done" => callers[c].result[2] = callers[c].name

(* A command that waits in resolve is known to somebody: its request is    *)
(* queued, its lookup runs, or its answer lies there to be taken.          *)
NobodyForgotten ==
    \A c \in Callers : callers[c].pc = "waits" =>
        LET n == callers[c].number
        IN \/ \E i \in DOMAIN requests : requests[i].number = n
           \/ \E i \in DOMAIN pending : pending[i].purpose = n
           \/ \E i \in DOMAIN answers : answers[i].number = n

(* The clock looks its time server up at most once at a time, and a lookup *)
(* for it is under way exactly while it waits for one (Sync::Resolving):   *)
(* otherwise the clock would never be set again.                           *)
ClockLookup ==
    Cardinality({i \in DOMAIN pending : pending[i].purpose = Clock})
        = IF sync = "resolving" THEN 1 ELSE 0

(* A command is in resolve, which must return, as long as the network task *)
(* runs.                                                                   *)
Waits(c) == callers[c].pc = "waits"
Runs == task # "ended"

(* Every resolve returns (sys/net/mod.rs: "so this ends").                 *)
ResolveEnds == \A c \in Callers : Waits(c) ~> ~Waits(c)
=============================================================================
