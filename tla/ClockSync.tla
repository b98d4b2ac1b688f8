----------------------------- MODULE ClockSync ------------------------------
(***************************************************************************)
(* Setting the clock by SNTP: ClockSync (src/sys/net/lookup.rs), request   *)
(* and parse (rustypi-core/src/net/sntp.rs) and clock::set (src/sys/       *)
(* clock.rs).  The time server is found by a lookup that ends (NetTask),   *)
(* well or not.  A server's answer carries the server's time, kept here as *)
(* its age, and may come late, after a later request, or not at all.  The  *)
(* task's rounds read `now` once and use it throughout.                    *)
(***************************************************************************)
EXTENDS Integers

CONSTANTS
    SntpTries, SntpRetry,   \* SNTP_TRIES, SNTP_RETRY_US
    Resync, Retry,          \* RESYNC_US, RETRY_US
    MaxLate, MaxAge         \* bounds: ticks within a round, a datagram's life

VARIABLES
    sync,       \* ClockSync.sync
    wire,       \* requests and answers on their way
    clock,      \* twice the clock's error when it was set, and the round trip; or Unset
    late,       \* time since the round read its `now`
    polled      \* the round has polled the clock

vars == <<sync, wire, clock, late, polled>>

Unset == [error |-> 0, trip |-> -1]

State(pc, server, cookie, left, age, tries) ==
    [pc |-> pc, server |-> server, cookie |-> cookie, left |-> left, age |-> age, tries |-> tries]

(* A timer is what is left of it at the round's `now`.                     *)
Waiting(left) == State("waiting", "none", sync.cookie, left, 0, 0)

Init ==
    /\ sync = State("waiting", "none", 0, 0, 0, 0)
    /\ wire = {} /\ clock = Unset /\ late = 0 /\ polled = FALSE

(* ask: `spent` is how far back the `now` it is given lies.  The cookie is *)
(* told from any other still in use: what it was last used for is lost.    *)
Cookie == (sync.cookie + 1) % 2

Ask(server, tries, spent) ==
    /\ sync' = State("asking", server, Cookie, SntpRetry + late - spent, spent, tries)
    /\ wire' = {d \in wire : d.cookie # Cookie}
                   \cup {[kind |-> "request", server |-> server, cookie |-> Cookie, age |-> 0]}

(* poll, at the start of a round.                                          *)
Due == sync.left = 0

Poll ==
    /\ ~polled /\ polled' = TRUE
    /\ \/ (sync.pc = "resolving" \/ ~Due) /\ UNCHANGED <<sync, wire>>
       \/ /\ sync.pc = "waiting" /\ Due
          /\ \/ sync' = [Waiting(0) EXCEPT !.pc = "resolving"] /\ UNCHANGED wire
             \/ Ask("fallback", 1, late)
       \/ /\ sync.pc = "asking" /\ Due
          /\ IF sync.tries >= SntpTries THEN sync' = Waiting(Retry) /\ UNCHANGED wire
             ELSE Ask(sync.server, sync.tries + 1, late)
    /\ UNCHANGED <<clock, late>>

(* resolved: from Resolver::poll with the round's `now`, or when an answer *)
(* has come, with the time then.                                           *)
Resolved(found, spent) ==
    /\ sync.pc = "resolving" /\ polled
    /\ IF found THEN Ask("pool", 1, spent)
       ELSE sync' = Waiting(Retry + late - spent) /\ UNCHANGED wire
    /\ UNCHANGED <<clock, late, polled>>

(* Mutated form of Expected: an answer to any request counts.              *)
ExpectedAny(d) == d.kind = "answer" /\ sync.pc = "asking" /\ d.server = sync.server

(* receive, with parse and set: the server's time is as old as the answer, *)
(* and half the round trip is added to it.                                 *)
Expected(d) ==
    d.kind = "answer" /\ sync.pc = "asking" /\ d.server = sync.server /\ d.cookie = sync.cookie

Parse(d) == (sync.age \div 2) - d.age

Receive(d) ==
    /\ polled /\ Expected(d)
    /\ clock' = [error |-> 2 * Parse(d), trip |-> sync.age]
    /\ sync' = Waiting(Resync + late)
    /\ UNCHANGED <<wire, late, polled>>

(* The next round, and time.                                               *)
NextRound ==
    /\ polled /\ polled' = FALSE /\ late' = 0
    /\ sync' = [sync EXCEPT !.left = IF @ > late THEN @ - late ELSE 0]
    /\ UNCHANGED <<wire, clock>>

Tick ==
    /\ late < MaxLate /\ late' = late + 1
    /\ sync.age < MaxAge
    /\ sync' = IF sync.pc = "asking" THEN [sync EXCEPT !.age = @ + 1] ELSE sync
    /\ wire' = {[d EXCEPT !.age = @ + 1] : d \in {e \in wire : e.age < MaxAge}}
    /\ UNCHANGED <<clock, polled>>

(* The time server stamps an answer; a datagram is lost.                   *)
Serve(d) ==
    /\ d.kind = "request"
    /\ wire' = (wire \ {d})
                   \cup {[kind |-> "answer", server |-> d.server, cookie |-> d.cookie, age |-> 0]}
    /\ UNCHANGED <<sync, clock, late, polled>>

Lose(d) == wire' = wire \ {d} /\ UNCHANGED <<sync, clock, late, polled>>

Next ==
    \/ Poll \/ NextRound \/ Tick
    \/ \E found \in BOOLEAN : Resolved(found, late) \/ Resolved(found, 0)
    \/ \E d \in wire : Receive(d) \/ Serve(d) \/ Lose(d)

Spec == Init /\ [][Next]_vars
-----------------------------------------------------------------------------
(* Every variable holds a value of its kind.                               *)
TypeOK ==
    /\ sync.pc \in {"waiting", "resolving", "asking"}
    /\ sync.tries \in 0..SntpTries /\ sync.age \in 0..MaxAge /\ sync.left >= 0
    /\ late \in 0..MaxLate /\ \A d \in wire : d.age \in 0..MaxAge

(* When the clock is set it is wrong by half the round trip at most        *)
(* (sntp.rs: "Accurate to about half the round trip"), however long the    *)
(* request or the answer took: an answer to an earlier request, whose      *)
(* round trip is longer than the one measured, never sets it.              *)
SetClose ==
    clock # Unset => clock.error \in -(clock.trip + 1)..(clock.trip + 1)

(* Setting the clock starts: whatever is lost, this must come again and    *)
(* again (lookup.rs: "and does it again every hour").                      *)
Starting == sync.pc = "waiting" /\ Due
-----------------------------------------------------------------------------
(* Why the clock is close, whatever the times: what is on its way with the *)
(* cookie in use was sent after the request was made, so it is no older.   *)
TimeServers == {"none", "fallback", "pool"}
Datagrams == [kind : {"request", "answer"}, server : TimeServers, cookie : {0, 1}, age : 0..MaxAge]
Syncs ==
    [pc : {"waiting", "resolving", "asking"}, server : TimeServers, cookie : {0, 1}, left : Nat,
     age : 0..MaxAge, tries : 0..SntpTries]

NoOlder == sync.pc = "asking" => \A d \in wire : d.cookie = sync.cookie => d.age <= sync.age

SyncInv ==
    /\ sync \in Syncs /\ wire \subseteq Datagrams
    /\ late \in 0..MaxLate /\ polled \in BOOLEAN
    /\ NoOlder /\ SetClose
=============================================================================
