-------------------------------- MODULE Dhcp --------------------------------
(***************************************************************************)
(* How the network interface gets, keeps and loses its address: the DHCP   *)
(* part of rustypi-core/src/net/interface.rs with the messages of dhcp.rs, *)
(* the servers it talks to (external), and what the network task learns of *)
(* it through events (src/sys/net/mod.rs).                                 *)
(*                                                                         *)
(* Messages are never taken off the network, so any of them may arrive     *)
(* late, twice, out of order or not at all.  A timer is the time left.     *)
(* Every server has one address to give.  next_xid never gives the same    *)
(* transaction twice before its generator comes round, so transactions are *)
(* numbered.                                                               *)
(***************************************************************************)
EXTENDS Naturals, Sequences, FiniteSets

CONSTANTS
    Servers,        \* the DHCP servers on the network
    RetryTime,      \* DHCP_RETRY_US
    RenewTime,      \* half a lease, at least MIN_RENEW_US
    RequestTries,   \* DHCP_REQUEST_TRIES
    MaxXid          \* bound: transactions

None == "none"

VARIABLES
    dhcp,       \* Interface.dhcp
    config,     \* Interface.config: the server whose address it is, or None
    events,     \* Interface.events
    status,     \* STATUS.config, as the network task last set it
    lastXid,    \* what next_xid gave last
    asked,      \* messages we have sent
    replies     \* messages servers have sent

vars == <<dhcp, config, events, status, lastXid, asked, replies>>

Discovering(xid, left) ==
    [state |-> "Discovering", xid |-> xid, server |-> None, left |-> left, tries |-> 0]
Requesting(xid, server, left, tries) ==
    [state |-> "Requesting", xid |-> xid, server |-> server, left |-> left, tries |-> tries]
Bound(server, left) ==
    [state |-> "Bound", xid |-> 0, server |-> server, left |-> left, tries |-> 0]

Discover(xid) == [kind |-> "Discover", xid |-> xid, server |-> None]
Request(xid, server) == [kind |-> "Request", xid |-> xid, server |-> server]
Reply(kind, xid, server) == [kind |-> kind, xid |-> xid, server |-> server]

Init ==
    /\ dhcp = Discovering(1, 0)
    /\ config = None /\ events = <<>> /\ status = None
    /\ lastXid = 1
    /\ asked = {} /\ replies = {}

(* poll, its DHCP half: each kind of wait that is over.                    *)
PollDiscovering ==
    /\ dhcp.state = "Discovering" /\ dhcp.left = 0
    /\ dhcp' = Discovering(dhcp.xid, RetryTime)
    /\ asked' = asked \cup {Discover(dhcp.xid)}
    /\ UNCHANGED <<config, events, status, lastXid, replies>>

PollRequesting ==
    /\ dhcp.state = "Requesting" /\ dhcp.left = 0
    /\ dhcp.tries < RequestTries
    /\ dhcp' = Requesting(dhcp.xid, dhcp.server, RetryTime, dhcp.tries + 1)
    /\ asked' = asked \cup {Request(dhcp.xid, dhcp.server)}
    /\ UNCHANGED <<config, events, status, lastXid, replies>>

(* Mutated form of PollStartsOver: the address is given up.                *)
PollStartsAnew ==
    /\ dhcp.state = "Requesting" /\ dhcp.left = 0 /\ dhcp.tries >= RequestTries
    /\ lastXid < MaxXid /\ lastXid' = lastXid + 1
    /\ dhcp' = Discovering(lastXid', RetryTime)
    /\ asked' = asked \cup {Discover(lastXid')}
    /\ config' = None /\ events' = Append(events, None)
    /\ UNCHANGED <<status, replies>>

(* Out of tries: it starts over, with a DISCOVER in the same call.  The    *)
(* address it may still have stays.                                        *)
PollStartsOver ==
    /\ dhcp.state = "Requesting" /\ dhcp.left = 0
    /\ dhcp.tries >= RequestTries
    /\ lastXid < MaxXid
    /\ lastXid' = lastXid + 1
    /\ dhcp' = Discovering(lastXid', RetryTime)
    /\ asked' = asked \cup {Discover(lastXid')}
    /\ UNCHANGED <<config, events, status, replies>>

(* Halfway through the lease: a REQUEST to renew it, in the same call.     *)
PollRenews ==
    /\ dhcp.state = "Bound" /\ dhcp.left = 0
    /\ lastXid < MaxXid
    /\ lastXid' = lastXid + 1
    /\ dhcp' = Requesting(lastXid', dhcp.server, RetryTime, 1)
    /\ asked' = asked \cup {Request(lastXid', dhcp.server)}
    /\ UNCHANGED <<config, events, status, replies>>

(* Mutated form of Awaited: an answer to any transaction counts.           *)
AwaitedAny(r) == dhcp.state # "Bound"

(* receive_dhcp: only the answer to the transaction under way counts.      *)
Awaited(r) == dhcp.state # "Bound" /\ r.xid = dhcp.xid

ReceiveOffer(r) ==
    /\ Awaited(r) /\ r.kind = "Offer" /\ dhcp.state = "Discovering"
    /\ dhcp' = Requesting(dhcp.xid, r.server, RetryTime, 1)
    /\ asked' = asked \cup {Request(dhcp.xid, r.server)}
    /\ UNCHANGED <<config, events, status, lastXid, replies>>

(* Mutated form of Told: only the first address is an event.               *)
ToldFirst(new) == IF config = None THEN Append(events, new) ELSE events

(* A change of address is an event.                                        *)
Told(new) == IF config # new THEN Append(events, new) ELSE events

ReceiveAck(r) ==
    /\ Awaited(r) /\ r.kind = "Ack" /\ dhcp.state = "Requesting"
    /\ dhcp' = Bound(r.server, RenewTime)
    /\ config' = r.server
    /\ events' = Told(r.server)
    /\ UNCHANGED <<status, lastXid, asked, replies>>

ReceiveNak(r) ==
    /\ Awaited(r) /\ r.kind = "Nak" /\ dhcp.state = "Requesting"
    /\ lastXid < MaxXid
    /\ lastXid' = lastXid + 1
    /\ dhcp' = Discovering(lastXid', 0)
    /\ config' = None
    /\ events' = Told(None)
    /\ UNCHANGED <<status, asked, replies>>

(* take_events, and the network task's loop over them, which keeps STATUS. *)
TakeEvents ==
    /\ events # <<>>
    /\ status' = events[Len(events)]
    /\ events' = <<>>
    /\ UNCHANGED <<dhcp, config, lastXid, asked, replies>>

Tick ==
    /\ dhcp.left > 0
    /\ dhcp' = [dhcp EXCEPT !.left = @ - 1]
    /\ UNCHANGED <<config, events, status, lastXid, asked, replies>>

(* A server answers a message it has seen: it offers its address, grants   *)
(* it, or says no (another host has it now, say).                          *)
ServerOffers(s, m) ==
    /\ m.kind = "Discover"
    /\ replies' = replies \cup {Reply("Offer", m.xid, s)}
    /\ UNCHANGED <<dhcp, config, events, status, lastXid, asked>>

ServerGrants(s, m) ==
    /\ m.kind = "Request" /\ m.server = s
    /\ replies' = replies \cup {Reply("Ack", m.xid, s)}
    /\ UNCHANGED <<dhcp, config, events, status, lastXid, asked>>

ServerRefuses(s, m) ==
    /\ m.kind = "Request" /\ m.server = s
    /\ replies' = replies \cup {Reply("Nak", m.xid, s)}
    /\ UNCHANGED <<dhcp, config, events, status, lastXid, asked>>

Client == PollDiscovering \/ PollRequesting \/ PollStartsOver \/ PollRenews
Receive == \E r \in replies : ReceiveOffer(r) \/ ReceiveAck(r) \/ ReceiveNak(r)
Serve == \E s \in Servers, m \in asked : ServerOffers(s, m) \/ ServerGrants(s, m) \/ ServerRefuses(s, m)

Next ==
    \/ Client \/ Receive \/ TakeEvents \/ Tick
    \/ Serve

Spec == Init /\ [][Next]_vars
-----------------------------------------------------------------------------
(* Every variable holds a value of its kind.                               *)
TypeOK ==
    /\ dhcp.state \in {"Discovering", "Requesting", "Bound"}
    /\ dhcp.xid \in 0..MaxXid /\ dhcp.server \in Servers \cup {None}
    /\ dhcp.left \in 0..(RetryTime + RenewTime) /\ dhcp.tries \in 0..RequestTries
    /\ config \in Servers \cup {None} /\ status \in Servers \cup {None}
    /\ lastXid \in 1..MaxXid

(* An address comes from the transaction under way and from no other: a    *)
(* bound interface has the address its server granted in the latest        *)
(* transaction, whatever arrives late, twice or out of order from earlier  *)
(* ones (receive_dhcp, and parse_reply's check of the xid); and one that   *)
(* is asking again has an address only if some server granted it.          *)
AddressGranted ==
    /\ dhcp.state = "Bound" =>
          config = dhcp.server /\ Reply("Ack", lastXid, config) \in replies
    /\ config # None => \E xid \in 1..lastXid : Reply("Ack", xid, config) \in replies

(* What the network task believes is what the interface says, once it has  *)
(* taken the events: every change of address is an event, in order, and    *)
(* nothing else is (Configured, Unconfigured).                             *)
StatusFollows ==
    /\ events = <<>> => status = config
    /\ events # <<>> => events[Len(events)] = config

(* An address is only given up when a server says no to the request under  *)
(* way; giving up on a server that no longer answers keeps it.             *)
LostOnlyByNakStep ==
  config # None /\ config' = None =>
     Reply("Nak", dhcp.xid, dhcp.server) \in replies
LostOnlyByNak == [][LostOnlyByNakStep]_vars

(* A request that poll's timers must not leave unanswered for good, while  *)
(* the model has transactions left to start.                               *)
Unanswered == dhcp.state = "Requesting" /\ lastXid < MaxXid
-----------------------------------------------------------------------------
(* Why the address is right, whatever the number of servers and the times: *)
(* transactions only go forward, a transaction has at most one REQUEST's   *)
(* server, and servers grant and refuse what was asked of them.            *)
Leases ==
    [state : {"Discovering", "Requesting", "Bound"}, xid : 0..MaxXid, server : Servers \cup {None},
     left : 0..(RetryTime + RenewTime), tries : 0..RequestTries]
Questions(last) == [kind : {"Discover", "Request"}, xid : 1..last, server : Servers \cup {None}]
Replies(last) == [kind : {"Offer", "Ack", "Nak"}, xid : 1..last, server : Servers]

LeaseTypes ==
    /\ dhcp \in Leases
    /\ config \in Servers \cup {None} /\ status \in Servers \cup {None}
    /\ events \in Seq(Servers \cup {None})
    /\ lastXid \in 1..MaxXid
    /\ asked \subseteq Questions(lastXid) /\ replies \subseteq Replies(lastXid)

OneServerEach ==
    /\ dhcp.state # "Bound" => dhcp.xid = lastXid
    /\ dhcp.state = "Discovering" => \A m \in asked : m.xid = lastXid => m.kind = "Discover"
    /\ dhcp.state = "Requesting" =>
          /\ dhcp.server \in Servers
          /\ \A m \in asked : m.xid = lastXid /\ m.kind = "Request" => m.server = dhcp.server
    /\ \A r \in replies : r.kind # "Offer" => Request(r.xid, r.server) \in asked

LeaseInv == LeaseTypes /\ OneServerEach /\ AddressGranted /\ StatusFollows
=============================================================================
