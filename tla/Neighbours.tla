----------------------------- MODULE Neighbours -----------------------------
(***************************************************************************)
(* Sending and receiving on the interface once it has an address: ARP, the *)
(* packets that wait for it, pings both ways (rustypi-core/src/net/        *)
(* interface.rs with arp.rs, icmp.rs and ethernet.rs), and the `ping` of   *)
(* the shell that waits for the answer (src/sys/net/mod.rs).               *)
(*                                                                         *)
(* A frame once sent may arrive at any time: late, twice, out of order or  *)
(* not at all.  A MAC address is the host it belongs to and a number, as a *)
(* host's address may move to another MAC.  A timer is the time left.  The *)
(* address itself comes and goes as DHCP has it (Dhcp).                    *)
(***************************************************************************)
EXTENDS Naturals, Sequences, FiniteSets, SequencesExt

CONSTANTS
    Local,          \* hosts of our own network
    Remote,         \* hosts behind the gateway
    Gateway,        \* a host of Local
    ArpCache,       \* ARP_CACHE
    ArpRetry, ArpGiveUp, PingTimeout,   \* the interface's times
    PingWait,       \* how long the shell's ping waits
    MaxPackets,     \* bound: packets sent
    MaxMoves        \* bound: changes of a host's MAC or of our address

Hosts == Local \cup Remote
None == "none"

VARIABLES
    config,     \* Interface.config: which of our addresses, 0 for None
    cache,      \* Interface.arp, newest last
    waiting,    \* Interface.waiting
    pings,      \* Interface.pings
    asked,      \* hosts our ARP requests have asked for
    gone,       \* IPv4 packets we have put on the wire, with the MAC they went to
    packets,    \* packets built so far: the next one's identification
    requests,   \* PING_REQUESTS
    answers,    \* PING_REPLIES
    caller,     \* the shell in sys::net::ping
    mac,        \* per local host: the number of its MAC now
    moves

vars == <<config, cache, waiting, pings, asked, gone, packets,
          requests, answers, caller, mac, moves>>

Idle == [pc |-> "idle", target |-> None, seq |-> 0, left |-> 0, from |-> None]

(* Config.gateway: the second of our addresses came without a router.      *)
HasGateway == config = 1

NextHop(dst) == IF dst \in Local THEN dst ELSE Gateway

(* lookup, and learn: the newest entry of a host, and remembering one with *)
(* room made by forgetting the oldest.                                     *)
Lookup(ip) == {cache[i].mac : i \in {j \in DOMAIN cache : cache[j].ip = ip}}

Learned(ip, m) ==
    LET others == SelectSeq(cache, LAMBDA e: e.ip # ip)
        kept == IF Len(others) = ArpCache THEN Tail(others) ELSE others
    IN Append(kept, [ip |-> ip, mac |-> m])

(* Mutated form of WaitsNot: nothing stops waiting.                        *)
WaitsStill(hop) == waiting

(* Mutated form of Waits: whatever waits goes out.                         *)
WaitsAny(hop) == waiting

Waits(hop) == SelectSeq(waiting, LAMBDA w: w.hop = hop)
WaitsNot(hop) == SelectSeq(waiting, LAMBDA w: w.hop # hop)

Out(packet, m) == [packet |-> packet, mac |-> m]

Learn(ip, m) ==
    /\ cache' = Learned(ip, m)
    /\ gone' = gone \o [i \in DOMAIN Waits(ip) |-> Out(Waits(ip)[i].packet, m)]
    /\ waiting' = WaitsNot(ip)

(* send_ip: straight away to a hop that is known, else it waits for ARP in *)
(* the place of what waited for the same hop.                              *)
SendIp(dst, kind, seq) ==
    LET packet == [id |-> packets, src |-> config, dst |-> dst, kind |-> kind, seq |-> seq]
        hop == NextHop(dst)
    IN IF config = 0 \/ (dst \in Remote /\ ~HasGateway)
       THEN UNCHANGED <<packets, gone, waiting, asked>>
       ELSE /\ packets' = packets + 1
            /\ IF Lookup(hop) # {}
               THEN /\ gone' = Append(gone, Out(packet, CHOOSE m \in Lookup(hop) : TRUE))
                    /\ UNCHANGED <<waiting, asked>>
               ELSE /\ waiting' = Append(WaitsNot(hop),
                                    [hop |-> hop, packet |-> packet,
                                     left |-> ArpGiveUp, ask |-> ArpRetry])
                    /\ asked' = asked \cup {hop}
                    /\ UNCHANGED gone

Init ==
    /\ config = 1
    /\ cache = <<>> /\ waiting = <<>> /\ pings = <<>>
    /\ asked = {} /\ gone = <<>> /\ packets = 0
    /\ requests = <<>> /\ answers = <<>> /\ caller = Idle
    /\ mac = [h \in Local |-> 1] /\ moves = 0

(* send_udp, for a console reply, a lookup or an update's answer.          *)
SendUdp(dst) ==
    /\ packets + Len(requests) < MaxPackets
    /\ SendIp(dst, "udp", 0)
    /\ UNCHANGED <<config, cache, pings, requests, answers, caller, mac, moves>>

(* The network task takes a ping the shell asked for: Interface::ping.     *)
SendPing ==
    /\ requests # <<>>
    /\ requests' = Tail(requests)
    /\ LET r == Head(requests)
       IN /\ pings' = Append(SelectSeq(pings, LAMBDA p: p.seq # r.seq),
                             [seq |-> r.seq, left |-> PingTimeout])
          /\ SendIp(r.target, "ping", r.seq)
    /\ UNCHANGED <<config, cache, answers, caller, mac, moves>>

(* receive_arp: nothing without an address of our own.                     *)
ReceiveArp(f) ==
    /\ f.kind = "arp" /\ config # 0
    /\ Learn(f.from, f.mac)
    /\ UNCHANGED <<config, pings, asked, packets, requests, answers, caller, mac, moves>>

(* receive_ipv4 with a ping of another host, which is answered to the MAC  *)
(* it came from (the answer is not followed), and its sender remembered if *)
(* it is a neighbour.                                                      *)
ReceiveEcho(f) ==
    /\ f.kind = "echo" /\ config # 0 /\ f.to = config
    /\ IF f.from \in Local THEN Learn(f.from, f.mac) ELSE UNCHANGED <<cache, gone, waiting>>
    /\ UNCHANGED <<config, pings, asked, packets, requests, answers, caller, mac, moves>>

(* receive_ipv4 with the answer to a ping, and the network task's handling *)
(* of the event.                                                           *)
ReceiveEchoReply(f) ==
    /\ f.kind = "reply" /\ config # 0 /\ f.to = config
    /\ \E i \in DOMAIN pings : pings[i].seq = f.seq
    /\ pings' = SelectSeq(pings, LAMBDA p: p.seq # f.seq)
    /\ answers' = Append(answers, [from |-> f.from, seq |-> f.seq])
    /\ UNCHANGED <<config, cache, waiting, asked, gone, packets, requests, caller, mac, moves>>

(* poll, its ARP and ping half, and time passing: packets given up on,     *)
(* requests that go again, pings forgotten.                                *)
Down(n) == IF n = 0 THEN 0 ELSE n - 1

Poll ==
    LET kept == SelectSeq(waiting, LAMBDA w: w.left > 0)
        due == {w.hop : w \in {v \in ToSet(kept) : v.ask = 0}}
    IN /\ waiting' = [i \in DOMAIN kept |-> IF kept[i].ask = 0 THEN [kept[i] EXCEPT !.ask = ArpRetry] ELSE kept[i]]
       /\ asked' = IF config = 0 THEN asked ELSE asked \cup due
       /\ pings' = SelectSeq(pings, LAMBDA p: p.left > 0)
       /\ UNCHANGED <<config, cache, gone, packets, requests, answers, caller, mac, moves>>

Tick ==
    /\ waiting # <<>> \/ pings # <<>> \/ caller.left > 0
    /\ waiting' = [i \in DOMAIN waiting |-> [waiting[i] EXCEPT !.left = Down(@), !.ask = Down(@)]]
    /\ pings' = [i \in DOMAIN pings |-> [pings[i] EXCEPT !.left = Down(@)]]
    /\ caller' = [caller EXCEPT !.left = Down(@)]
    /\ UNCHANGED <<config, cache, asked, gone, packets, requests, answers, mac, moves>>

(* sys::net::ping: asked for, answered, or given up on.  It forgets        *)
(* answers to an earlier ping of the same number first.                    *)
CallPing(target, seq) ==
    /\ caller.pc = "idle" /\ packets + Len(requests) < MaxPackets /\ config # 0
    /\ answers' = SelectSeq(answers, LAMBDA a: a.seq # seq)
    /\ requests' = Append(requests, [target |-> target, seq |-> seq])
    /\ caller' = [pc |-> "waits", target |-> target, seq |-> seq, left |-> PingWait, from |-> None]
    /\ UNCHANGED <<config, cache, waiting, pings, asked, gone, packets, mac, moves>>

(* Mutated form of Mine: whoever answers.                                  *)
MineBySeq(a) == a.seq = caller.seq

Mine(a) == a.seq = caller.seq /\ a.from = caller.target

TakeAnswer ==
    /\ caller.pc = "waits"
    /\ \E i \in DOMAIN answers :
          /\ Mine(answers[i])
          /\ answers' = RemoveAt(answers, i)
          /\ caller' = [caller EXCEPT !.pc = "done", !.from = answers[i].from, !.left = 0]
    /\ UNCHANGED <<config, cache, waiting, pings, asked, gone, packets, requests, mac, moves>>

GiveUpPing ==
    /\ caller.pc = "waits" /\ caller.left = 0
    /\ ~\E i \in DOMAIN answers : Mine(answers[i])
    /\ caller' = Idle
    /\ UNCHANGED <<config, cache, waiting, pings, asked, gone, packets, requests, answers, mac, moves>>

ReturnPing ==
    /\ caller.pc = "done"
    /\ caller' = Idle
    /\ UNCHANGED <<config, cache, waiting, pings, asked, gone, packets, requests, answers, mac, moves>>

(* DHCP gives another address, or takes it back.                           *)
Readdress ==
    /\ moves < MaxMoves /\ moves' = moves + 1
    /\ config' \in 0..2 \ {config}
    /\ UNCHANGED <<cache, waiting, pings, asked, gone, packets, requests, answers, caller, mac>>

(* The other hosts.  They answer ARP and our pings, ask and ping us        *)
(* themselves, and may come back with another MAC.  Whatever was sent to   *)
(* us once may arrive at any time after: `Arriving`.                       *)
Frame(kind, from, to, seq, n) ==
    [kind |-> kind, from |-> from, to |-> to, seq |-> seq, mac |-> <<NextHop(from), n>>]

Arriving ==
    {Frame("arp", h, 0, 0, mac[h]) : h \in asked}
        \cup {Frame("echo", h, config, 0, mac[NextHop(h)]) : h \in Hosts}
        \cup {Frame("echo", h, config, 0, 1) : h \in Hosts}
        \cup {Frame("reply", o.packet.dst, o.packet.src, o.packet.seq, 1) :
                  o \in {g \in ToSet(gone) : g.packet.kind = "ping"}}

HostMoves(h) ==
    /\ moves < MaxMoves /\ moves' = moves + 1
    /\ mac' = [mac EXCEPT ![h] = @ + 1]
    /\ UNCHANGED <<config, cache, waiting, pings, asked, gone, packets, requests, answers, caller>>

Receive == \E f \in Arriving : ReceiveArp(f) \/ ReceiveEcho(f) \/ ReceiveEchoReply(f)
Shell == \/ \E target \in Hosts, seq \in {1} : CallPing(target, seq)
         \/ TakeAnswer \/ GiveUpPing \/ ReturnPing

Next ==
    \/ \E dst \in Hosts : SendUdp(dst)
    \/ SendPing \/ Receive \/ Poll \/ Tick
    \/ Shell
    \/ Readdress
    \/ \E h \in Local : HostMoves(h)

Spec == Init /\ [][Next]_vars
-----------------------------------------------------------------------------
(* Every variable holds a value of its kind.                               *)
TypeOK ==
    /\ config \in 0..2 /\ Len(cache) <= ArpCache
    /\ asked \subseteq Local /\ packets <= MaxPackets
    /\ \A i \in DOMAIN waiting : waiting[i].left \in 0..ArpGiveUp /\ waiting[i].ask \in 0..ArpRetry
    /\ \A i \in DOMAIN pings : pings[i].left \in 0..PingTimeout
    /\ caller.pc \in {"idle", "waits", "done"} /\ caller.left \in 0..PingWait

(* A packet waits only for a hop that is not known: learning where a hop   *)
(* is sends what waits for it, so nothing is left behind in `waiting`      *)
(* (learn, send_ip), whatever is learnt, forgotten or replaced meanwhile.  *)
(* And one packet waits per hop.                                           *)
WaitingUnresolved ==
    /\ \A i \in DOMAIN waiting : Lookup(waiting[i].hop) = {}
    /\ \A i, j \in DOMAIN waiting : waiting[i].hop = waiting[j].hop => i = j

(* A packet leaves at most once, for a MAC of its own next hop: never of   *)
(* another host, in whatever order ARP answers and pings come in.          *)
SentOnceToItsHop ==
    /\ \A i \in DOMAIN gone : gone[i].mac[1] = NextHop(gone[i].packet.dst)
    /\ \A i, j \in DOMAIN gone : gone[i].packet.id = gone[j].packet.id => i = j

(* The shell's ping succeeds only if a ping of that number has gone out to *)
(* that very host: an answer another host gives late to an earlier ping    *)
(* does not end it (sys::net::ping checks the number and the sender).      *)
(* Which of several pings of one number to one host was answered is not    *)
(* known: a late answer to an earlier call, whose numbers began at 1 too,  *)
(* ends a new one, and the round trip is then not that of the new ping     *)
(* ("Pings `target` once ... Returns the round trip").                     *)
PingFromTarget ==
    caller.pc = "done" =>
        \E i \in DOMAIN gone : /\ gone[i].packet.kind = "ping"
                               /\ gone[i].packet.dst = caller.target
                               /\ gone[i].packet.seq = caller.seq

(* Nothing more is sent; the interface must then stop waiting for the      *)
(* network (awaiting), whatever is lost, so that its task sleeps again.    *)
Quiet == packets >= MaxPackets /\ caller = Idle /\ requests = <<>>
Awaiting == waiting # <<>> \/ pings # <<>>

(* The shell is in a ping, which must return.                              *)
Pinging == caller.pc # "idle"
=============================================================================
