------------------------------ MODULE Session -------------------------------
(***************************************************************************)
(* Commands from the Arduino: the link task and the shell task of          *)
(* src/main.rs, and the session that answers a retransmitted request from  *)
(* its cache (rustypi-core/src/session.rs).  The Uno is modelled from what *)
(* session.rs says of it: it says HELLO when it starts, numbers its        *)
(* requests from 1, sends each again until the complete reply is there,    *)
(* and may give up on one or restart.                                      *)
(*                                                                         *)
(* The serial line keeps the order of frames and may lose them (Framing    *)
(* drops the damaged ones).  A request is told apart from every other by   *)
(* the start of the Uno it belongs to and its number, and a HELLO by its   *)
(* start; the Pi sees neither's start.                                     *)
(***************************************************************************)
EXTENDS Integers, Sequences

CONSTANTS
    InboxLimit,             \* INBOX_LIMIT
    MaxBoots, MaxSeq,       \* bounds: starts of the Uno, requests it makes in each
    MaxWire,                \* bound: frames on the line, each way
    MaxOthers               \* bound: lines from the keyboard and the network

VARIABLES
    uno,        \* the Uno: which start, where it is, its request and replies taken
    toPi, toUno,
    link,       \* the link task: where it is in handling a frame
    pending,    \* PENDING
    inbox,      \* INBOX
    shell,      \* the shell task
    lastSeq,    \* Session.last_seq, 0 for None
    cached,     \* the request Session.reply belongs to
    ran,        \* requests run, in order
    lostHello,  \* a HELLO found no room in the inbox
    others

vars == <<uno, toPi, toUno, link, pending, inbox, shell, lastSeq, cached, ran, lostHello, others>>

None == [boot |-> 0, seq |-> 0]
Request(boot, seq) == [boot |-> boot, seq |-> seq]
Hello(boot) == [kind |-> "hello", request |-> Request(boot, 0)]
Msg(request) == [kind |-> "msg", request |-> request]
Other == [kind |-> "other", request |-> None]
Answer(kind, seq, request) == [kind |-> kind, seq |-> seq, request |-> request]
Reading == [pc |-> "reading", frame |-> Other]

Init ==
    /\ uno = [boot |-> 1, pc |-> "hello", seq |-> 0, took |-> None]
    /\ toPi = <<>> /\ toUno = <<>> /\ link = Reading
    /\ pending = 0 /\ inbox = <<>> /\ shell = [pc |-> "waiting", frame |-> Other]
    /\ lastSeq = 0 /\ cached = None /\ ran = <<>>
    /\ lostHello = FALSE /\ others = 0

(* A frame goes on the line, or is lost on it.                             *)
Lossy(line, frame) == IF Len(line) < MaxWire THEN {line, Append(line, frame)} ELSE {line}
-----------------------------------------------------------------------------
(* link_task: HELLO, and the two steps of a MSG around PENDING.            *)
Room == Len(inbox) < InboxLimit
Deliver(frame) == inbox' = IF Room THEN Append(inbox, frame) ELSE inbox

ReadHello ==
    /\ link.pc = "reading" /\ toPi # <<>> /\ Head(toPi).kind = "hello"
    /\ toPi' = Tail(toPi)
    /\ pending' = 0
    /\ link' = [pc |-> "hello", frame |-> Head(toPi)]
    /\ UNCHANGED <<uno, toUno, inbox, shell, lastSeq, cached, ran, lostHello, others>>

PassHello ==
    /\ link.pc = "hello" /\ link' = Reading
    /\ Deliver(link.frame)
    /\ lostHello' = (lostHello \/ ~Room)
    /\ toUno' \in Lossy(toUno, Answer("hello", 0, None))
    /\ UNCHANGED <<uno, toPi, pending, shell, lastSeq, cached, ran, others>>

ReadMsg ==
    /\ link.pc = "reading" /\ toPi # <<>> /\ Head(toPi).kind = "msg"
    /\ toPi' = Tail(toPi)
    /\ LET r == Head(toPi).request
       IN IF pending = r.seq + 1
          THEN /\ toUno' \in Lossy(toUno, Answer("busy", r.seq, r))
               /\ UNCHANGED <<pending, link>>
          ELSE /\ pending' = r.seq + 1
               /\ link' = [pc |-> "deliver", frame |-> Head(toPi)]
               /\ UNCHANGED toUno
    /\ UNCHANGED <<uno, inbox, shell, lastSeq, cached, ran, lostHello, others>>

PassMsg ==
    /\ link.pc = "deliver"
    /\ Deliver(link.frame)
    /\ link' = IF Room THEN Reading ELSE [link EXCEPT !.pc = "undo"]
    /\ UNCHANGED <<uno, toPi, toUno, pending, shell, lastSeq, cached, ran, lostHello, others>>

(* Mutated form of UndoPending: PENDING stays.                             *)
UndoPendingNot ==
    /\ link.pc = "undo" /\ link' = Reading
    /\ UNCHANGED <<uno, toPi, toUno, pending, inbox, shell, lastSeq, cached, ran, lostHello, others>>

UndoPending ==
    /\ link.pc = "undo" /\ link' = Reading /\ pending' = 0
    /\ UNCHANGED <<uno, toPi, toUno, inbox, shell, lastSeq, cached, ran, lostHello, others>>

LinkTask == ReadHello \/ PassHello \/ ReadMsg \/ PassMsg \/ UndoPending
-----------------------------------------------------------------------------
(* shell_task: the oldest frame.  A command it runs takes its time, and    *)
(* the link task goes on meanwhile.                                        *)
TakeFrame ==
    /\ shell.pc = "waiting" /\ inbox # <<>>
    /\ inbox' = Tail(inbox)
    /\ shell' = [pc |-> Head(inbox).kind, frame |-> Head(inbox)]
    /\ UNCHANGED <<uno, toPi, toUno, link, pending, lastSeq, cached, ran, lostHello, others>>

(* Mutated form of ResetSession: the last request stays.                   *)
ResetSessionNot ==
    /\ shell.pc = "hello" /\ shell' = [shell EXCEPT !.pc = "waiting"]
    /\ UNCHANGED <<uno, toPi, toUno, link, pending, inbox, lastSeq, cached, ran, lostHello, others>>

ResetSession ==
    /\ shell.pc = "hello" /\ shell' = [shell EXCEPT !.pc = "waiting"]
    /\ lastSeq' = 0
    /\ UNCHANGED <<uno, toPi, toUno, link, pending, inbox, cached, ran, lostHello, others>>

RunOther ==
    /\ shell.pc = "other" /\ shell' = [shell EXCEPT !.pc = "waiting"]
    /\ UNCHANGED <<uno, toPi, toUno, link, pending, inbox, lastSeq, cached, ran, lostHello, others>>

(* Session::handle, with send_reply; then PENDING is given up.             *)
Handled == shell.frame.request

(* Mutated form of Seen: every MSG is a new request.                       *)
SeenNever == FALSE

(* A retransmission of the last request.                                   *)
Seen == lastSeq = Handled.seq

(* Mutated form of ReplySeq: the reply carries the number in PENDING.      *)
ReplySeqPending == pending - 1

(* Every line of a reply carries its request's number.                     *)
ReplySeq == Handled.seq

HandleMsg ==
    /\ shell.pc = "msg" /\ shell' = [shell EXCEPT !.pc = "replied"]
    /\ IF Seen THEN UNCHANGED <<cached, ran, lastSeq>>
       ELSE cached' = Handled /\ ran' = Append(ran, Handled) /\ lastSeq' = Handled.seq
    /\ toUno' \in Lossy(toUno, Answer("reply", ReplySeq, cached'))
    /\ UNCHANGED <<uno, toPi, link, pending, inbox, lostHello, others>>

GiveUpPending ==
    /\ shell.pc = "replied" /\ shell' = [shell EXCEPT !.pc = "waiting"]
    /\ pending' = IF pending = Handled.seq + 1 THEN 0 ELSE pending
    /\ UNCHANGED <<uno, toPi, toUno, link, inbox, lastSeq, cached, ran, lostHello, others>>

ShellTask == TakeFrame \/ ResetSession \/ RunOther \/ HandleMsg \/ GiveUpPending

(* Lines from the keyboard or the network find room or not, like the rest. *)
DeliverOther ==
    /\ others < MaxOthers /\ others' = others + 1
    /\ Deliver(Other)
    /\ UNCHANGED <<uno, toPi, toUno, link, pending, shell, lastSeq, cached, ran, lostHello>>
-----------------------------------------------------------------------------
(* The Uno.                                                                *)
Say ==
    /\ uno.pc \in {"hello", "asks"}
    /\ toPi' \in Lossy(toPi, IF uno.pc = "hello" THEN Hello(uno.boot) ELSE Msg(Request(uno.boot, uno.seq)))
    /\ toPi' # toPi
    /\ UNCHANGED <<uno, toUno, link, pending, inbox, shell, lastSeq, cached, ran, lostHello, others>>

Asking(seq) == [boot |-> uno.boot, pc |-> "asks", seq |-> seq, took |-> None]

Hear ==
    /\ toUno # <<>> /\ toUno' = Tail(toUno)
    /\ LET a == Head(toUno)
       IN uno' = IF uno.pc = "hello" /\ a.kind = "hello" THEN Asking(1)
                 ELSE IF uno.pc = "asks" /\ a.kind = "reply" /\ a.seq = uno.seq
                 THEN [boot |-> uno.boot, pc |-> "took", seq |-> uno.seq, took |-> a.request]
                 ELSE uno
    /\ UNCHANGED <<toPi, link, pending, inbox, shell, lastSeq, cached, ran, lostHello, others>>

(* The next request, after a reply or giving up.                           *)
AskNext ==
    /\ uno.pc \in {"asks", "took"} /\ uno.seq < MaxSeq
    /\ uno' = Asking(uno.seq + 1)
    /\ UNCHANGED <<toPi, toUno, link, pending, inbox, shell, lastSeq, cached, ran, lostHello, others>>

(* By the time it is up again the line has gone quiet: the link task has   *)
(* read what was on it, and what it sent was not heard.                    *)
Restart ==
    /\ uno.boot < MaxBoots /\ toPi = <<>> /\ link.pc = "reading"
    /\ toUno' = <<>>
    /\ uno' = [boot |-> uno.boot + 1, pc |-> "hello", seq |-> 0, took |-> None]
    /\ UNCHANGED <<toPi, link, pending, inbox, shell, lastSeq, cached, ran, lostHello, others>>

Uno == Say \/ Hear \/ AskNext \/ Restart

Next == LinkTask \/ ShellTask \/ DeliverOther \/ Uno

Spec == Init /\ [][Next]_vars
-----------------------------------------------------------------------------
(* Every variable holds a value of its kind.                               *)
TypeOK ==
    /\ uno.boot \in 1..MaxBoots /\ uno.seq \in 0..MaxSeq
    /\ link.pc \in {"reading", "hello", "deliver", "undo"}
    /\ pending \in 0..MaxSeq + 1 /\ Len(inbox) <= InboxLimit
    /\ shell.pc \in {"waiting", "hello", "msg", "other", "replied"}
    /\ lastSeq \in 0..MaxSeq /\ Len(toPi) <= MaxWire /\ Len(toUno) <= MaxWire

(* No request runs twice, however often it is sent again and whenever its  *)
(* copies arrive (session.rs: "a retransmitted `led toggle` must not       *)
(* toggle again").                                                         *)
RunOnce == \A i, j \in DOMAIN ran : ran[i] = ran[j] => i = j

(* PENDING is honest: while it names a request and no MSG is between the   *)
(* store and the inbox, a MSG with that number waits for the shell or is   *)
(* handled by it.  Otherwise the Uno would hear BUSY for a request nobody  *)
(* has, for ever.                                                          *)
BusyIsTrue ==
    pending > 0 /\ link.pc \notin {"deliver", "undo"} =>
        \/ \E i \in DOMAIN inbox : inbox[i].kind = "msg" /\ inbox[i].request.seq + 1 = pending
        \/ shell.pc \in {"msg", "replied"} /\ Handled.seq + 1 = pending

(* A request is answered with its own reply: the cache is not taken for a  *)
(* request of another start of the Uno (Session::reset), unless the HELLO  *)
(* that said so was dropped.                                               *)
CacheIsOwn ==
    shell.pc = "replied" /\ ~lostHello => cached = Handled

(* The same, whatever is dropped (main.rs: "new ones are dropped; the Uno  *)
(* retransmits").                                                          *)
CacheIsOwnAlways == shell.pc = "replied" => cached = Handled

(* The Uno takes the reply to the request it made, in its first start.     *)
(* After a restart it may take the reply of a command still running from   *)
(* before for its own: the numbers begin again.                            *)
TakesOwnReply == uno.pc = "took" /\ uno.boot = 1 => uno.took = Request(uno.boot, uno.seq)
-----------------------------------------------------------------------------
(* Why: frames are in the order of their starts and numbers, a HELLO       *)
(* before the requests of its start, all the way from the Uno through the  *)
(* line, the link task and the inbox to the shell task.  Each of the sets  *)
(* Before... has the positions that come before all frames from there on.  *)
Positions == [boot : Nat, seq : Nat]
Leq(r, s) == r.boot < s.boot \/ (r.boot = s.boot /\ r.seq <= s.seq)
Me == Request(uno.boot, uno.seq)
Linked == link.pc \in {"hello", "deliver"}
Taken == shell.pc \in {"hello", "msg"}

BeforeLine == {r \in Positions : Leq(r, Me) /\ \A i \in DOMAIN toPi : Leq(r, toPi[i].request)}
BeforeLink == {r \in BeforeLine : Linked => Leq(r, link.frame.request)}
BeforeInbox ==
    {r \in BeforeLink : \A i \in DOMAIN inbox : inbox[i].kind # "other" => Leq(r, inbox[i].request)}
BeforeShell == {r \in BeforeInbox : Taken => Leq(r, shell.frame.request)}

InOrder ==
    /\ \A i, j \in DOMAIN toPi : i < j => Leq(toPi[i].request, toPi[j].request)
    /\ \A i \in DOMAIN toPi : Leq(toPi[i].request, Me)
    /\ Linked => link.frame.request \in BeforeLine
    /\ \A i, j \in DOMAIN inbox :
          i < j /\ inbox[i].kind # "other" /\ inbox[j].kind # "other" => Leq(inbox[i].request, inbox[j].request)
    /\ \A i \in DOMAIN inbox : inbox[i].kind # "other" => inbox[i].request \in BeforeLink
    /\ Taken => shell.frame.request \in BeforeInbox

(* What ran was before all that is to come; unless it was the last, all    *)
(* that is to come is after it.                                            *)
RanBefore ==
    /\ RunOnce
    /\ \A i \in DOMAIN ran :
          /\ ran[i].seq >= 1 /\ ran[i] \in BeforeShell
          /\ lastSeq = ran[i].seq \/ Request(ran[i].boot, ran[i].seq + 1) \in BeforeShell

(* A start of the Uno is settled when its HELLO waits for the shell, or    *)
(* nothing older is left and nothing older is cached.                      *)
HelloWaits ==
    {b \in Nat : \/ shell.pc = "hello" /\ shell.frame.request.boot = b
                 \/ \E i \in DOMAIN inbox : inbox[i].kind = "hello" /\ inbox[i].request.boot = b}
Settled ==
    {b \in Nat : b \in HelloWaits \/ (Request(b, 0) \in BeforeShell /\ (lastSeq > 0 => cached.boot >= b))}

Greeted == \E i \in DOMAIN toUno : toUno[i].kind = "hello"
AskedSettled == uno.pc # "hello" \/ Greeted => uno.boot \in Settled
InboxSettled == \A i \in DOMAIN inbox : inbox[i].kind = "msg" => inbox[i].request.boot \in Settled
TakenSettled == shell.pc = "msg" => Handled.boot \in Settled

CacheInv ==
    /\ cached \in BeforeShell /\ (lastSeq > 0 => cached.seq = lastSeq /\ cached.boot >= 1)
    /\ CacheIsOwn
    /\ ~lostHello => AskedSettled /\ InboxSettled /\ TakenSettled

(* A reply has its request's number, in this start of the Uno or before.   *)
RepliesFit ==
    /\ \A i \in DOMAIN toUno :
          toUno[i].kind = "reply" => toUno[i].request.seq = toUno[i].seq /\ toUno[i].request.boot \in 1..uno.boot
    /\ uno.pc = "took" => uno.took.seq = uno.seq /\ uno.took.boot \in 1..uno.boot

PendingIsSomewhere ==
    pending > 0 =>
        \/ link.pc \in {"deliver", "undo"} /\ link.frame.request.seq + 1 = pending
        \/ \E i \in DOMAIN inbox : inbox[i].kind = "msg" /\ inbox[i].request.seq + 1 = pending
        \/ shell.pc \in {"msg", "replied"} /\ Handled.seq + 1 = pending

Requests == [boot : 0..MaxBoots, seq : 0..MaxSeq]
Frames == [kind : {"hello", "msg", "other"}, request : Requests]
Answers == [kind : {"hello", "busy", "reply"}, seq : 0..MaxSeq, request : Requests]
Proper(f) == f.kind # "other" => f.request.boot >= 1 /\ (f.request.seq = 0 <=> f.kind = "hello")

UnoTypes ==
    /\ uno \in [boot : 1..MaxBoots, pc : {"hello", "asks", "took"}, seq : 0..MaxSeq, took : Requests]
    /\ uno.pc = "hello" <=> uno.seq = 0
LineTypes ==
    /\ toPi \in Seq(Frames) /\ Len(toPi) <= MaxWire
    /\ \A i \in DOMAIN toPi : toPi[i].kind # "other" /\ Proper(toPi[i]) /\ toPi[i].request.boot = uno.boot
AnswerTypes == toUno \in Seq(Answers) /\ Len(toUno) <= MaxWire
LinkTypes ==
    /\ link \in [pc : {"reading", "hello", "deliver", "undo"}, frame : Frames] /\ Proper(link.frame)
    /\ link.pc # "reading" => link.frame.request.boot = uno.boot
    /\ link.pc = "hello" => link.frame.kind = "hello"
    /\ link.pc \in {"deliver", "undo"} => link.frame.kind = "msg"
InboxTypes == inbox \in Seq(Frames) /\ Len(inbox) <= InboxLimit /\ \A i \in DOMAIN inbox : Proper(inbox[i])
ShellTypes ==
    /\ shell \in [pc : {"waiting", "hello", "msg", "other", "replied"}, frame : Frames] /\ Proper(shell.frame)
    /\ shell.pc = "hello" => shell.frame.kind = "hello"
    /\ shell.pc \in {"msg", "replied"} => shell.frame.kind = "msg"
StoreTypes ==
    /\ lastSeq \in 0..MaxSeq /\ cached \in Requests /\ ran \in Seq(Requests)
    /\ lostHello \in BOOLEAN /\ pending \in 0..MaxSeq + 1

SessionTypes ==
    /\ UnoTypes /\ LineTypes /\ AnswerTypes /\ LinkTypes /\ InboxTypes /\ ShellTypes /\ StoreTypes

SessionInv == SessionTypes /\ InOrder /\ RanBefore /\ CacheInv /\ RepliesFit /\ PendingIsSomewhere
=============================================================================
