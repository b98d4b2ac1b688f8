------------------------------- MODULE Lan7800 ------------------------------
(***************************************************************************)
(* The Ethernet controller's driver (drivers::lan7800) and how it unwraps  *)
(* received frames (rustypi_core::net::lan7800).  A call is a list of      *)
(* operations on the controller's registers, each of them USB control      *)
(* transfers: any may fail, and the call with it, after the register was   *)
(* written or before.  The controller takes its time to reset and to get   *)
(* at the PHY's registers.  A call that is given up leaves it at that.     *)
(*                                                                         *)
(* What the Ethernet cable does (line) is "down", "negotiating" or a speed.*)
(***************************************************************************)
EXTENDS Integers, Sequences, SequencesExt

CONSTANTS Speeds,
          FrameSizes,    \* sizes of received frames with their FCS
          MaxFrames,     \* bound: frames in a transfer
          MaxCalls, MaxErrors, MaxChanges  \* bounds: calls, USB errors and timeouts, changes of the line

VARIABLES lan,           \* "none", "starting", "up" or "failed": what bring_up has
          todo,          \* the operations that are left of the call, if one is made
          read,          \* what it has read of the PHY
          configured,    \* what the controller is set to
          resetting,     \* the parts of it that are: "mac", "phy"
          access,        \* the PHY access under way
          mii_data,      \* the register MII_DATA
          line,
          lines,         \* history: what the line was during the call
          link,          \* what link returned, and what the line was during it
          received,      \* what a transfer brought, and what receive made of it
          calls, errors, changes

vars == <<lan, todo, read, configured, resetting, access, mii_data, line, lines, link, received, calls, errors, changes>>
registers == <<configured, resetting, access, mii_data>>

None == [none |-> TRUE]
Settings == {"address", "bursts", "fifos", "flow", "filter", "auto", "tx", "rx", "leds"}
-----------------------------------------------------------------------------
(* The driver's calls                                                      *)

Op(kind, what) == [kind |-> kind, what |-> what]
Set(setting) == <<Op("set", setting)>>    \* writes and modifies of registers
Wait(what) == <<Op("wait", what)>>
Access(index, write) == <<Op("access", [index |-> index, write |-> write])>>

PhyAccess(index, write) == Access(index, write) \o Wait("access")

\* Mutated form of PhyRead: it doesn't wait for an access that is under way.
PhyReadEagerly(index) == PhyAccess(index, FALSE) \o <<Op("read", "data")>>

PhyRead(index) == Wait("access") \o PhyAccess(index, FALSE) \o <<Op("read", "data")>>

PhyWrite(index, value) == Wait("access") \o <<Op("data", value)>> \o PhyAccess(index, TRUE)

\* Mutated form of Reset: nobody waits for it.
ResetUnawaited == <<Op("reset", "mac")>>

Reset == <<Op("reset", "mac")>> \o Wait("mac")

\* Lan7800::init
InitOps ==
  <<Op("read", "id")>> \o Reset
    \o Set("address") \o Set("bursts") \o Set("fifos") \o Set("flow") \o Set("filter")
    \o <<Op("reset", "phy")>> \o Wait("phy")
    \o Set("auto") \o Set("tx") \o Set("rx")
    \o PhyWrite("page", "0") \o PhyRead("leds") \o PhyWrite("leds", "leds")

\* Lan7800::link
LinkOps == PhyRead("status") \o PhyWrite("page", "0") \o PhyRead("aux")

\* What the bits of MII_DATA say: of the basic status, and of the auxiliary status.
Up(data) == data.index = "status" /\ data.line # "down"
Negotiated(data) == data.index = "aux" /\ data.line \in Speeds

Linked(reads) ==
  LET up == Up(reads[1])
  IN  [up |-> up, speed |-> IF up /\ Negotiated(reads[2]) THEN reads[2].line ELSE "none", during |-> lines]

\* bring_up
Start ==
  /\ lan = "none"
  /\ lan' = "starting"
  /\ todo' = InitOps /\ read' = <<>> /\ lines' = {line}
  /\ UNCHANGED <<registers, line, link, received, calls, errors, changes>>

\* The network task asks for the link's state.
Link ==
  /\ lan = "up" /\ todo = <<>> /\ calls < MaxCalls
  /\ todo' = LinkOps /\ read' = <<>> /\ lines' = {line}
  /\ calls' = calls + 1
  /\ UNCHANGED <<lan, registers, line, link, received, errors, changes>>

\* The end of a call that nothing failed of.
Done ==
  /\ lan' = "up"
  /\ link' = IF lan = "up" THEN Linked(read') ELSE link

\* The error goes to the caller: bring_up gives up on the controller, and the network task asks again.
Fail ==
  /\ errors < MaxErrors
  /\ errors' = errors + 1
  /\ todo' = <<>> /\ read' = <<>>
  /\ lan' = IF lan = "starting" THEN "failed" ELSE lan
  /\ UNCHANGED <<line, lines, link, received, calls, changes>>

Busy(what) == IF what = "access" THEN access # None ELSE what \in resetting

\* What writing to a register does.  A PHY access during another one isn't begun.
Written(op) ==
  /\ op.kind \in {"set", "reset", "data", "access"}
  /\ configured' = IF op.kind = "set" THEN configured \cup {op.what} ELSE configured
  /\ resetting' = IF op.kind = "reset" THEN resetting \cup {op.what} ELSE resetting
  /\ mii_data' = IF op.kind = "data" THEN [index |-> "none", line |-> op.what] ELSE mii_data
  /\ access' = IF op.kind = "access" /\ access = None THEN op.what ELSE access

\* An operation that only reads: wait's last time around.
Looked(op) ==
  /\ op.kind \in {"wait", "read"}
  /\ op.kind = "wait" => ~Busy(op.what)
  /\ UNCHANGED registers

\* The next operation of a call
Step ==
  LET op == Head(todo)
  IN  /\ todo # <<>>
      /\ Written(op) \/ Looked(op)
      /\ todo' = Tail(todo)
      /\ read' = IF op.kind = "read" /\ op.what = "data" THEN Append(read, mii_data) ELSE read
      /\ IF Tail(todo) = <<>> THEN Done ELSE UNCHANGED <<lan, link>>
      /\ UNCHANGED <<line, lines, received, calls, errors, changes>>

\* Its USB transfers fail (or the ID is another chip's); what they write may have been written.
UsbError == todo # <<>> /\ (Written(Head(todo)) \/ UNCHANGED registers) /\ Fail

\* wait gives up after REGISTER_TIMEOUT_US.
TimesOut ==
  /\ todo # <<>> /\ Head(todo).kind = "wait" /\ Busy(Head(todo).what)
  /\ UNCHANGED registers
  /\ Fail
-----------------------------------------------------------------------------
(* Received frames.  A transfer is a sequence of bytes; the first one of a *)
(* header stands for RX command A.                                         *)

RxHeader == 10
Fcs == 4

\* Mutated form of Padding: without the C word.
PaddingAlone(size) == (4 - (size % 4)) % 4

Padding(size) == (4 - ((size + 2) % 4)) % 4

\* rx: the frames of a transfer, from byte `at` on
Rx(transfer) ==
  LET from[at \in Nat] ==
        IF at + RxHeader > Len(transfer) THEN <<>>
        ELSE LET a == transfer[at + 1]
                 first == at + RxHeader
                 \* a byte that isn't a header is one all the same
                 size == IF "size" \in DOMAIN a THEN a.size ELSE 0
                 frame == SubSeq(transfer, first + 1, first + size - Fcs)
             IN  IF first + size > Len(transfer) THEN <<>>
                 ELSE (IF "size" \in DOMAIN a /\ ~a.error /\ size > Fcs THEN <<frame>> ELSE <<>>)
                      \o from[first + size + Padding(size)]
  IN  from[0]

Frames == [size : FrameSizes, error : BOOLEAN]

\* Hardware: a frame as the controller puts it, up to four-byte alignment with the C word.
Wrapped(n, frame) ==
  LET size == frame.size
      aligned == CHOOSE k \in 0 .. 3 : (2 + size + k) % 4 = 0
  IN  <<frame>> \o [i \in 1 .. RxHeader - 1 |-> None]
        \o [i \in 1 .. size |-> [frame |-> n, byte |-> i]]
        \o [i \in 1 .. aligned |-> None]

Transfer(frames) == FoldLeft(LAMBDA bytes, n : bytes \o Wrapped(n, frames[n]), <<>>, [n \in DOMAIN frames |-> n])

\* Of these, the ones that are good and arrived whole in so many bytes, without their FCS.
GoodFrames(frames, length) ==
  LET Whole(n) == Len(Transfer(SubSeq(frames, 1, n - 1))) + RxHeader + frames[n].size <= length
      Good(n) == Whole(n) /\ ~frames[n].error /\ frames[n].size > Fcs
      good == SelectSeq([n \in DOMAIN frames |-> n], Good)
  IN  [k \in DOMAIN good |-> [i \in 1 .. frames[good[k]].size - Fcs |-> [frame |-> good[k], byte |-> i]]]

\* receive: the transfer may be cut short.  It shares nothing with the other calls: it is made
\* instead of them, and with the line as it was (a bound).
Receive ==
  /\ lan = "up" /\ todo = <<>> /\ calls = 0 /\ changes = 0
  /\ calls' = MaxCalls
  /\ \E n \in 0 .. MaxFrames : \E frames \in [1 .. n -> Frames] : \E length \in 0 .. Len(Transfer(frames)) :
       received' = <<[got |-> Rx(SubSeq(Transfer(frames), 1, length)), good |-> GoodFrames(frames, length)]>>
  /\ UNCHANGED <<lan, todo, read, registers, line, lines, link, errors, changes>>
-----------------------------------------------------------------------------
(* Hardware                                                                *)

\* A reset sets everything back, and ends what was under way.
FinishReset(part) ==
  /\ part \in resetting
  /\ resetting' = resetting \ {part}
  /\ configured' = IF part = "mac" THEN {} ELSE configured \ {"leds"}
  /\ access' = None
  /\ UNCHANGED <<lan, todo, read, mii_data, line, lines, link, received, calls, errors, changes>>

FinishAccess ==
  /\ access # None
  /\ access' = None
  /\ mii_data' = IF access.write THEN mii_data ELSE [index |-> access.index, line |-> line]
  /\ configured' = IF access.write /\ access.index = "leds" /\ mii_data.line = "leds" THEN configured \cup {"leds"}
                   ELSE configured
  /\ UNCHANGED <<lan, todo, read, resetting, line, lines, link, received, calls, errors, changes>>

\* The cable is plugged in or pulled, or the other end settles on a speed.
LineChanges(now) ==
  /\ changes < MaxChanges /\ now # line
  /\ changes' = changes + 1
  /\ line' = now
  /\ lines' = IF todo = <<>> THEN lines ELSE lines \cup {now}
  /\ UNCHANGED <<lan, todo, read, registers, link, received, calls, errors>>
-----------------------------------------------------------------------------
Init ==
  /\ lan = "none" /\ todo = <<>> /\ read = <<>>
  /\ configured = {} /\ resetting = {} /\ access = None
  /\ mii_data = [index |-> "none", line |-> "0"]
  /\ line = "down" /\ lines = {}
  /\ link = [up |-> FALSE, speed |-> "none", during |-> {"down"}]
  /\ received = <<>>
  /\ calls = 0 /\ errors = 0 /\ changes = 0

Next ==
  \/ Start \/ Link \/ Step \/ UsbError \/ TimesOut \/ Receive
  \/ \E part \in {"mac", "phy"} : FinishReset(part)
  \/ FinishAccess
  \/ \E now \in {"down", "negotiating"} \cup Speeds : LineChanges(now)

Spec == Init /\ [][Next]_vars
-----------------------------------------------------------------------------
(* Properties.                                                             *)

\* A controller that start returned is set up whole: no reset that was still under way undid any of
\* it, and none will.
UpIsConfigured == lan = "up" => configured = Settings /\ resetting = {}

\* "Whether the cable is in and the link up, and at what speed": what link returns was so during the
\* call, even if an earlier call was given up in the middle of a PHY access.
LinkWasSo ==
  /\ IF link.up THEN link.during # {"down"} ELSE "down" \in link.during
  /\ link.speed # "none" => link.speed \in link.during

\* "Frames the controller marks bad are left out; a transfer cut short ends the list": rx finds the
\* good ones that arrived whole, each with just its own bytes.
ReceivesGoodFrames == \A r \in ToSet(received) : r.got = r.good
=============================================================================
