------------------------------ MODULE UsbTree ------------------------------
(***************************************************************************)
(* The bus as the kernel knows it (rustypi-core/src/usb/tree.rs) and the   *)
(* task that keeps it up to date (src/sys/usb.rs), next to the bus as it   *)
(* is: hubs with ports that are powered, enabled and flagged as changed,   *)
(* and devices that answer at an address.                                  *)
(*                                                                         *)
(* One step of the task is one control transfer with what the code does    *)
(* with its outcome.  A transfer may be lost, before or after the device   *)
(* acted on it, and devices are plugged in and pulled out between any two  *)
(* transfers.  The enumerator's recursion (poll_hub, hub) is the stack of  *)
(* its port loops.                                                         *)
(***************************************************************************)
EXTENDS Integers, Sequences, FiniteSets, TLC

CONSTANTS
    Devices,        \* what can be plugged in
    Root,           \* the hub soldered to the root port
    Kind,           \* [Devices \cup {Root} -> {"hub", "keyboard", "other"}]
    SpeedOf,        \* [Devices \cup {Root} -> {"low", "full", "high"}]
    PortsOf,        \* [hubs -> Nat]
    Arrangements,   \* where everything is plugged in at boot
    MaxDepth,       \* MAX_DEPTH
    MaxAddress,     \* MAX_ADDRESS
    MaxPlugs,       \* bound: devices plugged in or pulled out
    MaxFaults       \* bound: transfers lost, resets never finished

VARIABLES
    up,         \* where each device is plugged in
    port,       \* the state of every hub's ports
    address,    \* the address each device answers at
    tree,       \* Tree::root, by path: the port numbers down to a port
    used,       \* Tree::addresses
    stack,      \* the port loops under way, innermost first
    at,         \* the transfer the task does next
    cur,        \* the locals of port, reset_port, device and addressed
    removed,    \* addresses of Change::Removed, from the poll under way
    keyboard,   \* serve's keyboard: its Target
    refused,    \* serve's refused
    plugs, faults,
    overlooked, \* ports something was plugged into between the poll's look and its clear
    orphaned,   \* the keyboard in use was forgotten with the hub it is behind
    stuck       \* a port was not disabled: the request was lost, or a reset still under way

bus == <<up, port, address>>
known == <<tree, used, stack, at, cur, removed, keyboard, refused>>
history == <<overlooked, orphaned, stuck>>
vars == <<bus, known, plugs, faults, history>>

-----------------------------------------------------------------------------
(* The bus: devices, hubs and their ports.                                  *)

Nodes == Devices \cup {Root}
Hubs == {d \in Nodes : Kind[d] = "hub"}
Places == {<<h, n>> \in Hubs \X (1..3) : n <= PortsOf[h]}
Nowhere == <<>>
NoTranslator == <<>>
Addresses == 1..MaxAddress

Off == [powered |-> FALSE, enabled |-> FALSE, resetting |-> FALSE,
        changed |-> FALSE, resetChanged |-> FALSE]

\* The nodes from d up to the root, as far as they are plugged in.
RECURSIVE Above(_, _)
Above(where, d) ==
    {d} \cup IF d = Root \/ where[d] = Nowhere THEN {} ELSE Above(where, where[d][1])

At(place) == {d \in Devices : up[d] = place}
Connected(place) == port[place].powered /\ At(place) # {}

\* The ports of the hubs on a port, or behind it: they lose power, or are reset, with it.
Behind(where, place) ==
    {q \in Places : \E d \in Devices : where[d] = place /\ d \in Above(where, q[1])}

Answers(d) == d = Root \/ (up[d] # Nowhere /\ port[up[d]].enabled)

\* The speed a device runs at: behind a slower hub, no faster than that.
RECURSIVE Speed(_)
Speed(d) == IF d = Root \/ SpeedOf[d] # "high" THEN SpeedOf[d]
            ELSE IF Speed(up[d][1]) = "high" THEN "high" ELSE "full"

\* The translator a slow device's transactions really go through: the nearest high speed
\* hub's above it.
RECURSIVE Through(_)
Through(d) ==
    IF Speed(d) = "high" \/ d = Root THEN NoTranslator
    ELSE LET h == up[d][1]
         IN  IF Speed(h) = "high" THEN <<address[h], up[d][2]>> ELSE Through(h)

\* The devices that take a control transfer to target for theirs.
Reached(target) ==
    {d \in Nodes : Answers(d) /\ address[d] = target.address
                              /\ Through(d) = target.translator}

-----------------------------------------------------------------------------
(* The tree.                                                                *)

Empty == [is |-> "empty"]
Failed == [is |-> "failed"]
DeviceNode(d, target) == [is |-> "device", device |-> d, address |-> target.address,
                          speed |-> target.speed, translator |-> target.translator]

Prefixes(path) == {SubSeq(path, 1, k) : k \in 0..Len(path)}
Parent(path) == SubSeq(path, 1, Len(path) - 1)
KnownPaths == {p \in DOMAIN tree : tree[p].is = "device"}

\* Device::target.
Target(path) == [address |-> tree[path].address, speed |-> tree[path].speed,
                 translator |-> tree[path].translator]

\* Mutated form of Walk: only the device itself.
WalkAlone(path) == {path} \cap KnownPaths

\* Device::walk, as the set of paths it visits.
Walk(path) == {p \in KnownPaths : path \in Prefixes(p)}

\* Depth first, port 1 first: the order walk visits paths in.
RECURSIVE Earlier(_, _)
Earlier(p, q) == \/ p = <<>>
                 \/ q # <<>> /\ p # <<>> /\ \/ Head(p) < Head(q)
                                            \/ Head(p) = Head(q) /\ Earlier(Tail(p), Tail(q))

\* Tree::device forgotten, with everything behind it, its port left as `left`.
Without(path, left) ==
    [p \in {q \in DOMAIN tree : path \notin Prefixes(q)} \cup {path} |->
        IF p = path THEN left ELSE tree[p]]

\* Addresses::take.
LowestFree == CHOOSE a \in Addresses \ used : \A b \in Addresses \ used : a <= b

-----------------------------------------------------------------------------
(* Control transfers.                                                       *)

\* The task's place on the bus: the port it is handling, of the hub at the top of the stack.
Top == Head(stack)
Child == Top.path \o <<Top.n>>
HubTarget == Target(Top.path)

\* Bus::control: whoever answers acts (`Acts`, on the device reached) and the task goes on,
\* or the transfer fails: nobody answers, or it is lost on the way or on the way back.
Control(target, Acts(_), Ok(_), Err) ==
    \/ \E d \in Reached(target) : Acts(d) /\ Ok(d) /\ UNCHANGED faults
    \/ Reached(target) = {} /\ Err /\ UNCHANGED <<bus, faults>>
    \/ /\ faults < MaxFaults
       /\ faults' = faults + 1
       /\ Err
       /\ UNCHANGED bus \/ \E d \in Reached(target) : Acts(d)

Quiet(d) == UNCHANGED bus
SetPort(d, n, state) == port' = [port EXCEPT ![<<d, n>>] = state]

Goto(step) == at' = step /\ UNCHANGED <<tree, used, stack, cur, removed>>
NextPort == stack' = <<[Top EXCEPT !.n = @ + 1]>> \o Tail(stack)

\* port returns: the loop that called it goes on with the next port.
Return(result) ==
    /\ tree' = Without(Child, result)
    /\ NextPort
    /\ at' = "next"
    /\ cur' = <<>>
    /\ UNCHANGED <<used, removed>>

\* Mutated form of Fail: the port is left enabled.
FailEnabled ==
    /\ used' = IF "address" \in DOMAIN cur THEN used \ {cur.address} ELSE used
    /\ IF stack = <<>> THEN at' = "failed" /\ UNCHANGED <<tree, stack, cur>>
       ELSE at' = "next" /\ tree' = Without(Child, Failed) /\ NextPort /\ cur' = <<>>
    /\ UNCHANGED removed

\* Enumerating the device at address 0 failed: its address is free again and its port is
\* disabled next.  Without a root device there is no USB.
Fail ==
    /\ used' = IF "address" \in DOMAIN cur THEN used \ {cur.address} ELSE used
    /\ at' = IF stack = <<>> THEN "failed" ELSE "disable"
    /\ UNCHANGED <<tree, stack, cur, removed>>

-----------------------------------------------------------------------------
(* The enumerator's port loops: poll_hub over the hubs that are known, hub   *)
(* over the ports of a new one.                                             *)

Takes(step) == at = step /\ UNCHANGED <<keyboard, refused, plugs>>
Steps(step) == Takes(step) /\ UNCHANGED <<overlooked, orphaned>>
Here == <<tree[Top.path].device, Top.n>>
PortsLeft == Top.n <= PortsOf[tree[Top.path].device]

LoopDone ==
    /\ Steps("next") /\ ~PortsLeft
    /\ stack' = Tail(stack)
    /\ at' = IF Tail(stack) # <<>> THEN "next" ELSE IF Top.loop = "poll" THEN "changes" ELSE "serve"
    /\ UNCHANGED <<bus, tree, used, cur, removed, faults, stuck>>

ScanPort ==
    /\ Steps("next") /\ PortsLeft /\ Top.loop = "scan"
    /\ Goto("status")
    /\ UNCHANGED <<bus, faults, stuck>>

\* A port with a hub on it: its ports are looked at in turn.
IsHub(node) == node.is = "device" /\ Kind[node.device] = "hub"

\* poll_hub: has the connection on this port changed since the last look?
PollPort ==
    LET Look(d) ==
            IF port[<<d, Top.n>>].changed
            THEN /\ at' = "clear"
                 /\ cur' = [connected |-> Connected(<<d, Top.n>>)]
                 /\ UNCHANGED <<tree, used, stack, removed>>
            ELSE /\ stack' = (IF IsHub(tree[Child]) THEN <<[loop |-> "poll", path |-> Child, n |-> 1]>> ELSE <<>>)
                             \o <<[Top EXCEPT !.n = @ + 1]>> \o Tail(stack)
                 /\ UNCHANGED <<tree, used, at, cur, removed>>
        Skip == NextPort /\ UNCHANGED <<tree, used, at, cur, removed>>
    IN  /\ Takes("next") /\ PortsLeft /\ Top.loop = "poll"
        /\ Control(HubTarget, Quiet, Look, Skip)
        /\ overlooked' = IF at' = "clear" THEN overlooked \ {Here} ELSE overlooked
        /\ UNCHANGED <<orphaned, stuck>>

\* Mutated form of Connects: what was plugged in is left for later.
ConnectsNot == FALSE

\* Whether there is something on the port now.
Connects == cur.connected

\* The change acknowledged (or not: the answer is ignored), what was there is forgotten.
Forget ==
    /\ tree' = Without(Child, Empty)
    /\ used' = used \ {tree[p].address : p \in Walk(Child)}
    /\ removed' = removed \cup IF tree[Child].is = "device" THEN {tree[Child].address} ELSE {}
    /\ IF Connects THEN at' = "status" /\ UNCHANGED stack ELSE at' = "next" /\ NextPort
    /\ cur' = <<>>

ClearChange ==
    LET Acts(d) == SetPort(d, Top.n, [port[<<d, Top.n>>] EXCEPT !.changed = FALSE])
                   /\ UNCHANGED <<up, address>>
        Ok(d) == Forget
    IN  /\ Takes("clear")
        /\ Control(HubTarget, Acts, Ok, Forget)
        /\ orphaned' = (orphaned \/ \E p \in Walk(Child) \ {Child} : tree[p] = keyboard)
        /\ UNCHANGED <<overlooked, stuck>>

-----------------------------------------------------------------------------
(* port and reset_port.                                                     *)

PortStatus ==
    LET Ok(d) == IF Connected(<<d, Top.n>>) THEN Goto("reset") ELSE Return(Empty)
    IN  /\ Steps("status")
        /\ Control(HubTarget, Quiet, Ok, Return(Failed))
        /\ UNCHANGED stuck

ResetPort ==
    LET Acts(d) == SetPort(d, Top.n, [port[<<d, Top.n>>] EXCEPT !.resetting = TRUE])
                   /\ UNCHANGED <<up, address>>
        Ok(d) == Goto("wait")
    IN  /\ Steps("reset")
        /\ Control(HubTarget, Acts, Ok, Fail)
        /\ UNCHANGED stuck

AwaitReset ==
    LET Look(d) ==
            LET s == port[<<d, Top.n>>]
            IN  IF s.resetChanged \/ (~s.resetting /\ s.enabled)
                THEN /\ at' = "clearReset"
                     /\ cur' = [enabled |-> s.enabled,
                                speed |-> IF s.enabled THEN Speed(CHOOSE x \in At(<<d, Top.n>>) : TRUE)
                                          ELSE "full"]
                     /\ UNCHANGED <<tree, used, stack, removed>>
                ELSE Goto("wait")
    IN  /\ Steps("wait")
        /\ \/ Control(HubTarget, Quiet, Look, Fail)
           \/ faults < MaxFaults /\ faults' = faults + 1 /\ Fail /\ UNCHANGED bus
        /\ UNCHANGED stuck

ClearReset ==
    LET Acts(d) == SetPort(d, Top.n, [port[<<d, Top.n>>] EXCEPT !.resetChanged = FALSE])
                   /\ UNCHANGED <<up, address>>
        Ok(d) == Goto("clearConnection")
    IN  /\ Steps("clearReset")
        /\ Control(HubTarget, Acts, Ok, Fail)
        /\ UNCHANGED stuck

\* Mutated form of TranslatorFor: always the hub the device is on.
TranslatorForHub(hub, n, speed) ==
    IF speed = "high" THEN NoTranslator ELSE <<hub.address, n>>

\* Below a high speed hub a slower device gets that hub's translator, further down the one
\* its hub uses.
TranslatorFor(hub, n, speed) ==
    IF hub.speed # "high" THEN hub.translator
    ELSE IF speed = "high" THEN NoTranslator ELSE <<hub.address, n>>

ClearConnection ==
    LET Acts(d) == SetPort(d, Top.n, [port[<<d, Top.n>>] EXCEPT !.changed = FALSE])
                   /\ UNCHANGED <<up, address>>
        Ok(d) ==
            IF ~cur.enabled \/ Len(Child) >= MaxDepth THEN Fail
            ELSE /\ at' = "describe8"
                 /\ cur' = [speed |-> cur.speed,
                            translator |-> TranslatorFor(HubTarget, Top.n, cur.speed)]
                 /\ UNCHANGED <<tree, used, stack, removed>>
    IN  /\ Steps("clearConnection")
        /\ Control(HubTarget, Acts, Ok, Fail)
        /\ UNCHANGED stuck

\* The port disabled again, out of the way of the next device at address 0.
DisablePort ==
    LET Acts(d) == /\ port' = [q \in Places |->
                        IF q = <<d, Top.n>> THEN [port[q] EXCEPT !.enabled = FALSE]
                        ELSE IF q \in Behind(up, <<d, Top.n>>) THEN Off ELSE port[q]]
                   /\ UNCHANGED <<up, address>>
        Ok(d) == Return(Failed)
    IN  /\ Steps("disable")
        /\ Control(HubTarget, Acts, Ok, Return(Failed))
        /\ stuck' = (stuck \/ port'[Here].enabled \/ port'[Here].resetting)

-----------------------------------------------------------------------------
(* device, addressed and hub: what answers at address 0 is given an address *)
(* and a configuration; a hub's ports are powered and looked at.            *)

Default == [address |-> 0, translator |-> cur.translator]
Addressed == [address |-> cur.address, translator |-> cur.translator]
Path == IF stack = <<>> THEN <<>> ELSE Child

Describe8 ==
    LET Ok(d) ==
            IF Addresses \ used = {} THEN Fail
            ELSE /\ used' = used \cup {LowestFree}
                 /\ cur' = [cur EXCEPT !.translator = @] @@ [address |-> LowestFree]
                 /\ at' = "setAddress"
                 /\ UNCHANGED <<tree, stack, removed>>
    IN  /\ Steps("describe8")
        /\ Control(Default, Quiet, Ok, Fail)
        /\ UNCHANGED stuck

SetAddress ==
    LET Acts(d) == address' = [address EXCEPT ![d] = cur.address] /\ UNCHANGED <<up, port>>
        Ok(d) == Goto("describe")
    IN  /\ Steps("setAddress")
        /\ Control(Default, Acts, Ok, Fail)
        /\ UNCHANGED stuck

\* The device and configuration descriptors.
Describe ==
    LET Ok(d) == Goto("configure")
    IN  /\ Steps("describe")
        /\ Control(Addressed, Quiet, Ok, Fail)
        /\ UNCHANGED stuck

\* addressed returns the device, or hub its ports: they are next.
Found(d) ==
    /\ tree' = Without(Path, DeviceNode(d, cur))
    /\ stack' = (IF Kind[d] = "hub" THEN <<[loop |-> "scan", path |-> Path, n |-> 1]>> ELSE <<>>)
                \o IF stack = <<>> THEN <<>> ELSE <<[Top EXCEPT !.n = @ + 1]>> \o Tail(stack)
    /\ at' = "next"
    /\ cur' = <<>>
    /\ UNCHANGED <<used, removed>>

Configure ==
    LET Ok(d) == IF Kind[d] = "hub" THEN Goto("power") ELSE Found(d)
    IN  /\ Steps("configure")
        /\ Control(Addressed, Quiet, Ok, Fail)
        /\ UNCHANGED stuck

\* hub: the descriptor, then power to every port.  The ports show what is on them.
PowerPorts ==
    LET Acts(d) == /\ port' = [q \in Places |->
                        IF q[1] = d /\ ~port[q].powered
                        THEN [Off EXCEPT !.powered = TRUE, !.changed = At(q) # {}] ELSE port[q]]
                   /\ UNCHANGED <<up, address>>
    IN  /\ Steps("power")
        /\ Control(Addressed, Acts, Found, Fail)
        /\ UNCHANGED stuck

-----------------------------------------------------------------------------
(* serve: the hot-plug poll, and the keyboard in use.                       *)

NoKeyboard == <<>>

HotPlug ==
    /\ Steps("serve")
    /\ stack' = <<[loop |-> "poll", path |-> <<>>, n |-> 1]>>
    /\ removed' = {}
    /\ at' = "next"
    /\ UNCHANGED <<bus, tree, used, cur, faults, stuck>>

\* find_keyboard: the first on the bus, other than at skip.
FindKeyboard(skip) ==
    LET keyboards == {p \in KnownPaths : /\ Kind[tree[p].device] = "keyboard"
                                         /\ {tree[p].address} # skip}
    IN  IF keyboards = {} THEN NoKeyboard
        ELSE tree[CHOOSE p \in keyboards : \A q \in keyboards : Earlier(p, q)]

\* Mutated form of Kept: the keyboard is kept whatever went.
KeptAlways == keyboard

\* The keyboard in use, unless it is gone.
Kept == IF keyboard # NoKeyboard /\ keyboard.address \in removed THEN NoKeyboard ELSE keyboard

\* A keyboard that went is let go of, and if there is none now one is looked for.
HandleChanges ==
    LET kept == Kept
        skip == refused \ removed
        found == FindKeyboard(skip)
    IN  /\ at = "changes"
        /\ keyboard' = kept
        /\ refused' = skip
        /\ removed' = {}
        /\ IF kept = NoKeyboard /\ found # NoKeyboard
           THEN at' = "setUp" /\ cur' = found ELSE at' = "serve" /\ UNCHANGED cur
        /\ orphaned' = (orphaned /\ kept # NoKeyboard)
        /\ UNCHANGED <<bus, tree, used, stack, plugs, faults, overlooked, stuck>>

\* set_up: boot protocol.  (SET_IDLE's answer is ignored.)
SetUp ==
    LET Ok(d) == keyboard' = cur /\ UNCHANGED refused
        Err == refused' = {cur.address} /\ UNCHANGED keyboard
    IN  /\ at = "setUp"
        /\ at' = "serve"
        /\ cur' = <<>>
        /\ Control(cur, Quiet, Ok, Err)
        /\ UNCHANGED <<tree, used, stack, removed, plugs, overlooked, orphaned, stuck>>

-----------------------------------------------------------------------------
(* What happens on the bus by itself.                                       *)

Touch(place) ==
    /\ plugs < MaxPlugs
    /\ plugs' = plugs + 1
    /\ overlooked' = IF at = "clear" /\ place = Here /\ ~cur.connected
                     THEN overlooked \cup {place} ELSE overlooked
    /\ UNCHANGED <<known, faults, orphaned, stuck>>

Plug(d, place) ==
    /\ up[d] = Nowhere /\ At(place) = {} /\ d \notin Above(up, place[1])
    /\ up' = [up EXCEPT ![d] = place]
    /\ port' = [port EXCEPT ![place].changed = port[place].powered]
    /\ Touch(place)
    /\ UNCHANGED address

\* Everything behind a device that is pulled out loses power.
Pull(d) ==
    LET place == up[d]
    IN  /\ place # Nowhere
        /\ up' = [up EXCEPT ![d] = Nowhere]
        /\ port' = [q \in Places |->
                CASE q = place -> [port[q] EXCEPT !.enabled = FALSE, !.changed = port[q].powered]
                  [] q \in Behind(up, place) -> Off
                  [] OTHER -> port[q]]
        /\ Touch(place)
        /\ UNCHANGED address

\* A hub is done resetting a port: the device on it answers at address 0.
FinishReset(place) ==
    /\ port[place].resetting
    /\ port' = [q \in Places |->
            CASE q = place -> [port[q] EXCEPT !.resetting = FALSE, !.resetChanged = TRUE,
                                              !.enabled = At(place) # {}]
              [] q \in Behind(up, place) -> Off
              [] OTHER -> port[q]]
    /\ address' = [d \in Nodes |-> IF d \in At(place) THEN 0 ELSE address[d]]
    /\ UNCHANGED <<up, known, plugs, faults, overlooked, orphaned, stuck>>

-----------------------------------------------------------------------------
\* Host::start has reset the root port.
Init ==
    /\ up \in Arrangements
    /\ port = [q \in Places |-> Off]
    /\ address = [d \in Nodes |-> 0]
    /\ tree = (<<>> :> Empty)
    /\ used = {}
    /\ stack = <<>>
    /\ at = "describe8"
    /\ cur = [speed |-> SpeedOf[Root], translator |-> NoTranslator]
    /\ removed = {}
    /\ keyboard = NoKeyboard
    /\ refused = {}
    /\ plugs = 0 /\ faults = 0
    /\ overlooked = {} /\ orphaned = FALSE /\ stuck = FALSE

Task == \/ LoopDone \/ ScanPort \/ PollPort \/ ClearChange \/ PortStatus \/ ResetPort
        \/ AwaitReset \/ ClearReset \/ ClearConnection \/ DisablePort
        \/ Describe8 \/ SetAddress \/ Describe \/ Configure \/ PowerPorts
        \/ HotPlug \/ HandleChanges \/ SetUp

Next == \/ Task
        \/ \E d \in Devices : Pull(d) \/ \E place \in Places : Plug(d, place)
        \/ \E place \in Places : FinishReset(place)

\* The task is scheduled, and hubs finish what they are asked to do.
Spec == Init /\ [][Next]_vars /\ WF_vars(Task)
             /\ \A place \in Places : WF_vars(FinishReset(place))

-----------------------------------------------------------------------------
TypeOK ==
    /\ up \in [Devices -> Places \cup {Nowhere}]
    /\ port \in [Places -> [powered : BOOLEAN, enabled : BOOLEAN, resetting : BOOLEAN,
                            changed : BOOLEAN, resetChanged : BOOLEAN]]
    /\ address \in [Nodes -> 0..MaxAddress]
    /\ used \subseteq Addresses
    /\ \A p \in DOMAIN tree : Len(p) < MaxDepth + 1 /\ (p # <<>> => Parent(p) \in KnownPaths)

\* Addresses::used is exact: the addresses of the devices in the tree, and of the one being
\* enumerated, each given once.  A leak would run the bus out of addresses in the end.
AddressesExact ==
    /\ used = {tree[p].address : p \in KnownPaths}
              \cup (IF at \in {"setAddress", "describe", "configure", "power"}
                    THEN {cur.address} ELSE {})
    /\ \A p, q \in KnownPaths : tree[p].address = tree[q].address => p = q

\* Only one device answers at an address, address 0 included: ports are reset one after
\* another, a port whose device failed is disabled, and an address is given again only when
\* its device is gone.  (Not if a hub refused to disable a port.)
OneAnswers ==
    ~stuck => \A d, e \in Nodes : Answers(d) /\ Answers(e) /\ address[d] = address[e] => d = e

\* Every device plugged in at the start is found, behind hubs of whatever speeds: each is asked
\* through the translator that reaches it, and its port is reset before.  Only a device too deep
\* on the bus, or one address too many, fails by itself.
EverythingFound ==
    faults = 0 /\ plugs = 0 =>
        /\ at # "failed"
        /\ \A p \in DOMAIN tree :
              tree[p].is = "failed" => Len(p) >= MaxDepth \/ used = Addresses

\* What is plugged in at a path.
RECURSIVE NodeAt(_)
NodeAt(path) ==
    IF path = <<>> THEN Root
    ELSE LET q == <<NodeAt(Parent(path)), path[Len(path)]>>
         IN  IF q \in Places /\ At(q) # {} THEN CHOOSE d \in At(q) : TRUE ELSE Nowhere

\* Between polls, a bus whose hubs report no changes is what the tree says, but for a device at one
\* of the ports in `except`, which is taken for empty: no device that came is overlooked, none that
\* went is kept.
MirrorsBut(except) ==
    at = "serve" /\ (\A q \in Places : ~port[q].changed) =>
        \A p \in DOMAIN tree : p # <<>> =>
            CASE tree[p].is = "empty" ->
                   NodeAt(p) = Nowhere \/ <<NodeAt(Parent(p)), p[Len(p)]>> \in except
              [] tree[p].is = "device" -> NodeAt(p) = tree[p].device
              [] OTHER -> TRUE

\* "forgets those that went, and enumerates those that came": so poll_changes does, but for what
\* is plugged in between its look at a port it finds empty and its clear of the change, which
\* clears the new change too.  (And not once a hub refused to disable a port.)
MirrorsBus == ~stuck => MirrorsBut(overlooked)

\* "Unplugging is noticed by the hot-plug poll": the keyboard that serve polls is one in the tree.
KeyboardOnBus ==
    at = "serve" /\ keyboard # NoKeyboard => \E p \in KnownPaths : tree[p] = keyboard

\* So it is, but for a keyboard that was forgotten with a hub above it: serve hears only of the hub.
UnpluggedKeyboardDropped == ~orphaned => KeyboardOnBus

\* A change that a hub reports and the poll, which gets to every port of every hub, has not
\* picked up.
Unnoticed(q) == port[q].changed /\ at # "failed" /\ ~stuck
=============================================================================
