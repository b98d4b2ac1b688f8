------------------------------- MODULE Update -------------------------------
(***************************************************************************)
(* Installing a kernel over the network: the receiver of the datagrams     *)
(* (rustypi-core/src/update.rs), arming and installing (src/sys/update.rs) *)
(* as the network task drives them (src/sys/net/mod.rs), and the sender,   *)
(* tools/deploy.py, run one after another by somebody.                     *)
(*                                                                         *)
(* An image is a sequence of chunks, and its CRC-32 is taken to tell       *)
(* images apart.  A datagram once sent may arrive at any time: late,       *)
(* twice, out of order or not at all.                                      *)
(***************************************************************************)
EXTENDS Naturals, Sequences

CONSTANTS
    Image,          \* what each run of deploy.py sends: a sequence of sequences of chunks
    IsKernel(_),    \* whether an image starts like a RustyPI kernel
    MaxImage,       \* MAX_IMAGE, in chunks
    ArmedFor,       \* ARMED_FOR
    Retries         \* RETRIES of deploy.py

VARIABLES
    armed,      \* ARMED_UNTIL: the time left
    transfer,   \* Receiver.transfer
    reboot,     \* reboot_at: whether it is set
    kernel,     \* /kernel8.img: images installed, the newest last
    arms,       \* how often `update` was typed
    run,        \* which run of deploy.py this is
    sender,     \* where it is
    sent,       \* datagrams to the Pi
    replies,    \* datagrams back, by the run they go to
    overtaken   \* history: the Pi took the begin of an earlier run after it had begun this one's transfer

vars == <<armed, transfer, reboot, kernel, arms, run, sender, sent, replies, overtaken>>

Transfer(size, crc, image, arrived) == [size |-> size, crc |-> crc, image |-> image, arrived |-> arrived]
None == Transfer(0, <<>>, <<>>, {})

Crc32(image) == image

Start == [pc |-> "arm", at |-> 0, tries |-> 0]

Init ==
    /\ armed = 0 /\ transfer = None /\ reboot = FALSE /\ kernel = <<>> /\ arms = 0
    /\ run = 1 /\ sender = Start /\ sent = {} /\ replies = {} /\ overtaken = FALSE
-----------------------------------------------------------------------------
(* handle, and what the network task makes of it: the next transfer, the   *)
(* answer, and the image that comes out (<<>> for none).                   *)
Response(next, reply, image) == [next |-> next, reply |-> reply, image |-> image]
Refuse(next) == Response(next, <<"X">>, <<>>)

(* Mutated form of Fresh: a transfer under way goes on.                    *)
FreshOrNot(d) ==
    IF transfer # None THEN transfer
    ELSE Transfer(d.size, d.crc, [i \in 1..d.size |-> 0], {})

(* A transfer of which nothing has arrived.                                *)
Fresh(d) == Transfer(d.size, d.crc, [i \in 1..d.size |-> 0], {})

Begin(d) ==
    IF d.size = 0 \/ d.size > MaxImage THEN Refuse(None)
    ELSE Response(Fresh(d), <<"K">>, <<>>)

Data(d) ==
    IF transfer = None \/ d.at > transfer.size THEN Refuse(transfer)
    ELSE Response(IF d.at \in transfer.arrived THEN transfer
                  ELSE Transfer(transfer.size, transfer.crc, [transfer.image EXCEPT ![d.at] = d.chunk],
                                transfer.arrived \cup {d.at}),
                  <<"A", d.at>>, <<>>)

(* Mutated form of Intact: the checksum is not compared.                   *)
IntactAnyway == TRUE

(* Whether the image is the one that was announced.                        *)
Intact == Crc32(transfer.image) = transfer.crc

Finish ==
    IF transfer = None \/ transfer.arrived # 1..transfer.size THEN Refuse(transfer)
    ELSE IF ~Intact THEN Refuse(None)
    ELSE Response(None, <<"F">>, transfer.image)

Handle(d) == CASE d.kind = "B" -> Begin(d) [] d.kind = "D" -> Data(d) [] OTHER -> Finish

(* Mutated form of Disarm: the Pi stays armed.                             *)
DisarmNot == UNCHANGED armed

Disarm == armed' = 0

(* The Pi has told this run that its transfer is begun.                    *)
Began == \E r \in replies : r.to = run /\ r.text = <<"K">>

(* A datagram arrives at the update port: still_armed, handle, and the     *)
(* installation.  Writing the kernel may fail (FatWrite has the steps).    *)
Receive(d) ==
    /\ d \in sent
    /\ IF armed = 0
       THEN /\ transfer' = None
            /\ replies' = replies \cup {[to |-> d.from, text |-> <<"X">>]}
            /\ UNCHANGED <<armed, kernel, reboot, overtaken>>
       ELSE LET r == Handle(d)
                answer(text) == replies' = replies \cup {[to |-> d.from, text |-> text]}
            IN /\ transfer' = r.next
               /\ overtaken' = (overtaken \/ (d.kind = "B" /\ d.from # run /\ Began))
               /\ IF r.image = <<>>
                  THEN armed' = ArmedFor /\ answer(r.reply) /\ UNCHANGED <<kernel, reboot>>
                  ELSE /\ Disarm
                       /\ \/ /\ IsKernel(r.image)
                             /\ kernel' = Append(kernel, r.image) /\ reboot' = TRUE /\ answer(r.reply)
                          \/ answer(<<"X">>) /\ UNCHANGED <<kernel, reboot>>
    /\ UNCHANGED <<arms, run, sender, sent>>

(* The network task reboots into it once the answer has had time to go.    *)
Reboot ==
    /\ reboot /\ reboot' = FALSE
    /\ armed' = 0 /\ transfer' = None
    /\ UNCHANGED <<kernel, arms, run, sender, sent, replies, overtaken>>

Tick ==
    /\ armed > 0 /\ armed' = armed - 1
    /\ UNCHANGED <<transfer, reboot, kernel, arms, run, sender, sent, replies, overtaken>>
-----------------------------------------------------------------------------
(* deploy.py: it arms the Pi on its console, which may not hear it or not  *)
(* be heard.                                                               *)
Arm ==
    /\ sender.pc = "arm"
    /\ \/ armed' = ArmedFor /\ arms' = arms + 1
       \/ UNCHANGED <<armed, arms>>
    /\ \/ armed' = ArmedFor /\ sender' = [pc |-> "begin", at |-> 0, tries |-> 0]
       \/ sender' = [sender EXCEPT !.pc = "failed"]
    /\ UNCHANGED <<transfer, reboot, kernel, run, sent, replies, overtaken>>

(* exchange: the datagram goes again until the answer it waits for comes,  *)
(* and any refusal ends the run.                                           *)
Mine == Image[run]

Datagram ==
    CASE sender.pc = "begin" -> [kind |-> "B", from |-> run, size |-> Len(Mine), crc |-> Crc32(Mine)]
      [] sender.pc = "data" -> [kind |-> "D", from |-> run, at |-> sender.at, chunk |-> Mine[sender.at]]
      [] OTHER -> [kind |-> "E", from |-> run]

Wanted ==
    CASE sender.pc = "begin" -> <<"K">> [] sender.pc = "data" -> <<"A", sender.at>> [] OTHER -> <<"F">>

Sending == sender.pc \in {"begin", "data", "end"}
Tries == IF sender.pc = "end" THEN 1 ELSE Retries

Send ==
    /\ Sending
    /\ IF sender.tries = Tries
       THEN sender' = [sender EXCEPT !.pc = "failed"] /\ UNCHANGED sent
       ELSE sender' = [sender EXCEPT !.tries = @ + 1] /\ sent' = sent \cup {Datagram}
    /\ UNCHANGED <<armed, transfer, reboot, kernel, arms, run, replies, overtaken>>

Onward ==
    IF sender.pc = "end" THEN [sender EXCEPT !.pc = "installed"]
    ELSE IF sender.at < Len(Mine) THEN [pc |-> "data", at |-> sender.at + 1, tries |-> 0]
    ELSE [pc |-> "end", at |-> sender.at, tries |-> 0]

TakeReply(r) ==
    /\ Sending /\ sender.tries > 0 /\ r.to = run
    /\ IF r.text = <<"X">> THEN sender' = [sender EXCEPT !.pc = "failed"]
       ELSE r.text = Wanted /\ sender' = Onward
    /\ UNCHANGED <<armed, transfer, reboot, kernel, arms, run, sent, replies, overtaken>>

(* Somebody runs it again, with the next image; what an earlier run sent   *)
(* may still be on its way.                                                *)
RunAgain ==
    /\ sender.pc \in {"installed", "failed"} /\ run < Len(Image)
    /\ run' = run + 1 /\ sender' = Start /\ overtaken' = FALSE
    /\ UNCHANGED <<armed, transfer, reboot, kernel, arms, sent, replies>>

Next ==
    \/ \E d \in sent : Receive(d)
    \/ Reboot \/ Tick
    \/ Arm \/ Send \/ RunAgain
    \/ \E r \in replies : TakeReply(r)

Spec == Init /\ [][Next]_vars
-----------------------------------------------------------------------------
(* Every variable holds a value of its kind.                               *)
TypeOK ==
    /\ armed \in 0..ArmedFor /\ transfer.arrived \subseteq 1..transfer.size
    /\ sender.pc \in {"arm", "begin", "data", "end", "installed", "failed"}
    /\ sender.tries \in 0..Retries /\ run \in DOMAIN Image

(* What is installed is a kernel and, chunk for chunk, the image of one    *)
(* run: never a mixture of two runs' chunks, or one with chunks missing    *)
(* (update.rs: "Only a complete image whose CRC-32 matches comes out").    *)
OnlyWholeImages ==
    \A i \in DOMAIN kernel : IsKernel(kernel[i]) /\ \E j \in DOMAIN Image : kernel[i] = Image[j]

(* deploy.py says installed only when the image it sent is the kernel the  *)
(* Pi boots, whatever an earlier run left behind on the network: chunks,   *)
(* ends, or a begin, unless the latter comes after the Pi has begun this   *)
(* run's transfer.  A begin names no run, and replaces any transfer that   *)
(* is under way (update.rs, handle); then the earlier run's chunks and     *)
(* this one's end may install the earlier image, and only the version that *)
(* deploy.py asks for after the reboot tells.                              *)
InstalledIsMine ==
    sender.pc = "installed" /\ ~overtaken => kernel # <<>> /\ kernel[Len(kernel)] = Mine

(* An `update` command lets at most one kernel be installed: datagrams     *)
(* that come again later cannot install one again (disarm).                *)
OneInstallEach == Len(kernel) <= arms
-----------------------------------------------------------------------------
(* Why: once the Pi has begun this run's transfer (Began), none but it is  *)
(* under way until an older begin comes (overtaken); and an end is only    *)
(* sent after that.  Being armed is worth one installation.                *)
Images == {Image[j] : j \in DOMAIN Image}
LastIsMine == kernel # <<>> /\ kernel[Len(kernel)] = Mine

ReceiverInv ==
    /\ armed \in 0..ArmedFor /\ reboot \in BOOLEAN /\ arms \in Nat
    /\ kernel \in Seq({image \in Images : IsKernel(image)})
    /\ Len(kernel) + (IF armed > 0 THEN 1 ELSE 0) <= arms
    /\ transfer.size \in Nat /\ transfer.arrived \subseteq 1..transfer.size
    /\ transfer # None => transfer.crc \in Images \ {<<>>}
    /\ Began /\ ~overtaken /\ transfer # None => transfer.crc = Mine

SenderInv ==
    /\ run \in DOMAIN Image
    /\ sender \in [pc : {"arm", "begin", "data", "end", "installed", "failed"}, at : Nat, tries : 0..Retries]
    /\ sender.pc \in {"data", "end", "installed"} => Began
    /\ (sender.pc = "data" => sender.at >= 1) /\ (sender.pc = "end" => sender.tries <= 1)
    /\ sender.pc = "installed" => overtaken \/ LastIsMine

NetworkInv ==
    /\ \A d \in sent :
          /\ d.from \in 1..run
          /\ d.kind = "B" => d.crc = Image[d.from] /\ d.size = Len(Image[d.from])
          /\ d.kind = "D" => d.at \in Nat \ {0}
          /\ d.kind \notin {"B", "D"} /\ d.from = run => Began
    /\ \A r \in replies :
          /\ r.to \in 1..run
          /\ r.to = run /\ r.text = <<"F">> => Began /\ (overtaken \/ LastIsMine)

UpdateInv == ReceiverInv /\ SenderInv /\ NetworkInv
=============================================================================
