------------------------------ MODULE MCDevices ------------------------------
(***************************************************************************)
(* The devices that answer late, wrongly or not at all: the SD card        *)
(* (SdCard) and the files on it (FatWrite), the devices on the USB bus     *)
(* (UsbTree) and the transfers to them (UsbHost), what is typed on its     *)
(* keyboard (Keyboard), the GPU's firmware (Mailbox), the Ethernet         *)
(* controller (Lan7800), and what the serial line makes of frames          *)
(* (Framing). Each behaviour is of one of them.                            *)
(***************************************************************************)
EXTENDS Integers, Sequences, TLC

CONSTANTS Parts,  \* the components whose behaviours are looked at
          root, hub, g, k, Blocks, AddressSpan, BlockBytes, MaxPerTransfer, Cards, MaxCalls,
          MaxLength, CardMaxFaults, ClusterCount, EntriesPerSector, SlotsPerSector, FixedRoot,
          Copies, Requests, ProtectedNames, CountSpan, MaxOps, FatMaxFaults,
          Devices, TreeRoot, TreeKind, SpeedOf, PortsOf, Arrangements, MaxDepth, MaxAddress,
          MaxPlugs, TreeMaxFaults, Uses, Packets, MaxSplitErrors, MaxNyets, HostMaxFaults,
          MaxNaks, Keys, MaxHeld, KbdMaxLine, Delay, Rate, KbdSteps, MaxPresses, Tasks,
          MessageWords, LineWords, RequestWords, ResponseWords, ResponseBytes, Lengths,
          Batches, MboxMaxNoise, Speeds, FrameSizes, MaxFrames, MaxErrors, MaxChanges,
          LineMaxLine, MaxPayload, LineBytes

MCCards == {[version2 |-> FALSE, highCapacity |-> FALSE], [version2 |-> TRUE, highCapacity |-> FALSE],
            [version2 |-> TRUE, highCapacity |-> TRUE]}

Req(call, path, base, n, size) ==
  [call |-> call, path |-> path, name |-> [base |-> base, n |-> n], size |-> size]
dir == [base |-> "d", n |-> 0]
\* Files and a directory with 8.3 names (n = 0) and a long one (n = -1), and a new kernel.
MCRequests ==
  {Req("write", <<>>, "a", 0, 0), Req("write", <<>>, "a", 0, 2), Req("write", <<>>, "long", -1, 2),
   Req("write", <<dir>>, "a", 0, 1), Req("mkdir", <<>>, "d", 0, 0), Req("install", <<>>, "kernel8.img", 0, 1)}
    \cup {Req("remove", <<>>, "a", 0, 0), Req("remove", <<>>, "long", -1, 0), Req("remove", <<>>, "d", 0, 0),
          Req("remove", <<dir>>, "a", 0, 0)}

\* A high speed root hub with two ports, two hubs with one port each, and a keyboard.
MCKind == root :> "hub" @@ hub :> "hub" @@ g :> "hub" @@ k :> "keyboard"
MCSpeedOf == root :> "high" @@ hub :> "high" @@ g :> "full" @@ k :> "low"
MCPortsOf == root :> 2 @@ hub :> 1 @@ g :> 1
MCArrangements ==
  {hub :> <<root, 1>> @@ g :> <<>> @@ k :> <<hub, 1>>,
   hub :> <<root, 1>> @@ g :> <<hub, 1>> @@ k :> <<>>,
   hub :> <<>> @@ g :> <<root, 2>> @@ k :> <<g, 1>>}

MCUses == [kind : {"control"}, dir : {"in", "out"}, split : BOOLEAN]
            \cup [kind : {"interrupt"}, dir : {"in"}, split : BOOLEAN]
            \cup [kind : {"bulk"}, dir : {"in", "out"}, split : {FALSE}]

\* The board revision, a temperature and a MAC address; two of them fill a message to its last
\* word, and two others don't fit.
MCRequestWords == 1 :> 0 @@ 2 :> 1 @@ 3 :> 0
MCResponseWords == 1 :> 1 @@ 2 :> 2 @@ 3 :> 2
MCResponseBytes == 1 :> 4 @@ 2 :> 8 @@ 3 :> 6
MCBatches == {<<3>>, <<2, 1>>, <<2, 3>>}

MCLineBytes == {"$", "\n", "\r", "*", "2"}

VARIABLES part,  \* the component whose behaviour this is
          \* its variables, as the INSTANCE lists them
          v1, v2, v3, v4, v5, v6, v7, v8, v9, v10, v11, v12, v13, v14, v15, v16, v17, v18, v19

Card == INSTANCE SdCard WITH
  MaxFaults <- CardMaxFaults, card <- v1, state <- v2, store <- v3, incoming <- v4,
  running <- v5, flags <- v6, fifo <- v7, answer <- v8, leg <- v9, script <- v10, call <- v11,
  result <- v12, got <- v13, version2 <- v14, highCapacity <- v15, width <- v16, calls <- v17,
  faults <- v18, quiet <- v19
Fat == INSTANCE FatWrite WITH
  MaxFaults <- FatMaxFaults, fatType <- v1, fat <- v2, sec <- v3, info <- v4, files <- v5,
  cache <- v6, free <- v7, next <- v8, phase <- v9, todo <- v10, op <- v11, ops <- v12,
  faults <- v13, miscounted <- v14, disowned <- v15
Tree == INSTANCE UsbTree WITH
  Root <- TreeRoot, Kind <- TreeKind, MaxFaults <- TreeMaxFaults, up <- v1, port <- v2,
  address <- v3, tree <- v4, used <- v5, stack <- v6, at <- v7, cur <- v8, removed <- v9,
  keyboard <- v10, refused <- v11, plugs <- v12, faults <- v13, overlooked <- v14, orphaned <- v15,
  stuck <- v16
Host == INSTANCE UsbHost WITH
  MaxFaults <- HostMaxFaults, use <- v1, pc <- v2, role <- v3, pid <- v4, done <- v5,
  got <- v6, errors <- v7, nyets <- v8, tries <- v9, toggle <- v10, device <- v11,
  translator <- v12, delivered <- v13, failed <- v14, late <- v15, skewed <- v16, calls <- v17,
  faults <- v18, naks <- v19
Kbd == INSTANCE Keyboard WITH
  MaxLine <- KbdMaxLine, Steps <- KbdSteps, down <- v1, ctrl <- v2, changed <- v3,
  layout <- v4, previous <- v5, line <- v6, accent <- v7, repeat <- v8, screen <- v9,
  input <- v10, presses <- v11, typed <- v12, rolled <- v13
Mbox == INSTANCE Mailbox WITH
  MaxNoise <- MboxMaxNoise, memory <- v1, cache <- v2, lines <- v3, dirty <- v4, at <- v5,
  batch <- v6, in_flight <- v7, mbox1 <- v8, mbox0 <- v9, result <- v10, said <- v11,
  calls <- v12, noise <- v13
Lan == INSTANCE Lan7800 WITH
  lan <- v1, todo <- v2, read <- v3, configured <- v4, resetting <- v5, access <- v6,
  mii_data <- v7, line <- v8, lines <- v9, link <- v10, received <- v11, calls <- v12,
  errors <- v13, changes <- v14
Line == INSTANCE Framing WITH
  MaxLine <- LineMaxLine, Bytes <- LineBytes, payload <- v1, isText <- v2, sending <- v3,
  printed <- v4, buf <- v5, overflow <- v6, event <- v7

vars == <<part, v1, v2, v3, v4, v5, v6, v7, v8, v9, v10, v11, v12, v13, v14, v15, v16, v17, v18, v19>>

\* The variables a component has no use for.
Unused == 0

CardKeeps == UNCHANGED <<part>>
FatKeeps == UNCHANGED <<part, v16, v17, v18, v19>>
TreeKeeps == UNCHANGED <<part, v17, v18, v19>>
HostKeeps == UNCHANGED <<part>>
KbdKeeps == UNCHANGED <<part, v14, v15, v16, v17, v18, v19>>
MboxKeeps == UNCHANGED <<part, v14, v15, v16, v17, v18, v19>>
LanKeeps == UNCHANGED <<part, v15, v16, v17, v18, v19>>
LineKeeps == UNCHANGED <<part, v8, v9, v10, v11, v12, v13, v14, v15, v16, v17, v18, v19>>

Starts ==
  \/ part = "card" /\ Card!Init
  \/ part = "fat" /\ Fat!Init
     /\ v16 = Unused /\ v17 = Unused /\ v18 = Unused /\ v19 = Unused
  \/ part = "tree" /\ Tree!Init
     /\ v17 = Unused /\ v18 = Unused /\ v19 = Unused
  \/ part = "host" /\ Host!Init
  \/ part = "keyboard" /\ Kbd!Init
     /\ v14 = Unused /\ v15 = Unused /\ v16 = Unused /\ v17 = Unused /\ v18 = Unused
     /\ v19 = Unused
  \/ part = "mailbox" /\ Mbox!Init
     /\ v14 = Unused /\ v15 = Unused /\ v16 = Unused /\ v17 = Unused /\ v18 = Unused
     /\ v19 = Unused
  \/ part = "lan" /\ Lan!Init
     /\ v15 = Unused /\ v16 = Unused /\ v17 = Unused /\ v18 = Unused /\ v19 = Unused
  \/ part = "framing" /\ Line!Init
     /\ v8 = Unused /\ v9 = Unused /\ v10 = Unused /\ v11 = Unused /\ v12 = Unused
     /\ v13 = Unused /\ v14 = Unused /\ v15 = Unused /\ v16 = Unused /\ v17 = Unused
     /\ v18 = Unused /\ v19 = Unused

Init == part \in Parts /\ Starts

Next ==
  \/ part = "card" /\ Card!Next /\ CardKeeps
  \/ part = "fat" /\ Fat!Next /\ FatKeeps
  \/ part = "tree" /\ Tree!Next /\ TreeKeeps
  \/ part = "host" /\ Host!Next /\ HostKeeps
  \/ part = "keyboard" /\ Kbd!Next /\ KbdKeeps
  \/ part = "mailbox" /\ Mbox!Next /\ MboxKeeps
  \/ part = "lan" /\ Lan!Next /\ LanKeeps
  \/ part = "framing" /\ Line!Next /\ LineKeeps

Spec == Init /\ [][Next]_vars
-----------------------------------------------------------------------------
\* Whatever answers are lost, late or garbled:
\*   - A transfer of sdcard.rs that returns Ok has moved every block, in order.
\*   - init finds out how the card is addressed, by block or by byte, whatever fails during it.
\*   - A failed transfer (recover, reset_lines) does not spoil the next one.
\*   - recover leaves the card out of any transfer.
CardKeepsItsWord ==
  part = "card" =>
    /\ Card!TypeOK
    /\ Card!OkMeansDone
    /\ Card!AddressedRight
    /\ Card!QuietTransferSucceeds
    /\ Card!RecoveryStopsCard

\* Whenever the power fails, and whatever device errors are reported, of sectors that were written
\* or not:
\*   - At every write of every change, no entry points at clusters that are not its own, unless
\*     an error was reported of the sector a new entry was written to.
\*   - The FAT sector kept in memory is the one on the card, whatever failed before.
\*   - FSInfo counts the free clusters after every change, unless an error was reported of FSInfo
\*     or of a FAT sector being linked or freed.
FatVolumeSound ==
  part = "fat" =>
    /\ Fat!TypeOK
    /\ Fat!NeverAnothersClusters
    /\ Fat!CacheCoherent
    /\ Fat!FsInfoExact

\* "never a file pointing at clusters that aren't its own" (fat/write.rs), whatever errors the card
\* reports: "Nothing points at the new chain; give it back", says the code that frees the clusters
\* of an entry it could not add.
FatEntriesOwnClusters == part = "fat" => Fat!EntriesOwnClusters

\* A change of a file or directory is seen whole or not at all:
\*   - Every call takes effect at one sector write or not at all, and an Ok means it has (as long as
\*     no error was reported of the sector a new entry was written to).
\*   - install_kernel has the previous kernel in /kernel8.bak before it replaces it.
FatChangesAreAtomic ==
  [][part = "fat" =>
       /\ Fat!ChangesAreAtomicStep
       /\ Fat!OldKernelKeptStep]_vars

\* However devices come, go and fail meanwhile:
\*   - The bus never runs out of addresses: those in use are the ones devices in the tree have.
\*   - Ports are reset one after another: only one device answers at an address, 0 included, unless
\*     a hub did not disable a port when told to.
\*   - Every device plugged in at the start is found, behind hubs of whatever speeds.
\*   - Between polls with nothing left to notice, the tree is what is plugged in, likewise, but for
\*     a device plugged in between the poll's look at its port and the clear of the change.
\*   - serve lets go of a keyboard that went, unless it went with a hub it was behind.
TreeMatchesBus ==
  part = "tree" =>
    /\ Tree!TypeOK
    /\ Tree!AddressesExact
    /\ Tree!OneAnswers
    /\ Tree!EverythingFound
    /\ Tree!MirrorsBus
    /\ Tree!UnpluggedKeyboardDropped

\* Whatever the controller has to retry, and whatever the driver gives up on:
\*   - A control transfer that succeeds moved its data once and in order, whatever was retried.
\*   - What interrupt_in and bulk_in return is in order, and nothing comes twice.
\*   - Data that is lost is lost in a transfer that reported an error, or to a late translator.
\*   - A bulk_out that succeeds reached the device whole and in order.
TransfersExact ==
  part = "host" =>
    /\ Host!TypeOK
    /\ Host!ControlExact
    /\ Host!InOrderOnce
    /\ Host!LossReported
    /\ Host!SentWhole

\* Whatever keys are held together, and between whichever polls:
\*   - What is typed is what is seen: the screen ends with the line the editor holds.
\*   - The line never outgrows MAX_LINE bytes.
\*   - A key held was typed once since it was pressed, unless a rollover report came between.
\*   - Only a key that the last report holds may repeat, and no sooner than it should.
TypingRight ==
  [][part = "keyboard" =>
       /\ Kbd!TypeOK'
       /\ Kbd!EchoShowsLine'
       /\ Kbd!LineFits'
       /\ Kbd!PressTypedOnce'
       /\ Kbd!OnlyHeldRepeatsStep]_vars

\* Whenever lines of a message are cached or evicted:
\*   - The firmware, which does not see the caches, reads the tags that were added.
\*   - No call takes the answer that another waits for.
\*   - A tag's reply is the firmware's answer to it, whatever the caches held.
MailboxAnswersRight ==
  part = "mailbox" =>
    /\ Mbox!TypeOK
    /\ Mbox!AsksWhatWasAdded
    /\ Mbox!AnswerIsComing
    /\ Mbox!RepliesAreAnswers

\* Whatever transfer fails, and whatever a failed call left under way:
\*   - An Ethernet controller that was brought up is set up whole, whatever it was slow with.
\*   - link tells of the line as it was during the call, whatever an earlier call left under way.
\*   - rx finds the good frames of a transfer, cut short or not.
LanWorks ==
  part = "lan" =>
    /\ Lan!UpIsConfigured
    /\ Lan!LinkWasSo
    /\ Lan!ReceivesGoodFrames

\* With any amount of noise before, lines longer than MAX_LINE included:
\*   - A frame that arrives undamaged comes out as it was written; one longer than MAX_LINE is
\*     rejected as too long.
\*   - What a program prints is never taken for a frame: a line of it is dropped, or rejected as too
\*     long exactly when it is longer than MAX_LINE.
FramesGetThrough ==
  part = "framing" =>
    /\ Line!TypeOK
    /\ Line!FrameGetsThrough
    /\ Line!TextIsNoFrame
=============================================================================
