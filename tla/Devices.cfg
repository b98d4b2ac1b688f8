SPECIFICATION Spec
CONSTANTS
  Parts = {"card", "fat", "tree", "host", "keyboard", "mailbox", "lan", "framing"}
  root = root
  hub = hub
  g = g
  k = k
  \* SdCard
  Blocks = {0, 1, 2}
  AddressSpan = 1024
  BlockBytes = 512
  MaxPerTransfer = 2
  Cards <- MCCards
  MaxCalls = 2
  MaxLength = 3
  CardMaxFaults = 2
  \* FatWrite
  ClusterCount = 6
  EntriesPerSector = 3
  SlotsPerSector = 2
  FixedRoot = 2
  Copies = 2
  Requests <- MCRequests
  ProtectedNames = {"kernel8.img"}
  CountSpan = 16
  MaxOps = 3
  FatMaxFaults = 1
  \* UsbTree
  Devices = {hub, g, k}
  TreeRoot = root
  TreeKind <- MCKind
  SpeedOf <- MCSpeedOf
  PortsOf <- MCPortsOf
  Arrangements <- MCArrangements
  MaxDepth = 3
  MaxAddress = 3
  MaxPlugs = 2
  TreeMaxFaults = 1
  \* UsbHost
  Uses <- MCUses
  Packets = 2
  MaxSplitErrors = 3
  MaxNyets = 3
  HostMaxFaults = 3
  MaxNaks = 1
  \* Keyboard
  Keys = {"a", "acute", "erase", "enter"}
  MaxHeld = 2
  KbdMaxLine = 2
  Delay = 2
  Rate = 2
  KbdSteps = {1, 3}
  MaxPresses = 3
  \* Mailbox
  Tasks = {"t1", "t2"}
  MessageWords = 12
  LineWords = 6
  RequestWords <- MCRequestWords
  ResponseWords <- MCResponseWords
  ResponseBytes <- MCResponseBytes
  Lengths = {6}
  Batches <- MCBatches
  MboxMaxNoise = 1
  \* Lan7800
  Speeds = {"100", "1000"}
  FrameSizes = {4, 5, 6, 7, 8}
  MaxFrames = 2
  MaxErrors = 2
  MaxChanges = 2
  \* Framing
  LineMaxLine = 6
  MaxPayload = 2
  LineBytes <- MCLineBytes
CHECK_DEADLOCK FALSE
INVARIANTS
  CardKeepsItsWord
  FatVolumeSound
  TreeMatchesBus
  TransfersExact
  MailboxAnswersRight
  LanWorks
  FramesGetThrough
PROPERTIES
  FatChangesAreAtomic
  TypingRight
