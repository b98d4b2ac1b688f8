SPECIFICATION Spec
CONSTANTS
  Parts = {"programs", "heap", "paging", "loader", "screen", "neighbours", "lookups", "calendar"}
  peer = peer
  gateway = gateway
  far = far
  c1 = c1
  c2 = c2
  n1 = n1
  pool = pool
  bad = bad
  \* Programs
  MaxTasks = 2
  MaxHandles = 1
  Asids = {1, 2}
  MaxFile = 1
  ProgSizes = {1}
  Budget = 1
  MaxInput = 1
  \* Heap
  BlockAlign = 2
  Start = 3
  HeapEnd = 16
  MoreEnd = 21
  HeapSizes = {0, 3}
  Aligns = {1, 8}
  \* Paging
  Spaces = {1, 2}
  Count = 5
  WordBits = 4
  PagingEntries = 2
  PagingPageSize = 1
  Asked <- MCAsked
  CopyLen = 2
  \* Loader
  LoaderPageSize = 2
  UserBase = 2
  ProgramEnd = 8
  StackBase = 10
  StackTop = 12
  FileLen = 6
  Headers <- MCHeaders
  LoaderEntries = {2, 5}
  Growths = {1, 2, 4}
  \* Screen
  Cols = 2
  Rows = 2
  TabWidth = 1
  Printers = {"t1", "t2"}
  ScreenPrograms = {"p1", "p2"}
  Texts <- MCTexts
  Bars = "bars"
  MaxPrints = 2
  \* Neighbours
  ArpLocal = {peer, gateway}
  Remote = {far}
  Gateway = gateway
  ArpCache = 1
  ArpRetry = 1
  ArpGiveUp = 2
  PingTimeout = 1
  PingWait = 1
  MaxPackets = 2
  MaxMoves = 1
  \* NetTask
  Callers = {c1, c2}
  Names = {n1, bad}
  Pool = pool
  Bad = bad
  IdMod = 5
  Seed = 3
  DnsTries = 2
  DnsRetry = 1
  MaxAnswers = 2
  UsbWait = 1
  MaxCalls = 2
  \* Calendar
  Times = {3599, 3600, 86399}
  LastYear = 2108
CHECK_DEADLOCK FALSE
INVARIANTS
  NothingLeftBehind
  HeapSound
  MemoryIsOwn
  LoadsWhatRuns
  PacketsFindTheirHop
  LookupsAnswered
  DatesRight
PROPERTIES
  ScreenComesBack
