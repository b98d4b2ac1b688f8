SPECIFICATION Spec
CONSTANTS
  Parts = {"receiving", "session", "pipe", "dhcp", "clock", "update", "cores"}
  maker = maker
  second = second
  s1 = s1
  s2 = s2
  \* RxQueue
  Length = 3
  RxMaxBytes = 6
  \* Session
  InboxLimit = 2
  MaxBoots = 2
  MaxSeq = 2
  MaxWire = 2
  MaxOthers = 1
  \* Pipe
  Programs = {maker, second}
  Maker = maker
  Readers = {maker, second}
  Writers = {maker}
  Killable = {second}
  Capacity = 2
  PipeMaxBytes = 3
  \* Dhcp
  Servers = {s1, s2}
  RetryTime = 1
  RenewTime = 1
  RequestTries = 2
  MaxXid = 3
  \* ClockSync
  SntpTries = 2
  SntpRetry = 2
  Resync = 2
  Retry = 1
  MaxLate = 1
  MaxAge = 4
  \* Update
  Image <- MCImage
  IsKernel <- MCIsKernel
  MaxImage = 2
  ArmedFor = 1
  Retries = 2
  \* Cores
  CORES = 4
CHECK_DEADLOCK FALSE
INVARIANTS
  ReceivedInOrder
  RequestsRunOnce
  ClockSetClose
  UpdatesWhole
  CoresStartRight
PROPERTIES
  PipeIsQueue
  AddressIsGranted
