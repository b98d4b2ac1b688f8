\* The network task may end while a command waits in resolve.
SPECIFICATION FairSpec
CONSTANTS
  Callers = {c1}
  Names = {n1}
  Pool = pool
  Bad = bad
  IdMod = 5
  Seed = 3
  DnsTries = 2
  DnsRetry = 1
  MaxAnswers = 2
  UsbWait = 0
  MaxCalls = 1
CHECK_DEADLOCK FALSE
PROPERTIES
  ResolveEnds
