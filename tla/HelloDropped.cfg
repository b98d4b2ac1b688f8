\* The inbox is full of what others sent when the Uno says HELLO.
SPECIFICATION Spec
CONSTANTS
  InboxLimit = 2
  MaxBoots = 2
  MaxSeq = 2
  MaxWire = 2
  MaxOthers = 2
CHECK_DEADLOCK FALSE
INVARIANTS
  CacheIsOwnAlways
