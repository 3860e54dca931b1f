CONSTANTS
  a1 = a1  a2 = a2  b1 = b1
  NoOwner = NoOwner
  Supervisor = Supervisor
  Attempts = {a1, a2, b1}
  Owners = {a1, a2, b1}
  OwnerOf <- OwnerPerProcess
  Protocol = 2
  TTL = 2
  MaxClock = 3
  MaxEvents = 2
SPECIFICATION Spec
CHECK_DEADLOCK FALSE
INVARIANTS
  EpochsInOrder
  EpochWonOnce
