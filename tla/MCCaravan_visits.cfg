SPECIFICATION FairSpec
CONSTANTS
  v1 = v1  v2 = v2
  Visits = {v1, v2}
  Drivers = {d1, d2}
  NoOne = NoOne
  Casts <- MCCasts
INVARIANTS OneCaravan ShelvesEmptied
PROPERTIES VisitsEnd VisitsSetOut
CHECK_DEADLOCK FALSE
