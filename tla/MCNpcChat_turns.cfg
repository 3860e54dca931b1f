CONSTANTS
  ann = ann  bob = bob  c1 = c1  c2 = c2  r1 = r1  r2 = r2  Nobody = Nobody
  Users = {ann, bob}
  Conns = {c1, c2}
  Requests = {r1, r2}
  Casts <- Companies
SPECIFICATION FairSpec
INVARIANTS
  HolderKeepsLock
  TurnChargedOnce
PROPERTIES
  StatusRecovers
