CONSTANTS
  create = create  dispatch = dispatch
  a1 = a1  a2 = a2  q1 = q1  q2 = q2
  NoRun = NoRun  NoLease = NoLease
  Creator = create
  Starters = {create, dispatch}
  Attempts = {a1, a2}
  Requests = {q1, q2}
  Path = "legacy"
  Overlap = {}
  Calls = {"accept", "auto_release", "arbitrate_settle", "cancel", "expire", "arbitrate_refund"}
  MaxEpoch = 0
  Budgets <- LegacyBudgets
  MaxTries = 1
SPECIFICATION Spec
CHECK_DEADLOCK FALSE
INVARIANTS
  RefundStopsWork
PROPERTIES
  Lifecycle
