SPECIFICATION FairSpec
CONSTANTS
  Workers = {w1, w2}
  MaxTurns = 3
  MaxCalls = 2
  Caps = {3, 4}
  ReserveTokens = 2
  Reports = {1, 3}
  Troubles <- MCTroubles
INVARIANTS EveryCallCounted UnknownNeedsOperator
PROPERTIES WithinLimits ClosedStaysClosed TurnsClose
CHECK_DEADLOCK FALSE
