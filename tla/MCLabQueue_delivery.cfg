CONSTANTS
  r1 = r1  w1 = w1  w2 = w2
  NoOne = NoOne  NoRun = NoRun
  Runs = {r1}
  Runners = {w1, w2}
  Tardy = {w1}
  MaxAttempts = 2
  MaxCopies = 2
  Settings <- DeliverySettings
SPECIFICATION FairSpec
CHECK_DEADLOCK FALSE
INVARIANTS
  NothingLost
  NeverOverAdmits

  
