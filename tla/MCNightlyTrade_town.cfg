CONSTANTS
  c1 = c1  c2 = c2  p1 = p1  p2 = p2  r1 = r1  r2 = r2  q1 = q1  q2 = q2  s1 = s1  s2 = s2
  NoOne = NoOne
  Commissions = {c1, c2}
  Players = {p1, p2}
  Residents = {r1, r2}
  Requests = {q1, q2}
  Issuer <- OneIssuer
  Environments <- Boards
  Reward = 3
  Wealth = 3
  MaxPayouts = 2
  Cap = 2
  Dedup = TRUE
  Sessions = {s1, s2}
  Author = r1
  Casts <- AllCasts
  Scenes <- Together
  Price = 2
  Levy = 3
  Scale = 4
  Carried = 1
  Wage = 1
  Floor = 0
  Meal = 2
  Chest = 1
SPECIFICATION FairTown
INVARIANTS
  PaidOnce
  OneAcceptor
  NpcWorkSettledBeforeExpiry
  SalesAddUp
  TaxAddsUp
  OnlyNightBuysAndMealsDeadlock
PROPERTIES
  NobodyKeepsIt
