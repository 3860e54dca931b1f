CONSTANTS
  N = 2
  Asks <- FirstAsks
  Declares <- SecondDeclares
  Limit = 1
  MaxEpoch = 1
  MaxFaults = 1
SPECIFICATION FairSpec
CHECK_DEADLOCK FALSE
INVARIANTS
  OneApprovedEffect
  BooksAddUp
  AnswersTrue
PROPERTIES
  IntentsEnd
