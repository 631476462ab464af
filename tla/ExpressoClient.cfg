SPECIFICATION FairSpec
CONSTANTS
  LineMax = 3
  Word = 64
  Requests <- Calls
  Responses <- Answers
  Limit = 6
  FirstCap = 3
INVARIANTS
  TypeOK
  WholeRequestSent
  NothingHeld
  OnlyWholeBodies
  CleanExchangeSucceeds
PROPERTIES
  Returns
CHECK_DEADLOCK FALSE
