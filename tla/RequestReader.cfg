SPECIFICATION FairSpec
CONSTANTS
  Requests <- All
  Chunk = 3
  Max = 9
  MaxRounds = 2
INVARIANTS
  TypeOK
  DeliveredExactly
  NothingOverlooked
PROPERTIES
  ToldExchangeEnds
CHECK_DEADLOCK FALSE
