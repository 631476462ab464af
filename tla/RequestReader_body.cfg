SPECIFICATION Spec
CONSTANTS
  Requests <- Posts
  Chunk = 3
  Max = 9
  MaxRounds = 2
INVARIANTS
  CompleteRequestHandled
CHECK_DEADLOCK FALSE
