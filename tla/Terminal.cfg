SPECIFICATION FairSpec
CONSTANTS
  Runs = {p1, p2}
  Names = {f, g}
  Texts = {x, y}
  Commands <- Entered
  MaxLate = 1
  Absent = Absent
  Dir = Dir
  Part = Part
  Empty = Empty
  None = None
  f = f
  g = g
INVARIANTS
  TypeOK
  NothingLost
  SuccessIsTrue
PROPERTIES
  CommandEnds
\* Only so many commands are entered.
CHECK_DEADLOCK FALSE
