SPECIFICATION FairSpec
CONSTANTS
  Workers = {w1, w2}
  Names = {f1}
  Bodies = {short, long}
  Size <- BodySize
  Inodes = {1, 2, 3}
  Jobs <- Loops
  Removable = TRUE
  Absent = Absent
  Dir = Dir
  Hole = Hole
  None = None
  w1 = w1
  w2 = w2
  short = short
  long = long
  f1 = f1
  f2 = f2
PROPERTIES
  EveryRequestAnswered
