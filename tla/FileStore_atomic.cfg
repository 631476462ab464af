SPECIFICATION Spec
CONSTANTS
  Workers = {w1, w2}
  Names = {f1, f2}
  Bodies = {short, long}
  Size <- BodySize
  Inodes = {1, 2, 3, 4}
  Jobs <- AllJobs
  Removable = TRUE
  Absent = Absent
  Dir = Dir
  Hole = Hole
  None = None
  w1 = w1
  w2 = w2
  short = short
  long = long
  f1 = f1
  f2 = f2
INVARIANTS
  TypeOK
  UndisturbedIsAtomic
PROPERTIES
  ImplementsDirectory
VIEW Seen
SYMMETRY Threads
