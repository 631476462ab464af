SPECIFICATION Spec
CONSTANTS
  Threads = {t1, t2}
  Commands = {slash, short, long, listing}
  Root = slash
  Features <- Found
  TextLen <- Lengths
  Size = 4
  NUL = NUL
  slash = slash
  short = short
  long = long
  listing = listing
  t1 = t1
  t2 = t2
SYMMETRY Symmetric
INVARIANTS
  AuditNamesCommand
