SPECIFICATION FairSpec
CONSTANTS
  Clients = {c1, c2, c3}
  Plans <- Tried
  Small = {s}
  Large = {l}
  Absent = Absent
  Empty = Empty
  Torn = Torn
  None = None
  c1 = c1
  c2 = c2
  c3 = c3
  s = s
  l = l
INVARIANTS
  TypeOK
  OwnConnection
  GetSawFile
  CreatedIsStored
PROPERTIES
  PlainServed
\* The process ends, or nobody has anything more to send.
CHECK_DEADLOCK FALSE
