SPECIFICATION CSpec
CONSTANTS
  LineMax = 4
  Word = 17
  Starts <- MCStarts
  Alphabet = {0, 1, 16, 17}
  MaxLen = 9
  Words <- SomeWords
  Behind <- MCBehind
  Methods <- MCMethods
  MaxBuffer = 44
  SomeMethods <- MCSomeMethods
  Urls <- MCUrls
  Headers <- MCHeaders
  Params <- MCParams
  RequestBodies <- MCBodies
  RawTexts <- MCTexts
  MaxList = 2
  MaxLost = 0
  None = None
INVARIANTS
  TypeOK
  RefusesOnlyTooLong
  RoundTrip
  DecodesExactly
PROPERTIES
  NothingLeaked
\* Inputs end at their greatest length; a broken library does nothing more.
CHECK_DEADLOCK FALSE
