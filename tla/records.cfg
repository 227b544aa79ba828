SPECIFICATION Spec
CONSTANTS
  Requests  = {r1, r2}
  MaxPuts   = 2
  Sessions  = {s1, s2}
  Pupils    = {p1, p2}
  Entries   = {present, absent}
  MaxClock  = 3
  Emails    = {e1, e2}
  MaxUsers  = 2
  Passwords = {w1, w2}
  MaxSecond = 3
  NameSet   = {n1, n2}
  MaxNamed  = 3
  Pairs     = {q1, q2}
  MarkSet   = {3300, 8000}
  MaxKeys   = 2
  MaxListed = 3
  RawLimits = {0, 1, 2}
SYMMETRY Symmetry
CHECK_DEADLOCK FALSE
INVARIANTS
  RecordsTypeOK
  ReadyIsStored
  OneActivePerRequest
  OneActiveAlone
  DaysCounted
  HoursFitTheDay
  CodesAreSerial
  LastTokenIsStored
  SpentIsRefused
  LinkedRowsLive
  NamesApart
  ResultsFollowExam
  PatchAnswersTrue
  WalkComplete
  HandlerIsMeant
  
PROPERTIES
  PublishedFrozen
  ExchangesAreAtomic
