CONSTANTS
  Char <- Chars
  MaxLen = 2
  Detectors <- FourKinds
  MaxMessages = 0
  MaxNoise = 0
  MaxEvents = 1
  r1 = r1
  r2 = r2
  Request = {r1, r2}
  Builtins <- BuiltinRules
  Spare = 2
  Snapshots <- TwoLists
  u1 = u1
  t1 = t1
  t2 = t2
  User = {u1}
  Thread = {t1, t2}
  Minute = 2
  Day = 3
  LimitsOf <- TightOrLoose
  RpmCap <- Cap2
  DailyCap <- Cap2
  MaxTok = 2
  MaxWait = 1
  MaxClock = 0
  MaxCalls = 5
  a = a
  b = b
  Team = {a, b}
  Value <- Values
  Default <- Defaults
  MaxTeams = 0
SPECIFICATION PolicySpec
SYMMETRY Symmetry
INVARIANT AppliesOwnRules
CHECK_DEADLOCK FALSE
