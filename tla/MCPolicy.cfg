CONSTANTS
  Char <- Chars
  MaxLen = 6
  Detectors <- FourKinds
  MaxMessages = 3
  MaxNoise = 2
  MaxEvents = 3
  r1 = r1
  r2 = r2
  Request = {r1, r2}
  Builtins <- BuiltinRules
  Spare = 2
  Snapshots <- Lists
  u1 = u1
  t1 = t1
  t2 = t2
  User = {u1}
  Thread = {t1, t2}
  Minute = 2
  Day = 3
  LimitsOf <- TightOrLoose
  RpmCap <- Cap2
  DailyCap <- Cap2
  MaxTok = 2
  MaxWait = 1
  MaxClock = 5
  MaxCalls = 5
  a = a
  b = b
  Team = {a, b}
  Value <- Values
  Default <- Defaults
  MaxTeams = 2
SPECIFICATION PolicySpec
SYMMETRY Symmetry
INVARIANTS RulesApplied StreamsAsWhole DecodesAsWhole CutsInvisible
  CounterExact QuotaBound RollingBound TeamLimitTightest
\* The limiter stops at MaxClock and MaxCalls, a resolution when it is done.
CHECK_DEADLOCK FALSE
