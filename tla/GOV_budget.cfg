SPECIFICATION Spec
CONSTANTS
  c1 = c1
  c2 = c2
  s1 = s1
  s2 = s2
  s3 = s3
  Calls = {c1, c2}
  Settlements = {s1, s2, s3}
  CallOf <- MCCallOf
  Limit = 1
  Duration = 2
  Boundaries = {0, 1, 3}
  MaxClock = 3
  MaxCrashes = 1
INVARIANTS TypeOK UsageIsExact AlignedChargesCount ShutdownFlushes
CONSTRAINT OneEnd
SYMMETRY Twins
CHECK_DEADLOCK FALSE
