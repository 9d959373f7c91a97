SPECIFICATION Spec
CONSTANTS
  n1 = n1 
  n2 = n2
  r1 = r1
  r2 = r2
  r3 = r3
  r4 = r4
  r5 = r5
  k1 = k1
  k2 = k2
  k3 = k3
  Nodes <- MCNodes
  Callers = {r1, r2, r3, r4, r5}
  Home <- MCHome
  Values <- MCValues
  Blank = Blank
  NoEntry = NoEntry
  TTL = 1
  MaxClock = 1
  MaxUpsets = 1
  Initiator = r3
SYMMETRY MCSymmetry
CONSTRAINT Bounded
INVARIANTS TypeOK NewestWriteWins SessionsStick RecordTakenOnce
CHECK_DEADLOCK FALSE
