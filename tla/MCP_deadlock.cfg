SPECIFICATION Spec
CONSTANTS
  boot = boot
  t1 = t1
  t2 = t2
  t3 = t3
  None = None
  Tasks <- MCTasks
  Boot = boot
  Ops = {"add", "remove", "disable", "enable", "reconnect", "update", "reauth", "cleanup"}
  MaxFailures = 2
SYMMETRY MCSymmetry
INVARIANT NoLockCycle
CHECK_DEADLOCK FALSE
