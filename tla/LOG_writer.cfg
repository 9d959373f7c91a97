SPECIFICATION FairSpec
CONSTANTS
  l1 = l1
  l2 = l2
  Trace = Trace
  Logs = {l1, l2}
  Kinds <- MCKinds
  QueueCap = 1
  MaxBatch = 2
  DeferredSlots = 1
INVARIANTS TypeOK LogsAccounted
PROPERTIES QuietAfterCleanup Settles
CHECK_DEADLOCK FALSE
CONSTRAINT OneOfEach
