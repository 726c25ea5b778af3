SPECIFICATION SupSpec
CONSTANTS
  Jobs = {j1}
  Threads = {t1, t2, shut}
  Shut = shut
  Readers = {r1}
  ExitCodes = {0}
  NoThread = NoThread
SYMMETRY SupSymmetry
INVARIANTS
  SupTypeOK
  NobodyWaitsUnderLock
  OneKeeper
PROPERTIES
  UsesJobAsSpecified
  ImplementsJobMap
CHECK_DEADLOCK FALSE
