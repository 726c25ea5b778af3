SPECIFICATION Spec
CONSTANTS
  Jobs = {j1}
  Threads = {t1}
  Readers = {r1}
  ExitCodes = {0, 3}
  NoThread = NoThread
INVARIANT ExitCodeIsReal
CHECK_DEADLOCK FALSE
