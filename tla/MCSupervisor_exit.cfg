SPECIFICATION SupSpec
CONSTANTS
  Jobs = {j1}
  Threads = {t1, shut}
  Shut = shut
  Readers = {r1}
  ExitCodes = {0}
  NoThread = NoThread
INVARIANT AllStoppedAtExit
CHECK_DEADLOCK FALSE
