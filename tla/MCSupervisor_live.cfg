SPECIFICATION SupFairSpec
CONSTANTS
  Jobs = {j1}
  Threads = {t1, shut}
  Shut = shut
  Readers = {r1}
  ExitCodes = {0}
  NoThread = NoThread
PROPERTIES
  
  ShutdownEnds
  ServerLeaves
CHECK_DEADLOCK FALSE
