SPECIFICATION StreamSpec
CONSTANTS
  Jobs = {j1}
  Threads = {t1}
  Readers = {r1}
  ExitCodes = {0}
  NoThread = NoThread
  MaxOutput = 1
INVARIANT EndOfOutputReached
CHECK_DEADLOCK FALSE
