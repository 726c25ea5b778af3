SPECIFICATION StreamFairSpec
CONSTANTS
  Jobs = {j1}
  Threads = {t1}
  Readers = {r1}
  ExitCodes = {0}
  NoThread = NoThread
  MaxOutput = 2
INVARIANTS
  CountedReadersAreLive
  FollowEndsWithJob
  PlainStreamComplete
PROPERTIES
  StreamEnds
  OnlyFollowersHoldLock
CHECK_DEADLOCK FALSE
