SPECIFICATION FairSpec
CONSTANTS
  Jobs = {j1}
  Threads = {t1, t2}
  Readers = {r1, r2}
  ExitCodes = {0, 3}
  NoThread = NoThread
INVARIANTS
  StatusHonest
  DoneMeansCollected
  GracefulStopBacked
  OutputOutlivesReaders
  StopNeverWaits
  OnlyKilledLoseTheirDir
PROPERTIES
  AnswersFinalAfterDone
  SignalsEscalate
  ImplementsLifecycle
  StopCompletes
  WaitReturns
CHECK_DEADLOCK FALSE
