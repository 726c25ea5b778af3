SPECIFICATION Spec
INVARIANTS
  TypeOK
  TargetConfined
  OkMeansReady
  UndoneOnFailure
PROPERTIES
  NewReturns
  TermArrives
CHECK_DEADLOCK FALSE
