SPECIFICATION FairSpec
CONSTANTS
  Callers = {main}
  Watchers = {w1, w2}
  Conns = {c1}
  MaxGen = 3
  KeyOf <- Renewed
  Nobody = Nobody
INVARIANTS
  TypeOK
  ServedUsable
PROPERTIES
  ServedForward
  RolloverServed
  HandshakeEnds
CHECK_DEADLOCK FALSE
