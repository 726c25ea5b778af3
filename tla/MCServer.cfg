SPECIFICATION Spec
CONSTANTS
  Jobs = {j1}
  Threads = {t1, t2, t3}
  ann = ann
  annBlank = annBlank
  blank = blank
  root = root
  guest = guest
  Users <- MCUsers
  Full = {root}
  Read = {guest}
  Trimmed <- MCTrimmed
  Nobody = Nobody
  NoJob = NoJob
SYMMETRY ServerSymmetry
INVARIANTS
  OwnedByStarter
  NoGhostOwners
  
PROPERTIES
  
  RemovedIsGone
CHECK_DEADLOCK FALSE
