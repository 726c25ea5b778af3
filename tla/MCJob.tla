-------------------------------- MODULE MCJob --------------------------------
(* Instances of Job for TLC: the .cfg files give the sets.                  *)
EXTENDS Job
=============================================================================
