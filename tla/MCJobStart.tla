----------------------------- MODULE MCJobStart -----------------------------
(* JobStart has no constants: one job, all failures, one SIGTERM, a crash.   *)
EXTENDS JobStart
=============================================================================
