---------------------------- MODULE MCSupervisor ----------------------------
(* Instances of Supervisor for TLC.                                         *)
EXTENDS Supervisor, TLC

\* Shut is not interchangeable with the goroutines that serve calls.
SupSymmetry == Permutations(Jobs) \cup Permutations(Servers)
                 \cup Permutations(Readers)
=============================================================================
