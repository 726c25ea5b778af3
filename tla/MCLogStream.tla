----------------------------- MODULE MCLogStream -----------------------------
(* Instances of LogStream for TLC.                                           *)
EXTENDS LogStream, TLC

\* Streams are interchangeable; the liveness runs do not use this.
StreamSymmetry == Permutations(Readers) \cup Permutations(Threads)
=============================================================================
