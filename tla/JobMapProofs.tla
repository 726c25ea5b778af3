---------------------------- MODULE JobMapProofs ----------------------------
(***************************************************************************)
(* Proofs about module JobMap, for any sets of jobs and calls.  What is    *)
(* proved here holds wherever the map is implemented (Supervisor) or used  *)
(* (Server).                                                               *)
(***************************************************************************)
EXTENDS JobMap, TLAPS

\* Where a job can be: with its Start before it is in the map, in the map, or
\* with its Remove after it; a job that was started is lost only when it is
\* removed.
PlaceOK(j) ==
  /\ \A t, u \in hold[j] : t = u
  /\ hold[j] # {} => j \notin listed
  /\ j \in listed \/ hold[j] # {} => life[j] # "none"
  /\ life[j] \in {"running", "over"} => j \in listed \/ hold[j] # {}

MapInv == MapTypeOK /\ \A j \in Jobs : PlaceOK(j)

\* The places of a job change together, whichever call or shutdown acts.
LEMMA PlaceStep == MapInv /\ [MapNext]_mapVars => MapInv'
<1> SUFFICES ASSUME MapInv, [MapNext]_mapVars PROVE MapInv'
  OBVIOUS
<1> USE DEF MapInv, MapTypeOK, PlaceOK
<1>1. CASE UNCHANGED mapVars
  BY <1>1 DEF mapVars
<1>2. ASSUME NEW t \in Threads, NEW j \in Jobs, Create(t, j) PROVE MapInv'
  BY <1>2 DEF Create, Become, Take
<1>3. ASSUME NEW t \in Threads, NEW j \in Jobs, List(t, j) PROVE MapInv'
  BY <1>3 DEF List, Drop
<1>4. ASSUME NEW t \in Threads, NEW j \in Jobs, Unlink(t, j) PROVE MapInv'
  BY <1>4 DEF Unlink, Take
<1>5. ASSUME NEW t \in Threads, NEW j \in Jobs, Purge(t, j) PROVE MapInv'
  BY <1>5 DEF Purge, Become, Drop
<1>6. ASSUME NEW j \in Jobs, Finish(j) \/ Sweep(j) PROVE MapInv'
  BY <1>6 DEF Finish, Sweep, Become
<1>7. CASE Shutdown
  BY <1>7 DEF Shutdown
<1> HIDE DEF MapInv
<1> QED
  BY <1>1, <1>2, <1>3, <1>4, <1>5, <1>6, <1>7 DEF MapNext

\* Every job is at one place and nowhere twice, whatever calls overlap.
THEOREM MapInvariant == MapSpec => []MapInv
<1>1. MapInit => MapInv
  BY DEF MapInit, MapInv, MapTypeOK, PlaceOK
<1> QED
  BY <1>1, PlaceStep, PTL DEF MapSpec

-----------------------------------------------------------------------------
\* A life goes one way: a job is started once, no job runs after it was over, and
\* none comes back once it is removed.
Onward ==
  {<<"none", "running">>, <<"running", "over">>, <<"over", "removed">>}
Aged(j) == life'[j] = life[j] \/ <<life[j], life'[j]>> \in Onward

\* Forgotten: a removed job that no call has and nobody can look up.
Forgotten(j) == life[j] = "removed" /\ j \notin listed /\ hold[j] = {}

\* No step turns a life back.
LEMMA AgeStep ==
  ASSUME MapInv, [MapNext]_mapVars, NEW j \in Jobs PROVE Aged(j)
<1> USE DEF MapInv, MapTypeOK, Aged, Onward, Become
<1>1. CASE UNCHANGED mapVars
  BY <1>1 DEF mapVars
<1>2. ASSUME NEW t \in Threads, NEW k \in Jobs,
             Create(t, k) \/ List(t, k) \/ Unlink(t, k) \/ Purge(t, k)
      PROVE  Aged(j)
  BY <1>2 DEF Create, List, Unlink, Purge
<1>3. ASSUME NEW k \in Jobs, Finish(k) \/ Sweep(k) PROVE Aged(j)
  BY <1>3 DEF Finish, Sweep
<1>4. CASE Shutdown
  BY <1>4 DEF Shutdown
<1> QED
  BY <1>1, <1>2, <1>3, <1>4 DEF MapNext

\* No step finds a forgotten job.
LEMMA ForgetStep ==
  ASSUME MapInv, [MapNext]_mapVars, NEW j \in Jobs, Forgotten(j)
  PROVE  Forgotten(j)'
<1> USE DEF MapInv, MapTypeOK, Forgotten, Become, Take, Drop
<1>1. CASE UNCHANGED mapVars
  BY <1>1 DEF mapVars
<1>2. ASSUME NEW t \in Threads, NEW k \in Jobs,
             Create(t, k) \/ List(t, k) \/ Unlink(t, k) \/ Purge(t, k)
      PROVE  Forgotten(j)'
  BY <1>2 DEF Create, List, Unlink, Purge
<1>3. ASSUME NEW k \in Jobs, Finish(k) \/ Sweep(k) PROVE Forgotten(j)'
  BY <1>3 DEF Finish, Sweep
<1>4. CASE Shutdown
  BY <1>4 DEF Shutdown
<1> QED
  BY <1>1, <1>2, <1>3, <1>4 DEF MapNext

\* A job runs once and is removed once, whoever starts, stops, cleans up or puts
\* it back.
THEOREM LivesGoOnward == MapSpec => [][\A j \in Jobs : Aged(j)]_mapVars
<1>1. MapInv /\ [MapNext]_mapVars => [\A j \in Jobs : Aged(j)]_mapVars
  BY AgeStep
<1> QED
  BY <1>1, MapInvariant, PTL DEF MapSpec

\* A job whose removal is over stays out of reach for ever.
THEOREM ForgottenForEver ==
  MapSpec => [][\A j \in Jobs : Forgotten(j) => Forgotten(j)']_mapVars
<1>1. MapInv /\ [MapNext]_mapVars
        => [\A j \in Jobs : Forgotten(j) => Forgotten(j)']_mapVars
  BY ForgetStep
<1> QED
  BY <1>1, MapInvariant, PTL DEF MapSpec
=============================================================================
