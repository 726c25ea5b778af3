------------------------------- MODULE JobMap -------------------------------
(***************************************************************************)
(* What pkg/supervisor promises the job API: the jobs that can be looked   *)
(* up, and what becomes of them, without locks, timers, signals, readers   *)
(* or files.  Module Supervisor implements it, module Server is built on   *)
(* it.                                                                     *)
(***************************************************************************)
CONSTANTS Jobs, Threads

VARIABLES
  listed,   \* the jobs that can be looked up
  life,     \* the life of each job, as far as Completed() and Cleanup() tell
  hold,     \* the call that has the job, outside the map
  closing   \* the server is shutting down

mapVars == <<listed, life, hold, closing>>

MapTypeOK ==
  /\ listed \subseteq Jobs
  /\ life \in [Jobs -> {"none", "running", "over", "removed"}]
  /\ hold \in [Jobs -> SUBSET Threads]
  /\ closing \in BOOLEAN

MapInit ==
  /\ listed = {}
  /\ life = [j \in Jobs |-> "none"]
  /\ hold = [j \in Jobs |-> {}]
  /\ closing = FALSE

Become(j, l) == life' = [life EXCEPT ![j] = l]
Take(t, j)   == hold' = [hold EXCEPT ![j] = {t}]
Drop(j)      == hold' = [hold EXCEPT ![j] = {}]

\* A process is started, nobody but the call knows of it.
Create(t, j) ==
  /\ life[j] = "none"
  /\ Become(j, "running")
  /\ Take(t, j)
  /\ UNCHANGED <<listed, closing>>

\* A job is put into the map: by Start, or by a Remove that has failed.
List(t, j) ==
  /\ t \in hold[j]
  /\ listed' = listed \cup {j}
  /\ Drop(j)
  /\ UNCHANGED <<life, closing>>

\* Remove takes a job that no longer runs out of the map ...
Unlink(t, j) ==
  /\ j \in listed
  /\ life[j] \in {"over", "removed"}
  /\ listed' = listed \ {j}
  /\ Take(t, j)
  /\ UNCHANGED <<life, closing>>

\* ... and removes what it has left.
Purge(t, j) ==
  /\ t \in hold[j]
  /\ life[j] = "over"
  /\ Become(j, "removed")
  /\ Drop(j)
  /\ UNCHANGED <<listed, closing>>

\* The job ends, or is killed: nobody sees it run again.
Finish(j) ==
  /\ life[j] = "running"
  /\ Become(j, "over")
  /\ UNCHANGED <<listed, hold, closing>>

Shutdown ==
  /\ ~closing
  /\ closing' = TRUE
  /\ UNCHANGED <<listed, life, hold>>

\* The shutdown cleans up what is in the map, and leaves it there.
Sweep(j) ==
  /\ closing
  /\ j \in listed
  /\ life[j] = "over"
  /\ Become(j, "removed")
  /\ UNCHANGED <<listed, hold, closing>>

MapNext ==
  \/ \E t \in Threads, j \in Jobs :
       Create(t, j) \/ List(t, j) \/ Unlink(t, j) \/ Purge(t, j)
  \/ \E j \in Jobs : Finish(j) \/ Sweep(j)
  \/ Shutdown

MapSpec == MapInit /\ [][MapNext]_mapVars
=============================================================================
