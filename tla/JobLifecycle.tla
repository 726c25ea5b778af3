---------------------------- MODULE JobLifecycle ----------------------------
(***************************************************************************)
(* What pkg/job promises its callers: the life of a job as Status() and    *)
(* Wait() show it, without mutex, timer, signals, readers or files.        *)
(* Module Job implements it.                                               *)
(***************************************************************************)
CONSTANT Jobs

VARIABLES
  status,   \* what Status() says, "NEW" before New has returned
  over      \* the end of the process has been taken note of

vars == <<status, over>>

Running == {"ACTIVE", "STOPPING"}

Init ==
  /\ status = [j \in Jobs |-> "NEW"]
  /\ over   = [j \in Jobs |-> FALSE]

Become(j, s) == status' = [status EXCEPT ![j] = s]

Start(j) ==
  /\ status[j] = "NEW"
  /\ Become(j, "ACTIVE")
  /\ UNCHANGED over

\* A graceful stop is under way.
AskStop(j) ==
  /\ status[j] = "ACTIVE"
  /\ Become(j, "STOPPING")
  /\ UNCHANGED over

\* SIGKILL is sent: the job counts as stopped before its process is gone.
Kill(j) ==
  /\ status[j] \in Running
  /\ Become(j, "STOPPED")
  /\ UNCHANGED over

\* The process has ended, once; of its own accord if nobody asked it to.
Finish(j) ==
  /\ status[j] # "NEW"
  /\ ~over[j]
  /\ over' = [over EXCEPT ![j] = TRUE]
  /\ \/ status[j] = "ACTIVE"   /\ Become(j, "ENDED")
     \/ status[j] = "STOPPING" /\ Become(j, "STOPPED")
     \/ status[j] \notin Running /\ UNCHANGED status

\* Only what is no longer running is removed.
Remove(j) ==
  /\ status[j] \in {"ENDED", "STOPPED"}
  /\ Become(j, "ZOMBIE")
  /\ UNCHANGED over

Next == \E j \in Jobs :
          Start(j) \/ AskStop(j) \/ Kill(j) \/ Finish(j) \/ Remove(j)

SafeSpec == Init /\ [][Next]_vars

\* A graceful stop comes to an end, by the process or by force.
StopEnds(j) == status[j] = "STOPPING" /\ (Kill(j) \/ Finish(j))
Spec == SafeSpec /\ \A j \in Jobs : WF_vars(StopEnds(j))
=============================================================================
