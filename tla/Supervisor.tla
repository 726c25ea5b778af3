----------------------------- MODULE Supervisor -----------------------------
(***************************************************************************)
(* The jobs of a server: pkg/supervisor, and the way cmd/server/main.go    *)
(* shuts it down.  A goroutine of Threads serves one call at a time; the   *)
(* goroutine Shut runs StopSupervisor, once.                               *)
(*                                                                         *)
(* JobSupervisor.lock is a sync.RWMutex: a writer first announces itself   *)
(* (writer), which keeps new readers out, then waits for the readers that  *)
(* are in (rholders) to leave.  Under either kind of hold the methods call *)
(* methods of the job, which take the job's own stateLock.  So taking the  *)
(* lock and what is done under it are two steps.                           *)
(***************************************************************************)
EXTENDS Job

CONSTANT Shut   \* the goroutine that runs StopSupervisor
ASSUME ShutOK == Shut \in Threads

VARIABLES
  jobs,       \* JobSupervisor.jobs
  writer,     \* who has called lock.Lock(), and has it once rholders is empty
  rholders,   \* who has lock.RLock()
  pc,         \* what each goroutine does next
  op,         \* which of the calls under RLock it serves
  arg,        \* the job it is called for
  todo,       \* the jobs left in the current loop of StopSupervisor
  accepting   \* the gRPC server accepts calls

supVars == <<jobs, writer, rholders, pc, op, arg, todo, accepting>>
allVars == <<vars, supVars>>

Servers == Threads \ {Shut}
Ops == {"stop", "kill", "inspect", "logs"}
Label ==
  {"idle", "wantAdd", "add", "wantRemove", "remove", "clean", "wait",
   "wantRead", "read",
   "wantShut", "initStop", "await", "sweep", "sweeping", "done"}

SupTypeOK ==
  /\ TypeOK
  /\ jobs \subseteq Jobs
  /\ writer \in Threads \cup {NoThread}
  /\ rholders \subseteq Servers
  /\ pc \in [Threads -> Label]
  /\ op \in [Threads -> Ops]
  /\ arg \in [Threads -> Jobs]
  /\ todo \subseteq Jobs
  /\ accepting \in BOOLEAN

SupInit ==
  /\ Init
  /\ jobs = {}
  /\ writer = NoThread
  /\ rholders = {}
  /\ pc = [t \in Threads |-> "idle"]
  /\ op \in [Threads -> {"inspect"}]
  /\ arg \in {[t \in Threads |-> j] : j \in Jobs}
  /\ todo = {}
  /\ accepting = TRUE

-----------------------------------------------------------------------------
Goto(t, l) == pc' = [pc EXCEPT ![t] = l]

\* lock.Lock() announces itself ...
Lock(t, from, to) ==
  /\ pc[t] = from
  /\ writer = NoThread
  /\ writer' = t
  /\ Goto(t, to)
  /\ UNCHANGED <<vars, jobs, rholders, op, arg, todo, accepting>>
\* ... and is in when the readers have left.
Locked(t) == writer = t /\ rholders = {}
Unlock == writer' = NoThread

\* A call arrives.  To ask for j again once it is done is another call.
Call(t, j) ==
  /\ t \in Servers
  /\ accepting
  /\ pc[t] = "idle"
  /\ arg' = [arg EXCEPT ![t] = j]

-----------------------------------------------------------------------------
(* Start; add, which Remove calls to put a job back, does the same. *)

\* createJob, before the lock is asked for.  When it fails nothing is left.
CreateJob(t, j) ==
  /\ Call(t, j)
  /\ New(j)
  /\ Goto(t, "wantAdd")
  /\ UNCHANGED <<jobs, writer, rholders, op, todo, accepting>>

Add(t) ==
  /\ pc[t] = "add"
  /\ Locked(t)
  /\ jobs' = jobs \cup {arg[t]}
  /\ Unlock
  /\ Goto(t, "idle")
  /\ UNCHANGED <<vars, rholders, op, arg, todo, accepting>>

-----------------------------------------------------------------------------
(* Remove. *)

CallRemove(t, j) ==
  /\ Call(t, j)
  /\ Goto(t, "wantRemove")
  /\ UNCHANGED <<vars, jobs, writer, rholders, op, todo, accepting>>

\* Mutants: the job is not asked; it stays in the map until it is cleaned up;
\* the lock is not released when the job is still running.
UnlinkUnasked(t) ==
  /\ pc[t] = "remove"
  /\ Locked(t)
  /\ Goto(t, IF arg[t] \in jobs THEN "clean" ELSE "idle")
  /\ jobs' = jobs \ {arg[t]}
  /\ Unlock
  /\ UNCHANGED <<vars, rholders, op, arg, todo, accepting>>
UnlinkLater(t) ==
  /\ pc[t] = "remove"
  /\ Locked(t)
  /\ Goto(t, IF arg[t] \in jobs /\ Completed(arg[t]) THEN "clean" ELSE "idle")
  /\ Unlock
  /\ UNCHANGED <<vars, jobs, rholders, op, arg, todo, accepting>>
UnlinkLocked(t) ==
  /\ pc[t] = "remove"
  /\ Locked(t)
  /\ \/ /\ arg[t] \notin jobs
        /\ Goto(t, "idle")
        /\ Unlock
        /\ UNCHANGED jobs
     \/ /\ arg[t] \in jobs
        /\ Enter(arg[t])
        /\ ~Completed(arg[t])
        /\ Goto(t, "idle")
        /\ UNCHANGED <<jobs, writer>>
     \/ /\ arg[t] \in jobs
        /\ Enter(arg[t])
        /\ Completed(arg[t])
        /\ Goto(t, "clean")
        /\ jobs' = jobs \ {arg[t]}
        /\ Unlock
  /\ UNCHANGED <<vars, rholders, op, arg, todo, accepting>>

\* Under the lock: the id is looked up, the job is asked whether it is completed
\* (which takes stateLock) and unlinked.  Then the lock is released, "j.Cleanup()
\* can take a while".
Unlink(t) ==
  /\ pc[t] = "remove"
  /\ Locked(t)
  /\ \/ /\ arg[t] \notin jobs
        /\ Goto(t, "idle")
        /\ UNCHANGED jobs
     \/ /\ arg[t] \in jobs
        /\ Enter(arg[t])
        /\ ~Completed(arg[t])
        /\ Goto(t, "idle")
        /\ UNCHANGED jobs
     \/ /\ arg[t] \in jobs
        /\ Enter(arg[t])
        /\ Completed(arg[t])
        /\ Goto(t, "clean")
        /\ jobs' = jobs \ {arg[t]}
  /\ Unlock
  /\ UNCHANGED <<vars, rholders, op, arg, todo, accepting>>

\* Cleanup refuses a job that is removed already, and Remove puts it back.
Clean(t) ==
  /\ pc[t] = "clean"
  /\ \/ CleanupBegin(t, arg[t]) /\ Goto(t, "wait")
     \/ /\ Enter(arg[t])
        /\ handler[arg[t]] = "ZOMBIE"
        /\ Goto(t, "wantAdd")
        /\ UNCHANGED vars
  /\ UNCHANGED <<jobs, writer, rholders, op, arg, todo, accepting>>

\* Mutants: a job whose Cleanup failed is not put back; a removed one is.
CleanedAlways(t) ==
  /\ pc[t] = "wait"
  /\ CleanupEnd(t, arg[t])
  /\ Goto(t, "idle")
  /\ UNCHANGED <<jobs, writer, rholders, op, arg, todo, accepting>>
CleanedNever(t) ==
  /\ pc[t] = "wait"
  /\ CleanupEnd(t, arg[t])
  /\ Goto(t, "wantAdd")
  /\ UNCHANGED <<jobs, writer, rholders, op, arg, todo, accepting>>

\* A Cleanup that has failed leaves the handler as it was: the job is put back.
Cleaned(t) ==
  /\ pc[t] = "wait"
  /\ CleanupEnd(t, arg[t])
  /\ Goto(t, IF handler'[arg[t]] = "ZOMBIE" THEN "idle" ELSE "wantAdd")
  /\ UNCHANGED <<jobs, writer, rholders, op, arg, todo, accepting>>

-----------------------------------------------------------------------------
(* Stop, Inspect, Logs: one call of the job under RLock. *)

CallRead(t, j, o) ==
  /\ Call(t, j)
  /\ op' = [op EXCEPT ![t] = o]
  /\ Goto(t, "wantRead")
  /\ UNCHANGED <<vars, jobs, writer, rholders, todo, accepting>>

RLock(t) ==
  /\ pc[t] = "wantRead"
  /\ writer = NoThread
  /\ rholders' = rholders \cup {t}
  /\ Goto(t, "read")
  /\ UNCHANGED <<vars, jobs, writer, op, arg, todo, accepting>>

\* A method that finds no job, or that the job refuses, changes nothing.  The
\* output can always fail to open.
Refused(t) ==
  LET j == arg[t] IN
  /\ \/ j \notin jobs
     \/ /\ Enter(j)
        /\ \/ op[t] \in {"inspect", "logs"}
           \/ op[t] = "stop" /\ handler[j] # "ACTIVE"
  /\ UNCHANGED vars

Granted(t) ==
  LET j == arg[t] IN
  /\ j \in jobs
  /\ \/ op[t] = "stop" /\ InitStop(j)
     \/ op[t] = "kill" /\ Stop(j)
     \/ op[t] = "logs" /\ \E r \in Readers : Logs(r, j)

ReadCall(t) ==
  /\ pc[t] = "read"
  /\ Refused(t) \/ Granted(t)
  /\ rholders' = rholders \ {t}
  /\ Goto(t, "idle")
  /\ UNCHANGED <<jobs, writer, op, arg, todo, accepting>>

-----------------------------------------------------------------------------
(* StopSupervisor, in the goroutine Shut, which keeps the lock to its end. *)

\* SIGINT: main starts the goroutine, and another one that calls GracefulStop.
Interrupt ==
  /\ pc[Shut] = "idle"
  /\ Goto(Shut, "wantShut")
  /\ UNCHANGED <<vars, jobs, writer, rholders, op, arg, todo, accepting>>

\* GracefulStop: no new calls, the ones under way may end.
GracefulStop ==
  /\ pc[Shut] # "idle"
  /\ accepting
  /\ accepting' = FALSE
  /\ UNCHANGED <<vars, jobs, writer, rholders, pc, op, arg, todo>>

\* Mutant: the jobs are only read, so RLock will do.
ShutRLock ==
  /\ pc[Shut] = "wantShut"
  /\ writer = NoThread
  /\ rholders' = rholders \cup {Shut}
  /\ todo' = jobs
  /\ Goto(Shut, "initStop")
  /\ UNCHANGED <<vars, jobs, writer, op, arg, accepting>>

\* lock.Lock(), and the start of the first loop.
ShutLock ==
  /\ pc[Shut] = "wantShut"
  /\ writer = NoThread
  /\ writer' = Shut
  /\ todo' = jobs
  /\ Goto(Shut, "initStop")
  /\ UNCHANGED <<vars, jobs, rholders, op, arg, accepting>>

\* Mutant: the jobs are waited for, but not told to stop.
ShutNoStop ==
  /\ pc[Shut] = "initStop"
  /\ Locked(Shut)
  /\ todo' = {}
  /\ Goto(Shut, "await")
  /\ UNCHANGED <<vars, jobs, writer, rholders, op, arg, accepting>>

\* InitStop for each job, its error ignored, then wg.Wait().
ShutInitStop ==
  /\ pc[Shut] = "initStop"
  /\ Locked(Shut)
  /\ \/ \E j \in todo :
          /\ Enter(j)
          /\ InitStop(j) \/ (handler[j] # "ACTIVE" /\ UNCHANGED vars)
          /\ todo' = todo \ {j}
          /\ UNCHANGED pc
     \/ /\ todo = {}
        /\ Goto(Shut, "await")
        /\ UNCHANGED <<vars, todo>>
  /\ UNCHANGED <<jobs, writer, rholders, op, arg, accepting>>

\* Every Wait() has returned; the second loop.
ShutAwait ==
  /\ pc[Shut] = "await"
  /\ \A j \in jobs : done[j]
  /\ todo' = jobs
  /\ Goto(Shut, "sweep")
  /\ UNCHANGED <<vars, jobs, writer, rholders, op, arg, accepting>>

\* Mutant: the lock is not released.
ShutSweepLocked ==
  /\ pc[Shut] = "sweep"
  /\ \/ \E j \in todo :
          /\ CleanupBegin(Shut, j)
          /\ arg' = [arg EXCEPT ![Shut] = j]
          /\ Goto(Shut, "sweeping")
          /\ UNCHANGED todo
     \/ \E j \in todo :
          /\ Enter(j)
          /\ handler[j] = "ZOMBIE"
          /\ todo' = todo \ {j}
          /\ UNCHANGED <<vars, arg, pc>>
     \/ /\ todo = {}
        /\ Goto(Shut, "done")
        /\ UNCHANGED <<vars, arg, todo>>
  /\ UNCHANGED <<jobs, writer, rholders, op, accepting>>

\* Cleanup for each job, its error ignored, then lock.Unlock().
ShutSweep ==
  /\ pc[Shut] = "sweep"
  /\ \/ \E j \in todo :
          /\ CleanupBegin(Shut, j)
          /\ arg' = [arg EXCEPT ![Shut] = j]
          /\ Goto(Shut, "sweeping")
          /\ UNCHANGED <<todo, writer>>
     \/ \E j \in todo :
          /\ Enter(j)
          /\ handler[j] = "ZOMBIE"
          /\ todo' = todo \ {j}
          /\ UNCHANGED <<vars, arg, pc, writer>>
     \/ /\ todo = {}
        /\ Unlock
        /\ Goto(Shut, "done")
        /\ UNCHANGED <<vars, arg, todo>>
  /\ UNCHANGED <<jobs, rholders, op, accepting>>

ShutSwept ==
  /\ pc[Shut] = "sweeping"
  /\ CleanupEnd(Shut, arg[Shut])
  /\ todo' = todo \ {arg[Shut]}
  /\ Goto(Shut, "sweep")
  /\ UNCHANGED <<jobs, writer, rholders, op, arg, accepting>>

-----------------------------------------------------------------------------
Arrive(t) ==
  \E j \in Jobs :
    CreateJob(t, j) \/ CallRemove(t, j) \/ \E o \in Ops : CallRead(t, j, o)

Serve(t) ==
  \/ Lock(t, "wantAdd", "add")
  \/ Lock(t, "wantRemove", "remove")
  \/ Add(t)
  \/ Unlink(t)
  \/ Clean(t)
  \/ Cleaned(t)
  \/ RLock(t)
  \/ ReadCall(t)

ShutStep == ShutLock \/ ShutInitStop \/ ShutAwait \/ ShutSweep \/ ShutSwept

JobStep(j) ==
  /\ Background(j) \/ \E r \in Readers : CloseReader(r, j)
  /\ UNCHANGED supVars

SupNext ==
  \/ \E t \in Servers : Arrive(t) \/ Serve(t)
  \/ \E j \in Jobs : JobStep(j)
  \/ Interrupt
  \/ GracefulStop
  \/ ShutStep

SupSpec == SupInit /\ [][SupNext]_allVars

\* The scheduler runs every goroutine and the two mutexes starve nobody.  A
\* reader closes once its job is done (LogStream, StreamEnds); before that only
\* its client can end it.
SupFairSpec ==
  /\ SupSpec
  /\ Fairness
  /\ \A t \in Servers : SF_allVars(Serve(t))
  /\ SF_allVars(ShutStep)
  /\ WF_allVars(GracefulStop)
  /\ \A j \in Jobs, r \in Readers :
       WF_allVars(done[j] /\ CloseReader(r, j) /\ UNCHANGED supVars)

-----------------------------------------------------------------------------
\* The supervisor uses pkg/job the way module Job's Spec says: it never cleans
\* up a job that is not completed, although it asks under its own lock, lets go
\* of it, and calls Cleanup later.
UsesJobAsSpecified == Spec

\* Nobody waits for one who waits for him: a job that can be looked up has its
\* stateLock taken for long only by StopSupervisor itself, at its very end, with
\* no call under the lock; and the jobs StopSupervisor waits for are jobs whose
\* exited() is still to come and will close `done' (it does not for a removed one).
NobodyWaitsUnderLock ==
  /\ \A j \in jobs : lock[j] # NoThread =>
       lock[j] = Shut /\ pc[Shut] = "sweeping" /\ rholders = {}
  /\ pc[Shut] = "await" => \A j \in jobs :
       ~done[j] => handler[j] # "ZOMBIE" /\ proc[j] # "collected"

\* The goroutines that have a job in their hands, outside the map.
Holds(t, j) == arg[t] = j /\ pc[t] \in {"wantAdd", "add", "clean", "wait"}

\* No job gets lost: one that is there and not removed is in the map, or in the
\* hands of exactly one call, which is about to put it there or to remove it.
OneKeeper ==
  \A j \in Jobs :
    /\ \A t, u \in Servers : Holds(t, j) /\ Holds(u, j) => t = u
    /\ \A t \in Servers : Holds(t, j) => j \notin jobs
    /\ proc[j] # "none" /\ handler[j] # "ZOMBIE" =>
         j \in jobs \/ \E t \in Servers : Holds(t, j)

\* A call that has the supervisor's lock returns it, whatever readers, stops and
\* removals of other jobs do.
LockReturned ==
  \A t \in Servers : (t \in rholders \/ writer = t)
                       ~> (t \notin rholders /\ writer # t)

\* StopSupervisor returns: every job it has found ends, and its readers after it.
ShutdownEnds == pc[Shut] = "wantShut" ~> pc[Shut] = "done"

\* The job API sees the jobs the way JobMap says, which is all module Server
\* needs to know of them: in the map or in the hands of one call, unlinked only
\* when they no longer run, and removed once.
lifeSeen ==
  [j \in Jobs |-> IF proc[j] = "none" THEN "none"
                  ELSE CASE ~Completed(j)         -> "running"
                         [] handler[j] = "ZOMBIE" -> "removed"
                         [] OTHER                 -> "over"]
holdSeen == [j \in Jobs |-> {t \in Servers : Holds(t, j)}]
Map == INSTANCE JobMap WITH
         Threads <- Servers, listed <- jobs, life <- lifeSeen, hold <- holdSeen,
         closing <- pc[Shut] # "idle"
ImplementsJobMap == Map!MapSpec

\* On Ctrl-C the server "starts graceful shutdown on all jobs, then does full
\* cleanup and then exit" (README.md:231): one thing only can keep it from leaving,
\* a log stream of a job that is not done, whose client stays.  (Such a job was stopped by
\* force and then removed, or started too late for StopSupervisor to see it.)
Left ==
  /\ ~accepting
  /\ pc[Shut] = "done"
  /\ \A t \in Servers : pc[t] = "idle"
  /\ \A j \in Jobs : open[j] = {}
ServerLeaves ==
  <>(pc[Shut] # "idle") =>
    <>[]Left \/ <>[](\E j \in Jobs : open[j] # {} /\ ~done[j])

\* "StopServer stops and cleans up all jobs" (server.go:120): when main leaves,
\* GracefulStop and StopServer having returned, no job is left running.
AllStoppedAtExit ==
  ~accepting /\ pc[Shut] = "done" /\ (\A t \in Servers : pc[t] = "idle") =>
    \A j \in Jobs : proc[j] # "none" => Completed(j)
=============================================================================
