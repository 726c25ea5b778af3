-------------------------- MODULE SupervisorProofs --------------------------
(***************************************************************************)
(* Proofs about module Supervisor, for any numbers of jobs, goroutines and *)
(* readers.                                                                *)
(***************************************************************************)
EXTENDS Supervisor, JobProofs

\* What the place of a call says of the two locks and of its job ...
CallOK(t) ==
  /\ t \in rholders <=> pc[t] = "read"
  /\ writer = t <=> pc[t] \in {"add", "remove"}
  /\ pc[t] \in {"clean", "wait"} => Completed(arg[t])
  /\ \A j \in Jobs : lock[j] = t <=> pc[t] = "wait" /\ arg[t] = j

\* ... and what that of StopSupervisor says.
ShutdownOK ==
  /\ writer = Shut <=> pc[Shut] \in {"initStop", "await", "sweep", "sweeping"}
  /\ pc[Shut] \in {"initStop", "sweep", "sweeping"} => todo \subseteq jobs
  /\ pc[Shut] \in {"sweep", "sweeping"} => \A j \in jobs : done[j]
  /\ pc[Shut] = "sweeping" => arg[Shut] \in jobs
  /\ \A j \in Jobs : lock[j] = Shut <=> pc[Shut] = "sweeping" /\ arg[Shut] = j

\* A job is in the map or in the hands of one call.
KeeperOK(j) ==
  /\ \A t, u \in Servers : Holds(t, j) /\ Holds(u, j) => t = u
  /\ \A t \in Servers : Holds(t, j) => j \notin jobs /\ proc[j] # "none"
  /\ j \in jobs => proc[j] # "none"
  /\ proc[j] # "none" /\ handler[j] # "ZOMBIE" =>
       j \in jobs \/ \E t \in Servers : Holds(t, j)


\* Until the shutdown cleans up, a job that is kept has not been removed: so its
\* `done' will be closed.
Kept(j) == j \in jobs \/ \E t \in Servers : Holds(t, j)
Unswept == {"idle", "wantShut", "initStop", "await"}
UnsweptOK(j) == pc[Shut] \in Unswept /\ Kept(j) => handler[j] # "ZOMBIE"

\* StopSupervisor gets past its first loop when the calls under RLock have left.
AloneOK == pc[Shut] \in {"await", "sweep", "sweeping"} => rholders = {}

SupInv ==
  /\ Inv
  /\ SupTypeOK
  /\ \A t \in Servers : CallOK(t)
  /\ ShutdownOK /\ AloneOK
  /\ \A j \in Jobs : KeeperOK(j) /\ UnsweptOK(j)

-----------------------------------------------------------------------------
\* A job whose `done' is closed is completed.
LEMMA DoneCompleted == ASSUME Inv, NEW j \in Jobs, done[j] PROVE Completed(j)
  BY DEF Inv, JobInv, JobOK, ActiveOK, StoppingOK, DoneOK, Completed

\* The supervisor takes the steps of module Job, and cleans up completed jobs only.
LEMMA SupJobStep ==
  ASSUME SupInv, [SupNext]_allVars PROVE [Next]_vars
<1> USE DEF SupInv, SupTypeOK
<1>1. CASE UNCHANGED allVars
  BY <1>1 DEF allVars
<1>2. ASSUME NEW t \in Servers, Arrive(t) PROVE [Next]_vars
  BY <1>2 DEF Arrive, CreateJob, CallRemove, CallRead, Next, OwnStep
<1>3. ASSUME NEW t \in Servers, Clean(t) \/ Cleaned(t) PROVE [Next]_vars
  BY <1>3 DEF Clean, Cleaned, Servers, CallOK, Next, OwnStep, CleanupCompleted
<1>4. ASSUME NEW t \in Servers, ReadCall(t) PROVE [Next]_vars
  BY <1>4 DEF ReadCall, Refused, Granted, Servers, Next, OwnStep, ReaderStep
<1>5. ASSUME NEW t \in Servers, Serve(t), ~Clean(t), ~Cleaned(t), ~ReadCall(t)
      PROVE  [Next]_vars
  BY <1>5 DEF Serve, Lock, Add, Unlink, RLock
<1>6. ASSUME NEW j \in Jobs, JobStep(j) PROVE [Next]_vars
  BY <1>6 DEF JobStep, Next, OwnStep, ReaderStep
<1>7. ASSUME Interrupt \/ GracefulStop \/ ShutLock \/ ShutAwait PROVE [Next]_vars
  BY <1>7 DEF Interrupt, GracefulStop, ShutLock, ShutAwait
<1>8. ASSUME ShutInitStop PROVE [Next]_vars
  BY <1>8 DEF ShutInitStop, Next, OwnStep
<1>9. ASSUME ShutSweep PROVE [Next]_vars
  <2>1. \A j \in todo : j \in Jobs /\ Completed(j)
    BY <1>9, DoneCompleted DEF ShutSweep, ShutdownOK
  <2> QED
    BY <1>9, <2>1, ShutOK DEF ShutSweep, Next, CleanupCompleted
<1>10. ASSUME ShutSwept PROVE [Next]_vars
  BY <1>10, ShutOK DEF ShutSwept, Next, OwnStep
<1> QED
  BY <1>1, <1>2, <1>3, <1>4, <1>5, <1>6, <1>7, <1>8, <1>9, <1>10
  DEF SupNext, ShutStep

\* Most steps of a job neither create it, nor clean it up.
Quiet ==
  /\ lock' = lock
  /\ \A k \in Jobs : /\ proc'[k] = "none" <=> proc[k] = "none"
                     /\ handler'[k] = "ZOMBIE" <=> handler[k] = "ZOMBIE"

LEMMA StillQuiet == UNCHANGED vars => Quiet
  BY DEF vars, procVars, Quiet

LEMMA QuietStep ==
  ASSUME TypeOK, NEW j \in Jobs,
         \/ InitStop(j) \/ Stop(j) \/ Background(j)
         \/ \E r \in Readers : Logs(r, j) \/ CloseReader(r, j)
  PROVE  Quiet
<1> USE DEF TypeOK, Quiet, procVars
<1>1. CASE InitStop(j)
  BY <1>1 DEF InitStop
<1>2. CASE Stop(j) \/ TimerStop(j)
  BY <1>2 DEF Stop, TimerStop, ForceStop, SendKill
<1>3. CASE TimerFire(j)
  BY <1>3 DEF TimerFire
<1>4. CASE \E c \in ExitCodes \cup {NotExited} : ProcExit(j, c)
  BY <1>4 DEF ProcExit
<1>5. CASE Reap(j)
  BY <1>5 DEF Reap
<1>6. CASE Exited(j)
  BY <1>6 DEF Exited, HandleExit
<1>7. CASE \E r \in Readers : Logs(r, j) \/ CloseReader(r, j)
  BY <1>7 DEF Logs, CloseReader
<1> QED
  BY <1>1, <1>2, <1>3, <1>4, <1>5, <1>6, <1>7 DEF Background

-----------------------------------------------------------------------------
\* Before the first call there is no job.
LEMMA SupInitOK == SupInit => SupInv
<1> SUFFICES ASSUME SupInit PROVE SupInv
  OBVIOUS
<1> USE ConstantsOK, ShutOK DEF SupInit, Init
<1>1. Inv
  BY InitOK DEF Inv
<1>2. SupTypeOK
  BY <1>1 DEF Inv, SupTypeOK, Label, Ops
<1>3. ASSUME NEW t \in Servers PROVE CallOK(t)
  BY DEF CallOK, Servers
<1>4. ShutdownOK
  BY DEF ShutdownOK
<1>5. ASSUME NEW j \in Jobs PROVE KeeperOK(j) /\ UnsweptOK(j)
  BY DEF KeeperOK, UnsweptOK, Kept, Holds, Servers
<1>6. AloneOK
  BY DEF AloneOK
<1> QED
  BY <1>1, <1>2, <1>3, <1>4, <1>5, <1>6 DEF SupInv

\* Every step keeps the types.
LEMMA SupTypeStep == ASSUME SupInv, [SupNext]_allVars PROVE SupTypeOK'
<1>0. TypeOK'
  BY SupJobStep, SpecStep, TypeStep DEF SupInv, SupTypeOK
<1> USE <1>0, ConstantsOK, ShutOK
        DEF SupInv, SupTypeOK, Servers, Label, Ops, Goto, Unlock, Call
<1>1. CASE UNCHANGED allVars
  BY <1>1 DEF allVars, supVars
<1>2. ASSUME NEW t \in Servers, NEW j \in Jobs, CreateJob(t, j) PROVE SupTypeOK'
  BY <1>2 DEF CreateJob
<1>3. ASSUME NEW t \in Servers, NEW j \in Jobs, CallRemove(t, j) PROVE SupTypeOK'
  BY <1>3 DEF CallRemove
<1>4. ASSUME NEW t \in Servers, NEW j \in Jobs, NEW o \in Ops, CallRead(t, j, o)
      PROVE  SupTypeOK'
  BY <1>4 DEF CallRead
<1>5. ASSUME NEW t \in Servers,
             Lock(t, "wantAdd", "add") \/ Lock(t, "wantRemove", "remove")
      PROVE  SupTypeOK'
  BY <1>5 DEF Lock
<1>6. ASSUME NEW t \in Servers, Add(t) PROVE SupTypeOK'
  BY <1>6 DEF Add
<1>7. ASSUME NEW t \in Servers, Unlink(t) PROVE SupTypeOK'
  BY <1>7 DEF Unlink
<1>8. ASSUME NEW t \in Servers, Clean(t) \/ Cleaned(t) PROVE SupTypeOK'
  BY <1>8 DEF Clean, Cleaned
<1>9. ASSUME NEW t \in Servers, RLock(t) \/ ReadCall(t) PROVE SupTypeOK'
  BY <1>9 DEF RLock, ReadCall
<1>10. ASSUME NEW j \in Jobs, JobStep(j) PROVE SupTypeOK'
  BY <1>10 DEF JobStep, supVars
<1>11. CASE Interrupt \/ GracefulStop \/ ShutLock \/ ShutAwait
  <2>1. CASE Interrupt
    BY <2>1 DEF Interrupt
  <2>2. CASE GracefulStop
    BY <2>2 DEF GracefulStop
  <2>3. CASE ShutLock
    BY <2>3 DEF ShutLock
  <2>4. CASE ShutAwait
    BY <2>4 DEF ShutAwait
  <2> QED
    BY <1>11, <2>1, <2>2, <2>3, <2>4
<1>12. CASE ShutInitStop
  BY <1>12 DEF ShutInitStop
<1>13. CASE ShutSweep \/ ShutSwept
  BY <1>13 DEF ShutSweep, ShutSwept
<1> HIDE DEF SupInv, SupTypeOK, Servers, Label, Ops, Goto, Unlock, Call
<1> QED
  BY <1>1, <1>2, <1>3, <1>4, <1>5, <1>6, <1>7, <1>8, <1>9, <1>10, <1>11, <1>12,
     <1>13 DEF SupNext, ShutStep, Arrive, Serve

\* Every step keeps a call in step with the two locks.
LEMMA CallsStep ==
  ASSUME SupInv, [SupNext]_allVars, NEW u \in Servers PROVE CallOK(u)'
<1>0. u \in Threads /\ u # Shut /\ Shut \in Threads /\ NoThread \notin Threads
  BY ShutOK, ConstantsOK DEF Servers
<1>t. /\ SupTypeOK /\ TypeOK /\ CallOK(u)
      /\ arg[u] \in Jobs
      /\ \A t \in Servers : t \in Threads /\ t # Shut
  BY DEF SupInv, SupTypeOK, Servers
<1>c. \A k \in Jobs : Completed(k) => Completed(k)'
  BY SupJobStep, CompletedStays, <1>t
<1> USE <1>0, <1>t, <1>c DEF SupTypeOK, TypeOK, CallOK, Quiet, Goto, Unlock, Call
<1>1. CASE UNCHANGED allVars
  BY <1>1 DEF allVars, vars, supVars
<1>2. ASSUME NEW t \in Servers, NEW j \in Jobs, CreateJob(t, j) PROVE CallOK(u)'
  BY <1>2 DEF CreateJob, New
<1>3. ASSUME NEW t \in Servers, NEW j \in Jobs, CallRemove(t, j) PROVE CallOK(u)'
  BY <1>3 DEF CallRemove, vars
<1>4. ASSUME NEW t \in Servers, NEW j \in Jobs, NEW o \in Ops, CallRead(t, j, o)
      PROVE  CallOK(u)'
  BY <1>4 DEF CallRead, vars
<1>5. ASSUME NEW t \in Servers,
             Lock(t, "wantAdd", "add") \/ Lock(t, "wantRemove", "remove")
      PROVE  CallOK(u)'
  BY <1>5 DEF Lock, vars
<1>6. ASSUME NEW t \in Servers, Add(t) PROVE CallOK(u)'
  BY <1>6 DEF Add, Locked, vars
<1>7. ASSUME NEW t \in Servers, Unlink(t) PROVE CallOK(u)'
  BY <1>7 DEF Unlink, Locked, vars
<1>8. ASSUME NEW t \in Servers, Clean(t) PROVE CallOK(u)'
  <2>1. CASE CleanupBegin(t, arg[t]) /\ Goto(t, "wait")
    BY <1>8, <2>1 DEF Clean, CleanupBegin, Enter
  <2>2. CASE UNCHANGED vars /\ Goto(t, "wantAdd")
    BY <1>8, <2>2 DEF Clean, vars
  <2> QED
    BY <1>8, <2>1, <2>2 DEF Clean
<1>9. ASSUME NEW t \in Servers, Cleaned(t) PROVE CallOK(u)'
  BY <1>9 DEF Cleaned, CleanupEnd
<1>10. ASSUME NEW t \in Servers, RLock(t) PROVE CallOK(u)'
  BY <1>10 DEF RLock, vars
<1>11. ASSUME NEW t \in Servers, ReadCall(t) PROVE CallOK(u)'
  <2>1. Quiet
    BY <1>11, QuietStep, StillQuiet DEF ReadCall, Refused, Granted
  <2> QED
    BY <1>11, <2>1 DEF ReadCall
<1>12. ASSUME NEW j \in Jobs, JobStep(j) PROVE CallOK(u)'
  BY <1>12, QuietStep DEF JobStep, supVars
<1>13. CASE Interrupt \/ GracefulStop \/ ShutLock \/ ShutAwait
  BY <1>13 DEF Interrupt, GracefulStop, ShutLock, ShutAwait, vars
<1>14. CASE ShutInitStop
  <2>1. Quiet
    BY <1>14, QuietStep, StillQuiet DEF ShutInitStop
  <2> QED
    BY <1>14, <2>1 DEF ShutInitStop
<1>15. CASE ShutSweep
  <2>1. pc'[u] = pc[u] /\ arg'[u] = arg[u] /\ rholders' = rholders
    BY <1>15 DEF ShutSweep
  <2>2. writer' = u <=> writer = u
    BY <1>15 DEF ShutSweep, SupInv, ShutdownOK
  <2>3. ASSUME NEW k \in Jobs PROVE lock'[k] = u <=> lock[k] = u
    BY <1>15 DEF ShutSweep, CleanupBegin, Enter, vars
  <2> QED
    BY <2>1, <2>2, <2>3
<1>16. CASE ShutSwept
  BY <1>16 DEF ShutSwept, CleanupEnd
<1> HIDE DEF SupTypeOK, TypeOK, CallOK, Call
<1> QED
  BY <1>1, <1>2, <1>3, <1>4, <1>5, <1>6, <1>7, <1>8, <1>9, <1>10, <1>11, <1>12,
     <1>13, <1>14, <1>15, <1>16 DEF SupNext, ShutStep, Arrive, Serve

\* Every step keeps StopSupervisor in step with the locks and the map.
LEMMA ClosingStep == ASSUME SupInv, [SupNext]_allVars PROVE ShutdownOK'
<1>0. Shut \in Threads /\ NoThread \notin Threads /\ Shut # NoThread
  BY ShutOK, ConstantsOK
<1>t. /\ SupTypeOK /\ TypeOK /\ ShutdownOK
      /\ \A t \in Servers : t \in Threads /\ t # Shut /\ arg[t] \in Jobs
  BY DEF SupInv, SupTypeOK, Servers
<1>d. \A k \in Jobs : done[k] => done'[k]
  BY SupJobStep, DoneStays, <1>t
<1> USE <1>0, <1>t, <1>d
        DEF SupTypeOK, TypeOK, ShutdownOK, Quiet, Goto, Unlock, Call
<1>1. CASE UNCHANGED allVars
  BY <1>1 DEF allVars, vars, supVars
<1>2. ASSUME NEW t \in Servers, NEW j \in Jobs,
             \/ CreateJob(t, j) \/ CallRemove(t, j)
             \/ \E o \in Ops : CallRead(t, j, o)
      PROVE  ShutdownOK'
  BY <1>2 DEF CreateJob, CallRemove, CallRead, New, vars
<1>3. ASSUME NEW t \in Servers,
             \/ Lock(t, "wantAdd", "add") \/ Lock(t, "wantRemove", "remove")
             \/ RLock(t)
      PROVE  ShutdownOK'
  BY <1>3 DEF Lock, RLock, vars
<1>4. ASSUME NEW t \in Servers, Add(t) \/ Unlink(t) PROVE ShutdownOK'
  BY <1>4 DEF Add, Unlink, Locked, vars
<1>5. ASSUME NEW t \in Servers, Clean(t) PROVE ShutdownOK'
  BY <1>5 DEF Clean, CleanupBegin, Enter, vars
<1>6. ASSUME NEW t \in Servers, Cleaned(t) PROVE ShutdownOK'
  BY <1>6 DEF Cleaned, CleanupEnd
<1>7. ASSUME NEW t \in Servers, ReadCall(t) PROVE ShutdownOK'
  <2>1. Quiet
    BY <1>7, QuietStep, StillQuiet DEF ReadCall, Refused, Granted
  <2> QED
    BY <1>7, <2>1 DEF ReadCall
<1>8. ASSUME NEW j \in Jobs, JobStep(j) PROVE ShutdownOK'
  BY <1>8, QuietStep DEF JobStep, supVars
<1>9. CASE Interrupt \/ GracefulStop \/ ShutLock \/ ShutAwait
  BY <1>9 DEF Interrupt, GracefulStop, ShutLock, ShutAwait, vars
<1>10. CASE ShutInitStop
  <2>1. Quiet
    BY <1>10, QuietStep, StillQuiet DEF ShutInitStop
  <2> QED
    BY <1>10, <2>1 DEF ShutInitStop
<1>11. CASE ShutSweep
  <2>1. ASSUME NEW j \in todo, CleanupBegin(Shut, j), Goto(Shut, "sweeping"),
               arg' = [arg EXCEPT ![Shut] = j], UNCHANGED <<todo, writer>>
        PROVE  ShutdownOK'
    BY <1>11, <2>1 DEF ShutSweep, CleanupBegin, Enter
  <2>2. CASE todo' \subseteq todo /\ UNCHANGED <<vars, arg, pc, writer>>
    BY <1>11, <2>2 DEF ShutSweep, vars
  <2>3. CASE Unlock /\ Goto(Shut, "done") /\ UNCHANGED <<vars, arg, todo>>
    BY <1>11, <2>3 DEF ShutSweep, vars
  <2> QED
    BY <1>11, <2>1, <2>2, <2>3 DEF ShutSweep
<1>12. CASE ShutSwept
  BY <1>12 DEF ShutSwept, CleanupEnd
<1> HIDE DEF SupTypeOK, TypeOK, ShutdownOK, Call
<1> QED
  BY <1>1, <1>2, <1>3, <1>4, <1>5, <1>6, <1>7, <1>8, <1>9, <1>10, <1>11, <1>12
  DEF SupNext, ShutStep, Arrive, Serve

\* Every step keeps a job where it is, or passes it on.
LEMMA KeepersStep ==
  ASSUME SupInv, [SupNext]_allVars, NEW k \in Jobs PROVE KeeperOK(k)'
<1>t. /\ SupTypeOK /\ TypeOK /\ KeeperOK(k)
      /\ \A t \in Servers : t \in Threads /\ t # Shut /\ arg[t] \in Jobs
      /\ Shut \in Threads
  BY ShutOK DEF SupInv, SupTypeOK, Servers
<1> USE <1>t DEF SupTypeOK, TypeOK, KeeperOK, Holds, Quiet, Goto, Unlock, Call
<1>1. CASE UNCHANGED allVars
  BY <1>1 DEF allVars, vars, supVars, procVars
<1>2. ASSUME NEW t \in Servers, NEW j \in Jobs, CreateJob(t, j) PROVE KeeperOK(k)'
  BY <1>2 DEF CreateJob, New
<1>3. ASSUME NEW t \in Servers, NEW j \in Jobs,
             CallRemove(t, j) \/ \E o \in Ops : CallRead(t, j, o)
      PROVE  KeeperOK(k)'
  BY <1>3, StillQuiet DEF CallRemove, CallRead
<1>4. ASSUME NEW t \in Servers,
             \/ Lock(t, "wantAdd", "add") \/ Lock(t, "wantRemove", "remove")
             \/ RLock(t)
      PROVE  KeeperOK(k)'
  BY <1>4, StillQuiet DEF Lock, RLock
<1>5. ASSUME NEW t \in Servers, Add(t) PROVE KeeperOK(k)'
  BY <1>5, StillQuiet DEF Add
<1>6. ASSUME NEW t \in Servers, Unlink(t) PROVE KeeperOK(k)'
  BY <1>6, StillQuiet DEF Unlink
<1>7. ASSUME NEW t \in Servers, Clean(t) PROVE KeeperOK(k)'
  BY <1>7 DEF Clean, CleanupBegin, vars, procVars
<1>8. ASSUME NEW t \in Servers, Cleaned(t) PROVE KeeperOK(k)'
  BY <1>8 DEF Cleaned, CleanupEnd, procVars
<1>9. ASSUME NEW t \in Servers, ReadCall(t) PROVE KeeperOK(k)'
  <2>1. Quiet
    BY <1>9, QuietStep, StillQuiet DEF ReadCall, Refused, Granted
  <2> QED
    BY <1>9, <2>1 DEF ReadCall
<1>10. ASSUME NEW j \in Jobs, JobStep(j) PROVE KeeperOK(k)'
  BY <1>10, QuietStep DEF JobStep, supVars
<1>11. CASE Interrupt \/ GracefulStop \/ ShutLock \/ ShutAwait
  BY <1>11, StillQuiet DEF Interrupt, GracefulStop, ShutLock, ShutAwait
<1>12. CASE ShutInitStop
  <2>1. Quiet
    BY <1>12, QuietStep, StillQuiet DEF ShutInitStop
  <2> QED
    BY <1>12, <2>1 DEF ShutInitStop
<1>13. CASE ShutSweep
  BY <1>13 DEF ShutSweep, CleanupBegin, vars, procVars
<1>14. CASE ShutSwept
  BY <1>14 DEF ShutSwept, CleanupEnd, procVars
<1> HIDE DEF SupTypeOK, TypeOK, KeeperOK, Call
<1> QED
  BY <1>1, <1>2, <1>3, <1>4, <1>5, <1>6, <1>7, <1>8, <1>9, <1>10, <1>11, <1>12,
     <1>13, <1>14 DEF SupNext, ShutStep, Arrive, Serve

\* A job becomes a zombie in the hands of the call that gives it up, or at the end
\* of the shutdown.
LEMMA UnsweptStep ==
  ASSUME SupInv, [SupNext]_allVars, NEW k \in Jobs PROVE UnsweptOK(k)'
<1>t. /\ SupTypeOK /\ TypeOK /\ KeeperOK(k) /\ UnsweptOK(k)
      /\ pc \in [Threads -> Label] /\ arg \in [Threads -> Jobs]
      /\ \A t \in Servers : t \in Threads /\ t # Shut /\ arg[t] \in Jobs
      /\ Shut \in Threads
  BY ShutOK DEF SupInv, SupTypeOK, Servers
\* It is enough that a step removes no job, and keeps no other ...
<1>q. ASSUME Quiet, pc'[Shut] \in Unswept => pc[Shut] \in Unswept, Kept(k)' => Kept(k)
      PROVE  UnsweptOK(k)'
  BY <1>t, <1>q DEF UnsweptOK, Quiet
\* ... and a step of a job does neither.
<1>j. ASSUME Quiet, jobs' = jobs, pc'[Shut] \in Unswept => pc[Shut] \in Unswept,
             \A t \in Servers : Holds(t, k)' => Holds(t, k)
      PROVE  UnsweptOK(k)'
  BY <1>j, <1>q DEF Kept
<1>1. CASE UNCHANGED allVars
  BY <1>1, <1>j, StillQuiet DEF allVars, supVars, Holds
<1>2. ASSUME NEW t \in Servers, NEW j \in Jobs, CreateJob(t, j) PROVE UnsweptOK(k)'
  <2>1. /\ proc[j] = "none" /\ handler' = handler /\ jobs' = jobs
        /\ pc' = [pc EXCEPT ![t] = "wantAdd"] /\ arg' = [arg EXCEPT ![t] = j]
        /\ pc[t] = "idle"
    BY <1>2 DEF CreateJob, New, Call, Goto
  <2>2. CASE k = j
    <3>1. handler[k] # "ZOMBIE"
      BY <2>1, <2>2 DEF SupInv, Inv, JobInv, JobOK, FreshOK
    <3> QED
      BY <2>1, <3>1 DEF UnsweptOK
  <2>3. CASE k # j
    BY <1>t, <2>1, <2>3 DEF UnsweptOK, Kept, Holds
  <2> QED
    BY <2>2, <2>3
<1>3. ASSUME NEW t \in Servers, NEW j \in Jobs,
             CallRemove(t, j) \/ \E o \in Ops : CallRead(t, j, o)
      PROVE  UnsweptOK(k)'
  BY <1>3, <1>t, <1>j, StillQuiet DEF CallRemove, CallRead, Call, Goto, Holds
<1>4. ASSUME NEW t \in Servers,
             \/ Lock(t, "wantAdd", "add") \/ Lock(t, "wantRemove", "remove")
             \/ RLock(t)
      PROVE  UnsweptOK(k)'
  BY <1>4, <1>t, <1>j, StillQuiet DEF Lock, RLock, Goto, Holds
<1>5. ASSUME NEW t \in Servers, Add(t) PROVE UnsweptOK(k)'
  <2>1. k = arg[t] => Kept(k)
    BY <1>5 DEF Add, Kept, Holds
  <2>2. Kept(k)' => Kept(k)
    BY <1>5, <1>t, <2>1 DEF Add, Goto, Kept, Holds
  <2> QED
    BY <1>5, <1>t, <1>q, <2>2, StillQuiet DEF Add, Goto
<1>6. ASSUME NEW t \in Servers, Unlink(t) PROVE UnsweptOK(k)'
  <2>1. Kept(k)' => Kept(k)
    BY <1>6, <1>t DEF Unlink, Goto, Kept, Holds
  <2> QED
    BY <1>6, <1>t, <1>q, <2>1, StillQuiet DEF Unlink, Goto
<1>7. ASSUME NEW t \in Servers, Clean(t) PROVE UnsweptOK(k)'
  <2>1. handler' = handler /\ jobs' = jobs /\ arg' = arg /\ pc[t] = "clean"
        /\ \E l \in {"wait", "wantAdd"} : pc' = [pc EXCEPT ![t] = l]
    BY <1>7 DEF Clean, CleanupBegin, vars, Goto
  <2>2. Kept(k)' => Kept(k)
    BY <1>t, <2>1 DEF Kept, Holds
  <2> QED
    BY <1>t, <2>1, <2>2 DEF UnsweptOK
<1>8. ASSUME NEW t \in Servers, Cleaned(t) PROVE UnsweptOK(k)'
  <2>1. /\ pc[t] = "wait" /\ jobs' = jobs /\ arg' = arg
        /\ \/ UNCHANGED handler /\ Goto(t, IF handler[arg[t]] = "ZOMBIE" THEN "idle" ELSE "wantAdd")
           \/ handler' = [handler EXCEPT ![arg[t]] = "ZOMBIE"] /\ Goto(t, "idle")
    BY <1>8, <1>t DEF Cleaned, CleanupEnd, TypeOK
  <2>2. pc'[Shut] = pc[Shut] /\ (Kept(k)' => Kept(k))
    BY <1>t, <2>1 DEF Goto, Kept, Holds
  <2>3. CASE k # arg[t]
    BY <1>t, <2>1, <2>2, <2>3 DEF TypeOK, UnsweptOK
  <2>4. CASE k = arg[t]
    <3>1. k \notin jobs /\ \A u \in Servers : Holds(u, k) => u = t
      BY <1>t, <2>1, <2>4 DEF KeeperOK, Holds
    <3>2. CASE UNCHANGED handler
      BY <1>t, <2>2, <3>2 DEF UnsweptOK
    <3>3. CASE Goto(t, "idle")
      <4>1. ~Kept(k)'
        BY <1>t, <2>1, <3>1, <3>3 DEF Goto, Kept, Holds
      <4> QED
        BY <4>1 DEF UnsweptOK
    <3> QED
      BY <2>1, <3>2, <3>3
  <2> QED
    BY <2>3, <2>4
<1>9. ASSUME NEW t \in Servers, ReadCall(t) PROVE UnsweptOK(k)'
  <2>1. Quiet
    BY <1>9, <1>t, QuietStep, StillQuiet DEF ReadCall, Refused, Granted
  <2> QED
    BY <1>9, <1>t, <1>j, <2>1 DEF ReadCall, Goto, Holds
<1>10. ASSUME NEW j \in Jobs, JobStep(j) PROVE UnsweptOK(k)'
  BY <1>10, <1>t, <1>j, QuietStep DEF JobStep, supVars, Holds
<1>11. CASE Interrupt \/ GracefulStop \/ ShutLock \/ ShutAwait
  BY <1>11, <1>t, <1>j, StillQuiet
  DEF Interrupt, GracefulStop, ShutLock, ShutAwait, Goto, Holds, Unswept
<1>12. CASE ShutInitStop
  <2>1. Quiet
    BY <1>12, <1>t, QuietStep, StillQuiet DEF ShutInitStop, SupTypeOK
  <2> QED
    BY <1>12, <1>t, <1>j, <2>1 DEF ShutInitStop, Goto, Holds, Unswept
<1>13. CASE ShutSweep \/ ShutSwept
  <2>1. pc'[Shut] \notin Unswept
    BY <1>13, <1>t DEF ShutSweep, ShutSwept, Goto, Unswept
  <2> QED
    BY <2>1 DEF UnsweptOK
<1> QED
  BY <1>1, <1>2, <1>3, <1>4, <1>5, <1>6, <1>7, <1>8, <1>9, <1>10, <1>11, <1>12,
     <1>13 DEF SupNext, ShutStep, Arrive, Serve

\* A reader gets in only when no writer has announced itself.
LEMMA AloneStep == ASSUME SupInv, [SupNext]_allVars PROVE AloneOK'
<1>t. /\ AloneOK /\ pc \in [Threads -> Label] /\ Shut \in Threads
      /\ Shut # NoThread /\ \A t \in Servers : t \in Threads /\ t # Shut
      /\ writer = Shut <=> pc[Shut] \in {"initStop", "await", "sweep", "sweeping"}
  BY ShutOK, ConstantsOK DEF SupInv, SupTypeOK, Servers, ShutdownOK
<1> USE <1>t DEF AloneOK, Goto
<1>1. CASE rholders' \subseteq rholders /\ pc'[Shut] = pc[Shut]
  BY <1>1
<1>2. CASE UNCHANGED allVars
  BY <1>2 DEF allVars, supVars
<1>3. ASSUME NEW t \in Servers, Arrive(t) PROVE AloneOK'
  BY <1>1, <1>3 DEF Arrive, CreateJob, CallRemove, CallRead, Call
<1>4. ASSUME NEW t \in Servers, RLock(t) PROVE AloneOK'
  BY <1>4 DEF RLock
<1>5. ASSUME NEW t \in Servers, Serve(t), ~RLock(t) PROVE AloneOK'
  BY <1>1, <1>5 DEF Serve, Lock, Add, Unlink, Clean, Cleaned, ReadCall
<1>6. ASSUME NEW j \in Jobs, JobStep(j) PROVE AloneOK'
  BY <1>1, <1>6 DEF JobStep, supVars
<1>7. CASE Interrupt \/ GracefulStop \/ ShutLock
  BY <1>7 DEF Interrupt, GracefulStop, ShutLock
<1>8. CASE ShutInitStop
  BY <1>8 DEF ShutInitStop, Locked
<1>9. CASE ShutAwait \/ ShutSweep \/ ShutSwept
  BY <1>9 DEF ShutAwait, ShutSweep, ShutSwept
<1> QED
  BY <1>2, <1>3, <1>4, <1>5, <1>6, <1>7, <1>8, <1>9 DEF SupNext, ShutStep

-----------------------------------------------------------------------------
\* The supervisor, its shutdown and its jobs keep their invariant.
THEOREM SupInvariant == SupSpec => []SupInv
<1>1. SupInv /\ [SupNext]_allVars => SupInv'
  <2> SUFFICES ASSUME SupInv, [SupNext]_allVars PROVE SupInv'
    OBVIOUS
  <2>1. Inv'
    BY SupJobStep, SpecStep, TypeStep, JobInvStep, GuardedStep DEF SupInv, Inv
  <2>2. \A t \in Servers : CallOK(t)'
    BY CallsStep
  <2> QED
    BY <2>1, <2>2, SupTypeStep, ClosingStep, AloneStep, KeepersStep, UnsweptStep
    DEF SupInv
<1> QED
  BY SupInitOK, <1>1, PTL DEF SupSpec

\* The supervisor never cleans up a job that is not completed: so every theorem
\* about Spec in JobProofs holds of the jobs of a server.
THEOREM JobsAreUsedAsSpecified == SupSpec => UsesJobAsSpecified
<1>1. SupInit => Init
  BY DEF SupInit
<1>2. SupInv /\ [SupNext]_allVars => [Next]_vars
  BY SupJobStep
<1> QED
  BY <1>1, <1>2, SupInvariant, PTL DEF SupSpec, Spec, UsesJobAsSpecified

\* In the server, whatever calls and shutdown do, a job keeps what module Job
\* promises of it: its statuses are honest, its stops are backed, its answers final,
\* and it lives the life of JobLifecycle.
THEOREM ServerJobsKeepTheirPromises ==
  SupSpec =>
     (/\ []StatusHonest
      /\ []DoneMeansCollected
      /\ []GracefulStopBacked
      /\ []OutputOutlivesReaders
      /\ []StopNeverWaits
      /\ []OnlyKilledLoseTheirDir
      /\ SignalsEscalate
      /\ AnswersFinalAfterDone
      /\ Lifecycle!SafeSpec)
  BY JobsAreUsedAsSpecified, StatusIsHonest, DoneIsHonest, StopIsBacked,
     ReadersKeepTheirOutput, StopDoesNotWait, DirOfKilledOnly, SignalsOnlyEscalate,
     AnswersAreFinal, Refinement, PTL
  DEF UsesJobAsSpecified

\* StopSupervisor cleans up no job that is still running: each one it has found in
\* the map has ended, and its wait goroutine has run to the end.
SweptHaveEnded ==
  pc[Shut] \in {"sweep", "sweeping"} =>
    \A j \in jobs : Completed(j) /\ done[j] /\ proc[j] = "collected"

\* This holds at every moment of the second loop.
THEOREM ShutdownSweepsEnded == SupSpec => []SweptHaveEnded
<1>1. SupInv => SweptHaveEnded
  <2> SUFFICES ASSUME SupInv, pc[Shut] \in {"sweep", "sweeping"}, NEW j \in jobs
               PROVE  Completed(j) /\ done[j] /\ proc[j] = "collected"
    BY DEF SweptHaveEnded
  <2>1. j \in Jobs /\ done[j]
    BY DEF SupInv, SupTypeOK, ShutdownOK
  <2>2. JobOK(j)
    BY <2>1 DEF SupInv, Inv, JobInv
  <2> QED
    BY <2>1, <2>2 DEF JobOK, DoneOK, ActiveOK, StoppingOK, Completed
<1> QED
  BY <1>1, SupInvariant, PTL

\* Types.
THEOREM SupTypeCorrect == SupSpec => []SupTypeOK
<1>1. SupInv => SupTypeOK
  BY DEF SupInv
<1> QED
  BY <1>1, SupInvariant, PTL

\* No job is lost, and none is in two hands.
THEOREM EveryJobIsKept == SupSpec => []OneKeeper
<1>1. SupInv => OneKeeper
  BY DEF SupInv, KeeperOK, OneKeeper
<1> QED
  BY <1>1, SupInvariant, PTL

\* No call under the supervisor's lock can meet a Cleanup that waits for readers,
\* and the shutdown does not wait for a `done' that nobody will close.
THEOREM NobodyWaits == SupSpec => []NobodyWaitsUnderLock
<1>1. ASSUME SupInv, NEW j \in jobs, lock[j] # NoThread
      PROVE  lock[j] = Shut /\ pc[Shut] = "sweeping" /\ rholders = {}
  <2>1. j \in Jobs /\ lock[j] \in Threads
    BY <1>1 DEF SupInv, SupTypeOK, TypeOK
  <2>2. CASE lock[j] = Shut
    BY <1>1, <2>1, <2>2 DEF SupInv, ShutdownOK, AloneOK
  <2>3. CASE lock[j] \in Servers
    <3>1. Holds(lock[j], j)
      BY <1>1, <2>1, <2>3 DEF SupInv, CallOK, Holds
    <3> QED
      BY <1>1, <2>1, <2>3, <3>1 DEF SupInv, KeeperOK
  <2> QED
    BY <2>1, <2>2, <2>3 DEF Servers
<1>2. ASSUME SupInv, pc[Shut] = "await", NEW j \in jobs, ~done[j]
      PROVE  handler[j] # "ZOMBIE" /\ proc[j] # "collected"
  <2>1. j \in Jobs
    BY <1>2 DEF SupInv, SupTypeOK
  <2>2. handler[j] # "ZOMBIE"
    BY <1>2, <2>1 DEF SupInv, UnsweptOK, Unswept, Kept
  <2> QED
    BY <1>2, <2>1, <2>2 DEF SupInv, Inv, JobInv, JobOK, DoneOK
<1>3. SupInv => NobodyWaitsUnderLock
  BY <1>1, <1>2 DEF NobodyWaitsUnderLock
<1> QED
  BY <1>3, SupInvariant, PTL

-----------------------------------------------------------------------------
(* Supervisor implements JobMap. *)

\* What a step of a job is in the eyes of the job API.
SameLife == UNCHANGED lifeSeen
Ends(j)  == lifeSeen[j] = "running" /\ lifeSeen' = [lifeSeen EXCEPT ![j] = "over"]
Goes(j)  == lifeSeen[j] = "over" /\ lifeSeen' = [lifeSeen EXCEPT ![j] = "removed"]

LEMMA SeenAt ==
  ASSUME NEW j \in Jobs
  PROVE  /\ lifeSeen[j] = IF proc[j] = "none" THEN "none"
                         ELSE CASE ~Completed(j)         -> "running"
                                [] handler[j] = "ZOMBIE" -> "removed"
                                [] OTHER                 -> "over"
         /\ lifeSeen'[j] = IF proc'[j] = "none" THEN "none"
                          ELSE CASE ~Completed(j)'         -> "running"
                                 [] handler'[j] = "ZOMBIE" -> "removed"
                                 [] OTHER                  -> "over"
  BY DEF lifeSeen

LEMMA SeenChange ==
  ASSUME NEW j \in Jobs, NEW v, lifeSeen'[j] = v,
         \A k \in Jobs : k # j => lifeSeen'[k] = lifeSeen[k]
  PROVE  lifeSeen' = [lifeSeen EXCEPT ![j] = v]
<1> DEFINE f == lifeSeen
           g == lifeSeen'
<1>1. f = [k \in Jobs |-> f[k]] /\ g = [k \in Jobs |-> g[k]]
  BY DEF lifeSeen
<1> HIDE DEF f, g
<1>2. g = [f EXCEPT ![j] = v]
  BY <1>1 DEF f, g
<1> QED
  BY <1>2 DEF f, g

LEMMA SeenNew ==
  ASSUME Inv, NEW j \in Jobs, New(j)
  PROVE  lifeSeen[j] = "none" /\ lifeSeen' = [lifeSeen EXCEPT ![j] = "running"]
<1>1. /\ proc[j] = "none" /\ proc' = [proc EXCEPT ![j] = "running"]
      /\ handler[j] = "ACTIVE" /\ handler' = handler
      /\ proc \in [Jobs -> ProcState]
  BY DEF New, Inv, TypeOK, JobInv, JobOK, FreshOK
<1>2. lifeSeen[j] = "none" /\ lifeSeen'[j] = "running"
  BY <1>1, SeenAt DEF Completed
<1>3. ASSUME NEW k \in Jobs, k # j PROVE lifeSeen'[k] = lifeSeen[k]
  BY <1>1, <1>3, SeenAt DEF Completed
<1> QED
  BY <1>2, <1>3, SeenChange

LEMMA SeenSame == ASSUME UNCHANGED <<proc, handler>> PROVE SameLife
  BY DEF SameLife, lifeSeen, Completed

LEMMA SeenInitStop == ASSUME Inv, NEW j \in Jobs, InitStop(j) PROVE SameLife
<1>1. proc' = proc /\ \A k \in Jobs : /\ Completed(k)' <=> Completed(k)
                                      /\ handler'[k] = "ZOMBIE" <=> handler[k] = "ZOMBIE"
  BY DEF Inv, TypeOK, InitStop, procVars, Completed
<1> QED
  BY <1>1 DEF SameLife, lifeSeen

LEMMA SeenForceStop ==
  ASSUME Inv, NEW j \in Jobs, Enter(j), ForceStop(j), UNCHANGED proc
  PROVE  SameLife \/ Ends(j)
<1> USE DEF Inv, TypeOK
<1>1. CASE UNCHANGED handler
  BY <1>1, SeenSame
<1>2. CASE ~Completed(j) /\ handler' = [handler EXCEPT ![j] = "STOPPED"]
  <2>1. lifeSeen[j] = "running" /\ lifeSeen'[j] = "over"
    BY <1>2, SeenAt DEF Completed, Enter
  <2>2. ASSUME NEW k \in Jobs, k # j PROVE lifeSeen'[k] = lifeSeen[k]
    BY <1>2, <2>2, SeenAt DEF Completed
  <2> QED
    BY <2>1, <2>2, SeenChange DEF Ends
<1> QED
  BY <1>1, <1>2 DEF ForceStop, SendKill, Completed

LEMMA SeenBackground ==
  ASSUME Inv, NEW j \in Jobs, Background(j) PROVE SameLife \/ Ends(j)
<1> USE DEF Inv, TypeOK
<1>1. CASE TimerFire(j)
  BY <1>1, SeenSame DEF TimerFire, procVars
<1>2. CASE TimerStop(j)
  BY <1>2, SeenForceStop DEF TimerStop, procVars
<1>3. ASSUME handler' = handler, \A k \in Jobs : proc'[k] = "none" <=> proc[k] = "none"
      PROVE  SameLife
  BY <1>3 DEF SameLife, lifeSeen, Completed
<1>4. CASE \E c \in ExitCodes \cup {NotExited} : ProcExit(j, c)
  BY <1>3, <1>4 DEF ProcExit
<1>5. CASE Reap(j)
  BY <1>3, <1>5 DEF Reap
<1>6. CASE Exited(j)
  <2>1. \A k \in Jobs : proc'[k] = "none" <=> proc[k] = "none"
    BY <1>6 DEF Exited
  <2>2. CASE handler[j] \in {"ACTIVE", "STOPPING"}
    <3>1. /\ handler'[j] \in {"ENDED", "STOPPED"} /\ proc[j] # "none"
          /\ \A k \in Jobs : k # j => handler'[k] = handler[k]
      BY <1>6, <2>2 DEF Exited, HandleExit
    <3>2. lifeSeen[j] = "running" /\ lifeSeen'[j] = "over"
      BY <2>1, <2>2, <3>1, SeenAt DEF Completed
    <3>3. ASSUME NEW k \in Jobs, k # j PROVE lifeSeen'[k] = lifeSeen[k]
      BY <2>1, <3>1, <3>3, SeenAt DEF Completed
    <3> QED
      BY <3>2, <3>3, SeenChange DEF Ends
  <2>3. CASE handler[j] \notin {"ACTIVE", "STOPPING"}
    BY <1>3, <1>6, <2>1, <2>3 DEF Exited, HandleExit
  <2> QED
    BY <2>2, <2>3
<1> QED
  BY <1>1, <1>2, <1>4, <1>5, <1>6 DEF Background

LEMMA SeenCleanup ==
  ASSUME Inv, NEW t \in Threads, NEW j \in Jobs, CleanupEnd(t, j)
  PROVE  \/ SameLife /\ handler'[j] # "ZOMBIE"
         \/ Goes(j) /\ handler'[j] = "ZOMBIE"
<1> USE DEF Inv, TypeOK
<1>1. handler[j] \in {"ENDED", "STOPPED"} /\ proc[j] # "none" /\ proc' = proc
  BY ConstantsOK
  DEF CleanupEnd, GuardedInv, GuardedOK, JobInv, JobOK, FreshOK, procVars
<1>2. CASE handler' = handler
  BY <1>1, <1>2, SeenSame
<1>3. CASE handler' = [handler EXCEPT ![j] = "ZOMBIE"]
  <2>1. lifeSeen[j] = "over" /\ lifeSeen'[j] = "removed"
    BY <1>1, <1>3, SeenAt DEF Completed
  <2>2. ASSUME NEW k \in Jobs, k # j PROVE lifeSeen'[k] = lifeSeen[k]
    BY <1>1, <1>3, <2>2, SeenAt DEF Completed
  <2> QED
    BY <1>3, <2>1, <2>2, SeenChange DEF Goes
<1> QED
  BY <1>2, <1>3 DEF CleanupEnd

\* Who holds a job is seen of it.
LEMMA HoldAt ==
  ASSUME NEW j \in Jobs
  PROVE  /\ holdSeen[j] = {t \in Servers : Holds(t, j)}
         /\ holdSeen'[j] = {t \in Servers : Holds(t, j)'}
  BY DEF holdSeen

LEMMA HoldChange ==
  ASSUME NEW j \in Jobs, NEW v, holdSeen'[j] = v,
         \A k \in Jobs : k # j => holdSeen'[k] = holdSeen[k]
  PROVE  holdSeen' = [holdSeen EXCEPT ![j] = v]
<1> DEFINE f == holdSeen
           g == holdSeen'
<1>1. f = [k \in Jobs |-> f[k]] /\ g = [k \in Jobs |-> g[k]]
  BY DEF holdSeen
<1> HIDE DEF f, g
<1>2. g = [f EXCEPT ![j] = v]
  BY <1>1 DEF f, g
<1> QED
  BY <1>2 DEF f, g

LEMMA HoldSame ==
  ASSUME \A t \in Servers, j \in Jobs : Holds(t, j)' <=> Holds(t, j)
  PROVE  holdSeen' = holdSeen
<1>1. \A j \in Jobs : {t \in Servers : Holds(t, j)'} = {t \in Servers : Holds(t, j)}
  OBVIOUS
<1> QED
  BY <1>1 DEF holdSeen

\* A call that takes a job is the only one that holds it, and no other changes.
LEMMA HoldTake ==
  ASSUME NEW t \in Servers, NEW j \in Jobs,
         \A u \in Servers : ~Holds(u, j), Holds(t, j)',
         \A u \in Servers, k \in Jobs : u # t \/ k # j => (Holds(u, k)' <=> Holds(u, k))
  PROVE  holdSeen' = [holdSeen EXCEPT ![j] = {t}]
<1>1. holdSeen'[j] = {t}
  BY HoldAt
<1>2. \A k \in Jobs : k # j => holdSeen'[k] = holdSeen[k]
  BY HoldAt
<1> QED
  BY <1>1, <1>2, HoldChange

LEMMA HoldDrop ==
  ASSUME NEW t \in Servers, NEW j \in Jobs,
         \A u \in Servers : Holds(u, j) => u = t, ~Holds(t, j)',
         \A u \in Servers, k \in Jobs : u # t \/ k # j => (Holds(u, k)' <=> Holds(u, k))
  PROVE  holdSeen' = [holdSeen EXCEPT ![j] = {}]
<1>1. holdSeen'[j] = {}
  BY HoldAt
<1>2. \A k \in Jobs : k # j => holdSeen'[k] = holdSeen[k]
  BY HoldAt
<1> QED
  BY <1>1, <1>2, HoldChange

\* Each step of the supervisor is one of the map's, or none.
LEMMA MapStep ==
  ASSUME SupInv, [SupNext]_allVars PROVE [Map!MapNext]_(Map!mapVars)
<1>t. /\ Inv /\ SupTypeOK /\ TypeOK /\ ShutdownOK
      /\ \A k \in Jobs : KeeperOK(k)
      /\ \A t \in Servers : CallOK(t)
      /\ \A t \in Servers : t \in Threads /\ t # Shut /\ arg[t] \in Jobs
      /\ Shut \in Threads
  BY ShutOK DEF SupInv, SupTypeOK, Servers
<1>p. /\ pc \in [Threads -> Label] /\ arg \in [Threads -> Jobs]
      /\ jobs \subseteq Jobs /\ todo \subseteq Jobs
  BY <1>t DEF SupTypeOK
\* The steps that leave the map and the hands alone ...
<1>s. ASSUME jobs' = jobs, pc'[Shut] # "idle" <=> pc[Shut] # "idle", SameLife,
             \A t \in Servers, k \in Jobs : Holds(t, k)' <=> Holds(t, k)
      PROVE  UNCHANGED Map!mapVars
  BY <1>s, HoldSame DEF Map!mapVars, SameLife
\* ... or only see a job end.
<1>e. ASSUME jobs' = jobs, pc'[Shut] # "idle" <=> pc[Shut] # "idle",
             NEW j \in Jobs, SameLife \/ Ends(j),
             \A t \in Servers, k \in Jobs : Holds(t, k)' <=> Holds(t, k)
      PROVE  [Map!MapNext]_(Map!mapVars)
  <2>1. CASE Ends(j)
    BY <1>e, <2>1, HoldSame DEF Ends, Map!MapNext, Map!Finish, Map!Become
  <2> QED
    BY <1>e, <1>s, <2>1
<1>v. UNCHANGED vars => SameLife
  BY SeenSame DEF vars, procVars
<1>1. CASE UNCHANGED allVars
  BY <1>1, <1>s, <1>v DEF allVars, supVars, Holds
<1>2. ASSUME NEW t \in Servers, NEW j \in Jobs, CreateJob(t, j)
      PROVE  Map!Create(t, j)
  <2>1. lifeSeen[j] = "none" /\ lifeSeen' = [lifeSeen EXCEPT ![j] = "running"]
    BY <1>2, <1>t, SeenNew DEF CreateJob
  <2>2. /\ proc[j] = "none" /\ pc[t] = "idle" /\ jobs' = jobs
        /\ pc' = [pc EXCEPT ![t] = "wantAdd"] /\ arg' = [arg EXCEPT ![t] = j]
    BY <1>2 DEF CreateJob, New, Call, Goto
  <2>3. holdSeen' = [holdSeen EXCEPT ![j] = {t}]
    <3>1. \A u \in Servers : ~Holds(u, j)
      BY <1>t, <2>2 DEF KeeperOK
    <3>2. Holds(t, j)' /\ \A u \in Servers, k \in Jobs :
            u # t \/ k # j => (Holds(u, k)' <=> Holds(u, k))
      BY <1>t, <1>p, <2>2 DEF Holds
    <3> QED
      BY <3>1, <3>2, HoldTake
  <2>4. pc'[Shut] = pc[Shut]
    BY <1>t, <1>p, <2>2
  <2> QED
    BY <2>1, <2>2, <2>3, <2>4 DEF Map!Create, Map!Become, Map!Take
<1>3. ASSUME NEW t \in Servers, NEW j \in Jobs,
             CallRemove(t, j) \/ \E o \in Ops : CallRead(t, j, o)
      PROVE  UNCHANGED Map!mapVars
  <2>1. /\ jobs' = jobs /\ UNCHANGED vars /\ pc[t] = "idle"
        /\ pc' = [pc EXCEPT ![t] = pc'[t]] /\ pc'[t] \in {"wantRemove", "wantRead"}
        /\ arg' = [arg EXCEPT ![t] = j]
    BY <1>3, <1>t, <1>p DEF CallRemove, CallRead, Call, Goto
  <2> QED
    BY <1>s, <1>t, <1>p, <1>v, <2>1 DEF Holds
<1>4. ASSUME NEW t \in Servers,
             \/ Lock(t, "wantAdd", "add") \/ Lock(t, "wantRemove", "remove")
             \/ RLock(t)
      PROVE  UNCHANGED Map!mapVars
  BY <1>s, <1>t, <1>p, <1>v, <1>4 DEF Lock, RLock, Goto, Holds
<1>5. ASSUME NEW t \in Servers, Add(t) PROVE Map!List(t, arg[t])
  <2>1. /\ pc[t] = "add" /\ jobs' = jobs \cup {arg[t]} /\ UNCHANGED vars
        /\ pc' = [pc EXCEPT ![t] = "idle"] /\ arg' = arg
    BY <1>5 DEF Add, Goto
  <2>2. holdSeen' = [holdSeen EXCEPT ![arg[t]] = {}]
    <3>1. \A u \in Servers : Holds(u, arg[t]) => u = t
      BY <1>t, <2>1 DEF KeeperOK, Holds
    <3>2. ~Holds(t, arg[t])' /\ \A u \in Servers, k \in Jobs :
            u # t \/ k # arg[t] => (Holds(u, k)' <=> Holds(u, k))
      BY <1>t, <1>p, <2>1 DEF Holds
    <3>3. arg[t] \in Jobs
      BY <1>t
    <3> QED
      BY <2>1, <3>1, <3>2, <3>3, HoldDrop
  <2>3. t \in holdSeen[arg[t]]
    BY <1>t, <2>1, HoldAt DEF Holds
  <2> QED
    BY <1>t, <1>p, <1>v, <2>1, <2>2, <2>3 DEF Map!List, Map!Drop, SameLife
<1>6. ASSUME NEW t \in Servers, Unlink(t)
      PROVE  Map!Unlink(t, arg[t]) \/ UNCHANGED Map!mapVars
  <2>1. pc[t] = "remove" /\ UNCHANGED vars /\ arg' = arg
    BY <1>6 DEF Unlink
  <2>2. CASE jobs' = jobs /\ Goto(t, "idle")
    BY <1>s, <1>t, <1>p, <1>v, <2>1, <2>2 DEF Goto, Holds
  <2>3. CASE /\ arg[t] \in jobs /\ Completed(arg[t]) /\ Goto(t, "clean")
             /\ jobs' = jobs \ {arg[t]}
    <3>1. lifeSeen[arg[t]] \in {"over", "removed"}
      BY <1>t, <2>3, SeenAt DEF KeeperOK
    <3>2. \A u \in Servers : ~Holds(u, arg[t])
      BY <1>t, <2>3 DEF KeeperOK
    <3>3. Holds(t, arg[t])' /\ \A u \in Servers, k \in Jobs :
            u # t \/ k # arg[t] => (Holds(u, k)' <=> Holds(u, k))
      BY <1>t, <1>p, <2>1, <2>3 DEF Holds, Goto
    <3>4. arg[t] \in Jobs
      BY <1>t
    <3>5. holdSeen' = [holdSeen EXCEPT ![arg[t]] = {t}]
      BY <2>1, <3>2, <3>3, <3>4, HoldTake
    <3> QED
      BY <1>t, <1>p, <1>v, <2>1, <2>3, <3>1, <3>5
      DEF Map!Unlink, Map!Take, SameLife, Goto
  <2> QED
    BY <1>6, <2>2, <2>3 DEF Unlink
<1>7. ASSUME NEW t \in Servers, Clean(t) PROVE UNCHANGED Map!mapVars
  <2>1. SameLife
    BY <1>7, <1>v, SeenSame DEF Clean, CleanupBegin, procVars
  <2> QED
    BY <1>7, <1>s, <1>t, <1>p, <2>1 DEF Clean, Goto, Holds
<1>8. ASSUME NEW t \in Servers, Cleaned(t)
      PROVE  Map!Purge(t, arg[t]) \/ UNCHANGED Map!mapVars
  <2>1. /\ pc[t] = "wait" /\ jobs' = jobs /\ arg' = arg /\ CleanupEnd(t, arg[t])
        /\ Goto(t, IF handler'[arg[t]] = "ZOMBIE" THEN "idle" ELSE "wantAdd")
    BY <1>8 DEF Cleaned
  <2>2. CASE SameLife /\ handler'[arg[t]] # "ZOMBIE"
    BY <1>s, <1>t, <1>p, <2>1, <2>2 DEF Goto, Holds
  <2>3. CASE Goes(arg[t]) /\ handler'[arg[t]] = "ZOMBIE"
    <3>1. \A u \in Servers : Holds(u, arg[t]) => u = t
      BY <1>t, <2>1 DEF KeeperOK, Holds
    <3>2. ~Holds(t, arg[t])' /\ \A u \in Servers, k \in Jobs :
            u # t \/ k # arg[t] => (Holds(u, k)' <=> Holds(u, k))
      BY <1>t, <1>p, <2>1, <2>3 DEF Holds, Goto
    <3>3. holdSeen' = [holdSeen EXCEPT ![arg[t]] = {}] /\ t \in holdSeen[arg[t]]
      BY <1>t, <2>1, <3>1, <3>2, HoldDrop, HoldAt DEF Holds
    <3> QED
      BY <1>t, <1>p, <2>1, <2>3, <3>3
      DEF Map!Purge, Map!Become, Map!Drop, Goes, Goto
  <2> QED
    BY <1>t, <2>1, <2>2, <2>3, SeenCleanup
<1>9. ASSUME NEW t \in Servers, ReadCall(t) PROVE [Map!MapNext]_(Map!mapVars)
  <2>1. SameLife \/ Ends(arg[t])
    BY <1>9, <1>t, <1>v, SeenInitStop, SeenForceStop, SeenSame
    DEF ReadCall, Refused, Granted, Stop, Logs, procVars
  <2> QED
    BY <1>9, <1>e, <1>t, <1>p, <2>1 DEF ReadCall, Goto, Holds
<1>10. ASSUME NEW j \in Jobs, JobStep(j) PROVE [Map!MapNext]_(Map!mapVars)
  <2>1. SameLife \/ Ends(j)
    BY <1>10, <1>t, SeenBackground, SeenSame DEF JobStep, CloseReader, procVars
  <2> QED
    BY <1>10, <1>e, <2>1 DEF JobStep, supVars, Holds
<1>11. CASE Interrupt
  <2>1. holdSeen' = holdSeen
    BY <1>11, <1>t, <1>p, HoldSame DEF Interrupt, Goto, Holds
  <2> QED
    BY <1>11, <1>t, <1>p, <1>v, <2>1
    DEF Interrupt, Goto, SameLife, Map!MapNext, Map!Shutdown
<1>12. CASE GracefulStop \/ ShutLock \/ ShutAwait
  BY <1>12, <1>s, <1>t, <1>p, <1>v DEF GracefulStop, ShutLock, ShutAwait, Goto, Holds
<1>13. CASE ShutInitStop
  <2>1. SameLife
    BY <1>13, <1>t, <1>p, <1>v, SeenInitStop DEF ShutInitStop
  <2> QED
    BY <1>13, <1>s, <1>t, <1>p, <2>1 DEF ShutInitStop, Goto, Holds
<1>14. CASE ShutSweep
  <2>1. SameLife
    BY <1>14, <1>v, SeenSame DEF ShutSweep, CleanupBegin, procVars
  <2> QED
    BY <1>14, <1>s, <1>t, <1>p, <2>1 DEF ShutSweep, Goto, Holds
<1>15. CASE ShutSwept
  <2>1. /\ pc[Shut] = "sweeping" /\ arg[Shut] \in jobs /\ jobs' = jobs /\ arg' = arg
        /\ pc' = [pc EXCEPT ![Shut] = "sweep"] /\ CleanupEnd(Shut, arg[Shut])
    BY <1>15, <1>t DEF ShutSwept, ShutdownOK, Goto
  <2>2. \A t \in Servers, k \in Jobs : Holds(t, k)' <=> Holds(t, k)
    BY <1>t, <1>p, <2>1 DEF Holds
  <2>3. SameLife \/ Goes(arg[Shut])
    BY <1>t, <1>p, <2>1, SeenCleanup
  <2>4. CASE Goes(arg[Shut])
    BY <1>t, <1>p, <2>1, <2>2, <2>4, HoldSame
    DEF Goes, Map!MapNext, Map!Sweep, Map!Become
  <2> QED
    BY <1>s, <1>p, <1>t, <2>1, <2>2, <2>3, <2>4
<1> QED
  BY <1>1, <1>2, <1>3, <1>4, <1>5, <1>6, <1>7, <1>8, <1>9, <1>10, <1>11, <1>12,
     <1>13, <1>14, <1>15, <1>t
  DEF SupNext, ShutStep, Arrive, Serve, Map!MapNext

\* What the job API is told of the jobs is what the abstract map tells, in every
\* interleaving of calls, locks, timers, readers and shutdown.
THEOREM ImplementsTheMap == SupSpec => ImplementsJobMap
<1>1. SupInit => Map!MapInit
  <2> SUFFICES ASSUME SupInit PROVE Map!MapInit
    OBVIOUS
  <2> USE ShutOK DEF SupInit, Init, Servers
  <2>1. lifeSeen = [j \in Jobs |-> "none"]
    BY DEF lifeSeen
  <2>2. holdSeen = [j \in Jobs |-> {}]
    BY DEF holdSeen, Holds
  <2> QED
    BY <2>1, <2>2 DEF Map!MapInit
<1>2. SupInv /\ [SupNext]_allVars => [Map!MapNext]_(Map!mapVars)
  BY MapStep
<1> QED
  BY <1>1, <1>2, SupInvariant, PTL DEF SupSpec, ImplementsJobMap, Map!MapSpec

-----------------------------------------------------------------------------
\* What JobMapProofs shows of the map holds of the supervisor.
Proved == INSTANCE JobMapProofs WITH
            Threads <- Servers, listed <- jobs, life <- lifeSeen, hold <- holdSeen,
            closing <- pc[Shut] # "idle"

\* Two instances of one module see the same variables ...
LEMMA SameMapVars ==
  Map!mapVars = Proved!mapVars /\ (Map!mapVars)' = (Proved!mapVars)'
  BY DEF Map!mapVars, Proved!mapVars

\* ... and allow the same behaviours.
LEMMA ImplementsProvedMap == SupSpec => Proved!MapSpec
<1>1. Map!MapInit => Proved!MapInit
  BY DEF Map!MapInit, Proved!MapInit
<1>2. [Map!MapNext]_(Map!mapVars) => [Proved!MapNext]_(Proved!mapVars)
  <2>1. Map!MapNext => Proved!MapNext
    BY Zenon
    DEF Map!MapNext, Proved!MapNext, Map!Create, Proved!Create, Map!List,
        Proved!List, Map!Unlink, Proved!Unlink, Map!Purge, Proved!Purge, Map!Finish,
        Proved!Finish, Map!Sweep, Proved!Sweep, Map!Shutdown, Proved!Shutdown,
        Map!Become, Proved!Become, Map!Take, Proved!Take, Map!Drop, Proved!Drop
  <2> QED
    BY <2>1, SameMapVars
<1> QED
  BY <1>1, <1>2, ImplementsTheMap, PTL
  DEF ImplementsJobMap, Map!MapSpec, Proved!MapSpec

\* A job of the supervisor runs once and is removed once: a Start, a Remove that
\* puts a job back and a shutdown never bring one to life again.
THEOREM JobsLiveOnce ==
  SupSpec => [][\A j \in Jobs : Proved!Aged(j)]_(Map!mapVars)
<1>1. [\A j \in Jobs : Proved!Aged(j)]_(Proved!mapVars)
         => [\A j \in Jobs : Proved!Aged(j)]_(Map!mapVars)
  BY SameMapVars
<1> QED
  BY <1>1, ImplementsProvedMap, Proved!LivesGoOnward, PTL

\* A job whose Remove is over is out of reach for ever: no late Start, failed
\* Remove or shutdown finds it.
THEOREM RemovedStaysAway ==
  SupSpec =>
    [][\A j \in Jobs : Proved!Forgotten(j) => Proved!Forgotten(j)']_(Map!mapVars)
<1>1. [\A j \in Jobs : Proved!Forgotten(j) => Proved!Forgotten(j)']_(Proved!mapVars)
         => [\A j \in Jobs : Proved!Forgotten(j) => Proved!Forgotten(j)']_(Map!mapVars)
  BY SameMapVars
<1> QED
  BY <1>1, ImplementsProvedMap, Proved!ForgottenForEver, PTL
=============================================================================
