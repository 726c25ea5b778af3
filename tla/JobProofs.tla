------------------------------ MODULE JobProofs ------------------------------
(***************************************************************************)
(* Proofs about module Job, for any sets of jobs, goroutines and readers.  *)
(***************************************************************************)
EXTENDS Job, TLAPS

\* A stop by force leaves its three variables what they are.
LEMMA ForceStopTypes ==
  ASSUME TypeOK, NEW j \in Jobs, ForceStop(j)
  PROVE  /\ handler' \in [Jobs -> Status]
         /\ sig' \in [Jobs -> {"none", "term", "kill"}]
         /\ armed' \in [Jobs -> BOOLEAN]
<1>1. handler' \in [Jobs -> Status] /\ sig' \in [Jobs -> {"none", "term", "kill"}]
  BY DEF TypeOK, Status, ForceStop, SendKill
<1>2. armed' \in [Jobs -> BOOLEAN]
  BY DEF TypeOK, ForceStop
<1> QED
  BY <1>1, <1>2

\* Every step of the package keeps the types, and what a job's parts say of each
\* other.
LEMMA TypeStep == TypeOK /\ [LibNext]_vars => TypeOK'
<1> SUFFICES ASSUME TypeOK, [LibNext]_vars PROVE TypeOK'
  OBVIOUS
<1> USE ConstantsOK DEF TypeOK, Status, ProcState, NotExited
<1>1. CASE UNCHANGED vars
  BY <1>1 DEF vars, stopVars, procVars, diskVars
<1>2. ASSUME NEW j \in Jobs, New(j) PROVE TypeOK'
  BY <1>2 DEF New, stopVars
<1>3. ASSUME NEW j \in Jobs, InitStop(j) PROVE TypeOK'
  BY <1>3 DEF InitStop, procVars, diskVars
<1>4. ASSUME NEW j \in Jobs, Stop(j) PROVE TypeOK'
  BY <1>4, ForceStopTypes DEF Stop, procVars, diskVars
<1>5. ASSUME NEW j \in Jobs, TimerFire(j) PROVE TypeOK'
  BY <1>5 DEF TimerFire, procVars, diskVars
<1>6. ASSUME NEW j \in Jobs, TimerStop(j) PROVE TypeOK'
  BY <1>6, ForceStopTypes DEF TimerStop, procVars, diskVars
<1>7. ASSUME NEW j \in Jobs, NEW r \in Readers, Logs(r, j) PROVE TypeOK'
  BY <1>7 DEF Logs, stopVars, procVars, diskVars
<1>8. ASSUME NEW j \in Jobs, NEW r \in Readers, CloseReader(r, j) PROVE TypeOK'
  BY <1>8 DEF CloseReader, stopVars, procVars, diskVars
<1>9. ASSUME NEW j \in Jobs, NEW t \in Threads, CleanupBegin(t, j) PROVE TypeOK'
  BY <1>9 DEF CleanupBegin, stopVars, procVars, diskVars
<1>10. ASSUME NEW j \in Jobs, NEW t \in Threads, CleanupEnd(t, j) PROVE TypeOK'
  BY <1>10 DEF CleanupEnd, stopVars, procVars
<1>11. ASSUME NEW j \in Jobs, NEW c \in ExitCodes \cup {NotExited}, ProcExit(j, c)
       PROVE TypeOK'
  BY <1>11 DEF ProcExit, stopVars, diskVars
<1>12. ASSUME NEW j \in Jobs, Reap(j) PROVE TypeOK'
  BY <1>12 DEF Reap, stopVars, diskVars
<1>13. ASSUME NEW j \in Jobs, Exited(j) PROVE TypeOK'
  BY <1>13 DEF Exited, HandleExit, CloseDone
<1> QED
  BY <1>1, <1>2, <1>3, <1>4, <1>5, <1>6, <1>7, <1>8, <1>9, <1>10, <1>11, <1>12,
     <1>13 DEF LibNext, OwnStep, Background, ReaderStep

LEMMA JobInvStep == TypeOK /\ JobInv /\ [LibNext]_vars => JobInv'
<1> SUFFICES ASSUME TypeOK, JobInv, [LibNext]_vars, NEW k \in Jobs
             PROVE  JobOK(k)'
  BY DEF JobInv
<1> USE ConstantsOK DEF TypeOK, JobInv, JobOK, FreshOK, ActiveOK, StoppingOK,
                        StoppedOK, EndedOK, ZombieOK, DoneOK, Signalable
<1>1. CASE UNCHANGED vars
  BY <1>1 DEF vars, stopVars, procVars, diskVars
<1>2. ASSUME NEW j \in Jobs, New(j) PROVE JobOK(k)'
  BY <1>2 DEF New, stopVars
<1>3. ASSUME NEW j \in Jobs, InitStop(j) PROVE JobOK(k)'
  BY <1>3 DEF InitStop, Enter, procVars, diskVars
<1>4. ASSUME NEW j \in Jobs, Stop(j) PROVE JobOK(k)'
  BY <1>4 DEF Stop, ForceStop, SendKill, Completed, Enter, procVars, diskVars
<1>5. ASSUME NEW j \in Jobs, TimerFire(j) PROVE JobOK(k)'
  BY <1>5 DEF TimerFire, procVars, diskVars
<1>6. ASSUME NEW j \in Jobs, TimerStop(j) PROVE JobOK(k)'
  BY <1>6 DEF TimerStop, ForceStop, SendKill, Completed, Enter, procVars, diskVars
<1>7. ASSUME NEW j \in Jobs, NEW r \in Readers, Logs(r, j) PROVE JobOK(k)'
  BY <1>7 DEF Logs, Enter, stopVars, procVars, diskVars
<1>8. ASSUME NEW j \in Jobs, NEW r \in Readers, CloseReader(r, j) PROVE JobOK(k)'
  BY <1>8 DEF CloseReader, stopVars, procVars, diskVars
<1>9. ASSUME NEW j \in Jobs, NEW t \in Threads, CleanupBegin(t, j) PROVE JobOK(k)'
  BY <1>9 DEF CleanupBegin, Enter, stopVars, procVars, diskVars
<1>10. ASSUME NEW j \in Jobs, NEW t \in Threads, CleanupEnd(t, j) PROVE JobOK(k)'
  BY <1>10 DEF CleanupEnd, ReadersGone, stopVars, procVars
<1>11. ASSUME NEW j \in Jobs, NEW c \in ExitCodes \cup {NotExited}, ProcExit(j, c)
       PROVE JobOK(k)'
  BY <1>11 DEF ProcExit, stopVars, diskVars
<1>12. ASSUME NEW j \in Jobs, Reap(j) PROVE JobOK(k)'
  BY <1>12 DEF Reap, stopVars, diskVars
<1>13. ASSUME NEW j \in Jobs, Exited(j) PROVE JobOK(k)'
  BY <1>13 DEF Exited, HandleExit, CloseDone, Enter
<1> QED
  BY <1>1, <1>2, <1>3, <1>4, <1>5, <1>6, <1>7, <1>8, <1>9, <1>10, <1>11, <1>12,
     <1>13 DEF LibNext, OwnStep, Background, ReaderStep

LEMMA InitOK == Init => TypeOK /\ JobInv /\ GuardedInv
  BY ConstantsOK
  DEF Init, TypeOK, Status, NotExited, ProcState, JobInv, JobOK, FreshOK,
      ActiveOK, StoppingOK, StoppedOK, EndedOK, ZombieOK, DoneOK, GuardedInv,
      GuardedOK, Completed

LEMMA SpecStep == [Next]_vars => [LibNext]_vars
  BY DEF Next, LibNext, CleanupCompleted

-----------------------------------------------------------------------------
(* The package, used in any order. *)

\* The inductive invariant of the package holds however its methods are called:
\* Cleanup need not wait for the job to be completed.
THEOREM LibInvariant == LibSpec => [](TypeOK /\ JobInv)
<1>1. Init => TypeOK /\ JobInv
  BY InitOK
<1>2. TypeOK /\ JobInv /\ [LibNext]_vars => (TypeOK /\ JobInv)'
  BY TypeStep, JobInvStep
<1> QED
  BY <1>1, <1>2, PTL DEF LibSpec

\* The status of a job never lies about its process, `done' is closed exactly
\* when exited() has run, a graceful stop has its timer, and no output is
\* removed under a reader.
LEMMA JobInvSafe ==
  JobInv => /\ StatusHonest
            /\ DoneMeansCollected
            /\ GracefulStopBacked
            /\ OutputOutlivesReaders
<1> SUFFICES ASSUME JobInv
             PROVE  /\ StatusHonest
                    /\ DoneMeansCollected
                    /\ GracefulStopBacked
                    /\ OutputOutlivesReaders
  OBVIOUS
<1> USE DEF JobInv, JobOK
<1>1. StatusHonest
  BY DEF StatusHonest, ActiveOK, StoppingOK, StoppedOK, EndedOK
<1>2. DoneMeansCollected
  BY DEF DoneMeansCollected, DoneOK
<1>3. GracefulStopBacked
  BY DEF GracefulStopBacked, StoppingOK
<1>4. OutputOutlivesReaders
  BY DEF OutputOutlivesReaders, ZombieOK
<1> QED
  BY <1>1, <1>2, <1>3, <1>4

THEOREM LibSafe ==
  LibSpec => [](/\ StatusHonest
                /\ DoneMeansCollected
                /\ GracefulStopBacked
                /\ OutputOutlivesReaders)
  BY LibInvariant, JobInvSafe, PTL

-----------------------------------------------------------------------------
(* The package as the supervisor uses it: Cleanup of completed jobs only. *)

LEMMA GuardedStep == TypeOK /\ JobInv /\ GuardedInv /\ [Next]_vars => GuardedInv'
<1> SUFFICES ASSUME TypeOK, JobInv, GuardedInv, [Next]_vars, NEW k \in Jobs
             PROVE  GuardedOK(k)'
  BY DEF GuardedInv
<1> USE ConstantsOK DEF TypeOK, GuardedInv, GuardedOK, Completed
<1>1. CASE UNCHANGED vars
  BY <1>1 DEF vars, stopVars, procVars, diskVars
<1>2. ASSUME NEW j \in Jobs, New(j) PROVE GuardedOK(k)'
  BY <1>2 DEF New, stopVars, JobInv, JobOK, FreshOK
<1>3. ASSUME NEW j \in Jobs, InitStop(j) PROVE GuardedOK(k)'
  BY <1>3 DEF InitStop, Enter, procVars, diskVars
<1>4. ASSUME NEW j \in Jobs, Stop(j) PROVE GuardedOK(k)'
  BY <1>4 DEF Stop, ForceStop, SendKill, Enter, procVars, diskVars
<1>5. ASSUME NEW j \in Jobs, TimerFire(j) PROVE GuardedOK(k)'
  BY <1>5 DEF TimerFire, procVars, diskVars
<1>6. ASSUME NEW j \in Jobs, TimerStop(j) PROVE GuardedOK(k)'
  BY <1>6 DEF TimerStop, ForceStop, SendKill, Enter, procVars, diskVars
<1>7. ASSUME NEW j \in Jobs, NEW r \in Readers, Logs(r, j) PROVE GuardedOK(k)'
  BY <1>7 DEF Logs, stopVars, procVars, diskVars
<1>8. ASSUME NEW j \in Jobs, NEW r \in Readers, CloseReader(r, j)
      PROVE GuardedOK(k)'
  BY <1>8 DEF CloseReader, stopVars, procVars, diskVars
<1>9. ASSUME NEW j \in Jobs, CleanupCompleted(j) PROVE GuardedOK(k)'
  BY <1>9 DEF CleanupCompleted, CleanupBegin, Status, stopVars, procVars, diskVars
<1>10. ASSUME NEW j \in Jobs, NEW t \in Threads, CleanupEnd(t, j)
       PROVE GuardedOK(k)'
  BY <1>10 DEF CleanupEnd, stopVars, procVars
<1>11. ASSUME NEW j \in Jobs, NEW c \in ExitCodes \cup {NotExited}, ProcExit(j, c)
       PROVE GuardedOK(k)'
  BY <1>11 DEF ProcExit, stopVars, diskVars
<1>12. ASSUME NEW j \in Jobs, Reap(j) PROVE GuardedOK(k)'
  BY <1>12 DEF Reap, stopVars, diskVars
<1>13. ASSUME NEW j \in Jobs, Exited(j) PROVE GuardedOK(k)'
  BY <1>13 DEF Exited, HandleExit, Enter
<1> QED
  BY <1>1, <1>2, <1>3, <1>4, <1>5, <1>6, <1>7, <1>8, <1>9, <1>10, <1>11, <1>12,
     <1>13 DEF Next, OwnStep, Background, ReaderStep

\* `done' is never opened again.
LEMMA DoneStays ==
  ASSUME TypeOK, [Next]_vars, NEW k \in Jobs, done[k] PROVE done'[k]
<1>1. CASE UNCHANGED vars
  BY <1>1 DEF vars
<1>2. ASSUME NEW j \in Jobs, Exited(j) PROVE done'[k]
  BY <1>2 DEF Exited, HandleExit, CloseDone, TypeOK
<1>3. ASSUME NEW j \in Jobs, OwnStep(j) \/ ReaderStep(j) \/ CleanupCompleted(j),
             ~Exited(j)
      PROVE  done' = done
  BY <1>3 DEF OwnStep, Background, ReaderStep, CleanupCompleted, New, InitStop,
     Stop, Logs, CloseReader, CleanupBegin, CleanupEnd, TimerFire, TimerStop,
     ProcExit, Reap
<1> QED
  BY <1>1, <1>2, <1>3 DEF Next

\* A job that is completed stays so.
LEMMA CompletedStays ==
  ASSUME TypeOK, [Next]_vars, NEW k \in Jobs, Completed(k) PROVE Completed(k)'
<1> USE DEF Completed, TypeOK, Status
<1>1. CASE UNCHANGED vars
  BY <1>1 DEF vars
<1>2. ASSUME NEW j \in Jobs, OwnStep(j) PROVE Completed(k)'
  BY <1>2 DEF OwnStep, Background, New, InitStop, Stop, ForceStop, SendKill,
     TimerFire, TimerStop, CleanupEnd, ProcExit, Reap, Exited, HandleExit
<1>3. ASSUME NEW j \in Jobs, ReaderStep(j) \/ CleanupCompleted(j)
      PROVE  handler' = handler
  BY <1>3 DEF ReaderStep, CleanupCompleted, Logs, CloseReader, CleanupBegin
<1> QED
  BY <1>1, <1>2, <1>3 DEF Next

Inv == TypeOK /\ JobInv /\ GuardedInv

THEOREM Invariant == Spec => []Inv
<1>1. Init => Inv
  BY InitOK DEF Inv
<1>2. Inv /\ [Next]_vars => Inv'
  BY TypeStep, JobInvStep, GuardedStep, SpecStep DEF Inv
<1> QED
  BY <1>1, <1>2, PTL DEF Spec

\* Types.
THEOREM TypeCorrect == Spec => []TypeOK
  BY Invariant, PTL DEF Inv

\* No status lies about the process.
THEOREM StatusIsHonest == Spec => []StatusHonest
  BY Invariant, JobInvSafe, PTL DEF Inv

\* The channel `done' is closed once, by exited(), and by nothing else.
THEOREM DoneIsHonest == Spec => []DoneMeansCollected
  BY Invariant, JobInvSafe, PTL DEF Inv

\* No output is removed under a reader.
THEOREM ReadersKeepTheirOutput == Spec => []OutputOutlivesReaders
  BY Invariant, JobInvSafe, PTL DEF Inv

\* No graceful stop is left without its timer.
THEOREM StopIsBacked == Spec => []GracefulStopBacked
  BY Invariant, JobInvSafe, PTL DEF Inv

\* Nobody waits with the lock of a job that can still be stopped.
THEOREM StopDoesNotWait == Spec => []StopNeverWaits
<1>1. GuardedInv => StopNeverWaits
  BY DEF GuardedInv, GuardedOK, StopNeverWaits
<1> QED
  BY <1>1, Invariant, PTL DEF Inv

\* A running process that has lost its directory has been sent SIGKILL.
THEOREM DirOfKilledOnly == Spec => []OnlyKilledLoseTheirDir
<1>1. Inv => OnlyKilledLoseTheirDir
  BY DEF Inv, TypeOK, JobInv, JobOK, FreshOK, GuardedInv, GuardedOK,
         OnlyKilledLoseTheirDir
<1> QED
  BY <1>1, Invariant, PTL

-----------------------------------------------------------------------------
(* What a step may never do. *)

\* An invariant of a step may be used for a step property.
LEMMA SignalStep ==
  ASSUME Inv, [Next]_vars, NEW k \in Jobs, sig'[k] # sig[k]
  PROVE  /\ Signalable(k)
         /\ handler[k] \in {"ACTIVE", "STOPPING"}
         /\ sig'[k] = "term" => sig[k] = "none"
<1> USE DEF Inv, TypeOK, JobInv, JobOK, ActiveOK
<1>1. PICK j \in Jobs : InitStop(j) \/ Stop(j) \/ TimerStop(j)
  BY DEF Next, OwnStep, Background, ReaderStep, CleanupCompleted, vars, stopVars, New,
         TimerFire, Logs, CloseReader, CleanupBegin, CleanupEnd, ProcExit, Reap,
         Exited
<1>2. CASE InitStop(j)
  BY <1>2 DEF InitStop
<1>3. CASE Stop(j) \/ TimerStop(j)
  BY <1>3 DEF Stop, TimerStop, ForceStop, SendKill
<1> QED
  BY <1>1, <1>2, <1>3

\* A signal is sent only to a process that can get it, of a job that has not
\* been stopped yet, and SIGTERM never follows another signal.
THEOREM SignalsOnlyEscalate == Spec => SignalsEscalate
<1>1. Inv /\ [Next]_vars =>
        [\A j \in Jobs :
           sig'[j] # sig[j] => /\ Signalable(j)
                               /\ handler[j] \in {"ACTIVE", "STOPPING"}
                               /\ sig'[j] = "term" => sig[j] = "none"]_vars
  BY SignalStep
<1> QED
  BY <1>1, Invariant, PTL DEF Spec, SignalsEscalate

\* A job whose `done' is closed is in one of three states, and a step leaves it
\* there, or removes it.
LEMMA FinalStep ==
  ASSUME Inv, [Next]_vars, NEW k \in Jobs, done[k], handler'[k] # "ZOMBIE"
  PROVE  /\ UNCHANGED <<handler[k], sig[k], done[k]>>
         /\ StatusReplies(k)' = StatusReplies(k)
<1>1. proc[k] = "collected" /\ handler[k] # "ACTIVE" /\ handler[k] # "STOPPING"
  BY DEF Inv, JobInv, JobOK, ActiveOK, StoppingOK, DoneOK
<1>2. Completed(k)
  BY <1>1 DEF Completed
<1>3. UNCHANGED <<handler[k], sig[k], done[k], proc[k], exit[k]>>
  <2> USE <1>1, <1>2 DEF Inv, TypeOK, Signalable, Completed
  <2>1. CASE UNCHANGED vars
    BY <2>1 DEF vars, stopVars, procVars
  <2>2. ASSUME NEW j \in Jobs, OwnStep(j)
        PROVE  UNCHANGED <<handler[k], sig[k], done[k], proc[k], exit[k]>>
    <3>1. CASE New(j)
      BY <3>1 DEF New, stopVars
    <3>2. CASE InitStop(j)
      BY <3>2 DEF InitStop, procVars
    <3>3. CASE Stop(j)
      BY <3>3 DEF Stop, ForceStop, SendKill, procVars
    <3>4. CASE TimerFire(j)
      BY <3>4 DEF TimerFire, procVars
    <3>5. CASE TimerStop(j)
      BY <3>5 DEF TimerStop, ForceStop, SendKill, procVars
    <3>6. ASSUME NEW t \in Threads, CleanupEnd(t, j)
          PROVE  UNCHANGED <<handler[k], sig[k], done[k], proc[k], exit[k]>>
      BY <3>6 DEF CleanupEnd, stopVars, procVars
    <3>7. ASSUME NEW c \in ExitCodes \cup {NotExited}, ProcExit(j, c)
          PROVE  UNCHANGED <<handler[k], sig[k], done[k], proc[k], exit[k]>>
      BY <3>7 DEF ProcExit, stopVars
    <3>8. CASE Reap(j)
      BY <3>8 DEF Reap, stopVars
    <3>9. CASE Exited(j)
      BY <3>9 DEF Exited, HandleExit, CloseDone
    <3> QED
      BY <2>2, <3>1, <3>2, <3>3, <3>4, <3>5, <3>6, <3>7, <3>8, <3>9 DEF OwnStep, Background
  <2>3. ASSUME NEW j \in Jobs, ReaderStep(j) \/ CleanupCompleted(j)
        PROVE  UNCHANGED <<handler[k], sig[k], done[k], proc[k], exit[k]>>
    BY <2>3 DEF ReaderStep, CleanupCompleted, Logs, CloseReader, CleanupBegin,
                stopVars, procVars
  <2> QED
    BY <2>1, <2>2, <2>3 DEF Next
<1> QED
  BY <1>1, <1>2, <1>3 DEF StatusReplies, ExitCodeSeen, Completed

\* What Status says once `done' is closed stays so until the job is removed.
THEOREM AnswersAreFinal == Spec => AnswersFinalAfterDone
<1>1. Inv /\ [Next]_vars =>
        [\A j \in Jobs :
           done[j] /\ handler'[j] # "ZOMBIE" =>
             /\ UNCHANGED <<handler[j], sig[j], done[j]>>
             /\ StatusReplies(j)' = StatusReplies(j)]_vars
  BY FinalStep
<1> QED
  BY <1>1, Invariant, PTL DEF Spec, AnswersFinalAfterDone

\* What Completed() and the channel `done' have said once stays true: who asks under
\* one lock may act on the answer after it has let go of it, as Remove does.
THEOREM CompletedIsFinal ==
  Spec => [][\A j \in Jobs : /\ Completed(j) => Completed(j)'
                             /\ done[j] => done'[j]]_vars
<1>1. Inv /\ [Next]_vars =>
        [\A j \in Jobs : /\ Completed(j) => Completed(j)'
                         /\ done[j] => done'[j]]_vars
  BY CompletedStays, DoneStays DEF Inv
<1> QED
  BY <1>1, Invariant, PTL DEF Spec

-----------------------------------------------------------------------------
(* Job implements JobLifecycle (the safety part; StopEnds is left to TLC).   *)

\* A step that leaves handler and proc alone is a stutter of the abstract job.
LEMMA LifeStutter ==
  ASSUME UNCHANGED <<handler, proc>>
  PROVE  UNCHANGED Lifecycle!vars
  BY DEF Lifecycle!vars, lifeStatus, lifeOver

LEMMA LifecycleStep ==
  ASSUME Inv, [Next]_vars
  PROVE  [Lifecycle!Next]_(Lifecycle!vars)
<1> USE DEF Inv, TypeOK, lifeStatus, lifeOver
<1>1. CASE UNCHANGED vars
  BY <1>1, LifeStutter DEF vars, procVars
<1>2. ASSUME NEW j \in Jobs, New(j) PROVE Lifecycle!Start(j)
  BY <1>2 DEF New, Lifecycle!Start, Lifecycle!Become, JobInv, JobOK, FreshOK
<1>3. ASSUME NEW j \in Jobs, InitStop(j)
      PROVE  Lifecycle!AskStop(j) \/ UNCHANGED Lifecycle!vars
  <2>1. UNCHANGED proc /\ proc[j] # "none" /\ handler[j] = "ACTIVE"
    BY <1>3 DEF InitStop, Enter, procVars
  <2>2. CASE Signalable(j)
    <3>1. handler' = [handler EXCEPT ![j] = "STOPPING"]
      BY <1>3, <2>2 DEF InitStop
    <3> QED
      BY <2>1, <3>1 DEF Lifecycle!AskStop, Lifecycle!Become
  <2>3. CASE ~Signalable(j)
    BY <1>3, <2>1, <2>3, LifeStutter DEF InitStop
  <2> QED
    BY <2>2, <2>3
<1>4. ASSUME NEW j \in Jobs, Enter(j), ForceStop(j), UNCHANGED proc
      PROVE  Lifecycle!Kill(j) \/ UNCHANGED Lifecycle!vars
  <2>1. \/ UNCHANGED handler
        \/ /\ proc[j] # "none" /\ handler[j] \in {"ACTIVE", "STOPPING"}
           /\ handler' = [handler EXCEPT ![j] = "STOPPED"]
    BY <1>4 DEF Enter, ForceStop, SendKill
  <2>2. CASE UNCHANGED handler
    BY <1>4, <2>2, LifeStutter
  <2>3. CASE handler' = [handler EXCEPT ![j] = "STOPPED"]
    BY <1>4, <2>1, <2>3, LifeStutter DEF Lifecycle!Kill, Lifecycle!Become,
       Lifecycle!Running
  <2> QED
    BY <2>1, <2>2, <2>3
<1>5. ASSUME NEW j \in Jobs, NEW t \in Threads, CleanupEnd(t, j)
      PROVE  Lifecycle!Remove(j) \/ UNCHANGED Lifecycle!vars
  BY <1>5, ConstantsOK DEF CleanupEnd, procVars, GuardedInv, GuardedOK, JobInv,
     JobOK, FreshOK, Lifecycle!Remove, Lifecycle!Become, Lifecycle!vars
<1>6. ASSUME NEW j \in Jobs, NEW c \in ExitCodes \cup {NotExited}, ProcExit(j, c)
      PROVE  UNCHANGED Lifecycle!vars
  BY <1>6 DEF ProcExit, Lifecycle!vars
<1>7. ASSUME NEW j \in Jobs, Reap(j) PROVE UNCHANGED Lifecycle!vars
  BY <1>7 DEF Reap, Lifecycle!vars
<1>8. ASSUME NEW j \in Jobs, Exited(j) PROVE Lifecycle!Finish(j)
  BY <1>8 DEF Exited, HandleExit, Lifecycle!Finish, Lifecycle!Become,
              Lifecycle!Running, JobInv, JobOK, EndedOK
<1>9. ASSUME NEW j \in Jobs, TimerFire(j) \/ ReaderStep(j) \/ CleanupCompleted(j)
      PROVE  UNCHANGED Lifecycle!vars
  BY <1>9, LifeStutter DEF TimerFire, ReaderStep, CleanupCompleted, Logs,
     CloseReader, CleanupBegin, procVars
<1> HIDE DEF Inv, TypeOK, lifeStatus, lifeOver
<1> QED
  BY <1>1, <1>2, <1>3, <1>4, <1>5, <1>6, <1>7, <1>8, <1>9
  DEF Next, OwnStep, Background, Stop, TimerStop, procVars, Lifecycle!Next

\* Every behaviour of a job, stops, timers, cleanups and readers in any order, is
\* a behaviour of the abstract life of a job.
THEOREM Refinement == Spec => Lifecycle!SafeSpec
<1>1. Init => Lifecycle!Init
  <2> SUFFICES ASSUME Init PROVE Lifecycle!Init
    OBVIOUS
  <2>1. lifeStatus = [j \in Jobs |-> "NEW"]
    BY DEF Init, lifeStatus
  <2>2. \A j \in Jobs : (proc[j] = "collected") = FALSE
    BY DEF Init
  <2>3. lifeOver = [j \in Jobs |-> FALSE]
    BY <2>2, Zenon DEF lifeOver
  <2> QED
    BY <2>1, <2>3 DEF Lifecycle!Init
<1>2. Inv /\ [Next]_vars => [Lifecycle!Next]_(Lifecycle!vars)
  BY LifecycleStep
<1> QED
  BY <1>1, <1>2, Invariant, PTL DEF Spec, Lifecycle!SafeSpec
=============================================================================
