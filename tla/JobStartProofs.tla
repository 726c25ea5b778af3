---------------------------- MODULE JobStartProofs ----------------------------
(***************************************************************************)
(* Proofs about module JobStart.  Two processes that only share a pipe are *)
(* tied together by it: as long as New reads, what it may conclude depends *)
(* on who still has the write end, so the invariant says where the ends    *)
(* are and what has been done by then.                                     *)
(***************************************************************************)
EXTENDS JobStart, TLAPS

\* The shim is past its set-up.
Ready == {"close", "prctl", "notify", "exec", "select", "orphans"}

\* New has done what comes before the place where it is ...
NewOK ==
  /\ pc \in {"create", "cgroup", "pipe", "start", "read", "undo", "ok"} =>
       dir = "present"
  /\ pc = "failed" => dir # "present"
  /\ pc \in {"pipe", "start", "read", "ok"} => cg = {"outer", "inner"}
  /\ pc \in {"dirs", "create", "cgroup", "pipe", "start"} => shim = "none"
  /\ pc \in {"read", "ok"} => shim # "none"
  /\ shim # "none" => cg = {"outer", "inner"}

\* ... and its ends of the pipe: it keeps the write end only if no shim was
\* started, and has seen it closed when it succeeds.
PipeOK ==
  /\ "r" \in fds => pc \in {"start", "read", "undo"}
  /\ "w" \in fds => shim = "none"
  /\ shimFd <=> shim \in {"setup", "close"}
  /\ pc = "ok" => ~shimFd /\ ~report

\* The shim reports an error only if it ends before its set-up is complete.
ShimOK ==
  /\ shim = "none" => ~report /\ target = "none"
  /\ shim \in Ready => did = Setup
  /\ report => shim = "exited" /\ target = "none"

\* The target is started after the set-up, and nothing of it outlives the shim.
TargetOK ==
  /\ target # "none" => did = Setup /\ shim \in {"select", "orphans", "exited"}
  /\ target = "running" => shim = "select"
  /\ orphans => shim \in {"select", "orphans"}

StartInv == TypeOK /\ NewOK /\ PipeOK /\ ShimOK /\ TargetOK

\* The invariant holds before New has done anything.
LEMMA InitOK == Init => StartInv
  BY DEF Init, StartInv, TypeOK, NewState, ShimState, Setup, NewOK, PipeOK, ShimOK,
         Ready, TargetOK

\* Whatever ends the shim, it ends as the invariant says: only an error of its
\* set-up leaves a report, and New still waits then.
LEMMA ExitStep ==
  ASSUME StartInv, Alive, Exit, UNCHANGED <<newVars, did>>,
         UNCHANGED report \/ (shim = "setup" /\ report' = TRUE),
         hup' \in BOOLEAN, term' \in {"none", "sent", "passed"}
  PROVE  StartInv'
<1> USE DEF StartInv, Alive, Exit, newVars
<1>1. TypeOK'
  BY DEF TypeOK, ShimState
<1>2. NewOK'
  BY DEF NewOK
<1>3. PipeOK'
  BY DEF PipeOK
<1>4. ShimOK'
  BY DEF ShimOK, TargetOK, Ready
<1>5. TargetOK'
  BY DEF TargetOK
<1> QED
  BY <1>1, <1>2, <1>3, <1>4, <1>5

\* New's own steps, in the server.
LEMMA NewKeeps == ASSUME StartInv, NewStep \/ ReadFails PROVE StartInv'
<1> USE DEF StartInv, NewOK, PipeOK, ShimOK, TargetOK
<1>1. ASSUME UNCHANGED childVars, TypeOK' PROVE ShimOK' /\ TargetOK'
  BY <1>1 DEF childVars, pipeVars, jobVars
<1>2. TypeOK'
  <2> USE DEF childVars, pipeVars, jobVars, TypeOK, NewState
  <2>1. CASE InitDirs
    BY <2>1 DEF InitDirs
  <2>2. CASE CreateOutput
    BY <2>2 DEF CreateOutput
  <2>3. CASE SetupCgroup
    BY <2>3 DEF SetupCgroup
  <2>4. CASE OpenPipe
    BY <2>4 DEF OpenPipe
  <2>5. CASE StartShim
    BY <2>5 DEF StartShim, ShimState
  <2>6. CASE ReadReport \/ ReadFails \/ Undo
    BY <2>6 DEF ReadReport, ReadFails, Undo
  <2> QED
    BY <2>1, <2>2, <2>3, <2>4, <2>5, <2>6 DEF NewStep
<1> USE <1>1, <1>2
<1>3. CASE InitDirs
  BY <1>3 DEF InitDirs, childVars, pipeVars
<1>4. CASE CreateOutput
  BY <1>4 DEF CreateOutput, childVars, pipeVars
<1>5. CASE SetupCgroup
  BY <1>5 DEF SetupCgroup, childVars, pipeVars
<1>6. CASE OpenPipe
  BY <1>6 DEF OpenPipe, childVars, pipeVars
<1>7. CASE StartShim
  BY <1>7 DEF StartShim, jobVars, Ready
<1>8. CASE ReadReport \/ ReadFails
  BY <1>8 DEF ReadReport, ReadFails, childVars, pipeVars
<1>9. CASE Undo
  BY <1>9 DEF Undo, childVars, pipeVars
<1> QED
  BY <1>3, <1>4, <1>5, <1>6, <1>7, <1>8, <1>9 DEF NewStep

\* The shim's steps: either it goes on, or it ends.
LEMMA ShimKeeps == ASSUME StartInv, Shim PROVE StartInv'
<1> USE DEF StartInv, newVars, pipeVars, jobVars
<1>1. CASE SetupProc
  <2>1. CASE report' = TRUE /\ Exit /\ UNCHANGED did
    BY <1>1, <2>1, ExitStep DEF SetupProc, Alive, TypeOK
  <2>2. CASE /\ did' \subseteq Setup
             /\ shim' = IF did' = Setup THEN "close" ELSE "setup"
             /\ UNCHANGED <<pipeVars, jobVars>>
    BY <1>1, <2>2 DEF SetupProc, TypeOK, ShimState, NewOK, PipeOK, ShimOK, Ready,
       TargetOK
  <2>3. {"proc"} \subseteq Setup /\ {"proc", "cgroup"} \subseteq Setup
    BY DEF Setup
  <2> QED
    BY <1>1, <2>1, <2>2, <2>3 DEF SetupProc
<1>2. CASE ClosePipe
  BY <1>2 DEF ClosePipe, TypeOK, ShimState, NewOK, PipeOK, ShimOK, Ready, TargetOK
<1>3. CASE Prctl
  <2>1. CASE Exit
    BY <1>3, <2>1, ExitStep DEF Prctl, Alive, TypeOK
  <2>2. CASE shim' = "notify" /\ UNCHANGED <<shimFd, jobVars>>
    BY <1>3, <2>2 DEF Prctl, TypeOK, ShimState, NewOK, PipeOK, ShimOK, Ready,
       TargetOK
  <2> QED
    BY <1>3, <2>1, <2>2 DEF Prctl
<1>4. CASE Notify
  BY <1>4 DEF Notify, TypeOK, ShimState, NewOK, PipeOK, ShimOK, Ready, TargetOK
<1>5. CASE StartTarget
  BY <1>5 DEF StartTarget, TypeOK, ShimState, NewOK, PipeOK, ShimOK, Ready, TargetOK
<1>6. CASE SelectDone
  BY <1>6 DEF SelectDone, TypeOK, ShimState, NewOK, PipeOK, ShimOK, Ready, TargetOK
<1>7. CASE SelectHup
  BY <1>7, ExitStep DEF SelectHup, Alive, TypeOK
<1>8. CASE SelectTerm
  <2>1. CASE Exit
    BY <1>8, <2>1, ExitStep DEF SelectTerm, Alive, TypeOK
  <2>2. CASE UNCHANGED <<shim, shimFd, jobVars>>
    BY <1>8, <2>2 DEF SelectTerm, TypeOK, NewOK, PipeOK, ShimOK, TargetOK
  <2> QED
    BY <1>8, <2>1, <2>2 DEF SelectTerm
<1>9. CASE ShimDone
  BY <1>9, ExitStep DEF ShimDone, Alive, TypeOK
<1> QED
  BY <1>1, <1>2, <1>3, <1>4, <1>5, <1>6, <1>7, <1>8, <1>9 DEF Shim

\* What happens to both from outside.
LEMMA OutsideKeeps ==
  ASSUME StartInv, Fork \/ TargetEnds \/ OrphansEnd \/ SendTerm \/ Kill \/ Crash
  PROVE  StartInv'
<1> USE DEF StartInv, newVars, pipeVars, jobVars
<1>1. CASE Fork \/ TargetEnds \/ OrphansEnd
  <2>1. UNCHANGED <<newVars, shim, pipeVars, did, hup, term>>
    BY <1>1 DEF Fork, TargetEnds, OrphansEnd
  <2>2. NewOK' /\ PipeOK'
    BY <2>1 DEF NewOK, PipeOK
  <2>3. CASE Fork
    BY <2>1, <2>2, <2>3 DEF Fork, TypeOK, ShimOK, TargetOK
  <2>4. CASE TargetEnds
    BY <2>1, <2>2, <2>4 DEF TargetEnds, TypeOK, ShimOK, TargetOK
  <2>5. CASE OrphansEnd
    <3>1. UNCHANGED target /\ orphans' = FALSE
      BY <2>5 DEF OrphansEnd
    <3>2. TypeOK'
      BY <2>1, <3>1 DEF TypeOK
    <3>3. ShimOK' /\ TargetOK'
      BY <2>1, <3>1 DEF ShimOK, TargetOK
    <3> QED
      BY <2>2, <3>2, <3>3
  <2> QED
    BY <1>1, <2>3, <2>4, <2>5
<1>2. CASE SendTerm
  <2>1. CASE Exit
    BY <1>2, <2>1, ExitStep DEF SendTerm, TypeOK
  <2>2. CASE UNCHANGED <<shim, shimFd, jobVars>>
    BY <1>2, <2>2 DEF SendTerm, TypeOK, NewOK, PipeOK, ShimOK, TargetOK
  <2> QED
    BY <1>2, <2>1, <2>2 DEF SendTerm
<1>3. CASE Kill
  BY <1>3, ExitStep DEF Kill, TypeOK
<1>4. CASE Crash
  <2>1. CASE UNCHANGED <<shim, shimFd, jobVars>>
    <3>1. /\ UNCHANGED <<dir, cg, shim, shimFd, report, did, term, target, orphans>>
          /\ pc' = "down" /\ fds' = {} /\ hup' \in BOOLEAN
      BY <1>4, <2>1 DEF Crash, TypeOK
    <3>2. TypeOK'
      BY <3>1 DEF TypeOK, NewState
    <3>3. NewOK' /\ PipeOK' /\ ShimOK' /\ TargetOK'
      BY <3>1 DEF NewOK, PipeOK, ShimOK, TargetOK
    <3> QED
      BY <3>2, <3>3
  <2>2. CASE shim = "notify" /\ Exit /\ UNCHANGED hup
    BY <1>4, <2>2 DEF Crash, Exit, TypeOK, NewState, ShimState, NewOK, PipeOK,
       ShimOK, Ready, TargetOK
  <2> QED
    BY <1>4, <2>1, <2>2 DEF Crash
<1> QED
  BY <1>1, <1>2, <1>3, <1>4

-----------------------------------------------------------------------------
\* However the two processes' steps mix, whatever fails and whoever is killed, the
\* places the two have reached fit together.
THEOREM Invariant == Spec => []StartInv
<1>1. StartInv /\ [Next]_vars => StartInv'
  <2>1. StartInv /\ UNCHANGED vars => StartInv'
    BY DEF StartInv, TypeOK, NewOK, PipeOK, ShimOK, TargetOK, vars, newVars,
           pipeVars, jobVars
  <2> QED
    BY <2>1, NewKeeps, ShimKeeps, OutsideKeeps DEF Next
<1> QED
  BY InitOK, <1>1, PTL DEF Spec

\* The variables keep their types.
THEOREM TypeCorrect == Spec => []TypeOK
<1>1. StartInv => TypeOK
  BY DEF StartInv
<1> QED
  BY <1>1, Invariant, PTL

\* The target runs in its cgroup and without the server's privileges, and never
\* once an error was reported.
THEOREM TargetIsConfined == Spec => []TargetConfined
<1>1. StartInv => TargetConfined
  BY DEF StartInv, ShimOK, TargetOK, TargetConfined
<1> QED
  BY <1>1, Invariant, PTL

\* A New that has returned a job has returned one that is set up.
THEOREM SuccessMeansReady == Spec => []OkMeansReady
<1>1. StartInv => OkMeansReady
  BY DEF StartInv, TypeOK, ShimState, NewOK, PipeOK, ShimOK, Ready, Alive,
         OkMeansReady
<1> QED
  BY <1>1, Invariant, PTL

\* A New that has failed leaves what it is known to leave, and no more.
THEOREM FailureIsUndone == Spec => []UndoneOnFailure
<1>1. StartInv => UndoneOnFailure
  BY DEF StartInv, NewOK, PipeOK, UndoneOnFailure
<1> QED
  BY <1>1, Invariant, PTL

\* While New reads, the only write end is that of a shim in its set-up or about to
\* close it: New can wait for nobody else, which is why it always returns.
NewWaitsForTheShim ==
  pc = "read" => /\ "w" \notin fds
                 /\ shimFd => shim \in {"setup", "close"}

\* New never reads from a pipe that anybody else, the server included, keeps open.
THEOREM OnlyTheShimIsWaitedFor == Spec => []NewWaitsForTheShim
<1>1. StartInv => NewWaitsForTheShim
  BY DEF StartInv, NewOK, PipeOK, NewWaitsForTheShim
<1> QED
  BY <1>1, Invariant, PTL

\* When the shim has ended, so has all that ran under it, and nothing starts again:
\* this is what lets module Job speak of a job's process where there are many.
EndIsFinal ==
  shim = "exited" => /\ target # "running" /\ ~orphans /\ ~shimFd
                     /\ UNCHANGED <<shim, shimFd, report, did, target, orphans>>

\* No step, of New, the target or the kernel, changes what has ended.
LEMMA EndStep == ASSUME StartInv, [Next]_vars, shim = "exited" PROVE EndIsFinal
<1>1. target # "running" /\ ~orphans /\ ~shimFd
  BY DEF StartInv, TargetOK, PipeOK
<1>2. UNCHANGED <<shim, shimFd, report, did, target, orphans>>
  <2>1. CASE UNCHANGED vars
    BY <2>1 DEF vars, pipeVars, jobVars
  <2>2. CASE NewStep \/ ReadFails
    BY <2>2 DEF NewStep, ReadFails, InitDirs, CreateOutput, SetupCgroup, OpenPipe,
       StartShim, ReadReport, Undo, childVars, pipeVars, jobVars, StartInv, NewOK
  <2>3. CASE Shim
    BY <2>3 DEF Shim, SetupProc, ClosePipe, Prctl, Notify, StartTarget, SelectDone,
       SelectHup, SelectTerm, ShimDone
  <2>4. CASE Fork \/ TargetEnds \/ OrphansEnd \/ SendTerm \/ Kill
    BY <1>1, <2>4 DEF Fork, TargetEnds, OrphansEnd, SendTerm, Kill, Alive
  <2>5. CASE Crash
    BY <2>5 DEF Crash, jobVars
  <2> QED
    BY <2>1, <2>2, <2>3, <2>4, <2>5 DEF Next
<1> QED
  BY <1>1, <1>2 DEF EndIsFinal

\* The end of the shim is the end of the job's processes.
THEOREM NothingOutlivesTheShim == Spec => [][EndIsFinal]_vars
<1>1. StartInv /\ [Next]_vars => [EndIsFinal]_vars
  BY EndStep DEF EndIsFinal
<1> QED
  BY <1>1, Invariant, PTL DEF Spec
=============================================================================
