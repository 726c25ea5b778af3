-------------------------- MODULE LogStreamProofs --------------------------
(***************************************************************************)
(* Proofs about module LogStream, for any numbers of jobs and streams and  *)
(* any size of output.                                                     *)
(***************************************************************************)
EXTENDS LogStream, JobProofs

\* Where a stream is, and what it has read by then.
PlaceOK(r) ==
  /\ base[r] <= size[target[r]]
  /\ pc[r] = "select" => off[r] >= base[r]
  /\ reply[r] # "none" => pc[r] \in {"close", "returned"}
PlainOK(r) ==
  reply[r] = "ok" /\ options[r] = "plain" /\ err[r] # "failed" => off[r] >= base[r]
FollowOK(r) ==
  reply[r] = "ok" /\ options[r] = "follow" => done[target[r]]

StreamInv ==
  /\ Inv
  /\ StreamTypeOK
  /\ CountedReadersAreLive
  /\ \A r \in Readers : PlaceOK(r) /\ PlainOK(r) /\ FollowOK(r)

-----------------------------------------------------------------------------
\* A job of LogStream takes the steps of module Job.
LEMMA StreamJobStep ==
  ASSUME StreamTypeOK, [StreamNext]_allVars PROVE [Next]_vars
<1>1. CASE UNCHANGED allVars
  BY <1>1 DEF allVars
<1>2. ASSUME NEW j \in Jobs, JobStep(j) \/ Write(j) PROVE [Next]_vars
  BY <1>2 DEF JobStep, Write, Next
<1>3. ASSUME NEW r \in Readers, Open(r) PROVE [Next]_vars
  BY <1>3 DEF Open, StreamTypeOK, Next, ReaderStep
<1>4. ASSUME NEW r \in Readers, Return(r) PROVE [Next]_vars
  BY <1>4 DEF Return, StreamTypeOK, Next, ReaderStep
<1>5. ASSUME NEW r \in Readers,
             Cancel(r) \/ Loop(r) \/ ReadFile(r) \/ Select(r) \/ Send(r)
      PROVE  UNCHANGED vars
  BY <1>5 DEF Cancel, Loop, ReadFile, Select, Send
<1> QED
  BY <1>1, <1>2, <1>3, <1>4, <1>5 DEF StreamNext, Serve

\* Steps of a job that are not a reader's leave the readers alone.
LEMMA OwnStepOpen ==
  ASSUME NEW j \in Jobs, OwnStep(j) \/ CleanupCompleted(j) PROVE open' = open
  BY DEF OwnStep, Background, CleanupCompleted, New, InitStop, Stop, CleanupBegin,
         CleanupEnd, TimerFire, TimerStop, ProcExit, Reap, Exited

-----------------------------------------------------------------------------
\* Before the first call nothing is open and nothing is written.
LEMMA StreamInitOK == StreamInit => StreamInv
<1> SUFFICES ASSUME StreamInit PROVE StreamInv
  OBVIOUS
<1> USE MaxOutputOK DEF StreamInit
<1>1. Inv
  BY InitOK DEF Inv
<1>2. StreamTypeOK
  BY <1>1 DEF Inv, StreamTypeOK, PcState
<1>3. CountedReadersAreLive
  BY DEF Init, CountedReadersAreLive, Active
<1>4. ASSUME NEW r \in Readers PROVE PlaceOK(r) /\ PlainOK(r) /\ FollowOK(r)
  BY DEF PlaceOK, PlainOK, FollowOK
<1> QED
  BY <1>1, <1>2, <1>3, <1>4 DEF StreamInv

\* Every step keeps the types.
LEMMA StreamTypeStep ==
  ASSUME StreamInv, [StreamNext]_allVars PROVE StreamTypeOK'
<1>1. TypeOK'
  BY StreamJobStep, SpecStep, TypeStep DEF StreamInv, StreamTypeOK
<1> USE <1>1, MaxOutputOK
        DEF StreamInv, StreamTypeOK, PcState, Goto, ReturnWith
<1>2. CASE UNCHANGED allVars
  BY <1>2 DEF allVars, streamVars, rpcVars
<1>3. ASSUME NEW j \in Jobs, JobStep(j) PROVE StreamTypeOK'
  BY <1>3 DEF JobStep, streamVars, rpcVars
<1>4. ASSUME NEW j \in Jobs, Write(j) PROVE StreamTypeOK'
  BY <1>4 DEF Write, rpcVars
<1>5. ASSUME NEW r \in Readers, Open(r) PROVE StreamTypeOK'
  BY <1>5 DEF Open
<1>6. ASSUME NEW r \in Readers, Cancel(r) PROVE StreamTypeOK'
  BY <1>6 DEF Cancel
<1>7. ASSUME NEW r \in Readers, Loop(r) PROVE StreamTypeOK'
  BY <1>7 DEF Loop
<1>8. ASSUME NEW r \in Readers, ReadFile(r) PROVE StreamTypeOK'
  BY <1>8 DEF ReadFile
<1>9. ASSUME NEW r \in Readers, Select(r) PROVE StreamTypeOK'
  BY <1>9 DEF Select, EndOfFile
<1>10. ASSUME NEW r \in Readers, Send(r) PROVE StreamTypeOK'
  BY <1>10 DEF Send
<1>11. ASSUME NEW r \in Readers, Return(r) PROVE StreamTypeOK'
  BY <1>11 DEF Return
<1> HIDE DEF StreamInv, StreamTypeOK
<1> QED
  BY <1>2, <1>3, <1>4, <1>5, <1>6, <1>7, <1>8, <1>9, <1>10, <1>11
  DEF StreamNext, Serve

\* Every way into and out of the loop counts the reader.
LEMMA CountStep ==
  ASSUME StreamInv, [StreamNext]_allVars PROVE CountedReadersAreLive'
<1> SUFFICES ASSUME NEW k \in Jobs
             PROVE  open'[k] = {r \in Readers : Active(r)' /\ target'[r] = k}
  BY DEF CountedReadersAreLive
<1> DEFINE Goal == open'[k] = {r \in Readers : Active(r)' /\ target'[r] = k}
<1>0. open[k] = {r \in Readers : Active(r) /\ target[r] = k}
  BY DEF StreamInv, CountedReadersAreLive
<1>t. /\ open \in [Jobs -> SUBSET Readers]
      /\ target \in [Readers -> Jobs]
      /\ pc \in [Readers -> PcState]
  BY DEF StreamInv, StreamTypeOK, TypeOK
<1> USE <1>0, <1>t DEF Active
<1>1. CASE UNCHANGED allVars
  BY <1>1 DEF allVars, vars, streamVars, rpcVars
<1>2. ASSUME NEW j \in Jobs, JobStep(j) PROVE Goal
  BY <1>2, OwnStepOpen DEF JobStep, streamVars, rpcVars
<1>3. ASSUME NEW j \in Jobs, Write(j) PROVE Goal
  BY <1>3 DEF Write, vars, rpcVars
<1>4. ASSUME NEW r \in Readers, Open(r) PROVE Goal
  BY <1>4 DEF Open, Logs, Goto
<1>5. ASSUME NEW r \in Readers, Cancel(r) PROVE Goal
  BY <1>5 DEF Cancel, vars
<1>6. ASSUME NEW r \in Readers, Loop(r) \/ ReadFile(r) \/ Select(r) \/ Send(r)
      PROVE  Goal
  <2>1. open' = open /\ target' = target
    BY <1>6 DEF Loop, ReadFile, Select, Send, vars
  <2>2. PICK l \in PcState \ {"idle", "returned"} : pc' = [pc EXCEPT ![r] = l]
    BY <1>6 DEF Loop, ReadFile, Select, Send, Goto, ReturnWith, PcState
  <2>3. pc[r] \notin {"idle", "returned"}
    BY <1>6 DEF Loop, ReadFile, Select, Send
  <2> QED
    BY <2>1, <2>2, <2>3
<1>7. ASSUME NEW r \in Readers, Return(r) PROVE Goal
  BY <1>7 DEF Return, CloseReader, Goto
<1> QED
  BY <1>1, <1>2, <1>3, <1>4, <1>5, <1>6, <1>7 DEF StreamNext, Serve

\* What a stream has read, and what it says at its end, stays true: the output
\* only grows, and what is done stays done.
LEMMA PlaceStep ==
  ASSUME StreamInv, [StreamNext]_allVars, NEW k \in Readers
  PROVE  PlaceOK(k)' /\ PlainOK(k)' /\ FollowOK(k)'
<1> DEFINE Goal == PlaceOK(k)' /\ PlainOK(k)' /\ FollowOK(k)'
<1>0. done[target[k]] => done'[target[k]]
  BY StreamJobStep, DoneStays DEF StreamInv, StreamTypeOK
<1>t. /\ StreamTypeOK /\ PlaceOK(k) /\ PlainOK(k) /\ FollowOK(k)
      /\ size[target[k]] \in Nat /\ base[k] \in Nat /\ off[k] \in Nat
  BY MaxOutputOK DEF StreamInv, StreamTypeOK
<1> USE <1>0, <1>t, MaxOutputOK
        DEF StreamTypeOK, PlaceOK, PlainOK, FollowOK, Goto, ReturnWith
<1>1. CASE UNCHANGED allVars
  BY <1>1 DEF allVars, streamVars, rpcVars
<1>2. ASSUME NEW j \in Jobs, JobStep(j) PROVE Goal
  BY <1>2 DEF JobStep, streamVars, rpcVars
<1>3. ASSUME NEW j \in Jobs, Write(j) PROVE Goal
  BY <1>3 DEF Write, rpcVars
<1>4. ASSUME NEW r \in Readers, Open(r) PROVE Goal
  BY <1>4 DEF Open
<1>5. ASSUME NEW r \in Readers, Cancel(r) PROVE Goal
  BY <1>5 DEF Cancel
<1>6. ASSUME NEW r \in Readers, Loop(r) PROVE Goal
  BY <1>6 DEF Loop
<1>7. ASSUME NEW r \in Readers, ReadFile(r) PROVE Goal
  BY <1>7 DEF ReadFile
<1>8. ASSUME NEW r \in Readers, Select(r) PROVE Goal
  BY <1>8 DEF Select, EndOfFile
<1>9. ASSUME NEW r \in Readers, Send(r) PROVE Goal
  BY <1>9 DEF Send
<1>10. ASSUME NEW r \in Readers, Return(r) PROVE Goal
  BY <1>10 DEF Return
<1> HIDE DEF StreamTypeOK, PlaceOK, PlainOK, FollowOK
<1> QED
  BY <1>1, <1>2, <1>3, <1>4, <1>5, <1>6, <1>7, <1>8, <1>9, <1>10
  DEF StreamNext, Serve

-----------------------------------------------------------------------------
\* The invariant of the job and of its streams together.
THEOREM StreamInvariant == StreamSpec => []StreamInv
<1>1. StreamInv /\ [StreamNext]_allVars => StreamInv'
  <2> SUFFICES ASSUME StreamInv, [StreamNext]_allVars PROVE StreamInv'
    OBVIOUS
  <2>1. Inv'
    BY StreamJobStep, SpecStep, TypeStep, JobInvStep, GuardedStep
    DEF StreamInv, Inv
  <2> QED
    BY <2>1, StreamTypeStep, CountStep, PlaceStep DEF StreamInv
<1> QED
  BY StreamInitOK, <1>1, PTL DEF StreamSpec

\* A log stream uses the job as module Job says, so that the theorems about Job
\* hold of a job whose output is streamed.
THEOREM StreamsUseJob == StreamSpec => Spec
<1>1. StreamInit => Init
  BY DEF StreamInit
<1>2. StreamInv /\ [StreamNext]_allVars => [Next]_vars
  BY StreamJobStep DEF StreamInv
<1> QED
  BY <1>1, <1>2, StreamInvariant, PTL DEF StreamSpec, Spec

\* Types.
THEOREM StreamTypeCorrect == StreamSpec => []StreamTypeOK
<1>1. StreamInv => StreamTypeOK
  BY DEF StreamInv
<1> QED
  BY <1>1, StreamInvariant, PTL

\* No path out of the loop of Logs forgets its reader, or closes it twice.
THEOREM ReadersAreCounted == StreamSpec => []CountedReadersAreLive
<1>1. StreamInv => CountedReadersAreLive
  BY DEF StreamInv
<1> QED
  BY <1>1, StreamInvariant, PTL

\* No stream without -f that ends well has missed what was there at its start.
THEOREM PlainIsComplete == StreamSpec => []PlainStreamComplete
<1>1. StreamInv => PlainStreamComplete
  BY DEF StreamInv, PlainOK, PlainStreamComplete
<1> QED
  BY <1>1, StreamInvariant, PTL

\* No follow stream ends well before its job is done.
THEOREM FollowedToTheEnd == StreamSpec => []FollowEndsWithJob
<1>1. StreamInv => FollowEndsWithJob
  BY DEF StreamInv, FollowOK, FollowEndsWithJob
<1> QED
  BY <1>1, StreamInvariant, PTL

\* While its output is streamed, a job keeps what module Job promises of it.
THEOREM StreamedJobsKeepTheirPromises ==
  StreamSpec =>
     (/\ []StatusHonest
      /\ []DoneMeansCollected
      /\ []GracefulStopBacked
      /\ []OutputOutlivesReaders
      /\ []StopNeverWaits
      /\ []OnlyKilledLoseTheirDir
      /\ SignalsEscalate
      /\ AnswersFinalAfterDone
      /\ Lifecycle!SafeSpec)
  BY StreamsUseJob, StatusIsHonest, DoneIsHonest, StopIsBacked, ReadersKeepTheirOutput,
     StopDoesNotWait, DirOfKilledOnly, SignalsOnlyEscalate, AnswersAreFinal,
     Refinement, PTL
=============================================================================
