--------------------------------- MODULE Job ---------------------------------
(***************************************************************************)
(* One job of the job server: pkg/job.  A Job object is a five-state       *)
(* machine behind a mutex (stateLock), shared by                           *)
(*   - API goroutines, which call InitStop, Stop, Cleanup, Logs, Status;   *)
(*   - the goroutine New starts, which waits for the process and then      *)
(*     calls exited();                                                     *)
(*   - the callback of the graceful-stop timer, which calls Stop;          *)
(*   - log readers, which touch the job through the channel `done' and the *)
(*     wait group outLock only, never through the mutex.                   *)
(*                                                                         *)
(* Every method but one runs to its end while it holds stateLock and waits *)
(* for nothing, so it is one action.  The exception is Cleanup, which      *)
(* blocks in outLock.Wait() with stateLock held: it is two actions, and    *)
(* the variable lock shows who is between them.  A call that returns an    *)
(* error without a state change is a stuttering step.                      *)
(***************************************************************************)
EXTENDS Integers

CONSTANTS
  Jobs,       \* the jobs that can be created
  Threads,    \* the goroutines that call Cleanup
  Readers,    \* the log readers (outputReader objects, reused once closed)
  ExitCodes,  \* the codes a process may exit with of its own accord
  NoThread    \* stateLock is not held across a wait

ASSUME ConstantsOK == NoThread \notin Threads /\ ExitCodes \subseteq 0..255

VARIABLES
  handler,    \* Job.handler, by the status it stands for
  lock,       \* the Cleanup call that holds stateLock while it waits
  sig,        \* the strongest signal the job process was sent
  armed,      \* stopTimer is running
  fired,      \* a stopTimer callback has started and waits for stateLock
  proc,       \* the process, and how far the goroutine of New got with it
  exit,       \* the code the process exited with
  done,       \* Job.done is closed
  open,       \* the open log readers: outLock counts them
  dir,        \* the job directory: working directory and output
  cgroup      \* the job's cgroup exists

stopVars == <<sig, armed, fired>>
procVars == <<proc, exit>>
diskVars == <<dir, cgroup>>
vars == <<handler, lock, stopVars, procVars, done, open, diskVars>>

Status    == {"ACTIVE", "ENDED", "STOPPING", "STOPPED", "ZOMBIE"}
\* "none": New has not returned yet.  "exited": the kernel keeps the dead
\* process, nobody has waited for it.  "reaped": cmd.Wait has it, a further
\* Process.Signal fails.  "collected": exited() has run.
ProcState == {"none", "running", "exited", "reaped", "collected"}
NotExited == -1     \* ExitCode() of a nil ProcessState, or of a killed process

TypeOK ==
  /\ handler \in [Jobs -> Status]
  /\ lock \in [Jobs -> Threads \cup {NoThread}]
  /\ sig \in [Jobs -> {"none", "term", "kill"}]
  /\ armed \in [Jobs -> BOOLEAN]
  /\ fired \in [Jobs -> BOOLEAN]
  /\ proc \in [Jobs -> ProcState]
  /\ exit \in [Jobs -> ExitCodes \cup {NotExited}]
  /\ done \in [Jobs -> BOOLEAN]
  /\ open \in [Jobs -> SUBSET Readers]
  /\ dir \in [Jobs -> {"absent", "present", "damaged", "removed"}]
  /\ cgroup \in [Jobs -> BOOLEAN]

Init ==
  /\ handler = [j \in Jobs |-> "ACTIVE"]
  /\ lock    = [j \in Jobs |-> NoThread]
  /\ sig     = [j \in Jobs |-> "none"]
  /\ armed   = [j \in Jobs |-> FALSE]
  /\ fired   = [j \in Jobs |-> FALSE]
  /\ proc    = [j \in Jobs |-> "none"]
  /\ exit    = [j \in Jobs |-> NotExited]
  /\ done    = [j \in Jobs |-> FALSE]
  /\ open    = [j \in Jobs |-> {}]
  /\ dir     = [j \in Jobs |-> "absent"]
  /\ cgroup  = [j \in Jobs |-> FALSE]

-----------------------------------------------------------------------------
(* What the methods look at. *)

\* A caller holds a *Job, and gets its mutex.
Enter(j) == proc[j] # "none" /\ lock[j] = NoThread

\* os.Process.Signal succeeds until the process has been waited for: a signal
\* to a dead process nobody has reaped is lost without an error.
Signalable(j) == proc[j] \in {"running", "exited"}

\* Mutant: only a job that is ACTIVE counts as running.
CompletedOnceStopping(j) == handler[j] # "ACTIVE"

\* Job.Completed().
Completed(j) == handler[j] \notin {"ACTIVE", "STOPPING"}

\* The answers Job.Status() can give.  cmd.Wait writes cmd.ProcessState without
\* stateLock; until exited() has passed through the lock, Status may read the
\* old value or the new one.
ExitCodeSeen(j) ==
  CASE proc[j] = "collected" -> {exit[j]}
    [] proc[j] = "reaped"    -> {exit[j], NotExited}
    [] OTHER                 -> {NotExited}
StatusReplies(j) ==
  {handler[j]} \X (IF Completed(j) THEN ExitCodeSeen(j) ELSE {0})

\* Mutant: doCleanup does not wait for the readers.
ReadersForgotten(j) == TRUE

\* outLock.Wait() returns.
ReadersGone(j) == open[j] = {}

-----------------------------------------------------------------------------
(* New: the job is started and its Job object handed out.                  *)

New(j) ==
  /\ proc[j] = "none"
  /\ proc'   = [proc EXCEPT ![j] = "running"]
  /\ dir'    = [dir EXCEPT ![j] = "present"]
  /\ cgroup' = [cgroup EXCEPT ![j] = TRUE]
  /\ UNCHANGED <<handler, lock, stopVars, exit, done, open>>

-----------------------------------------------------------------------------
(* Stopping a job. *)

\* Mutant: no timer.
InitStopUnarmed(j) ==
  /\ Enter(j)
  /\ handler[j] = "ACTIVE"
  /\ Signalable(j)
  /\ sig'     = [sig EXCEPT ![j] = "term"]
  /\ handler' = [handler EXCEPT ![j] = "STOPPING"]
  /\ UNCHANGED <<lock, armed, fired, procVars, done, open, diskVars>>

\* Mutant: a graceful stop of a job that has been killed already.
InitStopOfStopped(j) ==
  /\ Enter(j)
  /\ handler[j] \in {"ACTIVE", "STOPPED"}
  /\ Signalable(j)
  /\ armed'   = [armed EXCEPT ![j] = TRUE]
  /\ sig'     = [sig EXCEPT ![j] = "term"]
  /\ handler' = [handler EXCEPT ![j] = "STOPPING"]
  /\ UNCHANGED <<lock, fired, procVars, done, open, diskVars>>

\* activeHandler.gracefulStop arms the timer and only then sends SIGTERM: when
\* the signal fails the state stays ACTIVE and the timer stays armed.  (The
\* other states refuse.)
InitStop(j) ==
  /\ Enter(j)
  /\ handler[j] = "ACTIVE"
  /\ armed' = [armed EXCEPT ![j] = TRUE]
  /\ \/ /\ Signalable(j)
        /\ sig'     = [sig EXCEPT ![j] = "term"]
        /\ handler' = [handler EXCEPT ![j] = "STOPPING"]
     \/ /\ ~Signalable(j)
        /\ UNCHANGED <<sig, handler>>
  /\ UNCHANGED <<lock, fired, procVars, done, open, diskVars>>

\* Mutant: the error of the signal is dropped.
SendKillUnchecked(j) ==
  /\ sig'     = IF Signalable(j) THEN [sig EXCEPT ![j] = "kill"] ELSE sig
  /\ handler' = [handler EXCEPT ![j] = "STOPPED"]

\* sendStopSignal(false); setHandler(stoppedHandler{}) unless it failed.
SendKill(j) ==
  IF Signalable(j)
    THEN /\ sig'     = [sig EXCEPT ![j] = "kill"]
         /\ handler' = [handler EXCEPT ![j] = "STOPPED"]
    ELSE UNCHANGED <<sig, handler>>

\* Mutant: an ended job becomes STOPPED, too.
ForceStopOfEnded(j) ==
  \/ /\ ~Completed(j)
     /\ SendKill(j)
     /\ armed' = [armed EXCEPT ![j] = handler[j] = "ACTIVE" /\ @]
  \/ /\ Completed(j)
     /\ handler' = [handler EXCEPT ![j] = IF @ = "ENDED" THEN "STOPPED" ELSE @]
     /\ UNCHANGED <<sig, armed>>

\* The handlers' forceStop: only stoppingHandler cancels the timer, and the
\* three last states refuse.
ForceStop(j) ==
  \/ /\ handler[j] = "ACTIVE"
     /\ SendKill(j)
     /\ UNCHANGED armed
  \/ /\ handler[j] = "STOPPING"
     /\ SendKill(j)
     /\ armed' = [armed EXCEPT ![j] = FALSE]
  \/ /\ Completed(j)
     /\ UNCHANGED <<sig, handler, armed>>

Stop(j) ==
  /\ Enter(j)
  /\ ForceStop(j)
  /\ UNCHANGED <<lock, fired, procVars, done, open, diskVars>>

\* The timer expires: its callback runs in a goroutine of its own, which
\* stopTimer.Stop can no longer recall.
TimerFire(j) ==
  /\ armed[j]
  /\ armed' = [armed EXCEPT ![j] = FALSE]
  /\ fired' = [fired EXCEPT ![j] = TRUE]
  /\ UNCHANGED <<handler, lock, sig, procVars, done, open, diskVars>>

\* The callback calls Stop.
TimerStop(j) ==
  /\ fired[j]
  /\ Enter(j)
  /\ ForceStop(j)
  /\ fired' = [fired EXCEPT ![j] = FALSE]
  /\ UNCHANGED <<lock, procVars, done, open, diskVars>>

-----------------------------------------------------------------------------
(* Readers of the output, and Cleanup. *)

\* The output opens as long as the file is there; outLock.Add(1).
Logs(r, j) ==
  /\ Enter(j)
  /\ handler[j] # "ZOMBIE"
  /\ dir[j] # "removed"
  /\ \A k \in Jobs : r \notin open[k]
  /\ open' = [open EXCEPT ![j] = @ \cup {r}]
  /\ UNCHANGED <<handler, lock, stopVars, procVars, done, diskVars>>

\* outputReader.Close; stateLock is not needed.
CloseReader(r, j) ==
  /\ r \in open[j]
  /\ open' = [open EXCEPT ![j] = @ \ {r}]
  /\ UNCHANGED <<handler, lock, stopVars, procVars, done, diskVars>>

\* Cleanup gets stateLock, the handler agrees, outLock.Wait() begins.
CleanupBegin(t, j) ==
  /\ Enter(j)
  /\ handler[j] # "ZOMBIE"
  /\ \A k \in Jobs : lock[k] # t
  /\ lock' = [lock EXCEPT ![j] = t]
  /\ UNCHANGED <<handler, stopVars, procVars, done, open, diskVars>>

\* outLock.Wait() is over.  RemoveAll can fail half-way, and then the state of
\* the job does not change.
CleanupEnd(t, j) ==
  /\ lock[j] = t
  /\ ReadersGone(j)
  /\ \/ /\ dir'     = [dir EXCEPT ![j] = "removed"]
        /\ handler' = [handler EXCEPT ![j] = "ZOMBIE"]
     \/ /\ dir' = [dir EXCEPT ![j] = "damaged"]
        /\ UNCHANGED handler
  /\ lock' = [lock EXCEPT ![j] = NoThread]
  /\ UNCHANGED <<stopVars, procVars, done, open, cgroup>>

-----------------------------------------------------------------------------
(* The end of the process. *)

ProcExit(j, c) ==
  /\ proc[j] = "running"
  /\ proc' = [proc EXCEPT ![j] = "exited"]
  /\ exit' = [exit EXCEPT ![j] = c]
  /\ UNCHANGED <<handler, lock, stopVars, done, open, diskVars>>

\* cmd.Wait, in the goroutine New started.
Reap(j) ==
  /\ proc[j] = "exited"
  /\ proc' = [proc EXCEPT ![j] = "reaped"]
  /\ UNCHANGED <<handler, lock, stopVars, exit, done, open, diskVars>>

CloseDone(j) == done' = [done EXCEPT ![j] = TRUE]

\* Mutant: only a job that ran to its end, or was stopped gracefully, is done.
HandleExitUndone(j) ==
  \/ /\ handler[j] \in {"ACTIVE", "STOPPING"}
     /\ CloseDone(j)
     /\ handler' = [handler EXCEPT ![j] = IF @ = "ACTIVE" THEN "ENDED"
                                                        ELSE "STOPPED"]
     /\ armed'   = [armed EXCEPT ![j] = handler[j] = "ACTIVE" /\ @]
  \/ /\ Completed(j)
     /\ UNCHANGED <<handler, armed, done>>

\* The handlers' exited.
HandleExit(j) ==
  \/ /\ handler[j] = "ACTIVE"
     /\ CloseDone(j)
     /\ handler' = [handler EXCEPT ![j] = "ENDED"]
     /\ UNCHANGED armed
  \/ /\ handler[j] = "STOPPING"
     /\ CloseDone(j)
     /\ handler' = [handler EXCEPT ![j] = "STOPPED"]
     /\ armed'   = [armed EXCEPT ![j] = FALSE]
  \/ /\ handler[j] = "STOPPED"
     /\ CloseDone(j)
     /\ UNCHANGED <<handler, armed>>
  \/ /\ handler[j] \in {"ENDED", "ZOMBIE"}
     /\ UNCHANGED <<handler, armed, done>>

\* Job.exited, in the same goroutine: the cgroup goes first, and a failure to
\* remove it is only logged.
Exited(j) ==
  /\ proc[j] = "reaped"
  /\ Enter(j)
  /\ HandleExit(j)
  /\ proc' = [proc EXCEPT ![j] = "collected"]
  /\ cgroup' \in {cgroup, [cgroup EXCEPT ![j] = FALSE]}
  /\ UNCHANGED <<lock, sig, fired, exit, open, dir>>

-----------------------------------------------------------------------------
\* What happens to a job without a caller.
Background(j) ==
  \/ TimerFire(j)
  \/ TimerStop(j)
  \/ \E c \in ExitCodes \cup {NotExited} : ProcExit(j, c)
  \/ Reap(j)
  \/ Exited(j)
OwnStep(j) ==
  \/ New(j)
  \/ InitStop(j)
  \/ Stop(j)
  \/ \E t \in Threads : CleanupEnd(t, j)
  \/ Background(j)
ReaderStep(j) == \E r \in Readers : Logs(r, j) \/ CloseReader(r, j)

\* The package as it exports itself: Cleanup in any state.
LibNext ==
  \E j \in Jobs :
    OwnStep(j) \/ ReaderStep(j) \/ \E t \in Threads : CleanupBegin(t, j)
LibSpec == Init /\ [][LibNext]_vars

\* Mutant: Remove does not ask.
CleanupUnasked(j) == \E t \in Threads : CleanupBegin(t, j)

\* The package as pkg/supervisor uses it: Remove asks Completed() first, and
\* StopSupervisor calls Wait() first.  Completed() stays true, so it does not
\* matter that its answer is old by the time Cleanup gets the lock.
CleanupCompleted(j) ==
  Completed(j) /\ \E t \in Threads : CleanupBegin(t, j)
Next == \E j \in Jobs : OwnStep(j) \/ ReaderStep(j) \/ CleanupCompleted(j)
Spec == Init /\ [][Next]_vars

\* A killed process dies, the goroutines run, the timer expires, and
\* sync.Mutex hands the lock to whoever has waited for a millisecond: nobody
\* starves.  Nothing makes a client call a method, or a reader close.
Fairness ==
  \A j \in Jobs :
    /\ WF_vars(sig[j] = "kill"
               /\ \E c \in ExitCodes \cup {NotExited} : ProcExit(j, c))
    /\ WF_vars(Reap(j))
    /\ SF_vars(Exited(j))
    /\ WF_vars(TimerFire(j))
    /\ SF_vars(TimerStop(j))
    /\ WF_vars(\E t \in Threads : CleanupEnd(t, j))
FairSpec == Spec /\ Fairness

-----------------------------------------------------------------------------
(* Safety. *)

\* The status a client is told never lies about the process: an ENDED job has
\* left on its own, a STOPPED one has at least been signalled, and a job that is
\* ACTIVE or STOPPING has not been collected, so it still has a process and
\* nobody has been told that it is over.
StatusHonest ==
  \A j \in Jobs :
    /\ handler[j] = "ACTIVE"   => sig[j] = "none" /\ proc[j] # "collected"
    /\ handler[j] = "STOPPING" => sig[j] = "term" /\ proc[j] # "collected"
    /\ handler[j] = "STOPPED"  => sig[j] # "none"
    /\ handler[j] = "ENDED"    => sig[j] = "none" /\ proc[j] = "collected"

\* The channel `done' is closed once (a second close panics) and for the right
\* reason: while the job is not removed, it is closed exactly when exited() has
\* run, whatever order Stop, the timer and the end of the process came in.
DoneMeansCollected ==
  \A j \in Jobs :
    handler[j] # "ZOMBIE" => (done[j] <=> proc[j] = "collected")

\* A graceful stop is always backed by a timer, running or fired, for as long as
\* the process can still ignore its SIGTERM.
GracefulStopBacked ==
  \A j \in Jobs :
    handler[j] = "STOPPING" /\ Signalable(j) => armed[j] \/ fired[j]

\* Cleanup never takes the output from under an open reader, although readers
\* close without stateLock and open while others wait for it.
OutputOutlivesReaders ==
  \A j \in Jobs : open[j] # {} => dir[j] # "removed"

\* The lock is held across a wait only for a job that is past stopping: neither
\* a Stop of a live job nor the timer of a graceful stop ever waits for a
\* reader.  (Supervisor's use of the package; the package alone allows it.)
StopNeverWaits ==
  \A j \in Jobs : lock[j] # NoThread => handler[j] \in {"ENDED", "STOPPED"}

\* A STOPPED job counts as completed although its process may still run, so its
\* directory can go first: but never that of a process that was left to run on,
\* only of one that has been sent SIGKILL.
OnlyKilledLoseTheirDir ==
  \A j \in Jobs : proc[j] = "running" /\ dir[j] # "present" => sig[j] = "kill"

\* Once `done' is closed, and until the job is removed, everything Status says
\* is final: no late timer, Stop or signal changes the state, the code or what
\* was sent to the process.
AnswersFinalAfterDone ==
  [][\A j \in Jobs :
       done[j] /\ handler'[j] # "ZOMBIE" =>
         /\ UNCHANGED <<handler[j], sig[j], done[j]>>
         /\ StatusReplies(j)' = StatusReplies(j)]_vars

\* SIGKILL never comes before SIGTERM was given its chance by mistake: a job
\* that has ended is never signalled, and signals only grow stronger.
SignalsEscalate ==
  [][\A j \in Jobs :
       sig'[j] # sig[j] => /\ Signalable(j)
                           /\ handler[j] \in {"ACTIVE", "STOPPING"}
                           /\ sig'[j] = "term" => sig[j] = "none"]_vars

\* The inductive invariant behind these, for the package alone (LibSpec): what
\* each status of a job says of the rest of its state.
FreshOK(j) ==
  /\ proc[j] = "none" =>
       handler[j] = "ACTIVE" /\ open[j] = {} /\ ~armed[j] /\ ~fired[j]
  /\ proc[j] = "none" => lock[j] = NoThread
  /\ dir[j] = "absent" <=> proc[j] = "none"
ActiveOK(j) ==
  handler[j] = "ACTIVE" => sig[j] = "none" /\ proc[j] # "collected"
StoppingOK(j) ==
  handler[j] = "STOPPING" => /\ sig[j] = "term"
                             /\ proc[j] # "collected"
                             /\ Signalable(j) => armed[j] \/ fired[j]
StoppedOK(j) ==
  handler[j] = "STOPPED" => sig[j] # "none"
EndedOK(j) ==
  handler[j] = "ENDED" => sig[j] = "none" /\ proc[j] = "collected"
ZombieOK(j) ==
  /\ handler[j] = "ZOMBIE" => open[j] = {} /\ lock[j] = NoThread
  /\ dir[j] = "removed" <=> handler[j] = "ZOMBIE"
DoneOK(j) ==
  /\ done[j] => proc[j] = "collected"
  /\ handler[j] # "ZOMBIE" => (done[j] <=> proc[j] = "collected")
JobOK(j) ==
  /\ FreshOK(j)
  /\ ActiveOK(j)
  /\ StoppingOK(j)
  /\ StoppedOK(j)
  /\ EndedOK(j)
  /\ ZombieOK(j)
  /\ DoneOK(j)
JobInv == \A j \in Jobs : JobOK(j)

\* What Completed() before every Cleanup adds to it (Spec).
GuardedOK(j) ==
  /\ lock[j] # NoThread => handler[j] \in {"ENDED", "STOPPED"}
  /\ dir[j] \in {"damaged", "removed"} => Completed(j)
  /\ proc[j] = "running" /\ Completed(j) => sig[j] = "kill"
GuardedInv == \A j \in Jobs : GuardedOK(j)

(* Job implements JobLifecycle. *)

\* A job object is NEW to its callers until New returns it.
lifeStatus == [j \in Jobs |-> IF proc[j] = "none" THEN "NEW" ELSE handler[j]]
lifeOver   == [j \in Jobs |-> proc[j] = "collected"]
Lifecycle  == INSTANCE JobLifecycle WITH status <- lifeStatus, over <- lifeOver

\* Stops, timers, cleanups and readers in any order look like the five-step life
\* of JobLifecycle: nothing runs again, nothing is removed while it runs, and a
\* graceful stop comes to an end.
ImplementsLifecycle == Lifecycle!Spec

(* Liveness. *)

\* A process that was sent a stop signal of either kind is gone and reaped in
\* the end, even if it ignores SIGTERM and whatever cleanups and readers do.
StopCompletes ==
  \A j \in Jobs : sig[j] # "none" ~> proc[j] \in {"reaped", "collected"}

\* "Wait waits until the job state goes to Ended or Stopped" (job.go:444), and
\* then does return, with two exceptions.  A job that was stopped by force can be
\* removed before its process has ended, and exited() of a zombie closes nothing;
\* and a Cleanup that waits for a reader keeps exited() out.
WaitReturns ==
  \A j \in Jobs :
    \/ handler[j] \in {"ENDED", "STOPPED"} ~> done[j] \/ handler[j] = "ZOMBIE"
    \/ <>[](lock[j] # NoThread /\ open[j] # {})

\* "process exit code if the status is JOB_STOPPED or JOB_ENDED"
\* (proto/jobs/v1/jobs.proto:121): whatever Status can answer for such a job,
\* the process has exited and the code is its code.
ExitCodeIsReal ==
  \A j \in Jobs :
    proc[j] # "none" /\ handler[j] \in {"ENDED", "STOPPED"} =>
      /\ proc[j] \in {"exited", "reaped", "collected"}
      /\ StatusReplies(j) = {<<handler[j], exit[j]>>}
=============================================================================
