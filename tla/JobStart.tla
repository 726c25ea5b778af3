------------------------------ MODULE JobStart ------------------------------
(***************************************************************************)
(* The start of one job, in two processes: New in the server (pkg/job) and *)
(* the shim it starts (pkg/server/shim), which sets itself up, starts the  *)
(* target command and then passes signals on to it.  They talk over a      *)
(* pipe: a message is an error, the end of the file without one is         *)
(* success.  The shim is PID 1 of a PID namespace: when it ends the kernel *)
(* ends whatever else runs there.                                          *)
(*                                                                         *)
(* What module Job takes for one step, New, is taken apart here; what Job  *)
(* calls its process is the shim with all that runs under it.              *)
(***************************************************************************)
EXTENDS Naturals

VARIABLES
  pc,       \* New, in the server; "down": the server process has died
  dir,      \* the job directory
  cg,       \* the job's cgroup directories
  fds,      \* the ends of the pipe the server process has open
  shim,     \* the shim process
  shimFd,   \* the shim has the write end of the pipe
  report,   \* the shim has written an error to the pipe
  did,      \* the parts of SetupProc that are done
  hup,      \* a SIGHUP waits in hupChan
  term,     \* SIGTERM: not sent, in termChan, or passed on to the target
  target,   \* the target command
  orphans   \* other processes of the namespace that run

newVars  == <<pc, dir, cg, fds>>
pipeVars == <<shimFd, report>>
jobVars  == <<target, orphans>>
vars == <<newVars, shim, pipeVars, did, hup, term, jobVars>>

NewState  == {"dirs", "create", "cgroup", "pipe", "start", "read", "undo",
              "ok", "failed", "down"}
ShimState == {"none", "setup", "close", "prctl", "notify", "exec", "select",
              "orphans", "exited"}
Setup     == {"proc", "cgroup", "ids"}

TypeOK ==
  /\ pc \in NewState
  /\ dir \in {"absent", "present", "damaged"}
  /\ cg \subseteq {"outer", "inner"}
  /\ fds \subseteq {"r", "w"}
  /\ shim \in ShimState
  /\ shimFd \in BOOLEAN
  /\ report \in BOOLEAN
  /\ did \subseteq Setup
  /\ hup \in BOOLEAN
  /\ term \in {"none", "sent", "passed"}
  /\ target \in {"none", "running", "ended", "failed"}
  /\ orphans \in BOOLEAN

Init ==
  /\ pc = "dirs"
  /\ dir = "absent"
  /\ cg = {}
  /\ fds = {}
  /\ shim = "none"
  /\ shimFd = FALSE
  /\ report = FALSE
  /\ did = {}
  /\ hup = FALSE
  /\ term = "none"
  /\ target = "none"
  /\ orphans = FALSE

-----------------------------------------------------------------------------
(* New. *)

childVars == <<shim, pipeVars, did, hup, term, jobVars>>

\* initJobDirs undoes what it has done itself, but for a first MkdirAll that
\* fails half-way; New's own undo is not set up yet.
InitDirs ==
  /\ pc = "dirs"
  /\ \/ pc' = "create" /\ dir' = "present"
     \/ pc' = "failed" /\ dir' \in {"absent", "damaged"}
  /\ UNCHANGED <<cg, fds, childVars>>

CreateOutput ==
  /\ pc = "create"
  /\ pc' \in {"cgroup", "undo"}
  /\ UNCHANGED <<dir, cg, fds, childVars>>

\* When a step fails, os.Remove takes the outer directory away, unless the inner
\* one is already there.
SetupCgroup ==
  /\ pc = "cgroup"
  /\ \/ pc' = "pipe" /\ cg' = {"outer", "inner"}
     \/ pc' = "undo" /\ cg' \in {{}, {"outer"}, {"outer", "inner"}}
  /\ UNCHANGED <<dir, fds, childVars>>

OpenPipe ==
  /\ pc = "pipe"
  /\ \/ pc' = "start" /\ fds' = {"r", "w"}
     \/ pc' = "undo" /\ UNCHANGED fds
  /\ UNCHANGED <<dir, cg, childVars>>

\* Mutant: the server keeps its copy of the write end.
StartShimKeepsPipe ==
  /\ pc = "start"
  /\ \/ pc' = "read" /\ shim' = "setup" /\ shimFd' = TRUE
     \/ pc' = "undo" /\ UNCHANGED <<shim, shimFd>>
  /\ UNCHANGED <<fds, dir, cg, report, did, hup, term, jobVars>>

\* Mutant: cmd.ExtraFiles is forgotten: the shim does not get the pipe.
StartShimNoPipe ==
  /\ pc = "start"
  /\ \/ pc' = "read" /\ shim' = "setup" /\ fds' = {"r"}
     \/ pc' = "undo" /\ UNCHANGED <<shim, fds>>
  /\ UNCHANGED <<dir, cg, shimFd, report, did, hup, term, jobVars>>

\* cmd.Start, then w.Close(); a Start that fails leaves w open.
StartShim ==
  /\ pc = "start"
  /\ \/ pc' = "read" /\ shim' = "setup" /\ shimFd' = TRUE /\ fds' = {"r"}
     \/ pc' = "undo" /\ UNCHANGED <<shim, shimFd, fds>>
  /\ UNCHANGED <<dir, cg, report, did, hup, term, jobVars>>

\* Mutant: an error leaves New without its deferred functions.
ReadReportAborts ==
  /\ pc = "read"
  /\ "w" \notin fds
  /\ ~shimFd
  /\ pc' = IF report THEN "aborted" ELSE "ok"
  /\ UNCHANGED <<fds, dir, cg, childVars>>

\* io.ReadAll returns when nobody has the write end any more.  The deferred
\* r.Close() runs.
ReadReport ==
  /\ pc = "read"
  /\ "w" \notin fds
  /\ ~shimFd
  /\ pc' = IF report THEN "undo" ELSE "ok"
  /\ fds' = fds \ {"r"}
  /\ UNCHANGED <<dir, cg, childVars>>

\* io.ReadAll returns an error, which nothing obliges it to.
ReadFails ==
  /\ pc = "read"
  /\ pc' = "undo"
  /\ fds' = fds \ {"r"}
  /\ UNCHANGED <<dir, cg, childVars>>

\* Mutant: the undo leaves the directory.
UndoNothing ==
  /\ pc = "undo"
  /\ fds' = fds \ {"r"}
  /\ pc' = "failed"
  /\ UNCHANGED <<dir, cg, childVars>>

\* The deferred functions: the directory goes, if RemoveAll does not fail.  The
\* cgroup stays, for cgPath is never set; a child is not waited for.
Undo ==
  /\ pc = "undo"
  /\ dir' \in {"absent", "damaged"}
  /\ fds' = fds \ {"r"}
  /\ pc' = "failed"
  /\ UNCHANGED <<cg, childVars>>

-----------------------------------------------------------------------------
(* The shim. *)

\* The process ends, and with it its namespace and its end of the pipe.
Exit ==
  /\ shim' = "exited"
  /\ shimFd' = FALSE
  /\ target' = IF target = "running" THEN "ended" ELSE target
  /\ orphans' = FALSE

\* Mutant: the order of privileges and set-up is lost: SetupProc returns after
\* its first part.
SetupEarly ==
  /\ shim = "setup"
  /\ \E s \in Setup : did' = {s}
  /\ shim' = "close"
  /\ UNCHANGED <<newVars, pipeVars, hup, term, jobVars>>

\* SetupProc: /proc, the cgroup, gid and uid, in this order; an error is
\* written to the pipe.
SetupProc ==
  /\ shim = "setup"
  /\ \/ /\ \/ did = {} /\ did' = {"proc"}
           \/ did = {"proc"} /\ did' = {"proc", "cgroup"}
           \/ did = {"proc", "cgroup"} /\ did' = Setup
        /\ shim' = IF did' = Setup THEN "close" ELSE "setup"
        /\ UNCHANGED <<pipeVars, jobVars>>
     \/ /\ report' = TRUE
        /\ Exit
        /\ UNCHANGED did
  /\ UNCHANGED <<newVars, hup, term>>

\* f.Close(): New may go on.
ClosePipe ==
  /\ shim = "close"
  /\ shimFd' = FALSE
  /\ shim' = "prctl"
  /\ UNCHANGED <<newVars, report, did, hup, term, jobVars>>

\* PR_SET_PDEATHSIG asks for a SIGHUP when the parent dies, not if it has died.
\* The error is written to a file that is closed already.
Prctl ==
  /\ shim = "prctl"
  /\ \/ shim' = "notify" /\ UNCHANGED <<shimFd, jobVars>>
     \/ Exit
  /\ UNCHANGED <<newVars, report, did, hup, term>>

\* signal.Notify: SIGHUP and SIGTERM go to channels from here on.
Notify ==
  /\ shim = "notify"
  /\ shim' = "exec"
  /\ UNCHANGED <<newVars, pipeVars, did, hup, term, jobVars>>

\* cmd.Start of the target.  Its error goes to the job's output only.
StartTarget ==
  /\ shim = "exec"
  /\ target' \in {"running", "failed"}
  /\ shim' = "select"
  /\ UNCHANGED <<newVars, pipeVars, did, hup, term, orphans>>

\* case <-done: cmd.Wait has returned, at once if cmd.Start failed.
SelectDone ==
  /\ shim = "select"
  /\ target \in {"ended", "failed"}
  /\ shim' = "orphans"
  /\ UNCHANGED <<newVars, pipeVars, did, hup, term, jobVars>>

SelectHup ==
  /\ shim = "select"
  /\ hup
  /\ Exit
  /\ UNCHANGED <<newVars, report, did, hup, term>>

\* Mutant: the signal is read from the channel and dropped.
SelectTermDropped ==
  /\ shim = "select"
  /\ term = "sent"
  /\ term' = "none"
  /\ UNCHANGED <<newVars, shim, pipeVars, did, hup, jobVars>>

\* case s := <-termChan: cmd.Process.Signal(s), a nil dereference if the target
\* has not started, an ignored error if it has ended.
SelectTerm ==
  /\ shim = "select"
  /\ term = "sent"
  /\ term' = "passed"
  /\ \/ target = "failed" /\ Exit
     \/ target # "failed" /\ UNCHANGED <<shim, shimFd, jobVars>>
  /\ UNCHANGED <<newVars, report, did, hup>>

\* waitForOrphans returns; os.Exit.
ShimDone ==
  /\ shim = "orphans"
  /\ ~orphans
  /\ Exit
  /\ UNCHANGED <<newVars, report, did, hup, term>>

Shim ==
  \/ SetupProc
  \/ ClosePipe
  \/ Prctl
  \/ Notify
  \/ StartTarget
  \/ SelectDone
  \/ SelectHup
  \/ SelectTerm
  \/ ShimDone

-----------------------------------------------------------------------------
(* Outside. *)

\* The target leaves a process of its own behind; it ends; an orphan ends.
Fork ==
  /\ target = "running"
  /\ orphans' = TRUE
  /\ UNCHANGED <<newVars, shim, pipeVars, did, hup, term, target>>
TargetEnds ==
  /\ target = "running"
  /\ target' = "ended"
  /\ UNCHANGED <<newVars, shim, pipeVars, did, hup, term, orphans>>
OrphansEnd ==
  /\ orphans
  /\ orphans' = FALSE
  /\ UNCHANGED <<newVars, shim, pipeVars, did, hup, term, target>>

Alive == shim \notin {"none", "exited"}

\* Bound: one SIGTERM, which the server can send once it has the job (one
\* InitStop succeeds).  Before Notify it ends the shim.
SendTerm ==
  /\ pc = "ok"
  /\ Alive
  /\ term = "none"
  /\ term' = "sent"
  /\ IF shim \in {"prctl", "notify"}
       THEN Exit
       ELSE UNCHANGED <<shim, shimFd, jobVars>>
  /\ UNCHANGED <<newVars, report, did, hup>>

\* SIGKILL, from the server or from the kernel out of memory.
Kill ==
  /\ Alive
  /\ Exit
  /\ UNCHANGED <<newVars, report, did, hup, term>>

\* The server process dies: SIGHUP for a shim that has asked for it.
Crash ==
  /\ pc # "down"
  /\ pc' = "down"
  /\ fds' = {}
  /\ \/ /\ shim \in {"exec", "select", "orphans"}
        /\ hup' = TRUE
        /\ UNCHANGED <<shim, shimFd, jobVars>>
     \/ /\ shim = "notify"
        /\ Exit
        /\ UNCHANGED hup
     \/ /\ shim \in {"none", "setup", "close", "prctl", "exited"}
        /\ UNCHANGED <<shim, shimFd, hup, jobVars>>
  /\ UNCHANGED <<dir, cg, report, did, term>>

-----------------------------------------------------------------------------
NewStep ==
  \/ InitDirs
  \/ CreateOutput
  \/ SetupCgroup
  \/ OpenPipe
  \/ StartShim
  \/ ReadReport
  \/ Undo

Next ==
  \/ NewStep \/ ReadFails
  \/ Shim
  \/ Fork \/ TargetEnds \/ OrphansEnd
  \/ SendTerm \/ Kill \/ Crash

\* Both processes run.  Nothing makes a target, or an orphan, end.
Spec == Init /\ [][Next]_vars /\ WF_vars(NewStep) /\ WF_vars(Shim)

-----------------------------------------------------------------------------
\* The target never runs outside its cgroup or with the server's privileges, nor
\* after the shim has reported an error.
TargetConfined == target = "running" => did = Setup /\ ~report

\* When New succeeds and the shim has not died since, the job is set up: the two
\* processes agree although the one only sees a pipe being closed.
OkMeansReady ==
  pc = "ok" /\ Alive =>
    did = Setup /\ dir = "present" /\ cg = {"outer", "inner"} /\ ~report

\* A New that fails leaves no directory (unless RemoveAll failed), and has closed
\* its reading end.  The writing end stays open only if no shim was started; the
\* cgroup stays whenever it was complete.
UndoneOnFailure ==
  pc = "failed" =>
    /\ dir # "present"
    /\ "r" \notin fds
    /\ "w" \in fds => shim = "none"
    /\ shim # "none" => cg = {"outer", "inner"}

\* New returns: whatever becomes of the shim, its end of the pipe gets closed.
NewReturns == <>(pc \in {"ok", "failed", "down"})

\* A SIGTERM sent to the job reaches the target, or the shim is over, or it
\* waits for orphans, when only SIGKILL will help.
TermArrives ==
  term = "sent" ~> term = "passed" \/ shim \in {"orphans", "exited"}

\* A server that dies takes its jobs with it, as the design says: "If it
\* terminates, all jobs are stopped" (rfd/0001-job-service.md:280).  A shim that
\* has not called prctl yet, or that waits for orphans, does not see the signal.
StoppedWithServer == pc = "down" ~> ~Alive
=============================================================================
