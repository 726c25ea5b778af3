----------------------------- MODULE LogStream -----------------------------
(***************************************************************************)
(* The Logs RPC on top of a job: JobServer.Logs (pkg/server), the          *)
(* outputReader it reads through (pkg/job), and the process that goes on   *)
(* writing meanwhile.  A reader of module Job is one RPC here.  Its loop   *)
(*   loop -> read -> [ select -> ] send -> loop ... close -> returned      *)
(* takes one step per operation another goroutine, the process or the      *)
(* client can come between; outputReader.Read is two of them, the read of  *)
(* the file and the look at the channel `done'.                            *)
(***************************************************************************)
EXTENDS Job

CONSTANT MaxOutput   \* bound: units of output a job produces
ASSUME MaxOutputOK == MaxOutput \in Nat

VARIABLES
  size,       \* size of the output file
  pc,         \* where the RPC is
  target,     \* the job it streams
  options,    \* of the request: to follow or not, or no options at all
  base,       \* the size of the output when the RPC opened it
  off,        \* the file offset: everything before it was read
  err,        \* what the last Read returned
  cancelled,  \* the context of the RPC is done: the client has gone
  reply       \* the status the RPC ends with

rpcVars == <<pc, target, options, base, off, err, cancelled, reply>>
streamVars == <<size, rpcVars>>
allVars == <<vars, streamVars>>

Options == {"follow", "plain", "unset"}
PcState == {"idle", "loop", "read", "select", "send", "close", "returned"}
Active(r) == pc[r] \notin {"idle", "returned"}

StreamTypeOK ==
  /\ TypeOK
  /\ size \in [Jobs -> 0..MaxOutput]
  /\ pc \in [Readers -> PcState]
  /\ target \in [Readers -> Jobs]
  /\ options \in [Readers -> Options]
  /\ base \in [Readers -> 0..MaxOutput]
  /\ off \in [Readers -> 0..MaxOutput]
  /\ err \in [Readers -> {"nil", "eof", "eofDone", "failed"}]
  /\ cancelled \in [Readers -> BOOLEAN]
  /\ reply \in [Readers -> {"none", "ok", "canceled", "internal"}]

StreamInit ==
  /\ Init
  /\ size = [j \in Jobs |-> 0]
  /\ pc = [r \in Readers |-> "idle"]
  /\ target \in [Readers -> Jobs]
  /\ options \in [Readers -> Options]
  /\ base = [r \in Readers |-> 0]
  /\ off = [r \in Readers |-> 0]
  /\ err = [r \in Readers |-> "nil"]
  /\ cancelled = [r \in Readers |-> FALSE]
  /\ reply = [r \in Readers |-> "none"]

Goto(r, l) == pc' = [pc EXCEPT ![r] = l]

\* The handler returns s, as soon as its deferred Close has run.
ReturnWith(r, s) ==
  /\ Goto(r, "close")
  /\ reply' = [reply EXCEPT ![r] = s]

-----------------------------------------------------------------------------
\* The process, or one it started in its PID namespace, writes.  The name of
\* the file may be gone: the descriptor is not.
Write(j) ==
  /\ proc[j] = "running"
  /\ size[j] < MaxOutput
  /\ size' = [size EXCEPT ![j] = @ + 1]
  /\ UNCHANGED <<vars, rpcVars>>

\* Job.Logs succeeds, the file offset is 0.
Open(r) ==
  /\ pc[r] = "idle"
  /\ Logs(r, target[r])
  /\ base' = [base EXCEPT ![r] = size[target[r]]]
  /\ Goto(r, "loop")
  /\ UNCHANGED <<size, target, options, off, err, cancelled, reply>>

\* The client hangs up, or its deadline passes.
Cancel(r) ==
  /\ Active(r)
  /\ ~cancelled[r]
  /\ cancelled' = [cancelled EXCEPT ![r] = TRUE]
  /\ UNCHANGED <<vars, size, pc, target, options, base, off, err, reply>>

\* Mutant: the context is not looked at.
LoopForever(r) ==
  /\ pc[r] = "loop"
  /\ Goto(r, "read")
  /\ UNCHANGED <<vars, size, target, options, base, off, err, cancelled, reply>>

\* The top of the loop looks at the context.
Loop(r) ==
  /\ pc[r] = "loop"
  /\ \/ cancelled[r] /\ ReturnWith(r, "canceled")
     \/ ~cancelled[r] /\ Goto(r, "read") /\ UNCHANGED reply
  /\ UNCHANGED <<vars, size, target, options, base, off, err, cancelled>>

\* Mutant: a short read is taken for the end of the output.
ReadFileOnce(r) ==
  /\ pc[r] = "read"
  /\ \/ /\ \E n \in off[r]+1 .. size[target[r]] : off' = [off EXCEPT ![r] = n]
        /\ err' = [err EXCEPT ![r] = "nil"]
        /\ ReturnWith(r, "ok")
     \/ /\ off[r] = size[target[r]]
        /\ Goto(r, "select")
        /\ UNCHANGED <<off, err, reply>>
  /\ UNCHANGED <<vars, size, target, options, base, cancelled>>

\* r.f.Read(b): some of what is there, or nothing at the end of the file, or an
\* I/O error.  An error ends a follow stream, but a stream that does not follow
\* returns nil whenever it has read nothing, be it for an error.  A request
\* without options panics when nothing was read (req.Options is nil); the deferred
\* Close runs, and streamInterceptor makes it an internal error.
ReadFile(r) ==
  /\ pc[r] = "read"
  /\ \/ /\ \E n \in off[r]+1 .. size[target[r]] : off' = [off EXCEPT ![r] = n]
        /\ err' = [err EXCEPT ![r] = "nil"]
        /\ Goto(r, "send")
        /\ UNCHANGED reply
     \/ /\ off[r] = size[target[r]]
        /\ Goto(r, "select")
        /\ UNCHANGED <<off, err, reply>>
     \/ /\ err' = [err EXCEPT ![r] = "failed"]
        /\ ReturnWith(r, IF options[r] = "plain" THEN "ok" ELSE "internal")
        /\ UNCHANGED off
  /\ UNCHANGED <<vars, size, target, options, base, cancelled>>

\* Mutants: `done' is not looked at.
EndOfFileIsEnd(r) == "eofDone"
EndOfFileIsPause(r) == "eof"

\* The file was at its end; now, perhaps later, the channel `done' tells which
\* error Read returns.
EndOfFile(r) == IF done[target[r]] THEN "eofDone" ELSE "eof"

\* A stream that does not follow ends here, one that follows ends when the job
\* is done and otherwise sleeps and sends an empty chunk.
Select(r) ==
  /\ pc[r] = "select"
  /\ err' = [err EXCEPT ![r] = EndOfFile(r)]
  /\ \/ options[r] = "unset" /\ ReturnWith(r, "internal")
     \/ options[r] = "plain" /\ ReturnWith(r, "ok")
     \/ /\ options[r] = "follow" /\ EndOfFile(r) = "eofDone"
        /\ ReturnWith(r, "ok")
     \/ /\ options[r] = "follow" /\ EndOfFile(r) = "eof"
        /\ Goto(r, "send")
        /\ UNCHANGED reply
  /\ UNCHANGED <<vars, size, target, options, base, off, cancelled>>

\* Mutant: the RPC leaves its loop without closing the reader.
SendLeaks(r) ==
  /\ pc[r] = "send"
  /\ \/ Goto(r, "loop") /\ UNCHANGED reply
     \/ Goto(r, "returned") /\ reply' = [reply EXCEPT ![r] = "internal"]
  /\ UNCHANGED <<vars, size, target, options, base, off, err, cancelled>>

\* server.Send fails at once, or at any time, when the client is gone.
Send(r) ==
  /\ pc[r] = "send"
  /\ \/ Goto(r, "loop") /\ UNCHANGED reply
     \/ ReturnWith(r, "internal")
  /\ UNCHANGED <<vars, size, target, options, base, off, err, cancelled>>

\* The deferred r.Close().
Return(r) ==
  /\ pc[r] = "close"
  /\ CloseReader(r, target[r])
  /\ Goto(r, "returned")
  /\ UNCHANGED <<size, target, options, base, off, err, cancelled, reply>>

-----------------------------------------------------------------------------
Serve(r) == Loop(r) \/ ReadFile(r) \/ Select(r) \/ Send(r) \/ Return(r)

JobStep(j) == (OwnStep(j) \/ CleanupCompleted(j)) /\ UNCHANGED streamVars

StreamNext ==
  \/ \E j \in Jobs : JobStep(j) \/ Write(j)
  \/ \E r \in Readers : Open(r) \/ Cancel(r) \/ Serve(r)

StreamSpec == StreamInit /\ [][StreamNext]_allVars

\* The scheduler runs every goroutine, and a client that has not hung up reads
\* what it is sent, so that Send returns.  No client has to hang up.
StreamFairSpec ==
  /\ StreamSpec
  /\ Fairness
  /\ \A r \in Readers : WF_allVars(Serve(r))

-----------------------------------------------------------------------------
\* Whatever path an RPC takes out of its loop, it closes its reader once: the
\* count of outLock, which a Cleanup waits for, is the number of the RPCs under
\* way.
CountedReadersAreLive ==
  \A j \in Jobs : open[j] = {r \in Readers : Active(r) /\ target[r] = j}

\* A stream without -f that ends well has sent all that was there when it began,
\* however the writes fell between its reads; unless the disk failed it.
PlainStreamComplete ==
  \A r \in Readers :
    reply[r] = "ok" /\ options[r] = "plain" /\ err[r] # "failed" => off[r] >= base[r]

\* A follow stream ends well only after the job is over; it cannot end early
\* because the file had nothing new for a while.
FollowEndsWithJob ==
  \A r \in Readers :
    reply[r] = "ok" /\ options[r] = "follow" => done[target[r]]

\* A stream of a job that is done, or whose client has gone, ends, and what it
\* blocks (Cleanup, and the server's shutdown) can go on.
StreamEnds ==
  \A r \in Readers :
    Active(r) /\ (done[target[r]] \/ cancelled[r]) ~> pc[r] = "returned"

\* The one thing that can keep a Cleanup, and with it stateLock, for ever is a
\* follow stream whose client stays, on a job that is not done.
OnlyFollowersHoldLock ==
  \A j \in Jobs :
    \/ []<>(lock[j] = NoThread)
    \/ <>[](\E r \in open[j] : options[r] = "follow" /\ ~cancelled[r] /\ ~done[j])

\* "ErrEOFJobDone indicates end of output is reached and the job process exited"
\* (logreader.go:10): a Read that returns it has left nothing behind.
EndOfOutputReached ==
  \A r \in Readers :
    err[r] = "eofDone" => off[r] = size[target[r]]

\* "Client will wait for more output until the job is ended" (README.md:129): a
\* follow stream ends after the process has.
FollowEnds ==
  \A r \in Readers :
    pc[r] = "read" /\ proc[target[r]] \in {"exited", "reaped"}
      ~> pc[r] = "returned"
=============================================================================
