------------------------------- MODULE Server -------------------------------
(***************************************************************************)
(* The calls of the job API: pkg/server, with the access control (pkg/acl) *)
(* it asks, on the jobs of pkg/supervisor (JobMap).  Who owns a job and    *)
(* where the job is are two maps under two locks; a call looks at one, and *)
(* then at the other, and other calls come in between.                     *)
(*                                                                         *)
(* The superusers are set before the server listens and never change.  A   *)
(* job id is new with every job and never used again.                      *)
(***************************************************************************)
EXTENDS JobMap

CONSTANTS
  Users,     \* the client IDs, as the certificates have them
  Full,      \* superUsers
  Read,      \* superReadUsers
  Trimmed,   \* strings.TrimSpace of each
  Nobody,    \* the blank ID; no entry
  NoJob      \* no job id yet

ASSUME UsersOK ==
  /\ Full \subseteq Users
  /\ Read \subseteq Users
  /\ Nobody \notin Users /\ NoJob \notin Jobs
  /\ Trimmed \in [Users -> Users \cup {Nobody}]

VARIABLES
  owner,     \* AccessControl.owners
  starter,   \* history: who has started the job
  step,      \* what each call does next
  user, op, job,   \* who has sent it, what it asks for, of which job
  reply      \* the code it ends with

callVars == <<user, op, job>>
vars == <<mapVars, owner, starter, step, callVars, reply>>

Ops   == {"start", "stop", "remove", "inspect", "logs"}
Steps == {"idle", "check", "call", "hold", "own", "disown", "reply"}

TypeOK ==
  /\ MapTypeOK
  /\ owner \in [Jobs -> Users \cup {Nobody}]
  /\ starter \in [Jobs -> Users \cup {Nobody}]
  /\ step \in [Threads -> Steps]
  /\ user \in [Threads -> Users \cup {Nobody}]
  /\ op \in [Threads -> Ops \cup {"none"}]
  /\ job \in [Threads -> Jobs \cup {NoJob}]
  /\ reply \in [Threads -> {"ok", "notfound", "internal"}]
  /\ \A t \in Threads : step[t] # "idle" => user[t] \in Users /\ op[t] \in Ops

Init ==
  /\ MapInit
  /\ owner = [j \in Jobs |-> Nobody]
  /\ starter = [j \in Jobs |-> Nobody]
  /\ step = [t \in Threads |-> "idle"]
  /\ user = [t \in Threads |-> Nobody]
  /\ op = [t \in Threads |-> "none"]
  /\ job = [t \in Threads |-> NoJob]
  /\ reply = [t \in Threads |-> "ok"]

-----------------------------------------------------------------------------
At(t, s, ops) == step[t] = s /\ op[t] \in ops
Goto(t, s) == step' = [step EXCEPT ![t] = s] /\ UNCHANGED reply
ReplyWith(t, r) ==
  /\ step' = [step EXCEPT ![t] = "reply"]
  /\ reply' = [reply EXCEPT ![t] = r]

Request(t, u, o, j) ==
  /\ user' = [user EXCEPT ![t] = u]
  /\ op' = [op EXCEPT ![t] = o]
  /\ job' = [job EXCEPT ![t] = j]
  /\ UNCHANGED <<mapVars, owner, starter>>

\* The interceptor finds the client ID; a call without one ends there.  Start
\* asks for no access, and has no job yet.
Receive(t, u, o, j) ==
  /\ step[t] = "idle"
  /\ \/ o = "start" /\ j = NoJob /\ Goto(t, "call")
     \/ o # "start" /\ j # NoJob /\ Goto(t, "check")
  /\ Request(t, u, o, j)

Reply(t) ==
  /\ step[t] = "reply"
  /\ step' = [step EXCEPT ![t] = "idle"]
  /\ reply' = [reply EXCEPT ![t] = "ok"]
  /\ Request(t, Nobody, "none", NoJob)

-----------------------------------------------------------------------------
(* The access control. *)

\* Mutants: a superuser needs no entry; to read is all a superuser needs.
GrantedUnowned(u, o, j) ==
  \/ owner[j] # Nobody /\ owner[j] = u
  \/ u \in Full
  \/ owner[j] # Nobody /\ o \in {"inspect", "logs"} /\ u \in Read
GrantedToReaders(u, o, j) ==
  /\ owner[j] # Nobody
  /\ owner[j] = u \/ u \in Full \/ u \in Read

\* AccessControl.Check: the owner, or a superuser; no entry, no access.
Granted(u, o, j) ==
  /\ owner[j] # Nobody
  /\ \/ owner[j] = u
     \/ u \in Full
     \/ o \in {"inspect", "logs"} /\ u \in Read

\* hasFullAccess, hasReadAccess.  The refusal hides that there is a job.
Check(t) ==
  /\ step[t] = "check"
  /\ \/ Granted(user[t], op[t], job[t]) /\ Goto(t, "call")
     \/ ~Granted(user[t], op[t], job[t]) /\ ReplyWith(t, "notfound")
  /\ UNCHANGED <<mapVars, owner, starter, callVars>>

\* SetOwner; the error of a blank ID is dropped, the job has no owner then.
SetOwner(t) ==
  /\ At(t, "own", {"start"})
  /\ owner' = [owner EXCEPT ![job[t]] = IF Trimmed[user[t]] = Nobody
                                          THEN @ ELSE Trimmed[user[t]]]
  /\ ReplyWith(t, "ok")
  /\ UNCHANGED <<mapVars, starter, callVars>>

\* AccessControl.Remove; its error is logged.
Disown(t) ==
  /\ At(t, "disown", {"remove"})
  /\ owner' = [owner EXCEPT ![job[t]] = Nobody]
  /\ ReplyWith(t, "ok")
  /\ UNCHANGED <<mapVars, starter, callVars>>

-----------------------------------------------------------------------------
(* Start. *)

StartJob(t) ==
  /\ At(t, "call", {"start"})
  /\ \/ \E j \in Jobs :
          /\ Create(t, j)
          /\ job' = [job EXCEPT ![t] = j]
          /\ starter' = [starter EXCEPT ![j] = user[t]]
          /\ Goto(t, "hold")
     \/ ReplyWith(t, "internal") /\ UNCHANGED <<mapVars, starter, job>>
  /\ UNCHANGED <<owner, user, op>>

\* Mutant: the call is answered once the job is in the map.
StartedUnowned(t) ==
  /\ At(t, "hold", {"start"})
  /\ List(t, job[t])
  /\ ReplyWith(t, "ok")
  /\ UNCHANGED <<owner, starter, callVars>>

Started(t) ==
  /\ At(t, "hold", {"start"})
  /\ List(t, job[t])
  /\ Goto(t, "own")
  /\ UNCHANGED <<owner, starter, callVars>>

-----------------------------------------------------------------------------
(* Stop, Inspect, Logs: one look at the map. *)

Found(t) == job[t] \in listed
NotFound(t) ==
  /\ ~Found(t)
  /\ ReplyWith(t, "notfound")
  /\ UNCHANGED mapVars

\* A stop by force ends the job at once, a graceful one later; a job that does
\* not run refuses, and the signal can fail.
StopJob(t) ==
  /\ At(t, "call", {"stop"})
  /\ \/ NotFound(t)
     \/ Found(t) /\ Finish(job[t]) /\ ReplyWith(t, "ok")
     \/ /\ Found(t)
        /\ \/ life[job[t]] = "running" /\ ReplyWith(t, "ok")
           \/ ReplyWith(t, "internal")
        /\ UNCHANGED mapVars
  /\ UNCHANGED <<owner, starter, callVars>>

Inspect(t) ==
  /\ At(t, "call", {"inspect"})
  /\ \/ NotFound(t)
     \/ Found(t) /\ ReplyWith(t, "ok") /\ UNCHANGED mapVars
  /\ UNCHANGED <<owner, starter, callVars>>

\* The stream itself is module LogStream; the output can fail to open.
Logs(t) ==
  /\ At(t, "call", {"logs"})
  /\ \/ NotFound(t)
     \/ /\ Found(t)
        /\ ReplyWith(t, "ok") \/ ReplyWith(t, "internal")
        /\ UNCHANGED mapVars
  /\ UNCHANGED <<owner, starter, callVars>>

-----------------------------------------------------------------------------
(* Remove. *)

RemoveJob(t) ==
  /\ At(t, "call", {"remove"})
  /\ \/ Unlink(t, job[t]) /\ Goto(t, "hold")
     \/ NotFound(t)
     \/ /\ Found(t)
        /\ life[job[t]] = "running"
        /\ ReplyWith(t, "internal")
        /\ UNCHANGED mapVars
  /\ UNCHANGED <<owner, starter, callVars>>

\* Mutants: the owner is removed although the job was put back; a job is put
\* back although it is removed.
RemovedAnyway(t) ==
  /\ At(t, "hold", {"remove"})
  /\ Purge(t, job[t]) \/ List(t, job[t])
  /\ Goto(t, "disown")
  /\ UNCHANGED <<owner, starter, callVars>>
RemovedTwice(t) ==
  /\ At(t, "hold", {"remove"})
  /\ \/ Purge(t, job[t]) /\ Goto(t, "disown")
     \/ /\ Become(job[t], "removed")
        /\ listed' = listed \cup {job[t]}
        /\ Drop(job[t])
        /\ UNCHANGED closing
        /\ Goto(t, "disown")
  /\ UNCHANGED <<owner, starter, callVars>>

\* Cleanup succeeds, or the job is put back.
Removed(t) ==
  /\ At(t, "hold", {"remove"})
  /\ \/ Purge(t, job[t]) /\ Goto(t, "disown")
     \/ List(t, job[t]) /\ ReplyWith(t, "internal")
  /\ UNCHANGED <<owner, starter, callVars>>

-----------------------------------------------------------------------------
Serve(t) ==
  \/ Check(t)
  \/ StartJob(t) \/ Started(t) \/ SetOwner(t)
  \/ StopJob(t) \/ Inspect(t) \/ Logs(t)
  \/ RemoveJob(t) \/ Removed(t) \/ Disown(t)
  \/ Reply(t)

\* What happens to the jobs outside the calls.
Background ==
  /\ Shutdown \/ \E j \in Jobs : Finish(j) \/ Sweep(j)
  /\ UNCHANGED <<owner, starter, step, callVars, reply>>

Next ==
  \/ \E t \in Threads :
       \/ Serve(t)
       \/ \E u \in Users, o \in Ops, j \in Jobs \cup {NoJob} : Receive(t, u, o, j)
  \/ Background

Spec == Init /\ [][Next]_vars

-----------------------------------------------------------------------------
\* Who may ask what of a job: "A client may access jobs started with the same
\* client ID", superusers, and for reading the superusers with read access
\* (rfd/0001-job-service.md:450).
Entitled(u, o, j) ==
  /\ starter[j] # Nobody
  /\ \/ Trimmed[starter[j]] = u
     \/ u \in Full
     \/ o \in {"inspect", "logs"} /\ u \in Read

\* A Start has not told its owner yet; a Remove has not forgotten him yet.
Starting(t, j) ==
  job[t] = j /\ op[t] = "start" /\ step[t] \in {"hold", "own"}
Leaving(t, j) ==
  job[t] = j /\ op[t] = "remove" /\ step[t] = "disown"

\* Every job that is not removed has its owner, however its Start, the cleanups
\* that failed and the calls of others came between: only its Start, before it
\* has answered, can see it without.
OwnedByStarter ==
  \A j \in Jobs :
    j \in listed \/ life[j] \in {"running", "over"} =>
      \/ owner[j] = Trimmed[starter[j]]
      \/ \E t \in Threads : Starting(t, j)

\* No owner stays behind: an entry is that of a job in the map, or in the hands
\* of a call which will put it back or forget the owner.  A Remove that overtook
\* the SetOwner of a Start would leave one for ever.
NoGhostOwners ==
  \A j \in Jobs :
    owner[j] # Nobody =>
      j \in listed \/ hold[j] # {} \/ \E t \in Threads : Leaving(t, j)

\* Who is not entitled to a job never touches it, and is never told that it is
\* there, although access is checked in one map and used in the other: by the
\* time a check is old, the job is the same or gone.
ActsWithAccess ==
  \A t \in Threads :
    /\ op[t] \notin {"start", "none"}
    /\ step[t] # "check"
    /\ step[t] = "reply" => reply[t] # "notfound"
    => Entitled(user[t], op[t], job[t])

\* Who is entitled to a job is told "not found" only of one that is removed, or
\* at that moment in the hands of another Start or Remove.
ToldNotFound(t) ==
  step[t] # "reply" /\ step'[t] = "reply" /\ reply'[t] = "notfound"
Away(j) ==
  life[j] = "removed" \/ hold[j] # {} \/ \E t \in Threads : Starting(t, j)
OwnerFindsJob ==
  [][\A t \in Threads :
       /\ ToldNotFound(t)
       /\ Entitled(user[t], op[t], job[t])
       /\ Trimmed[starter[job[t]]] # Nobody
       => Away(job[t])]_vars

\* Once a Remove has answered that it is done, nobody ever finds the job again
\* (TestRemove, integration_test.go:117), whatever other calls have begun before.
Gone(j) == life[j] = "removed" /\ j \notin listed /\ owner[j] = Nobody
SaidRemoved(t, j) ==
  /\ job[t] = j /\ op[t] = "remove"
  /\ step[t] = "reply" /\ reply[t] = "ok"
RemovedIsGone ==
  [][\A j \in Jobs :
       Gone(j) \/ (\E t \in Threads : SaidRemoved(t, j)) => Gone(j)']_vars
=============================================================================
