---------------------------- MODULE ServerProofs ----------------------------
(***************************************************************************)
(* Proofs about module Server, for any sets of jobs, calls and users.      *)
(***************************************************************************)
EXTENDS Server, JobMapProofs

\* What the step of a call says of the call itself ...
CallOK(t) ==
  /\ op[t] = "none" <=> step[t] = "idle"
  /\ step[t] = "check" => op[t] # "start"
  /\ step[t] = "own" => op[t] = "start"
  /\ step[t] = "disown" => op[t] = "remove"
  /\ step[t] = "hold" => op[t] \in {"start", "remove"} /\ t \in hold[job[t]]
  /\ op[t] \notin {"start", "none"} \/ step[t] \in {"hold", "own"}
       => job[t] \in Jobs

\* ... of the access it has: a job that passes the check has an owner, so its
\* Start is over ...
Admitted(t) ==
  /\ op[t] \notin {"start", "none"}
  /\ step[t] # "check"
  /\ step[t] = "reply" => reply[t] # "notfound"
AccessOK(t) ==
  Admitted(t) => /\ Entitled(user[t], op[t], job[t])
                 /\ Trimmed[starter[job[t]]] # Nobody
                 /\ \A u \in Threads : ~Starting(u, job[t])

\* ... and of the job it has in its hands.
StartOK(t) ==
  \A j \in Jobs :
    Starting(t, j) => /\ starter[j] = user[t]
                      /\ owner[j] = Nobody
                      /\ step[t] = "hold" => life[j] \in {"running", "over"}
                      /\ step[t] = "own" => j \in listed
                      /\ \A u \in Threads : Starting(u, j) => u = t
RemoveOK(t) ==
  \A j \in Jobs :
    /\ Leaving(t, j) => life[j] = "removed" /\ j \notin listed /\ hold[j] = {}
    /\ SaidRemoved(t, j) => Gone(j)

\* A job is in the map, or in the hands of one call, and then has its owner
\* unless that call is its Start.
KeptOK(j) ==
  /\ \A t \in hold[j] : step[t] = "hold" /\ job[t] = j
  /\ \A t, u \in hold[j] : t = u
  /\ hold[j] # {} => j \notin listed
  /\ j \in listed \/ hold[j] # {} => life[j] # "none"
  /\ life[j] \in {"running", "over"} => j \in listed \/ hold[j] # {}
OwnerOK(j) ==
  /\ starter[j] = Nobody <=> life[j] = "none"
  /\ owner[j] # Nobody => starter[j] # Nobody /\ owner[j] = Trimmed[starter[j]]
  /\ j \in listed \/ hold[j] # {} => \/ owner[j] = Trimmed[starter[j]]
                                     \/ \E t \in Threads : Starting(t, j)
  /\ owner[j] # Nobody => \/ j \in listed \/ hold[j] # {}
                          \/ \E t \in Threads : Leaving(t, j)

ServerInv ==
  /\ TypeOK
  /\ \A t \in Threads : CallOK(t) /\ AccessOK(t) /\ StartOK(t) /\ RemoveOK(t)
  /\ \A j \in Jobs : KeptOK(j) /\ OwnerOK(j)

\* Every step keeps the types of the variables.
LEMMA TypeStep == ServerInv /\ [Next]_vars => TypeOK'
<1> SUFFICES ASSUME ServerInv, [Next]_vars PROVE TypeOK'
  OBVIOUS
<1> USE UsersOK DEF ServerInv, Steps, Ops, mapVars, TypeOK, MapTypeOK
<1>1. CASE UNCHANGED vars
  BY <1>1 DEF vars, callVars
<1>2. ASSUME NEW t \in Threads, NEW u \in Users, NEW o \in Ops,
             NEW j \in Jobs \cup {NoJob}, Receive(t, u, o, j)
      PROVE  TypeOK'
  BY <1>2 DEF Receive, Request, Goto
<1>3. ASSUME NEW t \in Threads, Reply(t) PROVE TypeOK'
  BY <1>3 DEF Reply, Request
<1>4. ASSUME NEW t \in Threads, Check(t) PROVE TypeOK'
  BY <1>4 DEF Check, Granted, Goto, ReplyWith, callVars
<1>5. ASSUME NEW t \in Threads, StartJob(t) PROVE TypeOK'
  BY <1>5 DEF StartJob, At, Create, Become, Take, Goto, ReplyWith
<1>6. ASSUME NEW t \in Threads, Started(t) PROVE TypeOK'
  BY <1>6 DEF CallOK, Started, At, List, Drop, Goto, callVars
<1>7. ASSUME NEW t \in Threads, SetOwner(t) PROVE TypeOK'
  BY <1>7 DEF SetOwner, At, ReplyWith, callVars
<1>8. ASSUME NEW t \in Threads, StopJob(t) PROVE TypeOK'
  BY <1>8 DEF StopJob, At, NotFound, Found, Finish, Become, ReplyWith, callVars
<1>9. ASSUME NEW t \in Threads, Inspect(t) PROVE TypeOK'
  BY <1>9 DEF Inspect, At, NotFound, Found, ReplyWith, callVars
<1>10. ASSUME NEW t \in Threads, Logs(t) PROVE TypeOK'
  BY <1>10 DEF Logs, At, NotFound, Found, ReplyWith, callVars
<1>11. ASSUME NEW t \in Threads, RemoveJob(t) PROVE TypeOK'
  BY <1>11 DEF RemoveJob, At, NotFound, Found, Unlink, Take, Goto, ReplyWith,
     callVars
<1>12. ASSUME NEW t \in Threads, Removed(t) PROVE TypeOK'
  BY <1>12 DEF CallOK, Removed, At, Purge, List, Become, Drop, Goto, ReplyWith,
     callVars
<1>13. ASSUME NEW t \in Threads, Disown(t) PROVE TypeOK'
  BY <1>13 DEF Disown, At, ReplyWith, callVars
<1>14. ASSUME Background PROVE TypeOK'
  BY <1>14 DEF Background, Shutdown, Finish, Sweep, Become, callVars
<1> HIDE DEF TypeOK, MapTypeOK
<1> QED
  BY <1>1, <1>2, <1>3, <1>4, <1>5, <1>6, <1>7, <1>8, <1>9, <1>10, <1>11, <1>12,
     <1>13, <1>14 DEF Next, Serve

\* A call goes through its steps in their order.
LEMMA CallStep == ServerInv /\ [Next]_vars => \A c \in Threads : CallOK(c)'
<1> SUFFICES ASSUME ServerInv, [Next]_vars, NEW c \in Threads PROVE CallOK(c)'
  OBVIOUS
<1> USE UsersOK DEF ServerInv, Steps, Ops, mapVars, TypeOK, MapTypeOK, CallOK,
                    AccessOK, StartOK, RemoveOK, KeptOK, OwnerOK, Admitted,
                    Entitled, Starting, Leaving, SaidRemoved, Gone
<1>1. CASE UNCHANGED vars
  BY <1>1 DEF vars, callVars
<1>2. ASSUME NEW t \in Threads, NEW u \in Users, NEW o \in Ops,
             NEW j \in Jobs \cup {NoJob}, Receive(t, u, o, j)
      PROVE  CallOK(c)'
  BY <1>2 DEF Receive, Request, Goto
<1>3. ASSUME NEW t \in Threads, Reply(t) PROVE CallOK(c)'
  BY <1>3 DEF Reply, Request
<1>4. ASSUME NEW t \in Threads, Check(t) PROVE CallOK(c)'
  BY <1>4 DEF Check, Granted, Goto, ReplyWith, callVars
<1>5. ASSUME NEW t \in Threads, StartJob(t) PROVE CallOK(c)'
  BY <1>5 DEF StartJob, At, Create, Become, Take, Goto, ReplyWith
<1>6. ASSUME NEW t \in Threads, Started(t) PROVE CallOK(c)'
  BY <1>6 DEF Started, At, List, Drop, Goto, callVars
<1>7. ASSUME NEW t \in Threads, SetOwner(t) PROVE CallOK(c)'
  BY <1>7 DEF SetOwner, At, ReplyWith, callVars
<1>8. ASSUME NEW t \in Threads, StopJob(t) PROVE CallOK(c)'
  BY <1>8 DEF StopJob, At, NotFound, Found, Finish, Become, ReplyWith, callVars
<1>9. ASSUME NEW t \in Threads, Inspect(t) PROVE CallOK(c)'
  BY <1>9 DEF Inspect, At, NotFound, Found, ReplyWith, callVars
<1>10. ASSUME NEW t \in Threads, Logs(t) PROVE CallOK(c)'
  BY <1>10 DEF Logs, At, NotFound, Found, ReplyWith, callVars
<1>11. ASSUME NEW t \in Threads, RemoveJob(t) PROVE CallOK(c)'
  BY <1>11 DEF RemoveJob, At, NotFound, Found, Unlink, Take, Goto, ReplyWith,
     callVars
<1>12. ASSUME NEW t \in Threads, Removed(t) PROVE CallOK(c)'
  BY <1>12 DEF Removed, At, Purge, List, Become, Drop, Goto, ReplyWith, callVars
<1>13. ASSUME NEW t \in Threads, Disown(t) PROVE CallOK(c)'
  BY <1>13 DEF Disown, At, ReplyWith, callVars
<1>14. ASSUME Background PROVE CallOK(c)'
  BY <1>14 DEF Background, Shutdown, Finish, Sweep, Become, callVars
<1> HIDE DEF TypeOK, MapTypeOK, CallOK, AccessOK, StartOK, RemoveOK, KeptOK,
     OwnerOK, Admitted, Entitled, Starting, Leaving, SaidRemoved, Gone
<1> QED
  BY <1>1, <1>2, <1>3, <1>4, <1>5, <1>6, <1>7, <1>8, <1>9, <1>10, <1>11, <1>12,
     <1>13, <1>14 DEF Next, Serve

\* Access that was granted is not lost while the call lasts: a starter does not
\* change, and no Start comes back.
LEMMA AccessStep == ServerInv /\ [Next]_vars => \A c \in Threads : AccessOK(c)'
<1> SUFFICES ASSUME ServerInv, [Next]_vars, NEW c \in Threads PROVE AccessOK(c)'
  OBVIOUS
<1> USE UsersOK DEF ServerInv, Steps, Ops, mapVars, TypeOK, MapTypeOK, CallOK,
                    AccessOK, StartOK, RemoveOK, KeptOK, OwnerOK, Admitted,
                    Entitled, Starting, Leaving, SaidRemoved, Gone
<1>1. CASE UNCHANGED vars
  BY <1>1 DEF vars, callVars
<1>2. ASSUME NEW t \in Threads, NEW u \in Users, NEW o \in Ops,
             NEW j \in Jobs \cup {NoJob}, Receive(t, u, o, j)
      PROVE  AccessOK(c)'
  BY <1>2 DEF Receive, Request, Goto
<1>3. ASSUME NEW t \in Threads, Reply(t) PROVE AccessOK(c)'
  BY <1>3 DEF Reply, Request
<1>4. ASSUME NEW t \in Threads, Check(t) PROVE AccessOK(c)'
  BY <1>4 DEF Check, Granted, Goto, ReplyWith, callVars
<1>5. ASSUME NEW t \in Threads, StartJob(t) PROVE AccessOK(c)'
  BY <1>5 DEF StartJob, At, Create, Become, Take, Goto, ReplyWith
<1>6. ASSUME NEW t \in Threads, Started(t) PROVE AccessOK(c)'
  BY <1>6 DEF Started, At, List, Drop, Goto, callVars
<1>7. ASSUME NEW t \in Threads, SetOwner(t) PROVE AccessOK(c)'
  BY <1>7 DEF SetOwner, At, ReplyWith, callVars
<1>8. ASSUME NEW t \in Threads, StopJob(t) PROVE AccessOK(c)'
  BY <1>8 DEF StopJob, At, NotFound, Found, Finish, Become, ReplyWith, callVars
<1>9. ASSUME NEW t \in Threads, Inspect(t) PROVE AccessOK(c)'
  BY <1>9 DEF Inspect, At, NotFound, Found, ReplyWith, callVars
<1>10. ASSUME NEW t \in Threads, Logs(t) PROVE AccessOK(c)'
  BY <1>10 DEF Logs, At, NotFound, Found, ReplyWith, callVars
<1>11. ASSUME NEW t \in Threads, RemoveJob(t) PROVE AccessOK(c)'
  BY <1>11 DEF RemoveJob, At, NotFound, Found, Unlink, Take, Goto, ReplyWith,
     callVars
<1>12. ASSUME NEW t \in Threads, Removed(t) PROVE AccessOK(c)'
  BY <1>12 DEF Removed, At, Purge, List, Become, Drop, Goto, ReplyWith, callVars
<1>13. ASSUME NEW t \in Threads, Disown(t) PROVE AccessOK(c)'
  BY <1>13 DEF Disown, At, ReplyWith, callVars
<1>14. ASSUME Background PROVE AccessOK(c)'
  BY <1>14 DEF Background, Shutdown, Finish, Sweep, Become, callVars
<1> HIDE DEF TypeOK, MapTypeOK, CallOK, AccessOK, StartOK, RemoveOK, KeptOK,
     OwnerOK, Admitted, Entitled, Starting, Leaving, SaidRemoved, Gone
<1> QED
  BY <1>1, <1>2, <1>3, <1>4, <1>5, <1>6, <1>7, <1>8, <1>9, <1>10, <1>11, <1>12,
     <1>13, <1>14 DEF Next, Serve

\* A job that its Start has in hand has no owner, so no other call can get it.
LEMMA StartStep == ServerInv /\ [Next]_vars => \A c \in Threads : StartOK(c)'
<1> SUFFICES ASSUME ServerInv, [Next]_vars, NEW c \in Threads PROVE StartOK(c)'
  OBVIOUS
<1> USE UsersOK DEF ServerInv, Steps, Ops, mapVars, TypeOK, MapTypeOK, CallOK,
                    AccessOK, StartOK, RemoveOK, KeptOK, OwnerOK, Admitted,
                    Entitled, Starting, Leaving, SaidRemoved, Gone
<1>1. CASE UNCHANGED vars
  BY <1>1 DEF vars, callVars
<1>2. ASSUME NEW t \in Threads, NEW u \in Users, NEW o \in Ops,
             NEW j \in Jobs \cup {NoJob}, Receive(t, u, o, j)
      PROVE  StartOK(c)'
  BY <1>2 DEF Receive, Request, Goto
<1>3. ASSUME NEW t \in Threads, Reply(t) PROVE StartOK(c)'
  BY <1>3 DEF Reply, Request
<1>4. ASSUME NEW t \in Threads, Check(t) PROVE StartOK(c)'
  BY <1>4 DEF Check, Granted, Goto, ReplyWith, callVars
<1>5. ASSUME NEW t \in Threads, StartJob(t) PROVE StartOK(c)'
  BY <1>5 DEF StartJob, At, Create, Become, Take, Goto, ReplyWith
<1>6. ASSUME NEW t \in Threads, Started(t) PROVE StartOK(c)'
  BY <1>6 DEF Started, At, List, Drop, Goto, callVars
<1>7. ASSUME NEW t \in Threads, SetOwner(t) PROVE StartOK(c)'
  BY <1>7 DEF SetOwner, At, ReplyWith, callVars
<1>8. ASSUME NEW t \in Threads, StopJob(t) PROVE StartOK(c)'
  BY <1>8 DEF StopJob, At, NotFound, Found, Finish, Become, ReplyWith, callVars
<1>9. ASSUME NEW t \in Threads, Inspect(t) PROVE StartOK(c)'
  BY <1>9 DEF Inspect, At, NotFound, Found, ReplyWith, callVars
<1>10. ASSUME NEW t \in Threads, Logs(t) PROVE StartOK(c)'
  BY <1>10 DEF Logs, At, NotFound, Found, ReplyWith, callVars
<1>11. ASSUME NEW t \in Threads, RemoveJob(t) PROVE StartOK(c)'
  BY <1>11 DEF RemoveJob, At, NotFound, Found, Unlink, Take, Goto, ReplyWith,
     callVars
<1>12. ASSUME NEW t \in Threads, Removed(t) PROVE StartOK(c)'
  BY <1>12 DEF Removed, At, Purge, List, Become, Drop, Goto, ReplyWith, callVars
<1>13. ASSUME NEW t \in Threads, Disown(t) PROVE StartOK(c)'
  BY <1>13 DEF Disown, At, ReplyWith, callVars
<1>14. ASSUME Background PROVE StartOK(c)'
  BY <1>14 DEF Background, Shutdown, Finish, Sweep, Become, callVars
<1> HIDE DEF TypeOK, MapTypeOK, CallOK, AccessOK, StartOK, RemoveOK, KeptOK,
     OwnerOK, Admitted, Entitled, Starting, Leaving, SaidRemoved, Gone
<1> QED
  BY <1>1, <1>2, <1>3, <1>4, <1>5, <1>6, <1>7, <1>8, <1>9, <1>10, <1>11, <1>12,
     <1>13, <1>14 DEF Next, Serve

\* A job whose Remove is past its Cleanup is gone, and stays so.
LEMMA RemoveStep == ServerInv /\ [Next]_vars => \A c \in Threads : RemoveOK(c)'
<1> SUFFICES ASSUME ServerInv, [Next]_vars, NEW c \in Threads PROVE RemoveOK(c)'
  OBVIOUS
<1> USE UsersOK DEF ServerInv, Steps, Ops, mapVars, TypeOK, MapTypeOK, CallOK,
                    AccessOK, StartOK, RemoveOK, KeptOK, OwnerOK, Admitted,
                    Entitled, Starting, Leaving, SaidRemoved, Gone
<1>1. CASE UNCHANGED vars
  BY <1>1 DEF vars, callVars
<1>2. ASSUME NEW t \in Threads, NEW u \in Users, NEW o \in Ops,
             NEW j \in Jobs \cup {NoJob}, Receive(t, u, o, j)
      PROVE  RemoveOK(c)'
  BY <1>2 DEF Receive, Request, Goto
<1>3. ASSUME NEW t \in Threads, Reply(t) PROVE RemoveOK(c)'
  BY <1>3 DEF Reply, Request
<1>4. ASSUME NEW t \in Threads, Check(t) PROVE RemoveOK(c)'
  BY <1>4 DEF Check, Granted, Goto, ReplyWith, callVars
<1>5. ASSUME NEW t \in Threads, StartJob(t) PROVE RemoveOK(c)'
  BY <1>5 DEF StartJob, At, Create, Become, Take, Goto, ReplyWith
<1>6. ASSUME NEW t \in Threads, Started(t) PROVE RemoveOK(c)'
  BY <1>6 DEF Started, At, List, Drop, Goto, callVars
<1>7. ASSUME NEW t \in Threads, SetOwner(t) PROVE RemoveOK(c)'
  BY <1>7 DEF SetOwner, At, ReplyWith, callVars
<1>8. ASSUME NEW t \in Threads, StopJob(t) PROVE RemoveOK(c)'
  BY <1>8 DEF StopJob, At, NotFound, Found, Finish, Become, ReplyWith, callVars
<1>9. ASSUME NEW t \in Threads, Inspect(t) PROVE RemoveOK(c)'
  BY <1>9 DEF Inspect, At, NotFound, Found, ReplyWith, callVars
<1>10. ASSUME NEW t \in Threads, Logs(t) PROVE RemoveOK(c)'
  BY <1>10 DEF Logs, At, NotFound, Found, ReplyWith, callVars
<1>11. ASSUME NEW t \in Threads, RemoveJob(t) PROVE RemoveOK(c)'
  BY <1>11 DEF RemoveJob, At, NotFound, Found, Unlink, Take, Goto, ReplyWith,
     callVars
<1>12. ASSUME NEW t \in Threads, Removed(t) PROVE RemoveOK(c)'
  BY <1>12 DEF Removed, At, Purge, List, Become, Drop, Goto, ReplyWith, callVars
<1>13. ASSUME NEW t \in Threads, Disown(t) PROVE RemoveOK(c)'
  BY <1>13 DEF Disown, At, ReplyWith, callVars
<1>14. ASSUME Background PROVE RemoveOK(c)'
  BY <1>14 DEF Background, Shutdown, Finish, Sweep, Become, callVars
<1> HIDE DEF TypeOK, MapTypeOK, CallOK, AccessOK, StartOK, RemoveOK, KeptOK,
     OwnerOK, Admitted, Entitled, Starting, Leaving, SaidRemoved, Gone
<1> QED
  BY <1>1, <1>2, <1>3, <1>4, <1>5, <1>6, <1>7, <1>8, <1>9, <1>10, <1>11, <1>12,
     <1>13, <1>14 DEF Next, Serve

\* A Start changes nothing but the new job and its own call.
LEMMA StartEffect ==
  ASSUME ServerInv, NEW t \in Threads, NEW j \in Jobs, step[t] = "call",
         Create(t, j), job' = [job EXCEPT ![t] = j],
         starter' = [starter EXCEPT ![j] = user[t]], Goto(t, "hold"),
         UNCHANGED <<owner, user, op>>
  PROVE  /\ life'[j] = "running" /\ hold'[j] = {t} /\ starter'[j] = user[t]
         /\ step'[t] = "hold" /\ job'[t] = j
         /\ \A k \in Jobs \ {j} : /\ life'[k] = life[k] /\ hold'[k] = hold[k]
                                 /\ starter'[k] = starter[k]
         /\ \A u \in Threads \ {t} : step'[u] = step[u] /\ job'[u] = job[u]
         /\ \A k \in Jobs \ {j}, u \in Threads :
              (Starting(u, k)' <=> Starting(u, k)) /\ (Leaving(u, k)' <=> Leaving(u, k))
<1> USE DEF ServerInv, TypeOK, MapTypeOK
<1>1. /\ life'[j] = "running" /\ hold'[j] = {t} /\ starter'[j] = user[t]
      /\ \A k \in Jobs \ {j} : /\ life'[k] = life[k] /\ hold'[k] = hold[k]
                              /\ starter'[k] = starter[k]
  BY DEF Create, Become, Take
<1>2. /\ step'[t] = "hold" /\ job'[t] = j
      /\ \A u \in Threads \ {t} : step'[u] = step[u] /\ job'[u] = job[u]
  BY DEF Goto
<1>3. ASSUME NEW k \in Jobs \ {j}, NEW u \in Threads
      PROVE  (Starting(u, k)' <=> Starting(u, k)) /\ (Leaving(u, k)' <=> Leaving(u, k))
  <2>1. CASE u = t
    BY <1>2, <2>1 DEF Starting, Leaving
  <2>2. CASE u # t
    BY <1>2, <2>2 DEF Starting, Leaving
  <2> QED
    BY <2>1, <2>2
<1> QED
  BY <1>1, <1>2, <1>3

\* A job is in the map or in the hands of one call.
LEMMA KeptStep == ServerInv /\ [Next]_vars => \A k \in Jobs : KeptOK(k)'
<1> SUFFICES ASSUME ServerInv, [Next]_vars, NEW k \in Jobs PROVE KeptOK(k)'
  OBVIOUS
<1> USE UsersOK DEF ServerInv, Steps, Ops, mapVars, TypeOK, MapTypeOK, CallOK,
                    AccessOK, StartOK, RemoveOK, KeptOK, OwnerOK, Admitted,
                    Entitled, Starting, Leaving, SaidRemoved, Gone
<1>1. CASE UNCHANGED vars
  BY <1>1 DEF vars, callVars
<1>2. ASSUME NEW t \in Threads, NEW u \in Users, NEW o \in Ops,
             NEW j \in Jobs \cup {NoJob}, Receive(t, u, o, j)
      PROVE  KeptOK(k)'
  BY <1>2 DEF Receive, Request, Goto
<1>3. ASSUME NEW t \in Threads, Reply(t) PROVE KeptOK(k)'
  BY <1>3 DEF Reply, Request
<1>4. ASSUME NEW t \in Threads, Check(t) PROVE KeptOK(k)'
  BY <1>4 DEF Check, Granted, Goto, ReplyWith, callVars
<1>5. ASSUME NEW t \in Threads, StartJob(t) PROVE KeptOK(k)'
  <2> USE DEF At, Goto, ReplyWith
  <2>1. ASSUME NEW j \in Jobs, Create(t, j), job' = [job EXCEPT ![t] = j],
               starter' = [starter EXCEPT ![j] = user[t]], Goto(t, "hold")
        PROVE  KeptOK(k)'
    <3> HIDE DEF TypeOK, MapTypeOK, CallOK, AccessOK, StartOK, RemoveOK, KeptOK,
         OwnerOK, Starting, Leaving
    <3>0. /\ step[t] = "call" /\ life[j] = "none" /\ UNCHANGED <<owner, user, op>>
          /\ op[t] = "start" /\ UNCHANGED listed /\ KeptOK(j) /\ OwnerOK(j) /\ KeptOK(k)
      BY <1>5, <2>1 DEF StartJob, Create
    <3>1. /\ life'[j] = "running" /\ hold'[j] = {t} /\ starter'[j] = user[t]
          /\ step'[t] = "hold" /\ job'[t] = j
          /\ \A i \in Jobs \ {j} : /\ life'[i] = life[i] /\ hold'[i] = hold[i]
                                  /\ starter'[i] = starter[i]
          /\ \A u \in Threads \ {t} : step'[u] = step[u] /\ job'[u] = job[u]
          /\ \A i \in Jobs \ {j}, u \in Threads :
               (Starting(u, i)' <=> Starting(u, i)) /\ (Leaving(u, i)' <=> Leaving(u, i))
      BY <2>1, <3>0, StartEffect
    <3>2. CASE k = j
      BY <3>0, <3>1, <3>2 DEF KeptOK
    <3>3. CASE k # j
      <4>1. hold'[k] = hold[k] /\ life'[k] = life[k] /\ t \notin hold[k]
        BY <3>0, <3>1, <3>3 DEF KeptOK
      <4>2. hold[k] \subseteq Threads
        BY DEF TypeOK, MapTypeOK
      <4> QED
        BY <3>0, <3>1, <4>1, <4>2 DEF KeptOK
    <3> QED
      BY <3>2, <3>3
  <2>2. CASE ReplyWith(t, "internal") /\ UNCHANGED <<mapVars, starter, job>>
    BY <1>5, <2>2 DEF StartJob
  <2> QED
    BY <1>5, <2>1, <2>2 DEF StartJob
<1>6. ASSUME NEW t \in Threads, Started(t) PROVE KeptOK(k)'
  BY <1>6 DEF Started, At, List, Drop, Goto, callVars
<1>7. ASSUME NEW t \in Threads, SetOwner(t) PROVE KeptOK(k)'
  BY <1>7 DEF SetOwner, At, ReplyWith, callVars
<1>8. ASSUME NEW t \in Threads, StopJob(t) PROVE KeptOK(k)'
  BY <1>8 DEF StopJob, At, NotFound, Found, Finish, Become, ReplyWith, callVars
<1>9. ASSUME NEW t \in Threads, Inspect(t) PROVE KeptOK(k)'
  BY <1>9 DEF Inspect, At, NotFound, Found, ReplyWith, callVars
<1>10. ASSUME NEW t \in Threads, Logs(t) PROVE KeptOK(k)'
  BY <1>10 DEF Logs, At, NotFound, Found, ReplyWith, callVars
<1>11. ASSUME NEW t \in Threads, RemoveJob(t) PROVE KeptOK(k)'
  <2> USE DEF At, Goto, ReplyWith, callVars
  <2>1. job[t] \in Jobs /\ op[t] = "remove" /\ step[t] = "call"
    BY <1>11 DEF RemoveJob
  <2>2. CASE Unlink(t, job[t]) /\ Goto(t, "hold")
    <3>1. CASE k = job[t]
      BY <1>11, <2>1, <2>2, <3>1 DEF RemoveJob, Unlink, Take
    <3>2. CASE k # job[t]
      BY <1>11, <2>1, <2>2, <3>2 DEF RemoveJob, Unlink, Take
    <3> QED
      BY <3>1, <3>2
  <2>3. CASE UNCHANGED mapVars /\ step' = [step EXCEPT ![t] = "reply"]
    BY <1>11, <2>1, <2>3 DEF RemoveJob
  <2> QED
    BY <1>11, <2>2, <2>3 DEF RemoveJob, NotFound
<1>12. ASSUME NEW t \in Threads, Removed(t) PROVE KeptOK(k)'
  BY <1>12 DEF Removed, At, Purge, List, Become, Drop, Goto, ReplyWith, callVars
<1>13. ASSUME NEW t \in Threads, Disown(t) PROVE KeptOK(k)'
  BY <1>13 DEF Disown, At, ReplyWith, callVars
<1>14. ASSUME Background PROVE KeptOK(k)'
  BY <1>14 DEF Background, Shutdown, Finish, Sweep, Become, callVars
<1> HIDE DEF TypeOK, MapTypeOK, CallOK, AccessOK, StartOK, RemoveOK, KeptOK,
     OwnerOK, Admitted, Entitled, Starting, Leaving, SaidRemoved, Gone
<1> QED
  BY <1>1, <1>2, <1>3, <1>4, <1>5, <1>6, <1>7, <1>8, <1>9, <1>10, <1>11, <1>12,
     <1>13, <1>14 DEF Next, Serve

\* Owners follow the jobs.
LEMMA OwnerStep == ServerInv /\ [Next]_vars => \A k \in Jobs : OwnerOK(k)'
<1> SUFFICES ASSUME ServerInv, [Next]_vars, NEW k \in Jobs PROVE OwnerOK(k)'
  OBVIOUS
<1> USE UsersOK DEF ServerInv, Steps, Ops, mapVars, TypeOK, MapTypeOK, CallOK,
                    AccessOK, StartOK, RemoveOK, KeptOK, OwnerOK, Admitted,
                    Entitled, Starting, Leaving, SaidRemoved, Gone
<1>1. CASE UNCHANGED vars
  BY <1>1 DEF vars, callVars
<1>2. ASSUME NEW t \in Threads, NEW u \in Users, NEW o \in Ops,
             NEW j \in Jobs \cup {NoJob}, Receive(t, u, o, j)
      PROVE  OwnerOK(k)'
  <2>1. UNCHANGED <<listed, life, hold, owner, starter>>
    BY <1>2 DEF Receive, Request
  <2>2. ASSUME NEW v \in Threads
        PROVE  (Starting(v, k)' <=> Starting(v, k)) /\ (Leaving(v, k)' <=> Leaving(v, k))
    BY <1>2 DEF Receive, Request, Goto
  <2> HIDE DEF Starting, Leaving, Gone, SaidRemoved, Admitted
  <2> QED
    BY <2>1, <2>2
<1>3. ASSUME NEW t \in Threads, Reply(t) PROVE OwnerOK(k)'
  BY <1>3 DEF Reply, Request
<1>4. ASSUME NEW t \in Threads, Check(t) PROVE OwnerOK(k)'
  BY <1>4 DEF Check, Granted, Goto, ReplyWith, callVars
<1>5. ASSUME NEW t \in Threads, StartJob(t) PROVE OwnerOK(k)'
  <2> USE DEF At, Goto, ReplyWith
  <2>1. ASSUME NEW j \in Jobs, Create(t, j), job' = [job EXCEPT ![t] = j],
               starter' = [starter EXCEPT ![j] = user[t]], Goto(t, "hold")
        PROVE  OwnerOK(k)'
    <3> HIDE DEF TypeOK, MapTypeOK, CallOK, AccessOK, StartOK, RemoveOK, KeptOK,
         OwnerOK, Starting, Leaving
    <3>0. /\ step[t] = "call" /\ life[j] = "none" /\ UNCHANGED <<owner, user, op>>
          /\ op[t] = "start" /\ UNCHANGED listed /\ KeptOK(j) /\ OwnerOK(j) /\ OwnerOK(k)
      BY <1>5, <2>1 DEF StartJob, Create
    <3>1. /\ life'[j] = "running" /\ hold'[j] = {t} /\ starter'[j] = user[t]
          /\ step'[t] = "hold" /\ job'[t] = j
          /\ \A i \in Jobs \ {j} : /\ life'[i] = life[i] /\ hold'[i] = hold[i]
                                  /\ starter'[i] = starter[i]
          /\ \A u \in Threads \ {t} : step'[u] = step[u] /\ job'[u] = job[u]
          /\ \A i \in Jobs \ {j}, u \in Threads :
               (Starting(u, i)' <=> Starting(u, i)) /\ (Leaving(u, i)' <=> Leaving(u, i))
      BY <2>1, <3>0, StartEffect
    <3>2. CASE k = j
      <4>1. Starting(t, j)'
        BY <3>0, <3>1 DEF Starting
      <4>2. user[t] # Nobody /\ owner[j] = Nobody
        BY <3>0 DEF TypeOK, OwnerOK
      <4> QED
        BY <3>0, <3>1, <3>2, <4>1, <4>2 DEF OwnerOK
    <3>3. CASE k # j
      BY <3>0, <3>1, <3>3 DEF OwnerOK
    <3> QED
      BY <3>2, <3>3
  <2>2. CASE ReplyWith(t, "internal") /\ UNCHANGED <<mapVars, starter, job>>
    BY <1>5, <2>2 DEF StartJob
  <2> QED
    BY <1>5, <2>1, <2>2 DEF StartJob
<1>6. ASSUME NEW t \in Threads, Started(t) PROVE OwnerOK(k)'
  BY <1>6 DEF Started, At, List, Drop, Goto, callVars
<1>7. ASSUME NEW t \in Threads, SetOwner(t) PROVE OwnerOK(k)'
  BY <1>7 DEF SetOwner, At, ReplyWith, callVars
<1>8. ASSUME NEW t \in Threads, StopJob(t) PROVE OwnerOK(k)'
  BY <1>8 DEF StopJob, At, NotFound, Found, Finish, Become, ReplyWith, callVars
<1>9. ASSUME NEW t \in Threads, Inspect(t) PROVE OwnerOK(k)'
  BY <1>9 DEF Inspect, At, NotFound, Found, ReplyWith, callVars
<1>10. ASSUME NEW t \in Threads, Logs(t) PROVE OwnerOK(k)'
  BY <1>10 DEF Logs, At, NotFound, Found, ReplyWith, callVars
<1>11. ASSUME NEW t \in Threads, RemoveJob(t) PROVE OwnerOK(k)'
  <2> USE DEF At, Goto, ReplyWith, callVars
  <2>1. job[t] \in Jobs /\ op[t] = "remove" /\ step[t] = "call"
    BY <1>11 DEF RemoveJob
  <2>2. CASE Unlink(t, job[t]) /\ Goto(t, "hold")
    <3>1. CASE k = job[t]
      BY <1>11, <2>1, <2>2, <3>1 DEF RemoveJob, Unlink, Take
    <3>2. CASE k # job[t]
      BY <1>11, <2>1, <2>2, <3>2 DEF RemoveJob, Unlink, Take
    <3> QED
      BY <3>1, <3>2
  <2>3. CASE UNCHANGED mapVars /\ step' = [step EXCEPT ![t] = "reply"]
    BY <1>11, <2>1, <2>3 DEF RemoveJob
  <2> QED
    BY <1>11, <2>2, <2>3 DEF RemoveJob, NotFound
<1>12. ASSUME NEW t \in Threads, Removed(t) PROVE OwnerOK(k)'
  BY <1>12 DEF Removed, At, Purge, List, Become, Drop, Goto, ReplyWith, callVars
<1>13. ASSUME NEW t \in Threads, Disown(t) PROVE OwnerOK(k)'
  BY <1>13 DEF Disown, At, ReplyWith, callVars
<1>14. ASSUME Background PROVE OwnerOK(k)'
  BY <1>14 DEF Background, Shutdown, Finish, Sweep, Become, callVars
<1> HIDE DEF TypeOK, MapTypeOK, CallOK, AccessOK, StartOK, RemoveOK, KeptOK,
     OwnerOK, Admitted, Entitled, Starting, Leaving, SaidRemoved, Gone
<1> QED
  BY <1>1, <1>2, <1>3, <1>4, <1>5, <1>6, <1>7, <1>8, <1>9, <1>10, <1>11, <1>12,
     <1>13, <1>14 DEF Next, Serve

\* The invariant holds of a server that has just started.
LEMMA InitOK == Init => ServerInv
<1> SUFFICES ASSUME Init PROVE ServerInv
  OBVIOUS
<1> USE UsersOK DEF Init, MapInit
<1>1. TypeOK
  BY DEF TypeOK, MapTypeOK, Steps, Ops
<1>2. ASSUME NEW t \in Threads
      PROVE  CallOK(t) /\ AccessOK(t) /\ StartOK(t) /\ RemoveOK(t)
  BY DEF CallOK, AccessOK, StartOK, RemoveOK, Admitted, Starting, Leaving,
     SaidRemoved
<1>3. ASSUME NEW j \in Jobs PROVE KeptOK(j) /\ OwnerOK(j)
  BY DEF KeptOK, OwnerOK
<1> QED
  BY <1>1, <1>2, <1>3 DEF ServerInv

-----------------------------------------------------------------------------
\* Whatever calls come between each other, the two maps agree as ServerInv says.
THEOREM Invariant == Spec => []ServerInv
<1>1. ServerInv /\ [Next]_vars => ServerInv'
  BY TypeStep, CallStep, AccessStep, StartStep, RemoveStep, KeptStep, OwnerStep
  DEF ServerInv
<1> QED
  BY InitOK, <1>1, PTL DEF Spec

\* Every job that is not removed has its owner, once its Start has answered.
THEOREM JobsKeepTheirOwner == Spec => []OwnedByStarter
<1>1. ServerInv => OwnedByStarter
  BY DEF ServerInv, KeptOK, OwnerOK, OwnedByStarter
<1> QED
  BY <1>1, Invariant, PTL

\* No owner entry outlives its job.
THEOREM NoOwnerStaysBehind == Spec => []NoGhostOwners
<1>1. ServerInv => NoGhostOwners
  BY DEF ServerInv, OwnerOK, NoGhostOwners
<1> QED
  BY <1>1, Invariant, PTL

\* No call of a user who is not entitled to the job gets past the check, and
\* what the check has granted still holds when it is used.
THEOREM OnlyEntitledAct == Spec => []ActsWithAccess
<1>1. ServerInv => ActsWithAccess
  BY DEF ServerInv, AccessOK, Admitted, ActsWithAccess
<1> QED
  BY <1>1, Invariant, PTL

\* An entitled user is told "not found" only of a job that is removed or in the
\* hands of another call.
THEOREM EntitledFindTheJob == Spec => OwnerFindsJob
<1>1. ASSUME ServerInv, [Next]_vars, NEW t \in Threads, ToldNotFound(t),
             Entitled(user[t], op[t], job[t]), Trimmed[starter[job[t]]] # Nobody
      PROVE  Away(job[t])
  <2> USE UsersOK DEF ServerInv, TypeOK, MapTypeOK, Steps, Ops
  <2>1. op[t] \notin {"start", "none"} /\ (Check(t) \/ NotFound(t))
    <3>1. ASSUME NEW u \in Threads, NEW v \in Users, NEW o \in Ops,
                 NEW j \in Jobs \cup {NoJob}, Receive(u, v, o, j)
          PROVE  FALSE
      BY <1>1, <3>1 DEF ToldNotFound, Receive, Goto
    <3>2. ASSUME NEW u \in Threads, Serve(u)
          PROVE  op[t] \notin {"start", "none"} /\ (Check(t) \/ NotFound(t))
      BY <1>1, <3>2 DEF ToldNotFound, Serve, Check, StartJob, Started, SetOwner,
         StopJob, Inspect, Logs, RemoveJob, Removed, Disown, Reply, At, Goto,
         ReplyWith, NotFound, CallOK
    <3>3. ~Background /\ ~UNCHANGED vars
      BY <1>1 DEF ToldNotFound, Background, vars
    <3> QED
      BY <1>1, <3>1, <3>2, <3>3 DEF Next
  <2>2. job[t] \in Jobs /\ life[job[t]] # "none"
    BY <1>1, <2>1 DEF CallOK, OwnerOK, Entitled
  <2>3. CASE Check(t)
    BY <1>1, <2>2, <2>3 DEF ToldNotFound, Check, Granted, Goto, Entitled,
       OwnerOK, KeptOK, Away
  <2>4. CASE NotFound(t)
    BY <1>1, <2>2, <2>4 DEF NotFound, Found, KeptOK, Away
  <2> QED
    BY <2>1, <2>3, <2>4
<1>2. ServerInv /\ [Next]_vars =>
        [\A t \in Threads :
           /\ ToldNotFound(t)
           /\ Entitled(user[t], op[t], job[t])
           /\ Trimmed[starter[job[t]]] # Nobody
           => Away(job[t])]_vars
  BY <1>1
<1> QED
  BY <1>2, Invariant, PTL DEF Spec, OwnerFindsJob

\* A job that a Remove has reported as removed is never found again.
THEOREM RemovedStaysGone == Spec => RemovedIsGone
<1>1. ASSUME ServerInv, [Next]_vars, NEW k \in Jobs, Gone(k) PROVE Gone(k)'
  <2> USE UsersOK, <1>1 DEF ServerInv, TypeOK, MapTypeOK, mapVars, Gone
  <2>1. \A t \in Threads : ~Starting(t, k)
    BY DEF StartOK, Starting, KeptOK, CallOK
  <2>2. hold[k] = {}
    BY <2>1 DEF KeptOK, CallOK, AccessOK, Admitted, OwnerOK, Starting
  <2>3. CASE UNCHANGED vars
    BY <2>3 DEF vars
  <2>4. CASE Background
    BY <2>4 DEF Background, Shutdown, Finish, Sweep, Become
  <2>5. ASSUME NEW t \in Threads, NEW u \in Users, NEW o \in Ops,
               NEW j \in Jobs \cup {NoJob}, Receive(t, u, o, j)
        PROVE  Gone(k)'
    BY <2>5 DEF Receive, Request
  <2>6. ASSUME NEW t \in Threads, StartJob(t) \/ Started(t) \/ SetOwner(t)
        PROVE  Gone(k)'
    BY <2>1, <2>2, <2>6 DEF StartJob, Started, SetOwner, Create, List, Become,
       Take, Drop, At, Starting, CallOK
  <2>7. ASSUME NEW t \in Threads, StopJob(t) \/ Inspect(t) \/ Logs(t)
        PROVE  Gone(k)'
    BY <2>7 DEF StopJob, Inspect, Logs, NotFound, Finish, Become
  <2>8. ASSUME NEW t \in Threads, RemoveJob(t) \/ Removed(t) \/ Disown(t)
        PROVE  Gone(k)'
    BY <2>2, <2>8 DEF RemoveJob, Removed, Disown, NotFound, Unlink, Purge, List,
       Become, Take, Drop, At, CallOK
  <2>9. ASSUME NEW t \in Threads, Check(t) \/ Reply(t) PROVE Gone(k)'
    BY <2>9 DEF Check, Reply, Request
  <2> QED
    BY <2>3, <2>4, <2>5, <2>6, <2>7, <2>8, <2>9 DEF Next, Serve
<1>2. ASSUME ServerInv, NEW j \in Jobs, NEW t \in Threads, SaidRemoved(t, j)
      PROVE  Gone(j)
  BY <1>2 DEF ServerInv, RemoveOK
<1>3. ServerInv /\ [Next]_vars =>
        [\A j \in Jobs :
           Gone(j) \/ (\E t \in Threads : SaidRemoved(t, j)) => Gone(j)']_vars
  BY <1>1, <1>2
<1> QED
  BY <1>3, Invariant, PTL DEF Spec, RemovedIsGone

-----------------------------------------------------------------------------
\* The variables keep their types.
THEOREM TypeCorrect == Spec => []TypeOK
<1>1. ServerInv => TypeOK
  BY DEF ServerInv
<1> QED
  BY <1>1, Invariant, PTL

\* A step of a call is one of the map's, or leaves the map alone.
LEMMA CallsUseTheMap ==
  ASSUME ServerInv, NEW t \in Threads, Serve(t) PROVE [MapNext]_mapVars
<1>1. CASE Check(t) \/ SetOwner(t) \/ Disown(t) \/ Inspect(t) \/ Logs(t) \/ Reply(t)
  BY <1>1 DEF Check, SetOwner, Disown, Inspect, Logs, NotFound, Reply, Request
<1>2. CASE StartJob(t)
  BY <1>2 DEF StartJob, MapNext
<1>3. CASE Started(t) \/ Removed(t)
  <2>1. job[t] \in Jobs
    BY <1>3 DEF ServerInv, CallOK, Started, Removed, At
  <2> QED
    BY <1>3, <2>1 DEF Started, Removed, MapNext
<1>4. CASE StopJob(t)
  <2>1. job[t] \in Jobs
    BY <1>4 DEF ServerInv, CallOK, StopJob, At
  <2> QED
    BY <1>4, <2>1 DEF StopJob, NotFound, MapNext
<1>5. CASE RemoveJob(t)
  <2>1. job[t] \in Jobs
    BY <1>5 DEF ServerInv, CallOK, RemoveJob, At
  <2> QED
    BY <1>5, <2>1 DEF RemoveJob, NotFound, MapNext
<1> QED
  BY <1>1, <1>2, <1>3, <1>4, <1>5 DEF Serve

\* The API uses the jobs in no other way than JobMap allows, so that what is
\* proved of the map holds under it.
THEOREM UsesTheMap == Spec => MapSpec
<1>1. ServerInv /\ [Next]_vars => [MapNext]_mapVars
  <2> SUFFICES ASSUME ServerInv, [Next]_vars PROVE [MapNext]_mapVars
    OBVIOUS
  <2>1. CASE UNCHANGED vars
    BY <2>1 DEF vars
  <2>2. ASSUME NEW t \in Threads, NEW u \in Users, NEW o \in Ops,
               NEW j \in Jobs \cup {NoJob}, Receive(t, u, o, j)
        PROVE  UNCHANGED mapVars
    BY <2>2 DEF Receive, Request
  <2>3. CASE Background
    BY <2>3 DEF Background, MapNext
  <2> QED
    BY <2>1, <2>2, <2>3, CallsUseTheMap DEF Next
<1>2. Init => MapInit
  BY DEF Init
<1> QED
  BY <1>1, <1>2, Invariant, PTL DEF Spec, MapSpec

\* Nothing the API does brings a job to life again, whatever users ask for at once.
THEOREM ClientsSeeOneLife == Spec => [][\A j \in Jobs : Aged(j)]_mapVars
  BY UsesTheMap, LivesGoOnward, PTL

\* A job never changes hands: it loses its owner only when it is removed, and gets
\* one only from its own Start, before which nobody could reach it.
SameHands(j) ==
  /\ owner[j] # Nobody =>
       owner'[j] = owner[j] \/ (owner'[j] = Nobody /\ life[j] = "removed")
  /\ owner[j] = Nobody /\ owner'[j] # Nobody =>
       \E t \in Threads : Starting(t, j) /\ owner'[j] = Trimmed[user[t]]

\* Only SetOwner and Disown touch the owners, and they find what the invariant says.
LEMMA HandsStep ==
  ASSUME ServerInv, [Next]_vars, NEW k \in Jobs PROVE SameHands(k)
<1>1. CASE UNCHANGED owner
  BY <1>1 DEF SameHands
<1>2. ASSUME NEW t \in Threads, SetOwner(t) PROVE SameHands(k)
  <2>1. At(t, "own", {"start"}) /\ owner \in [Jobs -> Users \cup {Nobody}]
    BY <1>2 DEF SetOwner, ServerInv, TypeOK
  <2>2. job[t] \in Jobs /\ owner[job[t]] = Nobody /\ Starting(t, job[t])
    BY <2>1 DEF ServerInv, CallOK, StartOK, Starting, At
  <2>3. owner' = [owner EXCEPT ![job[t]] = owner'[job[t]]]
    BY <1>2, <2>1, <2>2 DEF SetOwner
  <2>4. owner'[job[t]] \in {Nobody, Trimmed[user[t]]}
    BY <1>2, <2>1, <2>2 DEF SetOwner
  <2> QED
    BY <2>1, <2>2, <2>3, <2>4 DEF SameHands
<1>3. ASSUME NEW t \in Threads, Disown(t) PROVE SameHands(k)
  <2>1. At(t, "disown", {"remove"}) /\ owner' = [owner EXCEPT ![job[t]] = Nobody]
    BY <1>3 DEF Disown
  <2>2. job[t] \in Jobs /\ Leaving(t, job[t])
    BY <2>1 DEF ServerInv, CallOK, Leaving, At
  <2>3. life[job[t]] = "removed" /\ owner \in [Jobs -> Users \cup {Nobody}]
    BY <2>2 DEF ServerInv, RemoveOK, TypeOK
  <2> QED
    BY <2>1, <2>2, <2>3 DEF SameHands
<1>4. ASSUME NEW t \in Threads, Serve(t), ~SetOwner(t), ~Disown(t)
      PROVE  UNCHANGED owner
  BY <1>4 DEF Serve, Check, StartJob, Started, StopJob, Inspect, Logs, RemoveJob,
     Removed, Reply, Request
<1>5. ASSUME NEW t \in Threads, NEW u \in Users, NEW o \in Ops,
             NEW j \in Jobs \cup {NoJob}, Receive(t, u, o, j)
      PROVE  UNCHANGED owner
  BY <1>5 DEF Receive, Request
<1>6. CASE Background \/ UNCHANGED vars
  BY <1>1, <1>6 DEF Background, vars
<1> QED
  BY <1>1, <1>2, <1>3, <1>4, <1>5, <1>6 DEF Next

\* Whoever owns a job keeps it until it is removed; no Start, however late, and no
\* Remove takes over or drops the job of another.
THEOREM NoJobChangesHands == Spec => [][\A j \in Jobs : SameHands(j)]_vars
<1>1. ServerInv /\ [Next]_vars => [\A j \in Jobs : SameHands(j)]_vars
  BY HandsStep
<1> QED
  BY <1>1, Invariant, PTL DEF Spec
=============================================================================
