----------------------------- MODULE CertLoader -----------------------------
(***************************************************************************)
(* The TLS certificate of the server: pkg/certloader.  An operator changes *)
(* two files on disk, one after the other, while the server runs; a Loader *)
(* reads them again at every tick, one after the other, under its lock;    *)
(* TLS handshakes take the last good pair under the same lock (RLock).     *)
(*                                                                         *)
(* The code never sets Loader.started: Start can be called again, and runs *)
(* one more watcher each time; Stop returns at once and changes nothing.   *)
(***************************************************************************)
EXTENDS Naturals

CONSTANTS
  Callers,    \* the goroutines that call Start
  Watchers,   \* bound: the watcher goroutines that Start can run
  Conns,      \* the TLS handshakes under way
  MaxGen,     \* bound: the certificates the operator installs
  KeyOf,      \* the key of each; a renewal may keep the key
  Nobody      \* has the lock

Loaders == Callers \cup Watchers
Gens    == 1 .. MaxGen
NoGen   == 0    \* a file that is missing or cut short; a nil certificate
Keys    == {KeyOf[n] : n \in Gens}

ASSUME LoadersOK == Callers \cap Watchers = {} /\ Nobody \notin Loaders
ASSUME GensOK == MaxGen \in Nat /\ KeyOf \in [Gens -> Nat \ {NoGen}]

VARIABLES
  gen,        \* the newest certificate there is
  certFile, keyFile,
  cert,       \* Loader.cert, and the key it was loaded with
  writer,     \* who has lock.Lock()
  pc,         \* what each loader does
  part,       \* what it has read from the certificate file
  conn,       \* what each handshake does
  given       \* the pair it was given last

fileVars == <<gen, certFile, keyFile>>
connVars == <<conn, given>>
vars == <<fileVars, cert, writer, pc, part, connVars>>

Pair == [cert : Gens \cup {NoGen}, key : Keys \cup {NoGen}]
NoPair == [cert |-> NoGen, key |-> NoGen]

TypeOK ==
  /\ gen \in Gens \cup {NoGen}
  /\ certFile \in Gens \cup {NoGen}
  /\ keyFile \in Keys \cup {NoGen}
  /\ cert \in Pair
  /\ writer \in Loaders \cup {Nobody}
  /\ pc \in [Loaders -> {"none", "idle", "cert", "key"}]
  /\ part \in [Loaders -> Gens \cup {NoGen}]
  /\ conn \in [Conns -> {"idle", "hello"}]
  /\ given \in [Conns -> Pair]
  /\ \A l \in Loaders : writer = l <=> pc[l] \in {"cert", "key"}

Init ==
  /\ gen = NoGen
  /\ certFile = NoGen
  /\ keyFile = NoGen
  /\ cert = NoPair
  /\ writer = Nobody
  /\ pc = [l \in Loaders |-> IF l \in Callers THEN "idle" ELSE "none"]
  /\ part = [l \in Loaders |-> NoGen]
  /\ conn = [c \in Conns |-> "idle"]
  /\ given = [c \in Conns |-> NoPair]

-----------------------------------------------------------------------------
(* The operator: a new certificate is written over the old one, its key over *)
(* the old key, in either order; a file that is being written is cut short.  *)

NewGen ==
  /\ gen < MaxGen
  /\ gen' = gen + 1
  /\ UNCHANGED <<certFile, keyFile, cert, writer, pc, part, connVars>>

WriteFile ==
  /\ gen # NoGen
  /\ \/ certFile' \in {NoGen, gen} /\ UNCHANGED keyFile
     \/ keyFile' \in {NoGen, KeyOf[gen]} /\ UNCHANGED certFile
  /\ UNCHANGED <<gen, cert, writer, pc, part, connVars>>

-----------------------------------------------------------------------------
(* The loader. *)

\* Mutant: load() without the lock.
LockForgotten(l) ==
  /\ pc[l] = "idle"
  /\ pc' = [pc EXCEPT ![l] = "cert"]
  /\ UNCHANGED <<fileVars, cert, writer, part, connVars>>

\* lock.Lock(), of Start in a caller, and of reload, after a tick, in a watcher.
Lock(l) ==
  /\ pc[l] = "idle"
  /\ writer = Nobody
  /\ writer' = l
  /\ pc' = [pc EXCEPT ![l] = "cert"]
  /\ UNCHANGED <<fileVars, cert, part, connVars>>

\* Bound: there is a watcher left to run.
Start(c) == Lock(c) /\ \E w \in Watchers : pc[w] = "none"
Tick(w)  == Lock(w)

\* LoadX509KeyPair reads one file ...
ReadCert(l) ==
  /\ pc[l] = "cert"
  /\ part' = [part EXCEPT ![l] = certFile]
  /\ pc' = [pc EXCEPT ![l] = "key"]
  /\ UNCHANGED <<fileVars, cert, writer, connVars>>

\* Mutant: the key is not compared with the certificate.
MatchesAny(n) == n # NoGen /\ keyFile # NoGen

\* ... and the other, and compares.
Matches(n) == n # NoGen /\ keyFile = KeyOf[n]

\* Mutant: a failed load leaves no certificate.
LoadedOrNil(l) ==
  cert' = IF Matches(part[l]) THEN [cert |-> part[l], key |-> keyFile]
                              ELSE NoPair

\* l.cert = cert, unless the load has failed.
Loaded(l) ==
  cert' = IF Matches(part[l]) THEN [cert |-> part[l], key |-> keyFile]
                              ELSE cert

\* Mutant: the watcher ends when a reload has failed.
GoOnUnlessFailed(l) ==
  \/ /\ l \in Callers
     /\ Matches(part[l])
     /\ \E w \in Watchers :
          pc[w] = "none" /\ pc' = [pc EXCEPT ![l] = "idle", ![w] = "idle"]
  \/ /\ l \in Watchers \/ ~Matches(part[l])
     /\ pc' = [pc EXCEPT ![l] =
                 IF Matches(part[l]) \/ l \in Callers THEN "idle" ELSE "none"]

\* A Start that has loaded the pair runs a watcher; a watcher goes on in any
\* case; a Start that has failed returns its error.
GoOn(l) ==
  \/ /\ l \in Callers
     /\ Matches(part[l])
     /\ \E w \in Watchers :
          pc[w] = "none" /\ pc' = [pc EXCEPT ![l] = "idle", ![w] = "idle"]
  \/ /\ l \in Watchers \/ ~Matches(part[l])
     /\ pc' = [pc EXCEPT ![l] = "idle"]

\* Mutant: the lock is not released when the load has failed.
ReadKeyLocked(l) ==
  /\ pc[l] = "key"
  /\ Loaded(l)
  /\ GoOn(l)
  /\ writer' = IF Matches(part[l]) THEN Nobody ELSE writer
  /\ part' = [part EXCEPT ![l] = NoGen]
  /\ UNCHANGED <<fileVars, connVars>>

ReadKey(l) ==
  /\ pc[l] = "key"
  /\ Loaded(l)
  /\ GoOn(l)
  /\ writer' = Nobody
  /\ part' = [part EXCEPT ![l] = NoGen]
  /\ UNCHANGED <<fileVars, connVars>>

-----------------------------------------------------------------------------
(* TLS handshakes. *)

\* main listens once its Start has succeeded.
Hello(c) ==
  /\ conn[c] = "idle"
  /\ cert # NoPair
  /\ conn' = [conn EXCEPT ![c] = "hello"]
  /\ UNCHANGED <<fileVars, cert, writer, pc, part, given>>

\* GetCertificate: Loader.Cert().
GetCertificate(c) ==
  /\ conn[c] = "hello"
  /\ writer = Nobody
  /\ given' = [given EXCEPT ![c] = cert]
  /\ conn' = [conn EXCEPT ![c] = "idle"]
  /\ UNCHANGED <<fileVars, cert, writer, pc, part>>

-----------------------------------------------------------------------------
Next ==
  \/ NewGen
  \/ WriteFile
  \/ \E c \in Callers : Start(c)
  \/ \E w \in Watchers : Tick(w)
  \/ \E l \in Loaders : ReadCert(l) \/ ReadKey(l)
  \/ \E c \in Conns : Hello(c) \/ GetCertificate(c)

Spec == Init /\ [][Next]_vars

\* Of the watchers, which may share a ticker, one gets the next tick; loads end;
\* the lock starves nobody.  The operator owes nothing.
FairSpec ==
  /\ Spec
  /\ SF_vars(\E w \in Watchers : Tick(w))
  /\ \A l \in Loaders : WF_vars(ReadCert(l) \/ ReadKey(l))
  /\ \A c \in Conns : SF_vars(GetCertificate(c))

-----------------------------------------------------------------------------
\* A handshake is given a certificate with its own key, although the two files
\* are written, and read, one after the other, and either may be broken.
ServedUsable ==
  \A c \in Conns :
    /\ given[c] # NoPair => given[c].key = KeyOf[given[c].cert]
    /\ conn[c] = "hello" => cert # NoPair

\* A client that was shown the new certificate is not shown the old one again:
\* no slow load overtakes a later one, whoever runs it.
ServedForward ==
  [][\A c \in Conns : given'[c].cert >= given[c].cert]_vars

\* "It's possible to make a cert rollover and change the files on disk when the
\* server is running" (rfd/0001-job-service.md): a pair that is complete, and
\* stays, is served in the end, whatever was read while it was being written.
RolloverServed ==
  \A n \in Gens :
    <>[](cert # NoPair /\ certFile = n /\ keyFile = KeyOf[n])
      => <>[](cert = [cert |-> n, key |-> KeyOf[n]])

\* A handshake is answered, however the files look.
HandshakeEnds == \A c \in Conns : conn[c] = "hello" ~> conn[c] = "idle"
=============================================================================
