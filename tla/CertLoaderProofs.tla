-------------------------- MODULE CertLoaderProofs --------------------------
(***************************************************************************)
(* Proofs about module CertLoader, for any number of certificates, callers *)
(* of Start, watchers and handshakes.                                      *)
(***************************************************************************)
EXTENDS CertLoader, TLAPS

\* A pair is one certificate and its key, or there is none yet.
Whole(p) == p = NoPair \/ (p.cert \in Gens /\ p.key = KeyOf[p.cert])

\* The certificate file only gets newer, unless it is cut short.
FileOK == certFile # NoGen => cert.cert <= certFile /\ certFile <= gen
CertOK == Whole(cert) /\ cert.cert <= gen

\* A loader that has read the certificate file, and by that has the lock, has
\* read nothing older than what is in use, and nothing newer than the file.
PartOK(l) ==
  pc[l] = "key" /\ part[l] # NoGen =>
    /\ cert.cert <= part[l] /\ part[l] <= gen
    /\ certFile # NoGen => part[l] <= certFile

\* Whatever a handshake was given was in use then.
ConnOK(c) ==
  /\ Whole(given[c])
  /\ given[c].cert <= cert.cert
  /\ conn[c] = "hello" => cert # NoPair

LoaderInv ==
  /\ TypeOK
  /\ FileOK
  /\ CertOK
  /\ \A l \in Loaders : PartOK(l)
  /\ \A c \in Conns : ConnOK(c)

-----------------------------------------------------------------------------
\* The invariant holds before the first Start.
LEMMA InitOK == Init => LoaderInv
<1> SUFFICES ASSUME Init PROVE LoaderInv
  OBVIOUS
<1> USE LoadersOK, GensOK DEF Init, Loaders, Gens, NoGen, NoPair
<1>1. TypeOK
  BY DEF TypeOK, Pair, Keys
<1>2. FileOK /\ CertOK
  BY DEF FileOK, CertOK, Whole
<1>3. ASSUME NEW l \in Loaders PROVE PartOK(l)
  BY DEF PartOK
<1>4. ASSUME NEW c \in Conns PROVE ConnOK(c)
  <2>1. given[c] = NoPair /\ conn[c] = "idle"
    OBVIOUS
  <2> QED
    BY <2>1 DEF ConnOK, Whole
<1> QED
  BY <1>1, <1>2, <1>3, <1>4 DEF LoaderInv

\* A load that ends puts its pair in use, or leaves the pair there is.
LEMMA ReadKeyCert ==
  ASSUME LoaderInv, NEW l \in Loaders, ReadKey(l)
  PROVE  /\ cert' \in Pair /\ Whole(cert')
         /\ cert.cert <= cert'.cert /\ cert'.cert <= gen
         /\ certFile # NoGen => cert'.cert <= certFile
         /\ cert # NoPair => cert' # NoPair
<1> USE GensOK DEF LoaderInv, TypeOK, FileOK, CertOK, PartOK, Whole, NoPair, Pair,
                   Gens, Keys, NoGen
<1>1. CASE Matches(part[l])
  <2>1. part[l] \in Gens /\ keyFile = KeyOf[part[l]] /\ pc[l] = "key"
    BY <1>1 DEF ReadKey, Matches
  <2>2. cert' = [cert |-> part[l], key |-> keyFile]
    BY <1>1 DEF ReadKey, Loaded
  <2> QED
    BY <2>1, <2>2
<1>2. CASE ~Matches(part[l])
  BY <1>2 DEF ReadKey, Loaded
<1> QED
  BY <1>1, <1>2

\* Every step keeps the types, and the lock with one loader.
LEMMA TypeStep == LoaderInv /\ [Next]_vars => TypeOK'
<1> SUFFICES ASSUME LoaderInv, [Next]_vars PROVE TypeOK'
  OBVIOUS
<1> USE LoadersOK, GensOK DEF LoaderInv, TypeOK, Loaders
<1>1. CASE UNCHANGED vars
  BY <1>1 DEF vars, fileVars, connVars
<1>2. CASE NewGen
  BY <1>2 DEF NewGen, connVars, Gens, NoGen
<1>3. CASE WriteFile
  BY <1>3 DEF WriteFile, connVars, Gens, Keys, NoGen
<1>4. ASSUME NEW l \in Loaders, Lock(l) PROVE TypeOK'
  BY <1>4 DEF Lock, fileVars, connVars
<1>5. ASSUME NEW l \in Loaders, ReadCert(l) PROVE TypeOK'
  BY <1>5 DEF ReadCert, fileVars, connVars
<1>6. ASSUME NEW l \in Loaders, ReadKey(l) PROVE TypeOK'
  BY <1>6, ReadKeyCert DEF ReadKey, GoOn, fileVars, connVars
<1>7. ASSUME NEW c \in Conns, Hello(c) \/ GetCertificate(c) PROVE TypeOK'
  BY <1>7 DEF Hello, GetCertificate, fileVars
<1> HIDE DEF LoaderInv, TypeOK
<1> QED
  BY <1>1, <1>2, <1>3, <1>4, <1>5, <1>6, <1>7 DEF Next, Start, Tick

\* Every step keeps the order of what is on disk, read, in use and given.
LEMMA FilesStep == LoaderInv /\ [Next]_vars => FileOK' /\ CertOK'
<1> SUFFICES ASSUME LoaderInv, [Next]_vars PROVE FileOK' /\ CertOK'
  OBVIOUS
<1> USE GensOK DEF LoaderInv, TypeOK, FileOK, CertOK, Pair, Gens, Keys, NoGen
<1>1. CASE UNCHANGED vars
  BY <1>1 DEF vars, fileVars, Whole
<1>2. CASE NewGen
  BY <1>2 DEF NewGen, Whole
<1>3. CASE WriteFile
  BY <1>3 DEF WriteFile, Whole
<1>4. ASSUME NEW l \in Loaders, Lock(l) \/ ReadCert(l) PROVE FileOK' /\ CertOK'
  BY <1>4 DEF Lock, ReadCert, fileVars, Whole
<1>5. ASSUME NEW l \in Loaders, ReadKey(l) PROVE FileOK' /\ CertOK'
  BY <1>5, ReadKeyCert DEF ReadKey, fileVars
<1>6. ASSUME NEW c \in Conns, Hello(c) \/ GetCertificate(c)
      PROVE  FileOK' /\ CertOK'
  BY <1>6 DEF Hello, GetCertificate, fileVars, Whole
<1> HIDE DEF LoaderInv, TypeOK, FileOK, CertOK
<1> QED
  BY <1>1, <1>2, <1>3, <1>4, <1>5, <1>6 DEF Next, Start, Tick, Loaders

LEMMA PartStep ==
  ASSUME LoaderInv, [Next]_vars, NEW k \in Loaders PROVE PartOK(k)'
<1> USE LoadersOK, GensOK
    DEF LoaderInv, TypeOK, FileOK, CertOK, PartOK, Gens, NoGen
<1>1. CASE UNCHANGED vars
  BY <1>1 DEF vars, fileVars
<1>2. CASE NewGen
  BY <1>2 DEF NewGen, Pair
<1>3. CASE WriteFile
  BY <1>3 DEF WriteFile, Pair
<1>4. ASSUME NEW l \in Loaders, Lock(l) PROVE PartOK(k)'
  BY <1>4 DEF Lock, fileVars
<1>5. ASSUME NEW l \in Loaders, ReadCert(l) PROVE PartOK(k)'
  <2>1. CASE k = l
    BY <1>5, <2>1 DEF ReadCert, fileVars, Pair
  <2>2. CASE k # l
    BY <1>5, <2>2 DEF ReadCert, fileVars
  <2> QED
    BY <2>1, <2>2
<1>6. ASSUME NEW l \in Loaders, ReadKey(l) PROVE PartOK(k)'
  <2>1. k # l => pc[k] # "key"
    BY <1>6 DEF ReadKey
  <2>2. pc'[k] # "key"
    BY <1>6, <2>1 DEF ReadKey, GoOn
  <2> QED
    BY <2>2
<1>7. ASSUME NEW c \in Conns, Hello(c) \/ GetCertificate(c) PROVE PartOK(k)'
  BY <1>7 DEF Hello, GetCertificate, fileVars
<1> HIDE DEF LoaderInv, TypeOK, FileOK, CertOK, PartOK
<1> QED
  BY <1>1, <1>2, <1>3, <1>4, <1>5, <1>6, <1>7 DEF Next, Start, Tick, Loaders

LEMMA ConnStep ==
  ASSUME LoaderInv, [Next]_vars, NEW d \in Conns PROVE ConnOK(d)'
<1> USE GensOK DEF LoaderInv, TypeOK, CertOK, ConnOK, Gens, NoGen
<1>1. CASE UNCHANGED vars
  BY <1>1 DEF vars, connVars, Whole
<1>2. CASE NewGen \/ WriteFile
  BY <1>2 DEF NewGen, WriteFile, connVars, Whole
<1>3. ASSUME NEW l \in Loaders, Lock(l) \/ ReadCert(l) PROVE ConnOK(d)'
  BY <1>3 DEF Lock, ReadCert, connVars, Whole
<1>4. ASSUME NEW l \in Loaders, ReadKey(l) PROVE ConnOK(d)'
  <2>1. given' = given /\ conn' = conn
    BY <1>4 DEF ReadKey, connVars
  <2>2. /\ cert \in Pair /\ cert' \in Pair /\ cert.cert <= cert'.cert
        /\ cert # NoPair => cert' # NoPair
    BY <1>4, ReadKeyCert
  <2>3. given[d] \in Pair
    OBVIOUS
  <2> QED
    BY <2>1, <2>2, <2>3 DEF Pair, Whole
<1>5. ASSUME NEW c \in Conns, Hello(c) PROVE ConnOK(d)'
  BY <1>5 DEF Hello, fileVars, Whole
<1>6. ASSUME NEW c \in Conns, GetCertificate(c) PROVE ConnOK(d)'
  BY <1>6 DEF GetCertificate, fileVars, Whole, Pair
<1> HIDE DEF LoaderInv, TypeOK, CertOK, ConnOK
<1> QED
  BY <1>1, <1>2, <1>3, <1>4, <1>5, <1>6 DEF Next, Start, Tick, Loaders

-----------------------------------------------------------------------------
\* The files, what was read of them, what is in use and what was given stay in
\* this order, whatever the operator does to the files.
THEOREM Invariant == Spec => []LoaderInv
<1>1. LoaderInv /\ [Next]_vars => LoaderInv'
  BY TypeStep, FilesStep, PartStep, ConnStep DEF LoaderInv
<1> QED
  BY InitOK, <1>1, PTL DEF Spec

\* The lock is held by the one loader that is loading.
THEOREM TypeCorrect == Spec => []TypeOK
<1>1. LoaderInv => TypeOK
  BY DEF LoaderInv
<1> QED
  BY <1>1, Invariant, PTL

\* No handshake gets a certificate with the key of another.
THEOREM AlwaysUsable == Spec => []ServedUsable
<1>1. LoaderInv => ServedUsable
  BY DEF LoaderInv, ConnOK, Whole, ServedUsable
<1> QED
  BY <1>1, Invariant, PTL

\* No client is shown an older certificate than before.
THEOREM NeverBack == Spec => ServedForward
<1>1. LoaderInv /\ [Next]_vars => [\A c \in Conns : given'[c].cert >= given[c].cert]_vars
  <2> SUFFICES ASSUME LoaderInv, Next, NEW c \in Conns
               PROVE  given'[c].cert >= given[c].cert
    OBVIOUS
  <2>1. given[c] \in Pair /\ given[c].cert <= cert.cert
    BY DEF LoaderInv, TypeOK, ConnOK
  <2>2. given' = given \/ \E d \in Conns : given' = [given EXCEPT ![d] = cert]
    BY DEF Next, NewGen, WriteFile, Start, Tick, Lock, ReadCert, ReadKey, Hello,
           GetCertificate, connVars, Loaders
  <2>3. given'[c] = given[c] \/ given'[c] = cert
    BY <2>2 DEF LoaderInv, TypeOK
  <2>4. given[c].cert \in Nat /\ cert.cert \in Nat
    BY <2>1, GensOK DEF LoaderInv, TypeOK, Pair, Gens, NoGen
  <2> QED
    BY <2>1, <2>3, <2>4
<1> QED
  BY <1>1, Invariant, PTL DEF Spec, ServedForward
=============================================================================
