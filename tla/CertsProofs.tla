----------------------------- MODULE CertsProofs -----------------------------
(***************************************************************************)
(* Proofs about Certs, for any number of nodes, failing calls and crashes: *)
(* a started node has both files, and writes that nothing disturbs leave a *)
(* key and a certificate that belong together.                             *)
(***************************************************************************)
EXTENDS Certs, FiniteSetTheorems, TLAPS

Certificates == [key : Keys, due : BOOLEAN]

PCs == {"idle", "self", "lego", "register", "save", "obtain", "renew", "renewing"} \cup Writing

TypeOK ==
    /\ mode \in {"file", "self", "acme"}
    /\ cert \in {None, Torn} \cup Certificates
    /\ key \in {None, Torn} \cup Keys
    /\ process \in {"up", "crashed", "exited"}
    /\ started \subseteq Nodes
    /\ pc \in [Nodes -> PCs]
    /\ new \in [Nodes -> Keys \cup {None}]
    /\ disturbed \in BOOLEAN

\* Who is writing has a key, and who is not has none.
NewInv == \A n \in Nodes : new[n] \in Keys <=> pc[n] \in Writing

\* No step removes a file, and a node starts behind both of its own.
FilesInv ==
    /\ mode = "file" => cert # None /\ key # None
    /\ \A n \in Nodes : pc[n] \in {"writeCert", "openKey", "writeKey"} => cert # None
    /\ started # {} => cert # None /\ key # None

Matching == key # None => cert \in Certificates /\ key = cert.key

\* The write that is under way is the only one, has written its certificate
\* before it opens the key, and has met a pair before.
PairInv ==
    disturbed = FALSE =>
      /\ \A m, n \in Nodes : pc[m] \in Writing /\ pc[n] \in Writing => m = n
      /\ (\A n \in Nodes : pc[n] \notin Writing) => Matching
      /\ \A n \in Nodes : pc[n] \in {"openKey", "writeKey"} =>
           cert \in Certificates /\ cert.key = new[n]

IInv == TypeOK /\ NewInv /\ FilesInv /\ PairInv

USE CertsAssumption DEF Nodes

-----------------------------------------------------------------------------
\* While a node writes nothing there is a key that neither file nor another
\* node has: the others and the two files use N + 1 at most.
LEMMA UnusedKey ==
    ASSUME TypeOK, NewInv, NEW n \in Nodes, pc[n] \notin Writing
    PROVE  Unused \in Keys
<1> DEFINE Others == Nodes \ {n}
           f      == [m \in Others |-> new[m]]
           Held   == {f[m] : m \in Others}
           Keyed  == Held \cup {key}
           ck     == cert.key
           Used   == Keyed \cup {ck}
<1>1. /\ IsFiniteSet(Others)
      /\ Cardinality(Others) = N - 1
  <2> HIDE DEF Used, Keyed, Held, f, ck
  <2>1. IsFiniteSet(Nodes) /\ Cardinality(Nodes) = N
    <3>1. 1 \in Int /\ N \in Int /\ ~(1 > N)
      OBVIOUS
    <3>2. IsFiniteSet(1..N) /\ Cardinality(1..N) = N - 1 + 1
      BY <3>1, FS_Interval
    <3> QED
      BY <3>2
  <2>2. IsFiniteSet(Nodes \ {n}) /\ Cardinality(Nodes \ {n}) = Cardinality(Nodes) - 1
    BY <2>1, FS_RemoveElement
  <2> QED
    BY <2>1, <2>2
<1>2. IsFiniteSet(Held) /\ Cardinality(Held) <= N - 1
  <2>1. f \in Surjection(Others, Held)
    BY DEF Surjection
  <2> HIDE DEF f, Held, Others
  <2> QED
    BY <1>1, <2>1, FS_Surjection
<1>3. IsFiniteSet(Keyed) /\ Cardinality(Keyed) <= N
  <2> HIDE DEF Held
  <2>1. Cardinality(Held) \in Nat
    BY <1>2, FS_CardinalityType
  <2>2. /\ IsFiniteSet(Keyed)
        /\ Cardinality(Keyed) = IF key \in Held THEN Cardinality(Held) ELSE Cardinality(Held) + 1
    BY <1>2, FS_AddElement
  <2> QED
    BY <1>2, <2>1, <2>2
<1>4. IsFiniteSet(Used) /\ Cardinality(Used) <= N + 1
  <2> HIDE DEF Keyed, ck
  <2>1. Cardinality(Keyed) \in Nat
    BY <1>3, FS_CardinalityType
  <2>2. /\ IsFiniteSet(Used)
        /\ Cardinality(Used) = IF ck \in Keyed THEN Cardinality(Keyed) ELSE Cardinality(Keyed) + 1
    BY <1>3, FS_AddElement
  <2> QED
    BY <1>3, <2>1, <2>2
<1>5. IsFiniteSet(Keys) /\ Cardinality(Keys) = N + 2
  <2> HIDE DEF Used, Keyed, Held, ck
  <2>1. 1 \in Int /\ N + 2 \in Int /\ ~(1 > N + 2)
    OBVIOUS
  <2>2. IsFiniteSet(1..(N + 2)) /\ Cardinality(1..(N + 2)) = (N + 2) - 1 + 1
    BY <2>1, FS_Interval
  <2> QED
    BY <2>1, <2>2 DEF Keys
<1>6. ~(Keys \subseteq Used)
  <2> HIDE DEF Used
  <2> QED
    BY <1>4, <1>5, FS_Subset, FS_CardinalityType
<1>7. PICK k \in Keys : k \notin Used
  BY <1>6
<1>8. \A m \in Nodes : new[m] # k
  <2>1. new[n] # k
    BY DEF TypeOK, NewInv
  <2> QED
    BY <1>7, <2>1
<1>9. k # key /\ (Readable(cert) => cert.key # k)
  BY <1>7
<1> QED
  BY <1>8, <1>9 DEF Unused

\* The failure of a request ends the process, that of a renewal only the renewal.
LEMMA FailedStep ==
    ASSUME IInv, NEW n \in Nodes, pc[n] \notin Writing, pc[n] # "idle", Failed(n),
           UNCHANGED <<mode, cert, key>>
    PROVE  IInv'
<1> USE DEF IInv, TypeOK, PCs, Writing
<1>1. CASE n \in started
  <2> USE <1>1 DEF Failed
  <2>1. TypeOK' /\ NewInv'
    BY DEF NewInv
  <2>2. FilesInv'
    BY DEF FilesInv
  <2>3. PairInv'
    BY DEF PairInv, Matching
  <2> QED
    BY <2>1, <2>2, <2>3
<1>2. CASE n \notin started
  <2> USE <1>2 DEF Failed, Halt
  <2>1. TypeOK' /\ NewInv'
    BY DEF NewInv
  <2>2. FilesInv'
    BY DEF FilesInv
  <2>3. PairInv'
    BY DEF PairInv, Matching, Writers
  <2> QED
    BY <2>1, <2>2, <2>3
<1> QED
  BY <1>1, <1>2

\* A node that has its certificate is the only writer unless another writes.
LEMMA BeginStep ==
    ASSUME IInv, NEW n \in Nodes, pc[n] \notin Writing, Begin(n),
           UNCHANGED <<mode, cert, key, process, started>>
    PROVE  IInv'
<1> USE DEF IInv, Begin
<1>1. Unused \in Keys
  BY UnusedKey
<1>2. TypeOK' /\ NewInv'
  BY <1>1 DEF TypeOK, NewInv, PCs, Writing
<1>3. FilesInv'
  BY DEF FilesInv, TypeOK
<1>4. PairInv'
  BY DEF PairInv, Writing, Writers, TypeOK
<1> QED
  BY <1>2, <1>3, <1>4

\* The steps that leave the two files alone keep who is writing.
LEMMA QuietStep ==
    ASSUME IInv, NEW n \in Nodes, pc[n] \notin Writing,
           NEW l \in PCs, l \notin Writing, pc' = [pc EXCEPT ![n] = l],
           started' = started \/ (started' = started \cup {n} /\ cert # None /\ key # None),
           UNCHANGED <<mode, cert, key, process, new, disturbed>>
    PROVE  IInv'
<1> USE DEF IInv, TypeOK
<1>1. TypeOK' /\ NewInv'
  BY DEF NewInv
<1>2. FilesInv'
  BY DEF FilesInv, Writing
<1>3. PairInv'
  BY DEF PairInv, Matching, Writing
<1> QED
  BY <1>1, <1>2, <1>3

\* A writer is alone unless disturbed, opens and writes the certificate before
\* the key, and leaves the key that goes with it.
LEMMA WriteStep ==
    ASSUME IInv, NEW n \in Nodes, OpenCert(n) \/ WriteCert(n) \/ OpenKey(n) \/ WriteKey(n)
    PROVE  IInv'
<1> USE DEF IInv, TypeOK, PCs, Writing, Step, Certificate, Certificates
<1>1. CASE OpenCert(n)
  <2> USE <1>1 DEF OpenCert, Truncated
  <2>1. TypeOK' /\ NewInv'
    BY DEF NewInv
  <2>2. FilesInv'
    BY DEF FilesInv
  <2>3. PairInv'
    BY DEF PairInv
  <2> QED
    BY <2>1, <2>2, <2>3
<1>2. CASE WriteCert(n)
  <2> USE <1>2 DEF WriteCert
  <2>1. new[n] \in Keys
    BY DEF NewInv
  <2>2. cert' \in Certificates /\ cert'.key = new[n]
    BY <2>1
  <2>3. TypeOK' /\ NewInv'
    BY <2>2 DEF NewInv
  <2>4. FilesInv'
    BY <2>2 DEF FilesInv
  <2>5. PairInv'
    BY <2>2 DEF PairInv
  <2> QED
    BY <2>3, <2>4, <2>5
<1>3. CASE OpenKey(n)
  <2> USE <1>3 DEF OpenKey, Truncated
  <2>1. TypeOK' /\ NewInv'
    BY DEF NewInv
  <2>2. FilesInv'
    BY DEF FilesInv
  <2>3. PairInv'
    BY DEF PairInv
  <2> QED
    BY <2>1, <2>2, <2>3
<1>4. CASE WriteKey(n)
  <2> USE <1>4 DEF WriteKey, PrivateKey, Done
  <2>1. new[n] \in Keys
    BY DEF NewInv
  <2>2. TypeOK' /\ NewInv'
    BY <2>1 DEF NewInv
  <2>3. FilesInv'
    BY <2>1 DEF FilesInv
  <2>4. PairInv'
    BY <2>1 DEF PairInv, Matching
  <2> QED
    BY <2>2, <2>3, <2>4
<1> QED
  BY <1>1, <1>2, <1>3, <1>4

\* Every step of a node preserves the invariant.
LEMMA NodeStepInv ==
    ASSUME IInv, NEW n \in Nodes, NodeStep(n)
    PROVE  IInv'
<1> USE DEF Writing, PCs, Step
<1>1. CASE RequestCert(n)
  <2> USE <1>1 DEF RequestCert
  <2>1. CASE mode = "file" \/ Exists
    <3>1. cert # None /\ key # None
      BY <2>1 DEF IInv, FilesInv, Exists
    <3>2. pc' = [pc EXCEPT ![n] = "idle"] /\ started' = started \cup {n}
      BY <2>1 DEF Done
    <3> QED
      BY <3>1, <3>2, QuietStep DEF files
  <2>2. CASE ~(mode = "file" \/ Exists)
    <3>1. PICK l \in {"self", "lego"} : pc' = [pc EXCEPT ![n] = l]
      BY <2>2
    <3> QED
      BY <2>2, <3>1, QuietStep DEF files
  <2> QED
    BY <2>1, <2>2
<1>2. CASE NewLego(n)
  <2> USE <1>2 DEF NewLego
  <2>1. CASE account = "torn"
    BY <2>1, FailedStep DEF files
  <2>2. CASE account # "torn"
    <3>1. PICK l \in {"renew", "obtain", "register"} : pc' = [pc EXCEPT ![n] = l]
      BY <2>2 DEF AfterLego
    <3> QED
      BY <2>2, <3>1, QuietStep DEF files
  <2> QED
    BY <2>1, <2>2
<1>3. CASE RegisterUser(n)
  <2> USE <1>3 DEF RegisterUser
  <2>1. CASE Failed(n)
    BY <2>1, FailedStep
  <2>2. CASE pc' = [pc EXCEPT ![n] = "save"] /\ UNCHANGED <<process, started, new, disturbed>>
    BY <2>2, QuietStep
  <2> QED
    BY <2>1, <2>2
<1>4. CASE Save(n)
  <2>1. PICK l \in {"renew", "obtain"} : pc' = [pc EXCEPT ![n] = l]
    BY <1>4 DEF Save, AfterLego
  <2> QED
    BY <1>4, <2>1, QuietStep DEF Save
<1>5. CASE CreateCert(n) \/ Renew(n)
  <2> USE <1>5 DEF CreateCert, Renew, Obtain, files
  <2>1. CASE Begin(n) /\ UNCHANGED <<process, started>>
    BY <2>1, BeginStep
  <2>2. CASE Failed(n)
    BY <2>2, FailedStep
  <2> QED
    BY <2>1, <2>2
<1>6. CASE RenewCert(n)
  <2>1. PICK l \in {"renewing", "idle"} : pc' = [pc EXCEPT ![n] = l]
    BY <1>6 DEF RenewCert
  <2> QED
    BY <1>6, <2>1, QuietStep DEF RenewCert, files
<1>7. CASE SelfSigned(n)
  BY <1>7, BeginStep DEF SelfSigned, files
<1>8. CASE OpenCert(n) \/ WriteCert(n) \/ OpenKey(n) \/ WriteKey(n)
  BY <1>8, WriteStep
<1> QED
  BY <1>1, <1>2, <1>3, <1>4, <1>5, <1>6, <1>7, <1>8 DEF NodeStep

\* The invariant holds initially.
LEMMA InitInv == Init => IInv
<1> SUFFICES ASSUME Init PROVE IInv
  OBVIOUS
<1> USE DEF Init
<1>1. \/ mode # "file" /\ cert = None /\ key = None
      \/ cert \in Certificates /\ key \in Keys /\ key = cert.key
  <2>1. 1 \in Keys
    BY DEF Keys
  <2>2. Certificate(1) \in Certificates /\ Certificate(1).key = 1
    BY <2>1 DEF Certificates, Certificate
  <2>3. (mode # "file" /\ cert = None /\ key = None) \/ (cert = Certificate(1) /\ key = 1)
    OBVIOUS
  <2> QED
    BY <2>1, <2>2, <2>3
<1>2. TypeOK
  <2>1. /\ mode \in {"file", "self", "acme"} /\ process = "up"
        /\ started = {} /\ disturbed = FALSE
        /\ pc = [n \in Nodes |-> "idle"] /\ new = [n \in Nodes |-> None]
    OBVIOUS
  <2> QED
    BY <1>1, <2>1 DEF TypeOK, PCs
<1>3. NewInv
  BY DEF NewInv, Writing
<1>4. FilesInv
  <2>1. mode = "file" => cert # None /\ key # None
    BY <1>1 DEF Certificates
  <2>2. started = {} /\ \A n \in Nodes : pc[n] = "idle"
    OBVIOUS
  <2> QED
    BY <2>1, <2>2 DEF FilesInv
<1>5. PairInv
  BY <1>1 DEF PairInv, Matching, Writing
<1> QED
  BY <1>2, <1>3, <1>4, <1>5 DEF IInv

\* Every step preserves the invariant.
LEMMA NextInv == IInv /\ [Next]_vars => IInv'
<1> SUFFICES ASSUME IInv, [Next]_vars PROVE IInv'
  OBVIOUS
<1>1. ASSUME NEW n \in Nodes, NodeStep(n) PROVE IInv'
  BY <1>1, NodeStepInv
<1>2. ASSUME NEW n \in Nodes, RenewCertTask(n) PROVE IInv'
  BY <1>2, QuietStep DEF RenewCertTask, Step, files, Writing, PCs
<1> USE DEF IInv, TypeOK
<1>3. CASE FallDue
  <2>1. /\ cert \in Certificates /\ cert' \in Certificates
        /\ cert'.key = cert.key
    BY <1>3 DEF FallDue, Readable, Certificates
  <2>2. None \notin Certificates
    BY DEF Certificates
  <2>3. UNCHANGED <<mode, key, process, started, pc, new, disturbed>>
    BY <1>3 DEF FallDue
  <2>4. TypeOK' /\ NewInv'
    BY <2>1, <2>3 DEF NewInv
  <2>5. FilesInv'
    BY <2>1, <2>2, <2>3 DEF FilesInv
  <2>6. PairInv'
    BY <2>1, <2>3 DEF PairInv, Matching
  <2> QED
    BY <2>4, <2>5, <2>6
<1>4. CASE Crash
  <2> USE <1>4 DEF Crash, Halt, files
  <2>1. TypeOK' /\ NewInv'
    BY DEF PCs, NewInv, Writing
  <2>2. FilesInv'
    BY DEF FilesInv
  <2>3. PairInv'
    BY DEF PairInv, Matching, Writers, Writing
  <2> QED
    BY <2>1, <2>2, <2>3
<1>5. ASSUME NEW how \in {"crashed", "exited"}, Restart(how) PROVE IInv'
  BY <1>5 DEF Restart, files, NewInv, FilesInv, PairInv, Matching
<1>6. CASE UNCHANGED vars
  BY <1>6 DEF vars, files, NewInv, FilesInv, PairInv, Matching
<1> QED
  BY <1>1, <1>2, <1>3, <1>4, <1>5, <1>6 DEF Next

-----------------------------------------------------------------------------
\* A node that has started finds both files, whatever the crashes before: no
\* write removes a file, and the request looks for both.
THEOREM NodesStartWithPair == Spec => []StartsWithPair
<1>1. IInv => StartsWithPair
  BY DEF IInv, FilesInv, StartsWithPair
<1> QED
  BY <1>1, InitInv, NextInv, PTL DEF Spec

\* When nobody writes, the key is the certificate's, unless the last write was
\* cut off by a crash or ran next to another.
THEOREM UndisturbedPairsMatch == Spec => []PairMatches
<1>1. IInv => PairMatches
  BY DEF IInv, TypeOK, PairInv, Matching, PairMatches, Readable, Writers, Certificates
<1> QED
  BY <1>1, InitInv, NextInv, PTL DEF Spec
=============================================================================
