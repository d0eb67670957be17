-------------------------------- MODULE Certs --------------------------------
(***************************************************************************)
(* node/cert.go and node/lego.go: the certificate and key files that the   *)
(* nodes of a process share, requested when a node starts and renewed by a *)
(* task of each node, and the account file of the certificate authority.   *)
(* Files are written by truncating and then writing, and the process may   *)
(* end between any two steps.                                              *)
(***************************************************************************)
EXTENDS Naturals, FiniteSets

CONSTANTS
    N,           \* the nodes are 1..N, started in this order
    Modes,       \* the values of CertMode: "file", "self", or "acme" for dns and http
    MaxFaults,   \* bound on the calls of the authority that fail
    MaxCrashes,  \* bound on the crashes
    None,        \* no file
    Torn         \* a file that cannot be parsed

Nodes == 1..N
Keys  == 1..(N + 2)     \* keys in use at a time: two in the files, one of each node

ASSUME CertsAssumption ==
    /\ N \in Nat \ {0} /\ MaxFaults \in Nat /\ MaxCrashes \in Nat
    /\ Modes \subseteq {"file", "self", "acme"}
    /\ None # Torn /\ None \notin Keys /\ Torn \notin Keys
    /\ {None, Torn} \cap [key : Keys, due : BOOLEAN] = {}

VARIABLES
    mode,        \* CertMode
    cert,        \* CertFile: None, Torn, or the key it certifies and whether it is due for renewal
    key,         \* KeyFile: None, Torn, or the key
    account,     \* the file of the account: "none", "torn", "ok" or of another email
    process,     \* "up", "crashed" or "exited"
    started,     \* the nodes whose Start is past requestCert
    pc,          \* the step of each node's request or renewal
    new,         \* the key a node has obtained a certificate for
    disturbed,   \* the last write of the two files was cut off, or ran next to another
    faults, crashes

files == <<cert, key, account>>
vars  == <<mode, files, process, started, pc, new, disturbed, faults, crashes>>

Certificate(k) == [key |-> k, due |-> FALSE]

Init ==
    /\ mode \in Modes
    /\ \/ mode # "file" /\ cert = None /\ key = None
       \/ cert = Certificate(1) /\ key = 1
    /\ account \in {"none", "ok", "other"}
    /\ process = "up"
    /\ started = {} /\ pc = [n \in Nodes |-> "idle"] /\ new = [n \in Nodes |-> None]
    /\ disturbed = FALSE
    /\ faults = 0 /\ crashes = 0

Readable(f) == f \notin {None, Torn}
Writing     == {"openCert", "writeCert", "openKey", "writeKey"}
Writers     == {n \in Nodes : pc[n] \in Writing}

Step(n, from, to) == process = "up" /\ pc[n] = from /\ pc' = [pc EXCEPT ![n] = to]

\* The step that ends a request starts the node.
Done(n) == pc' = [pc EXCEPT ![n] = "idle"] /\ started' = started \cup {n}

Halt(how) == /\ process' = how
             /\ started' = {} /\ pc' = [n \in Nodes |-> "idle"] /\ new' = [n \in Nodes |-> None]
             /\ disturbed' = (disturbed \/ Writers # {})

\* An error of a request makes Start fail and serverHandle return; one of a
\* renewal is logged.
Failed(n) ==
    IF n \in started
      THEN pc' = [pc EXCEPT ![n] = "idle"] /\ UNCHANGED <<process, started, new, disturbed>>
      ELSE Halt("exited")

-----------------------------------------------------------------------------
\* The start of a node, and its daily task

\* Fault: one of the two files is enough.
Exists_Either == cert # None \/ key # None

Exists == cert # None /\ key # None

\* requestCert, which looks for the files and not into them.
RequestCert(n) ==
    /\ process = "up" /\ pc[n] = "idle" /\ n \notin started
    /\ 1..(n - 1) \subseteq started
    /\ IF mode = "file" \/ Exists THEN Done(n)
       ELSE /\ pc' = [pc EXCEPT ![n] = IF mode = "self" THEN "self" ELSE "lego"]
            /\ UNCHANGED started
    /\ UNCHANGED <<mode, files, process, new, disturbed, faults, crashes>>

RenewCertTask(n) ==
    /\ mode = "acme" /\ n \in started
    /\ Step(n, "idle", "lego")
    /\ UNCHANGED <<mode, files, process, started, new, disturbed, faults, crashes>>

-----------------------------------------------------------------------------
\* The account

AfterLego(n) == IF n \in started THEN "renew" ELSE "obtain"

\* NewLegoUser loads the account, or registers one.
NewLego(n) ==
    /\ process = "up" /\ pc[n] = "lego"
    /\ IF account = "torn" THEN Failed(n)
       ELSE /\ pc' = [pc EXCEPT ![n] = IF account = "ok" THEN AfterLego(n) ELSE "register"]
            /\ UNCHANGED <<process, started, new, disturbed>>
    /\ UNCHANGED <<mode, files, faults, crashes>>

RegisterUser(n) ==
    /\ process = "up" /\ pc[n] = "register"
    /\ \/ /\ account' = "torn"
          /\ pc' = [pc EXCEPT ![n] = "save"]
          /\ UNCHANGED <<process, started, new, disturbed, faults>>
       \/ /\ faults < MaxFaults /\ faults' = faults + 1
          /\ Failed(n)
          /\ UNCHANGED account
    /\ UNCHANGED <<mode, cert, key, crashes>>

Save(n) ==
    /\ process = "up" /\ pc[n] = "save"
    /\ account' = "ok"
    /\ pc' = [pc EXCEPT ![n] = AfterLego(n)]
    /\ UNCHANGED <<mode, cert, key, process, started, new, disturbed, faults, crashes>>

-----------------------------------------------------------------------------
\* Certificates

Unused == CHOOSE k \in Keys : /\ k # key /\ \A n \in Nodes : new[n] # k
                              /\ Readable(cert) => cert.key # k

\* The certificate a node has got is of a key of its own.
Begin(n) ==
    /\ pc' = [pc EXCEPT ![n] = "openCert"]
    /\ new' = [new EXCEPT ![n] = Unused]
    /\ disturbed' = (Writers # {})

Obtain(n) ==
    \/ Begin(n) /\ UNCHANGED <<process, started, faults>>
    \/ faults < MaxFaults /\ faults' = faults + 1 /\ Failed(n)

CreateCert(n) ==
    /\ process = "up" /\ pc[n] = "obtain"
    /\ Obtain(n)
    /\ UNCHANGED <<mode, files, crashes>>

\* Fault: the branches of the comparison are swapped.
CheckCert_Swapped == Readable(cert) /\ ~cert.due

\* A certificate that cannot be parsed is not renewed.
CheckCert == Readable(cert) /\ cert.due

\* RenewCert reads the file and checks it, and then asks for another.
RenewCert(n) ==
    /\ Step(n, "renew", IF CheckCert THEN "renewing" ELSE "idle")
    /\ UNCHANGED <<mode, files, process, started, new, disturbed, faults, crashes>>

Renew(n) ==
    /\ process = "up" /\ pc[n] = "renewing"
    /\ Obtain(n)
    /\ UNCHANGED <<mode, files, crashes>>

\* generateSelfSslCertificate, which does not truncate.
SelfSigned(n) ==
    /\ process = "up" /\ pc[n] = "self"
    /\ Begin(n)
    /\ UNCHANGED <<mode, files, process, started, faults, crashes>>

Truncated(f) == IF mode = "self" /\ f # None THEN f ELSE Torn

OpenCert(n) ==
    /\ Step(n, "openCert", "writeCert")
    /\ cert' = Truncated(cert)
    /\ UNCHANGED <<mode, key, account, process, started, new, disturbed, faults, crashes>>

WriteCert(n) ==
    /\ Step(n, "writeCert", "openKey")
    /\ cert' = Certificate(new[n])
    /\ UNCHANGED <<mode, key, account, process, started, new, disturbed, faults, crashes>>

OpenKey(n) ==
    /\ Step(n, "openKey", "writeKey")
    /\ key' = Truncated(key)
    /\ UNCHANGED <<mode, cert, account, process, started, new, disturbed, faults, crashes>>

\* Fault: a renewal writes the key of before.
PrivateKey_Kept(n) == IF n \in started /\ Readable(cert) THEN (CHOOSE k \in Keys : k # cert.key) ELSE new[n]

PrivateKey(n) == new[n]

WriteKey(n) ==
    /\ process = "up" /\ pc[n] = "writeKey"
    /\ key' = PrivateKey(n)
    /\ Done(n)
    /\ new' = [new EXCEPT ![n] = None]
    /\ UNCHANGED <<mode, cert, account, process, disturbed, faults, crashes>>

-----------------------------------------------------------------------------
\* The last thirty days of a certificate begin.
FallDue ==
    /\ mode = "acme" /\ Readable(cert) /\ ~cert.due
    /\ cert' = [cert EXCEPT !.due = TRUE]
    /\ UNCHANGED <<mode, key, account, process, started, pc, new, disturbed, faults, crashes>>

Crash ==
    /\ process = "up" /\ crashes < MaxCrashes
    /\ crashes' = crashes + 1
    /\ Halt("crashed")
    /\ UNCHANGED <<mode, files, faults>>

\* The unit starts a process that has crashed again, the operator any other.
Restart(how) ==
    /\ process = how
    /\ process' = "up"
    /\ UNCHANGED <<mode, files, started, pc, new, disturbed, faults, crashes>>

NodeStep(n) ==
    \/ RequestCert(n) \/ NewLego(n) \/ RegisterUser(n) \/ Save(n)
    \/ CreateCert(n) \/ RenewCert(n) \/ Renew(n) \/ SelfSigned(n)
    \/ OpenCert(n) \/ WriteCert(n) \/ OpenKey(n) \/ WriteKey(n)

Next ==
    \/ \E n \in Nodes : NodeStep(n) \/ RenewCertTask(n)
    \/ FallDue \/ Crash
    \/ \E how \in {"crashed", "exited"} : Restart(how)

\* Nodes go on, their daily tasks run, and the unit restarts what has crashed.
Spec ==
    /\ Init /\ [][Next]_vars
    /\ \A n \in Nodes : WF_vars(NodeStep(n)) /\ WF_vars(RenewCertTask(n))
    /\ WF_vars(Restart("crashed"))

-----------------------------------------------------------------------------
\* Properties

\* A node that has started finds both files, whatever crash a request of an
\* earlier run has met between them.
StartsWithPair ==
    started # {} => cert # None /\ key # None

\* When nobody writes, the key is the one the certificate is for, and both can
\* be read, unless the last write was cut off by a crash or two nodes wrote at
\* a time: requests, renewals and self-signed pairs replace both.
PairMatches ==
    Writers = {} /\ ~disturbed /\ key # None => Readable(cert) /\ key = cert.key

\* A certificate that is due is renewed while its node runs, whatever calls to
\* the authority have failed, unless a crash has left an account or a
\* certificate that cannot be read: those nothing repairs.
DueIsRenewed ==
    \A n \in Nodes :
        (mode = "acme" /\ n \in started /\ Readable(cert) /\ cert.due)
            ~> (n \notin started \/ account = "torn" \/ ~Readable(cert) \/ ~cert.due)
=============================================================================
