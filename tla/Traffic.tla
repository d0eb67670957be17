------------------------------- MODULE Traffic -------------------------------
(***************************************************************************)
(* node/user.go: the way of a user's bytes from the counters of the core   *)
(* to the panel.                                                           *)
(*                                                                         *)
(* Three goroutines share c.userList and the counters without a lock: the  *)
(* connections that count bytes, reportUserTrafficTask, which reads each   *)
(* counter, resets it and pushes what it read, and nodeInfoMonitor, which  *)
(* replaces the list and removes users and the node from the core.  Task   *)
(* keeps two runs of one job apart, never two jobs.  The dynamic speed     *)
(* limit, whose record the report feeds, is enabled.                       *)
(***************************************************************************)
EXTENDS Naturals, Sequences, SequencesExt

CONSTANTS
    Users,        \* uuids, which are also the UIDs the panel bills
    NoUser,       \* the report is at no user
    Cores,        \* the cores to look at: "xray", "sing", "hy2"
    Lists,        \* the user lists the panel gives, sequences of Entries
    Limits,       \* the settings of a user
    OnlyAppends,  \* whether the panel only ever adds users, at the end
    Additive,     \* whether it adds up two records of a user: "ppanel" does
    Paths,        \* the paths ReportUserTraffic tries
    Attempts,     \* the requests resty makes for a path (SetRetryCount + 1)
    Threshold,    \* DynamicSpeedLimitConfig.Traffic
    MaxMoved,     \* bound on the bytes of all users
    MaxFaults     \* bound on the pushes that go wrong

Entries == [user : Users, limit : Limits]
Dirs == {"up", "down"}

ASSUME TrafficAssumption ==
    /\ Cores \subseteq {"xray", "sing", "hy2"}
    /\ Lists \subseteq Seq(Entries)
    /\ NoUser \notin Users
    /\ OnlyAppends \in BOOLEAN /\ Additive \in BOOLEAN
    /\ Paths \in Nat \ {0} /\ Attempts \in Nat \ {0} /\ Threshold \in Nat \ {0}
    /\ MaxMoved \in Nat /\ MaxFaults \in Nat

VARIABLES
    core,         \* the core of the node; it never changes
    counters,     \* what the core has counted since it was last read
    attached,     \* users with connections that count into counters
    detached,     \* users with connections whose counter was unregistered
    nodeUp,       \* whether the core has the node
    userList,     \* Controller.userList
    traffic,      \* Controller.traffic, the record SpeedChecker goes by
    mon, newList, \* where nodeInfoMonitor is, and the list it takes over
    pc, i, n,     \* where the report is: the index of range, and its end
    who, got,     \* the user it reads and what it has read
    batch,        \* what it will push, by UID
    path, attempt,
    moved,        \* the bytes the users really moved
    billed,       \* the bytes the panel has counted
    limited,      \* how often each user was given the dynamic limit
    faults,       \* the pushes that went wrong so far
    answerLost,   \* whether the panel once counted a push and the answer was lost
    pushFailed    \* whether a push was once given up

connVars   == <<attached, detached, nodeUp>>
monVars    == <<mon, newList>>
readVars   == <<i, n, who, got>>
pushVars   == <<path, attempt, billed, faults, answerLost, pushFailed>>
vars == <<core, counters, connVars, userList, traffic, monVars, pc, readVars, batch,
          pushVars, moved, limited>>

None == [d \in Dirs |-> 0]
Nobody == [u \in Users |-> None]
Zero == [u \in Users |-> 0]

UsersOf(list) == {list[k].user : k \in 1..Len(list)}
Sum(bytes) == bytes["up"] + bytes["down"]
Moved == FoldFunction(+, 0, [u \in Users |-> Sum(moved[u])])
Plus(b1, b2) == [d \in Dirs |-> b1[d] + b2[d]]

-----------------------------------------------------------------------------
Init ==
    /\ core \in Cores
    /\ userList \in Lists
    /\ counters = Nobody
    /\ attached = UsersOf(userList) /\ detached = {} /\ nodeUp = TRUE
    /\ traffic = Zero
    /\ mon = "idle" /\ newList = userList
    /\ pc = "idle" /\ i = 1 /\ n = 0
    /\ who = NoUser /\ got = None
    /\ batch = Nobody
    /\ path = 1 /\ attempt = 1
    /\ moved = Nobody /\ billed = Nobody /\ limited = Zero
    /\ faults = 0 /\ answerLost = FALSE /\ pushFailed = FALSE

-----------------------------------------------------------------------------
\* Connections

\* A byte of a connection whose counter the core still has: Rx and Tx of
\* TrafficCounter, the count functions of ConnCounter, xray's SizeStatWriter.
Count(u, d) ==
    /\ u \in attached
    /\ Moved < MaxMoved
    /\ moved' = [moved EXCEPT ![u][d] = @ + 1]
    /\ counters' = [counters EXCEPT ![u][d] = @ + 1]
    /\ UNCHANGED <<connVars, userList, traffic, monVars, pc, readVars, batch, pushVars,
                   limited>>

\* A byte of a connection that has outlived its counter: xray's writer adds
\* it to the counter DelUsers has unregistered.
CountNowhere(u, d) ==
    /\ u \in detached
    /\ Moved < MaxMoved
    /\ moved' = [moved EXCEPT ![u][d] = @ + 1]
    /\ UNCHANGED <<counters, connVars, userList, traffic, monVars, pc, readVars, batch,
                   pushVars, limited>>

\* Read and Write of sing's ConnCounter, which the copy loops mostly go
\* around: the size of this read, which may be none, replaces the count.
CountLast(u, d, bytes) ==
    /\ core = "sing"
    /\ u \in attached
    /\ Moved + bytes <= MaxMoved
    /\ moved' = [moved EXCEPT ![u][d] = @ + bytes]
    /\ counters' = [counters EXCEPT ![u][d] = bytes]
    /\ UNCHANGED <<connVars, userList, traffic, monVars, pc, readVars, batch, pushVars,
                   limited>>

-----------------------------------------------------------------------------
\* reportUserTrafficTask

\* range takes the length of the list once.
Begin ==
    /\ pc = "idle"
    /\ n' = Len(userList)
    /\ i' = 1
    /\ batch' = Nobody
    /\ pc' = "user"
    /\ UNCHANGED <<counters, connVars, userList, traffic, monVars, who, got, pushVars,
                   moved, limited>>

\* The list has become shorter than range took it for, or the hy2 node is not
\* there: the index, or the nil TrafficLogger, panics and the process ends.
ReportPanics ==
    /\ \/ pc \in {"user", "record", "append"} /\ i <= n /\ i > Len(userList)
       \/ pc = "user" /\ i <= n /\ core = "hy2" /\ ~nodeUp
    /\ pc' = "panicked"
    /\ UNCHANGED <<counters, connVars, userList, traffic, monVars, readVars, batch,
                   pushVars, moved, limited>>

\* GetUserTraffic is called for the user at the index.
NextUser ==
    /\ pc = "user" /\ i <= n /\ i <= Len(userList)
    /\ core = "hy2" => nodeUp
    /\ who' = userList[i].user
    /\ got' = None
    /\ pc' = "readUp"
    /\ UNCHANGED <<counters, connVars, userList, traffic, monVars, i, n, batch, pushVars,
                   moved, limited>>

\* xray swaps each counter for zero in one step; sing and hy2 read both
\* counters first and store zero into both afterwards.
Atomic == core = "xray"

Read(d, here, next) ==
    /\ pc = here
    /\ got' = [got EXCEPT ![d] = counters[who][d]]
    /\ counters' = IF Atomic THEN [counters EXCEPT ![who][d] = 0] ELSE counters
    /\ pc' = next
    /\ UNCHANGED <<connVars, userList, traffic, monVars, i, n, who, batch, pushVars,
                   moved, limited>>

\* Fault: the counter keeps what was read.
Reset_Keeps(d, here, next) ==
    /\ pc = here
    /\ pc' = next
    /\ UNCHANGED <<counters, connVars, userList, traffic, monVars, readVars, batch,
                   pushVars, moved, limited>>

Reset(d, here, next) ==
    /\ pc = here
    /\ counters' = [counters EXCEPT ![who][d] = 0]
    /\ pc' = next
    /\ UNCHANGED <<connVars, userList, traffic, monVars, readVars, batch, pushVars,
                   moved, limited>>

GetUserTraffic ==
    \/ Read("up", "readUp", "readDown")
    \/ Read("down", "readDown", IF Atomic THEN "record" ELSE "resetUp")
    \/ Reset("up", "resetUp", "resetDown")
    \/ Reset("down", "resetDown", "record")

DoneWithUser ==
    /\ i' = i + 1
    /\ who' = NoUser /\ got' = None
    /\ pc' = "user"

\* A user without traffic is passed over.
SkipUser ==
    /\ pc = "record" /\ got = None
    /\ DoneWithUser
    /\ UNCHANGED <<counters, connVars, userList, traffic, monVars, n, batch, pushVars, moved,
                   limited>>

\* addTraffic, for the user the list has at the index by now.
AddTraffic ==
    /\ pc = "record" /\ got # None /\ i <= Len(userList)
    /\ traffic' = [traffic EXCEPT ![userList[i].user] = @ + Sum(got)]
    /\ pc' = "append"
    /\ UNCHANGED <<counters, connVars, userList, monVars, readVars, batch, pushVars,
                   moved, limited>>

\* The record for the push, under the UID the list has at the index by now.
Appended(uid) == IF Additive THEN Plus(batch[uid], got) ELSE got

AppendTraffic ==
    /\ pc = "append" /\ i <= Len(userList)
    /\ batch' = [batch EXCEPT ![userList[i].user] = Appended(userList[i].user)]
    /\ DoneWithUser
    /\ UNCHANGED <<counters, connVars, userList, traffic, monVars, n, pushVars, moved, limited>>

-----------------------------------------------------------------------------
\* ReportUserTraffic

BeginPush ==
    /\ pc = "user" /\ i > n
    /\ i' = 1 /\ n' = 0
    /\ path' = 1 /\ attempt' = 1
    /\ pc' = IF batch = Nobody THEN "idle" ELSE "push"
    /\ UNCHANGED <<counters, connVars, userList, traffic, monVars, who, got, batch, billed,
                   faults, answerLost, pushFailed, moved, limited>>

Bill == billed' = [u \in Users |-> Plus(billed[u], batch[u])]

PushOk ==
    /\ pc = "push"
    /\ Bill
    /\ batch' = Nobody
    /\ path' = 1 /\ attempt' = 1
    /\ pc' = "idle"
    /\ UNCHANGED <<counters, connVars, userList, traffic, monVars, readVars,
                   faults, answerLost, pushFailed, moved, limited>>

\* The next path, or the push is given up with what it was to bill.
NextPath ==
    /\ attempt' = 1
    /\ IF path < Paths
         THEN /\ path' = path + 1
              /\ UNCHANGED <<pc, batch, pushFailed>>
         ELSE /\ pc' = "idle"
              /\ batch' = Nobody
              /\ pushFailed' = TRUE
              /\ path' = 1

\* Fault: the batch goes with the first request that fails.
NextAttempt_GivesUp ==
    /\ pc' = "idle" /\ batch' = Nobody
    /\ UNCHANGED <<path, attempt, pushFailed>>

\* resty tries a request again that brought no answer.
NextAttempt ==
    IF attempt < Attempts
      THEN attempt' = attempt + 1 /\ UNCHANGED <<path, pc, batch, pushFailed>>
      ELSE NextPath

Faulty == pc = "push" /\ faults < MaxFaults /\ faults' = faults + 1

\* An answer with a status of 400 or more: no retry, the next path.
PushRejected ==
    /\ Faulty
    /\ NextPath
    /\ UNCHANGED <<counters, connVars, userList, traffic, monVars, readVars, billed,
                   answerLost, moved, limited>>

\* The request does not get to the panel.
PushUnsent ==
    /\ Faulty
    /\ NextAttempt
    /\ UNCHANGED <<counters, connVars, userList, traffic, monVars, readVars, billed,
                   answerLost, moved, limited>>

\* The panel counts the bytes, and its answer does not arrive.
PushAnswerLost ==
    /\ Faulty
    /\ Bill
    /\ answerLost' = TRUE
    /\ NextAttempt
    /\ UNCHANGED <<counters, connVars, userList, traffic, monVars, readVars, moved, limited>>

-----------------------------------------------------------------------------
\* SpeedChecker: consumeDynamicSpeedLimitUsers takes the users over the
\* threshold out of the record.

Heavy == {u \in Users : traffic[u] >= Threshold}

\* Fault: the record stays.
SpeedChecker_Keeps ==
    /\ Heavy # {}
    /\ \A u \in Users : limited[u] < 3
    /\ limited' = [u \in Users |-> IF u \in Heavy THEN limited[u] + 1 ELSE limited[u]]
    /\ UNCHANGED <<counters, connVars, userList, traffic, monVars, pc, readVars, batch,
                   pushVars, moved>>

SpeedChecker ==
    /\ Heavy # {}
    /\ limited' = [u \in Users |-> IF u \in Heavy THEN limited[u] + 1 ELSE limited[u]]
    /\ traffic' = [u \in Users |-> IF u \in Heavy THEN 0 ELSE traffic[u]]
    /\ UNCHANGED <<counters, connVars, userList, monVars, pc, readVars, batch, pushVars,
                   moved>>

-----------------------------------------------------------------------------
\* nodeInfoMonitor

\* The panel may give this list next.
Gives(list) == OnlyAppends => IsPrefix(userList, list)

\* compareUserList: a user whose settings changed is deleted and added.
Deleted == {userList[k].user : k \in {k \in 1..Len(userList) : ~Contains(newList, userList[k])}}

\* The users' branch: the new list is compared with the present one.
TakeList(list) ==
    /\ mon = "idle"
    /\ list # userList /\ Gives(list)
    /\ newList' = list
    /\ mon' = "delUsers"
    /\ UNCHANGED <<counters, connVars, userList, traffic, pc, readVars, batch, pushVars,
                   moved, limited>>

\* xray unregisters the counters of a deleted user, whose connections go on.
DelUsers ==
    /\ mon = "delUsers"
    /\ mon' = "addUsers"
    /\ IF core = "xray"
         THEN /\ counters' = [u \in Users |-> IF u \in Deleted THEN None ELSE counters[u]]
              /\ attached' = attached \ Deleted
              /\ detached' = detached \cup (attached \cap Deleted)
         ELSE UNCHANGED <<counters, attached, detached>>
    /\ UNCHANGED <<nodeUp, userList, traffic, newList, pc, readVars, batch, pushVars,
                   moved, limited>>

\* AddUsers, and deleteTraffic for the deleted.
AddUsers ==
    /\ mon = "addUsers"
    /\ mon' = "store"
    /\ attached' = attached \cup UsersOf(newList)
    /\ traffic' = [u \in Users |-> IF u \in Deleted THEN 0 ELSE traffic[u]]
    /\ UNCHANGED <<counters, detached, nodeUp, userList, newList, pc, readVars, batch,
                   pushVars, moved, limited>>

StoreList ==
    /\ mon = "store"
    /\ mon' = "idle"
    /\ userList' = newList
    /\ UNCHANGED <<counters, connVars, traffic, newList, pc, readVars, batch, pushVars,
                   moved, limited>>

\* The node's branch: the list is replaced and the record reset at once.
Reload(list) ==
    /\ mon = "idle"
    /\ Gives(list)
    /\ mon' = "delNode"
    /\ userList' = list /\ newList' = list
    /\ traffic' = Zero
    /\ UNCHANGED <<counters, connVars, pc, readVars, batch, pushVars, moved, limited>>

\* The counters of a hy2 node belong to its server and go with it; those of
\* xray and sing are kept by name.
DelNode ==
    /\ mon = "delNode"
    /\ mon' = "addNode"
    /\ nodeUp' = FALSE
    /\ IF core = "hy2"
         THEN counters' = Nobody /\ attached' = {}
         ELSE UNCHANGED <<counters, attached>>
    /\ UNCHANGED <<detached, userList, traffic, newList, pc, readVars, batch, pushVars,
                   moved, limited>>

\* AddNode, and AddUsers for the whole list.
AddNode ==
    /\ mon = "addNode"
    /\ mon' = "idle"
    /\ nodeUp' = TRUE
    /\ attached' = attached \cup UsersOf(userList)
    /\ UNCHANGED <<counters, detached, userList, traffic, newList, pc, readVars, batch,
                   pushVars, moved, limited>>

-----------------------------------------------------------------------------
Report ==
    \/ Begin \/ NextUser \/ GetUserTraffic \/ SkipUser \/ AddTraffic \/ AppendTraffic
    \/ BeginPush \/ PushOk
    \/ PushRejected \/ PushUnsent \/ PushAnswerLost
    \/ ReportPanics

Apply == DelUsers \/ AddUsers \/ StoreList \/ DelNode \/ AddNode

Monitor ==
    \/ \E list \in Lists : TakeList(list) \/ Reload(list)
    \/ Apply

\* After a panic the process is gone.
Running(A) == pc # "panicked" /\ A /\ UNCHANGED core

Next ==
    Running(\/ \E u \in Users, d \in Dirs : \/ Count(u, d) \/ CountNowhere(u, d)
                                           \/ \E bytes \in 0..1 : CountLast(u, d, bytes)
            \/ Report
            \/ SpeedChecker
            \/ Monitor)

Spec == Init /\ [][Next]_vars

\* The report runs every period, see KeepsExecuting of Task, and a poll that
\* has begun comes to its end.
FairSpec == Spec /\ WF_vars(Running(Report)) /\ WF_vars(Running(Apply))

-----------------------------------------------------------------------------
\* Properties

\* What the report has taken of a counter and not appended yet.  sing and hy2
\* read first and reset later: till then the counter still has it.
Taken(u, d) ==
    LET until == IF Atomic THEN {"readUp", "readDown", "record", "append"}
                 ELSE IF d = "up" THEN {"resetDown", "record", "append"}
                 ELSE {"record", "append"}
    IN IF u = who /\ pc \in until THEN got[d] ELSE 0

Pending(u, d) == counters[u][d] + Taken(u, d) + batch[u][d]

TypeOK ==
    /\ core \in Cores
    /\ counters \in [Users -> [Dirs -> Nat]]
    /\ attached \subseteq Users /\ detached \subseteq Users
    /\ nodeUp \in BOOLEAN
    /\ userList \in Lists /\ newList \in Lists
    /\ traffic \in [Users -> Nat] /\ limited \in [Users -> Nat]
    /\ mon \in {"idle", "delUsers", "addUsers", "store", "delNode", "addNode"}
    /\ pc \in {"idle", "user", "readUp", "readDown", "resetUp", "resetDown", "record",
               "append", "push", "panicked"}
    /\ i \in Nat \ {0} /\ n \in Nat
    /\ who \in Users \cup {NoUser} /\ got \in [Dirs -> Nat]
    /\ batch \in [Users -> [Dirs -> Nat]]
    /\ path \in 1..Paths /\ attempt \in 1..Attempts
    /\ moved \in [Users -> [Dirs -> Nat]] /\ billed \in [Users -> [Dirs -> Nat]]
    /\ faults \in 0..MaxFaults
    /\ answerLost \in BOOLEAN /\ pushFailed \in BOOLEAN

\* Each byte is billed once at most, to the user who moved it, however the
\* connections, the report and the monitor interleave, as long as no answer
\* of the panel is lost.
NothingTwice ==
    ~answerLost => \A u \in Users, d \in Dirs : Pending(u, d) + billed[u][d] <= moved[u][d]

\* With xray no byte is lost between the counter and the panel, as long as no
\* push is given up: it is in the counter, in the report's hands or billed.
NothingLost ==
    core = "xray" /\ ~pushFailed =>
      \A u \in Users, d \in Dirs : moved[u][d] <= Pending(u, d) + billed[u][d]

\* No user is billed for bytes they did not move.
BilledToOwner ==
    ~answerLost => \A u \in Users, d \in Dirs : billed[u][d] <= moved[u][d]

\* A user is given the dynamic limit only for traffic of their own, and for
\* none of it twice.
LimitsAreEarned == \A u \in Users : Threshold * limited[u] + traffic[u] <= Sum(moved[u])

\* The report never ends the process.  (hy2's does when it meets a reload.)
NeverPanics == core # "hy2" => pc # "panicked"

\* With xray all a user has moved comes to be billed, unless a push is given
\* up.
EventuallyBilled ==
    []<>(core = "xray" /\ ~pushFailed =>
           \A u \in Users, d \in Dirs : billed[u][d] >= moved[u][d])
=============================================================================
