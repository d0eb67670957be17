----------------------------- MODULE Controller -----------------------------
(***************************************************************************)
(* node/controller.go and node/task.go with the panel client they poll     *)
(* (api/panel): one node's controller fetches the node and its users from  *)
(* the panel, brings the core and the limiter up with them, and then       *)
(* follows the panel's changes by polling.                                 *)
(*                                                                         *)
(* Each request to the panel, each call of the core and each call of the   *)
(* limiter is a step: the panel changes in between, any of them may fail,  *)
(* and Close runs in another goroutine.                                    *)
(***************************************************************************)
EXTENDS Naturals, FiniteSets

CONSTANTS
    Users,          \* uuids
    Versions,       \* settings of a user: with the uuid, the key of compareUserList
    NotListed,      \* a user that is not in a list
    NodeInfos,      \* the configurations the panel may have for the node
    NoNode,         \* the core has no node
    Failures,       \* what the body of an answer that is an error may be
    Nothing,        \* a nil result, an empty record, no limiter
    Tags,           \* node tags
    TagOf,          \* buildNodeTag, or the configured Name, of each node
    Interval,       \* PullInterval of each node
    Named,          \* Options.Name is set
    Etags,          \* the panel answers a list that has not changed with 304
    MayEmpty,       \* the panel may list no users
    Faults,         \* the steps that may fail
    MaxFaults,      \* bound on the failures
    MaxChanges,     \* bound on the panel's changes
    MayClose        \* whether Close is called

FaultKinds == {"getNode", "getUsers", "cert", "addNode", "addUsers", "delUsers"}

Lists  == [Users -> Versions \cup {NotListed}]
Listed(l) == {u \in Users : l[u] # NotListed}
NoUsers == [u \in Users |-> NotListed]

ASSUME ControllerAssumption ==
    /\ IsFiniteSet(Users)
    /\ NotListed \notin Versions
    /\ NoNode \notin NodeInfos
    /\ Nothing \notin NodeInfos \cup Failures \cup Lists
    /\ NodeInfos \cap Failures = {}
    /\ TagOf \in [NodeInfos -> Tags]
    /\ Named => \A m, n \in NodeInfos : TagOf[m] = TagOf[n]
    /\ DOMAIN Interval = NodeInfos
    /\ {Named, Etags, MayEmpty, MayClose} \subseteq BOOLEAN
    /\ Faults \subseteq FaultKinds
    /\ MaxFaults \in Nat /\ MaxChanges \in Nat

VARIABLES
    panel,          \* the panel: the node's configuration and its users
    seenNode,       \* Client.responseBodyHash and nodeEtag: the last body recorded
    seenUsers,      \* Client.userEtag: the list of the last ETag
    core,           \* the core: the node it serves and the users it accepts
    limiters,       \* limiter.limiter: the users each tag's limiter knows
    tag,            \* Controller.tag
    info,           \* Controller.info
    userList,       \* Controller.userList
    interval,       \* nodeInfoMonitorPeriodic.Interval
    pc,             \* the step the controller's goroutine is at
    newN, newU,     \* what nodeInfoMonitor has fetched
    close,          \* how far Close has come
    faults,         \* the failures so far
    changes         \* the panel's changes so far

client  == <<seenNode, seenUsers>>
control == <<tag, info, userList, interval>>
fetched == <<newN, newU>>
bounds  == <<faults, changes>>
vars == <<panel, client, core, limiters, control, pc, fetched, close, bounds>>

StartSteps   == {"startNode", "startUsers", "startCert", "startAddNode", "startAddUsers"}
ExecuteSteps == {"getNode", "getUsers", "delNode", "limiter", "cert", "addNode", "addUsers",
                 "delUsers", "diffUsers", "updateUser"}
\* "wait": the timer is armed; "late": it has fired and its goroutine is past
\* hasClosed; "blocked": Execute waits for its own mutex (Task, ExecuteCloses);
\* "stopped": closed and run out; "failed": Start returned an error;
\* "crashed": a panic has ended the process.
RestSteps    == {"wait", "late", "blocked", "stopped", "failed", "crashed"}

CloseSteps == {"open", "tasks", "delNode", "closed"}

-----------------------------------------------------------------------------
Fresh(p) ==
    /\ panel = p
    /\ seenNode = Nothing /\ seenUsers = Nothing
    /\ core = [node |-> NoNode, users |-> NoUsers]
    /\ limiters = [t \in Tags |-> Nothing]
    /\ tag = Nothing /\ info = Nothing /\ userList = NoUsers /\ interval = Nothing
    /\ pc = "startNode"
    /\ newN = Nothing /\ newU = Nothing
    /\ close = "open"
    /\ faults = 0 /\ changes = 0

Panels == [node : NodeInfos, users : IF MayEmpty THEN Lists ELSE Lists \ {NoUsers}]

Init == \E p \in Panels : p.users # NoUsers /\ Fresh(p)

-----------------------------------------------------------------------------
\* The panel

Change ==
    /\ changes < MaxChanges
    /\ changes' = changes + 1
    /\ panel' \in Panels \ {panel}
    /\ UNCHANGED <<client, core, limiters, control, pc, fetched, close, faults>>

MayFail(kind) == kind \in Faults /\ faults < MaxFaults

\* One failure more.
Failing(kind) == MayFail(kind) /\ faults' = faults + 1

-----------------------------------------------------------------------------
\* Client.GetNodeInfo.  A 304 or a body of before is no news; any other body
\* is recorded, and only then is its status looked at.

NodeUnchanged == seenNode = panel.node

GetNodeFresh ==
    /\ ~NodeUnchanged
    /\ seenNode' = panel.node
    /\ newN' = panel.node
    /\ UNCHANGED faults

\* Fault: a body of before is taken for a change.
GetNodeSame_Reloads ==
    /\ NodeUnchanged
    /\ newN' = panel.node
    /\ UNCHANGED <<seenNode, faults>>

GetNodeSame ==
    /\ NodeUnchanged
    /\ newN' = Nothing
    /\ UNCHANGED <<seenNode, faults>>

\* An error body that was not recorded before.
GetNodeFails(body) ==
    /\ Failing("getNode")
    /\ body # seenNode
    /\ seenNode' = body
    /\ newN' = Nothing

\* The same error body again is taken for "not modified".
GetNodeFailsAgain ==
    /\ Failing("getNode")
    /\ seenNode \in Failures
    /\ newN' = Nothing
    /\ UNCHANGED seenNode

\* Client.GetUserList: 304 gives nil, a list comes with its ETag.
ListUnchanged == Etags /\ seenUsers = panel.users

GetUserList ==
    /\ IF ListUnchanged
         THEN newU' = Nothing /\ UNCHANGED seenUsers
         ELSE newU' = panel.users /\ seenUsers' = panel.users
    /\ UNCHANGED faults

-----------------------------------------------------------------------------
\* The core (xray), for one tag

\* AddUsers(l) adds one user after the other and fails at one it has already.
CanAdd(l) == core.node # NoNode /\ Listed(l) \cap Listed(core.users) = {}

With(l, us) == [u \in Users |-> IF u \in us THEN l[u] ELSE core.users[u]]
Without(us) == [u \in Users |-> IF u \in us THEN NotListed ELSE core.users[u]]

\* An AddUsers that fails has added some of the users before the one it failed at.
AddUsersFails(l) ==
    /\ \/ Failing("addUsers")
       \/ ~CanAdd(l) /\ UNCHANGED faults
    /\ IF core.node = NoNode
         THEN UNCHANGED core
         ELSE \E some \in SUBSET (Listed(l) \ Listed(core.users)) :
                /\ some # Listed(l)
                /\ core' = [core EXCEPT !.users = With(l, some)]

AddUsersOk(l) ==
    /\ CanAdd(l)
    /\ core' = [core EXCEPT !.users = With(l, Listed(l))]
    /\ UNCHANGED faults

\* DelUsers(us) fails at a user the core does not have.
CanDel(us) == core.node # NoNode /\ us \subseteq Listed(core.users)

DelUsersFails(us) ==
    /\ \/ Failing("delUsers")
       \/ ~CanDel(us) /\ UNCHANGED faults
    /\ IF core.node = NoNode
         THEN UNCHANGED core
         ELSE \E some \in SUBSET (us \cap Listed(core.users)) :
                /\ some # us
                /\ core' = [core EXCEPT !.users = Without(some)]

DelUsersOk(us) ==
    /\ CanDel(us)
    /\ core' = [core EXCEPT !.users = Without(us)]
    /\ UNCHANGED faults

-----------------------------------------------------------------------------
\* Controller.Start

StartGetNode ==
    /\ pc = "startNode"
    /\ \/ GetNodeFresh /\ pc' = "startUsers"
       \/ \E body \in Failures : GetNodeFails(body) /\ pc' = "failed"
    /\ UNCHANGED <<panel, seenUsers, core, limiters, control, newU, close, changes>>

\* The user list, the tag and the limiter; a node without users does not start.
StartGetUsers ==
    /\ pc = "startUsers"
    /\ GetUserList
    /\ userList' = newU'
    /\ IF newU' = NoUsers
         THEN pc' = "failed" /\ UNCHANGED <<tag, limiters>>
         ELSE /\ pc' = "startCert"
              /\ tag' = TagOf[newN]
              /\ limiters' = [limiters EXCEPT ![TagOf[newN]] = newU']
    /\ UNCHANGED <<panel, seenNode, core, info, interval, newN, close, changes>>

StartGetUsersFails ==
    /\ pc = "startUsers"
    /\ Failing("getUsers")
    /\ pc' = "failed"
    /\ UNCHANGED <<panel, client, core, limiters, control, fetched, close, changes>>

StartCert ==
    /\ pc = "startCert"
    /\ \/ pc' = "startAddNode" /\ UNCHANGED faults
       \/ Failing("cert") /\ pc' = "failed"
    /\ UNCHANGED <<panel, client, core, limiters, control, fetched, close, changes>>

StartAddNode ==
    /\ pc = "startAddNode"
    /\ \/ /\ core' = [node |-> newN, users |-> NoUsers]
          /\ pc' = "startAddUsers"
          /\ UNCHANGED faults
       \/ Failing("addNode") /\ pc' = "failed" /\ UNCHANGED core
    /\ UNCHANGED <<panel, client, limiters, control, fetched, close, changes>>

StartAddUsers ==
    /\ pc = "startAddUsers"
    /\ \/ /\ AddUsersOk(userList)
          /\ info' = newN
          /\ interval' = Interval[newN]
          /\ pc' = "wait"
       \/ /\ AddUsersFails(userList)
          /\ pc' = "failed"
          /\ UNCHANGED <<info, interval>>
    /\ UNCHANGED <<panel, client, limiters, tag, userList, fetched, close, changes>>

\* The server logs a failed Start and ends; a panic ends it at once.  It is
\* run again with nothing kept: after a panic by systemd (Restart=on-failure),
\* after a failed Start, which ends with status 0, by whoever operates it.
Restart ==
    /\ pc \in {"failed", "crashed"}
    /\ seenNode' = Nothing /\ seenUsers' = Nothing
    /\ core' = [node |-> NoNode, users |-> NoUsers]
    /\ limiters' = [t \in Tags |-> Nothing]
    /\ tag' = Nothing /\ info' = Nothing /\ userList' = NoUsers /\ interval' = Nothing
    /\ pc' = "startNode"
    /\ newN' = Nothing /\ newU' = Nothing
    /\ close' = "open"
    /\ UNCHANGED <<panel, bounds>>

-----------------------------------------------------------------------------
\* nodeInfoMonitor, the Execute of nodeInfoMonitorPeriodic

\* The timer fires and hasClosed finds the task running.
Fire ==
    /\ pc = "wait"
    /\ pc' = "late"
    /\ UNCHANGED <<panel, client, core, limiters, control, fetched, close, bounds>>

\* checkedExecute takes the task's mutex and calls Execute.
Execute ==
    /\ pc = "late"
    /\ pc' = "getNode"
    /\ UNCHANGED <<panel, client, core, limiters, control, fetched, close, bounds>>

\* What follows a return of Execute: a new timer, unless the task was closed.
Rearmed == IF close \in {"open", "tasks"} THEN "wait" ELSE "stopped"

GetNode ==
    /\ pc = "getNode"
    /\ \/ (GetNodeFresh \/ GetNodeSame \/ GetNodeFailsAgain) /\ pc' = "getUsers"
       \/ \E body \in Failures : GetNodeFails(body) /\ pc' = Rearmed
    /\ UNCHANGED <<panel, seenUsers, core, limiters, control, newU, close, changes>>

\* Fault: the controller keeps the node it had.
GetUsers_KeepsInfo ==
    /\ pc = "getUsers"
    /\ GetUserList
    /\ IF newN # Nothing
         THEN /\ userList' = IF newU' = Nothing THEN userList ELSE newU'
              /\ pc' = "delNode"
         ELSE /\ pc' = IF newU' \in {Nothing, NoUsers} THEN Rearmed ELSE "delUsers"
              /\ UNCHANGED userList
    /\ UNCHANGED <<panel, seenNode, core, limiters, tag, info, interval, newN, close, changes>>

\* Fault: a changed node is taken over without the list that came with it.
GetUsers_KeepsList ==
    /\ pc = "getUsers"
    /\ GetUserList
    /\ IF newN # Nothing
         THEN info' = newN /\ pc' = "delNode"
         ELSE /\ pc' = IF newU' \in {Nothing, NoUsers} THEN Rearmed ELSE "delUsers"
              /\ UNCHANGED info
    /\ UNCHANGED <<panel, seenNode, core, limiters, tag, userList, interval, newN, close, changes>>

\* Fault: the list is stored before the core has taken the changes.
GetUsers_StoresEarly ==
    /\ pc = "getUsers"
    /\ GetUserList
    /\ userList' = IF newU' \in {Nothing, NoUsers} THEN userList ELSE newU'
    /\ IF newN # Nothing
         THEN info' = newN /\ pc' = "delNode"
         ELSE /\ pc' = IF newU' \in {Nothing, NoUsers} THEN Rearmed ELSE "delUsers"
              /\ UNCHANGED info
    /\ UNCHANGED <<panel, seenNode, core, limiters, tag, interval, newN, close, changes>>

\* The list is fetched; a changed node is taken over at once, with the list if
\* there is one.
GetUsers ==
    /\ pc = "getUsers"
    /\ GetUserList
    /\ IF newN # Nothing
         THEN /\ info' = newN
              /\ userList' = IF newU' = Nothing THEN userList ELSE newU'
              /\ pc' = "delNode"
         ELSE /\ pc' = IF newU' \in {Nothing, NoUsers} THEN Rearmed ELSE "delUsers"
              /\ UNCHANGED <<info, userList>>
    /\ UNCHANGED <<panel, seenNode, core, limiters, tag, interval, newN, close, changes>>

\* The monitor returns: the node it has fetched is dropped.
GetUsersFails ==
    /\ pc = "getUsers"
    /\ Failing("getUsers")
    /\ pc' = Rearmed
    /\ newN' = Nothing
    /\ UNCHANGED <<panel, client, core, limiters, control, newU, close, changes>>

\* Fault: a node that is not there is no reason to panic.
DelNode_Lenient ==
    /\ pc = "delNode"
    /\ core' = [node |-> NoNode, users |-> NoUsers]
    /\ pc' = "limiter"
    /\ UNCHANGED <<panel, client, limiters, control, fetched, close, bounds>>

\* The node has changed: it is removed from the core, or the process panics.
DelNode ==
    /\ pc = "delNode"
    /\ core' = [node |-> NoNode, users |-> NoUsers]
    /\ pc' = IF core.node = NoNode THEN "crashed" ELSE "limiter"
    /\ UNCHANGED <<panel, client, limiters, control, fetched, close, bounds>>

\* A node without a configured name gets its limiter anew, under its new tag.
UpdateLimiter ==
    /\ pc = "limiter"
    /\ IF Named
         THEN UNCHANGED <<tag, limiters>>
         ELSE /\ tag' = TagOf[newN]
              /\ limiters' = [limiters EXCEPT ![TagOf[newN]] = userList]
    /\ pc' = "cert"
    /\ UNCHANGED <<panel, client, core, info, userList, interval, fetched, close, bounds>>

RequestCert ==
    /\ pc = "cert"
    /\ \/ pc' = "addNode" /\ UNCHANGED faults
       \/ Failing("cert") /\ pc' = Rearmed
    /\ UNCHANGED <<panel, client, core, limiters, control, fetched, close, changes>>

AddNode ==
    /\ pc = "addNode"
    /\ \/ /\ core' = [node |-> newN, users |-> NoUsers]
          /\ pc' = "addUsers"
          /\ UNCHANGED faults
       \/ Failing("addNode") /\ pc' = "crashed" /\ UNCHANGED core
    /\ UNCHANGED <<panel, client, limiters, control, fetched, close, changes>>

\* With the users added, a new PullInterval makes Execute close its own task,
\* whose mutex it holds.
AddUsers ==
    /\ pc = "addUsers"
    /\ \/ /\ AddUsersOk(userList)
          /\ interval' = Interval[newN]
          /\ pc' = IF interval # Interval[newN] THEN "blocked" ELSE Rearmed
       \/ /\ AddUsersFails(userList)
          /\ pc' = Rearmed
          /\ UNCHANGED interval
    /\ UNCHANGED <<panel, client, limiters, tag, info, userList, fetched, close, changes>>

\* The node has not changed: compareUserList tells the users that have.  A user
\* with other settings is deleted and added again.
Changed == {u \in Users : newU[u] # userList[u]}
Deleted == Changed \cap Listed(userList)
Added   == [u \in Users |-> IF u \in Changed THEN newU[u] ELSE NotListed]

DelUsers ==
    /\ pc = "delUsers"
    /\ \/ DelUsersOk(Deleted) /\ pc' = "diffUsers"
       \/ Deleted = {} /\ pc' = "diffUsers" /\ UNCHANGED <<core, faults>>
       \/ Deleted # {} /\ DelUsersFails(Deleted) /\ pc' = Rearmed
    /\ UNCHANGED <<panel, client, limiters, control, fetched, close, changes>>

DiffUsers ==
    /\ pc = "diffUsers"
    /\ \/ AddUsersOk(Added) /\ pc' = "updateUser"
       \/ Added = NoUsers /\ pc' = "updateUser" /\ UNCHANGED <<core, faults>>
       \/ Added # NoUsers /\ AddUsersFails(Added) /\ pc' = Rearmed
    /\ UNCHANGED <<panel, client, limiters, control, fetched, close, changes>>

\* Fault: the limiter is not told.
UpdateUser_NoLimiter ==
    /\ pc = "updateUser"
    /\ userList' = newU
    /\ pc' = Rearmed
    /\ UNCHANGED <<panel, client, core, limiters, tag, info, interval, fetched, close, bounds>>

\* Fault: the next poll compares with the list of before.
UpdateUser_KeepsList ==
    /\ pc = "updateUser"
    /\ limiters' = IF limiters[tag] = Nothing THEN limiters
                   ELSE [limiters EXCEPT ![tag] =
                           [u \in Users |-> IF u \in Changed THEN newU[u] ELSE limiters[tag][u]]]
    /\ pc' = Rearmed
    /\ UNCHANGED <<panel, client, core, tag, info, userList, interval, fetched, close, bounds>>

\* Limiter.UpdateUser on the controller's limiter, which Close may have taken
\* out of the table, and the list the next poll compares with.
UpdateUser ==
    /\ pc = "updateUser"
    /\ limiters' = IF limiters[tag] = Nothing THEN limiters
                   ELSE [limiters EXCEPT ![tag] =
                           [u \in Users |-> IF u \in Changed THEN newU[u] ELSE limiters[tag][u]]]
    /\ userList' = newU
    /\ pc' = Rearmed
    /\ UNCHANGED <<panel, client, core, tag, info, interval, fetched, close, bounds>>

-----------------------------------------------------------------------------
\* Controller.Close, called when the configuration is reloaded or the server ends

CloseLimiter ==
    /\ MayClose /\ close = "open"
    /\ pc \in ExecuteSteps \cup {"wait", "late", "blocked"}
    /\ limiters' = [limiters EXCEPT ![tag] = Nothing]
    /\ close' = "tasks"
    /\ UNCHANGED <<panel, client, core, control, pc, fetched, bounds>>

\* Task.Close waits for the mutex, that is until no Execute runs.
CloseTasks ==
    /\ close = "tasks"
    /\ pc \in {"wait", "late"}
    /\ close' = "delNode"
    /\ pc' = IF pc = "wait" THEN "stopped" ELSE pc
    /\ UNCHANGED <<panel, client, core, limiters, control, fetched, bounds>>

\* Node.Close panics when the core does not have the node.
CloseNode ==
    /\ close = "delNode"
    /\ pc # "crashed"
    /\ core' = [node |-> NoNode, users |-> NoUsers]
    /\ IF core.node = NoNode
         THEN pc' = "crashed" /\ UNCHANGED close
         ELSE close' = "closed" /\ UNCHANGED pc
    /\ UNCHANGED <<panel, client, limiters, control, fetched, bounds>>

-----------------------------------------------------------------------------
Start ==
    \/ StartGetNode \/ StartGetUsers \/ StartGetUsersFails
    \/ StartCert \/ StartAddNode \/ StartAddUsers

Monitor ==
    \/ Fire \/ Execute
    \/ GetNode \/ GetUsers \/ GetUsersFails
    \/ DelNode \/ UpdateLimiter \/ RequestCert \/ AddNode \/ AddUsers
    \/ DelUsers \/ DiffUsers \/ UpdateUser

Close == CloseLimiter \/ CloseTasks \/ CloseNode

Next == Change \/ Start \/ Restart \/ Monitor \/ Close

Spec == Init /\ [][Next]_vars

(***************************************************************************)
(* Fairness.  Start goes on to its end, and the task keeps polling (Task,   *)
(* KeepsExecuting): each request has a timeout and each call returns.  The  *)
(* process is run again when it has ended, which only the runs with faults *)
(* need: what they find is not that nobody started it again.  The panel    *)
(* need not change and nobody need call Close.                             *)
(***************************************************************************)
FairSpec == Spec /\ WF_vars(Start) /\ WF_vars(Restart) /\ WF_vars(Monitor)

-----------------------------------------------------------------------------
\* Properties

TypeOK ==
    /\ panel \in [node : NodeInfos, users : Lists]
    /\ seenNode \in NodeInfos \cup Failures \cup {Nothing}
    /\ seenUsers \in Lists \cup {Nothing}
    /\ core \in [node : NodeInfos \cup {NoNode}, users : Lists]
    /\ limiters \in [Tags -> Lists \cup {Nothing}]
    /\ tag \in Tags \cup {Nothing}
    /\ info \in NodeInfos \cup {Nothing}
    /\ userList \in Lists
    /\ pc \in StartSteps \cup ExecuteSteps \cup RestSteps
    /\ newN \in NodeInfos \cup {Nothing}
    /\ newU \in Lists \cup {Nothing}
    /\ close \in CloseSteps
    /\ faults \in 0..MaxFaults
    /\ changes \in 0..MaxChanges

AtRest == pc \in {"wait", "late"} /\ close = "open"

\* The core has users for a node only: no user outlives the node.
UsersNeedNode == core.node = NoNode => core.users = NoUsers

\* Between two polls the core serves the node the controller holds, or, when a
\* poll gave up halfway, none.
CoreHasInfo == AtRest => core.node \in {info, NoNode}

\* Between two polls the limiter of a node without a configured name knows
\* exactly the users the controller compares the next list with, whatever has
\* failed: the users to delete later are those that were let in.
LimiterHasList == AtRest /\ ~Named => limiters[tag] = userList

\* Between two polls the core, the limiter and the controller agree on the node
\* and the users.
Agreement ==
    AtRest => /\ core.node = info
              /\ core.users = userList
              /\ limiters[tag] = userList

\* A limiter is kept for the present tag only.
NoOrphanLimiter == AtRest => \A t \in Tags : limiters[t] # Nothing => t = tag

\* The node is torn down only for another configuration.
ReloadsOnChange == [][pc = "delNode" /\ pc' # pc => newN # core.node]_vars

\* The process does not end in a panic.
NeverCrashes == pc # "crashed"

\* What the node serves becomes what the panel shows, and stays so once the
\* panel changes no more.
Converges == <>[](core.node = panel.node /\ core.users = panel.users)

\* The controller's list of users mirrors the panel's: each poll takes over the
\* panel's list of that moment.
Users_ == INSTANCE Mirror WITH
    Values  <- Lists,
    source  <- panel.users,
    pending <- IF newU = Nothing THEN userList ELSE newU,
    replica <- userList

MirrorsUsers == Users_!Spec

\* A closed controller's node does not come back, although a poll may have
\* passed hasClosed before Close and go on: one that would reload the node
\* finds none to remove, and panics.
StaysClosed == close = "closed" => core.node = NoNode
=============================================================================
