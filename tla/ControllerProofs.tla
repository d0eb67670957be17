--------------------------- MODULE ControllerProofs ---------------------------
(***************************************************************************)
(* Proofs about Controller: what holds between two polls for every panel,  *)
(* every set of users, nodes and tags and however many steps fail, with    *)
(* Close at any time.                                                      *)
(***************************************************************************)
EXTENDS Controller, TLAPS

Cores == [node : NodeInfos \cup {NoNode}, users : Lists]

\* What a step relies on that an earlier one fetched or set: the node from
\* GetNodeInfo, the list from GetUserList, the tag that Start has chosen.
Held ==
    /\ pc \in {"startNode", "startUsers"} => seenUsers = Nothing
    /\ pc \in {"startUsers", "startCert", "startAddNode", "startAddUsers",
               "delNode", "limiter", "cert", "addNode", "addUsers"} => newN \in NodeInfos
    /\ pc \in {"delUsers", "diffUsers", "updateUser"} => newU \in Lists
    /\ pc \in ExecuteSteps \cup {"startCert", "startAddNode", "startAddUsers",
                                 "wait", "late", "blocked"} => tag \in Tags

-----------------------------------------------------------------------------
\* Facts about lists and about the core's calls

\* NoUsers is a list, nil is not, and a panel has a node and a list.
LEMMA ListsFacts ==
    /\ NoUsers \in Lists
    /\ Nothing \notin Lists /\ Nothing \notin NodeInfos
    /\ \A p \in Panels : p.node \in NodeInfos /\ p.users \in Lists
    /\ \A p \in Panels : p \in [node : NodeInfos, users : Lists]
  BY ControllerAssumption DEF NoUsers, Lists, Panels

\* A list that is changed for some users is a list.
LEMMA MixedList ==
    ASSUME NEW l \in Lists, NEW k \in Lists, NEW us
    PROVE  [u \in Users |-> IF u \in us THEN l[u] ELSE k[u]] \in Lists
  BY DEF Lists

\* What compareUserList returns as added is a list of users.
LEMMA AddedIsList == newU \in Lists => Added \in Lists
  BY DEF Added, Lists

\* AddUsers, done or failed, changes the users of a node and nothing else.
LEMMA AddUsersStep ==
    ASSUME NEW l \in Lists, core \in Cores, faults \in 0..MaxFaults,
           AddUsersOk(l) \/ AddUsersFails(l)
    PROVE  /\ core' \in Cores /\ core'.node = core.node
           /\ core.node = NoNode => core' = core
           /\ faults' \in 0..MaxFaults
<1>1. \A us : With(l, us) \in Lists
  BY MixedList DEF With, Cores
<1>2. CASE AddUsersOk(l)
  BY <1>1, <1>2 DEF AddUsersOk, CanAdd, Cores
<1>3. CASE AddUsersFails(l)
  <2>1. faults' \in 0..MaxFaults
    BY <1>3, ControllerAssumption DEF AddUsersFails, Failing, MayFail
  <2>2. core' = core \/ \E us : core.node # NoNode /\ core' = [core EXCEPT !.users = With(l, us)]
    BY <1>3 DEF AddUsersFails
  <2> QED
    BY <1>1, <2>1, <2>2 DEF Cores
<1> QED
  BY <1>2, <1>3

\* The same for DelUsers.
LEMMA DelUsersStep ==
    ASSUME NEW us, core \in Cores, faults \in 0..MaxFaults,
           DelUsersOk(us) \/ DelUsersFails(us)
    PROVE  /\ core' \in Cores /\ core'.node = core.node
           /\ core.node = NoNode => core' = core
           /\ faults' \in 0..MaxFaults
<1>1. \A vs : Without(vs) \in Lists
  BY ControllerAssumption DEF Without, Cores, Lists
<1>2. CASE DelUsersOk(us)
  BY <1>1, <1>2 DEF DelUsersOk, CanDel, Cores
<1>3. CASE DelUsersFails(us)
  <2>1. faults' \in 0..MaxFaults
    BY <1>3, ControllerAssumption DEF DelUsersFails, Failing, MayFail
  <2>2. core' = core \/ \E vs : core.node # NoNode /\ core' = [core EXCEPT !.users = Without(vs)]
    BY <1>3 DEF DelUsersFails
  <2> QED
    BY <1>1, <2>1, <2>2 DEF Cores
<1> QED
  BY <1>2, <1>3

\* The actions that call the core.

\* Start adds the users of the node it has just added.
LEMMA StartAddUsersStep ==
    ASSUME TypeOK, StartAddUsers
    PROVE  /\ core' \in Cores /\ core'.node = core.node
           /\ core.node = NoNode => core' = core
           /\ faults' \in 0..MaxFaults
  BY AddUsersStep DEF StartAddUsers, TypeOK, Cores

\* A poll adds them to the node that has changed.
LEMMA AddUsersActionStep ==
    ASSUME TypeOK, AddUsers
    PROVE  /\ core' \in Cores /\ core'.node = core.node
           /\ core.node = NoNode => core' = core
           /\ faults' \in 0..MaxFaults
  BY AddUsersStep DEF AddUsers, TypeOK, Cores

\* A poll deletes the users that are no longer listed.
LEMMA DelUsersActionStep ==
    ASSUME TypeOK, DelUsers
    PROVE  /\ core' \in Cores /\ core'.node = core.node
           /\ core.node = NoNode => core' = core
           /\ faults' \in 0..MaxFaults
  BY DelUsersStep DEF DelUsers, TypeOK, Cores

\* A poll adds the users that are new.
LEMMA DiffUsersStep ==
    ASSUME TypeOK, Held, DiffUsers
    PROVE  /\ core' \in Cores /\ core'.node = core.node
           /\ core.node = NoNode => core' = core
           /\ faults' \in 0..MaxFaults
<1>1. Added \in Lists
  BY AddedIsList DEF Held, DiffUsers
<1> QED
  BY <1>1, AddUsersStep DEF DiffUsers, TypeOK, Cores

-----------------------------------------------------------------------------
\* Every step keeps the types; a step stores only what was fetched.
LEMMA TypeStep == TypeOK /\ Held /\ [Next]_vars => TypeOK'
<1> SUFFICES ASSUME TypeOK, Held, [Next]_vars PROVE TypeOK'
  OBVIOUS
<1> USE ControllerAssumption, ListsFacts
    DEF TypeOK, Held, StartSteps, ExecuteSteps, RestSteps, CloseSteps, client, control,
        fetched, bounds, vars
<1>1. CASE Change
  BY <1>1 DEF Change
<1>2. CASE StartGetNode
  BY <1>2 DEF StartGetNode, GetNodeFresh, GetNodeFails, Failing, MayFail
<1>3. CASE StartGetUsers
  BY <1>3 DEF StartGetUsers, GetUserList, ListUnchanged
<1>4. CASE StartGetUsersFails
  BY <1>4 DEF StartGetUsersFails, Failing, MayFail
<1>5. CASE StartCert
  BY <1>5 DEF StartCert, Failing, MayFail
<1>6. CASE StartAddNode
  BY <1>6 DEF StartAddNode, Failing, MayFail
<1>7. CASE StartAddUsers
  <2>1. core' \in Cores /\ faults' \in 0..MaxFaults
    BY <1>7, StartAddUsersStep
  <2> QED
    BY <1>7, <2>1 DEF StartAddUsers, Cores
<1>8. CASE Restart
  BY <1>8 DEF Restart
<1>9. CASE Fire
  BY <1>9 DEF Fire
<1>10. CASE Execute
  BY <1>10 DEF Execute
<1>11. CASE GetNode
  BY <1>11 DEF GetNode, GetNodeFresh, GetNodeSame, GetNodeFails, GetNodeFailsAgain, Rearmed, Failing, MayFail
<1>12. CASE GetUsers
  BY <1>12 DEF GetUsers, GetUserList, ListUnchanged, Rearmed
<1>13. CASE GetUsersFails
  BY <1>13 DEF GetUsersFails, Failing, MayFail, Rearmed
<1>14. CASE DelNode
  BY <1>14 DEF DelNode
<1>15. CASE UpdateLimiter
  BY <1>15 DEF UpdateLimiter
<1>16. CASE RequestCert
  BY <1>16 DEF RequestCert, Failing, MayFail, Rearmed
<1>17. CASE AddNode
  BY <1>17 DEF AddNode, Failing, MayFail
<1>18. CASE AddUsers
  <2>1. core' \in Cores /\ faults' \in 0..MaxFaults
    BY <1>18, AddUsersActionStep
  <2> QED
    BY <1>18, <2>1 DEF AddUsers, Cores, Rearmed
<1>19. CASE DelUsers
  <2>1. core' \in Cores /\ faults' \in 0..MaxFaults
    BY <1>19, DelUsersActionStep
  <2> QED
    BY <1>19, <2>1 DEF DelUsers, Cores, Rearmed
<1>20. CASE DiffUsers
  <2>1. core' \in Cores /\ faults' \in 0..MaxFaults
    BY <1>20, DiffUsersStep
  <2> QED
    BY <1>20, <2>1 DEF DiffUsers, Cores, Rearmed
<1>21. CASE UpdateUser
  <2>1. /\ pc' \in {"wait", "stopped"} /\ userList' = newU /\ newU \in Lists
        /\ UNCHANGED <<panel, client, core, tag, info, interval, fetched, close, bounds>>
    BY <1>21 DEF UpdateUser, Rearmed
  <2>2. limiters' \in [Tags -> Lists \cup {Nothing}]
    <3>1. CASE limiters[tag] = Nothing
      BY <1>21, <3>1 DEF UpdateUser
    <3>2. CASE limiters[tag] # Nothing
      <4>1. limiters[tag] \in Lists
        BY <1>21, <3>2 DEF UpdateUser
      <4>2. [u \in Users |-> IF u \in Changed THEN newU[u] ELSE limiters[tag][u]] \in Lists
        BY <2>1, <4>1 DEF Lists
      <4> QED
        BY <1>21, <3>2, <4>2 DEF UpdateUser
    <3> QED
      BY <3>1, <3>2
  <2> QED
    BY <2>1, <2>2
<1>22. CASE CloseLimiter
  BY <1>22 DEF CloseLimiter
<1>23. CASE CloseTasks
  BY <1>23 DEF CloseTasks
<1>24. CASE CloseNode
  BY <1>24 DEF CloseNode
<1>25. CASE UNCHANGED vars
  BY <1>25
<1> QED
  BY <1>1, <1>2, <1>3, <1>4, <1>5, <1>6, <1>7, <1>8, <1>9, <1>10, <1>11, <1>12, <1>13,
     <1>14, <1>15, <1>16, <1>17, <1>18, <1>19, <1>20, <1>21, <1>22, <1>23, <1>24, <1>25
  DEF Next, Start, Monitor, Close

\* What was fetched stays until the step that needs it.
LEMMA HeldStep == TypeOK /\ Held /\ [Next]_vars => Held'
<1> SUFFICES ASSUME TypeOK, Held, [Next]_vars PROVE Held'
  OBVIOUS
<1> USE ControllerAssumption, ListsFacts
    DEF TypeOK, Held, ExecuteSteps, client, control, fetched, bounds, vars
<1>1. CASE Change
  BY <1>1 DEF Change
<1>2. CASE StartGetNode
  BY <1>2 DEF StartGetNode, GetNodeFresh, GetNodeFails, Failing, MayFail
<1>3. CASE StartGetUsers
  BY <1>3 DEF StartGetUsers, GetUserList, ListUnchanged
<1>4. CASE StartGetUsersFails
  BY <1>4 DEF StartGetUsersFails, Failing, MayFail
<1>5. CASE StartCert
  BY <1>5 DEF StartCert, Failing, MayFail
<1>6. CASE StartAddNode
  BY <1>6 DEF StartAddNode, Failing, MayFail
<1>7. CASE StartAddUsers
  BY <1>7 DEF StartAddUsers
<1>8. CASE Restart
  BY <1>8 DEF Restart
<1>9. CASE Fire
  BY <1>9 DEF Fire
<1>10. CASE Execute
  BY <1>10 DEF Execute
<1>11. CASE GetNode
  BY <1>11 DEF GetNode, GetNodeFresh, GetNodeSame, GetNodeFails, GetNodeFailsAgain, Rearmed, Failing, MayFail
<1>12. CASE GetUsers
  BY <1>12 DEF GetUsers, GetUserList, ListUnchanged, Rearmed
<1>13. CASE GetUsersFails
  BY <1>13 DEF GetUsersFails, Failing, MayFail, Rearmed
<1>14. CASE DelNode
  BY <1>14 DEF DelNode
<1>15. CASE UpdateLimiter
  BY <1>15 DEF UpdateLimiter
<1>16. CASE RequestCert
  BY <1>16 DEF RequestCert, Failing, MayFail, Rearmed
<1>17. CASE AddNode
  BY <1>17 DEF AddNode, Failing, MayFail
<1>18. CASE AddUsers
  BY <1>18 DEF AddUsers, Rearmed
<1>19. CASE DelUsers
  BY <1>19 DEF DelUsers, Rearmed
<1>20. CASE DiffUsers
  BY <1>20 DEF DiffUsers, Rearmed
<1>21. CASE UpdateUser
  BY <1>21 DEF UpdateUser, Rearmed
<1>22. CASE CloseLimiter
  BY <1>22 DEF CloseLimiter
<1>23. CASE CloseTasks
  BY <1>23 DEF CloseTasks
<1>24. CASE CloseNode
  BY <1>24 DEF CloseNode
<1>25. CASE UNCHANGED vars
  BY <1>25
<1> QED
  BY <1>1, <1>2, <1>3, <1>4, <1>5, <1>6, <1>7, <1>8, <1>9, <1>10, <1>11, <1>12, <1>13,
     <1>14, <1>15, <1>16, <1>17, <1>18, <1>19, <1>20, <1>21, <1>22, <1>23, <1>24, <1>25
  DEF Next, Start, Monitor, Close

\* Every variable of the controller has its type throughout.  A nil list never
\* becomes the user list, and no limiter is looked up under a tag not yet set.
THEOREM ControllerTypeCorrect == Spec => []TypeOK
<1>1. Init => TypeOK /\ Held
  BY ControllerAssumption, ListsFacts
  DEF Init, Fresh, TypeOK, Held, StartSteps, ExecuteSteps, RestSteps, CloseSteps
<1>2. TypeOK /\ Held /\ [Next]_vars => TypeOK' /\ Held'
  BY TypeStep, HeldStep
<1> QED
  BY <1>1, <1>2, PTL DEF Spec

-----------------------------------------------------------------------------
\* The core's node.  While a poll replaces the node, info is the new one
\* already and the core has the old one, none, or the new one.
Replacing == {"limiter", "cert", "addNode", "addUsers"}

CoreInv ==
    /\ UsersNeedNode
    /\ pc \in Replacing \cup {"delNode"} => info = newN
    /\ pc \in Replacing \cup {"getNode", "getUsers", "delUsers", "diffUsers", "updateUser",
                              "wait", "late", "blocked"} => core.node \in {info, NoNode}
    /\ pc = "startAddUsers" => core.node = newN
    /\ pc \in StartSteps => close = "open"

\* No step lets the core have a node other than these, or users without one.
LEMMA CoreStep == TypeOK /\ Held /\ CoreInv /\ [Next]_vars => CoreInv'
<1> SUFFICES ASSUME TypeOK, Held, CoreInv, [Next]_vars PROVE CoreInv'
  OBVIOUS
<1> USE DEF TypeOK, Held, CoreInv, UsersNeedNode, Replacing, StartSteps, ExecuteSteps, client, control,
        fetched, bounds, vars
<1>1. CASE Change
  BY <1>1 DEF Change
<1>2. CASE StartGetNode
  BY <1>2 DEF StartGetNode, GetNodeFresh, GetNodeFails, Failing, MayFail
<1>3. CASE StartGetUsers
  BY <1>3 DEF StartGetUsers, GetUserList, ListUnchanged
<1>4. CASE StartGetUsersFails
  BY <1>4 DEF StartGetUsersFails, Failing, MayFail
<1>5. CASE StartCert
  BY <1>5 DEF StartCert, Failing, MayFail
<1>6. CASE StartAddNode
  BY <1>6 DEF StartAddNode, Failing, MayFail
<1>7. CASE StartAddUsers
  <2>1. /\ core' \in Cores /\ core'.node = core.node
        /\ core.node = NoNode => core' = core
    BY <1>7, StartAddUsersStep
  <2> QED
    BY <1>7, <2>1 DEF StartAddUsers, Cores
<1>8. CASE Restart
  BY <1>8 DEF Restart
<1>9. CASE Fire
  BY <1>9 DEF Fire
<1>10. CASE Execute
  BY <1>10 DEF Execute
<1>11. CASE GetNode
  BY <1>11 DEF GetNode, GetNodeFresh, GetNodeSame, GetNodeFails, GetNodeFailsAgain, Rearmed, Failing, MayFail
<1>12. CASE GetUsers
  BY <1>12 DEF GetUsers, GetUserList, ListUnchanged, Rearmed
<1>13. CASE GetUsersFails
  BY <1>13 DEF GetUsersFails, Failing, MayFail, Rearmed
<1>14. CASE DelNode
  BY <1>14 DEF DelNode
<1>15. CASE UpdateLimiter
  BY <1>15 DEF UpdateLimiter
<1>16. CASE RequestCert
  BY <1>16 DEF RequestCert, Failing, MayFail, Rearmed
<1>17. CASE AddNode
  BY <1>17 DEF AddNode, Failing, MayFail
<1>18. CASE AddUsers
  <2>1. /\ core' \in Cores /\ core'.node = core.node
        /\ core.node = NoNode => core' = core
    BY <1>18, AddUsersActionStep
  <2> QED
    BY <1>18, <2>1 DEF AddUsers, Cores, Rearmed
<1>19. CASE DelUsers
  <2>1. /\ core' \in Cores /\ core'.node = core.node
        /\ core.node = NoNode => core' = core
    BY <1>19, DelUsersActionStep
  <2> QED
    BY <1>19, <2>1 DEF DelUsers, Cores, Rearmed
<1>20. CASE DiffUsers
  <2>1. /\ core' \in Cores /\ core'.node = core.node
        /\ core.node = NoNode => core' = core
    BY <1>20, DiffUsersStep
  <2> QED
    BY <1>20, <2>1 DEF DiffUsers, Cores, Rearmed
<1>21. CASE UpdateUser
  BY <1>21 DEF UpdateUser, Rearmed
<1>22. CASE CloseLimiter
  BY <1>22 DEF CloseLimiter
<1>23. CASE CloseTasks
  BY <1>23 DEF CloseTasks
<1>24. CASE CloseNode
  BY <1>24 DEF CloseNode
<1>25. CASE UNCHANGED vars
  BY <1>25
<1> QED
  BY <1>1, <1>2, <1>3, <1>4, <1>5, <1>6, <1>7, <1>8, <1>9, <1>10, <1>11, <1>12, <1>13,
     <1>14, <1>15, <1>16, <1>17, <1>18, <1>19, <1>20, <1>21, <1>22, <1>23, <1>24, <1>25
  DEF Next, Start, Monitor, Close

\* No user outlives the node, and between two polls the core serves the node the
\* controller holds or none, whatever has failed and whenever Close came.
THEOREM CoreServesInfo == Spec => [](UsersNeedNode /\ CoreHasInfo)
<1>1. Init => TypeOK /\ Held /\ CoreInv
  <2>1. Init => TypeOK /\ Held
    BY ControllerAssumption, ListsFacts
    DEF Init, Fresh, TypeOK, Held, StartSteps, ExecuteSteps, RestSteps, CloseSteps
  <2>2. Init => CoreInv
    BY DEF Init, Fresh, CoreInv, UsersNeedNode, Replacing
  <2> QED
    BY <2>1, <2>2
<1>2. TypeOK /\ Held /\ CoreInv /\ [Next]_vars => TypeOK' /\ Held' /\ CoreInv'
  BY TypeStep, HeldStep, CoreStep
<1>3. CoreInv => UsersNeedNode /\ CoreHasInfo
  BY DEF CoreInv, CoreHasInfo, AtRest
<1> QED
  BY <1>1, <1>2, <1>3, PTL DEF Spec

-----------------------------------------------------------------------------
\* A poll between DelNode and AddNode has taken the node away, so that Close
\* panics rather than ends; one that Close has overtaken never gets there.
Gone == {"limiter", "cert", "addNode"}

ClosedInv ==
    /\ pc \in Gone => core.node = NoNode
    /\ close = "closed" => core.node = NoNode /\ pc \notin Gone

\* Only Start and AddNode give the core a node: Start's steps are over before
\* Close, and AddNode is not reached once it has closed.
LEMMA ClosedStep ==
    TypeOK /\ Held /\ CoreInv /\ ClosedInv /\ [Next]_vars => ClosedInv'
<1> SUFFICES ASSUME TypeOK, Held, CoreInv, ClosedInv, [Next]_vars PROVE ClosedInv'
  OBVIOUS
<1> USE DEF ClosedInv, Gone, StartSteps, client, control, fetched, bounds, vars
<1>1. CASE Change
  BY <1>1 DEF Change
<1>2. CASE Start
  <2>1. CASE StartAddUsers
    <3>1. core'.node = core.node
      BY <2>1, StartAddUsersStep DEF TypeOK, Held
    <3> QED
      BY <2>1, <3>1 DEF StartAddUsers, CoreInv
  <2> QED
    BY <1>2, <2>1
    DEF Start, StartGetNode, StartGetUsers, StartGetUsersFails, StartCert, StartAddNode,
        GetNodeFails, CoreInv
<1>3. CASE Restart
  BY <1>3 DEF Restart
<1>4. CASE Fire \/ Execute
  BY <1>4 DEF Fire, Execute
<1>5. CASE GetNode \/ GetUsers \/ GetUsersFails
  BY <1>5 DEF GetNode, GetUsers, GetUsersFails, Rearmed
<1>6. CASE DelNode
  BY <1>6 DEF DelNode, CoreInv, UsersNeedNode
<1>7. CASE UpdateLimiter \/ RequestCert \/ AddNode
  BY <1>7 DEF UpdateLimiter, RequestCert, AddNode, Rearmed
<1>8. CASE AddUsers \/ DelUsers \/ DiffUsers
  <2>1. core'.node = core.node
    BY <1>8, AddUsersActionStep, DelUsersActionStep, DiffUsersStep DEF TypeOK, Held
  <2> QED
    BY <1>8, <2>1 DEF AddUsers, DelUsers, DiffUsers, Rearmed
<1>9. CASE UpdateUser
  BY <1>9 DEF UpdateUser, Rearmed
<1>10. CASE Close
  BY <1>10 DEF Close, CloseLimiter, CloseTasks, CloseNode
<1>11. CASE UNCHANGED vars
  BY <1>11
<1> QED
  BY <1>1, <1>2, <1>3, <1>4, <1>5, <1>6, <1>7, <1>8, <1>9, <1>10, <1>11 DEF Next, Monitor

\* The node of a closed controller does not come back, whatever poll was under
\* way when Close came and whatever has failed.
THEOREM ClosedNodeStaysAway == Spec => []StaysClosed
<1>1. Init => TypeOK /\ Held /\ CoreInv /\ ClosedInv
  <2>1. Init => TypeOK /\ Held
    BY ControllerAssumption, ListsFacts
    DEF Init, Fresh, TypeOK, Held, StartSteps, ExecuteSteps, RestSteps, CloseSteps
  <2>2. Init => CoreInv /\ ClosedInv
    BY DEF Init, Fresh, CoreInv, UsersNeedNode, Replacing, ClosedInv, Gone
  <2> QED
    BY <2>1, <2>2
<1>2. TypeOK /\ Held /\ CoreInv /\ ClosedInv /\ [Next]_vars
        => TypeOK' /\ Held' /\ CoreInv' /\ ClosedInv'
  BY TypeStep, HeldStep, CoreStep, ClosedStep
<1>3. ClosedInv => StaysClosed
  BY DEF ClosedInv, StaysClosed
<1> QED
  BY <1>1, <1>2, <1>3, PTL DEF Spec

-----------------------------------------------------------------------------
\* The limiter's users, from Start's AddLimiter on; only while a changed node
\* is being removed does the controller hold a list the limiter has not seen.
LimiterInv ==
    ~Named /\ close = "open"
      /\ pc \in {"startCert", "startAddNode", "startAddUsers", "getNode", "getUsers",
                 "cert", "addNode", "addUsers", "delUsers", "diffUsers", "updateUser",
                 "wait", "late", "blocked"}
      => limiters[tag] = userList

\* A list is stored with the limiter's update, or the limiter is made anew from it.
LEMMA LimiterStep == TypeOK /\ Held /\ LimiterInv /\ [Next]_vars => LimiterInv'
<1> SUFFICES ASSUME TypeOK, Held, LimiterInv, [Next]_vars PROVE LimiterInv'
  OBVIOUS
<1> USE ControllerAssumption, ListsFacts
    DEF TypeOK, Held, LimiterInv, ExecuteSteps, client, control, fetched, bounds, vars
<1>1. CASE Change
  BY <1>1 DEF Change
<1>2. CASE StartGetNode
  BY <1>2 DEF StartGetNode, GetNodeFresh, GetNodeFails, Failing, MayFail
<1>3. CASE StartGetUsers
  BY <1>3 DEF StartGetUsers, GetUserList, ListUnchanged
<1>4. CASE StartGetUsersFails
  BY <1>4 DEF StartGetUsersFails, Failing, MayFail
<1>5. CASE StartCert
  BY <1>5 DEF StartCert, Failing, MayFail
<1>6. CASE StartAddNode
  BY <1>6 DEF StartAddNode, Failing, MayFail
<1>7. CASE StartAddUsers
  BY <1>7 DEF StartAddUsers
<1>8. CASE Restart
  BY <1>8 DEF Restart
<1>9. CASE Fire
  BY <1>9 DEF Fire
<1>10. CASE Execute
  BY <1>10 DEF Execute
<1>11. CASE GetNode
  BY <1>11 DEF GetNode, GetNodeFresh, GetNodeSame, GetNodeFails, GetNodeFailsAgain, Rearmed, Failing, MayFail
<1>12. CASE GetUsers
  BY <1>12 DEF GetUsers, GetUserList, ListUnchanged, Rearmed
<1>13. CASE GetUsersFails
  BY <1>13 DEF GetUsersFails, Failing, MayFail, Rearmed
<1>14. CASE DelNode
  BY <1>14 DEF DelNode
<1>15. CASE UpdateLimiter
  BY <1>15 DEF UpdateLimiter
<1>16. CASE RequestCert
  BY <1>16 DEF RequestCert, Failing, MayFail, Rearmed
<1>17. CASE AddNode
  BY <1>17 DEF AddNode, Failing, MayFail
<1>18. CASE AddUsers
  BY <1>18 DEF AddUsers, Rearmed
<1>19. CASE DelUsers
  BY <1>19 DEF DelUsers, Rearmed
<1>20. CASE DiffUsers
  BY <1>20 DEF DiffUsers, Rearmed
<1>21. CASE UpdateUser
  <2>1. /\ pc' \in {"wait", "stopped"} /\ userList' = newU /\ UNCHANGED <<tag, close>>
    BY <1>21 DEF UpdateUser, Rearmed
  <2>2. SUFFICES ASSUME ~Named, close = "open" PROVE limiters'[tag] = newU
    BY <2>1
  <2>3. limiters[tag] = userList /\ limiters[tag] # Nothing /\ newU \in Lists /\ tag \in Tags
    BY <1>21, <2>2 DEF UpdateUser
  <2>4. [u \in Users |-> IF u \in Changed THEN newU[u] ELSE userList[u]] = newU
    BY <2>3 DEF Changed, Lists
  <2> QED
    BY <1>21, <2>3, <2>4 DEF UpdateUser
<1>22. CASE CloseLimiter
  BY <1>22 DEF CloseLimiter
<1>23. CASE CloseTasks
  BY <1>23 DEF CloseTasks
<1>24. CASE CloseNode
  BY <1>24 DEF CloseNode
<1>25. CASE UNCHANGED vars
  BY <1>25
<1> QED
  BY <1>1, <1>2, <1>3, <1>4, <1>5, <1>6, <1>7, <1>8, <1>9, <1>10, <1>11, <1>12, <1>13,
     <1>14, <1>15, <1>16, <1>17, <1>18, <1>19, <1>20, <1>21, <1>22, <1>23, <1>24, <1>25
  DEF Next, Start, Monitor, Close

\* Between two polls the limiter knows exactly the users the next list is
\* compared with, whatever has failed, for a node without a configured name.
THEOREM LimiterFollowsList == Spec => []LimiterHasList
<1>1. Init => TypeOK /\ Held /\ LimiterInv
  <2>1. Init => TypeOK /\ Held
    BY ControllerAssumption, ListsFacts
    DEF Init, Fresh, TypeOK, Held, StartSteps, ExecuteSteps, RestSteps, CloseSteps
  <2>2. Init => LimiterInv
    BY DEF Init, Fresh, LimiterInv
  <2> QED
    BY <2>1, <2>2
<1>2. TypeOK /\ Held /\ LimiterInv /\ [Next]_vars => TypeOK' /\ Held' /\ LimiterInv'
  BY TypeStep, HeldStep, LimiterStep
<1>3. LimiterInv => LimiterHasList
  BY DEF LimiterInv, LimiterHasList, AtRest
<1> QED
  BY <1>1, <1>2, <1>3, PTL DEF Spec
-----------------------------------------------------------------------------
\* A core whose calls all succeed: only requests to the panel may fail.
OnlyPanelFails == Faults \subseteq {"getNode", "getUsers"}

Polling == {"wait", "late", "getNode", "getUsers", "delUsers", "blocked"}

\* compareUserList: a user it returns as deleted is taken from those the core
\* has, and with the added ones the core has the new list.
Remaining == [u \in Users |-> IF u \in Deleted THEN NotListed ELSE userList[u]]

\* Between the core's calls: what the core has of the node and the users.
AgreeInv ==
    OnlyPanelFails /\ close = "open" =>
      /\ pc \in {"startAddUsers", "addUsers"} => core = [node |-> newN, users |-> NoUsers]
      /\ pc \in Polling => core = [node |-> info, users |-> userList]
      /\ pc \in Polling \cup {"delNode", "diffUsers", "updateUser"} => core.node # NoNode
      /\ pc = "diffUsers" => core.users = Remaining
      /\ pc = "updateUser" => core.users = newU

\* A core without users takes any list.
LEMMA AddsAll ==
    ASSUME NEW l \in Lists, core = [node |-> newN, users |-> NoUsers], newN \in NodeInfos
    PROVE  CanAdd(l) /\ With(l, Listed(l)) = l
<1>1. newN # NoNode
  BY ControllerAssumption
<1>2. core.node = newN /\ core.users = NoUsers
  OBVIOUS
<1>3. CanAdd(l)
  BY <1>1, <1>2 DEF CanAdd, Listed, NoUsers
<1>4. With(l, Listed(l)) = l
  BY <1>2 DEF With, Listed, NoUsers, Lists
<1> QED
  BY <1>3, <1>4

\* The deleted users are users of the core, and the others remain.
LEMMA DeletesAll ==
    ASSUME core.users = userList, core.node # NoNode, userList \in Lists
    PROVE  /\ CanDel(Deleted) /\ Without(Deleted) = Remaining
           /\ Deleted = {} => core.users = Remaining
<1>1. CanDel(Deleted)
  BY DEF CanDel, Deleted
<1>2. Without(Deleted) = Remaining
  BY DEF Without, Remaining
<1>3. Deleted = {} => Remaining = userList
  BY DEF Remaining, Lists
<1> QED
  BY <1>1, <1>2, <1>3

\* The added users are none of those that remain, and make up the new list.
LEMMA AddsDifference ==
    ASSUME core.users = Remaining, core.node # NoNode, userList \in Lists, newU \in Lists
    PROVE  /\ CanAdd(Added) /\ With(Added, Listed(Added)) = newU
           /\ Added = NoUsers => core.users = newU
<1>1. ASSUME NEW u \in Users
      PROVE  /\ Added[u] = IF newU[u] # userList[u] THEN newU[u] ELSE NotListed
             /\ Remaining[u] = IF newU[u] # userList[u] THEN NotListed ELSE userList[u]
  BY <1>1 DEF Added, Remaining, Deleted, Changed, Listed
<1>2. CanAdd(Added)
  BY <1>1 DEF CanAdd, Listed
<1>3. With(Added, Listed(Added)) = newU
  BY <1>1 DEF With, Listed, Lists
<1>4. Added = NoUsers => Remaining = newU
  <2> SUFFICES ASSUME Added = NoUsers PROVE Remaining = newU
    OBVIOUS
  <2>1. \A u \in Users : Added[u] = NotListed
    BY DEF NoUsers
  <2>2. \A u \in Users : Remaining[u] = newU[u]
    BY <1>1, <2>1
  <2>3. Remaining = [u \in Users |-> Remaining[u]]
    BY DEF Remaining
  <2>4. newU = [u \in Users |-> newU[u]]
    BY DEF Lists
  <2> QED
    BY <2>2, <2>3, <2>4
<1> QED
  BY <1>2, <1>3, <1>4

\* No call of the core fails.
LEMMA CoreAnswers ==
    ASSUME OnlyPanelFails
    PROVE  ~Failing("addUsers") /\ ~Failing("delUsers") /\ ~Failing("addNode") /\ ~Failing("cert")
  BY DEF OnlyPanelFails, Failing, MayFail

\* Each step hands the next one a core with the users that one expects.
LEMMA AgreeStep == TypeOK /\ Held /\ CoreInv /\ AgreeInv /\ [Next]_vars => AgreeInv'
<1> SUFFICES ASSUME TypeOK, Held, CoreInv, AgreeInv, [Next]_vars, OnlyPanelFails, close' = "open"
             PROVE  AgreeInv'
  BY DEF AgreeInv
<1> USE ControllerAssumption, CoreAnswers
    DEF AgreeInv, Polling, client, control, fetched, bounds, vars
<1>1. CASE Change
  BY <1>1 DEF Change, Remaining, Deleted, Changed
<1>2. CASE StartGetNode
  BY <1>2 DEF StartGetNode
<1>3. CASE StartGetUsers \/ StartGetUsersFails
  BY <1>3 DEF StartGetUsers, StartGetUsersFails
<1>4. CASE StartCert
  BY <1>4 DEF StartCert
<1>5. CASE StartAddNode
  BY <1>5 DEF StartAddNode
<1>6. CASE StartAddUsers
  <2>1. core = [node |-> newN, users |-> NoUsers] /\ newN \in NodeInfos /\ userList \in Lists
    BY <1>6 DEF StartAddUsers, Held, TypeOK
  <2>2. CanAdd(userList) /\ With(userList, Listed(userList)) = userList
    BY <2>1, AddsAll
  <2>3. AddUsersOk(userList) /\ info' = newN /\ pc' = "wait" /\ UNCHANGED userList
    BY <1>6, <2>2 DEF StartAddUsers, AddUsersFails
  <2>4. core' = [node |-> newN, users |-> userList]
    BY <2>1, <2>2, <2>3 DEF AddUsersOk
  <2> QED
    BY <2>1, <2>3, <2>4
<1>7. CASE Restart
  BY <1>7 DEF Restart
<1>8. CASE Fire \/ Execute
  BY <1>8 DEF Fire, Execute
<1>9. CASE GetNode
  BY <1>9 DEF GetNode, Rearmed
<1>10. CASE GetUsers
  BY <1>10 DEF GetUsers, Rearmed
<1>11. CASE GetUsersFails
  BY <1>11 DEF GetUsersFails, Rearmed
<1>12. CASE DelNode
  BY <1>12 DEF DelNode
<1>13. CASE UpdateLimiter \/ RequestCert
  BY <1>13 DEF UpdateLimiter, RequestCert
<1>14. CASE AddNode
  BY <1>14 DEF AddNode
<1>15. CASE AddUsers
  <2>1. core = [node |-> newN, users |-> NoUsers] /\ newN \in NodeInfos /\ userList \in Lists /\ info = newN
    BY <1>15 DEF AddUsers, Held, TypeOK, CoreInv, Replacing
  <2>2. CanAdd(userList) /\ With(userList, Listed(userList)) = userList
    BY <2>1, AddsAll
  <2>3. AddUsersOk(userList) /\ pc' \in {"blocked", "wait", "stopped"} /\ UNCHANGED <<info, userList>>
    BY <1>15, <2>2 DEF AddUsers, AddUsersFails, Rearmed
  <2>4. core' = [node |-> newN, users |-> userList]
    BY <2>1, <2>2, <2>3 DEF AddUsersOk
  <2> QED
    BY <2>1, <2>3, <2>4
<1>16. CASE DelUsers
  <2>1. core = [node |-> info, users |-> userList] /\ core.node # NoNode /\ userList \in Lists
    BY <1>16 DEF DelUsers, TypeOK
  <2>2. /\ CanDel(Deleted) /\ Without(Deleted) = Remaining
        /\ Deleted = {} => core.users = Remaining
    BY <2>1, DeletesAll
  <2>3. ~DelUsersFails(Deleted)
    BY <2>2 DEF DelUsersFails
  <2>4. pc' = "diffUsers" /\ UNCHANGED <<userList, newU>> /\ (DelUsersOk(Deleted) \/ (Deleted = {} /\ UNCHANGED core))
    BY <1>16, <2>3 DEF DelUsers
  <2>5. core'.node = core.node /\ core'.users = Remaining
    BY <2>1, <2>2, <2>4 DEF DelUsersOk
  <2>6. UNCHANGED Remaining
    BY <2>4 DEF Remaining, Deleted, Changed
  <2> QED
    BY <2>1, <2>4, <2>5, <2>6
<1>17. CASE DiffUsers
  <2>1. core.users = Remaining /\ core.node # NoNode /\ userList \in Lists /\ newU \in Lists
    BY <1>17 DEF DiffUsers, TypeOK, Held
  <2>2. /\ CanAdd(Added) /\ With(Added, Listed(Added)) = newU
        /\ Added = NoUsers => core.users = newU
    BY <2>1, AddsDifference
  <2>3. ~AddUsersFails(Added)
    BY <2>2 DEF AddUsersFails
  <2>4. pc' = "updateUser" /\ UNCHANGED newU /\ (AddUsersOk(Added) \/ (Added = NoUsers /\ UNCHANGED core))
    BY <1>17, <2>3 DEF DiffUsers
  <2>5. core'.node = core.node /\ core'.users = newU
    BY <2>1, <2>2, <2>4 DEF AddUsersOk, TypeOK
  <2> QED
    BY <2>1, <2>4, <2>5
<1>18. CASE UpdateUser
  <2>1. core.node \in {info, NoNode}
    BY <1>18 DEF UpdateUser, CoreInv, Replacing
  <2>2. core = [node |-> core.node, users |-> core.users]
    BY DEF TypeOK
  <2> QED
    BY <1>18, <2>1, <2>2 DEF UpdateUser, Rearmed
<1>19. CASE Close
  BY <1>19 DEF Close, CloseLimiter, CloseTasks, CloseNode
<1>20. CASE UNCHANGED vars
  BY <1>20 DEF Remaining, Deleted, Changed
<1> QED
  BY <1>1, <1>2, <1>3, <1>4, <1>5, <1>6, <1>7, <1>8, <1>9, <1>10, <1>11, <1>12, <1>13,
     <1>14, <1>15, <1>16, <1>17, <1>18, <1>19, <1>20
  DEF Next, Start, Monitor

\* Init is the same for every invariant.
LEMMA InitHolds == Init => TypeOK /\ Held /\ CoreInv /\ LimiterInv /\ AgreeInv
<1>1. Init => TypeOK /\ Held
  BY ControllerAssumption, ListsFacts
  DEF Init, Fresh, TypeOK, Held, StartSteps, ExecuteSteps, RestSteps, CloseSteps
<1>2. Init => CoreInv /\ LimiterInv /\ AgreeInv
  BY DEF Init, Fresh, CoreInv, UsersNeedNode, Replacing, LimiterInv, AgreeInv, Polling
<1> QED
  BY <1>1, <1>2

\* With a core whose calls succeed, it has between two polls the node and the
\* users of the controller, with a configured name for the node or without.
THEOREM CoreHasList ==
    ASSUME OnlyPanelFails
    PROVE  Spec => [](AtRest => core = [node |-> info, users |-> userList])
<1>1. Init => TypeOK /\ Held /\ CoreInv /\ AgreeInv
  BY InitHolds
<1>2. TypeOK /\ Held /\ CoreInv /\ AgreeInv /\ [Next]_vars
        => TypeOK' /\ Held' /\ CoreInv' /\ AgreeInv'
  BY TypeStep, HeldStep, CoreStep, AgreeStep
<1>3. AgreeInv => (AtRest => core = [node |-> info, users |-> userList])
  BY OnlyPanelFails DEF AgreeInv, AtRest, Polling
<1> QED
  BY <1>1, <1>2, <1>3, PTL DEF Spec

\* With a core whose calls succeed, the core, the limiter and the controller
\* agree on node and users between two polls, however requests to the panel
\* fail, whenever Close comes, and whatever the panel changes between the
\* requests of one poll.
THEOREM PartsAgree ==
    ASSUME OnlyPanelFails, ~Named
    PROVE  Spec => []Agreement
<1>1. Init => TypeOK /\ Held /\ CoreInv /\ LimiterInv /\ AgreeInv
  BY InitHolds
<1>2. TypeOK /\ Held /\ CoreInv /\ LimiterInv /\ AgreeInv /\ [Next]_vars
        => TypeOK' /\ Held' /\ CoreInv' /\ LimiterInv' /\ AgreeInv'
  BY TypeStep, HeldStep, CoreStep, LimiterStep, AgreeStep
<1>3. LimiterInv /\ AgreeInv => Agreement
  BY DEF LimiterInv, AgreeInv, Agreement, AtRest, Polling
<1> QED
  BY <1>1, <1>2, <1>3, PTL DEF Spec

-----------------------------------------------------------------------------
\* What the client has recorded of the node

\* Requests for the node and its users all succeed.
PanelAnswers == {"getNode", "getUsers"} \cap Faults = {}

\* The last body recorded is the node the controller holds, or the one this
\* poll has fetched, which is another.
SeenInv ==
    PanelAnswers =>
      /\ pc \in StartSteps \ {"startNode"} => seenNode = newN
      /\ pc \in (ExecuteSteps \ {"getUsers"}) \cup {"wait", "late", "blocked"} => seenNode = info
      /\ pc = "getUsers" => IF newN = Nothing THEN seenNode = info
                                              ELSE seenNode = newN /\ newN # info
      /\ pc = "delNode" => newN # core.node

\* A request to the panel does not fail.
LEMMA PanelIsThere ==
    ASSUME PanelAnswers
    PROVE  /\ ~Failing("getNode") /\ ~Failing("getUsers")
           /\ ~GetNodeFailsAgain /\ \A body : ~GetNodeFails(body)
  BY DEF PanelAnswers, Failing, MayFail, GetNodeFailsAgain, GetNodeFails

\* Only GetNodeInfo records a body, and only one that differs from the last.
LEMMA SeenStep == TypeOK /\ Held /\ CoreInv /\ SeenInv /\ [Next]_vars => SeenInv'
<1> SUFFICES ASSUME TypeOK, Held, CoreInv, SeenInv, [Next]_vars, PanelAnswers PROVE SeenInv'
  BY DEF SeenInv
<1> USE PanelIsThere DEF SeenInv, StartSteps, ExecuteSteps, client, control, fetched, bounds, vars
<1>1. CASE Change
  BY <1>1 DEF Change
<1>2. CASE StartGetNode
  BY <1>2 DEF StartGetNode, GetNodeFresh
<1>3. CASE StartGetUsers \/ StartGetUsersFails
  BY <1>3 DEF StartGetUsers, StartGetUsersFails
<1>4. CASE StartCert \/ StartAddNode \/ StartAddUsers
  BY <1>4 DEF StartCert, StartAddNode, StartAddUsers
<1>5. CASE Restart
  BY <1>5 DEF Restart
<1>6. CASE Fire \/ Execute
  BY <1>6 DEF Fire, Execute
<1>7. CASE GetNode
  BY <1>7, ListsFacts DEF GetNode, GetNodeFresh, GetNodeSame, NodeUnchanged, TypeOK
<1>8. CASE GetUsers
  <2>1. /\ pc' \in {"delNode", "delUsers", "wait", "stopped"} /\ UNCHANGED <<seenNode, core, newN>>
        /\ IF newN # Nothing THEN info' = newN /\ pc' = "delNode"
                             ELSE pc' # "delNode" /\ UNCHANGED info
    BY <1>8 DEF GetUsers, Rearmed
  <2>2. core.node \in {info, NoNode} /\ (newN # Nothing => newN # NoNode)
    BY <1>8, ControllerAssumption DEF GetUsers, CoreInv, Replacing, TypeOK
  <2> QED
    BY <1>8, <2>1, <2>2 DEF GetUsers
<1>9. CASE GetUsersFails
  BY <1>9 DEF GetUsersFails
<1>10. CASE DelNode
  BY <1>10 DEF DelNode
<1>11. CASE UpdateLimiter \/ RequestCert \/ AddNode
  BY <1>11 DEF UpdateLimiter, RequestCert, AddNode, Rearmed
<1>12. CASE AddUsers
  BY <1>12 DEF AddUsers, Rearmed
<1>13. CASE DelUsers \/ DiffUsers \/ UpdateUser
  BY <1>13 DEF DelUsers, DiffUsers, UpdateUser, Rearmed
<1>14. CASE Close
  BY <1>14, ControllerAssumption DEF Close, CloseLimiter, CloseTasks, CloseNode, Held
<1>15. CASE UNCHANGED vars
  BY <1>15
<1> QED
  BY <1>1, <1>2, <1>3, <1>4, <1>5, <1>6, <1>7, <1>8, <1>9, <1>10, <1>11, <1>12, <1>13,
     <1>14, <1>15
  DEF Next, Start, Monitor

\* While the panel's requests succeed, a node is torn down only for another
\* configuration than the core serves, whatever calls of the core or of the
\* certificate authority fail and whenever Close comes.
THEOREM NodesChangeOnNews ==
    ASSUME PanelAnswers
    PROVE  Spec => ReloadsOnChange
<1>1. Init => TypeOK /\ Held /\ CoreInv /\ SeenInv
  <2>1. Init => SeenInv
    BY DEF Init, Fresh, SeenInv, StartSteps, ExecuteSteps
  <2> QED
    BY <2>1, InitHolds
<1>2. TypeOK /\ Held /\ CoreInv /\ SeenInv /\ [Next]_vars
        => TypeOK' /\ Held' /\ CoreInv' /\ SeenInv'
  BY TypeStep, HeldStep, CoreStep, SeenStep
<1>3. SeenInv /\ [Next]_vars => [pc = "delNode" /\ pc' # pc => newN # core.node]_vars
  BY DEF SeenInv
<1> QED
  BY <1>1, <1>2, <1>3, PTL DEF Spec, ReloadsOnChange

-----------------------------------------------------------------------------
\* Panics.  A node that could not be put back after it was taken away makes the
\* next reload panic; nothing else does while Close stays away.
NodeIsPutBack == {"cert", "addNode"} \cap Faults = {} /\ ~MayClose

\* Outside of the steps that replace the node the core has it.
NodeInv ==
    NodeIsPutBack =>
      /\ NeverCrashes
      /\ pc \in (ExecuteSteps \ Gone) \cup {"startAddUsers", "wait", "late", "blocked"}
           => core.node # NoNode
      /\ close = "open"

\* The node is away between DelNode and AddNode only.
LEMMA NodeStep == TypeOK /\ Held /\ NodeInv /\ [Next]_vars => NodeInv'
<1> SUFFICES ASSUME TypeOK, Held, NodeInv, [Next]_vars, NodeIsPutBack PROVE NodeInv'
  BY DEF NodeInv
<1>0. ~Failing("cert") /\ ~Failing("addNode") /\ ~MayClose
  BY DEF NodeIsPutBack, Failing, MayFail
<1> USE <1>0 DEF NodeInv, NeverCrashes, Gone, ExecuteSteps, client, control, fetched, bounds, vars
<1>1. CASE Change
  BY <1>1 DEF Change
<1>2. CASE StartGetNode \/ StartGetUsers \/ StartGetUsersFails \/ StartCert
  BY <1>2 DEF StartGetNode, StartGetUsers, StartGetUsersFails, StartCert
<1>3. CASE StartAddNode
  BY <1>3, ControllerAssumption DEF StartAddNode, Held
<1>4. CASE StartAddUsers
  <2>1. core'.node = core.node
    BY <1>4, StartAddUsersStep
  <2> QED
    BY <1>4, <2>1 DEF StartAddUsers
<1>5. CASE Restart
  BY <1>5 DEF Restart
<1>6. CASE Fire \/ Execute
  BY <1>6 DEF Fire, Execute
<1>7. CASE GetNode \/ GetUsers \/ GetUsersFails
  BY <1>7 DEF GetNode, GetUsers, GetUsersFails, Rearmed
<1>8. CASE DelNode
  BY <1>8 DEF DelNode
<1>9. CASE UpdateLimiter \/ RequestCert
  BY <1>9 DEF UpdateLimiter, RequestCert
<1>10. CASE AddNode
  BY <1>10, ControllerAssumption DEF AddNode, Held
<1>11. CASE AddUsers \/ DelUsers \/ DiffUsers
  <2>1. core'.node = core.node
    BY <1>11, AddUsersActionStep, DelUsersActionStep, DiffUsersStep
  <2> QED
    BY <1>11, <2>1 DEF AddUsers, DelUsers, DiffUsers, Rearmed
<1>12. CASE UpdateUser
  BY <1>12 DEF UpdateUser, Rearmed
<1>13. CASE Close
  BY <1>13 DEF Close, CloseLimiter, CloseTasks, CloseNode
<1>14. CASE UNCHANGED vars
  BY <1>14
<1> QED
  BY <1>1, <1>2, <1>3, <1>4, <1>5, <1>6, <1>7, <1>8, <1>9, <1>10, <1>11, <1>12, <1>13, <1>14
  DEF Next, Start, Monitor

\* While certificates and AddNode do not fail and nobody closes the controller,
\* no poll ends in a panic, whatever requests and calls for users fail.
THEOREM PollsDoNotPanic ==
    ASSUME NodeIsPutBack
    PROVE  Spec => []NeverCrashes
<1>1. Init => TypeOK /\ Held /\ NodeInv
  <2>1. Init => NodeInv
    BY DEF Init, Fresh, NodeInv, NeverCrashes, ExecuteSteps, Gone
  <2> QED
    BY <2>1, InitHolds
<1>2. TypeOK /\ Held /\ NodeInv /\ [Next]_vars => TypeOK' /\ Held' /\ NodeInv'
  BY TypeStep, HeldStep, NodeStep
<1>3. NodeInv => NeverCrashes
  BY DEF NodeInv
<1> QED
  BY <1>1, <1>2, <1>3, PTL DEF Spec

-----------------------------------------------------------------------------
\* Mirror: the controller's list follows the panel's.

\* What the mirror is promised under: calls of the core and certificates do not
\* fail, nobody closes the controller, and an empty list, which a poll puts
\* aside, is not later answered by 304.
Undisturbed == OnlyPanelFails /\ ~MayClose /\ ~(MayEmpty /\ Etags)

\* Outside of the steps that take over a fetched list, none is left to be taken
\* over; a Start that has failed leaves nothing that the next one does not.
ListInv ==
    Undisturbed =>
      /\ pc \in {"startNode", "startUsers"} => newU = Nothing /\ userList = NoUsers
      /\ pc = "failed" => newU \in {Nothing, NoUsers} /\ userList = NoUsers
      /\ Etags /\ pc \notin {"delUsers", "diffUsers", "updateUser"} => newU \in {Nothing, userList}

\* Without Close and failures of the core every poll ends well.
LEMMA PollsEndWell ==
    ASSUME Undisturbed, TypeOK, Held, CoreInv, AgreeInv, NodeInv
    PROVE  /\ close = "open" /\ pc # "crashed"
           /\ (StartAddUsers => pc' # "failed")
           /\ StartCert \/ StartAddNode => pc' # "failed"
           /\ DelUsers => pc' = "diffUsers"
           /\ DiffUsers => pc' = "updateUser"
<1> USE DEF Undisturbed
<1>1. NodeIsPutBack
  BY DEF OnlyPanelFails, NodeIsPutBack
<1>2. close = "open" /\ pc # "crashed"
  BY <1>1 DEF NodeInv, NeverCrashes
<1>3. ~Failing("cert") /\ ~Failing("addNode") /\ ~Failing("addUsers") /\ ~Failing("delUsers")
  BY CoreAnswers
<1>4. ASSUME StartAddUsers PROVE pc' # "failed"
  <2>1. core = [node |-> newN, users |-> NoUsers] /\ newN \in NodeInfos /\ userList \in Lists
    BY <1>2, <1>4 DEF StartAddUsers, Held, TypeOK, AgreeInv
  <2>2. ~AddUsersFails(userList)
    BY <1>3, <2>1, AddsAll DEF AddUsersFails
  <2> QED
    BY <1>4, <2>2 DEF StartAddUsers
<1>5. StartCert \/ StartAddNode => pc' # "failed"
  BY <1>3 DEF StartCert, StartAddNode
<1>6. ASSUME DelUsers PROVE pc' = "diffUsers"
  <2>1. core.users = userList /\ core.node # NoNode /\ userList \in Lists
    BY <1>2, <1>6 DEF DelUsers, TypeOK, AgreeInv, Polling
  <2>2. ~DelUsersFails(Deleted)
    BY <1>3, <2>1, DeletesAll DEF DelUsersFails
  <2> QED
    BY <1>6, <2>2 DEF DelUsers
<1>7. ASSUME DiffUsers PROVE pc' = "updateUser"
  <2>1. core.users = Remaining /\ core.node # NoNode /\ userList \in Lists /\ newU \in Lists
    BY <1>2, <1>7 DEF DiffUsers, TypeOK, Held, AgreeInv
  <2>2. ~AddUsersFails(Added)
    BY <1>3, <2>1, AddsDifference DEF AddUsersFails
  <2> QED
    BY <1>7, <2>2 DEF DiffUsers
<1> QED
  BY <1>2, <1>4, <1>5, <1>6, <1>7

\* The panel that may list no users is one without ETags.
LEMMA PanelLists ==
    ASSUME Undisturbed, Etags, panel \in Panels
    PROVE  panel.users # NoUsers
  BY DEF Undisturbed, Panels

\* Every step leaves a fetched list pending, or takes it over.
LEMMA ListStep ==
    TypeOK /\ Held /\ CoreInv /\ AgreeInv /\ NodeInv /\ panel \in Panels /\ ListInv /\ [Next]_vars
      => ListInv'
<1> SUFFICES ASSUME TypeOK, Held, CoreInv, AgreeInv, NodeInv, panel \in Panels, ListInv, [Next]_vars,
                    Undisturbed
             PROVE  ListInv'
  BY DEF ListInv
<1> USE PollsEndWell DEF ListInv, client, control, fetched, bounds, vars
<1>1. CASE Change
  BY <1>1 DEF Change
<1>2. CASE StartGetNode
  BY <1>2 DEF StartGetNode
<1>3. CASE StartGetUsers
  BY <1>3, ListsFacts DEF StartGetUsers, GetUserList, ListUnchanged, Held
<1>4. CASE StartGetUsersFails
  BY <1>4 DEF StartGetUsersFails
<1>5. CASE StartCert \/ StartAddNode
  BY <1>5 DEF StartCert, StartAddNode
<1>6. CASE StartAddUsers
  BY <1>6 DEF StartAddUsers
<1>7. CASE Restart
  BY <1>7 DEF Restart
<1>8. CASE Fire \/ Execute
  BY <1>8 DEF Fire, Execute
<1>9. CASE GetNode
  BY <1>9 DEF GetNode, Rearmed
<1>10. CASE GetUsers
  BY <1>10, PanelLists DEF GetUsers, GetUserList, Rearmed
<1>11. CASE GetUsersFails
  BY <1>11 DEF GetUsersFails, Rearmed
<1>12. CASE DelNode
  BY <1>12 DEF DelNode
<1>13. CASE UpdateLimiter \/ RequestCert \/ AddNode \/ AddUsers
  BY <1>13 DEF UpdateLimiter, RequestCert, AddNode, AddUsers, Rearmed
<1>14. CASE DelUsers \/ DiffUsers
  BY <1>14 DEF DelUsers, DiffUsers
<1>15. CASE UpdateUser
  BY <1>15 DEF UpdateUser, Rearmed
<1>16. CASE Close
  BY <1>16 DEF Close, CloseLimiter, CloseTasks, CloseNode, Undisturbed
<1>17. CASE UNCHANGED vars
  BY <1>17
<1> QED
  BY <1>1, <1>2, <1>3, <1>4, <1>5, <1>6, <1>7, <1>8, <1>9, <1>10, <1>11, <1>12, <1>13,
     <1>14, <1>15, <1>16, <1>17
  DEF Next, Start, Monitor

\* The panel always shows one of its configurations.
LEMMA PanelStep == panel \in Panels /\ [Next]_vars => panel' \in Panels
  BY DEF Next, Change, Start, StartGetNode, StartGetUsers, StartGetUsersFails, StartCert,
         StartAddNode, StartAddUsers, Restart, Monitor, Fire, Execute, GetNode, GetUsers,
         GetUsersFails, DelNode, UpdateLimiter, RequestCert, AddNode, AddUsers, DelUsers,
         DiffUsers, UpdateUser, Close, CloseLimiter, CloseTasks, CloseNode, vars

\* The list fetched last and not yet taken over.
Pending == IF newU = Nothing THEN userList ELSE newU

\* A request for the list is a Fetch, at Start and with a changed node one that
\* is taken over at once; UpdateUser is an Apply; every other step but the
\* panel's changes is a stutter.
LEMMA MirrorStep ==
    TypeOK /\ Held /\ CoreInv /\ AgreeInv /\ NodeInv /\ panel \in Panels /\ ListInv /\ [Next]_vars
      => (Undisturbed => [Users_!Next]_(Users_!vars))
<1> SUFFICES ASSUME TypeOK, Held, CoreInv, AgreeInv, NodeInv, panel \in Panels, ListInv, [Next]_vars,
                    Undisturbed
             PROVE  [Users_!Next]_(Users_!vars)
  OBVIOUS
<1>a. ASSUME UNCHANGED <<panel, userList, newU>> PROVE [Users_!Next]_(Users_!vars)
  BY <1>a DEF Users_!vars
<1>b. ASSUME Pending' = panel.users, userList' \in {userList, panel.users}, UNCHANGED panel
      PROVE  [Users_!Next]_(Users_!vars)
  BY <1>b DEF Pending, Users_!Next, Users_!Fetch
<1> USE PollsEndWell DEF client, control, fetched, bounds, vars
<1>1. CASE Change
  <2>1. panel'.users \in Lists /\ UNCHANGED <<userList, newU>>
    BY <1>1, ListsFacts DEF Change
  <2> QED
    BY <2>1 DEF Users_!Next, Users_!Change
<1>2. CASE StartGetNode \/ StartGetUsersFails \/ StartCert \/ StartAddNode \/ StartAddUsers
  BY <1>2, <1>a DEF StartGetNode, StartGetUsersFails, StartCert, StartAddNode, StartAddUsers
<1>3. CASE StartGetUsers
  <2>1. newU' = panel.users /\ userList' = newU' /\ UNCHANGED panel
    BY <1>3, ListsFacts DEF StartGetUsers, GetUserList, ListUnchanged, Held, TypeOK
  <2>2. Pending' = panel.users
    BY <2>1 DEF Pending
  <2> QED
    BY <2>1, <2>2, <1>b
<1>4. CASE Restart
  <2>1. newU \in {Nothing, NoUsers} /\ userList = NoUsers
    BY <1>4 DEF Restart, ListInv
  <2>2. newU' = Nothing /\ userList' = NoUsers /\ UNCHANGED panel
    BY <1>4 DEF Restart
  <2> QED
    BY <2>1, <2>2, ListsFacts DEF Users_!vars
<1>5. CASE Fire \/ Execute \/ GetNode \/ GetUsersFails
  BY <1>5, <1>a DEF Fire, Execute, GetNode, GetUsersFails
<1>6. CASE GetUsers
  <2>1. UNCHANGED panel /\ panel.users # Nothing
    BY <1>6, ListsFacts DEF GetUsers, TypeOK
  <2>2. CASE ListUnchanged
    <3>1. newU' = Nothing /\ UNCHANGED userList
      BY <1>6, <2>2 DEF GetUsers, GetUserList
    <3>2. newU \in {Nothing, userList}
      BY <1>6, <2>2 DEF GetUsers, ListUnchanged, ListInv
    <3> QED
      BY <2>1, <3>1, <3>2 DEF Users_!vars
  <2>3. CASE ~ListUnchanged
    <3>1. newU' = panel.users /\ userList' \in {userList, panel.users}
      BY <1>6, <2>1, <2>3 DEF GetUsers, GetUserList
    <3>2. Pending' = panel.users
      BY <2>1, <3>1 DEF Pending
    <3> QED
      BY <2>1, <3>1, <3>2, <1>b
  <2> QED
    BY <2>2, <2>3
<1>7. CASE DelNode \/ UpdateLimiter \/ RequestCert \/ AddNode \/ AddUsers
  BY <1>7, <1>a DEF DelNode, UpdateLimiter, RequestCert, AddNode, AddUsers
<1>8. CASE DelUsers \/ DiffUsers
  BY <1>8, <1>a DEF DelUsers, DiffUsers
<1>9. CASE UpdateUser
  <2>1. userList' = newU /\ newU # Nothing /\ UNCHANGED <<panel, newU>>
    BY <1>9, ListsFacts DEF UpdateUser, Held
  <2> QED
    BY <2>1 DEF Users_!Next, Users_!Apply
<1>10. CASE Close
  BY <1>10, <1>a DEF Close, CloseLimiter, CloseTasks, CloseNode
<1>11. CASE UNCHANGED vars
  BY <1>11, <1>a
<1> QED
  BY <1>1, <1>2, <1>3, <1>4, <1>5, <1>6, <1>7, <1>8, <1>9, <1>10, <1>11 DEF Next, Start, Monitor

\* The controller implements Mirror, fairness apart: its list is always one the
\* panel had when it was last asked, or the one before it, through failing
\* requests, starts that fail for them and reloads of the node.
THEOREM ControllerMirrors ==
    ASSUME Undisturbed
    PROVE  Spec => Users_!Init /\ [][Users_!Next]_(Users_!vars)
<1>1. Init => TypeOK /\ Held /\ CoreInv /\ AgreeInv /\ NodeInv /\ panel \in Panels /\ ListInv
  <2>1. Init => NodeInv /\ panel \in Panels /\ ListInv
    BY DEF Init, Fresh, NodeInv, NeverCrashes, ExecuteSteps, Gone, ListInv
  <2> QED
    BY <2>1, InitHolds
<1>2. Init => Users_!Init
  BY ListsFacts DEF Init, Fresh, Users_!Init
<1>3. TypeOK /\ Held /\ CoreInv /\ AgreeInv /\ NodeInv /\ panel \in Panels /\ ListInv /\ [Next]_vars
        => TypeOK' /\ Held' /\ CoreInv' /\ AgreeInv' /\ NodeInv' /\ (panel \in Panels)' /\ ListInv'
  BY TypeStep, HeldStep, CoreStep, AgreeStep, NodeStep, PanelStep, ListStep
<1>4. TypeOK /\ Held /\ CoreInv /\ AgreeInv /\ NodeInv /\ panel \in Panels /\ ListInv /\ [Next]_vars
        => [Users_!Next]_(Users_!vars)
  BY MirrorStep
<1> QED
  BY <1>1, <1>2, <1>3, <1>4, PTL DEF Spec
=============================================================================
