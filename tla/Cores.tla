-------------------------------- MODULE Cores --------------------------------
(***************************************************************************)
(* core/selector.go and the control side of the three cores: which core a  *)
(* node is given to, what AddNode, DelNode, AddUsers and DelUsers leave in *)
(* it when a part of them fails, and how naive (whose users belong to the  *)
(* inbound's options) and hysteria2 (with one table of users for all its   *)
(* nodes) differ from the rest.  The controllers call in the order         *)
(* Controller has in detail.                                               *)
(***************************************************************************)
EXTENDS FiniteSets

CONSTANTS
    Tags,        \* nodes
    UsersOf,     \* the users the panel may list for each node
    CoreNames,   \* the cores of a Selector
    CoreType,    \* the type of each: "xray", "sing" or "hysteria2"
    Kinds,       \* what each node may be: "vless", "naive", "hysteria2", ...
    Options,     \* the node's options: [name, core], None for an empty string
    None

ASSUME CoresAssumption ==
    /\ CoreType \in [CoreNames -> {"xray", "sing", "hysteria2"}]
    /\ None \notin CoreNames \cup {"xray", "sing", "hysteria2"}
    /\ \A us \in SUBSET UNION {UsersOf[t] : t \in Tags} : us # None

VARIABLES
    option,      \* conf.Options of each node
    nodes,       \* Selector.nodes: the core of each tag, or None
    served,      \* the users of each tag's inbound in each xray or sing core, or None
    outbound,    \* the tags with an outbound in each xray core
    naive,       \* Sing.naiveState: the users of each tag, or None
    hy2nodes,    \* Hysteria2.Hy2nodes of each core
    usersMap,    \* V2bX.usersMap of each core
    kind,        \* the type the controller last added the node with
    userList,    \* the users the controller believes to be in the core
    stage,       \* where the controller is
    failed       \* whether a call has failed since the node was last set up

vars == <<option, nodes, served, outbound, naive, hy2nodes, usersMap, kind, userList, stage, failed>>
coreState == <<served, outbound, naive, hy2nodes, usersMap>>

Users == UNION {UsersOf[t] : t \in Tags}

Protocols(type) ==
    CASE type = "xray"      -> {"vmess", "vless", "shadowsocks", "trojan"}
      [] type = "sing"      -> {"vmess", "vless", "shadowsocks", "trojan", "tuic", "anytls",
                                "hysteria", "hysteria2", "naive"}
      [] type = "hysteria2" -> {"hysteria2"}

Init ==
    /\ option \in [Tags -> Options]
    /\ nodes = [t \in Tags |-> None]
    /\ served = [c \in CoreNames |-> [t \in Tags |-> None]]
    /\ outbound = [c \in CoreNames |-> {}]
    /\ naive = [c \in CoreNames |-> [t \in Tags |-> None]]
    /\ hy2nodes = [c \in CoreNames |-> {}]
    /\ usersMap = [c \in CoreNames |-> {}]
    /\ kind \in [Tags -> Kinds]
    /\ userList = [t \in Tags |-> {}]
    /\ stage = [t \in Tags |-> "off"]
    /\ failed = [t \in Tags |-> FALSE]

-----------------------------------------------------------------------------
\* AddNode

\* By name, or else any core that is of the type wanted; with no type given
\* any that supports the protocol.  The code takes the one a map yields last.
Selectable(t, k) ==
    LET o == option[t]
    IN IF o.name # None THEN CoreNames \cap {o.name}
       ELSE {c \in CoreNames : IF o.core = None THEN k \in Protocols(CoreType[c])
                                                 ELSE o.core = CoreType[c]}

\* The choice is written into the node's options, which decide the next one.
Settle(t, c) ==
    option' = IF option[t].core = None THEN [option EXCEPT ![t].core = CoreType[c]] ELSE option

SetServed(c, t, us) == served' = [served EXCEPT ![c][t] = us]
SetNaive(c, t, us)  == naive' = [naive EXCEPT ![c][t] = us]

\* xray: the inbound comes first, and stays when the outbound cannot be added.
XrayAddNode(c, t, ok) ==
    /\ CoreType[c] = "xray"
    /\ \/ SetServed(c, t, {}) /\ IF ok THEN outbound' = [outbound EXCEPT ![c] = @ \cup {t}]
                                        ELSE UNCHANGED outbound
       \/ ~ok /\ UNCHANGED <<served, outbound>>
    /\ UNCHANGED <<naive, hy2nodes, usersMap>>

\* sing: a naive node is only noted, its inbound comes with its users.
SingAddNode(c, t, k, ok) ==
    /\ CoreType[c] = "sing"
    /\ IF k = "naive" THEN ok /\ SetNaive(c, t, {}) /\ UNCHANGED served
       ELSE /\ IF ok THEN SetServed(c, t, {}) ELSE UNCHANGED served
            /\ UNCHANGED naive
    /\ UNCHANGED <<outbound, hy2nodes, usersMap>>

Hy2AddNode(c, t, ok) ==
    /\ CoreType[c] = "hysteria2"
    /\ hy2nodes' = IF ok THEN [hy2nodes EXCEPT ![c] = @ \cup {t}] ELSE hy2nodes
    /\ UNCHANGED <<served, outbound, naive, usersMap>>

CoreAddNode(c, t, k, ok) ==
    /\ ok => k \in Protocols(CoreType[c])
    /\ XrayAddNode(c, t, ok) \/ SingAddNode(c, t, k, ok) \/ Hy2AddNode(c, t, ok)

\* A node that cannot be added stops the controller for good: Start returns an
\* error, and the monitor panics.
AddNode(t, k, ok) ==
    /\ stage[t] = "off"
    /\ kind' = [kind EXCEPT ![t] = k]
    /\ IF Selectable(t, k) = {}
         THEN ~ok /\ UNCHANGED <<option, nodes, coreState>>
         ELSE \E c \in Selectable(t, k) : Settle(t, c) /\ CoreAddNode(c, t, k, ok)
                                        /\ nodes' = IF ok THEN [nodes EXCEPT ![t] = c] ELSE nodes
    /\ stage' = [stage EXCEPT ![t] = IF ok THEN "node" ELSE "stopped"]
    /\ failed' = [failed EXCEPT ![t] = FALSE]
    /\ UNCHANGED userList

-----------------------------------------------------------------------------
\* DelNode

\* An inbound whose outbound cannot be removed is gone all the same.
XrayDelNode(c, t, ok) ==
    /\ CoreType[c] = "xray"
    /\ \/ SetServed(c, t, None) /\ outbound' = IF ok THEN [outbound EXCEPT ![c] = @ \ {t}] ELSE outbound
       \/ ~ok /\ UNCHANGED <<served, outbound>>
    /\ UNCHANGED <<naive, hy2nodes>>

\* Fault: a naive node is only struck off.
SingDelNode_Notes(c, t, ok) ==
    /\ CoreType[c] = "sing"
    /\ SetNaive(c, t, None)
    /\ IF naive[c][t] # None THEN ok /\ UNCHANGED served
       ELSE IF ok THEN SetServed(c, t, None) ELSE UNCHANGED served
    /\ UNCHANGED <<outbound, hy2nodes>>

\* A naive node is struck off before its inbound, if it has one, is removed.
SingDelNode(c, t, ok) ==
    /\ CoreType[c] = "sing"
    /\ SetNaive(c, t, None)
    /\ IF naive[c][t] # None /\ served[c][t] = None THEN ok /\ UNCHANGED served
       ELSE IF ok THEN SetServed(c, t, None) ELSE UNCHANGED served
    /\ UNCHANGED <<outbound, hy2nodes>>

\* The users stay in the table.
Hy2DelNode(c, t, ok) ==
    /\ CoreType[c] = "hysteria2"
    /\ hy2nodes' = IF ok THEN [hy2nodes EXCEPT ![c] = @ \ {t}] ELSE hy2nodes
    /\ UNCHANGED <<served, outbound, naive>>

\* The first half of a reload, or Close.  An error is a panic of the monitor.
DelNode(t, ok) ==
    /\ stage[t] = "up"
    /\ \/ XrayDelNode(nodes[t], t, ok) \/ SingDelNode(nodes[t], t, ok) \/ Hy2DelNode(nodes[t], t, ok)
    /\ nodes' = IF ok THEN [nodes EXCEPT ![t] = None] ELSE nodes
    /\ stage' = [stage EXCEPT ![t] = IF ok THEN "off" ELSE "stopped"]
    /\ UNCHANGED <<option, usersMap, kind, userList, failed>>

-----------------------------------------------------------------------------
\* AddUsers and DelUsers

\* applyNaiveInboundLocked: the inbound is made anew from all users, and is
\* removed when there are none.  It keeps the old ones when its options cannot
\* be built, and is gone when it cannot be created.
ApplyNaive(c, t, us, ok) ==
    /\ SetNaive(c, t, us)
    /\ \/ ok /\ SetServed(c, t, IF us = {} THEN None ELSE us)
       \/ ~ok /\ us # {} /\ SetServed(c, t, None)
       \/ ~ok /\ UNCHANGED served

\* xray takes one user after the other, refuses one it has and stops there.
XrayAddUsers(c, t, us, ok) ==
    IF ok THEN us \cap served[c][t] = {} /\ SetServed(c, t, served[c][t] \cup us)
    ELSE \E part \in SUBSET us : part # us /\ SetServed(c, t, served[c][t] \cup part)

\* Fault: the table of hysteria2 is replaced by the list of one node.
Hy2AddUsers_Replaces(c, us) == usersMap' = [usersMap EXCEPT ![c] = us]

Hy2AddUsers(c, us) == usersMap' = [usersMap EXCEPT ![c] = @ \cup us]

\* sing adds the users to those of the inbound.
SingAddUsers(c, t, us, ok) ==
    IF ok THEN SetServed(c, t, served[c][t] \cup us) ELSE UNCHANGED served

CoreAddUsers(c, t, us, ok) ==
    /\ \/ CoreType[c] = "xray" /\ XrayAddUsers(c, t, us, ok) /\ UNCHANGED <<naive, usersMap>>
       \/ CoreType[c] = "sing" /\ kind[t] # "naive" /\ SingAddUsers(c, t, us, ok) /\ UNCHANGED <<naive, usersMap>>
       \/ CoreType[c] = "sing" /\ kind[t] = "naive" /\ ApplyNaive(c, t, naive[c][t] \cup us, ok) /\ UNCHANGED usersMap
       \/ CoreType[c] = "hysteria2" /\ ok /\ Hy2AddUsers(c, us) /\ UNCHANGED <<served, naive>>
    /\ UNCHANGED <<outbound, hy2nodes>>

\* Fault: deleted users stay in what the next naive inbound is made from.
NaiveLeft_All(c, t, us) == naive[c][t]

NaiveLeft(c, t, us) == naive[c][t] \ us

\* xray refuses to remove a user it does not have and stops there.
XrayDelUsers(c, t, us, ok) ==
    IF ok THEN us \subseteq served[c][t] /\ SetServed(c, t, served[c][t] \ us)
    ELSE \E part \in SUBSET us : part # us /\ SetServed(c, t, served[c][t] \ part)

SingDelUsers(c, t, us, ok) ==
    IF ok THEN SetServed(c, t, served[c][t] \ us) ELSE UNCHANGED served

Hy2DelUsers(c, us) == usersMap' = [usersMap EXCEPT ![c] = @ \ us]

CoreDelUsers(c, t, us, ok) ==
    /\ \/ CoreType[c] = "xray" /\ XrayDelUsers(c, t, us, ok) /\ UNCHANGED <<naive, usersMap>>
       \/ CoreType[c] = "sing" /\ kind[t] # "naive" /\ SingDelUsers(c, t, us, ok) /\ UNCHANGED <<naive, usersMap>>
       \/ CoreType[c] = "sing" /\ kind[t] = "naive" /\ ApplyNaive(c, t, NaiveLeft(c, t, us), ok) /\ UNCHANGED usersMap
       \/ CoreType[c] = "hysteria2" /\ ok /\ Hy2DelUsers(c, us) /\ UNCHANGED <<served, naive>>
    /\ UNCHANGED <<outbound, hy2nodes>>

\* The users of a node that was just added: all of the list.
SetUp(t, list, ok) ==
    /\ stage[t] = "node" /\ list # {}
    /\ CoreAddUsers(nodes[t], t, list, ok)
    /\ userList' = [userList EXCEPT ![t] = list]
    /\ stage' = [stage EXCEPT ![t] = "up"]
    /\ failed' = [failed EXCEPT ![t] = ~ok]
    /\ UNCHANGED <<option, nodes, kind>>

\* The list has changed: the users that are gone, then the new ones.
DelUsers(t, list, ok) ==
    LET gone == userList[t] \ list
    IN /\ stage[t] = "up" /\ list # {} /\ gone # {}
       /\ CoreDelUsers(nodes[t], t, gone, ok)
       /\ userList' = IF ok THEN [userList EXCEPT ![t] = list \cap @] ELSE userList
       /\ failed' = [failed EXCEPT ![t] = @ \/ ~ok]
       /\ UNCHANGED <<option, nodes, kind, stage>>

AddUsers(t, list, ok) ==
    LET new == list \ userList[t]
    IN /\ stage[t] = "up" /\ userList[t] \subseteq list /\ new # {}
       /\ CoreAddUsers(nodes[t], t, new, ok)
       /\ userList' = IF ok THEN [userList EXCEPT ![t] = list] ELSE userList
       /\ failed' = [failed EXCEPT ![t] = @ \/ ~ok]
       /\ UNCHANGED <<option, nodes, kind, stage>>

-----------------------------------------------------------------------------
Next ==
    \E t \in Tags, ok \in BOOLEAN :
         \/ \E k \in Kinds : AddNode(t, k, ok)
         \/ DelNode(t, ok)
         \/ \E list \in SUBSET UsersOf[t] : SetUp(t, list, ok) \/ DelUsers(t, list, ok) \/ AddUsers(t, list, ok)

Spec == Init /\ [][Next]_vars

-----------------------------------------------------------------------------
\* Properties

\* A core has nothing of a node but what the selector sends its calls to: the
\* inbound, the outbound, the naive state or the server of a tag is in the
\* core stored for the tag, and in no other, through every reload that gives
\* the node to another core.  A stopped controller may leave an inbound behind.
OneHome ==
    \A t \in Tags, c \in CoreNames :
      stage[t] # "stopped" =>
        /\ nodes[t] # c => /\ served[c][t] = None /\ naive[c][t] = None
                           /\ t \notin outbound[c] /\ t \notin hy2nodes[c]
        /\ nodes[t] = c => CASE CoreType[c] = "xray" -> served[c][t] # None /\ t \in outbound[c]
                             [] CoreType[c] = "sing" -> served[c][t] # None \/ naive[c][t] # None
                             [] OTHER                -> t \in hy2nodes[c]

\* Until a call fails, an inbound of xray or sing serves the users the
\* controller believes it to, and no deleted one, whatever was added, deleted
\* and reloaded before; a naive one follows although it is made anew each time.
ServesList ==
    \A t \in Tags :
      stage[t] = "up" /\ ~failed[t] /\ CoreType[nodes[t]] # "hysteria2" =>
        served[nodes[t]][t] = (IF kind[t] = "naive" /\ userList[t] = {} THEN None ELSE userList[t])

\* A user listed for a hysteria2 node can log in, whatever happens to the
\* other nodes, as long as no user is listed for two.  (The converse does not
\* hold: DelNode leaves the users in the table.)
ListedCanLogIn ==
    \A t \in Tags :
      stage[t] = "up" /\ CoreType[nodes[t]] = "hysteria2" => userList[t] \subseteq usersMap[nodes[t]]
=============================================================================
