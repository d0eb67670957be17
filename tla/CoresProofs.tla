----------------------------- MODULE CoresProofs -----------------------------
(***************************************************************************)
(* Proofs about Cores, for any nodes, users, cores and options: a node is  *)
(* in one core, which until a call fails serves it the controller's list.  *)
(***************************************************************************)
EXTENDS Cores, TLAPS

Lists == (SUBSET Users) \cup {None}
Live  == {t \in Tags : stage[t] \in {"node", "up"}}

TypeOK ==
    /\ nodes \in [Tags -> CoreNames \cup {None}]
    /\ served \in [CoreNames -> [Tags -> Lists]]
    /\ outbound \in [CoreNames -> SUBSET Tags]
    /\ naive \in [CoreNames -> [Tags -> Lists]]
    /\ hy2nodes \in [CoreNames -> SUBSET Tags]
    /\ usersMap \in [CoreNames -> SUBSET Users]
    /\ kind \in [Tags -> Kinds]
    /\ userList \in [Tags -> SUBSET Users]
    /\ stage \in [Tags -> {"off", "node", "up", "stopped"}]
    /\ failed \in [Tags -> BOOLEAN]

\* Each type of core uses its own tables only.
TablesInv ==
    \A c \in CoreNames, t \in Tags :
      /\ CoreType[c] # "sing" => naive[c][t] = None
      /\ CoreType[c] = "hysteria2" => served[c][t] = None
      /\ CoreType[c] # "xray" => t \notin outbound[c]
      /\ CoreType[c] # "hysteria2" => t \notin hy2nodes[c]

\* A controller that is set up has a core, which supports what its node is.
StageInv ==
    \A t \in Tags :
      /\ stage[t] = "off" => nodes[t] = None
      /\ t \in Live => nodes[t] \in CoreNames /\ kind[t] \in Protocols(CoreType[nodes[t]])
      /\ userList[t] \subseteq UsersOf[t]

\* sing keeps the users of a naive node apart from its inbound, and only those.
NaiveInv ==
    \A t \in Live :
      CoreType[nodes[t]] = "sing" =>
        IF kind[t] = "naive" THEN naive[nodes[t]][t] # None
        ELSE naive[nodes[t]][t] = None /\ served[nodes[t]][t] # None

\* A node that was just added has no users; later, and while no call has
\* failed, it has those of the list.
UsersInv ==
    \A t \in Tags :
      LET c == nodes[t]
      IN /\ stage[t] = "node" =>
              CASE CoreType[c] = "hysteria2" -> TRUE
                [] CoreType[c] = "sing" /\ kind[t] = "naive" -> naive[c][t] = {} /\ served[c][t] = None
                [] OTHER -> served[c][t] = {}
         /\ stage[t] = "up" /\ ~failed[t] /\ CoreType[c] = "sing" /\ kind[t] = "naive" =>
              naive[c][t] = userList[t]

IInv == TypeOK /\ TablesInv /\ StageInv /\ NaiveInv /\ OneHome /\ UsersInv /\ ServesList

USE CoresAssumption

LEMMA InitInv == Init => IInv
<1> SUFFICES ASSUME Init PROVE IInv
  OBVIOUS
<1> USE DEF Init
<1>1. TypeOK
  BY DEF TypeOK, Lists
<1>2. TablesInv /\ StageInv /\ NaiveInv
  BY DEF TablesInv, StageInv, NaiveInv, Live
<1>3. OneHome /\ UsersInv /\ ServesList
  BY DEF OneHome, UsersInv, ServesList
<1> QED
  BY <1>1, <1>2, <1>3 DEF IInv

-----------------------------------------------------------------------------
\* What a call for the users of a node does

\* What the tables hold of a node that has been added.
LEMMA HasHome ==
    ASSUME IInv, NEW t \in Live
    PROVE  LET c == nodes[t]
           IN /\ c \in CoreNames /\ t \in Tags
              /\ CoreType[c] = "xray" => served[c][t] \in SUBSET Users /\ kind[t] # "naive"
              /\ CoreType[c] = "sing" /\ kind[t] # "naive" => served[c][t] \in SUBSET Users
              /\ CoreType[c] = "sing" /\ kind[t] = "naive" => naive[c][t] \in SUBSET Users
<1> DEFINE c == nodes[t]
<1>1. c \in CoreNames /\ t \in Tags /\ kind[t] \in Protocols(CoreType[c])
  BY DEF IInv, StageInv, Live
<1>2. served[c][t] \in Lists /\ naive[c][t] \in Lists
  BY <1>1 DEF IInv, TypeOK
<1>3. CoreType[c] = "xray" => served[c][t] # None /\ kind[t] # "naive"
  BY <1>1 DEF IInv, OneHome, Live, Protocols
<1>4. CoreType[c] = "sing" => IF kind[t] = "naive" THEN naive[c][t] # None ELSE served[c][t] # None
  BY DEF IInv, NaiveInv
<1> QED
  BY <1>1, <1>2, <1>3, <1>4 DEF Lists

\* Only the node's own entries are touched, none of another core, and an
\* inbound that users are added to or deleted from in place stays.
UsersFrame(c, t) ==
    /\ served' \in [CoreNames -> [Tags -> Lists]]
    /\ naive' \in [CoreNames -> [Tags -> Lists]]
    /\ usersMap' \in [CoreNames -> SUBSET Users]
    /\ \A d \in CoreNames, s \in Tags : d # c \/ s # t =>
         served'[d][s] = served[d][s] /\ naive'[d][s] = naive[d][s]
    /\ CoreType[c] = "xray" => served'[c][t] # None
    /\ CoreType[c] # "sing" => naive'[c][t] = None
    /\ CoreType[c] = "hysteria2" => served'[c][t] = None
    /\ CoreType[c] = "sing" => IF kind[t] = "naive" THEN naive'[c][t] # None
                               ELSE naive'[c][t] = None /\ served'[c][t] # None
    /\ UNCHANGED <<outbound, hy2nodes>>

LEMMA UsersStep ==
    ASSUME IInv, NEW t \in Live, NEW us \in SUBSET UsersOf[t], NEW ok,
           CoreAddUsers(nodes[t], t, us, ok) \/ CoreDelUsers(nodes[t], t, us, ok)
    PROVE  UsersFrame(nodes[t], t)
<1> DEFINE c == nodes[t]
<1>1. /\ c \in CoreNames /\ t \in Tags
      /\ CoreType[c] = "xray" => served[c][t] \in SUBSET Users /\ kind[t] # "naive"
      /\ CoreType[c] = "sing" /\ kind[t] # "naive" => served[c][t] \in SUBSET Users
      /\ CoreType[c] = "sing" /\ kind[t] = "naive" => naive[c][t] \in SUBSET Users
  BY HasHome
<1>2. us \subseteq Users
  BY <1>1 DEF Users
<1>3. None \notin SUBSET Users
  BY DEF Users
<1>4. /\ served \in [CoreNames -> [Tags -> Lists]] /\ naive \in [CoreNames -> [Tags -> Lists]]
      /\ usersMap \in [CoreNames -> SUBSET Users]
  BY DEF IInv, TypeOK
<1>5. /\ CoreType[c] # "sing" => naive[c][t] = None
      /\ CoreType[c] = "hysteria2" => served[c][t] = None
      /\ CoreType[c] = "sing" /\ kind[t] # "naive" => naive[c][t] = None
  BY <1>1 DEF IInv, TablesInv, NaiveInv
<1>6. UNCHANGED <<outbound, hy2nodes>>
  BY DEF CoreAddUsers, CoreDelUsers
<1> HIDE DEF c
<1>7. CASE CoreType[c] \in {"xray", "sing"} /\ kind[t] # "naive"
  <2>1. PICK list \in SUBSET Users : SetServed(c, t, list)
    <3>1. CASE CoreType[c] = "xray"
      BY <1>1, <1>2, <1>7, <3>1
         DEF c, CoreAddUsers, CoreDelUsers, XrayAddUsers, XrayDelUsers
    <3>2. CASE CoreType[c] = "sing"
      <4>1. CASE ok
        BY <1>1, <1>2, <1>7, <3>2, <4>1
           DEF c, CoreAddUsers, CoreDelUsers, SingAddUsers, SingDelUsers
      <4>2. CASE ~ok
        <5>1. UNCHANGED served
          BY <1>1, <1>2, <1>7, <3>2, <4>2
             DEF c, CoreAddUsers, CoreDelUsers, SingAddUsers, SingDelUsers
        <5>2. SetServed(c, t, served[c][t])
          BY <1>1, <1>4, <5>1 DEF SetServed
        <5> QED
          BY <1>1, <1>7, <3>2, <5>2
      <4> QED
        BY <4>1, <4>2
    <3> QED
      BY <1>7, <3>1, <3>2
  <2>2. UNCHANGED <<naive, usersMap>>
    BY <1>1, <1>7 DEF c, CoreAddUsers, CoreDelUsers
  <2> QED
    BY <1>1, <1>3, <1>4, <1>5, <1>6, <1>7, <2>1, <2>2 DEF UsersFrame, SetServed, Lists, c
<1>8. CASE CoreType[c] = "sing" /\ kind[t] = "naive"
  <2>1. PICK all \in SUBSET Users : ApplyNaive(c, t, all, ok)
    BY <1>1, <1>2, <1>8 DEF c, CoreAddUsers, CoreDelUsers, NaiveLeft
  <2>2. PICK list \in Lists : SetServed(c, t, list)
    <3>1. CASE UNCHANGED served
      <4>1. SetServed(c, t, served[c][t])
        BY <1>1, <1>4, <3>1 DEF SetServed
      <4> QED
        BY <1>1, <1>4, <4>1
    <3>2. CASE ~UNCHANGED served
      BY <2>1, <3>2 DEF ApplyNaive, Lists
    <3> QED
      BY <3>1, <3>2
  <2>3. UNCHANGED usersMap
    BY <1>1, <1>8 DEF c, CoreAddUsers, CoreDelUsers
  <2> QED
    BY <1>1, <1>3, <1>4, <1>6, <1>8, <2>1, <2>2, <2>3
       DEF UsersFrame, ApplyNaive, SetServed, SetNaive, Lists, c
<1>9. CASE CoreType[c] = "hysteria2"
  <2>1. UNCHANGED <<served, naive>>
    BY <1>1, <1>9 DEF c, CoreAddUsers, CoreDelUsers
  <2>2. usersMap' \in [CoreNames -> SUBSET Users]
    BY <1>1, <1>2, <1>4, <1>9 DEF c, CoreAddUsers, CoreDelUsers, Hy2AddUsers, Hy2DelUsers
  <2> QED
    BY <1>1, <1>4, <1>5, <1>6, <1>9, <2>1, <2>2 DEF UsersFrame, c
<1> QED
  BY <1>1, <1>7, <1>8, <1>9

IsNaive(c, t) == CoreType[c] = "sing" /\ kind[t] = "naive"

\* What a call that succeeds leaves the node with.
LEMMA AddEffect ==
    ASSUME IInv, NEW t \in Live, NEW us, CoreAddUsers(nodes[t], t, us, TRUE)
    PROVE  LET c == nodes[t]
           IN /\ CoreType[c] = "hysteria2" => usersMap' = [usersMap EXCEPT ![c] = @ \cup us]
              /\ CoreType[c] # "hysteria2" => UNCHANGED usersMap
              /\ IsNaive(c, t) => /\ naive'[c][t] = naive[c][t] \cup us
                                  /\ served'[c][t] = IF naive'[c][t] = {} THEN None ELSE naive'[c][t]
              /\ CoreType[c] # "hysteria2" /\ ~IsNaive(c, t) => served'[c][t] = served[c][t] \cup us
<1> DEFINE c == nodes[t]
<1>1. c \in CoreNames /\ t \in Tags /\ (CoreType[c] = "xray" => kind[t] # "naive")
  BY HasHome
<1>2. served \in [CoreNames -> [Tags -> Lists]] /\ naive \in [CoreNames -> [Tags -> Lists]]
  BY DEF IInv, TypeOK
<1> HIDE DEF c
<1>3. CASE CoreType[c] = "hysteria2"
  BY <1>1, <1>3 DEF c, IsNaive, CoreAddUsers, Hy2AddUsers
<1>4. CASE CoreType[c] = "sing" /\ kind[t] = "naive"
  <2>1. ApplyNaive(c, t, naive[c][t] \cup us, TRUE) /\ UNCHANGED usersMap
    BY <1>1, <1>4 DEF c, CoreAddUsers
  <2> DEFINE all == naive[c][t] \cup us
  <2>2. naive'[c][t] = all
    BY <1>1, <1>2, <2>1 DEF ApplyNaive, SetNaive
  <2>3. served'[c][t] = IF all = {} THEN None ELSE all
    <3> DEFINE v == IF all = {} THEN None ELSE all
    <3>1. SetServed(c, t, v)
      BY <2>1 DEF ApplyNaive
    <3> HIDE DEF v
    <3>2. served'[c][t] = v
      BY <1>1, <1>2, <3>1 DEF SetServed
    <3> QED
      BY <3>2 DEF v
  <2> QED
    BY <1>4, <2>1, <2>2, <2>3 DEF c, IsNaive
<1>5. CASE CoreType[c] = "xray" \/ (CoreType[c] = "sing" /\ kind[t] # "naive")
  <2>1. SetServed(c, t, served[c][t] \cup us) /\ UNCHANGED usersMap
    BY <1>1, <1>5 DEF c, CoreAddUsers, XrayAddUsers, SingAddUsers
  <2>2. served'[c][t] = served[c][t] \cup us
    BY <1>1, <1>2, <2>1 DEF SetServed
  <2> QED
    BY <1>5, <2>1, <2>2 DEF c, IsNaive
<1> QED
  BY <1>1, <1>3, <1>4, <1>5 DEF c, IsNaive

LEMMA DelEffect ==
    ASSUME IInv, NEW t \in Live, NEW us, CoreDelUsers(nodes[t], t, us, TRUE)
    PROVE  LET c == nodes[t]
           IN /\ CoreType[c] = "hysteria2" => usersMap' = [usersMap EXCEPT ![c] = @ \ us]
              /\ CoreType[c] # "hysteria2" => UNCHANGED usersMap
              /\ IsNaive(c, t) => /\ naive'[c][t] = naive[c][t] \ us
                                  /\ served'[c][t] = IF naive'[c][t] = {} THEN None ELSE naive'[c][t]
              /\ CoreType[c] # "hysteria2" /\ ~IsNaive(c, t) => served'[c][t] = served[c][t] \ us
<1> DEFINE c == nodes[t]
<1>1. c \in CoreNames /\ t \in Tags /\ (CoreType[c] = "xray" => kind[t] # "naive")
  BY HasHome
<1>2. served \in [CoreNames -> [Tags -> Lists]] /\ naive \in [CoreNames -> [Tags -> Lists]]
  BY DEF IInv, TypeOK
<1> HIDE DEF c
<1>3. CASE CoreType[c] = "hysteria2"
  BY <1>1, <1>3 DEF c, IsNaive, CoreDelUsers, Hy2DelUsers
<1>4. CASE CoreType[c] = "sing" /\ kind[t] = "naive"
  <2>1. ApplyNaive(c, t, naive[c][t] \ us, TRUE) /\ UNCHANGED usersMap
    BY <1>1, <1>4 DEF c, CoreDelUsers, NaiveLeft
  <2> DEFINE all == naive[c][t] \ us
  <2>2. naive'[c][t] = all
    BY <1>1, <1>2, <2>1 DEF ApplyNaive, SetNaive
  <2>3. served'[c][t] = IF all = {} THEN None ELSE all
    <3> DEFINE v == IF all = {} THEN None ELSE all
    <3>1. SetServed(c, t, v)
      BY <2>1 DEF ApplyNaive
    <3> HIDE DEF v
    <3>2. served'[c][t] = v
      BY <1>1, <1>2, <3>1 DEF SetServed
    <3> QED
      BY <3>2 DEF v
  <2> QED
    BY <1>4, <2>1, <2>2, <2>3 DEF c, IsNaive
<1>5. CASE CoreType[c] = "xray" \/ (CoreType[c] = "sing" /\ kind[t] # "naive")
  <2>1. SetServed(c, t, served[c][t] \ us) /\ UNCHANGED usersMap
    BY <1>1, <1>5 DEF c, CoreDelUsers, XrayDelUsers, SingDelUsers
  <2>2. served'[c][t] = served[c][t] \ us
    BY <1>1, <1>2, <2>1 DEF SetServed
  <2> QED
    BY <1>5, <2>1, <2>2 DEF c, IsNaive
<1> QED
  BY <1>1, <1>3, <1>4, <1>5 DEF c, IsNaive

\* The node has the list l.
Has(c, t, l) ==
    /\ IsNaive(c, t) => naive'[c][t] = l /\ served'[c][t] = IF l = {} THEN None ELSE l
    /\ CoreType[c] # "hysteria2" /\ ~IsNaive(c, t) => served'[c][t] = l

\* A call for users keeps the invariant, if the node has the new list unless
\* a call has failed.
LEMMA CallStep ==
    ASSUME IInv, NEW t \in Live, UsersFrame(nodes[t], t),
           NEW l \in SUBSET UsersOf[t], userList' = [userList EXCEPT ![t] = l],
           NEW b \in BOOLEAN, failed' = [failed EXCEPT ![t] = b],
           ~b => Has(nodes[t], t, l),
           stage' = [stage EXCEPT ![t] = "up"], UNCHANGED <<nodes, kind>>
    PROVE  IInv'
<1> DEFINE c == nodes[t]
<1>1. c \in CoreNames /\ t \in Tags
  BY HasHome
<1>2. l \subseteq Users
  BY <1>1 DEF Users
<1>3. TypeOK /\ Live' = Live
  BY <1>1 DEF IInv, TypeOK, Live
<1>4. TypeOK'
  BY <1>1, <1>2, <1>3 DEF TypeOK, UsersFrame
<1>5. TablesInv'
  <2> SUFFICES ASSUME NEW d \in CoreNames, NEW s \in Tags
               PROVE  /\ CoreType[d] # "sing" => naive'[d][s] = None
                      /\ CoreType[d] = "hysteria2" => served'[d][s] = None
                      /\ CoreType[d] # "xray" => s \notin outbound'[d]
                      /\ CoreType[d] # "hysteria2" => s \notin hy2nodes'[d]
    BY DEF TablesInv
  <2>1. outbound' = outbound /\ hy2nodes' = hy2nodes
    BY DEF UsersFrame
  <2>2. /\ CoreType[d] # "sing" => naive[d][s] = None
        /\ CoreType[d] = "hysteria2" => served[d][s] = None
        /\ CoreType[d] # "xray" => s \notin outbound[d]
        /\ CoreType[d] # "hysteria2" => s \notin hy2nodes[d]
    BY DEF IInv, TablesInv
  <2>3. CASE d = c /\ s = t
    BY <2>1, <2>2, <2>3 DEF UsersFrame
  <2>4. CASE d # c \/ s # t
    BY <2>1, <2>2, <2>4 DEF UsersFrame
  <2> QED
    BY <2>3, <2>4
<1>6. StageInv'
  BY <1>1, <1>3 DEF IInv, StageInv, TypeOK, Live
<1>7. NaiveInv'
  <2> SUFFICES ASSUME NEW s \in Live, CoreType[nodes[s]] = "sing"
               PROVE  IF kind[s] = "naive" THEN naive'[nodes[s]][s] # None
                      ELSE naive'[nodes[s]][s] = None /\ served'[nodes[s]][s] # None
    BY <1>3 DEF NaiveInv
  <2>1. CASE s = t
    BY <2>1 DEF UsersFrame
  <2>2. CASE s # t
    <3>1. nodes[s] \in CoreNames /\ s \in Tags
      BY HasHome
    <3>2. served'[nodes[s]][s] = served[nodes[s]][s] /\ naive'[nodes[s]][s] = naive[nodes[s]][s]
      BY <2>2, <3>1 DEF UsersFrame
    <3>3. IF kind[s] = "naive" THEN naive[nodes[s]][s] # None
          ELSE naive[nodes[s]][s] = None /\ served[nodes[s]][s] # None
      BY DEF IInv, NaiveInv
    <3> QED
      BY <3>2, <3>3
  <2> QED
    BY <2>1, <2>2
<1>8. OneHome'
  <2> SUFFICES ASSUME NEW s \in Tags, NEW d \in CoreNames, stage'[s] # "stopped"
               PROVE  /\ nodes[s] # d => /\ served'[d][s] = None /\ naive'[d][s] = None
                                         /\ s \notin outbound[d] /\ s \notin hy2nodes[d]
                      /\ nodes[s] = d => CASE CoreType[d] = "xray" -> served'[d][s] # None /\ s \in outbound[d]
                                           [] CoreType[d] = "sing" -> served'[d][s] # None \/ naive'[d][s] # None
                                           [] OTHER                -> s \in hy2nodes[d]
    BY DEF OneHome, UsersFrame
  <2>1. CASE s = t /\ d = c
    <3>1. stage[t] # "stopped"
      BY DEF Live
    <3>2. \/ CoreType[d] = "xray" /\ t \in outbound[d]
          \/ CoreType[d] = "sing"
          \/ CoreType[d] = "hysteria2" /\ t \in hy2nodes[d]
      BY <2>1, <1>1, <3>1 DEF IInv, OneHome
    <3> QED
      BY <2>1, <3>2 DEF UsersFrame
  <2>2. CASE s # t \/ d # c
    <3>1. stage[s] # "stopped"
      BY <1>1, <1>3 DEF Live, TypeOK
    <3>2. served'[d][s] = served[d][s] /\ naive'[d][s] = naive[d][s]
      BY <2>2 DEF UsersFrame
    <3> QED
      BY <3>1, <3>2 DEF IInv, OneHome
  <2> QED
    BY <2>1, <2>2
<1>9. UsersInv' /\ ServesList'
  <2> SUFFICES ASSUME NEW s \in Tags
               PROVE  LET d == nodes[s]
                      IN /\ stage'[s] = "node" =>
                              CASE CoreType[d] = "hysteria2" -> TRUE
                                [] CoreType[d] = "sing" /\ kind[s] = "naive" ->
                                     naive'[d][s] = {} /\ served'[d][s] = None
                                [] OTHER -> served'[d][s] = {}
                         /\ stage'[s] = "up" /\ ~failed'[s] /\ CoreType[d] = "sing" /\ kind[s] = "naive" =>
                              naive'[d][s] = userList'[s]
                         /\ stage'[s] = "up" /\ ~failed'[s] /\ CoreType[d] # "hysteria2" =>
                              served'[d][s] = (IF kind[s] = "naive" /\ userList'[s] = {} THEN None ELSE userList'[s])
    BY DEF UsersInv, ServesList
  <2>1. CASE s = t
    <3>1. stage'[t] = "up" /\ failed'[t] = b /\ userList'[t] = l
      BY <1>1, <1>3 DEF TypeOK
    <3>2. CoreType[c] = "xray" => kind[t] # "naive"
      BY HasHome
    <3>3. CoreType[c] \in {"xray", "sing", "hysteria2"}
      BY <1>1
    <3> QED
      BY <2>1, <3>1, <3>2, <3>3 DEF Has, IsNaive
  <2>2. CASE s # t
    <3>1. stage'[s] = stage[s] /\ failed'[s] = failed[s] /\ userList'[s] = userList[s]
      BY <1>1, <1>3, <2>2 DEF TypeOK
    <3>2. stage[s] \in {"node", "up"} => nodes[s] \in CoreNames
      BY HasHome DEF Live
    <3>3. stage[s] \in {"node", "up"} => /\ served'[nodes[s]][s] = served[nodes[s]][s]
                                         /\ naive'[nodes[s]][s] = naive[nodes[s]][s]
      BY <2>2, <3>2 DEF UsersFrame
    <3>4. LET d == nodes[s]
          IN /\ stage[s] = "node" =>
                  CASE CoreType[d] = "hysteria2" -> TRUE
                    [] CoreType[d] = "sing" /\ kind[s] = "naive" -> naive[d][s] = {} /\ served[d][s] = None
                    [] OTHER -> served[d][s] = {}
             /\ stage[s] = "up" /\ ~failed[s] /\ CoreType[d] = "sing" /\ kind[s] = "naive" =>
                  naive[d][s] = userList[s]
             /\ stage[s] = "up" /\ ~failed[s] /\ CoreType[d] # "hysteria2" =>
                  served[d][s] = (IF kind[s] = "naive" /\ userList[s] = {} THEN None ELSE userList[s])
      BY DEF IInv, UsersInv, ServesList
    <3> QED
      BY <3>1, <3>3, <3>4
  <2> QED
    BY <2>1, <2>2
<1> QED
  BY <1>4, <1>5, <1>6, <1>7, <1>8, <1>9 DEF IInv

LEMMA SetUpStep ==
    ASSUME IInv, NEW t \in Tags, NEW list \in SUBSET UsersOf[t], NEW ok \in BOOLEAN,
           SetUp(t, list, ok)
    PROVE  IInv'
<1> DEFINE c == nodes[t]
<1>1. t \in Live /\ CoreAddUsers(nodes[t], t, list, ok)
  BY DEF SetUp, Live
<1>2. UsersFrame(nodes[t], t)
  BY <1>1, UsersStep
<1>3. ok => Has(nodes[t], t, list)
  <2> SUFFICES ASSUME ok PROVE Has(nodes[t], t, list)
    OBVIOUS
  <2>1. CoreAddUsers(nodes[t], t, list, TRUE)
    BY <1>1
  <2>2. stage[t] = "node" /\ list # {}
    BY DEF SetUp
  <2>3. CoreType[c] \in {"xray", "sing", "hysteria2"}
    BY <1>1, HasHome
  <2>4. /\ IsNaive(c, t) => /\ naive'[c][t] = naive[c][t] \cup list
                             /\ served'[c][t] = IF naive'[c][t] = {} THEN None ELSE naive'[c][t]
        /\ CoreType[c] # "hysteria2" /\ ~IsNaive(c, t) => served'[c][t] = served[c][t] \cup list
    BY <1>1, <2>1, AddEffect DEF c
  <2>5. /\ IsNaive(c, t) => naive[c][t] = {}
        /\ CoreType[c] # "hysteria2" /\ ~IsNaive(c, t) => served[c][t] = {}
    BY <2>2, <2>3 DEF IInv, UsersInv, IsNaive
  <2> HIDE DEF c
  <2> QED
    BY <2>4, <2>5 DEF Has, c
<1>4. /\ userList' = [userList EXCEPT ![t] = list]
      /\ failed' = [failed EXCEPT ![t] = ~ok]
      /\ stage' = [stage EXCEPT ![t] = "up"]
      /\ UNCHANGED <<nodes, kind>>
  BY DEF SetUp
<1> QED
  BY <1>1, <1>2, <1>3, <1>4, CallStep

LEMMA AddUsersStep ==
    ASSUME IInv, NEW t \in Tags, NEW list \in SUBSET UsersOf[t], NEW ok \in BOOLEAN,
           AddUsers(t, list, ok)
    PROVE  IInv'
<1> DEFINE c   == nodes[t]
           new == list \ userList[t]
           l   == IF ok THEN list ELSE userList[t]
           b   == failed[t] \/ ~ok
<1> USE DEF AddUsers
<1>1. t \in Live /\ userList[t] \subseteq list
  BY DEF Live
<1>2. CoreAddUsers(nodes[t], t, new, ok) /\ stage[t] = "up"
  OBVIOUS
<1>3. UsersFrame(nodes[t], t)
  <2>1. new \in SUBSET UsersOf[t]
    OBVIOUS
  <2> HIDE DEF new
  <2> QED
    BY <1>1, <1>2, <2>1, UsersStep
<1>4. ~b => Has(nodes[t], t, l)
  <2> SUFFICES ASSUME ok, ~failed[t] PROVE Has(nodes[t], t, list)
    OBVIOUS
  <2>1. CoreAddUsers(nodes[t], t, new, TRUE) /\ userList[t] \cup new = list
    BY <1>1, <1>2
  <2>2. CoreType[nodes[t]] \in {"xray", "sing", "hysteria2"}
    BY <1>1, HasHome
  <2>3. /\ CoreType[nodes[t]] = "sing" /\ kind[t] = "naive" => naive[nodes[t]][t] = userList[t]
        /\ CoreType[nodes[t]] # "hysteria2" /\ kind[t] # "naive" => served[nodes[t]][t] = userList[t]
        /\ CoreType[nodes[t]] = "xray" => kind[t] # "naive"
    BY <1>1, <1>2, HasHome DEF IInv, UsersInv, ServesList
  <2> HIDE DEF new
  <2>4. /\ IsNaive(c, t) => /\ naive'[c][t] = naive[c][t] \cup new
                             /\ served'[c][t] = IF naive'[c][t] = {} THEN None ELSE naive'[c][t]
        /\ CoreType[c] # "hysteria2" /\ ~IsNaive(c, t) => served'[c][t] = served[c][t] \cup new
    BY <1>1, <2>1, AddEffect DEF c
  <2> HIDE DEF c
  <2>5. /\ IsNaive(c, t) => naive[c][t] = userList[t]
        /\ CoreType[c] # "hysteria2" /\ ~IsNaive(c, t) => served[c][t] = userList[t]
    BY <2>2, <2>3 DEF IsNaive, c
  <2> QED
    BY <2>1, <2>4, <2>5 DEF Has, c
<1>5. /\ userList' = [userList EXCEPT ![t] = l]
      /\ failed' = [failed EXCEPT ![t] = b]
      /\ stage' = [stage EXCEPT ![t] = "up"]
      /\ l \in SUBSET UsersOf[t] /\ b \in BOOLEAN
  <2>1. userList[t] \subseteq UsersOf[t] /\ failed[t] \in BOOLEAN
    BY DEF IInv, TypeOK, StageInv
  <2>2. l \in SUBSET UsersOf[t] /\ b \in BOOLEAN
    BY <2>1
  <2>3. /\ userList' = IF ok THEN [userList EXCEPT ![t] = l] ELSE userList
        /\ ok \/ l = userList[t]
    OBVIOUS
  <2>4. failed' = [failed EXCEPT ![t] = b]
    OBVIOUS
  <2>5. stage' = stage /\ stage[t] = "up"
    OBVIOUS
  <2>6. userList = [s \in Tags |-> userList[s]] /\ stage = [s \in Tags |-> stage[s]]
    BY DEF IInv, TypeOK
  <2> HIDE DEF l, b, AddUsers
  <2>7. userList' = [userList EXCEPT ![t] = l]
    BY <2>3, <2>6
  <2>8. stage' = [stage EXCEPT ![t] = "up"]
    BY <2>5, <2>6
  <2> QED
    BY <2>2, <2>4, <2>7, <2>8
<1> HIDE DEF l, b
<1> QED
  BY <1>1, <1>3, <1>4, <1>5, CallStep

LEMMA DelUsersStep ==
    ASSUME IInv, NEW t \in Tags, NEW list \in SUBSET UsersOf[t], NEW ok \in BOOLEAN,
           DelUsers(t, list, ok)
    PROVE  IInv'
<1> DEFINE c    == nodes[t]
           gone == userList[t] \ list
           l    == IF ok THEN list \cap userList[t] ELSE userList[t]
           b    == failed[t] \/ ~ok
<1> USE DEF DelUsers
<1>1. t \in Live
  BY DEF Live
<1>2. CoreDelUsers(nodes[t], t, gone, ok) /\ stage[t] = "up"
  OBVIOUS
<1>3. gone \in SUBSET UsersOf[t]
  BY DEF IInv, StageInv
<1>4. UsersFrame(nodes[t], t)
  <2> HIDE DEF gone
  <2> QED
    BY <1>1, <1>2, <1>3, UsersStep
<1>5. ~b => Has(nodes[t], t, l)
  <2> SUFFICES ASSUME ok, ~failed[t] PROVE Has(nodes[t], t, list \cap userList[t])
    OBVIOUS
  <2>1. CoreDelUsers(nodes[t], t, gone, TRUE) /\ userList[t] \ gone = list \cap userList[t]
    BY <1>2
  <2>2. CoreType[nodes[t]] \in {"xray", "sing", "hysteria2"}
    BY <1>1, HasHome
  <2>3. /\ CoreType[nodes[t]] = "sing" /\ kind[t] = "naive" => naive[nodes[t]][t] = userList[t]
        /\ CoreType[nodes[t]] # "hysteria2" /\ kind[t] # "naive" => served[nodes[t]][t] = userList[t]
        /\ CoreType[nodes[t]] = "xray" => kind[t] # "naive"
    BY <1>1, <1>2, HasHome DEF IInv, UsersInv, ServesList
  <2> HIDE DEF gone
  <2>4. /\ IsNaive(c, t) => /\ naive'[c][t] = naive[c][t] \ gone
                             /\ served'[c][t] = IF naive'[c][t] = {} THEN None ELSE naive'[c][t]
        /\ CoreType[c] # "hysteria2" /\ ~IsNaive(c, t) => served'[c][t] = served[c][t] \ gone
    BY <1>1, <2>1, DelEffect DEF c
  <2> HIDE DEF c
  <2>5. /\ IsNaive(c, t) => naive[c][t] = userList[t]
        /\ CoreType[c] # "hysteria2" /\ ~IsNaive(c, t) => served[c][t] = userList[t]
    BY <2>2, <2>3 DEF IsNaive, c
  <2> QED
    BY <2>1, <2>4, <2>5 DEF Has, c
<1>6. /\ userList' = [userList EXCEPT ![t] = l]
      /\ failed' = [failed EXCEPT ![t] = b]
      /\ stage' = [stage EXCEPT ![t] = "up"]
      /\ l \in SUBSET UsersOf[t] /\ b \in BOOLEAN
  <2>1. userList[t] \subseteq UsersOf[t] /\ failed[t] \in BOOLEAN
    BY DEF IInv, TypeOK, StageInv
  <2>2. l \in SUBSET UsersOf[t] /\ b \in BOOLEAN
    BY <2>1
  <2>3. /\ userList' = IF ok THEN [userList EXCEPT ![t] = l] ELSE userList
        /\ ok \/ l = userList[t]
    OBVIOUS
  <2>4. failed' = [failed EXCEPT ![t] = b]
    OBVIOUS
  <2>5. stage' = stage /\ stage[t] = "up"
    OBVIOUS
  <2>6. userList = [s \in Tags |-> userList[s]] /\ stage = [s \in Tags |-> stage[s]]
    BY DEF IInv, TypeOK
  <2> HIDE DEF l, b, DelUsers
  <2>7. userList' = [userList EXCEPT ![t] = l]
    BY <2>3, <2>6
  <2>8. stage' = [stage EXCEPT ![t] = "up"]
    BY <2>5, <2>6
  <2> QED
    BY <2>2, <2>4, <2>7, <2>8
<1> HIDE DEF l, b
<1> QED
  BY <1>1, <1>4, <1>5, <1>6, CallStep

-----------------------------------------------------------------------------
\* AddNode and DelNode

\* The core has nothing of the node.
Absent(c, t) ==
    served[c][t] = None /\ naive[c][t] = None /\ t \notin outbound[c] /\ t \notin hy2nodes[c]

\* The node has been added to its core, and has no users.
Fresh(t) ==
    LET c == nodes[t]
    IN CASE CoreType[c] = "xray" -> served[c][t] = {} /\ t \in outbound[c]
         [] CoreType[c] = "sing" -> IF kind[t] = "naive" THEN naive[c][t] = {} /\ served[c][t] = None
                                    ELSE naive[c][t] = None /\ served[c][t] = {}
         [] OTHER                -> t \in hy2nodes[c]

\* The tables after the step: those of the other nodes are as they were.
TablesFrame(t) ==
    /\ served' \in [CoreNames -> [Tags -> Lists]]
    /\ outbound' \in [CoreNames -> SUBSET Tags]
    /\ naive' \in [CoreNames -> [Tags -> Lists]]
    /\ hy2nodes' \in [CoreNames -> SUBSET Tags]
    /\ \A d \in CoreNames, s \in Tags : s # t =>
         /\ served'[d][s] = served[d][s] /\ naive'[d][s] = naive[d][s]
         /\ s \in outbound'[d] <=> s \in outbound[d]
         /\ s \in hy2nodes'[d] <=> s \in hy2nodes[d]
    /\ \A d \in CoreNames :
         /\ CoreType[d] # "sing" => naive'[d][t] = None
         /\ CoreType[d] = "hysteria2" => served'[d][t] = None
         /\ CoreType[d] # "xray" => t \notin outbound'[d]
         /\ CoreType[d] # "hysteria2" => t \notin hy2nodes'[d]

\* So are the controllers of the other nodes, while this one leaves the node
\* in no core, or in one, or has stopped.
ControllersFrame(t) ==
    /\ nodes' \in [Tags -> CoreNames \cup {None}]
    /\ kind' \in [Tags -> Kinds]
    /\ stage' \in [Tags -> {"off", "node", "up", "stopped"}]
    /\ failed' \in [Tags -> BOOLEAN]
    /\ \A s \in Tags : s # t =>
         nodes'[s] = nodes[s] /\ kind'[s] = kind[s] /\ stage'[s] = stage[s] /\ failed'[s] = failed[s]
    /\ UNCHANGED <<userList, usersMap>>
    /\ \/ stage'[t] = "stopped"
       \/ /\ stage'[t] = "off" /\ nodes'[t] = None
          /\ \A d \in CoreNames : Absent(d, t)'
       \/ /\ stage'[t] = "node" /\ nodes'[t] \in CoreNames
          /\ kind'[t] \in Protocols(CoreType[nodes'[t]])
          /\ Fresh(t)'
          /\ \A d \in CoreNames : d # nodes'[t] => Absent(d, t)'

LEMMA NodeStep ==
    ASSUME IInv, NEW t \in Tags, TablesFrame(t), ControllersFrame(t)
    PROVE  IInv'
<1>1. TypeOK'
  <2>1. TypeOK /\ UNCHANGED <<userList, usersMap>>
    BY DEF IInv, ControllersFrame
  <2>2. userList' \in [Tags -> SUBSET Users] /\ usersMap' \in [CoreNames -> SUBSET Users]
    BY <2>1 DEF TypeOK
  <2> QED
    BY <2>2 DEF TypeOK, TablesFrame, ControllersFrame
<1>2. TablesInv'
  <2> SUFFICES ASSUME NEW d \in CoreNames, NEW s \in Tags
               PROVE  /\ CoreType[d] # "sing" => naive'[d][s] = None
                      /\ CoreType[d] = "hysteria2" => served'[d][s] = None
                      /\ CoreType[d] # "xray" => s \notin outbound'[d]
                      /\ CoreType[d] # "hysteria2" => s \notin hy2nodes'[d]
    BY DEF TablesInv
  <2>1. CASE s = t
    BY <2>1 DEF TablesFrame
  <2>2. CASE s # t
    <3>1. /\ served'[d][s] = served[d][s] /\ naive'[d][s] = naive[d][s]
          /\ s \in outbound'[d] <=> s \in outbound[d]
          /\ s \in hy2nodes'[d] <=> s \in hy2nodes[d]
      BY <2>2 DEF TablesFrame
    <3> QED
      BY <3>1 DEF IInv, TablesInv
  <2> QED
    BY <2>1, <2>2
\* What the invariant says of another node, it still says.
<1>3. ASSUME NEW s \in Tags, s # t
      PROVE  /\ nodes'[s] = nodes[s] /\ kind'[s] = kind[s] /\ stage'[s] = stage[s]
             /\ failed'[s] = failed[s] /\ userList'[s] = userList[s]
             /\ \A d \in CoreNames : /\ served'[d][s] = served[d][s] /\ naive'[d][s] = naive[d][s]
                                     /\ s \in outbound'[d] <=> s \in outbound[d]
                                     /\ s \in hy2nodes'[d] <=> s \in hy2nodes[d]
             /\ stage[s] \in {"node", "up"} => nodes[s] \in CoreNames
  BY <1>3 DEF TablesFrame, ControllersFrame, IInv, StageInv, Live
\* And what the step leaves of this one:
<1>4. /\ stage'[t] \in {"off", "node", "stopped"}
      /\ stage'[t] = "off" => nodes'[t] = None /\ \A d \in CoreNames : Absent(d, t)'
      /\ stage'[t] = "node" =>
           /\ nodes'[t] \in CoreNames /\ kind'[t] \in Protocols(CoreType[nodes'[t]]) /\ Fresh(t)'
           /\ \A d \in CoreNames : d # nodes'[t] => Absent(d, t)'
      /\ userList'[t] = userList[t]
  BY DEF ControllersFrame
<1>5. None # {} /\ None \notin CoreNames
  OBVIOUS
<1>6. stage'[t] = "node" /\ CoreType[nodes'[t]] = "xray" => kind'[t] # "naive"
  BY <1>4 DEF Protocols
<1>7. StageInv'
  <2> SUFFICES ASSUME NEW s \in Tags
               PROVE  /\ stage'[s] = "off" => nodes'[s] = None
                      /\ s \in Live' => nodes'[s] \in CoreNames /\ kind'[s] \in Protocols(CoreType[nodes'[s]])
                      /\ userList'[s] \subseteq UsersOf[s]
    BY DEF StageInv
  <2>1. StageInv
    BY DEF IInv
  <2>2. CASE s = t
    BY <1>4, <2>1, <2>2 DEF StageInv, Live
  <2>3. CASE s # t
    <3>1. s \in Live' <=> s \in Live
      BY <1>3, <2>3 DEF Live
    <3> QED
      BY <1>3, <2>1, <2>3, <3>1 DEF StageInv
  <2> QED
    BY <2>2, <2>3
<1>8. NaiveInv'
  <2> SUFFICES ASSUME NEW s \in Tags, stage'[s] \in {"node", "up"}, CoreType[nodes'[s]] = "sing"
               PROVE  IF kind'[s] = "naive" THEN naive'[nodes'[s]][s] # None
                      ELSE naive'[nodes'[s]][s] = None /\ served'[nodes'[s]][s] # None
    BY DEF NaiveInv, Live
  <2>1. CASE s = t
    <3>1. stage'[t] = "node" /\ Fresh(t)'
      BY <1>4, <2>1
    <3> QED
      BY <1>5, <2>1, <3>1 DEF Fresh
  <2>2. CASE s # t
    <3>1. s \in Live /\ CoreType[nodes[s]] = "sing"
      BY <1>3, <2>2 DEF Live
    <3>2. IF kind[s] = "naive" THEN naive[nodes[s]][s] # None
          ELSE naive[nodes[s]][s] = None /\ served[nodes[s]][s] # None
      BY <3>1 DEF IInv, NaiveInv
    <3> QED
      BY <1>3, <2>2, <3>1, <3>2 DEF Live
  <2> QED
    BY <2>1, <2>2
<1>9. OneHome'
  <2> SUFFICES ASSUME NEW s \in Tags, NEW d \in CoreNames, stage'[s] # "stopped"
               PROVE  /\ nodes'[s] # d => Absent(d, s)'
                      /\ nodes'[s] = d => CASE CoreType[d] = "xray" -> served'[d][s] # None /\ s \in outbound'[d]
                                            [] CoreType[d] = "sing" -> served'[d][s] # None \/ naive'[d][s] # None
                                            [] OTHER                -> s \in hy2nodes'[d]
    BY DEF OneHome, Absent
  <2>1. CASE s = t
    <3>1. nodes'[t] # d => Absent(d, t)'
      BY <1>4, <2>1
    <3>2. CASE nodes'[t] = d
      <4>1. stage'[t] = "node" /\ Fresh(t)'
        BY <1>4, <1>5, <2>1, <3>2
      <4> QED
        BY <1>5, <2>1, <3>2, <4>1 DEF Fresh
    <3> QED
      BY <2>1, <3>1, <3>2
  <2>2. CASE s # t
    <3>1. stage[s] # "stopped" /\ nodes'[s] = nodes[s]
      BY <1>3, <2>2
    <3>2. /\ nodes[s] # d => Absent(d, s)
          /\ nodes[s] = d => CASE CoreType[d] = "xray" -> served[d][s] # None /\ s \in outbound[d]
                               [] CoreType[d] = "sing" -> served[d][s] # None \/ naive[d][s] # None
                               [] OTHER                -> s \in hy2nodes[d]
      BY <3>1 DEF IInv, OneHome, Absent
    <3> QED
      BY <1>3, <2>2, <3>1, <3>2 DEF Absent
  <2> QED
    BY <2>1, <2>2
<1>10. UsersInv' /\ ServesList'
  <2> SUFFICES ASSUME NEW s \in Tags
               PROVE  LET d == nodes'[s]
                      IN /\ stage'[s] = "node" =>
                              CASE CoreType[d] = "hysteria2" -> TRUE
                                [] CoreType[d] = "sing" /\ kind'[s] = "naive" ->
                                     naive'[d][s] = {} /\ served'[d][s] = None
                                [] OTHER -> served'[d][s] = {}
                         /\ stage'[s] = "up" /\ ~failed'[s] /\ CoreType[d] = "sing" /\ kind'[s] = "naive" =>
                              naive'[d][s] = userList'[s]
                         /\ stage'[s] = "up" /\ ~failed'[s] /\ CoreType[d] # "hysteria2" =>
                              served'[d][s] = (IF kind'[s] = "naive" /\ userList'[s] = {} THEN None ELSE userList'[s])
    BY DEF UsersInv, ServesList
  <2>1. CASE s = t
    <3>1. stage'[t] # "up" /\ (stage'[t] = "node" => nodes'[t] \in CoreNames /\ Fresh(t)')
      BY <1>4
    <3>2. nodes'[t] \in CoreNames => CoreType[nodes'[t]] \in {"xray", "sing", "hysteria2"}
      OBVIOUS
    <3> QED
      BY <1>6, <2>1, <3>1, <3>2 DEF Fresh
  <2>2. CASE s # t
    <3>1. stage[s] \in {"node", "up"} => /\ served'[nodes[s]][s] = served[nodes[s]][s]
                                         /\ naive'[nodes[s]][s] = naive[nodes[s]][s]
      BY <1>3, <2>2
    <3>2. /\ nodes'[s] = nodes[s] /\ kind'[s] = kind[s] /\ stage'[s] = stage[s]
          /\ failed'[s] = failed[s] /\ userList'[s] = userList[s]
      BY <1>3, <2>2
    <3>3. LET d == nodes[s]
          IN /\ stage[s] = "node" =>
                  CASE CoreType[d] = "hysteria2" -> TRUE
                    [] CoreType[d] = "sing" /\ kind[s] = "naive" -> naive[d][s] = {} /\ served[d][s] = None
                    [] OTHER -> served[d][s] = {}
             /\ stage[s] = "up" /\ ~failed[s] /\ CoreType[d] = "sing" /\ kind[s] = "naive" =>
                  naive[d][s] = userList[s]
             /\ stage[s] = "up" /\ ~failed[s] /\ CoreType[d] # "hysteria2" =>
                  served[d][s] = (IF kind[s] = "naive" /\ userList[s] = {} THEN None ELSE userList[s])
      BY DEF IInv, UsersInv, ServesList
    <3> QED
      BY <3>1, <3>2, <3>3
  <2> QED
    BY <2>1, <2>2
<1> QED
  BY <1>1, <1>2, <1>7, <1>8, <1>9, <1>10 DEF IInv

\* What an assignment to one entry of a table leaves.
LEMMA Pointwise ==
    ASSUME NEW f \in [CoreNames -> [Tags -> Lists]], NEW c \in CoreNames, NEW t \in Tags,
           NEW v \in Lists, NEW g, g = [f EXCEPT ![c][t] = v]
    PROVE  /\ g \in [CoreNames -> [Tags -> Lists]] /\ g[c][t] = v
           /\ \A d \in CoreNames, s \in Tags : d # c \/ s # t => g[d][s] = f[d][s]
<1>1. g = [f EXCEPT ![c] = [f[c] EXCEPT ![t] = v]]
  OBVIOUS
<1>2. PICK h \in [Tags -> Lists] : h = [f[c] EXCEPT ![t] = v] /\ h[t] = v
  <2>1. f[c] \in [Tags -> Lists]
    OBVIOUS
  <2>2. [f[c] EXCEPT ![t] = v] \in [Tags -> Lists] /\ [f[c] EXCEPT ![t] = v][t] = v
    BY <2>1
  <2> QED
    BY <2>2
<1>3. g = [f EXCEPT ![c] = h]
  BY <1>1, <1>2
<1>4. g \in [CoreNames -> [Tags -> Lists]] /\ g[c] = h
  BY <1>3
<1>5. ASSUME NEW d \in CoreNames, NEW s \in Tags, d # c \/ s # t
      PROVE  g[d][s] = f[d][s]
  <2>1. CASE d # c
    BY <1>3, <2>1
  <2>2. CASE d = c /\ s # t
    BY <1>2, <1>4, <2>2
  <2> QED
    BY <1>5, <2>1, <2>2
<1> QED
  BY <1>2, <1>4, <1>5

\* AddNode: a core that succeeds has the node, as new, and one that fails is
\* left by a controller that has stopped.
LEMMA AddTables ==
    ASSUME IInv, NEW t \in Tags, NEW c \in CoreNames, NEW k, NEW ok \in BOOLEAN,
           stage[t] = "off", CoreAddNode(c, t, k, ok)
    PROVE  /\ TablesFrame(t)
           /\ \A d \in CoreNames : d # c => Absent(d, t)'
           /\ ok => /\ k \in Protocols(CoreType[c])
                    /\ CoreType[c] = "xray" => served'[c][t] = {} /\ t \in outbound'[c]
                    /\ CoreType[c] = "sing" =>
                         IF k = "naive" THEN naive'[c][t] = {} /\ served'[c][t] = None
                         ELSE naive'[c][t] = None /\ served'[c][t] = {}
                    /\ CoreType[c] = "hysteria2" => t \in hy2nodes'[c]
<1>1. /\ served \in [CoreNames -> [Tags -> Lists]] /\ naive \in [CoreNames -> [Tags -> Lists]]
      /\ outbound \in [CoreNames -> SUBSET Tags] /\ hy2nodes \in [CoreNames -> SUBSET Tags]
  BY DEF IInv, TypeOK
<1>2. \A d \in CoreNames : Absent(d, t)
  <2>1. nodes[t] = None /\ None \notin CoreNames
    BY DEF IInv, StageInv
  <2> QED
    BY <2>1 DEF IInv, OneHome, Absent
<1>3. {} \in Lists /\ (ok => k \in Protocols(CoreType[c]))
  BY DEF Lists, CoreAddNode
<1>4. \A d \in CoreNames, s \in Tags :
        /\ CoreType[d] # "sing" => naive[d][s] = None
        /\ CoreType[d] = "hysteria2" => served[d][s] = None
        /\ CoreType[d] # "xray" => s \notin outbound[d]
        /\ CoreType[d] # "hysteria2" => s \notin hy2nodes[d]
  BY DEF IInv, TablesInv
<1>5. CASE XrayAddNode(c, t, ok)
  <2>1. PICK v \in Lists : SetServed(c, t, v) /\ (ok => v = {})
    <3>1. CASE UNCHANGED served /\ ~ok
      <4>1. SetServed(c, t, served[c][t]) /\ served[c][t] \in Lists
        BY <1>1, <3>1 DEF SetServed
      <4> QED
        BY <3>1, <4>1
    <3> QED
      BY <1>3, <1>5, <3>1 DEF XrayAddNode
  <2>2. /\ served' \in [CoreNames -> [Tags -> Lists]] /\ served'[c][t] = v
        /\ \A d \in CoreNames, s \in Tags : d # c \/ s # t => served'[d][s] = served[d][s]
    BY <1>1, <2>1, Pointwise DEF SetServed
  <2>3. /\ outbound' \in [CoreNames -> SUBSET Tags] /\ (ok => t \in outbound'[c])
        /\ \A d \in CoreNames, s \in Tags : d # c \/ s # t => (s \in outbound'[d] <=> s \in outbound[d])
    BY <1>1, <1>5, SMTT(30) DEF XrayAddNode
  <2>4. CoreType[c] = "xray" /\ UNCHANGED <<naive, hy2nodes>>
    BY <1>5 DEF XrayAddNode
  <2>5. TablesFrame(t)
    <3>1. \A d \in CoreNames :
            /\ CoreType[d] # "sing" => naive[d][t] = None
            /\ CoreType[d] = "hysteria2" => served'[d][t] = None
            /\ CoreType[d] # "xray" => t \notin outbound'[d]
            /\ CoreType[d] # "hysteria2" => t \notin hy2nodes[d]
      BY <1>1, <1>2, <1>4, <2>2, <2>3, <2>4 DEF Absent
    <3> QED
      BY <1>1, <2>2, <2>3, <2>4, <3>1 DEF TablesFrame
  <2> QED
    BY <1>2, <1>3, <2>1, <2>2, <2>3, <2>4, <2>5 DEF Absent
<1>6. CASE SingAddNode(c, t, k, ok)
  <2>1. PICK v \in Lists : SetServed(c, t, v) /\ (ok => v = IF k = "naive" THEN None ELSE {})
    <3>1. CASE UNCHANGED served
      <4>1. SetServed(c, t, None) /\ None \in Lists /\ (ok => served[c][t] = served'[c][t])
        BY <1>1, <1>2, <3>1 DEF SetServed, Absent, Lists
      <4>2. ok /\ k # "naive" => FALSE
        <5>1. SUFFICES ASSUME ok, k # "naive" PROVE FALSE
          OBVIOUS
        <5>2. SetServed(c, t, {})
          BY <1>6, <5>1 DEF SingAddNode
        <5>3. served'[c][t] = {}
          BY <1>1, <1>3, <5>2, Pointwise DEF SetServed
        <5> QED
          BY <1>2, <3>1, <5>3 DEF Absent
      <4> QED
        BY <4>1, <4>2
    <3>2. CASE ~UNCHANGED served
      BY <1>3, <1>6, <3>2 DEF SingAddNode
    <3> QED
      BY <3>1, <3>2
  <2>2. /\ served' \in [CoreNames -> [Tags -> Lists]] /\ served'[c][t] = v
        /\ \A d \in CoreNames, s \in Tags : d # c \/ s # t => served'[d][s] = served[d][s]
    BY <1>1, <2>1, Pointwise DEF SetServed
  <2>3. PICK w \in Lists : SetNaive(c, t, w) /\ (k = "naive" => w = {}) /\ (k # "naive" => w = None)
    <3>1. CASE k = "naive"
      BY <1>3, <1>6, <3>1 DEF SingAddNode
    <3>2. CASE k # "naive"
      <4>1. UNCHANGED naive /\ naive[c][t] = None
        BY <1>2, <1>6, <3>2 DEF SingAddNode, Absent
      <4> QED
        BY <1>1, <3>2, <4>1 DEF SetNaive, Lists
    <3> QED
      BY <3>1, <3>2
  <2>4. /\ naive' \in [CoreNames -> [Tags -> Lists]] /\ naive'[c][t] = w
        /\ \A d \in CoreNames, s \in Tags : d # c \/ s # t => naive'[d][s] = naive[d][s]
    BY <1>1, <2>3, Pointwise DEF SetNaive
  <2>5. CoreType[c] = "sing" /\ UNCHANGED <<outbound, hy2nodes>>
    BY <1>6 DEF SingAddNode
  <2>6. TablesFrame(t)
    <3>1. \A d \in CoreNames :
            /\ CoreType[d] # "sing" => naive'[d][t] = None
            /\ CoreType[d] = "hysteria2" => served'[d][t] = None
            /\ CoreType[d] # "xray" => t \notin outbound[d]
            /\ CoreType[d] # "hysteria2" => t \notin hy2nodes[d]
      <4> SUFFICES ASSUME NEW d \in CoreNames
                   PROVE  /\ CoreType[d] # "sing" => naive'[d][t] = None
                          /\ CoreType[d] = "hysteria2" => served'[d][t] = None
                          /\ CoreType[d] # "xray" => t \notin outbound[d]
                          /\ CoreType[d] # "hysteria2" => t \notin hy2nodes[d]
        OBVIOUS
      <4>1. t \notin outbound[d] /\ t \notin hy2nodes[d]
        BY <1>2 DEF Absent
      <4>2. CASE d = c
        BY <2>5, <4>1, <4>2
      <4>3. CASE d # c
        <5>1. served'[d][t] = served[d][t] /\ naive'[d][t] = naive[d][t]
          BY <2>2, <2>4, <4>3
        <5> QED
          BY <1>2, <4>1, <5>1 DEF Absent
      <4> QED
        BY <4>2, <4>3
    <3> QED
      BY <1>1, <2>2, <2>4, <2>5, <3>1 DEF TablesFrame
  <2> QED
    BY <1>2, <1>3, <2>1, <2>2, <2>3, <2>4, <2>5, <2>6 DEF Absent
<1>7. CASE Hy2AddNode(c, t, ok)
  BY <1>1, <1>2, <1>3, <1>4, <1>7 DEF Hy2AddNode, TablesFrame, Absent
<1> QED
  BY <1>5, <1>6, <1>7 DEF CoreAddNode

LEMMA AddNodeStep ==
    ASSUME IInv, NEW t \in Tags, NEW k \in Kinds, NEW ok \in BOOLEAN, AddNode(t, k, ok)
    PROVE  IInv'
<1>1. /\ stage[t] = "off"
      /\ kind' = [kind EXCEPT ![t] = k]
      /\ stage' = [stage EXCEPT ![t] = IF ok THEN "node" ELSE "stopped"]
      /\ failed' = [failed EXCEPT ![t] = FALSE]
      /\ UNCHANGED <<userList, usersMap>>
  BY DEF AddNode, CoreAddNode, XrayAddNode, SingAddNode, Hy2AddNode, coreState
<1>2. TypeOK
  BY DEF IInv
<1>3. CASE Selectable(t, k) = {}
  <2>1. ~ok /\ UNCHANGED <<nodes, served, outbound, naive, hy2nodes, usersMap>>
    BY <1>3 DEF AddNode, coreState
  <2>2. TablesFrame(t)
    BY <1>2, <2>1 DEF TablesFrame, TypeOK, IInv, TablesInv
  <2>3. ControllersFrame(t)
    BY <1>1, <1>2, <2>1 DEF ControllersFrame, TypeOK
  <2> QED
    BY <2>2, <2>3, NodeStep
<1>4. CASE Selectable(t, k) # {}
  <2>1. PICK c \in Selectable(t, k) :
          CoreAddNode(c, t, k, ok) /\ nodes' = IF ok THEN [nodes EXCEPT ![t] = c] ELSE nodes
    BY <1>4 DEF AddNode
  <2>2. c \in CoreNames
    BY <2>1 DEF Selectable
  <2>3. /\ TablesFrame(t)
        /\ \A d \in CoreNames : d # c => Absent(d, t)'
        /\ ok => /\ k \in Protocols(CoreType[c])
                 /\ CoreType[c] = "xray" => served'[c][t] = {} /\ t \in outbound'[c]
                 /\ CoreType[c] = "sing" =>
                      IF k = "naive" THEN naive'[c][t] = {} /\ served'[c][t] = None
                      ELSE naive'[c][t] = None /\ served'[c][t] = {}
                 /\ CoreType[c] = "hysteria2" => t \in hy2nodes'[c]
    BY <1>1, <2>1, <2>2, AddTables
  <2>4. ControllersFrame(t)
    <3>1. CASE ~ok
      BY <1>1, <1>2, <2>1, <3>1 DEF ControllersFrame, TypeOK
    <3>2. CASE ok
      <4>1. nodes'[t] = c /\ kind'[t] = k /\ stage'[t] = "node"
        BY <1>1, <1>2, <2>1, <3>2 DEF TypeOK
      <4>2. Fresh(t)'
        BY <2>2, <2>3, <3>2, <4>1 DEF Fresh
      <4> QED
        BY <1>1, <1>2, <2>1, <2>2, <2>3, <3>2, <4>1, <4>2 DEF ControllersFrame, TypeOK
    <3> QED
      BY <3>1, <3>2
  <2> QED
    BY <2>3, <2>4, NodeStep
<1> QED
  BY <1>3, <1>4

LEMMA DelNodeStep ==
    ASSUME IInv, NEW t \in Tags, NEW ok \in BOOLEAN, DelNode(t, ok)
    PROVE  IInv'
<1> DEFINE c == nodes[t]
<1>1. /\ c \in CoreNames /\ stage[t] = "up"
      /\ XrayDelNode(c, t, ok) \/ SingDelNode(c, t, ok) \/ Hy2DelNode(c, t, ok)
  <2>1. t \in Live
    BY DEF DelNode, Live
  <2> QED
    BY <2>1 DEF DelNode, IInv, StageInv
<1>2. /\ nodes' = IF ok THEN [nodes EXCEPT ![t] = None] ELSE nodes
      /\ stage' = [stage EXCEPT ![t] = IF ok THEN "off" ELSE "stopped"]
      /\ UNCHANGED <<usersMap, kind, userList, failed>>
  BY DEF DelNode
<1>3. TypeOK
  BY DEF IInv
<1>4. /\ served \in [CoreNames -> [Tags -> Lists]] /\ naive \in [CoreNames -> [Tags -> Lists]]
      /\ outbound \in [CoreNames -> SUBSET Tags] /\ hy2nodes \in [CoreNames -> SUBSET Tags]
      /\ None \in Lists
  BY <1>3 DEF TypeOK, Lists
<1>5. \A d \in CoreNames, s \in Tags :
        /\ CoreType[d] # "sing" => naive[d][s] = None
        /\ CoreType[d] = "hysteria2" => served[d][s] = None
        /\ CoreType[d] # "xray" => s \notin outbound[d]
        /\ CoreType[d] # "hysteria2" => s \notin hy2nodes[d]
  BY DEF IInv, TablesInv
<1>6. \A d \in CoreNames : d # c => Absent(d, t)
  BY <1>1 DEF IInv, OneHome, Absent
<1> HIDE DEF c
<1>7. TablesFrame(t) /\ \A d \in CoreNames : (d # c \/ ok) => Absent(d, t)'
  <2>1. CASE XrayDelNode(c, t, ok)
    <3>1. PICK v \in Lists : SetServed(c, t, v) /\ (ok => v = None)
      <4>1. CASE UNCHANGED served /\ ~ok
        <5>1. SetServed(c, t, served[c][t]) /\ served[c][t] \in Lists
          BY <1>1, <1>4, <4>1 DEF SetServed
        <5> QED
          BY <4>1, <5>1
      <4> QED
        BY <1>4, <2>1, <4>1 DEF XrayDelNode
    <3>2. /\ served' \in [CoreNames -> [Tags -> Lists]] /\ served'[c][t] = v
          /\ \A d \in CoreNames, s \in Tags : d # c \/ s # t => served'[d][s] = served[d][s]
      BY <1>1, <1>4, <3>1, Pointwise DEF SetServed
    <3>3. /\ outbound' \in [CoreNames -> SUBSET Tags] /\ (ok => t \notin outbound'[c])
          /\ \A d \in CoreNames, s \in Tags : d # c \/ s # t => (s \in outbound'[d] <=> s \in outbound[d])
      BY <1>1, <1>4, <2>1 DEF XrayDelNode
    <3>4. CoreType[c] = "xray" /\ UNCHANGED <<naive, hy2nodes>>
      BY <2>1 DEF XrayDelNode
    <3>5. TablesFrame(t)
      <4>1. \A d \in CoreNames :
              /\ CoreType[d] # "sing" => naive[d][t] = None
              /\ CoreType[d] = "hysteria2" => served'[d][t] = None
              /\ CoreType[d] # "xray" => t \notin outbound'[d]
              /\ CoreType[d] # "hysteria2" => t \notin hy2nodes[d]
        BY <1>1, <1>5, <1>6, <3>2, <3>3, <3>4 DEF Absent
      <4> QED
        BY <1>1, <1>4, <3>2, <3>3, <3>4, <4>1 DEF TablesFrame
    <3> QED
      BY <1>1, <1>5, <1>6, <3>1, <3>2, <3>3, <3>4, <3>5 DEF Absent
  <2>2. CASE SingDelNode(c, t, ok)
    <3>1. PICK v \in Lists : SetServed(c, t, v) /\ (ok => v = None)
      <4>1. CASE UNCHANGED served /\ (ok => served[c][t] = None)
        <5>1. SetServed(c, t, served[c][t]) /\ served[c][t] \in Lists
          BY <1>1, <1>4, <4>1 DEF SetServed
        <5> QED
          BY <4>1, <5>1
      <4> QED
        BY <1>4, <2>2, <4>1 DEF SingDelNode
    <3>2. /\ served' \in [CoreNames -> [Tags -> Lists]] /\ served'[c][t] = v
          /\ \A d \in CoreNames, s \in Tags : d # c \/ s # t => served'[d][s] = served[d][s]
      BY <1>1, <1>4, <3>1, Pointwise DEF SetServed
    <3>3. /\ naive' \in [CoreNames -> [Tags -> Lists]] /\ naive'[c][t] = None
          /\ \A d \in CoreNames, s \in Tags : d # c \/ s # t => naive'[d][s] = naive[d][s]
      BY <1>1, <1>4, <2>2, Pointwise DEF SingDelNode, SetNaive
    <3>4. CoreType[c] = "sing" /\ UNCHANGED <<outbound, hy2nodes>>
      BY <2>2 DEF SingDelNode
    <3>5. TablesFrame(t)
      <4>1. ASSUME NEW d \in CoreNames
            PROVE  /\ CoreType[d] # "sing" => naive'[d][t] = None
                   /\ CoreType[d] = "hysteria2" => served'[d][t] = None
                   /\ CoreType[d] # "xray" => t \notin outbound[d]
                   /\ CoreType[d] # "hysteria2" => t \notin hy2nodes[d]
        <5>1. CASE d = c
          BY <1>1, <1>5, <3>3, <3>4, <5>1
        <5>2. CASE d # c
          BY <1>1, <1>6, <3>2, <3>3, <5>2 DEF Absent
        <5> QED
          BY <5>1, <5>2
      <4>2. \A d \in CoreNames, s \in Tags : s # t =>
              served'[d][s] = served[d][s] /\ naive'[d][s] = naive[d][s]
        BY <3>2, <3>3
      <4> QED
        BY <1>4, <3>2, <3>3, <3>4, <4>1, <4>2 DEF TablesFrame
    <3>6. ASSUME NEW d \in CoreNames, d # c \/ ok
          PROVE  Absent(d, t)'
      <4>1. CASE d # c
        <5>1. Absent(d, t) /\ served'[d][t] = served[d][t] /\ naive'[d][t] = naive[d][t]
          BY <1>6, <3>2, <3>3, <4>1
        <5> QED
          BY <3>4, <5>1 DEF Absent
      <4>2. CASE d = c /\ ok
        <5>1. served'[c][t] = None /\ naive'[c][t] = None
          BY <3>1, <3>2, <3>3, <4>2
        <5>2. t \notin outbound[c] /\ t \notin hy2nodes[c]
          BY <1>1, <1>5, <3>4
        <5> QED
          BY <3>4, <4>2, <5>1, <5>2 DEF Absent
      <4> QED
        BY <3>6, <4>1, <4>2
    <3> QED
      BY <3>5, <3>6
  <2>3. CASE Hy2DelNode(c, t, ok)
    BY <1>1, <1>4, <1>5, <1>6, <2>3 DEF Hy2DelNode, TablesFrame, Absent
  <2> QED
    BY <1>1, <2>1, <2>2, <2>3
<1>8. ControllersFrame(t)
  BY <1>2, <1>3, <1>7 DEF ControllersFrame, TypeOK
<1> QED
  BY <1>7, <1>8, NodeStep

-----------------------------------------------------------------------------
LEMMA NextInv == IInv /\ [Next]_vars => IInv'
<1> SUFFICES ASSUME IInv, [Next]_vars PROVE IInv'
  OBVIOUS
<1>1. CASE Next
  BY <1>1, AddNodeStep, DelNodeStep, SetUpStep, DelUsersStep, AddUsersStep DEF Next
<1>2. CASE UNCHANGED vars
  BY <1>2 DEF vars, IInv, TypeOK, TablesInv, StageInv, NaiveInv, OneHome, UsersInv, ServesList, Live
<1> QED
  BY <1>1, <1>2

LEMMA Invariance == Spec => []IInv
  BY InitInv, NextInv, PTL DEF Spec

\* core/selector.go, AddNode and DelNode of the cores: whatever the controllers
\* are reloaded to and whichever calls fail, a core has nothing of a node but
\* what the selector sends the node's calls to.
THEOREM NodesHaveOneHome == Spec => []OneHome
  BY Invariance, PTL DEF IInv

\* AddUsers, DelUsers and applyNaiveInboundLocked: until a call fails, an
\* inbound serves the users the controller believes it to.
THEOREM InboundsServeTheList == Spec => []ServesList
  BY Invariance, PTL DEF IInv

-----------------------------------------------------------------------------
\* The table of hysteria2

\* What a call that adds or deletes users does to the tables of users.
LEMMA AddTable ==
    ASSUME IInv, NEW t \in Live, NEW us, NEW ok, CoreAddUsers(nodes[t], t, us, ok)
    PROVE  /\ CoreType[nodes[t]] = "hysteria2" => usersMap' = [usersMap EXCEPT ![nodes[t]] = @ \cup us]
           /\ CoreType[nodes[t]] # "hysteria2" => usersMap' = usersMap
  BY DEF CoreAddUsers, Hy2AddUsers

LEMMA DelTable ==
    ASSUME IInv, NEW t \in Live, NEW us, NEW ok, CoreDelUsers(nodes[t], t, us, ok)
    PROVE  /\ CoreType[nodes[t]] = "hysteria2" => ok /\ usersMap' = [usersMap EXCEPT ![nodes[t]] = @ \ us]
           /\ CoreType[nodes[t]] # "hysteria2" => usersMap' = usersMap
  BY DEF CoreDelUsers, Hy2DelUsers

\* hy2/user.go: as long as no user is listed for two nodes, a user listed for
\* a hysteria2 node stays in the table that all nodes of the core share.
THEOREM ListedUsersLogIn ==
    ASSUME \A s, t \in Tags : s # t => UsersOf[s] \cap UsersOf[t] = {}
    PROVE  Spec => []ListedCanLogIn
<1>1. Init => ListedCanLogIn
  BY DEF Init, ListedCanLogIn
<1>2. IInv /\ ListedCanLogIn /\ [Next]_vars => ListedCanLogIn'
  <2> SUFFICES ASSUME IInv, ListedCanLogIn, [Next]_vars PROVE ListedCanLogIn'
    OBVIOUS
  <2>1. /\ usersMap \in [CoreNames -> SUBSET Users] /\ userList \in [Tags -> SUBSET Users]
        /\ stage \in [Tags -> {"off", "node", "up", "stopped"}]
        /\ nodes \in [Tags -> CoreNames \cup {None}]
        /\ \A t \in Tags : userList[t] \subseteq UsersOf[t]
        /\ \A t \in Tags : stage[t] \in {"node", "up"} => nodes[t] \in CoreNames
    BY DEF IInv, TypeOK, StageInv, Live
  <2>2. ASSUME NEW t \in Tags, NEW ok \in BOOLEAN, NEW k \in Kinds, AddNode(t, k, ok)
        PROVE  ListedCanLogIn'
    <3>1. /\ stage' = [stage EXCEPT ![t] = IF ok THEN "node" ELSE "stopped"]
          /\ UNCHANGED <<userList, usersMap>>
      BY <2>2 DEF AddNode, CoreAddNode, XrayAddNode, SingAddNode, Hy2AddNode, coreState
    <3>2. \A s \in Tags : s # t => nodes'[s] = nodes[s]
      BY <2>1, <2>2 DEF AddNode
    <3> QED
      BY <2>1, <3>1, <3>2 DEF ListedCanLogIn
  <2>3. ASSUME NEW t \in Tags, NEW ok \in BOOLEAN, DelNode(t, ok)
        PROVE  ListedCanLogIn'
    BY <2>1, <2>3 DEF ListedCanLogIn, DelNode
  <2>4. ASSUME NEW t \in Tags, NEW ok \in BOOLEAN, NEW list \in SUBSET UsersOf[t], SetUp(t, list, ok)
        PROVE  ListedCanLogIn'
    <3>1. t \in Live
      BY <2>4 DEF SetUp, Live
    <3>2. /\ CoreAddUsers(nodes[t], t, list, ok)
          /\ userList' = [userList EXCEPT ![t] = list]
          /\ stage' = [stage EXCEPT ![t] = "up"]
          /\ UNCHANGED nodes
      BY <2>4 DEF SetUp
    <3>3. /\ CoreType[nodes[t]] = "hysteria2" => usersMap' = [usersMap EXCEPT ![nodes[t]] = @ \cup list]
          /\ CoreType[nodes[t]] # "hysteria2" => usersMap' = usersMap
      BY <3>1, <3>2, AddTable
    <3> SUFFICES ASSUME NEW s \in Tags, stage'[s] = "up", CoreType[nodes[s]] = "hysteria2"
                 PROVE  userList'[s] \subseteq usersMap'[nodes[s]]
      BY <3>2 DEF ListedCanLogIn
    <3>4. CASE s = t
      <4>1. nodes[t] \in CoreNames
        BY <2>1, <3>1 DEF Live
      <4> QED
        BY <2>1, <3>2, <3>3, <3>4, <4>1
    <3>5. CASE s # t
      <4>1. stage[s] = "up" /\ userList'[s] = userList[s] /\ nodes[s] \in CoreNames
        BY <2>1, <3>2, <3>5
      <4>2. usersMap[nodes[s]] \subseteq usersMap'[nodes[s]]
        BY <2>1, <3>3, <4>1
      <4> QED
        BY <4>1, <4>2 DEF ListedCanLogIn
    <3> QED
      BY <3>4, <3>5
  <2>5. ASSUME NEW t \in Tags, NEW ok \in BOOLEAN, NEW list \in SUBSET UsersOf[t], DelUsers(t, list, ok)
        PROVE  ListedCanLogIn'
    <3> DEFINE gone == userList[t] \ list
    <3>1. t \in Live
      BY <2>5 DEF DelUsers, Live
    <3>2. /\ CoreDelUsers(nodes[t], t, gone, ok)
          /\ userList' = [userList EXCEPT ![t] = IF ok THEN list \cap @ ELSE @]
          /\ UNCHANGED <<nodes, stage>>
      BY <2>1, <2>5 DEF DelUsers
    <3>3. /\ CoreType[nodes[t]] = "hysteria2" => ok /\ usersMap' = [usersMap EXCEPT ![nodes[t]] = @ \ gone]
          /\ CoreType[nodes[t]] # "hysteria2" => usersMap' = usersMap
      <4> HIDE DEF gone
      <4> QED
        BY <3>1, <3>2, DelTable
    <3>4. \A s \in Tags : s # t => userList[s] \cap gone = {}
      BY <2>1
    <3>5. gone \cap list = {}
      OBVIOUS
    <3> HIDE DEF gone
    <3> QED
      BY <2>1, <3>2, <3>3, <3>4, <3>5 DEF ListedCanLogIn
  <2>6. ASSUME NEW t \in Tags, NEW ok \in BOOLEAN, NEW list \in SUBSET UsersOf[t], AddUsers(t, list, ok)
        PROVE  ListedCanLogIn'
    <3> DEFINE new == list \ userList[t]
    <3>1. t \in Live
      BY <2>6 DEF AddUsers, Live
    <3>2. /\ CoreAddUsers(nodes[t], t, new, ok) /\ stage[t] = "up"
          /\ userList' = [userList EXCEPT ![t] = IF ok THEN list ELSE @]
          /\ UNCHANGED <<nodes, stage>>
      BY <2>1, <2>6 DEF AddUsers
    <3>3. /\ CoreType[nodes[t]] = "hysteria2" => usersMap' = [usersMap EXCEPT ![nodes[t]] = @ \cup new]
          /\ CoreType[nodes[t]] # "hysteria2" => usersMap' = usersMap
      <4> HIDE DEF new
      <4> QED
        BY <3>1, <3>2, AddTable
    <3>4. list \subseteq userList[t] \cup new
      OBVIOUS
    <3> HIDE DEF new
    <3> QED
      BY <2>1, <3>2, <3>3, <3>4 DEF ListedCanLogIn
  <2>7. CASE UNCHANGED vars
    BY <2>7 DEF vars, ListedCanLogIn
  <2> QED
    BY <2>2, <2>3, <2>4, <2>5, <2>6, <2>7 DEF Next
<1> QED
  BY <1>1, <1>2, Invariance, PTL DEF Spec
=============================================================================
