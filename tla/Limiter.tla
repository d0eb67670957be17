------------------------------- MODULE Limiter -------------------------------
(***************************************************************************)
(* limiter/limiter.go: the limits of one node.  CheckLimit decides on      *)
(* every new connection of a user; the controller changes the users, the   *)
(* alive list and the dynamic speed limits; the reports empty the window   *)
(* of online devices.  Every call is one action here.                      *)
(***************************************************************************)
EXTENDS ConnCount

CONSTANTS
    UserInfos,       \* the panel's settings of a user: [speed, device]
    NotListed,       \* a user the panel does not list
    NoInfo,          \* no entry in UserLimitInfo
    NoUser,          \* no entry in OldUserOnline
    nodeSpeed,       \* Limiter.SpeedLimit, 0 for none
    DynamicSpeeds,   \* the limits the speed checker may impose
    DeviceWindow,    \* whether GetOnlineDevice is called: xray has its own report
    Strangers,       \* whether a connection of an unlisted user can arrive
    Releases,        \* whether the core calls DelConnCount: sing and hy2 never do
    MaxAlive,        \* bound on the alive counts of the panel
    Conns,           \* the TCP connections that may be open at a time
    NoConn           \* a connection that is not open

\* A dynamic limit never expires ("never": there is none), has not expired
\* yet ("later") or has expired ("past").
Expiries == {"never", "later", "past"}

LimitInfos == [speed : Nat, device : Nat, dynamic : Nat, expire : Expiries]

ASSUME LimiterAssumption ==
    /\ UserInfos \subseteq [speed : Nat, device : Nat]
    /\ NotListed \notin UserInfos
    /\ NoInfo \notin LimitInfos
    /\ NoUser \notin Users
    /\ nodeSpeed \in Nat
    /\ DynamicSpeeds \subseteq Nat \ {0}
    /\ DeviceWindow \in BOOLEAN
    /\ Strangers \in BOOLEAN
    /\ Releases \in BOOLEAN
    /\ MaxAlive \in Nat
    /\ NoConn \notin Users \X IPs
    /\ IsFiniteSet(Conns) /\ IsFiniteSet(IPs)

VARIABLES
    UserLimitInfo,   \* the settings and the dynamic limit of each user
    UserOnlineIP,    \* the addresses seen in the current window, {} for no entry
    OldUserOnline,   \* the user each address belonged to in an earlier window
    AliveList,       \* the online addresses the panel counts for each user
    SpeedLimiter,    \* the limit of each user's cached bucket, 0 for no bucket
    ConnLimiter,     \* the table of ConnCount
    conn,            \* the user and the address of each open TCP connection
    userList         \* the panel's list as the controller last passed it on

vars == <<UserLimitInfo, UserOnlineIP, OldUserOnline, AliveList, SpeedLimiter,
          ConnLimiter, conn, userList>>

Listed(l) == {u \in Users : l[u] # NotListed}

NewInfo(i) == [speed |-> i.speed, device |-> i.device, dynamic |-> 0, expire |-> "never"]

\* determineSpeedLimit: the smaller limit, where 0 is none.
determineSpeedLimit(a, b) == IF a = 0 \/ (b # 0 /\ b < a) THEN b ELSE a

-----------------------------------------------------------------------------
\* AddLimiter, for the list the controller starts with.
AddLimiter(list, alive) ==
    /\ UserLimitInfo = [u \in Users |-> IF list[u] = NotListed THEN NoInfo ELSE NewInfo(list[u])]
    /\ UserOnlineIP = [u \in Users |-> {}]
    /\ OldUserOnline = [a \in IPs |-> NoUser]
    /\ AliveList = alive
    /\ SpeedLimiter = [u \in Users |-> 0]
    /\ ConnLimiter = NewConnLimiter
    /\ conn = [c \in Conns |-> NoConn]
    /\ userList = list

Lists  == [Users -> UserInfos \cup {NotListed}]
Alives == [Users -> 0..MaxAlive]

Init == \E list \in Lists, alive \in Alives :
          Listed(list) # {} /\ AddLimiter(list, alive)

-----------------------------------------------------------------------------
\* CheckLimit

HasInfo(u) == UserLimitInfo[u] # NoInfo
PastDue(u) == UserLimitInfo[u].expire = "past"

\* Fault: the entry of any user goes with the dynamic limit.
Settled_Drops(u) == IF PastDue(u) THEN NoInfo ELSE UserLimitInfo[u]

\* The entry CheckLimit leaves: an expired dynamic limit is taken back, and
\* with it the whole entry of a user without a limit of their own.
Settled(u) ==
    LET i == UserLimitInfo[u]
    IN IF ~PastDue(u) THEN i
       ELSE IF i.speed # 0 THEN NewInfo(i)
       ELSE NoInfo

UserSpeed(u) ==
    LET i == UserLimitInfo[u]
    IN IF PastDue(u) THEN i.speed ELSE determineSpeedLimit(i.speed, i.dynamic)

\* The device limit of a user refuses an address that is not in the current
\* window once the panel counts enough of them.  The first address of a window
\* passes when an earlier window had it, whoever it belonged to.
DeviceRefuses(u, a) ==
    LET limit == UserLimitInfo[u].device
    IN /\ limit > 0
       /\ limit <= AliveList[u]
       /\ a \notin UserOnlineIP[u]
       /\ UserOnlineIP[u] = {} => OldUserOnline[a] = NoUser

\* AddConnCount refuses, or counts the connection of a user it does not know.
RefusedAtOnce(u, a, isTcp) ==
    /\ AddRefuses(ConnLimiter, u, a) \/ ~HasInfo(u)
    /\ ConnLimiter' = AddConnCount(ConnLimiter, u, a, isTcp)
    /\ UNCHANGED <<UserLimitInfo, UserOnlineIP, OldUserOnline, SpeedLimiter, conn>>

\* The device limit refuses; what AddConnCount has counted stays counted.
RefusedDevice(u, a, isTcp, noSSUDP) ==
    /\ ~AddRefuses(ConnLimiter, u, a) /\ HasInfo(u)
    /\ noSSUDP /\ DeviceRefuses(u, a)
    /\ ConnLimiter' = AddConnCount(ConnLimiter, u, a, isTcp)
    /\ UserLimitInfo' = [UserLimitInfo EXCEPT ![u] = Settled(u)]
    /\ UNCHANGED <<UserOnlineIP, OldUserOnline, SpeedLimiter, conn>>

\* The connection is let in, with the bucket of the user's present limit.
Accepted(c, u, a, isTcp, noSSUDP) ==
    /\ ~AddRefuses(ConnLimiter, u, a) /\ HasInfo(u)
    /\ noSSUDP => ~DeviceRefuses(u, a)
    /\ ConnLimiter' = AddConnCount(ConnLimiter, u, a, isTcp)
    /\ UserLimitInfo' = [UserLimitInfo EXCEPT ![u] = Settled(u)]
    /\ IF noSSUDP
         THEN /\ UserOnlineIP' = [UserOnlineIP EXCEPT ![u] = @ \cup {a}]
              /\ OldUserOnline' = IF UserOnlineIP[u] = {} /\ OldUserOnline[a] = u
                                    THEN [OldUserOnline EXCEPT ![a] = NoUser]
                                    ELSE OldUserOnline
         ELSE UNCHANGED <<UserOnlineIP, OldUserOnline>>
    /\ SpeedLimiter' = [SpeedLimiter EXCEPT ![u] = determineSpeedLimit(nodeSpeed, UserSpeed(u))]
    /\ conn' = IF isTcp THEN [conn EXCEPT ![c] = <<u, a>>] ELSE conn

\* A bound on the table keeps the entries finite that nothing takes away.
CheckLimit(c, u, a, isTcp, noSSUDP) ==
    /\ Strangers \/ userList[u] # NotListed
    /\ conn[c] = NoConn
    /\ ConnLimiter.ip[u][a] <= 2 * Cardinality(Conns)
    /\ \/ RefusedAtOnce(u, a, isTcp)
       \/ RefusedDevice(u, a, isTcp, noSSUDP)
       \/ Accepted(c, u, a, isTcp, noSSUDP)
    /\ UNCHANGED <<AliveList, userList>>

\* A TCP connection that was let in ends: routedDispatch's deferred call.
CloseConn(c) ==
    /\ conn[c] # NoConn
    /\ conn' = [conn EXCEPT ![c] = NoConn]
    /\ ConnLimiter' = IF Releases THEN DelConnCount(ConnLimiter, conn[c][1], conn[c][2])
                                   ELSE ConnLimiter
    /\ UNCHANGED <<UserLimitInfo, UserOnlineIP, OldUserOnline, AliveList, SpeedLimiter, userList>>

-----------------------------------------------------------------------------
\* What the controller calls

\* The users compareUserList finds changed are deleted, then added again.
Changed(list) == {u \in Users : list[u] # userList[u]}
Deleted(list) == {u \in Changed(list) : userList[u] # NotListed}

\* Fault: a deleted user keeps the entry.
UpdateUser_KeepsInfo(list) ==
    /\ Listed(list) # {} /\ Changed(list) # {}
    /\ UserLimitInfo' = [u \in Users |->
         IF u \notin Changed(list) \/ list[u] = NotListed THEN UserLimitInfo[u]
         ELSE NewInfo(list[u])]
    /\ UserOnlineIP' = [u \in Users |-> IF u \in Deleted(list) THEN {} ELSE UserOnlineIP[u]]
    /\ SpeedLimiter' = [u \in Users |-> IF u \in Deleted(list) THEN 0 ELSE SpeedLimiter[u]]
    /\ AliveList' = [u \in Users |-> IF u \in Deleted(list) THEN 0 ELSE AliveList[u]]
    /\ userList' = list
    /\ UNCHANGED <<OldUserOnline, ConnLimiter, conn>>

UpdateUser(list) ==
    /\ Listed(list) # {} /\ Changed(list) # {}
    /\ UserLimitInfo' = [u \in Users |->
         IF u \notin Changed(list) THEN UserLimitInfo[u]
         ELSE IF list[u] = NotListed THEN NoInfo ELSE NewInfo(list[u])]
    /\ UserOnlineIP' = [u \in Users |-> IF u \in Deleted(list) THEN {} ELSE UserOnlineIP[u]]
    /\ SpeedLimiter' = [u \in Users |-> IF u \in Deleted(list) THEN 0 ELSE SpeedLimiter[u]]
    /\ AliveList' = [u \in Users |-> IF u \in Deleted(list) THEN 0 ELSE AliveList[u]]
    /\ userList' = list
    /\ UNCHANGED <<OldUserOnline, ConnLimiter, conn>>

\* Fault: the bucket of the faster limit stays.
UpdateDynamicSpeedLimit_KeepsBucket(u, limit) ==
    /\ HasInfo(u)
    /\ UserLimitInfo' = [UserLimitInfo EXCEPT ![u].dynamic = limit, ![u].expire = "later"]
    /\ UNCHANGED <<UserOnlineIP, OldUserOnline, AliveList, SpeedLimiter, ConnLimiter, conn, userList>>

\* The speed checker limits a user whose traffic reached the threshold.
UpdateDynamicSpeedLimit(u, limit) ==
    /\ HasInfo(u)
    /\ UserLimitInfo' = [UserLimitInfo EXCEPT ![u].dynamic = limit, ![u].expire = "later"]
    /\ SpeedLimiter' = [SpeedLimiter EXCEPT ![u] = 0]
    /\ UNCHANGED <<UserOnlineIP, OldUserOnline, AliveList, ConnLimiter, conn, userList>>

SetAliveList(alive) ==
    /\ AliveList' = alive
    /\ UNCHANGED <<UserLimitInfo, UserOnlineIP, OldUserOnline, SpeedLimiter, ConnLimiter,
                   conn, userList>>

\* GetOnlineDevice moves the window into OldUserOnline.  An address that two
\* users share goes to the one sync.Map's Range meets last.
GetOnlineDevice ==
    /\ DeviceWindow
    /\ UserOnlineIP # [u \in Users |-> {}]
    /\ LET owners(a) == {u \in Users : a \in UserOnlineIP[u]}
       IN OldUserOnline' \in {f \in [IPs -> Users \cup {NoUser}] :
            \A a \in IPs : IF owners(a) = {} THEN f[a] = OldUserOnline[a] ELSE f[a] \in owners(a)}
    /\ UserOnlineIP' = [u \in Users |-> {}]
    /\ UNCHANGED <<UserLimitInfo, AliveList, SpeedLimiter, ConnLimiter, conn, userList>>

ClearOnline ==
    /\ ConnLimiter' = ClearOnlineIP(ConnLimiter)
    /\ UNCHANGED <<UserLimitInfo, UserOnlineIP, OldUserOnline, AliveList, SpeedLimiter,
                   conn, userList>>

-----------------------------------------------------------------------------
\* Time passes: a dynamic limit expires; an address was last seen longer than
\* the TTL ago.

Expire(u) ==
    /\ HasInfo(u) /\ UserLimitInfo[u].expire = "later"
    /\ UserLimitInfo' = [UserLimitInfo EXCEPT ![u].expire = "past"]
    /\ UNCHANGED <<UserOnlineIP, OldUserOnline, AliveList, SpeedLimiter, ConnLimiter, conn, userList>>

Age(u, a) ==
    /\ ~realtime
    /\ ConnLimiter.ip[u][a] = Recent
    /\ ConnLimiter' = [ConnLimiter EXCEPT !.ip[u][a] = Expired]
    /\ UNCHANGED <<UserLimitInfo, UserOnlineIP, OldUserOnline, AliveList, SpeedLimiter, conn, userList>>

-----------------------------------------------------------------------------
Next ==
    \/ \E c \in Conns, u \in Users, a \in IPs, isTcp, noSSUDP \in BOOLEAN :
         CheckLimit(c, u, a, isTcp, noSSUDP)
    \/ \E c \in Conns : CloseConn(c)
    \/ \E u \in Users, a \in IPs : Age(u, a)
    \/ \E u \in Users : Expire(u) \/ \E limit \in DynamicSpeeds : UpdateDynamicSpeedLimit(u, limit)
    \/ \E list \in Lists : UpdateUser(list)
    \/ \E alive \in Alives : SetAliveList(alive)
    \/ GetOnlineDevice
    \/ ClearOnline

Spec == Init /\ [][Next]_vars

-----------------------------------------------------------------------------
\* Properties

TypeOK ==
    /\ UserLimitInfo \in [Users -> LimitInfos \cup {NoInfo}]
    /\ UserOnlineIP \in [Users -> SUBSET IPs]
    /\ OldUserOnline \in [IPs -> Users \cup {NoUser}]
    /\ AliveList \in Alives
    /\ SpeedLimiter \in [Users -> Nat]
    /\ ConnLimiter \in [count : [Users -> Nat], ip : [Users -> [IPs -> Nat]]]
    /\ conn \in [Conns -> (Users \X IPs) \cup {NoConn}]
    /\ userList \in Lists

OpenOf(u)    == {c \in Conns : conn[c] # NoConn /\ conn[c][1] = u}
OpenAt(u, a) == {c \in Conns : conn[c] = <<u, a>>}

\* ConnLimit bounds the TCP connections of a user that are open at a time,
\* whatever is refused, closed, cleared, deleted or listed again in between.
EnforcesConnLimit ==
    connLimit # 0 => \A u \in Users : Cardinality(OpenOf(u)) <= connLimit

\* A realtime limiter has the address of every open TCP connection in its
\* table, with two for each of them, so that no clearing forgets it.
OpenIsCounted ==
    realtime => \A u \in Users, a \in IPs :
                  ConnLimiter.ip[u][a] >= Tcp * Cardinality(OpenAt(u, a))

\* IPLimit bounds the addresses of a user that connections are open from.
EnforcesIPLimit ==
    realtime /\ ipLimit # 0 =>
      \A u \in Users : Cardinality({a \in IPs : OpenAt(u, a) # {}}) <= ipLimit

\* IPLimit bounds the addresses the limiter has on record for a user.
RecordsWithinIPLimit ==
    ipLimit # 0 => \A u \in Users : Cardinality(OnlineIPs(ConnLimiter, u)) <= ipLimit

\* Only open connections count against ConnLimit: the count a user is refused
\* by is the number of connections they have.
CountsOpenOnly ==
    connLimit # 0 => \A u \in Users : ConnLimiter.count[u] = Cardinality(OpenOf(u))

\* An address is on record with two for each open connection and at most one
\* more, for packet traffic, which the next clearing drops.
RecordsOpenOnly ==
    realtime /\ ipLimit # 0 =>
      \A u \in Users, a \in IPs :
        ConnLimiter.ip[u][a] - Tcp * Cardinality(OpenAt(u, a)) \in {0, Packet}

\* What CheckLimit goes by is what the panel lists: no deleted user is left
\* in UserLimitInfo, and no changed one with settings of before.
InfoIsListed ==
    \A u \in Users : HasInfo(u) =>
      /\ userList[u] # NotListed
      /\ UserLimitInfo[u].speed = userList[u].speed
      /\ UserLimitInfo[u].device = userList[u].device

\* A user the panel lists is known to CheckLimit, which refuses anyone else.
ListedIsServed == \A u \in Users : userList[u] # NotListed => HasInfo(u)

\* The same for the users with a speed limit of their own.
LimitedIsServed ==
    \A u \in Users : userList[u] # NotListed /\ userList[u].speed # 0 => HasInfo(u)

\* A cached bucket is never faster than its user may be now: whatever tightens
\* a limit, the speed checker or the panel's list, drops the bucket of before.
\* (A dynamic limit that was taken back may leave a slower one.)
BucketIsNotFaster ==
    \A u \in Users : SpeedLimiter[u] # 0 /\ HasInfo(u) =>
      LET limit == determineSpeedLimit(nodeSpeed, UserSpeed(u))
      IN limit = 0 \/ SpeedLimiter[u] <= limit

\* A deleted user keeps no device in the window and no bucket.
DeletedIsForgotten ==
    \A u \in Users : userList[u] = NotListed => UserOnlineIP[u] = {} /\ SpeedLimiter[u] = 0

\* Once the panel counts as many devices as a user may have, no connection
\* brings in an address the user did not use in this window or an earlier one.
NoNewDevice ==
    [][\A u \in Users, a \in IPs :
         a \in UserOnlineIP'[u] \ UserOnlineIP[u] =>
           LET limit == UserLimitInfo[u].device
           IN limit = 0 \/ AliveList[u] < limit \/ OldUserOnline[a] = u]_vars
=============================================================================
