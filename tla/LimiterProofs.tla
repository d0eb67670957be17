---------------------------- MODULE LimiterProofs ----------------------------
(***************************************************************************)
(* Proofs about Limiter: ConnLimit and IPLimit hold for any number of      *)
(* users, addresses and connections, and any limits.                       *)
(***************************************************************************)
EXTENDS Limiter, FiniteSetTheorems, TLAPS

Tables == [count : [Users -> Nat], ip : [Users -> [IPs -> Nat]]]
Opens  == [Conns -> (Users \X IPs) \cup {NoConn}]

-----------------------------------------------------------------------------
\* The operators of ConnCount

\* AddConnCount never takes a count beyond the limit, adds one for a TCP
\* connection it lets in, and takes nothing away.
LEMMA AddCounts ==
    ASSUME NEW t \in Tables, NEW u \in Users, NEW a \in IPs, NEW isTcp \in BOOLEAN,
           connLimit # 0
    PROVE  LET n == AddConnCount(t, u, a, isTcp).count
           IN /\ n \in [Users -> Nat]
              /\ \A v \in Users : t.count[v] <= n[v]
              /\ \A v \in Users : t.count[v] <= connLimit => n[v] <= connLimit
              /\ isTcp /\ ~AddRefuses(t, u, a) => n[u] = t.count[u] + 1
<1> USE ConnCountAssumption
    DEF Tables, AddConnCount, AddRefuses, Counted, OverConnLimit
<1>1. CASE OverConnLimit(t, u)
  BY <1>1
<1>2. CASE ~OverConnLimit(t, u) /\ OverIPLimit(t, u, a)
  BY <1>2
<1>3. CASE ~OverConnLimit(t, u) /\ ~OverIPLimit(t, u, a)
  BY <1>3
<1> QED
  BY <1>1, <1>2, <1>3

\* Counting is an update of one entry of count.
LEMMA CountedTable ==
    ASSUME NEW t \in Tables, NEW u \in Users, NEW isTcp
    PROVE  Counted(t, u, isTcp).ip = t.ip /\ Counted(t, u, isTcp) \in Tables
<1>1. CASE connLimit # 0 /\ isTcp
  <2>1. Counted(t, u, isTcp) = [t EXCEPT !.count = [t.count EXCEPT ![u] = @ + 1]]
    BY <1>1 DEF Counted, Tables
  <2>2. [t.count EXCEPT ![u] = @ + 1] \in [Users -> Nat]
    BY DEF Tables
  <2> QED
    BY <2>1, <2>2 DEF Tables
<1>2. CASE ~(connLimit # 0 /\ isTcp)
  BY <1>2 DEF Counted
<1> QED
  BY <1>1, <1>2

\* What AddConnCount stores for an address is not less than before, and two
\* more for a TCP connection that a realtime limiter lets in.
LEMMA AddRecords ==
    ASSUME NEW t \in Tables, NEW u \in Users, NEW a \in IPs, NEW isTcp \in BOOLEAN
    PROVE  LET n == AddConnCount(t, u, a, isTcp).ip
           IN /\ n \in [Users -> [IPs -> Nat]]
              /\ realtime => \A v \in Users, x \in IPs : t.ip[v][x] <= n[v][x]
              /\ realtime /\ isTcp /\ ~AddRefuses(t, u, a) => n[u][a] >= t.ip[u][a] + Tcp
              /\ \A v \in Users, x \in IPs : <<v, x>> # <<u, a>> => n[v][x] = t.ip[v][x]
              /\ AddRefuses(t, u, a) => n = t.ip
<1>1. Counted(t, u, isTcp).ip = t.ip /\ Counted(t, u, isTcp) \in Tables
  BY CountedTable
<1>2. ASSUME NEW v \in Nat PROVE /\ Touched(v, isTcp) \in Nat
                                 /\ realtime => v <= Touched(v, isTcp)
                                 /\ realtime /\ isTcp => Touched(v, isTcp) = v + Tcp
  BY ConnCountAssumption DEF Touched, Recent, Tcp, Packet
<1>3. CASE AddRefuses(t, u, a)
  BY <1>1, <1>3 DEF AddRefuses, AddConnCount, Tables
<1>4. CASE ~AddRefuses(t, u, a)
  <2>1. AddConnCount(t, u, a, isTcp).ip = [t.ip EXCEPT ![u][a] = Touched(@, isTcp)]
    BY <1>1, <1>4 DEF AddRefuses, AddConnCount, Tables
  <2> QED
    BY <1>2, <1>4, <2>1 DEF Tables, Tcp
<1> QED
  BY <1>3, <1>4

\* The table AddConnCount leaves is one.
LEMMA AddTable ==
    ASSUME NEW t \in Tables, NEW u \in Users, NEW a \in IPs, NEW isTcp \in BOOLEAN
    PROVE  AddConnCount(t, u, a, isTcp) \in Tables
<1>1. Counted(t, u, isTcp) \in Tables
  BY CountedTable
<1>2. \A v \in Nat : Touched(v, isTcp) \in Nat
  BY ConnCountAssumption DEF Touched, Recent, Tcp, Packet
<1>3. ASSUME NEW s \in Tables
      PROVE  [s EXCEPT !.ip[u][a] = Touched(@, isTcp)] \in Tables
  <2>1. [s.ip EXCEPT ![u][a] = Touched(@, isTcp)] \in [Users -> [IPs -> Nat]]
    BY <1>2 DEF Tables
  <2>2. [s EXCEPT !.ip[u][a] = Touched(@, isTcp)]
          = [s EXCEPT !.ip = [s.ip EXCEPT ![u][a] = Touched(@, isTcp)]]
    BY DEF Tables
  <2> QED
    BY <2>1, <2>2 DEF Tables
<1> QED
  BY <1>1, <1>3 DEF AddConnCount

\* DelConnCount takes away what AddConnCount added for a TCP connection.
LEMMA DelTable ==
    ASSUME NEW t \in Tables, NEW u \in Users, NEW a \in IPs,
           realtime => t.ip[u][a] >= Tcp
    PROVE  LET n == DelConnCount(t, u, a)
           IN /\ n \in Tables
              /\ \A v \in Users : n.count[v] <= t.count[v]
              /\ n.count[u] >= t.count[u] - 1
              /\ \A v \in Users : v # u => n.count[v] = t.count[v]
              /\ \A v \in Users, x \in IPs : n.ip[v][x] <= t.ip[v][x]
              /\ \A v \in Users, x \in IPs :
                   n.ip[v][x] >= IF <<v, x>> = <<u, a>> THEN t.ip[v][x] - Tcp ELSE t.ip[v][x]
<1>1. CASE ~realtime
  BY <1>1 DEF DelConnCount, Tables, Tcp
<1>2. CASE realtime
  <2> DEFINE n == DelConnCount(t, u, a)
  <2>1. n.count = IF connLimit # 0 /\ t.count[u] # 0 THEN [t.count EXCEPT ![u] = @ - 1] ELSE t.count
    BY <1>2 DEF DelConnCount
  <2>2. n.ip = IF ipLimit # 0 /\ t.ip[u][a] # 0 THEN [t.ip EXCEPT ![u][a] = @ - Tcp] ELSE t.ip
    BY <1>2 DEF DelConnCount
  <2>3. n = [count |-> n.count, ip |-> n.ip]
    BY <1>2 DEF DelConnCount
  <2>4. /\ n.count \in [Users -> Nat]
        /\ \A v \in Users : n.count[v] <= t.count[v]
        /\ n.count[u] >= t.count[u] - 1
        /\ \A v \in Users : v # u => n.count[v] = t.count[v]
    <3>1. t.count \in [Users -> Nat]
      BY DEF Tables
    <3>2. CASE connLimit # 0 /\ t.count[u] # 0
      <4>1. t.count[u] \in Nat /\ t.count[u] - 1 \in Nat
        BY <3>1, <3>2
      <4>2. n.count = [t.count EXCEPT ![u] = t.count[u] - 1]
        BY <2>1, <3>2
      <4> HIDE DEF n
      <4> QED
        BY <3>1, <4>1, <4>2
    <3>3. CASE ~(connLimit # 0 /\ t.count[u] # 0)
      <4>1. n.count = t.count
        BY <2>1, <3>3
      <4> HIDE DEF n
      <4> QED
        BY <3>1, <4>1
    <3> QED
      BY <3>2, <3>3
  <2>5. /\ n.ip \in [Users -> [IPs -> Nat]]
        /\ \A v \in Users, x \in IPs : n.ip[v][x] <= t.ip[v][x]
        /\ \A v \in Users, x \in IPs :
             n.ip[v][x] >= IF <<v, x>> = <<u, a>> THEN t.ip[v][x] - Tcp ELSE t.ip[v][x]
    BY <1>2, <2>2 DEF Tables, Tcp
  <2> HIDE DEF n
  <2>6. n \in Tables
    BY <2>3, <2>4, <2>5 DEF Tables
  <2> QED
    BY <2>4, <2>5, <2>6 DEF n
<1> QED
  BY <1>1, <1>2, ConnCountAssumption

\* ClearOnlineIP keeps every address that a TCP connection is counted for.
LEMMA ClearTable ==
    ASSUME NEW t \in Tables
    PROVE  LET n == ClearOnlineIP(t)
           IN /\ n \in Tables /\ n.count = t.count
              /\ \A v \in Users, x \in IPs : n.ip[v][x] <= t.ip[v][x]
              /\ realtime => \A v \in Users, x \in IPs : t.ip[v][x] >= Tcp => n.ip[v][x] = t.ip[v][x]
  BY ConnCountAssumption DEF ClearOnlineIP, Tables, Tcp, Packet, Expired

-----------------------------------------------------------------------------
\* What a step does to the table and the connections

\* CheckLimit for connection c of user u from address a, let in or not.
Adds(c, u, a, isTcp) ==
    /\ conn[c] = NoConn
    /\ ConnLimiter' = AddConnCount(ConnLimiter, u, a, isTcp)
    /\ \/ UNCHANGED conn
       \/ /\ isTcp /\ ~AddRefuses(ConnLimiter, u, a)
          /\ conn' = [conn EXCEPT ![c] = <<u, a>>]

Closes(c) ==
    /\ conn[c] # NoConn
    /\ conn' = [conn EXCEPT ![c] = NoConn]
    /\ ConnLimiter' \in {ConnLimiter, DelConnCount(ConnLimiter, conn[c][1], conn[c][2])}

Ages(u, a) ==
    /\ ~realtime
    /\ ConnLimiter' = [ConnLimiter EXCEPT !.ip[u][a] = Expired]
    /\ UNCHANGED conn

TableStep ==
    \/ \E c \in Conns, u \in Users, a \in IPs, isTcp \in BOOLEAN : Adds(c, u, a, isTcp)
    \/ \E c \in Conns : Closes(c)
    \/ \E u \in Users, a \in IPs : Ages(u, a) /\ ConnLimiter.ip[u][a] = Recent
    \/ ConnLimiter' = ClearOnlineIP(ConnLimiter) /\ UNCHANGED conn
    \/ UNCHANGED <<ConnLimiter, conn>>

\* Every step is one of these for the table and the connections.
LEMMA StepsOfTable == [Next]_vars => TableStep
<1> SUFFICES ASSUME [Next]_vars PROVE TableStep
  OBVIOUS
<1>1. ASSUME NEW c \in Conns, NEW u \in Users, NEW a \in IPs,
             NEW isTcp \in BOOLEAN, NEW noSSUDP \in BOOLEAN,
             CheckLimit(c, u, a, isTcp, noSSUDP)
      PROVE  TableStep
  <2>1. Adds(c, u, a, isTcp)
    BY <1>1 DEF CheckLimit, RefusedAtOnce, RefusedDevice, Accepted, Adds
  <2> QED
    BY <2>1 DEF TableStep
<1>2. ASSUME NEW c \in Conns, CloseConn(c) PROVE TableStep
  <2>1. Closes(c)
    BY <1>2 DEF CloseConn, Closes
  <2> QED
    BY <2>1 DEF TableStep
<1>3. ASSUME NEW u \in Users, NEW a \in IPs, Age(u, a) PROVE TableStep
  BY <1>3 DEF Age, Ages, TableStep
<1>4. ASSUME NEW u \in Users, Expire(u) PROVE TableStep
  BY <1>4 DEF Expire, TableStep
<1>5. ASSUME NEW u \in Users, NEW limit, UpdateDynamicSpeedLimit(u, limit) PROVE TableStep
  BY <1>5 DEF UpdateDynamicSpeedLimit, TableStep
<1>6. ASSUME NEW list, UpdateUser(list) PROVE TableStep
  BY <1>6 DEF UpdateUser, TableStep
<1>7. ASSUME NEW alive, SetAliveList(alive) PROVE TableStep
  BY <1>7 DEF SetAliveList, TableStep
<1>8. CASE GetOnlineDevice
  BY <1>8 DEF GetOnlineDevice, TableStep
<1>9. CASE ClearOnline
  BY <1>9 DEF ClearOnline, TableStep
<1>10. CASE UNCHANGED vars
  BY <1>10 DEF vars, TableStep
<1> QED
  BY <1>1, <1>2, <1>3, <1>4, <1>5, <1>6, <1>7, <1>8, <1>9, <1>10 DEF Next

-----------------------------------------------------------------------------
\* The connections of a user grow and shrink by one.

OpenOfBy(f, u)    == {c \in Conns : f[c] # NoConn /\ f[c][1] = u}
OpenAtBy(f, u, a) == {c \in Conns : f[c] = <<u, a>>}

\* The open connections are finitely many.
LEMMA OpensAreFinite ==
    ASSUME NEW f
    PROVE  /\ \A u : IsFiniteSet(OpenOfBy(f, u)) /\ Cardinality(OpenOfBy(f, u)) \in Nat
           /\ \A u, a : IsFiniteSet(OpenAtBy(f, u, a)) /\ Cardinality(OpenAtBy(f, u, a)) \in Nat
  BY LimiterAssumption, FS_Subset, FS_CardinalityType DEF OpenOfBy, OpenAtBy

\* One more when a connection opens.
LEMMA OpenOneMore ==
    ASSUME conn \in Opens, NEW c \in Conns, conn[c] = NoConn,
           NEW u \in Users, NEW a \in IPs,
           conn' = [conn EXCEPT ![c] = <<u, a>>]
    PROVE  /\ conn' \in Opens
           /\ Cardinality(OpenOfBy(conn', u)) = Cardinality(OpenOfBy(conn, u)) + 1
           /\ \A v \in Users : v # u => OpenOfBy(conn', v) = OpenOfBy(conn, v)
           /\ Cardinality(OpenAtBy(conn', u, a)) = Cardinality(OpenAtBy(conn, u, a)) + 1
           /\ \A v \in Users, x \in IPs :
                <<v, x>> # <<u, a>> => OpenAtBy(conn', v, x) = OpenAtBy(conn, v, x)
<1>1. NoConn \notin Users \X IPs
  BY LimiterAssumption
<1>2. conn' \in Opens
  BY DEF Opens
<1>3. OpenOfBy(conn', u) = OpenOfBy(conn, u) \cup {c} /\ c \notin OpenOfBy(conn, u)
  BY <1>1 DEF OpenOfBy, Opens
<1>4. OpenAtBy(conn', u, a) = OpenAtBy(conn, u, a) \cup {c} /\ c \notin OpenAtBy(conn, u, a)
  BY <1>1 DEF OpenAtBy, Opens
<1>5. \A v \in Users : v # u => OpenOfBy(conn', v) = OpenOfBy(conn, v)
  BY <1>1 DEF OpenOfBy, Opens
<1>6. \A v \in Users, x \in IPs : <<v, x>> # <<u, a>> => OpenAtBy(conn', v, x) = OpenAtBy(conn, v, x)
  BY <1>1 DEF OpenAtBy, Opens
<1>7. IsFiniteSet(OpenOfBy(conn, u)) /\ IsFiniteSet(OpenAtBy(conn, u, a))
  BY OpensAreFinite
<1>8. Cardinality(OpenOfBy(conn, u) \cup {c}) = Cardinality(OpenOfBy(conn, u)) + 1
  BY <1>3, <1>7, FS_AddElement
<1>9. Cardinality(OpenAtBy(conn, u, a) \cup {c}) = Cardinality(OpenAtBy(conn, u, a)) + 1
  BY <1>4, <1>7, FS_AddElement
<1> QED
  BY <1>2, <1>3, <1>4, <1>5, <1>6, <1>8, <1>9

\* One less when a connection closes.
LEMMA OpenOneLess ==
    ASSUME conn \in Opens, NEW c \in Conns, conn[c] # NoConn,
           NEW u \in Users, NEW a \in IPs, conn[c] = <<u, a>>,
           conn' = [conn EXCEPT ![c] = NoConn]
    PROVE  /\ conn' \in Opens
           /\ Cardinality(OpenOfBy(conn', u)) = Cardinality(OpenOfBy(conn, u)) - 1
           /\ \A v \in Users : v # u => OpenOfBy(conn', v) = OpenOfBy(conn, v)
           /\ Cardinality(OpenAtBy(conn', u, a)) = Cardinality(OpenAtBy(conn, u, a)) - 1
           /\ \A v \in Users, x \in IPs :
                <<v, x>> # <<u, a>> => OpenAtBy(conn', v, x) = OpenAtBy(conn, v, x)
<1>1. NoConn \notin Users \X IPs /\ u \in Users /\ a \in IPs
  BY LimiterAssumption DEF Opens
<1>2. conn' \in Opens
  BY DEF Opens
<1>3. OpenOfBy(conn', u) = OpenOfBy(conn, u) \ {c} /\ c \in OpenOfBy(conn, u)
  BY <1>1 DEF OpenOfBy, Opens
<1>4. OpenAtBy(conn', u, a) = OpenAtBy(conn, u, a) \ {c} /\ c \in OpenAtBy(conn, u, a)
  BY <1>1 DEF OpenAtBy, Opens
<1>5. \A v \in Users : v # u => OpenOfBy(conn', v) = OpenOfBy(conn, v)
  BY <1>1 DEF OpenOfBy, Opens
<1>6. \A v \in Users, x \in IPs : <<v, x>> # <<u, a>> => OpenAtBy(conn', v, x) = OpenAtBy(conn, v, x)
  BY <1>1 DEF OpenAtBy, Opens
<1>7. IsFiniteSet(OpenOfBy(conn, u)) /\ IsFiniteSet(OpenAtBy(conn, u, a))
  BY OpensAreFinite
<1>8. Cardinality(OpenOfBy(conn, u) \ {c}) = Cardinality(OpenOfBy(conn, u)) - 1
  BY <1>3, <1>7, FS_RemoveElement
<1>9. Cardinality(OpenAtBy(conn, u, a) \ {c}) = Cardinality(OpenAtBy(conn, u, a)) - 1
  BY <1>4, <1>7, FS_RemoveElement
<1> QED
  BY <1>2, <1>3, <1>4, <1>5, <1>6, <1>8, <1>9

-----------------------------------------------------------------------------
\* The invariant: a user's count lies between the connections they have and
\* the limit, and an open connection is on record with its address.
CountInv ==
    connLimit # 0 =>
      \A u \in Users : /\ Cardinality(OpenOfBy(conn, u)) <= ConnLimiter.count[u]
                       /\ ConnLimiter.count[u] <= connLimit

RecordInv ==
    realtime => \A u \in Users, a \in IPs :
                  Tcp * Cardinality(OpenAtBy(conn, u, a)) <= ConnLimiter.ip[u][a]

TableInv == ConnLimiter \in Tables /\ conn \in Opens /\ CountInv /\ RecordInv

\* A connection that is refused leaves the count within the limit, one that is
\* let in is counted.
LEMMA AddsKeeps ==
    ASSUME TableInv, NEW c \in Conns, NEW u \in Users, NEW a \in IPs,
           NEW isTcp \in BOOLEAN, Adds(c, u, a, isTcp)
    PROVE  TableInv'
<1> DEFINE n == AddConnCount(ConnLimiter, u, a, isTcp)
<1>1. ConnLimiter \in Tables /\ conn \in Opens /\ conn[c] = NoConn /\ ConnLimiter' = n
  BY DEF TableInv, Adds
<1>2. n \in Tables
  BY <1>1, AddTable
<1>3. connLimit # 0 =>
        /\ n.count \in [Users -> Nat]
        /\ \A v \in Users : ConnLimiter.count[v] <= n.count[v]
        /\ \A v \in Users : ConnLimiter.count[v] <= connLimit => n.count[v] <= connLimit
        /\ isTcp /\ ~AddRefuses(ConnLimiter, u, a) => n.count[u] = ConnLimiter.count[u] + 1
  BY <1>1, AddCounts
<1>4. realtime =>
        /\ \A v \in Users, x \in IPs : ConnLimiter.ip[v][x] <= n.ip[v][x]
        /\ isTcp /\ ~AddRefuses(ConnLimiter, u, a) => n.ip[u][a] >= ConnLimiter.ip[u][a] + Tcp
  BY <1>1, AddRecords
<1>5. /\ \A v : Cardinality(OpenOfBy(conn, v)) \in Nat /\ Cardinality(OpenOfBy(conn', v)) \in Nat
      /\ \A v, x : Cardinality(OpenAtBy(conn, v, x)) \in Nat /\ Cardinality(OpenAtBy(conn', v, x)) \in Nat
  BY OpensAreFinite
<1>6. /\ \A v \in Users : ConnLimiter.count[v] \in Nat /\ n.count[v] \in Nat
      /\ \A v \in Users, x \in IPs : ConnLimiter.ip[v][x] \in Nat /\ n.ip[v][x] \in Nat
  BY <1>1, <1>2 DEF Tables
<1> HIDE DEF n
<1>7. CASE UNCHANGED conn
  <2>1. CountInv'
    BY <1>1, <1>3, <1>5, <1>6, <1>7, LimiterAssumption, ConnCountAssumption DEF TableInv, CountInv
  <2>2. RecordInv'
    BY <1>1, <1>4, <1>5, <1>6, <1>7 DEF TableInv, RecordInv, Tcp
  <2> QED
    BY <1>1, <1>2, <1>7, <2>1, <2>2 DEF TableInv
<1>8. CASE isTcp /\ ~AddRefuses(ConnLimiter, u, a) /\ conn' = [conn EXCEPT ![c] = <<u, a>>]
  <2>1. /\ conn' \in Opens
        /\ Cardinality(OpenOfBy(conn', u)) = Cardinality(OpenOfBy(conn, u)) + 1
        /\ \A v \in Users : v # u => OpenOfBy(conn', v) = OpenOfBy(conn, v)
        /\ Cardinality(OpenAtBy(conn', u, a)) = Cardinality(OpenAtBy(conn, u, a)) + 1
        /\ \A v \in Users, x \in IPs :
             <<v, x>> # <<u, a>> => OpenAtBy(conn', v, x) = OpenAtBy(conn, v, x)
    BY <1>1, <1>8, OpenOneMore
  <2>2. CountInv'
    <3> SUFFICES ASSUME connLimit # 0, NEW v \in Users
                 PROVE  /\ Cardinality(OpenOfBy(conn', v)) <= n.count[v]
                        /\ n.count[v] <= connLimit
      BY <1>1 DEF CountInv
    <3>1. Cardinality(OpenOfBy(conn, v)) <= ConnLimiter.count[v] /\ ConnLimiter.count[v] <= connLimit
      BY DEF TableInv, CountInv
    <3>2. CASE v = u
      BY <1>3, <1>5, <1>6, <1>8, <2>1, <3>1, <3>2
    <3>3. CASE v # u
      BY <1>3, <1>5, <1>6, <2>1, <3>1, <3>3
    <3> QED
      BY <3>2, <3>3
  <2>3. RecordInv'
    <3> SUFFICES ASSUME realtime, NEW v \in Users, NEW x \in IPs
                 PROVE  Tcp * Cardinality(OpenAtBy(conn', v, x)) <= n.ip[v][x]
      BY <1>1 DEF RecordInv
    <3>1. Tcp * Cardinality(OpenAtBy(conn, v, x)) <= ConnLimiter.ip[v][x]
      BY DEF TableInv, RecordInv
    <3>2. CASE <<v, x>> = <<u, a>>
      BY <1>4, <1>5, <1>6, <1>8, <2>1, <3>1, <3>2 DEF Tcp
    <3>3. CASE <<v, x>> # <<u, a>>
      BY <1>4, <1>5, <1>6, <2>1, <3>1, <3>3 DEF Tcp
    <3> QED
      BY <3>2, <3>3
  <2> QED
    BY <1>1, <1>2, <2>1, <2>2, <2>3 DEF TableInv
<1> QED
  BY <1>7, <1>8 DEF Adds

\* A connection that closes takes no more away than it brought.
LEMMA ClosesKeeps ==
    ASSUME TableInv, NEW c \in Conns, Closes(c)
    PROVE  TableInv'
<1>1. ConnLimiter \in Tables /\ conn \in Opens /\ conn[c] # NoConn /\ conn' = [conn EXCEPT ![c] = NoConn]
  BY DEF TableInv, Closes
<1>2. PICK u \in Users, a \in IPs : conn[c] = <<u, a>>
  BY <1>1 DEF Opens
<1>3. /\ \A v : Cardinality(OpenOfBy(conn, v)) \in Nat /\ Cardinality(OpenOfBy(conn', v)) \in Nat
      /\ \A v, x : Cardinality(OpenAtBy(conn, v, x)) \in Nat /\ Cardinality(OpenAtBy(conn', v, x)) \in Nat
  BY OpensAreFinite
<1>4. /\ conn' \in Opens
      /\ Cardinality(OpenOfBy(conn', u)) = Cardinality(OpenOfBy(conn, u)) - 1
      /\ \A v \in Users : v # u => OpenOfBy(conn', v) = OpenOfBy(conn, v)
      /\ Cardinality(OpenAtBy(conn', u, a)) = Cardinality(OpenAtBy(conn, u, a)) - 1
      /\ \A v \in Users, x \in IPs :
           <<v, x>> # <<u, a>> => OpenAtBy(conn', v, x) = OpenAtBy(conn, v, x)
  BY <1>1, <1>2, OpenOneLess
<1>5. realtime => ConnLimiter.ip[u][a] >= Tcp
  <2>1. Cardinality(OpenAtBy(conn, u, a)) >= 1
    BY <1>3, <1>4
  <2> QED
    BY <1>1, <1>3, <2>1 DEF TableInv, RecordInv, Tcp, Tables
<1>6. /\ ConnLimiter' \in Tables
      /\ \A v \in Users : ConnLimiter'.count[v] <= ConnLimiter.count[v]
      /\ ConnLimiter'.count[u] >= ConnLimiter.count[u] - 1
      /\ \A v \in Users : v # u => ConnLimiter'.count[v] = ConnLimiter.count[v]
      /\ \A v \in Users, x \in IPs :
           ConnLimiter'.ip[v][x] >= IF <<v, x>> = <<u, a>> THEN ConnLimiter.ip[v][x] - Tcp
                                                          ELSE ConnLimiter.ip[v][x]
  <2>1. CASE ConnLimiter' = ConnLimiter
    BY <1>1, <2>1 DEF Tables, Tcp
  <2>2. CASE ConnLimiter' = DelConnCount(ConnLimiter, u, a)
    BY <1>1, <1>5, <2>2, DelTable
  <2> QED
    BY <1>2, <2>1, <2>2 DEF Closes
<1>7. CountInv'
  <2> SUFFICES ASSUME connLimit # 0, NEW v \in Users
               PROVE  /\ Cardinality(OpenOfBy(conn', v)) <= ConnLimiter'.count[v]
                      /\ ConnLimiter'.count[v] <= connLimit
    BY DEF CountInv
  <2>1. Cardinality(OpenOfBy(conn, v)) <= ConnLimiter.count[v] /\ ConnLimiter.count[v] <= connLimit
    BY DEF TableInv, CountInv
  <2>2. ConnLimiter.count[v] \in Nat /\ ConnLimiter'.count[v] \in Nat /\ connLimit \in Nat
    BY <1>1, <1>6, ConnCountAssumption DEF Tables
  <2>3. CASE v = u
    BY <1>3, <1>4, <1>6, <2>1, <2>2, <2>3
  <2>4. CASE v # u
    BY <1>3, <1>4, <1>6, <2>1, <2>2, <2>4
  <2> QED
    BY <2>3, <2>4
<1>8. RecordInv'
  <2> SUFFICES ASSUME realtime, NEW v \in Users, NEW x \in IPs
               PROVE  Tcp * Cardinality(OpenAtBy(conn', v, x)) <= ConnLimiter'.ip[v][x]
    BY DEF RecordInv
  <2>1. Tcp * Cardinality(OpenAtBy(conn, v, x)) <= ConnLimiter.ip[v][x]
    BY DEF TableInv, RecordInv
  <2>2. ConnLimiter.ip[v][x] \in Nat /\ ConnLimiter'.ip[v][x] \in Nat
    BY <1>1, <1>6 DEF Tables
  <2>3. CASE <<v, x>> = <<u, a>>
    BY <1>3, <1>4, <1>6, <2>1, <2>2, <2>3 DEF Tcp
  <2>4. CASE <<v, x>> # <<u, a>>
    BY <1>3, <1>4, <1>6, <2>1, <2>2, <2>4 DEF Tcp
  <2> QED
    BY <2>3, <2>4
<1> QED
  BY <1>4, <1>6, <1>7, <1>8 DEF TableInv

\* Clearing and the passing of time leave what is counted for a connection.
LEMMA ClearKeeps ==
    ASSUME TableInv, ConnLimiter' = ClearOnlineIP(ConnLimiter), UNCHANGED conn
    PROVE  TableInv'
<1>1. ConnLimiter \in Tables /\ conn \in Opens
  BY DEF TableInv
<1>2. /\ ConnLimiter' \in Tables /\ ConnLimiter'.count = ConnLimiter.count
      /\ realtime => \A v \in Users, x \in IPs :
                       ConnLimiter.ip[v][x] >= Tcp => ConnLimiter'.ip[v][x] = ConnLimiter.ip[v][x]
  BY <1>1, ClearTable
<1>3. RecordInv'
  <2> SUFFICES ASSUME realtime, NEW v \in Users, NEW x \in IPs
               PROVE  Tcp * Cardinality(OpenAtBy(conn, v, x)) <= ConnLimiter'.ip[v][x]
    BY DEF RecordInv
  <2>1. /\ Tcp * Cardinality(OpenAtBy(conn, v, x)) <= ConnLimiter.ip[v][x]
        /\ Cardinality(OpenAtBy(conn, v, x)) \in Nat
    BY OpensAreFinite DEF TableInv, RecordInv
  <2>2. ConnLimiter.ip[v][x] \in Nat /\ ConnLimiter'.ip[v][x] \in Nat
    BY <1>1, <1>2 DEF Tables
  <2>3. CASE Cardinality(OpenAtBy(conn, v, x)) = 0
    BY <2>2, <2>3 DEF Tcp
  <2>4. CASE Cardinality(OpenAtBy(conn, v, x)) >= 1
    BY <1>2, <2>1, <2>2, <2>4 DEF Tcp
  <2> QED
    BY <2>1, <2>3, <2>4
<1> QED
  BY <1>1, <1>2, <1>3 DEF TableInv, CountInv

\* An address of a limiter that is not realtime comes of age.
LEMMA AgesKeeps ==
    ASSUME TableInv, NEW u \in Users, NEW a \in IPs, Ages(u, a)
    PROVE  TableInv'
<1>1. ConnLimiter \in Tables /\ conn' = conn /\ conn \in Opens /\ ~realtime
  BY DEF TableInv, Ages
<1>2. ConnLimiter' = [ConnLimiter EXCEPT !.ip = [ConnLimiter.ip EXCEPT ![u][a] = Expired]]
  BY <1>1 DEF Ages, Tables
<1>3. [ConnLimiter.ip EXCEPT ![u][a] = Expired] \in [Users -> [IPs -> Nat]]
  BY <1>1 DEF Tables, Expired
<1>4. ConnLimiter' \in Tables /\ ConnLimiter'.count = ConnLimiter.count
  BY <1>1, <1>2, <1>3 DEF Tables
<1> QED
  BY <1>1, <1>4 DEF TableInv, CountInv, RecordInv

\* All that is known of the table and the connections holds throughout.
LEMMA TableInvariant == Spec => []TableInv
<1>1. Init => TableInv
  <2> SUFFICES ASSUME Init PROVE TableInv
    OBVIOUS
  <2>1. ConnLimiter = NewConnLimiter /\ conn = [c \in Conns |-> NoConn]
    BY DEF Init, AddLimiter
  <2>2. ConnLimiter \in Tables /\ conn \in Opens
    BY <2>1 DEF NewConnLimiter, Tables, Opens
  <2>3. /\ \A u : OpenOfBy(conn, u) = {}
        /\ \A u \in Users, a \in IPs : OpenAtBy(conn, u, a) = {}
    BY <2>1, LimiterAssumption DEF OpenOfBy, OpenAtBy
  <2>4. CountInv
    <3>1. \A u \in Users : ConnLimiter.count[u] = 0
      BY <2>1 DEF NewConnLimiter
    <3>2. \A u \in Users : Cardinality(OpenOfBy(conn, u)) = 0
      BY <2>3, FS_EmptySet
    <3> QED
      BY <3>1, <3>2, ConnCountAssumption DEF CountInv
  <2>5. RecordInv
    <3>1. \A u \in Users, a \in IPs : ConnLimiter.ip[u][a] = 0
      BY <2>1 DEF NewConnLimiter
    <3>2. \A u \in Users, a \in IPs : Cardinality(OpenAtBy(conn, u, a)) = 0
      BY <2>3, FS_EmptySet
    <3> QED
      BY <3>1, <3>2 DEF RecordInv, Tcp
  <2> QED
    BY <2>2, <2>4, <2>5 DEF TableInv
<1>2. TableInv /\ [Next]_vars => TableInv'
  <2> SUFFICES ASSUME TableInv, [Next]_vars PROVE TableInv'
    OBVIOUS
  <2>1. TableStep
    BY StepsOfTable
  <2>2. CASE UNCHANGED <<ConnLimiter, conn>>
    BY <2>2 DEF TableInv, CountInv, RecordInv
  <2> QED
    BY <2>1, <2>2, AddsKeeps, ClosesKeeps, AgesKeeps, ClearKeeps DEF TableStep
<1> QED
  BY <1>1, <1>2, PTL DEF Spec

\* A user never has more TCP connections open than ConnLimit, whatever was
\* refused, closed, cleared or listed again in between.
THEOREM ConnLimitHolds == Spec => []EnforcesConnLimit
<1>1. TableInv => EnforcesConnLimit
  <2> SUFFICES ASSUME TableInv, connLimit # 0, NEW u \in Users
               PROVE  Cardinality(OpenOf(u)) <= connLimit
    BY DEF EnforcesConnLimit
  <2>1. OpenOf(u) = OpenOfBy(conn, u)
    BY DEF OpenOf, OpenOfBy
  <2>2. Cardinality(OpenOfBy(conn, u)) \in Nat
    BY OpensAreFinite
  <2> QED
    BY <2>1, <2>2, ConnCountAssumption DEF TableInv, CountInv, Tables
<1> QED
  BY <1>1, TableInvariant, PTL

\* The address of an open TCP connection is never cleared from a realtime table.
THEOREM OpenStaysCounted == Spec => []OpenIsCounted
<1>1. TableInv => OpenIsCounted
  <2> SUFFICES ASSUME TableInv, realtime, NEW u \in Users, NEW a \in IPs
               PROVE  ConnLimiter.ip[u][a] >= Tcp * Cardinality(OpenAt(u, a))
    BY DEF OpenIsCounted
  <2>1. OpenAt(u, a) = OpenAtBy(conn, u, a)
    BY DEF OpenAt, OpenAtBy
  <2>2. Cardinality(OpenAtBy(conn, u, a)) \in Nat
    BY OpensAreFinite
  <2> QED
    BY <2>1, <2>2 DEF TableInv, RecordInv, Tables, Tcp
<1> QED
  BY <1>1, TableInvariant, PTL

-----------------------------------------------------------------------------
\* The addresses on record

AddressInv ==
    ipLimit # 0 => \A u \in Users : Cardinality(OnlineIPs(ConnLimiter, u)) <= ipLimit

\* There are finitely many of them.
LEMMA OnlineIsFinite ==
    ASSUME NEW t, NEW u
    PROVE  IsFiniteSet(OnlineIPs(t, u)) /\ Cardinality(OnlineIPs(t, u)) \in Nat
  BY LimiterAssumption, FS_Subset, FS_CardinalityType DEF OnlineIPs

\* A step that records no new address keeps within the limit.
LEMMA NoNewAddress ==
    ASSUME AddressInv,
           \A v \in Users, x \in IPs : ConnLimiter.ip[v][x] = 0 => ConnLimiter'.ip[v][x] = 0
    PROVE  AddressInv'
<1> SUFFICES ASSUME ipLimit # 0, NEW v \in Users
             PROVE  Cardinality(OnlineIPs(ConnLimiter', v)) <= ipLimit
  BY DEF AddressInv
<1>1. OnlineIPs(ConnLimiter', v) \subseteq OnlineIPs(ConnLimiter, v)
  BY DEF OnlineIPs
<1>2. Cardinality(OnlineIPs(ConnLimiter', v)) <= Cardinality(OnlineIPs(ConnLimiter, v))
  BY <1>1, OnlineIsFinite, FS_Subset
<1>3. Cardinality(OnlineIPs(ConnLimiter, v)) <= ipLimit
  BY DEF AddressInv
<1> QED
  BY <1>2, <1>3, OnlineIsFinite, ConnCountAssumption

\* AddConnCount records a new address only while there is room for it.
LEMMA AddsKeepsAddresses ==
    ASSUME ConnLimiter \in Tables, AddressInv, NEW c \in Conns, NEW u \in Users, NEW a \in IPs,
           NEW isTcp \in BOOLEAN, Adds(c, u, a, isTcp)
    PROVE  AddressInv'
<1> DEFINE n == AddConnCount(ConnLimiter, u, a, isTcp)
<1>1. ConnLimiter' = n
  BY DEF Adds
<1>2. /\ \A v \in Users, x \in IPs : <<v, x>> # <<u, a>> => n.ip[v][x] = ConnLimiter.ip[v][x]
      /\ AddRefuses(ConnLimiter, u, a) => n.ip = ConnLimiter.ip
  BY AddRecords
<1> HIDE DEF n
<1>3. CASE AddRefuses(ConnLimiter, u, a) \/ a \in OnlineIPs(ConnLimiter, u)
  BY <1>1, <1>2, <1>3, NoNewAddress DEF OnlineIPs
<1>4. CASE ~AddRefuses(ConnLimiter, u, a) /\ a \notin OnlineIPs(ConnLimiter, u)
  <2> SUFFICES ASSUME ipLimit # 0, NEW v \in Users
               PROVE  Cardinality(OnlineIPs(n, v)) <= ipLimit
    BY <1>1 DEF AddressInv
  <2>1. Cardinality(OnlineIPs(ConnLimiter, u)) < ipLimit
    BY <1>4, OnlineIsFinite, ConnCountAssumption DEF AddRefuses, OverIPLimit
  <2>2. CASE v = u
    <3>1. OnlineIPs(n, u) \subseteq OnlineIPs(ConnLimiter, u) \cup {a}
      BY <1>2 DEF OnlineIPs
    <3>2. /\ IsFiniteSet(OnlineIPs(ConnLimiter, u) \cup {a})
          /\ Cardinality(OnlineIPs(ConnLimiter, u) \cup {a}) = Cardinality(OnlineIPs(ConnLimiter, u)) + 1
      BY <1>4, OnlineIsFinite, FS_AddElement
    <3>3. Cardinality(OnlineIPs(n, u)) <= Cardinality(OnlineIPs(ConnLimiter, u)) + 1
      BY <3>1, <3>2, FS_Subset
    <3> QED
      BY <2>1, <2>2, <3>3, OnlineIsFinite, ConnCountAssumption
  <2>3. CASE v # u
    <3>1. OnlineIPs(n, v) = OnlineIPs(ConnLimiter, v)
      BY <1>2, <2>3 DEF OnlineIPs
    <3> QED
      BY <3>1 DEF AddressInv
  <2> QED
    BY <2>2, <2>3
<1> QED
  BY <1>3, <1>4

\* No step takes the addresses on record beyond the limit.
LEMMA AddressStep == TableInv /\ AddressInv /\ [Next]_vars => AddressInv'
<1> SUFFICES ASSUME TableInv, AddressInv, [Next]_vars PROVE AddressInv'
  OBVIOUS
<1>1. TableStep
  BY StepsOfTable
<1>2. ConnLimiter \in Tables /\ conn \in Opens
  BY DEF TableInv
<1>3. ASSUME NEW c \in Conns, NEW u \in Users, NEW a \in IPs, NEW isTcp \in BOOLEAN,
             Adds(c, u, a, isTcp)
      PROVE  AddressInv'
  BY <1>2, <1>3, AddsKeepsAddresses
<1>4. ASSUME NEW c \in Conns, Closes(c) PROVE AddressInv'
  <2>1. PICK u \in Users, a \in IPs : conn[c] = <<u, a>>
    BY <1>2, <1>4 DEF Opens, Closes
  <2>2. realtime => ConnLimiter.ip[u][a] >= Tcp
    <3>1. c \in OpenAtBy(conn, u, a)
      BY <2>1 DEF OpenAtBy
    <3>2. Cardinality(OpenAtBy(conn, u, a)) \in Nat \ {0}
      BY <3>1, OpensAreFinite, FS_EmptySet
    <3>3. ConnLimiter.ip[u][a] \in Nat
      BY <1>2 DEF Tables
    <3> QED
      BY <3>2, <3>3 DEF TableInv, RecordInv, Tcp
  <2>3. CASE ConnLimiter' = ConnLimiter
    BY <2>3, NoNewAddress
  <2>4. CASE ConnLimiter' = DelConnCount(ConnLimiter, u, a)
    <3>1. /\ ConnLimiter' \in Tables
          /\ \A v \in Users, x \in IPs : ConnLimiter'.ip[v][x] <= ConnLimiter.ip[v][x]
      BY <1>2, <2>2, <2>4, DelTable
    <3>2. \A v \in Users, x \in IPs : ConnLimiter.ip[v][x] = 0 => ConnLimiter'.ip[v][x] = 0
      BY <1>2, <3>1 DEF Tables
    <3> QED
      BY <3>2, NoNewAddress
  <2> QED
    BY <1>4, <2>1, <2>3, <2>4 DEF Closes
<1>5. ASSUME NEW u \in Users, NEW a \in IPs, Ages(u, a), ConnLimiter.ip[u][a] = Recent
      PROVE  AddressInv'
  <2>1. \A v \in Users, x \in IPs : ConnLimiter.ip[v][x] = 0 => ConnLimiter'.ip[v][x] = 0
    BY <1>2, <1>5 DEF Ages, Tables, Recent
  <2> QED
    BY <2>1, NoNewAddress
<1>6. CASE ConnLimiter' = ClearOnlineIP(ConnLimiter)
  <2>1. /\ ConnLimiter' \in Tables
        /\ \A v \in Users, x \in IPs : ConnLimiter'.ip[v][x] <= ConnLimiter.ip[v][x]
    BY <1>2, <1>6, ClearTable
  <2>2. \A v \in Users, x \in IPs : ConnLimiter.ip[v][x] = 0 => ConnLimiter'.ip[v][x] = 0
    BY <1>2, <2>1 DEF Tables
  <2> QED
    BY <2>2, NoNewAddress
<1>7. CASE UNCHANGED ConnLimiter
  BY <1>7, NoNewAddress
<1> QED
  BY <1>1, <1>3, <1>4, <1>5, <1>6, <1>7 DEF TableStep

\* The limiter never has more addresses of a user on record than IPLimit,
\* whatever is recorded, ages, is cleared or taken away in between.
THEOREM RecordsKeepIPLimit == Spec => [](AddressInv /\ RecordsWithinIPLimit)
<1>1. Init => AddressInv
  <2> SUFFICES ASSUME Init, NEW u \in Users PROVE Cardinality(OnlineIPs(ConnLimiter, u)) = 0
    BY ConnCountAssumption DEF AddressInv
  <2>1. OnlineIPs(ConnLimiter, u) = {}
    BY DEF Init, AddLimiter, NewConnLimiter, OnlineIPs
  <2> QED
    BY <2>1, FS_EmptySet
<1>2. AddressInv => RecordsWithinIPLimit
  BY DEF AddressInv, RecordsWithinIPLimit
<1> QED
  BY <1>1, <1>2, AddressStep, TableInvariant, PTL DEF Spec

\* A user never has connections open from more addresses than IPLimit: each of
\* them is on record.
THEOREM IPLimitHolds == Spec => []EnforcesIPLimit
<1>1. TableInv /\ AddressInv => EnforcesIPLimit
  <2> SUFFICES ASSUME TableInv, AddressInv, realtime, ipLimit # 0, NEW u \in Users
               PROVE  Cardinality({a \in IPs : OpenAt(u, a) # {}}) <= ipLimit
    BY DEF EnforcesIPLimit
  <2> DEFINE used == {a \in IPs : OpenAt(u, a) # {}}
  <2>1. used \subseteq OnlineIPs(ConnLimiter, u)
    <3> SUFFICES ASSUME NEW a \in IPs, OpenAt(u, a) # {} PROVE ConnLimiter.ip[u][a] # 0
      BY DEF OnlineIPs
    <3>1. OpenAtBy(conn, u, a) # {}
      BY DEF OpenAt, OpenAtBy
    <3>2. Cardinality(OpenAtBy(conn, u, a)) \in Nat \ {0}
      BY <3>1, OpensAreFinite, FS_EmptySet
    <3> QED
      BY <3>2 DEF TableInv, RecordInv, Tables, Tcp
  <2>2. Cardinality(used) <= Cardinality(OnlineIPs(ConnLimiter, u)) /\ Cardinality(used) \in Nat
    BY <2>1, OnlineIsFinite, FS_Subset, FS_CardinalityType
  <2> HIDE DEF used
  <2>3. Cardinality(used) <= ipLimit
    BY <2>2, OnlineIsFinite, ConnCountAssumption DEF AddressInv
  <2> QED
    BY <2>3 DEF used
<1> QED
  BY <1>1, RecordsKeepIPLimit, TableInvariant, PTL

-----------------------------------------------------------------------------
\* The users

Infos == LimitInfos \cup {NoInfo}

\* A dynamic limit leaves an entry one, with its other limits.
LEMMA DynamicInfo ==
    ASSUME NEW r \in LimitInfos, NEW limit \in DynamicSpeeds
    PROVE  LET i == [r EXCEPT !.dynamic = limit, !.expire = "later"]
           IN i \in LimitInfos /\ i.speed = r.speed /\ i.device = r.device
<1>1. limit \in Nat
  BY LimiterAssumption
<1> QED
  BY <1>1 DEF LimitInfos, Expiries

\* Only what CheckLimit and the controller do changes a user's entry.
UserInv ==
    /\ UserLimitInfo \in [Users -> Infos]
    /\ userList \in Lists

\* A user's settings come from the panel's list, and those of no deleted user
\* are left: neither CheckLimit nor the speed checker brings any back.
THEOREM InfoFollowsList == Spec => [](UserInv /\ InfoIsListed)
<1> USE LimiterAssumption DEF UserInv, InfoIsListed, HasInfo, Infos, LimitInfos, Expiries
<1>1. \A i \in UserInfos : NewInfo(i) \in LimitInfos
  BY DEF NewInfo
<1>2. \A i \in LimitInfos : NewInfo(i) \in LimitInfos /\ NewInfo(i).speed = i.speed
                                                   /\ NewInfo(i).device = i.device
  BY DEF NewInfo
<1>3. Init => UserInv /\ InfoIsListed
  BY <1>1 DEF Init, AddLimiter, Lists, NewInfo
<1>4. UserInv /\ InfoIsListed /\ [Next]_vars => UserInv' /\ InfoIsListed'
  <2> SUFFICES ASSUME UserInv, InfoIsListed, [Next]_vars PROVE UserInv' /\ InfoIsListed'
    OBVIOUS
  <2>1. ASSUME NEW c \in Conns, NEW u \in Users, NEW a \in IPs,
               NEW isTcp \in BOOLEAN, NEW noSSUDP \in BOOLEAN,
               CheckLimit(c, u, a, isTcp, noSSUDP)
        PROVE  UserInv' /\ InfoIsListed'
    <3>1. UNCHANGED userList
      BY <2>1 DEF CheckLimit
    <3>2. CASE UNCHANGED UserLimitInfo
      BY <3>1, <3>2
    <3>3. CASE HasInfo(u) /\ UserLimitInfo' = [UserLimitInfo EXCEPT ![u] = Settled(u)]
      <4>1. \/ Settled(u) = NoInfo
            \/ /\ Settled(u) \in LimitInfos
               /\ Settled(u).speed = UserLimitInfo[u].speed
               /\ Settled(u).device = UserLimitInfo[u].device
        BY <1>2, <3>3 DEF Settled
      <4> QED
        BY <3>1, <3>3, <4>1
    <3> QED
      BY <2>1, <3>2, <3>3 DEF CheckLimit, RefusedAtOnce, RefusedDevice, Accepted
  <2>2. ASSUME NEW c \in Conns, CloseConn(c) PROVE UserInv' /\ InfoIsListed'
    BY <2>2 DEF CloseConn
  <2>3. ASSUME NEW u \in Users, NEW a \in IPs, Age(u, a) PROVE UserInv' /\ InfoIsListed'
    BY <2>3 DEF Age
  <2>4. ASSUME NEW u \in Users, Expire(u) PROVE UserInv' /\ InfoIsListed'
    BY <2>4 DEF Expire
  <2>5. ASSUME NEW u \in Users, NEW limit \in DynamicSpeeds, UpdateDynamicSpeedLimit(u, limit)
        PROVE  UserInv' /\ InfoIsListed'
    <3> DEFINE i == [UserLimitInfo[u] EXCEPT !.dynamic = limit, !.expire = "later"]
    <3>1. UNCHANGED userList /\ HasInfo(u) /\ UserLimitInfo' = [UserLimitInfo EXCEPT ![u] = i]
      BY <2>5 DEF UpdateDynamicSpeedLimit
    <3>2. /\ i \in LimitInfos
          /\ i.speed = UserLimitInfo[u].speed /\ i.device = UserLimitInfo[u].device
      <4>1. UserLimitInfo[u] \in LimitInfos
        BY <3>1 DEF UserInv, HasInfo
      <4> QED
        BY <4>1, DynamicInfo
    <3> HIDE DEF i
    <3> QED
      BY <3>1, <3>2
  <2>6. ASSUME NEW list \in Lists, UpdateUser(list) PROVE UserInv' /\ InfoIsListed'
    BY <1>1, <2>6 DEF UpdateUser, Changed, Lists, NewInfo
  <2>7. ASSUME NEW alive, SetAliveList(alive) PROVE UserInv' /\ InfoIsListed'
    BY <2>7 DEF SetAliveList
  <2>8. CASE GetOnlineDevice
    BY <2>8 DEF GetOnlineDevice
  <2>9. CASE ClearOnline
    BY <2>9 DEF ClearOnline
  <2>10. CASE UNCHANGED vars
    BY <2>10 DEF vars
  <2> QED
    BY <2>1, <2>2, <2>3, <2>4, <2>5, <2>6, <2>7, <2>8, <2>9, <2>10 DEF Next
<1> QED
  BY <1>3, <1>4, PTL DEF Spec

-----------------------------------------------------------------------------
\* The window of devices, the alive list and the buckets

WindowInv ==
    /\ UserOnlineIP \in [Users -> SUBSET IPs]
    /\ OldUserOnline \in [IPs -> Users \cup {NoUser}]
    /\ AliveList \in Alives
    /\ SpeedLimiter \in [Users -> Nat]

\* A bucket is made for a limit that is a number.
LEMMA SpeedIsNat ==
    ASSUME UserInv, NEW u \in Users, HasInfo(u)
    PROVE  determineSpeedLimit(nodeSpeed, UserSpeed(u)) \in Nat
<1>1. UserLimitInfo[u] \in LimitInfos
  BY DEF UserInv, HasInfo, Infos
<1>2. \A m, n \in Nat : determineSpeedLimit(m, n) \in Nat
  BY DEF determineSpeedLimit
<1>3. UserSpeed(u) \in Nat
  BY <1>1, <1>2 DEF UserSpeed, LimitInfos
<1> QED
  BY <1>2, <1>3, LimiterAssumption

\* Every variable of the limiter has its type throughout: in particular no
\* count and no entry of an address ever falls below zero.
THEOREM LimiterTypeCorrect == Spec => []TypeOK
<1> USE LimiterAssumption DEF WindowInv, Alives
<1>1. Init => WindowInv
  BY DEF Init, AddLimiter
<1>2. UserInv /\ WindowInv /\ [Next]_vars => WindowInv'
  <2> SUFFICES ASSUME UserInv, WindowInv, [Next]_vars PROVE WindowInv'
    OBVIOUS
  <2>1. ASSUME NEW c \in Conns, NEW u \in Users, NEW a \in IPs,
               NEW isTcp \in BOOLEAN, NEW noSSUDP \in BOOLEAN,
               CheckLimit(c, u, a, isTcp, noSSUDP)
        PROVE  WindowInv'
    <3>1. UNCHANGED AliveList
      BY <2>1 DEF CheckLimit
    <3>2. CASE UNCHANGED <<UserOnlineIP, OldUserOnline, SpeedLimiter>>
      BY <3>1, <3>2
    <3>3. CASE Accepted(c, u, a, isTcp, noSSUDP)
      BY <3>1, <3>3, SpeedIsNat DEF Accepted
    <3> QED
      BY <2>1, <3>2, <3>3 DEF CheckLimit, RefusedAtOnce, RefusedDevice
  <2>2. ASSUME NEW c \in Conns, CloseConn(c) PROVE WindowInv'
    BY <2>2 DEF CloseConn
  <2>3. ASSUME NEW u \in Users, NEW a \in IPs, Age(u, a) PROVE WindowInv'
    BY <2>3 DEF Age
  <2>4. ASSUME NEW u \in Users, Expire(u) PROVE WindowInv'
    BY <2>4 DEF Expire
  <2>5. ASSUME NEW u \in Users, NEW limit \in DynamicSpeeds, UpdateDynamicSpeedLimit(u, limit)
        PROVE  WindowInv'
    BY <2>5 DEF UpdateDynamicSpeedLimit
  <2>6. ASSUME NEW list \in Lists, UpdateUser(list) PROVE WindowInv'
    BY <2>6 DEF UpdateUser
  <2>7. ASSUME NEW alive \in Alives, SetAliveList(alive) PROVE WindowInv'
    BY <2>7 DEF SetAliveList
  <2>8. CASE GetOnlineDevice
    BY <2>8 DEF GetOnlineDevice
  <2>9. CASE ClearOnline
    BY <2>9 DEF ClearOnline
  <2>10. CASE UNCHANGED vars
    BY <2>10 DEF vars
  <2> QED
    BY <2>1, <2>2, <2>3, <2>4, <2>5, <2>6, <2>7, <2>8, <2>9, <2>10 DEF Next
<1>3. TableInv /\ UserInv /\ WindowInv => TypeOK
  BY DEF TableInv, UserInv, Infos, Tables, Opens, TypeOK
<1> QED
  BY <1>1, <1>2, <1>3, TableInvariant, InfoFollowsList, PTL DEF Spec

-----------------------------------------------------------------------------
\* The buckets

\* A bucket of before stays good when a limit is only loosened.
LEMMA LooserLimit ==
    ASSUME NEW node \in Nat, NEW own \in Nat, NEW dynamic \in Nat, NEW bucket \in Nat,
           LET limit == determineSpeedLimit(node, determineSpeedLimit(own, dynamic))
           IN limit = 0 \/ bucket <= limit
    PROVE  LET limit == determineSpeedLimit(node, own) IN limit = 0 \/ bucket <= limit
  BY DEF determineSpeedLimit

\* The speed CheckLimit goes by is the same before and after the entry settles.
LEMMA SettledSpeed ==
    ASSUME UserInv, NEW u \in Users, HasInfo(u),
           UserLimitInfo' = [UserLimitInfo EXCEPT ![u] = Settled(u)]
    PROVE  /\ HasInfo(u)' => UserSpeed(u)' = UserSpeed(u)
           /\ \A v \in Users : v # u => HasInfo(v)' = HasInfo(v) /\ UserSpeed(v)' = UserSpeed(v)
           /\ UserLimitInfo[u].speed # 0 => HasInfo(u)'
<1>1. UserLimitInfo[u] \in LimitInfos /\ UserLimitInfo \in [Users -> Infos]
  BY DEF UserInv, HasInfo, Infos
<1>2. UserLimitInfo'[u] = Settled(u) /\ \A v \in Users : v # u => UserLimitInfo'[v] = UserLimitInfo[v]
  BY <1>1
<1>3. \A v \in Users : v # u => HasInfo(v)' = HasInfo(v) /\ UserSpeed(v)' = UserSpeed(v)
  BY <1>2 DEF HasInfo, UserSpeed, PastDue
<1>4. CASE ~PastDue(u)
  BY <1>2, <1>3, <1>4 DEF HasInfo, UserSpeed, PastDue, Settled
<1>5. CASE PastDue(u) /\ UserLimitInfo[u].speed # 0
  <2>1. UserLimitInfo'[u] = NewInfo(UserLimitInfo[u]) /\ NewInfo(UserLimitInfo[u]) \in LimitInfos
    BY <1>1, <1>2, <1>5 DEF Settled, NewInfo, LimitInfos, Expiries
  <2>2. HasInfo(u)'
    BY <2>1, LimiterAssumption DEF HasInfo
  <2>3. UserSpeed(u)' = determineSpeedLimit(UserLimitInfo[u].speed, 0)
    BY <2>1 DEF UserSpeed, PastDue, NewInfo
  <2>4. UserSpeed(u) = UserLimitInfo[u].speed
    BY <1>5 DEF UserSpeed
  <2> QED
    BY <1>3, <2>2, <2>3, <2>4 DEF determineSpeedLimit
<1>6. CASE PastDue(u) /\ UserLimitInfo[u].speed = 0
  BY <1>2, <1>3, <1>6 DEF HasInfo, Settled
<1> QED
  BY <1>4, <1>5, <1>6

\* CheckLimit with a known user: the entry settles, and the bucket is the old
\* one or one for the present limit.
LEMMA CheckLimitUsers ==
    ASSUME NEW c \in Conns, NEW u \in Users, NEW a \in IPs, NEW isTcp, NEW noSSUDP,
           CheckLimit(c, u, a, isTcp, noSSUDP)
    PROVE  /\ UNCHANGED userList
           /\ \/ UNCHANGED <<UserLimitInfo, UserOnlineIP, SpeedLimiter>>
              \/ /\ HasInfo(u) /\ UserLimitInfo' = [UserLimitInfo EXCEPT ![u] = Settled(u)]
                 /\ \/ UNCHANGED <<UserOnlineIP, SpeedLimiter>>
                    \/ /\ UserOnlineIP' \in {UserOnlineIP, [UserOnlineIP EXCEPT ![u] = @ \cup {a}]}
                       /\ SpeedLimiter' = [SpeedLimiter EXCEPT
                                             ![u] = determineSpeedLimit(nodeSpeed, UserSpeed(u))]
<1>1. CASE RefusedAtOnce(u, a, isTcp)
  BY <1>1 DEF CheckLimit, RefusedAtOnce
<1>2. CASE RefusedDevice(u, a, isTcp, noSSUDP)
  BY <1>2 DEF CheckLimit, RefusedDevice
<1>3. CASE Accepted(c, u, a, isTcp, noSSUDP)
  BY <1>3 DEF CheckLimit, Accepted
<1> QED
  BY <1>1, <1>2, <1>3 DEF CheckLimit

BucketInv == BucketIsNotFaster /\ DeletedIsForgotten

\* A connection gets the bucket of the limit it is let in with.
LEMMA CheckLimitKeepsBuckets ==
    ASSUME UserInv, InfoIsListed, WindowInv, BucketInv,
           NEW c \in Conns, NEW u \in Users, NEW a \in IPs, NEW isTcp, NEW noSSUDP,
           CheckLimit(c, u, a, isTcp, noSSUDP)
    PROVE  BucketInv'
<1> USE DEF BucketInv
<1>1. UNCHANGED userList
  BY CheckLimitUsers
<1>2. CASE UNCHANGED <<UserLimitInfo, UserOnlineIP, SpeedLimiter>>
  BY <1>1, <1>2 DEF BucketIsNotFaster, DeletedIsForgotten, HasInfo, UserSpeed, PastDue
<1>3. CASE HasInfo(u) /\ UserLimitInfo' = [UserLimitInfo EXCEPT ![u] = Settled(u)]
  <2>1. /\ HasInfo(u)' => UserSpeed(u)' = UserSpeed(u)
        /\ \A v \in Users : v # u => HasInfo(v)' = HasInfo(v) /\ UserSpeed(v)' = UserSpeed(v)
    BY <1>3, SettledSpeed
  <2>2. CASE UNCHANGED <<UserOnlineIP, SpeedLimiter>>
    <3>1. BucketIsNotFaster'
      BY <1>3, <2>1, <2>2 DEF BucketIsNotFaster
    <3> QED
      BY <1>1, <2>2, <3>1 DEF DeletedIsForgotten
  <2>3. CASE /\ UserOnlineIP' \in {UserOnlineIP, [UserOnlineIP EXCEPT ![u] = @ \cup {a}]}
             /\ SpeedLimiter' = [SpeedLimiter EXCEPT ![u] = determineSpeedLimit(nodeSpeed, UserSpeed(u))]
    <3>1. /\ SpeedLimiter'[u] = determineSpeedLimit(nodeSpeed, UserSpeed(u))
          /\ \A v \in Users : v # u => SpeedLimiter'[v] = SpeedLimiter[v] /\ UserOnlineIP'[v] = UserOnlineIP[v]
      BY <2>3 DEF WindowInv
    <3>2. determineSpeedLimit(nodeSpeed, UserSpeed(u)) \in Nat
      BY <1>3, SpeedIsNat
    <3>3. BucketIsNotFaster'
      BY <2>1, <3>1, <3>2 DEF BucketIsNotFaster
    <3>4. userList[u] # NotListed
      BY <1>3 DEF InfoIsListed
    <3> QED
      BY <1>1, <3>1, <3>3, <3>4 DEF DeletedIsForgotten
  <2> QED
    BY <1>3, <2>2, <2>3, CheckLimitUsers
<1> QED
  BY <1>2, <1>3, CheckLimitUsers

\* A new list drops the buckets of those whose settings change, and the devices.
LEMMA UpdateUserKeepsBuckets ==
    ASSUME UserInv, WindowInv, BucketInv, NEW list \in Lists, UpdateUser(list)
    PROVE  BucketInv'
<1> SUFFICES ASSUME NEW u \in Users
             PROVE  /\ SpeedLimiter'[u] # 0 => UserLimitInfo'[u] = UserLimitInfo[u]
                                               /\ SpeedLimiter'[u] = SpeedLimiter[u]
                    /\ list[u] = NotListed => UserOnlineIP'[u] = {} /\ SpeedLimiter'[u] = 0
  BY DEF UpdateUser, BucketInv, BucketIsNotFaster, DeletedIsForgotten, HasInfo, UserSpeed, PastDue
<1>1. /\ UserLimitInfo'[u] = IF u \notin Changed(list) THEN UserLimitInfo[u]
                             ELSE IF list[u] = NotListed THEN NoInfo ELSE NewInfo(list[u])
      /\ UserOnlineIP'[u] = IF u \in Deleted(list) THEN {} ELSE UserOnlineIP[u]
      /\ SpeedLimiter'[u] = IF u \in Deleted(list) THEN 0 ELSE SpeedLimiter[u]
  BY DEF UpdateUser
<1>2. userList[u] = NotListed => UserOnlineIP[u] = {} /\ SpeedLimiter[u] = 0
  BY DEF BucketInv, DeletedIsForgotten
<1> QED
  BY <1>1, <1>2 DEF Changed, Deleted

\* Whatever tightens a limit drops the bucket, and a deleted user leaves none.
LEMMA BucketStep ==
    UserInv /\ InfoIsListed /\ WindowInv /\ BucketInv /\ [Next]_vars => BucketInv'
<1> SUFFICES ASSUME UserInv, InfoIsListed, WindowInv, BucketInv, [Next]_vars PROVE BucketInv'
  OBVIOUS
<1> USE DEF BucketInv
<1>a. ASSUME UNCHANGED <<UserLimitInfo, userList>>, SpeedLimiter' = SpeedLimiter,
             \A u \in Users : UserOnlineIP'[u] \in {{}, UserOnlineIP[u]}
      PROVE  BucketInv'
  BY <1>a DEF BucketIsNotFaster, DeletedIsForgotten, HasInfo, UserSpeed, PastDue
<1>1. ASSUME NEW c \in Conns, NEW u \in Users, NEW a \in IPs,
             NEW isTcp \in BOOLEAN, NEW noSSUDP \in BOOLEAN,
             CheckLimit(c, u, a, isTcp, noSSUDP)
      PROVE  BucketInv'
  BY <1>1, CheckLimitKeepsBuckets
<1>2. ASSUME NEW c \in Conns, CloseConn(c) PROVE BucketInv'
  BY <1>2, <1>a DEF CloseConn
<1>3. ASSUME NEW u \in Users, NEW a \in IPs, Age(u, a) PROVE BucketInv'
  BY <1>3, <1>a DEF Age
<1>4. ASSUME NEW u \in Users, Expire(u) PROVE BucketInv'
  <2>1. /\ HasInfo(u) /\ UserLimitInfo[u].expire = "later"
        /\ UserLimitInfo' = [UserLimitInfo EXCEPT ![u].expire = "past"]
        /\ UNCHANGED <<UserOnlineIP, SpeedLimiter, userList>>
    BY <1>4 DEF Expire
  <2>2. UserLimitInfo[u] \in LimitInfos /\ SpeedLimiter[u] \in Nat /\ UserLimitInfo \in [Users -> Infos]
    BY <2>1 DEF HasInfo, UserInv, Infos, WindowInv
  <2>3. UserSpeed(u) = determineSpeedLimit(UserLimitInfo[u].speed, UserLimitInfo[u].dynamic)
    BY <2>1 DEF UserSpeed, PastDue
  <2>4. UserSpeed(u)' = UserLimitInfo[u].speed
    BY <2>1, <2>2 DEF UserSpeed, PastDue, LimitInfos
  <2>5. \A v \in Users : v # u => HasInfo(v)' = HasInfo(v) /\ UserSpeed(v)' = UserSpeed(v)
    BY <2>1, <2>2 DEF HasInfo, UserSpeed, PastDue
  <2>6. SpeedLimiter[u] # 0 => LET limit == determineSpeedLimit(nodeSpeed, UserSpeed(u))
                               IN limit = 0 \/ SpeedLimiter[u] <= limit
    BY <2>1 DEF BucketIsNotFaster
  <2>7. SpeedLimiter[u] # 0 => LET limit == determineSpeedLimit(nodeSpeed, UserSpeed(u)')
                               IN limit = 0 \/ SpeedLimiter[u] <= limit
    BY <2>2, <2>3, <2>4, <2>6, LooserLimit, LimiterAssumption DEF LimitInfos
  <2>8. BucketIsNotFaster'
    <3> SUFFICES ASSUME NEW v \in Users, SpeedLimiter[v] # 0, HasInfo(v)'
                 PROVE  LET limit == determineSpeedLimit(nodeSpeed, UserSpeed(v)')
                        IN limit = 0 \/ SpeedLimiter[v] <= limit
      BY <2>1 DEF BucketIsNotFaster
    <3> QED
      BY <2>5, <2>7 DEF BucketIsNotFaster
  <2> QED
    BY <2>1, <2>8 DEF DeletedIsForgotten
<1>5. ASSUME NEW u \in Users, NEW limit \in DynamicSpeeds, UpdateDynamicSpeedLimit(u, limit)
      PROVE  BucketInv'
  <2>1. /\ SpeedLimiter'[u] = 0
        /\ \A v \in Users : v # u => SpeedLimiter'[v] = SpeedLimiter[v] /\ UserLimitInfo'[v] = UserLimitInfo[v]
        /\ UNCHANGED <<UserOnlineIP, userList>>
    BY <1>5 DEF UpdateDynamicSpeedLimit, UserInv, WindowInv
  <2> QED
    BY <2>1 DEF BucketIsNotFaster, DeletedIsForgotten, HasInfo, UserSpeed, PastDue
<1>6. ASSUME NEW list \in Lists, UpdateUser(list) PROVE BucketInv'
  BY <1>6, UpdateUserKeepsBuckets
<1>7. ASSUME NEW alive, SetAliveList(alive) PROVE BucketInv'
  BY <1>7, <1>a DEF SetAliveList
<1>8. CASE GetOnlineDevice
  BY <1>8, <1>a DEF GetOnlineDevice
<1>9. CASE ClearOnline
  BY <1>9, <1>a DEF ClearOnline
<1>10. CASE UNCHANGED vars
  BY <1>10, <1>a DEF vars
<1> QED
  BY <1>1, <1>2, <1>3, <1>4, <1>5, <1>6, <1>7, <1>8, <1>9, <1>10 DEF Next

\* No connection is given a bucket that is faster than its user may be now,
\* whenever a limit is imposed, expires or is changed by the panel; and a user
\* the panel has deleted keeps neither bucket nor devices.
THEOREM BucketsFollowLimits == Spec => [](BucketIsNotFaster /\ DeletedIsForgotten)
<1>1. Init => BucketInv
  BY DEF Init, AddLimiter, BucketInv, BucketIsNotFaster, DeletedIsForgotten
<1>2. TypeOK => WindowInv
  BY DEF TypeOK, WindowInv
<1>3. BucketInv => BucketIsNotFaster /\ DeletedIsForgotten
  BY DEF BucketInv
<1> QED
  BY <1>1, <1>2, <1>3, BucketStep, LimiterTypeCorrect, InfoFollowsList, PTL DEF Spec

-----------------------------------------------------------------------------
\* Who is served

\* The steps that take a dynamic limit back leave the entry of a user with a
\* limit of their own, and the others leave a user's entry where it is.
LEMMA ServedStep ==
    UserInv /\ InfoIsListed /\ LimitedIsServed /\ [Next]_vars => LimitedIsServed'
<1> SUFFICES ASSUME UserInv, InfoIsListed, LimitedIsServed, [Next]_vars PROVE LimitedIsServed'
  OBVIOUS
<1>a. ASSUME UNCHANGED <<UserLimitInfo, userList>> PROVE LimitedIsServed'
  BY <1>a DEF LimitedIsServed, HasInfo
<1>b. ASSUME NEW u \in Users, HasInfo(u), NEW i \in LimitInfos,
             UserLimitInfo' = [UserLimitInfo EXCEPT ![u] = i], UNCHANGED userList
      PROVE  LimitedIsServed'
  BY <1>b, LimiterAssumption DEF LimitedIsServed, HasInfo, UserInv
<1>1. ASSUME NEW c \in Conns, NEW u \in Users, NEW a \in IPs,
             NEW isTcp \in BOOLEAN, NEW noSSUDP \in BOOLEAN,
             CheckLimit(c, u, a, isTcp, noSSUDP)
      PROVE  LimitedIsServed'
  <2>1. UNCHANGED userList
    BY <1>1, CheckLimitUsers
  <2>2. CASE UNCHANGED UserLimitInfo
    BY <2>1, <2>2, <1>a
  <2>3. CASE HasInfo(u) /\ UserLimitInfo' = [UserLimitInfo EXCEPT ![u] = Settled(u)]
    <3>1. UserLimitInfo[u].speed = userList[u].speed
      BY <2>3 DEF InfoIsListed
    <3> QED
      BY <2>1, <2>3, <3>1, SettledSpeed DEF LimitedIsServed
  <2> QED
    BY <1>1, <2>2, <2>3, CheckLimitUsers
<1>2. ASSUME NEW c \in Conns, CloseConn(c) PROVE LimitedIsServed'
  BY <1>2, <1>a DEF CloseConn
<1>3. ASSUME NEW u \in Users, NEW a \in IPs, Age(u, a) PROVE LimitedIsServed'
  BY <1>3, <1>a DEF Age
<1>4. ASSUME NEW u \in Users, Expire(u) PROVE LimitedIsServed'
  <2> DEFINE i == [UserLimitInfo[u] EXCEPT !.expire = "past"]
  <2>1. HasInfo(u) /\ UNCHANGED userList /\ UserLimitInfo' = [UserLimitInfo EXCEPT ![u] = i]
    BY <1>4 DEF Expire
  <2>2. i \in LimitInfos
    BY <2>1 DEF UserInv, HasInfo, Infos, LimitInfos, Expiries
  <2> QED
    BY <2>1, <2>2, <1>b
<1>5. ASSUME NEW u \in Users, NEW limit \in DynamicSpeeds, UpdateDynamicSpeedLimit(u, limit)
      PROVE  LimitedIsServed'
  <2> DEFINE i == [UserLimitInfo[u] EXCEPT !.dynamic = limit, !.expire = "later"]
  <2>1. HasInfo(u) /\ UNCHANGED userList /\ UserLimitInfo' = [UserLimitInfo EXCEPT ![u] = i]
    BY <1>5 DEF UpdateDynamicSpeedLimit
  <2>2. i \in LimitInfos
    BY <2>1, LimiterAssumption DEF UserInv, HasInfo, Infos, LimitInfos, Expiries
  <2> QED
    BY <2>1, <2>2, <1>b
<1>6. ASSUME NEW list \in Lists, UpdateUser(list) PROVE LimitedIsServed'
  <2> SUFFICES ASSUME NEW u \in Users, list[u] # NotListed, list[u].speed # 0
               PROVE  UserLimitInfo'[u] # NoInfo
    BY <1>6 DEF UpdateUser, LimitedIsServed, HasInfo
  <2>1. UserLimitInfo'[u] = IF u \notin Changed(list) THEN UserLimitInfo[u] ELSE NewInfo(list[u])
    BY <1>6 DEF UpdateUser
  <2>2. NewInfo(list[u]) \in LimitInfos
    BY LimiterAssumption DEF Lists, NewInfo, LimitInfos, Expiries
  <2> QED
    BY <2>1, <2>2, LimiterAssumption DEF Changed, LimitedIsServed, HasInfo
<1>7. ASSUME NEW alive, SetAliveList(alive) PROVE LimitedIsServed'
  BY <1>7, <1>a DEF SetAliveList
<1>8. CASE GetOnlineDevice
  BY <1>8, <1>a DEF GetOnlineDevice
<1>9. CASE ClearOnline
  BY <1>9, <1>a DEF ClearOnline
<1>10. CASE UNCHANGED vars
  BY <1>10, <1>a DEF vars
<1> QED
  BY <1>1, <1>2, <1>3, <1>4, <1>5, <1>6, <1>7, <1>8, <1>9, <1>10 DEF Next

\* Every user the panel lists has an entry at first.
LEMMA InitServes == Init => ListedIsServed
<1> SUFFICES ASSUME NEW list \in Lists, NEW u \in Users, list[u] # NotListed
             PROVE  NewInfo(list[u]) # NoInfo
  BY DEF Init, AddLimiter, ListedIsServed, HasInfo
<1>1. NewInfo(list[u]) \in LimitInfos
  BY LimiterAssumption DEF Lists, NewInfo, LimitInfos, Expiries
<1> QED
  BY <1>1, LimiterAssumption

\* A user with a speed limit of their own stays known to CheckLimit as long as
\* the panel lists them, whatever dynamic limits come and go.
THEOREM LimitedStayServed == Spec => []LimitedIsServed
<1>1. Init => LimitedIsServed
  BY InitServes DEF ListedIsServed, LimitedIsServed
<1> QED
  BY <1>1, ServedStep, InfoFollowsList, PTL DEF Spec

\* No dynamic limit is imposed, or every user has a limit of their own: the two
\* ways to stay clear of the entry that goes with a dynamic limit.
NobodyIsDropped == DynamicSpeeds = {} \/ \A i \in UserInfos : i.speed # 0

\* Without dynamic limits no entry is ever past due.
NeverDueInv ==
    DynamicSpeeds = {} => ListedIsServed /\ \A u \in Users : HasInfo(u) => UserLimitInfo[u].expire = "never"

\* Nothing but DynamicSpeedLimit gives an entry a time to expire.
LEMMA NeverDueStep == UserInv /\ NeverDueInv /\ [Next]_vars => NeverDueInv'
<1> SUFFICES ASSUME UserInv, NeverDueInv, [Next]_vars, DynamicSpeeds = {} PROVE NeverDueInv'
  BY DEF NeverDueInv
<1> USE DEF NeverDueInv
<1>a. ASSUME UNCHANGED <<UserLimitInfo, userList>> PROVE NeverDueInv'
  BY <1>a DEF ListedIsServed, HasInfo
<1>1. ASSUME NEW c \in Conns, NEW u \in Users, NEW a \in IPs,
             NEW isTcp \in BOOLEAN, NEW noSSUDP \in BOOLEAN,
             CheckLimit(c, u, a, isTcp, noSSUDP)
      PROVE  NeverDueInv'
  <2>1. UNCHANGED userList
    BY <1>1, CheckLimitUsers
  <2>2. CASE HasInfo(u) /\ UserLimitInfo' = [UserLimitInfo EXCEPT ![u] = Settled(u)]
    <3>1. UserLimitInfo[u].expire = "never"
      BY <2>2
    <3>2. Settled(u) = UserLimitInfo[u]
      BY <3>1 DEF Settled, PastDue
    <3>3. UNCHANGED UserLimitInfo
      BY <2>2, <3>2 DEF UserInv
    <3> QED
      BY <2>1, <3>3, <1>a
  <2> QED
    BY <1>1, <2>1, <2>2, <1>a, CheckLimitUsers
<1>2. ASSUME NEW c \in Conns, CloseConn(c) PROVE NeverDueInv'
  BY <1>2, <1>a DEF CloseConn
<1>3. ASSUME NEW u \in Users, NEW a \in IPs, Age(u, a) PROVE NeverDueInv'
  BY <1>3, <1>a DEF Age
<1>4. ASSUME NEW u \in Users, Expire(u) PROVE NeverDueInv'
  BY <1>4 DEF Expire
<1>5. ASSUME NEW list \in Lists, UpdateUser(list) PROVE NeverDueInv'
  <2>1. userList' = list
    BY <1>5 DEF UpdateUser
  <2>2. ASSUME NEW u \in Users
        PROVE  UserLimitInfo'[u] = IF u \notin Changed(list) THEN UserLimitInfo[u]
                                   ELSE IF list[u] = NotListed THEN NoInfo ELSE NewInfo(list[u])
    BY <1>5 DEF UpdateUser
  <2>3. \A u \in Users : list[u] # NotListed => NewInfo(list[u]) \in LimitInfos
    BY LimiterAssumption DEF Lists, NewInfo, LimitInfos, Expiries
  <2>4. \A u \in Users : NewInfo(list[u]).expire = "never"
    BY DEF NewInfo
  <2> QED
    BY <2>1, <2>2, <2>3, <2>4, LimiterAssumption DEF Changed, ListedIsServed, HasInfo
<1>6. ASSUME NEW alive, SetAliveList(alive) PROVE NeverDueInv'
  BY <1>6, <1>a DEF SetAliveList
<1>7. CASE GetOnlineDevice
  BY <1>7, <1>a DEF GetOnlineDevice
<1>8. CASE ClearOnline
  BY <1>8, <1>a DEF ClearOnline
<1>9. CASE UNCHANGED vars
  BY <1>9, <1>a DEF vars
<1> QED
  BY <1>1, <1>2, <1>3, <1>4, <1>5, <1>6, <1>7, <1>8, <1>9 DEF Next

\* Every listed user stays known to CheckLimit where no dynamic limit takes the
\* entry of a user without a limit of their own with it.
THEOREM ListedStayServed ==
    ASSUME NobodyIsDropped
    PROVE  Spec => []ListedIsServed
<1>1. Init => NeverDueInv
  <2>1. Init => \A u \in Users : HasInfo(u) => UserLimitInfo[u].expire = "never"
    BY DEF Init, AddLimiter, HasInfo, NewInfo
  <2> QED
    BY <2>1, InitServes DEF NeverDueInv
<1>2. UserInv /\ LimitedIsServed /\ NeverDueInv => ListedIsServed
  <2> SUFFICES ASSUME UserInv, LimitedIsServed, NeverDueInv, \A i \in UserInfos : i.speed # 0
               PROVE  ListedIsServed
    BY DEF NobodyIsDropped, NeverDueInv
  <2>1. \A u \in Users : userList[u] # NotListed => userList[u] \in UserInfos
    BY DEF UserInv, Lists
  <2> QED
    BY <2>1 DEF ListedIsServed, LimitedIsServed
<1> QED
  BY <1>1, <1>2, NeverDueStep, LimitedStayServed, InfoFollowsList, PTL DEF Spec

-----------------------------------------------------------------------------
\* The device limit

\* Without a window that is moved into OldUserOnline, no address has an owner.
NoOwners == ~DeviceWindow => \A a \in IPs : OldUserOnline[a] = NoUser

\* An address comes into the window of a user only past the device limit.
LEMMA DevicesStep ==
    ASSUME TypeOK, [Next]_vars, NEW u \in Users, NEW a \in IPs,
           a \in UserOnlineIP'[u] \ UserOnlineIP[u]
    PROVE  LET limit == UserLimitInfo[u].device
           IN limit = 0 \/ AliveList[u] < limit \/ OldUserOnline[a] # NoUser
<1>1. ASSUME NEW c \in Conns, NEW v \in Users, NEW b \in IPs,
             NEW isTcp \in BOOLEAN, NEW noSSUDP \in BOOLEAN,
             CheckLimit(c, v, b, isTcp, noSSUDP)
      PROVE  HasInfo(u) /\ ~DeviceRefuses(u, a)
  <2>1. Accepted(c, v, b, isTcp, noSSUDP) /\ noSSUDP
    BY <1>1 DEF CheckLimit, RefusedAtOnce, RefusedDevice, Accepted
  <2>2. UserOnlineIP' = [UserOnlineIP EXCEPT ![v] = @ \cup {b}] /\ HasInfo(v) /\ ~DeviceRefuses(v, b)
    BY <2>1 DEF Accepted
  <2>3. v = u /\ b = a
    BY <2>2 DEF TypeOK
  <2> QED
    BY <2>2, <2>3
<1>2. \E c \in Conns, v \in Users, b \in IPs, isTcp, noSSUDP \in BOOLEAN :
         CheckLimit(c, v, b, isTcp, noSSUDP)
  <2>1. UserOnlineIP' # UserOnlineIP /\ UserOnlineIP'[u] # {}
    OBVIOUS
  <2>2. ASSUME NEW c \in Conns, CloseConn(c) PROVE FALSE
    BY <2>1, <2>2 DEF CloseConn
  <2>3. ASSUME NEW v \in Users, NEW b \in IPs, Age(v, b) PROVE FALSE
    BY <2>1, <2>3 DEF Age
  <2>4. ASSUME NEW v \in Users, Expire(v) PROVE FALSE
    BY <2>1, <2>4 DEF Expire
  <2>5. ASSUME NEW v \in Users, NEW limit \in DynamicSpeeds, UpdateDynamicSpeedLimit(v, limit)
        PROVE  FALSE
    BY <2>1, <2>5 DEF UpdateDynamicSpeedLimit
  <2>6. ASSUME NEW list \in Lists, UpdateUser(list) PROVE FALSE
    BY <2>6 DEF UpdateUser
  <2>7. ASSUME NEW alive \in Alives, SetAliveList(alive) PROVE FALSE
    BY <2>1, <2>7 DEF SetAliveList
  <2>8. CASE GetOnlineDevice
    BY <2>1, <2>8 DEF GetOnlineDevice
  <2>9. CASE ClearOnline
    BY <2>1, <2>9 DEF ClearOnline
  <2>10. CASE UNCHANGED vars
    BY <2>1, <2>10 DEF vars
  <2> QED
    BY <2>2, <2>3, <2>4, <2>5, <2>6, <2>7, <2>8, <2>9, <2>10 DEF Next
<1>4. HasInfo(u) /\ ~DeviceRefuses(u, a)
  BY <1>1, <1>2
<1>5. UserLimitInfo[u].device \in Nat /\ AliveList[u] \in Nat /\ a \notin UserOnlineIP[u]
  BY <1>4, LimiterAssumption DEF TypeOK, HasInfo, LimitInfos, Alives
<1> QED
  BY <1>4, <1>5 DEF DeviceRefuses

\* Only GetOnlineDevice gives an address an owner of an earlier window.
LEMMA OwnersStep == TypeOK /\ NoOwners /\ [Next]_vars => NoOwners'
<1> SUFFICES ASSUME TypeOK, NoOwners, [Next]_vars, ~DeviceWindow PROVE NoOwners'
  BY DEF NoOwners
<1>1. ASSUME NEW c \in Conns, NEW u \in Users, NEW a \in IPs,
             NEW isTcp \in BOOLEAN, NEW noSSUDP \in BOOLEAN,
             CheckLimit(c, u, a, isTcp, noSSUDP)
      PROVE  OldUserOnline' \in {OldUserOnline, [OldUserOnline EXCEPT ![a] = NoUser]}
  BY <1>1 DEF CheckLimit, RefusedAtOnce, RefusedDevice, Accepted
<1>2. ASSUME NEW c \in Conns, CloseConn(c) PROVE UNCHANGED OldUserOnline
  BY <1>2 DEF CloseConn
<1>3. ASSUME NEW u \in Users, NEW a \in IPs, Age(u, a) PROVE UNCHANGED OldUserOnline
  BY <1>3 DEF Age
<1>4. ASSUME NEW u \in Users, Expire(u) PROVE UNCHANGED OldUserOnline
  BY <1>4 DEF Expire
<1>5. ASSUME NEW u \in Users, NEW limit \in DynamicSpeeds, UpdateDynamicSpeedLimit(u, limit)
      PROVE  UNCHANGED OldUserOnline
  BY <1>5 DEF UpdateDynamicSpeedLimit
<1>6. ASSUME NEW list \in Lists, UpdateUser(list) PROVE UNCHANGED OldUserOnline
  BY <1>6 DEF UpdateUser
<1>7. ASSUME NEW alive \in Alives, SetAliveList(alive) PROVE UNCHANGED OldUserOnline
  BY <1>7 DEF SetAliveList
<1>8. ~GetOnlineDevice
  BY DEF GetOnlineDevice
<1>9. ClearOnline \/ UNCHANGED vars => UNCHANGED OldUserOnline
  BY DEF ClearOnline, vars
<1>10. UNCHANGED OldUserOnline \/ \E a \in IPs : OldUserOnline' = [OldUserOnline EXCEPT ![a] = NoUser]
  BY <1>1, <1>2, <1>3, <1>4, <1>5, <1>6, <1>7, <1>8, <1>9 DEF Next
<1> QED
  BY <1>10 DEF NoOwners, TypeOK

\* A new address was one of an earlier window, or the limit leaves room for it.
DevicesAreOfBefore ==
    \A u \in Users, a \in IPs :
      a \in UserOnlineIP'[u] \ UserOnlineIP[u] =>
        LET limit == UserLimitInfo[u].device
        IN limit = 0 \/ AliveList[u] < limit \/ OldUserOnline[a] # NoUser

\* Once the panel counts as many devices as a user may have, a connection
\* brings in an address only if an earlier window had it, whoever it belonged to.
THEOREM NewDevicesAreOfBefore == Spec => [][DevicesAreOfBefore]_vars
<1>1. TypeOK /\ [Next]_vars => DevicesAreOfBefore
  BY DevicesStep DEF DevicesAreOfBefore
<1> QED
  BY <1>1, LimiterTypeCorrect, PTL DEF Spec

\* With xray, whose report leaves the window as it is, no connection brings in
\* an address at all that the user has not used since their settings changed.
THEOREM NoDeviceBeyondLimit ==
    ASSUME ~DeviceWindow
    PROVE  Spec => NoNewDevice
<1>1. Init => NoOwners
  BY DEF Init, AddLimiter, NoOwners
<1>2. TypeOK /\ NoOwners /\ [Next]_vars =>
        [\A u \in Users, a \in IPs :
           a \in UserOnlineIP'[u] \ UserOnlineIP[u] =>
             LET limit == UserLimitInfo[u].device
             IN limit = 0 \/ AliveList[u] < limit \/ OldUserOnline[a] = u]_vars
  BY DevicesStep DEF NoOwners
<1> QED
  BY <1>1, <1>2, OwnersStep, LimiterTypeCorrect, PTL DEF Spec, NoNewDevice

-----------------------------------------------------------------------------
\* Where no check comes after AddConnCount, the table is exact

\* A realtime limiter whose core gives connections back, users that are known
\* to CheckLimit as long as they are listed, and no device limits.
NothingRefusesLate ==
    /\ realtime /\ Releases /\ ~Strangers
    /\ NobodyIsDropped
    /\ \A i \in UserInfos : i.device = 0

\* CheckLimit then refuses in AddConnCount or lets the connection in.
ExactAdds(c, u, a, isTcp) ==
    /\ conn[c] = NoConn
    /\ ConnLimiter' = AddConnCount(ConnLimiter, u, a, isTcp)
    /\ conn' = IF isTcp /\ ~AddRefuses(ConnLimiter, u, a)
                 THEN [conn EXCEPT ![c] = <<u, a>>] ELSE conn

\* With nothing to refuse a connection after AddConnCount, CheckLimit keeps no
\* count of a connection it refuses.
LEMMA CheckLimitIsExact ==
    ASSUME NothingRefusesLate, TypeOK, InfoIsListed, ListedIsServed,
           NEW c \in Conns, NEW u \in Users, NEW a \in IPs, NEW isTcp \in BOOLEAN, NEW noSSUDP,
           CheckLimit(c, u, a, isTcp, noSSUDP)
    PROVE  ExactAdds(c, u, a, isTcp)
<1>1. userList[u] # NotListed /\ userList[u] \in UserInfos
  BY DEF CheckLimit, NothingRefusesLate, TypeOK, Lists
<1>2. HasInfo(u) /\ UserLimitInfo[u].device = 0
  BY <1>1 DEF ListedIsServed, InfoIsListed, NothingRefusesLate
<1>3. CASE RefusedAtOnce(u, a, isTcp)
  BY <1>2, <1>3 DEF CheckLimit, RefusedAtOnce, ExactAdds
<1>4. ~RefusedDevice(u, a, isTcp, noSSUDP)
  BY <1>2 DEF RefusedDevice, DeviceRefuses
<1>5. CASE Accepted(c, u, a, isTcp, noSSUDP)
  BY <1>5 DEF CheckLimit, Accepted, ExactAdds
<1> QED
  BY <1>3, <1>4, <1>5 DEF CheckLimit

\* What every step then does to the table and the connections.
ExactCloses(c) ==
    /\ conn[c] # NoConn
    /\ conn' = [conn EXCEPT ![c] = NoConn]
    /\ ConnLimiter' = DelConnCount(ConnLimiter, conn[c][1], conn[c][2])

ExactStep ==
    \/ \E c \in Conns, u \in Users, a \in IPs, isTcp \in BOOLEAN : ExactAdds(c, u, a, isTcp)
    \/ \E c \in Conns : ExactCloses(c)
    \/ ConnLimiter' = ClearOnlineIP(ConnLimiter) /\ UNCHANGED conn
    \/ UNCHANGED <<ConnLimiter, conn>>

\* Every step on the counts is that of one connection, or ClearOnlineIP.
LEMMA StepsAreExact ==
    ASSUME NothingRefusesLate, TypeOK, InfoIsListed, ListedIsServed, [Next]_vars
    PROVE  ExactStep
<1> USE DEF ExactStep
<1>1. ASSUME NEW c \in Conns, NEW u \in Users, NEW a \in IPs,
             NEW isTcp \in BOOLEAN, NEW noSSUDP \in BOOLEAN,
             CheckLimit(c, u, a, isTcp, noSSUDP)
      PROVE  ExactStep
  BY <1>1, CheckLimitIsExact
<1>2. ASSUME NEW c \in Conns, CloseConn(c) PROVE ExactStep
  BY <1>2 DEF CloseConn, NothingRefusesLate, ExactCloses
<1>3. ASSUME NEW u \in Users, NEW a \in IPs, Age(u, a) PROVE ExactStep
  BY <1>3 DEF Age, NothingRefusesLate
<1>4. ASSUME NEW u \in Users, Expire(u) PROVE ExactStep
  BY <1>4 DEF Expire
<1>5. ASSUME NEW u \in Users, NEW limit, UpdateDynamicSpeedLimit(u, limit) PROVE ExactStep
  BY <1>5 DEF UpdateDynamicSpeedLimit
<1>6. ASSUME NEW list, UpdateUser(list) PROVE ExactStep
  BY <1>6 DEF UpdateUser
<1>7. ASSUME NEW alive, SetAliveList(alive) PROVE ExactStep
  BY <1>7 DEF SetAliveList
<1>8. CASE GetOnlineDevice
  BY <1>8 DEF GetOnlineDevice
<1>9. CASE ClearOnline
  BY <1>9 DEF ClearOnline
<1>10. CASE UNCHANGED vars
  BY <1>10 DEF vars
<1> QED
  BY <1>1, <1>2, <1>3, <1>4, <1>5, <1>6, <1>7, <1>8, <1>9, <1>10 DEF Next

\* The table, entry by entry, after AddConnCount and DelConnCount.
LEMMA AddExactly ==
    ASSUME NEW t \in Tables, NEW u \in Users, NEW a \in IPs, NEW isTcp \in BOOLEAN
    PROVE  LET n == AddConnCount(t, u, a, isTcp)
           IN IF AddRefuses(t, u, a)
                THEN n.ip = t.ip /\ (ipLimit = 0 => n = t)
                ELSE /\ n.ip = [t.ip EXCEPT ![u][a] = Touched(@, isTcp)]
                     /\ n.count = IF connLimit # 0 /\ isTcp THEN [t.count EXCEPT ![u] = @ + 1] ELSE t.count
<1>1. Counted(t, u, isTcp).ip = t.ip /\ Counted(t, u, isTcp) \in Tables
  BY CountedTable
<1>2. CASE OverConnLimit(t, u)
  BY <1>2 DEF AddRefuses, AddConnCount
<1>3. CASE ~OverConnLimit(t, u) /\ OverIPLimit(t, u, a)
  <2>1. ipLimit # 0
    BY <1>3 DEF OverIPLimit
  <2> QED
    BY <1>1, <1>3, <2>1 DEF AddRefuses, AddConnCount
<1>4. CASE ~OverConnLimit(t, u) /\ ~OverIPLimit(t, u, a)
  <2>1. AddConnCount(t, u, a, isTcp) = [Counted(t, u, isTcp) EXCEPT !.ip[u][a] = Touched(@, isTcp)]
    BY <1>4 DEF AddConnCount
  <2>2. AddConnCount(t, u, a, isTcp).ip = [t.ip EXCEPT ![u][a] = Touched(@, isTcp)]
    BY <1>1, <2>1 DEF Tables
  <2>3. AddConnCount(t, u, a, isTcp).count = Counted(t, u, isTcp).count
    BY <1>1, <2>1 DEF Tables
  <2>4. Counted(t, u, isTcp).count
          = IF connLimit # 0 /\ isTcp THEN [t.count EXCEPT ![u] = @ + 1] ELSE t.count
    BY DEF Counted, Tables
  <2> QED
    BY <1>4, <2>2, <2>3, <2>4 DEF AddRefuses
<1> QED
  BY <1>2, <1>3, <1>4

\* An address is on record with two for each connection and one for packets; a
\* connection is counted while it is open.
ExactRecords ==
    ipLimit # 0 => \A u \in Users, a \in IPs :
      ConnLimiter.ip[u][a] - Tcp * Cardinality(OpenAtBy(conn, u, a)) \in {0, Packet}

ExactCounts ==
    connLimit # 0 /\ ipLimit = 0 =>
      \A u \in Users : ConnLimiter.count[u] = Cardinality(OpenOfBy(conn, u))

ExactInv == ExactRecords /\ ExactCounts

\* A connection is counted and put on record exactly when it is let in.
LEMMA ExactAddsKeeps ==
    ASSUME realtime, TableInv, ExactInv, NEW c \in Conns, NEW u \in Users, NEW a \in IPs,
           NEW isTcp \in BOOLEAN, ExactAdds(c, u, a, isTcp)
    PROVE  ExactInv'
<1> DEFINE t == ConnLimiter
           n == AddConnCount(ConnLimiter, u, a, isTcp)
<1>1. t \in Tables /\ conn \in Opens /\ conn[c] = NoConn /\ ConnLimiter' = n
  BY DEF TableInv, ExactAdds
<1>2. IF AddRefuses(t, u, a)
        THEN n.ip = t.ip /\ (ipLimit = 0 => n = t)
        ELSE /\ n.ip = [t.ip EXCEPT ![u][a] = Touched(@, isTcp)]
             /\ n.count = IF connLimit # 0 /\ isTcp THEN [t.count EXCEPT ![u] = @ + 1] ELSE t.count
  BY <1>1, AddExactly
<1>3. /\ \A v : Cardinality(OpenOfBy(conn, v)) \in Nat
      /\ \A v, x : Cardinality(OpenAtBy(conn, v, x)) \in Nat
  BY OpensAreFinite
<1>4. t.count \in [Users -> Nat] /\ t.ip \in [Users -> [IPs -> Nat]]
  BY <1>1 DEF Tables
<1> HIDE DEF n, t
<1>5. CASE AddRefuses(t, u, a)
  <2>1. UNCHANGED conn
    BY <1>5 DEF ExactAdds, t
  <2>2. n.ip = t.ip /\ (ipLimit = 0 => n.count = t.count)
    BY <1>2, <1>5
  <2> QED
    BY <1>1, <2>1, <2>2 DEF ExactInv, ExactRecords, ExactCounts, t
<1>6. CASE ~AddRefuses(t, u, a) /\ isTcp
  <2>1. /\ Cardinality(OpenOfBy(conn', u)) = Cardinality(OpenOfBy(conn, u)) + 1
        /\ \A v \in Users : v # u => OpenOfBy(conn', v) = OpenOfBy(conn, v)
        /\ Cardinality(OpenAtBy(conn', u, a)) = Cardinality(OpenAtBy(conn, u, a)) + 1
        /\ \A v \in Users, x \in IPs :
             <<v, x>> # <<u, a>> => OpenAtBy(conn', v, x) = OpenAtBy(conn, v, x)
    <3>1. conn' = [conn EXCEPT ![c] = <<u, a>>]
      BY <1>6 DEF ExactAdds, t
    <3> QED
      BY <1>1, <3>1, OpenOneMore
  <2>2. connLimit # 0 => /\ n.count[u] = t.count[u] + 1
                         /\ \A v \in Users : v # u => n.count[v] = t.count[v]
    BY <1>2, <1>4, <1>6
  <2>3. /\ n.ip[u][a] = t.ip[u][a] + Tcp
        /\ \A v \in Users, x \in IPs : <<v, x>> # <<u, a>> => n.ip[v][x] = t.ip[v][x]
    BY <1>2, <1>4, <1>6 DEF Touched, Tcp
  <2>4. ExactCounts'
    BY <1>1, <2>1, <2>2 DEF ExactInv, ExactCounts, t
  <2>5. ExactRecords'
    <3> SUFFICES ASSUME ipLimit # 0, NEW v \in Users, NEW x \in IPs
                 PROVE  n.ip[v][x] - Tcp * Cardinality(OpenAtBy(conn', v, x)) \in {0, Packet}
      BY <1>1 DEF ExactRecords
    <3>1. t.ip[v][x] - Tcp * Cardinality(OpenAtBy(conn, v, x)) \in {0, Packet}
      BY DEF ExactInv, ExactRecords, t
    <3>2. CASE <<v, x>> = <<u, a>>
      <4>1. t.ip[u][a] \in Nat /\ Cardinality(OpenAtBy(conn, u, a)) \in Nat
        BY <1>3, <1>4
      <4> QED
        BY <2>1, <2>3, <3>1, <3>2, <4>1 DEF Tcp, Packet
    <3>3. CASE <<v, x>> # <<u, a>>
      BY <2>1, <2>3, <3>1, <3>3
    <3> QED
      BY <3>2, <3>3
  <2> QED
    BY <2>4, <2>5 DEF ExactInv
<1>7. CASE ~AddRefuses(t, u, a) /\ ~isTcp
  <2>1. UNCHANGED conn /\ n.count = t.count
    BY <1>2, <1>7 DEF ExactAdds
  <2>2. /\ n.ip[u][a] = IF t.ip[u][a] = 0 THEN Packet ELSE t.ip[u][a]
        /\ \A v \in Users, x \in IPs : <<v, x>> # <<u, a>> => n.ip[v][x] = t.ip[v][x]
    BY <1>2, <1>4, <1>7 DEF Touched
  <2>3. ExactCounts'
    BY <1>1, <2>1 DEF ExactInv, ExactCounts, t
  <2>4. ExactRecords'
    <3> SUFFICES ASSUME ipLimit # 0, NEW v \in Users, NEW x \in IPs
                 PROVE  n.ip[v][x] - Tcp * Cardinality(OpenAtBy(conn, v, x)) \in {0, Packet}
      BY <1>1, <2>1 DEF ExactRecords
    <3>1. t.ip[v][x] - Tcp * Cardinality(OpenAtBy(conn, v, x)) \in {0, Packet}
      BY DEF ExactInv, ExactRecords, t
    <3>2. t.ip[v][x] \in Nat /\ Cardinality(OpenAtBy(conn, v, x)) \in Nat
      BY <1>3, <1>4
    <3>3. CASE v = u /\ x = a
      <4>1. t.ip[u][a] = 0 => Cardinality(OpenAtBy(conn, u, a)) = 0
        BY <3>1, <3>2, <3>3 DEF Tcp, Packet
      <4> QED
        BY <2>2, <3>1, <3>2, <3>3, <4>1 DEF Tcp, Packet
    <3>4. CASE <<v, x>> # <<u, a>>
      BY <2>2, <3>1, <3>4
    <3> QED
      BY <3>3, <3>4
  <2> QED
    BY <2>3, <2>4 DEF ExactInv
<1> QED
  BY <1>5, <1>6, <1>7

\* A connection that closes is taken out of both.
LEMMA ExactClosesKeeps ==
    ASSUME realtime, TableInv, ExactInv, NEW c \in Conns, ExactCloses(c)
    PROVE  ExactInv'
<1>1. ConnLimiter \in Tables /\ conn \in Opens
  BY DEF TableInv
<1>2. PICK u \in Users, a \in IPs : conn[c] = <<u, a>>
  BY <1>1 DEF Opens, ExactCloses
<1> DEFINE t == ConnLimiter
           n == DelConnCount(ConnLimiter, u, a)
<1>3. ConnLimiter' = n /\ conn' = [conn EXCEPT ![c] = NoConn]
  BY <1>2 DEF ExactCloses
<1>4. /\ Cardinality(OpenOfBy(conn', u)) = Cardinality(OpenOfBy(conn, u)) - 1
      /\ \A v \in Users : v # u => OpenOfBy(conn', v) = OpenOfBy(conn, v)
      /\ Cardinality(OpenAtBy(conn', u, a)) = Cardinality(OpenAtBy(conn, u, a)) - 1
      /\ \A v \in Users, x \in IPs :
           <<v, x>> # <<u, a>> => OpenAtBy(conn', v, x) = OpenAtBy(conn, v, x)
  BY <1>1, <1>2, <1>3, OpenOneLess DEF ExactCloses
<1>5. /\ \A v : Cardinality(OpenOfBy(conn, v)) \in Nat
      /\ \A v, x : Cardinality(OpenAtBy(conn, v, x)) \in Nat
      /\ Cardinality(OpenOfBy(conn, u)) # 0 /\ Cardinality(OpenAtBy(conn, u, a)) # 0
  BY <1>4, OpensAreFinite
<1>6. t.count \in [Users -> Nat] /\ t.ip \in [Users -> [IPs -> Nat]]
  BY <1>1 DEF Tables
<1>7. /\ n.count = IF connLimit # 0 /\ t.count[u] # 0 THEN [t.count EXCEPT ![u] = @ - 1] ELSE t.count
      /\ n.ip = IF ipLimit # 0 /\ t.ip[u][a] # 0 THEN [t.ip EXCEPT ![u][a] = @ - Tcp] ELSE t.ip
  BY DEF DelConnCount
<1> HIDE DEF n, t
<1>8. ExactCounts'
  <2> SUFFICES ASSUME connLimit # 0, ipLimit = 0, NEW v \in Users
               PROVE  n.count[v] = Cardinality(OpenOfBy(conn', v))
    BY <1>3 DEF ExactCounts
  <2>1. \A w \in Users : t.count[w] = Cardinality(OpenOfBy(conn, w))
    BY DEF ExactInv, ExactCounts, t
  <2>2. n.count = [t.count EXCEPT ![u] = t.count[u] - 1]
    BY <1>5, <1>7, <2>1
  <2> QED
    BY <1>4, <1>6, <2>1, <2>2
<1>9. ExactRecords'
  <2> SUFFICES ASSUME ipLimit # 0, NEW v \in Users, NEW x \in IPs
               PROVE  n.ip[v][x] - Tcp * Cardinality(OpenAtBy(conn', v, x)) \in {0, Packet}
    BY <1>3 DEF ExactRecords
  <2>1. \A w \in Users, y \in IPs : t.ip[w][y] - Tcp * Cardinality(OpenAtBy(conn, w, y)) \in {0, Packet}
    BY DEF ExactInv, ExactRecords, t
  <2>2. t.ip[u][a] # 0
    BY <1>5, <1>6, <2>1 DEF Tcp, Packet
  <2>3. n.ip = [t.ip EXCEPT ![u][a] = t.ip[u][a] - Tcp]
    BY <1>7, <2>2
  <2>4. CASE v = u /\ x = a
    <3>1. n.ip[u][a] = t.ip[u][a] - Tcp
      BY <1>6, <2>3
    <3>2. t.ip[u][a] \in Nat /\ Cardinality(OpenAtBy(conn, u, a)) \in Nat
      BY <1>5, <1>6
    <3> QED
      BY <1>4, <2>1, <2>4, <3>1, <3>2 DEF Tcp, Packet
  <2>5. CASE <<v, x>> # <<u, a>>
    <3>1. n.ip[v][x] = t.ip[v][x]
      BY <1>6, <2>3, <2>5
    <3> QED
      BY <1>4, <2>1, <2>5, <3>1
  <2> QED
    BY <2>4, <2>5
<1> QED
  BY <1>8, <1>9 DEF ExactInv

\* ClearOnlineIP takes the ones for packets, where no connection is open.
LEMMA ExactClearKeeps ==
    ASSUME realtime, TableInv, ExactInv, ConnLimiter' = ClearOnlineIP(ConnLimiter), UNCHANGED conn
    PROVE  ExactInv'
<1>1. ConnLimiter \in Tables
  BY DEF TableInv
<1>2. ConnLimiter'.count = ConnLimiter.count
  BY <1>1, ClearTable
<1>3. \A u \in Users, a \in IPs :
        ConnLimiter'.ip[u][a] = IF ConnLimiter.ip[u][a] = Packet THEN 0 ELSE ConnLimiter.ip[u][a]
  BY <1>1 DEF ClearOnlineIP, Tables
<1>4. ExactRecords'
  <2> SUFFICES ASSUME ipLimit # 0, NEW u \in Users, NEW a \in IPs
               PROVE  ConnLimiter'.ip[u][a] - Tcp * Cardinality(OpenAtBy(conn, u, a)) \in {0, Packet}
    BY DEF ExactRecords
  <2>1. ConnLimiter.ip[u][a] - Tcp * Cardinality(OpenAtBy(conn, u, a)) \in {0, Packet}
    BY DEF ExactInv, ExactRecords
  <2>2. ConnLimiter.ip[u][a] \in Nat /\ Cardinality(OpenAtBy(conn, u, a)) \in Nat
    BY <1>1, OpensAreFinite DEF Tables
  <2> QED
    BY <1>3, <2>1, <2>2 DEF Tcp, Packet
<1> QED
  BY <1>2, <1>4 DEF ExactInv, ExactCounts

\* Then the counts are those of the open connections, in every state.
LEMMA ExactInvariant ==
    ASSUME NothingRefusesLate
    PROVE  Spec => []ExactInv
<1> USE DEF NothingRefusesLate
<1>1. Init => ExactInv
  <2> SUFFICES ASSUME Init PROVE ExactInv
    OBVIOUS
  <2>1. ConnLimiter = NewConnLimiter /\ conn = [c \in Conns |-> NoConn]
    BY DEF Init, AddLimiter
  <2>2. \A u \in Users : OpenOfBy(conn, u) = {} /\ \A a \in IPs : OpenAtBy(conn, u, a) = {}
    BY <2>1, LimiterAssumption DEF OpenOfBy, OpenAtBy
  <2>3. \A u \in Users : /\ ConnLimiter.count[u] = 0 /\ Cardinality(OpenOfBy(conn, u)) = 0
                         /\ \A a \in IPs : /\ ConnLimiter.ip[u][a] = 0
                                           /\ Cardinality(OpenAtBy(conn, u, a)) = 0
    BY <2>1, <2>2, FS_EmptySet DEF NewConnLimiter
  <2> QED
    BY <2>3 DEF ExactInv, ExactRecords, ExactCounts, Tcp
<1>2. TypeOK /\ InfoIsListed /\ ListedIsServed /\ TableInv /\ ExactInv /\ [Next]_vars => ExactInv'
  <2> SUFFICES ASSUME TypeOK, InfoIsListed, ListedIsServed, TableInv, ExactInv, [Next]_vars
               PROVE  ExactInv'
    OBVIOUS
  <2>1. ExactStep
    BY StepsAreExact
  <2>2. CASE UNCHANGED <<ConnLimiter, conn>>
    BY <2>2 DEF ExactInv, ExactRecords, ExactCounts
  <2> QED
    BY <2>1, <2>2, ExactAddsKeeps, ExactClosesKeeps, ExactClearKeeps DEF ExactStep
<1>3. NobodyIsDropped
  OBVIOUS
<1>4. Spec => []ListedIsServed
  BY <1>3, ListedStayServed
<1> QED
  BY <1>1, <1>2, <1>4, TableInvariant, LimiterTypeCorrect, InfoFollowsList, PTL DEF Spec

\* Where no check comes after AddConnCount, and no IPLimit makes it refuse what
\* it has counted, only open connections count against ConnLimit.
THEOREM CountsAreOpen ==
    ASSUME NothingRefusesLate, ipLimit = 0
    PROVE  Spec => []CountsOpenOnly
<1>1. ExactInv => CountsOpenOnly
  <2>1. \A u : OpenOf(u) = OpenOfBy(conn, u)
    BY DEF OpenOf, OpenOfBy
  <2> QED
    BY <2>1 DEF ExactInv, ExactCounts, CountsOpenOnly
<1> QED
  BY <1>1, ExactInvariant, PTL

\* Where no check comes after AddConnCount, an address is on record with its
\* open connections and packet traffic, and so leaves it when those end.
THEOREM RecordsAreOpen ==
    ASSUME NothingRefusesLate
    PROVE  Spec => []RecordsOpenOnly
<1>1. ExactInv => RecordsOpenOnly
  <2>1. \A u, a : OpenAt(u, a) = OpenAtBy(conn, u, a)
    BY DEF OpenAt, OpenAtBy
  <2> QED
    BY <2>1 DEF ExactInv, ExactRecords, RecordsOpenOnly
<1> QED
  BY <1>1, ExactInvariant, PTL
=============================================================================
