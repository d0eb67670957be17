---------------------------- MODULE TrafficProofs ----------------------------
(***************************************************************************)
(* Proofs about Traffic: what the report bills and what the dynamic limit  *)
(* is given for, for any number of users, lists, bytes and failing pushes, *)
(* as long as the panel only adds users.                                   *)
(***************************************************************************)
EXTENDS Traffic, TLAPS

\* Bytes by user and direction.
Bytes == [Users -> [Dirs -> Nat]]

LEMMA Constants ==
    /\ None \in [Dirs -> Nat] /\ Nobody \in Bytes /\ Zero \in [Users -> Nat]
    /\ \A d \in Dirs : None[d] = 0
    /\ \A u \in Users, d \in Dirs : Nobody[u][d] = 0
    /\ \A b \in [Dirs -> Nat] : Sum(b) \in Nat /\ Sum(b) = b["up"] + b["down"]
BY DEF None, Nobody, Zero, Dirs, Bytes, Sum

\* The entries of a list are of users.
LEMMA ListEntries ==
    ASSUME NEW list \in Lists
    PROVE  /\ Len(list) \in Nat
           /\ \A k \in 1..Len(list) : list[k].user \in Users
           /\ UsersOf(list) \subseteq Users
<1>1. list \in Seq(Entries)
  BY TrafficAssumption
<1>2. Len(list) \in Nat /\ \A k \in 1..Len(list) : list[k] \in Entries
  BY <1>1
<1> QED
  BY <1>2 DEF Entries, UsersOf

\* The new list is longer than the present one, at its end.
LEMMA PrefixElements ==
    ASSUME NEW s \in Lists, NEW t \in Lists, IsPrefix(s, t)
    PROVE  Len(s) <= Len(t) /\ \A k \in 1..Len(s) : s[k] = t[k]
<1>1. Len(s) <= Len(t) /\ SubSeq(s, 1, Len(s)) = SubSeq(t, 1, Len(s))
  BY DEF IsPrefix
<1>2. \A k \in 1..Len(s) : s[k] = t[k]
  BY <1>1, TrafficAssumption
<1> QED
  BY <1>1, <1>2

\* A list is a prefix of itself.
LEMMA PrefixOfItself ==
    ASSUME NEW s \in Lists
    PROVE  IsPrefix(s, s)
BY TrafficAssumption DEF IsPrefix

-----------------------------------------------------------------------------
\* The invariant

Types ==
    /\ counters \in Bytes /\ batch \in Bytes /\ moved \in Bytes /\ billed \in Bytes
    /\ traffic \in [Users -> Nat] /\ limited \in [Users -> Nat]
    /\ got \in [Dirs -> Nat] /\ who \in Users \cup {NoUser}

\* Where the report is at a user.
Working == {"readUp", "readDown", "resetUp", "resetDown", "record", "append"}

\* The user the report is at stays at its index: the list only grows.
WalkInv ==
    /\ userList \in Lists /\ newList \in Lists
    /\ i \in Nat \ {0} /\ n \in Nat /\ n <= Len(userList)
    /\ mon \in {"delUsers", "addUsers", "store"} => IsPrefix(userList, newList)
    /\ pc \in Working => who \in Users /\ i <= n /\ userList[i].user = who
    /\ Atomic => pc \notin {"resetUp", "resetDown"}
    /\ pc = "readUp" => got = None
    /\ pc = "readDown" => got["down"] = 0
    /\ core # "hy2" => pc # "panicked"
    /\ core = "xray" => detached = {}

\* What the core has counted and the report has read.  Between the read and
\* the reset of a counter they are the same bytes, unless the counter has
\* been set or lost meanwhile: no more than the larger of the two.
Larger(x, y) == IF x > y THEN x ELSE y

TakenAt(d) ==
    IF Atomic THEN {"readUp", "readDown", "record", "append"}
    ELSE IF d = "up" THEN {"resetDown", "record", "append"}
    ELSE {"record", "append"}

Owed(u, d) ==
    IF pc \notin Working \/ u # who THEN counters[u][d]
    ELSE IF pc \in TakenAt(d) THEN counters[u][d] + got[d]
    ELSE Larger(counters[u][d], got[d])

TwiceInv ==
    ~answerLost => \A u \in Users, d \in Dirs : Owed(u, d) + batch[u][d] + billed[u][d] <= moved[u][d]

-----------------------------------------------------------------------------
LEMMA InitTypes ==
    ASSUME Init
    PROVE  Types /\ WalkInv
<1>1. Types
  BY Constants DEF Init, Types
<1>2. WalkInv
  BY ListEntries DEF Init, WalkInv, Working
<1> QED
  BY <1>1, <1>2

\* With a panel that only adds users nobody is deleted.
LEMMA NobodyDeleted ==
    ASSUME WalkInv, mon \in {"delUsers", "addUsers"}
    PROVE  Deleted = {}
<1>1. \A k \in 1..Len(userList) : k \in 1..Len(newList) /\ newList[k] = userList[k]
  BY PrefixElements, ListEntries DEF WalkInv
<1>2. \A k \in 1..Len(userList) : Contains(newList, userList[k])
  BY <1>1 DEF Contains
<1> QED
  BY <1>2 DEF Deleted

\* One step of one of the three goroutines, or a byte.
Steps ==
    \/ \E u \in Users, d \in Dirs : \/ Count(u, d) \/ CountNowhere(u, d)
                                    \/ \E bytes \in 0..1 : CountLast(u, d, bytes)
    \/ Report \/ SpeedChecker \/ Monitor

LEMMA NextSteps ==
    ASSUME Next
    PROVE  pc # "panicked" /\ Steps /\ core' = core
BY DEF Next, Running, Steps

\* A table of bytes with one entry changed.
LEMMA OneEntry ==
    ASSUME NEW b \in Bytes, NEW u \in Users, NEW d \in Dirs, NEW x \in Nat
    PROVE  /\ [b EXCEPT ![u][d] = x] \in Bytes
           /\ \A v \in Users, e \in Dirs :
                [b EXCEPT ![u][d] = x][v][e] = IF v = u /\ e = d THEN x ELSE b[v][e]
BY DEF Bytes

LEMMA TypesKept ==
    ASSUME Types, WalkInv, Steps
    PROVE  Types'
<1>1. \A u \in Users, d \in Dirs : /\ counters[u][d] \in Nat /\ batch[u][d] \in Nat
                                   /\ moved[u][d] \in Nat /\ billed[u][d] \in Nat
  BY DEF Types, Bytes
<1>2. ASSUME NEW u \in Users, NEW d \in Dirs, Count(u, d) PROVE Types'
  <2>1. moved[u][d] + 1 \in Nat /\ counters[u][d] + 1 \in Nat
    BY <1>1, <1>2
  <2>2. moved' \in Bytes /\ counters' \in Bytes
    BY <1>2, <2>1, OneEntry DEF Count, Types
  <2> QED
    BY <1>2, <2>2 DEF Count, Types, pushVars, readVars
<1>3. ASSUME NEW u \in Users, NEW d \in Dirs, CountNowhere(u, d) PROVE Types'
  <2>1. moved[u][d] + 1 \in Nat
    BY <1>1, <1>3
  <2>2. moved' \in Bytes
    BY <1>3, <2>1, OneEntry DEF CountNowhere, Types
  <2> QED
    BY <1>3, <2>2 DEF CountNowhere, Types, pushVars, readVars
<1>4. ASSUME NEW u \in Users, NEW d \in Dirs, NEW bytes \in 0..1, CountLast(u, d, bytes) PROVE Types'
  <2>1. moved[u][d] + bytes \in Nat /\ bytes \in Nat
    BY <1>1, <1>4
  <2>2. moved' \in Bytes /\ counters' \in Bytes
    BY <1>4, <2>1, OneEntry DEF CountLast, Types
  <2> QED
    BY <1>4, <2>2 DEF CountLast, Types, pushVars, readVars
<1>5. CASE Begin
  BY <1>5, Constants DEF Begin, Types, pushVars
<1>6. CASE ReportPanics
  BY <1>6 DEF ReportPanics, Types, pushVars, readVars
<1>7. CASE NextUser
  BY <1>7, Constants, ListEntries DEF NextUser, Types, WalkInv, pushVars
<1>8. ASSUME NEW d \in Dirs, NEW here \in Working, NEW next, Read(d, here, next) PROVE Types'
  <2>1. who \in Users /\ counters[who][d] \in Nat
    BY <1>1, <1>8 DEF Read, WalkInv
  <2>2. got' \in [Dirs -> Nat]
    BY <1>8, <2>1 DEF Read, Types
  <2>3. counters' \in Bytes
    BY <1>8, <2>1, OneEntry DEF Read, Types
  <2> QED
    BY <1>8, <2>2, <2>3 DEF Read, Types, pushVars
<1>9. ASSUME NEW d \in Dirs, NEW here \in Working, NEW next, Reset(d, here, next) PROVE Types'
  <2>1. who \in Users
    BY <1>9 DEF Reset, WalkInv
  <2>2. counters' \in Bytes
    BY <1>9, <2>1, OneEntry DEF Reset, Types
  <2> QED
    BY <1>9, <2>2 DEF Reset, Types, pushVars, readVars
<1>10. CASE SkipUser
  BY <1>10, Constants DEF SkipUser, DoneWithUser, Types, pushVars
<1>11. CASE AddTraffic
  <2>1. Sum(got) \in Nat
    BY Constants DEF Types
  <2>2. who \in Users /\ userList[i].user = who
    BY <1>11 DEF AddTraffic, WalkInv, Working
  <2>3. traffic' = [traffic EXCEPT ![who] = @ + Sum(got)]
    BY <1>11, <2>2 DEF AddTraffic
  <2>4. traffic' \in [Users -> Nat]
    BY <2>1, <2>2, <2>3 DEF Types
  <2> QED
    BY <1>11, <2>4 DEF AddTraffic, Types, pushVars, readVars
<1>12. CASE AppendTraffic
  <2>1. who \in Users /\ userList[i].user = who
    BY <1>12 DEF AppendTraffic, WalkInv, Working
  <2>2. Appended(who) \in [Dirs -> Nat]
    BY <1>1, <2>1 DEF Appended, Plus, Types, Bytes
  <2>3. batch' = [batch EXCEPT ![who] = Appended(who)]
    BY <1>12, <2>1 DEF AppendTraffic
  <2>4. batch' \in Bytes
    BY <2>2, <2>3 DEF Types, Bytes
  <2> QED
    BY <1>12, <2>4, Constants DEF AppendTraffic, DoneWithUser, Types, pushVars
<1>13. CASE BeginPush
  BY <1>13 DEF BeginPush, Types
<1>14. Bill => billed' \in Bytes
  BY <1>1 DEF Bill, Plus, Bytes
<1>15. CASE PushOk
  BY <1>14, <1>15, Constants DEF PushOk, Types, readVars
<1>16. NextAttempt \/ NextPath => batch' \in Bytes
  BY Constants DEF NextAttempt, NextPath, Types
<1>17. CASE PushRejected \/ PushUnsent
  BY <1>16, <1>17 DEF PushRejected, PushUnsent, Types, readVars
<1>18. CASE PushAnswerLost
  BY <1>14, <1>16, <1>18 DEF PushAnswerLost, Types, readVars
<1>19. CASE SpeedChecker
  <2>1. traffic' \in [Users -> Nat] /\ limited' \in [Users -> Nat]
    BY <1>19 DEF SpeedChecker, Types
  <2> QED
    BY <1>19, <2>1 DEF SpeedChecker, Types, pushVars, readVars
<1>20. ASSUME NEW list \in Lists, TakeList(list) \/ Reload(list) PROVE Types'
  BY <1>20, Constants DEF TakeList, Reload, Types, pushVars, readVars
<1>21. CASE DelUsers
  <2>1. counters' \in Bytes
    BY <1>21, Constants DEF DelUsers, Types, Bytes
  <2> QED
    BY <1>21, <2>1 DEF DelUsers, Types, pushVars, readVars
<1>22. CASE AddUsers
  <2>1. traffic' \in [Users -> Nat]
    BY <1>22 DEF AddUsers, Types
  <2> QED
    BY <1>22, <2>1 DEF AddUsers, Types, pushVars, readVars
<1>23. CASE StoreList \/ AddNode
  BY <1>23 DEF StoreList, AddNode, Types, pushVars, readVars
<1>24. CASE DelNode
  BY <1>24, Constants DEF DelNode, Types, pushVars, readVars
<1>25. GetUserTraffic => \E d \in Dirs, here \in Working : \E next : Read(d, here, next) \/ Reset(d, here, next)
  BY DEF GetUserTraffic, Dirs, Working
<1>26. CASE Report
  BY <1>5, <1>6, <1>7, <1>8, <1>9, <1>10, <1>11, <1>12, <1>13, <1>15, <1>17, <1>18, <1>25, <1>26 DEF Report
<1>27. CASE Monitor
  BY <1>20, <1>21, <1>22, <1>23, <1>24, <1>27 DEF Monitor, Apply
<1> QED
  BY <1>2, <1>3, <1>4, <1>19, <1>26, <1>27 DEF Steps

\* The report's place in the list, next to the monitor.
LEMMA WalkKept ==
    ASSUME OnlyAppends, Types, WalkInv, Steps, core' = core, pc # "panicked"
    PROVE  WalkInv'
<1>1. /\ userList \in Lists /\ newList \in Lists /\ Len(userList) \in Nat
      /\ i \in Nat \ {0} /\ n \in Nat /\ n <= Len(userList)
  BY ListEntries DEF WalkInv
<1>2. ASSUME NEW u \in Users, NEW d \in Dirs,
             Count(u, d) \/ CountNowhere(u, d) \/ \E bytes \in 0..1 : CountLast(u, d, bytes)
      PROVE  WalkInv'
  BY <1>2 DEF Count, CountNowhere, CountLast, WalkInv, Atomic, connVars, monVars, readVars
<1>3. CASE Begin
  BY <1>1, <1>3 DEF Begin, WalkInv, Working, Atomic, connVars, monVars
<1>4. CASE ReportPanics
  BY <1>1, <1>4 DEF ReportPanics, WalkInv, Working, Atomic, connVars, monVars, readVars
<1>5. CASE NextUser
  <2>1. userList[i].user \in Users
    BY <1>1, <1>5, ListEntries DEF NextUser
  <2> QED
    BY <1>1, <1>5, <2>1 DEF NextUser, WalkInv, Working, Atomic, connVars, monVars
<1>6. CASE GetUserTraffic
  <2>1. pc \in Working /\ UNCHANGED <<i, n, who, userList, newList, mon, detached>>
    BY <1>6 DEF GetUserTraffic, Read, Reset, Working, connVars, monVars, readVars
  <2>2. pc' \in Working \ {"readUp", "append"} /\ (Atomic => pc' \notin {"resetUp", "resetDown"})
    BY <1>6 DEF GetUserTraffic, Read, Reset, Working, WalkInv, Atomic
  <2>3. pc' = "readDown" => got'["down"] = 0
    <3>1. pc' = "readDown" => pc = "readUp" /\ got = None /\ got' = [got EXCEPT !["up"] = counters[who]["up"]]
      BY <1>6 DEF GetUserTraffic, Read, Reset, WalkInv
    <3> QED
      BY <3>1, Constants DEF Dirs
  <2> QED
    BY <2>1, <2>2, <2>3 DEF WalkInv, Working, Atomic
<1>7. CASE SkipUser
  BY <1>1, <1>7 DEF SkipUser, DoneWithUser, WalkInv, Working, Atomic, connVars, monVars
<1>8. CASE AddTraffic
  BY <1>1, <1>8 DEF AddTraffic, WalkInv, Working, Atomic, connVars, monVars, readVars
<1>9. CASE AppendTraffic
  BY <1>1, <1>9 DEF AppendTraffic, DoneWithUser, WalkInv, Working, Atomic, connVars, monVars
<1>10. CASE BeginPush
  BY <1>1, <1>10 DEF BeginPush, WalkInv, Working, Atomic, connVars, monVars
<1>11. CASE PushOk \/ PushRejected \/ PushUnsent \/ PushAnswerLost
  <2>1. pc = "push" /\ UNCHANGED <<i, n, who, got, userList, newList, mon, detached>>
    BY <1>11 DEF PushOk, PushRejected, PushUnsent, PushAnswerLost, Faulty, connVars, monVars, readVars
  <2>2. pc' \in {"push", "idle"}
    BY <1>11 DEF PushOk, PushRejected, PushUnsent, PushAnswerLost, Faulty, NextPath, NextAttempt
  <2> QED
    BY <2>1, <2>2 DEF WalkInv, Working, Atomic
<1>12. CASE SpeedChecker
  BY <1>12 DEF SpeedChecker, WalkInv, Atomic, connVars, monVars, readVars
<1>13. ASSUME NEW list \in Lists, TakeList(list) PROVE WalkInv'
  BY <1>1, <1>13 DEF TakeList, Gives, WalkInv, Atomic, connVars, readVars
<1>14. ASSUME NEW list \in Lists, IsPrefix(userList, list), userList' = list, newList' \in Lists,
              mon' \notin {"delUsers", "addUsers", "store"},
              UNCHANGED <<pc, readVars, detached>>
       PROVE  WalkInv'
  <2>1. Len(list) \in Nat /\ Len(userList) <= Len(list) /\ \A k \in 1..Len(userList) : userList[k] = list[k]
    BY <1>1, <1>14, PrefixElements, ListEntries
  <2>2. pc \in Working => i \in 1..Len(userList)
    BY <1>1 DEF WalkInv
  <2> QED
    BY <1>1, <1>14, <2>1, <2>2 DEF WalkInv, Atomic, readVars
<1>15. ASSUME NEW list \in Lists, Reload(list) PROVE WalkInv'
  BY <1>14, <1>15 DEF Reload, Gives, connVars
<1>16. CASE StoreList
  <2>1. IsPrefix(userList, newList) /\ userList' = newList /\ newList' = newList /\ mon' = "idle"
    BY <1>16 DEF StoreList, WalkInv
  <2>2. UNCHANGED <<pc, readVars, detached>>
    BY <1>16 DEF StoreList, connVars
  <2> QED
    BY <1>1, <1>14, <2>1, <2>2
<1>17. CASE DelUsers
  <2>1. detached' = detached \/ detached' = detached \cup (attached \cap {})
    BY <1>17, NobodyDeleted DEF DelUsers
  <2> QED
    BY <1>17, <2>1 DEF DelUsers, WalkInv, Atomic, readVars
<1>18. CASE AddUsers
  BY <1>18 DEF AddUsers, WalkInv, Atomic, readVars
<1>19. CASE DelNode \/ AddNode
  BY <1>19 DEF DelNode, AddNode, WalkInv, Atomic, readVars
<1>20. CASE Report
  BY <1>3, <1>4, <1>5, <1>6, <1>7, <1>8, <1>9, <1>10, <1>11, <1>20 DEF Report
<1>21. CASE Monitor
  BY <1>13, <1>15, <1>16, <1>17, <1>18, <1>19, <1>21 DEF Monitor, Apply
<1> QED
  BY <1>2, <1>12, <1>20, <1>21 DEF Steps

-----------------------------------------------------------------------------
\* NothingTwice

\* What is owed is a number of bytes.
LEMMA OwedNumber ==
    ASSUME Types, NEW u \in Users, NEW d \in Dirs
    PROVE  /\ counters[u][d] \in Nat /\ batch[u][d] \in Nat /\ got[d] \in Nat
           /\ moved[u][d] \in Nat /\ billed[u][d] \in Nat /\ Owed(u, d) \in Nat
<1>1. counters[u][d] \in Nat /\ batch[u][d] \in Nat /\ got[d] \in Nat /\ moved[u][d] \in Nat /\ billed[u][d] \in Nat
  BY DEF Types, Bytes
<1> QED
  BY <1>1 DEF Owed, Larger

\* A step in which the report stays where it is adds to what is owed at most
\* what it adds to the counter.
LEMMA OwedByCounters ==
    ASSUME Types, Types', core' = core, UNCHANGED <<pc, who, got>>,
           NEW u \in Users, NEW d \in Dirs, NEW more \in Nat,
           counters'[u][d] <= counters[u][d] + more
    PROVE  Owed(u, d)' <= Owed(u, d) + more
<1>1. counters[u][d] \in Nat /\ counters'[u][d] \in Nat /\ got[d] \in Nat
  BY DEF Types, Bytes
<1>2. TakenAt(d)' = TakenAt(d)
  BY DEF TakenAt, Atomic
<1> QED
  BY <1>1, <1>2 DEF Owed, Larger

\* No step owes more than the bytes it moves.
LEMMA OwedKept ==
    ASSUME Types, Types', WalkInv, Steps, core' = core, pc # "panicked",
           NEW u \in Users, NEW d \in Dirs
    PROVE  /\ Owed(u, d) \in Nat /\ Owed(u, d)' \in Nat
           /\ Owed(u, d)' + moved[u][d] <= Owed(u, d) + moved'[u][d]
<1>1. /\ counters[u][d] \in Nat /\ batch[u][d] \in Nat /\ got[d] \in Nat
      /\ moved[u][d] \in Nat /\ billed[u][d] \in Nat /\ Owed(u, d) \in Nat
  BY OwedNumber
<1>2. /\ counters'[u][d] \in Nat /\ batch'[u][d] \in Nat /\ got'[d] \in Nat
      /\ moved'[u][d] \in Nat /\ billed'[u][d] \in Nat /\ Owed(u, d)' \in Nat
  <2>1. counters'[u][d] \in Nat /\ batch'[u][d] \in Nat /\ got'[d] \in Nat /\ moved'[u][d] \in Nat /\ billed'[u][d] \in Nat
    BY DEF Types, Bytes
  <2> QED
    BY <2>1 DEF Owed, Larger
<1>3. TakenAt(d)' = TakenAt(d) /\ TakenAt(d) \subseteq Working
  BY DEF TakenAt, Atomic, Working
<1> DEFINE NoMore == Owed(u, d)' + moved[u][d] <= Owed(u, d) + moved'[u][d]
<1>4. SUFFICES NoMore
  BY <1>1, <1>2
\* Bytes are counted, or counters go, where the report stays.
<1>5. ASSUME UNCHANGED <<pc, who, got>>, moved[u][d] <= moved'[u][d],
             counters'[u][d] + moved[u][d] <= counters[u][d] + moved'[u][d]
      PROVE  NoMore
  <2>1. Owed(u, d)' <= Owed(u, d) + (moved'[u][d] - moved[u][d])
    BY <1>1, <1>2, <1>5, OwedByCounters
  <2> QED
    BY <1>1, <1>2, <1>5, <2>1
<1>6. ASSUME NEW v \in Users, NEW e \in Dirs, Count(v, e) PROVE NoMore
  <2>1. /\ moved'[u][d] = IF u = v /\ d = e THEN moved[v][e] + 1 ELSE moved[u][d]
        /\ counters'[u][d] = IF u = v /\ d = e THEN counters[v][e] + 1 ELSE counters[u][d]
    BY <1>6 DEF Count, Types, Bytes
  <2> QED
    BY <1>1, <1>2, <1>5, <1>6, <2>1 DEF Count, pushVars, readVars
<1>7. ASSUME NEW v \in Users, NEW e \in Dirs, CountNowhere(v, e) PROVE NoMore
  <2>1. moved'[u][d] = IF u = v /\ d = e THEN moved[v][e] + 1 ELSE moved[u][d]
    BY <1>7 DEF CountNowhere, Types, Bytes
  <2> QED
    BY <1>1, <1>2, <1>5, <1>7, <2>1 DEF CountNowhere, pushVars, readVars
<1>8. ASSUME NEW v \in Users, NEW e \in Dirs, NEW bytes \in 0..1, CountLast(v, e, bytes) PROVE NoMore
  <2>1. moved[v][e] + bytes \in Nat /\ bytes \in Nat
    BY DEF Types, Bytes
  <2>2. /\ moved'[u][d] = IF u = v /\ d = e THEN moved[v][e] + bytes ELSE moved[u][d]
        /\ counters'[u][d] = IF u = v /\ d = e THEN bytes ELSE counters[u][d]
    BY <1>8 DEF CountLast, Types, Bytes
  <2> QED
    BY <1>1, <1>2, <1>5, <1>8, <2>1, <2>2 DEF CountLast, pushVars, readVars
\* The report.
<1>9. CASE Begin
  BY <1>1, <1>2, <1>9, Constants DEF Begin, Owed, Working, pushVars
<1>10. CASE ReportPanics
  <2>1. Owed(u, d)' <= Owed(u, d)
    BY <1>1, <1>2, <1>10, <1>3 DEF ReportPanics, Owed, Larger, Working, readVars
  <2> QED
    <3>1. moved' = moved
      BY <1>10 DEF ReportPanics, pushVars
    <3> QED
      BY <1>1, <1>2, <2>1, <3>1
<1>11. CASE NextUser
  <2>1. Owed(u, d)' <= Owed(u, d)
    BY <1>1, <1>2, <1>11, Constants DEF NextUser, Owed, Larger, Working
  <2> QED
    BY <1>1, <1>2, <1>11, <2>1 DEF NextUser, pushVars
<1>12. CASE GetUserTraffic
  <2>1. who \in Users /\ pc \in Working /\ pc' \in Working /\ who' = who
    <3>1. pc \in Working /\ who' = who
      BY <1>12 DEF GetUserTraffic, Read, Reset, Working, readVars
    <3>2. pc' \in Working
      BY <1>12 DEF GetUserTraffic, Read, Reset, Working
    <3> QED
      BY <3>1, <3>2 DEF WalkInv
  <2>2. moved' = moved
    BY <1>12 DEF GetUserTraffic, Read, Reset, pushVars
  <2>3. ASSUME NEW e \in Dirs, NEW here, NEW next, Read(e, here, next), u # who
        PROVE  Owed(u, d)' = Owed(u, d)
    BY <1>1, <2>1, <2>3, OneEntry DEF Read, Owed, Types
  <2>4. ASSUME NEW e \in Dirs, NEW here, NEW next, Reset(e, here, next), u # who
        PROVE  Owed(u, d)' = Owed(u, d)
    BY <1>1, <2>1, <2>4, OneEntry DEF Reset, Owed, Types
  <2>5. CASE u # who
    <3>1. Owed(u, d)' = Owed(u, d)
      BY <1>12, <2>3, <2>4, <2>5 DEF GetUserTraffic, Dirs
    <3> QED
      BY <1>1, <1>2, <2>2, <3>1
  <2>6. CASE u = who
    <3>1. ASSUME NEW e \in Dirs, NEW here, NEW next, Read(e, here, next)
          PROVE  /\ got'[d] = IF d = e THEN counters[u][d] ELSE got[d]
                 /\ counters'[u][d] = IF Atomic /\ d = e THEN 0 ELSE counters[u][d]
      BY <2>1, <2>6, <3>1 DEF Read, Types, Bytes
    <3>2. ASSUME NEW e \in Dirs, NEW here, NEW next, Reset(e, here, next)
          PROVE  got'[d] = got[d] /\ counters'[u][d] = IF d = e THEN 0 ELSE counters[u][d]
      BY <2>1, <2>6, <3>2 DEF Reset, Types, Bytes, readVars
    <3>3. CASE Read("up", "readUp", "readDown")
      <4>1. got[d] = 0 /\ pc = "readUp" /\ pc' = "readDown"
        BY <3>3, Constants DEF Read, WalkInv
      <4>2. Owed(u, d)' <= Owed(u, d)
        BY <1>1, <1>2, <2>1, <2>6, <3>1, <3>3, <4>1 DEF Owed, Larger, Dirs, TakenAt, Atomic, Working
      <4> QED
        BY <1>1, <1>2, <2>2, <4>2
    <3>4. CASE Read("down", "readDown", IF Atomic THEN "record" ELSE "resetUp")
      <4>1. d = "down" => got[d] = 0
        BY <3>4 DEF Read, WalkInv
      <4>2. pc = "readDown" /\ pc' = IF Atomic THEN "record" ELSE "resetUp"
        BY <3>4 DEF Read
      <4>3. Owed(u, d)' <= Owed(u, d)
        BY <1>1, <1>2, <2>1, <2>6, <3>1, <3>4, <4>1, <4>2 DEF Owed, Larger, Dirs, TakenAt, Atomic, Working
      <4> QED
        BY <1>1, <1>2, <2>2, <4>3
    <3>5. CASE Reset("up", "resetUp", "resetDown")
      <4>1. pc = "resetUp" /\ pc' = "resetDown" /\ ~Atomic
        BY <3>5 DEF Reset, WalkInv
      <4>2. Owed(u, d)' <= Owed(u, d)
        BY <1>1, <1>2, <2>1, <2>6, <3>2, <3>5, <4>1 DEF Owed, Larger, Dirs, TakenAt, Atomic, Working
      <4> QED
        BY <1>1, <1>2, <2>2, <4>2
    <3>6. CASE Reset("down", "resetDown", "record")
      <4>1. pc = "resetDown" /\ pc' = "record" /\ ~Atomic
        BY <3>6 DEF Reset, WalkInv
      <4>2. Owed(u, d)' <= Owed(u, d)
        BY <1>1, <1>2, <2>1, <2>6, <3>2, <3>6, <4>1 DEF Owed, Larger, Dirs, TakenAt, Atomic, Working
      <4> QED
        BY <1>1, <1>2, <2>2, <4>2
    <3> QED
      BY <1>12, <3>3, <3>4, <3>5, <3>6 DEF GetUserTraffic
  <2> QED
    BY <2>5, <2>6
<1>13. CASE SkipUser
  <2>1. Owed(u, d)' <= Owed(u, d)
    BY <1>1, <1>2, <1>13, <1>3 DEF SkipUser, DoneWithUser, Owed, Larger, Working
  <2> QED
    BY <1>1, <1>2, <1>13, <2>1 DEF SkipUser, pushVars
<1>14. CASE AddTraffic
  <2>1. Owed(u, d)' = Owed(u, d)
    BY <1>1, <1>2, <1>14 DEF AddTraffic, Owed, Larger, Working, TakenAt, Atomic, readVars
  <2> QED
    BY <1>1, <1>2, <1>14, <2>1 DEF AddTraffic, pushVars
<1>15. CASE AppendTraffic
  <2>1. pc = "append" /\ pc' = "user" /\ counters' = counters /\ moved' = moved
    BY <1>15 DEF AppendTraffic, DoneWithUser
  <2> QED
    BY <1>1, <1>2, <2>1 DEF Owed, Working, TakenAt
<1>16. CASE BeginPush
  BY <1>1, <1>2, <1>16 DEF BeginPush, Owed, Working
<1>17. CASE PushOk \/ PushRejected \/ PushUnsent \/ PushAnswerLost
  <2>1. pc' \in {"push", "idle"}
    BY <1>17 DEF PushOk, PushRejected, PushUnsent, PushAnswerLost, Faulty, NextPath, NextAttempt
  <2>2. pc = "push" /\ counters' = counters /\ moved' = moved
    BY <1>17 DEF PushOk, PushRejected, PushUnsent, PushAnswerLost, Faulty
  <2> QED
    BY <1>1, <1>2, <2>1, <2>2 DEF Owed, Working
\* The others.
<1>18. CASE SpeedChecker
  BY <1>1, <1>2, <1>5, <1>18 DEF SpeedChecker, pushVars, readVars
<1>19. ASSUME NEW list \in Lists, TakeList(list) \/ Reload(list) PROVE NoMore
  BY <1>1, <1>2, <1>5, <1>19 DEF TakeList, Reload, pushVars, readVars
<1>20. CASE DelUsers
  <2>1. counters'[u][d] \in {0, counters[u][d]}
    BY <1>20, Constants DEF DelUsers
  <2> QED
    BY <1>1, <1>2, <1>5, <1>20, <2>1 DEF DelUsers, pushVars, readVars
<1>21. CASE DelNode
  <2>1. counters'[u][d] \in {0, counters[u][d]}
    BY <1>21, Constants DEF DelNode
  <2> QED
    BY <1>1, <1>2, <1>5, <1>21, <2>1 DEF DelNode, pushVars, readVars
<1>22. CASE AddUsers \/ StoreList \/ AddNode
  BY <1>1, <1>2, <1>5, <1>22 DEF AddUsers, StoreList, AddNode, pushVars, readVars
<1>23. CASE Report
  BY <1>9, <1>10, <1>11, <1>12, <1>13, <1>14, <1>15, <1>16, <1>17, <1>23 DEF Report
<1>24. CASE Monitor
  BY <1>19, <1>20, <1>21, <1>22, <1>24 DEF Monitor, Apply
<1> QED
  BY <1>6, <1>7, <1>8, <1>18, <1>23, <1>24 DEF Steps

\* Nor does one bill more, while no answer is lost.
LEMMA TwiceKept ==
    ASSUME Types, Types', WalkInv, TwiceInv, Steps, core' = core, pc # "panicked"
    PROVE  TwiceInv'
<1> SUFFICES ASSUME ~answerLost', NEW u \in Users, NEW d \in Dirs
             PROVE  Owed(u, d)' + batch'[u][d] + billed'[u][d] <= moved'[u][d]
  BY DEF TwiceInv
<1>1. /\ counters[u][d] \in Nat /\ batch[u][d] \in Nat /\ got[d] \in Nat
      /\ moved[u][d] \in Nat /\ billed[u][d] \in Nat /\ Owed(u, d) \in Nat
  BY OwedNumber
<1>2. /\ batch'[u][d] \in Nat /\ moved'[u][d] \in Nat /\ billed'[u][d] \in Nat
      /\ Owed(u, d)' \in Nat /\ Owed(u, d)' + moved[u][d] <= Owed(u, d) + moved'[u][d]
  BY OwedKept DEF Types, Bytes
<1>3. ASSUME ~answerLost, batch'[u][d] + billed'[u][d] <= batch[u][d] + billed[u][d]
      PROVE  Owed(u, d)' + batch'[u][d] + billed'[u][d] <= moved'[u][d]
  <2>1. Owed(u, d) + batch[u][d] + billed[u][d] <= moved[u][d]
    BY <1>3 DEF TwiceInv
  <2> QED
    BY <1>1, <1>2, <1>3, <2>1
<1>4. CASE Begin
  BY <1>1, <1>2, <1>3, <1>4, Constants DEF Begin, pushVars
<1>5. CASE ReportPanics \/ NextUser \/ GetUserTraffic \/ SkipUser \/ AddTraffic \/ BeginPush
  <2>1. batch' = batch /\ billed' = billed /\ answerLost' = answerLost
    BY <1>5 DEF ReportPanics, NextUser, GetUserTraffic, Read, Reset, SkipUser, AddTraffic, BeginPush, pushVars
  <2> QED
    BY <1>1, <1>3, <2>1
<1>6. CASE AppendTraffic
  <2>1. pc = "append" /\ pc' = "user" /\ UNCHANGED <<counters, moved, billed, answerLost>>
    BY <1>6 DEF AppendTraffic, DoneWithUser, pushVars
  <2>2. who \in Users /\ userList[i].user = who
    BY <2>1 DEF WalkInv, Working
  <2>3. Owed(u, d)' = counters[u][d]
    BY <2>1 DEF Owed, Working
  <2>4. Owed(u, d) = IF u = who THEN counters[u][d] + got[d] ELSE counters[u][d]
    BY <2>1 DEF Owed, Working, TakenAt
  <2>5. batch' = [batch EXCEPT ![who] = Appended(who)]
    BY <1>6, <2>2 DEF AppendTraffic
  <2>6. batch'[u][d] = IF u = who THEN Appended(who)[d] ELSE batch[u][d]
    BY <2>2, <2>5 DEF Types, Bytes
  <2>7. Appended(who)[d] \in {got[d], batch[who][d] + got[d]}
    BY DEF Appended, Plus
  <2>8. Owed(u, d)' + batch'[u][d] <= Owed(u, d) + batch[u][d]
    BY <1>1, <1>2, <2>3, <2>4, <2>6, <2>7
  <2>9. Owed(u, d) + batch[u][d] + billed[u][d] <= moved[u][d]
    BY <2>1 DEF TwiceInv
  <2> QED
    BY <1>1, <1>2, <2>1, <2>8, <2>9
<1>7. CASE PushOk
  <2>1. billed'[u][d] = billed[u][d] + batch[u][d] /\ batch'[u][d] = 0
    BY <1>7, Constants DEF PushOk, Bill, Plus
  <2> QED
    BY <1>1, <1>3, <1>7, <2>1 DEF PushOk
<1>8. CASE PushRejected \/ PushUnsent
  <2>1. batch'[u][d] \in {0, batch[u][d]}
    BY <1>8, Constants DEF PushRejected, PushUnsent, NextPath, NextAttempt
  <2>2. billed' = billed /\ answerLost' = answerLost
    BY <1>8 DEF PushRejected, PushUnsent
  <2> QED
    BY <1>1, <1>3, <2>1, <2>2
<1>9. CASE PushAnswerLost
  BY <1>9 DEF PushAnswerLost
<1>10. CASE Report
  BY <1>4, <1>5, <1>6, <1>7, <1>8, <1>9, <1>10 DEF Report
<1>11. CASE ~Report
  <2>1. batch' = batch /\ billed' = billed /\ answerLost' = answerLost
    BY <1>11 DEF Steps, Count, CountNowhere, CountLast, SpeedChecker, Monitor, TakeList, Reload, Apply,
       DelUsers, AddUsers, StoreList, DelNode, AddNode, pushVars
  <2> QED
    BY <1>1, <1>3, <2>1
<1> QED
  BY <1>10, <1>11

-----------------------------------------------------------------------------
\* LimitsAreEarned

\* What is in the record of SpeedChecker and not in the batch yet.
Recorded(u, d) == IF pc = "append" /\ u = who THEN got[d] ELSE 0

EarnInv ==
    \A u \in Users :
      Threshold * limited[u] + traffic[u] + Owed(u, "up") + Owed(u, "down")
        <= Sum(moved[u]) + Recorded(u, "up") + Recorded(u, "down")

LEMMA EarnKept ==
    ASSUME Types, Types', WalkInv, EarnInv, Steps, core' = core, pc # "panicked"
    PROVE  EarnInv'
<1> SUFFICES ASSUME NEW u \in Users
             PROVE  Threshold * limited'[u] + traffic'[u] + Owed(u, "up")' + Owed(u, "down")'
                      <= Sum(moved'[u]) + Recorded(u, "up")' + Recorded(u, "down")'
  BY DEF EarnInv
<1>1. /\ Threshold * limited[u] \in Nat /\ traffic[u] \in Nat /\ limited[u] \in Nat
      /\ Threshold * limited'[u] \in Nat /\ traffic'[u] \in Nat /\ limited'[u] \in Nat
  BY TrafficAssumption DEF Types
<1>2. /\ \A d \in Dirs : /\ moved[u][d] \in Nat /\ moved'[u][d] \in Nat /\ got[d] \in Nat /\ got'[d] \in Nat
                         /\ Recorded(u, d) \in Nat /\ Recorded(u, d)' \in Nat
      /\ Sum(moved[u]) = moved[u]["up"] + moved[u]["down"]
      /\ Sum(moved'[u]) = moved'[u]["up"] + moved'[u]["down"]
      /\ "up" \in Dirs /\ "down" \in Dirs
  BY DEF Types, Bytes, Recorded, Sum, Dirs
<1>3. /\ Owed(u, "up") \in Nat /\ Owed(u, "up")' \in Nat
      /\ Owed(u, "down") \in Nat /\ Owed(u, "down")' \in Nat
      /\ Owed(u, "up")' + moved[u]["up"] <= Owed(u, "up") + moved'[u]["up"]
      /\ Owed(u, "down")' + moved[u]["down"] <= Owed(u, "down") + moved'[u]["down"]
  BY <1>2, OwedKept
<1>4. Threshold * limited[u] + traffic[u] + Owed(u, "up") + Owed(u, "down")
        <= Sum(moved[u]) + Recorded(u, "up") + Recorded(u, "down")
  BY DEF EarnInv
\* The record does not grow.
<1>5. ASSUME Threshold * limited'[u] + traffic'[u] <= Threshold * limited[u] + traffic[u],
             UNCHANGED <<who, got>>, pc = "append" <=> pc' = "append"
      PROVE  Threshold * limited'[u] + traffic'[u] + Owed(u, "up")' + Owed(u, "down")'
               <= Sum(moved'[u]) + Recorded(u, "up")' + Recorded(u, "down")'
  <2>1. \A d \in Dirs : Recorded(u, d)' = Recorded(u, d)
    BY <1>5 DEF Recorded
  <2> QED
    BY <1>1, <1>2, <1>3, <1>4, <1>5, <2>1
<1>6. CASE Begin \/ BeginPush \/ PushOk \/ PushRejected \/ PushUnsent \/ PushAnswerLost
  <2>1. UNCHANGED <<traffic, limited, who, got>>
    BY <1>6 DEF Begin, BeginPush, PushOk, PushRejected, PushUnsent, PushAnswerLost, readVars
  <2>2. pc # "append" /\ pc' # "append"
    BY <1>6 DEF Begin, BeginPush, PushOk, PushRejected, PushUnsent, PushAnswerLost, Faulty, NextPath, NextAttempt
  <2> QED
    BY <1>1, <1>5, <2>1, <2>2
<1>7. CASE NextUser \/ GetUserTraffic \/ SkipUser
  <2>1. UNCHANGED <<traffic, limited>>
    BY <1>7 DEF NextUser, GetUserTraffic, Read, Reset, SkipUser
  <2>2. pc # "append" /\ pc' # "append"
    BY <1>7 DEF NextUser, GetUserTraffic, Read, Reset, SkipUser, DoneWithUser
  <2>3. \A d \in Dirs : Recorded(u, d)' = 0 /\ Recorded(u, d) = 0
    BY <2>2 DEF Recorded
  <2> QED
    BY <1>1, <1>2, <1>3, <1>4, <2>1, <2>3
<1>8. CASE ReportPanics
  <2>1. UNCHANGED <<traffic, limited, who, got>>
    BY <1>8 DEF ReportPanics, readVars
  <2>2. pc' # "append"
    BY <1>8 DEF ReportPanics
  <2>3. pc # "append"
    <3>1. Len(userList) \in Nat /\ i \in Nat /\ n \in Nat /\ n <= Len(userList)
      BY ListEntries DEF WalkInv
    <3> QED
      BY <1>8, <3>1 DEF ReportPanics
  <2> QED
    BY <1>1, <1>5, <2>1, <2>2, <2>3
<1>9. CASE AddTraffic
  <2>1. pc = "record" /\ pc' = "append" /\ UNCHANGED <<counters, limited, moved, who, got>>
    BY <1>9 DEF AddTraffic, readVars
  <2>2. who \in Users /\ userList[i].user = who
    BY <2>1 DEF WalkInv, Working
  <2>3. traffic' = [traffic EXCEPT ![who] = @ + Sum(got)]
    BY <1>9, <2>2 DEF AddTraffic
  <2>4. traffic'[u] = IF u = who THEN traffic[u] + got["up"] + got["down"] ELSE traffic[u]
    BY <1>1, <1>2, <2>2, <2>3 DEF Types, Sum
  <2>5. \A d \in Dirs : /\ Recorded(u, d) = 0
                       /\ Recorded(u, d)' = IF u = who THEN got[d] ELSE 0
    BY <2>1 DEF Recorded
  <2> QED
    BY <1>1, <1>2, <1>3, <1>4, <2>1, <2>4, <2>5
<1>10. CASE AppendTraffic
  <2>1. pc = "append" /\ pc' = "user" /\ UNCHANGED <<counters, limited, traffic, moved>>
    BY <1>10 DEF AppendTraffic, DoneWithUser
  <2>2. \A d \in Dirs : Owed(u, d)' = counters[u][d] /\ Recorded(u, d)' = 0
    BY <2>1 DEF Owed, Working, Recorded
  <2>3. \A d \in Dirs : Owed(u, d) = counters[u][d] + Recorded(u, d)
    <3>1. \A d \in Dirs : counters[u][d] \in Nat
      BY DEF Types, Bytes
    <3> QED
      BY <2>1, <3>1 DEF Owed, Working, TakenAt, Recorded
  <2> QED
    BY <1>1, <1>2, <1>3, <1>4, <2>1, <2>2, <2>3
<1>11. CASE Report
  BY <1>6, <1>7, <1>8, <1>9, <1>10, <1>11 DEF Report
<1>12. CASE SpeedChecker
  <2>1. UNCHANGED <<pc, who, got>>
    BY <1>12 DEF SpeedChecker, readVars
  <2>2. CASE u \in Heavy
    <3>1. traffic[u] >= Threshold /\ traffic'[u] = 0 /\ limited'[u] = limited[u] + 1
      BY <1>12, <2>2 DEF SpeedChecker, Heavy
    <3>2. Threshold * (limited[u] + 1) = Threshold * limited[u] + Threshold
      BY <1>1, TrafficAssumption
    <3> QED
      BY <1>1, <1>5, <2>1, <3>1, <3>2, TrafficAssumption
  <2>3. CASE u \notin Heavy
    <3>1. traffic'[u] = traffic[u] /\ limited'[u] = limited[u]
      BY <1>12, <2>3 DEF SpeedChecker
    <3> QED
      BY <1>1, <1>5, <2>1, <3>1
  <2> QED
    BY <2>2, <2>3
<1>13. CASE ~Report /\ ~SpeedChecker
  <2>1. UNCHANGED <<pc, who, got, limited>>
    BY <1>13 DEF Steps, Count, CountNowhere, CountLast, Monitor, TakeList, Reload, Apply,
       DelUsers, AddUsers, StoreList, DelNode, AddNode, readVars
  <2>2. traffic'[u] \in {0, traffic[u]}
    BY <1>13 DEF Steps, Count, CountNowhere, CountLast, Monitor, TakeList, Reload, Apply,
       DelUsers, AddUsers, StoreList, DelNode, AddNode, Zero
  <2> QED
    BY <1>1, <1>5, <2>1, <2>2
<1> QED
  BY <1>11, <1>12, <1>13

-----------------------------------------------------------------------------
\* NothingLost

\* The push has one record of a user, or the panel adds them up.
OneRecord ==
    Additive \/ \A list \in Lists : \A j, k \in 1..Len(list) :
                  list[j].user = list[k].user => j = k

\* While the report walks the list, the batch has users it has passed.
BatchInv ==
    /\ pc = "idle" => batch = Nobody
    /\ pc = "user" => i <= n + 1
    /\ pc \in Working \cup {"user"} =>
         \A u \in Users : batch[u] # None => \E k \in 1..(i - 1) : userList[k].user = u

LostInv ==
    core = "xray" /\ ~pushFailed =>
      \A u \in Users, d \in Dirs : moved[u][d] <= Owed(u, d) + batch[u][d] + billed[u][d]

LEMMA BatchKept ==
    ASSUME OnlyAppends, Types, WalkInv, BatchInv, Steps, pc # "panicked"
    PROVE  BatchInv'
<1>1. /\ userList \in Lists /\ newList \in Lists /\ Len(userList) \in Nat
      /\ i \in Nat \ {0} /\ n \in Nat /\ n <= Len(userList)
  BY ListEntries DEF WalkInv
<1>2. \A u \in Users : Nobody[u] = None
  BY DEF Nobody
<1>3. CASE Begin
  BY <1>1, <1>2, <1>3 DEF Begin, BatchInv, Working
<1>4. CASE ReportPanics
  BY <1>4 DEF ReportPanics, BatchInv, Working
<1>5. CASE NextUser \/ GetUserTraffic \/ AddTraffic
  <2>1. pc \in Working \cup {"user"} /\ pc' \in Working /\ UNCHANGED <<batch, i, n, userList>>
    BY <1>5 DEF NextUser, GetUserTraffic, Read, Reset, AddTraffic, Working, readVars
  <2> QED
    BY <2>1 DEF BatchInv, Working
<1>6. CASE SkipUser
  <2>1. pc = "record" /\ pc' = "user" /\ i' = i + 1 /\ UNCHANGED <<batch, n, userList>>
    BY <1>6 DEF SkipUser, DoneWithUser
  <2>2. i <= n
    BY <2>1 DEF WalkInv, Working
  <2> QED
    BY <1>1, <2>1, <2>2 DEF BatchInv, Working
<1>7. CASE AppendTraffic
  <2>1. pc = "append" /\ pc' = "user" /\ i' = i + 1 /\ UNCHANGED <<n, userList>>
    BY <1>7 DEF AppendTraffic, DoneWithUser
  <2>2. i <= n /\ who \in Users /\ userList[i].user = who
    BY <2>1 DEF WalkInv, Working
  <2>3. \A u \in Users : u # who => batch'[u] = batch[u]
    BY <1>7, <2>2 DEF AppendTraffic, Types, Bytes
  <2> QED
    BY <1>1, <2>1, <2>2, <2>3 DEF BatchInv, Working
<1>8. CASE BeginPush
  BY <1>8 DEF BeginPush, BatchInv, Working
<1>9. CASE PushOk
  BY <1>9 DEF PushOk, BatchInv, Working
<1>10. CASE PushRejected \/ PushUnsent \/ PushAnswerLost
  BY <1>10 DEF PushRejected, PushUnsent, PushAnswerLost, Faulty, NextAttempt, NextPath, BatchInv, Working
<1>11. CASE Report
  BY <1>3, <1>4, <1>5, <1>6, <1>7, <1>8, <1>9, <1>10, <1>11 DEF Report
\* The list grows next to it.
<1>12. ASSUME NEW list \in Lists, IsPrefix(userList, list), userList' = list,
              UNCHANGED <<pc, readVars, batch>>
       PROVE  BatchInv'
  <2>1. Len(list) \in Nat /\ \A k \in 1..Len(userList) : list[k] = userList[k]
    BY <1>1, <1>12, PrefixElements, ListEntries
  <2>2. pc \in Working \cup {"user"} => i - 1 <= Len(userList)
    BY <1>1 DEF WalkInv, BatchInv
  <2> QED
    BY <1>1, <1>12, <2>1, <2>2 DEF BatchInv, readVars
<1>13. ASSUME NEW list \in Lists, Reload(list) PROVE BatchInv'
  BY <1>12, <1>13 DEF Reload, Gives
<1>14. CASE StoreList
  <2>1. IsPrefix(userList, newList) /\ userList' = newList /\ UNCHANGED <<pc, readVars, batch>>
    BY <1>14 DEF StoreList, WalkInv
  <2> QED
    BY <1>1, <1>12, <2>1
<1>15. CASE ~Report /\ ~StoreList /\ ~\E list \in Lists : Reload(list)
  <2>1. UNCHANGED <<pc, i, n, batch, userList>>
    BY <1>15 DEF Steps, Count, CountNowhere, CountLast, SpeedChecker, Monitor, TakeList, Apply,
       DelUsers, AddUsers, DelNode, AddNode, readVars
  <2> QED
    BY <2>1 DEF BatchInv
<1> QED
  BY <1>11, <1>13, <1>14, <1>15

\* With xray what is owed is in the counter or in the report's hands.
LEMMA OwedByXray ==
    ASSUME Types, WalkInv, core = "xray", NEW u \in Users, NEW d \in Dirs
    PROVE  Owed(u, d) = counters[u][d] + IF pc \in Working /\ u = who THEN got[d] ELSE 0
<1>1. counters[u][d] \in Nat
  BY DEF Types, Bytes
<1> QED
  BY <1>1 DEF Owed, TakenAt, Atomic, Working, WalkInv

LEMMA LostKept ==
    ASSUME OneRecord, Types, Types', WalkInv, WalkInv', BatchInv, LostInv, Steps,
           core' = core, pc # "panicked"
    PROVE  LostInv'
<1> SUFFICES ASSUME core = "xray", ~pushFailed', NEW u \in Users, NEW d \in Dirs
             PROVE  moved'[u][d] <= Owed(u, d)' + batch'[u][d] + billed'[u][d]
  BY DEF LostInv
<1> DEFINE Has == IF pc \in Working /\ u = who THEN got[d] ELSE 0
<1>1. /\ counters[u][d] \in Nat /\ batch[u][d] \in Nat /\ got[d] \in Nat /\ Has \in Nat
      /\ moved[u][d] \in Nat /\ billed[u][d] \in Nat
      /\ Owed(u, d) = counters[u][d] + Has
  BY OwedNumber, OwedByXray
<1>2. /\ counters'[u][d] \in Nat /\ batch'[u][d] \in Nat /\ got'[d] \in Nat /\ Has' \in Nat
      /\ moved'[u][d] \in Nat /\ billed'[u][d] \in Nat
  BY DEF Types, Bytes
<1>3. Owed(u, d)' = counters'[u][d] + Has'
  <2>1. core' = "xray"
    OBVIOUS
  <2> QED
    BY <1>2, <2>1 DEF Owed, TakenAt, Atomic, Working, WalkInv
<1>4. ASSUME ~pushFailed,
             moved'[u][d] + counters[u][d] + Has + batch[u][d] + billed[u][d]
               <= moved[u][d] + counters'[u][d] + Has' + batch'[u][d] + billed'[u][d]
      PROVE  moved'[u][d] <= Owed(u, d)' + batch'[u][d] + billed'[u][d]
  <2>1. moved[u][d] <= Owed(u, d) + batch[u][d] + billed[u][d]
    BY <1>4 DEF LostInv
  <2> QED
    BY <1>1, <1>2, <1>3, <1>4, <2>1
<1>5. ASSUME UNCHANGED <<counters, moved, batch, billed, pushFailed>>, Has' = Has
      PROVE  moved'[u][d] <= Owed(u, d)' + batch'[u][d] + billed'[u][d]
  BY <1>1, <1>4, <1>5
\* Bytes.
<1>6. ASSUME NEW v \in Users, NEW e \in Dirs, Count(v, e)
      PROVE  moved'[u][d] <= Owed(u, d)' + batch'[u][d] + billed'[u][d]
  <2>1. /\ moved'[u][d] = IF u = v /\ d = e THEN moved[v][e] + 1 ELSE moved[u][d]
        /\ counters'[u][d] = IF u = v /\ d = e THEN counters[v][e] + 1 ELSE counters[u][d]
    BY <1>6 DEF Count, Types, Bytes
  <2>2. UNCHANGED <<pc, who, got, batch, billed, pushFailed>>
    BY <1>6 DEF Count, pushVars, readVars
  <2>3. Has' = Has
    BY <2>2
  <2> QED
    BY <1>1, <1>2, <1>4, <2>1, <2>2, <2>3
<1>7. ASSUME NEW v \in Users, NEW e \in Dirs
      PROVE  ~CountNowhere(v, e) /\ \A bytes \in 0..1 : ~CountLast(v, e, bytes)
  BY DEF CountNowhere, CountLast, WalkInv
\* The report.
<1>8. CASE Begin
  <2>1. batch' = batch /\ UNCHANGED <<counters, moved, billed, pushFailed>>
    BY <1>8 DEF Begin, BatchInv, pushVars
  <2>2. Has' = 0 /\ Has = 0
    BY <1>8 DEF Begin, Working
  <2> QED
    BY <1>5, <2>1, <2>2
<1>9. ~ReportPanics
  <2>1. Len(userList) \in Nat /\ i \in Nat /\ n \in Nat /\ n <= Len(userList)
    BY ListEntries DEF WalkInv
  <2> QED
    BY <2>1 DEF ReportPanics
<1>10. CASE NextUser
  <2>1. UNCHANGED <<counters, moved, batch, billed, pushFailed>>
    BY <1>10 DEF NextUser, pushVars
  <2>2. Has' = 0 /\ Has = 0
    BY <1>10, Constants DEF NextUser, Working
  <2> QED
    BY <1>5, <2>1, <2>2
<1>11. CASE GetUserTraffic
  <2>1. who \in Users /\ pc \in Working /\ who' = who /\ UNCHANGED <<moved, batch, billed, pushFailed>>
    BY <1>11 DEF GetUserTraffic, Read, Reset, WalkInv, Working, pushVars, readVars
  <2>2. pc' \in Working
    BY <1>11 DEF GetUserTraffic, Read, Reset, Working
  <2>3. PICK e \in Dirs : \E here, next : Read(e, here, next) /\ got[e] = 0
    <3>1. Read("up", "readUp", "readDown") => got["up"] = 0
      BY Constants DEF Read, WalkInv, Dirs
    <3>2. Read("down", "readDown", IF Atomic THEN "record" ELSE "resetUp") => got["down"] = 0
      BY DEF Read, WalkInv
    <3> QED
      BY <1>11, <3>1, <3>2 DEF GetUserTraffic, Reset, WalkInv, Atomic, Dirs
  <2>4. /\ got' = [got EXCEPT ![e] = counters[who][e]]
        /\ counters' = [counters EXCEPT ![who][e] = 0]
    BY <2>3 DEF Read, Atomic
  <2>5. /\ counters'[u][d] = IF u = who /\ d = e THEN 0 ELSE counters[u][d]
        /\ got'[d] = IF d = e THEN counters[who][e] ELSE got[d]
    BY <2>1, <2>4 DEF Types, Bytes
  <2>6. counters'[u][d] + Has' = counters[u][d] + Has
    BY <1>1, <2>1, <2>2, <2>3, <2>5
  <2> QED
    BY <1>1, <1>2, <1>4, <2>1, <2>6
<1>12. CASE SkipUser
  <2>1. UNCHANGED <<counters, moved, batch, billed, pushFailed>>
    BY <1>12 DEF SkipUser, pushVars
  <2>2. Has' = 0 /\ Has = 0
    BY <1>12, Constants DEF SkipUser, DoneWithUser, Working
  <2> QED
    BY <1>5, <2>1, <2>2
<1>13. CASE AddTraffic
  <2>1. UNCHANGED <<counters, moved, batch, billed, pushFailed, who, got>>
    BY <1>13 DEF AddTraffic, pushVars, readVars
  <2>2. pc \in Working /\ pc' \in Working
    BY <1>13 DEF AddTraffic, Working
  <2> QED
    BY <1>5, <2>1, <2>2
<1>14. CASE AppendTraffic
  <2>1. pc = "append" /\ pc' = "user" /\ UNCHANGED <<counters, moved, billed, pushFailed, userList>>
    BY <1>14 DEF AppendTraffic, DoneWithUser, pushVars
  <2>2. i \in Nat \ {0} /\ n \in Nat /\ i <= n /\ n <= Len(userList) /\ who \in Users /\ userList[i].user = who
    BY <2>1 DEF WalkInv, Working
  <2>3. batch' = [batch EXCEPT ![who] = Appended(who)]
    BY <1>14, <2>2 DEF AppendTraffic
  <2>4. batch'[u][d] = IF u = who THEN Appended(who)[d] ELSE batch[u][d]
    BY <2>2, <2>3 DEF Types, Bytes
  <2>5. Additive \/ batch[who] = None
    <3>1. SUFFICES ASSUME ~Additive, batch[who] # None PROVE FALSE
      OBVIOUS
    <3>2. PICK k \in 1..(i - 1) : userList[k].user = who
      BY <2>1, <2>2, <3>1 DEF BatchInv, Working
    <3>3. k \in 1..Len(userList) /\ i \in 1..Len(userList) /\ userList \in Lists
      BY <2>2, ListEntries DEF WalkInv
    <3>4. k = i
      BY <2>2, <3>1, <3>2, <3>3 DEF OneRecord
    <3> QED
      BY <2>2, <3>2, <3>4
  <2>6. u = who => Appended(who)[d] = batch[u][d] + got[d]
    BY <1>1, <2>5, Constants DEF Appended, Plus
  <2>7. Has' = 0 /\ Has = IF u = who THEN got[d] ELSE 0
    BY <2>1 DEF Working
  <2> QED
    BY <1>1, <1>2, <1>4, <2>1, <2>4, <2>6, <2>7
<1>15. CASE BeginPush
  <2>1. UNCHANGED <<counters, moved, batch, billed, pushFailed>>
    BY <1>15 DEF BeginPush
  <2>2. Has' = 0 /\ Has = 0
    BY <1>15 DEF BeginPush, Working
  <2> QED
    BY <1>5, <2>1, <2>2
<1>16. CASE PushOk \/ PushRejected \/ PushUnsent \/ PushAnswerLost
  <2>1. pc = "push" /\ counters' = counters /\ moved' = moved
    BY <1>16 DEF PushOk, PushRejected, PushUnsent, PushAnswerLost, Faulty
  <2>2. pc' \in {"push", "idle"}
    BY <1>16 DEF PushOk, PushRejected, PushUnsent, PushAnswerLost, Faulty, NextPath, NextAttempt
  <2>3. Has' = 0 /\ Has = 0
    BY <2>1, <2>2 DEF Working
  <2>4. Bill => billed'[u][d] = billed[u][d] + batch[u][d]
    BY DEF Bill, Plus
  <2>5. NextPath \/ NextAttempt => batch' = batch /\ ~pushFailed
    BY DEF NextPath, NextAttempt
  <2>6. ~pushFailed /\ batch[u][d] + billed[u][d] <= batch'[u][d] + billed'[u][d]
    <3>1. CASE PushOk
      BY <1>1, <1>2, <2>4, <3>1, Constants DEF PushOk
    <3>2. CASE PushRejected \/ PushUnsent
      BY <1>1, <2>5, <3>2 DEF PushRejected, PushUnsent
    <3>3. CASE PushAnswerLost
      BY <1>1, <2>4, <2>5, <3>3 DEF PushAnswerLost
    <3> QED
      BY <1>16, <3>1, <3>2, <3>3
  <2> QED
    BY <1>1, <1>2, <1>4, <2>1, <2>3, <2>6
<1>17. CASE Report
  BY <1>8, <1>9, <1>10, <1>11, <1>12, <1>13, <1>14, <1>15, <1>16, <1>17 DEF Report
\* The others.
<1>18. CASE SpeedChecker \/ Monitor
  <2>1. UNCHANGED <<moved, batch, billed, pushFailed, pc, who, got>>
    BY <1>18 DEF SpeedChecker, Monitor, TakeList, Reload, Apply, DelUsers, AddUsers, StoreList, DelNode,
       AddNode, pushVars, readVars
  <2>2. DelUsers => counters' = counters
    <3>1. DelUsers => \A v \in Users : counters'[v] = counters[v]
      BY NobodyDeleted DEF DelUsers
    <3>2. counters \in Bytes /\ counters' \in Bytes
      BY DEF Types
    <3> QED
      BY <3>1, <3>2 DEF Bytes
  <2>3. counters' = counters
    BY <1>18, <2>2 DEF SpeedChecker, Monitor, TakeList, Reload, Apply, AddUsers, StoreList, DelNode, AddNode
  <2>4. Has' = Has
    BY <2>1
  <2> QED
    BY <1>5, <2>1, <2>3, <2>4
<1> QED
  BY <1>6, <1>7, <1>17, <1>18 DEF Steps

-----------------------------------------------------------------------------
\* The theorems

Inv == Types /\ WalkInv /\ TwiceInv /\ EarnInv

LEMMA InitInv ==
    ASSUME Init
    PROVE  Inv /\ BatchInv /\ LostInv
<1>1. Types /\ WalkInv
  BY InitTypes
<1>2. \A u \in Users, d \in Dirs :
        /\ Owed(u, d) = 0 /\ batch[u][d] = 0 /\ billed[u][d] = 0 /\ moved[u][d] = 0
        /\ Recorded(u, d) = 0
  BY Constants DEF Init, Owed, Working, Recorded
<1>3. TwiceInv /\ LostInv
  BY <1>2 DEF TwiceInv, LostInv
<1>4. EarnInv
  <2>1. \A u \in Users : limited[u] = 0 /\ traffic[u] = 0 /\ Sum(moved[u]) = 0
    BY <1>2 DEF Init, Zero, Sum, Dirs
  <2> QED
    BY <1>2, <2>1, TrafficAssumption DEF EarnInv, Dirs
<1>5. BatchInv
  BY DEF Init, BatchInv, Working
<1> QED
  BY <1>1, <1>3, <1>4, <1>5 DEF Inv

LEMMA InvKept ==
    ASSUME OnlyAppends, Inv, [Next]_vars
    PROVE  Inv'
<1>1. CASE Next
  <2>1. pc # "panicked" /\ Steps /\ core' = core
    BY <1>1, NextSteps
  <2>2. Types' /\ WalkInv'
    BY <2>1, TypesKept, WalkKept DEF Inv
  <2> QED
    BY <2>1, <2>2, TwiceKept, EarnKept DEF Inv
<1>2. CASE UNCHANGED vars
  BY <1>2 DEF vars, connVars, monVars, readVars, pushVars, Inv, Types, WalkInv, TwiceInv, EarnInv, Owed, TakenAt,
     Atomic, Recorded
<1> QED
  BY <1>1, <1>2

LEMMA LostInvKept ==
    ASSUME OnlyAppends, OneRecord, Inv, Inv', BatchInv, LostInv, [Next]_vars
    PROVE  BatchInv' /\ LostInv'
<1>1. CASE Next
  BY <1>1, NextSteps, BatchKept, LostKept DEF Inv
<1>2. CASE UNCHANGED vars
  BY <1>2 DEF vars, connVars, monVars, readVars, pushVars, BatchInv, LostInv, Owed, TakenAt, Atomic
<1> QED
  BY <1>1, <1>2

\* The variables no step looks at but its own goroutine's.
LEMMA TypeOKKept ==
    ASSUME TypeOK, Types', WalkInv, WalkInv', Steps, core' = core
    PROVE  TypeOK'
<1> DEFINE Places == {"idle", "user", "readUp", "readDown", "resetUp", "resetDown", "record", "append", "push",
                      "panicked"}
           Push == path \in 1..Paths /\ attempt \in 1..Attempts
<1>1. /\ core' \in Cores /\ pc \in Places /\ Push /\ faults \in 0..MaxFaults
      /\ 1 \in 1..Paths /\ 1 \in 1..Attempts
  BY TrafficAssumption DEF TypeOK
<1>2. UsersOf(userList) \subseteq Users /\ UsersOf(newList) \subseteq Users
  BY ListEntries DEF WalkInv
<1>3. CASE Report
  <2>1. UNCHANGED <<mon, connVars>>
    BY <1>3 DEF Report, Begin, ReportPanics, NextUser, GetUserTraffic, Read, Reset, SkipUser, AddTraffic, AppendTraffic,
       BeginPush, PushOk, PushRejected, PushUnsent, PushAnswerLost, monVars
  <2>2. NextPath \/ NextAttempt => pc' \in {pc, "idle"} /\ pushFailed' \in {pushFailed, TRUE}
    BY DEF NextPath, NextAttempt
  <2>3. pc' \in Places
    <3>1. CASE PushRejected \/ PushUnsent \/ PushAnswerLost
      BY <1>1, <2>2, <3>1 DEF PushRejected, PushUnsent, PushAnswerLost
    <3>2. CASE ~PushRejected /\ ~PushUnsent /\ ~PushAnswerLost
      BY <1>3, <3>2 DEF Report, Begin, ReportPanics, NextUser, GetUserTraffic, Read, Reset, SkipUser, AddTraffic,
         AppendTraffic, DoneWithUser, BeginPush, PushOk
    <3> QED
      BY <3>1, <3>2
  <2>4. Push'
    <3>1. CASE NextPath
      <4>1. (path' = 1 \/ (path < Paths /\ path' = path + 1)) /\ attempt' = 1
        BY <3>1 DEF NextPath
      <4> QED
        BY <1>1, <4>1, TrafficAssumption
    <3>2. CASE ~NextPath /\ NextAttempt
      <4>1. attempt < Attempts /\ attempt' = attempt + 1 /\ path' = path
        BY <3>2 DEF NextAttempt
      <4> QED
        BY <1>1, <4>1, TrafficAssumption
    <3>3. CASE ~NextPath /\ ~NextAttempt
      <4>1. path' \in {1, path} /\ attempt' \in {1, attempt}
        BY <1>3, <3>3 DEF Report, Begin, ReportPanics, NextUser, GetUserTraffic, Read, Reset, SkipUser, AddTraffic,
           AppendTraffic, BeginPush, PushOk, PushRejected, PushUnsent, PushAnswerLost, pushVars
      <4> QED
        BY <1>1, <4>1
    <3> QED
      BY <3>1, <3>2, <3>3
  <2>5. faults' \in 0..MaxFaults
    <3>1. faults' = faults \/ (faults < MaxFaults /\ faults' = faults + 1)
      BY <1>3 DEF Report, Begin, ReportPanics, NextUser, GetUserTraffic, Read, Reset, SkipUser, AddTraffic,
         AppendTraffic, BeginPush, PushOk, PushRejected, PushUnsent, PushAnswerLost, Faulty, pushVars
    <3> QED
      BY <1>1, <3>1, TrafficAssumption
  <2>6. answerLost' \in {answerLost, TRUE} /\ pushFailed' \in {pushFailed, TRUE}
    BY <1>3, <2>2 DEF Report, Begin, ReportPanics, NextUser, GetUserTraffic, Read, Reset, SkipUser, AddTraffic,
       AppendTraffic, BeginPush, PushOk, PushRejected, PushUnsent, PushAnswerLost, pushVars
  <2>7. UNCHANGED <<attached, detached, nodeUp>>
    BY <2>1 DEF connVars
  <2> QED
    BY <1>1, <2>1, <2>3, <2>4, <2>5, <2>6, <2>7 DEF TypeOK, Types, Bytes, WalkInv
<1>4. CASE ~Report
  <2>1. UNCHANGED <<pc, pushVars>>
    BY <1>4 DEF Steps, Count, CountNowhere, CountLast, SpeedChecker, Monitor, TakeList, Reload, Apply, DelUsers,
       AddUsers, StoreList, DelNode, AddNode
  <2>2. mon' \in {mon, "idle", "delUsers", "addUsers", "store", "delNode", "addNode"}
    BY <1>4 DEF Steps, Count, CountNowhere, CountLast, SpeedChecker, Monitor, TakeList, Reload, Apply, DelUsers,
       AddUsers, StoreList, DelNode, AddNode, monVars
  <2>3. /\ attached' \subseteq attached \cup UsersOf(userList) \cup UsersOf(newList)
        /\ detached' \subseteq detached \cup attached
        /\ nodeUp' \in {nodeUp, TRUE, FALSE}
    BY <1>4 DEF Steps, Count, CountNowhere, CountLast, SpeedChecker, Monitor, TakeList, Reload, Apply, DelUsers,
       AddUsers, StoreList, DelNode, AddNode, connVars
  <2>4. attached' \subseteq Users /\ detached' \subseteq Users /\ nodeUp' \in BOOLEAN
    BY <1>2, <2>3 DEF TypeOK
  <2> QED
    BY <1>1, <2>1, <2>2, <2>4 DEF TypeOK, Types, Bytes, WalkInv, pushVars
<1> QED
  BY <1>3, <1>4

\* What the report has taken is part of what is owed.
LEMMA TakenIsOwed ==
    ASSUME Types, WalkInv, NEW u \in Users, NEW d \in Dirs
    PROVE  /\ Taken(u, d) \in Nat /\ counters[u][d] + Taken(u, d) <= Owed(u, d)
           /\ core = "xray" => counters[u][d] + Taken(u, d) = Owed(u, d)
<1>1. counters[u][d] \in Nat /\ got[d] \in Nat /\ Owed(u, d) \in Nat
  BY OwedNumber
<1>2. Taken(u, d) = IF u = who /\ pc \in TakenAt(d) THEN got[d] ELSE 0
  BY DEF Taken, TakenAt
<1>3. TakenAt(d) \subseteq Working
  BY DEF TakenAt, Working
<1>4. core = "xray" /\ pc \in Working => pc \in TakenAt(d)
  BY DEF TakenAt, Working, Atomic, WalkInv
<1> QED
  BY <1>1, <1>2, <1>3, <1>4 DEF Owed, Larger

\* Type correctness.
THEOREM TypesAreCorrect ==
    ASSUME OnlyAppends
    PROVE  Spec => []TypeOK
<1>1. Init => TypeOK
  <2> SUFFICES ASSUME Init PROVE TypeOK
    OBVIOUS
  <2>1. Types /\ WalkInv
    BY InitTypes
  <2>2. UsersOf(userList) \subseteq Users
    BY ListEntries DEF Init
  <2> QED
    <3>1. /\ path \in 1..Paths /\ attempt \in 1..Attempts /\ faults \in 0..MaxFaults
          /\ attached \subseteq Users /\ detached \subseteq Users
      BY <2>2, TrafficAssumption DEF Init
    <3> QED
      BY <2>1, <3>1 DEF Init, TypeOK, Types, Bytes, WalkInv
<1>2. TypeOK /\ Inv /\ Inv' /\ [Next]_vars => TypeOK'
  <2>1. ASSUME TypeOK, Inv, Inv', Next PROVE TypeOK'
    BY <2>1, NextSteps, TypeOKKept DEF Inv
  <2>2. ASSUME TypeOK, UNCHANGED vars PROVE TypeOK'
    BY <2>2 DEF TypeOK, vars, connVars, monVars, readVars, pushVars
  <2> QED
    BY <2>1, <2>2
<1> QED
  BY <1>1, <1>2, InitInv, InvKept, PTL DEF Spec

\* Whatever the connections, the report and the monitor interleave to, no
\* byte is billed twice as long as no answer of the panel is lost: the loop of
\* reportUserTrafficTask, GetUserTraffic of the three cores and the retries of
\* ReportUserTraffic (node/user.go:15, api/panel/user.go:285).
THEOREM BytesAreBilledOnce ==
    ASSUME OnlyAppends
    PROVE  Spec => []NothingTwice
<1>1. Inv => NothingTwice
  <2> SUFFICES ASSUME Inv, ~answerLost, NEW u \in Users, NEW d \in Dirs
               PROVE  Pending(u, d) + billed[u][d] <= moved[u][d]
    BY DEF NothingTwice
  <2>1. Owed(u, d) + batch[u][d] + billed[u][d] <= moved[u][d]
    BY DEF Inv, TwiceInv
  <2>2. counters[u][d] + Taken(u, d) <= Owed(u, d) /\ Taken(u, d) \in Nat
    BY TakenIsOwed DEF Inv
  <2> QED
    BY <2>1, <2>2, OwedNumber DEF Inv, Pending
<1> QED
  BY <1>1, InitInv, InvKept, PTL DEF Spec

\* And none is billed to another user than the one who moved it.
THEOREM BytesAreBilledToOwner ==
    ASSUME OnlyAppends
    PROVE  Spec => []BilledToOwner
<1>1. Inv => BilledToOwner
  <2> SUFFICES ASSUME Inv, ~answerLost, NEW u \in Users, NEW d \in Dirs
               PROVE  billed[u][d] <= moved[u][d]
    BY DEF BilledToOwner
  <2>1. Owed(u, d) + batch[u][d] + billed[u][d] <= moved[u][d]
    BY DEF Inv, TwiceInv
  <2> QED
    BY <2>1, OwedNumber DEF Inv
<1> QED
  BY <1>1, InitInv, InvKept, PTL DEF Spec

\* The dynamic limit is given for traffic of the user's own, and for none of
\* it twice: addTraffic, consumeDynamicSpeedLimitUsers and deleteTraffic
\* (node/controller.go).
THEOREM LimitsAreForOwnTraffic ==
    ASSUME OnlyAppends
    PROVE  Spec => []LimitsAreEarned
<1>1. Inv => LimitsAreEarned
  <2> SUFFICES ASSUME Inv, NEW u \in Users
               PROVE  Threshold * limited[u] + traffic[u] <= Sum(moved[u])
    BY DEF LimitsAreEarned
  <2>1. /\ "up" \in Dirs /\ "down" \in Dirs
        /\ \A d \in Dirs : counters[u][d] \in Nat /\ got[d] \in Nat /\ Owed(u, d) \in Nat
        /\ traffic[u] \in Nat /\ Threshold * limited[u] \in Nat /\ Sum(moved[u]) \in Nat
    <3>1. traffic[u] \in Nat /\ limited[u] \in Nat /\ Threshold * limited[u] \in Nat
      BY TrafficAssumption DEF Inv, Types
    <3>2. moved[u] \in [Dirs -> Nat]
      BY DEF Inv, Types, Bytes
    <3> QED
      BY <3>1, <3>2, OwedNumber, Constants DEF Inv, Dirs
  <2>2. \A d \in Dirs : Recorded(u, d) \in Nat /\ Recorded(u, d) <= Owed(u, d)
    BY <2>1 DEF Recorded, Owed, Working, TakenAt
  <2>3. Threshold * limited[u] + traffic[u] + Owed(u, "up") + Owed(u, "down")
          <= Sum(moved[u]) + Recorded(u, "up") + Recorded(u, "down")
    BY DEF Inv, EarnInv
  <2> QED
    BY <2>1, <2>2, <2>3
<1> QED
  BY <1>1, InitInv, InvKept, PTL DEF Spec

\* With xray every byte is in the counter, in the report's hands or billed as
\* long as no push is given up, if no list has a user twice or the panel adds
\* up two records of one.
THEOREM NoByteIsLost ==
    ASSUME OnlyAppends, OneRecord
    PROVE  Spec => []NothingLost
<1>1. Inv /\ LostInv => NothingLost
  <2> SUFFICES ASSUME Inv, LostInv, core = "xray", ~pushFailed, NEW u \in Users, NEW d \in Dirs
               PROVE  moved[u][d] <= Pending(u, d) + billed[u][d]
    BY DEF NothingLost
  <2>1. moved[u][d] <= Owed(u, d) + batch[u][d] + billed[u][d]
    BY DEF LostInv
  <2>2. counters[u][d] + Taken(u, d) = Owed(u, d) /\ Taken(u, d) \in Nat
    BY TakenIsOwed DEF Inv
  <2> QED
    BY <2>1, <2>2, OwedNumber DEF Inv, Pending
<1> QED
  BY <1>1, InitInv, InvKept, LostInvKept, PTL DEF Spec

\* With a list that only grows the index of the report stays in it: but for
\* the TrafficLogger of hy2, reportUserTrafficTask does not panic.
THEOREM ReportNeverPanics ==
    ASSUME OnlyAppends
    PROVE  Spec => []NeverPanics
<1>1. Inv => NeverPanics
  BY DEF Inv, WalkInv, NeverPanics
<1> QED
  BY <1>1, InitInv, InvKept, PTL DEF Spec
=============================================================================
