----------------------------- MODULE ConnLimiter -----------------------------
(***************************************************************************)
(* limiter/conn.go with its goroutines: every connection calls             *)
(* AddConnCount and later DelConnCount from its own goroutine, and the     *)
(* limiter's task calls ClearOnlineIP.  Nothing locks a call as a whole:   *)
(* each access of a sync.Map is a step, and a call goes on with the value, *)
(* or the inner map, it has loaded, whatever others have done since.       *)
(*                                                                         *)
(* The entries of different users are apart, so there is one user here.    *)
(* ConnCount has what each call does when no other overlaps it.            *)
(***************************************************************************)
EXTENDS Naturals, FiniteSets

CONSTANTS
    Users,        \* the one user, as ConnCount wants it
    user,
    IPs,          \* addresses
    ConnLimits,   \* the limits a ConnLimiter may be made with
    IPLimits,
    Modes,        \* realtime or not
    Conns,        \* connections, each with a goroutine
    Cleaner,      \* the goroutine of ClearOnlineIP
    Maps,         \* inner maps, address -> entry
    NoMap,        \* the user has no inner map
    MaxBusy       \* how many calls may overlap

ASSUME ConnLimiterAssumption ==
    /\ Users = {user}
    /\ ConnLimits \subseteq Nat /\ IPLimits \subseteq Nat /\ Modes \subseteq BOOLEAN
    /\ Cleaner \notin Conns
    /\ NoMap \notin Maps
    /\ MaxBusy \in Nat

VARIABLES
    connLimit, ipLimit, realtime,   \* fields that never change
    count,        \* the user's entry in ConnLimiter.count, 0 for none
    ip,           \* the user's entry in ConnLimiter.ip
    entries,      \* the contents of the inner maps, 0 for no entry
    pc,           \* the step each goroutine is at
    src,          \* the address of each connection
    isTcp,        \* whether it is a TCP connection
    loaded,       \* the value a goroutine has loaded
    ips,          \* the inner map a goroutine has loaded
    todo,         \* the addresses ClearOnlineIP has yet to visit
    notDel,       \* its notDel
    before        \* the table when the last call began

\* The operators of ConnCount, for the limiter this one is.
INSTANCE ConnCount

limits == <<connLimit, ipLimit, realtime>>
locals == <<pc, src, isTcp, loaded, ips>>
vars == <<limits, count, ip, entries, locals, todo, notDel, before>>

Goroutines == Conns \cup {Cleaner}
Empty == [a \in IPs |-> 0]

\* The table of ConnCount that the maps represent.
Table ==
    [count |-> [u \in Users |-> count],
     ip    |-> [u \in Users |-> IF ip = NoMap THEN Empty ELSE entries[ip]]]

\* "idle" has no connection, "open" is a connection that was let in; anywhere
\* else the goroutine is inside a call.
Outside == {"idle", "open"}
Busy == {g \in Goroutines : pc[g] \notin Outside}

\* The inner maps in use.
Referenced == {ip} \cup {ips[g] : g \in Goroutines}

Init ==
    /\ connLimit \in ConnLimits /\ ipLimit \in IPLimits /\ realtime \in Modes
    /\ count = 0
    /\ ip = NoMap
    /\ entries = [m \in Maps |-> Empty]
    /\ pc = [g \in Goroutines |-> "idle"]
    /\ src \in [Goroutines -> {CHOOSE a \in IPs : TRUE}]
    /\ isTcp = [g \in Goroutines |-> FALSE]
    /\ loaded = [g \in Goroutines |-> 0]
    /\ ips = [g \in Goroutines |-> NoMap]
    /\ todo = {}
    /\ notDel = FALSE
    /\ before = NewConnLimiter

Goto(g, label) == pc' = [pc EXCEPT ![g] = label]

\* A call returns and lets go of the inner map.
Return(g, label) ==
    /\ Goto(g, label)
    /\ ips' = [ips EXCEPT ![g] = NoMap]
    /\ loaded' = [loaded EXCEPT ![g] = 0]

Call(g, label) ==
    /\ Cardinality(Busy) < MaxBusy
    /\ Goto(g, label)
    /\ before' = Table

-----------------------------------------------------------------------------
\* AddConnCount

\* Without an address limit nothing takes entries back: a bound on them.
CallAdd(c, a, tcp) ==
    /\ pc[c] = "idle"
    /\ Table.ip[user][a] <= 2 * Cardinality(Conns)
    /\ Call(c, IF connLimit # 0 THEN "addLoadCount" ELSE "addLoadMap")
    /\ src' = [src EXCEPT ![c] = a]
    /\ isTcp' = [isTcp EXCEPT ![c] = tcp]
    /\ UNCHANGED <<count, ip, entries, loaded, ips, todo, notDel>>

\* The count is compared, and stored again one higher in another step.
AddLoadCount(c) ==
    /\ pc[c] = "addLoadCount"
    /\ IF count # 0 /\ count >= connLimit
         THEN Return(c, "idle")
         ELSE /\ Goto(c, IF isTcp[c] THEN "addStoreCount" ELSE "addLoadMap")
              /\ loaded' = [loaded EXCEPT ![c] = count]
              /\ UNCHANGED ips
    /\ UNCHANGED <<count, ip, entries, src, isTcp, todo, notDel, before>>

AddStoreCount(c) ==
    /\ pc[c] = "addStoreCount"
    /\ count' = loaded[c] + 1
    /\ Goto(c, "addLoadMap")
    /\ UNCHANGED <<ip, entries, src, isTcp, loaded, ips, todo, notDel, before>>

\* LoadOrStore: the first connection brings the inner map along.
AddLoadMap(c) ==
    /\ pc[c] = "addLoadMap"
    /\ IF ip = NoMap
         THEN \E m \in Maps \ Referenced :
                /\ ip' = m
                /\ entries' = [entries EXCEPT ![m] = [Empty EXCEPT ![src[c]] = Touched(0, isTcp[c])]]
                /\ Return(c, "open")
         ELSE /\ ips' = [ips EXCEPT ![c] = ip]
              /\ Goto(c, "addLoadIP")
              /\ UNCHANGED <<ip, entries, loaded>>
    /\ UNCHANGED <<count, src, isTcp, todo, notDel, before>>

\* An address that is there is stored again; for another the limit is looked at.
AddLoadIP(c) ==
    /\ pc[c] = "addLoadIP"
    /\ LET v == entries[ips[c]][src[c]]
       IN /\ loaded' = [loaded EXCEPT ![c] = v]
          /\ Goto(c, IF v # 0 \/ ipLimit = 0 THEN "addStoreIP" ELSE "addRange")
    /\ UNCHANGED <<count, ip, entries, src, isTcp, ips, todo, notDel, before>>

\* Fault: lets in one address more than the limit.
AddRange_OneMore(c) ==
    /\ pc[c] = "addRange"
    /\ IF Cardinality({a \in IPs : entries[ips[c]][a] # 0}) > ipLimit
         THEN Return(c, "idle")
         ELSE Goto(c, "addStoreIP") /\ UNCHANGED <<loaded, ips>>
    /\ UNCHANGED <<count, ip, entries, src, isTcp, todo, notDel, before>>

\* The addresses are counted; a refused connection leaves the count as it is.
AddRange(c) ==
    /\ pc[c] = "addRange"
    /\ IF Cardinality({a \in IPs : entries[ips[c]][a] # 0}) >= ipLimit
         THEN Return(c, "idle")
         ELSE Goto(c, "addStoreIP") /\ UNCHANGED <<loaded, ips>>
    /\ UNCHANGED <<count, ip, entries, src, isTcp, todo, notDel, before>>

AddStoreIP(c) ==
    /\ pc[c] = "addStoreIP"
    /\ LET v == loaded[c]
       IN entries' = IF realtime /\ v # 0 /\ ~isTcp[c] THEN entries
                     ELSE [entries EXCEPT ![ips[c]][src[c]] = Touched(v, isTcp[c])]
    /\ Return(c, "open")
    /\ UNCHANGED <<count, ip, src, isTcp, todo, notDel, before>>

-----------------------------------------------------------------------------
\* DelConnCount: the dispatcher calls it for TCP connections only.

ClosePacket(c) ==
    /\ pc[c] = "open" /\ ~isTcp[c]
    /\ Goto(c, "idle")
    /\ UNCHANGED <<count, ip, entries, src, isTcp, loaded, ips, todo, notDel, before>>

CallDel(c) ==
    /\ pc[c] = "open" /\ isTcp[c]
    /\ Call(c, IF ~realtime THEN "return"
               ELSE IF connLimit # 0 THEN "delLoadCount"
               ELSE IF ipLimit # 0 THEN "delLoadMap" ELSE "return")
    /\ UNCHANGED <<count, ip, entries, src, isTcp, loaded, ips, todo, notDel>>

DelReturn(c) ==
    /\ pc[c] = "return"
    /\ Return(c, "idle")
    /\ UNCHANGED <<count, ip, entries, src, isTcp, todo, notDel, before>>

DelLoadCount(c) ==
    /\ pc[c] = "delLoadCount"
    /\ loaded' = [loaded EXCEPT ![c] = count]
    /\ Goto(c, IF count # 0 THEN "delStoreCount" ELSE IF ipLimit # 0 THEN "delLoadMap" ELSE "return")
    /\ UNCHANGED <<count, ip, entries, src, isTcp, ips, todo, notDel, before>>

DelStoreCount(c) ==
    /\ pc[c] = "delStoreCount"
    /\ count' = loaded[c] - 1
    /\ Goto(c, IF ipLimit # 0 THEN "delLoadMap" ELSE "return")
    /\ UNCHANGED <<ip, entries, src, isTcp, loaded, ips, todo, notDel, before>>

DelLoadMap(c) ==
    /\ pc[c] = "delLoadMap"
    /\ IF ip = NoMap
         THEN Return(c, "idle")
         ELSE /\ ips' = [ips EXCEPT ![c] = ip]
              /\ Goto(c, "delLoadIP")
              /\ UNCHANGED loaded
    /\ UNCHANGED <<count, ip, entries, src, isTcp, todo, notDel, before>>

DelLoadIP(c) ==
    /\ pc[c] = "delLoadIP"
    /\ LET v == entries[ips[c]][src[c]]
       IN IF v = 0
            THEN Return(c, "idle")
            ELSE /\ loaded' = [loaded EXCEPT ![c] = v]
                 /\ Goto(c, "delStoreIP")
                 /\ UNCHANGED ips
    /\ UNCHANGED <<count, ip, entries, src, isTcp, todo, notDel, before>>

DelStoreIP(c) ==
    /\ pc[c] = "delStoreIP"
    /\ entries' = [entries EXCEPT ![ips[c]][src[c]] = loaded[c] - Tcp]
    /\ Goto(c, "delEmpty")
    /\ UNCHANGED <<count, ip, src, isTcp, loaded, ips, todo, notDel, before>>

\* isSyncMapEmpty looks; the user's entry goes in another step, whatever has
\* been stored in the inner map by then.
DelEmpty(c) ==
    /\ pc[c] = "delEmpty"
    /\ IF entries[ips[c]] = Empty
         THEN Goto(c, "delDeleteMap") /\ UNCHANGED <<loaded, ips>>
         ELSE Return(c, "idle")
    /\ UNCHANGED <<count, ip, entries, src, isTcp, todo, notDel, before>>

DelDeleteMap(c) ==
    /\ pc[c] = "delDeleteMap"
    /\ ip' = NoMap
    /\ Return(c, "idle")
    /\ UNCHANGED <<count, entries, src, isTcp, todo, notDel, before>>

-----------------------------------------------------------------------------
\* ClearOnlineIP

CallClear ==
    /\ pc[Cleaner] = "idle" /\ ip # NoMap
    /\ Call(Cleaner, "clearVisit")
    /\ ips' = [ips EXCEPT ![Cleaner] = ip]
    /\ todo' = IPs
    /\ notDel' = FALSE
    /\ UNCHANGED <<count, ip, entries, src, isTcp, loaded>>

\* Range visits the addresses in some order; the entry is dropped in a step
\* after the one that has looked at it.
ClearVisit(a) ==
    /\ pc[Cleaner] = "clearVisit" /\ a \in todo
    /\ LET v == entries[ips[Cleaner]][a]
           gone == v = (IF realtime THEN Packet ELSE Expired)
       IN /\ notDel' = (notDel \/ (v # 0 /\ ~gone))
          /\ IF gone
               THEN /\ Goto(Cleaner, "clearDelete")
                    /\ src' = [src EXCEPT ![Cleaner] = a]
                    /\ UNCHANGED todo
               ELSE /\ todo' = todo \ {a}
                    /\ UNCHANGED <<pc, src>>
    /\ UNCHANGED <<count, ip, entries, isTcp, loaded, ips, before>>

ClearDelete ==
    /\ pc[Cleaner] = "clearDelete"
    /\ entries' = [entries EXCEPT ![ips[Cleaner]][src[Cleaner]] = 0]
    /\ todo' = todo \ {src[Cleaner]}
    /\ Goto(Cleaner, "clearVisit")
    /\ UNCHANGED <<count, ip, src, isTcp, loaded, ips, notDel, before>>

ClearEnd ==
    /\ pc[Cleaner] = "clearVisit" /\ todo = {}
    /\ IF ~notDel \/ entries[ips[Cleaner]] = Empty
         THEN Goto(Cleaner, "clearDeleteMap") /\ UNCHANGED <<loaded, ips>>
         ELSE Return(Cleaner, "idle")
    /\ UNCHANGED <<count, ip, entries, src, isTcp, todo, notDel, before>>

ClearDeleteMap ==
    /\ pc[Cleaner] = "clearDeleteMap"
    /\ ip' = NoMap
    /\ Return(Cleaner, "idle")
    /\ UNCHANGED <<count, entries, src, isTcp, todo, notDel, before>>

\* An address was last seen longer than the TTL ago.
Age(a) ==
    /\ ~realtime /\ ip # NoMap /\ Busy = {}
    /\ entries[ip][a] = Recent
    /\ entries' = [entries EXCEPT ![ip][a] = Expired]
    /\ UNCHANGED <<count, ip, locals, todo, notDel, before>>

-----------------------------------------------------------------------------
Add(c) ==
    \/ \E a \in IPs, tcp \in BOOLEAN : CallAdd(c, a, tcp)
    \/ AddLoadCount(c) \/ AddStoreCount(c) \/ AddLoadMap(c)
    \/ AddLoadIP(c) \/ AddRange(c) \/ AddStoreIP(c)

Del(c) ==
    \/ ClosePacket(c) \/ CallDel(c) \/ DelReturn(c)
    \/ DelLoadCount(c) \/ DelStoreCount(c)
    \/ DelLoadMap(c) \/ DelLoadIP(c) \/ DelStoreIP(c)
    \/ DelEmpty(c) \/ DelDeleteMap(c)

Clear ==
    \/ CallClear \/ ClearDelete \/ ClearEnd \/ ClearDeleteMap
    \/ \E a \in IPs : ClearVisit(a)

Next ==
    /\ \/ \E c \in Conns : Add(c) \/ Del(c)
       \/ Clear
       \/ \E a \in IPs : Age(a)
    /\ UNCHANGED limits

Spec == Init /\ [][Next]_vars

-----------------------------------------------------------------------------
\* Properties

AddSteps == {"addLoadCount", "addStoreCount", "addLoadMap", "addLoadIP", "addRange", "addStoreIP"}
DelSteps == {"return", "delLoadCount", "delStoreCount", "delLoadMap", "delLoadIP",
             "delStoreIP", "delEmpty", "delDeleteMap"}
ClearSteps == {"clearVisit", "clearDelete", "clearDeleteMap"}

TypeOK ==
    /\ connLimit \in ConnLimits /\ ipLimit \in IPLimits /\ realtime \in Modes
    /\ count \in Nat
    /\ ip \in Maps \cup {NoMap}
    /\ entries \in [Maps -> [IPs -> Nat]]
    /\ \A c \in Conns : pc[c] \in Outside \cup AddSteps \cup DelSteps
    /\ pc[Cleaner] \in {"idle"} \cup ClearSteps
    /\ src \in [Goroutines -> IPs]
    /\ isTcp \in [Goroutines -> BOOLEAN]
    /\ loaded \in [Goroutines -> Nat]
    /\ ips \in [Goroutines -> Maps \cup {NoMap}]
    /\ todo \subseteq IPs
    /\ notDel \in BOOLEAN

Returns(g, steps) == pc[g] \in steps /\ pc'[g] \in Outside

\* Calls that do not overlap do what ConnCount says of them: the map accesses
\* of AddConnCount, DelConnCount and ClearOnlineIP add up to its operators, and
\* the connections let in are those it does not refuse.
CallsAgree ==
    [][/\ \A c \in Conns :
            /\ Returns(c, AddSteps) =>
                 /\ Table' = AddConnCount(before, user, src[c], isTcp[c])
                 /\ pc'[c] = "open" <=> ~AddRefuses(before, user, src[c])
            /\ Returns(c, DelSteps) => Table' = DelConnCount(before, user, src[c])
       /\ Returns(Cleaner, ClearSteps) => Table' = ClearOnlineIP(before)]_vars

\* While no call is under way, the user has no entry for an empty inner map:
\* whichever call takes the last address out takes the map out as well.
NoEmptyMap == Busy = {} /\ ip # NoMap => entries[ip] # Empty

\* ConnLimit bounds the TCP connections that are open at a time (conn.go:32).
EnforcesConnLimit ==
    connLimit # 0 => Cardinality({c \in Conns : pc[c] = "open" /\ isTcp[c]}) <= connLimit

\* An address of which every connection has closed is gone, or stands for
\* packet traffic that ClearOnlineIP drops (conn.go:134).
ClosedIsDropped ==
    realtime /\ ipLimit # 0 /\ (\A c \in Conns : pc[c] = "idle") /\ pc[Cleaner] = "idle" =>
      \A a \in IPs : Table.ip[user][a] \in {0, Packet}
=============================================================================
