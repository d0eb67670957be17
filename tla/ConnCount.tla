------------------------------ MODULE ConnCount ------------------------------
(***************************************************************************)
(* limiter/conn.go: what each method of ConnLimiter does to its two maps   *)
(* when no other call runs at the same time.  ConnLimiter takes the same   *)
(* methods apart into the map accesses that goroutines interleave.         *)
(*                                                                         *)
(* A table has the two maps of a ConnLimiter: count[u] is the number of    *)
(* connections stored for u, and ip[u][a] what is stored for u's address a; *)
(* 0 stands for no entry.  A realtime limiter stores 2 per TCP connection  *)
(* and 1 for packet traffic; any other stores the time, of which only      *)
(* matters whether it lies within nonRealtimeOnlineTTL.                    *)
(***************************************************************************)
EXTENDS Integers, FiniteSets

CONSTANTS
    Users,        \* the keys "tag|uuid"
    IPs,          \* source addresses
    connLimit,    \* ConnLimiter.connLimit, 0 for none
    ipLimit,      \* ConnLimiter.ipLimit, 0 for none
    realtime      \* ConnLimiter.realtime

ASSUME ConnCountAssumption ==
    /\ connLimit \in Nat
    /\ ipLimit \in Nat
    /\ realtime \in BOOLEAN

Tcp == 2
Packet == 1

\* A time stored by a limiter that is not realtime.
Recent  == 1
Expired == 2

NewConnLimiter ==
    [count |-> [u \in Users |-> 0], ip |-> [u \in Users |-> [a \in IPs |-> 0]]]

OnlineIPs(t, u) == {a \in IPs : t.ip[u][a] # 0}

\* Fault: one connection more than the limit.
OverConnLimit_OneMore(t, u) == connLimit # 0 /\ t.count[u] # 0 /\ t.count[u] > connLimit

OverConnLimit(t, u) == connLimit # 0 /\ t.count[u] # 0 /\ t.count[u] >= connLimit

\* Fault: one address more than the limit.
OverIPLimit_OneMore(t, u, a) ==
    /\ ipLimit > 0
    /\ a \notin OnlineIPs(t, u)
    /\ Cardinality(OnlineIPs(t, u)) > ipLimit

OverIPLimit(t, u, a) ==
    /\ ipLimit > 0
    /\ a \notin OnlineIPs(t, u)
    /\ Cardinality(OnlineIPs(t, u)) >= ipLimit

\* What is stored for an address on one more connection.
Touched(v, isTcp) ==
    CASE ~realtime -> Recent
      [] realtime /\ v = 0 -> (IF isTcp THEN Tcp ELSE Packet)
      [] OTHER -> (IF isTcp THEN v + Tcp ELSE v)

\* The first part of AddConnCount: the connection is counted at once.
Counted(t, u, isTcp) ==
    IF connLimit # 0 /\ isTcp THEN [t EXCEPT !.count[u] = @ + 1] ELSE t

\* The table that AddConnCount(u, a, isTcp) leaves behind.
AddConnCount(t, u, a, isTcp) ==
    IF OverConnLimit(t, u) THEN t
    ELSE IF OverIPLimit(t, u, a) THEN Counted(t, u, isTcp)
    ELSE [Counted(t, u, isTcp) EXCEPT !.ip[u][a] = Touched(@, isTcp)]

\* The result of AddConnCount: whether the connection is refused.
AddRefuses(t, u, a) == OverConnLimit(t, u) \/ OverIPLimit(t, u, a)

\* What one closed TCP connection takes away again; an entry that comes to 0
\* is the one the code deletes.
DelConnCount(t, u, a) ==
    IF ~realtime THEN t
    ELSE [count |-> IF connLimit # 0 /\ t.count[u] # 0
                      THEN [t.count EXCEPT ![u] = @ - 1] ELSE t.count,
          ip    |-> IF ipLimit # 0 /\ t.ip[u][a] # 0
                      THEN [t.ip EXCEPT ![u][a] = @ - Tcp] ELSE t.ip]

\* Fault: the addresses with a TCP connection go too.
ClearOnlineIP_DropsTcp(t) ==
    [t EXCEPT !.ip = [u \in Users |-> [a \in IPs |->
                        IF t.ip[u][a] <= Tcp THEN 0 ELSE t.ip[u][a]]]]

\* ClearOnlineIP drops the addresses with packet traffic only, or those not
\* seen within the TTL.
ClearOnlineIP(t) ==
    LET gone == IF realtime THEN Packet ELSE Expired
    IN [t EXCEPT !.ip = [u \in Users |-> [a \in IPs |->
                           IF t.ip[u][a] = gone THEN 0 ELSE t.ip[u][a]]]]
=============================================================================
