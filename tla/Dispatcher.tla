----------------------------- MODULE Dispatcher -----------------------------
(***************************************************************************)
(* core/xray/app/dispatcher: what xray does with one link after another of *)
(* a node's clients.  A link asks the node's limiter, may be sniffed while *)
(* the client already writes, is judged by the limiter's rules and carried *)
(* by an outbound; what the limiter counted is given back when it ends.    *)
(* Meanwhile the controller may reload the node, limiter and rules with    *)
(* it, or close it.                                                        *)
(***************************************************************************)
EXTENDS ConnCount, Sequences

CONSTANTS
    Conns,       \* links
    None,        \* no limiter, no user, no domain, no tag: what the code has nil or "" for
    Requests,    \* what each client may ask for, and how many pieces it writes
    Sniffings,   \* the inbound's SniffingRequest
    RuleSets,    \* destinations and protocols that the panel's rules reject
    Pool,        \* addresses of the fake DNS
    FakeDNS,     \* the domain each of them was given out for, or None
    Outbounds,   \* outbounds of the core's own configuration
    NodeTag      \* the outbound of the node

ASSUME DispatcherAssumption ==
    /\ NodeTag \notin Outbounds
    /\ \A c \in Conns : \A r \in Requests[c] : r.tcp \in BOOLEAN /\ (r.user \in Users => r.ip \in IPs)
    /\ None \notin Users /\ None \notin {1, 2}
    /\ IsFiniteSet(Conns)

VARIABLES
    link,        \* per link: how far it is, and its data
    table,       \* the ConnLimiter of each limiter
    rules,       \* the rules of each limiter
    node,        \* how far a reload or Close of the node is
    limiter,     \* GetLimiter(tag), or None
    sniffing     \* the inbound's SniffingRequest

vars == <<link, table, rules, node, limiter, sniffing>>

\* The limiter objects the node's tag stands for, before and after a reload.
Limiters == {1, 2}

\* A link that has not come yet.  dest is destination.Address of the code,
\* target is ob.Target, cache and pipe are what the cachedReader holds and
\* what is behind it, sent the number of pieces the client has written.
Unborn == [phase |-> "none", req |-> None, held |-> None, dest |-> None, target |-> None,
           proto |-> None, tries |-> 0, cache |-> <<>>, pipe |-> <<>>, got |-> <<>>,
           sent |-> 0]

\* Close and Interrupt drop what nobody has read; nobody asks for the rest.
Closed == [Unborn EXCEPT !.phase = "closed"]

Init ==
    /\ link = [c \in Conns |-> Unborn]
    /\ table = [l \in Limiters |-> NewConnLimiter]
    /\ \E r \in RuleSets : rules = [l \in Limiters |-> IF l = 1 THEN r ELSE {}]
    /\ node = "up"
    /\ limiter = 1
    /\ sniffing \in Sniffings

\* The record l with the fields that r gives in place of its own.
With(l, r) == [f \in DOMAIN l |-> IF f \in DOMAIN r THEN r[f] ELSE l[f]]

Becomes(c, r) == link' = [link EXCEPT ![c] = With(@, r)]
At(c, phase) == link[c].phase = phase
User(c) == link[c].req.user
IsTcp(c) == link[c].req.tcp

\* A user without an email is a user all the same: its links are not counted.
HasEmail(c) == User(c) \in Users

\* Whether the link is one that DelConnCount is called for in the end.
GivesBack(c) == link[c].held # None /\ IsTcp(c)

-----------------------------------------------------------------------------
\* Dispatch and DispatchLink, up to the limiter

Arrive(c, r) ==
    /\ At(c, "none") /\ node \in {"up", "closing"}
    /\ Becomes(c, [phase |-> "limiter", req |-> r, dest |-> r.dest, target |-> r.dest])
    /\ UNCHANGED <<table, rules, node, limiter, sniffing>>

Admitted == IF sniffing.enabled THEN "metadata" ELSE "route"

\* getLink and wrapLink: GetLimiter, and CheckLimit on what it returns, which
\* may by then be the limiter of before a reload.
GetLimiter(c) ==
    /\ At(c, "limiter")
    /\ Becomes(c, IF ~HasEmail(c) THEN [phase |-> Admitted]
                  ELSE IF limiter = None THEN Closed
                  ELSE [phase |-> "check", held |-> limiter])
    /\ UNCHANGED <<table, rules, node, limiter, sniffing>>

\* What CheckLimit refuses after it has counted, an unlisted user or one
\* device too many, stays counted ("leaked"); Limiter has the details.
CheckLimit(c) ==
    LET l == link[c].held
    IN /\ At(c, "check")
       /\ table' = [table EXCEPT ![l] = AddConnCount(@, User(c), link[c].req.ip, IsTcp(c))]
       /\ IF AddRefuses(table[l], User(c), link[c].req.ip)
            THEN Becomes(c, IF OverConnLimit(table[l], User(c)) THEN Closed ELSE [phase |-> "leaked"])
            ELSE \E phase \in {Admitted, "leaked"} : Becomes(c, [phase |-> phase])
       /\ UNCHANGED <<rules, node, limiter, sniffing>>

-----------------------------------------------------------------------------
\* sniffer

Failed == [domain |-> None, protocol |-> None, forDomain |-> None]
IsFake(a) == a \in Pool

\* The one metadata sniffer.  newFakeDNSThenOthers has no network, so that
\* neither SniffMetadata nor Sniff ever calls it.
SniffMetadata(c) ==
    LET a == link[c].target
    IN IF IsFake(a) /\ FakeDNS[a] # None
         THEN [domain |-> FakeDNS[a], protocol |-> "fakedns", forDomain |-> "fakedns"] ELSE Failed

\* What sniffer returns from the two results.
Result(meta, content) ==
    IF content = Failed THEN meta
    ELSE IF meta = Failed THEN content
    ELSE [content EXCEPT !.domain = meta.domain, !.forDomain = meta.forDomain]

\* A protocol is named in OverrideDestinationForProtocol, or "fakedns" is and
\* the address is one of the pool that the fake DNS has forgotten.
ShouldOverride(c, r) ==
    /\ r.domain # None /\ r.domain \notin sniffing.exclude
    /\ \/ r.forDomain \in sniffing.override
       \/ "fakedns" \in sniffing.override /\ r.forDomain # "bittorrent" /\ IsFake(link[c].dest)

\* Fault: the sniffed domain is only what the handler is sent to.
Sniffed_KeepsDest(c, r) ==
    IF r = Failed THEN [phase |-> "route"]
    ELSE IF ~ShouldOverride(c, r) THEN [phase |-> "route", proto |-> r.protocol]
    ELSE [phase |-> "route", proto |-> r.protocol,
          target |-> IF sniffing.routeOnly /\ r.forDomain # "fakedns" /\ ~IsFake(link[c].target)
                       THEN link[c].target ELSE r.domain]

\* The sniffed domain takes the place of the destination, for the rules and,
\* unless only routing is to see it, for the handler.
Sniffed(c, r) ==
    IF r = Failed THEN [phase |-> "route"]
    ELSE IF ~ShouldOverride(c, r) THEN [phase |-> "route", proto |-> r.protocol]
    ELSE [phase |-> "route", proto |-> r.protocol, dest |-> r.domain,
          target |-> IF sniffing.routeOnly /\ r.forDomain # "fakedns" /\ ~IsFake(link[c].target)
                       THEN link[c].target ELSE r.domain]

Metadata(c) ==
    /\ At(c, "metadata")
    /\ Becomes(c, IF sniffing.metadataOnly THEN Sniffed(c, SniffMetadata(c)) ELSE [phase |-> "content"])
    /\ UNCHANGED <<table, rules, node, limiter, sniffing>>

MaxTries == 2

\* Fault: what was cached by the first attempt is not merged.
Cached_Replaces(c) == With(link[c], [cache |-> link[c].pipe, pipe |-> <<>>])

\* cachedReader.Cache takes what the pipe holds and keeps it for the handler.
Cached(c) == With(link[c], [cache |-> link[c].cache \o link[c].pipe, pipe |-> <<>>])

\* An attempt that finds data: the sniffers have no clue yet, know the
\* protocol, or know that they do not.
Cache(c) ==
    /\ At(c, "content") /\ link[c].tries < MaxTries /\ link[c].pipe # <<>>
    /\ \/ Becomes(c, With(Cached(c), [tries |-> link[c].tries + 1]))
       \/ \E says \in {link[c].req.says, Failed} :
            Becomes(c, With(Cached(c), Sniffed(c, Result(SniffMetadata(c), says))))
    /\ UNCHANGED <<table, rules, node, limiter, sniffing>>

\* Fault: the attempts are not counted.
SniffTimeout_Waits(c) ==
    /\ At(c, "content") /\ link[c].pipe = <<>> /\ link[c].sent # 0
    /\ Becomes(c, Sniffed(c, SniffMetadata(c)))
    /\ UNCHANGED <<table, rules, node, limiter, sniffing>>

\* The attempts are used up, or nothing came within the deadline.
SniffTimeout(c) ==
    /\ At(c, "content") /\ (link[c].tries = MaxTries \/ link[c].pipe = <<>>)
    /\ Becomes(c, Sniffed(c, SniffMetadata(c)))
    /\ UNCHANGED <<table, rules, node, limiter, sniffing>>

-----------------------------------------------------------------------------
\* routedDispatch

\* Fault: the limiter is looked up again.
GaveBack_Current(c) ==
    IF ~GivesBack(c) \/ limiter = None THEN table
    ELSE [table EXCEPT ![limiter] = DelConnCount(@, User(c), link[c].req.ip)]

\* The deferred DelConnCount.
GaveBack(c) ==
    IF ~GivesBack(c) THEN table
    ELSE [table EXCEPT ![link[c].held] = DelConnCount(@, User(c), link[c].req.ip)]

\* A link that came without a limiter looks it up for the rules.
JudgedBy(c) ==
    LET l == IF link[c].held # None THEN link[c].held ELSE limiter
    IN IF User(c) = None \/ l = None THEN {} ELSE rules[l]

\* CheckDomainRule and CheckProtocolRule.
Rejected(c) == {link[c].dest, link[c].proto} \cap JudgedBy(c) # {}

RejectedByRule(c) ==
    /\ At(c, "route") /\ Rejected(c)
    /\ Becomes(c, Closed)
    /\ table' = GaveBack(c)
    /\ UNCHANGED <<rules, node, limiter, sniffing>>

Handlers == Outbounds \cup IF node \in {"up", "closing"} THEN {NodeTag} ELSE {}

\* The handlers that may carry a link: the forced one; one the router names,
\* if there is such a one; the inbound's own; the first of the core.
HandlersFor(c) ==
    IF link[c].req.forced # None THEN {link[c].req.forced} \cap Handlers
    ELSE Outbounds \cup (IF NodeTag \in Handlers THEN {NodeTag} ELSE {})

NoHandler(c) ==
    /\ At(c, "route") /\ ~Rejected(c)
    /\ HandlersFor(c) = {}
    /\ Becomes(c, Closed)
    /\ table' = GaveBack(c)
    /\ UNCHANGED <<rules, node, limiter, sniffing>>

Carry(c) ==
    /\ At(c, "route") /\ ~Rejected(c)
    /\ HandlersFor(c) # {}
    /\ Becomes(c, [phase |-> "carried"])
    /\ UNCHANGED <<table, rules, node, limiter, sniffing>>

\* The handler reads, first what was cached.
Read(c) ==
    /\ At(c, "carried")
    /\ IF link[c].cache # <<>>
         THEN Becomes(c, [got |-> link[c].got \o link[c].cache, cache |-> <<>>])
         ELSE link[c].pipe # <<>> /\ Becomes(c, [got |-> link[c].got \o link[c].pipe, pipe |-> <<>>])
    /\ UNCHANGED <<table, rules, node, limiter, sniffing>>

Interrupt(c) ==
    /\ At(c, "carried")
    /\ Becomes(c, [phase |-> "cut", cache |-> <<>>, pipe |-> <<>>])
    /\ UNCHANGED <<table, rules, node, limiter, sniffing>>

\* The handler returns.
Return(c) ==
    /\ At(c, "carried") \/ At(c, "cut")
    /\ Becomes(c, Closed)
    /\ table' = GaveBack(c)
    /\ UNCHANGED <<rules, node, limiter, sniffing>>

-----------------------------------------------------------------------------
\* The client, and the controller

Open(c) == link[c].phase \in {"metadata", "content", "route", "carried"}

Write(c) ==
    /\ Open(c) /\ link[c].sent < link[c].req.pieces
    /\ Becomes(c, [pipe |-> Append(link[c].pipe, link[c].sent + 1), sent |-> link[c].sent + 1])
    /\ UNCHANGED <<table, rules, node, limiter, sniffing>>

\* The steps of a reload: DelNode, DeleteLimiter, AddLimiter, UpdateRule,
\* AddNode; Close deletes the limiter first.
DelNode ==
    /\ \/ node = "up" /\ limiter = 1 /\ node' = "deleted"
       \/ node = "closing" /\ node' = "closed"
    /\ UNCHANGED <<link, table, rules, limiter, sniffing>>

DeleteLimiter ==
    /\ \/ node = "up" /\ node' = "closing"
       \/ node = "deleted" /\ node' = "noLimiter"
    /\ limiter' = None
    /\ UNCHANGED <<link, table, rules, sniffing>>

AddLimiter ==
    /\ node = "noLimiter" /\ node' = "noRules"
    /\ limiter' = 2
    /\ UNCHANGED <<link, table, rules, sniffing>>

UpdateRule(r) ==
    /\ node = "noRules"
    /\ rules' = [rules EXCEPT ![limiter] = r]
    /\ node' = "ready"
    /\ UNCHANGED <<link, table, limiter, sniffing>>

AddNode ==
    /\ node = "ready" /\ node' = "up"
    /\ UNCHANGED <<link, table, rules, limiter, sniffing>>

-----------------------------------------------------------------------------
Step(c) ==
    \/ GetLimiter(c) \/ CheckLimit(c) \/ Metadata(c) \/ Cache(c) \/ SniffTimeout(c)
    \/ RejectedByRule(c) \/ NoHandler(c) \/ Carry(c)

Control == DelNode \/ DeleteLimiter \/ AddLimiter \/ AddNode \/ \E r \in RuleSets : UpdateRule(r)

Next ==
    \/ \E c \in Conns : \/ \E r \in Requests[c] : Arrive(c, r)
                        \/ Step(c) \/ Write(c) \/ Read(c) \/ Interrupt(c) \/ Return(c)
    \/ Control

\* The goroutine of a link runs on by itself until the handler has it.
Spec == Init /\ [][Next]_vars /\ \A c \in Conns : WF_vars(Step(c))

-----------------------------------------------------------------------------
\* Properties

\* A user's count in a limiter is the number of the links that this very
\* limiter counted and that have not ended, and of those it refused after
\* counting: nothing is given back twice, to the limiter of a reload or not
\* at all, wherever a link fails.  (A limiter that is not realtime gives
\* nothing back: its counts only grow.)
CountsHeldLinks ==
    connLimit # 0 /\ realtime => \A l \in Limiters, u \in Users :
      table[l].count[u] = Cardinality({c \in Conns :
        link[c].held = l /\ User(c) = u /\ IsTcp(c) /\ ~At(c, "check")})

\* The handler gets what the client wrote, in the order it was written, none
\* lost and none twice, however the sniffer's attempts and the writes fall.
InOrder ==
    \A c \in Conns :
      LET l == link[c]
          all == l.got \o l.cache \o l.pipe
      IN /\ all = [i \in 1..Len(all) |-> i]
         /\ Open(c) => Len(all) = l.sent

\* No link of a user is carried to a destination that the rules reject: what
\* sniffing puts in the place of the destination is judged again.  Stated of
\* the limiter that has had its rules all the time, and without RouteOnly,
\* where the handler is sent elsewhere than what is judged.
RulesHold ==
    \A c \in Conns :
      At(c, "carried") /\ link[c].held = 1 /\ ~sniffing.routeOnly =>
        {link[c].target, link[c].proto} \cap rules[1] = {}

\* A link that has come is let go again or handed to an outbound, also when
\* its client never writes a byte or the node is taken away.
EventuallyRouted ==
    \A c \in Conns : ~At(c, "none") ~> link[c].phase \in {"leaked", "carried", "cut", "closed"}
=============================================================================
