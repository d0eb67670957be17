-------------------------- MODULE DispatcherProofs --------------------------
(***************************************************************************)
(* Proofs about Dispatcher: what the limiters count, what the handlers     *)
(* read and what the rules let through, for any number of links, users and *)
(* pieces, and any sniffing and rules.                                     *)
(* Then about ConnLimiter: the calls that Dispatcher and Limiter have as   *)
(* one step each are what their accesses of the maps add up to.            *)
(* And about ConnLimiter alone: what its count keeps to however the calls  *)
(* overlap, and its limit and its records while they do not.               *)
(***************************************************************************)
EXTENDS Dispatcher, FiniteSetTheorems, SequenceTheorems, TLAPS

Fields == {"phase", "req", "held", "dest", "target", "proto", "tries", "cache", "pipe", "got", "sent"}

Tables == [count : [Users -> Nat], ip : [Users -> [IPs -> Int]]]

-----------------------------------------------------------------------------
\* The invariant, link by link

\* Every link is a record with all its fields.
Shape ==
    /\ link = [c \in Conns |-> link[c]]
    /\ \A c \in Conns : DOMAIN link[c] = Fields

\* Only a link that has asked for one and has not ended holds a limiter, and
\* it is one of a user of the panel.
Holds(c) ==
    /\ link[c].held \in Limiters \cup {None}
    /\ link[c].held # None => HasEmail(c) /\ link[c].req.ip \in IPs /\ IsTcp(c) \in BOOLEAN
    /\ link[c].phase \in {"none", "limiter", "closed"} => link[c].held = None
    /\ At(c, "check") => link[c].held # None
    /\ ~At(c, "none") /\ ~At(c, "closed") => link[c].req \in Requests[c]

\* The pieces 1 to n in the order they are written.
UpTo(n) == [i \in 1..n |-> i]

All(l) == l.got \o l.cache \o l.pipe

\* A link has written nothing before it is let in, and what it has written
\* is on its way or read.
Ordered(c) ==
    /\ link[c].got \in Seq(Nat) /\ link[c].cache \in Seq(Nat) /\ link[c].pipe \in Seq(Nat)
    /\ link[c].sent \in Nat
    /\ link[c].phase \in {"none", "limiter", "check"} =>
         link[c].got = <<>> /\ link[c].cache = <<>> /\ link[c].pipe = <<>> /\ link[c].sent = 0
    /\ All(link[c]) = UpTo(Len(All(link[c])))
    /\ Open(c) => Len(All(link[c])) = link[c].sent

\* The handler is sent to what is judged, and what is carried was judged by
\* the rules that the first limiter has for good.
Judged(c) ==
    /\ ~sniffing.routeOnly => link[c].target = link[c].dest
    /\ At(c, "carried") /\ link[c].held = 1 => {link[c].dest, link[c].proto} \cap rules[1] = {}

\* The controller
NodeInv ==
    /\ limiter \in Limiters \cup {None}
    /\ node = "noRules" => limiter = 2
    /\ rules = [l \in Limiters |-> rules[l]]

LinkInv(c) == Holds(c) /\ Ordered(c) /\ Judged(c)

Inv ==
    /\ Shape
    /\ NodeInv
    /\ \A c \in Conns : LinkInv(c)

-----------------------------------------------------------------------------
\* Records

\* With takes the fields that are given, and the others as they are.
LEMMA WithFields ==
    ASSUME NEW l, DOMAIN l = Fields, NEW r
    PROVE  /\ DOMAIN With(l, r) = Fields
           /\ \A f \in Fields : With(l, r)[f] = IF f \in DOMAIN r THEN r[f] ELSE l[f]
BY DEF With

\* A step of one link leaves the others alone.
LEMMA BecomesLink ==
    ASSUME Shape, NEW c \in Conns, NEW r, Becomes(c, r)
    PROVE  /\ Shape'
           /\ \A f \in Fields : link'[c][f] = IF f \in DOMAIN r THEN r[f] ELSE link[c][f]
           /\ \A d \in Conns : d # c => link'[d] = link[d]
<1>1. link' = [d \in Conns |-> IF d = c THEN With(link[c], r) ELSE link[d]]
  BY DEF Shape, Becomes
<1> QED
  BY <1>1, WithFields DEF Shape

-----------------------------------------------------------------------------
\* Sequences

LEMMA NoPieces ==
    /\ <<>> \in Seq(Nat) /\ Len(<<>>) = 0
    /\ <<>> \o <<>> \o <<>> = <<>>
    /\ <<>> = UpTo(0)
<1>1. <<>> \in Seq(Nat) /\ Len(<<>>) = 0
  BY EmptySeq
<1>2. <<>> \o <<>> = <<>>
  BY <1>1, ConcatEmptySeq
<1>3. <<>> = UpTo(0)
  BY <1>1 DEF UpTo
<1> QED
  BY <1>1, <1>2, <1>3

\* A sequence that counts up counts up to its length.
LEMMA UpToLength ==
    ASSUME NEW n \in Nat
    PROVE  UpTo(n) \in Seq(Nat) /\ Len(UpTo(n)) = n
BY DEF UpTo

\* Moving pieces on from one place to the next changes nothing of the whole.
LEMMA MovedOn ==
    ASSUME NEW g \in Seq(Nat), NEW k \in Seq(Nat), NEW p \in Seq(Nat)
    PROVE  /\ (g \o k) \o <<>> \o p = g \o k \o p
           /\ (g \o p) \o <<>> \o <<>> = g \o <<>> \o p
           /\ g \o <<>> \o <<>> = g
<1>1. g \o k \in Seq(Nat) /\ g \o p \in Seq(Nat)
  BY ConcatProperties
<1>2. \A s \in Seq(Nat) : s \o <<>> = s
  BY ConcatEmptySeq
<1> QED
  BY <1>1, <1>2

\* Nor does putting them behind those that are there already.
LEMMA CachedOn ==
    ASSUME NEW g \in Seq(Nat), NEW k \in Seq(Nat), NEW p \in Seq(Nat)
    PROVE  g \o (k \o p) \o <<>> = g \o k \o p
<1>1. k \o p \in Seq(Nat)
  BY ConcatProperties
<1>2. g \o (k \o p) \in Seq(Nat)
  BY <1>1, ConcatProperties
<1>3. g \o (k \o p) \o <<>> = g \o (k \o p)
  BY <1>2, ConcatEmptySeq
<1>4. (g \o k) \o p = g \o (k \o p)
  BY ConcatAssociative, SMTT(60)
<1> QED
  BY <1>3, <1>4

\* One more piece at the end.
LEMMA OneMorePiece ==
    ASSUME NEW g \in Seq(Nat), NEW k \in Seq(Nat), NEW p \in Seq(Nat), NEW n \in Nat,
           g \o k \o p = UpTo(n)
    PROVE  /\ Append(p, n + 1) \in Seq(Nat)
           /\ g \o k \o Append(p, n + 1) = UpTo(n + 1)
<1>1. PICK h \in Seq(Nat) : h = g \o k
  BY ConcatProperties
<1>2. PICK q \in Seq(Nat) : q = Append(p, n + 1)
  <2>1. Append(p, n + 1) \in Seq(Nat)
    OBVIOUS
  <2> QED
    BY <2>1
<1>3. /\ Len(q) = Len(p) + 1 /\ q[Len(p) + 1] = n + 1
      /\ \A j \in 1..Len(p) : q[j] = p[j]
  BY <1>2
<1>4. Len(h) \in Nat /\ Len(p) \in Nat
  BY LenProperties
<1>5. /\ Len(h \o p) = Len(h) + Len(p)
      /\ \A i \in 1..(Len(h) + Len(p)) : (h \o p)[i] = IF i <= Len(h) THEN h[i] ELSE p[i - Len(h)]
  BY ConcatProperties
<1>6. /\ h \o q \in Seq(Nat)
      /\ Len(h \o q) = Len(h) + Len(q)
      /\ \A i \in 1..(Len(h) + Len(q)) : (h \o q)[i] = IF i <= Len(h) THEN h[i] ELSE q[i - Len(h)]
  BY ConcatProperties
<1>7. Len(h) + Len(p) = n
  BY <1>1, <1>5, UpToLength
<1>8. ASSUME NEW i \in 1..(n + 1)
      PROVE  (h \o q)[i] = i
  <2>1. i \in Nat /\ 1 <= i /\ i <= n + 1
    OBVIOUS
  <2>2. i <= n \/ i = n + 1
    BY <2>1
  <2>3. CASE i <= n
    <3>1. i \in 1..n
      BY <2>1, <2>3
    <3>2. (h \o p)[i] = i
      BY <1>1, <3>1 DEF UpTo
    <3>3. /\ i \in 1..(Len(h) + Len(p)) /\ i \in 1..(Len(h) + Len(q))
          /\ i > Len(h) => i - Len(h) \in 1..Len(p)
      BY <1>3, <1>4, <1>7, <3>1
    <3>4. CASE i <= Len(h)
      BY <1>5, <1>6, <3>2, <3>3, <3>4
    <3>5. CASE i > Len(h)
      <4>1. (h \o p)[i] = p[i - Len(h)] /\ (h \o q)[i] = q[i - Len(h)]
        BY <1>4, <1>5, <1>6, <3>1, <3>3, <3>5
      <4> QED
        BY <1>3, <3>2, <3>3, <3>5, <4>1
    <3>6. i <= Len(h) \/ i > Len(h)
      BY <1>4, <2>1
    <3> QED
      BY <3>4, <3>5, <3>6
  <2>4. CASE i = n + 1
    BY <1>3, <1>4, <1>6, <1>7, <2>4
  <2> QED
    BY <2>2, <2>3, <2>4
<1>9. /\ Len(h \o q) = n + 1 /\ UpTo(n + 1) \in Seq(Nat) /\ Len(UpTo(n + 1)) = n + 1
      /\ \A i \in 1..(n + 1) : UpTo(n + 1)[i] = i
  BY <1>3, <1>4, <1>6, <1>7, UpToLength DEF UpTo
<1>10. h \o q = UpTo(n + 1)
  BY <1>6, <1>8, <1>9, SeqEqual
<1> QED
  BY <1>1, <1>2, <1>10

\* What is left when the rest is dropped still counts up.
LEMMA ShorterCounts ==
    ASSUME NEW g \in Seq(Nat), NEW k \in Seq(Nat), NEW p \in Seq(Nat), NEW n \in Nat,
           g \o k \o p = UpTo(n)
    PROVE  g = UpTo(Len(g))
<1>1. g \o k \in Seq(Nat) /\ Len(g \o k) = Len(g) + Len(k)
  BY ConcatProperties
<1>2. Len(g) + Len(k) + Len(p) = n
  BY <1>1, ConcatProperties, UpToLength
<1>3. Len(g) \in Nat /\ Len(k) \in Nat /\ Len(p) \in Nat
  BY LenProperties
<1>4. ASSUME NEW i \in 1..Len(g)
      PROVE  g[i] = i
  <2>1. (g \o k)[i] = g[i]
    BY <1>3, ConcatProperties
  <2>2. (g \o k \o p)[i] = (g \o k)[i]
    <3>1. PICK h \in Seq(Nat) : h = g \o k
      BY <1>1
    <3>2. Len(h) = Len(g) + Len(k) /\ i \in 1..Len(h)
      BY <1>1, <1>3, <3>1
    <3>3. (h \o p)[i] = h[i]
      BY <1>3, <3>2, ConcatProperties
    <3> QED
      BY <3>1, <3>3
  <2>3. i \in 1..n
    BY <1>2, <1>3
  <2> QED
    BY <2>1, <2>2, <2>3 DEF UpTo
<1> QED
  BY <1>3, <1>4, UpToLength, SeqEqual DEF UpTo

-----------------------------------------------------------------------------
\* Steps of a link

\* A step that leaves the pieces of a link where they are.
LEMMA PiecesKept ==
    ASSUME Shape, NEW c \in Conns, Ordered(c), NEW r, Becomes(c, r),
           DOMAIN r \cap {"got", "cache", "pipe", "sent"} = {},
           Open(c)' => Open(c) \/ link[c].phase \in {"limiter", "check"},
           link'[c].phase \in {"none", "limiter", "check"}
             => link[c].phase \in {"none", "limiter", "check"}
    PROVE  Ordered(c)'
<1>1. /\ link'[c].got = link[c].got /\ link'[c].cache = link[c].cache
      /\ link'[c].pipe = link[c].pipe /\ link'[c].sent = link[c].sent
  BY BecomesLink DEF Fields
<1>2. All(link[c])' = All(link[c])
  BY <1>1 DEF All
<1>3. link[c].phase \in {"none", "limiter", "check"} => Len(All(link[c])) = link[c].sent
  BY NoPieces DEF Ordered, All
<1> QED
  BY <1>1, <1>2, <1>3 DEF Ordered

\* Close and Interrupt leave nothing but what has been read.
LEMMA PiecesDropped ==
    ASSUME Shape, NEW c \in Conns, Ordered(c), NEW r, Becomes(c, r),
           r = Closed \/ r = [phase |-> "cut", cache |-> <<>>, pipe |-> <<>>]
    PROVE  Ordered(c)'
<1>1. CASE r = Closed
  <2>1. /\ link'[c].got = <<>> /\ link'[c].cache = <<>> /\ link'[c].pipe = <<>>
        /\ link'[c].sent = 0 /\ link'[c].phase = "closed"
    BY <1>1, BecomesLink DEF Fields, Closed, Unborn
  <2> QED
    BY <2>1, NoPieces DEF Ordered, All, Open
<1>2. CASE r = [phase |-> "cut", cache |-> <<>>, pipe |-> <<>>]
  <2> DEFINE g == link[c].got
  <2>1. /\ link'[c].got = g /\ link'[c].cache = <<>> /\ link'[c].pipe = <<>>
        /\ link'[c].sent = link[c].sent /\ link'[c].phase = "cut"
    BY <1>2, BecomesLink DEF Fields
  <2>2. g \in Seq(Nat) /\ g \o <<>> \o <<>> = g
    BY MovedOn, NoPieces DEF Ordered
  <2>3. g = UpTo(Len(g))
    <3> DEFINE k == link[c].cache
               p == link[c].pipe
    <3>1. k \in Seq(Nat) /\ p \in Seq(Nat) /\ g \o k \o p = UpTo(Len(g \o k \o p))
      BY DEF Ordered, All
    <3>2. Len(g \o k \o p) \in Nat
      BY <2>2, <3>1, ConcatProperties, LenProperties
    <3> HIDE DEF g, k, p
    <3> QED
      BY <2>2, <3>1, <3>2, ShorterCounts
  <2>4. link[c].sent \in Nat
    BY DEF Ordered
  <2> QED
    BY <2>1, <2>2, <2>3, <2>4, NoPieces DEF Ordered, All, Open
<1> QED
  BY <1>1, <1>2

\* What the sniffers' result does to a link.
LEMMA SniffedFields ==
    ASSUME NEW c, NEW r
    PROVE  LET s == Sniffed(c, r)
           IN /\ s.phase = "route" /\ "phase" \in DOMAIN s
              /\ DOMAIN s \subseteq {"phase", "proto", "dest", "target"}
              /\ "dest" \in DOMAIN s <=> "target" \in DOMAIN s
              /\ "dest" \in DOMAIN s /\ ~sniffing.routeOnly => s.target = s.dest
BY DEF Sniffed

\* A link that ends is as good as one that has not come.
LEMMA ClosedKeeps ==
    ASSUME Inv, NEW c \in Conns, Becomes(c, Closed)
    PROVE  LinkInv(c)'
<1>1. /\ link'[c].phase = "closed" /\ link'[c].held = None
      /\ link'[c].dest = None /\ link'[c].target = None
  BY BecomesLink DEF Inv, Fields, Closed, Unborn
<1>2. Holds(c)' /\ Judged(c)'
  BY <1>1 DEF Holds, Judged, At
<1>3. Ordered(c)'
  BY PiecesDropped DEF Inv, LinkInv
<1> QED
  BY <1>2, <1>3 DEF LinkInv

LEMMA ArriveKeeps ==
    ASSUME Inv, NEW c \in Conns, NEW r \in Requests[c], Arrive(c, r)
    PROVE  LinkInv(c)'
<1> DEFINE new == [phase |-> "limiter", req |-> r, dest |-> r.dest, target |-> r.dest]
<1>1. Shape /\ LinkInv(c) /\ At(c, "none") /\ Becomes(c, new)
  BY DEF Inv, Arrive
<1>2. /\ link'[c].phase = "limiter" /\ link'[c].req = r /\ link'[c].held = link[c].held
      /\ link'[c].dest = link'[c].target
  BY <1>1, BecomesLink DEF Fields
<1>3. link[c].held = None
  BY <1>1 DEF LinkInv, Holds, At
<1>4. Holds(c)'
  BY <1>2, <1>3 DEF Holds, At
<1>5. Ordered(c)'
  BY <1>1, <1>2, PiecesKept DEF LinkInv, Open, At
<1>6. Judged(c)'
  BY <1>2 DEF Judged, At
<1> QED
  BY <1>4, <1>5, <1>6 DEF LinkInv

LEMMA GetLimiterKeeps ==
    ASSUME Inv, NEW c \in Conns, GetLimiter(c)
    PROVE  LinkInv(c)'
<1>1. Shape /\ LinkInv(c) /\ NodeInv /\ At(c, "limiter") /\ sniffing' = sniffing
  BY DEF Inv, GetLimiter
<1>2. link[c].held = None /\ link[c].req \in Requests[c]
  BY <1>1 DEF LinkInv, Holds, At
<1>3. CASE HasEmail(c) /\ limiter = None
  BY <1>3, ClosedKeeps DEF GetLimiter
<1>4. CASE ~HasEmail(c)
  <2>1. Becomes(c, [phase |-> Admitted])
    BY <1>4 DEF GetLimiter
  <2>2. /\ link'[c].phase \in {"metadata", "route"} /\ link'[c].req = link[c].req
        /\ link'[c].held = link[c].held /\ link'[c].dest = link[c].dest
        /\ link'[c].target = link[c].target
    BY <1>1, <2>1, BecomesLink DEF Fields, Admitted
  <2>3. Holds(c)' /\ Judged(c)'
    BY <1>1, <1>2, <2>2 DEF LinkInv, Holds, Judged, At
  <2>4. Ordered(c)'
    BY <1>1, <2>1, <2>2, PiecesKept DEF LinkInv, Open, At
  <2> QED
    BY <2>3, <2>4 DEF LinkInv
<1>5. CASE HasEmail(c) /\ limiter # None
  <2> DEFINE new == [phase |-> "check", held |-> limiter]
  <2>1. Becomes(c, new)
    BY <1>5 DEF GetLimiter
  <2>2. /\ link'[c].phase = "check" /\ link'[c].req = link[c].req
        /\ link'[c].held = limiter /\ link'[c].dest = link[c].dest
        /\ link'[c].target = link[c].target
    BY <1>1, <2>1, BecomesLink DEF Fields
  <2>3. link[c].req.ip \in IPs /\ IsTcp(c) \in BOOLEAN
    BY <1>2, <1>5, DispatcherAssumption DEF HasEmail, User, IsTcp
  <2>4. Holds(c)'
    BY <1>1, <1>2, <1>5, <2>2, <2>3 DEF NodeInv, Holds, At, HasEmail, User, IsTcp
  <2>5. Judged(c)'
    BY <1>1, <2>2 DEF LinkInv, Judged, At
  <2>6. Ordered(c)'
    BY <1>1, <2>1, <2>2, PiecesKept DEF LinkInv, Open, At
  <2> QED
    BY <2>4, <2>5, <2>6 DEF LinkInv
<1> QED
  BY <1>3, <1>4, <1>5

\* The check, and every later step that changes the phase alone and is no
\* step to the handler.
LEMMA PhaseKeeps ==
    ASSUME Inv, NEW c \in Conns, NEW phase \in {"leaked", "metadata", "content", "route"},
           ~At(c, "none"), ~At(c, "closed"), ~At(c, "limiter"),
           Open(c) \/ At(c, "check"),
           Becomes(c, [phase |-> phase]), sniffing' = sniffing
    PROVE  LinkInv(c)'
<1>1. Shape /\ LinkInv(c)
  BY DEF Inv
<1>2. /\ link'[c].phase = phase /\ link'[c].req = link[c].req
      /\ link'[c].held = link[c].held /\ link'[c].dest = link[c].dest
      /\ link'[c].target = link[c].target
  BY <1>1, BecomesLink DEF Fields
<1>3. Holds(c)' /\ Judged(c)'
  BY <1>1, <1>2 DEF LinkInv, Holds, Judged, At, HasEmail, User, IsTcp
<1>4. Ordered(c)'
  BY <1>1, <1>2, PiecesKept DEF LinkInv, Open, At
<1> QED
  BY <1>3, <1>4 DEF LinkInv

LEMMA CheckLimitKeeps ==
    ASSUME Inv, NEW c \in Conns, CheckLimit(c)
    PROVE  LinkInv(c)'
<1>1. At(c, "check") /\ sniffing' = sniffing
  BY DEF CheckLimit
<1>2. Becomes(c, Closed) \/ \E phase \in {"leaked", "metadata", "route"} : Becomes(c, [phase |-> phase])
  BY DEF CheckLimit, Admitted
<1> QED
  BY <1>1, <1>2, ClosedKeeps, PhaseKeeps DEF At

\* The sniffers' result takes a link to be judged.
LEMMA SniffedKeeps ==
    ASSUME Inv, NEW c \in Conns, At(c, "metadata") \/ At(c, "content"),
           NEW r, Becomes(c, Sniffed(c, r)), sniffing' = sniffing
    PROVE  LinkInv(c)'
<1>1. Shape /\ LinkInv(c)
  BY DEF Inv
<1> DEFINE s == Sniffed(c, r)
<1>2. /\ s.phase = "route" /\ "phase" \in DOMAIN s
      /\ DOMAIN s \subseteq {"phase", "proto", "dest", "target"}
      /\ "dest" \in DOMAIN s <=> "target" \in DOMAIN s
      /\ "dest" \in DOMAIN s /\ ~sniffing.routeOnly => s.target = s.dest
  BY SniffedFields
<1> HIDE DEF s
<1>3. Becomes(c, s)
  BY DEF s
<1>4. \A f \in Fields : link'[c][f] = IF f \in DOMAIN s THEN s[f] ELSE link[c][f]
  BY <1>1, <1>3, BecomesLink
<1>5. /\ link'[c].phase = "route" /\ link'[c].req = link[c].req
      /\ link'[c].held = link[c].held
      /\ \/ link'[c].dest = link[c].dest /\ link'[c].target = link[c].target
         \/ ~sniffing.routeOnly => link'[c].target = link'[c].dest
  BY <1>2, <1>4 DEF Fields
<1>6. Holds(c)' /\ Judged(c)'
  BY <1>1, <1>5 DEF LinkInv, Holds, Judged, At, HasEmail, User, IsTcp
<1>7. Ordered(c)'
  BY <1>1, <1>2, <1>3, <1>5, PiecesKept DEF LinkInv, Open, At
<1> QED
  BY <1>6, <1>7 DEF LinkInv

LEMMA MetadataKeeps ==
    ASSUME Inv, NEW c \in Conns, Metadata(c)
    PROVE  LinkInv(c)'
<1>1. At(c, "metadata") /\ sniffing' = sniffing
  BY DEF Metadata
<1>2. Becomes(c, Sniffed(c, SniffMetadata(c))) \/ Becomes(c, [phase |-> "content"])
  BY DEF Metadata
<1> QED
  BY <1>1, <1>2, SniffedKeeps, PhaseKeeps DEF At, Open

LEMMA SniffTimeoutKeeps ==
    ASSUME Inv, NEW c \in Conns, SniffTimeout(c)
    PROVE  LinkInv(c)'
BY SniffedKeeps DEF SniffTimeout

\* An attempt of the sniffer moves the pieces, and does no more to the link
\* than a step that only counts the attempt or takes the sniffers' result.
LEMMA CacheKeeps ==
    ASSUME Inv, NEW c \in Conns, Cache(c)
    PROVE  LinkInv(c)'
<1>1. /\ Shape /\ LinkInv(c) /\ DOMAIN link[c] = Fields
      /\ At(c, "content") /\ sniffing' = sniffing
  BY DEF Inv, Cache, Shape
<1> DEFINE k == Cached(c)
<1>2. PICK s : /\ Becomes(c, With(k, s))
               /\ DOMAIN s \subseteq {"phase", "proto", "dest", "target", "tries"}
               /\ "phase" \in DOMAIN s => s.phase = "route"
               /\ "dest" \in DOMAIN s <=> "target" \in DOMAIN s
               /\ "dest" \in DOMAIN s /\ ~sniffing.routeOnly => s.target = s.dest
  <2>1. CASE Becomes(c, With(k, [tries |-> link[c].tries + 1]))
    BY <2>1
  <2>2. ASSUME NEW r, Becomes(c, With(k, Sniffed(c, r)))
        PROVE  \E s : /\ Becomes(c, With(k, s))
                      /\ DOMAIN s \subseteq {"phase", "proto", "dest", "target", "tries"}
                      /\ "phase" \in DOMAIN s => s.phase = "route"
                      /\ "dest" \in DOMAIN s <=> "target" \in DOMAIN s
                      /\ "dest" \in DOMAIN s /\ ~sniffing.routeOnly => s.target = s.dest
    <3> DEFINE s == Sniffed(c, r)
    <3>1. /\ s.phase = "route"
          /\ DOMAIN s \subseteq {"phase", "proto", "dest", "target"}
          /\ "dest" \in DOMAIN s <=> "target" \in DOMAIN s
          /\ "dest" \in DOMAIN s /\ ~sniffing.routeOnly => s.target = s.dest
      BY SniffedFields
    <3>2. Becomes(c, With(k, s))
      BY <2>2
    <3>3. "phase" \in DOMAIN s => s.phase = "route"
      BY <3>1
    <3>4. DOMAIN s \subseteq {"phase", "proto", "dest", "target", "tries"}
      BY <3>1
    <3>5. /\ Becomes(c, With(k, s))
          /\ DOMAIN s \subseteq {"phase", "proto", "dest", "target", "tries"}
          /\ "phase" \in DOMAIN s => s.phase = "route"
          /\ "dest" \in DOMAIN s <=> "target" \in DOMAIN s
          /\ "dest" \in DOMAIN s /\ ~sniffing.routeOnly => s.target = s.dest
      BY <3>1, <3>2, <3>3, <3>4, SMTT(30)
    <3> HIDE DEF s, k
    <3> QED
      BY <3>5, Zenon
  <2> QED
    BY <2>1, <2>2 DEF Cache
<1> DEFINE g == link[c].got
           h == link[c].cache
           p == link[c].pipe
<1>3. /\ DOMAIN k = Fields
      /\ \A f \in Fields \ {"cache", "pipe"} : k[f] = link[c][f]
      /\ k.cache = h \o p /\ k.pipe = <<>>
  <2> DEFINE moved == [cache |-> h \o p, pipe |-> <<>>]
  <2>1. k = With(link[c], moved)
    BY DEF Cached
  <2>2. \A f \in Fields : With(link[c], moved)[f] = IF f \in DOMAIN moved THEN moved[f] ELSE link[c][f]
    BY <1>1, WithFields
  <2>3. DOMAIN With(link[c], moved) = Fields
    BY <1>1, WithFields
  <2> QED
    BY <2>1, <2>2, <2>3 DEF Fields
<1> HIDE DEF k
<1>4. /\ \A f \in Fields : With(k, s)[f] = IF f \in DOMAIN s THEN s[f] ELSE k[f]
      /\ DOMAIN With(k, s) = Fields
  BY <1>3, WithFields
<1>5. \A f \in Fields : link'[c][f] = IF f \in DOMAIN s THEN s[f] ELSE k[f]
  BY <1>1, <1>2, <1>4, BecomesLink
<1>6. /\ link'[c].phase \in {"content", "route"} /\ link'[c].req = link[c].req
      /\ link'[c].held = link[c].held /\ link'[c].sent = link[c].sent
      /\ link'[c].got = g /\ link'[c].cache = h \o p /\ link'[c].pipe = <<>>
      /\ \/ link'[c].dest = link[c].dest /\ link'[c].target = link[c].target
         \/ ~sniffing.routeOnly => link'[c].target = link'[c].dest
  <2>1. link'[c].phase \in {"content", "route"}
    BY <1>1, <1>2, <1>3, <1>5 DEF Fields, At
  <2>2. /\ link'[c].req = link[c].req /\ link'[c].held = link[c].held
        /\ link'[c].sent = link[c].sent /\ link'[c].got = g
    BY <1>2, <1>3, <1>5 DEF Fields
  <2>3. link'[c].cache = h \o p /\ link'[c].pipe = <<>>
    <3>1. "cache" \notin DOMAIN s /\ "pipe" \notin DOMAIN s
      BY <1>2
    <3> QED
      BY <1>3, <1>5, <3>1 DEF Fields
  <2>4. "dest" \notin DOMAIN s => link'[c].dest = link[c].dest /\ link'[c].target = link[c].target
    BY <1>2, <1>3, <1>5 DEF Fields
  <2>5. "dest" \in DOMAIN s /\ ~sniffing.routeOnly => link'[c].target = link'[c].dest
    BY <1>2, <1>5 DEF Fields
  <2> QED
    BY <2>1, <2>2, <2>3, <2>4, <2>5
<1>7. Holds(c)' /\ Judged(c)'
  BY <1>1, <1>6 DEF LinkInv, Holds, Judged, At, HasEmail, User, IsTcp
<1>8. g \in Seq(Nat) /\ h \in Seq(Nat) /\ p \in Seq(Nat) /\ link[c].sent \in Nat
  <2>1. Ordered(c)
    BY <1>1, ZenonT(30) DEF LinkInv
  <2> QED
    BY <2>1, Zenon DEF Ordered
<1>9. All(link[c])' = All(link[c])
  <2>1. All(link[c])' = g \o (h \o p) \o <<>>
    BY <1>6 DEF All
  <2>2. g \o (h \o p) \o <<>> = g \o h \o p
    <3> HIDE DEF g, h, p
    <3> QED
      BY <1>8, CachedOn
  <2> QED
    BY <2>1, <2>2 DEF All
<1>10. Ordered(c)'
  <2>1. h \o p \in Seq(Nat) /\ <<>> \in Seq(Nat)
    BY <1>8, ConcatProperties, NoPieces
  <2>2. All(link[c]) = UpTo(Len(All(link[c]))) /\ Len(All(link[c])) = link[c].sent
    BY <1>1 DEF LinkInv, Ordered, Open, At
  <2> QED
    BY <1>6, <1>8, <1>9, <2>1, <2>2 DEF Ordered
<1> QED
  BY <1>7, <1>10 DEF LinkInv

\* Only what the rules of its limiter let through is carried.
LEMMA CarryKeeps ==
    ASSUME Inv, NEW c \in Conns, Carry(c)
    PROVE  LinkInv(c)'
<1>1. /\ Shape /\ LinkInv(c) /\ At(c, "route") /\ ~Rejected(c)
      /\ Becomes(c, [phase |-> "carried"]) /\ sniffing' = sniffing /\ rules' = rules
  BY DEF Inv, Carry
<1>2. /\ link'[c].phase = "carried" /\ link'[c].req = link[c].req
      /\ link'[c].held = link[c].held /\ link'[c].dest = link[c].dest
      /\ link'[c].target = link[c].target /\ link'[c].proto = link[c].proto
  BY <1>1, BecomesLink DEF Fields
<1>3. link[c].held = 1 => JudgedBy(c) = rules[1]
  <2>1. link[c].held # None => User(c) # None
    BY <1>1, DispatcherAssumption DEF LinkInv, Holds, HasEmail
  <2>2. 1 # None
    BY DispatcherAssumption
  <2> QED
    BY <2>1, <2>2 DEF JudgedBy
<1>4. Holds(c)'
  BY <1>1, <1>2 DEF LinkInv, Holds, At, HasEmail, User, IsTcp
<1>5. Judged(c)'
  BY <1>1, <1>2, <1>3 DEF LinkInv, Judged, At, Rejected
<1>6. Ordered(c)'
  BY <1>1, <1>2, PiecesKept DEF LinkInv, Open, At
<1> QED
  BY <1>4, <1>5, <1>6 DEF LinkInv

\* The handler reads what was cached before what is in the pipe.
LEMMA ReadKeeps ==
    ASSUME Inv, NEW c \in Conns, Read(c)
    PROVE  LinkInv(c)'
<1>1. /\ Shape /\ LinkInv(c) /\ At(c, "carried")
      /\ sniffing' = sniffing /\ rules' = rules
  BY DEF Inv, Read
<1> DEFINE g == link[c].got
           h == link[c].cache
           p == link[c].pipe
<1>2. \/ h # <<>> /\ Becomes(c, [got |-> g \o h, cache |-> <<>>])
      \/ h = <<>> /\ Becomes(c, [got |-> g \o p, pipe |-> <<>>])
  BY DEF Read
<1>3. ASSUME NEW new, Becomes(c, new), DOMAIN new \subseteq {"got", "cache", "pipe"}
      PROVE  /\ link'[c].phase = link[c].phase /\ link'[c].req = link[c].req
             /\ link'[c].held = link[c].held /\ link'[c].dest = link[c].dest
             /\ link'[c].target = link[c].target /\ link'[c].proto = link[c].proto
             /\ link'[c].sent = link[c].sent
             /\ link'[c].got = IF "got" \in DOMAIN new THEN new.got ELSE g
             /\ link'[c].cache = IF "cache" \in DOMAIN new THEN new.cache ELSE h
             /\ link'[c].pipe = IF "pipe" \in DOMAIN new THEN new.pipe ELSE p
  BY <1>1, <1>3, BecomesLink DEF Fields
<1>4. /\ link'[c].phase = "carried" /\ link'[c].req = link[c].req
      /\ link'[c].held = link[c].held /\ link'[c].dest = link[c].dest
      /\ link'[c].target = link[c].target /\ link'[c].proto = link[c].proto
      /\ link'[c].sent = link[c].sent
      /\ \/ link'[c].got = g \o h /\ link'[c].cache = <<>> /\ link'[c].pipe = p
         \/ h = <<>> /\ link'[c].got = g \o p /\ link'[c].cache = <<>> /\ link'[c].pipe = <<>>
  <2>1. CASE Becomes(c, [got |-> g \o h, cache |-> <<>>])
    <3> DEFINE new == [got |-> g \o h, cache |-> <<>>]
    <3>1. Becomes(c, new) /\ DOMAIN new \subseteq {"got", "cache", "pipe"}
      BY <2>1
    <3>2. /\ "got" \in DOMAIN new /\ "cache" \in DOMAIN new /\ "pipe" \notin DOMAIN new
          /\ new.got = g \o h /\ new.cache = <<>>
      OBVIOUS
    <3> HIDE DEF new
    <3> QED
      BY <1>1, <1>3, <3>1, <3>2 DEF At
  <2>2. CASE h = <<>> /\ Becomes(c, [got |-> g \o p, pipe |-> <<>>])
    <3> DEFINE new == [got |-> g \o p, pipe |-> <<>>]
    <3>1. Becomes(c, new) /\ DOMAIN new \subseteq {"got", "cache", "pipe"}
      BY <2>2
    <3>2. /\ "got" \in DOMAIN new /\ "cache" \notin DOMAIN new /\ "pipe" \in DOMAIN new
          /\ new.got = g \o p /\ new.pipe = <<>>
      OBVIOUS
    <3> HIDE DEF new
    <3> QED
      BY <1>1, <1>3, <2>2, <3>1, <3>2 DEF At
  <2> QED
    BY <1>2, <2>1, <2>2
<1>5. Holds(c)' /\ Judged(c)'
  BY <1>1, <1>4 DEF LinkInv, Holds, Judged, At, HasEmail, User, IsTcp
<1>6. g \in Seq(Nat) /\ h \in Seq(Nat) /\ p \in Seq(Nat) /\ link[c].sent \in Nat
  BY <1>1 DEF LinkInv, Ordered
<1>7. All(link[c])' = All(link[c])
  <2>1. All(link[c])' = (g \o h) \o <<>> \o p \/ (h = <<>> /\ All(link[c])' = (g \o p) \o <<>> \o <<>>)
    BY <1>4 DEF All
  <2>2. All(link[c]) = g \o h \o p
    BY DEF All
  <2> HIDE DEF g, h, p
  <2>3. (g \o h) \o <<>> \o p = g \o h \o p
    BY <1>6, MovedOn
  <2>4. (g \o p) \o <<>> \o <<>> = g \o <<>> \o p
    BY <1>6, MovedOn
  <2> QED
    BY <2>1, <2>2, <2>3, <2>4
<1>8. Ordered(c)'
  <2>1. g \o h \in Seq(Nat) /\ g \o p \in Seq(Nat) /\ <<>> \in Seq(Nat)
    BY <1>6, ConcatProperties, NoPieces
  <2>2. All(link[c]) = UpTo(Len(All(link[c]))) /\ Len(All(link[c])) = link[c].sent
    BY <1>1 DEF LinkInv, Ordered, Open, At
  <2> QED
    BY <1>4, <1>6, <1>7, <2>1, <2>2 DEF Ordered
<1> QED
  BY <1>5, <1>8 DEF LinkInv

LEMMA InterruptKeeps ==
    ASSUME Inv, NEW c \in Conns, Interrupt(c)
    PROVE  LinkInv(c)'
<1> DEFINE new == [phase |-> "cut", cache |-> <<>>, pipe |-> <<>>]
<1>1. Shape /\ LinkInv(c) /\ At(c, "carried") /\ Becomes(c, new) /\ sniffing' = sniffing
  BY DEF Inv, Interrupt
<1>2. /\ link'[c].phase = "cut" /\ link'[c].req = link[c].req
      /\ link'[c].held = link[c].held /\ link'[c].dest = link[c].dest
      /\ link'[c].target = link[c].target
  BY <1>1, BecomesLink DEF Fields
<1>3. Holds(c)' /\ Judged(c)'
  BY <1>1, <1>2 DEF LinkInv, Holds, Judged, At, HasEmail, User, IsTcp
<1>4. Ordered(c)'
  BY <1>1, PiecesDropped DEF LinkInv
<1> QED
  BY <1>3, <1>4 DEF LinkInv

\* What the client writes goes to the end.
LEMMA WriteKeeps ==
    ASSUME Inv, NEW c \in Conns, Write(c)
    PROVE  LinkInv(c)'
<1> DEFINE g == link[c].got
           h == link[c].cache
           p == link[c].pipe
           n == link[c].sent
           new == [pipe |-> Append(p, n + 1), sent |-> n + 1]
<1>1. /\ Shape /\ LinkInv(c) /\ Open(c) /\ Becomes(c, new)
      /\ sniffing' = sniffing /\ rules' = rules
  BY DEF Inv, Write
<1>2. /\ link'[c].phase = link[c].phase /\ link'[c].req = link[c].req
      /\ link'[c].held = link[c].held /\ link'[c].dest = link[c].dest
      /\ link'[c].target = link[c].target /\ link'[c].proto = link[c].proto
      /\ link'[c].got = g /\ link'[c].cache = h
      /\ link'[c].pipe = Append(p, n + 1) /\ link'[c].sent = n + 1
  BY <1>1, BecomesLink DEF Fields
<1>3. Holds(c)' /\ Judged(c)'
  BY <1>1, <1>2 DEF LinkInv, Holds, Judged, At, HasEmail, User, IsTcp
<1>4. g \in Seq(Nat) /\ h \in Seq(Nat) /\ p \in Seq(Nat) /\ n \in Nat /\ g \o h \o p = UpTo(n)
  BY <1>1 DEF LinkInv, Ordered, All
<1>5. Append(p, n + 1) \in Seq(Nat) /\ All(link[c])' = UpTo(n + 1)
  <2>1. All(link[c])' = g \o h \o Append(p, n + 1)
    BY <1>2 DEF All
  <2> HIDE DEF g, h, p, n
  <2>2. Append(p, n + 1) \in Seq(Nat) /\ g \o h \o Append(p, n + 1) = UpTo(n + 1)
    BY <1>4, OneMorePiece, ZenonT(60)
  <2> QED
    BY <2>1, <2>2
<1>6. n + 1 \in Nat /\ Len(UpTo(n + 1)) = n + 1
  <2>1. n + 1 \in Nat
    BY <1>4
  <2> HIDE DEF n
  <2> QED
    BY <2>1, UpToLength
<1>7. Ordered(c)'
  <2>1. link'[c].phase \notin {"none", "limiter", "check"}
    BY <1>1, <1>2 DEF Open
  <2> HIDE DEF g, h, p, n
  <2> QED
    BY <1>2, <1>4, <1>5, <1>6, <2>1 DEF Ordered
<1> QED
  BY <1>3, <1>7 DEF LinkInv

-----------------------------------------------------------------------------
\* The invariant

LEMMA InitInv ==
    ASSUME Init
    PROVE  Inv
<1>1. link = [c \in Conns |-> Unborn] /\ limiter = 1 /\ node = "up"
  BY DEF Init
<1>2. PICK r \in RuleSets : rules = [l \in Limiters |-> IF l = 1 THEN r ELSE {}]
  BY DEF Init
<1>3. Shape
  BY <1>1 DEF Shape, Unborn, Fields
<1>4. NodeInv
  BY <1>1, <1>2 DEF NodeInv, Limiters
<1>5. ASSUME NEW c \in Conns PROVE LinkInv(c)
  <2>1. link[c] = Unborn
    BY <1>1
  <2>2. Holds(c) /\ Judged(c)
    BY <2>1 DEF Holds, Judged, Unborn, At
  <2>3. Ordered(c)
    BY <2>1, NoPieces DEF Ordered, Unborn, All, Open
  <2> QED
    BY <2>2, <2>3 DEF LinkInv
<1> QED
  BY <1>3, <1>4, <1>5 DEF Inv

\* The invariant of a link says nothing of the others, and of the rules no
\* more than those of the first limiter.
LEMMA OthersKeep ==
    ASSUME NEW d \in Conns, LinkInv(d), link'[d] = link[d],
           rules'[1] = rules[1], sniffing' = sniffing
    PROVE  LinkInv(d)'
<1>1. Holds(d)' /\ Judged(d)'
  BY DEF LinkInv, Holds, Judged, At, HasEmail, User, IsTcp
<1>2. Ordered(d)'
  BY DEF LinkInv, Ordered, All, Open
<1> QED
  BY <1>1, <1>2 DEF LinkInv

\* A step of a link: what it does to the link, and that it does no more.
LinkStep(c) ==
    \/ \E r \in Requests[c] : Arrive(c, r)
    \/ Step(c) \/ Write(c) \/ Read(c) \/ Interrupt(c) \/ Return(c)

LEMMA LinkStepKeeps ==
    ASSUME Inv, NEW c \in Conns, LinkStep(c)
    PROVE  /\ LinkInv(c)'
           /\ \E r : Becomes(c, r)
           /\ UNCHANGED <<rules, node, limiter, sniffing>>
<1>1. ASSUME NEW r \in Requests[c], Arrive(c, r) PROVE LinkInv(c)'
  BY <1>1, ArriveKeeps
<1>2. CASE GetLimiter(c)
  BY <1>2, GetLimiterKeeps DEF GetLimiter
<1>3. CASE CheckLimit(c)
  BY <1>3, CheckLimitKeeps DEF CheckLimit
<1>4. CASE Metadata(c)
  BY <1>4, MetadataKeeps DEF Metadata
<1>5. CASE Cache(c)
  BY <1>5, CacheKeeps DEF Cache
<1>6. CASE SniffTimeout(c)
  BY <1>6, SniffTimeoutKeeps DEF SniffTimeout
<1>7. CASE RejectedByRule(c) \/ NoHandler(c) \/ Return(c)
  BY <1>7, ClosedKeeps DEF RejectedByRule, NoHandler, Return
<1>8. CASE Carry(c)
  BY <1>8, CarryKeeps DEF Carry
<1>9. CASE Read(c)
  BY <1>9, ReadKeeps DEF Read
<1>10. CASE Interrupt(c)
  BY <1>10, InterruptKeeps DEF Interrupt
<1>11. CASE Write(c)
  BY <1>11, WriteKeeps DEF Write
<1>12. CASE \E r \in Requests[c] : Arrive(c, r)
  BY <1>1, <1>12 DEF Arrive
<1> QED
  BY <1>2, <1>3, <1>4, <1>5, <1>6, <1>7, <1>8, <1>9, <1>10, <1>11, <1>12 DEF LinkStep, Step

\* The controller keeps the rules of the first limiter.
LEMMA ControlKeeps ==
    ASSUME Inv, Control
    PROVE  NodeInv' /\ link' = link /\ table' = table /\ sniffing' = sniffing /\ rules'[1] = rules[1]
<1>1. NodeInv
  BY DEF Inv
<1>2. CASE DelNode
  BY <1>1, <1>2 DEF DelNode, NodeInv
<1>3. CASE DeleteLimiter
  BY <1>1, <1>3 DEF DeleteLimiter, NodeInv
<1>4. CASE AddLimiter
  BY <1>1, <1>4 DEF AddLimiter, NodeInv, Limiters
<1>5. ASSUME NEW r \in RuleSets, UpdateRule(r)
      PROVE  NodeInv' /\ link' = link /\ table' = table /\ sniffing' = sniffing /\ rules'[1] = rules[1]
  <2>1. limiter = 2 /\ rules' = [rules EXCEPT ![2] = r] /\ limiter' = limiter /\ node' = "ready"
    BY <1>1, <1>5 DEF UpdateRule, NodeInv
  <2>2. rules'[1] = rules[1]
    BY <1>1, <2>1 DEF NodeInv, Limiters
  <2>3. NodeInv'
    BY <1>1, <2>1 DEF NodeInv, Limiters
  <2> QED
    BY <1>5, <2>2, <2>3 DEF UpdateRule
<1>6. CASE AddNode
  BY <1>1, <1>6 DEF AddNode, NodeInv
<1> QED
  BY <1>2, <1>3, <1>4, <1>5, <1>6 DEF Control

LEMMA NextInv ==
    ASSUME Inv, [Next]_vars
    PROVE  Inv'
<1>1. ASSUME NEW c \in Conns, LinkStep(c) PROVE Inv'
  <2>1. LinkInv(c)' /\ UNCHANGED <<rules, node, limiter, sniffing>>
    BY <1>1, LinkStepKeeps
  <2>2. PICK r : Becomes(c, r)
    BY <1>1, LinkStepKeeps
  <2>3. Shape' /\ \A d \in Conns : d # c => link'[d] = link[d]
    BY <2>2, BecomesLink DEF Inv
  <2>4. NodeInv'
    BY <2>1 DEF Inv, NodeInv
  <2>5. \A d \in Conns : LinkInv(d)'
    BY <2>1, <2>3, OthersKeep DEF Inv
  <2> QED
    BY <2>3, <2>4, <2>5 DEF Inv
<1>2. CASE Control
  <2>1. NodeInv' /\ link' = link /\ sniffing' = sniffing /\ rules'[1] = rules[1]
    BY <1>2, ControlKeeps
  <2>2. Shape'
    BY <2>1 DEF Inv, Shape
  <2>3. \A d \in Conns : LinkInv(d)'
    BY <2>1, OthersKeep DEF Inv
  <2> QED
    BY <2>1, <2>2, <2>3 DEF Inv
<1>3. CASE UNCHANGED vars
  <2>1. /\ link' = link /\ rules' = rules /\ node' = node
        /\ limiter' = limiter /\ sniffing' = sniffing
    BY <1>3 DEF vars
  <2>2. Shape' /\ NodeInv'
    BY <2>1 DEF Inv, Shape, NodeInv
  <2>3. \A d \in Conns : LinkInv(d)'
    BY <2>1, OthersKeep DEF Inv
  <2> QED
    BY <2>2, <2>3 DEF Inv
<1>4. Next => (\E c \in Conns : LinkStep(c)) \/ Control
  BY DEF Next, LinkStep
<1> QED
  BY <1>1, <1>2, <1>3, <1>4

LEMMA AlwaysInv == Spec => []Inv
<1>1. Init => Inv
  BY InitInv
<1>2. Inv /\ [Next]_vars => Inv'
  BY NextInv
<1> QED
  BY <1>1, <1>2, PTL DEF Spec

\* What the handler of a link has read, what the sniffer has taken and what
\* waits in the pipe is what the client has written, in its order.
THEOREM HandlersReadInOrder == Spec => []InOrder
<1>1. Inv => InOrder
  <2> SUFFICES ASSUME Inv, NEW c \in Conns
               PROVE  /\ All(link[c]) = [i \in 1..Len(All(link[c])) |-> i]
                      /\ Open(c) => Len(All(link[c])) = link[c].sent
    BY DEF InOrder, All
  <2> QED
    BY DEF Inv, LinkInv, Ordered, UpTo
<1> QED
  BY <1>1, AlwaysInv, PTL

\* What sniffing puts in the place of a destination is judged again.
THEOREM RulesAlwaysHold == Spec => []RulesHold
<1>1. Inv => RulesHold
  BY DEF Inv, LinkInv, Judged, RulesHold
<1> QED
  BY <1>1, AlwaysInv, PTL

-----------------------------------------------------------------------------
\* The counts

\* Whether a link is one of those that limiter l counts for u.
Mine(c, l, u) == link[c].held = l /\ User(c) = u /\ IsTcp(c) /\ ~At(c, "check")

HeldBy(l, u) == {c \in Conns : Mine(c, l, u)}

TableInv == table \in [Limiters -> Tables] /\ CountsHeldLinks

\* The number of the links changes with the one that takes a step.
LEMMA HeldChange ==
    ASSUME NEW c \in Conns, \A d \in Conns : d # c => link'[d] = link[d], NEW l, NEW u
    PROVE  /\ Cardinality(HeldBy(l, u)) \in Nat /\ Cardinality(HeldBy(l, u)') \in Nat
           /\ Mine(c, l, u) => Cardinality(HeldBy(l, u)) # 0
           /\ (Mine(c, l, u)' <=> Mine(c, l, u))
                => Cardinality(HeldBy(l, u)') = Cardinality(HeldBy(l, u))
           /\ Mine(c, l, u)' /\ ~Mine(c, l, u)
                => Cardinality(HeldBy(l, u)') = Cardinality(HeldBy(l, u)) + 1
           /\ Mine(c, l, u) /\ ~Mine(c, l, u)'
                => Cardinality(HeldBy(l, u)') = Cardinality(HeldBy(l, u)) - 1
<1>1. /\ IsFiniteSet(HeldBy(l, u)) /\ Cardinality(HeldBy(l, u)) \in Nat
      /\ IsFiniteSet(HeldBy(l, u)') /\ Cardinality(HeldBy(l, u)') \in Nat
  <2>1. HeldBy(l, u) \in SUBSET Conns /\ HeldBy(l, u)' \in SUBSET Conns
    BY DEF HeldBy
  <2> QED
    BY <2>1, DispatcherAssumption, FS_Subset, FS_CardinalityType
<1>2. \A d \in Conns : d # c => (Mine(d, l, u)' <=> Mine(d, l, u))
  BY DEF Mine, User, IsTcp, At
<1>3. Mine(c, l, u) => Cardinality(HeldBy(l, u)) # 0
  <2>1. Mine(c, l, u) => HeldBy(l, u) # {}
    BY DEF HeldBy
  <2> QED
    BY <1>1, <2>1, FS_EmptySet
<1>4. ASSUME Mine(c, l, u)' <=> Mine(c, l, u)
      PROVE  HeldBy(l, u)' = HeldBy(l, u)
  BY <1>2, <1>4 DEF HeldBy
<1>5. ASSUME Mine(c, l, u)', ~Mine(c, l, u)
      PROVE  HeldBy(l, u)' = HeldBy(l, u) \cup {c} /\ c \notin HeldBy(l, u)
  BY <1>2, <1>5 DEF HeldBy
<1>6. ASSUME Mine(c, l, u), ~Mine(c, l, u)'
      PROVE  HeldBy(l, u)' = HeldBy(l, u) \ {c} /\ c \in HeldBy(l, u)
  BY <1>2, <1>6 DEF HeldBy
<1> QED
  BY <1>1, <1>3, <1>4, <1>5, <1>6, FS_AddElement, FS_RemoveElement

\* AddConnCount counts what it does not refuse for the number of connections.
LEMMA AddTable ==
    ASSUME NEW t \in Tables, NEW u \in Users, NEW a \in IPs, NEW isTcp \in BOOLEAN
    PROVE  /\ AddConnCount(t, u, a, isTcp) \in Tables
           /\ OverConnLimit(t, u) => AddConnCount(t, u, a, isTcp) = t
           /\ ~OverConnLimit(t, u) /\ connLimit # 0
                => AddConnCount(t, u, a, isTcp).count
                     = IF isTcp THEN [t.count EXCEPT ![u] = @ + 1] ELSE t.count
<1>1. /\ Counted(t, u, isTcp) \in Tables
      /\ connLimit # 0 => Counted(t, u, isTcp).count = IF isTcp THEN [t.count EXCEPT ![u] = @ + 1] ELSE t.count
  <2>1. CASE connLimit # 0 /\ isTcp
    <3>1. Counted(t, u, isTcp) = [t EXCEPT !.count = [t.count EXCEPT ![u] = @ + 1]]
      BY <2>1 DEF Counted, Tables
    <3>2. [t.count EXCEPT ![u] = @ + 1] \in [Users -> Nat]
      BY DEF Tables
    <3> QED
      BY <2>1, <3>1, <3>2 DEF Tables
  <2>2. CASE ~(connLimit # 0 /\ isTcp)
    BY <2>2 DEF Counted
  <2> QED
    BY <2>1, <2>2
<1>2. \A v \in Int : Touched(v, isTcp) \in Int
  BY ConnCountAssumption DEF Touched, Recent, Tcp, Packet
<1>3. ASSUME NEW s \in Tables
      PROVE  [s EXCEPT !.ip[u][a] = Touched(@, isTcp)] \in Tables
  <2>1. [s.ip EXCEPT ![u][a] = Touched(@, isTcp)] \in [Users -> [IPs -> Int]]
    BY <1>2 DEF Tables
  <2>2. [s EXCEPT !.ip[u][a] = Touched(@, isTcp)]
          = [s EXCEPT !.ip = [s.ip EXCEPT ![u][a] = Touched(@, isTcp)]]
    BY DEF Tables
  <2> QED
    BY <2>1, <2>2 DEF Tables
<1>4. ASSUME NEW s \in Tables
      PROVE  [s EXCEPT !.ip[u][a] = Touched(@, isTcp)].count = s.count
  BY DEF Tables
<1> QED
  BY <1>1, <1>3, <1>4 DEF AddConnCount

\* DelConnCount takes one from a count that is there.
LEMMA DelTable ==
    ASSUME NEW t \in Tables, NEW u \in Users, NEW a \in IPs
    PROVE  /\ DelConnCount(t, u, a) \in Tables
           /\ connLimit # 0 /\ realtime /\ t.count[u] # 0
                => DelConnCount(t, u, a).count = [t.count EXCEPT ![u] = @ - 1]
<1>1. CASE ~realtime
  BY <1>1 DEF DelConnCount
<1>2. CASE realtime
  <2> DEFINE n == IF connLimit # 0 /\ t.count[u] # 0 THEN [t.count EXCEPT ![u] = @ - 1] ELSE t.count
             i == IF ipLimit # 0 /\ t.ip[u][a] # 0 THEN [t.ip EXCEPT ![u][a] = @ - Tcp] ELSE t.ip
  <2>1. DelConnCount(t, u, a) = [count |-> n, ip |-> i]
    BY <1>2 DEF DelConnCount
  <2>2. n \in [Users -> Nat]
    BY DEF Tables
  <2>3. i \in [Users -> [IPs -> Int]]
    BY DEF Tables, Tcp
  <2>4. connLimit # 0 /\ t.count[u] # 0 => n = [t.count EXCEPT ![u] = @ - 1]
    OBVIOUS
  <2> HIDE DEF n, i
  <2> QED
    BY <2>1, <2>2, <2>3, <2>4 DEF Tables
<1> QED
  BY <1>1, <1>2

\* Steps that count nothing and give nothing back.
LEMMA UncountedKeeps ==
    ASSUME TableInv, NEW c \in Conns, \A d \in Conns : d # c => link'[d] = link[d],
           table' = table,
           \A l \in Limiters, u \in Users : Mine(c, l, u)' <=> Mine(c, l, u)
    PROVE  TableInv'
<1> SUFFICES ASSUME connLimit # 0, realtime, NEW l \in Limiters, NEW u \in Users
             PROVE  table[l].count[u] = Cardinality(HeldBy(l, u)')
  BY DEF TableInv, CountsHeldLinks, HeldBy, Mine
<1>1. table[l].count[u] = Cardinality(HeldBy(l, u))
  BY DEF TableInv, CountsHeldLinks, HeldBy, Mine
<1> QED
  BY <1>1, HeldChange

\* CheckLimit counts the TCP connections it lets in, and only those.
LEMMA CheckCounts ==
    ASSUME Inv, TableInv, NEW c \in Conns, CheckLimit(c)
    PROVE  TableInv'
<1> DEFINE m == link[c].held
           v == User(c)
           a == link[c].req.ip
<1>1. /\ m \in Limiters /\ v \in Users /\ a \in IPs /\ IsTcp(c) \in BOOLEAN
      /\ At(c, "check") /\ Shape
      /\ table' = [table EXCEPT ![m] = AddConnCount(@, v, a, IsTcp(c))]
  BY DEF Inv, LinkInv, Holds, CheckLimit, At, HasEmail
<1>2. table \in [Limiters -> Tables] /\ table[m] \in Tables
  BY <1>1 DEF TableInv
<1>3. \/ OverConnLimit(table[m], v) /\ Becomes(c, Closed)
      \/ ~OverConnLimit(table[m], v) /\ \E phase \in {"leaked", "metadata", "route"} : Becomes(c, [phase |-> phase])
  BY DEF CheckLimit, AddRefuses, Admitted
<1>4. table' \in [Limiters -> Tables]
  BY <1>1, <1>2, AddTable
<1>5. \A d \in Conns : d # c => link'[d] = link[d]
  BY <1>1, <1>3, BecomesLink
<1>6. \A l, u : ~Mine(c, l, u)
  BY <1>1 DEF Mine
<1>7. CASE OverConnLimit(table[m], v) /\ Becomes(c, Closed)
  <2>1. link'[c].held = None
    BY <1>1, <1>7, BecomesLink DEF Closed, Unborn, Fields
  <2>2. \A l \in Limiters, u \in Users : ~Mine(c, l, u)'
    BY <2>1, DispatcherAssumption DEF Mine, Limiters
  <2>3. table' = table
    <3> DEFINE t == table[m]
    <3>1. OverConnLimit(t, v) /\ t \in Tables
      BY <1>2, <1>7
    <3> HIDE DEF t, m, v, a
    <3>2. AddConnCount(t, v, a, IsTcp(c)) = t
      BY <1>1, <3>1, AddTable
    <3>3. AddConnCount(table[m], v, a, IsTcp(c)) = table[m]
      BY <3>2 DEF t
    <3> QED
      BY <1>1, <1>2, <3>3
  <2> QED
    BY <1>5, <1>6, <2>2, <2>3, UncountedKeeps
<1>8. CASE /\ ~OverConnLimit(table[m], v)
           /\ \E phase \in {"leaked", "metadata", "route"} : Becomes(c, [phase |-> phase])
  <2>1. PICK phase \in {"leaked", "metadata", "route"} : Becomes(c, [phase |-> phase])
    BY <1>8
  <2>2. link'[c].phase = phase /\ link'[c].held = m /\ link'[c].req = link[c].req
    BY <1>1, <2>1, BecomesLink DEF Fields
  <2> SUFFICES ASSUME connLimit # 0, realtime, NEW l \in Limiters, NEW u \in Users
               PROVE  table'[l].count[u] = Cardinality(HeldBy(l, u)')
    BY <1>4 DEF TableInv, CountsHeldLinks, HeldBy, Mine
  <2>3. table[l].count[u] = Cardinality(HeldBy(l, u))
    BY DEF TableInv, CountsHeldLinks, HeldBy, Mine
  <2>4. Mine(c, l, u)' <=> l = m /\ u = v /\ IsTcp(c)
    BY <2>2 DEF Mine, User, IsTcp, At
  <2>5. table'[m].count = IF IsTcp(c) THEN [table[m].count EXCEPT ![v] = @ + 1] ELSE table[m].count
    <3> DEFINE t == table[m]
    <3>1. ~OverConnLimit(t, v) /\ t \in Tables
      BY <1>2, <1>8
    <3>2. table'[m] = AddConnCount(t, v, a, IsTcp(c))
      BY <1>1, <1>2
    <3> HIDE DEF t, m, v, a
    <3>3. AddConnCount(t, v, a, IsTcp(c)).count
            = IF IsTcp(c) THEN [t.count EXCEPT ![v] = @ + 1] ELSE t.count
      BY <1>1, <3>1, AddTable
    <3> QED
      BY <3>2, <3>3 DEF t
  <2>6. l # m => table'[l] = table[l]
    BY <1>1, <1>2
  <2>7. table[l].count \in [Users -> Nat]
    BY <1>2 DEF Tables
  <2> HIDE DEF m, v
  <2>8. table'[l].count[u] = IF l = m /\ u = v /\ IsTcp(c) THEN table[l].count[u] + 1 ELSE table[l].count[u]
    BY <1>1, <2>5, <2>6, <2>7
  <2>9. ~Mine(c, l, u)
    BY <1>6
  <2> QED
    BY <1>5, <2>3, <2>4, <2>8, <2>9, HeldChange
<1> QED
  BY <1>3, <1>7, <1>8

\* A link that ends gives back to the limiter it holds, once.
LEMMA EndGivesBack ==
    ASSUME Inv, TableInv, NEW c \in Conns, Becomes(c, Closed), table' = GaveBack(c),
           ~At(c, "check")
    PROVE  TableInv'
<1> DEFINE m == link[c].held
           v == User(c)
           a == link[c].req.ip
<1>1. Shape /\ m \in Limiters \cup {None} /\ (m # None => v \in Users /\ a \in IPs)
  BY DEF Inv, LinkInv, Holds, HasEmail
<1>2. link'[c].held = None /\ \A d \in Conns : d # c => link'[d] = link[d]
  BY <1>1, BecomesLink DEF Closed, Unborn, Fields
<1>3. \A l \in Limiters, u \in Users : ~Mine(c, l, u)'
  BY <1>2, DispatcherAssumption DEF Mine, Limiters
<1>4. CASE ~GivesBack(c)
  <2>1. table' = table
    BY <1>4 DEF GaveBack
  <2>2. \A l \in Limiters, u \in Users : ~Mine(c, l, u)
    BY <1>4, DispatcherAssumption DEF Mine, GivesBack, Limiters
  <2> QED
    BY <1>2, <1>3, <2>1, <2>2, UncountedKeeps
<1>5. CASE GivesBack(c)
  <2>1. m \in Limiters /\ v \in Users /\ a \in IPs /\ IsTcp(c)
    BY <1>1, <1>5 DEF GivesBack
  <2>2. table' = [table EXCEPT ![m] = DelConnCount(@, v, a)]
    BY <1>5 DEF GaveBack
  <2>3. table \in [Limiters -> Tables] /\ table[m] \in Tables
    BY <2>1 DEF TableInv
  <2>4. table' \in [Limiters -> Tables]
    <3>1. DelConnCount(table[m], v, a) \in Tables
      BY <2>1, <2>3, DelTable
    <3> HIDE DEF m, v, a
    <3> QED
      BY <2>2, <2>3, <3>1
  <2> SUFFICES ASSUME connLimit # 0, realtime, NEW l \in Limiters, NEW u \in Users
               PROVE  table'[l].count[u] = Cardinality(HeldBy(l, u)')
    BY <2>4 DEF TableInv, CountsHeldLinks, HeldBy, Mine
  <2>5. \A w \in Users, k \in Limiters : table[k].count[w] = Cardinality(HeldBy(k, w))
    BY DEF TableInv, CountsHeldLinks, HeldBy, Mine
  <2>6. Mine(c, l, u) <=> l = m /\ u = v
    BY <2>1 DEF Mine
  <2>7. Mine(c, m, v) /\ table[m].count[v] # 0
    <3>1. Mine(c, m, v)
      BY <2>1 DEF Mine
    <3> QED
      BY <1>2, <2>1, <2>5, <3>1, HeldChange
  <2>8. table'[m].count = [table[m].count EXCEPT ![v] = @ - 1]
    <3>1. DelConnCount(table[m], v, a).count = [table[m].count EXCEPT ![v] = @ - 1]
      BY <2>1, <2>3, <2>7, DelTable
    <3>2. table'[m] = DelConnCount(table[m], v, a)
      BY <2>1, <2>2, <2>3
    <3> QED
      BY <3>1, <3>2
  <2>9. l # m => table'[l] = table[l]
    BY <2>1, <2>2, <2>3
  <2>10. table[l].count \in [Users -> Nat]
    BY <2>3 DEF Tables
  <2> HIDE DEF m, v
  <2>11. table'[l].count[u] = IF l = m /\ u = v THEN table[l].count[u] - 1 ELSE table[l].count[u]
    BY <2>1, <2>8, <2>9, <2>10
  <2> QED
    BY <1>2, <1>3, <2>5, <2>6, <2>11, HeldChange
<1> QED
  BY <1>4, <1>5

\* The steps of a link.
LEMMA LinkStepCounts ==
    ASSUME Inv, TableInv, NEW c \in Conns, LinkStep(c)
    PROVE  TableInv'
<1>1. Shape /\ Holds(c)
  BY DEF Inv, LinkInv
<1> DEFINE Kept == link'[c].held = link[c].held /\ link'[c].req = link[c].req
<1>2. ASSUME NEW r, Becomes(c, r)
      PROVE  /\ \A f \in Fields : link'[c][f] = IF f \in DOMAIN r THEN r[f] ELSE link[c][f]
             /\ \A d \in Conns : d # c => link'[d] = link[d]
  BY <1>1, <1>2, BecomesLink
<1>3. ASSUME NEW r, Becomes(c, r), "held" \notin DOMAIN r, "req" \notin DOMAIN r,
             ~At(c, "check"), "phase" \in DOMAIN r => r.phase # "check", table' = table
      PROVE  TableInv'
  <2>1. Kept /\ (link'[c].phase = link[c].phase \/ link'[c].phase # "check")
    BY <1>2, <1>3 DEF Fields
  <2>2. \A l \in Limiters, u \in Users : Mine(c, l, u)' <=> Mine(c, l, u)
    BY <1>3, <2>1 DEF Mine, User, IsTcp, At
  <2> QED
    BY <1>2, <1>3, <2>2, UncountedKeeps
<1>4. ASSUME NEW r \in Requests[c], Arrive(c, r)
      PROVE  TableInv'
  <2> DEFINE new == [phase |-> "limiter", req |-> r, dest |-> r.dest, target |-> r.dest]
  <2>1. Becomes(c, new) /\ table' = table /\ At(c, "none")
    BY <1>4 DEF Arrive
  <2>2. link'[c].held = link[c].held /\ link[c].held = None
    BY <1>1, <1>2, <2>1 DEF Fields, Holds, At
  <2>3. \A l \in Limiters, u \in Users : Mine(c, l, u)' <=> Mine(c, l, u)
    BY <2>2, DispatcherAssumption DEF Mine, User, IsTcp, At, Limiters
  <2> QED
    BY <1>2, <2>1, <2>3, UncountedKeeps
<1>5. CASE GetLimiter(c)
  <2>1. At(c, "limiter") /\ table' = table /\ link[c].held = None
    BY <1>1, <1>5 DEF GetLimiter, Holds, At
  <2>2. PICK r : Becomes(c, r) /\ (r = [phase |-> Admitted] \/ r = Closed \/ r = [phase |-> "check", held |-> limiter])
    BY <1>5 DEF GetLimiter
  <2>3. link'[c].held = None \/ link'[c].phase = "check"
    <3>1. CASE r = [phase |-> Admitted]
      BY <1>2, <2>1, <2>2, <3>1 DEF Fields
    <3>2. CASE r = Closed
      BY <1>2, <2>2, <3>2 DEF Closed, Unborn, Fields
    <3>3. CASE r = [phase |-> "check", held |-> limiter]
      BY <1>2, <2>2, <3>3 DEF Fields
    <3> QED
      BY <2>2, <3>1, <3>2, <3>3
  <2>4. \A l \in Limiters, u \in Users : Mine(c, l, u)' <=> Mine(c, l, u)
    BY <2>1, <2>3, DispatcherAssumption DEF Mine, User, IsTcp, At, Limiters
  <2> QED
    BY <1>2, <2>1, <2>2, <2>4, UncountedKeeps
<1>6. CASE CheckLimit(c)
  BY <1>6, CheckCounts
<1>7. CASE \/ Metadata(c) \/ SniffTimeout(c)
  <2>1. ASSUME NEW r, Becomes(c, Sniffed(c, r)), ~At(c, "check"), table' = table
        PROVE  TableInv'
    <3> DEFINE s == Sniffed(c, r)
    <3>1. s.phase = "route" /\ "held" \notin DOMAIN s /\ "req" \notin DOMAIN s
      BY SniffedFields
    <3>2. Becomes(c, s)
      BY <2>1
    <3> HIDE DEF s
    <3> QED
      BY <1>3, <2>1, <3>1, <3>2
  <2>2. CASE Becomes(c, [phase |-> "content"]) /\ ~At(c, "check") /\ table' = table
    <3> DEFINE s == [phase |-> "content"]
    <3>1. s.phase = "content" /\ "held" \notin DOMAIN s /\ "req" \notin DOMAIN s
      OBVIOUS
    <3>2. Becomes(c, s)
      BY <2>2
    <3> HIDE DEF s
    <3> QED
      BY <1>3, <2>2, <3>1, <3>2
  <2>3. ~At(c, "check") /\ table' = table
    BY <1>7 DEF Metadata, SniffTimeout, At
  <2>4. (\E r : Becomes(c, Sniffed(c, r))) \/ Becomes(c, [phase |-> "content"])
    BY <1>7 DEF Metadata, SniffTimeout
  <2> QED
    BY <2>1, <2>2, <2>3, <2>4
<1>8. CASE Cache(c)
  <2>1. At(c, "content") /\ table' = table /\ DOMAIN link[c] = Fields
    BY <1>1, <1>8 DEF Cache, Shape
  <2>2. PICK s : /\ Becomes(c, With(Cached(c), s)) /\ "held" \notin DOMAIN s /\ "req" \notin DOMAIN s
                 /\ "phase" \in DOMAIN s => s.phase = "route"
    <3>1. CASE Becomes(c, With(Cached(c), [tries |-> link[c].tries + 1]))
      BY <3>1
    <3>2. ASSUME NEW r, Becomes(c, With(Cached(c), Sniffed(c, r)))
          PROVE  \E s : /\ Becomes(c, With(Cached(c), s)) /\ "held" \notin DOMAIN s /\ "req" \notin DOMAIN s
                        /\ "phase" \in DOMAIN s => s.phase = "route"
      <4> DEFINE s == Sniffed(c, r)
      <4>1. s.phase = "route" /\ "held" \notin DOMAIN s /\ "req" \notin DOMAIN s
        BY SniffedFields
      <4>2. Becomes(c, With(Cached(c), s))
        BY <3>2
      <4> HIDE DEF s
      <4> QED
        BY <4>1, <4>2
    <3> QED
      BY <1>8, <3>1, <3>2 DEF Cache
  <2>3. /\ DOMAIN Cached(c) = Fields /\ Cached(c).phase = "content"
        /\ Cached(c).held = link[c].held /\ Cached(c).req = link[c].req
    <3> DEFINE moved == [cache |-> link[c].cache \o link[c].pipe, pipe |-> <<>>]
    <3>1. Cached(c) = With(link[c], moved)
      BY DEF Cached
    <3>2. DOMAIN moved = {"cache", "pipe"}
      OBVIOUS
    <3> HIDE DEF moved
    <3> QED
      BY <2>1, <3>1, <3>2, WithFields DEF Fields, At
  <2> DEFINE new == With(Cached(c), s)
  <2>4. /\ DOMAIN new = Fields
        /\ \A f \in Fields : new[f] = IF f \in DOMAIN s THEN s[f] ELSE Cached(c)[f]
    BY <2>3, WithFields
  <2>5. Becomes(c, new)
    BY <2>2
  <2> HIDE DEF new
  <2>6. Kept /\ link'[c].phase # "check"
    BY <1>2, <2>2, <2>3, <2>4, <2>5 DEF Fields
  <2>7. \A l \in Limiters, u \in Users : Mine(c, l, u)' <=> Mine(c, l, u)
    BY <2>1, <2>6 DEF Mine, User, IsTcp, At
  <2> QED
    BY <1>2, <2>1, <2>5, <2>7, UncountedKeeps
<1>9. CASE RejectedByRule(c) \/ NoHandler(c) \/ Return(c)
  BY <1>9, EndGivesBack DEF RejectedByRule, NoHandler, Return, At
<1>10. CASE Carry(c) \/ Read(c) \/ Interrupt(c) \/ Write(c)
  <2>1. ~At(c, "check") /\ table' = table
    BY <1>10 DEF Carry, Read, Interrupt, Write, At, Open
  <2>2. PICK r : /\ Becomes(c, r) /\ "held" \notin DOMAIN r /\ "req" \notin DOMAIN r
                 /\ "phase" \in DOMAIN r => r.phase # "check"
    <3>1. CASE Carry(c)
      BY <3>1 DEF Carry
    <3>2. CASE Read(c)
      BY <3>2 DEF Read
    <3>3. CASE Interrupt(c)
      BY <3>3 DEF Interrupt
    <3>4. CASE Write(c)
      BY <3>4 DEF Write
    <3> QED
      BY <1>10, <3>1, <3>2, <3>3, <3>4
  <2> QED
    BY <1>3, <2>1, <2>2
<1>11. CASE \E r \in Requests[c] : Arrive(c, r)
  BY <1>4, <1>11
<1> QED
  BY <1>5, <1>6, <1>7, <1>8, <1>9, <1>10, <1>11 DEF LinkStep, Step

LEMMA TableKept ==
    ASSUME TableInv, link' = link, table' = table
    PROVE  TableInv'
BY DEF TableInv, CountsHeldLinks, User, IsTcp, At

LEMMA InitTable ==
    ASSUME Init
    PROVE  TableInv
<1>1. link = [c \in Conns |-> Unborn] /\ table = [l \in Limiters |-> NewConnLimiter]
  BY DEF Init
<1>2. table \in [Limiters -> Tables]
  BY <1>1 DEF NewConnLimiter, Tables
<1>3. ASSUME NEW l \in Limiters, NEW u \in Users
      PROVE  table[l].count[u] = Cardinality(HeldBy(l, u))
  <2>1. \A c \in Conns : link[c].held = None
    BY <1>1 DEF Unborn
  <2>2. HeldBy(l, u) = {}
    BY <2>1, DispatcherAssumption DEF HeldBy, Mine, Limiters
  <2> QED
    BY <1>1, <2>2, FS_EmptySet DEF NewConnLimiter
<1> QED
  BY <1>2, <1>3 DEF TableInv, CountsHeldLinks, HeldBy, Mine

\* What a limiter counts for a user is the links it has let in and not got
\* back, through rejected links, reloads and closes.
THEOREM CountsAreHeldLinks == Spec => []CountsHeldLinks
<1>1. Init => Inv /\ TableInv
  BY InitInv, InitTable
<1>2. Inv /\ TableInv /\ [Next]_vars => (Inv /\ TableInv)'
  <2> SUFFICES ASSUME Inv, TableInv, [Next]_vars PROVE TableInv'
    BY NextInv
  <2>1. ASSUME NEW c \in Conns, LinkStep(c) PROVE TableInv'
    BY <2>1, LinkStepCounts
  <2>2. CASE Control
    BY <2>2, ControlKeeps, TableKept
  <2>3. CASE UNCHANGED vars
    BY <2>3, TableKept DEF vars
  <2>4. Next => (\E c \in Conns : LinkStep(c)) \/ Control
    BY DEF Next, LinkStep
  <2> QED
    BY <2>1, <2>2, <2>3, <2>4
<1>3. TableInv => CountsHeldLinks
  BY DEF TableInv
<1> QED
  BY <1>1, <1>2, <1>3, PTL DEF Spec

-----------------------------------------------------------------------------
\* The calls that the dispatcher makes on a ConnLimiter.  Dispatcher has each
\* of them in one step, as ConnCount has it; ConnLimiter has the accesses of the
\* maps that it consists of.

CONSTANTS user, ConnLimits, IPLimits, Modes, Cleaner, Maps, NoMap, MaxBusy

VARIABLES
    connMax, ipMax, live,    \* connLimit, ipLimit and realtime
    count, ip, entries, pc, src, isTcp, loaded, ips, todo, notDel, before

Calls == INSTANCE ConnLimiter
    WITH Users <- {user}, connLimit <- connMax, ipLimit <- ipMax, realtime <- live

\* Calls one at a time, by finitely many goroutines, and values of the right kind.
OneAtATime ==
    /\ MaxBusy = 1 /\ IsFiniteSet(Conns) /\ Cleaner \notin Conns
    /\ ConnLimits \subseteq Nat /\ IPLimits \subseteq Nat /\ Modes \subseteq BOOLEAN
    /\ NoMap \notin Maps

\* A table with one count and one row of addresses.
Rows      == [IPs -> Int]
Tab(n, r) == [count |-> [u \in {user} |-> n], ip |-> [u \in {user} |-> r]]

\* The user's row of addresses.
Row == IF ip = NoMap THEN Calls!Empty ELSE entries[ip]

\* One more connection, and one less.
Up(n, tcp) == IF connMax # 0 /\ tcp THEN n + 1 ELSE n
Down(n)    == IF connMax # 0 /\ n # 0 THEN n - 1 ELSE n

\* The two limits, of a count and a row.
Full(n)       == connMax # 0 /\ n # 0 /\ n >= connMax
Crowded(r, a) == ipMax > 0 /\ r[a] = 0 /\ Cardinality({b \in IPs : r[b] # 0}) >= ipMax

Gone == IF live THEN Calls!Packet ELSE Calls!Expired
Swept(r) == [a \in IPs |-> IF r[a] = Gone THEN 0 ELSE r[a]]

\* What counts a set in ConnLimiter counts it here.
LEMMA SameCardinality == \A S : Calls!Cardinality(S) = Cardinality(S)
BY DEF Calls!Cardinality, Cardinality

-----------------------------------------------------------------------------
\* ConnCount of a table with one user

\* Its limits.
LEMMA TabLimits ==
    ASSUME NEW n \in Nat, NEW r \in Rows, NEW a \in IPs
    PROVE  /\ Calls!OverConnLimit(Tab(n, r), user) <=> Full(n)
           /\ Calls!OverIPLimit(Tab(n, r), user, a) <=> Crowded(r, a)
<1>1. Tab(n, r).count[user] = n /\ Tab(n, r).ip[user] = r
  BY DEF Tab
<1>2. Calls!OnlineIPs(Tab(n, r), user) = {b \in IPs : r[b] # 0}
  BY <1>1 DEF Calls!OnlineIPs
<1>3. a \notin Calls!OnlineIPs(Tab(n, r), user) <=> r[a] = 0
  BY <1>2
<1> QED
  BY <1>1, <1>2, <1>3, SameCardinality DEF Calls!OverConnLimit, Calls!OverIPLimit, Full, Crowded

\* Its AddConnCount.
LEMMA TabAdd ==
    ASSUME NEW n \in Nat, NEW r \in Rows, NEW a \in IPs, NEW tcp \in BOOLEAN
    PROVE  Calls!AddConnCount(Tab(n, r), user, a, tcp) =
             IF Full(n) THEN Tab(n, r)
             ELSE IF Crowded(r, a) THEN Tab(Up(n, tcp), r)
             ELSE Tab(Up(n, tcp), [r EXCEPT ![a] = Calls!Touched(r[a], tcp)])
<1>1. Calls!Counted(Tab(n, r), user, tcp) = Tab(Up(n, tcp), r)
  BY DEF Calls!Counted, Tab, Up
<1>2. \A m : [Tab(m, r) EXCEPT !.ip[user][a] = Calls!Touched(@, tcp)]
               = Tab(m, [r EXCEPT ![a] = Calls!Touched(r[a], tcp)])
  <2> HIDE DEF Calls!Touched
  <2> QED
    BY DEF Tab
<1> QED
  BY <1>1, <1>2, TabLimits DEF Calls!AddConnCount

\* Its DelConnCount.
LEMMA TabDel ==
    ASSUME NEW n \in Nat, NEW r \in Rows, NEW a \in IPs
    PROVE  Calls!DelConnCount(Tab(n, r), user, a) =
             IF ~live THEN Tab(n, r)
             ELSE Tab(Down(n), IF ipMax # 0 /\ r[a] # 0 THEN [r EXCEPT ![a] = r[a] - Calls!Tcp] ELSE r)
BY DEF Calls!DelConnCount, Tab, Down

\* Its ClearOnlineIP.
LEMMA TabClear ==
    ASSUME NEW n \in Nat, NEW r \in Rows
    PROVE  Calls!ClearOnlineIP(Tab(n, r)) = Tab(n, Swept(r))
BY DEF Calls!ClearOnlineIP, Tab, Swept, Gone

\* An entry is a number before and after a connection, and packet traffic that
\* finds one leaves it.
LEMMA TouchedType ==
    ASSUME live \in BOOLEAN
    PROVE  /\ \A v \in Int, tcp \in BOOLEAN : Calls!Touched(v, tcp) \in Int
           /\ live => \A v \in Int : v # 0 => Calls!Touched(v, FALSE) = v
BY DEF Calls!Touched, Calls!Tcp, Calls!Packet, Calls!Recent

-----------------------------------------------------------------------------
\* A call under way

\* The table that the call under way has begun with.
Count0 == before.count[user]
Row0   == before.ip[user]

TypeInv ==
    /\ connMax \in Nat /\ ipMax \in Nat /\ live \in BOOLEAN
    /\ count \in Nat
    /\ ip \in Maps \cup {NoMap}
    /\ entries \in [Maps -> Rows]
    /\ pc \in [Calls!Goroutines -> Calls!Outside \cup Calls!AddSteps \cup Calls!DelSteps \cup Calls!ClearSteps]
    /\ src \in [Calls!Goroutines -> IPs \cup {CHOOSE a \in IPs : TRUE}]
    /\ isTcp \in [Calls!Goroutines -> BOOLEAN]
    /\ loaded \in [Calls!Goroutines -> Int]
    /\ ips \in [Calls!Goroutines -> Maps \cup {NoMap}]
    /\ todo \subseteq IPs
    /\ notDel \in BOOLEAN
    /\ Count0 \in Nat /\ Row0 \in Rows
    /\ before = Tab(Count0, Row0)

OneCall == \A g, h \in Calls!Goroutines : pc[g] \notin Calls!Outside /\ pc[h] \notin Calls!Outside => g = h

\* What AddConnCount has done to the table at each step, and has found.
AddInv(c) ==
    /\ pc[c] # "idle" => src[c] \in IPs
    /\ pc[c] \in {"addLoadCount", "addStoreCount"} => connMax # 0 /\ count = Count0 /\ Row = Row0
    /\ pc[c] = "addStoreCount" => isTcp[c] /\ loaded[c] = count /\ ~Full(Count0)
    /\ pc[c] \in {"addLoadMap", "addLoadIP", "addRange", "addStoreIP"}
         => ~Full(Count0) /\ count = Up(Count0, isTcp[c]) /\ Row = Row0
    /\ pc[c] \in {"addLoadIP", "addRange", "addStoreIP"} => ips[c] = ip /\ ip \in Maps
    /\ pc[c] = "addRange" => ipMax # 0 /\ loaded[c] = 0 /\ Row0[src[c]] = 0
    /\ pc[c] = "addStoreIP" => loaded[c] = Row0[src[c]] /\ ~Crowded(Row0, src[c])

\* The same of DelConnCount.
DelInv(c) ==
    /\ pc[c] \in {"delLoadCount", "delStoreCount"}
         => live /\ connMax # 0 /\ count = Count0 /\ Row = Row0
    /\ pc[c] = "delStoreCount" => loaded[c] = count /\ count # 0
    /\ pc[c] \in {"delLoadMap", "delLoadIP", "delStoreIP"}
         => live /\ ipMax # 0 /\ count = Down(Count0) /\ Row = Row0
    /\ pc[c] \in {"delLoadIP", "delStoreIP", "delEmpty", "delDeleteMap"} => ips[c] = ip /\ ip \in Maps
    /\ pc[c] = "delStoreIP" => loaded[c] = Row0[src[c]] /\ loaded[c] # 0
    /\ pc[c] \in {"delEmpty", "delDeleteMap"}
         => /\ live /\ ipMax # 0 /\ count = Down(Count0) /\ Row0[src[c]] # 0
            /\ Row = [Row0 EXCEPT ![src[c]] = Row0[src[c]] - Calls!Tcp]
    /\ pc[c] = "delDeleteMap" => Row = Calls!Empty
    /\ pc[c] = "return" => /\ live => ipMax = 0
                           /\ count = IF live THEN Down(Count0) ELSE Count0
                           /\ Row = Row0

\* ClearOnlineIP has dropped what it was to drop of the addresses it has
\* visited, and notDel tells whether it has found one to keep.
ClearInv ==
    /\ pc[Cleaner] \in Calls!ClearSteps => ips[Cleaner] = ip /\ ip \in Maps /\ count = Count0
    /\ pc[Cleaner] \in {"clearVisit", "clearDelete"} =>
         /\ \A a \in todo : Row[a] = Row0[a]
         /\ \A a \in IPs \ todo : Row[a] = Swept(Row0)[a] /\ (Row[a] # 0 => notDel)
    /\ pc[Cleaner] = "clearDelete" => src[Cleaner] \in todo /\ Row0[src[Cleaner]] = Gone
    /\ pc[Cleaner] = "clearDeleteMap" => Row = Swept(Row0) /\ Row = Calls!Empty

IInv ==
    /\ TypeInv /\ OneCall
    /\ \A c \in Conns : AddInv(c) /\ DelInv(c)
    /\ ClearInv

\* The goroutine whose step it is, and all others outside of a call.
Alone(g) == \A h \in Calls!Goroutines \ {g} : pc[h] \in Calls!Outside /\ pc'[h] = pc[h] /\ src'[h] = src[h]

\* Who is inside a call is alone.
LEMMA BusyIsAlone ==
    ASSUME IInv, NEW g \in Calls!Goroutines, pc[g] \notin Calls!Outside
    PROVE  \A h \in Calls!Goroutines \ {g} : pc[h] \in Calls!Outside
BY DEF IInv, OneCall

\* A call begins when there is none.
LEMMA CallIsAlone ==
    ASSUME OneAtATime, IInv, Calls!Cardinality(Calls!Busy) < MaxBusy
    PROVE  \A h \in Calls!Goroutines : pc[h] \in Calls!Outside
<1>1. IsFiniteSet(Calls!Goroutines)
  BY FS_AddElement DEF OneAtATime, Calls!Goroutines
<1>2. IsFiniteSet(Calls!Busy)
  BY <1>1, FS_Subset DEF Calls!Busy
<1>3. Cardinality(Calls!Busy) = 0
  BY <1>2, FS_CardinalityType, SameCardinality DEF OneAtATime
<1>4. Calls!Busy = {}
  BY <1>2, <1>3, FS_EmptySet
<1> QED
  BY <1>4 DEF Calls!Busy

\* The invariant of the goroutine whose step it is, is that of all.
LEMMA Kept ==
    ASSUME OneAtATime, IInv, NEW g \in Calls!Goroutines, Alone(g), TypeInv',
           g \in Conns => AddInv(g)' /\ DelInv(g)', g = Cleaner => ClearInv'
    PROVE  IInv'
<1>1. OneCall'
  BY DEF Alone, OneCall
<1>2. ASSUME NEW c \in Conns PROVE AddInv(c)' /\ DelInv(c)'
  <2>1. CASE c = g
    BY <2>1
  <2>2. CASE c # g
    <3>1. c \in Calls!Goroutines /\ pc'[c] \in Calls!Outside /\ pc'[c] = pc[c] /\ src'[c] = src[c]
      BY <2>2 DEF Alone, Calls!Goroutines
    <3>2. pc[c] # "idle" => src[c] \in IPs
      BY DEF IInv, AddInv
    <3> QED
      BY <3>1, <3>2 DEF AddInv, DelInv, Calls!Outside
  <2> QED
    BY <2>1, <2>2
<1>3. ClearInv'
  <2>1. CASE Cleaner # g
    <3>1. pc'[Cleaner] \in Calls!Outside
      BY <2>1 DEF Alone, Calls!Goroutines
    <3> QED
      BY <3>1 DEF ClearInv, Calls!Outside, Calls!ClearSteps
  <2> QED
    BY <2>1
<1> QED
  BY <1>1, <1>2, <1>3 DEF IInv

\* What CallsAgree says of a step.
Agrees ==
    /\ \A c \in Conns :
         /\ Calls!Returns(c, Calls!AddSteps) =>
              /\ Calls!Table' = Calls!AddConnCount(before, user, src[c], isTcp[c])
              /\ pc'[c] = "open" <=> ~Calls!AddRefuses(before, user, src[c])
         /\ Calls!Returns(c, Calls!DelSteps) => Calls!Table' = Calls!DelConnCount(before, user, src[c])
    /\ Calls!Returns(Cleaner, Calls!ClearSteps) => Calls!Table' = Calls!ClearOnlineIP(before)

\* A step on the way returns nobody.
LEMMA OnTheWay ==
    ASSUME NEW g \in Calls!Goroutines, Alone(g), pc'[g] \notin Calls!Outside \/ pc[g] \in Calls!Outside
    PROVE  Agrees
<1>1. \A h \in Calls!Goroutines : pc[h] \in Calls!Outside \/ pc'[h] \notin Calls!Outside
  BY DEF Alone
<1>2. \A h \in Calls!Goroutines : 
          /\ ~Calls!Returns(h, Calls!AddSteps)
          /\ ~Calls!Returns(h, Calls!DelSteps)
          /\ ~Calls!Returns(h, Calls!ClearSteps)
  BY <1>1 DEF Calls!Returns, Calls!Outside, Calls!AddSteps, Calls!DelSteps, Calls!ClearSteps
<1> QED
  BY <1>2 DEF Agrees, Calls!Goroutines

\* A table is what its two maps are.
LEMMA TableIs ==
    /\ Calls!Table = Tab(count, Row)
    /\ Calls!Table' = Tab(count', Row')
BY DEF Calls!Table, Tab, Row

\* The last step of an AddConnCount.
LEMMA AddReturns ==
    ASSUME OneAtATime, IInv, NEW c \in Conns, Alone(c), pc[c] \in Calls!AddSteps,
           \/ Full(Count0) /\ count' = Count0 /\ Row' = Row0 /\ pc'[c] = "idle"
           \/ /\ ~Full(Count0) /\ Crowded(Row0, src[c])
              /\ count' = Up(Count0, isTcp[c]) /\ Row' = Row0 /\ pc'[c] = "idle"
           \/ /\ ~Full(Count0) /\ ~Crowded(Row0, src[c])
              /\ count' = Up(Count0, isTcp[c]) /\ pc'[c] = "open"
              /\ Row' = [Row0 EXCEPT ![src[c]] = Calls!Touched(Row0[src[c]], isTcp[c])]
    PROVE  Agrees
<1>1. src[c] \in IPs /\ isTcp[c] \in BOOLEAN /\ Count0 \in Nat /\ Row0 \in Rows /\ before = Tab(Count0, Row0)
  BY DEF IInv, AddInv, TypeInv, Calls!AddSteps, Calls!Goroutines
<1>2. /\ Calls!Table' = Calls!AddConnCount(before, user, src[c], isTcp[c])
      /\ pc'[c] = "open" <=> ~Calls!AddRefuses(before, user, src[c])
  <2> DEFINE n == Count0  r == Row0
  <2> HIDE DEF n, r
  <2>1. n \in Nat /\ r \in Rows /\ before = Tab(n, r)
    BY <1>1 DEF n, r
  <2>2. Calls!AddConnCount(Tab(n, r), user, src[c], isTcp[c]) =
             IF Full(n) THEN Tab(n, r)
             ELSE IF Crowded(r, src[c]) THEN Tab(Up(n, isTcp[c]), r)
             ELSE Tab(Up(n, isTcp[c]), [r EXCEPT ![src[c]] = Calls!Touched(r[src[c]], isTcp[c])])
    BY <1>1, <2>1, TabAdd DEF OneAtATime
  <2>3. Calls!AddRefuses(Tab(n, r), user, src[c]) <=> Full(n) \/ Crowded(r, src[c])
    BY <1>1, <2>1, TabLimits DEF Calls!AddRefuses, OneAtATime
  <2>4. Calls!Table' = Tab(count', Row')
    BY TableIs
  <2> QED
    BY <2>1, <2>2, <2>3, <2>4 DEF n, r
<1>3. \A d \in Conns \ {c} : pc[d] \in Calls!Outside
  BY DEF Alone, Calls!Goroutines
<1>4. pc[Cleaner] \in Calls!Outside
  BY DEF Alone, OneAtATime, Calls!Goroutines
<1>5. pc[c] \notin Calls!DelSteps
  BY DEF Calls!AddSteps, Calls!DelSteps
<1> QED
  BY <1>2, <1>3, <1>4, <1>5
     DEF Agrees, Calls!Returns, Calls!Outside, Calls!AddSteps, Calls!DelSteps, Calls!ClearSteps

\* The last step of a DelConnCount.
LEMMA DelReturns ==
    ASSUME OneAtATime, IInv, NEW c \in Conns, Alone(c), pc[c] \in Calls!DelSteps,
           \/ ~live /\ count' = Count0 /\ Row' = Row0
           \/ /\ live /\ count' = Down(Count0)
              /\ Row' = IF ipMax # 0 /\ Row0[src[c]] # 0
                          THEN [Row0 EXCEPT ![src[c]] = Row0[src[c]] - Calls!Tcp] ELSE Row0
    PROVE  Agrees
<1>1. src[c] \in IPs /\ Count0 \in Nat /\ Row0 \in Rows /\ before = Tab(Count0, Row0)
  BY DEF IInv, AddInv, TypeInv, Calls!DelSteps, Calls!Goroutines
<1>2. Calls!Table' = Calls!DelConnCount(before, user, src[c])
  <2> DEFINE n == Count0  r == Row0
  <2> HIDE DEF n, r
  <2>1. n \in Nat /\ r \in Rows /\ before = Tab(n, r)
    BY <1>1 DEF n, r
  <2>2. Calls!DelConnCount(Tab(n, r), user, src[c]) =
             IF ~live THEN Tab(n, r)
             ELSE Tab(Down(n), IF ipMax # 0 /\ r[src[c]] # 0
                                 THEN [r EXCEPT ![src[c]] = r[src[c]] - Calls!Tcp] ELSE r)
    BY <1>1, <2>1, TabDel DEF OneAtATime
  <2>3. Calls!Table' = Tab(count', Row')
    BY TableIs
  <2> QED
    BY <2>1, <2>2, <2>3 DEF n, r
<1>3. \A d \in Conns \ {c} : pc[d] \in Calls!Outside
  BY DEF Alone, Calls!Goroutines
<1>4. pc[Cleaner] \in Calls!Outside
  BY DEF Alone, OneAtATime, Calls!Goroutines
<1>5. pc[c] \notin Calls!AddSteps
  BY DEF Calls!AddSteps, Calls!DelSteps
<1> QED
  BY <1>2, <1>3, <1>4, <1>5
     DEF Agrees, Calls!Returns, Calls!Outside, Calls!AddSteps, Calls!DelSteps, Calls!ClearSteps

\* The last step of a ClearOnlineIP.
LEMMA ClearReturns ==
    ASSUME OneAtATime, IInv, Alone(Cleaner), pc[Cleaner] \in Calls!ClearSteps,
           count' = Count0, Row' = Swept(Row0)
    PROVE  Agrees
<1>1. Count0 \in Nat /\ Row0 \in Rows /\ before = Tab(Count0, Row0)
  BY DEF IInv, TypeInv
<1>2. Calls!Table' = Calls!ClearOnlineIP(before)
  <2> DEFINE n == Count0  r == Row0
  <2> HIDE DEF n, r
  <2>1. n \in Nat /\ r \in Rows /\ before = Tab(n, r)
    BY <1>1 DEF n, r
  <2>2. Calls!ClearOnlineIP(Tab(n, r)) = Tab(n, Swept(r))
    BY <2>1, TabClear DEF OneAtATime
  <2>3. Calls!Table' = Tab(count', Row')
    BY TableIs
  <2> QED
    BY <2>1, <2>2, <2>3 DEF n, r
<1>3. \A d \in Conns : pc[d] \in Calls!Outside
  BY DEF Alone, OneAtATime, Calls!Goroutines
<1> QED
  BY <1>2, <1>3
     DEF Agrees, Calls!Returns, Calls!Outside, Calls!AddSteps, Calls!DelSteps, Calls!ClearSteps

-----------------------------------------------------------------------------
\* The steps of AddConnCount

\* The row of the map a goroutine has loaded is the user's.
LEMMA RowIs == TypeInv /\ ip \in Maps /\ NoMap \notin Maps => Row = entries[ip] /\ Row \in Rows
BY DEF TypeInv, Row

\* Nothing but an entry changes.
LEMMA RowBecomes ==
    ASSUME TypeInv, NoMap \notin Maps, ip \in Maps, UNCHANGED ip, NEW a \in IPs, NEW v \in Int,
           entries' = [entries EXCEPT ![ip][a] = v]
    PROVE  Row' = [Row EXCEPT ![a] = v] /\ entries' \in [Maps -> Rows]
BY DEF TypeInv, Row, Rows

\* AddConnCount is called, and compares the count before anything else.
LEMMA CallAddStep ==
    ASSUME OneAtATime, IInv, NEW c \in Conns, NEW a \in IPs, NEW tcp \in BOOLEAN,
           Calls!CallAdd(c, a, tcp), UNCHANGED Calls!limits
    PROVE  IInv' /\ Agrees
<1> USE DEF Calls!CallAdd, Calls!Call, Calls!Goto, Calls!limits
<1>0. c \in Calls!Goroutines /\ c # Cleaner /\ pc[c] = "idle"
      /\ \A h \in Calls!Goroutines : pc[h] \in Calls!Outside
  BY CallIsAlone DEF Calls!Goroutines, OneAtATime
<1>1. Alone(c)
  BY <1>0 DEF Alone, IInv, TypeInv
<1>2. Agrees
  BY <1>0, <1>1, OnTheWay DEF Calls!Outside
<1>3. before' = Tab(count, Row) /\ UNCHANGED <<count, Row>> /\ Row \in Rows
  BY TableIs DEF Row, IInv, TypeInv, Calls!Empty, Rows, OneAtATime
<1>4. Count0' = count /\ Row0' = Row
  BY <1>3 DEF Count0, Row0, Tab, OneAtATime
<1>5. TypeInv'
  BY <1>0, <1>3, <1>4 DEF IInv, TypeInv, Calls!AddSteps
<1>6. src'[c] = a /\ isTcp'[c] = tcp /\ pc'[c] = IF connMax # 0 THEN "addLoadCount" ELSE "addLoadMap"
  BY <1>0 DEF IInv, TypeInv
<1>7. AddInv(c)'
  BY <1>3, <1>4, <1>6 DEF AddInv, Full, Up
<1>8. DelInv(c)'
  BY <1>6 DEF DelInv
<1> QED
  BY <1>0, <1>1, <1>2, <1>5, <1>7, <1>8, Kept

\* The steps on the count.
LEMMA AddCountSteps ==
    ASSUME OneAtATime, IInv, NEW c \in Conns, Calls!AddLoadCount(c) \/ Calls!AddStoreCount(c), UNCHANGED Calls!limits
    PROVE  IInv' /\ Agrees
<1> USE DEF Calls!Goto, Calls!Return, Calls!limits
<1>0. c \in Calls!Goroutines /\ c # Cleaner /\ pc[c] \in {"addLoadCount", "addStoreCount"} /\ pc[c] \in Calls!AddSteps
  BY DEF Calls!Goroutines, OneAtATime, Calls!AddLoadCount, Calls!AddStoreCount, Calls!AddSteps
<1>1. Alone(c)
  BY <1>0, BusyIsAlone
     DEF Alone, IInv, TypeInv, Calls!AddLoadCount, Calls!AddStoreCount, Calls!AddSteps,
         Calls!Outside
<1>2. /\ connMax # 0 /\ count = Count0 /\ Row = Row0 /\ src[c] \in IPs
      /\ pc[c] = "addStoreCount" => isTcp[c] /\ loaded[c] = count /\ ~Full(Count0)
  BY <1>0 DEF IInv, AddInv
<1>3. UNCHANGED <<Row, Row0, Count0, before, src, isTcp, ip>>
  BY DEF Row, Row0, Count0, Calls!AddLoadCount, Calls!AddStoreCount
<1> USE <1>0, <1>1, <1>2, <1>3
<1>4. CASE Calls!AddLoadCount(c) /\ Full(count)
  <2> USE <1>4 DEF Calls!AddLoadCount, Full
  <2>1. pc'[c] = "idle"
    BY DEF IInv, TypeInv
  <2>2. TypeInv'
    BY DEF IInv, TypeInv, Calls!Outside
  <2>3. Agrees
    BY <2>1, AddReturns
  <2>4. AddInv(c)' /\ DelInv(c)'
    BY <2>1 DEF AddInv, DelInv
  <2> QED
    BY <2>2, <2>3, <2>4, Kept
<1>5. CASE Calls!AddLoadCount(c) /\ ~Full(count)
  <2> USE <1>5 DEF Calls!AddLoadCount
  <2>1. /\ pc' = [pc EXCEPT ![c] = IF isTcp[c] THEN "addStoreCount" ELSE "addLoadMap"]
        /\ loaded' = [loaded EXCEPT ![c] = count] /\ UNCHANGED ips
    BY DEF Full
  <2>2. pc'[c] = (IF isTcp[c] THEN "addStoreCount" ELSE "addLoadMap") /\ loaded'[c] = count
    BY <2>1 DEF IInv, TypeInv
  <2>3. TypeInv'
    BY <2>1 DEF IInv, TypeInv, Calls!AddSteps
  <2>4. Agrees
    BY <2>2, OnTheWay DEF Calls!Outside
  <2>5. AddInv(c)' /\ DelInv(c)'
    BY <2>2 DEF AddInv, DelInv, Up, Full
  <2> QED
    BY <2>3, <2>4, <2>5, Kept
<1>6. CASE Calls!AddStoreCount(c)
  <2> USE <1>6 DEF Calls!AddStoreCount
  <2>1. pc'[c] = "addLoadMap" /\ isTcp[c] /\ count' = Up(Count0, isTcp[c])
    BY DEF IInv, TypeInv, Up
  <2>2. TypeInv'
    BY DEF IInv, TypeInv, Calls!AddSteps
  <2>3. Agrees
    BY <2>1, OnTheWay DEF Calls!Outside
  <2>4. AddInv(c)' /\ DelInv(c)'
    BY <2>1 DEF AddInv, DelInv, Up, Full
  <2> QED
    BY <2>2, <2>3, <2>4, Kept
<1> QED
  BY <1>4, <1>5, <1>6

\* The steps on the addresses, of a connection that is counted.
LEMMA AddMapSteps ==
    ASSUME OneAtATime, IInv, NEW c \in Conns, UNCHANGED Calls!limits,
           Calls!AddLoadMap(c) \/ Calls!AddLoadIP(c) \/ Calls!AddRange(c) \/ Calls!AddStoreIP(c)
    PROVE  IInv' /\ Agrees
<1> USE DEF Calls!Goto, Calls!Return, Calls!limits
<1>0. /\ c \in Calls!Goroutines /\ c # Cleaner /\ pc[c] \in Calls!AddSteps
      /\ pc[c] \in {"addLoadMap", "addLoadIP", "addRange", "addStoreIP"}
  BY
     DEF Calls!Goroutines, OneAtATime, Calls!AddLoadMap, Calls!AddLoadIP, Calls!AddRange,
         Calls!AddStoreIP, Calls!AddSteps
<1>1. Alone(c)
  BY <1>0, BusyIsAlone
     DEF Alone, IInv, TypeInv, Calls!AddLoadMap, Calls!AddLoadIP, Calls!AddRange, Calls!AddStoreIP,
         Calls!AddSteps, Calls!Outside
<1>2. /\ ~Full(Count0) /\ count = Up(Count0, isTcp[c]) /\ Row = Row0 /\ src[c] \in IPs
      /\ pc[c] \in {"addLoadIP", "addRange", "addStoreIP"} => ips[c] = ip /\ ip \in Maps
      /\ pc[c] = "addRange" => ipMax # 0 /\ loaded[c] = 0 /\ Row0[src[c]] = 0
      /\ pc[c] = "addStoreIP" => loaded[c] = Row0[src[c]] /\ ~Crowded(Row0, src[c])
  BY <1>0 DEF IInv, AddInv
<1>3. UNCHANGED <<Row0, Count0, before, src, isTcp, count>>
  BY DEF Row0, Count0, Calls!AddLoadMap, Calls!AddLoadIP, Calls!AddRange, Calls!AddStoreIP
<1>4. /\ ~Full(Count0)' /\ count' = Up(Count0, isTcp[c])'
      /\ Crowded(Row0, src[c])' <=> Crowded(Row0, src[c])
  BY <1>2, <1>3 DEF Full, Up, Crowded
<1>5. TypeInv /\ isTcp[c] \in BOOLEAN /\ ipMax \in Nat /\ live \in BOOLEAN /\ NoMap \notin Maps
      /\ Row0 \in Rows /\ Row0[src[c]] \in Int
  BY <1>0, <1>2 DEF IInv, TypeInv, OneAtATime, Rows
<1>6. Calls!Touched(Row0[src[c]], isTcp[c]) \in Int
  BY <1>5, TouchedType
<1> USE <1>0, <1>1, <1>2, <1>3, <1>5
<1>7. CASE Calls!AddLoadMap(c) /\ ip = NoMap
  <2>1. PICK m \in Maps \ Calls!Referenced :
          /\ ip' = m
          /\ entries' = [entries EXCEPT ![m] = [Calls!Empty EXCEPT ![src[c]] = Calls!Touched(0, isTcp[c])]]
          /\ Calls!Return(c, "open")
    BY <1>7 DEF Calls!AddLoadMap
  <2>2. Row = Calls!Empty /\ Row0[src[c]] = 0
    BY <1>7 DEF Row, Calls!Empty
  <2>3. [Calls!Empty EXCEPT ![src[c]] = Calls!Touched(0, isTcp[c])] \in Rows
    BY <1>6, <2>2 DEF Rows, Calls!Empty
  <2>4. Row' = [Row0 EXCEPT ![src[c]] = Calls!Touched(Row0[src[c]], isTcp[c])]
    BY <2>1, <2>2, <2>3 DEF Row, TypeInv
  <2>5. ~Crowded(Row0, src[c])
    <3>1. {b \in IPs : Row0[b] # 0} = {}
      BY <2>2 DEF Calls!Empty
    <3>2. Cardinality({b \in IPs : Row0[b] # 0}) = 0 /\ ipMax \in Nat
      BY <3>1, FS_EmptySet DEF TypeInv
    <3> QED
      BY <3>2 DEF Crowded
  <2>6. pc'[c] = "open"
    BY <2>1 DEF TypeInv
  <2>7. TypeInv'
    BY <1>7, <2>1, <2>3 DEF TypeInv, Calls!Outside, Calls!AddLoadMap
  <2>8. Agrees
    BY <2>4, <2>5, <2>6, AddReturns
  <2>9. AddInv(c)' /\ DelInv(c)'
    BY <2>6 DEF AddInv, DelInv
  <2> QED
    BY <2>7, <2>8, <2>9, Kept
<1>8. CASE Calls!AddLoadMap(c) /\ ip # NoMap
  <2> USE <1>8 DEF Calls!AddLoadMap
  <2>1. pc'[c] = "addLoadIP" /\ ips'[c] = ip /\ ip \in Maps /\ ip' = ip /\ Row' = Row
    BY DEF TypeInv, Row
  <2>2. TypeInv'
    BY DEF TypeInv, Calls!AddSteps
  <2>3. Agrees
    BY <2>1, OnTheWay DEF Calls!Outside
  <2>4. AddInv(c)' /\ DelInv(c)'
    BY <1>4, <2>1 DEF AddInv, DelInv
  <2> QED
    BY <2>2, <2>3, <2>4, Kept
<1>9. CASE Calls!AddLoadIP(c)
  <2> USE <1>9 DEF Calls!AddLoadIP
  <2> DEFINE v == entries[ips[c]][src[c]]
  <2>1. v = Row0[src[c]] /\ ip' = ip /\ Row' = Row
    BY RowIs DEF Row
  <2> HIDE DEF v
  <2>2. /\ pc' = [pc EXCEPT ![c] = IF v # 0 \/ ipMax = 0 THEN "addStoreIP" ELSE "addRange"]
        /\ loaded' = [loaded EXCEPT ![c] = v]
    BY DEF v
  <2>3. pc'[c] = (IF v # 0 \/ ipMax = 0 THEN "addStoreIP" ELSE "addRange") /\ loaded'[c] = v
    BY <2>2 DEF TypeInv
  <2>4. TypeInv'
    BY <2>1, <2>2 DEF TypeInv, Calls!AddSteps
  <2>5. Agrees
    BY <2>3, OnTheWay DEF Calls!Outside
  <2>6. v # 0 \/ ipMax = 0 => ~Crowded(Row0, src[c])
    BY <2>1 DEF Crowded
  <2>7. AddInv(c)' /\ DelInv(c)'
    BY <1>4, <2>1, <2>3, <2>6 DEF AddInv, DelInv
  <2> QED
    BY <2>4, <2>5, <2>7, Kept
<1>10. CASE Calls!AddRange(c)
  <2> USE <1>10 DEF Calls!AddRange
  <2>1. {a \in IPs : entries[ips[c]][a] # 0} = {a \in IPs : Row0[a] # 0} /\ ip' = ip /\ Row' = Row
    BY RowIs DEF Row
  <2>2. Cardinality({a \in IPs : entries[ips[c]][a] # 0}) >= ipMax <=> Crowded(Row0, src[c])
    <3>1. ipMax > 0 /\ Row0[src[c]] = 0
      BY DEF AddInv, TypeInv
    <3>2. Cardinality({a \in IPs : entries[ips[c]][a] # 0}) = Cardinality({a \in IPs : Row0[a] # 0})
      BY <2>1
    <3> QED
      BY <3>1, <3>2 DEF Crowded
  <2>3. CASE Crowded(Row0, src[c])
    <3>1. Calls!Return(c, "idle")
      BY <2>2, <2>3, SameCardinality
    <3>2. pc'[c] = "idle"
      BY <3>1 DEF TypeInv
    <3>3. TypeInv'
      BY <3>1 DEF TypeInv, Calls!Outside
    <3>4. Agrees
      BY <2>1, <2>3, <3>2, AddReturns
    <3>5. AddInv(c)' /\ DelInv(c)'
      BY <3>2 DEF AddInv, DelInv
    <3> QED
      BY <3>3, <3>4, <3>5, Kept
  <2>4. CASE ~Crowded(Row0, src[c])
    <3>1. pc' = [pc EXCEPT ![c] = "addStoreIP"] /\ UNCHANGED <<loaded, ips>>
      BY <2>2, <2>4, SameCardinality
    <3>2. pc'[c] = "addStoreIP"
      BY <3>1 DEF TypeInv
    <3>3. TypeInv'
      BY <3>1 DEF TypeInv, Calls!AddSteps
    <3>4. Agrees
      BY <3>2, OnTheWay DEF Calls!Outside
    <3>5. AddInv(c)' /\ DelInv(c)'
      BY <1>4, <2>1, <2>4, <3>1, <3>2 DEF AddInv, DelInv
    <3> QED
      BY <3>3, <3>4, <3>5, Kept
  <2> QED
    BY <2>3, <2>4
<1>11. CASE Calls!AddStoreIP(c)
  <2> USE <1>11 DEF Calls!AddStoreIP
  <2>1. pc'[c] = "open" /\ ip' = ip /\ Row = entries[ip] /\ Row \in Rows
    BY RowIs DEF TypeInv
  <2>2. /\ Row' = [Row0 EXCEPT ![src[c]] = Calls!Touched(Row0[src[c]], isTcp[c])]
        /\ entries' \in [Maps -> Rows]
    <3>1. CASE live /\ loaded[c] # 0 /\ ~isTcp[c]
      <4>1. entries' = entries /\ Row' = Row0
        BY <2>1, <3>1 DEF Row
      <4>2. Calls!Touched(Row0[src[c]], isTcp[c]) = Row0[src[c]]
        BY <3>1, TouchedType
      <4>3. [Row0 EXCEPT ![src[c]] = Row0[src[c]]] = Row0
        BY DEF Rows
      <4> QED
        BY <4>1, <4>2, <4>3 DEF TypeInv
    <3>2. CASE ~(live /\ loaded[c] # 0 /\ ~isTcp[c])
      <4>1. entries' = [entries EXCEPT ![ip][src[c]] = Calls!Touched(Row0[src[c]], isTcp[c])]
        BY <3>2
      <4> DEFINE v == Calls!Touched(Row0[src[c]], isTcp[c])
      <4>2. v \in Int /\ entries' = [entries EXCEPT ![ip][src[c]] = v]
        BY <1>6, <4>1
      <4> HIDE DEF v
      <4>3. Row' = [Row EXCEPT ![src[c]] = v] /\ entries' \in [Maps -> Rows]
        BY <2>1, <4>2, RowBecomes
      <4> QED
        BY <4>3 DEF v
    <3> QED
      BY <3>1, <3>2
  <2>3. TypeInv'
    BY <2>2 DEF TypeInv, Calls!Outside
  <2>4. Agrees
    BY <2>1, <2>2, AddReturns
  <2>5. AddInv(c)' /\ DelInv(c)'
    BY <2>1 DEF AddInv, DelInv
  <2> QED
    BY <2>3, <2>4, <2>5, Kept
<1> QED
  BY <1>7, <1>8, <1>9, <1>10, <1>11

-----------------------------------------------------------------------------
\* The steps of DelConnCount

\* The call, and the end of packet traffic, which makes none.
LEMMA CallDelStep ==
    ASSUME OneAtATime, IInv, NEW c \in Conns, Calls!CallDel(c) \/ Calls!ClosePacket(c), UNCHANGED Calls!limits
    PROVE  IInv' /\ Agrees
<1> USE DEF Calls!Goto, Calls!limits
<1>0. c \in Calls!Goroutines /\ c # Cleaner /\ pc[c] = "open" /\ src[c] \in IPs
  BY DEF Calls!Goroutines, OneAtATime, Calls!CallDel, Calls!ClosePacket, IInv, AddInv
<1>1. UNCHANGED <<count, Row, src>> /\ Row \in Rows
  BY DEF Calls!CallDel, Calls!ClosePacket, Row, IInv, TypeInv, Calls!Empty, Rows, OneAtATime
<1>2. CASE Calls!CallDel(c)
  <2> USE <1>2 DEF Calls!CallDel, Calls!Call
  <2>0. \A h \in Calls!Goroutines : pc[h] \in Calls!Outside
    BY CallIsAlone
  <2>1. Alone(c)
    BY <2>0, <1>0 DEF Alone, IInv, TypeInv
  <2>2. Agrees
    BY <1>0, <2>1, OnTheWay DEF Calls!Outside
  <2>3. Count0' = count /\ Row0' = Row /\ before' = Tab(count, Row)
    BY TableIs DEF Count0, Row0, Tab, OneAtATime
  <2>4. TypeInv'
    BY <1>0, <1>1, <2>3 DEF IInv, TypeInv, Calls!DelSteps
  <2>5. pc'[c] = IF ~live THEN "return"
                 ELSE IF connMax # 0 THEN "delLoadCount"
                 ELSE IF ipMax # 0 THEN "delLoadMap" ELSE "return"
    BY <1>0 DEF IInv, TypeInv
  <2>6. AddInv(c)'
    BY <1>0, <1>1, <2>5 DEF AddInv
  <2>7. DelInv(c)'
    BY <1>1, <2>3, <2>5 DEF DelInv, Down
  <2> QED
    BY <1>0, <2>1, <2>2, <2>4, <2>6, <2>7, Kept
<1>3. CASE Calls!ClosePacket(c)
  <2> USE <1>3 DEF Calls!ClosePacket
  <2>1. pc' = [pc EXCEPT ![c] = "idle"] /\ pc'[c] = "idle" /\ \A h \in Calls!Goroutines \ {c} : pc'[h] = pc[h]
    BY <1>0 DEF IInv, TypeInv
  <2>2. TypeInv'
    BY <2>1 DEF IInv, TypeInv, Calls!Outside, Count0, Row0
  <2>3. Agrees
    <3>1. \A h \in Calls!Goroutines : pc[h] \in Calls!Outside \/ pc'[h] \notin Calls!Outside
      BY <1>0, <2>1 DEF Calls!Outside
    <3>2. \A h \in Calls!Goroutines : 
              /\ ~Calls!Returns(h, Calls!AddSteps)
              /\ ~Calls!Returns(h, Calls!DelSteps)
              /\ ~Calls!Returns(h, Calls!ClearSteps)
      BY <3>1 DEF Calls!Returns, Calls!Outside, Calls!AddSteps, Calls!DelSteps, Calls!ClearSteps
    <3> QED
      BY <3>2 DEF Agrees, Calls!Goroutines
  <2>4. OneCall'
    BY <2>1 DEF IInv, OneCall, Calls!Outside
  <2>5. ASSUME NEW d \in Conns PROVE AddInv(d)' /\ DelInv(d)'
    <3>1. AddInv(d) /\ DelInv(d) /\ d \in Calls!Goroutines
      BY DEF IInv, Calls!Goroutines
    <3>2. UNCHANGED <<connMax, ipMax, live, count, Row, Count0, Row0, src[d], isTcp[d], loaded[d], ips[d], ip>>
      BY <1>1 DEF Count0, Row0
    <3>3. CASE d = c
      BY <2>1, <3>3 DEF AddInv, DelInv
    <3>4. CASE d # c
      <4>1. pc'[d] = pc[d]
        BY <2>1, <3>1, <3>4
      <4> QED
        BY <3>1, <3>2, <4>1 DEF AddInv, DelInv, Full, Up, Down, Crowded, Calls!Empty
    <3> QED
      BY <3>3, <3>4
  <2>6. ClearInv'
    <3>1. pc'[Cleaner] = pc[Cleaner]
      BY <1>0, <2>1 DEF Calls!Goroutines
    <3>2. UNCHANGED <<live, count, Row, Count0, Row0, src, ips, ip, todo, notDel>>
      BY <1>1 DEF Count0, Row0
    <3> QED
      BY <3>1, <3>2 DEF IInv, ClearInv, Swept, Gone, Calls!Empty
  <2> QED
    BY <2>2, <2>3, <2>4, <2>5, <2>6 DEF IInv
<1> QED
  BY <1>2, <1>3

\* The steps on the count, and the return of a call that has nothing to do.
LEMMA DelCountSteps ==
    ASSUME OneAtATime, IInv, NEW c \in Conns, UNCHANGED Calls!limits,
           Calls!DelReturn(c) \/ Calls!DelLoadCount(c) \/ Calls!DelStoreCount(c)
    PROVE  IInv' /\ Agrees
<1> USE DEF Calls!Goto, Calls!Return, Calls!limits
<1>0. /\ c \in Calls!Goroutines /\ c # Cleaner /\ pc[c] \in Calls!DelSteps
      /\ pc[c] \in {"return", "delLoadCount", "delStoreCount"}
  BY
     DEF Calls!Goroutines, OneAtATime, Calls!DelReturn, Calls!DelLoadCount, Calls!DelStoreCount,
         Calls!DelSteps
<1>1. Alone(c)
  BY <1>0, BusyIsAlone
     DEF Alone, IInv, TypeInv, Calls!DelReturn, Calls!DelLoadCount, Calls!DelStoreCount,
         Calls!DelSteps, Calls!Outside
<1>2. DelInv(c) /\ TypeInv /\ src[c] \in IPs
  BY <1>0 DEF IInv, AddInv, Calls!DelSteps
<1>3. UNCHANGED <<Row, Row0, Count0, before, src, isTcp, ip>>
  BY DEF Row, Row0, Count0, Calls!DelReturn, Calls!DelLoadCount, Calls!DelStoreCount
<1> USE <1>0, <1>1, <1>2, <1>3
<1>4. CASE Calls!DelReturn(c)
  <2> USE <1>4 DEF Calls!DelReturn
  <2>1. pc'[c] = "idle"
    BY DEF TypeInv
  <2>2. TypeInv'
    BY DEF TypeInv, Calls!Outside
  <2>3. Agrees
    <3>1. /\ count' = (IF live THEN Down(Count0) ELSE Count0) /\ Row' = Row0
          /\ live => ipMax = 0
      BY DEF DelInv
    <3> QED
      BY <3>1, DelReturns
  <2>4. AddInv(c)' /\ DelInv(c)'
    BY <2>1 DEF AddInv, DelInv
  <2> QED
    BY <2>2, <2>3, <2>4, Kept
<1>5. CASE Calls!DelLoadCount(c)
  <2> USE <1>5 DEF Calls!DelLoadCount
  <2>1. /\ pc'[c] = (IF count # 0 THEN "delStoreCount" ELSE IF ipMax # 0 THEN "delLoadMap" ELSE "return")
        /\ loaded'[c] = count
    BY DEF TypeInv
  <2>2. TypeInv'
    BY DEF TypeInv, Calls!DelSteps
  <2>3. Agrees
    BY <2>1, OnTheWay DEF Calls!Outside
  <2>4. AddInv(c)' /\ DelInv(c)'
    BY <2>1 DEF AddInv, DelInv, Down
  <2> QED
    BY <2>2, <2>3, <2>4, Kept
<1>6. CASE Calls!DelStoreCount(c)
  <2> USE <1>6 DEF Calls!DelStoreCount
  <2>1. /\ pc'[c] = (IF ipMax # 0 THEN "delLoadMap" ELSE "return")
        /\ count # 0 /\ count = Count0 /\ count' = count - 1 /\ connMax # 0 /\ live
    BY DEF TypeInv, DelInv
  <2>2. TypeInv'
    BY <2>1 DEF TypeInv, Calls!DelSteps
  <2>3. Agrees
    BY <2>1, OnTheWay DEF Calls!Outside
  <2>4. AddInv(c)' /\ DelInv(c)'
    BY <2>1 DEF AddInv, DelInv, Down
  <2> QED
    BY <2>2, <2>3, <2>4, Kept
<1> QED
  BY <1>4, <1>5, <1>6

\* The steps on the addresses.
LEMMA DelMapSteps ==
    ASSUME OneAtATime, IInv, NEW c \in Conns, UNCHANGED Calls!limits,
           Calls!DelLoadMap(c) \/ Calls!DelLoadIP(c) \/ Calls!DelStoreIP(c) \/ Calls!DelEmpty(c) \/ Calls!DelDeleteMap(c)
    PROVE  IInv' /\ Agrees
<1> USE DEF Calls!Goto, Calls!Return, Calls!limits
<1>0. /\ c \in Calls!Goroutines /\ c # Cleaner /\ pc[c] \in Calls!DelSteps
      /\ pc[c] \in {"delLoadMap", "delLoadIP", "delStoreIP", "delEmpty", "delDeleteMap"}
  BY
     DEF Calls!Goroutines, OneAtATime, Calls!DelLoadMap, Calls!DelLoadIP, Calls!DelStoreIP,
         Calls!DelEmpty, Calls!DelDeleteMap, Calls!DelSteps
<1>1. Alone(c)
  BY <1>0, BusyIsAlone
     DEF Alone, IInv, TypeInv, Calls!DelLoadMap, Calls!DelLoadIP, Calls!DelStoreIP, Calls!DelEmpty,
         Calls!DelDeleteMap, Calls!DelSteps, Calls!Outside
<1>2. DelInv(c) /\ TypeInv /\ src[c] \in IPs /\ NoMap \notin Maps
  BY <1>0 DEF IInv, AddInv, Calls!DelSteps, OneAtATime
<1>3. UNCHANGED <<Row0, Count0, before, src, isTcp, count>>
  BY
     DEF Row0, Count0, Calls!DelLoadMap, Calls!DelLoadIP, Calls!DelStoreIP, Calls!DelEmpty,
         Calls!DelDeleteMap
<1>4. live /\ ipMax # 0 /\ count = Down(Count0) /\ Down(Count0)' = Down(Count0)
  BY <1>0, <1>2, <1>3 DEF DelInv, Down
<1>5. Row0 \in Rows /\ Row0[src[c]] \in Int
  BY <1>2 DEF TypeInv, Rows
<1> USE <1>0, <1>1, <1>2, <1>3, <1>4, <1>5
<1>6. CASE Calls!DelLoadMap(c) /\ ip = NoMap
  <2> USE <1>6 DEF Calls!DelLoadMap
  <2>1. pc'[c] = "idle" /\ Row' = Row0 /\ Row0[src[c]] = 0
    BY DEF TypeInv, DelInv, Row, Calls!Empty
  <2>2. TypeInv'
    BY DEF TypeInv, Calls!Outside
  <2>3. Agrees
    BY <2>1, DelReturns
  <2>4. AddInv(c)' /\ DelInv(c)'
    BY <2>1 DEF AddInv, DelInv
  <2> QED
    BY <2>2, <2>3, <2>4, Kept
<1>7. CASE Calls!DelLoadMap(c) /\ ip # NoMap
  <2> USE <1>7 DEF Calls!DelLoadMap
  <2>1. pc'[c] = "delLoadIP" /\ ips'[c] = ip /\ ip \in Maps /\ ip' = ip /\ Row' = Row /\ Row = Row0
    BY DEF TypeInv, Row, DelInv
  <2>2. TypeInv'
    BY DEF TypeInv, Calls!DelSteps
  <2>3. Agrees
    BY <2>1, OnTheWay DEF Calls!Outside
  <2>4. AddInv(c)' /\ DelInv(c)'
    BY <2>1 DEF AddInv, DelInv
  <2> QED
    BY <2>2, <2>3, <2>4, Kept
<1>8. CASE Calls!DelLoadIP(c)
  <2> USE <1>8 DEF Calls!DelLoadIP
  <2> DEFINE v == entries[ips[c]][src[c]]
  <2>1. /\ v = Row0[src[c]] /\ ip' = ip /\ Row' = Row /\ Row = Row0
        /\ ips[c] = ip /\ ip \in Maps
    BY RowIs DEF Row, DelInv
  <2> HIDE DEF v
  <2>2. CASE v = 0
    <3>1. pc' = [pc EXCEPT ![c] = "idle"] /\ Calls!Return(c, "idle")
      BY <2>2 DEF v
    <3>2. pc'[c] = "idle"
      BY <3>1 DEF TypeInv
    <3>3. TypeInv'
      BY <2>1, <3>1 DEF TypeInv, Calls!Outside
    <3>4. Agrees
      BY <2>1, <2>2, <3>2, DelReturns
    <3>5. AddInv(c)' /\ DelInv(c)'
      BY <3>2 DEF AddInv, DelInv
    <3> QED
      BY <3>3, <3>4, <3>5, Kept
  <2>3. CASE v # 0
    <3>1. /\ pc' = [pc EXCEPT ![c] = "delStoreIP"] /\ loaded' = [loaded EXCEPT ![c] = v]
          /\ UNCHANGED ips
      BY <2>3 DEF v
    <3>2. pc'[c] = "delStoreIP" /\ loaded'[c] = v
      BY <3>1 DEF TypeInv
    <3>3. TypeInv'
      BY <2>1, <3>1 DEF TypeInv, Calls!DelSteps
    <3>4. Agrees
      BY <3>2, OnTheWay DEF Calls!Outside
    <3>5. AddInv(c)' /\ DelInv(c)'
      BY <2>1, <2>3, <3>1, <3>2 DEF AddInv, DelInv
    <3> QED
      BY <3>3, <3>4, <3>5, Kept
  <2> QED
    BY <2>2, <2>3
<1>9. CASE Calls!DelStoreIP(c)
  <2> USE <1>9 DEF Calls!DelStoreIP
  <2>1. /\ ips[c] = ip /\ ip \in Maps /\ ip' = ip /\ Row = Row0
        /\ loaded[c] = Row0[src[c]] /\ loaded[c] # 0
    BY DEF DelInv
  <2> DEFINE v == Row0[src[c]] - Calls!Tcp
  <2>2. v \in Int /\ entries' = [entries EXCEPT ![ip][src[c]] = v]
    BY <2>1 DEF Calls!Tcp
  <2> HIDE DEF v
  <2>3. Row' = [Row0 EXCEPT ![src[c]] = v] /\ entries' \in [Maps -> Rows]
    BY <2>1, <2>2, RowBecomes
  <2>4. pc'[c] = "delEmpty"
    BY DEF TypeInv
  <2>5. TypeInv'
    BY <2>3 DEF TypeInv, Calls!DelSteps
  <2>6. Agrees
    BY <2>4, OnTheWay DEF Calls!Outside
  <2>7. AddInv(c)' /\ DelInv(c)'
    BY <2>1, <2>3, <2>4 DEF AddInv, DelInv, v
  <2> QED
    BY <2>5, <2>6, <2>7, Kept
<1>10. CASE Calls!DelEmpty(c)
  <2> USE <1>10 DEF Calls!DelEmpty
  <2>1. /\ ips[c] = ip /\ ip \in Maps /\ ip' = ip /\ Row = entries[ip] /\ Row' = Row
        /\ Row0[src[c]] # 0 /\ Row = [Row0 EXCEPT ![src[c]] = Row0[src[c]] - Calls!Tcp]
    BY RowIs DEF DelInv, Row
  <2>2. CASE Row = Calls!Empty
    <3>1. pc' = [pc EXCEPT ![c] = "delDeleteMap"] /\ UNCHANGED <<loaded, ips>>
      BY <2>1, <2>2
    <3>2. pc'[c] = "delDeleteMap"
      BY <3>1 DEF TypeInv
    <3>3. TypeInv'
      BY <3>1 DEF TypeInv, Calls!DelSteps
    <3>4. Agrees
      BY <3>2, OnTheWay DEF Calls!Outside
    <3>5. AddInv(c)' /\ DelInv(c)'
      BY <2>1, <2>2, <3>1, <3>2 DEF AddInv, DelInv, Calls!Empty
    <3> QED
      BY <3>3, <3>4, <3>5, Kept
  <2>3. CASE Row # Calls!Empty
    <3>1. Calls!Return(c, "idle")
      BY <2>1, <2>3
    <3>2. pc'[c] = "idle"
      BY <3>1 DEF TypeInv
    <3>3. TypeInv'
      BY <3>1 DEF TypeInv, Calls!Outside
    <3>4. Agrees
      BY <2>1, <3>2, DelReturns
    <3>5. AddInv(c)' /\ DelInv(c)'
      BY <3>2 DEF AddInv, DelInv
    <3> QED
      BY <3>3, <3>4, <3>5, Kept
  <2> QED
    BY <2>2, <2>3
<1>11. CASE Calls!DelDeleteMap(c)
  <2> USE <1>11 DEF Calls!DelDeleteMap
  <2>1. /\ pc'[c] = "idle" /\ Row' = Row
        /\ Row0[src[c]] # 0 /\ Row = [Row0 EXCEPT ![src[c]] = Row0[src[c]] - Calls!Tcp]
    BY DEF TypeInv, DelInv, Row
  <2>2. TypeInv'
    BY DEF TypeInv, Calls!Outside
  <2>3. Agrees
    BY <2>1, DelReturns
  <2>4. AddInv(c)' /\ DelInv(c)'
    BY <2>1 DEF AddInv, DelInv
  <2> QED
    BY <2>2, <2>3, <2>4, Kept
<1> QED
  BY <1>6, <1>7, <1>8, <1>9, <1>10, <1>11

-----------------------------------------------------------------------------
\* The steps of ClearOnlineIP, and time

\* ClearOnlineIP is called and has visited no address.
LEMMA CallClearStep ==
    ASSUME OneAtATime, IInv, Calls!CallClear, UNCHANGED Calls!limits
    PROVE  IInv' /\ Agrees
<1> USE DEF Calls!CallClear, Calls!Call, Calls!Goto, Calls!limits
<1>0. Cleaner \in Calls!Goroutines /\ Cleaner \notin Conns
      /\ \A h \in Calls!Goroutines : pc[h] \in Calls!Outside
  BY CallIsAlone DEF Calls!Goroutines, OneAtATime
<1>1. Alone(Cleaner)
  BY <1>0 DEF Alone, IInv, TypeInv
<1>2. Agrees
  BY <1>0, <1>1, OnTheWay DEF Calls!Outside
<1>3. before' = Tab(count, Row) /\ UNCHANGED <<count, Row>> /\ Row \in Rows
  BY TableIs DEF Row, IInv, TypeInv, Calls!Empty, Rows, OneAtATime
<1>4. Count0' = count /\ Row0' = Row
  BY <1>3 DEF Count0, Row0, Tab, OneAtATime
<1>5. TypeInv'
  BY <1>0, <1>3, <1>4 DEF IInv, TypeInv, Calls!ClearSteps
<1>6. pc'[Cleaner] = "clearVisit" /\ ips'[Cleaner] = ip /\ ip \in Maps /\ ip' = ip
  BY <1>0 DEF IInv, TypeInv
<1>7. ClearInv'
  BY <1>3, <1>4, <1>6 DEF ClearInv
<1> QED
  BY <1>0, <1>1, <1>2, <1>5, <1>7, Kept

\* Range over the addresses, and what comes after it.
LEMMA ClearStepsKeep ==
    ASSUME OneAtATime, IInv, UNCHANGED Calls!limits,
           (\E a \in IPs : Calls!ClearVisit(a)) \/ Calls!ClearDelete \/ Calls!ClearEnd \/ Calls!ClearDeleteMap
    PROVE  IInv' /\ Agrees
<1> USE DEF Calls!Goto, Calls!Return, Calls!limits
<1>0. /\ Cleaner \in Calls!Goroutines /\ Cleaner \notin Conns
      /\ pc[Cleaner] \in {"clearVisit", "clearDelete", "clearDeleteMap"}
  BY
     DEF Calls!Goroutines, OneAtATime, Calls!ClearVisit, Calls!ClearDelete, Calls!ClearEnd,
         Calls!ClearDeleteMap
<1>1. Alone(Cleaner)
  BY <1>0, BusyIsAlone
     DEF Alone, IInv, TypeInv, Calls!ClearVisit, Calls!ClearDelete, Calls!ClearEnd,
         Calls!ClearDeleteMap, Calls!Outside
<1>2. ClearInv /\ TypeInv /\ NoMap \notin Maps /\ pc[Cleaner] \in Calls!ClearSteps
  BY <1>0 DEF IInv, OneAtATime, Calls!ClearSteps
<1>3. ips[Cleaner] = ip /\ ip \in Maps /\ count = Count0 /\ Row = entries[ip] /\ Row \in Rows /\ Row0 \in Rows
  BY <1>2, RowIs DEF ClearInv, TypeInv
<1>4. UNCHANGED <<Row0, Count0, before, isTcp, count>>
  BY DEF Row0, Count0, Calls!ClearVisit, Calls!ClearDelete, Calls!ClearEnd, Calls!ClearDeleteMap
<1>5. Gone' = Gone /\ Swept(Row0)' = Swept(Row0) /\ Gone \in Int /\ Gone # 0
  BY <1>4 DEF Swept, Gone, Calls!Packet, Calls!Expired
<1> USE <1>0, <1>1, <1>2, <1>3, <1>4, <1>5
<1>6. ASSUME NEW a \in IPs, Calls!ClearVisit(a) PROVE IInv' /\ Agrees
  <2> USE <1>6 DEF Calls!ClearVisit
  <2>1. /\ \A b \in todo : Row[b] = Row0[b]
        /\ \A b \in IPs \ todo : Row[b] = Swept(Row0)[b] /\ (Row[b] # 0 => notDel)
    BY DEF ClearInv
  <2>2. ip' = ip /\ Row' = Row /\ a \in todo /\ todo \subseteq IPs
    BY DEF Row, TypeInv
  <2>3. entries[ips[Cleaner]][a] = Row0[a]
    BY <2>1, <2>2
  <2>4. notDel' = (notDel \/ (Row0[a] # 0 /\ Row0[a] # Gone))
    BY <2>3 DEF Gone
  <2>5. CASE Row0[a] = Gone
    <3>1. pc' = [pc EXCEPT ![Cleaner] = "clearDelete"] /\ src' = [src EXCEPT ![Cleaner] = a] /\ UNCHANGED todo
      BY <2>3, <2>5 DEF Gone
    <3>2. pc'[Cleaner] = "clearDelete" /\ src'[Cleaner] = a
      BY <3>1 DEF TypeInv
    <3>3. TypeInv'
      BY <2>2, <2>4, <3>1 DEF TypeInv, Calls!ClearSteps
    <3>4. Agrees
      BY <3>2, OnTheWay DEF Calls!Outside
    <3>5. ClearInv'
      <4>1. UNCHANGED <<Row, todo, Gone, Count0, Row0, count, ip, live, ips>> /\ (notDel => notDel')
        BY <2>2, <2>4, <3>1 DEF Gone, Count0, Row0, Calls!limits
      <4>2. \A b \in todo' : Row'[b] = Row0'[b]
        BY <2>1, <4>1
      <4>3. \A b \in IPs \ todo' : Row'[b] = Swept(Row0)[b] /\ (Row'[b] # 0 => notDel')
        BY <2>1, <4>1
      <4>4. Swept(Row0)' = Swept(Row0)
        BY <4>1 DEF Swept
      <4>5. src'[Cleaner] \in todo' /\ Row0'[src'[Cleaner]] = Gone'
        BY <2>2, <2>5, <3>2, <4>1
      <4> QED
        BY <2>1, <3>2, <4>1, <4>2, <4>3, <4>4, <4>5 DEF ClearInv, Calls!ClearSteps
    <3> QED
      BY <3>3, <3>4, <3>5, Kept
  <2>6. CASE Row0[a] # Gone
    <3>1. todo' = todo \ {a} /\ UNCHANGED <<pc, src>> /\ pc[Cleaner] = "clearVisit"
      BY <2>3, <2>6 DEF Gone
    <3>2. Swept(Row0)[a] = Row0[a]
      BY <2>6 DEF Swept, Rows
    <3>3. TypeInv'
      BY <2>2, <2>4, <3>1 DEF TypeInv
    <3>4. Agrees
      BY <3>1, OnTheWay DEF Calls!Outside
    <3>5. ClearInv'
      <4>1. UNCHANGED <<Row, Gone, Count0, Row0, count, ip, live, ips>> /\ (notDel => notDel')
        BY <2>2, <2>4, <3>1 DEF Gone, Count0, Row0, Calls!limits
      <4>2. \A b \in todo' : Row'[b] = Row0'[b]
        BY <2>1, <3>1, <4>1
      <4>3. \A b \in IPs \ todo' : Row'[b] = Swept(Row0)[b] /\ (Row'[b] # 0 => notDel')
        <5>1. Row[a] = Swept(Row0)[a] /\ (Row[a] # 0 => notDel')
          BY <2>1, <2>2, <2>4, <2>6, <3>2
        <5> QED
          BY <2>1, <3>1, <4>1, <5>1
      <4>4. Swept(Row0)' = Swept(Row0)
        BY <4>1 DEF Swept
      <4>5. pc'[Cleaner] = "clearVisit"
        BY <3>1
      <4> QED
        BY <4>1, <4>2, <4>3, <4>4, <4>5 DEF ClearInv, Calls!ClearSteps
    <3> QED
      BY <3>3, <3>4, <3>5, Kept
  <2> QED
    BY <2>5, <2>6
<1>7. CASE Calls!ClearDelete
  <2> USE <1>7 DEF Calls!ClearDelete
  <2> DEFINE a == src[Cleaner]
  <2>1. /\ \A b \in todo : Row[b] = Row0[b]
        /\ \A b \in IPs \ todo : Row[b] = Swept(Row0)[b] /\ (Row[b] # 0 => notDel)
        /\ a \in todo /\ Row0[a] = Gone
    BY DEF ClearInv
  <2>2. entries' = [entries EXCEPT ![ip][a] = 0] /\ todo' = todo \ {a} /\ a \in IPs
    BY <2>1 DEF TypeInv
  <2>3. pc'[Cleaner] = "clearVisit"
    BY DEF TypeInv
  <2> HIDE DEF a
  <2>4. Row' = [Row EXCEPT ![a] = 0] /\ entries' \in [Maps -> Rows] /\ ip' = ip
    <3>1. 0 \in Int /\ ip' = ip
      OBVIOUS
    <3> QED
      BY <2>2, <3>1, RowBecomes
  <2>5. Swept(Row0)[a] = 0
    BY <2>1, <2>2 DEF Swept
  <2>6. TypeInv'
    BY <2>2, <2>4 DEF TypeInv, Calls!ClearSteps
  <2>7. Agrees
    BY <2>3, OnTheWay DEF Calls!Outside
  <2>8. ClearInv'
    <3>1. \A b \in IPs : Row'[b] = IF b = a THEN 0 ELSE Row[b]
      BY <2>4 DEF Rows
    <3>2. \A b \in todo' : Row'[b] = Row0[b]
      BY <2>1, <2>2, <3>1 DEF TypeInv
    <3>3. \A b \in IPs \ todo' : Row'[b] = Swept(Row0)[b] /\ (Row'[b] # 0 => notDel)
      BY <2>1, <2>2, <2>5, <3>1
    <3> QED
      BY <2>3, <2>4, <3>2, <3>3 DEF ClearInv, Calls!ClearSteps
  <2> QED
    BY <2>6, <2>7, <2>8, Kept
<1>8. CASE Calls!ClearEnd
  <2> USE <1>8 DEF Calls!ClearEnd
  <2>1. /\ \A b \in IPs : Row[b] = Swept(Row0)[b] /\ (Row[b] # 0 => notDel)
        /\ ip' = ip /\ Row' = Row
    BY DEF ClearInv, Row
  <2>2. Row = Swept(Row0)
    BY <2>1 DEF Rows, Swept
  <2>3. CASE ~notDel \/ Row = Calls!Empty
    <3>1. pc' = [pc EXCEPT ![Cleaner] = "clearDeleteMap"] /\ UNCHANGED <<loaded, ips>>
      BY <2>3
    <3>2. pc'[Cleaner] = "clearDeleteMap"
      BY <3>1 DEF TypeInv
    <3>3. Row = Calls!Empty
      BY <2>1, <2>3 DEF Calls!Empty, Rows
    <3>4. TypeInv'
      BY <3>1 DEF TypeInv, Calls!ClearSteps
    <3>5. Agrees
      BY <3>2, OnTheWay DEF Calls!Outside
    <3>6. ClearInv'
      BY <2>1, <2>2, <3>1, <3>2, <3>3 DEF ClearInv, Calls!ClearSteps, Calls!Empty
    <3> QED
      BY <3>4, <3>5, <3>6, Kept
  <2>4. CASE ~(~notDel \/ Row = Calls!Empty)
    <3>1. Calls!Return(Cleaner, "idle")
      BY <2>4
    <3>2. pc'[Cleaner] = "idle"
      BY <3>1 DEF TypeInv
    <3>3. TypeInv'
      BY <3>1 DEF TypeInv, Calls!Outside
    <3>4. Agrees
      BY <2>1, <2>2, ClearReturns
    <3>5. ClearInv'
      BY <3>2 DEF ClearInv, Calls!ClearSteps
    <3> QED
      BY <3>3, <3>4, <3>5, Kept
  <2> QED
    BY <2>3, <2>4
<1>9. CASE Calls!ClearDeleteMap
  <2> USE <1>9 DEF Calls!ClearDeleteMap
  <2>1. pc'[Cleaner] = "idle" /\ Row' = Calls!Empty /\ Row = Calls!Empty /\ Row = Swept(Row0)
    BY DEF TypeInv, ClearInv, Row, Calls!Empty
  <2>2. TypeInv'
    BY DEF TypeInv, Calls!Outside
  <2>3. Agrees
    BY <2>1, ClearReturns
  <2>4. ClearInv'
    BY <2>1 DEF ClearInv, Calls!ClearSteps
  <2> QED
    BY <2>2, <2>3, <2>4, Kept
<1> QED
  BY <1>6, <1>7, <1>8, <1>9

\* Time passes between the calls.
LEMMA AgeStep ==
    ASSUME OneAtATime, IInv, NEW a \in IPs, Calls!Age(a), UNCHANGED Calls!limits
    PROVE  IInv' /\ Agrees
<1> USE DEF Calls!Age, Calls!locals, Calls!limits
<1>1. \A g \in Calls!Goroutines : pc[g] \in Calls!Outside
  BY DEF Calls!Busy
<1>2. UNCHANGED <<pc, src, isTcp, loaded, ips, before, ip, count>>
  OBVIOUS
<1>3. entries' \in [Maps -> Rows]
  <2>1. ip \in Maps /\ Calls!Expired \in Int /\ NoMap \notin Maps
    BY DEF IInv, TypeInv, OneAtATime, Calls!Expired
  <2> QED
    BY <2>1, RowBecomes DEF IInv
<1>4. TypeInv'
  BY <1>2, <1>3 DEF IInv, TypeInv, Count0, Row0
<1>5. OneCall' /\ ClearInv'
  BY <1>1, <1>2 DEF OneCall, ClearInv, Calls!Outside, Calls!ClearSteps, Calls!Goroutines
<1>6. ASSUME NEW c \in Conns PROVE AddInv(c)' /\ DelInv(c)'
  <2>1. pc'[c] \in Calls!Outside /\ UNCHANGED <<pc[c], src[c]>> /\ (pc[c] # "idle" => src[c] \in IPs)
    BY <1>1, <1>2 DEF Calls!Goroutines, IInv, AddInv
  <2> QED
    BY <2>1 DEF AddInv, DelInv, Calls!Outside
<1>7. Agrees
  BY <1>1, <1>2
     DEF Agrees, Calls!Returns, Calls!Outside, Calls!AddSteps, Calls!DelSteps, Calls!ClearSteps,
         Calls!Goroutines
<1> QED
  BY <1>4, <1>5, <1>6, <1>7 DEF IInv

\* There is no call at first.
LEMMA InitCalls == OneAtATime /\ Calls!Init => IInv
<1> SUFFICES ASSUME OneAtATime, Calls!Init PROVE IInv
  OBVIOUS
<1> USE DEF Calls!Init
<1>1. \A g \in Calls!Goroutines : pc[g] = "idle"
  OBVIOUS
<1>2. before = Tab(0, Calls!Empty) /\ Count0 = 0 /\ Row0 = Calls!Empty
  BY DEF Calls!NewConnLimiter, Tab, Calls!Empty, Count0, Row0, OneAtATime
<1>3. TypeInv
  <2>1. connMax \in Nat /\ ipMax \in Nat /\ live \in BOOLEAN
    BY DEF OneAtATime
  <2>2. Calls!Empty \in Rows
    BY DEF Calls!Empty, Rows
  <2>3. entries \in [Maps -> Rows] /\ Count0 \in Nat /\ Row0 \in Rows /\ before = Tab(Count0, Row0)
    BY <1>2, <2>2
  <2>4. pc \in [Calls!Goroutines -> Calls!Outside \cup Calls!AddSteps \cup Calls!DelSteps \cup Calls!ClearSteps]
    BY DEF Calls!Outside
  <2>5. src \in [Calls!Goroutines -> IPs \cup {CHOOSE a \in IPs : TRUE}]
    <3> DEFINE a0 == CHOOSE a \in IPs : TRUE
    <3>1. src \in [Calls!Goroutines -> {a0}]
      OBVIOUS
    <3> HIDE DEF a0
    <3>2. src \in [Calls!Goroutines -> IPs \cup {a0}]
      BY <3>1
    <3> QED
      BY <3>2 DEF a0
  <2>6. /\ isTcp \in [Calls!Goroutines -> BOOLEAN]
        /\ loaded \in [Calls!Goroutines -> Int]
        /\ ips \in [Calls!Goroutines -> Maps \cup {NoMap}]
    OBVIOUS
  <2> QED
    BY <2>1, <2>3, <2>4, <2>5, <2>6 DEF TypeInv
<1>4. OneCall /\ ClearInv
  BY <1>1 DEF OneCall, ClearInv, Calls!Outside, Calls!ClearSteps, Calls!Goroutines
<1>5. ASSUME NEW c \in Conns PROVE AddInv(c) /\ DelInv(c)
  BY <1>1 DEF AddInv, DelInv, Calls!Goroutines
<1> QED
  BY <1>3, <1>4, <1>5 DEF IInv

\* Every step preserves the invariant, and agrees with ConnCount.
LEMMA NextAgrees == OneAtATime /\ IInv /\ Calls!Next => IInv' /\ Agrees
<1> SUFFICES ASSUME OneAtATime, IInv, Calls!Next PROVE IInv' /\ Agrees
  OBVIOUS
<1>0. UNCHANGED Calls!limits
  BY DEF Calls!Next
<1>1. ASSUME NEW c \in Conns, Calls!Add(c) PROVE IInv' /\ Agrees
  <2>1. ASSUME NEW a \in IPs, NEW tcp \in BOOLEAN, Calls!CallAdd(c, a, tcp) PROVE IInv' /\ Agrees
    BY <1>0, <2>1, CallAddStep
  <2>2. CASE Calls!AddLoadCount(c) \/ Calls!AddStoreCount(c)
    BY <1>0, <2>2, AddCountSteps
  <2>3. CASE Calls!AddLoadMap(c) \/ Calls!AddLoadIP(c) \/ Calls!AddRange(c) \/ Calls!AddStoreIP(c)
    BY <1>0, <2>3, AddMapSteps
  <2> QED
    BY <1>1, <2>1, <2>2, <2>3 DEF Calls!Add
<1>2. ASSUME NEW c \in Conns, Calls!Del(c) PROVE IInv' /\ Agrees
  <2>1. CASE Calls!ClosePacket(c) \/ Calls!CallDel(c)
    BY <1>0, <2>1, CallDelStep
  <2>2. CASE Calls!DelReturn(c) \/ Calls!DelLoadCount(c) \/ Calls!DelStoreCount(c)
    BY <1>0, <2>2, DelCountSteps
  <2>3. CASE Calls!DelLoadMap(c) \/ Calls!DelLoadIP(c) \/ Calls!DelStoreIP(c) \/ Calls!DelEmpty(c) \/ Calls!DelDeleteMap(c)
    BY <1>0, <2>3, DelMapSteps
  <2> QED
    BY <1>2, <2>1, <2>2, <2>3 DEF Calls!Del
<1>3. CASE Calls!Clear
  BY <1>0, <1>3, CallClearStep, ClearStepsKeep DEF Calls!Clear
<1>4. ASSUME NEW a \in IPs, Calls!Age(a) PROVE IInv' /\ Agrees
  BY <1>0, <1>4, AgeStep
<1> QED
  BY <1>1, <1>2, <1>3, <1>4 DEF Calls!Next

\* Nothing changes.
LEMMA Stutters == IInv /\ UNCHANGED Calls!vars => IInv'
<1> SUFFICES ASSUME IInv, UNCHANGED Calls!vars PROVE IInv'
  OBVIOUS
<1>1. UNCHANGED <<connMax, ipMax, live, count, ip, entries, pc, src, isTcp, loaded, ips, todo,
                  notDel, before>>
  BY DEF Calls!vars, Calls!limits, Calls!locals
<1>2. TypeInv' /\ OneCall'
  BY <1>1 DEF IInv, TypeInv, OneCall, Count0, Row0
<1>3. UNCHANGED <<Row, Row0, Count0, Gone, Calls!Empty>>
  BY <1>1 DEF Row, Row0, Count0, Gone, Calls!Empty
<1>4. Swept(Row0)' = Swept(Row0)
  BY <1>3 DEF Swept
<1>5. ClearInv'
  BY <1>1, <1>3, <1>4 DEF IInv, ClearInv
<1>6. ASSUME NEW c \in Conns PROVE AddInv(c)' /\ DelInv(c)'
  <2>1. AddInv(c) /\ DelInv(c)
    BY DEF IInv
  <2> QED
    BY <1>1, <1>3, <2>1 DEF AddInv, DelInv, Full, Up, Down, Crowded
<1> QED
  BY <1>2, <1>5, <1>6 DEF IInv

-----------------------------------------------------------------------------
\* The map accesses of calls that do not overlap add up to the operators of
\* ConnCount, for every kind of call, limit, mode and number of connections:
\* what Limiter and its proofs take for one step is what conn.go does.
THEOREM AccessesAddUp ==
    ASSUME OneAtATime
    PROVE  Calls!Spec => Calls!CallsAgree
<1>1. IInv /\ [Calls!Next]_(Calls!vars) => IInv'
  BY OneAtATime, NextAgrees, Stutters
<1>2. IInv /\ [Calls!Next]_(Calls!vars) => [Agrees]_(Calls!vars)
  BY OneAtATime, NextAgrees
<1>3. Calls!Init => IInv
  BY OneAtATime, InitCalls
<1>4. Calls!Spec => [][Agrees]_(Calls!vars)
  BY <1>1, <1>2, <1>3, PTL DEF Calls!Spec
<1> QED
  BY <1>4 DEF Agrees, Calls!CallsAgree

-----------------------------------------------------------------------------
\* Calls that overlap, as many as like

\* The steps between a load of the count and its store.
CountSteps == {"addLoadCount", "addStoreCount", "delLoadCount", "delStoreCount"}

\* What AddConnCount has loaded leaves room for one more, and what DelConnCount
\* has loaded was there to be taken back, whatever has been stored since.
CountInv ==
    /\ connMax \in Nat /\ count \in Nat
    /\ pc = [g \in Calls!Goroutines |-> pc[g]] /\ loaded = [g \in Calls!Goroutines |-> loaded[g]]
    /\ connMax # 0 => count <= connMax
    /\ \A c \in Conns :
         /\ pc[c] \in CountSteps => connMax # 0
         /\ pc[c] = "addStoreCount" => loaded[c] \in Nat /\ loaded[c] < connMax
         /\ pc[c] = "delStoreCount" => loaded[c] \in Nat \ {0} /\ loaded[c] <= connMax

\* A goroutine that goes to a step without the count leaves it as it is.
LEMMA OffTheCount ==
    ASSUME CountInv, UNCHANGED <<connMax, count>>, NEW g \in Calls!Goroutines, NEW l, l \notin CountSteps,
           pc' = [pc EXCEPT ![g] = l], NEW v, loaded' = [loaded EXCEPT ![g] = v]
    PROVE  CountInv'
<1>1. DOMAIN pc' = Calls!Goroutines /\ DOMAIN loaded' = Calls!Goroutines /\ pc'[g] = l
  BY DEF CountInv
<1>2. \A h \in Calls!Goroutines \ {g} : pc'[h] = pc[h] /\ loaded'[h] = loaded[h]
  BY DEF CountInv
<1>3. ASSUME NEW c \in Conns
      PROVE  /\ pc'[c] \in CountSteps => connMax # 0
             /\ pc'[c] = "addStoreCount" => loaded'[c] \in Nat /\ loaded'[c] < connMax
             /\ pc'[c] = "delStoreCount" => loaded'[c] \in Nat \ {0} /\ loaded'[c] <= connMax
  <2>1. CASE c = g
    BY <1>1, <2>1 DEF CountSteps
  <2>2. CASE c # g
    BY <1>2, <2>2 DEF CountInv, Calls!Goroutines
  <2> QED
    BY <2>1, <2>2
<1> QED
  BY <1>1, <1>3 DEF CountInv, CountSteps, Calls!Goroutines

\* A goroutine that goes to a step on the count brings what that needs.
LEMMA OnTheCount ==
    ASSUME CountInv, connMax' = connMax, NEW c \in Conns, NEW l, pc' = [pc EXCEPT ![c] = l],
           NEW v, loaded' = [loaded EXCEPT ![c] = v], connMax # 0,
           count' \in Nat, count' <= connMax,
           l = "addStoreCount" => v \in Nat /\ v < connMax,
           l = "delStoreCount" => v \in Nat \ {0} /\ v <= connMax
    PROVE  CountInv'
<1>1. /\ DOMAIN pc' = Calls!Goroutines /\ DOMAIN loaded' = Calls!Goroutines
      /\ pc'[c] = l /\ loaded'[c] = v
  BY DEF CountInv, Calls!Goroutines
<1>2. \A h \in Calls!Goroutines \ {c} : pc'[h] = pc[h] /\ loaded'[h] = loaded[h]
  BY DEF CountInv
<1>3. ASSUME NEW d \in Conns
      PROVE  /\ pc'[d] = "addStoreCount" => loaded'[d] \in Nat /\ loaded'[d] < connMax
             /\ pc'[d] = "delStoreCount" => loaded'[d] \in Nat \ {0} /\ loaded'[d] <= connMax
  <2>1. CASE d = c
    BY <1>1, <2>1
  <2>2. CASE d # c
    BY <1>2, <2>2 DEF CountInv, Calls!Goroutines
  <2> QED
    BY <2>1, <2>2
<1> QED
  BY <1>1, <1>3 DEF CountInv, Calls!Goroutines

\* Every step of any goroutine preserves it.
LEMMA CountStep == CountInv /\ [Calls!Next]_(Calls!vars) => CountInv'
<1> SUFFICES ASSUME CountInv, [Calls!Next]_(Calls!vars) PROVE CountInv'
  OBVIOUS
<1> DEFINE Off(g) == /\ UNCHANGED <<connMax, count>>
                     /\ \E l : l \notin CountSteps /\ pc' = [pc EXCEPT ![g] = l]
                     /\ \E v : loaded' = [loaded EXCEPT ![g] = v]
<1>1. ASSUME NEW g \in Calls!Goroutines, Off(g) PROVE CountInv'
  BY <1>1, OffTheCount
<1>2. \A g \in Calls!Goroutines : loaded = [loaded EXCEPT ![g] = loaded[g]] /\ pc = [pc EXCEPT ![g] = pc[g]]
  BY DEF CountInv
<1>3. connMax \in Nat /\ count \in Nat /\ (connMax # 0 => count <= connMax)
  BY DEF CountInv
<1>4. CASE UNCHANGED Calls!vars
  BY <1>4 DEF CountInv, Calls!vars, Calls!limits, Calls!locals
<1>5. ASSUME Calls!Next, UNCHANGED Calls!limits PROVE CountInv'
  <2> USE DEF Calls!limits, Calls!Goto, Calls!Return, Calls!Call
  <2>1. ASSUME NEW c \in Conns, Calls!Add(c) PROVE CountInv'
    <3>0. c \in Calls!Goroutines
      BY DEF Calls!Goroutines
    <3>1. ASSUME NEW a \in IPs, NEW tcp \in BOOLEAN, Calls!CallAdd(c, a, tcp) PROVE CountInv'
      <4> USE <1>5, <3>1 DEF Calls!CallAdd
      <4>1. CASE connMax # 0
        <5> DEFINE v == loaded[c]  l == "addLoadCount"
        <5>1. /\ pc' = [pc EXCEPT ![c] = l] /\ loaded' = [loaded EXCEPT ![c] = v]
              /\ connMax' = connMax /\ count' \in Nat /\ count' <= connMax
              /\ l # "addStoreCount" /\ l # "delStoreCount"
          BY <1>2, <1>3, <3>0, <4>1
        <5> HIDE DEF v, l
        <5> QED
          BY <4>1, <5>1, OnTheCount
      <4>2. CASE connMax = 0
        <5>1. Off(c)
          BY <1>2, <3>0, <4>2 DEF CountSteps
        <5> QED
          BY <1>1, <3>0, <5>1
      <4> QED
        BY <4>1, <4>2
    <3>2. CASE Calls!AddLoadCount(c)
      <4> USE <1>5, <3>2 DEF Calls!AddLoadCount
      <4>1. CASE count # 0 /\ count >= connMax
        <5>1. Off(c)
          BY <4>1 DEF CountSteps
        <5> QED
          BY <1>1, <3>0, <5>1
      <4>2. CASE ~(count # 0 /\ count >= connMax)
        <5>1. connMax # 0 /\ count < connMax
          BY <1>3, <4>2 DEF CountInv, CountSteps
        <5> QED
          BY <1>3, <4>2, <5>1, OnTheCount
      <4> QED
        BY <4>1, <4>2
    <3>3. CASE Calls!AddStoreCount(c)
      <4>1. loaded[c] \in Nat /\ loaded[c] < connMax /\ connMax # 0
        BY <3>3 DEF Calls!AddStoreCount, CountInv, CountSteps
      <4>2. count' = loaded[c] + 1 /\ pc' = [pc EXCEPT ![c] = "addLoadMap"] /\ loaded' = loaded /\ connMax' = connMax
        BY <1>5, <3>3 DEF Calls!AddStoreCount
      <4> DEFINE v == loaded[c]  l == "addLoadMap"
      <4>3. /\ count' \in Nat /\ count' <= connMax /\ loaded' = [loaded EXCEPT ![c] = v]
            /\ pc' = [pc EXCEPT ![c] = l] /\ l # "addStoreCount" /\ l # "delStoreCount"
        BY <1>2, <1>3, <3>0, <4>1, <4>2
      <4> HIDE DEF v, l
      <4> QED
        BY <4>1, <4>2, <4>3, OnTheCount
    <3>4. CASE Calls!AddLoadMap(c) \/ Calls!AddLoadIP(c) \/ Calls!AddRange(c) \/ Calls!AddStoreIP(c)
      <4>1. Off(c)
        BY SMTT(30), <1>2, <1>5, <3>0, <3>4
           DEF Calls!AddLoadMap, Calls!AddLoadIP, Calls!AddRange, Calls!AddStoreIP, CountSteps
      <4> QED
        BY <1>1, <3>0, <4>1
    <3> QED
      BY <2>1, <3>1, <3>2, <3>3, <3>4 DEF Calls!Add
  <2>2. ASSUME NEW c \in Conns, Calls!Del(c) PROVE CountInv'
    <3>0. c \in Calls!Goroutines
      BY DEF Calls!Goroutines
    <3>1. CASE Calls!CallDel(c)
      <4> USE <1>5, <3>1 DEF Calls!CallDel
      <4>1. CASE connMax # 0 /\ live
        <5> DEFINE v == loaded[c]  l == "delLoadCount"
        <5>1. /\ pc' = [pc EXCEPT ![c] = l] /\ loaded' = [loaded EXCEPT ![c] = v]
              /\ connMax' = connMax /\ count' \in Nat /\ count' <= connMax
              /\ l # "addStoreCount" /\ l # "delStoreCount"
          BY <1>2, <1>3, <3>0, <4>1
        <5> HIDE DEF v, l
        <5> QED
          BY <4>1, <5>1, OnTheCount
      <4>2. CASE ~(connMax # 0 /\ live)
        <5>1. Off(c)
          BY <1>2, <3>0, <4>2 DEF CountSteps
        <5> QED
          BY <1>1, <3>0, <5>1
      <4> QED
        BY <4>1, <4>2
    <3>2. CASE Calls!DelLoadCount(c)
      <4>1. connMax # 0
        BY <3>2 DEF Calls!DelLoadCount, CountInv, CountSteps
      <4> DEFINE l == IF count # 0 THEN "delStoreCount" ELSE IF ipMax # 0 THEN "delLoadMap" ELSE "return"
      <4>2. /\ pc' = [pc EXCEPT ![c] = l] /\ loaded' = [loaded EXCEPT ![c] = count]
            /\ connMax' = connMax /\ count' \in Nat /\ count' <= connMax
        BY <1>3, <1>5, <3>2, <4>1 DEF Calls!DelLoadCount
      <4>3. l # "addStoreCount" /\ (l = "delStoreCount" => count \in Nat \ {0} /\ count <= connMax)
        BY <1>3, <4>1
      <4> HIDE DEF l
      <4> QED
        BY <4>1, <4>2, <4>3, OnTheCount
    <3>3. CASE Calls!DelStoreCount(c)
      <4>1. loaded[c] \in Nat \ {0} /\ loaded[c] <= connMax /\ connMax # 0
        BY <3>3 DEF Calls!DelStoreCount, CountInv, CountSteps
      <4>2. /\ count' = loaded[c] - 1 /\ loaded' = loaded /\ connMax' = connMax
            /\ pc' = [pc EXCEPT ![c] = IF ipMax # 0 THEN "delLoadMap" ELSE "return"]
        BY <1>5, <3>3 DEF Calls!DelStoreCount
      <4>3. count' \in Nat /\ count' <= connMax /\ loaded' = [loaded EXCEPT ![c] = loaded[c]]
        BY <1>2, <1>3, <3>0, <4>1, <4>2
      <4> DEFINE l == IF ipMax # 0 THEN "delLoadMap" ELSE "return"
      <4>4. pc' = [pc EXCEPT ![c] = l] /\ l # "addStoreCount" /\ l # "delStoreCount"
        BY <4>2
      <4> HIDE DEF l
      <4> QED
        BY <4>1, <4>2, <4>3, <4>4, OnTheCount
    <3>4. CASE \/ Calls!ClosePacket(c) \/ Calls!DelReturn(c) \/ Calls!DelLoadMap(c) \/ Calls!DelLoadIP(c)
               \/ Calls!DelStoreIP(c) \/ Calls!DelEmpty(c) \/ Calls!DelDeleteMap(c)
      <4>1. Off(c)
        BY SMTT(30), <1>2, <1>5, <3>0, <3>4
           DEF Calls!ClosePacket, Calls!DelReturn, Calls!DelLoadMap, Calls!DelLoadIP,
               Calls!DelStoreIP, Calls!DelEmpty, Calls!DelDeleteMap, CountSteps
      <4> QED
        BY <1>1, <3>0, <4>1
    <3> QED
      BY <2>2, <3>1, <3>2, <3>3, <3>4 DEF Calls!Del
  <2>3. CASE Calls!Clear
    <3>0. Cleaner \in Calls!Goroutines
      BY DEF Calls!Goroutines
    <3>1. CASE Calls!CallClear \/ Calls!ClearDelete \/ Calls!ClearEnd \/ Calls!ClearDeleteMap
      <4>1. Off(Cleaner)
        BY <1>2, <1>5, <3>0, <3>1
           DEF Calls!CallClear, Calls!ClearDelete, Calls!ClearEnd, Calls!ClearDeleteMap, CountSteps
      <4> QED
        BY <1>1, <3>0, <4>1
    <3>2. ASSUME NEW a \in IPs, Calls!ClearVisit(a) PROVE CountInv'
      <4>1. Off(Cleaner)
        BY <1>2, <1>5, <3>0, <3>2 DEF Calls!ClearVisit, CountSteps
      <4> QED
        BY <1>1, <3>0, <4>1
    <3> QED
      BY <2>3, <3>1, <3>2 DEF Calls!Clear
  <2>4. ASSUME NEW a \in IPs, Calls!Age(a) PROVE CountInv'
    BY <1>5, <2>4 DEF Calls!Age, Calls!locals, CountInv
  <2> QED
    BY <1>5, <2>1, <2>2, <2>3, <2>4 DEF Calls!Next
<1> HIDE DEF Off
<1> QED
  BY <1>4, <1>5 DEF Calls!Next

\* The count of a user is a number up to ConnLimit, however many calls overlap:
\* an update that is lost, or stored late, cannot take it below zero or leave a
\* user more on record than the limit.  (That it is the number of open
\* connections, and so bounds them, takes calls that do not overlap.)
THEOREM CountStaysInRange ==
    ASSUME ConnLimits \subseteq Nat
    PROVE  Calls!Spec => [](count \in Nat /\ (connMax # 0 => count <= connMax))
<1>1. Calls!Init => CountInv
  BY DEF Calls!Init, CountInv, CountSteps, Calls!Goroutines
<1>2. CountInv => count \in Nat /\ (connMax # 0 => count <= connMax)
  BY DEF CountInv
<1> QED
  BY <1>1, <1>2, CountStep, PTL DEF Calls!Spec

-----------------------------------------------------------------------------
\* What calls that do not overlap have on record

\* The TCP connections that the table stands for: those that are open, and one
\* that DelConnCount is taking back.
Standing == {c \in Conns : isTcp[c] /\ (pc[c] = "open" \/ pc[c] \in Calls!DelSteps)}

From(O, s, a) == {c \in O : s[c] = a}

\* What a table has of connections O with sources s: they are counted, and with
\* a limit of addresses there are two for each at its address and at most one
\* for packet traffic.
Records(n, r, O, s) ==
    /\ connMax # 0 => Cardinality(O) <= n /\ n <= connMax
    /\ \A a \in IPs : r[a] >= 0
    /\ live /\ ipMax # 0 => \A a \in IPs : LET k == 2 * Cardinality(From(O, s, a))
                                           IN r[a] = k \/ r[a] = k + 1

\* The table that the call under way has begun with, or that of the last.
NoCall   == \A g \in Calls!Goroutines : pc[g] \in Calls!Outside
CountNow == IF NoCall THEN count ELSE Count0
RowNow   == IF NoCall THEN Row ELSE Row0

RecordInv ==
    /\ \A c \in Conns : pc[c] \in Calls!Outside \cup Calls!AddSteps \cup Calls!DelSteps
    /\ pc[Cleaner] \in {"idle"} \cup Calls!ClearSteps
    /\ \A c \in Conns : pc[c] \in Calls!DelSteps => isTcp[c]
    /\ Records(CountNow, RowNow, Standing, src)

\* Nothing has been recorded at first.
LEMMA NothingRecorded == OneAtATime /\ Calls!Init => RecordInv
<1> SUFFICES ASSUME OneAtATime, Calls!Init PROVE RecordInv
  OBVIOUS
<1>1. \A g \in Calls!Goroutines : pc[g] = "idle"
  BY DEF Calls!Init
<1>2. Standing = {} /\ NoCall
  BY <1>1 DEF Standing, NoCall, Calls!DelSteps, Calls!Outside, Calls!Goroutines
<1>3. CountNow = 0 /\ RowNow = Calls!Empty /\ connMax \in Nat
  BY <1>2 DEF CountNow, RowNow, Row, Calls!Init, OneAtATime
<1>4. \A a \in IPs : RowNow[a] = 0
  BY <1>3 DEF Calls!Empty
<1>5. \A a \in IPs : From(Standing, src, a) = {}
  BY <1>2 DEF From
<1>6. Records(CountNow, RowNow, Standing, src)
  BY <1>2, <1>3, <1>4, <1>5, FS_EmptySet DEF Records
<1> QED
  BY <1>1, <1>6 DEF RecordInv, Calls!Goroutines, Calls!Outside, Calls!DelSteps

\* One connection more at an address, and one less.
OneMore(O, s, c) ==
    \A a : /\ Cardinality(O \cup {c}) = Cardinality(O) + 1 /\ Cardinality(O) \in Nat
           /\ Cardinality(From(O, s, a)) \in Nat
           /\ Cardinality(From(O \cup {c}, s, a)) =
                IF s[c] = a THEN Cardinality(From(O, s, a)) + 1 ELSE Cardinality(From(O, s, a))

\* A connection that joins others is one more of them, and of those at its
\* address.
LEMMA FromOneMore ==
    ASSUME IsFiniteSet(Conns), NEW O \in SUBSET Conns, NEW s, NEW c \in Conns \ O
    PROVE  OneMore(O, s, c)
<1> SUFFICES ASSUME NEW a
             PROVE  /\ Cardinality(O \cup {c}) = Cardinality(O) + 1 /\ Cardinality(O) \in Nat
                    /\ Cardinality(From(O, s, a)) \in Nat
                    /\ Cardinality(From(O \cup {c}, s, a)) =
                         IF s[c] = a THEN Cardinality(From(O, s, a)) + 1 ELSE Cardinality(From(O, s, a))
  BY DEF OneMore
<1>1. IsFiniteSet(O) /\ IsFiniteSet(From(O, s, a)) /\ c \notin From(O, s, a)
  BY FS_Subset DEF From
<1>2. From(O \cup {c}, s, a) = IF s[c] = a THEN From(O, s, a) \cup {c} ELSE From(O, s, a)
  BY DEF From
<1>3. /\ Cardinality(O \cup {c}) = Cardinality(O) + 1
      /\ Cardinality(From(O, s, a) \cup {c}) = Cardinality(From(O, s, a)) + 1
  BY <1>1, FS_AddElement
<1>4. Cardinality(O) \in Nat /\ Cardinality(From(O, s, a)) \in Nat
  BY <1>1, FS_CardinalityType
<1> QED
  BY <1>2, <1>3, <1>4

\* AddConnCount keeps the records, whether it refuses the connection or not.
LEMMA AddRecords ==
    ASSUME TypeInv, IsFiniteSet(Conns), NEW n \in Nat, NEW r \in Rows, NEW O \in SUBSET Conns, NEW s,
           Records(n, r, O, s), ~Full(n), NEW c \in Conns \ O, s[c] \in IPs, NEW tcp \in BOOLEAN
    PROVE  /\ Records(Up(n, tcp), r, O, s)
           /\ Records(Up(n, tcp), [r EXCEPT ![s[c]] = Calls!Touched(r[s[c]], tcp)],
                      IF tcp THEN O \cup {c} ELSE O, s)
<1>1. \A a : /\ Cardinality(O \cup {c}) = Cardinality(O) + 1 /\ Cardinality(O) \in Nat
             /\ Cardinality(From(O, s, a)) \in Nat
             /\ Cardinality(From(O \cup {c}, s, a)) =
                  IF s[c] = a THEN Cardinality(From(O, s, a)) + 1 ELSE Cardinality(From(O, s, a))
  <2>1. OneMore(O, s, c)
    BY FromOneMore
  <2> QED
    BY <2>1 DEF OneMore
<1>2. /\ connMax # 0 => /\ Cardinality(O) <= Up(n, tcp) /\ Up(n, tcp) <= connMax
                        /\ tcp => Cardinality(O \cup {c}) <= Up(n, tcp)
  <2>1. connMax # 0 => Cardinality(O) <= n /\ n <= connMax
    BY DEF Records
  <2>2. connMax \in Nat /\ Cardinality(O) \in Nat /\ Cardinality(O \cup {c}) = Cardinality(O) + 1
    BY <1>1 DEF TypeInv
  <2> QED
    BY <2>1, <2>2 DEF Up, Full
<1> DEFINE v == r[s[c]]
           w == Calls!Touched(v, tcp)
           q == [r EXCEPT ![s[c]] = w]
<1>3. v \in Int /\ v >= 0 /\ live \in BOOLEAN /\ \A a \in IPs : r[a] \in Int /\ r[a] >= 0
  BY DEF Records, Rows, TypeInv
<1>4. /\ w \in Int /\ w >= 0
      /\ live => w = IF tcp THEN v + 2 ELSE IF v = 0 THEN 1 ELSE v
  <2> HIDE DEF v
  <2> QED
    BY <1>3 DEF Calls!Touched, Calls!Tcp, Calls!Packet, Calls!Recent
<1>5. q[s[c]] = w /\ \A a \in IPs \ {s[c]} : q[a] = r[a]
  BY DEF Rows
<1> HIDE DEF v, w, q
<1>6. \A a \in IPs : q[a] >= 0
  BY <1>3, <1>4, <1>5
<1>7. ASSUME live, ipMax # 0, NEW a \in IPs
      PROVE  LET k == 2 * Cardinality(From(IF tcp THEN O \cup {c} ELSE O, s, a))
             IN q[a] = k \/ q[a] = k + 1
  <2> DEFINE k == Cardinality(From(O, s, a))
  <2>1. k \in Nat /\ (r[a] = 2 * k \/ r[a] = 2 * k + 1)
    BY <1>1, <1>7 DEF Records
  <2>2. Cardinality(From(IF tcp THEN O \cup {c} ELSE O, s, a)) = IF tcp /\ s[c] = a THEN k + 1 ELSE k
    BY <1>1
  <2> HIDE DEF k
  <2>3. CASE s[c] = a
    BY <1>4, <1>5, <1>7, <2>1, <2>2, <2>3 DEF v
  <2>4. CASE s[c] # a
    BY <1>5, <2>1, <2>2, <2>4
  <2> QED
    BY <2>3, <2>4
<1>8. Records(Up(n, tcp), r, O, s)
  BY <1>2 DEF Records
<1>9. Records(Up(n, tcp), q, IF tcp THEN O \cup {c} ELSE O, s)
  BY <1>2, <1>6, <1>7 DEF Records
<1> QED
  BY <1>8, <1>9 DEF q, w, v

\* DelConnCount keeps the records of the others.
LEMMA DelRecords ==
    ASSUME TypeInv, IsFiniteSet(Conns), NEW n \in Nat, NEW r \in Rows, NEW P \in SUBSET Conns, NEW s,
           NEW c \in Conns \ P, Records(n, r, P \cup {c}, s), s[c] \in IPs
    PROVE  LET q == IF live /\ ipMax # 0 /\ r[s[c]] # 0 THEN [r EXCEPT ![s[c]] = r[s[c]] - Calls!Tcp] ELSE r
           IN Records(IF live THEN Down(n) ELSE n, q, P, s)
<1> DEFINE O == P \cup {c}
           q == IF live /\ ipMax # 0 /\ r[s[c]] # 0 THEN [r EXCEPT ![s[c]] = r[s[c]] - Calls!Tcp] ELSE r
           m == IF live THEN Down(n) ELSE n
<1>1. \A a : /\ Cardinality(O) = Cardinality(P) + 1 /\ Cardinality(P) \in Nat
             /\ Cardinality(From(P, s, a)) \in Nat
             /\ Cardinality(From(O, s, a)) =
                  IF s[c] = a THEN Cardinality(From(P, s, a)) + 1 ELSE Cardinality(From(P, s, a))
  <2>1. OneMore(P, s, c)
    BY FromOneMore
  <2> QED
    BY <2>1 DEF OneMore
<1>2. Records(n, r, O, s)
  OBVIOUS
<1> HIDE DEF O
<1>3. connMax # 0 => Cardinality(P) <= m /\ m <= connMax
  <2>1. connMax # 0 => Cardinality(O) <= n /\ n <= connMax
    BY <1>2 DEF Records
  <2>2. connMax \in Nat /\ Cardinality(P) \in Nat /\ Cardinality(O) = Cardinality(P) + 1
    BY <1>1 DEF TypeInv
  <2> QED
    BY <2>1, <2>2 DEF Down
<1>4. \A a \in IPs : r[a] \in Int /\ r[a] >= 0
  BY <1>2 DEF Records, Rows
<1>5. CASE live /\ ipMax # 0
  <2>1. ASSUME NEW a \in IPs
        PROVE  q[a] >= 0 /\ LET k == 2 * Cardinality(From(P, s, a)) IN q[a] = k \/ q[a] = k + 1
    <3> DEFINE j == Cardinality(From(O, s, a))
               k == Cardinality(From(P, s, a))
    <3>1. k \in Nat /\ j = (IF s[c] = a THEN k + 1 ELSE k) /\ (r[a] = 2 * j \/ r[a] = 2 * j + 1)
      BY <1>1, <1>2, <1>5 DEF Records
    <3>2. s[c] # a => q[a] = r[a]
      BY DEF Rows
    <3>3. s[c] = a /\ r[a] # 0 => q[a] = r[a] - 2
      BY <1>5 DEF Rows, Calls!Tcp
    <3> HIDE DEF j, k, q
    <3>4. CASE s[c] = a
      BY <3>1, <3>3, <3>4 DEF k
    <3>5. CASE s[c] # a
      BY <1>4, <3>1, <3>2, <3>5 DEF k
    <3> QED
      BY <3>4, <3>5
  <2> HIDE DEF q, m
  <2>2. Records(m, q, P, s)
    BY <1>3, <2>1 DEF Records
  <2> QED
    BY <2>2 DEF q, m
<1>6. CASE ~(live /\ ipMax # 0)
  <2>1. q = r
    BY <1>6
  <2> HIDE DEF q, m
  <2>2. Records(m, q, P, s)
    BY <1>3, <1>4, <1>6, <2>1 DEF Records
  <2> QED
    BY <2>2 DEF q, m
<1> QED
  BY <1>5, <1>6

\* ClearOnlineIP takes nothing from an open connection.
LEMMA ClearRecords ==
    ASSUME TypeInv, IsFiniteSet(Conns), NEW n \in Nat, NEW r \in Rows, NEW O \in SUBSET Conns, NEW s,
           Records(n, r, O, s)
    PROVE  Records(n, Swept(r), O, s)
<1>1. \A a \in IPs : Swept(r)[a] = IF r[a] = Gone THEN 0 ELSE r[a]
  BY DEF Swept
<1>2. \A a \in IPs : r[a] \in Int /\ r[a] >= 0 /\ Swept(r)[a] >= 0
  BY <1>1 DEF Records, Rows
<1>3. ASSUME live, ipMax # 0, NEW a \in IPs
      PROVE  LET k == 2 * Cardinality(From(O, s, a)) IN Swept(r)[a] = k \/ Swept(r)[a] = k + 1
  <2> DEFINE k == Cardinality(From(O, s, a))
  <2>1. k \in Nat
    <3>1. IsFiniteSet(From(O, s, a))
      BY FS_Subset DEF From
    <3> QED
      BY <3>1, FS_CardinalityType
  <2>2. (r[a] = 2 * k \/ r[a] = 2 * k + 1) /\ Gone = 1
    BY <1>3 DEF Records, Gone, Calls!Packet
  <2> HIDE DEF k
  <2>3. Swept(r)[a] = 2 * k \/ Swept(r)[a] = 2 * k + 1
    BY <1>1, <2>1, <2>2
  <2> QED
    BY <2>3 DEF k
<1> HIDE DEF Swept
<1> QED
  BY <1>2, <1>3 DEF Records

\* A step within a call, up to its return.
Moves(g, steps) ==
    /\ pc[g] \in steps /\ pc'[g] \in steps \cup Calls!Outside /\ Alone(g)
    /\ UNCHANGED <<connMax, ipMax, live, before, isTcp>>
    /\ \A c \in Conns : src'[c] = src[c]

\* The steps of AddConnCount after the first.
LEMMA AddMoves ==
    ASSUME OneAtATime, IInv, UNCHANGED Calls!limits, NEW c \in Conns,
           \/ Calls!AddLoadCount(c) \/ Calls!AddStoreCount(c) \/ Calls!AddLoadMap(c)
           \/ Calls!AddLoadIP(c) \/ Calls!AddRange(c) \/ Calls!AddStoreIP(c)
    PROVE  Moves(c, Calls!AddSteps)
<1>1. c \in Calls!Goroutines /\ pc[c] \in Calls!AddSteps
  BY DEF Calls!Goroutines, Calls!AddSteps, Calls!AddLoadCount, Calls!AddStoreCount,
         Calls!AddLoadMap, Calls!AddLoadIP, Calls!AddRange, Calls!AddStoreIP
<1>2. \A h \in Calls!Goroutines \ {c} : pc[h] \in Calls!Outside
  BY <1>1, BusyIsAlone DEF Calls!Outside, Calls!AddSteps
<1>3. UNCHANGED <<connMax, ipMax, live, before, isTcp, src>>
  BY DEF Calls!limits, Calls!AddLoadCount, Calls!AddStoreCount,
         Calls!AddLoadMap, Calls!AddLoadIP, Calls!AddRange, Calls!AddStoreIP
<1>4. PICK l \in Calls!AddSteps \cup Calls!Outside : pc' = [pc EXCEPT ![c] = l]
  BY DEF Calls!AddSteps, Calls!Outside, Calls!Goto, Calls!Return, Calls!AddLoadCount, Calls!AddStoreCount,
         Calls!AddLoadMap, Calls!AddLoadIP, Calls!AddRange, Calls!AddStoreIP
<1>5. pc'[c] = l /\ \A h \in Calls!Goroutines \ {c} : pc'[h] = pc[h]
  BY <1>1, <1>4 DEF IInv, TypeInv
<1> QED
  BY <1>1, <1>2, <1>3, <1>5 DEF Moves, Alone

\* The steps of DelConnCount after the first.
LEMMA DelMoves ==
    ASSUME OneAtATime, IInv, UNCHANGED Calls!limits, NEW c \in Conns,
           \/ Calls!DelReturn(c) \/ Calls!DelLoadCount(c) \/ Calls!DelStoreCount(c) \/ Calls!DelLoadMap(c)
           \/ Calls!DelLoadIP(c) \/ Calls!DelStoreIP(c) \/ Calls!DelEmpty(c) \/ Calls!DelDeleteMap(c)
    PROVE  Moves(c, Calls!DelSteps) /\ pc'[c] # "open"
<1>1. c \in Calls!Goroutines /\ pc[c] \in Calls!DelSteps
  BY DEF Calls!Goroutines, Calls!DelSteps, Calls!DelReturn, Calls!DelLoadCount, Calls!DelStoreCount,
         Calls!DelLoadMap, Calls!DelLoadIP, Calls!DelStoreIP, Calls!DelEmpty, Calls!DelDeleteMap
<1>2. \A h \in Calls!Goroutines \ {c} : pc[h] \in Calls!Outside
  BY <1>1, BusyIsAlone DEF Calls!Outside, Calls!DelSteps
<1>3. UNCHANGED <<connMax, ipMax, live, before, isTcp, src>>
  BY DEF Calls!limits, Calls!DelReturn, Calls!DelLoadCount, Calls!DelStoreCount,
         Calls!DelLoadMap, Calls!DelLoadIP, Calls!DelStoreIP, Calls!DelEmpty, Calls!DelDeleteMap
<1>4. PICK l \in Calls!DelSteps \cup {"idle"} : pc' = [pc EXCEPT ![c] = l]
  BY DEF Calls!DelSteps, Calls!Goto, Calls!Return, Calls!DelReturn, Calls!DelLoadCount, Calls!DelStoreCount,
         Calls!DelLoadMap, Calls!DelLoadIP, Calls!DelStoreIP, Calls!DelEmpty, Calls!DelDeleteMap
<1>5. pc'[c] = l /\ \A h \in Calls!Goroutines \ {c} : pc'[h] = pc[h]
  BY <1>1, <1>4 DEF IInv, TypeInv
<1>6. l # "open" /\ l \in Calls!DelSteps \cup Calls!Outside
  BY <1>4 DEF Calls!DelSteps, Calls!Outside
<1> QED
  BY <1>1, <1>2, <1>3, <1>5, <1>6 DEF Moves, Alone

\* The steps of ClearOnlineIP after the first.
LEMMA ClearMoves ==
    ASSUME OneAtATime, IInv, UNCHANGED Calls!limits,
           Calls!ClearDelete \/ Calls!ClearEnd \/ Calls!ClearDeleteMap \/ \E a \in IPs : Calls!ClearVisit(a)
    PROVE  Moves(Cleaner, Calls!ClearSteps) /\ pc'[Cleaner] # "open"
<1>1. Cleaner \in Calls!Goroutines /\ pc[Cleaner] \in Calls!ClearSteps
  BY DEF Calls!Goroutines, Calls!ClearSteps, Calls!ClearDelete, Calls!ClearEnd, Calls!ClearDeleteMap,
         Calls!ClearVisit
<1>2. \A h \in Calls!Goroutines \ {Cleaner} : pc[h] \in Calls!Outside
  BY <1>1, BusyIsAlone DEF Calls!Outside, Calls!ClearSteps
<1>3. UNCHANGED <<connMax, ipMax, live, before, isTcp>>
  BY DEF Calls!limits, Calls!ClearDelete, Calls!ClearEnd, Calls!ClearDeleteMap, Calls!ClearVisit
<1>4. \A h \in Calls!Goroutines \ {Cleaner} : src'[h] = src[h]
  BY <1>1 DEF IInv, TypeInv, Calls!ClearDelete, Calls!ClearEnd, Calls!ClearDeleteMap, Calls!ClearVisit
<1>5. PICK l \in Calls!ClearSteps \cup {"idle"} : pc' = [pc EXCEPT ![Cleaner] = l]
  <2>1. pc = [pc EXCEPT ![Cleaner] = pc[Cleaner]]
    BY <1>1 DEF IInv, TypeInv
  <2> QED
    BY <1>1, <2>1
       DEF Calls!ClearSteps, Calls!Goto, Calls!Return, Calls!ClearDelete, Calls!ClearEnd,
           Calls!ClearDeleteMap, Calls!ClearVisit
<1>6. pc'[Cleaner] = l /\ \A h \in Calls!Goroutines \ {Cleaner} : pc'[h] = pc[h]
  BY <1>1, <1>5 DEF IInv, TypeInv
<1>7. l # "open" /\ l \in Calls!ClearSteps \cup Calls!Outside
  BY <1>5 DEF Calls!ClearSteps, Calls!Outside
<1>8. \A c \in Conns : src'[c] = src[c]
  BY <1>4 DEF OneAtATime, Calls!Goroutines
<1> QED
  BY <1>1, <1>2, <1>3, <1>4, <1>6, <1>7, <1>8 DEF Moves, Alone

\* A step that leaves what the table stands for keeps the records.
LEMMA RecordsStay ==
    ASSUME OneAtATime, RecordInv, UNCHANGED <<connMax, ipMax, live>>,
           NEW n, NEW r, NEW O, Records(n, r, O, src),
           CountNow' = n, RowNow' = r, Standing' = O, \A c \in O : src'[c] = src[c]
    PROVE  Records(CountNow, RowNow, Standing, src)'
<1>1. \A a : From(Standing', src', a) = From(O, src, a)
  BY DEF From
<1> QED
  BY <1>1 DEF Records

\* Within a call the others are outside, and what the table stands for is what
\* it stood for when the call began.
LEMMA WithinCall ==
    ASSUME OneAtATime, IInv, RecordInv, NEW g \in Calls!Goroutines, pc[g] \notin Calls!Outside
    PROVE  /\ ~NoCall /\ CountNow = Count0 /\ RowNow = Row0
           /\ Records(Count0, Row0, Standing, src)
           /\ \A c \in Conns \ {g} : c \in Standing <=> isTcp[c] /\ pc[c] = "open"
<1>1. ~NoCall
  BY DEF NoCall
<1>2. \A h \in Calls!Goroutines \ {g} : pc[h] \in Calls!Outside
  BY BusyIsAlone
<1>3. \A c \in Conns \ {g} : c \in Standing <=> isTcp[c] /\ pc[c] = "open"
  BY <1>2 DEF Standing, Calls!Outside, Calls!DelSteps, Calls!Goroutines
<1> QED
  BY <1>1, <1>3 DEF CountNow, RowNow, RecordInv

\* A step within a call of AddConnCount, the last one included.
LEMMA AddMoveKeeps ==
    ASSUME OneAtATime, IInv, RecordInv, Agrees, NEW c \in Conns, Moves(c, Calls!AddSteps)
    PROVE  RecordInv'
<1>1. /\ c \in Calls!Goroutines /\ pc[c] \in Calls!AddSteps /\ c # Cleaner /\ pc[c] \notin Calls!Outside
      /\ pc'[c] \in Calls!AddSteps \cup Calls!Outside /\ pc'[c] \notin Calls!DelSteps
  BY DEF Moves, Calls!Goroutines, Calls!AddSteps, Calls!DelSteps, Calls!Outside, OneAtATime
<1>2. /\ UNCHANGED <<connMax, ipMax, live, before, isTcp, Count0, Row0>> /\ \A d \in Conns : src'[d] = src[d]
      /\ \A h \in Calls!Goroutines \ {c} : pc[h] \in Calls!Outside /\ pc'[h] = pc[h]
  BY DEF Moves, Alone, Count0, Row0
<1>3. /\ Records(Count0, Row0, Standing, src) /\ c \notin Standing /\ Standing \in SUBSET Conns
      /\ \A d \in Conns \ {c} : d \in Standing' <=> d \in Standing
  <2>1. c \notin Standing /\ Standing \in SUBSET Conns
    BY <1>1 DEF Standing, Calls!AddSteps, Calls!DelSteps
  <2>2. \A d \in Conns \ {c} : pc'[d] = pc[d] /\ isTcp'[d] = isTcp[d]
    BY <1>2 DEF Calls!Goroutines
  <2>3. \A d \in Conns \ {c} : d \in Standing' <=> d \in Standing
    BY <2>2 DEF Standing
  <2> QED
    BY <1>1, <2>1, <2>3, WithinCall
<1>4. /\ \A d \in Conns : pc'[d] \in Calls!Outside \cup Calls!AddSteps \cup Calls!DelSteps
      /\ pc'[Cleaner] \in {"idle"} \cup Calls!ClearSteps
      /\ \A d \in Conns : pc'[d] \in Calls!DelSteps => isTcp'[d]
  BY <1>1, <1>2 DEF RecordInv, Calls!Goroutines
<1>5. CASE pc'[c] \in Calls!AddSteps
  <2>1. ~NoCall'
    BY <1>1, <1>5 DEF NoCall, Calls!AddSteps, Calls!Outside
  <2>2. c \notin Standing' /\ Standing' \subseteq Conns
    BY <1>5 DEF Standing, Calls!AddSteps, Calls!DelSteps
  <2>3. Standing' = Standing
    BY <1>3, <2>2
  <2>4. Records(CountNow, RowNow, Standing, src)'
    BY <1>2, <1>3, <2>1, <2>3, RecordsStay DEF CountNow, RowNow
  <2> QED
    BY <1>4, <2>4 DEF RecordInv
<1>6. CASE pc'[c] \in Calls!Outside
  <2>1. NoCall'
    BY <1>2, <1>6 DEF NoCall, Calls!Goroutines
  <2>2. CountNow' = count' /\ RowNow' = Row'
    BY <2>1 DEF CountNow, RowNow
  <2>3. /\ Count0 \in Nat /\ Row0 \in Rows /\ before = Tab(Count0, Row0) /\ isTcp[c] \in BOOLEAN
        /\ src[c] \in IPs /\ TypeInv /\ IsFiniteSet(Conns)
    BY <1>1 DEF IInv, TypeInv, AddInv, OneAtATime, Calls!AddSteps
  <2>4. /\ Calls!Table' = Calls!AddConnCount(before, user, src[c], isTcp[c])
        /\ pc'[c] = "open" <=> ~Calls!AddRefuses(before, user, src[c])
    BY <1>1, <1>6 DEF Agrees, Calls!Returns
  <2> DEFINE n   == Count0
             r   == Row0
             tcp == isTcp[c]
             a   == src[c]
  <2> HIDE DEF n, r, tcp, a
  <2>5. /\ n \in Nat /\ r \in Rows /\ before = Tab(n, r) /\ tcp \in BOOLEAN /\ a \in IPs
    BY <2>3 DEF n, r, tcp, a
  <2>6. /\ Tab(count', Row') = IF Full(n) THEN Tab(n, r)
                               ELSE IF Crowded(r, a) THEN Tab(Up(n, tcp), r)
                               ELSE Tab(Up(n, tcp), [r EXCEPT ![a] = Calls!Touched(r[a], tcp)])
        /\ pc'[c] = "open" <=> ~Full(n) /\ ~Crowded(r, a)
    <3>1. Calls!Table' = Tab(count', Row')
      BY TableIs
    <3>2. Calls!AddConnCount(Tab(n, r), user, a, tcp) =
            IF Full(n) THEN Tab(n, r)
            ELSE IF Crowded(r, a) THEN Tab(Up(n, tcp), r)
            ELSE Tab(Up(n, tcp), [r EXCEPT ![a] = Calls!Touched(r[a], tcp)])
      BY <2>5, TabAdd DEF OneAtATime
    <3>3. Calls!AddRefuses(Tab(n, r), user, a) <=> Full(n) \/ Crowded(r, a)
      BY <2>5, TabLimits DEF Calls!AddRefuses, OneAtATime
    <3> QED
      BY <2>4, <2>5, <3>1, <3>2, <3>3 DEF tcp, a
  <2>7. \A m, q : Tab(count', Row') = Tab(m, q) => count' = m /\ Row' = q
    BY DEF Tab
  <2>8. Standing' = IF pc'[c] = "open" /\ tcp THEN Standing \cup {c} ELSE Standing
    <3>1. c \in Standing' <=> pc'[c] = "open" /\ tcp
      BY <1>1, <1>2 DEF Standing, tcp
    <3>2. Standing' \subseteq Conns
      BY DEF Standing
    <3> QED
      BY <1>3, <3>1, <3>2
  <2>9. Records(n, r, Standing, src) /\ c \in Conns \ Standing
    BY <1>3 DEF n, r
  <2>10. CASE Full(n)
    <3>1. count' = n /\ Row' = r /\ Standing' = Standing
      BY <2>6, <2>7, <2>8, <2>10
    <3>2. Records(CountNow, RowNow, Standing, src)'
      BY <1>2, <1>3, <2>2, <2>9, <3>1, RecordsStay
    <3> QED
      BY <1>4, <3>2 DEF RecordInv
  <2>11. CASE ~Full(n) /\ Crowded(r, a)
    <3>1. count' = Up(n, tcp) /\ Row' = r /\ Standing' = Standing
      BY <2>6, <2>7, <2>8, <2>11
    <3>2. Records(Up(n, tcp), r, Standing, src)
      BY <1>3, <2>3, <2>5, <2>9, <2>11, AddRecords DEF a
    <3>3. Records(CountNow, RowNow, Standing, src)'
      BY <1>2, <1>3, <2>2, <3>1, <3>2, RecordsStay
    <3> QED
      BY <1>4, <3>3 DEF RecordInv
  <2>12. CASE ~Full(n) /\ ~Crowded(r, a)
    <3> DEFINE q == [r EXCEPT ![a] = Calls!Touched(r[a], tcp)]
               O == IF tcp THEN Standing \cup {c} ELSE Standing
    <3>1. count' = Up(n, tcp) /\ Row' = q /\ Standing' = O
      BY <2>6, <2>7, <2>8, <2>12
    <3>2. Records(Up(n, tcp), q, O, src)
      BY <1>3, <2>3, <2>5, <2>9, <2>12, AddRecords DEF a
    <3>3. \A d \in O : src'[d] = src[d]
      BY <1>2, <1>3
    <3> HIDE DEF q, O
    <3>4. Records(CountNow, RowNow, Standing, src)'
      BY <1>2, <2>2, <3>1, <3>2, <3>3, RecordsStay
    <3> QED
      BY <1>4, <3>4 DEF RecordInv
  <2> QED
    BY <2>10, <2>11, <2>12
<1> QED
  BY <1>1, <1>5, <1>6

\* A step within a call of DelConnCount.
LEMMA DelMoveKeeps ==
    ASSUME OneAtATime, IInv, RecordInv, Agrees, NEW c \in Conns, Moves(c, Calls!DelSteps), pc'[c] # "open"
    PROVE  RecordInv'
<1>1. /\ c \in Calls!Goroutines /\ pc[c] \in Calls!DelSteps /\ c # Cleaner /\ pc[c] \notin Calls!Outside
      /\ pc'[c] \in Calls!DelSteps \cup {"idle"}
  BY DEF Moves, Calls!Goroutines, Calls!AddSteps, Calls!DelSteps, Calls!Outside, OneAtATime
<1>2. /\ UNCHANGED <<connMax, ipMax, live, before, isTcp, Count0, Row0>> /\ \A d \in Conns : src'[d] = src[d]
      /\ \A h \in Calls!Goroutines \ {c} : pc[h] \in Calls!Outside /\ pc'[h] = pc[h]
  BY DEF Moves, Alone, Count0, Row0
<1>3. /\ Records(Count0, Row0, Standing, src) /\ c \in Standing /\ Standing \in SUBSET Conns
      /\ \A d \in Conns \ {c} : d \in Standing' <=> d \in Standing
  <2>1. c \in Standing /\ Standing \in SUBSET Conns
    BY <1>1 DEF Standing, RecordInv
  <2>2. \A d \in Conns \ {c} : pc'[d] = pc[d] /\ isTcp'[d] = isTcp[d]
    BY <1>2 DEF Calls!Goroutines
  <2>3. \A d \in Conns \ {c} : d \in Standing' <=> d \in Standing
    BY <2>2 DEF Standing
  <2> QED
    BY <1>1, <2>1, <2>3, WithinCall
<1>4. /\ \A d \in Conns : pc'[d] \in Calls!Outside \cup Calls!AddSteps \cup Calls!DelSteps
      /\ pc'[Cleaner] \in {"idle"} \cup Calls!ClearSteps
      /\ \A d \in Conns : pc'[d] \in Calls!DelSteps => isTcp'[d]
  BY <1>1, <1>2 DEF RecordInv, Calls!Goroutines, Calls!Outside
<1>5. CASE pc'[c] \in Calls!DelSteps
  <2>1. ~NoCall'
    BY <1>1, <1>5 DEF NoCall, Calls!DelSteps, Calls!Outside
  <2>2. c \in Standing' /\ Standing' \subseteq Conns
    BY <1>4, <1>5 DEF Standing
  <2>3. Standing' = Standing
    BY <1>3, <2>2
  <2>4. Records(CountNow, RowNow, Standing, src)'
    BY <1>2, <1>3, <2>1, <2>3, RecordsStay DEF CountNow, RowNow
  <2> QED
    BY <1>4, <2>4 DEF RecordInv
<1>6. CASE pc'[c] = "idle"
  <2>1. NoCall' /\ pc'[c] \in Calls!Outside
    BY <1>2, <1>6 DEF NoCall, Calls!Goroutines, Calls!Outside
  <2>2. CountNow' = count' /\ RowNow' = Row'
    BY <2>1 DEF CountNow, RowNow
  <2>3. /\ Count0 \in Nat /\ Row0 \in Rows /\ before = Tab(Count0, Row0)
        /\ src[c] \in IPs /\ TypeInv /\ IsFiniteSet(Conns)
    BY <1>1 DEF IInv, TypeInv, AddInv, OneAtATime, Calls!DelSteps
  <2>4. Calls!Table' = Calls!DelConnCount(before, user, src[c])
    BY <1>1, <2>1 DEF Agrees, Calls!Returns
  <2> DEFINE n == Count0
             r == Row0
             a == src[c]
             m == IF live THEN Down(n) ELSE n
             q == IF live /\ ipMax # 0 /\ r[a] # 0 THEN [r EXCEPT ![a] = r[a] - Calls!Tcp] ELSE r
             O == Standing \ {c}
  <2>5. /\ n \in Nat /\ r \in Rows /\ before = Tab(n, r) /\ a \in IPs
    BY <2>3
  <2>6. Records(n, r, Standing, src)
    BY <1>3
  <2>7. Records(m, q, O, src)
    <3>1. O \in SUBSET Conns /\ c \in Conns \ O /\ Standing = O \cup {c}
      BY <1>3
    <3> HIDE DEF n, r, O
    <3>2. Records(n, r, O \cup {c}, src)
      BY <2>6, <3>1
    <3> QED
      BY <2>3, <2>5, <3>1, <3>2, DelRecords
  <2>8. Tab(count', Row') = Tab(m, q)
    <3> HIDE DEF n, r, a
    <3>1. Calls!DelConnCount(Tab(n, r), user, a) =
            IF ~live THEN Tab(n, r)
            ELSE Tab(Down(n), IF ipMax # 0 /\ r[a] # 0 THEN [r EXCEPT ![a] = r[a] - Calls!Tcp] ELSE r)
      BY <2>5, TabDel DEF OneAtATime
    <3>2. Calls!DelConnCount(Tab(n, r), user, a) = Tab(m, q)
      BY <3>1
    <3>3. Calls!Table' = Tab(count', Row')
      BY TableIs
    <3> QED
      BY <2>4, <2>5, <3>2, <3>3 DEF a
  <2>9. Standing' = O
    <3>1. c \notin Standing' /\ Standing' \subseteq Conns
      BY <1>6 DEF Standing, Calls!DelSteps
    <3> QED
      BY <1>3, <3>1
  <2>10. \A d \in O : src'[d] = src[d]
    BY <1>2, <1>3
  <2> HIDE DEF m, q, O
  <2>11. count' = m /\ Row' = q
    BY <2>8 DEF Tab
  <2>12. Records(CountNow, RowNow, Standing, src)'
    BY <1>2, <2>2, <2>7, <2>9, <2>10, <2>11, RecordsStay
  <2> QED
    BY <1>4, <2>12 DEF RecordInv
<1> QED
  BY <1>1, <1>5, <1>6

\* A step within a call of ClearOnlineIP.
LEMMA ClearMoveKeeps ==
    ASSUME OneAtATime, IInv, RecordInv, Agrees, Moves(Cleaner, Calls!ClearSteps), pc'[Cleaner] # "open"
    PROVE  RecordInv'
<1>1. /\ Cleaner \in Calls!Goroutines /\ pc[Cleaner] \in Calls!ClearSteps /\ pc[Cleaner] \notin Calls!Outside
      /\ pc'[Cleaner] \in Calls!ClearSteps \cup {"idle"}
  BY DEF Moves, Calls!Goroutines, Calls!ClearSteps, Calls!Outside
<1>2. /\ UNCHANGED <<connMax, ipMax, live, before, isTcp, Count0, Row0>> /\ \A d \in Conns : src'[d] = src[d]
      /\ \A h \in Calls!Goroutines \ {Cleaner} : pc[h] \in Calls!Outside /\ pc'[h] = pc[h]
  BY DEF Moves, Alone, Count0, Row0
<1>3. \A d \in Conns : pc'[d] = pc[d] /\ isTcp'[d] = isTcp[d]
  BY <1>2 DEF Calls!Goroutines, OneAtATime
<1>4. /\ \A d \in Conns : pc'[d] \in Calls!Outside \cup Calls!AddSteps \cup Calls!DelSteps
      /\ pc'[Cleaner] \in {"idle"} \cup Calls!ClearSteps
      /\ \A d \in Conns : pc'[d] \in Calls!DelSteps => isTcp'[d]
  BY <1>1, <1>3 DEF RecordInv
<1>5. Standing' = Standing /\ Standing \in SUBSET Conns /\ Records(Count0, Row0, Standing, src)
  BY <1>1, <1>3, WithinCall DEF Standing
<1>6. CASE pc'[Cleaner] \in Calls!ClearSteps
  <2>1. ~NoCall'
    BY <1>1, <1>6 DEF NoCall, Calls!ClearSteps, Calls!Outside
  <2>2. Records(CountNow, RowNow, Standing, src)'
    BY <1>2, <1>5, <2>1, RecordsStay DEF CountNow, RowNow
  <2> QED
    BY <1>4, <2>2 DEF RecordInv
<1>7. CASE pc'[Cleaner] = "idle"
  <2>1. NoCall' /\ pc'[Cleaner] \in Calls!Outside
    BY <1>2, <1>7 DEF NoCall, Calls!Goroutines, Calls!Outside
  <2>2. CountNow' = count' /\ RowNow' = Row'
    BY <2>1 DEF CountNow, RowNow
  <2>3. /\ Count0 \in Nat /\ Row0 \in Rows /\ before = Tab(Count0, Row0) /\ TypeInv /\ IsFiniteSet(Conns)
    BY DEF IInv, TypeInv, OneAtATime
  <2>4. Calls!Table' = Calls!ClearOnlineIP(before)
    BY <1>1, <2>1 DEF Agrees, Calls!Returns
  <2> DEFINE n == Count0
             r == Row0
             q == Swept(r)
  <2>5. /\ n \in Nat /\ r \in Rows /\ before = Tab(n, r)
    BY <2>3
  <2>6. Records(n, q, Standing, src)
    BY <1>5, <2>3, ClearRecords
  <2>7. Tab(count', Row') = Tab(n, q)
    <3> HIDE DEF n, r, q
    <3>1. Calls!ClearOnlineIP(Tab(n, r)) = Tab(n, Swept(r))
      BY <2>5, TabClear DEF OneAtATime
    <3>2. Calls!Table' = Tab(count', Row')
      BY TableIs
    <3> QED
      BY <2>4, <2>5, <3>1, <3>2 DEF q
  <2>8. \A d \in Standing : src'[d] = src[d]
    BY <1>2, <1>5
  <2> HIDE DEF n, q
  <2>9. count' = n /\ Row' = q
    BY <2>7 DEF Tab
  <2>10. Records(CountNow, RowNow, Standing, src)'
    BY <1>2, <1>5, <2>2, <2>6, <2>8, <2>9, RecordsStay
  <2> QED
    BY <1>4, <2>10 DEF RecordInv
<1> QED
  BY <1>1, <1>6, <1>7

\* A call begins: what the table stands for is noted as it is.
LEMMA BeginKeeps ==
    ASSUME OneAtATime, IInv, RecordInv, UNCHANGED Calls!limits,
           \/ \E c \in Conns, a \in IPs, tcp \in BOOLEAN : Calls!CallAdd(c, a, tcp)
           \/ \E c \in Conns : Calls!CallDel(c)
           \/ Calls!CallClear
    PROVE  RecordInv'
<1>1. /\ NoCall /\ UNCHANGED <<connMax, ipMax, live, count>> /\ before' = Tab(count, Row)
  <2>1. Calls!Cardinality(Calls!Busy) < MaxBusy /\ before' = Calls!Table
    BY DEF Calls!CallAdd, Calls!CallDel, Calls!CallClear, Calls!Call
  <2> QED
    BY <2>1, CallIsAlone, TableIs
       DEF NoCall, Calls!limits, Calls!CallAdd, Calls!CallDel, Calls!CallClear
<1>2. Count0' = count /\ Row0' = Row
  BY <1>1 DEF Count0, Row0, Tab
<1>3. CountNow = count /\ RowNow = Row /\ Row' = Row
  <2>1. UNCHANGED <<ip, entries>>
    BY DEF Calls!CallAdd, Calls!CallDel, Calls!CallClear
  <2> QED
    BY <1>1, <2>1 DEF CountNow, RowNow, Row, Calls!Empty
<1>4. /\ \A g \in Calls!Goroutines : pc[g] \in Calls!Outside
      /\ \A c \in Conns : c \in Calls!Goroutines /\ c # Cleaner
      /\ Cleaner \in Calls!Goroutines
      /\ pc = [g \in Calls!Goroutines |-> pc[g]] /\ src = [g \in Calls!Goroutines |-> src[g]]
      /\ isTcp = [g \in Calls!Goroutines |-> isTcp[g]]
  BY <1>1 DEF NoCall, IInv, TypeInv, OneAtATime, Calls!Goroutines
<1>5. /\ \A c \in Conns : pc[c] \in Calls!Outside
      /\ pc[Cleaner] \in {"idle"} \cup Calls!ClearSteps
      /\ Standing = {c \in Conns : isTcp[c] /\ pc[c] = "open"}
  BY <1>4 DEF RecordInv, Standing, Calls!Outside, Calls!DelSteps
<1> DEFINE Marked == /\ \A c \in Conns : pc'[c] \in Calls!Outside \cup Calls!AddSteps \cup Calls!DelSteps
                     /\ pc'[Cleaner] \in {"idle"} \cup Calls!ClearSteps
                     /\ \A c \in Conns : pc'[c] \in Calls!DelSteps => isTcp'[c]
                     /\ Standing' = Standing /\ \A c \in Standing : src'[c] = src[c]
<1>6. ASSUME NEW c \in Conns, NEW a \in IPs, NEW tcp \in BOOLEAN, Calls!CallAdd(c, a, tcp)
      PROVE  Marked
  <2>1. /\ pc[c] = "idle" /\ src' = [src EXCEPT ![c] = a] /\ isTcp' = [isTcp EXCEPT ![c] = tcp]
        /\ pc' = [pc EXCEPT ![c] = IF connMax # 0 THEN "addLoadCount" ELSE "addLoadMap"]
    BY <1>6 DEF Calls!CallAdd, Calls!Call, Calls!Goto
  <2>2. pc'[c] \in Calls!AddSteps /\ pc'[c] \notin Calls!DelSteps /\ pc'[c] # "open"
    BY <1>4, <2>1 DEF Calls!AddSteps, Calls!DelSteps
  <2>3. \A h \in Calls!Goroutines \ {c} : pc'[h] = pc[h] /\ src'[h] = src[h] /\ isTcp'[h] = isTcp[h]
    BY <1>4, <2>1
  <2>4. c \notin Standing /\ \A d \in Standing : src'[d] = src[d]
    BY <1>4, <1>5, <2>1, <2>3
  <2>5. ASSUME NEW d \in Conns
        PROVE  /\ d \in Standing' <=> d \in Standing
               /\ pc'[d] \in Calls!Outside \cup Calls!AddSteps \cup Calls!DelSteps
               /\ pc'[d] \in Calls!DelSteps => isTcp'[d]
    <3>1. CASE d = c
      BY <2>2, <2>4, <3>1 DEF Standing
    <3>2. CASE d # c
      BY <1>4, <1>5, <2>3, <3>2 DEF Standing, Calls!Outside, Calls!DelSteps
    <3> QED
      BY <3>1, <3>2
  <2>6. Standing' = Standing
    BY <2>5 DEF Standing
  <2> QED
    BY <1>4, <1>5, <2>3, <2>4, <2>5, <2>6
<1>7. ASSUME NEW c \in Conns, Calls!CallDel(c)
      PROVE  Marked
  <2>1. pc[c] = "open" /\ isTcp[c] /\ src' = src /\ isTcp' = isTcp
    BY <1>7 DEF Calls!CallDel
  <2>2. PICK l \in {"return", "delLoadCount", "delLoadMap"} : pc' = [pc EXCEPT ![c] = l]
    BY <1>7 DEF Calls!CallDel, Calls!Call, Calls!Goto
  <2>3. pc'[c] \in Calls!DelSteps
    BY <1>4, <2>2 DEF Calls!DelSteps
  <2>4. \A h \in Calls!Goroutines \ {c} : pc'[h] = pc[h]
    BY <1>4, <2>2
  <2>5. ASSUME NEW d \in Conns
        PROVE  /\ d \in Standing' <=> d \in Standing
               /\ pc'[d] \in Calls!Outside \cup Calls!AddSteps \cup Calls!DelSteps
               /\ pc'[d] \in Calls!DelSteps => isTcp'[d]
    <3>1. CASE d = c
      BY <2>1, <2>3, <3>1 DEF Standing
    <3>2. CASE d # c
      BY <1>4, <1>5, <2>1, <2>4, <3>2 DEF Standing, Calls!Outside, Calls!DelSteps
    <3> QED
      BY <3>1, <3>2
  <2>6. Standing' = Standing
    BY <2>5 DEF Standing
  <2> QED
    BY <1>4, <1>5, <2>1, <2>4, <2>5, <2>6
<1>8. ASSUME Calls!CallClear
      PROVE  Marked
  <2>1. pc' = [pc EXCEPT ![Cleaner] = "clearVisit"] /\ src' = src /\ isTcp' = isTcp
    BY <1>8 DEF Calls!CallClear, Calls!Call, Calls!Goto
  <2>2. pc'[Cleaner] \in Calls!ClearSteps /\ \A c \in Conns : pc'[c] = pc[c]
    BY <1>4, <2>1 DEF Calls!ClearSteps
  <2>3. Standing' = Standing
    BY <2>1, <2>2 DEF Standing
  <2>4. ASSUME NEW c \in Conns
        PROVE  pc'[c] \in Calls!Outside /\ (pc'[c] \in Calls!DelSteps => isTcp'[c])
    BY <1>5, <2>1, <2>2 DEF RecordInv
  <2> QED
    BY <2>1, <2>2, <2>3, <2>4
<1> HIDE DEF Marked
<1>9. Marked
  BY <1>6, <1>7, <1>8
<1> USE DEF Marked
<1>10. ~NoCall'
  <2>1. (\E c \in Conns : pc'[c] \in Calls!AddSteps \cup Calls!DelSteps) \/ pc'[Cleaner] \in Calls!ClearSteps
    BY <1>4 DEF Calls!CallAdd, Calls!CallDel, Calls!CallClear, Calls!Call, Calls!Goto,
               Calls!AddSteps, Calls!DelSteps, Calls!ClearSteps
  <2> QED
    BY <1>4, <2>1 DEF NoCall, Calls!Outside, Calls!AddSteps, Calls!DelSteps, Calls!ClearSteps
<1>11. Records(count, Row, Standing, src)
  BY <1>3 DEF RecordInv
<1>12. CountNow' = count /\ RowNow' = Row
  BY <1>2, <1>10 DEF CountNow, RowNow
<1>13. Records(CountNow, RowNow, Standing, src)'
  BY <1>1, <1>9, <1>11, <1>12, RecordsStay
<1> QED
  BY <1>9, <1>13 DEF RecordInv

\* The steps outside of the calls: packet traffic ends, and time passes.
LEMMA OutsideKeeps ==
    ASSUME OneAtATime, IInv, RecordInv, UNCHANGED Calls!limits,
           \/ \E c \in Conns : Calls!ClosePacket(c)
           \/ \E a \in IPs : Calls!Age(a)
    PROVE  RecordInv'
<1>1. ASSUME NEW c \in Conns, Calls!ClosePacket(c)
      PROVE  RecordInv'
  <2>1. /\ pc[c] = "open" /\ ~isTcp[c] /\ pc' = [pc EXCEPT ![c] = "idle"]
        /\ UNCHANGED <<connMax, ipMax, live, count, ip, entries, src, isTcp, before>>
    BY <1>1 DEF Calls!ClosePacket, Calls!Goto, Calls!limits
  <2>2. c \in Calls!Goroutines /\ c # Cleaner /\ Cleaner \in Calls!Goroutines
    BY DEF Calls!Goroutines, OneAtATime
  <2>3. pc'[c] = "idle" /\ \A h \in Calls!Goroutines \ {c} : pc'[h] = pc[h]
    BY <2>1, <2>2 DEF IInv, TypeInv
  <2>4. NoCall' = NoCall
    BY <2>1, <2>2, <2>3 DEF NoCall, Calls!Outside
  <2>5. UNCHANGED <<Row, Row0, Count0>>
    BY <2>1 DEF Row, Row0, Count0, Calls!Empty
  <2>6. ASSUME NEW d \in Conns
        PROVE  /\ d \in Standing' <=> d \in Standing
               /\ pc'[d] \in Calls!Outside \cup Calls!AddSteps \cup Calls!DelSteps
               /\ pc'[d] \in Calls!DelSteps => isTcp'[d]
    <3>1. CASE d = c
      BY <2>1, <2>3, <3>1 DEF Standing, Calls!Outside, Calls!DelSteps
    <3>2. CASE d # c
      BY <2>1, <2>3, <3>2 DEF RecordInv, Standing, Calls!Goroutines
    <3> QED
      BY <3>1, <3>2
  <2>7. Standing' = Standing
    BY <2>6 DEF Standing
  <2>8. CountNow' = CountNow /\ RowNow' = RowNow
    BY <2>1, <2>4, <2>5 DEF CountNow, RowNow
  <2>9. Records(CountNow, RowNow, Standing, src)'
    <3>1. Records(CountNow, RowNow, Standing, src)
      BY DEF RecordInv
    <3> QED
      BY <2>1, <2>7, <2>8, <3>1, RecordsStay
  <2>10. pc'[Cleaner] = pc[Cleaner]
    BY <2>2, <2>3
  <2> QED
    BY <2>6, <2>9, <2>10 DEF RecordInv
<1>2. ASSUME NEW a \in IPs, Calls!Age(a)
      PROVE  RecordInv'
  <2>1. /\ ~live /\ ip \in Maps /\ entries[ip][a] = Calls!Recent
        /\ entries' = [entries EXCEPT ![ip][a] = Calls!Expired]
        /\ UNCHANGED <<connMax, ipMax, live, count, ip, pc, src, isTcp, before>>
        /\ \A g \in Calls!Goroutines : pc[g] \in Calls!Outside
    BY <1>2 DEF Calls!Age, Calls!locals, Calls!limits, Calls!Busy, IInv, TypeInv
  <2>2. NoCall /\ NoCall'
    BY <2>1 DEF NoCall
  <2>3. CountNow = count /\ CountNow' = count /\ RowNow = Row /\ RowNow' = Row'
    BY <2>1, <2>2 DEF CountNow, RowNow
  <2>4. Standing' = Standing
    BY <2>1 DEF Standing
  <2>5. Row' = [Row EXCEPT ![a] = 2] /\ Row \in Rows
    <3> DEFINE v == Calls!Expired
    <3>1. v = 2 /\ v \in Int /\ NoMap \notin Maps /\ TypeInv
      BY DEF Calls!Expired, OneAtATime, IInv
    <3>2. Row \in Rows
      BY <2>1, <3>1, RowIs
    <3> HIDE DEF v
    <3>3. entries' = [entries EXCEPT ![ip][a] = v] /\ UNCHANGED ip
      BY <2>1 DEF v
    <3>4. Row' = [Row EXCEPT ![a] = v]
      BY <2>1, <3>1, <3>3, RowBecomes
    <3> QED
      BY <3>1, <3>2, <3>4
  <2>6. \A b \in IPs : Row'[b] = IF b = a THEN 2 ELSE Row[b]
    BY <2>5 DEF Rows
  <2>7. Records(count, Row, Standing, src)
    BY <2>3 DEF RecordInv
  <2>8. Records(count, Row', Standing, src)
    BY <2>1, <2>6, <2>7 DEF Records
  <2>9. Records(CountNow, RowNow, Standing, src)'
    BY <2>1, <2>3, <2>4, <2>8 DEF Records, From
  <2> QED
    BY <2>1, <2>9 DEF RecordInv
<1> QED
  BY <1>1, <1>2

\* Every step keeps the records.
LEMMA NextRecords == OneAtATime /\ IInv /\ RecordInv /\ [Calls!Next]_(Calls!vars) => RecordInv'
<1> SUFFICES ASSUME OneAtATime, IInv, RecordInv, [Calls!Next]_(Calls!vars) PROVE RecordInv'
  OBVIOUS
<1>1. CASE Calls!Next
  <2>0. UNCHANGED Calls!limits /\ Agrees
    BY <1>1, NextAgrees DEF Calls!Next
  <2>1. ASSUME NEW c \in Conns, Calls!Add(c) PROVE RecordInv'
    <3>1. (\E a \in IPs, tcp \in BOOLEAN : Calls!CallAdd(c, a, tcp)) => RecordInv'
      BY <2>0, BeginKeeps
    <3>2. CASE \/ Calls!AddLoadCount(c) \/ Calls!AddStoreCount(c) \/ Calls!AddLoadMap(c)
               \/ Calls!AddLoadIP(c) \/ Calls!AddRange(c) \/ Calls!AddStoreIP(c)
      BY <2>0, <3>2, AddMoves, AddMoveKeeps
    <3> QED
      BY <2>1, <3>1, <3>2 DEF Calls!Add
  <2>2. ASSUME NEW c \in Conns, Calls!Del(c) PROVE RecordInv'
    <3>1. Calls!CallDel(c) => RecordInv'
      BY <2>0, BeginKeeps
    <3>2. Calls!ClosePacket(c) => RecordInv'
      BY <2>0, OutsideKeeps
    <3>3. CASE \/ Calls!DelReturn(c) \/ Calls!DelLoadCount(c) \/ Calls!DelStoreCount(c) \/ Calls!DelLoadMap(c)
               \/ Calls!DelLoadIP(c) \/ Calls!DelStoreIP(c) \/ Calls!DelEmpty(c) \/ Calls!DelDeleteMap(c)
      BY <2>0, <3>3, DelMoves, DelMoveKeeps
    <3> QED
      BY <2>2, <3>1, <3>2, <3>3 DEF Calls!Del
  <2>3. CASE Calls!Clear
    <3>1. Calls!CallClear => RecordInv'
      BY <2>0, BeginKeeps
    <3>2. CASE Calls!ClearDelete \/ Calls!ClearEnd \/ Calls!ClearDeleteMap \/ \E a \in IPs : Calls!ClearVisit(a)
      BY <2>0, <3>2, ClearMoves, ClearMoveKeeps
    <3> QED
      BY <2>3, <3>1, <3>2 DEF Calls!Clear
  <2>4. CASE \E a \in IPs : Calls!Age(a)
    BY <2>0, <2>4, OutsideKeeps
  <2> QED
    BY <1>1, <2>1, <2>2, <2>3, <2>4 DEF Calls!Next
<1>2. CASE UNCHANGED Calls!vars
  <2>1. UNCHANGED <<connMax, ipMax, live, count, ip, entries, pc, src, isTcp, before>>
    BY <1>2 DEF Calls!vars, Calls!limits, Calls!locals
  <2>2. UNCHANGED <<CountNow, RowNow, Standing>>
    BY <2>1 DEF CountNow, RowNow, Standing, NoCall, Row, Row0, Count0, Calls!Empty
  <2>3. Records(CountNow, RowNow, Standing, src)'
    <3>1. Records(CountNow, RowNow, Standing, src)
      BY DEF RecordInv
    <3> QED
      BY <2>1, <2>2, <3>1, RecordsStay
  <2> QED
    BY <2>1, <2>3 DEF RecordInv
<1> QED
  BY <1>1, <1>2

\* The open TCP connections of a user stay within ConnLimit, access by access of
\* the maps, for any number of connections and any limits, as long as calls do
\* not overlap.
THEOREM AccessesKeepConnLimit ==
    ASSUME OneAtATime
    PROVE  Calls!Spec => []Calls!EnforcesConnLimit
<1>1. IInv /\ [Calls!Next]_(Calls!vars) => IInv'
  BY OneAtATime, NextAgrees, Stutters
<1>2. IInv /\ RecordInv /\ [Calls!Next]_(Calls!vars) => RecordInv'
  BY OneAtATime, NextRecords
<1>3. Calls!Init => IInv /\ RecordInv
  BY OneAtATime, InitCalls, NothingRecorded
<1>4. IInv /\ RecordInv => Calls!EnforcesConnLimit
  <2> SUFFICES ASSUME IInv, RecordInv, connMax # 0
               PROVE  Cardinality({c \in Conns : pc[c] = "open" /\ isTcp[c]}) <= connMax
    BY SameCardinality DEF Calls!EnforcesConnLimit
  <2> DEFINE opened == {c \in Conns : pc[c] = "open" /\ isTcp[c]}
  <2>1. opened \subseteq Standing /\ Standing \subseteq Conns
    BY DEF Standing
  <2>2. IsFiniteSet(Standing) /\ IsFiniteSet(opened)
    BY <2>1, FS_Subset, OneAtATime DEF OneAtATime
  <2>3. /\ Cardinality(opened) <= Cardinality(Standing)
        /\ Cardinality(opened) \in Nat /\ Cardinality(Standing) \in Nat
    BY <2>1, <2>2, FS_Subset, FS_CardinalityType
  <2>4. Cardinality(Standing) <= CountNow /\ CountNow <= connMax
    BY DEF RecordInv, Records
  <2>5. CountNow \in Nat /\ connMax \in Nat
    BY DEF IInv, TypeInv, CountNow
  <2> QED
    BY <2>3, <2>4, <2>5
<1> QED
  BY <1>1, <1>2, <1>3, <1>4, PTL DEF Calls!Spec

\* A realtime limiter has nothing on record for an address of which every
\* connection has closed, but what stands for packet traffic and goes with the
\* next ClearOnlineIP; again access by access, of calls that do not overlap.
THEOREM AccessesDropClosed ==
    ASSUME OneAtATime
    PROVE  Calls!Spec => []Calls!ClosedIsDropped
<1>1. IInv /\ [Calls!Next]_(Calls!vars) => IInv'
  BY OneAtATime, NextAgrees, Stutters
<1>2. IInv /\ RecordInv /\ [Calls!Next]_(Calls!vars) => RecordInv'
  BY OneAtATime, NextRecords
<1>3. Calls!Init => IInv /\ RecordInv
  BY OneAtATime, InitCalls, NothingRecorded
<1>4. IInv /\ RecordInv => Calls!ClosedIsDropped
  <2> SUFFICES ASSUME IInv, RecordInv, live, ipMax # 0, \A c \in Conns : pc[c] = "idle", pc[Cleaner] = "idle",
                      NEW a \in IPs
               PROVE  Calls!Table.ip[user][a] \in {0, Calls!Packet}
    BY DEF Calls!ClosedIsDropped
  <2>1. NoCall /\ Standing = {}
    BY DEF NoCall, Standing, Calls!Goroutines, Calls!Outside, Calls!DelSteps
  <2>2. From(Standing, src, a) = {}
    BY <2>1 DEF From
  <2>3. RowNow[a] \in {0, 1}
    BY <2>2, FS_EmptySet DEF RecordInv, Records
  <2>4. Calls!Table.ip[user][a] = RowNow[a]
    BY <2>1, TableIs DEF Tab, RowNow
  <2> QED
    BY <2>3, <2>4 DEF Calls!Packet
<1> QED
  BY <1>1, <1>2, <1>3, <1>4, PTL DEF Calls!Spec

-----------------------------------------------------------------------------
\* The steps at which a call may have emptied the inner map and not taken it away.
Emptying == {"delEmpty", "delDeleteMap"} \cup Calls!ClearSteps

RowInv == ip # NoMap /\ (\A g \in Calls!Goroutines : pc[g] \notin Emptying) => Row # Calls!Empty

\* A step that leaves the maps alone, of a goroutine that has not emptied any.
LEMMA RowStays ==
    ASSUME RowInv, UNCHANGED <<ip, entries>>, NEW g \in Calls!Goroutines,
           pc[g] \notin Emptying \/ Row # Calls!Empty \/ pc'[g] \in Emptying,
           \A h \in Calls!Goroutines \ {g} : pc'[h] = pc[h]
    PROVE  RowInv'
<1>1. Row' = Row /\ Calls!Empty' = Calls!Empty
  BY DEF Row, Calls!Empty
<1> QED
  BY <1>1 DEF RowInv

\* What is stored for an address is not what stands for no entry.
LEMMA TouchedIsSome ==
    ASSUME live \in BOOLEAN, NEW v \in Int, v >= 0, NEW tcp \in BOOLEAN
    PROVE  Calls!Touched(v, tcp) # 0
BY DEF Calls!Touched, Calls!Tcp, Calls!Packet, Calls!Recent

\* The steps of AddConnCount, after the first.
LEMMA AddRow ==
    ASSUME OneAtATime, IInv, RecordInv, RowInv, UNCHANGED Calls!limits, NEW c \in Conns,
           \/ Calls!AddLoadCount(c) \/ Calls!AddStoreCount(c) \/ Calls!AddLoadMap(c)
           \/ Calls!AddLoadIP(c) \/ Calls!AddRange(c) \/ Calls!AddStoreIP(c)
    PROVE  RowInv'
<1>1. /\ c \in Calls!Goroutines /\ pc[c] \in Calls!AddSteps /\ pc[c] \notin Calls!Outside /\ pc[c] \notin Emptying
      /\ \A h \in Calls!Goroutines \ {c} : pc'[h] = pc[h]
  BY AddMoves DEF Moves, Alone, Calls!Goroutines, Calls!AddSteps, Calls!Outside, Calls!ClearSteps, Emptying
<1>2. CASE UNCHANGED <<ip, entries>>
  BY <1>1, <1>2, RowStays
<1>3. TypeInv /\ NoMap \notin Maps /\ src[c] \in IPs /\ isTcp[c] \in BOOLEAN /\ live \in BOOLEAN
  BY <1>1 DEF IInv, TypeInv, AddInv, OneAtATime, Calls!AddSteps
<1>4. CASE Calls!AddLoadMap(c) /\ ip = NoMap
  <2> DEFINE w == Calls!Touched(0, isTcp[c])
  <2>1. PICK m \in Maps : ip' = m /\ entries' = [entries EXCEPT ![m] = [Calls!Empty EXCEPT ![src[c]] = w]]
    BY <1>4 DEF Calls!AddLoadMap
  <2>2. w # 0
    BY <1>3, TouchedIsSome
  <2> HIDE DEF w
  <2>3. Row' = entries'[m]
    BY <1>3, <2>1 DEF Row
  <2>4. entries'[m] = [Calls!Empty EXCEPT ![src[c]] = w]
    BY <1>3, <2>1 DEF TypeInv
  <2>5. Row'[src[c]] = w
    BY <1>3, <2>3, <2>4 DEF Calls!Empty
  <2>6. Calls!Empty'[src[c]] = 0
    BY <1>3 DEF Calls!Empty
  <2> QED
    BY <2>2, <2>5, <2>6 DEF RowInv
<1>5. CASE Calls!AddStoreIP(c) /\ entries' # entries
  <2> DEFINE v == Row0[src[c]]
             w == Calls!Touched(v, isTcp[c])
  <2>1. /\ pc[c] = "addStoreIP" /\ ip' = ip
        /\ entries' = [entries EXCEPT ![ips[c]][src[c]] = Calls!Touched(loaded[c], isTcp[c])]
    BY <1>5 DEF Calls!AddStoreIP
  <2>2. loaded[c] = v /\ ips[c] = ip /\ ip \in Maps
    BY <2>1 DEF IInv, AddInv
  <2>3. v \in Int /\ v >= 0
    BY <1>1, <1>3, WithinCall DEF Records, TypeInv, Rows
  <2>4. w \in Int /\ w # 0
    BY <1>3, <2>3, TouchedIsSome, TouchedType
  <2> HIDE DEF v, w
  <2>5. entries' = [entries EXCEPT ![ip][src[c]] = w]
    BY <2>1, <2>2 DEF w
  <2>6. Row' = [Row EXCEPT ![src[c]] = w] /\ Row \in Rows
    BY <1>3, <2>1, <2>2, <2>4, <2>5, RowBecomes, RowIs
  <2>7. Row'[src[c]] = w
    BY <1>3, <2>6 DEF Rows
  <2>8. Calls!Empty'[src[c]] = 0
    BY <1>3 DEF Calls!Empty
  <2> QED
    BY <2>4, <2>7, <2>8 DEF RowInv
<1> QED
  BY <1>2, <1>4, <1>5
     DEF Calls!AddLoadCount, Calls!AddStoreCount, Calls!AddLoadMap, Calls!AddLoadIP, Calls!AddRange,
         Calls!AddStoreIP

\* The steps of DelConnCount, after the first.
LEMMA DelRow ==
    ASSUME OneAtATime, IInv, RowInv, UNCHANGED Calls!limits, NEW c \in Conns,
           \/ Calls!DelReturn(c) \/ Calls!DelLoadCount(c) \/ Calls!DelStoreCount(c) \/ Calls!DelLoadMap(c)
           \/ Calls!DelLoadIP(c) \/ Calls!DelStoreIP(c) \/ Calls!DelEmpty(c) \/ Calls!DelDeleteMap(c)
    PROVE  RowInv'
<1>1. /\ c \in Calls!Goroutines /\ \A h \in Calls!Goroutines \ {c} : pc'[h] = pc[h]
      /\ pc = [g \in Calls!Goroutines |-> pc[g]]
  BY DelMoves DEF Moves, Alone, Calls!Goroutines, IInv, TypeInv
<1>2. CASE Calls!DelReturn(c) \/ Calls!DelLoadCount(c) \/ Calls!DelStoreCount(c) \/ Calls!DelLoadMap(c) \/ Calls!DelLoadIP(c)
  <2>1. pc[c] \notin Emptying /\ UNCHANGED <<ip, entries>>
    BY <1>2 DEF Emptying, Calls!ClearSteps, Calls!DelReturn, Calls!DelLoadCount, Calls!DelStoreCount,
                Calls!DelLoadMap, Calls!DelLoadIP
  <2> QED
    BY <1>1, <2>1, RowStays
<1>3. CASE Calls!DelStoreIP(c)
  <2>1. pc'[c] = "delEmpty"
    BY <1>1, <1>3 DEF Calls!DelStoreIP, Calls!Goto
  <2> QED
    BY <1>1, <2>1 DEF RowInv, Emptying
<1>4. CASE Calls!DelEmpty(c)
  <2>1. /\ UNCHANGED <<ip, entries>>
        /\ entries[ips[c]] = Calls!Empty => pc' = [pc EXCEPT ![c] = "delDeleteMap"]
        /\ pc[c] = "delEmpty"
    BY <1>4 DEF Calls!DelEmpty, Calls!Goto
  <2>2. ips[c] = ip /\ ip \in Maps
    BY <2>1 DEF IInv, DelInv
  <2>3. Row = entries[ips[c]]
    BY <2>2, RowIs DEF IInv, OneAtATime
  <2>4. Row # Calls!Empty \/ pc'[c] \in Emptying
    BY <1>1, <2>1, <2>3 DEF Emptying
  <2> QED
    BY <1>1, <2>1, <2>4, RowStays
<1>5. CASE Calls!DelDeleteMap(c)
  BY <1>5 DEF Calls!DelDeleteMap, RowInv
<1> QED
  BY <1>2, <1>3, <1>4, <1>5

\* The steps of ClearOnlineIP, after the first.
LEMMA ClearRow ==
    ASSUME OneAtATime, IInv, RowInv, UNCHANGED Calls!limits,
           Calls!ClearDelete \/ Calls!ClearEnd \/ Calls!ClearDeleteMap \/ \E a \in IPs : Calls!ClearVisit(a)
    PROVE  RowInv'
<1>1. /\ Cleaner \in Calls!Goroutines /\ \A h \in Calls!Goroutines \ {Cleaner} : pc'[h] = pc[h]
      /\ pc = [g \in Calls!Goroutines |-> pc[g]]
  BY ClearMoves DEF Moves, Alone, Calls!Goroutines, IInv, TypeInv
<1>2. CASE Calls!ClearDelete
  <2>1. pc'[Cleaner] = "clearVisit"
    BY <1>1, <1>2 DEF Calls!ClearDelete, Calls!Goto
  <2> QED
    BY <1>1, <2>1 DEF RowInv, Emptying, Calls!ClearSteps
<1>3. ASSUME NEW a \in IPs, Calls!ClearVisit(a) PROVE RowInv'
  <2>1. pc'[Cleaner] \in {"clearVisit", "clearDelete"}
    BY <1>1, <1>3 DEF Calls!ClearVisit, Calls!Goto
  <2> QED
    BY <1>1, <2>1 DEF RowInv, Emptying, Calls!ClearSteps
<1>4. CASE Calls!ClearEnd
  <2>1. /\ UNCHANGED <<ip, entries>>
        /\ entries[ips[Cleaner]] = Calls!Empty => pc' = [pc EXCEPT ![Cleaner] = "clearDeleteMap"]
        /\ pc[Cleaner] = "clearVisit"
    BY <1>4 DEF Calls!ClearEnd, Calls!Goto
  <2>2. ips[Cleaner] = ip /\ ip \in Maps
    BY <2>1 DEF IInv, ClearInv, Calls!ClearSteps
  <2>3. Row = entries[ips[Cleaner]]
    BY <2>2, RowIs DEF IInv, OneAtATime
  <2>4. Row # Calls!Empty \/ pc'[Cleaner] \in Emptying
    BY <1>1, <2>1, <2>3 DEF Emptying, Calls!ClearSteps
  <2> QED
    BY <1>1, <2>1, <2>4, RowStays
<1>5. CASE Calls!ClearDeleteMap
  BY <1>5 DEF Calls!ClearDeleteMap, RowInv
<1> QED
  BY <1>2, <1>3, <1>4, <1>5

\* The first steps of the calls, and those outside of any.
LEMMA OtherRow ==
    ASSUME OneAtATime, IInv, RowInv, UNCHANGED Calls!limits,
           \/ \E c \in Conns, a \in IPs, tcp \in BOOLEAN : Calls!CallAdd(c, a, tcp)
           \/ \E c \in Conns : Calls!CallDel(c) \/ Calls!ClosePacket(c)
           \/ Calls!CallClear
           \/ \E a \in IPs : Calls!Age(a)
    PROVE  RowInv'
<1>1. ASSUME NEW c \in Conns,
             (\E a \in IPs, tcp \in BOOLEAN : Calls!CallAdd(c, a, tcp)) \/ Calls!CallDel(c) \/ Calls!ClosePacket(c)
      PROVE  RowInv'
  <2>1. UNCHANGED <<ip, entries>> /\ pc[c] \in Calls!Outside /\ \E l : pc' = [pc EXCEPT ![c] = l]
    BY <1>1 DEF Calls!CallAdd, Calls!CallDel, Calls!ClosePacket, Calls!Call, Calls!Goto, Calls!Outside
  <2>2. c \in Calls!Goroutines /\ \A h \in Calls!Goroutines \ {c} : pc'[h] = pc[h]
    BY <2>1 DEF Calls!Goroutines, IInv, TypeInv
  <2>3. pc[c] \notin Emptying
    BY <2>1 DEF Emptying, Calls!Outside, Calls!ClearSteps
  <2> QED
    BY <2>1, <2>2, <2>3, RowStays
<1>2. CASE Calls!CallClear
  <2>1. Cleaner \in Calls!Goroutines /\ pc'[Cleaner] = "clearVisit"
    BY <1>2 DEF Calls!CallClear, Calls!Call, Calls!Goto, Calls!Goroutines, IInv, TypeInv
  <2> QED
    BY <2>1 DEF RowInv, Emptying, Calls!ClearSteps
<1>3. ASSUME NEW a \in IPs, Calls!Age(a) PROVE RowInv'
  <2>1. /\ ip \in Maps /\ UNCHANGED ip /\ entries' = [entries EXCEPT ![ip][a] = Calls!Expired] /\ TypeInv
        /\ NoMap \notin Maps
    BY <1>3 DEF Calls!Age, Calls!locals, IInv, TypeInv, OneAtATime
  <2> DEFINE v == Calls!Expired
  <2>2. v \in Int /\ v # 0
    BY DEF Calls!Expired
  <2> HIDE DEF v
  <2>3. entries' = [entries EXCEPT ![ip][a] = v]
    BY <2>1 DEF v
  <2>4. Row' = [Row EXCEPT ![a] = v] /\ Row \in Rows
    BY <2>1, <2>2, <2>3, RowBecomes, RowIs
  <2>5. Row'[a] = v /\ Calls!Empty'[a] = 0
    BY <2>4 DEF Rows, Calls!Empty
  <2> QED
    BY <2>2, <2>5 DEF RowInv
<1> QED
  BY <1>1, <1>2, <1>3

\* Every step.
LEMMA NextRow == OneAtATime /\ IInv /\ RecordInv /\ RowInv /\ [Calls!Next]_(Calls!vars) => RowInv'
<1> SUFFICES ASSUME OneAtATime, IInv, RecordInv, RowInv, [Calls!Next]_(Calls!vars) PROVE RowInv'
  OBVIOUS
<1>1. CASE Calls!Next
  <2>0. UNCHANGED Calls!limits
    BY <1>1 DEF Calls!Next
  <2>1. ASSUME NEW c \in Conns, Calls!Add(c) PROVE RowInv'
    <3>1. (\E a \in IPs, tcp \in BOOLEAN : Calls!CallAdd(c, a, tcp)) => RowInv'
      BY <2>0, OtherRow
    <3>2. CASE \/ Calls!AddLoadCount(c) \/ Calls!AddStoreCount(c) \/ Calls!AddLoadMap(c)
               \/ Calls!AddLoadIP(c) \/ Calls!AddRange(c) \/ Calls!AddStoreIP(c)
      BY <2>0, <3>2, AddRow
    <3> QED
      BY <2>1, <3>1, <3>2 DEF Calls!Add
  <2>2. ASSUME NEW c \in Conns, Calls!Del(c) PROVE RowInv'
    <3>1. CASE Calls!CallDel(c) \/ Calls!ClosePacket(c)
      BY <2>0, <3>1, OtherRow
    <3>2. CASE \/ Calls!DelReturn(c) \/ Calls!DelLoadCount(c) \/ Calls!DelStoreCount(c) \/ Calls!DelLoadMap(c)
               \/ Calls!DelLoadIP(c) \/ Calls!DelStoreIP(c) \/ Calls!DelEmpty(c) \/ Calls!DelDeleteMap(c)
      BY <2>0, <3>2, DelRow
    <3> QED
      BY <2>2, <3>1, <3>2 DEF Calls!Del
  <2>3. CASE Calls!Clear
    <3>1. Calls!CallClear => RowInv'
      BY <2>0, OtherRow
    <3>2. CASE Calls!ClearDelete \/ Calls!ClearEnd \/ Calls!ClearDeleteMap \/ \E a \in IPs : Calls!ClearVisit(a)
      BY <2>0, <3>2, ClearRow
    <3> QED
      BY <2>3, <3>1, <3>2 DEF Calls!Clear
  <2>4. CASE \E a \in IPs : Calls!Age(a)
    BY <2>0, <2>4, OtherRow
  <2> QED
    BY <1>1, <2>1, <2>2, <2>3, <2>4 DEF Calls!Next
<1>2. CASE UNCHANGED Calls!vars
  <2>1. UNCHANGED <<ip, entries, pc>>
    BY <1>2 DEF Calls!vars, Calls!locals
  <2>2. UNCHANGED <<Row, Calls!Empty>>
    BY <2>1 DEF Row, Calls!Empty
  <2> QED
    BY <2>1, <2>2 DEF RowInv
<1> QED
  BY <1>1, <1>2

\* Between two calls there is no entry for an empty inner map: whichever call
\* takes a user's last address out takes the map out as well, so that the maps
\* of users who have left do not add up.
THEOREM NoMapIsLeftEmpty ==
    ASSUME OneAtATime
    PROVE  Calls!Spec => []Calls!NoEmptyMap
<1>1. IInv /\ [Calls!Next]_(Calls!vars) => IInv'
  BY OneAtATime, NextAgrees, Stutters
<1>2. IInv /\ RecordInv /\ RowInv /\ [Calls!Next]_(Calls!vars) => RecordInv' /\ RowInv'
  BY OneAtATime, NextRecords, NextRow
<1>3. Calls!Init => IInv /\ RecordInv /\ RowInv
  BY OneAtATime, InitCalls, NothingRecorded DEF Calls!Init, RowInv
<1>4. RowInv => Calls!NoEmptyMap
  BY DEF RowInv, Row, Emptying, Calls!NoEmptyMap, Calls!Busy, Calls!Outside, Calls!ClearSteps
<1> QED
  BY <1>1, <1>2, <1>3, <1>4, PTL DEF Calls!Spec
=============================================================================
