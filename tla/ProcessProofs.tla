---------------------------- MODULE ProcessProofs ----------------------------
(***************************************************************************)
(* Proofs about what a process serves.  About Serving, for any answers     *)
(* the panel may give and any options: what is served is as secure as the  *)
(* answer asks for, xray and sing build the same, and the process ends     *)
(* for no answer that fits.  About Server, for any number of saves and     *)
(* failing calls: as long as reloads do not overlap, a process that is up  *)
(* serves what it has read or something has failed.                        *)
(*                                                                         *)
(* Each answer is followed in three steps, so that no proof looks at more  *)
(* than one of them: SaysOf is what GetNodeInfo keeps of an answer, Ins is *)
(* the record a core makes of that, and the state is one of them.          *)
(***************************************************************************)
EXTENDS Serving, TLAPS

USE DEF None, Tls, Reality

Tcps == V2rayTypes \cup {"trojan", "anytls", "naive"}

\* What an answer says, whichever panel it is from.
SaysOf(b, info) ==
    /\ info.status = "ok"
    /\ info.type = b.type
    /\ info.network = IF b.type \in Tcps THEN b.network ELSE Blank
    /\ b.type \in V2rayTypes \cup {"trojan"} => info.settings = NetworkOf(b)
    /\ b.type \in Tcps => info.tls \ {"ech"} = TlsOf(b) \ {"ech"}
    /\ info.obfs = b.obfs
    /\ info.dns = IF panelType # "ppanel" /\ b.route \in {"dns", "main"} THEN b.route ELSE "none"
    /\ info.security = IF panelType = "ppanel" THEN PPanelSecurity(b) ELSE Wanted(b)

\* The fields of what is decoded.
LEMMA InfoFields ==
    \A type, security, port, network, settings, tls, b :
      LET info == Info(type, security, port, network, settings, tls, b)
           IN /\ info.status = "ok" /\ info.type = type /\ info.security = security
              /\ info.port = port /\ info.network = network /\ info.settings = settings
              /\ info.tls = tls /\ info.dns = "none" /\ info.obfs = b.obfs
BY DEF Info

\* Routes change nothing but the rules and the name servers.
LEMMA RoutedFields ==
    \A type, security, port, network, settings, tls, b :
      LET info == Info(type, security, port, network, settings, tls, b)
          r == Routed(info, b)
      IN  r.status = "ok" =>
              /\ r.type = type /\ r.security = security
              /\ r.port = port /\ r.network = network /\ r.settings = settings
              /\ r.tls = tls /\ r.obfs = b.obfs
              /\ r.dns = IF b.route \in {"dns", "main"} THEN b.route ELSE "none"
BY DEF Info, Routed, Failed

\* What a failure says.
LEMMA FailedIs == \A how : Failed(how).status = how
BY DEF Failed

\* The TLS settings of an answer, with what is at its top level or without.
LEMMA TlsDecoded ==
    ASSUME NEW b
    PROVE  TlsSettings(b) = TlsOf(b) /\ MergeECH(TlsSettings(b), b) \ {"ech"} = TlsOf(b) \ {"ech"}
BY DEF TlsSettings, TlsOf, Either, MergeECH

\* What ppanel's answer is decoded to.
LEMMA DecodedPPanel ==
    ASSUME NEW b \in Answers, panelType = "ppanel", PPanel(b).status = "ok"
    PROVE  SaysOf(b, PPanel(b))
<1> USE DEF V2rayTypes, Tcps, SaysOf
<1>3. b.interval
  BY FailedIs DEF PPanel
<1>4. CASE b.type \in V2rayTypes
  <2>1. PPanel(b) = Info(b.type, PPanelSecurity(b), 0, b.network, b.snake, MergeECH(TlsSettings(b), b), b)
    BY <1>3, <1>4 DEF PPanel
  <2>2. NetworkOf(b) = b.snake
    BY <1>4 DEF NetworkOf
  <2> DEFINE info == PPanel(b)
  <2>3. /\ info.status = "ok" /\ info.type = b.type /\ info.security = PPanelSecurity(b)
        /\ info.network = b.network /\ info.settings = b.snake
        /\ info.tls = MergeECH(TlsSettings(b), b) /\ info.dns = "none" /\ info.obfs = b.obfs
    BY <2>1, InfoFields
  <2>4. b.type \in Tcps
    BY <1>4
  <2> HIDE DEF info, V2rayTypes, Tcps
  <2>5. SaysOf(b, info)
    BY <1>4, <2>2, <2>3, <2>4, TlsDecoded
  <2> QED
    BY <2>5 DEF info
<1>5. CASE b.type = "trojan"
  <2>1. PPanel(b) = Info(b.type, PPanelSecurity(b), 0, b.network, TrojanSettings(b),
                         MergeECH(TlsSettings(b), b), b)
    BY <1>3, <1>5 DEF PPanel
  <2>2. NetworkOf(b) = TrojanSettings(b)
    BY <1>5 DEF NetworkOf, TrojanSettings, Either
  <2> QED
    BY <1>5, <2>1, <2>2, InfoFields, TlsDecoded
<1>6. CASE b.type \in {"anytls", "naive"}
  <2>1. PPanel(b) = Info(b.type, PPanelSecurity(b), 0, b.network, "absent", TlsSettings(b), b)
    BY <1>3, <1>6 DEF PPanel
  <2> DEFINE info == PPanel(b)
  <2>4. /\ info.status = "ok" /\ info.type = b.type /\ info.security = PPanelSecurity(b)
        /\ info.network = b.network /\ info.settings = "absent" /\ info.tls = TlsSettings(b)
        /\ info.dns = "none"
        /\ info.obfs = b.obfs
    BY <2>1, InfoFields
  <2>5. b.type \in Tcps /\ b.type \notin V2rayTypes \cup {"trojan"}
    BY <1>6
  <2> HIDE DEF info, V2rayTypes, Tcps
  <2>6. SaysOf(b, info)
    BY <2>4, <2>5, TlsDecoded
  <2> QED
    BY <2>6 DEF info
<1>7. CASE b.type \in {"shadowsocks", "tuic", "hysteria2"}
  <2>1. PICK tls : PPanel(b) = Info(b.type, PPanelSecurity(b), 0, Blank, "absent", tls, b)
    BY <1>3, <1>7 DEF PPanel
  <2> DEFINE info == PPanel(b)
  <2>4. /\ info.status = "ok" /\ info.type = b.type /\ info.security = PPanelSecurity(b)
        /\ info.network = Blank /\ info.settings = "absent" /\ info.tls = tls
        /\ info.dns = "none"
        /\ info.obfs = b.obfs
    BY <2>1, InfoFields
  <2>5. b.type \notin Tcps /\ b.type \notin V2rayTypes \cup {"trojan"}
    BY <1>7
  <2> HIDE DEF info, V2rayTypes, Tcps
  <2>6. SaysOf(b, info)
    BY <2>1, <2>4, <2>5
  <2> QED
    BY <2>6 DEF info
<1>8. CASE b.type = "hysteria"
  BY <1>3, <1>8, FailedIs DEF PPanel
<1> QED
  BY <1>4, <1>5, <1>6, <1>7, <1>8 DEF Answers

\* What UniProxy's answer is decoded to.
LEMMA DecodedUniProxy ==
    ASSUME NEW b \in Answers, panelType # "ppanel", UniProxy(b).status = "ok"
    PROVE  SaysOf(b, UniProxy(b))
<1> USE DEF V2rayTypes, Tcps, SaysOf
<1>3. UniProxy(b) = Routed(Decoded(b), b)
  BY FailedIs DEF UniProxy
<1>4. CASE b.type \in V2rayTypes
  <2>1. Decoded(b) = Info(b.type, b.tls, b.port, b.network, Either(b.snake, b.camel, "absent"),
                          MergeECH(TlsSettings(b), b), b)
    BY <1>4 DEF Decoded
  <2>2. NetworkOf(b) = Either(b.snake, b.camel, "absent")
    BY <1>4 DEF NetworkOf, Either
  <2>3. Wanted(b) = b.tls
    BY <1>4 DEF Wanted
  <2> DEFINE info == UniProxy(b)
  <2>4. /\ info.status = "ok" /\ info.type = b.type /\ info.security = b.tls
        /\ info.network = b.network /\ info.settings = NetworkOf(b) /\ info.tls = MergeECH(TlsSettings(b), b)
        /\ info.dns = IF b.route \in {"dns", "main"} THEN b.route ELSE "none"
        /\ info.obfs = b.obfs
    BY <1>3, <2>1, <2>2, RoutedFields
  <2>5. b.type \in Tcps
    BY <1>4
  <2> HIDE DEF info, V2rayTypes, Tcps
  <2>6. SaysOf(b, info)
    BY <2>3, <2>4, <2>5, TlsDecoded
  <2> QED
    BY <2>6 DEF info
<1>5. CASE b.type = "trojan"
  <2>1. Decoded(b) = Info(b.type, Tls, b.port, b.network, TrojanSettings(b),
                          MergeECH(TlsSettings(b), b), b)
    BY <1>5 DEF Decoded
  <2>2. NetworkOf(b) = TrojanSettings(b)
    BY <1>5 DEF NetworkOf, TrojanSettings, Either
  <2>3. Wanted(b) = Tls
    BY <1>5 DEF Wanted
  <2> QED
    BY <1>3, <1>5, <2>1, <2>2, <2>3, RoutedFields, TlsDecoded
<1>6. CASE b.type \in {"anytls", "naive"}
  <2>1. Decoded(b) = Info(b.type, b.tls, b.port, b.network, "absent", TlsSettings(b), b)
    BY <1>6 DEF Decoded
  <2>3. Wanted(b) = b.tls
    BY <1>6 DEF Wanted
  <2> DEFINE info == UniProxy(b)
  <2>4. /\ info.status = "ok" /\ info.type = b.type /\ info.security = b.tls
        /\ info.network = b.network /\ info.settings = "absent" /\ info.tls = TlsSettings(b)
        /\ info.dns = IF b.route \in {"dns", "main"} THEN b.route ELSE "none"
        /\ info.obfs = b.obfs
    BY <1>3, <2>1, RoutedFields
  <2>5. b.type \in Tcps /\ b.type \notin V2rayTypes \cup {"trojan"}
    BY <1>6
  <2> HIDE DEF info, V2rayTypes, Tcps
  <2>6. SaysOf(b, info)
    BY <2>3, <2>4, <2>5, TlsDecoded
  <2> QED
    BY <2>6 DEF info
<1>7. CASE b.type \in {"shadowsocks", "tuic", "hysteria", "hysteria2"}
  <2>1. PICK tls : Decoded(b) = Info(b.type, Wanted(b), b.port, Blank, "absent", tls, b)
    BY <1>7 DEF Decoded, Wanted
  <2> DEFINE info == UniProxy(b)
  <2>4. /\ info.status = "ok" /\ info.type = b.type /\ info.security = Wanted(b)
        /\ info.network = Blank /\ info.settings = "absent" /\ info.tls = tls
        /\ info.dns = IF b.route \in {"dns", "main"} THEN b.route ELSE "none"
        /\ info.obfs = b.obfs
    BY <1>3, <2>1, RoutedFields
  <2>5. b.type \notin Tcps /\ b.type \notin V2rayTypes \cup {"trojan"}
    BY <1>7
  <2> HIDE DEF info, V2rayTypes, Tcps
  <2>6. SaysOf(b, info)
    BY <2>1, <2>4, <2>5
  <2> QED
    BY <2>6 DEF info
<1> QED
  BY <1>4, <1>5, <1>6, <1>7 DEF Answers
-----------------------------------------------------------------------------
\* What the cores make

\* A network that is not given is none of those a core has a name for.
LEMMA BlankIsNoName ==
    /\ Blank \notin {"tcp", "ws", "grpc", "httpupgrade", "xhttp", "kcp", "http", "error", "panic", "nil"}
    /\ Blank \notin {"plain", "salamander", "other"}
BY Zenon DEF Blank

\* The inbounds with these fields, and what each change of the code makes of them.
Ins(port, transport, security, name, dest, server_port, ech) ==
    [status : {"ok"}, port : {port}, transport : {transport}, security : {security},
     server_name : {name}, dest : {dest}, server_port : {server_port}, ech : ech]

\* Their fields, all but the one for Encrypted Client Hello.
LEMMA InsFields ==
    \A port, transport, security, name, dest, server_port, ech :
      \A in \in Ins(port, transport, security, name, dest, server_port, ech) :
        /\ in.status = "ok" /\ in.port = port /\ in.transport = transport /\ in.security = security
        /\ in.server_name = name /\ in.dest = dest /\ in.server_port = server_port
BY DEF Ins

\* One or more fields are overwritten.
LEMMA Altered ==
    ASSUME NEW port, NEW transport, NEW security, NEW name, NEW dest, NEW server_port, NEW ech,
           NEW in \in Ins(port, transport, security, name, dest, server_port, ech)
    PROVE  /\ \A v : [in EXCEPT !.security = v] \in Ins(port, transport, v, name, dest, server_port, ech)
           /\ \A v : [in EXCEPT !.transport = v] \in Ins(port, v, security, name, dest, server_port, ech)
           /\ \A s, n, d, p :
                [in EXCEPT !.security = s, !.server_name = n, !.dest = d, !.server_port = p]
                  \in Ins(port, transport, s, n, d, p, ech)
BY DEF Ins

\* Encrypted Client Hello is left out, alone or with other fields.
LEMMA Unhelloed ==
    ASSUME NEW port, NEW transport, NEW security, NEW name, NEW dest, NEW server_port,
           NEW in \in Ins(port, transport, security, name, dest, server_port, BOOLEAN)
    PROVE  /\ [in EXCEPT !.ech = FALSE] \in Ins(port, transport, security, name, dest, server_port, BOOLEAN)
           /\ \A v : [in EXCEPT !.ech = FALSE, !.transport = v]
                       \in Ins(port, v, security, name, dest, server_port, {FALSE})
           /\ \A s, n, d, p :
                [in EXCEPT !.security = s, !.server_name = n, !.dest = d, !.ech = FALSE, !.server_port = p]
                  \in Ins(port, transport, s, n, d, p, BOOLEAN)
BY DEF Ins

\* With all fields given there is one.
LEMMA InsAreOne ==
    \A port, transport, security, name, dest, server_port, ech :
      \A y, z \in Ins(port, transport, security, name, dest, server_port, {ech}) : y = z
BY DEF Ins

\* The security of what is served.
SecurityLeft(info) == IF info.security = Tls /\ options.cert = "none" THEN None ELSE info.security

XrayName(tls) == IF "server_name" \in tls THEN "server_name" ELSE "dest"
XrayDest(tls) == IF "dest" \in tls THEN "dest" ELSE "server_name"
XrayPort(tls) == IF "server_port" \in tls THEN "given" ELSE "443"
SingName(tls) == IF "server_name" \in tls THEN "server_name" ELSE "none"
SingPort(tls) == IF "server_port" \in tls THEN "given" ELSE "none"

\* What xray's inbound is, when it is made.
LEMMA XrayMakes ==
    ASSUME NEW info, info.security \in {None, Tls, Reality}, BuildInbound(info, options).status = "ok"
    PROVE  LET transport == Stream(info, options)
           IN /\ transport \notin {"error", "nil"}
              /\ info.security # Reality =>
                   BuildInbound(info, options) \in
                     Ins(info.port, transport, SecurityLeft(info), "none", "none", "none", BOOLEAN)
              /\ info.security = Reality =>
                   BuildInbound(info, options) \in
                     Ins(info.port, transport, Reality, XrayName(info.tls), XrayDest(info.tls),
                         XrayPort(info.tls), BOOLEAN)
<1> DEFINE transport == Stream(info, options)
           plain == Inbound(info, transport, "ech" \in info.tls)
           x == BuildInbound(info, options)
<1>1. transport \notin {"error", "nil"} /\ x.status # "error" /\ x.status # "panic"
  BY FailedIs DEF BuildInbound
<1>2. plain \in Ins(info.port, transport, None, "none", "none", "none", BOOLEAN)
  BY DEF Ins, Inbound
<1>3. CASE info.security = Tls
  <2>1. x = XrayTls(plain, options)
    BY <1>1, <1>3, FailedIs DEF BuildInbound
  <2> HIDE DEF plain, transport, x
  <2>2. CASE options.cert = "none"
    <3>1. x = [plain EXCEPT !.ech = FALSE] /\ SecurityLeft(info) = None
      BY <1>3, <2>1, <2>2 DEF XrayTls, SecurityLeft
    <3>2. x \in Ins(info.port, transport, None, "none", "none", "none", BOOLEAN)
      BY <1>2, <3>1, Unhelloed
    <3> QED
      BY <1>1, <1>3, <3>1, <3>2 DEF transport, x
  <2>3. CASE options.cert # "none"
    <3>1. x = [plain EXCEPT !.security = Tls] /\ SecurityLeft(info) = Tls
      BY <1>1, <1>3, <2>1, <2>3, FailedIs DEF XrayTls, SecurityLeft
    <3>2. x \in Ins(info.port, transport, Tls, "none", "none", "none", BOOLEAN)
      BY <1>2, <3>1, Altered
    <3> QED
      BY <1>1, <1>3, <3>1, <3>2 DEF transport, x
  <2> QED
    BY <2>2, <2>3
<1>4. CASE info.security = Reality
  <2>1. x = XrayReality(plain, info.tls)
    BY <1>1, <1>4, FailedIs DEF BuildInbound
  <2> HIDE DEF plain, transport, x
  <2>2. x = [plain EXCEPT !.security = Reality, !.server_name = XrayName(info.tls),
                          !.dest = XrayDest(info.tls), !.ech = FALSE, !.server_port = XrayPort(info.tls)]
    BY <1>1, <2>1, FailedIs DEF XrayReality, XrayName, XrayDest, XrayPort
  <2>3. x \in Ins(info.port, transport, Reality, XrayName(info.tls), XrayDest(info.tls),
                  XrayPort(info.tls), BOOLEAN)
    BY <1>2, <2>2, Unhelloed
  <2> QED
    BY <1>1, <1>4, <2>3 DEF transport, x
<1>5. CASE info.security = None
  <2>1. x = [plain EXCEPT !.ech = FALSE] /\ SecurityLeft(info) = None
    BY <1>1, <1>5, FailedIs DEF BuildInbound, SecurityLeft
  <2> HIDE DEF plain, transport, x
  <2>2. x \in Ins(info.port, transport, None, "none", "none", "none", BOOLEAN)
    BY <1>2, <2>1, Unhelloed
  <2> QED
    BY <1>1, <1>5, <2>1, <2>2 DEF transport, x
<1> QED
  BY <1>3, <1>4, <1>5

SingTransport(info) ==
    CASE info.type \in V2rayTypes -> SingV2ray(info)
      [] info.type = "trojan"     -> SingTrojan(info)
      [] OTHER                    -> "tcp"

\* What sing's inbound is, when it is made.
LEMMA SingMakes ==
    ASSUME NEW info, info.security \in {None, Tls, Reality}, GetInboundOptions(info, options).status = "ok"
    PROVE  LET s == GetInboundOptions(info, options)
               transport == SingTransport(info)
           IN /\ transport \notin {"error", "panic"}
              /\ ~SingRefuses(s, info)
              /\ info.security # Reality =>
                   s \in Ins(info.port, transport, SecurityLeft(info), "none", "none", "none", {FALSE})
              /\ info.security = Reality =>
                   s \in Ins(info.port, transport, Reality, SingName(info.tls), SingDest(info.tls),
                             SingPort(info.tls), {FALSE})
<1> DEFINE plain == Inbound(info, "tcp", FALSE)
           transport == SingTransport(info)
           secured == CASE info.security = Tls     -> SingTls(plain, options)
                        [] info.security = Reality -> SingReality(plain, info)
                        [] OTHER                   -> plain
           s == GetInboundOptions(info, options)
<1>1. /\ secured.status = "ok" /\ transport \notin {"error", "panic"}
      /\ s = [secured EXCEPT !.transport = transport]
      /\ ~SingRefuses(s, info)
  BY FailedIs DEF GetInboundOptions, SingTransport
<1>2. plain \in Ins(info.port, "tcp", None, "none", "none", "none", {FALSE})
  BY DEF Ins, Inbound
<1>3. CASE info.security = Tls
  <2>1. secured = SingTls(plain, options)
    BY <1>3
  <2> HIDE DEF secured, plain, transport, s
  <2>2. secured \in Ins(info.port, "tcp", SecurityLeft(info), "none", "none", "none", {FALSE})
    <3>1. CASE options.cert = "none"
      BY <1>2, <1>3, <2>1, <3>1 DEF SingTls, SecurityLeft
    <3>2. CASE options.cert # "none"
      <4>1. secured = [plain EXCEPT !.security = Tls] /\ SecurityLeft(info) = Tls
        BY <1>1, <1>3, <2>1, <3>2, FailedIs DEF SingTls, SecurityLeft
      <4> QED
        BY <1>2, <4>1, Altered
    <3> QED
      BY <3>1, <3>2
  <2>3. s \in Ins(info.port, transport, SecurityLeft(info), "none", "none", "none", {FALSE})
    BY <1>1, <2>2, Altered
  <2> QED
    BY <1>1, <1>3, <2>3 DEF transport, s
<1>4. CASE info.security = Reality
  <2>1. secured = SingReality(plain, info)
    BY <1>4
  <2> HIDE DEF secured, plain, transport, s
  <2>2. secured = [plain EXCEPT !.security = Reality, !.server_name = SingName(info.tls),
                                !.dest = SingDest(info.tls), !.server_port = SingPort(info.tls)]
    BY <1>1, <2>1, FailedIs DEF SingReality, SingName, SingPort
  <2>3. secured \in Ins(info.port, "tcp", Reality, SingName(info.tls), SingDest(info.tls),
                        SingPort(info.tls), {FALSE})
    BY <1>2, <2>2, Altered
  <2>4. s \in Ins(info.port, transport, Reality, SingName(info.tls), SingDest(info.tls),
                  SingPort(info.tls), {FALSE})
    BY <1>1, <2>3, Altered
  <2> QED
    BY <1>1, <1>4, <2>4 DEF transport, s
<1>5. CASE info.security = None
  <2>1. secured = plain /\ SecurityLeft(info) = None
    BY <1>5 DEF SecurityLeft
  <2> HIDE DEF secured, plain, transport, s
  <2>2. s \in Ins(info.port, transport, None, "none", "none", "none", {FALSE})
    BY <1>1, <1>2, <2>1, Altered
  <2> QED
    BY <1>1, <1>5, <2>1, <2>2 DEF transport, s
<1> QED
  BY <1>3, <1>4, <1>5

\* What an inbound is secured by, of what is decoded.
Secures(in, info) ==
    \/ in.security = info.security /\ (info.security = Reality /\ "dest" \in info.tls => in.dest = "dest")
    \/ in.security = None /\ info.security = Tls /\ options.cert = "none"

\* xray makes an inbound of few types, and secures each.
LEMMA XraySecures ==
    ASSUME NEW info, info.security \in {None, Tls, Reality}, BuildInbound(info, options).status = "ok"
    PROVE  /\ Secures(BuildInbound(info, options), info)
           /\ info.type \in V2rayTypes \cup {"trojan", "shadowsocks"}
<1> DEFINE x == BuildInbound(info, options)
<1>1. info.type \in V2rayTypes \cup {"trojan", "shadowsocks"}
  BY XrayMakes DEF Stream
<1>2. CASE info.security = Reality
  <2>1. x.security = Reality /\ x.dest = XrayDest(info.tls)
    BY <1>2, XrayMakes, InsFields
  <2> QED
    BY <1>1, <1>2, <2>1 DEF Secures, XrayDest
<1>3. CASE info.security # Reality
  <2>1. x.security = SecurityLeft(info)
    BY <1>3, XrayMakes, InsFields
  <2> QED
    BY <1>1, <1>3, <2>1 DEF Secures, SecurityLeft
<1> QED
  BY <1>2, <1>3

\* sing secures what it makes, and makes nothing over QUIC without TLS.
LEMMA SingSecures ==
    ASSUME NEW info, info.security \in {None, Tls, Reality}, GetInboundOptions(info, options).status = "ok"
    PROVE  /\ Secures(GetInboundOptions(info, options), info)
           /\ ~(info.type \in {"tuic", "hysteria", "hysteria2"} /\ info.security = None)
<1> DEFINE s == GetInboundOptions(info, options)
<1>1. CASE info.security = Reality
  <2>1. s.security = Reality /\ s.dest = SingDest(info.tls)
    BY <1>1, SingMakes, InsFields
  <2> QED
    BY <1>1, <2>1 DEF Secures, SingDest
<1>2. CASE info.security # Reality
  <2>1. s.security = SecurityLeft(info) /\ ~SingRefuses(s, info)
    BY <1>2, SingMakes, InsFields
  <2> QED
    BY <1>2, <2>1 DEF Secures, SecurityLeft, SingRefuses
<1> QED
  BY <1>1, <1>2
-----------------------------------------------------------------------------
\* What the answer asks for, or cannot ask for: ppanel's has no security for
\* the types over QUIC, and none can have Reality for the others.
LEMMA SecurityWanted ==
    ASSUME NEW b \in Answers, NEW info, SaysOf(b, info)
    PROVE  /\ info.security \in {None, Tls, Reality}
           /\ \/ info.security = Wanted(b)
              \/ info.security = None /\ b.type \in {"tuic", "hysteria", "hysteria2"}
           /\ Wanted(b) = Reality => b.type \in Tcps
<1> USE DEF SaysOf, Wanted, V2rayTypes, Tcps
<1>1. CASE b.type \in V2rayTypes \cup {"anytls", "naive"}
  BY <1>1 DEF PPanelSecurity, Answers
<1>2. CASE b.type = "trojan"
  BY <1>2 DEF PPanelSecurity, Answers
<1>3. CASE b.type = "shadowsocks"
  BY <1>3 DEF PPanelSecurity, Answers
<1>4. CASE b.type \in {"tuic", "hysteria", "hysteria2"}
  BY <1>4 DEF PPanelSecurity, Answers
<1> QED
  BY <1>1, <1>2, <1>3, <1>4 DEF Answers

\* A certificate mode that disables TLS is all that takes security away.
SecuredAs(in, b) ==
    \/ in.security = Wanted(b) /\ (Wanted(b) = Reality /\ "dest" \in TlsOf(b) => in.dest = "dest")
    \/ in.security = None /\ Wanted(b) = Tls /\ options.cert = "none"

\* From both kinds of panel.
LEMMA Decodes ==
    ASSUME NEW b \in Answers, GetNodeInfo(panelType, b).status = "ok"
    PROVE  SaysOf(b, GetNodeInfo(panelType, b))
BY DecodedPPanel, DecodedUniProxy DEF GetNodeInfo

\* Every core serves an answer as securely as it asks to be.
LEMMA ResultIsSecured ==
    ASSUME NEW b \in Answers, core \in {"xray", "sing", "hysteria2"},
           Result(GetNodeInfo(panelType, b)).status = "ok"
    PROVE  SecuredAs(Result(GetNodeInfo(panelType, b)), b)
<1> DEFINE info == GetNodeInfo(panelType, b)
<1>1. info.status = "ok" /\ Result(info) = Outcome(info)
  BY DEF Result
<1>2. SaysOf(b, info)
  BY <1>1, Decodes
<1> HIDE DEF info
<1>3. /\ info.security \in {None, Tls, Reality}
      /\ \/ info.security = Wanted(b)
         \/ info.security = None /\ b.type \in {"tuic", "hysteria", "hysteria2"}
      /\ Wanted(b) = Reality => b.type \in Tcps
  BY <1>2, SecurityWanted
<1>4. Wanted(b) = Reality => ("dest" \in TlsOf(b) <=> "dest" \in info.tls)
  BY <1>2, <1>3 DEF SaysOf
<1>5. info.type = b.type
  BY <1>2 DEF SaysOf
<1>6. CASE core = "xray"
  <2>1. Outcome(info) = BuildInbound(info, options)
    BY <1>6 DEF Outcome
  <2>2. Secures(Outcome(info), info) /\ info.type \in V2rayTypes \cup {"trojan", "shadowsocks"}
    BY <1>1, <1>3, <2>1, XraySecures DEF info
  <2>3. info.security = Wanted(b)
    BY <1>3, <1>5, <2>2 DEF V2rayTypes
  <2> QED
    BY <1>1, <1>4, <2>2, <2>3 DEF Secures, SecuredAs, info
<1>7. CASE core = "sing"
  <2>1. Outcome(info) = GetInboundOptions(info, options)
    BY <1>7 DEF Outcome
  <2>2. Secures(Outcome(info), info) /\ ~(info.type \in {"tuic", "hysteria", "hysteria2"} /\ info.security = None)
    BY <1>1, <1>3, <2>1, SingSecures DEF info
  <2>3. info.security = Wanted(b)
    BY <1>3, <1>5, <2>2
  <2> QED
    BY <1>1, <1>4, <2>2, <2>3 DEF Secures, SecuredAs, info
<1>8. CASE core = "hysteria2"
  <2>1. Outcome(info) = Hy2Outcome(info) /\ Outcome(info).status = "ok"
    BY <1>1, <1>8 DEF Outcome, info
  <2>2. info.type = "hysteria2" /\ Outcome(info) = [Inbound(info, "quic", FALSE) EXCEPT !.security = Tls]
    BY <2>1, FailedIs DEF Hy2Outcome, GetHyConfig
  <2>3. Outcome(info).security = Tls
    BY <2>2 DEF Inbound
  <2>4. Wanted(b) = Tls
    BY <1>5, <2>2 DEF Wanted, V2rayTypes
  <2> QED
    BY <1>1, <2>3, <2>4 DEF SecuredAs, info
<1> QED
  BY <1>6, <1>7, <1>8

-----------------------------------------------------------------------------
\* The node has options and answers as they may be.
TypesInv ==
    /\ core \in {"xray", "sing", "hysteria2"} /\ panelType \in {"ppanel", "uniproxy"}
    /\ options \in NodeOptions
    /\ body \in Answers

\* Nothing else ever comes into the state.
LEMMA TypesStep == TypesInv /\ [Next]_vars => TypesInv'
<1> SUFFICES ASSUME TypesInv, [Next]_vars PROVE TypesInv'
  OBVIOUS
<1>1. CASE PanelChanges
  BY <1>1, ServingAssumption DEF PanelChanges, TypesInv, config
<1>2. CASE FileChanges
  <2>1. PICK o \in Optionss : options' = [options EXCEPT !.hy = o.hy]
    BY <1>2 DEF FileChanges
  <2>2. o \in NodeOptions /\ options \in NodeOptions
    BY ServingAssumption DEF TypesInv
  <2>3. options' \in NodeOptions
    BY <2>1, <2>2 DEF NodeOptions
  <2> QED
    BY <1>2, <2>3 DEF FileChanges, TypesInv, config
<1>3. CASE Start \/ Poll \/ PollFails \/ Restart \/ UNCHANGED vars
  BY <1>3 DEF Start, Poll, PollFails, Restart, vars, TypesInv, config
<1> QED
  BY <1>1, <1>2, <1>3 DEF Next

\* What AddNode does with an inbound.
LEMMA AddNodeServes ==
    ASSUME NEW in, AddNode(in)
    PROVE  \/ inbound' = in /\ process' = "up"
           \/ inbound' = Nothing /\ process' = "crashed" /\ core = "hysteria2" /\ options.hy.listens = "https"
BY DEF AddNode, RunMasqTCPServer, Ends, Serves

\* What is served is secured as the last answer wants it, whatever was
\* answered, asked and failed before; for any answers and options.
THEOREM NodesAreSecured == Spec => []SecurityKept
<1> DEFINE Kept == inbound.status = "ok" => SecuredAs(inbound, from)
<1>1. Init => TypesInv /\ Kept
  BY ServingAssumption DEF Init, TypesInv, Nothing
<1>2. TypesInv /\ Kept /\ [Next]_vars => Kept'
  <2> SUFFICES ASSUME TypesInv, Kept, [Next]_vars PROVE Kept'
    OBVIOUS
  <2> DEFINE info == GetNodeInfo(panelType, body)
             in == Result(info)
  <2>1. in.status = "ok" => SecuredAs(in, body)
    BY ResultIsSecured DEF TypesInv
  <2>2. ASSUME NEW i, i.status = "ok" => SecuredAs(i, from'), inbound' = i, UNCHANGED options
        PROVE  Kept'
    BY <2>2 DEF SecuredAs, TlsOf, Wanted
  <2>3. ASSUME inbound' \in {Nothing, Empty}
        PROVE  Kept'
    BY <2>3 DEF Nothing, Empty
  <2> HIDE DEF in, info
  <2>4. CASE Start
    <3>1. UNCHANGED options /\ from' = body
      BY <2>4 DEF Start
    <3>2. CASE in.status = "ok"
      <4>1. AddNode(in)
        BY <2>4, <3>2 DEF Start, in, info
      <4> QED
        BY <2>1, <2>2, <2>3, <3>1, <4>1, AddNodeServes
    <3>3. CASE in.status # "ok"
      <4>1. inbound' = Nothing
        BY <2>4, <3>3 DEF Start, Ends, in, info
      <4> QED
        BY <2>3, <4>1
    <3> QED
      BY <3>2, <3>3
  <2>5. CASE Poll
    <3>1. UNCHANGED options
      BY <2>5 DEF Poll
    <3>2. CASE info.status = "error"
      <4>1. UNCHANGED <<inbound, from>>
        BY <2>5, <3>2 DEF Poll, PollError, info
      <4> QED
        BY <3>1, <4>1 DEF SecuredAs, TlsOf, Wanted
    <3>3. CASE info.status = "panic"
      <4>1. inbound' = Nothing
        BY <2>5, <3>3 DEF Poll, Ends, info
      <4> QED
        BY <2>3, <4>1
    <3>4. CASE info.status \notin {"error", "panic"}
      <4>1. from' = body /\ Reload(info)
        BY <2>5, <3>4 DEF Poll, info
      <4>2. CASE in.status = "ok" /\ inbound # Nothing
        <5>1. AddNode(in)
          BY <4>1, <4>2 DEF Reload, in
        <5> QED
          BY <2>1, <2>2, <2>3, <3>1, <4>1, <5>1, AddNodeServes
      <4>3. CASE ~(in.status = "ok" /\ inbound # Nothing)
        <5>1. inbound' \in {Nothing, Empty}
          BY <4>1, <4>3 DEF Reload, Ends, Serves, in
        <5> QED
          BY <2>3, <5>1
      <4> QED
        BY <4>2, <4>3
    <3> QED
      BY <3>2, <3>3, <3>4
  <2>6. CASE FileChanges
    <3>1. PICK o \in Optionss : options' = [options EXCEPT !.hy = o.hy]
      BY <2>6 DEF FileChanges
    <3>2. options'.cert = options.cert
      BY <3>1 DEF TypesInv, NodeOptions
    <3>3. UNCHANGED <<inbound, from>>
      BY <2>6 DEF FileChanges
    <3> QED
      BY <3>2, <3>3 DEF SecuredAs, TlsOf, Wanted
  <2>7. CASE PollFails \/ PanelChanges \/ Restart \/ UNCHANGED vars
    <3>1. UNCHANGED <<inbound, from, options>>
      BY <2>7 DEF PollFails, PanelChanges, Restart, vars
    <3> QED
      BY <3>1 DEF SecuredAs, TlsOf, Wanted
  <2> QED
    BY <2>4, <2>5, <2>6, <2>7 DEF Next
<1>3. Kept => SecurityKept
  BY DEF SecuredAs, SecurityKept
<1> QED
  BY <1>1, <1>2, <1>3, TypesStep, PTL DEF Spec
-----------------------------------------------------------------------------
\* What xray and sing take alike

\* An inbound of both has the transport in both that the answer names.
LEMMA TransportsAgree ==
    ASSUME NEW info, Stream(info, options) \notin {"error", "nil"}, SingTransport(info) \notin {"error", "panic"}
    PROVE  \/ Stream(info, options) = SingTransport(info)
           \/ info.type = "trojan" /\ Stream(info, options) = "http"
<1> USE DEF V2rayTypes, Stream, SingTransport
<1>1. CASE info.type \in V2rayTypes
  <2>1. Stream(info, options) = BuildV2ray(info, options) /\ SingTransport(info) = SingV2ray(info)
    BY <1>1
  <2> QED
    BY <2>1, BlankIsNoName DEF BuildV2ray, SingV2ray
<1>2. CASE info.type = "trojan"
  <2>1. Stream(info, options) = BuildTrojan(info, options) /\ SingTransport(info) = SingTrojan(info)
    BY <1>2
  <2> QED
    BY <1>2, <2>1, BlankIsNoName DEF BuildTrojan, SingTrojan
<1>3. CASE info.type \notin V2rayTypes \cup {"trojan"}
  BY <1>3
<1> QED
  BY <1>1, <1>2, <1>3

Alike(info) ==
    LET x == BuildInbound(info, options)
        s == GetInboundOptions(info, options)
        complete == {"server_name", "short_id", "server_port"} \subseteq info.tls
    IN x.status = "ok" /\ s.status = "ok" =>
         /\ x.security = s.security
         /\ x.transport = s.transport \/ (info.type = "trojan" /\ x.transport = "http")
         /\ complete => [x EXCEPT !.ech = FALSE, !.transport = s.transport] = s

\* The two agree, whatever the answer, the panel and the options are.
LEMMA MakesAgree ==
    ASSUME NEW info, info.security \in {None, Tls, Reality}
    PROVE  Alike(info)
<1> SUFFICES ASSUME BuildInbound(info, options).status = "ok", GetInboundOptions(info, options).status = "ok"
             PROVE  Alike(info)
  BY DEF Alike
<1> DEFINE x == BuildInbound(info, options)
           s == GetInboundOptions(info, options)
           tx == Stream(info, options)
           ts == SingTransport(info)
<1>1. /\ tx \notin {"error", "nil"} /\ ts \notin {"error", "panic"}
      /\ tx = ts \/ (info.type = "trojan" /\ tx = "http")
  BY XrayMakes, SingMakes, TransportsAgree
<1>2. CASE info.security # Reality
  <2>1. /\ x \in Ins(info.port, tx, SecurityLeft(info), "none", "none", "none", BOOLEAN)
        /\ s \in Ins(info.port, ts, SecurityLeft(info), "none", "none", "none", {FALSE})
    BY <1>2, XrayMakes, SingMakes
  <2> HIDE DEF x, s, tx, ts
  <2>2. x.security = s.security /\ x.transport = tx /\ s.transport = ts
    BY <2>1, InsFields
  <2>3. [x EXCEPT !.ech = FALSE, !.transport = ts]
          \in Ins(info.port, ts, SecurityLeft(info), "none", "none", "none", {FALSE})
    BY <2>1, Unhelloed
  <2>4. [x EXCEPT !.ech = FALSE, !.transport = ts] = s
    BY <2>1, <2>3, InsAreOne
  <2> QED
    BY <1>1, <2>2, <2>4 DEF x, s, Alike
<1>3. CASE info.security = Reality
  <2>1. /\ x \in Ins(info.port, tx, Reality, XrayName(info.tls), XrayDest(info.tls),
                     XrayPort(info.tls), BOOLEAN)
        /\ s \in Ins(info.port, ts, Reality, SingName(info.tls), SingDest(info.tls),
                     SingPort(info.tls), {FALSE})
    BY <1>3, XrayMakes, SingMakes
  <2> HIDE DEF x, s, tx, ts
  <2>2. x.security = s.security /\ x.transport = tx /\ s.transport = ts
    BY <2>1, InsFields
  <2>3. ASSUME {"server_name", "short_id", "server_port"} \subseteq info.tls
        PROVE  [x EXCEPT !.ech = FALSE, !.transport = ts] = s
    <3>1. /\ XrayName(info.tls) = SingName(info.tls) /\ XrayDest(info.tls) = SingDest(info.tls)
          /\ XrayPort(info.tls) = SingPort(info.tls)
      BY <2>3 DEF XrayName, SingName, XrayDest, SingDest, XrayPort, SingPort
    <3>2. [x EXCEPT !.ech = FALSE, !.transport = ts]
            \in Ins(info.port, ts, Reality, SingName(info.tls), SingDest(info.tls), SingPort(info.tls), {FALSE})
      BY <2>1, <3>1, Unhelloed
    <3> QED
      BY <2>1, <3>2, InsAreOne
  <2> QED
    BY <1>1, <2>2, <2>3 DEF x, s, Alike
<1> QED
  BY <1>2, <1>3

\* A node that both xray and sing serve is the same node in both, for any
\* answers and options.
THEOREM XrayAndSingAgree == Spec => []CoresAgree
<1>1. Init => TypesInv
  BY ServingAssumption DEF Init, TypesInv
<1>2. TypesInv => CoresAgree
  <2> SUFFICES ASSUME TypesInv PROVE CoresAgree
    OBVIOUS
  <2> DEFINE info == GetNodeInfo(panelType, body)
  <2>1. ASSUME info.status = "ok" PROVE Alike(info)
    <3>1. info.security \in {None, Tls, Reality}
      BY <2>1, Decodes, SecurityWanted DEF TypesInv
    <3> HIDE DEF info
    <3> QED
      BY <3>1, MakesAgree
  <2> QED
    BY <2>1 DEF CoresAgree, Alike
<1> QED
  BY <1>1, <1>2, TypesStep, PTL DEF Spec
-----------------------------------------------------------------------------
\* What is served

\* An answer that is not unfit is decoded.
LEMMA FitIsDecoded ==
    ASSUME NEW b \in Answers, panelType \in {"ppanel", "uniproxy"}, ~Unfit(b)
    PROVE  GetNodeInfo(panelType, b).status = "ok"
<1>1. b.interval
  BY DEF Unfit
<1>2. CASE panelType = "ppanel"
  <2>1. b.type # "hysteria"
    BY <1>2 DEF Unfit
  <2>2. \E security, port, network, settings, tls : PPanel(b) = Info(b.type, security, port, network, settings, tls, b)
    <3>1. CASE b.type \in V2rayTypes
      BY <1>1, <3>1 DEF PPanel
    <3>2. CASE b.type = "trojan"
      BY <1>1, <3>2 DEF PPanel, V2rayTypes
    <3>3. CASE b.type \in {"anytls", "naive"}
      BY <1>1, <3>3 DEF PPanel, V2rayTypes
    <3>4. CASE b.type \in {"shadowsocks", "tuic", "hysteria2"}
      BY <1>1, <3>4 DEF PPanel, V2rayTypes
    <3> QED
      BY <2>1, <3>1, <3>2, <3>3, <3>4 DEF Answers, V2rayTypes
  <2> QED
    BY <1>2, <2>2, InfoFields DEF GetNodeInfo
<1>3. CASE panelType = "uniproxy"
  <2>1. b.route \notin {"null", "empty"}
    BY <1>3 DEF Unfit
  <2>2. \E type, security, port, network, settings, tls :
          Decoded(b) = Info(type, security, port, network, settings, tls, b)
    <3>1. CASE b.type \in V2rayTypes
      BY <3>1 DEF Decoded
    <3>2. CASE b.type = "trojan"
      BY <3>2 DEF Decoded, V2rayTypes
    <3>3. CASE b.type \in {"anytls", "naive"}
      BY <3>3 DEF Decoded, V2rayTypes
    <3>4. CASE b.type = "shadowsocks"
      BY <3>4 DEF Decoded, V2rayTypes
    <3>5. CASE b.type \in {"tuic", "hysteria", "hysteria2"}
      BY <3>5 DEF Decoded, V2rayTypes
    <3> QED
      BY <3>1, <3>2, <3>3, <3>4, <3>5 DEF Answers, V2rayTypes
  <2>3. Routed(Decoded(b), b).status = "ok"
    BY <2>1, <2>2 DEF Routed, Info
  <2> QED
    BY <1>1, <1>3, <2>3 DEF GetNodeInfo, UniProxy
<1> QED
  BY <1>2, <1>3

\* xray makes an inbound of every answer that is fit for it.
LEMMA FitForXray ==
    ASSUME NEW b \in Answers, NEW info, SaysOf(b, info), options \in NodeOptions,
           core = "xray", ~Unfit(b)
    PROVE  BuildInbound(info, options).status = "ok"
<1> DEFINE transport == Stream(info, options)
           plain == Inbound(info, transport, "ech" \in info.tls)
           in == CASE info.security = Tls     -> XrayTls(plain, options)
                   [] info.security = Reality -> XrayReality(plain, info.tls)
                   [] OTHER                   -> [plain EXCEPT !.ech = FALSE]
<1>1. ~UnfitForXray(b) /\ (options.cert = "nil" => Wanted(b) # Tls)
  BY DEF Unfit
<1>2. b.type \in V2rayTypes \cup {"trojan", "shadowsocks"} /\ info.type = b.type
  BY <1>1 DEF UnfitForXray, SaysOf
<1>3. ~DNSFails(info, options)
  BY <1>1 DEF UnfitForXray, DNSFails, SaysOf
<1>4. info.security = Wanted(b) /\ info.security \in {None, Tls, Reality}
  BY <1>2, SecurityWanted DEF V2rayTypes
<1>5. /\ transport \notin {"error", "nil"}
      /\ transport \in {"ws", "httpupgrade"} =>
           \/ info.type \in V2rayTypes /\ b.network \in {"ws", "httpupgrade"}
           \/ info.type = "trojan"
  <2>1. CASE b.type \in V2rayTypes
    <3>1. info.network = b.network /\ info.settings = NetworkOf(b)
      BY <2>1 DEF SaysOf, Tcps
    <3>2. transport = BuildV2ray(info, options)
      BY <1>2, <2>1 DEF Stream, V2rayTypes
    <3>3. /\ NetworkOf(b) \notin {"absent", "bad"}
          /\ b.network \in {"tcp", "ws", "grpc", "httpupgrade", "xhttp"}
          /\ b.type = "vless" => ~FallbacksFail(options)
      BY <1>1, <2>1 DEF UnfitForXray, FallbacksFail
    <3> QED
      BY <1>2, <2>1, <3>1, <3>2, <3>3 DEF BuildV2ray
  <2>2. CASE b.type = "trojan"
    <3>1. info.network = b.network /\ info.settings = NetworkOf(b)
      BY <2>2 DEF SaysOf, Tcps
    <3>2. transport = BuildTrojan(info, options)
      BY <1>2, <2>2 DEF Stream, V2rayTypes
    <3>3. /\ NetworkOf(b) \notin {"absent", "bad"}
          /\ b.network \in {Blank, "tcp", "ws", "grpc"}
          /\ ~FallbacksFail(options)
      BY <1>1, <2>2 DEF UnfitForXray, FallbacksFail
    <3> QED
      BY <1>2, <2>2, <3>1, <3>2, <3>3 DEF BuildTrojan
  <2>3. CASE b.type = "shadowsocks"
    BY <1>2, <2>3 DEF Stream, V2rayTypes
  <2> QED
    BY <1>2, <2>1, <2>2, <2>3
<1>6. plain \in Ins(info.port, transport, None, "none", "none", "none", BOOLEAN)
  BY DEF Ins, Inbound
<1> HIDE DEF transport, plain
<1>7. in.status = "ok" /\ in.transport = transport /\ (info.security # Reality => in.security # Reality)
  <2>1. CASE info.security = Tls
    <3>1. in = XrayTls(plain, options) /\ options.cert # "nil"
      BY <1>1, <1>4, <2>1
    <3> HIDE DEF in
    <3>2. in = [plain EXCEPT !.ech = FALSE] \/ in = [plain EXCEPT !.security = Tls]
      BY <3>1 DEF XrayTls
    <3>3. [plain EXCEPT !.ech = FALSE] \in Ins(info.port, transport, None, "none", "none", "none", BOOLEAN)
      BY <1>6, Unhelloed
    <3>4. [plain EXCEPT !.security = Tls] \in Ins(info.port, transport, Tls, "none", "none", "none", BOOLEAN)
      BY <1>6, Altered
    <3>5. in \in Ins(info.port, transport, None, "none", "none", "none", BOOLEAN)
            \/ in \in Ins(info.port, transport, Tls, "none", "none", "none", BOOLEAN)
      BY <3>2, <3>3, <3>4
    <3>6. in.status = "ok" /\ in.transport = transport /\ (in.security = None \/ in.security = Tls)
      BY <3>5, InsFields
    <3> QED
      BY <2>1, <3>6
  <2>2. CASE info.security = Reality
    <3>1. b.type \in V2rayTypes
      BY <1>2, <1>4, <2>2 DEF Wanted, V2rayTypes
    <3>2. info.tls \cap {"server_name", "dest"} # {} /\ "short_id" \in info.tls
      <4>1. TlsOf(b) \cap {"server_name", "dest"} # {} /\ "short_id" \in TlsOf(b)
        BY <1>1, <1>4, <2>2, <3>1 DEF UnfitForXray, Wanted, V2rayTypes
      <4>2. info.tls \ {"ech"} = TlsOf(b) \ {"ech"}
        BY <3>1 DEF SaysOf, Tcps
      <4> QED
        BY <4>1, <4>2
    <3>3. in = [plain EXCEPT !.security = Reality, !.server_name = XrayName(info.tls),
                             !.dest = XrayDest(info.tls), !.ech = FALSE, !.server_port = XrayPort(info.tls)]
      BY <2>2, <3>2 DEF XrayReality, XrayName, XrayDest, XrayPort
    <3> HIDE DEF in
    <3>4. in \in Ins(info.port, transport, Reality, XrayName(info.tls), XrayDest(info.tls),
                     XrayPort(info.tls), BOOLEAN)
      BY <1>6, <3>3, Unhelloed
    <3> QED
      BY <2>2, <3>4, InsFields
  <2>3. CASE info.security = None
    <3>1. in = [plain EXCEPT !.ech = FALSE]
      BY <2>3
    <3> HIDE DEF in
    <3>2. in \in Ins(info.port, transport, None, "none", "none", "none", BOOLEAN)
      BY <1>6, <3>1, Unhelloed
    <3> QED
      BY <3>2, InsFields
  <2> QED
    BY <1>4, <2>1, <2>2, <2>3
<1>8. ~XrayRefuses(in)
  <2> HIDE DEF in
  <2>1. ASSUME XrayRefuses(in) PROVE FALSE
    <3>1. info.security = Reality /\ transport \in {"ws", "httpupgrade"}
      BY <1>7, <2>1 DEF XrayRefuses
    <3>2. b.type \in V2rayTypes /\ b.tls = Reality
      BY <1>2, <1>4, <3>1 DEF Wanted, V2rayTypes
    <3>3. b.network \notin {"ws", "httpupgrade"} /\ b.type # "trojan"
      BY <1>1, <3>2 DEF UnfitForXray, V2rayTypes
    <3> QED
      BY <1>2, <1>5, <3>1, <3>3
  <2> QED
    BY <2>1
<1>9. BuildInbound(info, options) = in
  BY <1>3, <1>5, <1>8 DEF BuildInbound, transport, plain
<1> QED
  BY <1>7, <1>9

\* So does sing.
LEMMA FitForSing ==
    ASSUME NEW b \in Answers, NEW info, SaysOf(b, info), options \in NodeOptions,
           panelType \in {"ppanel", "uniproxy"}, core = "sing", ~Unfit(b)
    PROVE  GetInboundOptions(info, options).status = "ok"
<1> DEFINE plain == Inbound(info, "tcp", FALSE)
           secured == CASE info.security = Tls     -> SingTls(plain, options)
                        [] info.security = Reality -> SingReality(plain, info)
                        [] OTHER                   -> plain
           transport == SingTransport(info)
           in == [secured EXCEPT !.transport = transport]
<1>1. ~UnfitForSing(b) /\ (options.cert = "nil" => Wanted(b) # Tls)
  BY DEF Unfit
<1>2. info.type = b.type
  BY DEF SaysOf
<1>3. info.security = Wanted(b) /\ info.security \in {None, Tls, Reality}
  <2>1. b.type \in {"tuic", "hysteria", "hysteria2"} => panelType # "ppanel"
    BY <1>1 DEF UnfitForSing
  <2>2. panelType # "ppanel" => info.security = Wanted(b)
    BY DEF SaysOf
  <2> QED
    BY <2>1, <2>2, SecurityWanted
<1>4. transport \in {"tcp", "http", "ws", "grpc", "httpupgrade"}
  <2>1. CASE b.type \in V2rayTypes
    <3>1. info.network = b.network /\ info.settings = NetworkOf(b)
      BY <2>1 DEF SaysOf, Tcps
    <3>2. transport = SingV2ray(info)
      BY <1>2, <2>1 DEF SingTransport, V2rayTypes
    <3>3. /\ b.network \in {Blank, "tcp", "ws", "grpc", "httpupgrade"}
          /\ b.network # Blank => NetworkOf(b) # "bad"
          /\ b.network = "tcp" => NetworkOf(b) # "pathless"
      BY <1>1, <2>1 DEF UnfitForSing
    <3> QED
      BY <3>1, <3>2, <3>3, BlankIsNoName DEF SingV2ray
  <2>2. CASE b.type = "trojan"
    <3>1. info.network = b.network /\ info.settings = NetworkOf(b)
      BY <2>2 DEF SaysOf, Tcps
    <3>2. transport = SingTrojan(info)
      BY <1>2, <2>2 DEF SingTransport, V2rayTypes
    <3>3. b.network \in {"ws", "grpc"} => NetworkOf(b) # "bad"
      BY <1>1, <2>2 DEF UnfitForSing
    <3> QED
      BY <3>1, <3>2, <3>3 DEF SingTrojan
  <2>3. CASE b.type \notin V2rayTypes \cup {"trojan"}
    BY <1>2, <2>3 DEF SingTransport
  <2> QED
    BY <2>1, <2>2, <2>3
<1>5. plain \in Ins(info.port, "tcp", None, "none", "none", "none", {FALSE})
  BY DEF Ins, Inbound
<1> HIDE DEF transport, plain
<1>6. /\ secured.status = "ok" /\ in.transport = transport
      /\ in.security = SecurityLeft(info)
  <2>1. CASE info.security = Tls
    <3>1. secured = SingTls(plain, options) /\ options.cert # "nil"
      BY <1>1, <1>3, <2>1
    <3> HIDE DEF secured
    <3>2. CASE options.cert = "none"
      <4>1. secured = plain /\ SecurityLeft(info) = None
        BY <2>1, <3>1, <3>2 DEF SingTls, SecurityLeft
      <4>2. in \in Ins(info.port, transport, None, "none", "none", "none", {FALSE})
        BY <1>5, <4>1, Altered
      <4> QED
        BY <1>5, <4>1, <4>2, InsFields
    <3>3. CASE options.cert # "none"
      <4>1. secured = [plain EXCEPT !.security = Tls] /\ SecurityLeft(info) = Tls
        BY <2>1, <3>1, <3>3 DEF SingTls, SecurityLeft
      <4>2. secured \in Ins(info.port, "tcp", Tls, "none", "none", "none", {FALSE})
        BY <1>5, <4>1, Altered
      <4>3. in \in Ins(info.port, transport, Tls, "none", "none", "none", {FALSE})
        BY <4>2, Altered
      <4> HIDE DEF in
      <4>4. secured.status = "ok"
        BY <4>2, InsFields
      <4>5. in.transport = transport /\ in.security = Tls
        BY <4>3, InsFields
      <4> QED
        BY <4>1, <4>4, <4>5
    <3> QED
      BY <3>2, <3>3
  <2>2. CASE info.security = Reality
    <3>1. b.type \in V2rayTypes \cup {"anytls"}
      BY <1>1, <1>3, <2>2 DEF Wanted, UnfitForSing, Answers, V2rayTypes
    <3>2. secured = [plain EXCEPT !.security = Reality, !.server_name = SingName(info.tls),
                                  !.dest = SingDest(info.tls), !.server_port = SingPort(info.tls)]
      BY <1>2, <2>2, <3>1 DEF SingReality, SingName, SingPort
    <3> HIDE DEF secured
    <3>3. secured \in Ins(info.port, "tcp", Reality, SingName(info.tls), SingDest(info.tls),
                          SingPort(info.tls), {FALSE})
      BY <1>5, <3>2, Altered
    <3>4. in \in Ins(info.port, transport, Reality, SingName(info.tls), SingDest(info.tls),
                     SingPort(info.tls), {FALSE})
      BY <3>3, Altered
    <3> QED
      BY <2>2, <3>3, <3>4, InsFields DEF SecurityLeft
  <2>3. CASE info.security = None
    <3>1. secured = plain /\ SecurityLeft(info) = None
      BY <2>3 DEF SecurityLeft
    <3> HIDE DEF secured
    <3>2. in \in Ins(info.port, transport, None, "none", "none", "none", {FALSE})
      BY <1>5, <3>1, Altered
    <3> QED
      BY <1>5, <3>1, <3>2, InsFields
  <2> QED
    BY <1>3, <2>1, <2>2, <2>3
<1>7. ~SingRefuses(in, info)
  <2> HIDE DEF in
  <2>1. ASSUME info.type \in {"tuic", "hysteria", "hysteria2"} PROVE in.security # None
    <3>1. info.security = Tls /\ options.cert # "none"
      BY <1>1, <1>2, <1>3, <2>1 DEF Wanted, UnfitForSing
    <3> QED
      BY <1>6, <3>1 DEF SecurityLeft
  <2>2. info.type = "naive" => info.network = "tcp"
    BY <1>1, <1>2 DEF SaysOf, Tcps, UnfitForSing
  <2> QED
    BY <1>4, <1>6, <2>1, <2>2 DEF SingRefuses
<1>8. GetInboundOptions(info, options) = in
  BY <1>4, <1>6, <1>7 DEF GetInboundOptions, SingTransport, transport, plain
<1>9. in.status = "ok"
  BY <1>6
<1> QED
  BY <1>8, <1>9

\* And hysteria2.
LEMMA FitForHy2 ==
    ASSUME NEW b \in Answers, NEW info, SaysOf(b, info), core = "hysteria2", ~Unfit(b)
    PROVE  Hy2Outcome(info).status = "ok"
<1>1. ~UnfitForHy2(b)
  BY DEF Unfit
<1>2. /\ info.type = "hysteria2" /\ info.obfs \in {Blank, "plain", "salamander"}
      /\ options.cert = "file" /\ options.hy.wrong = "nothing" /\ options.hy.listens = "no"
  BY <1>1 DEF UnfitForHy2, SaysOf, Answers
<1>3. Hy2Outcome(info) = [Inbound(info, "quic", FALSE) EXCEPT !.security = Tls]
  BY <1>2 DEF Hy2Outcome, GetHyConfig, TLSConfigFails, QUICConfigFails, ConnFails, RequestHookFails,
              OutboundFails, MasqHandlerFails
<1> QED
  BY <1>3 DEF Inbound

\* What is decoded of a fit answer has its certificate, too.
LEMMA FitIsServed ==
    ASSUME NEW b \in Answers, core \in {"xray", "sing", "hysteria2"},
           panelType \in {"ppanel", "uniproxy"}, options \in NodeOptions, ~Unfit(b)
    PROVE  GetNodeInfo(panelType, b).status = "ok" /\ Result(GetNodeInfo(panelType, b)).status = "ok"
<1> DEFINE info == GetNodeInfo(panelType, b)
<1>1. info.status = "ok" /\ SaysOf(b, info)
  BY FitIsDecoded, Decodes
<1> HIDE DEF info
<1>2. RequestCert(info).status = "ok"
  <2>1. info.security = Tls => Wanted(b) = Tls
    BY <1>1, SecurityWanted
  <2>2. options.cert # "pathless" /\ (options.cert = "nil" => Wanted(b) # Tls)
    BY DEF Unfit
  <2>3. CASE info.security = Tls
    BY <2>1, <2>2, <2>3 DEF RequestCert
  <2>4. CASE info.security # Tls
    BY <2>4 DEF RequestCert
  <2> QED
    BY <2>3, <2>4
<1>3. Outcome(info).status = "ok"
  <2>1. CASE core = "xray"
    BY <1>1, <2>1, FitForXray DEF Outcome
  <2>2. CASE core = "sing"
    BY <1>1, <2>2, FitForSing DEF Outcome
  <2>3. CASE core = "hysteria2"
    BY <1>1, <2>3, FitForHy2 DEF Outcome
  <2> QED
    BY <2>1, <2>2, <2>3
<1>4. Result(info) = Outcome(info)
  BY <1>1, <1>2 DEF Result
<1> QED
  BY <1>1, <1>3, <1>4 DEF info

\* A node is missing in a process that is up only for its certificate.
SurvivesInv ==
    /\ process = "up" /\ inbound = Nothing => options.cert = "pathless"
    /\ SurvivesFitAnswers

\* What ends the process is unfit; neither the panel nor the core changes.
LEMMA SurvivesStep == TypesInv /\ SurvivesInv /\ [Next]_vars => SurvivesInv'
<1> SUFFICES ASSUME TypesInv, SurvivesInv, [Next]_vars PROVE SurvivesInv'
  OBVIOUS
<1> DEFINE info == GetNodeInfo(panelType, body)
           in == Result(info)
<1>1. Unfit(body) \/ (info.status = "ok" /\ in.status = "ok")
  BY FitIsServed DEF TypesInv
<1>2. ASSUME UNCHANGED <<config, options>>
      PROVE  \A b : Unfit(b) => Unfit(b)'
  BY <1>2 DEF config, Unfit, UnfitForXray, UnfitForSing, UnfitForHy2, NetworkOf
<1>3. ASSUME UNCHANGED <<config, options>>, Unfit(body), from' = body,
             process' = "up" /\ inbound' = Nothing => options.cert = "pathless"
      PROVE  SurvivesInv'
  BY <1>2, <1>3 DEF SurvivesInv, SurvivesFitAnswers
<1>4. ASSUME UNCHANGED <<config, options>>, from' = body, process' = "up", inbound' # Nothing
      PROVE  SurvivesInv'
  BY <1>4 DEF SurvivesInv, SurvivesFitAnswers
<1>5. ASSUME UNCHANGED <<config, options>>, from' = body, in.status = "ok", AddNode(in)
      PROVE  SurvivesInv'
  <2> HIDE DEF in
  <2>1. CASE inbound' = in /\ process' = "up"
    BY <1>4, <1>5, <2>1 DEF Nothing
  <2>2. CASE process' = "crashed" /\ core = "hysteria2" /\ options.hy.listens = "https"
    <3>1. Unfit(body)
      BY <2>2 DEF Unfit, UnfitForHy2
    <3> QED
      BY <1>3, <1>5, <2>2, <3>1
  <2> QED
    BY <1>5, <2>1, <2>2, AddNodeServes
<1> HIDE DEF in, info
<1>6. CASE Start
  <2>1. UNCHANGED <<config, options>> /\ from' = body
    BY <1>6 DEF Start
  <2>2. CASE in.status = "ok"
    BY <1>5, <1>6, <2>1, <2>2 DEF Start, in, info
  <2>3. CASE in.status # "ok"
    <3>1. process' \in {"exited", "crashed"}
      BY <1>6, <2>3 DEF Start, Ends, in, info
    <3> QED
      BY <1>1, <1>3, <2>1, <2>3, <3>1
  <2> QED
    BY <2>2, <2>3
<1>7. CASE Poll
  <2>1. UNCHANGED <<config, options>> /\ process = "up"
    BY <1>7 DEF Poll
  <2>2. CASE info.status = "error"
    <3>1. UNCHANGED <<inbound, process>>
      BY <1>7, <2>2 DEF Poll, PollError, info
    <3> QED
      BY <2>1, <3>1 DEF SurvivesInv, SurvivesFitAnswers
  <2>3. CASE info.status = "panic"
    <3>1. from' = body /\ process' = "crashed"
      BY <1>7, <2>3 DEF Poll, Ends, info
    <3> QED
      BY <1>1, <1>3, <2>1, <2>3, <3>1
  <2>4. CASE info.status \notin {"error", "panic"}
    <3>1. from' = body /\ Reload(info)
      BY <1>7, <2>4 DEF Poll, info
    <3>2. CASE inbound = Nothing
      <4>1. process' = "crashed"
        BY <3>1, <3>2 DEF Reload, Ends
      <4>2. Unfit(body)
        BY <2>1, <3>2 DEF SurvivesInv, Unfit
      <4> QED
        BY <1>3, <2>1, <3>1, <4>1, <4>2
    <3>3. CASE inbound # Nothing /\ in.status = "ok"
      BY <1>5, <2>1, <3>1, <3>3 DEF Reload, in
    <3>4. CASE inbound # Nothing /\ in.status # "ok"
      <4>1. process' = "up" /\ inbound' = Nothing => options.cert = "pathless"
        <5>1. RequestCert(info).status = "error" => options.cert = "pathless"
          BY FailedIs DEF RequestCert
        <5>2. process' = "up" /\ inbound' = Nothing => RequestCert(info).status = "error"
          BY <3>1, <3>4 DEF Reload, Ends, Serves, Nothing, Empty, in
        <5> QED
          BY <5>1, <5>2
      <4> QED
        BY <1>1, <1>3, <2>1, <3>1, <3>4, <4>1
    <3> QED
      BY <3>2, <3>3, <3>4
  <2> QED
    BY <2>2, <2>3, <2>4
<1>8. CASE FileChanges
  <2>1. PICK o \in Optionss : options' = [options EXCEPT !.hy = o.hy]
    BY <1>8 DEF FileChanges
  <2>2. options'.cert = options.cert
    BY <2>1 DEF TypesInv, NodeOptions
  <2>3. process = "up" /\ UNCHANGED <<inbound, process>>
    BY <1>8 DEF FileChanges
  <2> QED
    BY <2>2, <2>3 DEF SurvivesInv, SurvivesFitAnswers
<1>9. CASE Restart
  BY <1>9 DEF Restart, SurvivesInv, SurvivesFitAnswers
<1>10. CASE PollFails \/ PanelChanges \/ UNCHANGED vars
  <2>1. UNCHANGED <<config, options, from, inbound, process>>
    BY <1>10 DEF PollFails, PanelChanges, vars, config
  <2> QED
    BY <1>2, <2>1 DEF SurvivesInv, SurvivesFitAnswers
<1> QED
  BY <1>6, <1>7, <1>8, <1>9, <1>10 DEF Next

\* The process ends for no answer that its core can serve and the panel has
\* written in full, whatever was served before; for any answers and options.
THEOREM FitAnswersAreSurvived == Spec => []SurvivesFitAnswers
<1>1. Init => TypesInv /\ SurvivesInv
  BY ServingAssumption DEF Init, TypesInv, SurvivesInv, SurvivesFitAnswers
<1>2. SurvivesInv => SurvivesFitAnswers
  BY DEF SurvivesInv
<1> QED
  BY <1>1, <1>2, TypesStep, SurvivesStep, PTL DEF Spec
-----------------------------------------------------------------------------
\* The configuration of the process: Server, with its own names

CONSTANTS MaxEdits, MaxFaults, Reloads, NoVersion

VARIABLES file, torn, watched, window, missed, conf, vc, nodes, pc, server, faults

Srv == INSTANCE Server WITH None <- NoVersion, process <- server

\* Reloads that take less than the ten seconds the watcher waits.
OneAtATime == \A r, s \in Reloads : r = s

Labels == {"idle", "sleep", "load", "closeNodes", "closeCore", "newCore", "startCore",
           "startNodes", "started"}

TypeOK ==
    /\ pc \in [Reloads -> Labels]
    /\ faults \in Nat

\* No reload touches what serves: its goroutine waits, or has ended.
Quiet == \A r \in Reloads : pc[r] \in {"idle", "sleep"}

\* A server that is not up has no reload under way.
DownInv == server # "up" => Srv!Idle

\* What a reload finds at each step.  Until a call fails it has controllers to
\* close; after it has closed them there are none before the last two steps.
ReloadInv ==
    server = "up" =>
      /\ Quiet => (nodes.state = "all" \/ faults = 0 => Srv!Serves(conf))
      /\ \A r \in Reloads :
           /\ pc[r] \in {"load", "closeNodes"} /\ faults = 0 => nodes.state = "all"
           /\ pc[r] \in {"closeCore", "newCore", "startCore", "startNodes"} => nodes = Srv!NoNodes
           /\ pc[r] = "startCore" => vc = Srv!Core(conf, "new")
           /\ pc[r] \in {"startNodes", "started"} => vc = Srv!Core(conf, "running")
           /\ pc[r] = "started" => nodes = Srv!Nodes(conf, "some")

IInv == TypeOK /\ DownInv /\ ReloadInv

USE DEF Srv!Core, Srv!Nodes, Srv!NoNodes

\* The server starts with everything running.
LEMMA InitInv == Srv!Init => IInv
BY DEF Srv!Init, IInv, TypeOK, Labels, DownInv, Srv!Idle, ReloadInv, Quiet, Srv!Serves

\* A crash leaves no reload behind.
LEMMA CrashStep ==
    ASSUME IInv, Srv!Crash, faults' \in Nat
    PROVE  IInv'
BY DEF IInv, TypeOK, Labels, DownInv, Srv!Idle, ReloadInv, Srv!Crash

\* What the watcher does starts a reload at most, which waits first.
LEMMA EventStep ==
    ASSUME IInv, Srv!Event, UNCHANGED <<conf, vc, nodes, server, faults>>
    PROVE  IInv'
<1> USE DEF IInv, TypeOK, Labels, DownInv, Srv!Idle, ReloadInv, Quiet, Srv!Serves
<1>1. CASE UNCHANGED pc
  BY <1>1
<1>2. CASE server = "up" /\ pc' # pc
  <2>1. PICK r \in Reloads : pc[r] = "idle" /\ pc' = [pc EXCEPT ![r] = "sleep"]
    BY <1>2 DEF Srv!Event
  <2>2. Quiet' => Quiet
    BY <2>1
  <2> QED
    BY <2>1, <2>2, <1>2
<1> QED
  BY <1>1, <1>2 DEF Srv!Event

\* Alone, a reload leaves at each step what the next one needs.
LEMMA ReloadStepInv ==
    ASSUME OneAtATime, IInv, Srv!ReloadStep
    PROVE  IInv'
<1>1. PICK r \in Reloads : \/ Srv!Clear(r) \/ Srv!Load(r) \/ Srv!CloseNodes(r) \/ Srv!CloseCore(r)
                           \/ Srv!NewCore(r) \/ Srv!StartCore(r) \/ Srv!StartNodes(r) \/ Srv!StartedNodes(r)
  BY DEF Srv!ReloadStep
<1>2. \A s \in Reloads : s = r
  BY DEF OneAtATime
<1>3. faults \in Nat /\ pc \in [Reloads -> Labels]
  BY DEF IInv, TypeOK
<1>4. server = "up"
  BY <1>1 DEF Srv!Clear, Srv!Load, Srv!CloseNodes, Srv!CloseCore, Srv!Close, Srv!NewCore, Srv!GetCore, Srv!SingNew, Srv!StartCore,
              Srv!StartNodes, Srv!StartedNodes, Srv!Step
<1>5. CASE Srv!Crash
  <2>1. faults' \in Nat
    BY <1>1, <1>3, <1>4, <1>5
       DEF Srv!Clear, Srv!Load, Srv!CloseNodes, Srv!CloseCore, Srv!Close, Srv!NewCore, Srv!GetCore, Srv!SingNew, Srv!StartCore,
           Srv!StartNodes, Srv!StartedNodes, Srv!Step, Srv!Works, Srv!Fails, Srv!Crash
  <2> QED
    BY <1>5, <2>1, CrashStep
<1> USE <1>2, <1>3, <1>4 DEF IInv, TypeOK, DownInv, ReloadInv, Quiet, Srv!Serves, Labels, Srv!Step, Srv!Works, Srv!Fails
<1>6. CASE Srv!Clear(r)
  BY <1>6 DEF Srv!Clear
<1>7. CASE Srv!Load(r)
  BY <1>7 DEF Srv!Load
<1>8. CASE Srv!CloseNodes(r)
  BY <1>5, <1>8 DEF Srv!CloseNodes
<1>9. CASE Srv!CloseCore(r)
  BY <1>5, <1>9 DEF Srv!CloseCore, Srv!Close
<1>10. CASE Srv!NewCore(r)
  BY <1>5, <1>10 DEF Srv!NewCore, Srv!GetCore, Srv!SingNew
<1>11. CASE Srv!StartCore(r)
  BY <1>11 DEF Srv!StartCore
<1>12. CASE Srv!StartNodes(r)
  BY <1>12 DEF Srv!StartNodes
<1>13. CASE Srv!StartedNodes(r)
  BY <1>13 DEF Srv!StartedNodes
<1> QED
  BY <1>1, <1>6, <1>7, <1>8, <1>9, <1>10, <1>11, <1>12, <1>13

\* Alone, every step preserves the invariant.
LEMMA NextInv == OneAtATime /\ IInv /\ [Srv!Next]_(Srv!vars) => IInv'
<1> SUFFICES ASSUME OneAtATime, IInv, [Srv!Next]_(Srv!vars) PROVE IInv'
  OBVIOUS
<1>1. CASE Srv!Save
  BY <1>1, EventStep DEF Srv!Save
<1>2. CASE Srv!Written
  BY <1>2, EventStep DEF Srv!Written
<1>3. CASE Srv!Replace
  <2>1. CASE watched
    BY <1>3, <2>1, EventStep DEF Srv!Replace
  <2>2. CASE ~watched
    BY <1>3, <2>2 DEF Srv!Replace, IInv, TypeOK, DownInv, Srv!Idle, ReloadInv, Quiet, Srv!Serves
  <2> QED
    BY <2>1, <2>2
<1>4. CASE Srv!Elapse
  BY <1>4 DEF Srv!Elapse, IInv, TypeOK, DownInv, Srv!Idle, ReloadInv, Quiet, Srv!Serves
<1>5. CASE Srv!ReloadStep
  BY <1>5, ReloadStepInv
<1>6. CASE Srv!Boot
  BY <1>6 DEF Srv!Boot, Srv!Works, Srv!Fails, IInv, TypeOK, Labels, DownInv, Srv!Idle, ReloadInv, Quiet, Srv!Serves
<1>7. CASE UNCHANGED Srv!vars
  BY <1>7 DEF Srv!vars, IInv, TypeOK, DownInv, Srv!Idle, ReloadInv, Quiet, Srv!Serves
<1> QED
  BY <1>1, <1>2, <1>3, <1>4, <1>5, <1>6, <1>7 DEF Srv!Next

-----------------------------------------------------------------------------
\* As long as reloads do not overlap, a server that is up and not reloading
\* runs what it has read, and nothing but a failed call can keep it from that.
THEOREM ReloadsServeWhatTheyRead ==
    ASSUME OneAtATime
    PROVE  Srv!Spec => []Srv!ServesWhatItRead
<1>1. IInv => Srv!ServesWhatItRead
  BY DEF IInv, ReloadInv, Srv!ServesWhatItRead, Quiet, Srv!Idle
<1>2. IInv /\ [Srv!Next]_(Srv!vars) => IInv'
  BY OneAtATime, NextInv
<1> QED
  BY <1>1, <1>2, InitInv, PTL DEF Srv!Spec
=============================================================================
