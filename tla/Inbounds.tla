------------------------------ MODULE Inbounds ------------------------------
(***************************************************************************)
(* What the cores make of a NodeInfo and the node's options: buildInbound  *)
(* of core/xray/inbound.go, getInboundOptions of core/sing/node.go and     *)
(* getHyConfig of core/hy2/config.go.  The options are a record of:        *)
(*   cert      "nil" (no CertConfig), "none" (a mode that disables it),    *)
(*             "file", or "pathless", a mode whose paths are not given     *)
(*   fallback  "off", "ok" or "empty" (enabled, but with no list)          *)
(*   dnsPath   whether the file of name servers can be read                *)
(*   hy        the file of hysteria2: what is wrong in it ("nothing",      *)
(*             "unreadable", "quic", "sniff", "outbound", "masq") and      *)
(*             where its masquerade listens ("no", "http", "https")        *)
(* An outcome that is not an inbound has status "error" or "panic".        *)
(***************************************************************************)
EXTENDS NodeInfo

NodeOptions ==
    [cert : {"nil", "none", "file", "pathless"}, fallback : {"off", "ok", "empty"}, dnsPath : BOOLEAN,
     hy : [wrong : {"nothing", "unreadable", "quic", "sniff", "outbound", "masq"},
           listens : {"no", "http", "https"}]]

Inbound(info, transport, ech) ==
    [status |-> "ok", port |-> info.port, transport |-> transport, security |-> None,
     server_name |-> "none", dest |-> "none", server_port |-> "none", ech |-> ech]

-----------------------------------------------------------------------------
\* xray

\* buildVlessFallbacks, buildTrojanFallbacks
FallbacksFail(options) == options.fallback = "empty"

\* The transport of the stream settings; "nil" when there are none.
BuildV2ray(info, options) ==
    IF info.type = "vless" /\ FallbacksFail(options) THEN "error"
    ELSE IF info.settings = "absent" THEN "nil"
    ELSE IF info.settings = "bad" \/ info.network \notin {"tcp", "ws", "grpc", "httpupgrade", "xhttp"}
      THEN "error"
    ELSE IF info.network = "tcp" /\ info.settings \in {"http", "pathless"} THEN "http"
    ELSE info.network

\* Settings that are not there cannot be decoded either.
BuildTrojan(info, options) ==
    IF FallbacksFail(options) \/ info.settings \in {"bad", "absent"} THEN "error"
    ELSE IF info.network \in {Blank, "tcp"}
      THEN IF info.settings \in {"http", "pathless"} THEN "http" ELSE "tcp"
    ELSE IF info.network \in {"ws", "grpc"} THEN info.network
    ELSE "error"

Stream(info, options) ==
    CASE info.type \in V2rayTypes    -> BuildV2ray(info, options)
      [] info.type = "trojan"        -> BuildTrojan(info, options)
      [] info.type = "shadowsocks"   -> "tcp"
      [] OTHER                       -> "error"

XrayTls(in, options) ==
    CASE options.cert = "nil"  -> Failed("error")
      [] options.cert = "none" -> [in EXCEPT !.ech = FALSE]
      [] OTHER                 -> [in EXCEPT !.security = Tls]

\* Reality needs a destination, a name and short ids; a missing destination is
\* the name, and a missing name is the host of the destination.
XrayReality(in, tls) ==
    LET name == IF "server_name" \in tls THEN "server_name" ELSE "dest"
        dest == IF "dest" \in tls THEN "dest" ELSE "server_name"
    IN IF tls \cap {"server_name", "dest"} = {} \/ "short_id" \notin tls THEN Failed("error")
       ELSE [in EXCEPT !.security = Reality, !.server_name = name, !.dest = dest, !.ech = FALSE,
                       !.server_port = IF "server_port" \in tls THEN "given" ELSE "443"]

\* updateDNSConfig: the routes of the panel are written to the file.
DNSFails(info, options) == info.dns # "none" /\ ~options.dnsPath

\* What Build of xray's library refuses: Reality over such a transport.
XrayRefuses(in) == in.status = "ok" /\ in.security = Reality /\ in.transport \in {"ws", "httpupgrade"}

\* The settings of the stream are written through a pointer that is nil when
\* there were no network settings.
BuildInbound(info, options) ==
    LET transport == Stream(info, options)
        plain == Inbound(info, transport, "ech" \in info.tls)
        in == CASE info.security = Tls     -> XrayTls(plain, options)
                [] info.security = Reality -> XrayReality(plain, info.tls)
                [] OTHER                   -> [plain EXCEPT !.ech = FALSE]
    IN IF DNSFails(info, options) \/ transport = "error" THEN Failed("error")
       ELSE IF transport = "nil" THEN Failed("panic")
       ELSE IF XrayRefuses(in) THEN Failed("error")
       ELSE in

-----------------------------------------------------------------------------
\* sing-box

SingTls(in, options) ==
    CASE options.cert = "nil"  -> Failed("error")
      [] options.cert = "none" -> in
      [] OTHER                 -> [in EXCEPT !.security = Tls]

\* Fault: the name stands for a destination that is there.
SingDest_Name(tls) == "server_name"

SingDest(tls) == IF "dest" \in tls THEN "dest" ELSE "server_name"

\* anytls keeps its settings apart, every other type is taken for vmess.
SingReality(in, info) ==
    IF info.type \notin V2rayTypes \cup {"anytls"} THEN Failed("panic")
    ELSE [in EXCEPT !.security = Reality,
                    !.server_name = IF "server_name" \in info.tls THEN "server_name" ELSE "none",
                    !.dest = SingDest(info.tls),
                    !.server_port = IF "server_port" \in info.tls THEN "given" ELSE "none"]

SingV2ray(info) ==
    IF info.settings = "bad" /\ info.network \in {"tcp", "ws", "grpc", "httpupgrade"} THEN "error"
    ELSE IF info.network = "tcp"
      THEN CASE info.settings = "http" -> "http"
             [] info.settings = "pathless" -> "panic"
             [] OTHER -> "tcp"
    ELSE IF info.network = Blank THEN "tcp" ELSE info.network

SingTrojan(info) ==
    IF info.network \notin {"ws", "grpc"} THEN "tcp"
    ELSE IF info.settings = "bad" THEN "error" ELSE info.network

\* What Create of sing-box refuses: a transport it does not know, and
\* protocols over QUIC without TLS, which naive is unless it is told not to be.
SingRefuses(in, info) ==
    \/ in.transport \notin {"tcp", "http", "ws", "grpc", "httpupgrade"}
    \/ info.type \in {"tuic", "hysteria", "hysteria2"} /\ in.security = None
    \/ info.type = "naive" /\ info.network # "tcp" /\ in.security = None

GetInboundOptions(info, options) ==
    LET plain == Inbound(info, "tcp", FALSE)
        secured == CASE info.security = Tls     -> SingTls(plain, options)
                     [] info.security = Reality -> SingReality(plain, info)
                     [] OTHER                   -> plain
        transport == CASE info.type \in V2rayTypes -> SingV2ray(info)
                       [] info.type = "trojan"     -> SingTrojan(info)
                       [] OTHER                    -> "tcp"
        in == [secured EXCEPT !.transport = transport]
    IN IF secured.status # "ok" THEN secured
       ELSE IF transport \in {"error", "panic"} THEN Failed(transport)
       ELSE IF SingRefuses(in, info) THEN Failed("error")
       ELSE in

-----------------------------------------------------------------------------
\* hysteria2

\* The certificate is loaded, and must be there.
TLSConfigFails(options) == options.cert # "file"

\* A window, timeout or number of streams below or above what is allowed.
QUICConfigFails(options) == options.hy.wrong = "quic"

\* A socket is bound and then left to the end of the process.
ConnFails(info) == info.obfs \notin {Blank, "plain", "salamander"}

\* Ports that cannot be parsed.
RequestHookFails(options) == options.hy.wrong = "sniff"

\* An outbound without a name or of an unknown type, rules in a file and in the
\* text, a resolver without an address.
OutboundFails(options) == options.hy.wrong = "outbound"

\* A masquerade of an unknown type or without its directory, address or text,
\* or one that listens for HTTP only.
MasqHandlerFails(options) == options.hy.wrong = "masq" \/ options.hy.listens = "http"

\* hysteria2's settings are read through a pointer that is nil in a node of
\* another type.
GetHyConfig(info, options) ==
    IF TLSConfigFails(options) \/ QUICConfigFails(options) THEN Failed("error")
    ELSE IF info.type # "hysteria2" THEN Failed("panic")
    ELSE IF \/ ConnFails(info) \/ RequestHookFails(options)
            \/ OutboundFails(options) \/ MasqHandlerFails(options)
      THEN Failed("error")
    ELSE [Inbound(info, "quic", FALSE) EXCEPT !.security = Tls]
=============================================================================
