------------------------------ MODULE NodeInfo ------------------------------
(***************************************************************************)
(* GetNodeInfo of api/panel/node.go: what the client makes of the body a   *)
(* panel answers with.  A body is a record of what it has and where:       *)
(*   type, port, tls, network   as written; port is 0 when there is none   *)
(*   snake, camel    network_settings and networkSettings: "absent",       *)
(*                   "bad" (cannot be decoded), "plain", or "http", a tcp  *)
(*                   header, which is "pathless" with an empty path        *)
(*   tlsSnake, tlsCamel   tls_settings and tlsSettings: Absent, or the set *)
(*                   of what they give                                     *)
(*   ech             keys at the top level                                 *)
(*   interval        whether both intervals are there                      *)
(*   route           the first route: "none", "block", "dns", "main", or   *)
(*                   one whose match is null or an empty list              *)
(*   obfs            of hysteria2                                          *)
(***************************************************************************)
EXTENDS Naturals

None    == 0
Tls     == 1
Reality == 2

\* A text that is not set, or set to nothing.
Blank == ""

\* No tls_settings at all.
Absent == {"absent"}

\* What the answers may be: "kcp" stands for every network no core knows,
\* "other" for every obfs hysteria2 does not.
Settings == {"absent", "bad", "plain", "http", "pathless"}
TlsKeys  == {"server_name", "dest", "short_id", "server_port", "ech"}

Answers ==
    [type : {"vmess", "vless", "trojan", "shadowsocks", "tuic", "anytls", "naive", "hysteria", "hysteria2"},
     port : Nat, tls : {None, Tls, Reality},
     network : {Blank, "tcp", "ws", "grpc", "httpupgrade", "xhttp", "kcp"},
     snake : Settings, camel : Settings,
     tlsSnake : {Absent} \cup SUBSET TlsKeys, tlsCamel : {Absent} \cup SUBSET TlsKeys,
     ech : BOOLEAN, interval : BOOLEAN,
     route : {"none", "block", "dns", "main", "null", "empty"},
     obfs : {Blank, "plain", "salamander", "other"}]

Failed(how) == [status |-> how]

-----------------------------------------------------------------------------
\* Settings under one of two keys

\* Fault: the first key wins.
Either_First(first, back, absent) == IF first # absent THEN first ELSE back

\* The second key, when it is there, replaces the first.
Either(first, back, absent) == IF back # absent THEN back ELSE first

Given(tls) == IF tls = Absent THEN {} ELSE tls

\* mergeECHSettings adds what is at the top level to what is in the settings.
MergeECH(tls, body) == tls \cup (IF body.ech THEN {"ech"} ELSE {})

TlsSettings(body) == Given(Either(body.tlsSnake, body.tlsCamel, Absent))

V2rayTypes == {"vmess", "vless"}

\* trojan's two fields have each the key that is the other's for vmess.
TrojanSettings(body) == Either(body.camel, body.snake, "absent")

-----------------------------------------------------------------------------
\* The two kinds of panel

Info(type, security, port, network, settings, tls, body) ==
    [status |-> "ok", type |-> type, security |-> security, port |-> port,
     network |-> network, settings |-> settings, tls |-> tls,
     dns |-> "none", block |-> FALSE, obfs |-> body.obfs]

\* Fault: trojan's is not set.
PPanelSecurity_Trojan(body) == IF body.type \in V2rayTypes \cup {"anytls", "naive"} THEN body.tls ELSE None

PPanelSecurity(body) ==
    CASE body.type \in V2rayTypes \cup {"anytls", "naive"} -> body.tls
      [] body.type = "trojan" -> Tls
      [] OTHER -> None

\* ppanel: the common part stays empty, intervals are taken before the
\* configuration is decoded, and vmess and vless know one key only.
PPanel(body) ==
    LET OfType(network, settings, tls) ==
            Info(body.type, PPanelSecurity(body), 0, network, settings, tls, body)
    IN IF ~body.interval THEN Failed("panic")
       ELSE CASE body.type \in V2rayTypes ->
                   OfType(body.network, body.snake, MergeECH(TlsSettings(body), body))
              [] body.type = "trojan" ->
                   OfType(body.network, TrojanSettings(body), MergeECH(TlsSettings(body), body))
              [] body.type \in {"anytls", "naive"} ->
                   OfType(body.network, "absent", TlsSettings(body))
              [] body.type \in {"shadowsocks", "tuic", "hysteria2"} ->
                   OfType(Blank, "absent", {})
              [] OTHER -> Failed("error")

\* The rules and the name servers in the routes.
Routed(info, body) ==
    CASE body.route = "null"  -> Failed("panic")
      [] body.route = "empty" -> Failed("panic")
      [] body.route = "block" -> [info EXCEPT !.block = TRUE]
      [] body.route \in {"dns", "main"} -> [info EXCEPT !.dns = body.route]
      [] OTHER -> info

\* UniProxy: the body is the configuration, and has the common part.
Decoded(body) ==
    LET OfType(security, network, settings, tls) ==
            Info(body.type, security, body.port, network, settings, tls, body)
    IN CASE body.type \in V2rayTypes ->
              OfType(body.tls, body.network, Either(body.snake, body.camel, "absent"),
                     MergeECH(TlsSettings(body), body))
         [] body.type = "trojan" ->
              OfType(Tls, body.network, TrojanSettings(body), MergeECH(TlsSettings(body), body))
         [] body.type \in {"anytls", "naive"} ->
              OfType(body.tls, body.network, "absent", TlsSettings(body))
         [] body.type = "shadowsocks" ->
              OfType(None, Blank, "absent", {})
         [] body.type \in {"tuic", "hysteria", "hysteria2"} ->
              OfType(Tls, Blank, "absent", {})

UniProxy(body) ==
    LET info == Routed(Decoded(body), body)
    IN IF info.status = "ok" /\ ~body.interval THEN Failed("panic") ELSE info

GetNodeInfo(panelType, body) ==
    IF panelType = "ppanel" THEN PPanel(body) ELSE UniProxy(body)
=============================================================================
