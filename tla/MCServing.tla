------------------------------ MODULE MCServing ------------------------------
(***************************************************************************)
(* Answers and options for checking Serving with TLC: for every type, what *)
(* may be in its answer, and one case at a time of what is rarely wrong.   *)
(***************************************************************************)
EXTENDS Serving

Body(type) ==
    [type |-> type, port |-> 1, tls |-> Tls, network |-> "tcp", snake |-> "plain", camel |-> "absent",
     tlsSnake |-> Absent, tlsCamel |-> Absent, ech |-> FALSE, interval |-> TRUE, route |-> "none", obfs |-> Blank]

AllTypes == {"vmess", "vless", "trojan", "shadowsocks", "tuic", "anytls", "naive", "hysteria", "hysteria2"}
Streamed == {"vless", "trojan"}

Full == {"server_name", "dest", "short_id", "server_port"}
TlsSettingss == {Absent, {}, Full, {"server_name", "short_id", "server_port"}, {"dest", "short_id", "ech"}}

\* Networks and where their settings are.
Networks ==
    {[Body(t) EXCEPT !.network = n, !.snake = s, !.camel = c, !.ech = e] :
        t \in Streamed, n \in {Blank, "tcp", "ws", "httpupgrade", "xhttp", "kcp"},
        s \in {"absent", "bad", "plain", "http", "pathless"}, c \in {"absent", "plain"}, e \in BOOLEAN}

\* Securities and where their settings are.
Securities ==
    {[Body(t) EXCEPT !.tls = k, !.tlsSnake = s, !.tlsCamel = c] :
        t \in AllTypes, k \in {None, Tls, Reality}, s \in TlsSettingss, c \in {Absent, Full, {"dest", "ech"}}}

\* The rest, one at a time.
Rest ==
    {[Body(t) EXCEPT !.interval = FALSE] : t \in AllTypes}
        \cup {[Body(t) EXCEPT !.route = r] : t \in AllTypes, r \in {"block", "dns", "main", "null", "empty"}}
        \cup {[Body("naive") EXCEPT !.network = Blank, !.tls = k] : k \in {None, Tls}}
        \cup {[Body("hysteria2") EXCEPT !.obfs = o] : o \in {"salamander", "plain", "other"}}

AllBodies  == Networks \cup Securities \cup Rest
\* Later answers need not be as many: each is met after each of the others.
LaterBodies ==
    {Body(t) : t \in AllTypes \ {"shadowsocks", "tuic", "anytls"}}
        \cup {[Body("hysteria2") EXCEPT !.obfs = "other"], [Body("vless") EXCEPT !.tls = Reality, !.tlsCamel = Full],
              [Body("naive") EXCEPT !.network = Blank, !.tls = None], [Body("trojan") EXCEPT !.interval = FALSE]}

Fine == [cert |-> "file", fallback |-> "off", dnsPath |-> TRUE, hy |-> [wrong |-> "nothing", listens |-> "no"]]

AllOptions ==
    {Fine, [Fine EXCEPT !.cert = "nil"], [Fine EXCEPT !.cert = "none"], [Fine EXCEPT !.cert = "pathless"], [Fine EXCEPT !.fallback = "empty"],
     [Fine EXCEPT !.dnsPath = FALSE], [Fine EXCEPT !.hy.listens = "http"], [Fine EXCEPT !.hy.listens = "https"]}
        \cup {[Fine EXCEPT !.hy.wrong = w] : w \in {"unreadable", "quic", "sniff", "outbound", "masq"}}
=============================================================================
