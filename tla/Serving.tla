------------------------------- MODULE Serving -------------------------------
(***************************************************************************)
(* One node of a process with one core: what the panel answers is decoded  *)
(* (NodeInfo), built into an inbound (Inbounds) and served, again and      *)
(* again as the answer changes.  A node that cannot be added ends the      *)
(* process, by an error of Controller.Start or a panic of nodeInfoMonitor. *)
(***************************************************************************)
EXTENDS Inbounds

CONSTANTS
    Cores,          \* a subset of "xray", "sing" and "hysteria2"
    PanelTypes,     \* a subset of "ppanel" and "uniproxy"
    Bodies,         \* what the panel may answer at first
    Changes,        \* what it may answer later
    Optionss,       \* the node's options
    NoBody          \* no answer that can be decoded

ASSUME ServingAssumption ==
    /\ Cores \subseteq {"xray", "sing", "hysteria2"}
    /\ PanelTypes \subseteq {"ppanel", "uniproxy"}
    /\ Bodies \cup Changes \subseteq Answers
    /\ Optionss \subseteq NodeOptions

VARIABLES
    panelType, core, options,
    body,        \* what the panel answers
    seen,        \* the answer whose hash the client has noted
    from,        \* the last answer the node was made from, or failed with
    inbound,     \* what is served; of status "none" when there is no node,
                 \* "empty" for naive without an inbound
    masq,        \* hysteria2: a masquerade listens on TCP
    process      \* "starting", "up", "crashed" or "exited"

config == <<panelType, core>>
vars   == <<config, options, body, seen, from, inbound, masq, process>>

Nothing == [status |-> "none"]
Empty   == [status |-> "empty"]

Init ==
    /\ panelType \in PanelTypes /\ core \in Cores
    /\ options \in Optionss /\ body \in Bodies
    /\ core = "hysteria2" \/ options.hy = [wrong |-> "nothing", listens |-> "no"]
    /\ seen = NoBody /\ from = NoBody
    /\ inbound = Nothing /\ masq = FALSE
    /\ process = "starting"

-----------------------------------------------------------------------------
\* requestCert, AddNode and AddUsers

\* Asked for TLS only; a missing CertConfig is a nil pointer.
RequestCert(info) ==
    CASE info.security = Tls /\ options.cert = "nil"      -> Failed("panic")
      [] info.security = Tls /\ options.cert = "pathless" -> Failed("error")
      [] OTHER -> [status |-> "ok"]

\* A file that cannot be read is fatal before anything else is looked at.
Hy2Outcome(info) ==
    IF options.hy.wrong = "unreadable" THEN Failed("fatal") ELSE GetHyConfig(info, options)

Outcome(info) ==
    CASE core = "xray" -> BuildInbound(info, options)
      [] core = "sing" -> GetInboundOptions(info, options)
      [] OTHER         -> Hy2Outcome(info)

Ends(how) ==
    /\ process' = how
    /\ inbound' = Nothing /\ seen' = NoBody /\ masq' = FALSE

Serves(in) ==
    /\ process' = "up"
    /\ inbound' = in /\ seen' = body

\* runMasqTCPServer: DelNode does not stop the masquerade, and a second one
\* that finds the port taken is fatal.
RunMasqTCPServer(in) ==
    LET listens == options.hy.listens = "https"
    IN IF masq /\ listens THEN Ends("crashed") ELSE Serves(in) /\ masq' = (masq \/ listens)

AddNode(in) ==
    IF core = "hysteria2" THEN RunMasqTCPServer(in) ELSE Serves(in) /\ UNCHANGED masq

\* naive has its inbound made by AddUsers, whose error a poll only logs.
OnlyLogged(info) == core = "sing" /\ info.type = "naive"

-----------------------------------------------------------------------------
\* The process

\* What comes of an answer: the first of these steps that fails, or an inbound.
Result(info) ==
    IF info.status # "ok" THEN info
    ELSE IF RequestCert(info).status # "ok" THEN RequestCert(info)
    ELSE Outcome(info)

\* Controller.Start; its errors end serverHandle.
Start ==
    /\ process = "starting"
    /\ from' = body
    /\ LET in == Result(GetNodeInfo(panelType, body))
       IN CASE in.status = "ok"    -> AddNode(in)
            [] in.status = "error" -> Ends("exited")
            [] OTHER               -> Ends("crashed")
    /\ UNCHANGED <<config, options, body>>

\* An answer that cannot be decoded is logged, and the node left as it is.
PollError ==
    /\ seen' = body
    /\ UNCHANGED <<from, inbound, masq, process>>

\* DelNode of what is there, requestCert, AddNode and AddUsers: the errors of
\* DelNode and AddNode are panics, the others are logged.
Reload(info) ==
    LET in == Result(info)
    IN IF inbound = Nothing THEN Ends("crashed")
       ELSE IF in.status = "ok" THEN AddNode(in)
       ELSE IF in.status = "error" /\ RequestCert(info).status = "error"
         THEN Serves(Nothing) /\ UNCHANGED masq
       ELSE IF in.status = "error" /\ OnlyLogged(info)
         THEN Serves(Empty) /\ UNCHANGED masq
       ELSE Ends("crashed")

\* nodeInfoMonitor with an answer it has not seen.
Poll ==
    /\ process = "up" /\ seen # body
    /\ LET info == GetNodeInfo(panelType, body)
       IN CASE info.status = "error" -> PollError
            [] info.status = "panic" -> from' = body /\ Ends("crashed")
            [] OTHER                 -> from' = body /\ Reload(info)
    /\ UNCHANGED <<config, options, body>>

\* The body of an error is noted as the last one seen, too.
PollFails ==
    /\ process = "up" /\ seen # NoBody
    /\ seen' = NoBody
    /\ UNCHANGED <<config, options, body, from, inbound, masq, process>>

\* The type is the node's own; only ppanel may answer with another.
PanelChanges ==
    /\ \E b \in Changes :
         /\ b # body
         /\ panelType = "ppanel" \/ b.type = body.type
         /\ body' = b
    /\ UNCHANGED <<config, options, seen, from, inbound, masq, process>>

\* The file of hysteria2 is read again by each AddNode.
FileChanges ==
    /\ core = "hysteria2" /\ process = "up"
    /\ \E o \in Optionss : o.hy # options.hy /\ options' = [options EXCEPT !.hy = o.hy]
    /\ UNCHANGED <<config, body, seen, from, inbound, masq, process>>

\* By the unit after a crash, by hand after an exit, which looks like success.
Restart ==
    /\ process \in {"crashed", "exited"}
    /\ process' = "starting"
    /\ UNCHANGED <<config, options, body, seen, from, inbound, masq>>

Next == Start \/ Poll \/ PollFails \/ PanelChanges \/ FileChanges \/ Restart

Spec == Init /\ [][Next]_vars

-----------------------------------------------------------------------------
\* Properties

\* What a body asks for, wherever it says it.
Wanted(b) ==
    CASE b.type \in {"trojan", "tuic", "hysteria", "hysteria2"} -> Tls
      [] b.type = "shadowsocks" -> None
      [] OTHER -> b.tls

TlsOf(b) == Given(IF b.tlsCamel = Absent THEN b.tlsSnake ELSE b.tlsCamel)

\* ppanel's vmess and vless know one key only.
NetworkOf(b) ==
    IF b.type = "trojan" THEN IF b.snake # "absent" THEN b.snake ELSE b.camel
    ELSE IF b.camel # "absent" /\ panelType # "ppanel" THEN b.camel
    ELSE b.snake

\* What is served is secured as the panel wants it: by TLS, or by Reality with
\* the panel's settings, from either panel and in every core.  Only a
\* certificate mode that disables TLS takes it away.  (NodeInfo has the
\* settings under two keys and decodes them in two places, the cores build
\* them anew; a node that fell back to None would serve its users in the
\* clear.)
SecurityKept ==
    inbound.status = "ok" =>
        \/ /\ inbound.security = Wanted(from)
           /\ Wanted(from) = Reality /\ "dest" \in TlsOf(from) => inbound.dest = "dest"
        \/ inbound.security = None /\ Wanted(from) = Tls /\ options.cert = "none"

\* xray and sing serve what both of them take alike: on the same port, with the
\* same transport and security and, where its settings are complete, the same
\* Reality.  trojan's header and Encrypted Client Hello exist in xray only.
CoresAgree ==
    LET info == GetNodeInfo(panelType, body)
    IN info.status = "ok" =>
         LET x == BuildInbound(info, options)
             s == GetInboundOptions(info, options)
             complete == {"server_name", "short_id", "server_port"} \subseteq info.tls
         IN x.status = "ok" /\ s.status = "ok" =>
              /\ x.security = s.security
              /\ x.transport = s.transport \/ (info.type = "trojan" /\ x.transport = "http")
              /\ complete => [x EXCEPT !.ech = FALSE, !.transport = s.transport] = s

\* What each core cannot serve.
UnfitForXray(b) ==
    LET streamed == b.type \in V2rayTypes \cup {"trojan"}
    IN \/ b.type \notin V2rayTypes \cup {"trojan", "shadowsocks"}
       \/ options.fallback = "empty" /\ b.type \in {"vless", "trojan"}
       \/ ~options.dnsPath /\ b.route \in {"dns", "main"}
       \/ streamed /\ NetworkOf(b) \in {"absent", "bad"}
       \/ b.type \in V2rayTypes /\ b.network \notin {"tcp", "ws", "grpc", "httpupgrade", "xhttp"}
       \/ b.type = "trojan" /\ b.network \notin {Blank, "tcp", "ws", "grpc"}
       \/ /\ b.type \in V2rayTypes /\ b.tls = Reality
          /\ \/ TlsOf(b) \cap {"server_name", "dest"} = {} \/ "short_id" \notin TlsOf(b)
             \/ b.network \in {"ws", "httpupgrade"}

UnfitForSing(b) ==
    \/ b.type = "naive" /\ (b.tls = Reality \/ b.network # "tcp")
    \/ b.type \in V2rayTypes /\ b.network \notin {Blank, "tcp", "ws", "grpc", "httpupgrade"}
    \/ b.type \in V2rayTypes /\ b.network # Blank /\ NetworkOf(b) = "bad"
    \/ b.type = "trojan" /\ b.network \in {"ws", "grpc"} /\ NetworkOf(b) = "bad"
    \/ b.type \in V2rayTypes /\ b.network = "tcp" /\ NetworkOf(b) = "pathless"
    \/ b.type \in {"tuic", "hysteria", "hysteria2"} /\ (panelType = "ppanel" \/ options.cert = "none")

UnfitForHy2(b) ==
    \/ b.type # "hysteria2" \/ b.obfs = "other" \/ options.cert # "file"
    \/ options.hy.wrong # "nothing" \/ options.hy.listens # "no"

Unfit(b) ==
    \/ ~b.interval
    \/ panelType = "uniproxy" /\ b.route \in {"null", "empty"}
    \/ panelType = "ppanel" /\ b.type = "hysteria"
    \/ options.cert = "pathless"
    \/ options.cert = "nil" /\ Wanted(b) = Tls
    \/ core = "xray" /\ UnfitForXray(b)
    \/ core = "sing" /\ UnfitForSing(b)
    \/ core = "hysteria2" /\ UnfitForHy2(b)

\* The process ends for no other answer: what a panel sends well-formed, and a
\* core has an inbound for, is served, whatever was served before.  (An error
\* of AddNode ends every node of the process; one of requestCert leaves no
\* node behind, and the next answer ends the process in DelNode, which is why
\* "pathless" is left out.)
SurvivesFitAnswers ==
    process \in {"crashed", "exited"} => Unfit(from)
=============================================================================
