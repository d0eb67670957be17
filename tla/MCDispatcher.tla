---------------------------- MODULE MCDispatcher ----------------------------
(***************************************************************************)
(* Dispatcher for TLC: an address, two of the fake DNS (one forgotten) and *)
(* two domains, one of them rejected.                                      *)
(***************************************************************************)
EXTENDS Dispatcher

Sniff(enabled, metadataOnly, routeOnly, override, exclude) ==
    [enabled |-> enabled, metadataOnly |-> metadataOnly, routeOnly |-> routeOnly,
     override |-> override, exclude |-> exclude]

MCSniffings ==
    { Sniff(FALSE, FALSE, FALSE, {}, {}),
      Sniff(TRUE, TRUE, FALSE, {"fakedns"}, {}),
      Sniff(TRUE, FALSE, FALSE, {"tls", "fakedns"}, {}),
      Sniff(TRUE, FALSE, FALSE, {"tls"}, {"bad"}),
      Sniff(TRUE, FALSE, TRUE, {"tls", "fakedns"}, {}) }

Says(domain, protocol) == [domain |-> domain, protocol |-> protocol, forDomain |-> protocol]

Request(user, ip, tcp, dest, says, pieces) ==
    [user |-> user, ip |-> ip, tcp |-> tcp, dest |-> dest, says |-> says, pieces |-> pieces,
     forced |-> IF says.protocol = "quic" THEN "missing" ELSE None]

\* The links of the first connection: to the rejected domain by its address,
\* by one of the fake DNS and by a forgotten one, a torrent in packets, a user
\* without an email and none at all.
First(u, a1, a2) ==
    { Request(u, a1, TRUE, "ip", Says("bad", "tls"), 2),
      Request(u, a2, TRUE, "fake", Says("good", "bittorrent"), 1),
      Request(u, a1, TRUE, "lost", Says("bad", "http"), 1),
      Request(u, a1, FALSE, "good", Says(None, "bittorrent"), 1),
      Request("noEmail", a1, TRUE, "bad", Says(None, "http"), 0),
      Request(None, a1, TRUE, "bad", Says("good", "tls"), 0) }

\* Those of the others: allowed, and to an outbound that is not there.
Further(u, a1, a2) ==
    { Request(u, a2, TRUE, "good", Says("good", "tls"), 0),
      Request(u, a1, TRUE, "good", Says("good", "quic"), 0) }

MCRequests ==
    LET u == CHOOSE u \in Users : TRUE
        a == CHOOSE a \in IPs : TRUE
        b == CHOOSE b \in IPs : b # a
    IN [c \in Conns |-> IF c = CHOOSE d \in Conns : TRUE THEN First(u, a, b) ELSE Further(u, a, b)]

MCFakeDNS == [a \in {"fake", "lost"} |-> IF a = "fake" THEN "bad" ELSE None]
MCPool == {"fake", "lost"}
MCRules == {{"bad", "bittorrent"}}
=============================================================================
