---------------------------- MODULE MCEgressUrl ----------------------------
(* Names, addresses, policies, URLs and answers for the runs of EgressUrl. *)
EXTENDS EgressUrl

MCKind == [name \in {"api", "admin", "svc", "localhost", "127.0.0.1", "bad_name"} |->
              CASE name \in {"api", "admin"} -> "dotted"
                [] name = "svc" -> "label"
                [] name = "localhost" -> "dev"
                [] name = "127.0.0.1" -> "ip"
                [] name = "bad_name" -> "invalid"]

MCClass == [ip \in {"g1", "g2", "lo", "priv", "link"} |->
               CASE ip \in {"g1", "g2"} -> "global"
                 [] ip = "lo" -> "loopback"
                 [] ip = "priv" -> "private"
                 [] ip = "link" -> "other"]

Host(name) == [name |-> name, dots |-> 0]
Dotted(name, n) == [name |-> name, dots |-> n]

Hosts(hosts, ports, local, n) == [hosts |-> hosts, ports |-> ports, pairs |-> {},
                                  allowLocal |-> local, maxAddresses |-> n]
Pairs(pairs, local, n) == [hosts |-> {Host(a[1]) : a \in pairs}, ports |-> {a[2] : a \in pairs},
                           pairs |-> pairs, allowLocal |-> local, maxAddresses |-> n]

\* The last five are refused.
MCConfigs ==
    {Hosts({Host("api"), Dotted("api", 1)}, {443, 8443}, FALSE, 2),
     Pairs({<<"api", 8443>>, <<"admin", 443>>}, FALSE, 1),
     Pairs({<<"api", 443>>, <<"admin", 8443>>}, FALSE, 1),
     Hosts({Host("svc"), Host("localhost")}, {80}, TRUE, 2),
     Pairs({<<"svc", 80>>, <<"svc", 443>>, <<"api", 443>>}, FALSE, 2),
     Pairs({<<"svc", 443>>, <<"localhost", 443>>, <<"api", 443>>}, TRUE, 1),
     Hosts({Host("api"), Host("admin")}, {443, 8443}, FALSE, 2),
     [Pairs({<<"api", 8443>>, <<"admin", 443>>}, FALSE, 1) EXCEPT !.ports = {443}],
     Hosts({Host("127.0.0.1")}, {80}, TRUE, 2),
     Hosts({Host("bad_name")}, {443}, FALSE, 2),
     Hosts({Dotted("api", 2)}, {443}, FALSE, 2)}

Url(scheme, host, port) == [text |-> "plain", scheme |-> scheme, host |-> host,
                            port |-> port, extra |-> "none"]

MCUrls ==
    {Url("https", Host("api"), NoPort), Url("HTTPS", Dotted("api", 1), 443),
     Url("https", Dotted("api", 2), NoPort), Url("https", Host("api"), 8443),
     Url("http", Host("api"), 443), Url("ftp", Host("api"), 443),
     Url("https", Host("admin"), NoPort), Url("https", Host("admin"), 8443),
     Url("http", Host("svc"), NoPort), Url("https", Host("svc"), NoPort),
     Url("https", Host("svc"), 80), Url("http", Host("localhost"), 80),
     Url("https", Host("localhost"), NoPort), Url("http", Host("127.0.0.1"), NoPort),
     Url("https", Host("bad_name"), NoPort),
     [Url("https", Host("api"), NoPort) EXCEPT !.extra = "userinfo"],
     [Url("https", Host("api"), NoPort) EXCEPT !.extra = "query"],
     [Url("https", Host("api"), NoPort) EXCEPT !.text = "blank"],
     [Url("https", Host("api"), NoPort) EXCEPT !.text = "garbled"]}

As(ip, form) == [ip |-> ip, form |-> form]

MCAnswers == {<<>>, <<As("g1", "short")>>, <<As("lo", "short")>>, <<As("priv", "short")>>,
              <<As("link", "short")>>,
              <<As("g2", "short"), As("g2", "long"), As("g1", "short")>>,
              <<As("g1", "short"), As("priv", "short")>>,
              <<As("lo", "short"), As("priv", "short"), As("lo", "long")>>}

MCForgeries == {<<"g1">>, <<"priv">>}
=============================================================================
