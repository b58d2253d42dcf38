--------------------------- MODULE MCHttpExchange ---------------------------
(* Requests, responses and a policy for the runs of HttpExchange.  Each    *)
(* request and each response differs from a good one in a single respect.  *)
EXTENDS HttpExchange

CONSTANTS e1, e2

MCExchanges == {e1, e2}

MCPolicy == [methods |-> {"GET", "POST", "HEAD"}, maxTarget |-> 5,
             timeouts |-> [p \in Phases |-> 5],
             maxFields |-> 4, maxFieldBytes |-> 65, hostBytes |-> 10,
             maxRequest |-> 12, maxResponse |-> 12, maxConnections |-> 1,
             maxResponseFields |-> 2, maxResponseFieldBytes |-> 40]

Field(name, value, bytes) == [name |-> name, value |-> value, bytes |-> bytes]
Host == Field("host", <<"other">>, 10)
Gzip == Field("accept-encoding", <<"gzip">>, 19)
Agent == Field("user-agent", <<"any">>, 15)
Length(value) == Field("content-length", value, 14 + Len(value))
Chunked == Field("transfer-encoding", <<"chunked">>, 24)

Get == [method |-> "GET", authority |-> "pinned", target |-> 5, extensions |-> {},
        sni |-> "absent", timeouts |-> << >>, headers |-> <<Host, Gzip>>]
Post(headers) == [Get EXCEPT !.method = "POST", !.headers = headers]
Within(times) == [Get EXCEPT !.extensions = {"timeout"}, !.timeouts = times]

\* Refused for one reason each, those that are just past a limit included.
Refused == {[Get EXCEPT !.method = m] : m \in {"get", "TRACE"}}
    \cup {[Get EXCEPT !.authority = "drifted"], [Get EXCEPT !.target = 6],
          [Get EXCEPT !.extensions = {"trace"}],
          [Get EXCEPT !.extensions = {"sni_hostname"}, !.sni = "other"]}
    \cup {Within([read |-> Malformed]), Within([total |-> 1])}
    \cup {Post(h) : h \in {<<Host, Agent, Agent, Agent>>,
                           <<Host, Agent, Chunked>>,
                           <<Host, Field("connection", <<"close">>, 15)>>,
                           <<Host, Length(<<3>>), Length(<<3>>)>>,
                           <<Host, Length(<<3>>), Chunked>>,
                           <<Host, Length(<<>>)>>, <<Host, Length(<<3, 10>>)>>,
                           <<Host, Length(<<1, 3>>)>>, <<Host, Length(<<1, 0, 0>>)>>,
                           <<Host, Field("transfer-encoding", <<"gzip">>, 21)>>}}

\* Given to the pool.
Good == {[Get EXCEPT !.method = "HEAD"],
         Within([pool |-> NotGiven, read |-> NotGiven, connect |-> 1]),
         [Within([write |-> 9, read |-> 0]) EXCEPT !.sni = "pinned",
              !.extensions = {"sni_hostname", "timeout"}],
         Post(<<Length(<<0, 1, 2>>), Agent>>), Post(<<Host, Length(<<6>>)>>),
         Post(<<Chunked>>)}

MCRequests == Refused \cup Good

Ok(headers) == [status |-> "final", headers |-> headers,
                extensions |-> {"http_version", "reason_phrase", "network_stream"}]
Coding(value) == Field("content-encoding", <<value>>, 20)

MCResponses == {Ok(h) : h \in {<<>>, <<Length(<<6>>)>>, <<Length(<<1, 2>>)>>,
                               <<Length(<<1, 3>>)>>, <<Length(<<9, 9, 9>>)>>,
                               <<Length(<<6>>), Length(<<6>>)>>,
                               <<Coding("identity")>>, <<Coding("gzip")>>,
                               <<Coding("identity"), Coding("gzip")>>,
                               <<Agent, Agent, Agent>>, <<Agent, Chunked, Agent>>,
                               <<Field("malformed", <<>>, 0)>>}}
    \cup {[Ok(<<Coding("gzip"), Length(<<9, 9>>)>>) EXCEPT !.status = "bodyless"],
          [Ok(<<>>) EXCEPT !.extensions = {"http_version*"}]}
=============================================================================
