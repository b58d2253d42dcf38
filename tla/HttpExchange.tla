---------------------------- MODULE HttpExchange ----------------------------
(***************************************************************************)
(* Exchanges of one pinned client: handle_request of _PinnedEgressTransport *)
(* (egressweave.sync_transport) and handle_async_request of                *)
(* _PinnedEgressAsyncTransport (egressweave.transport), from the preflight *)
(* of the request to the end of the bounded response stream.  The pool     *)
(* (httpcore) is external: it lends a connection while an exchange goes on *)
(* and applies the timeouts the transport gave it.  An exchange owns its   *)
(* connection through the response stream: it has it until the stream is   *)
(* closed.  How a connection comes about is PinnedConnect's subject, how   *)
(* the body is bounded over retries RequestStream's.                       *)
(***************************************************************************)
EXTENDS ResponseSafety, FiniteSets

CONSTANTS
    Exchanges,    \* the requests a client makes
    Requests,     \* the requests it may be given
    Responses,    \* the responses a peer may give
    Policy,       \* the limits of EgressPolicy
    Chunks,       \* sizes of the chunks of a body
    Expansion     \* how much longer than its coding a decoded body may be

\* Header fields are sequences, and so are their values.
ASSUME RequestsAssumption ==
    \A r \in Requests :
        /\ r.headers \in Seq(ToSet(r.headers))
        /\ \A h \in ToSet(r.headers) : h.value \in Seq(ToSet(h.value))

ASSUME ChunksAssumption == Chunks \subseteq Nat
ASSUME ExpansionAssumption == Expansion \in Nat \ {0}
ASSUME PolicyAssumption ==
    /\ \A p \in Phases : Policy.timeouts[p] \in Nat \ {0}
    /\ {Policy.maxRequest, Policy.maxResponse, Policy.maxConnections} \subseteq Nat \ {0}

VARIABLES
    phase,      \* where each exchange is
    wire,       \* the request given to the pool
    source,     \* the caller's body stream: untouched, or told to close
    sent,       \* bytes of its body on the connection
    held,       \* the exchanges that occupy a connection
    reply,      \* the response given to the caller
    read        \* bytes of its body the caller was given

vars == <<phase, wire, source, sent, held, reply, read>>

Nothing == [none |-> TRUE]
None == [e \in Exchanges |-> Nothing]

Init == /\ phase = [e \in Exchanges |-> "new"]
        /\ wire = None
        /\ source = [e \in Exchanges |-> "open"]
        /\ sent = [e \in Exchanges |-> 0]
        /\ held = {}
        /\ reply = None
        /\ read = [e \in Exchanges |-> 0]

To(e, p) == phase' = [phase EXCEPT ![e] = p]
CloseSource(e) == source' = [source EXCEPT ![e] = "closed"]

\* The exchange is over: its connection goes back.
Finish(e, p) == To(e, p) /\ held' = held \ {e}
-----------------------------------------------------------------------------
(* The request *)

\* A request that is refused never reaches the pool, and its body is closed.
Preflight(e, r) ==
    /\ phase[e] = "new"
    /\ IF Admissible(r, Policy)
       THEN /\ To(e, "pooled")
            /\ wire' = [wire EXCEPT ![e] = Outbound(r, Policy)]
            /\ UNCHANGED source
       ELSE /\ To(e, "denied")
            /\ CloseSource(e)
            /\ UNCHANGED wire
    /\ UNCHANGED <<sent, held, reply, read>>

\* The pool lends a connection, then has it connected.
Acquire(e) == /\ phase[e] = "pooled"
              /\ Cardinality(held) < Policy.maxConnections
              /\ held' = held \cup {e}
              /\ To(e, "connecting")
              /\ UNCHANGED <<wire, source, sent, reply, read>>

Connected(e) == /\ phase[e] = "connecting"
                /\ To(e, "sending")
                /\ UNCHANGED <<wire, source, sent, held, reply, read>>

HasBody(e) == wire[e].declared # Undeclared \/ Values(wire[e].headers, "transfer-encoding") # <<>>

TooMuch(e, bytes) == \/ bytes > Policy.maxRequest
                     \/ wire[e].declared # Undeclared /\ bytes > wire[e].declared

\* The bounded request stream refuses: the source is closed, the pool passes
\* the denial on and drops the connection.
BodyDenied(e) == /\ Finish(e, "denied")
                 /\ CloseSource(e)
                 /\ UNCHANGED <<wire, sent, reply, read>>

Upload(e, n) ==
    /\ phase[e] = "sending"
    /\ HasBody(e)
    /\ IF TooMuch(e, sent[e] + n)
       THEN BodyDenied(e)
       ELSE /\ sent' = [sent EXCEPT ![e] = @ + n]
            /\ To(e, "writing")
            /\ UNCHANGED <<wire, source, held, reply, read>>

\* The peer takes the chunk: the pool asks for the next one.
Written(e) == /\ phase[e] = "writing"
              /\ To(e, "sending")
              /\ UNCHANGED <<wire, source, sent, held, reply, read>>

UploadEnds(e) ==
    /\ phase[e] = "sending"
    /\ IF wire[e].declared \notin {Undeclared, sent[e]}
       THEN BodyDenied(e)
       ELSE /\ To(e, "awaiting")
            /\ UNCHANGED <<wire, source, sent, held, reply, read>>

\* The timeout that covers each wait for something outside the process.  The
\* wait for the caller's own body has none.
TimeoutOf == [pooled |-> "pool", connecting |-> "connect",
              writing |-> "write", awaiting |-> "read"]

TimesOut(e) == /\ phase[e] \in DOMAIN TimeoutOf
               /\ wire[e].timeouts[TimeoutOf[phase[e]]] # NotGiven
               /\ Finish(e, "failed")
               /\ UNCHANGED <<wire, source, sent, reply, read>>

\* The connection, the peer or the body fails, or the caller is cancelled.
Fails(e) == /\ phase[e] \in {"sending"} \cup DOMAIN TimeoutOf
            /\ Finish(e, "failed")
            /\ UNCHANGED <<wire, source, sent, reply, read>>
-----------------------------------------------------------------------------
(* The response *)

Public(e, resp) == [status     |-> resp.status,
                    headers    |-> resp.headers,
                    extensions |-> PublicExtensions(resp)]

\* Mutant: a refused response keeps its connection.
RespondLeavesConnection(e, resp) ==
    /\ phase[e] = "awaiting"
    /\ IF Presentable(wire[e].method, resp, Policy)
       THEN To(e, "reading") /\ reply' = [reply EXCEPT ![e] = Public(e, resp)]
       ELSE To(e, "denied") /\ UNCHANGED reply
    /\ UNCHANGED <<wire, source, sent, held, read>>

Respond(e, resp) ==
    /\ phase[e] = "awaiting"
    /\ IF Presentable(wire[e].method, resp, Policy)
       THEN /\ To(e, "reading")
            /\ reply' = [reply EXCEPT ![e] = Public(e, resp)]
            /\ UNCHANGED held
       ELSE /\ Finish(e, "denied")
            /\ UNCHANGED reply
    /\ UNCHANGED <<wire, source, sent, read>>

\* KeyboardInterrupt and its like during the checks: the stream is closed.
Interrupted(e) == /\ phase[e] = "awaiting"
                  /\ Finish(e, "failed")
                  /\ UNCHANGED <<wire, source, sent, reply, read>>

\* What the peer may still send: the framing of HTTP/1.1 holds it to its word.
InFraming(e, bytes) ==
    LET lengths == Values(reply[e].headers, "content-length")
    IN  /\ ~Bodyless(wire[e].method, reply[e])
        /\ lengths # <<>> => bytes <= Number(lengths[1])

\* The chunk that exceeds the budget is withheld whole, and the stream closed.
Read(e, n) ==
    /\ phase[e] = "reading"
    /\ InFraming(e, read[e] + n)
    /\ IF read[e] + n > Policy.maxResponse
       THEN Finish(e, "denied") /\ UNCHANGED read
       ELSE read' = [read EXCEPT ![e] = @ + n] /\ UNCHANGED <<phase, held>>
    /\ UNCHANGED <<wire, source, sent, reply>>

\* The body ends, the peer stalls or fails, or the caller has seen enough.
Done(e) == /\ phase[e] = "reading"
           /\ \E p \in {"finished", "failed"} : Finish(e, p)
           /\ UNCHANGED <<wire, source, sent, reply, read>>
-----------------------------------------------------------------------------
Next == \E e \in Exchanges :
            \/ \E r \in Requests : Preflight(e, r)
            \/ Acquire(e) \/ Connected(e) \/ Written(e)
            \/ \E n \in Chunks : Upload(e, n) \/ Read(e, n)
            \/ UploadEnds(e) \/ TimesOut(e) \/ Fails(e)
            \/ \E resp \in Responses : Respond(e, resp)
            \/ Interrupted(e) \/ Done(e)

\* A timeout that was given expires.  The peer owes nothing, nor does the
\* caller owe a body, or an end to its reading.
Fairness == \A e \in Exchanges : WF_vars(TimesOut(e))

Spec == Init /\ [][Next]_vars /\ Fairness
-----------------------------------------------------------------------------
(* Properties: first, what each variable ranges over. *)

PhaseNames == DOMAIN TimeoutOf \cup {"new", "sending", "reading", "denied",
                                      "failed", "finished"}

TypeOK == /\ phase \in [Exchanges -> PhaseNames]
          /\ wire \in [Exchanges -> {Outbound(r, Policy) : r \in Requests} \cup {Nothing}]
          /\ source \in [Exchanges -> {"open", "closed"}]
          /\ sent \in [Exchanges -> 0..Policy.maxRequest]
          /\ held \subseteq Exchanges
          /\ read \in [Exchanges -> 0..Policy.maxResponse]

Dispatched == {e \in Exchanges : wire[e] # Nothing}

\* A request on the wire can be read in one way only: it has one Host, which is
\* the validated one and comes last, one coding preference, at most one framing
\* signal, and its fields fit the budget, the ones the transport added included.
OneReadingOfTheRequest ==
    \A e \in Dispatched :
        LET headers == wire[e].headers
        IN  /\ Values(headers, "host") = << <<"pinned">> >>
            /\ headers[Len(headers)].name = "host"
            /\ Values(headers, "accept-encoding") = << <<"identity">> >>
            /\ Len(Values(headers, "content-length"))
                   + Len(Values(headers, "transfer-encoding")) <= 1
            /\ Len(headers) <= Policy.maxFields
            /\ FieldBytes(headers) <= Policy.maxFieldBytes

\* No body longer than the policy allows is begun: the length a request
\* declares, read as a number, is within the budget, and a request the peer
\* was given to the end has exactly that length.
BodyAsDeclared ==
    \A e \in Dispatched :
        /\ wire[e].declared = Undeclared \/ wire[e].declared <= Policy.maxRequest
        /\ phase[e] \in {"awaiting", "reading", "finished"}
               => wire[e].declared \in {Undeclared, sent[e]}

\* What the caller was given of a response, decoded, is within the budget: the
\* bytes are counted before decoding, so a coding must not make them more.
DecodedWithinBudget ==
    \A e \in Exchanges :
        reply[e] # Nothing =>
            LET codings == Values(reply[e].headers, "content-encoding")
                factor == IF codings \in {<<>>, << <<"identity">> >>} THEN 1 ELSE Expansion
            IN  read[e] * factor <= Policy.maxResponse

\* An exchange that is over occupies no connection, whichever way it ended,
\* and a denied one that sent no request has closed the body it did not send.
NothingHeldWhenOver ==
    \A e \in Exchanges :
        /\ phase[e] \in {"denied", "failed", "finished"} => e \notin held
        /\ phase[e] = "denied" /\ e \notin Dispatched => source[e] = "closed"

\* A pool that is never free and a peer that never accepts, never reads or
\* never answers cannot hold a request: every wait for them comes to an end,
\* in an answer, a failure, or the next chunk of the caller's body.
EveryWaitEnds ==
    \A e \in Exchanges :
        phase[e] \in DOMAIN TimeoutOf ~> phase[e] \notin DOMAIN TimeoutOf
=============================================================================
