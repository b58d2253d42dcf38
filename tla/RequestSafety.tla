--------------------------- MODULE RequestSafety ---------------------------
(***************************************************************************)
(* The preflight of one outbound request: egressweave.request_safety and   *)
(* the declared-length check of egressweave.request_body_safety, in the    *)
(* order the two transports call them.                                     *)
(*                                                                         *)
(* A request is a record:                                                  *)
(*   method      its spelling of the method                                *)
(*   authority   "pinned", or "drifted" in scheme, host, port or userinfo  *)
(*   target      bytes of the request target                               *)
(*   extensions  the set of its extension keys                             *)
(*   sni         "absent", "pinned" or "other": the sni_hostname           *)
(*   timeouts    its timeout extension: a function from keys to ticks      *)
(*   headers     a sequence of [name, value, bytes]                        *)
(* The value of a length field is a sequence of octets: 0..9 are the       *)
(* digits and 10 stands for any other octet.  A policy is a record of the  *)
(* limits of EgressPolicy.                                                 *)
(***************************************************************************)
EXTENDS Integers, Sequences, SequencesExt

Phases == {"connect", "read", "write", "pool"}

NotGiven == -1     \* a timeout that is missing or None
Malformed == -2    \* a boolean, negative, non-finite or non-numeric timeout
Undeclared == -1   \* no Content-Length

Digits == 0..9

\* strip, upper and the token grammar; CONNECT is never a policy's.
NormalizeMethod(m) == CASE m \in {"GET", "get"} -> "GET"
                        [] m \in {"POST", "post"} -> "POST"
                        [] m = "HEAD" -> "HEAD"
                        [] OTHER -> "invalid"

\* Only the canonical spelling of an allowed method passes.
MethodAllowed(r, policy) == /\ NormalizeMethod(r.method) \in policy.methods
                            /\ r.method = NormalizeMethod(r.method)

TargetAllowed(r, policy) == r.target <= policy.maxTarget
-----------------------------------------------------------------------------
(* Extensions *)

ServerNameAllowed(r) == /\ r.extensions \subseteq {"sni_hostname", "timeout"}
                        /\ r.sni # "other"

Requested(r, p) == IF p \in DOMAIN r.timeouts THEN r.timeouts[p] ELSE NotGiven

TimeoutsAllowed(r) == /\ DOMAIN r.timeouts \subseteq Phases
                      /\ \A p \in Phases : Requested(r, p) # Malformed

\* Mutant: a timeout the caller disabled stays disabled.
BoundTimeoutsWhenGiven(r, policy) ==
    [p \in Phases |-> IF Requested(r, p) <= policy.timeouts[p]
                      THEN Requested(r, p) ELSE policy.timeouts[p]]

\* What is missing or disabled becomes the policy's maximum, more is capped.
BoundTimeouts(r, policy) ==
    [p \in Phases |->
        IF Requested(r, p) # NotGiven /\ Requested(r, p) <= policy.timeouts[p]
        THEN Requested(r, p) ELSE policy.timeouts[p]]
-----------------------------------------------------------------------------
(* Header fields *)

Forbidden == {"connection", "keep-alive", "proxy-authenticate",
              "proxy-authorization", "proxy-connection", "upgrade"}

\* The fields with one of these names, in their order.
Named(headers, names) ==
    LET fields[i \in 0..Len(headers)] ==
            IF i = 0 THEN <<>>
            ELSE IF headers[i].name \in names THEN Append(fields[i - 1], headers[i])
            ELSE fields[i - 1]
    IN  fields[Len(headers)]

Values(headers, name) == LET fields == Named(headers, {name})
                         IN  [i \in DOMAIN fields |-> fields[i].value]

IsDecimal(value) == value # <<>> /\ \A i \in DOMAIN value : value[i] \in Digits

\* One framing signal at most: one decimal length, or the chunked coding.
FramingAllowed(headers) ==
    LET lengths == Values(headers, "content-length")
        codings == Values(headers, "transfer-encoding")
    IN  /\ Len(lengths) + Len(codings) <= 1
        /\ lengths # <<>> => IsDecimal(lengths[1])
        /\ codings # <<>> => codings[1] = <<"chunked">>

\* Field syntax: a field that is not well formed is named "malformed" here.
FieldsAllowed(r) == \A i \in DOMAIN r.headers :
                        r.headers[i].name \notin Forbidden \cup {"malformed"}

TrustedHost(policy) == [name |-> "host", value |-> <<"pinned">>, bytes |-> policy.hostBytes]
Identity == [name |-> "accept-encoding", value |-> <<"identity">>, bytes |-> 23]

NamesOf(headers) == {headers[i].name : i \in DOMAIN headers}

\* Mutant: the caller's own preference stays.
SafeHeadersKeepingCoding(r, policy) ==
    Named(r.headers, NamesOf(r.headers) \ {"host"}) \o <<Identity, TrustedHost(policy)>>

\* The caller's Host and Accept-Encoding give way to the trusted ones.
SafeHeaders(r, policy) ==
    Named(r.headers, NamesOf(r.headers) \ {"host", "accept-encoding"})
        \o <<Identity, TrustedHost(policy)>>

FieldBytes(headers) == FoldLeft(LAMBDA sum, h : sum + h.bytes, 0, headers)

\* Counted after the rewriting, so that the trusted fields count too.
HeaderLimits(r, policy) ==
    /\ Len(SafeHeaders(r, policy)) <= policy.maxFields
    /\ FieldBytes(SafeHeaders(r, policy)) <= policy.maxFieldBytes
-----------------------------------------------------------------------------
(* Decimal texts *)

\* lstrip(b"0")
Significant(value) ==
    IF \E i \in DOMAIN value : value[i] # 0
    THEN LET first == CHOOSE i \in DOMAIN value :
                          value[i] # 0 /\ \A j \in 1..i - 1 : value[j] = 0
         IN  SubSeq(value, first, Len(value))
    ELSE <<>>

\* str(n)
Decimal(n) == LET text[k \in 0..n] == IF k < 10 THEN <<k>>
                                     ELSE Append(text[k \div 10], k % 10)
              IN  text[n]

\* The order of bytes, for texts of one length
Above(v, w) == \E i \in DOMAIN v : v[i] > w[i] /\ \A j \in 1..i - 1 : v[j] = w[j]

\* Mutant: the texts are compared by length alone.
ExceedsByLength(value, budget) == Len(Significant(value)) > Len(Decimal(budget))

\* A length is compared with its budget as text, never converted before.
ExceedsAsText(value, budget) ==
    LET v == Significant(value)
        w == Decimal(budget)
    IN  Len(v) > Len(w) \/ (Len(v) = Len(w) /\ Above(v, w))

Number(value) == LET number[i \in 0..Len(value)] ==
                         IF i = 0 THEN 0 ELSE 10 * number[i - 1] + value[i]
                 IN  number[Len(value)]

DeclaredAllowed(headers, policy) ==
    LET lengths == Values(headers, "content-length")
    IN  lengths # <<>> => /\ Len(lengths) = 1
                          /\ IsDecimal(lengths[1])
                          /\ ~ExceedsAsText(lengths[1], policy.maxRequest)

DeclaredBytes(headers) == LET lengths == Values(headers, "content-length")
                          IN  IF lengths = <<>> THEN Undeclared
                              ELSE Number(Significant(lengths[1]))
-----------------------------------------------------------------------------
\* The checks of handle_request: the first one that fails denies.
Admissible(r, policy) == /\ MethodAllowed(r, policy)
                         /\ r.authority = "pinned"
                         /\ TargetAllowed(r, policy)
                         /\ ServerNameAllowed(r)
                         /\ TimeoutsAllowed(r)
                         /\ FieldsAllowed(r)
                         /\ FramingAllowed(r.headers)
                         /\ HeaderLimits(r, policy)
                         /\ DeclaredAllowed(SafeHeaders(r, policy), policy)

\* What an admissible request becomes for the pool.
Outbound(r, policy) == [method   |-> r.method,
                        target   |-> r.target,
                        sni      |-> "pinned",
                        timeouts |-> BoundTimeouts(r, policy),
                        headers  |-> SafeHeaders(r, policy),
                        declared |-> DeclaredBytes(SafeHeaders(r, policy))]
=============================================================================
