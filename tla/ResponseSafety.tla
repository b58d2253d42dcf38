--------------------------- MODULE ResponseSafety ---------------------------
(***************************************************************************)
(* The checks of egressweave.response_safety on a response, before the     *)
(* caller sees any of it.  A response is a record:                         *)
(*   status      "final", or "bodyless" for 1xx, 204 and 304               *)
(*   headers     a sequence of [name, value, bytes]; the name "malformed"  *)
(*               stands for an item that is not a pair of bytes            *)
(*   extensions  the set of its extension keys; a key that ends in "*"     *)
(*               carries a value that is not bytes                         *)
(***************************************************************************)
EXTENDS RequestSafety

\* The fields are counted as they come: the first item too many denies.
ResponseHeaderLimits(resp, policy) ==
    /\ Len(resp.headers) <= policy.maxResponseFields
    /\ FieldBytes(resp.headers) <= policy.maxResponseFieldBytes
    /\ \A i \in DOMAIN resp.headers : resp.headers[i].name # "malformed"

Bodyless(method, resp) == method = "HEAD" \/ resp.status = "bodyless"

\* Mutant: the length is checked, the coding is not.
DeclaredResponseAnyCoding(method, resp, policy) ==
    LET lengths == Values(resp.headers, "content-length")
    IN  Bodyless(method, resp) \/
        (lengths # <<>> => /\ Len(lengths) = 1
                           /\ IsDecimal(lengths[1])
                           /\ ~ExceedsAsText(lengths[1], policy.maxResponse))

\* A body is identity-coded, and declares at most one length, within the budget.
DeclaredResponse(method, resp, policy) ==
    LET codings == Values(resp.headers, "content-encoding")
        lengths == Values(resp.headers, "content-length")
    IN  Bodyless(method, resp) \/
        /\ codings \in {<<>>, << <<"identity">> >>}
        /\ lengths # <<>> => /\ Len(lengths) = 1
                             /\ IsDecimal(lengths[1])
                             /\ ~ExceedsAsText(lengths[1], policy.maxResponse)

PublicKeys == {"http_version", "reason_phrase"}

PublicExtensionsAllowed(resp) == {"http_version*", "reason_phrase*"}
                                     \cap resp.extensions = {}

\* Everything else stays inside, the network stream in particular.
PublicExtensions(resp) == resp.extensions \cap PublicKeys

Presentable(method, resp, policy) == /\ ResponseHeaderLimits(resp, policy)
                                     /\ DeclaredResponse(method, resp, policy)
                                     /\ PublicExtensionsAllowed(resp)
=============================================================================
