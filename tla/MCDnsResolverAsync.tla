------------------------- MODULE MCDnsResolverAsync -------------------------
(* Model values for the runs of DnsResolverAsync. *)
EXTENDS DnsResolverAsync

CONSTANTS c1, c2

MCTwoCalls == {c1, c2}
=============================================================================
