--------------------------- MODULE MCDnsResolver ---------------------------
(* Model values and symmetry for the runs of DnsResolver. *)
EXTENDS DnsResolver, TLC

CONSTANTS c1, c2, c3

MCThreeCalls == {c1, c2, c3}

\* Calls are interchangeable: the run has no liveness property.
MCCallSymmetry == Permutations(Calls)
=============================================================================
