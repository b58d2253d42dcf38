-------------------------- MODULE MCRequestStream --------------------------
(* Model values, declared lengths and symmetry for the runs of RequestStream. *)
EXTENDS RequestStream, TLC

CONSTANTS i1, i2, i3

MCIterations == {i1, i2, i3}
MCDeclarations == {Unknown, 6}

\* Iterations are interchangeable.
MCIterationSymmetry == Permutations(Iterations)
=============================================================================
