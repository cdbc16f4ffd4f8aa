--------------------------- MODULE MCRuntimeGuard ---------------------------
(***************************************************************************)
(* RuntimeGuard for TLC.  Processes of one kind are interchangeable.       *)
(***************************************************************************)
EXTENDS RuntimeGuard, TLC

CONSTANTS s1, s2, s3, c1, c2, c3

ServiceSet == {s1, s2, s3}
StarterSet == {c1, c2}
StopperSet == {c3}

Symmetry == Permutations(ServiceSet) \cup Permutations(StarterSet)
=============================================================================
