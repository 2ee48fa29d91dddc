--------------------------- MODULE MCResponseFiles --------------------------
(***************************************************************************)
(* An instance of ResponseFiles for TLC: two calls in two threads, three   *)
(* names and every environment of up to three strings around the limits.   *)
(***************************************************************************)
EXTENDS ResponseFiles, TLC

CONSTANTS c1, c2, n1, n2, n3

MCEnvs == UNION {[1..k -> 0..7] : k \in 0..3}

\* Calls and names are not told apart.
MCSymmetry == Permutations({c1, c2}) \cup Permutations({n1, n2, n3})
=============================================================================
