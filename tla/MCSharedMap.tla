---------------------------- MODULE MCSharedMap ----------------------------
(***************************************************************************)
(* Instances of SharedMap for TLC.                                         *)
(***************************************************************************)
EXTENDS SharedMap, TLC

CONSTANTS p1, p2, a1, a2

TwoProcs == {p1, p2}
TwoAddrs == {a1, a2}

OnePage == {1}
OneView == {{1}}
TwoPages == {1, 2}
TwoViews == {{1}, {1, 2}}

\* Processes are alike, and so are addresses.
Symmetry == Permutations(TwoProcs) \cup Permutations(TwoAddrs)
=============================================================================
