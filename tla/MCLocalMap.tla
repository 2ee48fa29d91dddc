----------------------------- MODULE MCLocalMap -----------------------------
(***************************************************************************)
(* An instance of LocalMap for TLC: two pages, the second of them memory   *)
(* of the program or free, two mappings and three descriptors.             *)
(***************************************************************************)
EXTENDS LocalMap

MCPages == 1..2
MCPrograms == {{}, {2}}
MCAnonFds == {-1}
=============================================================================
