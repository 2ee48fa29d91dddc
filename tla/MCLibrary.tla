----------------------------- MODULE MCLibrary -----------------------------
(***************************************************************************)
(* Library for TLC.                                                        *)
(***************************************************************************)
EXTENDS Library

MCFds == {-1, 0, 1, 2, 3}
MCType == (0 :> "file") @@ (1 :> "socket") @@ (2 :> "pipe") @@ (3 :> "socket")
MCChanging == {<<1, "POLLIN">>, <<2, "POLLIN">>}
MCAsks == {{"POLLIN"}, {"POLLIN", "POLLOUT"}}
MCPresent == {{}, {"libcn0"}, {"libc066"}, {"libcx0"}, {"libcx0", "libcn0", "libc066"}}
MCPipeThreads == {<<1, 1>>, <<1, 2>>, <<2, 1>>}
=============================================================================
