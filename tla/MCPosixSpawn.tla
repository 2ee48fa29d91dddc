---------------------------- MODULE MCPosixSpawn ----------------------------
(***************************************************************************)
(* An instance of PosixSpawn for TLC: a parent with standard descriptors,  *)
(* a pipe and a directory, one thread with all short lists of actions and  *)
(* the lists of the repository's tests, and one beside it with one list.   *)
(***************************************************************************)
EXTENDS PosixSpawnTests, TLC

CONSTANTS t1, t2

MCThreads == {t1, t2}
MCHome == <<"w">>
MCDirs == {<<>>, <<"w">>, <<"w", "s">>}
MCExisting == MCDirs \cup {<<"null">>, <<"w", "f">>, <<"w", "s", "f">>, <<"w", "x">>}
MCExe == Rel(<<"x">>)
MCNull == Abs(<<"null">>)
MCData == Rel(<<"f">>)

\* 3 and 4 are the ends of a pipe, 5 is a directory, 6 and 7 are free.
MCFds == (0 :> <<"in">>) @@ (1 :> <<"out">>) @@ (2 :> <<"err">>)
           @@ (3 :> <<"r">>) @@ (4 :> <<"wr">>) @@ (5 :> <<>>)
MCTables == {[fds |-> MCFds, cloexec |-> {}], [fds |-> MCFds, cloexec |-> {3}]}

\* 6 is an open descriptor only for the actions after one that makes it so; "q" is
\* no directory.
Alphabet == {Close(3), Close(6), Dup2(3, 1), Dup2(1, 6), Dup2(6, 0),
             Open(0, Rel(<<"f">>)), Chdir(Rel(<<"s">>)), Chdir(Rel(<<"q">>)),
             Fchdir(5)}
UpTo(n) == UNION {[1..k -> Alphabet] : k \in 0..n}
TestLists == {
  <<Dup2(3, 0), Close(3), Close(4)>>,
  <<Dup2(4, 1), Close(4), Close(3), Open(0, MCNull), Chdir(Abs(<<>>))>>,
  <<Dup2(4, 1), Close(4), Close(3), Open(0, MCNull), Fchdir(5)>>,
  <<Dup2(4, 1), Close(4), Close(3), Open(0, MCNull)>>,
  <<Open(0, MCData)>>, <<Open(1, MCData)>>}

MCLists == (t1 :> UpTo(2) \cup TestLists) @@ (t2 :> {<<Dup2(3, 0), Close(3)>>})
MCStdfds == {<<0, 2, 1>>, <<0, 4, 4>>, <<3, 0, 3>>}
=============================================================================
