-------------------------- MODULE PosixSpawnTests --------------------------
(***************************************************************************)
(* The repository's own tests of posix_spawn(): for each the list it       *)
(* builds, in a parent that has a pipe at PipeR and PipeW and a directory  *)
(* at Known, and what its child must find: the files at some descriptors,  *)
(* the descriptors that are closed, the directory.                         *)
(***************************************************************************)
EXTENDS PosixSpawn

CONSTANTS
  PipeR, PipeW,   \* descriptors of the ends of the pipe the test makes
  Known,          \* descriptor of the directory "/"
  Null, Data      \* the paths of /dev/null and of the data file

Test(l, files, closed, dir) ==
  [list |-> l, files |-> files, closed |-> closed, dir |-> dir]
At0(f) == [fd \in {0} |-> f]
At1(f) == [fd \in {1} |-> f]
File(path) == Resolve(Home, path)

\* The standard descriptors are open and not FD_CLOEXEC, so that the tests' own are
\* others; one descriptor is free; the files the tests open exist, and so does "/".
ASSUME TestsAssumption ==
  /\ PipeR \notin {0, 1} /\ PipeW \notin {0, 1, PipeR} /\ Known \notin {0, 1, PipeR, PipeW}
  /\ {File(Null), File(Data)} \subseteq Existing /\ <<>> \in Dirs
  /\ \A tab \in Tables :
       /\ {0, 1, PipeR, PipeW, Known} \subseteq DOMAIN tab.fds /\ tab.fds[Known] = <<>>
       /\ {0, 1} \cap tab.cloexec = {} /\ Fds \ DOMAIN tab.fds # {}

\* cat reads the pipe, and sees its end because no copy of the other end is left.
Dup2Stdin ==
  Test(<<Dup2(PipeR, 0), Close(PipeR), Close(PipeW)>>,
       At0(table.fds[PipeR]), {PipeR, PipeW}, Home)

ToPipe == <<Dup2(PipeW, 1), Close(PipeW), Close(PipeR), Open(0, Null)>>
Dup2Stdout ==
  Test(ToPipe, [fd \in {0, 1} |-> IF fd = 0 THEN File(Null) ELSE table.fds[PipeW]],
       {PipeR, PipeW}, Home)

\* pwd prints the root directory.
ChdirTest ==
  Test(Append(ToPipe, Chdir(Abs(<<>>))), At1(table.fds[PipeW]), {PipeR, PipeW}, <<>>)
FchdirTest ==
  Test(Append(ToPipe, Fchdir(Known)), At1(table.fds[PipeW]), {PipeR, PipeW}, <<>>)

Inherit0 == Test(<<>>, At0(table.fds[0]), {}, Home)
Inherit1 == Test(<<>>, At1(table.fds[1]), {}, Home)
Open1 == Test(<<Open(0, Data)>>, At0(File(Data)), {}, Home)
Open2 == Test(<<Open(1, Data)>>, At1(File(Data)), {}, Home)

Tests == {Dup2Stdin, Dup2Stdout, ChdirTest, FchdirTest, Inherit0, Inherit1, Open1, Open2}

GlTestsPass ==
  \A t \in Threads, T \in Tests :
    list[t] = T.list /\ w[t].alone /\ w[t].std = {} =>
      /\ ret[t] # "EINVAL"
      /\ ret[t] = "ok" =>
           /\ child[t].dir = T.dir
           /\ T.closed \cap DOMAIN child[t].fds = {}
           /\ \A fd \in DOMAIN T.files :
                fd \in DOMAIN child[t].fds /\ child[t].fds[fd] = T.files[fd]

\* The tests of src/testcase/gltests/ pass in every run of them alone, whatever
\* the flags of the parent's descriptors, unless memory or LIBCx fail them; and so
\* does src/testcase/spawn2-2.c, for any array of three.
TestsPass == GlTestsPass /\ Spawn2Passes
=============================================================================
