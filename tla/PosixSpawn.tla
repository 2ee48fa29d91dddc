----------------------------- MODULE PosixSpawn -----------------------------
(***************************************************************************)
(* process/posix_spawn/ and process/spawn2.c: starting a child with        *)
(* redirected descriptors, on a system without fork and exec.              *)
(*                                                                         *)
(* The file actions are not executed in the child.  posix_spawn() walks    *)
(* the list in the parent: close marks the parent's descriptor FD_CLOEXEC, *)
(* open opens the file in the parent, dup2 and open note a pair of         *)
(* descriptors, chdir and fchdir note a directory.  spawn2() of LIBCx then *)
(* starts the child from the pairs, and posix_spawn() undoes what it did   *)
(* to the parent's table, which all threads share; to lock the table is a  *)
(* TODO of the code.                                                       *)
(***************************************************************************)
EXTENDS FileActions, Integers, FiniteSets

CONSTANTS
  Threads,
  MaxFd,      \* descriptors are 0..MaxFd
  Tables,     \* the parent's tables: records of fds (a partial function) and cloexec
  Home,       \* the parent's directory
  Exe,        \* the program to run, a path
  Lists,      \* Lists[t]: the lists of file actions thread t may build
  Stdfds,     \* the arrays of three that programs pass to spawn2ve() directly
  Chunk       \* by how much the array of actions grows: 8 in the code

Fds == 0..MaxFd

\* The lists on the way to those of Lists.
Partial == [t \in Threads |-> UNION {{SubSeq(l, 1, k) : k \in 0..Len(l)} : l \in Lists[t]}]

AllActions == UNION {UNION {Range(l) : l \in Lists[t]} : t \in Threads}
HasPath(a) == a.tag \in {"open", "chdir"}
PathsOfActions == {a.path : a \in {b \in AllActions : HasPath(b)}}
Names == UNION {Range(p) : p \in {Home} \cup Dirs \cup {path.parts : path \in PathsOfActions}}

ASSUME PosixSpawnAssumption ==
  /\ IsFiniteSet(Threads)
  /\ MaxFd \in Nat /\ Chunk \in Nat \ {0}
  /\ \A tab \in Tables :
       /\ tab.fds = [fd \in DOMAIN tab.fds |-> tab.fds[fd]]
       /\ DOMAIN tab.fds \subseteq Fds /\ tab.cloexec \subseteq DOMAIN tab.fds
  /\ Stdfds \subseteq [1..3 -> Fds] /\ (Stdfds # {} => MaxFd >= 2)
  /\ {Home} \cup Dirs \subseteq Seq(Names)
  /\ PathsOfActions \subseteq [abs : BOOLEAN, parts : Seq(Names)]

VARIABLES
  table,      \* ghost: the table as the program made it
  fds,        \* the parent's open descriptors and their files
  cloexec,    \* those with FD_CLOEXEC
  list,       \* list[t]: posix_spawn_file_actions_t of t
  allocated,  \* its __allocated
  copies,     \* ghost: copies of paths that t allocated and did not free
  pc,
  w,          \* w[t]: the locals of the call t is in
  ret,        \* result of the call of t
  child       \* child[t]: the child it started

vars == <<table, fds, cloexec, list, allocated, copies, pc, w, ret, child>>

\* The locals: action at hand, pairs for redirection, stack of what is to be
\* restored, directory (none or one path), whether pairs are given at all,
\* P_2_NOINHERIT, spawn2ve() or spawn2vpe(), and ghosts: the array of a direct
\* call, and whether no other call overlapped.
NoWork == [i |-> 0, pairs |-> <<>>, saved |-> <<>>, cwd |-> {}, given |-> FALSE,
           noinherit |-> FALSE, usePath |-> FALSE, std |-> {}, alone |-> TRUE,
           err |-> "ok"]
NoChild == [fds |-> <<>>, dir |-> <<>>]

\* Flags in the attributes that this system cannot honour.
Attrs == {{}, {"POSIX_SPAWN_SETSIGMASK"}, {"POSIX_SPAWN_SETPGROUP"}}

Init ==
  /\ table \in Tables
  /\ fds = table.fds
  /\ cloexec = table.cloexec
  /\ list = [t \in Threads |-> <<>>]
  /\ allocated = [t \in Threads |-> 0]
  /\ copies = [t \in Threads |-> 0]
  /\ pc = [t \in Threads |-> "idle"]
  /\ w = [t \in Threads |-> NoWork]
  /\ ret = [t \in Threads |-> "none"]
  /\ child = [t \in Threads |-> NoChild]

Goto(t, l) == pc' = [pc EXCEPT ![t] = l]

(***************************************************************************)
(* The list of file actions.                                               *)
(***************************************************************************)
FdsOf(a) == CASE a.tag = "dup2" -> {a.fd, a.newfd}
              [] a.tag = "chdir" -> {}
              [] OTHER -> {a.fd}
Paths(l) == Cardinality({i \in DOMAIN l : HasPath(l[i])})

\* Mutant: the array grows one action too late.
FullLate(t) == Len(list[t]) > allocated[t]

\* __used = __allocated
Full(t) == Len(list[t]) = allocated[t]

\* posix_spawn_file_actions_add...(): the descriptors are checked, a path is
\* copied, a full array grows, and the action is added.  When there is no
\* memory for the copy or for the growth, nothing is left behind.
MayAdd(t, a) ==
  /\ pc[t] = "idle" /\ ret[t] = "none"
  /\ Append(list[t], a) \in Partial[t]
  /\ FdsOf(a) \subseteq Fds
Add(t, a) ==
  /\ MayAdd(t, a)
  /\ \/ /\ list' = [list EXCEPT ![t] = Append(@, a)]
        /\ allocated' = [allocated EXCEPT ![t] = IF Full(t) THEN @ + Chunk ELSE @]
        /\ copies' = [copies EXCEPT ![t] = IF HasPath(a) THEN @ + 1 ELSE @]
     \/ /\ HasPath(a) \/ Full(t)
        /\ UNCHANGED <<list, allocated, copies>>
  /\ UNCHANGED <<table, fds, cloexec, pc, w, ret, child>>

\* posix_spawn_file_actions_destroy() frees the paths of the open and chdir
\* actions and the array; the thread may then build another list.
Destroy(t) ==
  /\ pc[t] = "idle" /\ (list[t] # <<>> \/ ret[t] # "none")
  /\ copies' = [copies EXCEPT ![t] = @ - Paths(list[t])]
  /\ list' = [list EXCEPT ![t] = <<>>]
  /\ allocated' = [allocated EXCEPT ![t] = 0]
  /\ ret' = [ret EXCEPT ![t] = "none"]
  /\ w' = [w EXCEPT ![t] = NoWork]
  /\ child' = [child EXCEPT ![t] = NoChild]
  /\ UNCHANGED <<table, fds, cloexec, pc>>

(***************************************************************************)
(* posix_spawn() and posix_spawnp().                                       *)
(***************************************************************************)
Free(u) == pc[u] = "idle"
MayCall(t) == Free(t) /\ ret[t] = "none"
Enter(t, work) ==
  w' = [u \in Threads |->
          IF u = t THEN [work EXCEPT !.alone = \A v \in Threads : Free(v)]
          ELSE [w[u] EXCEPT !.alone = @ /\ Free(u)]]
Return(t, r) ==
  /\ Goto(t, "idle")
  /\ ret' = [ret EXCEPT ![t] = r]
  /\ w' = [w EXCEPT ![t] = [NoWork EXCEPT !.alone = w[t].alone, !.std = w[t].std,
                                          !.noinherit = w[t].noinherit]]

\* Without LIBCx the call goes to LIBC's posix_spawn(), or is not there; flags
\* that the system cannot honour are refused.  The list may be absent.
Call(t) ==
  /\ MayCall(t)
  /\ list[t] \in Lists[t]
  /\ \E loaded, given, usePath \in BOOLEAN, flags \in Attrs :
       /\ list[t] # <<>> => given
       /\ IF loaded /\ flags = {}
            THEN /\ Goto(t, IF given THEN "alloc" ELSE "spawn")
                 /\ Enter(t, [NoWork EXCEPT !.i = 1, !.given = given, !.usePath = usePath])
                 /\ UNCHANGED ret
            ELSE /\ ret' = [ret EXCEPT ![t] = IF loaded THEN "ENOSYS" ELSE "libc"]
                 /\ UNCHANGED <<pc, w>>
  /\ UNCHANGED <<table, fds, cloexec, list, allocated, copies, child>>

\* The arrays of pairs and of what is to be restored.
Alloc(t) ==
  /\ pc[t] = "alloc"
  /\ \/ Goto(t, "apply") /\ UNCHANGED <<w, ret>>
     \/ Return(t, "ENOMEM")
  /\ UNCHANGED <<table, fds, cloexec, list, allocated, copies, child>>

\* Executing action w[t].i goes well, or ends the loop with EINVAL.
At(t, tag) ==
  pc[t] = "apply" /\ w[t].i <= Len(list[t]) /\ list[t][w[t].i].tag = tag
Action(t) == list[t][w[t].i]
Note(t, work) == w' = [w EXCEPT ![t] = [work EXCEPT !.i = @ + 1]] /\ Goto(t, "apply")
Fail(t, e) == w' = [w EXCEPT ![t].err = e] /\ Goto(t, "restore")

NotMine == [tag |-> "none", fd |-> -1]
SavedFlag(fd) == [tag |-> "close", fd |-> fd]
SavedOpen(fd) == [tag |-> "open", fd |-> fd]
Push(t, entry) == [w[t] EXCEPT !.saved = Append(@, entry)]

\* Mutant: save_handle() of a descriptor that is FD_CLOEXEC already is undone too.
DoCloseForget(t) ==
  /\ At(t, "close")
  /\ LET fd == Action(t).fd
     IN  IF fd \notin DOMAIN fds THEN Fail(t, "EINVAL")
         ELSE Goto(t, "mark") /\ UNCHANGED w
  /\ UNCHANGED <<table, fds, cloexec, list, allocated, copies, ret, child>>

\* close: save_handle() reads the flags.  A descriptor that is FD_CLOEXEC
\* already needs no restoring.
DoClose(t) ==
  /\ At(t, "close")
  /\ LET fd == Action(t).fd
     IN  IF fd \notin DOMAIN fds THEN Fail(t, "EINVAL")
         ELSE IF fd \in cloexec THEN Note(t, Push(t, NotMine))
         ELSE Goto(t, "mark") /\ UNCHANGED w
  /\ UNCHANGED <<table, fds, cloexec, list, allocated, copies, ret, child>>

\* It then sets them, on whatever the descriptor is by now.
MarkClose(t) ==
  /\ pc[t] = "mark"
  /\ LET fd == Action(t).fd
     IN  IF fd \in DOMAIN fds
           THEN Note(t, Push(t, SavedFlag(fd))) /\ cloexec' = cloexec \cup {fd}
           ELSE Fail(t, "EINVAL") /\ UNCHANGED cloexec
  /\ UNCHANGED <<table, fds, list, allocated, copies, ret, child>>

\* dup2: the source is looked up in the parent.
DoDup2(t) ==
  /\ At(t, "dup2")
  /\ LET a == Action(t)
     IN  IF a.fd \in DOMAIN fds
           THEN Note(t, [w[t] EXCEPT !.pairs = Append(@, <<a.fd, a.newfd>>)])
           ELSE Fail(t, "EINVAL")
  /\ UNCHANGED <<table, fds, cloexec, list, allocated, copies, ret, child>>

\* Mutant: the last directory is forgotten.
MergedNot(cwd, path) == path

\* A relative path is merged with the directory noted before, if there is one.
Merged(cwd, path) ==
  IF cwd # {} /\ ~path.abs
    THEN LET c == CHOOSE c \in cwd : TRUE IN [c EXCEPT !.parts = @ \o path.parts]
    ELSE path

\* open: in the parent, O_NOINHERIT, at the lowest free descriptor.
Lowest(S) == CHOOSE n \in S : \A m \in S : n <= m
DoOpen(t) ==
  /\ At(t, "open")
  /\ LET a    == Action(t)
         file == Resolve(Home, Merged(w[t].cwd, a.path))
         free == Fds \ DOMAIN fds
         fd   == Lowest(free)
     IN  IF file \in Existing /\ free # {}
           THEN /\ fds' = With(fds, fd, file)
                /\ cloexec' = cloexec \cup {fd}
                /\ Note(t, [Push(t, SavedOpen(fd)) EXCEPT
                              !.pairs = Append(@, <<fd, a.fd>>)])
           ELSE Fail(t, "EINVAL") /\ UNCHANGED <<fds, cloexec>>
  /\ UNCHANGED <<table, list, allocated, copies, ret, child>>

DoChdir(t) ==
  /\ At(t, "chdir")
  /\ Note(t, [w[t] EXCEPT !.cwd = {Merged(@, Action(t).path)}])
  /\ UNCHANGED <<table, fds, cloexec, list, allocated, copies, ret, child>>

DoFchdir(t) ==
  /\ At(t, "fchdir")
  /\ LET fd == Action(t).fd
     IN  IF fd \in DOMAIN fds
           THEN Note(t, [w[t] EXCEPT !.cwd = {Abs(fds[fd])}])
           ELSE Fail(t, "EINVAL")
  /\ UNCHANGED <<table, fds, cloexec, list, allocated, copies, ret, child>>

Applied(t) ==
  /\ pc[t] = "apply" /\ w[t].i > Len(list[t])
  /\ Goto(t, "spawn")
  /\ UNCHANGED <<table, fds, cloexec, list, allocated, copies, w, ret, child>>

(***************************************************************************)
(* spawn2.c.                                                               *)
(***************************************************************************)
ExePath(t) == Resolve(Home, Merged(w[t].cwd, Exe))

\* os2compat_spawn2ve() looks for the program in the new directory first, where
\* LIBCx would go on to search PATH.
Search(t) ==
  /\ pc[t] = "spawn"
  /\ IF ~w[t].usePath /\ ExePath(t) \notin Existing
       THEN Fail(t, "ENOENT")
       ELSE /\ Goto(t, IF w[t].given /\ ~w[t].noinherit THEN "collect" ELSE "start")
            /\ UNCHANGED w
  /\ UNCHANGED <<table, fds, cloexec, list, allocated, copies, ret, child>>

\* A program may call spawn2ve() or spawn2vpe() itself, with three descriptors.
\* 0 stands for the descriptor of the position; they become pairs.
Simple(std) == [k \in 1..3 |-> <<IF std[k] = 0 THEN k - 1 ELSE std[k], k - 1>>]

Spawn2(t) ==
  /\ MayCall(t) /\ list[t] = <<>> /\ <<>> \in Lists[t]
  /\ \E std \in Stdfds, noinherit, usePath, ok \in BOOLEAN :
       IF ok
         THEN /\ Goto(t, "spawn")
              /\ Enter(t, [NoWork EXCEPT !.pairs = Simple(std), !.std = {std},
                             !.given = TRUE, !.noinherit = noinherit, !.usePath = usePath])
              /\ UNCHANGED ret
         ELSE /\ ~noinherit
              /\ ret' = [ret EXCEPT ![t] = "ENOMEM"] /\ UNCHANGED <<pc, w>>
  /\ UNCHANGED <<table, fds, cloexec, list, allocated, copies, child>>

\* Unlike LIBCx, every open descriptor without FD_CLOEXEC that no pair gives to
\* the child is passed under its own number.
Targets(pairs) == {pairs[k][2] : k \in DOMAIN pairs}

\* Mutant: descriptors that a pair gives to the child are passed too.
PassedOnAll(pairs) == {fd \in DOMAIN fds : fd \notin cloexec}

\* Mutant: FD_CLOEXEC is not looked at.
PassedOnMarked(pairs) == {fd \in DOMAIN fds : fd \notin Targets(pairs)}

PassedOn(pairs) ==
  {fd \in DOMAIN fds : fd \notin cloexec /\ fd \notin Targets(pairs)}
Collect(t) ==
  /\ pc[t] = "collect"
  /\ \/ /\ LET pass == SetToSeq(PassedOn(w[t].pairs))
           IN  w' = [w EXCEPT ![t].pairs = @ \o [k \in DOMAIN pass |-> <<pass[k], pass[k]>>]]
        /\ Goto(t, "start")
     \/ Fail(t, "ENOMEM")
  /\ UNCHANGED <<table, fds, cloexec, list, allocated, copies, ret, child>>

\* libcx_spawn2(): all sources are those of the parent at this time; of two pairs
\* for one target the later counts.  Without pairs the child inherits what
\* OS/2 lets it inherit.
LastOf(pairs, fd) ==
  pairs[CHOOSE k \in DOMAIN pairs :
          pairs[k][2] = fd /\ \A j \in DOMAIN pairs : j > k => pairs[j][2] # fd][1]
Given(pairs) == [fd \in Targets(pairs) |-> fds[LastOf(pairs, fd)]]
Sources(pairs) == {pairs[k][1] : k \in DOMAIN pairs}
Start(t) ==
  /\ pc[t] = "start"
  /\ LET pairs == w[t].pairs
         dir   == IF w[t].cwd = {} THEN Home ELSE Resolve(Home, CHOOSE c \in w[t].cwd : TRUE)
     IN  \/ /\ dir \in Dirs /\ Sources(pairs) \subseteq DOMAIN fds
            /\ child' = [child EXCEPT ![t] =
                 [fds |-> IF w[t].given THEN Given(pairs) ELSE Without(fds, cloexec),
                  dir |-> dir]]
            /\ Goto(t, "restore")
            /\ UNCHANGED w
         \/ Fail(t, "ENOENT") /\ UNCHANGED child
  /\ UNCHANGED <<table, fds, cloexec, list, allocated, copies, ret>>

(***************************************************************************)
(* Back in posix_spawn(): restore_handle() from the last entry to the      *)
(* first.  F_SETFD on a descriptor that is closed by now does nothing.     *)
(***************************************************************************)
Restore(t) ==
  /\ pc[t] = "restore" /\ w[t].saved # <<>>
  /\ LET e == Last(w[t].saved)
     IN  /\ cloexec' = IF e.tag = "none" THEN cloexec ELSE cloexec \ {e.fd}
         /\ fds' = IF e.tag = "open" THEN Without(fds, {e.fd}) ELSE fds
  /\ w' = [w EXCEPT ![t].saved = Front(@)]
  /\ UNCHANGED <<table, list, allocated, copies, pc, ret, child>>

End(t) ==
  /\ pc[t] = "restore" /\ w[t].saved = <<>>
  /\ Return(t, w[t].err)
  /\ UNCHANGED <<table, fds, cloexec, list, allocated, copies, child>>

Step(t) ==
  \/ Alloc(t)
  \/ DoClose(t) \/ MarkClose(t) \/ DoDup2(t) \/ DoOpen(t) \/ DoChdir(t) \/ DoFchdir(t)
  \/ Applied(t) \/ Search(t) \/ Collect(t) \/ Start(t) \/ Restore(t) \/ End(t)
Next ==
  \E t \in Threads :
    \/ \E a \in AllActions : Add(t, a)
    \/ Destroy(t) \/ Call(t) \/ Spawn2(t)
    \/ Step(t)

Spec == Init /\ [][Next]_vars

(***************************************************************************)
(* Properties.                                                             *)
(***************************************************************************)
PCs == {"idle", "alloc", "apply", "mark", "spawn", "collect", "start", "restore"}
Results == {"none", "ok", "libc", "ENOSYS", "ENOMEM", "EINVAL", "ENOENT"}
TypeOK ==
  /\ table \in Tables
  /\ DOMAIN fds \subseteq Fds /\ cloexec \subseteq DOMAIN fds
  /\ \A t \in Threads :
       /\ list[t] \in Partial[t] \cup {<<>>}
       /\ allocated[t] \in Nat /\ allocated[t] >= Len(list[t]) /\ copies[t] \in Nat
       /\ pc[t] \in PCs /\ ret[t] \in Results
       /\ w[t].i \in 0..(Len(list[t]) + 1)
       /\ w[t].pairs \in Seq(Fds \X Fds)

\* When no thread is in the library the program's table is as it was: every
\* descriptor that open actions made is closed and every flag that close
\* actions set is reset, on each way out, for lists with the same descriptor
\* twice, and when calls of several threads save and restore the same flags.
\* Of memory only the paths that are in the lists are left, also after
\* additions that failed.
ParentRestored ==
  /\ (\A t \in Threads : pc[t] = "idle") => fds = table.fds /\ cloexec = table.cloexec
  /\ \A t \in Threads : copies[t] = Paths(list[t])

\* The descriptors an action needs in the parent are the program's own, and no
\* earlier action of the list redirected or closed them; directories exist.
Before(l, i) == {l[j] : j \in 1..(i - 1)}
Redirected(acts) ==
  {IF a.tag = "dup2" THEN a.newfd ELSE a.fd : a \in {b \in acts : b.tag \in {"dup2", "open"}}}
Closed(acts) == {a.fd : a \in {b \in acts : b.tag = "close"}}
Posix(tab, l) == Child(tab.fds, tab.cloexec, Home, l)

\* The directory after each number of actions, if each of them exists.
Moved(tab, dir, a) ==
  CASE a.tag = "chdir" -> Resolve(dir, a.path)
    [] a.tag = "fchdir" -> tab.fds[a.fd]
    [] OTHER -> dir
DirAfter(tab, l) ==
  LET at[i \in 0..Len(l)] == IF i = 0 THEN Home ELSE Moved(tab, at[i - 1], l[i])
  IN  at
Straight(tab, l) ==
  \A i \in DOMAIN l :
    /\ l[i].tag \in {"close", "dup2", "fchdir"} =>
         /\ l[i].fd \in DOMAIN tab.fds
         /\ l[i].fd \notin Redirected(Before(l, i))
         /\ l[i].tag # "close" => l[i].fd \notin Closed(Before(l, i))
    /\ l[i].tag \in {"chdir", "fchdir"} => DirAfter(tab, l)[i] \in Dirs

Spawned(t) == ret[t] = "ok" /\ w[t].std = {}

\* A child that a posix_spawn() alone in the library starts has the
\* descriptors and the directory that POSIX says, and an action that must fail
\* starts none: the walk in the parent stands for the one in the child.
ChildAsPosix ==
  \A t \in Threads :
    Spawned(t) /\ w[t].alone /\ Straight(table, list[t]) =>
      Posix(table, list[t]) = [ok |-> TRUE, fds |-> child[t].fds, dir |-> child[t].dir]

\* Calls of other threads at the same time, which change the table and its
\* flags, do not touch what the list redirects, nor the directory: they can only
\* add or hide descriptors that are passed under their own number.
TargetsAsPosix ==
  \A t \in Threads :
    Spawned(t) /\ Straight(table, list[t]) =>
      /\ Posix(table, list[t]).ok /\ child[t].dir = Posix(table, list[t]).dir
      /\ \A fd \in Redirected(Range(list[t])) \ Closed(Range(list[t])) :
           /\ fd \in DOMAIN child[t].fds
           /\ child[t].fds[fd] = Posix(table, list[t]).fds[fd]

\* What src/testcase/spawn2-2.c tests: spawn2ve() passes the open descriptors
\* that have no FD_CLOEXEC, with P_2_NOINHERIT only the three; and they are
\* those of the array, also when it swaps them.
Spawn2Passes ==
  \A t \in Threads :
    ret[t] = "ok" /\ w[t].alone /\ w[t].std # {} =>
      LET std  == CHOOSE s \in w[t].std : TRUE
          rest == (DOMAIN table.fds \ table.cloexec) \ 0..2
      IN  /\ DOMAIN child[t].fds = 0..2 \cup (IF w[t].noinherit THEN {} ELSE rest)
          /\ \A fd \in 0..2 : child[t].fds[fd] =
               table.fds[IF std[fd + 1] = 0 THEN fd ELSE std[fd + 1]]
          /\ \A fd \in DOMAIN child[t].fds \ 0..2 : child[t].fds[fd] = table.fds[fd]
=============================================================================
