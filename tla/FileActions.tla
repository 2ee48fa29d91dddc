---------------------------- MODULE FileActions ----------------------------
(***************************************************************************)
(* What POSIX says a list of file actions does.                            *)
(*                                                                         *)
(* The actions are executed in the child, in their order, on a table of    *)
(* descriptors and a directory copied from the parent; then exec closes    *)
(* what is marked close-on-exec.  An action that fails ends the child.     *)
(* Files and directories are known by their absolute paths.                *)
(***************************************************************************)
EXTENDS Naturals, Sequences, SequencesExt

CONSTANTS
  Existing,   \* absolute paths of the files that can be opened
  Dirs        \* absolute paths of the directories

\* A path as a program writes it: absolute or not, and its parts.
Abs(parts) == [abs |-> TRUE, parts |-> parts]
Rel(parts) == [abs |-> FALSE, parts |-> parts]
Resolve(dir, path) == IF path.abs THEN path.parts ELSE dir \o path.parts

Close(fd) == [tag |-> "close", fd |-> fd]
Dup2(fd, newfd) == [tag |-> "dup2", fd |-> fd, newfd |-> newfd]
Open(fd, path) == [tag |-> "open", fd |-> fd, path |-> path]
Chdir(path) == [tag |-> "chdir", path |-> path]
Fchdir(fd) == [tag |-> "fchdir", fd |-> fd]

\* A partial function with the value of one argument set, or removed.
With(f, x, v) == [y \in DOMAIN f \cup {x} |-> IF y = x THEN v ELSE f[y]]
Without(f, S) == [y \in DOMAIN f \ S |-> f[y]]

Failed(s) == [s EXCEPT !.ok = FALSE]

\* One action in the child.  Closing what is not open is no error.
Perform(s, a) ==
  CASE ~s.ok -> s
    [] s.ok /\ a.tag = "close" -> [s EXCEPT !.fds = Without(@, {a.fd})]
    [] s.ok /\ a.tag = "dup2" ->
         IF a.fd \in DOMAIN s.fds
           THEN [s EXCEPT !.fds = With(@, a.newfd, @[a.fd]),
                          !.cloexec = @ \ {a.newfd}]
           ELSE Failed(s)
    [] s.ok /\ a.tag = "open" ->
         LET f == Resolve(s.dir, a.path)
         IN  IF f \in Existing
               THEN [s EXCEPT !.fds = With(@, a.fd, f), !.cloexec = @ \ {a.fd}]
               ELSE Failed(s)
    [] s.ok /\ a.tag = "chdir" ->
         LET d == Resolve(s.dir, a.path)
         IN  IF d \in Dirs THEN [s EXCEPT !.dir = d] ELSE Failed(s)
    [] s.ok /\ a.tag = "fchdir" ->
         IF a.fd \in DOMAIN s.fds /\ s.fds[a.fd] \in Dirs
           THEN [s EXCEPT !.dir = s.fds[a.fd]]
           ELSE Failed(s)

\* After each number of actions.
Walk(s, list) ==
  LET after[i \in 0..Len(list)] == IF i = 0 THEN s ELSE Perform(after[i - 1], list[i])
  IN  after

\* The child of a parent with this table and directory, when its program starts.
Copied(fds, cloexec, dir) == [fds |-> fds, cloexec |-> cloexec, dir |-> dir, ok |-> TRUE]
Child(fds, cloexec, dir, list) ==
  LET s == Walk(Copied(fds, cloexec, dir), list)[Len(list)]
  IN  [ok |-> s.ok, fds |-> Without(s.fds, s.cloexec), dir |-> s.dir]
=============================================================================
