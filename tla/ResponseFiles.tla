--------------------------- MODULE ResponseFiles ---------------------------
(***************************************************************************)
(* process/spawn.c, exec.c and _response.c: arguments and environment that *)
(* are too large for OS/2 go to the child through files.                   *)
(*                                                                         *)
(* spawnve() writes them, starts the child with the names of the files,    *)
(* and removes the files after a P_WAIT.  For the other modes it puts them *)
(* on a list that the exit handler of the process removes; P_OVERLAY does  *)
(* not return, so the list is filled before it.  The child reads the files *)
(* in _response(), some time after it was started.  Other processes make   *)
(* files with the same kind of names.                                      *)
(***************************************************************************)
EXTENDS Naturals, Sequences, FiniteSets, SequencesExt

CONSTANTS
  Calls,         \* the calls of spawnve(); calls of several threads may overlap
  Names,         \* names of files that mkstemp() may find
  Envs,          \* environments: sequences of the lengths of their strings
  ENV_SIZE_MAX,  \* limits of the environment, small here
  ENV_STR_MAX,
  Other          \* another process, which is none of the calls

Kinds == {"arg", "env"}
Modes == {"P_WAIT", "P_NOWAIT", "P_OVERLAY"}

ASSUME ResponseFilesAssumption ==
  /\ IsFiniteSet(Calls) /\ IsFiniteSet(Names) /\ Other \notin Calls
  /\ ENV_SIZE_MAX \in Nat \ {0} /\ ENV_STR_MAX \in Nat
  /\ \A e \in Envs : e \in Seq(Nat)

VARIABLES
  proc,     \* the process: "up", in its exit handler, or gone
  files,    \* the response files that exist, and the call that made each
  rsp,      \* rsp_temp_start: the files to remove at the end, newest first
  pc,
  w,        \* w[c]: the locals of call c
  kid,      \* kid[c]: how far the child of c is
  missed,   \* missed[c]: what the child did not get
  ended,    \* ghost: files the exit handler took from children that had not read them
  lost      \* ghost: entries that an insertion overwrote

vars == <<proc, files, rsp, pc, w, kid, missed, ended, lost>>

\* The locals: the mode, what is too big, what was not written in full (a ghost),
\* the names of the two files (none or one), the names still to insert, and
\* rsp_temp_start as the insertion loaded it.
NoWork == [mode |-> "P_WAIT", big |-> {}, short |-> {}, arg |-> {},
           envf |-> {}, todo |-> <<>>, seen |-> <<>>, ok |-> FALSE]

Init ==
  /\ proc = "up"
  /\ files = [n \in {} |-> Other]
  /\ rsp = <<>>
  /\ pc = [c \in Calls |-> "new"]
  /\ w = [c \in Calls |-> NoWork]
  /\ kid = [c \in Calls |-> "none"]
  /\ missed = [c \in Calls |-> {}]
  /\ ended = {}
  /\ lost = {}

Goto(c, l) == pc' = [pc EXCEPT ![c] = l]
In(c, l) == proc = "up" /\ pc[c] = l
Mine(c) == w[c].arg \cup w[c].envf
Unlink(S) == files' = [n \in DOMAIN files \ S |-> files[n]]
Make(n, c) ==
  files' = [m \in DOMAIN files \cup {n} |-> IF m = n THEN c ELSE files[m]]

(***************************************************************************)
(* The environment: strings that are too long, and those after which the   *)
(* sum is too large, go to the file.                                       *)
(***************************************************************************)

\* The size after each number of strings, with the byte at the end.
Sizes(e) ==
  LET size[i \in 0..Len(e)] == IF i = 0 THEN 1 ELSE size[i - 1] + e[i] + 1
  IN  size
Total(e) == Sizes(e)[Len(e)]

\* Mutant: the sum is compared before the string is added.
GiveLate(s, len) ==
  IF len > ENV_STR_MAX \/ s.n > ENV_SIZE_MAX
    THEN [n |-> s.n + len + 1, pass |-> s.pass, file |-> Append(s.file, len)]
    ELSE [n |-> s.n + len + 1, pass |-> Append(s.pass, len), file |-> s.file]

\* One string.
Give(s, len) ==
  IF len > ENV_STR_MAX
    THEN [n |-> s.n, pass |-> s.pass, file |-> Append(s.file, len)]
  ELSE IF s.n + len + 1 > ENV_SIZE_MAX
    THEN [n |-> s.n + len + 1, pass |-> s.pass, file |-> Append(s.file, len)]
    ELSE [n |-> s.n + len + 1, pass |-> Append(s.pass, len), file |-> s.file]

Splits(e) ==
  LET given[i \in 0..Len(e)] ==
        IF i = 0 THEN [n |-> 1, pass |-> <<>>, file |-> <<>>] ELSE Give(given[i - 1], e[i])
  IN  given
Split(e) == Splits(e)[Len(e)]

(***************************************************************************)
(* spawnve().                                                              *)
(***************************************************************************)
Done(c) == Goto(c, "done")

\* The program is not in PATH, or the first _std_spawnve() starts it, or fails
\* for another reason than the size: no files are needed.
Direct(c) ==
  /\ In(c, "new") /\ Done(c)
  /\ UNCHANGED <<proc, files, rsp, w, kid, missed, ended, lost>>

\* exec...() is spawnve() with P_OVERLAY.
Exec == "P_OVERLAY"
Call(c) ==
  /\ In(c, "new")
  /\ \E mode \in Modes, big \in SUBSET Kinds :
       w' = [w EXCEPT ![c] = [NoWork EXCEPT !.mode = mode, !.big = big]]
  /\ Goto(c, "arg")
  /\ UNCHANGED <<proc, files, rsp, kid, missed, ended, lost>>

\* mkstemp(), and write(), whose result is not looked at.
Short(set, short, kind) == IF short THEN set \cup {kind} ELSE set
MakeArg(c) ==
  /\ In(c, "arg")
  /\ IF "arg" \notin w[c].big
       THEN Goto(c, "env") /\ UNCHANGED <<files, w>>
       ELSE \/ \E n \in Names \ DOMAIN files, short \in BOOLEAN :
                 /\ Make(n, c)
                 /\ w' = [w EXCEPT ![c].arg = {n}, ![c].short = Short(@, short, "arg")]
                 /\ Goto(c, "env")
            \/ Done(c) /\ UNCHANGED <<files, w>>
  /\ UNCHANGED <<proc, rsp, kid, missed, ended, lost>>

\* Mutant: when there is no second file the first one stays.
MakeEnvKeep(c) ==
  /\ In(c, "env")
  /\ IF "env" \notin w[c].big
       THEN Goto(c, "list") /\ UNCHANGED <<files, w>>
       ELSE \/ \E n \in Names \ DOMAIN files, short \in BOOLEAN :
                 /\ Make(n, c)
                 /\ w' = [w EXCEPT ![c].envf = {n}, ![c].short = Short(@, short, "env")]
                 /\ Goto(c, "list")
            \/ Done(c) /\ UNCHANGED <<files, w>>
  /\ UNCHANGED <<proc, rsp, kid, missed, ended, lost>>

\* The same for the environment; without a second file the first is removed.
MakeEnv(c) ==
  /\ In(c, "env")
  /\ IF "env" \notin w[c].big
       THEN Goto(c, "list") /\ UNCHANGED <<files, w>>
       ELSE \/ \E n \in Names \ DOMAIN files, short \in BOOLEAN :
                 /\ Make(n, c)
                 /\ w' = [w EXCEPT ![c].envf = {n}, ![c].short = Short(@, short, "env")]
                 /\ Goto(c, "list")
            \/ Done(c) /\ Unlink(Mine(c)) /\ UNCHANGED w
  /\ UNCHANGED <<proc, rsp, kid, missed, ended, lost>>

Queue(c) == [w EXCEPT ![c].todo = SetToSeq(w[c].arg) \o SetToSeq(w[c].envf)]

\* P_OVERLAY puts the files on the list now.
List(c) ==
  /\ In(c, "list")
  /\ w' = IF w[c].mode = Exec THEN Queue(c) ELSE w
  /\ Goto(c, IF w[c].mode = Exec THEN "add" ELSE "spawn")
  /\ UNCHANGED <<proc, files, rsp, kid, missed, ended, lost>>

\* Mutant: the call goes on with spawning after each insertion.
AfterAddAgain(c) == "spawn"

AfterAdd(c) == IF w[c].ok THEN "done" ELSE "spawn"

\* spawn_add_rsp_temp() loads rsp_temp_start into the new entry, and then makes the
\* entry the first: what another thread inserted in between is overwritten.
AddLoad(c) ==
  /\ In(c, "add")
  /\ IF w[c].todo = <<>>
       THEN Goto(c, AfterAdd(c)) /\ UNCHANGED w
       ELSE Goto(c, "store") /\ w' = [w EXCEPT ![c].seen = rsp]
  /\ UNCHANGED <<proc, files, rsp, kid, missed, ended, lost>>
Entry(c, n) == [by |-> c, name |-> n]
AddStore(c) ==
  /\ In(c, "store")
  /\ rsp' = <<Entry(c, Head(w[c].todo))>> \o w[c].seen
  /\ lost' = lost \cup (Range(rsp) \ Range(w[c].seen))
  /\ w' = [w EXCEPT ![c].todo = Tail(@)]
  /\ Goto(c, "add")
  /\ UNCHANGED <<proc, files, kid, missed, ended>>

\* The second _std_spawnve().  P_OVERLAY returns only when it failed.
Spawn(c) ==
  /\ In(c, "spawn")
  /\ \E ok \in BOOLEAN :
       /\ w' = [w EXCEPT ![c].ok = ok]
       /\ kid' = [kid EXCEPT ![c] = IF ok THEN "env" ELSE "none"]
       /\ Goto(c, IF ok /\ w[c].mode = Exec THEN "overlaid"
                  ELSE IF ok /\ w[c].mode = "P_WAIT" THEN "wait" ELSE "after")
  /\ UNCHANGED <<proc, files, rsp, missed, ended, lost>>

Waited(c) ==
  /\ In(c, "wait") /\ kid[c] = "ended"
  /\ Goto(c, "after")
  /\ UNCHANGED <<proc, files, rsp, w, kid, missed, ended, lost>>

\* Mutant: the files of every child that was started are removed at once.
AfterHasty(c) ==
  /\ In(c, "after")
  /\ Unlink(Mine(c)) /\ Done(c)
  /\ UNCHANGED <<proc, rsp, w, kid, missed, ended, lost>>

\* The files go on the list while the child may need them, and are removed when it
\* has ended or was not started.  Entries that P_OVERLAY made stay.
After(c) ==
  /\ In(c, "after")
  /\ IF w[c].ok /\ w[c].mode # "P_WAIT"
       THEN w' = Queue(c) /\ Goto(c, "add") /\ UNCHANGED files
       ELSE Unlink(Mine(c)) /\ Done(c) /\ UNCHANGED w
  /\ UNCHANGED <<proc, rsp, kid, missed, ended, lost>>

(***************************************************************************)
(* The child: _response() reads the environment, then the arguments.  A    *)
(* file that is not there is passed over, an empty one too.                *)
(***************************************************************************)
Gets(c, kind, S) ==
  kind \notin w[c].short /\ \A n \in S : n \in DOMAIN files /\ files[n] = c
Read(c, kind, S, next) ==
  /\ missed' = [missed EXCEPT ![c] = IF Gets(c, kind, S) THEN @ ELSE @ \cup {kind}]
  /\ kid' = [kid EXCEPT ![c] = next]
  /\ UNCHANGED <<proc, files, rsp, pc, w, ended, lost>>
ResponseEnv(c) == kid[c] = "env" /\ Read(c, "env", w[c].envf, "arg")
ResponseArg(c) == kid[c] = "arg" /\ Read(c, "arg", w[c].arg, "runs")
KidEnds(c) ==
  /\ kid[c] = "runs"
  /\ kid' = [kid EXCEPT ![c] = "ended"]
  /\ UNCHANGED <<proc, files, rsp, pc, w, missed, ended, lost>>

(***************************************************************************)
(* The end of the process, at any step of its threads; after a P_OVERLAY   *)
(* it comes when the new program has ended.                                *)
(***************************************************************************)
Exit ==
  /\ proc = "up"
  /\ \A c \in Calls : pc[c] = "overlaid" => kid[c] = "ended"
  /\ proc' = "exiting"
  /\ UNCHANGED <<files, rsp, pc, w, kid, missed, ended, lost>>

\* The child of c may still want this file.
Wanted(c, n) == \/ kid[c] = "env" /\ n \in Mine(c)
                \/ kid[c] = "arg" /\ n \in w[c].arg

\* spawn_cleanup(): spawn_remove_rsp_temp( -1 ) from the first to the last.
Cleanup ==
  /\ proc = "exiting"
  /\ IF rsp = <<>>
       THEN proc' = "gone" /\ UNCHANGED <<files, rsp, ended>>
       ELSE LET e == Head(rsp)
            IN  /\ Unlink({e.name})
                /\ ended' = ended \cup {c \in Calls : Wanted(c, e.name)}
                /\ rsp' = Tail(rsp)
                /\ UNCHANGED proc
  /\ UNCHANGED <<pc, w, kid, missed, lost>>

\* Another process uses such files too.
OtherMakes ==
  /\ \E n \in Names \ DOMAIN files : Make(n, Other)
  /\ UNCHANGED <<proc, rsp, pc, w, kid, missed, ended, lost>>

Step(c) ==
  \/ Direct(c) \/ Call(c) \/ MakeArg(c) \/ MakeEnv(c) \/ List(c) \/ AddLoad(c) \/ AddStore(c)
  \/ Spawn(c) \/ Waited(c) \/ After(c)
Child(c) == ResponseEnv(c) \/ ResponseArg(c) \/ KidEnds(c)
Next ==
  \/ \E c \in Calls : Step(c) \/ Child(c)
  \/ Exit \/ Cleanup \/ OtherMakes
Spec == Init /\ [][Next]_vars

(***************************************************************************)
(* Properties.                                                             *)
(***************************************************************************)
PCs == {"new", "arg", "env", "list", "add", "store", "spawn", "wait", "overlaid",
        "after", "done"}
Kids == {"none", "env", "arg", "runs", "ended"}
Entries == [by : Calls, name : Names]
Locals == [mode : Modes, big : SUBSET Kinds, short : SUBSET Kinds, arg : SUBSET Names,
           envf : SUBSET Names, todo : Seq(Names), seen : Seq(Entries), ok : BOOLEAN]

\* No file is on the list twice for one call.
TypeOK ==
  /\ proc \in {"up", "exiting", "gone"}
  /\ DOMAIN files \subseteq Names
  /\ \A n \in DOMAIN files : files[n] \in Calls \cup {Other}
  /\ rsp \in Seq(Entries)
  /\ \A j, k \in DOMAIN rsp : rsp[j] = rsp[k] => j = k
  /\ pc \in [Calls -> PCs]
  /\ w \in [Calls -> Locals]
  /\ kid \in [Calls -> Kids]
  /\ missed \in [Calls -> SUBSET Kinds]
  /\ ended \subseteq Calls
  /\ lost \subseteq Entries

Failed(c) == w[c].mode = Exec /\ ~w[c].ok /\ pc[c] \in {"after", "done"}

\* A child misses arguments or environment only when the disk was full, or when
\* the parent ended before the child had read its files: nothing else takes a
\* file from a child, in no order of threads, children and exit handler.
ChildServed ==
  \A c \in Calls : missed[c] \subseteq w[c].short \/ c \in ended

\* Every file of the process belongs to a call in progress or is on the list; the
\* exceptions are entries that two insertions at a time lost.
FilesTracked ==
  proc = "up" =>
    \A n \in DOMAIN files :
      LET c == files[n]
      IN  c # Other =>
            \/ pc[c] \notin {"new", "done"}
            \/ Entry(c, n) \in Range(rsp) \cup lost

\* The list names no file that is not the call's own, so that the exit handler
\* removes no file of another process; the exceptions are the entries of a
\* P_OVERLAY that failed.
ListAccurate ==
  \A k \in DOMAIN rsp :
    LET e == rsp[k]
    IN  Failed(e.by) \/ (e.name \in DOMAIN files /\ files[e.name] = e.by)

\* Nothing that is on the disk is forgotten, and nothing on the list is another's.
FilesListed == FilesTracked /\ ListAccurate

\* No string of an environment is lost or doubled between the two ways, what is
\* passed directly is small enough, and with the name of the file and the NULL it fits
\* the array, which has one place more than there are strings.
SplitsWhole ==
  \A e \in Envs :
    Total(e) > ENV_SIZE_MAX =>
      LET s == Split(e)
      IN  /\ Len(s.pass) + Len(s.file) = Len(e)
          /\ Total(s.pass) <= ENV_SIZE_MAX
          /\ Len(s.pass) + 2 <= Len(e) + 1

\* A call with an environment that is too large loses none of it.
EnvWhole == \A c \in Calls : pc[c] = "env" /\ "env" \in w[c].big => SplitsWhole
=============================================================================
