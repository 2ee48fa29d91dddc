---------------------- MODULE ResponseFiles_proofs ----------------------
(***************************************************************************)
(* Proofs about ResponseFiles for any calls, names and environments.       *)
(*                                                                         *)
(* The inductive invariant IInv adds to what is claimed: which names a     *)
(* call has at each place (NameInv) and that it owns the files of these    *)
(* names as long as it needs them (OwnInv); how far its child can be       *)
(* (KidInv); that an entry of the list is of a call that is past inserting *)
(* it (EntryInv); and that of two entries of one name the older is of a    *)
(* P_OVERLAY that failed (OrderInv).  The steps are first reduced to what  *)
(* they do (Does, Reads, Takes ...); a lemma per conjunct then goes        *)
(* through these.                                                          *)
(*                                                                         *)
(* The split of an environment is about data only; its part is the last.   *)
(***************************************************************************)
EXTENDS ResponseFiles, SequenceTheorems, FiniteSetTheorems, WellFoundedInduction, TLAPS

\* No entry is in the list twice.
Single(s) == \A j, k \in DOMAIN s : s[j] = s[k] => j = k

\* What the list names, now and as the insertions loaded it.
Recorded == Range(rsp) \cup UNION {Range(w[c].seen) : c \in Calls}

\* The files of a call are still there.
Kept(c) ==
  \/ pc[c] \notin {"new", "arg", "done"}
  \/ pc[c] = "done" /\ w[c].ok /\ w[c].mode # "P_WAIT"

\* A set of no name or one.
Few(S) == \A m, n \in S : m = n

\* The names a call has.
NameInv ==
  \A c \in Calls :
    /\ pc[c] \in {"new", "arg"} => w[c].arg = {}
    /\ pc[c] \in {"new", "arg", "env"} => w[c].envf = {}
    /\ Few(w[c].arg) /\ Few(w[c].envf) /\ w[c].arg \cap w[c].envf = {}

\* Until the exit handler runs, a call has the files it needs, and no others.
Owns(c) ==
  /\ Kept(c) => \A n \in Mine(c) : n \in DOMAIN files /\ files[n] = c
  /\ \A n \in DOMAIN files : files[n] = c => Kept(c) /\ n \in Mine(c)
OwnInv == proc = "up" => \A c \in Calls : Owns(c)

\* How far the call and its child can be.
KidInv ==
  \A c \in Calls :
    /\ pc[c] = "overlaid" => w[c].ok /\ w[c].mode = Exec
    /\ pc[c] = "wait" => w[c].ok /\ w[c].mode = "P_WAIT"
    /\ pc[c] \in {"new", "arg", "env", "list", "spawn"} => ~w[c].ok
    /\ pc[c] \in {"add", "store"} => w[c].mode = IF w[c].ok THEN "P_NOWAIT" ELSE Exec
    /\ pc[c] \in {"after", "done"} /\ w[c].ok => w[c].mode # Exec
    /\ pc[c] \in {"after", "done"} /\ w[c].ok /\ w[c].mode = "P_WAIT" => kid[c] = "ended"
    /\ kid[c] # "none" => w[c].ok
    /\ kid[c] = "none" => missed[c] = {}

\* What a child still wants is there, or the exit handler took it.
KidServed ==
  \A c \in Calls : c \notin ended =>
    \A n \in Names : Wanted(c, n) => n \in DOMAIN files /\ files[n] = c

\* No list has an entry twice; what a call has still to insert is its own.
SingleInv ==
  /\ Single(rsp)
  /\ \A c \in Calls :
       /\ Single(w[c].seen) /\ Single(w[c].todo)
       /\ pc[c] \in {"add", "store"} => Range(w[c].todo) \subseteq Mine(c)
       /\ pc[c] = "store" => w[c].todo # <<>>

\* An entry is of a call that has put it on the list and will not do so again.
Placed(e) ==
  /\ e.name \in Mine(e.by)
  /\ pc[e.by] \notin {"new", "arg", "env", "list"}
  /\ w[e.by].mode = Exec \/ (w[e.by].ok /\ pc[e.by] \in {"add", "store", "done"})
  /\ w[e.by].mode # "P_WAIT"
  /\ pc[e.by] \in {"add", "store"} => e.name \notin Range(w[e.by].todo)
EntryInv == \A e \in Recorded : Placed(e)

\* Of two entries with the same name the older is of a P_OVERLAY that failed: the
\* exit handler removes the file for the newer one first.
Void == {c \in Calls : Failed(c)}
Ordered(s, V) == \A j, k \in DOMAIN s : j < k /\ s[j].name = s[k].name => s[k].by \in V
OrderInv == Ordered(rsp, Void) /\ \A c \in Calls : Ordered(w[c].seen, Void)

\* The files of a call that puts them on the list are there, were lost there, or
\* are still to be inserted.
QueueInv ==
  proc = "up" =>
    \A c \in Calls : Kept(c) /\ pc[c] \in {"add", "store", "done"} =>
      \A n \in Mine(c) :
        \/ Entry(c, n) \in Range(rsp) \cup lost
        \/ pc[c] # "done" /\ n \in Range(w[c].todo)

IInv ==
  /\ TypeOK /\ NameInv /\ OwnInv /\ KidInv /\ KidServed /\ ChildServed
  /\ SingleInv /\ EntryInv /\ OrderInv /\ QueueInv /\ ListAccurate

-----------------------------------------------------------------------------

(***************************************************************************)
(* Lists.                                                                  *)
(***************************************************************************)

\* What the places of a list and of two lists after one another hold.
LEMMA Places ==
  ASSUME NEW S, NEW s \in Seq(S), NEW t \in Seq(S)
  PROVE  /\ s \o t \in Seq(S)
         /\ \A k \in DOMAIN s : k \in DOMAIN (s \o t) /\ (s \o t)[k] = s[k]
         /\ \A k \in DOMAIN t : /\ Len(s) + k \in DOMAIN (s \o t)
                                /\ (s \o t)[Len(s) + k] = t[k]
         /\ \A k \in DOMAIN (s \o t) : k \in DOMAIN s \/ k - Len(s) \in DOMAIN t
<1>1. /\ s \o t \in Seq(S) /\ Len(s \o t) = Len(s) + Len(t)
      /\ \A k \in 1..(Len(s) + Len(t)) :
           (s \o t)[k] = IF k <= Len(s) THEN s[k] ELSE t[k - Len(s)]
  BY ConcatProperties
<1>2. /\ DOMAIN s = 1..Len(s) /\ DOMAIN t = 1..Len(t) /\ Len(s) \in Nat /\ Len(t) \in Nat
      /\ DOMAIN (s \o t) = 1..(Len(s) + Len(t))
  BY <1>1, LenProperties
<1>3. ASSUME NEW k \in 1..Len(t)
      PROVE  Len(s) + k \in DOMAIN (s \o t) /\ (s \o t)[Len(s) + k] = t[k]
  <2>1. Len(s) + k \in 1..(Len(s) + Len(t)) /\ ~(Len(s) + k <= Len(s)) /\ Len(s) + k - Len(s) = k
    BY <1>2
  <2> QED
    BY <1>1, <1>2, <2>1
<1>4. ASSUME NEW k \in 1..Len(s) PROVE k \in DOMAIN (s \o t) /\ (s \o t)[k] = s[k]
  <2>1. k \in 1..(Len(s) + Len(t)) /\ k <= Len(s)
    BY <1>2
  <2> QED
    BY <1>1, <1>2, <2>1
<1> QED
  BY <1>1, <1>2, <1>3, <1>4

\* What two lists after one another name, and when no entry is twice in them.
LEMMA Concat ==
  ASSUME NEW S, NEW s \in Seq(S), NEW t \in Seq(S)
  PROVE  /\ s \o t \in Seq(S)
         /\ Range(s \o t) = Range(s) \cup Range(t)
         /\ Single(s) /\ Single(t) /\ Range(s) \cap Range(t) = {} => Single(s \o t)
<1> DEFINE u == s \o t
<1>1. /\ u \in Seq(S)
      /\ \A k \in DOMAIN s : k \in DOMAIN u /\ u[k] = s[k]
      /\ \A k \in DOMAIN t : Len(s) + k \in DOMAIN u /\ u[Len(s) + k] = t[k]
      /\ \A k \in DOMAIN u : k \in DOMAIN s \/ k - Len(s) \in DOMAIN t
  BY Places
<1>2. Len(s) \in Nat /\ \A k \in DOMAIN u : k \in Nat
  BY <1>1, LenProperties
<1> HIDE DEF u
<1>3. ASSUME NEW k \in DOMAIN u
      PROVE  \/ k \in DOMAIN s /\ u[k] = s[k]
             \/ k - Len(s) \in DOMAIN t /\ u[k] = t[k - Len(s)]
  <2>1. CASE k \in DOMAIN s
    BY <1>1, <2>1
  <2>2. CASE k - Len(s) \in DOMAIN t
    <3>1. Len(s) + (k - Len(s)) = k
      BY <1>2
    <3> QED
      BY <1>1, <2>2, <3>1
  <2> QED
    BY <1>1, <2>1, <2>2
<1>4. Range(u) = Range(s) \cup Range(t)
  BY <1>1, <1>3 DEF Range
<1>5. ASSUME Single(s), Single(t), Range(s) \cap Range(t) = {} PROVE Single(u)
  <2> SUFFICES ASSUME NEW j \in DOMAIN u, NEW k \in DOMAIN u, u[j] = u[k] PROVE j = k
    BY DEF Single
  <2>1. \A i \in DOMAIN s : \A l \in DOMAIN t : s[i] # t[l]
    BY <1>5 DEF Range
  <2>2. CASE j \in DOMAIN s /\ u[j] = s[j] /\ k \in DOMAIN s /\ u[k] = s[k]
    BY <1>5, <2>2 DEF Single
  <2>3. CASE /\ j - Len(s) \in DOMAIN t /\ u[j] = t[j - Len(s)]
             /\ k - Len(s) \in DOMAIN t /\ u[k] = t[k - Len(s)]
    <3>1. j - Len(s) = k - Len(s)
      BY <1>5, <2>3 DEF Single
    <3> QED
      BY <1>2, <3>1
  <2> QED
    BY <1>3, <2>1, <2>2, <2>3
<1> QED
  BY <1>1, <1>4, <1>5 DEF u

\* A list of one entry, and an entry put in front of a list.
LEMMA One ==
  ASSUME NEW S, NEW x \in S
  PROVE  <<x>> \in Seq(S) /\ Range(<<x>>) = {x} /\ Single(<<x>>)
BY DEF Range, Single

\* What a list with an entry put in front of it names.
LEMMA InFront ==
  ASSUME NEW S, NEW x \in S, NEW s \in Seq(S)
  PROVE  /\ <<x>> \o s \in Seq(S)
         /\ Range(<<x>> \o s) = {x} \cup Range(s)
         /\ Single(s) /\ x \notin Range(s) => Single(<<x>> \o s)
<1>1. <<x>> \in Seq(S) /\ Range(<<x>>) = {x} /\ Single(<<x>>)
  BY One
<1> DEFINE o == <<x>>
<1>2. o \in Seq(S) /\ Range(o) = {x} /\ Single(o)
  BY <1>1
<1> HIDE DEF o
<1>3. x \notin Range(s) => Range(o) \cap Range(s) = {}
  BY <1>2
<1>4. /\ o \o s \in Seq(S)
      /\ Range(o \o s) = {x} \cup Range(s)
      /\ Single(s) /\ x \notin Range(s) => Single(o \o s)
  BY <1>2, <1>3, Concat
<1> QED
  BY <1>4 DEF o

\* Its places.
LEMMA InFrontPlaces ==
  ASSUME NEW S, NEW x \in S, NEW s \in Seq(S), NEW k \in DOMAIN (<<x>> \o s)
  PROVE  \/ k = 1 /\ (<<x>> \o s)[k] = x
         \/ k > 1 /\ k - 1 \in DOMAIN s /\ (<<x>> \o s)[k] = s[k - 1]
<1>1. <<x>> \in Seq(S) /\ DOMAIN <<x>> = {1} /\ Len(<<x>>) = 1 /\ <<x>>[1] = x
  OBVIOUS
<1>2. k = 1 \/ k - 1 \in DOMAIN s
  BY <1>1, Places
<1>3. CASE k = 1
  BY <1>1, <1>3, Places
<1>4. CASE k - 1 \in DOMAIN s
  <2>1. k - 1 \in Nat /\ k - 1 > 0 /\ k \in Nat
    BY <1>4, <1>1, Places, LenProperties
  <2>2. 1 + (k - 1) = k
    BY <2>1
  <2>3. (<<x>> \o s)[1 + (k - 1)] = s[k - 1]
    BY <1>1, <1>4, Places
  <2> QED
    BY <1>4, <2>1, <2>2, <2>3
<1> QED
  BY <1>2, <1>3, <1>4

\* The first entry of a list and the others.
LEMMA Uncons ==
  ASSUME NEW S, NEW s \in Seq(S), s # <<>>
  PROVE  /\ Head(s) \in S /\ Tail(s) \in Seq(S) /\ Head(s) = s[1] /\ 1 \in DOMAIN s
         /\ \A k \in DOMAIN Tail(s) : k > 0 /\ k + 1 \in DOMAIN s /\ Tail(s)[k] = s[k + 1]
         /\ Range(s) = {Head(s)} \cup Range(Tail(s))
         /\ Single(s) => Single(Tail(s)) /\ Head(s) \notin Range(Tail(s))
<1>1. /\ Head(s) \in S /\ Tail(s) \in Seq(S) /\ Head(s) = s[1] /\ 1 \in DOMAIN s
      /\ \A k \in DOMAIN Tail(s) : k \in Nat /\ k > 0 /\ k + 1 \in DOMAIN s /\ Tail(s)[k] = s[k + 1]
  OBVIOUS
<1>2. ASSUME NEW y \in Range(s), y # Head(s) PROVE y \in Range(Tail(s))
  <2>1. PICK k \in DOMAIN s : y = s[k]
    BY <1>2 DEF Range
  <2>2. k # 1
    BY <1>1, <1>2, <2>1
  <2>3. k - 1 \in DOMAIN Tail(s) /\ Tail(s)[k - 1] = y
    BY <2>1, <2>2
  <2> QED
    BY <2>3 DEF Range
<1>3. Range(Tail(s)) \subseteq Range(s)
  BY <1>1 DEF Range
<1>4. Head(s) \in Range(s)
  BY <1>1 DEF Range
<1>5. ASSUME Single(s) PROVE Single(Tail(s)) /\ Head(s) \notin Range(Tail(s))
  <2>1. ASSUME NEW k \in DOMAIN Tail(s) PROVE Tail(s)[k] # s[1]
    <3>1. k + 1 # 1
      BY <1>1
    <3> QED
      BY <1>1, <1>5, <3>1 DEF Single
  <2>2. ASSUME NEW j \in DOMAIN Tail(s), NEW k \in DOMAIN Tail(s), Tail(s)[j] = Tail(s)[k]
        PROVE  j = k
    <3>1. j + 1 = k + 1
      BY <1>1, <1>5, <2>2 DEF Single
    <3> QED
      BY <1>1, <3>1
  <2> QED
    BY <1>1, <2>1, <2>2 DEF Single, Range
<1> QED
  BY <1>1, <1>2, <1>3, <1>4, <1>5

\* Whether entries of the same name stay in order.
LEMMA MoreOrdered ==
  ASSUME NEW s, NEW V, NEW W, V \subseteq W, Ordered(s, V)
  PROVE  Ordered(s, W)
BY DEF Ordered

\* An entry may be put in front when older ones of its name are of V.
LEMMA InFrontOrdered ==
  ASSUME NEW S, NEW s \in Seq(S), NEW x \in S, NEW V, Ordered(s, V),
         \A e \in Range(s) : e.name = x.name => e.by \in V
  PROVE  Ordered(<<x>> \o s, V)
<1> DEFINE t == <<x>> \o s
<1>1. ASSUME NEW k \in DOMAIN t
      PROVE  /\ k \in Nat
             /\ \/ k = 1 /\ t[k] = x
                \/ k > 1 /\ k - 1 \in DOMAIN s /\ t[k] = s[k - 1]
  <2>1. t \in Seq(S)
    BY InFront
  <2>2. k \in Nat
    BY <2>1, LenProperties
  <2> QED
    BY <2>2, InFrontPlaces
<1> HIDE DEF t
<1> SUFFICES ASSUME NEW j \in DOMAIN t, NEW k \in DOMAIN t, j < k, t[j].name = t[k].name
             PROVE  t[k].by \in V
  BY DEF Ordered, t
<1>2. k > 1 /\ k - 1 \in DOMAIN s /\ t[k] = s[k - 1] /\ s[k - 1] \in Range(s)
  BY <1>1 DEF Range
<1>3. CASE t[j] = x
  BY <1>2, <1>3
<1>4. CASE j - 1 \in DOMAIN s /\ t[j] = s[j - 1]
  <2>1. j - 1 < k - 1
    BY <1>1
  <2> QED
    BY <1>2, <1>4, <2>1 DEF Ordered
<1> QED
  BY <1>1, <1>3, <1>4

\* Without its first entry the list is in order, and what has its name is of V.
LEMMA TailOrdered ==
  ASSUME NEW S, NEW s \in Seq(S), s # <<>>, NEW V, Ordered(s, V)
  PROVE  /\ Ordered(Tail(s), V)
         /\ \A k \in DOMAIN Tail(s) : Tail(s)[k].name = s[1].name => Tail(s)[k].by \in V
<1> DEFINE t == Tail(s)
<1>1. /\ 1 \in DOMAIN s
      /\ \A k \in DOMAIN t : k \in Nat /\ k > 0 /\ k + 1 \in DOMAIN s /\ t[k] = s[k + 1]
  BY Uncons, LenProperties
<1> HIDE DEF t
<1>2. ASSUME NEW j \in DOMAIN t, NEW k \in DOMAIN t, j < k, t[j].name = t[k].name
      PROVE  t[k].by \in V
  <2>1. j + 1 < k + 1
    BY <1>1, <1>2
  <2> QED
    BY <1>1, <1>2, <2>1 DEF Ordered
<1>3. ASSUME NEW k \in DOMAIN t, t[k].name = s[1].name PROVE t[k].by \in V
  <2>1. 1 < k + 1
    BY <1>1
  <2> QED
    BY <1>1, <1>3, <2>1 DEF Ordered
<1> QED
  BY <1>2, <1>3 DEF Ordered, t

\* The sequence of a set with at most one member.
LEMMA SeqOfNone == SetToSeq({}) = <<>>
<1>1. Cardinality({}) = 0
  BY FS_EmptySet
<1>2. <<>> \in [1..0 -> {}] /\ IsInjective(<<>>)
  BY DEF IsInjective
<1>3. SetToSeq({}) \in [1..0 -> {}]
  BY <1>1, <1>2 DEF SetToSeq
<1> QED
  BY <1>3

\* A set of one.
LEMMA SeqOfOne == ASSUME NEW x PROVE SetToSeq({x}) = <<x>>
<1>1. Cardinality({x}) = 1
  BY FS_Singleton
<1>2. <<x>> \in [1..1 -> {x}] /\ IsInjective(<<x>>)
  BY DEF IsInjective
<1>3. SetToSeq({x}) \in [1..1 -> {x}]
  BY <1>1, <1>2 DEF SetToSeq
<1>4. ASSUME NEW f \in [1..1 -> {x}] PROVE f = <<x>>
  <2>1. f \in Seq({x}) /\ Len(f) = 1
    OBVIOUS
  <2>2. f[1] = x
    OBVIOUS
  <2> QED
    BY <2>1, <2>2
<1> QED
  BY <1>3, <1>4

\* A set of none or one.
LEMMA SeqOfFew ==
  ASSUME NEW S, NEW A \in SUBSET S, A = {} \/ \E n : A = {n}
  PROVE  SetToSeq(A) \in Seq(S) /\ Range(SetToSeq(A)) = A /\ Single(SetToSeq(A))
<1>1. CASE A = {}
  <2>1. SetToSeq(A) = <<>> /\ DOMAIN <<>> = {} /\ <<>> \in Seq(S)
    BY <1>1, SeqOfNone
  <2> QED
    BY <1>1, <2>1 DEF Range, Single
<1>2. CASE \E n : A = {n}
  <2>1. PICK n : A = {n}
    BY <1>2
  <2>2. n \in S /\ SetToSeq(A) = <<n>>
    BY <2>1, SeqOfOne
  <2>3. <<n>> \in Seq(S) /\ Range(<<n>>) = {n} /\ Single(<<n>>)
    BY <2>2, One
  <2> QED
    BY <2>1, <2>2, <2>3
<1> QED
  BY <1>1, <1>2

-----------------------------------------------------------------------------

(***************************************************************************)
(* What the steps do to the call that makes them.                          *)
(***************************************************************************)

Goes(c, l, m) ==
  /\ proc = "up" /\ pc[c] = l /\ pc'[c] = m /\ pc' \in [Calls -> PCs]
  /\ \A d \in Calls \ {c} : pc'[d] = pc[d]
Others(c) == w' \in [Calls -> Locals] /\ \A d \in Calls \ {c} : w'[d] = w[d]
SameMode(c) == w'[c].mode = w[c].mode /\ w'[c].ok = w[c].ok
SameShort(c) == w'[c].short = w[c].short
SameFiles(c) == w'[c].arg = w[c].arg /\ w'[c].envf = w[c].envf
SameTodo(c) == w'[c].todo = w[c].todo
SameSeen(c) == w'[c].seen = w[c].seen
Makes(n, c) ==
  /\ n \in Names \ DOMAIN files
  /\ DOMAIN files' = DOMAIN files \cup {n} /\ files'[n] = c
  /\ \A m \in DOMAIN files : files'[m] = files[m]
Removes(S) ==
  /\ DOMAIN files' = DOMAIN files \ S
  /\ \A m \in DOMAIN files \ S : files'[m] = files[m]

\* Nothing but the place changes.
Skips(c) ==
  /\ \/ Goes(c, "new", "done") \/ Goes(c, "arg", "env") \/ Goes(c, "arg", "done")
     \/ Goes(c, "env", "list") \/ Goes(c, "list", "spawn")
     \/ Goes(c, "add", "done") /\ w[c].ok /\ w[c].todo = <<>>
     \/ Goes(c, "add", "spawn") /\ ~w[c].ok /\ w[c].todo = <<>>
     \/ Goes(c, "wait", "after") /\ kid[c] = "ended"
  /\ UNCHANGED <<proc, files, w, rsp, kid, missed, ended, lost>>

\* The call begins.
Begins(c) ==
  /\ Goes(c, "new", "arg") /\ Others(c)
  /\ ~w'[c].ok /\ w'[c].arg = {} /\ w'[c].envf = {}
  /\ w'[c].todo = <<>> /\ w'[c].seen = <<>>
  /\ UNCHANGED <<proc, files, rsp, kid, missed, ended, lost>>

\* A file is made for the arguments, or for the environment.
NewFile(c) ==
  /\ Others(c) /\ SameMode(c) /\ SameTodo(c) /\ SameSeen(c)
  /\ w[c].short \subseteq w'[c].short
GetsArg(c, n) ==
  /\ Goes(c, "arg", "env") /\ NewFile(c) /\ Makes(n, c)
  /\ w'[c].arg = {n} /\ w'[c].envf = w[c].envf
  /\ UNCHANGED <<proc, rsp, kid, missed, ended, lost>>
GetsEnv(c, n) ==
  /\ Goes(c, "env", "list") /\ NewFile(c) /\ Makes(n, c)
  /\ w'[c].arg = w[c].arg /\ w'[c].envf = {n}
  /\ UNCHANGED <<proc, rsp, kid, missed, ended, lost>>

\* The files are removed.
Frees(c) ==
  /\ \/ Goes(c, "env", "done")
     \/ Goes(c, "after", "done") /\ ~(w[c].ok /\ w[c].mode # "P_WAIT")
  /\ Removes(Mine(c))
  /\ UNCHANGED <<proc, w, rsp, kid, missed, ended, lost>>

\* The files are to be put on the list.
Queues(c) ==
  /\ \/ Goes(c, "list", "add") /\ w[c].mode = Exec
     \/ Goes(c, "after", "add") /\ w[c].ok /\ w[c].mode # "P_WAIT"
  /\ Others(c) /\ SameMode(c) /\ SameShort(c) /\ SameFiles(c) /\ SameSeen(c)
  /\ Range(w'[c].todo) = Mine(c) /\ Single(w'[c].todo)
  /\ UNCHANGED <<proc, files, rsp, kid, missed, ended, lost>>

\* An insertion loads the list, and stores it.
Loads(c) ==
  /\ Goes(c, "add", "store") /\ w[c].todo # <<>>
  /\ Others(c) /\ SameMode(c) /\ SameShort(c) /\ SameFiles(c) /\ SameTodo(c)
  /\ w'[c].seen = rsp
  /\ UNCHANGED <<proc, files, rsp, kid, missed, ended, lost>>
Stores(c, n, q) ==
  /\ Goes(c, "store", "add")
  /\ Others(c) /\ SameMode(c) /\ SameShort(c) /\ SameFiles(c) /\ SameSeen(c)
  /\ n \in Names /\ Range(w[c].todo) = {n} \cup Range(q)
  /\ w'[c].todo = q /\ (Single(w[c].todo) => Single(q) /\ n \notin Range(q))
  /\ rsp' = <<Entry(c, n)>> \o w[c].seen
  /\ lost' = lost \cup (Range(rsp) \ Range(w[c].seen))
  /\ UNCHANGED <<proc, files, kid, missed, ended>>

\* The child is started, or could not be.
Spawns(c) ==
  /\ Others(c) /\ SameShort(c) /\ SameFiles(c) /\ SameTodo(c) /\ SameSeen(c)
  /\ w'[c].mode = w[c].mode
  /\ kid' \in [Calls -> Kids] /\ \A d \in Calls \ {c} : kid'[d] = kid[d]
  /\ \/ Goes(c, "spawn", "after") /\ ~w'[c].ok /\ kid'[c] = "none"
     \/ /\ w'[c].ok /\ kid'[c] = "env"
        /\ \/ Goes(c, "spawn", "overlaid") /\ w[c].mode = Exec
           \/ Goes(c, "spawn", "wait") /\ w[c].mode = "P_WAIT"
           \/ Goes(c, "spawn", "after") /\ w[c].mode = "P_NOWAIT"
  /\ UNCHANGED <<proc, files, rsp, missed, ended, lost>>

\* mkstemp() makes a file that was not there.
LEMMA MakeMakes ==
  ASSUME NEW n \in Names \ DOMAIN files, NEW c, Make(n, c)
  PROVE  Makes(n, c)
BY DEF Make, Makes

\* remove() removes just these files.
LEMMA UnlinkRemoves ==
  ASSUME NEW S, Unlink(S)
  PROVE  Removes(S)
BY DEF Unlink, Removes

\* A call goes from one place to another, and no other call does.
LEMMA GotoGoes ==
  ASSUME TypeOK, NEW c \in Calls, NEW l, NEW m \in PCs, In(c, l), Goto(c, m)
  PROVE  Goes(c, l, m)
BY DEF TypeOK, In, Goto, Goes

\* The queue of a call is changed, and none of its other locals.
LEMMA TodoIs ==
  ASSUME TypeOK, NEW c \in Calls, NEW q \in Seq(Names), w' = [w EXCEPT ![c].todo = q]
  PROVE  /\ w'[c].todo = q
         /\ Others(c) /\ SameMode(c) /\ SameShort(c) /\ SameFiles(c) /\ SameSeen(c)
BY ZenonT(30) DEF TypeOK, Locals, Others, SameMode, SameShort, SameFiles, SameSeen

\* The files of a call are queued once each.
LEMMA Queued ==
  ASSUME TypeOK, NameInv, NEW c \in Calls, w' = Queue(c)
  PROVE  /\ Others(c) /\ SameMode(c) /\ SameShort(c) /\ SameFiles(c) /\ SameSeen(c)
         /\ Range(w'[c].todo) = Mine(c) /\ Single(w'[c].todo)
<1> DEFINE a == SetToSeq(w[c].arg)
           e == SetToSeq(w[c].envf)
<1>1. /\ w[c].arg \in SUBSET Names /\ w[c].envf \in SUBSET Names
      /\ w[c].arg \cap w[c].envf = {} /\ Few(w[c].arg) /\ Few(w[c].envf)
  BY DEF TypeOK, Locals, NameInv
<1>2. \A S : Few(S) => S = {} \/ \E n : S = {n}
  BY DEF Few
<1>3. /\ a \in Seq(Names) /\ Range(a) = w[c].arg /\ Single(a)
      /\ e \in Seq(Names) /\ Range(e) = w[c].envf /\ Single(e)
  BY <1>1, <1>2, SeqOfFew
<1>4. w' = [w EXCEPT ![c].todo = a \o e]
  BY DEF Queue
<1> HIDE DEF a, e
<1>5. a \o e \in Seq(Names) /\ Range(a \o e) = Range(a) \cup Range(e) /\ Single(a \o e)
  BY <1>1, <1>3, Concat
<1> DEFINE q == a \o e
<1>6. q \in Seq(Names) /\ Range(q) = Mine(c) /\ Single(q) /\ w' = [w EXCEPT ![c].todo = q]
  BY <1>3, <1>4, <1>5 DEF Mine
<1> HIDE DEF q
<1> QED
  BY <1>6, TodoIs

\* The locals of a call that begins.
LEMMA Fresh ==
  ASSUME NEW mode \in Modes, NEW big \in SUBSET Kinds, NEW x,
         x = [NoWork EXCEPT !.mode = mode, !.big = big]
  PROVE  x \in Locals /\ ~x.ok /\ x.arg = {} /\ x.envf = {} /\ x.todo = <<>> /\ x.seen = <<>>
<1>1. /\ NoWork \in Locals /\ ~NoWork.ok /\ NoWork.arg = {} /\ NoWork.envf = {}
      /\ NoWork.todo = <<>> /\ NoWork.seen = <<>>
  <2>1. <<>> \in Seq(Names) /\ <<>> \in Seq(Entries)
    OBVIOUS
  <2> QED
    BY <2>1 DEF NoWork, Locals, Modes
<1> DEFINE y == [NoWork EXCEPT !.mode = mode]
<1>2. y \in Locals /\ ~y.ok /\ y.arg = {} /\ y.envf = {} /\ y.todo = <<>> /\ y.seen = <<>>
  BY <1>1 DEF Locals
<1>3. x = [y EXCEPT !.big = big]
  BY <1>1 DEF Locals
<1> HIDE DEF y
<1> QED
  BY <1>2, <1>3 DEF Locals

\* Call(c) begins the call.
LEMMA CallDoes ==
  ASSUME TypeOK, NEW c \in Calls, Call(c)
  PROVE  Begins(c)
<1>1. In(c, "new") /\ Goto(c, "arg") /\ UNCHANGED <<proc, files, rsp, kid, missed, ended, lost>>
  BY DEF Call, In
<1>2. PICK mode \in Modes, big \in SUBSET Kinds :
        w' = [w EXCEPT ![c] = [NoWork EXCEPT !.mode = mode, !.big = big]]
  BY DEF Call
<1>3. PICK x : x = [NoWork EXCEPT !.mode = mode, !.big = big]
  OBVIOUS
<1>4. x \in Locals /\ ~x.ok /\ x.arg = {} /\ x.envf = {} /\ x.todo = <<>> /\ x.seen = <<>>
  BY <1>3, Fresh
<1>5. w' = [w EXCEPT ![c] = x]
  BY <1>2, <1>3
<1>6. w'[c] = x /\ Others(c)
  BY <1>4, <1>5 DEF TypeOK, Others
<1>7. Goes(c, "new", "arg")
  BY <1>1, GotoGoes DEF PCs
<1> QED
  BY <1>1, <1>4, <1>6, <1>7 DEF Begins

\* MakeArg(c) makes a file, or nothing changes but the place.
LEMMA MakeArgDoes ==
  ASSUME TypeOK, NEW c \in Calls, MakeArg(c)
  PROVE  Skips(c) \/ \E n \in Names : GetsArg(c, n)
<1>1. In(c, "arg") /\ UNCHANGED <<proc, rsp, kid, missed, ended, lost>>
  BY DEF MakeArg, In
<1>2. CASE "arg" \notin w[c].big
  BY <1>1, <1>2, GotoGoes DEF MakeArg, PCs, Skips
<1>3. ASSUME NEW n \in Names \ DOMAIN files, NEW short \in BOOLEAN, Make(n, c), Goto(c, "env"),
             w' = [w EXCEPT ![c].arg = {n}, ![c].short = Short(@, short, "arg")]
      PROVE  GetsArg(c, n)
  <2> DEFINE s == Short(w[c].short, short, "arg")
  <2>1. s \in SUBSET Kinds /\ w[c].short \subseteq s
    BY DEF TypeOK, Locals, Short, Kinds
  <2>2. w' = [w EXCEPT ![c].arg = {n}, ![c].short = s]
    BY <1>3 DEF TypeOK, Locals
  <2> HIDE DEF s
  <2>3. PICK x : x = [w[c] EXCEPT !.arg = {n}, !.short = s]
    OBVIOUS
  <2>4. /\ x \in Locals /\ x.arg = {n} /\ x.short = s /\ x.envf = w[c].envf
        /\ x.mode = w[c].mode /\ x.ok = w[c].ok /\ x.todo = w[c].todo /\ x.seen = w[c].seen
    <3> DEFINE y == [w[c] EXCEPT !.arg = {n}]
    <3>1. /\ y \in Locals /\ y.arg = {n} /\ y.envf = w[c].envf /\ y.mode = w[c].mode
          /\ y.ok = w[c].ok /\ y.todo = w[c].todo /\ y.seen = w[c].seen
      BY ZenonT(30) DEF TypeOK, Locals
    <3>2. x = [y EXCEPT !.short = s]
      BY <2>3 DEF TypeOK, Locals
    <3> HIDE DEF y
    <3> QED
      BY <2>1, <3>1, <3>2 DEF Locals
  <2>5. w' = [w EXCEPT ![c] = x]
    BY <2>2, <2>3
  <2>6. w'[c] = x /\ Others(c)
    BY <2>4, <2>5 DEF TypeOK, Others
  <2>7. NewFile(c) /\ w'[c].arg = {n} /\ w'[c].envf = w[c].envf
    BY <2>1, <2>4, <2>6 DEF NewFile, SameMode, SameTodo, SameSeen
  <2>8. Goes(c, "arg", "env") /\ Makes(n, c)
    BY <1>1, <1>3, GotoGoes, MakeMakes DEF PCs
  <2> QED
    BY <1>1, <2>7, <2>8 DEF GetsArg
<1>4. CASE Done(c) /\ UNCHANGED <<files, w>>
  BY <1>1, <1>4, GotoGoes DEF Done, PCs, Skips
<1> QED
  BY <1>2, <1>3, <1>4 DEF MakeArg

\* MakeEnv(c) makes a file, removes the one for the arguments, or only goes on.
LEMMA MakeEnvDoes ==
  ASSUME TypeOK, NEW c \in Calls, MakeEnv(c)
  PROVE  Skips(c) \/ Frees(c) \/ \E n \in Names : GetsEnv(c, n)
<1>1. In(c, "env") /\ UNCHANGED <<proc, rsp, kid, missed, ended, lost>>
  BY DEF MakeEnv, In
<1>2. CASE "env" \notin w[c].big
  BY <1>1, <1>2, GotoGoes DEF MakeEnv, PCs, Skips
<1>3. ASSUME NEW n \in Names \ DOMAIN files, NEW short \in BOOLEAN, Make(n, c), Goto(c, "list"),
             w' = [w EXCEPT ![c].envf = {n}, ![c].short = Short(@, short, "env")]
      PROVE  GetsEnv(c, n)
  <2> DEFINE s == Short(w[c].short, short, "env")
  <2>1. s \in SUBSET Kinds /\ w[c].short \subseteq s
    BY DEF TypeOK, Locals, Short, Kinds
  <2>2. w' = [w EXCEPT ![c].envf = {n}, ![c].short = s]
    BY <1>3 DEF TypeOK, Locals
  <2> HIDE DEF s
  <2>3. PICK x : x = [w[c] EXCEPT !.envf = {n}, !.short = s]
    OBVIOUS
  <2>4. /\ x \in Locals /\ x.envf = {n} /\ x.short = s /\ x.arg = w[c].arg
        /\ x.mode = w[c].mode /\ x.ok = w[c].ok /\ x.todo = w[c].todo /\ x.seen = w[c].seen
    <3> DEFINE y == [w[c] EXCEPT !.envf = {n}]
    <3>1. /\ y \in Locals /\ y.envf = {n} /\ y.arg = w[c].arg /\ y.mode = w[c].mode
          /\ y.ok = w[c].ok /\ y.todo = w[c].todo /\ y.seen = w[c].seen
      BY ZenonT(30) DEF TypeOK, Locals
    <3>2. x = [y EXCEPT !.short = s]
      BY <2>3 DEF TypeOK, Locals
    <3> HIDE DEF y
    <3> QED
      BY <2>1, <3>1, <3>2 DEF Locals
  <2>5. w' = [w EXCEPT ![c] = x]
    BY <2>2, <2>3
  <2>6. w'[c] = x /\ Others(c)
    BY <2>4, <2>5 DEF TypeOK, Others
  <2>7. NewFile(c) /\ w'[c].arg = w[c].arg /\ w'[c].envf = {n}
    BY <2>1, <2>4, <2>6 DEF NewFile, SameMode, SameTodo, SameSeen
  <2>8. Goes(c, "env", "list") /\ Makes(n, c)
    BY <1>1, <1>3, GotoGoes, MakeMakes DEF PCs
  <2> QED
    BY <1>1, <2>7, <2>8 DEF GetsEnv
<1>4. CASE Done(c) /\ Unlink(Mine(c)) /\ UNCHANGED w
  BY <1>1, <1>4, GotoGoes, UnlinkRemoves DEF Done, PCs, Frees
<1> QED
  BY <1>2, <1>3, <1>4 DEF MakeEnv

\* List(c) queues the files of a P_OVERLAY.
LEMMA ListDoes ==
  ASSUME TypeOK, NameInv, NEW c \in Calls, List(c)
  PROVE  Skips(c) \/ Queues(c)
<1>1. In(c, "list") /\ UNCHANGED <<proc, files, rsp, kid, missed, ended, lost>>
  BY DEF List, In
<1>2. CASE w[c].mode = Exec
  BY <1>1, <1>2, GotoGoes, Queued DEF List, PCs, Queues
<1>3. CASE w[c].mode # Exec
  BY <1>1, <1>3, GotoGoes DEF List, PCs, Skips
<1> QED
  BY <1>2, <1>3

\* AddLoad(c) loads the list, or all is inserted.
LEMMA AddLoadDoes ==
  ASSUME TypeOK, NEW c \in Calls, AddLoad(c)
  PROVE  Skips(c) \/ Loads(c)
<1>1. In(c, "add") /\ UNCHANGED <<proc, files, rsp, kid, missed, ended, lost>>
  BY DEF AddLoad, In
<1>2. CASE w[c].todo = <<>>
  BY <1>1, <1>2, GotoGoes DEF AddLoad, AfterAdd, PCs, Skips
<1>3. CASE w[c].todo # <<>>
  <2>1. Goto(c, "store") /\ w' = [w EXCEPT ![c].seen = rsp]
    BY <1>3 DEF AddLoad
  <2>2. /\ Others(c) /\ SameMode(c) /\ SameShort(c) /\ SameFiles(c) /\ SameTodo(c)
        /\ w'[c].seen = rsp
    BY <2>1, ZenonT(30) DEF TypeOK, Locals, Others, SameMode, SameShort, SameFiles, SameTodo
  <2> QED
    BY <1>1, <1>3, <2>1, <2>2, GotoGoes DEF PCs, Loads
<1> QED
  BY <1>2, <1>3

\* AddStore(c) stores the list that was loaded with a new first entry.
LEMMA AddStoreDoes ==
  ASSUME TypeOK, SingleInv, NEW c \in Calls, AddStore(c)
  PROVE  \E n, q : Stores(c, n, q)
<1>1. In(c, "store") /\ UNCHANGED <<proc, files, kid, missed, ended>> /\ Goto(c, "add")
  BY DEF AddStore, In
<1>2. w[c].todo # <<>> /\ w[c].todo \in Seq(Names)
  BY <1>1 DEF SingleInv, In, TypeOK, Locals
<1> DEFINE n == Head(w[c].todo)
           q == Tail(w[c].todo)
<1>3. /\ n \in Names /\ q \in Seq(Names) /\ Range(w[c].todo) = {n} \cup Range(q)
      /\ Single(w[c].todo) => Single(q) /\ n \notin Range(q)
  BY <1>2, Uncons
<1>4. /\ w' = [w EXCEPT ![c].todo = q]
      /\ rsp' = <<Entry(c, n)>> \o w[c].seen
      /\ lost' = lost \cup (Range(rsp) \ Range(w[c].seen))
  BY DEF AddStore, TypeOK, Locals
<1> HIDE DEF n, q
<1>5. w'[c].todo = q /\ Others(c) /\ SameMode(c) /\ SameShort(c) /\ SameFiles(c) /\ SameSeen(c)
  BY <1>3, <1>4, TodoIs
<1>6. Goes(c, "store", "add")
  BY <1>1, GotoGoes DEF PCs
<1> QED
  BY <1>1, <1>3, <1>4, <1>5, <1>6 DEF Stores

\* Spawn(c) starts the child or does not.
LEMMA SpawnDoes ==
  ASSUME TypeOK, NEW c \in Calls, Spawn(c)
  PROVE  Spawns(c)
<1>1. In(c, "spawn") /\ UNCHANGED <<proc, files, rsp, missed, ended, lost>>
  BY DEF Spawn, In
<1>2. PICK ok \in BOOLEAN :
        /\ w' = [w EXCEPT ![c].ok = ok]
        /\ kid' = [kid EXCEPT ![c] = IF ok THEN "env" ELSE "none"]
        /\ Goto(c, IF ok /\ w[c].mode = Exec THEN "overlaid"
                   ELSE IF ok /\ w[c].mode = "P_WAIT" THEN "wait" ELSE "after")
  BY DEF Spawn
<1>3. /\ Others(c) /\ SameShort(c) /\ SameFiles(c) /\ SameTodo(c) /\ SameSeen(c)
      /\ w'[c].mode = w[c].mode /\ w'[c].ok = ok
  BY <1>2, ZenonT(30) DEF TypeOK, Locals, Others, SameShort, SameFiles, SameTodo, SameSeen
<1>4. /\ kid' \in [Calls -> Kids] /\ \A d \in Calls \ {c} : kid'[d] = kid[d]
      /\ kid'[c] = IF ok THEN "env" ELSE "none"
  BY <1>2 DEF TypeOK, Kids
<1>5. w[c].mode \in {Exec, "P_WAIT", "P_NOWAIT"} /\ Exec \notin {"P_WAIT", "P_NOWAIT"}
  BY DEF TypeOK, Locals, Modes, Exec
<1>6. CASE ~ok
  BY <1>1, <1>2, <1>3, <1>4, <1>6, GotoGoes DEF PCs, Spawns
<1>7. CASE ok
  BY <1>1, <1>2, <1>3, <1>4, <1>5, <1>7, GotoGoes DEF PCs, Spawns
<1> QED
  BY <1>6, <1>7

\* After(c) queues the files or removes them.
LEMMA AfterDoes ==
  ASSUME TypeOK, NameInv, NEW c \in Calls, After(c)
  PROVE  Queues(c) \/ Frees(c)
<1>1. In(c, "after") /\ UNCHANGED <<proc, rsp, kid, missed, ended, lost>>
  BY DEF After, In
<1>2. CASE w[c].ok /\ w[c].mode # "P_WAIT"
  BY <1>1, <1>2, GotoGoes, Queued DEF After, PCs, Queues
<1>3. CASE ~(w[c].ok /\ w[c].mode # "P_WAIT")
  BY <1>1, <1>3, GotoGoes, UnlinkRemoves DEF After, Done, PCs, Frees
<1> QED
  BY <1>2, <1>3

\* One of these is what a step of spawnve() does.
Does(c) ==
  \/ Skips(c) \/ Begins(c) \/ Frees(c) \/ Queues(c) \/ Loads(c) \/ Spawns(c)
  \/ \E n \in Names : GetsArg(c, n) \/ GetsEnv(c, n)
  \/ \E n, q : Stores(c, n, q)

\* A step of a call does one of these.
LEMMA StepDoes ==
  ASSUME TypeOK, NameInv, SingleInv, NEW c \in Calls, Step(c)
  PROVE  Does(c)
<1>1. ASSUME Direct(c) PROVE Skips(c)
  BY <1>1, GotoGoes DEF Direct, Done, In, PCs, Skips
<1>2. ASSUME Waited(c) PROVE Skips(c)
  BY <1>2, GotoGoes DEF Waited, In, PCs, Skips
<1> QED
  BY <1>1, <1>2, CallDoes, MakeArgDoes, MakeEnvDoes, ListDoes, AddLoadDoes, AddStoreDoes,
     SpawnDoes, AfterDoes DEF Step, Does

(***************************************************************************)
(* What the other steps do.                                                *)
(***************************************************************************)

\* The child of c goes from one place to another.
Moves(c, k, l) ==
  /\ kid[c] = k /\ kid'[c] = l /\ kid' \in [Calls -> Kids]
  /\ \A d \in Calls \ {c} : kid'[d] = kid[d] /\ missed'[d] = missed[d]
  /\ missed' \in [Calls -> SUBSET Kinds]
  /\ UNCHANGED <<proc, files, rsp, pc, w, ended, lost>>
Looks(c, kind, S) ==
  \/ missed'[c] = missed[c]
  \/ /\ missed'[c] = missed[c] \cup {kind}
     /\ kind \in w[c].short \/ \E n \in S : n \notin DOMAIN files \/ files[n] # c

Reads(c) ==
  \/ Moves(c, "env", "arg") /\ Looks(c, "env", w[c].envf)
  \/ Moves(c, "arg", "runs") /\ Looks(c, "arg", w[c].arg)
  \/ Moves(c, "runs", "ended") /\ missed'[c] = missed[c]

\* A step of a child moves it on.
LEMMA ChildDoes ==
  ASSUME TypeOK, NEW c \in Calls, Child(c)
  PROVE  Reads(c)
<1>1. ASSUME NEW kind \in Kinds, NEW S, NEW k, NEW l \in Kids, kid[c] = k, Read(c, kind, S, l)
      PROVE  Moves(c, k, l) /\ Looks(c, kind, S)
  BY <1>1 DEF Read, TypeOK, Moves, Looks, Gets
<1> QED
  BY <1>1 DEF Child, ResponseEnv, ResponseArg, KidEnds, Kids, Kinds, TypeOK, Moves, Reads

Takes(e) ==
  /\ proc = "exiting" /\ e = Head(rsp) /\ e \in Entries /\ rsp # <<>> /\ rsp' = Tail(rsp)
  /\ Removes({e.name})
  /\ ended' = ended \cup {c \in Calls : Wanted(c, e.name)}
  /\ UNCHANGED <<proc, pc, w, kid, missed, lost>>
Leaves ==
  /\ proc # "gone" /\ proc' \in {"exiting", "gone"}
  /\ UNCHANGED <<files, rsp, pc, w, kid, missed, ended, lost>>

\* Exit changes nothing but the place of the process.
LEMMA ExitDoes ==
  ASSUME Exit
  PROVE  Leaves
BY DEF Exit, Leaves

\* Cleanup takes the first entry, or there is none.
LEMMA CleanupDoes ==
  ASSUME TypeOK, Cleanup
  PROVE  Leaves \/ \E e \in Entries : Takes(e)
<1>1. CASE rsp = <<>>
  BY <1>1 DEF Cleanup, Leaves
<1>2. CASE rsp # <<>>
  <2>1. Head(rsp) \in Entries
    BY <1>2, Uncons DEF TypeOK
  <2> QED
    BY <1>2, <2>1, UnlinkRemoves DEF Cleanup, Takes
<1> QED
  BY <1>1, <1>2

OthersMake(n) ==
  Makes(n, Other) /\ UNCHANGED <<proc, rsp, pc, w, kid, missed, ended, lost>>

\* OtherMakes makes a file of none of the calls.
LEMMA OtherDoes ==
  ASSUME OtherMakes
  PROVE  \E n \in Names : OthersMake(n)
BY MakeMakes DEF OtherMakes, OthersMake

\* What any step does; those of the calls come only before the end of the process.
DoesAny ==
  \/ \E c \in Calls : Does(c) \/ Reads(c)
  \/ Leaves \/ (\E e \in Entries : Takes(e)) \/ (\E n \in Names : OthersMake(n))
  \/ UNCHANGED vars

\* Every step does one of these.
LEMMA NextDoes ==
  ASSUME TypeOK, NameInv, SingleInv, [Next]_vars
  PROVE  DoesAny
BY StepDoes, ChildDoes, ExitDoes, CleanupDoes, OtherDoes DEF Next, DoesAny

\* The calls make no step once the exit handler runs.
LEMMA UpDoes ==
  ASSUME NEW c \in Calls, Does(c)
  PROVE  proc = "up" /\ proc' = "up"
BY DEF Does, Skips, Begins, Frees, Queues, Loads, Spawns, GetsArg, GetsEnv, Stores, Goes

-----------------------------------------------------------------------------

(***************************************************************************)
(* Every step preserves the inductive invariant.                           *)
(***************************************************************************)

\* The entry a call inserts is not in the list that it loaded.
LEMMA StoredSingle ==
  ASSUME TypeOK, SingleInv, EntryInv, NEW c \in Calls, NEW n, NEW q, Stores(c, n, q)
  PROVE  /\ rsp' \in Seq(Entries) /\ Single(rsp')
         /\ Entry(c, n) \in Entries /\ n \in Range(w[c].todo)
         /\ Range(rsp') = {Entry(c, n)} \cup Range(w[c].seen)
<1>1. Entry(c, n) \in Entries /\ n \in Range(w[c].todo) /\ pc[c] = "store"
  BY DEF Entry, Entries, Stores, Goes
<1>2. ASSUME Entry(c, n) \in Range(w[c].seen) PROVE FALSE
  <2>1. Placed(Entry(c, n))
    BY <1>2 DEF EntryInv, Recorded
  <2> QED
    BY <1>1, <2>1 DEF Placed, Entry
<1>3. w[c].seen \in Seq(Entries) /\ Single(w[c].seen) /\ rsp' = <<Entry(c, n)>> \o w[c].seen
  BY DEF TypeOK, Locals, SingleInv, Stores
<1> QED
  BY <1>1, <1>2, <1>3, InFront

\* The types are kept; the list gets an entry that the insertion had not
\* loaded.
LEMMA TypeStep ==
  ASSUME TypeOK, SingleInv, EntryInv, DoesAny
  PROVE  TypeOK'
<1>1. ASSUME NEW c \in Calls, Skips(c) PROVE TypeOK'
  BY <1>1 DEF Skips, Goes, TypeOK
<1>2. ASSUME NEW c \in Calls, Begins(c) PROVE TypeOK'
  BY <1>2 DEF Begins, Goes, Others, TypeOK
<1>3. ASSUME NEW c \in Calls, NEW n \in Names, GetsArg(c, n) PROVE TypeOK'
  BY <1>3 DEF GetsArg, NewFile, Goes, Others, SameMode, SameTodo, SameSeen, Makes,
     TypeOK
<1>4. ASSUME NEW c \in Calls, NEW n \in Names, GetsEnv(c, n) PROVE TypeOK'
  BY <1>4 DEF GetsEnv, NewFile, Goes, Others, SameMode, SameTodo, SameSeen, Makes,
     TypeOK
<1>5. ASSUME NEW c \in Calls, Frees(c) PROVE TypeOK'
  BY <1>5 DEF Frees, Goes, Removes, TypeOK
<1>6. ASSUME NEW c \in Calls, Queues(c) PROVE TypeOK'
  BY <1>6 DEF Queues, Goes, Others, SameMode, SameShort, SameFiles, SameSeen, TypeOK
<1>7. ASSUME NEW c \in Calls, Loads(c) PROVE TypeOK'
  BY <1>7 DEF Loads, Goes, Others, SameMode, SameShort, SameFiles, SameTodo, TypeOK
<1>8. ASSUME NEW c \in Calls, NEW n, NEW q, Stores(c, n, q) PROVE TypeOK'
  <2>1. rsp' \in Seq(Entries) /\ Single(rsp')
    BY <1>8, StoredSingle
  <2>2. lost' \subseteq Entries
    <3>1. Range(rsp) \subseteq Entries
      BY DEF TypeOK, Range
    <3> QED
      BY <1>8, <3>1 DEF Stores, TypeOK
  <2> QED
    BY <1>8, <2>1, <2>2 DEF Stores, Goes, Others, TypeOK, Single
<1>9. ASSUME NEW c \in Calls, Spawns(c) PROVE TypeOK'
  BY <1>9 DEF Spawns, Goes, Others, SameShort, SameFiles, SameTodo, SameSeen, TypeOK
<1>10. ASSUME NEW c \in Calls, Reads(c) PROVE TypeOK'
  BY <1>10 DEF Reads, Moves, TypeOK
<1>11. ASSUME Leaves PROVE TypeOK'
  BY <1>11 DEF Leaves, TypeOK
<1>12. ASSUME NEW e \in Entries, Takes(e) PROVE TypeOK'
  BY <1>12 DEF Takes, Removes, TypeOK
<1>13. ASSUME NEW n \in Names, OthersMake(n) PROVE TypeOK'
  BY <1>13 DEF OthersMake, Makes, TypeOK
<1>14. CASE UNCHANGED vars
  BY <1>14 DEF vars, TypeOK
<1> QED
  BY <1>1, <1>2, <1>3, <1>4, <1>5, <1>6, <1>7, <1>8, <1>9, <1>10, <1>11, <1>12, <1>13,
     <1>14 DEF DoesAny, Does

\* A call makes its second file where its first is not.
LEMMA NameStep ==
  ASSUME ResponseFilesAssumption, TypeOK, NameInv, OwnInv, DoesAny
  PROVE  NameInv'
<1>1. ASSUME NEW c \in Calls, Skips(c) PROVE NameInv'
  BY <1>1 DEF Skips, Goes, NameInv, Few
<1>2. ASSUME NEW c \in Calls, Begins(c) PROVE NameInv'
  BY <1>2 DEF Begins, Goes, Others, NameInv, Few
<1>3. ASSUME NEW c \in Calls, NEW n \in Names, GetsArg(c, n) PROVE NameInv'
  BY <1>3 DEF GetsArg, NewFile, Goes, Others, SameMode, SameTodo, SameSeen, Makes,
     NameInv, Few
<1>4. ASSUME NEW c \in Calls, NEW n \in Names, GetsEnv(c, n) PROVE NameInv'
  <2>1. w[c].arg \subseteq DOMAIN files /\ n \notin DOMAIN files
    BY <1>4 DEF OwnInv, Owns, Kept, Mine, GetsEnv, Goes, Makes
  <2>2. w'[c].arg = w[c].arg /\ w'[c].envf = {n} /\ w[c].arg \cap {n} = {} /\ pc'[c] = "list"
    BY <1>4, <2>1 DEF GetsEnv, Goes
  <2>3. \A d \in Calls \ {c} : w'[d] = w[d] /\ pc'[d] = pc[d]
    BY <1>4 DEF GetsEnv, NewFile, Others, Goes
  <2> QED
    BY <2>2, <2>3 DEF NameInv, Few
<1>5. ASSUME NEW c \in Calls, Frees(c) PROVE NameInv'
  BY <1>5 DEF Frees, Goes, Removes, NameInv, Few
<1>6. ASSUME NEW c \in Calls, Queues(c) PROVE NameInv'
  BY <1>6 DEF Queues, Goes, Others, SameMode, SameShort, SameFiles, SameSeen, NameInv,
     Few
<1>7. ASSUME NEW c \in Calls, Loads(c) PROVE NameInv'
  BY <1>7 DEF Loads, Goes, Others, SameMode, SameShort, SameFiles, SameTodo, NameInv,
     Few
<1>8. ASSUME NEW c \in Calls, NEW n, NEW q, Stores(c, n, q) PROVE NameInv'
  BY <1>8 DEF Stores, Goes, Others, SameMode, SameShort, SameFiles, SameSeen, NameInv,
     Few
<1>9. ASSUME NEW c \in Calls, Spawns(c) PROVE NameInv'
  BY <1>9 DEF Spawns, Goes, Others, SameShort, SameFiles, SameTodo, SameSeen, NameInv,
     Few
<1>10. ASSUME NEW c \in Calls, Reads(c) PROVE NameInv'
  BY <1>10 DEF Reads, Moves, NameInv, Few
<1>11. ASSUME Leaves PROVE NameInv'
  BY <1>11 DEF Leaves, NameInv, Few
<1>12. ASSUME NEW e \in Entries, Takes(e) PROVE NameInv'
  BY <1>12 DEF Takes, Removes, NameInv, Few
<1>13. ASSUME NEW n \in Names, OthersMake(n) PROVE NameInv'
  BY <1>13 DEF OthersMake, Makes, NameInv, Few
<1>14. CASE UNCHANGED vars
  BY <1>14 DEF vars, NameInv, Few
<1> QED
  BY <1>1, <1>2, <1>3, <1>4, <1>5, <1>6, <1>7, <1>8, <1>9, <1>10, <1>11, <1>12, <1>13,
     <1>14 DEF DoesAny, Does

\* Only the call itself makes and removes its files.
LEMMA OwnStep ==
  ASSUME ResponseFilesAssumption, TypeOK, NameInv, OwnInv, KidInv, DoesAny
  PROVE  OwnInv'
<1>1. ASSUME NEW c \in Calls, Skips(c) PROVE OwnInv'
  <2>1. Owns(c)'
    BY <1>1 DEF Skips, Goes, OwnInv, Owns, Kept, Mine, NameInv, KidInv, Exec
  <2>2. ASSUME NEW d \in Calls \ {c} PROVE Owns(d)'
    BY <1>1, <2>2 DEF Skips, Goes, OwnInv, Owns, Kept, Mine
  <2> QED
    BY <1>1, <2>1, <2>2 DEF OwnInv, Skips, Goes
<1>2. ASSUME NEW c \in Calls, Begins(c) PROVE OwnInv'
  BY <1>2 DEF Begins, Goes, Others, OwnInv, Owns, Kept, Mine
<1>3. ASSUME NEW c \in Calls, NEW n \in Names, GetsArg(c, n) PROVE OwnInv'
  <2>1. Owns(c)'
    BY <1>3 DEF GetsArg, NewFile, Goes, Others, SameMode, Makes, NameInv, OwnInv, Owns, Kept, Mine
  <2>2. ASSUME NEW d \in Calls \ {c} PROVE Owns(d)'
    BY <1>3, <2>2 DEF GetsArg, NewFile, Goes, Others, Makes, OwnInv, Owns, Kept, Mine
  <2> QED
    BY <1>3, <2>1, <2>2 DEF OwnInv
<1>4. ASSUME NEW c \in Calls, NEW n \in Names, GetsEnv(c, n) PROVE OwnInv'
  <2>1. Owns(c)'
    BY <1>4 DEF GetsEnv, NewFile, Goes, Others, SameMode, Makes, NameInv, OwnInv, Owns, Kept, Mine
  <2>2. ASSUME NEW d \in Calls \ {c} PROVE Owns(d)'
    BY <1>4, <2>2 DEF GetsEnv, NewFile, Goes, Others, Makes, OwnInv, Owns, Kept, Mine
  <2> QED
    BY <1>4, <2>1, <2>2 DEF OwnInv
<1>5. ASSUME NEW c \in Calls, Frees(c) PROVE OwnInv'
  <2>1. Owns(c)'
    BY <1>5 DEF Frees, Goes, Removes, KidInv, OwnInv, Owns, Kept, Mine
  <2>2. ASSUME NEW d \in Calls \ {c} PROVE Owns(d)'
    BY <1>5, <2>2 DEF Frees, Goes, Removes, OwnInv, Owns, Kept, Mine
  <2> QED
    BY <1>5, <2>1, <2>2 DEF OwnInv
<1>6. ASSUME NEW c \in Calls, Queues(c) PROVE OwnInv'
  BY <1>6 DEF Queues, Goes, Others, SameMode, SameShort, SameFiles, SameSeen, OwnInv,
     Owns, Kept, Mine
<1>7. ASSUME NEW c \in Calls, Loads(c) PROVE OwnInv'
  BY <1>7 DEF Loads, Goes, Others, SameMode, SameShort, SameFiles, SameTodo, OwnInv,
     Owns, Kept, Mine
<1>8. ASSUME NEW c \in Calls, NEW n, NEW q, Stores(c, n, q) PROVE OwnInv'
  BY <1>8 DEF Stores, Goes, Others, SameMode, SameShort, SameFiles, SameSeen, OwnInv,
     Owns, Kept, Mine
<1>9. ASSUME NEW c \in Calls, Spawns(c) PROVE OwnInv'
  BY <1>9 DEF Spawns, Goes, Others, SameShort, SameFiles, SameTodo, SameSeen, OwnInv,
     Owns, Kept, Mine
<1>10. ASSUME NEW c \in Calls, Reads(c) PROVE OwnInv'
  BY <1>10 DEF Reads, Moves, OwnInv, Owns, Kept, Mine
<1>11. ASSUME Leaves PROVE OwnInv'
  BY <1>11 DEF Leaves, OwnInv, Owns, Kept, Mine
<1>12. ASSUME NEW e \in Entries, Takes(e) PROVE OwnInv'
  BY <1>12 DEF Takes, Removes, OwnInv, Owns, Kept, Mine
<1>13. ASSUME NEW n \in Names, OthersMake(n) PROVE OwnInv'
  BY <1>13 DEF OthersMake, Makes, OwnInv, Owns, Kept, Mine
<1>14. CASE UNCHANGED vars
  BY <1>14 DEF vars, OwnInv, Owns, Kept, Mine
<1> QED
  BY <1>1, <1>2, <1>3, <1>4, <1>5, <1>6, <1>7, <1>8, <1>9, <1>10, <1>11, <1>12, <1>13,
     <1>14 DEF DoesAny, Does

\* A call reaches no place too early for its child.
LEMMA KidStep ==
  ASSUME TypeOK, KidInv, DoesAny
  PROVE  KidInv'
<1>1. ASSUME NEW c \in Calls, Skips(c) PROVE KidInv'
  BY <1>1 DEF Skips, Goes, KidInv, Exec, TypeOK
<1>2. ASSUME NEW c \in Calls, Begins(c) PROVE KidInv'
  BY <1>2 DEF Begins, Goes, Others, KidInv, Exec, TypeOK
<1>3. ASSUME NEW c \in Calls, NEW n \in Names, GetsArg(c, n) PROVE KidInv'
  BY <1>3 DEF GetsArg, NewFile, Goes, Others, SameMode, SameTodo, SameSeen, Makes,
     KidInv, Exec, TypeOK
<1>4. ASSUME NEW c \in Calls, NEW n \in Names, GetsEnv(c, n) PROVE KidInv'
  BY <1>4 DEF GetsEnv, NewFile, Goes, Others, SameMode, SameTodo, SameSeen, Makes,
     KidInv, Exec, TypeOK
<1>5. ASSUME NEW c \in Calls, Frees(c) PROVE KidInv'
  BY <1>5 DEF Frees, Goes, Removes, KidInv, Exec, TypeOK
<1>6. ASSUME NEW c \in Calls, Queues(c) PROVE KidInv'
  <2>1. w[c].mode \in {Exec, "P_WAIT", "P_NOWAIT"} /\ Exec \notin {"P_WAIT", "P_NOWAIT"}
    BY DEF TypeOK, Locals, Modes, Exec
  <2>2. pc'[c] = "add" /\ w'[c].mode = w[c].mode /\ w'[c].ok = w[c].ok
    BY <1>6 DEF Queues, Goes, SameMode
  <2>3. w[c].mode = IF w[c].ok THEN "P_NOWAIT" ELSE Exec
    BY <1>6, <2>1 DEF Queues, Goes, KidInv
  <2>4. \A d \in Calls \ {c} : w'[d] = w[d] /\ pc'[d] = pc[d]
    BY <1>6 DEF Queues, Others, Goes
  <2> QED
    BY <1>6, <2>2, <2>3, <2>4 DEF KidInv, Queues
<1>7. ASSUME NEW c \in Calls, Loads(c) PROVE KidInv'
  BY <1>7 DEF Loads, Goes, Others, SameMode, SameShort, SameFiles, SameTodo, KidInv,
     Exec, TypeOK
<1>8. ASSUME NEW c \in Calls, NEW n, NEW q, Stores(c, n, q) PROVE KidInv'
  BY <1>8 DEF Stores, Goes, Others, SameMode, SameShort, SameFiles, SameSeen, KidInv,
     Exec, TypeOK
<1>9. ASSUME NEW c \in Calls, Spawns(c) PROVE KidInv'
  BY <1>9 DEF Spawns, Goes, Others, SameShort, SameFiles, SameTodo, SameSeen, KidInv,
     Exec, TypeOK
<1>10. ASSUME NEW c \in Calls, Reads(c) PROVE KidInv'
  BY <1>10 DEF Reads, Moves, KidInv, Exec, TypeOK
<1>11. ASSUME Leaves PROVE KidInv'
  BY <1>11 DEF Leaves, KidInv, Exec, TypeOK
<1>12. ASSUME NEW e \in Entries, Takes(e) PROVE KidInv'
  BY <1>12 DEF Takes, Removes, KidInv, Exec, TypeOK
<1>13. ASSUME NEW n \in Names, OthersMake(n) PROVE KidInv'
  BY <1>13 DEF OthersMake, Makes, KidInv, Exec, TypeOK
<1>14. CASE UNCHANGED vars
  BY <1>14 DEF vars, KidInv, Exec, TypeOK
<1> QED
  BY <1>1, <1>2, <1>3, <1>4, <1>5, <1>6, <1>7, <1>8, <1>9, <1>10, <1>11, <1>12, <1>13,
     <1>14 DEF DoesAny, Does

\* Until the end of the process a child has its files because its call has them.
LEMMA ServedWhileUp ==
  ASSUME TypeOK', OwnInv', KidInv', proc' = "up"
  PROVE  KidServed'
<1> SUFFICES ASSUME NEW c \in Calls, NEW n \in Names, Wanted(c, n)'
             PROVE  n \in DOMAIN files' /\ files'[n] = c
  BY DEF KidServed
<1>1. kid'[c] \in {"env", "arg"} /\ n \in Mine(c)'
  BY DEF Wanted, Mine
<1>2. w'[c].ok /\ Kept(c)'
  BY <1>1 DEF KidInv, Kept
<1>3. Owns(c)'
  BY DEF OwnInv
<1> QED
  BY <1>1, <1>2, <1>3 DEF Owns

\* At the end only the exit handler removes files, and notes from whom.
LEMMA ServedStep ==
  ASSUME TypeOK, KidServed, TypeOK', OwnInv', KidInv', DoesAny
  PROVE  KidServed'
<1>1. CASE proc' = "up"
  BY <1>1, ServedWhileUp
<1> SUFFICES ASSUME proc' # "up" PROVE KidServed'
  BY <1>1
<1>2. ASSUME NEW c \in Calls, Reads(c) PROVE KidServed'
  BY <1>2 DEF Reads, Moves, KidServed, Wanted, Mine
<1>3. ASSUME Leaves PROVE KidServed'
  BY <1>3 DEF Leaves, KidServed, Wanted, Mine
<1>4. ASSUME NEW e \in Entries, Takes(e) PROVE KidServed'
  BY <1>4 DEF Takes, Removes, KidServed, Wanted, Mine
<1>5. ASSUME NEW n \in Names, OthersMake(n) PROVE KidServed'
  BY <1>5 DEF OthersMake, Makes, KidServed, Wanted, Mine
<1>6. CASE UNCHANGED vars
  BY <1>6 DEF vars, KidServed, Wanted, Mine
<1> QED
  BY <1>2, <1>3, <1>4, <1>5, <1>6, UpDoes DEF DoesAny

\* A child looks for what it wants where it still is.
LEMMA ChildStep ==
  ASSUME TypeOK, KidInv, KidServed, ChildServed, DoesAny
  PROVE  ChildServed'
<1>1. ASSUME NEW c \in Calls, Skips(c) PROVE ChildServed'
  BY <1>1 DEF Skips, Goes, ChildServed
<1>2. ASSUME NEW c \in Calls, Begins(c) PROVE ChildServed'
  <2>1. missed'[c] = {}
    BY <1>2 DEF Begins, Goes, KidInv
  <2>2. \A d \in Calls \ {c} : w'[d] = w[d]
    BY <1>2 DEF Begins, Others
  <2> QED
    BY <1>2, <2>1, <2>2 DEF ChildServed, Begins
<1>3. ASSUME NEW c \in Calls, NEW n \in Names, GetsArg(c, n) PROVE ChildServed'
  BY <1>3 DEF GetsArg, NewFile, Goes, Others, SameMode, SameTodo, SameSeen, Makes,
     ChildServed
<1>4. ASSUME NEW c \in Calls, NEW n \in Names, GetsEnv(c, n) PROVE ChildServed'
  BY <1>4 DEF GetsEnv, NewFile, Goes, Others, SameMode, SameTodo, SameSeen, Makes,
     ChildServed
<1>5. ASSUME NEW c \in Calls, Frees(c) PROVE ChildServed'
  BY <1>5 DEF Frees, Goes, Removes, ChildServed
<1>6. ASSUME NEW c \in Calls, Queues(c) PROVE ChildServed'
  BY <1>6 DEF Queues, Goes, Others, SameMode, SameShort, SameFiles, SameSeen,
     ChildServed
<1>7. ASSUME NEW c \in Calls, Loads(c) PROVE ChildServed'
  BY <1>7 DEF Loads, Goes, Others, SameMode, SameShort, SameFiles, SameTodo,
     ChildServed
<1>8. ASSUME NEW c \in Calls, NEW n, NEW q, Stores(c, n, q) PROVE ChildServed'
  BY <1>8 DEF Stores, Goes, Others, SameMode, SameShort, SameFiles, SameSeen,
     ChildServed
<1>9. ASSUME NEW c \in Calls, Spawns(c) PROVE ChildServed'
  BY <1>9 DEF Spawns, Goes, Others, SameShort, SameFiles, SameTodo, SameSeen,
     ChildServed
<1>10. ASSUME NEW c \in Calls, Reads(c) PROVE ChildServed'
  <2>1. c \notin ended => missed'[c] \subseteq w[c].short
    BY <1>10 DEF Reads, Moves, Looks, KidServed, ChildServed, Wanted, Mine, TypeOK, Locals
  <2> QED
    BY <1>10, <2>1 DEF Reads, Moves, ChildServed
<1>11. ASSUME Leaves PROVE ChildServed'
  BY <1>11 DEF Leaves, ChildServed
<1>12. ASSUME NEW e \in Entries, Takes(e) PROVE ChildServed'
  BY <1>12 DEF Takes, Removes, ChildServed
<1>13. ASSUME NEW n \in Names, OthersMake(n) PROVE ChildServed'
  BY <1>13 DEF OthersMake, Makes, ChildServed
<1>14. CASE UNCHANGED vars
  BY <1>14 DEF vars, ChildServed
<1> QED
  BY <1>1, <1>2, <1>3, <1>4, <1>5, <1>6, <1>7, <1>8, <1>9, <1>10, <1>11, <1>12, <1>13,
     <1>14 DEF DoesAny, Does

\* No list gets an entry twice.
LEMMA SingleStep ==
  ASSUME TypeOK, SingleInv, EntryInv, DoesAny
  PROVE  SingleInv'
<1>1. ASSUME NEW c \in Calls, Skips(c) PROVE SingleInv'
  BY <1>1 DEF Skips, Goes, SingleInv, Mine
<1>2. ASSUME NEW c \in Calls, Begins(c) PROVE SingleInv'
  <2>1. Single(w'[c].todo) /\ Single(w'[c].seen) /\ pc'[c] = "arg"
    BY <1>2 DEF Begins, Goes, Single
  <2>2. \A d \in Calls \ {c} : w'[d] = w[d] /\ pc'[d] = pc[d]
    BY <1>2 DEF Begins, Others, Goes
  <2> QED
    BY <1>2, <2>1, <2>2 DEF SingleInv, Mine, Begins
<1>3. ASSUME NEW c \in Calls, NEW n \in Names, GetsArg(c, n) PROVE SingleInv'
  BY <1>3 DEF GetsArg, NewFile, Goes, Others, SameMode, SameTodo, SameSeen, Makes,
     SingleInv, Mine
<1>4. ASSUME NEW c \in Calls, NEW n \in Names, GetsEnv(c, n) PROVE SingleInv'
  BY <1>4 DEF GetsEnv, NewFile, Goes, Others, SameMode, SameTodo, SameSeen, Makes,
     SingleInv, Mine
<1>5. ASSUME NEW c \in Calls, Frees(c) PROVE SingleInv'
  BY <1>5 DEF Frees, Goes, Removes, SingleInv, Mine
<1>6. ASSUME NEW c \in Calls, Queues(c) PROVE SingleInv'
  BY <1>6 DEF Queues, Goes, Others, SameMode, SameShort, SameFiles, SameSeen,
     SingleInv, Mine
<1>7. ASSUME NEW c \in Calls, Loads(c) PROVE SingleInv'
  BY <1>7 DEF Loads, Goes, Others, SameMode, SameShort, SameFiles, SameTodo,
     SingleInv, Mine
<1>8. ASSUME NEW c \in Calls, NEW n, NEW q, Stores(c, n, q) PROVE SingleInv'
  <2>1. Single(rsp')
    BY <1>8, StoredSingle
  <2>2. /\ Single(w'[c].todo) /\ w'[c].seen = w[c].seen /\ pc'[c] = "add"
        /\ Range(w'[c].todo) \subseteq Mine(c)'
    BY <1>8 DEF Stores, Goes, SingleInv, SameFiles, SameSeen, Mine
  <2>3. \A d \in Calls \ {c} : w'[d] = w[d] /\ pc'[d] = pc[d]
    BY <1>8 DEF Stores, Others, Goes
  <2> QED
    BY <2>1, <2>2, <2>3 DEF SingleInv, Mine
<1>9. ASSUME NEW c \in Calls, Spawns(c) PROVE SingleInv'
  BY <1>9 DEF Spawns, Goes, Others, SameShort, SameFiles, SameTodo, SameSeen,
     SingleInv, Mine
<1>10. ASSUME NEW c \in Calls, Reads(c) PROVE SingleInv'
  BY <1>10 DEF Reads, Moves, SingleInv, Mine
<1>11. ASSUME Leaves PROVE SingleInv'
  BY <1>11 DEF Leaves, SingleInv, Mine
<1>12. ASSUME NEW e \in Entries, Takes(e) PROVE SingleInv'
  <2>1. Single(rsp')
    BY <1>12, Uncons DEF Takes, TypeOK, SingleInv
  <2> QED
    BY <1>12, <2>1 DEF Takes, SingleInv, Mine
<1>13. ASSUME NEW n \in Names, OthersMake(n) PROVE SingleInv'
  BY <1>13 DEF OthersMake, Makes, SingleInv, Mine
<1>14. CASE UNCHANGED vars
  BY <1>14 DEF vars, SingleInv, Mine
<1> QED
  BY <1>1, <1>2, <1>3, <1>4, <1>5, <1>6, <1>7, <1>8, <1>9, <1>10, <1>11, <1>12, <1>13,
     <1>14 DEF DoesAny, Does

\* The lists name what they named, and what was inserted.
LEMMA RecordedOnly ==
  ASSUME TypeOK, SingleInv, EntryInv, DoesAny
  PROVE  \/ Recorded' \subseteq Recorded
         \/ \E c \in Calls : \E n, q :
              Stores(c, n, q) /\ Recorded' \subseteq Recorded \cup {Entry(c, n)}
<1>1. ASSUME UNCHANGED <<rsp, w>> PROVE Recorded' \subseteq Recorded
  BY <1>1 DEF Recorded
<1>2. ASSUME NEW c \in Calls, Others(c), SameSeen(c), rsp' = rsp
      PROVE  Recorded' \subseteq Recorded
  BY <1>2 DEF Recorded, Others, SameSeen
<1>3. ASSUME NEW c \in Calls, Begins(c) PROVE Recorded' \subseteq Recorded
  <2>1. Range(w'[c].seen) = {}
    BY <1>3 DEF Begins, Range
  <2> QED
    BY <1>3, <2>1 DEF Recorded, Begins, Others
<1>4. ASSUME NEW c \in Calls, Loads(c) PROVE Recorded' \subseteq Recorded
  BY <1>4 DEF Recorded, Loads, Others
<1>5. ASSUME NEW c \in Calls, NEW n, NEW q, Stores(c, n, q)
      PROVE  Recorded' \subseteq Recorded \cup {Entry(c, n)}
  <2>1. Range(rsp') = {Entry(c, n)} \cup Range(w[c].seen)
    BY <1>5, StoredSingle
  <2> QED
    BY <1>5, <2>1 DEF Recorded, Stores, Others, SameSeen
<1>6. ASSUME NEW e \in Entries, Takes(e) PROVE Recorded' \subseteq Recorded
  <2>1. Range(rsp') \subseteq Range(rsp)
    BY <1>6, Uncons DEF Takes, TypeOK
  <2> QED
    BY <1>6, <2>1 DEF Recorded, Takes
<1>7. ASSUME NEW c \in Calls, Does(c), ~ \E n, q : Stores(c, n, q)
      PROVE  Recorded' \subseteq Recorded
  BY <1>1, <1>2, <1>3, <1>4, <1>7
     DEF Does, Skips, Frees, Queues, Spawns, GetsArg, GetsEnv, NewFile
<1> QED
  BY <1>1, <1>5, <1>6, <1>7 DEF DoesAny, Reads, Moves, Leaves, OthersMake, vars

\* An entry stays placed, in every step.
LEMMA PlacedStays ==
  ASSUME TypeOK, KidInv, DoesAny, NEW e \in Entries, Placed(e)
  PROVE  Placed(e)'
<1> DEFINE c == e.by
<1>1. c \in Calls
  BY DEF Entries
<1>2. CASE w'[c] = w[c] /\ pc'[c] = pc[c]
  BY <1>2 DEF Placed, Mine
<1>3. ASSUME Does(c) PROVE Placed(e)'
  <2>1. CASE Skips(c)
    BY <2>1 DEF Skips, Goes, Placed, Mine, Exec
  <2>2. CASE Frees(c)
    BY <2>2 DEF Frees, Goes, Placed, Mine, Exec
  <2>3. CASE Queues(c)
    BY <1>1, <2>3 DEF Queues, Goes, Placed, KidInv
  <2>4. CASE Loads(c)
    BY <2>4 DEF Loads, Goes, SameMode, SameFiles, SameTodo, Placed, Mine
  <2>5. CASE Spawns(c)
    BY <2>5 DEF Spawns, Goes, SameFiles, SameTodo, Placed, Mine
  <2>6. ASSUME NEW n, NEW q, Stores(c, n, q) PROVE Placed(e)'
    BY <2>6 DEF Stores, Goes, SameMode, SameFiles, Placed, Mine
  <2> QED
    BY <1>3, <2>1, <2>2, <2>3, <2>4, <2>5, <2>6
       DEF Does, Begins, GetsArg, GetsEnv, Goes, Placed
<1>4. ASSUME NEW d \in Calls \ {c}, Does(d) PROVE w'[c] = w[c] /\ pc'[c] = pc[c]
  BY <1>1, <1>4 DEF Does, Skips, Begins, Frees, Queues, Loads, Spawns, GetsArg, GetsEnv, NewFile,
     Stores, Goes, Others
<1> QED
  BY <1>1, <1>2, <1>3, <1>4 DEF DoesAny, Reads, Moves, Leaves, Takes, OthersMake, vars

\* What a list names is an entry.
LEMMA RecordedEntries ==
  ASSUME TypeOK
  PROVE  Recorded \subseteq Entries
BY DEF TypeOK, Locals, Recorded, Range

\* A call inserts only its own, and each name once.
LEMMA EntryStep ==
  ASSUME TypeOK, KidInv, SingleInv, EntryInv, DoesAny
  PROVE  EntryInv'
<1>1. \A e \in Recorded : Placed(e)'
  BY PlacedStays, RecordedEntries DEF EntryInv
<1>2. ASSUME NEW c \in Calls, NEW n, NEW q, Stores(c, n, q)
      PROVE  Placed(Entry(c, n))'
  <2>1. n \in Mine(c) /\ n \notin Range(q)
    BY <1>2, StoredSingle DEF SingleInv, Stores, Goes
  <2>2. w[c].mode = IF w[c].ok THEN "P_NOWAIT" ELSE Exec
    BY <1>2 DEF Stores, Goes, KidInv
  <2>3. /\ pc'[c] = "add" /\ w'[c].todo = q /\ w'[c].mode = w[c].mode /\ w'[c].ok = w[c].ok
        /\ Mine(c)' = Mine(c)
    BY <1>2 DEF Stores, Goes, SameMode, SameFiles, Mine
  <2> QED
    BY <2>1, <2>2, <2>3 DEF Placed, Entry, Exec
<1> QED
  BY <1>1, <1>2, RecordedOnly DEF EntryInv

\* A P_OVERLAY that failed does nothing any more that the list would notice.
LEMMA VoidStays ==
  ASSUME TypeOK, DoesAny
  PROVE  Void \subseteq Void'
<1> SUFFICES ASSUME NEW c \in Calls, Failed(c) PROVE Failed(c)'
  BY DEF Void
<1>1. CASE w'[c] = w[c] /\ pc'[c] = pc[c]
  BY <1>1 DEF Failed
<1>2. CASE Does(c)
  BY <1>2 DEF Does, Skips, Begins, Frees, Queues, Loads, Spawns, GetsArg, GetsEnv, Stores, Goes,
     Failed, Exec
<1>3. ASSUME NEW d \in Calls \ {c}, Does(d) PROVE w'[c] = w[c] /\ pc'[c] = pc[c]
  BY <1>3 DEF Does, Skips, Begins, Frees, Queues, Loads, Spawns, GetsArg, GetsEnv, NewFile,
     Stores, Goes, Others
<1> QED
  BY <1>1, <1>2, <1>3 DEF DoesAny, Reads, Moves, Leaves, Takes, OthersMake, vars

\* The name that a call inserts is in the list that it loaded only for a P_OVERLAY that
\* failed: the file is the call's own now.
LEMMA StoredOrdered ==
  ASSUME ResponseFilesAssumption, TypeOK, OwnInv, SingleInv, EntryInv,
         NEW c \in Calls, NEW n, NEW q, Stores(c, n, q),
         NEW e \in Range(w[c].seen), e.name = n
  PROVE  e.by \in Void
<1> DEFINE d == e.by
<1>1. e \in Recorded /\ d \in Calls
  BY RecordedEntries DEF Recorded, Entries
<1>2. Placed(e) /\ n \in Range(w[c].todo) /\ pc[c] = "store" /\ proc = "up"
  BY <1>1, StoredSingle DEF EntryInv, Stores, Goes
<1>3. d # c
  BY <1>2 DEF Placed
<1>4. n \in Mine(c) /\ Kept(c)
  BY <1>2 DEF SingleInv, Kept
<1>5. n \in DOMAIN files /\ files[n] = c
  BY <1>2, <1>4 DEF OwnInv, Owns
<1>6. ~Kept(d)
  BY <1>1, <1>2, <1>3, <1>5 DEF OwnInv, Owns, Placed
<1> QED
  BY <1>1, <1>2, <1>6 DEF Placed, Kept, Void, Failed

\* The list stays in order: what is put in front of an entry of the same name finds it failed.
LEMMA OrderStep ==
  ASSUME ResponseFilesAssumption, TypeOK, OwnInv, SingleInv, EntryInv, OrderInv, DoesAny
  PROVE  OrderInv'
<1>1. Ordered(rsp, Void') /\ \A c \in Calls : Ordered(w[c].seen, Void')
  BY VoidStays, MoreOrdered DEF OrderInv
<1>2. Ordered(<<>>, Void')
  BY DEF Ordered
<1>3. ASSUME NEW c \in Calls PROVE Ordered(w'[c].seen, Void')
  <2>1. w'[c].seen \in {w[c].seen, rsp, <<>>}
    <3>1. ASSUME NEW d \in Calls, Does(d) PROVE w'[c].seen \in {w[c].seen, rsp, <<>>}
      BY <3>1 DEF Does, Skips, Begins, Frees, Queues, Loads, Spawns, GetsArg, GetsEnv, NewFile,
         Stores, Others, SameSeen
    <3> QED
      BY <3>1 DEF DoesAny, Reads, Moves, Leaves, Takes, OthersMake, vars
  <2> QED
    BY <1>1, <1>2, <2>1
<1>4. ASSUME NEW c \in Calls, NEW n, NEW q, Stores(c, n, q) PROVE Ordered(rsp', Void')
  <2>1. /\ w[c].seen \in Seq(Entries) /\ Entry(c, n) \in Entries
        /\ rsp' = <<Entry(c, n)>> \o w[c].seen /\ Entry(c, n).name = n
    BY <1>4, StoredSingle DEF TypeOK, Locals, Stores, Entry
  <2>2. ASSUME NEW e \in Range(w[c].seen), e.name = n PROVE e.by \in Void'
    BY <1>4, <2>2, StoredOrdered, VoidStays
  <2> QED
    BY <1>1, <2>1, <2>2, InFrontOrdered
<1>5. ASSUME NEW e \in Entries, Takes(e) PROVE Ordered(rsp', Void')
  BY <1>1, <1>5, TailOrdered DEF Takes, TypeOK
<1>6. rsp' = rsp \/ (\E c \in Calls : \E n, q : Stores(c, n, q)) \/ \E e \in Entries : Takes(e)
  BY DEF DoesAny, Does, Skips, Begins, Frees, Queues, Loads, Spawns, GetsArg, GetsEnv, Reads, Moves,
     Leaves, OthersMake, vars
<1> QED
  BY <1>1, <1>3, <1>4, <1>5, <1>6 DEF OrderInv

\* What a call is to insert is inserted or lost.
LEMMA QueueStep ==
  ASSUME TypeOK, KidInv, SingleInv, EntryInv, QueueInv, DoesAny
  PROVE  QueueInv'
<1>1. ASSUME NEW c \in Calls, Skips(c) PROVE QueueInv'
  <2>1. \A d \in Calls \ {c} : pc'[d] = pc[d]
    BY <1>1 DEF Skips, Goes
  <2>2. Kept(c)' /\ pc'[c] \in {"add", "store", "done"} => pc[c] = "add" /\ Range(w[c].todo) = {}
    BY <1>1 DEF Skips, Goes, Kept, KidInv, Range
  <2> QED
    BY <1>1, <2>1, <2>2 DEF Skips, QueueInv, Kept, Mine
<1>2. ASSUME NEW c \in Calls, Begins(c) PROVE QueueInv'
  BY <1>2 DEF Begins, Goes, Others, QueueInv, Kept, Mine
<1>3. ASSUME NEW c \in Calls, NEW n \in Names, GetsArg(c, n) PROVE QueueInv'
  BY <1>3 DEF GetsArg, NewFile, Goes, Others, SameMode, SameTodo, SameSeen, Makes,
     QueueInv, Kept, Mine
<1>4. ASSUME NEW c \in Calls, NEW n \in Names, GetsEnv(c, n) PROVE QueueInv'
  BY <1>4 DEF GetsEnv, NewFile, Goes, Others, SameMode, SameTodo, SameSeen, Makes,
     QueueInv, Kept, Mine
<1>5. ASSUME NEW c \in Calls, Frees(c) PROVE QueueInv'
  <2>1. \A d \in Calls \ {c} : pc'[d] = pc[d]
    BY <1>5 DEF Frees, Goes
  <2>2. ~Kept(c)'
    BY <1>5 DEF Frees, Goes, Kept, KidInv
  <2> QED
    BY <1>5, <2>1, <2>2 DEF Frees, QueueInv, Kept, Mine
<1>6. ASSUME NEW c \in Calls, Queues(c) PROVE QueueInv'
  BY <1>6 DEF Queues, Goes, Others, SameMode, SameShort, SameFiles, SameSeen,
     QueueInv, Kept, Mine
<1>7. ASSUME NEW c \in Calls, Loads(c) PROVE QueueInv'
  BY <1>7 DEF Loads, Goes, Others, SameMode, SameShort, SameFiles, SameTodo, QueueInv,
     Kept, Mine
<1>8. ASSUME NEW c \in Calls, NEW n, NEW q, Stores(c, n, q) PROVE QueueInv'
  <2>1. Range(rsp') = {Entry(c, n)} \cup Range(w[c].seen)
    BY <1>8, StoredSingle
  <2>2. Range(rsp) \cup lost \cup {Entry(c, n)} \subseteq Range(rsp') \cup lost'
    BY <1>8, <2>1 DEF Stores
  <2>3. \A d \in Calls \ {c} : w'[d] = w[d] /\ pc'[d] = pc[d]
    BY <1>8 DEF Stores, Others, Goes
  <2>4. /\ pc[c] = "store" /\ pc'[c] = "add" /\ w'[c].todo = q /\ Mine(c)' = Mine(c)
        /\ Range(w[c].todo) = {n} \cup Range(q)
    BY <1>8 DEF Stores, Goes, SameFiles, Mine
  <2> QED
    BY <1>8, <2>2, <2>3, <2>4 DEF QueueInv, Kept, Mine, Stores
<1>9. ASSUME NEW c \in Calls, Spawns(c) PROVE QueueInv'
  BY <1>9 DEF Spawns, Goes, Others, SameShort, SameFiles, SameTodo, SameSeen,
     QueueInv, Kept, Mine
<1>10. ASSUME NEW c \in Calls, Reads(c) PROVE QueueInv'
  BY <1>10 DEF Reads, Moves, QueueInv, Kept, Mine
<1>11. ASSUME Leaves PROVE QueueInv'
  BY <1>11 DEF Leaves, QueueInv, Kept, Mine
<1>12. ASSUME NEW e \in Entries, Takes(e) PROVE QueueInv'
  BY <1>12 DEF Takes, Removes, QueueInv, Kept, Mine
<1>13. ASSUME NEW n \in Names, OthersMake(n) PROVE QueueInv'
  BY <1>13 DEF OthersMake, Makes, QueueInv, Kept, Mine
<1>14. CASE UNCHANGED vars
  BY <1>14 DEF vars, QueueInv, Kept, Mine
<1> QED
  BY <1>1, <1>2, <1>3, <1>4, <1>5, <1>6, <1>7, <1>8, <1>9, <1>10, <1>11, <1>12, <1>13,
     <1>14 DEF DoesAny, Does

\* Until the end an entry is of a call that has its files, or of one that failed.
LEMMA AccurateWhileUp ==
  ASSUME TypeOK', OwnInv', KidInv', EntryInv', proc' = "up"
  PROVE  ListAccurate'
<1>1. ASSUME NEW e \in Entries, e \in Range(rsp)', ~Failed(e.by)'
      PROVE  e.name \in DOMAIN files' /\ files'[e.name] = e.by
  <2>1. e.by \in Calls
    BY DEF Entries
  <2>2. Placed(e)'
    BY <1>1 DEF EntryInv, Recorded
  <2>3. Kept(e.by)'
    BY <1>1, <2>2 DEF Placed, Kept, Failed
  <2>4. Owns(e.by)'
    BY <2>1 DEF OwnInv
  <2> QED
    BY <2>2, <2>3, <2>4 DEF Placed, Owns
<1>2. \A k \in DOMAIN rsp' : rsp'[k] \in Entries /\ rsp'[k] \in Range(rsp)'
  BY DEF TypeOK, Range
<1> QED
  BY <1>1, <1>2 DEF ListAccurate, Failed

\* The exit handler removes a file for one entry, and an older entry with that
\* name failed.
LEMMA ListStep ==
  ASSUME TypeOK, OrderInv, ListAccurate, TypeOK', OwnInv', KidInv', EntryInv',
         DoesAny
  PROVE  ListAccurate'
<1>1. CASE proc' = "up"
  BY <1>1, AccurateWhileUp
<1> SUFFICES ASSUME proc' # "up" PROVE ListAccurate'
  BY <1>1
<1>2. ASSUME NEW c \in Calls, Reads(c) PROVE ListAccurate'
  BY <1>2 DEF Reads, Moves, ListAccurate, Failed
<1>3. ASSUME Leaves PROVE ListAccurate'
  BY <1>3 DEF Leaves, ListAccurate, Failed
<1>4. ASSUME NEW e \in Entries, Takes(e) PROVE ListAccurate'
  <2>1. /\ rsp \in Seq(Entries) /\ rsp # <<>> /\ rsp' = Tail(rsp) /\ e = rsp[1] /\ 1 \in DOMAIN rsp
        /\ \A k \in DOMAIN rsp' : k > 0 /\ k + 1 \in DOMAIN rsp /\ rsp'[k] = rsp[k + 1]
    BY <1>4, Uncons DEF Takes, TypeOK
  <2>2. \A k \in DOMAIN rsp' : rsp'[k].name = e.name => rsp'[k].by \in Void
    BY <2>1, TailOrdered DEF OrderInv
  <2>3. \A d \in Calls : Failed(d)' <=> Failed(d)
    BY <1>4 DEF Takes, Failed
  <2>4. \A k \in DOMAIN rsp' : rsp'[k] \in Entries /\ rsp'[k].by \in Calls
    <3>1. \A k \in DOMAIN rsp' : rsp'[k] \in Entries
      BY DEF TypeOK
    <3> QED
      BY <3>1 DEF Entries
  <2>5. ASSUME NEW k \in DOMAIN rsp', ~Failed(rsp[k + 1].by)
        PROVE  rsp'[k].name \in DOMAIN files' /\ files'[rsp'[k].name] = rsp'[k].by
    <3>1. rsp'[k] = rsp[k + 1] /\ k + 1 \in DOMAIN rsp /\ rsp'[k].name # e.name
      BY <2>1, <2>2, <2>5 DEF Void
    <3> QED
      BY <1>4, <2>5, <3>1 DEF Takes, Removes, ListAccurate
  <2> QED
    BY <2>1, <2>3, <2>4, <2>5 DEF ListAccurate
<1>5. ASSUME NEW n \in Names, OthersMake(n) PROVE ListAccurate'
  BY <1>5 DEF OthersMake, Makes, ListAccurate, Failed
<1>6. CASE UNCHANGED vars
  BY <1>6 DEF vars, ListAccurate, Failed
<1> QED
  BY <1>2, <1>3, <1>4, <1>5, <1>6, UpDoes DEF DoesAny

-----------------------------------------------------------------------------

(***************************************************************************)
(* The theorems.                                                           *)
(***************************************************************************)

\* The inductive invariant holds at the beginning.
LEMMA InitIInv ==
  ASSUME ResponseFilesAssumption, Init
  PROVE  IInv
<1>1. NoWork \in Locals
  <2>1. <<>> \in Seq(Names) /\ <<>> \in Seq(Entries)
    OBVIOUS
  <2> QED
    BY <2>1 DEF NoWork, Locals, Modes
<1>2. /\ proc = "up" /\ DOMAIN files = {} /\ rsp = <<>> /\ ended = {} /\ lost = {}
      /\ \A c \in Calls : pc[c] = "new" /\ w[c] = NoWork /\ kid[c] = "none" /\ missed[c] = {}
  BY DEF Init
<1>3. /\ NoWork.arg = {} /\ NoWork.envf = {} /\ ~NoWork.ok
      /\ NoWork.todo = <<>> /\ NoWork.seen = <<>>
  BY DEF NoWork
<1>4. /\ DOMAIN <<>> = {} /\ Range(<<>>) = {} /\ Single(<<>>) /\ \A V : Ordered(<<>>, V)
      /\ <<>> \in Seq(Entries)
  BY DEF Range, Single, Ordered
<1>5. TypeOK
  BY <1>1, <1>4 DEF Init, TypeOK, PCs, Kids
<1>6. Recorded = {}
  BY <1>2, <1>3, <1>4 DEF Recorded
<1>7. NameInv /\ OwnInv /\ KidInv /\ EntryInv
  BY <1>2, <1>3, <1>6 DEF NameInv, Few, OwnInv, Owns, Kept, KidInv, EntryInv
<1>8. KidServed /\ ChildServed /\ QueueInv /\ ListAccurate
  BY <1>2, <1>4 DEF KidServed, Wanted, ChildServed, QueueInv, ListAccurate
<1>9. SingleInv /\ OrderInv
  BY <1>2, <1>3, <1>4 DEF SingleInv, OrderInv
<1> QED
  BY <1>5, <1>7, <1>8, <1>9 DEF IInv

\* Every step preserves the inductive invariant.
LEMMA StepIInv ==
  ASSUME ResponseFilesAssumption, IInv, [Next]_vars
  PROVE  IInv'
<1>1. DoesAny
  BY NextDoes DEF IInv
<1>2. TypeOK' /\ NameInv' /\ OwnInv' /\ KidInv'
  BY <1>1, TypeStep, NameStep, OwnStep, KidStep DEF IInv
<1>3. SingleInv' /\ EntryInv' /\ OrderInv' /\ QueueInv'
  BY <1>1, SingleStep, EntryStep, OrderStep, QueueStep DEF IInv
<1>4. KidServed' /\ ChildServed' /\ ListAccurate'
  BY <1>1, <1>2, <1>3, ServedStep, ChildStep, ListStep DEF IInv
<1> QED
  BY <1>2, <1>3, <1>4 DEF IInv

\* The inductive invariant holds in every state.
THEOREM Invariance == Spec => []IInv
<1>1. Init => IInv
  BY InitIInv, ResponseFilesAssumption
<1>2. IInv /\ [Next]_vars => IInv'
  BY StepIInv, ResponseFilesAssumption
<1> QED
  BY <1>1, <1>2, PTL DEF Spec

\* The variables have the values the functions of spawn.c give them, and no file is on
\* the list twice for one call.
THEOREM TypeCorrect == Spec => []TypeOK
<1>1. IInv => TypeOK
  BY DEF IInv
<1> QED
  BY <1>1, Invariance, PTL

\* _response() of a child finds the files spawnve() wrote for it, unless they were
\* written short or the parent's exit handler was faster.
THEOREM Served == Spec => []ChildServed
<1>1. IInv => ChildServed
  BY DEF IInv
<1> QED
  BY <1>1, Invariance, PTL

\* Every file of the process is in use or on the list, and the list of
\* spawn_add_rsp_temp() is right about the files it names.
THEOREM Listed == Spec => []FilesListed
<1>1. IInv => FilesListed
  <2> SUFFICES ASSUME IInv, proc = "up", NEW n \in DOMAIN files, files[n] # Other
               PROVE  \/ pc[files[n]] \notin {"new", "done"}
                      \/ Entry(files[n], n) \in Range(rsp) \cup lost
    BY DEF FilesListed, FilesTracked, IInv
  <2>1. files[n] \in Calls
    BY DEF IInv, TypeOK
  <2>2. Kept(files[n]) /\ n \in Mine(files[n])
    BY <2>1 DEF IInv, OwnInv, Owns
  <2> QED
    BY <2>1, <2>2 DEF IInv, QueueInv, Kept
<1> QED
  BY <1>1, Invariance, PTL

-----------------------------------------------------------------------------

(***************************************************************************)
(* The environment.  Sizes and Splits are recursive functions: that such a *)
(* function exists, and what holds at each place of it, follows from the   *)
(* least place at which it would not.                                      *)
(***************************************************************************)
LEMMA Least ==
  ASSUME NEW n \in Nat, NEW S \in SUBSET (0..n), S # {}
  PROVE  \E x \in S : \A y \in S : x <= y
<1>0. S \subseteq Nat
  OBVIOUS
<1>1. PICK x \in S : \A y \in S : ~ (<<y, x>> \in OpToRel(<, Nat))
  BY <1>0, NatLessThanWellFounded, WFMin
<1>2. ASSUME NEW y \in S PROVE x <= y
  <2>1. x \in Nat /\ y \in Nat /\ <<y, x>> \in Nat \X Nat
    OBVIOUS
  <2>2. ~(y < x)
    BY <1>1, <2>1 DEF OpToRel
  <2> QED
    BY <2>1, <2>2
<1> QED
  BY <1>2

\* f goes from v in n steps of G.
Iterates(f, V, v, G, n) ==
  /\ f \in [0..n -> V] /\ f[0] = v
  /\ \A i \in 1..n : f[i] = G[i][f[i - 1]]

LEMMA IteratesOn ==
  ASSUME NEW n \in Nat, NEW V, NEW v \in V, NEW G \in [1..n -> [V -> V]]
  PROVE  \E f : Iterates(f, V, v, G, n)
<1> DEFINE P(k) == \E f : Iterates(f, V, v, G, k)
           B == {k \in 0..n : ~P(k)}
<1>1. SUFFICES ASSUME B # {} PROVE FALSE
  OBVIOUS
<1>2. PICK k \in B : \A j \in B : k <= j
  BY <1>1, Least
<1>3. CASE k = 0
  <2> DEFINE f == [i \in 0..0 |-> v]
  <2>1. f \in [0..0 -> V] /\ f[0] = v /\ 1..0 = {}
    OBVIOUS
  <2>2. Iterates(f, V, v, G, 0)
    BY <2>1 DEF Iterates
  <2> QED
    BY <1>3, <2>2
<1>4. CASE k # 0
  <2>1. k \in 1..n /\ k - 1 \in 0..n /\ ~(k <= k - 1)
    BY <1>4
  <2>2. PICK f : Iterates(f, V, v, G, k - 1)
    BY <1>2, <2>1
  <2>3. f \in [0..(k - 1) -> V] /\ f[0] = v /\ \A i \in 1..(k - 1) : f[i] = G[i][f[i - 1]]
    BY <2>2 DEF Iterates
  <2> DEFINE g == [i \in 0..k |-> IF i <= k - 1 THEN f[i] ELSE G[k][f[k - 1]]]
  <2>4. G[k][f[k - 1]] \in V
    <3>1. k - 1 \in 0..(k - 1) /\ G[k] \in [V -> V]
      BY <2>1
    <3>2. f[k - 1] \in V
      BY <2>3, <3>1
    <3> QED
      BY <3>1, <3>2
  <2>5. g \in [0..k -> V] /\ g[0] = v
    <3>1. \A i \in 0..k : i <= k - 1 => i \in 0..(k - 1)
      OBVIOUS
    <3>2. 0 \in 0..k /\ 0 <= k - 1
      BY <2>1
    <3> QED
      BY <2>3, <2>4, <3>1, <3>2
  <2>6. ASSUME NEW i \in 1..k PROVE g[i] = G[i][g[i - 1]]
    <3>1. CASE i <= k - 1
      <4>1. i \in 1..(k - 1) /\ i \in 0..k /\ i - 1 \in 0..k /\ i - 1 <= k - 1
        BY <2>1, <3>1
      <4>2. g[i] = f[i] /\ g[i - 1] = f[i - 1]
        BY <3>1, <4>1
      <4> QED
        BY <2>3, <4>1, <4>2
    <3>2. CASE ~(i <= k - 1)
      <4>1. i = k /\ k - 1 \in 0..k /\ k \in 0..k /\ ~(k <= k - 1) /\ k - 1 <= k - 1
        BY <2>1, <3>2
      <4>2. g[k - 1] = f[k - 1] /\ g[k] = G[k][f[k - 1]]
        BY <4>1
      <4> QED
        BY <4>1, <4>2
    <3> QED
      BY <3>1, <3>2
  <2>7. Iterates(g, V, v, G, k)
    <3> HIDE DEF g
    <3> QED
      BY <2>5, <2>6 DEF Iterates
  <2> QED
    BY <2>7
<1> QED
  BY <1>3, <1>4

LEMMA SizesAre ==
  ASSUME NEW e \in Seq(Nat)
  PROVE  /\ Sizes(e) \in [0..Len(e) -> Nat] /\ Sizes(e)[0] = 1
         /\ \A i \in 1..Len(e) : Sizes(e)[i] = Sizes(e)[i - 1] + e[i] + 1
<1> DEFINE n == Len(e)
           G == [i \in 1..n |-> [m \in Nat |-> m + e[i] + 1]]
           s == Sizes(e)
<1>1. n \in Nat /\ \A i \in 1..n : e[i] \in Nat
  OBVIOUS
<1>2. G \in [1..n -> [Nat -> Nat]] /\ \A i \in 1..n, m \in Nat : G[i][m] = m + e[i] + 1
  BY <1>1
<1> HIDE DEF n, G
<1>3. PICK f : Iterates(f, Nat, 1, G, n)
  BY <1>1, <1>2, IteratesOn
<1>4. f \in [0..n -> Nat] /\ f[0] = 1 /\ \A i \in 1..n : f[i] = G[i][f[i - 1]]
  BY <1>3 DEF Iterates
<1>5. ASSUME NEW i \in 1..n PROVE f[i] = f[i - 1] + e[i] + 1
  <2>1. i - 1 \in 0..n
    BY <1>1
  <2>2. f[i - 1] \in Nat /\ f[i] = G[i][f[i - 1]]
    BY <1>4, <2>1
  <2> QED
    BY <1>2, <2>2
<1>6. f = [i \in 0..n |-> IF i = 0 THEN 1 ELSE f[i - 1] + e[i] + 1]
  <2>1. \A i \in 0..n : i # 0 => i \in 1..n
    BY <1>1
  <2>2. f = [i \in 0..n |-> f[i]]
    BY <1>4
  <2> QED
    BY <1>4, <1>5, <2>1, <2>2
<1>7. s = [i \in 0..n |-> IF i = 0 THEN 1 ELSE s[i - 1] + e[i] + 1]
  BY <1>6 DEF Sizes, n
<1> HIDE DEF s
<1>8. s[0] = 1 /\ \A i \in 1..n : s[i] = s[i - 1] + e[i] + 1
  BY <1>1, <1>7
<1>9. \A i \in 0..n : s[i] \in Nat
  <2> DEFINE B == {i \in 0..n : s[i] \notin Nat}
  <2>1. SUFFICES ASSUME B # {} PROVE FALSE
    OBVIOUS
  <2>2. PICK k \in B : \A j \in B : k <= j
    BY <1>1, <2>1, Least
  <2>3. k \in 1..n /\ k - 1 \in 0..n /\ ~(k <= k - 1)
    BY <1>1, <1>8
  <2>4. s[k - 1] \in Nat
    BY <2>2, <2>3
  <2> QED
    BY <1>1, <1>8, <2>3, <2>4
<1>10. s = [i \in 0..n |-> s[i]]
  BY <1>7
<1> QED
  BY <1>8, <1>9, <1>10 DEF s, n

\* One more string, and the byte at its end.
LEMMA TotalAppend ==
  ASSUME NEW p \in Seq(Nat), NEW x \in Nat
  PROVE  Total(p) \in Nat /\ Total(Append(p, x)) = Total(p) + x + 1
<1> DEFINE q == Append(p, x)
           n == Len(p)
           s == Sizes(p)
           z == Sizes(q)
<1>1. /\ q \in Seq(Nat) /\ n \in Nat /\ Len(q) = n + 1 /\ q[n + 1] = x
      /\ \A i \in 1..n : q[i] = p[i]
  OBVIOUS
<1>2. s \in [0..n -> Nat] /\ s[0] = 1 /\ \A i \in 1..n : s[i] = s[i - 1] + p[i] + 1
  BY SizesAre
<1> HIDE DEF q
<1>3. z \in [0..(n + 1) -> Nat] /\ z[0] = 1 /\ \A i \in 1..(n + 1) : z[i] = z[i - 1] + q[i] + 1
  BY <1>1, SizesAre
<1> HIDE DEF n, s, z
<1>4. \A i \in 0..n : z[i] = s[i]
  <2> DEFINE B == {i \in 0..n : z[i] # s[i]}
  <2>1. SUFFICES ASSUME B # {} PROVE FALSE
    OBVIOUS
  <2>2. PICK k \in B : \A j \in B : k <= j
    BY <1>1, <2>1, Least
  <2>3. k \in 1..n /\ k \in 1..(n + 1) /\ k - 1 \in 0..n /\ ~(k <= k - 1)
    BY <1>1, <1>2, <1>3
  <2>4. z[k - 1] = s[k - 1]
    BY <2>2, <2>3
  <2>5. z[k] = s[k]
    BY <1>1, <1>2, <1>3, <2>3, <2>4
  <2> QED
    BY <2>5
<1>5. z[n + 1] = z[n] + x + 1
  <2>1. n + 1 \in 1..(n + 1) /\ n + 1 - 1 = n
    BY <1>1
  <2> QED
    BY <1>1, <1>3, <2>1
<1>6. z[n] = s[n] /\ s[n] \in Nat
  BY <1>1, <1>2, <1>4
<1>7. Total(p) = s[n] /\ Total(q) = z[n + 1]
  BY <1>1 DEF Total, s, z, n
<1> QED
  BY <1>5, <1>6, <1>7 DEF q

\* What spawnve() has passed and written, and its n.
Parts == [n : Nat, pass : Seq(Nat), file : Seq(Nat)]

LEMMA GiveIs ==
  ASSUME NEW s \in Parts, NEW len \in Nat
  PROVE  Give(s, len) \in Parts
BY ResponseFilesAssumption DEF Parts, Give

LEMMA SplitsAre ==
  ASSUME NEW e \in Seq(Nat)
  PROVE  /\ Splits(e)[0] = [n |-> 1, pass |-> <<>>, file |-> <<>>]
         /\ \A i \in 1..Len(e) : Splits(e)[i] = Give(Splits(e)[i - 1], e[i])
<1> DEFINE n == Len(e)
           G == [i \in 1..n |-> [m \in Parts |-> Give(m, e[i])]]
           v == [n |-> 1, pass |-> <<>>, file |-> <<>>]
           s == Splits(e)
<1>1. n \in Nat /\ v \in Parts /\ \A i \in 1..n : e[i] \in Nat
  BY DEF Parts
<1>2. G \in [1..n -> [Parts -> Parts]] /\ \A i \in 1..n, m \in Parts : G[i][m] = Give(m, e[i])
  BY <1>1, GiveIs
<1> HIDE DEF n, G, v
<1>3. PICK f : Iterates(f, Parts, v, G, n)
  BY <1>1, <1>2, IteratesOn
<1>4. f \in [0..n -> Parts] /\ f[0] = v /\ \A i \in 1..n : f[i] = G[i][f[i - 1]]
  BY <1>3 DEF Iterates
<1>5. ASSUME NEW i \in 1..n PROVE f[i] = Give(f[i - 1], e[i])
  <2>1. i - 1 \in 0..n
    BY <1>1
  <2>2. f[i - 1] \in Parts /\ f[i] = G[i][f[i - 1]]
    BY <1>4, <2>1
  <2> QED
    BY <1>2, <2>2
<1>6. f = [i \in 0..n |-> IF i = 0 THEN v ELSE Give(f[i - 1], e[i])]
  <2>1. \A i \in 0..n : i # 0 => i \in 1..n
    BY <1>1
  <2>2. f = [i \in 0..n |-> f[i]]
    BY <1>4
  <2> QED
    BY <1>4, <1>5, <2>1, <2>2
<1>7. s = [i \in 0..n |-> IF i = 0 THEN v ELSE Give(s[i - 1], e[i])]
  BY <1>6 DEF Splits, n, v
<1> HIDE DEF s
<1>8. s[0] = v /\ \A i \in 1..n : s[i] = Give(s[i - 1], e[i])
  BY <1>1, <1>7
<1> QED
  BY <1>8 DEF s, n, v

\* After each string: none is lost, what is passed is small enough, n is not below
\* it, and as long as nothing went to the file n is the size of all.
Given(e, i, s) ==
  /\ s \in Parts
  /\ Len(s.pass) + Len(s.file) = i
  /\ Total(s.pass) <= ENV_SIZE_MAX /\ Total(s.pass) <= s.n
  /\ s.file = <<>> => s.n = Sizes(e)[i] /\ s.n <= ENV_SIZE_MAX

LEMMA OneMore ==
  ASSUME NEW q \in Seq(Nat), NEW x \in Nat
  PROVE  Append(q, x) # <<>> /\ Len(Append(q, x)) = Len(q) + 1 /\ Len(q) \in Nat
<1>1. Len(q) \in Nat /\ Len(Append(q, x)) = Len(q) + 1 /\ Len(<<>>) = 0
  OBVIOUS
<1> QED
  BY <1>1

LEMMA SumUp ==
  ASSUME NEW a \in Nat, NEW b \in Nat, NEW i \in Nat, a + b = i - 1
  PROVE  a + (b + 1) = i /\ (a + 1) + b = i
OBVIOUS

LEMMA RoomLeft ==
  ASSUME NEW a \in Nat, NEW b \in Nat \ {0}, NEW c, a + b = c
  PROVE  a + 2 <= c + 1
OBVIOUS

LEMMA GiveStep ==
  ASSUME NEW e \in Seq(Nat), NEW i \in 1..Len(e), NEW s, Given(e, i - 1, s)
  PROVE  Given(e, i, Give(s, e[i]))
<1> DEFINE len == e[i]
           z == Give(s, len)
<1>1. len \in Nat /\ i \in Nat /\ i - 1 \in Nat
  OBVIOUS
<1>2. /\ s \in Parts /\ Len(s.pass) + Len(s.file) = i - 1
      /\ Total(s.pass) <= ENV_SIZE_MAX /\ Total(s.pass) <= s.n
      /\ s.file = <<>> => s.n = Sizes(e)[i - 1] /\ s.n <= ENV_SIZE_MAX
  BY DEF Given
<1>3. s.n \in Nat /\ s.pass \in Seq(Nat) /\ s.file \in Seq(Nat) /\ ENV_SIZE_MAX \in Nat
  BY <1>2, ResponseFilesAssumption DEF Parts
<1>4. Sizes(e)[i] = Sizes(e)[i - 1] + len + 1
  BY SizesAre
<1> HIDE DEF len
<1>5. /\ Total(s.pass) \in Nat /\ Total(Append(s.pass, len)) = Total(s.pass) + len + 1
  BY <1>1, <1>3, TotalAppend
<1>6. /\ Append(s.file, len) # <<>>
      /\ Len(Append(s.file, len)) = Len(s.file) + 1 /\ Len(Append(s.pass, len)) = Len(s.pass) + 1
      /\ Len(s.pass) \in Nat /\ Len(s.file) \in Nat
  BY <1>1, <1>3, OneMore
<1>7. z \in Parts
  BY <1>1, <1>2, GiveIs
<1>12. ASSUME NEW a \in Nat, NEW b \in Nat, a = Len(s.pass), b = Len(s.file)
       PROVE  a + (b + 1) = i /\ (a + 1) + b = i
  <2>1. a + b = i - 1
    BY <1>2, <1>12
  <2> QED
    BY <1>1, <2>1, SumUp
<1>8. CASE len > ENV_STR_MAX
  <2>1. z.n = s.n /\ z.pass = s.pass /\ z.file = Append(s.file, len)
    BY <1>8 DEF Give
  <2> HIDE DEF z
  <2>2. Len(z.pass) + Len(z.file) = i
    <3>1. Len(z.pass) = Len(s.pass) /\ Len(z.file) = Len(s.file) + 1
      BY <1>6, <2>1
    <3>2. Len(s.pass) + (Len(s.file) + 1) = i
      BY <1>6, <1>12
    <3> QED
      BY <3>1, <3>2
  <2>3. Total(z.pass) <= ENV_SIZE_MAX /\ Total(z.pass) <= z.n
    BY <1>1, <1>2, <1>3, <1>5, <2>1
  <2>4. z.file # <<>>
    BY <1>6, <2>1
  <2>5. Given(e, i, z)
    BY <1>7, <2>2, <2>3, <2>4 DEF Given
  <2> QED
    BY <2>5 DEF z, len
<1>9. CASE ~(len > ENV_STR_MAX) /\ s.n + len + 1 > ENV_SIZE_MAX
  <2>1. z.n = s.n + len + 1 /\ z.pass = s.pass /\ z.file = Append(s.file, len)
    BY <1>9 DEF Give
  <2> HIDE DEF z
  <2>2. Len(z.pass) + Len(z.file) = i
    <3>1. Len(z.pass) = Len(s.pass) /\ Len(z.file) = Len(s.file) + 1
      BY <1>6, <2>1
    <3>2. Len(s.pass) + (Len(s.file) + 1) = i
      BY <1>6, <1>12
    <3> QED
      BY <3>1, <3>2
  <2>3. Total(z.pass) <= ENV_SIZE_MAX /\ Total(z.pass) <= z.n
    BY <1>1, <1>2, <1>3, <1>5, <2>1
  <2>4. z.file # <<>>
    BY <1>6, <2>1
  <2>5. Given(e, i, z)
    BY <1>7, <2>2, <2>3, <2>4 DEF Given
  <2> QED
    BY <2>5 DEF z, len
<1>10. CASE ~(len > ENV_STR_MAX) /\ ~(s.n + len + 1 > ENV_SIZE_MAX)
  <2>1. z.n = s.n + len + 1 /\ z.pass = Append(s.pass, len) /\ z.file = s.file
    BY <1>10 DEF Give
  <2> HIDE DEF z
  <2>2. Len(z.pass) + Len(z.file) = i
    <3>1. Len(z.pass) = Len(s.pass) + 1 /\ Len(z.file) = Len(s.file)
      BY <1>6, <2>1
    <3>2. (Len(s.pass) + 1) + Len(s.file) = i
      BY <1>6, <1>12
    <3> QED
      BY <3>1, <3>2
  <2>3. Total(z.pass) <= ENV_SIZE_MAX /\ Total(z.pass) <= z.n /\ z.n <= ENV_SIZE_MAX
    BY <1>1, <1>2, <1>3, <1>5, <1>10, <2>1, SMTT(30)
  <2>4. z.file = <<>> => z.n = Sizes(e)[i]
    BY <1>2, <1>4, <2>1
  <2>5. Given(e, i, z)
    BY <1>7, <2>2, <2>3, <2>4 DEF Given
  <2> QED
    BY <2>5 DEF z, len
<1> QED
  BY <1>8, <1>9, <1>10 DEF len

LEMMA SplitGiven ==
  ASSUME NEW e \in Seq(Nat)
  PROVE  Given(e, Len(e), Split(e))
<1> DEFINE n == Len(e)
           s == Splits(e)
           B == {i \in 0..n : ~Given(e, i, s[i])}
<1>1. n \in Nat
  OBVIOUS
<1>2. SUFFICES ASSUME B # {} PROVE FALSE
  BY <1>1 DEF Split
<1>3. PICK k \in B : \A j \in B : k <= j
  BY <1>1, <1>2, Least
<1>4. s[0] = [n |-> 1, pass |-> <<>>, file |-> <<>>] /\ \A i \in 1..n : s[i] = Give(s[i - 1], e[i])
  BY SplitsAre
<1> HIDE DEF s
<1>5. Given(e, 0, s[0])
  <2>1. <<>> \in Seq(Nat) /\ Len(<<>>) = 0
    OBVIOUS
  <2>2. Total(<<>>) = 1 /\ Sizes(e)[0] = 1
    BY <2>1, SizesAre DEF Total
  <2>3. /\ s[0].n = 1 /\ s[0].pass = <<>> /\ s[0].file = <<>> /\ s[0] \in Parts
    BY <1>4 DEF Parts
  <2> QED
    BY <2>1, <2>2, <2>3, ResponseFilesAssumption DEF Given
<1>6. k \in 1..n /\ k - 1 \in 0..n /\ ~(k <= k - 1)
  BY <1>1, <1>5
<1>7. Given(e, k - 1, s[k - 1])
  BY <1>3, <1>6
<1>8. Given(e, k, s[k])
  <2>1. Given(e, k, Give(s[k - 1], e[k]))
    BY <1>6, <1>7, GiveStep DEF n
  <2> QED
    BY <1>4, <1>6, <2>1
<1> QED
  BY <1>8

\* No environment loses or doubles a string, and one that is too large for OS/2 has a
\* string in the file, so that the name of the file and the NULL fit the array.
LEMMA SplitWhole == SplitsWhole
<1> SUFFICES ASSUME NEW e \in Envs, Total(e) > ENV_SIZE_MAX
             PROVE  LET s == Split(e)
                    IN  /\ Len(s.pass) + Len(s.file) = Len(e)
                        /\ Total(s.pass) <= ENV_SIZE_MAX
                        /\ Len(s.pass) + 2 <= Len(e) + 1
  BY DEF SplitsWhole
<1> DEFINE s == Split(e)
<1>1. e \in Seq(Nat) /\ ENV_SIZE_MAX \in Nat
  BY ResponseFilesAssumption
<1>2. Given(e, Len(e), s)
  BY <1>1, SplitGiven
<1> HIDE DEF s
<1>3. /\ s.file \in Seq(Nat) /\ s.pass \in Seq(Nat) /\ s.n \in Nat
      /\ Len(s.pass) + Len(s.file) = Len(e) /\ Total(s.pass) <= ENV_SIZE_MAX
      /\ s.file = <<>> => s.n = Total(e) /\ s.n <= ENV_SIZE_MAX
  BY <1>2 DEF Given, Parts, Total
<1>4. s.file # <<>>
  BY <1>1, <1>3
<1>5. Len(s.file) \in Nat \ {0} /\ Len(s.pass) \in Nat /\ Len(e) \in Nat
  BY <1>1, <1>3, <1>4, EmptySeq
<1>6. Len(s.pass) + 2 <= Len(e) + 1
  BY <1>3, <1>5, RoomLeft
<1>7. Len(s.pass) + Len(s.file) = Len(e) /\ Total(s.pass) <= ENV_SIZE_MAX
  BY <1>3
<1> QED
  BY <1>6, <1>7 DEF s

\* spawnve() with an environment that is too large passes or writes each string once,
\* passes no more than OS/2 takes, and stays within the array it made, for strings of
\* any number and any length.
THEOREM Whole == Spec => []EnvWhole
<1>1. EnvWhole
  BY SplitWhole DEF EnvWhole
<1> QED
  BY <1>1, PTL

=============================================================================
