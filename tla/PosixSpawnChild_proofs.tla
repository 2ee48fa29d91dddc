----------------------- MODULE PosixSpawnChild_proofs -----------------------
(***************************************************************************)
(* The child that posix_spawn() starts, for any threads, tables and lists. *)
(*                                                                         *)
(* The walk in the parent notes pairs of descriptors and a directory where *)
(* the walk of POSIX changes the child.  ChildInv relates the two after    *)
(* each action of a list on which they agree (Straight): Follows says what *)
(* the child would be by now, PairsDone and FlagsDone what the parent has  *)
(* done for it, and Result what a child was that was started.  Calls of    *)
(* other threads leave all of it alone but flags and what is passed under  *)
(* its own number: for that the call must be alone in the library.         *)
(*                                                                         *)
(* The end is about the repository's tests (PosixSpawnTests).  TestInv     *)
(* follows the calls that they make: an array of three fills the pairs and *)
(* its child, and a list that is Feasible never fails with EINVAL; what    *)
(* the child finds then is what POSIX's child has.                         *)
(***************************************************************************)
EXTENDS PosixSpawn_proofs, PosixSpawnTests

\* Paths as the actions write them.
PathSet == [abs : BOOLEAN, parts : Seq(Names)]

\* The directory that is noted.
Dir(cwd) == IF cwd = {} THEN Home ELSE Resolve(Home, CHOOSE c \in cwd : TRUE)

\* Pair k gives the child descriptor d.
LastAt(pairs, d, k) ==
  /\ k \in DOMAIN pairs /\ pairs[k][2] = d
  /\ \A j \in DOMAIN pairs : j > k => pairs[j][2] # d

\* Descriptors that stay open as long as t does not restore.
Held(t) ==
  DOMAIN table.fds \cup
    {w[t].saved[k].fd : k \in {j \in DOMAIN w[t].saved : w[t].saved[j].tag = "open"}}

Busy(t) == pc[t] \in {"alloc", "apply", "mark", "spawn", "collect", "start"}
Following(t) == w[t].std = {} /\ Straight(table, list[t])

\* The actions done so far.
Done(t) == Before(list[t], w[t].i)

\* What the child would be after n actions of l: its descriptors are the program's,
\* without those that were closed, and those that the pairs will give to it.
InChild(tab, l) == Walk(Copied(tab.fds, tab.cloexec, Home), l)
Follows(tab, l, n, pairs, cwd, f) ==
  LET s == InChild(tab, l)[n]
      R == Redirected(Before(l, n + 1))
      C == Closed(Before(l, n + 1))
  IN  /\ s = [fds |-> s.fds, cloexec |-> s.cloexec, dir |-> s.dir, ok |-> s.ok]
      /\ s.ok /\ s.dir = Dir(cwd) /\ s.dir = DirAfter(tab, l)[n]
      /\ s.fds = [d \in DOMAIN s.fds |-> s.fds[d]]
      /\ DOMAIN s.fds = R \cup (DOMAIN tab.fds \ C)
      /\ s.cloexec = tab.cloexec \ R
      /\ \A d \in DOMAIN s.fds \ R : s.fds[d] = tab.fds[d]
      /\ \A d \in R : \E k \in DOMAIN pairs :
           LastAt(pairs, d, k) /\ s.fds[d] = f[pairs[k][1]]

\* What the pairs are, before and after the descriptors that are passed on.
PairsDone(t) ==
  /\ Sources(w[t].pairs) \subseteq Held(t)
  /\ pc[t] # "start" => Targets(w[t].pairs) \subseteq Redirected(Done(t))
  /\ pc[t] = "start" /\ w[t].given =>
       /\ \A k \in DOMAIN w[t].pairs :
            LET p == w[t].pairs[k] IN
            p[2] \notin Redirected(Done(t)) =>
              p[1] = p[2] /\ p[1] \in DOMAIN table.fds \ table.cloexec
       /\ w[t].alone =>
            Targets(w[t].pairs) =
              Redirected(Done(t)) \cup ((DOMAIN table.fds \ table.cloexec) \ Closed(Done(t)))

\* The flags of a call that is alone.
FlagsDone(t) ==
  /\ \A k \in DOMAIN w[t].saved :
       w[t].saved[k].tag = "close" => w[t].saved[k].fd \in Closed(Done(t))
  /\ w[t].alone => Closed(Done(t)) \subseteq cloexec

\* A child that was started.
Result(t) ==
  LET s == Posix(table, list[t])
  IN  /\ s.ok /\ child[t].dir = s.dir
      /\ \A d \in Redirected(Range(list[t])) \ Closed(Range(list[t])) :
           d \in DOMAIN child[t].fds /\ child[t].fds[d] = s.fds[d]
      /\ w[t].alone => child[t].fds = s.fds

\* No other thread is in the library.
AloneOK(t) == w[t].alone /\ pc[t] # "idle" => \A u \in Threads \ {t} : pc[u] = "idle"

\* What the walk is about, and how far it is.
PlaceOK(t) ==
  /\ pc[t] \in {"alloc", "apply", "mark"} => w[t].std = {}
  /\ w[t].std = {} => ~w[t].noinherit
  /\ Busy(t) => w[t].err = "ok"
  /\ Busy(t) /\ w[t].std = {} =>
       /\ w[t].i >= 1 /\ (~w[t].given => list[t] = <<>>)
       /\ pc[t] \in {"spawn", "collect", "start"} => w[t].i = Len(list[t]) + 1
       /\ w[t].cwd = {} \/ \E c \in w[t].cwd : w[t].cwd = {c}

WalkOK(t) ==
  Busy(t) /\ Following(t) =>
    /\ w[t].cwd \subseteq PathSet
    /\ Follows(table, list[t], w[t].i - 1, w[t].pairs, w[t].cwd, fds)
    /\ PairsDone(t) /\ FlagsDone(t)

ResultOK(t) ==
  /\ pc[t] = "restore" /\ w[t].err = "ok" /\ Following(t) => Result(t)
  /\ pc[t] = "idle" /\ ret[t] = "ok" /\ Following(t) => Result(t)

CallOK(t) == AloneOK(t) /\ PlaceOK(t) /\ WalkOK(t) /\ ResultOK(t)
ChildInv == DOMAIN child = Threads /\ \A t \in Threads : CallOK(t)

-----------------------------------------------------------------------------

(***************************************************************************)
(* The walks, which are recursive functions.                               *)
(***************************************************************************)
LEMMA Least ==
  ASSUME NEW S \in SUBSET Nat, S # {}
  PROVE  \E x \in S : \A y \in S : x <= y
<1>1. PICK x \in S : \A y \in S : ~ (<<y, x>> \in OpToRel(<, Nat))
  BY NatLessThanWellFounded, WFMin
<1>2. ASSUME NEW y \in S PROVE x <= y
  <2>1. x \in Nat /\ y \in Nat /\ <<y, x>> \in Nat \X Nat
    OBVIOUS
  <2>2. ~(y < x)
    BY <1>1, <2>1 DEF OpToRel
  <2> QED
    BY <2>1, <2>2
<1> QED
  BY <1>2

IsWalk(f, s0, l, n) == f = [i \in 0..n |-> IF i = 0 THEN s0 ELSE Perform(f[i - 1], l[i])]
IsDirs(f, tab, l, n) == f = [i \in 0..n |-> IF i = 0 THEN Home ELSE Moved(tab, f[i - 1], l[i])]

\* There is a walk of each length: else of a least length there is none, and it is
\* the walk before it with one more action.
LEMMA WalkExists ==
  ASSUME NEW s0, NEW l, NEW n \in Nat
  PROVE  \E f : IsWalk(f, s0, l, n)
<1> DEFINE P(k) == \E f : IsWalk(f, s0, l, k)
           B == {k \in Nat : ~P(k)}
<1>1. SUFFICES ASSUME B # {} PROVE FALSE
  OBVIOUS
<1>2. PICK k \in B : \A j \in B : k <= j
  BY <1>1, Least
<1>3. CASE k = 0
  <2> DEFINE f == [i \in 0..0 |-> s0]
  <2>1. IsWalk(f, s0, l, 0)
    BY DEF IsWalk
  <2> QED
    BY <1>3, <2>1
<1>4. CASE k > 0
  <2>1. k - 1 \in Nat /\ ~(k <= k - 1)
    BY <1>4
  <2>2. PICK f : IsWalk(f, s0, l, k - 1)
    BY <1>2, <2>1
  <2> DEFINE g == [i \in 0..k |-> IF i <= k - 1 THEN f[i] ELSE Perform(f[k - 1], l[k])]
  <2>3. ASSUME NEW i \in 0..k PROVE g[i] = IF i = 0 THEN s0 ELSE Perform(g[i - 1], l[i])
    <3>1. CASE i <= k - 1
      <4>1. i \in 0..(k - 1)
        BY <2>1, <3>1
      <4>2. f[i] = IF i = 0 THEN s0 ELSE Perform(f[i - 1], l[i])
        BY <2>2, <4>1 DEF IsWalk
      <4>3. g[i] = f[i] /\ (i # 0 => g[i - 1] = f[i - 1])
        BY <3>1, <4>1
      <4> QED
        BY <4>2, <4>3
    <3>2. CASE ~(i <= k - 1)
      <4>1. i = k /\ k # 0 /\ k - 1 \in 0..k
        BY <1>4, <2>1, <3>2
      <4>2. g[i] = Perform(f[k - 1], l[k]) /\ g[k - 1] = f[k - 1]
        BY <3>2, <4>1
      <4> HIDE DEF g
      <4> QED
        BY <4>1, <4>2
    <3> QED
      BY <3>1, <3>2
  <2>4. IsWalk(g, s0, l, k)
    <3>1. g = [i \in 0..k |-> g[i]]
      OBVIOUS
    <3> HIDE DEF g
    <3> QED
      BY <2>3, <3>1 DEF IsWalk
  <2> QED
    BY <2>4
<1> QED
  BY <1>3, <1>4

LEMMA WalkIs ==
  ASSUME NEW s0, NEW l \in Seq(AllActions)
  PROVE  /\ Walk(s0, l)[0] = s0
         /\ \A i \in 1..Len(l) : Walk(s0, l)[i] = Perform(Walk(s0, l)[i - 1], l[i])
<1>1. Len(l) \in Nat
  OBVIOUS
<1>2. \E f : IsWalk(f, s0, l, Len(l))
  BY <1>1, WalkExists
<1> DEFINE f == Walk(s0, l)
<1>3. f = [i \in 0..Len(l) |-> IF i = 0 THEN s0 ELSE Perform(f[i - 1], l[i])]
  BY <1>2 DEF Walk, IsWalk
<1> HIDE DEF f
<1>4. f[0] = s0 /\ \A i \in 1..Len(l) : f[i] = Perform(f[i - 1], l[i])
  BY <1>1, <1>3
<1> QED
  BY <1>4 DEF f

LEMMA DirsExist ==
  ASSUME NEW tab, NEW l, NEW n \in Nat
  PROVE  \E f : IsDirs(f, tab, l, n)
<1> DEFINE P(k) == \E f : IsDirs(f, tab, l, k)
           B == {k \in Nat : ~P(k)}
<1>1. SUFFICES ASSUME B # {} PROVE FALSE
  OBVIOUS
<1>2. PICK k \in B : \A j \in B : k <= j
  BY <1>1, Least
<1>3. CASE k = 0
  <2> DEFINE f == [i \in 0..0 |-> Home]
  <2>1. IsDirs(f, tab, l, 0)
    BY DEF IsDirs
  <2> QED
    BY <1>3, <2>1
<1>4. CASE k > 0
  <2>1. k - 1 \in Nat /\ ~(k <= k - 1)
    BY <1>4
  <2>2. PICK f : IsDirs(f, tab, l, k - 1)
    BY <1>2, <2>1
  <2> DEFINE g == [i \in 0..k |-> IF i <= k - 1 THEN f[i] ELSE Moved(tab, f[k - 1], l[k])]
  <2>3. ASSUME NEW i \in 0..k PROVE g[i] = IF i = 0 THEN Home ELSE Moved(tab, g[i - 1], l[i])
    <3>1. CASE i <= k - 1
      <4>1. i \in 0..(k - 1)
        BY <2>1, <3>1
      <4>2. f[i] = IF i = 0 THEN Home ELSE Moved(tab, f[i - 1], l[i])
        BY <2>2, <4>1 DEF IsDirs
      <4>3. g[i] = f[i] /\ (i # 0 => g[i - 1] = f[i - 1])
        BY <3>1, <4>1
      <4> QED
        BY <4>2, <4>3
    <3>2. CASE ~(i <= k - 1)
      <4>1. i = k /\ k # 0 /\ k - 1 \in 0..k
        BY <1>4, <2>1, <3>2
      <4>2. g[i] = Moved(tab, f[k - 1], l[k]) /\ g[k - 1] = f[k - 1]
        BY <3>2, <4>1
      <4> HIDE DEF g
      <4> QED
        BY <4>1, <4>2
    <3> QED
      BY <3>1, <3>2
  <2>4. IsDirs(g, tab, l, k)
    <3>1. g = [i \in 0..k |-> g[i]]
      OBVIOUS
    <3> HIDE DEF g
    <3> QED
      BY <2>3, <3>1 DEF IsDirs
  <2> QED
    BY <2>4
<1> QED
  BY <1>3, <1>4

LEMMA DirAfterIs ==
  ASSUME NEW tab, NEW l \in Seq(AllActions)
  PROVE  /\ DirAfter(tab, l)[0] = Home
         /\ \A i \in 1..Len(l) : DirAfter(tab, l)[i] = Moved(tab, DirAfter(tab, l)[i - 1], l[i])
<1>1. Len(l) \in Nat
  OBVIOUS
<1>2. \E f : IsDirs(f, tab, l, Len(l))
  BY <1>1, DirsExist
<1> DEFINE f == DirAfter(tab, l)
<1>3. f = [i \in 0..Len(l) |-> IF i = 0 THEN Home ELSE Moved(tab, f[i - 1], l[i])]
  BY <1>2 DEF DirAfter, IsDirs
<1> HIDE DEF f
<1>4. f[0] = Home /\ \A i \in 1..Len(l) : f[i] = Moved(tab, f[i - 1], l[i])
  BY <1>1, <1>3
<1> QED
  BY <1>4 DEF f

(***************************************************************************)
(* What the actions done redirect and close; pairs; directories.           *)
(***************************************************************************)
LEMMA NoneDone ==
  ASSUME NEW l
  PROVE  Before(l, 1) = {} /\ Redirected(Before(l, 1)) = {} /\ Closed(Before(l, 1)) = {}
BY DEF Before, Redirected, Closed

LEMMA AllDone ==
  ASSUME NEW l \in Seq(AllActions)
  PROVE  Range(l) = Before(l, Len(l) + 1)
<1>1. Len(l) \in Nat /\ DOMAIN l = 1..Len(l) /\ Len(l) + 1 - 1 = Len(l)
  BY LenProperties
<1> QED
  BY <1>1 DEF Range, Before

LEMMA OneMoreDone ==
  ASSUME NEW l, NEW i \in Nat \ {0}
  PROVE  /\ l[i].tag = "dup2" =>
              Redirected(Before(l, i + 1)) = Redirected(Before(l, i)) \cup {l[i].newfd}
         /\ l[i].tag = "open" =>
              Redirected(Before(l, i + 1)) = Redirected(Before(l, i)) \cup {l[i].fd}
         /\ l[i].tag \notin {"dup2", "open"} =>
              Redirected(Before(l, i + 1)) = Redirected(Before(l, i))
         /\ l[i].tag = "close" =>
              Closed(Before(l, i + 1)) = Closed(Before(l, i)) \cup {l[i].fd}
         /\ l[i].tag # "close" => Closed(Before(l, i + 1)) = Closed(Before(l, i))
<1>1. Before(l, i + 1) = Before(l, i) \cup {l[i]}
  <2>1. 1..(i + 1 - 1) = 1..(i - 1) \cup {i}
    OBVIOUS
  <2> QED
    BY <2>1 DEF Before
<1> QED
  BY <1>1 DEF Redirected, Closed

\* The last pair for a descriptor is the one that counts.
LEMMA LastOfIs ==
  ASSUME NEW p \in Seq(Pairs), NEW d, NEW k \in DOMAIN p, LastAt(p, d, k)
  PROVE  LastOf(p, d) = p[k][1]
<1>1. DOMAIN p = 1..Len(p) /\ Len(p) \in Nat
  BY LenProperties
<1> DEFINE L(m) == p[m][2] = d /\ \A j \in DOMAIN p : j > m => p[j][2] # d
<1>2. \A m \in DOMAIN p : L(m) => m = k
  BY <1>1 DEF LastAt
<1>3. L(k)
  BY DEF LastAt
<1>4. (CHOOSE m \in DOMAIN p : L(m)) = k
  BY <1>2, <1>3
<1> QED
  BY <1>4 DEF LastOf

LEMMA LastAtAppend ==
  ASSUME NEW p \in Seq(Pairs), NEW s \in Fds, NEW e \in Fds
  PROVE  LET q == Append(p, <<s, e>>)
             n == Len(p) + 1
         IN  /\ n \in DOMAIN q /\ LastAt(q, e, n) /\ q[n][1] = s
             /\ \A d, k : d # e /\ LastAt(p, d, k) =>
                  k \in DOMAIN q /\ LastAt(q, d, k) /\ q[k] = p[k]
<1> DEFINE q == Append(p, <<s, e>>)
           n == Len(p) + 1
<1>1. <<s, e>> \in Pairs
  BY DEF Pairs
<1>2. /\ Len(p) \in Nat /\ DOMAIN p = 1..Len(p) /\ DOMAIN q = 1..(Len(p) + 1)
      /\ \A k \in DOMAIN p : k \in DOMAIN q /\ q[k] = p[k]
      /\ n \in DOMAIN q /\ q[n] = <<s, e>>
      /\ \A k \in DOMAIN q : k \in DOMAIN p \/ k = n
  BY <1>1, Appended
<1> HIDE DEF q
<1>3. LastAt(q, e, n) /\ q[n][1] = s
  BY <1>2 DEF LastAt
<1>4. ASSUME NEW d, NEW k, d # e, LastAt(p, d, k)
      PROVE  k \in DOMAIN q /\ LastAt(q, d, k) /\ q[k] = p[k]
  BY <1>2, <1>4 DEF LastAt
<1> QED
  BY <1>2, <1>3, <1>4 DEF q

\* A path is relative to the directory that is noted.
LEMMA MergedIs ==
  ASSUME NEW cwd \in SUBSET PathSet, cwd = {} \/ \E c \in cwd : cwd = {c}, NEW path \in PathSet
  PROVE  /\ Resolve(Home, Merged(cwd, path)) = Resolve(Dir(cwd), path)
         /\ Merged(cwd, path) \in PathSet
<1>1. Home \in Seq(Names)
  BY PosixSpawnAssumption
<1>2. CASE cwd = {}
  BY <1>2 DEF Merged, Dir
<1>3. CASE cwd # {} /\ path.abs
  BY <1>3 DEF Merged, Resolve
<1>4. CASE cwd # {} /\ ~path.abs
  <2>1. PICK c \in cwd : cwd = {c}
    BY <1>4
  <2>2. c \in PathSet /\ c.parts \in Seq(Names) /\ path.parts \in Seq(Names) /\ c.abs \in BOOLEAN
    BY <2>1 DEF PathSet
  <2>3. (CHOOSE x \in cwd : TRUE) = c
    BY <2>1
  <2> DEFINE q == c.parts \o path.parts
             m == [c EXCEPT !.parts = q]
  <2>4. Merged(cwd, path) = m
    BY <1>4, <2>3 DEF Merged
  <2>5. q \in Seq(Names)
    BY <2>2, ConcatProperties
  <2> HIDE DEF q
  <2>6. m \in PathSet /\ m.abs = c.abs /\ m.parts = q
    BY <2>2, <2>5 DEF PathSet
  <2>7. Resolve(Home, m) = IF c.abs THEN q ELSE Home \o q
    BY <2>6 DEF Resolve
  <2>8. Resolve(Dir(cwd), path) = (IF c.abs THEN c.parts ELSE Home \o c.parts) \o path.parts
    BY <1>4, <2>3 DEF Dir, Resolve
  <2>9. Home \o q = (Home \o c.parts) \o path.parts
    <3> DEFINE x == c.parts
               y == path.parts
    <3>1. x \in Seq(Names) /\ y \in Seq(Names)
      BY <2>2
    <3> HIDE DEF x, y
    <3>2. (Home \o x) \o y = Home \o (x \o y)
      BY <1>1, <3>1, ConcatAssociative
    <3> QED
      BY <3>2 DEF x, y, q
  <2> QED
    BY <2>4, <2>6, <2>7, <2>8, <2>9 DEF q
<1> QED
  BY <1>2, <1>3, <1>4

(***************************************************************************)
(* One more action.                                                        *)
(***************************************************************************)

\* Other files at descriptors that are no source of a pair.
LEMMA FollowsFds ==
  ASSUME NEW tab, NEW l, NEW n, NEW pairs, NEW cwd, NEW f, NEW g,
         Follows(tab, l, n, pairs, cwd, f),
         \A k \in DOMAIN pairs : g[pairs[k][1]] = f[pairs[k][1]]
  PROVE  Follows(tab, l, n, pairs, cwd, g)
<1> DEFINE s == InChild(tab, l)[n]
           R == Redirected(Before(l, n + 1))
<1>1. \A d \in R : \E k \in DOMAIN pairs : LastAt(pairs, d, k) /\ s.fds[d] = g[pairs[k][1]]
  BY DEF Follows
<1> QED
  BY <1>1 DEF Follows

LEMMA FollowsStart ==
  ASSUME NEW tab \in Tables, NEW l \in Seq(AllActions), NEW f
  PROVE  Follows(tab, l, 0, <<>>, {}, f)
<1> DEFINE s == InChild(tab, l)[0]
<1>1. s = Copied(tab.fds, tab.cloexec, Home)
  BY WalkIs DEF InChild
<1> HIDE DEF s
<1>2. /\ s = [fds |-> s.fds, cloexec |-> s.cloexec, dir |-> s.dir, ok |-> s.ok]
      /\ s.ok /\ s.dir = Home /\ s.fds = tab.fds /\ s.cloexec = tab.cloexec
  BY <1>1 DEF Copied
<1>3. Redirected(Before(l, 0 + 1)) = {} /\ Closed(Before(l, 0 + 1)) = {}
  <2>1. 0 + 1 = 1
    OBVIOUS
  <2> QED
    BY <2>1, NoneDone
<1>4. tab.fds = [d \in DOMAIN tab.fds |-> tab.fds[d]]
  BY PosixSpawnAssumption
<1>5. Dir({}) = Home /\ DirAfter(tab, l)[0] = Home
  BY DirAfterIs DEF Dir
<1> QED
  BY <1>2, <1>3, <1>4, <1>5 DEF Follows, s

\* The state of the child at action i, and what its list says of it.
AtAction(tab, l, i, pairs, cwd, f) ==
  LET s == InChild(tab, l)[i - 1]
      R == Redirected(Before(l, i))
      C == Closed(Before(l, i))
  IN  /\ InChild(tab, l)[i] = Perform(s, l[i])
      /\ DirAfter(tab, l)[i] = Moved(tab, DirAfter(tab, l)[i - 1], l[i])
      /\ s = [fds |-> s.fds, cloexec |-> s.cloexec, dir |-> s.dir, ok |-> s.ok]
      /\ s.ok /\ s.dir = Dir(cwd) /\ s.dir = DirAfter(tab, l)[i - 1]
      /\ s.fds = [d \in DOMAIN s.fds |-> s.fds[d]]
      /\ DOMAIN s.fds = R \cup (DOMAIN tab.fds \ C)
      /\ s.cloexec = tab.cloexec \ R
      /\ \A d \in DOMAIN s.fds \ R : s.fds[d] = tab.fds[d]
      /\ \A d \in R : \E k \in DOMAIN pairs :
           LastAt(pairs, d, k) /\ s.fds[d] = f[pairs[k][1]]
      /\ l[i].tag \in {"close", "dup2", "fchdir"} =>
           l[i].fd \in DOMAIN tab.fds /\ l[i].fd \notin R
      /\ l[i].tag \in {"dup2", "fchdir"} => l[i].fd \notin C
      /\ l[i].tag \in {"chdir", "fchdir"} => DirAfter(tab, l)[i] \in Dirs

LEMMA FollowsAt ==
  ASSUME NEW tab, NEW l \in Seq(AllActions), NEW i \in DOMAIN l, NEW pairs, NEW cwd, NEW f,
         Straight(tab, l), Follows(tab, l, i - 1, pairs, cwd, f)
  PROVE  i \in Nat \ {0} /\ AtAction(tab, l, i, pairs, cwd, f)
<1>1. i \in 1..Len(l) /\ Len(l) \in Nat
  BY LenProperties
<1>2. i \in Nat \ {0} /\ i - 1 + 1 = i
  BY <1>1
<1>3. InChild(tab, l)[i] = Perform(InChild(tab, l)[i - 1], l[i])
  BY <1>1, WalkIs DEF InChild
<1>4. DirAfter(tab, l)[i] = Moved(tab, DirAfter(tab, l)[i - 1], l[i])
  BY <1>1, DirAfterIs
<1>5. /\ l[i].tag \in {"close", "dup2", "fchdir"} =>
           l[i].fd \in DOMAIN tab.fds /\ l[i].fd \notin Redirected(Before(l, i))
      /\ l[i].tag \in {"dup2", "fchdir"} => l[i].fd \notin Closed(Before(l, i))
      /\ l[i].tag \in {"chdir", "fchdir"} => DirAfter(tab, l)[i] \in Dirs
  BY DEF Straight
<1> QED
  BY <1>2, <1>3, <1>4, <1>5 DEF Follows, AtAction

LEMMA FollowsClose ==
  ASSUME NEW tab, NEW l \in Seq(AllActions), NEW i \in DOMAIN l, NEW pairs, NEW cwd, NEW f,
         Straight(tab, l), Follows(tab, l, i - 1, pairs, cwd, f), l[i].tag = "close"
  PROVE  Follows(tab, l, i, pairs, cwd, f)
<1> DEFINE s == InChild(tab, l)[i - 1]
           z == InChild(tab, l)[i]
           R == Redirected(Before(l, i))
           C == Closed(Before(l, i))
           x == Without(s.fds, {l[i].fd})
<1>0. i \in Nat \ {0} /\ AtAction(tab, l, i, pairs, cwd, f)
  BY FollowsAt
<1>1. /\ z = Perform(s, l[i])
      /\ DirAfter(tab, l)[i] = Moved(tab, DirAfter(tab, l)[i - 1], l[i])
      /\ s = [fds |-> s.fds, cloexec |-> s.cloexec, dir |-> s.dir, ok |-> s.ok]
      /\ s.ok /\ s.dir = Dir(cwd) /\ s.dir = DirAfter(tab, l)[i - 1]
      /\ DOMAIN s.fds = R \cup (DOMAIN tab.fds \ C)
      /\ s.cloexec = tab.cloexec \ R
      /\ \A d \in DOMAIN s.fds \ R : s.fds[d] = tab.fds[d]
      /\ \A d \in R : \E k \in DOMAIN pairs :
           LastAt(pairs, d, k) /\ s.fds[d] = f[pairs[k][1]]
      /\ l[i].fd \notin R
  BY <1>0 DEF AtAction
<1>2. Redirected(Before(l, i + 1)) = R /\ Closed(Before(l, i + 1)) = C \cup {l[i].fd}
  BY <1>0, OneMoreDone
<1>3. z = [s EXCEPT !.fds = x]
  BY <1>1 DEF Perform
<1>4. /\ DOMAIN x = DOMAIN s.fds \ {l[i].fd} /\ x = [d \in DOMAIN x |-> x[d]]
      /\ \A d \in DOMAIN x : x[d] = s.fds[d]
  BY DEF Without
<1> HIDE DEF x, s
<1>5. /\ z = [fds |-> z.fds, cloexec |-> z.cloexec, dir |-> z.dir, ok |-> z.ok]
      /\ z.fds = x /\ z.cloexec = s.cloexec /\ z.dir = s.dir /\ z.ok = s.ok
  BY <1>1, <1>3
<1>6. DirAfter(tab, l)[i] = s.dir
  BY <1>1 DEF Moved
<1> HIDE DEF z, R, C
<1>7. /\ DOMAIN z.fds = R \cup (DOMAIN tab.fds \ (C \cup {l[i].fd}))
      /\ \A d \in DOMAIN z.fds \ R : z.fds[d] = tab.fds[d]
      /\ \A d \in R : \E k \in DOMAIN pairs :
           LastAt(pairs, d, k) /\ z.fds[d] = f[pairs[k][1]]
  BY <1>1, <1>4, <1>5
<1> QED
  BY <1>1, <1>2, <1>4, <1>5, <1>6, <1>7 DEF Follows, z

\* The records of the child's state.
LEMMA StateSet ==
  ASSUME NEW s, s = [fds |-> s.fds, cloexec |-> s.cloexec, dir |-> s.dir, ok |-> s.ok],
         NEW z, NEW x, NEW y, z = [[s EXCEPT !.fds = x] EXCEPT !.cloexec = y]
  PROVE  /\ z = [fds |-> z.fds, cloexec |-> z.cloexec, dir |-> z.dir, ok |-> z.ok]
         /\ z.fds = x /\ z.cloexec = y /\ z.dir = s.dir /\ z.ok = s.ok
<1> DEFINE m == [s EXCEPT !.fds = x]
<1>1. /\ m = [fds |-> m.fds, cloexec |-> m.cloexec, dir |-> m.dir, ok |-> m.ok]
      /\ m.fds = x /\ m.dir = s.dir /\ m.ok = s.ok
  OBVIOUS
<1>2. z = [m EXCEPT !.cloexec = y]
  OBVIOUS
<1> HIDE DEF m
<1> QED
  BY <1>1, <1>2

LEMMA FollowsDup2 ==
  ASSUME NEW tab, NEW l \in Seq(AllActions), NEW i \in DOMAIN l, NEW pairs \in Seq(Pairs),
         NEW cwd, NEW f, Straight(tab, l), Follows(tab, l, i - 1, pairs, cwd, f),
         l[i].tag = "dup2", l[i].fd \in Fds, l[i].newfd \in Fds,
         \A d \in DOMAIN tab.fds : f[d] = tab.fds[d]
  PROVE  Follows(tab, l, i, Append(pairs, <<l[i].fd, l[i].newfd>>), cwd, f)
<1> DEFINE s == InChild(tab, l)[i - 1]
           z == InChild(tab, l)[i]
           R == Redirected(Before(l, i))
           C == Closed(Before(l, i))
           a == l[i].fd
           b == l[i].newfd
           q == Append(pairs, <<a, b>>)
           x == With(s.fds, b, s.fds[a])
           y == s.cloexec \ {b}
<1>0. i \in Nat \ {0} /\ AtAction(tab, l, i, pairs, cwd, f)
  BY FollowsAt
<1>1. /\ z = Perform(s, l[i])
      /\ DirAfter(tab, l)[i] = Moved(tab, DirAfter(tab, l)[i - 1], l[i])
      /\ s = [fds |-> s.fds, cloexec |-> s.cloexec, dir |-> s.dir, ok |-> s.ok]
      /\ s.ok /\ s.dir = Dir(cwd) /\ s.dir = DirAfter(tab, l)[i - 1]
      /\ DOMAIN s.fds = R \cup (DOMAIN tab.fds \ C)
      /\ s.cloexec = tab.cloexec \ R
      /\ \A d \in DOMAIN s.fds \ R : s.fds[d] = tab.fds[d]
      /\ \A d \in R : \E k \in DOMAIN pairs :
           LastAt(pairs, d, k) /\ s.fds[d] = f[pairs[k][1]]
      /\ a \in DOMAIN tab.fds /\ a \notin R /\ a \notin C
  BY <1>0 DEF AtAction
<1>2. Redirected(Before(l, i + 1)) = R \cup {b} /\ Closed(Before(l, i + 1)) = C
  BY <1>0, OneMoreDone
<1>3. a \in DOMAIN s.fds /\ s.fds[a] = f[a]
  BY <1>1
<1>4. z = [[s EXCEPT !.fds = x] EXCEPT !.cloexec = y]
  BY <1>1, <1>3 DEF Perform
<1>5. /\ DOMAIN x = DOMAIN s.fds \cup {b} /\ x = [d \in DOMAIN x |-> x[d]] /\ x[b] = f[a]
      /\ \A d \in DOMAIN s.fds : d # b => x[d] = s.fds[d]
  BY <1>3 DEF With
<1> HIDE DEF x, y, s, z
<1>6. /\ z = [fds |-> z.fds, cloexec |-> z.cloexec, dir |-> z.dir, ok |-> z.ok]
      /\ z.fds = x /\ z.cloexec = y /\ z.dir = s.dir /\ z.ok = s.ok
  BY <1>1, <1>4, StateSet
<1>7. DirAfter(tab, l)[i] = s.dir
  BY <1>1 DEF Moved
<1>8. /\ Len(pairs) + 1 \in DOMAIN q /\ LastAt(q, b, Len(pairs) + 1) /\ q[Len(pairs) + 1][1] = a
      /\ \A d, k : d # b /\ LastAt(pairs, d, k) =>
           k \in DOMAIN q /\ LastAt(q, d, k) /\ q[k] = pairs[k]
  BY LastAtAppend
<1> HIDE DEF z, R, C, q
<1>9. /\ DOMAIN z.fds = (R \cup {b}) \cup (DOMAIN tab.fds \ C)
      /\ z.cloexec = tab.cloexec \ (R \cup {b})
      /\ \A d \in DOMAIN z.fds \ (R \cup {b}) : z.fds[d] = tab.fds[d]
  BY <1>1, <1>5, <1>6 DEF y
<1>10. ASSUME NEW d \in R \cup {b}
       PROVE  \E k \in DOMAIN q : LastAt(q, d, k) /\ z.fds[d] = f[q[k][1]]
  <2>1. CASE d = b
    BY <1>5, <1>6, <1>8, <2>1
  <2>2. CASE d # b
    <3>1. PICK k \in DOMAIN pairs : LastAt(pairs, d, k) /\ s.fds[d] = f[pairs[k][1]]
      BY <1>1, <2>2
    <3>2. k \in DOMAIN q /\ LastAt(q, d, k) /\ q[k] = pairs[k]
      BY <1>8, <2>2, <3>1
    <3>3. z.fds[d] = s.fds[d]
      BY <1>1, <1>5, <1>6, <2>2
    <3> QED
      BY <3>1, <3>2, <3>3
  <2> QED
    BY <2>1, <2>2
<1>11. /\ z.ok /\ z.dir = Dir(cwd) /\ z.dir = DirAfter(tab, l)[i]
       /\ z.fds = [d \in DOMAIN z.fds |-> z.fds[d]]
  BY <1>1, <1>5, <1>6, <1>7
<1>12. Follows(tab, l, i, q, cwd, f)
  BY <1>2, <1>6, <1>9, <1>10, <1>11 DEF Follows, z
<1> QED
  BY <1>12 DEF q

LEMMA FollowsOpen ==
  ASSUME NEW tab, NEW l \in Seq(AllActions), NEW i \in DOMAIN l, NEW pairs \in Seq(Pairs),
         NEW cwd, NEW f, Straight(tab, l), Follows(tab, l, i - 1, pairs, cwd, f),
         l[i].tag = "open", l[i].fd \in Fds, NEW fd \in Fds, NEW g,
         g[fd] = Resolve(Dir(cwd), l[i].path), Resolve(Dir(cwd), l[i].path) \in Existing,
         \A k \in DOMAIN pairs : g[pairs[k][1]] = f[pairs[k][1]]
  PROVE  Follows(tab, l, i, Append(pairs, <<fd, l[i].fd>>), cwd, g)
<1> DEFINE s == InChild(tab, l)[i - 1]
           z == InChild(tab, l)[i]
           R == Redirected(Before(l, i))
           C == Closed(Before(l, i))
           b == l[i].fd
           q == Append(pairs, <<fd, b>>)
           x == With(s.fds, b, g[fd])
           y == s.cloexec \ {b}
<1>0. i \in Nat \ {0} /\ AtAction(tab, l, i, pairs, cwd, f)
  BY FollowsAt
<1>1. /\ z = Perform(s, l[i])
      /\ DirAfter(tab, l)[i] = Moved(tab, DirAfter(tab, l)[i - 1], l[i])
      /\ s = [fds |-> s.fds, cloexec |-> s.cloexec, dir |-> s.dir, ok |-> s.ok]
      /\ s.ok /\ s.dir = Dir(cwd) /\ s.dir = DirAfter(tab, l)[i - 1]
      /\ DOMAIN s.fds = R \cup (DOMAIN tab.fds \ C)
      /\ s.cloexec = tab.cloexec \ R
      /\ \A d \in DOMAIN s.fds \ R : s.fds[d] = tab.fds[d]
      /\ \A d \in R : \E k \in DOMAIN pairs :
           LastAt(pairs, d, k) /\ s.fds[d] = f[pairs[k][1]]
  BY <1>0 DEF AtAction
<1>2. Redirected(Before(l, i + 1)) = R \cup {b} /\ Closed(Before(l, i + 1)) = C
  BY <1>0, OneMoreDone
<1>3. Resolve(s.dir, l[i].path) = g[fd] /\ g[fd] \in Existing
  BY <1>1
<1>4. z = [[s EXCEPT !.fds = x] EXCEPT !.cloexec = y]
  BY <1>1, <1>3 DEF Perform
<1>5. /\ DOMAIN x = DOMAIN s.fds \cup {b} /\ x = [d \in DOMAIN x |-> x[d]] /\ x[b] = g[fd]
      /\ \A d \in DOMAIN s.fds : d # b => x[d] = s.fds[d]
  BY DEF With
<1> HIDE DEF x, y, s, z
<1>6. /\ z = [fds |-> z.fds, cloexec |-> z.cloexec, dir |-> z.dir, ok |-> z.ok]
      /\ z.fds = x /\ z.cloexec = y /\ z.dir = s.dir /\ z.ok = s.ok
  BY <1>1, <1>4, StateSet
<1>7. DirAfter(tab, l)[i] = s.dir
  BY <1>1 DEF Moved
<1>8. /\ Len(pairs) + 1 \in DOMAIN q /\ LastAt(q, b, Len(pairs) + 1) /\ q[Len(pairs) + 1][1] = fd
      /\ \A d, k : d # b /\ LastAt(pairs, d, k) =>
           k \in DOMAIN q /\ LastAt(q, d, k) /\ q[k] = pairs[k]
  BY LastAtAppend
<1> HIDE DEF R, C, q
<1>9. /\ DOMAIN z.fds = (R \cup {b}) \cup (DOMAIN tab.fds \ C)
      /\ z.cloexec = tab.cloexec \ (R \cup {b})
      /\ \A d \in DOMAIN z.fds \ (R \cup {b}) : z.fds[d] = tab.fds[d]
  BY <1>1, <1>5, <1>6 DEF y
<1>10. ASSUME NEW d \in R \cup {b}
       PROVE  \E k \in DOMAIN q : LastAt(q, d, k) /\ z.fds[d] = g[q[k][1]]
  <2>1. CASE d = b
    BY <1>5, <1>6, <1>8, <2>1
  <2>2. CASE d # b
    <3>1. PICK k \in DOMAIN pairs : LastAt(pairs, d, k) /\ s.fds[d] = f[pairs[k][1]]
      BY <1>1, <2>2
    <3>2. k \in DOMAIN q /\ LastAt(q, d, k) /\ q[k] = pairs[k]
      BY <1>8, <2>2, <3>1
    <3>3. z.fds[d] = s.fds[d]
      BY <1>1, <1>5, <1>6, <2>2
    <3> QED
      BY <3>1, <3>2, <3>3
  <2> QED
    BY <2>1, <2>2
<1>11. /\ z.ok /\ z.dir = Dir(cwd) /\ z.dir = DirAfter(tab, l)[i]
       /\ z.fds = [d \in DOMAIN z.fds |-> z.fds[d]]
  BY <1>1, <1>5, <1>6, <1>7
<1>12. Follows(tab, l, i, q, cwd, g)
  BY <1>2, <1>6, <1>9, <1>10, <1>11 DEF Follows, z
<1> QED
  BY <1>12 DEF q

LEMMA FollowsDir ==
  ASSUME NEW tab, NEW l \in Seq(AllActions), NEW i \in DOMAIN l, NEW pairs, NEW cwd, NEW f,
         Straight(tab, l), Follows(tab, l, i - 1, pairs, cwd, f),
         l[i].tag \in {"chdir", "fchdir"}, NEW c, Dir(c) = DirAfter(tab, l)[i]
  PROVE  Follows(tab, l, i, pairs, c, f)
<1> DEFINE s == InChild(tab, l)[i - 1]
           z == InChild(tab, l)[i]
           R == Redirected(Before(l, i))
           C == Closed(Before(l, i))
           e == DirAfter(tab, l)[i]
<1>0. i \in Nat \ {0} /\ AtAction(tab, l, i, pairs, cwd, f)
  BY FollowsAt
<1>1. /\ z = Perform(s, l[i])
      /\ e = Moved(tab, DirAfter(tab, l)[i - 1], l[i]) /\ e \in Dirs
      /\ s = [fds |-> s.fds, cloexec |-> s.cloexec, dir |-> s.dir, ok |-> s.ok]
      /\ s.ok /\ s.dir = DirAfter(tab, l)[i - 1]
      /\ s.fds = [d \in DOMAIN s.fds |-> s.fds[d]]
      /\ DOMAIN s.fds = R \cup (DOMAIN tab.fds \ C)
      /\ s.cloexec = tab.cloexec \ R
      /\ \A d \in DOMAIN s.fds \ R : s.fds[d] = tab.fds[d]
      /\ \A d \in R : \E k \in DOMAIN pairs :
           LastAt(pairs, d, k) /\ s.fds[d] = f[pairs[k][1]]
  BY <1>0 DEF AtAction
<1>2. Redirected(Before(l, i + 1)) = R /\ Closed(Before(l, i + 1)) = C
  BY <1>0, OneMoreDone
<1>3. z = [s EXCEPT !.dir = e]
  <2>1. CASE l[i].tag = "chdir"
    <3>1. Resolve(s.dir, l[i].path) = e
      BY <1>1, <2>1 DEF Moved
    <3> QED
      BY <1>1, <2>1, <3>1 DEF Perform
  <2>2. CASE l[i].tag = "fchdir"
    <3>1. l[i].fd \in DOMAIN tab.fds /\ l[i].fd \notin R /\ l[i].fd \notin C
      BY <1>0, <2>2 DEF AtAction
    <3>2. l[i].fd \in DOMAIN s.fds /\ s.fds[l[i].fd] = e
      BY <1>1, <2>2, <3>1 DEF Moved
    <3> QED
      BY <1>1, <2>2, <3>2 DEF Perform
  <2> QED
    BY <2>1, <2>2
<1> HIDE DEF s, z, e
<1>4. /\ z = [fds |-> z.fds, cloexec |-> z.cloexec, dir |-> z.dir, ok |-> z.ok]
      /\ z.fds = s.fds /\ z.cloexec = s.cloexec /\ z.dir = e /\ z.ok = s.ok
  BY <1>1, <1>3
<1> HIDE DEF R, C
<1>5. Dir(c) = e /\ DirAfter(tab, l)[i] = e
  BY DEF e
<1> QED
  BY <1>1, <1>2, <1>4, <1>5 DEF Follows, z

(***************************************************************************)
(* Steps of other threads.                                                 *)
(***************************************************************************)

\* All the locals but alone, which others can only take away.
Kept(x, y) ==
  /\ y.i = x.i /\ y.pairs = x.pairs /\ y.saved = x.saved /\ y.cwd = x.cwd
  /\ y.given = x.given /\ y.noinherit = x.noinherit /\ y.std = x.std /\ y.err = x.err
  /\ y.alone => x.alone

\* What a step of another thread leaves of the call of u.
Framed(u) ==
  /\ table' = table /\ list'[u] = list[u] /\ pc'[u] = pc[u] /\ ret'[u] = ret[u]
  /\ child'[u] = child[u] /\ Kept(w[u], w'[u])
  /\ \A d \in Held(u) : fds'[d] = fds[d]
  /\ w'[u].alone /\ pc[u] # "idle" =>
       (\A v \in Threads \ {u} : pc'[v] = "idle") /\ cloexec \subseteq cloexec'

LEMMA FramedOK ==
  ASSUME NEW u \in Threads, CallOK(u), Framed(u)
  PROVE  CallOK(u)'
<1>1. /\ table' = table /\ list'[u] = list[u] /\ pc'[u] = pc[u] /\ ret'[u] = ret[u]
      /\ child'[u] = child[u]
      /\ w'[u].i = w[u].i /\ w'[u].pairs = w[u].pairs /\ w'[u].saved = w[u].saved
      /\ w'[u].cwd = w[u].cwd /\ w'[u].given = w[u].given /\ w'[u].noinherit = w[u].noinherit
      /\ w'[u].std = w[u].std /\ w'[u].err = w[u].err /\ (w'[u].alone => w[u].alone)
  BY DEF Framed, Kept
<1>2. AloneOK(u)'
  BY <1>1 DEF Framed, AloneOK
<1>3. PlaceOK(u)'
  BY <1>1 DEF CallOK, PlaceOK, Busy
<1>4. Held(u)' = Held(u) /\ Done(u)' = Done(u) /\ (Following(u)' => Following(u))
      /\ (Busy(u)' => Busy(u) /\ pc[u] # "idle")
  BY <1>1 DEF Held, Done, Following, Busy
<1>5. WalkOK(u)'
  <2> SUFFICES ASSUME Busy(u)', Following(u)'
               PROVE  /\ w'[u].cwd \subseteq PathSet
                      /\ Follows(table, list[u], w[u].i - 1, w[u].pairs, w[u].cwd, fds')
                      /\ PairsDone(u)' /\ FlagsDone(u)'
    BY <1>1 DEF WalkOK
  <2>1. /\ w[u].cwd \subseteq PathSet
        /\ Follows(table, list[u], w[u].i - 1, w[u].pairs, w[u].cwd, fds)
        /\ PairsDone(u) /\ FlagsDone(u)
    BY <1>4 DEF CallOK, WalkOK
  <2>2. \A k \in DOMAIN w[u].pairs : fds'[w[u].pairs[k][1]] = fds[w[u].pairs[k][1]]
    BY <2>1 DEF PairsDone, Sources, Framed
  <2>3. Follows(table, list[u], w[u].i - 1, w[u].pairs, w[u].cwd, fds')
    BY <2>1, <2>2, FollowsFds
  <2>4. PairsDone(u)'
    BY <1>1, <1>4, <2>1 DEF PairsDone
  <2>5. FlagsDone(u)'
    BY <1>1, <1>4, <2>1 DEF FlagsDone, Framed
  <2> QED
    BY <1>1, <2>1, <2>3, <2>4, <2>5
<1>6. ResultOK(u)'
  <2>1. Result(u) => Result(u)'
    BY <1>1 DEF Result
  <2> QED
    BY <1>1, <1>4, <2>1 DEF CallOK, ResultOK
<1> QED
  BY <1>2, <1>3, <1>5, <1>6 DEF CallOK

\* Descriptors a thread holds are open, also when another thread closes one that its
\* open action made.
LEMMA HeldOpen ==
  ASSUME IInv, NEW u \in Threads
  PROVE  Held(u) \subseteq DOMAIN fds
BY DEF IInv, SavedInv, TableInv, Held

LEMMA HeldByOne ==
  ASSUME IInv, NEW t \in Threads, NEW u \in Threads, u # t, NEW j \in DOMAIN w[t].saved,
         w[t].saved[j].tag = "open"
  PROVE  w[t].saved[j].fd \notin Held(u)
<1>1. w[t].saved[j].fd \notin DOMAIN table.fds
  BY DEF IInv, SavedInv
<1>2. ASSUME NEW k \in DOMAIN w[u].saved, w[u].saved[k].tag = "open",
             w[u].saved[k].fd = w[t].saved[j].fd
      PROVE  FALSE
  <2>1. w[u].saved[k] \in Entries /\ w[t].saved[j] \in Entries
    BY ElementOfSeq, LenProperties DEF IInv, SavedInv
  <2>2. w[t].saved[j] = w[u].saved[k]
    BY <1>2, <2>1 DEF Entries
  <2>3. t = u
    BY <2>2 DEF IInv, SavedInv
  <2> QED
    BY <2>3
<1> QED
  BY <1>1, <1>2 DEF Held

\* A step of t that changes only what is of t, and values at descriptors that are
\* not held by u.
LEMMA OtherFramed ==
  ASSUME IInv, NEW t \in Threads, NEW u \in Threads, u # t, CallOK(u),
         table' = table, list'[u] = list[u], pc'[u] = pc[u], ret'[u] = ret[u],
         child'[u] = child[u], w'[u] = w[u],
         \A d \in Held(u) : fds'[d] = fds[d],
         pc[t] # "idle" \/ (pc' = pc /\ cloexec' = cloexec)
  PROVE  CallOK(u)'
<1>1. w[u].alone /\ pc[u] # "idle" =>
       (\A v \in Threads \ {u} : pc'[v] = "idle") /\ cloexec \subseteq cloexec'
  BY DEF CallOK, AloneOK
<1>2. Framed(u)
  BY <1>1 DEF Framed, Kept
<1> QED
  BY <1>2, FramedOK

(***************************************************************************)
(* Which fields steps change.                                              *)
(***************************************************************************)
LEMMA WorkIs ==
  ASSUME IInv, NEW t \in Threads, NEW x, w' = [w EXCEPT ![t] = x]
  PROVE  w'[t] = x /\ \A u \in Threads \ {t} : w'[u] = w[u]
<1>1. w = [u \in Threads |-> w[u]]
  BY DEF IInv, TypeInv
<1> QED
  BY <1>1

LEMMA GotoIs ==
  ASSUME IInv, NEW t \in Threads, NEW l, Goto(t, l)
  PROVE  pc'[t] = l /\ \A u \in Threads \ {t} : pc'[u] = pc[u]
BY DEF IInv, TypeInv, Goto

LEMMA FailIs ==
  ASSUME IInv, NEW t \in Threads, NEW e, Fail(t, e)
  PROVE  /\ pc'[t] = "restore" /\ w'[t].err = e /\ w'[t].std = w[t].std
         /\ w'[t].noinherit = w[t].noinherit /\ w'[t].alone = w[t].alone
         /\ \A u \in Threads \ {t} : w'[u] = w[u] /\ pc'[u] = pc[u]
<1> DEFINE x == [w[t] EXCEPT !.err = e]
<1>1. w' = [w EXCEPT ![t] = x] /\ Goto(t, "restore")
  BY DEF Fail
<1>2. /\ x.err = e /\ x.std = w[t].std /\ x.noinherit = w[t].noinherit
      /\ x.alone = w[t].alone
  <2>1. Form(w[t])
    BY Locals
  <2> QED
    BY <2>1 DEF Form
<1> HIDE DEF x
<1> QED
  BY <1>1, <1>2, WorkIs, GotoIs

LEMMA NoteIs ==
  ASSUME IInv, NEW t \in Threads, NEW x, Note(t, x), Form(x)
  PROVE  /\ pc'[t] = "apply" /\ w'[t].i = x.i + 1 /\ w'[t].pairs = x.pairs
         /\ w'[t].saved = x.saved /\ w'[t].cwd = x.cwd /\ w'[t].given = x.given
         /\ w'[t].noinherit = x.noinherit /\ w'[t].std = x.std /\ w'[t].alone = x.alone
         /\ w'[t].err = x.err
         /\ \A u \in Threads \ {t} : w'[u] = w[u] /\ pc'[u] = pc[u]
<1> DEFINE y == [x EXCEPT !.i = @ + 1]
<1>1. w' = [w EXCEPT ![t] = y] /\ Goto(t, "apply")
  BY DEF Note
<1>2. /\ y.i = x.i + 1 /\ y.pairs = x.pairs /\ y.saved = x.saved /\ y.cwd = x.cwd
      /\ y.given = x.given /\ y.noinherit = x.noinherit /\ y.std = x.std
      /\ y.alone = x.alone /\ y.err = x.err
  BY DEF Form
<1> HIDE DEF y
<1> QED
  BY <1>1, <1>2, WorkIs, GotoIs

LEMMA ReturnIs ==
  ASSUME IInv, NEW t \in Threads, NEW r, Return(t, r)
  PROVE  /\ pc'[t] = "idle" /\ ret'[t] = r /\ w'[t].std = w[t].std
         /\ w'[t].noinherit = w[t].noinherit /\ w'[t].alone = w[t].alone
         /\ \A u \in Threads \ {t} : w'[u] = w[u] /\ pc'[u] = pc[u] /\ ret'[u] = ret[u]
<1> DEFINE a  == w[t].alone
           b  == w[t].std
           c  == w[t].noinherit
           z1 == [NoWork EXCEPT !.alone = a]
           z2 == [z1 EXCEPT !.std = b]
           z3 == [z2 EXCEPT !.noinherit = c]
<1>1. w' = [w EXCEPT ![t] = z3] /\ Goto(t, "idle") /\ ret' = [ret EXCEPT ![t] = r]
  BY DEF Return
<1> HIDE DEF a, b, c
<1>2. Form(z1) /\ z1.alone = a
  BY NoWorkForm DEF Form
<1> HIDE DEF z1
<1>3. Form(z2) /\ z2.alone = a /\ z2.std = b
  BY <1>2 DEF Form
<1> HIDE DEF z2
<1>4. z3.alone = a /\ z3.std = b /\ z3.noinherit = c
  BY <1>3 DEF Form
<1> HIDE DEF z3
<1>5. ret'[t] = r /\ \A u \in Threads \ {t} : ret'[u] = ret[u]
  <2>1. ret \in [Threads -> Results]
    BY Locals
  <2> QED
    BY <1>1, <2>1
<1> QED
  BY <1>1, <1>4, <1>5, WorkIs, GotoIs DEF a, b, c

(***************************************************************************)
(* Steps of a thread that is in the library.                               *)
(***************************************************************************)

\* A step of t as the other threads see it.
Mine(t) ==
  /\ table' = table /\ DOMAIN child' = Threads
  /\ pc[t] # "idle" \/ (pc' = pc /\ cloexec' = cloexec)
  /\ \A u \in Threads \ {t} :
       /\ list'[u] = list[u] /\ pc'[u] = pc[u] /\ ret'[u] = ret[u] /\ child'[u] = child[u]
       /\ w'[u] = w[u]
       /\ \A d \in Held(u) : fds'[d] = fds[d]

LEMMA MineStep ==
  ASSUME IInv, ChildInv, NEW t \in Threads, Mine(t), CallOK(t)'
  PROVE  ChildInv'
<1>1. ASSUME NEW u \in Threads, u # t PROVE CallOK(u)'
  <2>1. /\ table' = table /\ list'[u] = list[u] /\ pc'[u] = pc[u] /\ ret'[u] = ret[u]
        /\ child'[u] = child[u] /\ w'[u] = w[u]
        /\ \A d \in Held(u) : fds'[d] = fds[d]
        /\ pc[t] # "idle" \/ (pc' = pc /\ cloexec' = cloexec)
    BY <1>1 DEF Mine
  <2>2. CallOK(u)
    BY DEF ChildInv
  <2> QED
    BY <1>1, <2>1, <2>2, OtherFramed
<1> QED
  BY <1>1 DEF ChildInv, Mine

LEMMA FailCall ==
  ASSUME IInv, ChildInv, NEW t \in Threads, NEW e, e # "ok", Fail(t, e), pc[t] # "idle",
         UNCHANGED <<table, list, ret, child>>, fds' = fds
  PROVE  ChildInv'
<1>1. /\ pc'[t] = "restore" /\ w'[t].err = e /\ w'[t].std = w[t].std
      /\ w'[t].noinherit = w[t].noinherit /\ w'[t].alone = w[t].alone
      /\ \A u \in Threads \ {t} : w'[u] = w[u] /\ pc'[u] = pc[u]
  BY FailIs
<1>2. CallOK(t)
  BY DEF ChildInv
<1>3. AloneOK(t)' /\ PlaceOK(t)' /\ WalkOK(t)' /\ ResultOK(t)'
  BY <1>1, <1>2 DEF CallOK, AloneOK, PlaceOK, WalkOK, ResultOK, Busy
<1>4. Mine(t)
  BY <1>1 DEF Mine, ChildInv
<1> QED
  BY <1>3, <1>4, MineStep DEF CallOK

LEMMA ReturnCall ==
  ASSUME IInv, ChildInv, NEW t \in Threads, NEW r, Return(t, r), pc[t] # "idle",
         UNCHANGED <<table, list, child>>, fds' = fds,
         r = "ok" => pc[t] = "restore" /\ w[t].err = "ok"
  PROVE  ChildInv'
<1>1. /\ pc'[t] = "idle" /\ ret'[t] = r /\ w'[t].std = w[t].std
      /\ w'[t].noinherit = w[t].noinherit /\ w'[t].alone = w[t].alone
      /\ \A u \in Threads \ {t} : w'[u] = w[u] /\ pc'[u] = pc[u] /\ ret'[u] = ret[u]
  BY ReturnIs
<1>2. CallOK(t)
  BY DEF ChildInv
<1>3. AloneOK(t)' /\ PlaceOK(t)' /\ WalkOK(t)'
  BY <1>1, <1>2 DEF CallOK, AloneOK, PlaceOK, WalkOK, Busy
<1>4. ResultOK(t)'
  <2>1. Following(t)' => Following(t)
    BY <1>1 DEF Following
  <2>2. Result(t) => Result(t)'
    BY <1>1 DEF Result
  <2> QED
    BY <1>1, <1>2, <2>1, <2>2 DEF CallOK, ResultOK
<1>5. Mine(t)
  BY <1>1 DEF Mine, ChildInv
<1> QED
  BY <1>3, <1>4, <1>5, MineStep DEF CallOK

\* The call goes on to the next place and keeps what it knows.
LEMMA GotoCall ==
  ASSUME IInv, ChildInv, NEW t \in Threads, NEW l, Goto(t, l), Busy(t),
         l \in {"apply", "mark", "spawn", "collect", "start"}, w' = w,
         l \in {"apply", "mark"} => pc[t] \in {"alloc", "apply"},
         l \in {"spawn", "collect", "start"} /\ w[t].std = {} => w[t].i = Len(list[t]) + 1,
         pc[t] # "start", l = "start" => ~(w[t].given /\ w[t].std = {}),
         UNCHANGED <<table, list, ret, child>>, fds' = fds, cloexec' = cloexec
  PROVE  ChildInv'
<1>1. pc'[t] = l /\ \A u \in Threads \ {t} : pc'[u] = pc[u]
  BY GotoIs
<1>2. CallOK(t) /\ pc[t] # "idle" /\ Busy(t)'
  BY <1>1 DEF ChildInv, Busy
<1>3. AloneOK(t)'
  BY <1>1, <1>2 DEF CallOK, AloneOK
<1>4. PlaceOK(t)'
  BY <1>1, <1>2 DEF CallOK, PlaceOK
<1>5. WalkOK(t)'
  <2>1. Held(t)' = Held(t) /\ Done(t)' = Done(t) /\ (Following(t)' => Following(t))
    BY DEF Held, Done, Following
  <2>2. Following(t) /\ PairsDone(t) => PairsDone(t)'
    BY <1>1, <2>1 DEF PairsDone, Following
  <2>3. FlagsDone(t) => FlagsDone(t)'
    BY <2>1 DEF FlagsDone
  <2> QED
    BY <1>2, <2>1, <2>2, <2>3 DEF CallOK, WalkOK
<1>6. ResultOK(t)'
  BY <1>1 DEF ResultOK
<1>7. Mine(t)
  BY <1>1, <1>2 DEF Mine, ChildInv
<1> QED
  BY <1>3, <1>4, <1>5, <1>6, <1>7, MineStep DEF CallOK

LEMMA AllocCall ==
  ASSUME IInv, ChildInv, NEW t \in Threads, Alloc(t)
  PROVE  ChildInv'
<1>1. CASE Goto(t, "apply") /\ UNCHANGED <<w, ret>>
  <2>1. Busy(t) /\ pc[t] = "alloc"
    BY DEF Alloc, Busy
  <2> QED
    BY <1>1, <2>1, GotoCall DEF Alloc
<1>2. CASE Return(t, "ENOMEM")
  BY <1>2, ReturnCall DEF Alloc
<1> QED
  BY <1>1, <1>2 DEF Alloc

LEMMA AppliedCall ==
  ASSUME IInv, ChildInv, NEW t \in Threads, Applied(t)
  PROVE  ChildInv'
<1>1. Busy(t) /\ pc[t] = "apply"
  BY DEF Applied, Busy
<1>2. w[t].i = Len(list[t]) + 1
  <2>1. w[t].i \in Nat /\ Len(list[t]) \in Nat /\ w[t].i <= Len(list[t]) + 1
    BY Locals
  <2> QED
    BY <2>1 DEF Applied
<1> QED
  BY <1>1, <1>2, GotoCall DEF Applied

LEMMA SearchCall ==
  ASSUME IInv, ChildInv, NEW t \in Threads, Search(t)
  PROVE  ChildInv'
<1>1. Busy(t) /\ pc[t] = "spawn"
  BY DEF Search, Busy
<1>2. PlaceOK(t)
  BY DEF ChildInv, CallOK
<1>3. w[t].std = {} => w[t].i = Len(list[t]) + 1 /\ ~w[t].noinherit
  BY <1>1, <1>2 DEF PlaceOK
<1>4. CASE Fail(t, "ENOENT")
  BY <1>1, <1>4, FailCall DEF Search
<1>5. CASE Goto(t, "collect") /\ w' = w
  BY <1>1, <1>3, <1>5, GotoCall DEF Search
<1>6. CASE Goto(t, "start") /\ ~(w[t].given /\ ~w[t].noinherit) /\ w' = w
  BY <1>1, <1>3, <1>6, GotoCall DEF Search
<1> QED
  BY <1>4, <1>5, <1>6 DEF Search

LEMMA EndCall ==
  ASSUME IInv, ChildInv, NEW t \in Threads, End(t)
  PROVE  ChildInv'
BY ReturnCall DEF End

LEMMA RestoreCall ==
  ASSUME IInv, ChildInv, NEW t \in Threads, Restore(t)
  PROVE  ChildInv'
<1> DEFINE f == Front(w[t].saved)
           x == [w[t] EXCEPT !.saved = f]
<1>1. w' = [w EXCEPT ![t] = x] /\ pc' = pc /\ pc[t] = "restore"
  BY DEF Restore
<1>2. UNCHANGED <<table, list, ret, child>>
  BY DEF Restore
<1>3. /\ x.std = w[t].std /\ x.noinherit = w[t].noinherit /\ x.alone = w[t].alone
      /\ x.err = w[t].err
  <2>1. Form(w[t])
    BY Locals
  <2> QED
    BY <2>1 DEF Form
<1> HIDE DEF x
<1>4. w'[t] = x /\ \A u \in Threads \ {t} : w'[u] = w[u]
  BY <1>1, WorkIs
<1>5. CallOK(t)
  BY DEF ChildInv
<1>6. AloneOK(t)' /\ PlaceOK(t)' /\ WalkOK(t)'
  BY <1>1, <1>3, <1>4, <1>5 DEF CallOK, AloneOK, PlaceOK, WalkOK, Busy
<1>7. ResultOK(t)'
  <2>1. Following(t)' => Following(t)
    BY <1>2, <1>3, <1>4 DEF Following
  <2>2. Result(t) => Result(t)'
    BY <1>2, <1>3, <1>4 DEF Result
  <2> QED
    BY <1>1, <1>2, <1>3, <1>4, <1>5, <2>1, <2>2 DEF CallOK, ResultOK
\* What is closed is held by no other thread.
<1>8. \A u \in Threads \ {t} : \A d \in Held(u) : fds'[d] = fds[d]
  <2> SUFFICES ASSUME NEW u \in Threads, u # t, NEW d \in Held(u) PROVE fds'[d] = fds[d]
    OBVIOUS
  <2> DEFINE e == Last(w[t].saved)
             n == Len(w[t].saved)
  <2>1. n \in DOMAIN w[t].saved /\ e = w[t].saved[n]
    BY Fronted DEF IInv, SavedInv, Restore
  <2>2. fds' = IF e.tag = "open" THEN Without(fds, {e.fd}) ELSE fds
    BY DEF Restore
  <2> HIDE DEF e, n
  <2>3. d \in DOMAIN fds
    BY HeldOpen
  <2>4. e.tag = "open" => d # e.fd
    BY <2>1, HeldByOne
  <2> QED
    BY <2>2, <2>3, <2>4 DEF Without
<1>9. Mine(t)
  BY <1>1, <1>2, <1>4, <1>8 DEF Mine, ChildInv
<1> QED
  BY <1>6, <1>7, <1>9, MineStep DEF CallOK

(***************************************************************************)
(* Actions of the list that go well.                                       *)
(***************************************************************************)

\* What ChildInv says once action w[t].i is done.
NextWalk(t) ==
  LET acts == Before(list[t], w[t].i + 1)
  IN  /\ w'[t].cwd \subseteq PathSet
      /\ Follows(table, list[t], w[t].i, w'[t].pairs, w'[t].cwd, fds')
      /\ Sources(w'[t].pairs) \subseteq Held(t)'
      /\ Targets(w'[t].pairs) \subseteq Redirected(acts)
      /\ \A k \in DOMAIN w'[t].saved :
           w'[t].saved[k].tag = "close" => w'[t].saved[k].fd \in Closed(acts)
      /\ w[t].alone => Closed(acts) \subseteq cloexec'

LEMMA NoteCall ==
  ASSUME IInv, ChildInv, NEW t \in Threads, NEW x, Note(t, x), Form(x),
         pc[t] \in {"apply", "mark"}, w[t].i \in DOMAIN list[t],
         x.i = w[t].i, x.given = w[t].given, x.noinherit = w[t].noinherit,
         x.std = w[t].std, x.alone = w[t].alone, x.err = w[t].err,
         x.cwd = {} \/ \E c \in x.cwd : x.cwd = {c},
         UNCHANGED <<table, list, ret, child>>,
         \A u \in Threads \ {t} : \A d \in Held(u) : fds'[d] = fds[d],
         Following(t) => NextWalk(t)
  PROVE  ChildInv'
<1>1. /\ pc'[t] = "apply" /\ w'[t].i = w[t].i + 1 /\ w'[t].cwd = x.cwd
      /\ w'[t].given = w[t].given /\ w'[t].noinherit = w[t].noinherit
      /\ w'[t].std = w[t].std /\ w'[t].alone = w[t].alone /\ w'[t].err = w[t].err
      /\ \A u \in Threads \ {t} : w'[u] = w[u] /\ pc'[u] = pc[u]
  BY NoteIs
<1>2. CallOK(t) /\ Busy(t) /\ pc[t] # "idle"
  BY DEF ChildInv, Busy
<1>3. w[t].i \in Nat /\ w[t].i >= 1 /\ w[t].i + 1 >= 1 /\ w[t].i + 1 - 1 = w[t].i
  <2>1. w[t].i \in Nat /\ w[t].i >= 1
    BY Locals
  <2> QED
    BY <2>1
<1>4. AloneOK(t)'
  BY <1>1, <1>2 DEF CallOK, AloneOK
<1>5. PlaceOK(t)'
  BY <1>1, <1>2, <1>3 DEF CallOK, PlaceOK, Busy
<1>6. WalkOK(t)'
  <2> SUFFICES ASSUME Following(t)'
               PROVE  /\ w'[t].cwd \subseteq PathSet
                      /\ Follows(table, list[t], w[t].i, w'[t].pairs, w'[t].cwd, fds')
                      /\ PairsDone(t)' /\ FlagsDone(t)'
    BY <1>1, <1>3 DEF WalkOK
  <2>1. NextWalk(t)
    BY <1>1 DEF Following
  <2>2. Done(t)' = Before(list[t], w[t].i + 1)
    BY <1>1 DEF Done
  <2>3. PairsDone(t)'
    BY <1>1, <2>1, <2>2 DEF PairsDone, NextWalk
  <2>4. FlagsDone(t)'
    BY <1>1, <2>1, <2>2 DEF FlagsDone, NextWalk
  <2> QED
    BY <2>1, <2>3, <2>4 DEF NextWalk
<1>7. ResultOK(t)'
  BY <1>1 DEF ResultOK
<1>8. Mine(t)
  BY <1>1, <1>2 DEF Mine, ChildInv
<1> QED
  BY <1>4, <1>5, <1>6, <1>7, <1>8, MineStep DEF CallOK

\* What is known before it.
LEMMA BeforeAction ==
  ASSUME IInv, ChildInv, NEW t \in Threads, pc[t] \in {"apply", "mark"}, Following(t),
         w[t].i \in DOMAIN list[t]
  PROVE  /\ list[t] \in Seq(AllActions) /\ w[t].i \in Nat \ {0} /\ table \in Tables
         /\ Straight(table, list[t])
         /\ w[t].cwd \subseteq PathSet /\ (w[t].cwd = {} \/ \E c \in w[t].cwd : w[t].cwd = {c})
         /\ Follows(table, list[t], w[t].i - 1, w[t].pairs, w[t].cwd, fds)
         /\ Sources(w[t].pairs) \subseteq Held(t) /\ Held(t) \subseteq DOMAIN fds
         /\ Targets(w[t].pairs) \subseteq Redirected(Done(t))
         /\ \A k \in DOMAIN w[t].saved :
              w[t].saved[k].tag = "close" => w[t].saved[k].fd \in Closed(Done(t))
         /\ w[t].alone => Closed(Done(t)) \subseteq cloexec
         /\ w[t].pairs \in Seq(Pairs) /\ w[t].saved \in Seq(Entries)
         /\ \A d \in DOMAIN table.fds : d \in DOMAIN fds /\ fds[d] = table.fds[d]
<1>1. Busy(t) /\ CallOK(t) /\ w[t].std = {} /\ Straight(table, list[t])
  BY DEF Busy, ChildInv, Following
<1>2. /\ w[t].cwd \subseteq PathSet
      /\ Follows(table, list[t], w[t].i - 1, w[t].pairs, w[t].cwd, fds)
      /\ PairsDone(t) /\ FlagsDone(t)
  BY <1>1 DEF CallOK, WalkOK
<1>3. w[t].cwd = {} \/ \E c \in w[t].cwd : w[t].cwd = {c}
  BY <1>1 DEF CallOK, PlaceOK
<1>4. table \in Tables /\ \A d \in DOMAIN table.fds : d \in DOMAIN fds /\ fds[d] = table.fds[d]
  BY DEF IInv, TypeInv, TableInv
<1>5. w[t].i \in Nat \ {0}
  <2>1. w[t].i \in Nat /\ w[t].i >= 1
    BY Locals
  <2> QED
    BY <2>1
<1> QED
  BY <1>1, <1>2, <1>3, <1>4, <1>5, Locals, HeldOpen DEF PairsDone, FlagsDone

\* The paths of actions.
LEMMA ActionPath ==
  ASSUME IInv, NEW t \in Threads, w[t].i \in DOMAIN list[t], HasPath(Action(t))
  PROVE  Action(t).path \in PathSet
<1>1. Action(t) \in AllActions
  BY Locals, ElementOfSeq DEF Action
<1>2. Action(t).path \in PathsOfActions
  BY <1>1 DEF PathsOfActions
<1> QED
  BY <1>2, PosixSpawnAssumption DEF PathSet

\* Saved entries with one more.
LEMMA HeldMore ==
  ASSUME IInv, NEW t \in Threads, NEW e \in Entries, table' = table,
         w'[t].saved = Append(w[t].saved, e)
  PROVE  /\ Held(t) \subseteq Held(t)' /\ (e.tag = "open" => e.fd \in Held(t)')
         /\ \A k \in DOMAIN w'[t].saved :
              (k \in DOMAIN w[t].saved /\ w'[t].saved[k] = w[t].saved[k]) \/ w'[t].saved[k] = e
<1> DEFINE s == w[t].saved
           q == w'[t].saved
           n == Len(s) + 1
<1>1. /\ \A k \in DOMAIN s : k \in DOMAIN q /\ q[k] = s[k]
      /\ n \in DOMAIN q /\ q[n] = e
      /\ \A k \in DOMAIN q : k \in DOMAIN s \/ k = n
  BY Locals, Appended
<1> HIDE DEF n
<1> QED
  BY <1>1 DEF Held

\* One field of the locals is set.
LEMMA SavedSet ==
  ASSUME NEW x, Form(x), NEW v, NEW y, y = [x EXCEPT !.saved = v]
  PROVE  /\ Form(y) /\ y.i = x.i /\ y.pairs = x.pairs /\ y.cwd = x.cwd /\ y.saved = v
         /\ y.given = x.given /\ y.noinherit = x.noinherit /\ y.std = x.std
         /\ y.alone = x.alone /\ y.err = x.err
BY DEF Form

LEMMA PairsSet ==
  ASSUME NEW x, Form(x), NEW v, NEW y, y = [x EXCEPT !.pairs = v]
  PROVE  /\ Form(y) /\ y.i = x.i /\ y.pairs = v /\ y.cwd = x.cwd /\ y.saved = x.saved
         /\ y.given = x.given /\ y.noinherit = x.noinherit /\ y.std = x.std
         /\ y.alone = x.alone /\ y.err = x.err
BY DEF Form

LEMMA CwdSet ==
  ASSUME NEW x, Form(x), NEW v, NEW y, y = [x EXCEPT !.cwd = v]
  PROVE  /\ Form(y) /\ y.i = x.i /\ y.pairs = x.pairs /\ y.cwd = v /\ y.saved = x.saved
         /\ y.given = x.given /\ y.noinherit = x.noinherit /\ y.std = x.std
         /\ y.alone = x.alone /\ y.err = x.err
BY DEF Form

LEMMA DoCloseCall ==
  ASSUME IInv, ChildInv, NEW t \in Threads, DoClose(t)
  PROVE  ChildInv'
<1> DEFINE fd == Action(t).fd
           work == Push(t, NotMine)
<1>1. UNCHANGED <<table, list, ret, child>> /\ fds' = fds /\ cloexec' = cloexec
  BY DEF DoClose
<1>2. /\ pc[t] = "apply" /\ w[t].i \in DOMAIN list[t] /\ Action(t).tag = "close" /\ Busy(t)
  BY AtFacts DEF DoClose, Busy
<1>3. CASE Fail(t, "EINVAL")
  BY <1>1, <1>2, <1>3, FailCall
<1>4. CASE Goto(t, "mark") /\ w' = w
  BY <1>1, <1>2, <1>4, GotoCall
<1>5. CASE fd \in cloexec /\ Note(t, work)
  <2>1. /\ Form(work) /\ work.i = w[t].i /\ work.pairs = w[t].pairs /\ work.cwd = w[t].cwd
        /\ work.saved = Append(w[t].saved, NotMine) /\ work.given = w[t].given
        /\ work.noinherit = w[t].noinherit /\ work.std = w[t].std
        /\ work.alone = w[t].alone /\ work.err = w[t].err
    <3> DEFINE v == Append(w[t].saved, NotMine)
    <3>1. Form(w[t]) /\ work = [w[t] EXCEPT !.saved = v]
      BY Locals DEF Push
    <3> HIDE DEF v, work
    <3>2. /\ Form(work) /\ work.i = w[t].i /\ work.pairs = w[t].pairs /\ work.cwd = w[t].cwd
          /\ work.saved = v /\ work.given = w[t].given
          /\ work.noinherit = w[t].noinherit /\ work.std = w[t].std
          /\ work.alone = w[t].alone /\ work.err = w[t].err
      BY <3>1, SavedSet
    <3> QED
      BY <3>2 DEF v
  <2> HIDE DEF work
  <2>2. w'[t].pairs = w[t].pairs /\ w'[t].cwd = w[t].cwd /\ w'[t].saved = Append(w[t].saved, NotMine)
    BY <1>5, <2>1, NoteIs
  <2>3. NotMine \in Entries /\ NotMine.tag = "none"
    BY DEF NotMine, Entries
  <2>4. /\ Held(t) \subseteq Held(t)'
        /\ \A k \in DOMAIN w'[t].saved :
             w'[t].saved[k].tag = "close" => k \in DOMAIN w[t].saved /\ w'[t].saved[k] = w[t].saved[k]
    BY <1>1, <2>2, <2>3, HeldMore
  <2>5. ASSUME Following(t) PROVE NextWalk(t)
    <3>1. /\ Follows(table, list[t], w[t].i, w[t].pairs, w[t].cwd, fds)
          /\ w[t].i \in Nat \ {0}
      BY <1>2, <2>5, BeforeAction, FollowsClose DEF Action
    <3>2. /\ Redirected(Before(list[t], w[t].i + 1)) = Redirected(Done(t))
          /\ Closed(Before(list[t], w[t].i + 1)) = Closed(Done(t)) \cup {fd}
      BY <1>2, <3>1, OneMoreDone DEF Done, Action
    <3>3. /\ w[t].cwd \subseteq PathSet
          /\ Sources(w[t].pairs) \subseteq Held(t)
          /\ Targets(w[t].pairs) \subseteq Redirected(Done(t))
          /\ \A k \in DOMAIN w[t].saved :
               w[t].saved[k].tag = "close" => w[t].saved[k].fd \in Closed(Done(t))
          /\ w[t].alone => Closed(Done(t)) \subseteq cloexec
      BY <1>2, <2>5, BeforeAction
    <3> HIDE DEF fd
    <3> QED
      BY <1>1, <1>5, <2>2, <2>4, <3>1, <3>2, <3>3 DEF NextWalk
  <2>6. work.cwd = {} \/ \E c \in work.cwd : work.cwd = {c}
    BY <1>2, <2>1 DEF ChildInv, CallOK, PlaceOK
  <2> QED
    BY <1>1, <1>2, <1>5, <2>1, <2>5, <2>6, NoteCall
<1> QED
  BY <1>3, <1>4, <1>5 DEF DoClose

LEMMA MarkCloseCall ==
  ASSUME IInv, ChildInv, NEW t \in Threads, MarkClose(t)
  PROVE  ChildInv'
<1> DEFINE fd == Action(t).fd
           work == Push(t, SavedFlag(fd))
<1>1. UNCHANGED <<table, list, ret, child>> /\ fds' = fds /\ pc[t] = "mark"
  BY DEF MarkClose
<1>2. /\ w[t].i \in DOMAIN list[t] /\ Action(t).tag = "close" /\ fd \in DOMAIN fds /\ Busy(t)
      /\ fd \in Fds
  BY <1>1 DEF IInv, MarkInv, TableInv, Action, Busy
<1>3. Note(t, work) /\ cloexec' = cloexec \cup {fd}
  BY <1>2 DEF MarkClose
<1> HIDE DEF fd
<1>4. /\ Form(work) /\ work.i = w[t].i /\ work.pairs = w[t].pairs /\ work.cwd = w[t].cwd
      /\ work.saved = Append(w[t].saved, SavedFlag(fd)) /\ work.given = w[t].given
      /\ work.noinherit = w[t].noinherit /\ work.std = w[t].std
      /\ work.alone = w[t].alone /\ work.err = w[t].err
  <2> DEFINE v == Append(w[t].saved, SavedFlag(fd))
  <2>1. Form(w[t]) /\ work = [w[t] EXCEPT !.saved = v]
    BY Locals DEF Push
  <2> HIDE DEF v, work
  <2>2. /\ Form(work) /\ work.i = w[t].i /\ work.pairs = w[t].pairs /\ work.cwd = w[t].cwd
        /\ work.saved = v /\ work.given = w[t].given
        /\ work.noinherit = w[t].noinherit /\ work.std = w[t].std
        /\ work.alone = w[t].alone /\ work.err = w[t].err
    BY <2>1, SavedSet
  <2> QED
    BY <2>2 DEF v
<1> HIDE DEF work
<1>5. w'[t].pairs = w[t].pairs /\ w'[t].cwd = w[t].cwd
      /\ w'[t].saved = Append(w[t].saved, SavedFlag(fd))
  BY <1>3, <1>4, NoteIs
<1>6. SavedFlag(fd) \in Entries /\ SavedFlag(fd).fd = fd
  BY <1>2 DEF SavedFlag, Entries
<1>7. /\ Held(t) \subseteq Held(t)'
      /\ \A k \in DOMAIN w'[t].saved :
           (k \in DOMAIN w[t].saved /\ w'[t].saved[k] = w[t].saved[k]) \/ w'[t].saved[k].fd = fd
  BY <1>1, <1>5, <1>6, HeldMore
<1>8. ASSUME Following(t) PROVE NextWalk(t)
  <3>1. /\ Follows(table, list[t], w[t].i, w[t].pairs, w[t].cwd, fds)
        /\ w[t].i \in Nat \ {0}
    BY <1>1, <1>2, <1>8, BeforeAction, FollowsClose DEF Action
  <3>2. /\ Redirected(Before(list[t], w[t].i + 1)) = Redirected(Done(t))
        /\ Closed(Before(list[t], w[t].i + 1)) = Closed(Done(t)) \cup {fd}
    BY <1>2, <3>1, OneMoreDone DEF Done, Action, fd
  <3>3. /\ w[t].cwd \subseteq PathSet
        /\ Sources(w[t].pairs) \subseteq Held(t)
        /\ Targets(w[t].pairs) \subseteq Redirected(Done(t))
        /\ \A k \in DOMAIN w[t].saved :
             w[t].saved[k].tag = "close" => w[t].saved[k].fd \in Closed(Done(t))
        /\ w[t].alone => Closed(Done(t)) \subseteq cloexec
    BY <1>1, <1>2, <1>8, BeforeAction
  <3>4. \A k \in DOMAIN w'[t].saved :
          w'[t].saved[k].tag = "close" => w'[t].saved[k].fd \in Closed(Done(t)) \cup {fd}
    BY <1>7, <3>3
  <3> QED
    BY <1>1, <1>3, <1>5, <1>7, <3>1, <3>2, <3>3, <3>4 DEF NextWalk
<1>9. work.cwd = {} \/ \E c \in work.cwd : work.cwd = {c}
  BY <1>1, <1>2, <1>4 DEF ChildInv, CallOK, PlaceOK
<1> QED
  BY <1>1, <1>2, <1>3, <1>4, <1>8, <1>9, NoteCall

\* Pairs with one more.
LEMMA PairMore ==
  ASSUME NEW p \in Seq(Pairs), NEW s \in Fds, NEW e \in Fds
  PROVE  /\ Sources(Append(p, <<s, e>>)) = Sources(p) \cup {s}
         /\ Targets(Append(p, <<s, e>>)) = Targets(p) \cup {e}
<1> DEFINE q == Append(p, <<s, e>>)
           n == Len(p) + 1
<1>1. <<s, e>> \in Pairs
  BY DEF Pairs
<1>2. /\ \A k \in DOMAIN p : k \in DOMAIN q /\ q[k] = p[k]
      /\ n \in DOMAIN q /\ q[n] = <<s, e>>
      /\ \A k \in DOMAIN q : k \in DOMAIN p \/ k = n
  BY <1>1, Appended
<1> HIDE DEF n, q
<1>3. Sources(q) = Sources(p) \cup {s} /\ Targets(q) = Targets(p) \cup {e}
  BY <1>2 DEF Sources, Targets
<1> QED
  BY <1>3 DEF q

LEMMA DoDup2Call ==
  ASSUME IInv, ChildInv, NEW t \in Threads, DoDup2(t)
  PROVE  ChildInv'
<1> DEFINE a == Action(t)
           q == Append(w[t].pairs, <<a.fd, a.newfd>>)
           work == [w[t] EXCEPT !.pairs = q]
<1>1. UNCHANGED <<table, list, ret, child>> /\ fds' = fds /\ cloexec' = cloexec
  BY DEF DoDup2
<1>2. /\ pc[t] = "apply" /\ w[t].i \in DOMAIN list[t] /\ a.tag = "dup2"
      /\ FdsOf(a) \subseteq Fds
  BY AtFacts DEF DoDup2
<1>3. a.fd \in Fds /\ a.newfd \in Fds
  BY <1>2 DEF FdsOf
<1>4. CASE Fail(t, "EINVAL")
  BY <1>1, <1>2, <1>4, FailCall
<1>5. CASE Note(t, work)
  <2>1. Form(w[t])
    BY Locals
  <2> HIDE DEF q
  <2>2. /\ Form(work) /\ work.i = w[t].i /\ work.pairs = q /\ work.cwd = w[t].cwd
        /\ work.saved = w[t].saved /\ work.given = w[t].given
        /\ work.noinherit = w[t].noinherit /\ work.std = w[t].std
        /\ work.alone = w[t].alone /\ work.err = w[t].err
    BY <2>1, PairsSet
  <2> HIDE DEF work
  <2>3. w'[t].pairs = q /\ w'[t].cwd = w[t].cwd /\ w'[t].saved = w[t].saved
    BY <1>5, <2>2, NoteIs
  <2>4. ASSUME Following(t) PROVE NextWalk(t)
    <3>1. /\ list[t] \in Seq(AllActions) /\ w[t].i \in Nat \ {0}
          /\ Straight(table, list[t]) /\ w[t].pairs \in Seq(Pairs)
          /\ Follows(table, list[t], w[t].i - 1, w[t].pairs, w[t].cwd, fds)
          /\ \A d \in DOMAIN table.fds : fds[d] = table.fds[d]
          /\ w[t].cwd \subseteq PathSet
          /\ Sources(w[t].pairs) \subseteq Held(t)
          /\ Targets(w[t].pairs) \subseteq Redirected(Done(t))
          /\ \A k \in DOMAIN w[t].saved :
               w[t].saved[k].tag = "close" => w[t].saved[k].fd \in Closed(Done(t))
          /\ w[t].alone => Closed(Done(t)) \subseteq cloexec
      BY <1>2, <2>4, BeforeAction
    <3>2. Follows(table, list[t], w[t].i, q, w[t].cwd, fds)
      BY <1>2, <1>3, <3>1, FollowsDup2 DEF Action, q
    <3>3. a.fd \in DOMAIN table.fds
      BY <1>2, <3>1 DEF Straight, Action
    <3>4. /\ Redirected(Before(list[t], w[t].i + 1)) = Redirected(Done(t)) \cup {a.newfd}
          /\ Closed(Before(list[t], w[t].i + 1)) = Closed(Done(t))
      BY <1>2, <3>1, OneMoreDone DEF Done, Action
    <3>5. Sources(q) = Sources(w[t].pairs) \cup {a.fd}
          /\ Targets(q) = Targets(w[t].pairs) \cup {a.newfd}
      BY <1>3, <3>1, PairMore DEF q
    <3>6. Held(t)' = Held(t) /\ a.fd \in Held(t)
      BY <1>1, <2>3, <3>3 DEF Held
    <3> HIDE DEF a
    <3> QED
      BY <1>1, <2>3, <3>1, <3>2, <3>4, <3>5, <3>6 DEF NextWalk
  <2>5. work.cwd = {} \/ \E c \in work.cwd : work.cwd = {c}
    <3>1. PlaceOK(t) /\ Busy(t) /\ w[t].std = {}
      BY <1>2 DEF ChildInv, CallOK, PlaceOK, Busy
    <3> QED
      BY <2>2, <3>1 DEF PlaceOK
  <2> QED
    BY <1>1, <1>2, <1>5, <2>2, <2>4, <2>5, NoteCall
<1> QED
  BY <1>4, <1>5 DEF DoDup2

LEMMA DoOpenCall ==
  ASSUME IInv, ChildInv, NEW t \in Threads, DoOpen(t)
  PROVE  ChildInv'
<1> DEFINE a    == Action(t)
           file == Resolve(Home, Merged(w[t].cwd, a.path))
           free == Fds \ DOMAIN fds
           fd   == Lowest(free)
           q    == Append(w[t].pairs, <<fd, a.fd>>)
           v    == Append(w[t].saved, SavedOpen(fd))
           y    == [w[t] EXCEPT !.saved = v]
           work == [y EXCEPT !.pairs = q]
<1>1. UNCHANGED <<table, list, ret, child>>
  BY DEF DoOpen
<1>2. /\ pc[t] = "apply" /\ w[t].i \in DOMAIN list[t] /\ a.tag = "open"
      /\ FdsOf(a) \subseteq Fds /\ a.fd \in Fds
  BY AtFacts DEF DoOpen, FdsOf
<1>3. CASE ~(file \in Existing /\ free # {})
  <2>1. Fail(t, "EINVAL") /\ fds' = fds
    BY <1>3 DEF DoOpen
  <2> QED
    BY <1>1, <1>2, <2>1, FailCall
<1>4. CASE file \in Existing /\ free # {}
  <2>1. /\ fds' = With(fds, fd, file) /\ cloexec' = cloexec \cup {fd}
        /\ Note(t, [Push(t, SavedOpen(fd)) EXCEPT !.pairs = Append(@, <<fd, a.fd>>)])
    BY <1>4 DEF DoOpen
  <2>2. Form(w[t])
    BY Locals
  <2>3. fd \in free
    <3>1. free \in SUBSET Nat
      BY PosixSpawnAssumption DEF Fds
    <3> QED
      BY <1>4, <3>1, LowestIs
  <2>a. Push(t, SavedOpen(fd)).pairs = w[t].pairs
    BY <2>2 DEF Form, Push
  <2>b. Note(t, work)
    BY <2>1, <2>a DEF Push
  <2>4. file \in Existing
    BY <1>4
  <2> HIDE DEF fd, file, q, v
  <2>5. /\ Form(y) /\ y.i = w[t].i /\ y.pairs = w[t].pairs /\ y.cwd = w[t].cwd
        /\ y.saved = v /\ y.given = w[t].given
        /\ y.noinherit = w[t].noinherit /\ y.std = w[t].std
        /\ y.alone = w[t].alone /\ y.err = w[t].err
    BY <2>2, SavedSet
  <2> HIDE DEF y
  <2>6. /\ Form(work) /\ work.i = y.i /\ work.pairs = q /\ work.cwd = y.cwd
        /\ work.saved = y.saved /\ work.given = y.given
        /\ work.noinherit = y.noinherit /\ work.std = y.std
        /\ work.alone = y.alone /\ work.err = y.err
    BY <2>5, PairsSet
  <2> HIDE DEF work
  <2>7. w'[t].pairs = q /\ w'[t].cwd = w[t].cwd /\ w'[t].saved = v
    BY <2>b, <2>5, <2>6, NoteIs
  <2>8. /\ \A d \in DOMAIN fds : fds'[d] = fds[d]
        /\ fds'[fd] = file
    BY <2>1, <2>3 DEF With
  <2>9. SavedOpen(fd) \in Entries /\ SavedOpen(fd).tag = "open" /\ SavedOpen(fd).fd = fd
    BY <2>3 DEF SavedOpen, Entries
  <2>10. /\ Held(t) \subseteq Held(t)' /\ fd \in Held(t)'
         /\ \A k \in DOMAIN w'[t].saved :
              w'[t].saved[k].tag = "close" => k \in DOMAIN w[t].saved /\ w'[t].saved[k] = w[t].saved[k]
    BY <1>1, <2>7, <2>9, HeldMore DEF v
  <2>11. ASSUME Following(t) PROVE NextWalk(t)
    <3>1. /\ list[t] \in Seq(AllActions) /\ w[t].i \in Nat \ {0}
          /\ Straight(table, list[t]) /\ w[t].pairs \in Seq(Pairs)
          /\ Follows(table, list[t], w[t].i - 1, w[t].pairs, w[t].cwd, fds)
          /\ w[t].cwd \subseteq PathSet
          /\ w[t].cwd = {} \/ \E c \in w[t].cwd : w[t].cwd = {c}
          /\ Sources(w[t].pairs) \subseteq Held(t) /\ Held(t) \subseteq DOMAIN fds
          /\ Targets(w[t].pairs) \subseteq Redirected(Done(t))
          /\ \A k \in DOMAIN w[t].saved :
               w[t].saved[k].tag = "close" => w[t].saved[k].fd \in Closed(Done(t))
          /\ w[t].alone => Closed(Done(t)) \subseteq cloexec
      BY <1>2, <2>11, BeforeAction
    <3>2. a.path \in PathSet
      BY <1>2, ActionPath DEF HasPath
    <3>3. file = Resolve(Dir(w[t].cwd), a.path)
      BY <3>1, <3>2, MergedIs DEF file
    <3>4. \A k \in DOMAIN w[t].pairs : fds'[w[t].pairs[k][1]] = fds[w[t].pairs[k][1]]
      BY <2>8, <3>1 DEF Sources
    <3>5. /\ fds'[fd] = Resolve(Dir(w[t].cwd), list[t][w[t].i].path)
          /\ Resolve(Dir(w[t].cwd), list[t][w[t].i].path) \in Existing
          /\ fd \in Fds /\ list[t][w[t].i].fd \in Fds /\ list[t][w[t].i].tag = "open"
      BY <1>2, <2>3, <2>4, <2>8, <3>3 DEF Action
    <3>6. Follows(table, list[t], w[t].i, Append(w[t].pairs, <<fd, list[t][w[t].i].fd>>),
                  w[t].cwd, fds')
      BY <1>2, <3>1, <3>4, <3>5, FollowsOpen
    <3>7. /\ Redirected(Before(list[t], w[t].i + 1)) = Redirected(Done(t)) \cup {a.fd}
          /\ Closed(Before(list[t], w[t].i + 1)) = Closed(Done(t))
      BY <1>2, <3>1, OneMoreDone DEF Done, Action
    <3>8. Sources(q) = Sources(w[t].pairs) \cup {fd} /\ Targets(q) = Targets(w[t].pairs) \cup {a.fd}
      BY <1>2, <2>3, <3>1, PairMore DEF q
    <3>9. Follows(table, list[t], w[t].i, q, w[t].cwd, fds')
      BY <3>6 DEF q, Action
    <3> HIDE DEF a
    <3> QED
      BY <2>1, <2>7, <2>10, <3>1, <3>7, <3>8, <3>9 DEF NextWalk
  <2>12. work.cwd = {} \/ \E c \in work.cwd : work.cwd = {c}
    <3>1. PlaceOK(t) /\ Busy(t) /\ w[t].std = {}
      BY <1>2 DEF ChildInv, CallOK, PlaceOK, Busy
    <3> QED
      BY <2>5, <2>6, <3>1 DEF PlaceOK
  <2>13. \A u \in Threads \ {t} : \A d \in Held(u) : fds'[d] = fds[d]
    BY <2>8, HeldOpen
  <2>14. /\ work.i = w[t].i /\ work.given = w[t].given /\ work.noinherit = w[t].noinherit
         /\ work.std = w[t].std /\ work.alone = w[t].alone /\ work.err = w[t].err
    BY <2>5, <2>6
  <2> QED
    BY <1>1, <1>2, <2>b, <2>6, <2>11, <2>12, <2>13, <2>14, NoteCall
<1> QED
  BY <1>3, <1>4

\* A directory is noted.
LEMMA CwdCall ==
  ASSUME IInv, ChildInv, NEW t \in Threads, NEW c, pc[t] = "apply", w[t].i \in DOMAIN list[t],
         Action(t).tag \in {"chdir", "fchdir"},
         Note(t, [w[t] EXCEPT !.cwd = {c}]),
         UNCHANGED <<table, list, ret, child>>, fds' = fds, cloexec' = cloexec,
         Following(t) => c \in PathSet /\ Dir({c}) = DirAfter(table, list[t])[w[t].i]
  PROVE  ChildInv'
<1> DEFINE e == {c}
           work == [w[t] EXCEPT !.cwd = e]
<1>1. Form(w[t]) /\ Note(t, work)
  BY Locals
<1>2. \E x \in e : e = {x}
  OBVIOUS
<1>3. Following(t) => e \subseteq PathSet /\ Dir(e) = DirAfter(table, list[t])[w[t].i]
  OBVIOUS
<1> HIDE DEF e
<1>4. /\ Form(work) /\ work.i = w[t].i /\ work.pairs = w[t].pairs /\ work.cwd = e
      /\ work.saved = w[t].saved /\ work.given = w[t].given
      /\ work.noinherit = w[t].noinherit /\ work.std = w[t].std
      /\ work.alone = w[t].alone /\ work.err = w[t].err
  BY <1>1, CwdSet
<1> HIDE DEF work
<1>5. w'[t].pairs = w[t].pairs /\ w'[t].cwd = e /\ w'[t].saved = w[t].saved
  BY <1>1, <1>4, NoteIs
<1>6. ASSUME Following(t) PROVE NextWalk(t)
  <2>1. /\ list[t] \in Seq(AllActions) /\ w[t].i \in Nat \ {0}
        /\ Straight(table, list[t])
        /\ Follows(table, list[t], w[t].i - 1, w[t].pairs, w[t].cwd, fds)
        /\ Sources(w[t].pairs) \subseteq Held(t)
        /\ Targets(w[t].pairs) \subseteq Redirected(Done(t))
        /\ \A k \in DOMAIN w[t].saved :
             w[t].saved[k].tag = "close" => w[t].saved[k].fd \in Closed(Done(t))
        /\ w[t].alone => Closed(Done(t)) \subseteq cloexec
    BY <1>6, BeforeAction
  <2>2. Follows(table, list[t], w[t].i, w[t].pairs, e, fds)
    BY <1>3, <1>6, <2>1, FollowsDir DEF Action
  <2>3. /\ Redirected(Before(list[t], w[t].i + 1)) = Redirected(Done(t))
        /\ Closed(Before(list[t], w[t].i + 1)) = Closed(Done(t))
    BY <2>1, OneMoreDone DEF Done, Action
  <2>4. Held(t)' = Held(t)
    BY <1>5 DEF Held
  <2> QED
    BY <1>3, <1>5, <1>6, <2>1, <2>2, <2>3, <2>4 DEF NextWalk
<1> QED
  BY <1>1, <1>2, <1>4, <1>6, NoteCall

LEMMA DoChdirCall ==
  ASSUME IInv, ChildInv, NEW t \in Threads, DoChdir(t)
  PROVE  ChildInv'
<1> DEFINE c == Merged(w[t].cwd, Action(t).path)
<1>1. /\ pc[t] = "apply" /\ w[t].i \in DOMAIN list[t] /\ Action(t).tag = "chdir"
  BY AtFacts DEF DoChdir
<1>2. Note(t, [w[t] EXCEPT !.cwd = {c}])
  BY DEF DoChdir
<1>3. ASSUME Following(t)
      PROVE  c \in PathSet /\ Dir({c}) = DirAfter(table, list[t])[w[t].i]
  <2>1. /\ list[t] \in Seq(AllActions) /\ Straight(table, list[t])
        /\ Follows(table, list[t], w[t].i - 1, w[t].pairs, w[t].cwd, fds)
        /\ w[t].cwd \subseteq PathSet
        /\ w[t].cwd = {} \/ \E x \in w[t].cwd : w[t].cwd = {x}
    BY <1>1, <1>3, BeforeAction
  <2>2. Action(t).path \in PathSet
    BY <1>1, ActionPath DEF HasPath
  <2>3. c \in PathSet /\ Resolve(Home, c) = Resolve(Dir(w[t].cwd), Action(t).path)
    BY <2>1, <2>2, MergedIs
  <2>4. AtAction(table, list[t], w[t].i, w[t].pairs, w[t].cwd, fds)
    BY <1>1, <2>1, FollowsAt
  <2>5. DirAfter(table, list[t])[w[t].i] = Resolve(Dir(w[t].cwd), Action(t).path)
    BY <1>1, <2>4 DEF AtAction, Moved, Action
  <2> HIDE DEF c
  <2>6. Dir({c}) = Resolve(Home, c)
    BY DEF Dir
  <2> QED
    BY <2>3, <2>5, <2>6
<1> HIDE DEF c
<1> QED
  BY <1>1, <1>2, <1>3, CwdCall DEF DoChdir

LEMMA DoFchdirCall ==
  ASSUME IInv, ChildInv, NEW t \in Threads, DoFchdir(t)
  PROVE  ChildInv'
<1> DEFINE fd == Action(t).fd
           c  == Abs(fds[fd])
<1>1. /\ pc[t] = "apply" /\ w[t].i \in DOMAIN list[t] /\ Action(t).tag = "fchdir"
  BY AtFacts DEF DoFchdir
<1>2. CASE Fail(t, "EINVAL")
  BY <1>1, <1>2, FailCall DEF DoFchdir
<1>3. CASE Note(t, [w[t] EXCEPT !.cwd = {c}])
  <2>1. ASSUME Following(t)
        PROVE  c \in PathSet /\ Dir({c}) = DirAfter(table, list[t])[w[t].i]
    <3>1. /\ list[t] \in Seq(AllActions) /\ Straight(table, list[t])
          /\ Follows(table, list[t], w[t].i - 1, w[t].pairs, w[t].cwd, fds)
          /\ \A d \in DOMAIN table.fds : fds[d] = table.fds[d]
      BY <1>1, <2>1, BeforeAction
    <3>2. AtAction(table, list[t], w[t].i, w[t].pairs, w[t].cwd, fds)
      BY <1>1, <3>1, FollowsAt
    <3>3. /\ fd \in DOMAIN table.fds /\ DirAfter(table, list[t])[w[t].i] = table.fds[fd]
          /\ DirAfter(table, list[t])[w[t].i] \in Dirs
      BY <1>1, <3>2 DEF AtAction, Moved, Action
    <3>4. fds[fd] = table.fds[fd] /\ fds[fd] \in Seq(Names)
      BY <3>1, <3>3, PosixSpawnAssumption
    <3>5. c \in PathSet /\ Resolve(Home, c) = fds[fd]
      BY <3>4 DEF PathSet, Abs, Resolve
    <3> HIDE DEF c, fd
    <3>6. Dir({c}) = Resolve(Home, c)
      BY DEF Dir
    <3> QED
      BY <3>3, <3>4, <3>5, <3>6
  <2> HIDE DEF c
  <2> QED
    BY <1>1, <1>3, <2>1, CwdCall DEF DoFchdir
<1> QED
  BY <1>2, <1>3 DEF DoFchdir

(***************************************************************************)
(* What is passed on, and the start of the child.                          *)
(***************************************************************************)
LEMMA ListedAll ==
  ASSUME NEW S, IsFiniteSet(S)
  PROVE  SetToSeq(S) \in Seq(S) /\ {SetToSeq(S)[k] : k \in DOMAIN SetToSeq(S)} = S
<1> DEFINE n == Cardinality(S)
           p == SetToSeq(S)
<1>1. PICK m \in Nat : ExistsBijection(1..m, S)
  BY FS_NatBijection
<1>2. n = m /\ n \in Nat
  BY <1>1, FS_CountingElements
<1>3. PICK f \in Bijection(1..m, S) : TRUE
  BY <1>1 DEF ExistsBijection
<1>4. f \in [1..n -> S] /\ IsInjective(f)
  BY <1>2, <1>3 DEF Bijection, Injection, IsInjective
<1>5. p \in [1..n -> S] /\ IsInjective(p)
  BY <1>4 DEF SetToSeq
<1> HIDE DEF p
<1>6. p \in Injection(1..n, S)
  BY <1>5 DEF Injection, IsInjective
<1>7. Cardinality(1..n) = n
  <2>1. 1 \in Int /\ n \in Int
    BY <1>2
  <2>2. Cardinality(1..n) = IF 1 > n THEN 0 ELSE n - 1 + 1
    BY <2>1, FS_Interval
  <2> HIDE DEF n
  <2> QED
    BY <1>2, <2>2
<1>8. p \in Surjection(1..n, S)
  BY <1>6, <1>7, FS_Injection
<1>9. {p[k] : k \in DOMAIN p} = S
  BY <1>5, <1>8 DEF Surjection
<1>10. p \in Seq(S)
  BY <1>2, <1>5
<1> QED
  BY <1>9, <1>10 DEF p

\* One pair for each descriptor that is passed on; they follow other pairs.
PassPairs(more, S) ==
  /\ more \in Seq(Pairs)
  /\ \A k \in DOMAIN more : \E d \in S : more[k] = <<d, d>>
  /\ \A d \in S : \E k \in DOMAIN more : more[k] = <<d, d>>
Continues(q, p, S) ==
  /\ q \in Seq(Pairs)
  /\ \A k \in DOMAIN p : k \in DOMAIN q /\ q[k] = p[k]
  /\ \A k \in DOMAIN q : k \in DOMAIN p \/ \E d \in S : q[k] = <<d, d>>
  /\ \A d \in S : \E k \in DOMAIN q : q[k] = <<d, d>>

LEMMA PassedPairs ==
  ASSUME NEW S \in SUBSET Fds
  PROVE  LET pass == SetToSeq(S)
         IN  PassPairs([k \in DOMAIN pass |-> <<pass[k], pass[k]>>], S)
<1> DEFINE pass == SetToSeq(S)
           more == [k \in DOMAIN pass |-> <<pass[k], pass[k]>>]
<1>1. IsFiniteSet(S)
  <2>1. MaxFd \in Int /\ 0 \in Int
    BY PosixSpawnAssumption
  <2>2. IsFiniteSet(Fds)
    BY <2>1, FS_Interval DEF Fds
  <2> QED
    BY <2>2, FS_Subset
<1>2. pass \in Seq(S) /\ {pass[k] : k \in DOMAIN pass} = S
  BY <1>1, ListedAll
<1> HIDE DEF pass
<1>3. pass \in [1..Len(pass) -> S] /\ Len(pass) \in Nat /\ DOMAIN pass = 1..Len(pass)
  BY <1>2, LenProperties, ElementOfSeq
<1>4. more \in Seq(Pairs)
  <2>1. more \in [1..Len(pass) -> Pairs]
    BY <1>3 DEF Pairs
  <2> QED
    BY <1>3, <2>1
<1>5. ASSUME NEW k \in DOMAIN more PROVE \E d \in S : more[k] = <<d, d>>
  BY <1>2
<1>6. ASSUME NEW d \in S PROVE \E k \in DOMAIN more : more[k] = <<d, d>>
  BY <1>2
<1> QED
  BY <1>4, <1>5, <1>6 DEF PassPairs, pass

LEMMA PairsPassed ==
  ASSUME NEW p \in Seq(Pairs), NEW S, NEW more, PassPairs(more, S)
  PROVE  Continues(p \o more, p, S)
<1> DEFINE m == Len(p)
           n == Len(more)
           q == p \o more
<1>0. /\ more \in Seq(Pairs)
      /\ \A k \in DOMAIN more : \E d \in S : more[k] = <<d, d>>
      /\ \A d \in S : \E k \in DOMAIN more : more[k] = <<d, d>>
  BY DEF PassPairs
<1>1. /\ q \in Seq(Pairs) /\ Len(q) = m + n
      /\ \A i \in 1..(m + n) : q[i] = IF i <= m THEN p[i] ELSE more[i - m]
  BY <1>0, ConcatProperties
<1>2. m \in Nat /\ n \in Nat /\ DOMAIN p = 1..m /\ DOMAIN more = 1..n /\ DOMAIN q = 1..(m + n)
  BY <1>0, <1>1, LenProperties
<1> HIDE DEF m, n, q
<1>3. ASSUME NEW k \in DOMAIN p PROVE k \in DOMAIN q /\ q[k] = p[k]
  BY <1>1, <1>2
<1>4. ASSUME NEW k \in DOMAIN q, k \notin DOMAIN p PROVE \E d \in S : q[k] = <<d, d>>
  <2>1. k \in 1..(m + n) /\ k \notin 1..m
    BY <1>2, <1>4
  <2>2. ~(k <= m) /\ k - m \in 1..n
    BY <1>2, <2>1
  <2>3. q[k] = more[k - m]
    BY <1>1, <2>1, <2>2
  <2> QED
    BY <1>0, <1>2, <2>2, <2>3
<1>5. ASSUME NEW d \in S PROVE \E k \in DOMAIN q : q[k] = <<d, d>>
  <2>1. PICK j \in DOMAIN more : more[j] = <<d, d>>
    BY <1>0
  <2>2. j \in 1..n /\ j + m \in 1..(m + n) /\ ~(j + m <= m) /\ j + m - m = j
    BY <1>2
  <2>3. j + m \in DOMAIN q /\ q[j + m] = more[j]
    BY <1>1, <1>2, <2>2
  <2> QED
    BY <2>1, <2>3
<1> QED
  BY <1>1, <1>3, <1>4, <1>5 DEF Continues, q

\* Each target has a last pair.
LEMMA LastExists ==
  ASSUME NEW p \in Seq(Pairs), NEW d \in Targets(p)
  PROVE  \E k \in DOMAIN p : LastAt(p, d, k)
<1> DEFINE n == Len(p)
           S == {m \in Nat : m <= n /\ n - m \in DOMAIN p /\ p[n - m][2] = d}
<1>1. n \in Nat /\ DOMAIN p = 1..n
  BY LenProperties
<1>2. PICK k0 \in DOMAIN p : p[k0][2] = d
  BY DEF Targets
<1> HIDE DEF n
<1>3. n - k0 \in S
  <2>1. k0 \in 1..n /\ n - k0 \in Nat /\ n - k0 <= n /\ n - (n - k0) = k0
    BY <1>1
  <2> QED
    BY <1>2, <2>1
<1>4. PICK m \in S : \A y \in S : m <= y
  BY <1>3, Least
<1>5. n - m \in DOMAIN p /\ p[n - m][2] = d
  OBVIOUS
<1>6. ASSUME NEW j \in DOMAIN p, j > n - m PROVE p[j][2] # d
  <2>1. j \in 1..n /\ n - j \in Nat /\ n - j <= n /\ n - (n - j) = j /\ ~(m <= n - j)
    BY <1>1, <1>6
  <2> QED
    BY <1>4, <2>1
<1> QED
  BY <1>5, <1>6 DEF LastAt

\* Flags, when the call is alone: those of the program and those it set itself.
LEMMA AloneFlags ==
  ASSUME IInv, ChildInv, NEW t \in Threads, w[t].alone, pc[t] # "idle", FlagsDone(t)
  PROVE  \A d \in DOMAIN table.fds \ table.cloexec : d \in cloexec <=> d \in Closed(Done(t))
<1>1. ASSUME NEW d \in DOMAIN table.fds \ table.cloexec, d \in cloexec
      PROVE  d \in Closed(Done(t))
  <2>1. Undone("close", d)
    BY <1>1 DEF IInv, TableInv
  <2>2. PICK u \in Threads : \E k \in DOMAIN w[u].saved : w[u].saved[k] = [tag |-> "close", fd |-> d]
    BY <2>1 DEF Undone
  <2>3. PICK k \in DOMAIN w[u].saved : w[u].saved[k] = [tag |-> "close", fd |-> d]
    BY <2>2
  <2>4. u = t
    <3>1. SUFFICES ASSUME u # t PROVE FALSE
      OBVIOUS
    <3>2. pc[u] = "idle"
      BY <3>1 DEF ChildInv, CallOK, AloneOK
    <3>3. w[u].saved = <<>>
      BY <3>2 DEF IInv, SavedInv
    <3> QED
      BY <2>3, <3>3
  <2> QED
    BY <2>3, <2>4 DEF FlagsDone
<1> QED
  BY <1>1 DEF FlagsDone

LEMMA CollectCall ==
  ASSUME IInv, ChildInv, NEW t \in Threads, Collect(t)
  PROVE  ChildInv'
<1> DEFINE p    == w[t].pairs
           S    == PassedOn(p)
           pass == SetToSeq(S)
           more == [k \in DOMAIN pass |-> <<pass[k], pass[k]>>]
           q    == p \o more
           x    == [w[t] EXCEPT !.pairs = q]
<1>1. UNCHANGED <<table, list, ret, child>> /\ fds' = fds /\ cloexec' = cloexec /\ pc[t] = "collect"
  BY DEF Collect
<1>2. CASE Fail(t, "ENOMEM")
  BY <1>1, <1>2, FailCall
<1>3. CASE w' = [w EXCEPT ![t] = x] /\ Goto(t, "start")
  <2>1. Form(w[t]) /\ p \in Seq(Pairs) /\ CallOK(t) /\ Busy(t)
    BY <1>1, Locals DEF ChildInv, Busy
  <2>2. S \in SUBSET Fds
    BY DEF PassedOn, IInv, TableInv
  <2>3. Continues(q, p, S)
    <3>1. p \in Seq(Pairs) /\ PassPairs(more, S)
      BY <2>1, <2>2, PassedPairs
    <3> HIDE DEF p, more, S
    <3> QED
      BY <3>1, PairsPassed
  <2> HIDE DEF S, q
  <2>a. /\ q \in Seq(Pairs)
        /\ \A k \in DOMAIN p : k \in DOMAIN q /\ q[k] = p[k]
        /\ \A k \in DOMAIN q : k \in DOMAIN p \/ \E d \in S : q[k] = <<d, d>>
        /\ \A d \in S : \E k \in DOMAIN q : q[k] = <<d, d>>
    BY <2>3 DEF Continues
  <2>4. /\ Form(x) /\ x.i = w[t].i /\ x.pairs = q /\ x.cwd = w[t].cwd
        /\ x.saved = w[t].saved /\ x.given = w[t].given
        /\ x.noinherit = w[t].noinherit /\ x.std = w[t].std
        /\ x.alone = w[t].alone /\ x.err = w[t].err
    BY <2>1, PairsSet
  <2> HIDE DEF x
  <2>5. w'[t] = x /\ \A u \in Threads \ {t} : w'[u] = w[u]
    BY <1>3, WorkIs
  <2>6. pc'[t] = "start" /\ \A u \in Threads \ {t} : pc'[u] = pc[u]
    BY <1>3, GotoIs
  <2>7. AloneOK(t)'
    BY <1>1, <2>1, <2>4, <2>5, <2>6 DEF CallOK, AloneOK
  <2>8. PlaceOK(t)'
    BY <1>1, <2>1, <2>4, <2>5, <2>6 DEF CallOK, PlaceOK
  <2>9. WalkOK(t)'
    <3> SUFFICES ASSUME Following(t)'
                 PROVE  /\ w[t].cwd \subseteq PathSet
                        /\ Follows(table, list[t], w[t].i - 1, q, w[t].cwd, fds)
                        /\ PairsDone(t)' /\ FlagsDone(t)'
      BY <1>1, <2>4, <2>5 DEF WalkOK
    <3>1. Following(t) /\ Done(t)' = Done(t) /\ Held(t)' = Held(t)
      BY <1>1, <2>4, <2>5 DEF Following, Done, Held
    <3>2. /\ w[t].cwd \subseteq PathSet
          /\ Follows(table, list[t], w[t].i - 1, p, w[t].cwd, fds)
          /\ PairsDone(t) /\ FlagsDone(t)
      BY <2>1, <3>1 DEF CallOK, WalkOK
    <3>3. Sources(p) \subseteq Held(t) /\ Targets(p) \subseteq Redirected(Done(t))
      BY <1>1, <3>2 DEF PairsDone
    <3>4. \A d \in Redirected(Done(t)) : \E k \in DOMAIN p : LastAt(p, d, k)
      <4>1. w[t].i - 1 + 1 = w[t].i
        BY Locals
      <4> QED
        BY <3>2, <4>1 DEF Follows, Done
    <3>5. Redirected(Done(t)) = Targets(p)
      BY <3>3, <3>4 DEF Targets, LastAt
    <3>6. \A d : d \in S <=> d \in DOMAIN fds /\ d \notin cloexec /\ d \notin Targets(p)
      BY DEF S, PassedOn
    <3>7. \A d : d \in S <=> d \in DOMAIN table.fds /\ d \notin cloexec /\ d \notin Targets(p)
      BY <3>6 DEF IInv, TableInv
    <3>8. S \subseteq DOMAIN table.fds \ table.cloexec
      BY <3>7 DEF IInv, TableInv
    <3>9. Follows(table, list[t], w[t].i - 1, q, w[t].cwd, fds)
      <4>1. ASSUME NEW d \in Targets(p), NEW k, LastAt(p, d, k)
            PROVE  k \in DOMAIN q /\ LastAt(q, d, k) /\ q[k] = p[k]
        <5>1. \A j \in DOMAIN q : j > k => q[j][2] # d
          BY <2>a, <3>7, <4>1 DEF LastAt
        <5> QED
          BY <2>a, <4>1, <5>1 DEF LastAt
      <4> DEFINE s == InChild(table, list[t])[w[t].i - 1]
                 R == Redirected(Before(list[t], w[t].i - 1 + 1))
      <4>2. w[t].i - 1 + 1 = w[t].i
        BY Locals
      <4>3. R = Targets(p)
        BY <3>5, <4>2 DEF Done
      <4>4. \A d \in R : \E k \in DOMAIN p : LastAt(p, d, k) /\ s.fds[d] = fds[p[k][1]]
        BY <3>2 DEF Follows
      <4>5. \A d \in R : \E k \in DOMAIN q : LastAt(q, d, k) /\ s.fds[d] = fds[q[k][1]]
        <5> HIDE DEF R, s
        <5> SUFFICES ASSUME NEW d \in R
                     PROVE  \E k \in DOMAIN q : LastAt(q, d, k) /\ s.fds[d] = fds[q[k][1]]
          OBVIOUS
        <5>1. PICK k \in DOMAIN p : LastAt(p, d, k) /\ s.fds[d] = fds[p[k][1]]
          BY <4>4
        <5>2. k \in DOMAIN q /\ LastAt(q, d, k) /\ q[k] = p[k]
          BY <4>1, <4>3, <5>1
        <5> QED
          BY <5>1, <5>2
      <4> QED
        BY <3>2, <4>5 DEF Follows
    <3>10. Sources(q) \subseteq Held(t)
      <4> SUFFICES ASSUME NEW k \in DOMAIN q PROVE q[k][1] \in Held(t)
        BY DEF Sources
      <4>1. CASE k \in DOMAIN p
        BY <2>a, <3>3, <4>1 DEF Sources
      <4>2. CASE k \notin DOMAIN p
        BY <2>a, <3>8, <4>2 DEF Held
      <4> QED
        BY <4>1, <4>2
    <3>11. Targets(q) = Targets(p) \cup S
      <4>1. ASSUME NEW k \in DOMAIN q PROVE q[k][2] \in Targets(p) \cup S
        BY <2>a DEF Targets
      <4>2. ASSUME NEW d \in Targets(p) PROVE d \in Targets(q)
        BY <2>a DEF Targets
      <4>3. ASSUME NEW d \in S PROVE d \in Targets(q)
        <5>1. PICK k \in DOMAIN q : q[k] = <<d, d>>
          BY <2>a
        <5> QED
          BY <5>1 DEF Targets
      <4> QED
        BY <4>1, <4>2, <4>3 DEF Targets
    <3>12. ASSUME NEW k \in DOMAIN q, q[k][2] \notin Redirected(Done(t))
           PROVE  q[k][1] = q[k][2] /\ q[k][1] \in DOMAIN table.fds \ table.cloexec
      <4>1. k \notin DOMAIN p
        BY <2>a, <3>5, <3>12 DEF Targets
      <4> QED
        BY <2>a, <3>8, <4>1
    <3>13. ASSUME w[t].alone
           PROVE  S = ((DOMAIN table.fds \ table.cloexec) \ Closed(Done(t))) \ Targets(p)
      <4>1. \A d \in DOMAIN table.fds \ table.cloexec : d \in cloexec <=> d \in Closed(Done(t))
        BY <1>1, <3>2, <3>13, AloneFlags
      <4>2. table.cloexec \subseteq cloexec
        BY DEF IInv, TableInv
      <4> QED
        BY <3>7, <4>1, <4>2
    <3>14. PairsDone(t)'
      <4>1. w'[t].pairs = q /\ w'[t].alone = w[t].alone /\ pc'[t] = "start" /\ table' = table
        BY <1>1, <2>4, <2>5, <2>6
      <4>2. w[t].alone => Targets(q) =
              Redirected(Done(t)) \cup ((DOMAIN table.fds \ table.cloexec) \ Closed(Done(t)))
        BY <3>5, <3>11, <3>13
      <4> HIDE DEF p
      <4> QED
        BY <3>1, <3>10, <3>12, <4>1, <4>2 DEF PairsDone
    <3>15. FlagsDone(t)'
      BY <1>1, <2>4, <2>5, <3>1, <3>2 DEF FlagsDone
    <3> QED
      BY <3>2, <3>9, <3>14, <3>15
  <2>10. ResultOK(t)'
    BY <2>6 DEF ResultOK
  <2>11. Mine(t)
    BY <1>1, <2>5, <2>6 DEF Mine, ChildInv
  <2> QED
    BY <2>7, <2>8, <2>9, <2>10, <2>11, MineStep DEF CallOK
<1> QED
  BY <1>2, <1>3 DEF Collect

\* What POSIX's child is, by the walk.
LEMMA PosixIs ==
  ASSUME NEW tab, NEW l
  PROVE  LET s == InChild(tab, l)[Len(l)]
         IN  /\ Posix(tab, l).ok = s.ok /\ Posix(tab, l).dir = s.dir
             /\ Posix(tab, l).fds = Without(s.fds, s.cloexec)
BY DEF Posix, Child, InChild

\* The child that is started is the one of POSIX.
LEMMA StartedAs ==
  ASSUME IInv, ChildInv, NEW t \in Threads, pc[t] = "start", Following(t),
         NEW f, f = IF w[t].given THEN Given(w[t].pairs) ELSE Without(fds, cloexec)
  PROVE  LET s == Posix(table, list[t])
         IN  /\ s.ok /\ Dir(w[t].cwd) = s.dir
             /\ \A d \in Redirected(Range(list[t])) \ Closed(Range(list[t])) :
                  d \in DOMAIN f /\ f[d] = s.fds[d]
             /\ w[t].alone => f = s.fds
<1> DEFINE l == list[t]
           p == w[t].pairs
           s == InChild(table, l)[Len(l)]
           R == Redirected(Done(t))
           C == Closed(Done(t))
<1>1. CallOK(t) /\ Busy(t) /\ w[t].std = {}
  BY DEF ChildInv, Busy, Following
<1>2. w[t].i = Len(l) + 1 /\ (~w[t].given => l = <<>>)
  BY <1>1 DEF CallOK, PlaceOK
<1>3. l \in Seq(AllActions) /\ Len(l) \in Nat /\ p \in Seq(Pairs)
  BY Locals
<1>4. w[t].i - 1 = Len(l) /\ Len(l) + 1 = w[t].i
  BY <1>2, <1>3
<1>5. Follows(table, l, Len(l), p, w[t].cwd, fds) /\ PairsDone(t) /\ FlagsDone(t)
  BY <1>1, <1>4 DEF CallOK, WalkOK
<1>6. Range(l) = Done(t)
  BY <1>3, <1>4, AllDone DEF Done
<1>7. /\ s.ok /\ s.dir = Dir(w[t].cwd)
      /\ DOMAIN s.fds = R \cup (DOMAIN table.fds \ C)
      /\ s.cloexec = table.cloexec \ R
      /\ \A d \in DOMAIN s.fds \ R : s.fds[d] = table.fds[d]
      /\ \A d \in R : \E k \in DOMAIN p : LastAt(p, d, k) /\ s.fds[d] = fds[p[k][1]]
  BY <1>4, <1>5 DEF Follows, Done
<1> DEFINE z == Without(s.fds, s.cloexec)
<1>8. /\ Posix(table, l).ok = s.ok /\ Posix(table, l).dir = s.dir /\ Posix(table, l).fds = z
  BY PosixIs
<1>9. /\ DOMAIN z = R \cup ((DOMAIN table.fds \ C) \ table.cloexec)
      /\ \A d \in DOMAIN z : z[d] = s.fds[d]
      /\ z = [d \in DOMAIN z |-> z[d]]
  BY <1>7 DEF Without
<1>10. DOMAIN table.fds \subseteq DOMAIN fds /\ \A d \in DOMAIN table.fds : fds[d] = table.fds[d]
  BY DEF IInv, TableInv
<1> HIDE DEF z, s
<1>11. CASE w[t].given
  <2>1. f = [d \in Targets(p) |-> fds[LastOf(p, d)]]
    BY <1>11 DEF Given
  <2>2. DOMAIN f = Targets(p) /\ \A d \in Targets(p) : f[d] = fds[LastOf(p, d)]
    BY <2>1
  <2>3. ASSUME NEW d \in R PROVE d \in DOMAIN f /\ f[d] = s.fds[d]
    <3>1. PICK k \in DOMAIN p : LastAt(p, d, k) /\ s.fds[d] = fds[p[k][1]]
      BY <1>7
    <3>2. LastOf(p, d) = p[k][1]
      BY <1>3, <3>1, LastOfIs
    <3>3. d \in Targets(p)
      BY <3>1 DEF Targets, LastAt
    <3> QED
      BY <2>2, <3>1, <3>2, <3>3
  <2>4. ASSUME w[t].alone PROVE f = z
    <3>1. /\ Targets(p) = R \cup ((DOMAIN table.fds \ table.cloexec) \ C)
          /\ \A k \in DOMAIN p : p[k][2] \notin R =>
               p[k][1] = p[k][2] /\ p[k][1] \in DOMAIN table.fds \ table.cloexec
      BY <1>5, <1>11, <2>4 DEF PairsDone
    <3>2. DOMAIN f = DOMAIN z
      BY <1>9, <2>2, <3>1
    <3>3. ASSUME NEW d \in DOMAIN f PROVE f[d] = z[d]
      <4>1. CASE d \in R
        BY <1>9, <2>3, <3>2, <4>1
      <4>2. CASE d \notin R
        <5>1. PICK k \in DOMAIN p : LastAt(p, d, k)
          BY <1>3, <2>2, LastExists
        <5>2. LastOf(p, d) = p[k][1]
          BY <1>3, <5>1, LastOfIs
        <5>3. p[k][1] = d /\ d \in DOMAIN table.fds
          BY <3>1, <4>2, <5>1 DEF LastAt
        <5>4. f[d] = fds[d] /\ fds[d] = table.fds[d]
          BY <1>10, <2>2, <5>2, <5>3
        <5>5. d \in DOMAIN s.fds \ R
          BY <1>7, <2>2, <3>1, <4>2
        <5>6. z[d] = table.fds[d]
          BY <1>7, <1>9, <3>2, <5>5
        <5> QED
          BY <5>4, <5>6
      <4> QED
        BY <4>1, <4>2
    <3>4. f = [d \in DOMAIN f |-> f[d]]
      BY <2>1
    <3> QED
      BY <1>9, <3>2, <3>3, <3>4
  <2>5. \A d \in R : d \in DOMAIN z
    BY <1>9
  <2> QED
    BY <1>6, <1>7, <1>8, <1>9, <2>3, <2>4, <2>5
<1>12. CASE ~w[t].given
  <2>1. l = <<>> /\ Len(l) = 0 /\ w[t].i = 1
    BY <1>2, <1>12
  <2>2. R = {} /\ C = {}
    BY <2>1, NoneDone DEF Done
  <2>3. f = Without(fds, cloexec)
    BY <1>12
  <2>4. ASSUME w[t].alone PROVE f = z
    <3>1. \A d \in DOMAIN table.fds \ table.cloexec : d \notin cloexec
      <4>1. \A d \in DOMAIN table.fds \ table.cloexec : d \in cloexec <=> d \in C
        BY <1>5, <2>4, AloneFlags
      <4> QED
        BY <2>2, <4>1
    <3>2. DOMAIN fds \ cloexec = DOMAIN table.fds \ table.cloexec
      BY <1>10, <3>1 DEF IInv, TableInv
    <3>3. f = [d \in DOMAIN fds \ cloexec |-> fds[d]]
      BY <2>3 DEF Without
    <3>4. DOMAIN z = DOMAIN fds \ cloexec
      BY <1>9, <2>2, <3>2
    <3>5. \A d \in DOMAIN z : z[d] = fds[d]
      BY <1>7, <1>9, <1>10, <2>2, <3>2, <3>4
    <3> QED
      BY <1>9, <3>3, <3>4, <3>5
  <2> QED
    BY <1>6, <1>7, <1>8, <2>2, <2>4
<1> QED
  BY <1>11, <1>12

LEMMA StartCall ==
  ASSUME IInv, ChildInv, NEW t \in Threads, Start(t)
  PROVE  ChildInv'
<1> DEFINE f == IF w[t].given THEN Given(w[t].pairs) ELSE Without(fds, cloexec)
           dir == Dir(w[t].cwd)
<1>1. UNCHANGED <<table, list, ret>> /\ fds' = fds /\ cloexec' = cloexec /\ pc[t] = "start"
  BY DEF Start
<1>2. CASE Fail(t, "ENOENT") /\ child' = child
  BY <1>1, <1>2, FailCall
<1>3. CASE /\ child' = [child EXCEPT ![t] = [fds |-> f, dir |-> dir]]
           /\ Goto(t, "restore") /\ w' = w
  <2> HIDE DEF f, dir
  <2>1. pc'[t] = "restore" /\ \A u \in Threads \ {t} : pc'[u] = pc[u]
    BY <1>3, GotoIs
  <2>2. /\ DOMAIN child' = Threads /\ child'[t].fds = f /\ child'[t].dir = dir
        /\ \A u \in Threads \ {t} : child'[u] = child[u]
    BY <1>3 DEF ChildInv
  <2>3. CallOK(t)
    BY DEF ChildInv
  <2>4. AloneOK(t)' /\ PlaceOK(t)' /\ WalkOK(t)'
    BY <1>1, <1>3, <2>1, <2>3 DEF CallOK, AloneOK, PlaceOK, WalkOK, Busy
  <2>5. ResultOK(t)'
    <3> SUFFICES ASSUME Following(t)' PROVE Result(t)'
      BY <2>1 DEF ResultOK
    <3>1. Following(t)
      BY <1>1, <1>3 DEF Following
    <3>2. /\ Posix(table, list[t]).ok /\ dir = Posix(table, list[t]).dir
          /\ \A d \in Redirected(Range(list[t])) \ Closed(Range(list[t])) :
               d \in DOMAIN f /\ f[d] = Posix(table, list[t]).fds[d]
          /\ w[t].alone => f = Posix(table, list[t]).fds
      BY <1>1, <3>1, StartedAs DEF f, dir
    <3> QED
      BY <1>1, <1>3, <2>2, <3>2 DEF Result
  <2>6. Mine(t)
    BY <1>1, <1>3, <2>1, <2>2 DEF Mine
  <2> QED
    BY <2>3, <2>4, <2>5, <2>6, MineStep DEF CallOK
<1> QED
  BY <1>2, <1>3 DEF Start, Dir

(***************************************************************************)
(* Calls that begin, and what threads do outside the library.              *)
(***************************************************************************)
LEMMA EnterIs ==
  ASSUME IInv, NEW t \in Threads, NEW x, Form(x), Enter(t, x)
  PROVE  /\ w'[t].i = x.i /\ w'[t].pairs = x.pairs /\ w'[t].saved = x.saved
         /\ w'[t].cwd = x.cwd /\ w'[t].given = x.given /\ w'[t].noinherit = x.noinherit
         /\ w'[t].std = x.std /\ w'[t].err = x.err
         /\ w'[t].alone => \A v \in Threads : Free(v)
         /\ \A u \in Threads \ {t} : Kept(w[u], w'[u]) /\ (w'[u].alone => Free(u))
<1> DEFINE X(u) == IF u = t THEN [x EXCEPT !.alone = \A v \in Threads : Free(v)]
                   ELSE [w[u] EXCEPT !.alone = @ /\ Free(u)]
<1>1. w' = [u \in Threads |-> X(u)]
  BY DEF Enter
<1>2. \A u \in Threads : w'[u] = X(u)
  <2> HIDE DEF X
  <2> QED
    BY <1>1
<1>3. ASSUME NEW y, NEW a, Form(y), NEW z, z = [y EXCEPT !.alone = a]
      PROVE  /\ z.i = y.i /\ z.pairs = y.pairs /\ z.saved = y.saved /\ z.cwd = y.cwd
             /\ z.given = y.given /\ z.noinherit = y.noinherit /\ z.std = y.std
             /\ z.err = y.err /\ z.alone = a
  BY <1>3 DEF Form
<1>4. ASSUME NEW u \in Threads, u # t PROVE Kept(w[u], w'[u]) /\ (w'[u].alone => Free(u))
  <2> DEFINE a == w[u].alone /\ Free(u)
  <2>1. X(u) = [w[u] EXCEPT !.alone = a]
    BY <1>4
  <2>2. a => w[u].alone /\ Free(u)
    OBVIOUS
  <2> HIDE DEF a, X
  <2>3. w'[u] = [w[u] EXCEPT !.alone = a] /\ Form(w[u])
    BY <1>2, <2>1, Locals
  <2> DEFINE z == w'[u]
  <2>4. z = [w[u] EXCEPT !.alone = a]
    BY <2>3
  <2> HIDE DEF z
  <2>5. /\ z.i = w[u].i /\ z.pairs = w[u].pairs /\ z.saved = w[u].saved /\ z.cwd = w[u].cwd
        /\ z.given = w[u].given /\ z.noinherit = w[u].noinherit /\ z.std = w[u].std
        /\ z.err = w[u].err /\ z.alone = a
    BY <1>3, <2>3, <2>4
  <2>6. Kept(w[u], z) /\ (z.alone => Free(u))
    <3>1. z.alone => w[u].alone /\ Free(u)
      BY <2>2, <2>5, Zenon
    <3> QED
      BY <2>5, <3>1 DEF Kept
  <2> QED
    BY <2>6 DEF z
<1>5. /\ w'[t].i = x.i /\ w'[t].pairs = x.pairs /\ w'[t].saved = x.saved
      /\ w'[t].cwd = x.cwd /\ w'[t].given = x.given /\ w'[t].noinherit = x.noinherit
      /\ w'[t].std = x.std /\ w'[t].err = x.err
      /\ w'[t].alone => \A v \in Threads : Free(v)
  <2> DEFINE a == \A v \in Threads : Free(v)
             z == w'[t]
  <2>1. X(t) = [x EXCEPT !.alone = a]
    OBVIOUS
  <2>2. a => \A v \in Threads : Free(v)
    OBVIOUS
  <2> HIDE DEF a, X
  <2>3. z = [x EXCEPT !.alone = a]
    BY <1>2, <2>1
  <2> HIDE DEF z
  <2>4. /\ z.i = x.i /\ z.pairs = x.pairs /\ z.saved = x.saved /\ z.cwd = x.cwd
        /\ z.given = x.given /\ z.noinherit = x.noinherit /\ z.std = x.std
        /\ z.err = x.err /\ z.alone = a
    BY <1>3, <2>3
  <2>5. z.alone => \A v \in Threads : Free(v)
    BY <2>2, <2>4, Zenon
  <2> QED
    BY <2>4, <2>5 DEF z
<1> QED
  BY <1>4, <1>5

\* A call begins: the others are not alone any more, and the walk has done nothing.
LEMMA EnterCall ==
  ASSUME IInv, ChildInv, NEW t \in Threads, NEW x, NEW l \in {"alloc", "spawn"},
         MayCall(t), Enter(t, x), Goto(t, l), Form(x), x.err = "ok", x.saved = <<>>,
         UNCHANGED <<table, list, ret, child>>, fds' = fds, cloexec' = cloexec,
         \/ x.std # {} /\ l = "spawn"
         \/ /\ x.std = {} /\ ~x.noinherit /\ x.i = 1 /\ x.cwd = {} /\ x.pairs = <<>>
            /\ (l = "spawn" => ~x.given) /\ (~x.given => list[t] = <<>>)
  PROVE  ChildInv'
<1>1. /\ w'[t].i = x.i /\ w'[t].pairs = x.pairs /\ w'[t].saved = x.saved
      /\ w'[t].cwd = x.cwd /\ w'[t].given = x.given /\ w'[t].noinherit = x.noinherit
      /\ w'[t].std = x.std /\ w'[t].err = x.err
      /\ w'[t].alone => \A v \in Threads : Free(v)
      /\ \A u \in Threads \ {t} : Kept(w[u], w'[u]) /\ (w'[u].alone => Free(u))
  BY EnterIs
<1>2. pc'[t] = l /\ \A u \in Threads \ {t} : pc'[u] = pc[u]
  BY GotoIs
<1>3. ASSUME NEW u \in Threads, u # t PROVE CallOK(u)'
  <2>1. Framed(u)
    BY <1>1, <1>2, <1>3 DEF Framed, Free
  <2> QED
    BY <2>1, FramedOK DEF ChildInv
<1>4. AloneOK(t)'
  BY <1>1, <1>2 DEF AloneOK, Free
<1>5. PlaceOK(t)'
  <2>1. x.std = {} /\ l = "spawn" => x.i = Len(list[t]) + 1
    OBVIOUS
  <2> QED
    BY <1>1, <1>2, <2>1 DEF PlaceOK, Busy
<1>6. WalkOK(t)'
  <2> SUFFICES ASSUME x.std = {}
               PROVE  /\ w'[t].cwd \subseteq PathSet
                      /\ Follows(table, list[t], 0, <<>>, {}, fds)
                      /\ PairsDone(t)' /\ FlagsDone(t)'
    <3>1. x.std = {} => w'[t].i - 1 = 0 /\ w'[t].pairs = <<>> /\ w'[t].cwd = {}
      BY <1>1
    <3> QED
      BY <1>1, <3>1 DEF WalkOK, Following
  <2>1. w'[t].i = 1 /\ w'[t].pairs = <<>> /\ w'[t].cwd = {} /\ w'[t].saved = <<>>
    BY <1>1
  <2>2. Follows(table, list[t], 0, <<>>, {}, fds)
    <3>1. table \in Tables /\ list[t] \in Seq(AllActions)
      BY Locals DEF IInv, TypeInv
    <3> QED
      BY <3>1, FollowsStart
  <2>3. Done(t)' = Before(list[t], 1)
    BY <2>1 DEF Done
  <2>4. Redirected(Done(t)') = {} /\ Closed(Done(t)') = {}
    BY <2>3, NoneDone
  <2>5. PairsDone(t)'
    <3>1. Sources(<<>>) = {} /\ Targets(<<>>) = {}
      BY DEF Sources, Targets
    <3>2. Redirected(Done(t))' = Redirected(Done(t)')
      BY DEF Redirected
    <3> QED
      BY <1>2, <2>1, <3>1 DEF PairsDone
  <2>6. FlagsDone(t)'
    <3>1. Closed(Done(t))' = Closed(Done(t)')
      BY DEF Closed
    <3> QED
      BY <2>1, <2>4, <3>1 DEF FlagsDone
  <2> QED
    BY <2>1, <2>2, <2>5, <2>6
<1>7. ResultOK(t)'
  BY <1>2 DEF ResultOK
<1> QED
  BY <1>3, <1>4, <1>5, <1>6, <1>7 DEF ChildInv, CallOK

\* A thread that stays outside the library: no child of it was started.
LEMMA OutsideCall ==
  ASSUME IInv, ChildInv, NEW t \in Threads, pc[t] = "idle", ret'[t] # "ok",
         UNCHANGED <<table, fds, cloexec, pc>>, DOMAIN child' = Threads,
         PlaceOK(t)',
         \A u \in Threads \ {t} :
           list'[u] = list[u] /\ w'[u] = w[u] /\ ret'[u] = ret[u] /\ child'[u] = child[u]
  PROVE  ChildInv'
<1>1. AloneOK(t)' /\ WalkOK(t)' /\ ResultOK(t)'
  BY DEF AloneOK, WalkOK, ResultOK, Busy
<1>2. Mine(t)
  BY DEF Mine
<1> QED
  BY <1>1, <1>2, MineStep DEF CallOK

LEMMA RefusedCall ==
  ASSUME IInv, ChildInv, NEW t \in Threads, NEW r, r # "ok", ret' = [ret EXCEPT ![t] = r],
         pc[t] = "idle", UNCHANGED <<table, fds, cloexec, list, pc, w, child>>
  PROVE  ChildInv'
<1>1. ret'[t] = r /\ \A u \in Threads \ {t} : ret'[u] = ret[u]
  <2>1. ret \in [Threads -> Results]
    BY Locals
  <2> QED
    BY <2>1
<1>2. PlaceOK(t)'
  BY DEF ChildInv, CallOK, PlaceOK, Busy
<1> QED
  BY <1>1, <1>2, OutsideCall DEF ChildInv

LEMMA CallCall ==
  ASSUME IInv, ChildInv, NEW t \in Threads, Call(t)
  PROVE  ChildInv'
<1>1. UNCHANGED <<table, list, child>> /\ fds' = fds /\ cloexec' = cloexec /\ MayCall(t)
  BY DEF Call
<1>2. PICK loaded \in BOOLEAN, given \in BOOLEAN, usePath \in BOOLEAN, flags \in Attrs :
        /\ list[t] # <<>> => given
        /\ IF loaded /\ flags = {}
             THEN /\ Goto(t, IF given THEN "alloc" ELSE "spawn")
                  /\ Enter(t, [NoWork EXCEPT !.i = 1, !.given = given, !.usePath = usePath])
                  /\ UNCHANGED ret
             ELSE /\ ret' = [ret EXCEPT ![t] = IF loaded THEN "ENOSYS" ELSE "libc"]
                  /\ UNCHANGED <<pc, w>>
  BY DEF Call
<1>3. CASE loaded /\ flags = {}
  <2> DEFINE z1 == [NoWork EXCEPT !.i = 1]
             z2 == [z1 EXCEPT !.given = given]
             z3 == [z2 EXCEPT !.usePath = usePath]
             l  == IF given THEN "alloc" ELSE "spawn"
             Empty(z) == /\ Form(z) /\ z.i = 1 /\ z.pairs = <<>> /\ z.saved = <<>>
                         /\ z.err = "ok" /\ z.std = {} /\ ~z.noinherit /\ z.cwd = {}
  <2>1. Goto(t, l) /\ Enter(t, z3) /\ ret' = ret
    BY <1>2, <1>3
  <2>2. Empty(z1)
    <3>1. NoWork.std = {} /\ ~NoWork.noinherit /\ NoWork.cwd = {}
      BY DEF NoWork
    <3> QED
      BY <3>1, NoWorkForm DEF Form
  <2> HIDE DEF z1
  <2>3. Empty(z2) /\ z2.given = given
    BY <2>2 DEF Form
  <2> HIDE DEF z2
  <2>4. Empty(z3) /\ z3.given = given
    BY <2>3 DEF Form
  <2> HIDE DEF z3
  <2>5. l \in {"alloc", "spawn"} /\ (l = "spawn" => ~z3.given)
    BY <2>4
  <2>6. ~z3.given => list[t] = <<>>
    BY <1>2, <2>4
  <2> HIDE DEF l
  <2> QED
    BY <1>1, <2>1, <2>4, <2>5, <2>6, EnterCall
<1>4. CASE ~(loaded /\ flags = {})
  <2> DEFINE r == IF loaded THEN "ENOSYS" ELSE "libc"
  <2>1. r # "ok"
    OBVIOUS
  <2>2. ret' = [ret EXCEPT ![t] = r] /\ pc' = pc /\ w' = w
    BY <1>2, <1>4
  <2> HIDE DEF r
  <2> QED
    BY <1>1, <2>1, <2>2, RefusedCall DEF MayCall, Free
<1> QED
  BY <1>3, <1>4

LEMMA Spawn2Call ==
  ASSUME IInv, ChildInv, NEW t \in Threads, Spawn2(t)
  PROVE  ChildInv'
<1>1. UNCHANGED <<table, list, child>> /\ fds' = fds /\ cloexec' = cloexec /\ MayCall(t)
  BY DEF Spawn2
<1>2. PICK std \in Stdfds, noinherit \in BOOLEAN, usePath \in BOOLEAN, ok \in BOOLEAN :
        IF ok
          THEN /\ Goto(t, "spawn")
               /\ Enter(t, [NoWork EXCEPT !.pairs = Simple(std), !.std = {std},
                              !.given = TRUE, !.noinherit = noinherit, !.usePath = usePath])
               /\ UNCHANGED ret
          ELSE /\ ~noinherit
               /\ ret' = [ret EXCEPT ![t] = "ENOMEM"] /\ UNCHANGED <<pc, w>>
  BY DEF Spawn2
<1>3. CASE ok
  <2> DEFINE p  == Simple(std)
             z1 == [NoWork EXCEPT !.pairs = p]
             c  == {std}
             g  == TRUE
             z2 == [z1 EXCEPT !.std = c]
             z3 == [z2 EXCEPT !.given = g]
             z4 == [z3 EXCEPT !.noinherit = noinherit]
             z5 == [z4 EXCEPT !.usePath = usePath]
  <2>1. Goto(t, "spawn") /\ Enter(t, z5) /\ ret' = ret
    BY <1>2, <1>3
  <2>2. c # {}
    OBVIOUS
  <2> HIDE DEF p, c, g
  <2>3. Form(z1) /\ z1.saved = <<>> /\ z1.err = "ok"
    BY NoWorkForm DEF Form
  <2> HIDE DEF z1
  <2>4. Form(z2) /\ z2.saved = <<>> /\ z2.err = "ok" /\ z2.std = c
    BY <2>3 DEF Form
  <2> HIDE DEF z2
  <2>5. Form(z3) /\ z3.saved = <<>> /\ z3.err = "ok" /\ z3.std = c
    BY <2>4 DEF Form
  <2> HIDE DEF z3
  <2>6. Form(z4) /\ z4.saved = <<>> /\ z4.err = "ok" /\ z4.std = c
    BY <2>5 DEF Form
  <2> HIDE DEF z4
  <2>7. Form(z5) /\ z5.saved = <<>> /\ z5.err = "ok" /\ z5.std = c
    BY <2>6 DEF Form
  <2> HIDE DEF z5
  <2> QED
    BY <1>1, <2>1, <2>2, <2>7, EnterCall
<1>4. CASE ~ok
  <2>1. ret' = [ret EXCEPT ![t] = "ENOMEM"] /\ pc' = pc /\ w' = w
    BY <1>2, <1>4
  <2> QED
    BY <1>1, <2>1, RefusedCall DEF MayCall, Free
<1> QED
  BY <1>3, <1>4

LEMMA AddCall ==
  ASSUME IInv, ChildInv, NEW t \in Threads, NEW a, Add(t, a)
  PROVE  ChildInv'
<1>1. /\ pc[t] = "idle" /\ ret[t] = "none"
      /\ UNCHANGED <<table, fds, cloexec, pc, w, ret, child>>
  BY DEF Add, MayAdd
<1>2. \A u \in Threads \ {t} : list'[u] = list[u]
  <2>1. list \in [Threads -> Seq(AllActions)]
    BY DEF IInv, TypeInv
  <2> QED
    BY <2>1 DEF Add
<1>3. PlaceOK(t)'
  BY <1>1 DEF ChildInv, CallOK, PlaceOK, Busy
<1> QED
  BY <1>1, <1>2, <1>3, OutsideCall DEF ChildInv

LEMMA DestroyCall ==
  ASSUME IInv, ChildInv, NEW t \in Threads, Destroy(t)
  PROVE  ChildInv'
<1>1. /\ pc[t] = "idle" /\ UNCHANGED <<table, fds, cloexec, pc>>
      /\ list' = [list EXCEPT ![t] = <<>>] /\ ret' = [ret EXCEPT ![t] = "none"]
      /\ w' = [w EXCEPT ![t] = NoWork] /\ child' = [child EXCEPT ![t] = NoChild]
  BY DEF Destroy
<1>2. list \in [Threads -> Seq(AllActions)] /\ ret \in [Threads -> Results]
  BY DEF IInv, TypeInv
<1>3. /\ ret'[t] = "none" /\ DOMAIN child' = Threads /\ w'[t] = NoWork
      /\ \A u \in Threads \ {t} :
           list'[u] = list[u] /\ w'[u] = w[u] /\ ret'[u] = ret[u] /\ child'[u] = child[u]
  BY <1>1, <1>2, WorkIs DEF ChildInv
<1>4. PlaceOK(t)'
  <2>1. ~NoWork.noinherit
    BY DEF NoWork
  <2> QED
    BY <1>1, <1>3, <2>1 DEF PlaceOK, Busy
<1> QED
  BY <1>1, <1>3, <1>4, OutsideCall

-----------------------------------------------------------------------------

(***************************************************************************)
(* The invariant.                                                          *)
(***************************************************************************)

\* A thread in the library has no result yet.
Unanswered == \A t \in Threads : pc[t] # "idle" => ret[t] = "none"

LEMMA InitChild == Init => ChildInv /\ Unanswered
<1> SUFFICES ASSUME Init PROVE ChildInv /\ Unanswered
  OBVIOUS
<1>1. ASSUME NEW t \in Threads PROVE CallOK(t)
  <2>1. pc[t] = "idle" /\ ret[t] = "none" /\ w[t] = NoWork /\ ~NoWork.noinherit
    BY DEF Init, NoWork
  <2> QED
    BY <2>1 DEF CallOK, AloneOK, PlaceOK, WalkOK, ResultOK, Busy
<1> QED
  BY <1>1 DEF Init, ChildInv, Unanswered

LEMMA SameCall ==
  ASSUME ChildInv, UNCHANGED vars
  PROVE  ChildInv'
<1>1. ASSUME NEW t \in Threads PROVE CallOK(t)'
  <2>1. CallOK(t)
    BY DEF ChildInv
  <2>2. Framed(t)
    <3>1. w'[t].alone /\ pc[t] # "idle" =>
            (\A v \in Threads \ {t} : pc'[v] = "idle") /\ cloexec \subseteq cloexec'
      BY <2>1 DEF CallOK, AloneOK, vars
    <3> QED
      BY <3>1 DEF Framed, Kept, vars
  <2> QED
    BY <2>1, <2>2, FramedOK
<1> QED
  BY <1>1 DEF ChildInv, vars

LEMMA NextChild == IInv /\ ChildInv /\ [Next]_vars => ChildInv'
<1> SUFFICES ASSUME IInv, ChildInv, [Next]_vars PROVE ChildInv'
  OBVIOUS
<1>1. CASE UNCHANGED vars
  BY <1>1, SameCall
<1>2. ASSUME NEW t \in Threads, NEW a \in AllActions, Add(t, a) PROVE ChildInv'
  BY <1>2, AddCall
<1>3. ASSUME NEW t \in Threads, Destroy(t) \/ Call(t) \/ Spawn2(t) PROVE ChildInv'
  BY <1>3, DestroyCall, CallCall, Spawn2Call
<1>4. ASSUME NEW t \in Threads, Step(t) PROVE ChildInv'
  BY <1>4, AllocCall, DoCloseCall, MarkCloseCall, DoDup2Call, DoOpenCall, DoChdirCall,
     DoFchdirCall, AppliedCall, SearchCall, CollectCall, StartCall, RestoreCall, EndCall
     DEF Step
<1> QED
  BY <1>1, <1>2, <1>3, <1>4 DEF Next

LEMMA NextUnanswered == IInv /\ Unanswered /\ [Next]_vars => Unanswered'
<1> SUFFICES ASSUME IInv, Unanswered, [Next]_vars, NEW u \in Threads
             PROVE  pc'[u] # "idle" => ret'[u] = "none"
  BY DEF Unanswered
<1>1. pc \in [Threads -> PCs] /\ ret \in [Threads -> Results]
  BY DEF IInv, TypeInv
<1>2. pc[u] # "idle" => ret[u] = "none"
  BY DEF Unanswered
<1>3. ASSUME NEW t \in Threads, NEW l, Goto(t, l), ret' = ret, pc[t] # "idle"
      PROVE  pc'[u] # "idle" => ret'[u] = "none"
  BY <1>1, <1>2, <1>3 DEF Goto
<1>4. ASSUME NEW t \in Threads, NEW r, Return(t, r)
      PROVE  pc'[u] # "idle" => ret'[u] = "none"
  BY <1>1, <1>2, <1>4 DEF Goto, Return
<1>5. ASSUME NEW t \in Threads, NEW l, MayCall(t), Goto(t, l), ret' = ret
      PROVE  pc'[u] # "idle" => ret'[u] = "none"
  BY <1>1, <1>2, <1>5 DEF Goto, MayCall
<1>6. ASSUME NEW t \in Threads, NEW r, pc[t] = "idle", pc' = pc, ret' = [ret EXCEPT ![t] = r]
      PROVE  pc'[u] # "idle" => ret'[u] = "none"
  BY <1>1, <1>2, <1>6
<1>7. CASE UNCHANGED vars
  BY <1>2, <1>7 DEF vars
<1>8. ASSUME NEW t \in Threads, NEW a \in AllActions, Add(t, a)
      PROVE  pc'[u] # "idle" => ret'[u] = "none"
  BY <1>2, <1>8 DEF Add
<1>9. ASSUME NEW t \in Threads, Destroy(t) \/ Call(t) \/ Spawn2(t)
      PROVE  pc'[u] # "idle" => ret'[u] = "none"
  <2>1. CASE Destroy(t)
    BY <1>6, <2>1 DEF Destroy
  <2>2. CASE Call(t)
    BY <1>5, <1>6, <2>2 DEF Call, MayCall, Free
  <2>3. CASE Spawn2(t)
    BY <1>5, <1>6, <2>3 DEF Spawn2, MayCall, Free
  <2> QED
    BY <1>9, <2>1, <2>2, <2>3
<1>10. ASSUME NEW t \in Threads, Step(t)
       PROVE  pc'[u] # "idle" => ret'[u] = "none"
  <2>1. CASE Alloc(t)
    BY <1>3, <1>4, <2>1 DEF Alloc
  <2>2. CASE DoClose(t)
    BY <1>3, <2>2 DEF DoClose, At, Fail, Note
  <2>3. CASE MarkClose(t)
    BY <1>3, <2>3 DEF MarkClose, Fail, Note
  <2>4. CASE DoDup2(t)
    BY <1>3, <2>4 DEF DoDup2, At, Fail, Note
  <2>5. CASE DoOpen(t)
    BY <1>3, <2>5 DEF DoOpen, At, Fail, Note
  <2>6. CASE DoChdir(t) \/ DoFchdir(t)
    BY <1>3, <2>6 DEF DoChdir, DoFchdir, At, Fail, Note
  <2>7. CASE Applied(t) \/ Search(t)
    BY <1>3, <2>7 DEF Applied, Search, Fail
  <2>8. CASE Collect(t) \/ Start(t)
    BY <1>3, <2>8 DEF Collect, Start, Fail
  <2>9. CASE Restore(t)
    BY <1>2, <2>9 DEF Restore
  <2>10. CASE End(t)
    BY <1>4, <2>10 DEF End
  <2> QED
    BY <1>10, <2>1, <2>2, <2>3, <2>4, <2>5, <2>6, <2>7, <2>8, <2>9, <2>10 DEF Step
<1> QED
  BY <1>7, <1>8, <1>9, <1>10 DEF Next

\* The invariant that relates each walk in the parent to the one in POSIX's child.
THEOREM ChildInvariance == Spec => [](ChildInv /\ Unanswered)
<1>1. Init => IInv /\ ChildInv /\ Unanswered
  BY InitInv, InitChild
<1>2. IInv /\ ChildInv /\ Unanswered /\ [Next]_vars => (IInv /\ ChildInv /\ Unanswered)'
  BY NextInv, NextChild, NextUnanswered
<1> QED
  BY <1>1, <1>2, PTL DEF Spec

\* Of a child that was started, its result is at hand.
LEMMA SpawnedResult ==
  ASSUME IInv, ChildInv, Unanswered, NEW t \in Threads, Spawned(t), Straight(table, list[t])
  PROVE  Result(t)
<1>1. pc[t] = "idle" /\ CallOK(t)
  BY DEF Unanswered, Spawned, ChildInv
<1> QED
  BY <1>1 DEF CallOK, ResultOK, Spawned, Following

LEMMA ChildIsPosix ==
  ASSUME IInv, ChildInv, Unanswered
  PROVE  ChildAsPosix
<1> SUFFICES ASSUME NEW t \in Threads, Spawned(t), w[t].alone, Straight(table, list[t])
             PROVE  Posix(table, list[t]) =
                      [ok |-> TRUE, fds |-> child[t].fds, dir |-> child[t].dir]
  BY DEF ChildAsPosix
<1> DEFINE s == Posix(table, list[t])
<1>1. s.ok /\ child[t].dir = s.dir /\ child[t].fds = s.fds
  BY SpawnedResult DEF Result
<1>2. s = [ok |-> InChild(table, list[t])[Len(list[t])].ok, fds |-> s.fds, dir |-> s.dir]
  BY DEF Posix, Child, InChild
<1>3. s.ok = InChild(table, list[t])[Len(list[t])].ok
  BY PosixIs
<1> QED
  BY <1>1, <1>2, <1>3

\* A child that a call alone in the library starts is the child of POSIX, for lists
\* on which the walk in the parent can stand for the one in the child.
THEOREM AsPosix == Spec => []ChildAsPosix
<1>1. IInv /\ ChildInv /\ Unanswered => ChildAsPosix
  BY ChildIsPosix
<1>2. Spec => []IInv
  BY Invariance
<1> QED
  BY <1>1, <1>2, ChildInvariance, PTL

\* Whatever other threads do at the same time, the descriptors that the list
\* redirects and the directory are those of POSIX's child.
THEOREM TargetsAsInPosix == Spec => []TargetsAsPosix
<1>1. IInv /\ ChildInv /\ Unanswered => TargetsAsPosix
  BY SpawnedResult DEF TargetsAsPosix, Result
<1>2. Spec => []IInv
  BY Invariance
<1> QED
  BY <1>1, <1>2, ChildInvariance, PTL

(***************************************************************************)
(* The calls of the tests, from the first step to the answer.              *)
(***************************************************************************)
\* The descriptors that spawn2() passes on when no pair gives 0 to 2 to the child.
PassedRest == (DOMAIN table.fds \ table.cloexec) \ 0..2
Rest(t) == IF w[t].noinherit THEN {} ELSE PassedRest

\* Of a call with an array of three, its pairs and its child.
ArrayChild(t, std) ==
  /\ DOMAIN child[t].fds = 0..2 \cup Rest(t)
  /\ \A fd \in 0..2 :
       child[t].fds[fd] = table.fds[IF std[fd + 1] = 0 THEN fd ELSE std[fd + 1]]
  /\ \A fd \in DOMAIN child[t].fds \ 0..2 : child[t].fds[fd] = table.fds[fd]
ArrayOK(t) ==
  w[t].std # {} =>
    \E std \in Stdfds :
      /\ w[t].std = {std}
      /\ Busy(t) =>
           /\ w[t].given /\ w[t].saved = <<>>
           /\ pc[t] # "start" => w[t].pairs = Simple(std)
           /\ pc[t] = "collect" => ~w[t].noinherit
           /\ pc[t] = "start" /\ w[t].alone => Continues(w[t].pairs, Simple(std), Rest(t))
      /\ pc[t] = "restore" /\ w[t].err = "ok" /\ w[t].alone => ArrayChild(t, std)
      /\ pc[t] = "idle" /\ ret[t] = "ok" /\ w[t].alone => ArrayChild(t, std)

\* Lists whose actions cannot fail in the parent.
Feasible(tab, l) ==
  \A i \in DOMAIN l :
    /\ l[i].tag \in {"close", "dup2", "fchdir"} => l[i].fd \in DOMAIN tab.fds
    /\ l[i].tag = "open" =>
         /\ File(l[i].path) \in Existing /\ Fds \ DOMAIN tab.fds # {}
         /\ \A a \in Before(l, i) : a.tag \notin {"open", "chdir", "fchdir"}
Surely(t) == w[t].std = {} /\ w[t].alone /\ Feasible(table, list[t])
ValidOK(t) ==
  Surely(t) =>
    /\ Busy(t) =>
         /\ w[t].cwd # {} => \E a \in Done(t) : a.tag \in {"chdir", "fchdir"}
         /\ \A k \in DOMAIN w[t].saved :
              w[t].saved[k].tag = "open" => \E a \in Done(t) : a.tag = "open"
    /\ pc[t] = "restore" => w[t].err # "EINVAL"
    /\ pc[t] = "idle" => ret[t] # "EINVAL"

TestInv == \A t \in Threads : ArrayOK(t) /\ ValidOK(t)

\* What a step of t leaves of the other calls.
Others(t) ==
  /\ table' = table
  /\ \A u \in Threads \ {t} :
       /\ list'[u] = list[u] /\ pc'[u] = pc[u] /\ ret'[u] = ret[u] /\ child'[u] = child[u]
       /\ Kept(w[u], w'[u])

LEMMA OthersTest ==
  ASSUME TestInv, NEW t \in Threads, Others(t), ArrayOK(t)', ValidOK(t)'
  PROVE  TestInv'
<1>1. ASSUME NEW u \in Threads, u # t PROVE ArrayOK(u)' /\ ValidOK(u)'
  <2>1. /\ table' = table /\ list'[u] = list[u] /\ pc'[u] = pc[u] /\ ret'[u] = ret[u]
        /\ child'[u] = child[u]
        /\ w'[u].i = w[u].i /\ w'[u].pairs = w[u].pairs /\ w'[u].saved = w[u].saved
        /\ w'[u].cwd = w[u].cwd /\ w'[u].given = w[u].given
        /\ w'[u].noinherit = w[u].noinherit /\ w'[u].std = w[u].std
        /\ w'[u].err = w[u].err /\ (w'[u].alone => w[u].alone)
    BY <1>1 DEF Others, Kept
  <2>2. ArrayOK(u) /\ ValidOK(u)
    BY DEF TestInv
  <2>3. Busy(u)' = Busy(u) /\ Done(u)' = Done(u) /\ (Surely(u)' => Surely(u))
    BY <2>1 DEF Busy, Done, Surely
  <2>4. ValidOK(u)'
    BY <2>1, <2>2, <2>3 DEF ValidOK
  <2>5. Rest(u)' = Rest(u) /\ \A std : ArrayChild(u, std)' = ArrayChild(u, std)
    BY <2>1 DEF Rest, PassedRest, ArrayChild
  <2>6. ArrayOK(u)'
    <3> SUFFICES ASSUME w[u].std # {} PROVE ArrayOK(u)'
      BY <2>1 DEF ArrayOK
    <3>1. PICK std \in Stdfds :
            /\ w[u].std = {std}
            /\ Busy(u) =>
                 /\ w[u].given /\ w[u].saved = <<>>
                 /\ pc[u] # "start" => w[u].pairs = Simple(std)
                 /\ pc[u] = "collect" => ~w[u].noinherit
                 /\ pc[u] = "start" /\ w[u].alone => Continues(w[u].pairs, Simple(std), Rest(u))
            /\ pc[u] = "restore" /\ w[u].err = "ok" /\ w[u].alone => ArrayChild(u, std)
            /\ pc[u] = "idle" /\ ret[u] = "ok" /\ w[u].alone => ArrayChild(u, std)
      BY <2>2 DEF ArrayOK
    <3> QED
      BY <2>1, <2>3, <2>5, <3>1 DEF ArrayOK
  <2> QED
    BY <2>4, <2>6
<1> QED
  BY <1>1 DEF TestInv

\* A call that fails: not with EINVAL where that cannot be.
LEMMA FailTest ==
  ASSUME IInv, TestInv, NEW t \in Threads, NEW e, e # "ok", Fail(t, e), pc[t] # "idle",
         e = "EINVAL" => ~Surely(t), UNCHANGED <<table, list, ret, child>>
  PROVE  TestInv'
<1>1. /\ pc'[t] = "restore" /\ w'[t].err = e /\ w'[t].std = w[t].std
      /\ w'[t].noinherit = w[t].noinherit /\ w'[t].alone = w[t].alone
      /\ \A u \in Threads \ {t} : w'[u] = w[u] /\ pc'[u] = pc[u]
  BY FailIs
<1>2. ArrayOK(t) /\ ValidOK(t)
  BY DEF TestInv
<1>3. ArrayOK(t)'
  BY <1>1, <1>2 DEF ArrayOK, Busy
<1>4. ValidOK(t)'
  <2>1. Surely(t)' => Surely(t)
    BY <1>1 DEF Surely
  <2> QED
    BY <1>1, <2>1 DEF ValidOK, Busy
<1>5. Others(t)
  BY <1>1 DEF Others, Kept
<1> QED
  BY <1>3, <1>4, <1>5, OthersTest

LEMMA ReturnTest ==
  ASSUME IInv, TestInv, NEW t \in Threads, NEW r, Return(t, r), pc[t] # "idle",
         r \in {"ok", "EINVAL"} => pc[t] = "restore" /\ w[t].err = r,
         UNCHANGED <<table, list, child>>
  PROVE  TestInv'
<1>1. /\ pc'[t] = "idle" /\ ret'[t] = r /\ w'[t].std = w[t].std
      /\ w'[t].noinherit = w[t].noinherit /\ w'[t].alone = w[t].alone
      /\ \A u \in Threads \ {t} : w'[u] = w[u] /\ pc'[u] = pc[u] /\ ret'[u] = ret[u]
  BY ReturnIs
<1>2. ArrayOK(t) /\ ValidOK(t)
  BY DEF TestInv
<1>3. ArrayOK(t)'
  <2>1. \A std : ArrayChild(t, std)' = ArrayChild(t, std)
    BY <1>1 DEF ArrayChild, Rest, PassedRest
  <2>2. ~Busy(t)'
    BY <1>1 DEF Busy
  <2> QED
    BY <1>1, <1>2, <2>1, <2>2 DEF ArrayOK
<1>4. ValidOK(t)'
  <2>1. Surely(t)' => Surely(t)
    BY <1>1 DEF Surely
  <2> QED
    BY <1>1, <1>2, <2>1 DEF ValidOK, Busy
<1>5. Others(t)
  BY <1>1 DEF Others, Kept
<1> QED
  BY <1>3, <1>4, <1>5, OthersTest

\* The same pairs from the end on: none are passed on.
LEMMA ContinuesSelf ==
  ASSUME NEW std \in Stdfds
  PROVE  Continues(Simple(std), Simple(std), {})
BY SimplePairs DEF Continues

LEMMA GotoTest ==
  ASSUME IInv, TestInv, NEW t \in Threads, NEW l, Goto(t, l), Busy(t), w' = w,
         l \in {"apply", "mark", "spawn", "collect", "start"}, pc[t] # "start",
         l = "start" => ~(w[t].given /\ ~w[t].noinherit), l = "collect" => ~w[t].noinherit,
         UNCHANGED <<table, list, ret, child>>
  PROVE  TestInv'
<1>1. pc'[t] = l /\ \A u \in Threads \ {t} : pc'[u] = pc[u]
  BY GotoIs
<1>2. ArrayOK(t) /\ ValidOK(t) /\ Busy(t)'
  BY <1>1 DEF TestInv, Busy
<1>3. ArrayOK(t)'
  <2> SUFFICES ASSUME w[t].std # {} PROVE ArrayOK(t)'
    BY DEF ArrayOK
  <2>1. PICK std \in Stdfds :
          /\ w[t].std = {std} /\ w[t].given /\ w[t].saved = <<>> /\ w[t].pairs = Simple(std)
    BY <1>2 DEF ArrayOK
  <2>2. l = "start" => w[t].noinherit
    BY <2>1
  <2>3. l = "start" => Continues(w[t].pairs, Simple(std), Rest(t)')
    BY <2>1, <2>2, ContinuesSelf DEF Rest
  <2> QED
    BY <1>1, <2>1, <2>3 DEF ArrayOK, Busy
<1>4. ValidOK(t)'
  <2>1. (Surely(t)' => Surely(t)) /\ Done(t)' = Done(t)
    BY DEF Surely, Done
  <2> QED
    BY <1>1, <1>2, <2>1 DEF ValidOK
<1>5. Others(t)
  BY <1>1 DEF Others, Kept
<1> QED
  BY <1>3, <1>4, <1>5, OthersTest

\* An action that goes well.  A new directory, or a new descriptor, comes from a chdir,
\* fchdir or open action.
LEMMA NoteTest ==
  ASSUME IInv, ChildInv, TestInv, NEW t \in Threads, NEW x, Note(t, x), Form(x),
         pc[t] \in {"apply", "mark"}, w[t].i \in DOMAIN list[t],
         x.i = w[t].i, x.std = w[t].std, x.alone = w[t].alone,
         x.cwd = w[t].cwd \/ Action(t).tag \in {"chdir", "fchdir"},
         \A k \in DOMAIN x.saved : x.saved[k].tag = "open" =>
           (k \in DOMAIN w[t].saved /\ x.saved[k] = w[t].saved[k]) \/ Action(t).tag = "open",
         UNCHANGED <<table, list, ret, child>>
  PROVE  TestInv'
<1>1. /\ pc'[t] = "apply" /\ w'[t].i = w[t].i + 1 /\ w'[t].cwd = x.cwd /\ w'[t].saved = x.saved
      /\ w'[t].std = w[t].std /\ w'[t].alone = w[t].alone
      /\ \A u \in Threads \ {t} : w'[u] = w[u] /\ pc'[u] = pc[u]
  BY NoteIs
<1>2. w[t].std = {} /\ Busy(t) /\ ValidOK(t)
  BY DEF ChildInv, CallOK, PlaceOK, Busy, TestInv
<1>3. ArrayOK(t)'
  BY <1>1, <1>2 DEF ArrayOK
<1>4. Done(t) \subseteq Done(t)' /\ Action(t) \in Done(t)'
  <2>1. /\ w[t].i \in Nat /\ w[t].i >= 1 /\ w[t].i + 1 - 1 = w[t].i
        /\ 1..(w[t].i - 1) \subseteq 1..w[t].i /\ w[t].i \in 1..w[t].i
    BY Locals
  <2>2. Done(t)' = {list[t][j] : j \in 1..w[t].i}
    BY <1>1, <2>1 DEF Done, Before
  <2> QED
    BY <2>1, <2>2 DEF Done, Before, Action
<1>5. ValidOK(t)'
  <2> SUFFICES ASSUME Surely(t)'
               PROVE  /\ x.cwd # {} => \E a \in Done(t)' : a.tag \in {"chdir", "fchdir"}
                      /\ \A k \in DOMAIN x.saved :
                           x.saved[k].tag = "open" => \E a \in Done(t)' : a.tag = "open"
    BY <1>1 DEF ValidOK
  <2>1. /\ w[t].cwd # {} => \E a \in Done(t) : a.tag \in {"chdir", "fchdir"}
        /\ \A k \in DOMAIN w[t].saved :
             w[t].saved[k].tag = "open" => \E a \in Done(t) : a.tag = "open"
    BY <1>1, <1>2 DEF ValidOK, Surely
  <2> QED
    BY <1>4, <2>1
<1>6. Others(t)
  BY <1>1 DEF Others, Kept
<1> QED
  BY <1>3, <1>5, <1>6, OthersTest

\* The descriptor that an action of such a list needs is open.
LEMMA SurelyOpen ==
  ASSUME IInv, NEW t \in Threads, Surely(t), w[t].i \in DOMAIN list[t],
         Action(t).tag \in {"close", "dup2", "fchdir"}
  PROVE  Action(t).fd \in DOMAIN fds
BY DEF Surely, Feasible, Action, IInv, TableInv

\* An entry is added to what is to be restored.
LEMMA SavedMore ==
  ASSUME IInv, NEW t \in Threads, NEW e \in Entries, NEW tag, e.tag = "open" => tag = "open"
  PROVE  LET q == Append(w[t].saved, e)
         IN  \A k \in DOMAIN q : q[k].tag = "open" =>
               (k \in DOMAIN w[t].saved /\ q[k] = w[t].saved[k]) \/ tag = "open"
<1> DEFINE s == w[t].saved
           q == Append(s, e)
           n == Len(s) + 1
<1>1. /\ \A k \in DOMAIN s : k \in DOMAIN q /\ q[k] = s[k]
      /\ n \in DOMAIN q /\ q[n] = e
      /\ \A k \in DOMAIN q : k \in DOMAIN s \/ k = n
  BY Locals, Appended
<1> HIDE DEF q, n, s
<1>2. \A k \in DOMAIN q : q[k].tag = "open" => (k \in DOMAIN s /\ q[k] = s[k]) \/ tag = "open"
  BY <1>1
<1> QED
  BY <1>2 DEF q, s

LEMMA PushTest ==
  ASSUME IInv, ChildInv, TestInv, NEW t \in Threads, NEW e \in Entries, Note(t, Push(t, e)),
         pc[t] \in {"apply", "mark"}, w[t].i \in DOMAIN list[t], e.tag # "open",
         UNCHANGED <<table, list, ret, child>>
  PROVE  TestInv'
<1> DEFINE v == Append(w[t].saved, e)
           work == Push(t, e)
<1>1. Form(w[t]) /\ work = [w[t] EXCEPT !.saved = v]
  BY Locals DEF Push
<1>2. \A k \in DOMAIN v : v[k].tag = "open" =>
        (k \in DOMAIN w[t].saved /\ v[k] = w[t].saved[k]) \/ Action(t).tag = "open"
  BY SavedMore
<1> HIDE DEF v, work
<1>3. /\ Form(work) /\ work.i = w[t].i /\ work.cwd = w[t].cwd /\ work.saved = v
      /\ work.std = w[t].std /\ work.alone = w[t].alone
  BY <1>1, SavedSet
<1>4. Note(t, work)
  BY DEF work
<1> QED
  BY <1>2, <1>3, <1>4, NoteTest

LEMMA DoCloseTest ==
  ASSUME IInv, ChildInv, TestInv, NEW t \in Threads, DoClose(t)
  PROVE  TestInv'
<1>1. /\ UNCHANGED <<table, list, ret, child>> /\ pc[t] = "apply" /\ w[t].i \in DOMAIN list[t]
      /\ Action(t).tag = "close" /\ Busy(t)
  BY AtFacts DEF DoClose, Busy
<1>2. CASE Action(t).fd \notin DOMAIN fds
  <2>1. Fail(t, "EINVAL")
    BY <1>2 DEF DoClose
  <2>2. ~Surely(t)
    BY <1>1, <1>2, SurelyOpen
  <2> QED
    BY <1>1, <2>1, <2>2, FailTest
<1>3. CASE Goto(t, "mark") /\ w' = w
  BY <1>1, <1>3, GotoTest
<1>4. CASE Note(t, Push(t, NotMine))
  <2>1. NotMine \in Entries /\ NotMine.tag # "open"
    BY DEF NotMine, Entries
  <2> QED
    BY <1>1, <1>4, <2>1, PushTest
<1> QED
  BY <1>2, <1>3, <1>4 DEF DoClose

LEMMA MarkCloseTest ==
  ASSUME IInv, ChildInv, TestInv, NEW t \in Threads, MarkClose(t)
  PROVE  TestInv'
<1>1. /\ UNCHANGED <<table, list, ret, child>> /\ pc[t] = "mark" /\ w[t].i \in DOMAIN list[t]
      /\ Action(t).fd \in DOMAIN fds /\ Action(t).fd \in Fds
  BY DEF MarkClose, IInv, MarkInv, TableInv, Action
<1>2. Note(t, Push(t, SavedFlag(Action(t).fd)))
  BY <1>1 DEF MarkClose
<1>3. SavedFlag(Action(t).fd) \in Entries /\ SavedFlag(Action(t).fd).tag # "open"
  BY <1>1 DEF SavedFlag, Entries
<1> QED
  BY <1>1, <1>2, <1>3, PushTest

LEMMA DoDup2Test ==
  ASSUME IInv, ChildInv, TestInv, NEW t \in Threads, DoDup2(t)
  PROVE  TestInv'
<1> DEFINE a == Action(t)
           q == Append(w[t].pairs, <<a.fd, a.newfd>>)
           work == [w[t] EXCEPT !.pairs = q]
<1>1. /\ UNCHANGED <<table, list, ret, child>> /\ pc[t] = "apply" /\ w[t].i \in DOMAIN list[t]
      /\ Action(t).tag = "dup2"
  BY AtFacts DEF DoDup2
<1>2. CASE a.fd \notin DOMAIN fds
  <2>1. Fail(t, "EINVAL")
    BY <1>2 DEF DoDup2
  <2>2. ~Surely(t)
    BY <1>1, <1>2, SurelyOpen
  <2> QED
    BY <1>1, <2>1, <2>2, FailTest
<1>3. CASE a.fd \in DOMAIN fds
  <2>1. Note(t, work)
    BY <1>3 DEF DoDup2
  <2>2. Form(w[t])
    BY Locals
  <2> HIDE DEF q
  <2>3. /\ Form(work) /\ work.i = w[t].i /\ work.cwd = w[t].cwd /\ work.saved = w[t].saved
        /\ work.std = w[t].std /\ work.alone = w[t].alone
    BY <2>2, PairsSet
  <2> HIDE DEF work
  <2> QED
    BY <1>1, <2>1, <2>3, NoteTest
<1> QED
  BY <1>2, <1>3

\* An open action in such a list finds its file and a free descriptor: the call is
\* alone and has opened nothing yet.
LEMMA SurelyOpens ==
  ASSUME IInv, ChildInv, TestInv, NEW t \in Threads, Surely(t), pc[t] = "apply",
         w[t].i \in DOMAIN list[t], Action(t).tag = "open"
  PROVE  Resolve(Home, Merged(w[t].cwd, Action(t).path)) \in Existing /\ Fds \ DOMAIN fds # {}
<1>1. /\ File(Action(t).path) \in Existing /\ Fds \ DOMAIN table.fds # {}
      /\ \A a \in Done(t) : a.tag \notin {"open", "chdir", "fchdir"}
  BY DEF Surely, Feasible, Action, Done
<1>2. /\ w[t].cwd = {} /\ \A k \in DOMAIN w[t].saved : w[t].saved[k].tag # "open"
  BY <1>1 DEF TestInv, ValidOK, Busy
<1>3. Merged(w[t].cwd, Action(t).path) = Action(t).path
  BY <1>2 DEF Merged
<1>4. ASSUME NEW d \in DOMAIN fds \ DOMAIN table.fds PROVE FALSE
  <2>1. PICK u \in Threads : \E k \in DOMAIN w[u].saved : w[u].saved[k] = [tag |-> "open", fd |-> d]
    BY <1>4 DEF IInv, TableInv, Undone
  <2>2. PICK k \in DOMAIN w[u].saved : w[u].saved[k] = [tag |-> "open", fd |-> d]
    BY <2>1
  <2>3. u # t
    BY <1>2, <2>2
  <2>4. pc[u] = "idle"
    BY <2>3 DEF ChildInv, CallOK, AloneOK, Surely
  <2>5. w[u].saved = <<>>
    BY <2>4 DEF IInv, SavedInv
  <2> QED
    BY <2>2, <2>5
<1> QED
  BY <1>1, <1>3, <1>4 DEF File

LEMMA DoOpenTest ==
  ASSUME IInv, ChildInv, TestInv, NEW t \in Threads, DoOpen(t)
  PROVE  TestInv'
<1> DEFINE a    == Action(t)
           file == Resolve(Home, Merged(w[t].cwd, a.path))
           free == Fds \ DOMAIN fds
           fd   == Lowest(free)
           q    == Append(w[t].pairs, <<fd, a.fd>>)
           v    == Append(w[t].saved, SavedOpen(fd))
           y    == [w[t] EXCEPT !.saved = v]
           work == [y EXCEPT !.pairs = q]
<1>1. /\ UNCHANGED <<table, list, ret, child>> /\ pc[t] = "apply" /\ w[t].i \in DOMAIN list[t]
      /\ Action(t).tag = "open"
  BY AtFacts DEF DoOpen
<1>2. CASE ~(file \in Existing /\ free # {})
  <2>1. Fail(t, "EINVAL")
    BY <1>2 DEF DoOpen
  <2>2. ~Surely(t)
    BY <1>1, <1>2, SurelyOpens
  <2> QED
    BY <1>1, <2>1, <2>2, FailTest
<1>3. CASE file \in Existing /\ free # {}
  <2>1. Note(t, [Push(t, SavedOpen(fd)) EXCEPT !.pairs = Append(@, <<fd, a.fd>>)])
    BY <1>3 DEF DoOpen
  <2>2. Form(w[t])
    BY Locals
  <2>3. Push(t, SavedOpen(fd)).pairs = w[t].pairs
    BY <2>2 DEF Form, Push
  <2>4. Note(t, work)
    BY <2>1, <2>3 DEF Push
  <2>5. fd \in Fds
    <3>1. free \in SUBSET Nat
      BY PosixSpawnAssumption DEF Fds
    <3> QED
      BY <1>3, <3>1, LowestIs
  <2>6. SavedOpen(fd) \in Entries
    BY <2>5 DEF SavedOpen, Entries
  <2>7. \A k \in DOMAIN v : v[k].tag = "open" =>
          (k \in DOMAIN w[t].saved /\ v[k] = w[t].saved[k]) \/ Action(t).tag = "open"
    BY <1>1, <2>6, SavedMore
  <2> HIDE DEF fd, q, v
  <2>8. /\ Form(y) /\ y.i = w[t].i /\ y.cwd = w[t].cwd /\ y.saved = v
        /\ y.std = w[t].std /\ y.alone = w[t].alone
    BY <2>2, SavedSet
  <2> HIDE DEF y
  <2>9. /\ Form(work) /\ work.i = y.i /\ work.cwd = y.cwd /\ work.saved = y.saved
        /\ work.std = y.std /\ work.alone = y.alone
    BY <2>8, PairsSet
  <2> HIDE DEF work
  <2> QED
    BY <1>1, <2>4, <2>7, <2>8, <2>9, NoteTest
<1> QED
  BY <1>2, <1>3

LEMMA CwdTest ==
  ASSUME IInv, ChildInv, TestInv, NEW t \in Threads, NEW c, Note(t, [w[t] EXCEPT !.cwd = {c}]),
         pc[t] = "apply", w[t].i \in DOMAIN list[t], Action(t).tag \in {"chdir", "fchdir"},
         UNCHANGED <<table, list, ret, child>>
  PROVE  TestInv'
<1> DEFINE e == {c}
           work == [w[t] EXCEPT !.cwd = e]
<1>1. Form(w[t]) /\ Note(t, work)
  BY Locals
<1> HIDE DEF e
<1>2. /\ Form(work) /\ work.i = w[t].i /\ work.saved = w[t].saved
      /\ work.std = w[t].std /\ work.alone = w[t].alone
  BY <1>1, CwdSet
<1> HIDE DEF work
<1> QED
  BY <1>1, <1>2, NoteTest

LEMMA DoDirTest ==
  ASSUME IInv, ChildInv, TestInv, NEW t \in Threads, DoChdir(t) \/ DoFchdir(t)
  PROVE  TestInv'
<1>1. /\ UNCHANGED <<table, list, ret, child>> /\ pc[t] = "apply" /\ w[t].i \in DOMAIN list[t]
      /\ Action(t).tag \in {"chdir", "fchdir"}
  BY AtFacts DEF DoChdir, DoFchdir
<1>2. CASE DoChdir(t)
  BY <1>1, <1>2, CwdTest DEF DoChdir
<1>3. CASE DoFchdir(t)
  <2>1. CASE Action(t).fd \in DOMAIN fds
    BY <1>1, <1>3, <2>1, CwdTest DEF DoFchdir
  <2>2. CASE Action(t).fd \notin DOMAIN fds
    <3>1. Action(t).tag = "fchdir"
      BY <1>3, AtFacts DEF DoFchdir
    <3>2. ~Surely(t)
      BY <1>1, <2>2, <3>1, SurelyOpen
    <3> QED
      BY <1>1, <1>3, <2>2, <3>2, FailTest DEF DoFchdir
  <2> QED
    BY <2>1, <2>2
<1> QED
  BY <1>2, <1>3

LEMMA AllocTest ==
  ASSUME IInv, TestInv, NEW t \in Threads, Alloc(t)
  PROVE  TestInv'
<1>1. UNCHANGED <<table, list, child>> /\ pc[t] = "alloc" /\ Busy(t)
  BY DEF Alloc, Busy
<1>2. CASE Goto(t, "apply") /\ UNCHANGED <<w, ret>>
  BY <1>1, <1>2, GotoTest
<1>3. CASE Return(t, "ENOMEM")
  BY <1>1, <1>3, ReturnTest
<1> QED
  BY <1>2, <1>3 DEF Alloc

LEMMA AppliedTest ==
  ASSUME IInv, TestInv, NEW t \in Threads, Applied(t)
  PROVE  TestInv'
<1>1. UNCHANGED <<table, list, w, ret, child>> /\ pc[t] = "apply" /\ Busy(t)
  BY DEF Applied, Busy
<1> QED
  BY <1>1, GotoTest DEF Applied

LEMMA SearchTest ==
  ASSUME IInv, TestInv, NEW t \in Threads, Search(t)
  PROVE  TestInv'
<1>1. UNCHANGED <<table, list, ret, child>> /\ pc[t] = "spawn" /\ Busy(t)
  BY DEF Search, Busy
<1>2. CASE Fail(t, "ENOENT")
  BY <1>1, <1>2, FailTest
<1>3. CASE Goto(t, "collect") /\ ~w[t].noinherit /\ w' = w
  BY <1>1, <1>3, GotoTest
<1>4. CASE Goto(t, "start") /\ ~(w[t].given /\ ~w[t].noinherit) /\ w' = w
  BY <1>1, <1>4, GotoTest
<1> QED
  BY <1>2, <1>3, <1>4 DEF Search

\* The table of a call that is alone and has nothing to restore is the program's.
LEMMA AloneTable ==
  ASSUME IInv, ChildInv, NEW t \in Threads, w[t].alone, pc[t] # "idle", w[t].saved = <<>>
  PROVE  fds = table.fds /\ cloexec = table.cloexec
<1>1. ASSUME NEW tag, NEW d, Undone(tag, d) PROVE FALSE
  <2>1. PICK u \in Threads : \E k \in DOMAIN w[u].saved : w[u].saved[k] = [tag |-> tag, fd |-> d]
    BY <1>1 DEF Undone
  <2>2. u # t
    BY <2>1
  <2>3. pc[u] = "idle"
    BY <2>2 DEF ChildInv, CallOK, AloneOK
  <2>4. w[u].saved = <<>>
    BY <2>3 DEF IInv, SavedInv
  <2> QED
    BY <2>1, <2>4
<1>2. /\ fds = [fd \in DOMAIN fds |-> fds[fd]] /\ DOMAIN table.fds \subseteq DOMAIN fds
      /\ \A fd \in DOMAIN table.fds : fds[fd] = table.fds[fd]
      /\ cloexec \subseteq DOMAIN fds /\ table.cloexec \subseteq cloexec
  BY DEF IInv, TableInv
<1>3. DOMAIN fds = DOMAIN table.fds
  BY <1>1, <1>2 DEF IInv, TableInv
<1>4. cloexec = table.cloexec
  BY <1>1, <1>2, <1>3 DEF IInv, TableInv
<1>5. table.fds = [fd \in DOMAIN table.fds |-> table.fds[fd]]
  BY PosixSpawnAssumption DEF IInv, TypeInv
<1> QED
  BY <1>2, <1>3, <1>4, <1>5

\* The pairs of an array.
LEMMA SimpleIs ==
  ASSUME NEW std \in Stdfds
  PROVE  /\ DOMAIN Simple(std) = 1..3 /\ Targets(Simple(std)) = 0..2
         /\ \A k \in 1..3 : Simple(std)[k] = <<IF std[k] = 0 THEN k - 1 ELSE std[k], k - 1>>
<1>1. /\ DOMAIN Simple(std) = 1..3
      /\ \A k \in 1..3 : Simple(std)[k] = <<IF std[k] = 0 THEN k - 1 ELSE std[k], k - 1>>
  BY DEF Simple
<1>2. Targets(Simple(std)) = {k - 1 : k \in 1..3}
  BY <1>1 DEF Targets
<1>3. {k - 1 : k \in 1..3} = 0..2
  OBVIOUS
<1> QED
  BY <1>1, <1>2, <1>3

LEMMA CollectTest ==
  ASSUME IInv, ChildInv, TestInv, NEW t \in Threads, Collect(t)
  PROVE  TestInv'
<1> DEFINE p    == w[t].pairs
           S    == PassedOn(p)
           pass == SetToSeq(S)
           more == [k \in DOMAIN pass |-> <<pass[k], pass[k]>>]
           q    == p \o more
           x    == [w[t] EXCEPT !.pairs = q]
<1>1. /\ UNCHANGED <<table, list, ret, child>> /\ pc[t] = "collect" /\ Busy(t)
      /\ ArrayOK(t) /\ ValidOK(t)
  BY DEF Collect, Busy, TestInv
<1>2. CASE Fail(t, "ENOMEM")
  BY <1>1, <1>2, FailTest
<1>3. CASE w' = [w EXCEPT ![t] = x] /\ Goto(t, "start")
  <2>1. Form(w[t]) /\ p \in Seq(Pairs)
    BY Locals
  <2>2. S \in SUBSET Fds
    BY DEF PassedOn, IInv, TableInv
  <2>3. Continues(q, p, S)
    <3>1. PassPairs(more, S)
      BY <2>2, PassedPairs
    <3> HIDE DEF p, more, S
    <3> QED
      BY <2>1, <3>1, PairsPassed
  <2> HIDE DEF q
  <2>4. /\ Form(x) /\ x.i = w[t].i /\ x.pairs = q /\ x.cwd = w[t].cwd
        /\ x.saved = w[t].saved /\ x.given = w[t].given
        /\ x.noinherit = w[t].noinherit /\ x.std = w[t].std
        /\ x.alone = w[t].alone /\ x.err = w[t].err
    BY <2>1, PairsSet
  <2> HIDE DEF x
  <2>5. w'[t] = x /\ \A u \in Threads \ {t} : w'[u] = w[u]
    BY <1>3, WorkIs
  <2>6. pc'[t] = "start" /\ \A u \in Threads \ {t} : pc'[u] = pc[u]
    BY <1>3, GotoIs
  <2>7. ArrayOK(t)'
    <3> SUFFICES ASSUME w[t].std # {} PROVE ArrayOK(t)'
      BY <2>4, <2>5 DEF ArrayOK
    <3>1. PICK std \in Stdfds :
            /\ w[t].std = {std} /\ w[t].given /\ w[t].saved = <<>> /\ p = Simple(std)
            /\ ~w[t].noinherit
      BY <1>1 DEF ArrayOK
    <3>2. ASSUME w[t].alone PROVE Continues(q, Simple(std), Rest(t)')
      <4>1. S = PassedRest
        <5>1. fds = table.fds /\ cloexec = table.cloexec
          BY <1>1, <3>1, <3>2, AloneTable
        <5> QED
          BY <3>1, <5>1, SimpleIs DEF PassedOn, PassedRest
      <4>2. Continues(q, Simple(std), PassedRest)
        BY <2>3, <3>1, <4>1
      <4>3. PassedRest' = PassedRest
        BY <1>1 DEF PassedRest
      <4> QED
        BY <2>4, <2>5, <3>1, <4>2, <4>3 DEF Rest
    <3> QED
      BY <2>4, <2>5, <2>6, <3>1, <3>2 DEF ArrayOK
  <2>8. ValidOK(t)'
    <3>1. (Surely(t)' => Surely(t)) /\ Done(t)' = Done(t)
      BY <1>1, <2>4, <2>5 DEF Surely, Done
    <3> QED
      BY <1>1, <2>4, <2>5, <2>6, <3>1 DEF ValidOK
  <2>9. Others(t)
    BY <1>1, <2>5, <2>6 DEF Others, Kept
  <2> QED
    BY <2>7, <2>8, <2>9, OthersTest
<1> QED
  BY <1>2, <1>3 DEF Collect

\* The child of an array: the later pairs are for other descriptors than the three.
LEMMA ArrayGiven ==
  ASSUME IInv, NEW std \in Stdfds, NEW S, S \cap (0..2) = {}, NEW q,
         Continues(q, Simple(std), S)
  PROVE  /\ DOMAIN Given(q) = 0..2 \cup S
         /\ \A d \in 0..2 : Given(q)[d] = fds[IF std[d + 1] = 0 THEN d ELSE std[d + 1]]
         /\ \A d \in S : Given(q)[d] = fds[d]
<1> DEFINE p == Simple(std)
<1>1. /\ DOMAIN p = 1..3 /\ Targets(p) = 0..2
      /\ \A k \in 1..3 : p[k] = <<IF std[k] = 0 THEN k - 1 ELSE std[k], k - 1>>
  BY SimpleIs
<1> HIDE DEF p
<1>2. /\ q \in Seq(Pairs)
      /\ \A k \in DOMAIN p : k \in DOMAIN q /\ q[k] = p[k]
      /\ \A k \in DOMAIN q : k \in DOMAIN p \/ \E d \in S : q[k] = <<d, d>>
      /\ \A d \in S : \E k \in DOMAIN q : q[k] = <<d, d>>
  BY DEF Continues, p
<1>3. DOMAIN Given(q) = Targets(q) /\ \A d \in Targets(q) : Given(q)[d] = fds[LastOf(q, d)]
  BY DEF Given
<1>4. ASSUME NEW d \in 0..2
      PROVE  d \in Targets(q) /\ LastOf(q, d) = IF std[d + 1] = 0 THEN d ELSE std[d + 1]
  <2>1. d + 1 \in 1..3 /\ d + 1 - 1 = d
    OBVIOUS
  <2>2. d + 1 \in DOMAIN q /\ q[d + 1] = <<IF std[d + 1] = 0 THEN d ELSE std[d + 1], d>>
    BY <1>1, <1>2, <2>1
  <2>3. ASSUME NEW j \in DOMAIN q, j > d + 1 PROVE q[j][2] # d
    <3>1. CASE j \in DOMAIN p
      BY <1>1, <1>2, <2>3, <3>1
    <3>2. CASE j \notin DOMAIN p
      <4>1. PICK e \in S : q[j] = <<e, e>>
        BY <1>2, <3>2
      <4> QED
        BY <4>1
    <3> QED
      BY <3>1, <3>2
  <2>4. LastAt(q, d, d + 1)
    BY <2>2, <2>3 DEF LastAt
  <2>5. LastOf(q, d) = q[d + 1][1]
    BY <1>2, <2>2, <2>4, LastOfIs
  <2> QED
    BY <2>2, <2>5 DEF Targets
<1>5. ASSUME NEW d \in S PROVE d \in Targets(q) /\ LastOf(q, d) = d
  <2>1. d \in Targets(q)
    <3>1. PICK k \in DOMAIN q : q[k] = <<d, d>>
      BY <1>2
    <3> QED
      BY <3>1 DEF Targets
  <2>2. PICK k \in DOMAIN q : LastAt(q, d, k)
    BY <1>2, <2>1, LastExists
  <2>3. k \notin DOMAIN p
    <3>1. d \notin 0..2
      OBVIOUS
    <3> QED
      BY <1>1, <1>2, <2>2, <3>1 DEF LastAt
  <2>4. q[k] = <<d, d>>
    BY <1>2, <2>2, <2>3 DEF LastAt
  <2> QED
    BY <1>2, <2>1, <2>2, <2>4, LastOfIs
<1>6. Targets(q) \subseteq 0..2 \cup S
  <2> SUFFICES ASSUME NEW k \in DOMAIN q PROVE q[k][2] \in 0..2 \cup S
    BY DEF Targets
  <2>1. CASE k \in DOMAIN p
    BY <1>1, <1>2, <2>1
  <2>2. CASE k \notin DOMAIN p
    BY <1>2, <2>2
  <2> QED
    BY <2>1, <2>2
<1> QED
  BY <1>3, <1>4, <1>5, <1>6

LEMMA StartTest ==
  ASSUME IInv, ChildInv, TestInv, NEW t \in Threads, Start(t)
  PROVE  TestInv'
<1> DEFINE f == IF w[t].given THEN Given(w[t].pairs) ELSE Without(fds, cloexec)
           dir == Dir(w[t].cwd)
<1>1. /\ UNCHANGED <<table, list, ret>> /\ pc[t] = "start" /\ Busy(t)
      /\ ArrayOK(t) /\ ValidOK(t)
  BY DEF Start, Busy, TestInv
<1>2. CASE Fail(t, "ENOENT") /\ child' = child
  BY <1>1, <1>2, FailTest
<1>3. CASE /\ child' = [child EXCEPT ![t] = [fds |-> f, dir |-> dir]]
           /\ Sources(w[t].pairs) \subseteq DOMAIN fds
           /\ Goto(t, "restore") /\ w' = w
  <2>1. pc'[t] = "restore" /\ \A u \in Threads \ {t} : pc'[u] = pc[u]
    BY <1>3, GotoIs
  <2> HIDE DEF f, dir
  <2>2. child'[t].fds = f /\ \A u \in Threads \ {t} : child'[u] = child[u]
    BY <1>3 DEF ChildInv
  <2>3. ArrayOK(t)'
    <3> SUFFICES ASSUME w[t].std # {} PROVE ArrayOK(t)'
      BY <1>3 DEF ArrayOK
    <3>1. PICK std \in Stdfds :
            /\ w[t].std = {std} /\ w[t].given /\ w[t].saved = <<>>
            /\ w[t].alone => Continues(w[t].pairs, Simple(std), Rest(t))
      BY <1>1 DEF ArrayOK
    <3>2. ASSUME w[t].alone PROVE ArrayChild(t, std)'
      <4> DEFINE R == Rest(t)
      <4>1. fds = table.fds
        BY <1>1, <3>1, <3>2, AloneTable
      <4>2. R \cap (0..2) = {} /\ Rest(t)' = R
        BY <1>1, <1>3 DEF Rest, PassedRest
      <4> HIDE DEF R
      <4>3. /\ DOMAIN f = 0..2 \cup R
            /\ \A d \in 0..2 : f[d] = fds[IF std[d + 1] = 0 THEN d ELSE std[d + 1]]
            /\ \A d \in R : f[d] = fds[d]
        <5> DEFINE q == w[t].pairs
        <5>1. f = Given(q) /\ Continues(q, Simple(std), R)
          BY <3>1, <3>2 DEF f, R
        <5>2. R \cap (0..2) = {}
          BY <4>2
        <5> HIDE DEF q
        <5>3. /\ DOMAIN Given(q) = 0..2 \cup R
              /\ \A d \in 0..2 : Given(q)[d] = fds[IF std[d + 1] = 0 THEN d ELSE std[d + 1]]
              /\ \A d \in R : Given(q)[d] = fds[d]
          BY <5>1, <5>2, ArrayGiven
        <5> QED
          BY <5>1, <5>3
      <4> QED
        BY <1>1, <2>2, <4>1, <4>2, <4>3 DEF ArrayChild
    <3> QED
      BY <1>3, <2>1, <3>1, <3>2 DEF ArrayOK, Busy
  <2>4. ValidOK(t)'
    <3>1. Surely(t)' => Surely(t)
      BY <1>1, <1>3 DEF Surely
    <3>2. w[t].err = "ok"
      BY <1>1 DEF ChildInv, CallOK, PlaceOK
    <3> QED
      BY <1>3, <2>1, <3>1, <3>2 DEF ValidOK, Busy
  <2>5. Others(t)
    BY <1>1, <1>3, <2>1, <2>2 DEF Others, Kept
  <2> QED
    BY <2>3, <2>4, <2>5, OthersTest
<1> QED
  BY <1>2, <1>3 DEF Start, Dir

LEMMA RestoreTest ==
  ASSUME IInv, TestInv, NEW t \in Threads, Restore(t)
  PROVE  TestInv'
<1> DEFINE f == Front(w[t].saved)
           x == [w[t] EXCEPT !.saved = f]
<1>1. w' = [w EXCEPT ![t] = x] /\ pc' = pc /\ pc[t] = "restore" /\ Form(w[t])
  BY Locals DEF Restore
<1>2. UNCHANGED <<table, list, ret, child>> /\ ArrayOK(t) /\ ValidOK(t)
  BY DEF Restore, TestInv
<1> HIDE DEF f
<1>3. /\ x.std = w[t].std /\ x.noinherit = w[t].noinherit /\ x.alone = w[t].alone
      /\ x.err = w[t].err
  BY <1>1, SavedSet
<1> HIDE DEF x
<1>4. w'[t] = x /\ \A u \in Threads \ {t} : w'[u] = w[u]
  BY <1>1, WorkIs
<1>5. ArrayOK(t)'
  <2>1. \A std : ArrayChild(t, std)' = ArrayChild(t, std)
    BY <1>2, <1>3, <1>4 DEF ArrayChild, Rest, PassedRest
  <2> QED
    BY <1>1, <1>2, <1>3, <1>4, <2>1 DEF ArrayOK, Busy
<1>6. ValidOK(t)'
  <2>1. Surely(t)' => Surely(t)
    BY <1>2, <1>3, <1>4 DEF Surely
  <2> QED
    BY <1>1, <1>2, <1>3, <1>4, <2>1 DEF ValidOK, Busy
<1>7. Others(t)
  BY <1>1, <1>2, <1>4 DEF Others, Kept
<1> QED
  BY <1>5, <1>6, <1>7, OthersTest

LEMMA EndTest ==
  ASSUME IInv, TestInv, NEW t \in Threads, End(t)
  PROVE  TestInv'
BY ReturnTest DEF End

\* A call begins.
LEMMA EnterTest ==
  ASSUME IInv, TestInv, NEW t \in Threads, NEW x, NEW l \in {"alloc", "spawn"},
         Enter(t, x), Goto(t, l), Form(x), UNCHANGED <<table, list, ret, child>>,
         x.saved = <<>>, x.cwd = {},
         x.std # {} => /\ l = "spawn" /\ x.given
                       /\ \E std \in Stdfds : x.std = {std} /\ x.pairs = Simple(std)
  PROVE  TestInv'
<1>1. /\ w'[t].pairs = x.pairs /\ w'[t].saved = x.saved /\ w'[t].cwd = x.cwd
      /\ w'[t].given = x.given /\ w'[t].std = x.std
      /\ \A u \in Threads \ {t} : Kept(w[u], w'[u])
  BY EnterIs
<1>2. pc'[t] = l /\ \A u \in Threads \ {t} : pc'[u] = pc[u]
  BY GotoIs
<1>3. ArrayOK(t)'
  BY <1>1, <1>2 DEF ArrayOK, Busy
<1>4. ValidOK(t)'
  BY <1>1, <1>2 DEF ValidOK, Busy
<1>5. Others(t)
  BY <1>1, <1>2 DEF Others
<1> QED
  BY <1>3, <1>4, <1>5, OthersTest

\* What a thread does outside the library, without a child or a refusal.
LEMMA OutsideTest ==
  ASSUME TestInv, NEW t \in Threads, pc[t] = "idle", pc' = pc, table' = table,
         ret'[t] \notin {"ok", "EINVAL"}, w'[t].std = {} \/ w'[t].std = w[t].std,
         \A u \in Threads \ {t} :
           list'[u] = list[u] /\ w'[u] = w[u] /\ ret'[u] = ret[u] /\ child'[u] = child[u]
  PROVE  TestInv'
<1>1. ArrayOK(t)'
  <2>1. ArrayOK(t)
    BY DEF TestInv
  <2> QED
    BY <2>1 DEF ArrayOK, Busy
<1>2. ValidOK(t)'
  BY DEF ValidOK, Busy
<1>3. Others(t)
  BY DEF Others, Kept
<1> QED
  BY <1>1, <1>2, <1>3, OthersTest

LEMMA RefusedTest ==
  ASSUME IInv, TestInv, NEW t \in Threads, NEW r, r \notin {"ok", "EINVAL"},
         ret' = [ret EXCEPT ![t] = r], pc[t] = "idle", UNCHANGED <<table, list, pc, w, child>>
  PROVE  TestInv'
<1>1. ret'[t] = r /\ \A u \in Threads \ {t} : ret'[u] = ret[u]
  <2>1. ret \in [Threads -> Results]
    BY Locals
  <2> QED
    BY <2>1
<1> QED
  BY <1>1, OutsideTest

LEMMA CallTest ==
  ASSUME IInv, TestInv, NEW t \in Threads, Call(t)
  PROVE  TestInv'
<1>1. UNCHANGED <<table, list, child>> /\ pc[t] = "idle"
  BY DEF Call, MayCall, Free
<1>2. PICK loaded \in BOOLEAN, given \in BOOLEAN, usePath \in BOOLEAN, flags \in Attrs :
        IF loaded /\ flags = {}
          THEN /\ Goto(t, IF given THEN "alloc" ELSE "spawn")
               /\ Enter(t, [NoWork EXCEPT !.i = 1, !.given = given, !.usePath = usePath])
               /\ UNCHANGED ret
          ELSE /\ ret' = [ret EXCEPT ![t] = IF loaded THEN "ENOSYS" ELSE "libc"]
               /\ UNCHANGED <<pc, w>>
  BY DEF Call
<1>3. CASE loaded /\ flags = {}
  <2> DEFINE z1 == [NoWork EXCEPT !.i = 1]
             z2 == [z1 EXCEPT !.given = given]
             z3 == [z2 EXCEPT !.usePath = usePath]
             l  == IF given THEN "alloc" ELSE "spawn"
             Empty(z) == Form(z) /\ z.saved = <<>> /\ z.std = {} /\ z.cwd = {}
  <2>1. Goto(t, l) /\ Enter(t, z3) /\ ret' = ret
    BY <1>2, <1>3
  <2>2. Empty(z1)
    <3>1. NoWork.std = {} /\ NoWork.cwd = {}
      BY DEF NoWork
    <3> QED
      BY <3>1, NoWorkForm DEF Form
  <2> HIDE DEF z1
  <2>3. Empty(z2)
    BY <2>2 DEF Form
  <2> HIDE DEF z2
  <2>4. Empty(z3)
    BY <2>3 DEF Form
  <2> HIDE DEF z3
  <2>5. l \in {"alloc", "spawn"}
    OBVIOUS
  <2> HIDE DEF l
  <2> QED
    BY <1>1, <2>1, <2>4, <2>5, EnterTest
<1>4. CASE ~(loaded /\ flags = {})
  <2> DEFINE r == IF loaded THEN "ENOSYS" ELSE "libc"
  <2>1. r \notin {"ok", "EINVAL"}
    OBVIOUS
  <2>2. ret' = [ret EXCEPT ![t] = r] /\ pc' = pc /\ w' = w
    BY <1>2, <1>4
  <2> HIDE DEF r
  <2> QED
    BY <1>1, <2>1, <2>2, RefusedTest
<1> QED
  BY <1>3, <1>4

LEMMA Spawn2Test ==
  ASSUME IInv, TestInv, NEW t \in Threads, Spawn2(t)
  PROVE  TestInv'
<1>1. UNCHANGED <<table, list, child>> /\ pc[t] = "idle"
  BY DEF Spawn2, MayCall, Free
<1>2. PICK std \in Stdfds, noinherit \in BOOLEAN, usePath \in BOOLEAN, ok \in BOOLEAN :
        IF ok
          THEN /\ Goto(t, "spawn")
               /\ Enter(t, [NoWork EXCEPT !.pairs = Simple(std), !.std = {std},
                              !.given = TRUE, !.noinherit = noinherit, !.usePath = usePath])
               /\ UNCHANGED ret
          ELSE /\ ~noinherit
               /\ ret' = [ret EXCEPT ![t] = "ENOMEM"] /\ UNCHANGED <<pc, w>>
  BY DEF Spawn2
<1>3. CASE ok
  <2> DEFINE p  == Simple(std)
             z1 == [NoWork EXCEPT !.pairs = p]
             c  == {std}
             g  == TRUE
             z2 == [z1 EXCEPT !.std = c]
             z3 == [z2 EXCEPT !.given = g]
             z4 == [z3 EXCEPT !.noinherit = noinherit]
             z5 == [z4 EXCEPT !.usePath = usePath]
             Array(z) == Form(z) /\ z.saved = <<>> /\ z.cwd = {} /\ z.pairs = p
  <2>1. Goto(t, "spawn") /\ Enter(t, z5) /\ ret' = ret
    BY <1>2, <1>3
  <2>2. p = Simple(std) /\ c = {std} /\ g
    OBVIOUS
  <2> HIDE DEF p, c, g
  <2>3. Array(z1)
    <3>1. NoWork.cwd = {}
      BY DEF NoWork
    <3> QED
      BY <3>1, NoWorkForm DEF Form
  <2> HIDE DEF z1
  <2>4. Array(z2) /\ z2.std = c
    BY <2>3 DEF Form
  <2> HIDE DEF z2
  <2>5. Array(z3) /\ z3.std = c /\ z3.given = g
    BY <2>4 DEF Form
  <2> HIDE DEF z3
  <2>6. Array(z4) /\ z4.std = c /\ z4.given = g
    BY <2>5 DEF Form
  <2> HIDE DEF z4
  <2>7. Array(z5) /\ z5.std = c /\ z5.given = g
    BY <2>6 DEF Form
  <2> HIDE DEF z5
  <2>8. \E s \in Stdfds : z5.std = {s} /\ z5.pairs = Simple(s)
    BY <2>2, <2>7
  <2>9. z5.given
    BY <2>2, <2>7, Zenon
  <2> QED
    BY <1>1, <2>1, <2>7, <2>8, <2>9, EnterTest
<1>4. CASE ~ok
  <2>1. ret' = [ret EXCEPT ![t] = "ENOMEM"] /\ pc' = pc /\ w' = w
    BY <1>2, <1>4
  <2> QED
    BY <1>1, <2>1, RefusedTest
<1> QED
  BY <1>3, <1>4

LEMMA AddTest ==
  ASSUME IInv, TestInv, NEW t \in Threads, NEW a, Add(t, a)
  PROVE  TestInv'
<1>1. pc[t] = "idle" /\ ret[t] = "none" /\ UNCHANGED <<table, pc, w, ret, child>>
  BY DEF Add, MayAdd
<1>2. \A u \in Threads \ {t} : list'[u] = list[u]
  <2>1. list \in [Threads -> Seq(AllActions)]
    BY DEF IInv, TypeInv
  <2> QED
    BY <2>1 DEF Add
<1> QED
  BY <1>1, <1>2, OutsideTest

LEMMA DestroyTest ==
  ASSUME IInv, ChildInv, TestInv, NEW t \in Threads, Destroy(t)
  PROVE  TestInv'
<1>1. /\ pc[t] = "idle" /\ UNCHANGED <<table, pc>>
      /\ list' = [list EXCEPT ![t] = <<>>] /\ ret' = [ret EXCEPT ![t] = "none"]
      /\ w' = [w EXCEPT ![t] = NoWork] /\ child' = [child EXCEPT ![t] = NoChild]
  BY DEF Destroy
<1>2. list \in [Threads -> Seq(AllActions)] /\ ret \in [Threads -> Results]
  BY DEF IInv, TypeInv
<1>3. /\ ret'[t] = "none" /\ w'[t] = NoWork
      /\ \A u \in Threads \ {t} :
           list'[u] = list[u] /\ w'[u] = w[u] /\ ret'[u] = ret[u] /\ child'[u] = child[u]
  BY <1>1, <1>2, WorkIs DEF ChildInv
<1>4. NoWork.std = {}
  BY DEF NoWork
<1> QED
  BY <1>1, <1>3, <1>4, OutsideTest

LEMMA InitTest == Init => TestInv
<1> SUFFICES ASSUME Init, NEW t \in Threads PROVE ArrayOK(t) /\ ValidOK(t)
  BY DEF TestInv
<1>1. pc[t] = "idle" /\ ret[t] = "none" /\ w[t].std = {}
  BY DEF Init, NoWork
<1> QED
  BY <1>1 DEF ArrayOK, ValidOK, Busy

LEMMA NextTest == IInv /\ ChildInv /\ TestInv /\ [Next]_vars => TestInv'
<1> SUFFICES ASSUME IInv, ChildInv, TestInv, [Next]_vars PROVE TestInv'
  OBVIOUS
<1>1. CASE UNCHANGED vars
  <2>1. ASSUME NEW t \in Threads PROVE ArrayOK(t)' = ArrayOK(t) /\ ValidOK(t)' = ValidOK(t)
    <3>1. UNCHANGED <<table, list, pc, w, ret, child>>
      BY <1>1 DEF vars
    <3>2. /\ Busy(t)' = Busy(t) /\ Done(t)' = Done(t) /\ Surely(t)' = Surely(t)
          /\ Rest(t)' = Rest(t) /\ \A std : ArrayChild(t, std)' = ArrayChild(t, std)
      BY <3>1 DEF Busy, Done, Surely, Rest, PassedRest, ArrayChild
    <3> QED
      BY <3>1, <3>2 DEF ArrayOK, ValidOK
  <2> QED
    BY <2>1 DEF TestInv
<1>2. ASSUME NEW t \in Threads, NEW a \in AllActions, Add(t, a) PROVE TestInv'
  BY <1>2, AddTest
<1>3. ASSUME NEW t \in Threads, Destroy(t) \/ Call(t) \/ Spawn2(t) PROVE TestInv'
  BY <1>3, DestroyTest, CallTest, Spawn2Test
<1>4. ASSUME NEW t \in Threads, Step(t) PROVE TestInv'
  BY <1>4, AllocTest, DoCloseTest, MarkCloseTest, DoDup2Test, DoOpenTest, DoDirTest,
     AppliedTest, SearchTest, CollectTest, StartTest, RestoreTest, EndTest
     DEF Step
<1> QED
  BY <1>1, <1>2, <1>3, <1>4 DEF Next

\* Calls with an array of three pass what the test of spawn2() looks for.
LEMMA ArraysPass ==
  ASSUME Unanswered, TestInv
  PROVE  Spawn2Passes
<1> SUFFICES ASSUME NEW t \in Threads, ret[t] = "ok", w[t].alone, w[t].std # {}
             PROVE  LET std  == CHOOSE s \in w[t].std : TRUE
                        rest == (DOMAIN table.fds \ table.cloexec) \ 0..2
                    IN  /\ DOMAIN child[t].fds = 0..2 \cup (IF w[t].noinherit THEN {} ELSE rest)
                        /\ \A fd \in 0..2 : child[t].fds[fd] =
                             table.fds[IF std[fd + 1] = 0 THEN fd ELSE std[fd + 1]]
                        /\ \A fd \in DOMAIN child[t].fds \ 0..2 : child[t].fds[fd] = table.fds[fd]
  BY DEF Spawn2Passes
<1>1. pc[t] = "idle" /\ ArrayOK(t)
  BY DEF Unanswered, TestInv
<1>2. PICK std \in Stdfds : w[t].std = {std} /\ ArrayChild(t, std)
  BY <1>1 DEF ArrayOK
<1>3. (CHOOSE s \in w[t].std : TRUE) = std
  BY <1>2
<1> QED
  BY <1>2, <1>3 DEF ArrayChild, Rest, PassedRest

(***************************************************************************)
(* The lists of the tests.                                                 *)
(***************************************************************************)
Whole(s) ==
  s = [fds |-> s.fds, cloexec |-> s.cloexec, dir |-> s.dir, ok |-> s.ok] /\ s.ok = TRUE

\* One action on a child that is well.
LEMMA PerformClose ==
  ASSUME NEW s, Whole(s), NEW p, NEW z, z = Perform(s, Close(p))
  PROVE  /\ Whole(z) /\ z.dir = s.dir /\ z.cloexec = s.cloexec
         /\ z.fds = Without(s.fds, {p})
<1> DEFINE f == Without(s.fds, {p})
<1>1. z = [s EXCEPT !.fds = f]
  BY DEF Perform, Whole, Close
<1> HIDE DEF f
<1>2. Whole(z) /\ z.dir = s.dir /\ z.cloexec = s.cloexec /\ z.fds = f
  BY <1>1 DEF Whole
<1> QED
  BY <1>2 DEF f

LEMMA PerformDup2 ==
  ASSUME NEW s, Whole(s), NEW a, a.tag = "dup2", a.fd \in DOMAIN s.fds,
         NEW z, z = Perform(s, a)
  PROVE  /\ Whole(z) /\ z.dir = s.dir /\ z.cloexec = s.cloexec \ {a.newfd}
         /\ z.fds = With(s.fds, a.newfd, s.fds[a.fd])
<1> DEFINE f == With(s.fds, a.newfd, s.fds[a.fd])
           c == s.cloexec \ {a.newfd}
<1>1. z = [s EXCEPT !.fds = f, !.cloexec = c]
  BY DEF Perform, Whole
<1> HIDE DEF f, c
<1>2. Whole(z) /\ z.dir = s.dir /\ z.cloexec = c /\ z.fds = f
  BY <1>1 DEF Whole
<1> QED
  BY <1>2 DEF f, c

LEMMA PerformOpen ==
  ASSUME NEW s, Whole(s), NEW a, a.tag = "open", Resolve(s.dir, a.path) \in Existing,
         NEW z, z = Perform(s, a)
  PROVE  /\ Whole(z) /\ z.dir = s.dir /\ z.cloexec = s.cloexec \ {a.fd}
         /\ z.fds = With(s.fds, a.fd, Resolve(s.dir, a.path))
<1> DEFINE f == With(s.fds, a.fd, Resolve(s.dir, a.path))
           c == s.cloexec \ {a.fd}
<1>1. z = [s EXCEPT !.fds = f, !.cloexec = c]
  BY DEF Perform, Whole
<1> HIDE DEF f, c
<1>2. Whole(z) /\ z.dir = s.dir /\ z.cloexec = c /\ z.fds = f
  BY <1>1 DEF Whole
<1> QED
  BY <1>2 DEF f, c

LEMMA PerformDir ==
  ASSUME NEW s, Whole(s), NEW a, NEW d \in Dirs, NEW z, z = Perform(s, a),
         \/ a.tag = "chdir" /\ d = Resolve(s.dir, a.path)
         \/ a.tag = "fchdir" /\ a.fd \in DOMAIN s.fds /\ d = s.fds[a.fd]
  PROVE  Whole(z) /\ z.dir = d /\ z.cloexec = s.cloexec /\ z.fds = s.fds
<1>1. z = [s EXCEPT !.dir = d]
  BY DEF Perform, Whole
<1> QED
  BY <1>1 DEF Whole

LEMMA BeforeMore ==
  ASSUME NEW l
  PROVE  /\ Before(l, 1) = {} /\ Before(l, 2) = {l[1]} /\ Before(l, 3) = {l[1], l[2]}
         /\ Before(l, 4) = {l[1], l[2], l[3]} /\ Before(l, 5) = {l[1], l[2], l[3], l[4]}
<1>1. /\ 1..(1 - 1) = {} /\ 1..(2 - 1) = {1} /\ 1..(3 - 1) = {1, 2}
      /\ 1..(4 - 1) = {1, 2, 3} /\ 1..(5 - 1) = {1, 2, 3, 4}
  OBVIOUS
<1> QED
  BY <1>1 DEF Before

\* A list that begins with dup2() of one end of the pipe to d, and closes both ends.
Piped(l, p, q, d) ==
  Len(l) >= 3 /\ l[1] = Dup2(p, d) /\ l[2] = Close(p) /\ l[3] = Close(q)
Ends(p, q, d) == {p, q} = {PipeR, PipeW} /\ p # q /\ d \in {0, 1}

LEMMA EndsOpen ==
  ASSUME NEW tab \in Tables, NEW p, NEW q, NEW d, Ends(p, q, d)
  PROVE  /\ {0, 1, p, q, Known} \subseteq DOMAIN tab.fds /\ d \notin {p, q}
         /\ {0, 1} \cap {p, q} = {} /\ Known \notin {0, 1, p, q}
BY TestsAssumption DEF Ends

\* The child after these three.
LEMMA PipedWalk ==
  ASSUME NEW tab \in Tables, NEW l \in Seq(AllActions), NEW p, NEW q, NEW d,
         Ends(p, q, d), Piped(l, p, q, d)
  PROVE  LET s == InChild(tab, l)[3]
         IN  /\ Whole(s) /\ s.dir = Home /\ DirAfter(tab, l)[3] = Home
             /\ s.cloexec = tab.cloexec \ {d} /\ DOMAIN s.fds = DOMAIN tab.fds \ {p, q}
             /\ s.fds[d] = tab.fds[p]
             /\ \A fd \in DOMAIN s.fds \ {d} : s.fds[fd] = tab.fds[fd]
<1>1. /\ {0, 1, p, q, Known} \subseteq DOMAIN tab.fds /\ d \notin {p, q} /\ d \in {0, 1} /\ p # q
  BY EndsOpen DEF Ends
<1>2. Len(l) \in Nat /\ 1 \in 1..Len(l) /\ 2 \in 1..Len(l) /\ 3 \in 1..Len(l)
  BY DEF Piped
<1> DEFINE s(i) == InChild(tab, l)[i]
           D(i) == DirAfter(tab, l)[i]
<1>3. /\ s(0) = Copied(tab.fds, tab.cloexec, Home) /\ s(1) = Perform(s(0), l[1])
      /\ s(2) = Perform(s(1), Close(p)) /\ s(3) = Perform(s(2), Close(q))
  <2>1. 1 - 1 = 0 /\ 2 - 1 = 1 /\ 3 - 1 = 2
    OBVIOUS
  <2> QED
    BY <1>2, <2>1, WalkIs DEF InChild, Piped
<1>4. D(0) = Home /\ D(1) = Moved(tab, D(0), l[1]) /\ D(2) = Moved(tab, D(1), l[2])
      /\ D(3) = Moved(tab, D(2), l[3])
  <2>1. 1 - 1 = 0 /\ 2 - 1 = 1 /\ 3 - 1 = 2
    OBVIOUS
  <2> QED
    BY <1>2, <2>1, DirAfterIs
<1>5. /\ l[1].tag = "dup2" /\ l[1].fd = p /\ l[1].newfd = d
      /\ l[2].tag = "close" /\ l[2].fd = p /\ l[3].tag = "close" /\ l[3].fd = q
  BY DEF Piped, Dup2, Close
<1>6. D(3) = Home
  BY <1>4, <1>5 DEF Moved
<1> HIDE DEF s, D
<1>7. Whole(s(0)) /\ s(0).fds = tab.fds /\ s(0).cloexec = tab.cloexec /\ s(0).dir = Home
  BY <1>3 DEF Copied, Whole
<1>8. /\ Whole(s(1)) /\ s(1).dir = Home /\ s(1).cloexec = tab.cloexec \ {d}
      /\ s(1).fds = With(tab.fds, d, tab.fds[p])
  BY <1>1, <1>3, <1>5, <1>7, PerformDup2
<1>9. /\ Whole(s(2)) /\ s(2).dir = Home /\ s(2).cloexec = tab.cloexec \ {d}
      /\ s(2).fds = Without(s(1).fds, {p})
  <2> DEFINE x == s(1)
             z == s(2)
  <2>1. Whole(x) /\ z = Perform(x, Close(p))
    BY <1>3, <1>8
  <2> HIDE DEF x, z
  <2>2. /\ Whole(z) /\ z.dir = x.dir /\ z.cloexec = x.cloexec
        /\ z.fds = Without(x.fds, {p})
    BY <2>1, PerformClose
  <2> QED
    BY <1>8, <2>2 DEF x, z
<1>10. /\ Whole(s(3)) /\ s(3).dir = Home /\ s(3).cloexec = tab.cloexec \ {d}
       /\ s(3).fds = Without(s(2).fds, {q})
  <2> DEFINE x == s(2)
             z == s(3)
  <2>1. Whole(x) /\ z = Perform(x, Close(q))
    BY <1>3, <1>9
  <2> HIDE DEF x, z
  <2>2. /\ Whole(z) /\ z.dir = x.dir /\ z.cloexec = x.cloexec
        /\ z.fds = Without(x.fds, {q})
    BY <2>1, PerformClose
  <2> QED
    BY <1>9, <2>2 DEF x, z
<1>11. /\ DOMAIN s(1).fds = DOMAIN tab.fds
       /\ \A fd \in DOMAIN s(1).fds : s(1).fds[fd] = IF fd = d THEN tab.fds[p] ELSE tab.fds[fd]
  BY <1>1, <1>8 DEF With
<1>12. /\ DOMAIN s(2).fds = DOMAIN s(1).fds \ {p}
       /\ \A fd \in DOMAIN s(2).fds : s(2).fds[fd] = s(1).fds[fd]
  BY <1>9 DEF Without
<1>13. /\ DOMAIN s(3).fds = DOMAIN s(2).fds \ {q}
       /\ \A fd \in DOMAIN s(3).fds : s(3).fds[fd] = s(2).fds[fd]
  BY <1>10 DEF Without
<1> QED
  BY <1>1, <1>6, <1>10, <1>11, <1>12, <1>13 DEF s, D

\* The three are such that the walk in the parent stands for the one in the child.
LEMMA PipedStraight ==
  ASSUME NEW tab \in Tables, NEW l, NEW p, NEW q, NEW d, Ends(p, q, d), Piped(l, p, q, d),
         NEW i \in 1..3
  PROVE  /\ l[i].tag \in {"close", "dup2"} /\ l[i].fd \in DOMAIN tab.fds
         /\ l[i].fd \notin Redirected(Before(l, i))
         /\ l[i].tag # "close" => l[i].fd \notin Closed(Before(l, i))
<1>1. {0, 1, p, q, Known} \subseteq DOMAIN tab.fds /\ d \notin {p, q}
  BY EndsOpen
<1>2. /\ l[1].tag = "dup2" /\ l[1].fd = p /\ l[1].newfd = d
      /\ l[2].tag = "close" /\ l[2].fd = p /\ l[3].tag = "close" /\ l[3].fd = q
  BY DEF Piped, Dup2, Close
<1>3. Redirected({}) = {} /\ Closed({}) = {}
  BY DEF Redirected, Closed
<1>4. Redirected({l[1]}) = {d} /\ Redirected({l[1], l[2]}) = {d}
  BY <1>2 DEF Redirected
<1>5. i = 1 \/ i = 2 \/ i = 3
  OBVIOUS
<1>6. CASE i = 1
  BY <1>1, <1>2, <1>3, <1>6, BeforeMore
<1>7. CASE i = 2
  BY <1>1, <1>2, <1>4, <1>7, BeforeMore
<1>8. CASE i = 3
  BY <1>1, <1>2, <1>4, <1>8, BeforeMore
<1> QED
  BY <1>5, <1>6, <1>7, <1>8

LEMMA PipedFeasible ==
  ASSUME NEW tab \in Tables, NEW l, NEW p, NEW q, NEW d, Ends(p, q, d), Piped(l, p, q, d),
         NEW i \in 1..3
  PROVE  /\ l[i].tag \in {"close", "dup2"} /\ l[i].fd \in DOMAIN tab.fds
         /\ l[i].tag \notin {"open", "chdir", "fchdir"}
BY PipedStraight

\* The list that sends the child's output to the pipe opens a file at 0 then.
Redirects(l) == Len(l) >= 4 /\ Piped(l, PipeW, PipeR, 1) /\ l[4] = Open(0, Null)

LEMMA EndsOut == Ends(PipeW, PipeR, 1) /\ Ends(PipeR, PipeW, 0)
BY TestsAssumption DEF Ends

LEMMA RedirectsDone ==
  ASSUME NEW tab \in Tables, NEW l, Redirects(l)
  PROVE  /\ Redirected(Before(l, 5)) = {0, 1} /\ Closed(Before(l, 5)) = {PipeR, PipeW}
<1>1. /\ l[1].tag = "dup2" /\ l[1].newfd = 1
      /\ l[2].tag = "close" /\ l[2].fd = PipeW /\ l[3].tag = "close" /\ l[3].fd = PipeR
      /\ l[4].tag = "open" /\ l[4].fd = 0
  BY DEF Redirects, Piped, Dup2, Close, Open
<1>2. Before(l, 5) = {l[1], l[2], l[3], l[4]}
  BY BeforeMore
<1> QED
  BY <1>1, <1>2 DEF Redirected, Closed

LEMMA RedirectsWalk ==
  ASSUME NEW tab \in Tables, NEW l \in Seq(AllActions), Redirects(l)
  PROVE  LET s == InChild(tab, l)[4]
         IN  /\ Whole(s) /\ s.dir = Home /\ DirAfter(tab, l)[4] = Home
             /\ DOMAIN s.fds = DOMAIN tab.fds \ {PipeR, PipeW} /\ {0, 1} \cap s.cloexec = {}
             /\ s.fds[0] = File(Null) /\ s.fds[1] = tab.fds[PipeW] /\ s.fds[Known] = <<>>
<1> DEFINE r == InChild(tab, l)[3]
           s == InChild(tab, l)[4]
<1>1. /\ Whole(r) /\ r.dir = Home /\ DirAfter(tab, l)[3] = Home
      /\ r.cloexec = tab.cloexec \ {1} /\ DOMAIN r.fds = DOMAIN tab.fds \ {PipeW, PipeR}
      /\ r.fds[1] = tab.fds[PipeW]
      /\ \A fd \in DOMAIN r.fds \ {1} : r.fds[fd] = tab.fds[fd]
  BY EndsOut, PipedWalk DEF Redirects
<1>2. Len(l) \in Nat /\ 4 \in 1..Len(l) /\ 4 - 1 = 3
  BY DEF Redirects
<1>3. s = Perform(r, l[4])
  BY <1>2, WalkIs DEF InChild
<1>4. l[4].tag = "open" /\ l[4].fd = 0 /\ l[4].path = Null
  BY DEF Redirects, Open
<1>5. DirAfter(tab, l)[4] = Home
  <2>1. DirAfter(tab, l)[4] = Moved(tab, DirAfter(tab, l)[3], l[4])
    BY <1>2, DirAfterIs
  <2> QED
    BY <1>1, <1>4, <2>1 DEF Moved
<1> HIDE DEF r, s
<1>6. Resolve(r.dir, l[4].path) = File(Null) /\ File(Null) \in Existing
  BY <1>1, <1>4, TestsAssumption DEF File
<1>7. /\ Whole(s) /\ s.dir = Home /\ s.cloexec = r.cloexec \ {0}
      /\ s.fds = With(r.fds, 0, File(Null))
  BY <1>1, <1>3, <1>4, <1>6, PerformOpen
<1>8. /\ {0, 1, PipeR, PipeW, Known} \subseteq DOMAIN tab.fds /\ tab.fds[Known] = <<>>
      /\ Known \notin {0, 1, PipeR, PipeW} /\ {0, 1} \cap {PipeR, PipeW} = {}
      /\ {0, 1} \cap tab.cloexec = {}
  BY TestsAssumption
<1>9. /\ DOMAIN s.fds = DOMAIN r.fds \cup {0}
      /\ \A fd \in DOMAIN s.fds : s.fds[fd] = IF fd = 0 THEN File(Null) ELSE r.fds[fd]
  BY <1>7 DEF With
<1>10. DOMAIN s.fds = DOMAIN tab.fds \ {PipeR, PipeW}
  BY <1>1, <1>8, <1>9
<1>11. {0, 1} \cap s.cloexec = {}
  BY <1>1, <1>7, <1>8
<1>12. s.fds[0] = File(Null) /\ s.fds[1] = tab.fds[PipeW] /\ s.fds[Known] = <<>>
  <2>1. 0 \in DOMAIN s.fds /\ 1 \in DOMAIN s.fds /\ Known \in DOMAIN s.fds /\ Known # 0
    BY <1>8, <1>10
  <2>2. s.fds[0] = File(Null)
    BY <1>9, <2>1
  <2>3. s.fds[1] = r.fds[1]
    BY <1>9, <2>1
  <2>4. s.fds[Known] = r.fds[Known] /\ Known \in DOMAIN r.fds \ {1}
    BY <1>8, <1>9, <2>1
  <2> QED
    BY <1>1, <1>8, <2>2, <2>3, <2>4
<1> QED
  BY <1>5, <1>7, <1>10, <1>11, <1>12 DEF s

\* For a list that cannot fail and on which the two walks agree.
LEMMA ListPasses ==
  ASSUME IInv, ChildInv, Unanswered, TestInv, ChildAsPosix, NEW t \in Threads,
         w[t].alone, w[t].std = {}, Feasible(table, list[t]),
         Straight(table, list[t])
  PROVE  LET s == InChild(table, list[t])[Len(list[t])]
         IN  /\ ret[t] # "EINVAL"
             /\ ret[t] = "ok" =>
                  child[t].dir = s.dir /\ child[t].fds = Without(s.fds, s.cloexec)
<1>1. ret[t] # "EINVAL"
  <2>1. CASE pc[t] = "idle"
    BY <2>1 DEF TestInv, ValidOK, Surely
  <2>2. CASE pc[t] # "idle"
    BY <2>2 DEF Unanswered
  <2> QED
    BY <2>1, <2>2
<1> DEFINE s == InChild(table, list[t])[Len(list[t])]
           P == Posix(table, list[t])
<1>2. ASSUME ret[t] = "ok" PROVE child[t].dir = s.dir /\ child[t].fds = Without(s.fds, s.cloexec)
  <2>1. P = [ok |-> TRUE, fds |-> child[t].fds, dir |-> child[t].dir]
    BY <1>2 DEF ChildAsPosix, Spawned
  <2>2. P.dir = s.dir /\ P.fds = Without(s.fds, s.cloexec)
    BY PosixIs
  <2> HIDE DEF P, s
  <2> QED
    BY <2>1, <2>2
<1> QED
  BY <1>1, <1>2

\* What a test looks for.
Looks(t, T) ==
  list[t] = T.list /\ w[t].alone /\ w[t].std = {} =>
    /\ ret[t] # "EINVAL"
    /\ ret[t] = "ok" =>
         /\ child[t].dir = T.dir
         /\ T.closed \cap DOMAIN child[t].fds = {}
         /\ \A fd \in DOMAIN T.files :
              fd \in DOMAIN child[t].fds /\ child[t].fds[fd] = T.files[fd]

\* It finds it, when the two walks agree and the walk in the child ends like that.
LEMMA LooksRight ==
  ASSUME IInv, ChildInv, Unanswered, TestInv, ChildAsPosix, NEW t \in Threads, NEW T,
         Feasible(table, T.list), Straight(table, T.list),
         LET s == InChild(table, T.list)[Len(T.list)]
         IN  /\ s.dir = T.dir /\ T.closed \cap DOMAIN s.fds = {}
             /\ \A fd \in DOMAIN T.files :
                  fd \in DOMAIN s.fds \ s.cloexec /\ s.fds[fd] = T.files[fd]
  PROVE  Looks(t, T)
<1> SUFFICES ASSUME list[t] = T.list, w[t].alone, w[t].std = {}
             PROVE  /\ ret[t] # "EINVAL"
                    /\ ret[t] = "ok" =>
                         /\ child[t].dir = T.dir
                         /\ T.closed \cap DOMAIN child[t].fds = {}
                         /\ \A fd \in DOMAIN T.files :
                              fd \in DOMAIN child[t].fds /\ child[t].fds[fd] = T.files[fd]
  BY DEF Looks
<1> DEFINE s == InChild(table, T.list)[Len(T.list)]
<1>1. /\ ret[t] # "EINVAL"
      /\ ret[t] = "ok" => child[t].dir = s.dir /\ child[t].fds = Without(s.fds, s.cloexec)
  BY ListPasses
<1> HIDE DEF s
<1>2. /\ s.dir = T.dir /\ T.closed \cap DOMAIN s.fds = {}
      /\ \A fd \in DOMAIN T.files :
           fd \in DOMAIN s.fds \ s.cloexec /\ s.fds[fd] = T.files[fd]
  BY DEF s
<1>3. ASSUME ret[t] = "ok"
      PROVE  /\ DOMAIN child[t].fds = DOMAIN s.fds \ s.cloexec
             /\ \A fd \in DOMAIN s.fds \ s.cloexec : child[t].fds[fd] = s.fds[fd]
  BY <1>1, <1>3 DEF Without
<1> QED
  BY <1>1, <1>2, <1>3

LEMMA TestIs ==
  ASSUME NEW l, NEW files, NEW closed, NEW dir, NEW T, T = Test(l, files, closed, dir)
  PROVE  T.list = l /\ T.files = files /\ T.closed = closed /\ T.dir = dir
BY DEF Test

LEMMA Dup2StdinRight ==
  ASSUME IInv, ChildInv, Unanswered, TestInv, ChildAsPosix, NEW t \in Threads,
         list[t] = Dup2Stdin.list
  PROVE  Looks(t, Dup2Stdin)
<1> DEFINE T == Dup2Stdin
           l == T.list
           f == At0(table.fds[PipeR])
<1>1. /\ l = <<Dup2(PipeR, 0), Close(PipeR), Close(PipeW)>> /\ T.files = f
      /\ T.closed = {PipeR, PipeW} /\ T.dir = Home
  BY TestIs DEF Dup2Stdin
<1> HIDE DEF T
<1>2. Piped(l, PipeR, PipeW, 0) /\ Len(l) = 3 /\ DOMAIN l = 1..3
  BY <1>1 DEF Piped
<1>3. l \in Seq(AllActions) /\ table \in Tables
  BY Locals DEF IInv, TypeInv, T
<1>4. Straight(table, l)
  BY <1>2, <1>3, EndsOut, PipedStraight DEF Straight
<1>5. Feasible(table, l)
  BY <1>2, <1>3, EndsOut, PipedFeasible DEF Feasible
<1> DEFINE s == InChild(table, l)[3]
<1>6. /\ s.dir = Home /\ s.cloexec = table.cloexec \ {0}
      /\ DOMAIN s.fds = DOMAIN table.fds \ {PipeR, PipeW} /\ s.fds[0] = table.fds[PipeR]
  BY <1>2, <1>3, EndsOut, PipedWalk
<1> HIDE DEF s
<1>7. DOMAIN f = {0} /\ f[0] = table.fds[PipeR]
  BY DEF At0
<1>8. 0 \in DOMAIN table.fds \ {PipeR, PipeW}
  BY <1>3, TestsAssumption
<1>9. /\ s.dir = T.dir /\ T.closed \cap DOMAIN s.fds = {}
      /\ \A fd \in DOMAIN T.files :
           fd \in DOMAIN s.fds \ s.cloexec /\ s.fds[fd] = T.files[fd]
  BY <1>1, <1>6, <1>7, <1>8
<1>10. Looks(t, T)
  BY <1>2, <1>4, <1>5, <1>9, LooksRight DEF s
<1> QED
  BY <1>10 DEF T

\* The two walks agree on the four actions, and none can fail.
StraightAt(tab, l, i) ==
  /\ l[i].tag \in {"close", "dup2", "fchdir"} =>
       /\ l[i].fd \in DOMAIN tab.fds
       /\ l[i].fd \notin Redirected(Before(l, i))
       /\ l[i].tag # "close" => l[i].fd \notin Closed(Before(l, i))
  /\ l[i].tag \in {"chdir", "fchdir"} => DirAfter(tab, l)[i] \in Dirs
FeasibleAt(tab, l, i) ==
  /\ l[i].tag \in {"close", "dup2", "fchdir"} => l[i].fd \in DOMAIN tab.fds
  /\ l[i].tag = "open" =>
       /\ File(l[i].path) \in Existing /\ Fds \ DOMAIN tab.fds # {}
       /\ \A a \in Before(l, i) : a.tag \notin {"open", "chdir", "fchdir"}

LEMMA RedirectsStraight ==
  ASSUME NEW tab \in Tables, NEW l, Redirects(l), NEW i \in 1..4
  PROVE  StraightAt(tab, l, i) /\ FeasibleAt(tab, l, i)
<1>1. CASE i \in 1..3
  BY <1>1, EndsOut, PipedStraight DEF Redirects, StraightAt, FeasibleAt
<1>2. CASE i = 4
  <2>1. l[4].tag = "open" /\ l[4].path = Null
    BY DEF Redirects, Open
  <2>2. /\ l[1].tag \notin {"open", "chdir", "fchdir"} /\ l[2].tag \notin {"open", "chdir", "fchdir"}
        /\ l[3].tag \notin {"open", "chdir", "fchdir"}
    BY DEF Redirects, Piped, Dup2, Close
  <2>3. \A a \in Before(l, 4) : a.tag \notin {"open", "chdir", "fchdir"}
    BY <2>2, BeforeMore
  <2>4. File(Null) \in Existing /\ Fds \ DOMAIN tab.fds # {}
    BY TestsAssumption
  <2> QED
    BY <1>2, <2>1, <2>3, <2>4 DEF StraightAt, FeasibleAt
<1>3. i \in 1..3 \/ i = 4
  OBVIOUS
<1> QED
  BY <1>1, <1>2, <1>3

LEMMA ToPipeIs ==
  /\ Len(ToPipe) = 4 /\ Redirects(ToPipe) /\ DOMAIN ToPipe = 1..4
  /\ \A a : /\ Len(Append(ToPipe, a)) = 5 /\ DOMAIN Append(ToPipe, a) = 1..5
            /\ Redirects(Append(ToPipe, a)) /\ Append(ToPipe, a)[5] = a
<1>1. /\ Len(ToPipe) = 4 /\ DOMAIN ToPipe = 1..4 /\ ToPipe[1] = Dup2(PipeW, 1)
      /\ ToPipe[2] = Close(PipeW) /\ ToPipe[3] = Close(PipeR) /\ ToPipe[4] = Open(0, Null)
  BY DEF ToPipe
<1>2. ASSUME NEW a
      PROVE  LET l == Append(ToPipe, a)
             IN  /\ Len(l) = 5 /\ DOMAIN l = 1..5 /\ l[1] = Dup2(PipeW, 1) /\ l[2] = Close(PipeW)
                 /\ l[3] = Close(PipeR) /\ l[4] = Open(0, Null) /\ l[5] = a
  BY DEF ToPipe
<1> QED
  BY <1>1, <1>2 DEF Redirects, Piped

LEMMA Dup2StdoutRight ==
  ASSUME IInv, ChildInv, Unanswered, TestInv, ChildAsPosix, NEW t \in Threads,
         list[t] = Dup2Stdout.list
  PROVE  Looks(t, Dup2Stdout)
<1> DEFINE T == Dup2Stdout
           l == T.list
           f == [fd \in {0, 1} |-> IF fd = 0 THEN File(Null) ELSE table.fds[PipeW]]
<1>1. l = ToPipe /\ T.files = f /\ T.closed = {PipeR, PipeW} /\ T.dir = Home
  BY TestIs DEF Dup2Stdout
<1> HIDE DEF T
<1>2. Redirects(l) /\ Len(l) = 4 /\ DOMAIN l = 1..4
  BY <1>1, ToPipeIs
<1>3. l \in Seq(AllActions) /\ table \in Tables
  BY Locals DEF IInv, TypeInv, T
<1>4. Straight(table, l) /\ Feasible(table, l)
  BY <1>2, <1>3, RedirectsStraight DEF Straight, StraightAt, Feasible, FeasibleAt
<1> DEFINE s == InChild(table, l)[4]
<1>5. /\ s.dir = Home /\ DOMAIN s.fds = DOMAIN table.fds \ {PipeR, PipeW}
      /\ {0, 1} \cap s.cloexec = {} /\ s.fds[0] = File(Null) /\ s.fds[1] = table.fds[PipeW]
  BY <1>2, <1>3, RedirectsWalk
<1> HIDE DEF s
<1>6. DOMAIN f = {0, 1} /\ f[0] = File(Null) /\ f[1] = table.fds[PipeW]
  OBVIOUS
<1> HIDE DEF f
<1>7. {0, 1} \subseteq DOMAIN table.fds \ {PipeR, PipeW}
  BY <1>3, TestsAssumption
<1>8. /\ s.dir = T.dir /\ T.closed \cap DOMAIN s.fds = {}
      /\ \A fd \in DOMAIN T.files :
           fd \in DOMAIN s.fds \ s.cloexec /\ s.fds[fd] = T.files[fd]
  <2>1. {0, 1} \subseteq DOMAIN s.fds \ s.cloexec /\ s.fds[0] = f[0] /\ s.fds[1] = f[1]
    BY <1>5, <1>6, <1>7
  <2> QED
    BY <1>1, <1>5, <1>6, <2>1
<1>9. Looks(t, T)
  BY <1>2, <1>4, <1>8, LooksRight DEF s
<1> QED
  BY <1>9 DEF T

\* The tests of chdir and fchdir: a fifth action goes to "/".
LEMMA DirRight ==
  ASSUME IInv, ChildInv, Unanswered, TestInv, ChildAsPosix, NEW t \in Threads, NEW a,
         a = Chdir(Abs(<<>>)) \/ a = Fchdir(Known),
         NEW T, T = Test(Append(ToPipe, a), At1(table.fds[PipeW]), {PipeR, PipeW}, <<>>),
         list[t] = T.list
  PROVE  Looks(t, T)
<1> DEFINE l == T.list
           f == At1(table.fds[PipeW])
<1>1. l = Append(ToPipe, a) /\ T.files = f /\ T.closed = {PipeR, PipeW} /\ T.dir = <<>>
  BY DEF Test
<1>2. Redirects(l) /\ Len(l) = 5 /\ DOMAIN l = 1..5 /\ l[5] = a
  BY <1>1, ToPipeIs
<1>3. l \in Seq(AllActions) /\ table \in Tables
  BY Locals DEF IInv, TypeInv
<1> HIDE DEF l
<1> DEFINE r == InChild(table, l)[4]
           s == InChild(table, l)[5]
<1>4. /\ Whole(r) /\ r.dir = Home /\ DirAfter(table, l)[4] = Home
      /\ DOMAIN r.fds = DOMAIN table.fds \ {PipeR, PipeW} /\ {0, 1} \cap r.cloexec = {}
      /\ r.fds[1] = table.fds[PipeW] /\ r.fds[Known] = <<>>
  BY <1>2, <1>3, RedirectsWalk
<1>5. s = Perform(r, a) /\ DirAfter(table, l)[5] = Moved(table, Home, a)
  <2>1. 5 \in 1..Len(l) /\ 5 - 1 = 4
    BY <1>2
  <2>2. s = Perform(r, l[5])
    BY <1>3, <2>1, WalkIs DEF InChild
  <2>3. DirAfter(table, l)[5] = Moved(table, DirAfter(table, l)[4], l[5])
    BY <1>3, <2>1, DirAfterIs
  <2> HIDE DEF r, s
  <2> QED
    BY <1>2, <1>4, <2>2, <2>3
<1> HIDE DEF r, s
<1>6. /\ {0, 1, Known} \subseteq DOMAIN table.fds \ {PipeR, PipeW} /\ <<>> \in Dirs
      /\ table.fds[Known] = <<>> /\ Known \notin {0, 1, PipeR, PipeW}
      /\ Known \in DOMAIN table.fds
  BY <1>3, TestsAssumption
<1>7. \/ a.tag = "chdir" /\ \A d : Resolve(d, a.path) = <<>>
      \/ a.tag = "fchdir" /\ a.fd = Known
  <2>1. CASE a = Fchdir(Known)
    BY <2>1 DEF Fchdir
  <2>2. CASE a = Chdir(Abs(<<>>))
    <3> DEFINE p == Abs(<<>>)
    <3>1. a.tag = "chdir" /\ a.path = p
      BY <2>2 DEF Chdir
    <3>2. p.abs /\ p.parts = <<>>
      BY DEF Abs
    <3> HIDE DEF p
    <3>3. \A d : Resolve(d, p) = <<>>
      BY <3>2 DEF Resolve
    <3> QED
      BY <3>1, <3>2 DEF Resolve
  <2> QED
    BY <2>1, <2>2
<1>8. Whole(s) /\ s.dir = <<>> /\ s.cloexec = r.cloexec /\ s.fds = r.fds
  BY <1>4, <1>5, <1>6, <1>7, PerformDir
<1>9. DirAfter(table, l)[5] = <<>>
  BY <1>5, <1>6, <1>7 DEF Moved
<1>10. StraightAt(table, l, 5) /\ FeasibleAt(table, l, 5)
  <2>1. Redirected(Before(l, 5)) = {0, 1} /\ Closed(Before(l, 5)) = {PipeR, PipeW}
    BY <1>2, <1>3, RedirectsDone
  <2> QED
    BY <1>2, <1>6, <1>7, <1>9, <2>1 DEF StraightAt, FeasibleAt
<1>11. ASSUME NEW i \in DOMAIN l PROVE StraightAt(table, l, i) /\ FeasibleAt(table, l, i)
  <2>1. i \in 1..4 \/ i = 5
    BY <1>2
  <2> QED
    BY <1>2, <1>3, <1>10, <2>1, RedirectsStraight
<1>12. Straight(table, l) /\ Feasible(table, l)
  BY <1>11 DEF Straight, StraightAt, Feasible, FeasibleAt
<1>13. DOMAIN f = {1} /\ f[1] = table.fds[PipeW]
  BY DEF At1
<1> HIDE DEF f
<1>14. /\ s.dir = T.dir /\ T.closed \cap DOMAIN s.fds = {}
       /\ \A fd \in DOMAIN T.files :
            fd \in DOMAIN s.fds \ s.cloexec /\ s.fds[fd] = T.files[fd]
  <2>1. 1 \in DOMAIN s.fds \ s.cloexec /\ s.fds[1] = f[1]
    BY <1>4, <1>6, <1>8, <1>13
  <2> QED
    BY <1>1, <1>4, <1>8, <1>13, <2>1
<1> QED
  BY <1>2, <1>12, <1>14, LooksRight DEF s, l

LEMMA ChdirRight ==
  ASSUME IInv, ChildInv, Unanswered, TestInv, ChildAsPosix, NEW t \in Threads
  PROVE  /\ list[t] = ChdirTest.list => Looks(t, ChdirTest)
         /\ list[t] = FchdirTest.list => Looks(t, FchdirTest)
BY DirRight DEF ChdirTest, FchdirTest

\* The tests of what a child inherits: no action.
LEMMA InheritRight ==
  ASSUME IInv, ChildInv, Unanswered, TestInv, ChildAsPosix, NEW t \in Threads,
         NEW fd \in {0, 1}, NEW f, DOMAIN f = {fd}, f[fd] = table.fds[fd],
         NEW T, T = Test(<<>>, f, {}, Home), list[t] = T.list
  PROVE  Looks(t, T)
<1>1. T.list = <<>> /\ T.files = f /\ T.closed = {} /\ T.dir = Home
  BY TestIs
<1> DEFINE l == T.list
<1>2. l \in Seq(AllActions) /\ table \in Tables
  BY Locals DEF IInv, TypeInv
<1>3. Len(l) = 0 /\ DOMAIN l = {}
  BY <1>1
<1> HIDE DEF l
<1>4. Straight(table, l) /\ Feasible(table, l)
  BY <1>3 DEF Straight, Feasible
<1> DEFINE s == InChild(table, l)[0]
<1>5. s = Copied(table.fds, table.cloexec, Home)
  BY <1>2, WalkIs DEF InChild
<1> HIDE DEF s
<1>6. s.dir = Home /\ s.fds = table.fds /\ s.cloexec = table.cloexec
  BY <1>5 DEF Copied
<1>7. fd \in DOMAIN table.fds \ table.cloexec
  BY <1>2, TestsAssumption
<1>8. /\ s.dir = T.dir /\ T.closed \cap DOMAIN s.fds = {}
      /\ \A e \in DOMAIN T.files :
           e \in DOMAIN s.fds \ s.cloexec /\ s.fds[e] = T.files[e]
  BY <1>1, <1>6, <1>7
<1> QED
  BY <1>3, <1>4, <1>8, LooksRight DEF s, l

\* The tests of open: one action, that opens the data file.
LEMMA OpenRight ==
  ASSUME IInv, ChildInv, Unanswered, TestInv, ChildAsPosix, NEW t \in Threads,
         NEW fd \in {0, 1}, NEW f, DOMAIN f = {fd}, f[fd] = File(Data),
         NEW T, T = Test(<<Open(fd, Data)>>, f, {}, Home), list[t] = T.list
  PROVE  Looks(t, T)
<1>1. T.list = <<Open(fd, Data)>> /\ T.files = f /\ T.closed = {} /\ T.dir = Home
  BY TestIs
<1> DEFINE l == T.list
<1>2. l \in Seq(AllActions) /\ table \in Tables
  BY Locals DEF IInv, TypeInv
<1>3. Len(l) = 1 /\ DOMAIN l = {1} /\ l[1] = Open(fd, Data)
  BY <1>1
<1> HIDE DEF l
<1>4. l[1].tag = "open" /\ l[1].fd = fd /\ l[1].path = Data
  BY <1>3 DEF Open
<1>5. File(Data) \in Existing /\ Fds \ DOMAIN table.fds # {} /\ fd \in DOMAIN table.fds
  BY <1>2, TestsAssumption
<1>6. Straight(table, l)
  BY <1>3, <1>4 DEF Straight
<1>7. Feasible(table, l)
  BY <1>3, <1>4, <1>5, BeforeMore DEF Feasible
<1> DEFINE r == InChild(table, l)[0]
           s == InChild(table, l)[1]
<1>8. r = Copied(table.fds, table.cloexec, Home) /\ s = Perform(r, l[1])
  <2>1. 1 \in 1..Len(l) /\ 1 - 1 = 0
    BY <1>3
  <2> QED
    BY <1>2, <2>1, WalkIs DEF InChild
<1> HIDE DEF r, s
<1>9. Whole(r) /\ r.dir = Home /\ r.fds = table.fds /\ r.cloexec = table.cloexec
  BY <1>8 DEF Copied, Whole
<1>10. /\ s.dir = Home /\ s.cloexec = table.cloexec \ {fd}
       /\ s.fds = With(table.fds, fd, File(Data))
  <2>1. Resolve(r.dir, l[1].path) = File(Data)
    BY <1>4, <1>9 DEF File
  <2> QED
    BY <1>4, <1>5, <1>8, <1>9, <2>1, PerformOpen
<1>11. fd \in DOMAIN s.fds /\ s.fds[fd] = File(Data)
  BY <1>10 DEF With
<1>12. /\ s.dir = T.dir /\ T.closed \cap DOMAIN s.fds = {}
       /\ \A e \in DOMAIN T.files :
            e \in DOMAIN s.fds \ s.cloexec /\ s.fds[e] = T.files[e]
  BY <1>1, <1>10, <1>11
<1> QED
  BY <1>3, <1>6, <1>7, <1>12, LooksRight DEF s, l

\* All of them.
LEMMA AllLook ==
  ASSUME IInv, ChildInv, Unanswered, TestInv, ChildAsPosix, NEW t \in Threads,
         NEW T \in Tests, list[t] = T.list
  PROVE  Looks(t, T)
<1>1. /\ \A fd : DOMAIN At0(fd) = {0} /\ At0(fd)[0] = fd
      /\ \A fd : DOMAIN At1(fd) = {1} /\ At1(fd)[1] = fd
  BY DEF At0, At1
<1>2. CASE T = Inherit0 \/ T = Inherit1
  BY <1>1, <1>2, InheritRight DEF Inherit0, Inherit1
<1>3. CASE T = Open1 \/ T = Open2
  BY <1>1, <1>3, OpenRight DEF Open1, Open2
<1>4. CASE T \in {Dup2Stdin, Dup2Stdout, ChdirTest, FchdirTest}
  BY <1>4, Dup2StdinRight, Dup2StdoutRight, ChdirRight
<1> QED
  BY <1>2, <1>3, <1>4 DEF Tests

\* Of every run of one of the tests alone that is not cut short by memory or LIBCx,
\* the child finds what the test looks for, and the child of an array of three has
\* its three descriptors: TestInv says that the calls of both kinds go through.
THEOREM TestsPassAlways == Spec => []TestsPass
<1>1. IInv /\ ChildInv /\ Unanswered /\ TestInv => TestsPass
  <2> SUFFICES ASSUME IInv, ChildInv, Unanswered, TestInv PROVE TestsPass
    OBVIOUS
  <2>1. ChildAsPosix
    BY ChildIsPosix
  <2>2. ASSUME NEW t \in Threads, NEW T \in Tests, list[t] = T.list PROVE Looks(t, T)
    BY <2>1, <2>2, AllLook
  <2>3. GlTestsPass
    BY <2>2 DEF GlTestsPass, Looks
  <2> QED
    BY <2>3, ArraysPass DEF TestsPass
<1>2. Init => TestInv
  BY InitTest
<1>3. IInv /\ ChildInv /\ TestInv /\ [Next]_vars => TestInv'
  BY NextTest
<1>4. Spec => []IInv
  BY Invariance
<1> QED
  BY <1>1, <1>2, <1>3, <1>4, ChildInvariance, PTL DEF Spec
=============================================================================
