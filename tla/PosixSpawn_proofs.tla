-------------------------- MODULE PosixSpawn_proofs --------------------------
(***************************************************************************)
(* Proofs about PosixSpawn for any threads, tables and lists.              *)
(*                                                                         *)
(* ParentRestored speaks of a state in which no thread is in the library.  *)
(* SavedInv says what each thread will undo: a descriptor that its open    *)
(* action made and no other entry has, or the flag of a descriptor of the  *)
(* program's.  TableInv says that this is all that differs from the        *)
(* program's table, whatever calls of other threads are doing.             *)
(***************************************************************************)
EXTENDS PosixSpawn, SequenceTheorems, FiniteSetTheorems, WellFoundedInduction, TLAPS

Entries == [tag : {"none", "close", "open"}, fd : Fds \cup {-1}]
Pairs == Fds \X Fds

\* The locals are a record of the fields of NoWork.
Form(x) ==
  x = [i |-> x.i, pairs |-> x.pairs, saved |-> x.saved, cwd |-> x.cwd, given |-> x.given,
       noinherit |-> x.noinherit, usePath |-> x.usePath, std |-> x.std,
       alone |-> x.alone, err |-> x.err]

TypeInv ==
  /\ table \in Tables
  /\ list \in [Threads -> Seq(AllActions)]
  /\ allocated \in [Threads -> Nat] /\ copies \in [Threads -> Nat]
  /\ pc \in [Threads -> PCs] /\ ret \in [Threads -> Results]
  /\ w = [t \in Threads |-> w[t]]
  /\ \A t \in Threads : Form(w[t]) /\ w[t].i \in Nat /\ w[t].err \in Results

\* The lists: descriptors, the array, the copies of paths.
ListInv ==
  \A t \in Threads :
    /\ list[t] \in Partial[t] \cup {<<>>}
    /\ \A k \in DOMAIN list[t] : FdsOf(list[t][k]) \subseteq Fds
    /\ allocated[t] >= Len(list[t])
    /\ copies[t] = Paths(list[t])

\* Where a thread is in its list; pairs.
WalkInv ==
  \A t \in Threads :
    /\ w[t].i <= Len(list[t]) + 1
    /\ pc[t] \in {"alloc", "apply", "mark"} => w[t].i >= 1
    /\ w[t].pairs \in Seq(Pairs)

\* What each thread will undo.
SavedInv ==
  /\ \A t \in Threads :
       /\ w[t].saved \in Seq(Entries)
       /\ pc[t] \in {"idle", "alloc"} => w[t].saved = <<>>
       /\ \A k \in DOMAIN w[t].saved :
            /\ w[t].saved[k].tag = "close" =>
                 w[t].saved[k].fd \in DOMAIN table.fds \ table.cloexec
            /\ w[t].saved[k].tag = "open" => w[t].saved[k].fd \in DOMAIN fds \ DOMAIN table.fds
  /\ \A t, u \in Threads : \A j \in DOMAIN w[t].saved, k \in DOMAIN w[u].saved :
       w[t].saved[j].tag = "open" /\ w[t].saved[j] = w[u].saved[k] => t = u /\ j = k

\* Some thread has an entry.
Undone(tag, fd) ==
  \E t \in Threads : \E k \in DOMAIN w[t].saved : w[t].saved[k] = [tag |-> tag, fd |-> fd]

\* How the table differs from the program's.
TableInv ==
  /\ fds = [fd \in DOMAIN fds |-> fds[fd]]
  /\ DOMAIN fds \subseteq Fds /\ cloexec \subseteq DOMAIN fds
  /\ DOMAIN table.fds \subseteq DOMAIN fds
  /\ \A fd \in DOMAIN table.fds : fds[fd] = table.fds[fd]
  /\ table.cloexec \subseteq cloexec
  /\ \A fd \in DOMAIN fds \ DOMAIN table.fds : fd \in cloexec /\ Undone("open", fd)
  /\ \A fd \in cloexec \ table.cloexec : fd \in DOMAIN table.fds => Undone("close", fd)

\* A thread that has read the flags of a descriptor and not yet set them.
MarkInv ==
  \A t \in Threads : pc[t] = "mark" =>
    /\ w[t].i \in DOMAIN list[t] /\ list[t][w[t].i].tag = "close"
    /\ list[t][w[t].i].fd \in DOMAIN table.fds \ table.cloexec

IInv == TypeInv /\ ListInv /\ WalkInv /\ SavedInv /\ TableInv /\ MarkInv

-----------------------------------------------------------------------------

(***************************************************************************)
(* What steps of one thread do.                                            *)
(***************************************************************************)

\* The locals of a thread after a step of another.
Same(x, y) ==
  Form(y) /\ y.i = x.i /\ y.pairs = x.pairs /\ y.saved = x.saved /\ y.err = x.err

\* A step of t that leaves the lists alone.
Local(t) ==
  /\ UNCHANGED <<table, list, allocated, copies>>
  /\ pc' \in [Threads -> PCs] /\ ret' \in [Threads -> Results]
  /\ w' = [u \in Threads |-> w'[u]]
  /\ \A u \in Threads \ {t} : Same(w[u], w'[u]) /\ pc'[u] = pc[u]
  /\ Form(w'[t]) /\ w'[t].i \in Nat /\ w'[t].err \in Results
  /\ w'[t].i <= Len(list[t]) + 1
  /\ pc'[t] \in {"alloc", "apply", "mark"} => w'[t].i >= 1
  /\ w'[t].pairs \in Seq(Pairs)
  /\ pc'[t] = "mark" =>
       /\ w'[t].i \in DOMAIN list[t] /\ list[t][w'[t].i].tag = "close"
       /\ list[t][w'[t].i].fd \in DOMAIN table.fds \ table.cloexec

\* It leaves the table and what is to be undone alone,
Keeps(t) ==
  /\ fds' = fds /\ cloexec' = cloexec
  /\ w'[t].saved = w[t].saved
  /\ pc'[t] \in {"idle", "alloc"} => w[t].saved = <<>>

\* or adds an entry and does what the entry will undo,
Pushes(t, e) ==
  /\ w'[t].saved = Append(w[t].saved, e)
  /\ pc'[t] \notin {"idle", "alloc"}
  /\ \/ e.tag = "none" /\ fds' = fds /\ cloexec' = cloexec
     \/ /\ e.tag = "close" /\ e.fd \in DOMAIN table.fds \ table.cloexec
        /\ fds' = fds /\ cloexec' = cloexec \cup {e.fd}
     \/ /\ e.tag = "open" /\ e.fd \in Fds \ DOMAIN fds
        /\ \E file : fds' = With(fds, e.fd, file)
        /\ cloexec' = cloexec \cup {e.fd}

\* or undoes the last entry.
Pops(t) ==
  /\ w[t].saved # <<>>
  /\ w'[t].saved = Front(w[t].saved)
  /\ pc'[t] \notin {"idle", "alloc"}
  /\ LET e == Last(w[t].saved)
     IN  /\ cloexec' = IF e.tag = "none" THEN cloexec ELSE cloexec \ {e.fd}
         /\ fds' = IF e.tag = "open" THEN Without(fds, {e.fd}) ELSE fds

LEMMA LocalStep ==
  ASSUME IInv, NEW t \in Threads, Local(t)
  PROVE  TypeInv' /\ ListInv' /\ WalkInv' /\ MarkInv'
<1>1. TypeInv'
  <2>1. \A u \in Threads : Form(w'[u]) /\ w'[u].i \in Nat /\ w'[u].err \in Results
    BY DEF IInv, TypeInv, Local, Same
  <2> QED
    BY <2>1 DEF IInv, TypeInv, Local
<1>2. ListInv'
  BY DEF IInv, ListInv, Local
<1>3. WalkInv'
  <2> SUFFICES ASSUME NEW u \in Threads
               PROVE  /\ w'[u].i <= Len(list[u]) + 1
                      /\ pc'[u] \in {"alloc", "apply", "mark"} => w'[u].i >= 1
                      /\ w'[u].pairs \in Seq(Pairs)
    BY DEF WalkInv, Local
  <2>1. CASE u = t
    BY <2>1 DEF Local
  <2>2. CASE u # t
    BY <2>2 DEF IInv, WalkInv, Local, Same
  <2> QED
    BY <2>1, <2>2
<1>4. MarkInv'
  <2> SUFFICES ASSUME NEW u \in Threads, pc'[u] = "mark"
               PROVE  /\ w'[u].i \in DOMAIN list[u] /\ list[u][w'[u].i].tag = "close"
                      /\ list[u][w'[u].i].fd \in DOMAIN table.fds \ table.cloexec
    BY DEF MarkInv, Local
  <2>1. CASE u = t
    BY <2>1 DEF Local
  <2>2. CASE u # t
    BY <2>2 DEF IInv, MarkInv, Local, Same
  <2> QED
    BY <2>1, <2>2
<1> QED
  BY <1>1, <1>2, <1>3, <1>4

\* The entries of all threads when those of t change.
LEMMA OthersSaved ==
  ASSUME NEW t \in Threads, Local(t)
  PROVE  \A u \in Threads : u # t => w'[u].saved = w[u].saved
BY DEF Local, Same

LEMMA KeepsStep ==
  ASSUME IInv, NEW t \in Threads, Local(t), Keeps(t)
  PROVE  IInv'
<1>1. \A u \in Threads : w'[u].saved = w[u].saved
  BY OthersSaved DEF Keeps
<1>2. SavedInv'
  <2>1. \A u \in Threads : pc'[u] \in {"idle", "alloc"} => w[u].saved = <<>>
    BY DEF Keeps, Local, IInv, SavedInv
  <2>2. table' = table /\ fds' = fds
    BY DEF Local, Keeps
  <2> QED
    BY <1>1, <2>1, <2>2, SMTT(30) DEF IInv, SavedInv
<1>3. TableInv'
  <2>1. \A tag, fd : Undone(tag, fd) => Undone(tag, fd)'
    BY <1>1 DEF Undone
  <2>2. table' = table /\ fds' = fds /\ cloexec' = cloexec
    BY DEF Local, Keeps
  <2> QED
    BY <2>1, <2>2 DEF IInv, TableInv
<1> QED
  BY <1>2, <1>3, LocalStep DEF IInv

\* A list with an entry added or its last one taken away.
LEMMA Appended ==
  ASSUME NEW S, NEW s \in Seq(S), NEW x \in S
  PROVE  /\ Append(s, x) \in Seq(S) /\ Len(s) \in Nat
         /\ DOMAIN s = 1..Len(s)
         /\ DOMAIN Append(s, x) = 1..(Len(s) + 1) /\ Len(Append(s, x)) = Len(s) + 1
         /\ \A k \in DOMAIN s : k \in DOMAIN Append(s, x) /\ Append(s, x)[k] = s[k]
         /\ Len(s) + 1 \in DOMAIN Append(s, x) /\ Append(s, x)[Len(s) + 1] = x
         /\ \A k \in DOMAIN Append(s, x) : k \in DOMAIN s \/ k = Len(s) + 1
<1>1. /\ Append(s, x) \in Seq(S) /\ Len(Append(s, x)) = Len(s) + 1
      /\ \A i \in 1..Len(s) : Append(s, x)[i] = s[i]
      /\ Append(s, x)[Len(s) + 1] = x
  BY AppendProperties
<1>2. DOMAIN s = 1..Len(s) /\ Len(s) \in Nat /\ DOMAIN Append(s, x) = 1..(Len(s) + 1)
  BY <1>1, LenProperties
<1> QED
  BY <1>1, <1>2

LEMMA Fronted ==
  ASSUME NEW S, NEW s \in Seq(S), s # <<>>
  PROVE  /\ Front(s) \in Seq(S) /\ DOMAIN s = 1..Len(s) /\ Len(s) \in Nat \ {0}
         /\ DOMAIN Front(s) = 1..(Len(s) - 1)
         /\ \A k \in DOMAIN Front(s) : k \in DOMAIN s /\ k # Len(s) /\ Front(s)[k] = s[k]
         /\ \A k \in DOMAIN s : k # Len(s) => k \in DOMAIN Front(s)
         /\ Last(s) = s[Len(s)] /\ Len(s) \in DOMAIN s /\ Last(s) \in S
<1>1. DOMAIN s = 1..Len(s) /\ Len(s) \in Nat /\ Len(s) # 0 /\ \A k \in 1..Len(s) : s[k] \in S
  BY LenProperties, ElementOfSeq, EmptySeq
<1>2. 1 \in Int /\ Len(s) - 1 \in Int /\ \A k \in 1..(Len(s) - 1) : s[k] \in S
  BY <1>1
<1>3. /\ Front(s) \in Seq(S)
      /\ Len(Front(s)) = IF 1 <= Len(s) - 1 THEN Len(s) - 1 - 1 + 1 ELSE 0
      /\ \A k \in 1 .. (Len(s) - 1) - 1 + 1 : Front(s)[k] = s[1 + k - 1]
  BY <1>2, SubSeqProperties DEF Front
<1>4. Len(Front(s)) = Len(s) - 1
  <2> DEFINE n == Len(s)
             m == Len(Front(s))
  <2>1. n \in Nat /\ n # 0 /\ m = IF 1 <= n - 1 THEN n - 1 - 1 + 1 ELSE 0
    BY <1>1, <1>3
  <2> HIDE DEF n, m
  <2>2. m = n - 1
    BY <2>1
  <2> QED
    BY <2>2 DEF n, m
<1>5. DOMAIN Front(s) = 1..(Len(s) - 1)
  BY <1>3, <1>4, LenProperties
<1>6. ASSUME NEW k \in 1..(Len(s) - 1) PROVE Front(s)[k] = s[k] /\ k \in 1..Len(s) /\ k # Len(s)
  <2> DEFINE n == Len(s)
  <2>0. n \in Nat /\ k \in 1..(n - 1)
    BY <1>1
  <2> HIDE DEF n
  <2>1. k \in 1 .. (n - 1) - 1 + 1 /\ 1 + k - 1 = k /\ k \in 1..n /\ k # n
    BY <2>0
  <2> USE DEF n
  <2> QED
    BY <1>3, <2>1
<1>7. \A k \in 1..Len(s) : k # Len(s) => k \in 1..(Len(s) - 1)
  <2> DEFINE n == Len(s)
  <2>0. n \in Nat
    BY <1>1
  <2> HIDE DEF n
  <2>1. \A k \in 1..n : k # n => k \in 1..(n - 1)
    BY <2>0
  <2> QED
    BY <2>1 DEF n
<1>8. Last(s) = s[Len(s)] /\ Len(s) \in 1..Len(s)
  BY <1>1 DEF Last
<1> QED
  BY <1>1, <1>3, <1>5, <1>6, <1>7, <1>8

LEMMA PushStep ==
  ASSUME IInv, NEW t \in Threads, NEW e \in Entries, Local(t), Pushes(t, e)
  PROVE  IInv'
<1> DEFINE s == w[t].saved
           n == Len(s) + 1
<1>1. \A u \in Threads : u # t => w'[u].saved = w[u].saved
  BY OthersSaved
<1>2. s \in Seq(Entries) /\ w'[t].saved = Append(s, e) /\ table' = table
  BY DEF IInv, SavedInv, Pushes, Local
<1>3. /\ w'[t].saved \in Seq(Entries) /\ n \in DOMAIN w'[t].saved /\ w'[t].saved[n] = e
      /\ \A k \in DOMAIN s : k \in DOMAIN w'[t].saved /\ w'[t].saved[k] = s[k]
      /\ \A k \in DOMAIN w'[t].saved : k \in DOMAIN s \/ k = n
  BY <1>2, Appended
<1> HIDE DEF n
<1>4. DOMAIN fds \subseteq DOMAIN fds' /\ cloexec \subseteq cloexec'
  BY DEF Pushes, With
<1>5. SavedInv'
  <2>1. ASSUME NEW u \in Threads
        PROVE  w'[u].saved \in Seq(Entries) /\ (pc'[u] \in {"idle", "alloc"} => w'[u].saved = <<>>)
    <3>1. CASE u = t
      BY <1>3, <3>1 DEF Pushes
    <3>2. CASE u # t
      <4>1. pc'[u] = pc[u] /\ w'[u].saved = w[u].saved
        BY <1>1, <3>2 DEF Local
      <4> QED
        BY <4>1 DEF IInv, SavedInv
    <3> QED
      BY <3>1, <3>2
  <2>2. /\ e.tag = "close" => e.fd \in DOMAIN table.fds \ table.cloexec
        /\ e.tag = "open" => e.fd \in DOMAIN fds' \ DOMAIN table.fds /\ e.fd \notin DOMAIN fds
    BY DEF Pushes, With, IInv, TableInv
  <2>3. ASSUME NEW u \in Threads, NEW k \in DOMAIN w'[u].saved
        PROVE  /\ w'[u].saved[k].tag = "close" =>
                    w'[u].saved[k].fd \in DOMAIN table.fds \ table.cloexec
               /\ w'[u].saved[k].tag = "open" =>
                    w'[u].saved[k].fd \in DOMAIN fds' \ DOMAIN table.fds
    <3>1. CASE u = t /\ k = n
      BY <1>3, <2>2, <3>1
    <3>2. CASE ~(u = t /\ k = n)
      <4>1. k \in DOMAIN w[u].saved /\ w'[u].saved[k] = w[u].saved[k]
        BY <1>1, <1>3, <3>2
      <4> QED
        BY <1>4, <4>1 DEF IInv, SavedInv
    <3> QED
      BY <3>1, <3>2
  <2>4. ASSUME NEW u \in Threads, NEW v \in Threads,
               NEW j \in DOMAIN w'[u].saved, NEW k \in DOMAIN w'[v].saved,
               w'[u].saved[j].tag = "open", w'[u].saved[j] = w'[v].saved[k]
        PROVE  u = v /\ j = k
    <3>1. ASSUME NEW x \in Threads, NEW m \in DOMAIN w'[x].saved, ~(x = t /\ m = n)
          PROVE  /\ m \in DOMAIN w[x].saved /\ w'[x].saved[m] = w[x].saved[m]
                 /\ w'[x].saved[m].tag = "open" => w'[x].saved[m].fd \in DOMAIN fds
      <4>1. m \in DOMAIN w[x].saved /\ w'[x].saved[m] = w[x].saved[m]
        BY <1>1, <1>3, <3>1
      <4> QED
        BY <4>1 DEF IInv, SavedInv
    <3>2. CASE u = t /\ j = n
      <4>1. w'[v].saved[k].tag = "open" /\ w'[v].saved[k].fd \notin DOMAIN fds
        BY <1>3, <2>2, <2>4, <3>2
      <4>2. v = t /\ k = n
        BY <3>1, <4>1
      <4> QED
        BY <3>2, <4>2
    <3>3. CASE v = t /\ k = n
      <4>1. w'[u].saved[j].tag = "open" /\ w'[u].saved[j].fd \notin DOMAIN fds
        BY <1>3, <2>2, <2>4, <3>3
      <4> QED
        BY <3>1, <3>3, <4>1
    <3>4. CASE ~(u = t /\ j = n) /\ ~(v = t /\ k = n)
      <4>1. /\ j \in DOMAIN w[u].saved /\ w'[u].saved[j] = w[u].saved[j]
            /\ k \in DOMAIN w[v].saved /\ w'[v].saved[k] = w[v].saved[k]
        BY <3>1, <3>4
      <4>2. w[u].saved[j].tag = "open" /\ w[u].saved[j] = w[v].saved[k]
        BY <2>4, <4>1
      <4>3. SavedInv
        BY DEF IInv
      <4> QED
        BY <4>1, <4>2, <4>3 DEF SavedInv
    <3> QED
      BY <3>2, <3>3, <3>4
  <2> QED
    BY <1>2, <2>1, <2>3, <2>4 DEF SavedInv
<1>6. TableInv'
  <2>1. \A tag, fd : Undone(tag, fd) => Undone(tag, fd)'
    <3> SUFFICES ASSUME NEW tag, NEW fd, NEW u \in Threads, NEW k \in DOMAIN w[u].saved,
                        w[u].saved[k] = [tag |-> tag, fd |-> fd]
                 PROVE  Undone(tag, fd)'
      BY DEF Undone
    <3>1. k \in DOMAIN w'[u].saved /\ w'[u].saved[k] = w[u].saved[k]
      BY <1>1, <1>3
    <3> QED
      BY <3>1 DEF Undone
  <2>2. Undone(e.tag, e.fd)'
    <3>1. e = [tag |-> e.tag, fd |-> e.fd]
      BY DEF Entries
    <3> QED
      BY <1>3, <3>1 DEF Undone
  <2>3. table.fds = [fd \in DOMAIN table.fds |-> table.fds[fd]] /\ DOMAIN table.fds \subseteq Fds
    BY PosixSpawnAssumption DEF IInv, TypeInv
  <2>4. CASE e.tag = "none"
    <3>1. fds' = fds /\ cloexec' = cloexec
      BY <2>4 DEF Pushes
    <3> QED
      BY <1>2, <2>1, <3>1 DEF IInv, TableInv
  <2>5. CASE e.tag = "close"
    <3>1. fds' = fds /\ cloexec' = cloexec \cup {e.fd} /\ e.fd \in DOMAIN table.fds
      BY <2>5 DEF Pushes
    <3> QED
      BY <1>2, <2>1, <2>2, <2>5, <3>1 DEF IInv, TableInv
  <2>6. CASE e.tag = "open"
    <3>1. PICK file : fds' = With(fds, e.fd, file)
      BY <2>6 DEF Pushes
    <3>2. cloexec' = cloexec \cup {e.fd} /\ e.fd \in Fds \ DOMAIN fds
      BY <2>6 DEF Pushes
    <3>3. /\ DOMAIN fds' = DOMAIN fds \cup {e.fd} /\ fds' = [fd \in DOMAIN fds' |-> fds'[fd]]
          /\ \A fd \in DOMAIN fds : fds'[fd] = fds[fd]
      BY <3>1, <3>2 DEF With
    <3>4. DOMAIN table.fds \subseteq DOMAIN fds /\ e.fd \notin DOMAIN table.fds
      BY <3>2 DEF IInv, TableInv
    <3> QED
      BY <1>2, <2>1, <2>2, <2>6, <3>2, <3>3, <3>4 DEF IInv, TableInv
  <2> QED
    BY <2>4, <2>5, <2>6 DEF Pushes
<1> QED
  BY <1>5, <1>6, LocalStep DEF IInv

LEMMA PopStep ==
  ASSUME IInv, NEW t \in Threads, Local(t), Pops(t)
  PROVE  IInv'
<1> DEFINE s == w[t].saved
           n == Len(s)
           e == Last(s)
<1>1. \A u \in Threads : u # t => w'[u].saved = w[u].saved
  BY OthersSaved
<1>2. s \in Seq(Entries) /\ s # <<>> /\ w'[t].saved = Front(s) /\ table' = table
  BY DEF IInv, SavedInv, Pops, Local
<1>3. /\ w'[t].saved \in Seq(Entries) /\ n \in DOMAIN s /\ s[n] = e /\ e \in Entries
      /\ \A k \in DOMAIN w'[t].saved : k \in DOMAIN s /\ k # n /\ w'[t].saved[k] = s[k]
      /\ \A k \in DOMAIN s : k # n => k \in DOMAIN w'[t].saved /\ w'[t].saved[k] = s[k]
  BY <1>2, Fronted
<1>4. /\ cloexec' = IF e.tag = "none" THEN cloexec ELSE cloexec \ {e.fd}
      /\ fds' = IF e.tag = "open" THEN Without(fds, {e.fd}) ELSE fds
  BY DEF Pops
<1> HIDE DEF n, e
<1>5. /\ e.tag = "close" => e.fd \in DOMAIN table.fds \ table.cloexec
      /\ e.tag = "open" => e.fd \in DOMAIN fds \ DOMAIN table.fds
  BY <1>3 DEF IInv, SavedInv
\* An entry that is left is another one.
<1>6. ASSUME NEW u \in Threads, NEW k \in DOMAIN w'[u].saved
      PROVE  /\ k \in DOMAIN w[u].saved /\ w'[u].saved[k] = w[u].saved[k]
             /\ e.tag = "open" => w'[u].saved[k] # e
  <2>1. k \in DOMAIN w[u].saved /\ w'[u].saved[k] = w[u].saved[k] /\ ~(u = t /\ k = n)
    BY <1>1, <1>3
  <2>2. ASSUME e.tag = "open", w[u].saved[k] = e PROVE t = u /\ n = k
    BY <1>3, <2>1, <2>2 DEF IInv, SavedInv
  <2> QED
    BY <2>1, <2>2
<1>7. /\ DOMAIN fds' = IF e.tag = "open" THEN DOMAIN fds \ {e.fd} ELSE DOMAIN fds
      /\ \A fd \in DOMAIN fds' : fds'[fd] = fds[fd]
      /\ fds' = [fd \in DOMAIN fds' |-> fds'[fd]]
  BY <1>4 DEF Without, IInv, TableInv
<1>8. SavedInv'
  <2>1. ASSUME NEW u \in Threads
        PROVE  w'[u].saved \in Seq(Entries) /\ (pc'[u] \in {"idle", "alloc"} => w'[u].saved = <<>>)
    <3>1. CASE u = t
      BY <1>3, <3>1 DEF Pops
    <3>2. CASE u # t
      <4>1. pc'[u] = pc[u] /\ w'[u].saved = w[u].saved
        BY <1>1, <3>2 DEF Local
      <4> QED
        BY <4>1 DEF IInv, SavedInv
    <3> QED
      BY <3>1, <3>2
  <2>2. ASSUME NEW u \in Threads, NEW k \in DOMAIN w'[u].saved
        PROVE  /\ w'[u].saved[k].tag = "close" =>
                    w'[u].saved[k].fd \in DOMAIN table.fds \ table.cloexec
               /\ w'[u].saved[k].tag = "open" =>
                    w'[u].saved[k].fd \in DOMAIN fds' \ DOMAIN table.fds
    <3>1. w'[u].saved[k] = w[u].saved[k] /\ k \in DOMAIN w[u].saved
      BY <1>6
    <3>2. w[u].saved[k] \in Entries
      BY <3>1, ElementOfSeq, LenProperties DEF IInv, SavedInv
    <3>3. /\ w[u].saved[k].tag = "close" => w[u].saved[k].fd \in DOMAIN table.fds \ table.cloexec
          /\ w[u].saved[k].tag = "open" => w[u].saved[k].fd \in DOMAIN fds \ DOMAIN table.fds
      BY <3>1 DEF IInv, SavedInv
    <3>4. e.tag = "open" /\ w[u].saved[k].tag = "open" => w[u].saved[k].fd # e.fd
      BY <1>3, <1>6, <3>1, <3>2 DEF Entries
    <3> QED
      BY <1>7, <3>1, <3>3, <3>4
  <2>3. ASSUME NEW u \in Threads, NEW v \in Threads,
               NEW j \in DOMAIN w'[u].saved, NEW k \in DOMAIN w'[v].saved,
               w'[u].saved[j].tag = "open", w'[u].saved[j] = w'[v].saved[k]
        PROVE  u = v /\ j = k
    <3>1. /\ j \in DOMAIN w[u].saved /\ w'[u].saved[j] = w[u].saved[j]
          /\ k \in DOMAIN w[v].saved /\ w'[v].saved[k] = w[v].saved[k]
      BY <1>6
    <3>2. w[u].saved[j].tag = "open" /\ w[u].saved[j] = w[v].saved[k]
      BY <2>3, <3>1
    <3>3. SavedInv
      BY DEF IInv
    <3> QED
      BY <3>1, <3>2, <3>3 DEF SavedInv
  <2> QED
    BY <1>2, <2>1, <2>2, <2>3 DEF SavedInv
<1>9. TableInv'
  <2>1. ASSUME NEW tag, NEW fd, Undone(tag, fd), ~(tag = e.tag /\ fd = e.fd)
        PROVE  Undone(tag, fd)'
    <3>0. PICK u \in Threads :
            \E k \in DOMAIN w[u].saved : w[u].saved[k] = [tag |-> tag, fd |-> fd]
      BY <2>1 DEF Undone
    <3>1. PICK k \in DOMAIN w[u].saved : w[u].saved[k] = [tag |-> tag, fd |-> fd]
      BY <3>0
    <3>2. [tag |-> tag, fd |-> fd] # e
      BY <2>1
    <3>3. k \in DOMAIN w'[u].saved /\ w'[u].saved[k] = w[u].saved[k]
      BY <1>1, <1>3, <3>1, <3>2
    <3> QED
      BY <3>1, <3>3 DEF Undone
  <2>2. e.tag \in {"none", "close", "open"}
    BY <1>3 DEF Entries
  <2>3. /\ DOMAIN fds' \subseteq DOMAIN fds /\ cloexec' \subseteq cloexec
        /\ DOMAIN fds' \subseteq Fds /\ cloexec' \subseteq DOMAIN fds'
    BY <1>4, <1>7, <2>2 DEF IInv, TableInv
  <2>4. table.cloexec \subseteq DOMAIN table.fds
    BY PosixSpawnAssumption DEF IInv, TypeInv
  <2>5. DOMAIN table.fds \subseteq DOMAIN fds' /\ table.cloexec \subseteq cloexec'
    BY <1>4, <1>5, <1>7, <2>2, <2>4 DEF IInv, TableInv
  <2>6. \A fd \in DOMAIN table.fds : fds'[fd] = table.fds[fd]
    BY <1>7, <2>5 DEF IInv, TableInv
  <2>7. ASSUME NEW fd \in DOMAIN fds' \ DOMAIN table.fds PROVE fd \in cloexec' /\ Undone("open", fd)'
    <3>1. fd \in cloexec /\ Undone("open", fd)
      BY <2>3 DEF IInv, TableInv
    <3>2. ~("open" = e.tag /\ fd = e.fd)
      BY <1>7
    <3>3. fd \in cloexec'
      BY <1>4, <1>5, <2>2, <3>1, <3>2
    <3> QED
      BY <2>1, <3>1, <3>2, <3>3
  <2>8. ASSUME NEW fd \in cloexec' \ table.cloexec, fd \in DOMAIN table.fds PROVE Undone("close", fd)'
    <3>1. Undone("close", fd)
      BY <2>3, <2>8 DEF IInv, TableInv
    <3>2. ~("close" = e.tag /\ fd = e.fd)
      BY <1>4
    <3> QED
      BY <2>1, <3>1, <3>2
  <2> QED
    BY <1>2, <1>7, <2>3, <2>5, <2>6, <2>7, <2>8 DEF TableInv
<1> QED
  BY <1>8, <1>9, LocalStep DEF IInv

(***************************************************************************)
(* The ways in which steps change the locals.                              *)
(***************************************************************************)
LEMMA Changed ==
  ASSUME IInv, NEW t \in Threads, NEW x, NEW p \in PCs,
         w' = [w EXCEPT ![t] = x], pc' = [pc EXCEPT ![t] = p],
         ret' \in [Threads -> Results], UNCHANGED <<table, list, allocated, copies>>,
         Form(x), x.i \in Nat, x.err \in Results, x.i <= Len(list[t]) + 1,
         p \in {"alloc", "apply", "mark"} => x.i >= 1, x.pairs \in Seq(Pairs),
         p = "mark" =>
           /\ x.i \in DOMAIN list[t] /\ list[t][x.i].tag = "close"
           /\ list[t][x.i].fd \in DOMAIN table.fds \ table.cloexec
  PROVE  Local(t) /\ w'[t] = x /\ pc'[t] = p
<1>1. /\ w = [u \in Threads |-> w[u]] /\ pc \in [Threads -> PCs]
      /\ \A u \in Threads : Form(w[u])
  BY DEF IInv, TypeInv
<1>2. /\ w'[t] = x /\ w' = [u \in Threads |-> w'[u]]
      /\ \A u \in Threads \ {t} : w'[u] = w[u]
  BY <1>1
<1>3. /\ pc' \in [Threads -> PCs] /\ pc'[t] = p
      /\ \A u \in Threads \ {t} : pc'[u] = pc[u]
  BY <1>1
<1>4. \A u \in Threads \ {t} : Same(w[u], w'[u])
  BY <1>1, <1>2 DEF Same
<1> QED
  BY <1>2, <1>3, <1>4 DEF Local

\* The state of t.
LEMMA Locals ==
  ASSUME IInv, NEW t \in Threads
  PROVE  /\ Form(w[t]) /\ w[t].i \in Nat /\ w[t].err \in Results /\ w[t].pairs \in Seq(Pairs)
         /\ w[t].i <= Len(list[t]) + 1 /\ w[t].saved \in Seq(Entries)
         /\ list[t] \in Seq(AllActions) /\ Len(list[t]) \in Nat
         /\ DOMAIN list[t] = 1..Len(list[t])
         /\ pc[t] \in {"alloc", "apply", "mark"} => w[t].i >= 1
         /\ pc[t] \in {"idle", "alloc"} => w[t].saved = <<>>
         /\ w[t] = [w EXCEPT ![t] = w[t]][t] /\ w = [w EXCEPT ![t] = w[t]]
         /\ ret \in [Threads -> Results] /\ pc[t] \in PCs
<1>1. list[t] \in Seq(AllActions) /\ ret \in [Threads -> Results] /\ pc[t] \in PCs
  BY DEF IInv, TypeInv
<1>2. Len(list[t]) \in Nat /\ DOMAIN list[t] = 1..Len(list[t])
  BY <1>1, LenProperties
<1>3. w = [w EXCEPT ![t] = w[t]]
  <2>1. w = [u \in Threads |-> w[u]]
    BY DEF IInv, TypeInv
  <2> QED
    BY <2>1
<1> QED
  BY <1>1, <1>2, <1>3 DEF IInv, TypeInv, WalkInv, SavedInv

LEMMA FailStep ==
  ASSUME IInv, NEW t \in Threads, NEW e \in Results, Fail(t, e), fds' = fds, cloexec' = cloexec,
         UNCHANGED <<table, list, allocated, copies, ret>>
  PROVE  IInv'
<1> DEFINE x == [w[t] EXCEPT !.err = e]
<1>1. w' = [w EXCEPT ![t] = x] /\ pc' = [pc EXCEPT ![t] = "restore"]
  BY DEF Fail, Goto
<1>2. Form(x) /\ x.i = w[t].i /\ x.pairs = w[t].pairs /\ x.saved = w[t].saved /\ x.err = e
  <2>1. Form(w[t])
    BY Locals
  <2> QED
    BY <2>1 DEF Form
<1> HIDE DEF x
<1>3. "restore" \in PCs /\ ret' = ret
  BY DEF PCs
<1>4. Local(t) /\ w'[t] = x /\ pc'[t] = "restore"
  BY <1>1, <1>2, <1>3, Changed, Locals, ZenonT(30)
<1>5. Keeps(t)
  BY <1>2, <1>4 DEF Keeps
<1> QED
  BY <1>4, <1>5, KeepsStep

LEMMA GotoStep ==
  ASSUME IInv, NEW t \in Threads, NEW l \in PCs, Goto(t, l), w' = w, fds' = fds,
         cloexec' = cloexec, UNCHANGED <<table, list, allocated, copies, ret>>,
         l \notin {"idle", "alloc"}, l \in {"apply", "mark"} => w[t].i >= 1,
         l = "mark" =>
           /\ w[t].i \in DOMAIN list[t] /\ list[t][w[t].i].tag = "close"
           /\ list[t][w[t].i].fd \in DOMAIN table.fds \ table.cloexec
  PROVE  IInv'
<1>1. w' = [w EXCEPT ![t] = w[t]] /\ pc' = [pc EXCEPT ![t] = l]
  BY Locals DEF Goto
<1> DEFINE x == w[t]
<1>2. /\ w' = [w EXCEPT ![t] = x] /\ Form(x) /\ x.i \in Nat /\ x.err \in Results
      /\ x.i <= Len(list[t]) + 1 /\ x.pairs \in Seq(Pairs) /\ ret' \in [Threads -> Results]
  BY <1>1, Locals
<1>a. /\ l \in {"alloc", "apply", "mark"} => x.i >= 1
      /\ l = "mark" =>
           /\ x.i \in DOMAIN list[t] /\ list[t][x.i].tag = "close"
           /\ list[t][x.i].fd \in DOMAIN table.fds \ table.cloexec
  OBVIOUS
<1> HIDE DEF x
<1>b. Local(t) /\ w'[t] = x /\ pc'[t] = l
  BY <1>1, <1>2, <1>a, Changed
<1>3. Local(t) /\ w'[t] = w[t] /\ pc'[t] = l
  BY <1>b DEF x
<1>4. Keeps(t)
  BY <1>3 DEF Keeps
<1> QED
  BY <1>3, <1>4, KeepsStep

LEMMA NoWorkForm ==
  /\ Form(NoWork) /\ NoWork.i = 0 /\ NoWork.pairs = <<>> /\ NoWork.saved = <<>>
  /\ NoWork.err = "ok"
BY DEF Form, NoWork

LEMMA ReturnStep ==
  ASSUME IInv, NEW t \in Threads, NEW r \in Results, Return(t, r), fds' = fds,
         cloexec' = cloexec, UNCHANGED <<table, list, allocated, copies>>,
         w[t].saved = <<>>
  PROVE  IInv'
<1> DEFINE x == [NoWork EXCEPT !.alone = w[t].alone, !.std = w[t].std,
                               !.noinherit = w[t].noinherit]
<1>1. w' = [w EXCEPT ![t] = x] /\ pc' = [pc EXCEPT ![t] = "idle"]
  BY DEF Return, Goto
<1>2. Form(x) /\ x.i = 0 /\ x.pairs = <<>> /\ x.saved = <<>> /\ x.err = "ok"
  <2> DEFINE a  == w[t].alone
             b  == w[t].std
             c  == w[t].noinherit
             z1 == [NoWork EXCEPT !.alone = a]
             z2 == [z1 EXCEPT !.std = b]
             z3 == [z2 EXCEPT !.noinherit = c]
  <2>0. x = z3
    OBVIOUS
  <2> HIDE DEF a, b, c, x
  <2>1. Form(z1) /\ z1.i = 0 /\ z1.pairs = <<>> /\ z1.saved = <<>> /\ z1.err = "ok"
    BY NoWorkForm DEF Form
  <2> HIDE DEF z1
  <2>2. Form(z2) /\ z2.i = 0 /\ z2.pairs = <<>> /\ z2.saved = <<>> /\ z2.err = "ok"
    BY <2>1 DEF Form
  <2> HIDE DEF z2
  <2>3. Form(z3) /\ z3.i = 0 /\ z3.pairs = <<>> /\ z3.saved = <<>> /\ z3.err = "ok"
    BY <2>2 DEF Form
  <2> HIDE DEF z3
  <2> QED
    BY <2>0, <2>3
<1> HIDE DEF x
<1>3. "idle" \in PCs /\ "ok" \in Results /\ ret' \in [Threads -> Results]
  BY Locals DEF PCs, Results, Return
<1>4. x.pairs \in Seq(Pairs) /\ x.i \in Nat /\ x.i <= Len(list[t]) + 1 /\ x.err \in Results
  BY <1>2, <1>3, Locals
<1>5. Local(t) /\ w'[t] = x /\ pc'[t] = "idle"
  BY <1>1, <1>2, <1>3, <1>4, Changed
<1>6. Keeps(t)
  BY <1>2, <1>5 DEF Keeps
<1> QED
  BY <1>5, <1>6, KeepsStep

\* An action of the list that goes well.
LEMMA AtFacts ==
  ASSUME IInv, NEW t \in Threads, NEW tag, At(t, tag)
  PROVE  /\ pc[t] = "apply" /\ w[t].i \in DOMAIN list[t] /\ w[t].i >= 1
         /\ Action(t).tag = tag /\ FdsOf(Action(t)) \subseteq Fds
<1>1. pc[t] = "apply" /\ w[t].i <= Len(list[t]) /\ Action(t).tag = tag
  BY DEF At, Action
<1>2. w[t].i \in DOMAIN list[t] /\ w[t].i >= 1
  BY <1>1, Locals
<1>3. FdsOf(Action(t)) \subseteq Fds
  BY <1>2 DEF Action, IInv, ListInv
<1> QED
  BY <1>1, <1>2, <1>3

LEMMA NoteStep ==
  ASSUME IInv, NEW t \in Threads, NEW work, Note(t, work), w[t].i \in DOMAIN list[t],
         Form(work), work.i = w[t].i, work.err = w[t].err, work.pairs \in Seq(Pairs),
         UNCHANGED <<table, list, allocated, copies, ret>>
  PROVE  Local(t) /\ w'[t].saved = work.saved /\ pc'[t] = "apply"
<1> DEFINE x == [work EXCEPT !.i = @ + 1]
<1>1. w' = [w EXCEPT ![t] = x] /\ pc' = [pc EXCEPT ![t] = "apply"]
  BY DEF Note, Goto
<1>2. /\ Form(x) /\ x.i = w[t].i + 1 /\ x.pairs = work.pairs
      /\ x.saved = work.saved /\ x.err = w[t].err
  BY DEF Form
<1> HIDE DEF x
<1>3. "apply" \in PCs /\ ret' = ret
  BY DEF PCs
<1>4. x.i \in Nat /\ x.i <= Len(list[t]) + 1 /\ x.i >= 1
  BY <1>2, Locals
<1>5. x.err \in Results /\ x.pairs \in Seq(Pairs) /\ ret' \in [Threads -> Results]
  BY <1>2, <1>3, Locals
<1>6. Local(t) /\ w'[t] = x /\ pc'[t] = "apply"
  BY <1>1, <1>2, <1>3, <1>4, <1>5, Changed, ZenonT(30)
<1> QED
  BY <1>2, <1>6

(***************************************************************************)
(* The actions.                                                            *)
(***************************************************************************)
LEMMA AllocStep ==
  ASSUME IInv, NEW t \in Threads, Alloc(t)
  PROVE  IInv'
<1>1. pc[t] = "alloc" /\ "apply" \in PCs /\ "ENOMEM" \in Results
  BY DEF Alloc, PCs, Results
<1>2. w[t].i >= 1 /\ w[t].saved = <<>>
  BY <1>1, Locals
<1>3. CASE Goto(t, "apply") /\ UNCHANGED <<w, ret>>
  BY <1>1, <1>2, <1>3, GotoStep DEF Alloc
<1>4. CASE Return(t, "ENOMEM")
  BY <1>1, <1>2, <1>4, ReturnStep DEF Alloc
<1> QED
  BY <1>3, <1>4 DEF Alloc

LEMMA DoCloseStep ==
  ASSUME IInv, NEW t \in Threads, DoClose(t)
  PROVE  IInv'
<1> DEFINE fd == Action(t).fd
<1>1. UNCHANGED <<table, list, allocated, copies, ret>> /\ fds' = fds /\ cloexec' = cloexec
  BY DEF DoClose
<1>2. /\ pc[t] = "apply" /\ w[t].i \in DOMAIN list[t] /\ w[t].i >= 1 /\ Action(t).tag = "close"
  BY AtFacts DEF DoClose
<1>3. CASE fd \notin DOMAIN fds
  <2>1. Fail(t, "EINVAL") /\ "EINVAL" \in Results
    BY <1>3 DEF DoClose, Results
  <2> QED
    BY <1>1, <2>1, FailStep
<1>4. CASE fd \in DOMAIN fds /\ fd \in cloexec
  <2> DEFINE work == Push(t, NotMine)
  <2>1. Note(t, work)
    BY <1>4 DEF DoClose
  <2>2. /\ Form(work) /\ work.i = w[t].i /\ work.err = w[t].err
        /\ work.pairs = w[t].pairs /\ work.saved = Append(w[t].saved, NotMine)
    <3>1. Form(w[t])
      BY Locals
    <3> QED
      BY <3>1 DEF Form, Push
  <2> HIDE DEF work
  <2>3. Local(t) /\ w'[t].saved = work.saved /\ pc'[t] = "apply"
    BY <1>1, <1>2, <2>1, <2>2, NoteStep, Locals
  <2>4. Pushes(t, NotMine)
    BY <1>1, <2>2, <2>3 DEF Pushes, NotMine
  <2>5. NotMine \in Entries
    BY DEF NotMine, Entries
  <2> QED
    BY <2>3, <2>4, <2>5, PushStep
<1>5. CASE fd \in DOMAIN fds /\ fd \notin cloexec
  <2>1. Goto(t, "mark") /\ w' = w /\ "mark" \in PCs
    BY <1>5 DEF DoClose, PCs
  <2>2. fd \in DOMAIN table.fds \ table.cloexec
    BY <1>5 DEF IInv, TableInv
  <2> QED
    BY <1>1, <1>2, <2>1, <2>2, GotoStep DEF Action
<1> QED
  BY <1>3, <1>4, <1>5

LEMMA MarkCloseStep ==
  ASSUME IInv, NEW t \in Threads, MarkClose(t)
  PROVE  IInv'
<1> DEFINE fd == Action(t).fd
<1>1. UNCHANGED <<table, list, allocated, copies, ret>> /\ fds' = fds /\ pc[t] = "mark"
  BY DEF MarkClose
<1>2. w[t].i \in DOMAIN list[t] /\ fd \in DOMAIN table.fds \ table.cloexec /\ fd \in DOMAIN fds
  BY <1>1 DEF IInv, MarkInv, TableInv, Action
<1> DEFINE work == Push(t, SavedFlag(fd))
<1>3. Note(t, work) /\ cloexec' = cloexec \cup {fd}
  BY <1>2 DEF MarkClose
<1>4. /\ Form(work) /\ work.i = w[t].i /\ work.err = w[t].err
      /\ work.pairs = w[t].pairs /\ work.saved = Append(w[t].saved, SavedFlag(fd))
  <2>1. Form(w[t])
    BY Locals
  <2> QED
    BY <2>1, SMTT(30) DEF Form, Push
<1> HIDE DEF work, fd
<1>5. Local(t) /\ w'[t].saved = work.saved /\ pc'[t] = "apply"
  BY <1>1, <1>2, <1>3, <1>4, NoteStep, Locals
<1>6. Pushes(t, SavedFlag(fd))
  BY <1>1, <1>2, <1>3, <1>4, <1>5 DEF Pushes, SavedFlag
<1>7. SavedFlag(fd) \in Entries
  <2>1. fd \in Fds
    BY <1>2 DEF IInv, TableInv
  <2> QED
    BY <2>1 DEF SavedFlag, Entries
<1> QED
  BY <1>5, <1>6, <1>7, PushStep

LEMMA DoDup2Step ==
  ASSUME IInv, NEW t \in Threads, DoDup2(t)
  PROVE  IInv'
<1> DEFINE a == Action(t)
<1>1. UNCHANGED <<table, list, allocated, copies, ret>> /\ fds' = fds /\ cloexec' = cloexec
  BY DEF DoDup2
<1>2. /\ pc[t] = "apply" /\ w[t].i \in DOMAIN list[t]
      /\ a.tag = "dup2" /\ FdsOf(a) \subseteq Fds
  BY AtFacts DEF DoDup2
<1>3. <<a.fd, a.newfd>> \in Pairs
  BY <1>2 DEF FdsOf, Pairs
<1>4. CASE a.fd \notin DOMAIN fds
  <2>1. Fail(t, "EINVAL") /\ "EINVAL" \in Results
    BY <1>4 DEF DoDup2, Results
  <2> QED
    BY <1>1, <2>1, FailStep
<1>5. CASE a.fd \in DOMAIN fds
  <2> DEFINE q == Append(w[t].pairs, <<a.fd, a.newfd>>)
             work == [w[t] EXCEPT !.pairs = q]
  <2>1. Note(t, work)
    BY <1>5 DEF DoDup2
  <2>0. q \in Seq(Pairs)
    BY <1>3, Locals, Appended
  <2> HIDE DEF q
  <2>2. /\ Form(work) /\ work.i = w[t].i /\ work.err = w[t].err
        /\ work.pairs = q /\ work.saved = w[t].saved
    <3>1. Form(w[t])
      BY Locals
    <3> QED
      BY <3>1 DEF Form
  <2> HIDE DEF work
  <2>3. work.pairs \in Seq(Pairs)
    BY <2>0, <2>2
  <2>4. Local(t) /\ w'[t].saved = work.saved /\ pc'[t] = "apply"
    BY <1>1, <1>2, <2>1, <2>2, <2>3, NoteStep
  <2>5. Keeps(t)
    BY <1>1, <2>2, <2>4 DEF Keeps
  <2> QED
    BY <2>4, <2>5, KeepsStep
<1> QED
  BY <1>4, <1>5

\* The lowest of some descriptors is one of them.
LEMMA LowestIs ==
  ASSUME NEW S \in SUBSET Nat, S # {}
  PROVE  Lowest(S) \in S
<1>1. PICK x \in S : \A y \in S : ~ (<<y, x>> \in OpToRel(<, Nat))
  BY NatLessThanWellFounded, WFMin
<1>2. ASSUME NEW y \in S PROVE x <= y
  <2>1. x \in Nat /\ y \in Nat /\ <<y, x>> \in Nat \X Nat
    OBVIOUS
  <2>2. ~(y < x)
    BY <1>1, <2>1 DEF OpToRel
  <2> QED
    BY <2>1, <2>2
<1> QED
  BY <1>2 DEF Lowest

LEMMA DoOpenStep ==
  ASSUME IInv, NEW t \in Threads, DoOpen(t)
  PROVE  IInv'
<1> DEFINE a    == Action(t)
           file == Resolve(Home, Merged(w[t].cwd, a.path))
           free == Fds \ DOMAIN fds
           fd   == Lowest(free)
           q    == Append(w[t].pairs, <<fd, a.fd>>)
           work == [[w[t] EXCEPT !.saved = Append(@, SavedOpen(fd))] EXCEPT !.pairs = q]
<1>1. UNCHANGED <<table, list, allocated, copies, ret>>
  BY DEF DoOpen
<1>2. /\ pc[t] = "apply" /\ w[t].i \in DOMAIN list[t]
      /\ a.tag = "open" /\ FdsOf(a) \subseteq Fds
  BY AtFacts DEF DoOpen
<1>3. CASE ~(file \in Existing /\ free # {})
  <2>1. Fail(t, "EINVAL") /\ fds' = fds /\ cloexec' = cloexec
    BY <1>3 DEF DoOpen
  <2>2. "EINVAL" \in Results
    BY DEF Results
  <2> QED
    BY <1>1, <2>1, <2>2, FailStep
<1>4. CASE file \in Existing /\ free # {}
  <2>1. /\ fds' = With(fds, fd, file) /\ cloexec' = cloexec \cup {fd}
        /\ Note(t, [Push(t, SavedOpen(fd)) EXCEPT !.pairs = Append(@, <<fd, a.fd>>)])
    BY <1>4 DEF DoOpen
  <2>a. Push(t, SavedOpen(fd)).pairs = w[t].pairs
    <3>1. Form(w[t])
      BY Locals
    <3> QED
      BY <3>1 DEF Form, Push
  <2>b. Note(t, work)
    BY <2>1, <2>a DEF Push
  <2>2. free \in SUBSET Nat
    BY PosixSpawnAssumption DEF Fds
  <2>3. fd \in free
    BY <1>4, <2>2, LowestIs
  <2>4. <<fd, a.fd>> \in Pairs
    BY <1>2, <2>3 DEF FdsOf, Pairs
  <2>c. q \in Seq(Pairs)
    BY <2>4, Locals, Appended
  <2> HIDE DEF fd, file, q
  <2> DEFINE v == Append(w[t].saved, SavedOpen(fd))
             y == [w[t] EXCEPT !.saved = v]
  <2>5. /\ Form(work) /\ work.i = w[t].i /\ work.err = w[t].err
        /\ work.pairs = q /\ work.saved = v
    <3> HIDE DEF v
    <3>1. Form(y) /\ y.i = w[t].i /\ y.err = w[t].err /\ y.saved = v
      <4>1. Form(w[t])
        BY Locals
      <4> QED
        BY <4>1 DEF Form
    <3>2. work = [y EXCEPT !.pairs = q]
      BY DEF v
    <3> HIDE DEF y, work
    <3> QED
      BY <3>1, <3>2 DEF Form
  <2> HIDE DEF work
  <2>6. work.pairs \in Seq(Pairs)
    BY <2>5, <2>c
  <2>7. Local(t) /\ w'[t].saved = work.saved /\ pc'[t] = "apply"
    BY <1>1, <1>2, <2>5, <2>6, <2>b, NoteStep
  <2>8. Pushes(t, SavedOpen(fd))
    BY <2>1, <2>3, <2>5, <2>7 DEF Pushes, SavedOpen
  <2>9. SavedOpen(fd) \in Entries
    BY <2>3 DEF SavedOpen, Entries
  <2> QED
    BY <2>7, <2>8, <2>9, PushStep
<1> QED
  BY <1>3, <1>4

\* chdir and fchdir note a directory.
LEMMA CwdStep ==
  ASSUME IInv, NEW t \in Threads, NEW c, w[t].i \in DOMAIN list[t],
         Note(t, [w[t] EXCEPT !.cwd = c]), fds' = fds, cloexec' = cloexec,
         UNCHANGED <<table, list, allocated, copies, ret>>
  PROVE  IInv'
<1> DEFINE work == [w[t] EXCEPT !.cwd = c]
<1>1. Note(t, work)
  OBVIOUS
<1>2. /\ Form(work) /\ work.i = w[t].i /\ work.err = w[t].err
      /\ work.pairs = w[t].pairs /\ work.saved = w[t].saved
  <2>1. Form(w[t])
    BY Locals
  <2> QED
    BY <2>1 DEF Form
<1> HIDE DEF work
<1>3. Local(t) /\ w'[t].saved = work.saved /\ pc'[t] = "apply"
  BY <1>1, <1>2, NoteStep, Locals
<1>4. Keeps(t)
  BY <1>2, <1>3 DEF Keeps
<1> QED
  BY <1>3, <1>4, KeepsStep

LEMMA DoChdirStep ==
  ASSUME IInv, NEW t \in Threads, DoChdir(t)
  PROVE  IInv'
<1> DEFINE c == {Merged(w[t].cwd, Action(t).path)}
<1>1. w[t].i \in DOMAIN list[t]
  BY AtFacts DEF DoChdir
<1>2. Note(t, [w[t] EXCEPT !.cwd = c])
  BY DEF DoChdir
<1> HIDE DEF c
<1> QED
  BY <1>1, <1>2, CwdStep DEF DoChdir

LEMMA DoFchdirStep ==
  ASSUME IInv, NEW t \in Threads, DoFchdir(t)
  PROVE  IInv'
<1> DEFINE fd == Action(t).fd
           c == {Abs(fds[fd])}
<1>1. w[t].i \in DOMAIN list[t]
  BY AtFacts DEF DoFchdir
<1>2. CASE fd \in DOMAIN fds
  <2>1. Note(t, [w[t] EXCEPT !.cwd = c])
    BY <1>2 DEF DoFchdir
  <2> HIDE DEF c
  <2> QED
    BY <1>1, <2>1, CwdStep DEF DoFchdir
<1>3. CASE fd \notin DOMAIN fds
  <2>1. Fail(t, "EINVAL") /\ "EINVAL" \in Results
    BY <1>3 DEF DoFchdir, Results
  <2> QED
    BY <2>1, FailStep DEF DoFchdir
<1> QED
  BY <1>2, <1>3

LEMMA AppliedStep ==
  ASSUME IInv, NEW t \in Threads, Applied(t)
  PROVE  IInv'
<1>1. "spawn" \in PCs
  BY DEF PCs
<1> QED
  BY <1>1, GotoStep DEF Applied

LEMMA SearchStep ==
  ASSUME IInv, NEW t \in Threads, Search(t)
  PROVE  IInv'
<1>1. {"collect", "start"} \subseteq PCs /\ "ENOENT" \in Results
  BY DEF PCs, Results
<1>2. CASE ~w[t].usePath /\ ExePath(t) \notin Existing
  <2>1. Fail(t, "ENOENT")
    BY <1>2 DEF Search
  <2> QED
    BY <1>1, <2>1, FailStep DEF Search
<1>3. CASE ~(~w[t].usePath /\ ExePath(t) \notin Existing)
  <2>1. w' = w /\ Goto(t, IF w[t].given /\ ~w[t].noinherit THEN "collect" ELSE "start")
    BY <1>3 DEF Search
  <2>2. CASE w[t].given /\ ~w[t].noinherit
    <3>1. Goto(t, "collect")
      BY <2>1, <2>2
    <3> QED
      BY <1>1, <2>1, <3>1, GotoStep DEF Search
  <2>3. CASE ~(w[t].given /\ ~w[t].noinherit)
    <3>1. Goto(t, "start")
      BY <2>1, <2>3
    <3> QED
      BY <1>1, <2>1, <3>1, GotoStep DEF Search
  <2> QED
    BY <2>2, <2>3
<1> QED
  BY <1>2, <1>3

\* Entering the library tells the others that they are not alone.
LEMMA EnterStep ==
  ASSUME IInv, NEW t \in Threads, NEW x, NEW l \in {"alloc", "spawn"},
         MayCall(t), Enter(t, x), Goto(t, l), Form(x), x.i \in Nat, x.i <= Len(list[t]) + 1,
         l = "alloc" => x.i >= 1, x.pairs \in Seq(Pairs), x.saved = <<>>, x.err = "ok",
         fds' = fds, cloexec' = cloexec, UNCHANGED <<table, list, allocated, copies, ret>>
  PROVE  IInv'
<1> DEFINE X(u) == IF u = t THEN [x EXCEPT !.alone = \A v \in Threads : Free(v)]
                   ELSE [w[u] EXCEPT !.alone = @ /\ Free(u)]
<1>1. /\ w' = [u \in Threads |-> X(u)]
  BY DEF Enter
<1>2. /\ w' = [u \in Threads |-> w'[u]] /\ \A u \in Threads : w'[u] = X(u)
  <2> HIDE DEF X
  <2> QED
    BY <1>1
<1>3. ASSUME NEW y, NEW v, Form(y) PROVE Same(y, [y EXCEPT !.alone = v])
  BY <1>3 DEF Form, Same
<1>4. \A u \in Threads \ {t} : Same(w[u], w'[u])
  <2> SUFFICES ASSUME NEW u \in Threads, u # t PROVE Same(w[u], w'[u])
    OBVIOUS
  <2> DEFINE v == w[u].alone /\ Free(u)
  <2>1. X(u) = [w[u] EXCEPT !.alone = v]
    OBVIOUS
  <2> HIDE DEF v, X
  <2>2. w'[u] = [w[u] EXCEPT !.alone = v]
    BY <1>2, <2>1
  <2>3. Form(w[u])
    BY Locals
  <2>4. Same(w[u], [w[u] EXCEPT !.alone = v])
    BY <1>3, <2>3
  <2> QED
    BY <2>2, <2>4
<1>5. Same(x, w'[t])
  <2> DEFINE v == \A u \in Threads : Free(u)
  <2>1. X(t) = [x EXCEPT !.alone = v]
    OBVIOUS
  <2> HIDE DEF v, X
  <2>2. w'[t] = [x EXCEPT !.alone = v]
    BY <1>2, <2>1
  <2>3. Same(x, [x EXCEPT !.alone = v])
    BY <1>3
  <2> QED
    BY <2>2, <2>3
<1>6. /\ pc' \in [Threads -> PCs] /\ pc'[t] = l /\ \A u \in Threads \ {t} : pc'[u] = pc[u]
      /\ ret' \in [Threads -> Results] /\ "ok" \in Results
  BY DEF IInv, TypeInv, Goto, PCs, Results
<1>7. w[t].saved = <<>>
  BY Locals DEF MayCall, Free
<1>8. Local(t)
  BY <1>2, <1>4, <1>5, <1>6 DEF Local, Same
<1>9. Keeps(t)
  BY <1>5, <1>7 DEF Keeps, Same
<1> QED
  BY <1>8, <1>9, KeepsStep

\* Only results and children change.
LEMMA SameStep ==
  ASSUME IInv, ret' \in [Threads -> Results],
         UNCHANGED <<table, fds, cloexec, list, allocated, copies, pc, w>>
  PROVE  IInv'
<1>1. TypeInv'
  BY DEF IInv, TypeInv
<1>2. ListInv' /\ WalkInv' /\ MarkInv'
  BY DEF IInv, ListInv, WalkInv, MarkInv
<1>3. SavedInv'
  <2>1. SavedInv /\ w' = w /\ pc' = pc /\ table' = table /\ fds' = fds
    BY DEF IInv
  <2> QED
    BY <2>1 DEF SavedInv
<1>4. TableInv'
  <2>1. TableInv /\ w' = w /\ cloexec' = cloexec /\ table' = table /\ fds' = fds
    BY DEF IInv
  <2> QED
    BY <2>1 DEF TableInv, Undone
<1> QED
  BY <1>1, <1>2, <1>3, <1>4 DEF IInv

\* A call that is refused at once.
LEMMA RefusedStep ==
  ASSUME IInv, NEW t \in Threads, NEW r \in Results, ret' = [ret EXCEPT ![t] = r],
         w' = w, pc' = pc, fds' = fds, cloexec' = cloexec,
         UNCHANGED <<table, list, allocated, copies>>
  PROVE  IInv'
<1>1. ret' \in [Threads -> Results]
  BY Locals
<1> QED
  BY <1>1, SameStep

LEMMA CallStep ==
  ASSUME IInv, NEW t \in Threads, Call(t)
  PROVE  IInv'
<1>1. UNCHANGED <<table, list, allocated, copies>> /\ fds' = fds /\ cloexec' = cloexec /\ MayCall(t)
  BY DEF Call
<1>2. PICK loaded \in BOOLEAN, given \in BOOLEAN, usePath \in BOOLEAN, flags \in Attrs :
        IF loaded /\ flags = {}
          THEN /\ Goto(t, IF given THEN "alloc" ELSE "spawn")
               /\ Enter(t, [NoWork EXCEPT !.i = 1, !.given = given, !.usePath = usePath])
               /\ UNCHANGED ret
          ELSE /\ ret' = [ret EXCEPT ![t] = IF loaded THEN "ENOSYS" ELSE "libc"]
               /\ UNCHANGED <<pc, w>>
  BY DEF Call
<1>3. CASE loaded /\ flags = {}
  <2> DEFINE z1 == [NoWork EXCEPT !.i = 1]
             z2 == [z1 EXCEPT !.given = given]
             z3 == [z2 EXCEPT !.usePath = usePath]
             l  == IF given THEN "alloc" ELSE "spawn"
  <2>1. Goto(t, l) /\ Enter(t, z3) /\ ret' = ret
    BY <1>2, <1>3
  <2>2. Form(z1) /\ z1.i = 1 /\ z1.pairs = <<>> /\ z1.saved = <<>> /\ z1.err = "ok"
    BY NoWorkForm DEF Form
  <2> HIDE DEF z1
  <2>3. Form(z2) /\ z2.i = 1 /\ z2.pairs = <<>> /\ z2.saved = <<>> /\ z2.err = "ok"
    BY <2>2 DEF Form
  <2> HIDE DEF z2
  <2>4. Form(z3) /\ z3.i = 1 /\ z3.pairs = <<>> /\ z3.saved = <<>> /\ z3.err = "ok"
    BY <2>3 DEF Form
  <2> HIDE DEF z3
  <2>5. l \in {"alloc", "spawn"}
    OBVIOUS
  <2> HIDE DEF l
  <2>6. z3.pairs \in Seq(Pairs) /\ z3.i \in Nat /\ z3.i <= Len(list[t]) + 1 /\ z3.i >= 1
    BY <2>4, Locals
  <2> QED
    BY <1>1, <2>1, <2>4, <2>5, <2>6, EnterStep
<1>4. CASE ~(loaded /\ flags = {})
  <2> DEFINE r == IF loaded THEN "ENOSYS" ELSE "libc"
  <2>1. r \in Results
    BY DEF Results
  <2>2. ret' = [ret EXCEPT ![t] = r] /\ pc' = pc /\ w' = w
    BY <1>2, <1>4
  <2> HIDE DEF r
  <2> QED
    BY <1>1, <2>1, <2>2, RefusedStep
<1> QED
  BY <1>3, <1>4

LEMMA AsSeq ==
  ASSUME NEW S, NEW n \in Nat
  PROVE  [1..n -> S] \subseteq Seq(S)
OBVIOUS

LEMMA SimplePairs ==
  ASSUME NEW std \in Stdfds
  PROVE  Simple(std) \in Seq(Pairs)
<1>1. std \in [1..3 -> Fds] /\ MaxFd \in Nat /\ MaxFd >= 2
  BY PosixSpawnAssumption
<1>2. ASSUME NEW k \in 1..3 PROVE <<IF std[k] = 0 THEN k - 1 ELSE std[k], k - 1>> \in Pairs
  <2>1. k - 1 \in Fds /\ std[k] \in Fds
    BY <1>1 DEF Fds
  <2> QED
    BY <2>1 DEF Pairs
<1>3. Simple(std) \in [1..3 -> Pairs]
  BY <1>2 DEF Simple
<1> QED
  BY <1>3, AsSeq

LEMMA Spawn2Step ==
  ASSUME IInv, NEW t \in Threads, Spawn2(t)
  PROVE  IInv'
<1>1. UNCHANGED <<table, list, allocated, copies>> /\ fds' = fds /\ cloexec' = cloexec /\ MayCall(t)
  BY DEF Spawn2
<1>2. PICK std \in Stdfds, noinherit \in BOOLEAN, usePath \in BOOLEAN, ok \in BOOLEAN :
        IF ok
          THEN /\ Goto(t, "spawn")
               /\ Enter(t, [NoWork EXCEPT !.pairs = Simple(std), !.std = {std},
                              !.given = TRUE, !.noinherit = noinherit, !.usePath = usePath])
               /\ UNCHANGED ret
          ELSE /\ ~noinherit
               /\ ret' = [ret EXCEPT ![t] = "ENOMEM"] /\ UNCHANGED <<pc, w>>
  BY DEF Spawn2
<1>3. CASE ok
  <2> DEFINE p  == Simple(std)
             z1 == [NoWork EXCEPT !.pairs = p]
             c  == {std}
             g  == TRUE
             z2 == [z1 EXCEPT !.std = c]
             z3 == [z2 EXCEPT !.given = g]
             z4 == [z3 EXCEPT !.noinherit = noinherit]
             z5 == [z4 EXCEPT !.usePath = usePath]
  <2>1. Goto(t, "spawn") /\ Enter(t, z5) /\ ret' = ret
    BY <1>2, <1>3
  <2>2. p \in Seq(Pairs)
    BY SimplePairs
  <2> HIDE DEF p, c, g
  <2>3. Form(z1) /\ z1.i = 0 /\ z1.pairs = p /\ z1.saved = <<>> /\ z1.err = "ok"
    BY NoWorkForm DEF Form
  <2> HIDE DEF z1
  <2>4. Form(z2) /\ z2.i = 0 /\ z2.pairs = p /\ z2.saved = <<>> /\ z2.err = "ok"
    BY <2>3 DEF Form
  <2> HIDE DEF z2
  <2>5. Form(z3) /\ z3.i = 0 /\ z3.pairs = p /\ z3.saved = <<>> /\ z3.err = "ok"
    BY <2>4 DEF Form
  <2> HIDE DEF z3
  <2>6. Form(z4) /\ z4.i = 0 /\ z4.pairs = p /\ z4.saved = <<>> /\ z4.err = "ok"
    BY <2>5 DEF Form
  <2> HIDE DEF z4
  <2>7. Form(z5) /\ z5.i = 0 /\ z5.pairs = p /\ z5.saved = <<>> /\ z5.err = "ok"
    BY <2>6 DEF Form
  <2> HIDE DEF z5
  <2>8. z5.pairs \in Seq(Pairs) /\ z5.i \in Nat /\ z5.i <= Len(list[t]) + 1
    BY <2>2, <2>7, Locals
  <2> QED
    BY <1>1, <2>1, <2>7, <2>8, EnterStep
<1>4. CASE ~ok
  <2>1. "ENOMEM" \in Results
    BY DEF Results
  <2> QED
    BY <1>1, <1>2, <1>4, <2>1, RefusedStep
<1> QED
  BY <1>3, <1>4

\* A finite set can be listed.
LEMMA Listed ==
  ASSUME NEW S, IsFiniteSet(S)
  PROVE  SetToSeq(S) \in Seq(S)
<1>1. PICK n \in Nat : ExistsBijection(1..n, S)
  BY FS_NatBijection
<1>2. Cardinality(S) = n
  BY <1>1, FS_CountingElements
<1>3. PICK f \in Bijection(1..n, S) : TRUE
  BY <1>1 DEF ExistsBijection
<1>4. f \in [1..Cardinality(S) -> S] /\ IsInjective(f)
  BY <1>2, <1>3 DEF Bijection, Injection, IsInjective
<1>5. SetToSeq(S) \in [1..Cardinality(S) -> S]
  BY <1>4 DEF SetToSeq
<1> QED
  BY <1>2, <1>5

LEMMA CollectStep ==
  ASSUME IInv, NEW t \in Threads, Collect(t)
  PROVE  IInv'
<1>1. UNCHANGED <<table, list, allocated, copies, ret>> /\ fds' = fds /\ cloexec' = cloexec
  BY DEF Collect
<1>2. CASE Fail(t, "ENOMEM")
  <2>1. "ENOMEM" \in Results
    BY DEF Results
  <2> QED
    BY <1>1, <1>2, <2>1, FailStep
<1> DEFINE pass == SetToSeq(PassedOn(w[t].pairs))
           more == [k \in DOMAIN pass |-> <<pass[k], pass[k]>>]
           q    == w[t].pairs \o more
           x    == [w[t] EXCEPT !.pairs = q]
<1>3. CASE w' = [w EXCEPT ![t].pairs = @ \o more] /\ Goto(t, "start")
  <2>1. PassedOn(w[t].pairs) \subseteq Fds
    BY DEF PassedOn, IInv, TableInv
  <2>2. IsFiniteSet(PassedOn(w[t].pairs))
    <3>0. MaxFd \in Int /\ 0 \in Int
      BY PosixSpawnAssumption
    <3>1. IsFiniteSet(Fds)
      BY <3>0, FS_Interval DEF Fds
    <3> QED
      BY <2>1, <3>1, FS_Subset
  <2>3. pass \in Seq(PassedOn(w[t].pairs))
    BY <2>2, Listed
  <2> HIDE DEF pass
  <2>4. more \in Seq(Pairs)
    <3>1. pass \in [1..Len(pass) -> Fds] /\ Len(pass) \in Nat /\ DOMAIN pass = 1..Len(pass)
      BY <2>1, <2>3, LenProperties, ElementOfSeq
    <3>2. more \in [1..Len(pass) -> Pairs]
      BY <3>1 DEF Pairs
    <3> QED
      BY <3>1, <3>2
  <2> HIDE DEF more
  <2>5. q \in Seq(Pairs)
    BY <2>4, Locals, ConcatProperties
  <2>6. w' = [w EXCEPT ![t] = x] /\ pc' = [pc EXCEPT ![t] = "start"]
    BY <1>3 DEF Goto
  <2> HIDE DEF q
  <2>7. Form(x) /\ x.i = w[t].i /\ x.pairs = q /\ x.saved = w[t].saved /\ x.err = w[t].err
    <3>1. Form(w[t])
      BY Locals
    <3> QED
      BY <3>1 DEF Form
  <2> HIDE DEF x
  <2>8. /\ x.i \in Nat /\ x.err \in Results /\ x.i <= Len(list[t]) + 1 /\ x.pairs \in Seq(Pairs)
        /\ "start" \in PCs /\ ret' \in [Threads -> Results]
    BY <1>1, <2>5, <2>7, Locals DEF PCs
  <2>9. Local(t) /\ w'[t] = x /\ pc'[t] = "start"
    BY <1>1, <2>6, <2>7, <2>8, Changed
  <2>10. Keeps(t)
    BY <1>1, <2>7, <2>9 DEF Keeps
  <2> QED
    BY <2>9, <2>10, KeepsStep
<1> QED
  BY <1>2, <1>3 DEF Collect

LEMMA StartStep ==
  ASSUME IInv, NEW t \in Threads, Start(t)
  PROVE  IInv'
<1>1. UNCHANGED <<table, list, allocated, copies, ret>> /\ fds' = fds /\ cloexec' = cloexec
  BY DEF Start
<1>2. "restore" \in PCs /\ "ENOENT" \in Results
  BY DEF PCs, Results
<1>3. CASE Fail(t, "ENOENT")
  BY <1>1, <1>2, <1>3, FailStep
<1>4. CASE Goto(t, "restore") /\ w' = w
  BY <1>1, <1>2, <1>4, GotoStep
<1> QED
  BY <1>3, <1>4 DEF Start

LEMMA RestoreStep ==
  ASSUME IInv, NEW t \in Threads, Restore(t)
  PROVE  IInv'
<1> DEFINE f == Front(w[t].saved)
           x == [w[t] EXCEPT !.saved = f]
<1>1. UNCHANGED <<table, list, allocated, copies, ret>> /\ pc' = pc /\ pc[t] = "restore"
  BY DEF Restore
<1>2. w' = [w EXCEPT ![t] = x]
  BY DEF Restore
<1> HIDE DEF f
<1>3. Form(x) /\ x.i = w[t].i /\ x.pairs = w[t].pairs /\ x.saved = f /\ x.err = w[t].err
  <2>1. Form(w[t])
    BY Locals
  <2> QED
    BY <2>1 DEF Form
<1> HIDE DEF x
<1>4. pc' = [pc EXCEPT ![t] = "restore"] /\ "restore" \in PCs
  BY <1>1 DEF PCs, IInv, TypeInv
<1>5. Local(t) /\ w'[t] = x /\ pc'[t] = "restore"
  BY <1>1, <1>2, <1>3, <1>4, Changed, Locals
<1>6. Pops(t)
  BY <1>3, <1>5 DEF Pops, Restore, f
<1> QED
  BY <1>5, <1>6, PopStep

LEMMA EndStep ==
  ASSUME IInv, NEW t \in Threads, End(t)
  PROVE  IInv'
<1>1. w[t].err \in Results
  BY Locals
<1> QED
  BY <1>1, ReturnStep DEF End

\* The paths of a list.
LEMMA PathsOf ==
  ASSUME NEW l \in Seq(AllActions), NEW a \in AllActions
  PROVE  /\ Paths(l) \in Nat /\ Paths(<<>>) = 0
         /\ Paths(Append(l, a)) = Paths(l) + (IF HasPath(a) THEN 1 ELSE 0)
<1> DEFINE P(s) == {i \in DOMAIN s : HasPath(s[i])}
           n == Len(l) + 1
<1>1. /\ Len(l) \in Nat /\ DOMAIN l = 1..Len(l) /\ DOMAIN Append(l, a) = 1..(Len(l) + 1)
      /\ \A k \in DOMAIN l : Append(l, a)[k] = l[k]
      /\ Append(l, a)[n] = a
  BY Appended
<1>2. IsFiniteSet(P(l)) /\ Cardinality(P(l)) \in Nat
  <2>1. IsFiniteSet(1..Len(l))
    BY <1>1, FS_Interval
  <2>2. P(l) \subseteq 1..Len(l)
    BY <1>1
  <2>3. IsFiniteSet(P(l))
    BY <2>1, <2>2, FS_Subset
  <2> QED
    BY <2>3, FS_CardinalityType
<1>3. P(Append(l, a)) = IF HasPath(a) THEN P(l) \cup {n} ELSE P(l)
  <2>1. ASSUME NEW k \in 1..(Len(l) + 1), k # n PROVE k \in DOMAIN l
    BY <1>1, <2>1
  <2>2. n \in 1..(Len(l) + 1) /\ DOMAIN l \subseteq 1..(Len(l) + 1)
    BY <1>1
  <2> HIDE DEF n
  <2> QED
    BY <1>1, <2>1, <2>2
<1>4. n \notin P(l)
  BY <1>1
<1>5. Paths(<<>>) = 0
  <2>1. P(<<>>) = {}
    OBVIOUS
  <2> QED
    BY <2>1, FS_EmptySet DEF Paths
<1>6. Cardinality(P(l) \cup {n}) = Cardinality(P(l)) + 1
  <2> HIDE DEF P, n
  <2> QED
    BY <1>2, <1>4, FS_AddElement
<1>7. Paths(Append(l, a)) = Paths(l) + (IF HasPath(a) THEN 1 ELSE 0)
  <2>1. Paths(l) = Cardinality(P(l)) /\ Paths(Append(l, a)) = Cardinality(P(Append(l, a)))
    BY DEF Paths
  <2> HIDE DEF P, n
  <2> QED
    BY <1>2, <1>3, <1>6, <2>1
<1> QED
  BY <1>2, <1>5, <1>7 DEF Paths

\* Only the list of an idle thread changes.
LEMMA ListStep ==
  ASSUME IInv, NEW t \in Threads, pc[t] = "idle",
         UNCHANGED <<table, fds, cloexec, pc>>, TypeInv', ListInv',
         \A u \in Threads : w'[u].saved = w[u].saved,
         \A u \in Threads \ {t} : list'[u] = list[u] /\ w'[u] = w[u],
         w'[t].i <= Len(list'[t]) + 1, w'[t].pairs \in Seq(Pairs)
  PROVE  IInv'
<1>1. WalkInv'
  <2> SUFFICES ASSUME NEW u \in Threads
               PROVE  /\ w'[u].i <= Len(list'[u]) + 1
                      /\ pc[u] \in {"alloc", "apply", "mark"} => w'[u].i >= 1
                      /\ w'[u].pairs \in Seq(Pairs)
    BY DEF WalkInv
  <2>1. CASE u = t
    BY <2>1
  <2>2. CASE u # t
    <3>1. list'[u] = list[u] /\ w'[u] = w[u]
      BY <2>2
    <3> QED
      BY <3>1 DEF IInv, WalkInv
  <2> QED
    BY <2>1, <2>2
<1>2. SavedInv'
  <2>1. SavedInv /\ pc' = pc /\ table' = table /\ fds' = fds
    BY DEF IInv
  <2>2. \A u \in Threads :
          /\ w'[u].saved \in Seq(Entries)
          /\ pc'[u] \in {"idle", "alloc"} => w'[u].saved = <<>>
          /\ \A k \in DOMAIN w'[u].saved :
               /\ w'[u].saved[k].tag = "close" =>
                    w'[u].saved[k].fd \in DOMAIN table'.fds \ table'.cloexec
               /\ w'[u].saved[k].tag = "open" =>
                    w'[u].saved[k].fd \in DOMAIN fds' \ DOMAIN table'.fds
    BY <2>1 DEF SavedInv
  <2>3. \A v, u \in Threads : \A j \in DOMAIN w'[v].saved, k \in DOMAIN w'[u].saved :
          w'[v].saved[j].tag = "open" /\ w'[v].saved[j] = w'[u].saved[k] => v = u /\ j = k
    BY <2>1 DEF SavedInv
  <2> QED
    BY <2>2, <2>3 DEF SavedInv
<1>3. TableInv'
  BY DEF IInv, TableInv, Undone
<1>4. MarkInv'
  <2> SUFFICES ASSUME NEW u \in Threads, pc[u] = "mark"
               PROVE  /\ w'[u].i \in DOMAIN list'[u] /\ list'[u][w'[u].i].tag = "close"
                      /\ list'[u][w'[u].i].fd \in DOMAIN table.fds \ table.cloexec
    BY DEF MarkInv
  <2>1. list'[u] = list[u] /\ w'[u] = w[u]
    OBVIOUS
  <2> QED
    BY <2>1 DEF IInv, MarkInv
<1> QED
  BY <1>1, <1>2, <1>3, <1>4 DEF IInv

LEMMA AddStep ==
  ASSUME IInv, NEW t \in Threads, NEW a \in AllActions, Add(t, a)
  PROVE  IInv'
<1>1. /\ pc[t] = "idle" /\ Append(list[t], a) \in Partial[t] /\ FdsOf(a) \subseteq Fds
      /\ UNCHANGED <<table, fds, cloexec, pc, w, ret>>
  BY DEF Add, MayAdd
<1>2. /\ list \in [Threads -> Seq(AllActions)] /\ allocated \in [Threads -> Nat]
      /\ copies \in [Threads -> Nat]
  BY DEF IInv, TypeInv
<1> DEFINE l == Append(list[t], a)
<1>3. /\ l \in Seq(AllActions) /\ Len(list[t]) \in Nat /\ Len(l) = Len(list[t]) + 1
      /\ DOMAIN l = 1..(Len(list[t]) + 1)
      /\ \A k \in DOMAIN l : k \in DOMAIN list[t] \/ k = Len(list[t]) + 1
      /\ \A k \in DOMAIN list[t] : l[k] = list[t][k]
      /\ l[Len(list[t]) + 1] = a
  BY <1>2, Appended
<1>4. /\ Paths(list[t]) \in Nat
      /\ Paths(l) = Paths(list[t]) + (IF HasPath(a) THEN 1 ELSE 0)
  BY <1>2, PathsOf
<1>5. /\ allocated[t] >= Len(list[t]) /\ copies[t] = Paths(list[t]) /\ allocated[t] \in Nat
      /\ \A k \in DOMAIN list[t] : FdsOf(list[t][k]) \subseteq Fds
  BY <1>2 DEF IInv, ListInv
<1> HIDE DEF l
<1>6. CASE /\ list' = [list EXCEPT ![t] = l]
           /\ allocated' = [allocated EXCEPT ![t] = IF Full(t) THEN @ + Chunk ELSE @]
           /\ copies' = [copies EXCEPT ![t] = IF HasPath(a) THEN @ + 1 ELSE @]
  <2>1. Chunk \in Nat \ {0}
    BY PosixSpawnAssumption
  <2>2. /\ list'[t] = l /\ list' \in [Threads -> Seq(AllActions)]
        /\ \A u \in Threads \ {t} : list'[u] = list[u]
    BY <1>2, <1>3, <1>6
  <2>3. /\ allocated' \in [Threads -> Nat]
        /\ allocated'[t] = (IF Full(t) THEN allocated[t] + Chunk ELSE allocated[t])
        /\ \A u \in Threads \ {t} : allocated'[u] = allocated[u]
    BY <1>2, <1>6, <2>1
  <2>4. /\ copies' \in [Threads -> Nat]
        /\ copies'[t] = (IF HasPath(a) THEN copies[t] + 1 ELSE copies[t])
        /\ \A u \in Threads \ {t} : copies'[u] = copies[u]
    BY <1>2, <1>6
  <2>5. TypeInv'
    BY <1>1, <2>2, <2>3, <2>4 DEF IInv, TypeInv
  <2>6. allocated'[t] >= Len(l)
    BY <1>3, <1>5, <2>1, <2>3 DEF Full
  <2>7. copies'[t] = Paths(l)
    BY <1>4, <1>5, <2>4
  <2>8. \A k \in DOMAIN l : FdsOf(l[k]) \subseteq Fds
    BY <1>1, <1>3, <1>5
  <2>9. ListInv'
    <3> SUFFICES ASSUME NEW u \in Threads
                 PROVE  /\ list'[u] \in Partial[u] \cup {<<>>}
                        /\ \A k \in DOMAIN list'[u] : FdsOf(list'[u][k]) \subseteq Fds
                        /\ allocated'[u] >= Len(list'[u])
                        /\ copies'[u] = Paths(list'[u])
      BY DEF ListInv
    <3>1. CASE u = t
      BY <1>1, <2>2, <2>6, <2>7, <2>8, <3>1 DEF l
    <3>2. CASE u # t
      BY <2>2, <2>3, <2>4, <3>2 DEF IInv, ListInv
    <3> QED
      BY <3>1, <3>2
  <2>10. w'[t].i <= Len(list'[t]) + 1 /\ w'[t].pairs \in Seq(Pairs)
    <3>1. w'[t].i = w[t].i /\ w'[t].pairs = w[t].pairs
      BY <1>1
    <3>2. w[t].i \in Nat /\ w[t].i <= Len(list[t]) + 1 /\ w[t].pairs \in Seq(Pairs)
      BY Locals
    <3>3. Len(list'[t]) = Len(list[t]) + 1
      BY <1>3, <2>2
    <3> QED
      BY <1>3, <3>1, <3>2, <3>3
  <2> QED
    BY <1>1, <2>2, <2>5, <2>9, <2>10, ListStep
<1>7. CASE UNCHANGED <<list, allocated, copies>>
  BY <1>1, <1>7, Locals, SameStep
<1> QED
  BY <1>6, <1>7 DEF Add, l

LEMMA DestroyStep ==
  ASSUME IInv, NEW t \in Threads, Destroy(t)
  PROVE  IInv'
<1>1. /\ pc[t] = "idle" /\ UNCHANGED <<table, fds, cloexec, pc>>
      /\ copies' = [copies EXCEPT ![t] = @ - Paths(list[t])]
      /\ list' = [list EXCEPT ![t] = <<>>]
      /\ allocated' = [allocated EXCEPT ![t] = 0]
      /\ ret' = [ret EXCEPT ![t] = "none"]
      /\ w' = [w EXCEPT ![t] = NoWork]
  BY DEF Destroy
<1>2. /\ list \in [Threads -> Seq(AllActions)] /\ allocated \in [Threads -> Nat]
      /\ copies \in [Threads -> Nat] /\ ret \in [Threads -> Results]
      /\ w = [u \in Threads |-> w[u]] /\ "none" \in Results /\ "ok" \in Results
      /\ copies[t] = Paths(list[t])
  BY DEF IInv, TypeInv, ListInv, Results
<1>3. /\ list'[t] = <<>> /\ list' \in [Threads -> Seq(AllActions)]
      /\ \A u \in Threads \ {t} : list'[u] = list[u]
  BY <1>1, <1>2
<1>4. copies'[t] = 0 /\ copies' \in [Threads -> Nat] /\ \A u \in Threads \ {t} : copies'[u] = copies[u]
  BY <1>1, <1>2
<1>5. /\ allocated'[t] = 0 /\ allocated' \in [Threads -> Nat]
      /\ \A u \in Threads \ {t} : allocated'[u] = allocated[u]
  BY <1>1, <1>2
<1>6. /\ w'[t] = NoWork /\ w' = [u \in Threads |-> w'[u]]
      /\ \A u \in Threads \ {t} : w'[u] = w[u]
  BY <1>1, <1>2
<1>7. ret' \in [Threads -> Results]
  BY <1>1, <1>2
<1>8. TypeInv'
  <2>1. \A u \in Threads : Form(w'[u]) /\ w'[u].i \in Nat /\ w'[u].err \in Results
    <3> SUFFICES ASSUME NEW u \in Threads
                 PROVE  Form(w'[u]) /\ w'[u].i \in Nat /\ w'[u].err \in Results
      OBVIOUS
    <3>1. CASE u = t
      BY <1>2, <1>6, <3>1, NoWorkForm
    <3>2. CASE u # t
      BY <1>6, <3>2, Locals
    <3> QED
      BY <3>1, <3>2
  <2> QED
    BY <1>1, <1>3, <1>4, <1>5, <1>6, <1>7, <2>1 DEF IInv, TypeInv
<1>9. ListInv'
  <2> SUFFICES ASSUME NEW u \in Threads
               PROVE  /\ list'[u] \in Partial[u] \cup {<<>>}
                      /\ \A k \in DOMAIN list'[u] : FdsOf(list'[u][k]) \subseteq Fds
                      /\ allocated'[u] >= Len(list'[u])
                      /\ copies'[u] = Paths(list'[u])
    BY DEF ListInv
  <2>1. CASE u = t
    <3>1. Paths(<<>>) = 0
      <4>1. {i \in DOMAIN <<>> : HasPath(<<>>[i])} = {}
        OBVIOUS
      <4> QED
        BY <4>1, FS_EmptySet DEF Paths
    <3> QED
      BY <1>3, <1>4, <1>5, <2>1, <3>1
  <2>2. CASE u # t
    BY <1>3, <1>4, <1>5, <2>2 DEF IInv, ListInv
  <2> QED
    BY <2>1, <2>2
<1>10. \A u \in Threads : w'[u].saved = w[u].saved
  BY <1>1, <1>6, Locals, NoWorkForm
<1>11. w'[t].i <= Len(list'[t]) + 1 /\ w'[t].pairs \in Seq(Pairs)
  BY <1>3, <1>6, NoWorkForm
<1> QED
  BY <1>1, <1>3, <1>6, <1>8, <1>9, <1>10, <1>11, ListStep

-----------------------------------------------------------------------------

(***************************************************************************)
(* The invariant.                                                          *)
(***************************************************************************)
LEMMA InitInv == Init => IInv
<1> SUFFICES ASSUME Init PROVE IInv
  OBVIOUS
<1>1. TypeInv
  BY NoWorkForm DEF Init, TypeInv, PCs, Results
<1>2. ListInv
  <2>1. Paths(<<>>) = 0
    <3>1. {i \in DOMAIN <<>> : HasPath(<<>>[i])} = {}
      OBVIOUS
    <3> QED
      BY <3>1, FS_EmptySet DEF Paths
  <2> QED
    BY <2>1 DEF Init, ListInv
<1>3. WalkInv
  <2>1. ASSUME NEW t \in Threads
        PROVE  w[t] = NoWork /\ list[t] = <<>> /\ pc[t] = "idle"
    BY DEF Init
  <2>2. NoWork.pairs \in Seq(Pairs) /\ NoWork.i <= Len(<<>>) + 1
    BY NoWorkForm
  <2> QED
    BY <2>1, <2>2 DEF WalkInv
<1>4. SavedInv
  <2>1. \A t \in Threads : w[t].saved = <<>>
    BY NoWorkForm DEF Init
  <2>2. <<>> \in Seq(Entries) /\ DOMAIN <<>> = {}
    BY EmptySeq
  <2> QED
    BY <2>1, <2>2 DEF SavedInv
<1>5. TableInv
  <2>1. /\ table.fds = [fd \in DOMAIN table.fds |-> table.fds[fd]]
        /\ DOMAIN table.fds \subseteq Fds /\ table.cloexec \subseteq DOMAIN table.fds
    BY PosixSpawnAssumption DEF Init
  <2> QED
    BY <2>1 DEF Init, TableInv
<1>6. MarkInv
  BY DEF Init, MarkInv
<1> QED
  BY <1>1, <1>2, <1>3, <1>4, <1>5, <1>6 DEF IInv

LEMMA NextInv == IInv /\ [Next]_vars => IInv'
<1> SUFFICES ASSUME IInv, [Next]_vars PROVE IInv'
  OBVIOUS
<1>1. CASE UNCHANGED vars
  <2>1. ret' \in [Threads -> Results]
    BY <1>1 DEF vars, IInv, TypeInv
  <2> QED
    BY <1>1, <2>1, SameStep DEF vars
<1>2. ASSUME NEW t \in Threads, NEW a \in AllActions, Add(t, a) PROVE IInv'
  BY <1>2, AddStep
<1>3. ASSUME NEW t \in Threads, Destroy(t) \/ Call(t) \/ Spawn2(t) PROVE IInv'
  BY <1>3, DestroyStep, CallStep, Spawn2Step
<1>4. ASSUME NEW t \in Threads, Step(t) PROVE IInv'
  BY <1>4, AllocStep, DoCloseStep, MarkCloseStep, DoDup2Step, DoOpenStep, DoChdirStep,
     DoFchdirStep, AppliedStep, SearchStep, CollectStep, StartStep, RestoreStep, EndStep
     DEF Step
<1> QED
  BY <1>1, <1>2, <1>3, <1>4 DEF Next

\* The inductive invariant of posix_spawn() and spawn2ve().
THEOREM Invariance == Spec => []IInv
BY InitInv, NextInv, PTL DEF Spec

\* The variables have their types: the list is one that the thread may build, its
\* array is large enough, and pairs are pairs of descriptors.
THEOREM TypeCorrect == Spec => []TypeOK
<1>1. IInv => TypeOK
  <2> SUFFICES ASSUME IInv PROVE TypeOK
    OBVIOUS
  <2>1. ASSUME NEW t \in Threads
        PROVE  /\ list[t] \in Partial[t] \cup {<<>>}
               /\ allocated[t] \in Nat /\ allocated[t] >= Len(list[t]) /\ copies[t] \in Nat
               /\ pc[t] \in PCs /\ ret[t] \in Results
               /\ w[t].i \in 0..(Len(list[t]) + 1)
               /\ w[t].pairs \in Seq(Fds \X Fds)
    <3>1. w[t].i \in 0..(Len(list[t]) + 1)
      BY Locals
    <3> QED
      BY <3>1 DEF IInv, TypeInv, ListInv, WalkInv, Pairs
  <2> QED
    BY <2>1 DEF TypeOK, IInv, TypeInv, TableInv
<1> QED
  BY <1>1, Invariance, PTL

\* When no thread is in posix_spawn() or spawn2ve() the parent's descriptors and
\* their flags are the program's, and of memory only the paths of the lists are
\* left: for any threads, tables and lists, with every interleaving of saving and
\* restoring, which no lock orders, and on each way out.
THEOREM Restored == Spec => []ParentRestored
<1>1. IInv => ParentRestored
  <2> SUFFICES ASSUME IInv PROVE ParentRestored
    OBVIOUS
  <2>1. ASSUME \A t \in Threads : pc[t] = "idle"
        PROVE  fds = table.fds /\ cloexec = table.cloexec
    <3>1. \A tag, fd : ~Undone(tag, fd)
      BY <2>1, Locals DEF Undone
    <3>2. DOMAIN fds = DOMAIN table.fds
      BY <3>1 DEF IInv, TableInv
    <3>3. table.fds = [fd \in DOMAIN table.fds |-> table.fds[fd]]
      BY PosixSpawnAssumption DEF IInv, TypeInv
    <3>4. fds = [fd \in DOMAIN fds |-> fds[fd]] /\ \A fd \in DOMAIN table.fds : fds[fd] = table.fds[fd]
      BY DEF IInv, TableInv
    <3>5. fds = table.fds
      BY <3>2, <3>3, <3>4
    <3>6. cloexec = table.cloexec
      BY <3>1, <3>2 DEF IInv, TableInv
    <3> QED
      BY <3>5, <3>6
  <2>2. \A t \in Threads : copies[t] = Paths(list[t])
    BY DEF IInv, ListInv
  <2> QED
    BY <2>1, <2>2 DEF ParentRestored
<1> QED
  BY <1>1, Invariance, PTL
=============================================================================
