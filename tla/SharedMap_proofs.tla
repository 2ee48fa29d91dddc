-------------------------- MODULE SharedMap_proofs --------------------------
(***************************************************************************)
(* Proofs about SharedMap for any processes, pages, views and addresses.   *)
(***************************************************************************)
EXTENDS SharedMap, FiniteSetTheorems, TLAPS

\* The programs call mmap(), munmap() and fork() one after the other.  With
\* "overlap" in Faults nothing below holds: the count loses updates.
Serialized == "overlap" \notin Faults

\* Only the library writes the file, it can read and write it, and a mapping
\* that was not made with PROT_WRITE is never written to.
FileReliable ==
  Faults \cap {"read", "seek", "write", "extwrite", "upgrade"} = {}

Unlisted == {"get", "dup", "alias", "ref", "refstore", "malloc"}
Listed == {"load", "protect", "sync", "flush", "reread"}
Freeing == {"dec", "decstore"}

\* One process at a time works on the count, and it knows the count.
CountInv ==
  /\ \A p, q \in Procs : p # q => pc[p] \in Uncounting \/ pc[q] \in Uncounting
  /\ \A p \in Procs : pc[p] \in {"refstore", "decstore"} => req[p].seen = refcnt

\* What a process is busy with: a mapping in m_mmap, or one whose address is
\* not in use there.
ReqInv ==
  \A p \in Procs :
    /\ p \notin alive => pc[p] = "idle"
    /\ pc[p] \in Unlisted \cup Listed \cup Freeing => \E m \in Mapping : req[p].m = {m}
    /\ pc[p] \in Unlisted => ~req[p].listed
    /\ pc[p] = "get" => ~req[p].create
    /\ pc[p] = "load" => req[p].create
    /\ pc[p] \in Listed => req[p].listed
    /\ pc[p] \in Listed \cup Freeing /\ req[p].listed => req[p].m \subseteq maps[p]
    /\ pc[p] \in Unlisted \cup Freeing /\ ~req[p].listed =>
         \A m \in req[p].m, n \in maps[p] : m.addr # n.addr

\* A list has one mapping at an address.
MapsOK(S) == IsFiniteSet(S) /\ \A m, n \in S : m.addr = n.addr => m = n

\* The list of a process: one mapping at an address, and a reference to the
\* object for them, besides the one that a call got and may undo.
MapsInv ==
  \A p \in Procs :
    /\ p \notin alive => maps[p] = {}
    /\ MapsOK(maps[p])
    /\ maps[p] # {} => attach[p] > 0
    /\ pc[p] \in Unlisted \ {"get"} => /\ attach[p] > 0
                                       /\ maps[p] # {} => attach[p] > 1
    /\ pc[p] = "drop" => maps[p] = {}

\* fork() with the references it got.
ForkWith(p, c, ok, got) ==
  /\ ok <=> got = maps[p]
  /\ refcnt' = refcnt + Cardinality(got)
  /\ IF ok
       THEN /\ alive' = alive \cup {c}
            /\ attach' = [attach EXCEPT ![c] = Cardinality(got)]
            /\ maps' = [maps EXCEPT ![c] = {[m EXCEPT !.page = m.prot] : m \in got}]
            /\ UNCHANGED leaked
       ELSE /\ leaked' = leaked + Cardinality(got)
            /\ UNCHANGED <<alive, attach, maps>>
  /\ UNCHANGED <<mem, file, pc, req, clock, abandoned>>

\* The count, at any time: what was taken and not given back.
RefInv ==
  /\ IsFiniteSet(References)
  /\ refcnt = leaked + Cardinality(References)
  /\ \A p \in Procs : req[p].create /\ pc[p] \in {"dup", "alias", "ref"} => refcnt = 0

IInv == TypeOK /\ CountInv /\ ReqInv /\ MapsInv /\ RefInv

\* The creator has the object for itself until it has filled it, or given it up.
Fills(p) ==
  /\ req[p].create
  /\ \/ pc[p] \in {"dup", "alias", "ref", "refstore", "malloc", "load"}
     \/ pc[p] \in Freeing \cup {"drop"} /\ ~req[p].listed

FillInv ==
  \A p \in Procs : Fills(p) =>
    /\ attach[p] = 1
    /\ \A q \in Procs \ {p} : attach[q] = 0
    /\ leaked = 0
    /\ pc[p] # "load" => maps[p] = {}
    /\ \A g \in Pages : mem[g] = 0

\* The object is never older than the file once it is filled.
CurrentInv ==
  /\ \A g \in Pages : mem[g] <= clock /\ file[g] <= clock
  /\ Exists /\ (\A p \in Procs : ~Fills(p)) => \A g \in Pages : mem[g] >= file[g]

\* Pages that can be written belong to a mapping that munmap() writes back, but
\* for a call that has not set the protection yet.
WriteInv ==
  \A p \in Procs : \A m \in maps[p] :
    m.page /\ ~m.prot => pc[p] \in {"load", "protect"} \cup Freeing /\ m \in req[p].m

FileInv == FillInv /\ CurrentInv /\ WriteInv /\ NoLostStore

-----------------------------------------------------------------------------
USE SharedMapAssumption DEF SharedMapAssumption, FaultKinds, Goto, Done, Detach,
    LoadCount, NoReq, Busy, Uncounting, Unlisted, Listed, Freeing, Outcomes, PCs

\* The mapping a process is busy with.
LEMMA TheMapping ==
  ASSUME NEW p \in Procs, NEW m, req[p].m = {m}
  PROVE  The(p) = m
BY DEF The

\* mprotect() changes nothing of a mapping but the protection of its pages.
LEMMA Reprotected ==
  ASSUME TypeOK, NEW p \in Procs, NEW m \in maps[p], NEW w \in BOOLEAN
  PROVE  \E n \in Mapping :
           /\ n = [m EXCEPT !.page = w]
           /\ n.addr = m.addr /\ n.view = m.view /\ n.prot = m.prot /\ n.page = w
           /\ Protected(p, m, w) = (maps[p] \ {m}) \cup {n}
           /\ Protected(p, m, w) \subseteq Mapping
<1> DEFINE n == [m EXCEPT !.page = w]
<1>1. m \in Mapping /\ maps[p] \subseteq Mapping
  BY DEF TypeOK
<1>2. n \in Mapping /\ n.addr = m.addr /\ n.view = m.view /\ n.prot = m.prot /\ n.page = w
  BY <1>1 DEF Mapping
<1>3. Protected(p, m, w) = (maps[p] \ {m}) \cup {n}
  BY DEF Protected
<1> QED
  BY <1>1, <1>2, <1>3

\* A list is finite and has one mapping at an address.
LEMMA MapsOKKept ==
  ASSUME TypeOK, MapsInv, NEW p \in Procs, NEW m \in maps[p], NEW w \in BOOLEAN
  PROVE  MapsOK(Protected(p, m, w)) /\ Protected(p, m, w) # {}
<1>1. PICK n \in Mapping : n.addr = m.addr /\ Protected(p, m, w) = (maps[p] \ {m}) \cup {n}
  BY Reprotected
<1>2. IsFiniteSet(maps[p] \ {m})
  BY FS_Subset DEF MapsInv, MapsOK
<1>3. IsFiniteSet((maps[p] \ {m}) \cup {n})
  BY <1>2, FS_AddElement
<1> QED
  BY <1>1, <1>3 DEF MapsInv, MapsOK

\* A finite set that has an element has a positive cardinality.
LEMMA NotEmpty ==
  ASSUME NEW S, IsFiniteSet(S), S # {}
  PROVE  Cardinality(S) \in Nat /\ Cardinality(S) > 0
BY FS_EmptySet, FS_CardinalityType

\* The child of fork() has a mapping for each that was inherited.
LEMMA Inherited ==
  ASSUME TypeOK, MapsInv, NEW p \in Procs, NEW got \in SUBSET maps[p]
  PROVE  LET new == {[m EXCEPT !.page = m.prot] : m \in got} IN
         MapsOK(new) /\ Cardinality(new) = Cardinality(got)
<1> DEFINE f == [m \in got |-> [m EXCEPT !.page = m.prot]]
           new == {[m EXCEPT !.page = m.prot] : m \in got}
<1>1. IsFiniteSet(got) /\ got \subseteq Mapping
  BY FS_Subset DEF MapsInv, MapsOK, TypeOK
<1>2. \A m \in got : f[m].addr = m.addr
  BY <1>1 DEF Mapping
<1>3. f \in Bijection(got, new)
  <2>1. \A m, n \in got : f[m] = f[n] => m = n
    <3>1. \A m, n \in got : m.addr = n.addr => m = n
      BY DEF MapsInv, MapsOK
    <3> HIDE DEF f
    <3> QED
      BY <1>2, <3>1
  <2>2. f \in [got -> new] /\ \A k \in new : \E m \in got : f[m] = k
    OBVIOUS
  <2> QED
    BY <2>1, <2>2 DEF Bijection, Injection, IsInjective, Surjection
<1>4. ExistsBijection(got, new)
  BY <1>3 DEF ExistsBijection
<1>5. IsFiniteSet(new) /\ Cardinality(new) = Cardinality(got)
  BY <1>1, <1>4, FS_Bijection
<1>6. \A k, l \in new : k.addr = l.addr => k = l
  BY <1>2 DEF MapsInv, MapsOK
<1> QED
  BY <1>5, <1>6 DEF MapsOK

\* The two ways fork() ends.
LEMMA ForkPick ==
  ASSUME NEW p \in Procs, NEW c \in Procs, Fork(p, c)
  PROVE  \E ok \in BOOLEAN, got \in SUBSET maps[p] : ForkWith(p, c, ok, got)
BY DEF Fork, ForkWith

\* What a process has counted is a finite set of mappings, and not empty when
\* it is about to count down.
LEMMA CountedFinite ==
  ASSUME ReqInv, MapsInv, NEW p \in Procs
  PROVE  IsFiniteSet(Counted(p))
<1>1. CASE pc[p] \in {"malloc", "dec", "decstore"} /\ ~req[p].listed
  <2>1. PICK m : req[p].m = {m}
    BY <1>1 DEF ReqInv
  <2> QED
    BY <1>1, <2>1, FS_AddElement DEF Counted, MapsInv, MapsOK
<1>2. CASE ~(pc[p] \in {"malloc", "dec", "decstore"} /\ ~req[p].listed)
  <2>1. Counted(p) = maps[p]
    BY <1>2 DEF Counted
  <2> QED
    BY <2>1 DEF Counted, MapsInv, MapsOK
<1> QED
  BY <1>1, <1>2

LEMMA DecCounts ==
  ASSUME TypeOK, CountInv, ReqInv, RefInv, NEW p \in Procs, pc[p] = "decstore"
  PROVE  req[p].seen = refcnt /\ refcnt \in Nat \ {0}
<1>1. PICK m : m \in Counted(p)
  BY DEF ReqInv, Counted
<1>2. <<p, m>> \in References
  BY <1>1 DEF References
<1>3. Cardinality(References) \in Nat /\ Cardinality(References) > 0
  BY <1>2, NotEmpty DEF RefInv
<1> QED
  BY <1>3 DEF RefInv, CountInv, TypeOK

\* The count is 1 only for the last reference of all.
LEMMA LastCounts ==
  ASSUME TypeOK, CountInv, ReqInv, RefInv, NEW p \in Procs, pc[p] = "decstore",
         req[p].seen = 1
  PROVE  /\ leaked = 0 /\ Counted(p) = req[p].m
         /\ \A q \in Procs \ {p} : Counted(q) = {}
<1>1. PICK m \in Mapping : req[p].m = {m} /\ m \in Counted(p)
  BY DEF ReqInv, Counted
<1>2. <<p, m>> \in References
  BY <1>1 DEF References
<1>3. refcnt = 1 /\ leaked \in Nat
  BY DEF CountInv, TypeOK
<1>4. /\ IsFiniteSet(References \ {<<p, m>>})
      /\ Cardinality(References \ {<<p, m>>}) = Cardinality(References) - 1
      /\ Cardinality(References) \in Nat /\ Cardinality(References \ {<<p, m>>}) \in Nat
  BY <1>2, FS_RemoveElement, FS_CardinalityType DEF RefInv
<1>5. leaked = 0 /\ Cardinality(References \ {<<p, m>>}) = 0
  BY <1>3, <1>4 DEF RefInv
<1>6. References = {<<p, m>>}
  BY <1>2, <1>4, <1>5, FS_EmptySet
<1>7. \A q \in Procs : \A k \in Counted(q) : <<q, k>> \in References
  BY DEF References
<1>8. \A q \in Procs : \A k \in Counted(q) : q = p /\ k = m
  BY <1>6, <1>7
<1> QED
  BY <1>1, <1>5, <1>8

\* How munmap() begins.
LEMMA UnmapGoes ==
  ASSUME NEW m
  PROVE  UnmapStep(m) \in {"sync", "dec"}
BY DEF UnmapStep

\* A call starts when no other process works on the count.
LEMMA Alone ==
  ASSUME Serialized, NEW p \in Procs, MayCall(p)
  PROVE  pc[p] = "idle" /\ p \in alive /\ \A q \in Procs : pc[q] \in Uncounting
BY DEF Serialized, MayCall, Idle

\* What a call keeps of the types of pc and req.
LEMMA GotoType ==
  ASSUME TypeOK, NEW p \in Procs, NEW l \in PCs, Goto(p, l)
  PROVE  pc' \in [Procs -> PCs]
BY DEF TypeOK

LEMMA DoneType ==
  ASSUME TypeOK, NEW p \in Procs, Done(p)
  PROVE  pc' \in [Procs -> PCs] /\ req' \in [Procs -> Request]
BY DEF TypeOK, Request

LEMMA SeenType ==
  ASSUME TypeOK, NEW p \in Procs, LoadCount(p)
  PROVE  req' \in [Procs -> Request]
BY DEF TypeOK, Request

LEMMA BusyType ==
  ASSUME TypeOK, NEW p \in Procs, NEW m \in Mapping, NEW c \in BOOLEAN,
         NEW l \in BOOLEAN, NEW f \in SUBSET MsyncFlags,
         req' = [req EXCEPT ![p] = Busy(m, c, l, f)]
  PROVE  req' \in [Procs -> Request]
BY DEF TypeOK, Request

\* Every step keeps the types.  The count is stored as it was loaded, less one:
\* it was not zero because the mapping is counted still.
LEMMA TypeStep ==
  ASSUME Serialized, TypeOK, CountInv, ReqInv, MapsInv, RefInv, [Next]_vars
  PROVE  TypeOK'
<1>1. ASSUME NEW p \in Procs, NEW a \in Addrs, NEW v \in Views, NEW w \in
      BOOLEAN, Mmap(p, a, v, w) PROVE TypeOK'
  <2>1. [addr |-> a, view |-> v, prot |-> w, page |-> TRUE] \in Mapping
    BY DEF Mapping
  <2>2. (~Exists) \in BOOLEAN
    OBVIOUS
  <2>3. req' \in [Procs -> Request]
    BY <1>1, <2>1, <2>2 DEF Mmap, TypeOK, Request
  <2>4. /\ pc' \in [Procs -> PCs] /\ attach' \in [Procs -> Nat]
        /\ refcnt' \in Nat /\ leaked' \in Nat
    BY <1>1 DEF Mmap, TypeOK
  <2>5. mem' \in [Pages -> 0..MaxClock] /\ abandoned' \subseteq Pages
    BY <1>1 DEF Mmap, TypeOK
  <2> QED
    BY <1>1, <2>3, <2>4, <2>5 DEF Mmap, TypeOK
<1>2. ASSUME NEW p \in Procs, GetNamed(p) PROVE TypeOK'
  BY <1>2, DoneType DEF GetNamed, TypeOK
<1>3. ASSUME NEW p \in Procs, Dup(p) PROVE TypeOK'
  BY <1>3, DoneType DEF Dup, MapsInv, TypeOK
<1>4. ASSUME NEW p \in Procs, Alias(p) PROVE TypeOK'
  BY <1>4, DoneType DEF Alias, MapsInv, TypeOK
<1>5. ASSUME NEW p \in Procs, Ref(p) PROVE TypeOK'
  BY <1>5, SeenType DEF Ref, TypeOK
<1>6. ASSUME NEW p \in Procs, RefStore(p) PROVE TypeOK'
  <2>1. req[p].seen \in Nat
    BY DEF TypeOK, Request
  <2> QED
    BY <1>6, <2>1 DEF RefStore, TypeOK
<1>7. ASSUME NEW p \in Procs, Insert(p) PROVE TypeOK'
  <2>1. PICK m \in Mapping : req[p].m = {m} /\ The(p) = m
    BY <1>7, TheMapping DEF Insert, ReqInv
  <2>2. pc' \in [Procs -> PCs]
    BY <1>7 DEF Insert, TypeOK
  <2>3. req' \in [Procs -> Request]
    <3>1. req' \in {req, [req EXCEPT ![p].listed = TRUE]}
      BY <1>7 DEF Insert
    <3>2. [req[p] EXCEPT !.listed = TRUE] \in Request
      <4>1. req[p] \in Request
        BY DEF TypeOK
      <4> QED
        BY <4>1 DEF Request
    <3> QED
      BY <3>1, <3>2 DEF TypeOK
  <2>4. maps' \in [Procs -> SUBSET Mapping]
    BY <1>7, <2>1 DEF Insert, TypeOK
  <2> QED
    BY <1>7, <2>2, <2>3, <2>4 DEF Insert, TypeOK
<1>8. ASSUME NEW p \in Procs, Load(p) PROVE TypeOK'
  <2>1. mem' \in [Pages -> 0..MaxClock]
    BY <1>8 DEF Load, Filled, TypeOK
  <2>2. pc' \in [Procs -> PCs]
    BY <1>8, UnmapGoes DEF Load, TypeOK
  <2> QED
    BY <1>8, <2>1, <2>2 DEF Load, TypeOK
<1>9. ASSUME NEW p \in Procs, Protect(p) PROVE TypeOK'
  <2>1. PICK m \in Mapping : req[p].m = {m} /\ The(p) = m /\ m \in maps[p]
    <3>1. pc[p] = "protect"
      BY <1>9 DEF Protect
    <3>2. PICK m \in Mapping : req[p].m = {m}
      BY <3>1 DEF ReqInv
    <3>3. req[p].m \subseteq maps[p]
      BY <3>1 DEF ReqInv
    <3>4. The(p) = m
      BY <3>2, TheMapping
    <3> QED
      BY <3>2, <3>3, <3>4
  <2>2. m.prot \in BOOLEAN
    BY DEF Mapping
  <2>3. Protected(p, m, m.prot) \subseteq Mapping
    BY <2>1, <2>2, Reprotected
  <2>4. maps' \in [Procs -> SUBSET Mapping]
    BY <1>9, <2>1, <2>3 DEF Protect, TypeOK
  <2>5. pc' \in [Procs -> PCs] /\ req' \in [Procs -> Request]
    BY <1>9, UnmapGoes, DoneType DEF Protect, TypeOK
  <2> QED
    BY <1>9, <2>4, <2>5 DEF Protect, TypeOK
<1>10. ASSUME NEW p \in Procs, NEW m \in maps[p], Munmap(p, m) PROVE TypeOK'
  <2>1. m \in Mapping
    BY DEF TypeOK
  <2>2. req' \in [Procs -> Request]
    BY <1>10, <2>1 DEF Munmap, TypeOK, Request
  <2>3. pc' \in [Procs -> PCs]
    BY <1>10, UnmapGoes DEF Munmap, TypeOK
  <2> QED
    BY <1>10, <2>2, <2>3 DEF Munmap, TypeOK
<1>11. ASSUME NEW p \in Procs, Sync(p) PROVE TypeOK'
  <2>1. file' \in [Pages -> 0..MaxClock]
    BY <1>11 DEF Sync, Written, TypeOK
  <2>2. pc' \in [Procs -> PCs] /\ req' \in [Procs -> Request]
    BY <1>11, DoneType DEF Sync, TypeOK
  <2> QED
    BY <1>11, <2>1, <2>2 DEF Sync, TypeOK
<1>12. ASSUME NEW p \in Procs, Dec(p) PROVE TypeOK'
  BY <1>12, SeenType DEF Dec, TypeOK
<1>13. ASSUME NEW p \in Procs, DecStore(p) PROVE TypeOK'
  <2>1. refcnt' \in Nat
    BY <1>13, DecCounts DEF DecStore
  <2>2. maps' \in [Procs -> SUBSET Mapping]
    BY <1>13 DEF DecStore, TypeOK
  <2>3. pc' \in [Procs -> PCs] /\ req' \in [Procs -> Request]
    BY <1>13, DoneType DEF DecStore, TypeOK
  <2> QED
    BY <1>13, <2>1, <2>2, <2>3 DEF DecStore, TypeOK
<1>14. ASSUME NEW p \in Procs, Drop(p) PROVE TypeOK'
  BY <1>14, DoneType DEF Drop, TypeOK
<1>15. ASSUME NEW p \in Procs, NEW m \in maps[p], NEW w \in BOOLEAN, Mprotect(p,
      m, w) PROVE TypeOK'
  <2>1. Protected(p, m, w) \subseteq Mapping
    BY Reprotected
  <2> QED
    BY <1>15, <2>1 DEF Mprotect, TypeOK
<1>16. ASSUME NEW p \in Procs, NEW m \in maps[p], NEW f \in SUBSET MsyncFlags,
      Msync(p, m, f) PROVE TypeOK'
  <2>1. m \in Mapping
    BY DEF TypeOK
  <2>2. req' \in [Procs -> Request]
    BY <1>16, <2>1 DEF Msync, TypeOK, Request
  <2> QED
    BY <1>16, <2>2 DEF Msync, TypeOK
<1>17. ASSUME NEW p \in Procs, Flush(p) PROVE TypeOK'
  BY <1>17, DoneType DEF Flush, Written, TypeOK
<1>18. ASSUME NEW p \in Procs, Reread(p) PROVE TypeOK'
  <2>1. mem' \in [Pages -> 0..MaxClock]
    BY <1>18 DEF Reread, Filled, TypeOK
  <2>2. pc' \in [Procs -> PCs] /\ req' \in [Procs -> Request]
    BY <1>18, DoneType DEF Reread
  <2> QED
    BY <1>18, <2>1, <2>2 DEF Reread, TypeOK
<1>19. ASSUME NEW p \in Procs, NEW m \in maps[p], NEW g \in Pages, Store(p, m,
      g) PROVE TypeOK'
  BY <1>19 DEF Store, TypeOK
<1>20. ASSUME NEW g \in Pages, ExtWrite(g) PROVE TypeOK'
  BY <1>20 DEF ExtWrite, TypeOK
<1>21. ASSUME NEW p \in Procs, Start(p) PROVE TypeOK'
  BY <1>21 DEF Start, TypeOK
<1>22. ASSUME NEW p \in Procs, NEW c \in Procs, Fork(p, c) PROVE TypeOK'
  <2>1. PICK ok \in BOOLEAN, got \in SUBSET maps[p] : ForkWith(p, c, ok, got)
    BY <1>22, ForkPick
  <2>2. Cardinality(got) \in Nat
    BY FS_Subset, FS_CardinalityType DEF MapsInv, MapsOK
  <2>3. {[m EXCEPT !.page = m.prot] : m \in got} \subseteq Mapping
    BY DEF TypeOK, Mapping
  <2>4. maps' \in [Procs -> SUBSET Mapping]
    BY <2>1, <2>3 DEF ForkWith, TypeOK
  <2>5. attach' \in [Procs -> Nat] /\ refcnt' \in Nat /\ leaked' \in Nat
    BY <2>1, <2>2 DEF ForkWith, TypeOK
  <2> QED
    BY <2>1, <2>4, <2>5 DEF ForkWith, TypeOK
<1>23. ASSUME NEW p \in Procs, Exit(p) PROVE TypeOK'
  <2>1. Cardinality(Counted(p)) \in Nat
    BY CountedFinite, FS_CardinalityType
  <2>2. pc' \in [Procs -> PCs] /\ req' \in [Procs -> Request]
    BY <1>23, DoneType DEF Exit
  <2>3. attach' \in [Procs -> Nat] /\ maps' \in [Procs -> SUBSET Mapping]
    BY <1>23 DEF Exit, TypeOK
  <2> QED
    BY <1>23, <2>1, <2>2, <2>3 DEF Exit, TypeOK
<1>24. CASE UNCHANGED vars
  BY <1>24 DEF vars, TypeOK
<1> QED
  BY <1>1, <1>2, <1>3, <1>4, <1>5, <1>6, <1>7, <1>8, <1>9, <1>10, <1>11,
     <1>12, <1>13, <1>14, <1>15, <1>16, <1>17, <1>18, <1>19, <1>20, <1>21,
     <1>22, <1>23, <1>24 DEF Next, Step

\* A call that uses the count starts when no other does, so that the count a
\* process has loaded is the count still when it stores it.
LEMMA CountStep ==
  ASSUME Serialized, TypeOK, CountInv, [Next]_vars
  PROVE  CountInv'
<1>1. ASSUME NEW p \in Procs, NEW a \in Addrs, NEW v \in Views, NEW w \in
      BOOLEAN, Mmap(p, a, v, w) PROVE CountInv'
  BY <1>1, Alone, UnmapGoes DEF Mmap, TypeOK, CountInv
<1>2. ASSUME NEW p \in Procs, GetNamed(p) PROVE CountInv'
  BY <1>2 DEF GetNamed, TypeOK, CountInv
<1>3. ASSUME NEW p \in Procs, Dup(p) PROVE CountInv'
  BY <1>3 DEF Dup, TypeOK, CountInv
<1>4. ASSUME NEW p \in Procs, Alias(p) PROVE CountInv'
  BY <1>4 DEF Alias, TypeOK, CountInv
<1>5. ASSUME NEW p \in Procs, Ref(p) PROVE CountInv'
  <2>1. CASE req[p].create
    BY <1>5, <2>1 DEF Ref, TypeOK, CountInv
  <2>2. CASE ~req[p].create
    <3>1. pc' = [pc EXCEPT ![p] = "refstore"] /\ refcnt' = refcnt
      BY <1>5, <2>2 DEF Ref
    <3>2. req'[p].seen = refcnt
      BY <1>5, <2>2 DEF Ref, TypeOK, Request
    <3>3. \A q \in Procs \ {p} : pc[q] \in Uncounting
      BY <1>5 DEF Ref, CountInv
    <3> QED
      BY <3>1, <3>2, <3>3 DEF TypeOK, CountInv
  <2> QED
    BY <2>1, <2>2
<1>6. ASSUME NEW p \in Procs, RefStore(p) PROVE CountInv'
  BY <1>6 DEF RefStore, TypeOK, CountInv
<1>7. ASSUME NEW p \in Procs, Insert(p) PROVE CountInv'
  BY <1>7 DEF Insert, TypeOK, CountInv
<1>8. ASSUME NEW p \in Procs, Load(p) PROVE CountInv'
  BY <1>8, Alone, UnmapGoes DEF Load, TypeOK, CountInv
<1>9. ASSUME NEW p \in Procs, Protect(p) PROVE CountInv'
  BY <1>9, Alone, UnmapGoes DEF Protect, TypeOK, CountInv
<1>10. ASSUME NEW p \in Procs, NEW m \in maps[p], Munmap(p, m) PROVE CountInv'
  BY <1>10, Alone, UnmapGoes DEF Munmap, TypeOK, CountInv
<1>11. ASSUME NEW p \in Procs, Sync(p) PROVE CountInv'
  BY <1>11 DEF Sync, TypeOK, CountInv
<1>12. ASSUME NEW p \in Procs, Dec(p) PROVE CountInv'
  BY <1>12 DEF Dec, TypeOK, CountInv
<1>13. ASSUME NEW p \in Procs, DecStore(p) PROVE CountInv'
  BY <1>13 DEF DecStore, TypeOK, CountInv
<1>14. ASSUME NEW p \in Procs, Drop(p) PROVE CountInv'
  BY <1>14 DEF Drop, TypeOK, CountInv
<1>15. ASSUME NEW p \in Procs, NEW m \in maps[p], NEW w \in BOOLEAN, Mprotect(p,
      m, w) PROVE CountInv'
  BY <1>15 DEF Mprotect, TypeOK, CountInv
<1>16. ASSUME NEW p \in Procs, NEW m \in maps[p], NEW f \in SUBSET MsyncFlags,
      Msync(p, m, f) PROVE CountInv'
  BY <1>16 DEF Msync, TypeOK, CountInv
<1>17. ASSUME NEW p \in Procs, Flush(p) PROVE CountInv'
  BY <1>17 DEF Flush, TypeOK, CountInv
<1>18. ASSUME NEW p \in Procs, Reread(p) PROVE CountInv'
  BY <1>18 DEF Reread, TypeOK, CountInv
<1>19. ASSUME NEW p \in Procs, NEW m \in maps[p], NEW g \in Pages, Store(p, m,
      g) PROVE CountInv'
  BY <1>19 DEF Store, TypeOK, CountInv
<1>20. ASSUME NEW g \in Pages, ExtWrite(g) PROVE CountInv'
  BY <1>20 DEF ExtWrite, TypeOK, CountInv
<1>21. ASSUME NEW p \in Procs, Start(p) PROVE CountInv'
  BY <1>21 DEF Start, TypeOK, CountInv
<1>22. ASSUME NEW p \in Procs, NEW c \in Procs, Fork(p, c) PROVE CountInv'
  BY <1>22, Alone, UnmapGoes DEF Fork, TypeOK, CountInv
<1>23. ASSUME NEW p \in Procs, Exit(p) PROVE CountInv'
  BY <1>23 DEF Exit, TypeOK, CountInv
<1>24. CASE UNCHANGED vars
  BY <1>24 DEF vars, TypeOK, CountInv
<1> QED
  BY <1>1, <1>2, <1>3, <1>4, <1>5, <1>6, <1>7, <1>8, <1>9, <1>10, <1>11,
     <1>12, <1>13, <1>14, <1>15, <1>16, <1>17, <1>18, <1>19, <1>20, <1>21,
     <1>22, <1>23, <1>24 DEF Next, Step

\* A process is busy with a mapping of its list until DecStore takes it off, or
\* with a new one at an address that the list does not have.
LEMMA ReqStep ==
  ASSUME Serialized, TypeOK, ReqInv, [Next]_vars
  PROVE  ReqInv'
<1>1. ASSUME NEW p \in Procs, NEW a \in Addrs, NEW v \in Views, NEW w \in
      BOOLEAN, Mmap(p, a, v, w) PROVE ReqInv'
  <2> DEFINE n == [addr |-> a, view |-> v, prot |-> w, page |-> TRUE]
  <2>1. n \in Mapping /\ n.addr = a
    BY DEF Mapping
  <2>2. \A k \in maps[p] : k.addr # a
    BY <1>1 DEF Mmap
  <2>3. /\ req'[p].m = {n} /\ req'[p].listed = FALSE
        /\ pc'[p] \in {"get", "dup"} /\ maps' = maps /\ alive' = alive
        /\ pc'[p] = "get" => ~req'[p].create
        /\ \A q \in Procs \ {p} : req'[q] = req[q] /\ pc'[q] = pc[q]
    BY <1>1 DEF Mmap, TypeOK
  <2>4. p \in alive
    BY <1>1, Alone DEF Mmap
  <2> HIDE DEF n
  <2> QED
    BY <2>1, <2>2, <2>3, <2>4 DEF ReqInv
<1>2. ASSUME NEW p \in Procs, GetNamed(p) PROVE ReqInv'
  BY <1>2 DEF GetNamed, TypeOK, ReqInv
<1>3. ASSUME NEW p \in Procs, Dup(p) PROVE ReqInv'
  BY <1>3 DEF Dup, TypeOK, ReqInv
<1>4. ASSUME NEW p \in Procs, Alias(p) PROVE ReqInv'
  BY <1>4 DEF Alias, TypeOK, ReqInv
<1>5. ASSUME NEW p \in Procs, Ref(p) PROVE ReqInv'
  <2>1. /\ req'[p].m = req[p].m /\ req'[p].listed = req[p].listed
        /\ \A q \in Procs \ {p} : req'[q] = req[q]
    BY <1>5 DEF Ref, TypeOK, Request
  <2>2. /\ pc[p] = "ref" /\ pc'[p] \in {"malloc", "refstore"}
        /\ \A q \in Procs \ {p} : pc'[q] = pc[q]
    BY <1>5 DEF Ref, TypeOK
  <2> QED
    BY <1>5, <2>1, <2>2 DEF Ref, ReqInv
<1>6. ASSUME NEW p \in Procs, RefStore(p) PROVE ReqInv'
  BY <1>6 DEF RefStore, TypeOK, ReqInv
<1>7. ASSUME NEW p \in Procs, Insert(p) PROVE ReqInv'
  <2>1. PICK m \in Mapping : req[p].m = {m} /\ The(p) = m
    BY <1>7, TheMapping DEF Insert, ReqInv
  <2>2. pc[p] = "malloc" /\ alive' = alive /\ p \in alive /\ ~req[p].listed
    BY <1>7 DEF Insert, ReqInv
  <2>3. \A q \in Procs \ {p} : req'[q] = req[q] /\ pc'[q] = pc[q] /\ maps'[q] = maps[q]
    BY <1>7 DEF Insert, TypeOK
  <2>4. CASE pc'[p] = "dec"
    <3>1. req'[p] = req[p] /\ maps'[p] = maps[p]
      BY <1>7, <2>4 DEF Insert, TypeOK
    <3> QED
      BY <2>2, <2>3, <2>4, <3>1 DEF ReqInv
  <2>5. CASE pc'[p] \in {"load", "protect"}
    <3>1. /\ req'[p].m = {m} /\ req'[p].listed /\ maps'[p] = maps[p] \cup {m}
          /\ pc'[p] = "load" => req'[p].create
      <4>1. req[p] \in Request /\ p \in DOMAIN req /\ p \in DOMAIN maps /\ p \in DOMAIN pc
        BY DEF TypeOK
      <4>2. /\ req' = [req EXCEPT ![p].listed = TRUE] /\ maps' = [maps EXCEPT ![p] = @ \cup {m}]
            /\ pc' = [pc EXCEPT ![p] = IF req[p].create THEN "load" ELSE "protect"]
        BY <1>7, <2>1, <2>5, <4>1 DEF Insert
      <4>3. req'[p] = [req[p] EXCEPT !.listed = TRUE] /\ maps'[p] = maps[p] \cup {m}
        BY <4>1, <4>2
      <4>4. pc'[p] = "load" => req[p].create
        BY <4>1, <4>2
      <4> QED
        BY <2>1, <4>1, <4>3, <4>4 DEF Request
    <3> QED
      BY <2>2, <2>3, <2>5, <3>1 DEF ReqInv
  <2>6. pc'[p] \in {"dec", "load", "protect"}
    BY <1>7 DEF Insert, TypeOK
  <2> QED
    BY <2>4, <2>5, <2>6
<1>8. ASSUME NEW p \in Procs, Load(p) PROVE ReqInv'
  BY <1>8, UnmapGoes DEF Load, TypeOK, ReqInv
<1>9. ASSUME NEW p \in Procs, Protect(p) PROVE ReqInv'
  BY <1>9, UnmapGoes DEF Protect, TypeOK, ReqInv
<1>10. ASSUME NEW p \in Procs, NEW m \in maps[p], Munmap(p, m) PROVE ReqInv'
  BY <1>10, UnmapGoes, Alone DEF Munmap, TypeOK, ReqInv
<1>11. ASSUME NEW p \in Procs, Sync(p) PROVE ReqInv'
  BY <1>11 DEF Sync, TypeOK, ReqInv
<1>12. ASSUME NEW p \in Procs, Dec(p) PROVE ReqInv'
  BY <1>12 DEF Dec, TypeOK, ReqInv
<1>13. ASSUME NEW p \in Procs, DecStore(p) PROVE ReqInv'
  BY <1>13 DEF DecStore, TypeOK, ReqInv
<1>14. ASSUME NEW p \in Procs, Drop(p) PROVE ReqInv'
  BY <1>14 DEF Drop, TypeOK, ReqInv
<1>15. ASSUME NEW p \in Procs, NEW m \in maps[p], NEW w \in BOOLEAN, Mprotect(p,
      m, w) PROVE ReqInv'
  <2>1. pc[p] = "idle" /\ pc' = pc /\ req' = req /\ alive' = alive
    BY <1>15 DEF Mprotect, Idle
  <2>2. \A q \in Procs \ {p} : maps'[q] = maps[q]
    BY <1>15 DEF Mprotect, TypeOK
  <2> QED
    BY <2>1, <2>2 DEF ReqInv
<1>16. ASSUME NEW p \in Procs, NEW m \in maps[p], NEW f \in SUBSET MsyncFlags,
      Msync(p, m, f) PROVE ReqInv'
  BY <1>16 DEF Msync, Idle, TypeOK, ReqInv
<1>17. ASSUME NEW p \in Procs, Flush(p) PROVE ReqInv'
  BY <1>17 DEF Flush, TypeOK, ReqInv
<1>18. ASSUME NEW p \in Procs, Reread(p) PROVE ReqInv'
  BY <1>18 DEF Reread, TypeOK, ReqInv
<1>19. ASSUME NEW p \in Procs, NEW m \in maps[p], NEW g \in Pages, Store(p, m,
      g) PROVE ReqInv'
  BY <1>19 DEF Store, TypeOK, ReqInv
<1>20. ASSUME NEW g \in Pages, ExtWrite(g) PROVE ReqInv'
  BY <1>20 DEF ExtWrite, TypeOK, ReqInv
<1>21. ASSUME NEW p \in Procs, Start(p) PROVE ReqInv'
  BY <1>21 DEF Start, TypeOK, ReqInv
<1>22. ASSUME NEW p \in Procs, NEW c \in Procs, Fork(p, c) PROVE ReqInv'
  BY <1>22 DEF Fork, TypeOK, ReqInv
<1>23. ASSUME NEW p \in Procs, Exit(p) PROVE ReqInv'
  BY <1>23 DEF Exit, TypeOK, ReqInv
<1>24. CASE UNCHANGED vars
  BY <1>24 DEF vars, TypeOK, ReqInv
<1> QED
  BY <1>1, <1>2, <1>3, <1>4, <1>5, <1>6, <1>7, <1>8, <1>9, <1>10, <1>11,
     <1>12, <1>13, <1>14, <1>15, <1>16, <1>17, <1>18, <1>19, <1>20, <1>21,
     <1>22, <1>23, <1>24 DEF Next, Step

\* The references of a process are enough for its list: an error undoes the
\* reference its own call got, and Drop gives all of them up when the count says
\* that no list has a mapping, the list of this process included.
LEMMA MapsStep ==
  ASSUME Serialized, TypeOK, CountInv, ReqInv, MapsInv, RefInv, [Next]_vars
  PROVE  MapsInv'
<1>1. ASSUME NEW p \in Procs, NEW a \in Addrs, NEW v \in Views, NEW w \in
      BOOLEAN, Mmap(p, a, v, w) PROVE MapsInv'
  <2>1. pc[p] = "idle" /\ p \in alive /\ \A q \in Procs : pc[q] \in Uncounting
    BY <1>1, Alone DEF Mmap
  <2>2. maps' = maps /\ alive' = alive /\ \A q \in Procs \ {p} : pc'[q] = pc[q]
    BY <1>1 DEF Mmap, TypeOK
  <2>3. CASE Exists
    BY <1>1, <2>1, <2>2, <2>3 DEF Mmap, TypeOK, MapsInv
  <2>4. CASE ~Exists
    <3>1. maps[p] = {}
      BY <2>4 DEF Exists, MapsInv
    <3>2. attach'[p] = 1 /\ \A q \in Procs \ {p} : attach'[q] = attach[q]
      BY <1>1, <2>4 DEF Mmap, TypeOK
    <3>3. pc'[p] = "dup"
      BY <1>1, <2>4 DEF Mmap, TypeOK
    <3> QED
      BY <2>1, <2>2, <3>1, <3>2, <3>3 DEF MapsInv, MapsOK
  <2> QED
    BY <2>3, <2>4
<1>2. ASSUME NEW p \in Procs, GetNamed(p) PROVE MapsInv'
  BY <1>2 DEF GetNamed, TypeOK, ReqInv, MapsInv
<1>3. ASSUME NEW p \in Procs, Dup(p) PROVE MapsInv'
  BY <1>3 DEF Dup, TypeOK, ReqInv, MapsInv
<1>4. ASSUME NEW p \in Procs, Alias(p) PROVE MapsInv'
  BY <1>4 DEF Alias, TypeOK, ReqInv, MapsInv
<1>5. ASSUME NEW p \in Procs, Ref(p) PROVE MapsInv'
  BY <1>5 DEF Ref, TypeOK, ReqInv, MapsInv
<1>6. ASSUME NEW p \in Procs, RefStore(p) PROVE MapsInv'
  BY <1>6 DEF RefStore, TypeOK, ReqInv, MapsInv
<1>7. ASSUME NEW p \in Procs, Insert(p) PROVE MapsInv'
  <2>1. PICK m \in Mapping : req[p].m = {m} /\ The(p) = m
    BY <1>7, TheMapping DEF Insert, ReqInv
  <2>2. /\ pc[p] = "malloc" /\ alive' = alive /\ attach' = attach
        /\ p \in alive /\ \A k \in maps[p] : k.addr # m.addr
    BY <1>7, <2>1 DEF Insert, ReqInv
  <2>3. \A q \in Procs \ {p} : pc'[q] = pc[q] /\ maps'[q] = maps[q]
    BY <1>7 DEF Insert, TypeOK
  <2>4. maps'[p] \in {maps[p], maps[p] \cup {m}}
    BY <1>7, <2>1 DEF Insert, TypeOK
  <2>5. IsFiniteSet(maps'[p])
    <3>1. IsFiniteSet(maps[p])
      BY DEF MapsInv, MapsOK
    <3> QED
      BY <2>4, <3>1, FS_AddElement
  <2>6. pc'[p] \in {"dec", "load", "protect"}
    BY <1>7 DEF Insert, TypeOK
  <2> QED
    BY <2>2, <2>3, <2>4, <2>5, <2>6 DEF MapsInv, MapsOK
<1>8. ASSUME NEW p \in Procs, Load(p) PROVE MapsInv'
  BY <1>8, UnmapGoes DEF Load, TypeOK, ReqInv, MapsInv
<1>9. ASSUME NEW p \in Procs, Protect(p) PROVE MapsInv'
  <2>1. PICK m \in maps[p] : req[p].m = {m} /\ The(p) = m
    BY <1>9, TheMapping DEF Protect, ReqInv
  <2>2. m.prot \in BOOLEAN
    BY DEF TypeOK, Mapping
  <2>3. maps'[p] \in {maps[p], Protected(p, m, m.prot)}
    BY <1>9, <2>1 DEF Protect, TypeOK
  <2>4. \A q \in Procs \ {p} : pc'[q] = pc[q] /\ maps'[q] = maps[q]
    BY <1>9 DEF Protect, TypeOK
  <2>5. /\ pc[p] = "protect" /\ pc'[p] \in {"idle", "sync", "dec"}
        /\ attach' = attach /\ alive' = alive
    BY <1>9, UnmapGoes DEF Protect, TypeOK
  <2>6. p \in alive
    BY <2>5 DEF ReqInv
  <2>7. MapsOK(Protected(p, m, m.prot)) /\ Protected(p, m, m.prot) # {}
    BY <2>2, Reprotected, MapsOKKept
  <2> QED
    BY <2>3, <2>4, <2>5, <2>6, <2>7 DEF MapsInv, MapsOK
<1>10. ASSUME NEW p \in Procs, NEW m \in maps[p], Munmap(p, m) PROVE MapsInv'
  BY <1>10, UnmapGoes, Alone DEF Munmap, TypeOK, ReqInv, MapsInv
<1>11. ASSUME NEW p \in Procs, Sync(p) PROVE MapsInv'
  BY <1>11 DEF Sync, TypeOK, ReqInv, MapsInv
<1>12. ASSUME NEW p \in Procs, Dec(p) PROVE MapsInv'
  BY <1>12 DEF Dec, TypeOK, ReqInv, MapsInv
<1>13. ASSUME NEW p \in Procs, DecStore(p) PROVE MapsInv'
  <2>1. maps'[p] = maps[p] \ req[p].m
    BY <1>13 DEF DecStore, TypeOK
  <2>2. /\ pc[p] = "decstore" /\ attach' = attach /\ alive' = alive
        /\ pc'[p] = IF req[p].seen = 1 THEN "drop" ELSE "idle"
    BY <1>13 DEF DecStore, TypeOK
  <2>3. \A q \in Procs \ {p} : pc'[q] = pc[q] /\ maps'[q] = maps[q]
    BY <1>13 DEF DecStore, TypeOK
  <2>4. IsFiniteSet(maps'[p])
    BY <2>1, FS_Subset DEF MapsInv, MapsOK
  <2>5. req[p].seen = 1 => maps'[p] = {}
    BY <1>13, <2>1, LastCounts DEF DecStore, Counted
  <2> QED
    BY <2>1, <2>2, <2>3, <2>4, <2>5 DEF MapsInv, MapsOK
<1>14. ASSUME NEW p \in Procs, Drop(p) PROVE MapsInv'
  BY <1>14 DEF Drop, TypeOK, ReqInv, MapsInv
<1>15. ASSUME NEW p \in Procs, NEW m \in maps[p], NEW w \in BOOLEAN, Mprotect(p,
      m, w) PROVE MapsInv'
  <2>1. maps'[p] = Protected(p, m, w)
    BY <1>15 DEF Mprotect, TypeOK
  <2>2. \A q \in Procs \ {p} : maps'[q] = maps[q]
    BY <1>15 DEF Mprotect, TypeOK
  <2>3. pc[p] = "idle" /\ p \in alive /\ pc' = pc /\ attach' = attach /\ alive' = alive
    BY <1>15 DEF Mprotect, Idle
  <2>4. MapsOK(Protected(p, m, w)) /\ Protected(p, m, w) # {}
    BY Reprotected, MapsOKKept
  <2> QED
    BY <2>1, <2>2, <2>3, <2>4 DEF MapsInv, MapsOK
<1>16. ASSUME NEW p \in Procs, NEW m \in maps[p], NEW f \in SUBSET MsyncFlags,
      Msync(p, m, f) PROVE MapsInv'
  BY <1>16 DEF Msync, TypeOK, ReqInv, MapsInv
<1>17. ASSUME NEW p \in Procs, Flush(p) PROVE MapsInv'
  BY <1>17 DEF Flush, TypeOK, ReqInv, MapsInv
<1>18. ASSUME NEW p \in Procs, Reread(p) PROVE MapsInv'
  BY <1>18 DEF Reread, TypeOK, ReqInv, MapsInv
<1>19. ASSUME NEW p \in Procs, NEW m \in maps[p], NEW g \in Pages, Store(p, m,
      g) PROVE MapsInv'
  BY <1>19 DEF Store, TypeOK, ReqInv, MapsInv
<1>20. ASSUME NEW g \in Pages, ExtWrite(g) PROVE MapsInv'
  BY <1>20 DEF ExtWrite, TypeOK, ReqInv, MapsInv
<1>21. ASSUME NEW p \in Procs, Start(p) PROVE MapsInv'
  BY <1>21 DEF Start, TypeOK, ReqInv, MapsInv
<1>22. ASSUME NEW p \in Procs, NEW c \in Procs, Fork(p, c) PROVE MapsInv'
  <2>1. PICK ok \in BOOLEAN, got \in SUBSET maps[p] : ForkWith(p, c, ok, got)
    BY <1>22, ForkPick
  <2>2. pc[p] = "idle" /\ p \in alive /\ c \notin alive /\ pc[c] = "idle" /\ p # c
    BY <1>22, Alone DEF Fork, ReqInv
  <2>3. CASE ~ok
    BY <2>1, <2>3 DEF ForkWith, MapsInv
  <2>4. CASE ok
    <3> DEFINE new == {[m EXCEPT !.page = m.prot] : m \in got}
    <3>1. /\ maps'[c] = new /\ attach'[c] = Cardinality(got)
          /\ alive' = alive \cup {c} /\ pc' = pc
          /\ \A q \in Procs \ {c} : maps'[q] = maps[q] /\ attach'[q] = attach[q]
      BY <2>1, <2>4 DEF ForkWith, TypeOK
    <3>2. MapsOK(new) /\ Cardinality(new) = Cardinality(got)
      BY Inherited
    <3>3. new # {} => Cardinality(got) > 0
      BY <3>2, NotEmpty DEF MapsOK
    <3> HIDE DEF new
    <3> QED
      BY <2>2, <3>1, <3>2, <3>3 DEF MapsInv, MapsOK
  <2> QED
    BY <2>3, <2>4
<1>23. ASSUME NEW p \in Procs, Exit(p) PROVE MapsInv'
  <2>1. /\ maps'[p] = {} /\ pc'[p] = "idle" /\ alive' = alive \ {p}
        /\ \A q \in Procs \ {p} :
             /\ maps'[q] = maps[q] /\ pc'[q] = pc[q] /\ attach'[q] = attach[q]
             /\ q \in alive' <=> q \in alive
    BY <1>23 DEF Exit, TypeOK
  <2> QED
    BY <2>1, FS_EmptySet DEF MapsInv, MapsOK
<1>24. CASE UNCHANGED vars
  BY <1>24 DEF vars, TypeOK, ReqInv, MapsInv
<1> QED
  BY <1>1, <1>2, <1>3, <1>4, <1>5, <1>6, <1>7, <1>8, <1>9, <1>10, <1>11,
     <1>12, <1>13, <1>14, <1>15, <1>16, <1>17, <1>18, <1>19, <1>20, <1>21,
     <1>22, <1>23, <1>24 DEF Next, Step


\* How the references change with those of one process.
LEMMA SameRefs ==
  ASSUME \A q \in Procs : Counted(q)' = Counted(q)
  PROVE  References' = References
BY DEF References

LEMMA AddRef ==
  ASSUME IsFiniteSet(References), NEW p \in Procs, NEW m, m \notin Counted(p),
         Counted(p)' = Counted(p) \cup {m},
         \A q \in Procs \ {p} : Counted(q)' = Counted(q)
  PROVE  /\ IsFiniteSet(References')
         /\ Cardinality(References') = Cardinality(References) + 1
<1>1. References' = References \cup {<<p, m>>}
  BY DEF References
<1>2. <<p, m>> \notin References
  BY DEF References
<1> QED
  BY <1>1, <1>2, FS_AddElement

LEMMA RemoveRef ==
  ASSUME IsFiniteSet(References), NEW p \in Procs, NEW m \in Counted(p),
         Counted(p)' = Counted(p) \ {m},
         \A q \in Procs \ {p} : Counted(q)' = Counted(q)
  PROVE  /\ IsFiniteSet(References')
         /\ Cardinality(References') = Cardinality(References) - 1
<1>1. References' = References \ {<<p, m>>}
  BY DEF References
<1>2. <<p, m>> \in References
  BY DEF References
<1> QED
  BY <1>1, <1>2, FS_RemoveElement

LEMMA SwapRef ==
  ASSUME IsFiniteSet(References), NEW p \in Procs, NEW m \in Counted(p), NEW n,
         n \notin Counted(p) \ {m}, Counted(p)' = (Counted(p) \ {m}) \cup {n},
         \A q \in Procs \ {p} : Counted(q)' = Counted(q)
  PROVE  /\ IsFiniteSet(References')
         /\ Cardinality(References') = Cardinality(References)
<1> DEFINE R == References \ {<<p, m>>}
<1>1. References' = R \cup {<<p, n>>}
  BY DEF References
<1>2. <<p, m>> \in References /\ <<p, n>> \notin R
  BY DEF References
<1>3. IsFiniteSet(R) /\ Cardinality(R) = Cardinality(References) - 1
  <2>1. <<p, m>> \in References
    BY <1>2
  <2> QED
    BY <2>1, FS_RemoveElement, ZenonT(30)
<1>4. Cardinality(References) \in Nat
  BY FS_CardinalityType
<1> HIDE DEF R
<1>5. IsFiniteSet(R \cup {<<p, n>>}) /\ Cardinality(R \cup {<<p, n>>}) = Cardinality(R) + 1
  BY <1>2, <1>3, FS_AddElement
<1> QED
  BY <1>1, <1>3, <1>4, <1>5

\* The references of one process, as pairs.
LEMMA OwnRefs ==
  ASSUME NEW p, NEW S, IsFiniteSet(S)
  PROVE  /\ IsFiniteSet({p} \X S) /\ Cardinality({p} \X S) = Cardinality(S)
         /\ Cardinality(S) \in Nat
<1>1. IsFiniteSet({p}) /\ Cardinality({p}) = 1
  BY FS_Singleton
<1>2. Cardinality(S) \in Nat
  BY FS_CardinalityType
<1> QED
  BY <1>1, <1>2, FS_Product

\* A process that comes to life, or ends, brings or takes all of its own.
LEMMA GainRefs ==
  ASSUME IsFiniteSet(References), NEW p \in Procs, NEW S, IsFiniteSet(S),
         Counted(p) = {}, Counted(p)' = S,
         \A q \in Procs \ {p} : Counted(q)' = Counted(q)
  PROVE  /\ IsFiniteSet(References')
         /\ Cardinality(References') = Cardinality(References) + Cardinality(S)
<1>1. References' = References \cup ({p} \X S)
  BY DEF References
<1>2. References \cap ({p} \X S) = {}
  BY DEF References
<1>3. /\ IsFiniteSet({p} \X S) /\ Cardinality({p} \X S) = Cardinality(S)
      /\ Cardinality(S) \in Nat /\ Cardinality(References) \in Nat
  BY OwnRefs, FS_CardinalityType
<1>4. /\ IsFiniteSet(References \cup ({p} \X S))
      /\ Cardinality(References \cup ({p} \X S)) =
           Cardinality(References) + Cardinality({p} \X S)
             - Cardinality(References \cap ({p} \X S))
  BY <1>3, FS_Union
<1>5. Cardinality(References \cap ({p} \X S)) = 0
  BY <1>2, FS_EmptySet
<1> QED
  BY <1>1, <1>3, <1>4, <1>5

LEMMA LoseRefs ==
  ASSUME IsFiniteSet(References), NEW p \in Procs, IsFiniteSet(Counted(p)),
         Counted(p)' = {}, \A q \in Procs \ {p} : Counted(q)' = Counted(q)
  PROVE  /\ IsFiniteSet(References') /\ Cardinality(References') \in Nat
         /\ Cardinality(References) = Cardinality(References') + Cardinality(Counted(p))
<1> DEFINE Own == {p} \X Counted(p)
<1>1. References' = References \ Own
  BY DEF References
<1>2. Own \subseteq References
  BY DEF References
<1>3. IsFiniteSet(References')
  BY <1>1, FS_Subset
<1>4. IsFiniteSet(Own) /\ Cardinality(Own) = Cardinality(Counted(p))
  BY OwnRefs
<1>5. References = References' \cup Own /\ References' \cap Own = {}
  BY <1>1, <1>2
<1> HIDE DEF Own
<1>6. Cardinality(References' \cup Own) =
        Cardinality(References') + Cardinality(Own) - Cardinality(References' \cap Own)
  BY <1>3, <1>4, FS_Union
<1>7. Cardinality(References') \in Nat /\ Cardinality(Own) \in Nat
  BY <1>3, <1>4, FS_CardinalityType
<1>8. Cardinality(References' \cap Own) = 0
  BY <1>5, FS_EmptySet
<1> QED
  BY <1>3, <1>4, <1>5, <1>6, <1>7, <1>8

\* A step that changes what is counted of no process, nor the count.
LEMMA RefKept ==
  ASSUME RefInv, \A q \in Procs : Counted(q)' = Counted(q),
         refcnt' = refcnt, leaked' = leaked,
         \A q \in Procs : req'[q].create /\ pc'[q] \in {"dup", "alias", "ref"}
                            => req[q].create /\ pc[q] \in {"dup", "alias", "ref"}
  PROVE  RefInv'
BY SameRefs DEF RefInv

\* The count goes with the references.
LEMMA RefStep ==
  ASSUME Serialized, TypeOK, CountInv, ReqInv, MapsInv, RefInv, [Next]_vars
  PROVE  RefInv'
<1>1. ASSUME NEW p \in Procs, NEW a \in Addrs, NEW v \in Views, NEW w \in
      BOOLEAN, Mmap(p, a, v, w) PROVE RefInv'
  <2>1. pc[p] = "idle" /\ \A q \in Procs : pc[q] \in Uncounting
    BY <1>1, Alone DEF Mmap
  <2>2. /\ \A q \in Procs \ {p} : pc'[q] = pc[q] /\ req'[q] = req[q]
        /\ maps' = maps /\ pc'[p] \in {"get", "dup"}
        /\ req'[p].create = (~Exists)
    BY <1>1 DEF Mmap, TypeOK
  <2>3. \A q \in Procs : Counted(q) = maps[q] /\ Counted(q)' = maps[q]
    BY <2>1, <2>2 DEF Counted
  <2>4. CASE Exists
    BY <1>1, <2>1, <2>2, <2>3, <2>4, RefKept DEF Mmap
  <2>5. CASE ~Exists
    <3>1. \A q \in Procs : maps[q] = {}
      BY <2>5 DEF Exists, MapsInv, TypeOK
    <3>2. References' = {}
      BY <2>3, <3>1 DEF References
    <3>3. refcnt' = 0 /\ leaked' = 0
      BY <1>1, <2>5 DEF Mmap
    <3>4. \A q \in Procs \ {p} : pc'[q] \in Uncounting
      BY <2>1, <2>2
    <3> QED
      BY <3>2, <3>3, FS_EmptySet DEF RefInv
  <2> QED
    BY <2>4, <2>5
<1>2. ASSUME NEW p \in Procs, GetNamed(p) PROVE RefInv'
  <2>1. /\ maps' = maps /\ \A q \in Procs \ {p} : pc'[q] = pc[q] /\ req'[q] = req[q]
    BY <1>2 DEF GetNamed, TypeOK
  <2>2. /\ pc[p] = "get" /\ pc'[p] \in {"dup", "idle"}
        /\ pc'[p] = "dup" => ~req[p].create /\ req'[p] = req[p]
    BY <1>2 DEF GetNamed, TypeOK, ReqInv
  <2>3. \A q \in Procs : Counted(q)' = Counted(q)
    BY <2>1, <2>2 DEF Counted
  <2> QED
    BY <1>2, <2>1, <2>2, <2>3, RefKept DEF GetNamed
<1>3. ASSUME NEW p \in Procs, Dup(p) PROVE RefInv'
  <2>1. /\ maps' = maps /\ \A q \in Procs \ {p} : pc'[q] = pc[q] /\ req'[q] = req[q]
    BY <1>3 DEF Dup, TypeOK
  <2>2. /\ pc[p] = "dup" /\ pc'[p] \in {"alias", "idle"}
        /\ pc'[p] = "alias" => req'[p] = req[p]
    BY <1>3 DEF Dup, TypeOK
  <2>3. \A q \in Procs : Counted(q)' = Counted(q)
    BY <2>1, <2>2 DEF Counted
  <2> QED
    BY <1>3, <2>1, <2>2, <2>3, RefKept DEF Dup
<1>4. ASSUME NEW p \in Procs, Alias(p) PROVE RefInv'
  <2>1. /\ maps' = maps /\ \A q \in Procs \ {p} : pc'[q] = pc[q] /\ req'[q] = req[q]
    BY <1>4 DEF Alias, TypeOK
  <2>2. /\ pc[p] = "alias" /\ pc'[p] \in {"ref", "idle"}
        /\ pc'[p] = "ref" => req'[p] = req[p]
    BY <1>4 DEF Alias, TypeOK
  <2>3. \A q \in Procs : Counted(q)' = Counted(q)
    BY <2>1, <2>2 DEF Counted
  <2> QED
    BY <1>4, <2>1, <2>2, <2>3, RefKept DEF Alias
<1>5. ASSUME NEW p \in Procs, Ref(p) PROVE RefInv'
  <2>1. /\ pc[p] = "ref" /\ maps' = maps /\ leaked' = leaked
        /\ \A q \in Procs \ {p} : pc'[q] = pc[q] /\ req'[q] = req[q]
        /\ req'[p].m = req[p].m /\ req'[p].listed = req[p].listed
    BY <1>5 DEF Ref, TypeOK, Request
  <2>2. \A q \in Procs \ {p} : Counted(q)' = Counted(q)
    BY <2>1 DEF Counted
  <2>3. PICK m \in Mapping : req[p].m = {m}
    BY <2>1 DEF ReqInv
  <2>4. m \notin maps[p] /\ ~req[p].listed
    BY <2>1, <2>3 DEF ReqInv
  <2>5. CASE req[p].create
    <3>1. refcnt = 0 /\ refcnt' = 1 /\ pc'[p] = "malloc"
      BY <1>5, <2>1, <2>5 DEF Ref, RefInv, TypeOK
    <3>2. Counted(p) = maps[p] /\ Counted(p)' = maps[p] \cup {m}
      BY <2>1, <2>3, <2>4, <3>1 DEF Counted
    <3>3. IsFiniteSet(References') /\ Cardinality(References') = Cardinality(References) + 1
      BY <2>2, <2>4, <3>2, AddRef DEF RefInv
    <3>4. Cardinality(References) \in Nat /\ leaked \in Nat
      BY FS_CardinalityType DEF RefInv, TypeOK
    <3>5. refcnt' = leaked' + Cardinality(References')
      BY <2>1, <3>1, <3>3, <3>4 DEF RefInv
    <3>6. \A q \in Procs \ {p} : pc'[q] \in Uncounting
      BY <2>1 DEF CountInv
    <3> QED
      BY <3>1, <3>3, <3>5, <3>6 DEF RefInv
  <2>6. CASE ~req[p].create
    <3>1. refcnt' = refcnt /\ pc'[p] = "refstore"
      BY <1>5, <2>6 DEF Ref, TypeOK
    <3>2. Counted(p)' = Counted(p)
      BY <2>1, <3>1 DEF Counted
    <3> QED
      BY <2>1, <2>2, <3>1, <3>2, RefKept
  <2> QED
    BY <2>5, <2>6
<1>6. ASSUME NEW p \in Procs, RefStore(p) PROVE RefInv'
  <2>1. /\ pc[p] = "refstore" /\ pc'[p] = "malloc" /\ maps' = maps /\ req' = req
        /\ leaked' = leaked /\ \A q \in Procs \ {p} : pc'[q] = pc[q]
        /\ refcnt' = refcnt + 1
    BY <1>6 DEF RefStore, TypeOK, CountInv
  <2>2. PICK m \in Mapping : req[p].m = {m}
    BY <2>1 DEF ReqInv
  <2>3. m \notin maps[p] /\ ~req[p].listed
    BY <2>1, <2>2 DEF ReqInv
  <2>4. Counted(p) = maps[p] /\ Counted(p)' = maps[p] \cup {m}
    BY <2>1, <2>2, <2>3 DEF Counted
  <2>5. \A q \in Procs \ {p} : Counted(q)' = Counted(q)
    BY <2>1 DEF Counted
  <2>6. IsFiniteSet(References') /\ Cardinality(References') = Cardinality(References) + 1
    BY <2>3, <2>4, <2>5, AddRef DEF RefInv
  <2>7. Cardinality(References) \in Nat /\ leaked \in Nat
    BY FS_CardinalityType DEF RefInv, TypeOK
  <2>8. \A q \in Procs : pc'[q] \in Uncounting \cup {"malloc"}
    BY <2>1 DEF CountInv
  <2> QED
    BY <2>1, <2>6, <2>7, <2>8 DEF RefInv
<1>7. ASSUME NEW p \in Procs, Insert(p) PROVE RefInv'
  <2>1. PICK m \in Mapping : req[p].m = {m} /\ The(p) = m
    BY <1>7, TheMapping DEF Insert, ReqInv
  <2>2. /\ pc[p] = "malloc" /\ pc'[p] \in {"dec", "load", "protect"} /\ ~req[p].listed
        /\ \A q \in Procs \ {p} : pc'[q] = pc[q] /\ req'[q] = req[q] /\ maps'[q] = maps[q]
    BY <1>7 DEF Insert, TypeOK, ReqInv
  <2>3. Counted(p) = maps[p] \cup {m}
    BY <2>1, <2>2 DEF Counted
  <2>4. Counted(p)' = maps[p] \cup {m}
    <3>1. CASE pc'[p] = "dec"
      <4>1. req'[p] = req[p] /\ maps'[p] = maps[p]
        BY <1>7, <3>1 DEF Insert, TypeOK
      <4> QED
        BY <2>1, <2>2, <3>1, <4>1 DEF Counted
    <3>2. CASE pc'[p] \in {"load", "protect"}
      <4>1. maps'[p] = maps[p] \cup {m}
        BY <1>7, <2>1, <3>2 DEF Insert, TypeOK
      <4> QED
        BY <3>2, <4>1 DEF Counted
    <3> QED
      BY <2>2, <3>1, <3>2
  <2>5. \A q \in Procs : Counted(q)' = Counted(q)
    BY <2>2, <2>3, <2>4 DEF Counted
  <2> QED
    BY <1>7, <2>2, <2>5, RefKept DEF Insert
<1>8. ASSUME NEW p \in Procs, Load(p) PROVE RefInv'
  <2>1. /\ maps' = maps /\ \A q \in Procs \ {p} : pc'[q] = pc[q] /\ req'[q] = req[q]
    BY <1>8 DEF Load, TypeOK
  <2>2. /\ pc[p] = "load" /\ pc'[p] \in {"protect", "sync", "dec"}
        /\ req'[p] = req[p] /\ req[p].listed
    BY <1>8, UnmapGoes DEF Load, TypeOK, ReqInv
  <2>3. \A q \in Procs : Counted(q)' = Counted(q)
    BY <2>1, <2>2 DEF Counted
  <2> QED
    BY <1>8, <2>1, <2>2, <2>3, RefKept DEF Load
<1>9. ASSUME NEW p \in Procs, Protect(p) PROVE RefInv'
  <2>1. PICK m \in maps[p] : req[p].m = {m} /\ The(p) = m
    BY <1>9, TheMapping DEF Protect, ReqInv
  <2>2. /\ pc[p] = "protect" /\ pc'[p] \in {"idle", "sync", "dec"} /\ req[p].listed
        /\ pc'[p] = "idle" \/ req'[p] = req[p]
        /\ refcnt' = refcnt /\ leaked' = leaked
        /\ \A q \in Procs \ {p} : pc'[q] = pc[q] /\ req'[q] = req[q] /\ maps'[q] = maps[q]
    BY <1>9, UnmapGoes DEF Protect, TypeOK, ReqInv
  <2>3. Counted(p) = maps[p] /\ Counted(p)' = maps'[p]
    BY <2>2 DEF Counted
  <2>4. \A q \in Procs \ {p} : Counted(q)' = Counted(q)
    BY <2>2 DEF Counted
  <2>5. CASE maps'[p] = maps[p]
    BY <2>2, <2>3, <2>4, <2>5, RefKept
  <2>6. CASE maps'[p] = Protected(p, m, m.prot)
    <3>1. m.prot \in BOOLEAN
      BY DEF TypeOK, Mapping
    <3>2. PICK n \in Mapping : n.addr = m.addr /\ maps'[p] = (maps[p] \ {m}) \cup {n}
      BY <2>6, <3>1, Reprotected
    <3>3. n \notin maps[p] \ {m}
      BY <3>2 DEF MapsInv, MapsOK
    <3>4. IsFiniteSet(References') /\ Cardinality(References') = Cardinality(References)
      BY <2>3, <2>4, <3>2, <3>3, SwapRef DEF RefInv
    <3> QED
      BY <2>2, <3>4 DEF RefInv
  <2> QED
    BY <1>9, <2>1, <2>5, <2>6 DEF Protect, TypeOK
<1>10. ASSUME NEW p \in Procs, NEW m \in maps[p], Munmap(p, m) PROVE RefInv'
  <2>1. /\ maps' = maps /\ \A q \in Procs \ {p} : pc'[q] = pc[q] /\ req'[q] = req[q]
    BY <1>10 DEF Munmap, TypeOK
  <2>2. /\ pc[p] = "idle" /\ pc'[p] \in {"sync", "dec"} /\ req'[p].listed
    BY <1>10, UnmapGoes, Alone DEF Munmap, TypeOK
  <2>3. \A q \in Procs : Counted(q)' = Counted(q)
    BY <2>1, <2>2 DEF Counted
  <2> QED
    BY <1>10, <2>1, <2>2, <2>3, RefKept DEF Munmap
<1>11. ASSUME NEW p \in Procs, Sync(p) PROVE RefInv'
  <2>1. /\ maps' = maps /\ \A q \in Procs \ {p} : pc'[q] = pc[q] /\ req'[q] = req[q]
    BY <1>11 DEF Sync, TypeOK
  <2>2. /\ pc[p] = "sync" /\ req[p].listed /\ pc'[p] \in {"dec", "idle"}
        /\ pc'[p] = "dec" => req'[p] = req[p]
    BY <1>11 DEF Sync, TypeOK, ReqInv
  <2>3. \A q \in Procs : Counted(q)' = Counted(q)
    BY <2>1, <2>2 DEF Counted
  <2> QED
    BY <1>11, <2>1, <2>2, <2>3, RefKept DEF Sync
<1>12. ASSUME NEW p \in Procs, Dec(p) PROVE RefInv'
  <2>1. /\ maps' = maps /\ \A q \in Procs \ {p} : pc'[q] = pc[q] /\ req'[q] = req[q]
    BY <1>12 DEF Dec, TypeOK
  <2>2. /\ pc[p] = "dec" /\ pc'[p] = "decstore"
        /\ req'[p].m = req[p].m /\ req'[p].listed = req[p].listed
    BY <1>12 DEF Dec, TypeOK, Request
  <2>3. \A q \in Procs : Counted(q)' = Counted(q)
    BY <2>1, <2>2 DEF Counted
  <2> QED
    BY <1>12, <2>1, <2>2, <2>3, RefKept DEF Dec
<1>13. ASSUME NEW p \in Procs, DecStore(p) PROVE RefInv'
  <2>1. /\ pc[p] = "decstore" /\ pc'[p] \in {"drop", "idle"} /\ leaked' = leaked
        /\ maps'[p] = maps[p] \ req[p].m
        /\ \A q \in Procs \ {p} : pc'[q] = pc[q] /\ req'[q] = req[q] /\ maps'[q] = maps[q]
    BY <1>13 DEF DecStore, TypeOK
  <2>2. refcnt' = refcnt - 1 /\ refcnt \in Nat \ {0}
    BY <1>13, DecCounts DEF DecStore
  <2>3. PICK m \in Mapping : req[p].m = {m}
    BY <2>1 DEF ReqInv
  <2>4. m \in Counted(p) /\ Counted(p)' = Counted(p) \ {m}
    BY <2>1, <2>3 DEF Counted, ReqInv
  <2>5. \A q \in Procs \ {p} : Counted(q)' = Counted(q)
    BY <2>1 DEF Counted
  <2>6. IsFiniteSet(References') /\ Cardinality(References') = Cardinality(References) - 1
    BY <2>4, <2>5, RemoveRef DEF RefInv
  <2>7. Cardinality(References) \in Nat /\ leaked \in Nat
    BY FS_CardinalityType DEF RefInv, TypeOK
  <2>8. \A q \in Procs : pc'[q] \in Uncounting \cup {"drop"}
    BY <2>1 DEF CountInv
  <2> QED
    BY <2>1, <2>2, <2>6, <2>7, <2>8 DEF RefInv
<1>14. ASSUME NEW p \in Procs, Drop(p) PROVE RefInv'
  <2>1. /\ maps' = maps /\ \A q \in Procs \ {p} : pc'[q] = pc[q] /\ req'[q] = req[q]
    BY <1>14 DEF Drop, TypeOK
  <2>2. pc[p] = "drop" /\ pc'[p] = "idle"
    BY <1>14 DEF Drop, TypeOK
  <2>3. \A q \in Procs : Counted(q)' = Counted(q)
    BY <2>1, <2>2 DEF Counted
  <2> QED
    BY <1>14, <2>1, <2>2, <2>3, RefKept DEF Drop
<1>15. ASSUME NEW p \in Procs, NEW m \in maps[p], NEW w \in BOOLEAN, Mprotect(p,
      m, w) PROVE RefInv'
  <2>1. /\ pc[p] = "idle" /\ pc' = pc /\ req' = req /\ refcnt' = refcnt /\ leaked' = leaked
        /\ maps'[p] = Protected(p, m, w) /\ \A q \in Procs \ {p} : maps'[q] = maps[q]
    BY <1>15 DEF Mprotect, Idle, TypeOK
  <2>2. PICK n \in Mapping : n.addr = m.addr /\ maps'[p] = (maps[p] \ {m}) \cup {n}
    BY <2>1, Reprotected
  <2>3. n \notin maps[p] \ {m}
    BY <2>2 DEF MapsInv, MapsOK
  <2>4. /\ Counted(p) = maps[p] /\ Counted(p)' = maps'[p]
        /\ \A q \in Procs \ {p} : Counted(q)' = Counted(q)
    BY <2>1 DEF Counted
  <2>5. IsFiniteSet(References') /\ Cardinality(References') = Cardinality(References)
    BY <2>2, <2>3, <2>4, SwapRef DEF RefInv
  <2> QED
    BY <2>1, <2>5 DEF RefInv
<1>16. ASSUME NEW p \in Procs, NEW m \in maps[p], NEW f \in SUBSET MsyncFlags,
      Msync(p, m, f) PROVE RefInv'
  <2>1. /\ maps' = maps /\ \A q \in Procs \ {p} : pc'[q] = pc[q] /\ req'[q] = req[q]
    BY <1>16 DEF Msync, TypeOK
  <2>2. pc[p] = "idle" /\ pc'[p] = "flush"
    BY <1>16 DEF Msync, TypeOK, Idle
  <2>3. \A q \in Procs : Counted(q)' = Counted(q)
    BY <2>1, <2>2 DEF Counted
  <2> QED
    BY <1>16, <2>1, <2>2, <2>3, RefKept DEF Msync
<1>17. ASSUME NEW p \in Procs, Flush(p) PROVE RefInv'
  <2>1. /\ maps' = maps /\ \A q \in Procs \ {p} : pc'[q] = pc[q] /\ req'[q] = req[q]
    BY <1>17 DEF Flush, TypeOK
  <2>2. pc[p] = "flush" /\ pc'[p] \in {"idle", "reread"}
    BY <1>17 DEF Flush, TypeOK
  <2>3. \A q \in Procs : Counted(q)' = Counted(q)
    BY <2>1, <2>2 DEF Counted
  <2> QED
    BY <1>17, <2>1, <2>2, <2>3, RefKept DEF Flush
<1>18. ASSUME NEW p \in Procs, Reread(p) PROVE RefInv'
  <2>1. /\ maps' = maps /\ \A q \in Procs \ {p} : pc'[q] = pc[q] /\ req'[q] = req[q]
    BY <1>18 DEF Reread, TypeOK
  <2>2. pc[p] = "reread" /\ pc'[p] = "idle"
    BY <1>18 DEF Reread, TypeOK
  <2>3. \A q \in Procs : Counted(q)' = Counted(q)
    BY <2>1, <2>2 DEF Counted
  <2> QED
    BY <1>18, <2>1, <2>2, <2>3, RefKept DEF Reread
<1>19. ASSUME NEW p \in Procs, NEW m \in maps[p], NEW g \in Pages, Store(p, m,
      g) PROVE RefInv'
  BY <1>19, SameRefs DEF Store, RefInv, Counted
<1>20. ASSUME NEW g \in Pages, ExtWrite(g) PROVE RefInv'
  BY <1>20, SameRefs DEF ExtWrite, RefInv, Counted
<1>21. ASSUME NEW p \in Procs, Start(p) PROVE RefInv'
  BY <1>21, SameRefs DEF Start, RefInv, Counted
<1>22. ASSUME NEW p \in Procs, NEW c \in Procs, Fork(p, c) PROVE RefInv'
  <2>1. PICK ok \in BOOLEAN, got \in SUBSET maps[p] : ForkWith(p, c, ok, got)
    BY <1>22, ForkPick
  <2>2. /\ maps[c] = {} /\ pc[c] = "idle" /\ pc' = pc /\ req' = req
        /\ refcnt' = refcnt + Cardinality(got)
    BY <1>22, <2>1 DEF Fork, ForkWith, ReqInv, MapsInv
  <2>3. Cardinality(got) \in Nat /\ Cardinality(References) \in Nat /\ leaked \in Nat
    BY FS_Subset, FS_CardinalityType DEF MapsInv, MapsOK, RefInv, TypeOK
  <2>4. IsFiniteSet(References') /\ refcnt' = leaked' + Cardinality(References')
    <3>1. CASE ~ok
      <4>1. \A q \in Procs : Counted(q)' = Counted(q)
        BY <2>1, <2>2, <3>1 DEF ForkWith, Counted
      <4> QED
        BY <2>1, <2>2, <2>3, <3>1, <4>1, SameRefs DEF ForkWith, RefInv
    <3>2. CASE ok
      <4> DEFINE new == {[m EXCEPT !.page = m.prot] : m \in got}
      <4>1. IsFiniteSet(new) /\ Cardinality(new) = Cardinality(got)
        BY Inherited DEF MapsOK
      <4>2. maps'[c] = new /\ leaked' = leaked /\ \A q \in Procs \ {c} : maps'[q] = maps[q]
        BY <2>1, <3>2 DEF ForkWith, TypeOK
      <4> HIDE DEF new
      <4>3. Counted(c) = {} /\ Counted(c)' = new /\ \A q \in Procs \ {c} : Counted(q)' = Counted(q)
        BY <2>2, <4>2 DEF Counted
      <4>4. /\ IsFiniteSet(References')
            /\ Cardinality(References') = Cardinality(References) + Cardinality(new)
        BY <4>1, <4>3, GainRefs DEF RefInv
      <4> QED
        BY <2>2, <2>3, <4>1, <4>2, <4>4 DEF RefInv
    <3> QED
      BY <3>1, <3>2
  <2>5. \A q \in Procs : pc'[q] \in Uncounting
    BY <1>22, <2>2, Alone DEF Fork
  <2> QED
    BY <2>4, <2>5 DEF RefInv
<1>23. ASSUME NEW p \in Procs, Exit(p) PROVE RefInv'
  <2>1. /\ maps'[p] = {} /\ pc'[p] = "idle" /\ refcnt' = refcnt
        /\ leaked' = leaked + Cardinality(Counted(p))
        /\ \A q \in Procs \ {p} : maps'[q] = maps[q] /\ pc'[q] = pc[q] /\ req'[q] = req[q]
    BY <1>23 DEF Exit, TypeOK
  <2>2. Counted(p)' = {} /\ \A q \in Procs \ {p} : Counted(q)' = Counted(q)
    BY <2>1 DEF Counted
  <2>3. IsFiniteSet(Counted(p)) /\ Cardinality(Counted(p)) \in Nat /\ leaked \in Nat
    BY CountedFinite, FS_CardinalityType DEF TypeOK
  <2>4. /\ IsFiniteSet(References') /\ Cardinality(References') \in Nat
        /\ Cardinality(References) = Cardinality(References') + Cardinality(Counted(p))
    BY <2>2, <2>3, LoseRefs DEF RefInv
  <2> QED
    BY <2>1, <2>3, <2>4 DEF RefInv
<1>24. CASE UNCHANGED vars
  BY <1>24, SameRefs DEF vars, RefInv, Counted
<1> QED
  BY <1>1, <1>2, <1>3, <1>4, <1>5, <1>6, <1>7, <1>8, <1>9, <1>10, <1>11,
     <1>12, <1>13, <1>14, <1>15, <1>16, <1>17, <1>18, <1>19, <1>20, <1>21,
     <1>22, <1>23, <1>24 DEF Next, Step


-----------------------------------------------------------------------------

(***************************************************************************)
(* What the file and the object contain.                                   *)
(***************************************************************************)

\* Calls that do not fail.
LEMMA ReliableCalls ==
  ASSUME FileReliable
  PROVE  /\ Outcomes("read") = {TRUE} /\ Outcomes("seek") = {TRUE}
         /\ \A ok \in Outcomes("read") : \A v : Reads(ok, v) = {v}
         /\ \A ok \in Outcomes("seek") : \A v : Writes(ok, v) = {v}
         /\ "extwrite" \notin Faults /\ "upgrade" \notin Faults
BY DEF FileReliable, Outcomes, Reads, Writes

\* Nobody fills the object while no process works on the count, and the only
\* one that can is the one that does.
LEMMA NobodyFills ==
  ASSUME NEW p \in Procs, pc[p] \in Uncounting
  PROVE  ~Fills(p)
BY DEF Fills

LEMMA OnlyOneFills ==
  ASSUME CountInv, NEW p \in Procs, pc[p] \notin Uncounting
  PROVE  \A q \in Procs \ {p} : pc[q] \in Uncounting /\ ~Fills(q)
BY NobodyFills DEF CountInv

\* Who has a mapping found the object filled.
LEMMA UserLoaded ==
  ASSUME TypeOK, MapsInv, FillInv, CurrentInv, NEW p \in Procs, maps[p] # {}, ~Fills(p)
  PROVE  /\ Exists /\ \A q \in Procs : ~Fills(q)
         /\ \A g \in Pages : mem[g] >= file[g]
<1>1. attach[p] > 0
  BY DEF MapsInv
<1>2. \A q \in Procs : ~Fills(q)
  BY <1>1 DEF FillInv
<1> QED
  BY <1>1, <1>2 DEF Exists, CurrentInv

\* The creator that gives the object up is the only one that counted.
LEMMA CreatorCounts ==
  ASSUME TypeOK, CountInv, ReqInv, MapsInv, RefInv, FillInv, NEW p \in Procs,
         Fills(p), pc[p] = "decstore"
  PROVE  req[p].seen = 1
<1>1. PICK m \in Mapping : req[p].m = {m}
  BY DEF ReqInv
<1>2. Counted(p) = {m}
  BY <1>1 DEF Fills, FillInv, Counted
<1>3. \A q \in Procs \ {p} : Counted(q) = {}
  <2>1. \A q \in Procs \ {p} : pc[q] \in Uncounting /\ maps[q] = {}
    BY OnlyOneFills DEF FillInv, MapsInv
  <2> QED
    BY <2>1 DEF Counted
<1>4. References = {<<p, m>>}
  BY <1>2, <1>3 DEF References
<1>5. Cardinality(References) = 1
  BY <1>4, FS_Singleton
<1> QED
  BY <1>5 DEF RefInv, CountInv, FillInv

\* The creator has the object for itself: whoever else wants it starts when the
\* creator has filled it or given it up.
LEMMA FillStep ==
  ASSUME Serialized, FileReliable, TypeOK, CountInv, ReqInv, MapsInv, RefInv,
         FillInv, CurrentInv, [Next]_vars
  PROVE  FillInv'
<1>1. ASSUME NEW p \in Procs, NEW a \in Addrs, NEW v \in Views, NEW w \in
      BOOLEAN, Mmap(p, a, v, w) PROVE FillInv'
  <2>1. \A q \in Procs : pc[q] \in Uncounting
    BY <1>1, Alone DEF Mmap
  <2>2. \A q \in Procs \ {p} : ~Fills(q)'
    BY <1>1, <2>1 DEF Mmap, TypeOK, Fills
  <2>3. CASE Exists
    BY <1>1, <2>2, <2>3 DEF Mmap, TypeOK, Fills, FillInv
  <2>4. CASE ~Exists
    <3>1. \A q \in Procs : attach[q] = 0 /\ maps[q] = {}
      BY <2>4 DEF Exists, TypeOK, MapsInv
    <3>2. /\ attach'[p] = 1 /\ \A q \in Procs \ {p} : attach'[q] = 0
          /\ leaked' = 0 /\ maps' = maps /\ \A g \in Pages : mem'[g] = 0
      BY <1>1, <2>4, <3>1 DEF Mmap, TypeOK
    <3> QED
      BY <2>2, <3>1, <3>2 DEF FillInv
  <2> QED
    BY <2>3, <2>4
<1>2. ASSUME NEW p \in Procs, GetNamed(p) PROVE FillInv'
  <2>1. pc[p] = "get" /\ ~req[p].create
    BY <1>2 DEF GetNamed, ReqInv
  <2>2. \A q \in Procs : ~Fills(q)'
    BY <1>2, <2>1, OnlyOneFills DEF GetNamed, TypeOK, Fills
  <2> QED
    BY <2>2 DEF FillInv
<1>3. ASSUME NEW p \in Procs, Dup(p) PROVE FillInv'
  BY <1>3, OnlyOneFills DEF Dup, TypeOK, Fills, FillInv
<1>4. ASSUME NEW p \in Procs, Alias(p) PROVE FillInv'
  BY <1>4, OnlyOneFills DEF Alias, TypeOK, Fills, FillInv
<1>5. ASSUME NEW p \in Procs, Ref(p) PROVE FillInv'
  BY <1>5, OnlyOneFills DEF Ref, Request, TypeOK, Fills, FillInv
<1>6. ASSUME NEW p \in Procs, RefStore(p) PROVE FillInv'
  BY <1>6, OnlyOneFills DEF RefStore, TypeOK, Fills, FillInv
<1>7. ASSUME NEW p \in Procs, Insert(p) PROVE FillInv'
  <2>1. pc[p] = "malloc" /\ attach' = attach /\ leaked' = leaked /\ mem' = mem
    BY <1>7 DEF Insert
  <2>2. \A q \in Procs \ {p} : ~Fills(q)'
    BY <1>7, <2>1, OnlyOneFills DEF Insert, TypeOK, Fills
  <2>3. /\ Fills(p)' => Fills(p)
        /\ pc'[p] # "load" => maps'[p] = maps[p] \/ ~Fills(p)'
    BY <1>7 DEF Insert, TypeOK, Fills, Request
  <2> QED
    BY <2>1, <2>2, <2>3 DEF FillInv
<1>8. ASSUME NEW p \in Procs, Load(p) PROVE FillInv'
  <2>1. pc[p] = "load" /\ pc'[p] = "protect"
        /\ \A q \in Procs \ {p} : pc'[q] = pc[q] /\ req'[q] = req[q]
    BY <1>8, ReliableCalls DEF Load, TypeOK
  <2>2. \A q \in Procs : ~Fills(q)'
    BY <2>1, OnlyOneFills DEF Fills
  <2> QED
    BY <2>2 DEF FillInv
<1>9. ASSUME NEW p \in Procs, Protect(p) PROVE FillInv'
  <2>1. pc[p] = "protect" /\ req[p].listed
    BY <1>9 DEF Protect, ReqInv
  <2>2. req' = req \/ req' = [req EXCEPT ![p] = NoReq]
    BY <1>9 DEF Protect
  <2>3. PICK l \in {"idle", "sync", "dec"} : Goto(p, l)
    BY <1>9, UnmapGoes DEF Protect, Done
  <2>4. /\ req'[p] = req[p] \/ req'[p] = NoReq
        /\ pc'[p] \in {"idle", "sync", "dec"}
        /\ \A q \in Procs \ {p} : pc'[q] = pc[q] /\ req'[q] = req[q]
    BY <2>2, <2>3 DEF TypeOK, Goto
  <2>5. \A q \in Procs : ~Fills(q)'
    BY <2>1, <2>4, OnlyOneFills DEF Fills, NoReq
  <2> QED
    BY <2>5 DEF FillInv
<1>10. ASSUME NEW p \in Procs, NEW m \in maps[p], Munmap(p, m) PROVE FillInv'
  BY <1>10, Alone, NobodyFills DEF Munmap, TypeOK, Fills, FillInv
<1>11. ASSUME NEW p \in Procs, Sync(p) PROVE FillInv'
  <2>1. pc[p] = "sync" /\ req[p].listed
    BY <1>11 DEF Sync, ReqInv
  <2>2. req' = req \/ req' = [req EXCEPT ![p] = NoReq]
    BY <1>11 DEF Sync
  <2>3. Goto(p, "idle") \/ Goto(p, "dec")
    BY <1>11 DEF Sync, Done
  <2>4. /\ req'[p] = req[p] \/ req'[p] = NoReq
        /\ pc'[p] \in {"idle", "dec"}
        /\ \A q \in Procs \ {p} : pc'[q] = pc[q] /\ req'[q] = req[q]
    BY <2>2, <2>3 DEF TypeOK, Goto
  <2>5. \A q \in Procs : ~Fills(q)'
    BY <2>1, <2>4, OnlyOneFills DEF Fills, NoReq
  <2> QED
    BY <2>5 DEF FillInv
<1>12. ASSUME NEW p \in Procs, Dec(p) PROVE FillInv'
  BY <1>12, OnlyOneFills DEF Dec, Request, TypeOK, Fills, FillInv
<1>13. ASSUME NEW p \in Procs, DecStore(p) PROVE FillInv'
  BY <1>13, OnlyOneFills DEF DecStore, TypeOK, Fills, FillInv
<1>14. ASSUME NEW p \in Procs, Drop(p) PROVE FillInv'
  BY <1>14, OnlyOneFills DEF Drop, TypeOK, Fills, FillInv
<1>15. ASSUME NEW p \in Procs, NEW m \in maps[p], NEW w \in BOOLEAN, Mprotect(p,
      m, w) PROVE FillInv'
  BY <1>15 DEF Mprotect, TypeOK, Fills, FillInv
<1>16. ASSUME NEW p \in Procs, NEW m \in maps[p], NEW f \in SUBSET MsyncFlags,
      Msync(p, m, f) PROVE FillInv'
  BY <1>16 DEF Msync, Idle, TypeOK, Fills, FillInv
<1>17. ASSUME NEW p \in Procs, Flush(p) PROVE FillInv'
  BY <1>17 DEF Flush, TypeOK, Fills, FillInv
<1>18. ASSUME NEW p \in Procs, Reread(p) PROVE FillInv'
  <2>1. maps[p] # {} /\ ~Fills(p)
    BY <1>18 DEF Reread, Fills, ReqInv
  <2>2. \A q \in Procs : ~Fills(q)
    BY <2>1, UserLoaded
  <2> QED
    BY <1>18, <2>2 DEF Reread, TypeOK, Fills, FillInv
<1>19. ASSUME NEW p \in Procs, NEW m \in maps[p], NEW g \in Pages, Store(p, m,
      g) PROVE FillInv'
  <2>1. maps[p] # {} /\ ~Fills(p)
    BY <1>19 DEF Store, Idle, Fills
  <2>2. \A q \in Procs : ~Fills(q)
    BY <2>1, UserLoaded
  <2> QED
    BY <1>19, <2>2 DEF Store, Fills, FillInv
<1>20. ASSUME NEW g \in Pages, ExtWrite(g) PROVE FillInv'
  BY <1>20, ReliableCalls DEF ExtWrite, TypeOK, Fills, FillInv
<1>21. ASSUME NEW p \in Procs, Start(p) PROVE FillInv'
  BY <1>21 DEF Start, TypeOK, Fills, FillInv
<1>22. ASSUME NEW p \in Procs, NEW c \in Procs, Fork(p, c) PROVE FillInv'
  <2>1. \A q \in Procs : pc[q] \in Uncounting
    BY <1>22, Alone DEF Fork
  <2>2. pc' = pc
    BY <1>22 DEF Fork
  <2>3. \A q \in Procs : ~Fills(q)'
    BY <2>1, <2>2 DEF Fills
  <2> QED
    BY <2>3 DEF FillInv
<1>23. ASSUME NEW p \in Procs, Exit(p) PROVE FillInv'
  <2>1. /\ pc'[p] = "idle" /\ attach'[p] = 0 /\ mem' = mem
        /\ leaked' = leaked + Cardinality(Counted(p))
        /\ \A q \in Procs \ {p} : /\ pc'[q] = pc[q] /\ req'[q] = req[q]
                                  /\ attach'[q] = attach[q] /\ maps'[q] = maps[q]
    BY <1>23 DEF Exit, TypeOK
  <2>2. ASSUME NEW q \in Procs, Fills(q)' PROVE q # p /\ Fills(q) /\ leaked' = 0
    <3>1. q # p
      BY <2>1, <2>2 DEF Fills
    <3>2. Fills(q)
      BY <2>1, <2>2, <3>1 DEF Fills
    <3>3. pc[p] \in Uncounting /\ maps[p] = {}
      BY <3>1, <3>2, NobodyFills, OnlyOneFills DEF FillInv, MapsInv
    <3>4. Counted(p) = {}
      BY <3>3 DEF Counted
    <3> QED
      BY <2>1, <3>1, <3>2, <3>4, FS_EmptySet DEF FillInv
  <2> QED
    BY <2>1, <2>2 DEF FillInv
<1>24. CASE UNCHANGED vars
  BY <1>24 DEF vars, TypeOK, Fills, FillInv
<1> QED
  BY <1>1, <1>2, <1>3, <1>4, <1>5, <1>6, <1>7, <1>8, <1>9, <1>10, <1>11,
     <1>12, <1>13, <1>14, <1>15, <1>16, <1>17, <1>18, <1>19, <1>20, <1>21,
     <1>22, <1>23, <1>24 DEF Next, Step

\* The object is never older than the file once it is filled: what is read is the
\* file, what is written is the object.
LEMMA CurrentStep ==
  ASSUME Serialized, FileReliable, TypeOK, CountInv, ReqInv, MapsInv, RefInv,
         FillInv, CurrentInv, [Next]_vars
  PROVE  CurrentInv'
<1>1. ASSUME NEW p \in Procs, NEW a \in Addrs, NEW v \in Views, NEW w \in
      BOOLEAN, Mmap(p, a, v, w) PROVE CurrentInv'
  <2>1. \A q \in Procs : ~Fills(q)
    BY <1>1, Alone, NobodyFills DEF Mmap
  <2>2. CASE Exists
    BY <1>1, <2>1, <2>2 DEF Mmap, Exists, CurrentInv
  <2>3. CASE ~Exists
    <3>1. Fills(p)'
      BY <1>1, <2>3 DEF Mmap, TypeOK, Fills
    <3>2. \A g \in Pages : mem'[g] <= clock /\ clock' = clock /\ file' = file
      BY <1>1, <2>3 DEF Mmap, TypeOK
    <3> QED
      BY <3>1, <3>2 DEF CurrentInv
  <2> QED
    BY <2>2, <2>3
<1>2. ASSUME NEW p \in Procs, GetNamed(p) PROVE CurrentInv'
  <2>1. \A q \in Procs : ~Fills(q)
    BY <1>2, OnlyOneFills DEF GetNamed, Fills
  <2> QED
    BY <1>2, <2>1 DEF GetNamed, Exists, CurrentInv
<1>3. ASSUME NEW p \in Procs, Dup(p) PROVE CurrentInv'
  <2>1. \A q \in Procs \ {p} : ~Fills(q)
    BY <1>3, OnlyOneFills DEF Dup
  <2>2. mem' = mem /\ file' = file /\ clock' = clock
    BY <1>3 DEF Dup
  <2>3. CASE attach' = attach
    BY <1>3, <2>1, <2>2, <2>3 DEF Dup, TypeOK, Fills, Exists, CurrentInv
  <2>4. CASE attach' = [attach EXCEPT ![p] = @ - 1]
    BY <1>3, <2>1, <2>2, <2>4 DEF Dup, TypeOK, Fills, Exists, FillInv, CurrentInv
  <2> QED
    BY <1>3, <2>3, <2>4 DEF Dup
<1>4. ASSUME NEW p \in Procs, Alias(p) PROVE CurrentInv'
  <2>1. \A q \in Procs \ {p} : ~Fills(q)
    BY <1>4, OnlyOneFills DEF Alias
  <2>2. mem' = mem /\ file' = file /\ clock' = clock
    BY <1>4 DEF Alias
  <2>3. CASE attach' = attach
    BY <1>4, <2>1, <2>2, <2>3 DEF Alias, TypeOK, Fills, Exists, CurrentInv
  <2>4. CASE attach' = [attach EXCEPT ![p] = @ - 1]
    BY <1>4, <2>1, <2>2, <2>4 DEF Alias, TypeOK, Fills, Exists, FillInv, CurrentInv
  <2> QED
    BY <1>4, <2>3, <2>4 DEF Alias
<1>5. ASSUME NEW p \in Procs, Ref(p) PROVE CurrentInv'
  BY <1>5, OnlyOneFills DEF Ref, Request, TypeOK, Fills, Exists, CurrentInv
<1>6. ASSUME NEW p \in Procs, RefStore(p) PROVE CurrentInv'
  BY <1>6, OnlyOneFills DEF RefStore, TypeOK, Fills, Exists, CurrentInv
<1>7. ASSUME NEW p \in Procs, Insert(p) PROVE CurrentInv'
  <2>1. /\ pc[p] = "malloc" /\ attach' = attach /\ mem' = mem
        /\ file' = file /\ clock' = clock
    BY <1>7 DEF Insert
  <2>2. \A q \in Procs \ {p} : ~Fills(q)
    BY <2>1, OnlyOneFills
  <2>3. Fills(p) => Fills(p)'
    BY <1>7, <2>1 DEF Insert, TypeOK, Fills, Request, ReqInv
  <2> QED
    BY <2>1, <2>2, <2>3 DEF Exists, CurrentInv
<1>8. ASSUME NEW p \in Procs, Load(p) PROVE CurrentInv'
  <2>1. file' = file /\ clock' = clock
    BY <1>8 DEF Load
  <2>2. PICK ok \in Outcomes("read") : \E got \in Reads(ok, Pages) : mem' = Filled(got)
    BY <1>8 DEF Load
  <2>3. Reads(ok, Pages) = {Pages}
    BY <2>2, ReliableCalls
  <2>4. mem' = Filled(Pages)
    BY <2>2, <2>3
  <2>5. \A g \in Pages : mem'[g] = file[g]
    BY <2>4 DEF Filled
  <2> QED
    BY <2>1, <2>5 DEF CurrentInv, TypeOK
<1>9. ASSUME NEW p \in Procs, Protect(p) PROVE CurrentInv'
  BY <1>9, OnlyOneFills DEF Protect, ReqInv, TypeOK, Fills, Exists, CurrentInv
<1>10. ASSUME NEW p \in Procs, NEW m \in maps[p], Munmap(p, m) PROVE CurrentInv'
  BY <1>10, Alone, NobodyFills DEF Munmap, TypeOK, Fills, Exists, CurrentInv
<1>11. ASSUME NEW p \in Procs, Sync(p) PROVE CurrentInv'
  <2>1. ~Fills(p) /\ maps[p] # {}
    BY <1>11 DEF Sync, Fills, ReqInv
  <2>2. \A g \in Pages : mem[g] >= file[g]
    BY <2>1, UserLoaded
  <2>3. \A g \in Pages : file'[g] \in {file[g], mem[g]}
    BY <1>11 DEF Sync, Written
  <2> QED
    BY <1>11, <2>2, <2>3 DEF Sync, CurrentInv, TypeOK
<1>12. ASSUME NEW p \in Procs, Dec(p) PROVE CurrentInv'
  BY <1>12, OnlyOneFills DEF Dec, Request, TypeOK, Fills, Exists, CurrentInv
<1>13. ASSUME NEW p \in Procs, DecStore(p) PROVE CurrentInv'
  <2>1. \A q \in Procs \ {p} : ~Fills(q)
    BY <1>13, OnlyOneFills DEF DecStore
  <2>2. Fills(p) => Fills(p)'
    BY <1>13, CreatorCounts DEF DecStore, TypeOK, Fills
  <2> QED
    BY <1>13, <2>1, <2>2 DEF DecStore, Exists, CurrentInv
<1>14. ASSUME NEW p \in Procs, Drop(p) PROVE CurrentInv'
  BY <1>14, OnlyOneFills DEF Drop, FillInv, TypeOK, Fills, Exists, CurrentInv
<1>15. ASSUME NEW p \in Procs, NEW m \in maps[p], NEW w \in BOOLEAN, Mprotect(p,
      m, w) PROVE CurrentInv'
  BY <1>15 DEF Mprotect, TypeOK, Fills, Exists, CurrentInv
<1>16. ASSUME NEW p \in Procs, NEW m \in maps[p], NEW f \in SUBSET MsyncFlags,
      Msync(p, m, f) PROVE CurrentInv'
  BY <1>16 DEF Msync, Idle, TypeOK, Fills, Exists, CurrentInv
<1>17. ASSUME NEW p \in Procs, Flush(p) PROVE CurrentInv'
  <2>1. ~Fills(p) /\ maps[p] # {}
    BY <1>17 DEF Flush, Fills, ReqInv
  <2>2. \A g \in Pages : mem[g] >= file[g]
    BY <2>1, UserLoaded
  <2>3. \A g \in Pages : file'[g] \in {file[g], mem[g]}
    BY <1>17 DEF Flush, Written
  <2> QED
    BY <1>17, <2>2, <2>3 DEF Flush, CurrentInv, TypeOK
<1>18. ASSUME NEW p \in Procs, Reread(p) PROVE CurrentInv'
  <2>1. file' = file /\ clock' = clock
    BY <1>18 DEF Reread
  <2>2. PICK ok \in Outcomes("read") : \E got \in Reads(ok, Pages) : mem' = Filled(got)
    BY <1>18 DEF Reread
  <2>3. Reads(ok, Pages) = {Pages}
    BY <2>2, ReliableCalls
  <2>4. mem' = Filled(Pages)
    BY <2>2, <2>3
  <2>5. \A g \in Pages : mem'[g] = file[g]
    BY <2>4 DEF Filled
  <2> QED
    BY <2>1, <2>5 DEF CurrentInv, TypeOK
<1>19. ASSUME NEW p \in Procs, NEW m \in maps[p], NEW g \in Pages, Store(p, m,
      g) PROVE CurrentInv'
  <2>1. ~Fills(p) /\ maps[p] # {}
    BY <1>19 DEF Store, Idle, Fills
  <2>2. \A h \in Pages : mem[h] >= file[h]
    BY <2>1, UserLoaded
  <2> QED
    BY <1>19, <2>2 DEF Store, CurrentInv, TypeOK
<1>20. ASSUME NEW g \in Pages, ExtWrite(g) PROVE CurrentInv'
  BY <1>20, ReliableCalls DEF ExtWrite, TypeOK, Fills, Exists, CurrentInv
<1>21. ASSUME NEW p \in Procs, Start(p) PROVE CurrentInv'
  BY <1>21 DEF Start, TypeOK, Fills, Exists, CurrentInv
<1>22. ASSUME NEW p \in Procs, NEW c \in Procs, Fork(p, c) PROVE CurrentInv'
  <2>1. PICK ok \in BOOLEAN, got \in SUBSET maps[p] : ForkWith(p, c, ok, got)
    BY <1>22, ForkPick
  <2>2. \A q \in Procs : ~Fills(q)
    BY <1>22, Alone, NobodyFills DEF Fork
  <2>3. mem' = mem /\ file' = file /\ clock' = clock
    BY <2>1 DEF ForkWith
  <2>4. Exists' => Exists
    <3>1. CASE got = {}
      BY <2>1, <3>1, FS_EmptySet DEF ForkWith, TypeOK, Exists
    <3>2. CASE got # {}
      BY <3>2 DEF MapsInv, Exists
    <3> QED
      BY <3>1, <3>2
  <2> QED
    BY <2>2, <2>3, <2>4 DEF CurrentInv
<1>23. ASSUME NEW p \in Procs, Exit(p) PROVE CurrentInv'
  <2>1. /\ attach'[p] = 0 /\ mem' = mem /\ file' = file /\ clock' = clock
        /\ \A q \in Procs \ {p} : /\ pc'[q] = pc[q] /\ req'[q] = req[q]
                                  /\ attach'[q] = attach[q]
    BY <1>23 DEF Exit, TypeOK
  <2>2. Exists' => Exists /\ ~Fills(p)
    BY <2>1 DEF Exists, FillInv
  <2>3. \A q \in Procs \ {p} : Fills(q) => Fills(q)'
    BY <2>1 DEF Fills
  <2> QED
    BY <2>1, <2>2, <2>3 DEF CurrentInv
<1>24. CASE UNCHANGED vars
  BY <1>24 DEF vars, TypeOK, Fills, Exists, CurrentInv
<1> QED
  BY <1>1, <1>2, <1>3, <1>4, <1>5, <1>6, <1>7, <1>8, <1>9, <1>10, <1>11,
     <1>12, <1>13, <1>14, <1>15, <1>16, <1>17, <1>18, <1>19, <1>20, <1>21,
     <1>22, <1>23, <1>24 DEF Next, Step

\* Pages become writable by mprotect() for PROT_WRITE mappings only, and while a
\* mapping is being made.
LEMMA WriteStep ==
  ASSUME Serialized, FileReliable, TypeOK, ReqInv, WriteInv, [Next]_vars
  PROVE  WriteInv'
<1>1. ASSUME NEW p \in Procs, NEW a \in Addrs, NEW v \in Views, NEW w \in
      BOOLEAN, Mmap(p, a, v, w) PROVE WriteInv'
  BY <1>1, Alone DEF Mmap, TypeOK, WriteInv
<1>2. ASSUME NEW p \in Procs, GetNamed(p) PROVE WriteInv'
  BY <1>2 DEF GetNamed, TypeOK, WriteInv
<1>3. ASSUME NEW p \in Procs, Dup(p) PROVE WriteInv'
  BY <1>3 DEF Dup, TypeOK, WriteInv
<1>4. ASSUME NEW p \in Procs, Alias(p) PROVE WriteInv'
  BY <1>4 DEF Alias, TypeOK, WriteInv
<1>5. ASSUME NEW p \in Procs, Ref(p) PROVE WriteInv'
  BY <1>5 DEF Ref, TypeOK, WriteInv
<1>6. ASSUME NEW p \in Procs, RefStore(p) PROVE WriteInv'
  BY <1>6 DEF RefStore, TypeOK, WriteInv
<1>7. ASSUME NEW p \in Procs, Insert(p) PROVE WriteInv'
  <2>1. PICK m \in Mapping : req[p].m = {m} /\ The(p) = m
    BY <1>7, TheMapping DEF Insert, ReqInv
  <2>2. /\ pc[p] = "malloc" /\ pc'[p] \in {"dec", "load", "protect"}
        /\ maps'[p] \subseteq maps[p] \cup {m} /\ req'[p].m = {m}
        /\ pc'[p] = "dec" => maps'[p] = maps[p]
        /\ \A q \in Procs \ {p} : pc'[q] = pc[q] /\ req'[q] = req[q] /\ maps'[q] = maps[q]
    BY <1>7, <2>1 DEF Insert, TypeOK, Request
  <2> QED
    BY <2>2 DEF WriteInv
<1>8. ASSUME NEW p \in Procs, Load(p) PROVE WriteInv'
  <2>1. pc[p] = "load" /\ pc'[p] = "protect" /\ maps' = maps /\ req' = req
        /\ \A q \in Procs \ {p} : pc'[q] = pc[q]
    BY <1>8, ReliableCalls DEF Load, TypeOK
  <2> SUFFICES ASSUME NEW q \in Procs, NEW m \in maps[q], m.page /\ ~m.prot
               PROVE  pc'[q] \in {"load", "protect"} \cup Freeing /\ m \in req[q].m
    BY <2>1 DEF WriteInv
  <2>2. pc[q] \in {"load", "protect"} \cup Freeing /\ m \in req[q].m
    BY DEF WriteInv
  <2> QED
    BY <2>1, <2>2
<1>9. ASSUME NEW p \in Procs, Protect(p) PROVE WriteInv'
  <2>1. PICK m \in maps[p] : req[p].m = {m} /\ The(p) = m
    BY <1>9, TheMapping DEF Protect, ReqInv
  <2>2. pc[p] = "protect" /\ \A q \in Procs \ {p} :
          pc'[q] = pc[q] /\ req'[q] = req[q] /\ maps'[q] = maps[q]
    BY <1>9 DEF Protect, TypeOK
  <2>3. CASE maps'[p] = Protected(p, m, m.prot)
    <3>1. m.prot \in BOOLEAN
      BY DEF TypeOK, Mapping
    <3>2. PICK n \in Mapping : /\ n.prot = m.prot /\ n.page = m.prot
                               /\ maps'[p] = (maps[p] \ {m}) \cup {n}
      BY <2>3, <3>1, Reprotected
    <3> QED
      BY <2>1, <2>2, <3>2 DEF WriteInv
  <2>4. CASE maps' = maps /\ req' = req /\ pc'[p] = UnmapStep(m)
    BY <2>1, <2>2, <2>4 DEF UnmapStep, WriteInv
  <2> QED
    BY <1>9, <2>1, <2>3, <2>4 DEF Protect, TypeOK
<1>10. ASSUME NEW p \in Procs, NEW m \in maps[p], Munmap(p, m) PROVE WriteInv'
  BY <1>10, Alone DEF Munmap, TypeOK, WriteInv
<1>11. ASSUME NEW p \in Procs, Sync(p) PROVE WriteInv'
  BY <1>11, ReliableCalls DEF Sync, TypeOK, WriteInv
<1>12. ASSUME NEW p \in Procs, Dec(p) PROVE WriteInv'
  BY <1>12 DEF Dec, Request, TypeOK, WriteInv
<1>13. ASSUME NEW p \in Procs, DecStore(p) PROVE WriteInv'
  BY <1>13 DEF DecStore, TypeOK, WriteInv
<1>14. ASSUME NEW p \in Procs, Drop(p) PROVE WriteInv'
  BY <1>14 DEF Drop, TypeOK, WriteInv
<1>15. ASSUME NEW p \in Procs, NEW m \in maps[p], NEW w \in BOOLEAN, Mprotect(p,
      m, w) PROVE WriteInv'
  <2>1. /\ pc[p] = "idle" /\ pc' = pc /\ req' = req /\ (w => m.prot)
        /\ maps'[p] = Protected(p, m, w) /\ \A q \in Procs \ {p} : maps'[q] = maps[q]
    BY <1>15, ReliableCalls DEF Mprotect, Idle, TypeOK
  <2>2. PICK n \in Mapping : /\ n.prot = m.prot /\ n.page = w
                             /\ maps'[p] = (maps[p] \ {m}) \cup {n}
    BY <2>1, Reprotected
  <2>3. n.page => n.prot
    BY <2>1, <2>2 DEF TypeOK, Mapping
  <2> QED
    BY <2>1, <2>2, <2>3 DEF WriteInv
<1>16. ASSUME NEW p \in Procs, NEW m \in maps[p], NEW f \in SUBSET MsyncFlags,
      Msync(p, m, f) PROVE WriteInv'
  BY <1>16 DEF Msync, Idle, TypeOK, WriteInv
<1>17. ASSUME NEW p \in Procs, Flush(p) PROVE WriteInv'
  BY <1>17 DEF Flush, TypeOK, WriteInv
<1>18. ASSUME NEW p \in Procs, Reread(p) PROVE WriteInv'
  BY <1>18 DEF Reread, TypeOK, WriteInv
<1>19. ASSUME NEW p \in Procs, NEW m \in maps[p], NEW g \in Pages, Store(p, m,
      g) PROVE WriteInv'
  BY <1>19 DEF Store, TypeOK, WriteInv
<1>20. ASSUME NEW g \in Pages, ExtWrite(g) PROVE WriteInv'
  BY <1>20, ReliableCalls DEF ExtWrite, TypeOK, WriteInv
<1>21. ASSUME NEW p \in Procs, Start(p) PROVE WriteInv'
  BY <1>21 DEF Start, TypeOK, WriteInv
<1>22. ASSUME NEW p \in Procs, NEW c \in Procs, Fork(p, c) PROVE WriteInv'
  <2>1. PICK ok \in BOOLEAN, got \in SUBSET maps[p] : ForkWith(p, c, ok, got)
    BY <1>22, ForkPick
  <2>2. pc' = pc /\ req' = req /\ \A q \in Procs \ {c} : maps'[q] = maps[q]
    BY <2>1 DEF ForkWith, TypeOK
  <2>3. \/ maps'[c] = maps[c]
        \/ maps'[c] = {[m EXCEPT !.page = m.prot] : m \in got}
    BY <2>1 DEF ForkWith, TypeOK
  <2>4. ASSUME NEW k, maps'[c] = {[m EXCEPT !.page = m.prot] : m \in got}, k \in maps'[c]
        PROVE  k.page = k.prot
    <3>1. PICK m \in got : k = [m EXCEPT !.page = m.prot]
      BY <2>4
    <3> QED
      BY <3>1 DEF TypeOK, Mapping
  <2> QED
    BY <2>2, <2>3, <2>4 DEF WriteInv
<1>23. ASSUME NEW p \in Procs, Exit(p) PROVE WriteInv'
  BY <1>23 DEF Exit, TypeOK, WriteInv
<1>24. CASE UNCHANGED vars
  BY <1>24 DEF vars, TypeOK, WriteInv
<1> QED
  BY <1>1, <1>2, <1>3, <1>4, <1>5, <1>6, <1>7, <1>8, <1>9, <1>10, <1>11,
     <1>12, <1>13, <1>14, <1>15, <1>16, <1>17, <1>18, <1>19, <1>20, <1>21,
     <1>22, <1>23, <1>24 DEF Next, Step


\* Who would write a page back still would when the lists only grow.
LEMMA CoveredKept ==
  ASSUME NEW g \in Pages, Covered(Procs, g),
         \A q \in Procs : \A m \in Unsynced(q) : m.prot /\ g \in m.view =>
           \E n \in Unsynced(q)' : n.prot /\ g \in n.view
  PROVE  Covered(Procs, g)'
BY DEF Covered

\* A step that changes no list, nor what munmap() has still to write back.
LEMMA LostKept ==
  ASSUME NoLostStore, \A q \in Procs : Unsynced(q) \subseteq Unsynced(q)',
         mem' = mem, file' = file, abandoned' = abandoned
  PROVE  NoLostStore'
<1> SUFFICES ASSUME NEW g \in Pages, mem'[g] > file'[g]
             PROVE  Covered(Procs, g)' \/ g \in abandoned'
  BY DEF NoLostStore
<1>1. CASE g \in abandoned
  BY <1>1
<1>2. CASE Covered(Procs, g)
  BY <1>2, CoveredKept
<1> QED
  BY <1>1, <1>2 DEF NoLostStore

\* The unmapping of a mapping that is not written back.
LEMMA LostKeptBut ==
  ASSUME NoLostStore, NEW m,
         \A g \in Pages : mem[g] > file'[g] => mem[g] > file[g] /\ (m.prot => g \notin m.view),
         \A q \in Procs : Unsynced(q) \subseteq Unsynced(q)' \cup {m},
         mem' = mem, abandoned' = abandoned
  PROVE  NoLostStore'
<1> SUFFICES ASSUME NEW g \in Pages, mem'[g] > file'[g]
             PROVE  Covered(Procs, g)' \/ g \in abandoned'
  BY DEF NoLostStore
<1>1. CASE g \in abandoned
  BY <1>1
<1>2. CASE Covered(Procs, g)
  BY <1>2, CoveredKept
<1> QED
  BY <1>1, <1>2 DEF NoLostStore

\* mprotect() changes nothing about what munmap() writes back.
LEMMA LostReprotected ==
  ASSUME NoLostStore, TypeOK, NEW p \in Procs, NEW m \in maps[p], NEW w \in BOOLEAN,
         maps' = [maps EXCEPT ![p] = Protected(p, m, w)],
         pc[p] \notin Freeing, pc'[p] \notin Freeing,
         \A q \in Procs \ {p} : pc'[q] = pc[q] /\ req'[q] = req[q],
         mem' = mem, file' = file, abandoned' = abandoned
  PROVE  NoLostStore'
<1> SUFFICES ASSUME NEW g \in Pages, mem'[g] > file'[g]
             PROVE  Covered(Procs, g)' \/ g \in abandoned'
  BY DEF NoLostStore
<1>1. CASE g \in abandoned
  BY <1>1
<1>2. CASE Covered(Procs, g)
  <2>1. PICK n \in Mapping : /\ n.view = m.view /\ n.prot = m.prot
                             /\ Protected(p, m, w) = (maps[p] \ {m}) \cup {n}
    BY Reprotected
  <2>2. Unsynced(p) = maps[p] /\ Unsynced(p)' = (maps[p] \ {m}) \cup {n}
    BY <2>1 DEF Unsynced, Freeing, TypeOK
  <2>3. \A q \in Procs \ {p} : Unsynced(q)' = Unsynced(q)
    BY DEF Unsynced, TypeOK
  <2> QED
    BY <1>2, <2>1, <2>2, <2>3, CoveredKept
<1> QED
  BY <1>1, <1>2 DEF NoLostStore

\* A store that is not in the file yet is written back by somebody.
LEMMA LostStep ==
  ASSUME Serialized, FileReliable, TypeOK, ReqInv, MapsInv, WriteInv,
         NoLostStore, [Next]_vars
  PROVE  NoLostStore'
<1>1. ASSUME NEW p \in Procs, NEW a \in Addrs, NEW v \in Views, NEW w \in
      BOOLEAN, Mmap(p, a, v, w) PROVE NoLostStore'
  <2>1. pc[p] = "idle"
    BY <1>1, Alone DEF Mmap
  <2>2. \A q \in Procs : Unsynced(q) \subseteq Unsynced(q)'
    BY <1>1, <2>1 DEF Mmap, TypeOK, Unsynced
  <2>3. CASE Exists
    BY <1>1, <2>2, <2>3, LostKept DEF Mmap
  <2>4. CASE ~Exists
    BY <1>1, <2>4 DEF Mmap, TypeOK, NoLostStore
  <2> QED
    BY <2>3, <2>4
<1>2. ASSUME NEW p \in Procs, GetNamed(p) PROVE NoLostStore'
  <2>1. \A q \in Procs : Unsynced(q) \subseteq Unsynced(q)'
    BY <1>2 DEF GetNamed, TypeOK, Unsynced
  <2> QED
    BY <1>2, <2>1, LostKept DEF GetNamed
<1>3. ASSUME NEW p \in Procs, Dup(p) PROVE NoLostStore'
  <2>1. \A q \in Procs : Unsynced(q) \subseteq Unsynced(q)'
    BY <1>3 DEF Dup, TypeOK, Unsynced
  <2> QED
    BY <1>3, <2>1, LostKept DEF Dup
<1>4. ASSUME NEW p \in Procs, Alias(p) PROVE NoLostStore'
  <2>1. \A q \in Procs : Unsynced(q) \subseteq Unsynced(q)'
    BY <1>4 DEF Alias, TypeOK, Unsynced
  <2> QED
    BY <1>4, <2>1, LostKept DEF Alias
<1>5. ASSUME NEW p \in Procs, Ref(p) PROVE NoLostStore'
  <2>1. \A q \in Procs : Unsynced(q) \subseteq Unsynced(q)'
    BY <1>5 DEF Ref, TypeOK, Unsynced
  <2> QED
    BY <1>5, <2>1, LostKept DEF Ref
<1>6. ASSUME NEW p \in Procs, RefStore(p) PROVE NoLostStore'
  <2>1. \A q \in Procs : Unsynced(q) \subseteq Unsynced(q)'
    BY <1>6 DEF RefStore, TypeOK, Unsynced
  <2> QED
    BY <1>6, <2>1, LostKept DEF RefStore
<1>7. ASSUME NEW p \in Procs, Insert(p) PROVE NoLostStore'
  <2>1. /\ pc[p] = "malloc" /\ maps[p] \subseteq maps'[p]
        /\ pc'[p] = "dec" => maps'[p] = maps[p] /\ req'[p] = req[p]
        /\ pc'[p] \in {"dec", "load", "protect"}
        /\ \A q \in Procs \ {p} : pc'[q] = pc[q] /\ req'[q] = req[q] /\ maps'[q] = maps[q]
    BY <1>7 DEF Insert, TypeOK
  <2>2. req[p].m \cap maps[p] = {}
    BY <2>1 DEF ReqInv, Unlisted
  <2>3. \A q \in Procs : Unsynced(q) \subseteq Unsynced(q)'
    BY <2>1, <2>2 DEF Unsynced
  <2> QED
    BY <1>7, <2>3, LostKept DEF Insert
<1>8. ASSUME NEW p \in Procs, Load(p) PROVE NoLostStore'
  <2>1. file' = file
    BY <1>8 DEF Load
  <2>2. PICK ok \in Outcomes("read") : \E got \in Reads(ok, Pages) : mem' = Filled(got)
    BY <1>8 DEF Load
  <2>3. Reads(ok, Pages) = {Pages}
    BY <2>2, ReliableCalls
  <2>4. mem' = Filled(Pages)
    BY <2>2, <2>3
  <2>5. \A g \in Pages : mem'[g] = file[g]
    BY <2>4 DEF Filled
  <2> QED
    BY <2>1, <2>5 DEF NoLostStore, TypeOK
<1>9. ASSUME NEW p \in Procs, Protect(p) PROVE NoLostStore'
  <2>1. PICK m \in maps[p] : req[p].m = {m} /\ The(p) = m
    BY <1>9, TheMapping DEF Protect, ReqInv
  <2>2. /\ pc[p] = "protect" /\ mem' = mem /\ file' = file /\ abandoned' = abandoned
        /\ \A q \in Procs \ {p} : pc'[q] = pc[q] /\ req'[q] = req[q]
    BY <1>9 DEF Protect, TypeOK
  <2>3. CASE maps' = [maps EXCEPT ![p] = Protected(p, m, m.prot)] /\ pc'[p] = "idle"
    <3>1. m.prot \in BOOLEAN
      BY DEF TypeOK, Mapping
    <3> QED
      BY <2>2, <2>3, <3>1, LostReprotected DEF Freeing
  <2>4. CASE maps' = maps /\ req' = req /\ pc'[p] = UnmapStep(m)
    <3>1. m.prot => Unsynced(p) \subseteq Unsynced(p)'
      BY <2>2, <2>4 DEF Unsynced, UnmapStep
    <3>2. Unsynced(p) \subseteq Unsynced(p)' \cup {m}
      BY <2>1, <2>2, <2>4 DEF Unsynced
    <3>3. \A q \in Procs \ {p} : Unsynced(q) \subseteq Unsynced(q)'
      BY <2>2, <2>4 DEF Unsynced
    <3>4. CASE m.prot
      BY <2>2, <3>1, <3>3, <3>4, LostKept
    <3>5. CASE ~m.prot
      BY <2>2, <3>2, <3>3, <3>5, LostKeptBut
    <3> QED
      BY <3>4, <3>5
  <2> QED
    BY <1>9, <2>1, <2>3, <2>4 DEF Protect, TypeOK
<1>10. ASSUME NEW p \in Procs, NEW m \in maps[p], Munmap(p, m) PROVE
      NoLostStore'
  <2>1. /\ pc[p] = "idle" /\ mem' = mem /\ file' = file /\ abandoned' = abandoned
        /\ maps' = maps /\ req'[p].m = {m} /\ pc'[p] = UnmapStep(m)
        /\ \A q \in Procs \ {p} : pc'[q] = pc[q] /\ req'[q] = req[q]
    BY <1>10, Alone DEF Munmap, TypeOK, Busy
  <2>2. m.prot => Unsynced(p) \subseteq Unsynced(p)'
    BY <2>1 DEF Unsynced, UnmapStep
  <2>3. Unsynced(p) \subseteq Unsynced(p)' \cup {m}
    BY <2>1 DEF Unsynced
  <2>4. \A q \in Procs \ {p} : Unsynced(q) \subseteq Unsynced(q)'
    BY <2>1 DEF Unsynced
  <2>5. CASE m.prot
    BY <2>1, <2>2, <2>4, <2>5, LostKept
  <2>6. CASE ~m.prot
    BY <2>1, <2>3, <2>4, <2>6, LostKeptBut
  <2> QED
    BY <2>5, <2>6
<1>11. ASSUME NEW p \in Procs, Sync(p) PROVE NoLostStore'
  <2>1. PICK m \in maps[p] : req[p].m = {m} /\ The(p) = m
    BY <1>11, TheMapping DEF Sync, ReqInv
  <2>2. PICK sought \in Outcomes("seek") : /\ \E put \in Writes(sought, m.view) : file' = Written(put)
                                           /\ sought => Goto(p, "dec") /\ UNCHANGED req
    BY <1>11, <2>1 DEF Sync
  <2>3. Writes(sought, m.view) = {m.view} /\ sought = TRUE
    BY <2>2, ReliableCalls
  <2>4. file' = Written(m.view) /\ pc' = [pc EXCEPT ![p] = "dec"] /\ req' = req
    BY <2>2, <2>3 DEF Goto
  <2>5. pc[p] = "sync" /\ mem' = mem /\ abandoned' = abandoned /\ maps' = maps
    BY <1>11 DEF Sync
  <2>6. \A g \in Pages : mem[g] > file'[g] => mem[g] > file[g] /\ g \notin m.view
    BY <2>4 DEF Written, TypeOK
  <2>7. \A q \in Procs : Unsynced(q) \subseteq Unsynced(q)' \cup {m}
    BY <2>1, <2>4, <2>5 DEF Unsynced, TypeOK
  <2> QED
    BY <2>5, <2>6, <2>7, LostKeptBut
<1>12. ASSUME NEW p \in Procs, Dec(p) PROVE NoLostStore'
  <2>1. \A q \in Procs : Unsynced(q) \subseteq Unsynced(q)'
    BY <1>12 DEF Dec, TypeOK, Unsynced, Request
  <2> QED
    BY <1>12, <2>1, LostKept DEF Dec
<1>13. ASSUME NEW p \in Procs, DecStore(p) PROVE NoLostStore'
  <2>1. \A q \in Procs : Unsynced(q) \subseteq Unsynced(q)'
    BY <1>13 DEF DecStore, TypeOK, Unsynced
  <2> QED
    BY <1>13, <2>1, LostKept DEF DecStore
<1>14. ASSUME NEW p \in Procs, Drop(p) PROVE NoLostStore'
  <2>1. \A q \in Procs : Unsynced(q) \subseteq Unsynced(q)'
    BY <1>14 DEF Drop, TypeOK, Unsynced
  <2> QED
    BY <1>14, <2>1, LostKept DEF Drop
<1>15. ASSUME NEW p \in Procs, NEW m \in maps[p], NEW w \in BOOLEAN, Mprotect(p,
      m, w) PROVE NoLostStore'
  <2>1. maps' = [maps EXCEPT ![p] = Protected(p, m, w)] /\ pc[p] = "idle"
    BY <1>15 DEF Mprotect, Idle
  <2> QED
    BY <1>15, <2>1, LostReprotected DEF Mprotect, Freeing
<1>16. ASSUME NEW p \in Procs, NEW m \in maps[p], NEW f \in SUBSET MsyncFlags,
      Msync(p, m, f) PROVE NoLostStore'
  <2>1. \A q \in Procs : Unsynced(q) \subseteq Unsynced(q)'
    BY <1>16 DEF Msync, TypeOK, Unsynced, Idle
  <2> QED
    BY <1>16, <2>1, LostKept DEF Msync
<1>17. ASSUME NEW p \in Procs, Flush(p) PROVE NoLostStore'
  <2>1. /\ mem' = mem /\ abandoned' = abandoned
        /\ \A q \in Procs : Unsynced(q) \subseteq Unsynced(q)'
    BY <1>17 DEF Flush, TypeOK, Unsynced
  <2>2. \A g \in Pages : file'[g] \in {file[g], mem[g]}
    BY <1>17 DEF Flush, Written
  <2>3. ASSUME NEW g \in Pages, mem'[g] > file'[g]
        PROVE  Covered(Procs, g)' \/ g \in abandoned'
    <3>1. mem[g] > file[g]
      BY <2>1, <2>2, <2>3 DEF TypeOK
    <3>2. Covered(Procs, g) \/ g \in abandoned
      BY <3>1 DEF NoLostStore
    <3> QED
      BY <2>1, <3>2, CoveredKept
  <2> QED
    BY <2>3 DEF NoLostStore
<1>18. ASSUME NEW p \in Procs, Reread(p) PROVE NoLostStore'
  <2>1. file' = file
    BY <1>18 DEF Reread
  <2>2. PICK ok \in Outcomes("read") : \E got \in Reads(ok, Pages) : mem' = Filled(got)
    BY <1>18 DEF Reread
  <2>3. Reads(ok, Pages) = {Pages}
    BY <2>2, ReliableCalls
  <2>4. mem' = Filled(Pages)
    BY <2>2, <2>3
  <2>5. \A g \in Pages : mem'[g] = file[g]
    BY <2>4 DEF Filled
  <2> QED
    BY <2>1, <2>5 DEF NoLostStore, TypeOK
<1>19. ASSUME NEW p \in Procs, NEW m \in maps[p], NEW g \in Pages, Store(p, m,
      g) PROVE NoLostStore'
  <2>1. /\ pc[p] = "idle" /\ m.page /\ g \in m.view /\ pc' = pc /\ maps' = maps /\ req' = req
        /\ file' = file /\ abandoned' = abandoned \ {g}
        /\ \A h \in Pages \ {g} : mem'[h] = mem[h]
    BY <1>19 DEF Store, Idle, TypeOK
  <2>2. m.prot
    BY <2>1 DEF WriteInv
  <2>3. \A q \in Procs : Unsynced(q)' = Unsynced(q)
    BY <2>1 DEF Unsynced
  <2>4. m \in Unsynced(p)'
    BY <2>1 DEF Unsynced
  <2>5. Covered(Procs, g)'
    BY <2>1, <2>2, <2>4 DEF Covered
  <2>6. ASSUME NEW h \in Pages \ {g}, mem'[h] > file'[h]
        PROVE  Covered(Procs, h)' \/ h \in abandoned'
    <3>1. Covered(Procs, h) \/ h \in abandoned
      BY <2>1, <2>6 DEF NoLostStore
    <3> QED
      BY <2>1, <2>3, <3>1, CoveredKept
  <2> QED
    BY <2>5, <2>6 DEF NoLostStore
<1>20. ASSUME NEW g \in Pages, ExtWrite(g) PROVE NoLostStore'
  BY <1>20, ReliableCalls DEF ExtWrite
<1>21. ASSUME NEW p \in Procs, Start(p) PROVE NoLostStore'
  <2>1. \A q \in Procs : Unsynced(q) \subseteq Unsynced(q)'
    BY <1>21 DEF Start, TypeOK, Unsynced
  <2> QED
    BY <1>21, <2>1, LostKept DEF Start
<1>22. ASSUME NEW p \in Procs, NEW c \in Procs, Fork(p, c) PROVE NoLostStore'
  <2>1. PICK ok \in BOOLEAN, got \in SUBSET maps[p] : ForkWith(p, c, ok, got)
    BY <1>22, ForkPick
  <2>2. maps[c] = {}
    BY <1>22 DEF Fork, MapsInv
  <2>3. pc' = pc /\ req' = req /\ \A q \in Procs : maps[q] \subseteq maps'[q]
    BY <2>1, <2>2 DEF ForkWith, TypeOK
  <2>4. \A q \in Procs : Unsynced(q) \subseteq Unsynced(q)'
    BY <2>3 DEF Unsynced
  <2> QED
    BY <2>1, <2>4, LostKept DEF ForkWith
<1>23. ASSUME NEW p \in Procs, Exit(p) PROVE NoLostStore'
  <2>1. /\ mem' = mem /\ file' = file
        /\ abandoned' = abandoned \cup
             {g \in Pages : mem[g] > file[g] /\ ~Covered(Procs \ {p}, g)}
        /\ \A q \in Procs \ {p} : pc'[q] = pc[q] /\ req'[q] = req[q] /\ maps'[q] = maps[q]
    BY <1>23 DEF Exit, TypeOK
  <2>2. \A q \in Procs \ {p} : Unsynced(q)' = Unsynced(q)
    BY <2>1 DEF Unsynced
  <2>3. ASSUME NEW g \in Pages, mem'[g] > file'[g], g \notin abandoned'
        PROVE  Covered(Procs, g)'
    <3>1. Covered(Procs \ {p}, g)
      BY <2>1, <2>3
    <3> QED
      BY <2>2, <3>1 DEF Covered
  <2> QED
    BY <2>3 DEF NoLostStore
<1>24. CASE UNCHANGED vars
  <2>1. \A q \in Procs : Unsynced(q)' = Unsynced(q)
    BY <1>24 DEF vars, Unsynced
  <2> QED
    BY <1>24, <2>1, LostKept DEF vars
<1> QED
  BY <1>1, <1>2, <1>3, <1>4, <1>5, <1>6, <1>7, <1>8, <1>9, <1>10, <1>11,
     <1>12, <1>13, <1>14, <1>15, <1>16, <1>17, <1>18, <1>19, <1>20, <1>21,
     <1>22, <1>23, <1>24 DEF Next, Step


-----------------------------------------------------------------------------

(***************************************************************************)
(* The theorems.                                                           *)
(***************************************************************************)

\* At first a process has no mapping and no reference.
LEMMA InitIInv ==
  ASSUME Init
  PROVE  IInv
<1>1. TypeOK
  BY SharedMapAssumption DEF Init, TypeOK, Request, PCs, NoReq
<1>2. \A p \in Procs : pc[p] = "idle" /\ maps[p] = {} /\ req[p] = NoReq
  BY DEF Init
<1>3. CountInv /\ ReqInv
  BY <1>2 DEF CountInv, ReqInv, Uncounting, Unlisted, Listed, Freeing
<1>4. MapsInv
  BY <1>2, FS_EmptySet DEF MapsInv, MapsOK, Unlisted
<1>5. References = {}
  BY <1>2 DEF References, Counted
<1>6. RefInv
  BY <1>2, <1>5, FS_EmptySet DEF RefInv, Init, NoReq
<1> QED
  BY <1>1, <1>3, <1>4, <1>6 DEF IInv

\* Every step keeps the inductive invariant.
LEMMA NextIInv ==
  ASSUME Serialized, IInv, [Next]_vars
  PROVE  IInv'
BY TypeStep, CountStep, ReqStep, MapsStep, RefStep DEF IInv

\* What is true of the object, the count and the lists at any time: one process
\* works on the count, it knows it, and the count is the number of mappings that
\* were counted and not given back.
THEOREM Invariance == ASSUME Serialized PROVE Spec => []IInv
<1>1. Init => IInv
  BY InitIInv
<1>2. IInv /\ [Next]_vars => IInv'
  BY NextIInv
<1> QED
  BY <1>1, <1>2, PTL DEF Spec

\* The variables keep their types: the count and the references never get below
\* zero.
THEOREM TypeCorrect == ASSUME Serialized PROVE Spec => []TypeOK
<1>1. IInv => TypeOK
  BY DEF IInv
<1> QED
  BY <1>1, Invariance, PTL

\* A mapping has memory behind it by the invariant of the lists.
LEMMA IInvBacked ==
  ASSUME IInv
  PROVE  AliasBacked
BY DEF IInv, MapsInv, AliasBacked

\* Unless the object is being made, the count was conserved by every step.
LEMMA IInvCount ==
  ASSUME IInv
  PROVE  RefCountConserved
BY DEF IInv, RefInv, RefCountConserved

\* munmap() gives up the object with the last mapping of all the processes only:
\* no process has an alias whose memory it has no reference to.
THEOREM Backed == ASSUME Serialized PROVE Spec => []AliasBacked
<1>1. IInv => AliasBacked
  BY IInvBacked
<1> QED
  BY <1>1, Invariance, PTL

\* The count in the object's first page is the number of mappings there are,
\* whichever calls fail and wherever processes end, plus those of processes that
\* ended without munmap().
THEOREM CountConserved == ASSUME Serialized PROVE Spec => []RefCountConserved
<1>1. IInv => RefCountConserved
  BY IInvCount
<1> QED
  BY <1>1, Invariance, PTL

\* Both, whatever the other programs do to the file and whether or not it can be
\* read and written.
THEOREM BackedCounted == ASSUME Serialized PROVE Spec => []BackedAndCounted
<1>1. IInv => BackedAndCounted
  BY IInvBacked, IInvCount DEF BackedAndCounted
<1> QED
  BY <1>1, Invariance, PTL

\* At first nobody has the file mapped.
LEMMA InitFile ==
  ASSUME Init
  PROVE  FileInv
<1>1. \A p \in Procs : maps[p] = {} /\ ~Fills(p) /\ attach[p] = 0
  BY DEF Init, Fills, NoReq
<1>2. /\ clock = 1
      /\ \A g \in Pages : mem[g] = 0 /\ file[g] = 1
  BY DEF Init
<1>3. FillInv /\ WriteInv
  BY <1>1 DEF FillInv, WriteInv
<1>4. CurrentInv /\ NoLostStore
  BY <1>1, <1>2 DEF CurrentInv, NoLostStore, Exists
<1> QED
  BY <1>3, <1>4 DEF FileInv

\* Every step keeps what is true of the contents.
LEMMA NextFile ==
  ASSUME Serialized, FileReliable, IInv, FileInv, [Next]_vars
  PROVE  FileInv'
BY FillStep, CurrentStep, WriteStep, LostStep DEF IInv, FileInv

\* What is true of the contents at any time: the creator alone fills the object,
\* which is never older than the file afterwards, and pages that can be written
\* belong to mappings that are written back.
THEOREM FileInvariance ==
  ASSUME Serialized, FileReliable PROVE Spec => [](IInv /\ FileInv)
<1>1. Init => IInv /\ FileInv
  BY InitIInv, InitFile
<1>2. IInv /\ FileInv /\ [Next]_vars => (IInv /\ FileInv)'
  BY NextIInv, NextFile
<1> QED
  BY <1>1, <1>2, PTL DEF Spec

\* A store reaches the file: while the object is newer than the file a mapping is
\* left whose munmap() writes the page, unless its process was killed.
THEOREM NoStoreLost ==
  ASSUME Serialized, FileReliable PROVE Spec => []NoLostStore
<1>1. FileInv => NoLostStore
  BY DEF FileInv
<1> QED
  BY <1>1, FileInvariance, PTL

\* What a program finds in a mapping is never older than the file.
THEOREM Current ==
  ASSUME Serialized, FileReliable PROVE Spec => []MapCurrent
<1>1. ASSUME IInv, FileInv PROVE MapCurrent
  <2> SUFFICES ASSUME NEW p \in Procs, pc[p] = "idle", NEW m \in maps[p], NEW g \in m.view
               PROVE  mem[g] >= file[g]
    BY DEF MapCurrent
  <2>1. g \in Pages
    BY <1>1, SharedMapAssumption DEF IInv, TypeOK, Mapping
  <2>2. ~Fills(p)
    BY NobodyFills DEF Uncounting
  <2> QED
    BY <1>1, <2>1, <2>2, UserLoaded DEF IInv, FileInv
<1>2. IInv /\ FileInv => MapCurrent
  BY <1>1
<1> QED
  BY <1>2, FileInvariance, PTL

\* The file is written from an object that is not older, by munmap() and msync().
LEMMA FileStep ==
  ASSUME Serialized, FileReliable, IInv, FileInv, [Next]_vars, NEW g \in Pages
  PROVE  file'[g] >= file[g]
<1> USE DEF IInv, FileInv
<1>1. ASSUME file' = file PROVE file'[g] >= file[g]
  BY <1>1 DEF TypeOK
<1>2. ASSUME NEW p \in Procs, Sync(p) \/ Flush(p) PROVE file'[g] >= file[g]
  <2>1. ~Fills(p) /\ maps[p] # {}
    BY <1>2 DEF Sync, Flush, Fills, ReqInv, Listed
  <2>2. mem[g] >= file[g]
    BY <2>1, UserLoaded
  <2>3. file'[g] \in {file[g], mem[g]}
    BY <1>2 DEF Sync, Flush, Written
  <2> QED
    BY <2>2, <2>3 DEF TypeOK
<1>3. CASE \E p \in Procs : Sync(p) \/ Flush(p)
  BY <1>2, <1>3
<1>4. CASE ~\E p \in Procs : Sync(p) \/ Flush(p)
  <2>1. file' = file
    <3>1. \A p \in Procs : /\ ~Sync(p) /\ ~Flush(p)
                           /\ Step(p) => UNCHANGED file
      BY <1>4 DEF Step, GetNamed, Dup, Alias, Ref, RefStore, Insert, Load, Protect,
        Dec, DecStore, Drop, Reread
    <3>2. \A q \in Pages : ~ExtWrite(q)
      BY ReliableCalls DEF ExtWrite
    <3> QED
      BY <3>1, <3>2, ZenonT(30)
         DEF Next, vars, Start, Exit, Mmap, Munmap, Mprotect, Msync, Store, Fork
  <2> QED
    BY <1>1, <2>1
<1> QED
  BY <1>3, <1>4

\* The library never replaces a page of the file by an older one.
THEOREM FileGrows ==
  ASSUME Serialized, FileReliable PROVE Spec => FileNeverGoesBack
<1>1. IInv /\ FileInv /\ [Next]_vars => \A g \in Pages : file'[g] >= file[g]
  BY FileStep
<1>2. IInv /\ FileInv /\ [Next]_vars => [\A g \in Pages : file'[g] >= file[g]]_vars
  BY <1>1
<1> QED
  BY <1>2, FileInvariance, PTL DEF Spec, FileNeverGoesBack

\* The creator fills the object before anybody can have stored in it; only
\* msync() reads the file again.
LEMMA MemStep ==
  ASSUME Serialized, FileReliable, IInv, FileInv, [Next]_vars, NEW g \in Pages,
         mem'[g] < mem[g]
  PROVE  ~Exists \/ \E p \in Procs : pc[p] = "reread"
<1> USE DEF IInv, FileInv
<1>1. mem' # mem
  BY DEF TypeOK
<1>2. ASSUME NEW p \in Procs PROVE ~Load(p)
  <2> SUFFICES ASSUME Load(p) PROVE FALSE
    OBVIOUS
  <2>1. Fills(p)
    BY DEF Load, Fills, ReqInv
  <2>2. mem[g] = 0
    BY <2>1 DEF FillInv
  <2>3. mem'[g] \in {mem[g], file[g]}
    BY DEF Load, Filled
  <2> QED
    BY <2>2, <2>3 DEF TypeOK
<1>3. ASSUME NEW p \in Procs, NEW m \in maps[p], NEW h \in Pages PROVE ~Store(p, m, h)
  BY DEF Store, TypeOK, CurrentInv
<1>4. ASSUME NEW p \in Procs, Step(p) PROVE pc[p] = "reread"
  BY <1>1, <1>2, <1>4 DEF Step, GetNamed, Dup, Alias, Ref, RefStore, Insert, Protect,
    Sync, Dec, DecStore, Drop, Flush, Reread
<1>5. ASSUME NEW p \in Procs, NEW a \in Addrs, NEW v \in Views, NEW w \in BOOLEAN,
             Mmap(p, a, v, w)
      PROVE  ~Exists
  BY <1>1, <1>5 DEF Mmap
<1> QED
  BY <1>1, <1>3, <1>4, <1>5 DEF Next, vars, Start, Exit, Munmap, Mprotect, Msync,
    ExtWrite, Fork

\* No store of another process is overwritten when the object is filled.
THEOREM StoresSurvive ==
  ASSUME Serialized, FileReliable PROVE Spec => StoresSurviveLoad
<1>1. IInv /\ FileInv /\ [Next]_vars =>
        \A g \in Pages : mem'[g] < mem[g] =>
          ~Exists \/ \E p \in Procs : pc[p] = "reread"
  BY MemStep
<1>2. IInv /\ FileInv /\ [Next]_vars =>
        [\A g \in Pages : mem'[g] < mem[g] =>
           ~Exists \/ \E p \in Procs : pc[p] = "reread"]_vars
  BY <1>1
<1> QED
  BY <1>2, FileInvariance, PTL DEF Spec, StoresSurviveLoad

=============================================================================
