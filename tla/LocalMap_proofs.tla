-------------------------- MODULE LocalMap_proofs --------------------------
(***************************************************************************)
(* Proofs about LocalMap for any pages, programs and descriptors.          *)
(*                                                                         *)
(* BaseInv holds of every program.  It adds to TypeOK that objects and     *)
(* entries lie within the addresses (FormInv) and that each object of the  *)
(* library's has one owner, of its length and kind (OwnerInv).  On it rest *)
(* two invariants that need something of the programs: descriptors (FdInv) *)
(* that they pass none for an anonymous mapping, and private stores        *)
(* (PrivateInv) that they fix no mapping on shared memory of a file: then  *)
(* the newest entry that contains a page of a shared mapping is this one.  *)
(***************************************************************************)
EXTENDS LocalMap, SequenceTheorems, FiniteSetTheorems, TLAPS

\* What an entry of m_mmap can be, and the objects.
Entries ==
  {e \in [addr : Pages, len : Pages, kind : Kinds, fixed : BOOLEAN, allocated : BOOLEAN,
          prot : Prots, fd : Fds \cup AnonFds] : Span(e.addr, e.len) \subseteq Pages}
Objects == [len : Pages, kind : Kinds \cup {"program"}]

\* Objects lie beside one another, entries within the addresses.
FormInv ==
  /\ DOMAIN obj \subseteq Pages
  /\ \A b \in DOMAIN obj : obj[b] \in Objects /\ Of(b) \subseteq Pages
  /\ maps \in Seq(Entries)

\* An object of the library's and the entry that will free it.
OwnerInv ==
  /\ \A i \in DOMAIN maps : Owns(maps[i]) =>
       /\ maps[i].addr \in DOMAIN obj
       /\ obj[maps[i].addr] = [len |-> maps[i].len, kind |-> maps[i].kind]
  /\ \A i, j \in DOMAIN maps :
       Owns(maps[i]) /\ Owns(maps[j]) /\ maps[i].addr = maps[j].addr => i = j
  /\ \A b \in DOMAIN obj : obj[b].kind # "program" =>
       \E i \in DOMAIN maps : Owns(maps[i]) /\ maps[i].addr = b
  /\ \A i \in DOMAIN maps : Shared(maps[i].kind) => ~maps[i].fixed

\* The descriptors of failures belong to no entry, and those of anonymous mappings
\* are none.
FdInv ==
  /\ DescriptorsOwned
  /\ \A i \in DOMAIN maps : maps[i].kind = "shared" => maps[i].fd \in Fds \ leaked
  /\ \A i \in DOMAIN maps : Anon(maps[i].kind) => maps[i].fd \in AnonFds

\* No newer mapping lies on a shared one of a file, and none of its pages holds a
\* store to another mapping.
PrivateInv ==
  /\ file = {}
  /\ \A i \in DOMAIN maps : maps[i].kind = "shared" =>
       /\ \A j \in DOMAIN maps :
            j < i => Span(maps[j].addr, maps[j].len) \cap Span(maps[i].addr, maps[i].len) = {}
       /\ Span(maps[i].addr, maps[i].len) \cap dirty = {}

-----------------------------------------------------------------------------

(***************************************************************************)
(* Sets of numbers, and lists.                                             *)
(***************************************************************************)

\* A set of natural numbers has a least member.
LEMMA Least ==
  ASSUME NEW S \in SUBSET Nat, S # {}
  PROVE  Min(S) \in S /\ \A y \in S : Min(S) <= y
<1>1. \E x \in S : \A y \in S : ~ (<<y, x>> \in OpToRel(<, Nat))
  BY NatLessThanWellFounded, WFMin
<1>2. \E x \in S : \A y \in S : x <= y
  <2>1. PICK x \in S : \A y \in S : ~ (<<y, x>> \in OpToRel(<, Nat))
    BY <1>1
  <2>2. ASSUME NEW y \in S PROVE x <= y
    <3>1. x \in Nat /\ y \in Nat /\ <<y, x>> \in Nat \X Nat
      OBVIOUS
    <3>2. ~(y < x)
      BY <2>1, <3>1 DEF OpToRel
    <3> QED
      BY <3>1, <3>2
  <2> QED
    BY <2>2
<1> QED
  BY <1>2 DEF Min

\* A bounded one has a greatest.
LEMMA Greatest ==
  ASSUME NEW n \in Nat, NEW S \in SUBSET (1..n), S # {}
  PROVE  Max(S) \in S
<1> DEFINE T == {n - x : x \in S}
<1>1. T \in SUBSET Nat /\ T # {}
  <2>1. ASSUME NEW x \in S PROVE n - x \in Nat
    <3>1. x \in 1..n
      OBVIOUS
    <3> QED
      BY <3>1
  <2>2. PICK x : x \in S
    OBVIOUS
  <2>3. n - x \in T
    BY <2>2
  <2> QED
    BY <2>1, <2>3
<1>2. Min(T) \in T /\ \A y \in T : Min(T) <= y
  BY <1>1, Least
<1>3. PICK x \in S : Min(T) = n - x
  BY <1>2
<1>4. \A y \in S : x >= y
  <2> SUFFICES ASSUME NEW y \in S PROVE x >= y
    OBVIOUS
  <2>1. n - x <= n - y
    BY <1>2, <1>3
  <2> QED
    BY <2>1
<1> QED
  BY <1>4 DEF Max

\* The first of a set of places.
LEMMA FirstIs ==
  ASSUME NEW n \in Nat, NEW S \in SUBSET (1..n)
  PROVE  /\ First(S) = 0 <=> S = {}
         /\ S # {} => First(S) \in S /\ \A y \in S : First(S) <= y
<1>1. S \in SUBSET Nat
  OBVIOUS
<1>2. S # {} => Min(S) \in S /\ \A y \in S : Min(S) <= y
  BY <1>1, Least
<1>3. S # {} => First(S) = Min(S) /\ Min(S) \in 1..n
  BY <1>2 DEF First
<1>4. S = {} => First(S) = 0
  BY DEF First
<1> QED
  BY <1>2, <1>3, <1>4

\* The places of a list with an entry put in front of it.
LEMMA Added ==
  ASSUME NEW S, NEW s \in Seq(S), NEW x \in S
  PROVE  /\ <<x>> \o s \in Seq(S) /\ 1 \in DOMAIN (<<x>> \o s) /\ (<<x>> \o s)[1] = x
         /\ \A k \in DOMAIN s : k > 0 /\ k + 1 \in DOMAIN (<<x>> \o s) /\ (<<x>> \o s)[k + 1] = s[k]
         /\ \A k \in DOMAIN (<<x>> \o s) : k = 1 \/ (k > 1 /\ k - 1 \in DOMAIN s)
<1>1. <<x>> \in Seq(S) /\ Len(<<x>>) = 1 /\ <<x>>[1] = x
  OBVIOUS
<1>2. /\ <<x>> \o s \in Seq(S) /\ Len(<<x>> \o s) = 1 + Len(s)
      /\ \A i \in 1 .. 1 + Len(s) : (<<x>> \o s)[i] = IF i <= 1 THEN <<x>>[i] ELSE s[i - 1]
  BY <1>1, ConcatProperties
<1>3. /\ DOMAIN s = 1..Len(s) /\ Len(s) \in Nat /\ DOMAIN (<<x>> \o s) = 1..(1 + Len(s))
  BY <1>2, LenProperties
<1>4. ASSUME NEW k \in DOMAIN s PROVE (<<x>> \o s)[k + 1] = s[k]
  <2>1. k + 1 \in 1..(1 + Len(s)) /\ ~(k + 1 <= 1) /\ k + 1 - 1 = k
    BY <1>3
  <2> QED
    BY <1>2, <2>1
<1> QED
  BY <1>1, <1>2, <1>3, <1>4

\* The places of a list that lost one.
LEMMA Removed ==
  ASSUME NEW S, NEW s \in Seq(S), NEW i \in DOMAIN s
  PROVE  /\ RemoveAt(s, i) \in Seq(S)
         /\ DOMAIN RemoveAt(s, i) = 1..(Len(s) - 1)
         /\ \A k \in 1..(Len(s) - 1) : RemoveAt(s, i)[k] = IF k < i THEN s[k] ELSE s[k + 1]
<1> DEFINE a == SubSeq(s, 1, i - 1)
           b == SubSeq(s, i + 1, Len(s))
<1>1. DOMAIN s = 1..Len(s) /\ Len(s) \in Nat /\ i \in 1..Len(s) /\ \A k \in 1..Len(s) : s[k] \in S
  BY LenProperties, ElementOfSeq
<1>2. /\ a \in Seq(S) /\ Len(a) = i - 1 /\ \A k \in 1..(i - 1) : a[k] = s[k]
  <2>1. 1 \in Int /\ i - 1 \in Int /\ \A k \in 1..(i - 1) : s[k] \in S
    BY <1>1
  <2>2. /\ a \in Seq(S) /\ Len(a) = IF 1 <= i - 1 THEN i - 1 - 1 + 1 ELSE 0
        /\ \A k \in 1 .. (i - 1) - 1 + 1 : a[k] = s[1 + k - 1]
    BY <2>1, SubSeqProperties
  <2> QED
    BY <1>1, <2>2
<1>3. /\ b \in Seq(S) /\ Len(b) = Len(s) - i /\ \A k \in 1..(Len(s) - i) : b[k] = s[i + k]
  <2>1. i + 1 \in Int /\ Len(s) \in Int /\ \A k \in (i + 1)..Len(s) : s[k] \in S
    BY <1>1
  <2>2. /\ b \in Seq(S) /\ Len(b) = IF i + 1 <= Len(s) THEN Len(s) - (i + 1) + 1 ELSE 0
        /\ \A k \in 1 .. Len(s) - (i + 1) + 1 : b[k] = s[i + 1 + k - 1]
    BY <2>1, SubSeqProperties
  <2>3. /\ (IF i + 1 <= Len(s) THEN Len(s) - (i + 1) + 1 ELSE 0) = Len(s) - i
        /\ Len(s) - (i + 1) + 1 = Len(s) - i
    BY <1>1
  <2>4. \A k \in 1..(Len(s) - i) : i + 1 + k - 1 = i + k
    BY <1>1
  <2> HIDE DEF b
  <2> QED
    BY <2>2, <2>3, <2>4
<1> HIDE DEF a, b
<1>4. /\ a \o b \in Seq(S) /\ Len(a \o b) = Len(a) + Len(b)
      /\ \A k \in 1 .. Len(a) + Len(b) : (a \o b)[k] = IF k <= Len(a) THEN a[k] ELSE b[k - Len(a)]
  BY <1>2, <1>3, ConcatProperties
<1>5. Len(a) + Len(b) = Len(s) - 1 /\ DOMAIN (a \o b) = 1..(Len(s) - 1)
  <2>1. Len(a) + Len(b) = Len(s) - 1
    BY <1>1, <1>2, <1>3
  <2>2. DOMAIN (a \o b) = 1..Len(a \o b)
    BY <1>4, LenProperties
  <2> QED
    BY <1>4, <2>1, <2>2
<1>6. ASSUME NEW k \in 1..(Len(s) - 1)
      PROVE  (a \o b)[k] = IF k < i THEN s[k] ELSE s[k + 1]
  <2>1. CASE k < i
    <3>1. k <= Len(a) /\ k \in 1..(i - 1)
      BY <1>1, <1>2, <2>1
    <3> QED
      BY <1>2, <1>4, <1>5, <2>1, <3>1
  <2>2. CASE ~(k < i)
    <3>1. ~(k <= Len(a)) /\ k - Len(a) = k - i + 1 /\ k - i + 1 \in 1..(Len(s) - i) /\ i + (k - i + 1) = k + 1
      BY <1>1, <1>2, <2>2
    <3> QED
      BY <1>3, <1>4, <1>5, <2>2, <3>1
  <2> QED
    BY <2>1, <2>2
<1> QED
  BY <1>4, <1>5, <1>6 DEF RemoveAt, a, b

\* A set with just one member.
LEMMA JustOne ==
  ASSUME NEW S, NEW x \in S, \A y \in S : y = x
  PROVE  Cardinality(S) = 1
<1>1. S = {x}
  OBVIOUS
<1> QED
  BY <1>1, FS_Singleton

-----------------------------------------------------------------------------

(***************************************************************************)
(* What the calls do.                                                      *)
(***************************************************************************)

\* A mapping is made: on free memory, then it owns it, or on memory in use.
Maps(e) ==
  /\ e \in Entries /\ (Shared(e.kind) => ~e.fixed) /\ (Anon(e.kind) => e.fd \in AnonFds)
  /\ maps' = <<e>> \o maps
  /\ \/ /\ Owns(e) /\ Span(e.addr, e.len) \cap Used = {}
        /\ obj' = With(obj, e.addr, [len |-> e.len, kind |-> e.kind])
     \/ /\ ~Owns(e) /\ obj' = obj
        /\ \E b \in DOMAIN obj : Span(e.addr, e.len) \subseteq Of(b) /\ obj[b].kind \in FixedOver
  /\ \/ e.kind = "shared" /\ e.fd \in Fds \ DOMAIN fds /\ fds' = With(fds, e.fd, "library")
     \/ e.kind # "shared" /\ fds' = fds
  /\ dirty' \subseteq dirty /\ leaked' = leaked /\ UNCHANGED <<mine, file>>

\* It is not: what is left is a descriptor at most, and one that is closed was given
\* for an anonymous mapping or is not open.
Fails ==
  /\ UNCHANGED <<obj, maps, mine, file>> /\ dirty' \subseteq dirty
  /\ \/ UNCHANGED <<fds, leaked>>
     \/ \E f \in Fds \ DOMAIN fds :
          fds' = With(fds, f, "library") /\ leaked' = leaked \cup {f}
     \/ \E F \in SUBSET (AnonFds \cup (Fds \ DOMAIN fds)) :
          fds' = Without(fds, F) /\ leaked' = leaked

\* Entry i is unmapped.
Unmaps(i) ==
  /\ i \in DOMAIN maps /\ maps' = RemoveAt(maps, i)
  /\ obj' = Without(obj, Freed(maps[i])) /\ fds' = Without(fds, Closed(maps[i]))
  /\ dirty' = dirty \ UNION {Of(b) : b \in Freed(maps[i])}
  /\ \E a, n : file' \subseteq file \cup Written(a, n)
  /\ UNCHANGED <<mine, leaked>>

\* The calls that make and remove nothing.
Serves ==
  /\ UNCHANGED <<obj, maps, fds, dirty, mine, leaked>>
  /\ \E a, n : file' \subseteq file \cup Written(a, n)

\* A descriptor that is not open.
LEMMA FreeFd ==
  ASSUME LocalMapAssumption, Fds \ DOMAIN fds # {}
  PROVE  LowestFree \in Fds \ DOMAIN fds
<1>1. Cardinality(Fds) \in Nat
  BY FS_CardinalityType DEF LocalMapAssumption
<1>2. Fds \in SUBSET Nat
  BY <1>1 DEF LocalMapAssumption
<1>3. Fds \ DOMAIN fds \in SUBSET Nat
  BY <1>2
<1> QED
  BY <1>3, Least DEF LowestFree

\* The pages of a range.
LEMMA SpanPages ==
  ASSUME LocalMapAssumption, NEW span \in Spans
  PROVE  span[1] \in Pages /\ span[2] \in Pages /\ Span(span[1], span[2]) \subseteq Pages
<1>1. Cardinality(Pages) \in Nat
  BY FS_CardinalityType DEF LocalMapAssumption
<1>2. span[1] \in Pages /\ span[2] \in Pages /\ span[1] + span[2] - 1 \in Pages
  BY DEF Spans
<1> QED
  BY <1>1, <1>2 DEF LocalMapAssumption, Span

\* Mmap makes a mapping, or fails.
LEMMA MmapDoes ==
  ASSUME LocalMapAssumption, TypeOK, NEW kind \in Kinds, NEW fixed \in BOOLEAN, NEW span \in Spans,
         NEW p \in Prots, NEW fd \in Fds \cup {-1}, Mmap(kind, fixed, span, p, fd)
  PROVE  Fails \/ \E e : Maps(e)
<1> DEFINE addr  == span[1]
           len   == span[2]
           over  == fixed /\ InUse(addr)
           dup   == kind = "shared"
           entry == [addr |-> addr, len |-> len, kind |-> kind, fixed |-> fixed,
                     allocated |-> fixed /\ ~over, prot |-> p,
                     fd |-> IF dup THEN LowestFree ELSE fd]
           pages == Span(addr, len)
<1>1. PICK failed \in Stages(kind) :
        LET leak == dup /\ failed \in {"alias", "malloc"}
            done == failed = "none"
        IN  /\ dup /\ failed \notin {"memory", "dup"} => Fds \ DOMAIN fds # {}
            /\ obj' = IF done /\ ~over THEN With(obj, addr, [len |-> len, kind |-> kind]) ELSE obj
            /\ maps' = IF done THEN <<entry>> \o maps ELSE maps
            /\ fds' = IF dup /\ (done \/ leak) THEN With(fds, LowestFree, "library")
                      ELSE IF failed \in {"read", "protect"} THEN Without(fds, Closed(entry))
                      ELSE fds
            /\ leaked' = IF leak THEN leaked \cup {LowestFree} ELSE leaked
            /\ dirty' = IF ~Anon(kind) /\ over /\ failed \notin {"memory", "malloc"}
                          THEN dirty \ pages ELSE dirty
  BY DEF Mmap
<1>2. /\ ~(fixed /\ Shared(kind)) /\ UNCHANGED <<mine, file>>
      /\ IF Anon(kind) THEN fd \in AnonFds ELSE fd \in mine
      /\ IF fixed THEN MayFix(addr, len) ELSE FreeSpan(addr, len)
  BY DEF Mmap
<1>3. addr \in Pages /\ len \in Pages /\ pages \subseteq Pages
  BY SpanPages
<1>4. dirty' \subseteq dirty
  BY <1>1
<1>5. /\ entry.addr = addr /\ entry.len = len /\ entry.kind = kind /\ entry.fixed = fixed
      /\ entry.allocated = (fixed /\ ~over) /\ entry.fd = IF dup THEN LowestFree ELSE fd
  OBVIOUS
<1>6. Owns(entry) <=> ~over
  BY <1>5 DEF Owns
<1>7. dup /\ failed \notin {"memory", "dup"} => LowestFree \in Fds \ DOMAIN fds
  BY <1>1, FreeFd
<1>8. Anon(kind) => ~dup
  BY DEF Anon
<1>9. CASE failed = "none"
  <2>1. entry.fd \in Fds \cup AnonFds
    BY <1>2, <1>5, <1>7, <1>9 DEF LocalMapAssumption, TypeOK
  <2>2. entry \in Entries
    BY <1>3, <2>1 DEF Entries
  <2>3. maps' = <<entry>> \o maps /\ leaked' = leaked
    BY <1>1, <1>9
  <2>4. \/ Owns(entry) /\ FreeSpan(addr, len) /\ obj' = With(obj, addr, [len |-> len, kind |-> kind])
        \/ /\ ~Owns(entry) /\ obj' = obj
           /\ \E b \in DOMAIN obj : Span(addr, len) \subseteq Of(b) /\ obj[b].kind \in FixedOver
    BY <1>1, <1>2, <1>6, <1>9 DEF MayFix, FreeSpan, InUse
  <2>5. \/ kind = "shared" /\ entry.fd \in Fds \ DOMAIN fds /\ fds' = With(fds, entry.fd, "library")
        \/ kind # "shared" /\ fds' = fds
    BY <1>1, <1>5, <1>7, <1>9
  <2> HIDE DEF entry
  <2> QED
    BY <1>2, <1>4, <1>5, <1>8, <2>2, <2>3, <2>4, <2>5 DEF Maps, FreeSpan
<1>10. CASE failed # "none"
  <2>1. UNCHANGED <<obj, maps, mine, file>>
    BY <1>1, <1>2, <1>10
  <2>2. CASE dup /\ failed \in {"alias", "malloc"}
    BY <1>1, <1>4, <1>7, <2>1, <2>2 DEF Fails
  <2>3. CASE ~(dup /\ failed \in {"alias", "malloc"}) /\ failed \in {"read", "protect"}
    <3>1. Closed(entry) \subseteq AnonFds \cup (Fds \ DOMAIN fds)
      BY <1>2, <1>5, <1>7, <2>3 DEF Closed, Shared, Anon
    <3>2. fds' = Without(fds, Closed(entry)) /\ leaked' = leaked
      BY <1>1, <1>10, <2>3
    <3> QED
      BY <1>4, <2>1, <3>1, <3>2 DEF Fails
  <2>4. CASE ~(dup /\ failed \in {"alias", "malloc"}) /\ failed \notin {"read", "protect"}
    BY <1>1, <1>4, <1>10, <2>1, <2>4 DEF Fails
  <2> QED
    BY <2>2, <2>3, <2>4
<1> QED
  BY <1>9, <1>10

\* Munmap unmaps the first entry with just these pages.
LEMMA MunmapDoes ==
  ASSUME FormInv, NEW addr, NEW len, Munmap(addr, len)
  PROVE  \E i : Unmaps(i)
<1> DEFINE i == Exact(addr, len)
<1>1. i # 0
  BY DEF Munmap
<1>2. i \in DOMAIN maps
  <2>1. DOMAIN maps = 1..Len(maps) /\ Len(maps) \in Nat
    BY LenProperties DEF FormInv
  <2>2. {j \in DOMAIN maps : maps[j].addr = addr /\ maps[j].len = len} \in SUBSET (1..Len(maps))
    BY <2>1
  <2> QED
    BY <1>1, <2>1, <2>2, FirstIs DEF Exact
<1>3. /\ maps' = RemoveAt(maps, i)
      /\ obj' = Without(obj, Freed(maps[i])) /\ fds' = Without(fds, Closed(maps[i]))
      /\ dirty' = dirty \ UNION {Of(b) : b \in Freed(maps[i])}
      /\ UNCHANGED <<mine, leaked>>
      /\ file' \subseteq file \cup Written(addr, len)
  BY DEF Munmap
<1> HIDE DEF i
<1> QED
  BY <1>2, <1>3 DEF Unmaps

\* The steps that change protections and the file only.
LEMMA OthersServe ==
  ASSUME ForkChild \/ (\E a, n : Msync(a, n) \/ \E p \in Prots : Mprotect(a, n, p))
  PROVE  Serves
BY DEF ForkChild, Msync, Mprotect, Serves

\* What a step does.
Does ==
  \/ Fails \/ (\E e : Maps(e)) \/ (\E i : Unmaps(i)) \/ Serves
  \/ (\E q \in Pages : Store(q)) \/ OpenFd \/ (\E f \in Fds : CloseFd(f))
  \/ UNCHANGED vars

\* Every step does one of these.
LEMMA NextDoes ==
  ASSUME LocalMapAssumption, TypeOK, FormInv, [Next]_vars
  PROVE  Does
BY MmapDoes, MunmapDoes, OthersServe DEF Next, Does

\* Protections stay protections.
LEMMA ProtStep ==
  ASSUME FormInv, prot \in [Pages -> Prots], [Next]_vars
  PROVE  prot' \in [Pages -> Prots]
<1>1. \A f \in [Pages -> Prots] : \A S : \A v \in Prots : Set(f, S, v) \in [Pages -> Prots]
  BY DEF Set
<1>2. "rw" \in Prots
  BY DEF Prots
<1>3. ASSUME NEW kind \in Kinds, NEW fixed \in BOOLEAN, NEW span \in Spans,
             NEW p \in Prots, NEW fd \in Fds \cup {-1}, Mmap(kind, fixed, span, p, fd)
      PROVE  prot' \in [Pages -> Prots]
  <2>1. \/ prot' = prot \/ \E S : prot' = Set(prot, S, p) \/ prot' = Set(prot, S, "rw")
    BY <1>3 DEF Mmap
  <2> QED
    BY <1>1, <1>2, <2>1
<1>4. ASSUME NEW addr, NEW len, Munmap(addr, len) PROVE prot' \in [Pages -> Prots]
  <2>1. \E S : prot' = Set(prot, S, "rw")
    BY <1>4 DEF Munmap
  <2> QED
    BY <1>1, <1>2, <2>1
<1>5. ASSUME NEW addr, NEW len, NEW p \in Prots, Mprotect(addr, len, p)
      PROVE  prot' \in [Pages -> Prots]
  BY <1>1, <1>5 DEF Mprotect
<1>6. ASSUME ForkChild PROVE prot' \in [Pages -> Prots]
  <2>1. DOMAIN maps = 1..Len(maps) /\ Len(maps) \in Nat
    BY LenProperties DEF FormInv
  <2>2. ASSUME NEW S \in SUBSET DOMAIN maps, S # {} PROVE maps[Max(S)].prot \in Prots
    <3>1. Max(S) \in DOMAIN maps
      BY <2>1, <2>2, Greatest
    <3>2. maps[Max(S)] \in Entries
      BY <3>1, ElementOfSeq DEF FormInv
    <3> QED
      BY <3>2 DEF Entries
  <2> DEFINE On(q) == {i \in DOMAIN maps : maps[i].kind = "shared anon"
                                             /\ q \in Span(maps[i].addr, maps[i].len)}
  <2>3. prot' = [q \in Pages |-> IF On(q) = {} THEN prot[q] ELSE maps[Max(On(q))].prot]
    BY <1>6 DEF ForkChild
  <2>4. \A q \in Pages : On(q) \in SUBSET DOMAIN maps
    OBVIOUS
  <2> HIDE DEF On
  <2> QED
    BY <2>2, <2>3, <2>4
<1> QED
  BY <1>3, <1>4, <1>5, <1>6 DEF Next, Msync, Store, OpenFd, CloseFd, vars

-----------------------------------------------------------------------------

(***************************************************************************)
(* Every step preserves the inductive invariant.                           *)
(***************************************************************************)

\* A range of pages begins with its first page.
LEMMA StartsIn ==
  ASSUME LocalMapAssumption
  PROVE  \A a, n \in Pages : a \in Span(a, n) /\ a \in Nat /\ n \in Nat
<1>1. Cardinality(Pages) \in Nat
  BY FS_CardinalityType DEF LocalMapAssumption
<1> QED
  BY <1>1 DEF LocalMapAssumption, Span

\* The objects after a mapping was made in free memory.
LEMMA WithObject ==
  ASSUME LocalMapAssumption, FormInv, NEW e \in Entries, obj' = With(obj, e.addr, [len |-> e.len, kind |-> e.kind]),
         Span(e.addr, e.len) \cap Used = {}
  PROVE  /\ e.addr \notin DOMAIN obj /\ DOMAIN obj' = DOMAIN obj \cup {e.addr}
         /\ obj'[e.addr] = [len |-> e.len, kind |-> e.kind]
         /\ \A b \in DOMAIN obj : obj'[b] = obj[b]
<1>1. e.addr \in Pages /\ e.len \in Pages /\ e.addr \in Span(e.addr, e.len)
  BY StartsIn DEF Entries
<1>2. ASSUME e.addr \in DOMAIN obj PROVE FALSE
  <2>1. e.addr \in Of(e.addr)
    BY <1>1, <1>2, StartsIn DEF FormInv, Of, Objects
  <2> QED
    BY <1>1, <1>2, <2>1 DEF Used
<1> QED
  BY <1>1, <1>2 DEF With

\* Objects and entries stay within the addresses.
LEMMA FormStep ==
  ASSUME LocalMapAssumption, TypeOK, FormInv, Does
  PROVE  FormInv'
<1>1. ASSUME NEW e, Maps(e) PROVE FormInv'
  BY <1>1, Added DEF FormInv, Maps, With, Entries, Objects, Of
<1>2. ASSUME NEW i, Unmaps(i) PROVE FormInv'
  BY <1>2, Removed DEF FormInv, Unmaps, Without, Of
<1> QED
  BY <1>1, <1>2 DEF Does, Fails, Serves, Store, OpenFd, CloseFd, vars, FormInv, Of

\* Pages of objects and stores.
LEMMA TypeStep ==
  ASSUME LocalMapAssumption, TypeOK, FormInv, FormInv', Does, prot' \in [Pages -> Prots]
  PROVE  TypeOK'
<1> DEFINE Lie == \A b, c \in DOMAIN obj : b # c => Of(b) \cap Of(c) = {}
<1>1. Lie' /\ dirty' \subseteq Used'
  <2>1. CASE UNCHANGED obj /\ dirty' \subseteq Used
    <3>1. Used' = Used
      BY <2>1 DEF Used, Of
    <3>2. Lie'
      BY <2>1 DEF TypeOK, Of
    <3> QED
      BY <2>1, <3>1, <3>2
  <2>2. ASSUME NEW e, Maps(e), Owns(e) PROVE Lie' /\ dirty' \subseteq Used'
    <3>1. /\ e.addr \notin DOMAIN obj /\ DOMAIN obj' = DOMAIN obj \cup {e.addr}
          /\ obj'[e.addr] = [len |-> e.len, kind |-> e.kind]
          /\ \A b \in DOMAIN obj : obj'[b] = obj[b]
      BY <2>2, WithObject DEF Maps
    <3>2. /\ Of(e.addr)' = Span(e.addr, e.len) /\ Span(e.addr, e.len) \cap Used = {}
          /\ \A b \in DOMAIN obj : Of(b)' = Of(b) /\ Of(b) \subseteq Used
      BY <2>2, <3>1 DEF Of, Maps, Used
    <3>3. Used \subseteq Used'
      BY <3>1, <3>2 DEF Used
    <3> QED
      BY <2>2, <3>1, <3>2, <3>3 DEF TypeOK, Maps
  <2>3. ASSUME NEW i, Unmaps(i) PROVE Lie' /\ dirty' \subseteq Used'
    <3>1. /\ DOMAIN obj' = DOMAIN obj \ Freed(maps[i])
          /\ \A b \in DOMAIN obj' : Of(b)' = Of(b)
      BY <2>3 DEF Unmaps, Without, Of
    <3>2. dirty' \subseteq UNION {Of(b) : b \in DOMAIN obj'}
      BY <2>3, <3>1 DEF Unmaps, TypeOK, Used
    <3> QED
      BY <3>1, <3>2 DEF TypeOK, Used
  <2>4. ASSUME NEW q \in Pages, Store(q) PROVE UNCHANGED obj /\ dirty' \subseteq Used
    BY <2>4 DEF Store, TypeOK
  <2> QED
    BY <2>1, <2>2, <2>3, <2>4 DEF Does, Fails, Maps, Serves, OpenFd, CloseFd, vars, TypeOK
<1>2. file' \subseteq Pages
  <2>1. dirty \subseteq Pages
    BY DEF TypeOK, Used, FormInv
  <2>2. \A a, n : Written(a, n) \subseteq Pages
    BY <2>1 DEF Written
  <2> QED
    BY <2>2 DEF Does, Fails, Maps, Unmaps, Serves, Store, OpenFd, CloseFd, vars, TypeOK
<1>3. \A k \in DOMAIN maps' : Span(maps'[k].addr, maps'[k].len) \subseteq Pages
  <2>1. \A k \in DOMAIN maps' : maps'[k] \in Entries
    BY DEF FormInv
  <2> QED
    BY <2>1 DEF Entries
<1>4. DOMAIN fds' \subseteq Fds /\ mine' \subseteq Fds /\ leaked' \subseteq Fds
  BY FreeFd DEF Does, Fails, Maps, Unmaps, Serves, Store, OpenFd, CloseFd, With, Without, vars,
     TypeOK
<1> QED
  BY <1>1, <1>2, <1>3, <1>4 DEF TypeOK

\* The entries after one was put in front.
LEMMA Places ==
  ASSUME FormInv
  PROVE  /\ \A e : Maps(e) =>
              /\ 1 \in DOMAIN maps' /\ maps'[1] = e /\ e \in Entries
              /\ \A k \in DOMAIN maps' : k = 1 \/ (k > 1 /\ k - 1 \in DOMAIN maps /\ maps'[k] = maps[k - 1])
              /\ \A k \in DOMAIN maps : k + 1 \in DOMAIN maps' /\ maps'[k + 1] = maps[k] /\ k > 0
         /\ \A k \in DOMAIN maps : k \in Nat /\ maps[k] \in Entries
<1>1. \A k \in DOMAIN maps : k \in Nat /\ maps[k] \in Entries
  BY LenProperties, ElementOfSeq DEF FormInv
<1>2. ASSUME NEW e, Maps(e)
      PROVE  /\ 1 \in DOMAIN maps' /\ maps'[1] = e /\ e \in Entries
             /\ \A k \in DOMAIN maps' : k = 1 \/ (k > 1 /\ k - 1 \in DOMAIN maps /\ maps'[k] = maps[k - 1])
             /\ \A k \in DOMAIN maps : k + 1 \in DOMAIN maps' /\ maps'[k + 1] = maps[k] /\ k > 0
  <2>1. /\ maps \in Seq(Entries) /\ e \in Entries /\ maps' = <<e>> \o maps
    BY <1>2 DEF FormInv, Maps
  <2>2. \A k \in DOMAIN maps' : k = 1 \/ (k > 1 /\ k - 1 \in DOMAIN maps)
    BY <2>1, Added
  <2>3. /\ 1 \in DOMAIN maps' /\ maps'[1] = e
        /\ \A k \in DOMAIN maps : k > 0 /\ k + 1 \in DOMAIN maps' /\ maps'[k + 1] = maps[k]
    BY <2>1, Added
  <2>4. ASSUME NEW k \in DOMAIN maps', k > 1, k - 1 \in DOMAIN maps PROVE maps'[k] = maps[k - 1]
    <3>1. maps'[(k - 1) + 1] = maps[k - 1]
      BY <2>3, <2>4
    <3>2. k \in Nat
      BY <2>1, Added, LenProperties
    <3>3. (k - 1) + 1 = k
      BY <3>2
    <3> QED
      BY <3>1, <3>3
  <2> QED
    BY <2>1, <2>2, <2>3, <2>4
<1> QED
  BY <1>1, <1>2

\* The entries after one was removed: the others, in their order.
LEMMA Removal ==
  ASSUME FormInv, NEW i, Unmaps(i)
  PROVE  \E f \in [DOMAIN maps' -> DOMAIN maps] :
           /\ \A k \in DOMAIN maps' : maps'[k] = maps[f[k]] /\ f[k] # i
           /\ \A j, k \in DOMAIN maps' : j < k => f[j] < f[k]
           /\ \A j, k \in DOMAIN maps' : f[j] = f[k] => j = k
           /\ \A j \in DOMAIN maps : j # i => \E k \in DOMAIN maps' : f[k] = j
<1>1. /\ maps \in Seq(Entries) /\ i \in DOMAIN maps /\ maps' = RemoveAt(maps, i)
      /\ DOMAIN maps = 1..Len(maps) /\ Len(maps) \in Nat
  BY LenProperties DEF FormInv, Unmaps
<1>2. /\ DOMAIN maps' = 1..(Len(maps) - 1)
      /\ \A k \in 1..(Len(maps) - 1) : maps'[k] = IF k < i THEN maps[k] ELSE maps[k + 1]
  BY <1>1, Removed
<1> DEFINE f == [k \in DOMAIN maps' |-> IF k < i THEN k ELSE k + 1]
<1>3. f \in [DOMAIN maps' -> DOMAIN maps]
  BY <1>1, <1>2
<1>4. \A k \in DOMAIN maps' : f[k] = (IF k < i THEN k ELSE k + 1) /\ k \in Int
  BY <1>2
<1> HIDE DEF f
<1>5. \A k \in DOMAIN maps' : maps'[k] = maps[f[k]] /\ f[k] # i
  BY <1>1, <1>2, <1>4
<1>6. \A j, k \in DOMAIN maps' : j < k => f[j] < f[k]
  BY <1>1, <1>2, <1>4
<1>7. \A j, k \in DOMAIN maps' : f[j] = f[k] => j = k
  BY <1>1, <1>2, <1>4
<1>8. ASSUME NEW j \in DOMAIN maps, j # i PROVE \E k \in DOMAIN maps' : f[k] = j
  <2>1. CASE j < i
    <3>1. j \in DOMAIN maps' /\ f[j] = j
      BY <1>1, <1>2, <1>4, <2>1
    <3> QED
      BY <3>1
  <2>2. CASE j > i
    <3>1. j - 1 \in DOMAIN maps' /\ f[j - 1] = j
      BY <1>1, <1>2, <1>4, <2>2
    <3> QED
      BY <3>1
  <2> QED
    BY <1>1, <1>8, <2>1, <2>2
<1> QED
  BY <1>3, <1>5, <1>6, <1>7, <1>8

\* Owners.
LEMMA OwnerStep ==
  ASSUME LocalMapAssumption, TypeOK, FormInv, FormInv', OwnerInv, Does
  PROVE  OwnerInv'
<1>1. ASSUME NEW e, Maps(e) PROVE OwnerInv'
  <2>1. /\ 1 \in DOMAIN maps' /\ maps'[1] = e /\ e \in Entries
        /\ \A k \in DOMAIN maps' :
             k = 1 \/ (k > 1 /\ k - 1 \in DOMAIN maps /\ maps'[k] = maps[k - 1])
        /\ \A k \in DOMAIN maps : k + 1 \in DOMAIN maps' /\ maps'[k + 1] = maps[k] /\ k > 0
    BY <1>1, Places
  <2>2. \A k \in DOMAIN maps' : k \in Nat
    BY LenProperties DEF FormInv
  <2>3. \A k \in DOMAIN maps' : Shared(maps'[k].kind) => ~maps'[k].fixed
    BY <1>1, <2>1 DEF OwnerInv, Maps
  <2>4. CASE ~Owns(e)
    <3>1. obj' = obj
      BY <1>1, <2>4 DEF Maps
    <3>2. \A k \in DOMAIN maps' : Owns(maps'[k]) => k - 1 \in DOMAIN maps /\ maps'[k] = maps[k - 1]
      BY <2>1, <2>4
    <3>3. ASSUME NEW j \in DOMAIN maps', NEW k \in DOMAIN maps', Owns(maps'[j]), Owns(maps'[k]),
                 maps'[j].addr = maps'[k].addr
          PROVE  j = k
      <4>1. j - 1 = k - 1
        BY <3>2, <3>3 DEF OwnerInv
      <4> QED
        BY <2>2, <4>1
    <3>4. ASSUME NEW b \in DOMAIN obj, obj[b].kind # "program"
          PROVE  \E k \in DOMAIN maps' : Owns(maps'[k]) /\ maps'[k].addr = b
      BY <2>1, <3>4 DEF OwnerInv
    <3> QED
      BY <2>3, <3>1, <3>2, <3>3, <3>4 DEF OwnerInv
  <2>5. CASE Owns(e)
    <3>1. /\ e.addr \notin DOMAIN obj /\ DOMAIN obj' = DOMAIN obj \cup {e.addr}
          /\ obj'[e.addr] = [len |-> e.len, kind |-> e.kind]
          /\ \A b \in DOMAIN obj : obj'[b] = obj[b]
      BY <1>1, <2>5, WithObject DEF Maps
    <3>2. \A k \in DOMAIN maps' : Owns(maps'[k]) =>
            \/ k = 1
            \/ /\ k - 1 \in DOMAIN maps /\ maps'[k] = maps[k - 1]
               /\ maps[k - 1].addr \in DOMAIN obj /\ maps[k - 1].addr # e.addr
               /\ obj[maps[k - 1].addr] = [len |-> maps[k - 1].len, kind |-> maps[k - 1].kind]
      BY <2>1, <3>1 DEF OwnerInv
    <3>3. ASSUME NEW j \in DOMAIN maps', NEW k \in DOMAIN maps', Owns(maps'[j]), Owns(maps'[k]),
                 maps'[j].addr = maps'[k].addr
          PROVE  j = k
      <4>1. j = 1 <=> k = 1
        BY <2>1, <3>2, <3>3
      <4>2. CASE j # 1 /\ k # 1
        <5>1. /\ j - 1 \in DOMAIN maps /\ k - 1 \in DOMAIN maps
              /\ maps'[j] = maps[j - 1] /\ maps'[k] = maps[k - 1]
          BY <3>2, <3>3, <4>2
        <5>2. j - 1 = k - 1
          BY <3>3, <5>1 DEF OwnerInv
        <5> QED
          BY <2>2, <5>2
      <4> QED
        BY <4>1, <4>2
    <3>4. ASSUME NEW b \in DOMAIN obj', obj'[b].kind # "program"
          PROVE  \E k \in DOMAIN maps' : Owns(maps'[k]) /\ maps'[k].addr = b
      BY <2>1, <2>5, <3>1, <3>4 DEF OwnerInv
    <3> QED
      BY <2>1, <2>3, <3>1, <3>2, <3>3, <3>4 DEF OwnerInv
  <2> QED
    BY <2>4, <2>5
<1>2. ASSUME NEW i, Unmaps(i) PROVE OwnerInv'
  <2>1. PICK f \in [DOMAIN maps' -> DOMAIN maps] :
           /\ \A k \in DOMAIN maps' : maps'[k] = maps[f[k]] /\ f[k] # i
           /\ \A j, k \in DOMAIN maps' : f[j] = f[k] => j = k
           /\ \A j \in DOMAIN maps : j # i => \E k \in DOMAIN maps' : f[k] = j
    BY <1>2, Removal
  <2>2. /\ i \in DOMAIN maps
        /\ DOMAIN obj' = DOMAIN obj \ (IF Owns(maps[i]) THEN {maps[i].addr} ELSE {})
        /\ \A b \in DOMAIN obj' : obj'[b] = obj[b]
    BY <1>2 DEF Unmaps, Without, Freed
  <2>3. ASSUME NEW k \in DOMAIN maps', Owns(maps'[k])
        PROVE  /\ maps'[k].addr \in DOMAIN obj'
               /\ obj'[maps'[k].addr] = [len |-> maps'[k].len, kind |-> maps'[k].kind]
    <3>1. f[k] \in DOMAIN maps /\ maps'[k] = maps[f[k]] /\ f[k] # i
      BY <2>1
    <3>2. /\ maps'[k].addr \in DOMAIN obj
          /\ obj[maps'[k].addr] = [len |-> maps'[k].len, kind |-> maps'[k].kind]
          /\ Owns(maps[i]) => maps'[k].addr # maps[i].addr
      BY <2>2, <2>3, <3>1 DEF OwnerInv
    <3> QED
      BY <2>2, <3>2
  <2>4. ASSUME NEW b \in DOMAIN obj', obj'[b].kind # "program"
        PROVE  \E k \in DOMAIN maps' : Owns(maps'[k]) /\ maps'[k].addr = b
    <3>1. b \in DOMAIN obj /\ obj[b].kind # "program" /\ (Owns(maps[i]) => b # maps[i].addr)
      BY <2>2, <2>4
    <3>2. PICK j \in DOMAIN maps : Owns(maps[j]) /\ maps[j].addr = b
      BY <3>1 DEF OwnerInv
    <3>3. j # i
      BY <3>1, <3>2
    <3> QED
      BY <2>1, <3>2, <3>3
  <2>5. \A j, k \in DOMAIN maps' :
          Owns(maps'[j]) /\ Owns(maps'[k]) /\ maps'[j].addr = maps'[k].addr => j = k
    BY <2>1 DEF OwnerInv
  <2>6. \A k \in DOMAIN maps' : Shared(maps'[k].kind) => ~maps'[k].fixed
    BY <2>1 DEF OwnerInv
  <2> QED
    BY <2>3, <2>4, <2>5, <2>6 DEF OwnerInv
<1> QED
  BY <1>1, <1>2 DEF Does, Fails, Serves, Store, OpenFd, CloseFd, vars, OwnerInv

\* Programs pass -1, which is no descriptor, for an anonymous mapping.
NoFdForAnon == AnonFds \cap Fds = {}

Held == {k \in DOMAIN maps : maps[k].kind = "shared"}
Library == {fd \in DOMAIN fds : fds[fd] = "library"}

\* Descriptors.
LEMMA FdStep ==
  ASSUME NoFdForAnon, LocalMapAssumption, TypeOK, FormInv, FormInv', FdInv, Does
  PROVE  FdInv'
<1>1. FdInv <=>
        /\ Library = {maps[k].fd : k \in Held} \cup leaked
        /\ \A j, k \in Held : maps[j].fd = maps[k].fd => j = k
        /\ \A fd \in mine : fd \in DOMAIN fds /\ fds[fd] = "program"
        /\ \A k \in Held : maps[k].fd \in Fds \ leaked
        /\ \A k \in DOMAIN maps : Anon(maps[k].kind) => maps[k].fd \in AnonFds
  BY DEF FdInv, DescriptorsOwned, Held, Library
<1>2. FdInv' <=>
        /\ Library' = {maps'[k].fd : k \in Held'} \cup leaked'
        /\ \A j, k \in Held' : maps'[j].fd = maps'[k].fd => j = k
        /\ \A fd \in mine' : fd \in DOMAIN fds' /\ fds'[fd] = "program"
        /\ \A k \in Held' : maps'[k].fd \in Fds \ leaked'
        /\ \A k \in DOMAIN maps' : Anon(maps'[k].kind) => maps'[k].fd \in AnonFds
  BY DEF FdInv, DescriptorsOwned, Held, Library
<1>3. ASSUME NEW e, Maps(e) PROVE FdInv'
  <2>1. /\ 1 \in DOMAIN maps' /\ maps'[1] = e
        /\ \A k \in DOMAIN maps' :
             k = 1 \/ (k > 1 /\ k - 1 \in DOMAIN maps /\ maps'[k] = maps[k - 1])
        /\ \A k \in DOMAIN maps : k + 1 \in DOMAIN maps' /\ maps'[k + 1] = maps[k] /\ k > 0
    BY <1>3, Places
  <2>2. \A k \in DOMAIN maps' : k \in Nat
    BY LenProperties DEF FormInv
  <2>3. {maps'[k].fd : k \in Held'} =
          {maps[k].fd : k \in Held} \cup (IF e.kind = "shared" THEN {e.fd} ELSE {})
    <3>1. ASSUME NEW k \in Held' 
          PROVE  maps'[k].fd \in {maps[j].fd : j \in Held} \cup (IF e.kind = "shared" THEN {e.fd} ELSE {})
      BY <2>1 DEF Held
    <3>2. ASSUME NEW k \in Held PROVE maps[k].fd \in {maps'[j].fd : j \in Held'}
      <4>1. k + 1 \in Held' /\ maps'[k + 1].fd = maps[k].fd
        BY <2>1 DEF Held
      <4> QED
        BY <4>1
    <3>3. e.kind = "shared" => e.fd \in {maps'[j].fd : j \in Held'}
      <4>1. e.kind = "shared" => 1 \in Held' /\ maps'[1].fd = e.fd
        BY <2>1 DEF Held
      <4> QED
        BY <4>1
    <3> QED
      BY <3>1, <3>2, <3>3
  <2>4. Library' = Library \cup (IF e.kind = "shared" THEN {e.fd} ELSE {})
    BY <1>3 DEF Maps, Library, With
  <2>5. \A k \in Held : maps[k].fd \in Library /\ (e.kind = "shared" => maps[k].fd # e.fd)
    BY <1>1, <1>3 DEF Maps, Library
  <2>6. ASSUME NEW j \in Held', NEW k \in Held', maps'[j].fd = maps'[k].fd PROVE j = k
    <3>1. \A l \in Held' : \/ l = 1 /\ e.kind = "shared" /\ maps'[l] = e
                           \/ l > 1 /\ l - 1 \in Held /\ maps'[l] = maps[l - 1]
      BY <2>1 DEF Held
    <3>2. CASE j > 1 /\ k > 1
      <4>1. j - 1 = k - 1
        BY <1>1, <2>6, <3>1, <3>2
      <4> QED
        BY <2>2, <4>1 DEF Held
    <3> QED
      BY <2>5, <2>6, <3>1, <3>2
  <2>7. \A fd \in mine' : fd \in DOMAIN fds' /\ fds'[fd] = "program"
    BY <1>1, <1>3 DEF Maps, With
  <2>8. \A k \in Held' : maps'[k].fd \in Fds \ leaked'
    BY <1>1, <1>3, <2>1 DEF Maps, Held, Library
  <2>9. \A k \in DOMAIN maps' : Anon(maps'[k].kind) => maps'[k].fd \in AnonFds
    BY <1>1, <1>3, <2>1 DEF Maps
  <2>10. leaked' = leaked
    BY <1>3 DEF Maps
  <2> QED
    BY <1>1, <1>2, <2>3, <2>4, <2>6, <2>7, <2>8, <2>9, <2>10
<1>4. ASSUME NEW i, Unmaps(i) PROVE FdInv'
  <2>1. PICK f \in [DOMAIN maps' -> DOMAIN maps] :
           /\ \A k \in DOMAIN maps' : maps'[k] = maps[f[k]] /\ f[k] # i
           /\ \A j, k \in DOMAIN maps' : f[j] = f[k] => j = k
           /\ \A j \in DOMAIN maps : j # i => \E k \in DOMAIN maps' : f[k] = j
    BY <1>4, Removal
  <2> DEFINE C == IF i \in Held THEN {maps[i].fd} ELSE {}
  <2>2. Closed(maps[i]) = C \/ (C = {} /\ Closed(maps[i]) \cap Fds = {})
    <3>1. i \in DOMAIN maps
      BY <1>4 DEF Unmaps
    <3>2. CASE maps[i].kind = "shared"
      BY <3>1, <3>2 DEF Closed, Shared, Held
    <3>3. CASE maps[i].kind = "shared anon"
      <4>1. C = {} /\ Closed(maps[i]) = {maps[i].fd} /\ Anon(maps[i].kind)
        BY <3>3 DEF Closed, Shared, Anon, Held
      <4> QED
        BY <1>1, <3>1, <4>1 DEF NoFdForAnon
    <3>4. CASE ~Shared(maps[i].kind)
      BY <3>4 DEF Closed, Shared, Held
    <3> QED
      BY <3>2, <3>3, <3>4 DEF Shared
  <2>3. /\ DOMAIN fds' = DOMAIN fds \ C /\ (\A fd \in DOMAIN fds' : fds'[fd] = fds[fd])
        /\ leaked' = leaked /\ mine' = mine
    BY <1>4, <2>2 DEF Unmaps, Without, TypeOK
  <2>4. {maps'[k].fd : k \in Held'} = {maps[k].fd : k \in Held} \ C
    <3>1. ASSUME NEW k \in Held' PROVE maps'[k].fd \in {maps[j].fd : j \in Held} \ C
      <4>1. f[k] \in Held /\ f[k] # i /\ maps'[k] = maps[f[k]]
        BY <2>1 DEF Held
      <4> QED
        BY <1>1, <4>1
    <3>2. ASSUME NEW j \in Held, maps[j].fd \notin C PROVE maps[j].fd \in {maps'[k].fd : k \in Held'}
      <4>1. j # i
        BY <3>2
      <4>2. PICK k \in DOMAIN maps' : f[k] = j
        BY <2>1, <4>1 DEF Held
      <4>3. k \in Held' /\ maps'[k].fd = maps[j].fd
        BY <2>1, <4>2 DEF Held
      <4> QED
        BY <4>3
    <3> QED
      BY <3>1, <3>2
  <2>5. Library' = Library \ C /\ C \cap leaked = {} /\ C \subseteq Library
    BY <1>1, <2>3 DEF Library
  <2>6. \A j, k \in Held' : maps'[j].fd = maps'[k].fd => j = k
    BY <1>1, <2>1 DEF Held
  <2>7. \A fd \in mine' : fd \in DOMAIN fds' /\ fds'[fd] = "program"
    BY <1>1, <2>3, <2>5 DEF Library
  <2>8. /\ \A k \in Held' : maps'[k].fd \in Fds \ leaked'
        /\ \A k \in DOMAIN maps' : Anon(maps'[k].kind) => maps'[k].fd \in AnonFds
    BY <1>1, <2>1, <2>3 DEF Held
  <2> HIDE DEF C
  <2> QED
    BY <1>1, <1>2, <2>3, <2>4, <2>5, <2>6, <2>7, <2>8
<1>5. CASE UNCHANGED <<maps, fds, leaked, mine>>
  BY <1>5 DEF FdInv, DescriptorsOwned
<1>6. CASE Fails
  <2>1. Held' = Held /\ maps' = maps /\ mine' = mine
    BY <1>6 DEF Fails, Held
  <2>2. ASSUME NEW g \in Fds \ DOMAIN fds, fds' = With(fds, g, "library"), leaked' = leaked \cup {g}
        PROVE  FdInv'
    <3>1. Library' = Library \cup {g} /\ g \notin Library
      BY <2>2 DEF Library, With
    <3>2. \A fd \in mine : fd \in DOMAIN fds' /\ fds'[fd] = "program"
      BY <1>1, <2>2 DEF With
    <3>3. \A k \in Held : maps[k].fd \in Library /\ maps[k].fd \notin leaked'
      BY <1>1, <2>2, <3>1
    <3> QED
      BY <1>1, <1>2, <2>1, <2>2, <3>1, <3>2, <3>3
  <2>3. ASSUME NEW F \in SUBSET (AnonFds \cup (Fds \ DOMAIN fds)), fds' = Without(fds, F),
               leaked' = leaked
        PROVE  FdInv'
    <3>1. DOMAIN fds' = DOMAIN fds /\ \A fd \in DOMAIN fds : fds'[fd] = fds[fd]
      BY <2>3 DEF Without, NoFdForAnon, TypeOK
    <3>2. Library' = Library
      BY <3>1 DEF Library
    <3> QED
      BY <1>1, <1>2, <2>1, <2>3, <3>1, <3>2
  <2> QED
    BY <1>5, <1>6, <2>2, <2>3 DEF Fails
<1>7. CASE OpenFd
  <2>1. LowestFree \in Fds \ DOMAIN fds
    BY <1>7, FreeFd DEF OpenFd
  <2>2. Library' = Library /\ maps' = maps /\ leaked' = leaked /\ Held' = Held
    BY <1>7, <2>1 DEF OpenFd, Library, With, Held
  <2>3. \A fd \in mine' : fd \in DOMAIN fds' /\ fds'[fd] = "program"
    BY <1>1, <1>7 DEF OpenFd, With
  <2> QED
    BY <1>1, <1>2, <2>2, <2>3
<1>8. ASSUME NEW g \in Fds, CloseFd(g) PROVE FdInv'
  <2>1. Library' = Library /\ maps' = maps /\ leaked' = leaked /\ Held' = Held
    BY <1>1, <1>8 DEF CloseFd, Library, Without, Held
  <2>2. \A fd \in mine' : fd \in DOMAIN fds' /\ fds'[fd] = "program"
    BY <1>1, <1>8 DEF CloseFd, Without
  <2> QED
    BY <1>1, <1>2, <2>1, <2>2
<1> QED
  BY <1>3, <1>4, <1>5, <1>6, <1>7, <1>8 DEF Does, Serves, Store, vars

\* Programs put no fixed mapping on shared memory of a file.
NotOverShared == "shared" \notin FixedOver

\* The entry that msync() finds is the newest that contains the range.
LEMMA Newest ==
  ASSUME FormInv, NEW a, NEW n, Containing(a, n) # 0
  PROVE  /\ Containing(a, n) \in DOMAIN maps
         /\ Covers(maps[Containing(a, n)], a, n)
         /\ \A i \in DOMAIN maps : Covers(maps[i], a, n) => Containing(a, n) <= i
<1> DEFINE S == {i \in DOMAIN maps : Covers(maps[i], a, n)}
<1>1. DOMAIN maps = 1..Len(maps) /\ Len(maps) \in Nat
  BY LenProperties DEF FormInv
<1>2. S \in SUBSET (1..Len(maps)) /\ Containing(a, n) = First(S)
  BY <1>1 DEF Containing
<1> HIDE DEF S
<1>3. /\ First(S) = 0 <=> S = {}
      /\ S # {} => First(S) \in S /\ \A i \in S : First(S) <= i
  BY <1>1, <1>2, FirstIs
<1>4. Containing(a, n) \in S /\ \A i \in S : Containing(a, n) <= i
  BY <1>2, <1>3
<1> QED
  BY <1>4 DEF S

\* What msync() writes holds no store to private or anonymous memory.
LEMMA WritesNone ==
  ASSUME FormInv, PrivateInv, NEW a, NEW n
  PROVE  Written(a, n) = {}
<1>1. CASE Written(a, n) # {}
  <2>1. Containing(a, n) # 0 /\ maps[Containing(a, n)].kind = "shared"
        /\ Written(a, n) \subseteq Span(a, n) \cap dirty
    BY <1>1 DEF Written
  <2>2. Containing(a, n) \in DOMAIN maps /\ Covers(maps[Containing(a, n)], a, n)
    BY <2>1, Newest
  <2> QED
    BY <2>1, <2>2 DEF Covers, PrivateInv
<1> QED
  BY <1>1

\* A new mapping lies on no shared one of a file, and a store is to the newest.
LEMMA PrivateStep ==
  ASSUME NotOverShared, LocalMapAssumption, TypeOK, FormInv, FormInv', OwnerInv, PrivateInv, Does
  PROVE  PrivateInv'
<1> DEFINE At(e) == Span(e.addr, e.len)
<1>1. file' = {}
  BY WritesNone DEF Does, Fails, Maps, Unmaps, Serves, Store, OpenFd, CloseFd, vars, PrivateInv
<1>2. ASSUME NEW i \in DOMAIN maps, maps[i].kind = "shared"
      PROVE  /\ \A j \in DOMAIN maps : j < i => At(maps[j]) \cap At(maps[i]) = {}
             /\ At(maps[i]) \cap dirty = {}
  BY <1>2 DEF PrivateInv
<1>3. ASSUME NEW i \in DOMAIN maps, maps[i].kind = "shared"
      PROVE  /\ maps[i].addr \in DOMAIN obj /\ Of(maps[i].addr) = At(maps[i])
             /\ obj[maps[i].addr].kind = "shared"
  <2>1. Owns(maps[i])
    BY <1>3 DEF OwnerInv, Shared, Owns
  <2>2. /\ maps[i].addr \in DOMAIN obj
        /\ obj[maps[i].addr] = [len |-> maps[i].len, kind |-> maps[i].kind]
    BY <2>1 DEF OwnerInv
  <2>3. obj[maps[i].addr].len = maps[i].len /\ obj[maps[i].addr].kind = "shared"
    BY <1>3, <2>2
  <2> QED
    BY <2>2, <2>3 DEF Of
<1>4. ASSUME NEW e, Maps(e) PROVE PrivateInv'
  <2>1. /\ 1 \in DOMAIN maps' /\ maps'[1] = e
        /\ \A k \in DOMAIN maps' :
             k = 1 \/ (k > 1 /\ k - 1 \in DOMAIN maps /\ maps'[k] = maps[k - 1])
    BY <1>4, Places
  <2>2. \A k \in DOMAIN maps' : k \in Nat
    BY LenProperties DEF FormInv
  <2>3. ASSUME NEW i \in DOMAIN maps, maps[i].kind = "shared" PROVE At(e) \cap At(maps[i]) = {}
    <3>1. CASE Owns(e)
      BY <1>3, <1>4, <2>3, <3>1 DEF Maps, Used
    <3>2. CASE ~Owns(e)
      <4>1. PICK b \in DOMAIN obj : At(e) \subseteq Of(b) /\ obj[b].kind \in FixedOver
        BY <1>4, <3>2 DEF Maps
      <4>2. b # maps[i].addr
        BY <1>3, <2>3, <4>1 DEF NotOverShared
      <4> QED
        BY <1>3, <2>3, <4>1, <4>2 DEF TypeOK
    <3> QED
      BY <3>1, <3>2
  <2>4. e.kind = "shared" => At(e) \cap dirty = {}
    BY <1>4 DEF Maps, Owns, Shared, TypeOK
  <2>5. dirty' \subseteq dirty
    BY <1>4 DEF Maps
  <2>6. ASSUME NEW i \in DOMAIN maps', maps'[i].kind = "shared"
        PROVE  /\ \A j \in DOMAIN maps' : j < i => At(maps'[j]) \cap At(maps'[i]) = {}
               /\ At(maps'[i]) \cap dirty' = {}
    <3>1. CASE i = 1
      BY <2>1, <2>2, <2>4, <2>5, <2>6, <3>1
    <3>2. CASE i > 1
      <4>1. i - 1 \in DOMAIN maps /\ maps'[i] = maps[i - 1] /\ maps[i - 1].kind = "shared"
        BY <2>1, <2>6, <3>2
      <4>2. ASSUME NEW j \in DOMAIN maps', j < i PROVE At(maps'[j]) \cap At(maps'[i]) = {}
        <5>1. CASE j = 1
          BY <2>1, <2>3, <4>1, <5>1
        <5>2. CASE j > 1
          <6>1. j - 1 \in DOMAIN maps /\ maps'[j] = maps[j - 1] /\ j - 1 < i - 1
            BY <2>1, <2>2, <4>2, <5>2
          <6> QED
            BY <1>2, <4>1, <6>1
        <5> QED
          BY <2>1, <5>1, <5>2
      <4> QED
        BY <1>2, <2>5, <4>1, <4>2
    <3> QED
      BY <2>1, <3>1, <3>2
  <2> QED
    BY <1>1, <2>6 DEF PrivateInv
<1>5. ASSUME NEW i, Unmaps(i) PROVE PrivateInv'
  <2>1. PICK f \in [DOMAIN maps' -> DOMAIN maps] :
           /\ \A k \in DOMAIN maps' : maps'[k] = maps[f[k]] /\ f[k] # i
           /\ \A j, k \in DOMAIN maps' : j < k => f[j] < f[k]
    BY <1>5, Removal
  <2>2. dirty' \subseteq dirty
    BY <1>5 DEF Unmaps
  <2>3. ASSUME NEW k \in DOMAIN maps', maps'[k].kind = "shared"
        PROVE  /\ \A j \in DOMAIN maps' : j < k => At(maps'[j]) \cap At(maps'[k]) = {}
               /\ At(maps'[k]) \cap dirty' = {}
    BY <1>2, <2>1, <2>2, <2>3
  <2> QED
    BY <1>1, <2>3 DEF PrivateInv
<1>6. ASSUME NEW q \in Pages, Store(q) PROVE PrivateInv'
  <2>1. Containing(q, 1) # 0 /\ maps' = maps
    BY <1>6 DEF Store
  <2> DEFINE c == Containing(q, 1)
  <2>2. /\ c \in DOMAIN maps /\ q \in At(maps[c])
        /\ \A i \in DOMAIN maps : q \in At(maps[i]) => c <= i
    <3>1. q \in Nat /\ Span(q, 1) = {q}
      BY StartsIn DEF Span
    <3> QED
      BY <2>1, <3>1, Newest DEF Covers
  <2>3. ASSUME NEW i \in DOMAIN maps, maps[i].kind = "shared", maps[c].kind # "shared"
        PROVE  q \notin At(maps[i])
    <3>1. ASSUME q \in At(maps[i]) PROVE FALSE
      <4>1. c <= i /\ c # i /\ c \in Nat /\ i \in Nat
        BY <2>2, <2>3, <3>1, Places
      <4>2. c < i
        BY <4>1
      <4> QED
        BY <1>2, <2>2, <2>3, <3>1, <4>2
    <3> QED
      BY <3>1
  <2>4. dirty' = IF maps[c].kind = "shared" THEN dirty \ {q} ELSE dirty \cup {q}
    BY <1>6 DEF Store
  <2> HIDE DEF c
  <2>5. ASSUME NEW i \in DOMAIN maps, maps[i].kind = "shared" PROVE At(maps[i]) \cap dirty' = {}
    BY <1>2, <2>3, <2>4, <2>5
  <2> QED
    BY <1>1, <1>2, <2>1, <2>5 DEF PrivateInv
<1>7. CASE UNCHANGED maps /\ dirty' \subseteq dirty
  BY <1>1, <1>7 DEF PrivateInv
<1> QED
  BY <1>4, <1>5, <1>6, <1>7 DEF Does, Fails, Serves, OpenFd, CloseFd, vars

-----------------------------------------------------------------------------

(***************************************************************************)
(* The theorems.                                                           *)
(***************************************************************************)

\* What holds of every program.
BaseInv == TypeOK /\ FormInv /\ OwnerInv

\* A program of any memory of its own begins so.
LEMMA InitBase ==
  ASSUME LocalMapAssumption, Init
  PROVE  BaseInv
<1>1. PICK own \in Programs : obj = [p \in own |-> [len |-> 1, kind |-> "program"]]
  BY DEF Init
<1>2. /\ DOMAIN obj = own /\ own \subseteq Pages
      /\ \A b \in own : obj[b] = [len |-> 1, kind |-> "program"]
  BY <1>1 DEF LocalMapAssumption
<1>3. maps = <<>> /\ DOMAIN maps = {} /\ maps \in Seq(Entries)
  BY DEF Init
<1>4. ASSUME NEW b \in own PROVE Of(b) = {b} /\ 1 \in Pages
  <2>1. Cardinality(Pages) \in Nat
    BY FS_CardinalityType DEF LocalMapAssumption
  <2>2. b \in 1..Cardinality(Pages)
    BY <1>2 DEF LocalMapAssumption
  <2> QED
    BY <1>2, <2>1, <2>2 DEF Of, Span, LocalMapAssumption
<1>5. FormInv
  BY <1>2, <1>3, <1>4 DEF FormInv, Objects
<1>6. OwnerInv
  BY <1>2, <1>3 DEF OwnerInv
<1>7. prot \in [Pages -> Prots] /\ dirty = {} /\ file = {} /\ leaked = {}
  BY DEF Init, Prots
<1>8. DOMAIN fds = {0} /\ mine = {0}
  BY DEF Init
<1> QED
  BY <1>2, <1>3, <1>4, <1>5, <1>6, <1>7, <1>8 DEF BaseInv, TypeOK, LocalMapAssumption

\* Every step preserves BaseInv.
LEMMA StepBase ==
  ASSUME LocalMapAssumption, BaseInv, [Next]_vars
  PROVE  BaseInv' /\ Does
<1>1. Does
  BY NextDoes DEF BaseInv
<1>2. prot' \in [Pages -> Prots]
  BY ProtStep DEF BaseInv, TypeOK
<1>3. FormInv'
  BY <1>1, FormStep DEF BaseInv
<1> QED
  BY <1>1, <1>2, <1>3, TypeStep, OwnerStep DEF BaseInv

\* The invariant without assumptions about the programs holds in every state.
THEOREM Invariance == Spec => []BaseInv
<1>1. Init => BaseInv
  BY InitBase, LocalMapAssumption
<1>2. BaseInv /\ [Next]_vars => BaseInv'
  BY StepBase, LocalMapAssumption
<1> QED
  BY <1>1, <1>2, PTL DEF Spec

\* The variables have the values mmap.c gives them: objects do not overlap, and stores
\* are to memory in use.
THEOREM TypeCorrect == Spec => []TypeOK
<1>1. BaseInv => TypeOK
  BY DEF BaseInv
<1> QED
  BY <1>1, Invariance, PTL

\* Every memory object of the library has one entry of m_mmap that will free it, and
\* each such entry its object, whatever was mapped on it and whatever failed.
THEOREM MemoryStaysOwned == Spec => []MemoryOwned
<1>1. BaseInv => MemoryOwned
  <2> SUFFICES ASSUME BaseInv PROVE MemoryOwned
    OBVIOUS
  <2>1. ASSUME NEW b \in DOMAIN obj, obj[b].kind # "program"
        PROVE  Cardinality({i \in DOMAIN maps : Owns(maps[i]) /\ maps[i].addr = b}) = 1
    <3> DEFINE S == {i \in DOMAIN maps : Owns(maps[i]) /\ maps[i].addr = b}
    <3>1. PICK i \in S : TRUE
      BY <2>1 DEF BaseInv, OwnerInv
    <3>2. \A j \in S : j = i
      BY <3>1 DEF BaseInv, OwnerInv
    <3> HIDE DEF S
    <3>3. Cardinality(S) = 1
      BY <3>2, JustOne
    <3> QED
      BY <3>3 DEF S
  <2>2. \A i \in DOMAIN maps : Owns(maps[i]) =>
          maps[i].addr \in DOMAIN obj /\ obj[maps[i].addr].len = maps[i].len
    <3> SUFFICES ASSUME NEW i \in DOMAIN maps, Owns(maps[i])
                 PROVE  maps[i].addr \in DOMAIN obj /\ obj[maps[i].addr].len = maps[i].len
      OBVIOUS
    <3>1. /\ maps[i].addr \in DOMAIN obj
          /\ obj[maps[i].addr] = [len |-> maps[i].len, kind |-> maps[i].kind]
      BY DEF BaseInv, OwnerInv
    <3> QED
      BY <3>1
  <2> QED
    BY <2>1, <2>2 DEF MemoryOwned
<1> QED
  BY <1>1, Invariance, PTL

\* The same, and one descriptor for each shared mapping of a file, for programs that pass
\* -1 with MAP_ANONYMOUS: munmap() closes no descriptor of theirs.
THEOREM Owned == ASSUME NoFdForAnon PROVE Spec => []ResourcesOwned
<1>1. Init /\ BaseInv => FdInv
  <2> SUFFICES ASSUME Init PROVE FdInv
    OBVIOUS
  <2>1. DOMAIN maps = {} /\ DOMAIN fds = {0} /\ fds[0] = "program" /\ mine = {0} /\ leaked = {}
    BY DEF Init
  <2> QED
    BY <2>1 DEF FdInv, DescriptorsOwned
<1>2. BaseInv /\ BaseInv' /\ FdInv /\ [Next]_vars => FdInv'
  BY StepBase, FdStep, LocalMapAssumption DEF BaseInv
<1>3. Spec => []FdInv
  BY <1>1, <1>2, Invariance, PTL DEF Spec
<1>4. FdInv /\ MemoryOwned => ResourcesOwned
  BY DEF FdInv, ResourcesOwned
<1> QED
  BY <1>3, <1>4, MemoryStaysOwned, PTL

\* Stores to private and anonymous memory do not reach the file through msync() and
\* munmap(), for programs that fix no mapping on shared memory of a file.
THEOREM Private == ASSUME NotOverShared PROVE Spec => []PrivateStaysPrivate
<1>1. Init => PrivateInv
  <2> SUFFICES ASSUME Init PROVE PrivateInv
    OBVIOUS
  <2>1. DOMAIN maps = {} /\ file = {}
    BY DEF Init
  <2> QED
    BY <2>1 DEF PrivateInv
<1>2. BaseInv /\ BaseInv' /\ PrivateInv /\ [Next]_vars => PrivateInv'
  BY StepBase, PrivateStep, LocalMapAssumption DEF BaseInv
<1>3. Spec => []PrivateInv
  BY <1>1, <1>2, Invariance, PTL DEF Spec
<1>4. PrivateInv => PrivateStaysPrivate
  BY DEF PrivateInv, PrivateStaysPrivate
<1> QED
  BY <1>3, <1>4, PTL
=============================================================================
