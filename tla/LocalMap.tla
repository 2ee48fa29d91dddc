------------------------------ MODULE LocalMap ------------------------------
(***************************************************************************)
(* memory/mmap.c within one process: private, fixed and anonymous mappings *)
(* beside shared ones, whose memory and whose descriptors they are.        *)
(*                                                                         *)
(* A mapping that is not fixed has memory of its own.  A fixed one takes   *)
(* free memory, or memory that is in use, and then does not own it; the    *)
(* list m_mmap has entries of both.  One thread is in the library at a     *)
(* time: it has no lock.  The memory object behind shared mappings of a    *)
(* file, and its other users, are in SharedMap.                            *)
(***************************************************************************)
EXTENDS Integers, Sequences, FiniteSets, SequencesExt, FiniteSetsExt

CONSTANTS
  Pages,        \* addresses, 1..n
  Programs,     \* sets of pages that may be memory of the program's own
  Fds,          \* descriptors, 0..n
  MaxMaps,      \* bound: entries of m_mmap
  AnonFds,      \* what programs pass for the descriptor of an anonymous mapping
  FixedOver     \* kinds of memory that programs put a fixed mapping on

Kinds == {"private", "anon", "shared", "shared anon"}
Shared(kind) == kind \in {"shared", "shared anon"}
Anon(kind) == kind \in {"anon", "shared anon"}
Prots == {"r", "rw"}

ASSUME LocalMapAssumption ==
  /\ IsFiniteSet(Pages) /\ Pages = 1..Cardinality(Pages)
  /\ IsFiniteSet(Fds) /\ 0 \in Fds /\ Fds = 0..(Cardinality(Fds) - 1)
  /\ Programs \subseteq SUBSET Pages /\ MaxMaps \in Nat
  /\ AnonFds \subseteq Fds \cup {-1}
  /\ FixedOver \subseteq Kinds \cup {"program"}

VARIABLES
  obj,          \* memory objects: a partial function from their first page
  prot,         \* protection of each page; that of free pages does not count
  dirty,        \* pages in use with a store to a private or anonymous mapping in them
  maps,         \* m_mmap, newest first
  fds,          \* open descriptors and who opened them
  mine,         \* ghost: descriptors that the program opened and did not close
  leaked,       \* ghost: descriptors left by failures of DosAliasMem() and malloc()
  file          \* pages of which such a store has reached the file

vars == <<obj, prot, dirty, maps, fds, mine, leaked, file>>

Init ==
  /\ \E own \in Programs : obj = [p \in own |-> [len |-> 1, kind |-> "program"]]
  /\ prot = [p \in Pages |-> "rw"]
  /\ dirty = {}
  /\ maps = <<>>
  /\ fds = [fd \in {0} |-> "program"]
  /\ mine = {0}
  /\ leaked = {}
  /\ file = {}

Span(addr, len) == addr..(addr + len - 1)
Spans == {s \in Pages \X Pages : s[1] + s[2] - 1 \in Pages}   \* address and length
Of(b) == Span(b, obj[b].len)
Used == UNION {Of(b) : b \in DOMAIN obj}
With(f, x, v) == [y \in DOMAIN f \cup {x} |-> IF y = x THEN v ELSE f[y]]
Without(f, S) == [y \in DOMAIN f \ S |-> f[y]]
Set(f, S, v) == [y \in DOMAIN f |-> IF y \in S THEN v ELSE f[y]]

(***************************************************************************)
(* The list.                                                               *)
(***************************************************************************)
Covers(e, addr, len) == Span(addr, len) \subseteq Span(e.addr, e.len)
First(S) == IF S = {} THEN 0 ELSE Min(S)
Containing(addr, len) == First({i \in DOMAIN maps : Covers(maps[i], addr, len)})
Exact(addr, len) == First({i \in DOMAIN maps : maps[i].addr = addr /\ maps[i].len = len})
Owns(e) == ~e.fixed \/ e.allocated

(***************************************************************************)
(* mmap().                                                                 *)
(***************************************************************************)
InUse(addr) == addr \in Used

\* Mutant: a mapping may start in free memory and run into what is in use.
MayFixFirst(addr, len) ==
  InUse(addr) => \E b \in DOMAIN obj :
    Span(addr, len) \subseteq Of(b) /\ obj[b].kind \in FixedOver

\* DosQueryMem() looks at the first page only.  From there either all is free, or
\* DosSetMem() must find all of it within one object.
MayFix(addr, len) ==
  IF InUse(addr)
    THEN \E b \in DOMAIN obj : Span(addr, len) \subseteq Of(b) /\ obj[b].kind \in FixedOver
    ELSE Span(addr, len) \cap Used = {}
FreeSpan(addr, len) == Span(addr, len) \cap Used = {}

LowestFree == Min(Fds \ DOMAIN fds)
Stages(kind) ==
  {"memory", "malloc", "protect", "none"}
    \cup (IF Anon(kind) THEN {} ELSE {"read"})
    \cup (IF kind = "shared" THEN {"dup", "alias"} ELSE {})

\* munmap() closes the descriptor of every shared mapping, of an anonymous one too.
Closed(e) == IF Shared(e.kind) THEN {e.fd} ELSE {}

\* The stage at which the call fails, or "none".  Each failure undoes what was done
\* before: mmapFreeMem() gives back memory of its own, munmap() also closes the
\* descriptor.  What was fixed on memory in use stays changed.
Mmap(kind, fixed, span, p, fd) ==
  /\ Len(maps) < MaxMaps
  /\ ~(fixed /\ Shared(kind))
  /\ IF Anon(kind) THEN fd \in AnonFds ELSE fd \in mine
  /\ IF fixed THEN MayFix(span[1], span[2]) ELSE FreeSpan(span[1], span[2])
  /\ \E failed \in Stages(kind) :
       LET addr  == span[1]
           len   == span[2]
           over  == fixed /\ InUse(addr)
           dup   == kind = "shared"
           entry == [addr |-> addr, len |-> len, kind |-> kind, fixed |-> fixed,
                     allocated |-> fixed /\ ~over, prot |-> p,
                     fd |-> IF dup THEN LowestFree ELSE fd]
           leak  == dup /\ failed \in {"alias", "malloc"}
           done  == failed = "none"
           pages == Span(addr, len)
       IN  /\ dup /\ failed \notin {"memory", "dup"} => Fds \ DOMAIN fds # {}
           /\ obj' = IF done /\ ~over THEN With(obj, addr, [len |-> len, kind |-> kind]) ELSE obj
           /\ maps' = IF done THEN <<entry>> \o maps ELSE maps
           /\ fds' = IF dup /\ (done \/ leak) THEN With(fds, LowestFree, "library")
                     ELSE IF failed \in {"read", "protect"} THEN Without(fds, Closed(entry))
                     ELSE fds
           /\ leaked' = IF leak THEN leaked \cup {LowestFree} ELSE leaked
           /\ prot' = IF done THEN Set(prot, pages, p)
                      ELSE IF over /\ failed # "memory" THEN Set(prot, pages, "rw") ELSE prot
           /\ dirty' = IF ~Anon(kind) /\ over /\ failed \notin {"memory", "malloc"}
                         THEN dirty \ pages ELSE dirty
  /\ UNCHANGED <<mine, file>>

(***************************************************************************)
(* msync( MS_SYNC ), munmap(), mprotect().                                 *)
(***************************************************************************)
\* Mutant: MAP_SHARED is not looked at.
WrittenAny(addr, len) ==
  LET i == Containing(addr, len)
  IN  IF i # 0 /\ ~Anon(maps[i].kind) /\ maps[i].prot = "rw"
        THEN Span(addr, len) \cap dirty
        ELSE {}

\* The newest mapping that contains the range is written, if it is a shared one of a
\* file that was mapped for writing.
Written(addr, len) ==
  LET i == Containing(addr, len)
  IN  IF i # 0 /\ maps[i].kind = "shared" /\ maps[i].prot = "rw"
        THEN Span(addr, len) \cap dirty
        ELSE {}

Msync(addr, len) ==
  /\ Containing(addr, len) # 0 /\ Span(addr, len) \subseteq Used
  /\ file' = file \cup Written(addr, len)
  /\ UNCHANGED <<obj, prot, dirty, maps, fds, mine, leaked>>

\* Mutant: the memory of a fixed mapping is freed whether it was allocated for it or not.
FreedAlways(e) == {b \in DOMAIN obj : b = e.addr}

\* mmapFreeMem()
Freed(e) == IF Owns(e) THEN {b \in DOMAIN obj : b = e.addr} ELSE {}

Munmap(addr, len) ==
  LET i == Exact(addr, len)
      e == maps[i]
  IN  /\ i # 0
      /\ file' = file \cup (IF e.kind = "shared" /\ e.prot = "rw"
                              THEN Written(addr, len) ELSE {})
      /\ fds' = Without(fds, Closed(e))
      /\ obj' = Without(obj, Freed(e))
      /\ maps' = RemoveAt(maps, i)
      /\ prot' = Set(prot, UNION {Of(b) : b \in Freed(e)}, "rw")
      /\ dirty' = dirty \ UNION {Of(b) : b \in Freed(e)}
      /\ UNCHANGED <<mine, leaked>>

Mprotect(addr, len, p) ==
  /\ Containing(addr, len) # 0
  /\ \E b \in DOMAIN obj : Span(addr, len) \subseteq Of(b)
  /\ prot' = Set(prot, Span(addr, len), p)
  /\ UNCHANGED <<obj, dirty, maps, fds, mine, leaked, file>>

\* mmapGetAnonMem() in the child of fork(), which is followed from here: shared anonymous
\* memory gets the protection it was mapped with.
ForkChild ==
  /\ prot' = [q \in Pages |->
       LET S == {i \in DOMAIN maps : maps[i].kind = "shared anon"
                                       /\ q \in Span(maps[i].addr, maps[i].len)}
       IN  IF S = {} THEN prot[q] ELSE maps[Max(S)].prot]
  /\ UNCHANGED <<obj, dirty, maps, fds, mine, leaked, file>>

(***************************************************************************)
(* The program.                                                            *)
(***************************************************************************)
Store(q) ==
  LET i == Containing(q, 1)
  IN  /\ i # 0 /\ q \in Used /\ prot[q] = "rw"
      /\ dirty' = IF maps[i].kind = "shared" THEN dirty \ {q} ELSE dirty \cup {q}
      /\ UNCHANGED <<obj, prot, maps, fds, mine, leaked, file>>
OpenFd ==
  /\ Fds \ DOMAIN fds # {}
  /\ fds' = With(fds, LowestFree, "program")
  /\ mine' = mine \cup {LowestFree}
  /\ UNCHANGED <<obj, prot, dirty, maps, leaked, file>>
CloseFd(fd) ==
  /\ fd \in mine
  /\ mine' = mine \ {fd}
  /\ fds' = Without(fds, {fd})
  /\ UNCHANGED <<obj, prot, dirty, maps, leaked, file>>

Next ==
  \/ \E kind \in Kinds, fixed \in BOOLEAN, span \in Spans, p \in Prots,
        fd \in Fds \cup {-1} : Mmap(kind, fixed, span, p, fd)
  \/ \E span \in Spans :
       \/ Munmap(span[1], span[2]) \/ Msync(span[1], span[2])
       \/ \E p \in Prots : Mprotect(span[1], span[2], p)
  \/ ForkChild
  \/ \E q \in Pages : Store(q)
  \/ OpenFd
  \/ \E fd \in Fds : CloseFd(fd)

Spec == Init /\ [][Next]_vars

(***************************************************************************)
(* Properties.                                                             *)
(***************************************************************************)
TypeOK ==
  /\ \A b, c \in DOMAIN obj : b # c => Of(b) \cap Of(c) = {}
  /\ prot \in [Pages -> Prots]
  /\ dirty \subseteq Used /\ file \subseteq Pages
  /\ \A i \in DOMAIN maps : Span(maps[i].addr, maps[i].len) \subseteq Pages
  /\ DOMAIN fds \subseteq Fds /\ mine \subseteq Fds /\ leaked \subseteq Fds

\* Every object of the library's belongs to one entry of the list that will free it
\* and every such entry has its object, also after fixed mappings on others' memory
\* were made and removed in any order and after a call failed at any stage.
MemoryOwned ==
  /\ \A b \in DOMAIN obj : obj[b].kind # "program" =>
       Cardinality({i \in DOMAIN maps : Owns(maps[i]) /\ maps[i].addr = b}) = 1
  /\ \A i \in DOMAIN maps : Owns(maps[i]) =>
       maps[i].addr \in DOMAIN obj /\ obj[maps[i].addr].len = maps[i].len

\* The library holds one descriptor for each shared mapping of a file, beside those
\* that failures left, and closes none of the program's.
DescriptorsOwned ==
  LET held == {i \in DOMAIN maps : maps[i].kind = "shared"}
  IN  /\ {fd \in DOMAIN fds : fds[fd] = "library"} = {maps[i].fd : i \in held} \cup leaked
      /\ \A i, j \in held : maps[i].fd = maps[j].fd => i = j
      /\ \A fd \in mine : fd \in DOMAIN fds /\ fds[fd] = "program"

ResourcesOwned == MemoryOwned /\ DescriptorsOwned

\* A store to a private or an anonymous mapping never reaches the file, whatever was mapped
\* at its address before and after, and while fixed mappings lie on parts of others.
PrivateStaysPrivate == file = {}
=============================================================================
