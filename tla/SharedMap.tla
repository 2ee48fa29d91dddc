----------------------------- MODULE SharedMap -----------------------------
(***************************************************************************)
(* memory/mmap.c: MAP_SHARED mappings of one file by several processes.    *)
(*                                                                         *)
(* All the processes that map the file share one named OS/2 memory object, *)
(* created and filled from the file by the first of them.  Its first page  *)
(* holds a reference count; every mapping is an alias of a part of the     *)
(* rest.  The file is written back by msync() and munmap() only.  Nothing  *)
(* but the count coordinates the processes.                                *)
(*                                                                         *)
(* A process runs one call at a time.  Each access to the shared object or *)
(* to the file is a step of its own; the count is loaded and stored apart. *)
(* Contents are abstracted to versions: a store or a write of another      *)
(* program makes a page as new as the clock, fresh memory has version 0.   *)
(***************************************************************************)
EXTENDS Naturals, FiniteSets

CONSTANTS
  Procs,       \* processes
  Pages,       \* pages of the file
  Views,       \* the page sets a mapping may cover
  Addrs,       \* addresses an alias may get in a process
  Faults,      \* what may go wrong, and what the programs may do: see below
  MaxClock,    \* bound of the exploration: number of stores and writes
  MaxAttach,   \* bound of the exploration: references of a process to the object
  MaxLeaked    \* bound of the exploration: references lost by dying processes

(***************************************************************************)
(* "dup", "alias", "malloc", "read", "setmem", "seek", "write": that call  *)
(* may fail.  "fork": the child may fail to inherit.  "exit": a process    *)
(* may end, or be killed, anywhere.  "overlap": calls that use the count   *)
(* may overlap.  "extwrite": other programs write the file.  "upgrade":    *)
(* mprotect() may add PROT_WRITE to a mapping made without.                *)
(***************************************************************************)
FaultKinds == {"dup", "alias", "malloc", "read", "setmem", "seek", "write",
               "fork", "exit", "overlap", "extwrite", "upgrade"}

ASSUME SharedMapAssumption ==
  /\ IsFiniteSet(Procs) /\ IsFiniteSet(Addrs)
  /\ Views \subseteq SUBSET Pages
  /\ Faults \subseteq FaultKinds
  /\ MaxClock \in Nat \ {0} /\ MaxAttach \in Nat /\ MaxLeaked \in Nat

VARIABLES
  alive,      \* the processes that run
  attach,     \* attach[p]: references p has to the memory object
  refcnt,     \* the reference count in the object's first page
  mem,        \* version of each page in the object
  file,       \* version of each page in the file
  maps,       \* maps[p]: m_mmap, the list of the mappings of p
  pc,         \* where each process is in the library
  req,        \* the mapping it is busy with there
  clock,      \* the newest version
  leaked,     \* ghost: references counted for processes that ended
  abandoned   \* ghost: pages whose last store was lost with its process

vars == <<alive, attach, refcnt, mem, file, maps, pc, req, clock, leaked,
          abandoned>>

\* One os2_mmap: the file pages it covers, PROT_WRITE as given to mmap()
\* (mm->prot), and whether the pages can be written now.
Mapping == [addr : Addrs, view : Views, prot : BOOLEAN, page : BOOLEAN]

\* A request: the mapping, whether this call created the object (read_file),
\* whether the mapping is in m_mmap yet, the flags of msync(), where MS_SYNC is
\* 0, the empty set of flags, and the count the call loaded.
NoReq == [m |-> {}, create |-> FALSE, listed |-> FALSE, flags |-> {}, seen |-> 0]
Busy(m, c, l, f) ==
  [m |-> {m}, create |-> c, listed |-> l, flags |-> f, seen |-> 0]
MsyncFlags == {"MS_ASYNC", "MS_INVALIDATE"}

\* A system call that may fail when f is in Faults.
Outcomes(f) == IF f \in Faults THEN BOOLEAN ELSE {TRUE}

\* The kernel keeps the named object as long as a process refers to it.
Exists == \E p \in Procs : attach[p] > 0

Idle(p) == p \in alive /\ pc[p] = "idle"

\* Nothing in the library keeps two processes from using the count at a time.
\* Unless "overlap", the programs do so: they call mmap(), munmap() and fork()
\* one after the other.  The other calls may come at any time.
Uncounting == {"idle", "flush", "reread"}
MayCall(p) ==
  Idle(p) /\ ("overlap" \in Faults \/ \A q \in Procs : pc[q] \in Uncounting)

Init ==
  /\ alive \in {{p} : p \in Procs}
  /\ attach = [p \in Procs |-> 0]
  /\ refcnt = 0
  /\ mem = [g \in Pages |-> 0]
  /\ file = [g \in Pages |-> 1]
  /\ maps = [p \in Procs |-> {}]
  /\ pc = [p \in Procs |-> "idle"]
  /\ req = [p \in Procs |-> NoReq]
  /\ clock = 1
  /\ leaked = 0
  /\ abandoned = {}

Goto(p, l) == pc' = [pc EXCEPT ![p] = l]
Done(p) == Goto(p, "idle") /\ req' = [req EXCEPT ![p] = NoReq]
The(p) == CHOOSE m \in req[p].m : TRUE
LoadCount(p) == req' = [req EXCEPT ![p].seen = refcnt]
\* DosFreeMem( base ) undoes one reference.
Detach(p) == attach' = [attach EXCEPT ![p] = @ - 1]

(***************************************************************************)
(* mmap( MAP_SHARED ).                                                     *)
(***************************************************************************)

\* DosAllocSharedMem makes the object, all zero, unless its name exists.
Mmap(p, a, v, w) ==
  /\ MayCall(p)
  /\ attach[p] < MaxAttach
  /\ a \notin {m.addr : m \in maps[p]}
  /\ req' = [req EXCEPT ![p] =
       Busy([addr |-> a, view |-> v, prot |-> w, page |-> TRUE], ~Exists, FALSE, {})]
  /\ IF Exists
       THEN /\ Goto(p, "get")
            /\ UNCHANGED <<attach, refcnt, mem, leaked, abandoned>>
       ELSE /\ Goto(p, "dup")
            /\ attach' = [attach EXCEPT ![p] = 1]
            /\ refcnt' = 0
            /\ mem' = [g \in Pages |-> 0]
            /\ leaked' = 0
            /\ abandoned' = {}
  /\ UNCHANGED <<alive, file, maps, clock>>

\* DosGetNamedSharedMem, for an object that was there a moment ago.
GetNamed(p) ==
  /\ pc[p] = "get"
  /\ IF Exists
       THEN /\ attach' = [attach EXCEPT ![p] = @ + 1]
            /\ Goto(p, "dup")
            /\ UNCHANGED req
       ELSE Done(p) /\ UNCHANGED attach
  /\ UNCHANGED <<alive, refcnt, mem, file, maps, clock, leaked, abandoned>>

\* dup( fildes ), to write back later, and DosAliasMem.
Dup(p) ==
  /\ pc[p] = "dup"
  /\ \E ok \in Outcomes("dup") :
       IF ok THEN Goto(p, "alias") /\ UNCHANGED <<attach, req>>
             ELSE Detach(p) /\ Done(p)
  /\ UNCHANGED <<alive, refcnt, mem, file, maps, clock, leaked, abandoned>>

Alias(p) ==
  /\ pc[p] = "alias"
  /\ \E ok \in Outcomes("alias") :
       IF ok THEN Goto(p, "ref") /\ UNCHANGED <<attach, req>>
             ELSE Detach(p) /\ Done(p)
  /\ UNCHANGED <<alive, refcnt, mem, file, maps, clock, leaked, abandoned>>

\* Mutant: the creator relies on the count of the fresh object.
CreatorUncounted(p) ==
  /\ pc[p] = "ref"
  /\ IF req[p].create
       THEN Goto(p, "malloc") /\ UNCHANGED <<refcnt, req>>
       ELSE Goto(p, "refstore") /\ LoadCount(p) /\ UNCHANGED refcnt
  /\ UNCHANGED <<alive, attach, mem, file, maps, clock, leaked, abandoned>>

\* The creator sets the count, everybody else adds to it.
Ref(p) ==
  /\ pc[p] = "ref"
  /\ IF req[p].create
       THEN refcnt' = 1 /\ Goto(p, "malloc") /\ UNCHANGED req
       ELSE Goto(p, "refstore") /\ LoadCount(p) /\ UNCHANGED refcnt
  /\ UNCHANGED <<alive, attach, mem, file, maps, clock, leaked, abandoned>>

RefStore(p) ==
  /\ pc[p] = "refstore"
  /\ refcnt' = req[p].seen + 1
  /\ Goto(p, "malloc")
  /\ UNCHANGED <<alive, attach, mem, file, maps, req, clock, leaked, abandoned>>

\* Mutant: without memory for the entry the reference is not given back.
InsertLeaks(p) ==
  /\ pc[p] = "malloc"
  /\ \E ok \in Outcomes("malloc") :
       IF ok
         THEN /\ maps' = [maps EXCEPT ![p] = @ \cup {The(p)}]
              /\ req' = [req EXCEPT ![p].listed = TRUE]
              /\ Goto(p, IF req[p].create THEN "load" ELSE "protect")
         ELSE Done(p) /\ UNCHANGED maps
  /\ UNCHANGED <<alive, attach, refcnt, mem, file, clock, leaked, abandoned>>

\* Mutant: everybody reads the file, not only the creator.
InsertAlwaysLoads(p) ==
  /\ pc[p] = "malloc"
  /\ \E ok \in Outcomes("malloc") :
       IF ok
         THEN /\ maps' = [maps EXCEPT ![p] = @ \cup {The(p)}]
              /\ req' = [req EXCEPT ![p].listed = TRUE]
              /\ Goto(p, "load")
         ELSE Goto(p, "dec") /\ UNCHANGED <<maps, req>>
  /\ UNCHANGED <<alive, attach, refcnt, mem, file, clock, leaked, abandoned>>

\* The entry goes to the front of m_mmap; without memory for it the reference
\* is given back.
Insert(p) ==
  /\ pc[p] = "malloc"
  /\ \E ok \in Outcomes("malloc") :
       IF ok
         THEN /\ maps' = [maps EXCEPT ![p] = @ \cup {The(p)}]
              /\ req' = [req EXCEPT ![p].listed = TRUE]
              /\ Goto(p, IF req[p].create THEN "load" ELSE "protect")
         ELSE Goto(p, "dec") /\ UNCHANGED <<maps, req>>
  /\ UNCHANGED <<alive, attach, refcnt, mem, file, clock, leaked, abandoned>>

\* Mutant: the pages are written back if they can be written now.
UnmapByPage(m) == IF m.page THEN "sync" ELSE "dec"

\* munmap() of a mapping: written back first if it was made with PROT_WRITE.
UnmapStep(m) == IF m.prot THEN "sync" ELSE "dec"

\* readFromFile(): the pages got are copied to the object.  All of v, or any
\* part of it when the call fails.
Filled(got) == [g \in Pages |-> IF g \in got THEN file[g] ELSE mem[g]]
Reads(ok, v) == IF ok THEN {v} ELSE SUBSET v

\* writeToFile(): the pages put are copied to the file.  Nothing when the
\* position of the file is unknown, else all of v unless the write fails.
Written(put) == [g \in Pages |-> IF g \in put THEN mem[g] ELSE file[g]]
Writes(sought, v) ==
  IF ~sought THEN {{}} ELSE IF "write" \in Faults THEN SUBSET v ELSE {v}

\* Mutant: the creator reads its own part of the file only.
LoadView(p) ==
  /\ pc[p] = "load"
  /\ \E ok \in Outcomes("read") : \E got \in Reads(ok, The(p).view) :
       /\ mem' = Filled(got)
       /\ Goto(p, IF ok THEN "protect" ELSE UnmapStep(The(p)))
  /\ UNCHANGED <<alive, attach, refcnt, file, maps, req, clock, leaked, abandoned>>

\* The creator reads the whole file; an error unmaps.
Load(p) ==
  /\ pc[p] = "load"
  /\ \E ok \in Outcomes("read") : \E got \in Reads(ok, Pages) :
       /\ mem' = Filled(got)
       /\ Goto(p, IF ok THEN "protect" ELSE UnmapStep(The(p)))
  /\ UNCHANGED <<alive, attach, refcnt, file, maps, req, clock, leaked, abandoned>>

\* The list with the pages of m writable or not.
Protected(p, m, w) == (maps[p] \ {m}) \cup {[m EXCEPT !.page = w]}

\* mprotect() to the protection asked for; an error unmaps.
Protect(p) ==
  /\ pc[p] = "protect"
  /\ \E ok \in Outcomes("setmem") :
       IF ok
         THEN maps' = [maps EXCEPT ![p] = Protected(p, The(p), The(p).prot)] /\ Done(p)
         ELSE Goto(p, UnmapStep(The(p))) /\ UNCHANGED <<maps, req>>
  /\ UNCHANGED <<alive, attach, refcnt, mem, file, clock, leaked, abandoned>>

(***************************************************************************)
(* munmap().                                                               *)
(***************************************************************************)

Munmap(p, m) ==
  /\ MayCall(p)
  /\ m \in maps[p]
  /\ req' = [req EXCEPT ![p] = Busy(m, FALSE, TRUE, {})]
  /\ Goto(p, UnmapStep(m))
  /\ UNCHANGED <<alive, attach, refcnt, mem, file, maps, clock, leaked, abandoned>>

\* msync( MS_SYNC ): writeToFile() fails only when it cannot tell the position
\* of the file; then munmap() fails and the mapping stays.  An error of the
\* write itself does not come back.
Sync(p) ==
  /\ pc[p] = "sync"
  /\ \E sought \in Outcomes("seek") : \E put \in Writes(sought, The(p).view) :
       /\ file' = Written(put)
       /\ IF sought THEN Goto(p, "dec") /\ UNCHANGED req ELSE Done(p)
  /\ UNCHANGED <<alive, attach, refcnt, mem, maps, clock, leaked, abandoned>>

\* mmapFreeMem(): free the alias, drop the reference.
Dec(p) ==
  /\ pc[p] = "dec"
  /\ Goto(p, "decstore")
  /\ LoadCount(p)
  /\ UNCHANGED <<alive, attach, refcnt, mem, file, maps, clock, leaked, abandoned>>

\* Mutant: the object is given up with every mapping.
DecAlwaysDrops(p) ==
  /\ pc[p] = "decstore"
  /\ refcnt' = req[p].seen - 1
  /\ maps' = [maps EXCEPT ![p] = @ \ req[p].m]
  /\ Goto(p, "drop")
  /\ UNCHANGED <<alive, attach, mem, file, req, clock, leaked, abandoned>>

DecStore(p) ==
  /\ pc[p] = "decstore"
  /\ refcnt' = req[p].seen - 1
  /\ maps' = [maps EXCEPT ![p] = @ \ req[p].m]
  /\ IF req[p].seen = 1 THEN Goto(p, "drop") /\ UNCHANGED req ELSE Done(p)
  /\ UNCHANGED <<alive, attach, mem, file, clock, leaked, abandoned>>

\* while( DosFreeMem( base ) == 0 ): give up every reference of this process.
Drop(p) ==
  /\ pc[p] = "drop"
  /\ attach' = [attach EXCEPT ![p] = 0]
  /\ Done(p)
  /\ UNCHANGED <<alive, refcnt, mem, file, maps, clock, leaked, abandoned>>

(***************************************************************************)
(* mprotect() and msync().                                                 *)
(***************************************************************************)

\* The protection of the pages changes, mm->prot does not.
Mprotect(p, m, w) ==
  /\ Idle(p)
  /\ m \in maps[p]
  /\ w => m.prot \/ "upgrade" \in Faults
  /\ maps' = [maps EXCEPT ![p] = Protected(p, m, w)]
  /\ UNCHANGED <<alive, attach, refcnt, mem, file, pc, req, clock, leaked, abandoned>>

Msync(p, m, f) ==
  /\ Idle(p)
  /\ m \in maps[p]
  /\ attach[p] < MaxAttach
  /\ req' = [req EXCEPT ![p] = Busy(m, FALSE, TRUE, f)]
  /\ Goto(p, "flush")
  /\ UNCHANGED <<alive, attach, refcnt, mem, file, maps, clock, leaked, abandoned>>

\* flags & MAP_SHARED looks at the flags of msync(), where that bit (0x0001)
\* is MS_ASYNC.
Rereads(f) == "MS_INVALIDATE" \in f /\ "MS_ASYNC" \in f

\* msync() on its own: an error of writeToFile() ends the call.
Flush(p) ==
  /\ pc[p] = "flush"
  /\ \E sought \in Outcomes("seek") : \E put \in Writes(sought, The(p).view) :
       LET writes == "MS_ASYNC" \notin req[p].flags /\ The(p).prot IN
       /\ file' = IF writes THEN Written(put) ELSE file
       /\ IF Rereads(req[p].flags) /\ (writes => sought)
            THEN Goto(p, "reread") /\ UNCHANGED req
            ELSE Done(p)
  /\ UNCHANGED <<alive, attach, refcnt, mem, maps, clock, leaked, abandoned>>

\* DosGetNamedSharedMem, for a reference that is never given back, and the
\* whole file is read into the object.
Reread(p) ==
  /\ pc[p] = "reread"
  /\ attach' = [attach EXCEPT ![p] = @ + 1]
  /\ \E ok \in Outcomes("read") : \E got \in Reads(ok, Pages) : mem' = Filled(got)
  /\ Done(p)
  /\ UNCHANGED <<alive, refcnt, file, maps, clock, leaked, abandoned>>

(***************************************************************************)
(* Processes: memory accesses, fork(), the end of a process.               *)
(***************************************************************************)

Store(p, m, g) ==
  /\ Idle(p)
  /\ m \in maps[p] /\ m.page /\ g \in m.view
  /\ clock < MaxClock
  /\ clock' = clock + 1
  /\ mem' = [mem EXCEPT ![g] = clock + 1]
  /\ abandoned' = abandoned \ {g}
  /\ UNCHANGED <<alive, attach, refcnt, file, maps, pc, req, leaked>>

\* Another program writes the file.
ExtWrite(g) ==
  /\ "extwrite" \in Faults
  /\ clock < MaxClock
  /\ clock' = clock + 1
  /\ file' = [file EXCEPT ![g] = clock + 1]
  /\ UNCHANGED <<alive, attach, refcnt, mem, maps, pc, req, leaked, abandoned>>

\* A process that has nothing to do with the others yet.
Start(p) ==
  /\ p \notin alive
  /\ alive' = alive \cup {p}
  /\ UNCHANGED <<attach, refcnt, mem, file, maps, pc, req, clock, leaked, abandoned>>

\* fork(): the child inherits the list and, in its callback, takes a reference,
\* an alias and a count for one mapping after the other, with the protection
\* the mapping was made with.  If one fails the child does not come to life,
\* and what it counted until then stays counted.
Fork(p, c) ==
  /\ MayCall(p)
  /\ c \notin alive
  /\ \E ok \in Outcomes("fork"), got \in SUBSET maps[p] :
       /\ ok <=> got = maps[p]
       /\ Cardinality(got) <= MaxAttach
       /\ refcnt' = refcnt + Cardinality(got)
       /\ IF ok
            THEN /\ alive' = alive \cup {c}
                 /\ attach' = [attach EXCEPT ![c] = Cardinality(got)]
                 /\ maps' = [maps EXCEPT ![c] = {[m EXCEPT !.page = m.prot] : m \in got}]
                 /\ UNCHANGED leaked
            ELSE /\ leaked + Cardinality(got) <= MaxLeaked
                 /\ leaked' = leaked + Cardinality(got)
                 /\ UNCHANGED <<alive, attach, maps>>
  /\ UNCHANGED <<mem, file, pc, req, clock, abandoned>>

\* The mappings a process has counted and not given back.
Counted(p) ==
  maps[p] \cup
    IF pc[p] \in {"malloc", "dec", "decstore"} /\ ~req[p].listed THEN req[p].m ELSE {}

\* Those of all the processes.
References == UNION {{p} \X Counted(p) : p \in Procs}

\* The mappings of p that munmap() has not written back yet.
Unsynced(p) == IF pc[p] \in {"dec", "decstore"} THEN maps[p] \ req[p].m ELSE maps[p]

\* A process of S will write the page back.
Covered(S, g) == \E p \in S : \E m \in Unsynced(p) : m.prot /\ g \in m.view

\* The process ends, or is killed, wherever it is: the kernel takes its
\* references back, and nobody takes them off the count or syncs its stores.
Exit(p) ==
  /\ "exit" \in Faults
  /\ p \in alive
  /\ leaked + Cardinality(Counted(p)) <= MaxLeaked
  /\ alive' = alive \ {p}
  /\ attach' = [attach EXCEPT ![p] = 0]
  /\ leaked' = leaked + Cardinality(Counted(p))
  /\ abandoned' = abandoned \cup
       {g \in Pages : mem[g] > file[g] /\ ~Covered(Procs \ {p}, g)}
  /\ maps' = [maps EXCEPT ![p] = {}]
  /\ Done(p)
  /\ UNCHANGED <<refcnt, mem, file, clock>>

Step(p) ==
  \/ GetNamed(p) \/ Dup(p) \/ Alias(p) \/ Ref(p) \/ RefStore(p) \/ Insert(p) \/ Load(p)
  \/ Protect(p) \/ Sync(p) \/ Dec(p) \/ DecStore(p) \/ Drop(p) \/ Flush(p) \/ Reread(p)

Next ==
  \/ \E p \in Procs :
       \/ Step(p) \/ Start(p) \/ Exit(p)
       \/ \E a \in Addrs, v \in Views, w \in BOOLEAN : Mmap(p, a, v, w)
       \/ \E m \in maps[p] :
            \/ Munmap(p, m)
            \/ \E w \in BOOLEAN : Mprotect(p, m, w)
            \/ \E f \in SUBSET MsyncFlags : Msync(p, m, f)
            \/ \E g \in Pages : Store(p, m, g)
       \/ \E c \in Procs : Fork(p, c)
  \/ \E g \in Pages : ExtWrite(g)

Spec == Init /\ [][Next]_vars

(***************************************************************************)
(* Properties.                                                             *)
(***************************************************************************)

PCs == {"idle", "get", "dup", "alias", "ref", "refstore", "malloc", "load",
        "protect", "sync", "dec", "decstore", "drop", "flush", "reread"}
Request == [m : SUBSET Mapping, create : BOOLEAN, listed : BOOLEAN,
            flags : SUBSET MsyncFlags, seen : Nat]

TypeOK ==
  /\ alive \subseteq Procs
  /\ attach \in [Procs -> Nat]
  /\ refcnt \in Nat
  /\ mem \in [Pages -> 0..MaxClock]
  /\ file \in [Pages -> 0..MaxClock]
  /\ maps \in [Procs -> SUBSET Mapping]
  /\ pc \in [Procs -> PCs]
  /\ req \in [Procs -> Request]
  /\ clock \in 1..MaxClock
  /\ leaked \in Nat
  /\ abandoned \subseteq Pages

\* mmapFreeMem() gives up the object only with the last mapping of all the
\* processes: no process has a mapping whose memory it has no reference to, or
\* "all the aliases will be invalidated".
AliasBacked == \A p \in Procs : maps[p] # {} => attach[p] > 0

\* The count in the object is the number of mappings there are, plus those of
\* processes that ended without munmap().
RefCountConserved ==
  Exists /\ (\A p \in Procs : ~req[p].create \/ pc[p] \notin {"dup", "alias", "ref"})
    => refcnt = leaked + Cardinality(References)

\* Whatever fails, other programs that write the file and files that cannot be
\* read or written included, the memory behind the aliases and the count stay
\* right, if not the contents.
BackedAndCounted == AliasBacked /\ RefCountConserved

\* A store reaches the file: while the object is newer than the file somebody
\* is left whose munmap() writes the page, or the process that would have done
\* so was killed.
NoLostStore ==
  \A g \in Pages : mem[g] > file[g] => Covered(Procs, g) \/ g \in abandoned

\* What a program finds in a mapping is never older than the file.
MapCurrent ==
  \A p \in Procs : pc[p] = "idle" =>
    \A m \in maps[p] : \A g \in m.view : mem[g] >= file[g]

\* The library never replaces a page of the file by an older one.
FileNeverGoesBack == [][\A g \in Pages : file'[g] >= file[g]]_vars

\* Only the process that creates the object fills it: no store of another
\* process is overwritten by the file unless msync() was asked to.
StoresSurviveLoad ==
  [][\A g \in Pages : mem'[g] < mem[g] =>
       ~Exists \/ \E p \in Procs : pc[p] = "reread"]_vars
=============================================================================
