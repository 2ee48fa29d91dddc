------------------------------ MODULE AliasAt -------------------------------
(***************************************************************************)
(* aliasAtAddress() of memory/mmap.c: the alias of a shared object at the  *)
(* address it has in the parent, for the child of fork().                  *)
(*                                                                         *)
(* DosAliasMem() takes no address, so memory below the address is used up  *)
(* until the alias falls there.  Where the kernel puts an allocation is    *)
(* its own choice among the free ranges.                                   *)
(***************************************************************************)
EXTENDS Naturals, Sequences, FiniteSets

CONSTANTS
  Size,         \* pages of the address space, from 1
  Chunk,        \* cbTmp at first: 1 MB
  MaxTmps       \* length of apvTmps, 512

VARIABLES
  taken,        \* pages in use before the call
  pvReq, cbReq, \* where, and how many pages
  own,          \* objects that the call allocated and did not free
  tmps,         \* apvTmps up to iTmp; 0 is NULL
  cbTmp,
  pc,           \* "loop", "alias", "cleanup" or "done"
  rcRet,        \* whether it succeeded
  below         \* ghost: an alias fell below pvReq

vars == <<taken, pvReq, cbReq, own, tmps, cbTmp, pc, rcRet, below>>

Span(at, n) == at..(at + n - 1)
Objects(os) == UNION {Span(o[1], o[2]) : o \in os}

\* DosAllocMem() refuses a size of 0.
Places(n) ==
  {at \in 1..Size : /\ n > 0 /\ at + n - 1 <= Size
                    /\ Span(at, n) \cap (taken \cup Objects(own)) = {}}

Init ==
  /\ own = {}
  /\ taken \in SUBSET (1..Size)
  /\ cbReq \in 1..2
  /\ pvReq \in Places(cbReq)
  /\ tmps = <<>> /\ cbTmp = Chunk
  /\ pc = "loop" /\ rcRet = FALSE /\ below = FALSE

\* DosAllocMem() finds nothing, or there is no room in apvTmps.
AllocFails ==
  /\ pc = "loop"
  /\ Places(cbTmp) = {} \/ Len(tmps) = MaxTmps
  /\ pc' = "cleanup"
  /\ UNCHANGED <<taken, pvReq, cbReq, own, tmps, cbTmp, rcRet, below>>

\* Past the address: once more with the size that is wanted, or the end.  What was
\* allocated last is not in the part of apvTmps that is freed.
AllocPast ==
  /\ pc = "loop" /\ Len(tmps) < MaxTmps
  /\ \E at \in Places(cbTmp) :
       /\ at > pvReq
       /\ IF cbTmp <= cbReq
            THEN own' = own \cup {<<at, cbTmp>>} /\ pc' = "cleanup" /\ UNCHANGED cbTmp
            ELSE cbTmp' = cbReq /\ UNCHANGED <<own, pc>>
  /\ UNCHANGED <<taken, pvReq, cbReq, tmps, rcRet, below>>

\* It touches the address: it is freed, and the gap before the address becomes the size.
AllocTouches ==
  /\ pc = "loop" /\ Len(tmps) < MaxTmps
  /\ \E at \in Places(cbTmp) :
       /\ at <= pvReq /\ at + cbTmp > pvReq
       /\ cbTmp' = pvReq - at
       /\ pc' = IF at = pvReq THEN "alias" ELSE "loop"
  /\ UNCHANGED <<taken, pvReq, cbReq, own, tmps, rcRet, below>>

\* It is kept.
AllocBelow ==
  /\ pc = "loop" /\ Len(tmps) < MaxTmps
  /\ \E at \in Places(cbTmp) :
       /\ at + cbTmp <= pvReq
       /\ own' = own \cup {<<at, cbTmp>>} /\ tmps' = Append(tmps, at)
  /\ UNCHANGED <<taken, pvReq, cbReq, cbTmp, pc, rcRet, below>>

\* DosAliasMem().  An alias past the address is left where it is.
AliasFails ==
  /\ pc = "alias"
  /\ pc' = "cleanup"
  /\ UNCHANGED <<taken, pvReq, cbReq, own, tmps, cbTmp, rcRet, below>>
Alias ==
  /\ pc = "alias"
  /\ \E at \in Places(cbReq) :
       /\ own' = own \cup {<<at, cbReq>>}
       /\ rcRet' = (at = pvReq)
       /\ below' = (below \/ at < pvReq)
       /\ IF at < pvReq
            THEN pc' = "loop" /\ tmps' = Append(tmps, at)
            ELSE pc' = "cleanup" /\ UNCHANGED tmps
  /\ UNCHANGED <<taken, pvReq, cbReq, cbTmp>>

\* Mutant: the first object is not freed.
CleanupShort ==
  /\ pc = "cleanup"
  /\ own' = {o \in own : \A i \in DOMAIN tmps \ {1} : o[1] # tmps[i]}
  /\ pc' = "done"
  /\ UNCHANGED <<taken, pvReq, cbReq, tmps, cbTmp, rcRet, below>>

Cleanup ==
  /\ pc = "cleanup"
  /\ own' = {o \in own : \A i \in DOMAIN tmps : o[1] # tmps[i]}
  /\ pc' = "done"
  /\ UNCHANGED <<taken, pvReq, cbReq, tmps, cbTmp, rcRet, below>>

Next == AllocFails \/ AllocPast \/ AllocTouches \/ AllocBelow \/ AliasFails \/ Alias \/ Cleanup
Spec == Init /\ [][Next]_vars

TypeOK ==
  /\ Objects(own) \cap taken = {}
  /\ Len(tmps) <= MaxTmps /\ cbTmp \in 0..Chunk

\* Wherever the kernel puts the allocations, a call that succeeds has the alias at the
\* address and nothing else; one that fails has freed what it took below the address,
\* and has lost at most the last object, which lies past it.
AliasPlaced ==
  pc = "done" =>
    IF rcRet THEN own = {<<pvReq, cbReq>>}
    ELSE Cardinality(own) <= 1 /\ \A o \in own : o[1] > pvReq

\* Once an alias fell below the address, where memory is free as before, the search ends
\* only with a full table or with memory past the address.
AliasRetries ==
  [][below /\ pc = "loop" /\ pc' = "cleanup" => Len(tmps) = MaxTmps \/ own' # own]_vars
=============================================================================
