------------------------------ MODULE Library -------------------------------
(***************************************************************************)
(* The smaller parts of the library, which share no state: xpoll, the      *)
(* pointers to functions of other DLLs, allocated lists, pipe() and        *)
(* aliasAtAddress().  Each behaviour is one of one part; the others stay   *)
(* as they begin.                                                          *)
(***************************************************************************)
EXTENDS Xpoll

CONSTANTS
  LoaderThreads, Present,       \* of Loader
  MaxItems, Room,               \* of Lists
  PipeThreads, First, MaxPipes, \* of Pipe
  Pages, Chunk, MaxTmps         \* of AliasAt

ASSUME LibraryAssumption ==
  /\ MaxItems \in Nat \ {0} /\ Room \in Nat \ {0}
  /\ PipeThreads \subseteq Nat \X Nat /\ First \in Nat /\ MaxPipes \in Nat
  /\ Pages \in Nat /\ Chunk \in Nat /\ MaxTmps \in Nat

VARIABLES
  part,                         \* the part that this behaviour is about
  dlls, libcx, libc, doscalls, ptr, loaderPc, loaderFn, got, raced,
  heap, listOpen, listPc, listFn, todo, fields, new, list, room, failed, wanted,
  pipes, pipePc, name, instances, ends, overlapped,
  taken, pvReq, cbReq, own, tmps, cbTmp, aliasPc, rcRet, below

loaderVars == <<dlls, libcx, libc, doscalls, ptr, loaderPc, loaderFn, got, raced>>
listVars == <<heap, listOpen, listPc, listFn, todo, fields, new, list, room, failed, wanted>>
pipeVars == <<pipes, pipePc, name, instances, ends, overlapped>>
aliasVars == <<taken, pvReq, cbReq, own, tmps, cbTmp, aliasPc, rcRet, below>>
libVars == <<part, vars, loaderVars, listVars, pipeVars, aliasVars>>

Loading == INSTANCE Loader WITH Threads <- LoaderThreads, pc <- loaderPc, fn <- loaderFn
Listing == INSTANCE Lists WITH open <- listOpen, pc <- listPc, fn <- listFn
Piping == INSTANCE Pipe WITH Threads <- PipeThreads, pc <- pipePc
Aliasing == INSTANCE AliasAt WITH Size <- Pages, pc <- aliasPc

LibInit ==
  /\ part \in {"xpoll", "loader", "lists", "pipe", "alias"}
  /\ Init /\ Loading!Init /\ Listing!Init /\ Piping!Init /\ Aliasing!Init
  /\ part # "loader" => dlls = {}
  /\ part # "alias" => taken = {} /\ pvReq = 1 /\ cbReq = 1

LibNext ==
  /\ UNCHANGED part
  /\ \/ part = "xpoll" /\ Next
        /\ UNCHANGED <<loaderVars, listVars, pipeVars, aliasVars>>
     \/ part = "loader" /\ Loading!Next
        /\ UNCHANGED <<vars, listVars, pipeVars, aliasVars>>
     \/ part = "lists" /\ Listing!Next
        /\ UNCHANGED <<vars, loaderVars, pipeVars, aliasVars>>
     \/ part = "pipe" /\ Piping!Next
        /\ UNCHANGED <<vars, loaderVars, listVars, aliasVars>>
     \/ part = "alias" /\ Aliasing!Next
        /\ UNCHANGED <<vars, loaderVars, listVars, pipeVars>>

LibSpec == LibInit /\ [][LibNext]_libVars

\* Every part has variables of the right type.
TypesOK == TypeOK /\ Loading!TypeOK /\ Listing!TypeOK /\ Piping!TypeOK /\ Aliasing!TypeOK

\* What the parts promise: Loader, Lists, Pipe and AliasAt say what each property means.
CallsLoaded == Loading!CallsLoaded
ListsOwned == Listing!ListsOwned
PipesPaired == Piping!PipesPaired
AliasPlaced == Aliasing!AliasPlaced
AliasRetries == Aliasing!AliasRetries
=============================================================================
