------------------------------- MODULE Lists --------------------------------
(***************************************************************************)
(* The functions that return an allocated list: getaddrinfo(),             *)
(* getifaddrs(), if_nameindex() and scandir().                             *)
(*                                                                         *)
(* Any allocation may fail.  A block of the heap is a pair: the entry it   *)
(* belongs to and the field that points to it, or <<0, "array">>.  What    *)
(* the sources say of an item (a name that resolves, an interface, a       *)
(* directory entry) is only whether it goes into the list.                 *)
(***************************************************************************)
EXTENDS Naturals, Sequences, FiniteSets

CONSTANTS
  MaxItems,     \* bound: interfaces, or entries of a directory
  Room          \* scandir()'s first room, 20 in the code

VARIABLES
  heap,         \* blocks that are allocated
  open,         \* whether the call has its socket or directory open
  pc,           \* where the call is
  fn,           \* the function that was called last
  todo,         \* items still to come
  fields,       \* fields still to come of the entry being made
  new,          \* fields it has
  list,         \* entries made: the fields of each
  room,         \* entries that the array has room for
  failed,       \* what failed, or "none"
  wanted        \* ghost: items that belong into the list

call == <<fn, todo, fields, new, list, room, failed, wanted>>
vars == <<heap, open, pc, call>>

Init ==
  /\ heap = {} /\ open = FALSE /\ pc = "out"
  /\ fn = "none" /\ todo = <<>> /\ fields = <<>> /\ new = {} /\ list = <<>>
  /\ room = 0 /\ failed = "none" /\ wanted = 0

\* Items that go into the list are told from "other" ones.
Wanted(items) == Cardinality({i \in DOMAIN items : items[i] # "other"})
Interfaces == UNION {[1..n -> {"link", "other"}] : n \in 0..MaxItems}

Array == <<0, "array">>
Of(k, fs) == {k} \X fs
BlocksOf(es) == UNION {Of(k, es[k]) : k \in DOMAIN es}
Making == Append(list, new)

\* A call begins with these items; the caller has given back its last list.
Begin(f, items, label, opens) ==
  /\ pc = "out" /\ heap = {}
  /\ fn' = f /\ todo' = items /\ fields' = <<>> /\ new' = {} /\ list' = <<>>
  /\ room' = 0 /\ failed' = "none" /\ wanted' = Wanted(items)
  /\ open' = opens /\ pc' = label /\ UNCHANGED heap

\* It returns with these blocks allocated.
Return(blocks, why) ==
  /\ heap' = blocks /\ failed' = why
  /\ open' = FALSE /\ pc' = "out"
  /\ UNCHANGED <<fn, todo, fields, new, list, room, wanted>>

\* Arguments are refused, or there is no socket or directory.
Refuse == pc = "refuse" /\ Return(heap, "refused")

\* An item that does not go into the list.
Other ==
  /\ pc = "next" /\ todo # <<>> /\ Head(todo) = "other"
  /\ todo' = Tail(todo)
  /\ UNCHANGED <<heap, open, pc, fn, fields, new, list, room, failed, wanted>>

\* An entry is made field by field, and goes into the list.
Make(fs) ==
  /\ pc = "next" /\ todo # <<>> /\ Head(todo) # "other"
  /\ fields' = fs /\ pc' = "field"
  /\ UNCHANGED <<heap, open, fn, todo, new, list, room, failed, wanted>>
Field ==
  /\ pc = "field" /\ fields # <<>>
  /\ heap' = heap \cup Of(Len(list) + 1, {Head(fields)})
  /\ new' = new \cup {Head(fields)} /\ fields' = Tail(fields)
  /\ UNCHANGED <<open, pc, fn, todo, list, room, failed, wanted>>
Link ==
  /\ pc = "field" /\ fields = <<>>
  /\ list' = Making
  /\ new' = {} /\ todo' = Tail(todo) /\ pc' = "next"
  /\ UNCHANGED <<heap, open, fn, fields, room, failed, wanted>>

(***************************************************************************)
(* getaddrinfo(): an entry for UDP, one for TCP, or both.                  *)
(***************************************************************************)
Getaddrinfo ==
  \E protocols \in {<<"udp">>, <<"tcp">>, <<"udp", "tcp">>},
     canonname, hintsOK, nodeOK, serviceOK \in BOOLEAN :
    Begin("getaddrinfo",
          [i \in DOMAIN protocols |-> IF canonname THEN "named" ELSE "plain"],
          IF hintsOK /\ nodeOK /\ serviceOK THEN "next" ELSE "refuse", FALSE)

\* makeaddrinfo()
Makeaddrinfo ==
  /\ fn = "getaddrinfo"
  /\ Make(<<"node", "addr">> \o (IF Head(todo) = "named" THEN <<"canonname">> ELSE <<>>))

FreeAddrinfo(es) == BlocksOf([k \in DOMAIN es |-> es[k] \cap {"canonname", "addr", "node"}])

\* Only the entry being made is freed: *res still points to the one before.
AddrinfoFails ==
  /\ fn = "getaddrinfo" /\ pc = "field" /\ fields # <<>>
  /\ Return(heap \ (FreeAddrinfo(Making) \ FreeAddrinfo(list)), "EAI_SYSTEM")

AddrinfoDone == fn = "getaddrinfo" /\ pc = "next" /\ todo = <<>> /\ Return(heap, "none")

(***************************************************************************)
(* getifaddrs(): an entry AF_LINK and one AF_INET for each interface.      *)
(***************************************************************************)
InterfaceEntries(items) ==
  [k \in 1..2 * Len(items) |->
     IF items[(k + 1) \div 2] = "other" THEN "other" ELSE IF k % 2 = 1 THEN "link" ELSE "inet"]

Getifaddrs ==
  \E items \in Interfaces, label \in {"next", "refuse"}, opens \in BOOLEAN :
    /\ opens \/ label = "refuse"
    /\ Begin("getifaddrs", InterfaceEntries(items), label, opens)

NextIfaddr ==
  /\ fn = "getifaddrs"
  /\ Make(<<"node", "name", "addr">> \o
          (IF Head(todo) = "inet" THEN <<"netmask", "broadaddr">> ELSE <<>>))

\* Of an entry AF_INET what an ioctl does not find is left out.
IoctlFails ==
  /\ fn = "getifaddrs" /\ pc = "field" /\ fields # <<>>
  /\ Head(todo) = "inet" /\ Head(fields) \notin {"node", "name"}
  /\ fields' = Tail(fields)
  /\ UNCHANGED <<heap, open, pc, fn, todo, new, list, room, failed, wanted>>

\* Mutant: the netmask is forgotten.
FreeIfaddrsNoMask(es) ==
  BlocksOf([k \in DOMAIN es |-> es[k] \cap {"name", "addr", "broadaddr", "node"}])

\* ifa_dstaddr is the same member as ifa_broadaddr.
FreeIfaddrs(es) ==
  BlocksOf([k \in DOMAIN es |-> es[k] \cap {"name", "addr", "netmask", "broadaddr", "node"}])

IfaddrFails ==
  /\ fn = "getifaddrs" /\ pc = "field" /\ fields # <<>>
  /\ Return(heap \ FreeIfaddrs(Making), "ENOMEM")

IfaddrsDone == fn = "getifaddrs" /\ pc = "next" /\ todo = <<>> /\ Return(heap, "none")

(***************************************************************************)
(* if_nameindex(): an array of all interfaces and a last mark.             *)
(***************************************************************************)
IfNameindex ==
  \E items \in Interfaces, label \in {"calloc", "refuse"}, opens \in BOOLEAN :
    /\ opens \/ label = "refuse"
    /\ Begin("if_nameindex", items, label, opens)

Calloc ==
  /\ pc = "calloc"
  /\ heap' = {Array} /\ room' = Len(todo) + 1 /\ pc' = "next"
  /\ UNCHANGED <<open, fn, todo, fields, new, list, failed, wanted>>
CallocFails == pc = "calloc" /\ Return(heap, "calloc")

NextName == fn = "if_nameindex" /\ Make(<<"name">>)

\* The walk ends at the first index that is 0.
FreeNameindex(es) == BlocksOf([k \in DOMAIN es |-> es[k] \cap {"name"}]) \cup {Array}

NameFails ==
  /\ fn = "if_nameindex" /\ pc = "field" /\ fields # <<>>
  /\ Return(heap \ FreeNameindex(Making), "strdup")

\* With the last mark there is one entry more than names; all but one count shrink.
Shrink ==
  /\ fn = "if_nameindex" /\ pc = "next" /\ todo = <<>>
  /\ room' = IF Len(list) + 1 # room - 1 THEN Len(list) + 1 ELSE room
  /\ open' = FALSE /\ pc' = "out"
  /\ UNCHANGED <<heap, fn, todo, fields, new, list, failed, wanted>>
\* NULL is returned, and the array it was is lost.
ShrinkFails ==
  /\ fn = "if_nameindex" /\ pc = "next" /\ todo = <<>> /\ Len(list) + 1 # room - 1
  /\ Return(heap, "realloc")

(***************************************************************************)
(* scandir(): an array that doubles, and a block for each entry.  What is  *)
(* in errno when the loop ends tells whether it failed.                    *)
(***************************************************************************)
Scandir ==
  \E items \in Interfaces, opens \in BOOLEAN :
    Begin("scandir", items, IF opens THEN "next" ELSE "refuse", opens)

Fails(errno) ==
  /\ failed' = errno /\ pc' = "end"
  /\ UNCHANGED <<heap, open, fn, todo, fields, new, list, room, wanted>>

ReaddirFails == fn = "scandir" /\ pc = "next" /\ Fails("EBADF")

NextDirent ==
  /\ fn = "scandir" /\ pc = "next" /\ todo # <<>> /\ Head(todo) # "other"
  /\ pc' = IF Len(list) = room THEN "grow" ELSE "malloc"
  /\ UNCHANGED <<heap, open, fn, todo, fields, new, list, room, failed, wanted>>

Grow ==
  /\ pc = "grow"
  /\ heap' = heap \cup {Array} /\ room' = (IF room = 0 THEN Room ELSE 2 * room)
  /\ pc' = "malloc"
  /\ UNCHANGED <<open, fn, todo, fields, new, list, failed, wanted>>
Store ==
  /\ pc = "malloc"
  /\ heap' = heap \cup Of(Len(list) + 1, {"dirent"})
  /\ list' = Append(list, {"dirent"})
  /\ todo' = Tail(todo) /\ pc' = "next"
  /\ UNCHANGED <<open, fn, fields, new, room, failed, wanted>>
DirentFails == pc \in {"grow", "malloc"} /\ Fails("ENOMEM")

ReaddirDone ==
  /\ fn = "scandir" /\ pc = "next" /\ todo = <<>>
  /\ pc' = "end"
  /\ UNCHANGED <<heap, open, fn, todo, fields, new, list, room, failed, wanted>>

FreeDirents(es) == BlocksOf(es) \cup {Array}
EndScandir ==
  /\ pc = "end"
  /\ Return(IF failed = "none" THEN heap ELSE heap \ FreeDirents(list), failed)

(***************************************************************************)
(* The caller gives back what it got.                                      *)
(***************************************************************************)
GiveBack ==
  /\ pc = "out" /\ failed = "none" /\ heap # {}
  /\ heap' = heap \ (CASE fn = "getaddrinfo" -> FreeAddrinfo(list)
                        [] fn = "getifaddrs" -> FreeIfaddrs(list)
                        [] fn = "if_nameindex" -> FreeNameindex(list)
                        [] fn = "scandir" -> FreeDirents(list))
  /\ list' = <<>> /\ room' = 0 /\ wanted' = 0 /\ fn' = "none"
  /\ UNCHANGED <<open, pc, todo, fields, new, failed>>

Next ==
  \/ Getaddrinfo \/ Makeaddrinfo \/ AddrinfoFails \/ AddrinfoDone
  \/ Getifaddrs \/ NextIfaddr \/ IoctlFails \/ IfaddrFails \/ IfaddrsDone
  \/ IfNameindex \/ Calloc \/ CallocFails \/ NextName \/ NameFails \/ Shrink \/ ShrinkFails
  \/ Scandir \/ ReaddirFails \/ NextDirent \/ Grow \/ Store \/ DirentFails
  \/ ReaddirDone \/ EndScandir
  \/ Refuse \/ Other \/ Field \/ Link \/ GiveBack

Spec == Init /\ [][Next]_vars

(***************************************************************************)
(* Properties.                                                             *)
(***************************************************************************)
TypeOK ==
  /\ heap \subseteq (0..2 * MaxItems) \X
       {"array", "node", "name", "addr", "canonname", "netmask", "broadaddr", "dirent"}
  /\ Len(list) + Len(todo) <= 2 * MaxItems + 2
  /\ \A k \in DOMAIN list : list[k] # {}
  /\ open => pc # "out"

\* Arrays are never written behind their end, the last mark of if_nameindex() included.
InRoom ==
  /\ fn = "if_nameindex" /\ heap # {} => Len(list) + 1 <= room
  /\ fn = "scandir" => Len(list) <= room

\* A call that succeeds returns all that belongs into its list, and nothing else is
\* allocated; one that fails leaves nothing behind, whichever allocation or ioctl
\* failed, and closes what it opened; what is given back is freed whole.  Two calls
\* lose blocks: getaddrinfo() leaves its UDP entry when the TCP entry fails, and
\* if_nameindex() loses all when it cannot shrink its array.
ListsOwned ==
  /\ InRoom
  /\ pc = "out" =>
       /\ ~open
       /\ failed = "none" =>
            /\ Len(list) = wanted
            /\ heap \ {Array} = BlocksOf(list)
            /\ Array \in heap <=> room > 0
       /\ failed # "none" =>
            \/ heap = {}
            \/ fn = "getaddrinfo" /\ Len(list) = 1 /\ heap = BlocksOf(list)
            \/ fn = "if_nameindex" /\ failed = "realloc"
=============================================================================
