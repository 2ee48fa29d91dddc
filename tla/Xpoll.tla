------------------------------- MODULE Xpoll -------------------------------
(***************************************************************************)
(* network/xpoll.c: a set of descriptors to poll, kept as a sorted array.  *)
(*                                                                         *)
(* xpoll_wait() is poll() on the whole array.  While it waits, descriptors *)
(* become ready and other threads open and close them; the set itself is   *)
(* used by one thread.                                                     *)
(***************************************************************************)
EXTENDS Poll

CONSTANTS
  Asks,         \* sets of events a program asks for
  MaxFds,       \* the room for results that it gives
  Changing      \* pairs of a descriptor and an event that come and go

ASSUME XpollAssumption ==
  /\ Fds \subseteq Int /\ IsFiniteSet(Fds) /\ FD_SETSIZE \in Nat \ {0}
  /\ Asks \subseteq SUBSET Events /\ MaxFds \subseteq Nat
  /\ Changing \subseteq Fds \X Events

VARIABLES
  open,         \* descriptors that are open
  ready,        \* pairs of Changing that are ready
  fds,          \* the entries of the set; nfds is its length
  pc,           \* where xpoll_wait() is
  call,         \* its locals
  held,         \* ghost: entries ready and valid since select() began to look
  answer,       \* result of the last call, if it was xpoll_query()
  reported      \* results of the last call, if it was xpoll_wait()

vars == <<open, ready, fds, pc, call, held, answer, reported>>

None == [found |-> FALSE, events |-> {}]
NoCall == [max |-> 0, timeout |-> "none", asked |-> {}, count |-> 0]

Init ==
  /\ open = {fd \in Fds : fd >= 0}
  /\ ready = {}
  /\ fds = <<>>
  /\ pc = "out"
  /\ call = NoCall
  /\ held = {}
  /\ answer = None
  /\ reported = <<>>

(***************************************************************************)
(* binsearch(): positions count from 0; -pos - 1 is where to insert.  A    *)
(* range is a pair of its first and its last position.                     *)
(***************************************************************************)
Ranges(n) == (0..n) \X (-1..n)
Mid(range) == IF range[1] < range[2] THEN (range[1] + range[2]) \div 2 ELSE range[1]
Lower(range) == <<range[1], Mid(range) - 1>>
Upper(range) == <<Mid(range) + 1, range[2]>>

\* Mutant: the last entry is not in the range.
BinSearchShort(es, fd) ==
  LET s[range \in Ranges(Len(es))] ==
        IF es[Mid(range) + 1].fd = fd THEN Mid(range)
        ELSE IF range[1] < range[2]
             THEN s[IF es[Mid(range) + 1].fd < fd THEN Upper(range) ELSE Lower(range)]
        ELSE IF es[Mid(range) + 1].fd < fd THEN -(range[1] + 1) - 1 ELSE -range[1] - 1
  IN  IF es = <<>> THEN -1 ELSE s[<<0, Len(es) - 2>>]

BinSearch(es, fd) ==
  LET s[range \in Ranges(Len(es))] ==
        IF es[Mid(range) + 1].fd = fd THEN Mid(range)
        ELSE IF range[1] < range[2]
             THEN s[IF es[Mid(range) + 1].fd < fd THEN Upper(range) ELSE Lower(range)]
        ELSE IF es[Mid(range) + 1].fd < fd THEN -(range[1] + 1) - 1 ELSE -range[1] - 1
  IN  IF es = <<>> THEN -1 ELSE s[<<0, Len(es) - 1>>]

\* check_fd() accepts negative descriptors.
CheckFd(fd) == fd < 0 \/ Supported(fd, open)

(***************************************************************************)
(* The operations on the set.                                              *)
(***************************************************************************)
NoResult == answer' = None /\ reported' = <<>>

\* A full set refuses also a descriptor that it holds.
Add(fd, events) ==
  /\ pc = "out"
  /\ CheckFd(fd) /\ Len(fds) < FD_SETSIZE
  /\ LET pos == BinSearch(fds, fd)
     IN  fds' = IF pos < 0 THEN InsertAt(fds, -pos, Entry(fd, events))
                           ELSE ReplaceAt(fds, pos + 1, Entry(fd, events))
  /\ NoResult /\ UNCHANGED <<open, ready, pc, call, held>>

Deleted(es, fd) ==
  LET pos == BinSearch(es, fd) IN IF pos < 0 THEN es ELSE RemoveAt(es, pos + 1)
Del(fd) ==
  /\ pc = "out"
  /\ fds' = Deleted(fds, fd)
  /\ NoResult /\ UNCHANGED <<open, ready, pc, call, held>>

\* The loop goes down from the last entry and deletes by descriptor; kept[i] is the set
\* when it has come down to the first i entries.
Kept(es) ==
  LET kept[i \in 0..Len(es)] ==
        IF i = Len(es) THEN es
        ELSE IF CheckFd(es[i + 1].fd) THEN kept[i + 1] ELSE Deleted(kept[i + 1], es[i + 1].fd)
  IN  kept[0]
DelClosed ==
  /\ pc = "out"
  /\ fds' = Kept(fds)
  /\ NoResult /\ UNCHANGED <<open, ready, pc, call, held>>

Query(fd) ==
  /\ pc = "out"
  /\ LET pos == BinSearch(fds, fd)
     IN  answer' = IF pos < 0 THEN None
                   ELSE [found |-> TRUE, events |-> fds[pos + 1].events]
  /\ reported' = <<>>
  /\ UNCHANGED <<open, ready, fds, pc, call, held>>

(***************************************************************************)
(* xpoll_wait().                                                           *)
(***************************************************************************)
Leave == pc' = "out" /\ call' = NoCall /\ held' = {}

\* poll()'s first loop.
Wait ==
  /\ pc = "out"
  /\ \E max \in MaxFds, timeout \in {"none", "some", "zero"} :
       call' = [max |-> max, asked |-> Asked(fds, open), count |-> 0,
                timeout |-> IF TimeoutZero(Check(fds, open), timeout) THEN "zero" ELSE timeout]
  /\ fds' = Check(fds, open)
  /\ pc' = IF TooLarge(fds, open) # {} THEN "einval"
           ELSE IF Waits(fds, open) THEN "select" ELSE "fill"
  /\ held' = {fds[i].fd : i \in {j \in DOMAIN fds :
                /\ Supported(fds[j].fd, open)
                /\ Select({fds[j].fd} \X fds[j].events, ready) # {}}}
  /\ NoResult
  /\ UNCHANGED <<open, ready>>

Einval == pc = "einval" /\ Leave /\ UNCHANGED <<open, ready, fds, answer, reported>>

\* select() returns with what it found, or at the end of the timeout with nothing.
SelectFound ==
  /\ pc = "select" /\ {r[1] : r \in call.asked} \subseteq open
  /\ LET found == Select(call.asked, ready)
     IN  /\ found # {} \/ call.timeout # "none"
         /\ call' = [call EXCEPT !.asked = found]
  /\ pc' = "fill"
  /\ UNCHANGED <<open, ready, fds, held, answer, reported>>

\* A signal, or a descriptor that another thread closed.
SelectFails == pc = "select" /\ Leave /\ UNCHANGED <<open, ready, fds, answer, reported>>

\* poll()'s second loop.
FillResults ==
  /\ pc = "fill"
  /\ fds' = Fill(fds, call.asked)
  /\ call' = [call EXCEPT !.count = Cardinality(Ready(fds'))]
  /\ pc' = "scan"
  /\ UNCHANGED <<open, ready, held, answer, reported>>

\* The entries with events, in the order of the array.
Hits(es) ==
  LET hits[i \in 0..Len(es)] ==
        IF i = 0 THEN <<>>
        ELSE IF es[i].revents # {} THEN Append(hits[i - 1], es[i]) ELSE hits[i - 1]
  IN  hits[Len(es)]

\* Mutant: with little room the last results are copied.
ScanLast ==
  /\ pc = "scan"
  /\ reported' = SubSeq(Hits(fds), 1 + Max({0, call.count - call.max}), call.count)
  /\ fds' = [i \in DOMAIN fds |-> [fds[i] EXCEPT !.revents = {}]]
  /\ Leave
  /\ UNCHANGED <<open, ready, answer>>

\* The scan copies the first results that there is room for, and clears all.
Scan ==
  /\ pc = "scan"
  /\ reported' = SubSeq(Hits(fds), 1, Min({call.count, call.max}))
  /\ fds' = [i \in DOMAIN fds |-> [fds[i] EXCEPT !.revents = {}]]
  /\ Leave
  /\ UNCHANGED <<open, ready, answer>>

(***************************************************************************)
(* The other threads and peers.                                            *)
(***************************************************************************)
Become(r) ==
  /\ r[1] \in open
  /\ ready' = IF r \in ready THEN ready \ {r} ELSE ready \cup {r}
  /\ held' = held \ (IF r \in ready THEN {r[1]} ELSE {})
  /\ UNCHANGED <<open, fds, pc, call, answer, reported>>
Close(fd) ==
  /\ fd \in open
  /\ open' = open \ {fd}
  /\ ready' = {r \in ready : r[1] # fd}
  /\ held' = held \ {fd}
  /\ UNCHANGED <<fds, pc, call, answer, reported>>
Reopen(fd) ==
  /\ fd >= 0 /\ fd \notin open
  /\ open' = open \cup {fd}
  /\ UNCHANGED <<ready, fds, pc, call, held, answer, reported>>

Next ==
  \/ \E fd \in Fds : (\E events \in Asks : Add(fd, events)) \/ Del(fd) \/ Query(fd)
  \/ DelClosed
  \/ Wait \/ Einval \/ SelectFound \/ SelectFails \/ FillResults \/ Scan
  \/ \E r \in Changing : Become(r)
  \/ \E fd \in Fds : Close(fd) \/ Reopen(fd)

Spec == Init /\ [][Next]_vars

(***************************************************************************)
(* Properties.                                                             *)
(***************************************************************************)
TypeOK ==
  /\ open \subseteq Fds /\ ready \subseteq Changing /\ held \subseteq Fds
  /\ Len(fds) <= FD_SETSIZE
  /\ \A i \in DOMAIN fds :
       /\ fds[i].fd \in Fds /\ fds[i].events \in Asks
       /\ fds[i].revents \subseteq fds[i].events \cup {"POLLNVAL"}
  /\ pc \in {"out", "einval", "select", "fill", "scan"}
  /\ call.max \in MaxFds \cup {0} /\ call.count <= Len(fds)

\* The sorted array is a finite map from descriptors to events, whatever is added
\* and deleted in which order, also when descriptors are closed between; and each
\* wait reports entries of it, ascending, with events that were asked for.
SetMap == [fd \in {fds[i].fd : i \in DOMAIN fds} |->
             fds[CHOOSE i \in DOMAIN fds : fds[i].fd = fd].events]
Results == [k \in DOMAIN reported |->
              [fd |-> reported[k].fd, revents |-> reported[k].revents]]
Promised == INSTANCE PollSet WITH Size <- FD_SETSIZE, map <- SetMap, reported <- Results
XpollIsMap == Promised!Spec

\* A wait loses nothing that was ready all the time: it is among the results, or these
\* are as many as there is room for and all of them come before it.
HeldReported ==
  [][pc = "scan" /\ pc' = "out" =>
       \A fd \in held :
         \/ \E k \in DOMAIN reported' : reported'[k].fd = fd
         \/ /\ Len(reported') = call.max
            /\ \A k \in DOMAIN reported' : reported'[k].fd < fd]_vars
=============================================================================
