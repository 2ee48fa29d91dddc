------------------------------ MODULE PollSet ------------------------------
(***************************************************************************)
(* What an xpoll set promises: a finite map from descriptors to the events *)
(* the program wants to know of.  A call that waits reports descriptors of *)
(* the map, each once and in ascending order, with events asked for, or    *)
(* as not valid.                                                           *)
(***************************************************************************)
EXTENDS Integers, Sequences, FiniteSets

CONSTANTS
  Fds, Asks,  \* descriptors, and the sets of events that can be asked for
  Size        \* the most descriptors a set can hold

None == [found |-> FALSE, events |-> {}]

VARIABLES
  map,        \* a partial function from Fds to Asks
  answer,     \* result of the last call, if it was a query
  reported    \* what the last call reported, if it was a wait: a sequence

vars == <<map, answer, reported>>

Init == map = <<>> /\ answer = None /\ reported = <<>>

NoResult == answer' = None /\ reported' = <<>>

\* A call that fails changes nothing; an addition may fail at any time.
Add ==
  /\ \E fd \in Fds, events \in Asks :
       /\ Cardinality(DOMAIN map \cup {fd}) <= Size
       /\ map' = [f \in DOMAIN map \cup {fd} |-> IF f = fd THEN events ELSE map[f]]
  /\ NoResult

\* Deleting takes one descriptor, or those that were closed.
Delete ==
  /\ \E gone \in SUBSET DOMAIN map : map' = [f \in DOMAIN map \ gone |-> map[f]]
  /\ NoResult

Query ==
  /\ \E fd \in Fds :
       answer' = IF fd \in DOMAIN map THEN [found |-> TRUE, events |-> map[fd]] ELSE None
  /\ reported' = <<>> /\ UNCHANGED map

Report ==
  /\ \A k \in DOMAIN reported' :
       /\ reported'[k].fd \in DOMAIN map
       /\ reported'[k].revents # {}
       /\ reported'[k].revents \subseteq map[reported'[k].fd] \cup {"POLLNVAL"}
       /\ \A j \in DOMAIN reported' : j < k => reported'[j].fd < reported'[k].fd
  /\ answer' = None /\ UNCHANGED map

Next == Add \/ Delete \/ Query \/ Report
Spec == Init /\ [][Next]_vars
=============================================================================
