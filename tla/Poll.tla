-------------------------------- MODULE Poll --------------------------------
(***************************************************************************)
(* network/poll.c: poll() on top of select().                              *)
(*                                                                         *)
(* An entry has a descriptor, the events asked for and the events found.   *)
(* The first loop checks the descriptors and fills the sets for select(),  *)
(* the second one takes the results from the sets.                         *)
(***************************************************************************)
EXTENDS Integers, Sequences, FiniteSets, SequencesExt, FiniteSetsExt

CONSTANTS
  Fds,          \* descriptors, negative ones too
  Type,         \* Type[fd] for the others: "file", "socket", "pipe" or "other"
  FD_SETSIZE

Events == {"POLLIN", "POLLOUT", "POLLPRI"}
Entry(fd, events) == [fd |-> fd, events |-> events, revents |-> {}]

\* checkfd(): the handle is open and of a kind that select() can wait for.
Supported(fd, open) == fd \in open /\ Type[fd] \in {"file", "socket", "pipe"}

\* What makes poll() return EINVAL: the first descriptor too large for a set.
TooLarge(es, open) ==
  {i \in DOMAIN es : Supported(es[i].fd, open) /\ es[i].fd >= FD_SETSIZE}
Loop(es, open) ==
  IF TooLarge(es, open) = {} THEN DOMAIN es ELSE 1..Min(TooLarge(es, open))

\* The first loop.  Negative descriptors are passed over.
Check(es, open) ==
  [i \in DOMAIN es |->
     IF i \notin Loop(es, open) THEN es[i]
     ELSE [es[i] EXCEPT !.revents =
             IF es[i].fd >= 0 /\ ~Supported(es[i].fd, open) THEN {"POLLNVAL"} ELSE {}]]
Asked(es, open) ==
  UNION {{es[i].fd} \X es[i].events : i \in {j \in DOMAIN es : Supported(es[j].fd, open)}}

\* val # -1: there is something to wait for.  A descriptor that is not valid makes
\* the timeout zero.
Waits(es, open) == \E i \in DOMAIN es : Supported(es[i].fd, open)
TimeoutZero(es, timeout) ==
  timeout = "zero" \/ \E i \in DOMAIN es : "POLLNVAL" \in es[i].revents

\* The second loop.
Fill(es, sel) ==
  [i \in DOMAIN es |->
     IF es[i].fd >= 0 /\ es[i].revents = {}
       THEN [es[i] EXCEPT !.revents = {e \in Events : <<es[i].fd, e>> \in sel}]
       ELSE es[i]]
Ready(es) == {i \in DOMAIN es : es[i].revents # {}}

\* select() reports what is ready of what it is asked; a file always is.
Select(asked, ready) == {r \in asked : Type[r[1]] = "file" \/ r \in ready}
=============================================================================
