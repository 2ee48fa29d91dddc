-------------------------------- MODULE Pipe --------------------------------
(***************************************************************************)
(* io/pipe.c: pipe() as a named pipe with one instance.                    *)
(*                                                                         *)
(* The name is made of the process id and a counter of the process, which  *)
(* a forked child inherits.  The counter is added to atomically and read   *)
(* again for the name; no result of the DOS calls is looked at.            *)
(***************************************************************************)
EXTENDS Naturals, FiniteSets

CONSTANTS
  Threads,      \* pairs of a process and a number
  First,        \* the process that starts first
  MaxPipes      \* bound: calls per counter

VARIABLES
  pipes,        \* the counter of each process that was started
  pc,           \* where each thread is in pipe()
  name,         \* szPipeName
  instances,    \* named pipes: the thread that made each, and its state
  ends,         \* hpipe and hpipeWrite of each thread
  overlapped    \* ghost: calls that were between the addition and the name together

vars == <<pipes, pc, name, instances, ends, overlapped>>

NoName == <<>>
Junk == <<>>         \* what an uninitialized handle holds: no pipe
Closed == [read |-> Junk, write |-> Junk]
With(f, x, v) == [y \in DOMAIN f \cup {x} |-> IF y = x THEN v ELSE f[y]]

Init ==
  /\ pipes = [p \in {First} |-> 0]
  /\ pc = [t \in Threads |-> "out"]
  /\ name = [t \in Threads |-> NoName]
  /\ instances = [n \in {} |-> NoName]
  /\ ends = [t \in Threads |-> Closed]
  /\ overlapped = {}

\* __atomic_add_fetch()
Add(t) ==
  LET others == {u \in Threads : u[1] = t[1] /\ pc[u] = "name"}
  IN  /\ pc[t] = "out" /\ t[1] \in DOMAIN pipes /\ pipes[t[1]] < MaxPipes
      /\ pipes' = [pipes EXCEPT ![t[1]] = @ + 1]
      /\ pc' = [pc EXCEPT ![t] = "name"]
      /\ overlapped' = IF others = {} THEN overlapped \ {t} ELSE overlapped \cup others \cup {t}
      /\ UNCHANGED <<name, instances, ends>>

\* Mutant: the name does not have the process id.
NameBare(t) ==
  /\ pc[t] = "name"
  /\ name' = [name EXCEPT ![t] = <<0, pipes[t[1]]>>]
  /\ pc' = [pc EXCEPT ![t] = "create"]
  /\ UNCHANGED <<pipes, instances, ends, overlapped>>

\* snprintf() reads the counter again.
Name(t) ==
  /\ pc[t] = "name"
  /\ name' = [name EXCEPT ![t] = <<t[1], pipes[t[1]]>>]
  /\ pc' = [pc EXCEPT ![t] = "create"]
  /\ UNCHANGED <<pipes, instances, ends, overlapped>>

\* DosCreateNPipe() fails when the one instance of the name exists.
Create(t) ==
  /\ pc[t] = "create"
  /\ IF name[t] \in DOMAIN instances
       THEN UNCHANGED <<instances, ends>>
       ELSE /\ instances' = With(instances, name[t], [by |-> t, state |-> "created"])
            /\ ends' = [ends EXCEPT ![t].read = name[t]]
  /\ pc' = [pc EXCEPT ![t] = "connect"]
  /\ UNCHANGED <<pipes, name, overlapped>>

\* DosConnectNPipe(), which NP_NOWAIT keeps from blocking.
Connect(t) ==
  /\ pc[t] = "connect"
  /\ instances' = IF ends[t].read = Junk THEN instances
                  ELSE [instances EXCEPT ![name[t]].state = "listening"]
  /\ pc' = [pc EXCEPT ![t] = "open"]
  /\ UNCHANGED <<pipes, name, ends, overlapped>>

\* DosOpen() fails unless the pipe listens.
Open(t) ==
  /\ pc[t] = "open"
  /\ IF name[t] \in DOMAIN instances /\ instances[name[t]].state = "listening"
       THEN /\ instances' = [instances EXCEPT ![name[t]].state = "connected"]
            /\ ends' = [ends EXCEPT ![t].write = name[t]]
       ELSE UNCHANGED <<instances, ends>>
  /\ pc' = [pc EXCEPT ![t] = "done"]
  /\ UNCHANGED <<pipes, name, overlapped>>

\* The program closes both ends; the pipe is gone when its read end is.
CloseBoth(t) ==
  /\ pc[t] = "done"
  /\ instances' = [n \in DOMAIN instances \ {ends[t].read} |-> instances[n]]
  /\ ends' = [ends EXCEPT ![t] = Closed]
  /\ pc' = [pc EXCEPT ![t] = "out"]
  /\ name' = [name EXCEPT ![t] = NoName]
  /\ UNCHANGED <<pipes, overlapped>>

\* fork(): the child goes on with the counter of its parent.
Fork(p, q) ==
  /\ p \in DOMAIN pipes /\ q \notin DOMAIN pipes
  /\ pipes' = With(pipes, q, pipes[p])
  /\ UNCHANGED <<pc, name, instances, ends, overlapped>>

Next ==
  \/ \E t \in Threads : Add(t) \/ Name(t) \/ Create(t) \/ Connect(t) \/ Open(t) \/ CloseBoth(t)
  \/ \E t, u \in Threads : Fork(t[1], u[1])

Spec == Init /\ [][Next]_vars

TypeOK ==
  /\ \A p \in DOMAIN pipes : pipes[p] \in 0..MaxPipes
  /\ \A t \in Threads : pc[t] \in {"out", "name", "create", "connect", "open", "done"}
  /\ \A n \in DOMAIN instances :
       instances[n].by \in Threads /\ instances[n].state \in {"created", "listening", "connected"}

\* pipe() returns the two ends of one pipe, made by that call, which no other call
\* has an end of: whatever other threads do and also after fork(), except to calls of
\* one process that were between the addition and the name at the same time.
PipesPaired ==
  \A t \in Threads :
    pc[t] = "done" /\ t \notin overlapped =>
      /\ ends[t] = [read |-> name[t], write |-> name[t]]
      /\ instances[name[t]] = [by |-> t, state |-> "connected"]
      /\ \A u \in Threads \ {t} : name[t] \notin {ends[u].read, ends[u].write}
=============================================================================
