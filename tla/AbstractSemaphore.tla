------------------------- MODULE AbstractSemaphore -------------------------
(***************************************************************************)
(* What a POSIX counting semaphore promises to the threads that share it,  *)
(* with every call taking effect at one instant between its invocation and *)
(* its return.  thread/semaphore.c implements it with one OS/2 event       *)
(* semaphore, two mutexes and a counter; module Semaphore is that          *)
(* implementation and shows that it implements this one.                   *)
(***************************************************************************)
EXTENDS Naturals

CONSTANTS
  Threads,        \* the threads of the process
  SEM_VALUE_MAX   \* largest value a semaphore can hold

VARIABLES
  live,     \* the semaphore is initialised and not destroyed
  value,    \* its value: the number of tokens a wait may take
  call,     \* call[t]: the operation t is in, "none" outside of the library
  result    \* result[t]: outcome of that operation, "pending" until it has one

absVars == <<live, value, call, result>>

Calls == {"post", "wait", "trywait"}
Results == {"pending", "ok", "eagain", "eintr"}

AbsInit ==
  /\ live = FALSE
  /\ value = 0
  /\ call = [t \in Threads |-> "none"]
  /\ result = [t \in Threads |-> "none"]

Settled == \A t \in Threads : result[t] # "pending"

\* sem_init() with initial value v, when nobody uses the semaphore.
Create ==
  /\ ~live
  /\ Settled
  /\ live' = TRUE
  /\ value' \in 0..SEM_VALUE_MAX
  /\ UNCHANGED <<call, result>>

\* sem_destroy(): only ever happens while every operation has taken effect.
Destroy ==
  /\ live
  /\ Settled
  /\ live' = FALSE
  /\ UNCHANGED <<value, call, result>>

Invoke(t) ==
  /\ live
  /\ call[t] = "none"
  /\ call' \in {[call EXCEPT ![t] = c] : c \in Calls}
  /\ result' = [result EXCEPT ![t] = "pending"]
  /\ UNCHANGED <<live, value>>

Settle(t, r) ==
  /\ result[t] = "pending"
  /\ result' = [result EXCEPT ![t] = r]
  /\ UNCHANGED <<live, call>>

\* One token more, or none when the semaphore is full: the library reports
\* success in both cases.
Post(t) ==
  /\ call[t] = "post"
  /\ Settle(t, "ok")
  /\ value' = IF value < SEM_VALUE_MAX THEN value + 1 ELSE value

\* A wait of either kind takes a token that is there.
Take(t) ==
  /\ call[t] \in {"wait", "trywait"}
  /\ value > 0
  /\ Settle(t, "ok")
  /\ value' = value - 1

\* Only sem_trywait() gives up, and only when there is no token.
GiveUp(t) ==
  /\ call[t] = "trywait"
  /\ value = 0
  /\ Settle(t, "eagain")
  /\ UNCHANGED value

\* Only sem_wait() is interrupted, and it takes nothing.
Interrupted(t) ==
  /\ call[t] = "wait"
  /\ Settle(t, "eintr")
  /\ UNCHANGED value

Return(t) ==
  /\ call[t] # "none"
  /\ result[t] # "pending"
  /\ call' = [call EXCEPT ![t] = "none"]
  /\ result' = [result EXCEPT ![t] = "none"]
  /\ UNCHANGED <<live, value>>

AbsStep(t) ==
  \/ Invoke(t)
  \/ Post(t)
  \/ Take(t)
  \/ GiveUp(t)
  \/ Interrupted(t)
  \/ Return(t)

AbsNext ==
  \/ Create
  \/ Destroy
  \/ \E t \in Threads : AbsStep(t)

AbsSpec == AbsInit /\ [][AbsNext]_absVars
=============================================================================
