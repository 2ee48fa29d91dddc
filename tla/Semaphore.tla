----------------------------- MODULE Semaphore -----------------------------
(***************************************************************************)
(* thread/semaphore.c: the POSIX unnamed semaphore of os2compat, built of  *)
(* an OS/2 event semaphore hev that is posted while there are tokens, a    *)
(* mutex hmtxWait that lets one waiter at a time look at the event, and a  *)
(* mutex hmtxCount that guards the counter.                                *)
(*                                                                         *)
(* One semaphore and the threads of one process.  Every call of the OS/2   *)
(* kernel and every access to sem->count is a step of its own.  The caller *)
(* is the disciplined program POSIX asks for: it starts no operation       *)
(* before sem_init() returned 0 or after it called sem_destroy(), and it   *)
(* destroys the semaphore when all its threads are out of it, or when it   *)
(* has taken back every token it put in (then a sem_post() whose token was *)
(* already taken may still be on its way out).                             *)
(***************************************************************************)
EXTENDS Integers, FiniteSets

CONSTANTS
  Threads,        \* the threads that use the semaphore
  NoThread,       \* the owner of a free mutex
  SEM_VALUE_MAX,  \* semaphore.h: 32767
  RequestRCs,     \* return codes of DosRequestMutexSem: "ok", and "intr" if a
                  \* signal may end the request; the code looks at neither
  MaxOwed         \* bound of the exploration: tokens put in and not taken back

ASSUME SemaphoreAssumption ==
  /\ IsFiniteSet(Threads)
  /\ NoThread \notin Threads
  /\ SEM_VALUE_MAX \in Nat \ {0}
  /\ MaxOwed \in Nat
  /\ RequestRCs \subseteq {"ok", "intr"}

VARIABLES
  handles,     \* the kernel objects that are open
  closing,     \* sem_destroy(): the handle it closes next, or "no"
  count,       \* sem->count
  posted,      \* state of the event semaphore hev
  waitOwner,   \* owner of hmtxWait
  countOwner,  \* owner of hmtxCount
  pc,          \* where each thread is in the library
  op,          \* the call each thread is in
  rc,          \* what that call is going to return
  seen,        \* the value of sem->count a thread loaded last
  owed         \* ghost: tokens put in by the program minus those it got back

sem == <<handles, closing>>
locks == <<waitOwner, countOwner>>
frame == <<pc, op, rc, seen>>
vars == <<handles, closing, count, posted, waitOwner, countOwner,
          pc, op, rc, seen, owed>>

Handles == {"hev", "hmtxWait", "hmtxCount"}
PostPCs == {"p_lock", "p_load", "p_store", "p_event", "p_unlock"}
WaitPCs == {"w_lock", "w_event", "w_count", "w_load", "w_store", "w_reset",
            "w_uncount", "w_unlock"}
PCs == {"idle", "ret"} \cup PostPCs \cup WaitPCs
WaitCalls == {"wait", "trywait"}

\* sem_init() and sem_destroy() treat the handles in the same order.
Order == <<"hev", "hmtxWait", "hmtxCount">>

Init ==
  /\ handles = {}
  /\ closing = "no"
  /\ count = 0
  /\ posted = FALSE
  /\ waitOwner = NoThread
  /\ countOwner = NoThread
  /\ pc = [t \in Threads |-> "idle"]
  /\ op = [t \in Threads |-> "none"]
  /\ rc = [t \in Threads |-> "none"]
  /\ seen = [t \in Threads |-> 0]
  /\ owed = 0

\* sem_init() returned 0 and sem_destroy() was not called.
Ready == handles = Handles /\ closing = "no"

Goto(t, l) == pc' = [pc EXCEPT ![t] = l]
Settle(t, r) == rc' = [rc EXCEPT ![t] = r]

(***************************************************************************)
(* sem_init() and sem_destroy().                                           *)
(***************************************************************************)

\* Mutant: the chain starts with the handle created last.
ClosesFromLast(open) ==
  open \ {Order[i] : i \in {k \in 1..3 : \A j \in k..3 : Order[j] \in open}}

\* The handles left open by a chain of closes that stops at the first close
\* that fails, which is the first handle that is not open.
AfterCloses(open) ==
  open \ {Order[i] : i \in {k \in 1..3 : \A j \in 1..k : Order[j] \in open}}

\* sem_init(): create the three objects in order; when a create fails undo
\* with sem_destroy(), on a sem_t whose other handles are not valid.
SemInit ==
  /\ handles = {} /\ closing = "no"
  /\ \E v \in 0..SEM_VALUE_MAX, n \in 0..3 :
       LET created == {Order[i] : i \in 1..n} IN
       /\ posted' = (v > 0)
       /\ IF n = 3
            THEN /\ handles' = created
                 /\ count' = v
                 /\ owed' = v
            ELSE /\ handles' = AfterCloses(created)
                 /\ UNCHANGED <<count, owed>>
  /\ UNCHANGED <<closing, waitOwner, countOwner, pc, op, rc, seen>>

\* All threads are out of the library, or no token is owed and no thread
\* waits for one.
MayDestroy ==
  \/ \A t \in Threads : pc[t] = "idle"
  \/ /\ owed = 0
     /\ \E t \in Threads : pc[t] = "idle"
     /\ \A t \in Threads : op[t] \notin WaitCalls

SemDestroy ==
  /\ Ready
  /\ MayDestroy
  /\ closing' = "hev"
  /\ UNCHANGED <<handles, count, posted, waitOwner, countOwner, pc, op, rc,
                 seen, owed>>

\* The kernel refuses to close a mutex that has an owner and a semaphore
\* somebody waits for; the call then returns EBUSY with the rest still open.
Busy(h) ==
  \/ /\ h = "hev"
     /\ \E t \in Threads : pc[t] = "w_event" /\ ~posted
  \/ /\ h = "hmtxWait"
     /\ waitOwner # NoThread \/ \E t \in Threads : pc[t] = "w_lock"
  \/ /\ h = "hmtxCount"
     /\ countOwner # NoThread \/ \E t \in Threads : pc[t] \in {"p_lock", "w_count"}

NextClose(h) ==
  IF h = "hev" THEN "hmtxWait" ELSE IF h = "hmtxWait" THEN "hmtxCount" ELSE "no"

DestroyStep ==
  /\ closing # "no"
  /\ IF Busy(closing)
       THEN closing' = "no" /\ UNCHANGED handles
       ELSE /\ handles' = handles \ {closing}
            /\ closing' = NextClose(closing)
  /\ UNCHANGED <<count, posted, waitOwner, countOwner, pc, op, rc, seen, owed>>

(***************************************************************************)
(* The beginning and the end of a call, common to the three operations.    *)
(***************************************************************************)

Call(t, c, l) ==
  /\ Ready
  /\ pc[t] = "idle"
  /\ Goto(t, l)
  /\ op' = [op EXCEPT ![t] = c]
  /\ Settle(t, "pending")
  /\ UNCHANGED <<handles, closing, count, posted, waitOwner, countOwner, seen>>

SemPost(t) == owed < MaxOwed /\ Call(t, "post", "p_lock") /\ owed' = owed + 1
SemWait(t) == Call(t, "wait", "w_lock") /\ UNCHANGED owed
SemTryWait(t) == Call(t, "trywait", "w_lock") /\ UNCHANGED owed

\* EPILOGUE: the program sees 0, or -1 and errno; its count of the tokens it
\* has out drops when a wait gave it one.
Return(t) ==
  /\ pc[t] = "ret"
  /\ Goto(t, "idle")
  /\ op' = [op EXCEPT ![t] = "none"]
  /\ Settle(t, "none")
  /\ owed' = IF op[t] \in WaitCalls /\ rc[t] = "ok" THEN owed - 1 ELSE owed
  /\ UNCHANGED <<handles, closing, count, posted, waitOwner, countOwner, seen>>

(***************************************************************************)
(* DosRequestMutexSem and DosReleaseMutexSem.  An indefinite request waits *)
(* until the mutex is free, unless a signal ends it; the library goes on   *)
(* in both cases.  A release by a thread that is not the owner fails.      *)
(***************************************************************************)
Request(t, owner, new) ==
  \E r \in RequestRCs :
    /\ r = "ok" => owner = NoThread
    /\ new = IF r = "ok" THEN t ELSE owner

Released(t, owner) == IF owner = t THEN NoThread ELSE owner

(***************************************************************************)
(* sem_post().                                                             *)
(***************************************************************************)

PostLock(t) ==
  /\ pc[t] = "p_lock"
  /\ Request(t, countOwner, countOwner')
  /\ Goto(t, "p_load")
  /\ UNCHANGED <<handles, closing, count, posted, waitOwner, op, rc, seen, owed>>

\* Mutant: the comparison with SEM_VALUE_MAX is off by one.
LoadOffByOne(t) ==
  /\ pc[t] = "p_load"
  /\ seen' = [seen EXCEPT ![t] = count]
  /\ IF count <= SEM_VALUE_MAX
       THEN Goto(t, "p_store") /\ UNCHANGED rc
       ELSE Goto(t, "p_unlock") /\ Settle(t, "ok")
  /\ UNCHANGED <<handles, closing, count, posted, waitOwner, countOwner, op, owed>>

\* if( sem->count < SEM_VALUE_MAX ): a full semaphore drops the token and the
\* call still returns 0.
PostLoad(t) ==
  /\ pc[t] = "p_load"
  /\ seen' = [seen EXCEPT ![t] = count]
  /\ IF count < SEM_VALUE_MAX
       THEN Goto(t, "p_store") /\ UNCHANGED rc
       ELSE Goto(t, "p_unlock") /\ Settle(t, "ok")
  /\ UNCHANGED <<handles, closing, count, posted, waitOwner, countOwner, op, owed>>

\* Mutant: the counter is unlocked before the event is posted.
StoreAndUnlock(t) ==
  /\ pc[t] = "p_store"
  /\ count' = seen[t] + 1
  /\ countOwner' = Released(t, countOwner)
  /\ Goto(t, "p_event")
  /\ UNCHANGED <<handles, closing, posted, waitOwner, op, rc, seen, owed>>

PostStore(t) ==
  /\ pc[t] = "p_store"
  /\ count' = seen[t] + 1
  /\ Goto(t, "p_event")
  /\ UNCHANGED <<handles, closing, posted, waitOwner, countOwner, op, rc, seen, owed>>

\* Mutant: the event is posted for the first token only when nobody waits.
PostUnlessWaited(t) ==
  /\ pc[t] = "p_event"
  /\ posted' = (posted \/ waitOwner = NoThread)
  /\ Settle(t, "ok")
  /\ Goto(t, "p_unlock")
  /\ UNCHANGED <<handles, closing, count, waitOwner, countOwner, op, seen, owed>>

\* ERROR_ALREADY_POSTED and ERROR_TOO_MANY_POSTS count as success.
PostEvent(t) ==
  /\ pc[t] = "p_event"
  /\ posted' = TRUE
  /\ Settle(t, "ok")
  /\ Goto(t, "p_unlock")
  /\ UNCHANGED <<handles, closing, count, waitOwner, countOwner, op, seen, owed>>

PostUnlock(t) ==
  /\ pc[t] = "p_unlock"
  /\ countOwner' = Released(t, countOwner)
  /\ Goto(t, "ret")
  /\ UNCHANGED <<handles, closing, count, posted, waitOwner, op, rc, seen, owed>>

(***************************************************************************)
(* sem_wait_common(): sem_wait() with SEM_INDEFINITE_WAIT and sem_trywait()*)
(* with SEM_IMMEDIATE_RETURN.                                              *)
(***************************************************************************)

WaitLock(t) ==
  /\ pc[t] = "w_lock"
  /\ Request(t, waitOwner, waitOwner')
  /\ Goto(t, "w_event")
  /\ UNCHANGED <<handles, closing, count, posted, countOwner, op, rc, seen, owed>>

\* DosWaitEventSem: the event is posted; or it is not, and an immediate wait
\* gives up with ERROR_TIMEOUT, or a signal ends an indefinite one.
EventPosted(t) ==
  /\ pc[t] = "w_event"
  /\ posted
  /\ Goto(t, "w_count")
  /\ UNCHANGED <<handles, closing, count, posted, waitOwner, countOwner, op,
                 rc, seen, owed>>

NotPosted(t, call, r) ==
  /\ pc[t] = "w_event"
  /\ ~posted
  /\ op[t] = call
  /\ Goto(t, "w_unlock")
  /\ Settle(t, r)
  /\ UNCHANGED <<handles, closing, count, posted, waitOwner, countOwner, op,
                 seen, owed>>

EventTimeout(t) == NotPosted(t, "trywait", "eagain")
EventInterrupt(t) == NotPosted(t, "wait", "eintr")

\* Mutant: the waiter relies on hmtxWait and does not lock the counter.
CountUnlocked(t) ==
  /\ pc[t] = "w_count"
  /\ Goto(t, "w_load")
  /\ UNCHANGED <<handles, closing, count, posted, waitOwner, countOwner, op,
                 rc, seen, owed>>

WaitCount(t) ==
  /\ pc[t] = "w_count"
  /\ Request(t, countOwner, countOwner')
  /\ Goto(t, "w_load")
  /\ UNCHANGED <<handles, closing, count, posted, waitOwner, op, rc, seen, owed>>

WaitLoad(t) ==
  /\ pc[t] = "w_load"
  /\ seen' = [seen EXCEPT ![t] = count]
  /\ Goto(t, "w_store")
  /\ UNCHANGED <<handles, closing, count, posted, waitOwner, countOwner, op, rc, owed>>

\* Mutant: the release of hmtxCount slipped into the branch of the reset.
StoreKeepsLock(t) ==
  /\ pc[t] = "w_store"
  /\ count' = seen[t] - 1
  /\ Goto(t, IF seen[t] = 1 THEN "w_reset" ELSE "w_unlock")
  /\ Settle(t, "ok")
  /\ UNCHANGED <<handles, closing, posted, waitOwner, countOwner, op, seen, owed>>

WaitStore(t) ==
  /\ pc[t] = "w_store"
  /\ count' = seen[t] - 1
  /\ Goto(t, IF seen[t] = 1 THEN "w_reset" ELSE "w_uncount")
  /\ Settle(t, "ok")
  /\ UNCHANGED <<handles, closing, posted, waitOwner, countOwner, op, seen, owed>>

WaitReset(t) ==
  /\ pc[t] = "w_reset"
  /\ posted' = FALSE
  /\ Goto(t, "w_uncount")
  /\ UNCHANGED <<handles, closing, count, waitOwner, countOwner, op, rc, seen, owed>>

WaitUncount(t) ==
  /\ pc[t] = "w_uncount"
  /\ countOwner' = Released(t, countOwner)
  /\ Goto(t, "w_unlock")
  /\ UNCHANGED <<handles, closing, count, posted, waitOwner, op, rc, seen, owed>>

WaitUnlock(t) ==
  /\ pc[t] = "w_unlock"
  /\ waitOwner' = Released(t, waitOwner)
  /\ Goto(t, "ret")
  /\ UNCHANGED <<handles, closing, count, posted, countOwner, op, rc, seen, owed>>

LockStep(t) == PostLock(t) \/ WaitLock(t) \/ WaitCount(t)

OwnStep(t) ==
  \/ PostLoad(t) \/ PostStore(t) \/ PostEvent(t) \/ PostUnlock(t)
  \/ EventPosted(t) \/ EventTimeout(t)
  \/ WaitLoad(t) \/ WaitStore(t) \/ WaitReset(t)
  \/ WaitUncount(t) \/ WaitUnlock(t) \/ Return(t)

Next ==
  \/ SemInit
  \/ SemDestroy
  \/ DestroyStep
  \/ \E t \in Threads :
       SemPost(t) \/ SemWait(t) \/ SemTryWait(t) \/ EventInterrupt(t)
       \/ LockStep(t) \/ OwnStep(t)

Spec == Init /\ [][Next]_vars

(***************************************************************************)
(* A thread that can run runs; the kernel serves the requests for a mutex  *)
(* in turn, so a request is not passed over for ever.  Nothing makes the   *)
(* program call, and no signal has to come.                                *)
(***************************************************************************)
Fairness ==
  \A t \in Threads : WF_vars(OwnStep(t)) /\ SF_vars(LockStep(t))

FairSpec == Spec /\ Fairness

(***************************************************************************)
(* Properties.                                                             *)
(***************************************************************************)

\* Every variable has its type; the counter stays between 0 and the maximum
\* whatever the threads do to it.
TypeOK ==
  /\ handles \subseteq Handles
  /\ closing \in Handles \cup {"no"}
  /\ count \in 0..SEM_VALUE_MAX
  /\ posted \in BOOLEAN
  /\ waitOwner \in Threads \cup {NoThread}
  /\ countOwner \in Threads \cup {NoThread}
  /\ pc \in [Threads -> PCs]
  /\ op \in [Threads -> {"none", "post"} \cup WaitCalls]
  /\ rc \in [Threads -> {"none", "pending", "ok", "eagain", "eintr"}]
  /\ seen \in [Threads -> 0..SEM_VALUE_MAX]
  /\ owed \in Nat

\* The event is posted exactly while there are tokens, but for the instant
\* between the change of the counter and the call that follows it: a token
\* behind an event that is not posted would be lost to the waiters, and an
\* event posted without a token would drive the counter below zero.
EventMatchesCount ==
  Ready /\ (\A t \in Threads : pc[t] \notin {"p_event", "w_reset"})
     => (posted <=> count > 0)

\* A program that takes back every token it put in may destroy the semaphore
\* at once: the thread whose sem_post() put in the last of them touches the
\* semaphore no more, since it held hmtxCount until it was done.
DestroyTouchesNoCaller ==
  closing # "no" \/ handles = {} => \A t \in Threads : pc[t] \in {"idle", "ret"}

\* A failed sem_init() leaves nothing open, and a sem_destroy() of the
\* disciplined program closes everything: no handle is left behind that the
\* chain of closes cannot reach any more.
HandlesAllOrNothing == closing = "no" => handles \in {{}, Handles}

\* Nobody sleeps beside a token: a thread that waits for the event while the
\* semaphore holds a token goes on.
WaiterWoken ==
  \A t \in Threads : (pc[t] = "w_event" /\ count > 0) ~> pc[t] # "w_event"

\* sem_post() returns, however the other threads use the semaphore.
PostReturns == \A t \in Threads : (op[t] = "post") ~> (op[t] = "none")

\* sem_trywait() returns whether or not there is a token.
TryWaitReturns == \A t \in Threads : (op[t] = "trywait") ~> (op[t] = "none")

(***************************************************************************)
(* The semaphore implements AbstractSemaphore: a post takes effect when    *)
(* the event is posted, or when the semaphore is seen full, a wait when    *)
(* the counter is stored, a failed wait when the kernel returns.           *)
(***************************************************************************)
absValue ==
  IF \E t \in Threads : pc[t] = "p_event" THEN count - 1 ELSE count

Abs == INSTANCE AbstractSemaphore
         WITH live <- Ready, value <- absValue, call <- op, result <- rc

\* Every behaviour of the implementation is one of the abstract semaphore:
\* no token is lost, duplicated or taken before it was put in.
Implements == Abs!AbsSpec
=============================================================================
