-------------------------- MODULE Semaphore_proofs --------------------------
(***************************************************************************)
(* Proofs about Semaphore for any number of threads and any maximum.       *)
(***************************************************************************)
EXTENDS Semaphore, FiniteSetTheorems, TLAPS

\* No signal ends a request for a mutex: with "intr" in RequestRCs a thread goes on
\* without the mutex, and EventMatchesCount fails.
SignalFree == RequestRCs \subseteq {"ok"}

\* Where a thread owns hmtxCount, and where it owns hmtxWait.
HoldsCount == {"p_load", "p_store", "p_event", "p_unlock",
               "w_load", "w_store", "w_reset", "w_uncount"}
HoldsWait == WaitPCs \ {"w_lock"}

LockInv ==
  \A t \in Threads : /\ pc[t] \in HoldsCount <=> countOwner = t
                     /\ pc[t] \in HoldsWait <=> waitOwner = t

Unsettled == {"p_lock", "p_load", "p_store", "p_event",
              "w_lock", "w_event", "w_count", "w_load", "w_store"}

CallInv ==
  \A t \in Threads :
    /\ pc[t] \in PostPCs => op[t] = "post"
    /\ pc[t] \in WaitPCs => op[t] \in WaitCalls
    /\ pc[t] = "idle" <=> op[t] = "none"
    /\ pc[t] = "idle" <=> rc[t] = "none"
    /\ pc[t] \in Unsettled <=> rc[t] = "pending"

\* Nobody is inside of a semaphore that is closed or about to be, and a
\* thread that still has to return from it has no token to account for.
Quiet == \A t \in Threads : pc[t] = "idle" \/ (pc[t] = "ret" /\ op[t] = "post")

HandleInv ==
  /\ closing = "no" => handles \in {{}, Handles}
  /\ closing = "hev" => handles = Handles
  /\ closing = "hmtxWait" => handles = {"hmtxWait", "hmtxCount"}
  /\ closing = "hmtxCount" => handles = {"hmtxCount"}
  /\ ~Ready => Quiet

\* What the holder of hmtxCount, or of hmtxWait, knows about the event and
\* the counter.
EventInv ==
  /\ \A t \in Threads :
       /\ pc[t] \in {"p_store", "w_store"} => seen[t] = count
       /\ pc[t] = "p_store" => count < SEM_VALUE_MAX
       /\ pc[t] = "p_event" => count > 0 /\ (posted \/ count = 1)
       /\ pc[t] = "p_unlock" => count > 0
       /\ pc[t] \in {"w_count", "w_load", "w_store"} => posted /\ count > 0
       /\ pc[t] = "w_reset" => count = 0
  /\ EventMatchesCount

\* Posts that have not counted their token yet, and waits that have a token
\* the program does not know about yet.
Early == {t \in Threads : pc[t] \in {"p_lock", "p_load", "p_store"}}
Took == {t \in Threads : op[t] \in WaitCalls /\ rc[t] = "ok"}

\* Every token the program has not got back is in the counter, on its way
\* there or on its way out, or was dropped by a full semaphore.
OwedInv == owed >= count + Cardinality(Early) + Cardinality(Took)

IInv == TypeOK /\ CallInv /\ LockInv /\ HandleInv /\ EventInv /\ OwedInv

-----------------------------------------------------------------------------

USE SemaphoreAssumption DEF SemaphoreAssumption, Handles, PostPCs, WaitPCs, PCs, WaitCalls, Ready

\* How a finite set grows and shrinks by one element.
LEMMA AddOne ==
  ASSUME NEW S, IsFiniteSet(S), NEW x
  PROVE  /\ IsFiniteSet(S \cup {x})
         /\ Cardinality(S \cup {x}) <= Cardinality(S) + 1
<1>1. /\ Cardinality(S) \in Nat
      /\ IsFiniteSet(S \cup {x})
      /\ Cardinality(S \cup {x}) =
           IF x \in S THEN Cardinality(S) ELSE Cardinality(S) + 1
  BY FS_CardinalityType, FS_AddElement, Zenon
<1>2. CASE x \in S
  BY <1>1, <1>2
<1>3. CASE x \notin S
  BY <1>1, <1>3
<1> QED
  BY <1>2, <1>3

LEMMA RemoveOne ==
  ASSUME NEW S, IsFiniteSet(S), NEW x \in S
  PROVE  Cardinality(S \ {x}) = Cardinality(S) - 1
BY FS_RemoveElement, FS_CardinalityType

LEMMA FiniteParts ==
  /\ IsFiniteSet(Early) /\ Cardinality(Early) \in Nat
  /\ IsFiniteSet(Took) /\ Cardinality(Took) \in Nat
BY FS_Subset, FS_CardinalityType DEF Early, Took

\* The type invariant is kept.
LEMMA TypeStep ==
  ASSUME SignalFree, TypeOK, EventInv, OwedInv, [Next]_vars
  PROVE  TypeOK'
<1>1. CASE SemInit
  BY <1>1 DEF SemInit, Order, AfterCloses, TypeOK
<1>2. CASE SemDestroy
  BY <1>2 DEF SemDestroy, TypeOK
<1>3. CASE DestroyStep
  BY <1>3 DEF DestroyStep, NextClose, TypeOK
<1>4. ASSUME NEW t \in Threads, SemPost(t) PROVE TypeOK'
  BY <1>4 DEF SemPost, Goto, Settle, Call, TypeOK
<1>5. ASSUME NEW t \in Threads, SemWait(t) PROVE TypeOK'
  BY <1>5 DEF SemWait, Goto, Settle, Call, TypeOK
<1>6. ASSUME NEW t \in Threads, SemTryWait(t) PROVE TypeOK'
  BY <1>6 DEF SemTryWait, Goto, Settle, Call, TypeOK
<1>7. ASSUME NEW t \in Threads, EventInterrupt(t) PROVE TypeOK'
  BY <1>7 DEF EventInterrupt, Goto, Settle, NotPosted, TypeOK
<1>8. ASSUME NEW t \in Threads, PostLock(t) PROVE TypeOK'
  BY <1>8 DEF PostLock, Goto, Settle, Request, SignalFree, TypeOK
<1>9. ASSUME NEW t \in Threads, WaitLock(t) PROVE TypeOK'
  BY <1>9 DEF WaitLock, Goto, Settle, Request, SignalFree, TypeOK
<1>10. ASSUME NEW t \in Threads, WaitCount(t) PROVE TypeOK'
  BY <1>10 DEF WaitCount, Goto, Settle, Request, SignalFree, TypeOK
<1>11. ASSUME NEW t \in Threads, PostLoad(t) PROVE TypeOK'
  BY <1>11 DEF PostLoad, Goto, Settle, TypeOK
<1>12. ASSUME NEW t \in Threads, PostStore(t) PROVE TypeOK'
  BY <1>12, EventInv DEF PostStore, Goto, Settle, TypeOK, EventInv
<1>13. ASSUME NEW t \in Threads, PostEvent(t) PROVE TypeOK'
  BY <1>13 DEF PostEvent, Goto, Settle, TypeOK
<1>14. ASSUME NEW t \in Threads, PostUnlock(t) PROVE TypeOK'
  BY <1>14 DEF PostUnlock, Goto, Settle, Released, TypeOK
<1>15. ASSUME NEW t \in Threads, EventPosted(t) PROVE TypeOK'
  BY <1>15 DEF EventPosted, Goto, Settle, TypeOK
<1>16. ASSUME NEW t \in Threads, EventTimeout(t) PROVE TypeOK'
  BY <1>16 DEF EventTimeout, Goto, Settle, NotPosted, TypeOK
<1>17. ASSUME NEW t \in Threads, WaitLoad(t) PROVE TypeOK'
  BY <1>17 DEF WaitLoad, Goto, Settle, TypeOK
<1>18. ASSUME NEW t \in Threads, WaitStore(t) PROVE TypeOK'
  BY <1>18, EventInv DEF WaitStore, Goto, Settle, TypeOK, EventInv
<1>19. ASSUME NEW t \in Threads, WaitReset(t) PROVE TypeOK'
  BY <1>19 DEF WaitReset, Goto, Settle, TypeOK
<1>20. ASSUME NEW t \in Threads, WaitUncount(t) PROVE TypeOK'
  BY <1>20 DEF WaitUncount, Goto, Settle, Released, TypeOK
<1>21. ASSUME NEW t \in Threads, WaitUnlock(t) PROVE TypeOK'
  BY <1>21 DEF WaitUnlock, Goto, Settle, Released, TypeOK
<1>22. ASSUME NEW t \in Threads, Return(t) PROVE TypeOK'
  <2>1. CASE op[t] \in WaitCalls /\ rc[t] = "ok"
    <3>1. t \in Took
      BY <2>1 DEF Took
    <3>2. Cardinality(Took) >= 1
      BY <3>1, FiniteParts, RemoveOne, FS_EmptySet, FS_CardinalityType
    <3>3. owed >= 1
      BY <3>2, FiniteParts DEF OwedInv, TypeOK
    <3> QED
      BY <1>22, <2>1, <3>3 DEF Return, Goto, Settle, TypeOK
  <2>2. CASE ~(op[t] \in WaitCalls /\ rc[t] = "ok")
    BY <1>22, <2>2 DEF Return, Goto, Settle, TypeOK
  <2> QED
    BY <2>1, <2>2
<1>23. CASE UNCHANGED vars
  BY <1>23 DEF vars, TypeOK
<1> QED
  BY <1>1, <1>2, <1>3, <1>4, <1>5, <1>6, <1>7, <1>8, <1>9, <1>10, <1>11, <1>12,
     <1>13, <1>14, <1>15, <1>16, <1>17, <1>18, <1>19, <1>20, <1>21, <1>22,
     <1>23 DEF Next, LockStep, OwnStep

\* A thread's call and its outcome go with where it is.
LEMMA CallStep ==
  ASSUME SignalFree, TypeOK, CallInv, EventInv, OwedInv, [Next]_vars
  PROVE  CallInv'
<1>1. CASE SemInit
  BY <1>1 DEF SemInit, Order, AfterCloses, CallInv, TypeOK, Unsettled
<1>2. CASE SemDestroy
  BY <1>2 DEF SemDestroy, CallInv, TypeOK, Unsettled
<1>3. CASE DestroyStep
  BY <1>3 DEF DestroyStep, NextClose, CallInv, TypeOK, Unsettled
<1>4. ASSUME NEW t \in Threads, SemPost(t) PROVE CallInv'
  BY <1>4 DEF SemPost, Goto, Settle, Call, CallInv, TypeOK, Unsettled
<1>5. ASSUME NEW t \in Threads, SemWait(t) PROVE CallInv'
  BY <1>5 DEF SemWait, Goto, Settle, Call, CallInv, TypeOK, Unsettled
<1>6. ASSUME NEW t \in Threads, SemTryWait(t) PROVE CallInv'
  BY <1>6 DEF SemTryWait, Goto, Settle, Call, CallInv, TypeOK, Unsettled
<1>7. ASSUME NEW t \in Threads, EventInterrupt(t) PROVE CallInv'
  BY <1>7 DEF EventInterrupt, Goto, Settle, NotPosted, CallInv, TypeOK,
     Unsettled
<1>8. ASSUME NEW t \in Threads, PostLock(t) PROVE CallInv'
  BY <1>8 DEF PostLock, Goto, Settle, Request, SignalFree, CallInv, TypeOK,
     Unsettled
<1>9. ASSUME NEW t \in Threads, WaitLock(t) PROVE CallInv'
  BY <1>9 DEF WaitLock, Goto, Settle, Request, SignalFree, CallInv, TypeOK,
     Unsettled
<1>10. ASSUME NEW t \in Threads, WaitCount(t) PROVE CallInv'
  BY <1>10 DEF WaitCount, Goto, Settle, Request, SignalFree, CallInv, TypeOK,
     Unsettled
<1>11. ASSUME NEW t \in Threads, PostLoad(t) PROVE CallInv'
  BY <1>11 DEF PostLoad, Goto, Settle, CallInv, TypeOK, Unsettled
<1>12. ASSUME NEW t \in Threads, PostStore(t) PROVE CallInv'
  BY <1>12 DEF PostStore, Goto, Settle, CallInv, TypeOK, Unsettled
<1>13. ASSUME NEW t \in Threads, PostEvent(t) PROVE CallInv'
  BY <1>13 DEF PostEvent, Goto, Settle, CallInv, TypeOK, Unsettled
<1>14. ASSUME NEW t \in Threads, PostUnlock(t) PROVE CallInv'
  BY <1>14 DEF PostUnlock, Goto, Settle, Released, CallInv, TypeOK, Unsettled
<1>15. ASSUME NEW t \in Threads, EventPosted(t) PROVE CallInv'
  BY <1>15 DEF EventPosted, Goto, Settle, CallInv, TypeOK, Unsettled
<1>16. ASSUME NEW t \in Threads, EventTimeout(t) PROVE CallInv'
  BY <1>16 DEF EventTimeout, Goto, Settle, NotPosted, CallInv, TypeOK,
     Unsettled
<1>17. ASSUME NEW t \in Threads, WaitLoad(t) PROVE CallInv'
  BY <1>17 DEF WaitLoad, Goto, Settle, CallInv, TypeOK, Unsettled
<1>18. ASSUME NEW t \in Threads, WaitStore(t) PROVE CallInv'
  BY <1>18 DEF WaitStore, Goto, Settle, CallInv, TypeOK, Unsettled
<1>19. ASSUME NEW t \in Threads, WaitReset(t) PROVE CallInv'
  BY <1>19 DEF WaitReset, Goto, Settle, CallInv, TypeOK, Unsettled
<1>20. ASSUME NEW t \in Threads, WaitUncount(t) PROVE CallInv'
  BY <1>20 DEF WaitUncount, Goto, Settle, Released, CallInv, TypeOK, Unsettled
<1>21. ASSUME NEW t \in Threads, WaitUnlock(t) PROVE CallInv'
  BY <1>21 DEF WaitUnlock, Goto, Settle, Released, CallInv, TypeOK, Unsettled
<1>22. ASSUME NEW t \in Threads, Return(t) PROVE CallInv'
  BY <1>22 DEF Return, Goto, Settle, CallInv, TypeOK, Unsettled
<1>23. CASE UNCHANGED vars
  BY <1>23 DEF vars, CallInv, TypeOK, Unsettled
<1> QED
  BY <1>1, <1>2, <1>3, <1>4, <1>5, <1>6, <1>7, <1>8, <1>9, <1>10, <1>11, <1>12,
     <1>13, <1>14, <1>15, <1>16, <1>17, <1>18, <1>19, <1>20, <1>21, <1>22,
     <1>23 DEF Next, LockStep, OwnStep

\* Mutual exclusion is kept.
LEMMA LockStepInv ==
  ASSUME SignalFree, TypeOK, CallInv, LockInv, [Next]_vars
  PROVE  LockInv'
<1>1. CASE SemInit
  BY <1>1 DEF SemInit, Order, AfterCloses, LockInv, TypeOK, HoldsCount,
     HoldsWait
<1>2. CASE SemDestroy
  BY <1>2 DEF SemDestroy, LockInv, TypeOK, HoldsCount, HoldsWait
<1>3. CASE DestroyStep
  BY <1>3 DEF DestroyStep, NextClose, LockInv, TypeOK, HoldsCount, HoldsWait
<1>4. ASSUME NEW t \in Threads, SemPost(t) PROVE LockInv'
  BY <1>4 DEF SemPost, Goto, Settle, Call, LockInv, TypeOK, HoldsCount,
     HoldsWait
<1>5. ASSUME NEW t \in Threads, SemWait(t) PROVE LockInv'
  BY <1>5 DEF SemWait, Goto, Settle, Call, LockInv, TypeOK, HoldsCount,
     HoldsWait
<1>6. ASSUME NEW t \in Threads, SemTryWait(t) PROVE LockInv'
  BY <1>6 DEF SemTryWait, Goto, Settle, Call, LockInv, TypeOK, HoldsCount,
     HoldsWait
<1>7. ASSUME NEW t \in Threads, EventInterrupt(t) PROVE LockInv'
  BY <1>7 DEF EventInterrupt, Goto, Settle, NotPosted, LockInv, TypeOK,
     HoldsCount, HoldsWait
<1>8. ASSUME NEW t \in Threads, PostLock(t) PROVE LockInv'
  BY <1>8 DEF PostLock, Goto, Settle, Request, SignalFree, LockInv, TypeOK,
     HoldsCount, HoldsWait
<1>9. ASSUME NEW t \in Threads, WaitLock(t) PROVE LockInv'
  BY <1>9 DEF WaitLock, Goto, Settle, Request, SignalFree, LockInv, TypeOK,
     HoldsCount, HoldsWait
<1>10. ASSUME NEW t \in Threads, WaitCount(t) PROVE LockInv'
  BY <1>10 DEF WaitCount, Goto, Settle, Request, SignalFree, LockInv, TypeOK,
     HoldsCount, HoldsWait
<1>11. ASSUME NEW t \in Threads, PostLoad(t) PROVE LockInv'
  BY <1>11 DEF PostLoad, Goto, Settle, LockInv, TypeOK, HoldsCount, HoldsWait
<1>12. ASSUME NEW t \in Threads, PostStore(t) PROVE LockInv'
  BY <1>12 DEF PostStore, Goto, Settle, LockInv, TypeOK, HoldsCount, HoldsWait
<1>13. ASSUME NEW t \in Threads, PostEvent(t) PROVE LockInv'
  BY <1>13 DEF PostEvent, Goto, Settle, LockInv, TypeOK, HoldsCount, HoldsWait
<1>14. ASSUME NEW t \in Threads, PostUnlock(t) PROVE LockInv'
  BY <1>14 DEF PostUnlock, Goto, Settle, Released, LockInv, TypeOK, HoldsCount,
     HoldsWait
<1>15. ASSUME NEW t \in Threads, EventPosted(t) PROVE LockInv'
  BY <1>15 DEF EventPosted, Goto, Settle, LockInv, TypeOK, HoldsCount,
     HoldsWait
<1>16. ASSUME NEW t \in Threads, EventTimeout(t) PROVE LockInv'
  BY <1>16 DEF EventTimeout, Goto, Settle, NotPosted, LockInv, TypeOK,
     HoldsCount, HoldsWait
<1>17. ASSUME NEW t \in Threads, WaitLoad(t) PROVE LockInv'
  BY <1>17 DEF WaitLoad, Goto, Settle, LockInv, TypeOK, HoldsCount, HoldsWait
<1>18. ASSUME NEW t \in Threads, WaitStore(t) PROVE LockInv'
  BY <1>18 DEF WaitStore, Goto, Settle, LockInv, TypeOK, HoldsCount, HoldsWait
<1>19. ASSUME NEW t \in Threads, WaitReset(t) PROVE LockInv'
  BY <1>19 DEF WaitReset, Goto, Settle, LockInv, TypeOK, HoldsCount, HoldsWait
<1>20. ASSUME NEW t \in Threads, WaitUncount(t) PROVE LockInv'
  BY <1>20 DEF WaitUncount, Goto, Settle, Released, LockInv, TypeOK,
     HoldsCount, HoldsWait
<1>21. ASSUME NEW t \in Threads, WaitUnlock(t) PROVE LockInv'
  BY <1>21 DEF WaitUnlock, Goto, Settle, Released, LockInv, TypeOK, HoldsCount,
     HoldsWait
<1>22. ASSUME NEW t \in Threads, Return(t) PROVE LockInv'
  BY <1>22 DEF Return, Goto, Settle, LockInv, TypeOK, HoldsCount, HoldsWait
<1>23. CASE UNCHANGED vars
  BY <1>23 DEF vars, LockInv, TypeOK, HoldsCount, HoldsWait
<1> QED
  BY <1>1, <1>2, <1>3, <1>4, <1>5, <1>6, <1>7, <1>8, <1>9, <1>10, <1>11, <1>12,
     <1>13, <1>14, <1>15, <1>16, <1>17, <1>18, <1>19, <1>20, <1>21, <1>22,
     <1>23 DEF Next, LockStep, OwnStep

\* sem_init() leaves a complete semaphore whose event goes with its value, or
\* nothing.
LEMMA InitOutcome ==
  ASSUME SemInit
  PROVE  \/ handles' = {}
         \/ /\ handles' = Handles
            /\ count' \in 0..SEM_VALUE_MAX
            /\ posted' = (count' > 0)
            /\ owed' = count'
<1>1. PICK v \in 0..SEM_VALUE_MAX, n \in 0..3 :
        /\ posted' = (v > 0)
        /\ IF n = 3
             THEN /\ handles' = {Order[i] : i \in 1..n}
                  /\ count' = v
                  /\ owed' = v
             ELSE handles' = AfterCloses({Order[i] : i \in 1..n})
  BY DEF SemInit
<1>2. CASE n = 3
  <2>1. {Order[i] : i \in 1..3} = Handles
    BY DEF Order
  <2> QED
    BY <1>1, <1>2, <2>1
<1>3. CASE n < 3
  <2>1. AfterCloses({Order[i] : i \in 1..n}) = {}
    BY <1>3 DEF AfterCloses, Order
  <2> QED
    BY <1>1, <1>3, <2>1
<1> QED
  BY <1>1, <1>2, <1>3

\* No close is refused: nobody owns or waits for a semaphore that is quiet.
LEMMA CloseSucceeds ==
  ASSUME TypeOK, LockInv, HandleInv, DestroyStep
  PROVE  /\ Quiet
         /\ closing' = NextClose(closing)
         /\ handles' = handles \ {closing}
<1>1. Quiet
  BY DEF DestroyStep, HandleInv
<1>2. waitOwner = NoThread /\ countOwner = NoThread
  BY <1>1 DEF Quiet, LockInv, HoldsCount, HoldsWait, TypeOK
<1>3. ~Busy(closing)
  BY <1>1, <1>2 DEF Busy, Quiet, DestroyStep, TypeOK
<1> QED
  BY <1>1, <1>3 DEF DestroyStep

\* When sem_destroy() may be called nobody is inside: the program that has all
\* its tokens back has seen every post through.
LEMMA DestroyFindsQuiet ==
  ASSUME TypeOK, CallInv, EventInv, OwedInv, MayDestroy
  PROVE  Quiet
<1>1. CASE \A t \in Threads : pc[t] = "idle"
  BY <1>1 DEF Quiet
<1>2. CASE owed = 0 /\ \A t \in Threads : op[t] \notin WaitCalls
  <2>1. count = 0 /\ Cardinality(Early) = 0
    BY <1>2, FiniteParts DEF OwedInv, TypeOK
  <2>2. Early = {}
    BY <2>1, FiniteParts, FS_EmptySet
  <2>3. \A t \in Threads : pc[t] \notin {"p_lock", "p_load", "p_store"}
    BY <2>2 DEF Early
  <2>4. \A t \in Threads : pc[t] \notin {"p_event", "p_unlock"}
    BY <2>1 DEF EventInv
  <2>5. \A t \in Threads : pc[t] \in {"idle", "ret"}
    BY <1>2, <2>3, <2>4 DEF TypeOK, CallInv
  <2> QED
    BY <1>2, <2>5 DEF Quiet, TypeOK, CallInv
<1> QED
  BY <1>1, <1>2 DEF MayDestroy

\* The handles stay all or nothing, and a semaphore being closed stays quiet.
LEMMA HandleStep ==
  ASSUME SignalFree, TypeOK, CallInv, LockInv, HandleInv, EventInv, OwedInv,
         [Next]_vars
  PROVE  HandleInv'
<1>1. CASE SemInit
  BY <1>1, InitOutcome DEF SemInit, HandleInv, Quiet
<1>2. CASE SemDestroy
  BY <1>2, DestroyFindsQuiet DEF SemDestroy, HandleInv, TypeOK, Quiet
<1>3. CASE DestroyStep
  <2>1. closing \in Handles /\ Quiet'
    BY <1>3, CloseSucceeds DEF DestroyStep, TypeOK, Quiet
  <2>2. CASE closing = "hev"
    BY <1>3, <2>1, <2>2, CloseSucceeds DEF HandleInv, NextClose
  <2>3. CASE closing = "hmtxWait"
    BY <1>3, <2>1, <2>3, CloseSucceeds DEF HandleInv, NextClose
  <2>4. CASE closing = "hmtxCount"
    BY <1>3, <2>1, <2>4, CloseSucceeds DEF HandleInv, NextClose
  <2> QED
    BY <2>1, <2>2, <2>3, <2>4
<1>4. ASSUME NEW t \in Threads, SemPost(t) PROVE HandleInv'
  BY <1>4 DEF SemPost, Goto, Settle, Call, HandleInv, TypeOK, Quiet
<1>5. ASSUME NEW t \in Threads, SemWait(t) PROVE HandleInv'
  BY <1>5 DEF SemWait, Goto, Settle, Call, HandleInv, TypeOK, Quiet
<1>6. ASSUME NEW t \in Threads, SemTryWait(t) PROVE HandleInv'
  BY <1>6 DEF SemTryWait, Goto, Settle, Call, HandleInv, TypeOK, Quiet
<1>7. ASSUME NEW t \in Threads, EventInterrupt(t) PROVE HandleInv'
  BY <1>7 DEF EventInterrupt, Goto, Settle, NotPosted, HandleInv, TypeOK, Quiet
<1>8. ASSUME NEW t \in Threads, PostLock(t) PROVE HandleInv'
  BY <1>8 DEF PostLock, Goto, Settle, Request, SignalFree, HandleInv, TypeOK,
     Quiet
<1>9. ASSUME NEW t \in Threads, WaitLock(t) PROVE HandleInv'
  BY <1>9 DEF WaitLock, Goto, Settle, Request, SignalFree, HandleInv, TypeOK,
     Quiet
<1>10. ASSUME NEW t \in Threads, WaitCount(t) PROVE HandleInv'
  BY <1>10 DEF WaitCount, Goto, Settle, Request, SignalFree, HandleInv, TypeOK,
     Quiet
<1>11. ASSUME NEW t \in Threads, PostLoad(t) PROVE HandleInv'
  BY <1>11 DEF PostLoad, Goto, Settle, HandleInv, TypeOK, Quiet
<1>12. ASSUME NEW t \in Threads, PostStore(t) PROVE HandleInv'
  BY <1>12 DEF PostStore, Goto, Settle, HandleInv, TypeOK, Quiet
<1>13. ASSUME NEW t \in Threads, PostEvent(t) PROVE HandleInv'
  BY <1>13 DEF PostEvent, Goto, Settle, HandleInv, TypeOK, Quiet
<1>14. ASSUME NEW t \in Threads, PostUnlock(t) PROVE HandleInv'
  BY <1>14 DEF PostUnlock, Goto, Settle, Released, HandleInv, TypeOK, Quiet
<1>15. ASSUME NEW t \in Threads, EventPosted(t) PROVE HandleInv'
  BY <1>15 DEF EventPosted, Goto, Settle, HandleInv, TypeOK, Quiet
<1>16. ASSUME NEW t \in Threads, EventTimeout(t) PROVE HandleInv'
  BY <1>16 DEF EventTimeout, Goto, Settle, NotPosted, HandleInv, TypeOK, Quiet
<1>17. ASSUME NEW t \in Threads, WaitLoad(t) PROVE HandleInv'
  BY <1>17 DEF WaitLoad, Goto, Settle, HandleInv, TypeOK, Quiet
<1>18. ASSUME NEW t \in Threads, WaitStore(t) PROVE HandleInv'
  BY <1>18 DEF WaitStore, Goto, Settle, HandleInv, TypeOK, Quiet
<1>19. ASSUME NEW t \in Threads, WaitReset(t) PROVE HandleInv'
  BY <1>19 DEF WaitReset, Goto, Settle, HandleInv, TypeOK, Quiet
<1>20. ASSUME NEW t \in Threads, WaitUncount(t) PROVE HandleInv'
  BY <1>20 DEF WaitUncount, Goto, Settle, Released, HandleInv, TypeOK, Quiet
<1>21. ASSUME NEW t \in Threads, WaitUnlock(t) PROVE HandleInv'
  BY <1>21 DEF WaitUnlock, Goto, Settle, Released, HandleInv, TypeOK, Quiet
<1>22. ASSUME NEW t \in Threads, Return(t) PROVE HandleInv'
  BY <1>22 DEF Return, Goto, Settle, HandleInv, TypeOK, Quiet
<1>23. CASE UNCHANGED vars
  BY <1>23 DEF vars, HandleInv, TypeOK, Quiet
<1> QED
  BY <1>1, <1>2, <1>3, <1>4, <1>5, <1>6, <1>7, <1>8, <1>9, <1>10, <1>11, <1>12,
     <1>13, <1>14, <1>15, <1>16, <1>17, <1>18, <1>19, <1>20, <1>21, <1>22,
     <1>23 DEF Next, LockStep, OwnStep

\* The event goes on agreeing with the counter.
LEMMA EventStep ==
  ASSUME SignalFree, TypeOK, CallInv, LockInv, HandleInv, EventInv, OwedInv,
         [Next]_vars
  PROVE  EventInv'
<1>1. CASE SemInit
  BY <1>1, InitOutcome DEF SemInit, EventInv, EventMatchesCount, HandleInv,
     Quiet
<1>2. CASE SemDestroy
  BY <1>2 DEF SemDestroy, EventInv, EventMatchesCount, TypeOK, LockInv,
     HandleInv, Quiet, HoldsCount, HoldsWait
<1>3. CASE DestroyStep
  BY <1>3, CloseSucceeds DEF DestroyStep, NextClose, EventInv,
     EventMatchesCount, Quiet, TypeOK
<1>4. ASSUME NEW t \in Threads, SemPost(t) PROVE EventInv'
  BY <1>4 DEF SemPost, Goto, Settle, Call, EventInv, EventMatchesCount, TypeOK,
     LockInv, HandleInv, Quiet, HoldsCount, HoldsWait
<1>5. ASSUME NEW t \in Threads, SemWait(t) PROVE EventInv'
  BY <1>5 DEF SemWait, Goto, Settle, Call, EventInv, EventMatchesCount, TypeOK,
     LockInv, HandleInv, Quiet, HoldsCount, HoldsWait
<1>6. ASSUME NEW t \in Threads, SemTryWait(t) PROVE EventInv'
  BY <1>6 DEF SemTryWait, Goto, Settle, Call, EventInv, EventMatchesCount,
     TypeOK, LockInv, HandleInv, Quiet, HoldsCount, HoldsWait
<1>7. ASSUME NEW t \in Threads, EventInterrupt(t) PROVE EventInv'
  BY <1>7 DEF EventInterrupt, Goto, Settle, NotPosted, EventInv,
     EventMatchesCount, TypeOK, LockInv, HandleInv, Quiet, HoldsCount,
     HoldsWait
<1>8. ASSUME NEW t \in Threads, PostLock(t) PROVE EventInv'
  BY <1>8 DEF PostLock, Goto, Settle, Request, SignalFree, EventInv,
     EventMatchesCount, TypeOK, LockInv, HandleInv, Quiet, HoldsCount,
     HoldsWait
<1>9. ASSUME NEW t \in Threads, WaitLock(t) PROVE EventInv'
  BY <1>9 DEF WaitLock, Goto, Settle, Request, SignalFree, EventInv,
     EventMatchesCount, TypeOK, LockInv, HandleInv, Quiet, HoldsCount,
     HoldsWait
<1>10. ASSUME NEW t \in Threads, WaitCount(t) PROVE EventInv'
  BY <1>10 DEF WaitCount, Goto, Settle, Request, SignalFree, EventInv,
     EventMatchesCount, TypeOK, LockInv, HandleInv, Quiet, HoldsCount,
     HoldsWait
<1>11. ASSUME NEW t \in Threads, PostLoad(t) PROVE EventInv'
  BY <1>11 DEF PostLoad, Goto, Settle, EventInv, EventMatchesCount, TypeOK,
     LockInv, HandleInv, Quiet, HoldsCount, HoldsWait
<1>12. ASSUME NEW t \in Threads, PostStore(t) PROVE EventInv'
  BY <1>12 DEF PostStore, Goto, Settle, EventInv, EventMatchesCount, TypeOK,
     LockInv, HandleInv, Quiet, HoldsCount, HoldsWait
<1>13. ASSUME NEW t \in Threads, PostEvent(t) PROVE EventInv'
  BY <1>13 DEF PostEvent, Goto, Settle, EventInv, EventMatchesCount, TypeOK,
     LockInv, HandleInv, Quiet, HoldsCount, HoldsWait
<1>14. ASSUME NEW t \in Threads, PostUnlock(t) PROVE EventInv'
  BY <1>14 DEF PostUnlock, Goto, Settle, Released, EventInv, EventMatchesCount,
     TypeOK, LockInv, HandleInv, Quiet, HoldsCount, HoldsWait
<1>15. ASSUME NEW t \in Threads, EventPosted(t) PROVE EventInv'
  BY <1>15 DEF EventPosted, Goto, Settle, EventInv, EventMatchesCount, TypeOK,
     LockInv, HandleInv, Quiet, HoldsCount, HoldsWait
<1>16. ASSUME NEW t \in Threads, EventTimeout(t) PROVE EventInv'
  BY <1>16 DEF EventTimeout, Goto, Settle, NotPosted, EventInv,
     EventMatchesCount, TypeOK, LockInv, HandleInv, Quiet, HoldsCount,
     HoldsWait
<1>17. ASSUME NEW t \in Threads, WaitLoad(t) PROVE EventInv'
  BY <1>17 DEF WaitLoad, Goto, Settle, EventInv, EventMatchesCount, TypeOK,
     LockInv, HandleInv, Quiet, HoldsCount, HoldsWait
<1>18. ASSUME NEW t \in Threads, WaitStore(t) PROVE EventInv'
  BY <1>18 DEF WaitStore, Goto, Settle, EventInv, EventMatchesCount, TypeOK,
     LockInv, HandleInv, Quiet, HoldsCount, HoldsWait
<1>19. ASSUME NEW t \in Threads, WaitReset(t) PROVE EventInv'
  BY <1>19 DEF WaitReset, Goto, Settle, EventInv, EventMatchesCount, TypeOK,
     LockInv, HandleInv, Quiet, HoldsCount, HoldsWait
<1>20. ASSUME NEW t \in Threads, WaitUncount(t) PROVE EventInv'
  BY <1>20 DEF WaitUncount, Goto, Settle, Released, EventInv,
     EventMatchesCount, TypeOK, LockInv, HandleInv, Quiet, HoldsCount,
     HoldsWait
<1>21. ASSUME NEW t \in Threads, WaitUnlock(t) PROVE EventInv'
  BY <1>21 DEF WaitUnlock, Goto, Settle, Released, EventInv, EventMatchesCount,
     TypeOK, LockInv, HandleInv, Quiet, HoldsCount, HoldsWait
<1>22. ASSUME NEW t \in Threads, Return(t) PROVE EventInv'
  BY <1>22 DEF Return, Goto, Settle, EventInv, EventMatchesCount, TypeOK,
     LockInv, HandleInv, Quiet, HoldsCount, HoldsWait
<1>23. CASE UNCHANGED vars
  BY <1>23 DEF vars, EventInv, EventMatchesCount, TypeOK, LockInv, HandleInv,
     Quiet, HoldsCount, HoldsWait
<1> QED
  BY <1>1, <1>2, <1>3, <1>4, <1>5, <1>6, <1>7, <1>8, <1>9, <1>10, <1>11, <1>12,
     <1>13, <1>14, <1>15, <1>16, <1>17, <1>18, <1>19, <1>20, <1>21, <1>22,
     <1>23 DEF Next, LockStep, OwnStep

\* When neither set grows, nor the counter, the account goes on being right.
LEMMA OwedKept ==
  ASSUME TypeOK, OwedInv,
         owed' = owed, count' = count, Early' \subseteq Early, Took' \subseteq Took
  PROVE  OwedInv'
<1>1. /\ Cardinality(Early') <= Cardinality(Early)
      /\ Cardinality(Took') <= Cardinality(Took)
      /\ IsFiniteSet(Early') /\ IsFiniteSet(Took')
  BY FiniteParts, FS_Subset
<1>2. Cardinality(Early') \in Nat /\ Cardinality(Took') \in Nat
  BY <1>1, FS_CardinalityType
<1> QED
  BY <1>1, <1>2, FiniteParts DEF OwedInv, TypeOK

\* A semaphore whose threads are quiet has no post and no wait to account for.
LEMMA QuietEmpty ==
  ASSUME Quiet, CallInv
  PROVE  Early = {} /\ Took = {}
BY DEF Quiet, CallInv, Early, Took

\* The account of the tokens goes on being right.
LEMMA OwedStep ==
  ASSUME SignalFree, TypeOK, CallInv, LockInv, HandleInv, EventInv, OwedInv,
         [Next]_vars
  PROVE  OwedInv'
<1>1. CASE SemInit
  <2>1. Quiet /\ Quiet'
    BY <1>1 DEF SemInit, HandleInv, Quiet
  <2>2. Early' = {} /\ Took' = {} /\ Early = {} /\ Took = {}
    BY <1>1, <2>1, QuietEmpty DEF SemInit, Early, Took
  <2>3. owed' >= count' /\ count' \in Int
    BY <1>1, <2>2, FS_EmptySet DEF SemInit, OwedInv, TypeOK
  <2> QED
    BY <2>2, <2>3, FS_EmptySet, TypeStep DEF OwedInv, TypeOK
<1>2. CASE SemDestroy
  BY <1>2 DEF SemDestroy, OwedInv, Early, Took
<1>3. CASE DestroyStep
  BY <1>3 DEF DestroyStep, OwedInv, Early, Took
<1>4. ASSUME NEW t \in Threads, SemPost(t) PROVE OwedInv'
  <2>1. Early' = Early \cup {t} /\ Took' = Took
    BY <1>4 DEF SemPost, Goto, Settle, Call, OwedInv, TypeOK , CallInv,
       Unsettled, Early, Took
  <2>2. Cardinality(Early') <= Cardinality(Early) + 1 /\ Cardinality(Early') \in Nat
    BY <2>1, AddOne, FiniteParts, FS_CardinalityType
  <2> QED
    BY <1>4, <2>1, <2>2, FiniteParts DEF SemPost, Call, OwedInv, TypeOK
<1>5. ASSUME NEW t \in Threads, SemWait(t) PROVE OwedInv'
  <2>1. Early' \subseteq Early /\ Took' \subseteq Took
    BY <1>5 DEF SemWait, Goto, Settle, Call, OwedInv, TypeOK , CallInv,
       Unsettled, Early, Took
  <2> QED
    BY <1>5, <2>1, OwedKept DEF SemWait, Call
<1>6. ASSUME NEW t \in Threads, SemTryWait(t) PROVE OwedInv'
  <2>1. Early' \subseteq Early /\ Took' \subseteq Took
    BY <1>6 DEF SemTryWait, Goto, Settle, Call, OwedInv, TypeOK , CallInv,
       Unsettled, Early, Took
  <2> QED
    BY <1>6, <2>1, OwedKept DEF SemTryWait, Call
<1>7. ASSUME NEW t \in Threads, EventInterrupt(t) PROVE OwedInv'
  <2>1. Early' \subseteq Early /\ Took' \subseteq Took
    BY <1>7 DEF EventInterrupt, Goto, Settle, NotPosted, OwedInv, TypeOK ,
       CallInv, Unsettled, Early, Took
  <2> QED
    BY <1>7, <2>1, OwedKept DEF EventInterrupt, NotPosted
<1>8. ASSUME NEW t \in Threads, PostLock(t) PROVE OwedInv'
  <2>1. Early' \subseteq Early /\ Took' \subseteq Took
    BY <1>8 DEF PostLock, Goto, Settle, Request, SignalFree, OwedInv, TypeOK ,
       CallInv, Unsettled, Early, Took
  <2> QED
    BY <1>8, <2>1, OwedKept DEF PostLock
<1>9. ASSUME NEW t \in Threads, WaitLock(t) PROVE OwedInv'
  <2>1. Early' \subseteq Early /\ Took' \subseteq Took
    BY <1>9 DEF WaitLock, Goto, Settle, Request, SignalFree, OwedInv, TypeOK ,
       CallInv, Unsettled, Early, Took
  <2> QED
    BY <1>9, <2>1, OwedKept DEF WaitLock
<1>10. ASSUME NEW t \in Threads, WaitCount(t) PROVE OwedInv'
  <2>1. Early' \subseteq Early /\ Took' \subseteq Took
    BY <1>10 DEF WaitCount, Goto, Settle, Request, SignalFree, OwedInv, TypeOK
       , CallInv, Unsettled, Early, Took
  <2> QED
    BY <1>10, <2>1, OwedKept DEF WaitCount
<1>11. ASSUME NEW t \in Threads, PostLoad(t) PROVE OwedInv'
  <2>1. Early' \subseteq Early /\ Took' \subseteq Took
    BY <1>11 DEF PostLoad, Goto, Settle, OwedInv, TypeOK , CallInv, Unsettled,
       Early, Took
  <2> QED
    BY <1>11, <2>1, OwedKept DEF PostLoad
<1>12. ASSUME NEW t \in Threads, PostStore(t) PROVE OwedInv'
  <2>1. Early' = Early \ {t} /\ t \in Early /\ Took' = Took
    BY <1>12 DEF PostStore, Goto, Settle, OwedInv, TypeOK , CallInv, Unsettled,
       Early, Took
  <2>2. Cardinality(Early') = Cardinality(Early) - 1
    BY <2>1, RemoveOne, FiniteParts
  <2>3. count' = count + 1
    BY <1>12 DEF PostStore, EventInv
  <2> QED
    BY <1>12, <2>1, <2>2, <2>3, FiniteParts DEF PostStore, OwedInv, TypeOK
<1>13. ASSUME NEW t \in Threads, PostEvent(t) PROVE OwedInv'
  <2>1. Early' \subseteq Early /\ Took' \subseteq Took
    BY <1>13 DEF PostEvent, Goto, Settle, OwedInv, TypeOK , CallInv, Unsettled,
       Early, Took
  <2> QED
    BY <1>13, <2>1, OwedKept DEF PostEvent
<1>14. ASSUME NEW t \in Threads, PostUnlock(t) PROVE OwedInv'
  <2>1. Early' \subseteq Early /\ Took' \subseteq Took
    BY <1>14 DEF PostUnlock, Goto, Settle, Released, OwedInv, TypeOK , CallInv,
       Unsettled, Early, Took
  <2> QED
    BY <1>14, <2>1, OwedKept DEF PostUnlock, Released
<1>15. ASSUME NEW t \in Threads, EventPosted(t) PROVE OwedInv'
  <2>1. Early' \subseteq Early /\ Took' \subseteq Took
    BY <1>15 DEF EventPosted, Goto, Settle, OwedInv, TypeOK , CallInv,
       Unsettled, Early, Took
  <2> QED
    BY <1>15, <2>1, OwedKept DEF EventPosted
<1>16. ASSUME NEW t \in Threads, EventTimeout(t) PROVE OwedInv'
  <2>1. Early' \subseteq Early /\ Took' \subseteq Took
    BY <1>16 DEF EventTimeout, Goto, Settle, NotPosted, OwedInv, TypeOK ,
       CallInv, Unsettled, Early, Took
  <2> QED
    BY <1>16, <2>1, OwedKept DEF EventTimeout, NotPosted
<1>17. ASSUME NEW t \in Threads, WaitLoad(t) PROVE OwedInv'
  <2>1. Early' \subseteq Early /\ Took' \subseteq Took
    BY <1>17 DEF WaitLoad, Goto, Settle, OwedInv, TypeOK , CallInv, Unsettled,
       Early, Took
  <2> QED
    BY <1>17, <2>1, OwedKept DEF WaitLoad
<1>18. ASSUME NEW t \in Threads, WaitStore(t) PROVE OwedInv'
  <2>1. Took' = Took \cup {t} /\ Early' = Early
    BY <1>18 DEF WaitStore, Goto, Settle, OwedInv, TypeOK , CallInv, Unsettled,
       Early, Took
  <2>2. Cardinality(Took') <= Cardinality(Took) + 1 /\ Cardinality(Took') \in Nat
    BY <2>1, AddOne, FiniteParts, FS_CardinalityType
  <2>3. count' = count - 1
    BY <1>18 DEF WaitStore, EventInv
  <2> QED
    BY <1>18, <2>1, <2>2, <2>3, FiniteParts DEF WaitStore, OwedInv, TypeOK
<1>19. ASSUME NEW t \in Threads, WaitReset(t) PROVE OwedInv'
  <2>1. Early' \subseteq Early /\ Took' \subseteq Took
    BY <1>19 DEF WaitReset, Goto, Settle, OwedInv, TypeOK , CallInv, Unsettled,
       Early, Took
  <2> QED
    BY <1>19, <2>1, OwedKept DEF WaitReset
<1>20. ASSUME NEW t \in Threads, WaitUncount(t) PROVE OwedInv'
  <2>1. Early' \subseteq Early /\ Took' \subseteq Took
    BY <1>20 DEF WaitUncount, Goto, Settle, Released, OwedInv, TypeOK ,
       CallInv, Unsettled, Early, Took
  <2> QED
    BY <1>20, <2>1, OwedKept DEF WaitUncount, Released
<1>21. ASSUME NEW t \in Threads, WaitUnlock(t) PROVE OwedInv'
  <2>1. Early' \subseteq Early /\ Took' \subseteq Took
    BY <1>21 DEF WaitUnlock, Goto, Settle, Released, OwedInv, TypeOK , CallInv,
       Unsettled, Early, Took
  <2> QED
    BY <1>21, <2>1, OwedKept DEF WaitUnlock, Released
<1>22. ASSUME NEW t \in Threads, Return(t) PROVE OwedInv'
  <2>1. CASE t \in Took
    <3>1. Took' = Took \ {t} /\ Early' = Early /\ owed' = owed - 1
      BY <1>22, <2>1 DEF Return, Goto, Settle, OwedInv, TypeOK , Early, Took
    <3>2. Cardinality(Took') = Cardinality(Took) - 1
      BY <2>1, <3>1, RemoveOne, FiniteParts
    <3> QED
      BY <1>22, <3>1, <3>2, FiniteParts DEF Return, OwedInv, TypeOK
  <2>2. CASE t \notin Took
    <3>1. Took' = Took /\ Early' = Early /\ owed' = owed
      BY <1>22, <2>2 DEF Return, Goto, Settle, OwedInv, TypeOK , Early, Took
    <3> QED
      BY <1>22, <3>1, OwedKept DEF Return
  <2> QED
    BY <2>1, <2>2
<1>23. CASE UNCHANGED vars
  BY <1>23 DEF vars, OwedInv, Early, Took
<1> QED
  BY <1>1, <1>2, <1>3, <1>4, <1>5, <1>6, <1>7, <1>8, <1>9, <1>10, <1>11, <1>12,
     <1>13, <1>14, <1>15, <1>16, <1>17, <1>18, <1>19, <1>20, <1>21, <1>22,
     <1>23 DEF Next, LockStep, OwnStep

-----------------------------------------------------------------------------

LEMMA InitIInv == Init => IInv
<1> SUFFICES ASSUME Init PROVE IInv
  OBVIOUS
<1>1. TypeOK
  <2>1. 0 \in 0..SEM_VALUE_MAX
    OBVIOUS
  <2>2. /\ pc \in [Threads -> PCs]
        /\ op \in [Threads -> {"none", "post"} \cup WaitCalls]
        /\ rc \in [Threads -> {"none", "pending", "ok", "eagain", "eintr"}]
    BY DEF Init
  <2>3. seen \in [Threads -> 0..SEM_VALUE_MAX]
    BY <2>1, Zenon DEF Init
  <2> QED
    BY <2>1, <2>2, <2>3 DEF Init, TypeOK
<1>2. CallInv
  BY DEF Init, CallInv, Unsettled
<1>3. LockInv /\ HandleInv
  BY DEF Init, LockInv, HoldsCount, HoldsWait, HandleInv, Quiet
<1>4. EventInv
  BY DEF Init, EventInv, EventMatchesCount
<1>5. Early = {} /\ Took = {}
  BY DEF Init, Early, Took
<1>6. OwedInv
  BY <1>5, FS_EmptySet DEF Init, OwedInv
<1> QED
  BY <1>1, <1>2, <1>3, <1>4, <1>6 DEF IInv

LEMMA NextIInv == SignalFree /\ IInv /\ [Next]_vars => IInv'
BY TypeStep, CallStep, LockStepInv, HandleStep, EventStep, OwedStep DEF IInv

\* The inductive invariant holds as long as no signal ends a request for a
\* mutex: type correctness, mutual exclusion on both mutexes, the agreement of
\* event and counter, and the account of the tokens.
THEOREM Invariance == ASSUME SignalFree PROVE Spec => []IInv
<1>1. Init => IInv
  BY InitIInv
<1>2. IInv /\ [Next]_vars => IInv'
  BY NextIInv
<1> QED
  BY <1>1, <1>2, PTL DEF Spec

\* Type correctness: the counter never leaves 0..SEM_VALUE_MAX.
THEOREM TypeCorrect == ASSUME SignalFree PROVE Spec => []TypeOK
<1>1. IInv => TypeOK
  BY DEF IInv
<1> QED
  BY <1>1, Invariance, PTL

\* Mutual exclusion: hmtxCount has one holder at a time, and so has hmtxWait.
MutualExclusion ==
  \A t, u \in Threads :
    t # u => /\ ~(pc[t] \in HoldsCount /\ pc[u] \in HoldsCount)
             /\ ~(pc[t] \in HoldsWait /\ pc[u] \in HoldsWait)

THEOREM Exclusion == ASSUME SignalFree PROVE Spec => []MutualExclusion
<1>1. IInv => MutualExclusion
  BY DEF IInv, LockInv, MutualExclusion
<1> QED
  BY <1>1, Invariance, PTL

\* The event is posted exactly while there are tokens: no lost wake-up.
THEOREM EventAgrees == ASSUME SignalFree PROVE Spec => []EventMatchesCount
<1>1. IInv => EventMatchesCount
  BY DEF IInv, EventInv
<1> QED
  BY <1>1, Invariance, PTL

\* A program that has all its tokens back may destroy the semaphore at once.
THEOREM DestroySafe == ASSUME SignalFree PROVE Spec => []DestroyTouchesNoCaller
<1>1. IInv => DestroyTouchesNoCaller
  BY DEF IInv, HandleInv, Quiet, DestroyTouchesNoCaller
<1> QED
  BY <1>1, Invariance, PTL

\* No handle is left open that sem_destroy() cannot reach.
THEOREM HandlesSafe == ASSUME SignalFree PROVE Spec => []HandlesAllOrNothing
<1>1. IInv => HandlesAllOrNothing
  BY DEF IInv, HandleInv, HandlesAllOrNothing
<1> QED
  BY <1>1, Invariance, PTL
-----------------------------------------------------------------------------

(***************************************************************************)
(* The semaphore implements AbstractSemaphore.                             *)
(***************************************************************************)
NobodyPosting == \A t \in Threads : pc[t] # "p_event"

\* The abstract value, by who holds hmtxCount.
LEMMA ValueSettled ==
  ASSUME NobodyPosting
  PROVE  absValue = count
BY DEF absValue, NobodyPosting

LEMMA ValuePosting ==
  ASSUME NEW t \in Threads, pc[t] = "p_event"
  PROVE  absValue = count - 1
BY DEF absValue

LEMMA HolderAlone ==
  ASSUME LockInv, NEW t \in Threads, pc[t] \in HoldsCount \ {"p_event"}
  PROVE  NobodyPosting
BY DEF LockInv, HoldsCount, NobodyPosting

\* An event that is not posted means that no token is there to take.
LEMMA NoEventNoToken ==
  ASSUME TypeOK, LockInv, HandleInv, EventInv, ~posted,
         NEW t \in Threads, pc[t] = "w_event"
  PROVE  absValue = 0
<1>1. Ready
  BY DEF HandleInv, Quiet
<1>2. CASE \E u \in Threads : pc[u] = "p_event"
  <2>1. PICK u \in Threads : pc[u] = "p_event"
    BY <1>2
  <2>2. count = 1
    BY <2>1 DEF EventInv
  <2> QED
    BY <2>1, <2>2, ValuePosting
<1>3. CASE NobodyPosting
  <2>1. \A u \in Threads : pc[u] # "w_reset"
    BY DEF LockInv, HoldsWait
  <2>2. count = 0
    BY <1>1, <1>3, <2>1 DEF EventInv, EventMatchesCount, NobodyPosting, TypeOK
  <2> QED
    BY <1>3, <2>2, ValueSettled
<1> QED
  BY <1>2, <1>3 DEF NobodyPosting

\* A step that leaves the counter alone and moves no thread into or out of the
\* call of DosPostEventSem leaves the abstract value alone.
LEMMA ValueKept ==
  ASSUME TypeOK, NEW t \in Threads, NEW l \in PCs \ {"p_event"},
         pc[t] # "p_event", Goto(t, l), count' = count
  PROVE  absValue' = absValue
BY DEF TypeOK, Goto, absValue

\* A sem_init() that fails does not write the counter.
LEMMA InitKeepsCount ==
  ASSUME SemInit, handles' = {}
  PROVE  count' = count
<1>1. PICK n \in 0..3 :
        IF n = 3 THEN handles' = {Order[i] : i \in 1..n} ELSE count' = count
  BY DEF SemInit
<1>2. Order[1] \in {Order[i] : i \in 1..3}
  OBVIOUS
<1> QED
  BY <1>1, <1>2

\* Every step of the implementation is a step of the abstract semaphore or
\* changes nothing of it.
LEMMA StepSimulation ==
  ASSUME SignalFree, TypeOK, CallInv, LockInv, HandleInv, EventInv, OwedInv,
         [Next]_vars
  PROVE  [Abs!AbsNext]_Abs!absVars
<1>1. ASSUME SemInit PROVE Abs!AbsNext \/ UNCHANGED Abs!absVars
  <2>1. Quiet /\ Quiet'
    BY <1>1 DEF SemInit, HandleInv, Quiet
  <2>2. NobodyPosting /\ NobodyPosting'
    BY <2>1 DEF Quiet, NobodyPosting
  <2>3. absValue = count /\ absValue' = count'
    BY <2>2 DEF absValue, NobodyPosting
  <2>4. \A t \in Threads : rc[t] # "pending"
    BY <2>1 DEF Quiet, CallInv, Unsettled
  <2>5. CASE handles' = Handles /\ count' \in 0..SEM_VALUE_MAX
    <3>1. Abs!Create
      BY <1>1, <2>3, <2>4, <2>5 DEF SemInit, Abs!Create, Abs!Settled
    <3> QED
      BY <3>1 DEF Abs!AbsNext
  <2>6. CASE handles' = {}
    <3>1. count' = count
      BY <1>1, <2>6, InitKeepsCount
    <3> QED
      BY <1>1, <2>3, <2>6, <3>1 DEF SemInit, Abs!absVars
  <2> QED
    BY <2>5, <2>6, <1>1, InitOutcome
<1>2. ASSUME SemDestroy PROVE Abs!AbsNext \/ UNCHANGED Abs!absVars
  <2>1. Quiet
    BY <1>2, DestroyFindsQuiet DEF SemDestroy
  <2>2. \A t \in Threads : rc[t] # "pending"
    BY <2>1 DEF Quiet, CallInv, Unsettled
  <2>3. absValue' = absValue
    BY <1>2 DEF SemDestroy, absValue
  <2>4. Abs!Destroy
    BY <1>2, <2>2, <2>3 DEF SemDestroy, Abs!Destroy, Abs!Settled
  <2> QED
    BY <2>4 DEF Abs!AbsNext
<1>3. ASSUME DestroyStep PROVE Abs!AbsNext \/ UNCHANGED Abs!absVars
  <2>1. absValue' = absValue
    BY <1>3 DEF DestroyStep, absValue
  <2>2. ~Ready /\ ~Ready'
    BY <1>3, CloseSucceeds DEF DestroyStep, TypeOK
  <2> QED
    BY <1>3, <2>1, <2>2 DEF DestroyStep, Abs!absVars
<1>4. ASSUME NEW t \in Threads, SemPost(t) PROVE Abs!AbsNext \/ UNCHANGED Abs!absVars
  <2>1. absValue' = absValue
    BY <1>4, ValueKept DEF SemPost, Call
  <2>2. Abs!Invoke(t)
    BY <1>4, <2>1 DEF SemPost, Call, Settle, CallInv, Abs!Invoke, Abs!Calls
  <2> QED
    BY <2>2 DEF Abs!AbsNext, Abs!AbsStep
<1>5. ASSUME NEW t \in Threads, SemWait(t) PROVE Abs!AbsNext \/ UNCHANGED Abs!absVars
  <2>1. absValue' = absValue
    BY <1>5, ValueKept DEF SemWait, Call
  <2>2. Abs!Invoke(t)
    BY <1>5, <2>1 DEF SemWait, Call, Settle, CallInv, Abs!Invoke, Abs!Calls
  <2> QED
    BY <2>2 DEF Abs!AbsNext, Abs!AbsStep
<1>6. ASSUME NEW t \in Threads, SemTryWait(t) PROVE Abs!AbsNext \/ UNCHANGED Abs!absVars
  <2>1. absValue' = absValue
    BY <1>6, ValueKept DEF SemTryWait, Call
  <2>2. Abs!Invoke(t)
    BY <1>6, <2>1 DEF SemTryWait, Call, Settle, CallInv, Abs!Invoke, Abs!Calls
  <2> QED
    BY <2>2 DEF Abs!AbsNext, Abs!AbsStep
<1>7. ASSUME NEW t \in Threads, EventInterrupt(t) PROVE Abs!AbsNext \/ UNCHANGED Abs!absVars
  <2>1. absValue' = absValue
    BY <1>7, ValueKept DEF EventInterrupt, NotPosted
  <2>2. rc[t] = "pending"
    BY <1>7 DEF EventInterrupt, NotPosted, CallInv, Unsettled
  <2>3. Abs!Interrupted(t)
    BY <1>7, <2>1, <2>2 DEF EventInterrupt, NotPosted, Settle, Abs!Interrupted,
       Abs!Settle
  <2> QED
    BY <2>3 DEF Abs!AbsNext, Abs!AbsStep
<1>8. ASSUME NEW t \in Threads, PostLock(t) PROVE Abs!AbsNext \/ UNCHANGED Abs!absVars
  <2>1. absValue' = absValue
    BY <1>8, ValueKept DEF PostLock
  <2> QED
    BY <1>8, <2>1 DEF PostLock, Request, SignalFree, Abs!absVars
<1>9. ASSUME NEW t \in Threads, WaitLock(t) PROVE Abs!AbsNext \/ UNCHANGED Abs!absVars
  <2>1. absValue' = absValue
    BY <1>9, ValueKept DEF WaitLock
  <2> QED
    BY <1>9, <2>1 DEF WaitLock, Request, SignalFree, Abs!absVars
<1>10. ASSUME NEW t \in Threads, WaitCount(t) PROVE Abs!AbsNext \/ UNCHANGED Abs!absVars
  <2>1. absValue' = absValue
    BY <1>10, ValueKept DEF WaitCount
  <2> QED
    BY <1>10, <2>1 DEF WaitCount, Request, SignalFree, Abs!absVars
<1>11. ASSUME NEW t \in Threads, PostLoad(t) PROVE Abs!AbsNext \/ UNCHANGED Abs!absVars
  <2>1. absValue' = absValue /\ absValue = count
    BY <1>11, ValueKept, HolderAlone, ValueSettled DEF PostLoad, HoldsCount
  <2>2. CASE count < SEM_VALUE_MAX
    BY <1>11, <2>1, <2>2 DEF PostLoad, Abs!absVars
  <2>3. CASE ~(count < SEM_VALUE_MAX)
    <3>1. rc[t] = "pending" /\ op[t] = "post"
      BY <1>11 DEF PostLoad, CallInv, Unsettled
    <3>2. Abs!Post(t)
      BY <1>11, <2>1, <2>3, <3>1 DEF PostLoad, Settle, Abs!Post, Abs!Settle
    <3> QED
      BY <3>2 DEF Abs!AbsNext, Abs!AbsStep
  <2> QED
    BY <2>2, <2>3
<1>12. ASSUME NEW t \in Threads, PostStore(t) PROVE Abs!AbsNext \/ UNCHANGED Abs!absVars
  <2>1. absValue = count
    BY <1>12, HolderAlone, ValueSettled DEF PostStore, HoldsCount
  <2>2. count' = count + 1
    BY <1>12 DEF PostStore, EventInv
  <2>3. pc'[t] = "p_event"
    BY <1>12 DEF PostStore, Goto, TypeOK
  <2>4. absValue' = count' - 1
    BY <2>3 DEF absValue
  <2>5. absValue' = absValue
    BY <2>1, <2>2, <2>4 DEF TypeOK
  <2> QED
    BY <1>12, <2>5 DEF PostStore, Abs!absVars
<1>13. ASSUME NEW t \in Threads, PostEvent(t) PROVE Abs!AbsNext \/ UNCHANGED Abs!absVars
  <2>1. absValue = count - 1 /\ count \in 1..SEM_VALUE_MAX
    BY <1>13, ValuePosting DEF PostEvent, EventInv, TypeOK
  <2>2. NobodyPosting'
    BY <1>13 DEF PostEvent, Goto, LockInv, HoldsCount, NobodyPosting, TypeOK
  <2>3. absValue' = count
    BY <1>13, <2>2 DEF PostEvent, NobodyPosting, absValue
  <2>4. rc[t] = "pending" /\ op[t] = "post"
    BY <1>13 DEF PostEvent, CallInv, Unsettled
  <2>5. absValue < SEM_VALUE_MAX /\ absValue' = absValue + 1
    BY <2>1, <2>3
  <2>6. Abs!Post(t)
    BY <1>13, <2>4, <2>5 DEF PostEvent, Settle, Abs!Post, Abs!Settle
  <2> QED
    BY <2>6 DEF Abs!AbsNext, Abs!AbsStep
<1>14. ASSUME NEW t \in Threads, PostUnlock(t) PROVE Abs!AbsNext \/ UNCHANGED Abs!absVars
  <2>1. absValue' = absValue
    BY <1>14, ValueKept DEF PostUnlock
  <2> QED
    BY <1>14, <2>1 DEF PostUnlock, Released, Abs!absVars
<1>15. ASSUME NEW t \in Threads, EventPosted(t) PROVE Abs!AbsNext \/ UNCHANGED Abs!absVars
  <2>1. absValue' = absValue
    BY <1>15, ValueKept DEF EventPosted
  <2> QED
    BY <1>15, <2>1 DEF EventPosted, Abs!absVars
<1>16. ASSUME NEW t \in Threads, EventTimeout(t) PROVE Abs!AbsNext \/ UNCHANGED Abs!absVars
  <2>1. absValue' = absValue
    BY <1>16, ValueKept DEF EventTimeout, NotPosted
  <2>2. rc[t] = "pending"
    BY <1>16 DEF EventTimeout, NotPosted, CallInv, Unsettled
  <2>3. Abs!GiveUp(t)
    BY <1>16, <2>1, <2>2, NoEventNoToken DEF EventTimeout, NotPosted, Settle,
       Abs!GiveUp, Abs!Settle
  <2> QED
    BY <2>3 DEF Abs!AbsNext, Abs!AbsStep
<1>17. ASSUME NEW t \in Threads, WaitLoad(t) PROVE Abs!AbsNext \/ UNCHANGED Abs!absVars
  <2>1. absValue' = absValue
    BY <1>17, ValueKept DEF WaitLoad
  <2> QED
    BY <1>17, <2>1 DEF WaitLoad, Abs!absVars
<1>18. ASSUME NEW t \in Threads, WaitStore(t) PROVE Abs!AbsNext \/ UNCHANGED Abs!absVars
  <2>1. NobodyPosting
    BY <1>18, HolderAlone DEF WaitStore, HoldsCount
  <2>2. NobodyPosting'
    BY <1>18, <2>1 DEF WaitStore, Goto, NobodyPosting, TypeOK
  <2>3. absValue = count /\ absValue' = count'
    BY <2>1, <2>2 DEF absValue, NobodyPosting
  <2>4. count > 0 /\ count' = count - 1
    BY <1>18 DEF WaitStore, EventInv
  <2>5. rc[t] = "pending" /\ op[t] \in WaitCalls
    BY <1>18 DEF WaitStore, CallInv, Unsettled
  <2>6. Abs!Take(t)
    BY <1>18, <2>3, <2>4, <2>5 DEF WaitStore, Settle, Abs!Take, Abs!Settle
  <2> QED
    BY <2>6 DEF Abs!AbsNext, Abs!AbsStep
<1>19. ASSUME NEW t \in Threads, WaitReset(t) PROVE Abs!AbsNext \/ UNCHANGED Abs!absVars
  <2>1. absValue' = absValue
    BY <1>19, ValueKept DEF WaitReset
  <2> QED
    BY <1>19, <2>1 DEF WaitReset, Abs!absVars
<1>20. ASSUME NEW t \in Threads, WaitUncount(t) PROVE Abs!AbsNext \/ UNCHANGED Abs!absVars
  <2>1. absValue' = absValue
    BY <1>20, ValueKept DEF WaitUncount
  <2> QED
    BY <1>20, <2>1 DEF WaitUncount, Released, Abs!absVars
<1>21. ASSUME NEW t \in Threads, WaitUnlock(t) PROVE Abs!AbsNext \/ UNCHANGED Abs!absVars
  <2>1. absValue' = absValue
    BY <1>21, ValueKept DEF WaitUnlock
  <2> QED
    BY <1>21, <2>1 DEF WaitUnlock, Released, Abs!absVars
<1>22. ASSUME NEW t \in Threads, Return(t) PROVE Abs!AbsNext \/ UNCHANGED Abs!absVars
  <2>1. absValue' = absValue
    BY <1>22, ValueKept DEF Return
  <2>2. op[t] # "none" /\ rc[t] # "pending"
    BY <1>22 DEF Return, CallInv, Unsettled
  <2>3. Abs!Return(t)
    BY <1>22, <2>1, <2>2 DEF Return, Settle, Abs!Return
  <2> QED
    BY <2>3 DEF Abs!AbsNext, Abs!AbsStep
<1>23. ASSUME UNCHANGED vars PROVE UNCHANGED Abs!absVars
  BY <1>23 DEF vars, Abs!absVars, absValue
<1> QED
  BY <1>1, <1>2, <1>3, <1>4, <1>5, <1>6, <1>7, <1>8, <1>9, <1>10, <1>11, <1>12,
     <1>13, <1>14, <1>15, <1>16, <1>17, <1>18, <1>19, <1>20, <1>21, <1>22,
     <1>23 DEF Next, LockStep, OwnStep

\* The implementation of thread/semaphore.c is a counting semaphore: whatever
\* its callers see, callers of AbstractSemaphore could have seen.
THEOREM Refinement == ASSUME SignalFree PROVE Spec => Implements
<1>1. Init => Abs!AbsInit
  BY DEF Init, Abs!AbsInit, absValue
<1>2. IInv /\ [Next]_vars => [Abs!AbsNext]_Abs!absVars
  BY StepSimulation DEF IInv
<1> QED
  BY <1>1, <1>2, Invariance, PTL DEF Spec, Implements, Abs!AbsSpec
=============================================================================
