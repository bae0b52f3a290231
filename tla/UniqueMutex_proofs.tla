-------------------------- MODULE UniqueMutex_proofs --------------------------
(***************************************************************************)
(* Proofs about UniqueMutex, for any sets of threads and fibers.           *)
(*                                                                         *)
(* MutualExclusion is not inductive: unlock makes the first waiter the     *)
(* owner, so one must know that a stored handler belongs to a fiber that   *)
(* owns nothing (WaitersExact), that a locked mutex has an owner and a     *)
(* free one has no waiters (NoLostWakeup), and that a fiber is in one      *)
(* place only (SingleFrame).  The conjunction of all of them, IInv, is     *)
(* inductive.                                                              *)
(***************************************************************************)
EXTENDS UniqueMutex, Executor_proofs

IInv ==
    /\ TypeOK
    /\ MutualExclusion
    /\ NoLostWakeup
    /\ WaitersExact
    /\ SingleFrame

-----------------------------------------------------------------------------
(* The mutex operations *)

\* What async_lock and unlock do to the two fields of a mutex.
LEMMA Operations ==
    ASSUME NEW m \in UniqueMutexType(Fibers)
    PROVE  /\ Take(m) \in UniqueMutexType(Fibers)
           /\ Take(m).locked_ = TRUE /\ Take(m).waiters_ = m.waiters_
           /\ Release(m) \in UniqueMutexType(Fibers)
           /\ Release(m).locked_ = FALSE /\ Release(m).waiters_ = m.waiters_
BY DEF UniqueMutexType, Take, Release

\* The same for async_lock on a locked mutex: the last waiter is the new one.
LEMMA EnqueueProperties ==
    ASSUME NEW m \in UniqueMutexType(Fibers), NEW f \in Fibers
    PROVE  /\ Enqueue(m, f) \in UniqueMutexType(Fibers)
           /\ Enqueue(m, f).locked_ = m.locked_
           /\ Len(Enqueue(m, f).waiters_) = Len(m.waiters_) + 1
           /\ Enqueue(m, f).waiters_ # <<>>
           /\ \A i \in 1..Len(m.waiters_) : Enqueue(m, f).waiters_[i] = m.waiters_[i]
           /\ Enqueue(m, f).waiters_[Len(m.waiters_) + 1] = f
BY DEF UniqueMutexType, Enqueue

\* The same for unlock on a mutex with waiters: the first one leaves.
LEMMA HandOffProperties ==
    ASSUME NEW m \in UniqueMutexType(Fibers), m.waiters_ # <<>>
    PROVE  /\ HandOff(m) \in UniqueMutexType(Fibers)
           /\ FirstWaiter(m) \in Fibers
           /\ FirstWaiter(m) = m.waiters_[1] /\ 1 \in 1..Len(m.waiters_)
           /\ HandOff(m).locked_ = m.locked_
           /\ Len(HandOff(m).waiters_) = Len(m.waiters_) - 1
           /\ \A i \in 1..Len(HandOff(m).waiters_) :
                 HandOff(m).waiters_[i] = m.waiters_[i + 1]
BY DEF UniqueMutexType, HandOff, FirstWaiter

-----------------------------------------------------------------------------
(* Types *)

\* Every step keeps the variables in their types.
LEMMA TypeStep == TypeOK /\ [Next]_vars => TypeOK'
<1> SUFFICES ASSUME TypeOK, [Next]_vars
             PROVE  TypeOK'
  OBVIOUS
<1> USE DEF TypeOK, PCs
<1>1. ASSUME NEW t \in Threads, NEW f \in Fibers, AsyncLock(t, f)
      PROVE  TypeOK'
  <2>1. ExecTypeOK'
    BY <1>1, LeaveStack DEF AsyncLock, Post, ExecTypeOK
  <2>2. mutex' \in UniqueMutexType(Fibers)
    <3>1. mutex' = Take(mutex) \/ mutex' = Enqueue(mutex, f)
      BY <1>1 DEF AsyncLock
    <3>2. mutex \in UniqueMutexType(Fibers)
      OBVIOUS
    <3>3. Take(mutex) \in UniqueMutexType(Fibers)
      BY <3>2, Operations
    <3>4. Enqueue(mutex, f) \in UniqueMutexType(Fibers)
      BY <3>2, EnqueueProperties
    <3>5. QED
      BY <3>1, <3>3, <3>4
  <2>3. pc' \in [Fibers -> PCs]
    BY <1>1 DEF AsyncLock
  <2>4. QED
    BY <2>1, <2>2, <2>3
<1>2. ASSUME NEW t \in Threads, NEW f \in Fibers, Unlock(t, f)
      PROVE  TypeOK'
  <2>1. CASE mutex.waiters_ = <<>>
    BY <1>2, <2>1, Operations DEF Unlock, ExecTypeOK
  <2>2. CASE mutex.waiters_ # <<>>
    <3>1. FirstWaiter(mutex) \in Fibers /\ mutex' \in UniqueMutexType(Fibers)
      BY <1>2, <2>2, HandOffProperties DEF Unlock
    <3>2. ExecTypeOK'
      BY <1>2, <2>2, <3>1, CallStack DEF Unlock, ExecTypeOK
    <3>3. QED
      BY <1>2, <2>2, <3>1, <3>2 DEF Unlock
  <2>3. QED
    BY <2>1, <2>2
<1>3. ASSUME NEW t \in Threads, NEW f \in Fibers, Dispatch(t, f)
      PROVE  TypeOK'
  BY <1>3, TakeStack DEF Dispatch, ExecTypeOK
<1>4. ASSUME NEW t \in Threads, NEW f \in Fibers, Await(t, f)
      PROVE  TypeOK'
  BY <1>4, LeaveStack DEF Await, ExecTypeOK
<1>5. ASSUME NEW f \in Fibers, Complete(f)
      PROVE  TypeOK'
  BY <1>5 DEF Complete, Post, ExecTypeOK
<1>6. CASE UNCHANGED vars
  BY <1>6 DEF vars, ExecTypeOK
<1>7. QED
  BY <1>1, <1>2, <1>3, <1>4, <1>5, <1>6 DEF Next

\* The variables keep their types.
THEOREM TypeCorrect == Spec => []TypeOK
<1>1. Init => TypeOK
  BY DEF Init, ExecInit, TypeOK, ExecTypeOK, UnlockedMutex, UniqueMutexType, PCs
<1>2. QED
  BY <1>1, TypeStep, PTL DEF Spec

-----------------------------------------------------------------------------
(* The inductive invariant *)

\* async_lock: the caller, which owned nothing and waited for nothing, becomes
\* the owner of a mutex without one, or the last of the waiters.
LEMMA AsyncLockStep ==
    ASSUME IInv, TypeOK', NEW t \in Threads, NEW f \in Fibers, AsyncLock(t, f)
    PROVE  IInv'
<1> USE DEF TypeOK
<1>1. SingleFrame'
  BY LeaveSingle DEF AsyncLock, IInv
<1>2. \A g : OnStack(g)' => OnStack(g) /\ g # f
  BY LeaveOnStack DEF AsyncLock, IInv
<1>3. f \notin ready
  BY LeaveStack DEF AsyncLock, IInv, SingleFrame, OnStack
<1>4. CASE ~mutex.locked_
  <2>1. /\ mutex' = Take(mutex)
        /\ pc' = [pc EXCEPT ![f] = "granted"]
        /\ ready' = ready \cup {f}
        /\ pc[f] = "outside"
    BY <1>4 DEF AsyncLock, Post
  <2>0. mutex'.locked_ = TRUE /\ mutex'.waiters_ = mutex.waiters_
    BY <2>1, Operations DEF IInv
  <2>2. Owners = {} /\ Owners' = {f}
    BY <1>4, <2>1 DEF IInv, NoLostWakeup, Owners
  <2>3. WaitersExact'
    BY <1>2, <2>0, <2>1 DEF IInv, WaitersExact
  <2>4. QED
    BY <1>1, <2>0, <2>2, <2>3 DEF IInv, MutualExclusion, NoLostWakeup
<1>5. CASE mutex.locked_
  <2>1. /\ mutex' = Enqueue(mutex, f)
        /\ pc' = [pc EXCEPT ![f] = "waiting"]
        /\ ready' = ready
        /\ pc[f] = "outside"
    BY <1>5 DEF AsyncLock, IInv
  <2>2. /\ mutex'.locked_ = mutex.locked_ /\ mutex'.waiters_ # <<>>
        /\ Len(mutex'.waiters_) = Len(mutex.waiters_) + 1
        /\ \A i \in 1..Len(mutex.waiters_) : mutex'.waiters_[i] = mutex.waiters_[i]
        /\ mutex'.waiters_[Len(mutex.waiters_) + 1] = f
        /\ Len(mutex.waiters_) \in Nat
    <3>1. mutex \in UniqueMutexType(Fibers)
      BY DEF IInv
    <3>2. Len(mutex.waiters_) \in Nat
      BY <3>1 DEF UniqueMutexType
    <3>3. QED
      BY <2>1, <3>1, <3>2, EnqueueProperties
  <2>3. Owners' = Owners
    BY <2>1 DEF Owners
  <2>4. \A i \in 1..Len(mutex.waiters_) : mutex.waiters_[i] \in Fibers /\ mutex.waiters_[i] # f
    BY <2>1 DEF IInv, WaitersExact, UniqueMutexType
  <2>5. ASSUME NEW g \in Fibers
        PROVE  pc'[g] = "waiting" <=> \E i \in 1..Len(mutex'.waiters_) : mutex'.waiters_[i] = g
    <3>1. CASE g = f
      BY <2>1, <2>2, <3>1
    <3>2. CASE g # f
      <4>1. pc'[g] = pc[g]
        BY <2>1, <3>2
      <4>2. (\E i \in 1..Len(mutex'.waiters_) : mutex'.waiters_[i] = g)
               <=> (\E i \in 1..Len(mutex.waiters_) : mutex.waiters_[i] = g)
        <5>1. ASSUME NEW i \in 1..Len(mutex'.waiters_), mutex'.waiters_[i] = g
              PROVE  i \in 1..Len(mutex.waiters_) /\ mutex.waiters_[i] = g
          BY <2>2, <3>2, <5>1
        <5>2. ASSUME NEW i \in 1..Len(mutex.waiters_), mutex.waiters_[i] = g
              PROVE  i \in 1..Len(mutex'.waiters_) /\ mutex'.waiters_[i] = g
          BY <2>2, <5>2
        <5>3. QED
          BY <5>1, <5>2
      <4>3. QED
        BY <4>1, <4>2 DEF IInv, WaitersExact
    <3>3. QED
      BY <3>1, <3>2
  <2>6. ASSUME NEW i \in 1..Len(mutex'.waiters_), NEW j \in 1..Len(mutex'.waiters_),
               mutex'.waiters_[i] = mutex'.waiters_[j]
        PROVE  i = j
    <3>1. CASE i \in 1..Len(mutex.waiters_) /\ j \in 1..Len(mutex.waiters_)
      BY <2>2, <2>6, <3>1 DEF IInv, WaitersExact
    <3>2. CASE i = Len(mutex.waiters_) + 1 \/ j = Len(mutex.waiters_) + 1
      BY <2>2, <2>4, <2>6, <3>2
    <3>3. QED
      BY <2>2, <3>1, <3>2
  <2>7. \A g \in Fibers : pc'[g] = "waiting" => ~OnStack(g)' /\ g \notin ready'
    BY <1>2, <1>3, <2>1 DEF IInv, WaitersExact
  <2>8. QED
    BY <1>1, <1>5, <2>2, <2>3, <2>5, <2>6, <2>7
       DEF IInv, MutualExclusion, NoLostWakeup, WaitersExact
<1>6. QED
  BY <1>4, <1>5

\* unlock: the owner frees a mutex without waiters, or the first waiter, which
\* was at rest, becomes the only owner.
LEMMA UnlockStep ==
    ASSUME IInv, TypeOK', NEW t \in Threads, NEW f \in Fibers, Unlock(t, f)
    PROVE  IInv'
<1> USE DEF TypeOK
<1>1. Owners = {f} /\ pc[f] = "critical"
  BY DEF Unlock, IInv, MutualExclusion, Owners
<1>2. CASE mutex.waiters_ = <<>>
  <2>1. /\ mutex'.locked_ = FALSE /\ mutex'.waiters_ = mutex.waiters_
        /\ pc' = [pc EXCEPT ![f] = "outside"]
        /\ ready' = ready /\ stack' = stack
    BY <1>2, Operations DEF Unlock, IInv
  <2>2. Owners' = {}
    BY <1>1, <2>1 DEF Owners
  <2>3. WaitersExact' /\ SingleFrame'
    BY <1>1, <2>1 DEF IInv, WaitersExact, SingleFrame, OnStack
  <2>4. QED
    BY <1>2, <2>1, <2>2, <2>3 DEF IInv, MutualExclusion, NoLostWakeup
<1>3. CASE mutex.waiters_ # <<>>
  <2> DEFINE g == FirstWaiter(mutex)
  <2>1. /\ mutex' = HandOff(mutex)
        /\ pc' = [pc EXCEPT ![f] = "outside", ![g] = "critical"]
        /\ Call(t, g)
        /\ ready' = ready
    BY <1>3 DEF Unlock
  <2>2. /\ g \in Fibers /\ g = mutex.waiters_[1] /\ 1 \in 1..Len(mutex.waiters_)
        /\ mutex'.locked_ = mutex.locked_
        /\ Len(mutex'.waiters_) = Len(mutex.waiters_) - 1
        /\ \A i \in 1..Len(mutex'.waiters_) : mutex'.waiters_[i] = mutex.waiters_[i + 1]
        /\ Len(mutex.waiters_) \in Nat
    BY <1>3, <2>1, HandOffProperties DEF IInv, UniqueMutexType
  <2> HIDE DEF g
  <2>3. pc[g] = "waiting" /\ g # f /\ ~OnStack(g) /\ g \notin ready
    BY <1>1, <2>2 DEF IInv, WaitersExact
  <2>4. SingleFrame' /\ \A h : OnStack(h)' => OnStack(h) \/ h = g
    BY <2>1, <2>2, <2>3, CallSingle, CallOnStack DEF IInv
  <2>5. Owners' = {g}
    BY <1>1, <2>1, <2>2, <2>3 DEF Owners, IInv
  <2>6. mutex.locked_ /\ mutex'.locked_
    BY <1>1, <2>2 DEF IInv, NoLostWakeup
  <2>7. ASSUME NEW h \in Fibers
        PROVE  pc'[h] = "waiting" <=> \E i \in 1..Len(mutex'.waiters_) : mutex'.waiters_[i] = h
    <3>1. CASE h = g
      <4>1. pc'[h] = "critical"
        BY <2>1, <2>2, <3>1 DEF IInv
      <4>2. \A i \in 1..Len(mutex'.waiters_) :
               i + 1 \in 1..Len(mutex.waiters_) /\ i + 1 # 1
        BY <2>2
      <4>3. ASSUME NEW i \in 1..Len(mutex'.waiters_), mutex'.waiters_[i] = h
            PROVE  FALSE
        <5>1. mutex.waiters_[i + 1] = mutex.waiters_[1] /\ 1 \in 1..Len(mutex.waiters_)
          BY <2>2, <3>1, <4>3
        <5>2. \A k, j \in 1..Len(mutex.waiters_) :
                 mutex.waiters_[k] = mutex.waiters_[j] => k = j
          BY DEF IInv, WaitersExact
        <5>3. i + 1 = 1
          BY <4>2, <5>1, <5>2
        <5>4. QED
          BY <4>2, <5>3
      <4>4. QED
        BY <4>1, <4>3
    <3>2. CASE h # g
      <4>1. pc'[h] = "waiting" <=> pc[h] = "waiting"
        BY <1>1, <2>1, <2>3, <3>2 DEF IInv
      <4>2. ASSUME NEW i \in 1..Len(mutex.waiters_), mutex.waiters_[i] = h
            PROVE  i - 1 \in 1..Len(mutex'.waiters_) /\ mutex'.waiters_[i - 1] = h
        BY <2>2, <3>2, <4>2
      <4>3. ASSUME NEW i \in 1..Len(mutex'.waiters_), mutex'.waiters_[i] = h
            PROVE  i + 1 \in 1..Len(mutex.waiters_) /\ mutex.waiters_[i + 1] = h
        BY <2>2, <4>3
      <4>4. QED
        BY <4>1, <4>2, <4>3 DEF IInv, WaitersExact
    <3>3. QED
      BY <3>1, <3>2
  <2>8. ASSUME NEW i \in 1..Len(mutex'.waiters_), NEW j \in 1..Len(mutex'.waiters_),
               mutex'.waiters_[i] = mutex'.waiters_[j]
        PROVE  i = j
    <3>1. /\ i + 1 \in 1..Len(mutex.waiters_) /\ j + 1 \in 1..Len(mutex.waiters_)
          /\ mutex.waiters_[i + 1] = mutex.waiters_[j + 1]
      BY <2>2, <2>8
    <3>2. i + 1 = j + 1
      BY <3>1 DEF IInv, WaitersExact
    <3>3. QED
      BY <3>2
  <2>9. \A h \in Fibers : pc'[h] = "waiting" => ~OnStack(h)' /\ h \notin ready'
    <3>1. ASSUME NEW h \in Fibers, pc'[h] = "waiting"
          PROVE  pc[h] = "waiting" /\ h # g
      BY <1>1, <2>1, <2>2, <2>3, <3>1 DEF IInv
    <3>2. QED
      BY <2>1, <2>4, <3>1 DEF IInv, WaitersExact
  <2>10. WaitersExact'
    BY <2>7, <2>8, <2>9 DEF WaitersExact
  <2>11. QED
    BY <2>4, <2>5, <2>6, <2>10 DEF IInv, MutualExclusion, NoLostWakeup
<1>4. QED
  BY <1>2, <1>3

\* The invariant is inductive.
LEMMA InductiveStep == IInv /\ [Next]_vars => IInv'
<1> SUFFICES ASSUME IInv, [Next]_vars
             PROVE  IInv'
  OBVIOUS
<1> USE DEF TypeOK
<1>0. TypeOK'
  BY TypeStep DEF IInv
<1>1. ASSUME NEW t \in Threads, NEW f \in Fibers, AsyncLock(t, f)
      PROVE  IInv'
  BY <1>0, <1>1, AsyncLockStep
<1>2. ASSUME NEW t \in Threads, NEW f \in Fibers, Unlock(t, f)
      PROVE  IInv'
  BY <1>0, <1>2, UnlockStep
<1>3. ASSUME NEW t \in Threads, NEW f \in Fibers, Dispatch(t, f)
      PROVE  IInv'
  <2>1. SingleFrame' /\ \A h : OnStack(h)' => OnStack(h) \/ h = f
    BY <1>3, TakeSingle, TakeOnStack DEF Dispatch, IInv
  <2>2. /\ f \in ready /\ ready' = ready \ {f} /\ mutex' = mutex
        /\ \A h \in Fibers \ {f} : pc'[h] = pc[h]
        /\ pc'[f] = IF pc[f] = "granted" THEN "critical" ELSE pc[f]
    BY <1>3, TakeStack DEF Dispatch, IInv
  <2>3. Owners' = Owners /\ pc[f] # "waiting"
    BY <2>2 DEF Owners, IInv, WaitersExact
  <2>4. \A h \in Fibers : pc'[h] = "waiting" <=> pc[h] = "waiting"
    BY <2>2, <2>3
  <2>5. WaitersExact'
    BY <2>1, <2>2, <2>3, <2>4 DEF IInv, WaitersExact
  <2>6. QED
    BY <1>0, <2>1, <2>2, <2>3, <2>5 DEF IInv, MutualExclusion, NoLostWakeup
<1>4. ASSUME NEW t \in Threads, NEW f \in Fibers, Await(t, f)
      PROVE  IInv'
  <2>1. /\ SingleFrame' /\ \A h : OnStack(h)' => OnStack(h)
        /\ UNCHANGED <<ready, mutex, pc>>
    BY <1>4, LeaveSingle, LeaveOnStack DEF Await, IInv
  <2>2. QED
    BY <1>0, <2>1 DEF IInv, MutualExclusion, NoLostWakeup, WaitersExact, Owners
<1>5. ASSUME NEW f \in Fibers, Complete(f)
      PROVE  IInv'
  <2>1. /\ SingleFrame' /\ UNCHANGED <<stack, mutex, pc>>
        /\ ready' = ready \cup {f} /\ pc[f] # "waiting"
    BY <1>5, PostSingle DEF Complete, Post, IInv
  <2>2. QED
    BY <1>0, <2>1 DEF IInv, MutualExclusion, NoLostWakeup, WaitersExact, Owners, OnStack
<1>6. CASE UNCHANGED vars
  BY <1>0, <1>6
     DEF vars, IInv, MutualExclusion, NoLostWakeup, WaitersExact, SingleFrame, Owners, OnStack
<1>7. QED
  BY <1>1, <1>2, <1>3, <1>4, <1>5, <1>6 DEF Next

\* The invariant holds in every state of the mutex.
THEOREM Invariance == Spec => []IInv
<1>1. Init => IInv
  BY DEF Init, ExecInit, IInv, TypeOK, ExecTypeOK, UnlockedMutex, UniqueMutexType, PCs,
         MutualExclusion, NoLostWakeup, WaitersExact, SingleFrame, Owners, OnStack
<1>2. QED
  BY <1>1, InductiveStep, PTL DEF Spec

\* unique_mutex_t never has two owners.
THEOREM Exclusive == Spec => []MutualExclusion
BY Invariance, PTL DEF IInv

\* unique_mutex_t is locked exactly while it has an owner, and nobody waits for
\* a mutex without one: unlock forgets no waiter.
THEOREM WakeupsExact == Spec => []NoLostWakeup
BY Invariance, PTL DEF IInv

\* waiters_ holds the fibers that wait, each once, and all of them at rest:
\* unlock only ever resumes a fiber that is suspended on this mutex.
THEOREM WaitersKnown == Spec => []WaitersExact
BY Invariance, PTL DEF IInv

\* The direct call of a waiter's handler in unlock, and the posted one in
\* async_lock, never resume a fiber twice or while it runs.
THEOREM NoFiberResumedTwice == Spec => []SingleFrame
BY Invariance, PTL DEF IInv

\* unique_mutex_t passes from owner to waiters in the order of their arrival.
THEOREM ArrivalOrder == Spec => NoBarging
<1> USE DEF TypeOK
<1>1. ASSUME IInv, [Next]_vars, mutex.waiters_ # <<>>
      PROVE  Owners' = Owners \/ Owners' = {Head(mutex.waiters_)}
  <2>0. mutex.locked_
    BY <1>1 DEF IInv, NoLostWakeup
  <2>1. ASSUME NEW t \in Threads, NEW f \in Fibers, AsyncLock(t, f)
        PROVE  Owners' = Owners
    BY <1>1, <2>0, <2>1 DEF AsyncLock, Owners, IInv
  <2>2. ASSUME NEW t \in Threads, NEW f \in Fibers, Unlock(t, f)
        PROVE  Owners' = {Head(mutex.waiters_)}
    <3> DEFINE g == Head(mutex.waiters_)
    <3>1. g \in Fibers /\ pc' = [pc EXCEPT ![f] = "outside", ![g] = "critical"]
      BY <1>1, <2>2, HandOffProperties DEF IInv, Unlock, FirstWaiter
    <3>2. Owners = {f} /\ pc[f] = "critical"
      BY <1>1, <2>2 DEF Unlock, IInv, MutualExclusion, Owners
    <3> HIDE DEF g
    <3>3. Owners' = {g}
      BY <1>1, <3>1, <3>2 DEF Owners, IInv
    <3>4. QED
      BY <3>3 DEF g
  <2>3. ASSUME NEW t \in Threads, NEW f \in Fibers, Dispatch(t, f)
        PROVE  Owners' = Owners
    BY <1>1, <2>3 DEF Dispatch, Owners, IInv
  <2>4. ASSUME NEW t \in Threads, NEW f \in Fibers, Await(t, f)
        PROVE  Owners' = Owners
    BY <2>4 DEF Await, Owners
  <2>5. ASSUME NEW f \in Fibers, Complete(f)
        PROVE  Owners' = Owners
    BY <2>5 DEF Complete, Owners
  <2>6. CASE UNCHANGED vars
    BY <2>6 DEF vars, Owners
  <2>7. QED
    BY <1>1, <2>1, <2>2, <2>3, <2>4, <2>5, <2>6 DEF Next
<1>2. IInv /\ [Next]_vars =>
          [mutex.waiters_ # <<>> =>
              Owners' = Owners \/ Owners' = {Head(mutex.waiters_)}]_vars
  BY <1>1
<1>3. QED
  BY <1>2, Invariance, PTL DEF Spec, NoBarging
=============================================================================
