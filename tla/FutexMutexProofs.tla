--------------------------- MODULE FutexMutexProofs ---------------------------
(***************************************************************************)
(* The futex mutex implements a lock, loses no wakeup and reports poison,  *)
(* for any set of threads and any number of calls.                         *)
(***************************************************************************)
EXTENDS FutexMutex, TLAPS

\* The word is UNLOCKED exactly when nobody owns the lock, at most one does, and
\* a wakeup is under way for sleepers whose lock is not marked.
LockInv ==
  /\ \A s, t \in Threads : Owns(s) /\ Owns(t) => s = t
  /\ futex = UNLOCKED <=> \A t \in Threads : ~Owns(t)
  /\ SleepersRemembered

\* Poison: whoever cut a section short and has dropped its guard has set the flag;
\* a thread does not stop panicking.
PoisonInv ==
  /\ torn => failed \/ \E t \in Threads : CutShort(t)
  /\ \A t \in Threads : guard[t] => panicking[t]

IInv == TypeOK /\ LockInv /\ PoisonInv /\ PoisonSeen

LEMMA Typed == IInv /\ [Next]_vars => TypeOK'
<1> SUFFICES ASSUME TypeOK, [Next]_vars PROVE TypeOK'
  BY DEF IInv
<1> USE MutexAssumption DEF TypeOK, PC, UNLOCKED, LOCKED, CONTENDED, Goto, poison
<1>1. ASSUME NEW t \in Threads, lock(t) \/ try_lock(t) PROVE TypeOK'
  BY <1>1 DEF lock, try_lock, Call, Exchange
<1>2. ASSUME NEW t \in Threads, Spin(t) PROVE TypeOK'
  BY <1>2 DEF Spin, LoopWith
<1>3. ASSUME NEW t \in Threads, Cas(t) PROVE TypeOK'
  BY <1>3 DEF Cas, Exchange, LoopWith
<1>4. ASSUME NEW t \in Threads, Mark(t) PROVE TypeOK'
  BY <1>4 DEF Mark, Swapped, Marked
<1>5. ASSUME NEW t \in Threads, FutexWait(t) \/ Interrupt(t) PROVE TypeOK'
  BY <1>5 DEF FutexWait, Interrupt
<1>6. ASSUME NEW t \in Threads, unlock(t) PROVE TypeOK'
  BY <1>6 DEF unlock, Released
<1>7. ASSUME NEW t \in Threads, Wake(t) PROVE TypeOK'
  BY <1>7 DEF Wake, Asleep
<1>8. ASSUME NEW t \in Threads, NewGuard(t) PROVE TypeOK'
  BY <1>8 DEF NewGuard
<1>9. ASSUME NEW t \in Threads, Panic(t) PROVE TypeOK'
  BY <1>9 DEF Panic
<1>10. ASSUME NEW t \in Threads, DropGuard(t) PROVE TypeOK'
  BY <1>10 DEF DropGuard, done
<1>11. CASE clear_poison
  BY <1>11 DEF clear_poison
<1>12. CASE UNCHANGED vars
  BY <1>12 DEF vars
<1> QED
  BY <1>1, <1>2, <1>3, <1>4, <1>5, <1>6, <1>7, <1>8, <1>9, <1>10, <1>11, <1>12
     DEF Next, Step, Over

LEMMA LockKept == IInv /\ [Next]_vars => LockInv'
<1> SUFFICES ASSUME TypeOK, LockInv, [Next]_vars PROVE LockInv'
  BY DEF IInv
<1> USE MutexAssumption
    DEF TypeOK, LockInv, Owns, SleepersRemembered, Asleep, Goto,
        UNLOCKED, LOCKED, CONTENDED
<1>1. ASSUME NEW t \in Threads, lock(t) \/ try_lock(t) PROVE LockInv'
  BY <1>1 DEF lock, try_lock, Call, Exchange
<1>2. ASSUME NEW t \in Threads, Spin(t) PROVE LockInv'
  BY <1>2 DEF Spin, LoopWith
<1>3. ASSUME NEW t \in Threads, Cas(t) PROVE LockInv'
  BY <1>3 DEF Cas, Exchange, LoopWith
<1>4. ASSUME NEW t \in Threads, Mark(t) PROVE LockInv'
  BY <1>4 DEF Mark, Swapped, Marked
<1>5. ASSUME NEW t \in Threads, FutexWait(t) \/ Interrupt(t) PROVE LockInv'
  BY <1>5 DEF FutexWait, Interrupt
<1>6. ASSUME NEW t \in Threads, unlock(t) PROVE LockInv'
  BY <1>6 DEF unlock, Released
<1>7. ASSUME NEW t \in Threads, Wake(t) PROVE LockInv'
  BY <1>7 DEF Wake
<1>8. ASSUME NEW t \in Threads, NewGuard(t) PROVE LockInv'
  BY <1>8 DEF NewGuard
<1>9. ASSUME NEW t \in Threads, Panic(t) PROVE LockInv'
  BY <1>9 DEF Panic
<1>10. ASSUME NEW t \in Threads, DropGuard(t) PROVE LockInv'
  BY <1>10 DEF DropGuard
<1>11. CASE clear_poison
  BY <1>11 DEF clear_poison
<1>12. CASE UNCHANGED vars
  BY <1>12 DEF vars
<1> QED
  BY <1>1, <1>2, <1>3, <1>4, <1>5, <1>6, <1>7, <1>8, <1>9, <1>10, <1>11, <1>12
     DEF Next, Step, Over

LEMMA PoisonKept == IInv /\ [Next]_vars => PoisonInv' /\ PoisonSeen'
<1> SUFFICES ASSUME IInv, [Next]_vars PROVE PoisonInv' /\ PoisonSeen'
  OBVIOUS
<1> USE MutexAssumption
    DEF IInv, TypeOK, LockInv, Owns, PoisonInv, PoisonSeen, CutShort, Goto, poison
<1>1. ASSUME NEW t \in Threads, lock(t) \/ try_lock(t) PROVE PoisonInv' /\ PoisonSeen'
  BY <1>1 DEF lock, try_lock, Call, Exchange
<1>2. ASSUME NEW t \in Threads, Spin(t) PROVE PoisonInv' /\ PoisonSeen'
  BY <1>2 DEF Spin, LoopWith
<1>3. ASSUME NEW t \in Threads, Cas(t) PROVE PoisonInv' /\ PoisonSeen'
  BY <1>3 DEF Cas, Exchange, LoopWith
<1>4. ASSUME NEW t \in Threads, Mark(t) PROVE PoisonInv' /\ PoisonSeen'
  BY <1>4 DEF Mark, Swapped, Marked
<1>5. ASSUME NEW t \in Threads, FutexWait(t) \/ Interrupt(t)
      PROVE PoisonInv' /\ PoisonSeen'
  BY <1>5 DEF FutexWait, Interrupt
<1>6. ASSUME NEW t \in Threads, unlock(t) PROVE PoisonInv' /\ PoisonSeen'
  BY <1>6 DEF unlock, Released
<1>7. ASSUME NEW t \in Threads, Wake(t) PROVE PoisonInv' /\ PoisonSeen'
  BY <1>7 DEF Wake, Asleep
<1>8. ASSUME NEW t \in Threads, NewGuard(t) PROVE PoisonInv' /\ PoisonSeen'
  BY <1>8 DEF NewGuard
<1>9. ASSUME NEW t \in Threads, Panic(t) PROVE PoisonInv' /\ PoisonSeen'
  <2>1. CASE pc[t] = "held"
    BY <1>9, <2>1 DEF Panic
  <2>2. CASE pc[t] = "idle"
    BY <1>9, <2>2 DEF Panic
  <2> QED
    BY <1>9, <2>1, <2>2 DEF Panic
<1>10. ASSUME NEW t \in Threads, DropGuard(t) PROVE PoisonInv' /\ PoisonSeen'
  BY <1>10 DEF DropGuard, done
<1>11. CASE clear_poison
  BY <1>11 DEF clear_poison
<1>12. CASE UNCHANGED vars
  BY <1>12 DEF vars
<1> QED
  BY <1>1, <1>2, <1>3, <1>4, <1>5, <1>6, <1>7, <1>8, <1>9, <1>10, <1>11, <1>12
     DEF Next, Step, Over

LEMMA Initially == Init => IInv
<1> SUFFICES ASSUME Init PROVE IInv
  OBVIOUS
<1>1. TypeOK
  BY DEF Init, TypeOK, PC
<1>2. LockInv
  BY DEF Init, LockInv, Owns, SleepersRemembered, Asleep
<1>3. PoisonInv /\ PoisonSeen
  BY DEF Init, PoisonInv, PoisonSeen
<1> QED
  BY <1>1, <1>2, <1>3 DEF IInv

LEMMA MutexInvariant == Spec => []IInv
<1>1. IInv /\ [Next]_vars => IInv'
  BY Typed, LockKept, PoisonKept DEF IInv
<1> QED
  BY <1>1, Initially, PTL DEF Spec

\* The lock word has one of its three values.
THEOREM MutexTyped == Spec => []TypeOK
BY MutexInvariant, PTL DEF IInv

\* No wakeup is lost, for any number of threads.
THEOREM NoWakeupLost == Spec => []SleepersRemembered
BY MutexInvariant, PTL DEF IInv, LockInv

\* A panic in a critical section is known to whoever enters next.
THEOREM PoisonIsSeen == Spec => []PoisonSeen
BY MutexInvariant, PTL DEF IInv

-----------------------------------------------------------------------------
(***************************************************************************)
(* Refinement                                                              *)
(***************************************************************************)
LEMMA OwnerIs ==
  ASSUME LockInv
  PROVE  /\ \A t \in Threads : Owns(t) => Owner = t
         /\ (\A t \in Threads : ~Owns(t)) => Owner = None
BY DEF LockInv, Owner

LEMMA OwnerNext ==
  ASSUME LockInv'
  PROVE  /\ \A t \in Threads : Owns(t)' => Owner' = t
         /\ (\A t \in Threads : ~Owns(t)') => Owner' = None
BY DEF LockInv, Owner

\* A step that leaves every thread's ownership as it was
LEMMA OwnerSame ==
  ASSUME LockInv, LockInv', \A t \in Threads : Owns(t)' = Owns(t)
  PROVE  Owner' = Owner
<1>1. CASE \E t \in Threads : Owns(t)
  BY <1>1, OwnerIs, OwnerNext
<1>2. CASE \A t \in Threads : ~Owns(t)
  BY <1>2, OwnerIs, OwnerNext
<1> QED
  BY <1>1, <1>2

\* The mutex implements the abstract lock: its word changes hands only between
\* one owner and none.
THEOREM MutexImplementsLock == Spec => ImplementsLock
<1>1. Init => Abstract!Init
  BY OwnerIs, Initially DEF Init, Abstract!Init, Owns, IInv
<1>2. IInv /\ IInv' /\ [Next]_vars => [Abstract!Next]_<<Owner, {}>>
  <2> SUFFICES ASSUME IInv, IInv', [Next]_vars
               PROVE  Owner' = Owner \/ Abstract!Next
    BY DEF Abstract!Next
  <2> USE DEF IInv
  <2>1. ASSUME NEW t \in Threads, ~Owns(t), Owns(t)', futex = UNLOCKED
        PROVE  Abstract!Next
    BY <2>1, OwnerIs, OwnerNext DEF LockInv, Abstract!Next, Abstract!Write
  <2>2. ASSUME NEW t \in Threads, unlock(t) PROVE Abstract!Next
    <3>1. Owns(t) /\ futex' = UNLOCKED
      BY <2>2 DEF unlock, Owns
    <3>2. Owner = t /\ Owner' = None
      BY <3>1, OwnerIs, OwnerNext DEF LockInv
    <3> QED
      BY <3>2 DEF Abstract!Next, Abstract!WriteUnlock
  <2>3. ASSUME NEW t \in Threads,
               lock(t) \/ try_lock(t) \/ Cas(t) \/ Mark(t)
        PROVE  Owner' = Owner \/ Abstract!Next
    <3>1. CASE futex = UNLOCKED
      <4>1. ~Owns(t) /\ Owns(t)'
        BY <2>3, <3>1 DEF lock, try_lock, Cas, Mark, Call, Exchange, Marked, Goto,
                          Owns, TypeOK, UNLOCKED
      <4> QED
        BY <2>1, <3>1, <4>1
    <3>2. CASE futex # UNLOCKED
      <4>1. \A s \in Threads : Owns(s)' = Owns(s)
        BY <2>3, <3>2 DEF lock, try_lock, Cas, Mark, Call, Exchange, Marked, Goto,
                          LoopWith, Owns, TypeOK
      <4> QED
        BY <4>1, OwnerSame
    <3> QED
      BY <3>1, <3>2
  <2>4. ASSUME NEW t \in Threads,
               \/ Spin(t) \/ FutexWait(t) \/ Interrupt(t) \/ Wake(t)
               \/ NewGuard(t) \/ Panic(t) \/ DropGuard(t)
        PROVE  Owner' = Owner
    <3>1. \A s \in Threads : Owns(s)' = Owns(s)
      BY <2>4 DEF Spin, FutexWait, Interrupt, Wake, NewGuard, Panic, DropGuard, Goto,
                  LoopWith, Asleep, Owns, TypeOK
    <3> QED
      BY <3>1, OwnerSame
  <2>5. CASE clear_poison \/ UNCHANGED vars
    <3>1. pc' = pc
      BY <2>5 DEF clear_poison, vars
    <3> QED
      BY <3>1 DEF Owner, Owns
  <2> QED
    BY <2>2, <2>3, <2>4, <2>5 DEF Next, Step, Over
<1> QED
  BY <1>1, <1>2, MutexInvariant, PTL DEF Spec, ImplementsLock, Abstract!Spec
=============================================================================
