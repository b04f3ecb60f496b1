------------------------------ MODULE FutexMutex ------------------------------
(***************************************************************************)
(* std::sync::Mutex on a futex: the three-state lock word of               *)
(* library/std/src/sys/sync/mutex/futex.rs and the poison flag that        *)
(* library/std/src/sync/mutex.rs keeps beside it.  The threads lock,       *)
(* try_lock and unlock; each may panic once, also while it holds the lock, *)
(* and goes on locking in the destructors that unwinding runs.             *)
(***************************************************************************)
EXTENDS Naturals

CONSTANTS Threads,
          None,
          Panicky,     \* the threads that may panic
          MaxCalls     \* bound: calls of lock and try_lock by each thread

ASSUME MutexAssumption ==
  /\ None \notin Threads
  /\ Panicky \subseteq Threads
  /\ MaxCalls \in Nat

UNLOCKED  == 0
LOCKED    == 1
CONTENDED == 2

VARIABLES
  futex,       \* the lock word
  pc,          \* where each thread is
  calls,       \* calls made
  failed,      \* the poison flag
  panicking,   \* thread::panicking() of each thread
  guard,       \* poison::Guard: what panicking() was when the lock was taken
  saw,         \* did lock return Err(Poisoned)?
  torn         \* history: a critical section was cut short by a panic

poison == <<failed, panicking, guard, saw, torn>>
vars == <<futex, pc, calls, poison>>

PC == {"idle", "spin", "cas", "mark", "wait", "asleep", "spin_again",
       "locked", "held", "unlock", "wake"}

TypeOK ==
  /\ futex \in {UNLOCKED, LOCKED, CONTENDED}
  /\ pc \in [Threads -> PC]
  /\ calls \in [Threads -> Nat]
  /\ failed \in BOOLEAN /\ torn \in BOOLEAN
  /\ panicking \in [Threads -> BOOLEAN]
  /\ guard \in [Threads -> BOOLEAN]
  /\ saw \in [Threads -> BOOLEAN]

Init ==
  /\ futex = UNLOCKED
  /\ pc = [t \in Threads |-> "idle"]
  /\ calls = [t \in Threads |-> 0]
  /\ failed = FALSE /\ torn = FALSE
  /\ panicking = [t \in Threads |-> FALSE]
  /\ guard = [t \in Threads |-> FALSE]
  /\ saw = [t \in Threads |-> FALSE]

-----------------------------------------------------------------------------
(***************************************************************************)
(* The lock word                                                           *)
(***************************************************************************)
Goto(t, place) == pc' = [pc EXCEPT ![t] = place]

Call(t) == /\ pc[t] = "idle"
           /\ calls[t] < MaxCalls
           /\ calls' = [calls EXCEPT ![t] = @ + 1]

\* compare_exchange(UNLOCKED, LOCKED)
Exchange(t, otherwise) ==
  \/ futex = UNLOCKED /\ futex' = LOCKED /\ Goto(t, "locked")
  \/ futex # UNLOCKED /\ UNCHANGED futex /\ Goto(t, otherwise)

lock(t) == Call(t) /\ Exchange(t, "spin") /\ UNCHANGED poison

try_lock(t) == Call(t) /\ Exchange(t, "idle") /\ UNCHANGED poison

\* The loop of lock_contended, entered with the last value read.
LoopWith(state) == IF state = CONTENDED THEN "wait" ELSE "mark"

\* spin returns what it last loaded: UNLOCKED or CONTENDED at once, LOCKED when
\* the rounds are used up.
Spin(t) ==
  /\ pc[t] \in {"spin", "spin_again"}
  /\ Goto(t, IF pc[t] = "spin" /\ futex = UNLOCKED THEN "cas" ELSE LoopWith(futex))
  /\ UNCHANGED <<futex, calls, poison>>

\* lock_contended's one attempt to lock without marking the lock as contended
Cas(t) ==
  /\ pc[t] = "cas"
  /\ Exchange(t, LoopWith(futex))
  /\ UNCHANGED <<calls, poison>>

\* self.futex.swap(CONTENDED)
Swapped(old) == CONTENDED

\* Faulty: a thread that finds the lock LOCKED goes in as well.
Marked_Enters(old) == IF old = CONTENDED THEN "wait" ELSE "locked"

\* It was UNLOCKED: that has locked it.
Marked(old) == IF old = UNLOCKED THEN "locked" ELSE "wait"

Mark(t) ==
  /\ pc[t] = "mark"
  /\ futex' = Swapped(futex)
  /\ Goto(t, Marked(futex))
  /\ UNCHANGED <<calls, poison>>

\* futex_wait(&self.futex, CONTENDED, None): the kernel compares and sleeps.
FutexWait(t) ==
  /\ pc[t] = "wait"
  /\ Goto(t, IF futex = CONTENDED THEN "asleep" ELSE "spin_again")
  /\ UNCHANGED <<futex, calls, poison>>

\* A signal ends the sleep; futex_wait goes round its loop.
Interrupt(t) ==
  /\ pc[t] = "asleep"
  /\ Goto(t, "wait")
  /\ UNCHANGED <<futex, calls, poison>>

\* Faulty: nobody is woken.
Released_Silently(old) == "idle"

\* swap(UNLOCKED) == CONTENDED: wake
Released(old) == IF old = CONTENDED THEN "wake" ELSE "idle"

unlock(t) ==
  /\ pc[t] = "unlock"
  /\ futex' = UNLOCKED
  /\ Goto(t, Released(futex))
  /\ UNCHANGED <<calls, poison>>

Asleep == {t \in Threads : pc[t] = "asleep"}

\* futex_wake: one sleeper, if there is any, returns from futex_wait.
Wake(t) ==
  /\ pc[t] = "wake"
  /\ \/ Asleep = {} /\ Goto(t, "idle")
     \/ \E s \in Asleep : pc' = [pc EXCEPT ![t] = "idle", ![s] = "spin_again"]
  /\ UNCHANGED <<futex, calls, poison>>

-----------------------------------------------------------------------------
(***************************************************************************)
(* The poison flag                                                         *)
(***************************************************************************)
\* MutexGuard::new: poison.guard()
NewGuard(t) ==
  /\ pc[t] = "locked"
  /\ guard' = [guard EXCEPT ![t] = panicking[t]]
  /\ saw' = [saw EXCEPT ![t] = failed]
  /\ Goto(t, "held")
  /\ UNCHANGED <<futex, calls, failed, panicking, torn>>

\* The thread panics in the critical section of its guard.
CutShort(t) == pc[t] = "held" /\ panicking[t] /\ ~guard[t]

Panic(t) ==
  /\ pc[t] \in {"idle", "held"}
  /\ t \in Panicky /\ ~panicking[t]
  /\ panicking' = [panicking EXCEPT ![t] = TRUE]
  /\ torn' = (torn \/ pc[t] = "held")
  /\ UNCHANGED <<futex, pc, calls, failed, guard, saw>>

\* Faulty: the state of the thread is asked for only once.
done_Stale(t) == failed \/ guard[t]

\* poison::Flag::done: the panic began while the guard was there.
done(t) == failed \/ (~guard[t] /\ panicking[t])

\* Drop for MutexGuard, before it calls unlock
DropGuard(t) ==
  /\ pc[t] = "held"
  /\ failed' = done(t)
  /\ Goto(t, "unlock")
  /\ UNCHANGED <<futex, calls, panicking, guard, saw, torn>>

\* clear_poison, by anyone and at any time
clear_poison ==
  /\ failed
  /\ failed' = FALSE
  /\ torn' = \E t \in Threads : CutShort(t)
  /\ UNCHANGED <<futex, pc, calls, panicking, guard, saw>>

-----------------------------------------------------------------------------
\* What a thread does once it runs: everything but deciding to call and to panic.
Step(t) == \/ Spin(t) \/ Cas(t) \/ Mark(t) \/ FutexWait(t) \/ NewGuard(t)
           \/ DropGuard(t) \/ unlock(t) \/ Wake(t)

Over == /\ \A t \in Threads : pc[t] = "idle" /\ calls[t] = MaxCalls
        /\ UNCHANGED vars

Next == \/ \E t \in Threads : \/ Step(t) \/ lock(t) \/ try_lock(t)
                              \/ Interrupt(t) \/ Panic(t)
        \/ clear_poison \/ Over

\* A runnable thread is scheduled, and a critical section ends.
Spec == Init /\ [][Next]_vars /\ \A t \in Threads : WF_vars(Step(t))

-----------------------------------------------------------------------------
(***************************************************************************)
(* Properties                                                              *)
(***************************************************************************)
Owns(t) == pc[t] \in {"locked", "held", "unlock"}

Owner == IF \E t \in Threads : Owns(t) THEN CHOOSE t \in Threads : Owns(t) ELSE None

\* The mutex is a lock: whatever the three values of the word and the sleepers
\* do, a thread gets it only when no other has it.
Abstract == INSTANCE LockSpec WITH writer <- Owner, readers <- {}
ImplementsLock == Abstract!Spec

\* No wakeup is lost: while a thread sleeps, the lock is marked so that its owner
\* will wake one, or somebody is on the way to wake one or to set the mark again.
SleepersRemembered ==
  Asleep # {} => \/ futex = CONTENDED
                 \/ \E t \in Threads : pc[t] \in {"wake", "spin_again", "mark"}

\* A thread in the critical section knows whether an earlier one was cut short
\* by a panic: its lock call said so, unless the poison was cleared since.
PoisonSeen ==
  torn => \A t \in Threads : pc[t] = "held" /\ ~CutShort(t) => saw[t]

\* Every call has returned, and every critical section is over.
Settled == \A t \in Threads : pc[t] = "idle"
=============================================================================
