-------------------------------- MODULE Condvar --------------------------------
(***************************************************************************)
(* The condition variable of library/std/src/sys/sync/condvar/futex.rs: a  *)
(* counter of notifications that waiting threads sleep on.  The mutex is   *)
(* the abstract lock that FutexMutex implements.  This module has the      *)
(* calls; a program that uses a condition variable extends it.             *)
(***************************************************************************)
EXTENDS Naturals

CONSTANTS Threads,
          None,
          Width        \* width of the counter: 32 in the code

VARIABLES
  owner,       \* who has the mutex
  futex,       \* the counter of notifications
  pc,          \* where each thread is
  value        \* futex_value, read by each waiter

condvar == <<owner, futex, pc, value>>

CondvarPC == {"wait", "wait_unlock", "wait_futex", "asleep", "wait_lock", "waited",
              "notify_one", "notify_all", "wake_one", "wake_all", "notified"}

Mutex == INSTANCE LockSpec WITH writer <- owner, readers <- {}

CondvarInit == /\ owner = None
               /\ futex = 0
               /\ value = [t \in Threads |-> 0]

Goto(t, place) == pc' = [pc EXCEPT ![t] = place]
At(t, here, there) == pc[t] = here /\ Goto(t, there)

Lock(t, here, there) == /\ At(t, here, there)
                        /\ Mutex!Write(t)
                        /\ UNCHANGED <<futex, value>>

Unlock(t, here, there) == /\ At(t, here, there)
                          /\ Mutex!WriteUnlock(t)
                          /\ UNCHANGED <<futex, value>>

-----------------------------------------------------------------------------
(***************************************************************************)
(* wait_optional_timeout                                                   *)
(***************************************************************************)
\* Examine the notification counter _before_ we unlock the mutex.
WaitLoad(t) == /\ At(t, "wait", "wait_unlock")
               /\ value' = [value EXCEPT ![t] = futex]
               /\ UNCHANGED <<owner, futex>>

WaitUnlock(t) == Unlock(t, "wait_unlock", "wait_futex")

\* Faulty: the sleep does not depend on the counter.
Unchanged_Blind(t) == TRUE

Unchanged(t) == futex = value[t]

\* futex_wait(&self.futex, futex_value, timeout)
WaitFutex(t) == /\ At(t, "wait_futex", IF Unchanged(t) THEN "asleep" ELSE "wait_lock")
                /\ UNCHANGED <<owner, futex, value>>

WaitLock(t) == Lock(t, "wait_lock", "waited")

\* A signal ends the sleep; futex_wait compares again.
Interrupt(t) == At(t, "asleep", "wait_futex") /\ UNCHANGED <<owner, futex, value>>

\* The timeout of wait_timeout ends the sleep for good.
Timeout(t) == At(t, "asleep", "wait_lock") /\ UNCHANGED <<owner, futex, value>>

-----------------------------------------------------------------------------
(***************************************************************************)
(* notify_one and notify_all: fetch_add(1), then the wakeup                *)
(***************************************************************************)
Asleep == {t \in Threads : pc[t] = "asleep"}

NotifyAdd(t) ==
  /\ \/ At(t, "notify_one", "wake_one")
     \/ At(t, "notify_all", "wake_all")
  /\ futex' = (futex + 1) % 2^Width
  /\ UNCHANGED <<owner, value>>

WakeOne(t) ==
  /\ pc[t] = "wake_one"
  /\ \/ Asleep = {} /\ Goto(t, "notified")
     \/ \E s \in Asleep : pc' = [pc EXCEPT ![t] = "notified", ![s] = "wait_lock"]
  /\ UNCHANGED <<owner, futex, value>>

WakeAll(t) ==
  /\ pc[t] = "wake_all"
  /\ pc' = [s \in Threads |-> IF s = t THEN "notified"
                              ELSE IF s \in Asleep THEN "wait_lock" ELSE pc[s]]
  /\ UNCHANGED <<owner, futex, value>>

CondvarStep(t) == \/ WaitLoad(t) \/ WaitUnlock(t) \/ WaitFutex(t) \/ WaitLock(t)
                  \/ NotifyAdd(t) \/ WakeOne(t) \/ WakeAll(t)
=============================================================================
