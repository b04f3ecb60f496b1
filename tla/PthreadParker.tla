----------------------------- MODULE PthreadParker -----------------------------
(***************************************************************************)
(* The parker of library/std/src/sys/sync/thread_parking/pthread.rs, for   *)
(* systems without a futex: an atomic state, and a pthread mutex and       *)
(* condition variable to sleep on.                                         *)
(***************************************************************************)
EXTENDS Naturals

CONSTANTS Owner,       \* the thread that parks
          Others,      \* the threads that call unpark
          None,
          MaxCalls     \* bound: calls of park, and of unpark by each thread

VARIABLES
  state,       \* EMPTY, PARKED or NOTIFIED
  mutex,       \* who has the mutex
  pc,          \* where each thread is
  timed,       \* the owner's call is park_timeout
  calls        \* calls begun by each thread

vars == <<state, mutex, pc, timed, calls>>

Parties == Others \cup {Owner}

OwnerPC == {"fast", "lock", "cas", "swap", "wait", "asleep", "relock", "check", "unlock",
            "panicked"}

TypeOK == /\ state \in {"EMPTY", "PARKED", "NOTIFIED"}
          /\ mutex \in Parties \cup {None}
          /\ pc \in [Parties -> {"out"} \cup OwnerPC \cup {"call", "touch", "release", "signal"}]
          /\ timed \in BOOLEAN
          /\ calls \in [Parties -> 0..MaxCalls]
          /\ mutex = Owner <=> pc[Owner] \in {"cas", "swap", "wait", "check", "unlock"}

Init == /\ state = "EMPTY" /\ mutex = None
        /\ pc = [t \in Parties |-> "out"]
        /\ timed = FALSE
        /\ calls = [t \in Parties |-> 0]

At(t, here, there) == pc[t] = here /\ pc' = [pc EXCEPT ![t] = there]

Acquire(t, here, there) == /\ At(t, here, there)
                           /\ mutex = None /\ mutex' = t
                           /\ UNCHANGED <<state, timed, calls>>

Release(t, here, there) == /\ At(t, here, there)
                           /\ mutex' = None
                           /\ UNCHANGED <<state, timed, calls>>

-----------------------------------------------------------------------------
Call == /\ calls[Owner] < MaxCalls
        /\ At(Owner, "out", "fast")
        /\ timed' \in BOOLEAN
        /\ calls' = [calls EXCEPT ![Owner] = @ + 1]
        /\ UNCHANGED <<state, mutex>>

Fast == /\ At(Owner, "fast", IF state = "NOTIFIED" THEN "out" ELSE "lock")
        /\ state' = IF state = "NOTIFIED" THEN "EMPTY" ELSE state
        /\ UNCHANGED <<mutex, timed, calls>>

\* compare_exchange(EMPTY, PARKED)
Cas == /\ At(Owner, "cas", CASE state = "EMPTY" -> "wait"
                             [] state = "NOTIFIED" -> "swap"
                             [] state = "PARKED" -> "panicked")
       /\ state' = IF state = "EMPTY" THEN "PARKED" ELSE state
       /\ UNCHANGED <<mutex, timed, calls>>

\* The notification came in between: swap(EMPTY), and check what it was.
Swap == /\ At(Owner, "swap", IF state = "NOTIFIED" THEN "unlock" ELSE "panicked")
        /\ state' = "EMPTY"
        /\ UNCHANGED <<mutex, timed, calls>>

\* pthread_cond_wait gives up the mutex and sleeps in one step.
Wait == Release(Owner, "wait", "asleep")

\* It also comes back on its own: spuriously, or when the time is over.
Stir == At(Owner, "asleep", "relock") /\ UNCHANGED <<state, mutex, timed, calls>>

Check == /\ IF timed THEN At(Owner, "check", IF state = "EMPTY" THEN "panicked" ELSE "unlock")
                     ELSE At(Owner, "check", IF state = "NOTIFIED" THEN "unlock" ELSE "wait")
         /\ state' = IF timed \/ state = "NOTIFIED" THEN "EMPTY" ELSE state
         /\ UNCHANGED <<mutex, timed, calls>>

OwnerStep == \/ Fast \/ Cas \/ Swap \/ Wait \/ Check
             \/ Acquire(Owner, "lock", "cas") \/ Acquire(Owner, "relock", "check")
             \/ Release(Owner, "unlock", "out")

-----------------------------------------------------------------------------
\* Faulty: unpark signals at once, without passing through the mutex.
WakeFrom_Signal == "signal"

WakeFrom == "touch"

unpark(u) == /\ calls[u] < MaxCalls
             /\ At(u, "out", IF state = "PARKED" THEN WakeFrom ELSE "out")
             /\ state' = "NOTIFIED"
             /\ calls' = [calls EXCEPT ![u] = @ + 1]
             /\ UNCHANGED <<mutex, timed>>

Signal(u) ==
  /\ pc[u] = "signal"
  /\ pc' = [pc EXCEPT ![u] = "out", ![Owner] = IF @ = "asleep" THEN "relock" ELSE @]
  /\ UNCHANGED <<state, mutex, timed, calls>>

OtherStep(u) == Acquire(u, "touch", "release") \/ Release(u, "release", "signal") \/ Signal(u)

Over == /\ pc[Owner] = "asleep" \/ (pc[Owner] = "out" /\ calls[Owner] = MaxCalls)
        /\ \A u \in Others : pc[u] = "out" /\ calls[u] = MaxCalls
        /\ UNCHANGED vars

Next == \/ Call \/ OwnerStep \/ Stir
        \/ \E u \in Others : unpark(u) \/ OtherStep(u)
        \/ Over

Spec == /\ Init /\ [][Next]_vars
        /\ WF_vars(OwnerStep) /\ \A u \in Others : WF_vars(OtherStep(u))

-----------------------------------------------------------------------------
(***************************************************************************)
(* Properties                                                              *)
(***************************************************************************)
\* None of the panics of park and park_timeout ("inconsistent park state", "park
\* state changed unexpectedly") is reached, whatever unpark does in between.
Consistent == pc[Owner] # "panicked"

\* The token is taken when the state leaves NOTIFIED; park returns after that.
Token == state = "NOTIFIED"
Parked == pc[Owner] \notin {"out", "unlock"}
=============================================================================
