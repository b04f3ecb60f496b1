------------------------------ MODULE FutexParker ------------------------------
(***************************************************************************)
(* The parker of library/std/src/sys/sync/thread_parking/futex.rs: one     *)
(* thread parks, others unpark it.                                         *)
(***************************************************************************)
EXTENDS Naturals

CONSTANTS Others,      \* the threads that call unpark
          Width,       \* width of state: 32 or 8 in the code
          MaxCalls     \* bound: calls of park, and of unpark by each thread

VARIABLES
  state,       \* the futex word
  pc,          \* where the owner is
  timed,       \* its call is park_timeout
  waking,      \* the threads between the swap and the futex_wake of unpark
  parks,       \* calls so far
  unparks

vars == <<state, pc, timed, waking, parks, unparks>>

PARKED == 2^Width - 1
EMPTY == 0
NOTIFIED == 1

TypeOK == /\ state \in {PARKED, EMPTY, NOTIFIED}
          /\ pc \in {"out", "called", "wait", "asleep", "check"}
          /\ timed \in BOOLEAN
          /\ waking \subseteq Others
          /\ parks \in 0..MaxCalls
          /\ unparks \in [Others -> 0..MaxCalls]

Init == /\ state = EMPTY
        /\ pc = "out" /\ timed = FALSE
        /\ waking = {}
        /\ parks = 0 /\ unparks = [u \in Others |-> 0]

Call == /\ pc = "out" /\ parks < MaxCalls
        /\ pc' = "called"
        /\ timed' \in BOOLEAN
        /\ parks' = parks + 1
        /\ UNCHANGED <<state, waking, unparks>>

\* state.fetch_sub(1) == NOTIFIED
FetchSub == /\ pc = "called"
            /\ state' = (state + 2^Width - 1) % 2^Width
            /\ pc' = IF state = NOTIFIED THEN "out" ELSE "wait"
            /\ UNCHANGED <<timed, waking, parks, unparks>>

\* futex_wait(&self.state, PARKED, ..)
FutexWait == /\ pc = "wait"
             /\ pc' = IF state = PARKED THEN "asleep" ELSE "check"
             /\ UNCHANGED <<state, timed, waking, parks, unparks>>

\* The sleep ends by itself: a timeout, a signal, a spurious wakeup.
Stir == /\ pc = "asleep"
        /\ pc' = "check"
        /\ UNCHANGED <<state, timed, waking, parks, unparks>>

\* park: NOTIFIED => EMPTY, or sleep again
CheckPark == /\ pc = "check" /\ ~timed
             /\ \/ /\ state = NOTIFIED
                   /\ state' = EMPTY /\ pc' = "out"
                \/ /\ state # NOTIFIED
                   /\ pc' = "wait" /\ UNCHANGED state
             /\ UNCHANGED <<timed, waking, parks, unparks>>

\* Faulty: an expired park_timeout leaves the word as it is.
Cleared_Kept(word) == IF word = NOTIFIED THEN EMPTY ELSE word

Cleared(word) == EMPTY

\* park_timeout: swap(EMPTY), and return either way
CheckTimed == /\ pc = "check" /\ timed
              /\ state' = Cleared(state)
              /\ pc' = "out"
              /\ UNCHANGED <<timed, waking, parks, unparks>>

\* Faulty: the owner is woken when the token was there before.
MustWake_Notified(word) == word = NOTIFIED

MustWake(word) == word = PARKED

unpark(u) == /\ u \notin waking /\ unparks[u] < MaxCalls
             /\ state' = NOTIFIED
             /\ waking' = IF MustWake(state) THEN waking \cup {u} ELSE waking
             /\ unparks' = [unparks EXCEPT ![u] = @ + 1]
             /\ UNCHANGED <<pc, timed, parks>>

FutexWake(u) == /\ u \in waking
                /\ waking' = waking \ {u}
                /\ pc' = IF pc = "asleep" THEN "check" ELSE pc
                /\ UNCHANGED <<state, timed, parks, unparks>>

Owner == FetchSub \/ FutexWait \/ CheckPark \/ CheckTimed

Over == /\ pc \in {"out", "asleep"} /\ (pc = "out" => parks = MaxCalls)
        /\ waking = {} /\ \A u \in Others : unparks[u] = MaxCalls
        /\ UNCHANGED vars

Next == \/ Call \/ Owner \/ Stir
        \/ \E u \in Others : unpark(u) \/ FutexWake(u)
        \/ Over

Spec == /\ Init /\ [][Next]_vars
        /\ WF_vars(Owner) /\ \A u \in Others : WF_vars(FutexWake(u))

-----------------------------------------------------------------------------
(***************************************************************************)
(* Properties                                                              *)
(***************************************************************************)
\* "Assumes this is only called by the thread that owns the Parker, which means
\* that `self.state != PARKED`": no call leaves the word at PARKED behind.
NotLeftParked == pc \in {"out", "called"} => state # PARKED

\* What the parker is to ParkSpec
Token == state = NOTIFIED
Parked == pc # "out"
=============================================================================
