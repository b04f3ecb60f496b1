------------------------------- MODULE FutexOnce -------------------------------
(***************************************************************************)
(* std::sync::Once on a futex, library/std/src/sys/sync/once/futex.rs.     *)
(***************************************************************************)
EXTENDS Naturals

CONSTANTS Threads,
          None,
          MaxCalls     \* bound: calls by each thread

VARIABLES
  state_and_queued,    \* the futex word
  pc,                  \* where each thread is
  op,                  \* [name, force]: its call, and ignore_poisoning
  seen,                \* its local copy of state_and_queued
  calls

vars == <<state_and_queued, pc, op, seen, calls>>

INCOMPLETE == 0
POISONED == 1
RUNNING == 2
COMPLETE == 3
QUEUED == 4

State(word) == word % QUEUED
Queued(word) == word >= QUEUED

Ops == [name : {"call", "wait"}, force : BOOLEAN]
Closing == {INCOMPLETE, POISONED}

TypeOK == /\ state_and_queued \in 0..7
          /\ State(state_and_queued) = COMPLETE => ~Queued(state_and_queued)
          /\ pc \in [Threads -> {"idle", "look", "asleep", "load", "run", "wake"}]
          /\ op \in [Threads -> Ops]
          /\ seen \in [Threads -> 0..7]
          /\ calls \in [Threads -> 0..MaxCalls]

Init == /\ state_and_queued = INCOMPLETE
        /\ pc = [t \in Threads |-> "idle"]
        /\ op = [t \in Threads |-> [name |-> "call", force |-> FALSE]]
        /\ seen = [t \in Threads |-> INCOMPLETE]
        /\ calls = [t \in Threads |-> 0]

Goto(t, place) == pc' = [pc EXCEPT ![t] = place]
See(t, word) == seen' = [seen EXCEPT ![t] = word]

-----------------------------------------------------------------------------
\* call_once, call_once_force, wait and wait_force
Call(t) == /\ pc[t] = "idle" /\ calls[t] < MaxCalls
           /\ \E o \in Ops : op' = [op EXCEPT ![t] = o]
           /\ calls' = [calls EXCEPT ![t] = @ + 1]
           /\ Goto(t, "load")
           /\ UNCHANGED <<state_and_queued, seen>>

Load(t) == /\ pc[t] = "load"
           /\ See(t, state_and_queued)
           /\ Goto(t, "look")
           /\ UNCHANGED <<state_and_queued, op, calls>>

\* Faulty: poisoning is never looked at.
Refused_Never(t) == FALSE

Refused(t) == State(seen[t]) = POISONED /\ ~op[t].force

\* COMPLETE => return; POISONED => panic
Leave(t) == /\ pc[t] = "look"
            /\ State(seen[t]) = COMPLETE \/ Refused(t)
            /\ Goto(t, "idle")
            /\ UNCHANGED <<state_and_queued, op, seen, calls>>

MayRun(t) == /\ op[t].name = "call"
             /\ State(seen[t]) \in Closing /\ ~Refused(t)

Claimed(word) == RUNNING + IF Queued(word) THEN QUEUED ELSE 0
Same(t) == state_and_queued = seen[t]

\* compare_exchange_weak(state_and_queued, next)
Claim(t) ==
  /\ pc[t] = "look" /\ MayRun(t)
  /\ IF Same(t) THEN /\ state_and_queued' = Claimed(seen[t])
                     /\ Goto(t, "run") /\ UNCHANGED seen
     ELSE See(t, state_and_queued) /\ UNCHANGED <<state_and_queued, pc>>
  /\ UNCHANGED <<op, calls>>

MustWait(t) == State(seen[t]) # COMPLETE /\ ~Refused(t) /\ ~MayRun(t)

\* compare_exchange_weak(state, state + QUEUED)
Queue(t) ==
  /\ pc[t] = "look" /\ MustWait(t) /\ ~Queued(seen[t])
  /\ IF Same(t)
     THEN state_and_queued' = seen[t] + QUEUED /\ See(t, seen[t] + QUEUED)
     ELSE See(t, state_and_queued) /\ UNCHANGED state_and_queued
  /\ UNCHANGED <<pc, op, calls>>

FutexWait(t) ==
  /\ pc[t] = "look" /\ MustWait(t) /\ Queued(seen[t])
  /\ Goto(t, IF state_and_queued = seen[t] THEN "asleep" ELSE "load")
  /\ UNCHANGED <<state_and_queued, op, seen, calls>>

\* The closure returns, calls OnceState::poison, or panics; CompletionGuard is
\* dropped.
Run(t) ==
  /\ pc[t] = "run"
  /\ state_and_queued' \in {COMPLETE, POISONED}
  /\ Goto(t, IF Queued(state_and_queued) THEN "wake" ELSE "idle")
  /\ UNCHANGED <<op, seen, calls>>

FutexWakeAll(t) ==
  /\ pc[t] = "wake"
  /\ pc' = [s \in Threads |-> IF s = t THEN "idle"
                              ELSE IF pc[s] = "asleep" THEN "load" ELSE pc[s]]
  /\ UNCHANGED <<state_and_queued, op, seen, calls>>

\* A spurious wakeup
Stir(t) == /\ pc[t] = "asleep"
           /\ Goto(t, "load")
           /\ UNCHANGED <<state_and_queued, op, seen, calls>>

Step(t) == \/ Load(t) \/ Leave(t) \/ Claim(t) \/ Queue(t) \/ FutexWait(t)
           \/ Run(t) \/ FutexWakeAll(t)

Over == /\ \A t \in Threads : pc[t] \in {"idle", "asleep"}
        /\ UNCHANGED vars

Next == (\E t \in Threads : Call(t) \/ Step(t) \/ Stir(t)) \/ Over

Spec == Init /\ [][Next]_vars /\ \A t \in Threads : WF_vars(Step(t))

-----------------------------------------------------------------------------
(***************************************************************************)
(* Properties                                                              *)
(***************************************************************************)
\* What the Once is to OnceSpec
Runner == IF \E t \in Threads : pc[t] = "run"
          THEN CHOOSE t \in Threads : pc[t] = "run" ELSE None
Phase == CASE State(state_and_queued) = INCOMPLETE -> "incomplete"
           [] State(state_and_queued) = POISONED -> "poisoned"
           [] State(state_and_queued) = RUNNING -> "running"
           [] State(state_and_queued) = COMPLETE -> "complete"
Forced == {t \in Threads : op[t].force}

\* Only waits for a closure that nobody runs have not returned: a wait that heeds
\* poisoning ends once the Once is poisoned.
Settled == \A t \in Threads :
  pc[t] = "idle" \/ (op[t].name = "wait" /\ (Phase = "incomplete" \/ (Phase = "poisoned" /\ op[t].force)))
=============================================================================
