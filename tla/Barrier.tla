-------------------------------- MODULE Barrier --------------------------------
(***************************************************************************)
(* std::sync::Barrier, library/std/src/sync/barrier.rs: a counter and a    *)
(* generation under a mutex, and a condition variable on which the threads *)
(* of a generation wait for its last one.                                  *)
(***************************************************************************)
EXTENDS Condvar, FiniteSets

CONSTANTS num_threads,     \* the argument of Barrier::new
          Generations,     \* number of values of generation_id: 2^64 in the code
          MaxWaits         \* bound: calls of wait by each thread

VARIABLES
  count,           \* BarrierState
  generation_id,
  local_gen,       \* local_gen of each thread's call
  leader,          \* what each thread's last call returned
  waits,           \* history: calls begun by each thread
  passed,          \* history: calls returned
  turn,            \* history: openings before each thread's call was counted
  opened           \* history: how often the barrier has opened

barrier == <<count, generation_id, local_gen, leader>>
history == <<waits, passed, turn, opened>>
vars == <<condvar, barrier, history>>

TypeOK ==
  /\ owner \in Threads \cup {None}
  /\ futex \in 0..(2^Width - 1)
  /\ value \in [Threads -> 0..(2^Width - 1)]
  /\ pc \in [Threads -> CondvarPC \cup {"idle", "lock", "enter", "check", "return"}]
  /\ count \in 0..num_threads
  /\ generation_id \in 0..(Generations - 1)
  /\ local_gen \in [Threads -> 0..(Generations - 1)]
  /\ leader \in [Threads -> BOOLEAN]
  /\ waits \in [Threads -> 0..MaxWaits] /\ passed \in [Threads -> 0..MaxWaits]
  /\ turn \in [Threads -> Nat] /\ opened \in Nat

Init ==
  /\ CondvarInit
  /\ pc = [t \in Threads |-> "idle"]
  /\ count = 0 /\ generation_id = 0
  /\ local_gen = [t \in Threads |-> 0]
  /\ leader = [t \in Threads |-> FALSE]
  /\ waits = [t \in Threads |-> 0] /\ passed = [t \in Threads |-> 0]
  /\ turn = [t \in Threads |-> 0] /\ opened = 0

-----------------------------------------------------------------------------
wait(t) ==
  /\ At(t, "idle", "lock")
  /\ waits[t] < MaxWaits
  /\ waits' = [waits EXCEPT ![t] = @ + 1]
  /\ UNCHANGED <<owner, futex, value, barrier, passed, turn, opened>>

LockState(t) == Lock(t, "lock", "enter") /\ UNCHANGED <<barrier, history>>

\* count += 1; it is not the last
Enter(t) ==
  /\ count + 1 < num_threads
  /\ At(t, "enter", "check")
  /\ local_gen' = [local_gen EXCEPT ![t] = generation_id]
  /\ count' = count + 1
  /\ leader' = [leader EXCEPT ![t] = FALSE]
  /\ turn' = [turn EXCEPT ![t] = opened]
  /\ UNCHANGED <<owner, futex, value, generation_id, waits, passed, opened>>

\* Faulty: the counter goes on into the next generation.
Reset_Kept(n) == n + 1

Reset(n) == 0
NextGeneration(g) == (g + 1) % Generations

\* It is the last one: the barrier opens.
EnterLast(t) ==
  /\ count + 1 >= num_threads
  /\ At(t, "enter", "notify_all")
  /\ count' = Reset(count)
  /\ generation_id' = NextGeneration(generation_id)
  /\ leader' = [leader EXCEPT ![t] = TRUE]
  /\ opened' = opened + 1
  /\ UNCHANGED <<owner, futex, value, local_gen, waits, passed, turn>>

\* wait_while(lock, |state| local_gen == state.generation_id)
Check(t) ==
  /\ pc[t] \in {"check", "waited"}
  /\ Goto(t, IF local_gen[t] = generation_id THEN "wait" ELSE "return")
  /\ UNCHANGED <<owner, futex, value, barrier, history>>

\* The guard is dropped.
Return(t) ==
  /\ Unlock(t, IF leader[t] THEN "notified" ELSE "return", "idle")
  /\ passed' = [passed EXCEPT ![t] = @ + 1]
  /\ UNCHANGED <<barrier, waits, turn, opened>>

Step(t) == \/ LockState(t) \/ Enter(t) \/ EnterLast(t) \/ Check(t) \/ Return(t)
           \/ CondvarStep(t) /\ UNCHANGED <<barrier, history>>

\* All calls are made, and nobody can open the barrier for those that wait.
Over == /\ \A t \in Threads : \/ pc[t] = "idle" /\ waits[t] = MaxWaits
                              \/ pc[t] = "asleep"
        /\ UNCHANGED vars

Next == \/ \E t \in Threads : \/ Step(t) \/ wait(t)
                              \/ Interrupt(t) /\ UNCHANGED <<barrier, history>>
        \/ Over

Spec == Init /\ [][Next]_vars /\ \A t \in Threads : WF_vars(Step(t))

-----------------------------------------------------------------------------
(***************************************************************************)
(* Properties                                                              *)
(***************************************************************************)
\* The number of calls that have been counted, of which "passed" are back
Arrived == {<<t, k>> \in Threads \X (1..MaxWaits) :
              k < waits[t] \/ (k = waits[t] /\ pc[t] \notin {"lock", "enter"})}
Passed == {<<t, k>> \in Threads \X (1..MaxWaits) : k <= passed[t]}

\* Nobody leaves early, and nobody is left behind in the count: each opening is
\* paid for by num_threads arrivals (by one where num_threads is 0), and lets at
\* most that many calls return.
OpensWhenFull ==
  LET full == IF num_threads = 0 THEN 1 ELSE num_threads
  IN /\ Cardinality(Arrived) = opened * full + count
     /\ Cardinality(Passed) <= opened * full

\* Whoever still waits was counted after the barrier opened last.
Settled == \A t \in Threads : pc[t] = "idle" \/ (pc[t] \in CondvarPC /\ turn[t] = opened)
=============================================================================
