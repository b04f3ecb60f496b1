------------------------------- MODULE QueueOnce -------------------------------
(***************************************************************************)
(* std::sync::Once for systems without a futex,                            *)
(* library/std/src/sys/sync/once/queue.rs: the word holds the state and a  *)
(* linked list of waiters, each a node on the stack of a waiting thread.   *)
(***************************************************************************)
EXTENDS Naturals

CONSTANTS Threads,
          None,
          Ops(_),      \* which calls a thread makes: [name : {"call", "wait"}, force : BOOLEAN]
          MaxCalls     \* bound: calls by each thread

VARIABLES
  word,        \* state_and_queue: [state, queue]
  next,        \* node[t].next
  signaled,    \* node[t].signaled
  token,       \* the park token of each thread
  pc,          \* where each thread is
  op,          \* [name, force]: its call, and ignore_poisoning
  current,     \* its local copy of the word
  cursor,      \* the node a waking thread is at, and the next one it has read
  calls

vars == <<word, next, signaled, token, pc, op, current, cursor, calls>>
nodes == <<next, signaled, token>>

Words == [state : {"INCOMPLETE", "POISONED", "RUNNING", "COMPLETE"},
          queue : Threads \cup {None}]
\* before the first call
Quiet == [name |-> "wait", force |-> FALSE]

TypeOK == /\ word \in Words
          /\ word.state = "COMPLETE" => word.queue = None
          /\ next \in [Threads -> Threads \cup {None}]
          /\ signaled \in [Threads -> BOOLEAN] /\ token \in [Threads -> BOOLEAN]
          /\ pc \in [Threads -> {"idle", "load", "look", "wait", "check", "park", "run",
                                 "walk", "signal", "unpark"}]
          /\ \A t \in Threads : op[t] \in Ops(t) \cup {Quiet}
          /\ current \in [Threads -> Words]
          /\ cursor \in [Threads -> [at : Threads \cup {None}, next : Threads \cup {None}]]
          /\ calls \in [Threads -> 0..MaxCalls]

NoWord == [state |-> "INCOMPLETE", queue |-> None]
NoCursor == [at |-> None, next |-> None]

Init == /\ word = NoWord
        /\ next = [t \in Threads |-> None]
        /\ signaled = [t \in Threads |-> FALSE] /\ token = [t \in Threads |-> FALSE]
        /\ pc = [t \in Threads |-> "idle"]
        /\ op = [t \in Threads |-> Quiet]
        /\ current = [t \in Threads |-> NoWord]
        /\ cursor = [t \in Threads |-> NoCursor]
        /\ calls = [t \in Threads |-> 0]

At(t, here, there) == pc[t] = here /\ pc' = [pc EXCEPT ![t] = there]
See(t, w) == current' = [current EXCEPT ![t] = w]

-----------------------------------------------------------------------------
Call(t) == /\ calls[t] < MaxCalls
           /\ At(t, "idle", "load")
           /\ \E o \in Ops(t) : op' = [op EXCEPT ![t] = o]
           /\ calls' = [calls EXCEPT ![t] = @ + 1]
           /\ UNCHANGED <<word, nodes, current, cursor>>

Load(t) == /\ At(t, "load", "look")
           /\ See(t, word)
           /\ UNCHANGED <<word, nodes, op, cursor, calls>>

Refused(t) == current[t].state = "POISONED" /\ ~op[t].force

MayRun(t) == /\ op[t].name = "call"
             /\ current[t].state \in {"INCOMPLETE", "POISONED"} /\ ~Refused(t)

Leave(t) == /\ current[t].state = "COMPLETE" \/ Refused(t)
            /\ At(t, "look", "idle")
            /\ See(t, NoWord)
            /\ UNCHANGED <<word, nodes, op, cursor, calls>>

\* Faulty: the word is stored without a look whether it changed.
Same_Blind(t) == TRUE

Same(t) == word = current[t]

Claim(t) == /\ MayRun(t)
            /\ At(t, "look", IF Same(t) THEN "run" ELSE "look")
            /\ word' = IF Same(t) THEN [word EXCEPT !.state = "RUNNING"] ELSE word
            /\ See(t, IF Same(t) THEN NoWord ELSE word)
            /\ UNCHANGED <<nodes, op, cursor, calls>>

\* fn wait
Enter(t) == /\ current[t].state # "COMPLETE" /\ ~Refused(t) /\ ~MayRun(t)
            /\ At(t, "look", "wait")
            /\ UNCHANGED <<word, nodes, op, current, cursor, calls>>

\* return_on_poisoned is TRUE in call.
Finished(t) == \/ current[t].state = "COMPLETE"
               \/ current[t].state = "POISONED" /\ (op[t].name = "call" \/ ~op[t].force)

Return(t) == /\ Finished(t)
             /\ At(t, "wait", "look")
             /\ UNCHANGED <<word, nodes, op, current, cursor, calls>>

\* node.next.set(queue), and compare_exchange_weak(current, node + state)
Enqueue(t) == /\ ~Finished(t)
              /\ At(t, "wait", IF Same(t) THEN "check" ELSE "wait")
              /\ next' = IF Same(t) THEN [next EXCEPT ![t] = current[t].queue] ELSE next
              /\ word' = IF Same(t) THEN [word EXCEPT !.queue = t] ELSE word
              /\ See(t, IF Same(t) THEN NoWord ELSE word)
              /\ UNCHANGED <<signaled, token, op, cursor, calls>>

\* while !node.signaled { park() }; then the node is gone
Check(t) == /\ At(t, "check", IF signaled[t] THEN "load" ELSE "park")
            /\ signaled' = [signaled EXCEPT ![t] = FALSE]
            /\ next' = IF signaled[t] THEN [next EXCEPT ![t] = None] ELSE next
            /\ UNCHANGED <<word, token, op, current, cursor, calls>>

\* Faulty: the flag is not looked at after the park.
Woken_Returns == "load"

Woken == "check"

Park(t) == /\ token[t]
           /\ At(t, "park", Woken)
           /\ token' = [token EXCEPT ![t] = FALSE]
           /\ UNCHANGED <<word, next, signaled, op, current, cursor, calls>>

\* A token that somebody else left ends the park.
Stir(t) == /\ At(t, "park", Woken)
           /\ UNCHANGED <<word, nodes, op, current, cursor, calls>>

-----------------------------------------------------------------------------
\* Faulty: the queue stays in the word.
Swapped_Kept(s) == [word EXCEPT !.state = s]

Swapped(s) == [state |-> s, queue |-> None]

\* The closure returns, calls OnceState::poison, or panics; WaiterQueue is dropped.
Run(t) == /\ At(t, "run", "walk")
          /\ \E s \in {"COMPLETE", "POISONED"} : word' = Swapped(s)
          /\ cursor' = [cursor EXCEPT ![t] = [at |-> word.queue, next |-> None]]
          /\ See(t, NoWord)
          /\ UNCHANGED <<nodes, op, calls>>

Walk(t) ==
  LET at == cursor[t].at
  IN /\ At(t, "walk", IF at = None THEN "idle" ELSE "signal")
     /\ cursor' = [cursor EXCEPT ![t] = IF at = None THEN NoCursor
                                        ELSE [at |-> at, next |-> next[at]]]
     /\ UNCHANGED <<word, nodes, op, current, calls>>

Signal(t) == /\ At(t, "signal", "unpark")
             /\ signaled' = [signaled EXCEPT ![cursor[t].at] = TRUE]
             /\ UNCHANGED <<word, next, token, op, current, cursor, calls>>

\* thread.unpark(); queue = next
Unpark(t) == /\ At(t, "unpark", "walk")
             /\ token' = [token EXCEPT ![cursor[t].at] = TRUE]
             /\ cursor' = [cursor EXCEPT ![t] = [at |-> cursor[t].next, next |-> None]]
             /\ UNCHANGED <<word, next, signaled, op, current, calls>>

Step(t) == \/ Load(t) \/ Leave(t) \/ Claim(t) \/ Enter(t) \/ Return(t) \/ Enqueue(t)
           \/ Check(t) \/ Park(t) \/ Run(t) \/ Walk(t) \/ Signal(t) \/ Unpark(t)

Over == /\ \A t \in Threads : pc[t] \in {"idle", "park"}
        /\ UNCHANGED vars

Next == (\E t \in Threads : Call(t) \/ Step(t) \/ Stir(t)) \/ Over

Spec == Init /\ [][Next]_vars /\ \A t \in Threads : WF_vars(Step(t))

-----------------------------------------------------------------------------
(***************************************************************************)
(* Properties                                                              *)
(***************************************************************************)
\* The node of t is on the stack of a thread that cannot return yet.
Live(t) == pc[t] \in {"check", "park"} /\ ~signaled[t]

\* A thread that walks the list reads nodes that still exist, though a waiter whose
\* flag is set may return and free its node at any time.
NoNodeReadAfterReturn ==
  \A t \in Threads :
    /\ pc[t] \in {"walk", "signal"} /\ cursor[t].at # None => Live(cursor[t].at)
    /\ pc[t] \in {"signal", "unpark"} /\ cursor[t].next # None => Live(cursor[t].next)

\* What the Once is to OnceSpec
Phase == CASE word.state = "INCOMPLETE" -> "incomplete"
           [] word.state = "POISONED" -> "poisoned"
           [] word.state = "RUNNING" -> "running"
           [] word.state = "COMPLETE" -> "complete"
Runner == IF \E t \in Threads : pc[t] = "run"
          THEN CHOOSE t \in Threads : pc[t] = "run" ELSE None
Forced == {t \in Threads : op[t].force}

\* Only waits for a closure that nobody runs have not returned: a wait that heeds
\* poisoning ends once the Once is poisoned.
Settled == \A t \in Threads :
  pc[t] = "idle" \/ (op[t].name = "wait" /\ (Phase = "incomplete" \/ (Phase = "poisoned" /\ op[t].force)))
=============================================================================
