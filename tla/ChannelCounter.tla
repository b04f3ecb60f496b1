----------------------------- MODULE ChannelCounter -----------------------------
(***************************************************************************)
(* The reference counts of the two ends of a channel,                      *)
(* library/std/src/sync/mpmc/counter.rs.  The last handle of either end    *)
(* disconnects the channel; of the two ends, the one that disconnects last *)
(* frees the memory.                                                       *)
(***************************************************************************)
EXTENDS Naturals, FiniteSets, Functions

CONSTANTS Threads,
          MaxHandles     \* bound on the handles of one end

Sides == {"senders", "receivers"}

VARIABLES
  count,       \* senders and receivers
  destroy,     \* set by the end that disconnects first
  handles,     \* the handles each thread has, of either end
  pc,          \* where each thread is in a release
  freed,       \* how often the counter and its channel were deallocated
  panicked     \* has a disconnect panicked?

vars == <<count, destroy, handles, pc, freed, panicked>>

\* One thread makes the channel and has both handles.
Init == /\ count = [s \in Sides |-> 1]
        /\ destroy = FALSE
        /\ \E t \in Threads :
             handles = [u \in Threads |-> [s \in Sides |-> IF u = t THEN 1 ELSE 0]]
        /\ pc = [t \in Threads |-> <<"idle">>]
        /\ freed = 0 /\ panicked = FALSE

\* A thread clones a handle.  The bound stands before isize::MAX, where the code
\* aborts the process.
acquire(t, s) == /\ pc[t] = <<"idle">> /\ handles[t][s] > 0 /\ count[s] < MaxHandles
                 /\ count' = [count EXCEPT ![s] = @ + 1]
                 /\ handles' = [handles EXCEPT ![t][s] = @ + 1]
                 /\ UNCHANGED <<destroy, pc, freed, panicked>>

\* A handle moves to another thread.
Give(t, u, s) == /\ pc[t] = <<"idle">> /\ t # u /\ handles[t][s] > 0
                 /\ handles' = [handles EXCEPT ![t][s] = @ - 1, ![u][s] = @ + 1]
                 /\ UNCHANGED <<count, destroy, pc, freed, panicked>>

\* release: fetch_sub, then the last one disconnects
release(t, s) == /\ pc[t] = <<"idle">> /\ handles[t][s] > 0
                 /\ count' = [count EXCEPT ![s] = @ - 1]
                 /\ handles' = [handles EXCEPT ![t][s] = @ - 1]
                 /\ pc' = [pc EXCEPT ![t] = IF count[s] = 1 THEN <<"disconnect", s>>
                                            ELSE <<"idle">>]
                 /\ UNCHANGED <<destroy, freed, panicked>>

\* The receivers drop messages as they disconnect: when one of those panics, the swap
\* is never reached.
Disconnect(t) == /\ pc[t][1] = "disconnect"
                 /\ \/ /\ pc' = [pc EXCEPT ![t] = <<"swap", pc[t][2]>>]
                       /\ UNCHANGED panicked
                    \/ /\ pc[t][2] = "receivers"
                       /\ pc' = [pc EXCEPT ![t] = <<"idle">>] /\ panicked' = TRUE
                 /\ UNCHANGED <<count, destroy, handles, freed>>

\* Faulty: the end that comes first frees.
Frees_First == ~destroy

Frees == destroy

\* destroy.swap(true): the second one to come frees
Swap(t) == /\ pc[t][1] = "swap"
           /\ destroy' = TRUE
           /\ pc' = [pc EXCEPT ![t] = IF Frees THEN <<"free">> ELSE <<"idle">>]
           /\ UNCHANGED <<count, handles, freed, panicked>>

Free(t) == /\ pc[t] = <<"free">>
           /\ freed' = freed + 1
           /\ pc' = [pc EXCEPT ![t] = <<"idle">>]
           /\ UNCHANGED <<count, destroy, handles, panicked>>

Step(t) == Disconnect(t) \/ Swap(t) \/ Free(t) \/ \E s \in Sides : release(t, s)

Over == /\ \A t \in Threads : pc[t] = <<"idle">> /\ \A s \in Sides : handles[t][s] = 0
        /\ UNCHANGED vars

Next == \/ \E t \in Threads : Step(t) \/ \E s \in Sides :
             acquire(t, s) \/ \E u \in Threads : Give(t, u, s)
        \/ Over

\* Threads finish their releases, and handles are dropped at last.
Spec == /\ Init /\ [][Next]_vars
        /\ \A t \in Threads : WF_vars(Disconnect(t) \/ Swap(t) \/ Free(t))

-----------------------------------------------------------------------------
\* The variables have their types, and the counts are the numbers of handles.
TypeOK == /\ count \in [Sides -> 0..MaxHandles]
          /\ destroy \in BOOLEAN /\ panicked \in BOOLEAN
          /\ handles \in [Threads -> [Sides -> 0..MaxHandles]]
          /\ pc \in [Threads -> {<<"idle">>, <<"free">>} \cup {"disconnect", "swap"} \X Sides]
          /\ \A s \in Sides : count[s] = FoldFunction(LAMBDA h, n : h[s] + n, 0, handles)

\* The memory is deallocated once, when no thread has a handle or is still in the
\* disconnect of either end: disconnect runs before the swap, not after it.
FreedLast ==
  freed > 0 => /\ freed = 1
               /\ \A t \in Threads : pc[t] = <<"idle">> /\ \A s \in Sides : handles[t][s] = 0

\* When the last handle is gone the memory is deallocated, unless the receivers'
\* disconnect panicked.
Settled == (\A t \in Threads, s \in Sides : handles[t][s] = 0) => freed = 1 \/ panicked
=============================================================================
