------------------------------ MODULE QueueRwLock ------------------------------
(***************************************************************************)
(* The readers-writer lock for systems without a futex,                    *)
(* library/std/src/sys/sync/rwlock/queue.rs.  One word holds the flags     *)
(* and, while threads wait, a pointer to a list of nodes on their stacks;  *)
(* the count of the readers then lives in the last node.  Threads join the *)
(* front of the list without a lock; who holds QUEUE_LOCKED adds the       *)
(* backlinks and wakes from the back.                                      *)
(*                                                                         *)
(* Spinning only reloads the word before a compare and exchange that would *)
(* fail otherwise, and is left out.                                        *)
(***************************************************************************)
EXTENDS Naturals, FiniteSets

CONSTANTS Threads, None,
          Kinds,         \* which of "read" and "write" the threads call
          MaxCalls       \* bound: calls by each thread

VARIABLES
  state,       \* the word: flags, and a count of readers or the first node
  next, prev, tail, count, write, completed, \* the node of each thread; count is the
               \* reader count that next holds in the last node
  token,       \* the park token of each thread
  pc,          \* where each thread is
  op,          \* its call: "read", "write" or "unlock"
  mine,        \* the word each thread has loaded
  cur,         \* the node it is at
  calls

node == <<next, prev, tail, count, write, completed>>
vars == <<state, node, token, pc, op, mine, cur, calls>>

Words == [locked : BOOLEAN, queue_locked : BOOLEAN, count : 0..Cardinality(Threads),
          node : Threads \cup {None}]
UNLOCKED == [locked |-> FALSE, queue_locked |-> FALSE, count |-> 0, node |-> None]
Queued(s) == s.node # None

Init == /\ state = UNLOCKED
        /\ next = [t \in Threads |-> None] /\ prev = [t \in Threads |-> None]
        /\ tail = [t \in Threads |-> None] /\ count = [t \in Threads |-> 0]
        /\ write = [t \in Threads |-> FALSE] /\ completed = [t \in Threads |-> FALSE]
        /\ token = [t \in Threads |-> FALSE]
        /\ pc = [t \in Threads |-> "idle"]
        /\ op = [t \in Threads |-> "unlock"]
        /\ mine = [t \in Threads |-> UNLOCKED]
        /\ cur = [t \in Threads |-> None]
        /\ calls = [t \in Threads |-> 0]

Goto(t, place) == pc' = [pc EXCEPT ![t] = place]
At(t, here, there) == pc[t] = here /\ Goto(t, there)
See(t, s) == mine' = [mine EXCEPT ![t] = s]

\* The call is over, and its locals with it.
End(t, place) == Goto(t, place) /\ See(t, UNLOCKED) /\ cur' = [cur EXCEPT ![t] = None]

-----------------------------------------------------------------------------
(***************************************************************************)
(* read, write, lock_contended                                             *)
(***************************************************************************)
\* Faulty: a write lock does not stop readers.
Lockable_Written(s, kind) == IF kind = "write" THEN ~s.locked ELSE ~Queued(s)

\* write_lock, read_lock: can the word be locked?
Lockable(s, kind) == IF kind = "write" THEN ~s.locked
                     ELSE ~Queued(s) /\ (s.count > 0 \/ ~s.locked)

Locked(s, kind) == [s EXCEPT !.locked = TRUE, !.count = IF kind = "read" THEN @ + 1 ELSE @]
Inside(kind) == IF kind = "read" THEN "reading" ELSE "writing"

\* try_read and try_write; read and write go on when that fails.
Call(t, kind) ==
  /\ pc[t] = "idle" /\ calls[t] < MaxCalls
  /\ calls' = [calls EXCEPT ![t] = @ + 1]
  /\ op' = [op EXCEPT ![t] = kind]
  /\ \/ /\ Lockable(state, kind)
        /\ state' = Locked(state, kind)
        /\ Goto(t, Inside(kind))
     \/ ~Lockable(state, kind) /\ Goto(t, "load") /\ UNCHANGED state
  /\ UNCHANGED <<node, token, mine, cur>>

TryFails(t, kind) == /\ pc[t] = "idle" /\ calls[t] < MaxCalls /\ ~Lockable(state, kind)
                     /\ calls' = [calls EXCEPT ![t] = @ + 1]
                     /\ UNCHANGED <<state, node, token, pc, op, mine, cur>>

Load(t) == /\ At(t, "load", "decide") /\ See(t, state)
           /\ UNCHANGED <<state, node, token, op, cur, calls>>

\* A compare and exchange failed: the word it found is the one to go on with.
Reload(t) == state # mine[t] /\ See(t, state) /\ UNCHANGED <<state, node, pc, cur>>

TakeLock(t) ==
  /\ pc[t] = "decide" /\ Lockable(mine[t], op[t])
  /\ \/ state = mine[t] /\ state' = Locked(state, op[t]) /\ End(t, Inside(op[t])) /\ UNCHANGED node
     \/ Reload(t)
  /\ UNCHANGED <<token, op, calls>>

\* Faulty: the first node in the queue does not name itself as its tail.
FirstTail_Unset(t) == None

FirstTail(t) == t

\* Faulty: the queue lock may be somebody else's.
TookQueueLock_Any(s) == Queued(s)

TookQueueLock(s) == Queued(s) /\ ~s.queue_locked

\* Join the front of the queue, locking it to add backlinks if there is one already.
Enqueue(t) ==
  /\ pc[t] = "decide" /\ ~Lockable(mine[t], op[t])
  /\ \/ /\ state = mine[t]
        /\ next' = [next EXCEPT ![t] = mine[t].node]
        /\ count' = [count EXCEPT ![t] = mine[t].count]
        /\ prev' = [prev EXCEPT ![t] = None]
        /\ tail' = [tail EXCEPT ![t] = IF Queued(mine[t]) THEN None ELSE FirstTail(t)]
        /\ write' = [write EXCEPT ![t] = op[t] = "write"]
        /\ completed' = [completed EXCEPT ![t] = FALSE]
        /\ state' = [locked |-> mine[t].locked, queue_locked |-> Queued(mine[t]), count |-> 0,
                     node |-> t]
        /\ IF TookQueueLock(mine[t])
           THEN Goto(t, "queue_walk") /\ See(t, state') /\ cur' = [cur EXCEPT ![t] = t]
           ELSE End(t, "wait")
     \/ Reload(t)
  /\ UNCHANGED <<token, op, calls>>

\* wait: until completed is set, the thread parks.
Wait(t) == /\ At(t, "wait", IF completed[t] THEN "load" ELSE "park")
           /\ UNCHANGED <<state, node, token, op, mine, cur, calls>>

Park(t) == /\ token[t] /\ At(t, "park", "wait")
           /\ token' = [token EXCEPT ![t] = FALSE]
           /\ UNCHANGED <<state, node, op, mine, cur, calls>>

-----------------------------------------------------------------------------
(***************************************************************************)
(* add_backlinks_and_find_tail, for read_unlock_contended ("reader_walk")  *)
(* and for unlock_queue ("queue_walk")                                     *)
(***************************************************************************)
Walk(t) ==
  /\ pc[t] \in {"reader_walk", "queue_walk"}
  /\ IF tail[cur[t]] = None
     THEN /\ prev' = [prev EXCEPT ![next[cur[t]]] = cur[t]]
          /\ cur' = [cur EXCEPT ![t] = next[cur[t]]]
          /\ UNCHANGED <<pc, tail>>
     ELSE /\ tail' = [tail EXCEPT ![mine[t].node] = tail[cur[t]]]
          /\ cur' = [cur EXCEPT ![t] = tail[cur[t]]]
          /\ Goto(t, IF pc[t] = "reader_walk" THEN "reader_leaves" ELSE "queue_tail")
          /\ UNCHANGED prev
  /\ UNCHANGED <<state, next, count, write, completed, token, op, mine, calls>>

\* Begins a walk at the first node of s.
WalkFrom(t, walk, s) == Goto(t, walk) /\ See(t, s) /\ cur' = [cur EXCEPT ![t] = s.node]

-----------------------------------------------------------------------------
(***************************************************************************)
(* read_unlock, write_unlock, unlock_contended                             *)
(***************************************************************************)
read_unlock(t) ==
  /\ pc[t] = "reading"
  /\ op' = [op EXCEPT ![t] = "unlock"]
  /\ IF Queued(state) THEN WalkFrom(t, "reader_walk", state) /\ UNCHANGED state
     ELSE /\ state' = IF state.count > 1 THEN [state EXCEPT !.count = @ - 1] ELSE UNLOCKED
          /\ End(t, "idle")
  /\ UNCHANGED <<node, token, calls>>

\* The count in the last node is decremented; the last reader unlocks.
ReaderLeaves(t) ==
  /\ pc[t] = "reader_leaves"
  /\ count' = [count EXCEPT ![cur[t]] = @ - 1]
  /\ IF count[cur[t]] = 1 THEN Goto(t, "release") /\ UNCHANGED <<mine, cur>> ELSE End(t, "idle")
  /\ UNCHANGED <<state, next, prev, tail, write, completed, token, op, calls>>

write_unlock(t) ==
  /\ pc[t] = "writing"
  /\ op' = [op EXCEPT ![t] = "unlock"]
  /\ IF state = Locked(UNLOCKED, "write") THEN state' = UNLOCKED /\ End(t, "idle")
     ELSE Goto(t, "release") /\ See(t, state) /\ UNCHANGED <<state, cur>>
  /\ UNCHANGED <<node, token, calls>>

\* Release the lock and try to acquire the queue lock; who holds that wakes others.
Release(t) ==
  /\ pc[t] = "release"
  /\ \/ /\ state = mine[t]
        /\ state' = [state EXCEPT !.locked = FALSE, !.queue_locked = TRUE]
        /\ IF mine[t].queue_locked THEN End(t, "idle") ELSE WalkFrom(t, "queue_walk", state')
        /\ UNCHANGED node
     \/ Reload(t)
  /\ UNCHANGED <<token, op, calls>>

-----------------------------------------------------------------------------
(***************************************************************************)
(* unlock_queue, once the tail is found                                    *)
(***************************************************************************)
\* Where unlock_queue returns to: lock_contended waits, an unlock is over.
Back(t) == End(t, IF op[t] = "unlock" THEN "idle" ELSE "wait")

Rewalk(t) == state # mine[t] /\ WalkFrom(t, "queue_walk", state) /\ UNCHANGED <<state, node>>

\* Faulty: the queue lock is released although the lock has been released meanwhile.
StillLocked_Stale(t) == state.node = mine[t].node

StillLocked(t) == state = mine[t]

\* Somebody has the lock: waking is left to them.
QueueLeave(t) ==
  /\ pc[t] = "queue_tail" /\ mine[t].locked
  /\ \/ StillLocked(t) /\ state' = [state EXCEPT !.queue_locked = FALSE] /\ Back(t) /\ UNCHANGED node
     \/ ~StillLocked(t) /\ Rewalk(t)
  /\ UNCHANGED <<token, op, calls>>

\* The last node is a writer and not the only node.
Splits(t) == write[cur[t]] /\ prev[cur[t]] # None

\* It is split off, ...
QueueSplit(t) ==
  /\ pc[t] = "queue_tail" /\ ~mine[t].locked /\ Splits(t)
  /\ tail' = [tail EXCEPT ![mine[t].node] = prev[cur[t]]]
  /\ Goto(t, "queue_unlock")
  /\ UNCHANGED <<state, next, prev, count, write, completed, token, op, mine, cur, calls>>

\* ... the queue unlocked, and the writer woken.
QueueUnlock(t) == /\ At(t, "queue_unlock", "complete")
                  /\ state' = [state EXCEPT !.queue_locked = FALSE]
                  /\ UNCHANGED <<node, token, op, mine, cur, calls>>

\* A reader, or the only node: the queue is reset and everybody woken.
QueueReset(t) ==
  /\ pc[t] = "queue_tail" /\ ~mine[t].locked /\ ~Splits(t)
  /\ \/ /\ state = mine[t] /\ state' = UNLOCKED
        /\ Goto(t, "complete_all") /\ UNCHANGED <<node, mine, cur>>
     \/ Rewalk(t)
  /\ UNCHANGED <<token, op, calls>>

\* Node::complete; the link is read before, as the node may be gone after it.
Complete(t) ==
  /\ pc[t] \in {"complete", "complete_all"}
  /\ completed' = [completed EXCEPT ![cur[t]] = TRUE]
  /\ token' = [token EXCEPT ![cur[t]] = TRUE]
  /\ IF pc[t] = "complete" \/ prev[cur[t]] = None THEN Back(t)
     ELSE cur' = [cur EXCEPT ![t] = prev[cur[t]]] /\ UNCHANGED <<pc, mine>>
  /\ UNCHANGED <<state, next, prev, tail, count, write, op, calls>>

Step(t) == \/ Load(t) \/ TakeLock(t) \/ Enqueue(t) \/ Wait(t) \/ Park(t) \/ Walk(t)
           \/ read_unlock(t) \/ ReaderLeaves(t) \/ write_unlock(t) \/ Release(t)
           \/ QueueLeave(t) \/ QueueSplit(t) \/ QueueUnlock(t) \/ QueueReset(t) \/ Complete(t)

\* Nobody moves any more: the liveness property says that nobody is left asleep then.
Over == /\ \A t \in Threads : pc[t] = "idle" \/ (pc[t] = "park" /\ ~token[t])
        /\ UNCHANGED vars

Next == \/ \E t \in Threads : Step(t) \/ \E kind \in Kinds : Call(t, kind) \/ TryFails(t, kind)
        \/ Over

\* A runnable thread is scheduled, and critical sections end.
Spec == Init /\ [][Next]_vars /\ \A t \in Threads : WF_vars(Step(t))

-----------------------------------------------------------------------------
Readers == {t \in Threads : pc[t] = "reading"}
Writers == {t \in Threads : pc[t] = "writing"}

\* The variables have their types, and the queue is locked exactly while one thread
\* is between taking the queue lock and releasing it.
TypeOK ==
  /\ state \in Words
  /\ next \in [Threads -> Threads \cup {None}] /\ prev \in [Threads -> Threads \cup {None}]
  /\ tail \in [Threads -> Threads \cup {None}]
  /\ count \in [Threads -> 0..Cardinality(Threads)]
  /\ write \in [Threads -> BOOLEAN] /\ completed \in [Threads -> BOOLEAN]
  /\ token \in [Threads -> BOOLEAN]
  /\ mine \in [Threads -> Words] /\ cur \in [Threads -> Threads \cup {None}]
  /\ Cardinality({t \in Threads : pc[t] \in {"queue_walk", "queue_tail", "queue_unlock"}})
       = IF state.queue_locked THEN 1 ELSE 0

Writer == IF Writers = {} THEN None ELSE CHOOSE t \in Writers : TRUE

\* The threads whose node is in use: their lock_contended has not returned from wait.
Waiting == {t \in Threads : /\ op[t] # "unlock" /\ ~completed[t]
                            /\ pc[t] \in {"wait", "park", "queue_walk", "queue_tail",
                                          "queue_unlock", "complete", "complete_all"}}

\* A node that a thread looks at is on the stack of a thread that still waits: no owner
\* returns while somebody walks the queue or wakes from a list it took out of it.
NodesAlive == \A t \in Threads : cur[t] # None => cur[t] \in Waiting

\* The nodes that follow n, in order of next, up to the first one with a tail.
Front == LET at[k \in 0..Cardinality(Threads)] ==
               IF k = 0 THEN state.node
               ELSE IF at[k - 1] = None \/ tail[at[k - 1]] # None THEN None
               ELSE next[at[k - 1]]
         IN  {at[k] : k \in 0..Cardinality(Threads)} \ {None}

\* The nodes before the last one, in order of prev.
BackFrom(n) == LET at[k \in 0..Cardinality(Threads)] ==
                     IF k = 0 THEN n ELSE IF at[k - 1] = None THEN None ELSE prev[at[k - 1]]
               IN  {at[k] : k \in 0..Cardinality(Threads)} \ {None}

\* Nodes that were taken out and are about to be completed.
Leaving == UNION {BackFrom(cur[t]) : t \in {u \in Threads : pc[u] = "complete_all"}}
             \cup {cur[t] : t \in {u \in Threads : pc[u] \in {"queue_unlock", "complete"}}}

\* The four invariants in the header of queue.rs: some node has a tail, the first one
\* that has leads to the last node, next leads up to that node and prev back from the
\* last one, so that together they reach every thread that waits.
QueueWellFormed ==
  Queued(state) => \E n \in Front : tail[n] # None
                                   /\ Front \cup BackFrom(tail[n]) = Waiting \ Leaving

\* Every call has got the lock and released it.
Settled == \A t \in Threads : pc[t] = "idle"
=============================================================================
