-------------------------------- MODULE MCSync --------------------------------
(***************************************************************************)
(* The synchronization primitives of library/std for TLC.  In every        *)
(* behaviour one of them runs, the one that "part" names: where std has    *)
(* two implementations of a primitive it compiles one of them, and each    *)
(* must keep the same promise (LockSpec, ParkSpec, OnceSpec).              *)
(*                                                                         *)
(* The mutex has its own variables; the others share v1 to v13 in the      *)
(* order in which they declare theirs.  What a part does not use stays     *)
(* blank, so that the state spaces add up.                                 *)
(***************************************************************************)
EXTENDS FutexMutex

CONSTANTS t1, t2, t3, p1, p2       \* Threads is {t1, t2, t3}

VARIABLES part, v1, v2, v3, v4, v5, v6, v7, v8, v9, v10, v11, v12, v13

shared == <<v1, v2, v3, v4, v5, v6, v7, v8, v9, v10, v11, v12, v13>>
all == <<part, vars, shared>>

RwLock == INSTANCE FutexRwLock WITH
  state <- v1, writer_notify <- v2, pc <- v3, mine <- v4, other <- v5, seq <- v6, calls <- v7,
  Bits <- 2, Width <- 3, Answers <- BOOLEAN, MaxCalls <- 1,
  Calls <- {"read", "try_read", "write", "try_write"}

QueueLock == INSTANCE QueueRwLock WITH
  state <- v1, next <- v2, prev <- v3, tail <- v4, count <- v5, write <- v6, completed <- v7,
  token <- v8, pc <- v9, op <- v10, mine <- v11, cur <- v12, calls <- v13,
  Kinds <- {"read", "write"}, MaxCalls <- 1

\* Four writers: one is in, three are in the queue.
LongQueue == INSTANCE QueueRwLock WITH
  state <- v1, next <- v2, prev <- v3, tail <- v4, count <- v5, write <- v6, completed <- v7,
  token <- v8, pc <- v9, op <- v10, mine <- v11, cur <- v12, calls <- v13,
  Threads <- {t1, t2, t3, p1}, Kinds <- {"write"}, MaxCalls <- 1

Gate == INSTANCE Barrier WITH
  owner <- v1, futex <- v2, pc <- v3, value <- v4, count <- v5, generation_id <- v6,
  local_gen <- v7, leader <- v8, waits <- v9, passed <- v10, turn <- v11, opened <- v12,
  Width <- 3, num_threads <- 2, Generations <- 4, MaxWaits <- 2

Waits == INSTANCE CondvarWait WITH
  owner <- v1, futex <- v2, pc <- v3, value <- v4, permits <- v5, posts <- v6,
  Threads <- {t1, t2, t3, p1, p2}, Takers <- {t1, t2, t3}, Timed <- {t3},
  Width <- 3, MaxPosts <- 1

Parker == INSTANCE FutexParker WITH
  state <- v1, pc <- v2, timed <- v3, waking <- v4, parks <- v5, unparks <- v6,
  Others <- {t2, t3}, Width <- 3, MaxCalls <- 3

CondParker == INSTANCE PthreadParker WITH
  state <- v1, mutex <- v2, pc <- v3, timed <- v4, calls <- v5,
  Owner <- t1, Others <- {t2, t3}, MaxCalls <- 2

Once == INSTANCE FutexOnce WITH
  state_and_queued <- v1, pc <- v2, op <- v3, seen <- v4, calls <- v5, MaxCalls <- 1

\* Who calls what on the Once with a list: each of the four calls meets each other one.
OnceOps(t) ==
  CASE t = t1 -> [name : {"call"}, force : BOOLEAN]
    [] t = t2 -> {[name |-> "call", force |-> TRUE], [name |-> "wait", force |-> FALSE]}
    [] t = t3 -> [name : {"call", "wait"}, force : BOOLEAN]

ListOnce == INSTANCE QueueOnce WITH
  word <- v1, next <- v2, signaled <- v3, token <- v4, pc <- v5, op <- v6, current <- v7,
  cursor <- v8, calls <- v9, MaxCalls <- 1, Ops <- OnceOps

Scope == INSTANCE ScopedThreads WITH
  num_running_threads <- v1, a_thread_panicked <- v2, token <- v3, pc <- v4, packet <- v5,
  holder <- v6, result <- v7, cur <- v8, outcome <- v9, Threads <- {t2, t3}, Main <- t1, Limit <- 3

-----------------------------------------------------------------------------
\* The shared variables after the n-th
Blank(n) ==
  /\ (n < 1 => v1 = 0) /\ (n < 2 => v2 = 0) /\ (n < 3 => v3 = 0) /\ (n < 4 => v4 = 0)
  /\ (n < 5 => v5 = 0) /\ (n < 6 => v6 = 0) /\ (n < 7 => v7 = 0) /\ (n < 8 => v8 = 0)
  /\ (n < 9 => v9 = 0) /\ (n < 10 => v10 = 0) /\ (n < 11 => v11 = 0) /\ (n < 12 => v12 = 0) /\ (n < 13 => v13 = 0)
After5 == <<v6, v7, v8, v9, v10, v11, v12, v13>>
After6 == <<v7, v8, v9, v10, v11, v12, v13>>
After7 == <<v8, v9, v10, v11, v12, v13>>
After9 == <<v10, v11, v12, v13>>
fixed == <<part, vars>>

SyncInit ==
  /\ Init
  /\ \/ part = "mutex" /\ Blank(0)
     \/ part = "rwlock" /\ RwLock!Init /\ Blank(7)
     \/ part = "queue rwlock" /\ QueueLock!Init
     \/ part = "long queue" /\ LongQueue!Init
     \/ part = "barrier" /\ Gate!Init /\ Blank(12)
     \/ part = "condvar" /\ Waits!Init /\ Blank(6)
     \/ part = "parker" /\ Parker!Init /\ Blank(6)
     \/ part = "pthread parker" /\ CondParker!Init /\ Blank(5)
     \/ part = "once" /\ Once!Init /\ Blank(5)
     \/ part = "queue once" /\ ListOnce!Init /\ Blank(9)
     \/ part = "scope" /\ Scope!Init /\ Blank(9)

SyncNext ==
  \/ part = "mutex" /\ Next /\ UNCHANGED <<part, shared>>
  \/ part = "rwlock" /\ RwLock!Next /\ UNCHANGED <<fixed, After7>>
  \/ part = "queue rwlock" /\ QueueLock!Next /\ UNCHANGED fixed
  \/ part = "long queue" /\ LongQueue!Next /\ UNCHANGED fixed
  \/ part = "barrier" /\ Gate!Next /\ UNCHANGED <<fixed, v13>>
  \/ part = "condvar" /\ Waits!Next /\ UNCHANGED <<fixed, After6>>
  \/ part = "parker" /\ Parker!Next /\ UNCHANGED <<fixed, After6>>
  \/ part = "pthread parker" /\ CondParker!Next /\ UNCHANGED <<fixed, After5>>
  \/ part = "once" /\ Once!Next /\ UNCHANGED <<fixed, After5>>
  \/ part = "queue once" /\ ListOnce!Next /\ UNCHANGED <<fixed, After9>>
  \/ part = "scope" /\ Scope!Next /\ UNCHANGED <<fixed, After9>>

\* What thread t does once it runs, in whichever part.
Runs(t) ==
  \/ part = "long queue" /\ t # p2 /\ LongQueue!Step(t) /\ UNCHANGED fixed
  \/ part = "condvar" /\ Waits!Step(t) /\ UNCHANGED <<fixed, After6>>
  \/ /\ t \in Threads
     /\ \/ part = "mutex" /\ Step(t) /\ UNCHANGED <<part, shared>>
        \/ part = "rwlock" /\ RwLock!Step(t) /\ UNCHANGED <<fixed, After7>>
        \/ part = "queue rwlock" /\ QueueLock!Step(t) /\ UNCHANGED fixed
        \/ part = "barrier" /\ Gate!Step(t) /\ UNCHANGED <<fixed, v13>>
        \/ part = "once" /\ Once!Step(t) /\ UNCHANGED <<fixed, After5>>
        \/ part = "queue once" /\ ListOnce!Step(t) /\ UNCHANGED <<fixed, After9>>
        \/ part = "scope" /\ Scope!Step(t) /\ UNCHANGED <<fixed, After9>>
        \/ /\ part = "parker"
           /\ IF t = t1 THEN Parker!Owner ELSE Parker!FutexWake(t)
           /\ UNCHANGED <<fixed, After6>>
        \/ /\ part = "pthread parker"
           /\ IF t = t1 THEN CondParker!OwnerStep ELSE CondParker!OtherStep(t)
           /\ UNCHANGED <<fixed, After5>>

\* The fairness of the parts: a thread that can run is scheduled.
SyncSpec == SyncInit /\ [][SyncNext]_all /\ \A t \in {t1, t2, t3, p1, p2} : WF_all(Runs(t))

-----------------------------------------------------------------------------
(***************************************************************************)
(* Properties.  Those of the mutex are in FutexMutex.                      *)
(***************************************************************************)
\* The words of the primitives say what is the case: the counter of the lock how many
\* are in, the queue lock that one thread works on the queue, a complete Once that
\* nobody is queued, the word of a parker that its owner is in a call.
WordsExact ==
  /\ TypeOK
  /\ part = "rwlock" => RwLock!TypeOK /\ RwLock!CounterExact /\ RwLock!ReadersWaitForWriters
  /\ part = "queue rwlock" => QueueLock!TypeOK
  /\ part = "long queue" => LongQueue!TypeOK
  /\ part = "barrier" => Gate!TypeOK
  /\ part = "condvar" => Waits!TypeOK
  /\ part = "parker" => Parker!TypeOK /\ Parker!NotLeftParked
  /\ part = "pthread parker" => CondParker!TypeOK /\ CondParker!Consistent
  /\ part = "once" => Once!TypeOK
  /\ part = "queue once" => ListOnce!TypeOK
  /\ part = "scope" => Scope!TypeOK

\* Either reader-writer lock lets in one writer or any number of readers: whoever gets
\* in by way of the flags, the queue or a wakeup is no exception.
SharedLock == INSTANCE LockSpec WITH
  writer <- CASE part = "rwlock" -> RwLock!Writer
              [] part = "queue rwlock" -> QueueLock!Writer
              [] part = "long queue" -> LongQueue!Writer
              [] OTHER -> None,
  readers <- CASE part = "rwlock" -> RwLock!Readers
               [] part = "queue rwlock" -> QueueLock!Readers
               [] OTHER -> {},
  Threads <- {t1, t2, t3, p1}
ImplementsRwLock == SharedLock!Spec

\* The four invariants in the header of rwlock/queue.rs: some node has a tail, the first
\* one that has leads to the last node, next leads up to that node and prev back from the
\* last one, so that together they reach every thread that waits.
QueueWellFormed ==
  /\ part = "queue rwlock" => QueueLock!QueueWellFormed
  /\ part = "long queue" => LongQueue!QueueWellFormed

\* A node that a thread follows or signals is on the stack of a thread that still waits:
\* in both queues, of the lock and of the Once, a waiter may return as soon as its flag
\* is set.
NodesAlive ==
  /\ part = "queue rwlock" => QueueLock!NodesAlive
  /\ part = "long queue" => LongQueue!NodesAlive
  /\ part = "queue once" => ListOnce!NoNodeReadAfterReturn

\* On either parker a call of park takes a token that unpark left, one call each, and an
\* unpark during the call, before or after the owner falls asleep, ends it.
Token == INSTANCE ParkSpec WITH
  token <- CASE part = "parker" -> Parker!Token
             [] part = "pthread parker" -> CondParker!Token
             [] OTHER -> FALSE,
  parked <- CASE part = "parker" -> Parker!Parked
              [] part = "pthread parker" -> CondParker!Parked
              [] OTHER -> FALSE
ImplementsParking == Token!Spec

\* In either Once the closures run one at a time, none after one has completed, and after
\* a panic only by call_once_force.
OnceOnly == INSTANCE OnceSpec WITH
  phase <- CASE part = "once" -> Once!Phase
             [] part = "queue once" -> ListOnce!Phase
             [] OTHER -> "incomplete",
  runner <- CASE part = "once" -> Once!Runner
              [] part = "queue once" -> ListOnce!Runner
              [] OTHER -> None,
  forced <- CASE part = "once" -> Once!Forced
              [] part = "queue once" -> ListOnce!Forced
              [] OTHER -> {}
ImplementsOnce == OnceOnly!Spec

\* Nobody leaves a barrier early: each opening is paid for by num_threads arrivals and
\* lets at most that many calls return.
OpensWhenFull == part = "barrier" => Gate!OpensWhenFull

\* scope returns, or goes on panicking, when no thread can use what it borrowed, and
\* panics exactly when a thread's panic was not taken by join.
ScopeOutlivesThreads ==
  part = "scope" => Scope!ScopeOutlivesThreads /\ Scope!PanicsPassedOn

\* No wakeup is lost: the calls being bounded, every lock call gets its lock, every
\* call_once returns, the barrier lets go whom it counted, nothing is left to take while
\* a thread waits for it, and a scope whose closure is over ends.
EveryoneReturns ==
  <>[](CASE part = "mutex" -> Settled
         [] part = "rwlock" -> RwLock!Settled
         [] part = "queue rwlock" -> QueueLock!Settled
         [] part = "long queue" -> LongQueue!Settled
         [] part = "barrier" -> Gate!Settled
         [] part = "condvar" -> Waits!Settled
         [] part = "once" -> Once!Settled
         [] part = "queue once" -> ListOnce!Settled
         [] part = "scope" -> Scope!Settled
         [] OTHER -> TRUE)
=============================================================================
