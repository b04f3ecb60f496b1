------------------------------ MODULE CondvarWait ------------------------------
(***************************************************************************)
(* The waiting loops of library/std/src/sync/condvar.rs, wait_while and    *)
(* wait_timeout_while, used the way the module's examples use them: takers *)
(* wait, under the mutex, while there is nothing to take; posters add      *)
(* something under the mutex and call notify_one once it is unlocked.      *)
(***************************************************************************)
EXTENDS Condvar

CONSTANTS Takers,      \* call wait_while or wait_timeout_while
          Timed,       \* the takers that call wait_timeout_while
          MaxPosts     \* bound: what each of the other threads posts

VARIABLES permits,     \* what the mutex protects
          posts        \* history: posts begun by each thread

client == <<permits, posts>>
vars == <<condvar, client>>

TypeOK ==
  /\ owner \in Threads \cup {None}
  /\ futex \in 0..(2^Width - 1)
  /\ value \in [Threads -> 0..(2^Width - 1)]
  /\ pc \in [Threads -> CondvarPC \cup {"start", "check", "found", "expired", "post",
                                        "posted", "done"}]
  /\ permits \in Nat
  /\ posts \in [Threads -> 0..MaxPosts]

Init == /\ CondvarInit
        /\ pc = [t \in Threads |-> "start"]
        /\ permits = 0
        /\ posts = [t \in Threads |-> 0]

-----------------------------------------------------------------------------
take(t) == t \in Takers /\ Lock(t, "start", "check") /\ UNCHANGED client

\* The condition is false: the loop ends and the taker takes.
Found(t) == /\ pc[t] \in {"check", "waited"}
            /\ permits # 0
            /\ Goto(t, "found")
            /\ permits' = permits - 1
            /\ UNCHANGED <<owner, futex, value, posts>>

NotFound(t) == /\ pc[t] \in {"check", "waited"}
               /\ permits = 0
               /\ Goto(t, "wait")
               /\ UNCHANGED <<owner, futex, value, client>>

\* wait_timeout_while: dur.checked_sub(start.elapsed()) is None.
Expired(t) == /\ t \in Timed
              /\ pc[t] \in {"check", "waited"}
              /\ permits = 0
              /\ Goto(t, "expired")
              /\ UNCHANGED <<owner, futex, value, client>>

Leave(t) == /\ pc[t] \in {"found", "expired"}
            /\ Unlock(t, pc[t], "done")
            /\ UNCHANGED client

post(t) == /\ t \notin Takers
           /\ posts[t] < MaxPosts
           /\ Lock(t, "start", "post")
           /\ posts' = [posts EXCEPT ![t] = @ + 1]
           /\ UNCHANGED permits

Post(t) == /\ At(t, "post", "posted")
           /\ permits' = permits + 1
           /\ UNCHANGED <<owner, futex, value, posts>>

Posted(t) == Unlock(t, "posted", "notify_one") /\ UNCHANGED client

Repeat(t) == At(t, "notified", "start") /\ UNCHANGED <<owner, futex, value, client>>

Step(t) == \/ take(t) \/ Found(t) \/ NotFound(t) \/ Leave(t)
           \/ post(t) \/ Post(t) \/ Posted(t) \/ Repeat(t)
           \/ CondvarStep(t) /\ UNCHANGED client

Over == /\ \A t \in Threads : IF t \in Takers THEN pc[t] \in {"done", "asleep"}
                              ELSE pc[t] = "start" /\ posts[t] = MaxPosts
        /\ UNCHANGED vars

Next == \/ \E t \in Threads : \/ Step(t) \/ Expired(t)
                              \/ t \in Timed /\ Timeout(t) /\ UNCHANGED client
                              \/ Interrupt(t) /\ UNCHANGED client
        \/ Over

Spec == Init /\ [][Next]_vars /\ \A t \in Threads : WF_vars(Step(t))

-----------------------------------------------------------------------------
(***************************************************************************)
(* Properties                                                              *)
(***************************************************************************)
Waiting == {t \in Takers : pc[t] \notin {"start", "found", "expired", "done"}}

\* Nothing is left to be taken while somebody waits for it.
Settled == permits = 0 \/ Waiting = {}
=============================================================================
