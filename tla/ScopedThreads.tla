----------------------------- MODULE ScopedThreads -----------------------------
(***************************************************************************)
(* thread::scope, library/std/src/thread/scoped.rs, with the part of       *)
(* thread/mod.rs that runs a scoped thread: a packet shared by the thread  *)
(* and its join handle, whose last owner reports the thread to the scope.  *)
(* Threads of the scope spawn others, also while the main thread waits,    *)
(* and pass join handles on.  The main thread parks by ParkSpec, which the *)
(* parkers implement.                                                      *)
(***************************************************************************)
EXTENDS Naturals, FiniteSets

CONSTANTS Threads,     \* the threads that may be spawned
          Main,        \* the thread in thread::scope
          Limit        \* usize::MAX / 2

VARIABLES
  num_running_threads,
  a_thread_panicked,
  token,       \* Main's park token
  pc,          \* where each thread is
  packet,      \* packet[t]: which of the two references to the packet of t exist
  holder,      \* holder[t]: who has the join handle of t
  result,      \* packet[t].result: "none", "ok", "err", "taken" by join
  cur,         \* cur[a]: whose packet a makes or drops, a itself otherwise
  outcome      \* what scope(f) does: "ok" or "panic"

vars == <<num_running_threads, a_thread_panicked, token, pc, packet, holder, result, cur, outcome>>
scope == <<num_running_threads, a_thread_panicked>>
packets == <<packet, holder, result>>

Agents == Threads \cup {Main}

TypeOK ==
  /\ num_running_threads \in 0..Cardinality(Threads)
  /\ a_thread_panicked \in BOOLEAN /\ token \in BOOLEAN
  /\ pc \in [Agents -> {"new", "user", "start", "finish", "flag", "sub", "unpark", "exit",
                        "check", "park", "end"}]
  /\ packet \in [Threads -> SUBSET {"thread", "handle"}]
  /\ holder \in [Threads -> Agents]
  /\ result \in [Threads -> {"none", "ok", "err", "taken"}]
  /\ cur \in [Agents -> Agents]
  /\ outcome \in {"ok", "panic"}

Init ==
  /\ num_running_threads = 0 /\ a_thread_panicked = FALSE
  /\ token = FALSE
  /\ pc = [a \in Agents |-> IF a = Main THEN "user" ELSE "new"]
  /\ packet = [t \in Threads |-> {}]
  /\ holder = [t \in Threads |-> Main]
  /\ result = [t \in Threads |-> "none"]
  /\ cur = [a \in Agents |-> a]
  /\ outcome = "ok"

Goto(a, place) == pc' = [pc EXCEPT ![a] = place]
At(a, t) == cur' = [cur EXCEPT ![a] = t]

-----------------------------------------------------------------------------
(***************************************************************************)
(* spawn_unchecked_: the packet, increment_num_running_threads, the thread *)
(***************************************************************************)
\* fetch_add finds too many threads; overflow() undoes it and panics.
TooMany == num_running_threads > Limit

\* f, or the closure of a thread that has the scope, spawns a thread, which is counted
\* before it starts.  When there are too many, the packet is dropped like any other,
\* and that subtracts once more.
spawn(a, t) ==
  /\ pc[a] = "user" /\ pc[t] = "new" /\ packet[t] = {}
  /\ At(a, t)
  /\ IF TooMany
     THEN /\ pc' = [pc EXCEPT ![a] = "flag", ![t] = "exit"]
          /\ UNCHANGED <<num_running_threads, packet, holder>>
     ELSE /\ num_running_threads' = num_running_threads + 1
          /\ packet' = [packet EXCEPT ![t] = {"thread", "handle"}]
          /\ holder' = [holder EXCEPT ![t] = a]
          /\ Goto(a, "start")
  /\ UNCHANGED <<a_thread_panicked, token, result, outcome>>

\* imp::Thread::new starts the thread, or fails and both references are dropped.
StartThread(a) ==
  /\ pc[a] = "start"
  /\ \/ /\ pc' = [pc EXCEPT ![a] = "user", ![cur[a]] = "user"] /\ At(a, a)
        /\ UNCHANGED packet
     \/ /\ pc' = [pc EXCEPT ![a] = "flag", ![cur[a]] = "exit"]
        /\ packet' = [packet EXCEPT ![cur[a]] = {}]
        /\ UNCHANGED cur
  /\ UNCHANGED <<scope, token, holder, result, outcome>>

Holds(a, t) == "handle" \in packet[t] /\ holder[t] = a

\* The closure returns or panics, its handles gone; *their_packet.result = Some(try_result)
Finish(t) ==
  /\ pc[t] = "user" /\ \A u \in Threads : ~Holds(t, u)
  /\ \E r \in {"ok", "err"} : result' = [result EXCEPT ![t] = r]
  /\ Goto(t, "finish")
  /\ UNCHANGED <<scope, token, packet, holder, cur, outcome>>

-----------------------------------------------------------------------------
(***************************************************************************)
(* Packet::drop and decrement_num_running_threads                          *)
(***************************************************************************)
\* Faulty: whoever drops a reference counts as the last one.
LastOwner_Any(t, ref) == TRUE

LastOwner(t, ref) == packet[t] = {ref}

\* a gives up a reference to the packet of t; the last owner drops the packet.
Release(a, t, ref, back) ==
  /\ packet' = [packet EXCEPT ![t] = @ \ {ref}]
  /\ IF LastOwner(t, ref) THEN Goto(a, "flag") /\ At(a, t)
     ELSE Goto(a, back) /\ UNCHANGED cur

drop_their_packet(t) == /\ pc[t] = "finish"
                        /\ Release(t, t, "thread", "exit")
                        /\ UNCHANGED <<scope, token, holder, result, outcome>>

drop_handle(a, t) == /\ pc[a] = "user" /\ Holds(a, t)
                     /\ Release(a, t, "handle", "user")
                     /\ UNCHANGED <<scope, token, holder, result, outcome>>

\* native.join(), then result.take() and the drop of the handle
join(a, t) == /\ pc[a] = "user" /\ Holds(a, t)
              /\ pc[t] = "exit"
              /\ result' = [result EXCEPT ![t] = "taken"]
              /\ Release(a, t, "handle", "user")
              /\ UNCHANGED <<scope, token, holder, outcome>>

\* A handle moves to another thread of the scope.
Pass(a, b, t) == /\ pc[a] = "user" /\ pc[b] = "user" /\ a # b /\ Holds(a, t)
                 /\ holder' = [holder EXCEPT ![t] = b]
                 /\ UNCHANGED <<scope, token, pc, packet, result, cur, outcome>>

\* The result is dropped, then the flag is stored.
\* Faulty: the flag is what the last packet says.
Flag_Last(t) == result[t] = "err"

Flag(t) == a_thread_panicked \/ result[t] = "err"

StoreFlag(a) ==
  /\ pc[a] = "flag"
  /\ a_thread_panicked' = Flag(cur[a])
  /\ Goto(a, "sub")
  /\ UNCHANGED <<num_running_threads, token, packets, cur, outcome>>

\* Who drops its own packet has nothing left to run.
Back(a) == IF a = cur[a] THEN "exit" ELSE "user"

FetchSub(a) ==
  /\ pc[a] = "sub"
  /\ num_running_threads' = num_running_threads - 1
  /\ IF num_running_threads = 1 THEN Goto(a, "unpark") /\ UNCHANGED cur
     ELSE Goto(a, Back(a)) /\ At(a, a)
  /\ UNCHANGED <<a_thread_panicked, token, packets, outcome>>

Unpark(a) == /\ pc[a] = "unpark"
             /\ token' = TRUE
             /\ Goto(a, Back(a)) /\ At(a, a)
             /\ UNCHANGED <<scope, packets, outcome>>

-----------------------------------------------------------------------------
(***************************************************************************)
(* scope                                                                   *)
(***************************************************************************)
\* f returns or panics; its handles are gone.  (f may also catch a panic of spawn.)
EndOfF == /\ pc[Main] = "user"
          /\ \A t \in Threads : ~Holds(Main, t)
          /\ Goto(Main, "check")
          /\ outcome' \in {"ok", "panic"}
          /\ UNCHANGED <<scope, token, packets, cur>>

\* while num_running_threads != 0 { park() }
Check == /\ pc[Main] = "check"
         /\ Goto(Main, IF num_running_threads = 0 THEN "end" ELSE "park")
         /\ outcome' = IF num_running_threads = 0 /\ a_thread_panicked THEN "panic" ELSE outcome
         /\ UNCHANGED <<scope, token, packets, cur>>

Park == /\ pc[Main] = "park" /\ token
        /\ token' = FALSE
        /\ Goto(Main, "check")
        /\ UNCHANGED <<scope, packets, cur, outcome>>

\* Anyone may unpark Main, and f may park.
Stray == /\ \/ token' = TRUE
            \/ pc[Main] = "user" /\ token /\ token' = FALSE
         /\ UNCHANGED <<scope, pc, packets, cur, outcome>>

\* What an agent does once it runs: it finishes what it began, lets go of its handles,
\* and comes to an end.
Step(a) == \/ StartThread(a) \/ StoreFlag(a) \/ FetchSub(a) \/ Unpark(a)
           \/ \E t \in Threads : drop_handle(a, t)
           \/ a = Main /\ (EndOfF \/ Check \/ Park)
           \/ a \in Threads /\ (Finish(a) \/ drop_their_packet(a))

\* What it may do besides.
Choose(a) == \E t \in Threads : \/ spawn(a, t) \/ join(a, t)
                                \/ \E b \in Agents : Pass(a, b, t)

Next == (\E a \in Agents : Step(a) \/ Choose(a)) \/ Stray

Spec == Init /\ [][Next]_vars /\ \A a \in Agents : WF_vars(Step(a))

-----------------------------------------------------------------------------
(***************************************************************************)
(* Properties                                                              *)
(***************************************************************************)
\* scope returns, or goes on panicking, when no thread can use what it borrowed:
\* each one has ended, those that threads of the scope spawned included, and its
\* result is dropped or taken.
ScopeOutlivesThreads ==
  pc[Main] = "end" =>
    \A t \in Threads : /\ pc[t] \in {"new", "exit"} \/ (pc[t] = "unpark" /\ cur[t] = t)
                       /\ packet[t] = {}

\* A panic nobody took with join makes the scope panic; one that was taken does not.
PanicsPassedOn ==
  /\ \A t \in Threads : pc[Main] = "end" /\ result[t] = "err" => outcome = "panic"
  /\ a_thread_panicked => \E t \in Threads : result[t] = "err"

\* The scope has come to its end.
Settled == pc[Main] = "end"
=============================================================================
