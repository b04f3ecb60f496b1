--------------------------------- MODULE Waker ---------------------------------
(***************************************************************************)
(* How channels put threads to sleep and wake them: the queue of blocked   *)
(* operations of library/std/src/sync/mpmc/waker.rs and the context of a   *)
(* thread, context.rs.  A blocked operation is claimed by a compare and    *)
(* exchange on select, which a selecting peer, a disconnect and the        *)
(* deadline of the blocked thread itself race for.  The channels extend    *)
(* this module; the methods of Waker run under a lock of theirs.           *)
(***************************************************************************)
EXTENDS Naturals, Sequences, SequencesExt

CONSTANTS Senders, Receivers,
          Timed,         \* threads whose calls have a deadline
          Trying         \* threads that call try_send and try_recv only

Threads == Senders \cup Receivers
Side(t) == IF t \in Senders THEN "senders" ELSE "receivers"
Other(t) == IF t \in Senders THEN "receivers" ELSE "senders"

VARIABLES
  pc,          \* where each thread is
  selectors,   \* blocked operations of either side, oldest first
  select,      \* the state of the context of each thread
  token        \* has the thread been unparked?

waker == <<selectors, select, token>>

WakerInit == /\ pc = [t \in Threads |-> "idle"]
             /\ selectors = [side \in {"senders", "receivers"} |-> <<>>]
             /\ select = [t \in Threads |-> "waiting"]
             /\ token = [t \in Threads |-> FALSE]

WakerTyped == /\ selectors \in [{"senders", "receivers"} -> Seq(Threads)]
              /\ select \in [Threads -> {"waiting", "aborted", "disconnected", "operation"}]
              /\ token \in [Threads -> BOOLEAN]

Goto(t, place) == pc' = [pc EXCEPT ![t] = place]
At(t, here, there) == pc[t] = here /\ Goto(t, there)

Registered(t) == Contains(selectors[Side(t)], t)

-----------------------------------------------------------------------------
(***************************************************************************)
(* The queue                                                               *)
(***************************************************************************)
\* register_with_packet, in a context that Context::with has reset
register(t) == /\ selectors' = [selectors EXCEPT ![Side(t)] = Append(@, t)]
               /\ select' = [select EXCEPT ![t] = "waiting"]
               /\ UNCHANGED token

unregister(t) ==
  /\ selectors' = [selectors EXCEPT ![Side(t)] = SelectSeq(@, LAMBDA e : e # t)]
  /\ UNCHANGED <<select, token>>

\* Faulty: only the oldest operation is tried.
Claimable_Oldest(side) ==
  IF selectors[side] # <<>> /\ select[Head(selectors[side])] = "waiting" THEN 1 ELSE 0

\* The place of the first operation whose context can be claimed, or 0.
Claimable(side) == SelectInSeq(selectors[side], LAMBDA t : select[t] = "waiting")

\* Faulty: the operation stays in the queue.
Without_Kept(queue, i) == queue

Without(queue, i) == RemoveAt(queue, i)

\* A thread claims the operation of another one and wakes it.
try_select(side, i) ==
  LET t == selectors[side][i]
  IN  /\ select' = [select EXCEPT ![t] = "operation"]
      /\ token' = [token EXCEPT ![t] = TRUE]
      /\ selectors' = [selectors EXCEPT ![side] = Without(@, i)]

\* Faulty: the threads are not unparked.
Unparked_None(woken) == token

Unparked(woken) == [t \in Threads |-> token[t] \/ t \in woken]

\* All operations of the given sides; they stay in the queues.
disconnect(sides) ==
  LET woken == {t \in Threads : Side(t) \in sides /\ Registered(t) /\ select[t] = "waiting"}
  IN  /\ select' = [t \in Threads |-> IF t \in woken THEN "disconnected" ELSE select[t]]
      /\ token' = Unparked(woken)
      /\ UNCHANGED selectors

-----------------------------------------------------------------------------
(***************************************************************************)
(* wait_until                                                              *)
(***************************************************************************)
\* Where a thread goes on once its operation is decided.
Decided(t, done, undone) == IF select[t] = "operation" THEN done ELSE undone

WaitCheck(t, done, undone) ==
  /\ At(t, "wait", IF select[t] = "waiting" THEN "park" ELSE Decided(t, done, undone))
  /\ UNCHANGED waker

Park(t) == /\ token[t] /\ At(t, "park", "wait")
           /\ token' = [token EXCEPT ![t] = FALSE]
           /\ UNCHANGED <<selectors, select>>

\* Faulty: the deadline overrules whatever happened since the last look.
MayAbort_Always(t) == TRUE

MayAbort(t) == select[t] = "waiting"

\* try_select(Selected::Aborted)
abort(t) == select' = [select EXCEPT ![t] = IF MayAbort(t) THEN "aborted" ELSE @]

\* The deadline is reached: try aborting.
Expire(t, done, undone) ==
  /\ t \in Timed /\ pc[t] \in {"wait", "park"}
  /\ abort(t)
  /\ Goto(t, IF MayAbort(t) THEN undone ELSE Decided(t, done, undone))
  /\ UNCHANGED <<selectors, token>>
=============================================================================
