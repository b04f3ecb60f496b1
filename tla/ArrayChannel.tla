------------------------------ MODULE ArrayChannel ------------------------------
(***************************************************************************)
(* The bounded channel, library/std/src/sync/mpmc/array.rs.  Senders move  *)
(* the tail and receivers the head with a compare and exchange; the stamp  *)
(* of a slot says whose turn it is: a position when the sender of that     *)
(* position may write, one more when its receiver may read.  A position    *)
(* holds an index and a lap; the mark bit of the tail is kept apart.       *)
(*                                                                         *)
(* cursor["senders"] is the tail and cursor["receivers"] the head, so that *)
(* what start_send and start_recv, write and read have in common is        *)
(* written once.                                                           *)
(***************************************************************************)
EXTENDS SyncWaker, FiniteSets

CONSTANTS None, MaxSends, MaxRecvs,
          cap,
          one_lap,     \* distance between laps, twice the mark bit
          Laps         \* laps until the word of a position overflows

VARIABLES
  cursor,      \* head and tail
  mark,        \* is the mark bit of the tail set?
  stamp, slot, \* stamp and message of each slot
  pos,         \* the position each thread has loaded
  msg,         \* the message a thread has in hand
  calls,       \* calls made by each thread
  hang,        \* how far either end is in being dropped
  drop_head    \* head of discard_all_messages

data == <<cursor, mark, stamp, slot>>
local == <<pos, msg, calls>>
ends == <<hang, drop_head>>
vars == <<pc, syncWaker, data, local, ends>>

Messages == Senders \X (1..MaxSends)
MaxCalls(t) == IF t \in Senders THEN MaxSends ELSE MaxRecvs
Wrap(n) == n % (Laps * one_lap)
Index(p) == p % one_lap

Init == /\ SyncWakerInit
        /\ cursor = [side \in {"senders", "receivers"} |-> 0]
        /\ mark = FALSE
        /\ stamp = [i \in 0..cap - 1 |-> i]
        /\ slot = [i \in 0..cap - 1 |-> None]
        /\ pos = [t \in Threads |-> 0]
        /\ msg = [t \in Threads |-> None]
        /\ calls = [t \in Threads |-> 0]
        /\ hang = [side \in {"senders", "receivers"} |-> "no"]
        /\ drop_head = 0

-----------------------------------------------------------------------------
(***************************************************************************)
(* start_send and start_recv                                               *)
(***************************************************************************)
\* Faulty: the lap is not advanced when the index wraps around.
Advance_SameLap(p) == IF Index(p) + 1 < cap THEN p + 1 ELSE p - Index(p)

\* The position after p: same lap, or index zero of the next one.
Advance(p) == IF Index(p) + 1 < cap THEN p + 1 ELSE Wrap(p - Index(p) + one_lap)

Call(t) == /\ At(t, "idle", "load")
           /\ calls[t] < MaxCalls(t) /\ hang[Side(t)] = "no"
           /\ calls' = [calls EXCEPT ![t] = @ + 1]
           /\ msg' = [msg EXCEPT ![t] = IF t \in Senders THEN <<t, calls[t] + 1>> ELSE None]
           /\ UNCHANGED <<syncWaker, data, pos, ends>>

\* The call ends; what a failed send has in hand goes back to its caller.
End(t) == Goto(t, "idle") /\ msg' = [msg EXCEPT ![t] = None] /\ pos' = [pos EXCEPT ![t] = 0]

\* A sender finds the mark in the tail and fails.
Load(t) == /\ pc[t] = "load"
           /\ IF t \in Senders /\ mark THEN End(t)
              ELSE /\ Goto(t, "inspect")
                   /\ pos' = [pos EXCEPT ![t] = cursor[Side(t)]]
                   /\ UNCHANGED msg
           /\ UNCHANGED <<syncWaker, data, calls, ends>>

\* The stamp says that it is the turn of the thread.
Turn(t) == stamp[Index(pos[t])] = IF t \in Senders THEN pos[t] ELSE pos[t] + 1

\* The stamp says that the slot is still as the previous lap left it.
Behind(t) == IF t \in Senders THEN Wrap(stamp[Index(pos[t])] + one_lap) = pos[t] + 1
             ELSE stamp[Index(pos[t])] = pos[t]

Inspect(t) == /\ At(t, "inspect", IF Turn(t) THEN "exchange"
                                  ELSE IF Behind(t) THEN "compare" ELSE "load")
              /\ UNCHANGED <<syncWaker, data, local, ends>>

Exchange(t) ==
  /\ pc[t] = "exchange"
  /\ \/ /\ cursor[Side(t)] = pos[t] /\ ~(t \in Senders /\ mark)
        /\ cursor' = [cursor EXCEPT ![Side(t)] = Advance(pos[t])]
        /\ Goto(t, "access")
     \/ /\ cursor[Side(t)] # pos[t] \/ (t \in Senders /\ mark)
        /\ Goto(t, "load")
        /\ UNCHANGED cursor
  /\ UNCHANGED <<syncWaker, mark, stamp, slot, local, ends>>

\* Full: the head lags one lap behind the tail.  Empty: tail and head are equal.
Blocking(t, other) == IF t \in Senders THEN Wrap(other + one_lap) = pos[t] ELSE other = pos[t]

\* The other end is looked at: full or empty, or the cursor has moved on.
Compare(t) ==
  /\ pc[t] = "compare"
  /\ IF ~Blocking(t, cursor[Other(t)]) THEN Goto(t, "load") /\ UNCHANGED <<msg, pos>>
     ELSE IF t \in Receivers /\ mark THEN End(t)
     ELSE Goto(t, "blocked") /\ UNCHANGED <<msg, pos>>
  /\ UNCHANGED <<syncWaker, data, calls, ends>>

-----------------------------------------------------------------------------
(***************************************************************************)
(* write and read: the slot, its stamp, a peer                             *)
(***************************************************************************)
NextStamp(t) == IF t \in Senders THEN pos[t] + 1 ELSE Wrap(pos[t] + one_lap)

Access(t) ==
  /\ At(t, "access", "notify")
  /\ slot' = [slot EXCEPT ![Index(pos[t])] = msg[t]]
  /\ msg' = [msg EXCEPT ![t] = slot[Index(pos[t])]]
  /\ stamp' = [stamp EXCEPT ![Index(pos[t])] = NextStamp(t)]
  /\ UNCHANGED <<syncWaker, cursor, mark, pos, calls, ends>>

WakeOther(t) == /\ Notify(t, "return") \/ NotifyLocked(t, "return")
                /\ UNCHANGED <<data, local, ends>>

Return(t) == pc[t] = "return" /\ End(t) /\ UNCHANGED <<syncWaker, data, calls, ends>>

-----------------------------------------------------------------------------
(***************************************************************************)
(* send and recv: sleep until a peer, a disconnect or the deadline         *)
(***************************************************************************)
\* Full or Empty of try_send and try_recv, or the deadline has passed.
GiveUp(t) == pc[t] = "blocked" /\ End(t) /\ UNCHANGED <<syncWaker, data, calls, ends>>

Enqueue(t) == /\ t \notin Trying
              /\ At(t, "blocked", "recheck") /\ Register(t)
              /\ UNCHANGED <<data, local, ends>>

\* is_full and is_empty load the cursor of the own side first.
Recheck(t) == /\ At(t, "recheck", "recheck_other")
              /\ pos' = [pos EXCEPT ![t] = cursor[Side(t)]]
              /\ UNCHANGED <<syncWaker, data, msg, calls, ends>>

\* Faulty: the thread sleeps on what it saw before it registered.
Changed_Ignored(t) == FALSE

Changed(t) == ~Blocking(t, cursor[Other(t)])

\* Has the channel become ready just now?
RecheckOther(t) ==
  /\ At(t, "recheck_other", IF Changed(t) THEN "wait" ELSE "recheck_mark")
  /\ IF Changed(t) THEN abort(t) ELSE UNCHANGED select
  /\ UNCHANGED <<selectors, token, is_empty, data, local, ends>>

RecheckMark(t) ==
  /\ At(t, "recheck_mark", "wait")
  /\ IF mark THEN abort(t) ELSE UNCHANGED select
  /\ UNCHANGED <<selectors, token, is_empty, data, local, ends>>

Sleep(t) == /\ \/ WaitCheck(t, "load", "dequeue")
               \/ Park(t)
               \/ Expire(t, "load", "dequeue")
            /\ UNCHANGED <<is_empty, data, local, ends>>

Dequeue(t) == /\ At(t, "dequeue", "load") /\ Unregister(t)
              /\ UNCHANGED <<data, local, ends>>

-----------------------------------------------------------------------------
(***************************************************************************)
(* disconnect_senders and disconnect_receivers                             *)
(***************************************************************************)
Opposite(side) == IF side = "senders" THEN "receivers" ELSE "senders"

HangTo(side, place) == hang' = [hang EXCEPT ![side] = place]
Dropped(side) == IF side = "senders" THEN "gone" ELSE "discard"

\* The last handle of a side is dropped: the mark bit is set.
HangUp(side) == /\ hang[side] = "no"
                /\ \A t \in Threads : Side(t) = side => pc[t] = "idle"
                /\ mark' = TRUE
                /\ HangTo(side, IF mark THEN Dropped(side) ELSE "disconnect")
                /\ drop_head' = IF side = "receivers" THEN cursor[side] ELSE drop_head
                /\ UNCHANGED <<pc, syncWaker, cursor, stamp, slot, local>>

HangDisconnect(side) == /\ hang[side] = "disconnect"
                        /\ Disconnect(Opposite(side))
                        /\ HangTo(side, Dropped(side))
                        /\ UNCHANGED <<pc, data, local, drop_head>>

\* Faulty: a slot that is not yet written ends the loop.
Discarded_Early == stamp[Index(drop_head)] # drop_head + 1

Discarded == cursor["senders"] = drop_head

\* discard_all_messages: drop the messages, waiting for senders that have a slot.  A
\* message whose destructor panics is the last one that is dropped.
Discard ==
  /\ hang["receivers"] = "discard"
  /\ \/ /\ stamp[Index(drop_head)] = drop_head + 1
        /\ slot' = [slot EXCEPT ![Index(drop_head)] = None]
        /\ drop_head' = Advance(drop_head)
        /\ UNCHANGED hang \/ HangTo("receivers", "panicked")
     \/ /\ stamp[Index(drop_head)] # drop_head + 1 /\ Discarded
        /\ HangTo("receivers", "gone")
        /\ UNCHANGED <<slot, drop_head>>
  /\ UNCHANGED <<pc, syncWaker, cursor, mark, stamp, local>>

HangStep(side) == \/ HangUp(side) \/ HangDisconnect(side)
                  \/ side = "receivers" /\ Discard

Step(t) == /\ pc[t] # "idle"
           /\ \/ Load(t) \/ Inspect(t) \/ Exchange(t) \/ Compare(t) \/ Access(t) \/ WakeOther(t)
              \/ Return(t) \/ GiveUp(t) \/ Enqueue(t) \/ Recheck(t) \/ RecheckOther(t)
              \/ RecheckMark(t) \/ Sleep(t) \/ Dequeue(t)

Asleep(t) == pc[t] = "park" /\ ~token[t]

\* Nobody moves any more; the properties say what state that may be.
Over == /\ \A t \in Threads : Asleep(t) \/ (pc[t] = "idle" /\ calls[t] = MaxCalls(t))
                              \/ hang[Side(t)] \in {"gone", "panicked"}
        /\ UNCHANGED vars

Next == \/ \E t \in Threads : Call(t) \/ Step(t)
        \/ \E side \in {"senders", "receivers"} : HangStep(side)
        \/ Over

\* Threads run on, and both ends are dropped at last.
Spec == /\ Init /\ [][Next]_vars
        /\ \A t \in Threads : WF_vars(Step(t))
        /\ \A side \in {"senders", "receivers"} : WF_vars(HangStep(side))

-----------------------------------------------------------------------------
\* The variables have their types, and a thread is in the queue of its waker exactly
\* as long as its operation is blocked: `unregister(oper).unwrap()` finds it.
TypeOK ==
  /\ WakerTyped
  /\ pc \in [Threads -> {"idle", "load", "inspect", "exchange", "compare", "access", "notify",
                         "notify_locked", "return", "blocked", "recheck", "recheck_other",
                         "recheck_mark", "wait", "park", "dequeue"}]
  /\ \A t \in Threads : Registered(t) <=>
       /\ pc[t] \in {"recheck", "recheck_other", "recheck_mark", "wait", "park", "dequeue"}
       /\ select[t] # "operation"
  /\ is_empty = [side \in {"senders", "receivers"} |-> selectors[side] = <<>>]
  /\ cursor \in [{"senders", "receivers"} -> 0..Laps * one_lap - 1]
  /\ stamp \in [0..cap - 1 -> 0..Laps * one_lap - 1]
  /\ mark \in BOOLEAN
  /\ slot \in [0..cap - 1 -> Messages \cup {None}]
  /\ msg \in [Threads -> Messages \cup {None}]

\* The positions from p on, and how many of them lead to the tail.
Ahead(p) == LET at[n \in 0..cap] == IF n = 0 THEN p ELSE Advance(at[n - 1]) IN at
Pending(p) == CHOOSE n \in 0..cap : Ahead(p)[n] = cursor["senders"]

\* What the receiver of position p will get: the message in its slot, or the one
\* that the sender of the position is about to write.
Content(p) == IF stamp[Index(p)] = p + 1 THEN slot[Index(p)]
              ELSE msg[CHOOSE s \in Senders : pc[s] = "access" /\ pos[s] = p]

HeadNow == IF hang["receivers"] \in {"discard", "gone", "panicked"} THEN drop_head ELSE cursor["receivers"]

\* The channel as a queue: a send takes effect where it moves the tail and a receive
\* where it moves the head.
Queue == [n \in 1..Pending(HeadNow) |-> Content(Ahead(HeadNow)[n - 1])]
Hand(r) == IF pc[r] = "access" THEN slot[Index(pos[r])] ELSE msg[r]
Gone == {side \in {"senders", "receivers"} : hang[side] # "no"}

\* Two threads never use one slot at the same time.
SlotsExclusive ==
  \A t, u \in Threads : (t # u /\ pc[t] = "access" /\ pc[u] = "access") =>
    Index(pos[t]) # Index(pos[u])

\* When nobody moves, no receiver sleeps beside a message and no sender beside a free
\* slot: the second look after registering and the notify after each access leave no
\* gap between them.
NobodyOverslept ==
  (\A t \in Threads : Asleep(t) \/ pc[t] = "idle") /\ "disconnect" \notin {hang["senders"], hang["receivers"]} =>
    \A t \in Threads : Asleep(t) => /\ ~mark
                                    /\ Pending(HeadNow) = IF t \in Senders THEN cap ELSE 0

\* Once the receivers are gone no message stays behind in the buffer: the drop of the
\* channel does not drop the messages in its slots, so that would be a leak.  Only the
\* messages after one whose destructor panics are leaked.
NothingLeaked ==
  hang["receivers"] = "gone" =>
    (\A i \in 0..cap - 1 : slot[i] = None) /\ (\A s \in Senders : pc[s] # "access")

\* Every call has returned.
Settled == \A t \in Threads : pc[t] = "idle"
=============================================================================
