------------------------------- MODULE ListChannel -------------------------------
(***************************************************************************)
(* The unbounded channel, library/std/src/sync/mpmc/list.rs: a linked list *)
(* of blocks of BLOCK_CAP slots.  An index counts slots, with one index in *)
(* LAP standing for the step to the next block; index and mark bit of head *)
(* and tail are kept apart.  Blocks are numbered in the order in which     *)
(* they are installed, 0 is the null pointer; a block that is allocated    *)
(* and not installed belongs to one sender and is left out.                *)
(***************************************************************************)
EXTENDS SyncWaker, FiniteSets

CONSTANTS None, MaxSends, MaxRecvs,
          LAP          \* 32 in the code

BLOCK_CAP == LAP - 1
Messages == Senders \X (1..MaxSends)
MaxCalls(t) == IF t \in Senders THEN MaxSends ELSE MaxRecvs
Blocks == 1..(Cardinality(Messages) \div BLOCK_CAP + 1)

VARIABLES
  index, mark, \* index and mark bit of the head ("receivers") and the tail ("senders")
  block,       \* block of the head and of the tail
  next,        \* the block after each block
  state, slot, \* state bits and message of each slot of each block
  freed,       \* how often each block was deallocated
  pos, posmark, blk, \* index, mark and block each thread has loaded
  start,       \* how far a thread is in destroying a block
  msg,         \* the message a thread has in hand
  calls,       \* calls made by each thread
  hang,        \* how far either end is in being dropped
  sweep        \* head, tail and block of discard_all_messages and drop

data == <<index, mark, block, next, state, slot, freed>>
local == <<pos, posmark, blk, start, msg, calls>>
ends == <<hang, sweep>>
vars == <<pc, syncWaker, data, local, ends>>

Offset(p) == p % LAP
Fresh == block["senders"] + 1

Both(v) == [side \in {"senders", "receivers"} |-> v]

Init == /\ SyncWakerInit
        /\ index = Both(0) /\ mark = Both(FALSE) /\ block = Both(0)
        /\ next = [b \in Blocks |-> 0]
        /\ state = [b \in Blocks |-> [i \in 0..BLOCK_CAP - 1 |-> {}]]
        /\ slot = [b \in Blocks |-> [i \in 0..BLOCK_CAP - 1 |-> None]]
        /\ freed = [b \in Blocks |-> 0]
        /\ pos = [t \in Threads |-> 0] /\ posmark = [t \in Threads |-> FALSE]
        /\ blk = [t \in Threads |-> 0] /\ start = [t \in Threads |-> 0]
        /\ msg = [t \in Threads |-> None]
        /\ calls = [t \in Threads |-> 0]
        /\ hang = Both("no")
        /\ sweep = [head |-> 0, tail |-> 0, block |-> 0]

-----------------------------------------------------------------------------
(***************************************************************************)
(* start_send and start_recv: load the index, then the block               *)
(***************************************************************************)
Call(t) == /\ At(t, "idle", "load")
           /\ calls[t] < MaxCalls(t) /\ hang[Side(t)] = "no"
           /\ calls' = [calls EXCEPT ![t] = @ + 1]
           /\ msg' = [msg EXCEPT ![t] = IF t \in Senders THEN <<t, calls[t] + 1>> ELSE None]
           /\ UNCHANGED <<syncWaker, data, pos, posmark, blk, start, ends>>

\* The call ends, and its locals with it.
End(t) == /\ Goto(t, "idle")
          /\ msg' = [msg EXCEPT ![t] = None]
          /\ pos' = [pos EXCEPT ![t] = 0] /\ posmark' = [posmark EXCEPT ![t] = FALSE]
          /\ blk' = [blk EXCEPT ![t] = 0] /\ start' = [start EXCEPT ![t] = 0]
          /\ UNCHANGED calls

Load(t) == /\ At(t, "load", "load_block")
           /\ pos' = [pos EXCEPT ![t] = index[Side(t)]]
           /\ posmark' = [posmark EXCEPT ![t] = mark[Side(t)]]
           /\ UNCHANGED <<syncWaker, data, blk, start, msg, calls, ends>>

\* What a sender does with the index and the block b it has loaded.
SendNext(t, b) == IF Offset(pos[t]) = BLOCK_CAP THEN "load"
                  ELSE IF b = 0 THEN "install" ELSE "exchange"

\* The mark in the head says that the block is not the last one: no look at the tail.
RecvNext(t, b) == IF Offset(pos[t]) = BLOCK_CAP THEN "load"
                  ELSE IF ~posmark[t] THEN "look"
                  ELSE IF b = 0 THEN "load" ELSE "exchange"

LoadBlock(t) ==
  /\ pc[t] = "load_block"
  /\ IF t \in Senders /\ posmark[t] THEN End(t)
     ELSE /\ blk' = [blk EXCEPT ![t] = block[Side(t)]]
          /\ Goto(t, IF t \in Senders THEN SendNext(t, blk'[t]) ELSE RecvNext(t, blk'[t]))
          /\ UNCHANGED <<pos, posmark, start, msg, calls>>
  /\ UNCHANGED <<syncWaker, data, ends>>

SameBlock(p, q) == p \div LAP = q \div LAP

\* A receiver looks at the tail: empty, or does the head leave the last block?
Look(t) ==
  /\ pc[t] = "look"
  /\ IF index["senders"] = pos[t] /\ mark["senders"] THEN End(t)
     ELSE /\ Goto(t, IF index["senders"] = pos[t] THEN "blocked"
                     ELSE IF blk[t] = 0 THEN "load"
                     ELSE IF SameBlock(pos[t], index["senders"]) THEN "exchange"
                     ELSE "exchange_mark")
          /\ UNCHANGED local
  /\ UNCHANGED <<syncWaker, data, ends>>

\* The first message: a sender installs the first block, at the tail and then at the
\* head; a sender that comes too late begins again.
Install(t) ==
  /\ pc[t] = "install"
  /\ \/ /\ block["senders"] = 0 /\ Goto(t, "publish")
        /\ block' = [block EXCEPT !["senders"] = Fresh]
        /\ blk' = [blk EXCEPT ![t] = Fresh]
     \/ /\ block["senders"] # 0 /\ Goto(t, "load") /\ UNCHANGED <<block, blk>>
  /\ UNCHANGED <<syncWaker, index, mark, next, state, slot, freed, pos, posmark, start, msg,
                 calls, ends>>

Publish(t) == /\ At(t, "publish", "exchange")
              /\ block' = [block EXCEPT !["receivers"] = blk[t]]
              /\ UNCHANGED <<syncWaker, index, mark, next, state, slot, freed, local, ends>>

\* Faulty: the mark bit is left out of the comparison.
Expected_AnyMark(t) == index[Side(t)] = pos[t]

Expected(t) == index[Side(t)] = pos[t] /\ mark[Side(t)] = posmark[t]

\* The compare and exchange on the index; the last slot of a block takes longer.
Exchange(t) ==
  /\ pc[t] \in {"exchange", "exchange_mark"}
  /\ IF Expected(t)
     THEN /\ index' = [index EXCEPT ![Side(t)] = @ + 1]
          /\ mark' = [mark EXCEPT ![Side(t)] = @ \/ pc[t] = "exchange_mark"]
          /\ Goto(t, IF Offset(pos[t]) + 1 < BLOCK_CAP THEN "access"
                     ELSE IF t \in Senders THEN "tail_block" ELSE "head_block")
     ELSE Goto(t, "load") /\ UNCHANGED <<index, mark>>
  /\ UNCHANGED <<syncWaker, block, next, state, slot, freed, local, ends>>

\* The next block is installed: the block of the tail, its index, the link.
TailBlock(t) == /\ At(t, "tail_block", "tail_index")
                /\ block' = [block EXCEPT !["senders"] = Fresh]
                /\ UNCHANGED <<syncWaker, index, mark, next, state, slot, freed, local, ends>>

TailIndex(t) == /\ At(t, "tail_index", "link")
                /\ index' = [index EXCEPT !["senders"] = @ + 1]
                /\ UNCHANGED <<syncWaker, mark, block, next, state, slot, freed, local, ends>>

Link(t) == /\ At(t, "link", "access")
           /\ next' = [next EXCEPT ![blk[t]] = blk[t] + 1]
           /\ UNCHANGED <<syncWaker, index, mark, block, state, slot, freed, local, ends>>

\* wait_next: the head moves to the next block, marked when that has a successor.
HeadBlock(t) ==
  /\ pc[t] = "head_block" /\ next[blk[t]] # 0
  /\ Goto(t, IF next[next[blk[t]]] # 0 THEN "head_marked" ELSE "head_index")
  /\ block' = [block EXCEPT !["receivers"] = next[blk[t]]]
  /\ UNCHANGED <<syncWaker, index, mark, next, state, slot, freed, local, ends>>

HeadIndex(t) ==
  /\ pc[t] \in {"head_index", "head_marked"} /\ Goto(t, "access")
  /\ index' = [index EXCEPT !["receivers"] = @ + 1]
  /\ mark' = [mark EXCEPT !["receivers"] = pc[t] = "head_marked"]
  /\ UNCHANGED <<syncWaker, block, next, state, slot, freed, local, ends>>

-----------------------------------------------------------------------------
(***************************************************************************)
(* write and read                                                          *)
(***************************************************************************)
Write(t) ==
  /\ t \in Senders /\ At(t, "access", "notify")
  /\ slot' = [slot EXCEPT ![blk[t]][Offset(pos[t])] = msg[t]]
  /\ state' = [state EXCEPT ![blk[t]][Offset(pos[t])] = @ \cup {"WRITE"}]
  /\ msg' = [msg EXCEPT ![t] = None]
  /\ UNCHANGED <<syncWaker, index, mark, block, next, freed, pos, posmark, blk, start, calls, ends>>

WakeReceiver(t) == /\ Notify(t, "return") \/ NotifyLocked(t, "return")
                   /\ UNCHANGED <<data, local, ends>>

\* wait_write, then the message is moved out; the reader of the last slot destroys.
Read(t) ==
  /\ t \in Receivers /\ pc[t] = "access" /\ "WRITE" \in state[blk[t]][Offset(pos[t])]
  /\ Goto(t, IF Offset(pos[t]) + 1 = BLOCK_CAP THEN "destroy" ELSE "mark_read")
  /\ msg' = [msg EXCEPT ![t] = slot[blk[t]][Offset(pos[t])]]
  /\ slot' = [slot EXCEPT ![blk[t]][Offset(pos[t])] = None]
  /\ UNCHANGED <<syncWaker, index, mark, block, next, state, freed, pos, posmark, blk, start,
                 calls, ends>>

\* Faulty: nobody takes over the destruction of the block.
TakesOver_Never(bits) == FALSE

TakesOver(bits) == "DESTROY" \in bits

MarkRead(t) ==
  LET bits == state[blk[t]][Offset(pos[t])]
  IN  /\ At(t, "mark_read", IF TakesOver(bits) THEN "destroy" ELSE "return")
      /\ state' = [state EXCEPT ![blk[t]][Offset(pos[t])] = bits \cup {"READ"}]
      /\ start' = [start EXCEPT ![t] = Offset(pos[t]) + 1]
      /\ UNCHANGED <<syncWaker, index, mark, block, next, slot, freed, pos, posmark, blk, msg,
                     calls, ends>>

\* Block::destroy, slot by slot: who still reads one goes on with the destruction.
Destroy(t) ==
  /\ pc[t] = "destroy"
  /\ IF start[t] >= BLOCK_CAP - 1
     THEN /\ freed' = [freed EXCEPT ![blk[t]] = @ + 1]
          /\ Goto(t, "return") /\ UNCHANGED <<state, start>>
     ELSE IF "READ" \in state[blk[t]][start[t]]
     THEN start' = [start EXCEPT ![t] = @ + 1] /\ UNCHANGED <<pc, state, freed>>
     ELSE /\ state' = [state EXCEPT ![blk[t]][start[t]] = @ \cup {"DESTROY"}]
          /\ Goto(t, "return") /\ UNCHANGED <<freed, start>>
  /\ UNCHANGED <<syncWaker, index, mark, block, next, slot, pos, posmark, blk, msg, calls, ends>>

Return(t) == pc[t] = "return" /\ End(t) /\ UNCHANGED <<syncWaker, data, ends>>

-----------------------------------------------------------------------------
(***************************************************************************)
(* recv: sleep until a sender, a disconnect or the deadline                *)
(***************************************************************************)
GiveUp(t) == pc[t] = "blocked" /\ End(t) /\ UNCHANGED <<syncWaker, data, ends>>

Enqueue(t) == /\ t \notin Trying
              /\ At(t, "blocked", "recheck") /\ Register(t)
              /\ UNCHANGED <<data, local, ends>>

\* is_empty: the head, then the tail
Recheck(t) == /\ At(t, "recheck", "recheck_tail")
              /\ pos' = [pos EXCEPT ![t] = index["receivers"]]
              /\ UNCHANGED <<syncWaker, data, posmark, blk, start, msg, calls, ends>>

\* Faulty: the thread sleeps on what it saw before it registered.
Arrived_Ignored(t) == FALSE

Arrived(t) == index["senders"] # pos[t]

RecheckTail(t) ==
  /\ At(t, "recheck_tail", IF Arrived(t) THEN "wait" ELSE "recheck_mark")
  /\ IF Arrived(t) THEN abort(t) ELSE UNCHANGED select
  /\ UNCHANGED <<selectors, token, is_empty, data, local, ends>>

\* is_disconnected
RecheckMark(t) ==
  /\ At(t, "recheck_mark", "wait")
  /\ IF mark["senders"] THEN abort(t) ELSE UNCHANGED select
  /\ UNCHANGED <<selectors, token, is_empty, data, local, ends>>

Sleep(t) == /\ \/ WaitCheck(t, "load", "dequeue")
               \/ Park(t)
               \/ Expire(t, "load", "dequeue")
            /\ UNCHANGED <<is_empty, data, local, ends>>

Dequeue(t) == /\ At(t, "dequeue", "load") /\ Unregister(t)
              /\ UNCHANGED <<data, local, ends>>

-----------------------------------------------------------------------------
(***************************************************************************)
(* disconnect_senders, disconnect_receivers, discard_all_messages, drop    *)
(***************************************************************************)
HangTo(side, place) == hang' = [hang EXCEPT ![side] = place]

\* The last handle of a side is dropped: the tail is marked, and whoever marks it
\* first wakes the receivers or discards the messages.
HangUp(side) ==
  /\ hang[side] = "no"
  /\ \A t \in Threads : Side(t) = side => pc[t] = "idle"
  /\ mark' = [mark EXCEPT !["senders"] = TRUE]
  /\ HangTo(side, IF mark["senders"] THEN "gone"
                  ELSE IF side = "senders" THEN "disconnect" ELSE "settle")
  /\ UNCHANGED <<pc, syncWaker, index, block, next, state, slot, freed, local, sweep>>

HangDisconnect == /\ hang["senders"] = "disconnect"
                  /\ Disconnect("receivers") /\ HangTo("senders", "gone")
                  /\ UNCHANGED <<pc, data, local, sweep>>

\* discard_all_messages waits until the tail is not between two blocks.
Settle == /\ hang["receivers"] = "settle" /\ Offset(index["senders"]) # BLOCK_CAP
          /\ sweep' = [sweep EXCEPT !.head = index["receivers"], !.tail = index["senders"]]
          /\ HangTo("receivers", "take")
          /\ UNCHANGED <<pc, syncWaker, data, local>>

\* Faulty: the block is loaded and stays with the head.
Swapped_Not == block

Swapped == [block EXCEPT !["receivers"] = 0]

\* The block of the head is taken with a swap.
Take == /\ hang["receivers"] = "take"
        /\ sweep' = [sweep EXCEPT !.block = block["receivers"]]
        /\ block' = Swapped
        /\ HangTo("receivers", IF sweep.head # sweep.tail /\ block["receivers"] = 0
                               THEN "await" ELSE "sweep")
        /\ UNCHANGED <<pc, syncWaker, index, mark, next, state, slot, freed, local>>

\* A message was sent before the first block reached the head: wait for it.  The
\* block is loaded here, not swapped.
Await == /\ hang["receivers"] = "await" /\ block["receivers"] # 0
         /\ sweep' = [sweep EXCEPT !.block = block["receivers"]]
         /\ HangTo("receivers", "sweep")
         /\ UNCHANGED <<pc, syncWaker, data, local>>

Free(b) == freed' = IF b = 0 THEN freed ELSE [freed EXCEPT ![b] = @ + 1]

\* A destructor panics: the loop is left, in disconnect_receivers or in drop.
Panics == IF hang = Both("drop") THEN hang' = Both("panicked") ELSE HangTo("receivers", "panicked")

\* One turn of the loop that drops messages and deallocates blocks.
SweepOne(waits) ==
  /\ sweep.head # sweep.tail
  /\ IF Offset(sweep.head) < BLOCK_CAP
     THEN /\ waits => "WRITE" \in state[sweep.block][Offset(sweep.head)]
          /\ slot' = [slot EXCEPT ![sweep.block][Offset(sweep.head)] = None]
          /\ sweep' = [sweep EXCEPT !.head = @ + 1]
          /\ UNCHANGED hang \/ Panics
          /\ UNCHANGED freed
     ELSE /\ waits => next[sweep.block] # 0
          /\ Free(sweep.block)
          /\ sweep' = [sweep EXCEPT !.head = @ + 1, !.block = next[sweep.block]]
          /\ UNCHANGED <<slot, hang>>
  /\ UNCHANGED <<pc, syncWaker, index, mark, block, next, state, local>>

\* The last block is deallocated and the head stored.
SweepEnd == /\ hang["receivers"] = "sweep" /\ sweep.head = sweep.tail
            /\ Free(sweep.block)
            /\ index' = [index EXCEPT !["receivers"] = sweep.head]
            /\ mark' = [mark EXCEPT !["receivers"] = FALSE]
            /\ HangTo("receivers", "gone")
            /\ UNCHANGED <<pc, syncWaker, block, next, state, slot, local, sweep>>

\* The end that goes last drops the channel.
DropStart == /\ hang = Both("gone") /\ hang' = Both("drop")
             /\ sweep' = [head |-> index["receivers"], tail |-> index["senders"],
                          block |-> block["receivers"]]
             /\ UNCHANGED <<pc, syncWaker, data, local>>

DropEnd == /\ hang = Both("drop") /\ hang' = Both("dropped")
           /\ sweep.head = sweep.tail
           /\ Free(sweep.block)
           /\ UNCHANGED <<pc, syncWaker, index, mark, block, next, state, slot, local, sweep>>

Discard == \/ Settle \/ Take \/ Await \/ SweepEnd
           \/ hang["receivers"] = "sweep" /\ SweepOne(TRUE)
           \/ hang = Both("drop") /\ SweepOne(FALSE)
           \/ DropStart \/ DropEnd

HangStep(side) == \/ HangUp(side)
                  \/ side = "senders" /\ HangDisconnect
                  \/ side = "receivers" /\ Discard

Step(t) == /\ pc[t] # "idle"
           /\ \/ Load(t) \/ LoadBlock(t) \/ Look(t) \/ Install(t) \/ Publish(t) \/ Exchange(t)
              \/ TailBlock(t) \/ TailIndex(t) \/ Link(t) \/ HeadBlock(t) \/ HeadIndex(t)
              \/ Write(t) \/ WakeReceiver(t) \/ Read(t) \/ MarkRead(t) \/ Destroy(t) \/ Return(t)
              \/ GiveUp(t) \/ Enqueue(t) \/ Recheck(t) \/ RecheckTail(t) \/ RecheckMark(t)
              \/ Sleep(t) \/ Dequeue(t)

Asleep(t) == pc[t] = "park" /\ ~token[t]

\* Nobody moves any more; the properties say what state that may be.
Over == /\ \/ hang["receivers"] \in {"dropped", "panicked"} /\ hang["senders"] # "no"
           \/ \E t \in Threads : Asleep(t) /\ \A u \in Threads : Asleep(u) \/ pc[u] = "idle"
        /\ UNCHANGED vars

Next == \/ \E t \in Threads : Call(t) \/ Step(t)
        \/ \E side \in {"senders", "receivers"} : HangStep(side)
        \/ Over

\* Threads run on, and both ends are dropped at last.
Spec == /\ Init /\ [][Next]_vars
        /\ \A t \in Threads : WF_vars(Step(t))
        /\ \A side \in {"senders", "receivers"} : WF_vars(HangStep(side))

-----------------------------------------------------------------------------
\* The variables have their types, the flag of the waker tells the truth, and a receiver
\* is in its queue exactly as long as it is blocked.
TypeOK ==
  /\ WakerTyped
  /\ \A t \in Threads : Registered(t) <=>
       /\ pc[t] \in {"recheck", "recheck_tail", "recheck_mark", "wait", "park", "dequeue"}
       /\ select[t] # "operation"
  /\ is_empty = [side \in {"senders", "receivers"} |-> selectors[side] = <<>>]
  /\ index \in [{"senders", "receivers"} -> Nat]
  /\ mark \in [{"senders", "receivers"} -> BOOLEAN]
  /\ block \in [{"senders", "receivers"} -> Blocks \cup {0}]
  /\ next \in [Blocks -> Blocks \cup {0}]
  /\ state \in [Blocks -> [0..BLOCK_CAP - 1 -> SUBSET {"WRITE", "READ", "DESTROY"}]]
  /\ slot \in [Blocks -> [0..BLOCK_CAP - 1 -> Messages \cup {None}]]
  /\ msg \in [Threads -> Messages \cup {None}]

Sweeping == hang["receivers"] \in {"take", "await", "sweep", "drop", "dropped", "panicked"}
HeadNow == IF Sweeping THEN sweep.head ELSE index["receivers"]

\* What the receiver of an index will get: the message in its slot, or the one that
\* the sender of the index is about to write.
Content(p) ==
  LET b == p \div LAP + 1
  IN  IF "WRITE" \in state[b][Offset(p)] THEN slot[b][Offset(p)]
      ELSE msg[CHOOSE s \in Senders :
                 pos[s] = p /\ pc[s] \in {"tail_block", "tail_index", "link", "access"}]

Pending == SelectSeq([k \in 1..index["senders"] - HeadNow |-> HeadNow + k - 1],
                     LAMBDA p : Offset(p) < BLOCK_CAP)

\* The channel as a queue: a send takes effect where it moves the tail and a receive
\* where it moves the head, also across blocks.
Queue == [n \in 1..Len(Pending) |-> Content(Pending[n])]
Hand(r) == IF pc[r] \in {"head_block", "head_index", "head_marked", "access"}
           THEN Content(pos[r]) ELSE msg[r]
Gone == {side \in {"senders", "receivers"} : hang[side] # "no"}

\* No block is deallocated twice, by the readers of its slots, by the last receiver
\* and by the drop of the channel together.
BlocksFreedOnce == \A b \in Blocks : freed[b] <= 1

\* Nobody uses a block after it was deallocated.
NoUseAfterFree ==
  /\ \A t \in Threads :
       pc[t] \in {"tail_block", "tail_index", "link", "head_block", "access", "mark_read",
                  "destroy"} => freed[blk[t]] = 0
  /\ hang["receivers"] \in {"sweep", "drop"} /\ sweep.head # sweep.tail =>
       sweep.block # 0 /\ freed[sweep.block] = 0

\* Once the channel is dropped every block that was installed is deallocated, and no
\* message is left behind in one; a channel with a message whose destructor panicked is
\* never dropped to the end.
NothingLeaked ==
  hang = Both("dropped") =>
    \A b \in 1..block["senders"] : freed[b] > 0 /\ \A i \in 0..BLOCK_CAP - 1 : slot[b][i] = None

\* When nobody moves, no receiver sleeps beside a message or on a closed channel.
NobodyOverslept ==
  (\A t \in Threads : Asleep(t) \/ pc[t] = "idle") /\ hang["senders"] # "disconnect" =>
    \A t \in Threads : Asleep(t) => ~mark["senders"] /\ Pending = <<>>

\* Every call has returned.
Settled == \A t \in Threads : pc[t] = "idle"
=============================================================================
