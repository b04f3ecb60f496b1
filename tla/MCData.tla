-------------------------------- MODULE MCData --------------------------------
(***************************************************************************)
(* The channels and containers of library/std and library/alloc, and the   *)
(* table of the report, for TLC.  As in MCSync one of them runs in every   *)
(* behaviour, the one that "part" names (a channel has one flavor from the *)
(* start), and what it does not use of v1 to v20 stays blank.              *)
(***************************************************************************)
EXTENDS TableLayout

CONSTANTS None, s1, s2, r1, r2

VARIABLES part, v1, v2, v3, v4, v5, v6, v7, v8, v9, v10, v11, v12, v13, v14, v15, v16, v17, v18,
          v19, v20

\* Texts shorter and longer than every title, in ASCII and in characters of three bytes
Ascii(n) == [chars |-> n, bytes |-> n]
Wide(n) == [chars |-> n, bytes |-> 3 * n]
MCTexts == {Ascii(4), Ascii(20), Wide(3), Wide(7)}

Zero == INSTANCE ZeroChannel WITH
  pc <- v1, selectors <- v2, select <- v3, token <- v4, is_disconnected <- v5, packet <- v6,
  peer <- v7, msg <- v8, calls <- v9, gone <- v10, received <- v11, returned <- v12,
  Senders <- {s1, s2}, Receivers <- {r1}, Timed <- {s1, r1}, Trying <- {},
  MaxSends <- 1, MaxRecvs <- 2

\* One slot, for which two senders compete
Slot == INSTANCE ArrayChannel WITH
  pc <- v1, selectors <- v2, select <- v3, token <- v4, is_empty <- v5, cursor <- v6, mark <- v7,
  stamp <- v8, slot <- v9, pos <- v10, msg <- v11, calls <- v12, hang <- v13, drop_head <- v14,
  Senders <- {s1, s2}, Receivers <- {r1}, Timed <- {r1}, Trying <- {s2},
  MaxSends <- 1, MaxRecvs <- 2, cap <- 1, one_lap <- 4, Laps <- 2

\* Two slots, and messages for more than a lap
Ring == INSTANCE ArrayChannel WITH
  pc <- v1, selectors <- v2, select <- v3, token <- v4, is_empty <- v5, cursor <- v6, mark <- v7,
  stamp <- v8, slot <- v9, pos <- v10, msg <- v11, calls <- v12, hang <- v13, drop_head <- v14,
  Senders <- {s1}, Receivers <- {r1, r2}, Timed <- {s1}, Trying <- {r2},
  MaxSends <- 3, MaxRecvs <- 1, cap <- 2, one_lap <- 8, Laps <- 2

\* Blocks of two slots
Blocks == INSTANCE ListChannel WITH
  pc <- v1, selectors <- v2, select <- v3, token <- v4, is_empty <- v5, index <- v6, mark <- v7,
  block <- v8, next <- v9, state <- v10, slot <- v11, freed <- v12, pos <- v13, posmark <- v14,
  blk <- v15, start <- v16, msg <- v17, calls <- v18, hang <- v19, sweep <- v20,
  Senders <- {s1}, Receivers <- {r1, r2}, Timed <- {r1}, Trying <- {r2},
  MaxSends <- 2, MaxRecvs <- 1, LAP <- 3

\* Blocks of one slot, three of them in line: the head moves to a block that has a
\* successor and is marked
Chain == INSTANCE ListChannel WITH
  pc <- v1, selectors <- v2, select <- v3, token <- v4, is_empty <- v5, index <- v6, mark <- v7,
  block <- v8, next <- v9, state <- v10, slot <- v11, freed <- v12, pos <- v13, posmark <- v14,
  blk <- v15, start <- v16, msg <- v17, calls <- v18, hang <- v19, sweep <- v20,
  Senders <- {s1}, Receivers <- {r1}, Timed <- {r1}, Trying <- {},
  MaxSends <- 2, MaxRecvs <- 2, LAP <- 2

Handles == INSTANCE ChannelCounter WITH
  count <- v1, destroy <- v2, handles <- v3, pc <- v4, freed <- v5, panicked <- v6,
  Threads <- {s1, s2, r1}, MaxHandles <- 3

Refs == INSTANCE Arc WITH
  strong <- v1, weak <- v2, data <- v3, freed <- v4, arcs <- v5, weaks <- v6, pc <- v7, cur <- v8,
  Threads <- {s1, s2, r1}, MaxRefs <- 3, Locked <- 7

Deque == INSTANCE VecDeque WITH
  deque <- v1, drain <- v2, draining <- v3, call <- v4, out <- v5, calls <- v6,
  MaxCap <- 7, MaxNew <- 3, MaxCalls <- 1, MIN_NON_ZERO_CAP <- 4

Vector == INSTANCE VecGuards WITH
  slots <- v1, len <- v2, g <- v3, orig <- v4, at <- v5, inserted <- v6, released <- v7,
  leaked <- v8, MaxLen <- 5, MaxNew <- 4

-----------------------------------------------------------------------------
\* The variables after the n-th, and that they are blank
Rest14 == <<v15, v16, v17, v18, v19, v20>>
Rest12 == <<v13, v14, Rest14>>
Rest8 == <<v9, v10, v11, v12, Rest12>>
Rest6 == <<v7, v8, Rest8>>
Rest0 == <<v1, v2, v3, v4, v5, v6, Rest6>>
Blank14 == v15 = 0 /\ v16 = 0 /\ v17 = 0 /\ v18 = 0 /\ v19 = 0 /\ v20 = 0
Blank12 == v13 = 0 /\ v14 = 0 /\ Blank14
Blank8 == v9 = 0 /\ v10 = 0 /\ v11 = 0 /\ v12 = 0 /\ Blank12
Blank6 == v7 = 0 /\ v8 = 0 /\ Blank8
Blank0 == v1 = 0 /\ v2 = 0 /\ v3 = 0 /\ v4 = 0 /\ v5 = 0 /\ v6 = 0 /\ Blank6

fixed == <<part, vars>>
all == <<fixed, Rest0>>

DataInit ==
  \/ part = "table" /\ Init /\ Blank0
  \/ /\ results = {} /\ given = {} /\ width = <<>> /\ lines = <<>>
     /\ \/ part = "zero" /\ Zero!Init /\ Blank12
        \/ part = "slot" /\ Slot!Init /\ Blank14
        \/ part = "ring" /\ Ring!Init /\ Blank14
        \/ part = "list" /\ Blocks!Init
        \/ part = "chain" /\ Chain!Init
        \/ part = "counter" /\ Handles!Init /\ Blank6
        \/ part = "arc" /\ Refs!Init /\ Blank8
        \/ part = "deque" /\ Deque!Init /\ Blank6
        \/ part = "vec" /\ Vector!Init /\ Blank8

DataNext ==
  \/ part = "table" /\ Next /\ UNCHANGED <<part, Rest0>>
  \/ part = "zero" /\ Zero!Next /\ UNCHANGED <<fixed, Rest12>>
  \/ part = "slot" /\ Slot!Next /\ UNCHANGED <<fixed, Rest14>>
  \/ part = "ring" /\ Ring!Next /\ UNCHANGED <<fixed, Rest14>>
  \/ part = "list" /\ Blocks!Next /\ UNCHANGED fixed
  \/ part = "chain" /\ Chain!Next /\ UNCHANGED fixed
  \/ part = "counter" /\ Handles!Next /\ UNCHANGED <<fixed, Rest6>>
  \/ part = "arc" /\ Refs!Next /\ UNCHANGED <<fixed, Rest8>>
  \/ part = "deque" /\ Deque!Next /\ UNCHANGED <<fixed, Rest6>>
  \/ part = "vec" /\ Vector!Next /\ UNCHANGED <<fixed, Rest8>>

\* What thread t does once it runs, in whichever part.
Runs(t) ==
  \/ part = "zero" /\ t # r2 /\ Zero!Step(t) /\ UNCHANGED <<fixed, Rest12>>
  \/ part = "slot" /\ t # r2 /\ Slot!Step(t) /\ UNCHANGED <<fixed, Rest14>>
  \/ part = "ring" /\ t # s2 /\ Ring!Step(t) /\ UNCHANGED <<fixed, Rest14>>
  \/ part = "list" /\ t # s2 /\ Blocks!Step(t) /\ UNCHANGED fixed
  \/ part = "chain" /\ t \in {s1, r1} /\ Chain!Step(t) /\ UNCHANGED fixed
  \/ part = "arc" /\ t # r2 /\ Refs!Step(t) /\ UNCHANGED <<fixed, Rest8>>
  \/ /\ part = "counter" /\ t # r2
     /\ Handles!Disconnect(t) \/ Handles!Swap(t) \/ Handles!Free(t)
     /\ UNCHANGED <<fixed, Rest6>>

\* The drop of the last handle of a side.
Drops(side) ==
  \/ part = "zero" /\ Zero!HangUp(side) /\ UNCHANGED <<fixed, Rest12>>
  \/ part = "slot" /\ Slot!HangStep(side) /\ UNCHANGED <<fixed, Rest14>>
  \/ part = "ring" /\ Ring!HangStep(side) /\ UNCHANGED <<fixed, Rest14>>
  \/ part = "list" /\ Blocks!HangStep(side) /\ UNCHANGED fixed
  \/ part = "chain" /\ Chain!HangStep(side) /\ UNCHANGED fixed

\* The fairness of the parts: a thread that can run is scheduled, and both ends of a
\* channel are dropped at last.
DataSpec == /\ DataInit /\ [][DataNext]_all
            /\ \A t \in {s1, s2, r1, r2} : WF_all(Runs(t))
            /\ \A side \in {"senders", "receivers"} : WF_all(Drops(side))

-----------------------------------------------------------------------------
(***************************************************************************)
(* Properties.  ColumnsAligned is in TableLayout.                          *)
(***************************************************************************)
\* What is kept twice agrees: a thread is in the queue of a waker exactly as long as its
\* operation is blocked and the flag beside the queue tells, the counts of an Arc and of
\* a channel are the numbers of references, and the head and length of a deque describe
\* its buffer after copies that all kept their bounds.
WordsExact ==
  /\ part = "zero" => Zero!TypeOK
  /\ part = "slot" => Slot!TypeOK
  /\ part = "ring" => Ring!TypeOK
  /\ part = "list" => Blocks!TypeOK
  /\ part = "chain" => Chain!TypeOK
  /\ part = "counter" => Handles!TypeOK
  /\ part = "arc" => Refs!TypeOK /\ Refs!CountsExact
  /\ part = "deque" => Deque!TypeOK /\ Deque!CopiesSound

\* A bounded and an unbounded channel are queues: each message reaches one receiver, in
\* the order of the sends, never more than cap of them are under way, and nothing is sent
\* once an end is gone.
Buffered == INSTANCE ChannelSpec WITH
  Messages <- {s1, s2} \X (1..3),
  Receivers <- {r1, r2},
  capacity <- CASE part = "slot" -> 1 [] part = "ring" -> 2 [] OTHER -> 3,
  gone <- CASE part = "slot" -> Slot!Gone
            [] part = "ring" -> Ring!Gone
            [] part = "list" -> Blocks!Gone
            [] part = "chain" -> Chain!Gone
            [] OTHER -> {},
  queue <- CASE part = "slot" -> Slot!Queue
             [] part = "ring" -> Ring!Queue
             [] part = "list" -> Blocks!Queue
             [] part = "chain" -> Chain!Queue
             [] OTHER -> <<>>,
  hand <- [r \in {r1, r2} |->
             CASE part = "slot" /\ r = r1 -> Slot!Hand(r)
               [] part = "ring" -> Ring!Hand(r)
               [] part = "list" -> Blocks!Hand(r)
               [] part = "chain" /\ r = r1 -> Chain!Hand(r)
               [] OTHER -> None]
ImplementsChannel == Buffered!Spec

\* Nobody sleeps beside the peer it waits for: no receiver beside a message, no sender
\* beside a free slot, and no sender and receiver of an unbuffered channel side by side,
\* whatever expired operations stand in the queues.
NobodyOverslept ==
  /\ part = "zero" => Zero!NoMissedMeeting
  /\ part = "slot" => Slot!NobodyOverslept
  /\ part = "ring" => Ring!NobodyOverslept
  /\ part = "list" => Blocks!NobodyOverslept
  /\ part = "chain" => Chain!NobodyOverslept

\* No message is lost or doubled by a deadline, a disconnect and a pairing in any order,
\* and none stays behind in the buffer when the channel is dropped, unless the destructor
\* of a message before it panicked.
NothingLost ==
  /\ part = "zero" => Zero!MessageInOnePlace
  /\ part = "slot" => Slot!NothingLeaked
  /\ part = "ring" => Ring!NothingLeaked
  /\ part = "list" => Blocks!NothingLeaked
  /\ part = "chain" => Chain!NothingLeaked

\* What a thread reads or writes is there and, where it must be, its own: the packet on
\* the stack of a peer, a slot, a block of the list (deallocated once), the counters of a
\* channel, the ArcInner and the data behind a &mut of get_mut or make_mut.
MemorySound ==
  /\ part = "zero" => Zero!PacketAlive
  /\ part = "slot" => Slot!SlotsExclusive
  /\ part = "ring" => Ring!SlotsExclusive
  /\ part = "list" => Blocks!BlocksFreedOnce /\ Blocks!NoUseAfterFree
  /\ part = "chain" => Chain!BlocksFreedOnce /\ Chain!NoUseAfterFree
  /\ part = "counter" => Handles!FreedLast
  /\ part = "arc" => Refs!NoUseAfterFree /\ Refs!MutIsExclusive

\* Every call on a channel returns once its ends are dropped, and the memory of an Arc or
\* a channel is freed when the last reference is gone, unless the destructor of the data
\* or of a message panicked.
CallsReturn ==
  <>[](CASE part = "zero" -> Zero!Settled
         [] part = "slot" -> Slot!Settled
         [] part = "ring" -> Ring!Settled
         [] part = "list" -> Blocks!Settled
         [] part = "chain" -> Chain!Settled
         [] part = "counter" -> Handles!Settled
         [] part = "arc" -> Refs!Settled
         [] OTHER -> TRUE)

\* Whatever the layout of the ring, every call of VecDeque does to the sequence of its
\* elements what it promises, and gives out or drops the elements that leave it, each
\* once: growing, shrinking (also when the allocator fails), an iterator or a predicate
\* that panics and a leaked or dropped Drain included.
Sequence == INSTANCE DequeSpec WITH
  items <- IF part = "deque" THEN Deque!Items ELSE <<>>,
  mid <- IF part = "deque" THEN Deque!Mid ELSE <<>>,
  tail <- IF part = "deque" THEN Deque!AfterMid ELSE <<>>,
  call <- IF part = "deque" THEN v4 ELSE <<"new">>,
  out <- IF part = "deque" THEN v5 ELSE <<>>
ImplementsDeque == Sequence!Spec

\* A Vec whose caller's code panics or leaks an iterator in the middle of retain_mut,
\* dedup_by, extract_if, drain or splice owns no element twice, and unless the iterator
\* was leaked it ends with the elements that were not released, in their order.
VectorRestored == part = "vec" => Vector!LeakSafe /\ Vector!Restored

\* The table: no text is cut, and the bars stand below each other.
TableReadable == part = "table" => ColumnsAligned /\ NothingCut
=============================================================================
