------------------------------- MODULE VecGuards -------------------------------
(***************************************************************************)
(* The operations of library/alloc/src/vec that run code of their caller   *)
(* while the vector has holes: retain_mut, dedup_by, ExtractIf, Drain and  *)
(* Splice.  The predicate, the iterator or a destructor may panic at every *)
(* call; then a guard repairs the vector.  Copying an element leaves its   *)
(* bits behind: who owns it depends on the length and the guard alone.     *)
(***************************************************************************)
EXTENDS Naturals, Sequences

CONSTANTS MaxLen,      \* bound on the length of the vector
          MaxNew       \* bound on the elements that replace a spliced range

Slots == 0..MaxLen + 2 * MaxNew - 1      \* reserve always finds the room
Hole == 0
Elements == 1..MaxLen + MaxNew
New(k) == MaxLen + k                     \* the k-th element of the splicing iterator

VARIABLES
  slots, len,
  g,           \* the operation under way, with the fields of its guard
  \* history
  orig,        \* the vector at the start, holding 1..orig
  at,          \* where the spliced range started
  inserted,    \* what the splicing iterator put into the vector
  released,    \* how often each element was dropped or handed out
  leaked       \* an iterator was forgotten

vars == <<slots, len, g, orig, at, inserted, released, leaked>>
history == <<orig, at, inserted, leaked>>

Init == /\ orig \in 0..MaxLen /\ len = orig
        /\ slots = [i \in Slots |-> IF i < len THEN i + 1 ELSE Hole]
        /\ g = [op |-> "idle"]
        /\ at = 0 /\ inserted = << >> /\ leaked = FALSE
        /\ released = [x \in Elements |-> 0]

Copy(s, src, dst, n) == [i \in Slots |-> IF i \in dst..dst + n - 1 THEN s[src + i - dst] ELSE s[i]]

Release(x) == released' = [released EXCEPT ![x] = @ + 1]

Done == g' = [op |-> "done"]

-----------------------------------------------------------------------------
\* retain_mut: the length is zero until the guard sets it
RetainStart == /\ g.op = "idle"
               /\ g' = [op |-> "retain", processed |-> 0, deleted |-> 0, original |-> len]
               /\ len' = 0
               /\ UNCHANGED <<slots, history, released>>

\* BackshiftOnDrop
Backshift(h) == /\ slots' = IF h.deleted > 0 THEN Copy(slots, h.processed, h.processed - h.deleted,
                                                       h.original - h.processed)
                            ELSE slots
                /\ len' = h.original - h.deleted
                /\ Done

RetainKeep == /\ g.op = "retain" /\ g.processed < g.original
              /\ slots' = IF g.deleted > 0 THEN Copy(slots, g.processed, g.processed - g.deleted, 1)
                          ELSE slots
              /\ g' = [g EXCEPT !.processed = @ + 1]
              /\ UNCHANGED <<len, history, released>>

\* Faulty: the counters advance after the destructor.
Deleting_Late(h) == h

\* The counters advance before the destructor.
Deleting(h) == [h EXCEPT !.processed = @ + 1, !.deleted = @ + 1]

\* The predicate rejects the element; the second disjunct: its destructor panics.
RetainDelete == /\ g.op = "retain" /\ g.processed < g.original
                /\ Release(slots[g.processed])
                /\ \/ /\ g' = [g EXCEPT !.processed = @ + 1, !.deleted = @ + 1]
                      /\ UNCHANGED <<slots, len>>
                   \/ Backshift(Deleting(g))
                /\ UNCHANGED history

\* The loop is over, or the predicate panics.
RetainEnd == g.op = "retain" /\ Backshift(g) /\ UNCHANGED <<history, released>>

-----------------------------------------------------------------------------
\* dedup_by: up to the first duplicate nothing is moved and there is no guard
DedupStart == /\ g.op = "idle" /\ len > 1
              /\ g' = [op |-> "scan", read |-> 1]
              /\ UNCHANGED <<slots, len, history, released>>

DedupScan == /\ g.op = "scan" /\ g.read < len
             /\ g' = [g EXCEPT !.read = @ + 1]
             /\ UNCHANGED <<slots, len, history, released>>

\* Nothing to remove, or same_bucket panics.
DedupNothing == g.op = "scan" /\ Done /\ UNCHANGED <<slots, len, history, released>>

\* FillGapOnDrop
FillGap(h) == /\ slots' = Copy(slots, h.read, h.write, len - h.read)
              /\ len' = len - (h.read - h.write)
              /\ Done

\* The first duplicate is dropped, with the guard in place; its destructor may panic.
DedupFirst == /\ g.op = "scan" /\ g.read < len
              /\ Release(slots[g.read])
              /\ LET h == [op |-> "gap", read |-> g.read + 1, write |-> g.read]
                 IN (g' = h /\ UNCHANGED <<slots, len>>) \/ FillGap(h)
              /\ UNCHANGED history

DedupKeep == /\ g.op = "gap" /\ g.read < len
             /\ slots' = Copy(slots, g.read, g.write, 1)
             /\ g' = [g EXCEPT !.read = @ + 1, !.write = @ + 1]
             /\ UNCHANGED <<len, history, released>>

DedupDrop == /\ g.op = "gap" /\ g.read < len
             /\ Release(slots[g.read])
             /\ LET h == [g EXCEPT !.read = @ + 1]
                IN (g' = h /\ UNCHANGED <<slots, len>>) \/ FillGap(h)
             /\ UNCHANGED history

\* The loop is over (set_len(write)), or same_bucket panics: the guard does the same.
DedupEnd == g.op = "gap" /\ FillGap(g) /\ UNCHANGED <<history, released>>

-----------------------------------------------------------------------------
\* extract_if: the length is zero until the iterator is dropped
ExtractStart == /\ g.op = "idle"
                /\ g' = [op |-> "extract", idx |-> 0, del |-> 0, old_len |-> len, inside |-> FALSE]
                /\ len' = 0
                /\ UNCHANGED <<slots, history, released>>

\* The predicate, called by next(): the index moves after it has returned.
ExtractYes == /\ g.op = "extract" /\ g.idx < g.old_len
              /\ Release(slots[g.idx])
              /\ g' = [g EXCEPT !.idx = @ + 1, !.del = @ + 1, !.inside = FALSE]
              /\ UNCHANGED <<slots, len, history>>

ExtractNo == /\ g.op = "extract" /\ g.idx < g.old_len
             /\ slots' = IF g.del > 0 THEN Copy(slots, g.idx, g.idx - g.del, 1) ELSE slots
             /\ g' = [g EXCEPT !.idx = @ + 1, !.inside = g.idx + 1 < g.old_len]
             /\ UNCHANGED <<len, history, released>>

\* ExtractIf is dropped: by its owner between two calls, or because the predicate panicked.
ExtractDrop == /\ g.op = "extract"
               /\ slots' = IF g.idx < g.old_len /\ g.del > 0
                           THEN Copy(slots, g.idx, g.idx - g.del, g.old_len - g.idx) ELSE slots
               /\ len' = g.old_len - g.del
               /\ Done
               /\ UNCHANGED <<history, released>>

-----------------------------------------------------------------------------
\* drain and splice: the vector ends where the range starts
DrainStart(op) == /\ g.op = "idle"
                  /\ \E start \in 0..len : \E end \in start..len :
                       /\ g' = [op |-> op, front |-> start, back |-> end,
                                tail_start |-> end, tail_len |-> len - end,
                                step |-> "yield", left |-> 0]
                       /\ len' = start /\ at' = start
                  /\ UNCHANGED <<slots, orig, inserted, leaked, released>>

Draining == g.op \in {"drain", "splice"} /\ g.step = "yield"

DrainNext == /\ Draining /\ g.front < g.back
             /\ \/ Release(slots[g.front]) /\ g' = [g EXCEPT !.front = @ + 1]
                \/ Release(slots[g.back - 1]) /\ g' = [g EXCEPT !.back = @ - 1]
             /\ UNCHANGED <<slots, len, history>>

\* Faulty: the tail stays where it is.
TailBack_Never(h) == FALSE

TailBack(h) == h.tail_len > 0

\* Drain::drop: what was not yielded is dropped, panic or not, and the guard moves the tail
DrainDropped(h) ==
  /\ released' = [x \in Elements |-> released[x] + (IF \E i \in h.front..h.back - 1 : slots[i] = x
                                                    THEN 1 ELSE 0)]
  /\ IF TailBack(h) THEN slots' = Copy(slots, h.tail_start, len, h.tail_len) /\ len' = len + h.tail_len
     ELSE UNCHANGED <<slots, len>>
  /\ Done

DrainDrop == g.op = "drain" /\ DrainDropped(g) /\ UNCHANGED history

keep_rest == /\ g.op = "drain"
             /\ LET n == g.back - g.front
                    s == Copy(slots, g.front, len, n)
                IN /\ slots' = Copy(s, g.tail_start, len + n, g.tail_len)
                   /\ len' = len + n + g.tail_len
             /\ Done
             /\ UNCHANGED <<history, released>>

\* The iterator is leaked.
Forget == /\ \/ Draining
             \/ g.op = "extract" /\ ~g.inside
          /\ Done
          /\ leaked' = TRUE
          /\ UNCHANGED <<slots, len, orig, at, inserted, released>>

-----------------------------------------------------------------------------
\* Splice::drop: the range is dropped element by element.  A destructor that panics ends
\* it, and Drain::drop does the rest.
SpliceDrop == /\ g.op = "splice" /\ g.step = "yield"
              /\ \E n \in 0..MaxNew : g' = [g EXCEPT !.step = "empty", !.left = n]
              /\ UNCHANGED <<slots, len, history, released>>

SpliceEmpty == /\ g.op = "splice" /\ g.step = "empty" /\ g.front < g.back
               /\ Release(slots[g.front])
               /\ g' = [g EXCEPT !.front = @ + 1]
               /\ UNCHANGED <<slots, len, history>>

\* Without a tail the vector is extended, otherwise the range is filled first.
SpliceEmptied == /\ g.op = "splice" /\ g.step = "empty" /\ g.front = g.back
                 /\ g' = [g EXCEPT !.step = IF g.tail_len = 0 THEN "extend" ELSE "fill"]
                 /\ UNCHANGED <<slots, len, history, released>>

\* replace_with.next() is Some: written, then counted
SpliceTake == /\ g.op = "splice" /\ g.left > 0
              /\ g.step = "extend" \/ (g.step \in {"fill", "refill", "last"} /\ len < g.tail_start)
              /\ slots' = [slots EXCEPT ![len] = New(Len(inserted) + 1)]
              /\ inserted' = Append(inserted, New(Len(inserted) + 1))
              /\ len' = len + 1
              /\ g' = [g EXCEPT !.left = @ - 1]
              /\ UNCHANGED <<orig, at, leaked, released>>

\* move_tail
Moved(h, n) == [h EXCEPT !.tail_start = @ + n]

\* The range is full: the tail moves by the lower bound of the size hint, if there is one.
SpliceHint == /\ g.op = "splice" /\ g.step = "fill" /\ len = g.tail_start
              /\ \E lower \in 0..g.left :
                   /\ g' = [Moved(g, lower) EXCEPT !.step = IF lower > 0 THEN "refill" ELSE "collect"]
                   /\ slots' = Copy(slots, g.tail_start, g'.tail_start, g.tail_len)
              /\ UNCHANGED <<len, history, released>>

SpliceRefilled == /\ g.op = "splice" /\ g.step = "refill" /\ len = g.tail_start
                  /\ g' = [g EXCEPT !.step = "collect"]
                  /\ UNCHANGED <<slots, len, history, released>>

\* The rest is collected and counted exactly.
SpliceCollect == /\ g.op = "splice" /\ g.step = "collect" /\ g.left > 0
                 /\ g' = [Moved(g, g.left) EXCEPT !.step = "last"]
                 /\ slots' = Copy(slots, g.tail_start, g'.tail_start, g.tail_len)
                 /\ UNCHANGED <<len, history, released>>

\* The iterator is at its end, or it or a destructor panics: Drain::drop runs.
SpliceEnd == /\ g.op = "splice" /\ g.step # "yield" /\ (g.step = "last" => g.left = 0)
             /\ DrainDropped(g)
             /\ UNCHANGED history

-----------------------------------------------------------------------------
Over == g.op = "done" /\ UNCHANGED vars

Next == \/ RetainStart \/ RetainKeep \/ RetainDelete \/ RetainEnd
        \/ DedupStart \/ DedupScan \/ DedupNothing \/ DedupFirst \/ DedupKeep \/ DedupDrop \/ DedupEnd
        \/ ExtractStart \/ ExtractYes \/ ExtractNo \/ ExtractDrop
        \/ DrainStart("drain") \/ DrainStart("splice") \/ DrainNext \/ DrainDrop \/ keep_rest
        \/ Forget
        \/ SpliceDrop \/ SpliceEmpty \/ SpliceEmptied \/ SpliceTake \/ SpliceHint \/ SpliceRefilled
        \/ SpliceCollect \/ SpliceEnd
        \/ Over

Spec == Init /\ [][Next]_vars

-----------------------------------------------------------------------------
Contents == [k \in 1..len |-> slots[k - 1]]

\* What the vector would drop if everything ended now is its own: no hole, no element
\* twice, none that was dropped or handed out before.  So an iterator may be leaked at any
\* time.  (dedup_by alone has its holes inside the length, out of its caller's reach.)
LeakSafe ==
  /\ \A x \in Elements : released[x] <= 1
  /\ g.op # "gap" => \A j \in 1..len : /\ Contents[j] \in Elements
                                       /\ released[Contents[j]] = 0
                                       /\ \A k \in 1..len : Contents[k] = Contents[j] => k = j

\* After the operation, also when the predicate, the iterator or a destructor panicked: the
\* vector holds the elements that were not released, in their old order, and what was
\* spliced in stands where the range was.
Restored ==
  g.op = "done" /\ ~leaked =>
    LET Kept(x) == released[x] = 0
        Old(i, n) == SelectSeq([k \in 1..n |-> i + k], Kept)
    IN Contents = Old(0, at) \o SelectSeq(inserted, Kept) \o Old(at, orig - at)
=============================================================================
