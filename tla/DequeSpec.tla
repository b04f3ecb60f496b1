------------------------------- MODULE DequeSpec -------------------------------
(***************************************************************************)
(* What alloc::collections::VecDeque promises: a sequence, and for every   *)
(* call what it does to the sequence and which elements leave it, by being *)
(* returned or dropped.  A range that is being drained is out of the       *)
(* sequence, and what follows it returns when the Drain is dropped.        *)
(***************************************************************************)
EXTENDS Naturals, Sequences, SequencesExt

VARIABLES items,     \* the elements of the deque
          mid, tail, \* while a Drain is alive: what it still has to yield, and what follows
          call,      \* the last call, with its arguments
          out        \* the elements that left by it, in order

Init == mid = <<>> /\ tail = <<>> /\ out = <<>> /\ call = <<"new">>

First(s, n) == SubSeq(s, 1, n)
From(s, i) == SubSeq(s, i + 1, Len(s))          \* from the zero-based index i on
Swapped(s, i, j) == [s EXCEPT ![i + 1] = s[j + 1], ![j + 1] = s[i + 1]]

\* What a call c does to the sequence s: t is the sequence after it, r what leaves.
Effect(c, s, t, r) ==
  \/ c[1] = "push_front" /\ t = <<c[2]>> \o s /\ r = <<>>
  \/ c[1] = "push_back" /\ t = Append(s, c[2]) /\ r = <<>>
  \/ c[1] = "insert" /\ t = InsertAt(s, c[2] + 1, c[3]) /\ r = <<>>
  \/ c[1] = "pop_front" /\ s # <<>> /\ t = Tail(s) /\ r = <<Head(s)>>
  \/ c[1] = "pop_back" /\ s # <<>> /\ t = Front(s) /\ r = <<Last(s)>>
  \/ /\ c[1] \in {"remove", "swap_remove_front", "swap_remove_back"} /\ c[2] < Len(s)
     /\ r = <<s[c[2] + 1]>>
     /\ t = CASE c[1] = "remove" -> RemoveAt(s, c[2] + 1)
               [] c[1] = "swap_remove_front" -> Tail(Swapped(s, c[2], 0))
               [] c[1] = "swap_remove_back" -> Front(Swapped(s, c[2], Len(s) - 1))
  \/ /\ \/ c[1] \in {"pop_front", "pop_back"} /\ s = <<>>
        \/ c[1] \in {"remove", "swap_remove_front", "swap_remove_back"} /\ c[2] >= Len(s)
     /\ t = s /\ r = <<>>                            \* None
  \/ c[1] = "truncate" /\ s = t \o r /\ Len(t) = IF c[2] < Len(s) THEN c[2] ELSE Len(s)
  \/ c[1] = "split_off" /\ s = t \o r /\ Len(t) = c[2]
  \/ c[1] \in {"append", "extend"} /\ t = s \o c[2] /\ r = <<>>
  \/ c[1] = "retain" /\ t = SelectSeq(s, LAMBDA x : x \in c[2])
                     /\ ToSet(r) = ToSet(s) \ c[2] /\ Len(r) = Len(s) - Len(t)
  \/ c[1] = "retain_panics" /\ ToSet(t) = ToSet(s) /\ Len(t) = Len(s) /\ r = <<>>
  \/ c[1] = "rotate_left" /\ t = From(s, c[2]) \o First(s, c[2]) /\ r = <<>>
  \/ c[1] = "rotate_right" /\ s = From(t, c[2]) \o First(t, c[2]) /\ r = <<>>
  \/ c[1] \in {"reserve", "shrink_to"} /\ t = s /\ r = <<>>
  \/ c[1] = "make_contiguous" /\ t = s /\ r = s      \* r: the slice that is returned
  \/ c[1] = "into_vec" /\ t = <<>> /\ r = s

Operate == Effect(call', items, items', out') /\ UNCHANGED <<mid, tail>>

Drain == /\ call'[1] = "drain" /\ out' = <<>>
         /\ items' = First(items, call'[2])
         /\ mid' = First(From(items, call'[2]), call'[3])
         /\ tail' = From(items, call'[2] + call'[3])

DrainNext == /\ \/ call' = <<"next">> /\ mid = out' \o mid'
                \/ call' = <<"next_back">> /\ mid = mid' \o out'
             /\ Len(out') = 1
             /\ UNCHANGED <<items, tail>>

DrainDrop == /\ call' = <<"drop">> /\ out' = mid
             /\ items' = items \o tail
             /\ mid' = <<>> /\ tail' = <<>>

\* A Drain that is never dropped takes what follows the range with it.
DrainLeak == /\ call' = <<"forget">> /\ out' = <<>>
             /\ mid' = <<>> /\ tail' = <<>>
             /\ UNCHANGED items

Next == Operate \/ Drain \/ DrainNext \/ DrainDrop \/ DrainLeak

Spec == Init /\ [][Next]_<<items, mid, tail, call, out>>
=============================================================================
