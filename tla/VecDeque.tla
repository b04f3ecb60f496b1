-------------------------------- MODULE VecDeque --------------------------------
(***************************************************************************)
(* The ring buffer of library/alloc/src/collections/vec_deque: mod.rs,     *)
(* drain.rs and spec_extend.rs.  An operation is an operator from deque to *)
(* deque, made of the copies the code makes in the order it makes them.    *)
(***************************************************************************)
EXTENDS Integers, Sequences, SequencesExt, FiniteSets

CONSTANTS MaxCap,              \* bound on the capacities of the first state
          MaxNew,              \* bound on the elements one call adds, and on the room it asks for
          MaxCalls,            \* bound on the calls made, those of a Drain left out
          MIN_NON_ZERO_CAP     \* what a first allocation holds at least

Hole == 0                      \* memory that holds no element
NoDrain == [drain_len |-> 0, idx |-> 0, new_len |-> 0, remaining |-> 0]

VARIABLES
  deque,      \* buf, cap, head, len; sound: every precondition of a copy was met
  drain,      \* the Drain that borrows the deque, or NoDrain
  draining,
  call, out,  \* the last call and the elements that left by it
  calls

vars == <<deque, drain, draining, call, out, calls>>

-----------------------------------------------------------------------------
wrap_index(i, cap) == IF i >= cap THEN i - cap ELSE i

wrap_add(d, i, n) == wrap_index(i + n, d.cap)
wrap_sub(d, i, n) == wrap_index(i - n + d.cap, d.cap)
to_physical_idx(d, i) == wrap_add(d, d.head, i)

\* Faulty: one element too many before the buffer grows.
is_full_Late(d) == d.len > d.cap

is_full(d) == d.len = d.cap
is_contiguous(d) == d.head <= d.cap - d.len

\* The elements at the n logical indices from i on, and at the n physical ones.
Logical(d, i, n) == [k \in 1..n |-> d.buf[to_physical_idx(d, i + k - 1)]]
Physical(d, i, n) == [k \in 1..n |-> d.buf[i + k - 1]]

buffer_write(d, i, x) == [d EXCEPT !.buf[i] = x]

\* copy: with the two assertions on its bounds
copy(d, src, dst, n) ==
  [d EXCEPT !.buf = [i \in 0..d.cap - 1 |-> IF i \in dst..dst + n - 1 /\ src + i - dst < d.cap
                                            THEN d.buf[src + i - dst] ELSE d.buf[i]],
            !.sound = @ /\ dst + n <= d.cap /\ src + n <= d.cap]

copy_nonoverlapping(d, src, dst, n) ==
  [copy(d, src, dst, n) EXCEPT !.sound = @ /\ (dst + n <= src \/ src + n <= dst)]

\* dst_after_src: the target begins inside the source
AfterSource(d, src, dst, n) == wrap_sub(d, dst, src) < n

\* wrap_copy: the copies <<from, to, length>>, by whether source and target wrap
Copies(d, src, dst, n) ==
  LET after == AfterSource(d, src, dst, n)
      s == d.cap - src
      t == d.cap - dst
      Ordered(c) == IF after THEN Reverse(c) ELSE c
  IN CASE s >= n /\ t >= n -> << <<src, dst, n>> >>
       [] s >= n /\ t < n  -> Ordered(<< <<src, dst, t>>, <<src + t, 0, n - t>> >>)
       [] s < n /\ t >= n  -> Ordered(<< <<src, dst, s>>, <<0, dst + s, n - s>> >>)
       [] s < n /\ t < n /\ ~after ->
            << <<src, dst, s>>, <<0, dst + s, t - s>>, <<t - s, 0, n - t>> >>
       [] OTHER -> << <<0, s - t, n - s>>, <<d.cap - (s - t), 0, s - t>>, <<src, dst, t>> >>

Distance(i, j) == IF i < j THEN j - i ELSE i - j

\* Where both wrap, the one that begins later comes to the end of the buffer first.
WrapsInTurn(d, src, dst, n) ==
  d.cap - src < n /\ d.cap - dst < n => (AfterSource(d, src, dst, n) <=> src < dst)

\* Its assertions: source and target overlap at one of their ends only, and wrap in turn.
wrap_copy(d, src, dst, n) ==
  LET far == d.cap - Distance(src, dst)
      ok == (IF far < d.cap - far THEN far ELSE d.cap - far) + n <= d.cap
      e == [d EXCEPT !.sound = @ /\ ok]
      f == [e EXCEPT !.sound = @ /\ WrapsInTurn(d, src, dst, n)]
  IN IF src = dst \/ n = 0 THEN e
     ELSE FoldLeft(LAMBDA a, c : copy(a, c[1], c[2], c[3]), f, Copies(d, src, dst, n))

\* copy_slice: a sequence of elements from the physical index dst on
copy_slice(d, dst, s) ==
  [d EXCEPT !.buf = [i \in 0..d.cap - 1 |->
                       LET k == wrap_sub(d, i, dst) IN IF k < Len(s) THEN s[k + 1] ELSE d.buf[i]],
            !.sound = @ /\ Len(s) <= d.cap]

\* slice_ranges: start and length of the two parts a logical range lies in
slice_ranges(d, start, n) ==
  LET w == to_physical_idx(d, start)
      h == d.cap - w
  IN CASE n = 0  -> << <<0, 0>>, <<0, 0>> >>
       [] n > 0 /\ h >= n -> << <<w, n>>, <<0, 0>> >>
       [] n > 0 /\ h < n  -> << <<w, h>>, <<0, n - h>> >>

\* as_slices and as_mut_slices: the elements of the two parts
as_slices(d, start, n) ==
  LET r == slice_ranges(d, start, n) IN <<Physical(d, r[1][1], r[1][2]), Physical(d, r[2][1], r[2][2])>>

-----------------------------------------------------------------------------
\* RawVec: a larger or a smaller buffer
Resized(d, cap) ==
  [d EXCEPT !.cap = cap,
            !.buf = [i \in 0..cap - 1 |-> IF i < d.cap THEN d.buf[i] ELSE Hole]]

SetMax(S) == CHOOSE m \in S : \A n \in S : n <= m

grow_amortized(cap, len, additional) == SetMax({cap * 2, len + additional, MIN_NON_ZERO_CAP})

\* Faulty: the shorter part moves whether or not the new room holds it.
TailMoves_Shorter(d, old) == old - d.head > d.len - (old - d.head)

TailMoves(d, old) == LET tail_len == d.len - (old - d.head)
                     IN old - d.head > tail_len /\ d.cap - old >= tail_len

handle_capacity_increase(d, old) ==
  LET head_len == old - d.head
      new_head == d.cap - head_len
  IN CASE d.head <= old - d.len -> d
       [] d.head > old - d.len /\ TailMoves(d, old) ->
            copy_nonoverlapping(d, 0, old, d.len - head_len)
       [] OTHER -> [copy(d, d.head, new_head, head_len) EXCEPT !.head = new_head]

grow(d) == handle_capacity_increase(Resized(d, grow_amortized(d.cap, d.cap, 1)), d.cap)

reserve(d, n) == IF d.len + n <= d.cap THEN d
                 ELSE handle_capacity_increase(Resized(d, grow_amortized(d.cap, d.len, n)), d.cap)

reserve_exact(d, n) == IF d.len + n <= d.cap THEN d
                       ELSE handle_capacity_increase(Resized(d, d.len + n), d.cap)

\* abort_shrink: the buffer could not be reallocated
abort_shrink(d, old_head, target) ==
  LET head_len == target - d.head
      tail_len == d.len - head_len
  IN CASE d.head <= target - d.len -> d
       [] d.head > target - d.len /\ tail_len <= head_len /\ tail_len <= d.cap - target ->
            copy_nonoverlapping(d, 0, target, tail_len)
       [] OTHER -> [copy(d, d.head, old_head, head_len) EXCEPT !.head = old_head]

shrink_to(d, min, fails) ==
  LET target == IF min > d.len THEN min ELSE d.len
      tail_outside == d.head + d.len > target /\ d.head + d.len <= d.cap
      head_len == d.cap - d.head
      e == CASE d.len = 0 -> [d EXCEPT !.head = 0]
             [] d.len > 0 /\ d.head >= target /\ tail_outside ->
                  [copy_nonoverlapping(d, d.head, 0, d.len) EXCEPT !.head = 0]
             [] d.len > 0 /\ d.head < target /\ tail_outside ->
                  copy_nonoverlapping(d, target, 0, d.head + d.len - target)
             [] d.len > 0 /\ ~tail_outside /\ ~is_contiguous(d) ->
                  [copy(d, d.head, target - head_len, head_len) EXCEPT !.head = target - head_len]
             [] OTHER -> d
  IN IF d.cap <= target THEN d
     ELSE IF fails THEN abort_shrink(e, d.head, target) ELSE Resized(e, target)

-----------------------------------------------------------------------------
push_back(d, x) == LET e == IF is_full(d) THEN grow(d) ELSE d
                   IN [buffer_write(e, to_physical_idx(e, e.len), x) EXCEPT !.len = @ + 1]

push_front(d, x) == LET e == IF is_full(d) THEN grow(d) ELSE d
                        h == wrap_sub(e, e.head, 1)
                    IN [buffer_write(e, h, x) EXCEPT !.head = h, !.len = @ + 1]

pop_front(d) == IF d.len = 0 THEN d
                ELSE [d EXCEPT !.head = to_physical_idx(d, 1), !.len = @ - 1]

pop_back(d) == IF d.len = 0 THEN d ELSE [d EXCEPT !.len = @ - 1]

swap(d, i, j) == LET ri == to_physical_idx(d, i)
                     rj == to_physical_idx(d, j)
                 IN [d EXCEPT !.buf[ri] = d.buf[rj], !.buf[rj] = d.buf[ri]]

insert(d, i, x) ==
  LET e == IF is_full(d) THEN grow(d) ELSE d
      k == e.len - i
      h == wrap_sub(e, e.head, 1)
      f == IF k < i THEN wrap_copy(e, to_physical_idx(e, i), to_physical_idx(e, i + 1), k)
           ELSE wrap_copy([e EXCEPT !.head = h], e.head, h, i)
  IN [buffer_write(f, to_physical_idx(f, i), x) EXCEPT !.len = @ + 1]

remove(d, i) ==
  LET w == to_physical_idx(d, i)
      k == d.len - i - 1
      h == to_physical_idx(d, 1)
      e == IF k < i THEN wrap_copy(d, wrap_add(d, w, 1), w, k)
           ELSE wrap_copy([d EXCEPT !.head = h], d.head, h, i)
  IN IF d.len <= i THEN d ELSE [e EXCEPT !.len = @ - 1]

swap_remove_front(d, i) == IF d.len <= i THEN d ELSE pop_front(swap(d, i, 0))
swap_remove_back(d, i) == IF d.len <= i THEN d ELSE pop_back(swap(d, i, d.len - 1))

rotate_left_inner(d, mid) ==
  [wrap_copy(d, d.head, to_physical_idx(d, d.len), mid) EXCEPT !.head = to_physical_idx(d, mid)]

rotate_right_inner(d, k) ==
  LET h == wrap_sub(d, d.head, k)
      e == [d EXCEPT !.head = h]
  IN wrap_copy(e, to_physical_idx(e, e.len), h, k)

rotate_left(d, n) == IF n <= d.len - n THEN rotate_left_inner(d, n) ELSE rotate_right_inner(d, d.len - n)
rotate_right(d, n) == IF n <= d.len - n THEN rotate_right_inner(d, n) ELSE rotate_left_inner(d, d.len - n)

\* slice::rotate_left(k) on the n places from i on
RotatePlaces(d, i, n, k) ==
  [d EXCEPT !.buf = [j \in 0..d.cap - 1 |-> IF j \in i..i + n - 1
                                            THEN d.buf[i + ((j - i + k) % n)] ELSE d.buf[j]]]

make_contiguous(d) ==
  LET free == d.cap - d.len
      head_len == d.cap - d.head
      tail_len == d.len - head_len
  IN CASE is_contiguous(d) -> d
       [] ~is_contiguous(d) /\ free >= head_len ->
            [copy_nonoverlapping(copy(d, 0, head_len, tail_len), d.head, 0, head_len) EXCEPT !.head = 0]
       [] ~is_contiguous(d) /\ free < head_len /\ free >= tail_len ->
            [copy_nonoverlapping(copy(d, d.head, tail_len, head_len), 0, tail_len + head_len, tail_len)
               EXCEPT !.head = tail_len]
       [] ~is_contiguous(d) /\ free < tail_len /\ tail_len < head_len ->
            [RotatePlaces(copy(d, 0, free, tail_len), free, d.len, tail_len) EXCEPT !.head = free]
       [] OTHER ->
            [RotatePlaces(copy(d, d.head, tail_len, head_len), 0, d.len, d.len - head_len)
               EXCEPT !.head = 0]

\* truncate: the elements it drops; the length is set before any destructor runs
Truncated(d, n) ==
  LET s == as_slices(d, 0, d.len)
  IN CASE n >= d.len -> <<>>
       [] n < d.len /\ n > Len(s[1]) -> SubSeq(s[2], n - Len(s[1]) + 1, Len(s[2]))
       [] n < d.len /\ n <= Len(s[1]) -> SubSeq(s[1], n + 1, Len(s[1])) \o s[2]

truncate(d, n) == IF n >= d.len THEN d ELSE [d EXCEPT !.len = n]

clear(d) == [truncate(d, 0) EXCEPT !.head = 0]

\* split_off: what is copied to the other deque
SplitOff(d, at) ==
  LET s == as_slices(d, 0, d.len)
      first_len == Len(s[1])
  IN IF at < first_len THEN SubSeq(s[1], at + 1, first_len) \o s[2]
     ELSE SubSeq(s[2], at - first_len + 1, Len(s[2]))

\* append: the elements of the other deque arrive as the two slices l and r
append(d, l, r) ==
  LET e == reserve(d, Len(l) + Len(r))
      f == copy_slice(copy_slice(e, to_physical_idx(e, e.len), l), to_physical_idx(e, e.len + Len(l)), r)
  IN [f EXCEPT !.len = @ + Len(l) + Len(r)]

\* spec_extend from a slice, and from an iterator of exactly n elements that panics after
\* it has yielded s (write_iter_wrapping: the guard counts what was written)
extend_slice(d, s) == LET e == reserve(d, Len(s))
                      IN [copy_slice(e, to_physical_idx(e, e.len), s) EXCEPT !.len = @ + Len(s)]

extend_trusted(d, s, n) ==
  LET e == reserve(d, n)
      dst == to_physical_idx(e, e.len)
      head_room == e.cap - dst
      Put(a, k) == buffer_write(a, IF k <= head_room THEN dst + k - 1 ELSE k - 1 - head_room, s[k])
  IN [FoldLeft(Put, e, [k \in 1..Len(s) |-> k]) EXCEPT !.len = @ + Len(s)]

\* spec_extend from any iterator: lower is what its size hint promises beyond the next one
extend_desugared(d, s, lower) ==
  LET Push(a, k) == LET e == IF k = 1 \/ is_full(a) THEN reserve(a, lower + 1) ELSE a
                    IN [buffer_write(e, to_physical_idx(e, e.len), s[k]) EXCEPT !.len = @ + 1]
  IN FoldLeft(Push, d, [k \in 1..Len(s) |-> k])

\* retain_mut up to the index n, where the predicate may panic: the deque and the index to
\* which retained elements are swapped.  The first stage is the second while idx = cur.
Retained(d, keep, n) ==
  LET Visit(a, k) == IF Logical(a[1], k - 1, 1)[1] \in keep THEN <<swap(a[1], a[2], k - 1), a[2] + 1>>
                     ELSE a
  IN FoldLeft(Visit, <<d, 0>>, [k \in 1..n |-> k])

\* Drain: the hole is closed by moving what is before or what is behind it.
DrainJoined(d, r) ==
  LET head_len == d.len
      tail_len == r.new_len - d.len
      joined == CASE head_len = 0 \/ tail_len = 0 -> d
                  [] head_len > 0 /\ head_len < tail_len ->
                       wrap_copy(d, d.head, to_physical_idx(d, r.drain_len), head_len)
                  [] OTHER -> wrap_copy(d, to_physical_idx(d, head_len + r.drain_len),
                                        to_physical_idx(d, head_len), tail_len)
      head == CASE r.new_len = 0 -> 0
                [] r.new_len > 0 /\ head_len < tail_len -> to_physical_idx(d, r.drain_len)
                [] OTHER -> d.head
  IN [joined EXCEPT !.head = head, !.len = r.new_len]

-----------------------------------------------------------------------------
\* Every layout that pushes and pops lead to: its elements are numbered in their order.
Layout(cap, head, len) ==
  LET d == [buf |-> [i \in 0..cap - 1 |-> Hole], cap |-> cap, head |-> head, len |-> len,
            sound |-> TRUE]
  IN copy_slice(d, head, [k \in 1..len |-> k])

Init == /\ \E cap \in 0..MaxCap : \E len \in 0..cap, head \in {0} \cup 0..cap - 1 :
             deque = Layout(cap, head, len)
        /\ drain = NoDrain /\ draining = FALSE
        /\ call = <<"new">> /\ out = <<>> /\ calls = 0

\* Memory outside the elements holds nothing that may be read again.
Tidy(d) == [d EXCEPT !.buf = [i \in 0..d.cap - 1 |-> IF wrap_sub(d, i, d.head) < d.len
                                                     THEN d.buf[i] ELSE Hole]]

Does(c, d, gone) == /\ ~draining /\ calls < MaxCalls /\ calls' = calls + 1
                    /\ call' = c /\ deque' = Tidy(d) /\ out' = gone
                    /\ UNCHANGED <<drain, draining>>

\* New elements: the k-th that the next call adds, and the first n of them.
New(k) == MaxCap + calls * MaxNew + k
News(n) == [k \in 1..n |-> New(k)]

\* The element at a logical index, if there is one.
At(i) == IF i \in 0..deque.len - 1 THEN Logical(deque, i, 1) ELSE <<>>

Ends == \/ Does(<<"push_back", New(1)>>, push_back(deque, New(1)), <<>>)
        \/ Does(<<"push_front", New(1)>>, push_front(deque, New(1)), <<>>)
        \/ Does(<<"pop_front">>, pop_front(deque), At(0))
        \/ Does(<<"pop_back">>, pop_back(deque), At(deque.len - 1))

Inside == \E i \in 0..deque.len :
  \/ Does(<<"insert", i, New(1)>>, insert(deque, i, New(1)), <<>>)
  \/ Does(<<"remove", i>>, remove(deque, i), At(i))
  \/ Does(<<"swap_remove_front", i>>, swap_remove_front(deque, i), At(i))
  \/ Does(<<"swap_remove_back", i>>, swap_remove_back(deque, i), At(i))

Cut == \/ \E n \in 0..deque.len + 1 : Does(<<"truncate", n>>, truncate(deque, n), Truncated(deque, n))
       \/ Does(<<"truncate", 0>>, clear(deque), Truncated(deque, 0))
       \/ \E n \in 0..deque.len : Does(<<"split_off", n>>, [deque EXCEPT !.len = n], SplitOff(deque, n))

Extend == \/ \E n \in 0..MaxNew : Does(<<"extend", News(n)>>, extend_slice(deque, News(n)), <<>>)
          \/ \E n \in 1..MaxNew : \E k \in 0..n :
               Does(<<"extend", News(k)>>, extend_trusted(deque, News(k), n), <<>>)
          \/ \E n \in 0..MaxNew, lower \in {0, MaxNew} :
               Does(<<"extend", News(n)>>, extend_desugared(deque, News(n), lower), <<>>)
          \/ \E n \in 0..MaxNew : \E k \in 0..n :
               Does(<<"append", News(n)>>, append(deque, News(k), SubSeq(News(n), k + 1, n)), <<>>)

retain_mut == \E keep \in SUBSET ToSet(Logical(deque, 0, deque.len)) :
  \/ LET r == Retained(deque, keep, deque.len)
     IN Does(<<"retain", keep>>, truncate(r[1], r[2]), Truncated(r[1], r[2]))
  \/ \E n \in 0..deque.len - 1 : Does(<<"retain_panics">>, Retained(deque, keep, n)[1], <<>>)

Rotate == \E n \in 0..deque.len : \/ Does(<<"rotate_left", n>>, rotate_left(deque, n), <<>>)
                                  \/ Does(<<"rotate_right", n>>, rotate_right(deque, n), <<>>)

Capacity == \/ \E n \in 0..MaxNew : \/ Does(<<"reserve">>, reserve(deque, n), <<>>)
                                    \/ Does(<<"reserve">>, reserve_exact(deque, n), <<>>)
            \/ \E min \in 0..deque.cap, fails \in BOOLEAN :
                 Does(<<"shrink_to">>, shrink_to(deque, min, fails), <<>>)

\* make_contiguous returns the elements as one slice; a Vec takes the buffer over after it.
Contiguous == LET d == make_contiguous(deque) IN
  \/ Does(<<"make_contiguous">>, d, Physical(d, d.head, d.len))
  \/ Does(<<"into_vec">>, Layout(0, 0, 0),
          Physical(IF d.head # 0 THEN copy(d, d.head, 0, d.len) ELSE d, 0, d.len))

\* Drain::new: the deque keeps what is before the range until the Drain is dropped.
Drain == \E start \in 0..deque.len : \E n \in 0..deque.len - start :
  /\ ~draining /\ calls < MaxCalls /\ calls' = calls + 1
  /\ draining' = TRUE
  /\ drain' = [drain_len |-> n, idx |-> start, new_len |-> deque.len - n, remaining |-> n]
  /\ deque' = [deque EXCEPT !.len = start]
  /\ call' = <<"drain", start, n>> /\ out' = <<>>

DrainNext == /\ draining /\ drain.remaining > 0
             /\ \/ /\ drain' = [drain EXCEPT !.idx = @ + 1, !.remaining = @ - 1]
                   /\ call' = <<"next">> /\ out' = Logical(deque, drain.idx, 1)
                \/ /\ drain' = [drain EXCEPT !.remaining = @ - 1]
                   /\ call' = <<"next_back">> /\ out' = Logical(deque, drain.idx + drain.remaining - 1, 1)
             /\ UNCHANGED <<deque, draining, calls>>

\* Drain::drop: should a destructor in the first slice panic, the guard drops the second.
DrainDrop == /\ draining
             /\ LET s == as_slices(deque, drain.idx, drain.remaining)
                IN call' = <<"drop">> /\ out' = s[1] \o s[2]
             /\ deque' = Tidy(DrainJoined(deque, drain))
             /\ drain' = NoDrain /\ draining' = FALSE
             /\ UNCHANGED calls

\* The Drain is leaked.
DrainForget == /\ draining
               /\ call' = <<"forget">> /\ out' = <<>>
               /\ deque' = Tidy(deque)
               /\ drain' = NoDrain /\ draining' = FALSE
               /\ UNCHANGED calls

Over == ~draining /\ calls = MaxCalls /\ UNCHANGED vars

Next == \/ Ends \/ Inside \/ Cut \/ Extend \/ retain_mut \/ Rotate \/ Capacity \/ Contiguous
        \/ Drain \/ DrainNext \/ DrainDrop \/ DrainForget \/ Over

Spec == Init /\ [][Next]_vars

-----------------------------------------------------------------------------
\* The head is inside the buffer unless that is empty, the elements fit into it, and every
\* place from head on, over len places, holds an element of its own.
TypeOK == /\ deque.head < deque.cap \/ (deque.cap = 0 /\ deque.head = 0)
          /\ deque.len \in 0..deque.cap
          /\ DOMAIN deque.buf = 0..deque.cap - 1
          /\ LET s == Logical(deque, 0, deque.len)
             IN Hole \notin ToSet(s) /\ Cardinality(ToSet(s)) = deque.len

\* No operation copies past the buffer, between overlapping ranges that it declares
\* disjoint, or with a target that overlaps the source at both of its ends or wraps
\* around out of turn.
CopiesSound == deque.sound

\* The sequence: the elements, what a Drain still has to yield, and what follows that.
Items == Logical(deque, 0, deque.len)
Mid == Logical(deque, drain.idx, drain.remaining)
AfterMid == Logical(deque, deque.len + drain.drain_len,
                    IF draining THEN drain.new_len - deque.len ELSE 0)
=============================================================================
