---------------------------------- MODULE Arc ----------------------------------
(***************************************************************************)
(* std::sync::Arc and Weak, library/alloc/src/sync.rs: one ArcInner, and   *)
(* threads that own strong and weak references to it.                      *)
(***************************************************************************)
EXTENDS Naturals, FiniteSets, Functions

CONSTANTS Threads,
          MaxRefs,     \* bound: references of each kind
          Locked       \* usize::MAX, the weak count while is_unique looks

VARIABLES
  strong, weak,        \* the two counters
  data,                \* "live"; "dropped", "torn" by a drop that panicked, or "moved" out
  freed,               \* ArcInner is deallocated
  arcs, weaks,         \* how many references of each kind each thread owns
  pc,                  \* where each thread is
  cur                  \* the counter it has read

vars == <<strong, weak, data, freed, arcs, weaks, pc, cur>>
inner == <<strong, weak, data, freed>>
owned == <<arcs, weaks>>

TypeOK ==
  /\ strong \in 0..MaxRefs
  /\ weak \in 0..MaxRefs \cup {Locked}
  /\ data \in {"live", "dropped", "torn", "moved"} /\ freed \in BOOLEAN
  /\ arcs \in [Threads -> 0..MaxRefs] /\ weaks \in [Threads -> 0..MaxRefs]
  /\ pc \in [Threads -> {"idle", "drop_slow", "drop_weak", "free", "downgrade", "is_unique",
                         "unique", "shared", "make_mut", "mut"}]
  /\ cur \in [Threads -> 0..MaxRefs \cup {Locked}]

\* Arc::new, the one reference given to somebody
Init ==
  /\ strong = 1 /\ weak = 1
  /\ data = "live" /\ freed = FALSE
  /\ \E t \in Threads : arcs = [s \in Threads |-> IF s = t THEN 1 ELSE 0]
  /\ weaks = [t \in Threads |-> 0]
  /\ pc = [t \in Threads |-> "idle"]
  /\ cur = [t \in Threads |-> 0]

Goto(t, place) == pc' = [pc EXCEPT ![t] = place]
Read(t, n) == cur' = [cur EXCEPT ![t] = n]
Idle(t, refs) == pc[t] = "idle" /\ refs[t] > 0
Gain(refs, t) == [refs EXCEPT ![t] = @ + 1]
Lose(refs, t) == [refs EXCEPT ![t] = @ - 1]

Total(refs) == FoldFunction(+, 0, refs)

-----------------------------------------------------------------------------
(***************************************************************************)
(* References come and go, and are given to other threads                  *)
(***************************************************************************)
Send(t, s) ==
  /\ pc[t] = "idle" /\ t # s
  /\ \/ arcs[t] > 0 /\ arcs' = Gain(Lose(arcs, t), s) /\ UNCHANGED weaks
     \/ weaks[t] > 0 /\ weaks' = Gain(Lose(weaks, t), s) /\ UNCHANGED arcs
  /\ UNCHANGED <<inner, pc, cur>>

clone(t) == /\ Idle(t, arcs) /\ strong < MaxRefs
            /\ strong' = strong + 1 /\ arcs' = Gain(arcs, t)
            /\ UNCHANGED <<weak, data, freed, weaks, pc, cur>>

drop(t) == /\ Idle(t, arcs)
           /\ strong' = strong - 1 /\ arcs' = Lose(arcs, t)
           /\ Goto(t, IF strong = 1 THEN "drop_slow" ELSE "idle")
           /\ UNCHANGED <<weak, data, freed, weaks, cur>>

\* The destructor of the data returns, or panics and the implicit weak reference stays.
drop_slow(t) == /\ pc[t] = "drop_slow"
                /\ \/ data' = "dropped" /\ Goto(t, "drop_weak")
                   \/ data' = "torn" /\ Goto(t, "idle")
                /\ UNCHANGED <<strong, weak, freed, owned, cur>>

\* The weak reference that the strong ones hold together is dropped.
DropImplicit(t) == /\ pc[t] = "drop_weak"
                   /\ weak' = weak - 1
                   /\ Goto(t, IF weak = 1 THEN "free" ELSE "idle")
                   /\ UNCHANGED <<strong, data, freed, owned, cur>>

weak_drop(t) == /\ Idle(t, weaks)
                /\ weak' = weak - 1 /\ weaks' = Lose(weaks, t)
                /\ Goto(t, IF weak = 1 THEN "free" ELSE "idle")
                /\ UNCHANGED <<strong, data, freed, arcs, cur>>

deallocate(t) == /\ pc[t] = "free"
                 /\ freed' = TRUE
                 /\ Goto(t, "idle")
                 /\ UNCHANGED <<strong, weak, data, owned, cur>>

weak_clone(t) == /\ Idle(t, weaks) /\ weak < MaxRefs
                 /\ weak' = weak + 1 /\ weaks' = Gain(weaks, t)
                 /\ UNCHANGED <<strong, data, freed, arcs, pc, cur>>

-----------------------------------------------------------------------------
(***************************************************************************)
(* downgrade and upgrade                                                   *)
(***************************************************************************)
downgrade(t) == /\ Idle(t, arcs)
                /\ Read(t, weak)
                /\ Goto(t, "downgrade")
                /\ UNCHANGED <<inner, owned>>

\* Faulty: a locked count is a count like others.
MayCount_Locked(n) == TRUE

MayCount(n) == n # Locked

Downgrade(t) ==
  /\ pc[t] = "downgrade"
  /\ IF MayCount(cur[t]) /\ weak = cur[t] /\ Total(weaks) + 1 < MaxRefs
     THEN weak' = weak + 1 /\ weaks' = Gain(weaks, t) /\ Goto(t, "idle") /\ Read(t, 0)
     ELSE Read(t, weak) /\ UNCHANGED <<weak, weaks, pc>>
  /\ UNCHANGED <<strong, data, freed, arcs>>

upgrade(t) == /\ Idle(t, weaks)
              /\ strong # 0 /\ strong < MaxRefs
              /\ strong' = strong + 1 /\ arcs' = Gain(arcs, t)
              /\ UNCHANGED <<weak, data, freed, weaks, pc, cur>>

-----------------------------------------------------------------------------
(***************************************************************************)
(* Exclusive access: get_mut, make_mut, try_unwrap, into_inner             *)
(***************************************************************************)
\* Faulty: the count is looked at, and not locked.
Lock_Open == 1

Lock == Locked

is_unique(t) == /\ Idle(t, arcs) /\ weak = 1
                /\ weak' = Lock
                /\ Goto(t, "is_unique")
                /\ UNCHANGED <<strong, data, freed, owned, cur>>

LoadStrong(t) == /\ pc[t] = "is_unique"
                 /\ Goto(t, IF strong = 1 THEN "unique" ELSE "shared")
                 /\ UNCHANGED <<inner, owned, cur>>

Unlocked == 1

\* The lock is released; get_mut returns a &mut T or None.
get_mut(t) == /\ pc[t] \in {"unique", "shared"}
              /\ weak' = Unlocked
              /\ Goto(t, IF pc[t] = "unique" THEN "mut" ELSE "idle")
              /\ UNCHANGED <<strong, data, freed, owned, cur>>

\* make_mut: compare_exchange(1, 0).  (Where it fails, the clone of the data is in
\* another ArcInner and this reference is dropped.)
make_mut(t) == /\ Idle(t, arcs) /\ strong = 1
               /\ strong' = 0
               /\ Goto(t, "make_mut")
               /\ UNCHANGED <<weak, data, freed, owned, cur>>

\* Faulty: nobody drops the implicit weak reference.
Emptied_Kept == "idle"

Emptied == "drop_weak"

\* Other weak references: the data is moved out.
Steal(t) == /\ pc[t] = "make_mut" /\ weak # 1
            /\ data' = "moved" /\ arcs' = Lose(arcs, t)
            /\ Goto(t, Emptied)
            /\ UNCHANGED <<strong, weak, freed, weaks, cur>>

Restore(t) == /\ pc[t] = "make_mut" /\ weak = 1
              /\ strong' = 1
              /\ Goto(t, "mut")
              /\ UNCHANGED <<weak, data, freed, owned, cur>>

EndMut(t) == /\ pc[t] = "mut" /\ Goto(t, "idle") /\ UNCHANGED <<inner, owned, cur>>

\* try_unwrap: compare_exchange(1, 0); into_inner: fetch_sub(1) == 1
TakeOut(t) == /\ Idle(t, arcs) /\ strong = 1
              /\ strong' = 0 /\ data' = "moved" /\ arcs' = Lose(arcs, t)
              /\ Goto(t, Emptied)
              /\ UNCHANGED <<weak, freed, weaks, cur>>

Step(t) == \/ drop_slow(t) \/ DropImplicit(t) \/ deallocate(t) \/ Downgrade(t)
           \/ LoadStrong(t) \/ get_mut(t) \/ Steal(t) \/ Restore(t) \/ EndMut(t)

Begin(t) == \/ clone(t) \/ drop(t) \/ weak_drop(t) \/ weak_clone(t) \/ downgrade(t) \/ upgrade(t)
            \/ is_unique(t) \/ make_mut(t) \/ TakeOut(t)
            \/ \E s \in Threads : Send(t, s)

Over == /\ \A t \in Threads : pc[t] = "idle" /\ arcs[t] + weaks[t] = 0
        /\ UNCHANGED vars

Next == (\E t \in Threads : Begin(t) \/ Step(t)) \/ Over

Spec == Init /\ [][Next]_vars /\ \A t \in Threads : WF_vars(Step(t))

-----------------------------------------------------------------------------
(***************************************************************************)
(* Properties                                                              *)
(***************************************************************************)
Count(places) == Cardinality({t \in Threads : pc[t] \in places})

\* The counters count the references there are: strong the Arcs (the one in make_mut
\* apart), weak the Weaks and one for all Arcs, unless it is locked, and then there
\* is no Weak.  A destructor that panicked leaves the one for all Arcs behind.
CountsExact ==
  LET implicit == IF \/ strong > 0 \/ Count({"drop_slow", "drop_weak", "make_mut"}) > 0
                     \/ data = "torn"
                  THEN 1 ELSE 0
  IN /\ strong = Total(arcs) - Count({"make_mut"})
     /\ IF weak = Locked THEN Total(weaks) = 0 ELSE weak = Total(weaks) + implicit

\* The data is there while there is an Arc, and the memory while there is a
\* reference of either kind or a thread at work on it; both go once.
NoUseAfterFree ==
  /\ Total(arcs) > 0 => data = "live"
  /\ Total(arcs) + Total(weaks) > 0 => ~freed
  /\ freed => data # "live" /\ \A t \in Threads : pc[t] = "idle"
  /\ Count({"drop_slow", "drop_weak", "make_mut"}) + Count({"free"}) <= 1
  /\ Count({"drop_slow"}) > 0 => data = "live"

\* Whoever got &mut T from get_mut or make_mut is alone: there is no other Arc, and
\* no Weak that could become one.
MutIsExclusive == Count({"mut"}) > 0 => Total(arcs) = 1 /\ Total(weaks) = 0

\* When the last reference is gone the memory is freed, unless the destructor of the
\* data panicked.
Settled == Total(arcs) + Total(weaks) = 0 => freed \/ data = "torn"
=============================================================================
