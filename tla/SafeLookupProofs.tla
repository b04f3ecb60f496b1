--------------------------- MODULE SafeLookupProofs ---------------------------
(***************************************************************************)
(* The search of check_for_safe_versions reaches the verdict of its        *)
(* loop-free description, on every tree and for every name.                *)
(***************************************************************************)
EXTENDS SafeLookup, TreeLemmas

\* The matches in the impls up to position k that the search looks at.
Passed(k) == {i \in 1..Len(ast) :
                \E b \in Children(ast, 0) :
                  /\ ast[b].kind = "impl"
                  /\ b <= k
                  /\ First(i, ImplFns(ast, b, safe_func_name))}

\* The two flags say of the functions in P whether there are any, and whether
\* none of them is unsafe.
Tally(P) == /\ found_safe_func <=> (P # {})
            /\ func_safety <=> (\A i \in P : ~ast[i].unsafe)

\* No top-level function of the name lies behind the search.
NoTopFn == \A f \in TopFns(ast, safe_func_name) : item < f

InItems == pc = "items" => NoTopFn /\ Tally(Passed(item))

InImpl == pc = "impl" =>
            /\ item \in Children(ast, 0) /\ ast[item].kind = "impl"
            /\ NoTopFn
            /\ Tally(Passed(item - 1))
            /\ \A i \in ImplFns(ast, item, safe_func_name) : impl_item < i

AtEnd == pc = "done" => Tally(Candidates(ast, safe_func_name))

IInv == /\ TypeOK
        /\ safe_func_name = SafeName(func_name)
        /\ InItems
        /\ InImpl
        /\ AtEnd

-----------------------------------------------------------------------------
LEMMA LookupInit == Init => IInv
<1> SUFFICES ASSUME Init PROVE IInv
  OBVIOUS
<1>1. TypeOK
  <2>1. IsTree(ast) /\ func_name \in Ident
    BY LookupAssumption DEF Init
  <2>2. 0 \in 0..Len(ast)
    BY <2>1 DEF IsTree
  <2>3. found_safe_func \in BOOLEAN /\ func_safety \in BOOLEAN
    BY DEF Init
  <2> QED
    BY <2>1, <2>2, <2>3 DEF Init, TypeOK
<1>2. \A b \in Children(ast, 0) : 1 <= b
  BY DEF Children
<1>3. Passed(0) = {}
  BY <1>2 DEF Passed, Children
<1>4. NoTopFn
  BY <1>2 DEF Init, NoTopFn, TopFns, Children
<1> QED
  BY <1>1, <1>3, <1>4 DEF Init, IInv, InItems, InImpl, AtEnd, Tally

\* The steps of the loops keep the types.
LEMMA LookupTypes == TypeOK /\ [Next]_vars => TypeOK'
<1> SUFFICES ASSUME TypeOK, [Next]_vars PROVE TypeOK'
  OBVIOUS
<1> USE DEF TypeOK, input
<1>0. ASSUME NEW i, Match(i) \/ NoMatch(i)
      PROVE  (found_safe_func \in BOOLEAN /\ func_safety \in BOOLEAN)'
  BY <1>0, Zenon DEF Match, NoMatch
<1>1. ASSUME NEW i \in 1..Len(ast), ItemFn(i) PROVE TypeOK'
  <2>1. Match(i) \/ NoMatch(i)
    BY <1>1 DEF ItemFn
  <2>2. pc' \in {"items", "impl", "done"} /\ item' = i
    BY <1>1 DEF ItemFn
  <2> QED
    BY <1>0, <1>1, <2>1, <2>2 DEF ItemFn
<1>2. ASSUME NEW i \in 1..Len(ast), ItemImpl(i) PROVE TypeOK'
  BY <1>2 DEF ItemImpl
<1>3. ASSUME NEW i \in 1..Len(ast), ItemOther(i) PROVE TypeOK'
  BY <1>3 DEF ItemOther
<1>4. ASSUME NEW i \in 1..Len(ast), ImplItemFn(i) PROVE TypeOK'
  <2>1. Match(i) \/ NoMatch(i)
    BY <1>4 DEF ImplItemFn
  <2>2. pc' \in {"items", "impl", "done"} /\ impl_item' = i
    BY <1>4 DEF ImplItemFn
  <2> QED
    BY <1>0, <1>4, <2>1, <2>2 DEF ImplItemFn
<1>5. ASSUME NEW i \in 1..Len(ast), ImplItemOther(i) PROVE TypeOK'
  BY <1>5 DEF ImplItemOther
<1>6. CASE ImplEnd \/ ItemsEnd \/ UNCHANGED vars
  BY <1>6 DEF ImplEnd, ItemsEnd, vars
<1> QED
  BY <1>1, <1>2, <1>3, <1>4, <1>5, <1>6 DEF Next, Done

-----------------------------------------------------------------------------
\* How the loops move through the candidates.
-----------------------------------------------------------------------------

\* A step of the outer loop that is not at an impl passes no candidate.
LEMMA PassNonImpl ==
  ASSUME TypeOK, NEW i \in 1..Len(ast), NextChild(0, item, i), ast[i].kind # "impl"
  PROVE  Passed(i) = Passed(item)
  BY DEF TypeOK, Passed, NextChild, First, Children

\* Before an impl only what came before it has been passed.
LEMMA PassBeforeImpl ==
  ASSUME TypeOK, NEW i \in 1..Len(ast), NextChild(0, item, i)
  PROVE  Passed(i - 1) = Passed(item)
  BY DEF TypeOK, Passed, NextChild, First, Children

\* An impl without a match adds no candidate.
LEMMA PassEmptyImpl ==
  ASSUME TypeOK, ImplFns(ast, item, safe_func_name) = {}
  PROVE  Passed(item) = Passed(item - 1)
  BY DEF TypeOK, Passed, First, Children

\* An impl with a match adds the first one.
LEMMA PassImpl ==
  ASSUME TypeOK, item \in Children(ast, 0), ast[item].kind = "impl",
         NEW i \in 1..Len(ast), First(i, ImplFns(ast, item, safe_func_name))
  PROVE  Passed(item) = Passed(item - 1) \cup {i}
<1>1. \A j \in 1..Len(ast) : First(j, ImplFns(ast, item, safe_func_name)) => j = i
  BY DEF First, ImplFns, Children
<1> QED
  BY <1>1 DEF TypeOK, Passed, Children

\* At the end of the file the candidates are those passed.
LEMMA CandidatesAtEnd ==
  ASSUME TypeOK, NoTopFn, NoChild(0, item)
  PROVE  Candidates(ast, safe_func_name) = Passed(item)
<1>1. TopFns(ast, safe_func_name) = {}
  BY DEF TypeOK, NoTopFn, NoChild, TopFns, Children
<1>2. \A b \in Children(ast, 0) : b <= item
  BY DEF NoChild
<1> QED
  BY <1>1, <1>2 DEF Candidates, Passed, First

\* At a top-level match they are those passed and the match.
LEMMA CandidatesAtFn ==
  ASSUME TypeOK, NoTopFn, NEW i \in 1..Len(ast), NextChild(0, item, i),
         ast[i].kind = "fn", ast[i].name = safe_func_name
  PROVE  Candidates(ast, safe_func_name) = Passed(item) \cup {i}
<1>1. First(i, TopFns(ast, safe_func_name))
  BY DEF TypeOK, NoTopFn, NextChild, First, TopFns, Children
<1>2. \A j \in 1..Len(ast) : First(j, TopFns(ast, safe_func_name)) <=> j = i
  BY <1>1 DEF First, TopFns, Children
<1>3. ASSUME NEW b \in Children(ast, 0), ast[b].kind = "impl"
      PROVE  (\A f \in TopFns(ast, safe_func_name) : b < f) <=> b <= item
  BY <1>1, <1>3 DEF TypeOK, NoTopFn, NextChild, First, TopFns, Children
<1> QED
  BY <1>2, <1>3 DEF Candidates, Passed

\* A match adds a function to the tally.
LEMMA TallyMatch ==
  ASSUME TypeOK, NEW P, Tally(P), NEW i \in 1..Len(ast), Match(i), UNCHANGED input
  PROVE  Tally(P \cup {i})'
  BY DEF TypeOK, Tally, Match, input

LEMMA TallySame ==
  ASSUME NEW P, Tally(P), UNCHANGED <<input, found_safe_func, func_safety>>
  PROVE  Tally(P)'
  BY DEF Tally, input

-----------------------------------------------------------------------------
LEMMA LookupInductive == IInv /\ [Next]_vars => IInv'
<1> SUFFICES ASSUME IInv, [Next]_vars PROVE IInv'
  OBVIOUS
<1>0. TypeOK /\ TypeOK'
  BY LookupTypes DEF IInv
<1>1. ASSUME NEW i \in 1..Len(ast), ItemFn(i) PROVE IInv'
  <2>0. NextChild(0, item, i) /\ ast[i].kind = "fn" /\ UNCHANGED input /\ item' = i
    BY <1>1 DEF ItemFn
  <2>1. NoTopFn /\ Tally(Passed(item))
    BY <1>1 DEF IInv, InItems, ItemFn
  <2>2. CASE Match(i) /\ pc' = "done"
    <3>1. Candidates(ast, safe_func_name) = Passed(item) \cup {i}
      BY <1>0, <2>0, <2>1, <2>2, CandidatesAtFn DEF Match
    <3>2. Tally(Candidates(ast, safe_func_name))'
      BY <1>0, <2>0, <2>1, <2>2, <3>1, TallyMatch DEF input
    <3> QED
      BY <1>0, <2>0, <2>2, <3>2 DEF IInv, InItems, InImpl, AtEnd, input
  <2>3. CASE NoMatch(i) /\ UNCHANGED pc
    <3>1. Passed(i) = Passed(item)
      BY <1>0, <2>0, PassNonImpl
    <3>2. Tally(Passed(i))'
      BY <2>0, <2>1, <2>3, <3>1, TallySame DEF NoMatch, Passed, input
    <3>3. NoTopFn'
      BY <1>0, <2>0, <2>1, <2>3 DEF TypeOK, NoTopFn, NextChild, First, TopFns, Children, NoMatch, input
    <3> QED
      BY <1>0, <1>1, <2>0, <2>3, <3>2, <3>3 DEF IInv, InItems, InImpl, AtEnd, ItemFn, input, Passed
  <2> QED
    BY <1>1, <2>2, <2>3 DEF ItemFn
<1>2. ASSUME NEW i \in 1..Len(ast), ItemImpl(i) PROVE IInv'
  <2>0. NextChild(0, item, i) /\ ast[i].kind = "impl" /\ UNCHANGED input /\ item' = i /\ impl_item' = i /\ pc' = "impl"
    BY <1>2 DEF ItemImpl
  <2>1. NoTopFn /\ Tally(Passed(item))
    BY <1>2 DEF IInv, InItems, ItemImpl
  <2>2. Passed(i - 1) = Passed(item)
    BY <1>0, <2>0, PassBeforeImpl
  <2>3. Tally(Passed(i - 1))'
    BY <1>2, <2>0, <2>1, <2>2, TallySame DEF ItemImpl, Passed, input
  <2>4. NoTopFn'
    BY <1>0, <2>0, <2>1 DEF TypeOK, NoTopFn, NextChild, First, TopFns, Children, input
  <2>5. \A j \in ImplFns(ast, i, safe_func_name) : i < j
    <3>1. \A j \in Children(ast, i) : i < j
      BY <1>0, TreeNodes DEF TypeOK, Children
    <3> QED
      BY <3>1 DEF ImplFns
  <2>6. i \in Children(ast, 0)
    BY <2>0 DEF NextChild, First
  <2> QED
    BY <1>0, <2>0, <2>3, <2>4, <2>5, <2>6 DEF IInv, InItems, InImpl, AtEnd, input, Passed
<1>3. ASSUME NEW i \in 1..Len(ast), ItemOther(i) PROVE IInv'
  <2>0. NextChild(0, item, i) /\ ast[i].kind \notin {"fn", "impl"} /\ UNCHANGED input /\ item' = i
    BY <1>3 DEF ItemOther
  <2>1. NoTopFn /\ Tally(Passed(item))
    BY <1>3 DEF IInv, InItems, ItemOther
  <2>2. Passed(i) = Passed(item)
    BY <1>0, <2>0, PassNonImpl
  <2>3. Tally(Passed(i))'
    BY <1>3, <2>0, <2>1, <2>2, TallySame DEF ItemOther, Passed, input
  <2>4. NoTopFn'
    BY <1>0, <2>0, <2>1 DEF TypeOK, NoTopFn, NextChild, First, TopFns, Children, input
  <2> QED
    BY <1>0, <1>3, <2>0, <2>3, <2>4 DEF IInv, InItems, InImpl, AtEnd, ItemOther, input, Passed
<1>4. ASSUME NEW i \in 1..Len(ast), ImplItemFn(i) PROVE IInv'
  <2>0. NextChild(item, impl_item, i) /\ ast[i].kind = "implfn" /\ UNCHANGED <<input, item>> /\ impl_item' = i
    BY <1>4 DEF ImplItemFn
  <2>1. /\ item \in Children(ast, 0) /\ ast[item].kind = "impl"
        /\ NoTopFn
        /\ Tally(Passed(item - 1))
        /\ \A j \in ImplFns(ast, item, safe_func_name) : impl_item < j
    BY <1>4 DEF IInv, InImpl, ImplItemFn
  <2>2. CASE Match(i) /\ pc' = "items"
    <3>1. First(i, ImplFns(ast, item, safe_func_name))
      BY <1>0, <2>0, <2>1, <2>2 DEF TypeOK, NextChild, First, ImplFns, Children, Match
    <3>2. Passed(item) = Passed(item - 1) \cup {i}
      BY <1>0, <2>1, <3>1, PassImpl
    <3>3. Tally(Passed(item))'
      BY <1>0, <2>0, <2>1, <2>2, <3>2, TallyMatch DEF Passed, input
    <3> QED
      BY <1>0, <2>0, <2>1, <2>2, <3>3 DEF IInv, InItems, InImpl, AtEnd, NoTopFn, input
  <2>3. CASE NoMatch(i) /\ UNCHANGED pc
    <3>1. \A j \in ImplFns(ast, item, safe_func_name) : i < j
      BY <1>0, <2>0, <2>1, <2>3 DEF TypeOK, NextChild, First, ImplFns, Children, NoMatch
    <3>2. Tally(Passed(item - 1))'
      BY <2>0, <2>1, <2>3, TallySame DEF NoMatch, Passed, input
    <3> QED
      BY <1>0, <1>4, <2>0, <2>1, <2>3, <3>1, <3>2 DEF IInv, InItems, InImpl, AtEnd, NoTopFn, ImplItemFn, input
  <2> QED
    BY <1>4, <2>2, <2>3 DEF ImplItemFn
<1>5. ASSUME NEW i \in 1..Len(ast), ImplItemOther(i) PROVE IInv'
  <2>0. NextChild(item, impl_item, i) /\ ast[i].kind # "implfn" /\ UNCHANGED <<input, item>> /\ impl_item' = i
    BY <1>5 DEF ImplItemOther
  <2>1. /\ item \in Children(ast, 0) /\ ast[item].kind = "impl"
        /\ NoTopFn
        /\ Tally(Passed(item - 1))
        /\ \A j \in ImplFns(ast, item, safe_func_name) : impl_item < j
    BY <1>5 DEF IInv, InImpl, ImplItemOther
  <2>2. \A j \in ImplFns(ast, item, safe_func_name) : i < j
    BY <1>0, <2>0, <2>1 DEF TypeOK, NextChild, First, ImplFns, Children
  <2>3. Tally(Passed(item - 1))'
    BY <1>5, <2>0, <2>1, TallySame DEF ImplItemOther, Passed, input
  <2> QED
    BY <1>0, <1>5, <2>0, <2>1, <2>2, <2>3 DEF IInv, InItems, InImpl, AtEnd, NoTopFn, ImplItemOther, input
<1>6. CASE ImplEnd
  <2>0. pc = "impl" /\ pc' = "items" /\ UNCHANGED <<input, item, impl_item, found_safe_func, func_safety>>
    BY <1>6 DEF ImplEnd
  <2>1. /\ NoTopFn
        /\ Tally(Passed(item - 1))
        /\ \A j \in ImplFns(ast, item, safe_func_name) : impl_item < j
    BY <2>0 DEF IInv, InImpl
  <2>2. ImplFns(ast, item, safe_func_name) = {}
    BY <1>0, <1>6, <2>1 DEF TypeOK, ImplEnd, NoChild, ImplFns, Children
  <2>3. Passed(item) = Passed(item - 1)
    BY <1>0, <2>2, PassEmptyImpl
  <2>4. Tally(Passed(item))'
    BY <2>0, <2>1, <2>3, TallySame DEF Passed, input
  <2> QED
    BY <1>0, <2>0, <2>1, <2>4 DEF IInv, InItems, InImpl, AtEnd, NoTopFn, input
<1>7. CASE ItemsEnd
  <2>0. pc = "items" /\ pc' = "done" /\ UNCHANGED <<input, item, impl_item, found_safe_func, func_safety>>
    BY <1>7 DEF ItemsEnd
  <2>1. NoTopFn /\ Tally(Passed(item))
    BY <2>0 DEF IInv, InItems
  <2>2. Candidates(ast, safe_func_name) = Passed(item)
    BY <1>0, <1>7, <2>1, CandidatesAtEnd DEF ItemsEnd
  <2>3. Tally(Candidates(ast, safe_func_name))'
    BY <2>0, <2>1, <2>2, TallySame DEF input
  <2> QED
    BY <1>0, <2>0, <2>3 DEF IInv, InItems, InImpl, AtEnd, input
<1>8. CASE UNCHANGED vars
  BY <1>0, <1>8 DEF IInv, InItems, InImpl, AtEnd, NoTopFn, Tally, Passed, vars
<1> QED
  BY <1>1, <1>2, <1>3, <1>4, <1>5, <1>6, <1>7, <1>8 DEF Next, Done

-----------------------------------------------------------------------------
\* The inductive invariant holds throughout every search.
THEOREM LookupInvariant == Spec => []IInv
  BY LookupInit, LookupInductive, PTL DEF Spec

\* The positions of the two loops stay inside the file, and its tree is one.
THEOREM LookupTyped == Spec => []TypeOK
<1>1. IInv => TypeOK
  BY DEF IInv
<1> QED
  BY <1>1, LookupInvariant, PTL

\* For every syntax tree and every recorded name the loop of
\* check_for_safe_versions arrives at Verdict(ast, func_name).
THEOREM LookupCorrect == Spec => []VerdictReached
<1>1. IInv => VerdictReached
  <2> SUFFICES ASSUME IInv, pc = "done" PROVE Outcome = Verdict(ast, func_name)
    BY DEF VerdictReached
  <2>1. Tally(Candidates(ast, SafeName(func_name)))
    BY DEF IInv, AtEnd
  <2> QED
    BY <2>1 DEF Tally, Outcome, Verdict, VerdictOf, IInv, TypeOK
<1> QED
  BY <1>1, LookupInvariant, PTL

\* The search looks only at functions in its reach, and if there are any, at
\* one of them.
LEMMA CandidatesVisible ==
  ASSUME IInv
  PROVE  /\ Candidates(ast, safe_func_name) \subseteq Visible
         /\ Candidates(ast, safe_func_name) = {} => Visible = {}
<1> DEFINE C == Candidates(ast, safe_func_name)
           T == TopFns(ast, safe_func_name)
           I(b) == ImplFns(ast, b, safe_func_name)
<1>1. IsTree(ast)
  BY DEF IInv, TypeOK
<1>2. C \subseteq Visible
  BY DEF Candidates, Visible, First, TopFns, ImplFns, Children
<1>3. ASSUME C = {}, NEW i \in Visible PROVE FALSE
  <2>0. i \in 1..Len(ast) /\ ast[i].name = safe_func_name
    BY DEF Visible
  <2>1. T = {}
    <3> SUFFICES ASSUME T # {} PROVE FALSE
      OBVIOUS
    <3>1. T \in SUBSET Nat
      BY DEF TopFns, Children
    <3>2. PICK f \in T : \A g \in T : f <= g
      <4> HIDE DEF T
      <4> QED
        BY <3>1, LeastElement
    <3>3. f \in C
      BY <3>2 DEF Candidates, First, TopFns, Children
    <3> QED
      BY <1>3, <3>3
  <2>2. ast[i].kind = "implfn" /\ ast[ast[i].parent].parent = 0
    BY <2>0, <2>1 DEF Visible, TopFns, Children
  <2> DEFINE b == ast[i].parent
  <2>3. b \in 1..Len(ast) /\ ast[b].kind = "impl"
    BY <1>1, <2>0, <2>2, TreeNodes
  <2>4. b \in Children(ast, 0)
    BY <2>2, <2>3 DEF Children
  <2>5. i \in I(b)
    BY <2>0, <2>2 DEF ImplFns, Children
  <2>6. I(b) \in SUBSET Nat
    BY DEF ImplFns, Children
  <2>7. PICK g \in I(b) : \A h \in I(b) : g <= h
    <3> HIDE DEF I, b
    <3> QED
      BY <2>5, <2>6, LeastElement
  <2>8. g \in C
    <3>1. First(g, I(b)) /\ g \in 1..Len(ast)
      BY <2>7 DEF First, ImplFns, Children
    <3> HIDE DEF b
    <3> QED
      BY <2>1, <2>3, <2>4, <3>1 DEF Candidates
  <2> QED
    BY <1>3, <2>8
<1> QED
  BY <1>2, <1>3

\* What a row tells its reader is true of the file that was searched: a safe
\* version exists, an unsafe one does, or there is none in the search's reach.
THEOREM LookupMeaning == Spec => []OutcomeMeaning
<1>1. IInv => OutcomeMeaning
  <2> SUFFICES ASSUME IInv, pc = "done" PROVE OutcomeMeaning
    BY DEF OutcomeMeaning
  <2> DEFINE C == Candidates(ast, safe_func_name)
  <2>1. Tally(C)
    BY DEF IInv, AtEnd
  <2>2. C \subseteq Visible /\ (C = {} => Visible = {})
    BY CandidatesVisible
  <2> HIDE DEF C
  <2>3. \/ Outcome = "none" /\ C = {}
        \/ Outcome = "safe" /\ C # {} /\ \A i \in C : ~ast[i].unsafe
        \/ Outcome = "unsafe" /\ \E i \in C : ast[i].unsafe
    BY <2>1, Zenon DEF Tally, Outcome, VerdictOf
  <2> QED
    BY <2>2, <2>3 DEF OutcomeMeaning
<1> QED
  BY <1>1, LookupInvariant, PTL
=============================================================================
