---------------------------- MODULE VisitorProofs ----------------------------
(***************************************************************************)
(* FunctionVisitor records the unchecked functions of every syntax tree.   *)
(***************************************************************************)
EXTENDS Visitor, TreeLemmas

\* Every visit keeps the types of the visitor's state.
THEOREM VisitorTyped == Spec => []TypeOK
<1>1. Init => TypeOK
  BY AstsAssumption DEF Init, TypeOK, Children
<1>2. TypeOK /\ [Next]_vars => TypeOK'
  <2> SUFFICES ASSUME TypeOK, [Next]_vars PROVE TypeOK'
    OBVIOUS
  <2>1. \A j \in 1..Len(ast) : ast[j].name \in Ident
    BY TreeNodes DEF TypeOK
  <2>2. ASSUME NEW n \in pending, visit_item_fn(n) PROVE TypeOK'
    BY <2>1, <2>2 DEF TypeOK, visit_item_fn, Descend, Children
  <2>3. ASSUME NEW n \in pending, visit_item_impl(n) PROVE TypeOK'
    BY <2>1, <2>3 DEF TypeOK, visit_item_impl, Descend, Children
  <2>4. ASSUME NEW n \in pending, visit_default(n) PROVE TypeOK'
    BY <2>4 DEF TypeOK, visit_default, Descend, Children
  <2>5. CASE UNCHANGED vars
    BY <2>5 DEF TypeOK, vars
  <2> QED
    BY <2>2, <2>3, <2>4, <2>5 DEF Next, Done
<1> QED
  BY <1>1, <1>2, PTL DEF Spec

-----------------------------------------------------------------------------
\* What the visit of node i records.
Recorded(i) ==
  /\ ast[i].kind = "fn" /\ IsUnchecked(ast[i].name) => ast[i].name \in unchecked_functions
  /\ ast[i].kind = "impl" =>
       \A j \in Children(ast, i) :
          ast[j].kind = "implfn" /\ IsUnchecked(ast[j].name)
             => ast[j].name \in unchecked_functions

\* V is a possible set of the nodes visited so far.
Visited(V) ==
  /\ V \subseteq 1..Len(ast)
  /\ \A i \in V : Recorded(i)
  /\ \A i \in 1..Len(ast) :
       ast[i].parent = 0 \/ ast[i].parent \in V => i \in V \cup pending

\* The walk has recorded only unchecked functions, and all of those that the
\* visits made so far came across.
IInv == /\ TypeOK
        /\ unchecked_functions \subseteq Collect(ast)
        /\ \E V \in SUBSET (1..Len(ast)) : Visited(V)

LEMMA VisitorInit == Init => IInv
<1> SUFFICES ASSUME Init PROVE IInv
  OBVIOUS
<1>1. TypeOK
  BY AstsAssumption DEF Init, TypeOK, Children
<1>2. Visited({})
  BY DEF Init, Visited, Children
<1> QED
  BY <1>1, <1>2 DEF Init, IInv

\* A visit of n that records what it should extends the visited nodes by n.
LEMMA VisitStep ==
  ASSUME IInv, TypeOK', NEW n \in pending, Descend(n), UNCHANGED ast,
         unchecked_functions \subseteq unchecked_functions',
         unchecked_functions' \subseteq Collect(ast),
         Recorded(n)'
  PROVE  IInv'
<1>1. PICK V \in SUBSET (1..Len(ast)) : Visited(V)
  BY DEF IInv
<1>2. n \in 1..Len(ast)
  BY DEF IInv, TypeOK
<1>3. \A i \in V : Recorded(i)'
  BY <1>1 DEF Visited, Recorded, Children
<1>4. \A i \in 1..Len(ast) :
        ast[i].parent = 0 \/ ast[i].parent \in V \cup {n} => i \in V \cup {n} \cup pending'
  BY <1>1 DEF Visited, Descend, Children
<1>5. Visited(V \cup {n})'
  BY <1>1, <1>2, <1>3, <1>4 DEF Visited
<1> QED
  BY <1>2, <1>5 DEF IInv

LEMMA VisitorInductive == IInv /\ [Next]_vars => IInv'
<1> SUFFICES ASSUME IInv, [Next]_vars PROVE IInv'
  OBVIOUS
<1>0. TypeOK
  BY DEF IInv
<1>1. \A j \in 1..Len(ast) : ast[j].name \in Ident
  BY <1>0, TreeNodes DEF TypeOK
<1>2. ASSUME NEW n \in pending, visit_item_fn(n) PROVE IInv'
  <2>1. TypeOK'
    BY <1>0, <1>1, <1>2 DEF TypeOK, visit_item_fn, Descend, Children
  <2>2. unchecked_functions' \subseteq Collect(ast)
    BY <1>0, <1>2 DEF IInv, TypeOK, visit_item_fn, Collect
  <2>3. Recorded(n)'
    BY <1>2 DEF Recorded, visit_item_fn
  <2> QED
    BY <1>2, <2>1, <2>2, <2>3, VisitStep DEF visit_item_fn
<1>3. ASSUME NEW n \in pending, visit_item_impl(n) PROVE IInv'
  <2>1. TypeOK'
    BY <1>0, <1>1, <1>3 DEF TypeOK, visit_item_impl, Descend, Children
  <2>2. unchecked_functions' \subseteq Collect(ast)
    BY <1>0, <1>3 DEF IInv, TypeOK, visit_item_impl, Collect, Children
  <2>3. Recorded(n)'
    BY <1>3 DEF Recorded, visit_item_impl, Children
  <2> QED
    BY <1>3, <2>1, <2>2, <2>3, VisitStep DEF visit_item_impl
<1>4. ASSUME NEW n \in pending, visit_default(n) PROVE IInv'
  <2>1. TypeOK'
    BY <1>0, <1>4 DEF TypeOK, visit_default, Descend, Children
  <2>2. unchecked_functions' \subseteq Collect(ast)
    BY <1>4 DEF IInv, visit_default
  <2>3. Recorded(n)'
    BY <1>4 DEF Recorded, visit_default
  <2> QED
    BY <1>4, <2>1, <2>2, <2>3, VisitStep DEF visit_default
<1>5. CASE UNCHANGED vars
  <2>1. UNCHANGED <<ast, pending, unchecked_functions>>
    BY <1>5 DEF vars
  <2>2. TypeOK'
    BY <1>0, <2>1 DEF TypeOK
  <2>3. PICK V \in SUBSET (1..Len(ast)) : Visited(V)
    BY DEF IInv
  <2>4. ASSUME NEW i \in V PROVE Recorded(i)'
    BY <2>1, <2>3 DEF Visited, Recorded
  <2>5. Visited(V)'
    BY <2>1, <2>3, <2>4 DEF Visited
  <2> QED
    BY <2>1, <2>2, <2>5 DEF IInv
<1> QED
  BY <1>2, <1>3, <1>4, <1>5 DEF Next, Done

\* When nothing is pending the visited nodes are the whole tree.
LEMMA VisitorComplete == IInv => CollectsAll
<1> SUFFICES ASSUME IInv, pending = {} PROVE unchecked_functions = Collect(ast)
  BY DEF CollectsAll
<1>0. IsTree(ast)
  BY DEF IInv, TypeOK
<1>1. PICK V \in SUBSET (1..Len(ast)) : Visited(V)
  BY DEF IInv
<1>2. \A i \in 1..Len(ast) : Recorded(i)
  BY <1>0, <1>1, TreeConnected DEF Visited
<1>3. ASSUME NEW j \in 1..Len(ast), ast[j].kind \in {"fn", "implfn"}, IsUnchecked(ast[j].name)
      PROVE  ast[j].name \in unchecked_functions
  <2>1. CASE ast[j].kind = "fn"
    BY <1>2, <1>3, <2>1 DEF Recorded
  <2>2. CASE ast[j].kind = "implfn"
    <3> DEFINE b == ast[j].parent
    <3>1. /\ b \in 1..Len(ast)
          /\ ast[b].kind = "impl"
      BY <1>0, <1>3, <2>2, TreeNodes
    <3>2. j \in Children(ast, b)
      BY DEF Children
    <3> QED
      BY <1>2, <1>3, <2>2, <3>1, <3>2 DEF Recorded
  <2> QED
    BY <1>3, <2>1, <2>2
<1>4. Collect(ast) \subseteq unchecked_functions
  BY <1>3 DEF Collect
<1> QED
  BY <1>4 DEF IInv

\* On every syntax tree, whatever its size, a finished walk holds exactly the
\* unchecked free functions and impl methods of the file.
THEOREM VisitorCorrect == Spec => []CollectsAll
  BY VisitorInit, VisitorInductive, VisitorComplete, PTL DEF Spec
=============================================================================
