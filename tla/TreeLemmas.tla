------------------------------ MODULE TreeLemmas ------------------------------
(***************************************************************************)
(* Facts about the syntax trees of SourceFile.                             *)
(***************************************************************************)
EXTENDS SourceFile, WellFoundedInduction, TLAPS

\* A nonempty set of numbers has a least element.
LEMMA LeastElement ==
  ASSUME NEW S, S \subseteq Nat, S # {}
  PROVE  \E m \in S : \A k \in S : m <= k
<1> DEFINE R == {ss \in Nat \X Nat : ss[1] < ss[2]}
<1>1. IsWellFoundedOn(R, Nat)
  BY NatLessThanWellFounded, Zenon DEF OpToRel
<1>2. PICK m \in S : \A k \in S : ~(<<k, m>> \in R)
  <2> HIDE DEF R
  <2> QED BY <1>1, WFMin
<1>3. ASSUME NEW k \in S PROVE m <= k
  <2>1. <<k, m>> \in Nat \X Nat /\ <<k, m>>[1] = k /\ <<k, m>>[2] = m
    OBVIOUS
  <2>2. ~(k < m)
    BY <1>2, <2>1, Zenon
  <2> QED
    BY <2>2
<1> QED
  BY <1>3

\* What being a tree says of a single node (SourceFile's IsTree).
LEMMA TreeNodes ==
  ASSUME NEW t, IsTree(t), NEW j \in 1..Len(t)
  PROVE  /\ t[j].name \in Ident
         /\ t[j].kind \in Kind
         /\ t[j].parent \in Nat
         /\ t[j].parent < j
         /\ t[j].unsafe \in BOOLEAN
         /\ t[j].kind = "implfn" => /\ t[j].parent # 0
                                    /\ t[t[j].parent].kind = "impl"
<1>1. t \in Seq(Node)
  BY DEF IsTree
<1>2. t[j] \in Node
  BY <1>1
<1>3. /\ t[j].parent < j
      /\ Encloses(IF t[j].parent = 0 THEN "file" ELSE t[t[j].parent].kind, t[j].kind)
  BY DEF IsTree
<1>4. /\ t[j].name \in Ident
      /\ t[j].kind \in Kind
      /\ t[j].parent \in Nat
      /\ t[j].unsafe \in BOOLEAN
  BY <1>2 DEF Node
<1>5. t[j].kind = "implfn" => (IF t[j].parent = 0 THEN "file" ELSE t[t[j].parent].kind) = "impl"
  BY <1>3 DEF Encloses
<1> QED
  BY <1>3, <1>4, <1>5

\* A tree has no part that is cut off: a set with the file's own items that has,
\* with a node, all nodes below it, is the whole tree.
LEMMA TreeConnected ==
  ASSUME NEW t, IsTree(t), NEW V,
         \A i \in 1..Len(t) : t[i].parent = 0 \/ t[i].parent \in V => i \in V
  PROVE  1..Len(t) \subseteq V
<1> DEFINE U == {i \in 1..Len(t) : i \notin V}
<1> SUFFICES ASSUME U # {} PROVE FALSE
  OBVIOUS
<1>0. Len(t) \in Nat
  BY DEF IsTree
<1>1. PICK m \in U : \A k \in U : m <= k
  <2>1. U \subseteq Nat
    BY <1>0
  <2> HIDE DEF U
  <2> QED BY <2>1, LeastElement
<1>2. /\ t[m].parent \in Nat
      /\ t[m].parent < m
  BY <1>1, TreeNodes
<1>3. t[m].parent # 0 /\ t[m].parent \notin V
  BY <1>1
<1>4. t[m].parent \in U
  BY <1>0, <1>1, <1>2, <1>3
<1> QED
  BY <1>0, <1>1, <1>2, <1>4
=============================================================================
