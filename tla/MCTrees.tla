------------------------------- MODULE MCTrees -------------------------------
(***************************************************************************)
(* Every syntax tree of a bounded size, for the runs about one file.       *)
(***************************************************************************)
EXTENDS SourceFile

CONSTANTS MCNames,        \* names of functions
          MCUnsafety      \* unsafe qualifiers a function may have

Named == {"fn", "implfn", "traitfn"}

\* The nodes that can be the n-th one of a tree.
NodesAt(n) ==
       [kind : Named, parent : 0..n - 1, name : MCNames, unsafe : MCUnsafety]
  \cup [kind : Kind \ Named, parent : 0..n - 1, name : {<< >>}, unsafe : {FALSE}]

Stands(tree, x) == Encloses(IF x.parent = 0 THEN "file" ELSE tree[x.parent].kind, x.kind)

\* The trees of n nodes, from those of n - 1.
Grow(S, n) == {Append(q[1], q[2]) : q \in {r \in S \X NodesAt(n) : Stands(r[1], r[2])}}

Trees1 == Grow({<< >>}, 1)
Trees2 == Grow(Trees1, 2)
Trees3 == Grow(Trees2, 3)
Trees4 == Grow(Trees3, 4)
=============================================================================
