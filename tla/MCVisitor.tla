------------------------------ MODULE MCVisitor ------------------------------
(***************************************************************************)
(* FunctionVisitor on every tree of up to four nodes.                      *)
(***************************************************************************)
EXTENDS Visitor, MCTrees

VWord == {"get"}
VNames == {<<"get">>, <<"get", "_", "unchecked">>}
VUnsafety == {FALSE}
VAsts == Trees1 \cup Trees2 \cup Trees3 \cup Trees4
=============================================================================
