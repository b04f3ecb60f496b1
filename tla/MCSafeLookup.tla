----------------------------- MODULE MCSafeLookup -----------------------------
(***************************************************************************)
(* The search for safe versions, on every tree of up to four nodes (two    *)
(* impls with a method each, or functions before and after an impl) and on *)
(* every identifier of up to five tokens.                                  *)
(***************************************************************************)
EXTENDS SafeLookup, MCTrees

LWord == {"get"}
Get          == <<"get">>
GetUnchecked == <<"get", "_", "unchecked">>
UncheckedGet == <<"unchecked", "_", "get">>

LNames == {Get, UncheckedGet}
LUnsafety == BOOLEAN

\* Every tree with a few names, and every name with a few trees.
LSearches == [ast : Trees1 \cup Trees2 \cup Trees3 \cup Trees4, name : {GetUnchecked, UncheckedGet}]
NSearches == [ast : Trees1,
              name : {name \in UNION {[1..n -> Token] : n \in 1..5} : IsUnchecked(name)}]
MCSearches == LSearches \cup NSearches
=============================================================================
