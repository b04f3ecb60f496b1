------------------------------- MODULE Visitor -------------------------------
(***************************************************************************)
(* FunctionVisitor: the walk syn's Visit trait makes over one parsed file  *)
(* and the set of unchecked functions it leaves behind.  A pending node is *)
(* one an active visit has still to descend to; syn descends depth first,  *)
(* the model in any order, since all a visit does is insert into a set.    *)
(***************************************************************************)
EXTENDS SourceFile

CONSTANT Asts       \* the syntax trees considered

ASSUME AstsAssumption == \A ast \in Asts : IsTree(ast)

VARIABLES ast,                  \* parsed_file
          pending,              \* nodes whose visit has not started
          unchecked_functions   \* the names the visitor has recorded

vars == <<ast, pending, unchecked_functions>>

TypeOK == /\ IsTree(ast)
          /\ pending \subseteq 1..Len(ast)
          /\ unchecked_functions \subseteq Ident

\* visitor.visit_file(&parsed_file) with an empty set
Init == /\ ast \in Asts
        /\ pending = Children(ast, 0)
        /\ unchecked_functions = {}

\* syn's visit::visit_*: go on to everything below n
Descend(n) == pending' = (pending \ {n}) \cup Children(ast, n)

\* Faulty: what is nested in the function is not visited; the visit calls itself
\* instead of syn's.
visit_item_fn_Shallow(n) ==
  /\ ast[n].kind = "fn"
  /\ unchecked_functions' = unchecked_functions \cup
        {m \in {ast[n].name} : IsUnchecked(m)}
  /\ pending' = pending \ {n}
  /\ UNCHANGED ast

visit_item_fn_CallsItself(n) ==
  /\ ast[n].kind = "fn"
  /\ unchecked_functions' = unchecked_functions \cup
        {m \in {ast[n].name} : IsUnchecked(m)}
  /\ UNCHANGED <<ast, pending>>

visit_item_fn(n) ==
  /\ ast[n].kind = "fn"
  /\ unchecked_functions' = unchecked_functions \cup
        {m \in {ast[n].name} : IsUnchecked(m)}
  /\ Descend(n)
  /\ UNCHANGED ast

visit_item_impl(n) ==
  /\ ast[n].kind = "impl"
  /\ unchecked_functions' = unchecked_functions \cup
        {m \in {ast[i].name : i \in {j \in Children(ast, n) : ast[j].kind = "implfn"}} :
            IsUnchecked(m)}
  /\ Descend(n)
  /\ UNCHANGED ast

\* The visits FunctionVisitor does not override.
visit_default(n) ==
  /\ ast[n].kind \in {"implfn", "trait", "traitfn", "other"}
  /\ Descend(n)
  /\ UNCHANGED <<ast, unchecked_functions>>

Done == pending = {} /\ UNCHANGED vars

Next == \/ \E n \in pending : visit_item_fn(n) \/ visit_item_impl(n) \/ visit_default(n)
        \/ Done

Spec == Init /\ [][Next]_vars /\ WF_vars(Next)

-----------------------------------------------------------------------------
\* When the walk is over the visitor holds exactly the unchecked free functions
\* and impl methods of the file, however deeply they are nested.
CollectsAll == pending = {} => unchecked_functions = Collect(ast)

\* The walk over a file comes to an end.
Finishes == <>[](pending = {})

\* "Iterate over all items of the file ... record the unchecked functions
\* found" (src/main.rs:51,54): every function declared with such a name is
\* recorded, those that a trait declares included.
TraitFnsCollected ==
  pending = {} => \A n \in 1..Len(ast) :
                     /\ ast[n].kind \in {"fn", "implfn", "traitfn"}
                     /\ IsUnchecked(ast[n].name)
                     => ast[n].name \in unchecked_functions
=============================================================================
