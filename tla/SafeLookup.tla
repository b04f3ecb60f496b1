------------------------------ MODULE SafeLookup ------------------------------
(***************************************************************************)
(* check_for_safe_versions for one recorded function: the search of one    *)
(* parsed file for a function that has the name without "_unchecked".      *)
(* The outer loop is over the items of the file, the inner one over the    *)
(* items of an impl; a "break" leaves only the loop it stands in.          *)
(***************************************************************************)
EXTENDS SourceFile, FiniteSets

CONSTANT Searches       \* the searches considered: a syntax tree and a recorded name

ASSUME LookupAssumption ==
  \A s \in Searches : IsTree(s.ast) /\ s.name \in Ident /\ IsUnchecked(s.name)

VARIABLES ast, func_name, safe_func_name,
          item,                \* items up to this node are behind the outer loop
          impl_item,           \* likewise for the inner loop
          found_safe_func, func_safety,
          pc                   \* "items" | "impl" | "done"

vars == <<ast, func_name, safe_func_name, item, impl_item,
          found_safe_func, func_safety, pc>>
input == <<ast, func_name, safe_func_name>>

TypeOK == /\ IsTree(ast)
          /\ func_name \in Ident
          /\ item \in 0..Len(ast)
          /\ impl_item \in 0..Len(ast)
          /\ found_safe_func \in BOOLEAN
          /\ func_safety \in BOOLEAN
          /\ pc \in {"items", "impl", "done"}

\* The file may have changed since func_name was recorded from it, so any
\* pair of a tree and a name can meet here.
Init == /\ \E s \in Searches : ast = s.ast /\ func_name = s.name
        /\ safe_func_name = SafeName(func_name)
        /\ item = 0
        /\ impl_item = 0
        /\ found_safe_func = FALSE
        /\ func_safety = TRUE
        /\ pc = "items"

\* i is the next node below n after the position at
NextChild(n, at, i) == First(i, {j \in Children(ast, n) : j > at})
NoChild(n, at) == \A j \in Children(ast, n) : j <= at

\* Faulty: the unsafe qualifier is not looked at.
Match_AnySafety(i) == /\ ast[i].name = safe_func_name
                      /\ found_safe_func' = TRUE
                      /\ UNCHANGED func_safety

\* if sig.ident == safe_func_name { found = true; if unsafe { safety = false } }
Match(i) == /\ ast[i].name = safe_func_name
            /\ found_safe_func' = TRUE
            /\ func_safety' = (func_safety /\ ~ast[i].unsafe)

NoMatch(i) == /\ ast[i].name # safe_func_name
              /\ UNCHANGED <<found_safe_func, func_safety>>

\* syn::Item::Fn: a match leaves the loop over the items
ItemFn(i) == /\ pc = "items"
             /\ NextChild(0, item, i)
             /\ ast[i].kind = "fn"
             /\ item' = i
             /\ \/ Match(i) /\ pc' = "done"
                \/ NoMatch(i) /\ UNCHANGED pc
             /\ UNCHANGED <<input, impl_item>>

\* syn::Item::Impl: on to its items
ItemImpl(i) == /\ pc = "items"
               /\ NextChild(0, item, i)
               /\ ast[i].kind = "impl"
               /\ item' = i
               /\ impl_item' = i
               /\ pc' = "impl"
               /\ UNCHANGED <<input, found_safe_func, func_safety>>

\* _ => {}: modules, traits and everything else are passed over
ItemOther(i) == /\ pc = "items"
                /\ NextChild(0, item, i)
                /\ ast[i].kind \notin {"fn", "impl"}
                /\ item' = i
                /\ UNCHANGED <<input, impl_item, found_safe_func, func_safety, pc>>

\* Faulty: no break in the loop over the impl.
ImplItemFn_NoBreak(i) == /\ pc = "impl"
                         /\ NextChild(item, impl_item, i)
                         /\ ast[i].kind = "implfn"
                         /\ impl_item' = i
                         /\ Match(i) \/ NoMatch(i)
                         /\ UNCHANGED <<input, item, pc>>

\* ImplItem::Fn: a match leaves the loop over the impl, not the outer one
ImplItemFn(i) == /\ pc = "impl"
                 /\ NextChild(item, impl_item, i)
                 /\ ast[i].kind = "implfn"
                 /\ impl_item' = i
                 /\ \/ Match(i) /\ pc' = "items"
                    \/ NoMatch(i) /\ UNCHANGED pc
                 /\ UNCHANGED <<input, item>>

ImplItemOther(i) == /\ pc = "impl"
                    /\ NextChild(item, impl_item, i)
                    /\ ast[i].kind # "implfn"
                    /\ impl_item' = i
                    /\ UNCHANGED <<input, item, found_safe_func, func_safety, pc>>

ImplEnd == /\ pc = "impl"
           /\ NoChild(item, impl_item)
           /\ pc' = "items"
           /\ UNCHANGED <<input, item, impl_item, found_safe_func, func_safety>>

ItemsEnd == /\ pc = "items"
            /\ NoChild(0, item)
            /\ pc' = "done"
            /\ UNCHANGED <<input, item, impl_item, found_safe_func, func_safety>>

Done == pc = "done" /\ UNCHANGED vars

Next == \/ \E i \in 1..Len(ast) :
             \/ ItemFn(i) \/ ItemImpl(i) \/ ItemOther(i)
             \/ ImplItemFn(i) \/ ImplItemOther(i)
        \/ ImplEnd \/ ItemsEnd \/ Done

Spec == Init /\ [][Next]_vars
-----------------------------------------------------------------------------
Outcome == VerdictOf(found_safe_func, func_safety)

\* The search reaches the verdict of its loop-free description: the first
\* top-level function of the name ends it, and an unsafe function among the
\* candidates before that decides the outcome.
VerdictReached == pc = "done" => Outcome = Verdict(ast, func_name)

\* What a row of the report tells its reader.  "f" is in the report: the file
\* has a function f at its top level or in a top-level impl that is not unsafe.
\* "f(unsafe)": it has one that is.  "None": it has none at those places.
Visible == {i \in 1..Len(ast) :
              /\ ast[i].name = safe_func_name
              /\ \/ ast[i].kind = "fn" /\ ast[i].parent = 0
                 \/ ast[i].kind = "implfn" /\ ast[ast[i].parent].parent = 0}
OutcomeMeaning ==
  pc = "done" => /\ Outcome = "safe"   => \E i \in Visible : ~ast[i].unsafe
                 /\ Outcome = "unsafe" => \E i \in Visible : ast[i].unsafe
                 /\ Outcome = "none"   => Visible = {}

\* Dropping every occurrence of "_unchecked" at once (they cannot overlap) is
\* what the left-to-right replacement arrives at.
RefSafeName(name) ==
  LET Keep == {i \in 1..Len(name) : ~MatchAt(name, i) /\ ~MatchAt(name, i - 1)}
      Rank(i) == Cardinality({j \in Keep : j <= i})
  IN  [k \in 1..Cardinality(Keep) |-> name[CHOOSE i \in Keep : Rank(i) = k]]

\* The name searched for is the recorded one without its "_unchecked"s.
SafeNameRight == safe_func_name = RefSafeName(func_name)
-----------------------------------------------------------------------------
(***************************************************************************)
(* What the comments of the function promise and the search does not keep. *)
(***************************************************************************)
\* "Iterate over all items of the file, looking for a safe version of the same
\* name" (src/main.rs:101): None is reported only when no item of the file,
\* the methods of a trait included, is such a function.
AllItemsSearched ==
  pc = "done" /\ Outcome = "none" =>
     \A i \in 1..Len(ast) : ast[i].kind \in {"fn", "implfn", "traitfn"}
                               => ast[i].name # safe_func_name

\* The same comment: when the file has a safe version in a place the search
\* looks at, the search reports that one.
SafeVersionFound ==
  pc = "done" /\ (\E i \in Visible : ~ast[i].unsafe) => Outcome = "safe"

\* "Generate the name of the safe version" (src/main.rs:91): the name is not
\* that of the unchecked function, which is no safe version of itself.
NotItsOwnVersion == safe_func_name # func_name
=============================================================================
