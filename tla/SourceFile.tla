------------------------------ MODULE SourceFile ------------------------------
(***************************************************************************)
(* A parsed Rust file as the scanner of src/main.rs sees it: identifiers,  *)
(* the syntax tree, and what the scanner computes from one tree.           *)
(***************************************************************************)
EXTENDS Integers, Sequences

CONSTANT Word       \* the pieces of identifiers other than "_" and "unchecked"

ASSUME WordAssumption == {"_", "unchecked"} \cap Word = {}

(***************************************************************************)
(* Identifiers are sequences of tokens; "unchecked" is one token, and no   *)
(* juxtaposition of the other tokens spells it.                            *)
(***************************************************************************)
Token == Word \cup {"_", "unchecked"}
Ident == Seq(Token)

\* fn_name.contains("unchecked")
IsUnchecked(name) == \E i \in 1..Len(name) : name[i] = "unchecked"

\* "_unchecked" starts at position i
MatchAt(name, i) == /\ i \in 1..Len(name) - 1
                    /\ name[i] = "_"
                    /\ name[i + 1] = "unchecked"

\* Faulty: only the first match goes (replacen with 1).
SafeName_FirstOnly(name) ==
  LET matches == {i \in 1..Len(name) : MatchAt(name, i)}
  IN  IF matches = {} THEN name
      ELSE LET i == CHOOSE i \in matches : \A j \in matches : i <= j
           IN  SubSeq(name, 1, i - 1) \o SubSeq(name, i + 2, Len(name))

\* func_name.replace("_unchecked", ""): str::replace copies what lies between
\* successive matches, found from left to right; rest[i] is what it makes of
\* the tokens from position i on.
SafeName(name) ==
  LET rest[i \in 1..Len(name) + 1] ==
        IF i > Len(name) THEN << >>
        ELSE IF MatchAt(name, i) THEN rest[i + 2]
        ELSE <<name[i]>> \o rest[i + 1]
  IN  rest[1]

-----------------------------------------------------------------------------
(***************************************************************************)
(* A syntax tree is the sequence of those of its nodes that matter here,   *)
(* outermost first.  A node has the index of the node around it as its     *)
(* parent (0: the file).  Kinds: "fn" is an ItemFn (free, in a module or   *)
(* in a block), "impl" an ItemImpl and "implfn" an ImplItem::Fn of it,     *)
(* "trait" and "traitfn" likewise, "other" any other node that can enclose *)
(* items.  Macro bodies are tokens to syn: nothing in them is a node.      *)
(***************************************************************************)
Kind == {"fn", "impl", "implfn", "trait", "traitfn", "other"}

Node == [kind : Kind, parent : Nat, name : Ident, unsafe : BOOLEAN]

\* Where the grammar lets a node of kind k stand.
Encloses(outer, k) ==
  CASE k = "implfn"  -> outer = "impl"
    [] k = "traitfn" -> outer = "trait"
    [] k = "other"   -> TRUE
    [] OTHER         -> outer \in {"file", "fn", "implfn", "traitfn", "other"}

IsTree(ast) ==
  /\ ast \in Seq(Node)
  /\ \A i \in 1..Len(ast) :
       LET p == ast[i].parent
       IN  /\ p < i
           /\ Encloses(IF p = 0 THEN "file" ELSE ast[p].kind, ast[i].kind)

Children(ast, n) == {i \in 1..Len(ast) : ast[i].parent = n}

\* The unchecked functions of a file, as process_file records them: the names
\* of its free functions and impl methods, at any depth.
Collect(ast) == {ast[i].name : i \in {j \in 1..Len(ast) :
                                       /\ ast[j].kind \in {"fn", "implfn"}
                                       /\ IsUnchecked(ast[j].name)}}

-----------------------------------------------------------------------------
(***************************************************************************)
(* The verdict check_for_safe_versions reaches: what the loop computes,    *)
(* stated without the loop.                                                *)
(***************************************************************************)
\* The free functions at the top level, and those of an impl, called name.
TopFns(ast, name) == {i \in Children(ast, 0) :
                        ast[i].kind = "fn" /\ ast[i].name = name}
ImplFns(ast, b, name) == {i \in Children(ast, b) :
                            ast[i].kind = "implfn" /\ ast[i].name = name}

First(i, S) == i \in S /\ \A j \in S : i <= j

\* The functions the search looks at: the first top-level function of that
\* name ends it; until then it looks at the first one in every top-level impl.
Candidates(ast, name) ==
  {i \in 1..Len(ast) :
     \/ First(i, TopFns(ast, name))
     \/ \E b \in Children(ast, 0) :
          /\ ast[b].kind = "impl"
          /\ \A f \in TopFns(ast, name) : b < f
          /\ First(i, ImplFns(ast, b, name))}

Verdicts == {"safe", "unsafe", "none"}

\* "get" is reported as safe, "get(unsafe)" as unsafe, "None" as none.
VerdictOf(found_safe_func, func_safety) ==
  IF ~found_safe_func THEN "none" ELSE IF func_safety THEN "safe" ELSE "unsafe"

Verdict(ast, func_name) ==
  LET C == Candidates(ast, SafeName(func_name))
  IN  VerdictOf(C # {}, \A i \in C : ~ast[i].unsafe)
=============================================================================
