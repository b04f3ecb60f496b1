---------------------------- MODULE ScannerTyping ----------------------------
(***************************************************************************)
(* Type correctness of the whole program, and the facts about paths,       *)
(* frames and rows that its other proofs use.                              *)
(***************************************************************************)
EXTENDS Scanner, TLAPS

\* The scanned directory itself is a directory.
LEMMA RootIsDir == Root \in Path /\ IsDir(Root)
<1> DEFINE E(f, k) == IF k = 0 THEN [at |-> RootInode, links |-> 0]
                      ELSE LET s == f[k - 1]
                               links == s.links + (IF <<s.at, Root[k]>> \in IsLink THEN 1 ELSE 0)
                           IN  IF /\ s.at \in DirInode
                                  /\ Root[k] \in DOMAIN Entries[s.at]
                                  /\ links <= MaxLinks
                               THEN [at |-> Entries[s.at][Root[k]], links |-> links]
                               ELSE [at |-> NoInode, links |-> links]
           step == CHOOSE f : f = [k \in 0..Len(Root) |-> E(f, k)]
           g == [k \in 0..0 |-> [at |-> RootInode, links |-> 0]]
<1>1. Len(Root) = 0 /\ 0..Len(Root) = 0..0
  BY DEF Root
<1>2. \A f : [k \in 0..Len(Root) |-> E(f, k)] = g
  <2> SUFFICES ASSUME NEW f PROVE [k \in 0..0 |-> E(f, k)] = g
    BY <1>1
  <2>1. \A k \in 0..0 : E(f, k) = [at |-> RootInode, links |-> 0]
    OBVIOUS
  <2> QED
    BY <2>1, Zenon
<1>3. step = g
  <2> HIDE DEF g
  <2> QED
    BY <1>2
<1>4. Resolve(Root) = step[Len(Root)].at
  BY Zenon DEF Resolve
<1>5. Resolve(Root) = RootInode
  <2>1. g[0].at = RootInode
    OBVIOUS
  <2> HIDE DEF g, step
  <2> QED
    BY <1>1, <1>3, <1>4, <2>1
<1> QED
  BY <1>5, FileTreeAssumption DEF IsDir, Path, Root

\* What read_dir lists are paths.
LEMMA ListingTyped ==
  ASSUME NEW d \in Path, IsDir(d)
  PROVE  Listing(d) \subseteq Path
<1>1. DOMAIN Entries[Resolve(d)] \subseteq Name
  BY FileTreeAssumption DEF IsDir
<1> QED
  BY <1>1 DEF Listing, Path

\* The string made of a path names a path.
LEMMA DisplayTyped == \A p \in Path : Display(p) \in Path
  BY FileTreeAssumption DEF Display, Path

\* The names recorded from a file are identifiers.
LEMMA CollectTyped ==
  ASSUME NEW t \in Asts
  PROVE  Collect(t) \subseteq Ident
<1>1. t \in Seq(Node)
  BY ScannerAssumption DEF IsTree
<1>2. ASSUME NEW j \in 1..Len(t) PROVE t[j].name \in Ident
  <2>1. t[j] \in Node
    BY <1>1
  <2> QED
    BY <2>1 DEF Node
<1> QED
  BY <1>2 DEF Collect

LEMMA VerdictTyped == \A t, name : Verdict(t, name) \in Verdicts
  BY DEF Verdict, VerdictOf, Verdicts

-----------------------------------------------------------------------------
\* The types, that only directories are listed, and that what is visited is a
\* syntax tree.
TypeInv == /\ TypeOK
           /\ pc = "list" => IsDir(arg)
           /\ pc = "lock" => parsed \in Asts

LEMMA TypeInit == Init => TypeInv
<1> SUFFICES ASSUME Init PROVE TypeInv
  OBVIOUS
<1>1. report \in [run : Nat, lines : Seq(Line), torn : BOOLEAN]
  BY DEF Init, NoReport
<1>2. seen \in [FileInode -> SUBSET (Asts \cup {Bad})]
  BY DEF Init
<1> QED
  BY <1>1, <1>2, RootIsDir DEF Init, TypeInv, TypeOK, Stopped

\* A run that stops leaves nothing behind in memory.
LEMMA StopTyped ==
  ASSUME TypeInv, NEW how \in Stopped \ {"idle"}, Stop(how), UNCHANGED report
  PROVE  TypeInv'
  BY RootIsDir DEF TypeInv, TypeOK, Stop, env, history, Stopped

LEMMA TypeInductive == TypeInv /\ [Next]_vars => TypeInv'
<1> SUFFICES ASSUME TypeInv, [Next]_vars PROVE TypeInv'
  OBVIOUS
<1> USE DEF env, volatile, history
<1>0. TypeOK
  BY DEF TypeInv
<1>1. CASE ReadDir
  <2>1. arg \in Path /\ Listing(arg) \subseteq Path
    BY <1>1, ListingTyped DEF TypeInv, TypeOK, ReadDir
  <2>2. stack' \in Seq(SUBSET Path) /\ skipped' \subseteq Path
    BY <1>0, <1>1, <2>1 DEF TypeOK, ReadDir
  <2> QED
    BY <1>0, <1>1, <2>2 DEF TypeInv, TypeOK, ReadDir, Stopped, Running
<1>2. CASE LeaveDirectory
  <2>1. stack' \in Seq(SUBSET Path)
    BY <1>0, <1>2 DEF TypeOK, LeaveDirectory
  <2> QED
    BY <1>0, <1>2, <2>1 DEF TypeInv, TypeOK, LeaveDirectory, Stopped, Running
<1>3. ASSUME NEW p, NEW dir, TakeUp(p, dir)
      PROVE  /\ p \in Path /\ stack' \in Seq(SUBSET Path)
             /\ walked' \subseteq Path /\ missed' \subseteq Path
  <2>1. Len(stack) \in DOMAIN stack /\ Top \in SUBSET Path
    BY <1>0, <1>3 DEF TypeOK, TakeUp, Top
  <2> QED
    BY <1>0, <1>3, <2>1 DEF TypeOK, TakeUp, Top
<1>4. ASSUME NEW p, EnterDirectory(p) \/ OpenFile(p) \/ SkipEntry(p) PROVE TypeInv'
  <2>1. PICK dir : TakeUp(p, dir) /\ (pc' = "list" => dir = TRUE)
    BY <1>4 DEF EnterDirectory, OpenFile, SkipEntry, TakeUp
  <2>2. /\ p \in Path /\ stack' \in Seq(SUBSET Path)
        /\ walked' \subseteq Path /\ missed' \subseteq Path
    BY <1>3, <2>1
  <2>3. UNCHANGED <<env, report, run, parsed, guard, found, pending, results, unwritten, seen, skipped>>
    BY <2>1 DEF TakeUp
  <2>4. /\ pc' \in Stopped \cup Running /\ arg' \in Path
        /\ pc' = "list" => IsDir(arg')
        /\ pc' # "lock"
    <3>1. /\ pc' \in Stopped \cup Running /\ pc' # "lock" /\ arg' \in Path
          /\ pc' = "list" => arg' = p
      BY <1>0, <1>4, <2>1, <2>2 DEF TypeOK, EnterDirectory, OpenFile, SkipEntry, TakeUp, Stopped, Running
    <3>2. dir = TRUE => IsDir(p)
      BY <2>1 DEF TakeUp, is_dir
    <3> QED
      BY <2>1, <3>1, <3>2
  <2>5. TypeOK'
    BY <1>0, <2>2, <2>3, <2>4 DEF TypeOK, env
  <2>6. pc' = "list" => IsDir(arg)'
    BY <2>4 DEF IsDir
  <2> QED
    BY <2>4, <2>5, <2>6, Zenon DEF TypeInv
<1>5. CASE ReadFile
  BY <1>0, <1>5 DEF TypeInv, TypeOK, ReadFile, Stopped, Running
<1>6. CASE LockAndInsert
  <2>1. parsed \in Asts /\ Display(arg) \in Path
    BY <1>6, DisplayTyped DEF TypeInv, TypeOK, LockAndInsert
  <2>2. {Display(arg)} \X Collect(parsed) \subseteq Key
    BY <2>1, CollectTyped DEF Key
  <2>3. found' \subseteq Key
    BY <1>0, <1>6, <2>2 DEF TypeOK, LockAndInsert
  <2> QED
    BY <1>0, <1>6, <2>3 DEF TypeInv, TypeOK, LockAndInsert, Stopped, Running
<1>7. CASE ReturnFromFile
  BY <1>0, <1>7 DEF TypeInv, TypeOK, ReturnFromFile, Stopped, Running
<1>8. CASE BeginCheck \/ EndCheck
  BY <1>0, <1>8 DEF TypeInv, TypeOK, BeginCheck, EndCheck, Stopped, Running
<1>9. ASSUME NEW k \in pending, CheckOne(k[1], k[2]) PROVE TypeInv'
  <2>1. k[1] \in Path /\ k[2] \in Ident
    BY <1>0 DEF TypeOK, Key
  <2>2. results' \subseteq Row
    BY <1>0, <1>9, <2>1, VerdictTyped DEF TypeOK, CheckOne, Row
  <2> QED
    BY <1>0, <1>9, <2>2 DEF TypeInv, TypeOK, CheckOne
<1>10. CASE Create
  <2>1. report' \in [run : Nat, lines : Seq(Line), torn : BOOLEAN]
    BY <1>0, <1>10 DEF TypeOK, Create
  <2> QED
    BY <1>0, <1>10, <2>1 DEF TypeInv, TypeOK, Create, Stopped, Running
<1>11. CASE BeginLine
  <2>1. report' \in [run : Nat, lines : Seq(Line), torn : BOOLEAN]
    BY <1>0, <1>11 DEF TypeOK, BeginLine
  <2> QED
    BY <1>0, <1>11, <2>1 DEF TypeInv, TypeOK, BeginLine
<1>12. CASE EndLine
  <2>1. PICK line \in NextLine :
           /\ report' = [report EXCEPT !.torn = FALSE, !.lines = Append(@, line)]
           /\ unwritten' = unwritten \ {line}
    BY <1>12 DEF EndLine
  <2>2. line \in Line
    BY <1>0 DEF TypeOK, NextLine, Line
  <2>3. report' \in [run : Nat, lines : Seq(Line), torn : BOOLEAN]
    <3>1. report \in [run : Nat, lines : Seq(Line), torn : BOOLEAN]
      BY <1>0 DEF TypeOK
    <3>2. report' = [run |-> report.run, lines |-> Append(report.lines, line), torn |-> FALSE]
      BY <2>1, <3>1
    <3>3. Append(report.lines, line) \in Seq(Line)
      BY <2>2, <3>1
    <3> QED
      BY <3>1, <3>2, <3>3
  <2> QED
    BY <1>0, <1>12, <2>1, <2>3 DEF TypeInv, TypeOK, EndLine
<1>13. CASE Announce
  BY <1>0, <1>13 DEF TypeInv, TypeOK, Announce, AllWritten, Stopped
<1>14. CASE WalkPanics \/ AnnouncePanics \/ Fails \/ Kill
  <2>1. /\ UNCHANGED report
        /\ \E how \in Stopped \ {"idle"} : Stop(how)
    BY <1>14 DEF WalkPanics, AnnouncePanics, Fails, Kill, Stopped
  <2> QED
    BY <2>1, StopTyped
<1>15. CASE Start
  <2>1. seen' \in [FileInode -> SUBSET (Asts \cup {Bad})]
    BY <1>0, <1>15 DEF TypeOK, Start
  <2>2. arg' = Root /\ arg' \in Path /\ walked' = {Root} /\ walked' \subseteq Path
    BY <1>15, RootIsDir DEF Start
  <2>3. TypeOK'
    BY <1>0, <1>15, <2>1, <2>2 DEF TypeOK, Start, Running, env
  <2>4. IsDir(arg)'
    BY <2>2, RootIsDir DEF IsDir
  <2>5. pc' # "lock"
    BY <1>15 DEF Start
  <2> QED
    BY <2>3, <2>4, <2>5, Zenon DEF TypeInv
<1>16. ASSUME NEW i \in FileInode, NEW content \in Asts \cup {Bad}, Edit(i, content)
       PROVE  TypeInv'
  <2>1. /\ disk' \in [FileInode -> Asts \cup {Bad}]
        /\ seen' \in [FileInode -> SUBSET (Asts \cup {Bad})]
        /\ edits' \in Nat
    BY <1>0, <1>16 DEF TypeOK, Edit
  <2> QED
    BY <1>0, <1>16, <2>1 DEF TypeInv, TypeOK, Edit
<1>17. CASE UNCHANGED vars
  BY <1>0, <1>17 DEF TypeInv, TypeOK, vars
<1> QED
  BY <1>1, <1>2, <1>4, <1>5, <1>6, <1>7, <1>8, <1>9, <1>10, <1>11, <1>12, <1>13,
     <1>14, <1>15, <1>16, <1>17 DEF Next, Program, Over

\* Through any number of runs, crashes, failures and edits, the program's state
\* and the report keep their types.
THEOREM ScannerTyped == Spec => []TypeOK
<1>1. TypeInv => TypeOK
  BY DEF TypeInv
<1> QED
  BY <1>1, TypeInit, TypeInductive, PTL DEF Spec

\* The same with the strengthening that makes it inductive.
THEOREM ScannerTypeInv == Spec => []TypeInv
  BY TypeInit, TypeInductive, PTL DEF Spec
=============================================================================
