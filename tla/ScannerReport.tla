---------------------------- MODULE ScannerReport ----------------------------
(***************************************************************************)
(* From the recorded functions to the report: what the rows rest on when   *)
(* files change under the program, when the report is touched, and what a  *)
(* run that announces success has written.                                 *)
(***************************************************************************)
EXTENDS ScannerTyping

Before == {"list", "walk", "read", "lock", "unlock", "begin_check"}

\* The history variable has the present contents too.
DiskSeen == \A i \in FileInode : disk[i] \in seen[i]

\* The mutex is held exactly between the two locks and the ends of their scopes.
GuardHeld == guard = (IF pc \in {"unlock", "check"} THEN "held" ELSE "free")

\* A version of the file that existed during the run has the function.
SeenIn(file, name) ==
  /\ Resolve(file) \in FileInode
  /\ \E t \in seen[Resolve(file)] \cap Asts : name \in Collect(t)

FoundSeen == \A k \in found : SeenIn(k[1], k[2])

ParsedSeen == pc = "lock" => /\ Resolve(Display(arg)) \in FileInode
                             /\ parsed \in seen[Resolve(Display(arg))]

KeysOf(R) == {<<r[1], r[2]>> : r \in R}

\* The check has a row for exactly the functions it is done with.
CheckProgress ==
  /\ pc \in Before => results = {}
  /\ pc = "check" => pending \subseteq found /\ KeysOf(results) = found \ pending
  /\ pc \in {"create", "write", "ok"} => KeysOf(results) = found

\* The lines written so far and the rows still to be written are the table.
TableSoFar ==
  /\ Len(report.lines) >= 1 => report.lines[1] = Header
  /\ Len(report.lines) >= 2 => report.lines[2] = Rule
  /\ Rows \cup unwritten = results
  /\ Rows \cap unwritten = {}
  /\ \A j, k \in 3..Len(report.lines) :
        report.lines[j] = report.lines[k] => j = k

Table ==
  /\ pc = "create" => unwritten = results
  /\ pc \in {"write", "ok"} => report.run = run /\ TableSoFar
  /\ pc = "ok" => ~report.torn /\ Len(report.lines) >= 2 /\ unwritten = {}

ReportInv == /\ TypeInv
             /\ DiskSeen /\ GuardHeld /\ FoundSeen /\ ParsedSeen
             /\ CheckProgress
             /\ RowsJustified /\ OneRowPerFunction
             /\ Table

-----------------------------------------------------------------------------
LEMMA ReportInit == Init => ReportInv
<1> SUFFICES ASSUME Init PROVE ReportInv
  OBVIOUS
<1>1. TypeInv
  BY TypeInit
<1>2. DiskSeen /\ GuardHeld /\ FoundSeen /\ ParsedSeen
  BY DEF Init, DiskSeen, GuardHeld, FoundSeen, ParsedSeen
<1>3. CheckProgress /\ RowsJustified /\ OneRowPerFunction /\ Table
  BY DEF Init, CheckProgress, RowsJustified, OneRowPerFunction, Table, Before
<1> QED
  BY <1>1, <1>2, <1>3 DEF ReportInv

\* A row is no header or rule.
LEMMA RowIsNoHeader == Header \notin Row /\ Rule \notin Row
<1>1. \A r \in Row : Len(r) = 3
  BY DEF Row
<1> QED
  BY <1>1 DEF Header, Rule

LEMMA ZeroOneMore == \A n \in Nat : /\ n = 0 \/ n = 1 \/ n >= 2
                                    /\ n < 2 <=> n = 0 \/ n = 1
                                    /\ n >= 2 => n # 0 /\ n # 1
                                    /\ n + 1 >= 2 => n # 0
  OBVIOUS

\* The line to be written is decided by the number of lines that are there.
LEMMA NextLineByCount ==
  ASSUME report.lines \in Seq(Line)
  PROVE  /\ Len(report.lines) \in Nat
         /\ Len(report.lines) = 0 => NextLine = {Header}
         /\ Len(report.lines) = 1 => NextLine = {Rule}
         /\ Len(report.lines) >= 2 => NextLine = unwritten
<1>1. Len(report.lines) \in Nat
  OBVIOUS
<1>2. CASE report.lines = << >>
  <2>1. Len(report.lines) = 0
    BY <1>2
  <2>2. NextLine = {Header}
    BY <1>2, Zenon DEF NextLine
  <2> QED
    BY <2>1, <2>2
<1>3. CASE report.lines # << >>
  <2>1. Len(report.lines) # 0
    BY <1>3
  <2>2. NextLine = IF Len(report.lines) = 1 THEN {Rule} ELSE unwritten
    BY <1>3, Zenon DEF NextLine
  <2> QED
    BY <1>1, <2>1, <2>2, ZeroOneMore
<1> QED
  BY <1>2, <1>3

\* What the run has seen stays seen.
LEMMA SeenGrows ==
  ASSUME RowsJustified, FoundSeen, UNCHANGED <<found, results>>,
         \A i \in FileInode : seen[i] \subseteq seen'[i]
  PROVE  RowsJustified' /\ FoundSeen'
<1>1. ASSUME NEW k \in found PROVE SeenIn(k[1], k[2])'
  BY DEF FoundSeen, SeenIn
<1>2. ASSUME NEW r \in results
      PROVE  /\ Resolve(r[1]) \in FileInode
             /\ \E ast \in seen'[Resolve(r[1])] \cap Asts : r[2] \in Collect(ast)
             /\ \E ast \in seen'[Resolve(r[1])] \cap Asts : r[3] = Verdict(ast, r[2])
  BY DEF RowsJustified
<1> QED
  BY <1>1, <1>2 DEF FoundSeen, RowsJustified

\* The steps of process_directory do not concern the report.
LEMMA ReportWalk ==
  ASSUME ReportInv, TypeInv',
         UNCHANGED <<env, report, run, guard, found, pending, results, unwritten, seen>>,
         pc \in {"list", "walk"}, pc' \in {"list", "walk", "read", "begin_check"}
  PROVE  ReportInv'
<1>1. DiskSeen' /\ GuardHeld' /\ ParsedSeen'
  BY DEF ReportInv, DiskSeen, GuardHeld, ParsedSeen, env
<1>2. FoundSeen' /\ RowsJustified' /\ OneRowPerFunction'
  BY SeenGrows DEF ReportInv, OneRowPerFunction
<1>3. CheckProgress' /\ Table'
  BY DEF ReportInv, CheckProgress, Table, Before
<1> QED
  BY <1>1, <1>2, <1>3 DEF ReportInv

\* A run begins, or ends without success: there are no rows.
LEMMA ReportEmpty ==
  ASSUME ReportInv, TypeInv', DiskSeen',
         found' = {}, results' = {}, guard' = "free",
         pc' \in {"list", "err", "panic", "killed"}
  PROVE  ReportInv'
<1>1. GuardHeld' /\ FoundSeen' /\ ParsedSeen'
  BY DEF GuardHeld, FoundSeen, ParsedSeen
<1>2. CheckProgress' /\ RowsJustified' /\ OneRowPerFunction' /\ Table'
  BY DEF CheckProgress, RowsJustified, OneRowPerFunction, Table, Before
<1> QED
  BY <1>1, <1>2 DEF ReportInv

LEMMA ReportReadFile ==
  ASSUME ReportInv, TypeInv', ReadFile
  PROVE  ReportInv'
<1> USE DEF env, history
<1>1. ParsedSeen'
  <2>1. PICK ast \in Asts : Parses(Display(arg), ast) /\ parsed' = ast
    BY DEF ReadFile
  <2> QED
    BY <2>1 DEF ReadFile, ReportInv, ParsedSeen, DiskSeen, Parses
<1>2. DiskSeen' /\ GuardHeld'
  BY DEF ReadFile, ReportInv, DiskSeen, GuardHeld
<1>3. FoundSeen' /\ RowsJustified' /\ OneRowPerFunction'
  BY SeenGrows DEF ReadFile, ReportInv, OneRowPerFunction
<1>4. CheckProgress' /\ Table'
  BY DEF ReadFile, ReportInv, CheckProgress, Table, Before
<1> QED
  BY <1>1, <1>2, <1>3, <1>4 DEF ReportInv

LEMMA ReportInsert ==
  ASSUME ReportInv, TypeInv', LockAndInsert
  PROVE  ReportInv'
<1> USE DEF env, history
<1>1. FoundSeen'
  <2> SUFFICES ASSUME NEW k \in found' PROVE SeenIn(k[1], k[2])
    BY DEF LockAndInsert, FoundSeen, SeenIn
  <2>1. CASE k \in found
    BY <2>1 DEF ReportInv, FoundSeen
  <2>2. CASE k \in {Display(arg)} \X Collect(parsed)
    <3>1. k[1] = Display(arg) /\ k[2] \in Collect(parsed)
      BY <2>2
    <3>2. parsed \in seen[Resolve(Display(arg))] \cap Asts /\ Resolve(Display(arg)) \in FileInode
      BY DEF LockAndInsert, ReportInv, ParsedSeen, TypeInv
    <3> QED
      BY <3>1, <3>2 DEF SeenIn
  <2> QED
    BY <2>1, <2>2 DEF LockAndInsert
<1>2. DiskSeen' /\ GuardHeld' /\ ParsedSeen'
  BY DEF LockAndInsert, ReportInv, DiskSeen, GuardHeld, ParsedSeen
<1>3. results = {} /\ results' = {}
  BY DEF LockAndInsert, ReportInv, CheckProgress, Before
<1>4. RowsJustified' /\ OneRowPerFunction' /\ CheckProgress' /\ Table'
  BY <1>3 DEF LockAndInsert, RowsJustified, OneRowPerFunction, CheckProgress, Table, Before
<1> QED
  BY <1>1, <1>2, <1>4 DEF ReportInv

LEMMA ReportReturn ==
  ASSUME ReportInv, TypeInv', ReturnFromFile
  PROVE  ReportInv'
<1> USE DEF env, history
<1>1. DiskSeen' /\ GuardHeld' /\ ParsedSeen'
  BY DEF ReturnFromFile, ReportInv, DiskSeen, GuardHeld, ParsedSeen
<1>2. FoundSeen' /\ RowsJustified' /\ OneRowPerFunction'
  BY SeenGrows DEF ReturnFromFile, ReportInv, OneRowPerFunction
<1>3. CheckProgress' /\ Table'
  BY DEF ReturnFromFile, ReportInv, CheckProgress, Table, Before
<1> QED
  BY <1>1, <1>2, <1>3 DEF ReportInv

LEMMA ReportBeginCheck ==
  ASSUME ReportInv, TypeInv', BeginCheck
  PROVE  ReportInv'
<1> USE DEF env, history
<1>1. DiskSeen' /\ GuardHeld' /\ ParsedSeen'
  BY DEF BeginCheck, ReportInv, DiskSeen, GuardHeld, ParsedSeen
<1>2. FoundSeen' /\ RowsJustified' /\ OneRowPerFunction'
  BY SeenGrows DEF BeginCheck, ReportInv, OneRowPerFunction
<1>3. results' = {} /\ pending' = found'
  BY DEF BeginCheck, ReportInv, CheckProgress, Before
<1>4. CheckProgress' /\ Table'
  BY <1>3 DEF BeginCheck, CheckProgress, Table, Before, KeysOf
<1> QED
  BY <1>1, <1>2, <1>4 DEF ReportInv

LEMMA ReportCheckOne ==
  ASSUME ReportInv, TypeInv', NEW k \in pending, CheckOne(k[1], k[2])
  PROVE  ReportInv'
<1> USE DEF env, history
<1>0. k = <<k[1], k[2]>> /\ pc = "check"
  BY DEF ReportInv, TypeInv, TypeOK, Key, CheckOne
<1>1. PICK t \in Asts : /\ Parses(k[1], t)
                        /\ results' = results \cup {<<k[1], k[2], Verdict(t, k[2])>>}
  BY DEF CheckOne
<1> DEFINE row == <<k[1], k[2], Verdict(t, k[2])>>
<1>2. k \in found /\ KeysOf(results) = found \ pending /\ pending \subseteq found
  BY <1>0 DEF ReportInv, CheckProgress
<1>3. RowsJustified'
  <2> SUFFICES ASSUME NEW r \in results'
               PROVE  /\ Resolve(r[1]) \in FileInode
                      /\ \E ast \in seen[Resolve(r[1])] \cap Asts : r[2] \in Collect(ast)
                      /\ \E ast \in seen[Resolve(r[1])] \cap Asts : r[3] = Verdict(ast, r[2])
    BY DEF CheckOne, RowsJustified
  <2>1. CASE r \in results
    BY <2>1 DEF ReportInv, RowsJustified
  <2>2. CASE r = row
    <3>1. r[1] = k[1] /\ r[2] = k[2] /\ r[3] = Verdict(t, k[2])
      BY <2>2
    <3>2. SeenIn(k[1], k[2])
      BY <1>2 DEF ReportInv, FoundSeen
    <3>3. t \in seen[Resolve(k[1])] \cap Asts
      BY <1>1 DEF Parses, ReportInv, DiskSeen
    <3> QED
      BY <3>1, <3>2, <3>3 DEF SeenIn
  <2> QED
    BY <1>1, <2>1, <2>2
<1>4. \A r \in results : ~(r[1] = k[1] /\ r[2] = k[2])
  BY <1>0, <1>2 DEF KeysOf
<1>5. OneRowPerFunction'
  <2> SUFFICES ASSUME NEW r \in results', NEW s \in results', r[1] = s[1], r[2] = s[2]
               PROVE  r = s
    BY DEF OneRowPerFunction
  <2>1. row[1] = k[1] /\ row[2] = k[2]
    OBVIOUS
  <2> HIDE DEF row
  <2>2. results' = results \cup {row}
    BY <1>1 DEF row
  <2> QED
    BY <1>4, <2>1, <2>2 DEF ReportInv, OneRowPerFunction
<1>6. CheckProgress'
  <2>1. KeysOf(results') = KeysOf(results) \cup {k}
    <3>1. <<row[1], row[2]>> = k
      BY <1>0
    <3> HIDE DEF row
    <3>2. results' = results \cup {row}
      BY <1>1 DEF row
    <3> QED
      BY <3>1, <3>2 DEF KeysOf
  <2>2. pending' = pending \ {k} /\ found' = found /\ pc' = "check"
    BY <1>0 DEF CheckOne
  <2> QED
    BY <1>2, <2>1, <2>2 DEF CheckProgress, Before
<1>7. DiskSeen' /\ GuardHeld' /\ ParsedSeen' /\ FoundSeen'
  BY <1>0 DEF CheckOne, ReportInv, DiskSeen, GuardHeld, ParsedSeen, FoundSeen, SeenIn
<1>8. Table'
  BY <1>0 DEF CheckOne, Table
<1> QED
  BY <1>3, <1>5, <1>6, <1>7, <1>8 DEF ReportInv

LEMMA ReportEndCheck ==
  ASSUME ReportInv, TypeInv', EndCheck
  PROVE  ReportInv'
<1> USE DEF env, history
<1>1. DiskSeen' /\ GuardHeld' /\ ParsedSeen'
  BY DEF EndCheck, ReportInv, DiskSeen, GuardHeld, ParsedSeen
<1>2. FoundSeen' /\ RowsJustified' /\ OneRowPerFunction'
  BY SeenGrows DEF EndCheck, ReportInv, OneRowPerFunction
<1>3. CheckProgress' /\ Table'
  BY DEF EndCheck, ReportInv, CheckProgress, Table, Before
<1> QED
  BY <1>1, <1>2, <1>3 DEF ReportInv

\* main's part of the run leaves what came before alone.
LEMMA ReportMain ==
  ASSUME ReportInv, TypeInv', Table',
         UNCHANGED <<disk, seen, guard, found, results>>,
         pc \in {"create", "write"}, pc' \in {"write", "ok"}
  PROVE  ReportInv'
<1>1. DiskSeen' /\ GuardHeld' /\ ParsedSeen'
  BY DEF ReportInv, DiskSeen, GuardHeld, ParsedSeen
<1>2. FoundSeen' /\ RowsJustified' /\ OneRowPerFunction'
  BY SeenGrows DEF ReportInv, OneRowPerFunction
<1>3. CheckProgress'
  BY DEF ReportInv, CheckProgress, Before
<1> QED
  BY <1>1, <1>2, <1>3 DEF ReportInv

LEMMA ReportCreate ==
  ASSUME ReportInv, TypeInv', Create
  PROVE  ReportInv'
<1>1. /\ pc = "create" /\ pc' = "write" /\ report'.run = run /\ report'.lines = << >>
      /\ UNCHANGED <<disk, seen, guard, found, results, run, unwritten>>
  BY DEF Create, env, volatile, history
<1>2. Rows' = {}
  BY <1>1 DEF Rows
<1>3. Table'
  BY <1>1, <1>2 DEF ReportInv, Table, TableSoFar
<1> QED
  BY <1>1, <1>3, ReportMain

LEMMA ReportLine ==
  ASSUME ReportInv, TypeInv', BeginLine \/ EndLine
  PROVE  ReportInv'
<1>1. /\ pc = "write" /\ pc' = "write"
      /\ UNCHANGED <<disk, seen, guard, found, results, run>>
  BY DEF BeginLine, EndLine, env, volatile, history
<1> DEFINE L == report.lines
<1>2. /\ report \in [run : Nat, lines : Seq(Line), torn : BOOLEAN]
      /\ L \in Seq(Line) /\ Len(L) \in Nat
      /\ results \subseteq Row /\ unwritten \subseteq Row
      /\ report.run = run /\ TableSoFar
  BY <1>1 DEF ReportInv, TypeInv, TypeOK, Table
<1>3. CASE BeginLine
  <2>1. report'.run = report.run /\ report'.lines = report.lines /\ unwritten' = unwritten
    BY <1>2, <1>3 DEF BeginLine, volatile
  <2>2. Table'
    BY <1>1, <1>2, <2>1 DEF Table, TableSoFar, Rows
  <2> QED
    BY <1>1, <2>2, ReportMain
<1>4. CASE EndLine
  <2>1. PICK line \in NextLine :
           /\ report' = [report EXCEPT !.torn = FALSE, !.lines = Append(@, line)]
           /\ unwritten' = unwritten \ {line}
    BY <1>4 DEF EndLine
  <2>2. /\ report'.run = report.run
        /\ report'.lines = Append(L, line)
    BY <1>2, <2>1
  <2>3. line \in Line
    BY <1>2 DEF NextLine, Line
  <2>4. /\ Len(report'.lines) = Len(L) + 1
        /\ report'.lines[Len(L) + 1] = line
        /\ \A k \in 1..Len(L) : report'.lines[k] = L[k]
    BY <1>2, <2>2, <2>3
  <2>5. CASE Len(L) < 2
    <3>1. line \in {Header, Rule} /\ (Len(L) = 0 => line = Header) /\ (Len(L) = 1 => line = Rule)
      <4>1. Len(L) = 0 \/ Len(L) = 1
        BY <1>2, <2>5, ZeroOneMore
      <4>2. (Len(L) = 0 => NextLine = {Header}) /\ (Len(L) = 1 => NextLine = {Rule})
        BY <1>2, NextLineByCount
      <4> QED
        BY <2>1, <4>1, <4>2
    <3>2. unwritten' = unwritten
      BY <1>2, <2>1, <3>1, RowIsNoHeader
    <3>3. Rows = {} /\ Rows' = {}
      BY <1>2, <2>4, <2>5 DEF Rows
    <3>4. TableSoFar'
      <4>1. report'.lines[1] = Header
        BY <1>2, <2>4, <2>5, <3>1 DEF TableSoFar
      <4>2. Len(report'.lines) >= 2 => report'.lines[2] = Rule
        <5>1. Len(report'.lines) >= 2 => Len(L) = 1
          BY <1>2, <2>4, <2>5, ZeroOneMore
        <5> QED
          BY <2>4, <3>1, <5>1
      <4>3. \A k : k \notin 3..Len(report'.lines)
        BY <1>2, <2>4, <2>5
      <4>4. Rows' \cup unwritten' = results' /\ Rows' \cap unwritten' = {}
        BY <1>1, <1>2, <3>2, <3>3 DEF TableSoFar
      <4> QED
        BY <4>1, <4>2, <4>3, <4>4 DEF TableSoFar
    <3>5. Table'
      BY <1>1, <1>2, <2>2, <3>4 DEF Table
    <3> QED
      BY <1>1, <3>5, ReportMain
  <2>6. CASE Len(L) >= 2
    <3>1. line \in unwritten
      BY <1>2, <2>1, <2>6, NextLineByCount
    <3>2. Rows' = Rows \cup {line}
      <4>1. ASSUME NEW r \in Rows' PROVE r \in Rows \cup {line}
        <5>1. PICK k \in 3..Len(L) + 1 : r = report'.lines[k]
          BY <2>4 DEF Rows
        <5> QED
          BY <1>2, <2>4, <5>1 DEF Rows
      <4>2. ASSUME NEW r \in Rows PROVE r \in Rows'
        <5>1. PICK k \in 3..Len(L) : r = L[k]
          BY DEF Rows
        <5>2. k \in 3..Len(report'.lines) /\ r = report'.lines[k]
          BY <1>2, <2>4, <5>1
        <5> QED
          BY <5>2 DEF Rows
      <4>3. line \in Rows'
        <5>1. Len(L) + 1 \in 3..Len(report'.lines)
          BY <1>2, <2>4, <2>6
        <5> QED
          BY <2>4, <5>1 DEF Rows
      <4> QED
        BY <4>1, <4>2, <4>3
    <3>3. Rows' \cup unwritten' = results /\ Rows' \cap unwritten' = {}
      BY <1>2, <2>1, <3>1, <3>2 DEF TableSoFar
    <3>4. \A k \in 3..Len(L) : L[k] # line
      BY <1>2, <3>1 DEF TableSoFar, Rows
    <3>5. ASSUME NEW j \in 3..Len(report'.lines), NEW k \in 3..Len(report'.lines),
                 report'.lines[j] = report'.lines[k]
          PROVE  j = k
      <4>1. j \in 3..Len(L) \/ j = Len(L) + 1
        BY <1>2, <2>4
      <4>2. k \in 3..Len(L) \/ k = Len(L) + 1
        BY <1>2, <2>4
      <4>3. \A m \in 3..Len(L) : report'.lines[m] = L[m]
        BY <1>2, <2>4
      <4>4. CASE j = Len(L) + 1
        BY <2>4, <3>4, <3>5, <4>2, <4>3, <4>4
      <4>5. CASE k = Len(L) + 1
        BY <2>4, <3>4, <3>5, <4>1, <4>3, <4>5
      <4>6. CASE j \in 3..Len(L) /\ k \in 3..Len(L)
        BY <1>2, <3>5, <4>3, <4>6 DEF TableSoFar
      <4> QED
        BY <4>1, <4>2, <4>4, <4>5, <4>6
    <3>6. report'.lines[1] = Header /\ report'.lines[2] = Rule
      BY <1>2, <2>4, <2>6 DEF TableSoFar
    <3>7. TableSoFar'
      BY <1>1, <3>3, <3>5, <3>6 DEF TableSoFar
    <3>8. Table'
      BY <1>1, <1>2, <2>2, <3>7 DEF Table
    <3> QED
      BY <1>1, <3>8, ReportMain
  <2> QED
    BY <1>2, <2>5, <2>6
<1> QED
  BY <1>3, <1>4

LEMMA ReportAnnounce ==
  ASSUME ReportInv, TypeInv', Announce
  PROVE  ReportInv'
<1>1. /\ pc = "write" /\ pc' = "ok" /\ ~report.torn /\ NextLine = {}
      /\ UNCHANGED <<disk, seen, guard, found, results, run, unwritten, report>>
  BY DEF Announce, AllWritten, env, volatile, history
<1>2. report.lines \in Seq(Line)
  BY DEF ReportInv, TypeInv, TypeOK
<1>3. Len(report.lines) >= 2 /\ unwritten = {}
  <2>1. Len(report.lines) \in Nat /\ Len(report.lines) # 0 /\ Len(report.lines) # 1
    BY <1>1, <1>2, NextLineByCount
  <2>2. Len(report.lines) >= 2
    BY <2>1, ZeroOneMore
  <2> QED
    BY <1>1, <1>2, <2>2, NextLineByCount, Zenon
<1>4. report.run = run /\ TableSoFar
  BY <1>1 DEF ReportInv, Table
<1>5. Table'
  BY <1>1, <1>3, <1>4 DEF Table, TableSoFar, Rows
<1> QED
  BY <1>1, <1>5, ReportMain

\* A step that leaves the report and the collections alone keeps the table.
LEMMA TableKept ==
  ASSUME ReportInv, UNCHANGED <<pc, report, run, pending, found, results, unwritten>>
  PROVE  CheckProgress' /\ Table'
<1>1. pc' = pc /\ report' = report /\ run' = run /\ unwritten' = unwritten
  OBVIOUS
<1>2. pending' = pending /\ found' = found /\ results' = results
  OBVIOUS
<1>3. CheckProgress /\ Table
  BY DEF ReportInv
<1>4. CheckProgress'
  BY <1>1, <1>2, <1>3 DEF CheckProgress
<1>5. Rows' = Rows
  BY <1>1, Zenon DEF Rows
<1>6. ASSUME TableSoFar PROVE TableSoFar'
  <2>1. /\ Len(report'.lines) >= 1 => report'.lines[1] = Header
        /\ Len(report'.lines) >= 2 => report'.lines[2] = Rule
    BY <1>1, <1>6, Zenon DEF TableSoFar
  <2>2. Rows' \cup unwritten' = results' /\ Rows' \cap unwritten' = {}
    BY <1>1, <1>2, <1>5, <1>6, Zenon DEF TableSoFar
  <2>3. \A j, k \in 3..Len(report'.lines) : report'.lines[j] = report'.lines[k] => j = k
    BY <1>1, <1>6, Zenon DEF TableSoFar
  <2> QED
    BY <2>1, <2>2, <2>3, Zenon DEF TableSoFar
<1>7. Table'
  BY <1>1, <1>2, <1>3, <1>6, Zenon DEF Table
<1> QED
  BY <1>4, <1>7

LEMMA ReportEdit ==
  ASSUME ReportInv, TypeInv', NEW i \in FileInode, NEW content, Edit(i, content)
  PROVE  ReportInv'
<1> USE DEF env, volatile
<1>1. /\ disk \in [FileInode -> Asts \cup {Bad}]
      /\ seen \in [FileInode -> SUBSET (Asts \cup {Bad})]
  BY DEF ReportInv, TypeInv, TypeOK
<1>2. \A j \in FileInode : seen[j] \subseteq seen'[j]
  BY <1>1 DEF Edit
<1>3. DiskSeen'
  BY <1>1 DEF ReportInv, DiskSeen, Edit
<1>4. FoundSeen' /\ RowsJustified' /\ OneRowPerFunction'
  BY <1>2, SeenGrows DEF ReportInv, Edit, OneRowPerFunction
<1>5. GuardHeld' /\ ParsedSeen'
  BY <1>2 DEF ReportInv, GuardHeld, ParsedSeen, Edit
<1>6. UNCHANGED <<pc, report, run, pending, found, results, unwritten>>
  BY DEF Edit
<1>7. CheckProgress' /\ Table'
  BY <1>6, TableKept
<1> QED
  BY <1>3, <1>4, <1>5, <1>7 DEF ReportInv

LEMMA ReportInductive == ReportInv /\ [Next]_vars => ReportInv'
<1> SUFFICES ASSUME ReportInv, [Next]_vars PROVE ReportInv'
  OBVIOUS
<1>0. TypeInv'
  BY TypeInductive DEF ReportInv
<1>1. CASE ReadDir \/ LeaveDirectory \/ \E p : EnterDirectory(p) \/ OpenFile(p) \/ SkipEntry(p)
  <2>1. /\ UNCHANGED <<env, report, run, guard, found, pending, results, unwritten, seen>>
        /\ pc \in {"list", "walk"} /\ pc' \in {"list", "walk", "read", "begin_check"}
    BY <1>1 DEF ReadDir, LeaveDirectory, EnterDirectory, OpenFile, SkipEntry, TakeUp, env, history
  <2> QED
    BY <1>0, <2>1, ReportWalk, SMTT(20)
<1>2. CASE ReadFile \/ LockAndInsert \/ ReturnFromFile
  BY <1>0, <1>2, ReportReadFile, ReportInsert, ReportReturn
<1>3. CASE BeginCheck \/ EndCheck
  BY <1>0, <1>3, ReportBeginCheck, ReportEndCheck
<1>4. ASSUME NEW k \in pending, CheckOne(k[1], k[2]) PROVE ReportInv'
  BY <1>0, <1>4, ReportCheckOne
<1>5. CASE Create \/ BeginLine \/ EndLine \/ Announce
  BY <1>0, <1>5, ReportCreate, ReportLine, ReportAnnounce
<1>6. CASE WalkPanics \/ AnnouncePanics \/ Fails \/ Kill
  <2>1. \E how \in {"err", "panic", "killed"} : Stop(how)
    BY <1>6 DEF WalkPanics, AnnouncePanics, Fails, Kill
  <2>2. DiskSeen'
    BY <2>1 DEF ReportInv, DiskSeen, Stop, env, history
  <2> QED
    BY <1>0, <2>1, <2>2, ReportEmpty DEF Stop
<1>7. CASE Start
  <2>1. DiskSeen'
    BY <1>7 DEF DiskSeen, Start, env
  <2> QED
    BY <1>0, <1>7, <2>1, ReportEmpty DEF Start
<1>8. ASSUME NEW i \in FileInode, NEW content, Edit(i, content) PROVE ReportInv'
  BY <1>0, <1>8, ReportEdit
<1>9. CASE UNCHANGED vars
  <2>1. DiskSeen' /\ GuardHeld' /\ ParsedSeen'
    BY <1>9 DEF ReportInv, DiskSeen, GuardHeld, ParsedSeen, vars, env, volatile, history
  <2>2. FoundSeen' /\ RowsJustified' /\ OneRowPerFunction'
    BY <1>9, SeenGrows DEF ReportInv, OneRowPerFunction, vars, volatile, history
  <2>3. UNCHANGED <<pc, report, run, pending, found, results, unwritten>>
    BY <1>9 DEF vars, volatile
  <2>4. CheckProgress' /\ Table'
    BY <2>3, TableKept
  <2> QED
    BY <1>0, <2>1, <2>2, <2>4, SMTT(20) DEF ReportInv
<1> QED
  BY <1>1, <1>2, <1>3, <1>4, <1>5, <1>6, <1>7, <1>8, <1>9 DEF Next, Program, Over

-----------------------------------------------------------------------------
\* The invariant of recording, checking and reporting, for any number of runs.
THEOREM ReportInvariant == Spec => []ReportInv
  BY ReportInit, ReportInductive, PTL DEF Spec

\* Every row has its function from a version of the named file that existed
\* during the run, and its verdict from such a version, however files change
\* between the reading of process_file and that of check_for_safe_versions.
THEOREM RowsAreJustified == Spec => []RowsJustified
<1>1. ReportInv => RowsJustified
  BY DEF ReportInv
<1> QED
  BY <1>1, ReportInvariant, PTL

\* The check never makes two rows for one function of one file.
THEOREM RowsAreUnique == Spec => []OneRowPerFunction
<1>1. ReportInv => OneRowPerFunction
  BY DEF ReportInv
<1> QED
  BY <1>1, ReportInvariant, PTL

\* A run that announces success has left the whole table in the file.
THEOREM SuccessMeansComplete == Spec => []SuccessIsComplete
<1>1. ReportInv => SuccessIsComplete
  <2> SUFFICES ASSUME ReportInv, pc = "ok" PROVE SuccessIsComplete
    BY DEF SuccessIsComplete
  <2> QED
    BY DEF ReportInv, Table, TableSoFar, SuccessIsComplete
<1> QED
  BY <1>1, ReportInvariant, PTL

\* Neither lock() of the program meets a guard that the program still holds.
THEOREM MutexIsFree == Spec => []NoSelfDeadlock
<1>1. ReportInv => NoSelfDeadlock
  BY DEF ReportInv, GuardHeld, NoSelfDeadlock
<1> QED
  BY <1>1, ReportInvariant, PTL

\* The report of an earlier run is not touched before the present run has a row
\* for every function it recorded.
THEOREM ReportIsKept == Spec => ReportKept
<1> DEFINE Kept == report' # report => /\ pc \in {"create", "write"}
                                       /\ {<<r[1], r[2]>> : r \in results} = found
<1>1. ReportInv /\ [Next]_vars => [Kept]_vars
  <2> SUFFICES ASSUME ReportInv, Next, report' # report
               PROVE  /\ pc \in {"create", "write"}
                      /\ {<<r[1], r[2]>> : r \in results} = found
    OBVIOUS
  <2>1. Create \/ BeginLine \/ EndLine
    BY DEF Next, Program, Over, ReadDir, LeaveDirectory, EnterDirectory, OpenFile, SkipEntry,
           TakeUp, ReadFile, LockAndInsert, ReturnFromFile, BeginCheck, EndCheck, CheckOne,
           Announce, WalkPanics, AnnouncePanics, Fails, Kill, Start, Edit, vars
  <2>2. pc \in {"create", "write"}
    BY <2>1 DEF Create, BeginLine, EndLine
  <2> QED
    BY <2>2 DEF ReportInv, CheckProgress, KeysOf
<1> QED
  BY <1>1, ReportInvariant, PTL DEF Spec, ReportKept

\* The program implements the abstract report: of its steps only Create, BeginLine and
\* EndLine show in the file, in this order, and it announces success with no row left.
THEOREM ProgramImplementsReport == Spec => ImplementsReport
<1> DEFINE left == IF pc = "write" THEN unwritten ELSE {}
           shown == <<report, run, Phase, left>>
<1>1. Init => Report!Init
  BY DEF Init, Report!Init, Phase, Running
<1>2. ReportInv /\ [Next]_vars => [Report!Next]_shown
  <2> SUFFICES ASSUME ReportInv, [Next]_vars PROVE UNCHANGED shown \/ Report!Next
    OBVIOUS
  <2> USE DEF Phase, Running, Stopped
  <2>1. ASSUME UNCHANGED <<report, run>>, pc \in Running \ {"write"}, pc' \in Running \ {"write"}
        PROVE  UNCHANGED shown
    BY <2>1
  <2>2. CASE Start
    BY <2>2 DEF Start, Report!Next, Report!Start
  <2>3. CASE WalkPanics \/ AnnouncePanics \/ Fails \/ Kill
    <3>1. pc \in Running /\ pc' \in {"panic", "err", "killed"} /\ UNCHANGED <<report, run>>
      BY <2>3 DEF WalkPanics, AnnouncePanics, AllWritten, Fails, Kill, Stop
    <3>2. Phase \in {"collecting", "writing"} /\ Phase' = "stopped" /\ left' = {}
      BY <3>1
    <3> QED
      BY <3>1, <3>2 DEF Report!Next, Report!Stop
  <2>4. CASE Create
    <3>1. unwritten \subseteq Row /\ unwritten' = unwritten /\ unwritten = results
      BY <2>4 DEF Create, ReportInv, TypeInv, TypeOK, Table, volatile
    <3>2. \A r, s \in unwritten : r[1] = s[1] /\ r[2] = s[2] => r = s
      BY <3>1 DEF ReportInv, OneRowPerFunction
    <3> QED
      BY <2>4, <3>1, <3>2 DEF Create, Report!Next, Report!Publish
  <2>5. CASE BeginLine
    BY <2>5 DEF BeginLine, NextLine, volatile, Report!Next, Report!BeginLine, Report!NextLine
  <2>6. CASE EndLine
    BY <2>6 DEF EndLine, NextLine, Report!Next, Report!EndLine, Report!NextLine
  <2>7. CASE Announce
    <3>1. pc = "write" /\ pc' = "ok" /\ ~report.torn /\ NextLine = {} /\ UNCHANGED <<report, run>>
      BY <2>7 DEF Announce, AllWritten
    <3>2. unwritten = {}
      BY <3>1 DEF NextLine
    <3> QED
      BY <3>1, <3>2 DEF NextLine, Report!Next, Report!Succeed, Report!NextLine
  <2>8. CASE \/ ReadDir \/ LeaveDirectory \/ ReadFile \/ LockAndInsert \/ ReturnFromFile
             \/ BeginCheck \/ EndCheck \/ (\E k \in pending : CheckOne(k[1], k[2]))
             \/ \E p \in UNION {stack[k] : k \in DOMAIN stack} :
                  EnterDirectory(p) \/ OpenFile(p) \/ SkipEntry(p)
    BY <2>1, <2>8 DEF ReadDir, LeaveDirectory, ReadFile, LockAndInsert, ReturnFromFile,
         BeginCheck, EndCheck, CheckOne, EnterDirectory, OpenFile, SkipEntry, TakeUp
  <2>9. CASE UNCHANGED vars \/ Over \/ \E i \in FileInode, content \in Asts \cup {Bad} : Edit(i, content)
    BY <2>9 DEF vars, volatile, Over, Edit
  <2> QED
    BY <2>2, <2>3, <2>4, <2>5, <2>6, <2>7, <2>8, <2>9 DEF Next, Program
<1> QED
  BY <1>1, <1>2, ReportInvariant, PTL DEF Spec, ImplementsReport, Report!Spec
=============================================================================
