----------------------------- MODULE ScannerExact -----------------------------
(***************************************************************************)
(* A run during which no file changes reports exactly what the files it    *)
(* walked call for.                                                        *)
(***************************************************************************)
EXTENDS ScannerReport, ScannerWalk

\* The functions that process_file records from the files at the paths P.
RecordedFrom(p) == {Display(p)} \X Collect(disk[Resolve(Display(p))])
Got(P) == UNION {RecordedFrom(p) : p \in {x \in P : IsSource(x)}}

InFile == {"read", "lock"}
Settled == {"list", "walk", "unlock", "begin_check", "check", "create", "write", "ok"}

\* process_file works on a file that was taken up; everything taken up before
\* is in the set.
FileTakenUp == pc \in InFile => arg \in walked /\ IsSource(arg)
RecordedAll ==
  Quiet => /\ pc \in Settled => found = Got(walked)
           /\ pc \in InFile => Got(walked \ {arg}) \subseteq found /\ found \subseteq Got(walked)

\* The verdicts are those of the files as they are.
VerdictsCurrent ==
  Quiet /\ pc \in {"check", "create", "write", "ok"} =>
    \A r \in results : r[3] = Verdict(disk[Resolve(r[1])], r[2])

MissedTakenUp == missed \subseteq walked

ExactInv == ReportInv /\ WalkInv /\ FileTakenUp /\ MissedTakenUp /\ RecordedAll /\ VerdictsCurrent

-----------------------------------------------------------------------------
LEMMA GotSource ==
  ASSUME NEW P, NEW p \in P, IsSource(p)
  PROVE  Got(P) = Got(P \ {p}) \cup RecordedFrom(p)
  BY DEF Got

LEMMA ExactInit == Init => ExactInv
  BY ReportInit, WalkInit DEF Init, ExactInv, FileTakenUp, MissedTakenUp, RecordedAll, VerdictsCurrent, InFile, Settled

\* A step that leaves the recorded set, the files and the walk alone.
LEMMA ExactSame ==
  ASSUME ExactInv, ReportInv', WalkInv', VerdictsCurrent',
         UNCHANGED <<disk, seen, found, walked, missed>>,
         \/ pc \in Settled /\ pc' \in Settled
         \/ pc \in InFile /\ pc' \in InFile /\ arg' = arg
         \/ pc' \notin Settled \cup InFile
  PROVE  ExactInv'
<1>1. Got(walked)' = Got(walked) /\ Got(walked \ {arg})' = Got(walked \ {arg'})
  BY DEF Got, RecordedFrom, IsSource
<1>2. Quiet' = Quiet
  BY DEF Quiet
<1>3. FileTakenUp' /\ MissedTakenUp'
  BY DEF ExactInv, FileTakenUp, MissedTakenUp, IsSource, InFile, Settled
<1>4. RecordedAll'
  BY <1>1, <1>2 DEF ExactInv, RecordedAll, InFile, Settled
<1> QED
  BY <1>3, <1>4 DEF ExactInv

LEMMA ExactTakeUp ==
  ASSUME ExactInv, ReportInv', WalkInv', NEW p,
         EnterDirectory(p) \/ OpenFile(p) \/ SkipEntry(p)
  PROVE  ExactInv'
<1>1. /\ pc = "walk" /\ walked' = walked \cup {p}
      /\ missed' \subseteq missed \cup {p} /\ missed \subseteq missed'
      /\ UNCHANGED <<disk, seen, found>>
  BY DEF EnterDirectory, OpenFile, SkipEntry, TakeUp, env
<1>2. p \notin walked /\ p \notin missed
  <2>1. /\ stack \in Seq(SUBSET Path) /\ stack # << >> /\ p \in stack[Len(stack)]
    BY DEF EnterDirectory, OpenFile, SkipEntry, TakeUp, Top, ExactInv, WalkInv, TypeInv, TypeOK
  <2>2. Len(stack) \in 1..Len(stack)
    BY <2>1, FrameUpdate
  <2> QED
    BY <2>1, <2>2 DEF ExactInv, WalkInv, NoPathTwice, MissedTakenUp
<1>3. \A x \in walked : IsSource(x)' = IsSource(x)
  BY <1>1, <1>2 DEF IsSource
<1>4. \A x : RecordedFrom(x)' = RecordedFrom(x)
  BY <1>1 DEF RecordedFrom
<1>5. Quiet' = Quiet /\ MissedTakenUp'
  BY <1>1 DEF Quiet, ExactInv, MissedTakenUp
<1>6. Quiet => found = Got(walked)
  BY <1>1 DEF ExactInv, RecordedAll, Settled
<1>7. CASE OpenFile(p)
  <2>1. pc' = "read" /\ arg' = p /\ IsSource(p)'
    BY <1>7 DEF OpenFile, TakeUp, IsSource
  <2>2. walked' \ {p} = walked
    BY <1>1, <1>2
  <2>3. Got(walked \ {arg})' = Got(walked) /\ Got(walked) \subseteq Got(walked)'
    BY <1>1, <1>3, <1>4, <2>1, <2>2 DEF Got
  <2>4. RecordedAll'
    BY <1>1, <1>5, <1>6, <2>1, <2>3 DEF RecordedAll, Settled, InFile
  <2> QED
    BY <1>1, <1>5, <2>1, <2>4 DEF ExactInv, FileTakenUp, VerdictsCurrent, InFile
<1>8. CASE EnterDirectory(p) \/ SkipEntry(p)
  <2>1. pc' \in {"list", "walk"} /\ ~IsSource(p)'
    BY <1>2, <1>8 DEF EnterDirectory, SkipEntry, TakeUp, is_dir, IsSource
  <2>2. Got(walked)' = Got(walked)
    BY <1>1, <1>3, <1>4, <2>1 DEF Got
  <2>3. RecordedAll'
    BY <1>1, <1>5, <1>6, <2>1, <2>2 DEF RecordedAll, Settled, InFile
  <2> QED
    BY <1>5, <2>1, <2>3 DEF ExactInv, FileTakenUp, VerdictsCurrent, InFile
<1> QED
  BY <1>7, <1>8

LEMMA ExactInsert ==
  ASSUME ExactInv, ReportInv', WalkInv', LockAndInsert
  PROVE  ExactInv'
<1>1. /\ pc = "lock" /\ pc' = "unlock"
      /\ found' = found \cup ({Display(arg)} \X Collect(parsed))
      /\ UNCHANGED <<disk, seen, walked, missed>>
  BY DEF LockAndInsert, env, history
<1>2. Quiet' = Quiet /\ Got(walked)' = Got(walked)
  BY <1>1 DEF Quiet, Got, RecordedFrom, IsSource
<1>3. arg \in walked /\ IsSource(arg)
  BY <1>1 DEF ExactInv, FileTakenUp, InFile
<1>4. ASSUME Quiet PROVE found' = Got(walked)
  <2>1. parsed = disk[Resolve(Display(arg))]
    BY <1>1, <1>4 DEF ExactInv, ReportInv, ParsedSeen, Quiet
  <2>2. Got(walked \ {arg}) \subseteq found /\ found \subseteq Got(walked)
    BY <1>1, <1>4 DEF ExactInv, RecordedAll, InFile
  <2>3. Got(walked) = Got(walked \ {arg}) \cup RecordedFrom(arg)
    BY <1>3, GotSource
  <2> QED
    BY <1>1, <2>1, <2>2, <2>3 DEF RecordedFrom
<1>5. RecordedAll'
  BY <1>1, <1>2, <1>4 DEF RecordedAll, InFile
<1> QED
  BY <1>1, <1>5 DEF ExactInv, FileTakenUp, MissedTakenUp, VerdictsCurrent, InFile

LEMMA ExactInductive == ExactInv /\ [Next]_vars => ExactInv'
<1> SUFFICES ASSUME ExactInv, [Next]_vars PROVE ExactInv'
  OBVIOUS
<1>0. ReportInv' /\ WalkInv'
  BY ReportInductive, WalkInductive DEF ExactInv
<1>1. CASE ReadDir \/ LeaveDirectory
  <2>1. /\ UNCHANGED <<disk, seen, found, walked, missed>>
        /\ pc \in {"list", "walk"} /\ pc' \in {"walk", "begin_check"}
    BY <1>1 DEF ReadDir, LeaveDirectory, env, history
  <2> QED
    BY <1>0, <2>1, ExactSame DEF VerdictsCurrent, Settled
<1>2. ASSUME NEW p, EnterDirectory(p) \/ OpenFile(p) \/ SkipEntry(p) PROVE ExactInv'
  BY <1>0, <1>2, ExactTakeUp
<1>3. CASE ReadFile
  <2>1. /\ UNCHANGED <<disk, seen, found, walked, missed, arg>>
        /\ pc = "read" /\ pc' = "lock"
    BY <1>3 DEF ReadFile, env, history
  <2> QED
    BY <1>0, <2>1, ExactSame DEF VerdictsCurrent, InFile
<1>4. CASE LockAndInsert
  BY <1>0, <1>4, ExactInsert
<1>5. CASE ReturnFromFile
  <2>1. /\ UNCHANGED <<disk, seen, found, walked, missed>>
        /\ pc = "unlock" /\ pc' = "walk"
    BY <1>5 DEF ReturnFromFile, env, history
  <2> QED
    BY <1>0, <2>1, ExactSame DEF VerdictsCurrent, Settled
<1>6. CASE BeginCheck
  <2>1. /\ UNCHANGED <<disk, seen, found, walked, missed, results>>
        /\ pc = "begin_check" /\ pc' = "check"
    BY <1>6 DEF BeginCheck, env, history
  <2>2. results = {}
    BY <2>1 DEF ExactInv, ReportInv, CheckProgress, Before
  <2> QED
    BY <1>0, <2>1, <2>2, ExactSame DEF VerdictsCurrent, Settled
<1>7. ASSUME NEW k \in pending, CheckOne(k[1], k[2]) PROVE ExactInv'
  <2>1. /\ UNCHANGED <<disk, seen, found, walked, missed>>
        /\ pc = "check" /\ pc' = "check"
    BY <1>7 DEF CheckOne, env, history
  <2>2. PICK t \in Asts : /\ Parses(k[1], t)
                          /\ results' = results \cup {<<k[1], k[2], Verdict(t, k[2])>>}
    BY <1>7 DEF CheckOne
  <2>3. t = disk[Resolve(k[1])]
    BY <2>2 DEF Parses
  <2>4. VerdictsCurrent'
    <3> SUFFICES ASSUME Quiet, NEW r \in results'
                 PROVE  r[3] = Verdict(disk[Resolve(r[1])], r[2])
      BY <2>1 DEF VerdictsCurrent, Quiet
    <3>1. CASE r \in results
      BY <2>1, <3>1 DEF ExactInv, VerdictsCurrent
    <3>2. CASE r = <<k[1], k[2], Verdict(t, k[2])>>
      BY <2>3, <3>2
    <3> QED
      BY <2>2, <3>1, <3>2
  <2> QED
    BY <1>0, <2>1, <2>4, ExactSame DEF Settled
<1>8. CASE EndCheck \/ Create \/ BeginLine \/ EndLine \/ Announce
  <2>1. /\ UNCHANGED <<disk, seen, found, walked, missed, results>>
        /\ pc \in {"check", "create", "write"} /\ pc' \in {"create", "write", "ok"}
    BY <1>8 DEF EndCheck, Create, BeginLine, EndLine, Announce, AllWritten, env, volatile, history
  <2>2. VerdictsCurrent'
    BY <2>1 DEF ExactInv, VerdictsCurrent, Quiet
  <2> QED
    BY <1>0, <2>1, <2>2, ExactSame DEF Settled
<1>9. CASE WalkPanics \/ AnnouncePanics \/ Fails \/ Kill
  <2>1. pc' \in {"err", "panic", "killed"} /\ UNCHANGED <<walked, missed>>
    BY <1>9 DEF WalkPanics, AnnouncePanics, Fails, Kill, Stop, history
  <2> QED
    BY <1>0, <2>1 DEF ExactInv, FileTakenUp, MissedTakenUp, RecordedAll, VerdictsCurrent, InFile, Settled
<1>10. CASE Start
  <2>1. pc' = "list" /\ found' = {} /\ walked' = {Root} /\ missed' = {}
    BY <1>10 DEF Start
  <2>2. Got({Root})' = {}
    BY DEF Got, IsSource, IsRs
  <2> QED
    BY <1>0, <2>1, <2>2 DEF ExactInv, FileTakenUp, MissedTakenUp, RecordedAll, VerdictsCurrent, InFile, Settled
<1>11. ASSUME NEW i \in FileInode, NEW content, Edit(i, content) PROVE ExactInv'
  <2>1. /\ content # disk[i] /\ disk' = [disk EXCEPT ![i] = content]
        /\ seen' = [seen EXCEPT ![i] = @ \cup {content}]
        /\ UNCHANGED <<pc, arg, walked, missed>>
    BY <1>11 DEF Edit, volatile
  <2>2. /\ disk[i] \in seen[i]
        /\ seen \in [FileInode -> SUBSET (Asts \cup {Bad})]
        /\ disk \in [FileInode -> Asts \cup {Bad}]
    BY DEF ExactInv, ReportInv, DiskSeen, TypeInv, TypeOK
  <2>3. ~Quiet'
    BY <2>1, <2>2 DEF Quiet
  <2> QED
    BY <1>0, <2>1, <2>3 DEF ExactInv, FileTakenUp, MissedTakenUp, IsSource, RecordedAll, VerdictsCurrent
<1>12. CASE UNCHANGED vars
  <2>1. UNCHANGED <<disk, seen, found, walked, missed, results, pc, arg>>
    BY <1>12 DEF vars, env, volatile, history
  <2>2. VerdictsCurrent'
    BY <2>1 DEF ExactInv, VerdictsCurrent, Quiet
  <2> QED
    BY <1>0, <2>1, <2>2, ExactSame
<1> QED
  BY <1>1, <1>2, <1>3, <1>4, <1>5, <1>6, <1>7, <1>8, <1>9, <1>10, <1>11, <1>12
  DEF Next, Program, Over

\* The rows are those the walked files call for.
LEMMA RowsExpected ==
  ASSUME results \subseteq Row, KeysOf(results) = Got(walked),
         \A r \in results : r[3] = Verdict(disk[Resolve(r[1])], r[2])
  PROVE  results = Expected(walked)
<1>1. ASSUME NEW r \in results PROVE r \in Expected(walked)
  <2>1. r = <<r[1], r[2], r[3]>>
    BY DEF Row
  <2>2. <<r[1], r[2]>> \in Got(walked)
    BY DEF KeysOf
  <2>3. PICK p \in walked : IsSource(p) /\ <<r[1], r[2]>> \in RecordedFrom(p)
    BY <2>2 DEF Got
  <2>4. r[1] = Display(p) /\ r[2] \in Collect(disk[Resolve(Display(p))])
    BY <2>3 DEF RecordedFrom
  <2>5. r \in RowsOf(Display(p), disk[Resolve(Display(p))])
    BY <2>1, <2>4 DEF RowsOf
  <2> QED
    BY <2>3, <2>5 DEF Expected
<1>2. ASSUME NEW r \in Expected(walked) PROVE r \in results
  <2>1. PICK p \in walked : IsSource(p) /\ r \in RowsOf(Display(p), disk[Resolve(Display(p))])
    BY DEF Expected
  <2> DEFINE t == disk[Resolve(Display(p))]
  <2>2. PICK name \in Collect(t) : r = <<Display(p), name, Verdict(t, name)>>
    BY <2>1 DEF RowsOf
  <2>3. <<Display(p), name>> \in Got(walked)
    BY <2>1, <2>2 DEF Got, RecordedFrom
  <2>4. PICK s \in results : s[1] = Display(p) /\ s[2] = name
    BY <2>3 DEF KeysOf
  <2>5. s = <<s[1], s[2], s[3]>> /\ s[3] = Verdict(t, name)
    BY <2>4 DEF Row
  <2> QED
    BY <2>2, <2>4, <2>5
<1> QED
  BY <1>1, <1>2

\* Whatever order read_dir and the hash sets produce things in, and however
\* often the program failed before, a run that announces success and during
\* which no file changed has reported the unchecked functions of the files it
\* walked, each with its verdict, and nothing else.
THEOREM QuietRunsAreExact == Spec => []QuietRunExact
<1>1. ExactInv => QuietRunExact
  <2> SUFFICES ASSUME ExactInv, pc = "ok", Quiet PROVE Rows = Expected(walked)
    BY DEF QuietRunExact
  <2>1. Rows = results
    BY DEF ExactInv, ReportInv, Table, TableSoFar
  <2>2. results \subseteq Row /\ KeysOf(results) = found
    BY DEF ExactInv, ReportInv, TypeInv, TypeOK, CheckProgress
  <2>3. found = Got(walked)
    BY DEF ExactInv, RecordedAll, Settled
  <2>4. \A r \in results : r[3] = Verdict(disk[Resolve(r[1])], r[2])
    BY DEF ExactInv, VerdictsCurrent
  <2> QED
    BY <2>1, <2>2, <2>3, <2>4, RowsExpected
<1> QED
  BY <1>1, ExactInit, ExactInductive, PTL DEF Spec
=============================================================================
