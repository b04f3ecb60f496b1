------------------------------- MODULE Scanner -------------------------------
(***************************************************************************)
(* The whole program of src/main.rs: main walks "library" recursively,     *)
(* records the unchecked functions of every Rust file, then reads each     *)
(* file again for each recorded function to look for its safe version, and *)
(* writes the report.  Other processes may change files meanwhile, every   *)
(* system call may fail, the program may be killed, and it may be run      *)
(* again over the report that an earlier run left.                         *)
(***************************************************************************)
EXTENDS FileTree, SourceFile

CONSTANTS Asts,         \* the syntax trees a Rust file can hold
          Bad,          \* file contents that do not parse, or cannot be read
          MaxRuns,      \* bound: how often the program is started
          MaxEdits      \* bound: how often a file is changed

ASSUME ScannerAssumption ==
  /\ \A ast \in Asts : IsTree(ast)
  /\ Bad \notin Asts
  /\ MaxRuns \in Nat /\ MaxEdits \in Nat

VARIABLES
  disk,        \* what each file holds
  report,      \* safe_version_results.txt: the run that created it, its lines
  run,         \* number of the current or last run
  pc,          \* where the program is, or how the last run ended
  stack,       \* process_directory's frames: the entries each has still to do
  arg,         \* the path handed to process_directory or process_file
  parsed,      \* process_file's parsed_file
  guard,       \* is the mutex held?
  found,       \* unchecked_functions: pairs <<file, name>>
  pending,     \* the pairs check_for_safe_versions has still to do
  results,     \* its results: triples <<file, name, verdict>>
  unwritten,   \* rows main has still to write
  \* history: of the current run
  seen,        \* what each file has held
  walked,      \* paths taken up by process_directory
  skipped,     \* directory entries that read_dir failed to produce
  missed,      \* directories that is_dir denied, their metadata being unreadable
  edits        \* of all runs: number of edits so far

volatile == <<stack, arg, parsed, guard, found, pending, results, unwritten>>
history  == <<seen, walked, skipped, missed>>
env      == <<disk, edits>>
vars     == <<env, report, run, pc, volatile, history>>

Stopped == {"idle", "ok", "err", "panic", "killed"}
Running == {"list", "walk", "read", "lock", "unlock", "begin_check", "check",
            "create", "write"}

Key == Path \X Ident
Row == Path \X Ident \X Verdicts
NoReport == [run |-> 0, lines |-> << >>, torn |-> FALSE]

\* A line of the table: its header, the rule below it, or a row.
Header == <<"header">>
Rule == <<"rule">>
Line == {Header, Rule} \cup Row

TypeOK ==
  /\ disk \in [FileInode -> Asts \cup {Bad}]
  /\ report \in [run : Nat, lines : Seq(Line), torn : BOOLEAN]
  /\ run \in Nat
  /\ edits \in Nat
  /\ pc \in Stopped \cup Running
  /\ stack \in Seq(SUBSET Path)
  /\ arg \in Path
  /\ parsed \in Asts \cup {Bad}
  /\ guard \in {"free", "held"}
  /\ found \subseteq Key
  /\ pending \subseteq Key
  /\ results \subseteq Row
  /\ unwritten \subseteq Row
  /\ seen \in [FileInode -> SUBSET (Asts \cup {Bad})]
  /\ walked \subseteq Path
  /\ skipped \subseteq Path
  /\ missed \subseteq Path

Init ==
  /\ disk \in [FileInode -> Asts \cup {Bad}]
  /\ report = NoReport
  /\ run = 0
  /\ edits = 0
  /\ pc = "idle"
  /\ stack = << >> /\ arg = Root /\ parsed = Bad /\ guard = "free"
  /\ found = {} /\ pending = {} /\ results = {} /\ unwritten = {}
  /\ seen = [i \in FileInode |-> {disk[i]}]
  /\ walked = {} /\ skipped = {} /\ missed = {}

-----------------------------------------------------------------------------
(***************************************************************************)
(* The environment.                                                        *)
(***************************************************************************)
\* Another process rewrites, breaks or repairs a file.
Edit(i, content) ==
  /\ edits < MaxEdits
  /\ content # disk[i]
  /\ disk' = [disk EXCEPT ![i] = content]
  /\ seen' = [seen EXCEPT ![i] = @ \cup {content}]
  /\ edits' = edits + 1
  /\ UNCHANGED <<report, run, pc, volatile, walked, skipped, missed>>

\* The run is over; the mutex and everything else in memory is gone.
Stop(how) ==
  /\ pc' = how
  /\ stack' = << >> /\ arg' = Root /\ parsed' = Bad /\ guard' = "free"
  /\ found' = {} /\ pending' = {} /\ results' = {} /\ unwritten' = {}
  /\ UNCHANGED <<env, run, history>>

Kill == pc \in Running /\ Stop("killed") /\ UNCHANGED report

\* Faulty: the report is created at the start.
Start_CreatesReport ==
  /\ pc \in Stopped
  /\ run < MaxRuns
  /\ run' = run + 1
  /\ pc' = "list"
  /\ report' = [run |-> run', lines |-> << >>, torn |-> FALSE]
  /\ stack' = << >> /\ arg' = Root /\ parsed' = Bad /\ guard' = "free"
  /\ found' = {} /\ pending' = {} /\ results' = {} /\ unwritten' = {}
  /\ seen' = [i \in FileInode |-> {disk[i]}]
  /\ walked' = {Root} /\ skipped' = {} /\ missed' = {}
  /\ UNCHANGED env

\* The program is started.
Start ==
  /\ pc \in Stopped
  /\ run < MaxRuns
  /\ run' = run + 1
  /\ pc' = "list"
  /\ stack' = << >> /\ arg' = Root /\ parsed' = Bad /\ guard' = "free"
  /\ found' = {} /\ pending' = {} /\ results' = {} /\ unwritten' = {}
  /\ seen' = [i \in FileInode |-> {disk[i]}]
  /\ walked' = {Root} /\ skipped' = {} /\ missed' = {}
  /\ UNCHANGED <<env, report>>

-----------------------------------------------------------------------------
(***************************************************************************)
(* process_directory                                                       *)
(***************************************************************************)
\* fs::read_dir(dir_path)?, with the entries that cannot be read dropped by
\* filter_map(|entry| entry.ok())
ReadDir ==
  /\ pc = "list"
  /\ \E entries \in SUBSET Listing(arg) :
       /\ stack' = Append(stack, entries)
       /\ skipped' = skipped \cup (Listing(arg) \ entries)
  /\ pc' = "walk"
  /\ UNCHANGED <<env, report, run, arg, parsed, guard, found, pending, results,
                 unwritten, seen, walked, missed>>

Top == stack[Len(stack)]

\* Faulty: the entry stays in the frame.
TakeUp_Again(p, dir) == /\ pc = "walk"
                        /\ stack # << >>
                        /\ p \in Top /\ dir \in is_dir(p)
                        /\ walked' = walked \cup {p}
                        /\ missed' = IF IsDir(p) /\ ~dir THEN missed \cup {p} ELSE missed
                        /\ UNCHANGED <<env, report, run, stack, parsed, guard, found,
                                       pending, results, unwritten, seen, skipped>>

\* "for path in paths" takes up p, and path.is_dir() says dir.
TakeUp(p, dir) == /\ pc = "walk"
                  /\ stack # << >>
                  /\ p \in Top /\ dir \in is_dir(p)
                  /\ stack' = [stack EXCEPT ![Len(stack)] = @ \ {p}]
                  /\ walked' = walked \cup {p}
                  /\ missed' = IF IsDir(p) /\ ~dir THEN missed \cup {p} ELSE missed
                  /\ UNCHANGED <<env, report, run, parsed, guard, found, pending,
                                 results, unwritten, seen, skipped>>

\* Faulty: no recursion.
EnterDirectory_Flat(p) == /\ IsUtf8(p)
                          /\ TakeUp(p, TRUE)
                          /\ UNCHANGED <<pc, arg>>

\* path.is_dir(): process_directory(path.to_str().unwrap(), ...)?
EnterDirectory(p) == /\ IsUtf8(p)
                     /\ TakeUp(p, TRUE)
                     /\ pc' = "list"
                     /\ arg' = p

\* ext == "rs": process_file(&path_display, ...)?
OpenFile(p) == /\ IsRs(p)
               /\ TakeUp(p, FALSE)
               /\ pc' = "read"
               /\ arg' = p

\* neither
SkipEntry(p) == /\ ~IsRs(p)
                /\ TakeUp(p, FALSE)
                /\ UNCHANGED <<pc, arg>>

\* The loop is over: return to the caller.
LeaveDirectory ==
  /\ pc = "walk"
  /\ stack # << >>
  /\ Top = {}
  /\ stack' = SubSeq(stack, 1, Len(stack) - 1)
  /\ pc' = IF Len(stack) = 1 THEN "begin_check" ELSE "walk"
  /\ UNCHANGED <<env, report, run, arg, parsed, guard, found, pending, results,
                 unwritten, history>>

\* to_str() of a directory that is not UTF-8 is None; println! panics when
\* standard output cannot be written.
WalkPanics == /\ pc = "walk"
              /\ stack # << >>
              /\ \E p \in Top : (IsDir(p) /\ ~IsUtf8(p)) \/ IsRs(p)
              /\ Stop("panic")
              /\ UNCHANGED report

-----------------------------------------------------------------------------
(***************************************************************************)
(* process_file                                                            *)
(***************************************************************************)
\* read_to_string and parse_file succeed on the file a string names.
Parses(file, ast) == /\ Resolve(file) \in FileInode
                     /\ disk[Resolve(file)] = ast
                     /\ ast \in Asts

\* The path was turned into a string, and that is what gets opened.
ReadFile ==
  /\ pc = "read"
  /\ \E ast \in Asts : Parses(Display(arg), ast) /\ parsed' = ast
  /\ pc' = "lock"
  /\ UNCHANGED <<env, report, run, stack, arg, guard, found, pending, results,
                 unwritten, history>>

\* Faulty: the set is replaced; the path is recorded instead of the string.
LockAndInsert_Overwrites ==
  /\ pc = "lock"
  /\ guard = "free"
  /\ guard' = "held"
  /\ found' = {Display(arg)} \X Collect(parsed)
  /\ pc' = "unlock"
  /\ UNCHANGED <<env, report, run, stack, arg, parsed, pending, results,
                 unwritten, history>>

LockAndInsert_RawPath ==
  /\ pc = "lock"
  /\ guard = "free"
  /\ guard' = "held"
  /\ found' = found \cup ({arg} \X Collect(parsed))
  /\ pc' = "unlock"
  /\ UNCHANGED <<env, report, run, stack, arg, parsed, pending, results,
                 unwritten, history>>

\* The visitor's names go to the shared set, under the lock.
LockAndInsert ==
  /\ pc = "lock"
  /\ guard = "free"
  /\ guard' = "held"
  /\ found' = found \cup ({Display(arg)} \X Collect(parsed))
  /\ pc' = "unlock"
  /\ UNCHANGED <<env, report, run, stack, arg, parsed, pending, results,
                 unwritten, history>>

\* Faulty: the guard outlives the call.
ReturnFromFile_KeepsGuard ==
  /\ pc = "unlock"
  /\ parsed' = Bad
  /\ pc' = "walk"
  /\ UNCHANGED <<env, report, run, stack, arg, guard, found, pending, results,
                 unwritten, history>>

\* Ok(()): the guard is dropped.
ReturnFromFile ==
  /\ pc = "unlock"
  /\ guard' = "free"
  /\ parsed' = Bad
  /\ pc' = "walk"
  /\ UNCHANGED <<env, report, run, stack, arg, found, pending, results,
                 unwritten, history>>

-----------------------------------------------------------------------------
(***************************************************************************)
(* check_for_safe_versions                                                 *)
(***************************************************************************)
BeginCheck ==
  /\ pc = "begin_check"
  /\ guard = "free"
  /\ guard' = "held"
  /\ pending' = found
  /\ pc' = "check"
  /\ UNCHANGED <<env, report, run, stack, arg, parsed, found, results,
                 unwritten, history>>

\* Faulty: no verdict in the row; an unreadable file counts as one without a
\* safe version; the pair stays to be done.
CheckOne_NoVerdict(file, name) ==
  /\ pc = "check"
  /\ <<file, name>> \in pending
  /\ \E ast \in Asts : Parses(file, ast)
  /\ results' = results \cup {<<file, name>>}
  /\ pending' = pending \ {<<file, name>>}
  /\ UNCHANGED <<env, report, run, pc, stack, arg, parsed, guard, found,
                 unwritten, history>>

CheckOne_Tolerant(file, name) ==
  /\ pc = "check"
  /\ <<file, name>> \in pending
  /\ \/ \E ast \in Asts : /\ Parses(file, ast)
                          /\ results' = results \cup {<<file, name, Verdict(ast, name)>>}
     \/ /\ ~\E ast \in Asts : Parses(file, ast)
        /\ results' = results \cup {<<file, name, "none">>}
  /\ pending' = pending \ {<<file, name>>}
  /\ UNCHANGED <<env, report, run, pc, stack, arg, parsed, guard, found,
                 unwritten, history>>

CheckOne_Again(file, name) ==
  /\ pc = "check"
  /\ <<file, name>> \in pending
  /\ \E ast \in Asts : /\ Parses(file, ast)
                       /\ results' = results \cup {<<file, name, Verdict(ast, name)>>}
  /\ UNCHANGED <<env, report, run, pc, stack, arg, parsed, guard, found, pending,
                 unwritten, history>>

\* One round of the loop over the set, in whatever order it iterates; the file
\* is read and parsed anew.
CheckOne(file, name) ==
  /\ pc = "check"
  /\ <<file, name>> \in pending
  /\ \E ast \in Asts : /\ Parses(file, ast)
                       /\ results' = results \cup {<<file, name, Verdict(ast, name)>>}
  /\ pending' = pending \ {<<file, name>>}
  /\ UNCHANGED <<env, report, run, pc, stack, arg, parsed, guard, found,
                 unwritten, history>>

\* Ok(results): the guard is dropped, main owns the results.
EndCheck ==
  /\ pc = "check"
  /\ pending = {}
  /\ guard' = "free"
  /\ unwritten' = results
  /\ pc' = "create"
  /\ UNCHANGED <<env, report, run, stack, arg, parsed, found, pending, results,
                 history>>

-----------------------------------------------------------------------------
(***************************************************************************)
(* main: the report                                                        *)
(***************************************************************************)
\* File::create truncates what an earlier run wrote.
Create ==
  /\ pc = "create"
  /\ report' = [run |-> run, lines |-> << >>, torn |-> FALSE]
  /\ pc' = "write"
  /\ UNCHANGED <<env, run, volatile, history>>

\* writeln! on a bare File is several writes: the line is there in part first.
NextLine == IF report.lines = << >> THEN {Header}
            ELSE IF Len(report.lines) = 1 THEN {Rule} ELSE unwritten

BeginLine ==
  /\ pc = "write"
  /\ ~report.torn
  /\ NextLine # {}
  /\ report' = [report EXCEPT !.torn = TRUE]
  /\ UNCHANGED <<env, run, pc, volatile, history>>

\* Faulty: the error of a write is ignored.
EndLine_IgnoresError ==
  /\ pc = "write"
  /\ report.torn
  /\ \E line \in NextLine :
       /\ \/ report' = [report EXCEPT !.torn = FALSE, !.lines = Append(@, line)]
          \/ report' = [report EXCEPT !.torn = FALSE]
       /\ unwritten' = unwritten \ {line}
  /\ UNCHANGED <<env, run, pc, stack, arg, parsed, guard, found, pending,
                 results, history>>

EndLine ==
  /\ pc = "write"
  /\ report.torn
  /\ \E line \in NextLine :
       /\ report' = [report EXCEPT !.torn = FALSE, !.lines = Append(@, line)]
       /\ unwritten' = unwritten \ {line}
  /\ UNCHANGED <<env, run, pc, stack, arg, parsed, guard, found, pending,
                 results, history>>

AllWritten == pc = "write" /\ ~report.torn /\ NextLine = {}

\* println!("Safe version results have been written to ..."); Ok(())
Announce ==
  /\ AllWritten
  /\ pc' = "ok"
  /\ UNCHANGED <<env, report, run, volatile, history>>

AnnouncePanics == AllWritten /\ Stop("panic") /\ UNCHANGED report

\* A system call fails, or a file does not parse: "?" returns the error.
Fails ==
  /\ \/ pc \in {"list", "read", "create"}
     \/ pc = "check" /\ pending # {}
     \/ pc = "write" /\ ~AllWritten
  /\ Stop("err")
  /\ UNCHANGED report

-----------------------------------------------------------------------------
Program ==
  \/ ReadDir \/ LeaveDirectory \/ WalkPanics
  \/ \E p \in UNION {stack[k] : k \in DOMAIN stack} :
       EnterDirectory(p) \/ OpenFile(p) \/ SkipEntry(p)
  \/ ReadFile \/ LockAndInsert \/ ReturnFromFile
  \/ BeginCheck \/ EndCheck \/ \E k \in pending : CheckOne(k[1], k[2])
  \/ Create \/ BeginLine \/ EndLine \/ Announce \/ AnnouncePanics
  \/ Fails

Over == pc \in Stopped /\ run = MaxRuns /\ UNCHANGED vars

Next ==
  \/ Program \/ Start \/ Kill \/ Over
  \/ \E i \in FileInode, content \in Asts \cup {Bad} : Edit(i, content)

\* The process is scheduled and its system calls return; nothing makes others
\* edit files or start the program again.
Spec == Init /\ [][Next]_vars /\ WF_vars(Program)

-----------------------------------------------------------------------------
(***************************************************************************)
(* Properties                                                              *)
(***************************************************************************)
Rows == {report.lines[k] : k \in 3..Len(report.lines)}

\* Every row is backed by the file it names, even while files are edited: the
\* function was in a version of that file that existed during the run, and the
\* verdict is the right one for a (possibly different) version of it.
RowsJustified ==
  \A r \in results :
    /\ Resolve(r[1]) \in FileInode
    /\ \E ast \in seen[Resolve(r[1])] \cap Asts : r[2] \in Collect(ast)
    /\ \E ast \in seen[Resolve(r[1])] \cap Asts : r[3] = Verdict(ast, r[2])

\* A function is reported once, even if its file changes between the rounds of
\* the check.
OneRowPerFunction ==
  \A r, s \in results : r[1] = s[1] /\ r[2] = s[2] => r = s

\* A run that announces success has written the table in full: header, rule,
\* and every result once.
SuccessIsComplete ==
  pc = "ok" =>
    /\ report.run = run
    /\ ~report.torn
    /\ Len(report.lines) >= 2
    /\ report.lines[1] = Header /\ report.lines[2] = Rule
    /\ Rows = results
    /\ \A j, k \in 3..Len(report.lines) :
          report.lines[j] = report.lines[k] => j = k

\* The walk of a run that gets through follows every directory it took up, down from
\* the root.  What it leaves out without a word is of two kinds only: entries that
\* read_dir did not produce, and what lies below a directory whose metadata could not
\* be read.
WalkClosed ==
  pc \in {"begin_check", "check", "create", "write", "ok"} =>
    /\ Root \in walked \ missed
    /\ \A d \in walked \ missed : IsDir(d) => Listing(d) \subseteq walked \cup skipped

\* No path is taken up twice: what is still to be done is not done already.
NoPathTwice ==
  \A k \in 1..Len(stack) : stack[k] \cap walked = {}

\* The paths that were handed to process_file.
IsSource(p) == IsRs(p) /\ (IsDir(p) => p \in missed)

\* The rows that the files at the paths P call for.
RowsOf(file, ast) == {<<file, name, Verdict(ast, name)>> : name \in Collect(ast)}
Expected(P) == UNION {RowsOf(Display(p), disk[Resolve(Display(p))]) :
                        p \in {x \in P : IsSource(x)}}

Quiet == \A i \in FileInode : seen[i] = {disk[i]}

\* If no file changed during the run, a successful run reports exactly the
\* unchecked functions of the files it walked, each with its verdict, whatever
\* order read_dir and the hash sets produced them in.
QuietRunExact == pc = "ok" /\ Quiet => Rows = Expected(walked)

\* A run that fails or is killed before the check is finished leaves the report
\* of an earlier run alone: only main's writing phase touches the file.
ReportKept ==
  [][report' # report => /\ pc \in {"create", "write"}
                         /\ {<<r[1], r[2]>> : r \in results} = found]_vars

Phase == CASE pc = "write" -> "writing"
           [] pc \in Running \ {"write"} -> "collecting"
           [] pc = "ok" -> "ok"
           [] OTHER -> "stopped"

Report == INSTANCE ReportSpec WITH Rows <- Row, phase <- Phase,
                                   rows <- IF pc = "write" THEN unwritten ELSE {}

\* Of all that the program does, with its walk, its locks, its second reading of every
\* file, its failures, and others editing the files, the report shows one thing: a run
\* replaces it by the table of its own rows, in one pass, or fails.
ImplementsReport == Report!Spec

\* No run waits for the mutex it holds itself.
NoSelfDeadlock == pc \in {"lock", "begin_check"} => guard = "free"

\* Every run ends, also when links make the tree cyclic.
EveryRunEnds == (pc \in Running) ~> (pc \in Stopped)
=============================================================================
