------------------------------ MODULE ReportSpec ------------------------------
(***************************************************************************)
(* What the program promises of safe_version_results.txt: a run first      *)
(* collects its rows without touching the file, then replaces the file by  *)
(* a table of these rows, line by line.  It reports success only with the  *)
(* table complete; whatever stops it earlier leaves the old file, or a     *)
(* part of the new one.                                                    *)
(***************************************************************************)
EXTENDS Naturals, Sequences

CONSTANTS Header, Rule, NoReport,
          Rows          \* the rows that a table can have

VARIABLES report,       \* the run that created the file, its lines, a line begun
          run,          \* number of the current or last run
          phase,        \* "stopped", "collecting", "writing" or "ok"
          rows          \* while writing: the rows that are not in the file yet

Init == report = NoReport /\ run = 0 /\ phase = "stopped" /\ rows = {}

Start == /\ phase \in {"stopped", "ok"}
         /\ run' = run + 1 /\ phase' = "collecting"
         /\ UNCHANGED <<report, rows>>

\* The rows are those of different functions.
Publish == /\ phase = "collecting"
           /\ phase' = "writing"
           /\ report' = [run |-> run, lines |-> << >>, torn |-> FALSE]
           /\ rows' \subseteq Rows
           /\ \A r, s \in rows' : r[1] = s[1] /\ r[2] = s[2] => r = s
           /\ UNCHANGED run

NextLine == IF report.lines = << >> THEN {Header}
            ELSE IF Len(report.lines) = 1 THEN {Rule} ELSE rows

BeginLine == /\ phase = "writing" /\ ~report.torn /\ NextLine # {}
             /\ report' = [report EXCEPT !.torn = TRUE]
             /\ UNCHANGED <<run, phase, rows>>

EndLine == /\ phase = "writing" /\ report.torn
           /\ \E line \in NextLine :
                /\ report' = [report EXCEPT !.torn = FALSE, !.lines = Append(@, line)]
                /\ rows' = rows \ {line}
           /\ UNCHANGED <<run, phase>>

Succeed == /\ phase = "writing" /\ ~report.torn /\ NextLine = {}
           /\ phase' = "ok"
           /\ UNCHANGED <<report, run, rows>>

Stop == /\ phase \in {"collecting", "writing"}
        /\ phase' = "stopped" /\ rows' = {}
        /\ UNCHANGED <<report, run>>

Next == Start \/ Publish \/ BeginLine \/ EndLine \/ Succeed \/ Stop

Spec == Init /\ [][Next]_<<report, run, phase, rows>>
=============================================================================
