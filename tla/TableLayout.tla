------------------------------ MODULE TableLayout ------------------------------
(***************************************************************************)
(* The layout of the report that main of src/main.rs writes: the widths of *)
(* the three columns are computed from the lengths of the results in       *)
(* bytes, and the cells are padded by core::fmt, which counts characters.  *)
(* A text is known by its characters and its bytes only.                   *)
(***************************************************************************)
EXTENDS Naturals, Sequences, FiniteSetsExt

CONSTANTS Texts,       \* the texts a cell can hold: [chars, bytes]
          MaxResults   \* bound on the number of results

ASSUME TextsAssumption ==
  \A t \in Texts : t.chars \in Nat /\ t.bytes \in t.chars..4 * t.chars

VARIABLES results,     \* triples of texts that are not written yet
          width,       \* a, b and c
          lines,       \* what is written: the cells between the bars, with their blanks
          given        \* history: all results

vars == <<results, width, lines, given>>

Columns == 1..3
Titles == <<[chars |-> 9, bytes |-> 9], [chars |-> 18, bytes |-> 18], [chars |-> 13, bytes |-> 13]>>
Empty == [chars |-> 0, bytes |-> 0]

Init == /\ \E r \in [1..MaxResults -> [Columns -> Texts]] : \E n \in 0..MaxResults :
             results = {r[i] : i \in 1..n}
        /\ given = results
        /\ width = << >> /\ lines = << >>

\* Faulty: the width of the first result that the set yields.
longest_First(S) == IF S = {} THEN 0 ELSE CHOOSE n \in S : TRUE

\* iter().map(len).max().unwrap_or(0)
longest(S) == IF S = {} THEN 0 ELSE Max(S)

\* Formatter::pad: a minimum width in characters, filled on the right
pad(text, w) == [shown |-> text.chars, filled |-> IF text.chars >= w THEN text.chars ELSE w]

Widths == /\ width = << >>
          /\ width' = [c \in Columns |-> longest({r[c].bytes : r \in results}) + 2]
          /\ UNCHANGED <<results, lines, given>>

\* "| {:a$} | {:b$} | {:c$} |": a blank on either side of the padded text
Cells(row) == [c \in Columns |-> [shown |-> pad(row[c], width[c]).shown,
                                  filled |-> pad(row[c], width[c]).filled + 2]]

HeaderLine == /\ width # << >> /\ lines = << >>
              /\ lines' = <<Cells(Titles)>>
              /\ UNCHANGED <<results, width, given>>

\* "|{:-<a$}|{:-<b$}|{:-<c$}|": no blanks
RuleLine == /\ Len(lines) = 1
            /\ lines' = Append(lines, [c \in Columns |-> pad(Empty, width[c])])
            /\ UNCHANGED <<results, width, given>>

RowLine(row) == /\ Len(lines) >= 2
                /\ row \in results
                /\ lines' = Append(lines, Cells(row))
                /\ results' = results \ {row}
                /\ UNCHANGED <<width, given>>

Over == Len(lines) >= 2 /\ results = {} /\ UNCHANGED vars

Next == Widths \/ HeaderLine \/ RuleLine \/ (\E row \in results : RowLine(row)) \/ Over

Spec == Init /\ [][Next]_vars

-----------------------------------------------------------------------------
\* Every row has its bars where the other rows have them, also with names and paths that
\* are not ASCII, though the widths count bytes and the padding counts characters; the
\* header has them there unless a title is longer than the widest result and two more;
\* the rule is two short in every column, as in the report kept in the repository
\* (safe_version_results.txt:1-3).
ColumnsAligned ==
  \A k \in 3..Len(lines), c \in Columns :
    /\ lines[k][c].filled = width[c] + 2
    /\ lines[1][c].filled = IF Titles[c].chars <= width[c] THEN lines[k][c].filled
                            ELSE Titles[c].chars + 2
    /\ lines[2][c].filled = lines[k][c].filled - 2

\* No cell is cut: title or result, every text is shown in all its characters, and a
\* result is followed by at least two blanks and the one before the bar.
NothingCut ==
  /\ Len(lines) >= 1 => \A c \in Columns : lines[1][c].shown = Titles[c].chars
  /\ \A k \in 3..Len(lines), c \in Columns : lines[k][c].shown + 4 <= lines[k][c].filled
  /\ \A r \in given \ results : \E k \in 3..Len(lines) :
       \A c \in Columns : lines[k][c].shown = r[c].chars
=============================================================================
