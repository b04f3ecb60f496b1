------------------------------ MODULE MCScanner ------------------------------
(***************************************************************************)
(* Small trees for the scanner: one that is edited while it is scanned,    *)
(* one that is scanned again and again, and one made cyclic by links with  *)
(* names that are not UTF-8.                                               *)
(***************************************************************************)
EXTENDS Scanner

MCWord == {"get"}
Fn(name, unsafe) == [kind |-> "fn", parent |-> 0, name |-> name, unsafe |-> unsafe]
Get(unsafe) == Fn(<<"get">>, unsafe)
GetUnchecked == Fn(<<"get", "_", "unchecked">>, TRUE)
UncheckedGet == Fn(<<"unchecked", "_", "get">>, TRUE)

NothingUnchecked == <<Get(FALSE)>>
WithSafe    == <<GetUnchecked, Get(FALSE)>>
WithUnsafe  == <<GetUnchecked, Get(TRUE), UncheckedGet>>
Alone       == <<GetUnchecked>>

\* library/{a.rs, notes, sub/b.rs}; "notes" is another name of a.rs.
EName == {"a.rs", "b.rs", "notes", "sub"}
EDirInode == {"library", "dir"}
EFileInode == {"fileA", "fileB"}
EEntries == [d \in EDirInode |->
               IF d = "library"
               THEN [n \in {"a.rs", "notes", "sub"} |-> IF n = "sub" THEN "dir" ELSE "fileA"]
               ELSE [n \in {"b.rs"} |-> "fileB"]]
ELossy == [n \in EName |-> n]
ERsName == {"a.rs", "b.rs"}
EAsts == {WithSafe, WithUnsafe}
NoLinks == {}

\* library/{a.rs, b.rs}
RName == {"a.rs", "b.rs"}
RDirInode == {"library"}
REntries == [d \in RDirInode |-> [n \in RName |-> IF n = "a.rs" THEN "fileA" ELSE "fileB"]]
RLossy == [n \in RName |-> n]
RAsts == {WithUnsafe}

\* library/{FFFD.rs, FF.rs, FF -> library, back.rs -> library, gone.rs -> nowhere}: a
\* tree that links make cyclic, with a directory named like a file. FF is a byte that is not UTF-8; with its replacement
\* character FF.rs has the name of another file.
LName == {"FF.rs", "FFFD.rs", "FF", "FFFD", "back.rs", "gone.rs"}
LDirInode == {"library"}
LFileInode == {"fileA", "fileB"}
LEntries == [d \in LDirInode |->
               [n \in LName \ {"FFFD"} |->
                  CASE n = "FF.rs" -> "fileA" [] n = "FFFD.rs" -> "fileB"
                    [] n \in {"FF", "back.rs"} -> "library" [] n = "gone.rs" -> NoInode]]
LIsLink == {"library"} \X {"FF", "back.rs", "gone.rs"}
LLossy == [n \in LName |-> IF n = "FF.rs" THEN "FFFD.rs" ELSE IF n = "FF" THEN "FFFD" ELSE n]
LRsName == {"FF.rs", "FFFD.rs", "back.rs", "gone.rs"}
LAsts == {Alone}
=============================================================================
