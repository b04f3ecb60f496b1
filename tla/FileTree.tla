------------------------------- MODULE FileTree -------------------------------
(***************************************************************************)
(* The directory tree the scanner walks: names, paths below the scanned    *)
(* directory, symbolic links, and the conversions of src/main.rs from      *)
(* paths to strings.  The shape of the tree is fixed; what files hold      *)
(* changes in Scanner.                                                     *)
(***************************************************************************)
EXTENDS Integers, Sequences

CONSTANTS
  Name,         \* names of directory entries
  DirInode, FileInode, NoInode,
  RootInode,    \* the directory "library"
  Entries,      \* the entries of each directory: where a name leads
  IsLink,       \* is the entry a symbolic link?
  MaxLinks,     \* symbolic links the kernel follows in one path (ELOOP beyond)
  RsName,       \* names whose extension is "rs"
  Lossy         \* a name with its invalid UTF-8 replaced by U+FFFD

ASSUME FileTreeAssumption ==
  /\ DirInode \cap FileInode = {}
  /\ NoInode \notin DirInode \cup FileInode
  /\ RootInode \in DirInode
  /\ RsName \subseteq Name
  /\ MaxLinks \in Nat
  /\ Lossy \in [Name -> Name] /\ \A n \in Name : Lossy[Lossy[n]] = Lossy[n]
  /\ DOMAIN Entries = DirInode
  /\ \A d \in DirInode :
       /\ DOMAIN Entries[d] \subseteq Name
       /\ \A n \in DOMAIN Entries[d] :
            Entries[d][n] \in DirInode \cup FileInode \cup {NoInode}
  /\ IsLink \in SUBSET (DirInode \X Name)

\* A path is the sequence of the names below the scanned directory.
Path == Seq(Name)
Root == << >>

\* The inode a path leads to, NoInode where the kernel reports an error.
Resolve(p) ==
  LET step[k \in 0..Len(p)] ==
        IF k = 0 THEN [at |-> RootInode, links |-> 0]
        ELSE LET s == step[k - 1]
                 links == s.links + (IF <<s.at, p[k]>> \in IsLink THEN 1 ELSE 0)
             IN  IF /\ s.at \in DirInode
                    /\ p[k] \in DOMAIN Entries[s.at]
                    /\ links <= MaxLinks
                 THEN [at |-> Entries[s.at][p[k]], links |-> links]
                 ELSE [at |-> NoInode, links |-> links]
  IN  step[Len(p)].at

\* Following links, p leads to a directory.
IsDir(p) == Resolve(p) \in DirInode

\* What path.is_dir() may return: its unwrap_or(false) makes any failure to read the
\* metadata a no.
is_dir(p) == {IsDir(p), FALSE}

\* path.extension() is "rs"; it goes by the entry's own name.
IsRs(p) == p # Root /\ p[Len(p)] \in RsName

\* path.display().to_string(), and whether path.to_str() is Some.
Display(p) == [k \in 1..Len(p) |-> Lossy[p[k]]]
IsUtf8(p) == Display(p) = p

\* What fs::read_dir of a directory lists.
Listing(d) == {Append(d, n) : n \in DOMAIN Entries[Resolve(d)]}
=============================================================================
