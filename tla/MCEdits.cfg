SPECIFICATION Spec
CONSTANTS
  Word <- MCWord
  Name <- EName
  DirInode <- EDirInode
  FileInode <- EFileInode
  NoInode = NoInode
  RootInode = "library"
  Entries <- EEntries
  IsLink <- NoLinks
  MaxLinks = 0
  RsName <- ERsName
  Lossy <- ELossy
  Asts <- EAsts
  Bad = Bad
  MaxRuns = 1
  MaxEdits = 2
INVARIANTS TypeOK RowsJustified OneRowPerFunction QuietRunExact
