SPECIFICATION Spec
CONSTANTS
  Word <- MCWord
  Name <- RName
  DirInode <- RDirInode
  FileInode <- EFileInode
  NoInode = NoInode
  RootInode = "library"
  Entries <- REntries
  IsLink <- NoLinks
  MaxLinks = 0
  RsName <- RName
  Lossy <- RLossy
  Asts <- RAsts
  Bad = Bad
  MaxRuns = 3
  MaxEdits = 1
INVARIANTS SuccessIsComplete NoSelfDeadlock
PROPERTIES ReportKept ImplementsReport EveryRunEnds
