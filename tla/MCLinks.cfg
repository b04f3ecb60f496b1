SPECIFICATION Spec
CONSTANTS
  Word <- MCWord
  Name <- LName
  DirInode <- LDirInode
  FileInode <- LFileInode
  NoInode = NoInode
  RootInode = "library"
  Entries <- LEntries
  IsLink <- LIsLink
  MaxLinks = 1
  RsName <- LRsName
  Lossy <- LLossy
  Asts <- LAsts
  Bad = Bad
  MaxRuns = 1
  MaxEdits = 0
INVARIANTS WalkClosed NoPathTwice QuietRunExact
PROPERTY EveryRunEnds
