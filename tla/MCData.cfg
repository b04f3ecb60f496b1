SPECIFICATION DataSpec
CONSTANTS
  None = None
  s1 = s1
  s2 = s2
  r1 = r1
  r2 = r2
  Texts <- MCTexts
  MaxResults = 2
INVARIANTS WordsExact NobodyOverslept NothingLost MemorySound VectorRestored TableReadable
PROPERTIES ImplementsChannel ImplementsDeque CallsReturn
