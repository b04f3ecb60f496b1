SPECIFICATION Spec
CONSTANTS
  Word <- LWord
  MCNames <- LNames
  MCUnsafety <- LUnsafety
  Searches <- MCSearches
INVARIANT NotItsOwnVersion
