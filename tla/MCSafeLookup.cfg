SPECIFICATION Spec
CONSTANTS
  Word <- LWord
  MCNames <- LNames
  MCUnsafety <- LUnsafety
  Searches <- MCSearches
INVARIANTS VerdictReached OutcomeMeaning SafeNameRight
