SPECIFICATION Spec
CONSTANTS
  Word <- VWord
  MCNames <- VNames
  MCUnsafety <- VUnsafety
  Asts <- VAsts
INVARIANT CollectsAll
PROPERTY Finishes
