SPECIFICATION Spec
CONSTANTS
  Names <- MCNames
  Literals <- MCLiterals
  Decode <- MCDecode
  MaxCallDepth = 3
  MaxNesting = 8
  Programs <- ArrayPrograms
INVARIANT IndexIsInRange
CHECK_DEADLOCK FALSE
