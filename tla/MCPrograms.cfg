SPECIFICATION Spec
CONSTANTS
  Names <- MCNames
  Literals <- MCLiterals
  Decode <- MCDecode
  MaxCallDepth = 3
  MaxNesting = 8
  Programs <- AllPrograms
INVARIANT ParsedAsWritten JumpsArePlaced MeaningKept CallsUnwind ArraysAreTrees CallsAreLimited
CHECK_DEADLOCK FALSE
