\* The fold pass on every small function of one word-width type (release build).
CONSTANTS
  WordBits = 12
  ImmBits = 6
  TypeBits <- MCTypeBits
  InitIRs <- MCInitIRs
  DebugBuild = FALSE
  ParamIdx = {0, 1}
  ParamVals <- MCParamVals
  MaxData = 3
  KVals <- MCKVals
  FamOps = {"ADD", "SUB", "MUL", "DIV", "UDIV"}
  FamTypes = {"I64"}
  NarrowBits = 8

SPECIFICATION Spec
INVARIANT TypeOK
INVARIANT CseTableExact
INVARIANT FixupDefined
INVARIANT SwapSettles
PROPERTY ImplementsContract
PROPERTY RunTerminates
\* A fold() panic aborts the compilation: the system stops there.
CHECK_DEADLOCK FALSE
