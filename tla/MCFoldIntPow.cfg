\* POW of two integer constants.
CONSTANTS
  WordBits = 12
  ImmBits = 6
  TypeBits <- MCTypeBits
  InitIRs <- IntPowIRs
  DebugBuild = FALSE
  ParamIdx = {0, 1}
  ParamVals <- MCParamVals
  MaxData = 3
  KVals <- MCKVals
  FamOps = {"ADD", "SUB", "MUL", "DIV", "UDIV"}
  FamTypes = {"I64"}
  NarrowBits = 8

SPECIFICATION Spec
INVARIANT PanicsOnlyOnZeroDivisor
\* A fold() panic aborts the compilation: the system stops there.
CHECK_DEADLOCK FALSE
