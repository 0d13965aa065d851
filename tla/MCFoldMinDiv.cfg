\* A release build (overflow wraps) folding i64::MIN / -1, scaled to an
\* 8-bit word with 6-bit immediates.
CONSTANTS
  WordBits = 8
  ImmBits = 6
  TypeBits <- MCTypeBits
  InitIRs <- MinDivIRs
  DebugBuild = FALSE
  ParamIdx = {0}
  ParamVals <- MCParamVals
  MaxData = 1
  KVals <- MCKVals
  FamOps = {"DIV"}
  FamTypes = {"I64"}
  NarrowBits = 8

SPECIFICATION Spec
INVARIANT PanicsOnlyOnZeroDivisor
CHECK_DEADLOCK FALSE
