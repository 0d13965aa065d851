\* A debug build (overflow checks on) folding an i64 product that
\* overflows, scaled to an 8-bit word with 6-bit immediates.
CONSTANTS
  WordBits = 8
  ImmBits = 6
  TypeBits <- MCTypeBits
  InitIRs <- OverflowIRs
  DebugBuild = TRUE
  ParamIdx = {0, 1}
  ParamVals <- MCParamVals
  MaxData = 3
  KVals <- MCKVals
  FamOps = {"ADD", "SUB", "MUL", "DIV", "UDIV"}
  FamTypes = {"I64"}
  NarrowBits = 8

SPECIFICATION Spec
INVARIANT PanicsOnlyOnZeroDivisor
\* A fold() panic aborts the compilation: the system stops there.
CHECK_DEADLOCK FALSE
