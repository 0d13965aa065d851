\* F64 division of constants whose quotient is -0.0.
CONSTANTS
  WordBits = 12
  ImmBits = 6
  TypeBits <- MCTypeBits
  InitIRs <- FloatIRs
  DebugBuild = FALSE
  ParamIdx = {0, 1}
  ParamVals <- MCParamVals
  MaxData = 3
  KVals <- SignedZeroKVals
  FamOps = {"DIV"}
  FamTypes = {"F64"}
  NarrowBits = 8

SPECIFICATION Spec
PROPERTY ImplementsContract
\* A fold() panic aborts the compilation: the system stops there.
CHECK_DEADLOCK FALSE
