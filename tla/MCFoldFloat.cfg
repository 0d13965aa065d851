\* The fold pass on F64 functions: every straight-line function of three
\* data instructions over SUB, DIV and POW and the F64 scenarios.
CONSTANTS
  WordBits = 12
  ImmBits = 6
  TypeBits <- MCTypeBits
  InitIRs <- FloatIRs
  DebugBuild = FALSE
  ParamIdx = {0, 1}
  ParamVals <- MCParamVals
  MaxData = 3
  KVals <- FloatKVals
  FamOps <- FloatOps
  FamTypes = {"F64"}
  NarrowBits = 8

SPECIFICATION Spec
PROPERTY ImplementsContract
\* A fold() panic aborts the compilation: the system stops there.
CHECK_DEADLOCK FALSE
