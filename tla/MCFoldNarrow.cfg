\* The fold contract for the narrow type I8 (8 bits at run time, i64 in the folder).
CONSTANTS
  WordBits = 16
  ImmBits = 10
  TypeBits <- MCTypeBits
  InitIRs <- MCInitIRs
  DebugBuild = FALSE
  ParamIdx = {0, 1}
  ParamVals <- MCParamVals
  MaxData = 3
  KVals <- NarrowKVals
  FamOps = {"UDIV"}
  FamTypes = {"I8"}
  NarrowBits = 8

SPECIFICATION Spec
PROPERTY ImplementsContract
CHECK_DEADLOCK FALSE
