\* Specification 4.1 (ii) against the fold pass: S1 leaves its folded operands behind.
CONSTANTS
  WordBits = 12
  ImmBits = 6
  TypeBits <- MCTypeBits
  InitIRs <- MCInitIRs
  DebugBuild = FALSE
  ParamIdx = {0, 1}
  ParamVals <- MCParamVals
  MaxData = 1
  KVals = {1}
  FamOps = {"ADD"}
  FamTypes = {"I64"}
  NarrowBits = 8

SPECIFICATION Spec
PROPERTY NoDeadCode
CHECK_DEADLOCK FALSE
