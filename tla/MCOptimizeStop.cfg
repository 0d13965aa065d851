\* Specification 8.7 against the driver: an unchanged irsize is taken as a fixpoint.
CONSTANTS
  WordBits = 12
  ImmBits = 6
  TypeBits <- MCTypeBits
  InitIRs <- MCOptIRs
  DebugBuild = FALSE
  ParamIdx = {0, 1}
  ParamVals <- MCParamVals
  MaxData = 2
  KVals <- MCKVals
  FamOps = {"ADD", "SUB", "MUL", "DIV", "UDIV"}
  FamTypes = {"I64"}
  NarrowBits = 8
  MAX_ITER = 100
  FlagSets = {{}, {"FOLD"}}

SPECIFICATION OSpec
INVARIANT ConvergedIsFixpoint
CHECK_DEADLOCK FALSE
