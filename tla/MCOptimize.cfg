\* The driver with FOLD enabled, MAX_ITER as in optimize.rs.
CONSTANTS
  WordBits = 12
  ImmBits = 6
  TypeBits <- MCTypeBits
  InitIRs <- MCOptIRs
  DebugBuild = FALSE
  ParamIdx = {0, 1}
  ParamVals <- MCParamVals
  MaxData = 3
  KVals <- MCKVals
  FamOps = {"ADD", "SUB", "MUL", "DIV", "UDIV"}
  FamTypes = {"I64"}
  NarrowBits = 8
  MAX_ITER = 100
  FlagSets = {{}, {"FOLD"}}

SPECIFICATION OSpec
INVARIANT PreservesResults
INVARIANT ConvergesWithinThree
\* Optimize::run returns (done) or a fold() panic aborts the compilation.
CHECK_DEADLOCK FALSE
