------------------------------- MODULE MCFold -------------------------------
(***************************************************************************)
(* Model of the fold pass for TLC.  The input IRs hold one function each:  *)
(*  - every straight-line function of MaxData data instructions, drawn     *)
(*    from KINT over KVals, PARAM over ParamIdx, the binary ops FamOps and *)
(*    MOV over earlier ids, ending in RET of one of them;                  *)
(*  - every branching function: two data instructions, IF on one of them   *)
(*    whose successors are RET or GOTO forward or back to the IF (the      *)
(*    front-end never emits an unconditional loop, opt_fold.rs:199-201);   *)
(*  - the integer scenarios S1-S5 of the specification (section 8).        *)
(***************************************************************************)
EXTENDS Fold

CONSTANTS
  MaxData,     \* data instructions of a straight-line function
  KVals,       \* KINT immediates of the inputs
  FamOps,      \* binary opcodes of the inputs
  FamTypes,    \* the integer type(s) of the inputs
  NarrowBits   \* run-time width of the narrow type I8

MCTypeBits == [t \in (FamTypes \ FloatTypes) \cup {"I64"} |-> IF t = "I64" THEN WordBits ELSE NarrowBits]

Data(i, ty, ops, kv) ==
  {KINT(ty, v) : v \in kv} \cup {PARAM(ty, p) : p \in ParamIdx}
  \cup {Bin(op, ty, a, b) : op \in ops, a \in 1..(i-1), b \in 1..(i-1)}
  \cup {MOV(ty, a) : a \in 1..(i-1)}

RECURSIVE DataCodes(_, _, _, _)
DataCodes(n, ty, ops, kv) ==
  IF n = 0 THEN {<<>>}
  ELSE {Append(c, d) : c \in DataCodes(n - 1, ty, ops, kv), d \in Data(n, ty, ops, kv)}

StraightOf(tys, ops, kv) ==
  UNION {{[code |-> c \o <<RET(r)>>, entry |-> MaxData + 1] :
            c \in DataCodes(MaxData, ty, ops, kv), r \in 1..MaxData} : ty \in tys}
Straight == StraightOf(FamTypes, FamOps, KVals)

Branching ==
  LET Rets == {RET(v) : v \in 1..2}
  IN UNION {{[code |-> c \o <<IFins(x, 4, 5), t, e>>, entry |-> 3] :
               c \in DataCodes(2, ty, FamOps, KVals), x \in 1..2,
               t \in Rets \cup {GOTO(3), GOTO(5)}, e \in Rets \cup {GOTO(3)}} : ty \in FamTypes}

MCParamVals == {0, 1, -1, 5}
MCKVals == {0, 1, -2, 30}
NarrowKVals == {-2, 2}

I32 == "I64"
Scenarios ==
  { \* S1 integer fold
    [code |-> <<KINT(I32, 2), KINT(I32, 3), Bin("ADD", I32, 1, 2), RET(3)>>, entry |-> 4],
    \* S2 commutative canonicalization
    [code |-> <<KINT(I32, 7), PARAM(I32, 0), Bin("ADD", I32, 1, 2), RET(3)>>, entry |-> 4],
    \* S3 identity elimination
    [code |-> <<PARAM(I32, 0), KINT(I32, 0), Bin("ADD", I32, 1, 2), KINT(I32, 1),
                Bin("MUL", I32, 3, 4), RET(5)>>, entry |-> 6],
    \* S4 CSE
    [code |-> <<PARAM(I32, 0), PARAM(I32, 1), Bin("ADD", I32, 1, 2), Bin("ADD", I32, 1, 2),
                Bin("SUB", I32, 3, 4), RET(5)>>, entry |-> 6],
    \* S5 MOV elimination
    [code |-> <<PARAM(I32, 0), MOV(I32, 1), KINT(I32, 1), Bin("ADD", I32, 2, 3), RET(4)>>,
     entry |-> 5] }

\* i64::MIN / -1 reached by folding: with WordBits 8 and ImmBits 6,
\* -32 * 4 = -128 = MinS(8) is interned, then divided by -1.
MinDivIRs ==
  {<< [code |-> <<KINT(I32, -32), KINT(I32, 4), Bin("MUL", I32, 1, 2), KINT(I32, -1),
                  Bin("DIV", I32, 3, 4), RET(5)>>, entry |-> 6] >>}

\* F64 scenarios: S6 (pow, inline and interned results), a KFP64 constant
\* folded again and multiplied by a parameter.
F64 == "F64"
FloatScenarios ==
  { [code |-> <<KINT(F64, 2), KINT(F64, 4), Bin("POW", F64, 1, 2), RET(3)>>, entry |-> 4],
    [code |-> <<KINT(F64, 2), KINT(F64, 10), Bin("POW", F64, 1, 2), RET(3)>>, entry |-> 4],
    [code |-> <<KINT(F64, 1), KINT(F64, 3), Bin("DIV", F64, 1, 2), Bin("ADD", F64, 3, 1),
                PARAM(F64, 0), Bin("MUL", F64, 4, 5), RET(6)>>, entry |-> 7] }
FloatKVals == {0, 1, 2, 3}
FloatIRs == {<<f>> : f \in Straight \cup FloatScenarios}
FloatOps == {"SUB", "DIV", "POW"}
SignedZeroKVals == {0, -1, 2}

\* Integer POW of two constants, and i64 overflow of a debug build.
IntPowIRs ==
  {<< [code |-> <<KINT(I32, 2), KINT(I32, 3), Bin("POW", I32, 1, 2), RET(3)>>, entry |-> 4] >>}
OverflowIRs ==
  {<< [code |-> <<KINT(I32, 30), KINT(I32, 30), Bin("MUL", I32, 1, 2), RET(3)>>, entry |-> 4] >>}

MCInitIRs == {<<f>> : f \in Straight \cup Branching \cup Scenarios}

=============================================================================
