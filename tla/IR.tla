--------------------------------- MODULE IR ---------------------------------
(***************************************************************************)
(* The IR the optimizer rewrites: instructions (Ins), functions (Func) and *)
(* the opcode predicates is_const / is_control / is_cse.                   *)
(*                                                                         *)
(* An Ins is a record: opcode, result type, the operand slots that hold    *)
(* instruction ids (in), the control-successor slots (ctl) and the packed  *)
(* immediate (imm: the value of a KINT, the pool handle of a KINT64, the   *)
(* index of a PARAM).  Unused slots are <<>> / 0, so record equality is    *)
(* the bitwise equality the CSE table uses.  An InsId is the index of the  *)
(* instruction in the code sequence (InsId 0 of the code is index 1); the  *)
(* order of ids, which canonicalization compares, is the same.             *)
(*                                                                         *)
(* The opcode set, its predicates and the Ins layout live in ir.rs, which  *)
(* is not part of the sources; they are modelled from the specification.   *)
(* F64 values are the Float module's; F32 is not modelled (its rounding   *)
(* to single precision is left out).                                      *)
(*                                                                         *)
(* Integer widths are constants: WordBits stands for the 64 bits of the    *)
(* i64 the folder computes in, ImmBits for the 32 bits of a KINT           *)
(* immediate, TypeBits[ty] for the width of a value of type ty at run      *)
(* time.  A model scales them down but keeps their order.                  *)
(***************************************************************************)
EXTENDS Integers, Sequences, FiniteSets, Float

CONSTANTS
  WordBits,   \* width of the folder's i64 arithmetic
  ImmBits,    \* width of a KINT immediate (value == value as i32)
  TypeBits    \* [IntTypes -> width] of each integer type at run time

IntTypes == DOMAIN TypeBits
FloatTypes == {"F64"}
VOID == "VOID"                     \* type of control instructions

ASSUME /\ ImmBits \in 2..WordBits - 1
       /\ \A t \in IntTypes : TypeBits[t] \in 2..WordBits
       /\ TypeBits["I64"] = WordBits

ConstOps   == {"KINT", "KINT64", "KFP64"}
BinOps     == {"ADD", "SUB", "MUL", "DIV", "UDIV", "POW"}
ControlOps == {"GOTO", "IF", "RET"}
Opcodes    == ConstOps \cup BinOps \cup ControlOps \cup {"PARAM", "MOV"}

is_const(op)   == op \in ConstOps
is_control(op) == op \in ControlOps
is_cse(op)     == op \in ConstOps \cup BinOps \cup {"PARAM", "MOV"}

(* Ins constructors: Ins::KINT(ty, v) etc. *)
Mk(op, ty, in, ctl, imm) == [op |-> op, ty |-> ty, in |-> in, ctl |-> ctl, imm |-> imm]
KINT(ty, v)      == Mk("KINT", ty, <<>>, <<>>, v)
KINT64(ty, h)    == Mk("KINT64", ty, <<>>, <<>>, h)
KFP64(ty, h)     == Mk("KFP64", ty, <<>>, <<>>, h)
PARAM(ty, p)     == Mk("PARAM", ty, <<>>, <<>>, p)
Bin(op, ty, a, b) == Mk(op, ty, <<a, b>>, <<>>, 0)
MOV(ty, a)       == Mk("MOV", ty, <<a>>, <<>>, 0)
RET(v)           == Mk("RET", VOID, <<v>>, <<>>, 0)
GOTO(t)          == Mk("GOTO", VOID, <<>>, <<t>>, 0)
IFins(c, t, e)   == Mk("IF", VOID, <<c>>, <<t, e>>, 0)

(***************************************************************************)
(* Two's-complement arithmetic at width w.                                 *)
(***************************************************************************)
MinS(w) == -(2^(w-1))
MaxS(w) == 2^(w-1) - 1
Fits(w, x) == MinS(w) <= x /\ x <= MaxS(w)
Wrap(w, x) == ((x - MinS(w)) % 2^w) + MinS(w)
Unsigned(w, x) == x % 2^w
\* Rust's signed division truncates toward zero; TLA+'s \div floors.
TruncDiv(a, b) == IF (a < 0) = (b < 0) THEN (IF a < 0 THEN -a ELSE a) \div (IF b < 0 THEN -b ELSE b)
                  ELSE -((IF a < 0 THEN -a ELSE a) \div (IF b < 0 THEN -b ELSE b))

(***************************************************************************)
(* A function: its code and the entry id.  WellFormed is the invariant     *)
(* the front-end establishes: operand and control ids are in range, and    *)
(* operands form a DAG (each operand precedes its user).                   *)
(***************************************************************************)
Ids(code) == 1..Len(code)
WellFormed(f) ==
  /\ f.entry \in Ids(f.code)
  /\ is_control(f.code[f.entry].op)
  /\ \A i \in Ids(f.code) :
       /\ \A k \in DOMAIN f.code[i].in  : f.code[i].in[k] \in 1..(i-1)
       /\ \A k \in DOMAIN f.code[i].ctl : f.code[i].ctl[k] \in Ids(f.code)

(* Ids reachable from the entry along operand and control edges. *)
Reachable(f) ==
  LET Succ(i) == {f.code[i].in[k] : k \in DOMAIN f.code[i].in}
                   \cup {f.code[i].ctl[k] : k \in DOMAIN f.code[i].ctl}
      RECURSIVE Grow(_)
      Grow(S) == LET T == S \cup UNION {Succ(i) : i \in S} IN IF T = S THEN S ELSE Grow(T)
  IN Grow({f.entry})

(***************************************************************************)
(* Reference semantics: what the emitted code computes.  A value of type   *)
(* ty is an integer of width TypeBits[ty]; a constant is truncated to it.  *)
(* Division by zero and signed MIN / -1 trap.  Result follows the control  *)
(* graph from the entry for at most Len(code) + 1 steps.                   *)
(***************************************************************************)
TRAP == -(2^(WordBits + 1))        \* outcome of a trapping computation
LOOP == -(2^(WordBits + 1)) - 1    \* outcome of a control path that never returns

\* An F64 instruction computes on Float values; its result is the value's code.
EvalF(ins, A, B, pool, params) ==
  LET a == Dec(A)
      b == Dec(B)
  IN CASE ins.op = "KINT"   -> Enc(FromInt(ins.imm))
       [] ins.op = "KFP64"  -> pool[ins.imm]
       [] ins.op = "PARAM"  -> Enc(FromInt(params[ins.imm]))
       [] ins.op = "MOV"    -> A
       [] ins.op = "ADD"    -> Enc(FAdd(a, b))
       [] ins.op = "SUB"    -> Enc(FSub(a, b))
       [] ins.op = "MUL"    -> Enc(FMul(a, b))
       [] ins.op = "DIV"    -> Enc(FDiv(a, b))
       [] ins.op = "POW"    -> Enc(FPow(a, b))

RECURSIVE Eval(_, _, _, _)
Eval(code, pool, params, i) ==
  LET ins == code[i]
      w   == IF ins.ty \in IntTypes THEN TypeBits[ins.ty] ELSE WordBits
      A   == Eval(code, pool, params, ins.in[1])
      B   == Eval(code, pool, params, ins.in[2])
  IN CASE ins.ty \in FloatTypes -> EvalF(ins, A, B, pool, params)
       [] ins.op = "KINT"   -> Wrap(w, ins.imm)
       [] ins.op = "KINT64" -> Wrap(w, pool[ins.imm])
       [] ins.op = "PARAM"  -> Wrap(w, params[ins.imm])
       [] ins.op = "MOV"    -> A
       [] A = TRAP \/ B = TRAP -> TRAP
       [] ins.op = "ADD"    -> Wrap(w, A + B)
       [] ins.op = "SUB"    -> Wrap(w, A - B)
       [] ins.op = "MUL"    -> Wrap(w, A * B)
       [] ins.op = "DIV"    -> IF B = 0 \/ (A = MinS(w) /\ B = -1) THEN TRAP
                               ELSE TruncDiv(A, B)
       [] ins.op = "UDIV"   -> IF B = 0 THEN TRAP
                               ELSE Wrap(w, Unsigned(w, A) \div Unsigned(w, B))

Result(f, pool, params) ==
  LET RECURSIVE Run(_, _)
      Run(i, fuel) ==
        LET ins == f.code[i]
            c   == IF ins.in = <<>> THEN 0 ELSE Eval(f.code, pool, params, ins.in[1])
        IN CASE fuel = 0         -> LOOP
             [] c = TRAP         -> TRAP
             [] ins.op = "RET"   -> c
             [] ins.op = "GOTO"  -> Run(ins.ctl[1], fuel - 1)
             [] ins.op = "IF"    -> Run(IF c # 0 THEN ins.ctl[1] ELSE ins.ctl[2], fuel - 1)
  IN Run(f.entry, Len(f.code) + 1)

(* IR size metric of optimize.rs irsize(): code lengths plus 37 per function. *)
irsize(funcs) ==
  LET RECURSIVE S(_) S(n) == IF n = 0 THEN 0 ELSE Len(funcs[n].code) + S(n - 1)
  IN S(Len(funcs)) + 37 * Len(funcs)
=============================================================================
