-------------------------------- MODULE Fold --------------------------------
(***************************************************************************)
(* The fold pass of opt_fold.rs: constant folding, simplification,         *)
(* commutative canonicalization, MOV elimination, CSE and DCE, as one      *)
(* rewrite of a function into a new code vector.                           *)
(*                                                                         *)
(* Fold::run is a sequence of steps: RunBegin clears the scratch and seeds *)
(* the queue with the entry; Dequeue pops the FIFO `next`; the recursion   *)
(* of visit() is an explicit stack of frames, each an old id, its          *)
(* instruction with the operands rewritten so far and the next operand     *)
(* slot k; VisitInput / VisitCall handle one operand slot (already         *)
(* mapped, or recurse); VisitFold runs fold() to Done/New, emits the       *)
(* result and returns to the caller frame; RunEnd is fixup() and the       *)
(* installation of the new code.  A panic of fold() ends the compilation.  *)
(***************************************************************************)
EXTENDS IR, SequencesExt

CONSTANTS
  InitIRs,     \* the IRs (sequences of Func) the front-end may hand over
  DebugBuild,  \* TRUE: i64 overflow panics (debug); FALSE: it wraps
  ParamIdx,    \* PARAM indices, and the values a parameter is given,
  ParamVals    \* over which FoldContract compares results

VARIABLES
  funcs,       \* ocx.ir.funcs
  fid,         \* the function Fold::run is rewriting
  old_new,     \* fold.old_new: old id -> new id, Absent if not visited
  next,        \* fold.next: FIFO of old control ids
  cse_map,     \* fold.cse_map: the new ids hashed for CSE
  code,        \* fold.code: the new code vector
  stack,       \* the frames of the visit() recursion, innermost last
  pool,        \* ccx.intern: interned i64 constants, handle = index
  pc           \* "idle", "drain" (inside Fold::run) or "panic"

vars == <<funcs, fid, old_new, next, cse_map, code, stack, pool, pc>>

Absent == 0    \* IndexOption None

(***************************************************************************)
(* Constants: kintvalue, newkint, the pool's intern, foldintarith.         *)
(***************************************************************************)
\* f as i64: truncation toward zero, saturating, NaN to 0.
FToI(f) == CASE f.t = "fin" -> LET v == f.s * (f.n \div f.d)
                               IN IF Fits(WordBits, v) THEN v
                                  ELSE IF v < 0 THEN MinS(WordBits) ELSE MaxS(WordBits)
             [] f.t = "inf" -> IF f.s = 1 THEN MaxS(WordBits) ELSE MinS(WordBits)
             [] OTHER -> 0

kintvalue(ins, pl) == CASE ins.op = "KINT"   -> ins.imm
                        [] ins.op = "KINT64" -> pl[ins.imm]
                        [] ins.op = "KFP64"  -> FToI(Dec(pl[ins.imm]))

kfpvalue(ins, pl) == CASE ins.op = "KINT"   -> FromInt(ins.imm)
                       [] ins.op = "KINT64" -> FromInt(pl[ins.imm])
                       [] ins.op = "KFP64"  -> Dec(pl[ins.imm])

intern(v, pl) ==
  IF \E h \in DOMAIN pl : pl[h] = v
  THEN [h |-> CHOOSE h \in DOMAIN pl : pl[h] = v, pool |-> pl]
  ELSE [h |-> Len(pl) + 1, pool |-> Append(pl, v)]

\* value == (value as i32) as i64 keeps it inline, else it is interned.
newkint(ty, v, pl) ==
  IF Fits(ImmBits, v) THEN [ins |-> KINT(ty, v), pool |-> pl]
  ELSE LET r == intern(v, pl) IN [ins |-> KINT64(ty, r.h), pool |-> r.pool]

\* Seeded fault: value as i32 is kept without comparing it back to value.
newkfpTrunc(ty, f, pl) ==
  IF f.t = "fin" /\ Fits(ImmBits, f.s * (f.n \div f.d))
  THEN [ins |-> KINT(ty, f.s * (f.n \div f.d)), pool |-> pl]
  ELSE LET r == intern(Enc(f), pl) IN [ins |-> KFP64(ty, r.h), pool |-> r.pool]

\* value == (value as i32) as f64 keeps it inline as a KINT of the float
\* type; -0.0 == 0.0, so a negative zero becomes KINT 0.  NaN and the
\* infinities never compare equal and are interned.
newkfp(ty, f, pl) ==
  IF f.t = "fin" /\ f.d = 1 /\ Fits(ImmBits, f.s * f.n)
  THEN [ins |-> KINT(ty, f.s * f.n), pool |-> pl]
  ELSE LET r == intern(Enc(f), pl) IN [ins |-> KFP64(ty, r.h), pool |-> r.pool]

\* i64 arithmetic; panic is Rust's division panics and debug overflow checks,
\* and the unreachable!() of an operation with no arm (POW).
foldintarith(op, l, r) ==
  LET exact == CASE op = "ADD" -> l + r
                 [] op = "SUB" -> l - r
                 [] op = "MUL" -> l * r
                 [] op = "DIV" -> TruncDiv(l, IF r = 0 THEN 1 ELSE r)
                 [] op = "UDIV" -> Unsigned(WordBits, l) \div
                                   (IF r = 0 THEN 1 ELSE Unsigned(WordBits, r))
  IN CASE op = "POW" -> [panic |-> TRUE, v |-> 0]
       [] op \in {"DIV", "UDIV"} /\ r = 0 -> [panic |-> TRUE, v |-> 0]
       [] op = "DIV" /\ l = MinS(WordBits) /\ r = -1 -> [panic |-> TRUE, v |-> 0]
       [] ~Fits(WordBits, exact) /\ op # "UDIV" /\ DebugBuild -> [panic |-> TRUE, v |-> 0]
       [] OTHER -> [panic |-> FALSE, v |-> Wrap(WordBits, exact)]

foldfparith(op, l, r) == CASE op = "ADD" -> FAdd(l, r)
                           [] op = "SUB" -> FSub(l, r)
                           [] op = "MUL" -> FMul(l, r)
                           [] op = "DIV" -> FDiv(l, r)
                           [] op = "POW" -> FPow(l, r)

\* The constant arm of fold(): floats through kfpvalue/foldfparith/newkfp,
\* integers through kintvalue/foldintarith/newkint.
foldconst(ins, pl) ==
  LET L == code[ins.in[1]]
      R == code[ins.in[2]]
  IN IF ins.ty \in FloatTypes
     THEN LET k == newkfp(ins.ty, foldfparith(ins.op, kfpvalue(L, pl), kfpvalue(R, pl)), pl)
          IN [st |-> "Done", ins |-> k.ins, id |-> 0, pool |-> k.pool]
     ELSE LET r == foldintarith(ins.op, kintvalue(L, pl), kintvalue(R, pl))
              k == newkint(ins.ty, r.v, pl)
          IN IF r.panic THEN [st |-> "Panic", ins |-> ins, id |-> 0, pool |-> pl]
             ELSE [st |-> "Done", ins |-> k.ins, id |-> 0, pool |-> k.pool]

(***************************************************************************)
(* fold(): one application of the rewrite rules to an instruction whose    *)
(* operands are new ids.  The ipat patterns read the new code: `const` is  *)
(* is_const, a literal k is a KINT whose immediate is k.                   *)
(***************************************************************************)
IsConstId(i) == is_const(code[i].op)
\* Seeded fault: the literal pattern drops its value test.
IsLitAny(i, k) == is_const(code[i].op)
IsLit(i, k)  == code[i].op = "KINT" /\ code[i].imm = k

\* Seeded fault: SUB is sorted as if it were commutative.
foldSwapSub(ins, pl) ==
  LET a == ins.in[1]
      b == ins.in[2]
      Done(x, p) == [st |-> "Done", ins |-> x, id |-> 0, pool |-> p]
      New(id)    == [st |-> "New", ins |-> ins, id |-> id, pool |-> pl]
  IN CASE ins.op \in BinOps /\ IsConstId(a) /\ IsConstId(b) -> foldconst(ins, pl)
       [] ins.op \in {"ADD", "MUL", "SUB"} /\ (IsConstId(a) \/ (a > b /\ ~IsConstId(b))) ->
            [st |-> "Again", ins |-> [ins EXCEPT !.in = <<b, a>>], id |-> 0, pool |-> pl]
       [] ins.op = "ADD" /\ IsLit(b, 0) -> New(a)
       [] ins.op \in {"MUL", "DIV", "UDIV"} /\ IsLit(b, 1) -> New(a)
       [] ins.op = "MUL" /\ IsLit(b, 0) -> Done(KINT(ins.ty, 0), pl)
       [] ins.op = "MOV" -> New(a)
       [] OTHER -> Done(ins, pl)

\* Seeded fault: the swap drops its `!m!(_ const)` test, so a constant moved
\* to the right is swapped back whenever its id is the smaller one.
foldSwapLoose(ins, pl) ==
  LET a == ins.in[1]
      b == ins.in[2]
      Done(x, p) == [st |-> "Done", ins |-> x, id |-> 0, pool |-> p]
      New(id)    == [st |-> "New", ins |-> ins, id |-> id, pool |-> pl]
  IN CASE ins.op \in BinOps /\ IsConstId(a) /\ IsConstId(b) -> foldconst(ins, pl)
       [] ins.op \in {"ADD", "MUL"} /\ (IsConstId(a) \/ a > b) ->
            [st |-> "Again", ins |-> [ins EXCEPT !.in = <<b, a>>], id |-> 0, pool |-> pl]
       [] ins.op = "ADD" /\ IsLit(b, 0) -> New(a)
       [] ins.op \in {"MUL", "DIV", "UDIV"} /\ IsLit(b, 1) -> New(a)
       [] ins.op = "MUL" /\ IsLit(b, 0) -> Done(KINT(ins.ty, 0), pl)
       [] ins.op = "MOV" -> New(a)
       [] OTHER -> Done(ins, pl)

fold(ins, pl) ==
  LET a == ins.in[1]
      b == ins.in[2]
      Done(x, p) == [st |-> "Done", ins |-> x, id |-> 0, pool |-> p]
      New(id)    == [st |-> "New", ins |-> ins, id |-> id, pool |-> pl]
  IN CASE ins.op \in BinOps /\ IsConstId(a) /\ IsConstId(b) -> foldconst(ins, pl)
       [] ins.op \in {"ADD", "MUL"} /\ (IsConstId(a) \/ (a > b /\ ~IsConstId(b))) ->
            [st |-> "Again", ins |-> [ins EXCEPT !.in = <<b, a>>], id |-> 0, pool |-> pl]
       [] ins.op = "ADD" /\ IsLit(b, 0) -> New(a)
       [] ins.op \in {"MUL", "DIV", "UDIV"} /\ IsLit(b, 1) -> New(a)
       [] ins.op = "MUL" /\ IsLit(b, 0) -> Done(KINT(ins.ty, 0), pl)
       [] ins.op = "MOV" -> New(a)
       [] OTHER -> Done(ins, pl)

\* The loop in visit(): fold again while the folder answers Again.
RECURSIVE foldloop(_, _)
foldloop(ins, pl) ==
  LET s == fold(ins, pl) IN IF s.st = "Again" THEN foldloop(s.ins, pl) ELSE s

(***************************************************************************)
(* Emitting a Done instruction: CSE lookup or plain push.                  *)
(***************************************************************************)
CseHit(ins) == {i \in cse_map : code[i] = ins}
EmitId(ins) ==
  IF is_cse(ins.op) /\ CseHit(ins) # {} THEN CHOOSE i \in CseHit(ins) : TRUE
  ELSE Len(code) + 1
\* Seeded fault: only the first control successor is enqueued.
EmitFirstCtl(ins) ==
  /\ code' = IF EmitId(ins) = Len(code) + 1 THEN Append(code, ins) ELSE code
  /\ cse_map' = IF is_cse(ins.op) THEN cse_map \cup {EmitId(ins)} ELSE cse_map
  /\ next' = IF is_control(ins.op) /\ Len(ins.ctl) > 1 THEN Append(next, ins.ctl[1])
             ELSE IF is_control(ins.op) THEN next \o ins.ctl ELSE next
Emit(ins) ==
  /\ code' = IF EmitId(ins) = Len(code) + 1 THEN Append(code, ins) ELSE code
  /\ cse_map' = IF is_cse(ins.op) THEN cse_map \cup {EmitId(ins)} ELSE cse_map
  /\ next' = IF is_control(ins.op) THEN next \o ins.ctl ELSE next

(***************************************************************************)
(* Actions.                                                                *)
(***************************************************************************)
Frame(id) == [id |-> id, ins |-> funcs[fid].code[id], k |-> 1]
Top == stack[Len(stack)]
\* *input = visit(...): the operand slot k of a frame receives a new id.
Return(fr, new) == [fr EXCEPT !.ins.in[fr.k] = new, !.k = fr.k + 1]

\* Seeded fault: old_new is resized without clear(), keeping stale entries.
RunBeginKeepMap(f) ==
  /\ pc = "idle" /\ next = <<>> /\ fid' = f
  /\ old_new' = [i \in Ids(funcs[f].code) |-> IF i <= Len(old_new) THEN old_new[i] ELSE Absent]
  /\ cse_map' = {} /\ code' = <<>> /\ next' = <<funcs[f].entry>> /\ pc' = "drain"
  /\ UNCHANGED <<funcs, stack, pool>>

\* Seeded fault: the CSE table is not cleared between runs.
RunBeginKeepCse(f) ==
  /\ pc = "idle" /\ next = <<>> /\ fid' = f
  /\ old_new' = [i \in Ids(funcs[f].code) |-> Absent]
  /\ code' = <<>> /\ next' = <<funcs[f].entry>> /\ pc' = "drain"
  /\ UNCHANGED <<funcs, stack, pool, cse_map>>

RunBegin(f) ==
  /\ pc = "idle"
  /\ next = <<>>                         \* debug_assert!(next.is_empty())
  /\ fid' = f
  /\ old_new' = [i \in Ids(funcs[f].code) |-> Absent]
  /\ cse_map' = {}
  /\ code' = <<>>
  /\ next' = <<funcs[f].entry>>
  /\ pc' = "drain"
  /\ UNCHANGED <<funcs, stack, pool>>

\* Seeded fault: an id already visited is left at the head of the queue.
DequeuePeek ==
  /\ pc = "drain" /\ stack = <<>> /\ next # <<>>
  /\ next' = IF old_new[Head(next)] = Absent THEN Tail(next) ELSE next
  /\ stack' = IF old_new[Head(next)] = Absent THEN <<Frame(Head(next))>> ELSE <<>>
  /\ UNCHANGED <<funcs, fid, old_new, cse_map, code, pool, pc>>

Dequeue ==
  /\ pc = "drain" /\ stack = <<>> /\ next # <<>>
  /\ next' = Tail(next)
  /\ stack' = IF old_new[Head(next)] = Absent THEN <<Frame(Head(next))>> ELSE <<>>
  /\ UNCHANGED <<funcs, fid, old_new, cse_map, code, pool, pc>>

\* An operand already visited: substitute its new id.
VisitInput ==
  /\ pc = "drain" /\ stack # <<>>
  /\ Top.k <= Len(Top.ins.in)
  /\ old_new[Top.ins.in[Top.k]] # Absent
  /\ stack' = [stack EXCEPT ![Len(stack)] = Return(Top, old_new[Top.ins.in[Top.k]])]
  /\ UNCHANGED <<funcs, fid, old_new, next, cse_map, code, pool, pc>>

\* An operand not yet visited: recurse into it.
VisitCall ==
  /\ pc = "drain" /\ stack # <<>>
  /\ Top.k <= Len(Top.ins.in)
  /\ old_new[Top.ins.in[Top.k]] = Absent
  /\ stack' = Append(stack, Frame(Top.ins.in[Top.k]))
  /\ UNCHANGED <<funcs, fid, old_new, next, cse_map, code, pool, pc>>

\* All operands rewritten: fold, emit, record old_new and return the new id.
VisitFold ==
  /\ pc = "drain" /\ stack # <<>>
  /\ Top.k > Len(Top.ins.in)
  /\ LET s   == foldloop(Top.ins, pool)
         new == IF s.st = "New" THEN s.id ELSE EmitId(s.ins)
         ret == Front(stack)
     IN /\ s.st # "Panic"
        /\ IF s.st = "Done" THEN Emit(s.ins) ELSE UNCHANGED <<code, cse_map, next>>
        /\ pool' = s.pool
        /\ old_new' = [old_new EXCEPT ![Top.id] = new]
        /\ stack' = IF ret = <<>> THEN <<>>
                    ELSE [ret EXCEPT ![Len(ret)] = Return(@, new)]
  /\ UNCHANGED <<funcs, fid, pc>>

\* fold() panics (division by a folded zero, overflow in a debug build).
FoldPanic ==
  /\ pc = "drain" /\ stack # <<>>
  /\ Top.k > Len(Top.ins.in)
  /\ foldloop(Top.ins, pool).st = "Panic"
  /\ pc' = "panic"
  /\ UNCHANGED <<funcs, fid, old_new, next, cse_map, code, stack, pool>>

\* fixup() maps every control slot through old_new; the new code and entry
\* are swapped into the function (fold.code receives the old vector).
Fixup(c) == [i \in DOMAIN c |-> [c[i] EXCEPT !.ctl = [j \in DOMAIN @ |-> old_new[@[j]]]]]

RunEnd ==
  /\ pc = "drain" /\ stack = <<>> /\ next = <<>>
  /\ funcs' = [funcs EXCEPT ![fid] = [code |-> Fixup(code), entry |-> old_new[@.entry]]]
  /\ code' = funcs[fid].code
  /\ pc' = "idle"
  /\ UNCHANGED <<fid, old_new, next, cse_map, stack, pool>>

(* One step of Fold::run; FoldNext is what a driver composes with. *)
FoldStep == Dequeue \/ VisitInput \/ VisitCall \/ VisitFold \/ FoldPanic \/ RunEnd

Init ==
  /\ funcs \in InitIRs
  /\ fid = 1
  /\ old_new = <<>>
  /\ next = <<>>
  /\ cse_map = {}
  /\ code = <<>>
  /\ stack = <<>>
  /\ pool = <<>>
  /\ pc = "idle"

(* The pass run any number of times on any function (FuncPass::run). *)
Next == (\E f \in DOMAIN funcs : RunBegin(f)) \/ FoldStep

Spec == Init /\ [][Next]_vars /\ WF_vars(FoldStep)

(***************************************************************************)
(* Properties.                                                             *)
(***************************************************************************)
Frames == [id : Nat, ins : [op : Opcodes, ty : IntTypes \cup FloatTypes \cup {VOID}, in : Seq(Nat),
                            ctl : Seq(Nat), imm : Int], k : Nat]
TypeOK ==
  /\ pc \in {"idle", "drain", "panic"}
  /\ fid \in DOMAIN funcs
  /\ next \in Seq(Ids(funcs[fid].code)) /\ stack \in Seq(Frames) /\ pool \in Seq(Int)
  /\ pc = "drain" => /\ old_new \in [Ids(funcs[fid].code) -> {Absent} \cup Ids(code)]
                    /\ cse_map \subseteq Ids(code)

(* While Fold::run drains the queue, the CSE table of visit() indexes      *)
(* exactly the is_cse instructions of the new code, and no two of them are *)
(* equal: the hash table cleared in Fold::run never holds an id of an      *)
(* earlier run, and every emitted cse instruction went through it.         *)
CseTableExact ==
  pc = "drain" =>
    /\ cse_map = {i \in Ids(code) : is_cse(code[i].op)}
    /\ \A i, j \in cse_map : code[i] = code[j] => i = j

(* When the queue is empty, every control slot of the new code and the     *)
(* entry are mapped in old_new, so the unwrap() calls of fixup() and of    *)
(* the entry update in Fold::run cannot panic: every control successor a   *)
(* Done control instruction had was enqueued and visited.                  *)
FixupDefined ==
  (pc = "drain" /\ stack = <<>> /\ next = <<>>) =>
    /\ old_new[funcs[fid].entry] # Absent
    /\ \A i \in Ids(code) : \A j \in DOMAIN code[i].ctl : old_new[code[i].ctl[j]] # Absent

(* Every run of Fold::run that starts ends: the queue of control           *)
(* instructions is finite although back edges re-enqueue visited ids.     *)
RunTerminates == pc = "drain" ~> pc \in {"idle", "panic"}

(* visit() re-folds an instruction for as long as fold() answers Again.    *)
(* The commutative swap puts the operands of ADD and MUL in their final    *)
(* order at once (constant right, otherwise ascending ids), so the fold of *)
(* a swapped instruction never answers Again and the loop ends; otherwise  *)
(* visit() would spin inside a single call.                                *)
SwapSettles ==
  (pc = "drain" /\ stack # <<>> /\ Top.k > Len(Top.ins.in)) =>
    LET s == fold(Top.ins, pool) IN s.st = "Again" => fold(s.ins, pool).st # "Again"

(* The fold pass implements its contract (FoldContract): each installed    *)
(* function is well-formed, MOV-free, CSE-unique, no larger, and computes  *)
(* what the old one did wherever that did not trap.                        *)
Contract == INSTANCE FoldContract
ImplementsContract == Contract!Spec

(* Specification section 4: the pass cannot fail and integer overflow in *)
(* folding wraps; only a folded zero divisor may end it (section 9).  So   *)
(* when Fold::run panics, the instruction being folded is a division whose *)
(* folded divisor is zero.                                                 *)
PanicsOnlyOnZeroDivisor ==
  pc = "panic" =>
    /\ Top.ins.op \in {"DIV", "UDIV"}
    /\ kintvalue(code[Top.ins.in[2]], pool) = 0

(* Specification section 4.1 (ii): the installed code holds no instruction *)
(* unreachable from the entry.                                             *)
NoDeadCode ==
  [][pc = "drain" /\ pc' = "idle" => Reachable(funcs'[fid]) = Ids(funcs'[fid].code)]_vars
=============================================================================
