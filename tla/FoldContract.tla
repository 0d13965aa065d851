---------------------------- MODULE FoldContract ----------------------------
(***************************************************************************)
(* What the fold pass promises (specification section 4.1): a step         *)
(* replaces one function by another that is well-formed, holds no MOV and  *)
(* no two equal is_cse instructions, is no longer, and returns the same    *)
(* result on every parameter assignment on which the old one did not trap. *)
(* The constant pool only grows, so interned handles stay valid.           *)
(***************************************************************************)
EXTENDS IR, SequencesExt

CONSTANTS
  ParamIdx,    \* the PARAM indices functions read
  ParamVals    \* the values a parameter is given

VARIABLES funcs, pool

Params == [ParamIdx -> ParamVals]

Contract(old, new, plOld, plNew) ==
  /\ WellFormed(new)
  /\ \A i \in Ids(new.code) : new.code[i].op # "MOV"
  /\ \A i, j \in Ids(new.code) :
       is_cse(new.code[i].op) /\ new.code[i] = new.code[j] => i = j
  /\ Len(new.code) <= Len(old.code)
  /\ \A p \in Params :
       Result(old, plOld, p) # TRAP => Result(new, plNew, p) = Result(old, plOld, p)

Init == \A f \in DOMAIN funcs : WellFormed(funcs[f])

Rewrite(f) ==
  /\ funcs' = [funcs EXCEPT ![f] = funcs'[f]]
  /\ Contract(funcs[f], funcs'[f], pool, pool')
  /\ IsPrefix(pool, pool')

Intern == funcs' = funcs /\ IsPrefix(pool, pool')

Next == (\E f \in DOMAIN funcs : Rewrite(f)) \/ Intern

Spec == Init /\ [][Next]_<<funcs, pool>>
=============================================================================
