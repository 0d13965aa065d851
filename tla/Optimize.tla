------------------------------ MODULE Optimize ------------------------------
(***************************************************************************)
(* The driver of optimize.rs: Optimize::run measures irsize, then runs     *)
(* optimize() -- FOLD on each function in ascending order -- and measures  *)
(* again, until the size is unchanged or MAX_ITER iterations have run.     *)
(* The fold pass is the Fold module; each Fold::run is RunBegin followed   *)
(* by Fold's steps until it is idle again.  The passes INLINE, SWITCH,     *)
(* LOOP, PHI and GOTO are not part of the sources and are not run.         *)
(***************************************************************************)
EXTENDS Fold

CONSTANTS
  MAX_ITER,    \* optimize.rs:27
  FlagSets     \* the values ocx.flags may have, restricted to the modelled pass

ASSUME MAX_ITER \in Nat \ {0} /\ FlagSets \subseteq SUBSET {"FOLD"}

VARIABLES
  flags,       \* ocx.flags
  dpc,         \* "start", "pass" (inside optimize()), "done"
  iter,        \* i of the for loop over 0..MAX_ITER
  size,        \* the irsize of the previous iteration
  cur,         \* the function optimize() is at
  prev,        \* history: funcs when the current iteration began
  orig,        \* history: funcs as the front-end handed them over
  conv         \* history: the loop was left by the size == newsize break

dvars == <<flags, dpc, iter, size, cur, prev, orig, conv>>
ovars == <<vars, dvars>>

Start ==
  /\ dpc = "start"
  /\ size' = irsize(funcs)
  /\ iter' = 0 /\ cur' = 1 /\ prev' = funcs
  /\ dpc' = "pass"
  /\ UNCHANGED <<vars, flags, orig, conv>>

\* for fid in funcs: if FOLD, Fold::run(fid).
PassFold ==
  /\ dpc = "pass" /\ pc = "idle" /\ cur <= Len(funcs)
  /\ "FOLD" \in flags
  /\ RunBegin(cur)
  /\ cur' = cur + 1
  /\ UNCHANGED <<flags, dpc, iter, size, prev, orig, conv>>

PassSkip ==
  /\ dpc = "pass" /\ pc = "idle" /\ cur <= Len(funcs)
  /\ "FOLD" \notin flags
  /\ cur' = cur + 1
  /\ UNCHANGED <<vars, flags, dpc, iter, size, prev, orig, conv>>

\* Seeded fault: `size = newsize` is dropped from the else branch.
MeasureStale ==
  /\ dpc = "pass" /\ pc = "idle" /\ cur > Len(funcs)
  /\ conv' = (irsize(funcs) = size)
  /\ dpc' = IF conv' \/ iter + 1 = MAX_ITER THEN "done" ELSE "pass"
  /\ IF dpc' = "done" THEN UNCHANGED <<cur, prev>> ELSE cur' = 1 /\ prev' = funcs
  /\ iter' = iter + 1
  /\ UNCHANGED <<vars, flags, orig, size>>

\* After optimize(): newsize = irsize; break if it equals size, else
\* size = newsize; the for loop ends after MAX_ITER iterations.
Measure ==
  /\ dpc = "pass" /\ pc = "idle" /\ cur > Len(funcs)
  /\ conv' = (irsize(funcs) = size)
  /\ size' = irsize(funcs)
  /\ dpc' = IF conv' \/ iter + 1 = MAX_ITER THEN "done" ELSE "pass"
  /\ IF dpc' = "done" THEN UNCHANGED <<cur, prev>> ELSE cur' = 1 /\ prev' = funcs
  /\ iter' = iter + 1
  /\ UNCHANGED <<vars, flags, orig>>

OInit == Init /\ flags \in FlagSets /\ dpc = "start" /\ iter = 0 /\ size = 0 /\ cur = 1
        /\ prev = funcs /\ orig = funcs /\ conv = FALSE

ONext ==
  \/ Start \/ PassFold \/ PassSkip \/ Measure
  \/ (FoldStep /\ UNCHANGED dvars)

OSpec == OInit /\ [][ONext]_ovars /\ WF_ovars(ONext)

(***************************************************************************)
(* Properties.                                                             *)
(***************************************************************************)
(* Specification 8.5 / 8.7: when the driver stops on an unchanged irsize,  *)
(* the last iteration changed no function, so the IR is a fixpoint of the  *)
(* enabled passes and running further iterations would be a no-op.         *)
ConvergedIsFixpoint ==
  (dpc = "done" /\ conv) => funcs = prev

(* With FOLD alone (or nothing) enabled, Optimize::run leaves its loop by  *)
(* the size == newsize break within three iterations, far below MAX_ITER:  *)
(* one fold of every function leaves nothing to fold but the operands it   *)
(* emitted before folding their user, the second fold drops those, and     *)
(* the third measures the same size.  A driver that measured against a     *)
(* stale size, or a fold whose output another fold still shrinks, needs   *)
(* more iterations or runs into the cap.                                   *)
ConvergesWithinThree == dpc = "done" => conv /\ iter <= 3

(* End to end: when Optimize::run returns, every function returns what    *)
(* the front-end's did on every parameter assignment on which that did not *)
(* trap, after any number of Fold runs over all functions sharing one      *)
(* scratch and one constant pool.                                          *)
PreservesResults ==
  dpc = "done" =>
    \A f \in DOMAIN funcs : \A p \in [ParamIdx -> ParamVals] :
      Result(orig[f], <<>>, p) # TRAP => Result(funcs[f], pool, p) = Result(orig[f], <<>>, p)

=============================================================================
