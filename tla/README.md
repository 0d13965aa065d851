# TLA+ models of the fhk5 optimizer core

These modules model the optimizer core of fhk5 for the TLC model checker.
That core is the fold pass of `src/src/opt_fold.rs` and the fixpoint driver and
flag parser of `src/src/optimize.rs`. They also model the per-language emit
state `LangState` of `src/src/lang.rs`. `PROJECT.json` lists the components, the
runs, the seeded faults (mutants) and the source lines each definition models.
It also lists the findings and the hazards of the code.

## The system and how its parts interact

* **Driver** (`Optimize::run`, `optimize`, `irsize`).
  * It measures the IR size: the code lengths plus 37 per function.
  * Each iteration runs the enabled passes on every function in ascending
    order. FOLD is the only pass in the sources.
  * It measures again and stops when the size is unchanged, or after
    `MAX_ITER` = 100 iterations.
* **Fold pass** (`Fold::run`, `visit`, `fold`, `fixup`). It rewrites one function
  into a fresh code vector, in this order:
  1. It clears its scratch: `old_new`, `cse_map`, `code` and `next`.
  2. It queues the entry.
  3. For each queued control id it calls `visit`. `visit` recurses into the
     operands, then runs `fold` until `fold` stops answering `Again`.
  4. A `Done` result goes through the CSE hash table, or is pushed. A control
     result queues its successors.
  5. `fixup` maps the control slots through `old_new`. The entry is mapped the
     same way, and the new code is swapped into the function.

  Constants wider than an i32 immediate are interned in the pool shared by
  every function (`newkint`, `kintvalue`).
* **Flag parsing** (`parse_optflags`). It turns the flag string into the set of
  enabled passes.
* **LangState**. It holds one payload per language in one packed allocation:
  * `new` calls every `begin_emit` and stores the payloads in the language set's
    iteration order.
  * `get_mut` finds a language's slot by popcount of the lower bits.
  * `finish` hands every payload to its `finish_emit` and keeps the first error.

## Modules

| Module | Models | State and actions |
|---|---|---|
| `IR` | The instruction record, opcode predicates, well-formedness, reference semantics `Eval`/`Result` (integer and F64, `EvalF`), `irsize` | No variables. `ir.rs` is not in the sources, so the instruction layer is modelled from the specification (marked `spec_modelled` in the map). |
| `Float` | IEEE-754 binary64 values | No variables. A finite value is an exact rational with the sign of zero kept; the others are ±infinity and NaN. `FAdd`, `FSub`, `FMul`, `FDiv` and `FPow` (the special cases of C `pow`) compute on them. The pool holds a float as an integer code (`Enc`/`Dec`), the counterpart of the 8 bytes `to_ne_bytes` interns. A value past the code's bound, or a `pow` with a non-integral exponent, is the absorbing `Opaque`. Rounding is left out: folding and the program evaluate the same operation on the same operands, so exact values tell apart what rounded ones would. |
| `Fold` | `opt_fold.rs` | Variables `funcs`, `fid`, `old_new`, `next`, `cse_map`, `code`, `pool`, `pc`, plus `stack`, the frames of `visit`'s recursion (old id, instruction with operands rewritten so far, next operand slot). See the action list below. |
| `FoldContract` | What one fold promises (specification section 4) | `Rewrite(f)` replaces a function by any code that is well-formed, free of MOV and of duplicate CSE instructions, no longer, and that computes the same results wherever the old code did not trap. The pool only grows. |
| `MCFold` | The inputs | Every straight-line function of `MaxData` data instructions over small constant, parameter, operation and operand sets. Every two-instruction branching function. Scenarios S1–S5 of the specification. The MIN / -1 scenario. |
| `Optimize` | `optimize.rs` driver | `Start` (first `irsize`), `PassFold` (`Fold::run(cur)`), `PassSkip` (FOLD not in flags), `Measure` (size test, `size = newsize`, cap), composed with `Fold`'s steps. |
| `MCOptimize` | The inputs | `MCFold`'s functions, and every pair of scenarios as a two-function IR. |
| `OptFlags` | `parse_optflags` | `Scan` is one byte of the loop. `Complement` is the leading-`-` test. |
| `LangState` | `lang.rs` 123-181 | `NewEmpty`, `NewAlloc`, `BeginEmit`, `BeginEmitFail`, `NewDone`, `GetMut`, `GetMutAbsent` (the assert), `FinishBegin`, `FinishEmit`, `FinishDone`. |
| `LangTable` | What `LangState` promises (specification section 3) | A table from languages to payloads: `Create`, `CreateFail`, `Mutate`, `MutateAbsent`, `Finish` (all payloads handed over in one step). No slots, no loops. |

`Fold`'s actions:

* `RunBegin`: the start of `Fold::run`.
* `Dequeue`: `next.pop_front()`.
* `VisitInput`: an operand already in `old_new`.
* `VisitCall`: the recursive `visit` call.
* `VisitFold`: the fold loop, emission, the `old_new` update and the return.
* `FoldPanic`: Rust's division panics, debug overflow, or integer POW reaching
  `unreachable!()`.
* `RunEnd`: `fixup`, the entry update and the swap, as one step, because that is
  what the code does after the loop.

Modelling choices:

* Instruction ids are sequence indices. `Absent` (0) is `IndexOption::None`.
* Integer widths are constants, scaled down but kept in order:
  * `WordBits` stands for i64;
  * `ImmBits` for the i32 immediate;
  * `TypeBits[ty]` for a type's run-time width.
* Arithmetic wraps with `Wrap`. `DebugBuild` chooses whether i64 overflow panics.
* The F64 arm of `fold` is `foldconst`: `kfpvalue` reads both operands as
  `Float` values, `foldfparith` computes, and `newkfp` emits `KINT` when the
  result equals its i32 conversion, else interns a `KFP64`. `kintvalue` reads a
  `KFP64` with Rust's saturating `as i64` (`FToI`).

## Runs

| Run | Expect | What it shows |
|---|---|---|
| `fold` | pass | Fold is run any number of times on every input. See below. |
| `driver` | pass | See below. |
| `langstate` | pass | See below. |
| `optflags` | pass | `ParsesAsDescribed`: on every string of up to 3 bytes over `f g l a - x`, the result is the set the specification's flag language describes. That language is written from the specification's letter table (`SpecFlag`), not from the code's match arms. |
| `fold_dead_code` | violation | `NoDeadCode`: S1 folds to `KINT 2; KINT 3; KINT 5; RET`. The operands emitted before the fold stay dead, against specification 4.1 (ii). |
| `fold_narrow` | violation | `ImplementsContract`: I8 `UDIV(-2, 2)` folds at 64 bits to 2^63-1, which is -1 as I8. At run time the result is 127. |
| `fold_min_div` | violation | `PanicsOnlyOnZeroDivisor`: folding MIN / -1 panics in a release build. The specification says folding overflow wraps. |
| `fold_float` | pass | `ImplementsContract` on every straight-line F64 function of three data instructions over SUB, DIV and POW and constants {0, 1, 2, 3}, and on the F64 scenarios (S6's `POW 2.0^4` → `KINT 16` and `POW 2.0^10` → `KFP64 1024`, which the `ImmBits` = 6 immediate cannot hold; an interned 1/3 folded again). The reference semantics is IEEE-754 (`EvalF`). |
| `fold_float_signed_zero` | violation | `ImplementsContract`: F64 `DIV(0, -1)` is -0.0. `newkfp`'s test `value == (value as i32) as f64` holds for it, so it becomes `KINT 0`, which is +0.0. |
| `fold_int_pow` | violation | `PanicsOnlyOnZeroDivisor`: `fold`'s constant arm accepts POW, but `foldintarith` has no POW arm, so an integer POW of two constants reaches `unreachable!()`. |
| `fold_debug_overflow` | violation | `PanicsOnlyOnZeroDivisor`: in a debug build (`DebugBuild`, 8-bit word) 30*30 overflows and panics. The specification says folding overflow wraps. |
| `driver_stop` | violation | `ConvergedIsFixpoint`: with one worker TLC reports `KINT -2; ADD v1 v1; RET` becoming `KINT -2; KINT -4; RET`; with two it may report the same mechanism on `MUL v1 v1` → `KINT 4`. The size is the same, so the driver stops on IR that a further iteration would change. |

The `fold` run checks:

* `CseTableExact`: while the queue drains, the CSE table indexes exactly the CSE
  instructions of the new code, all distinct.
* `FixupDefined`: when the queue is empty, every control slot and the entry are
  mapped, so the `unwrap`s cannot panic.
* `SwapSettles`: the fold of an instruction that the commutative swap has just
  reordered never answers `Again` again, so `visit`'s loop ends. TLC finds it
  violated when the swap loses its `!m!(_ const)` test (`KINT 7; PARAM; ADD`
  would swap forever).
* `RunTerminates`: every run ends: the control queue drains although back
  edges re-enqueue visited ids.
* `ImplementsContract`: every installed function satisfies `FoldContract`. The
  contract module is instantiated with the refinement mapping `funcs`/`pool`,
  and its `Spec` is checked as a property.

The `driver` run checks:

* `ConvergesWithinThree`: with FOLD on or off, the driver leaves its loop by the
  size test, never by the cap, and within three iterations:
  1. The first fold of every function leaves nothing to fold except the
     operands it emitted before folding their user.
  2. The second fold drops those operands.
  3. The third iteration measures the same size.

  TLC finds a bound of two violated: S1 needs the third iteration.
* `PreservesResults`: at the end, every function returns what the original did on
  every parameter assignment on which that did not trap.

The `langstate` run checks, for every set of four languages and two mutations
per language:

* `SlotLayout`: `get_mut`'s slot is computed as the code computes it. The code
  takes the EnumSet's bit pattern (`AsU64`), masks it with `(1 << lang) - 1`
  (Bitwise `&`), and counts the ones (`CountOnes`). The property says this
  slot is in bounds and holds that language's
  payload.
* `LeakOnlyOnFailure`: `LangState` has no `Drop`. When the lifecycle ends, no
  payload is left unfinished after `finish`. After `new` fails, exactly the
  payloads of the languages before the failing one are leaked (the documented
  S8 leak, and nothing else). After `get_mut`'s assert, all of them are.
* `LangContract`: `LangState` refines `LangTable`. The refinement mapping is
  given with `INSTANCE LangTable WITH`:
  * the abstract table is the slot `get_mut` computes for each present language;
  * the building and finishing loops map to stuttering steps until their last
    turn;
  * `fin`, `result` and `errs` are visible only once `finish` or `new` has
    returned.

  So `finish` hands every payload, with every mutation, to its own
  `finish_emit`, and returns the first error in iteration order. `fin` is a
  set, so a payload finished twice is not told apart from one finished once.

Every property of a passing run has a mutant in `PROJECT.json`. A mutant is a
plausible fault in the mapped definition. Each mutant makes TLC report its
property violated. Examples:

* `old_new` not cleared;
* only the first control successor enqueued;
* SUB sorted as commutative;
* `size = newsize` dropped;
* a popcount mask that includes the language's own bit;
* the last error winning;
* `finish`'s loop stopping one language short;
* `newkfp` without its exactness test (truncating every float to `KINT`).

## Bounds and why they are enough

* **`fold`: `WordBits` 12, `ImmBits` 6.** The constants `{0, 1, -2, 30}` reach
  both sides of the immediate boundary, because 30+30 and 30*30 are interned as
  KINT64. They also reach the identities x+0, x*1 and x*0, and division by zero.
* **Three data instructions.** These give every pattern of two constants feeding
  one operation, canonicalization of constant-left and out-of-order operands,
  MOV chains and CSE duplicates.
* **Branching functions.** These cover IF with forward and backward GOTO, which
  makes the queue meet visited ids.
* **Parameters.** The values `{0, 1, -1, 5}` on two parameters separate results
  that differ.
* **Violation runs.** Each uses the smallest constants that expose its finding:
  * 16-bit word with I8 and the constants -2 and 2;
  * 8-bit word, where -32*4 = MIN.
* **`driver`: `MAX_ITER` is the code's 100, and functions have three data
  instructions.** This is the same space as `fold`, so every constant operand
  chain that `fold` meets also meets the size test. Pairs of scenarios give
  two-function IRs, which let the shared pool and scratch carry over between
  functions.
* **`fold_float`: constants {0, 1, 2, 3}, SUB, DIV and POW.** These give
  0/0 (NaN), x/0 (±infinity), non-integral quotients (interned `KFP64`), 0 - x
  and negative bases, and powers of them. Parameters {0, 1, -1, 5} give -0.0,
  infinity and NaN at run time. S6 gives a power in both forms: 16 fits the 6-bit immediate and becomes `KINT`, 1024 does not and is interned as `KFP64`.
* **`langstate`: four languages.** Every subset of them is a `langs`, so every
  gap pattern in the bit mask occurs, including the gapped sets of scenario S7.
  Five languages with one mutation each also pass, in 9,809 states. Six
  languages did not finish within 20 minutes.

## Fairness

* **`Fold`.** Weak fairness on the fold steps: `Fold::run` is a plain loop with
  no waiting, so once it is entered it keeps running.
* **`Optimize`.** Weak fairness on the whole driver, which is straight-line code
  too. No liveness property is checked on it: its loops are bounded `for`
  loops over the functions and `0..MAX_ITER`, and each fold run ends by
  `RunTerminates`, so the driver's termination would say nothing more.
  What can go wrong at the cap is whether it is reached, which
  `ConvergesWithinThree` checks.
* **`LangState` and `OptFlags`.** Weak fairness on `Next`: both are plain loops.
  No liveness property is checked on them. Their loops are bounded by the
  length of the language set or of the string, so termination would say
  nothing about the code.

No run checks deadlock: a stopped state is the end of a compilation. The stop is
one of: done, a panic, `new` failing, or `finish` returning.

## Not modelled

* **F32 folding.** `fold` computes F32 constants in f64 and emits them as
  `KFP64` without rounding to f32. The float model is exact, so F32 and F64
  would coincide in it. F32 is therefore left out.
* **ADD x 0 and MUL x 0 on floats.** These rewrites ignore the type: -0.0 + 0
  is +0.0, and -1 * 0 is -0.0. TLC reports `ImplementsContract` violated when
  ADD or MUL is among `fold_float`'s operators. The rewrites are the ones the
  specification's rules prescribe, so this is a gap in the specification and
  not a fault of the code. `fold_float` therefore leaves ADD and MUL out, and
  the hazards list records them.
* **The other passes.** INLINE, SWITCH, LOOP, PHI and GOTO are not in the
  sources. The specification leaves their algorithms out of scope and gives
  them no contract beyond their call shape. `optimize()` is therefore modelled
  with the flags restricted to FOLD.
* **The `Lang` enum and its tables** (`lang.rs` 27-120). `define_langs` expands
  one list of languages into the enum, `from_name`, `name`, the `AnyLang`
  union, the accessors and the `dispatch!` arms. `from_name` and `name` are
  inverse by construction, and `from_u8` is an assert and a transmute. None of
  them changes state, and a property about them would only restate the
  expansion. `LangState`'s `Lang` constant is their discriminants 0..n-1, and
  the accessors are its `GetMut`.
* **The traits** `Language`, `FuncPass` and `Pass`. These are declarations. The
  default `finish_emit` returns `Ok(())`, which is `FinishEmit(TRUE)`.
* **The commented-out loader** (`lang.rs` 183-484). It is not compiled.
* **`visit`'s recursion depth.** The model's frame stack is unbounded. The
  native stack limit that a long operand chain can reach is beyond any instance
  TLC can enumerate.

## Plan for later work

1. Add a liveness property for `LangState`: every successful `new` is
   eventually followed by `finish`. The specification's no-destructor
   discipline requires this of callers, so it needs a caller model. The caller
   is not in the sources.
2. If the other passes enter the sources, model them and compose them into
   `Optimize`. Then `ConvergesWithinThree` becomes a question about the whole
   pass order, not only FOLD.
