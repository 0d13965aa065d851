---------------------------- MODULE LangState ----------------------------
(***************************************************************************)
(* LangState of lang.rs: one emit-side payload per language present in    *)
(* the program, packed into one allocation.  `present` is the EnumSet of  *)
(* languages (a bitset over their u8 discriminants); the payload of L     *)
(* lives in slot popcount(present & ((1 << L) - 1)).  The slots are        *)
(* untagged: which variant a slot holds is known only from its position.  *)
(*                                                                         *)
(* A payload is a record: the language whose begin_emit built it and the   *)
(* number of mutations made through get_mut.  `made` and `fin` account for *)
(* the payload objects: built by begin_emit, consumed by finish_emit.      *)
(***************************************************************************)
EXTENDS Integers, FiniteSets, SequencesExt
LOCAL INSTANCE Bitwise

CONSTANTS
  Lang,        \* the language discriminants, 0..n-1 (foreach_lang!)
  MaxUses,     \* bound on get_mut mutations per language
  OK           \* compile::Result Ok(()); an error is the failing language

ASSUME Lang = 0..(Cardinality(Lang) - 1) /\ MaxUses \in Nat /\ OK \notin Lang

VARIABLES
  st,          \* "none", "building", "live", "finishing", "finished", "failed", "panic"
  langs,       \* the argument of LangState::new
  present,     \* self.present
  slots,       \* self.data: slot index -> payload, or the uninitialised NONE
  k,           \* position of the zip() loop of new / finish
  result,      \* new's error, or the accumulated result of finish
  made,        \* language -> payloads begin_emit returned
  uses,        \* language -> get_mut mutations of its payload
  fin,         \* language -> the payloads finish_emit consumed
  errs         \* history: the languages whose finish_emit failed

vars == <<st, langs, present, slots, k, result, made, uses, fin, errs>>

NONE == [lang |-> -1, ver |-> 0]   \* MaybeUninit: no language yet

\* The k-th (from 0) member of an EnumSet in iteration order.
Nth(S, i) == SetToSortSeq(S, <)[i + 1]

\* EnumSet::as_u64_truncated(): bit m is set for every discriminant m in S.
AsU64(S) == MapThenSumSet(LAMBDA m : 2^m, S)

\* u64::count_ones()
RECURSIVE CountOnes(_)
CountOnes(x) == IF x = 0 THEN 0 ELSE (x % 2) + CountOnes(x \div 2)

\* Seeded fault: the mask keeps the bit of the language itself.
SlotOfIncl(L) == CountOnes(AsU64(present) & (2^(L + 1) - 1))

\* get_mut's index: (present.as_u64_truncated() & ((1 << lang) - 1)).count_ones()
SlotOf(L) == CountOnes(AsU64(present) & (2^L - 1))

Init ==
  /\ st = "none" /\ langs \in SUBSET Lang /\ present = {}
  /\ slots = <<>> /\ k = 0 /\ result = OK
  /\ made = [l \in Lang |-> {}] /\ uses = [l \in Lang |-> 0] /\ fin = [l \in Lang |-> {}]
  /\ errs = {}

(* LangState::new: no languages gives Default; otherwise an uninit slice.  *)
NewEmpty ==
  /\ st = "none" /\ langs = {}
  /\ st' = "live"
  /\ UNCHANGED <<langs, present, slots, k, result, made, uses, fin, errs>>

\* Seeded fault: one slot more than there are languages.
NewAllocOver ==
  /\ st = "none" /\ langs # {}
  /\ slots' = [i \in 0..Cardinality(langs) |-> NONE]
  /\ k' = 0 /\ st' = "building"
  /\ UNCHANGED <<langs, present, result, made, uses, fin, errs>>

NewAlloc ==
  /\ st = "none" /\ langs # {}
  /\ slots' = [i \in 0..(Cardinality(langs) - 1) |-> NONE]
  /\ k' = 0 /\ st' = "building"
  /\ UNCHANGED <<langs, present, result, made, uses, fin, errs>>

(* One turn of the zip loop: begin_emit succeeds and its payload is written *)
(* at the slot of the zip position.                                         *)
BeginEmit ==
  /\ st = "building" /\ k < Cardinality(langs)
  /\ LET l == Nth(langs, k) IN
       /\ slots' = [slots EXCEPT ![k] = [lang |-> l, ver |-> 0]]
       /\ made' = [made EXCEPT ![l] = @ \cup {[lang |-> l, ver |-> 0]}]
  /\ k' = k + 1
  /\ UNCHANGED <<st, langs, present, result, uses, fin, errs>>

(* begin_emit fails: `?` returns the error; the Box of MaybeUninit is freed *)
(* without dropping the payloads already written.                          *)
BeginEmitFail ==
  /\ st = "building" /\ k < Cardinality(langs)
  /\ result' = Nth(langs, k)
  /\ st' = "failed"
  /\ UNCHANGED <<langs, present, slots, k, made, uses, fin, errs>>

NewDone ==
  /\ st = "building" /\ k = Cardinality(langs)
  /\ present' = langs /\ st' = "live"
  /\ UNCHANGED <<langs, slots, k, result, made, uses, fin, errs>>

(* get_mut(lang) through the generated accessor, and a mutation of what it *)
(* returns.                                                                *)
GetMut(L) ==
  /\ st = "live" /\ L \in present /\ uses[L] < MaxUses
  /\ slots' = [slots EXCEPT ![SlotOf(L)].ver = @ + 1]
  /\ uses' = [uses EXCEPT ![L] = @ + 1]
  /\ UNCHANGED <<st, langs, present, k, result, made, fin, errs>>

\* assert!(self.present.contains(lang))
GetMutAbsent(L) ==
  /\ st = "live" /\ L \notin present
  /\ st' = "panic"
  /\ UNCHANGED <<langs, present, slots, k, result, made, uses, fin, errs>>

FinishBegin ==
  /\ st = "live"
  /\ st' = "finishing" /\ k' = 0 /\ result' = OK
  /\ UNCHANGED <<langs, present, slots, made, uses, fin, errs>>

(* One turn of finish's loop: the slot is read as the zip position's       *)
(* language and finish_emit consumes it; result.and(..) keeps the first    *)
(* error, and the remaining languages are still finished.                  *)
\* Seeded fault: a later error overwrites an earlier one.
FinishEmitLast(ok) ==
  /\ st = "finishing" /\ k < Cardinality(present)
  /\ LET l == Nth(present, k) IN
       /\ fin' = [fin EXCEPT ![l] = @ \cup {slots[k]}]
       /\ result' = IF ~ok THEN l ELSE result
       /\ errs' = IF ok THEN errs ELSE errs \cup {l}
  /\ k' = k + 1
  /\ UNCHANGED <<st, langs, present, slots, made, uses>>

FinishEmit(ok) ==
  /\ st = "finishing" /\ k < Cardinality(present)
  /\ LET l == Nth(present, k) IN
       /\ fin' = [fin EXCEPT ![l] = @ \cup {slots[k]}]
       /\ result' = IF result = OK /\ ~ok THEN l ELSE result
       /\ errs' = IF ok THEN errs ELSE errs \cup {l}
  /\ k' = k + 1
  /\ UNCHANGED <<st, langs, present, slots, made, uses>>

\* Seeded fault: the loop stops one language short.
FinishDoneEarly ==
  /\ st = "finishing" /\ k = Cardinality(present) - 1
  /\ st' = "finished"
  /\ UNCHANGED <<langs, present, slots, k, result, made, uses, fin, errs>>

FinishDone ==
  /\ st = "finishing" /\ k = Cardinality(present)
  /\ st' = "finished"
  /\ UNCHANGED <<langs, present, slots, k, result, made, uses, fin, errs>>

Next ==
  \/ NewEmpty \/ NewAlloc \/ BeginEmit \/ BeginEmitFail \/ NewDone
  \/ \E L \in Lang : GetMut(L) \/ GetMutAbsent(L)
  \/ FinishBegin \/ \E ok \in BOOLEAN : FinishEmit(ok)
  \/ FinishDone

Spec == Init /\ [][Next]_vars /\ WF_vars(Next)

(***************************************************************************)
(* Properties.                                                             *)
(***************************************************************************)
Payloads == [lang : Lang \cup {-1}, ver : Nat]
TypeOK ==
  /\ st \in {"none", "building", "live", "finishing", "finished", "failed", "panic"}
  /\ langs \subseteq Lang /\ present \subseteq Lang /\ k \in Nat
  /\ \E n \in 0..Cardinality(Lang) : slots \in [0..(n - 1) -> Payloads]
  /\ result \in Lang \cup {OK} /\ errs \subseteq Lang
  /\ made \in [Lang -> SUBSET Payloads] /\ fin \in [Lang -> SUBSET Payloads]
  /\ uses \in [Lang -> 0..MaxUses]

(* The slot get_mut computes for a present language by popcount is the    *)
(* slot new() wrote that language's begin_emit payload to in zip order:    *)
(* the untagged union is always read as the variant it holds.              *)
SlotLayout ==
  st \in {"live", "finishing"} =>
    \A l \in present : SlotOf(l) \in DOMAIN slots /\ slots[SlotOf(l)].lang = l

(* LangState has no Drop: a payload begin_emit built is released only by  *)
(* its finish_emit.  When the lifecycle has ended, the payloads never     *)
(* handed to finish_emit are none after finish(); after new() failed they *)
(* are exactly those of the languages before the failing one in           *)
(* iteration order (the Box of MaybeUninit is freed without dropping      *)
(* them, and nothing else was built); after get_mut's assert they are     *)
(* all present payloads.                                                  *)
Leaked == {l \in Lang : made[l] # {} /\ fin[l] = {}}
LeakOnlyOnFailure ==
  /\ st = "finished" => Leaked = {}
  /\ st = "failed" => Leaked = {l \in langs : l < result}
  /\ st = "panic" => Leaked = present

(* LangState implements the table it stands for (LangTable): seen through *)
(* the slot get_mut computes for each present language, new() creates one  *)
(* fresh payload per language or fails with a language's error, get_mut    *)
(* changes that language's payload only, and finish() hands each payload,  *)
(* with every mutation, to its own finish_emit exactly once and returns   *)
(* the error of the first failing language in iteration order, after      *)
(* still finishing all the others.  The loops of new() and finish() are   *)
(* stuttering steps of the table until their last turn.                   *)
Table == INSTANCE LangTable WITH
  st      <- CASE st \in {"none", "building"} -> "none"
               [] st = "finishing" -> "live"
               [] OTHER -> st,
  table   <- [l \in present |-> slots[SlotOf(l)]],
  fin     <- IF st = "finished" THEN fin ELSE [l \in Lang |-> {}],
  result  <- IF st \in {"finished", "failed"} THEN result ELSE OK,
  errs    <- IF st = "finished" THEN errs ELSE {}
LangContract == Table!Spec
=============================================================================
