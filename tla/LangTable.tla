----------------------------- MODULE LangTable -----------------------------
(***************************************************************************)
(* What LangState promises (specification section 3, "Language dispatch  *)
(* table"): a table from the languages of the program to their emit-side   *)
(* payloads.  create builds one fresh payload per language or fails;       *)
(* mutate changes the payload of a present language; finish hands every    *)
(* payload, with all its mutations, to its language's finish_emit in one   *)
(* step and returns the error of the first failing language in iteration   *)
(* order.  Packing, slot indices and the loop of finish are not visible.   *)
(***************************************************************************)
EXTENDS Integers, FiniteSetsExt

CONSTANTS Lang, MaxUses, OK

VARIABLES
  st,        \* "none", "live", "finished", "failed", "panic"
  langs,     \* the languages the table is created for
  present,   \* the languages of a live table
  table,     \* present -> payload [lang, ver]
  uses,      \* language -> mutations made
  fin,       \* language -> the payloads finish_emit received
  result,    \* the error returned, or OK
  errs       \* the languages whose finish_emit failed

tvars == <<st, langs, present, table, uses, fin, result, errs>>

Fresh(l) == [lang |-> l, ver |-> 0]

Init ==
  /\ st = "none" /\ langs \in SUBSET Lang /\ present = {}
  /\ table = [l \in {} |-> Fresh(l)] /\ uses = [l \in Lang |-> 0]
  /\ fin = [l \in Lang |-> {}] /\ result = OK /\ errs = {}

Create ==
  /\ st = "none" /\ st' = "live"
  /\ present' = langs /\ table' = [l \in langs |-> Fresh(l)]
  /\ UNCHANGED <<langs, uses, fin, result, errs>>

\* Some begin_emit failed: its language is the error.
CreateFail ==
  /\ st = "none" /\ st' = "failed"
  /\ result' \in langs
  /\ UNCHANGED <<langs, present, table, uses, fin, errs>>

Mutate(L) ==
  /\ st = "live" /\ L \in present /\ uses[L] < MaxUses
  /\ table' = [table EXCEPT ![L].ver = @ + 1]
  /\ uses' = [uses EXCEPT ![L] = @ + 1]
  /\ UNCHANGED <<st, langs, present, fin, result, errs>>

\* Using an absent language is a precondition violation.
MutateAbsent(L) ==
  /\ st = "live" /\ L \notin present /\ st' = "panic"
  /\ UNCHANGED <<langs, present, table, uses, fin, result, errs>>

Finish ==
  /\ st = "live" /\ st' = "finished"
  /\ fin' = [l \in Lang |-> IF l \in present THEN {table[l]} ELSE {}]
  /\ errs' \in SUBSET present
  /\ result' = IF errs' = {} THEN OK ELSE Min(errs')
  /\ UNCHANGED <<langs, present, table, uses>>

Next ==
  \/ Create \/ CreateFail \/ Finish
  \/ \E L \in Lang : Mutate(L) \/ MutateAbsent(L)

Spec == Init /\ [][Next]_tvars
=============================================================================
