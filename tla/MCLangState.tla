---------------------------- MODULE MCLangState ----------------------------
(* LangState for TLC: the constants are given in MCLangState.cfg. *)
EXTENDS LangState
=============================================================================
