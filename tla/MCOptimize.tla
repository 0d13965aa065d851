----------------------------- MODULE MCOptimize -----------------------------
(***************************************************************************)
(* The driver over the single-function inputs of MCFold and over every     *)
(* pair of the specification's scenarios, so that the fold scratch is      *)
(* reused from one function to the next.                                   *)
(***************************************************************************)
EXTENDS Optimize, MCFold

MCOptIRs == MCInitIRs \cup {<<f, g>> : f \in Scenarios, g \in Scenarios}
=============================================================================
