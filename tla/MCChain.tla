------------------------------- MODULE MCChain -------------------------------
(***************************************************************************)
(* Every chain of up to MaxLevels levels of every kind, every terminal and *)
(* every behaviour of its tasks, within the bounds of the configuration.   *)
(***************************************************************************)
EXTENDS Chain
=============================================================================
