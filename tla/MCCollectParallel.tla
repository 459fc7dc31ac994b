------------------------- MODULE MCCollectParallel -------------------------
(***************************************************************************)
(* The same three tasks on two slots as MCMergeUnordered: a fatal          *)
(* SimpleTask, a fatal and a non-fatal MultiValuedTask, which can leave    *)
(* one, up to two and up to three states behind.                           *)
(***************************************************************************)
EXTENDS CollectParallel

MCSimple == {1}
MCFatal  == {1, 2}
=============================================================================
