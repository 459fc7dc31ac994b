-------------------------- MODULE MCMergeUnordered --------------------------
(***************************************************************************)
(* A level of three tasks and a semaphore of two slots: a fatal SimpleTask *)
(* and a fatal and a non-fatal MultiValuedTask.  One task always queues    *)
(* while two run, and either fatal task can fail first.                    *)
(***************************************************************************)
EXTENDS MergeUnordered

MCSimple == {1}
MCFatal  == {1, 2}
=============================================================================
