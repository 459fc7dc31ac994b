--------------------------- MODULE ParallelLevel ---------------------------
(***************************************************************************)
(* What a parallel level of an ExecutionChain promises to the level that   *)
(* reads its stream, for one upstream state: the states each task yields   *)
(* reach the reader in the task's own order and none twice; a failure of   *)
(* a task ends the stream with an error; a clean end means that nothing    *)
(* was lost, unless the caller's context was cancelled; and no task does   *)
(* anything more once the stream function has returned.                    *)
(*                                                                         *)
(* Goroutines, channel, semaphore and errgroup are hidden.  MergeUnordered *)
(* and CollectParallel implement this specification.                       *)
(***************************************************************************)
EXTENDS Naturals, Sequences

CONSTANT Tasks        \* the tasks of the level

VARIABLES
  status,     \* where the stream is, see Status
  made,       \* made[t]: how many states task t has yielded so far
  got,        \* got[t]: the states of t the reader received, by number
  bad,        \* the tasks that failed fatally
  cancelled   \* whether the caller's context is done

vars == <<status, made, got, bad, cancelled>>

Running  == {"open", "stopping"}
Returned == {"ok", "failed", "stopped"}
Status   == Running \cup Returned

TypeOK ==
  /\ status \in Status
  /\ made \in [Tasks -> Nat]
  /\ got \in [Tasks -> Seq(Nat)]
  /\ bad \in SUBSET Tasks
  /\ cancelled \in BOOLEAN

Init ==
  /\ status = "open"
  /\ made = [t \in Tasks |-> 0]
  /\ got = [t \in Tasks |-> <<>>]
  /\ bad = {}
  /\ cancelled \in BOOLEAN

----------------------------------------------------------------------------
(* The tasks and the caller's context: the level's environment. *)

\* A task yields its next state.
Make(t) ==
  /\ status \in Running
  /\ made' = [made EXCEPT ![t] = @ + 1]
  /\ UNCHANGED <<status, got, bad, cancelled>>

\* A task fails, and its failure is fatal.
Break(t) ==
  /\ status \in Running
  /\ bad' = bad \cup {t}
  /\ UNCHANGED <<status, made, got, cancelled>>

Cancel ==
  /\ cancelled' = TRUE
  /\ UNCHANGED <<status, made, got, bad>>

----------------------------------------------------------------------------
(* The stream. *)

\* The reader receives the next state of t, in t's own order.
Yield(t) ==
  /\ status = "open"
  /\ Len(got[t]) < made[t]
  /\ got' = [got EXCEPT ![t] = Append(@, Len(@) + 1)]
  /\ UNCHANGED <<status, made, bad, cancelled>>

\* The reader breaks out of its loop; only a yield asks it.
Stop ==
  /\ status = "open"
  /\ \E t \in Tasks : got[t] # <<>>
  /\ status' = "stopping"
  /\ UNCHANGED <<made, got, bad, cancelled>>

\* The stream function returns.
ReturnStopped ==
  /\ status = "stopping"
  /\ status' = "stopped"
  /\ UNCHANGED <<made, got, bad, cancelled>>

ReturnOk ==
  /\ status = "open"
  /\ bad = {}
  /\ cancelled \/ \A t \in Tasks : Len(got[t]) = made[t]
  /\ status' = "ok"
  /\ UNCHANGED <<made, got, bad, cancelled>>

ReturnFailed ==
  /\ status = "open"
  /\ bad # {}
  /\ status' = "failed"
  /\ UNCHANGED <<made, got, bad, cancelled>>

Next ==
  \/ \E t \in Tasks : Make(t) \/ Break(t) \/ Yield(t)
  \/ Cancel
  \/ Stop
  \/ ReturnStopped
  \/ ReturnOk
  \/ ReturnFailed

Spec == Init /\ [][Next]_vars
=============================================================================
