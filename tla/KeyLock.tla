------------------------------ MODULE KeyLock ------------------------------
(***************************************************************************)
(* What the file package asks of a Locker (src/file/locker.go): for every  *)
(* key, at any time, either one writer or any number of readers.  How the  *)
(* lock of a key comes and goes, and who waits for whom, is hidden.        *)
(***************************************************************************)
CONSTANTS Procs, Keys

VARIABLES
  phase,   \* phase[p]: idle, waiting or holding
  key,     \* key[p]: the key p waits for or holds; the last one when idle
  mode     \* mode[p]: "w" for Lock, "r" for RLock

vars == <<phase, key, mode>>

Phases == {"idle", "waiting", "holding"}
Modes  == {"r", "w"}

TypeOK ==
  /\ phase \in [Procs -> Phases]
  /\ key \in [Procs -> Keys]
  /\ mode \in [Procs -> Modes]

Init ==
  /\ phase = [p \in Procs |-> "idle"]
  /\ key \in [Procs -> Keys]
  /\ mode \in [Procs -> Modes]

Request(p) ==
  /\ phase[p] = "idle"
  /\ phase' = [phase EXCEPT ![p] = "waiting"]
  /\ \E k \in Keys : key' = [key EXCEPT ![p] = k]
  /\ \E m \in Modes : mode' = [mode EXCEPT ![p] = m]

Conflict(p, q) == key[p] = key[q] /\ (mode[p] = "w" \/ mode[q] = "w")

Acquire(p) ==
  /\ phase[p] = "waiting"
  /\ \A q \in Procs \ {p} : phase[q] = "holding" => ~Conflict(p, q)
  /\ phase' = [phase EXCEPT ![p] = "holding"]
  /\ UNCHANGED <<key, mode>>

Release(p) ==
  /\ phase[p] = "holding"
  /\ phase' = [phase EXCEPT ![p] = "idle"]
  /\ UNCHANGED <<key, mode>>

Next == \E p \in Procs : Request(p) \/ Acquire(p) \/ Release(p)

Spec == Init /\ [][Next]_vars

----------------------------------------------------------------------------
\* Nobody holds a key together with a writer of it.
MutualExclusion ==
  \A p, q \in Procs :
    p # q /\ phase[p] = "holding" /\ phase[q] = "holding" => ~Conflict(p, q)
=============================================================================
