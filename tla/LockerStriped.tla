--------------------------- MODULE LockerStriped ---------------------------
(***************************************************************************)
(* The striped locker (src/file/locker_striped.go): a fixed array of       *)
(* sync.RWMutexes, and a hash that gives every key one of them.  Keys that *)
(* share a slot share its lock, so more is excluded than a Locker promises *)
(* to exclude, and a goroutine waits for holders of other keys.            *)
(*                                                                         *)
(* sync.RWMutex is external: see LockerPerFile.  The hash (fnv) is any     *)
(* function from keys to slots.                                            *)
(***************************************************************************)
CONSTANTS Procs, Keys, Slots, None

\* There are keys to lock, and no goroutine is None.
ASSUME StripedAssumption == Keys # {} /\ None \notin Procs

VARIABLES
  slot,       \* slot[k]: the slot of k, fixed by the hash
  lockPc,     \* lockPc[p]: where p is
  lockKey,    \* lockKey[p]: the key of p's call
  lockMode,   \* lockMode[p]: "w" for Lock/Unlock, "r" for RLock/RUnlock
  writer,     \* writer[s]: who has announced to write, or writes, or None
  readers     \* readers[s]: who has the read lock

stripedVars == <<slot, lockPc, lockKey, lockMode, writer, readers>>

StripedInit ==
  /\ slot \in [Keys -> Slots]
  /\ lockPc = [p \in Procs |-> "idle"]
  /\ lockKey = [p \in Procs |-> CHOOSE k \in Keys : TRUE]   \* no call yet
  /\ lockMode = [p \in Procs |-> "r"]
  /\ writer = [s \in Slots |-> None]
  /\ readers = [s \in Slots |-> {}]

Goto(p, place) == lockPc' = [lockPc EXCEPT ![p] = place]

----------------------------------------------------------------------------
(* Slips that would be easy to make in this code, one for each property the *)
(* run checks.  None is part of the specification.                          *)

OtherSlot(p) == CHOOSE s \in Slots : s # slot[lockKey[p]]

\* RLock and RUnlock hash the key otherwise than Lock and Unlock do.
SlotByMode(p) ==
  IF lockMode[p] = "w" THEN slot[lockKey[p]] ELSE OtherSlot(p)

\* RUnlock hashes the key otherwise than RLock does.
RUnlockElsewhere(p) ==
  /\ lockPc[p] = "held" /\ lockMode[p] = "r"
  /\ readers' = [readers EXCEPT ![OtherSlot(p)] = @ \ {p}]
  /\ Goto(p, "idle")
  /\ UNCHANGED <<slot, lockKey, lockMode, writer>>

----------------------------------------------------------------------------
\* ls.slot(key) of p's call.
SlotOf(p) == slot[lockKey[p]]

\* A call of Lock or RLock with some key.
CallLock(p) ==
  /\ lockPc[p] = "idle"
  /\ \E k \in Keys : lockKey' = [lockKey EXCEPT ![p] = k]
  /\ \E m \in {"r", "w"} : lockMode' = [lockMode EXCEPT ![p] = m]
  /\ Goto(p, "lock")
  /\ UNCHANGED <<slot, writer, readers>>

\* RWMutex.Lock: no other writer, and new readers will park ...
Announce(p) ==
  /\ lockPc[p] = "lock" /\ lockMode[p] = "w"
  /\ writer[SlotOf(p)] = None
  /\ writer' = [writer EXCEPT ![SlotOf(p)] = p]
  /\ Goto(p, "announced")
  /\ UNCHANGED <<slot, lockKey, lockMode, readers>>

\* ... and the readers there were have left.
WriterEnters(p) ==
  /\ lockPc[p] = "announced"
  /\ readers[SlotOf(p)] = {}
  /\ Goto(p, "held")
  /\ UNCHANGED <<slot, lockKey, lockMode, writer, readers>>

\* RWMutex.RLock parks behind a writer.
ReaderEnters(p) ==
  /\ lockPc[p] = "lock" /\ lockMode[p] = "r"
  /\ IF writer[SlotOf(p)] = None
     THEN readers' = [readers EXCEPT ![SlotOf(p)] = @ \cup {p}] /\ Goto(p, "held")
     ELSE Goto(p, "parked") /\ UNCHANGED readers
  /\ UNCHANGED <<slot, lockKey, lockMode, writer>>

ReaderWakes(p) ==
  /\ lockPc[p] = "parked"
  /\ p \in readers[SlotOf(p)]
  /\ Goto(p, "held")
  /\ UNCHANGED <<slot, lockKey, lockMode, writer, readers>>

Parked(s) == {q \in Procs : lockPc[q] = "parked" /\ SlotOf(q) = s}

\* Unlock lets the parked readers in.
Unlock(p) ==
  /\ lockPc[p] = "held" /\ lockMode[p] = "w"
  /\ writer' = [writer EXCEPT ![SlotOf(p)] = None]
  /\ readers' = [readers EXCEPT ![SlotOf(p)] = @ \cup Parked(SlotOf(p))]
  /\ Goto(p, "idle")
  /\ UNCHANGED <<slot, lockKey, lockMode>>

RUnlock(p) ==
  /\ lockPc[p] = "held" /\ lockMode[p] = "r"
  /\ readers' = [readers EXCEPT ![SlotOf(p)] = @ \ {p}]
  /\ Goto(p, "idle")
  /\ UNCHANGED <<slot, lockKey, lockMode, writer>>

Wait(p) == WriterEnters(p) \/ ReaderEnters(p) \/ ReaderWakes(p)
Release(p) == Unlock(p) \/ RUnlock(p)

StripedNext == \E p \in Procs : CallLock(p) \/ Announce(p) \/ Wait(p) \/ Release(p)

StripedSpec == StripedInit /\ [][StripedNext]_stripedVars

\* As for LockerPerFile: whoever holds a key unlocks it, and sync.RWMutex hands itself
\* over to a writer that has waited long enough.
StripedFairness ==
  \A p \in Procs : SF_stripedVars(Announce(p)) /\ WF_stripedVars(Wait(p)) /\ WF_stripedVars(Release(p))

StripedFairSpec == StripedSpec /\ StripedFairness

----------------------------------------------------------------------------
(* Properties. *)

\* Every Lock and RLock returns, although unrelated keys share locks: a slot is
\* only ever held by goroutines that wait for nothing (the file operations hold
\* one key at a time).
StripedNoStarvation == \A p \in Procs : lockPc[p] = "lock" ~> lockPc[p] = "held"

\* Per key, one writer or any number of readers, whatever the hash is.
Locker == INSTANCE KeyLock WITH
  phase <- [p \in Procs |-> IF lockPc[p] \in {"idle", "held"}
                            THEN IF lockPc[p] = "held" THEN "holding" ELSE "idle"
                            ELSE "waiting"],
  key   <- lockKey,
  mode  <- lockMode

StripedImplementsKeyLock == Locker!Spec
=============================================================================
