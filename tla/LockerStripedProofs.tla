------------------------ MODULE LockerStripedProofs ------------------------
(***************************************************************************)
(* Proofs, for any goroutines, keys and slots and every hash, that the     *)
(* striped locker is a reader-writer lock per key.                         *)
(*                                                                         *)
(* The invariant says who has which RWMutex (RWInv); that two goroutines   *)
(* with one key have one slot does the rest.                               *)
(***************************************************************************)
EXTENDS LockerStriped, TLAPS

LockPlaces == {"idle", "lock", "announced", "parked", "held"}

TypeOK ==
  /\ slot \in [Keys -> Slots]
  /\ lockPc \in [Procs -> LockPlaces]
  /\ lockKey \in [Procs -> Keys]
  /\ lockMode \in [Procs -> {"r", "w"}]
  /\ writer \in [Slots -> Procs \cup {None}]
  /\ readers \in [Slots -> SUBSET Procs]

RWInv ==
  \A p \in Procs :
    /\ lockPc[p] = "announced" => lockMode[p] = "w"
    /\ lockPc[p] = "parked" => lockMode[p] = "r"
    /\ \A s \in Slots :
         /\ writer[s] = p <=> /\ SlotOf(p) = s /\ lockMode[p] = "w"
                              /\ lockPc[p] \in {"announced", "held"}
         /\ p \in readers[s] => /\ SlotOf(p) = s /\ lockMode[p] = "r"
                                /\ lockPc[p] \in {"parked", "held"}
    /\ lockPc[p] = "held" /\ lockMode[p] = "r" => p \in readers[SlotOf(p)]
    /\ lockPc[p] = "held" /\ lockMode[p] = "w" => readers[SlotOf(p)] = {}

IInv == TypeOK /\ RWInv

\* Every step keeps types and mutexes.
LEMMA Step ==
  ASSUME IInv, [StripedNext]_stripedVars
  PROVE  IInv'
<1> USE StripedAssumption DEF IInv, TypeOK, RWInv, LockPlaces, SlotOf, Goto
<1>1. ASSUME NEW p \in Procs, CallLock(p) PROVE IInv'
  BY <1>1 DEF CallLock
<1>2. ASSUME NEW p \in Procs, Announce(p) PROVE IInv'
  BY <1>2 DEF Announce
<1>3. ASSUME NEW p \in Procs, WriterEnters(p) PROVE IInv'
  BY <1>3 DEF WriterEnters
<1>4. ASSUME NEW p \in Procs, ReaderEnters(p) PROVE IInv'
  BY <1>4 DEF ReaderEnters
<1>5. ASSUME NEW p \in Procs, ReaderWakes(p) PROVE IInv'
  BY <1>5 DEF ReaderWakes
<1>6. ASSUME NEW p \in Procs, Unlock(p) PROVE IInv'
  BY <1>6 DEF Unlock, Parked
<1>7. ASSUME NEW p \in Procs, RUnlock(p) PROVE IInv'
  BY <1>7 DEF RUnlock
<1>8. CASE UNCHANGED stripedVars
  BY <1>8 DEF stripedVars
<1> QED
  BY <1>1, <1>2, <1>3, <1>4, <1>5, <1>6, <1>7, <1>8 DEF StripedNext, Wait, Release

\* The first state: nobody has anything.
LEMMA InitIInv ==
  ASSUME StripedInit
  PROVE  IInv
BY StripedAssumption DEF StripedInit, IInv, TypeOK, RWInv, LockPlaces

\* Who holds a key by mode, and who a slot by RWMutex, agree: Lock, Unlock, RLock and
\* RUnlock find the same mutex (locker_striped.go:18-38).
THEOREM Invariance == StripedSpec => []IInv
<1>1. IInv /\ [StripedNext]_stripedVars => IInv'
  BY Step
<1>2. StripedInit => IInv
  BY InitIInv
<1> QED
  BY <1>1, <1>2, PTL DEF StripedSpec

\* Whoever enters does not meet anyone with the same key that it excludes.
LEMMA EntersAlone ==
  ASSUME IInv, NEW p \in Procs,
         WriterEnters(p) \/ ReaderEnters(p) \/ ReaderWakes(p),
         lockPc'[p] = "held",
         NEW q \in Procs \ {p}, lockPc[q] = "held", lockKey[p] = lockKey[q]
  PROVE  lockMode[p] = "r" /\ lockMode[q] = "r"
<1> USE StripedAssumption DEF IInv, TypeOK, RWInv, LockPlaces, SlotOf, Goto
<1>1. CASE WriterEnters(p)
  BY <1>1 DEF WriterEnters
<1>2. CASE ReaderEnters(p)
  BY <1>2 DEF ReaderEnters
<1>3. CASE ReaderWakes(p)
  BY <1>3 DEF ReaderWakes
<1> QED
  BY <1>1, <1>2, <1>3

\* Per key, one writer or any number of readers, whatever the hash
\* (locker_striped.go:18-38 for locker.go).
THEOREM Refinement == StripedSpec => StripedImplementsKeyLock
<1> DEFINE Phase == [p \in Procs |-> IF lockPc[p] \in {"idle", "held"}
                                     THEN IF lockPc[p] = "held" THEN "holding" ELSE "idle"
                                     ELSE "waiting"]
<1>1. StripedInit => Locker!Init
  BY InitIInv DEF StripedInit, IInv, TypeOK, Locker!Init, Locker!Modes
<1>2. IInv /\ [StripedNext]_stripedVars => [Locker!Next]_(Locker!vars)
  <2> SUFFICES ASSUME IInv, [StripedNext]_stripedVars PROVE [Locker!Next]_(Locker!vars)
    OBVIOUS
  <2> USE DEF IInv, TypeOK, LockPlaces, Goto, Locker!vars
  <2>1. ASSUME NEW p \in Procs, CallLock(p) PROVE Locker!Request(p)
    BY <2>1 DEF CallLock, Locker!Request, Locker!Modes
  <2>2. ASSUME NEW p \in Procs, Announce(p) PROVE UNCHANGED Locker!vars
    BY <2>2 DEF Announce
  <2>3. ASSUME NEW p \in Procs, WriterEnters(p) \/ ReaderEnters(p) \/ ReaderWakes(p)
        PROVE  [Locker!Acquire(p)]_(Locker!vars)
    <3>1. CASE lockPc'[p] = "held"
      <4>1. \A q \in Procs \ {p} : Phase[q] = "holding" => ~Locker!Conflict(p, q)
        BY <2>3, <3>1, EntersAlone DEF Locker!Conflict
      <4>2. /\ lockPc[p] \in {"announced", "lock", "parked"}
            /\ lockPc' = [lockPc EXCEPT ![p] = "held"]
        BY <2>3, <3>1 DEF WriterEnters, ReaderEnters, ReaderWakes, RWInv
      <4>3. Phase[p] = "waiting" /\ Phase' = [Phase EXCEPT ![p] = "holding"]
        BY <4>2
      <4>4. UNCHANGED <<lockKey, lockMode>>
        BY <2>3 DEF WriterEnters, ReaderEnters, ReaderWakes
      <4> QED
        BY <4>1, <4>3, <4>4 DEF Locker!Acquire
    <3>2. CASE lockPc'[p] # "held"
      BY <2>3, <3>2 DEF WriterEnters, ReaderEnters, ReaderWakes
    <3> QED
      BY <3>1, <3>2
  <2>4. ASSUME NEW p \in Procs, Unlock(p) \/ RUnlock(p) PROVE Locker!Release(p)
    BY <2>4 DEF Unlock, RUnlock, Locker!Release
  <2>5. CASE UNCHANGED stripedVars
    BY <2>5 DEF stripedVars
  <2> QED
    BY <2>1, <2>2, <2>3, <2>4, <2>5 DEF StripedNext, Wait, Release, Locker!Next
<1> QED
  BY <1>1, <1>2, Invariance, PTL DEF StripedSpec, StripedImplementsKeyLock, Locker!Spec

\* Per key, one writer or any number of readers hold the lock (locker.go): those of one key
\* have one slot, and its RWMutex has one writer or readers.
THEOREM OneWriterOrReaders == StripedSpec => []Locker!MutualExclusion
<1>1. IInv => Locker!MutualExclusion
  <2> SUFFICES ASSUME IInv, NEW p \in Procs, NEW q \in Procs, p # q,
                      lockPc[p] = "held", lockPc[q] = "held", lockKey[p] = lockKey[q]
               PROVE  lockMode[p] = "r" /\ lockMode[q] = "r"
    BY DEF Locker!MutualExclusion, Locker!Conflict
  <2>1. SlotOf(p) = SlotOf(q) /\ SlotOf(p) \in Slots
    BY DEF IInv, TypeOK, SlotOf
  <2>2. {lockMode[p], lockMode[q]} \subseteq {"r", "w"}
    BY DEF IInv, TypeOK
  <2>3. /\ lockMode[p] = "w" => writer[SlotOf(p)] = p /\ readers[SlotOf(p)] = {}
        /\ lockMode[p] = "r" => p \in readers[SlotOf(p)]
    BY <2>1 DEF IInv, RWInv
  <2>4. /\ lockMode[q] = "w" => writer[SlotOf(q)] = q /\ readers[SlotOf(q)] = {}
        /\ lockMode[q] = "r" => q \in readers[SlotOf(q)]
    BY <2>1 DEF IInv, RWInv
  <2> QED
    BY <2>1, <2>2, <2>3, <2>4
<1> QED
  BY <1>1, Invariance, PTL
=============================================================================
