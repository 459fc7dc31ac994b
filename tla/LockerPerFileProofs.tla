------------------------ MODULE LockerPerFileProofs ------------------------
(***************************************************************************)
(* Proofs, for every finite set of goroutines and any keys and entries,    *)
(* that the per-file locker is a reader-writer lock per key and that its   *)
(* map neither splits nor leaks a lock.                                    *)
(*                                                                         *)
(* The inductive invariant IInv says of locker.mu that it excludes         *)
(* (MapMutex), of refCount that it counts the users of an entry (Counted), *)
(* of leMap that it agrees with what the goroutines hold (EntryInv), and   *)
(* of the RWMutexes who has them (RWInv).                                  *)
(***************************************************************************)
EXTENDS LockerPerFile, FiniteSetTheorems, TLAPS

InMap == {"lookup", "drop", "unlock", "reap"}
MapMutex == \A p \in Procs : pc[p] \in InMap <=> mapMu = p

\* Where a goroutine refers to an entry.
Owned == Using \cup {"unlock", "reap"}

Users(e) == {p \in Procs : pc[p] \in Using /\ ent[p] = e}
Counted == \A e \in Entries : refCount[e] = Cardinality(Users(e))

EntryInv ==
  /\ \A p \in Procs :
       /\ pc[p] \in Owned => ent[p] # None /\ leMap[key[p]] = ent[p]
       /\ pc[p] \notin Owned => ent[p] = None
  /\ \A j, k \in Keys : leMap[j] # None /\ leMap[j] = leMap[k] => j = k
  /\ \A k \in Keys : leMap[k] # None => \E p \in Procs : pc[p] \in Owned /\ ent[p] = leMap[k]

RWInv ==
  \A p \in Procs :
    /\ pc[p] = "announced" => mode[p] = "w"
    /\ pc[p] = "parked" => mode[p] = "r"
    /\ \A e \in Entries :
         /\ writer[e] = p <=> /\ ent[p] = e /\ mode[p] = "w"
                              /\ pc[p] \in Holding \cup {"announced"}
         /\ p \in readers[e] => /\ ent[p] = e /\ mode[p] = "r"
                                /\ pc[p] \in Holding \cup {"parked"}
    /\ pc[p] \in Holding /\ mode[p] = "r" => p \in readers[ent[p]]
    /\ pc[p] \in Holding /\ mode[p] = "w" => readers[ent[p]] = {}

IInv == TypeOK /\ MapMutex /\ Counted /\ EntryInv /\ RWInv

\* The users of an entry can be counted.
LEMMA UsersFinite ==
  ASSUME NEW e
  PROVE  IsFiniteSet(Users(e)) /\ Cardinality(Users(e)) \in Nat
<1>1. Users(e) \subseteq Procs
  BY DEF Users
<1>2. QED
  BY <1>1, LockerAssumption, FS_Subset, FS_CardinalityType

\* An entry with a user has a count above zero.
LEMMA UsersCounted ==
  ASSUME Counted, NEW e \in Entries, NEW p \in Users(e)
  PROVE  refCount[e] \in Nat \ {0}
BY UsersFinite, FS_EmptySet DEF Counted

\* One goroutine at a time is inside locker.mu.
LEMMA MutexStep ==
  ASSUME TypeOK, MapMutex, [Next]_vars
  PROVE  MapMutex'
<1> USE LockerAssumption DEF callVars, mapVars, rwVars, TypeOK, MapMutex, InMap, Places
<1>1. ASSUME NEW p \in Procs, CallLock(p) PROVE MapMutex'
  BY <1>1 DEF CallLock, Goto
<1>2. ASSUME NEW p \in Procs, EnterMap(p) PROVE MapMutex'
  BY <1>2 DEF EnterMap, Goto
<1>3. ASSUME NEW p \in Procs, Lookup(p) PROVE MapMutex'
  BY <1>3 DEF Lookup, Goto, Fresh
<1>4. ASSUME NEW p \in Procs, Announce(p) PROVE MapMutex'
  BY <1>4 DEF Announce, Goto
<1>5. ASSUME NEW p \in Procs, WriterEnters(p) PROVE MapMutex'
  BY <1>5 DEF WriterEnters, Goto
<1>6. ASSUME NEW p \in Procs, ReaderEnters(p) PROVE MapMutex'
  BY <1>6 DEF ReaderEnters, Goto
<1>7. ASSUME NEW p \in Procs, ReaderParks(p) PROVE MapMutex'
  BY <1>7 DEF ReaderParks, Goto
<1>8. ASSUME NEW p \in Procs, ReaderWakes(p) PROVE MapMutex'
  BY <1>8 DEF ReaderWakes, Goto
<1>9. ASSUME NEW p \in Procs, CallUnlock(p) PROVE MapMutex'
  BY <1>9 DEF CallUnlock, Goto
<1>10. ASSUME NEW p \in Procs, Drop(p) PROVE MapMutex'
  BY <1>10 DEF Drop, Goto
<1>11. ASSUME NEW p \in Procs, UnlockWriter(p) PROVE MapMutex'
  BY <1>11 DEF UnlockWriter, Goto, Parked
<1>12. ASSUME NEW p \in Procs, UnlockReader(p) PROVE MapMutex'
  BY <1>12 DEF UnlockReader, Goto
<1>13. ASSUME NEW p \in Procs, Reap(p) PROVE MapMutex'
  BY <1>13 DEF Reap, Goto
<1>14. CASE UNCHANGED vars
  BY <1>14 DEF vars
<1>15. QED
  BY <1>1, <1>2, <1>3, <1>4, <1>5, <1>6, <1>7, <1>8, <1>9, <1>10, <1>11, <1>12, <1>13, <1>14
  DEF Next, LockStep, UnlockStep

\* The map and the goroutines agree on the entries.
LEMMA EntriesStep ==
  ASSUME TypeOK, MapMutex, EntryInv, Counted, [Next]_vars
  PROVE  EntryInv'
<1> USE LockerAssumption DEF callVars, mapVars, rwVars, TypeOK, EntryInv, Owned, Using, Places
<1>1. ASSUME NEW p \in Procs, CallLock(p) PROVE EntryInv'
  BY <1>1 DEF CallLock, Goto
<1>2. ASSUME NEW p \in Procs, EnterMap(p) PROVE EntryInv'
  BY <1>2 DEF EnterMap, Goto
<1>3. ASSUME NEW p \in Procs, Lookup(p) PROVE EntryInv'
  BY <1>3 DEF Lookup, Goto, Fresh
<1>4. ASSUME NEW p \in Procs, Announce(p) PROVE EntryInv'
  BY <1>4 DEF Announce, Goto
<1>5. ASSUME NEW p \in Procs, WriterEnters(p) PROVE EntryInv'
  BY <1>5 DEF WriterEnters, Goto
<1>6. ASSUME NEW p \in Procs, ReaderEnters(p) PROVE EntryInv'
  BY <1>6 DEF ReaderEnters, Goto
<1>7. ASSUME NEW p \in Procs, ReaderParks(p) PROVE EntryInv'
  BY <1>7 DEF ReaderParks, Goto
<1>8. ASSUME NEW p \in Procs, ReaderWakes(p) PROVE EntryInv'
  BY <1>8 DEF ReaderWakes, Goto
<1>9. ASSUME NEW p \in Procs, CallUnlock(p) PROVE EntryInv'
  BY <1>9 DEF CallUnlock, Goto
<1>10. ASSUME NEW p \in Procs, Drop(p) PROVE EntryInv'
  BY <1>10 DEF Drop, Goto
<1>11. ASSUME NEW p \in Procs, UnlockWriter(p) PROVE EntryInv'
  BY <1>11 DEF UnlockWriter, Goto, Parked
<1>12. ASSUME NEW p \in Procs, UnlockReader(p) PROVE EntryInv'
  BY <1>12 DEF UnlockReader, Goto
<1>13. ASSUME NEW p \in Procs, Reap(p) PROVE EntryInv'
  <2>1. pc[p] = "reap" /\ mapMu = p /\ ent[p] \in Entries /\ leMap[key[p]] = ent[p]
    BY <1>13 DEF Reap, MapMutex, InMap
  <2>2. pc' = [pc EXCEPT ![p] = "idle"] /\ ent' = [ent EXCEPT ![p] = None] /\ key' = key
    BY <1>13 DEF Reap, Goto
  <2>3. \A q \in Procs \ {p} : pc[q] \notin {"unlock", "reap"}
    BY <2>1 DEF MapMutex, InMap
  <2>4. CASE refCount[ent[p]] = 0
    <3>1. Users(ent[p]) = {}
      BY <2>1, <2>4, UsersCounted
    <3>2. \A q \in Procs \ {p} : pc[q] \in Owned => ent[q] # ent[p]
      BY <2>3, <3>1 DEF Users
    <3>3. leMap' = [leMap EXCEPT ![key[p]] = None]
      BY <1>13, <2>4 DEF Reap
    <3>4. QED
      BY <2>1, <2>2, <3>2, <3>3
  <2>5. CASE refCount[ent[p]] # 0
    <3>1. PICK q \in Procs : pc[q] \in Using /\ ent[q] = ent[p]
      BY <2>1, <2>5, FS_EmptySet DEF Users, Counted
    <3>2. q # p /\ leMap' = leMap
      BY <1>13, <2>1, <2>5, <3>1 DEF Reap
    <3>3. QED
      BY <2>1, <2>2, <3>1, <3>2
  <2>6. QED
    BY <2>4, <2>5
<1>14. CASE UNCHANGED vars
  BY <1>14 DEF vars
<1>15. QED
  BY <1>1, <1>2, <1>3, <1>4, <1>5, <1>6, <1>7, <1>8, <1>9, <1>10, <1>11, <1>12, <1>13, <1>14
  DEF Next, LockStep, UnlockStep

\* Every user is counted, once.
LEMMA CountedStep ==
  ASSUME TypeOK, EntryInv, Counted, [Next]_vars
  PROVE  Counted'
<1> USE LockerAssumption DEF callVars, mapVars, rwVars, TypeOK, Places
<1> DEFINE Kept == (\A e \in Entries : Users(e)' = Users(e)) /\ refCount' = refCount
<1>0. Kept => Counted'
  BY DEF Counted
<1>1. ASSUME NEW p \in Procs, CallLock(p) PROVE Counted'
  <2>1. Kept
    BY <1>1 DEF CallLock, Goto, Users, Using
  <2>2. QED
    BY <1>0, <2>1
<1>2. ASSUME NEW p \in Procs, EnterMap(p) PROVE Counted'
  <2>1. Kept
    BY <1>2 DEF EnterMap, Goto, Users, Using
  <2>2. QED
    BY <1>0, <2>1
<1>3. ASSUME NEW p \in Procs, Lookup(p) PROVE Counted'
  <2>1. PICK e \in Entries :
          /\ ent' = [ent EXCEPT ![p] = e]
          /\ \/ leMap[key[p]] = e /\ refCount' = [refCount EXCEPT ![e] = @ + 1]
             \/ Fresh(e) /\ refCount' = [refCount EXCEPT ![e] = 1]
    BY <1>3 DEF Lookup
  <2>2. pc[p] = "lookup" /\ pc' = [pc EXCEPT ![p] = "lock"]
    BY <1>3 DEF Lookup, Goto
  <2>3. p \notin Users(e) /\ \A d \in Entries : Users(d)' = IF d = e THEN Users(e) \cup {p} ELSE Users(d)
    BY <2>1, <2>2 DEF Users, Using, EntryInv, Owned
  <2>4. Cardinality(Users(e) \cup {p}) = Cardinality(Users(e)) + 1
    BY <2>3, UsersFinite, FS_AddElement
  <2>5. refCount'[e] = refCount[e] + 1
    <3>1. CASE Fresh(e)
      <4>1. Users(e) = {}
        BY <3>1 DEF Fresh, Users
      <4>2. refCount[e] = 0
        BY <4>1, FS_EmptySet DEF Counted
      <4>3. leMap[key[p]] # e
        BY <3>1 DEF Fresh
      <4>4. QED
        BY <2>1, <4>2, <4>3
    <3>2. CASE ~Fresh(e)
      BY <2>1, <3>2
    <3>3. QED
      BY <3>1, <3>2
  <2>6. \A d \in Entries \ {e} : refCount'[d] = refCount[d]
    BY <2>1
  <2>7. QED
    BY <2>3, <2>4, <2>5, <2>6 DEF Counted
<1>4. ASSUME NEW p \in Procs, Announce(p) PROVE Counted'
  <2>1. Kept
    BY <1>4 DEF Announce, Goto, Users, Using
  <2>2. QED
    BY <1>0, <2>1
<1>5. ASSUME NEW p \in Procs, WriterEnters(p) PROVE Counted'
  <2>1. Kept
    BY <1>5 DEF WriterEnters, Goto, Users, Using
  <2>2. QED
    BY <1>0, <2>1
<1>6. ASSUME NEW p \in Procs, ReaderEnters(p) PROVE Counted'
  <2>1. Kept
    BY <1>6 DEF ReaderEnters, Goto, Users, Using
  <2>2. QED
    BY <1>0, <2>1
<1>7. ASSUME NEW p \in Procs, ReaderParks(p) PROVE Counted'
  <2>1. Kept
    BY <1>7 DEF ReaderParks, Goto, Users, Using
  <2>2. QED
    BY <1>0, <2>1
<1>8. ASSUME NEW p \in Procs, ReaderWakes(p) PROVE Counted'
  <2>1. Kept
    BY <1>8 DEF ReaderWakes, Goto, Users, Using
  <2>2. QED
    BY <1>0, <2>1
<1>9. ASSUME NEW p \in Procs, CallUnlock(p) PROVE Counted'
  <2>1. Kept
    BY <1>9 DEF CallUnlock, Goto, Users, Using
  <2>2. QED
    BY <1>0, <2>1
<1>10. ASSUME NEW p \in Procs, Drop(p) PROVE Counted'
  <2>1. PICK e \in Entries :
          /\ pc[p] = "drop" /\ ent[p] = e
          /\ pc' = [pc EXCEPT ![p] = "unlock"] /\ ent' = [ent EXCEPT ![p] = e]
          /\ refCount' = [refCount EXCEPT ![e] = @ - 1]
    <3>1. pc[p] = "drop" /\ ent[p] \in Entries /\ leMap[key[p]] = ent[p]
      BY <1>10 DEF Drop, EntryInv, Owned, Using
    <3>2. /\ pc' = [pc EXCEPT ![p] = "unlock"] /\ ent' = [ent EXCEPT ![p] = leMap[key[p]]]
          /\ refCount' = [refCount EXCEPT ![leMap[key[p]]] = @ - 1]
      BY <1>10 DEF Drop, Goto
    <3>3. QED
      BY <3>1, <3>2
  <2>2. p \in Users(e)
    BY <2>1 DEF Users, Using
  <2>3. \A d \in Entries : Users(d)' = IF d = e THEN Users(e) \ {p} ELSE Users(d)
    BY <2>1 DEF Users, Using
  <2>4. Cardinality(Users(e) \ {p}) = Cardinality(Users(e)) - 1
    BY <2>2, UsersFinite, FS_RemoveElement
  <2>5. refCount'[e] = refCount[e] - 1 /\ \A d \in Entries \ {e} : refCount'[d] = refCount[d]
    BY <2>1
  <2>6. QED
    BY <2>3, <2>4, <2>5 DEF Counted
<1>11. ASSUME NEW p \in Procs, UnlockWriter(p) PROVE Counted'
  <2>1. Kept
    BY <1>11 DEF UnlockWriter, Goto, Users, Using, Parked
  <2>2. QED
    BY <1>0, <2>1
<1>12. ASSUME NEW p \in Procs, UnlockReader(p) PROVE Counted'
  <2>1. Kept
    BY <1>12 DEF UnlockReader, Goto, Users, Using
  <2>2. QED
    BY <1>0, <2>1
<1>13. ASSUME NEW p \in Procs, Reap(p) PROVE Counted'
  <2>1. Kept
    BY <1>13 DEF Reap, Goto, Users, Using
  <2>2. QED
    BY <1>0, <2>1
<1>14. CASE UNCHANGED vars
  <2>1. Kept
    BY <1>14 DEF vars, Users
  <2>2. QED
    BY <1>0, <2>1
<1>15. QED
  BY <1>1, <1>2, <1>3, <1>4, <1>5, <1>6, <1>7, <1>8, <1>9, <1>10, <1>11, <1>12, <1>13, <1>14
  DEF Next, LockStep, UnlockStep

\* Every variable keeps its type: a count is never decremented at zero.
LEMMA TypeStep ==
  ASSUME TypeOK, EntryInv, Counted, [Next]_vars
  PROVE  TypeOK'
<1> USE LockerAssumption DEF callVars, mapVars, rwVars, TypeOK, Places, Modes
<1>1. ASSUME NEW p \in Procs, CallLock(p) PROVE TypeOK'
  BY <1>1 DEF CallLock, Goto
<1>2. ASSUME NEW p \in Procs, EnterMap(p) PROVE TypeOK'
  BY <1>2 DEF EnterMap, Goto
<1>3. ASSUME NEW p \in Procs, Lookup(p) PROVE TypeOK'
  BY <1>3 DEF Lookup, Goto, Fresh
<1>4. ASSUME NEW p \in Procs, Announce(p) PROVE TypeOK'
  BY <1>4 DEF Announce, Goto
<1>5. ASSUME NEW p \in Procs, WriterEnters(p) PROVE TypeOK'
  BY <1>5 DEF WriterEnters, Goto
<1>6. ASSUME NEW p \in Procs, ReaderEnters(p) PROVE TypeOK'
  BY <1>6 DEF ReaderEnters, Goto
<1>7. ASSUME NEW p \in Procs, ReaderParks(p) PROVE TypeOK'
  BY <1>7 DEF ReaderParks, Goto
<1>8. ASSUME NEW p \in Procs, ReaderWakes(p) PROVE TypeOK'
  BY <1>8 DEF ReaderWakes, Goto
<1>9. ASSUME NEW p \in Procs, CallUnlock(p) PROVE TypeOK'
  BY <1>9 DEF CallUnlock, Goto
<1>10. ASSUME NEW p \in Procs, Drop(p) PROVE TypeOK'
  <2>1. pc[p] = "drop" /\ ent[p] \in Entries /\ leMap[key[p]] = ent[p]
    BY <1>10 DEF Drop, EntryInv, Owned, Using
  <2>2. refCount[ent[p]] \in Nat \ {0}
    BY <2>1, UsersCounted DEF Users, Using
  <2>3. refCount' \in [Entries -> Nat]
    <3>1. refCount[ent[p]] - 1 \in Nat
      BY <2>2
    <3>2. QED
      BY <1>10, <2>1, <3>1 DEF Drop
  <2>4. QED
    BY <1>10, <2>1, <2>3 DEF Drop, Goto
<1>11. ASSUME NEW p \in Procs, UnlockWriter(p) PROVE TypeOK'
  BY <1>11 DEF UnlockWriter, Goto, Parked
<1>12. ASSUME NEW p \in Procs, UnlockReader(p) PROVE TypeOK'
  BY <1>12 DEF UnlockReader, Goto
<1>13. ASSUME NEW p \in Procs, Reap(p) PROVE TypeOK'
  BY <1>13 DEF Reap, Goto
<1>14. CASE UNCHANGED vars
  BY <1>14 DEF vars
<1>15. QED
  BY <1>1, <1>2, <1>3, <1>4, <1>5, <1>6, <1>7, <1>8, <1>9, <1>10, <1>11, <1>12, <1>13, <1>14
  DEF Next, LockStep, UnlockStep

\* The RWMutexes know who has them.
LEMMA RWStep ==
  ASSUME TypeOK, EntryInv, RWInv, [Next]_vars
  PROVE  RWInv'
<1> USE LockerAssumption DEF callVars, mapVars, rwVars, TypeOK, Places, Modes, Holding, RWInv
<1>1. ASSUME NEW p \in Procs, CallLock(p) PROVE RWInv'
  BY <1>1 DEF CallLock, Goto
<1>2. ASSUME NEW p \in Procs, EnterMap(p) PROVE RWInv'
  BY <1>2 DEF EnterMap, Goto
<1>3. ASSUME NEW p \in Procs, Lookup(p) PROVE RWInv'
  BY <1>3 DEF Lookup, Goto, Fresh
<1>4. ASSUME NEW p \in Procs, Announce(p) PROVE RWInv'
  BY <1>4 DEF Announce, Goto
<1>5. ASSUME NEW p \in Procs, WriterEnters(p) PROVE RWInv'
  BY <1>5 DEF WriterEnters, Goto
<1>6. ASSUME NEW p \in Procs, ReaderEnters(p) PROVE RWInv'
  <2>1. PICK e \in Entries :
          /\ ent[p] = e /\ pc[p] = "lock" /\ mode[p] = "r" /\ writer[e] = None
          /\ readers' = [readers EXCEPT ![e] = @ \cup {p}]
          /\ pc' = [pc EXCEPT ![p] = "held"]
    <3>1. pc[p] = "lock"
      BY <1>6 DEF ReaderEnters
    <3>2. ent[p] \in Entries
      BY <3>1 DEF EntryInv, Owned, Using
    <3>3. QED
      BY <1>6, <3>2 DEF ReaderEnters, Goto
  <2>2. UNCHANGED <<mode, ent, writer>>
    BY <1>6 DEF ReaderEnters
  <2>3. \A q \in Procs : ~(ent[q] = e /\ mode[q] = "w" /\ pc[q] \in Holding)
    BY <2>1
  <2>4. QED
    BY <2>1, <2>2, <2>3
<1>7. ASSUME NEW p \in Procs, ReaderParks(p) PROVE RWInv'
  BY <1>7 DEF ReaderParks, Goto
<1>8. ASSUME NEW p \in Procs, ReaderWakes(p) PROVE RWInv'
  BY <1>8 DEF ReaderWakes, Goto
<1>9. ASSUME NEW p \in Procs, CallUnlock(p) PROVE RWInv'
  BY <1>9 DEF CallUnlock, Goto
<1>10. ASSUME NEW p \in Procs, Drop(p) PROVE RWInv'
  <2>1. pc[p] = "drop" /\ leMap[key[p]] = ent[p] /\ ent' = ent
    BY <1>10 DEF Drop, EntryInv, Owned, Using
  <2>2. QED
    BY <1>10, <2>1 DEF Drop, Goto
<1>11. ASSUME NEW p \in Procs, UnlockWriter(p) PROVE RWInv'
  BY <1>11 DEF UnlockWriter, Goto, Parked
<1>12. ASSUME NEW p \in Procs, UnlockReader(p) PROVE RWInv'
  BY <1>12 DEF UnlockReader, Goto
<1>13. ASSUME NEW p \in Procs, Reap(p) PROVE RWInv'
  BY <1>13 DEF Reap, Goto
<1>14. CASE UNCHANGED vars
  BY <1>14 DEF vars
<1>15. QED
  BY <1>1, <1>2, <1>3, <1>4, <1>5, <1>6, <1>7, <1>8, <1>9, <1>10, <1>11, <1>12, <1>13, <1>14
  DEF Next, LockStep, UnlockStep

\* Everything the invariant says holds initially ...
LEMMA InitInductive == Init => IInv
<1> SUFFICES ASSUME Init PROVE IInv
  OBVIOUS
<1> USE LockerAssumption DEF Init
<1>1. TypeOK
  BY DEF TypeOK, Places, Modes
<1>2. MapMutex
  BY DEF MapMutex, InMap
<1>3. Counted
  <2>1. \A e \in Entries : Users(e) = {}
    BY DEF Users, Using
  <2>2. QED
    BY <2>1, FS_EmptySet DEF Counted
<1>4. EntryInv
  BY DEF EntryInv, Owned, Using
<1>5. RWInv
  BY DEF RWInv, Holding
<1>6. QED
  BY <1>1, <1>2, <1>3, <1>4, <1>5 DEF IInv

\* ... and every step keeps it.
LEMMA StepInductive == IInv /\ [Next]_vars => IInv'
BY MutexStep, EntriesStep, CountedStep, TypeStep, RWStep DEF IInv

\* The invariant holds in every behaviour.
LEMMA Inductive == Spec => []IInv
BY InitInductive, StepInductive, PTL DEF Spec

----------------------------------------------------------------------------
\* Every variable keeps its type: refCount never goes below zero.
THEOREM TypeCorrect == Spec => []TypeOK
<1>1. IInv => TypeOK
  BY DEF IInv
<1>2. QED
  BY <1>1, Inductive, PTL

\* The entry a goroutine waits on or has locked stays the entry of its key, so
\* Unlock finds the RWMutex that Lock locked.
THEOREM LocksStay == Spec => []EntryStays
<1>1. IInv => EntryStays
  BY DEF IInv, EntryInv, EntryStays, Owned
<1>2. QED
  BY <1>1, Inductive, PTL

\* When nobody is inside locker.mu the map holds the keys in use and no others.
THEOREM NothingLeaked == Spec => []NoLeakedEntry
<1>1. IInv => NoLeakedEntry
  <2> SUFFICES ASSUME IInv, mapMu = None, NEW k \in Keys
               PROVE  leMap[k] # None <=> \E p \in Procs : pc[p] \in Using /\ key[p] = k
    BY DEF NoLeakedEntry
  <2> USE LockerAssumption DEF IInv, TypeOK, EntryInv
  <2>1. \A p \in Procs : pc[p] \in Owned => pc[p] \in Using
    BY DEF Owned, MapMutex, InMap
  <2>2. ASSUME leMap[k] # None PROVE \E p \in Procs : pc[p] \in Using /\ key[p] = k
    <3>1. PICK p \in Procs : pc[p] \in Owned /\ ent[p] = leMap[k]
      BY <2>2
    <3>2. leMap[key[p]] = leMap[k] /\ key[p] \in Keys
      BY <3>1
    <3>3. QED
      BY <2>1, <2>2, <3>1, <3>2
  <2>3. ASSUME NEW p \in Procs, pc[p] \in Using, key[p] = k PROVE leMap[k] # None
    BY <2>3 DEF Owned
  <2>4. QED
    BY <2>2, <2>3
<1>2. QED
  BY <1>1, Inductive, PTL

\* The goroutines that hold one key hold one RWMutex: a writer that is alone
\* there is alone on the key.
LEMMA HoldersOfAKey ==
  ASSUME IInv, NEW p \in Procs, NEW q \in Procs, p # q,
         pc[p] \in Owned, pc[q] \in Holding, key[p] = key[q]
  PROVE  /\ ent[p] \in Entries /\ ent[q] = ent[p]
         /\ mode[q] = "w" => writer[ent[p]] = q /\ readers[ent[p]] = {}
         /\ mode[q] = "r" => q \in readers[ent[p]]
<1>1. pc[q] \in Owned
  BY DEF Owned, Using, Holding
<1>2. ent[p] \in Entries /\ ent[q] = ent[p]
  BY <1>1 DEF IInv, TypeOK, EntryInv
<1>3. QED
  BY <1>2 DEF IInv, RWInv

\* Per key, one writer or any number of readers hold the lock.
THEOREM OneWriterOrReaders == Spec => []Locker!MutualExclusion
<1>1. IInv => Locker!MutualExclusion
  <2> SUFFICES ASSUME IInv, NEW p \in Procs, NEW q \in Procs, p # q,
                      pc[p] \in Holding, pc[q] \in Holding, key[p] = key[q]
               PROVE  mode[p] = "r" /\ mode[q] = "r"
    BY DEF Locker!MutualExclusion, Locker!Conflict
  <2>1. pc[p] \in Owned /\ pc[q] \in Owned /\ {mode[p], mode[q]} \subseteq {"r", "w"}
    BY DEF Owned, Using, Holding, IInv, TypeOK, Modes
  <2>2. /\ mode[q] = "w" => writer[ent[p]] = q /\ readers[ent[p]] = {}
        /\ mode[q] = "r" => q \in readers[ent[p]]
    BY <2>1, HoldersOfAKey
  <2>3. /\ ent[p] = ent[q]
        /\ mode[p] = "w" => writer[ent[q]] = p /\ readers[ent[q]] = {}
        /\ mode[p] = "r" => p \in readers[ent[q]]
    BY <2>1, HoldersOfAKey
  <2>4. QED
    BY <2>1, <2>2, <2>3
<1>2. QED
  BY <1>1, Inductive, PTL

\* Whoever gets the RWMutex of its key may have the key.
LEMMA EntersAlone ==
  ASSUME IInv, NEW p \in Procs, NEW q \in Procs \ {p}, pc[q] \in Holding,
         WriterEnters(p) \/ ReaderEnters(p) \/ ReaderWakes(p)
  PROVE  ~Locker!Conflict(p, q)
<1> SUFFICES ASSUME key[p] = key[q] PROVE mode[p] = "r" /\ mode[q] = "r"
  BY DEF Locker!Conflict
<1> USE LockerAssumption DEF IInv, TypeOK, Modes
<1>1. pc[p] \in {"announced", "lock", "parked"}
  BY DEF WriterEnters, ReaderEnters, ReaderWakes
<1>2. pc[p] \in Owned
  BY <1>1 DEF Owned, Using
<1>3. /\ ent[p] \in Entries
      /\ mode[q] = "w" => writer[ent[p]] = q /\ readers[ent[p]] = {}
      /\ mode[q] = "r" => q \in readers[ent[p]]
  BY <1>2, HoldersOfAKey
<1>4. CASE WriterEnters(p)
  <2>1. writer[ent[p]] = p /\ readers[ent[p]] = {}
    BY <1>3, <1>4 DEF WriterEnters, RWInv
  <2>2. QED
    BY <1>3, <2>1
<1>5. CASE ReaderEnters(p)
  BY <1>3, <1>5 DEF ReaderEnters
<1>6. CASE ReaderWakes(p)
  BY <1>3, <1>6 DEF ReaderWakes, RWInv
<1>7. QED
  BY <1>4, <1>5, <1>6

\* The per-file locker is a reader-writer lock for every key.
THEOREM Refinement == Spec => ImplementsKeyLock
<1> DEFINE Phase == [p \in Procs |-> IF pc[p] \in Holding THEN "holding"
                                     ELSE IF pc[p] \in {"idle", "reap"} THEN "idle"
                                     ELSE "waiting"]
<1>1. Init => Locker!Init
  BY DEF Init, Locker!Init, Locker!Modes, Modes, Holding
<1>2. IInv /\ [Next]_vars => [Locker!Next]_(Locker!vars)
  <2> SUFFICES ASSUME IInv, [Next]_vars PROVE [Locker!Next]_(Locker!vars)
    OBVIOUS
  <2> USE LockerAssumption DEF callVars, mapVars, rwVars, IInv, TypeOK, Places, Holding, Locker!vars
  <2>1. ASSUME NEW p \in Procs, CallLock(p) PROVE Locker!Request(p)
    BY <2>1 DEF CallLock, Goto, Locker!Request, Locker!Modes, Modes
  <2>2. ASSUME NEW p \in Procs, EnterMap(p) PROVE UNCHANGED Locker!vars
    BY <2>2 DEF EnterMap, Goto
  <2>3. ASSUME NEW p \in Procs, Lookup(p) PROVE UNCHANGED Locker!vars
    BY <2>3 DEF Lookup, Goto
  <2>4. ASSUME NEW p \in Procs, Announce(p) PROVE UNCHANGED Locker!vars
    BY <2>4 DEF Announce, Goto
  <2>5. ASSUME NEW p \in Procs, WriterEnters(p) \/ ReaderEnters(p) \/ ReaderWakes(p)
        PROVE  Locker!Acquire(p)
    <3>1. \A q \in Procs \ {p} : Phase[q] = "holding" => ~Locker!Conflict(p, q)
      BY <2>5, EntersAlone
    <3>2. pc[p] \in {"announced", "lock", "parked"} /\ pc' = [pc EXCEPT ![p] = "held"]
      BY <2>5 DEF WriterEnters, ReaderEnters, ReaderWakes, Goto
    <3>3. Phase[p] = "waiting" /\ Phase' = [Phase EXCEPT ![p] = "holding"]
      BY <3>2
    <3>4. UNCHANGED <<key, mode>>
      BY <2>5 DEF WriterEnters, ReaderEnters, ReaderWakes
    <3>5. QED
      BY <3>1, <3>3, <3>4 DEF Locker!Acquire
  <2>6. ASSUME NEW p \in Procs, ReaderParks(p) PROVE UNCHANGED Locker!vars
    BY <2>6 DEF ReaderParks, Goto
  <2>7. ASSUME NEW p \in Procs, CallUnlock(p) PROVE UNCHANGED Locker!vars
    BY <2>7 DEF CallUnlock, Goto
  <2>8. ASSUME NEW p \in Procs, Drop(p) PROVE UNCHANGED Locker!vars
    BY <2>8 DEF Drop, Goto
  <2>9. ASSUME NEW p \in Procs, UnlockWriter(p) \/ UnlockReader(p) PROVE Locker!Release(p)
    BY <2>9 DEF UnlockWriter, UnlockReader, Goto, Locker!Release
  <2>10. ASSUME NEW p \in Procs, Reap(p) PROVE UNCHANGED Locker!vars
    BY <2>10 DEF Reap, Goto
  <2>11. CASE UNCHANGED vars
    BY <2>11 DEF vars
  <2>12. QED
    BY <2>1, <2>2, <2>3, <2>4, <2>5, <2>6, <2>7, <2>8, <2>9, <2>10, <2>11
    DEF Next, LockStep, UnlockStep, Locker!Next
<1>3. QED
  BY <1>1, <1>2, Inductive, PTL DEF Spec, ImplementsKeyLock, Locker!Spec
=============================================================================
