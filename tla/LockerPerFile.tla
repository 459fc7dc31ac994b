--------------------------- MODULE LockerPerFile ---------------------------
(***************************************************************************)
(* The per-file locker (src/file/locker_perfile.go): a map from keys to    *)
(* reference-counted sync.RWMutexes, guarded by a mutex.  An entry is made *)
(* by the first goroutine that wants its key and deleted by the last that  *)
(* is done with it; the wait for the key's own lock happens outside the    *)
(* map's mutex.                                                            *)
(*                                                                         *)
(* sync.RWMutex is external and modelled by what it documents: a writer    *)
(* that waits announces itself, and from then on new readers park; when it *)
(* unlocks, the parked readers get the lock before the next writer.        *)
(***************************************************************************)
EXTENDS Naturals, FiniteSets

CONSTANTS
  Procs,     \* goroutines
  Keys,      \* file names
  Entries,   \* the lockEntry objects; one that is not referred to can be allocated
  None

ASSUME LockerAssumption ==
  /\ IsFiniteSet(Procs)
  /\ None \notin Procs \cup Entries

VARIABLES
  pc,        \* pc[p]: where p is, see Places
  key,       \* key[p]: the key of p's call
  mode,      \* mode[p]: "w" for Lock/Unlock, "r" for RLock/RUnlock
  ent,       \* ent[p]: p's local variable le (in Lock: mu)
  leMap,     \* leMap[k]: the entry of k, or None
  refCount,  \* refCount[e]
  mapMu,     \* the holder of locker.mu, or None
  writer,    \* writer[e]: who has announced to write, or writes
  readers    \* readers[e]: who has the read lock

callVars == <<key, mode>>
mapVars  == <<leMap, refCount, mapMu>>
rwVars   == <<writer, readers>>
vars == <<pc, callVars, ent, mapVars, rwVars>>

Modes  == {"r", "w"}
Places == {"idle",
           "start", "lookup",                    \* Lock: for and in locker.mu
           "lock", "announced", "parked",        \* in mu.Lock, mu.RLock
           "held",
           "end", "drop", "unlock", "reap"}      \* Unlock: for and in locker.mu

TypeOK ==
  /\ pc \in [Procs -> Places]
  /\ key \in [Procs -> Keys]
  /\ mode \in [Procs -> Modes]
  /\ ent \in [Procs -> Entries \cup {None}]
  /\ leMap \in [Keys -> Entries \cup {None}]
  /\ refCount \in [Entries -> Nat]
  /\ mapMu \in Procs \cup {None}
  /\ writer \in [Entries -> Procs \cup {None}]
  /\ readers \in [Entries -> SUBSET Procs]

Init ==
  /\ pc = [p \in Procs |-> "idle"]
  /\ key \in [Procs -> Keys]
  /\ mode = [p \in Procs |-> "r"]
  /\ ent = [p \in Procs |-> None]
  /\ leMap = [k \in Keys |-> None]
  /\ refCount = [e \in Entries |-> 0]
  /\ mapMu = None
  /\ writer = [e \in Entries |-> None]
  /\ readers = [e \in Entries |-> {}]

Goto(p, place) == pc' = [pc EXCEPT ![p] = place]

\* An entry that nothing refers to: what &lockEntry{} may return.
Fresh(e) == (\A k \in Keys : leMap[k] # e) /\ (\A p \in Procs : ent[p] # e)

----------------------------------------------------------------------------
(* Slips that would be easy to make in this code, one for each property the *)
(* runs check.  None is part of the specification.                          *)

\* Lock uses an entry it finds without counting itself.
LookupUncounted(p) ==
  /\ pc[p] = "lookup"
  /\ \/ /\ leMap[key[p]] # None
        /\ ent' = [ent EXCEPT ![p] = leMap[key[p]]]
        /\ UNCHANGED <<leMap, refCount>>
     \/ /\ leMap[key[p]] = None
        /\ \E e \in Entries :
             /\ Fresh(e)
             /\ ent' = [ent EXCEPT ![p] = e]
             /\ leMap' = [leMap EXCEPT ![key[p]] = e]
             /\ refCount' = [refCount EXCEPT ![e] = 1]
  /\ mapMu' = None
  /\ Goto(p, "lock")
  /\ UNCHANGED <<callVars, rwVars>>

\* Unlock counts below zero: it decrements twice.
DropTwice(p) ==
  /\ pc[p] = "drop"
  /\ ent' = [ent EXCEPT ![p] = leMap[key[p]]]
  /\ refCount' = [refCount EXCEPT ![leMap[key[p]]] = @ - 2]
  /\ Goto(p, "unlock")
  /\ UNCHANGED <<callVars, leMap, mapMu, rwVars>>

\* Unlock deletes the entry without looking at its count.
ReapAlways(p) ==
  /\ pc[p] = "reap"
  /\ leMap' = [leMap EXCEPT ![key[p]] = None]
  /\ mapMu' = None
  /\ ent' = [ent EXCEPT ![p] = None]
  /\ Goto(p, "idle")
  /\ UNCHANGED <<callVars, refCount, rwVars>>

\* Unlock keeps entries that have one user left, and those that have none.
ReapNever(p) ==
  /\ pc[p] = "reap"
  /\ mapMu' = None
  /\ ent' = [ent EXCEPT ![p] = None]
  /\ Goto(p, "idle")
  /\ UNCHANGED <<callVars, leMap, refCount, rwVars>>

\* Unlock returns after the delete without unlocking locker.mu.
ReapKeepingMu(p) ==
  /\ pc[p] = "reap"
  /\ IF refCount[ent[p]] = 0
     THEN leMap' = [leMap EXCEPT ![key[p]] = None] /\ UNCHANGED mapMu
     ELSE mapMu' = None /\ UNCHANGED leMap
  /\ ent' = [ent EXCEPT ![p] = None]
  /\ Goto(p, "idle")
  /\ UNCHANGED <<callVars, refCount, rwVars>>

----------------------------------------------------------------------------
(* Lock and RLock. *)

\* A call with some key begins.
CallLock(p) ==
  /\ pc[p] = "idle"
  /\ \E k \in Keys : key' = [key EXCEPT ![p] = k]
  /\ \E m \in Modes : mode' = [mode EXCEPT ![p] = m]
  /\ Goto(p, "start")
  /\ UNCHANGED <<ent, mapVars, rwVars>>

\* locker.mu.Lock().
EnterMap(p) ==
  /\ mapMu = None
  /\ mapMu' = p
  /\ \/ pc[p] = "start" /\ Goto(p, "lookup")
     \/ pc[p] = "end" /\ Goto(p, "drop")
  /\ UNCHANGED <<callVars, ent, leMap, refCount, rwVars>>

\* Finds or makes the entry, counts p as a user, and unlocks locker.mu.
Lookup(p) ==
  /\ pc[p] = "lookup"
  /\ \/ /\ leMap[key[p]] # None
        /\ ent' = [ent EXCEPT ![p] = leMap[key[p]]]
        /\ refCount' = [refCount EXCEPT ![leMap[key[p]]] = @ + 1]
        /\ UNCHANGED leMap
     \/ /\ leMap[key[p]] = None
        /\ \E e \in Entries :
             /\ Fresh(e)
             /\ ent' = [ent EXCEPT ![p] = e]
             /\ leMap' = [leMap EXCEPT ![key[p]] = e]
             /\ refCount' = [refCount EXCEPT ![e] = 1]
  /\ mapMu' = None
  /\ Goto(p, "lock")
  /\ UNCHANGED <<callVars, rwVars>>

\* RWMutex.Lock, first half: no other writer, new readers will park.
Announce(p) ==
  /\ pc[p] = "lock" /\ mode[p] = "w"
  /\ writer[ent[p]] = None
  /\ writer' = [writer EXCEPT ![ent[p]] = p]
  /\ Goto(p, "announced")
  /\ UNCHANGED <<callVars, ent, mapVars, readers>>

\* RWMutex.Lock, second half: the readers there were have left.
WriterEnters(p) ==
  /\ pc[p] = "announced"
  /\ readers[ent[p]] = {}
  /\ Goto(p, "held")
  /\ UNCHANGED <<callVars, ent, mapVars, rwVars>>

\* RWMutex.RLock without a writer ...
ReaderEnters(p) ==
  /\ pc[p] = "lock" /\ mode[p] = "r"
  /\ writer[ent[p]] = None
  /\ readers' = [readers EXCEPT ![ent[p]] = @ \cup {p}]
  /\ Goto(p, "held")
  /\ UNCHANGED <<callVars, ent, mapVars, writer>>

\* ... and with one, announced or inside.
ReaderParks(p) ==
  /\ pc[p] = "lock" /\ mode[p] = "r"
  /\ writer[ent[p]] # None
  /\ Goto(p, "parked")
  /\ UNCHANGED <<callVars, ent, mapVars, rwVars>>

\* A parked reader that a writer's Unlock let in wakes up.
ReaderWakes(p) ==
  /\ pc[p] = "parked"
  /\ p \in readers[ent[p]]
  /\ Goto(p, "held")
  /\ UNCHANGED <<callVars, ent, mapVars, rwVars>>

----------------------------------------------------------------------------
(* Unlock and RUnlock. *)

CallUnlock(p) ==
  /\ pc[p] = "held"
  /\ Goto(p, "end")
  /\ UNCHANGED <<callVars, ent, mapVars, rwVars>>

\* le := locker.leMap[key]; le.refCount--.  A nil le would panic.
Drop(p) ==
  /\ pc[p] = "drop"
  /\ leMap[key[p]] # None
  /\ ent' = [ent EXCEPT ![p] = leMap[key[p]]]
  /\ refCount' = [refCount EXCEPT ![leMap[key[p]]] = @ - 1]
  /\ Goto(p, "unlock")
  /\ UNCHANGED <<callVars, leMap, mapMu, rwVars>>

Parked(e) == {q \in Procs : pc[q] = "parked" /\ ent[q] = e}

\* le.mu.Unlock() lets the parked readers in.
UnlockWriter(p) ==
  /\ pc[p] = "unlock" /\ mode[p] = "w"
  /\ writer' = [writer EXCEPT ![ent[p]] = None]
  /\ readers' = [readers EXCEPT ![ent[p]] = @ \cup Parked(ent[p])]
  /\ Goto(p, "reap")
  /\ UNCHANGED <<callVars, ent, mapVars>>

\* le.mu.RUnlock().
UnlockReader(p) ==
  /\ pc[p] = "unlock" /\ mode[p] = "r"
  /\ readers' = [readers EXCEPT ![ent[p]] = @ \ {p}]
  /\ Goto(p, "reap")
  /\ UNCHANGED <<callVars, ent, mapVars, writer>>

\* Deletes the entry if p was its last user, and unlocks locker.mu.
Reap(p) ==
  /\ pc[p] = "reap"
  /\ leMap' = IF refCount[ent[p]] = 0 THEN [leMap EXCEPT ![key[p]] = None] ELSE leMap
  /\ mapMu' = None
  /\ ent' = [ent EXCEPT ![p] = None]
  /\ Goto(p, "idle")
  /\ UNCHANGED <<callVars, refCount, rwVars>>

----------------------------------------------------------------------------
LockStep(p) ==
  \/ EnterMap(p) \/ Lookup(p)
  \/ Announce(p) \/ WriterEnters(p)
  \/ ReaderEnters(p) \/ ReaderParks(p) \/ ReaderWakes(p)

UnlockStep(p) == Drop(p) \/ UnlockWriter(p) \/ UnlockReader(p) \/ Reap(p)

Next == \E p \in Procs : CallLock(p) \/ LockStep(p) \/ CallUnlock(p) \/ UnlockStep(p)

Spec == Init /\ [][Next]_vars

\* Whoever holds a key unlocks it in the end (the file operations defer it).  A
\* sync.Mutex hands itself over to a waiter that has waited long enough: strong
\* fairness for locker.mu, and for the mutex among the writers of an RWMutex.
Fairness ==
  \A p \in Procs :
    /\ WF_vars(CallUnlock(p)) /\ WF_vars(UnlockStep(p)) /\ WF_vars(Lookup(p))
    /\ SF_vars(EnterMap(p)) /\ SF_vars(Announce(p))
    /\ WF_vars(WriterEnters(p)) /\ WF_vars(ReaderWakes(p))
    /\ WF_vars(ReaderEnters(p) \/ ReaderParks(p))

FairSpec == Spec /\ Fairness

----------------------------------------------------------------------------
(* Properties. *)

\* Where p counts as a user of its key's entry, and where it has the key's lock.
Using   == {"lock", "announced", "parked", "held", "end", "drop"}
Holding == {"held", "end", "drop", "unlock"}

\* The entry p waits on or has locked stays the entry of its key, however the
\* calls of the others interleave: the lock of a key is never split in two, and
\* Unlock finds what Lock locked.
EntryStays == \A p \in Procs : pc[p] \in Using => ent[p] # None /\ leMap[key[p]] = ent[p]

\* The map holds the keys in use, and no others: entries are not leaked.
NoLeakedEntry ==
  mapMu = None =>
    \A k \in Keys : leMap[k] # None <=> \E p \in Procs : pc[p] \in Using /\ key[p] = k

\* Every Lock and RLock returns: no goroutine waits for ever, neither a writer
\* behind a stream of readers nor a reader behind writers.
NoStarvation == \A p \in Procs : pc[p] = "start" ~> pc[p] = "held"

\* Per key, one writer or any number of readers.
Locker == INSTANCE KeyLock WITH
  phase <- [p \in Procs |-> IF pc[p] \in Holding THEN "holding"
                            ELSE IF pc[p] \in {"idle", "reap"} THEN "idle"
                            ELSE "waiting"]

ImplementsKeyLock == Locker!Spec
=============================================================================
