------------------------------- MODULE State -------------------------------
(***************************************************************************)
(* States and builders (src/workflow/state.go).  Both hold a reference to  *)
(* a Go map, or nil; copying a State copies the reference, so two of them  *)
(* may share one map.  That nobody can tell is the work of cloneMap.       *)
(*                                                                         *)
(* A program with some variables of type State, one Builder, and one map   *)
(* that it has got from State.Values and may write to.                     *)
(***************************************************************************)
CONSTANTS
  Handles,        \* variables of type State
  Names, Values,   \* the names of StateKeys and the values stored under them
  TerminatedKey,  \* the name of the mark that Terminate sets
  Refs,           \* the maps that can be allocated
  Nil,            \* the nil map
  Missing         \* the value of a key that a map does not have

ASSUME StateAssumption ==
  /\ TerminatedKey \notin Names
  /\ Nil \notin Refs
  /\ Missing \notin Values \cup {TRUE}

VARIABLES
  obj,      \* obj[r]: the contents of map r
  st,       \* st[h]: the field m of the State in h
  bld,      \* the field m of the Builder
  given,    \* the map returned by State.Values
  panicked  \* whether the program has panicked

vars == <<obj, st, bld, given, panicked>>

AllNames == Names \cup {TerminatedKey}
Empty   == [k \in AllNames |-> Missing]
Maps    == [AllNames -> Values \cup {TRUE, Missing}]

TypeOK ==
  /\ obj \in [Refs -> Maps]
  /\ st \in [Handles -> Refs \cup {Nil}]
  /\ bld \in Refs \cup {Nil}
  /\ given \in Refs \cup {Nil}
  /\ panicked \in BOOLEAN

Init ==
  /\ obj = [r \in Refs |-> Empty]
  /\ st = [h \in Handles |-> Nil]
  /\ bld = Nil
  /\ given = Nil
  /\ panicked = FALSE

\* What a map holds; the nil map reads as empty.
Deref(r) == IF r = Nil THEN Empty ELSE obj[r]

\* A map that nothing refers to, as make returns it.
Fresh(r) == r # bld /\ r # given /\ \A h \in Handles : r # st[h]
NewRef   == CHOOSE r \in Refs : Fresh(r)

\* r becomes a new map with contents m; the maps nobody refers to are collected.
Make(r, m) ==
  /\ r \in Refs /\ Fresh(r) /\ r = NewRef
  /\ obj' = [q \in Refs |-> IF q = r THEN m ELSE IF Fresh(q) THEN Empty ELSE obj[q]]

----------------------------------------------------------------------------
(* Slips that would be easy to make in this code, one for each property the *)
(* run checks.  None is part of the specification.                          *)

\* Build gives the builder's own map away.
BuildWithoutClone(h) ==
  /\ st' = [st EXCEPT ![h] = bld]
  /\ UNCHANGED <<obj, bld, given, panicked>>

----------------------------------------------------------------------------
\* cloneMap: a new map with the entries of m, or nil when there are none.
CloneMap(r, m) ==
  \/ m = Empty /\ r = Nil /\ UNCHANGED obj
  \/ m # Empty /\ Make(r, m)

\* A builder's AddAll: the entries of m over those of b.
Overlay(b, m) == [k \in AllNames |-> IF m[k] # Missing THEN m[k] ELSE b[k]]

\* b.m[key] = value and AddAll allocate the map of a builder that has none.
Store(m) ==
  /\ \/ /\ bld # Nil
        /\ obj' = [obj EXCEPT ![bld] = m]
        /\ UNCHANGED bld
     \/ bld = Nil /\ \E r \in Refs : Make(r, m) /\ bld' = r
  /\ UNCHANGED <<st, given, panicked>>

\* State{} and NewState().
NewState(h) ==
  /\ st' = [st EXCEPT ![h] = Nil]
  /\ UNCHANGED <<obj, bld, given, panicked>>

\* A State is passed on or assigned: both share the map.
CopyState(h, g) ==
  /\ st' = [st EXCEPT ![h] = st[g]]
  /\ UNCHANGED <<obj, bld, given, panicked>>

NewBuilder ==
  /\ \E r \in Refs : Make(r, Empty) /\ bld' = r
  /\ UNCHANGED <<st, given, panicked>>

ToBuilder(h) ==
  /\ \E r \in Refs \cup {Nil} : CloneMap(r, Deref(st[h])) /\ bld' = r
  /\ UNCHANGED <<st, given, panicked>>

SetValue(k, v) == Store([Deref(bld) EXCEPT ![k] = v])

\* AddAll, given what Values returned; of no entries it does nothing.
AddAll ==
  /\ Deref(given) # Empty
  /\ Store(Overlay(Deref(bld), Deref(given)))

Build(h) ==
  /\ \E r \in Refs \cup {Nil} : CloneMap(r, Deref(bld)) /\ st' = [st EXCEPT ![h] = r]
  /\ UNCHANGED <<bld, given, panicked>>

GetValues(h) ==
  /\ \E r \in Refs \cup {Nil} : CloneMap(r, Deref(st[h])) /\ given' = r
  /\ UNCHANGED <<st, bld, panicked>>

\* The caller writes to the map it was given.  Of an empty state Values gives nil: to
\* write to that panics in the caller's own code, and callers who do are left out.
WriteToGiven(k, v) ==
  /\ given # Nil
  /\ obj' = [obj EXCEPT ![given] = [@ EXCEPT ![k] = v]]
  /\ UNCHANGED <<st, bld, given, panicked>>

\* Terminate writes to the map of a builder of its own: the nil map, if the state
\* is empty, and that panics.
Terminate(h, g) ==
  \/ /\ Deref(st[h]) # Empty
     /\ \E r \in Refs : /\ Make(r, [Deref(st[h]) EXCEPT ![TerminatedKey] = TRUE])
                        /\ st' = [st EXCEPT ![g] = r]
     /\ UNCHANGED <<bld, given, panicked>>
  \/ /\ Deref(st[h]) = Empty
     /\ panicked' = TRUE
     /\ UNCHANGED <<obj, st, bld, given>>

\* MergeStates of three states: a builder of its own takes one after the other.
MergeStates(e, f, g, h) ==
  /\ \E r \in Refs \cup {Nil} :
       /\ CloneMap(r, Overlay(Overlay(Overlay(Empty, Deref(st[e])), Deref(st[f])), Deref(st[g])))
       /\ st' = [st EXCEPT ![h] = r]
  /\ UNCHANGED <<bld, given, panicked>>

Next ==
  \/ /\ ~panicked
     /\ \/ \E h \in Handles : NewState(h) \/ ToBuilder(h) \/ Build(h) \/ GetValues(h)
        \/ \E h, g \in Handles : CopyState(h, g) \/ Terminate(h, g)
        \/ \E e, f, g, h \in Handles : MergeStates(e, f, g, h)
        \/ NewBuilder \/ AddAll
        \/ \E k \in Names, v \in Values : SetValue(k, v) \/ WriteToGiven(k, v)
  \/ panicked /\ UNCHANGED vars   \* nothing runs any more

Spec == Init /\ [][Next]_vars

----------------------------------------------------------------------------
(* Properties. *)

\* "Terminate returns a copy of this state flagged as terminated" and "the zero value
\* is a valid, empty state" (src/workflow/state.go:101, 60): Terminate never panics.
TerminateReturns == ~panicked

\* States are values, although they share maps: no use of a builder, of a map from
\* Values or of another State changes one, and of merged states the last wins.
Plain == INSTANCE StateValues WITH
  state   <- [h \in Handles |-> Deref(st[h])],
  builder <- Deref(bld),
  given   <- Deref(given)

ImplementsValues == Plain!Spec
=============================================================================
