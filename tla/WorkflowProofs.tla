--------------------------- MODULE WorkflowProofs ---------------------------
(***************************************************************************)
(* Proofs about package workflow beside its chain.                         *)
(*                                                                         *)
(* States (State): for any variables, keys, values and maps, states are    *)
(* values, that is, State implements StateValues.  States may share maps   *)
(* with each other, since nothing writes to them.  What is written to is   *)
(* the map of the builder and the one that Values has returned, and the    *)
(* invariant is that these two are nobody else's (Unshared).               *)
(*                                                                         *)
(* Tasks (Middleware): for every nesting of timeouts and retries, any      *)
(* depth of it and any number of attempts, nothing is held when what it    *)
(* belongs to is over, retries stop when the caller's context is done, and *)
(* otherwise give up only when all attempts are used.  The invariant:      *)
(* where the goroutine is in its layers (Shape), which bodies (Bodies) and *)
(* timers (Timers) there are then, what is still to be tried once the      *)
(* caller's context is done (Stopping), and how many runs the attempts     *)
(* counted so far stand for (Attempting, Counted).                         *)
(***************************************************************************)
EXTENDS State, Middleware, WellFoundedInduction, TLAPS

\* Induction on the natural numbers, for a set instead of a formula: otherwise the
\* smallest number outside of it would have a predecessor in it.
LEMMA Induction ==
  ASSUME NEW S, 0 \in S, \A n \in Nat : n \in S => n + 1 \in S
  PROVE  Nat \subseteq S
<1> DEFINE R == {ij \in Nat \X Nat : ij[1] < ij[2]}
<1>1. IsWellFoundedOn(R, Nat)
  BY NatLessThanWellFounded DEF OpToRel
<1>2. \A i, j \in Nat : <<i, j>> \in R <=> i < j
  OBVIOUS
<1> HIDE DEF R
<1>3. SUFFICES ASSUME Nat \ S # {} PROVE FALSE
  OBVIOUS
<1>4. PICK n \in Nat \ S : \A m \in Nat \ S : <<m, n>> \notin R
  BY <1>1, <1>3, WFMin
<1>5. n # 0 /\ n - 1 \in Nat /\ n - 1 < n
  OBVIOUS
<1>6. n - 1 \in S
  BY <1>2, <1>4, <1>5
<1> QED
  BY <1>4, <1>5, <1>6

----------------------------------------------------------------------------
(* States: the invariant. *)

\* The maps that are written to have one holder each.
Unshared ==
  /\ bld # Nil => bld # given /\ \A h \in Handles : st[h] # bld
  /\ given # Nil => \A h \in Handles : st[h] # given

StateInv == TypeOK /\ Unshared

\* What r holds after a step that has assigned to obj.
DerefNext(r) == IF r = Nil THEN Empty ELSE obj'[r]

----------------------------------------------------------------------------
(* The operators. *)

\* The empty contents are contents.
LEMMA EmptyIsMap == Empty \in Maps
BY DEF Empty, Maps

\* So is what a reference, nil or not, stands for ...
LEMMA DerefIsMap ==
  ASSUME TypeOK, NEW r \in Refs \cup {Nil}
  PROVE  Deref(r) \in Maps
BY EmptyIsMap DEF TypeOK, Deref

\* ... and one map laid over another.
LEMMA OverlayIsMap ==
  ASSUME NEW b \in Maps, NEW m \in Maps
  PROVE  Overlay(b, m) \in Maps
BY DEF Overlay, Maps

\* Three overlays on an empty builder leave the last value of every key.
LEMMA OverlayThrice ==
  ASSUME NEW u \in Maps, NEW v \in Maps, NEW w \in Maps
  PROVE  Overlay(Overlay(Overlay(Empty, u), v), w) = Plain!LastOf(u, v, w)
<1>1. \A k \in AllNames : Overlay(Empty, u)[k] = u[k]
  BY DEF Overlay, Empty
<1>2. \A k \in AllNames : Overlay(Overlay(Empty, u), v)[k] = IF v[k] # Missing THEN v[k] ELSE u[k]
  BY <1>1 DEF Overlay
<1> QED
  BY <1>2 DEF Overlay, Plain!LastOf, Plain!AllNames, AllNames

\* Make takes a map that nobody has, and leaves those that somebody has.
LEMMA MakeIsNew ==
  ASSUME TypeOK, NEW m \in Maps, NEW r \in Refs, Make(r, m)
  PROVE  /\ obj' \in [Refs -> Maps]
         /\ Fresh(r)
         /\ DerefNext(r) = m
         /\ \A q \in Refs : ~Fresh(q) => obj'[q] = obj[q]
BY EmptyIsMap, StateAssumption DEF TypeOK, Make, DerefNext

\* A clone has the contents of what it is made from, and is nobody else's.
LEMMA CloneIsNew ==
  ASSUME TypeOK, NEW m \in Maps, NEW r \in Refs \cup {Nil}, CloneMap(r, m)
  PROVE  /\ obj' \in [Refs -> Maps]
         /\ r # Nil => Fresh(r)
         /\ DerefNext(r) = m
         /\ \A q \in Refs : ~Fresh(q) => obj'[q] = obj[q]
<1>1. CASE m = Empty /\ r = Nil /\ UNCHANGED obj
  BY <1>1 DEF TypeOK, DerefNext
<1>2. CASE m # Empty /\ Make(r, m)
  <2>1. r \in Refs
    BY <1>2 DEF Make
  <2> QED
    BY <1>2, <2>1, MakeIsNew
<1> QED
  BY <1>1, <1>2 DEF CloneMap

\* What somebody has is not fresh, so it holds after such a step what it held before.
LEMMA HeldStays ==
  ASSUME TypeOK, \A q \in Refs : ~Fresh(q) => obj'[q] = obj[q]
  PROVE  /\ \A h \in Handles : DerefNext(st[h]) = Deref(st[h])
         /\ DerefNext(bld) = Deref(bld)
         /\ DerefNext(given) = Deref(given)
BY DEF TypeOK, Fresh, Deref, DerefNext

----------------------------------------------------------------------------
(* What the builder is told to hold, whether it has a map or not. *)

\* Storing changes what the builder holds, and no state and no given map.
LEMMA StoreStep ==
  ASSUME StateInv, NEW m \in Maps, Store(m)
  PROVE  /\ StateInv'
         /\ bld' # Nil /\ DerefNext(bld') = m
         /\ \A h \in Handles : DerefNext(st[h]) = Deref(st[h])
         /\ DerefNext(given) = Deref(given)
<1> USE StateAssumption DEF StateInv, TypeOK, Unshared
<1>1. CASE bld # Nil /\ obj' = [obj EXCEPT ![bld] = m] /\ UNCHANGED bld
  BY <1>1 DEF Store, Deref, DerefNext
<1>2. ASSUME NEW r \in Refs, bld = Nil, Make(r, m), bld' = r
      PROVE  /\ StateInv'
             /\ bld' # Nil /\ DerefNext(bld') = m
             /\ \A h \in Handles : DerefNext(st[h]) = Deref(st[h])
             /\ DerefNext(given) = Deref(given)
  <2>1. StateInv'
    BY <1>2, MakeIsNew DEF Store, Fresh
  <2> QED
    BY <1>2, <2>1, MakeIsNew, HeldStays
<1> QED
  BY <1>1, <1>2 DEF Store

----------------------------------------------------------------------------
(* The three things that a map can become: a state's, the builder's, the given one. *)

\* A new map for the state in h.
LEMMA AssignStep ==
  ASSUME StateInv, NEW h \in Handles, NEW m \in Maps, NEW r \in Refs \cup {Nil},
         CloneMap(r, m) \/ Make(r, m),
         st' = [st EXCEPT ![h] = r], UNCHANGED <<bld, given, panicked>>
  PROVE  StateInv' /\ Plain!Assign(h, m)
<1>1. /\ obj' \in [Refs -> Maps]
      /\ r # Nil => Fresh(r)
      /\ DerefNext(r) = m
      /\ \A q \in Refs : ~Fresh(q) => obj'[q] = obj[q]
  BY CloneIsNew, MakeIsNew DEF StateInv, Make
<1>2. StateInv'
  BY <1>1, StateAssumption DEF StateInv, TypeOK, Unshared, Fresh
<1>3. /\ \A g \in Handles : DerefNext(st[g]) = Deref(st[g])
      /\ Deref(bld)' = Deref(bld) /\ Deref(given)' = Deref(given)
  BY <1>1, HeldStays DEF StateInv, Deref, DerefNext
<1>4. \A g \in Handles : Deref(st[g])' = IF g = h THEN m ELSE Deref(st[g])
  BY <1>1, <1>3 DEF StateInv, TypeOK, Deref, DerefNext
<1> QED
  BY <1>2, <1>3, <1>4 DEF Plain!Assign

\* A new map for the builder.
LEMMA RebuildStep ==
  ASSUME StateInv, NEW m \in Maps, NEW r \in Refs \cup {Nil},
         CloneMap(r, m) \/ Make(r, m),
         bld' = r, UNCHANGED <<st, given, panicked>>
  PROVE  StateInv' /\ Plain!Rebuild(m)
<1>1. /\ obj' \in [Refs -> Maps]
      /\ r # Nil => Fresh(r)
      /\ DerefNext(r) = m
      /\ \A q \in Refs : ~Fresh(q) => obj'[q] = obj[q]
  BY CloneIsNew, MakeIsNew DEF StateInv, Make
<1>2. StateInv'
  BY <1>1, StateAssumption DEF StateInv, TypeOK, Unshared, Fresh
<1>3. /\ \A g \in Handles : Deref(st[g])' = Deref(st[g])
      /\ Deref(bld)' = m /\ Deref(given)' = Deref(given)
  BY <1>1, HeldStays DEF StateInv, Deref, DerefNext
<1> QED
  BY <1>2, <1>3 DEF Plain!Rebuild

\* A new map for the caller of Values.
LEMMA HandStep ==
  ASSUME StateInv, NEW m \in Maps, NEW r \in Refs \cup {Nil}, CloneMap(r, m),
         given' = r, UNCHANGED <<st, bld, panicked>>
  PROVE  StateInv' /\ Plain!Hand(m)
<1>1. /\ obj' \in [Refs -> Maps]
      /\ r # Nil => Fresh(r)
      /\ DerefNext(r) = m
      /\ \A q \in Refs : ~Fresh(q) => obj'[q] = obj[q]
  BY CloneIsNew DEF StateInv
<1>2. StateInv'
  BY <1>1, StateAssumption DEF StateInv, TypeOK, Unshared, Fresh
<1>3. /\ \A g \in Handles : Deref(st[g])' = Deref(st[g])
      /\ Deref(bld)' = Deref(bld) /\ Deref(given)' = m
  BY <1>1, HeldStays DEF StateInv, Deref, DerefNext
<1> QED
  BY <1>2, <1>3 DEF Plain!Hand

----------------------------------------------------------------------------
\* Every step keeps the invariant, and is one on values.
LEMMA StateStep ==
  ASSUME StateInv, [Next]_vars
  PROVE  StateInv' /\ [Plain!Next]_(Plain!vars)
<1> USE StateAssumption
<1> DEFINE Goal == StateInv' /\ [Plain!Next]_(Plain!vars)
<1>m. /\ \A h \in Handles : Deref(st[h]) \in Maps
      /\ Deref(bld) \in Maps /\ Deref(given) \in Maps
  BY DerefIsMap DEF StateInv, TypeOK
<1>e. Plain!Empty = Empty
  BY DEF Plain!Empty, Plain!AllNames, Empty, AllNames
<1>1. ASSUME ~panicked, NEW h \in Handles, NewState(h) PROVE Goal
  <2>1. /\ StateInv'
        /\ \A g \in Handles : Deref(st[g])' = IF g = h THEN Empty ELSE Deref(st[g])
        /\ Deref(bld)' = Deref(bld) /\ Deref(given)' = Deref(given)
    BY <1>1 DEF NewState, StateInv, TypeOK, Unshared, Deref
  <2>2. Plain!Assign(h, Plain!Empty)
    BY <1>1, <1>e, <2>1 DEF NewState, Plain!Assign
  <2> QED
    BY <1>1, <2>1, <2>2 DEF Plain!Next
<1>2. ASSUME ~panicked, NEW h \in Handles, ToBuilder(h) PROVE Goal
  <2>1. PICK r \in Refs \cup {Nil} : CloneMap(r, Deref(st[h])) /\ bld' = r
    BY <1>2 DEF ToBuilder
  <2>2. StateInv' /\ Plain!Rebuild(Deref(st[h]))
    BY <1>2, <1>m, <2>1, RebuildStep DEF ToBuilder
  <2> QED
    BY <1>2, <2>2 DEF Plain!Next
<1>3. ASSUME ~panicked, NEW h \in Handles, Build(h) PROVE Goal
  <2>1. PICK r \in Refs \cup {Nil} : CloneMap(r, Deref(bld)) /\ st' = [st EXCEPT ![h] = r]
    BY <1>3 DEF Build
  <2>2. StateInv' /\ Plain!Assign(h, Deref(bld))
    BY <1>3, <1>m, <2>1, AssignStep DEF Build
  <2> QED
    BY <1>3, <2>2 DEF Plain!Next
<1>4. ASSUME ~panicked, NEW h \in Handles, GetValues(h) PROVE Goal
  <2>1. PICK r \in Refs \cup {Nil} : CloneMap(r, Deref(st[h])) /\ given' = r
    BY <1>4 DEF GetValues
  <2>2. StateInv' /\ Plain!Hand(Deref(st[h]))
    BY <1>4, <1>m, <2>1, HandStep DEF GetValues
  <2> QED
    BY <1>4, <2>2 DEF Plain!Next
<1>5. ASSUME ~panicked, NEW h \in Handles, NEW g \in Handles, CopyState(h, g) PROVE Goal
  <2>1. /\ StateInv'
        /\ \A e \in Handles : Deref(st[e])' = IF e = h THEN Deref(st[g]) ELSE Deref(st[e])
        /\ Deref(bld)' = Deref(bld) /\ Deref(given)' = Deref(given)
    BY <1>5 DEF CopyState, StateInv, TypeOK, Unshared, Deref
  <2>2. Plain!Assign(h, Deref(st[g]))
    BY <1>5, <2>1 DEF CopyState, Plain!Assign
  <2> QED
    BY <1>5, <2>1, <2>2 DEF Plain!Next
<1>6. ASSUME ~panicked, NEW h \in Handles, NEW g \in Handles, Terminate(h, g) PROVE Goal
  <2> DEFINE flagged == [Deref(st[h]) EXCEPT ![TerminatedKey] = TRUE]
  <2>1. ASSUME NEW r \in Refs, Make(r, flagged), st' = [st EXCEPT ![g] = r],
               Deref(st[h]) # Empty, UNCHANGED <<bld, given, panicked>>
        PROVE  Goal
    <3>1. flagged \in Maps
      BY <1>m DEF Maps
    <3>2. StateInv' /\ Plain!Assign(g, flagged)
      BY <2>1, <3>1, AssignStep
    <3>3. Plain!Terminate(h, g)
      BY <1>e, <2>1, <3>2 DEF Plain!Terminate
    <3> QED
      BY <1>6, <3>2, <3>3 DEF Plain!Next
  <2>2. CASE Deref(st[h]) = Empty /\ panicked' = TRUE /\ UNCHANGED <<obj, st, bld, given>>
    <3>1. StateInv'
      BY <2>2 DEF StateInv, TypeOK, Unshared
    <3>2. Plain!Terminate(h, g)
      BY <1>e, <2>2 DEF Plain!Terminate, Deref
    <3> QED
      BY <1>6, <3>1, <3>2 DEF Plain!Next
  <2> QED
    BY <1>6, <2>1, <2>2 DEF Terminate
<1>7. ASSUME ~panicked, NEW e \in Handles, NEW f \in Handles, NEW g \in Handles,
             NEW h \in Handles, MergeStates(e, f, g, h)
      PROVE  Goal
  <2> DEFINE merged == Overlay(Overlay(Overlay(Empty, Deref(st[e])), Deref(st[f])), Deref(st[g]))
  <2>1. PICK r \in Refs \cup {Nil} : CloneMap(r, merged) /\ st' = [st EXCEPT ![h] = r]
    BY <1>7 DEF MergeStates
  <2>2. merged \in Maps
    BY <1>m, EmptyIsMap, OverlayIsMap
  <2>3. merged = Plain!LastOf(Deref(st[e]), Deref(st[f]), Deref(st[g]))
    BY <1>m, OverlayThrice
  <2> HIDE DEF merged
  <2>4. StateInv' /\ Plain!Assign(h, merged)
    BY <1>7, <2>1, <2>2, AssignStep DEF MergeStates
  <2> QED
    BY <1>7, <2>3, <2>4 DEF Plain!Next
<1>8. ASSUME ~panicked, NewBuilder PROVE Goal
  <2>1. PICK r \in Refs : Make(r, Empty) /\ bld' = r
    BY <1>8 DEF NewBuilder
  <2>2. StateInv' /\ Plain!Rebuild(Empty)
    BY <1>8, <2>1, EmptyIsMap, RebuildStep DEF NewBuilder
  <2> QED
    BY <1>8, <1>e, <2>2 DEF Plain!Next
<1>s. ASSUME NEW m \in Maps, Store(m) PROVE StateInv' /\ Plain!Rebuild(m)
  <2>1. UNCHANGED <<st, given, panicked>>
    BY <1>s DEF Store
  <2>2. /\ StateInv'
        /\ \A g \in Handles : Deref(st[g])' = Deref(st[g])
        /\ Deref(bld)' = m /\ Deref(given)' = Deref(given)
    BY <1>s, <2>1, StoreStep DEF Deref, DerefNext
  <2> QED
    BY <2>1, <2>2 DEF Plain!Rebuild
<1>9. ASSUME ~panicked, AddAll PROVE Goal
  <2> DEFINE both == Overlay(Deref(bld), Deref(given))
  <2>1. both \in Maps
    BY <1>m, OverlayIsMap
  <2>2. StateInv' /\ Plain!Rebuild(both)
    BY <1>9, <1>s, <2>1 DEF AddAll
  <2>3. both = Plain!LastOf(Plain!Empty, Deref(bld), Deref(given))
    BY <1>m DEF Overlay, Maps, Plain!LastOf, Plain!Empty, Plain!AllNames, AllNames
  <2> QED
    BY <1>9, <2>2, <2>3 DEF Plain!Next
<1>10. ASSUME ~panicked, NEW k \in Names, NEW v \in Values, SetValue(k, v) PROVE Goal
  <2> DEFINE set == [Deref(bld) EXCEPT ![k] = v]
  <2>1. set \in Maps
    BY <1>m DEF Maps
  <2>2. StateInv' /\ Plain!Rebuild(set)
    BY <1>10, <1>s, <2>1 DEF SetValue
  <2> QED
    BY <1>10, <2>2 DEF Plain!Next
<1>11. ASSUME ~panicked, NEW k \in Names, NEW v \in Values, WriteToGiven(k, v) PROVE Goal
  <2> DEFINE set == [Deref(given) EXCEPT ![k] = v]
  <2>1. set \in Maps
    BY <1>m DEF Maps
  <2>2. given # Nil /\ obj' = [obj EXCEPT ![given] = set] /\ UNCHANGED <<st, bld, given, panicked>>
    BY <1>11 DEF WriteToGiven, Deref
  <2> HIDE DEF set
  <2>3. StateInv'
    BY <2>1, <2>2 DEF StateInv, TypeOK, Unshared
  <2>4. /\ \A g \in Handles : Deref(st[g])' = Deref(st[g])
        /\ Deref(bld)' = Deref(bld) /\ Deref(given)' = set
    BY <2>2 DEF StateInv, TypeOK, Unshared, Deref
  <2>5. Plain!Hand(set)
    BY <2>2, <2>4 DEF Plain!Hand
  <2> QED
    BY <1>11, <2>3, <2>5 DEF Plain!Next, set
<1>12. CASE UNCHANGED vars
  BY <1>12 DEF vars, StateInv, TypeOK, Unshared, Deref, Plain!vars
<1> QED
  BY <1>1, <1>2, <1>3, <1>4, <1>5, <1>6, <1>7, <1>8, <1>9, <1>10, <1>11, <1>12 DEF Next

\* The first state: everything is empty.
LEMMA InitStateInv ==
  ASSUME Init
  PROVE  StateInv /\ Plain!Init
BY EmptyIsMap DEF Init, StateInv, TypeOK, Unshared, Deref, Empty, AllNames,
  Plain!Init, Plain!Empty, Plain!AllNames

\* Types are kept, and no map that is written to (builder, Values) has two holders.
THEOREM StateInvariance == Spec => []StateInv
<1>1. StateInv /\ [Next]_vars => StateInv'
  BY StateStep
<1> QED
  BY <1>1, InitStateInv, PTL DEF Spec

\* The map that a builder writes to, and the map that State.Values has handed out
\* (state.go:83-91, 197), is the map of no State: cloneMap keeps states immutable.
THEOREM StatesAreNotWritten ==
  Spec => [](\A h \in Handles : st[h] = Nil \/ (st[h] # bld /\ st[h] # given))
<1>1. StateInv => \A h \in Handles : st[h] = Nil \/ (st[h] # bld /\ st[h] # given)
  BY DEF StateInv, Unshared
<1> QED
  BY <1>1, StateInvariance, PTL

\* States, builders and handed out maps behave as values (state.go:58-66), and of
\* merged states the last value of a key wins (state.go:115-124).
THEOREM StateRefinement == Spec => ImplementsValues
<1>1. StateInv /\ [Next]_vars => [Plain!Next]_(Plain!vars)
  BY StateStep
<1>2. Init => Plain!Init
  BY InitStateInv
<1> QED
  BY <1>1, <1>2, StateInvariance, PTL DEF Spec, ImplementsValues, Plain!Spec

----------------------------------------------------------------------------
(* Tasks: the invariant. *)

TaskTypeOK ==
  /\ reqPc \in ReqPlaces
  /\ stream \in BOOLEAN /\ bad \in BOOLEAN /\ body \in BOOLEAN
  /\ outcome \in Outcomes
  /\ layers \in Seq({"timeout", "retry"}) /\ Len(layers) <= MaxLayers
  /\ multi \in BOOLEAN
  /\ wPc \in Places
  /\ depth \in 0..(MaxLayers + 1)
  /\ attempt \in [Layers -> Nat]
  /\ timer \in [Layers -> {"off", "armed", "fired"}]
  /\ caller \in {"none", "deadline", "cancelled"}
  /\ tries \in Nat /\ late \in Nat
  /\ cut \in BOOLEAN

Shape ==
  /\ wPc = "idle" => depth = 0 /\ layers = <<>> /\ late = 0
  /\ wPc = "down" => depth \in 1..(Len(layers) + 1)
  /\ wPc \in {"request", "stream", "yield"} => depth = Len(layers) + 1
  /\ wPc = "up" => depth \in 0..Len(layers)
  /\ wPc = "request" <=> reqPc # "none"

Bodies ==
  /\ reqPc # "none" => stream = multi
  /\ wPc \notin {"request", "stream", "yield"} => ~body
  /\ reqPc \in {"prepare", "send"} => ~body
  /\ reqPc = "ended" /\ body => stream /\ outcome = "ok"

Timers ==
  \A d \in Layers : timer[d] # "off" =>
    /\ d \in DOMAIN layers /\ layers[d] = "timeout"
    /\ d <= depth
    /\ wPc = "down" => d < depth

Stopping ==
  /\ late <= 1
  /\ late = 1 => caller # "none"
  /\ late = 1 /\ wPc = "down" => depth \in DOMAIN layers /\ layers[depth] = "retry"

TaskInv == TaskTypeOK /\ Shape /\ Bodies /\ Timers /\ Stopping

\* No layers are a sequence of layers.
LEMMA NoLayers ==
  ASSUME NEW s, s = <<>>
  PROVE  s \in Seq({"timeout", "retry"}) /\ Len(s) = 0
OBVIOUS

\* What a step of the request itself may do to the variables of HttpClient.
LEMMA RequestStep ==
  ASSUME TaskInv, wPc = "request", UNCHANGED wrapVars,
         NEW c, PrepareRequest \/ SendFails(c) \/ Header \/ ReadFails \/ ReadAll \/ Drain
  PROVE  TaskInv'
<1> USE DEF wrapVars, TaskInv, TaskTypeOK, Shape, Bodies, ReqPlaces, Outcomes, ReqEnd
<1>1. reqPc' # "none"
  BY DEF PrepareRequest, SendFails, Header, ReadFails, ReadAll, Drain
<1>2. TaskTypeOK'
  BY DEF PrepareRequest, SendFails, Header, ReadFails, ReadAll, Drain
<1>3. Shape'
  BY <1>1
<1>4. Bodies'
  BY DEF PrepareRequest, SendFails, Header, ReadFails, ReadAll, Drain
<1>5. Timers' /\ Stopping'
  BY DEF Timers, Stopping
<1> QED
  BY <1>2, <1>3, <1>4, <1>5

\* The end of a stream closes the body and goes up.
LEMMA StreamStep ==
  ASSUME TaskInv, wPc \in {"stream", "yield"},
         NEW o \in Outcomes, StreamEnds(o)
  PROVE  TaskInv'
<1> USE MiddlewareAssumption DEF TaskInv, TaskTypeOK, StreamEnds
<1>1. depth - 1 = Len(layers) /\ Len(layers) \in Nat /\ depth - 1 \in 0..(MaxLayers + 1)
  BY DEF Shape
<1>2. TaskTypeOK'
  BY <1>1 DEF Places
<1>3. Shape'
  BY <1>1 DEF Shape
<1>4. Bodies'
  BY DEF Shape, Bodies
<1>5. Timers'
  BY <1>1 DEF Timers, Layers
<1>6. Stopping'
  BY DEF Stopping
<1> QED
  BY <1>2, <1>3, <1>4, <1>5, <1>6

\* Every step keeps the invariant.
LEMMA StepKeeps ==
  ASSUME TaskInv, [TaskNext]_taskVars
  PROVE  TaskInv'
<1> USE MiddlewareAssumption DEF TaskInv, TaskTypeOK, Shape, Bodies, Timers, Stopping, Places, ReqPlaces,
            Outcomes, Layers
<1>1. CASE Begin
  BY <1>1 DEF Begin, reqVars
<1>2. CASE Down
  <2>1. CASE Arm(depth)
    BY <1>2, <2>1 DEF Down, Arm
  <2>2. CASE NextTry(depth)
    <3>1. CASE Reasons(depth) # {}
      <4>1. depth \in 1..Len(layers) /\ depth \in Layers
        BY <1>2 DEF Down
      <4>2. TaskTypeOK'
        <5>1. /\ depth - 1 \in 0..(MaxLayers + 1)
              /\ attempt' = [attempt EXCEPT ![depth] = 0] /\ wPc' = "up" /\ depth' = depth - 1
              /\ outcome' = "RequestError"
              /\ UNCHANGED <<reqPc, stream, bad, body, layers, multi, timer, caller, tries,
                             late, cut>>
          BY <1>2, <2>2, <3>1, <4>1 DEF Down, NextTry
        <5> QED
          BY <5>1
      <4>3. Shape' /\ Bodies'
        BY <1>2, <2>2, <3>1, <4>1 DEF Down, NextTry
      <4>4. Timers' /\ Stopping'
        BY <1>2, <2>2, <3>1, <4>1 DEF Down, NextTry
      <4> QED
        BY <4>2, <4>3, <4>4
    <3>2. CASE Reasons(depth) = {}
      <4>1. caller = "none"
        BY <3>2 DEF Reasons
      <4> QED
        BY <1>2, <2>2, <3>2, <4>1 DEF Down, NextTry
    <3> QED
      BY <3>1, <3>2
  <2> QED
    BY <1>2, <2>1, <2>2 DEF Down
<1>3. CASE RunTask
  BY <1>3 DEF RunTask, ReqBegin
<1>4. CASE Request(PrepareRequest)
  BY <1>4, RequestStep DEF Request
<1>5. CASE RequestEnds
  BY <1>5 DEF RequestEnds
<1>6. CASE ReaderReturns
  <2>1. CASE wPc' = "stream" /\ UNCHANGED <<reqVars, layers, multi, depth, attempt, timer, caller,
                                            tries, late, cut>>
    BY <1>6, <2>1 DEF ReaderReturns, reqVars
  <2>2. CASE StreamEnds("ok")
    BY <1>6, <2>2, StreamStep DEF ReaderReturns
  <2> QED
    BY <1>6, <2>1, <2>2 DEF ReaderReturns
<1>7. CASE Up
  <2>1. depth \in 1..Len(layers) /\ depth \in Layers /\ UNCHANGED <<reqVars, layers, multi, caller, late>>
    BY <1>7 DEF Up
  <2>2. CASE layers[depth] = "timeout" /\ timer' = [timer EXCEPT ![depth] = "off"]
             /\ depth' = depth - 1 /\ UNCHANGED <<wPc, attempt>>
    BY <1>7, <2>1, <2>2 DEF Up, reqVars
  <2>3. CASE layers[depth] = "retry" /\ attempt' = [attempt EXCEPT ![depth] = 0]
             /\ depth' = depth - 1 /\ UNCHANGED <<wPc, timer>>
    BY <1>7, <2>1, <2>3 DEF Up, reqVars
  <2>4. CASE layers[depth] = "retry" /\ attempt' = [attempt EXCEPT ![depth] = @ + 1]
             /\ wPc' = "down" /\ UNCHANGED <<depth, timer>>
    BY <1>7, <2>1, <2>4 DEF Up, reqVars
  <2> QED
    BY <1>7, <2>2, <2>3, <2>4 DEF Up, LeaveLayer
<1>8. CASE Return
  <2>1. \A d \in Layers : timer[d] = "off"
    BY <1>8 DEF Return
  <2>2. Timers'
    BY <1>8, <2>1 DEF Return
  <2>3. TaskTypeOK'
    <3>1. layers' \in Seq({"timeout", "retry"}) /\ Len(layers') <= MaxLayers
      BY <1>8, NoLayers DEF Return
    <3> QED
      BY <1>8, <3>1 DEF Return
  <2>4. Shape' /\ Bodies' /\ Stopping'
    BY <1>8, NoLayers DEF Return
  <2> QED
    BY <2>2, <2>3, <2>4
<1>9. CASE Server
  BY <1>9, RequestStep DEF Server, Request, Answered
<1>10. CASE Interrupt
  BY <1>10, RequestStep DEF Interrupt, Request, Interrupted
<1>11. CASE Yield
  BY <1>11 DEF Yield, reqVars
<1>12. CASE EndOfStream
  BY <1>12, StreamStep DEF EndOfStream
<1>13. CASE StreamInterrupted
  BY <1>13, StreamStep DEF StreamInterrupted
<1>14. CASE CallerDone
  BY <1>14 DEF CallerDone, reqVars
<1>15. ASSUME NEW d \in Layers, TimerFires(d) PROVE TaskInv'
  BY <1>15 DEF TimerFires, reqVars
<1>16. CASE UNCHANGED taskVars
  BY <1>16 DEF taskVars, reqVars, wrapVars
<1> QED
  BY <1>1, <1>2, <1>3, <1>4, <1>5, <1>6, <1>7, <1>8, <1>9, <1>10, <1>11, <1>12, <1>13, <1>14,
     <1>15, <1>16
  DEF TaskNext, Step

\* The first state: no call.
LEMMA InitTaskInv ==
  ASSUME TaskInit
  PROVE  TaskInv
<1> USE MiddlewareAssumption DEF TaskInit, ReqInit
<1>1. TaskTypeOK
  <2>1. layers \in Seq({"timeout", "retry"}) /\ Len(layers) <= MaxLayers
    BY NoLayers
  <2>2. depth \in 0..(MaxLayers + 1) /\ tries \in Nat /\ late \in Nat
    OBVIOUS
  <2>3. attempt \in [Layers -> Nat] /\ timer \in [Layers -> {"off", "armed", "fired"}]
    OBVIOUS
  <2> QED
    BY <2>1, <2>2, <2>3, Zenon DEF TaskTypeOK, Places, ReqPlaces, Outcomes
<1>2. Shape /\ Bodies /\ Timers /\ Stopping
  BY DEF Shape, Bodies, Timers, Stopping, Layers
<1> QED
  BY <1>1, <1>2 DEF TaskInv

\* A call of a wrapped task goes down and up through its layers, with types kept.
THEOREM TaskInvariance == TaskSpec => []TaskInv
<1>1. TaskInv /\ [TaskNext]_taskVars => TaskInv'
  BY StepKeeps
<1>2. TaskInit => TaskInv
  BY InitTaskInv
<1> QED
  BY <1>1, <1>2, PTL DEF TaskSpec

\* No answer's body and no timer outlives what it belongs to (httpclient.go:126, 178;
\* task.go:76, 87).
THEOREM NothingIsHeld == TaskSpec => []NothingHeld
<1>1. TaskInv => NothingHeld
  BY DEF TaskInv, TaskTypeOK, Shape, Bodies, Timers, NothingHeld, Places
<1> QED
  BY <1>1, TaskInvariance, PTL

\* With the caller's context done, at most one more attempt (task.go:120), however the
\* retries are nested.
THEOREM RetriesStop == TaskSpec => []RetryStops
<1>1. TaskInv => RetryStops
  BY DEF TaskInv, Stopping, RetryStops
<1> QED
  BY <1>1, TaskInvariance, PTL

----------------------------------------------------------------------------
(* Tasks: counting the runs. *)

\* The defining equation of Runs, of any function.
RunsEq(f) ==
  f = [d \in 0..Len(layers) |-> IF d = Len(layers) THEN 1
                                ELSE IF layers[d + 1] = "retry" THEN Attempts * f[d + 1]
                                ELSE f[d + 1]]

\* How many runs the failed attempts of the layers 1..d stand for: the attempts are the
\* digits of a number, Runs their weights.
Spent[d \in 0..Len(layers)] == IF d = 0 THEN 0 ELSE Spent[d - 1] + attempt[d] * Runs[d]

SpentEq(f) == f = [d \in 0..Len(layers) |-> IF d = 0 THEN 0 ELSE f[d - 1] + attempt[d] * Runs[d]]

\* Runs is defined: a function that satisfies the equation on (n - k)..n extends to one
\* that does on (n - k - 1)..n.
LEMMA RunsIs ==
  ASSUME TaskTypeOK
  PROVE  RunsEq(Runs) /\ Runs \in [0..Len(layers) -> Nat \ {0}]
<1> USE MiddlewareAssumption
<1>n. PICK n \in Nat : n = Len(layers)
  BY DEF TaskTypeOK
<1> DEFINE Times(d, x) == IF layers[d + 1] = "retry" THEN Attempts * x ELSE x
           Eq(f, k) == \A d \in k..n : f[d] = IF d = n THEN 1 ELSE Times(d, f[d + 1])
           Some(k) == k <= n => \E f \in [0..n -> Nat \ {0}] : Eq(f, n - k)
           S == {k \in Nat : Some(k)}
<1>s. ASSUME NEW d, NEW x \in Nat \ {0} PROVE Times(d, x) \in Nat \ {0}
  <2>1. Attempts * x \in Nat /\ Attempts * x > 0
    OBVIOUS
  <2> QED
    BY <2>1
<1> HIDE DEF Times
<1>1. 0 \in S
  <2>1. [d \in 0..n |-> 1] \in [0..n -> Nat \ {0}] /\ Eq([d \in 0..n |-> 1], n - 0)
    OBVIOUS
  <2> QED
    BY <2>1
<1>2. ASSUME NEW k \in Nat, k \in S
      PROVE  k + 1 \in S
  <2> SUFFICES ASSUME k + 1 <= n PROVE Some(k + 1)
    OBVIOUS
  <2>1. PICK f \in [0..n -> Nat \ {0}] : Eq(f, n - k)
    BY <1>2
  <2>2. PICK u \in 0..(n - 1) : u = n - (k + 1)
    OBVIOUS
  <2> DEFINE g == [d \in 0..n |-> IF d = u THEN Times(u, f[u + 1]) ELSE f[d]]
  <2>3. Times(u, f[u + 1]) \in Nat \ {0}
    BY <1>s
  <2>4. g \in [0..n -> Nat \ {0}]
    BY <2>3
  <2>5. Eq(g, u)
    BY <2>1, <2>2
  <2> QED
    BY <2>2, <2>4, <2>5
<1>3. n \in S
  <2>1. \A k \in Nat : k \in S => k + 1 \in S
    BY <1>2
  <2> HIDE DEF S
  <2> QED
    BY <1>1, <2>1, Induction
<1>4. PICK f \in [0..n -> Nat \ {0}] : Eq(f, 0)
  BY <1>3
<1>5. RunsEq(f)
  BY <1>4, <1>n DEF RunsEq, Times
<1>6. Runs = CHOOSE h : RunsEq(h)
  BY DEF Runs, RunsEq
<1>7. RunsEq(Runs)
  BY <1>5, <1>6
<1> DEFINE B == {k \in Nat : k <= n => Runs[n - k] \in Nat \ {0}}
<1>8. 0 \in B
  BY <1>7, <1>n DEF RunsEq
<1>9. ASSUME NEW k \in Nat, k \in B PROVE k + 1 \in B
  <2> SUFFICES ASSUME k + 1 <= n PROVE Runs[n - (k + 1)] \in Nat \ {0}
    OBVIOUS
  <2>1. PICK u \in 0..(n - 1) : u = n - (k + 1)
    OBVIOUS
  <2>2. Runs[u] = Times(u, Runs[u + 1])
    BY <1>7, <1>n DEF RunsEq, Times
  <2>3. Runs[u + 1] \in Nat \ {0}
    BY <1>9, <2>1
  <2> QED
    BY <1>s, <2>1, <2>2, <2>3
<1>10. \A k \in Nat : k <= n => Runs[n - k] \in Nat \ {0}
  <2>1. \A k \in Nat : k \in B => k + 1 \in B
    BY <1>9
  <2>2. Nat \subseteq B
    <3> HIDE DEF B
    <3> QED
      BY <1>8, <2>1, Induction
  <2> QED
    BY <2>2
<1>11. \A d \in 0..n : Runs[d] \in Nat \ {0}
  <2> SUFFICES ASSUME NEW d \in 0..n PROVE Runs[d] \in Nat \ {0}
    OBVIOUS
  <2>1. PICK k \in Nat : k <= n /\ n - k = d
    <3>1. n - d \in Nat /\ n - d <= n /\ n - (n - d) = d
      OBVIOUS
    <3> QED
      BY <3>1
  <2>2. Runs[n - k] \in Nat \ {0}
    BY <1>10, <2>1
  <2> QED
    BY <2>1, <2>2
<1> QED
  BY <1>7, <1>11, <1>n DEF RunsEq

\* Spent is defined, likewise.
LEMMA SpentIs ==
  ASSUME TaskTypeOK
  PROVE  SpentEq(Spent) /\ Spent \in [0..Len(layers) -> Nat]
<1> USE MiddlewareAssumption
<1>n. PICK n \in Nat : n = Len(layers) /\ n <= MaxLayers
  BY DEF TaskTypeOK
<1> DEFINE Term(d) == attempt[d] * Runs[d]
           Eq(f, k) == \A d \in 0..k : f[d] = IF d = 0 THEN 0 ELSE f[d - 1] + Term(d)
           Some(k) == k <= n => \E f \in [0..n -> Nat] : Eq(f, k)
           S == {k \in Nat : Some(k)}
<1>t. \A d \in 1..n : Term(d) \in Nat
  <2> SUFFICES ASSUME NEW d \in 1..n PROVE Term(d) \in Nat
    OBVIOUS
  <2>0. d \in Layers
    BY <1>n DEF Layers
  <2>1. attempt[d] \in Nat /\ Runs[d] \in Nat
    BY <1>n, <2>0, RunsIs DEF TaskTypeOK
  <2> QED
    BY <2>1
<1> HIDE DEF Term
<1>1. 0 \in S
  <2>1. [d \in 0..n |-> 0] \in [0..n -> Nat] /\ Eq([d \in 0..n |-> 0], 0)
    OBVIOUS
  <2> QED
    BY <2>1
<1>2. ASSUME NEW k \in Nat, k \in S
      PROVE  k + 1 \in S
  <2> SUFFICES ASSUME k + 1 <= n PROVE Some(k + 1)
    OBVIOUS
  <2>1. PICK f \in [0..n -> Nat] : Eq(f, k)
    BY <1>2
  <2> DEFINE g == [d \in 0..n |-> IF d = k + 1 THEN f[k] + Term(k + 1) ELSE f[d]]
  <2>2. g \in [0..n -> Nat]
    BY <1>t
  <2>3. Eq(g, k + 1)
    BY <2>1
  <2> QED
    BY <2>2, <2>3
<1>3. n \in S
  <2>1. \A k \in Nat : k \in S => k + 1 \in S
    BY <1>2
  <2> HIDE DEF S
  <2> QED
    BY <1>1, <2>1, Induction
<1>4. PICK f \in [0..n -> Nat] : Eq(f, n)
  BY <1>3
<1>5. SpentEq(f)
  BY <1>4, <1>n DEF SpentEq, Term
<1>6. Spent = CHOOSE h : SpentEq(h)
  BY DEF Spent, SpentEq
<1>7. SpentEq(Spent)
  BY <1>5, <1>6
<1>8. Spent[0] = 0 /\ \A d \in 1..n : Spent[d] = Spent[d - 1] + Term(d)
  BY <1>7, <1>n DEF SpentEq, Term
<1> DEFINE B == {k \in Nat : k <= n => Spent[k] \in Nat}
<1>9. 0 \in B
  BY <1>8
<1>10. ASSUME NEW k \in Nat, k \in B PROVE k + 1 \in B
  <2> SUFFICES ASSUME k + 1 <= n PROVE Spent[k + 1] \in Nat
    OBVIOUS
  <2>1. Spent[k] \in Nat /\ Term(k + 1) \in Nat
    BY <1>10, <1>t
  <2>2. Spent[k + 1] = Spent[k] + Term(k + 1)
    BY <1>8
  <2> QED
    BY <2>1, <2>2
<1>11. \A d \in 0..n : Spent[d] \in Nat
  <2>1. \A k \in Nat : k \in B => k + 1 \in B
    BY <1>10
  <2>2. Nat \subseteq B
    <3> HIDE DEF B
    <3> QED
      BY <1>9, <2>1, Induction
  <2> QED
    BY <2>2
<1> QED
  BY <1>7, <1>11, <1>n DEF SpentEq

\* Which attempts are counted, and that only a timeout outside of a retry can make it
\* find its context done.
Attempting ==
  /\ \A d \in Layers : attempt[d] < Attempts
  /\ \A d \in Layers : attempt[d] # 0 => d \in DOMAIN layers /\ d <= depth /\ layers[d] = "retry"
  /\ \A d \in Layers, e \in RetryLayers : timer[d] = "fired" /\ d < e => cut

\* What the failed attempts stand for and one more run of the layers below: not more
\* than all there are.
LEMMA SpentBound ==
  ASSUME TaskTypeOK, Attempting, NEW d \in 0..Len(layers)
  PROVE  Spent[d] + Runs[d] <= Runs[0]
<1> USE MiddlewareAssumption
<1>n. PICK n \in Nat : n = Len(layers) /\ n <= MaxLayers
  BY DEF TaskTypeOK
<1>1. /\ SpentEq(Spent) /\ RunsEq(Runs)
      /\ \A e \in 0..n : Spent[e] \in Nat /\ Runs[e] \in Nat
      /\ \A e \in 1..n : attempt[e] \in Nat
  <2>1. \A e \in 1..n : e \in Layers
    BY <1>n DEF Layers
  <2>2. \A e \in 1..n : attempt[e] \in Nat
    BY <2>1 DEF TaskTypeOK
  <2> QED
    BY <1>n, <2>2, SpentIs, RunsIs
<1> DEFINE B == {k \in Nat : k <= n => Spent[k] + Runs[k] <= Runs[0]}
<1>2. 0 \in B
  BY <1>1, <1>n DEF SpentEq
<1>3. ASSUME NEW k \in Nat, k \in B PROVE k + 1 \in B
  <2> SUFFICES ASSUME k + 1 <= n PROVE Spent[k + 1] + Runs[k + 1] <= Runs[0]
    OBVIOUS
  <2>1. PICK r \in Nat, s \in Nat, a \in Nat : r = Runs[k + 1] /\ s = Spent[k] /\ a = attempt[k + 1]
    BY <1>1
  <2>2. Spent[k + 1] = s + a * r
    BY <1>1, <1>n, <2>1 DEF SpentEq
  <2>3. s + Runs[k] <= Runs[0]
    BY <1>3, <2>1
  <2>4. a < Attempts /\ (a # 0 => layers[k + 1] = "retry")
    BY <1>n, <2>1 DEF Attempting, Layers
  <2>5. Runs[k] = IF layers[k + 1] = "retry" THEN Attempts * r ELSE r
    BY <1>1, <1>n, <2>1 DEF RunsEq
  <2>6. a * r + r <= Runs[k]
    <3>1. CASE a = 0
      <4>1. a * r = 0 /\ r <= Attempts * r
        BY <3>1
      <4> QED
        BY <2>5, <4>1
    <3>2. CASE a # 0
      <4>1. Runs[k] = Attempts * r
        BY <2>4, <2>5, <3>2
      <4>2. PICK c \in Nat : Attempts = a + 1 + c
        <5>1. Attempts = a + 1 + (Attempts - a - 1) /\ Attempts - a - 1 \in Nat
          BY <2>4
        <5> QED
          BY <5>1
      <4>3. (a + 1 + c) * r = a * r + r + c * r /\ c * r \in Nat
        OBVIOUS
      <4> QED
        BY <4>1, <4>2, <4>3
    <3> QED
      BY <3>1, <3>2
  <2>7. PICK p \in Nat, x \in Nat, y \in Nat : p = a * r /\ x = Runs[0] /\ y = Runs[k]
    <3>1. a * r \in Nat /\ Runs[0] \in Nat /\ Runs[k] \in Nat
      BY <1>1
    <3> QED
      BY <3>1
  <2>8. s + y <= x /\ p + r <= y
    BY <2>3, <2>6, <2>7
  <2>9. s + p + r <= x
    BY <2>8
  <2> QED
    BY <2>1, <2>2, <2>7, <2>9
<1>4. Nat \subseteq B
  <2>1. \A k \in Nat : k \in B => k + 1 \in B
    BY <1>3
  <2> HIDE DEF B
  <2> QED
    BY <1>2, <2>1, Induction
<1> QED
  BY <1>4, <1>n

\* The caller's context is done, or a timeout outside of a retry has fired.
Told == caller # "none" \/ cut

\* So many runs are behind the goroutine.
Behind == IF depth <= Len(layers) THEN Spent[depth] ELSE Spent[Len(layers)]

\* tries is n, or what there is of n when something has cut it short.
TriesAre(n) == tries <= n /\ (tries = n \/ Told)

\* tries counts the runs of the failed attempts and the one that is made or has just
\* been made.
Counted ==
  /\ wPc = "idle" => tries = 0
  /\ wPc = "down" => TriesAre(Behind)
  /\ wPc \in {"request", "stream", "yield"} => TriesAre(Behind + 1)
  /\ wPc = "up" => /\ tries <= Spent[depth] + Runs[depth]
                   /\ outcome # "ok" => TriesAre(Spent[depth] + Runs[depth])

\* Runs and Spent depend on the layers and their attempts only.
LEMMA CountFrame ==
  ASSUME UNCHANGED <<layers, attempt>>
  PROVE  Runs' = Runs /\ Spent' = Spent
BY DEF Runs, Spent

\* What is spent at a layer depends on the attempts of the layers down to it.
LEMMA SpentBelow ==
  ASSUME TaskTypeOK, TaskTypeOK', UNCHANGED layers, NEW d \in 0..Len(layers),
         \A e \in 1..d : attempt'[e] = attempt[e]
  PROVE  Spent'[d] = Spent[d]
<1>n. PICK n \in Nat : n = Len(layers)
  BY DEF TaskTypeOK
<1>1. SpentEq(Spent)
  BY SpentIs
<1>2. SpentEq(Spent)'
  BY SpentIs, PTL
<1>3. Runs' = Runs
  BY DEF Runs
<1> DEFINE B == {k \in Nat : k <= d => Spent'[k] = Spent[k]}
<1>4. 0 \in B
  BY <1>1, <1>2, <1>n DEF SpentEq
<1>5. ASSUME NEW k \in Nat, k \in B PROVE k + 1 \in B
  BY <1>1, <1>2, <1>3, <1>5, <1>n DEF SpentEq
<1>6. Nat \subseteq B
  <2>1. \A k \in Nat : k \in B => k + 1 \in B
    BY <1>5
  <2> HIDE DEF B
  <2> QED
    BY <1>4, <2>1, Induction
<1> QED
  BY <1>6, <1>n

\* The layers' numbers, and what their functions are there.
LEMMA LayerFacts ==
  ASSUME TaskTypeOK
  PROVE  /\ Len(layers) \in Nat /\ Len(layers) <= MaxLayers /\ DOMAIN layers = 1..Len(layers)
         /\ \A d \in 1..Len(layers) : d \in Layers
         /\ \A d \in 0..Len(layers) : Spent[d] \in Nat /\ Runs[d] \in Nat \ {0}
         /\ Spent[0] = 0 /\ Runs[Len(layers)] = 1
         /\ \A d \in 1..Len(layers) :
              /\ attempt[d] \in Nat
              /\ Spent[d] = Spent[d - 1] + attempt[d] * Runs[d]
              /\ Runs[d - 1] = IF layers[d] = "retry" THEN Attempts * Runs[d] ELSE Runs[d]
<1> USE MiddlewareAssumption
<1>1. Len(layers) \in Nat /\ Len(layers) <= MaxLayers /\ DOMAIN layers = 1..Len(layers)
  BY DEF TaskTypeOK
<1>2. \A d \in 1..Len(layers) : d \in Layers
  BY <1>1 DEF Layers
<1>3. \A d \in 1..Len(layers) : attempt[d] \in Nat
  BY <1>2 DEF TaskTypeOK
<1>4. Spent[0] = 0 /\ \A d \in 1..Len(layers) : Spent[d] = Spent[d - 1] + attempt[d] * Runs[d]
  BY <1>1, SpentIs DEF SpentEq
<1>5. RunsEq(Runs)
  BY RunsIs
<1>n. PICK n \in Nat : n = Len(layers)
  BY <1>1
<1>6. Runs[n] = 1
  BY <1>5, <1>n DEF RunsEq
<1>7. ASSUME NEW d \in 1..Len(layers)
      PROVE  Runs[d - 1] = IF layers[d] = "retry" THEN Attempts * Runs[d] ELSE Runs[d]
  <2>1. PICK c \in 0..(n - 1) : c + 1 = d /\ c = d - 1
    BY <1>n
  <2>2. Runs[c] = IF layers[c + 1] = "retry" THEN Attempts * Runs[c + 1] ELSE Runs[c + 1]
    BY <1>5, <1>n, <2>1 DEF RunsEq
  <2> QED
    BY <2>1, <2>2
<1>8. \A d \in 0..Len(layers) : Spent[d] \in Nat /\ Runs[d] \in Nat \ {0}
  BY <1>1, SpentIs, RunsIs
<1> QED
  BY <1>1, <1>2, <1>3, <1>4, <1>n, <1>6, <1>7, <1>8

\* The goroutine goes one layer further down: there no attempt was made yet.
LEMMA DescendKeeps ==
  ASSUME TaskInv, TaskInv', Attempting, Counted, wPc = "down", wPc' = "down",
         depth \in DOMAIN layers, depth' = depth + 1,
         UNCHANGED <<layers, attempt, caller, tries, cut>>,
         \A d \in Layers : timer'[d] = "fired" => timer[d] = "fired"
  PROVE  Attempting' /\ Counted'
<1> USE MiddlewareAssumption DEF TaskInv
<1>0. Len(layers) \in Nat /\ Len(layers) <= MaxLayers /\ depth \in 1..Len(layers)
  BY LayerFacts
<1>1. PICK n \in Nat, c \in Nat : n = Len(layers) /\ c = depth /\ c \in 1..n /\ n <= MaxLayers
  BY <1>0
<1>2. Attempting'
  BY <1>1, LayerFacts DEF Attempting, RetryLayers
<1>3. Runs' = Runs /\ Spent' = Spent
  BY CountFrame
<1>4. Spent'[IF c + 1 <= n THEN c + 1 ELSE n] = Spent[c]
  <2>1. CASE c + 1 <= n
    <3>1. c + 1 \in Layers /\ c + 1 \in 1..n
      BY <1>1, <2>1, LayerFacts
    <3>2. attempt[c + 1] = 0
      BY <1>1, <3>1 DEF Attempting, TaskTypeOK
    <3>3. Spent[c + 1] = Spent[c] + attempt[c + 1] * Runs[c + 1]
      <4>1. (c + 1) - 1 = c
        OBVIOUS
      <4> QED
        BY <1>1, <3>1, <4>1, LayerFacts
    <3>4. Runs[c + 1] \in Nat /\ Spent[c] \in Nat
      BY <1>1, <3>1, LayerFacts
    <3> QED
      BY <1>3, <2>1, <3>2, <3>3, <3>4
  <2>2. CASE c + 1 > n
    BY <1>1, <1>3, <2>2
  <2> QED
    BY <1>1, <2>1, <2>2
<1>5. Behind = Spent[c] /\ Behind' = Spent[c]
  BY <1>1, <1>4 DEF Behind
<1>6. Counted'
  BY <1>5 DEF Counted, TriesAre, Told
<1> QED
  BY <1>2, <1>6

\* WithRetry finds its context done: the attempts that are left are not made, and the
\* caller or a timeout further out has said so.
LEMMA RefuseKeeps ==
  ASSUME TaskInv, TaskInv', Attempting, Counted, wPc = "down", wPc' = "up",
         depth \in DOMAIN layers, layers[depth] = "retry", Reasons(depth) # {},
         depth' = depth - 1, attempt' = [attempt EXCEPT ![depth] = 0],
         UNCHANGED <<layers, timer, caller, tries, cut>>
  PROVE  Attempting' /\ Counted'
<1> USE MiddlewareAssumption DEF TaskInv
<1>0. Len(layers) \in Nat /\ Len(layers) <= MaxLayers /\ depth \in 1..Len(layers)
  BY LayerFacts
<1>1. PICK n \in Nat, c \in Nat : n = Len(layers) /\ c = depth /\ c \in 1..n /\ n <= MaxLayers
  BY <1>0
<1>2. \A d \in Layers : attempt'[d] = IF d = c THEN 0 ELSE attempt[d]
  BY <1>1 DEF TaskTypeOK
<1>3. Attempting'
  <2>1. \A d \in Layers : attempt'[d] # 0 => d # c /\ attempt[d] # 0
    BY <1>2
  <2>2. \A d \in Layers : d # c /\ d <= c => d <= c - 1
    BY <1>1 DEF Layers
  <2>3. \A d \in Layers : attempt'[d] < Attempts
    BY <1>2 DEF Attempting
  <2>4. \A d \in Layers : attempt'[d] # 0 => d \in DOMAIN layers /\ d <= c - 1 /\ layers[d] = "retry"
    BY <1>1, <2>1, <2>2 DEF Attempting
  <2> QED
    BY <1>1, <2>3, <2>4 DEF Attempting, RetryLayers
<1>4. Told
  <2>1. CASE caller # "none"
    BY <2>1 DEF Told
  <2>2. CASE caller = "none"
    <3>1. PICK e \in 1..c : timer[e] = "fired"
      BY <1>1, <2>2 DEF Reasons
    <3>2. e \in Layers
      BY <1>1 DEF Layers
    <3>3. e < c
      BY <1>1, <3>1, <3>2 DEF Timers
    <3>4. c \in RetryLayers /\ c \in Layers
      BY <1>1 DEF RetryLayers, Layers
    <3> QED
      BY <3>1, <3>2, <3>3, <3>4 DEF Attempting, Told
  <2> QED
    BY <2>1, <2>2
<1>5. tries <= Spent'[c - 1] + Runs'[c - 1]
  <2>1. Runs' = Runs
    BY DEF Runs
  <2>2. Spent'[c - 1] = Spent[c - 1]
    <3>1. \A e \in 1..(c - 1) : attempt'[e] = attempt[e]
      BY <1>1, <1>2 DEF Layers
    <3>2. c - 1 \in 0..n
      BY <1>1
    <3> QED
      BY <1>1, <3>1, <3>2, SpentBelow
  <2>3. PICK r \in Nat \ {0}, a \in Nat, s \in Nat : r = Runs[c] /\ a = attempt[c] /\ s = Spent[c - 1]
    <3>1. c - 1 \in 0..n /\ c \in 0..n
      BY <1>1
    <3> QED
      BY <1>1, <3>1, LayerFacts
  <2>4. Spent[c] = s + a * r /\ Runs[c - 1] = Attempts * r
    BY <1>1, <2>3, LayerFacts
  <2>5. a < Attempts
    BY <1>1, <2>3, LayerFacts DEF Attempting
  <2>6. a * r <= Attempts * r
    BY <2>5
  <2>7. tries <= Spent[c]
    BY <1>1 DEF Counted, Behind, TriesAre
  <2>8. PICK p \in Nat, q \in Nat : p = a * r /\ q = Attempts * r
    OBVIOUS
  <2>9. tries \in Nat
    BY DEF TaskTypeOK
  <2>10. tries <= s + q
    BY <2>4, <2>6, <2>7, <2>8, <2>9
  <2>11. Spent'[c - 1] = s /\ Runs'[c - 1] = q
    BY <2>1, <2>2, <2>3, <2>4, <2>8
  <2> QED
    BY <2>10, <2>11
<1>6. Counted'
  BY <1>1, <1>4, <1>5 DEF Counted, TriesAre, Told
<1> QED
  BY <1>3, <1>6

\* A timeout hands the result on.
LEMMA PassKeeps ==
  ASSUME TaskInv, TaskInv', Attempting, Counted, wPc = "up", wPc' = "up",
         depth \in DOMAIN layers, layers[depth] = "timeout", depth' = depth - 1,
         timer' = [timer EXCEPT ![depth] = "off"],
         UNCHANGED <<layers, attempt, outcome, caller, tries, cut>>
  PROVE  Attempting' /\ Counted'
<1> USE MiddlewareAssumption DEF TaskInv
<1>0. Len(layers) \in Nat /\ Len(layers) <= MaxLayers /\ depth \in 1..Len(layers)
  BY LayerFacts
<1>1. PICK n \in Nat, c \in Nat : n = Len(layers) /\ c = depth /\ c \in 1..n /\ n <= MaxLayers
  BY <1>0
<1>2. c \in Layers /\ attempt[c] = 0
  <2>1. c \in Layers
    BY <1>1 DEF Layers
  <2> QED
    BY <1>1, <2>1 DEF Attempting
<1>3. Attempting'
  <2>1. \A d \in Layers : timer'[d] = "fired" => timer[d] = "fired"
    BY <1>1 DEF TaskTypeOK
  <2>2. ASSUME NEW d \in Layers, attempt[d] # 0 PROVE d <= c - 1
    <3>1. d # c /\ d <= c
      BY <1>1, <1>2, <2>2 DEF Attempting
    <3> QED
      BY <1>1, <3>1 DEF Layers
  <2> QED
    BY <1>1, <2>1, <2>2 DEF Attempting, RetryLayers
<1>4. Runs' = Runs /\ Spent' = Spent
  BY CountFrame
<1>5. Spent[c - 1] = Spent[c] /\ Runs[c - 1] = Runs[c]
  <2>1. PICK r \in Nat \ {0}, s \in Nat : r = Runs[c] /\ s = Spent[c - 1]
    <3>1. c - 1 \in 0..n /\ c \in 0..n
      BY <1>1
    <3> QED
      BY <1>1, <3>1, LayerFacts
  <2>2. Spent[c] = s + 0 * r
    BY <1>1, <1>2, <2>1, LayerFacts
  <2>3. Runs[c - 1] = Runs[c]
    BY <1>1, LayerFacts
  <2> QED
    BY <2>1, <2>2, <2>3
<1>6. Counted'
  BY <1>1, <1>4, <1>5 DEF Counted, TriesAre, Told
<1> QED
  BY <1>3, <1>6

\* A retry hands on a success, or the failure of the last of its attempts.
LEMMA GiveUpKeeps ==
  ASSUME TaskInv, TaskInv', Attempting, Counted, wPc = "up", wPc' = "up",
         depth \in DOMAIN layers, layers[depth] = "retry", depth' = depth - 1,
         outcome = "ok" \/ ~TryAgain(depth),
         attempt' = [attempt EXCEPT ![depth] = 0],
         UNCHANGED <<layers, timer, outcome, caller, tries, cut>>
  PROVE  Attempting' /\ Counted'
<1> USE MiddlewareAssumption DEF TaskInv
<1>0. Len(layers) \in Nat /\ Len(layers) <= MaxLayers /\ depth \in 1..Len(layers)
  BY LayerFacts
<1>1. PICK n \in Nat, c \in Nat : n = Len(layers) /\ c = depth /\ c \in 1..n /\ n <= MaxLayers
  BY <1>0
<1>2. \A d \in Layers : attempt'[d] = IF d = c THEN 0 ELSE attempt[d]
  BY <1>1 DEF TaskTypeOK
<1>3. Attempting'
  <2>1. \A d \in Layers : attempt'[d] # 0 => d # c /\ attempt[d] # 0
    BY <1>2
  <2>2. \A d \in Layers : d # c /\ d <= c => d <= c - 1
    BY <1>1 DEF Layers
  <2>3. \A d \in Layers : attempt'[d] < Attempts
    BY <1>2 DEF Attempting
  <2>4. \A d \in Layers : attempt'[d] # 0 => d \in DOMAIN layers /\ d <= c - 1 /\ layers[d] = "retry"
    BY <1>1, <2>1, <2>2 DEF Attempting
  <2> QED
    BY <1>1, <2>3, <2>4 DEF Attempting, RetryLayers
<1>4. Runs' = Runs /\ Spent'[c - 1] = Spent[c - 1]
  <2>1. \A e \in 1..(c - 1) : attempt'[e] = attempt[e]
    BY <1>1, <1>2 DEF Layers
  <2>2. c - 1 \in 0..n
    BY <1>1
  <2> QED
    BY <1>1, <2>1, <2>2, SpentBelow DEF Runs
<1>5. PICK r \in Nat \ {0}, a \in Nat, s \in Nat : r = Runs[c] /\ a = attempt[c] /\ s = Spent[c - 1]
  <2>1. c - 1 \in 0..n /\ c \in 0..n
    BY <1>1
  <2> QED
    BY <1>1, <2>1, LayerFacts
<1>6. Spent[c] = s + a * r /\ Runs[c - 1] = Attempts * r
  BY <1>1, <1>5, LayerFacts
<1>7. a < Attempts
  BY <1>1, <1>5, LayerFacts DEF Attempting
<1>8. PICK p \in Nat, q \in Nat : /\ p = a * r /\ q = Attempts * r /\ p + r <= q
                                  /\ outcome # "ok" => p + r = q
  <2>1. a * r + r = (a + 1) * r
    OBVIOUS
  <2>2. (a + 1) * r <= Attempts * r
    <3>1. a + 1 <= Attempts
      BY <1>7
    <3>2. PICK b \in Nat : b = a + 1
      OBVIOUS
    <3>3. b * r <= Attempts * r
      BY <3>1, <3>2
    <3> QED
      BY <3>2, <3>3
  <2>3. outcome # "ok" => a + 1 = Attempts
    BY <1>1, <1>5, <1>7 DEF TryAgain
  <2>4. outcome # "ok" => (a + 1) * r = Attempts * r
    BY <2>3
  <2>5. a * r \in Nat /\ Attempts * r \in Nat
    OBVIOUS
  <2> QED
    BY <2>1, <2>2, <2>4, <2>5
<1>9. tries <= (s + p) + r /\ (outcome # "ok" => tries = (s + p) + r \/ Told)
  BY <1>1, <1>5, <1>6, <1>8 DEF Counted, TriesAre
<1>10. tries <= s + q /\ (outcome # "ok" => tries = s + q \/ Told)
  <2>1. tries \in Nat
    BY DEF TaskTypeOK
  <2> QED
    BY <1>8, <1>9, <2>1
<1>11. Spent'[c - 1] + Runs'[c - 1] = s + q
  BY <1>4, <1>5, <1>6, <1>8
<1>12. Counted'
  BY <1>1, <1>10, <1>11 DEF Counted, TriesAre, Told
<1> QED
  BY <1>3, <1>12

\* A retry goes round once more: the runs of the failed attempt are behind it.
LEMMA TryAgainKeeps ==
  ASSUME TaskInv, TaskInv', Attempting, Counted, wPc = "up", wPc' = "down",
         depth \in DOMAIN layers, layers[depth] = "retry", UNCHANGED depth,
         outcome # "ok", TryAgain(depth),
         attempt' = [attempt EXCEPT ![depth] = @ + 1],
         UNCHANGED <<layers, timer, outcome, caller, tries, cut>>
  PROVE  Attempting' /\ Counted'
<1> USE MiddlewareAssumption DEF TaskInv
<1>0. Len(layers) \in Nat /\ Len(layers) <= MaxLayers /\ depth \in 1..Len(layers)
  BY LayerFacts
<1>1. PICK n \in Nat, c \in Nat : n = Len(layers) /\ c = depth /\ c \in 1..n /\ n <= MaxLayers
  BY <1>0
<1>2. \A d \in Layers : attempt'[d] = IF d = c THEN attempt[c] + 1 ELSE attempt[d]
  BY <1>1 DEF TaskTypeOK
<1>3. Attempting'
  <2>1. \A d \in Layers : attempt'[d] < Attempts
    BY <1>1, <1>2 DEF Attempting, TryAgain
  <2>2. \A d \in Layers : attempt'[d] # 0 => d \in DOMAIN layers /\ d <= c /\ layers[d] = "retry"
    BY <1>1, <1>2 DEF Attempting
  <2> QED
    BY <1>1, <2>1, <2>2 DEF Attempting, RetryLayers
<1>4. Runs' = Runs /\ Spent'[c - 1] = Spent[c - 1]
  <2>1. \A e \in 1..(c - 1) : attempt'[e] = attempt[e]
    BY <1>1, <1>2 DEF Layers
  <2>2. c - 1 \in 0..n
    BY <1>1
  <2> QED
    BY <1>1, <2>1, <2>2, SpentBelow DEF Runs
<1>5. PICK r \in Nat \ {0}, a \in Nat, s \in Nat : r = Runs[c] /\ a = attempt[c] /\ s = Spent[c - 1]
  <2>1. c - 1 \in 0..n /\ c \in 0..n
    BY <1>1
  <2> QED
    BY <1>1, <2>1, LayerFacts
<1>6. Spent[c] = s + a * r
  BY <1>1, <1>5, LayerFacts
<1>7. Spent'[c] = s + (a + 1) * r
  <2>1. Spent'[c] = Spent'[c - 1] + attempt'[c] * Runs'[c]
    <3>1. SpentEq(Spent)'
      BY SpentIs, PTL
    <3> QED
      BY <1>1, <3>1 DEF SpentEq
  <2>2. attempt'[c] = a + 1
    BY <1>1, <1>2, <1>5 DEF Layers
  <2> QED
    BY <1>4, <1>5, <2>1, <2>2
<1>8. Behind' = Spent[c] + r
  <2>1. (a + 1) * r = a * r + r
    OBVIOUS
  <2>2. PICK p \in Nat : p = a * r
    OBVIOUS
  <2>3. s + (p + r) = (s + p) + r
    BY <2>2
  <2> QED
    BY <1>1, <1>6, <1>7, <2>1, <2>2, <2>3 DEF Behind
<1>9. Counted'
  BY <1>1, <1>5, <1>8 DEF Counted, TriesAre, Told
<1> QED
  BY <1>3, <1>9

\* The layers stay as they are.
LEMMA StayKeeps ==
  ASSUME TaskInv, Attempting, Counted,
         UNCHANGED <<layers, attempt>>,
         depth' = depth, tries' = tries,
         wPc' = wPc \/ {wPc, wPc'} \subseteq {"request", "stream", "yield"},
         wPc = "up" => UNCHANGED outcome,
         caller # "none" => caller' # "none", cut => cut',
         \A d \in Layers, e \in RetryLayers : timer'[d] = "fired" /\ d < e => cut'
  PROVE  Attempting' /\ Counted'
<1>1. Runs' = Runs /\ Spent' = Spent
  BY CountFrame
<1>2. Behind' = Behind /\ (Told => Told')
  BY <1>1 DEF Behind, Told
<1>3. wPc \in Places
  BY DEF TaskInv, TaskTypeOK
<1>4. Attempting'
  BY DEF Attempting, RetryLayers
<1>5. Counted'
  BY <1>1, <1>2, <1>3 DEF Counted, TriesAre, Places
<1> QED
  BY <1>4, <1>5

\* The task has returned: all its layers are above it.
LEMMA TaskReturns ==
  ASSUME TaskInv, Attempting, Counted, wPc \in {"request", "stream", "yield"}, wPc' = "up",
         depth' = depth - 1, UNCHANGED <<layers, attempt, timer, caller, tries, cut>>
  PROVE  Attempting' /\ Counted'
<1> USE MiddlewareAssumption DEF TaskInv
<1>1. PICK n \in Nat : n = Len(layers) /\ depth = n + 1 /\ depth' = n
  <2>1. Len(layers) \in Nat /\ depth = Len(layers) + 1 /\ depth' = Len(layers)
    BY LayerFacts DEF Shape
  <2> QED
    BY <2>1
<1>2. Runs' = Runs /\ Spent' = Spent
  BY CountFrame
<1>3. Behind = Spent[n] /\ Runs[n] = 1
  BY <1>1, LayerFacts DEF Behind
<1>4. Attempting'
  <2>1. \A d \in Layers : attempt[d] # 0 => d <= n
    BY <1>1, LayerFacts DEF Attempting
  <2> QED
    BY <1>1, <2>1 DEF Attempting, RetryLayers
<1>5. Counted'
  BY <1>1, <1>2, <1>3 DEF Counted, TriesAre, Told
<1> QED
  BY <1>4, <1>5

\* Every step keeps the count.
LEMMA StepCounts ==
  ASSUME TaskInv, Attempting, Counted, [TaskNext]_taskVars
  PROVE  Attempting' /\ Counted'
<1> USE MiddlewareAssumption
<1>i. TaskInv'
  BY StepKeeps
<1>1. CASE Begin
  <2>1. /\ wPc = "idle" /\ wPc' = "down" /\ depth = 0 /\ depth' = 1 /\ tries' = 0
        /\ UNCHANGED <<attempt, timer>>
    BY <1>1 DEF Begin, TaskInv, Shape, Counted
  <2>2. \A d \in Layers : attempt[d] = 0 /\ timer[d] = "off"
    BY <2>1 DEF Attempting, TaskInv, Timers, Layers
  <2>3. Attempting'
    BY <2>1, <2>2 DEF Attempting
  <2>4. PICK n \in Nat : n = Len(layers')
    BY <1>i DEF TaskInv, TaskTypeOK
  <2>5. SpentEq(Spent)' /\ Runs' \in [0..n -> Nat \ {0}]
    <3>1. TaskTypeOK'
      BY <1>i DEF TaskInv
    <3>2. SpentEq(Spent)'
      BY <3>1, SpentIs, PTL
    <3>3. (Runs \in [0..Len(layers) -> Nat \ {0}])'
      BY <3>1, RunsIs, PTL
    <3> QED
      BY <2>4, <3>2, <3>3
  <2>6. Spent'[0] = 0
    BY <2>4, <2>5 DEF SpentEq
  <2>7. n >= 1 => Spent'[1] = 0
    <3> SUFFICES ASSUME n >= 1 PROVE Spent'[1] = 0
      OBVIOUS
    <3>1. 1 \in Layers
      BY <1>i, <2>4 DEF TaskInv, TaskTypeOK, Layers
    <3>2. Spent'[1] = Spent'[0] + 0 * Runs'[1]
      BY <2>1, <2>2, <2>4, <2>5, <3>1 DEF SpentEq
    <3> QED
      BY <2>5, <2>6, <3>2
  <2>8. Behind' = 0
    BY <2>1, <2>4, <2>6, <2>7 DEF Behind
  <2> QED
    BY <2>1, <2>3, <2>8 DEF Counted, TriesAre
<1>2. CASE Down
  <2>1. CASE Arm(depth)
    <3>1. /\ timer' = [timer EXCEPT ![depth] = "armed"] /\ depth' = depth + 1
          /\ UNCHANGED <<wPc, attempt, layers, caller, tries, cut>>
          /\ wPc = "down" /\ depth \in DOMAIN layers
      BY <1>2, <2>1 DEF Down, Arm
    <3>2. \A d \in Layers : timer'[d] = "fired" => timer[d] = "fired"
      BY <3>1 DEF TaskInv, TaskTypeOK
    <3> QED
      BY <1>i, <3>1, <3>2, DescendKeeps
  <2>2. CASE NextTry(depth)
    <3>1. CASE Reasons(depth) # {}
      BY <1>2, <1>i, <2>2, <3>1, RefuseKeeps DEF Down, NextTry
    <3>2. CASE Reasons(depth) = {}
      BY <1>2, <1>i, <2>2, <3>2, DescendKeeps DEF Down, NextTry
    <3> QED
      BY <3>1, <3>2
  <2> QED
    BY <1>2, <2>1, <2>2 DEF Down
<1>3. CASE RunTask
  <2>1. /\ wPc = "down" /\ wPc' = "request" /\ tries' = tries + 1
        /\ UNCHANGED <<layers, depth, attempt, timer, caller, cut>>
    BY <1>3 DEF RunTask
  <2>2. Runs' = Runs /\ Spent' = Spent
    BY <2>1, CountFrame
  <2>3. Behind' = Behind /\ Told' = Told /\ tries \in Nat
    BY <2>1, <2>2 DEF Behind, Told, TaskInv, TaskTypeOK
  <2>4. Behind \in Nat
    <3>1. Len(layers) \in Nat /\ depth \in 1..(Len(layers) + 1)
      BY <2>1, LayerFacts DEF TaskInv, Shape
    <3> QED
      BY <3>1, LayerFacts DEF Behind, TaskInv
  <2>5. Attempting'
    BY <2>1 DEF Attempting, RetryLayers
  <2> QED
    BY <2>1, <2>3, <2>4, <2>5 DEF Counted, TriesAre
<1>4. CASE RequestEnds
  <2>1. wPc = "request" /\ UNCHANGED <<layers, attempt, timer, caller, tries, cut>>
    BY <1>4 DEF RequestEnds
  <2>2. CASE wPc' = "stream" /\ UNCHANGED depth
    BY <2>1, <2>2, StayKeeps DEF Attempting
  <2>3. CASE wPc' = "up" /\ depth' = depth - 1
    BY <2>1, <2>3, TaskReturns
  <2> QED
    BY <1>4, <2>2, <2>3 DEF RequestEnds
<1>5. ASSUME NEW o, StreamEnds(o), wPc \in {"stream", "yield"}
      PROVE  Attempting' /\ Counted'
  BY <1>5, TaskReturns DEF StreamEnds
<1>6. CASE ReaderReturns /\ wPc' = "stream" /\ UNCHANGED <<reqVars, layers, multi, depth, attempt,
                                                           timer, caller, tries, late, cut>>
  BY <1>6, StayKeeps DEF ReaderReturns, Attempting
<1>7. CASE Up
  <2>1. /\ wPc = "up" /\ depth > 0 /\ LeaveLayer(depth)
        /\ UNCHANGED <<layers, outcome, caller, tries, cut>>
    BY <1>7 DEF Up, reqVars
  <2>2. depth \in DOMAIN layers
    BY <2>1, LayerFacts DEF TaskInv, Shape
  <2> QED
    BY <1>i, <2>1, <2>2, PassKeeps, GiveUpKeeps, TryAgainKeeps DEF LeaveLayer
<1>8. CASE Return
  <2>1. /\ wPc = "up" /\ depth = 0 /\ wPc' = "idle" /\ tries' = 0
        /\ UNCHANGED <<depth, attempt, timer>>
    BY <1>8 DEF Return
  <2>2. \A d \in Layers : attempt[d] = 0 /\ timer[d] = "off"
    BY <2>1 DEF Attempting, TaskInv, Timers, Layers
  <2> QED
    BY <2>1, <2>2 DEF Attempting, Counted
<1>9. CASE Request(PrepareRequest) \/ Server \/ Interrupt
  BY <1>9, StayKeeps DEF Request, Server, Interrupt, wrapVars, Attempting
<1>10. CASE Yield
  BY <1>10, StayKeeps DEF Yield, Attempting
<1>11. CASE CallerDone
  BY <1>11, StayKeeps DEF CallerDone, reqVars, Attempting
<1>12. ASSUME NEW f \in Layers, TimerFires(f) PROVE Attempting' /\ Counted'
  <2>1. \A d \in Layers, e \in RetryLayers : timer'[d] = "fired" /\ d < e => cut'
    BY <1>12 DEF TimerFires, Attempting, TaskInv, TaskTypeOK
  <2> QED
    BY <1>12, <2>1, StayKeeps DEF TimerFires, reqVars
<1>13. CASE UNCHANGED taskVars
  BY <1>13, StayKeeps DEF taskVars, reqVars, wrapVars, Attempting
<1> QED
  BY <1>1, <1>2, <1>3, <1>4, <1>5, <1>6, <1>7, <1>8, <1>9, <1>10, <1>11, <1>12, <1>13
  DEF TaskNext, Step, ReaderReturns, EndOfStream, StreamInterrupted

\* The first state: no run, no attempt.
LEMMA InitCounts ==
  ASSUME TaskInit
  PROVE  Attempting /\ Counted
BY MiddlewareAssumption DEF TaskInit, Attempting, Counted, Layers

\* When the result has come up through all layers nothing is left to be tried.
LEMMA CountedGivesUp ==
  ASSUME TaskInv, Attempting, Counted
  PROVE  GivesUpOnlyWhenTold
<1> USE MiddlewareAssumption DEF TaskInv
<1>1. PICK n \in Nat : n = Len(layers)
  BY LayerFacts
<1>2. \A d \in 0..n : Spent[d] \in Nat /\ Runs[d] \in Nat \ {0} /\ Spent[d] + Runs[d] <= Runs[0]
  BY <1>1, LayerFacts, SpentBound
<1>3. Spent[0] = 0 /\ tries \in Nat
  BY LayerFacts DEF TaskTypeOK
<1>4. tries <= Runs[0]
  <2>1. CASE wPc = "idle"
    BY <1>1, <1>2, <1>3, <2>1 DEF Counted
  <2>2. CASE wPc \in {"down", "request", "stream", "yield"}
    <3>1. PICK d \in 0..n : Behind = Spent[d]
      BY <1>1, <2>2 DEF Behind, Shape
    <3>2. tries <= Spent[d] + 1
      BY <1>2, <1>3, <2>2, <3>1 DEF Counted, TriesAre
    <3>3. PICK r \in Nat \ {0}, b \in Nat, x \in Nat : r = Runs[d] /\ b = Spent[d] /\ x = Runs[0]
      BY <1>2
    <3>4. b + r <= x
      BY <1>2, <3>3
    <3> QED
      BY <1>3, <3>2, <3>3, <3>4
  <2>3. CASE wPc = "up"
    <3>1. depth \in 0..n
      BY <1>1, <2>3 DEF Shape
    <3> QED
      BY <1>2, <1>3, <2>3, <3>1 DEF Counted
  <2> QED
    BY <2>1, <2>2, <2>3 DEF TaskTypeOK, Places
<1>5. wPc = "up" /\ depth = 0 /\ outcome # "ok" => tries = Runs[0] \/ Told
  BY <1>1, <1>2, <1>3 DEF Counted, TriesAre
<1> QED
  BY <1>4, <1>5 DEF GivesUpOnlyWhenTold, Told

\* A failed call has run its task as often as the attempts of its retries multiply to,
\* unless the caller's context or a timeout outside of a retry ended it; and never more
\* often (task.go:111-134).
THEOREM GivesUpLast == TaskSpec => []GivesUpOnlyWhenTold
<1>1. TaskInv /\ Attempting /\ Counted /\ [TaskNext]_taskVars => TaskInv' /\ Attempting' /\ Counted'
  BY StepKeeps, StepCounts
<1>2. TaskInit => TaskInv /\ Attempting /\ Counted
  BY InitTaskInv, InitCounts
<1>3. TaskInv /\ Attempting /\ Counted => GivesUpOnlyWhenTold
  BY CountedGivesUp
<1> QED
  BY <1>1, <1>2, <1>3, PTL DEF TaskSpec
=============================================================================
