----------------------- MODULE CollectParallelProofs -----------------------
(***************************************************************************)
(* Proofs, for every number of tasks, every mixture of simple and multi-   *)
(* valued, fatal and non-fatal tasks and every limit, of the barrier of    *)
(* CollectParallel, of its error report, of its refinement of              *)
(* ParallelLevel and of the order of its output.                           *)
(*                                                                         *)
(* The parts of the inductive invariant IInv follow the code: Counting     *)
(* (loop and errgroup), Slots (SetLimit), Errors (errs), Harvest (what a   *)
(* goroutine has gathered and stored), Position (the enumeration).  The    *)
(* order of the output adds Order: what the enumeration gives next.        *)
(***************************************************************************)
EXTENDS CollectParallel, FiniteSetTheorems, SequenceTheorems, WellFoundedInduction, TLAPS

\* The loop has started exactly the tasks up to launched, the errgroup counts
\* those that are not done, and Wait has waited for all.
Counting ==
  /\ \A t \in Tasks : pc[t] = "idle" <=> t > launched
  /\ group = {t \in Tasks : pc[t] \notin {"idle", "done"}}
  /\ main # "launch" => launched = N /\ group = {}

Slots == Bounded => Cardinality(group) <= Concurrency

Recorded == {errs[i] : i \in DOMAIN errs}

\* errs holds the tasks that failed, once they have come past the append.
Errors ==
  /\ \A t \in Tasks : t \in Recorded <=> err[t] # "none" /\ pc[t] # "record"
  /\ \A t \in Tasks : pc[t] \in {"record", "return"} => err[t] # "none"
  /\ \A t \in Tasks : pc[t] \in {"idle", "run", "store"} => err[t] = "none"

\* What task t has yielded, and that all of it is stored.
Sheaf(t) ==
  /\ t \in Simple /\ pc[t] \in {"idle", "run"} => made[t] = 0
  /\ t \in Simple /\ err[t] = "none" /\ pc[t] \in {"store", "exit", "done"} => made[t] = 1
  /\ err[t] = "none" /\ pc[t] \in {"exit", "done"} => results[t] = made[t]

Harvest == \A t \in Tasks : Sheaf(t)

\* How far the enumeration is.
Position ==
  /\ main = "launch" => out = <<>> /\ \A t \in Tasks : idx[t] = 0
  /\ ~zip /\ main \notin {"launch", "failed"} => \A t \in Tasks : idx[t] <= results[t]
  /\ ~zip /\ main = "yield" => \E t \in Tasks : idx[t] > 0
  /\ zip /\ main = "yield" => out # <<>> /\ \A t \in Tasks : results[t] > 0

IInv ==
  /\ TypeOK
  /\ Counting
  /\ Slots
  /\ Errors
  /\ Harvest
  /\ Position
  /\ FatalErrorsSurface

\* The steps that follow the wait.
Enumerating ==
  \/ YieldCombination \/ EndOfResults
  \/ Continue \/ LastCombination \/ StopConsumer \/ Return
  \/ \E t \in Tasks : YieldGrouped(t) \/ NextCombination(t)

\* They touch nothing of what the goroutines made.
LEMMA EnumeratingFrame ==
  ASSUME Enumerating
  PROVE  /\ main \in {"emit", "yield", "stopping"}
         /\ main' \in {"emit", "yield", "stopping", "stopped", "ok"}
         /\ UNCHANGED <<zip, launched, reported, pc, made, err, errs, group, results, ctx, parent>>
BY DEF Enumerating, YieldCombination, EndOfResults, Continue, LastCombination, StopConsumer,
       Return, YieldGrouped, NextCombination, Give, taskVars, syncVars, ctxVars, outVars

\* A combination has one number for every task, a grouped state is one of Items.
LEMMA OutStep ==
  ASSUME TypeOK, Enumerating
  PROVE  out' \in Seq(Items) /\ idx' \in [Tasks -> Nat]
<1> USE CollectAssumption DEF TypeOK
<1>1. ASSUME NEW t \in Tasks, YieldGrouped(t) PROVE out' \in Seq(Items) /\ idx' \in [Tasks -> Nat]
  <2>1. <<t, idx[t] + 1>> \in Items
    BY DEF Items
  <2>2. out' = Append(out, <<t, idx[t] + 1>>) /\ idx' = [idx EXCEPT ![t] = @ + 1]
    BY <1>1 DEF YieldGrouped, Give
  <2>3. QED
    BY <2>1, <2>2
<1>2. ASSUME YieldCombination PROVE out' \in Seq(Items) /\ idx' \in [Tasks -> Nat]
  <2>1. [t \in Tasks |-> idx[t] + 1] \in Items
    BY DEF Items
  <2>2. out' = Append(out, [t \in Tasks |-> idx[t] + 1]) /\ idx' = idx
    BY <1>2 DEF YieldCombination, Give
  <2>3. QED
    BY <2>1, <2>2
<1>3. ASSUME NEW pos \in Tasks, NextCombination(pos)
      PROVE  out' \in Seq(Items) /\ idx' \in [Tasks -> Nat]
  BY <1>3 DEF NextCombination, Advance
<1>4. ASSUME LastCombination PROVE out' \in Seq(Items) /\ idx' \in [Tasks -> Nat]
  BY <1>4 DEF LastCombination
<1>5. ASSUME EndOfResults \/ Continue \/ StopConsumer \/ Return
      PROVE  out' \in Seq(Items) /\ idx' \in [Tasks -> Nat]
  BY <1>5 DEF EndOfResults, Continue, StopConsumer, Return, outVars
<1>6. QED
  BY <1>1, <1>2, <1>3, <1>4, <1>5 DEF Enumerating

\* The group is finite, so that its size can be counted.
LEMMA GroupFinite ==
  ASSUME TypeOK
  PROVE  IsFiniteSet(group) /\ Cardinality(group) \in Nat
<1>1. IsFiniteSet(Tasks)
  BY CollectAssumption, FS_Interval DEF Tasks
<1>2. QED
  BY <1>1, FS_Subset, FS_CardinalityType DEF TypeOK

\* What append does to the set of recorded tasks.
LEMMA RecordedAppend ==
  ASSUME TypeOK, NEW t \in Tasks, errs' = Append(errs, t)
  PROVE  Recorded' = Recorded \cup {t}
<1> DEFINE n == Len(errs)
<1>0. errs \in Seq(Tasks)
  BY DEF TypeOK
<1>1. /\ n \in Nat /\ DOMAIN errs = 1..n /\ DOMAIN errs' = 1..(n + 1)
      /\ errs'[n + 1] = t /\ \A i \in 1..n : errs'[i] = errs[i]
  BY <1>0, AppendProperties, LenProperties
<1> HIDE DEF n
<1>2. 1..(n + 1) = (1..n) \cup {n + 1}
  BY <1>1
<1>3. QED
  BY <1>1, <1>2 DEF Recorded

\* Only tasks are recorded.
LEMMA RecordedTasks == TypeOK => Recorded \subseteq Tasks
BY DEF Recorded, TypeOK

\* After the wait all goroutines are done.
LEMMA AllDone ==
  ASSUME TypeOK, Counting, launched = N, group = {}
  PROVE  \A t \in Tasks : pc[t] = "done"
<1> SUFFICES ASSUME NEW t \in Tasks PROVE pc[t] = "done"
  OBVIOUS
<1>1. t \in 1..N /\ ~(t > N)
  BY CollectAssumption DEF Tasks
<1>2. pc[t] # "idle"
  BY <1>1 DEF Counting
<1>3. t \notin {u \in Tasks : pc[u] \notin {"idle", "done"}}
  BY DEF Counting
<1>4. QED
  BY <1>2, <1>3

\* Counting one more state of a task.
LEMMA OneMore ==
  ASSUME NEW f \in [Tasks -> Nat], NEW t \in Tasks
  PROVE  [f EXCEPT ![t] = @ + 1] \in [Tasks -> Nat]
OBVIOUS

\* Every step keeps the types.
LEMMA TypeStep ==
  ASSUME TypeOK, [Next]_vars
  PROVE  TypeOK'
<1> USE CollectAssumption DEF mainVars, taskVars, syncVars, ctxVars, outVars, TypeOK, Tasks,
       MainStates, TaskStates, CtxStates, ErrKinds
<1>1. CASE Launch
  <2>1. launched + 1 \in Tasks
    BY <1>1 DEF Launch
  <2>2. launched' \in 0..N /\ group' \in SUBSET Tasks
    BY <1>1, <2>1 DEF Launch
  <2>3. pc' \in [Tasks -> TaskStates]
    BY <1>1 DEF Launch, Goto
  <2>4. QED
    BY <1>1, <2>2, <2>3 DEF Launch
<1>2. CASE Wait
  <2>1. reported' \in SUBSET Tasks
    <3>1. reported' \subseteq Recorded
      BY <1>2 DEF Wait, JoinTaskErrors, Recorded
    <3>2. QED
      BY <3>1, RecordedTasks
  <2>2. main' \in MainStates /\ ctx' \in CtxStates
    BY <1>2 DEF Wait, CancelWith, AfterWait
  <2>3. QED
    BY <1>2, <2>1, <2>2 DEF Wait
<1>3. CASE Enumerating
  <2>1. out' \in Seq(Items) /\ idx' \in [Tasks -> Nat]
    BY <1>3, OutStep
  <2>2. QED
    BY <1>3, <2>1, EnumeratingFrame
<1>4. ASSUME NEW t \in Tasks, Emit(t) PROVE TypeOK'
  <2>1. made' \in [Tasks -> Nat] /\ pc' \in [Tasks -> TaskStates]
    BY <1>4, OneMore DEF Emit, Goto
  <2>2. QED
    BY <1>4, <2>1 DEF Emit
<1>5. ASSUME NEW t \in Tasks, End(t) PROVE TypeOK'
  BY <1>5 DEF End, Goto
<1>6. ASSUME NEW t \in Tasks, Fail(t) PROVE TypeOK'
  <2>1. err' \in [Tasks -> ErrKinds]
    BY <1>6 DEF Fail, Failures
  <2>2. pc' \in [Tasks -> TaskStates]
    BY <1>6 DEF Fail, Goto
  <2>3. QED
    BY <1>6, <2>1, <2>2 DEF Fail
<1>7. ASSUME NEW t \in Tasks, Resume(t) PROVE TypeOK'
  <2>1. made' \in [Tasks -> Nat]
    BY <1>7, OneMore DEF Resume
  <2>2. pc' \in [Tasks -> TaskStates]
    BY <1>7 DEF Resume, Goto
  <2>3. QED
    BY <1>7, <2>1, <2>2 DEF Resume
<1>8. ASSUME NEW t \in Tasks, Store(t) PROVE TypeOK'
  <2>1. results' \in [Tasks -> Nat] /\ pc' \in [Tasks -> TaskStates]
    BY <1>8 DEF Store, Goto
  <2>2. QED
    BY <1>8, <2>1 DEF Store
<1>9. ASSUME NEW t \in Tasks, Record(t) PROVE TypeOK'
  <2>1. errs' \in Seq(Tasks) /\ pc' \in [Tasks -> TaskStates]
    BY <1>9 DEF Record, Goto
  <2>2. QED
    BY <1>9, <2>1 DEF Record
<1>10. ASSUME NEW t \in Tasks, ReturnError(t) PROVE TypeOK'
  BY <1>10 DEF ReturnError, Goto, CancelWith
<1>11. ASSUME NEW t \in Tasks, Exit(t) PROVE TypeOK'
  BY <1>11 DEF Exit, Goto
<1>12. CASE ParentDone
  BY <1>12 DEF ParentDone, CancelWith
<1>13. CASE UNCHANGED vars
  BY <1>13 DEF vars
<1>14. QED
  BY <1>1, <1>2, <1>3, <1>4, <1>5, <1>6, <1>7, <1>8, <1>9, <1>10, <1>11, <1>12, <1>13
  DEF Next, MainStep, Enumerating, TaskStep, EngineStep, Terminated

\* The loop and the errgroup stay in step.
LEMMA CountingStep ==
  ASSUME TypeOK, Counting, [Next]_vars
  PROVE  Counting'
<1> USE CollectAssumption DEF mainVars, taskVars, syncVars, ctxVars, outVars, TypeOK, Tasks, Counting,
       MainStates, TaskStates
<1>1. CASE Launch
  BY <1>1 DEF Launch, Goto
<1>2. CASE Wait
  BY <1>2 DEF Wait, CancelWith, AfterWait
<1>3. CASE Enumerating
  BY <1>3, EnumeratingFrame
<1>4. ASSUME NEW t \in Tasks, Emit(t) PROVE Counting'
  BY <1>4 DEF Emit, Goto
<1>5. ASSUME NEW t \in Tasks, End(t) PROVE Counting'
  BY <1>5 DEF End, Goto
<1>6. ASSUME NEW t \in Tasks, Fail(t) PROVE Counting'
  BY <1>6 DEF Fail, Goto, Failures
<1>7. ASSUME NEW t \in Tasks, Resume(t) PROVE Counting'
  BY <1>7 DEF Resume, Goto
<1>8. ASSUME NEW t \in Tasks, Store(t) PROVE Counting'
  BY <1>8 DEF Store, Goto
<1>9. ASSUME NEW t \in Tasks, Record(t) PROVE Counting'
  BY <1>9 DEF Record, Goto
<1>10. ASSUME NEW t \in Tasks, ReturnError(t) PROVE Counting'
  BY <1>10 DEF ReturnError, Goto, CancelWith
<1>11. ASSUME NEW t \in Tasks, Exit(t) PROVE Counting'
  BY <1>11 DEF Exit, Goto
<1>12. CASE ParentDone
  BY <1>12 DEF ParentDone, CancelWith
<1>13. CASE UNCHANGED vars
  BY <1>13 DEF vars
<1>14. QED
  BY <1>1, <1>2, <1>3, <1>4, <1>5, <1>6, <1>7, <1>8, <1>9, <1>10, <1>11, <1>12, <1>13
  DEF Next, MainStep, Enumerating, TaskStep, EngineStep, Terminated

\* The errgroup never has more goroutines than its limit.
LEMMA SlotsStep ==
  ASSUME TypeOK, Counting, Slots, [Next]_vars
  PROVE  Slots'
<1> USE CollectAssumption DEF mainVars, taskVars, syncVars, ctxVars, outVars, Slots
<1>0. group' = group => Slots'
  BY DEF Slots, Bounded
<1>1. CASE Launch
  <2>1. launched + 1 \notin group
    BY <1>1 DEF Launch, Counting, TypeOK, Tasks
  <2>2. Cardinality(group') = Cardinality(group) + 1
    BY <1>1, <2>1, GroupFinite, FS_AddElement DEF Launch
  <2>3. Bounded => Cardinality(group) < Concurrency
    BY <1>1 DEF Launch, HasRoom
  <2>4. Bounded => Cardinality(group') <= Concurrency
    BY <2>2, <2>3, GroupFinite
  <2>5. QED
    BY <2>4 DEF Bounded
<1>2. CASE Wait
  BY <1>2, <1>0 DEF Wait, CancelWith, AfterWait
<1>3. CASE Enumerating
  BY <1>3, EnumeratingFrame, <1>0
<1>4. ASSUME NEW t \in Tasks, Emit(t) PROVE Slots'
  BY <1>4, <1>0 DEF Emit, Goto
<1>5. ASSUME NEW t \in Tasks, End(t) PROVE Slots'
  BY <1>5, <1>0 DEF End, Goto
<1>6. ASSUME NEW t \in Tasks, Fail(t) PROVE Slots'
  BY <1>6, <1>0 DEF Fail, Goto, Failures
<1>7. ASSUME NEW t \in Tasks, Resume(t) PROVE Slots'
  BY <1>7, <1>0 DEF Resume, Goto
<1>8. ASSUME NEW t \in Tasks, Store(t) PROVE Slots'
  BY <1>8, <1>0 DEF Store, Goto
<1>9. ASSUME NEW t \in Tasks, Record(t) PROVE Slots'
  BY <1>9, <1>0 DEF Record, Goto
<1>10. ASSUME NEW t \in Tasks, ReturnError(t) PROVE Slots'
  BY <1>10, <1>0 DEF ReturnError, Goto, CancelWith
<1>11. ASSUME NEW t \in Tasks, Exit(t) PROVE Slots'
  <2>1. group' \subseteq group
    BY <1>11 DEF Exit
  <2>2. Cardinality(group') <= Cardinality(group)
    BY <2>1, GroupFinite, FS_Subset
  <2>3. Cardinality(group') \in Nat /\ Cardinality(group) \in Nat
    BY <2>1, GroupFinite, FS_Subset, FS_CardinalityType
  <2>4. Bounded => Cardinality(group') <= Concurrency
    BY <2>2, <2>3
  <2>5. QED
    BY <2>4 DEF Bounded
<1>12. CASE ParentDone
  BY <1>12, <1>0 DEF ParentDone, CancelWith
<1>13. CASE UNCHANGED vars
  BY <1>13, <1>0 DEF vars
<1>14. QED
  BY <1>1, <1>2, <1>3, <1>4, <1>5, <1>6, <1>7, <1>8, <1>9, <1>10, <1>11, <1>12, <1>13
  DEF Next, MainStep, Enumerating, TaskStep, EngineStep, Terminated

\* errs holds what failed.
LEMMA ErrorsStep ==
  ASSUME TypeOK, Counting, Errors, [Next]_vars
  PROVE  Errors'
<1> USE CollectAssumption DEF mainVars, taskVars, syncVars, ctxVars, outVars, TypeOK, Tasks, Errors,
       TaskStates, CtxStates
<1>0. errs' = errs => Recorded' = Recorded
  BY DEF Recorded
<1>1. CASE Launch
  <2>1. launched + 1 \in Tasks /\ pc[launched + 1] = "idle"
    BY <1>1 DEF Launch, Counting
  <2>2. pc' = [pc EXCEPT ![launched + 1] = "run"] /\ err' = err /\ Recorded' = Recorded
    BY <1>1, <1>0 DEF Launch, Goto
  <2>3. QED
    BY <2>1, <2>2
<1>2. CASE Wait
  BY <1>2, <1>0 DEF Wait, CancelWith, AfterWait
<1>3. CASE Enumerating
  BY <1>3, EnumeratingFrame, <1>0
<1>4. ASSUME NEW t \in Tasks, Emit(t) PROVE Errors'
  BY <1>4, <1>0 DEF Emit, Goto
<1>5. ASSUME NEW t \in Tasks, End(t) PROVE Errors'
  BY <1>5, <1>0 DEF End, Goto
<1>6. ASSUME NEW t \in Tasks, Fail(t) PROVE Errors'
  BY <1>6, <1>0 DEF Fail, Goto, Failures
<1>7. ASSUME NEW t \in Tasks, Resume(t) PROVE Errors'
  BY <1>7, <1>0 DEF Resume, Goto
<1>8. ASSUME NEW t \in Tasks, Store(t) PROVE Errors'
  BY <1>8, <1>0 DEF Store, Goto
<1>9. ASSUME NEW t \in Tasks, Record(t) PROVE Errors'
  <2>1. Recorded' = Recorded \cup {t}
    BY <1>9, RecordedAppend DEF Record
  <2>2. QED
    BY <1>9, <2>1 DEF Record, Goto
<1>10. ASSUME NEW t \in Tasks, ReturnError(t) PROVE Errors'
  BY <1>10, <1>0 DEF ReturnError, Goto, CancelWith
<1>11. ASSUME NEW t \in Tasks, Exit(t) PROVE Errors'
  BY <1>11, <1>0 DEF Exit, Goto
<1>12. CASE ParentDone
  BY <1>12, <1>0 DEF ParentDone, CancelWith
<1>13. CASE UNCHANGED vars
  BY <1>13, <1>0 DEF vars
<1>14. QED
  BY <1>1, <1>2, <1>3, <1>4, <1>5, <1>6, <1>7, <1>8, <1>9, <1>10, <1>11, <1>12, <1>13
  DEF Next, MainStep, Enumerating, TaskStep, EngineStep, Terminated

\* Whatever a goroutine gathers without an error it stores in its place.
LEMMA HarvestStep ==
  ASSUME TypeOK, Counting, Errors, Harvest, [Next]_vars
  PROVE  Harvest'
<1> USE CollectAssumption DEF mainVars, taskVars, syncVars, ctxVars, outVars, TypeOK, Tasks, Harvest, Sheaf,
       TaskStates, CtxStates
<1>1. CASE Launch
  BY <1>1 DEF Launch, Goto, Counting
<1>2. CASE Wait
  BY <1>2 DEF Wait, CancelWith, AfterWait
<1>3. CASE Enumerating
  BY <1>3, EnumeratingFrame
<1>4. ASSUME NEW t \in Tasks, Emit(t) PROVE Harvest'
  <2>1. /\ made' = [made EXCEPT ![t] = @ + 1] /\ pc[t] = "run"
        /\ pc' = [pc EXCEPT ![t] = IF t \in Simple THEN "store" ELSE "run"]
        /\ UNCHANGED <<err, results>>
    BY <1>4 DEF Emit, Goto
  <2>2. ASSUME NEW u \in Tasks PROVE Sheaf(u)'
    <3>1. CASE u # t
      BY <2>1, <3>1
    <3>2. CASE u = t /\ t \in Simple
      BY <2>1, <3>2
    <3>3. CASE u = t /\ t \notin Simple
      BY <2>1, <3>3
    <3>4. QED
      BY <3>1, <3>2, <3>3
  <2>3. QED
    BY <2>2
<1>5. ASSUME NEW t \in Tasks, End(t) PROVE Harvest'
  BY <1>5 DEF End, Goto
<1>6. ASSUME NEW t \in Tasks, Fail(t) PROVE Harvest'
  <2>1. PICK kind \in Failures : err' = [err EXCEPT ![t] = kind]
    BY <1>6 DEF Fail
  <2>2. kind # "none"
    BY <2>1 DEF Failures
  <2>3. QED
    BY <1>6, <2>1, <2>2 DEF Fail, Goto
<1>7. ASSUME NEW t \in Tasks, Resume(t) PROVE Harvest'
  BY <1>7 DEF Resume, Goto
<1>8. ASSUME NEW t \in Tasks, Store(t) PROVE Harvest'
  BY <1>8 DEF Store, Goto
<1>9. ASSUME NEW t \in Tasks, Record(t) PROVE Harvest'
  BY <1>9 DEF Record, Goto, Errors
<1>10. ASSUME NEW t \in Tasks, ReturnError(t) PROVE Harvest'
  BY <1>10 DEF ReturnError, Goto, Errors
<1>11. ASSUME NEW t \in Tasks, Exit(t) PROVE Harvest'
  BY <1>11 DEF Exit, Goto
<1>12. CASE ParentDone
  BY <1>12 DEF ParentDone, CancelWith
<1>13. CASE UNCHANGED vars
  BY <1>13 DEF vars
<1>14. QED
  BY <1>1, <1>2, <1>3, <1>4, <1>5, <1>6, <1>7, <1>8, <1>9, <1>10, <1>11, <1>12, <1>13
  DEF Next, MainStep, Enumerating, TaskStep, EngineStep, Terminated

\* The enumeration stays within the results.
LEMMA PositionStep ==
  ASSUME TypeOK, Counting, Position, [Next]_vars
  PROVE  Position'
<1> USE CollectAssumption DEF mainVars, taskVars, syncVars, ctxVars, outVars, TypeOK, Tasks, Position
<1>0. \A t \in Tasks : pc[t] \notin {"idle", "done"} => main = "launch"
  BY DEF Counting
<1>1. CASE Launch
  BY <1>1, <1>0 DEF Launch, Goto
<1>2. CASE Wait
  BY <1>2, <1>0 DEF Wait, CancelWith, AfterWait
<1>3. CASE Enumerating
  <2>1. UNCHANGED <<zip, results>> /\ main # "launch"
    BY <1>3, EnumeratingFrame
  <2>2. ASSUME NEW t \in Tasks, YieldGrouped(t) PROVE Position'
    <3>1. /\ ~zip /\ idx[t] < results[t] /\ main = "emit" /\ main' = "yield"
          /\ idx' = [idx EXCEPT ![t] = @ + 1]
      BY <2>2 DEF YieldGrouped, Give
    <3>2. \A u \in Tasks : idx'[u] <= results[u]
      BY <3>1
    <3>3. idx'[t] > 0
      BY <3>1
    <3>4. QED
      BY <2>1, <3>1, <3>2, <3>3
  <2>3. CASE YieldCombination
    <3>1. /\ zip /\ \A t \in Tasks : results[t] > 0
          /\ main' = "yield" /\ out' = Append(out, [t \in Tasks |-> idx[t] + 1])
      BY <2>3 DEF YieldCombination, Give
    <3>2. out' # <<>>
      BY <3>1
    <3>3. QED
      BY <2>1, <3>1, <3>2
  <2>4. ASSUME NEW pos \in Tasks, NextCombination(pos) PROVE Position'
    BY <2>1, <2>4 DEF NextCombination
  <2>5. CASE LastCombination
    BY <2>1, <2>5 DEF LastCombination
  <2>6. CASE EndOfResults \/ Continue \/ StopConsumer \/ Return
    BY <2>1, <2>6 DEF EndOfResults, Continue, StopConsumer, Return
  <2>7. QED
    BY <1>3, <2>2, <2>3, <2>4, <2>5, <2>6 DEF Enumerating
<1>4. ASSUME NEW t \in Tasks, Emit(t) PROVE Position'
  BY <1>4, <1>0 DEF Emit, Goto
<1>5. ASSUME NEW t \in Tasks, End(t) PROVE Position'
  BY <1>5, <1>0 DEF End, Goto
<1>6. ASSUME NEW t \in Tasks, Fail(t) PROVE Position'
  BY <1>6, <1>0 DEF Fail, Goto, Failures
<1>7. ASSUME NEW t \in Tasks, Resume(t) PROVE Position'
  BY <1>7, <1>0 DEF Resume, Goto
<1>8. ASSUME NEW t \in Tasks, Store(t) PROVE Position'
  BY <1>8, <1>0 DEF Store, Goto
<1>9. ASSUME NEW t \in Tasks, Record(t) PROVE Position'
  BY <1>9, <1>0 DEF Record, Goto
<1>10. ASSUME NEW t \in Tasks, ReturnError(t) PROVE Position'
  BY <1>10, <1>0 DEF ReturnError, Goto, CancelWith
<1>11. ASSUME NEW t \in Tasks, Exit(t) PROVE Position'
  BY <1>11, <1>0 DEF Exit, Goto
<1>12. CASE ParentDone
  BY <1>12, <1>0 DEF ParentDone, CancelWith
<1>13. CASE UNCHANGED vars
  BY <1>13, <1>0 DEF vars
<1>14. QED
  BY <1>1, <1>2, <1>3, <1>4, <1>5, <1>6, <1>7, <1>8, <1>9, <1>10, <1>11, <1>12, <1>13
  DEF Next, MainStep, Enumerating, TaskStep, EngineStep, Terminated

\* The wait reports the failures.
LEMMA SurfaceStep ==
  ASSUME TypeOK, Counting, Errors, FatalErrorsSurface, [Next]_vars
  PROVE  FatalErrorsSurface'
<1> USE CollectAssumption DEF mainVars, taskVars, syncVars, ctxVars, outVars, TypeOK, Tasks, FatalErrorsSurface
<1>0. \A t \in Tasks : pc[t] \notin {"idle", "done"} => main = "launch"
  BY DEF Counting
<1>1. CASE Launch
  BY <1>1, <1>0 DEF Launch, Goto
<1>2. CASE Wait
  <2> DEFINE failed == {t \in Tasks : err[t] # "none"}
             real   == {t \in Tasks : err[t] = "real"}
  <2>1. \A t \in Tasks : pc[t] = "done"
    BY <1>2, AllDone DEF Wait
  <2>2. Recorded = failed
    <3>1. Recorded \subseteq Tasks
      BY RecordedTasks
    <3>2. \A t \in Tasks : t \in Recorded <=> err[t] # "none"
      BY <2>1 DEF Errors
    <3>3. QED
      BY <3>1, <3>2
  <2>3. {t \in Recorded : err[t] \notin {"canceled", "deadline"}} = real
    BY <2>2 DEF ErrKinds
  <2>4. reported' = IF real # {} THEN real ELSE failed
    BY <1>2, <2>2, <2>3 DEF Wait, JoinTaskErrors, Recorded
  <2>5. real \subseteq failed
    OBVIOUS
  <2>6. main' = "failed" <=> failed # {}
    BY <1>2, <2>4, <2>5 DEF Wait, AfterWait
  <2>7. err' = err
    BY <1>2 DEF Wait
  <2>8. QED
    BY <2>4, <2>6, <2>7
<1>3. CASE Enumerating
  BY <1>3, EnumeratingFrame, <1>0
<1>4. ASSUME NEW t \in Tasks, Emit(t) PROVE FatalErrorsSurface'
  BY <1>4, <1>0 DEF Emit, Goto
<1>5. ASSUME NEW t \in Tasks, End(t) PROVE FatalErrorsSurface'
  BY <1>5, <1>0 DEF End, Goto
<1>6. ASSUME NEW t \in Tasks, Fail(t) PROVE FatalErrorsSurface'
  BY <1>6, <1>0 DEF Fail, Goto, Failures
<1>7. ASSUME NEW t \in Tasks, Resume(t) PROVE FatalErrorsSurface'
  BY <1>7, <1>0 DEF Resume, Goto
<1>8. ASSUME NEW t \in Tasks, Store(t) PROVE FatalErrorsSurface'
  BY <1>8, <1>0 DEF Store, Goto
<1>9. ASSUME NEW t \in Tasks, Record(t) PROVE FatalErrorsSurface'
  BY <1>9, <1>0 DEF Record, Goto
<1>10. ASSUME NEW t \in Tasks, ReturnError(t) PROVE FatalErrorsSurface'
  BY <1>10, <1>0 DEF ReturnError, Goto, CancelWith
<1>11. ASSUME NEW t \in Tasks, Exit(t) PROVE FatalErrorsSurface'
  BY <1>11, <1>0 DEF Exit, Goto
<1>12. CASE ParentDone
  BY <1>12, <1>0 DEF ParentDone, CancelWith
<1>13. CASE UNCHANGED vars
  BY <1>13, <1>0 DEF vars
<1>14. QED
  BY <1>1, <1>2, <1>3, <1>4, <1>5, <1>6, <1>7, <1>8, <1>9, <1>10, <1>11, <1>12, <1>13
  DEF Next, MainStep, Enumerating, TaskStep, EngineStep, Terminated

----------------------------------------------------------------------------
\* Initially nothing has happened.
LEMMA InitInductive == Init => IInv
<1> SUFFICES ASSUME Init PROVE IInv
  OBVIOUS
<1> USE CollectAssumption DEF Init
<1>1. TypeOK
  <2>1. errs \in Seq(Tasks) /\ out \in Seq(Items)
    OBVIOUS
  <2>2. made \in [Tasks -> Nat] /\ results \in [Tasks -> Nat] /\ idx \in [Tasks -> Nat] /\ launched \in 0..N
    OBVIOUS
  <2>3. pc \in [Tasks -> TaskStates] /\ err \in [Tasks -> ErrKinds]
    BY DEF TaskStates, ErrKinds
  <2>4. main \in MainStates /\ parent \in CtxStates /\ ctx \in CtxStates
    BY DEF MainStates, CtxStates
  <2>5. QED
    BY <2>1, <2>2, <2>3, <2>4 DEF TypeOK
<1>2. Counting
  BY DEF Counting, Tasks
<1>3. Slots
  BY FS_EmptySet DEF Slots, Bounded
<1>4. Errors
  BY DEF Errors, Recorded
<1>5. Harvest
  BY DEF Harvest, Sheaf
<1>6. Position /\ FatalErrorsSurface
  BY DEF Position, FatalErrorsSurface
<1>7. QED
  BY <1>1, <1>2, <1>3, <1>4, <1>5, <1>6 DEF IInv

\* Every step keeps what the invariant says.
LEMMA StepInductive == IInv /\ [Next]_vars => IInv'
BY TypeStep, CountingStep, SlotsStep, ErrorsStep, HarvestStep, PositionStep, SurfaceStep DEF IInv

\* The invariant holds in every behaviour.
LEMMA Inductive == Spec => []IInv
BY InitInductive, StepInductive, PTL DEF Spec

\* The variables keep their types.
THEOREM TypeCorrect == Spec => []TypeOK
<1>1. IInv => TypeOK
  BY DEF IInv
<1>2. QED
  BY <1>1, Inductive, PTL

\* Never do more goroutines of the level exist than WithConcurrency allows.
THEOREM ConcurrencyIsBounded == Spec => []BoundedConcurrency
<1>1. IInv => BoundedConcurrency
  BY DEF IInv, Counting, Slots, BoundedConcurrency
<1>2. QED
  BY <1>1, Inductive, PTL

\* What a reader gets comes from tasks that have all ended without an error.
LEMMA BehindTheBarrier == IInv => Barrier
<1> SUFFICES ASSUME IInv, main \notin {"launch", "failed"}, NEW t \in Tasks
             PROVE  /\ pc[t] = "done" /\ err[t] = "none" /\ results[t] = made[t]
                    /\ t \in Simple => made[t] = 1
  BY DEF Barrier
<1>1. pc[t] = "done"
  BY AllDone DEF IInv, Counting
<1>2. err[t] = "none"
  BY DEF IInv, FatalErrorsSurface
<1>3. QED
  BY <1>1, <1>2 DEF IInv, Harvest, Sheaf

\* Nothing reaches the reader before all goroutines are done and all results stored.
THEOREM NothingBeforeTheBarrier == Spec => []Barrier
BY BehindTheBarrier, Inductive, PTL

\* Fatal failures, and they alone, make the stream end with an error.
THEOREM FailuresSurface == Spec => []FatalErrorsSurface
<1>1. IInv => FatalErrorsSurface
  BY DEF IInv
<1>2. QED
  BY <1>1, Inductive, PTL

----------------------------------------------------------------------------
(* CollectParallel implements ParallelLevel. *)

AbstractBad == {t \in Tasks : err[t] # "none"}

\* Counting up one by one.
LEMMA UpToNext ==
  ASSUME NEW n \in Nat
  PROVE  /\ UpTo(n) \in Seq(Nat) /\ Len(UpTo(n)) = n
         /\ UpTo(n + 1) = Append(UpTo(n), n + 1)
         /\ UpTo(0) = <<>>
<1>1. UpTo(n) \in Seq(Nat) /\ Len(UpTo(n)) = n
  BY DEF UpTo
<1>2. UpTo(n + 1) = Append(UpTo(n), n + 1)
  BY <1>1 DEF UpTo
<1>3. UpTo(0) = <<>>
  <2>1. UpTo(0) \in Seq(Nat) /\ Len(UpTo(0)) = 0
    BY DEF UpTo
  <2>2. QED
    BY <2>1, EmptySeq
<1>4. QED
  BY <1>1, <1>2, <1>3

\* The steps of the implementation that the abstract level does not see.
LEMMA HiddenStep ==
  ASSUME UNCHANGED <<LevelStatus, LevelMade, LevelGot, AbstractBad, parent>>
  PROVE  UNCHANGED Level!vars
BY DEF Level!vars, AbstractBad

\* What the reader is given counts up by one.
LEMMA YieldStep ==
  ASSUME main = "emit", main' = "yield", NEW t \in 0..N,
         UNCHANGED <<LevelMade, AbstractBad, parent>>,
         NEW n \in Nat, LevelGot[t] = UpTo(n), n < LevelMade[t],
         LevelGot' = [LevelGot EXCEPT ![t] = UpTo(n + 1)]
  PROVE  Level!Next
<1>1. LevelStatus = "open" /\ LevelStatus' = "open"
  BY DEF LevelStatus
<1>2. Len(LevelGot[t]) = n /\ UpTo(n + 1) = Append(LevelGot[t], Len(LevelGot[t]) + 1)
  BY UpToNext
<1>3. Level!Yield(t)
  BY <1>1, <1>2 DEF Level!Yield, AbstractBad
<1>4. QED
  BY <1>3 DEF Level!Next

\* Every step of the implementation is a step of the abstract level or hidden.
LEMMA RefinementStep ==
  ASSUME IInv, [Next]_vars
  PROVE  [Level!Next]_(Level!vars)
<1> USE CollectAssumption DEF IInv, mainVars, taskVars, syncVars, ctxVars, outVars, Tasks
<1>0. \A t \in Tasks : pc[t] # "done" => main = "launch"
  BY AllDone DEF Counting
<1>1. CASE Launch
  <2>1. UNCHANGED <<main, zip, made, idx, out, results, err, parent>>
    BY <1>1 DEF Launch
  <2>2. UNCHANGED <<LevelStatus, LevelMade, LevelGot, AbstractBad, parent>>
    BY <2>1 DEF LevelStatus, LevelMade, LevelGot, AbstractBad, Zipped
  <2>3. QED
    BY <2>2, HiddenStep
<1>2. CASE Wait
  <2>1. /\ main = "launch" /\ main' \in {"emit", "failed"} /\ out = <<>>
        /\ UNCHANGED <<zip, made, idx, out, results, err, parent>>
    BY <1>2 DEF Wait, AfterWait, Position
  <2>2. LevelStatus = "open" /\ UNCHANGED <<LevelGot, AbstractBad, parent>>
    BY <2>1 DEF LevelStatus, LevelGot, AbstractBad
  <2>3. CASE main' = "failed"
    <3>1. AbstractBad # {}
      BY <1>2, <2>2, <2>3, StepInductive DEF FatalErrorsSurface, AbstractBad
    <3>2. LevelStatus' = "failed" /\ LevelMade' = LevelMade
      BY <2>1, <2>3 DEF LevelStatus, LevelMade, Zipped
    <3>3. Level!ReturnFailed
      BY <2>2, <3>1, <3>2 DEF Level!ReturnFailed, AbstractBad
    <3>4. QED
      BY <3>3 DEF Level!Next
  <2>4. CASE main' = "emit" /\ zip /\ \A t \in Tasks : results[t] > 0
    <3>1. LevelStatus' = "open"
      BY <2>4 DEF LevelStatus
    <3>2. Zipped = 0 /\ Zipped' = 1
      BY <2>1, <2>4 DEF Zipped
    <3>3. LevelMade' = [LevelMade EXCEPT ![0] = @ + 1]
      BY <2>1, <2>4, <3>2 DEF LevelMade
    <3>4. Level!Make(0)
      BY <2>2, <3>1, <3>3 DEF Level!Make, Level!Running, AbstractBad
    <3>5. QED
      BY <3>4 DEF Level!Next
  <2>5. CASE main' = "emit" /\ ~(zip /\ \A t \in Tasks : results[t] > 0)
    <3>1. LevelStatus' = LevelStatus
      BY <2>2, <2>5 DEF LevelStatus
    <3>2. LevelMade' = LevelMade
      BY <2>1, <2>5 DEF LevelMade, Zipped
    <3>3. QED
      BY <2>2, <3>1, <3>2, HiddenStep
  <2>6. QED
    BY <2>1, <2>3, <2>4, <2>5
<1>3. ASSUME NEW t \in Tasks, YieldGrouped(t)
      PROVE  [Level!Next]_(Level!vars)
  <2>1. /\ ~zip /\ main = "emit" /\ main' = "yield" /\ idx[t] < results[t]
        /\ idx' = [idx EXCEPT ![t] = @ + 1]
        /\ UNCHANGED <<zip, made, results, err, parent>>
    BY <1>3 DEF YieldGrouped, Give
  <2>2. idx[t] \in Nat /\ idx[t] < made[t]
    BY <2>1, BehindTheBarrier DEF Barrier, TypeOK
  <2>3. UNCHANGED <<LevelMade, AbstractBad, parent>>
    BY <2>1 DEF LevelMade, AbstractBad
  <2>4. LevelGot[t] = UpTo(idx[t]) /\ LevelMade[t] = made[t]
    BY <2>1 DEF LevelGot, LevelMade
  <2>5. LevelGot' = [LevelGot EXCEPT ![t] = UpTo(idx[t] + 1)]
    <3>1. \A u \in 0..N : u # 0 => idx'[u] = IF u = t THEN idx[t] + 1 ELSE idx[u]
      BY <2>1 DEF TypeOK
    <3>2. LevelGot = [u \in 0..N |-> IF u = 0 THEN UpTo(0) ELSE UpTo(idx[u])]
      BY <2>1 DEF LevelGot
    <3>3. LevelGot' = [u \in 0..N |-> IF u = 0 THEN UpTo(0) ELSE UpTo(idx'[u])]
      BY <2>1 DEF LevelGot, UpTo
    <3>4. t \in 0..N /\ t # 0
      OBVIOUS
    <3>5. \A u \in 0..N : LevelGot'[u] = IF u = t THEN UpTo(idx[t] + 1) ELSE LevelGot[u]
      BY <3>1, <3>2, <3>3, <3>4
    <3>6. QED
      BY <3>2, <3>3, <3>4, <3>5
  <2>6. t \in 0..N /\ idx[t] < LevelMade[t]
    BY <2>2, <2>4
  <2>7. Level!Next
    BY <2>1, <2>2, <2>3, <2>4, <2>5, <2>6, YieldStep
  <2>8. QED
    BY <2>7
<1>4. CASE YieldCombination
  <2>1. /\ zip /\ main = "emit" /\ main' = "yield" /\ \A t \in Tasks : results[t] > 0
        /\ out' = Append(out, [t \in Tasks |-> idx[t] + 1])
        /\ UNCHANGED <<zip, made, results, err, parent, idx>>
    BY <1>4 DEF YieldCombination, Give
  <2>2. Len(out) \in Nat /\ Len(out') = Len(out) + 1
    BY <2>1 DEF TypeOK
  <2>3. Zipped = Len(out) + 1 /\ Zipped' = Len(out) + 1
    BY <2>1, <2>2 DEF Zipped
  <2>4. UNCHANGED <<LevelMade, AbstractBad, parent>>
    BY <2>1, <2>3 DEF LevelMade, AbstractBad
  <2>5. LevelGot[0] = UpTo(Len(out)) /\ LevelMade[0] = Len(out) + 1
    BY <2>1, <2>3 DEF LevelGot, LevelMade
  <2>6. LevelGot' = [LevelGot EXCEPT ![0] = UpTo(Len(out) + 1)]
    BY <2>1, <2>2 DEF LevelGot
  <2>7. 0 \in 0..N /\ Len(out) < LevelMade[0]
    BY <2>2, <2>5
  <2>8. Level!Next
    BY <2>1, <2>2, <2>4, <2>5, <2>6, <2>7, YieldStep
  <2>9. QED
    BY <2>8
<1>5. CASE EndOfResults \/ LastCombination
  <2>1. /\ main \in {"emit", "yield"} /\ main' = "ok"
        /\ zip /\ main = "emit" => \E t \in Tasks : results[t] = 0
        /\ ~zip => \A t \in Tasks : idx[t] = results[t] /\ idx'[t] = idx[t]
        /\ UNCHANGED <<zip, made, results, err, parent, out>>
    BY <1>5 DEF EndOfResults, LastCombination
  <2>2. LevelStatus = "open" /\ LevelStatus' = "ok" /\ UNCHANGED <<AbstractBad, parent>>
    BY <2>1 DEF LevelStatus, AbstractBad
  <2>3. AbstractBad = {}
    BY <2>1, BehindTheBarrier DEF Barrier, AbstractBad
  <2>4. \A t \in Tasks : ~zip => idx[t] = made[t]
    BY <2>1, BehindTheBarrier DEF Barrier
  <2>5. Len(out) \in Nat /\ (zip => Zipped = Len(out) /\ Zipped' = Len(out))
    BY <2>1 DEF Zipped, TypeOK
  <2>6. LevelMade' = LevelMade /\ LevelGot' = LevelGot
    <3>1. LevelMade' = LevelMade
      BY <2>1, <2>5 DEF LevelMade
    <3>2. CASE zip
      BY <2>1, <3>1, <3>2 DEF LevelGot
    <3>3. CASE ~zip
      <4>1. \A t \in 0..N : t # 0 => idx'[t] = idx[t]
        BY <2>1, <3>3
      <4>2. QED
        BY <2>1, <3>1, <3>3, <4>1 DEF LevelGot
    <3>4. QED
      BY <3>2, <3>3
  <2>7. ASSUME NEW t \in 0..N PROVE Len(LevelGot[t]) = LevelMade[t]
    <3>1. \A n \in Nat : Len(UpTo(n)) = n
      BY UpToNext
    <3>2. t # 0 => t \in Tasks /\ idx[t] \in Nat
      BY DEF TypeOK
    <3>3. QED
      BY <2>4, <2>5, <3>1, <3>2 DEF LevelGot, LevelMade, TypeOK
  <2>8. Level!ReturnOk
    BY <2>2, <2>3, <2>6, <2>7 DEF Level!ReturnOk, AbstractBad
  <2>9. QED
    BY <2>8 DEF Level!Next
<1>6. CASE Continue
  <2>1. /\ main = "yield" /\ main' = "emit" /\ ~zip
        /\ UNCHANGED <<zip, made, idx, out, results, err, parent>>
    BY <1>6 DEF Continue
  <2>2. UNCHANGED <<LevelStatus, LevelMade, LevelGot, AbstractBad, parent>>
    BY <2>1 DEF LevelStatus, LevelMade, LevelGot, AbstractBad
  <2>3. QED
    BY <2>2, HiddenStep
<1>7. ASSUME NEW pos \in Tasks, NextCombination(pos)
      PROVE  [Level!Next]_(Level!vars)
  <2>1. /\ main = "yield" /\ main' = "emit" /\ zip
        /\ UNCHANGED <<zip, made, out, results, err, parent>>
    BY <1>7 DEF NextCombination
  <2>2. \A t \in Tasks : results[t] > 0
    BY <2>1 DEF Position
  <2>3. Zipped = Len(out) /\ Zipped' = Len(out) + 1 /\ Len(out) \in Nat
    BY <2>1, <2>2 DEF Zipped, TypeOK
  <2>4. LevelMade' = [LevelMade EXCEPT ![0] = @ + 1]
    BY <2>1, <2>3 DEF LevelMade
  <2>5. LevelStatus = "open" /\ UNCHANGED <<LevelStatus, LevelGot, AbstractBad, parent>>
    BY <2>1 DEF LevelStatus, LevelGot, AbstractBad
  <2>6. Level!Make(0)
    BY <2>4, <2>5 DEF Level!Make, Level!Running, AbstractBad
  <2>7. QED
    BY <2>6 DEF Level!Next
<1>8. CASE StopConsumer
  <2>1. /\ main = "yield" /\ main' = "stopping"
        /\ UNCHANGED <<zip, made, idx, out, results, err, parent>>
    BY <1>8 DEF StopConsumer
  <2>2. LevelStatus = "open" /\ LevelStatus' = "stopping"
        /\ UNCHANGED <<LevelMade, LevelGot, AbstractBad, parent>>
    BY <2>1 DEF LevelStatus, LevelMade, LevelGot, AbstractBad, Zipped
  <2>3. PICK t \in 0..N, n \in Nat \ {0} : LevelGot[t] = UpTo(n)
    <3>1. CASE zip
      <4>1. Len(out) \in Nat \ {0}
        BY <2>1, <3>1, EmptySeq DEF Position, TypeOK
      <4>2. LevelGot[0] = UpTo(Len(out))
        BY <3>1 DEF LevelGot
      <4>3. QED
        BY <4>1, <4>2
    <3>2. CASE ~zip
      <4>1. PICK u \in Tasks : idx[u] > 0
        BY <2>1, <3>2 DEF Position
      <4>2. u \in 0..N /\ LevelGot[u] = UpTo(idx[u]) /\ idx[u] \in Nat \ {0}
        BY <3>2, <4>1 DEF LevelGot, TypeOK
      <4>3. QED
        BY <4>2
    <3>3. QED
      BY <3>1, <3>2
  <2>4. LevelGot[t] # <<>>
    BY <2>3, UpToNext
  <2>5. Level!Stop
    BY <2>2, <2>4 DEF Level!Stop, AbstractBad
  <2>6. QED
    BY <2>5 DEF Level!Next
<1>9. CASE Return
  <2>1. /\ main = "stopping" /\ main' = "stopped"
        /\ UNCHANGED <<zip, made, idx, out, results, err, parent>>
    BY <1>9 DEF Return
  <2>2. LevelStatus = "stopping" /\ LevelStatus' = "stopped"
        /\ UNCHANGED <<LevelMade, LevelGot, AbstractBad, parent>>
    BY <2>1 DEF LevelStatus, LevelMade, LevelGot, AbstractBad, Zipped
  <2>3. Level!ReturnStopped
    BY <2>2 DEF Level!ReturnStopped, AbstractBad
  <2>4. QED
    BY <2>3 DEF Level!Next
<1>10. ASSUME NEW t \in Tasks, Emit(t) \/ Resume(t)
       PROVE  [Level!Next]_(Level!vars)
  <2>1. /\ made' = [made EXCEPT ![t] = @ + 1] /\ pc[t] = "run"
        /\ UNCHANGED <<main, zip, idx, out, results, err, parent>>
    BY <1>10 DEF Emit, Resume
  <2>2. LevelStatus = "open" /\ UNCHANGED <<LevelStatus, LevelGot, AbstractBad, parent>>
    BY <1>0, <2>1 DEF LevelStatus, LevelGot, AbstractBad
  <2>3. CASE zip
    <3>1. LevelMade' = LevelMade
      BY <2>1, <2>3 DEF LevelMade, Zipped
    <3>2. QED
      BY <2>2, <3>1, HiddenStep
  <2>4. CASE ~zip
    <3>0. \A u \in 0..N : u # 0 => made'[u] = IF u = t THEN made[t] + 1 ELSE made[u]
      BY <2>1 DEF TypeOK
    <3>1. LevelMade' = [LevelMade EXCEPT ![t] = @ + 1]
      BY <2>1, <2>4, <3>0 DEF LevelMade
    <3>2. Level!Make(t)
      BY <2>2, <3>1 DEF Level!Make, Level!Running, AbstractBad
    <3>3. QED
      BY <3>2 DEF Level!Next
  <2>5. QED
    BY <2>3, <2>4
<1>11. ASSUME NEW t \in Tasks, Fail(t)
       PROVE  [Level!Next]_(Level!vars)
  <2>1. PICK kind \in Failures : err' = [err EXCEPT ![t] = kind]
    BY <1>11 DEF Fail
  <2>2. kind # "none"
    BY <2>1 DEF Failures, TypeOK, CtxStates
  <2>3. AbstractBad' = AbstractBad \cup {t}
    BY <2>1, <2>2 DEF AbstractBad, TypeOK
  <2>4. pc[t] = "run" /\ UNCHANGED <<main, zip, made, idx, out, results, parent>>
    BY <1>11 DEF Fail
  <2>5. LevelStatus = "open" /\ UNCHANGED <<LevelStatus, LevelMade, LevelGot>>
    BY <1>0, <2>4 DEF LevelStatus, LevelMade, LevelGot, Zipped
  <2>6. Level!Break(t)
    BY <2>3, <2>4, <2>5 DEF Level!Break, Level!Running, AbstractBad
  <2>7. QED
    BY <2>6 DEF Level!Next
<1>12. ASSUME NEW t \in Tasks, End(t) \/ Store(t) \/ Record(t) \/ ReturnError(t) \/ Exit(t)
       PROVE  [Level!Next]_(Level!vars)
  <2>1. pc[t] # "done" /\ UNCHANGED <<main, zip, made, idx, out, err, parent>>
    BY <1>12 DEF End, Store, Record, ReturnError, Exit
  <2>2. main = "launch" /\ main' = "launch"
    BY <1>0, <2>1
  <2>3. UNCHANGED <<LevelStatus, LevelMade, LevelGot, AbstractBad, parent>>
    BY <2>1, <2>2 DEF LevelStatus, LevelMade, LevelGot, AbstractBad, Zipped
  <2>4. QED
    BY <2>3, HiddenStep
<1>13. CASE ParentDone
  <2>1. parent' # "live" /\ UNCHANGED <<main, zip, made, idx, out, results, err>>
    BY <1>13 DEF ParentDone
  <2>2. UNCHANGED <<LevelStatus, LevelMade, LevelGot, AbstractBad>>
    BY <2>1 DEF LevelStatus, LevelMade, LevelGot, AbstractBad, Zipped
  <2>3. Level!Cancel
    BY <2>1, <2>2 DEF Level!Cancel, AbstractBad
  <2>4. QED
    BY <2>3 DEF Level!Next
<1>14. CASE UNCHANGED vars
  <2>1. UNCHANGED <<main, zip, made, idx, out, results, err, parent>>
    BY <1>14 DEF vars
  <2>2. UNCHANGED <<LevelStatus, LevelMade, LevelGot, AbstractBad, parent>>
    BY <2>1 DEF LevelStatus, LevelMade, LevelGot, AbstractBad, Zipped
  <2>3. QED
    BY <2>2, HiddenStep
<1>15. QED
  BY <1>1, <1>2, <1>3, <1>4, <1>5, <1>6, <1>7, <1>8, <1>9, <1>10, <1>11, <1>12, <1>13, <1>14
  DEF Next, MainStep, TaskStep, EngineStep, Terminated

\* At first the level that ParallelLevel sees has neither output nor failures.
LEMMA RefinementInit == Init => Level!Init
<1> SUFFICES ASSUME Init PROVE Level!Init
  OBVIOUS
<1>1. LevelStatus = "open" /\ {t \in Tasks : err[t] # "none"} = {}
  BY DEF Init, LevelStatus
<1>2. LevelMade = [t \in 0..N |-> 0]
  BY CollectAssumption DEF Init, LevelMade, Zipped, Tasks
<1>3. LevelGot = [t \in 0..N |-> <<>>]
  <2>1. UpTo(0) = <<>>
    BY UpToNext
  <2>2. Len(out) = 0 /\ \A t \in 0..N : t # 0 => idx[t] = 0
    BY CollectAssumption DEF Init, Tasks
  <2>3. QED
    BY <2>1, <2>2 DEF LevelGot
<1>4. QED
  BY <1>1, <1>2, <1>3 DEF Level!Init

\* Ordered or zipped, the level keeps the promise of ParallelLevel.
THEOREM Refinement == Spec => ImplementsLevel
BY RefinementInit, RefinementStep, Inductive, PTL DEF Spec, ImplementsLevel, Level!Spec

----------------------------------------------------------------------------
(* Arithmetic: induction, and division with remainder. *)

\* Induction on the natural numbers, for a set instead of a formula: otherwise the
\* smallest number outside of it would have a predecessor in it.
LEMMA Induction ==
  ASSUME NEW S, 0 \in S, \A n \in Nat : n \in S => n + 1 \in S
  PROVE  Nat \subseteq S
<1> DEFINE R == {ij \in Nat \X Nat : ij[1] < ij[2]}
<1>1. IsWellFoundedOn(R, Nat)
  BY NatLessThanWellFounded DEF OpToRel
<1>2. \A i, j \in Nat : <<i, j>> \in R <=> i < j
  OBVIOUS
<1> HIDE DEF R
<1>3. SUFFICES ASSUME Nat \ S # {} PROVE FALSE
  OBVIOUS
<1>4. PICK n \in Nat \ S : \A m \in Nat \ S : <<m, n>> \notin R
  BY <1>1, <1>3, WFMin
<1>5. n # 0 /\ n - 1 \in Nat /\ n - 1 < n
  OBVIOUS
<1>6. n - 1 \in S
  BY <1>2, <1>4, <1>5
<1> QED
  BY <1>4, <1>5, <1>6

\* What a quotient and a remainder are ...
LEMMA Division ==
  ASSUME NEW x \in Nat, NEW b \in Nat \ {0}
  PROVE  /\ x \div b \in Nat /\ x % b \in 0..(b - 1)
         /\ x = b * (x \div b) + (x % b)
  OBVIOUS

\* ... and that no other numbers are.
LEMMA QuotientUnique ==
  ASSUME NEW b \in Nat \ {0}, NEW p \in Nat, NEW q \in Nat, NEW r \in 0..(b - 1), NEW s \in 0..(b - 1),
         b * p + r = b * q + s
  PROVE  p = q /\ r = s
<1>1. ASSUME NEW i \in Nat, NEW j \in Nat, i < j PROVE b * i + b <= b * j
  <2>1. j = i + 1 + (j - i - 1) /\ j - i - 1 \in Nat
    BY <1>1
  <2>2. PICK d \in Nat : j = i + 1 + d
    BY <2>1
  <2>3. b * j = b * i + b + b * d /\ b * d >= 0
    BY <2>2
  <2> QED
    BY <2>3
<1>2. ~(p < q) /\ ~(q < p)
  BY <1>1
<1> QED
  BY <1>2

\* Dividing by a product is dividing by its factors, one after the other.
LEMMA DivDiv ==
  ASSUME NEW x \in Nat, NEW a \in Nat \ {0}, NEW b \in Nat \ {0}
  PROVE  a * b \in Nat \ {0} /\ x \div (a * b) = (x \div a) \div b
<1> DEFINE q == x \div a
           r == x % a
           u == q \div b
           v == q % b
<1>1. a * b \in Nat /\ a * b > 0
  OBVIOUS
<1>2. q \in Nat /\ r \in 0..(a - 1) /\ x = a * q + r
  BY Division
<1>3. u \in Nat /\ v \in 0..(b - 1) /\ q = b * u + v
  BY <1>2, Division
<1>4. x \div (a * b) \in Nat /\ x % (a * b) \in 0..(a * b - 1) /\ x = (a * b) * (x \div (a * b)) + (x % (a * b))
  BY <1>1, Division
<1> HIDE DEF q, r, u, v
<1>5. x = (a * b) * u + (a * v + r)
  <2>1. a * (b * u + v) = (a * b) * u + a * v
    BY <1>3
  <2> QED
    BY <1>2, <1>3, <2>1
<1>6. a * v + r \in 0..(a * b - 1)
  <2>1. a * v \in Nat /\ a * v <= a * (b - 1)
    BY <1>3
  <2>2. a * (b - 1) = a * b - a
    OBVIOUS
  <2> QED
    BY <1>1, <1>2, <2>1, <2>2
<1>7. x \div (a * b) = u
  <2>1. PICK c \in Nat \ {0} : c = a * b
    BY <1>1
  <2>2. PICK p \in Nat, s \in 0..(c - 1) : p = x \div c /\ s = x % c /\ x = c * p + s
    BY Division
  <2>3. PICK t \in 0..(c - 1) : x = c * u + t
    BY <1>5, <1>6, <2>1
  <2>4. p = u
    BY <1>3, <2>2, <2>3, QuotientUnique
  <2> QED
    BY <2>1, <2>2, <2>4
<1> QED
  BY <1>1, <1>7 DEF u, q

\* The same, as one formula.
LEMMA DivTwice ==
  \A x \in Nat, a, b \in Nat \ {0} : x \div (a * b) = (x \div a) \div b
BY DivDiv

\* One more: the last digit of q in base r advances, or it wraps and carries.
LEMMA Wrap ==
  ASSUME NEW q \in Nat, NEW r \in Nat \ {0}
  PROVE  /\ (q % r) + 1 >= r => (q + 1) \div r = q \div r + 1 /\ (q + 1) % r = 0
         /\ (q % r) + 1 < r => (q + 1) \div r = q \div r /\ (q + 1) % r = (q % r) + 1
<1> DEFINE p == q \div r
           s == q % r
           p1 == (q + 1) \div r
           s1 == (q + 1) % r
<1>1. p \in Nat /\ s \in 0..(r - 1) /\ q = r * p + s
  BY Division
<1>2. p1 \in Nat /\ s1 \in 0..(r - 1) /\ q + 1 = r * p1 + s1
  <2>1. q + 1 \in Nat
    OBVIOUS
  <2> QED
    BY <2>1, Division
<1> HIDE DEF p, s, p1, s1
<1>3. CASE s + 1 >= r
  <2>1. r * (p + 1) + 0 = r * p1 + s1 /\ 0 \in 0..(r - 1) /\ p + 1 \in Nat
    <3>1. r * (p + 1) = r * p + r
      BY <1>1
    <3> QED
      BY <1>1, <1>2, <1>3, <3>1
  <2>2. p + 1 = p1 /\ 0 = s1
    BY <1>2, <2>1, QuotientUnique
  <2> QED
    BY <1>1, <1>3, <2>2 DEF p, s, p1, s1
<1>4. CASE s + 1 < r
  <2>1. r * p + (s + 1) = r * p1 + s1 /\ s + 1 \in 0..(r - 1)
    BY <1>1, <1>2, <1>4
  <2>2. p = p1 /\ s + 1 = s1
    BY <1>1, <1>2, <2>1, QuotientUnique
  <2> QED
    BY <1>1, <1>4, <2>2 DEF p, s, p1, s1
<1> QED
  BY <1>1, <1>3, <1>4

----------------------------------------------------------------------------
(* The recursive functions of the reference for the output. *)

\* Their defining equations, of any function.
BeforeEq(f) == f = [t \in 1..(N + 1) |-> IF t = 1 THEN 0 ELSE f[t - 1] + results[t - 1]]
WeightEq(f) == f = [t \in 0..N |-> IF t = N THEN 1 ELSE f[t + 1] * results[t + 1]]

\* Before is defined: a function that satisfies the equation on 1..(k + 1) extends to
\* one that does on 1..(k + 2).  And no other does, so its values are numbers.
LEMMA BeforeIs ==
  ASSUME TypeOK
  PROVE  BeforeEq(Before) /\ Before \in [1..(N + 1) -> Nat]
<1> USE CollectAssumption
<1>r. results \in [1..N -> Nat]
  BY DEF TypeOK, Tasks
<1> DEFINE Eq(f, k) == \A t \in 1..(k + 1) : f[t] = IF t = 1 THEN 0 ELSE f[t - 1] + results[t - 1]
           Some(k) == k <= N => \E f \in [1..(N + 1) -> Nat] : Eq(f, k)
           S == {k \in Nat : Some(k)}
<1>1. 0 \in S
  <2>1. [t \in 1..(N + 1) |-> 0] \in [1..(N + 1) -> Nat] /\ Eq([t \in 1..(N + 1) |-> 0], 0)
    OBVIOUS
  <2> QED
    BY <2>1
<1>2. ASSUME NEW k \in Nat, k \in S
      PROVE  k + 1 \in S
  <2> SUFFICES ASSUME k + 1 <= N PROVE Some(k + 1)
    OBVIOUS
  <2>1. PICK f \in [1..(N + 1) -> Nat] : Eq(f, k)
    BY <1>2
  <2> DEFINE g == [t \in 1..(N + 1) |-> IF t = k + 2 THEN f[t - 1] + results[t - 1] ELSE f[t]]
  <2>2. g \in [1..(N + 1) -> Nat]
    BY <1>r, <1>2
  <2>3. Eq(g, k + 1)
    BY <1>2, <2>1
  <2> QED
    BY <2>2, <2>3
<1>3. N \in S
  <2>1. \A k \in Nat : k \in S => k + 1 \in S
    BY <1>2
  <2> HIDE DEF S
  <2> QED
    BY <1>1, <2>1, Induction
<1>4. PICK f \in [1..(N + 1) -> Nat] : Eq(f, N)
  BY <1>3
<1>5. BeforeEq(f)
  BY <1>4 DEF BeforeEq
<1>6. Before = CHOOSE h : BeforeEq(h)
  BY DEF Before, BeforeEq
<1>7. BeforeEq(Before)
  BY <1>5, <1>6
<1>8. Before = f
  <2> DEFINE B == {k \in Nat : k <= N => Before[k + 1] = f[k + 1]}
  <2>1. 0 \in B
    BY <1>5, <1>7 DEF BeforeEq
  <2>2. \A k \in Nat : k \in B => k + 1 \in B
    BY <1>5, <1>7 DEF BeforeEq
  <2>3. Nat \subseteq B
    <3> HIDE DEF B
    <3> QED
      BY <2>1, <2>2, Induction
  <2>4. \A t \in 1..(N + 1) : Before[t] = f[t]
    <3> SUFFICES ASSUME NEW t \in 1..(N + 1) PROVE Before[t] = f[t]
      OBVIOUS
    <3>1. t - 1 \in B /\ (t - 1) + 1 = t /\ t - 1 <= N
      BY <2>3
    <3> QED
      BY <3>1
  <2> QED
    BY <1>5, <1>7, <2>4 DEF BeforeEq
<1> QED
  BY <1>7, <1>8

\* Weight is defined: a function that satisfies the equation on (N - k)..N extends to
\* one that does on (N - k - 1)..N.
LEMMA WeightIs ==
  ASSUME TypeOK
  PROVE  WeightEq(Weight) /\ Weight \in [0..N -> Nat]
<1> USE CollectAssumption
<1>r. results \in [1..N -> Nat]
  BY DEF TypeOK, Tasks
<1> DEFINE Eq(f, k) == \A t \in k..N : f[t] = IF t = N THEN 1 ELSE f[t + 1] * results[t + 1]
           Some(k) == k <= N => \E f \in [0..N -> Nat] : Eq(f, N - k)
           S == {k \in Nat : Some(k)}
<1>1. 0 \in S
  <2>1. [t \in 0..N |-> 1] \in [0..N -> Nat] /\ Eq([t \in 0..N |-> 1], N - 0)
    OBVIOUS
  <2> QED
    BY <2>1
<1>2. ASSUME NEW k \in Nat, k \in S
      PROVE  k + 1 \in S
  <2> SUFFICES ASSUME k + 1 <= N PROVE Some(k + 1)
    OBVIOUS
  <2>1. PICK f \in [0..N -> Nat] : Eq(f, N - k)
    BY <1>2
  <2>2. PICK u \in 0..(N - 1) : u = N - (k + 1)
    OBVIOUS
  <2> DEFINE g == [t \in 0..N |-> IF t = u THEN f[u + 1] * results[u + 1] ELSE f[t]]
  <2>3. f[u + 1] * results[u + 1] \in Nat
    BY <1>r
  <2>4. g \in [0..N -> Nat]
    BY <2>3
  <2>5. Eq(g, u)
    BY <2>1, <2>2
  <2> QED
    BY <2>2, <2>4, <2>5
<1>3. N \in S
  <2>1. \A k \in Nat : k \in S => k + 1 \in S
    BY <1>2
  <2> HIDE DEF S
  <2> QED
    BY <1>1, <2>1, Induction
<1>4. PICK f \in [0..N -> Nat] : Eq(f, 0)
  BY <1>3
<1>5. WeightEq(f)
  BY <1>4 DEF WeightEq
<1>6. Weight = CHOOSE h : WeightEq(h)
  BY DEF Weight, WeightEq
<1>7. WeightEq(Weight)
  BY <1>5, <1>6
<1> DEFINE B == {k \in Nat : k <= N => Weight[N - k] \in Nat}
<1>8. 0 \in B
  BY <1>7 DEF WeightEq
<1>9. ASSUME NEW k \in Nat, k \in B PROVE k + 1 \in B
  <2> SUFFICES ASSUME k + 1 <= N PROVE Weight[N - (k + 1)] \in Nat
    OBVIOUS
  <2>1. PICK u \in 0..(N - 1) : u = N - (k + 1)
    OBVIOUS
  <2>2. Weight[u] = Weight[u + 1] * results[u + 1]
    BY <1>7 DEF WeightEq
  <2>3. Weight[u + 1] \in Nat /\ results[u + 1] \in Nat
    BY <1>r, <1>9, <2>1
  <2> QED
    BY <2>1, <2>2, <2>3
<1>10. \A k \in Nat : k <= N => Weight[N - k] \in Nat
  <2>1. \A k \in Nat : k \in B => k + 1 \in B
    BY <1>9
  <2>2. Nat \subseteq B
    <3> HIDE DEF B
    <3> QED
      BY <1>8, <2>1, Induction
  <2> QED
    BY <2>2
<1>11. \A t \in 0..N : Weight[t] \in Nat
  <2> SUFFICES ASSUME NEW t \in 0..N PROVE Weight[t] \in Nat
    OBVIOUS
  <2>1. PICK k \in Nat : k <= N /\ N - k = t
    <3>1. N - t \in Nat /\ N - t <= N /\ N - (N - t) = t
      OBVIOUS
    <3> QED
      BY <3>1
  <2>2. Weight[N - k] \in Nat
    BY <1>10, <2>1
  <2> QED
    BY <2>1, <2>2
<1> QED
  BY <1>7, <1>11 DEF WeightEq

\* Tasks without a state do not count: as many states are before task b as were before
\* the last task that has some, a, and that one's.
LEMMA BeforeSkips ==
  ASSUME TypeOK, NEW a \in Tasks, NEW b \in (a + 1)..(N + 1),
         \A u \in Tasks : a < u /\ u < b => results[u] = 0
  PROVE  Before[b] = Before[a] + results[a]
<1> USE CollectAssumption DEF Tasks
<1>1. BeforeEq(Before) /\ Before \in [1..(N + 1) -> Nat] /\ results \in [1..N -> Nat]
  BY BeforeIs DEF TypeOK
<1> DEFINE S == {k \in Nat : a + 1 + k <= b => Before[a + 1 + k] = Before[a] + results[a]}
<1>2. 0 \in S
  BY <1>1 DEF BeforeEq
<1>3. ASSUME NEW k \in Nat, k \in S PROVE k + 1 \in S
  <2> SUFFICES ASSUME a + 1 + (k + 1) <= b PROVE Before[a + 1 + (k + 1)] = Before[a] + results[a]
    OBVIOUS
  <2>1. PICK u \in Tasks : u = a + 1 + k
    OBVIOUS
  <2>2. results[u] = 0 /\ Before[u] = Before[a] + results[a]
    BY <1>3, <2>1
  <2>3. Before[u + 1] = Before[u] + results[u]
    BY <1>1 DEF BeforeEq
  <2> QED
    BY <1>1, <2>1, <2>2, <2>3
<1>4. Nat \subseteq S
  <2>1. \A k \in Nat : k \in S => k + 1 \in S
    BY <1>3
  <2> HIDE DEF S
  <2> QED
    BY <1>2, <2>1, Induction
<1>5. PICK k \in Nat : k = b - (a + 1)
  OBVIOUS
<1>6. k \in S /\ a + 1 + k = b
  BY <1>4, <1>5
<1> QED
  BY <1>6

\* The product is zero exactly if some task has no states.
LEMMA WeightPositive ==
  ASSUME TypeOK
  PROVE  /\ (\A t \in Tasks : results[t] > 0) => \A t \in 0..N : Weight[t] \in Nat \ {0}
         /\ (\E t \in Tasks : results[t] = 0) => Weight[0] = 0
<1> USE CollectAssumption DEF Tasks
<1>1. WeightEq(Weight) /\ Weight \in [0..N -> Nat] /\ results \in [1..N -> Nat]
  BY WeightIs DEF TypeOK
<1>2. ASSUME \A t \in Tasks : results[t] > 0
      PROVE  \A t \in 0..N : Weight[t] \in Nat \ {0}
  <2> DEFINE S == {k \in Nat : k <= N => Weight[N - k] > 0}
  <2>1. 0 \in S
    BY <1>1 DEF WeightEq
  <2>2. ASSUME NEW k \in Nat, k \in S PROVE k + 1 \in S
    <3> SUFFICES ASSUME k + 1 <= N PROVE Weight[N - (k + 1)] > 0
      OBVIOUS
    <3>1. PICK u \in 0..(N - 1) : u = N - (k + 1)
      OBVIOUS
    <3>2. Weight[u] = Weight[u + 1] * results[u + 1]
      BY <1>1 DEF WeightEq
    <3>3. Weight[u + 1] \in Nat \ {0} /\ results[u + 1] \in Nat \ {0}
      BY <1>1, <1>2, <2>2, <3>1
    <3>4. \A x, y \in Nat \ {0} : x * y > 0
      OBVIOUS
    <3> QED
      BY <3>1, <3>2, <3>3, <3>4
  <2>3. Nat \subseteq S
    <3>1. \A k \in Nat : k \in S => k + 1 \in S
      BY <2>2
    <3> HIDE DEF S
    <3> QED
      BY <2>1, <3>1, Induction
  <2> SUFFICES ASSUME NEW t \in 0..N PROVE Weight[t] \in Nat \ {0}
    OBVIOUS
  <2>4. N - t \in S /\ N - (N - t) = t /\ N - t <= N
    BY <2>3
  <2> QED
    BY <1>1, <2>4
<1>3. ASSUME NEW z \in Tasks, results[z] = 0
      PROVE  Weight[0] = 0
  <2> DEFINE S == {k \in Nat : k < z => Weight[z - 1 - k] = 0}
  <2>1. 0 \in S
    <3>1. Weight[z - 1] = Weight[z] * results[z]
      BY <1>1 DEF WeightEq
    <3> QED
      BY <1>1, <1>3, <3>1
  <2>2. ASSUME NEW k \in Nat, k \in S PROVE k + 1 \in S
    <3> SUFFICES ASSUME k + 1 < z PROVE Weight[z - 1 - (k + 1)] = 0
      OBVIOUS
    <3>1. PICK u \in 0..(N - 1) : u = z - 1 - (k + 1)
      OBVIOUS
    <3>2. Weight[u] = Weight[u + 1] * results[u + 1] /\ results[u + 1] \in Nat
      BY <1>1 DEF WeightEq
    <3>3. Weight[u + 1] = 0
      BY <2>2, <3>1
    <3> QED
      BY <3>1, <3>2, <3>3
  <2>3. Nat \subseteq S
    <3>1. \A k \in Nat : k \in S => k + 1 \in S
      BY <2>2
    <3> HIDE DEF S
    <3> QED
      BY <2>1, <3>1, Induction
  <2>4. z - 1 \in S /\ z - 1 - (z - 1) = 0
    BY <2>3
  <2> QED
    BY <2>4
<1> QED
  BY <1>2, <1>3

\* One more combination: the digits from pos on, which have all wrapped behind it, carry into
\* pos, and those before it stay.
LEMMA Carries ==
  ASSUME TypeOK, \A t \in Tasks : results[t] > 0, NEW x \in Nat, NEW pos \in 0..N,
         \A t \in Tasks : t > pos => ((x \div Weight[t]) % results[t]) + 1 >= results[t]
  PROVE  \A t \in pos..N : (x + 1) \div Weight[t] = (x \div Weight[t]) + 1
<1> USE CollectAssumption DEF Tasks
<1>1. WeightEq(Weight) /\ Weight \in [0..N -> Nat] /\ results \in [1..N -> Nat]
  BY WeightIs DEF TypeOK
<1>2. \A t \in 0..N : Weight[t] \in Nat \ {0}
  BY WeightPositive
<1> DEFINE S == {k \in Nat : pos <= N - k => (x + 1) \div Weight[N - k] = (x \div Weight[N - k]) + 1}
<1>3. 0 \in S
  <2>1. Weight[N] = 1
    BY <1>1 DEF WeightEq
  <2> QED
    BY <2>1
<1>4. ASSUME NEW k \in Nat, k \in S PROVE k + 1 \in S
  <2> SUFFICES ASSUME pos <= N - (k + 1)
               PROVE  (x + 1) \div Weight[N - (k + 1)] = (x \div Weight[N - (k + 1)]) + 1
    OBVIOUS
  <2>1. PICK t \in Tasks : t = N - k
    OBVIOUS
  <2>2. PICK w \in Nat \ {0}, r \in Nat \ {0} : w = Weight[t] /\ r = results[t]
    <3>1. Weight[t] \in Nat \ {0} /\ results[t] \in Nat \ {0}
      BY <1>1, <1>2
    <3> QED
      BY <3>1
  <2>3. Weight[t - 1] = w * r
    BY <1>1, <2>2 DEF WeightEq
  <2>q. PICK q \in Nat : q = x \div w
    BY Division
  <2>4. (x + 1) \div w = q + 1
    BY <1>4, <2>1, <2>2, <2>q
  <2>5. (q % r) + 1 >= r
    BY <2>1, <2>2, <2>q
  <2>6. (q + 1) \div r = (q \div r) + 1
    BY <2>5, Wrap
  <2>7. (x + 1) \div (w * r) = (q + 1) \div r /\ x \div (w * r) = q \div r
    <3>1. PICK y \in Nat : y = x + 1
      OBVIOUS
    <3>2. y \div (w * r) = (y \div w) \div r /\ x \div (w * r) = (x \div w) \div r
      BY DivDiv
    <3> QED
      BY <2>q, <2>4, <3>1, <3>2
  <2> QED
    BY <2>1, <2>3, <2>6, <2>7
<1>5. Nat \subseteq S
  <2>1. \A k \in Nat : k \in S => k + 1 \in S
    BY <1>4
  <2> HIDE DEF S
  <2> QED
    BY <1>3, <2>1, Induction
<1> SUFFICES ASSUME NEW t \in pos..N PROVE (x + 1) \div Weight[t] = (x \div Weight[t]) + 1
  OBVIOUS
<1>6. PICK k \in Nat : k = N - t
  OBVIOUS
<1>7. k \in S /\ N - k = t
  BY <1>5, <1>6
<1> QED
  BY <1>7

\* What does not carry out of digit pos leaves all digits before it.
LEMMA NoCarry ==
  ASSUME TypeOK, \A t \in Tasks : results[t] > 0, NEW x \in Nat, NEW pos \in Tasks,
         (x + 1) \div Weight[pos - 1] = x \div Weight[pos - 1]
  PROVE  \A t \in 0..(pos - 1) : (x + 1) \div Weight[t] = x \div Weight[t]
<1> USE CollectAssumption DEF Tasks
<1>1. WeightEq(Weight) /\ Weight \in [0..N -> Nat] /\ results \in [1..N -> Nat]
  BY WeightIs DEF TypeOK
<1>2. \A t \in 0..N : Weight[t] \in Nat \ {0}
  BY WeightPositive
<1> DEFINE S == {k \in Nat : k <= pos - 1 =>
                              (x + 1) \div Weight[pos - 1 - k] = x \div Weight[pos - 1 - k]}
<1>3. 0 \in S
  OBVIOUS
<1>4. ASSUME NEW k \in Nat, k \in S PROVE k + 1 \in S
  <2> SUFFICES ASSUME k + 1 <= pos - 1
               PROVE  (x + 1) \div Weight[pos - 1 - (k + 1)] = x \div Weight[pos - 1 - (k + 1)]
    OBVIOUS
  <2>1. PICK t \in Tasks : t = pos - 1 - k
    OBVIOUS
  <2>2. PICK w \in Nat \ {0}, r \in Nat \ {0} : w = Weight[t] /\ r = results[t]
    <3>1. Weight[t] \in Nat \ {0} /\ results[t] \in Nat \ {0}
      BY <1>1, <1>2
    <3> QED
      BY <3>1
  <2>3. Weight[t - 1] = w * r
    BY <1>1, <2>2 DEF WeightEq
  <2>4. (x + 1) \div w = x \div w
    BY <1>4, <2>1, <2>2
  <2>5. (x + 1) \div (w * r) = ((x + 1) \div w) \div r /\ x \div (w * r) = (x \div w) \div r
    <3>1. PICK y \in Nat : y = x + 1
      OBVIOUS
    <3>2. y \div (w * r) = (y \div w) \div r
      BY DivTwice, Zenon
    <3>3. x \div (w * r) = (x \div w) \div r
      BY DivTwice, Zenon
    <3> QED
      BY <3>1, <3>2, <3>3
  <2> QED
    BY <2>1, <2>3, <2>4, <2>5
<1>5. Nat \subseteq S
  <2>1. \A k \in Nat : k \in S => k + 1 \in S
    BY <1>4
  <2> HIDE DEF S
  <2> QED
    BY <1>3, <2>1, Induction
<1> SUFFICES ASSUME NEW t \in 0..(pos - 1) PROVE (x + 1) \div Weight[t] = x \div Weight[t]
  OBVIOUS
<1>6. PICK k \in Nat : k = pos - 1 - t
  OBVIOUS
<1>7. k \in S /\ pos - 1 - k = t /\ k <= pos - 1
  BY <1>5, <1>6
<1> QED
  BY <1>7

----------------------------------------------------------------------------
(* The order of the output. *)

\* The product of the results is not empty.
NoneEmpty == \A t \in Tasks : results[t] > 0

\* A grouped enumeration is at task t: those before it are through, those behind it not begun.
AtTask(t) ==
  /\ \A u \in Tasks : (u < t => idx[u] = results[u]) /\ (u > t => idx[u] = 0)
  /\ Len(out) = Before[t] + idx[t]

\* The odometer reads n.
Reads(n) == \A t \in Tasks : idx[t] = (n \div Weight[t]) % results[t]

\* Once the wait is over and no error was yielded a grouped enumeration is at some task.
Listing == main \notin {"launch", "failed"} => \E t \in Tasks : AtTask(t)

\* The odometer reads the number of the combination to be given next, or of the one that
\* was given last; and there are as many combinations as the product has.
Turning ==
  /\ main = "emit" /\ NoneEmpty => Reads(Len(out)) /\ Len(out) < Weight[0]
  /\ main = "emit" /\ ~NoneEmpty => out = <<>>
  /\ main = "yield" => Reads(Len(out) - 1) /\ Len(out) <= Weight[0]

\* What makes OutputInOrder inductive, together with IInv.
Order ==
  /\ OutputInOrder
  /\ main = "failed" => out = <<>>
  /\ ~zip => Listing
  /\ zip => Turning

\* Before and Weight depend on the results only.
LEMMA ResultsKept ==
  ASSUME results' = results
  PROVE  Before' = Before /\ Weight' = Weight
BY DEF Before, Weight

\* A step that leaves the enumeration alone.
LEMMA OrderFrame ==
  ASSUME Order, UNCHANGED <<zip, main, idx, out, results>>
  PROVE  Order'
<1>1. Before' = Before /\ Weight' = Weight
  BY ResultsKept
<1> QED
  BY <1>1 DEF Order, OutputInOrder, Listing, Turning, AtTask, Reads, NoneEmpty

\* Nothing was given yet.
LEMMA OrderEmpty ==
  ASSUME out' = <<>>, main' \in {"launch", "failed"}
  PROVE  Order'
BY DEF Order, OutputInOrder, Listing, Turning

\* An item is added that has the number it should have.
LEMMA OutputGrows ==
  ASSUME TypeOK, OutputInOrder, NEW item, out' = Append(out, item), UNCHANGED <<zip, results>>,
         main' # "ok",
         zip  => \A t \in Tasks : item[t] = 1 + ((Len(out) \div Weight[t]) % results[t]),
         ~zip => Before[item[1]] + item[2] = Len(out) + 1 /\ item[2] \in 1..results[item[1]]
  PROVE  OutputInOrder'
<1>1. Before' = Before /\ Weight' = Weight
  BY ResultsKept
<1>2. PICK n \in Nat : n = Len(out)
  BY DEF TypeOK
<1>3. DOMAIN out = 1..n /\ DOMAIN out' = 1..(n + 1) /\ out'[n + 1] = item
      /\ \A k \in 1..n : out'[k] = out[k]
  BY <1>2 DEF TypeOK
<1> SUFFICES ASSUME NEW k \in 1..(n + 1)
    PROVE  IF zip THEN \A t \in Tasks : out'[k][t] = 1 + (((k - 1) \div Weight[t]) % results[t])
           ELSE Before[out'[k][1]] + out'[k][2] = k /\ out'[k][2] \in 1..results[out'[k][1]]
  BY <1>1, <1>3 DEF OutputInOrder
<1>4. CASE k = n + 1
  <2>1. k - 1 = n
    BY <1>4
  <2> QED
    BY <1>2, <1>3, <1>4, <2>1
<1>5. CASE k # n + 1
  <2>1. k \in 1..n
    BY <1>5
  <2> QED
    BY <1>3, <2>1 DEF OutputInOrder
<1> QED
  BY <1>4, <1>5

\* The output stays; if the stream ends it is complete.
LEMMA OutputStays ==
  ASSUME OutputInOrder, UNCHANGED <<zip, results, out>>,
         main' = "ok" => Len(out) = IF zip THEN Weight[0] ELSE Before[N + 1]
  PROVE  OutputInOrder'
BY ResultsKept DEF OutputInOrder

\* The wait ends with nothing given and all indices at zero: an odometer that reads 0.
LEMMA WaitOrder ==
  ASSUME TypeOK, Position, Order, Wait
  PROVE  Order'
<1> USE CollectAssumption DEF Tasks
<1>1. /\ main = "launch" /\ main' \in {"emit", "failed"}
      /\ out = <<>> /\ Len(out) = 0 /\ \A t \in Tasks : idx[t] = 0
      /\ UNCHANGED <<zip, idx, out, results>>
  BY DEF Wait, AfterWait, Position, outVars, syncVars
<1>2. Before' = Before /\ Weight' = Weight
  BY <1>1, ResultsKept
<1>3. OutputInOrder'
  BY <1>1, OutputStays DEF Order
<1>4. AtTask(1)'
  <2>1. Before[1] = 0
    BY BeforeIs DEF BeforeEq
  <2> QED
    BY <1>1, <1>2, <2>1 DEF AtTask
<1>5. NoneEmpty => Reads(0) /\ 0 < Weight[0]
  <2> SUFFICES ASSUME NoneEmpty PROVE Reads(0) /\ 0 < Weight[0]
    OBVIOUS
  <2>1. \A t \in 0..N : Weight[t] \in Nat \ {0}
    BY WeightPositive DEF NoneEmpty
  <2>2. \A t \in Tasks : results[t] \in Nat \ {0}
    BY DEF NoneEmpty, TypeOK
  <2>3. \A w \in Nat \ {0} : 0 \div w = 0
    OBVIOUS
  <2>4. \A r \in Nat \ {0} : 0 % r = 0
    OBVIOUS
  <2>5. ASSUME NEW t \in Tasks PROVE idx[t] = (0 \div Weight[t]) % results[t]
    <3>1. 0 \div Weight[t] = 0
      BY <2>1, <2>3
    <3> QED
      BY <1>1, <2>2, <2>4, <3>1
  <2> QED
    BY <2>1, <2>5 DEF Reads
<1>6. (NoneEmpty' <=> NoneEmpty) /\ (Reads(0)' <=> Reads(0)) /\ Len(out') = 0
  BY <1>1, <1>2 DEF NoneEmpty, Reads
<1>7. Listing'
  BY <1>4 DEF Listing
<1>8. Turning'
  BY <1>1, <1>2, <1>5, <1>6 DEF Turning
<1> QED
  BY <1>1, <1>3, <1>7, <1>8 DEF Order

\* runMergeOrdered: between the task the enumeration is at and the one that yields next
\* there are only tasks without a state.
LEMMA YieldGroupedOrder ==
  ASSUME TypeOK, Order, NEW t \in Tasks, YieldGrouped(t)
  PROVE  Order'
<1> USE CollectAssumption DEF Tasks
<1>1. /\ ~zip /\ main = "emit" /\ main' = "yield" /\ idx[t] < results[t]
      /\ \A u \in Tasks : u < t => idx[u] = results[u]
      /\ out' = Append(out, <<t, idx[t] + 1>>) /\ idx' = [idx EXCEPT ![t] = @ + 1]
      /\ UNCHANGED <<zip, results>>
  BY DEF YieldGrouped, Give, syncVars
<1>2. PICK s \in Tasks : AtTask(s)
  BY <1>1 DEF Order, Listing
<1>3. idx \in [Tasks -> Nat] /\ results \in [Tasks -> Nat] /\ Len(out) \in Nat /\ Len(out') = Len(out) + 1
  <2>1. idx \in [Tasks -> Nat] /\ results \in [Tasks -> Nat] /\ out \in Seq(Items)
    BY DEF TypeOK
  <2>2. Len(out) \in Nat
    BY <2>1
  <2>3. Len(out') = Len(out) + 1
    BY <1>1, <2>1
  <2> QED
    BY <2>1, <2>2, <2>3
<1>4. Before' = Before /\ \A u \in 1..(N + 1) : Before[u] \in Nat
  BY <1>1, ResultsKept, BeforeIs
<1>5. s <= t
  BY <1>1, <1>2, <1>3 DEF AtTask
<1>6. Before[t] + idx[t] = Len(out)
  <2>1. CASE s < t
    <3>1. idx[t] = 0 /\ idx[s] = results[s] /\ \A u \in Tasks : s < u /\ u < t => results[u] = 0
      BY <1>1, <1>2, <2>1 DEF AtTask
    <3>2. Before[t] = Before[s] + results[s]
      BY <2>1, <3>1, BeforeSkips
    <3> QED
      BY <1>2, <1>3, <1>4, <3>1, <3>2 DEF AtTask
  <2> QED
    BY <1>2, <1>5, <2>1 DEF AtTask
<1>7. AtTask(t)'
  <2>1. \A u \in Tasks : idx'[u] = IF u = t THEN idx[t] + 1 ELSE idx[u]
    BY <1>1, <1>3
  <2>2. \A u \in Tasks : u > t => idx[u] = 0
    BY <1>2, <1>5 DEF AtTask
  <2>3. \A u \in Tasks : (u < t => idx'[u] = results'[u]) /\ (u > t => idx'[u] = 0)
    BY <1>1, <2>1, <2>2
  <2>4. Before[t] \in Nat /\ idx[t] \in Nat /\ idx'[t] = idx[t] + 1
    BY <1>3, <1>4, <2>1
  <2>5. Len(out') = Before'[t] + idx'[t]
    <3>1. \A b, i \in Nat : b + (i + 1) = (b + i) + 1
      OBVIOUS
    <3>2. Before[t] + idx'[t] = Len(out) + 1
      BY <1>6, <2>4, <3>1
    <3> QED
      BY <1>3, <1>4, <3>2
  <2> QED
    BY <2>3, <2>5 DEF AtTask
<1>8. OutputInOrder'
  <2> DEFINE item == <<t, idx[t] + 1>>
  <2>1. Before[item[1]] + item[2] = Len(out) + 1 /\ item[2] \in 1..results[item[1]]
    <3>1. PICK i \in Nat, b \in Nat, r \in Nat : i = idx[t] /\ b = Before[t] /\ r = results[t]
      <4>1. idx[t] \in Nat /\ Before[t] \in Nat /\ results[t] \in Nat
        BY <1>3, <1>4
      <4> QED
        BY <4>1
    <3>2. item[1] = t /\ item[2] = i + 1
      BY <3>1
    <3>3. b + i = Len(out) /\ i < r
      BY <1>1, <1>6, <3>1
    <3>4. b + (i + 1) = Len(out) + 1
      BY <3>3
    <3>5. i + 1 \in 1..r
      BY <3>3
    <3> HIDE DEF item
    <3> QED
      BY <3>1, <3>2, <3>4, <3>5
  <2>2. out' = Append(out, item) /\ main' # "ok" /\ ~zip /\ UNCHANGED <<zip, results>>
    BY <1>1
  <2> HIDE DEF item
  <2> QED
    BY <2>1, <2>2, OutputGrows DEF Order
<1> QED
  BY <1>1, <1>7, <1>8 DEF Order, Listing

\* cartesianEach: what is given is what the odometer reads.
LEMMA YieldCombinationOrder ==
  ASSUME TypeOK, Order, YieldCombination
  PROVE  Order'
<1> USE CollectAssumption DEF Tasks
<1>1. /\ zip /\ main = "emit" /\ main' = "yield" /\ NoneEmpty
      /\ out' = Append(out, [t \in Tasks |-> idx[t] + 1])
      /\ UNCHANGED <<zip, results, idx>>
  BY DEF YieldCombination, Give, syncVars, NoneEmpty
<1>2. Reads(Len(out)) /\ Len(out) < Weight[0]
  BY <1>1 DEF Order, Turning
<1>3. PICK n \in Nat : n = Len(out) /\ Len(out') = n + 1
  BY <1>1 DEF TypeOK
<1>4. Before' = Before /\ Weight' = Weight /\ Weight[0] \in Nat
  BY <1>1, ResultsKept, WeightIs
<1>5. Reads(n)' /\ n = Len(out') - 1 /\ Len(out') <= Weight'[0]
  BY <1>1, <1>2, <1>3, <1>4 DEF Reads
<1>6. OutputInOrder'
  <2> DEFINE item == [t \in Tasks |-> idx[t] + 1]
  <2>1. ASSUME NEW t \in Tasks PROVE item[t] = 1 + ((Len(out) \div Weight[t]) % results[t])
    <3>1. idx[t] \in Nat /\ idx[t] = (Len(out) \div Weight[t]) % results[t]
      BY <1>2 DEF Reads, TypeOK
    <3>2. item[t] = 1 + idx[t]
      BY <3>1
    <3> QED
      BY <3>1, <3>2
  <2>2. out' = Append(out, item) /\ main' # "ok" /\ zip /\ UNCHANGED <<zip, results>>
    BY <1>1
  <2> HIDE DEF item
  <2> QED
    BY <2>1, <2>2, OutputGrows DEF Order
<1> QED
  BY <1>1, <1>5, <1>6 DEF Order, Turning

\* The lists are exhausted, or the product is empty: everything was given.
LEMMA EndOfResultsOrder ==
  ASSUME TypeOK, Order, EndOfResults
  PROVE  Order'
<1> USE CollectAssumption DEF Tasks
<1>1. /\ main = "emit" /\ main' = "ok" /\ UNCHANGED <<zip, results, idx, out>>
      /\ zip => \E t \in Tasks : results[t] = 0
      /\ ~zip => \A t \in Tasks : idx[t] = results[t]
  BY DEF EndOfResults, outVars, syncVars
<1>2. Before' = Before /\ Weight' = Weight
  BY <1>1, ResultsKept
<1>3. ASSUME zip PROVE Len(out) = Weight[0]
  <2>1. ~NoneEmpty
    BY <1>1, <1>3 DEF NoneEmpty
  <2>2. Weight[0] = 0
    BY <1>1, <1>3, WeightPositive
  <2>3. out = <<>>
    BY <1>1, <1>3, <2>1 DEF Order, Turning
  <2> QED
    BY <2>2, <2>3
<1>4. ASSUME ~zip PROVE Len(out) = Before[N + 1] /\ Listing'
  <2>1. PICK s \in Tasks : AtTask(s)
    BY <1>1, <1>4 DEF Order, Listing
  <2>2. AtTask(s)'
    BY <1>1, <1>2, <2>1 DEF AtTask
  <2>3. \A u \in Tasks : s < u /\ u < N + 1 => results[u] = 0
    BY <1>1, <1>4, <2>1 DEF AtTask
  <2>4. Before[N + 1] = Before[s] + results[s]
    BY <2>3, BeforeSkips
  <2> QED
    BY <1>1, <1>4, <2>1, <2>2, <2>4 DEF AtTask, Listing
<1>5. OutputInOrder'
  BY <1>1, <1>3, <1>4, OutputStays DEF Order
<1> QED
  BY <1>1, <1>4, <1>5 DEF Order, Turning

\* The digits that wrapped start again, the one that can advances, the rest stay.
LEMMA NextCombinationOrder ==
  ASSUME TypeOK, Position, Order, NEW pos \in Tasks, NextCombination(pos)
  PROVE  Order'
<1> USE CollectAssumption DEF Tasks
<1>1. /\ zip /\ main = "yield" /\ main' = "emit" /\ UNCHANGED <<zip, results, out>>
      /\ idx[pos] + 1 < results[pos]
      /\ \A t \in Tasks : t > pos => idx[t] + 1 >= results[t]
      /\ idx' = [t \in Tasks |-> IF t < pos THEN idx[t] ELSE IF t = pos THEN idx[t] + 1 ELSE 0]
  BY DEF NextCombination, Advance, syncVars
<1>2. Before' = Before /\ Weight' = Weight
  BY <1>1, ResultsKept
<1>3. NoneEmpty /\ Reads(Len(out) - 1) /\ Len(out) <= Weight[0] /\ out # <<>>
  BY <1>1 DEF Order, Turning, Position, NoneEmpty
<1>4. PICK x \in Nat : x = Len(out) - 1 /\ Len(out) = x + 1
  <2>1. Len(out) \in Nat \ {0}
    BY <1>3, EmptySeq DEF TypeOK
  <2> QED
    BY <2>1
<1>5. Reads(x)
  BY <1>3, <1>4
<1>6. \A t \in 0..N : Weight[t] \in Nat \ {0}
  BY <1>3, WeightPositive DEF NoneEmpty
<1>7. \A t \in Tasks : results[t] \in Nat \ {0} /\ idx[t] \in Nat
  BY <1>3 DEF NoneEmpty, TypeOK
<1>8. \A t \in pos..N : (x + 1) \div Weight[t] = (x \div Weight[t]) + 1
  <2>1. \A t \in Tasks : t > pos => ((x \div Weight[t]) % results[t]) + 1 >= results[t]
    BY <1>1, <1>5 DEF Reads
  <2> QED
    BY <1>3, <2>1, Carries DEF NoneEmpty
<1>9. PICK q \in Nat, w \in Nat \ {0}, r \in Nat \ {0} :
        q = x \div Weight[pos] /\ w = Weight[pos] /\ r = results[pos] /\ idx[pos] = q % r
  <2>1. x \div Weight[pos] \in Nat
    BY <1>6, Division
  <2> QED
    BY <1>5, <1>6, <1>7, <2>1 DEF Reads
<1>10. (x + 1) \div w = q + 1 /\ (q + 1) % r = (q % r) + 1 /\ (q + 1) \div r = q \div r
  <2>1. (x + 1) \div w = q + 1
    BY <1>8, <1>9
  <2>2. (q % r) + 1 < r
    BY <1>1, <1>9
  <2> QED
    BY <2>1, <2>2, Wrap
<1>11. (x + 1) \div Weight[pos - 1] = x \div Weight[pos - 1]
  <2>1. Weight[pos - 1] = w * r
    BY <1>9, WeightIs DEF WeightEq
  <2>2. PICK y \in Nat : y = x + 1
    OBVIOUS
  <2>3. y \div (w * r) = (y \div w) \div r
    BY DivTwice, Zenon
  <2>4. x \div (w * r) = (x \div w) \div r
    BY DivTwice, Zenon
  <2> QED
    BY <1>9, <1>10, <2>1, <2>2, <2>3, <2>4
<1>12. \A t \in 0..(pos - 1) : (x + 1) \div Weight[t] = x \div Weight[t]
  BY <1>3, <1>11, NoCarry DEF NoneEmpty
<1>13. ASSUME NEW t \in Tasks PROVE idx'[t] = ((x + 1) \div Weight[t]) % results[t]
  <2>1. CASE t < pos
    <3>1. (x + 1) \div Weight[t] = x \div Weight[t]
      BY <1>12, <2>1
    <3> QED
      BY <1>1, <1>5, <2>1, <3>1 DEF Reads
  <2>2. CASE t = pos
    BY <1>1, <1>9, <1>10, <2>2
  <2>3. CASE t > pos
    <3>1. PICK p \in Nat, m \in Nat \ {0} : p = x \div Weight[t] /\ m = results[t]
      <4>1. PICK v \in Nat \ {0} : v = Weight[t]
        BY <1>6
      <4>2. x \div v \in Nat
        BY Division
      <4> QED
        BY <1>7, <4>1, <4>2
    <3>2. (p % m) + 1 >= m
      BY <1>1, <1>5, <2>3, <3>1 DEF Reads
    <3>3. (p + 1) % m = 0
      BY <3>2, Wrap
    <3>4. (x + 1) \div Weight[t] = p + 1
      BY <1>8, <2>3, <3>1
    <3> QED
      BY <1>1, <2>3, <3>1, <3>3, <3>4
  <2> QED
    BY <2>1, <2>2, <2>3
<1>14. Reads(x + 1)'
  BY <1>1, <1>2, <1>13 DEF Reads
<1>15. x + 1 < Weight[0]
  <2>1. PICK b \in Nat \ {0} : b = Weight[0]
    BY <1>6
  <2>2. x < b
    BY <1>3, <1>4, <2>1
  <2>3. (x + 1) \div b = x \div b
    BY <1>12, <2>1
  <2>4. x \div b = 0
    BY <2>2
  <2>5. PICK y \in Nat : y = x + 1
    OBVIOUS
  <2>6. y \div b = 0 => y < b
    BY Division
  <2> QED
    BY <2>1, <2>3, <2>4, <2>5, <2>6
<1>16. OutputInOrder'
  BY <1>1, OutputStays DEF Order
<1> QED
  BY <1>1, <1>2, <1>3, <1>4, <1>14, <1>15, <1>16 DEF Order, Turning, NoneEmpty

\* When every digit wraps the number was the last one.
LEMMA LastCombinationOrder ==
  ASSUME TypeOK, Position, Order, LastCombination
  PROVE  Order'
<1> USE CollectAssumption DEF Tasks
<1>1. /\ zip /\ main = "yield" /\ main' = "ok" /\ UNCHANGED <<zip, results, out>>
      /\ \A t \in Tasks : idx[t] + 1 >= results[t]
  BY DEF LastCombination, syncVars
<1>2. NoneEmpty /\ Reads(Len(out) - 1) /\ Len(out) <= Weight[0] /\ out # <<>>
  BY <1>1 DEF Order, Turning, Position, NoneEmpty
<1>3. PICK x \in Nat : x = Len(out) - 1 /\ Len(out) = x + 1
  <2>1. Len(out) \in Nat \ {0}
    BY <1>2, EmptySeq DEF TypeOK
  <2> QED
    BY <2>1
<1>4. Weight[0] \in Nat \ {0}
  BY <1>2, WeightPositive DEF NoneEmpty
<1>5. (x + 1) \div Weight[0] = (x \div Weight[0]) + 1
  <2>1. \A t \in Tasks : t > 0 => ((x \div Weight[t]) % results[t]) + 1 >= results[t]
    BY <1>1, <1>2, <1>3 DEF Reads
  <2>2. 0 \in 0..N
    OBVIOUS
  <2>3. \A t \in 0..N : (x + 1) \div Weight[t] = (x \div Weight[t]) + 1
    <3> HIDE DEF Tasks
    <3> QED
      BY <1>2, <2>1, <2>2, Carries DEF NoneEmpty
  <2> QED
    BY <2>2, <2>3
<1>6. Len(out) = Weight[0]
  <2>1. PICK b \in Nat \ {0} : b = Weight[0]
    BY <1>4
  <2>2. x < b /\ x + 1 <= b
    BY <1>2, <1>3, <2>1
  <2>3. (x + 1) \div b = (x \div b) + 1
    BY <1>5, <2>1
  <2>4. x \div b = 0
    BY <2>2
  <2>5. x + 1 < b => (x + 1) \div b = 0
    OBVIOUS
  <2> QED
    BY <1>3, <2>1, <2>2, <2>3, <2>4, <2>5
<1>7. OutputInOrder'
  BY <1>1, <1>6, OutputStays DEF Order
<1> QED
  BY <1>1, <1>7 DEF Order, Turning

\* The steps that neither give nor turn.
LEMMA OtherOrder ==
  ASSUME TypeOK, Order, Continue \/ StopConsumer \/ Return
  PROVE  Order'
<1>1. /\ UNCHANGED <<zip, results, idx, out>> /\ main' \in {"emit", "stopping", "stopped"}
      /\ main \notin {"launch", "failed"} /\ (main' = "emit" => ~zip)
  BY DEF Continue, StopConsumer, Return, outVars, syncVars
<1>2. Before' = Before /\ Weight' = Weight
  BY <1>1, ResultsKept
<1>3. OutputInOrder'
  BY <1>1, OutputStays DEF Order
<1> QED
  BY <1>1, <1>2, <1>3 DEF Order, Listing, Turning, AtTask

\* Until the wait is over nothing is given, and what a task stores cannot disturb the
\* order; afterwards nothing is stored.
LEMMA OrderStep ==
  ASSUME IInv, Order, [Next]_vars
  PROVE  Order'
<1> USE DEF IInv
<1>1. CASE Wait
  BY <1>1, WaitOrder
<1>2. CASE Enumerating
  BY <1>2, YieldGroupedOrder, YieldCombinationOrder, EndOfResultsOrder, NextCombinationOrder,
     LastCombinationOrder, OtherOrder DEF Enumerating
<1>3. ASSUME NEW t \in Tasks, Store(t)
      PROVE  Order'
  <2>1. UNCHANGED <<main, out>> /\ pc[t] = "store"
    BY <1>3 DEF Store, mainVars, outVars
  <2>2. main = "launch"
    BY <2>1, AllDone DEF Counting
  <2>3. out = <<>>
    BY <2>2 DEF Position
  <2> QED
    BY <2>1, <2>2, <2>3, OrderEmpty
<1>4. CASE UNCHANGED <<zip, main, idx, out, results>>
  BY <1>4, OrderFrame
<1>5. Launch \/ ParentDone \/ (\E t \in Tasks : TaskStep(t) \/ Record(t) \/ ReturnError(t) \/ Exit(t))
        \/ UNCHANGED vars
      => UNCHANGED <<zip, main, idx, out, results>>
  BY DEF Launch, ParentDone, TaskStep, Emit, End, Fail, Resume, Record, ReturnError, Exit, vars,
         mainVars, syncVars, outVars
<1> QED
  BY <1>1, <1>2, <1>3, <1>4, <1>5 DEF Next, MainStep, EngineStep, Enumerating, Terminated

\* Nothing is given yet.
LEMMA OrderInit == Init => Order
<1> SUFFICES ASSUME Init PROVE Order
  OBVIOUS
<1>1. out = <<>> /\ main = "launch" /\ DOMAIN out = {}
  BY DEF Init
<1> QED
  BY <1>1 DEF Order, OutputInOrder, Listing, Turning

\* The grouped output lists the tasks' states in the tasks' order, the zipped one counts
\* through all combinations, the last task's states fastest; nothing is left out.
THEOREM OutputIsInOrder == Spec => []OutputInOrder
<1>1. IInv /\ Order /\ [Next]_vars => IInv' /\ Order'
  BY OrderStep, StepInductive
<1>2. Spec => [](IInv /\ Order)
  BY <1>1, OrderInit, InitInductive, PTL DEF Spec
<1>3. Order => OutputInOrder
  BY DEF Order
<1> QED
  BY <1>2, <1>3, PTL
=============================================================================
