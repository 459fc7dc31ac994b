------------------------ MODULE MergeUnorderedProofs ------------------------
(***************************************************************************)
(* Proofs, for every number of tasks, every mixture of simple and multi-   *)
(* valued, fatal and non-fatal tasks and every bound on concurrency, of    *)
(* the safety properties of MergeUnordered and of its refinement of        *)
(* ParallelLevel.                                                          *)
(*                                                                         *)
(* IInv is the inductive invariant.  Its parts follow the mechanisms of    *)
(* the code: Counting (loop, WaitGroup, close), Slots (semaphore), Causes  *)
(* (contexts), Errors (errs) and Delivery (channel).                       *)
(***************************************************************************)
EXTENDS MergeUnordered, FiniteSetTheorems, SequenceTheorems, TLAPS

Open == main \in {"launch", "recv", "yield"}

\* The loop has started exactly the tasks up to launched; the WaitGroup counts
\* those that are not done; the closer waits for it and the return for both.
Counting ==
  /\ \A t \in Tasks : pc[t] = "idle" <=> t > launched
  /\ main # "launch" => launched = N
  /\ wg = {t \in Tasks : pc[t] \notin {"idle", "done"}}
  /\ closed => main # "launch" /\ wg = {}
  /\ main \in Returned => closed

\* The semaphore holds the tasks that run, and is not overfull.
Slots ==
  /\ sem = IF Bounded THEN {t \in Tasks : pc[t] \in InSlot} ELSE {}
  /\ Bounded => Cardinality(sem) <= Concurrency

\* Why the level's context can be done.
Causes ==
  /\ parent # "live" => ctx # "live"
  /\ main \in Returned \cup {"drain"} => ctx # "live"
  /\ ctx # "live" /\ Open => parent # "live" \/ errs # <<>>

Recorded == {errs[i] : i \in DOMAIN errs}

\* errs holds the tasks that failed, once they have come past the append.
Errors ==
  /\ \A t \in Tasks : t \in Recorded <=> err[t] # "none" /\ pc[t] # "record"
  /\ \A t \in Tasks : pc[t] \in {"record", "cancel"} => err[t] # "none"
  /\ \A t \in Tasks : pc[t] \in {"idle", "acquire", "run", "send"} => err[t] = "none"

\* What task t has yielded and what the reader has of it.
Account(t) ==
  /\ pc[t] \in {"idle", "acquire"} => made[t] = 0
  /\ t \in Simple /\ pc[t] \in {"run", "record", "cancel"} => made[t] = 0
  /\ t \in Simple /\ pc[t] = "send" => made[t] = 1
  /\ Open =>
       /\ pc[t] = "send" => made[t] = Len(got[t]) + 1
       /\ pc[t] # "send" => made[t] = Len(got[t]) \/ ctx # "live"
       /\ pc[t] \notin {"send", "release", "exit", "done"} => made[t] = Len(got[t])
       /\ t \in Simple /\ pc[t] \in {"release", "exit", "done"} =>
            made[t] = 1 \/ err[t] # "none" \/ ctx # "live"

Delivery ==
  /\ main = "yield" => \E t \in Tasks : got[t] # <<>>
  /\ \A t \in Tasks : Account(t)

IInv ==
  /\ TypeOK
  /\ Counting
  /\ Slots
  /\ Causes
  /\ Errors
  /\ Delivery
  /\ CompleteUnlessCancelled
  /\ FatalErrorsSurface

\* Every step keeps the types.
LEMMA TypeStep ==
  ASSUME TypeOK, [Next]_vars
  PROVE  TypeOK'
<1> USE LevelAssumption DEF mainVars, taskVars, syncVars, ctxVars, TypeOK, Tasks,
       MainStates, TaskStates, CtxStates, ErrKinds
<1>1. CASE Launch
  BY <1>1 DEF Launch, Goto
<1>2. CASE StartCloser
  BY <1>2 DEF StartCloser
<1>3. CASE Continue
  BY <1>3 DEF Continue
<1>4. CASE StopConsumer
  BY <1>4 DEF StopConsumer, CancelWith
<1>5. CASE Finish
  <2>1. reported' \in SUBSET Tasks
    BY <1>5 DEF Finish, JoinTaskErrors
  <2>2. main' \in MainStates /\ ctx' \in CtxStates
    BY <1>5 DEF Finish, CancelWith
  <2>3. QED
    BY <1>5, <2>1, <2>2 DEF Finish
<1>6. CASE DrainEnd
  BY <1>6 DEF DrainEnd
<1>7. CASE Close
  BY <1>7 DEF Close
<1>8. ASSUME NEW t \in Tasks, Emit(t) PROVE TypeOK'
  <2>1. made' \in [Tasks -> Nat]
    BY <1>8 DEF Emit
  <2>2. pc' \in [Tasks -> TaskStates]
    BY <1>8 DEF Emit, Goto
  <2>3. QED
    BY <1>8, <2>1, <2>2 DEF Emit
<1>9. ASSUME NEW t \in Tasks, End(t) PROVE TypeOK'
  BY <1>9 DEF End, Goto
<1>10. ASSUME NEW t \in Tasks, Fail(t) PROVE TypeOK'
  <2>1. err' \in [Tasks -> ErrKinds]
    BY <1>10 DEF Fail, Failures
  <2>2. pc' \in [Tasks -> TaskStates]
    BY <1>10 DEF Fail, Goto
  <2>3. QED
    BY <1>10, <2>1, <2>2 DEF Fail
<1>11. ASSUME NEW t \in Tasks, Resume(t) PROVE TypeOK'
  <2>1. resumed' \in SUBSET Tasks
    BY <1>11 DEF Resume
  <2>2. made' \in [Tasks -> Nat]
    BY <1>11 DEF Resume
  <2>3. QED
    BY <1>11, <2>1, <2>2 DEF Resume, Goto
<1>12. ASSUME NEW t \in Tasks, Acquire(t) PROVE TypeOK'
  BY <1>12 DEF Acquire, Goto, SlotFree
<1>13. ASSUME NEW t \in Tasks, GiveUpSlot(t) PROVE TypeOK'
  BY <1>13 DEF GiveUpSlot, Goto
<1>14. ASSUME NEW t \in Tasks, Deliver(t) PROVE TypeOK'
  BY <1>14 DEF Deliver, Goto, AfterYield
<1>15. ASSUME NEW t \in Tasks, Drain(t) PROVE TypeOK'
  BY <1>15 DEF Drain, Goto, AfterYield
<1>16. ASSUME NEW t \in Tasks, GiveUpSend(t) PROVE TypeOK'
  BY <1>16 DEF GiveUpSend, Goto
<1>17. ASSUME NEW t \in Tasks, Record(t) PROVE TypeOK'
  <2>1. errs' \in Seq(Tasks)
    BY <1>17 DEF Record
  <2>2. pc' \in [Tasks -> TaskStates]
    BY <1>17 DEF Record, Goto
  <2>3. QED
    BY <1>17, <2>1, <2>2 DEF Record
<1>18. ASSUME NEW t \in Tasks, CancelSiblings(t) PROVE TypeOK'
  BY <1>18 DEF CancelSiblings, Goto, CancelWith
<1>19. ASSUME NEW t \in Tasks, Release(t) PROVE TypeOK'
  BY <1>19 DEF Release, Goto
<1>20. ASSUME NEW t \in Tasks, Exit(t) PROVE TypeOK'
  BY <1>20 DEF Exit, Goto
<1>21. CASE ParentDone
  BY <1>21 DEF ParentDone, CancelWith
<1>22. CASE UNCHANGED vars
  BY <1>22 DEF vars
<1>23. QED
  BY <1>1, <1>2, <1>3, <1>4, <1>5, <1>6, <1>7, <1>8, <1>9, <1>10, <1>11, <1>12,
     <1>13, <1>14, <1>15, <1>16, <1>17, <1>18, <1>19, <1>20, <1>21, <1>22
  DEF Next, MainStep, TaskStep, EngineStep, Terminated

\* The loop, the WaitGroup and the closer stay in step.
LEMMA CountingStep ==
  ASSUME TypeOK, Counting, [Next]_vars
  PROVE  Counting'
<1> USE LevelAssumption DEF mainVars, taskVars, syncVars, ctxVars, TypeOK, Counting, Tasks,
       MainStates, TaskStates, Returned
<1>1. CASE Launch
  BY <1>1 DEF Launch, Goto
<1>2. CASE StartCloser
  BY <1>2 DEF StartCloser
<1>3. CASE Continue
  BY <1>3 DEF Continue
<1>4. CASE StopConsumer
  BY <1>4 DEF StopConsumer, CancelWith
<1>5. CASE Finish
  BY <1>5 DEF Finish, CancelWith
<1>6. CASE DrainEnd
  BY <1>6 DEF DrainEnd
<1>7. CASE Close
  BY <1>7 DEF Close
<1>8. ASSUME NEW t \in Tasks, Emit(t) PROVE Counting'
  BY <1>8 DEF Emit, Goto
<1>9. ASSUME NEW t \in Tasks, End(t) PROVE Counting'
  BY <1>9 DEF End, Goto
<1>10. ASSUME NEW t \in Tasks, Fail(t) PROVE Counting'
  BY <1>10 DEF Fail, Goto, Failures
<1>11. ASSUME NEW t \in Tasks, Resume(t) PROVE Counting'
  BY <1>11 DEF Resume, Goto
<1>12. ASSUME NEW t \in Tasks, Acquire(t) PROVE Counting'
  BY <1>12 DEF Acquire, Goto, SlotFree
<1>13. ASSUME NEW t \in Tasks, GiveUpSlot(t) PROVE Counting'
  BY <1>13 DEF GiveUpSlot, Goto
<1>14. ASSUME NEW t \in Tasks, Deliver(t) PROVE Counting'
  BY <1>14 DEF Deliver, Goto, AfterYield
<1>15. ASSUME NEW t \in Tasks, Drain(t) PROVE Counting'
  BY <1>15 DEF Drain, Goto, AfterYield
<1>16. ASSUME NEW t \in Tasks, GiveUpSend(t) PROVE Counting'
  BY <1>16 DEF GiveUpSend, Goto
<1>17. ASSUME NEW t \in Tasks, Record(t) PROVE Counting'
  BY <1>17 DEF Record, Goto
<1>18. ASSUME NEW t \in Tasks, CancelSiblings(t) PROVE Counting'
  BY <1>18 DEF CancelSiblings, Goto, CancelWith
<1>19. ASSUME NEW t \in Tasks, Release(t) PROVE Counting'
  BY <1>19 DEF Release, Goto
<1>20. ASSUME NEW t \in Tasks, Exit(t) PROVE Counting'
  BY <1>20 DEF Exit, Goto
<1>21. CASE ParentDone
  BY <1>21 DEF ParentDone, CancelWith
<1>22. CASE UNCHANGED vars
  BY <1>22 DEF vars
<1>23. QED
  BY <1>1, <1>2, <1>3, <1>4, <1>5, <1>6, <1>7, <1>8, <1>9, <1>10, <1>11, <1>12,
     <1>13, <1>14, <1>15, <1>16, <1>17, <1>18, <1>19, <1>20, <1>21, <1>22
  DEF Next, MainStep, TaskStep, EngineStep, Terminated

\* The channel is closed only over finished goroutines.
LEMMA ClosedAllDone ==
  ASSUME TypeOK, Counting, closed
  PROVE  launched = N /\ \A t \in Tasks : pc[t] = "done"
<1>1. main # "launch" /\ wg = {}
  BY DEF Counting
<1>2. launched = N
  BY <1>1 DEF Counting
<1>3. ASSUME NEW t \in Tasks PROVE pc[t] = "done"
  <2>1. pc[t] # "idle"
    BY <1>2, LevelAssumption DEF Counting, Tasks
  <2>2. QED
    BY <1>1, <2>1 DEF Counting
<1>4. QED
  BY <1>2, <1>3

\* The semaphore is finite, so that its size can be counted.
LEMMA SemFinite ==
  ASSUME TypeOK
  PROVE  IsFiniteSet(sem)
<1>1. IsFiniteSet(Tasks)
  BY LevelAssumption, FS_Interval DEF Tasks
<1>2. QED
  BY <1>1, FS_Subset DEF TypeOK

\* A slot is taken and returned with the step into and out of InSlot.
LEMMA SlotsStep ==
  ASSUME TypeOK, Counting, Slots, [Next]_vars
  PROVE  Slots'
<1> USE LevelAssumption DEF mainVars, taskVars, syncVars, ctxVars, TypeOK, Slots, InSlot, Tasks, TaskStates
<1>1. CASE Launch
  <2>1. launched + 1 \in Tasks /\ pc[launched + 1] = "idle"
    BY <1>1, LevelAssumption DEF Launch, Counting
  <2>2. QED
    BY <1>1, <2>1 DEF Launch, Goto
<1>2. CASE StartCloser
  BY <1>2 DEF StartCloser
<1>3. CASE Continue
  BY <1>3 DEF Continue
<1>4. CASE StopConsumer
  BY <1>4 DEF StopConsumer, CancelWith
<1>5. CASE Finish
  BY <1>5 DEF Finish, CancelWith
<1>6. CASE DrainEnd
  BY <1>6 DEF DrainEnd
<1>7. CASE Close
  BY <1>7 DEF Close
<1>8. ASSUME NEW t \in Tasks, Emit(t) PROVE Slots'
  BY <1>8 DEF Emit, Goto
<1>9. ASSUME NEW t \in Tasks, End(t) PROVE Slots'
  BY <1>9 DEF End, Goto
<1>10. ASSUME NEW t \in Tasks, Fail(t) PROVE Slots'
  BY <1>10 DEF Fail, Goto, Failures
<1>11. ASSUME NEW t \in Tasks, Resume(t) PROVE Slots'
  BY <1>11 DEF Resume, Goto
<1>12. ASSUME NEW t \in Tasks, Acquire(t) PROVE Slots'
  <2>1. t \notin sem
    BY <1>12 DEF Acquire
  <2>2. sem' = IF Bounded THEN {u \in Tasks : pc'[u] \in InSlot} ELSE {}
    BY <1>12 DEF Acquire, Goto
  <2>3. Bounded => Cardinality(sem') = Cardinality(sem) + 1
    BY <1>12, <2>1, SemFinite, FS_AddElement DEF Acquire
  <2>4. Cardinality(sem) \in Nat
    BY SemFinite, FS_CardinalityType
  <2>5. Bounded => Cardinality(sem') <= Concurrency
    BY <1>12, <2>3, <2>4 DEF Acquire, SlotFree
  <2>6. QED
    BY <2>2, <2>5
<1>13. ASSUME NEW t \in Tasks, GiveUpSlot(t) PROVE Slots'
  BY <1>13 DEF GiveUpSlot, Goto
<1>14. ASSUME NEW t \in Tasks, Deliver(t) PROVE Slots'
  BY <1>14 DEF Deliver, Goto, AfterYield
<1>15. ASSUME NEW t \in Tasks, Drain(t) PROVE Slots'
  BY <1>15 DEF Drain, Goto, AfterYield
<1>16. ASSUME NEW t \in Tasks, GiveUpSend(t) PROVE Slots'
  BY <1>16 DEF GiveUpSend, Goto
<1>17. ASSUME NEW t \in Tasks, Record(t) PROVE Slots'
  BY <1>17 DEF Record, Goto
<1>18. ASSUME NEW t \in Tasks, CancelSiblings(t) PROVE Slots'
  BY <1>18 DEF CancelSiblings, Goto, CancelWith
<1>19. ASSUME NEW t \in Tasks, Release(t) PROVE Slots'
  <2>1. sem' = IF Bounded THEN {u \in Tasks : pc'[u] \in InSlot} ELSE {}
    BY <1>19 DEF Release, Goto
  <2>2. sem' = sem \ {t}
    BY <1>19 DEF Release
  <2>3. Cardinality(sem') <= Cardinality(sem) /\ Cardinality(sem) \in Nat /\ Cardinality(sem') \in Nat
    BY <2>2, SemFinite, FS_Subset, FS_CardinalityType, sem' \subseteq sem
  <2>4. Bounded => Cardinality(sem') <= Concurrency
    BY <2>3
  <2>5. QED
    BY <2>1, <2>4
<1>20. ASSUME NEW t \in Tasks, Exit(t) PROVE Slots'
  BY <1>20 DEF Exit, Goto
<1>21. CASE ParentDone
  BY <1>21 DEF ParentDone, CancelWith
<1>22. CASE UNCHANGED vars
  BY <1>22 DEF vars
<1>23. QED
  BY <1>1, <1>2, <1>3, <1>4, <1>5, <1>6, <1>7, <1>8, <1>9, <1>10, <1>11, <1>12,
     <1>13, <1>14, <1>15, <1>16, <1>17, <1>18, <1>19, <1>20, <1>21, <1>22
  DEF Next, MainStep, TaskStep, EngineStep, Terminated

\* What append does to the set of recorded tasks.
LEMMA RecordedAppend ==
  ASSUME TypeOK, NEW t \in Tasks, errs' = Append(errs, t)
  PROVE  Recorded' = Recorded \cup {t}
<1> DEFINE n == Len(errs)
<1>1. /\ n \in Nat /\ DOMAIN errs = 1..n /\ DOMAIN errs' = 1..(n + 1)
      /\ errs'[n + 1] = t /\ \A i \in 1..n : errs'[i] = errs[i]
  BY DEF TypeOK
<1> HIDE DEF n
<1>2. Recorded' = {errs'[i] : i \in 1..(n + 1)}
  BY <1>1 DEF Recorded
<1>3. 1..(n + 1) = (1..n) \cup {n + 1}
  BY <1>1
<1>4. QED
  BY <1>1, <1>2, <1>3 DEF Recorded

\* errs holds what failed.
LEMMA ErrorsStep ==
  ASSUME TypeOK, Counting, Errors, [Next]_vars
  PROVE  Errors'
<1> USE LevelAssumption DEF mainVars, taskVars, syncVars, ctxVars, TypeOK, Errors, Tasks, TaskStates, CtxStates
<1>0. errs' = errs => Recorded' = Recorded
  BY DEF Recorded
<1>1. CASE Launch
  BY <1>1, <1>0 DEF Launch, Goto, Counting
<1>2. CASE StartCloser
  BY <1>2, <1>0 DEF StartCloser
<1>3. CASE Continue
  BY <1>3, <1>0 DEF Continue
<1>4. CASE StopConsumer
  BY <1>4, <1>0 DEF StopConsumer, CancelWith
<1>5. CASE Finish
  BY <1>5, <1>0 DEF Finish, CancelWith
<1>6. CASE DrainEnd
  BY <1>6, <1>0 DEF DrainEnd
<1>7. CASE Close
  BY <1>7, <1>0 DEF Close
<1>8. ASSUME NEW t \in Tasks, Emit(t) PROVE Errors'
  BY <1>8, <1>0 DEF Emit, Goto
<1>9. ASSUME NEW t \in Tasks, End(t) PROVE Errors'
  BY <1>9, <1>0 DEF End, Goto
<1>10. ASSUME NEW t \in Tasks, Fail(t) PROVE Errors'
  BY <1>10, <1>0 DEF Fail, Goto, Failures
<1>11. ASSUME NEW t \in Tasks, Resume(t) PROVE Errors'
  BY <1>11, <1>0 DEF Resume, Goto
<1>12. ASSUME NEW t \in Tasks, Acquire(t) PROVE Errors'
  BY <1>12, <1>0 DEF Acquire, Goto, SlotFree
<1>13. ASSUME NEW t \in Tasks, GiveUpSlot(t) PROVE Errors'
  BY <1>13, <1>0 DEF GiveUpSlot, Goto
<1>14. ASSUME NEW t \in Tasks, Deliver(t) PROVE Errors'
  BY <1>14, <1>0 DEF Deliver, Goto, AfterYield
<1>15. ASSUME NEW t \in Tasks, Drain(t) PROVE Errors'
  BY <1>15, <1>0 DEF Drain, Goto, AfterYield
<1>16. ASSUME NEW t \in Tasks, GiveUpSend(t) PROVE Errors'
  BY <1>16, <1>0 DEF GiveUpSend, Goto
<1>17. ASSUME NEW t \in Tasks, Record(t) PROVE Errors'
  <2>1. Recorded' = Recorded \cup {t}
    BY <1>17, RecordedAppend DEF Record
  <2>2. QED
    BY <1>17, <2>1 DEF Record, Goto
<1>18. ASSUME NEW t \in Tasks, CancelSiblings(t) PROVE Errors'
  BY <1>18, <1>0 DEF CancelSiblings, Goto, CancelWith
<1>19. ASSUME NEW t \in Tasks, Release(t) PROVE Errors'
  BY <1>19, <1>0 DEF Release, Goto
<1>20. ASSUME NEW t \in Tasks, Exit(t) PROVE Errors'
  BY <1>20, <1>0 DEF Exit, Goto
<1>21. CASE ParentDone
  BY <1>21, <1>0 DEF ParentDone, CancelWith
<1>22. CASE UNCHANGED vars
  BY <1>22, <1>0 DEF vars
<1>23. QED
  BY <1>1, <1>2, <1>3, <1>4, <1>5, <1>6, <1>7, <1>8, <1>9, <1>10, <1>11, <1>12,
     <1>13, <1>14, <1>15, <1>16, <1>17, <1>18, <1>19, <1>20, <1>21, <1>22
  DEF Next, MainStep, TaskStep, EngineStep, Terminated

\* After an append the list is not empty.
LEMMA RecordedSomething ==
  ASSUME errs \in Seq(Tasks), NEW t \in Tasks
  PROVE  Append(errs, t) # <<>>
BY AppendProperties

\* The context is cancelled for one of three reasons only.
LEMMA CausesStep ==
  ASSUME TypeOK, Causes, Errors, [Next]_vars
  PROVE  Causes'
<1> USE LevelAssumption DEF mainVars, taskVars, syncVars, ctxVars, TypeOK, Causes, Open, Returned, Tasks,
       MainStates, CtxStates
<1>1. CASE Launch
  BY <1>1 DEF Launch, Goto
<1>2. CASE StartCloser
  BY <1>2 DEF StartCloser
<1>3. CASE Continue
  BY <1>3 DEF Continue
<1>4. CASE StopConsumer
  BY <1>4 DEF StopConsumer, CancelWith
<1>5. CASE Finish
  BY <1>5 DEF Finish, CancelWith
<1>6. CASE DrainEnd
  BY <1>6 DEF DrainEnd
<1>7. CASE Close
  BY <1>7 DEF Close
<1>8. ASSUME NEW t \in Tasks, Emit(t) PROVE Causes'
  BY <1>8 DEF Emit, Goto
<1>9. ASSUME NEW t \in Tasks, End(t) PROVE Causes'
  BY <1>9 DEF End, Goto
<1>10. ASSUME NEW t \in Tasks, Fail(t) PROVE Causes'
  BY <1>10 DEF Fail, Goto, Failures
<1>11. ASSUME NEW t \in Tasks, Resume(t) PROVE Causes'
  BY <1>11 DEF Resume, Goto
<1>12. ASSUME NEW t \in Tasks, Acquire(t) PROVE Causes'
  BY <1>12 DEF Acquire, Goto, SlotFree
<1>13. ASSUME NEW t \in Tasks, GiveUpSlot(t) PROVE Causes'
  BY <1>13 DEF GiveUpSlot, Goto
<1>14. ASSUME NEW t \in Tasks, Deliver(t) PROVE Causes'
  BY <1>14 DEF Deliver, Goto, AfterYield
<1>15. ASSUME NEW t \in Tasks, Drain(t) PROVE Causes'
  BY <1>15 DEF Drain, Goto, AfterYield
<1>16. ASSUME NEW t \in Tasks, GiveUpSend(t) PROVE Causes'
  BY <1>16 DEF GiveUpSend, Goto
<1>17. ASSUME NEW t \in Tasks, Record(t) PROVE Causes'
  <2>1. errs' # <<>>
    BY <1>17, RecordedSomething DEF Record
  <2>2. UNCHANGED <<main, ctx, parent>>
    BY <1>17 DEF Record
  <2>3. QED
    BY <2>1, <2>2
<1>18. ASSUME NEW t \in Tasks, CancelSiblings(t) PROVE Causes'
  <2>1. t \in Recorded
    BY <1>18 DEF CancelSiblings, Errors
  <2>2. errs # <<>>
    BY <2>1 DEF Recorded
  <2>3. QED
    BY <1>18, <2>2 DEF CancelSiblings, CancelWith, Goto
<1>19. ASSUME NEW t \in Tasks, Release(t) PROVE Causes'
  BY <1>19 DEF Release, Goto
<1>20. ASSUME NEW t \in Tasks, Exit(t) PROVE Causes'
  BY <1>20 DEF Exit, Goto
<1>21. CASE ParentDone
  BY <1>21 DEF ParentDone, CancelWith
<1>22. CASE UNCHANGED vars
  BY <1>22 DEF vars
<1>23. QED
  BY <1>1, <1>2, <1>3, <1>4, <1>5, <1>6, <1>7, <1>8, <1>9, <1>10, <1>11, <1>12,
     <1>13, <1>14, <1>15, <1>16, <1>17, <1>18, <1>19, <1>20, <1>21, <1>22
  DEF Next, MainStep, TaskStep, EngineStep, Terminated

\* The channel loses nothing while the context lives.
LEMMA DeliveryStep ==
  ASSUME TypeOK, Counting, Causes, Errors, Delivery, [Next]_vars
  PROVE  Delivery'
<1> USE LevelAssumption DEF mainVars, taskVars, syncVars, ctxVars, TypeOK, Delivery, Account, Open, Tasks, TaskStates,
       MainStates, CtxStates
<1>1. CASE Launch
  <2>1. launched + 1 \in Tasks /\ pc[launched + 1] = "idle"
    BY <1>1, LevelAssumption DEF Launch, Counting
  <2>2. pc' = [pc EXCEPT ![launched + 1] = "acquire"] /\ main' = main /\ made' = made
        /\ got' = got /\ err' = err /\ ctx' = ctx
    BY <1>1 DEF Launch, Goto
  <2>3. QED
    BY <2>1, <2>2
<1>2. CASE StartCloser
  BY <1>2 DEF StartCloser
<1>3. CASE Continue
  BY <1>3 DEF Continue
<1>4. CASE StopConsumer
  BY <1>4 DEF StopConsumer, CancelWith
<1>5. CASE Finish
  BY <1>5 DEF Finish, CancelWith
<1>6. CASE DrainEnd
  BY <1>6 DEF DrainEnd
<1>7. CASE Close
  BY <1>7 DEF Close
<1>8. ASSUME NEW t \in Tasks, Emit(t) PROVE Delivery'
  <2>1. /\ pc[t] = "run" /\ pc' = [pc EXCEPT ![t] = "send"]
        /\ made' = [made EXCEPT ![t] = @ + 1]
        /\ main' = main /\ got' = got /\ err' = err /\ ctx' = ctx
    BY <1>8 DEF Emit, Goto
  <2>2. /\ pc'[t] = "send" /\ made'[t] = made[t] + 1 /\ made[t] \in Nat
        /\ \A u \in Tasks \ {t} : pc'[u] = pc[u] /\ made'[u] = made[u]
    BY <2>1
  <2>3. main' = "yield" => \E u \in Tasks : got'[u] # <<>>
    BY <2>1
  <2>4. /\ t \in Simple => made[t] = 0
        /\ Open => made[t] = Len(got[t])
    <3>1. Account(t)
      BY DEF Delivery
    <3>2. QED
      BY <2>1, <3>1
  <2>5. Account(t)'
    BY <2>1, <2>2, <2>4
  <2>6. \A u \in Tasks \ {t} : Account(u)'
    BY <2>1, <2>2
  <2>7. QED
    BY <2>3, <2>5, <2>6
<1>9. ASSUME NEW t \in Tasks, End(t) PROVE Delivery'
  BY <1>9 DEF End, Goto
<1>10. ASSUME NEW t \in Tasks, Fail(t) PROVE Delivery'
  BY <1>10 DEF Fail, Goto, Failures
<1>11. ASSUME NEW t \in Tasks, Resume(t) PROVE Delivery'
  <2>1. /\ pc[t] = "run" /\ pc' = [pc EXCEPT ![t] = "send"]
        /\ made' = [made EXCEPT ![t] = @ + 1]
        /\ main' = main /\ got' = got /\ err' = err /\ ctx' = ctx
    BY <1>11 DEF Resume, Goto
  <2>2. /\ pc'[t] = "send" /\ made'[t] = made[t] + 1 /\ made[t] \in Nat
        /\ \A u \in Tasks \ {t} : pc'[u] = pc[u] /\ made'[u] = made[u]
    BY <2>1
  <2>3. main' = "yield" => \E u \in Tasks : got'[u] # <<>>
    BY <2>1
  <2>4. /\ t \in Simple => made[t] = 0
        /\ Open => made[t] = Len(got[t])
    <3>1. Account(t)
      BY DEF Delivery
    <3>2. QED
      BY <2>1, <3>1
  <2>5. Account(t)'
    BY <2>1, <2>2, <2>4
  <2>6. \A u \in Tasks \ {t} : Account(u)'
    BY <2>1, <2>2
  <2>7. QED
    BY <2>3, <2>5, <2>6
<1>12. ASSUME NEW t \in Tasks, Acquire(t) PROVE Delivery'
  BY <1>12 DEF Acquire, Goto, SlotFree
<1>13. ASSUME NEW t \in Tasks, GiveUpSlot(t) PROVE Delivery'
  BY <1>13 DEF GiveUpSlot, Goto
<1>14. ASSUME NEW t \in Tasks, Deliver(t) PROVE Delivery'
  BY <1>14 DEF Deliver, Goto, AfterYield
<1>15. ASSUME NEW t \in Tasks, Drain(t) PROVE Delivery'
  BY <1>15 DEF Drain, Goto, AfterYield
<1>16. ASSUME NEW t \in Tasks, GiveUpSend(t) PROVE Delivery'
  BY <1>16 DEF GiveUpSend, Goto
<1>17. ASSUME NEW t \in Tasks, Record(t) PROVE Delivery'
  BY <1>17 DEF Record, Goto, Errors
<1>18. ASSUME NEW t \in Tasks, CancelSiblings(t) PROVE Delivery'
  BY <1>18 DEF CancelSiblings, Goto, CancelWith, Errors
<1>19. ASSUME NEW t \in Tasks, Release(t) PROVE Delivery'
  BY <1>19 DEF Release, Goto
<1>20. ASSUME NEW t \in Tasks, Exit(t) PROVE Delivery'
  BY <1>20 DEF Exit, Goto
<1>21. CASE ParentDone
  BY <1>21 DEF ParentDone, CancelWith
<1>22. CASE UNCHANGED vars
  BY <1>22 DEF vars
<1>23. QED
  BY <1>1, <1>2, <1>3, <1>4, <1>5, <1>6, <1>7, <1>8, <1>9, <1>10, <1>11, <1>12,
     <1>13, <1>14, <1>15, <1>16, <1>17, <1>18, <1>19, <1>20, <1>21, <1>22
  DEF Next, MainStep, TaskStep, EngineStep, Terminated

----------------------------------------------------------------------------
\* Once the stream function has returned nothing of the level moves any more.
LEMMA ReturnIsFinal ==
  ASSUME TypeOK, Counting, main \in Returned, [Next]_vars
  PROVE  UNCHANGED vars
<1>1. \A t \in Tasks : pc[t] = "done"
  BY ClosedAllDone DEF Counting
<1>2. ~MainStep
  BY DEF MainStep, Launch, StartCloser, Continue, StopConsumer, Finish, DrainEnd, Returned
<1>3. ~Close /\ ~ParentDone
  BY DEF Close, ParentDone, Counting
<1>4. ASSUME NEW t \in Tasks PROVE ~TaskStep(t) /\ ~EngineStep(t)
  BY <1>1 DEF TaskStep, Emit, End, Fail, Resume, EngineStep, Acquire, GiveUpSlot, Deliver,
              Drain, GiveUpSend, Record, CancelSiblings, Release, Exit
<1>5. QED
  BY <1>2, <1>3, <1>4 DEF Next, Terminated

\* Only Finish ends the stream without the reader's doing.
LEMMA OnlyFinishEnds ==
  ASSUME main \notin Returned, [Next]_vars, main' \in {"ok", "failed"}
  PROVE  Finish
<1>1. ~UNCHANGED main
  BY DEF Returned
<1>2. ~UNCHANGED vars /\ ~Terminated /\ ~Close /\ ~ParentDone
  BY <1>1 DEF vars, mainVars, Terminated, Close, ParentDone
<1>3. ASSUME NEW t \in Tasks PROVE ~TaskStep(t) /\ ~EngineStep(t)
  BY <1>1 DEF mainVars, TaskStep, Emit, End, Fail, Resume, EngineStep, Acquire, GiveUpSlot,
              Deliver, Drain, GiveUpSend, Record, CancelSiblings, Release, Exit
<1>4. ~Launch /\ ~StartCloser /\ ~Continue /\ ~StopConsumer /\ ~DrainEnd
  BY <1>1 DEF Launch, StartCloser, Continue, StopConsumer, DrainEnd
<1>5. QED
  BY <1>2, <1>3, <1>4 DEF Next, MainStep

\* Where the range over ch ends, errs and err agree on who failed.
LEMMA AtFinish ==
  ASSUME TypeOK, Counting, Errors, Finish
  PROVE  /\ \A t \in Tasks : pc[t] = "done"
         /\ Recorded = {t \in Tasks : err[t] # "none"}
         /\ reported' = JoinTaskErrors(errs)
         /\ main' = IF reported' = {} THEN "ok" ELSE "failed"
<1>1. \A t \in Tasks : pc[t] = "done"
  BY ClosedAllDone DEF Finish
<1>2. Recorded \subseteq Tasks
  BY DEF Recorded, TypeOK
<1>3. Recorded = {t \in Tasks : err[t] # "none"}
  BY <1>1, <1>2 DEF Errors
<1>4. QED
  BY <1>1, <1>3 DEF Finish

\* joinTaskErrors returns an error whenever one was recorded.
LEMMA JoinLosesNoFailure ==
  ASSUME TypeOK
  PROVE  JoinTaskErrors(errs) = {} <=> Recorded = {}
BY DEF JoinTaskErrors, Recorded

\* A clean end is complete.
LEMMA CompleteStep ==
  ASSUME IInv, [Next]_vars
  PROVE  CompleteUnlessCancelled'
<1> USE DEF IInv
<1>1. CASE main \in Returned
  BY <1>1, ReturnIsFinal DEF CompleteUnlessCancelled, vars, mainVars, taskVars, ctxVars
<1>2. CASE main \notin Returned /\ main' # "ok"
  BY <1>2 DEF CompleteUnlessCancelled
<1>3. CASE main \notin Returned /\ main' = "ok"
  <2>1. Finish
    BY <1>3, OnlyFinishEnds
  <2>2. SUFFICES ASSUME parent' = "live"
                 PROVE  /\ \A t \in Tasks : Len(got'[t]) = made'[t]
                        /\ \A t \in Simple : made'[t] = 1
    BY DEF CompleteUnlessCancelled
  <2>3. Recorded = {} /\ \A t \in Tasks : err[t] = "none"
    BY <1>3, <2>1, AtFinish, JoinLosesNoFailure
  <2>4. errs = <<>>
    <3>1. errs \in Seq(Tasks) /\ \A i \in DOMAIN errs : FALSE
      BY <2>3 DEF Recorded, TypeOK
    <3>2. Len(errs) \notin Nat \ {0}
      BY <3>1
    <3>3. QED
      BY <3>1, <3>2, EmptySeq
  <2>5. ctx = "live" /\ Open
    BY <2>1, <2>2, <2>4 DEF Finish, Causes, Open
  <2>6. ASSUME NEW t \in Tasks
        PROVE  Len(got[t]) = made[t] /\ (t \in Simple => made[t] = 1)
    <3>1. Account(t) /\ pc[t] = "done"
      BY <2>1, AtFinish DEF Delivery
    <3>2. QED
      BY <2>3, <2>5, <3>1 DEF Account
  <2>7. got' = got /\ made' = made
    BY <2>1 DEF Finish, taskVars
  <2>8. QED
    BY <2>6, <2>7, LevelAssumption
<1>4. QED
  BY <1>1, <1>2, <1>3

\* The end reports the failures.
LEMMA SurfaceStep ==
  ASSUME IInv, [Next]_vars
  PROVE  FatalErrorsSurface'
<1> USE DEF IInv
<1>1. CASE main \in Returned
  BY <1>1, ReturnIsFinal DEF FatalErrorsSurface, vars, mainVars, taskVars
<1>2. CASE main \notin Returned /\ main' \notin {"ok", "failed"}
  BY <1>2 DEF FatalErrorsSurface
<1>3. CASE main \notin Returned /\ main' \in {"ok", "failed"}
  <2> DEFINE failed == {t \in Tasks : err[t] # "none"}
             real   == {t \in Tasks : err[t] = "real"}
  <2>1. Finish
    BY <1>3, OnlyFinishEnds
  <2>2. Recorded = failed
    BY <2>1, AtFinish
  <2>3. {t \in Recorded : err[t] \notin {"canceled", "deadline"}} = real
    BY <2>2 DEF TypeOK, ErrKinds
  <2>4. JoinTaskErrors(errs) = IF real # {} THEN real ELSE failed
    BY <2>2, <2>3 DEF JoinTaskErrors, Recorded
  <2>5. real \subseteq failed
    OBVIOUS
  <2>6. /\ main' = "failed" <=> failed # {}
        /\ reported' = IF real # {} THEN real ELSE failed
    BY <2>1, <2>4, <2>5, AtFinish
  <2>7. err' = err
    BY <2>1 DEF Finish, taskVars
  <2>8. QED
    BY <2>6, <2>7 DEF FatalErrorsSurface
<1>4. QED
  BY <1>1, <1>2, <1>3

----------------------------------------------------------------------------
\* Before the loop has started anything all parts hold.
LEMMA InitInductive == Init => IInv
<1> SUFFICES ASSUME Init PROVE IInv
  OBVIOUS
<1> USE LevelAssumption DEF Init
<1>1. TypeOK
  <2>1. got \in [Tasks -> Seq(Nat)] /\ errs \in Seq(Tasks)
    OBVIOUS
  <2>2. made \in [Tasks -> Nat] /\ launched \in 0..N
    OBVIOUS
  <2>3. pc \in [Tasks -> TaskStates] /\ err \in [Tasks -> ErrKinds]
    BY DEF TaskStates, ErrKinds
  <2>4. main \in MainStates /\ parent \in CtxStates /\ ctx \in CtxStates
    BY DEF MainStates, CtxStates
  <2>5. QED
    BY <2>1, <2>2, <2>3, <2>4 DEF TypeOK
<1>2. Counting
  BY DEF Counting, Tasks, Returned
<1>3. Slots
  <2>1. sem = IF Bounded THEN {t \in Tasks : pc[t] \in InSlot} ELSE {}
    BY DEF InSlot
  <2>2. Bounded => Cardinality(sem) <= Concurrency
    BY FS_EmptySet DEF Bounded
  <2>3. QED
    BY <2>1, <2>2 DEF Slots
<1>4. Causes
  BY DEF Causes, Open, Returned
<1>5. Errors
  BY DEF Errors, Recorded
<1>6. Delivery
  BY DEF Delivery, Account, Open
<1>7. CompleteUnlessCancelled /\ FatalErrorsSurface
  BY DEF CompleteUnlessCancelled, FatalErrorsSurface
<1>8. QED
  BY <1>1, <1>2, <1>3, <1>4, <1>5, <1>6, <1>7 DEF IInv

\* The parts' lemmas together: every step keeps the invariant.
LEMMA StepInductive == IInv /\ [Next]_vars => IInv'
BY TypeStep, CountingStep, SlotsStep, CausesStep, ErrorsStep, DeliveryStep, CompleteStep,
   SurfaceStep DEF IInv

\* The invariant holds in every behaviour.
THEOREM Inductive == Spec => []IInv
BY InitInductive, StepInductive, PTL DEF Spec

\* The variables keep their types.
THEOREM TypeCorrect == Spec => []TypeOK
<1>1. IInv => TypeOK
  BY DEF IInv
<1>2. QED
  BY <1>1, Inductive, PTL

\* Never do more tasks run than WithConcurrency allows.
THEOREM ConcurrencyIsBounded == Spec => []BoundedConcurrency
<1>1. IInv => BoundedConcurrency
  BY DEF IInv, Slots, BoundedConcurrency
<1>2. QED
  BY <1>1, Inductive, PTL

\* close(ch) never overtakes a send.
THEOREM ChannelIsSafe == Spec => []NoSendOnClosedChannel
<1>1. IInv => NoSendOnClosedChannel
  BY ClosedAllDone DEF IInv, NoSendOnClosedChannel, Done
<1>2. QED
  BY <1>1, Inductive, PTL

\* The stream function leaves no goroutine behind.
THEOREM NothingOrphaned == Spec => []NoOrphanedTask
<1>1. ASSUME IInv, main \in Returned
      PROVE  (\A t \in Tasks : Done(t)) /\ sem = {} /\ ctx # "live"
  <2>1. \A t \in Tasks : pc[t] = "done"
    BY <1>1, ClosedAllDone DEF IInv, Counting
  <2>2. sem = {}
    BY <1>1, <2>1 DEF IInv, Slots, InSlot
  <2>3. QED
    BY <1>1, <2>1, <2>2 DEF IInv, Causes, Done
<1>2. IInv => NoOrphanedTask
  BY <1>1 DEF NoOrphanedTask
<1>3. QED
  BY <1>2, Inductive, PTL

\* Without a cancellation a clean end has lost nothing.
THEOREM CleanEndIsComplete == Spec => []CompleteUnlessCancelled
<1>1. IInv => CompleteUnlessCancelled
  BY DEF IInv
<1>2. QED
  BY <1>1, Inductive, PTL

\* Fatal failures, and they alone, make the stream end with an error.
THEOREM FailuresSurface == Spec => []FatalErrorsSurface
<1>1. IInv => FatalErrorsSurface
  BY DEF IInv
<1>2. QED
  BY <1>1, Inductive, PTL

----------------------------------------------------------------------------
(* MergeUnordered implements ParallelLevel. *)

AbstractBad == {t \in Tasks : err[t] # "none"}

\* The steps of the implementation that the abstract level does not see.
LEMMA HiddenStep ==
  ASSUME UNCHANGED <<LevelStatus, made, got, AbstractBad, parent>>
  PROVE  UNCHANGED Level!vars
BY DEF Level!vars, AbstractBad

\* Every step of the implementation is a step of the abstract level or hidden.
LEMMA RefinementStep ==
  ASSUME IInv, [Next]_vars
  PROVE  [Level!Next]_(Level!vars)
<1> USE DEF IInv, mainVars, taskVars, syncVars, ctxVars
<1>0. \A t \in Tasks : pc[t] # "done" => main \notin Returned
  BY ClosedAllDone DEF Counting
<1>1. CASE Launch \/ StartCloser \/ Continue \/ Close
  <2>1. UNCHANGED <<LevelStatus, made, got, AbstractBad, parent>>
    BY <1>1 DEF Launch, StartCloser, Continue, Close, LevelStatus, Returned, AbstractBad
  <2>2. QED
    BY <2>1, HiddenStep
<1>2. CASE StopConsumer
  <2>1. \E t \in Tasks : got[t] # <<>>
    BY <1>2 DEF StopConsumer, Delivery
  <2>2. LevelStatus = "open" /\ LevelStatus' = "stopping"
    BY <1>2 DEF StopConsumer, LevelStatus, Returned
  <2>3. UNCHANGED <<made, got, AbstractBad, parent>>
    BY <1>2 DEF StopConsumer, AbstractBad
  <2>4. Level!Stop
    BY <2>1, <2>2, <2>3 DEF Level!Stop, AbstractBad
  <2>5. QED
    BY <2>4 DEF Level!Next
<1>3. CASE Finish
  <2>1. UNCHANGED <<made, got, AbstractBad, parent>>
    BY <1>3 DEF Finish, AbstractBad
  <2>2. LevelStatus = "open" /\ LevelStatus' = main'
    BY <1>3 DEF Finish, LevelStatus, Returned
  <2>3. main' = IF AbstractBad = {} THEN "ok" ELSE "failed"
    BY <1>3, AtFinish, JoinLosesNoFailure DEF AbstractBad
  <2>4. CASE AbstractBad # {}
    <3>1. Level!ReturnFailed
      BY <2>1, <2>2, <2>3, <2>4 DEF Level!ReturnFailed, AbstractBad
    <3>2. QED
      BY <3>1 DEF Level!Next
  <2>5. CASE AbstractBad = {}
    <3>1. main' = "ok" /\ parent' = parent /\ got' = got /\ made' = made
      BY <2>1, <2>3, <2>5
    <3>2. CompleteUnlessCancelled'
      BY CompleteStep
    <3>3. parent # "live" \/ \A t \in Tasks : Len(got[t]) = made[t]
      BY <3>1, <3>2 DEF CompleteUnlessCancelled
    <3>4. Level!ReturnOk
      BY <2>1, <2>2, <2>5, <3>1, <3>3 DEF Level!ReturnOk, AbstractBad
    <3>5. QED
      BY <3>4 DEF Level!Next
  <2>6. QED
    BY <2>4, <2>5
<1>4. CASE DrainEnd
  <2>1. LevelStatus = "stopping" /\ LevelStatus' = "stopped"
    BY <1>4 DEF DrainEnd, LevelStatus, Returned
  <2>2. UNCHANGED <<made, got, AbstractBad, parent>>
    BY <1>4 DEF DrainEnd, AbstractBad
  <2>3. Level!ReturnStopped
    BY <2>1, <2>2 DEF Level!ReturnStopped, AbstractBad
  <2>4. QED
    BY <2>3 DEF Level!Next
<1>5. ASSUME NEW t \in Tasks, Emit(t) \/ Resume(t)
      PROVE  [Level!Next]_(Level!vars)
  <2>1. /\ made' = [made EXCEPT ![t] = @ + 1] /\ pc[t] = "run"
        /\ UNCHANGED <<main, got, AbstractBad, parent>>
    BY <1>5 DEF Emit, Resume, AbstractBad
  <2>2. LevelStatus \in Level!Running /\ LevelStatus' = LevelStatus
    BY <1>0, <2>1 DEF LevelStatus, Level!Running
  <2>3. Level!Make(t)
    BY <2>1, <2>2 DEF Level!Make, AbstractBad
  <2>4. QED
    BY <2>3 DEF Level!Next
<1>6. ASSUME NEW t \in Tasks, Fail(t)
      PROVE  [Level!Next]_(Level!vars)
  <2>1. PICK kind \in Failures : err' = [err EXCEPT ![t] = kind]
    BY <1>6 DEF Fail
  <2>2. kind # "none"
    BY <2>1 DEF Failures, TypeOK, CtxStates
  <2>3. AbstractBad' = AbstractBad \cup {t}
    BY <2>1, <2>2 DEF AbstractBad, TypeOK
  <2>4. pc[t] = "run" /\ UNCHANGED <<main, made, got, parent>>
    BY <1>6 DEF Fail
  <2>5. LevelStatus \in Level!Running /\ LevelStatus' = LevelStatus
    BY <1>0, <2>4 DEF LevelStatus, Level!Running
  <2>6. Level!Break(t)
    BY <2>3, <2>4, <2>5 DEF Level!Break, AbstractBad
  <2>7. QED
    BY <2>6 DEF Level!Next
<1>7. ASSUME NEW t \in Tasks, Deliver(t)
      PROVE  [Level!Next]_(Level!vars)
  <2>1. /\ pc[t] = "send" /\ main = "recv" /\ main' = "yield"
        /\ got' = [got EXCEPT ![t] = Append(@, made[t])]
        /\ UNCHANGED <<made, AbstractBad, parent>>
    BY <1>7 DEF Deliver, AbstractBad
  <2>2. Account(t) /\ Open
    BY <2>1 DEF Delivery, Open
  <2>3. made[t] = Len(got[t]) + 1 /\ Len(got[t]) \in Nat
    BY <2>1, <2>2 DEF Account, TypeOK
  <2>4. LevelStatus = "open" /\ LevelStatus' = "open"
    BY <2>1 DEF LevelStatus, Returned
  <2>5. got' = [got EXCEPT ![t] = Append(@, Len(@) + 1)]
    BY <2>1, <2>3
  <2>6. Level!Yield(t)
    BY <2>1, <2>3, <2>4, <2>5 DEF Level!Yield, AbstractBad
  <2>7. QED
    BY <2>6 DEF Level!Next
<1>8. ASSUME NEW t \in Tasks,
             \/ End(t) \/ Acquire(t) \/ GiveUpSlot(t) \/ Drain(t) \/ GiveUpSend(t)
             \/ Record(t) \/ CancelSiblings(t) \/ Release(t) \/ Exit(t)
      PROVE  [Level!Next]_(Level!vars)
  <2>1. UNCHANGED <<main, made, got, err, parent>>
    BY <1>8 DEF End, Acquire, GiveUpSlot, Drain, GiveUpSend, Record, CancelSiblings,
                Release, Exit
  <2>2. UNCHANGED <<LevelStatus, made, got, AbstractBad, parent>>
    BY <2>1 DEF LevelStatus, AbstractBad
  <2>3. QED
    BY <2>2, HiddenStep
<1>9. CASE ParentDone
  <2>1. parent' # "live" /\ UNCHANGED <<LevelStatus, made, got, AbstractBad>>
    BY <1>9 DEF ParentDone, LevelStatus, AbstractBad
  <2>2. Level!Cancel
    BY <2>1 DEF Level!Cancel, AbstractBad
  <2>3. QED
    BY <2>2 DEF Level!Next
<1>10. CASE UNCHANGED vars
  <2>1. UNCHANGED <<LevelStatus, made, got, AbstractBad, parent>>
    BY <1>10 DEF vars, LevelStatus, AbstractBad
  <2>2. QED
    BY <2>1, HiddenStep
<1>11. QED
  BY <1>1, <1>2, <1>3, <1>4, <1>5, <1>6, <1>7, <1>8, <1>9, <1>10
  DEF Next, MainStep, TaskStep, EngineStep, Terminated

\* At first the level that ParallelLevel sees has neither output nor failures.
LEMMA RefinementInit == Init => Level!Init
<1> SUFFICES ASSUME Init PROVE Level!Init
  OBVIOUS
<1>1. LevelStatus = "open"
  BY DEF Init, LevelStatus, Returned
<1>2. {t \in Tasks : err[t] # "none"} = {}
  BY DEF Init
<1>3. QED
  BY <1>1, <1>2 DEF Init, Level!Init

\* Whatever its tasks, its reader and its caller do, the level keeps the
\* promise of ParallelLevel.
THEOREM Refinement == Spec => ImplementsLevel
<1>1. IInv /\ [Next]_vars => [Level!Next]_(Level!vars)
  BY RefinementStep
<1>2. QED
  BY <1>1, RefinementInit, Inductive, PTL DEF Spec, ImplementsLevel, Level!Spec
=============================================================================
