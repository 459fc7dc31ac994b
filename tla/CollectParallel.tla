-------------------------- MODULE CollectParallel --------------------------
(***************************************************************************)
(* A parallel level that gathers before it yields: collectParallel under   *)
(* runMergeOrdered (WithOrderedMerge) or under runZip and cartesianEach (a *)
(* zipper), in src/workflow/execution_chain.go, for one upstream state.    *)
(*                                                                         *)
(* The stream function (main) starts one goroutine per task in an errgroup *)
(* and blocks while the group is at its limit; it waits for all, and only  *)
(* then yields, on its own.  errgroup.Group is external and modelled by    *)
(* what it documents.  A state is its number among those its task yields,  *)
(* a combination the function from tasks to such numbers.                  *)
(***************************************************************************)
EXTENDS Integers, Sequences, FiniteSets

CONSTANTS
  N,            \* the level has tasks 1..N, started in this order
  Simple,       \* the SimpleTasks among them; the others are MultiValuedTasks
  Fatal,        \* the tasks whose IsErrorFatal is true
  MaxEmit,      \* bound: how many states a MultiValuedTask yields of its own
  Concurrency   \* WithConcurrency's argument; <= 0 is unbounded

Tasks == 1..N

ASSUME CollectAssumption ==
  /\ N \in Nat /\ N >= 2
  /\ Simple \subseteq Tasks /\ Fatal \subseteq Tasks
  /\ MaxEmit \in Nat \ {0}
  /\ Concurrency \in Int

VARIABLES
  zip,        \* whether the level has a zipper; it never changes
  main,       \* where the stream function is, see MainStates
  launched,   \* how many goroutines the loop over tasks has started
  pc,         \* pc[t]: where the goroutine of t is, see TaskStates
  made,       \* made[t]: how many states runTask has yielded for t
  err,        \* err[t]: the fatal error of t
  errs,       \* the tasks whose error was appended to errs, in that order
  group,      \* the tasks the errgroup counts
  results,    \* results[t]: how many states were stored for t; 0 is nil
  ctx,        \* the errgroup's context: live, or its Err()
  parent,     \* the caller's context
  reported,   \* the tasks whose errors the yielded error joins
  idx,        \* idx[t]: the next state of t, as a Go index
  out         \* what the reader was given

taskVars == <<made, err>>
mainVars == <<main, launched, reported>>
syncVars == <<errs, group, results>>
ctxVars  == <<ctx, parent>>
outVars  == <<idx, out>>
vars == <<zip, mainVars, pc, taskVars, syncVars, ctxVars, outVars>>

MainStates == {"launch", "emit", "yield", "stopping", "ok", "failed", "stopped"}
Returned   == {"ok", "failed", "stopped"}
TaskStates == {"idle", "run", "store", "record", "return", "exit", "done"}
CtxStates  == {"live", "canceled", "deadline"}
ErrKinds   == {"none", "real", "canceled", "deadline"}

Bounded == Concurrency > 0

\* Either a state, <<t, its number>>, or a combination.
Items == (Tasks \X Nat) \cup [Tasks -> Nat]

TypeOK ==
  /\ zip \in BOOLEAN
  /\ main \in MainStates
  /\ launched \in 0..N
  /\ pc \in [Tasks -> TaskStates]
  /\ made \in [Tasks -> Nat]
  /\ err \in [Tasks -> ErrKinds]
  /\ errs \in Seq(Tasks)
  /\ group \in SUBSET Tasks
  /\ results \in [Tasks -> Nat]
  /\ ctx \in CtxStates
  /\ parent \in CtxStates
  /\ reported \in SUBSET Tasks
  /\ idx \in [Tasks -> Nat]
  /\ out \in Seq(Items)

Init ==
  /\ zip \in BOOLEAN
  /\ main = "launch"
  /\ launched = 0
  /\ pc = [t \in Tasks |-> "idle"]
  /\ made = [t \in Tasks |-> 0]
  /\ err = [t \in Tasks |-> "none"]
  /\ errs = <<>>
  /\ group = {}
  /\ results = [t \in Tasks |-> 0]
  /\ parent \in CtxStates
  /\ ctx = parent
  /\ reported = {}
  /\ idx = [t \in Tasks |-> 0]
  /\ out = <<>>

Goto(t, s) == pc' = [pc EXCEPT ![t] = s]

\* context.CancelFunc: the first cause sticks.
CancelWith(kind) == ctx' = IF ctx = "live" THEN kind ELSE ctx

----------------------------------------------------------------------------
(* Slips that would be easy to make in this code, one for each property the *)
(* runs check.  None is part of the specification.                          *)

\* SetLimit is given one too many.
HasRoomOffByOne == Bounded => Cardinality(group) <= Concurrency

\* The goroutines share the loop variable i.
StoreAtLoopVariable(t) ==
  /\ pc[t] = "store"
  /\ results' = [results EXCEPT ![launched] = made[t]]
  /\ Goto(t, "exit")
  /\ UNCHANGED <<zip, mainVars, taskVars, errs, group, ctxVars, outVars>>

\* A goroutine keeps its error to itself and returns nil to the errgroup.
ReturnNil(t) ==
  /\ pc[t] = "return"
  /\ Goto(t, "exit")
  /\ UNCHANGED <<zip, mainVars, taskVars, syncVars, ctxVars, outVars>>

\* A goroutine leaves its error to the errgroup, whose Wait nobody looks at.
RecordNothing(t) ==
  /\ pc[t] = "record"
  /\ Goto(t, "return")
  /\ UNCHANGED <<zip, mainVars, taskVars, syncVars, ctxVars, outVars>>

\* The return after emitErr is missing.
AfterWaitGoOn(joined) == "emit"

\* The odometer does not reset the digits after the one it advances.
AdvanceWithoutReset(pos) == [idx EXCEPT ![pos] = @ + 1]

\* The loop over tasks runs once too often.
LaunchOneMore ==
  /\ main = "launch"
  /\ launched <= N
  /\ launched' = launched + 1
  /\ group' = group \cup {launched + 1}
  /\ Goto(launched + 1, "run")
  /\ UNCHANGED <<zip, main, reported, taskVars, errs, results, ctxVars, outVars>>

----------------------------------------------------------------------------
(* collectParallel: starting the goroutines and waiting for them. *)

\* The errgroup is below its limit.
HasRoom == Bounded => Cardinality(group) < Concurrency

\* g.Go: blocks while the errgroup is at its limit; does not look at its context.
Launch ==
  /\ main = "launch"
  /\ launched < N
  /\ HasRoom
  /\ launched' = launched + 1
  /\ group' = group \cup {launched + 1}
  /\ Goto(launched + 1, "run")
  /\ UNCHANGED <<zip, main, reported, taskVars, errs, results, ctxVars, outVars>>

\* joinTaskErrors: context errors count only when there is no other.
JoinTaskErrors(recorded) ==
  LET failed == {recorded[i] : i \in DOMAIN recorded}
      real   == {t \in failed : err[t] \notin {"canceled", "deadline"}}
  IN  IF real # {} THEN real ELSE failed

\* An error is yielded and ends the stream; else the results are enumerated.
AfterWait(joined) == IF joined = {} THEN "emit" ELSE "failed"

\* g.Wait returns, and cancels its context.
Wait ==
  /\ main = "launch"
  /\ launched = N
  /\ group = {}
  /\ reported' = JoinTaskErrors(errs)
  /\ main' = AfterWait(reported')
  /\ CancelWith("canceled")
  /\ UNCHANGED <<zip, launched, pc, taskVars, syncVars, parent, outVars>>

----------------------------------------------------------------------------
(* The goroutine of task t: collect(c.runTask(gctx, state, task)). *)

\* The task yields a state, which collect appends.
Emit(t) ==
  /\ pc[t] = "run"
  /\ made[t] < MaxEmit
  /\ made' = [made EXCEPT ![t] = @ + 1]
  /\ Goto(t, IF t \in Simple THEN "store" ELSE "run")
  /\ UNCHANGED <<zip, mainVars, err, syncVars, ctxVars, outVars>>

\* A MultiValuedTask ends without an error.
End(t) ==
  /\ pc[t] = "run"
  /\ t \notin Simple
  /\ Goto(t, "store")
  /\ UNCHANGED <<zip, mainVars, taskVars, syncVars, ctxVars, outVars>>

\* What a task may fail with: a genuine error, or one of a context: of the one it was
\* given or of its own (WithTimeout, a call it cancels), while the given one may be live.
Failures == ErrKinds \ {"none"}

\* A fatal error: collect returns it, and no states.
Fail(t) ==
  /\ pc[t] = "run"
  /\ t \in Fatal
  /\ \E kind \in Failures : err' = [err EXCEPT ![t] = kind]
  /\ Goto(t, "record")
  /\ UNCHANGED <<zip, mainVars, made, syncVars, ctxVars, outVars>>

\* A non-fatal error: runTask logs it and yields prev instead.
Resume(t) ==
  /\ pc[t] = "run"
  /\ t \notin Fatal
  /\ made' = [made EXCEPT ![t] = @ + 1]
  /\ Goto(t, "store")
  /\ UNCHANGED <<zip, mainVars, err, syncVars, ctxVars, outVars>>

\* results[i] = states.
Store(t) ==
  /\ pc[t] = "store"
  /\ results' = [results EXCEPT ![t] = made[t]]
  /\ Goto(t, "exit")
  /\ UNCHANGED <<zip, mainVars, taskVars, errs, group, ctxVars, outVars>>

\* errs = append(errs, err) under mu.
Record(t) ==
  /\ pc[t] = "record"
  /\ errs' = Append(errs, t)
  /\ Goto(t, "return")
  /\ UNCHANGED <<zip, mainVars, taskVars, group, results, ctxVars, outVars>>

\* return err: the errgroup cancels its context at the first one.
ReturnError(t) ==
  /\ pc[t] = "return"
  /\ CancelWith("canceled")
  /\ Goto(t, "exit")
  /\ UNCHANGED <<zip, mainVars, taskVars, syncVars, parent, outVars>>

\* The errgroup gives the slot back and counts down.
Exit(t) ==
  /\ pc[t] = "exit"
  /\ group' = group \ {t}
  /\ Goto(t, "done")
  /\ UNCHANGED <<zip, mainVars, taskVars, errs, results, ctxVars, outVars>>

----------------------------------------------------------------------------
(* The enumeration of the results, to a reader that may break. *)

Give(item) ==
  /\ main = "emit"
  /\ out' = Append(out, item)
  /\ main' = "yield"
  /\ UNCHANGED <<zip, launched, reported, pc, taskVars, syncVars, ctxVars>>

\* runMergeOrdered: the states of the first task, then those of the next ...
YieldGrouped(t) ==
  /\ ~zip
  /\ idx[t] < results[t]
  /\ \A u \in 1..(t - 1) : idx[u] = results[u]
  /\ Give(<<t, idx[t] + 1>>)
  /\ idx' = [idx EXCEPT ![t] = @ + 1]

\* runZip: the zipper is given one state of each task.
YieldCombination ==
  /\ zip
  /\ \A t \in Tasks : results[t] > 0
  /\ Give([t \in Tasks |-> idx[t] + 1])
  /\ UNCHANGED idx

\* Nothing is left, or the product is empty.
EndOfResults ==
  /\ main = "emit"
  /\ IF zip THEN \E t \in Tasks : results[t] = 0 ELSE \A t \in Tasks : idx[t] = results[t]
  /\ main' = "ok"
  /\ UNCHANGED <<zip, launched, reported, pc, taskVars, syncVars, ctxVars, outVars>>

\* The reader's loop body returns and asks for more ...
Continue ==
  /\ main = "yield" /\ ~zip
  /\ main' = "emit"
  /\ UNCHANGED <<zip, launched, reported, pc, taskVars, syncVars, ctxVars, outVars>>

\* ... which turns cartesianEach's odometer: the last digit that can advance
\* does, and those after it, which have wrapped, start again.
Advance(pos) == [t \in Tasks |-> IF t < pos THEN idx[t] ELSE IF t = pos THEN idx[t] + 1 ELSE 0]

NextCombination(pos) ==
  /\ main = "yield" /\ zip
  /\ idx[pos] + 1 < results[pos]
  /\ \A t \in (pos + 1)..N : idx[t] + 1 >= results[t]
  /\ idx' = Advance(pos)
  /\ main' = "emit"
  /\ UNCHANGED <<zip, launched, reported, pc, taskVars, syncVars, ctxVars, out>>

\* All digits wrap: that was the last combination.
LastCombination ==
  /\ main = "yield" /\ zip
  /\ \A t \in Tasks : idx[t] + 1 >= results[t]
  /\ idx' = [t \in Tasks |-> 0]
  /\ main' = "ok"
  /\ UNCHANGED <<zip, launched, reported, pc, taskVars, syncVars, ctxVars, out>>

\* ... or breaks: yield returns false, and the stream function returns.
StopConsumer ==
  /\ main = "yield"
  /\ main' = "stopping"
  /\ UNCHANGED <<zip, launched, reported, pc, taskVars, syncVars, ctxVars, outVars>>

Return ==
  /\ main = "stopping"
  /\ main' = "stopped"
  /\ UNCHANGED <<zip, launched, reported, pc, taskVars, syncVars, ctxVars, outVars>>

----------------------------------------------------------------------------
\* The caller's context is cancelled or runs out; the errgroup's follows.
ParentDone ==
  /\ parent = "live"
  /\ main \notin Returned
  /\ parent' \in {"canceled", "deadline"}
  /\ CancelWith(parent')
  /\ UNCHANGED <<zip, mainVars, pc, taskVars, syncVars, outVars>>

MainStep ==
  \/ Launch \/ Wait
  \/ YieldCombination \/ EndOfResults
  \/ Continue \/ LastCombination \/ StopConsumer \/ Return
  \/ \E t \in Tasks : YieldGrouped(t) \/ NextCombination(t)

\* The code of the task itself ...
TaskStep(t) == Emit(t) \/ End(t) \/ Fail(t) \/ Resume(t)

\* ... and the engine's code around it.
EngineStep(t) == Store(t) \/ Record(t) \/ ReturnError(t) \/ Exit(t)

Terminated == main \in Returned /\ UNCHANGED vars

Next ==
  \/ MainStep
  \/ \E t \in Tasks : TaskStep(t) \/ EngineStep(t)
  \/ ParentDone
  \/ Terminated

Spec == Init /\ [][Next]_vars

\* The scheduler runs every goroutine that can run, and the reader's loop body
\* returns.  Of a task only this is assumed: once its context is done it does
\* not block.
Fairness ==
  /\ WF_vars(MainStep)
  /\ \A t \in Tasks : WF_vars(EngineStep(t)) /\ WF_vars(ctx # "live" /\ TaskStep(t))

FairSpec == Spec /\ Fairness

----------------------------------------------------------------------------
(* Properties. *)

\* WithConcurrency: never do more goroutines of the level exist than it allows.
BoundedConcurrency ==
  Bounded => Cardinality({t \in Tasks : pc[t] \notin {"idle", "done"}}) <= Concurrency

\* The barrier: when the reader gets anything, no goroutine of the level is left
\* and every task's states are in its place, whatever was cancelled meanwhile.
\* A task that ran partly, or not at all, never passes for one that yielded less.
Barrier ==
  main \notin {"launch", "failed"} =>
    \A t \in Tasks : /\ pc[t] = "done" /\ err[t] = "none" /\ results[t] = made[t]
                     /\ t \in Simple => made[t] = 1

\* A reference for the output: how many states are before those of task t, and how many
\* combinations the results of the tasks behind t have.  N + 1 and 0 stand for all.
Before[t \in 1..(N + 1)] == IF t = 1 THEN 0 ELSE Before[t - 1] + results[t - 1]
Weight[t \in 0..N]       == IF t = N THEN 1 ELSE Weight[t + 1] * results[t + 1]

\* Of a grouped output the k-th item is the state that has k - 1 before it; of a
\* zipped one it is the k-th combination, k - 1 being a number whose digits have the
\* results' sizes as bases; and a clean end has given them all.
OutputInOrder ==
  /\ \A k \in DOMAIN out :
       IF zip THEN \A t \in Tasks : out[k][t] = 1 + (((k - 1) \div Weight[t]) % results[t])
              ELSE Before[out[k][1]] + out[k][2] = k /\ out[k][2] \in 1..results[out[k][1]]
  /\ main = "ok" => Len(out) = IF zip THEN Weight[0] ELSE Before[N + 1]

\* runTask, errs and joinTaskErrors: the stream ends with an error exactly when
\* some task failed fatally; the error joins the genuine failures when there is
\* one, and otherwise all failures.
FatalErrorsSurface ==
  main # "launch" =>
    LET failed == {t \in Tasks : err[t] # "none"}
        real   == {t \in Tasks : err[t] = "real"}
    IN  /\ main = "failed" <=> failed # {}
        /\ reported = IF real # {} THEN real ELSE failed

\* Once the caller's context is done, or a task has failed, the level waits for
\* nobody any more: it returns, even if the loop still has tasks to start.
AbortTerminates == (ctx # "live" \/ errs # <<>>) ~> main \in Returned

\* The level keeps the promise of the abstract one.  Of a zipped level it is the
\* zipper, as task 0, that yields: the combinations given, and the one at hand.
Zipped == Len(out) + IF main = "emit" /\ \A t \in Tasks : results[t] > 0 THEN 1 ELSE 0
UpTo(n) == [k \in 1..n |-> k]

LevelStatus == IF main \in {"launch", "emit", "yield"} THEN "open" ELSE main
LevelMade   == IF zip THEN [t \in 0..N |-> IF t = 0 THEN Zipped ELSE 0]
                      ELSE [t \in 0..N |-> IF t = 0 THEN 0 ELSE made[t]]
LevelGot    == IF zip THEN [t \in 0..N |-> IF t = 0 THEN UpTo(Len(out)) ELSE UpTo(0)]
                      ELSE [t \in 0..N |-> IF t = 0 THEN UpTo(0) ELSE UpTo(idx[t])]

Level == INSTANCE ParallelLevel WITH
  Tasks     <- 0..N,
  status    <- LevelStatus,
  made      <- LevelMade,
  got       <- LevelGot,
  bad       <- {t \in Tasks : err[t] # "none"},
  cancelled <- parent # "live"

ImplementsLevel == Level!Spec
=============================================================================
