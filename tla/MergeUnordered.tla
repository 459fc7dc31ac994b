--------------------------- MODULE MergeUnordered ---------------------------
(***************************************************************************)
(* A parallel level without a zipper and without WithOrderedMerge:         *)
(* ExecutionChain.runMergeUnordered with the error policy of runTask and   *)
(* joinTaskErrors (src/workflow/execution_chain.go), for one upstream      *)
(* state.                                                                  *)
(*                                                                         *)
(* The processes are the stream function itself (main), which launches one *)
(* goroutine per task and then ranges over the unbuffered channel; the     *)
(* goroutines (pc); and the closer, which waits for the WaitGroup and      *)
(* closes the channel.  A state is abstracted to its number among those    *)
(* its task yields, an error to its kind.  The interleaving of different   *)
(* tasks in the output is not recorded: the level promises none.           *)
(***************************************************************************)
EXTENDS Integers, Sequences, FiniteSets

CONSTANTS
  N,            \* the level has tasks 1..N, launched in this order
  Simple,       \* the SimpleTasks among them; the others are MultiValuedTasks
  Fatal,        \* the tasks whose IsErrorFatal is true
  MaxEmit,      \* bound: how many states a MultiValuedTask yields of its own
  Concurrency   \* WithConcurrency's argument; <= 0 is unbounded

Tasks == 1..N

ASSUME LevelAssumption ==
  /\ N \in Nat /\ N >= 2
  /\ Simple \subseteq Tasks /\ Fatal \subseteq Tasks
  /\ MaxEmit \in Nat \ {0}
  /\ Concurrency \in Int

VARIABLES
  main,       \* where the stream function is, see MainStates
  launched,   \* how many goroutines the loop over tasks has started
  pc,         \* pc[t]: where the goroutine of t is, see TaskStates
  made,       \* made[t]: how many states runTask has yielded for t
  got,        \* got[t]: the states of t that the reader was given
  resumed,    \* the tasks that failed non-fatally and resumed with prev
  err,        \* err[t]: the fatal error of t
  errs,       \* the tasks whose error was appended to errs, in that order
  sem,        \* the tasks that hold a slot of the semaphore
  wg,         \* the tasks the WaitGroup counts
  closed,     \* whether ch is closed
  ctx,        \* the level's context: live, or its Err()
  parent,     \* the caller's context
  reported    \* the tasks whose errors the yielded error joins

taskVars == <<made, resumed, err>>
mainVars == <<main, launched, reported>>
syncVars == <<errs, sem, wg, closed>>
ctxVars  == <<ctx, parent>>
vars == <<mainVars, pc, taskVars, got, syncVars, ctxVars>>

MainStates == {"launch", "recv", "yield", "drain", "ok", "failed", "stopped"}
Returned   == {"ok", "failed", "stopped"}
TaskStates == {"idle", "acquire", "run", "send", "record", "cancel",
               "release", "exit", "done"}
\* Where a goroutine is between taking and returning its slot.
InSlot     == {"run", "send", "record", "cancel", "release"}
CtxStates  == {"live", "canceled", "deadline"}
ErrKinds   == {"none", "real", "canceled", "deadline"}

Bounded == Concurrency > 0

TypeOK ==
  /\ main \in MainStates
  /\ launched \in 0..N
  /\ pc \in [Tasks -> TaskStates]
  /\ made \in [Tasks -> Nat]
  /\ got \in [Tasks -> Seq(Nat)]
  /\ resumed \in SUBSET Tasks
  /\ err \in [Tasks -> ErrKinds]
  /\ errs \in Seq(Tasks)
  /\ sem \in SUBSET Tasks
  /\ wg \in SUBSET Tasks
  /\ closed \in BOOLEAN
  /\ ctx \in CtxStates
  /\ parent \in CtxStates
  /\ reported \in SUBSET Tasks

Init ==
  /\ main = "launch"
  /\ launched = 0
  /\ pc = [t \in Tasks |-> "idle"]
  /\ made = [t \in Tasks |-> 0]
  /\ got = [t \in Tasks |-> <<>>]
  /\ resumed = {}
  /\ err = [t \in Tasks |-> "none"]
  /\ errs = <<>>
  /\ sem = {}
  /\ wg = {}
  /\ closed = FALSE
  /\ parent \in CtxStates
  /\ ctx = parent
  /\ reported = {}

Goto(t, s) == pc' = [pc EXCEPT ![t] = s]

\* context.CancelFunc: the first cause sticks.
CancelWith(kind) == ctx' = IF ctx = "live" THEN kind ELSE ctx

\* After its last yield the task's stream ends by itself.
AfterYield(t) == IF t \in Simple \cup resumed THEN "release" ELSE "run"

----------------------------------------------------------------------------
(* Slips that would be easy to make in this code, one for each property the *)
(* runs check.  None is part of the specification.                          *)

\* The loop over tasks runs once too often.
LaunchOneMore ==
  /\ main = "launch"
  /\ launched <= N
  /\ launched' = launched + 1
  /\ wg' = wg \cup {launched + 1}
  /\ Goto(launched + 1, "acquire")
  /\ UNCHANGED <<main, reported, taskVars, got, errs, sem, closed, ctxVars>>

\* wg.Add(1) is left to the goroutine, which has not run yet.
LaunchWithoutAdd ==
  /\ main = "launch"
  /\ launched < N
  /\ launched' = launched + 1
  /\ Goto(launched + 1, "acquire")
  /\ UNCHANGED <<main, reported, taskVars, got, syncVars, ctxVars>>

\* The reader's break returns without draining ch.
StopWithoutDrain ==
  /\ main = "yield"
  /\ main' = "stopped"
  /\ CancelWith("canceled")
  /\ UNCHANGED <<launched, reported, pc, taskVars, got, syncVars, parent>>

\* The semaphore has room for one more.
SlotFreeOffByOne == Bounded => Cardinality(sem) <= Concurrency

\* joinTaskErrors forgets the case in which every error is a context error.
JoinRealErrorsOnly(recorded) ==
  {t \in {recorded[i] : i \in DOMAIN recorded} : err[t] = "real"}

\* The select around the send has a default case instead of <-ctx.Done().
GiveUpSendAtOnce(t) ==
  /\ pc[t] = "send"
  /\ Goto(t, "release")
  /\ UNCHANGED <<mainVars, taskVars, got, syncVars, ctxVars>>

\* <-ctx.Done() while sending drops the state but not the loop.
GiveUpSendAndGoOn(t) ==
  /\ pc[t] = "send"
  /\ ctx # "live"
  /\ Goto(t, AfterYield(t))
  /\ UNCHANGED <<mainVars, taskVars, got, syncVars, ctxVars>>

\* The first failure leaves its siblings running.
CancelNobody(t) ==
  /\ pc[t] = "cancel"
  /\ Goto(t, "release")
  /\ UNCHANGED <<mainVars, taskVars, got, syncVars, ctxVars>>

----------------------------------------------------------------------------
(* The stream function. *)

\* One turn of the loop over tasks: wg.Add(1) before the go statement.
Launch ==
  /\ main = "launch"
  /\ launched < N
  /\ launched' = launched + 1
  /\ wg' = wg \cup {launched + 1}
  /\ Goto(launched + 1, "acquire")
  /\ UNCHANGED <<main, reported, taskVars, got, errs, sem, closed, ctxVars>>

\* Starts the closer and enters the range over ch.
StartCloser ==
  /\ main = "launch"
  /\ launched = N
  /\ main' = "recv"
  /\ UNCHANGED <<launched, reported, pc, taskVars, got, syncVars, ctxVars>>

\* The reader's loop body returns and asks for more ...
Continue ==
  /\ main = "yield"
  /\ main' = "recv"
  /\ UNCHANGED <<launched, reported, pc, taskVars, got, syncVars, ctxVars>>

\* ... or breaks: cancel the tasks, then drain.
StopConsumer ==
  /\ main = "yield"
  /\ main' = "drain"
  /\ CancelWith("canceled")
  /\ UNCHANGED <<launched, reported, pc, taskVars, got, syncVars, parent>>

\* joinTaskErrors: context errors count only when there is no other.
JoinTaskErrors(recorded) ==
  LET failed == {recorded[i] : i \in DOMAIN recorded}
      real   == {t \in failed : err[t] \notin {"canceled", "deadline"}}
  IN  IF real # {} THEN real ELSE failed

\* The range over ch ends: yield the joined error, if any, and return; the
\* deferred cancel runs.
Finish ==
  /\ main = "recv"
  /\ closed
  /\ reported' = JoinTaskErrors(errs)
  /\ main' = IF reported' = {} THEN "ok" ELSE "failed"
  /\ CancelWith("canceled")
  /\ UNCHANGED <<launched, pc, taskVars, got, syncVars, parent>>

DrainEnd ==
  /\ main = "drain"
  /\ closed
  /\ main' = "stopped"
  /\ UNCHANGED <<launched, reported, pc, taskVars, got, syncVars, ctxVars>>

\* The closer: wg.Wait, then close(ch).
Close ==
  /\ main # "launch"
  /\ wg = {}
  /\ ~closed
  /\ closed' = TRUE
  /\ UNCHANGED <<mainVars, pc, taskVars, got, errs, sem, wg, ctxVars>>

----------------------------------------------------------------------------
(* The goroutine of task t. *)

\* sem, a channel of capacity concurrency, takes another value.
SlotFree == Bounded => Cardinality(sem) < Concurrency

\* sem <- struct{}{}, or no semaphore.
Acquire(t) ==
  /\ pc[t] = "acquire"
  /\ SlotFree
  /\ sem' = IF Bounded THEN sem \cup {t} ELSE sem
  /\ Goto(t, "run")
  /\ UNCHANGED <<mainVars, taskVars, got, errs, wg, closed, ctxVars>>

\* <-ctx.Done() while queueing for a slot.  select picks at random among its
\* ready cases, so Acquire stays possible.
GiveUpSlot(t) ==
  /\ pc[t] = "acquire"
  /\ Bounded
  /\ ctx # "live"
  /\ Goto(t, "exit")
  /\ UNCHANGED <<mainVars, taskVars, got, syncVars, ctxVars>>

\* The task yields a state, which runTask passes on.
Emit(t) ==
  /\ pc[t] = "run"
  /\ made[t] < MaxEmit
  /\ made' = [made EXCEPT ![t] = @ + 1]
  /\ Goto(t, "send")
  /\ UNCHANGED <<mainVars, resumed, err, got, syncVars, ctxVars>>

\* A MultiValuedTask ends without an error.
End(t) ==
  /\ pc[t] = "run"
  /\ t \notin Simple
  /\ Goto(t, "release")
  /\ UNCHANGED <<mainVars, taskVars, got, syncVars, ctxVars>>

\* What a task may fail with: a genuine error, or one of a context: of the one it was
\* given or of its own (WithTimeout, a call it cancels), while the given one may be live.
Failures == ErrKinds \ {"none"}

\* A fatal error: runTask yields it, wrapped.
Fail(t) ==
  /\ pc[t] = "run"
  /\ t \in Fatal
  /\ \E kind \in Failures : err' = [err EXCEPT ![t] = kind]
  /\ Goto(t, "record")
  /\ UNCHANGED <<mainVars, made, resumed, got, syncVars, ctxVars>>

\* A non-fatal error: runTask logs it and yields prev instead.
Resume(t) ==
  /\ pc[t] = "run"
  /\ t \notin Fatal
  /\ resumed' = resumed \cup {t}
  /\ made' = [made EXCEPT ![t] = @ + 1]
  /\ Goto(t, "send")
  /\ UNCHANGED <<mainVars, err, got, syncVars, ctxVars>>

\* ch <- s meets the range over ch.
Deliver(t) ==
  /\ pc[t] = "send"
  /\ main = "recv"
  /\ got' = [got EXCEPT ![t] = Append(@, made[t])]
  /\ main' = "yield"
  /\ Goto(t, AfterYield(t))
  /\ UNCHANGED <<launched, reported, taskVars, syncVars, ctxVars>>

\* ch <- s meets the drain: the state is lost.
Drain(t) ==
  /\ pc[t] = "send"
  /\ main = "drain"
  /\ Goto(t, AfterYield(t))
  /\ UNCHANGED <<mainVars, taskVars, got, syncVars, ctxVars>>

\* <-ctx.Done() while sending: the state is lost and the goroutine returns.
GiveUpSend(t) ==
  /\ pc[t] = "send"
  /\ ctx # "live"
  /\ Goto(t, "release")
  /\ UNCHANGED <<mainVars, taskVars, got, syncVars, ctxVars>>

\* errs = append(errs, err) under mu.
Record(t) ==
  /\ pc[t] = "record"
  /\ errs' = Append(errs, t)
  /\ Goto(t, "cancel")
  /\ UNCHANGED <<mainVars, taskVars, got, sem, wg, closed, ctxVars>>

CancelSiblings(t) ==
  /\ pc[t] = "cancel"
  /\ CancelWith("canceled")
  /\ Goto(t, "release")
  /\ UNCHANGED <<mainVars, taskVars, got, syncVars, parent>>

\* The deferred calls run last first: <-sem, then wg.Done.
Release(t) ==
  /\ pc[t] = "release"
  /\ sem' = sem \ {t}
  /\ Goto(t, "exit")
  /\ UNCHANGED <<mainVars, taskVars, got, errs, wg, closed, ctxVars>>

Exit(t) ==
  /\ pc[t] = "exit"
  /\ wg' = wg \ {t}
  /\ Goto(t, "done")
  /\ UNCHANGED <<mainVars, taskVars, got, errs, sem, closed, ctxVars>>

----------------------------------------------------------------------------
\* The caller's context is cancelled or runs out; the level's follows.
ParentDone ==
  /\ parent = "live"
  /\ main \notin Returned
  /\ parent' \in {"canceled", "deadline"}
  /\ CancelWith(parent')
  /\ UNCHANGED <<mainVars, pc, taskVars, got, syncVars>>

MainStep == Launch \/ StartCloser \/ Continue \/ StopConsumer \/ Finish \/ DrainEnd

\* The code of the task itself ...
TaskStep(t) == Emit(t) \/ End(t) \/ Fail(t) \/ Resume(t)

\* ... and the engine's code around it.
EngineStep(t) ==
  \/ Acquire(t) \/ GiveUpSlot(t)
  \/ Deliver(t) \/ Drain(t) \/ GiveUpSend(t)
  \/ Record(t) \/ CancelSiblings(t)
  \/ Release(t) \/ Exit(t)

Terminated == main \in Returned /\ UNCHANGED vars

Next ==
  \/ MainStep
  \/ Close
  \/ \E t \in Tasks : TaskStep(t) \/ EngineStep(t)
  \/ ParentDone
  \/ Terminated

Spec == Init /\ [][Next]_vars

\* The scheduler runs every goroutine that can run, and the reader's loop body
\* returns.  Of a task only this is assumed: once its context is done it does
\* not block.  Until then it may block for ever.
Fairness ==
  /\ WF_vars(MainStep)
  /\ WF_vars(Close)
  /\ \A t \in Tasks : WF_vars(EngineStep(t)) /\ WF_vars(ctx # "live" /\ TaskStep(t))

FairSpec == Spec /\ Fairness

----------------------------------------------------------------------------
(* Properties. *)

Done(t) == pc[t] = "done"

\* WithConcurrency: never do more tasks of the level run than it allows.
BoundedConcurrency == Bounded => Cardinality({t \in Tasks : pc[t] \in InSlot}) <= Concurrency

\* The closer closes ch only when no goroutine can still send on it, however
\* the launches, the tasks and the WaitGroup interleave.  (Go panics otherwise.)
NoSendOnClosedChannel == closed => \A t \in Tasks : Done(t)

\* When the stream function returns, normally, with an error or because the
\* reader broke out of its loop, none of its goroutines is left behind, all
\* slots are free and the tasks' context is done.
NoOrphanedTask ==
  main \in Returned => /\ \A t \in Tasks : Done(t)
                       /\ sem = {}
                       /\ ctx # "live"

\* A stream that ends without an error has lost nothing, if the caller did not
\* cancel: every state a task yielded was handed to the reader, every
\* SimpleTask ran and contributed its one state.
CompleteUnlessCancelled ==
  main = "ok" /\ parent = "live" =>
    /\ \A t \in Tasks : Len(got[t]) = made[t]
    /\ \A t \in Simple : made[t] = 1

\* runTask, errs and joinTaskErrors: unless the reader stopped, the stream ends
\* with an error exactly when some task failed fatally; the error joins the
\* genuine failures when there is one, and otherwise all failures.
FatalErrorsSurface ==
  main \in {"ok", "failed"} =>
    LET failed == {t \in Tasks : err[t] # "none"}
        real   == {t \in Tasks : err[t] = "real"}
    IN  /\ main = "failed" <=> failed # {}
        /\ reported = IF real # {} THEN real ELSE failed

\* Once the caller's context is done, or a task has failed, or the reader has
\* stopped, the stream function returns: cancellation reaches every goroutine,
\* whether it runs, queues for a slot or sends.
AbortTerminates == (ctx # "live" \/ errs # <<>> \/ main = "drain") ~> main \in Returned

\* The level keeps the promise of the abstract one: per task the reader gets the
\* states in order, without a gap and none twice, nothing reaches it after it
\* stopped, and no end is clean when something was lost without a cancellation.
LevelStatus == CASE main \in Returned -> main
                 [] main = "drain"    -> "stopping"
                 [] OTHER             -> "open"

Level == INSTANCE ParallelLevel WITH
  status    <- LevelStatus,
  bad       <- {t \in Tasks : err[t] # "none"},
  cancelled <- parent # "live"

ImplementsLevel == Level!Spec

----------------------------------------------------------------------------
(* What the documentation says and the code does not do. *)

\* execution_chain.go:129: Collect is to "run and return every emitted state".
\* A stream that ends without an error has delivered all its tasks yielded,
\* even if the caller's context was cancelled meanwhile.
NothingLostSilently == main = "ok" => \A t \in Tasks : Len(got[t]) = made[t]

\* execution_chain.go:660: joinTaskErrors prefers the genuine failures over "the
\* context-cancellation noise produced when the first failure aborts siblings".
\* The first failure itself, made while no context was done, is not noise and
\* is reported.
FirstFailureReported == main = "failed" /\ parent = "live" => errs[1] \in reported
=============================================================================
