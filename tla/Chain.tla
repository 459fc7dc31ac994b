------------------------------- MODULE Chain -------------------------------
(***************************************************************************)
(* An ExecutionChain (src/workflow/execution_chain.go, stream.go): it is   *)
(* built level by level, and a terminal then pulls states through it.      *)
(*                                                                         *)
(* A chain is a tower of range-over-func streams.  Level l runs its task   *)
(* on a state of level l-1 and hands each state it yields to the loop body *)
(* of level l+1, which answers whether it wants more; the terminal is      *)
(* level Len(chain)+1.  One thread of control moves up with a value (mode  *)
(* "recv") and down with an answer ("yes", "no").  The goroutines of a     *)
(* parallel level, its branches, run beside it.  Those of a fastest-first  *)
(* level may still be queued for a slot, and start their tasks, when       *)
(* control is far above, or when the level drains its channel: that is the *)
(* subject of MergeUnordered.  Here a branch lives until its goroutine     *)
(* ends, its task started or not, and what matters of it is whether it     *)
(* waits for someone to receive what it sends.                             *)
(*                                                                         *)
(* Of a state only its termination flag is kept.  A SimpleTask is a task   *)
(* that yields once.                                                       *)
(***************************************************************************)
EXTENDS Naturals, Sequences

CONSTANTS
  MaxLevels,   \* bound: levels of a chain
  MaxEmit,     \* bound: states a level yields, or its branches send, per upstream state
  Branches     \* tasks of a parallel level

ASSUME ChainAssumption ==
  /\ MaxLevels \in Nat \ {0}
  /\ MaxEmit \in Nat \ {0}
  /\ Branches \in Nat /\ Branches >= 2

VARIABLES
  chain,      \* the kinds of the levels appended so far
  base,       \* the last level without tasks: it replaced the stream below it
  terminal,   \* the terminal method called
  level,      \* where control is: a level, the terminal, or base at the end
  mode,       \* what it does there, see Modes
  item,       \* the value handed up
  doing,      \* doing[l]: what level l yielded last, see Doings
  input,      \* input[l]: whether the state level l works on is terminated
  emitted,    \* emitted[l]: states yielded for that state, or drained
  left,       \* left[l]: gathered states still to be yielded
  live,       \* live[l]: branches of level l whose goroutine has not ended
  sending,    \* sending[l]: those of them that wait to send a state
  bad,        \* the levels one of whose branches failed
  result,     \* what the terminal has decided to return
  \* History: what happened, for the properties.
  seen,       \* states the terminal received
  final,      \* states yielded for the terminal: terminated or of the last level
  fed,        \* fed[l]: states level l yielded for the task of level l+1
  begun,      \* begun[l]: how often level l was begun on a state (its tasks may start later)
  stopped,    \* the levels whose yield to the level above returned false
  raised      \* whether an error was yielded

Singles   == {"fatal", "nonfatal"}     \* one task, by IsErrorFatal
Parallels == {"merge", "gather"}       \* fastest-first; ordered merge or zipper
Kinds     == Singles \cup Parallels \cup {"empty"}
Terminals == {"Collect", "Execute", "First", "Stream"}
Modes     == {"build", "run", "recv", "yes", "no", "drain", "over"}
Doings    == {"idle", "task", "gather", "resumed", "terminated", "error"}
Items     == [kind : {"state"}, terminated : BOOLEAN] \cup [kind : {"error"}]
AnError   == [kind |-> "error"]
AState(terminated) == [kind |-> "state", terminated |-> terminated]

Levels == 1..MaxLevels
Top == Len(chain) + 1

chainVars == <<chain, base, terminal>>
goroutines == <<live, sending>>
branchVars == <<goroutines, bad>>
workVars == <<input, emitted, left>>
history == <<final, fed, begun, raised>>
vars == <<chainVars, level, mode, item, doing, workVars, branchVars, result, seen, history, stopped>>

TypeOK ==
  /\ chain \in Seq(Kinds) /\ Len(chain) <= MaxLevels
  /\ base \in 0..Len(chain)
  /\ terminal \in Terminals \cup {"none"}
  /\ level \in base..Top
  /\ mode \in Modes
  /\ item \in Items
  /\ doing \in [Levels -> Doings]
  /\ input \in [Levels -> BOOLEAN]
  /\ emitted \in [Levels -> 0..(MaxEmit + 1)]
  /\ left \in [Levels -> 0..MaxEmit]
  /\ live \in [Levels -> 0..Branches]
  /\ sending \in [Levels -> 0..Branches] /\ \A l \in Levels : sending[l] <= live[l]
  /\ bad \in SUBSET Levels
  /\ result \in {"none", "ok", "error"}
  /\ seen \in Nat /\ final \in Nat
  /\ fed \in [Levels -> Nat] /\ begun \in [Levels -> Nat]
  /\ stopped \in SUBSET Levels
  /\ raised \in BOOLEAN

Init ==
  /\ chain = <<>> /\ base = 0 /\ terminal = "none"
  /\ level = 0 /\ mode = "build" /\ item = AnError
  /\ doing = [l \in Levels |-> "idle"]
  /\ input = [l \in Levels |-> FALSE]
  /\ emitted = [l \in Levels |-> 0]
  /\ left = [l \in Levels |-> 0]
  /\ live = [l \in Levels |-> 0] /\ sending = [l \in Levels |-> 0]
  /\ bad = {}
  /\ result = "none"
  /\ seen = 0 /\ final = 0
  /\ fed = [l \in Levels |-> 0] /\ begun = [l \in Levels |-> 0]
  /\ stopped = {} /\ raised = FALSE

Kind == chain[level]

----------------------------------------------------------------------------
(* Moving control. *)

\* Level l's stream function for one upstream state begins; a parallel level
\* launches a goroutine for each of its tasks.
Enter(l, terminated) ==
  /\ level' = l /\ mode' = "run"
  /\ doing' = [doing EXCEPT ![l] = IF chain[l] = "gather" THEN "gather" ELSE "task"]
  /\ input' = [input EXCEPT ![l] = terminated]
  /\ live' = [live EXCEPT ![l] = IF chain[l] \in Parallels THEN Branches ELSE 0]
  /\ begun' = [begun EXCEPT ![l] = @ + 1]

\* yield(v): control goes up with v.
Up(v, why) ==
  /\ level' = level + 1 /\ mode' = "recv" /\ item' = v
  /\ doing' = [doing EXCEPT ![level] = why]

\* A loop body ends: the yield of the level below returns true or false.
Answer(answer) ==
  /\ level' = level - 1 /\ mode' = answer
  /\ stopped' = IF answer = "no" /\ level > 1 THEN stopped \cup {level - 1} ELSE stopped

\* The loop body of a level ends, and with it all it holds.
Down(answer) ==
  /\ Answer(answer)
  /\ doing' = [doing EXCEPT ![level] = "idle"]
  /\ input' = [input EXCEPT ![level] = FALSE]
  /\ emitted' = [emitted EXCEPT ![level] = 0]
  /\ left' = [left EXCEPT ![level] = 0]
  /\ bad' = bad \ {level}

\* What a state means for the levels above.
Feeds(terminated) ==
  IF terminated \/ level = Len(chain)
  THEN final' = final + 1 /\ UNCHANGED fed
  ELSE fed' = [fed EXCEPT ![level] = @ + 1] /\ UNCHANGED final

YieldState(terminated, why) ==
  /\ Up(AState(terminated), why)
  /\ emitted' = [emitted EXCEPT ![level] = @ + 1]
  /\ Feeds(terminated)
  /\ UNCHANGED <<begun, raised>>

YieldError ==
  /\ Up(AnError, "error")
  /\ raised' = TRUE
  /\ UNCHANGED <<emitted, final, fed, begun>>

----------------------------------------------------------------------------
(* Slips that would be easy to make in this code, one for each property the *)
(* runs check.  None is part of the specification.                          *)

\* A level without tasks is skipped instead of failing the chain.
AppendSkippingEmpty(kind) ==
  /\ mode = "build" /\ Len(chain) < MaxLevels
  /\ chain' = Append(chain, kind)
  /\ UNCHANGED <<base, terminal, level, mode, item, doing, workVars, branchVars,
                 result, seen, history, stopped>>

\* The termination flag is not looked at.
ReceiveAnyState ==
  /\ mode = "recv" /\ level < Top /\ item.kind = "state"
  /\ Enter(level, item.terminated)
  /\ UNCHANGED <<chainVars, item, emitted, left, sending, bad, result, seen, final, fed, raised, stopped>>

\* The enumeration of the gathered states runs past its end.
EmitGatheredOneMore ==
  /\ mode = "run" /\ Kind = "gather" /\ left[level] >= 0
  /\ left' = [left EXCEPT ![level] = @ - 1]
  /\ \E terminated \in BOOLEAN : YieldState(terminated, "task")
  /\ UNCHANGED <<chainVars, input, branchVars, result, seen, stopped>>

\* A terminated state is passed on and the answer forgotten.
TerminatedGoesOn ==
  /\ mode \in {"yes", "no"} /\ level > base /\ doing[level] = "terminated"
  /\ Down("yes")
  /\ UNCHANGED <<chainVars, item, goroutines, result, seen, history>>

\* After an error the answer from above counts: the return is missing.
ErrorGoesOn ==
  /\ mode \in {"yes", "no"} /\ level > base /\ doing[level] = "error"
  /\ Down(mode)
  /\ UNCHANGED <<chainVars, item, goroutines, result, seen, history>>

\* A parallel level returns at once when its reader stops.
StopWithoutDrain ==
  /\ mode = "no" /\ level > base /\ doing[level] \in {"task", "resumed"}
  /\ Down("no")
  /\ UNCHANGED <<chainVars, item, goroutines, result, seen, history>>

\* When its reader stops a parallel level waits for its branches, but neither cancels
\* them nor receives what they still send.
StopByWaiting ==
  /\ mode = "no" /\ level > base /\ doing[level] \in {"task", "resumed"}
  /\ live[level] = 0
  /\ Down("no")
  /\ UNCHANGED <<chainVars, item, goroutines, result, seen, history>>

\* Execute takes any number of states but zero.
ExecuteLenient == IF seen = 0 THEN "error" ELSE "ok"

----------------------------------------------------------------------------
(* Building and calling. *)

\* Define and Next: a level is appended.  One without tasks replaces all the
\* stream built so far by one that fails.
AppendLevel(kind) ==
  /\ mode = "build" /\ Len(chain) < MaxLevels
  /\ chain' = Append(chain, kind)
  /\ base' = IF kind = "empty" THEN Len(chain) + 1 ELSE base
  /\ level' = base'
  /\ UNCHANGED <<terminal, mode, item, doing, workVars, branchVars,
                 result, seen, history, stopped>>

\* A terminal method.  The first level runs on the initial state as it is.
Call(t) ==
  /\ mode = "build" /\ chain # <<>> /\ base = 0
  /\ terminal' = t
  /\ \E terminated \in BOOLEAN : Enter(1, terminated)
  /\ UNCHANGED <<chain, base, item, emitted, left, sending, bad, result, seen, final, fed, raised, stopped>>

CallWithoutTasks(t) ==
  /\ mode = "build" /\ base > 0
  /\ terminal' = t
  /\ level' = base + 1 /\ mode' = "recv" /\ item' = AnError /\ raised' = TRUE
  /\ UNCHANGED <<chain, base, doing, workVars, branchVars, result, seen, final, fed, begun, stopped>>

----------------------------------------------------------------------------
(* A level at work on one upstream state. *)

\* The task of a single level yields, or a fastest-first level receives what one of
\* its branches sends.
EmitState ==
  /\ mode = "run" /\ emitted[level] < MaxEmit
  /\ \/ Kind \in Singles /\ UNCHANGED sending
     \/ Kind = "merge" /\ sending[level] > 0 /\ sending' = [sending EXCEPT ![level] = @ - 1]
  /\ \E terminated \in BOOLEAN : YieldState(terminated, "task")
  /\ UNCHANGED <<chainVars, input, left, live, bad, result, seen, stopped>>

FailFatal ==
  /\ mode = "run" /\ Kind = "fatal"
  /\ YieldError
  /\ UNCHANGED <<chainVars, input, left, branchVars, result, seen, stopped>>

\* runTask resumes with the previous state, once, and ends.
FailNonFatal ==
  /\ mode = "run" /\ Kind = "nonfatal"
  /\ YieldState(input[level], "resumed")
  /\ UNCHANGED <<chainVars, input, left, branchVars, result, seen, stopped>>

\* What branches do, whatever the levels above are doing meanwhile.  One that has a
\* state to send waits in a select until it is received or the level cancelled.
Cancelled(l) == l \in bad \/ (mode = "drain" /\ l = level)

BranchSends(l) ==
  /\ sending[l] < live[l] /\ chain[l] = "merge"
  /\ emitted[l] + sending[l] < MaxEmit
  /\ sending' = [sending EXCEPT ![l] = @ + 1]
  /\ UNCHANGED <<chainVars, level, mode, item, doing, workVars, live, bad, result, seen, history, stopped>>

BranchGivesUp(l) ==
  /\ sending[l] > 0 /\ Cancelled(l)
  /\ sending' = [sending EXCEPT ![l] = @ - 1]
  /\ live' = [live EXCEPT ![l] = @ - 1]
  /\ UNCHANGED <<chainVars, level, mode, item, doing, workVars, bad, result, seen, history, stopped>>

\* Its task ends, or never starts because the level is cancelled.
BranchEnds(l) ==
  /\ sending[l] < live[l]
  /\ live' = [live EXCEPT ![l] = @ - 1]
  /\ UNCHANGED <<chainVars, level, mode, item, doing, workVars, sending, bad, result, seen, history, stopped>>

\* Its task fails: the error is noted and the level's other branches are cancelled.
BranchFails(l) ==
  /\ sending[l] < live[l]
  /\ live' = [live EXCEPT ![l] = @ - 1]
  /\ bad' = bad \cup {l}
  /\ UNCHANGED <<chainVars, level, mode, item, doing, workVars, sending, result, seen, history, stopped>>

\* collectParallel has waited for all branches: their errors are joined and yielded,
\* or the results are there.
Gather ==
  /\ mode = "run" /\ doing[level] = "gather" /\ live[level] = 0
  /\ IF level \in bad
     THEN YieldError /\ UNCHANGED left
     ELSE /\ doing' = [doing EXCEPT ![level] = "task"]
          /\ \E n \in 0..MaxEmit : left' = [left EXCEPT ![level] = n]
          /\ UNCHANGED <<level, mode, item, emitted, history>>
  /\ UNCHANGED <<chainVars, input, branchVars, result, seen, stopped>>

EmitGathered ==
  /\ mode = "run" /\ Kind = "gather" /\ left[level] > 0
  /\ left' = [left EXCEPT ![level] = @ - 1]
  /\ \E terminated \in BOOLEAN : YieldState(terminated, "task")
  /\ UNCHANGED <<chainVars, input, branchVars, result, seen, stopped>>

\* The level has no more to yield for this upstream state: the task's stream is over,
\* or the channel closed because every branch has ended.  What the branches of a
\* fastest-first level failed with is joined and yielded.
EndOfStates ==
  /\ mode = "run" /\ doing[level] = "task"
  /\ live[level] = 0 /\ left[level] = 0
  /\ IF level \in bad
     THEN YieldError /\ UNCHANGED <<input, left, bad, stopped>>
     ELSE Down("yes") /\ UNCHANGED <<item, history>>
  /\ UNCHANGED <<chainVars, goroutines, result, seen>>

----------------------------------------------------------------------------
(* The loop body of a level: the value level-1 yielded. *)

ReceiveState ==
  /\ mode = "recv" /\ level < Top /\ item.kind = "state"
  /\ ~item.terminated
  /\ Enter(level, item.terminated)
  /\ UNCHANGED <<chainVars, item, emitted, left, sending, bad, result, seen, final, fed, raised, stopped>>

\* A terminated state passes, an error is passed on.
Relay ==
  /\ mode = "recv" /\ level < Top
  /\ \/ item.kind = "state" /\ item.terminated /\ Up(item, "terminated")
     \/ item.kind = "error" /\ Up(item, "error")
  /\ UNCHANGED <<chainVars, workVars, branchVars, result, seen, history, stopped>>

----------------------------------------------------------------------------
(* The answer to a level's last yield. *)

\* More is wanted of the task.
TaskGoesOn ==
  /\ mode = "yes" /\ level > base /\ doing[level] = "task"
  /\ mode' = "run"
  /\ UNCHANGED <<chainVars, level, item, doing, workVars, branchVars, result, seen, history, stopped>>

\* After the resumed state the stream ends by itself.
ResumedEnds ==
  /\ mode = "yes" /\ level > base /\ doing[level] = "resumed"
  /\ Down("yes")
  /\ UNCHANGED <<chainVars, item, goroutines, result, seen, history>>

AnswerTerminated ==
  /\ mode \in {"yes", "no"} /\ level > base /\ doing[level] = "terminated"
  /\ Down(mode)
  /\ UNCHANGED <<chainVars, item, goroutines, result, seen, history>>

\* After an error every level returns, whatever the answer was.
AnswerError ==
  /\ mode \in {"yes", "no"} /\ level > base /\ doing[level] = "error"
  /\ Down("no")
  /\ UNCHANGED <<chainVars, item, goroutines, result, seen, history>>

\* No more is wanted: the task's stream returns.  A fastest-first level cancels
\* its branches and waits for them.
TaskStops ==
  /\ mode = "no" /\ level > base /\ doing[level] \in {"task", "resumed"}
  /\ IF Kind = "merge"
     THEN mode' = "drain" /\ UNCHANGED <<level, doing, workVars, bad, stopped>>
     ELSE Down("no")
  /\ UNCHANGED <<chainVars, item, goroutines, result, seen, history>>

\* for range ch: what is still sent is thrown away.
DrainState ==
  /\ mode = "drain" /\ sending[level] > 0
  /\ sending' = [sending EXCEPT ![level] = @ - 1]
  /\ emitted' = [emitted EXCEPT ![level] = @ + 1]
  /\ UNCHANGED <<chainVars, level, mode, item, doing, input, left, live, bad, result, seen, history, stopped>>

Drained ==
  /\ mode = "drain" /\ live[level] = 0
  /\ Down("no")
  /\ UNCHANGED <<chainVars, item, goroutines, result, seen, history>>

----------------------------------------------------------------------------
(* The terminal. *)

\* It receives a state: Collect and Execute gather, First has what it wants,
\* the caller of Stream may break.
TakeState ==
  /\ mode = "recv" /\ level = Top /\ item.kind = "state"
  /\ seen' = seen + 1
  /\ \/ terminal # "First" /\ Answer("yes") /\ UNCHANGED result
     \/ terminal \in {"First", "Stream"} /\ Answer("no") /\ result' = "ok"
  /\ UNCHANGED <<chainVars, item, doing, workVars, branchVars, history>>

\* It receives an error.  The caller of Stream should break, and may not.
TakeError ==
  /\ mode = "recv" /\ level = Top /\ item.kind = "error"
  /\ result' = "error"
  /\ Answer("no") \/ (terminal = "Stream" /\ Answer("yes"))
  /\ UNCHANGED <<chainVars, item, doing, workVars, branchVars, seen, history>>

\* single: exactly one state.
ExecuteResult == IF seen = 1 THEN "ok" ELSE "error"

\* The stream is over: the terminal returns.
Return ==
  /\ mode \in {"yes", "no"} /\ level = base
  /\ mode' = "over"
  /\ result' = IF result # "none" THEN result
               ELSE CASE terminal = "Execute" -> ExecuteResult
                      [] terminal = "First"   -> "error"
                      [] OTHER                -> "ok"
  /\ UNCHANGED <<chainVars, level, item, doing, workVars, branchVars, seen, history, stopped>>

Terminated == mode = "over" /\ UNCHANGED vars

Build == \/ \E kind \in Kinds : AppendLevel(kind)
         \/ \E t \in Terminals : Call(t) \/ CallWithoutTasks(t)

Control ==
  \/ EmitState \/ FailFatal \/ FailNonFatal \/ Gather \/ EmitGathered
  \/ EndOfStates
  \/ ReceiveState \/ Relay
  \/ TaskGoesOn \/ ResumedEnds \/ AnswerTerminated \/ AnswerError \/ TaskStops \/ DrainState \/ Drained
  \/ TakeState \/ TakeError \/ Return

Next ==
  \/ Build
  \/ Control
  \/ \E l \in Levels : BranchSends(l) \/ BranchGivesUp(l) \/ BranchEnds(l) \/ BranchFails(l)
  \/ Terminated

Spec == Init /\ [][Next]_vars

\* Tasks end; the goroutines of the chain are scheduled.
Fairness ==
  /\ WF_vars(Control)
  /\ \A l \in Levels : WF_vars(BranchEnds(l)) /\ WF_vars(BranchGivesUp(l))

FairSpec == Spec /\ Fairness

----------------------------------------------------------------------------
(* Properties. *)

\* Nothing is yielded to a loop that has ended: a level whose yield returned
\* false never calls it again, through any nesting of single and parallel
\* levels.  (Go panics otherwise.)
NoYieldAfterStop == mode = "recv" => level - 1 \notin stopped

\* An error is the last thing a chain says: once one was yielded no level is begun
\* on another state, no state is yielded and none reaches the terminal, even if the
\* reader goes on against the contract and the branches of levels below go on sending.
\* (The goroutines these have launched may still start their tasks.)
ErrorIsLast == [][raised => UNCHANGED <<begun, final, fed, seen>>]_vars

\* When Collect or Execute ends without an error, every state was used: each one
\* that was not terminated was handed to the next level exactly once, each
\* other one and each of the last level reached the terminal, and no level was
\* stopped early.
NothingLost ==
  mode = "over" /\ result = "ok" /\ terminal \in {"Collect", "Execute"} =>
    /\ seen = final /\ stopped = {}
    /\ \A l \in 1..(Len(chain) - 1) : begun[l + 1] = fed[l]

\* Execute succeeds exactly when the chain yields one state and no error.
ExecuteMeansOne ==
  mode = "over" /\ terminal = "Execute" => (result = "ok" <=> ~raised /\ final = 1)

\* A chain with a level without tasks, wherever it was appended, runs nothing and
\* fails.
EmptyLevelFailsChain ==
  (\E l \in DOMAIN chain : chain[l] = "empty") =>
    /\ \A l \in Levels : begun[l] = 0
    /\ mode = "over" => result = "error"

\* Branches live only while their level is part of the nesting that is executed,
\* and none is left when the terminal returns.
NoBranchLeft == \A l \in Levels : live[l] > 0 => mode # "over" /\ l <= level

\* A terminal returns, whatever its tasks yield, fail and terminate, and wherever its
\* reader stops: no branch waits for ever to send what nobody receives.
Returns == terminal # "none" ~> mode = "over"

----------------------------------------------------------------------------
(* What the documentation says and the code does not do. *)

\* state.go:93: the "engine skips all subsequent tasks for a terminated state".
TerminatedSkipsTasks == mode = "run" => ~input[level]

\* execution_chain.go:229: after a non-fatal error "the previous, unmodified state
\* flows through as if the task never ran": it is all that the level yields.
NonFatalAsIfNeverRun ==
  mode = "recv" /\ level > base + 1 /\ doing[level - 1] = "resumed" => emitted[level - 1] = 1
=============================================================================
