---------------------------- MODULE ChainProofs ----------------------------
(***************************************************************************)
(* Proofs, for chains of any length with any number of branches, that the  *)
(* tower of range-over-func loops keeps its contract and loses nothing.    *)
(*                                                                         *)
(* The inductive invariant IInv: which levels are in the nesting that is   *)
(* executed, and what each waits for (Nesting); whose branches may run     *)
(* (Branching); how much a level has yielded (Emitting); that a stop or an *)
(* error on its way reaches everyone (Stopping, Erring); and that what was *)
(* yielded was used, but for the state that is on its way (Using).         *)
(***************************************************************************)
EXTENDS Chain, TLAPS

Working == {"run", "yes", "no", "drain"}

\* Level l has begun on an upstream state and not ended.
Active(l) == l > base /\ (l < level \/ (l = level /\ mode \in Working))

Nesting ==
  /\ \A l \in Levels : Active(l) <=> doing[l] # "idle"
  /\ mode \in Working => level <= Len(chain)
  /\ mode \in {"run", "recv", "drain"} => level > base
  /\ mode \in {"build", "over"} => level = base
  /\ mode = "run" => doing[level] \in {"task", "gather"}
  /\ mode = "drain" => doing[level] \in {"task", "resumed"}
  /\ \A l \in Levels : doing[l] = "gather" => mode = "run" /\ l = level /\ chain[l] = "gather"

Branching ==
  \A l \in Levels :
    /\ live[l] > 0 => (chain[l] = "merge" /\ doing[l] = "task") \/ doing[l] = "gather"
    /\ l \in bad => doing[l] # "idle"

Emitting ==
  \A l \in Levels :
    /\ doing[l] \in {"idle", "gather"} => emitted[l] = 0 /\ left[l] = 0
    /\ doing[l] # "resumed" => emitted[l] + left[l] <= MaxEmit
    /\ doing[l] # "idle" /\ chain[l] # "gather" => left[l] = 0
    /\ sending[l] > 0 => emitted[l] + sending[l] <= MaxEmit

\* Whoever is told to stop passes it on.
Stopping == stopped # {} => mode \in {"no", "drain", "over"}

Erring ==
  /\ \A l \in Levels : doing[l] = "error" => raised
  /\ base > 0 /\ mode # "build" => raised
  /\ mode = "build" => ~raised
  /\ mode = "run" => ~raised
  /\ mode = "recv" => (raised <=> item.kind = "error")
  /\ (mode = "recv" /\ raised) => level = base + 1 \/ doing[level - 1] = "error"
  /\ mode = "yes" /\ raised => level = base \/ doing[level] = "error"
  /\ raised /\ mode # "recv" => result = "error"

\* The state on its way up, and for whom it is.
ForTerminal == mode = "recv" /\ item.kind = "state" /\ (item.terminated \/ level = Top)
ForLevel(l) == mode = "recv" /\ item.kind = "state" /\ ~item.terminated /\ level = l

Using ==
  /\ final = seen + (IF ForTerminal THEN 1 ELSE 0)
  /\ \A l \in 1..(Len(chain) - 1) : fed[l] = begun[l + 1] + (IF ForLevel(l + 1) THEN 1 ELSE 0)
  /\ mode = "build" \/ base > 0 =>
       /\ seen = 0 /\ final = 0
       /\ \A l \in Levels : fed[l] = 0 /\ begun[l] = 0
  /\ mode = "build" => stopped = {} /\ result = "none"
  /\ ~raised /\ terminal \in {"Collect", "Execute"} =>
       stopped = {} /\ mode \notin {"no", "drain"} /\ (mode # "over" => result = "none")
  /\ mode = "over" /\ ~raised /\ terminal = "Execute" => (result = "ok" <=> seen = 1)
  /\ (base > 0) <=> (\E l \in DOMAIN chain : chain[l] = "empty")

IInv == TypeOK /\ Nesting /\ Branching /\ Emitting /\ Stopping /\ Erring /\ Using

----------------------------------------------------------------------------
\* The actions, by name.
LEMMA Steps ==
  ASSUME [Next]_vars
  PROVE  \/ \E kind \in Kinds : AppendLevel(kind)
         \/ \E t \in Terminals : Call(t)
         \/ \E t \in Terminals : CallWithoutTasks(t)
         \/ \E l \in Levels : BranchSends(l)
         \/ \E l \in Levels : BranchGivesUp(l)
         \/ \E l \in Levels : BranchEnds(l)
         \/ \E l \in Levels : BranchFails(l)
         \/ EmitState \/ FailFatal \/ FailNonFatal \/ Gather \/ EmitGathered
         \/ EndOfStates
         \/ ReceiveState \/ Relay
         \/ TaskGoesOn \/ ResumedEnds \/ AnswerTerminated \/ AnswerError \/ TaskStops \/ DrainState \/ Drained
         \/ TakeState \/ TakeError \/ Return
         \/ UNCHANGED vars
BY DEF Next, Build, Control, Terminated

\* Where control can be.
LEMMA Where ==
  ASSUME ChainAssumption, IInv
  PROVE  /\ chain \in Seq(Kinds) /\ Len(chain) \in Nat /\ Len(chain) <= MaxLevels
         /\ base \in Nat /\ level \in Nat /\ base <= level /\ base <= Len(chain)
         /\ level <= Len(chain) + 1
         /\ mode \in Working => level <= Len(chain)
         /\ mode \in Working /\ level > base => level \in Levels
         /\ mode \in {"run", "recv", "drain"} => level > base
         /\ mode = "recv" /\ level < Top => level \in Levels
<1>1. chain \in Seq(Kinds) /\ Len(chain) \in Nat /\ Len(chain) <= MaxLevels
  BY DEF IInv, TypeOK
<1>2. base \in 0..Len(chain) /\ level \in base..(Len(chain) + 1)
  BY DEF IInv, TypeOK, Top
<1>3. PICK n \in Nat : n = Len(chain)
  BY <1>1
<1>4. base \in Nat /\ level \in Nat /\ base <= level /\ base <= n /\ level <= n + 1
  BY <1>2, <1>3
<1>5. /\ mode \in Working => level <= n
      /\ mode \in {"run", "recv", "drain"} => level > base
  BY <1>3 DEF IInv, Nesting, Working
<1>6. n <= MaxLevels /\ MaxLevels \in Nat
  BY <1>1, <1>3 DEF ChainAssumption
<1>7. level > base /\ level <= n => level \in Levels
  BY <1>4, <1>6 DEF Levels
<1>8. mode = "recv" /\ level < Top => level \in Levels
  BY <1>3, <1>4, <1>5, <1>7 DEF Top
<1> QED
  BY <1>1, <1>3, <1>4, <1>5, <1>7, <1>8

\* A loop body that ends leaves the nesting.
LEMMA DownStep ==
  ASSUME ChainAssumption, IInv, mode \in Working, level > base,
         NEW answer \in {"yes", "no"}, Down(answer),
         UNCHANGED <<chainVars, item, goroutines, result, seen, history>>
  PROVE  TypeOK' /\ Nesting' /\ Emitting'
<1> USE Where DEF chainVars, history, goroutines
<1>1. level' \in base'..Top'
  BY DEF Down, Answer, Top
<1>2. level \in Levels
  OBVIOUS
<1>3. /\ doing' \in [Levels -> Doings] /\ input' \in [Levels -> BOOLEAN]
  BY <1>2 DEF IInv, TypeOK, Down, Doings
<1>4. emitted' \in [Levels -> 0..(MaxEmit + 1)] /\ left' \in [Levels -> 0..MaxEmit]
  <2>1. 0 \in 0..(MaxEmit + 1) /\ 0 \in 0..MaxEmit
    BY DEF ChainAssumption
  <2> QED
    BY <1>2, <2>1 DEF IInv, TypeOK, Down
<1>5. bad' \in SUBSET Levels /\ stopped' \in SUBSET Levels
  <2>1. level > 1 => level - 1 \in Levels
    BY <1>2 DEF Levels, ChainAssumption
  <2> QED
    BY <2>1 DEF IInv, TypeOK, Down, Answer
<1>6. mode' \in Modes
  BY DEF Down, Answer, Modes
<1>7. TypeOK'
  BY <1>1, <1>3, <1>4, <1>5, <1>6 DEF IInv, TypeOK
<1>8. \A l \in Levels : doing'[l] = IF l = level THEN "idle" ELSE doing[l]
  BY DEF IInv, TypeOK, Down
<1>9. \A l \in Levels : Active(l)' <=> doing'[l] # "idle"
  BY <1>8 DEF IInv, Nesting, Active, Working, Down, Answer, Levels
<1>10. \A l \in Levels : doing'[l] # "gather"
  BY <1>8 DEF IInv, Nesting
<1>11. Nesting'
  BY <1>9, <1>10 DEF Nesting, Working, Down, Answer
<1>12. Emitting'
  BY <1>8 DEF IInv, TypeOK, Emitting, Down
<1> QED
  BY <1>7, <1>11, <1>12

\* A value goes up and the level joins the nesting, if it was not in it.
LEMMA UpStep ==
  ASSUME ChainAssumption, IInv, mode = "run" \/ (mode = "recv" /\ level < Top),
         NEW v \in Items, NEW why \in Doings \ {"idle", "gather"}, Up(v, why),
         UNCHANGED chainVars
  PROVE  /\ level \in Levels /\ level <= Len(chain)
         /\ level' \in base'..Top' /\ mode' \in Modes /\ item' \in Items
         /\ doing' \in [Levels -> Doings]
         /\ \A l \in Levels : doing'[l] = IF l = level THEN why ELSE doing[l]
         /\ Nesting'
<1> USE Where DEF chainVars
<1>1. level \in Levels /\ level <= Len(chain)
  BY DEF Working, Top
<1>2. level' \in base'..Top'
  BY <1>1 DEF Up, Top
<1>3. mode' \in Modes /\ item' \in Items /\ doing' \in [Levels -> Doings]
  BY <1>1 DEF IInv, TypeOK, Up, Modes
<1>4. \A l \in Levels : doing'[l] = IF l = level THEN why ELSE doing[l]
  BY DEF IInv, TypeOK, Up
<1>5. \A l \in Levels : Active(l)' <=> doing'[l] # "idle"
  BY <1>4 DEF IInv, Nesting, Active, Working, Up, Levels
<1>6. \A l \in Levels : doing'[l] # "gather"
  BY <1>4 DEF IInv, Nesting
<1>7. Nesting'
  BY <1>5, <1>6 DEF Nesting, Working, Up
<1> QED
  BY <1>1, <1>2, <1>3, <1>4, <1>7

\* A level begins on a state: it joins the nesting, with branches of its own.
LEMMA EnterStep ==
  ASSUME ChainAssumption, IInv, NEW l \in Levels, NEW terminated \in BOOLEAN,
         \/ mode = "recv" /\ level < Top /\ l = level
         \/ mode = "build" /\ chain # <<>> /\ base = 0 /\ l = 1,
         Enter(l, terminated), UNCHANGED <<chain, base, emitted, left, sending, bad>>
  PROVE  /\ level' \in base'..Top' /\ mode' \in Modes
         /\ doing' \in [Levels -> Doings] /\ input' \in [Levels -> BOOLEAN]
         /\ live' \in [Levels -> 0..Branches] /\ begun' \in [Levels -> Nat]
         /\ \A k \in Levels : sending'[k] <= live'[k]
         /\ Nesting' /\ Branching' /\ Emitting'
<1> USE Where
<1>1. l <= Len(chain) /\ l > base
  BY DEF Top, Kinds
<1>2. level' \in base'..Top' /\ mode' \in Modes
  BY <1>1 DEF Enter, Top, Modes
<1>3. doing' \in [Levels -> Doings] /\ input' \in [Levels -> BOOLEAN]
  BY DEF IInv, TypeOK, Enter, Doings
<1>4. live' \in [Levels -> 0..Branches]
  <2>1. 0 \in 0..Branches /\ Branches \in 0..Branches
    BY DEF ChainAssumption
  <2> QED
    BY <2>1 DEF IInv, TypeOK, Enter
<1>5. begun' \in [Levels -> Nat]
  <2>1. begun[l] \in Nat
    BY DEF IInv, TypeOK
  <2>2. begun[l] + 1 \in Nat
    BY <2>1
  <2> QED
    BY <2>2 DEF IInv, TypeOK, Enter
<1>6. \A k \in Levels : doing'[k] = IF k # l THEN doing[k]
                                    ELSE IF chain[l] = "gather" THEN "gather" ELSE "task"
  BY DEF IInv, TypeOK, Enter
<1>7. doing[l] = "idle"
  BY DEF IInv, Nesting, Active, Working, Levels
<1>8. Nesting'
  <2>1. \A k \in Levels : Active(k)' <=> doing'[k] # "idle"
    BY <1>1, <1>6 DEF IInv, Nesting, Active, Working, Enter, Levels
  <2> QED
    BY <1>1, <1>6, <2>1 DEF IInv, Nesting, Working, Enter
<1>9. \A k \in Levels : live'[k] = IF k # l THEN live[k]
                                   ELSE IF chain[l] \in Parallels THEN Branches ELSE 0
  BY DEF IInv, TypeOK, Enter
<1>11. Branching'
  BY <1>6, <1>7, <1>9 DEF IInv, Branching, Parallels
<1>12. \A k \in Levels : sending'[k] <= live'[k]
  <2>1. sending[l] = 0
    <3>1. sending[l] \in Nat /\ live[l] \in Nat /\ sending[l] <= live[l]
      BY DEF IInv, TypeOK
    <3>2. ~(live[l] > 0)
      BY <1>7 DEF IInv, Branching
    <3> QED
      BY <3>1, <3>2
  <2>2. live'[l] >= 0
    BY <1>4
  <2> QED
    BY <1>9, <2>1, <2>2 DEF IInv, TypeOK
<1>10. Emitting'
  BY <1>6, <1>7 DEF IInv, TypeOK, Emitting, ChainAssumption
<1> QED
  BY <1>2, <1>3, <1>4, <1>5, <1>8, <1>10, <1>11, <1>12

\* A level yields a state: to the next level, or past all levels to the terminal.
LEMMA YieldStateStep ==
  ASSUME ChainAssumption, IInv, mode = "run",
         NEW terminated \in BOOLEAN, NEW why \in {"task", "resumed"}, YieldState(terminated, why),
         left' \in [Levels -> 0..MaxEmit],
         sending' \in [Levels -> 0..Branches], \A l \in Levels : sending'[l] <= live[l],
         UNCHANGED <<chainVars, input, live, bad, result, seen, stopped>>
  PROVE  TypeOK' /\ Nesting' /\ Erring' /\ Using'
<1> USE DEF chainVars
<1>1. /\ Up(AState(terminated), why) /\ Feeds(terminated)
      /\ emitted' = [emitted EXCEPT ![level] = @ + 1] /\ UNCHANGED <<begun, raised>>
  BY DEF YieldState
<1>2. AState(terminated) \in Items /\ why \in Doings \ {"idle", "gather"}
  BY DEF AState, Items, Doings
<1>3. /\ level \in Levels /\ level <= Len(chain)
      /\ level' \in base'..Top' /\ mode' \in Modes /\ item' \in Items
      /\ doing' \in [Levels -> Doings]
      /\ \A l \in Levels : doing'[l] = IF l = level THEN why ELSE doing[l]
      /\ Nesting'
  BY <1>1, <1>2, UpStep
<1>4. emitted' \in [Levels -> 0..(MaxEmit + 1)]
  <2>1. emitted[level] \in Nat /\ left[level] \in Nat /\ MaxEmit \in Nat
    BY <1>3 DEF IInv, TypeOK, ChainAssumption
  <2>2. emitted[level] + left[level] <= MaxEmit
    <3>1. doing[level] # "resumed"
      BY DEF IInv, Nesting
    <3> QED
      BY <1>3, <3>1 DEF IInv, Emitting
  <2>3. emitted[level] + 1 \in 0..(MaxEmit + 1)
    BY <2>1, <2>2
  <2> QED
    BY <1>1, <1>3, <2>3 DEF IInv, TypeOK
<1>5. final' \in Nat /\ fed' \in [Levels -> Nat]
  <2>1. fed[level] + 1 \in Nat /\ final + 1 \in Nat
    BY <1>3 DEF IInv, TypeOK
  <2> QED
    BY <1>1, <1>3, <2>1 DEF IInv, TypeOK, Feeds
<1>6. TypeOK'
  BY <1>1, <1>3, <1>4, <1>5 DEF IInv, TypeOK
<1>7. Erring'
  BY <1>1, <1>2, <1>3 DEF IInv, Erring, Up, AState, Nesting
<1>8. Using'
  <2>1. base = 0 /\ ~raised
    BY Where DEF IInv, Erring
  <2>2. \A l \in Levels : fed'[l] = IF l = level /\ ~(terminated \/ level = Len(chain))
                                    THEN fed[l] + 1 ELSE fed[l]
    BY <1>1 DEF IInv, TypeOK, Feeds
  <2>3. final' = seen' + (IF ForTerminal' THEN 1 ELSE 0)
    <3>1. ForTerminal' <=> terminated \/ level = Len(chain)
      BY <1>1, Where DEF ForTerminal, Up, AState, Top
    <3>2. final = seen /\ final \in Nat
      BY DEF IInv, TypeOK, Using, ForTerminal
    <3> QED
      BY <1>1, <3>1, <3>2 DEF Feeds
  <2>4. \A l \in 1..(Len(chain) - 1) :
           fed'[l] = begun'[l + 1] + (IF ForLevel(l + 1)' THEN 1 ELSE 0)
    <3> SUFFICES ASSUME NEW l \in 1..(Len(chain) - 1)
                 PROVE  fed'[l] = begun'[l + 1] + (IF ForLevel(l + 1)' THEN 1 ELSE 0)
      BY DEF chainVars
    <3>1. l \in Levels /\ l + 1 \in Levels /\ l \in Nat
      BY Where DEF Levels, ChainAssumption
    <3>2. fed[l] = begun[l + 1] /\ begun[l + 1] \in Nat
      BY <3>1 DEF IInv, TypeOK, Using, ForLevel
    <3>3. ForLevel(l + 1)' <=> ~terminated /\ l = level
      BY <1>1, <3>1, Where DEF ForLevel, Up, AState
    <3> QED
      BY <1>1, <2>2, <3>1, <3>2, <3>3, Where
  <2> QED
    BY <1>1, <2>1, <2>3, <2>4 DEF IInv, Using, Up
<1> QED
  BY <1>3, <1>6, <1>7, <1>8

\* A level yields an error.
LEMMA YieldErrorStep ==
  ASSUME ChainAssumption, IInv, mode = "run", YieldError,
         UNCHANGED <<chainVars, input, left, branchVars, result, seen, stopped>>
  PROVE  TypeOK' /\ Nesting' /\ Emitting' /\ Erring' /\ Using'
<1> USE DEF chainVars, branchVars, goroutines
<1>1. /\ Up(AnError, "error") /\ raised' = TRUE
      /\ UNCHANGED <<emitted, final, fed, begun>>
  BY DEF YieldError
<1>2. AnError \in Items /\ "error" \in Doings \ {"idle", "gather"}
  BY DEF AnError, Items, Doings
<1>3. /\ level \in Levels /\ level <= Len(chain)
      /\ level' \in base'..Top' /\ mode' \in Modes /\ item' \in Items
      /\ doing' \in [Levels -> Doings]
      /\ \A l \in Levels : doing'[l] = IF l = level THEN "error" ELSE doing[l]
      /\ Nesting'
  BY <1>1, <1>2, UpStep
<1>4. TypeOK'
  BY <1>1, <1>3 DEF IInv, TypeOK
<1>5. Emitting'
  BY <1>1, <1>3 DEF IInv, TypeOK, Nesting, Emitting
<1>6. Erring'
  BY <1>1, <1>3, Where DEF IInv, Erring, Up, AnError
<1>7. Using'
  BY <1>1, <1>3 DEF IInv, Using, Erring, ForTerminal, ForLevel, Up, AnError
<1> QED
  BY <1>3, <1>4, <1>5, <1>6, <1>7

----------------------------------------------------------------------------
(* The invariant, action by action. *)

\* The end of a loop body, in the five ways it happens.
LEMMA DownKeeps ==
  ASSUME ChainAssumption, IInv, mode \in Working, level > base, live[level] = 0,
         NEW answer \in {"yes", "no"}, Down(answer),
         answer = "yes" => mode \in {"run", "yes"} /\ doing[level] # "error",
         answer = "no" => mode \in {"no", "drain"} \/ doing[level] = "error",
         UNCHANGED <<chainVars, item, goroutines, result, seen, history>>
  PROVE  IInv'
<1> USE Where DEF chainVars, history, goroutines
<1>1. TypeOK' /\ Nesting' /\ Emitting'
  BY DownStep
<1>2. \A l \in Levels : doing'[l] = IF l = level THEN "idle" ELSE doing[l]
  BY DEF IInv, TypeOK, Down
<1>3. Branching'
  BY <1>2 DEF IInv, Branching, Down
<1>4. Stopping'
  BY DEF IInv, Stopping, Down, Answer
<1>5. Erring'
  BY <1>2 DEF IInv, Erring, Down, Answer, Working
<1>6. Using'
  BY DEF IInv, Erring, Using, ForTerminal, ForLevel, Down, Answer, Working
<1> QED
  BY <1>1, <1>3, <1>4, <1>5, <1>6 DEF IInv

\* Actions that send control down to the level below with an answer, or with an end.
LEMMA DownActionsKeep ==
  ASSUME ChainAssumption, IInv,
         \/ ResumedEnds \/ AnswerTerminated \/ AnswerError \/ Drained
         \/ EndOfStates /\ level \notin bad
         \/ TaskStops /\ mode' # "drain"
  PROVE  IInv'
<1> USE Where
<1>0. level \in Levels => (doing[level] \notin {"task", "gather"} => live[level] = 0)
  BY DEF IInv, TypeOK, Branching
<1>1. CASE EndOfStates /\ level \notin bad
  BY <1>1, DownKeeps DEF EndOfStates, Working
<1>2. CASE ResumedEnds
  BY <1>0, <1>2, DownKeeps DEF ResumedEnds, Working
<1>3. CASE AnswerTerminated
  BY <1>0, <1>3, DownKeeps DEF AnswerTerminated, Working
<1>4. CASE AnswerError
  BY <1>0, <1>4, DownKeeps DEF AnswerError, Working
<1>5. CASE Drained
  BY <1>5, DownKeeps DEF Drained, Working
<1>6. CASE TaskStops /\ mode' # "drain"
  <2>1. Kind # "merge" /\ Down("no")
    BY <1>6 DEF TaskStops
  <2>2. live[level] = 0
    <3>1. level \in Levels /\ live[level] \in Nat
      BY <1>6 DEF IInv, TypeOK, TaskStops, Working
    <3> QED
      BY <1>6, <2>1, <3>1 DEF IInv, Branching, TaskStops, Kind
  <2> QED
    BY <1>6, <2>1, <2>2, DownKeeps DEF TaskStops, Working
<1> QED
  BY <1>1, <1>2, <1>3, <1>4, <1>5, <1>6

\* A level at its task yields a state.
LEMMA EmittingKeeps ==
  ASSUME ChainAssumption, IInv, EmitState \/ FailNonFatal \/ EmitGathered
  PROVE  IInv'
<1> USE Where
<1>1. /\ mode = "run" /\ level \in Levels
      /\ UNCHANGED <<chainVars, input, live, bad, result, seen, stopped>>
  BY DEF EmitState, FailNonFatal, EmitGathered, Working, branchVars, goroutines
<1>2. doing[level] = "task"
  <2>1. doing[level] \in {"task", "gather"}
    BY <1>1 DEF IInv, Nesting
  <2>2. doing[level] = "gather" => chain[level] = "gather" /\ left[level] = 0
    BY <1>1 DEF IInv, Nesting, Emitting
  <2> QED
    BY <1>1, <2>1, <2>2 DEF EmitState, FailNonFatal, EmitGathered, Kind, Singles
<1>3. PICK terminated \in BOOLEAN, why \in {"task", "resumed"} :
        /\ YieldState(terminated, why)
        /\ why = "resumed" => Kind = "nonfatal" /\ left' = left
        /\ why = "task" => EmitState \/ EmitGathered
  <2>1. input[level] \in BOOLEAN
    BY <1>1 DEF IInv, TypeOK
  <2> QED
    BY <2>1 DEF EmitState, FailNonFatal, EmitGathered
<1>4. left' \in [Levels -> 0..MaxEmit]
  <2>1. CASE EmitGathered
    <3>1. left[level] - 1 \in 0..MaxEmit
      <4>1. left[level] \in 0..MaxEmit /\ left[level] > 0
        BY <1>1, <2>1 DEF IInv, TypeOK, EmitGathered
      <4> QED
        BY <4>1 DEF ChainAssumption
    <3> QED
      BY <2>1, <3>1 DEF IInv, TypeOK, EmitGathered
  <2> QED
    BY <2>1 DEF IInv, TypeOK, EmitState, FailNonFatal
<1>11. /\ sending' \in [Levels -> 0..Branches]
       /\ \A l \in Levels : sending'[l] <= live[l]
       /\ \A l \in Levels \ {level} : sending'[l] = sending[l]
       /\ \/ sending'[level] = 0
          \/ emitted[level] + 1 + sending'[level] <= MaxEmit /\ Kind = "merge"
  <2>1. sending[level] \in Nat /\ live[level] \in Nat /\ sending[level] <= live[level]
        /\ sending[level] <= Branches /\ emitted[level] \in Nat
    BY <1>1 DEF IInv, TypeOK
  <2>2. CASE EmitState /\ Kind = "merge"
    <3>1. sending[level] > 0 /\ sending' = [sending EXCEPT ![level] = @ - 1]
      BY <2>2 DEF EmitState, Singles
    <3>2. sending[level] - 1 \in 0..Branches
      BY <2>1, <3>1 DEF ChainAssumption
    <3>3. emitted[level] + sending[level] <= MaxEmit
      BY <1>1, <3>1 DEF IInv, Emitting
    <3>4. /\ sending' \in [Levels -> 0..Branches] /\ sending'[level] = sending[level] - 1
          /\ \A l \in Levels \ {level} : sending'[l] = sending[l]
      BY <1>1, <3>1, <3>2 DEF IInv, TypeOK
    <3>5. emitted[level] + 1 + sending'[level] <= MaxEmit
      BY <2>1, <3>3, <3>4 DEF ChainAssumption
    <3>6. sending'[level] <= live[level]
      BY <2>1, <3>4
    <3>7. \A l \in Levels : sending'[l] <= live[l]
      BY <3>4, <3>6 DEF IInv, TypeOK
    <3> QED
      BY <2>2, <3>4, <3>5, <3>7
  <2>3. CASE ~(EmitState /\ Kind = "merge")
    <3>1. sending' = sending /\ Kind # "merge"
      BY <2>3 DEF EmitState, FailNonFatal, EmitGathered, branchVars, goroutines
    <3>2. live[level] = 0
      BY <1>1, <1>2, <2>1, <3>1 DEF IInv, Branching, Kind
    <3> QED
      BY <2>1, <3>1, <3>2 DEF IInv, TypeOK
  <2> QED
    BY <2>2, <2>3
<1>5. TypeOK' /\ Nesting' /\ Erring' /\ Using'
  BY <1>1, <1>3, <1>4, <1>11, YieldStateStep
<1>6. \A l \in Levels : doing'[l] = IF l = level THEN why ELSE doing[l]
  BY <1>3 DEF IInv, TypeOK, YieldState, Up
<1>7. \A l \in Levels : emitted'[l] = IF l = level THEN emitted[l] + 1 ELSE emitted[l]
  BY <1>3 DEF IInv, TypeOK, YieldState
<1>8. Branching'
  BY <1>1, <1>2, <1>3, <1>6 DEF IInv, Branching, Kind, chainVars
<1>9. Emitting'
  <2>0. \A l \in Levels : sending'[l] > 0 => emitted'[l] + sending'[l] <= MaxEmit
    BY <1>1, <1>7, <1>11 DEF IInv, Emitting
  <2>1. CASE EmitGathered
    <3>1. \A l \in Levels : left'[l] = IF l = level THEN left[l] - 1 ELSE left[l]
      BY <2>1 DEF IInv, TypeOK, EmitGathered
    <3>2. chain'[level] = "gather" /\ left[level] > 0 /\ left[level] \in Nat /\ emitted[level] \in Nat
      BY <1>1, <2>1 DEF IInv, TypeOK, EmitGathered, Kind, chainVars
    <3>3. emitted[level] + left[level] <= MaxEmit
      BY <1>1, <1>2 DEF IInv, Emitting
    <3>4. why = "task"
      BY <1>1, <1>3, <3>2 DEF Kind, chainVars
    <3>5. emitted'[level] + left'[level] <= MaxEmit
      BY <1>1, <1>7, <3>1, <3>2, <3>3 DEF ChainAssumption
    <3> QED
      BY <1>1, <1>6, <1>7, <2>0, <3>1, <3>2, <3>4, <3>5 DEF IInv, Emitting, chainVars
  <2>2. CASE EmitState
    <3>1. left' = left /\ chain[level] # "gather" /\ emitted[level] < MaxEmit
      BY <2>2 DEF EmitState, Kind, Singles
    <3>2. left[level] = 0 /\ emitted[level] \in Nat
      BY <1>1, <1>2, <3>1 DEF IInv, TypeOK, Emitting
    <3> QED
      BY <1>1, <1>2, <1>6, <1>7, <2>0, <3>1, <3>2 DEF IInv, Emitting, chainVars, ChainAssumption
  <2>3. CASE FailNonFatal
    BY <1>1, <1>2, <1>3, <1>6, <1>7, <2>0, <2>3
    DEF IInv, TypeOK, Emitting, FailNonFatal, Kind, YieldState, Up, chainVars
  <2> QED
    BY <2>1, <2>2, <2>3
<1>10. Stopping'
  BY <1>1 DEF IInv, Stopping
<1> QED
  BY <1>5, <1>8, <1>9, <1>10 DEF IInv

\* A level yields an error: no branch of it is left.
LEMMA FailingKeeps ==
  ASSUME ChainAssumption, IInv,
         FailFatal \/ (level \in bad /\ (Gather \/ EndOfStates))
  PROVE  IInv'
<1> USE Where
<1>1. /\ mode = "run" /\ level \in Levels /\ YieldError
      /\ UNCHANGED <<chainVars, input, left, branchVars, result, seen, stopped>>
  BY DEF FailFatal, Gather, EndOfStates, Working, branchVars
<1>2. TypeOK' /\ Nesting' /\ Emitting' /\ Erring' /\ Using'
  BY <1>1, YieldErrorStep
<1>3. \A l \in Levels : doing'[l] = IF l = level THEN "error" ELSE doing[l]
  BY <1>1 DEF IInv, TypeOK, YieldError, Up
<1>4. live[level] = 0
  <2>1. live[level] \in Nat
    BY <1>1 DEF IInv, TypeOK
  <2>2. CASE FailFatal
    BY <1>1, <2>1, <2>2 DEF IInv, Nesting, Branching, FailFatal, Kind
  <2>3. CASE Gather \/ EndOfStates
    BY <2>3 DEF Gather, EndOfStates
  <2> QED
    BY <2>2, <2>3
<1>5. Branching'
  BY <1>1, <1>3, <1>4 DEF IInv, Branching, chainVars, branchVars, goroutines
<1>6. Stopping'
  BY <1>1 DEF IInv, Stopping
<1> QED
  BY <1>2, <1>5, <1>6 DEF IInv

\* A level is appended: nothing has run yet.
LEMMA AppendKeeps ==
  ASSUME ChainAssumption, IInv, NEW kind \in Kinds, AppendLevel(kind)
  PROVE  IInv'
<1> USE Where
<1>1. /\ mode = "build" /\ chain' = Append(chain, kind)
      /\ base' = (IF kind = "empty" THEN Len(chain) + 1 ELSE base) /\ level' = base'
      /\ UNCHANGED <<terminal, mode, item, doing, workVars, branchVars, result, seen, history, stopped>>
  BY DEF AppendLevel
<1>2. /\ Len(chain') = Len(chain) + 1 /\ chain' \in Seq(Kinds) /\ Len(chain') <= MaxLevels
      /\ \A l \in 1..Len(chain) : chain'[l] = chain[l]
      /\ chain'[Len(chain) + 1] = kind
  BY <1>1 DEF AppendLevel, ChainAssumption
<1>3. TypeOK'
  BY <1>1, <1>2 DEF IInv, TypeOK, Top, workVars, branchVars, goroutines, history
<1>4. \A l \in Levels : doing[l] = "idle" /\ live[l] = 0
  <2>1. \A l \in Levels : doing[l] = "idle"
    BY <1>1 DEF IInv, Nesting, Active, Working, Levels
  <2>2. \A l \in Levels : live[l] \in Nat
    BY DEF IInv, TypeOK
  <2> QED
    BY <2>1, <2>2 DEF IInv, Branching
<1>5. Nesting'
  BY <1>1, <1>4 DEF Nesting, Active, Working, Levels
<1>6. Branching' /\ Emitting'
  BY <1>1, <1>4 DEF IInv, Branching, Emitting, workVars, branchVars, goroutines
<1>7. Stopping' /\ Erring'
  BY <1>1, <1>4 DEF IInv, Stopping, Erring, history
<1>8. Using'
  <2>1. base' > 0 <=> \E l \in DOMAIN chain' : chain'[l] = "empty"
    <3>1. DOMAIN chain = 1..Len(chain) /\ DOMAIN chain' = 1..(Len(chain) + 1)
      BY <1>2
    <3>2. base > 0 <=> \E l \in DOMAIN chain : chain[l] = "empty"
      BY DEF IInv, Using
    <3>3. CASE kind = "empty"
      BY <1>1, <1>2, <3>1, <3>3
    <3>4. CASE kind # "empty"
      BY <1>1, <1>2, <3>1, <3>2, <3>4
    <3> QED
      BY <3>3, <3>4
  <2>2. \A l \in 1..(Len(chain') - 1) : fed[l] = 0 /\ begun[l + 1] = 0
    BY <1>1, <1>2 DEF IInv, Using, Levels
  <2> QED
    BY <1>1, <2>1, <2>2 DEF IInv, Using, ForTerminal, ForLevel, history
<1> QED
  BY <1>3, <1>5, <1>6, <1>7, <1>8 DEF IInv

\* A terminal is called.
LEMMA CallKeeps ==
  ASSUME ChainAssumption, IInv, NEW t \in Terminals, Call(t)
  PROVE  IInv'
<1> USE Where
<1>1. PICK terminated \in BOOLEAN : Enter(1, terminated)
  BY DEF Call
<1>2. /\ mode = "build" /\ chain # <<>> /\ base = 0 /\ terminal' = t
      /\ UNCHANGED <<chain, base, item, emitted, left, sending, bad, result, seen, final, fed, raised, stopped>>
  BY DEF Call
<1>3. 1 \in Levels
  BY DEF Levels, ChainAssumption
<1>4. /\ level' \in base'..Top' /\ mode' \in Modes
      /\ doing' \in [Levels -> Doings] /\ input' \in [Levels -> BOOLEAN]
      /\ live' \in [Levels -> 0..Branches] /\ begun' \in [Levels -> Nat]
      /\ \A k \in Levels : sending'[k] <= live'[k]
      /\ Nesting' /\ Branching' /\ Emitting'
  BY <1>1, <1>2, <1>3, EnterStep
<1>5. TypeOK'
  BY <1>2, <1>4 DEF IInv, TypeOK
<1>6. \A l \in Levels : doing'[l] # "error"
  <2>1. \A l \in Levels : doing[l] # "error"
    BY <1>2 DEF IInv, Erring
  <2> QED
    BY <1>1, <1>3, <2>1 DEF IInv, TypeOK, Enter
<1>7. Stopping' /\ Erring'
  BY <1>1, <1>2, <1>6 DEF IInv, Stopping, Erring, Using, Enter
<1>8. Using'
  <2>1. \A l \in 1..(Len(chain) - 1) : fed[l] = 0 /\ begun'[l + 1] = 0
    BY <1>1, <1>2 DEF IInv, TypeOK, Using, Enter, Levels
  <2> QED
    BY <1>1, <1>2, <2>1 DEF IInv, Erring, Using, ForTerminal, ForLevel, Enter
<1> QED
  BY <1>4, <1>5, <1>7, <1>8 DEF IInv

\* A terminal that is called on a chain with a level without tasks.
LEMMA CallWithoutTasksKeeps ==
  ASSUME ChainAssumption, IInv, NEW t \in Terminals, CallWithoutTasks(t)
  PROVE  IInv'
<1> USE Where DEF CallWithoutTasks
<1>1. TypeOK'
  BY DEF IInv, TypeOK, Top, Modes, Items, AnError, workVars, branchVars, goroutines
<1>2. Nesting'
  BY DEF IInv, Nesting, Active, Working, Levels
<1>3. Branching' /\ Emitting'
  BY DEF IInv, Branching, Emitting, workVars, branchVars, goroutines
<1>4. Stopping' /\ Erring'
  BY DEF IInv, Stopping, Erring, AnError, Using
<1>5. Using'
  BY DEF IInv, Using, ForTerminal, ForLevel, AnError
<1> QED
  BY <1>1, <1>2, <1>3, <1>4, <1>5 DEF IInv

\* A branch sends, gives up, ends or fails, whatever control does.
LEMMA BranchKeeps ==
  ASSUME ChainAssumption, IInv, NEW l \in Levels,
         BranchSends(l) \/ BranchGivesUp(l) \/ BranchEnds(l) \/ BranchFails(l)
  PROVE  IInv'
<1>1. UNCHANGED <<chainVars, level, mode, item, doing, workVars, result, seen, history, stopped>>
  BY DEF BranchSends, BranchGivesUp, BranchEnds, BranchFails
<1>2. /\ sending[l] \in Nat /\ live[l] \in Nat /\ sending[l] <= live[l] /\ live[l] <= Branches
      /\ emitted[l] \in Nat /\ Branches \in Nat
  BY DEF IInv, TypeOK, ChainAssumption
<1>3. PICK m \in 0..Branches, n \in 0..Branches :
        /\ live' = [live EXCEPT ![l] = m] /\ sending' = [sending EXCEPT ![l] = n]
        /\ n <= m /\ m <= live[l]
        /\ n <= sending[l] \/ emitted[l] + n <= MaxEmit
        /\ live[l] > 0
        /\ bad' = bad \/ bad' = bad \cup {l}
  <2>1. CASE BranchSends(l)
    <3>1. /\ sending[l] < live[l] /\ live' = live /\ bad' = bad
          /\ emitted[l] + sending[l] < MaxEmit
          /\ sending' = [sending EXCEPT ![l] = sending[l] + 1]
      BY <2>1 DEF BranchSends
    <3>2. live' = [live EXCEPT ![l] = live[l]]
      BY <3>1 DEF IInv, TypeOK
    <3>3. /\ sending[l] + 1 \in 0..Branches /\ live[l] \in 0..Branches /\ live[l] > 0
          /\ sending[l] + 1 <= live[l] /\ emitted[l] + (sending[l] + 1) <= MaxEmit
          /\ live[l] <= live[l]
      BY <1>2, <3>1 DEF ChainAssumption
    <3> QED
      BY <3>1, <3>2, <3>3
  <2>2. CASE BranchGivesUp(l)
    <3>1. /\ sending[l] > 0 /\ bad' = bad
          /\ live' = [live EXCEPT ![l] = live[l] - 1]
          /\ sending' = [sending EXCEPT ![l] = sending[l] - 1]
      BY <2>2 DEF BranchGivesUp
    <3>2. /\ sending[l] - 1 \in 0..Branches /\ live[l] - 1 \in 0..Branches /\ live[l] > 0
          /\ sending[l] - 1 <= live[l] - 1 /\ live[l] - 1 <= live[l]
          /\ sending[l] - 1 <= sending[l]
      BY <1>2, <3>1
    <3> QED
      BY <3>1, <3>2
  <2>3. CASE BranchEnds(l) \/ BranchFails(l)
    <3>1. /\ sending[l] < live[l] /\ sending' = sending
          /\ live' = [live EXCEPT ![l] = live[l] - 1]
          /\ bad' = bad \/ bad' = bad \cup {l}
      BY <2>3 DEF BranchEnds, BranchFails
    <3>2. sending = [sending EXCEPT ![l] = sending[l]]
      BY DEF IInv, TypeOK
    <3>3. /\ sending[l] \in 0..Branches /\ live[l] - 1 \in 0..Branches /\ live[l] > 0
          /\ sending[l] <= live[l] - 1 /\ live[l] - 1 <= live[l] /\ sending[l] <= sending[l]
      BY <1>2, <3>1
    <3> QED
      BY <3>1, <3>2, <3>3
  <2> QED
    BY <2>1, <2>2, <2>3
<1>4. \A k \in Levels : /\ live'[k] = IF k = l THEN m ELSE live[k]
                        /\ sending'[k] = IF k = l THEN n ELSE sending[k]
  BY <1>3 DEF IInv, TypeOK
<1>5. TypeOK'
  <2>1. live' \in [Levels -> 0..Branches] /\ sending' \in [Levels -> 0..Branches]
    BY <1>3 DEF IInv, TypeOK
  <2>2. \A k \in Levels : sending'[k] <= live'[k]
    BY <1>3, <1>4 DEF IInv, TypeOK
  <2> QED
    BY <1>1, <1>3, <2>1, <2>2 DEF IInv, TypeOK, Top, chainVars, workVars, history
<1>6. Branching'
  <2>1. \A k \in Levels : live'[k] > 0 => live[k] > 0
    BY <1>3, <1>4
  <2>2. doing[l] # "idle"
    BY <1>3 DEF IInv, Branching
  <2> QED
    BY <1>1, <1>3, <2>1, <2>2 DEF IInv, Branching, chainVars
<1>7. Nesting'
  BY <1>1 DEF IInv, Nesting, Active, chainVars
<1>8. Emitting'
  <2>1. \A k \in Levels : sending'[k] > 0 => emitted[k] + sending'[k] <= MaxEmit
    <3>1. sending[l] > 0 => emitted[l] + sending[l] <= MaxEmit
      BY DEF IInv, Emitting
    <3>2. n > 0 => emitted[l] + n <= MaxEmit
      BY <1>2, <1>3, <3>1 DEF ChainAssumption
    <3> QED
      BY <1>4, <3>2 DEF IInv, Emitting
  <2> QED
    BY <1>1, <2>1 DEF IInv, Emitting, chainVars, workVars
<1>9. Stopping' /\ Erring' /\ Using'
  BY <1>1 DEF IInv, Stopping, Erring, Using, ForTerminal, ForLevel, Top, chainVars, history
<1> QED
  BY <1>5, <1>6, <1>7, <1>8, <1>9 DEF IInv

\* A level that drains its channel receives once more.
LEMMA DrainKeeps ==
  ASSUME ChainAssumption, IInv, DrainState
  PROVE  IInv'
<1> USE Where
<1>1. /\ mode = "drain" /\ sending[level] > 0 /\ level \in Levels
      /\ sending' = [sending EXCEPT ![level] = sending[level] - 1]
      /\ emitted' = [emitted EXCEPT ![level] = emitted[level] + 1]
      /\ UNCHANGED <<chainVars, level, mode, item, doing, input, left, live, bad, result, seen, history, stopped>>
  BY DEF DrainState, Working
<1>2. /\ sending[level] \in Nat /\ live[level] \in Nat /\ emitted[level] \in Nat
      /\ sending[level] <= live[level] /\ sending[level] <= Branches
      /\ emitted[level] + sending[level] <= MaxEmit
  BY <1>1 DEF IInv, TypeOK, Emitting
<1>3. doing[level] = "task" /\ left[level] = 0
  <2>1. live[level] > 0
    BY <1>1, <1>2
  <2>2. doing[level] \in {"task", "resumed"}
    BY <1>1 DEF IInv, Nesting
  <2>3. doing[level] = "task" /\ chain[level] = "merge"
    BY <1>1, <2>1, <2>2 DEF IInv, Branching
  <2> QED
    BY <1>1, <2>3 DEF IInv, Emitting
<1>4. /\ sending[level] - 1 \in 0..Branches /\ sending[level] - 1 <= live[level]
      /\ emitted[level] + 1 \in 0..MaxEmit
      /\ emitted[level] + 1 \in 0..(MaxEmit + 1)
  <2>1. PICK n \in Nat, k \in Nat, e \in Nat :
          n = sending[level] /\ k = live[level] /\ e = emitted[level]
    BY <1>2
  <2>2. n > 0 /\ n <= k /\ n <= Branches /\ e + n <= MaxEmit /\ MaxEmit \in Nat /\ Branches \in Nat
    BY <1>1, <1>2, <2>1 DEF ChainAssumption
  <2>3. n - 1 \in 0..Branches /\ n - 1 <= k
    BY <2>2
  <2>4. e + 1 <= MaxEmit
    BY <2>2
  <2>5. e + 1 \in 0..MaxEmit /\ e + 1 \in 0..(MaxEmit + 1)
    BY <2>2, <2>4
  <2> QED
    BY <2>1, <2>3, <2>5
<1>5. \A l \in Levels : /\ sending'[l] = IF l = level THEN sending[level] - 1 ELSE sending[l]
                        /\ emitted'[l] = IF l = level THEN emitted[level] + 1 ELSE emitted[l]
  BY <1>1 DEF IInv, TypeOK
<1>6. TypeOK'
  <2>1. sending' \in [Levels -> 0..Branches] /\ emitted' \in [Levels -> 0..(MaxEmit + 1)]
    BY <1>1, <1>4 DEF IInv, TypeOK
  <2>2. \A l \in Levels : sending'[l] <= live[l]
    BY <1>1, <1>4, <1>5 DEF IInv, TypeOK
  <2> QED
    BY <1>1, <2>1, <2>2 DEF IInv, TypeOK, Top, chainVars, history
<1>7. Nesting' /\ Branching'
  BY <1>1 DEF IInv, Nesting, Active, Branching, chainVars
<1>8. Emitting'
  <2>1. ASSUME NEW l \in Levels
        PROVE  /\ doing[l] \in {"idle", "gather"} => emitted'[l] = 0 /\ left[l] = 0
               /\ doing[l] # "resumed" => emitted'[l] + left[l] <= MaxEmit
               /\ doing[l] # "idle" /\ chain[l] # "gather" => left[l] = 0
               /\ sending'[l] > 0 => emitted'[l] + sending'[l] <= MaxEmit
    <3>1. CASE l # level
      BY <1>5, <3>1 DEF IInv, Emitting
    <3>2. CASE l = level
      <4>1. PICK n \in Nat, e \in Nat : n = sending[level] /\ e = emitted[level]
        BY <1>2
      <4>2. n > 0 /\ e + n <= MaxEmit /\ MaxEmit \in Nat
        BY <1>1, <1>2, <4>1 DEF ChainAssumption
      <4>3. emitted'[l] = e + 1 /\ sending'[l] = n - 1 /\ left[l] = 0 /\ doing[l] = "task"
        BY <1>3, <1>5, <3>2, <4>1
      <4>4. (e + 1) + (n - 1) <= MaxEmit /\ (e + 1) + 0 <= MaxEmit
        BY <4>2
      <4> QED
        BY <4>3, <4>4
    <3> QED
      BY <3>1, <3>2
  <2> QED
    BY <1>1, <2>1 DEF Emitting, chainVars
<1>9. Stopping' /\ Erring' /\ Using'
  BY <1>1 DEF IInv, Stopping, Erring, Using, ForTerminal, ForLevel, Top, chainVars, history
<1> QED
  BY <1>6, <1>7, <1>8, <1>9 DEF IInv

\* The results of a gathering level are there.
LEMMA GatherKeeps ==
  ASSUME ChainAssumption, IInv, Gather, level \notin bad
  PROVE  IInv'
<1> USE Where
<1>1. PICK n \in 0..MaxEmit : left' = [left EXCEPT ![level] = n]
  BY DEF Gather
<1>2. /\ mode = "run" /\ doing[level] = "gather" /\ live[level] = 0 /\ level \in Levels
      /\ doing' = [doing EXCEPT ![level] = "task"] /\ chain[level] = "gather"
      /\ UNCHANGED <<chainVars, level, mode, item, input, emitted, branchVars,
                     result, seen, history, stopped>>
  BY DEF IInv, Nesting, Gather, Working
<1>3. TypeOK'
  BY <1>1, <1>2 DEF IInv, TypeOK, Top, Doings, chainVars, branchVars, goroutines, history
<1>4. \A l \in Levels : doing'[l] = IF l = level THEN "task" ELSE doing[l]
  BY <1>2 DEF IInv, TypeOK
<1>5. Nesting'
  BY <1>2, <1>4 DEF IInv, Nesting, Active, Working, chainVars
<1>6. Branching'
  BY <1>2, <1>4 DEF IInv, Branching, chainVars, branchVars, goroutines
<1>7. Emitting'
  <2>1. \A l \in Levels : left'[l] = IF l = level THEN n ELSE left[l]
    BY <1>1 DEF IInv, TypeOK
  <2> QED
    BY <1>2, <1>4, <2>1 DEF IInv, Emitting, chainVars, branchVars, goroutines, ChainAssumption
<1>8. Stopping' /\ Erring' /\ Using'
  BY <1>2, <1>4 DEF IInv, Stopping, Erring, Using, ForTerminal, ForLevel, Top, chainVars, history
<1> QED
  BY <1>3, <1>5, <1>6, <1>7, <1>8 DEF IInv

\* A level's task is run on a state.
LEMMA ReceiveKeeps ==
  ASSUME ChainAssumption, IInv, ReceiveState
  PROVE  IInv'
<1> USE Where
<1>1. /\ mode = "recv" /\ level < Top /\ item.kind = "state" /\ ~item.terminated
      /\ Enter(level, item.terminated) /\ level \in Levels
      /\ UNCHANGED <<chainVars, item, emitted, left, sending, bad, result, seen, final, fed, raised, stopped>>
  BY DEF ReceiveState
<1>2. item.terminated \in BOOLEAN
  BY <1>1 DEF IInv, TypeOK, Items
<1>3. /\ level' \in base'..Top' /\ mode' \in Modes
      /\ doing' \in [Levels -> Doings] /\ input' \in [Levels -> BOOLEAN]
      /\ live' \in [Levels -> 0..Branches] /\ begun' \in [Levels -> Nat]
      /\ \A k \in Levels : sending'[k] <= live'[k]
      /\ Nesting' /\ Branching' /\ Emitting'
  BY <1>1, <1>2, EnterStep DEF chainVars
<1>4. TypeOK'
  BY <1>1, <1>3 DEF IInv, TypeOK, chainVars
<1>5. ~raised
  BY <1>1 DEF IInv, Erring
<1>6. Stopping' /\ Erring'
  BY <1>1, <1>5 DEF IInv, TypeOK, Stopping, Erring, Enter, chainVars
<1>7. Using'
  <2>1. \A l \in 1..(Len(chain) - 1) : fed[l] = begun'[l + 1]
    <3> SUFFICES ASSUME NEW l \in 1..(Len(chain) - 1)
                 PROVE  fed[l] = begun'[l + 1]
      OBVIOUS
    <3>1. l + 1 \in Levels /\ l \in Levels
      BY DEF Levels, ChainAssumption
    <3>2. fed[l] = begun[l + 1] + (IF ForLevel(l + 1) THEN 1 ELSE 0) /\ begun[l + 1] \in Nat
      BY <3>1 DEF IInv, TypeOK, Using
    <3>3. ForLevel(l + 1) <=> level = l + 1
      BY <1>1 DEF ForLevel
    <3>4. begun'[l + 1] = IF l + 1 = level THEN begun[l + 1] + 1 ELSE begun[l + 1]
      BY <1>1, <3>1 DEF IInv, TypeOK, Enter
    <3> QED
      BY <3>2, <3>3, <3>4
  <2>2. final = seen
    BY <1>1 DEF IInv, TypeOK, Using, ForTerminal
  <2>3. base = 0
    BY <1>1, <1>5 DEF IInv, Erring
  <2>4. mode' = "run" /\ ~ForTerminal' /\ \A l : ~ForLevel(l)'
    BY <1>1 DEF ForTerminal, ForLevel, Enter
  <2>5. \A l \in 1..(Len(chain) - 1) : begun'[l + 1] \in Nat
    BY <1>3 DEF Levels
  <2>6. seen \in Nat
    BY DEF IInv, TypeOK
  <2> QED
    BY <1>1, <1>5, <2>1, <2>2, <2>3, <2>4, <2>5, <2>6 DEF IInv, Using, chainVars
<1> QED
  BY <1>3, <1>4, <1>6, <1>7 DEF IInv

\* A level passes a value on.
LEMMA RelayKeeps ==
  ASSUME ChainAssumption, IInv, Relay
  PROVE  IInv'
<1> USE Where
<1>1. PICK why \in {"terminated", "error"} :
        /\ Up(item, why)
        /\ why = "error" => item.kind = "error"
        /\ why = "terminated" => item.kind = "state" /\ item.terminated
  BY DEF Relay
<1>2. /\ mode = "recv" /\ level < Top
      /\ UNCHANGED <<chainVars, workVars, branchVars, result, seen, history, stopped>>
  BY DEF Relay
<1>3. item \in Items /\ why \in Doings \ {"idle", "gather"}
  BY DEF IInv, TypeOK, Doings
<1>4. /\ level \in Levels /\ level <= Len(chain)
      /\ level' \in base'..Top' /\ mode' \in Modes /\ item' \in Items
      /\ doing' \in [Levels -> Doings]
      /\ \A l \in Levels : doing'[l] = IF l = level THEN why ELSE doing[l]
      /\ Nesting'
  BY <1>1, <1>2, <1>3, UpStep
<1>5. TypeOK'
  BY <1>2, <1>4 DEF IInv, TypeOK, chainVars, workVars, branchVars, goroutines, history
<1>6. doing[level] = "idle"
  BY <1>2, <1>4 DEF IInv, Nesting, Active, Working
<1>7. Branching'
  <2>1. ~(live[level] > 0)
    BY <1>4, <1>6 DEF IInv, Branching
  <2> QED
    BY <1>2, <1>4, <2>1 DEF IInv, Branching, chainVars, branchVars, goroutines
<1>8. Emitting'
  BY <1>2, <1>4, <1>6
  DEF IInv, Emitting, chainVars, workVars, branchVars, goroutines, ChainAssumption
<1>9. Stopping'
  BY <1>2 DEF IInv, Stopping
<1>10. Erring'
  BY <1>1, <1>2, <1>4 DEF IInv, Erring, Up, chainVars, history
<1>11. Using'
  <2>1. ForTerminal' <=> ForTerminal
    BY <1>1, <1>2 DEF ForTerminal, Up, Top, chainVars
  <2>2. \A l : ~ForLevel(l)' /\ (l <= Len(chain) => ~ForLevel(l))
    BY <1>1, <1>2 DEF ForLevel, Up, Top
  <2> QED
    BY <1>1, <1>2, <2>1, <2>2 DEF IInv, Using, Up, chainVars, history
<1> QED
  BY <1>4, <1>5, <1>7, <1>8, <1>9, <1>10, <1>11 DEF IInv

\* Control stays where it is: a task goes on, or its branches are drained.
LEMMA StayKeeps ==
  ASSUME ChainAssumption, IInv, TaskGoesOn \/ (TaskStops /\ mode' = "drain")
  PROVE  IInv'
<1> USE Where
<1>1. /\ mode \in {"yes", "no"} /\ level > base /\ doing[level] \in {"task", "resumed"}
      /\ \/ mode = "yes" /\ mode' = "run" /\ doing[level] = "task"
         \/ mode = "no" /\ mode' = "drain"
      /\ level \in Levels
      /\ UNCHANGED <<chainVars, level, item, doing, workVars, branchVars, result, seen, history, stopped>>
  BY DEF TaskGoesOn, TaskStops, Down, Answer, Working, branchVars, goroutines
<1>2. TypeOK'
  BY <1>1 DEF IInv, TypeOK, Top, Modes, chainVars, workVars, branchVars, goroutines, history
<1>3. Nesting'
  BY <1>1 DEF IInv, Nesting, Active, Working, chainVars
<1>4. Branching' /\ Emitting' /\ Stopping'
  BY <1>1 DEF IInv, Branching, Emitting, Stopping, chainVars, workVars, branchVars, goroutines
<1>5. Erring'
  BY <1>1 DEF IInv, Erring, chainVars, history
<1>6. Using'
  BY <1>1 DEF IInv, Erring, Using, ForTerminal, ForLevel, chainVars, history
<1> QED
  BY <1>2, <1>3, <1>4, <1>5, <1>6 DEF IInv

\* The terminal has a value.
LEMMA TakeKeeps ==
  ASSUME ChainAssumption, IInv, TakeState \/ TakeError
  PROVE  IInv'
<1> USE Where
<1>1. PICK answer \in {"yes", "no"} :
        Answer(answer) /\ (TakeState /\ answer = "no" => terminal \in {"First", "Stream"})
  BY DEF TakeState, TakeError
<1>2. /\ mode = "recv" /\ level = Top
      /\ UNCHANGED <<chainVars, item, doing, workVars, branchVars, history>>
  BY DEF TakeState, TakeError
<1>3. level > base /\ level - 1 = Len(chain)
  BY <1>2 DEF Top
<1>4. TypeOK'
  <2>1. level' \in base'..Top' /\ mode' \in Modes
    BY <1>1, <1>2, <1>3 DEF Answer, Top, Modes, chainVars
  <2>2. level > 1 => level - 1 \in Levels
    BY <1>3 DEF Levels, ChainAssumption
  <2>3. stopped' \in SUBSET Levels
    BY <1>1, <2>2 DEF IInv, TypeOK, Answer
  <2>4. seen' \in Nat /\ result' \in {"none", "ok", "error"}
    BY DEF IInv, TypeOK, TakeState, TakeError
  <2> QED
    BY <1>2, <2>1, <2>3, <2>4 DEF IInv, TypeOK, chainVars, workVars, branchVars, goroutines, history
<1>5. Nesting'
  <2>1. \A l \in Levels : Active(l)' <=> Active(l)
    BY <1>1, <1>2, <1>3 DEF Active, Working, Answer, Levels, chainVars
  <2> QED
    BY <1>1, <1>2, <1>3, <2>1 DEF IInv, Nesting, Working, Answer, chainVars
<1>6. Branching' /\ Emitting'
  BY <1>2 DEF IInv, Branching, Emitting, chainVars, workVars, branchVars, goroutines
<1>7. Stopping'
  BY <1>1, <1>2 DEF IInv, Stopping, Answer
<1>8. Erring'
  <2>1. CASE TakeState
    BY <1>1, <1>2, <2>1 DEF IInv, Erring, Answer, TakeState, chainVars, history
  <2>2. CASE TakeError
    BY <1>1, <1>2, <1>3, <2>2 DEF IInv, Erring, Answer, TakeError, chainVars, history
  <2> QED
    BY <2>1, <2>2
<1>9. Using'
  <2>1. ~ForTerminal' /\ \A l : ~ForLevel(l)'
    BY <1>1 DEF ForTerminal, ForLevel, Answer
  <2>2. \A l \in 1..(Len(chain) - 1) : ~ForLevel(l + 1)
    BY <1>2, <1>3 DEF ForLevel
  <2>3. final = seen'
    BY <1>2 DEF IInv, TypeOK, Using, ForTerminal, TakeState, TakeError
  <2>4. mode' \in {"yes", "no"}
    BY <1>1 DEF Answer
  <2>5. \A l \in 1..(Len(chain) - 1) : fed'[l] = begun'[l + 1] + 0
    BY <1>2, <2>2 DEF IInv, Using, history, chainVars
  <2>6. seen' \in Nat
    BY DEF IInv, TypeOK, TakeState, TakeError
  <2>7. CASE TakeState
    <3>1. ~raised /\ base = 0
      BY <1>2, <2>7 DEF IInv, Erring, TakeState
    <3>2. ~raised' /\ terminal' \in {"Collect", "Execute"} =>
            stopped' = {} /\ mode' \notin {"no", "drain"} /\ result' = "none"
      BY <1>1, <1>2, <2>7, <3>1 DEF IInv, Using, Answer, TakeState, chainVars, history
    <3> QED
      BY <1>2, <2>1, <2>3, <2>4, <2>5, <2>6, <3>1, <3>2 DEF IInv, Using, chainVars, history
  <2>8. CASE TakeError
    <3>1. raised /\ seen' = seen
      BY <1>2, <2>8 DEF IInv, Erring, TakeError
    <3> QED
      BY <1>2, <2>1, <2>3, <2>4, <2>5, <2>6, <3>1 DEF IInv, Using, chainVars, history
  <2> QED
    BY <2>7, <2>8
<1> QED
  BY <1>4, <1>5, <1>6, <1>7, <1>8, <1>9 DEF IInv

\* The terminal returns.
LEMMA ReturnKeeps ==
  ASSUME ChainAssumption, IInv, Return
  PROVE  IInv'
<1> USE Where
<1>1. /\ mode \in {"yes", "no"} /\ level = base /\ mode' = "over"
      /\ UNCHANGED <<chainVars, level, item, doing, workVars, branchVars, seen, history, stopped>>
  BY DEF Return
<1>2. /\ result' \in {"none", "ok", "error"}
      /\ result = "error" => result' = "error"
      /\ result = "none" /\ terminal = "Execute" => (result' = "ok" <=> seen = 1)
  <2>1. CASE result # "none"
    BY <2>1 DEF IInv, TypeOK, Return
  <2>2. CASE result = "none" /\ terminal = "Execute"
    <3>1. result' = ExecuteResult
      BY <2>2 DEF Return
    <3> QED
      BY <2>2, <3>1 DEF ExecuteResult
  <2>3. CASE result = "none" /\ terminal # "Execute"
    BY <2>3 DEF Return
  <2> QED
    BY <2>1, <2>2, <2>3
<1>3. TypeOK'
  BY <1>1, <1>2 DEF IInv, TypeOK, Top, Modes, chainVars, workVars, branchVars, goroutines, history
<1>4. Nesting'
  BY <1>1 DEF IInv, Nesting, Active, Working, Levels, chainVars
<1>5. Branching' /\ Emitting' /\ Stopping'
  BY <1>1 DEF IInv, Branching, Emitting, Stopping, chainVars, workVars, branchVars, goroutines
<1>6. Erring'
  BY <1>1, <1>2 DEF IInv, Erring, chainVars, history
<1>7. Using'
  <2>1. ~ForTerminal' /\ ~ForTerminal /\ \A l : ~ForLevel(l)' /\ ~ForLevel(l)
    BY <1>1 DEF ForTerminal, ForLevel
  <2> QED
    BY <1>1, <1>2, <2>1 DEF IInv, Using, chainVars, history
<1> QED
  BY <1>3, <1>4, <1>5, <1>6, <1>7 DEF IInv

\* The empty chain, before a terminal is called.
LEMMA InitHolds ==
  ASSUME ChainAssumption, Init
  PROVE  IInv
<1>1. TypeOK
  <2>1. chain \in Seq(Kinds) /\ Len(chain) = 0 /\ MaxLevels \in Nat
    BY DEF ChainAssumption, Init
  <2>2. base \in 0..Len(chain) /\ level \in base..Top /\ Len(chain) <= MaxLevels
    BY <2>1 DEF Init, Top
  <2>3. 0 \in 0..(MaxEmit + 1) /\ 0 \in 0..MaxEmit /\ 0 \in 0..Branches /\ 0 <= 0
    BY DEF ChainAssumption
  <2>4. /\ live \in [Levels -> 0..Branches] /\ sending \in [Levels -> 0..Branches]
        /\ \A l \in Levels : sending[l] <= live[l]
    BY <2>3 DEF Init
  <2> QED
    BY <2>1, <2>2, <2>3, <2>4 DEF Init, TypeOK, Modes, Doings, Items, AnError
<1>2. Nesting
  BY DEF Init, Nesting, Active, Working, Levels
<1>3. Branching /\ Emitting /\ Stopping /\ Erring
  BY DEF ChainAssumption, Init, Branching, Emitting, Stopping, Erring
<1>4. Using
  BY DEF Init, Using, ForTerminal, ForLevel, Levels
<1> QED
  BY <1>1, <1>2, <1>3, <1>4 DEF IInv

----------------------------------------------------------------------------
\* The invariant holds of every behaviour.
THEOREM Invariance == Spec => []IInv
<1>1. Init => IInv
  BY InitHolds, ChainAssumption
<1>2. IInv /\ [Next]_vars => IInv'
  <2> SUFFICES ASSUME IInv, [Next]_vars
               PROVE  IInv'
    OBVIOUS
  <2> USE ChainAssumption
  <2>1. ASSUME NEW kind \in Kinds, AppendLevel(kind)
        PROVE  IInv'
    BY <2>1, AppendKeeps
  <2>2. ASSUME NEW t \in Terminals, Call(t)
        PROVE  IInv'
    BY <2>2, CallKeeps
  <2>3. ASSUME NEW t \in Terminals, CallWithoutTasks(t)
        PROVE  IInv'
    BY <2>3, CallWithoutTasksKeeps
  <2>4. ASSUME NEW l \in Levels,
               BranchSends(l) \/ BranchGivesUp(l) \/ BranchEnds(l) \/ BranchFails(l)
        PROVE  IInv'
    BY <2>4, BranchKeeps
  <2>5. CASE EmitState \/ FailNonFatal \/ EmitGathered
    BY <2>5, EmittingKeeps
  <2>6. CASE FailFatal
    BY <2>6, FailingKeeps
  <2>7. CASE Gather \/ EndOfStates
    BY <2>7, FailingKeeps, GatherKeeps, DownActionsKeep
  <2>8. CASE ResumedEnds \/ AnswerTerminated \/ AnswerError \/ Drained
    BY <2>8, DownActionsKeep
  <2>9. CASE ReceiveState
    BY <2>9, ReceiveKeeps
  <2>10. CASE Relay
    BY <2>10, RelayKeeps
  <2>11. CASE TaskGoesOn
    BY <2>11, StayKeeps
  <2>12. CASE TaskStops \/ DrainState
    BY <2>12, StayKeeps, DownActionsKeep, DrainKeeps
  <2>13. CASE TakeState \/ TakeError
    BY <2>13, TakeKeeps
  <2>14. CASE Return
    BY <2>14, ReturnKeeps
  <2>15. CASE UNCHANGED vars
    BY <2>15 DEF vars, chainVars, workVars, branchVars, goroutines, history, IInv, TypeOK, Nesting, Active,
       Branching, Emitting, Stopping, Erring, Using, ForTerminal, ForLevel, Top
  <2> QED
    BY <2>1, <2>2, <2>3, <2>4, <2>5, <2>6, <2>7, <2>8, <2>9, <2>10, <2>11, <2>12, <2>13,
       <2>14, <2>15, Steps
<1> QED
  BY <1>1, <1>2, PTL DEF Spec

\* Values stay in their types.
THEOREM TypeCorrect == Spec => []TypeOK
<1>1. IInv => TypeOK
  BY DEF IInv
<1> QED BY <1>1, Invariance, PTL

\* Through any number of levels, nothing is yielded to a loop that has ended
\* (chainSingle, runTask, the parallel branch of appendLevel).
THEOREM StopsAreHeard == Spec => []NoYieldAfterStop
<1>1. IInv => NoYieldAfterStop
  BY DEF IInv, Stopping, NoYieldAfterStop
<1> QED BY <1>1, Invariance, PTL

\* Once an error was yielded no level is begun and nothing is yielded or arrives,
\* whatever the branches of levels below still do.
THEOREM ErrorsAreLast == Spec => ErrorIsLast
<1>1. IInv /\ [Next]_vars => [raised => UNCHANGED <<begun, final, fed, seen>>]_vars
  <2> SUFFICES ASSUME IInv, [Next]_vars, raised
               PROVE  UNCHANGED <<begun, final, fed, seen>>
    OBVIOUS
  <2> USE DEF IInv, Erring, chainVars, branchVars, goroutines, workVars, history, vars
  <2> QED
    BY Steps DEF AppendLevel, Call, CallWithoutTasks, BranchSends, BranchGivesUp, BranchEnds, BranchFails,
       EmitState, FailFatal, FailNonFatal, Gather, EmitGathered, EndOfStates, ReceiveState,
       Relay, TaskGoesOn, ResumedEnds, AnswerTerminated, AnswerError, TaskStops, DrainState,
       Drained, TakeState, TakeError, Return, Down, Answer
<1> QED BY <1>1, Invariance, PTL DEF Spec, ErrorIsLast

\* A clean Collect or Execute has used every state that was yielded, in chains of
\* any length.
THEOREM EverythingIsUsed == Spec => []NothingLost
<1>1. IInv => NothingLost
  <2> SUFFICES ASSUME IInv, mode = "over", result = "ok", terminal \in {"Collect", "Execute"}
               PROVE  /\ seen = final /\ stopped = {}
                      /\ \A l \in 1..(Len(chain) - 1) : begun[l + 1] = fed[l]
    BY DEF NothingLost
  <2>1. ~raised
    BY DEF IInv, Erring
  <2>2. seen = final /\ stopped = {}
    BY <2>1 DEF IInv, TypeOK, Using, ForTerminal
  <2>3. ASSUME NEW l \in 1..(Len(chain) - 1)
        PROVE  begun[l + 1] = fed[l]
    <3>1. l + 1 \in Levels
      BY <2>3, Where, ChainAssumption DEF Levels, ChainAssumption
    <3>2. begun[l + 1] \in Nat
      BY <3>1 DEF IInv, TypeOK
    <3> QED
      BY <3>2 DEF IInv, Using, ForLevel
  <2> QED
    BY <2>2, <2>3
<1> QED BY <1>1, Invariance, PTL

\* Execute succeeds exactly when the chain yields one state and no error.
THEOREM ExecuteIsExact == Spec => []ExecuteMeansOne
<1>1. IInv => ExecuteMeansOne
  BY DEF IInv, TypeOK, Erring, Using, ForTerminal, ExecuteMeansOne
<1> QED BY <1>1, Invariance, PTL

\* A level without tasks fails the chain, wherever it is.
THEOREM EmptyLevelsFail == Spec => []EmptyLevelFailsChain
<1>1. IInv => EmptyLevelFailsChain
  BY DEF IInv, TypeOK, Erring, Using, EmptyLevelFailsChain
<1> QED BY <1>1, Invariance, PTL

\* No branch outlives its level's loop.
THEOREM BranchesEnd == Spec => []NoBranchLeft
<1>1. IInv => NoBranchLeft
  BY DEF IInv, TypeOK, Levels, Nesting, Active, Working, Branching, NoBranchLeft
<1> QED BY <1>1, Invariance, PTL
=============================================================================
