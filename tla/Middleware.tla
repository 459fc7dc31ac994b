----------------------------- MODULE Middleware -----------------------------
(***************************************************************************)
(* WithTimeout and WithRetry (src/workflow/task.go) around a task that     *)
(* makes an HTTP request: a SimpleTask that calls Do, or a                 *)
(* MultiValuedTask that calls DoStream and yields what it reads.           *)
(*                                                                         *)
(* The wrappers are layers around the task, the outermost first.  A        *)
(* timeout layer has a context of its own below it; a retry layer has its  *)
(* loop.  The goroutine goes down through the layers, runs the task, and   *)
(* comes up with its result.                                               *)
(***************************************************************************)
EXTENDS HttpClient, Integers, Sequences

CONSTANTS
  Wrappings,   \* sequences of "timeout" and "retry", as they may be applied
  MaxLayers,   \* bound: their greatest length
  Attempts     \* the attempts of every WithRetry, at least 2

ASSUME MiddlewareAssumption ==
  /\ MaxLayers \in Nat
  /\ \A w \in Wrappings : w \in Seq({"timeout", "retry"}) /\ Len(w) <= MaxLayers
  /\ Attempts \in Nat /\ Attempts >= 2

VARIABLES
  layers,    \* the layers around the task of this call
  multi,     \* whether the task is a MultiValuedTask
  wPc,       \* where the goroutine is, see Places
  depth,     \* the layer it is in; Len(layers) + 1 is the task
  attempt,   \* attempt[d]: the loop variable of retry layer d
  timer,     \* timer[d]: off, armed or fired, of timeout layer d
  caller,    \* the caller's context: none, deadline or cancelled
  tries,     \* (history) how often the task was run in this call
  late,      \* (history) how often it was run with the caller's context done
  cut        \* (history) whether a timeout above a retry layer has fired

wrapVars == <<layers, multi, wPc, depth, attempt, timer, caller, tries, late, cut>>
taskVars == <<reqVars, wrapVars>>

Layers == 1..MaxLayers
Places == {"idle", "down", "request", "stream", "yield", "up"}

TaskInit ==
  /\ ReqInit
  /\ layers = <<>> /\ multi = FALSE
  /\ wPc = "idle" /\ depth = 0
  /\ attempt = [d \in Layers |-> 0]
  /\ timer = [d \in Layers |-> "off"]
  /\ caller = "none"
  /\ tries = 0 /\ late = 0 /\ cut = FALSE

RetryLayers == {d \in DOMAIN layers : layers[d] = "retry"}

----------------------------------------------------------------------------
(* Slips that would be easy to make in this code, one for each property the *)
(* run checks.  None is part of the specification.                          *)

\* WithTimeout runs the task with its own context, not with the one that has a timer.
ReasonsOfCaller(d) == {caller} \ {"none"}

\* WithRetry does not look at the context between the attempts.
NextTryUnchecked(d) ==
  /\ layers[d] = "retry"
  /\ depth' = d + 1
  /\ UNCHANGED <<wPc, attempt, timer, outcome>>

\* WithRetry counts its attempts from one.
TryAgainOffByOne(d) == attempt[d] + 2 < Attempts

----------------------------------------------------------------------------
\* Why the context below the layers 1..d is done, if it is: the caller's is, or one
\* of the timers between.
Reasons(d) ==
  ({caller} \ {"none"}) \cup
  (IF \E e \in 1..d : timer[e] = "fired" THEN {"deadline"} ELSE {})

\* A level of the chain runs the task: WithTimeout wraps both flavors, and WithRetry
\* returns a MultiValuedTask as it is, so that it is no layer of one.  The context may
\* be done already.
Begin ==
  /\ wPc = "idle"
  /\ layers' \in Wrappings
  /\ multi' \in BOOLEAN
  /\ multi' => \A d \in DOMAIN layers' : layers'[d] = "timeout"
  /\ caller' \in {"none", "deadline", "cancelled"}
  /\ wPc' = "down" /\ depth' = 1
  /\ UNCHANGED <<reqVars, attempt, timer, tries, late, cut>>

\* WithTimeout: context.WithTimeout.
Arm(d) ==
  /\ layers[d] = "timeout"
  /\ timer' = [timer EXCEPT ![d] = "armed"]
  /\ depth' = d + 1
  /\ UNCHANGED <<wPc, attempt, outcome>>

\* WithRetry: ctx.Err() before every attempt, the first one too.
NextTry(d) ==
  /\ layers[d] = "retry"
  /\ IF Reasons(d) # {}
     THEN /\ wPc' = "up" /\ depth' = d - 1
          /\ attempt' = [attempt EXCEPT ![d] = 0]
          /\ outcome' = "RequestError"   \* the context's error: not an answer
     ELSE depth' = d + 1 /\ UNCHANGED <<wPc, attempt, outcome>>
  /\ UNCHANGED timer

Down ==
  /\ wPc = "down" /\ depth \in DOMAIN layers
  /\ Arm(depth) \/ NextTry(depth)
  /\ UNCHANGED <<reqPc, stream, bad, body, layers, multi, caller, tries, late, cut>>

\* The task itself: Run calls Do, the body of Stream calls DoStream.
RunTask ==
  /\ wPc = "down" /\ depth = Len(layers) + 1
  /\ ReqBegin(multi)
  /\ wPc' = "request"
  /\ tries' = tries + 1
  /\ late' = IF caller # "none" THEN late + 1 ELSE late
  /\ UNCHANGED <<layers, multi, depth, attempt, timer, caller, cut>>

\* The request ends: a SimpleTask returns, a stream goes on to read the body.
RequestEnds ==
  /\ wPc = "request" /\ reqPc = "ended"
  /\ reqPc' = "none"
  /\ IF multi /\ outcome = "ok"
     THEN wPc' = "stream" /\ UNCHANGED depth
     ELSE wPc' = "up" /\ depth' = depth - 1
  /\ UNCHANGED <<stream, bad, body, outcome, layers, multi, attempt, timer, caller,
                 tries, late, cut>>

\* The stream is over: the task closes the body and returns.
StreamEnds(o) ==
  /\ body' = FALSE
  /\ outcome' = o
  /\ wPc' = "up" /\ depth' = depth - 1
  /\ UNCHANGED <<reqPc, stream, bad, layers, multi, attempt, timer, caller, tries, late, cut>>

\* An item arrives, one of any number, and goes to the reader, through every layer's yield.
Yield ==
  /\ wPc = "stream"
  /\ wPc' = "yield"
  /\ UNCHANGED <<reqVars, layers, multi, depth, attempt, timer, caller, tries, late, cut>>

EndOfStream == wPc = "stream" /\ \E o \in {"ok", "RequestError"} : StreamEnds(o)

\* The read fails because the context is done.
StreamInterrupted ==
  wPc = "stream" /\ Reasons(Len(layers)) # {} /\ StreamEnds("RequestError")

\* The reader takes its time with an item, and then wants the next, or no more.
ReaderReturns ==
  /\ wPc = "yield"
  /\ \/ /\ wPc' = "stream"
        /\ UNCHANGED <<reqVars, layers, multi, depth, attempt, timer, caller,
                       tries, late, cut>>
     \/ StreamEnds("ok")

\* Whether the loop of retry layer d goes on after a failure.
TryAgain(d) == attempt[d] + 1 < Attempts

\* The result comes up to layer d: a timeout cancels its context, a retry returns a
\* success and the last failure.
LeaveLayer(d) ==
  \/ /\ layers[d] = "timeout"
     /\ timer' = [timer EXCEPT ![d] = "off"]
     /\ depth' = d - 1
     /\ UNCHANGED <<wPc, attempt>>
  \/ /\ layers[d] = "retry" /\ (outcome = "ok" \/ ~TryAgain(d))
     /\ attempt' = [attempt EXCEPT ![d] = 0]
     /\ depth' = d - 1
     /\ UNCHANGED <<wPc, timer>>
  \/ /\ layers[d] = "retry" /\ outcome # "ok" /\ TryAgain(d)
     /\ attempt' = [attempt EXCEPT ![d] = @ + 1]
     /\ wPc' = "down"
     /\ UNCHANGED <<depth, timer>>

Up ==
  /\ wPc = "up" /\ depth > 0
  /\ LeaveLayer(depth)
  /\ UNCHANGED <<reqVars, layers, multi, caller, tries, late, cut>>

\* The outermost wrapper has returned; the next call starts afresh.
Return ==
  /\ wPc = "up" /\ depth = 0
  /\ wPc' = "idle"
  /\ layers' = <<>> /\ multi' = FALSE
  /\ stream' = FALSE /\ bad' = FALSE /\ outcome' = "ok"
  /\ caller' = "none"
  /\ tries' = 0 /\ late' = 0 /\ cut' = FALSE
  /\ UNCHANGED <<reqPc, body, depth, attempt, timer>>

----------------------------------------------------------------------------
(* The world: the server, and time. *)

Request(e) == wPc = "request" /\ e /\ UNCHANGED wrapVars

Server == Request(Answered)

Interrupt == \E r \in Reasons(Len(layers)) : Request(Interrupted(r))

CallerDone ==
  /\ wPc # "idle" /\ caller = "none"
  /\ caller' \in {"deadline", "cancelled"}
  /\ UNCHANGED <<reqVars, layers, multi, wPc, depth, attempt, timer, tries, late, cut>>

TimerFires(d) ==
  /\ timer[d] = "armed"
  /\ timer' = [timer EXCEPT ![d] = "fired"]
  /\ cut' = (cut \/ \E e \in RetryLayers : e > d)
  /\ UNCHANGED <<reqVars, layers, multi, wPc, depth, attempt, caller, tries, late>>

Step == Down \/ RunTask \/ Request(PrepareRequest) \/ RequestEnds \/ ReaderReturns \/ Up \/ Return

TaskNext ==
  \/ Begin \/ Step \/ Server \/ Interrupt
  \/ Yield \/ EndOfStream \/ StreamInterrupted
  \/ CallerDone \/ \E d \in Layers : TimerFires(d)

TaskSpec == TaskInit /\ [][TaskNext]_taskVars

\* What happens by itself: the code runs, the reader returns from an item, timers
\* fire, and a context that is done ends a request or a read.  A stream that is longer
\* than what has arrived before its context was done comes to a read that fails, and
\* the task ends with it.  The server and the caller's context owe nothing.
TaskFairness ==
  /\ WF_taskVars(Step \/ Interrupt \/ StreamInterrupted)
  /\ SF_taskVars(StreamInterrupted)
  /\ \A d \in Layers : WF_taskVars(TimerFires(d))

TaskFairSpec == TaskSpec /\ TaskFairness

----------------------------------------------------------------------------
(* Properties. *)

\* Nothing is held across attempts and calls: no answer's body is left open when its
\* request is over (DoStream's belongs to the task), and no timer when its layer is.
NothingHeld ==
  /\ body => (wPc = "request" /\ reqPc # "prepare") \/ wPc \in {"stream", "yield"}
  /\ \A d \in Layers : timer[d] # "off" => d \in DOMAIN layers /\ d <= depth

\* How often the task below the layers 1..d is run when nothing succeeds and nothing is
\* cut short: the product of the attempts of the retry layers among the others.
Runs[d \in 0..Len(layers)] ==
  IF d = Len(layers) THEN 1
  ELSE IF layers[d + 1] = "retry" THEN Attempts * Runs[d + 1]
  ELSE Runs[d + 1]

\* However retries are nested with each other and with timeouts, a call that fails has
\* used all its attempts, unless the caller's context or a timeout outside of a retry
\* ended it; a timeout inside of one does not.
GivesUpOnlyWhenTold ==
  /\ tries <= Runs[0]
  /\ wPc = "up" /\ depth = 0 /\ outcome # "ok" =>
       tries = Runs[0] \/ caller # "none" \/ cut

\* Once the caller's context is done, a task is run at most once more, whatever retries
\* surround it (the context may end between the look at it and the run).
RetryStops == late <= 1

\* When a timeout fires or the caller's context ends, the call returns, though the
\* server is silent, the reader slow, the stream without end, and attempts are left.
TimeoutBounds ==
  /\ \A d \in Layers : timer[d] = "fired" ~> timer[d] = "off"
  /\ caller # "none" ~> wPc = "idle"
=============================================================================
