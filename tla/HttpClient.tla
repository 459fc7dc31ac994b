----------------------------- MODULE HttpClient -----------------------------
(***************************************************************************)
(* One call of the HTTP client (src/httpclient/httpclient.go) at a time:   *)
(* Do reads the whole answer, DoStream hands its body to the caller.  The  *)
(* server may refuse, break off, or fall silent for ever; the timeouts of  *)
(* RequestOptions are not used, only the context ends a call.  What the    *)
(* context says is a parameter of the actions: "none" while it is live.    *)
(***************************************************************************)
VARIABLES
  reqPc,    \* where the call is, see ReqPlaces
  stream,   \* whether it is a DoStream
  bad,      \* whether the answer's status is 400 or more
  body,     \* whether the body of an answer is open
  outcome   \* how the call ended, see Outcomes

reqVars == <<reqPc, stream, bad, body, outcome>>

ReqPlaces == {"none", "prepare", "send", "read", "drain", "ended"}
\* The error values by their type; ok is no error.
Outcomes  == {"ok", "TimeoutError", "RequestError", "StatusError"}

ReqInit ==
  /\ reqPc = "none"
  /\ stream = FALSE
  /\ bad = FALSE
  /\ body = FALSE
  /\ outcome = "ok"

ReqBegin(isStream) ==
  /\ reqPc' = "prepare"
  /\ stream' = isStream
  /\ UNCHANGED <<bad, body, outcome>>

\* The call returns; only a DoStream leaves the body open.
ReqEnd(o, open) ==
  /\ reqPc' = "ended"
  /\ outcome' = o
  /\ body' = open
  /\ UNCHANGED stream

----------------------------------------------------------------------------
(* A slip: DoStream returns a StatusError without closing the body.  It is  *)
(* not part of the specification.                                           *)

DrainUnclosed ==
  /\ reqPc = "drain"
  /\ ReqEnd("StatusError", TRUE)
  /\ UNCHANGED bad

----------------------------------------------------------------------------
\* prepareRequest: the request's body cannot be marshalled, its URL is not one, or ...
PrepareRequest ==
  /\ reqPc = "prepare"
  /\ \/ ReqEnd("RequestError", FALSE)
     \/ reqPc' = "send" /\ UNCHANGED <<stream, body, outcome>>
  /\ UNCHANGED bad

\* h.client.Do fails: by the context, or in the network (where the operating system
\* may time out by itself).
SendFails(ctxErr) ==
  /\ reqPc = "send"
  /\ \E o \in {"TimeoutError", "RequestError"} :
       /\ ctxErr = "deadline" => o = "TimeoutError"
       /\ ctxErr = "cancelled" => o = "RequestError"
       /\ ReqEnd(o, FALSE)
  /\ UNCHANGED bad

\* h.client.Do returns with the answer's header.
Header ==
  /\ reqPc = "send"
  /\ bad' \in BOOLEAN
  /\ IF stream /\ ~bad'
     THEN ReqEnd("ok", TRUE)
     ELSE /\ reqPc' = IF stream THEN "drain" ELSE "read"
          /\ body' = TRUE
          /\ UNCHANGED <<stream, outcome>>

\* io.ReadAll fails in Do, by the context or not: never a TimeoutError.
ReadFails ==
  /\ reqPc = "read"
  /\ ReqEnd("RequestError", FALSE)
  /\ UNCHANGED bad

\* Do has the whole body; what is no JSON of the ResponseModel is an error.
ReadAll ==
  /\ reqPc = "read"
  /\ \E o \in IF bad THEN {"StatusError"} ELSE {"ok", "RequestError"} : ReqEnd(o, FALSE)
  /\ UNCHANGED bad

\* DoStream reads the body of a bad answer, as far as it comes, and closes it.
Drain ==
  /\ reqPc = "drain"
  /\ ReqEnd("StatusError", FALSE)
  /\ UNCHANGED bad

\* What a context that is done makes fail, by itself.
Interrupted(ctxErr) ==
  /\ ctxErr # "none"
  /\ SendFails(ctxErr) \/ ReadFails \/ Drain

\* What takes the server or the network to happen.
Answered == SendFails("none") \/ Header \/ ReadFails \/ ReadAll \/ Drain
=============================================================================
