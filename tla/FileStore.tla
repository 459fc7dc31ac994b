----------------------------- MODULE FileStore -----------------------------
(***************************************************************************)
(* What a file.Handler (src/file/file.go) promises to its callers: every   *)
(* name holds a sequence of chunks or no file, a call that succeeds takes  *)
(* effect at one moment between its beginning and its end, and a call that *)
(* fails may leave a part of its data behind.  DeleteAll alone is no such  *)
(* moment: it removes the files one after the other, and a call that runs  *)
(* meanwhile may find its file gone.                                       *)
(***************************************************************************)
EXTENDS Naturals, Sequences

CONSTANTS Procs, Calls, Names, None

VARIABLES
  file,    \* file[n]: the chunks of n, or None
  stage,   \* stage[p]: idle, called, looked (a reader has seen its file) or done
  call,    \* call[p]: the call of p, or None
  answer,  \* answer[p]: what p's Read or Copy has seen
  result,  \* result[p]: ok or err, once done
  undone   \* the calls whose file was removed by DeleteAll under their hands

vars == <<file, stage, call, answer, result, undone>>

Readers == {"read", "copy"}
Writers == {"write", "append", "clear"}

Init ==
  /\ file = [n \in Names |-> None]
  /\ stage = [p \in Procs |-> "idle"]
  /\ call = [p \in Procs |-> None]
  /\ answer = [p \in Procs |-> None]
  /\ result = [p \in Procs |-> None]
  /\ undone = {}

Begin(p) ==
  /\ stage[p] = "idle"
  /\ stage' = [stage EXCEPT ![p] = "called"]
  /\ \E c \in Calls : call' = [call EXCEPT ![p] = c]
  /\ UNCHANGED <<file, answer, result, undone>>

\* A mutator makes a file that does not exist before it writes to it.
Make(p) ==
  /\ stage[p] = "called" /\ call[p].op \in Writers
  /\ file[call[p].name] = None
  /\ file' = [file EXCEPT ![call[p].name] = <<>>]
  /\ UNCHANGED <<stage, call, answer, result, undone>>

Prefixes(s) == {SubSeq(s, 1, i) : i \in 0..Len(s)}

\* The contents that call c may leave behind when it ends with result r.
Outcomes(c, old, r) ==
  CASE c.op = "write"  -> IF r = "ok" THEN {c.data} ELSE {old} \cup Prefixes(c.data)
    [] c.op = "append" -> LET was == IF old = None THEN <<>> ELSE old IN
                          IF r = "ok" THEN {was \o c.data}
                          ELSE {old} \cup {was \o s : s \in Prefixes(c.data)}
    [] c.op = "clear"  -> IF r = "ok" THEN {<<>>} ELSE {old}
    [] c.op = "delete" -> IF r = "ok" THEN {None} ELSE {old}
    [] c.op = "create" -> IF r = "ok" /\ old = None THEN {<<>>} ELSE {old}

End(p, r) ==
  /\ stage' = [stage EXCEPT ![p] = "done"]
  /\ result' = [result EXCEPT ![p] = r]
  /\ undone' = undone \ {p}
  /\ UNCHANGED call

\* Write, Append, Clear, Delete and CreateIfNotExists take effect.
Change(p, r) ==
  /\ stage[p] = "called" /\ call[p].op \in Writers \cup {"delete", "create"}
  /\ IF p \in undone
     THEN UNCHANGED file
     ELSE \E d \in Outcomes(call[p], file[call[p].name], r) :
            file' = [file EXCEPT ![call[p].name] = d]
  /\ End(p, r)
  /\ UNCHANGED answer

\* Read and Copy see the file as it is at one moment ...
Look(p) ==
  /\ stage[p] = "called" /\ call[p].op \in Readers
  /\ stage' = [stage EXCEPT ![p] = "looked"]
  /\ answer' = [answer EXCEPT ![p] = file[call[p].name]]
  /\ UNCHANGED <<file, call, result, undone>>

\* ... and return that: an absent file is an error to Read, and nothing to copy to Copy.
Answer(p) ==
  /\ stage[p] = "looked"
  /\ call[p].op = "read" => answer[p] # None
  /\ End(p, "ok")
  /\ UNCHANGED <<file, answer>>

GiveUp(p) ==
  /\ stage[p] \in {"called", "looked"} /\ call[p].op \in Readers
  /\ End(p, "err")
  /\ answer' = [answer EXCEPT ![p] = None]
  /\ UNCHANGED file

\* DeleteAll removes a file, perhaps under the hands of calls that write to it.
Remove(p, n) ==
  /\ stage[p] = "called" /\ call[p].op = "deleteall"
  /\ file' = [file EXCEPT ![n] = None]
  /\ \E hit \in SUBSET {q \in Procs : stage[q] = "called" /\ call[q].op \in Writers
                                       /\ call[q].name = n} :
       undone' = undone \cup hit
  /\ UNCHANGED <<stage, call, answer, result>>

\* DeleteAll ends, and without an error only if there was a moment without files.
AllGone(p, r) ==
  /\ stage[p] = "called" /\ call[p].op = "deleteall"
  /\ r = "ok" => \A n \in Names : file[n] = None
  /\ End(p, r)
  /\ UNCHANGED <<file, answer>>

Return(p) ==
  /\ stage[p] = "done"
  /\ stage' = [stage EXCEPT ![p] = "idle"]
  /\ call' = [call EXCEPT ![p] = None]
  /\ answer' = [answer EXCEPT ![p] = None]
  /\ result' = [result EXCEPT ![p] = None]
  /\ UNCHANGED <<file, undone>>

Next ==
  \E p \in Procs :
    \/ Begin(p) \/ Make(p) \/ Look(p) \/ Answer(p) \/ GiveUp(p) \/ Return(p)
    \/ \E r \in {"ok", "err"} : Change(p, r) \/ AllGone(p, r)
    \/ \E n \in Names : Remove(p, n)

Spec == Init /\ [][Next]_vars
=============================================================================
