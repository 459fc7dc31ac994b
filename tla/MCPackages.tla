----------------------------- MODULE MCPackages -----------------------------
(***************************************************************************)
(* The packages that do not use one another, each with its own properties, *)
(* checked in one run: a behaviour is one of a program that uses one of    *)
(* them, and the others stay as they begin.                                *)
(*                                                                         *)
(* Three maps for two states, a builder and a given map: two of them share *)
(* one whenever they can, and sharing is between two.                      *)
(***************************************************************************)
EXTENDS State, ConsulClient, Middleware, LockerStriped, TLC

VARIABLE part   \* the package in use

Parts == {"state", "consul", "tasks", "striped"}

PartsInit ==
  /\ part \in Parts
  /\ Init /\ ConsulInit /\ TaskInit /\ StripedInit
  /\ part # "consul" => ~profile
  /\ part # "striped" => \A f, g \in Keys : slot[f] = slot[g] /\ slot[f] = CHOOSE s \in Slots : TRUE

PartsNext ==
  /\ UNCHANGED part
  /\ \/ part = "state" /\ Next /\ UNCHANGED <<consulVars, taskVars, stripedVars>>
     \/ part = "consul" /\ ConsulNext /\ UNCHANGED <<vars, taskVars, stripedVars>>
     \/ part = "tasks" /\ TaskNext /\ UNCHANGED <<vars, consulVars, stripedVars>>
     \/ part = "striped" /\ StripedNext /\ UNCHANGED <<vars, consulVars, taskVars>>

\* What is fair is never enabled in a package that is not in use.
PartsSpec ==
  /\ PartsInit
  /\ [][PartsNext]_<<part, vars, consulVars, taskVars, stripedVars>>
  /\ TaskFairness /\ StripedFairness

----------------------------------------------------------------------------
(* Constants. *)

\* Documents that both have maps: under x two that are merged, under y two of which
\* one has a key that is no string.
MCDocuments ==
  {Absent, Invalid,
   Doc("x" :> Doc("x" :> Leaf("u")) @@ "y" :> Doc("x" :> Leaf("u"))),
   Doc("x" :> Doc("y" :> Leaf("v")) @@ "y" :> Doc("404" :> Leaf("v")))}

\* All documents of depth 1 with one leaf everywhere: in a merge each shows by its leaf
\* which of the two it comes from.
DocumentsOf(v) ==
  LET maps(nodes, keys) == UNION {[S -> nodes] : S \in SUBSET keys}
  IN  {Doc(m) : m \in maps({Leaf(v)} \cup {Doc(n) : n \in maps({Leaf(v)}, Fields)}, Strings)}
MCMerges == ({Invalid} \cup DocumentsOf("u")) \X ({Invalid} \cup DocumentsOf("v"))

\* No template, one, and two of which one needs the other to have left nothing behind.
MCRequests == {<<>>, <<"t1">>, <<"t1", "t2">>}

\* All ways of wrapping a task up to three times.
MCWrappings == UNION {[1..n -> {"timeout", "retry"}] : n \in 0..MaxLayers}
=============================================================================
