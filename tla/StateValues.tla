---------------------------- MODULE StateValues ----------------------------
(***************************************************************************)
(* What State and Builder promise (src/workflow/state.go): a State is a    *)
(* value.  Deriving a state from another, building on, or changing a map   *)
(* that a state has handed out changes nothing but its own result.         *)
(***************************************************************************)
CONSTANTS Handles, Names, Values, TerminatedKey, Missing

VARIABLES
  state,    \* state[h]: the values of the state that variable h holds
  builder,  \* the values of the builder
  given,    \* the values of the map that State.Values returned last
  panicked  \* whether the program has panicked

vars == <<state, builder, given, panicked>>

AllNames == Names \cup {TerminatedKey}
Empty   == [k \in AllNames |-> Missing]

Init ==
  /\ state = [h \in Handles |-> Empty]
  /\ builder = Empty
  /\ given = Empty
  /\ panicked = FALSE

\* Of the values u, v and w have for a key, the last.
LastOf(u, v, w) ==
  [k \in AllNames |-> IF w[k] # Missing THEN w[k] ELSE IF v[k] # Missing THEN v[k] ELSE u[k]]

\* The state in h becomes v: empty, another state, what was built or merged.
Assign(h, v) ==
  /\ state' = [state EXCEPT ![h] = v]
  /\ UNCHANGED <<builder, given, panicked>>

Rebuild(b) == builder' = b /\ UNCHANGED <<state, given, panicked>>

Hand(g) == given' = g /\ UNCHANGED <<state, builder, panicked>>

\* Only the empty state cannot be terminated: that panics.
Terminate(h, g) ==
  \/ /\ state[h] # Empty
     /\ Assign(g, [state[h] EXCEPT ![TerminatedKey] = TRUE])
  \/ /\ state[h] = Empty
     /\ panicked' = TRUE
     /\ UNCHANGED <<state, builder, given>>

Next ==
  /\ ~panicked
  /\ \/ \E h, g \in Handles :
          \/ Assign(h, Empty) \/ Assign(h, state[g]) \/ Assign(h, builder)
          \/ Terminate(h, g) \/ Rebuild(state[h]) \/ Hand(state[h])
     \/ \E e, f, g, h \in Handles : Assign(h, LastOf(state[e], state[f], state[g]))
     \/ Rebuild(Empty) \/ Rebuild(LastOf(Empty, builder, given))
     \/ \E k \in Names, v \in Values :
          Rebuild([builder EXCEPT ![k] = v]) \/ Hand([given EXCEPT ![k] = v])

Spec == Init /\ [][Next]_vars
=============================================================================
