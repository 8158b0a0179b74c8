--------------------------- MODULE SnapshotReader ---------------------------
(***************************************************************************)
(* What a pair of variable contexts promises: the owner goes through a     *)
(* sequence of states, each a value for every variable it has registered,  *)
(* and the variables of the reader are, at every moment, one of them.      *)
(* They never mix two states and never go back.                            *)
(***************************************************************************)
EXTENDS Naturals, Sequences

CONSTANT State

VARIABLES
  published,  \* the states of the owner, in order
  seen,       \* the place of the one that the reader has
  view        \* what the reader has

vars == <<published, seen, view>>

Init ==
  /\ published = <<<<>>>>
  /\ seen = 1
  /\ view = <<>>

Publish ==
  /\ published' \in Seq(State)
  /\ Len(published') > Len(published)
  /\ \A i \in 1..Len(published) : published'[i] = published[i]
  /\ UNCHANGED <<seen, view>>

Observe ==
  /\ seen < Len(published)
  /\ seen' = seen + 1
  /\ view' = published[seen']
  /\ UNCHANGED published

Next == Publish \/ Observe

Spec == Init /\ [][Next]_vars
=============================================================================
