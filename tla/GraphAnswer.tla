----------------------------- MODULE GraphAnswer -----------------------------
(***************************************************************************)
(* What a client may rely on: an operation is answered, once, and the      *)
(* answer is a function of what the resolvers gave.  The rules are those   *)
(* of the GraphQL specification, read off the nullability of the schema    *)
(* (the types the marshallers stand for) and of nothing else.              *)
(***************************************************************************)
EXTENDS GraphTree

VARIABLE response

(* A position is lost when it has no value, or when the null of a position *)
(* below it that may not be null reaches it.                               *)
Lost[n \in Nodes] ==
  Outcome(n) # "value" \/ \E k \in Awaited(n) : Strict(k) /\ Lost[k]

(* A resolver is called when everything above it gave a value.             *)
Reached[n \in Nodes] ==
  n = Root \/ (Reached[Parent(n)] /\ Outcome(Parent(n)) = "value")

Pending == [data |-> "none", errors |-> {}, hasNext |-> FALSE]
Reply ==
  [data |-> IF Lost[Root] THEN "null" ELSE "data",
   errors |-> {n \in Nodes : Reached[n] /\ AddsError(n) /\ ~tree[n].late},
   hasNext |-> \E n \in Nodes : n # Root /\ Deferred(n) /\ Reached[n] /\ ~Lost[Parent(n)]]

Init == tree \in Operations /\ response = Pending
Next == response = Pending /\ response' = Reply /\ UNCHANGED tree

(* The answer, and that there is one. *)
SafeSpec == Init /\ [][Next]_<<tree, response>>
Spec == SafeSpec /\ WF_<<tree, response>>(Next)
=============================================================================
