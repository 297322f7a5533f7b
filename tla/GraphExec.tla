------------------------------ MODULE GraphExec ------------------------------
(***************************************************************************)
(* The execution of one GraphQL operation by the generated code:           *)
(* executableSchema.Exec, the object functions, the field resolvers and    *)
(* the marshallers of internal/graph/generated.go, over gqlgen's           *)
(* ResolveField, FieldSet and MarshalSliceConcurrently, of which the       *)
(* module keeps what the generated code relies on.  Positions below one    *)
(* whose value is never produced are never run.                            *)
(***************************************************************************)
EXTENDS GraphTree

VARIABLES
  stage,                \* of each node: not started, waiting for children, done
  value,                \* of each node that is done: null or not
  errors,               \* the nodes an error was added for (AddError with a path)
  response              \* what Exec returned first: its data, errors, hasNext

vars == <<tree, stage, value, errors, response>>

Pending == [data |-> "none", errors |-> {}, hasNext |-> FALSE]

-----------------------------------------------------------------------------
(* One position: graphql.ResolveField with the arguments of its            *)
(* fieldContext function, then the marshaller of its type.                 *)

Done(n) == stage[n] = "done"
Null(n) == Done(n) /\ value[n] = "null"

(* An object function calls its inline resolvers in order, then dispatches *)
(* the others together; a list starts all its elements; a deferred group   *)
(* starts when its object is complete and not null.                        *)
Ready(n) ==
  /\ stage[n] = "idle" /\ n # Root
  /\ IF Deferred(n) THEN Done(Parent(n)) /\ ~Null(Parent(n))
                    ELSE stage[Parent(n)] = "waiting"
  /\ \A m \in Kids(Parent(n)) : Inline(m) /\ (m < n \/ ~Inline(n)) => Done(m)

Settle(n, null) ==
  /\ stage' = [stage EXCEPT ![n] = "done"]
  /\ value' = [value EXCEPT ![n] = IF null THEN "null" ELSE "data"]

Resolve(n) ==
  /\ Ready(n)
  /\ IF Outcome(n) = "value" /\ IsComposite(n)
     THEN stage' = [stage EXCEPT ![n] = "waiting"] /\ UNCHANGED value
     ELSE Settle(n, Outcome(n) # "value")
  /\ errors' = IF AddsError(n) THEN errors \union {n} ELSE errors
  /\ UNCHANGED <<tree, response>>

(* FieldSet.Dispatch and MarshalSliceConcurrently wait for every value of  *)
(* the object or list, also after one of them was null.                    *)
Complete(n) ==
  /\ stage[n] = "waiting"
  /\ \A k \in Awaited(n) : Done(k)
  /\ Settle(n, \E k \in Awaited(n) : Counted(k) /\ Null(k))
  /\ UNCHANGED <<tree, errors, response>>

(* The response handler's first call, and the only one: the transports of  *)
(* newGraphQLHandler write one response and ask for no more, and nobody    *)
(* receives what a deferred group sends.                                   *)
HasDeferred == \E n \in Nodes : Deferred(n) /\ Done(Parent(n)) /\ ~Null(Parent(n))
(* Mutant: the response carries the errors of deferred groups too. *)
RespondWithAll ==
  /\ response.data = "none"
  /\ Done(Root)
  /\ response' = [data |-> value[Root], hasNext |-> HasDeferred, errors |-> errors]
  /\ UNCHANGED <<tree, stage, value, errors>>
Respond ==
  /\ response.data = "none"
  /\ Done(Root)
  /\ response' = [data |-> value[Root], hasNext |-> HasDeferred,
                  errors |-> {n \in errors : ~tree[n].late}]
  /\ UNCHANGED <<tree, stage, value, errors>>

Init ==
  /\ tree \in Operations
  /\ stage = [n \in Nodes |-> IF n = Root THEN "waiting" ELSE "idle"]
  /\ value = [n \in Nodes |-> "none"]
  /\ errors = {}
  /\ response = Pending

(* The first response was written and no goroutine has anything to do.     *)
Finished ==
  /\ response.data # "none"
  /\ \A n \in Nodes : ~Ready(n) /\ stage[n] # "waiting"
  /\ UNCHANGED vars

Step == Respond \/ \E n \in Nodes : Resolve(n) \/ Complete(n)
Next == Step \/ Finished

(* Goroutines run, and none of them waits for anything but the others.     *)
Spec == Init /\ [][Next]_vars /\ WF_vars(Step)

-----------------------------------------------------------------------------
(* Properties.                                                             *)

(* Every node of the tree has a stage, a value once it is done, at most    *)
(* one error, and the one response is empty until Exec returns it.         *)
TypeOK ==
  /\ tree \in Operations
  /\ stage \in [Nodes -> {"idle", "waiting", "done"}]
  /\ value \in [Nodes -> {"none", "null", "data"}]
  /\ \A n \in Nodes : Done(n) <=> value[n] # "none"
  /\ errors \subseteq Nodes
  /\ response \in [data : {"none", "null", "data"}, errors : SUBSET Nodes,
                   hasNext : BOOLEAN]

(* A position that is complete is null exactly when its own value failed   *)
(* or a position of it that the schema declares non-null is null: the      *)
(* Invalids counted by the object functions and the nulls a list looks     *)
(* for are the ones the schema asks for, in every order of completion.     *)
Propagation ==
  \A n \in Nodes : Done(n) =>
    (value[n] = "null" <=>
       \/ Outcome(n) # "value"
       \/ \E k \in Awaited(n) : Strict(k) /\ Null(k))

(* Nothing that the schema promises is lost without a word: where a        *)
(* non-null position is null, or a position lost what its resolver gave,   *)
(* an error was added, and for the positions of the first response it is   *)
(* an error of that response.                                              *)
NoSilentLoss ==
  /\ \A n \in Nodes : Null(n) /\ (Strict(n) \/ Outcome(n) = "value") =>
       \E e \in errors : tree[e].late => tree[n].late
  /\ response.data = "null" => response.errors # {}

(* When the response is returned every resolver of it has ended: no        *)
(* goroutine of a position that is not deferred is running or will start.  *)
Quiescent ==
  response.data # "none" =>
    \A n \in Nodes : ~tree[n].late => stage[n] # "waiting" /\ ~Ready(n)

(* The executor implements the answer the schema defines, whatever the     *)
(* order in which goroutines start and end, and it does answer.            *)
Answer == INSTANCE GraphAnswer
AnswersBySchema == Answer!Spec
=============================================================================
