------------------------------ MODULE GraphTree ------------------------------
(***************************************************************************)
(* One GraphQL operation: the tree of the positions of its answer in       *)
(* preorder, that is the query itself, the selected fields of each object  *)
(* and the elements of each list.  A node names its field (an element, the *)
(* field of its list) and says what its resolver gives there: a value,     *)
(* nil, an error or a panic; which of its arguments cannot be converted;   *)
(* whether it lies under @defer.                                           *)
(***************************************************************************)
EXTENDS Naturals, Sequences, GraphSchema

CONSTANT Operations     \* the trees executed
VARIABLE tree           \* the one of this request

-----------------------------------------------------------------------------
Nodes == DOMAIN tree
Root == 1
Parent(n) == tree[n].parent
Field(n) == Schema[tree[n].on][tree[n].name]
Kids(n) == {k \in Nodes : Parent(k) = n}

IsList(n) == Field(n).list /\ ~tree[n].element
IsComposite(n) == Field(n).list \/ Field(n).of # "scalar"
Strict(n) == Field(n).strict \/ tree[n].element

(* _CloudEvent puts a null in the place of a deferred field and resolves   *)
(* it in the group of its label, after the object.                         *)
Deferred(n) == tree[n].late /\ ~tree[Parent(n)].late

(* Mutant: a list does not look for nulls among its elements. *)
CountedFields(n) == ~tree[n].element /\ tree[n].name \in Required[tree[n].on]

(* A null here is counted: in the object's Invalids, or by the list.       *)
Counted(n) == tree[n].element \/ tree[n].name \in Required[tree[n].on]

Inline(n) == ~tree[n].element /\ tree[n].name \notin Spawned(tree[n].on)

(* What a resolver can do: the Query resolvers fail, the latest ones find  *)
(* no row, the fields of an event are read from memory.  A zero time is    *)
(* marshalled as null, an absent string as the empty one.                  *)
MayGive(node) ==
  CASE node.element \/ node.name = "dataUrl" -> {"value"}
    [] node.on = "Query" /\ node.name \in QueryRequired ->
         {"value", "error", "panic"}
    [] node.on = "Query" -> {"value", "nil", "error", "panic"}
    [] node.on = "CloudEventHeader" ->
         IF node.name = "time" THEN {"value", "nil"} ELSE {"value"}
    [] OTHER -> IF Schema[node.on][node.name].strict THEN {"value"}
                                                     ELSE {"value", "nil"}

IsOperation(t) ==
  /\ Len(t) \in Nat \ {0} /\ DOMAIN t = 1..Len(t)
  /\ t[1] = [parent |-> 0, on |-> "Operation", name |-> "query",
             element |-> FALSE, gives |-> "value", bad |-> {}, late |-> FALSE]
  /\ \A n \in 2..Len(t) :
       LET node == t[n]
           up == t[node.parent]
           upper == Schema[up.on][up.name]
       IN  /\ node.parent \in 1..(n - 1)
           /\ node.on \in DOMAIN Schema
           /\ node.name \in DOMAIN Schema[node.on]
           /\ node.element \in BOOLEAN /\ node.late \in BOOLEAN
           /\ node.gives \in MayGive(node)
           /\ node.bad \subseteq Arguments(node.on, node.name)
           /\ up.late => node.late
           /\ node.late /\ ~up.late =>
                node.on = "CloudEvent" /\ node.name \in Spawned("CloudEvent")
           /\ IF node.element
              THEN upper.list /\ ~up.element /\ node.on = up.on /\ node.name = up.name
              ELSE (~upper.list \/ up.element) /\ node.on = upper.of

ASSUME OperationsAssumption == \A t \in Operations : IsOperation(t)

-----------------------------------------------------------------------------
(* The first argument that cannot be converted ends the field with an      *)
(* error before its resolver is called; a panic is recovered into one.     *)
Outcome(n) ==
  IF tree[n].bad # {} \/ tree[n].gives = "panic" THEN "error"
  ELSE tree[n].gives

(* Mutant: the marshallers add no error for a nil they may not write. *)
AddsFailures(n) == Outcome(n) = "error"

(* A nil where the schema allows none adds an error of its own.            *)
AddsError(n) == Outcome(n) = "error" \/ (Outcome(n) = "nil" /\ Strict(n))

(* What an object or a list is made of: all but the deferred fields.       *)
Awaited(n) == {k \in Kids(n) : ~Deferred(k)}
=============================================================================
