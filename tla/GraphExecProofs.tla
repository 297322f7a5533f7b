--------------------------- MODULE GraphExecProofs ---------------------------
(***************************************************************************)
(* The executor on every operation: what a position's null means, that     *)
(* nothing is lost without an error, and that the first response waits     *)
(* for all of its resolvers, for every tree and every scheduling.          *)
(***************************************************************************)
EXTENDS GraphExec, WellFoundedInduction, TLAPS

-----------------------------------------------------------------------------
(* The two tables of the generated code agree on every field.              *)
LEMMA TablesAgree ==
  ASSUME NEW type \in DOMAIN Schema, NEW name \in DOMAIN Schema[type]
  PROVE  name \in Required[type] <=> Schema[type][name].strict
PROOF
  <1> USE DEF Schema, Required, Scalar, One, Many, OrNull
  <1>1. CASE type \in {"Operation", "CloudEvent", "CloudEventIndex"}
    BY <1>1 DEF CloudEventFields, CloudEventRequired, CloudEventIndexFields,
                CloudEventIndexRequired
  <1>2. CASE type = "Query"
    BY <1>2 DEF QueryFields, QueryRequired
  <1>3. CASE type = "CloudEventHeader"
    BY <1>3 DEF CloudEventHeaderFields, CloudEventHeaderRequired
  <1>4. CASE type = "CloudEventTypeSummary"
    BY <1>4 DEF CloudEventTypeSummaryFields, CloudEventTypeSummaryRequired
  <1>5. CASE type \in {"__Directive", "__EnumValue"}
    BY <1>5 DEF __DirectiveFields, __DirectiveRequired, __EnumValueFields,
                __EnumValueRequired
  <1>6. CASE type \in {"__Field", "__InputValue"}
    BY <1>6 DEF __FieldFields, __FieldRequired, __InputValueFields,
                __InputValueRequired
  <1>7. CASE type \in {"__Schema", "__Type"}
    BY <1>7 DEF __SchemaFields, __SchemaRequired, __TypeFields, __TypeRequired
  <1> QED BY <1>1, <1>2, <1>3, <1>4, <1>5, <1>6, <1>7

(* Every set of numbers has a least one.                                   *)
Less == {p \in Nat \X Nat : p[1] < p[2]}
LEMMA LeastElement ==
  ASSUME NEW S \in SUBSET Nat, S # {}
  PROVE  \E n \in S : \A m \in S : n <= m
PROOF
  <1>1. IsWellFoundedOn(Less, Nat)
    BY NatLessThanWellFounded, Zenon DEF OpToRel, Less
  <1>2. PICK n \in S : \A m \in S : <<m, n>> \notin Less
    BY <1>1, WFMin, Zenon
  <1>3. ASSUME NEW m \in S PROVE n <= m
    <2>1. ~(m < n)
      BY <1>2 DEF Less
    <2> QED BY <2>1
  <1> QED BY <1>3

-----------------------------------------------------------------------------
(* The inductive invariant.                                                *)

TypeInv ==
  /\ tree \in Operations
  /\ stage \in [Nodes -> {"idle", "waiting", "done"}]
  /\ value \in [Nodes -> {"none", "null", "data"}]
  /\ errors \subseteq Nodes

(* A null is explained by an error that the client of its response sees.   *)
Explained(n) == \E e \in errors : tree[e].late => tree[n].late

NodeInv(n) ==
  /\ Done(n) <=> value[n] # "none"
  /\ stage[n] = "waiting" => Outcome(n) = "value"
  /\ stage[n] = "waiting" /\ n # Root /\ ~tree[n].late => stage[Parent(n)] = "waiting"
  /\ Done(n) /\ Outcome(n) = "value" => \A k \in Awaited(n) : Done(k)
  /\ Done(n) =>
       (value[n] = "null" <=>
          Outcome(n) # "value" \/ \E k \in Awaited(n) : Strict(k) /\ Null(k))
  /\ Null(n) /\ (Strict(n) \/ Outcome(n) = "value") => Explained(n)

ResponseInv ==
  /\ response \in [data : {"none", "null", "data"}, errors : SUBSET Nodes,
                   hasNext : BOOLEAN]
  /\ response.data # "none" => Done(Root)
  /\ response.data = "null" => response.errors # {}

IInv == TypeInv /\ (\A n \in Nodes : NodeInv(n)) /\ ResponseInv

-----------------------------------------------------------------------------
(* What the tree says of a node and of the one above it.                   *)
LEMMA TreeFacts ==
  ASSUME tree \in Operations
  PROVE  /\ Nodes \subseteq Nat /\ Root \in Nodes
         /\ Outcome(Root) = "value" /\ ~tree[Root].late
         /\ \A n \in Nodes : n # Root =>
              /\ Parent(n) \in Nodes /\ Parent(n) < n
              /\ Counted(n) <=> Strict(n)
              /\ IsComposite(Parent(n))
              /\ tree[Parent(n)].late => tree[n].late
              /\ Outcome(n) \in {"value", "nil", "error"}
         /\ Parent(Root) \notin Nodes
PROOF
  <1>1. IsOperation(tree)
    BY OperationsAssumption
  <1>2. Nodes = 1..Len(tree) /\ Len(tree) \in Nat \ {0}
    BY <1>1 DEF IsOperation, Nodes
  <1>3. Outcome(Root) = "value" /\ tree[Root].late = FALSE /\ Parent(Root) = 0
    BY <1>1 DEF IsOperation, Outcome, Root, Parent
  <1>4. ASSUME NEW n \in Nodes, n # Root
        PROVE  /\ Parent(n) \in Nodes /\ Parent(n) < n
               /\ Counted(n) <=> Strict(n)
               /\ IsComposite(Parent(n))
               /\ tree[Parent(n)].late => tree[n].late
               /\ Outcome(n) \in {"value", "nil", "error"}
    <2>1. n \in 2..Len(tree)
      BY <1>2, <1>4 DEF Root
    <2> DEFINE up == tree[tree[n].parent]
               upper == Schema[up.on][up.name]
    <2>2. /\ tree[n].parent \in 1..(n - 1)
          /\ tree[n].on \in DOMAIN Schema
          /\ tree[n].name \in DOMAIN Schema[tree[n].on]
          /\ tree[n].element \in BOOLEAN
          /\ up.late => tree[n].late
          /\ IF tree[n].element THEN upper.list ELSE tree[n].on = upper.of
      BY <1>1, <2>1 DEF IsOperation
    <2>3. Parent(n) \in Nodes /\ Parent(n) < n
      BY <1>2, <2>1, <2>2 DEF Parent
    <2>4. Counted(n) <=> Strict(n)
      BY <2>2, TablesAgree DEF Counted, Strict, Field
    <2>5. "scalar" \notin DOMAIN Schema
      BY DEF Schema
    <2>6. IsComposite(Parent(n))
      BY <2>2, <2>5 DEF IsComposite, Field, Parent
    <2>7. tree[n].gives \in MayGive(tree[n])
      BY <1>1, <2>1 DEF IsOperation
    <2>8. Outcome(n) \in {"value", "nil", "error"}
      <3>1. tree[n].gives \in {"value", "nil", "error", "panic"}
        BY <2>7 DEF MayGive
      <3> QED BY <3>1 DEF Outcome
    <2> QED BY <2>2, <2>3, <2>4, <2>6, <2>8 DEF Parent
  <1> QED BY <1>2, <1>3, <1>4 DEF Root

(* The operation does not change, nor what follows from it alone.          *)
LEMMA TreeStays ==
  ASSUME tree' = tree
  PROVE  /\ Nodes' = Nodes
         /\ \A n : /\ Outcome(n)' = Outcome(n) /\ Awaited(n)' = Awaited(n)
                   /\ Strict(n)' = Strict(n) /\ Parent(n)' = Parent(n)
PROOF BY DEF Nodes, Outcome, Awaited, Kids, Deferred, Strict, Field, Parent

(* A step of one node that was not done leaves the invariant of the others.*)
LEMMA OthersKeep ==
  ASSUME TypeInv, TypeInv', \A m \in Nodes : NodeInv(m), tree' = tree,
         NEW n \in Nodes, ~Done(n),
         \A m \in Nodes \ {n} : stage'[m] = stage[m] /\ value'[m] = value[m],
         errors \subseteq errors',
         \A k \in Kids(n) : ~tree[k].late /\ stage[k] = "waiting"
                               => stage'[n] = "waiting",
         NEW m \in Nodes \ {n}
  PROVE  NodeInv(m)'
PROOF
  <1>1. NodeInv(m)
    OBVIOUS
  <1>2. Nodes' = Nodes /\ Outcome(m)' = Outcome(m) /\ Awaited(m)' = Awaited(m)
        /\ Strict(m)' = Strict(m) /\ Parent(m)' = Parent(m)
        /\ \A k \in Awaited(m) : Strict(k)' = Strict(k)
    BY TreeStays
  <1>3. Awaited(m) \subseteq Nodes
    BY DEF Awaited, Kids
  <1>4. \A k \in Nodes : Done(k) => k # n /\ Done(k)' /\ (Null(k)' <=> Null(k))
    BY DEF Done, Null
  <1>5. (Done(m)' <=> Done(m)) /\ (Null(m)' <=> Null(m)) /\ value'[m] = value[m]
        /\ stage'[m] = stage[m]
    BY DEF Done, Null
  <1>6. Done(m)' <=> value'[m] # "none"
    BY <1>1, <1>5 DEF NodeInv
  <1>7. stage'[m] = "waiting" => Outcome(m)' = "value"
    BY <1>1, <1>2, <1>5 DEF NodeInv
  <1>8. stage'[m] = "waiting" /\ m # Root /\ ~tree'[m].late => stage'[Parent(m)'] = "waiting"
    <2>1. SUFFICES ASSUME stage[m] = "waiting", m # Root, ~tree[m].late
                   PROVE  stage'[Parent(m)] = "waiting"
      BY <1>2, <1>5
    <2>2. stage[Parent(m)] = "waiting" /\ Parent(m) \in Nodes
      BY <1>1, <2>1, TreeFacts DEF NodeInv, TypeInv
    <2>3. CASE Parent(m) = n
      BY <2>1, <2>3 DEF Kids
    <2>4. CASE Parent(m) # n
      BY <2>2, <2>4
    <2> QED BY <2>3, <2>4
  <1>9. Done(m)' /\ Outcome(m)' = "value" => \A k \in Awaited(m)' : Done(k)'
    BY <1>1, <1>2, <1>3, <1>4, <1>5 DEF NodeInv
  <1>10. Done(m)' =>
           (value'[m] = "null" <=>
              Outcome(m)' # "value" \/ \E k \in Awaited(m)' : Strict(k)' /\ Null(k)')
    <2>1. CASE Outcome(m) = "value"
      BY <2>1, <1>1, <1>2, <1>3, <1>4, <1>5 DEF NodeInv
    <2>2. CASE Outcome(m) # "value"
      BY <2>2, <1>1, <1>2, <1>5 DEF NodeInv
    <2> QED BY <2>1, <2>2
  <1>11. Null(m)' /\ (Strict(m)' \/ Outcome(m)' = "value") => Explained(m)'
    <2>1. Explained(m) => Explained(m)'
      BY DEF Explained
    <2> QED BY <2>1, <1>1, <1>2, <1>5 DEF NodeInv
  <1> QED BY <1>6, <1>7, <1>8, <1>9, <1>10, <1>11 DEF NodeInv

-----------------------------------------------------------------------------
LEMMA InitInv ==
  ASSUME Init
  PROVE  IInv
PROOF
  <1> USE DEF Init
  <1>1. TypeInv
    BY DEF TypeInv, Pending
  <1>2. ResponseInv
    BY DEF ResponseInv, Pending
  <1>3. ASSUME NEW n \in Nodes PROVE NodeInv(n)
    BY <1>1, TreeFacts DEF NodeInv, Done, Null, TypeInv
  <1> QED BY <1>1, <1>2, <1>3 DEF IInv

LEMMA ResolveInv ==
  ASSUME IInv, NEW n \in Nodes, Resolve(n)
  PROVE  IInv'
PROOF
  <1>1. TypeInv /\ ResponseInv /\ \A m \in Nodes : NodeInv(m)
    BY DEF IInv
  <1>2. tree' = tree /\ response' = response /\ stage[n] = "idle" /\ n # Root
    BY DEF Resolve, Ready
  <1>3. errors \subseteq errors' /\ errors' \subseteq Nodes
    BY <1>1 DEF Resolve, TypeInv
  <1>4. TypeInv'
    BY <1>1, <1>2, <1>3, TreeStays DEF TypeInv, Resolve, Settle
  <1>5. \A m \in Nodes \ {n} : stage'[m] = stage[m] /\ value'[m] = value[m]
    BY <1>1 DEF TypeInv, Resolve, Settle
  <1>6. \A k \in Kids(n) : stage[k] = "waiting" /\ ~tree[k].late => FALSE
    <2> SUFFICES ASSUME NEW k \in Kids(n), stage[k] = "waiting", ~tree[k].late
                 PROVE  FALSE
      OBVIOUS
    <2>1. k \in Nodes /\ Parent(k) = n /\ k # Root
      BY <1>1, TreeFacts DEF Kids, TypeInv
    <2> QED BY <2>1, <1>1, <1>2 DEF NodeInv
  <1>7. NodeInv(n)'
    <2>1. Nodes' = Nodes /\ Outcome(n)' = Outcome(n) /\ Awaited(n)' = Awaited(n)
          /\ Strict(n)' = Strict(n) /\ Parent(n)' = Parent(n)
      BY <1>2, TreeStays
    <2>2. CASE Outcome(n) = "value" /\ IsComposite(n)
      <3>1. stage'[n] = "waiting" /\ value'[n] = "none"
        BY <2>2, <1>1, <1>2 DEF Resolve, TypeInv, NodeInv, Done
      <3>2. ~tree[n].late => stage[Parent(n)] = "waiting"
        BY DEF Resolve, Ready, Deferred
      <3>3. ~tree[n].late => stage'[Parent(n)] = "waiting"
        <4>1. Parent(n) \in Nodes \ {n}
          BY <1>1, <1>2, TreeFacts DEF TypeInv
        <4> QED BY <4>1, <3>2, <1>5
      <3> QED BY <2>1, <2>2, <3>1, <3>3, <1>2 DEF NodeInv, Done, Null
    <2>3. CASE ~(Outcome(n) = "value" /\ IsComposite(n))
      <3>1. /\ stage'[n] = "done"
            /\ value'[n] = IF Outcome(n) # "value" THEN "null" ELSE "data"
        BY <2>3, <1>1 DEF Resolve, Settle, TypeInv
      <3>2. Outcome(n) = "value" => Awaited(n) = {}
        <4>1. Outcome(n) = "value" => ~IsComposite(n)
          BY <2>3
        <4>2. \A k \in Kids(n) : IsComposite(n)
          BY <1>1, TreeFacts DEF Kids, TypeInv
        <4> QED BY <4>1, <4>2 DEF Awaited
      <3>3. Outcome(n) \in {"value", "nil", "error"}
        BY <1>1, <1>2, TreeFacts DEF TypeInv
      <3>4. Outcome(n) # "value" /\ Strict(n) => n \in errors'
        BY <3>3 DEF Resolve, AddsError
      <3>5. Outcome(n) # "value" /\ Strict(n) => Explained(n)'
        BY <3>4, <1>2 DEF Explained
      <3> QED BY <2>1, <3>1, <3>2, <3>5 DEF NodeInv, Done, Null
    <2> QED BY <2>2, <2>3
  <1>8. \A m \in Nodes : NodeInv(m)'
    <2>1. ASSUME NEW m \in Nodes \ {n} PROVE NodeInv(m)'
      BY <1>1, <1>2, <1>3, <1>4, <1>5, <1>6, OthersKeep DEF Done
    <2> QED BY <2>1, <1>7
  <1>9. ResponseInv'
    <2>1. Done(Root) => Done(Root)'
      BY <1>1, <1>2, <1>5, TreeFacts DEF Done, TypeInv
    <2> QED BY <2>1, <1>1, <1>2, TreeStays DEF ResponseInv
  <1> QED BY <1>2, <1>4, <1>8, <1>9, TreeStays DEF IInv

LEMMA CompleteInv ==
  ASSUME IInv, NEW n \in Nodes, Complete(n)
  PROVE  IInv'
PROOF
  <1>1. TypeInv /\ ResponseInv /\ \A m \in Nodes : NodeInv(m)
    BY DEF IInv
  <1>2. tree' = tree /\ response' = response /\ errors' = errors /\ stage[n] = "waiting"
    BY DEF Complete
  <1>3. \A k \in Awaited(n) : Done(k) /\ k \in Nodes
    BY DEF Complete, Awaited, Kids
  <1>4. /\ stage' = [stage EXCEPT ![n] = "done"]
        /\ value' = [value EXCEPT ![n] =
                       IF \E k \in Awaited(n) : Counted(k) /\ Null(k)
                       THEN "null" ELSE "data"]
    BY DEF Complete, Settle
  <1>5. TypeInv'
    BY <1>1, <1>2, <1>4, TreeStays DEF TypeInv
  <1>6. \A m \in Nodes \ {n} : stage'[m] = stage[m] /\ value'[m] = value[m]
    BY <1>1, <1>4 DEF TypeInv
  <1>7. \A k \in Kids(n) : ~tree[k].late /\ stage[k] = "waiting" => FALSE
    BY <1>3 DEF Awaited, Deferred, Done
  <1>8. NodeInv(n)'
    <2>1. Nodes' = Nodes /\ Outcome(n)' = Outcome(n) /\ Awaited(n)' = Awaited(n)
          /\ Strict(n)' = Strict(n)
          /\ \A k \in Awaited(n) : Strict(k)' = Strict(k)
      BY <1>2, TreeStays
    <2>2. Outcome(n) = "value"
      BY <1>1, <1>2 DEF NodeInv
    <2>3. \A k \in Awaited(n) : k # n /\ Done(k)' /\ (Null(k)' <=> Null(k))
      BY <1>2, <1>3, <1>6 DEF Done, Null
    <2>4. \A k \in Awaited(n) : Counted(k) <=> Strict(k)
      <3> SUFFICES ASSUME NEW k \in Awaited(n) PROVE Counted(k) <=> Strict(k)
        OBVIOUS
      <3>1. k \in Nodes /\ Parent(k) = n
        BY DEF Awaited, Kids
      <3> QED BY <3>1, <1>1, TreeFacts DEF TypeInv
    <2>5. stage'[n] = "done"
          /\ value'[n] = IF \E k \in Awaited(n) : Strict(k) /\ Null(k)
                          THEN "null" ELSE "data"
      BY <1>1, <1>4, <2>4 DEF TypeInv
    <2>6. Null(n)' => Explained(n)'
      <3> SUFFICES ASSUME Null(n)' PROVE Explained(n)'
        OBVIOUS
      <3>1. PICK k \in Awaited(n) : Strict(k) /\ Null(k)
        BY <2>5 DEF Null
      <3>2. PICK e \in errors : tree[e].late => tree[k].late
        BY <1>1, <1>3, <3>1 DEF NodeInv, Explained
      <3>3. tree[k].late => tree[n].late
        BY <3>1 DEF Awaited, Deferred, Kids
      <3> QED BY <3>2, <3>3, <1>2 DEF Explained
    <2>7. Done(n)' /\ (value'[n] = "null" <=>
                         \E k \in Awaited(n)' : Strict(k)' /\ Null(k)')
      BY <2>1, <2>3, <2>5 DEF Done
    <2> QED BY <2>1, <2>2, <2>3, <2>5, <2>6, <2>7 DEF NodeInv
  <1>9. \A m \in Nodes : NodeInv(m)'
    <2>1. ASSUME NEW m \in Nodes \ {n} PROVE NodeInv(m)'
      BY <1>1, <1>2, <1>5, <1>6, <1>7, OthersKeep DEF Done
    <2> QED BY <2>1, <1>8
  <1>10. ResponseInv'
    <2>1. Done(Root) => Done(Root)'
      BY <1>1, <1>4, TreeFacts DEF Done, TypeInv
    <2> QED BY <2>1, <1>1, <1>2, TreeStays DEF ResponseInv
  <1> QED BY <1>2, <1>5, <1>9, <1>10, TreeStays DEF IInv

LEMMA NodesStay ==
  ASSUME UNCHANGED <<tree, stage, value, errors>>, NEW n, NodeInv(n)
  PROVE  NodeInv(n)'
PROOF
  <1>1. /\ Outcome(n)' = Outcome(n) /\ Awaited(n)' = Awaited(n)
        /\ Strict(n)' = Strict(n) /\ Parent(n)' = Parent(n)
        /\ \A k : /\ Strict(k)' = Strict(k)
                  /\ Done(k)' = Done(k) /\ Null(k)' = Null(k)
    BY TreeStays DEF Done, Null
  <1>2. Explained(n)' = Explained(n)
    BY DEF Explained
  <1> QED BY <1>1, <1>2 DEF NodeInv

LEMMA RespondInv ==
  ASSUME IInv, Respond
  PROVE  IInv'
PROOF
  <1>1. TypeInv /\ ResponseInv /\ \A m \in Nodes : NodeInv(m)
    BY DEF IInv
  <1>2. UNCHANGED <<tree, stage, value, errors>>
    BY DEF Respond
  <1>3. TypeInv' /\ Nodes' = Nodes
    BY <1>1, <1>2 DEF TypeInv, Nodes
  <1>4. \A m \in Nodes : NodeInv(m)'
    BY <1>1, <1>2, NodesStay
  <1>5. ResponseInv'
    <2>1. Done(Root)'
      BY <1>2 DEF Respond, Done
    <2>2. response' = [data |-> value[Root], hasNext |-> HasDeferred,
                       errors |-> {m \in errors : ~tree[m].late}]
      BY DEF Respond
    <2>3. HasDeferred \in BOOLEAN
      BY DEF HasDeferred
    <2>4. response' \in [data : {"none", "null", "data"}, errors : SUBSET Nodes,
                         hasNext : BOOLEAN]
      BY <2>2, <2>3, <1>1, TreeFacts DEF TypeInv
    <2>5. value[Root] = "null" => \E e \in errors : ~tree[e].late
      BY <1>1, TreeFacts, <2>1, <1>2 DEF NodeInv, Null, Done, Explained, TypeInv
    <2> QED BY <2>1, <2>2, <2>4, <2>5, <1>3 DEF ResponseInv
  <1> QED BY <1>3, <1>4, <1>5 DEF IInv

(* The inductive invariant holds of every operation and every scheduling.  *)
THEOREM Invariant == Spec => []IInv
PROOF
  <1>1. IInv /\ [Next]_vars => IInv'
    <2> SUFFICES ASSUME IInv, [Next]_vars PROVE IInv'
      OBVIOUS
    <2>1. CASE Respond
      BY <2>1, RespondInv
    <2>2. CASE \E n \in Nodes : Resolve(n)
      BY <2>2, ResolveInv
    <2>3. CASE \E n \in Nodes : Complete(n)
      BY <2>3, CompleteInv
    <2>4. CASE UNCHANGED vars
      <3>1. UNCHANGED <<tree, stage, value, errors, response>> /\ Nodes' = Nodes
        BY <2>4 DEF vars, Nodes
      <3>2. TypeInv' /\ ResponseInv'
        BY <3>1 DEF IInv, TypeInv, ResponseInv, Done
      <3>3. \A n \in Nodes : NodeInv(n)'
        BY <3>1, NodesStay DEF IInv
      <3> QED BY <3>1, <3>2, <3>3 DEF IInv
    <2> QED BY <2>1, <2>2, <2>3, <2>4 DEF Next, Step, Finished
  <1> QED BY <1>1, InitInv, PTL DEF Spec

(* Type correctness of the executor.                                       *)
THEOREM TypeCorrect == Spec => []TypeOK
PROOF
  <1>1. IInv => TypeOK
    BY DEF IInv, TypeInv, ResponseInv, NodeInv, TypeOK
  <1> QED BY <1>1, Invariant, PTL

(* A complete position is null for the schema's reasons and no other.      *)
THEOREM PropagatesBySchema == Spec => []Propagation
PROOF
  <1>1. IInv => Propagation
    BY DEF IInv, NodeInv, Propagation
  <1> QED BY <1>1, Invariant, PTL

(* No non-null position is null, and no value lost, without an error.      *)
THEOREM LossIsReported == Spec => []NoSilentLoss
PROOF
  <1>1. IInv => NoSilentLoss
    BY DEF IInv, NodeInv, ResponseInv, NoSilentLoss, Explained
  <1> QED BY <1>1, Invariant, PTL

(* The first response waits for all of its resolvers: of the positions     *)
(* still waiting one would be the first, and the one above it waits too.   *)
THEOREM RespondsLast == Spec => []Quiescent
PROOF
  <1>1. IInv => Quiescent
    <2> SUFFICES ASSUME IInv, response.data # "none" PROVE
                 \A n \in Nodes : ~tree[n].late => stage[n] # "waiting" /\ ~Ready(n)
      BY DEF Quiescent
    <2>1. TypeInv /\ Done(Root) /\ \A n \in Nodes : NodeInv(n)
      BY DEF IInv, ResponseInv
    <2> DEFINE S == {n \in Nodes : ~tree[n].late /\ stage[n] = "waiting"}
    <2>2. S = {}
      <3> SUFFICES ASSUME S # {} PROVE FALSE
        OBVIOUS
      <3>1. S \in SUBSET Nat
        BY <2>1, TreeFacts DEF TypeInv
      <3>2. PICK n \in S : \A m \in S : n <= m
        BY <3>1, LeastElement
      <3>3. n # Root /\ n \in Nodes
        BY <2>1 DEF Done
      <3>4. stage[Parent(n)] = "waiting" /\ ~tree[Parent(n)].late
            /\ Parent(n) \in Nodes /\ Parent(n) < n
        BY <2>1, <3>3, TreeFacts DEF NodeInv, TypeInv
      <3>5. Parent(n) \in S
        BY <3>4
      <3>6. n <= Parent(n) /\ n \in Nat /\ Parent(n) \in Nat
        BY <3>1, <3>2, <3>5
      <3> QED BY <3>4, <3>6
    <2>3. ASSUME NEW n \in Nodes, ~tree[n].late, Ready(n) PROVE FALSE
      <3>1. n # Root /\ stage[Parent(n)] = "waiting"
        BY <2>3 DEF Ready, Deferred
      <3>2. Parent(n) \in S
        BY <3>1, <2>1, <2>3, TreeFacts DEF TypeInv
      <3> QED BY <3>2, <2>2
    <2> QED BY <2>2, <2>3
  <1> QED BY <1>1, Invariant, PTL

-----------------------------------------------------------------------------
(* The answer the schema defines.  GraphAnswer's two functions are given   *)
(* by recursion, down and up the tree; they exist because every position   *)
(* comes after the one above it.                                           *)

(* GraphAnswer reads the tree as the executor does. *)
LEMMA SameSchema == Answer!Schema = Schema
PROOF
  <1> USE DEF Scalar, One, Many, OrNull, Answer!Scalar, Answer!One, Answer!Many,
              Answer!OrNull
  <1>1. Answer!QueryFields = QueryFields
    BY DEF QueryFields, Answer!QueryFields
  <1>2. Answer!CloudEventFields = CloudEventFields
    BY DEF CloudEventFields, Answer!CloudEventFields
  <1>3. Answer!CloudEventHeaderFields = CloudEventHeaderFields
    BY DEF CloudEventHeaderFields, Answer!CloudEventHeaderFields
  <1>4. Answer!CloudEventIndexFields = CloudEventIndexFields
    BY DEF CloudEventIndexFields, Answer!CloudEventIndexFields
  <1>5. Answer!CloudEventTypeSummaryFields = CloudEventTypeSummaryFields
    BY DEF CloudEventTypeSummaryFields, Answer!CloudEventTypeSummaryFields
  <1>6. Answer!__DirectiveFields = __DirectiveFields
    BY DEF __DirectiveFields, Answer!__DirectiveFields
  <1>7. Answer!__EnumValueFields = __EnumValueFields
    BY DEF __EnumValueFields, Answer!__EnumValueFields
  <1>8. Answer!__FieldFields = __FieldFields
    BY DEF __FieldFields, Answer!__FieldFields
  <1>9. Answer!__InputValueFields = __InputValueFields
    BY DEF __InputValueFields, Answer!__InputValueFields
  <1>10. Answer!__SchemaFields = __SchemaFields
    BY DEF __SchemaFields, Answer!__SchemaFields
  <1>11. Answer!__TypeFields = __TypeFields
    BY DEF __TypeFields, Answer!__TypeFields
  <1> HIDE DEF Scalar, One, Many, OrNull, Answer!Scalar, Answer!One, Answer!Many,
               Answer!OrNull
  <1>12. Answer!OrNull(Answer!One("Query")) = OrNull(One("Query"))
    BY DEF OrNull, One, Answer!OrNull, Answer!One
  <1> QED
    BY <1>1, <1>2, <1>3, <1>4, <1>5, <1>6, <1>7, <1>8, <1>9, <1>10, <1>11, <1>12
       DEF Schema, Answer!Schema

LEMMA SameTree ==
  /\ Answer!Nodes = Nodes /\ Answer!Root = Root
  /\ \A n : /\ Answer!Outcome(n) = Outcome(n) /\ Answer!Parent(n) = Parent(n)
            /\ Answer!Strict(n) <=> Strict(n)
            /\ Answer!Deferred(n) <=> Deferred(n)
            /\ Answer!Awaited(n) = Awaited(n)
            /\ Answer!AddsError(n) <=> AddsError(n)
PROOF
  <1>1. Answer!Nodes = Nodes /\ Answer!Root = Root
    BY DEF Nodes, Answer!Nodes, Root, Answer!Root
  <1>2. ASSUME NEW n
        PROVE  /\ Answer!Outcome(n) = Outcome(n) /\ Answer!Parent(n) = Parent(n)
               /\ Answer!Strict(n) <=> Strict(n)
               /\ Answer!Deferred(n) <=> Deferred(n)
    BY SameSchema DEF Outcome, Answer!Outcome, Parent, Answer!Parent, Strict, Answer!Strict,
       Field, Answer!Field, Deferred, Answer!Deferred
  <1>3. ASSUME NEW n
        PROVE  /\ Answer!Awaited(n) = Awaited(n)
               /\ Answer!AddsError(n) <=> AddsError(n)
    BY <1>1, <1>2 DEF Awaited, Answer!Awaited, Kids, Answer!Kids, AddsError,
       Answer!AddsError
  <1> QED BY <1>1, <1>2, <1>3

(* The equations of the two functions. *)
LostAt(f, n) == Outcome(n) # "value" \/ \E k \in Awaited(n) : Strict(k) /\ f[k]
ReachedAt(f, n) == n = Root \/ (f[Parent(n)] /\ Outcome(Parent(n)) = "value")

LEMMA TreeLength ==
  ASSUME tree \in Operations
  PROVE  Len(tree) \in Nat /\ Nodes = 1..Len(tree)
PROOF BY OperationsAssumption DEF IsOperation, Nodes

LEMMA LostExists ==
  ASSUME tree \in Operations
  PROVE  \E f : f = [n \in Nodes |-> LostAt(f, n)]
PROOF
  <1> DEFINE Above(m, f) == f = [n \in Nodes |-> IF n > m THEN LostAt(f, n) ELSE FALSE]
             S == {m \in 0..Len(tree) : \E f : Above(m, f)}
  <1>1. /\ Len(tree) \in Nat /\ Nodes = 1..Len(tree) /\ 0..Len(tree) \in SUBSET Nat
        /\ Len(tree) \in 0..Len(tree)
    BY TreeLength
  <1>2. S # {} /\ S \in SUBSET Nat
    <2>1. \A n \in Nodes : ~(n > Len(tree))
      BY <1>1
    <2>2. \E f : Above(Len(tree), f)
      <3>1. Above(Len(tree), [n \in Nodes |-> FALSE])
        BY <2>1, Zenon
      <3> QED BY <3>1, Zenon
    <2> QED BY <1>1, <2>2, Zenon
  <1>3. PICK m \in S : \A j \in S : m <= j
    BY <1>2, LeastElement, Zenon
  <1>4. PICK f : Above(m, f)
    BY Zenon
  <1>5. m \in 0..Len(tree)
    BY Zenon
  <1>6. CASE m = 0
    <2>1. \A n \in Nodes : n > m
      BY <1>1, <1>6
    <2>2. f = [n \in Nodes |-> LostAt(f, n)]
      BY <1>4, <2>1, Zenon
    <2> QED BY <2>2, Zenon
  <1>7. CASE m # 0
    <2>1. m \in Nodes /\ m - 1 \in 0..Len(tree) /\ ~(m <= m - 1)
      BY <1>1, <1>5, <1>7
    <2> DEFINE g == [f EXCEPT ![m] = LostAt(f, m)]
    <2>2. ASSUME NEW n \in Nodes, n = m \/ n > m PROVE LostAt(g, n) = LostAt(f, n)
      <3>1. \A k \in Awaited(n) : k \in Nodes /\ k # m
        <4> SUFFICES ASSUME NEW k \in Awaited(n) PROVE k \in Nodes /\ k # m
          OBVIOUS
        <4>1. k \in Nodes /\ Parent(k) = n
          BY DEF Awaited, Kids
        <4>2. k # Root
          BY <4>1, TreeFacts
        <4>3. n < k
          BY <4>1, <4>2, TreeFacts
        <4> QED BY <4>1, <4>3, <2>2, <1>1, <2>1
      <3>2. \A k \in Awaited(n) : g[k] = f[k]
        BY <1>4, <3>1
      <3> QED BY <3>2 DEF LostAt
    <2>3. ASSUME NEW n \in Nodes PROVE (n > m - 1) <=> (n = m \/ n > m)
      BY <1>1, <2>1
    <2>4. Above(m - 1, g)
      <3>1. g = [n \in Nodes |-> IF n = m THEN LostAt(f, m) ELSE f[n]]
        BY <1>4
      <3>2. ASSUME NEW n \in Nodes
            PROVE  (IF n = m THEN LostAt(f, m) ELSE f[n])
                     = (IF n > m - 1 THEN LostAt(g, n) ELSE FALSE)
        <4> HIDE DEF g
        <4>1. f[n] = IF n > m THEN LostAt(f, n) ELSE FALSE
          BY <1>4, Zenon
        <4> QED BY <4>1, <2>2, <2>3, Zenon
      <3> HIDE DEF g
      <3> QED BY <3>1, <3>2, Zenon
    <2>5. m - 1 \in S
      BY <2>1, <2>4, Zenon
    <2> QED BY <1>3, <2>1, <2>5, Zenon
  <1> QED BY <1>6, <1>7

LEMMA ReachedExists ==
  ASSUME tree \in Operations
  PROVE  \E f : f = [n \in Nodes |-> ReachedAt(f, n)]
PROOF
  <1> DEFINE UpTo(m, f) == f = [n \in Nodes |-> IF n <= m THEN ReachedAt(f, n) ELSE FALSE]
             S == {m \in 0..Len(tree) : ~ \E f : UpTo(m, f)}
  <1>1. /\ Len(tree) \in Nat /\ Nodes = 1..Len(tree) /\ 0..Len(tree) \in SUBSET Nat
        /\ Len(tree) \in 0..Len(tree)
    BY TreeLength
  <1>2. S = {}
    <2> SUFFICES ASSUME S # {} PROVE FALSE
      OBVIOUS
    <2>1. S \in SUBSET Nat
      BY <1>1, Zenon
    <2>2. PICK m \in S : \A j \in S : m <= j
      BY <2>1, LeastElement, Zenon
    <2>3. m # 0
      <3>1. \A n \in Nodes : ~(n <= 0)
        BY <1>1
      <3>2. UpTo(0, [n \in Nodes |-> FALSE])
        BY <3>1, Zenon
      <3> QED BY <3>2, Zenon
    <2>4. m \in 0..Len(tree)
      BY Zenon
    <2>5. m \in Nodes /\ m \in Nat /\ m - 1 \in 0..Len(tree) /\ ~(m <= m - 1)
      BY <1>1, <2>3, <2>4
    <2>6. PICK f : UpTo(m - 1, f)
      BY <2>2, <2>5, Zenon
    <2> DEFINE g == [f EXCEPT ![m] = ReachedAt(f, m)]
    <2>7. ASSUME NEW n \in Nodes, n <= m PROVE ReachedAt(g, n) = ReachedAt(f, n)
      <3>1. CASE n = Root
        BY <3>1 DEF ReachedAt
      <3>2. CASE n # Root
        <4>1. Parent(n) \in Nodes /\ Parent(n) < n
          BY <3>2, TreeFacts
        <4>2. Parent(n) # m
          BY <4>1, <2>7, <1>1, <2>5
        <4>3. g[Parent(n)] = f[Parent(n)]
          BY <2>6, <4>1, <4>2
        <4> QED BY <4>3 DEF ReachedAt
      <3> QED BY <3>1, <3>2
    <2>8. ASSUME NEW n \in Nodes PROVE (n <= m) <=> (n = m \/ n <= m - 1)
      BY <1>1, <2>5
    <2>9. UpTo(m, g)
      <3>1. g = [n \in Nodes |-> IF n = m THEN ReachedAt(f, m) ELSE f[n]]
        BY <2>6
      <3>2. ASSUME NEW n \in Nodes
            PROVE  (IF n = m THEN ReachedAt(f, m) ELSE f[n])
                     = (IF n <= m THEN ReachedAt(g, n) ELSE FALSE)
        <4> HIDE DEF g
        <4>1. f[n] = IF n <= m - 1 THEN ReachedAt(f, n) ELSE FALSE
          BY <2>6, Zenon
        <4> QED BY <4>1, <2>7, <2>8, Zenon
      <3> HIDE DEF g
      <3> QED BY <3>1, <3>2, Zenon
    <2> QED BY <2>9, Zenon
  <1>3. PICK f : UpTo(Len(tree), f)
    BY <1>1, <1>2, Zenon
  <1>4. \A n \in Nodes : n <= Len(tree)
    BY <1>1
  <1>5. f = [n \in Nodes |-> ReachedAt(f, n)]
    BY <1>3, <1>4, Zenon
  <1> QED BY <1>5, Zenon

LEMMA LostEquation ==
  ASSUME tree \in Operations, NEW n \in Nodes
  PROVE  Answer!Lost[n] <=> LostAt(Answer!Lost, n)
PROOF
  <1>1. \E f : f = [m \in Answer!Nodes |->
                      Answer!Outcome(m) # "value"
                        \/ \E k \in Answer!Awaited(m) : Answer!Strict(k) /\ f[k]]
    <2>1. PICK f : f = [m \in Nodes |-> LostAt(f, m)]
      BY LostExists
    <2>2. ASSUME NEW m \in Nodes
          PROVE  LostAt(f, m) = (Answer!Outcome(m) # "value"
                        \/ \E k \in Answer!Awaited(m) : Answer!Strict(k) /\ f[k])
      BY SameTree, Zenon DEF LostAt
    <2>3. f = [m \in Answer!Nodes |->
                      Answer!Outcome(m) # "value"
                        \/ \E k \in Answer!Awaited(m) : Answer!Strict(k) /\ f[k]]
      BY <2>1, <2>2, SameTree, Zenon
    <2> QED BY <2>3
  <1>2. Answer!Lost = [m \in Answer!Nodes |->
                         Answer!Outcome(m) # "value"
                           \/ \E k \in Answer!Awaited(m) : Answer!Strict(k) /\ Answer!Lost[k]]
    BY <1>1, Zenon DEF Answer!Lost
  <1>3. n \in Answer!Nodes
    BY SameTree
  <1>4. Answer!Lost[n] = (Answer!Outcome(n) # "value"
                           \/ \E k \in Answer!Awaited(n) : Answer!Strict(k) /\ Answer!Lost[k])
    BY <1>2, <1>3, Zenon
  <1> QED BY <1>4, SameTree, Zenon DEF LostAt

LEMMA ReachedEquation ==
  ASSUME tree \in Operations, NEW n \in Nodes
  PROVE  Answer!Reached[n] <=> ReachedAt(Answer!Reached, n)
PROOF
  <1>1. \E f : f = [m \in Answer!Nodes |->
                      m = Answer!Root
                        \/ (f[Answer!Parent(m)] /\ Answer!Outcome(Answer!Parent(m)) = "value")]
    <2>1. PICK f : f = [m \in Nodes |-> ReachedAt(f, m)]
      BY ReachedExists
    <2>2. ASSUME NEW m \in Nodes
          PROVE  ReachedAt(f, m) = (m = Answer!Root
                        \/ (f[Answer!Parent(m)] /\ Answer!Outcome(Answer!Parent(m)) = "value"))
      BY SameTree, Zenon DEF ReachedAt
    <2>3. f = [m \in Answer!Nodes |->
                 m = Answer!Root
                   \/ (f[Answer!Parent(m)] /\ Answer!Outcome(Answer!Parent(m)) = "value")]
      BY <2>1, <2>2, SameTree, Zenon
    <2> QED BY <2>3
  <1>2. Answer!Reached = [m \in Answer!Nodes |->
                 m = Answer!Root
                   \/ (Answer!Reached[Answer!Parent(m)]
                         /\ Answer!Outcome(Answer!Parent(m)) = "value")]
    BY <1>1, Zenon DEF Answer!Reached
  <1>3. n \in Answer!Nodes
    BY SameTree
  <1>4. Answer!Reached[n] = (n = Answer!Root
                   \/ (Answer!Reached[Answer!Parent(n)]
                         /\ Answer!Outcome(Answer!Parent(n)) = "value"))
    BY <1>2, <1>3, Zenon
  <1> QED BY <1>4, SameTree, Zenon DEF ReachedAt

(* A position that is complete is null if and only if it is lost: of the   *)
(* others the last one would have no other below it.                       *)
LEMMA NullIsLost ==
  ASSUME IInv, NEW n \in Nodes, Done(n)
  PROVE  Null(n) <=> Answer!Lost[n]
PROOF
  <1>1. /\ tree \in Operations /\ \A m \in Nodes : NodeInv(m)
        /\ Len(tree) \in Nat /\ Nodes = 1..Len(tree)
    BY TreeLength DEF IInv, TypeInv
  <1> DEFINE Wrong(m) == m \in Nodes /\ Done(m) /\ ~(Null(m) <=> Answer!Lost[m])
             S == {j \in 0..Len(tree) : Wrong(Len(tree) - j)}
  <1>2. S \in SUBSET Nat
    BY <1>1
  <1>3. SUFFICES ASSUME S # {} PROVE FALSE
    <2>1. Len(tree) - n \in 0..Len(tree) /\ Len(tree) - (Len(tree) - n) = n
      BY <1>1
    <2>2. Wrong(n) => Len(tree) - n \in S
      BY <2>1, Zenon
    <2> QED BY <2>2, Zenon
  <1>4. PICK j \in S : \A i \in S : j <= i
    BY <1>2, <1>3, LeastElement, Zenon
  <1>5. PICK m \in Nodes : m = Len(tree) - j /\ Done(m) /\ ~(Null(m) <=> Answer!Lost[m])
    BY Zenon
  <1>6. ASSUME NEW k \in Awaited(m), Done(k)
        PROVE  Null(k) <=> Answer!Lost[k]
    <2>1. k \in Nodes /\ Parent(k) = m
      BY DEF Awaited, Kids
    <2>2. k # Root
      BY <1>1, <2>1, TreeFacts
    <2>3. m < k
      BY <1>1, <2>1, <2>2, TreeFacts
    <2>4. /\ Len(tree) - k \in 0..Len(tree) /\ Len(tree) - (Len(tree) - k) = k
          /\ ~(j <= Len(tree) - k)
      BY <1>1, <1>2, <1>5, <2>1, <2>3
    <2> QED BY <1>4, <1>6, <2>1, <2>4, Zenon
  <1>7. Answer!Lost[m] <=> LostAt(Answer!Lost, m)
    BY <1>1, LostEquation
  <1>8. Null(m) <=> Outcome(m) # "value" \/ \E k \in Awaited(m) : Strict(k) /\ Null(k)
    BY <1>1, <1>5, Zenon DEF NodeInv, Null
  <1>9. Outcome(m) = "value" => \A k \in Awaited(m) : Done(k)
    BY <1>1, <1>5, Zenon DEF NodeInv
  <1> QED BY <1>5, <1>6, <1>7, <1>8, <1>9, Zenon DEF LostAt

(* What the execution has reached, and the errors it has added for it.     *)
ReachedInv(n) ==
  /\ stage[n] # "idle" => Answer!Reached[n]
  /\ n \in errors <=> stage[n] # "idle" /\ AddsError(n)

AnswerInv ==
  /\ \A n \in Nodes : ReachedInv(n)
  /\ response.data = "none" => response = Pending

LEMMA ReachedStays ==
  ASSUME tree' = tree
  PROVE  Answer!Reached' = Answer!Reached
PROOF
  BY SMT DEF Answer!Reached, Answer!Nodes, Answer!Root, Answer!Parent, Answer!Outcome

LEMMA AddsErrorStays ==
  ASSUME tree' = tree, NEW n
  PROVE  AddsError(n)' <=> AddsError(n)
PROOF BY TreeStays DEF AddsError

LEMMA AnswerInit ==
  ASSUME Init
  PROVE  AnswerInv
PROOF
  <1>1. tree \in Operations /\ Root \in Nodes /\ Outcome(Root) = "value"
    BY TreeFacts DEF Init
  <1>2. Answer!Reached[Root]
    BY <1>1, ReachedEquation DEF ReachedAt
  <1>3. ASSUME NEW n \in Nodes PROVE ReachedInv(n)
    <2>1. stage[n] # "idle" <=> n = Root
      BY DEF Init
    <2>2. ~AddsError(Root)
      BY <1>1 DEF AddsError
    <2> QED BY <1>2, <2>1, <2>2 DEF ReachedInv, Init
  <1> QED BY <1>3 DEF AnswerInv, Init

(* A step that starts no position and adds no error.                       *)
LEMMA ReachedKeeps ==
  ASSUME AnswerInv, tree' = tree, errors' = errors,
         \A n \in Nodes : stage'[n] # "idle" <=> stage[n] # "idle"
  PROVE  \A n \in Nodes : ReachedInv(n)'
PROOF
  <1> SUFFICES ASSUME NEW n \in Nodes PROVE ReachedInv(n)'
    OBVIOUS
  <1>1. ReachedInv(n) /\ (stage'[n] # "idle" <=> stage[n] # "idle")
    BY DEF AnswerInv
  <1>2. Answer!Reached' = Answer!Reached /\ (AddsError(n)' <=> AddsError(n))
    BY ReachedStays, AddsErrorStays
  <1> QED BY <1>1, <1>2, Zenon DEF ReachedInv

LEMMA AnswerStep ==
  ASSUME IInv, AnswerInv, [Next]_vars
  PROVE  AnswerInv'
PROOF
  <1>1. TypeInv /\ \A n \in Nodes : NodeInv(n)
    BY DEF IInv
  <1>2. tree' = tree /\ Nodes' = Nodes
    BY DEF Next, Step, Finished, vars, Respond, Resolve, Complete, Nodes
  <1>3. response'.data = "none" => response' = Pending
    <2>1. CASE Respond
      <3>1. response'.data = value[Root] /\ value[Root] # "none"
        BY <2>1, <1>1, TreeFacts DEF Respond, NodeInv, TypeInv
      <3> QED BY <3>1
    <2>2. CASE response' = response
      BY <2>2 DEF AnswerInv
    <2> QED BY <2>1, <2>2 DEF Next, Step, Finished, vars, Resolve, Complete
  <1>4. ASSUME NEW n \in Nodes, Resolve(n)
        PROVE  \A m \in Nodes : ReachedInv(m)'
    <2> SUFFICES ASSUME NEW m \in Nodes PROVE ReachedInv(m)'
      OBVIOUS
    <2>1. Answer!Reached' = Answer!Reached /\ (AddsError(m)' <=> AddsError(m)) /\ ReachedInv(m)
      BY <1>2, ReachedStays, AddsErrorStays DEF AnswerInv
    <2>2. /\ stage'[n] # "idle" /\ n # Root /\ Ready(n) /\ stage[n] = "idle"
          /\ errors' = IF AddsError(n) THEN errors \union {n} ELSE errors
      BY <1>1, <1>4 DEF Resolve, Settle, TypeInv, Ready
    <2>3. m # n => stage'[m] = stage[m]
      BY <1>1, <1>4 DEF Resolve, Settle, TypeInv
    <2>4. Answer!Reached[n]
      <3>1. Parent(n) \in Nodes /\ NodeInv(Parent(n))
        BY <1>1, <2>2, TreeFacts DEF TypeInv
      <3>2. stage[Parent(n)] # "idle" /\ Outcome(Parent(n)) = "value"
        <4>1. CASE Deferred(n)
          <5>1. Done(Parent(n)) /\ ~Null(Parent(n))
            BY <2>2, <4>1 DEF Ready
          <5> QED BY <3>1, <5>1, Zenon DEF NodeInv, Null, Done
        <4>2. CASE ~Deferred(n)
          <5>1. stage[Parent(n)] = "waiting"
            BY <2>2, <4>2 DEF Ready
          <5> QED BY <3>1, <5>1 DEF NodeInv
        <4> QED BY <4>1, <4>2
      <3>3. Answer!Reached[Parent(n)]
        BY <3>1, <3>2 DEF AnswerInv, ReachedInv
      <3> QED BY <1>1, <3>2, <3>3, ReachedEquation DEF ReachedAt, TypeInv
    <2>5. CASE m = n
      BY <2>1, <2>2, <2>4, <2>5, Zenon DEF ReachedInv
    <2>6. CASE m # n
      BY <2>1, <2>2, <2>3, <2>6, Zenon DEF ReachedInv
    <2> QED BY <2>5, <2>6
  <1>5. ASSUME NEW n \in Nodes, Complete(n)
        PROVE  \A m \in Nodes : ReachedInv(m)'
    <2>1. errors' = errors /\ \A m \in Nodes : stage'[m] # "idle" <=> stage[m] # "idle"
      BY <1>1, <1>5 DEF Complete, Settle, TypeInv
    <2> QED BY <1>2, <2>1, ReachedKeeps
  <1>6. ASSUME UNCHANGED <<stage, errors>>
        PROVE  \A m \in Nodes : ReachedInv(m)'
    BY <1>2, <1>6, ReachedKeeps
  <1>7. \A m \in Nodes : ReachedInv(m)'
    BY <1>4, <1>5, <1>6 DEF Next, Step, Finished, vars, Respond
  <1> QED BY <1>2, <1>3, <1>7 DEF AnswerInv

(* When the operation is complete, so is every position of the first       *)
(* response that was reached: the first of the others would be awaited by  *)
(* the one above it.                                                       *)
LEMMA ReachedIsDone ==
  ASSUME IInv, Done(Root), NEW n \in Nodes, ~tree[n].late, Answer!Reached[n]
  PROVE  Done(n)
PROOF
  <1>1. tree \in Operations /\ \A m \in Nodes : NodeInv(m)
    BY DEF IInv, TypeInv
  <1> DEFINE S == {m \in Nodes : ~tree[m].late /\ Answer!Reached[m] /\ ~Done(m)}
  <1>2. SUFFICES ASSUME S # {} PROVE FALSE
    BY Zenon
  <1>3. S \in SUBSET Nat
    BY <1>1, TreeFacts, Zenon
  <1>4. PICK m \in S : \A j \in S : m <= j
    BY <1>2, <1>3, LeastElement, Zenon
  <1>5. m \in Nodes /\ ~tree[m].late /\ Answer!Reached[m] /\ ~Done(m) /\ m # Root
    BY Zenon
  <1>6. Parent(m) \in Nodes /\ ~tree[Parent(m)].late /\ Parent(m) < m
        /\ Parent(m) \in Nat /\ m \in Nat
    BY <1>1, <1>5, TreeFacts
  <1>7. Answer!Reached[Parent(m)] /\ Outcome(Parent(m)) = "value"
    BY <1>1, <1>5, ReachedEquation, Zenon DEF ReachedAt
  <1>8. ~(m <= Parent(m))
    BY <1>6
  <1>9. Done(Parent(m))
    BY <1>4, <1>6, <1>7, <1>8, Zenon
  <1>10. m \in Awaited(Parent(m))
    BY <1>5, <1>6 DEF Awaited, Kids, Deferred
  <1> QED BY <1>1, <1>5, <1>6, <1>7, <1>9, <1>10, Zenon DEF NodeInv

(* What the executor responds is what the schema says.                     *)
LEMMA RespondAnswers ==
  ASSUME IInv, AnswerInv, Respond
  PROVE  Answer!Next
PROOF
  <1>1. /\ tree \in Operations /\ TypeInv /\ \A m \in Nodes : NodeInv(m) /\ ReachedInv(m)
        /\ Root \in Nodes /\ Done(Root)
    BY TreeFacts DEF IInv, TypeInv, AnswerInv, Respond
  <1>2. response = Answer!Pending /\ tree' = tree
    BY DEF AnswerInv, Respond, Pending, Answer!Pending
  <1>3. response' = [data |-> value[Root], hasNext |-> HasDeferred,
                     errors |-> {n \in errors : ~tree[n].late}]
    BY DEF Respond
  <1>4. value[Root] = IF Answer!Lost[Root] THEN "null" ELSE "data"
    <2>1. Null(Root) <=> Answer!Lost[Root]
      BY <1>1, NullIsLost
    <2>2. value[Root] \in {"null", "data"}
      BY <1>1 DEF TypeInv, NodeInv
    <2> QED BY <2>1, <2>2, <1>1 DEF Null
  <1>5. {n \in errors : ~tree[n].late} =
          {n \in Nodes : Answer!Reached[n] /\ AddsError(n) /\ ~tree[n].late}
    <2>1. errors \subseteq Nodes
      BY <1>1 DEF TypeInv
    <2>2. ASSUME NEW n \in Nodes, ~tree[n].late
          PROVE  n \in errors <=> Answer!Reached[n] /\ AddsError(n)
      <3>1. Answer!Reached[n] => stage[n] # "idle"
        BY <1>1, <2>2, ReachedIsDone DEF Done
      <3> QED BY <1>1, <3>1, Zenon DEF ReachedInv
    <2> QED BY <2>1, <2>2, Zenon
  <1>6. HasDeferred <=> \E n \in Nodes : /\ n # Root /\ Deferred(n)
                                         /\ Answer!Reached[n] /\ ~Answer!Lost[Parent(n)]
    <2>1. ASSUME NEW n \in Nodes, Deferred(n)
          PROVE  Done(Parent(n)) /\ ~Null(Parent(n)) <=>
                   n # Root /\ Answer!Reached[n] /\ ~Answer!Lost[Parent(n)]
      <3>1. n # Root
        BY <1>1, <2>1, TreeFacts DEF Deferred
      <3>2. Parent(n) \in Nodes /\ ~tree[Parent(n)].late
        BY <1>1, <2>1, <3>1, TreeFacts DEF Deferred
      <3>3. Answer!Reached[n] <=>
              Answer!Reached[Parent(n)] /\ Outcome(Parent(n)) = "value"
        BY <1>1, <3>1, ReachedEquation, Zenon DEF ReachedAt
      <3>4. Done(Parent(n)) => Answer!Reached[Parent(n)]
        BY <1>1, <3>2 DEF ReachedInv, Done
      <3>5. Answer!Reached[Parent(n)] => Done(Parent(n))
        BY <1>1, <3>2, ReachedIsDone
      <3>6. Done(Parent(n)) => (Null(Parent(n)) <=> Answer!Lost[Parent(n)])
        BY <3>2, NullIsLost
      <3>7. Done(Parent(n)) /\ ~Null(Parent(n)) => Outcome(Parent(n)) = "value"
        BY <1>1, <3>2, Zenon DEF NodeInv, Null
      <3> QED BY <3>1, <3>3, <3>4, <3>5, <3>6, <3>7, Zenon
    <2> QED BY <2>1, Zenon DEF HasDeferred
  <1>7. /\ HasDeferred = \E n \in Answer!Nodes :
                           /\ n # Answer!Root /\ Answer!Deferred(n) /\ Answer!Reached[n]
                           /\ ~Answer!Lost[Answer!Parent(n)]
        /\ {n \in errors : ~tree[n].late} =
             {n \in Answer!Nodes : Answer!Reached[n] /\ Answer!AddsError(n) /\ ~tree[n].late}
        /\ value[Root] = IF Answer!Lost[Answer!Root] THEN "null" ELSE "data"
    <2>1. HasDeferred = \E n \in Answer!Nodes :
                           /\ n # Answer!Root /\ Answer!Deferred(n) /\ Answer!Reached[n]
                           /\ ~Answer!Lost[Answer!Parent(n)]
      <3>1. HasDeferred = \E n \in Nodes : /\ n # Root /\ Deferred(n)
                                         /\ Answer!Reached[n] /\ ~Answer!Lost[Parent(n)]
        BY <1>6, Zenon DEF HasDeferred
      <3> QED BY <3>1, SameTree, Zenon
    <2> QED BY <2>1, <1>4, <1>5, SameTree, Zenon
  <1>8. response' = Answer!Reply
    BY <1>3, <1>7, Zenon DEF Answer!Reply
  <1> QED BY <1>2, <1>8 DEF Answer!Next

(* The executor answers as the schema says, whatever the order in which    *)
(* goroutines start and end: AnswersBySchema, but for that it does answer. *)
THEOREM AnswersAsDefined == Spec => Answer!SafeSpec
PROOF
  <1>1. Init => Answer!Init
    BY DEF Init, Answer!Init, Pending, Answer!Pending
  <1>2. ASSUME IInv, AnswerInv, [Next]_vars
        PROVE  [Answer!Next]_<<tree, response>>
    <2>1. CASE Respond
      BY <1>2, <2>1, RespondAnswers
    <2>2. CASE UNCHANGED <<tree, response>>
      BY <2>2
    <2> QED BY <1>2, <2>1, <2>2 DEF Next, Step, Finished, vars, Resolve, Complete
  <1>3. Spec => []AnswerInv
    BY Invariant, AnswerInit, AnswerStep, PTL DEF Spec
  <1> QED BY <1>1, <1>2, <1>3, Invariant, PTL DEF Spec, Answer!SafeSpec
=============================================================================
