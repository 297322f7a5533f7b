-------------------------- MODULE ResolversProofs ---------------------------
(***************************************************************************)
(* Whom the resolvers answer and with what, for every request, every set   *)
(* of rows and DIDs, and every change of the world meanwhile.              *)
(***************************************************************************)
EXTENDS Resolvers, TLAPS

Labels == {"authorize", "lookup", "query", "assemble", "done"}
Kinds == {"waiting", "found", "nothing", "error"}
Outcomes == [kind : Kinds, slots : Seq(Slot), cause : Causes]

-----------------------------------------------------------------------------
(* The inductive invariant: the world, the shapes of the resolvers' state, *)
(* and what holds of each field on its own.                                *)

WorldInv ==
    /\ request \in Request
    /\ aftermarket \in [Dids -> Dids \cup {None}]
    /\ synthetic \in [Dids -> Dids \cup {None}]
    /\ linked \subseteq Dids \X Dids
    /\ Pairs(aftermarket, synthetic) \subseteq linked
    /\ request.rows \subseteq rows /\ rows \subseteq Rows
    /\ gone \subseteq Rows
    /\ changes \in 0..MaxChanges
    /\ response \in {"pending", "data", "null"}

ShapeInv ==
    /\ pc \in [Fields -> Labels]
    /\ list \in [Fields -> Seq(Rows)]
    /\ out \in [Fields -> Seq(Slot \cup {None})]
    /\ nonBlobPos \in [Fields -> Seq(Nat)]
    /\ outcome \in [Fields -> Outcomes]

(* The resolver has returned if and only if there is an outcome. *)
EndInv(f) == pc[f] = "done" <=> outcome[f].kind # "waiting"

Entitled(f) ==
    \/ Ask(f).did = request.token.asset
    \/ <<Ask(f).did, request.token.asset>> \in linked

(* Past each check stands only who passed it. *)
AccessInv(f) ==
    /\ pc[f] \in {"lookup", "query", "assemble"}
          \/ outcome[f].kind \in {"found", "nothing"} => HasRawData(request.token)
    /\ pc[f] \in {"query", "assemble"}
          \/ outcome[f].kind \in {"found", "nothing"} => Entitled(f)

(* The list is a list of the subject's rows. *)
ListInv(f) ==
    \A i \in DOMAIN list[f] :
        list[f][i] \in rows /\ list[f][i].subject = Ask(f).did

(* Before the list is there, nothing is assembled. *)
FreshInv(f) ==
    pc[f] \in {"authorize", "lookup", "query"} =>
        list[f] = <<>> /\ out[f] = <<>> /\ nonBlobPos[f] = <<>>

(* The positions to be fetched are those the loop has passed and left empty. *)
PositionInv(f) ==
    /\ Len(out[f]) <= Len(list[f])
    /\ \A n \in 1..Len(nonBlobPos[f]) : nonBlobPos[f][n] \in 1..Len(out[f])

LoopInv(f) ==
    pc[f] = "assemble" =>
        /\ Ask(f).call \notin {"latestIndex", "indexes"}
        /\ \A i \in 1..Len(out[f]) :
            /\ list[f][i].blob => out[f][i] = BlobSlot(list[f][i])
            /\ ~list[f][i].blob =>
                  \E n \in 1..Len(nonBlobPos[f]) : nonBlobPos[f][n] = i
        /\ \A n \in 1..Len(nonBlobPos[f]) : ~list[f][nonBlobPos[f][n]].blob

(* What OwnSlots says of one field. *)
SlotInv(f) ==
    outcome[f].kind = "found" =>
        /\ DOMAIN outcome[f].slots = DOMAIN list[f]
        /\ \A i \in DOMAIN list[f] :
            LET r == list[f][i]
            IN  outcome[f].slots[i] =
                  IF Ask(f).call \in {"latestIndex", "indexes"} THEN IndexSlot(r)
                  ELSE IF r.blob THEN BlobSlot(r) ELSE EventSlot(r)

(* What NothingMeansNothing says of one field, and what errors there are. *)
Failures == {"denied", "index", "blob", "object"}

OutcomeInv(f) ==
    /\ outcome[f].kind = "nothing" => outcome[f].slots = <<>>
    /\ outcome[f].kind = "nothing" =>
          \A r \in request.rows \cap Ask(f).filter :
              r.subject = Ask(f).did => ~Ask(f).includeDeleted /\ Suppressed(rows, r)
    /\ outcome[f].kind = "error" => outcome[f].cause \in Failures

FieldInv(f) ==
    /\ EndInv(f) /\ AccessInv(f) /\ ListInv(f) /\ FreshInv(f)
    /\ PositionInv(f) /\ LoopInv(f) /\ SlotInv(f) /\ OutcomeInv(f)

(* The response is made when all resolvers have returned. *)
ResponseInv ==
    /\ response # "pending" => \A f \in Fields : pc[f] = "done"
    /\ response = "null" => \E f \in Fields : IsList(f) /\ outcome[f].kind = "error"

Inv == WorldInv /\ ShapeInv /\ ResponseInv /\ \A f \in Fields : FieldInv(f)

-----------------------------------------------------------------------------
(* Slots and sequences. *)

LEMMA SlotsAreSlots ==
    ASSUME NEW r \in Rows
    PROVE  IndexSlot(r) \in Slot /\ BlobSlot(r) \in Slot /\ EventSlot(r) \in Slot
BY DEF IndexSlot, BlobSlot, EventSlot, Slot

LEMMA SlotsHaveHeaders ==
    ASSUME NEW r
    PROVE  /\ IndexSlot(r).header = r
           /\ BlobSlot(r).header = r
           /\ EventSlot(r).header = r
BY DEF IndexSlot, BlobSlot, EventSlot

LEMMA SeqOfPart ==
    ASSUME NEW S, NEW T, NEW s \in Seq(T), \A i \in DOMAIN s : s[i] \in S
    PROVE  s \in Seq(S)
<1>1. s = [i \in 1..Len(s) |-> s[i]] /\ DOMAIN s = 1..Len(s) /\ Len(s) \in Nat
  OBVIOUS
<1> QED BY <1>1

LEMMA FoundType ==
    ASSUME NEW slots \in Seq(Slot)
    PROVE  /\ Found(slots) \in Outcomes
           /\ Found(slots).kind = "found" /\ Found(slots).slots = slots
BY DEF Found, Kinds, Causes, Outcomes

LEMMA ErrorType ==
    ASSUME NEW cause \in Causes
    PROVE  /\ Error(cause) \in Outcomes
           /\ Error(cause).kind = "error" /\ Error(cause).cause = cause
BY DEF Error, Kinds, Outcomes

LEMMA NothingType ==
    /\ Nothing \in Outcomes
    /\ Nothing.kind = "nothing" /\ Nothing.slots = <<>>
BY DEF Nothing, Kinds, Causes, Outcomes

-----------------------------------------------------------------------------
LEMMA InitInv == Init => Inv
<1> SUFFICES ASSUME Init PROVE Inv
  OBVIOUS
<1>1. request \in Request
  BY ResolverAssumption DEF Init
<1>2. WorldInv
  BY <1>1, ResolverAssumption DEF Init, WorldInv, Request, Pairs
<1>3. ShapeInv
  BY DEF Init, ShapeInv, Labels, Kinds, Causes, Waiting, Outcomes
<1>4. ASSUME NEW f \in Fields PROVE FieldInv(f)
  BY DEF Init, FieldInv, EndInv, AccessInv, ListInv, FreshInv, PositionInv,
         LoopInv, SlotInv, OutcomeInv, Waiting
<1>5. ResponseInv
  BY DEF Init, ResponseInv
<1> QED BY <1>2, <1>3, <1>4, <1>5 DEF Inv

(* A step of one resolver leaves the others, and the world, alone. *)
LEMMA OneField ==
    ASSUME Inv, Frame, ShapeInv', NEW f \in Fields, pc[f] # "done", FieldInv(f)',
           \A g \in Fields \ {f} :
              /\ pc'[g] = pc[g] /\ list'[g] = list[g] /\ out'[g] = out[g]
              /\ nonBlobPos'[g] = nonBlobPos[g] /\ outcome'[g] = outcome[g]
    PROVE  Inv'
<1>1. WorldInv'
  BY DEF Inv, WorldInv, Frame, world
<1>2. ASSUME NEW g \in Fields \ {f} PROVE FieldInv(g)'
  <2>1. FieldInv(g)
    BY DEF Inv
  <2>2. request' = request /\ linked' = linked /\ rows' = rows
    BY DEF Frame, world
  <2>3. Ask(g)' = Ask(g)
    BY <2>2 DEF Ask
  <2>4. EndInv(g)' /\ FreshInv(g)' /\ PositionInv(g)'
    BY <2>1 DEF FieldInv, EndInv, FreshInv, PositionInv
  <2>5. AccessInv(g)'
    BY <2>1, <2>2, <2>3 DEF FieldInv, AccessInv, Entitled
  <2>6. ListInv(g)'
    BY <2>1, <2>2, <2>3 DEF FieldInv, ListInv
  <2>7. LoopInv(g)'
    BY <2>1, <2>3 DEF FieldInv, LoopInv
  <2>8. SlotInv(g)'
    BY <2>1, <2>3 DEF FieldInv, SlotInv
  <2>9. OutcomeInv(g)'
    BY <2>1, <2>2, <2>3 DEF FieldInv, OutcomeInv
  <2> QED BY <2>4, <2>5, <2>6, <2>7, <2>8, <2>9 DEF FieldInv
<1>3. ResponseInv'
  BY DEF Inv, ResponseInv, Frame
<1> QED BY <1>1, <1>2, <1>3 DEF Inv

LEMMA GotoKeeps ==
    ASSUME ShapeInv, NEW f \in Fields, NEW label \in Labels, Goto(f, label),
           pc[f] # "done", label # "done", EndInv(f)
    PROVE  /\ pc' \in [Fields -> Labels] /\ outcome' = outcome
           /\ pc'[f] = label /\ \A g \in Fields \ {f} : pc'[g] = pc[g]
           /\ outcome[f].kind = "waiting"
BY DEF ShapeInv, Goto, EndInv

LEMMA ReturnKeeps ==
    ASSUME ShapeInv, NEW f \in Fields,
           NEW o \in Outcomes,
           Return(f, o)
    PROVE  /\ pc' \in [Fields -> Labels]
           /\ outcome' \in [Fields -> Outcomes]
           /\ pc'[f] = "done" /\ outcome'[f] = o
           /\ \A g \in Fields \ {f} : pc'[g] = pc[g] /\ outcome'[g] = outcome[g]
BY DEF ShapeInv, Return, Labels

(* An error keeps nothing of what was assembled. *)
LEMMA FailureInv ==
    ASSUME Inv, NEW f \in Fields, NEW cause \in Failures, Return(f, Error(cause)),
           pc[f] # "done", UNCHANGED <<list, out, nonBlobPos>>, Frame
    PROVE  Inv'
<1>1. FieldInv(f) /\ ShapeInv
  BY DEF Inv
<1>2. /\ Error(cause) \in Outcomes
      /\ Error(cause).kind = "error" /\ Error(cause).cause = cause
  BY ErrorType DEF Failures, Causes
<1>3. /\ ShapeInv' /\ pc'[f] = "done"
      /\ outcome'[f].kind = "error" /\ outcome'[f].cause = cause
  BY <1>1, <1>2, ReturnKeeps DEF ShapeInv
<1>4. request' = request /\ linked' = linked /\ rows' = rows /\ Ask(f)' = Ask(f)
  BY DEF Frame, world, Ask
<1>5. FieldInv(f)'
  BY <1>1, <1>3, <1>4
     DEF FieldInv, EndInv, AccessInv, ListInv, FreshInv, PositionInv, LoopInv, SlotInv,
         OutcomeInv
<1> QED BY <1>1, <1>2, <1>3, <1>5, ReturnKeeps, OneField

(* A check that is passed. *)
LEMMA AdmissionInv ==
    ASSUME Inv, NEW f \in Fields, pc[f] \in {"authorize", "lookup"},
           NEW label \in {"lookup", "query"}, Goto(f, label),
           HasRawData(request.token), label = "query" => Entitled(f),
           UNCHANGED <<list, out, nonBlobPos>>, Frame
    PROVE  Inv'
<1>1. FieldInv(f) /\ ShapeInv
  BY DEF Inv
<1>2. /\ ShapeInv' /\ pc'[f] = label /\ outcome' = outcome
      /\ outcome[f].kind = "waiting"
      /\ \A g \in Fields \ {f} : pc'[g] = pc[g]
  BY <1>1, GotoKeeps DEF ShapeInv, Labels, FieldInv
<1>3. request' = request /\ linked' = linked /\ rows' = rows /\ Ask(f)' = Ask(f)
  BY DEF Frame, world, Ask
<1>4. FieldInv(f)'
  BY <1>1, <1>2, <1>3
     DEF FieldInv, EndInv, AccessInv, ListInv, FreshInv, PositionInv, LoopInv, SlotInv,
         OutcomeInv, Entitled
<1> QED BY <1>2, <1>4, OneField

(* requireSubjectOptsByDID. *)
LEMMA AuthorizeInv == ASSUME Inv, NEW f \in Fields, Authorize(f) PROVE Inv'
<1>1. /\ pc[f] = "authorize" /\ Frame
      /\ UNCHANGED <<list, out, nonBlobPos>>
  BY DEF Authorize
<1>2. CASE Return(f, Error("denied"))
  BY <1>1, <1>2, FailureInv DEF Failures
<1>3. CASE HasRawData(request.token) /\ Ask(f).did = request.token.asset
           /\ Goto(f, "query")
  BY <1>1, <1>3, AdmissionInv DEF Entitled
<1>4. CASE HasRawData(request.token) /\ Goto(f, "lookup")
  BY <1>1, <1>4, AdmissionInv
<1> QED BY <1>2, <1>3, <1>4 DEF Authorize

(* A token's asset is a DID, so a lookup that names it has found a pair. *)
LEMMA LinkedIsPaired ==
    ASSUME WorldInv, HasRawData(request.token), NEW did \in Dids,
           LinkedDID(did) = request.token.asset
    PROVE  <<did, request.token.asset>> \in linked
<1>1. request.token \in Token
  BY DEF WorldInv, Request, HasRawData
<1>2. request.token.asset \in Dids
  BY <1>1 DEF Token
<1>3. aftermarket[did] = request.token.asset \/ synthetic[did] = request.token.asset
  BY DEF LinkedDID
<1>4. <<did, request.token.asset>> \in Pairs(aftermarket, synthetic)
  BY <1>2, <1>3 DEF Pairs
<1> QED BY <1>4 DEF WorldInv

LEMMA AskType ==
    ASSUME WorldInv, NEW f \in Fields
    PROVE  Ask(f) \in Question
BY DEF WorldInv, Request, Ask

LEMMA LookUpInv == ASSUME Inv, NEW f \in Fields, LookUp(f) PROVE Inv'
<1>1. /\ pc[f] = "lookup" /\ Frame
      /\ UNCHANGED <<list, out, nonBlobPos>>
  BY DEF LookUp
<1>2. CASE Return(f, Error("denied"))
  BY <1>1, <1>2, FailureInv DEF Failures
<1>3. CASE LinkedDID(Ask(f).did) = request.token.asset /\ Goto(f, "query")
  <2>1. HasRawData(request.token)
    BY <1>1 DEF Inv, FieldInv, AccessInv
  <2>2. Ask(f).did \in Dids
    BY AskType DEF Inv, Question
  <2>3. Entitled(f)
    BY <1>3, <2>1, <2>2, LinkedIsPaired DEF Inv, Entitled
  <2> QED BY <1>1, <1>3, <2>1, <2>3, AdmissionInv
<1> QED BY <1>2, <1>3 DEF LookUp

(* A page is a list of rows of the field's subject. *)
LEMMA PagesAreLists ==
    ASSUME NEW f \in Fields, NEW limit \in Int, NEW page \in Pages(Selected(f), limit)
    PROVE  /\ page \in Seq(rows)
           /\ \A i \in DOMAIN page : page[i] \in rows /\ page[i].subject = Ask(f).did
<1>1. PICK n \in 1..limit : page \in [1..n -> Selected(f)]
  BY DEF Pages
<1>2. n \in Nat
  OBVIOUS
<1>3. \A r \in Selected(f) : r \in rows /\ r.subject = Ask(f).did
  BY DEF Selected
<1> QED BY <1>1, <1>2, <1>3

(* A tombstone goes on hiding what it hides. *)
LEMMA SuppressionStays ==
    ASSUME NEW table, NEW more, table \subseteq more, NEW r, Suppressed(table, r)
    PROVE  Suppressed(more, r)
BY DEF Suppressed

LEMMA LimitIsInt ==
    ASSUME WorldInv, NEW f \in Fields
    PROVE  ResolveLimit(Ask(f).limit) \in Int
<1>1. Ask(f).limit \in Int \cup {NoLimit}
  BY AskType DEF Question
<1>2. DefaultLimit \in Int
  BY ResolverAssumption
<1> QED BY <1>1, <1>2 DEF ResolveLimit

(* The answer to latestIndex and indexes. *)
LEMMA IndexAnswer ==
    ASSUME NEW page \in Seq(Rows)
    PROVE  LET slots == [i \in DOMAIN page |-> IndexSlot(page[i])]
           IN  slots \in Seq(Slot) /\ DOMAIN slots = DOMAIN page
<1> DEFINE slots == [i \in DOMAIN page |-> IndexSlot(page[i])]
<1>1. DOMAIN page = 1..Len(page) /\ Len(page) \in Nat
  OBVIOUS
<1>2. \A i \in 1..Len(page) : IndexSlot(page[i]) \in Slot
  BY SlotsAreSlots
<1>3. slots \in [1..Len(page) -> Slot]
  BY <1>1, <1>2
<1> QED BY <1>1, <1>3

LEMMA QueryIndexInv == ASSUME Inv, NEW f \in Fields, QueryIndex(f) PROVE Inv'
<1>1. /\ pc[f] = "query" /\ Frame
      /\ UNCHANGED <<out, nonBlobPos>>
      /\ WorldInv /\ ShapeInv /\ FieldInv(f)
  BY DEF QueryIndex, Inv
<1>2. /\ HasRawData(request.token) /\ Entitled(f)
      /\ out[f] = <<>> /\ nonBlobPos[f] = <<>>
  BY <1>1 DEF FieldInv, AccessInv, FreshInv
<1>3. request' = request /\ linked' = linked /\ rows' = rows /\ Ask(f)' = Ask(f)
  BY <1>1 DEF Frame, world, Ask
<1>4. Entitled(f)'
  BY <1>2, <1>3 DEF Entitled
<1>5. CASE Return(f, IndexFailure) /\ UNCHANGED list
  BY <1>1, <1>5, FailureInv DEF Failures, IndexFailure
<1>6. CASE /\ Selected(f) = {}
           /\ Return(f, NoRows) /\ UNCHANGED list
  <2>1. NoRows \in Outcomes /\ NoRows.kind = "nothing" /\ NoRows.slots = <<>>
    BY NothingType DEF NoRows
  <2>2. /\ ShapeInv' /\ pc'[f] = "done" /\ outcome'[f] = NoRows
        /\ \A g \in Fields \ {f} : pc'[g] = pc[g] /\ outcome'[g] = outcome[g]
    BY <1>1, <1>6, <2>1, ReturnKeeps DEF ShapeInv
  <2>3. ASSUME NEW r \in request.rows \cap Ask(f).filter, r.subject = Ask(f).did
        PROVE  ~Ask(f).includeDeleted /\ Suppressed(rows, r)
    <3>1. r \in rows \cap Ask(f).filter /\ r \notin Selected(f)
      BY <1>1, <1>6, <2>3 DEF WorldInv
    <3> QED BY <2>3, <3>1 DEF Selected
  <2>4. FieldInv(f)'
    BY <1>1, <1>2, <1>3, <1>4, <1>6, <2>1, <2>2, <2>3
       DEF FieldInv, EndInv, AccessInv, ListInv, FreshInv, PositionInv, LoopInv, SlotInv,
         OutcomeInv
  <2> QED BY <1>1, <1>6, <2>2, <2>4, OneField
<1> DEFINE limit == IF IsList(f) THEN ResolveLimit(Ask(f).limit) ELSE 1
<1>7. ASSUME NEW page \in Pages(Selected(f), limit),
             list' = [list EXCEPT ![f] = page],
             IF Ask(f).call \in {"latestIndex", "indexes"}
             THEN Return(f, Found([i \in DOMAIN page |-> IndexSlot(page[i])]))
             ELSE Goto(f, "assemble")
      PROVE  Inv'
  <2>1. limit \in Int
    BY <1>1, LimitIsInt
  <2>2. /\ page \in Seq(rows)
        /\ \A i \in DOMAIN page : page[i] \in rows /\ page[i].subject = Ask(f).did
    BY <2>1, PagesAreLists
  <2>3. page \in Seq(Rows)
    BY <2>2, <1>1, SeqOfPart DEF WorldInv
  <2>4. /\ list' \in [Fields -> Seq(Rows)] /\ list'[f] = page
        /\ \A g \in Fields \ {f} : list'[g] = list[g]
    BY <1>1, <1>7, <2>3 DEF ShapeInv
  <2>5. ListInv(f)'
    BY <1>3, <2>2, <2>4 DEF ListInv
  <2>6. Len(page) \in Nat /\ DOMAIN page = 1..Len(page)
    BY <2>3
  <2>7. PositionInv(f)'
    BY <1>1, <1>2, <2>4, <2>6 DEF PositionInv
  <2>8. CASE Ask(f).call \in {"latestIndex", "indexes"}
    <3> DEFINE slots == [i \in DOMAIN page |-> IndexSlot(page[i])]
    <3>1. slots \in Seq(Slot) /\ DOMAIN slots = DOMAIN page
      BY <2>3, IndexAnswer
    <3>2. /\ Found(slots) \in Outcomes
          /\ Found(slots).kind = "found" /\ Found(slots).slots = slots
      BY <3>1, FoundType
    <3>3. /\ pc' \in [Fields -> Labels] /\ outcome' \in [Fields -> Outcomes]
          /\ pc'[f] = "done" /\ outcome'[f] = Found(slots)
          /\ \A g \in Fields \ {f} : pc'[g] = pc[g] /\ outcome'[g] = outcome[g]
      BY <1>1, <1>7, <2>8, <3>2, ReturnKeeps
    <3>4. ShapeInv'
      BY <1>1, <2>4, <3>3 DEF ShapeInv
    <3>5. SlotInv(f)'
      BY <1>3, <2>4, <2>8, <3>1, <3>2, <3>3 DEF SlotInv
    <3>6. EndInv(f)' /\ FreshInv(f)' /\ LoopInv(f)' /\ OutcomeInv(f)'
      BY <3>2, <3>3 DEF EndInv, FreshInv, LoopInv, OutcomeInv
    <3>7. AccessInv(f)'
      BY <1>2, <1>3, <1>4, <3>2, <3>3 DEF AccessInv
    <3>8. FieldInv(f)'
      BY <2>5, <2>7, <3>5, <3>6, <3>7 DEF FieldInv
    <3> QED BY <1>1, <2>4, <3>3, <3>4, <3>8, OneField
  <2>9. CASE Ask(f).call \notin {"latestIndex", "indexes"}
    <3>1. /\ pc' \in [Fields -> Labels] /\ outcome' = outcome
          /\ pc'[f] = "assemble" /\ outcome[f].kind = "waiting"
          /\ \A g \in Fields \ {f} : pc'[g] = pc[g]
      BY <1>1, <1>7, <2>9, GotoKeeps DEF Labels, FieldInv
    <3>2. ShapeInv'
      BY <1>1, <2>4, <3>1 DEF ShapeInv
    <3>3. EndInv(f)' /\ FreshInv(f)' /\ SlotInv(f)' /\ OutcomeInv(f)'
      BY <3>1 DEF EndInv, FreshInv, SlotInv, OutcomeInv
    <3>4. AccessInv(f)'
      BY <1>2, <1>3, <1>4, <3>1 DEF AccessInv
    <3>5. LoopInv(f)'
      BY <1>1, <1>2, <1>3, <2>9 DEF LoopInv
    <3>6. FieldInv(f)'
      BY <2>5, <2>7, <3>3, <3>4, <3>5 DEF FieldInv
    <3> QED BY <1>1, <2>4, <3>1, <3>2, <3>6, OneField
  <2> QED BY <2>8, <2>9
<1> QED BY <1>5, <1>6, <1>7 DEF QueryIndex

LEMMA Appended ==
    ASSUME NEW S, NEW s \in Seq(S), NEW e \in S, NEW t, t = Append(s, e)
    PROVE  /\ Len(t) = Len(s) + 1 /\ Len(t) \in 1..Len(t) /\ t[Len(t)] = e
           /\ \A n \in 1..Len(s) : n \in 1..Len(t) /\ t[n] = s[n]
           /\ \A n \in 1..Len(t) :
                 (n \in 1..Len(s) /\ t[n] = s[n]) \/ (n = Len(t) /\ t[n] = e)
OBVIOUS

(* One turn of the loop: the position passed is either filled or noted. *)
LEMMA TurnInv ==
    ASSUME Inv, NEW f \in Fields, pc[f] = "assemble", Frame,
           Len(out[f]) + 1 <= Len(list[f]), UNCHANGED <<pc, outcome, list>>,
           NEW slot \in Slot \cup {None},
           out' = [out EXCEPT ![f] = Append(@, slot)],
           nonBlobPos' \in [Fields -> Seq(Nat)],
           \A g \in Fields \ {f} : nonBlobPos'[g] = nonBlobPos[g],
           LET i == Len(out[f]) + 1
               r == list[f][i]
           IN  \/ r.blob /\ slot = BlobSlot(r) /\ nonBlobPos' = nonBlobPos
               \/ ~r.blob /\ nonBlobPos'[f] = Append(nonBlobPos[f], i)
    PROVE  Inv'
<1> DEFINE i == Len(out[f]) + 1
           pos == nonBlobPos[f]
<1>1. WorldInv /\ ShapeInv /\ FieldInv(f)
  BY DEF Inv
<1>2. request' = request /\ linked' = linked /\ rows' = rows /\ Ask(f)' = Ask(f)
  BY DEF Frame, world, Ask
<1>3. /\ out[f] \in Seq(Slot \cup {None}) /\ pos \in Seq(Nat) /\ list[f] \in Seq(Rows)
      /\ Len(out[f]) \in Nat /\ Len(pos) \in Nat /\ Len(list[f]) \in Nat
  BY <1>1 DEF ShapeInv
<1>4. /\ out' \in [Fields -> Seq(Slot \cup {None})]
      /\ out'[f] = Append(out[f], slot)
      /\ \A g \in Fields \ {f} : out'[g] = out[g]
  BY <1>1, <1>3 DEF ShapeInv
<1>5. /\ Len(out'[f]) = i /\ out'[f][i] = slot
      /\ \A j \in 1..Len(out[f]) : out'[f][j] = out[f][j]
  BY <1>3, <1>4
<1>6. ShapeInv'
  BY <1>1, <1>4 DEF ShapeInv
<1>7. EndInv(f)' /\ FreshInv(f)' /\ OutcomeInv(f)'
  BY <1>1, <1>2 DEF FieldInv, EndInv, FreshInv, OutcomeInv
<1>8. AccessInv(f)'
  BY <1>1, <1>2 DEF FieldInv, AccessInv, Entitled
<1>9. ListInv(f)' /\ SlotInv(f)'
  BY <1>1, <1>2 DEF FieldInv, ListInv, SlotInv, EndInv
<1>10. /\ \A n \in 1..Len(pos) : pos[n] \in 1..Len(out[f]) /\ ~list[f][pos[n]].blob
       /\ \A j \in 1..Len(out[f]) :
            /\ list[f][j].blob => out[f][j] = BlobSlot(list[f][j])
            /\ ~list[f][j].blob => \E n \in 1..Len(pos) : pos[n] = j
       /\ Ask(f).call \notin {"latestIndex", "indexes"}
  BY <1>1 DEF FieldInv, PositionInv, LoopInv
<1>11. CASE list[f][i].blob /\ slot = BlobSlot(list[f][i]) /\ nonBlobPos' = nonBlobPos
  <2>1. PositionInv(f)'
    BY <1>3, <1>5, <1>10, <1>11 DEF PositionInv
  <2>2. ASSUME NEW j \in 1..i
        PROVE  /\ list[f][j].blob => out'[f][j] = BlobSlot(list[f][j])
               /\ ~list[f][j].blob => \E n \in 1..Len(pos) : pos[n] = j
    <3>1. CASE j = i
      BY <1>5, <1>11, <3>1
    <3>2. CASE j # i
      <4>1. j \in 1..Len(out[f])
        BY <1>3, <3>2
      <4> QED BY <1>5, <1>10, <4>1
    <3> QED BY <3>1, <3>2
  <2>3. LoopInv(f)'
    BY <1>2, <1>5, <1>10, <1>11, <2>2 DEF LoopInv
  <2> QED BY <1>4, <1>6, <1>7, <1>8, <1>9, <2>1, <2>3, OneField DEF FieldInv
<1>12. CASE ~list[f][i].blob /\ nonBlobPos'[f] = Append(pos, i)
  <2> DEFINE new == nonBlobPos'[f]
  <2>1. /\ Len(new) \in 1..Len(new) /\ new[Len(new)] = i
        /\ \A n \in 1..Len(pos) : n \in 1..Len(new) /\ new[n] = pos[n]
        /\ \A n \in 1..Len(new) :
              (n \in 1..Len(pos) /\ new[n] = pos[n]) \/ (n = Len(new) /\ new[n] = i)
    BY <1>3, <1>12, Appended
  <2>2. ASSUME NEW n \in 1..Len(new)
        PROVE  new[n] \in 1..i /\ ~list[f][new[n]].blob
    <3>1. i \in 1..i /\ \A j \in 1..Len(out[f]) : j \in 1..i
      BY <1>3
    <3> HIDE DEF new, i, pos
    <3> QED BY <1>10, <1>12, <2>1, <3>1
  <2>3. PositionInv(f)'
    BY <1>3, <1>5, <2>2 DEF PositionInv
  <2>4. ASSUME NEW j \in 1..i
        PROVE  /\ list[f][j].blob => out'[f][j] = BlobSlot(list[f][j])
               /\ ~list[f][j].blob => \E n \in 1..Len(new) : new[n] = j
    <3>1. j \in 1..Len(out[f]) \/ j = i
      BY <1>3
    <3> HIDE DEF new, i, pos
    <3>2. CASE j = i
      BY <1>12, <2>1, <3>2
    <3>3. CASE j \in 1..Len(out[f])
      <4>1. list[f][j].blob => out'[f][j] = BlobSlot(list[f][j])
        BY <1>5, <1>10, <3>3
      <4>2. ASSUME ~list[f][j].blob PROVE \E n \in 1..Len(new) : new[n] = j
        <5>1. PICK n \in 1..Len(pos) : pos[n] = j
          BY <1>10, <3>3, <4>2
        <5> QED BY <2>1, <5>1
      <4> QED BY <4>1, <4>2
    <3> QED BY <3>1, <3>2, <3>3
  <2>5. LoopInv(f)'
    BY <1>2, <1>5, <1>10, <2>2, <2>4 DEF LoopInv
  <2> QED BY <1>4, <1>6, <1>7, <1>8, <1>9, <2>3, <2>5, OneField DEF FieldInv
<1> QED BY <1>11, <1>12

LEMMA PresignInv == ASSUME Inv, NEW f \in Fields, PresignBlobs(f) PROVE Inv'
<1> DEFINE i == Len(out[f]) + 1
           r == list[f][i]
           Put(slot) == out' = [out EXCEPT ![f] = Append(@, slot)]
<1>1. /\ pc[f] = "assemble" /\ Frame /\ i <= Len(list[f]) /\ list' = list
  BY DEF PresignBlobs
<1>2. /\ out[f] \in Seq(Slot \cup {None}) /\ list[f] \in Seq(Rows)
      /\ nonBlobPos \in [Fields -> Seq(Nat)]
  BY DEF Inv, ShapeInv
<1>3. i \in Nat /\ r \in Rows
  BY <1>1, <1>2
<1>4. CASE r.blob /\ Put(BlobSlot(r)) /\ UNCHANGED <<pc, outcome, nonBlobPos>>
  <2>1. BlobSlot(r) \in Slot \cup {None}
    BY <1>3, SlotsAreSlots
  <2> QED BY <1>1, <1>2, <1>4, <2>1, TurnInv
<1>5. CASE r.blob /\ Return(f, Error("blob")) /\ UNCHANGED <<out, nonBlobPos>>
  BY <1>1, <1>5, FailureInv DEF Failures
<1>6. CASE /\ ~r.blob
           /\ Put(None)
           /\ nonBlobPos' = [nonBlobPos EXCEPT ![f] = Append(@, i)]
           /\ UNCHANGED <<pc, outcome>>
  <2>1. /\ nonBlobPos' \in [Fields -> Seq(Nat)]
        /\ nonBlobPos'[f] = Append(nonBlobPos[f], i)
        /\ \A g \in Fields \ {f} : nonBlobPos'[g] = nonBlobPos[g]
    BY <1>2, <1>3, <1>6
  <2> QED BY <1>1, <1>2, <1>6, <2>1, TurnInv
<1> QED BY <1>4, <1>5, <1>6 DEF PresignBlobs

(* Putting the fetched events back between the blobs gives each row its    *)
(* own slot.                                                               *)
LEMMA FetchRestInv == ASSUME Inv, NEW f \in Fields, FetchRest(f) PROVE Inv'
<1> DEFINE fetched == DOMAIN nonBlobPos[f]
           RowAt(n) == list[f][nonBlobPos[f][n]]
           Whole == [i \in DOMAIN out[f] |->
                       IF \E n \in fetched : SlotOf(f, n) = i
                       THEN EventSlot(RowAt(CHOOSE n \in fetched : SlotOf(f, n) = i))
                       ELSE out[f][i]]
<1>1. /\ pc[f] = "assemble" /\ Frame /\ Len(out[f]) = Len(list[f])
      /\ UNCHANGED <<list, nonBlobPos>>
      /\ WorldInv /\ ShapeInv /\ FieldInv(f)
  BY DEF FetchRest, Inv
<1>2. CASE Return(f, Error("object")) /\ UNCHANGED out
  BY <1>1, <1>2, FailureInv DEF Failures
<1>3. CASE out' = [out EXCEPT ![f] = Whole] /\ Return(f, Found(Whole))
  <2>1. request' = request /\ linked' = linked /\ rows' = rows /\ Ask(f)' = Ask(f)
    BY <1>1 DEF Frame, world, Ask
  <2>2. /\ out[f] \in Seq(Slot \cup {None}) /\ list[f] \in Seq(Rows)
        /\ nonBlobPos[f] \in Seq(Nat)
    BY <1>1 DEF ShapeInv
  <2>3. /\ DOMAIN out[f] = 1..Len(list[f]) /\ DOMAIN list[f] = 1..Len(list[f])
        /\ fetched = 1..Len(nonBlobPos[f]) /\ Len(list[f]) \in Nat
    BY <1>1, <2>2
  <2>4. /\ \A n \in fetched : ~RowAt(n).blob
        /\ \A i \in 1..Len(list[f]) :
            /\ list[f][i].blob => out[f][i] = BlobSlot(list[f][i])
            /\ ~list[f][i].blob => \E n \in fetched : nonBlobPos[f][n] = i
        /\ Ask(f).call \notin {"latestIndex", "indexes"}
    BY <1>1, <2>3 DEF FieldInv, LoopInv
  <2>5. ASSUME NEW i \in 1..Len(list[f])
        PROVE  Whole[i] = IF list[f][i].blob THEN BlobSlot(list[f][i])
                          ELSE EventSlot(list[f][i])
    <3>1. CASE \E n \in fetched : SlotOf(f, n) = i
      <4> DEFINE n == CHOOSE n \in fetched : SlotOf(f, n) = i
      <4>1. n \in fetched /\ nonBlobPos[f][n] = i
        BY <3>1 DEF SlotOf
      <4>2. RowAt(n) = list[f][i] /\ ~list[f][i].blob
        BY <2>4, <4>1
      <4>3. Whole[i] = EventSlot(RowAt(n))
        BY <2>3, <3>1
      <4> QED BY <4>2, <4>3
    <3>2. CASE ~\E n \in fetched : SlotOf(f, n) = i
      <4>1. list[f][i].blob /\ out[f][i] = BlobSlot(list[f][i])
        BY <2>4, <3>2 DEF SlotOf
      <4>2. Whole[i] = out[f][i]
        BY <2>3, <3>2
      <4> QED BY <4>1, <4>2
    <3> QED BY <3>1, <3>2
  <2>6. DOMAIN Whole = 1..Len(list[f]) /\ Whole = [i \in DOMAIN Whole |-> Whole[i]]
    BY <2>3
  <2> HIDE DEF Whole, fetched
  <2>7. ASSUME NEW i \in 1..Len(list[f]) PROVE Whole[i] \in Slot
    BY <2>2, <2>3, <2>5, SlotsAreSlots
  <2>8. Whole \in Seq(Slot) /\ Len(Whole) = Len(list[f])
    BY <2>3, <2>6, <2>7
  <2>9. /\ Found(Whole) \in Outcomes
        /\ Found(Whole).kind = "found" /\ Found(Whole).slots = Whole
    BY <2>8, FoundType
  <2>10. /\ pc' \in [Fields -> Labels] /\ outcome' \in [Fields -> Outcomes]
         /\ pc'[f] = "done" /\ outcome'[f] = Found(Whole)
         /\ \A g \in Fields \ {f} : pc'[g] = pc[g] /\ outcome'[g] = outcome[g]
    BY <1>1, <1>3, <2>9, ReturnKeeps
  <2>11. /\ out' \in [Fields -> Seq(Slot \cup {None})] /\ out'[f] = Whole
         /\ \A g \in Fields \ {f} : out'[g] = out[g]
    <3>1. Whole \in Seq(Slot \cup {None})
      BY <2>8
    <3> QED BY <1>1, <1>3, <3>1 DEF ShapeInv
  <2>12. ShapeInv'
    BY <1>1, <2>10, <2>11 DEF ShapeInv
  <2>13. SlotInv(f)'
    BY <1>1, <2>1, <2>3, <2>4, <2>5, <2>6, <2>9, <2>10 DEF SlotInv
  <2>14. EndInv(f)' /\ FreshInv(f)' /\ LoopInv(f)' /\ OutcomeInv(f)'
    BY <2>9, <2>10 DEF EndInv, FreshInv, LoopInv, OutcomeInv
  <2>15. AccessInv(f)'
    BY <1>1, <2>1 DEF FieldInv, AccessInv, Entitled
  <2>16. ListInv(f)'
    BY <1>1, <2>1 DEF FieldInv, ListInv
  <2>17. PositionInv(f)'
    BY <1>1, <2>8, <2>11 DEF FieldInv, PositionInv
  <2>18. FieldInv(f)'
    BY <2>13, <2>14, <2>15, <2>16, <2>17 DEF FieldInv
  <2> QED BY <1>1, <2>10, <2>11, <2>12, <2>18, OneField
<1> QED BY <1>2, <1>3 DEF FetchRest

-----------------------------------------------------------------------------
(* What changes outside the resolvers only adds: pairs seen, and rows. *)
LEMMA WorldGrows ==
    ASSUME Inv, WorldInv', ResponseInv', UNCHANGED <<request, resolver>>,
           linked \subseteq linked', rows \subseteq rows'
    PROVE  Inv'
<1>1. ShapeInv'
  BY DEF Inv, ShapeInv, resolver
<1>2. ASSUME NEW f \in Fields PROVE FieldInv(f)'
  <2>1. FieldInv(f) /\ Ask(f)' = Ask(f)
    BY DEF Inv, Ask
  <2>2. EndInv(f)' /\ FreshInv(f)' /\ PositionInv(f)' /\ LoopInv(f)' /\ SlotInv(f)'
    BY <2>1 DEF FieldInv, EndInv, FreshInv, PositionInv, LoopInv, SlotInv, resolver
  <2>3. AccessInv(f)' /\ ListInv(f)'
    BY <2>1 DEF FieldInv, AccessInv, Entitled, ListInv, resolver
  <2>4. OutcomeInv(f)'
    BY <2>1, SuppressionStays DEF FieldInv, OutcomeInv, resolver
  <2> QED BY <2>1, <2>2, <2>3, <2>4 DEF FieldInv
<1> QED BY <1>1, <1>2 DEF Inv

LEMMA EnvironmentInv == ASSUME Inv, Environment PROVE Inv'
<1>1. UNCHANGED <<request, resolver, response>> /\ changes' \in 0..MaxChanges
      /\ WorldInv /\ ResponseInv'
  BY ResolverAssumption DEF Environment, Inv, WorldInv, ResponseInv
<1>2. ASSUME NEW device \in Erc721, NEW vehicle \in Dids \cup {None},
             Pair(device, vehicle)
      PROVE  Inv'
  <2>1. /\ aftermarket' \in [Dids -> Dids \cup {None}]
        /\ synthetic' \in [Dids -> Dids \cup {None}]
    BY <1>1, <1>2 DEF Pair, WorldInv
  <2>2. /\ linked' \subseteq Dids \X Dids /\ linked \subseteq linked'
        /\ Pairs(aftermarket', synthetic') \subseteq linked'
    BY <1>1, <1>2 DEF Pair, WorldInv, Pairs
  <2>3. Pairs(aftermarket, synthetic)' = Pairs(aftermarket', synthetic')
    BY DEF Pairs
  <2>4. rows' = rows /\ gone' = gone
    BY <1>2 DEF Pair
  <2>5. WorldInv'
    BY <1>1, <2>1, <2>2, <2>3, <2>4 DEF WorldInv
  <2> QED BY <1>1, <2>2, <2>4, <2>5, WorldGrows
<1>3. ASSUME NEW r \in Rows, InsertRow(r) PROVE Inv'
  <2>1. WorldInv' /\ linked' = linked /\ rows \subseteq rows'
    BY <1>1, <1>3 DEF InsertRow, WorldInv
  <2> QED BY <1>1, <2>1, WorldGrows
<1>4. ASSUME NEW r \in rows, DeleteObject(r) PROVE Inv'
  <2>1. WorldInv' /\ linked' = linked /\ rows' = rows
    BY <1>1, <1>4 DEF DeleteObject, WorldInv
  <2> QED BY <1>1, <2>1, WorldGrows
<1> QED BY <1>2, <1>3, <1>4 DEF Environment

LEMMA RespondInv == ASSUME Inv, Respond PROVE Inv'
<1>1. WorldInv' /\ linked' = linked /\ rows' = rows
  BY DEF Respond, Inv, WorldInv, world
<1>2. ResponseInv'
  BY DEF Respond, ResponseInv, resolver, IsList, Ask
<1> QED BY <1>1, <1>2, WorldGrows DEF Respond

LEMMA StutterInv == ASSUME Inv, UNCHANGED vars PROVE Inv'
<1>1. WorldInv' /\ linked' = linked /\ rows' = rows
  BY DEF vars, Inv, WorldInv, world
<1>2. ResponseInv'
  BY DEF vars, Inv, ResponseInv, resolver, IsList, Ask
<1> QED BY <1>1, <1>2, WorldGrows DEF vars

LEMMA StepInv == Inv /\ [Next]_vars => Inv'
<1> SUFFICES ASSUME Inv, [Next]_vars PROVE Inv'
  OBVIOUS
<1>1. ASSUME NEW f \in Fields, Resolve(f) PROVE Inv'
  BY <1>1, AuthorizeInv, LookUpInv, QueryIndexInv, PresignInv, FetchRestInv DEF Resolve
<1>2. CASE UNCHANGED vars
  BY <1>2, StutterInv
<1> QED BY <1>1, <1>2, RespondInv, EnvironmentInv DEF Next, Step, Finished

LEMMA Invariance == Spec => []Inv
BY InitInv, StepInv, PTL DEF Spec

-----------------------------------------------------------------------------
LEMMA InvTypeOK == Inv => TypeOK
<1> SUFFICES ASSUME Inv PROVE TypeOK
  OBVIOUS
<1>1. WorldInv /\ ShapeInv
  BY DEF Inv
<1>2. ASSUME NEW f \in Fields
      PROVE  /\ list[f] \in Seq(rows)
             /\ out[f] \in Seq(Slot \cup {None})
             /\ nonBlobPos[f] \in Seq(DOMAIN list[f])
             /\ outcome[f] \in Outcomes
             /\ pc[f] = "done" <=> outcome[f].kind # "waiting"
  <2>1. FieldInv(f)
    BY DEF Inv
  <2>2. list[f] \in Seq(rows)
    BY <1>1, <2>1, SeqOfPart DEF ShapeInv, FieldInv, ListInv
  <2>3. nonBlobPos[f] \in Seq(DOMAIN list[f])
    <3>1. /\ nonBlobPos[f] \in Seq(Nat) /\ list[f] \in Seq(Rows)
          /\ out[f] \in Seq(Slot \cup {None})
      BY <1>1 DEF ShapeInv
    <3>2. /\ DOMAIN nonBlobPos[f] = 1..Len(nonBlobPos[f])
          /\ DOMAIN list[f] = 1..Len(list[f])
          /\ Len(out[f]) \in Nat /\ Len(list[f]) \in Nat
      BY <3>1
    <3>3. \A n \in DOMAIN nonBlobPos[f] : nonBlobPos[f][n] \in DOMAIN list[f]
      BY <2>1, <3>2 DEF FieldInv, PositionInv
    <3> QED BY <3>1, <3>3, SeqOfPart
  <2> QED BY <1>1, <2>1, <2>2, <2>3 DEF ShapeInv, FieldInv, EndInv
<1>3. outcome \in [Fields -> Outcomes] /\ pc \in [Fields -> Labels]
  BY <1>1 DEF ShapeInv
<1> QED BY <1>1, <1>2, <1>3 DEF TypeOK, WorldInv, Labels, Outcomes, Kinds

(* Types: in particular no slot of an answer is empty. *)
THEOREM ResolverTypeCorrect == Spec => []TypeOK
BY Invariance, InvTypeOK, PTL

(* Splitting off the blobs and putting the fetched events back gives each  *)
(* row of the list its own slot.                                           *)
THEOREM SlotsAreOwn == Spec => []OwnSlots
<1>1. Inv => OwnSlots
  BY DEF Inv, FieldInv, SlotInv, OwnSlots
<1> QED BY <1>1, Invariance, PTL

(* Nobody is told anything about a subject but the token's own and the     *)
(* devices seen paired with it since the request came.                     *)
THEOREM AccessIsLinked == Spec => []OnlyLinkedSubjects
<1>1. ASSUME Inv, NEW f \in Fields, outcome[f].kind \in {"found", "nothing"}
      PROVE  /\ HasRawData(request.token)
             /\ Entitled(f)
             /\ \A i \in DOMAIN outcome[f].slots :
                    outcome[f].slots[i].header.subject = Ask(f).did
  <2>1. FieldInv(f) /\ WorldInv /\ ShapeInv
    BY <1>1 DEF Inv
  <2>2. HasRawData(request.token) /\ Entitled(f)
    BY <1>1, <2>1 DEF FieldInv, AccessInv
  <2>3. CASE outcome[f].kind = "found"
    <3>1. ASSUME NEW i \in DOMAIN outcome[f].slots
          PROVE  outcome[f].slots[i].header.subject = Ask(f).did
      <4>1. i \in DOMAIN list[f] /\ list[f][i].subject = Ask(f).did
        BY <2>1, <2>3, <3>1 DEF FieldInv, SlotInv, ListInv
      <4>2. outcome[f].slots[i] \in {IndexSlot(list[f][i]), BlobSlot(list[f][i]),
                                     EventSlot(list[f][i])}
        BY <2>1, <2>3, <4>1 DEF FieldInv, SlotInv
      <4> QED BY <4>1, <4>2, SlotsHaveHeaders
    <3> QED BY <2>2, <3>1
  <2>4. CASE outcome[f].kind = "nothing"
    <3>1. outcome[f].slots = <<>>
      BY <2>1, <2>4 DEF FieldInv, OutcomeInv
    <3> QED BY <2>2, <3>1
  <2> QED BY <1>1, <2>3, <2>4
<1>2. Inv => OnlyLinkedSubjects
  BY <1>1 DEF OnlyLinkedSubjects, Entitled
<1> QED BY <1>2, Invariance, PTL

(* "Nothing" is the answer only when no row of the subject meets the       *)
(* filter, but such as a tombstone of the subject voids in a query that    *)
(* leaves deleted ones out.                                                *)
THEOREM NothingIsNothing == Spec => []NothingMeansNothing
<1>1. Inv => NothingMeansNothing
  BY DEF Inv, FieldInv, OutcomeInv, NothingMeansNothing
<1> QED BY <1>1, Invariance, PTL

(* A source without events takes nothing from the other aliases. *)
THEOREM EmptySourcesAreHarmless == Spec => []SiblingsSurvive
<1>1. Inv => SiblingsSurvive
  BY DEF Inv, ResponseInv, FieldInv, OutcomeInv, Failures, SiblingsSurvive
<1> QED BY <1>1, Invariance, PTL
=============================================================================
