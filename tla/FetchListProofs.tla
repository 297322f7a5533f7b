--------------------------- MODULE FetchListProofs ---------------------------
(***************************************************************************)
(* fetch's batch fetch keeps its types, leaves no goroutine behind, hands  *)
(* out exactly what was asked for, and implements BatchFetch -- given only *)
(* that the eventrepo call it makes for the parquet references does.       *)
(***************************************************************************)
EXTENDS FetchList, ListCallProofs

USE DEF NoCall, NoErr, Errors

-----------------------------------------------------------------------------
(* The call to eventrepo. *)

LEMMA RepoVocabulary ==
    /\ RepoCall!NoErr = NoErr
    /\ RepoCall!Pending = Pending
    /\ \A e : RepoCall!Failed(e) = Failed(e)
    /\ \A evs : RepoCall!Delivered(evs) = Delivered(evs)
BY DEF RepoCall!NoErr, RepoCall!Pending, Pending, RepoCall!Failed, Failed,
       RepoCall!Delivered, Delivered

(* What eventrepo may answer. *)
LEMMA RepoAnswers ==
    ASSUME RepoCall!Deliver \/ RepoCall!Fail
    PROVE  /\ pqResult = Pending
           /\ \/ /\ \A n \in DOMAIN parquetPositions :
                        Asked(parquetPositions[n]).fault = NoErr
                 /\ pqResult' = Delivered([n \in DOMAIN parquetPositions |->
                                            Asked(parquetPositions[n]).event])
              \/ \E e : /\ pqResult' = Failed(e)
                        /\ \/ /\ e # NoErr
                              /\ \E n \in DOMAIN parquetPositions :
                                    e = Asked(parquetPositions[n]).fault
                           \/ e = "Canceled" /\ OuterCancelled
                           \/ e = "Other" /\ store.flaky
<1> DEFINE asked == [n \in DOMAIN parquetPositions |->
                        Asked(parquetPositions[n])]
<1>1. RepoCall!Positions = DOMAIN parquetPositions
  BY DEF RepoCall!Positions
<1>2. pqResult = Pending
  BY RepoVocabulary DEF RepoCall!Deliver, RepoCall!Fail
<1>3. CASE RepoCall!Deliver
  BY <1>1, <1>2, <1>3, RepoVocabulary DEF RepoCall!Deliver
<1>4. CASE RepoCall!Fail
  <2>1. PICK e \in RepoCall!Causes : pqResult' = Failed(e)
    BY <1>4, RepoVocabulary DEF RepoCall!Fail
  <2>2. \/ /\ e # NoErr
           /\ \E n \in DOMAIN parquetPositions :
                    e = Asked(parquetPositions[n]).fault
        \/ e = "Canceled" /\ OuterCancelled
        \/ e = "Other" /\ store.flaky
    BY <1>1, <2>1, RepoVocabulary DEF RepoCall!Causes
  <2> QED
    BY <1>2, <2>1, <2>2
<1> QED
  BY <1>3, <1>4

-----------------------------------------------------------------------------
(* Type correctness. *)

TypeInv == TypeOK /\ Attached

(* The JSON steps are pool steps. *)
LEMMA JsonStepIsPoolStep ==
    ASSUME TypeInv, \/ \E k \in DOMAIN jsonItems : FetchSubmitJson(k)
                    \/ \E i \in Positions : FetchJsonTask(i)
    PROVE  /\ JsonCancelled \in BOOLEAN /\ PoolStep(JsonCancelled)
           /\ UNCHANGED <<input, jsonItems, ctxDone, pc, next, result,
                          parquetPositions, groupVars>>
<1>1. /\ JsonCancelled \in BOOLEAN
      /\ HasSlot(RunningJson, Limit) \in BOOLEAN
  BY DEF JsonCancelled, OuterCancelled, HasSlot, TypeInv, TypeOK, ListTypeOK
<1> QED
  BY <1>1 DEF FetchSubmitJson, FetchJsonTask, PoolStep, Frame

(* What eventrepo returns is a result, of as many events as were asked for. *)
LEMMA RepoResultType ==
    ASSUME InputOK, parquetPositions \in Seq(Positions),
           RepoCall!Deliver \/ RepoCall!Fail
    PROVE  pqResult' \in Results
<1>1. ASSUME NEW n \in DOMAIN parquetPositions
      PROVE  /\ Asked(parquetPositions[n]).event \in Event \cup {NoEvent}
             /\ Asked(parquetPositions[n]).fault \in Errors \cup {NoErr}
  <2>1. parquetPositions[n] \in Positions
    OBVIOUS
  <2> QED
    BY <2>1, AskedIsTyped
<1>2. CASE \E e : pqResult' = Failed(e) /\ e \in Errors
  BY <1>2, ResultTypes
<1>3. CASE pqResult' = Delivered([n \in DOMAIN parquetPositions |->
                                    Asked(parquetPositions[n]).event])
  <2> DEFINE S == Event \cup {NoEvent}
             evs == [n \in DOMAIN parquetPositions |->
                        Asked(parquetPositions[n]).event]
  <2>1. /\ DOMAIN parquetPositions = 1..Len(parquetPositions)
        /\ Len(parquetPositions) \in Nat
    BY LenProperties
  <2>2. evs \in [1..Len(parquetPositions) -> S]
    BY <1>1, <2>1
  <2> HIDE DEF S, evs
  <2>3. evs \in UNION {[1..n -> S] : n \in Nat}
    BY <2>1, <2>2
  <2>4. evs \in Seq(S)
    BY <2>3, SeqDef
  <2> QED
    BY <1>3, <2>4, ResultTypes DEF S, evs
<1> QED
  BY <1>1, <1>2, <1>3, RepoAnswers

LEMMA TypeInit == Init => TypeInv
<1> SUFFICES ASSUME Init PROVE TypeInv
  OBVIOUS
<1>1. ListTypeOK /\ Attached
  BY ListTypeInit DEF Init
<1>2. parquetPositions \in Seq(Positions) /\ pqResult \in Results
  BY EmptySeq, ResultTypes DEF Init
<1> QED
  BY <1>1, <1>2 DEF Init, TypeInv, TypeOK

(* A step that leaves the pool's tasks alone keeps the types if it does so *)
(* for what it writes.                                                     *)
LEMMA TypeFrame ==
    ASSUME TypeInv, UNCHANGED <<input, poolVars>>,
           ctxDone' \in BOOLEAN,
           pc' \in {"classify", "run", "done"},
           next' \in 1..(Len(indexes) + 1),
           jsonItems' \in Seq(Positions),
           parquetPositions' \in Seq(Positions),
           poolErr' \in Errors \cup {NoErr},
           outerErr' \in Errors \cup {NoErr},
           events' \in [Positions -> Event \cup {NoEvent}],
           pqState' \in {"idle", "run", "done"},
           jsState' \in {"idle", "run", "done"},
           pqResult' \in Results,
           result' \in Results
    PROVE  TypeInv'
<1>1. /\ indexes' = indexes /\ buckets' = buckets /\ store' = store
      /\ Positions' = Positions
      /\ jsTask' = jsTask /\ tried' = tried /\ call' = call
      /\ flight' = flight /\ shared' = shared
  BY DEF input, Positions, poolVars
<1>2. InputOK' /\ PoolOK' /\ Attached'
  BY <1>1 DEF TypeInv, TypeOK, ListTypeOK, InputOK, PoolOK, Attached
<1> QED
  BY <1>1, <1>2 DEF TypeInv, TypeOK, ListTypeOK

LEMMA TypeStep == TypeInv /\ [Next]_vars => TypeInv'
<1> SUFFICES ASSUME TypeInv, [Next]_vars PROVE TypeInv'
  OBVIOUS
<1>0. /\ InputOK /\ PoolOK
      /\ ctxDone \in BOOLEAN /\ pc \in {"classify", "run", "done"}
      /\ next \in 1..(Len(indexes) + 1) /\ Len(indexes) \in Nat
      /\ jsonItems \in Seq(Positions) /\ parquetPositions \in Seq(Positions)
      /\ poolErr \in Errors \cup {NoErr} /\ outerErr \in Errors \cup {NoErr}
      /\ events \in [Positions -> Event \cup {NoEvent}]
      /\ pqState \in {"idle", "run", "done"}
      /\ jsState \in {"idle", "run", "done"}
      /\ pqResult \in Results /\ result \in Results
      /\ Positions = 1..Len(indexes)
  BY PositionsAreNat DEF TypeInv, TypeOK, ListTypeOK, PoolOK, InputOK
<1> USE <1>0
<1>1. CASE ReturnEmpty
  <2>1. result' \in Results
    BY <1>1, EmptySeq, ResultTypes DEF ReturnEmpty
  <2> QED
    BY <1>1, <2>1, TypeFrame DEF ReturnEmpty, groupVars
<1>2. CASE Split
  <2>1. /\ next \in Positions /\ next' = next + 1
        /\ UNCHANGED <<input, ctxDone, pc, poolErr, poolVars, events, result,
                       groupVars>>
        /\ \/ /\ parquetPositions' = Append(parquetPositions, next)
              /\ UNCHANGED jsonItems
           \/ /\ jsonItems' = Append(jsonItems, next)
              /\ UNCHANGED parquetPositions
    BY <1>2 DEF Split
  <2>2. /\ parquetPositions' \in Seq(Positions)
        /\ jsonItems' \in Seq(Positions)
    <3>1. /\ next \in Positions
          /\ parquetPositions \in Seq(Positions)
          /\ jsonItems \in Seq(Positions)
      BY <2>1
    <3>2. /\ Append(parquetPositions, next) \in Seq(Positions)
          /\ Append(jsonItems, next) \in Seq(Positions)
      BY ONLY <3>1, AppendProperties
    <3> QED
      BY <2>1, <3>1, <3>2
  <2>3. next' \in 1..(Len(indexes) + 1)
    BY <2>1
  <2> QED
    BY <2>1, <2>2, <2>3, TypeFrame DEF groupVars
<1>3. CASE Spawn
  BY <1>3, TypeFrame DEF Spawn
<1>4. CASE RepoReturns
  <2>1. pqResult' \in Results
    BY <1>4, RepoResultType DEF RepoReturns
  <2> QED
    BY <1>4, <2>1, TypeFrame DEF RepoReturns, Frame
<1>5. CASE FinishParquet
  <2>1. pqResult.events \in Seq(Event \cup {NoEvent})
        /\ pqResult.err \in Errors \cup {NoErr}
    BY DEF Results
  <2>2. outerErr' \in Errors \cup {NoErr}
    BY <1>5, <2>1, FirstErrorKeeps DEF FinishParquet, OuterFails
  <2>3. events' \in [Positions -> Event \cup {NoEvent}]
    <3> DEFINE Sub(i) == {n \in DOMAIN pqResult.events : Target(n) = i}
    <3>1. \A n \in DOMAIN pqResult.events :
            pqResult.events[n] \in Event \cup {NoEvent}
      BY <2>1, ElementOfSeq, LenProperties
    <3>2. ASSUME NEW i \in Positions
          PROVE  (IF Sub(i) = {} THEN events[i]
                  ELSE pqResult.events[CHOOSE n \in Sub(i) : TRUE])
                    \in Event \cup {NoEvent}
      <4>1. Sub(i) # {} => (CHOOSE n \in Sub(i) : TRUE) \in DOMAIN pqResult.events
        OBVIOUS
      <4> QED
        BY <3>1, <4>1
    <3>3. \/ UNCHANGED events
          \/ events' = [i \in Positions |->
                    IF Sub(i) = {} THEN events[i]
                    ELSE pqResult.events[CHOOSE n \in Sub(i) : TRUE]]
      BY <1>5 DEF FinishParquet
    <3> QED
      BY <3>2, <3>3
  <2> QED
    BY <1>5, <2>2, <2>3, TypeFrame DEF FinishParquet, Frame
<1>6. CASE FinishJson
  <2>1. outerErr' \in Errors \cup {NoErr}
    BY <1>6, FirstErrorKeeps DEF FinishJson, OuterFails
  <2> QED
    BY <1>6, <2>1, TypeFrame DEF FinishJson, Frame
<1>7. CASE Return
  <2>1. result' \in Results
    BY <1>7, SlotsAreSeq, ResultTypes DEF Return, ReturnWith
  <2> QED
    BY <1>7, <2>1, TypeFrame DEF Return, ReturnWith, groupVars
<1>8. CASE \/ \E k \in DOMAIN jsonItems : FetchSubmitJson(k)
           \/ \E i \in Positions : FetchJsonTask(i)
  <2>1. /\ JsonCancelled \in BOOLEAN /\ PoolStep(JsonCancelled)
        /\ UNCHANGED <<input, jsonItems, ctxDone, pc, next, result,
                       parquetPositions, groupVars>>
    BY <1>8, JsonStepIsPoolStep
  <2>2. PoolOK' /\ Attached'
    BY <2>1, PoolTypeStep DEF TypeInv
  <2> QED
    BY <2>1, <2>2 DEF TypeInv, TypeOK, ListTypeOK, input, Positions, InputOK,
                      groupVars
<1>9. CASE CallerCancels /\ UNCHANGED <<parquetPositions, groupVars>>
  BY <1>9, TypeFrame DEF CallerCancels, groupVars
<1>10. CASE UNCHANGED vars
  BY <1>10, TypeFrame DEF vars, listVars, groupVars
<1> QED
  BY <1>1, <1>2, <1>3, <1>4, <1>5, <1>6, <1>7, <1>8, <1>9, <1>10
     DEF Next, Step, Finished, vars

(* Every variable keeps its type, for every batch, every list of buckets   *)
(* and every limit: in particular the copy of eventrepo's answer writes    *)
(* inside the batch only.                                                  *)
THEOREM TypeCorrect == Spec => []TypeOK
<1>1. TypeInv => TypeOK
  BY DEF TypeInv
<1> QED
  BY <1>1, TypeInit, TypeStep, PTL DEF Spec

-----------------------------------------------------------------------------
(* No goroutine is left behind. *)

(* Tasks run only while the JSON goroutine does, and that one and the      *)
(* parquet goroutine only between the loop and the return.                 *)
GroupsInv ==
    /\ pc = "classify" => pqState = "idle" /\ jsState = "idle"
    /\ pc = "done" => pqState # "run" /\ jsState # "run"
    /\ \A i \in Positions : jsTask[i] # "idle" =>
            /\ jsState # "idle"
            /\ \E k \in DOMAIN jsonItems : jsonItems[k] = i
    /\ jsState = "done" => \A i \in Positions : jsTask[i] \in {"idle", "done"}

LEMMA GroupsInvQuiet == TypeInv /\ GroupsInv => Quiescent
BY DEF GroupsInv, Quiescent, RunningJson, TypeInv, TypeOK, ListTypeOK, PoolOK

LEMMA GroupsInvInit == Init => GroupsInv
BY DEF Init, ListInit, GroupsInv

LEMMA GroupsInvStep == TypeInv /\ GroupsInv /\ [Next]_vars => GroupsInv'
<1> SUFFICES ASSUME TypeInv, GroupsInv, [Next]_vars PROVE GroupsInv'
  OBVIOUS
<1>0. /\ InputOK /\ PoolOK
      /\ jsonItems \in Seq(Positions)
  BY DEF TypeInv, TypeOK, ListTypeOK, PoolOK
<1> USE <1>0
<1>a. ASSUME UNCHANGED <<input, poolVars, jsonItems, pc, pqState, jsState>>
      PROVE  GroupsInv'
  BY <1>a DEF input, Positions, poolVars, GroupsInv
<1>1. CASE ReturnEmpty
  BY <1>1 DEF ReturnEmpty, groupVars, input, Positions, poolVars, GroupsInv
<1>2. CASE Split
  <2>1. \A k \in DOMAIN jsonItems :
            k \in DOMAIN jsonItems' /\ jsonItems'[k] = jsonItems[k]
    <3>1. \/ UNCHANGED jsonItems
          \/ jsonItems' = Append(jsonItems, next) /\ next \in Positions
      BY <1>2 DEF Split
    <3> QED
      BY <3>1, AppendProperties, LenProperties
  <2> QED
    BY <1>2, <2>1 DEF Split, groupVars, input, Positions, poolVars, GroupsInv
<1>3. CASE Spawn
  BY <1>3 DEF Spawn, input, Positions, poolVars, GroupsInv
<1>4. CASE RepoReturns
  BY <1>4, <1>a DEF RepoReturns, Frame
<1>5. CASE FinishParquet
  BY <1>5 DEF FinishParquet, Frame, input, Positions, poolVars, GroupsInv
<1>6. CASE FinishJson
  <2>1. \A i \in Positions : jsTask[i] \in {"idle", "done"}
    BY <1>6 DEF FinishJson, AllJsonDone, GroupsInv
  <2> QED
    BY <1>6, <2>1 DEF FinishJson, Frame, input, Positions, poolVars, GroupsInv
<1>7. CASE Return
  BY <1>7 DEF Return, ReturnWith, groupVars, input, Positions, poolVars,
              GroupsInv
<1>8. ASSUME NEW k \in DOMAIN jsonItems, FetchSubmitJson(k)
      PROVE  GroupsInv'
  <2>1. /\ jsState = "run" /\ UNCHANGED <<indexes, pc, pqState, jsState, jsonItems>>
        /\ jsonItems[k] \in Positions
        /\ \A i \in Positions : i # jsonItems[k] => jsTask'[i] = jsTask[i]
    BY <1>8 DEF FetchSubmitJson, SubmitJson, Frame, groupVars, input, PoolOK
  <2> QED
    BY <2>1 DEF GroupsInv, Positions
<1>9. ASSUME NEW i \in Positions, FetchJsonTask(i)
      PROVE  GroupsInv'
  <2>1. /\ jsTask[i] \notin {"idle", "done"}
        /\ \A j \in Positions : j # i => jsTask'[j] = jsTask[j]
        /\ UNCHANGED <<indexes, pc, pqState, jsState, jsonItems>>
    BY <1>9 DEF FetchJsonTask, JsonTask, Join, TryBucket, NoBuckets, TakeShared,
                Publish, Frame, groupVars, input, PoolOK
  <2> QED
    BY <2>1 DEF GroupsInv, Positions
<1>10. CASE CallerCancels /\ UNCHANGED <<parquetPositions, groupVars>>
  BY <1>10, <1>a DEF CallerCancels, groupVars
<1>11. CASE UNCHANGED vars
  BY <1>11, <1>a DEF vars, listVars, groupVars
<1> QED
  BY <1>1, <1>2, <1>3, <1>4, <1>5, <1>6, <1>7, <1>8, <1>9, <1>10, <1>11
     DEF Next, Step, Finished, vars

(* When fetch has returned, the goroutine that called eventrepo has, the   *)
(* one that ran the JSON tasks has, and so has each of its tasks: nothing  *)
(* is left to write to the slice, whichever of them failed first.          *)
THEOREM NoGoroutineLeft == Spec => []Quiescent
<1> DEFINE I == TypeInv /\ GroupsInv
<1>1. Init => I
  BY TypeInit, GroupsInvInit
<1>2. I /\ [Next]_vars => I'
  BY TypeStep, GroupsInvStep
<1>3. I => Quiescent
  BY GroupsInvQuiet
<1> QED
  BY <1>1, <1>2, <1>3, PTL DEF Spec

-----------------------------------------------------------------------------
(* The inductive invariant of the promise. *)

(* The inputs the result below is about (see Consistent). *)
ConsistentInputs == \A in \in Inputs : Consistent(in.store, in.indexes)

(* Position i was put on one of the two sides. *)
Queued(i) ==
    \/ \E k \in DOMAIN jsonItems : jsonItems[k] = i
    \/ \E n \in DOMAIN parquetPositions : parquetPositions[n] = i

SplitInv ==
    /\ \A n \in DOMAIN parquetPositions :
            IsParquetRef(indexes[parquetPositions[n]])
    /\ pc # "done" => result = Pending
    /\ pc # "done" => \A i \in Positions : i < next => Queued(i)
    /\ pc = "run" => next \notin Positions

(* What the eventrepo call answered, and what became of it. *)
RepoInv ==
    /\ pc = "classify" => pqResult = Pending
    /\ pqResult.state = "ok" =>
        /\ DOMAIN pqResult.events = DOMAIN parquetPositions
        /\ \A n \in DOMAIN parquetPositions :
            /\ Asked(parquetPositions[n]).fault = NoErr
            /\ pqResult.events[n] = Asked(parquetPositions[n]).event
    /\ pqResult.state = "failed" =>
            pqResult.err # NoErr /\ (pqResult.err \in Causes \/ outerErr # NoErr)
    /\ pqState = "done" /\ outerErr = NoErr =>
            \A n \in DOMAIN parquetPositions : Served(parquetPositions[n])

(* The outer group keeps a cause; until it keeps one, so does the pool     *)
(* (the pool's tasks may report a cancellation by the outer group, but     *)
(* then the outer group has its error already).                            *)
CauseInv ==
    /\ outerErr \in Causes \cup {NoErr}
    /\ outerErr = NoErr => ErrInv
    /\ jsState = "idle" => poolErr = NoErr
    /\ jsState = "done" =>
        /\ \A k \in DOMAIN jsonItems : jsTask[jsonItems[k]] = "done"
        /\ outerErr = NoErr => poolErr = NoErr

Inv ==
    /\ TypeInv
    /\ GroupsInv
    /\ Consistent(store, indexes)
    /\ SplitInv
    /\ RepoInv
    /\ CauseInv
    /\ JsonInv

LEMMA InvInit == ConsistentInputs /\ Init => Inv
<1> SUFFICES ASSUME ConsistentInputs, Init PROVE Inv
  OBVIOUS
<1>1. TypeInv /\ GroupsInv
  BY TypeInit, GroupsInvInit
<1>2. InputOK
  BY <1>1 DEF TypeInv, TypeOK, ListTypeOK
<1> USE PositionsAreNat, <1>2
<1>3. Consistent(store, indexes)
  BY DEF ConsistentInputs, Init, ListInit
<1>4. SplitInv
  BY DEF Init, ListInit, SplitInv
<1>5. RepoInv
  BY DEF Init, ListInit, RepoInv, Pending
<1>6. CauseInv
  BY DEF Init, ListInit, CauseInv, ErrInv, Unpublished
<1>7. JsonInv
  BY DEF Init, ListInit, JsonInv, Unpublished
<1> QED
  BY <1>1, <1>3, <1>4, <1>5, <1>6, <1>7 DEF Inv

(* Steps that touch neither the slots, nor the pool, nor eventrepo's       *)
(* answer, nor what is queued.                                             *)
LEMMA QuietKeeps ==
    ASSUME Inv, TypeInv', GroupsInv',
           UNCHANGED <<input, next, jsonItems, parquetPositions, poolErr,
                       poolVars, events, outerErr, pqResult>>,
           ctxDone => ctxDone',
           \/ UNCHANGED <<pc, result, pqState, jsState>>
           \/ pc' = "done" /\ UNCHANGED <<pqState, jsState>>
           \/ /\ pc = "classify" /\ pc' = "run" /\ next \notin Positions
              /\ result' = result
              /\ pqState' = "done" => parquetPositions = <<>>
              /\ jsState' = "done" => jsonItems = <<>>
              /\ jsState' # "idle"
    PROVE  Inv'
<1>1. /\ indexes' = indexes /\ store' = store /\ buckets' = buckets
      /\ Positions' = Positions /\ InputOK
  BY AskedUnchanged DEF Inv, TypeInv, TypeOK, ListTypeOK
<1>2. /\ \A i : Asked(i)' = Asked(i)
      /\ \A i : Served(i)' = Served(i)
      /\ Causes \subseteq Causes'
      /\ jsTask' = jsTask
  BY <1>1, AskedUnchanged, CausesGrow DEF Asked, Served, poolVars
<1>3. SplitInv'
  BY <1>1 DEF Inv, SplitInv, Queued
<1>4. RepoInv'
  BY <1>2 DEF Inv, RepoInv
<1>5. CauseInv'
  <2>1. outerErr = NoErr => ErrInv'
    BY ErrInvFrame DEF Inv, CauseInv, poolVars
  <2>2. /\ outerErr' \in Causes' \cup {NoErr}
        /\ jsState' = "idle" => poolErr' = NoErr
    BY <1>2 DEF Inv, CauseInv
  <2>3. jsState' = "done" =>
            /\ \A k \in DOMAIN jsonItems : jsTask[jsonItems[k]] = "done"
            /\ outerErr = NoErr => poolErr = NoErr
    BY DEF Inv, CauseInv, GroupsInv
  <2> QED
    BY <1>2, <2>1, <2>2, <2>3 DEF CauseInv
<1>6. JsonInv'
  <2>1. \A k \in DOMAIN jsonItems' : ~IsParquetRef(indexes[jsonItems'[k]])
    BY DEF Inv, JsonInv
  <2> QED
    BY <1>1, <2>1, JsonInvFrame DEF Inv
<1> QED
  BY <1>1, <1>3, <1>4, <1>5, <1>6 DEF Inv

LEMMA SplitKeeps ==
    ASSUME Inv, TypeInv', GroupsInv', Split
    PROVE  Inv'
<1>1. /\ pc = "classify" /\ next \in Positions /\ next' = next + 1
      /\ UNCHANGED <<input, ctxDone, pc, poolErr, poolVars, events, result,
                     groupVars>>
      /\ InputOK /\ next \in Nat /\ Positions \subseteq Nat
      /\ jsonItems \in Seq(Positions) /\ parquetPositions \in Seq(Positions)
  BY PositionsAreNat DEF Split, Inv, TypeInv, TypeOK, ListTypeOK, PoolOK
<1>2. /\ indexes' = indexes /\ store' = store /\ buckets' = buckets
      /\ Positions' = Positions
  BY <1>1, AskedUnchanged
<1>3. /\ pqState = "idle" /\ jsState = "idle" /\ pqResult = Pending
      /\ UNCHANGED <<outerErr, pqState, jsState, pqResult>>
  BY <1>1 DEF Inv, GroupsInv, RepoInv, groupVars
<1>4. RepoInv'
  BY <1>1, <1>3 DEF RepoInv, Pending
<1>5. CauseInv'
  <2>1. outerErr = NoErr => ErrInv'
    BY <1>1, ErrInvFrame DEF Inv, CauseInv, poolVars
  <2>2. Causes \subseteq Causes'
    BY <1>1, CausesGrow
  <2> QED
    BY <1>1, <1>3, <2>1, <2>2 DEF Inv, CauseInv
<1>6. ASSUME \A k \in DOMAIN jsonItems' : ~IsParquetRef(indexes[jsonItems'[k]]),
             \A n \in DOMAIN parquetPositions' :
                IsParquetRef(indexes[parquetPositions'[n]]),
             \A i \in Positions : Queued(i) \/ i = next => Queued(i)'
      PROVE  Inv'
  <2>1. JsonInv'
    BY <1>1, <1>6, JsonInvFrame DEF Inv
  <2>2. SplitInv'
    <3>1. \A i \in Positions : i < next + 1 => i < next \/ i = next
      BY <1>1
    <3> QED
      BY <1>1, <1>2, <1>6, <3>1 DEF Inv, SplitInv
  <2> QED
    BY <1>2, <1>4, <1>5, <2>1, <2>2 DEF Inv
<1>7. CASE IsParquetRef(indexes[next])
  <2>1. /\ parquetPositions' = Append(parquetPositions, next)
        /\ UNCHANGED jsonItems
    BY <1>7 DEF Split
  <2>2. /\ \A n \in DOMAIN parquetPositions :
                /\ n \in DOMAIN parquetPositions'
                /\ parquetPositions'[n] = parquetPositions[n]
        /\ \A n \in DOMAIN parquetPositions' :
                \/ parquetPositions'[n] = next
                \/ \E m \in DOMAIN parquetPositions :
                        parquetPositions'[n] = parquetPositions[m]
        /\ \E n \in DOMAIN parquetPositions' : parquetPositions'[n] = next
    BY <1>1, <2>1, AppendProperties, LenProperties
  <2>3. \A i \in Positions : Queued(i) \/ i = next => Queued(i)'
    BY <2>1, <2>2 DEF Queued
  <2>4. \A n \in DOMAIN parquetPositions' :
            IsParquetRef(indexes[parquetPositions'[n]])
    BY <1>7, <2>2 DEF Inv, SplitInv
  <2> QED
    BY <1>6, <2>1, <2>3, <2>4 DEF Inv, JsonInv
<1>8. CASE ~IsParquetRef(indexes[next])
  <2>1. /\ jsonItems' = Append(jsonItems, next)
        /\ UNCHANGED parquetPositions
    BY <1>8 DEF Split
  <2>2. /\ \A k \in DOMAIN jsonItems :
                k \in DOMAIN jsonItems' /\ jsonItems'[k] = jsonItems[k]
        /\ \A k \in DOMAIN jsonItems' :
                jsonItems'[k] = next \/ \E l \in DOMAIN jsonItems :
                                            jsonItems'[k] = jsonItems[l]
        /\ \E k \in DOMAIN jsonItems' : jsonItems'[k] = next
    BY <1>1, <2>1, AppendProperties, LenProperties
  <2>3. \A i \in Positions : Queued(i) \/ i = next => Queued(i)'
    BY <2>1, <2>2 DEF Queued
  <2>4. \A k \in DOMAIN jsonItems' : ~IsParquetRef(indexes[jsonItems'[k]])
    BY <1>8, <2>2 DEF Inv, JsonInv
  <2> QED
    BY <1>6, <2>1, <2>3, <2>4 DEF Inv, SplitInv
<1> QED
  BY <1>7, <1>8

(* What the steps of the goroutines share. *)
LEMMA FrameKeeps ==
    ASSUME Inv, Frame
    PROVE  /\ indexes' = indexes /\ store' = store /\ buckets' = buckets
           /\ Positions' = Positions /\ Causes' = Causes
           /\ \A i : Asked(i)' = Asked(i)
           /\ \A i : events'[i] = events[i] => Served(i)' = Served(i)
           /\ Consistent(store, indexes)'
           /\ SplitInv'
<1>1. UNCHANGED <<input, ctxDone, pc, next, result, jsonItems, parquetPositions>>
  BY DEF Frame
<1>2. /\ indexes' = indexes /\ store' = store /\ buckets' = buckets
      /\ Positions' = Positions /\ Causes' = Causes
      /\ \A i : Asked(i)' = Asked(i)
      /\ \A i : events'[i] = events[i] => Served(i)' = Served(i)
  BY <1>1, AskedUnchanged DEF Causes, Asked, Served
<1>3. SplitInv'
  BY <1>1, <1>2 DEF Inv, SplitInv, Queued
<1> QED
  BY <1>2, <1>3 DEF Inv

(* The answer of eventrepo's call is to the references it was handed; a    *)
(* Canceled is the caller's, or another goroutine has failed.              *)
LEMMA RepoReturnsKeeps ==
    ASSUME Inv, TypeInv', GroupsInv', RepoReturns
    PROVE  Inv'
<1>1. /\ pqState = "run" /\ Frame /\ (RepoCall!Deliver \/ RepoCall!Fail)
      /\ UNCHANGED <<outerErr, pqState, jsState, poolErr, poolVars, events>>
  BY DEF RepoReturns
<1>2. /\ parquetPositions \in Seq(Positions) /\ InputOK
      /\ UNCHANGED <<input, jsonItems, parquetPositions, pc>>
  BY <1>1 DEF Inv, TypeInv, TypeOK, ListTypeOK, Frame
<1>3. pqResult'.state = "ok" =>
        /\ DOMAIN pqResult'.events = DOMAIN parquetPositions
        /\ \A n \in DOMAIN parquetPositions :
            /\ Asked(parquetPositions[n]).fault = NoErr
            /\ pqResult'.events[n] = Asked(parquetPositions[n]).event
  BY <1>1, RepoAnswers DEF Delivered, Failed
<1>4. pqResult'.state = "failed" =>
        pqResult'.err # NoErr /\ (pqResult'.err \in Causes \/ outerErr # NoErr)
  <2>1. ASSUME pqResult'.state = "failed"
        PROVE  \E e : /\ pqResult'.err = e
                      /\ \/ /\ e # NoErr
                            /\ \E n \in DOMAIN parquetPositions :
                                    e = Asked(parquetPositions[n]).fault
                         \/ e = "Canceled" /\ OuterCancelled
                         \/ e = "Other" /\ store.flaky
    BY <1>1, <2>1, RepoAnswers DEF Delivered, Failed
  <2>2. \A n \in DOMAIN parquetPositions : parquetPositions[n] \in Positions
    BY <1>2
  <2> QED
    BY <2>1, <2>2 DEF Causes, Asked, OuterCancelled
<1>5. RepoInv'
  <2>1. pc # "classify"
    BY <1>1 DEF Inv, GroupsInv
  <2>2. pqState' # "done"
    BY <1>1
  <2> QED
    BY <1>1, <1>2, <1>3, <1>4, <2>1, <2>2, FrameKeeps DEF RepoInv
<1>6. CauseInv'
  <2>1. ErrInv => ErrInv'
    BY <1>1, <1>2, FrameKeeps DEF ErrInv, poolVars
  <2> QED
    BY <1>1, <1>2, <2>1, FrameKeeps DEF Inv, CauseInv, poolVars
<1>7. JsonInv'
  <2>1. \A k \in DOMAIN jsonItems' : ~IsParquetRef(indexes[jsonItems'[k]])
    BY <1>2 DEF Inv, JsonInv
  <2> QED
    BY <1>1, <1>2, <2>1, JsonInvFrame DEF Inv
<1> QED
  BY <1>1, <1>5, <1>6, <1>7, FrameKeeps DEF Inv

(* The copy writes the slots of parquet references, each with its event. *)
LEMMA FinishParquetKeeps ==
    ASSUME Inv, TypeInv', GroupsInv', FinishParquet
    PROVE  Inv'
<1>1. /\ pqState = "run" /\ pqState' = "done" /\ Frame
      /\ UNCHANGED <<pqResult, jsState, poolErr, poolVars>>
      /\ InputOK /\ PoolOK /\ parquetPositions \in Seq(Positions)
      /\ outerErr \in Errors \cup {NoErr} /\ pqResult.err \in Errors \cup {NoErr}
  BY DEF FinishParquet, Inv, TypeInv, TypeOK, ListTypeOK, Results
<1>2. UNCHANGED <<input, ctxDone, jsonItems, parquetPositions, pc>>
  BY <1>1 DEF Frame
<1>3. pc # "classify"
  BY <1>1 DEF Inv, GroupsInv
<1>4. JsonInv' /\ (ErrInv => ErrInv')
  <2>1. \A k \in DOMAIN jsonItems' : ~IsParquetRef(indexes[jsonItems'[k]])
    BY <1>2 DEF Inv, JsonInv
  <2>2. \A i \in Positions : ~IsParquetRef(indexes[i]) => events'[i] = events[i]
    <3>1. CASE UNCHANGED events
      BY <3>1
    <3>2. CASE pqResult.state = "ok"
      <4> DEFINE Sub(i) == {n \in DOMAIN pqResult.events : Target(n) = i}
      <4>1. events' = [i \in Positions |->
                IF Sub(i) = {} THEN events[i]
                ELSE pqResult.events[CHOOSE n \in Sub(i) : TRUE]]
        BY <3>2 DEF FinishParquet
      <4>2. \A i \in Positions : ~IsParquetRef(indexes[i]) => Sub(i) = {}
        BY <3>2 DEF Inv, RepoInv, SplitInv, Target
      <4> QED
        BY <4>1, <4>2
    <3> QED
      BY <3>1, <3>2 DEF FinishParquet
  <2> QED
    BY <1>1, <1>2, <2>1, <2>2, JsonInvFrame, ErrInvFrame DEF Inv, poolVars
<1>5. CASE pqResult.state = "ok"
  <2> DEFINE Sub(i) == {n \in DOMAIN pqResult.events : Target(n) = i}
  <2>1. /\ events' = [i \in Positions |->
                IF Sub(i) = {} THEN events[i]
                ELSE pqResult.events[CHOOSE n \in Sub(i) : TRUE]]
        /\ UNCHANGED outerErr
    BY <1>5 DEF FinishParquet
  <2>2. ASSUME NEW n \in DOMAIN parquetPositions
        PROVE  Served(parquetPositions[n])'
    <3>1. PICK i \in Positions : i = parquetPositions[n]
      BY <1>1
    <3>2. n \in Sub(i)
      BY <1>5, <3>1 DEF Inv, RepoInv, Target
    <3>3. PICK m \in Sub(i) : events'[i] = pqResult.events[m]
      BY <2>1, <3>2
    <3>4. /\ m \in DOMAIN parquetPositions /\ parquetPositions[m] = i
          /\ Asked(i).fault = NoErr /\ events'[i] = Asked(i).event
      BY <1>5, <3>3 DEF Inv, RepoInv, Target
    <3>5. FaultOf(indexes[i]) = NoErr /\ events'[i] = EventOf(indexes[i])
      BY <3>4 DEF Asked
    <3> QED
      BY <1>2, <3>1, <3>5, AskedUnchanged DEF Served
  <2>3. RepoInv'
    BY <1>1, <1>2, <1>3, <1>5, <2>1, <2>2, FrameKeeps DEF Inv, RepoInv
  <2>4. CauseInv'
    BY <1>1, <1>2, <1>4, <2>1, FrameKeeps DEF Inv, CauseInv, poolVars
  <2> QED
    BY <1>1, <1>4, <2>3, <2>4, FrameKeeps DEF Inv
<1>6. CASE pqResult.state # "ok"
  <2>1. /\ pqResult.state = "failed" /\ UNCHANGED events
        /\ outerErr' = FirstError(outerErr, pqResult.err, NoErr)
    BY <1>6 DEF FinishParquet, OuterFails
  <2>2. /\ pqResult.err # NoErr
        /\ pqResult.err \in Causes \/ outerErr # NoErr
    BY <2>1 DEF Inv, RepoInv
  <2>3. /\ outerErr' # NoErr
        /\ outerErr' \in Causes
    BY <1>1, <2>1, <2>2, FirstErrorKeeps DEF Inv, CauseInv
  <2>4. RepoInv'
    BY <1>1, <1>2, <1>3, <2>1, <2>2, <2>3, FrameKeeps DEF RepoInv
  <2>5. CauseInv'
    BY <1>1, <1>2, <2>3, FrameKeeps DEF Inv, CauseInv, poolVars
  <2> QED
    BY <1>1, <1>4, <2>4, <2>5, FrameKeeps DEF Inv
<1> QED
  BY <1>5, <1>6

(* The pool is waited for, and its error kept unless there is one already. *)
LEMMA FinishJsonKeeps ==
    ASSUME Inv, TypeInv', GroupsInv', FinishJson
    PROVE  Inv'
<1>1. /\ jsState = "run" /\ AllJsonDone /\ jsState' = "done" /\ Frame
      /\ outerErr' = FirstError(outerErr, poolErr, NoErr)
      /\ UNCHANGED <<pqState, pqResult, poolErr, poolVars, events>>
      /\ InputOK /\ PoolOK /\ poolErr \in Errors \cup {NoErr}
      /\ outerErr \in Errors \cup {NoErr}
  BY DEF FinishJson, OuterFails, Inv, TypeInv, TypeOK, ListTypeOK, PoolOK
<1>2. UNCHANGED <<input, ctxDone, jsonItems, parquetPositions, pc>>
  BY <1>1 DEF Frame
<1>3. /\ outerErr # NoErr => outerErr' = outerErr
      /\ outerErr = NoErr => outerErr' = poolErr
  BY <1>1, FirstErrorKeeps
<1>4. RepoInv'
  BY <1>1, <1>2, <1>3, FrameKeeps DEF Inv, RepoInv
<1>5. JsonInv' /\ (ErrInv => ErrInv')
  <2>1. \A k \in DOMAIN jsonItems' : ~IsParquetRef(indexes[jsonItems'[k]])
    BY <1>2 DEF Inv, JsonInv
  <2> QED
    BY <1>1, <1>2, <2>1, JsonInvFrame, ErrInvFrame DEF Inv, poolVars
<1>6. CauseInv'
  <2>1. outerErr' \in Causes \cup {NoErr}
    BY <1>3 DEF Inv, CauseInv, ErrInv
  <2>2. \A k \in DOMAIN jsonItems : jsTask[jsonItems[k]] = "done"
    BY <1>1 DEF AllJsonDone
  <2>3. outerErr' = NoErr => ErrInv' /\ poolErr' = NoErr
    BY <1>1, <1>3, <1>5 DEF Inv, CauseInv
  <2> QED
    BY <1>1, <1>2, <2>1, <2>2, <2>3, FrameKeeps DEF CauseInv, poolVars
<1> QED
  BY <1>1, <1>4, <1>5, <1>6, FrameKeeps DEF Inv

LEMMA JsonKeeps ==
    ASSUME Inv, TypeInv', GroupsInv',
           \/ \E k \in DOMAIN jsonItems : FetchSubmitJson(k)
           \/ \E i \in Positions : FetchJsonTask(i)
    PROVE  Inv'
<1>1. /\ JsonCancelled \in BOOLEAN /\ PoolStep(JsonCancelled) /\ Frame
      /\ UNCHANGED <<input, jsonItems, ctxDone, pc, next, result,
                     parquetPositions, groupVars>>
  BY JsonStepIsPoolStep DEF Inv, FetchSubmitJson, FetchJsonTask
<1>2. /\ InputOK /\ PoolOK /\ Attached
      /\ parquetPositions \in Seq(Positions)
  BY DEF Inv, TypeInv, TypeOK, ListTypeOK
<1>3. UNCHANGED <<outerErr, pqState, pqResult, jsState>>
  BY <1>1 DEF groupVars
<1>4. JsonInv'
  BY <1>1, <1>2, JsonInvStep DEF Inv
<1>5. jsState = "run"
  <2>1. \A i \in Positions : FetchJsonTask(i) => jsTask[i] \notin {"idle", "done"}
    BY DEF FetchJsonTask, JsonTask, Join, TryBucket, NoBuckets, TakeShared
  <2>2. jsState \in {"idle", "run", "done"}
    BY DEF Inv, TypeInv, TypeOK
  <2> QED
    BY <2>1, <2>2 DEF Inv, GroupsInv, FetchSubmitJson
<1>6. CauseInv'
  <2>1. outerErr = NoErr => ErrInv'
    <3> HAVE outerErr = NoErr
    <3>1. JsonCancelled => ctxDone \/ poolErr # NoErr
      BY DEF JsonCancelled, OuterCancelled
    <3> QED
      BY <1>1, <1>2, <3>1, ErrInvStep DEF Inv, CauseInv
  <2> QED
    BY <1>1, <1>3, <1>5, <2>1, FrameKeeps DEF Inv, CauseInv
<1>7. RepoInv'
  <2>1. \A i \in Positions : IsParquetRef(indexes[i]) => events'[i] = events[i]
    BY <1>1, <1>2, PoolStepSlots DEF Inv
  <2>2. \A n \in DOMAIN parquetPositions :
            Served(parquetPositions[n]) => Served(parquetPositions[n])'
    <3>1. ASSUME NEW n \in DOMAIN parquetPositions, Served(parquetPositions[n])
          PROVE  Served(parquetPositions[n])'
      <4>1. PICK i \in Positions : i = parquetPositions[n]
        BY <1>2
      <4>2. events'[i] = events[i]
        BY <2>1, <4>1 DEF Inv, SplitInv
      <4> QED
        BY <1>1, <3>1, <4>1, <4>2, AskedUnchanged DEF Served
    <3> QED
      BY <3>1
  <2> QED
    BY <1>1, <1>3, <2>2, FrameKeeps DEF Inv, RepoInv
<1> QED
  BY <1>1, <1>4, <1>6, <1>7, FrameKeeps DEF Inv

LEMMA InvStep == Inv /\ [Next]_vars => Inv'
<1> SUFFICES ASSUME Inv, [Next]_vars PROVE Inv'
  OBVIOUS
<1>1. TypeInv' /\ GroupsInv'
  BY TypeStep, GroupsInvStep DEF Inv
<1>2. CASE ReturnEmpty
  BY <1>1, <1>2, QuietKeeps DEF ReturnEmpty, groupVars
<1>3. CASE Split
  BY <1>1, <1>3, SplitKeeps
<1>4. CASE Spawn
  BY <1>1, <1>4, QuietKeeps DEF Spawn
<1>5. CASE RepoReturns
  BY <1>1, <1>5, RepoReturnsKeeps
<1>6. CASE FinishParquet
  BY <1>1, <1>6, FinishParquetKeeps
<1>7. CASE FinishJson
  BY <1>1, <1>7, FinishJsonKeeps
<1>8. CASE Return
  BY <1>1, <1>8, QuietKeeps DEF Return, ReturnWith, groupVars
<1>9. CASE \/ \E k \in DOMAIN jsonItems : FetchSubmitJson(k)
           \/ \E i \in Positions : FetchJsonTask(i)
  BY <1>1, <1>9, JsonKeeps
<1>10. CASE CallerCancels /\ UNCHANGED <<parquetPositions, groupVars>>
  BY <1>1, <1>10, QuietKeeps DEF CallerCancels, groupVars
<1>11. CASE UNCHANGED vars
  BY <1>1, <1>11, QuietKeeps DEF vars, listVars, groupVars
<1> QED
  BY <1>2, <1>3, <1>4, <1>5, <1>6, <1>7, <1>8, <1>9, <1>10, <1>11
     DEF Next, Step, Finished, vars

LEMMA Invariance ==
    ASSUME ConsistentInputs
    PROVE  Spec => []Inv
BY InvInit, InvStep, PTL DEF Spec

-----------------------------------------------------------------------------
(* The refinement: every step of the call is a step of BatchFetch, or one  *)
(* its caller cannot see.                                                  *)

(* When both goroutines are done and no error was kept, every slot is      *)
(* served.                                                                 *)
LEMMA AllServed ==
    ASSUME Inv, Return, outerErr = NoErr, NEW i \in Positions
    PROVE  Served(i)
<1>1. /\ pc = "run" /\ pqState = "done" /\ jsState = "done"
      /\ InputOK /\ PoolOK /\ next \in 1..(Len(indexes) + 1)
      /\ Len(indexes) \in Nat /\ Positions = 1..Len(indexes)
  BY PositionsAreNat
     DEF Return, ReturnWith, Inv, TypeInv, TypeOK, ListTypeOK, InputOK
<1>2. Queued(i)
  <2>1. i < next
    BY <1>1 DEF Inv, SplitInv
  <2> QED
    BY <1>1, <2>1 DEF Inv, SplitInv
<1>3. ASSUME NEW k \in DOMAIN jsonItems, jsonItems[k] = i
      PROVE  Served(i)
  BY <1>1, <1>3 DEF Inv, CauseInv, JsonInv
<1>4. ASSUME NEW n \in DOMAIN parquetPositions, parquetPositions[n] = i
      PROVE  Served(i)
  BY <1>1, <1>4 DEF Inv, RepoInv
<1> QED
  BY <1>2, <1>3, <1>4 DEF Queued

LEMMA InitRefines == Init => Batch!Init
<1> SUFFICES ASSUME Init PROVE Batch!Init
  OBVIOUS
<1>1. InputOK
  BY TypeInit DEF TypeInv, TypeOK, ListTypeOK
<1>2. [i \in Positions |-> Asked(i)] \in Batch!Request
  BY <1>1, AskedIsRequest, SameVocabulary DEF Batch!Request
<1>3. store.flaky \in BOOLEAN
  BY <1>1 DEF InputOK, Store
<1>4. ctxDone = FALSE /\ result = Pending
  BY DEF Init, ListInit
<1> QED
  BY <1>2, <1>3, <1>4, SameVocabulary DEF Batch!Init

LEMMA StepRefines == Inv /\ [Next]_vars => [Batch!Next]_Batch!batchVars
<1> SUFFICES ASSUME Inv, [Next]_vars PROVE [Batch!Next]_Batch!batchVars
  OBVIOUS
<1>1. UNCHANGED input
  BY DEF Next, Step, ReturnEmpty, Split, Spawn, Return, ReturnWith, RepoReturns,
         FinishParquet, FinishJson, FetchSubmitJson, FetchJsonTask, Frame,
         CallerCancels, Finished, listVars, vars
<1>2. /\ store' = store /\ Positions' = Positions
      /\ [i \in Positions |-> Asked(i)]' = [i \in Positions |-> Asked(i)]
  BY <1>1, AskedUnchanged DEF Asked
<1>3. ASSUME UNCHANGED <<ctxDone, result>>
      PROVE  UNCHANGED Batch!batchVars
  BY <1>2, <1>3 DEF Batch!batchVars
<1>4. Batch!Causes = Causes
  BY SameVocabulary DEF Batch!Causes, Causes, Batch!Positions, Asked
<1>5. CASE ReturnEmpty
  <2>1. /\ result = Pending /\ UNCHANGED ctxDone /\ Positions = {}
        /\ result' = Delivered(<<>>)
    BY <1>5 DEF ReturnEmpty, Inv, SplitInv
  <2>2. [i \in Positions |-> Asked(i).event] = <<>>
    BY <2>1
  <2>3. Batch!Deliver
    BY <2>1, <2>2, SameVocabulary DEF Batch!Deliver, Batch!Positions
  <2> QED
    BY <1>2, <2>1, <2>3 DEF Batch!Next, Batch!Return
<1>6. CASE Return
  <2>1. /\ result = Pending /\ UNCHANGED ctxDone
        /\ result' = IF outerErr = NoErr THEN Delivered(events)
                                         ELSE Failed(outerErr)
    BY <1>6 DEF Return, ReturnWith, Inv, SplitInv
  <2>2. CASE outerErr # NoErr
    <3>1. outerErr \in Batch!Causes
      BY <1>4, <2>2 DEF Inv, CauseInv
    <3> QED
      BY <1>2, <2>1, <2>2, <3>1, SameVocabulary
         DEF Batch!Next, Batch!Return, Batch!Fail
  <2>3. CASE outerErr = NoErr
    <3>1. \A i \in Positions : Served(i)
      BY <1>6, <2>3, AllServed
    <3>2. events \in [Positions -> Event \cup {NoEvent}]
      BY DEF Inv, TypeInv, TypeOK, ListTypeOK, PoolOK
    <3>3. \A i \in Positions : Asked(i).fault = NoErr /\ Asked(i).event = events[i]
      BY <3>1 DEF Served, Asked
    <3>4. events = [i \in Positions |-> Asked(i).event]
      BY <3>2, <3>3
    <3>5. Batch!Deliver
      BY <2>1, <2>3, <3>3, <3>4, SameVocabulary
         DEF Batch!Deliver, Batch!Positions
    <3> QED
      BY <1>2, <2>1, <3>5 DEF Batch!Next, Batch!Return
  <2> QED
    BY <2>2, <2>3
<1>7. CASE CallerCancels
  BY <1>2, <1>7 DEF CallerCancels, Batch!Next, Batch!CallerCancels
<1>8. CASE Split \/ Spawn \/ UNCHANGED vars \/ Finished
  BY <1>3, <1>8 DEF Split, Spawn, vars, listVars, Finished
<1>9. CASE Frame
  BY <1>3, <1>9 DEF Frame
<1> QED
  BY <1>5, <1>6, <1>7, <1>8, <1>9
     DEF Next, Step, RepoReturns, FinishParquet, FinishJson, FetchSubmitJson,
         FetchJsonTask

(* fetch's batch keeps the promise eventrepo's keeps: all or nothing, each *)
(* position its own event, and no error that one of its two groups has     *)
(* inflicted on the other.                                                 *)
THEOREM ImplementsBatchFetch ==
    ASSUME ConsistentInputs
    PROVE  Spec => BatchPromise
<1>1. Spec => []Inv
  BY Invariance
<1> QED
  BY <1>1, InitRefines, StepRefines, PTL DEF Spec, BatchPromise, Batch!Spec
=============================================================================
