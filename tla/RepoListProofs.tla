--------------------------- MODULE RepoListProofs ---------------------------
(***************************************************************************)
(* eventrepo's batch fetch keeps its types, hands out exactly what was     *)
(* asked for, leaves no task behind, and implements BatchFetch.            *)
(***************************************************************************)
EXTENDS RepoList, ListCallProofs

USE DEF NoCall, NoErr, Errors

(* The inputs the results below are about (see Consistent). *)
ConsistentInputs == \A in \in Inputs : Consistent(in.store, in.indexes)

-----------------------------------------------------------------------------
(* Type correctness. *)

TypeInv == TypeOK /\ Attached

(* The JSON steps are pool steps. *)
LEMMA JsonStepIsPoolStep ==
    ASSUME TypeInv, \/ \E k \in DOMAIN jsonItems : RepoSubmitJson(k)
                    \/ \E i \in Positions : RepoJsonTask(i)
    PROVE  /\ Cancelled \in BOOLEAN /\ PoolStep(Cancelled)
           /\ UNCHANGED <<input, jsonItems, ctxDone, pc, next, result,
                          parquetGroups, pqVars>>
<1>1. Cancelled \in BOOLEAN /\ Free \in BOOLEAN
  BY DEF Cancelled, Free, HasSlot, TypeInv, TypeOK, ListTypeOK
<1> QED
  BY <1>1 DEF RepoSubmitJson, RepoJsonTask, PoolStep, Frame

LEMMA TypeInit == Init => TypeInv
<1> SUFFICES ASSUME Init PROVE TypeInv
  OBVIOUS
<1>1. ListTypeOK /\ Attached
  BY ListTypeInit DEF Init
<1>2. parquetGroups \in [Names -> Seq([idx : Positions, bucket : Buckets])]
  <2>1. <<>> \in Seq([idx : Positions, bucket : Buckets])
    BY EmptySeq
  <2> QED
    BY <2>1 DEF Init
<1> QED
  BY <1>1, <1>2 DEF Init, TypeInv, TypeOK

LEMMA TypeStep == TypeInv /\ [Next]_vars => TypeInv'
<1> SUFFICES ASSUME TypeInv, [Next]_vars PROVE TypeInv'
  OBVIOUS
<1> USE DEF TypeInv, TypeOK, ListTypeOK
<1>0. InputOK
  OBVIOUS
<1> USE <1>0, PositionsAreNat
<1>1. CASE Classify
  <2>1. /\ next \in Positions /\ next' = next + 1
        /\ UNCHANGED <<input, ctxDone, poolErr, poolVars, pqVars, events>>
    BY <1>1 DEF Classify
  <2>2. /\ jsonItems' \in Seq(Positions)
        /\ parquetGroups' \in [Names -> Seq([idx : Positions, bucket : Buckets])]
        /\ pc' \in {"classify", "done"}
        /\ result' \in Results
    <3>0. /\ jsonItems \in Seq(Positions) /\ indexes[next] \in Ref
          /\ pc = "classify"
      BY <1>1, <2>1 DEF PoolOK, Classify
    <3>1. CASE ~IsParquetRef(indexes[next])
      <4>1. /\ jsonItems' = Append(jsonItems, next)
            /\ UNCHANGED <<parquetGroups, pc, result>>
        BY <1>1, <3>1 DEF Classify, Resolvable, IsParquetRef
      <4> QED
        BY <2>1, <3>0, <4>1, AppendProperties
    <3>2. CASE Resolvable(store, indexes[next])
      <4>1. ParquetItem(next) \in [idx : Positions, bucket : Buckets]
        BY <2>1, <3>2 DEF ParquetItem, Resolvable, BucketOf, Ref, Store, InputOK
      <4>2. /\ parquetGroups' = [parquetGroups EXCEPT ![indexes[next].name] =
                                    Append(@, ParquetItem(next))]
            /\ UNCHANGED <<jsonItems, pc, result>>
        BY <1>1, <3>2 DEF Classify, IsParquetRef, Resolvable
      <4>3. Append(parquetGroups[indexes[next].name], ParquetItem(next))
                \in Seq([idx : Positions, bucket : Buckets])
        BY <3>0, <4>1, AppendProperties DEF Ref
      <4> QED
        BY <3>0, <4>2, <4>3
    <3>3. CASE IsParquetRef(indexes[next]) /\ ~Resolvable(store, indexes[next])
      <4>1. /\ pc' = "done" /\ result' = Failed("Other")
            /\ UNCHANGED <<parquetGroups, jsonItems>>
        BY <1>1, <3>3 DEF Classify
      <4> QED
        BY <3>0, <4>1, ResultTypes
    <3> QED
      BY <3>1, <3>2, <3>3
  <2>3. UNCHANGED <<indexes, buckets, store, Positions>>
    BY <2>1 DEF input, Positions
  <2>4. next' \in 1..(Len(indexes) + 1)
    BY <2>1
  <2> QED
    BY <2>1, <2>2, <2>3, <2>4
       DEF InputOK, PoolOK, Attached, poolVars, pqVars
<1>a. ASSUME UNCHANGED <<input, ctxDone, next, jsonItems, parquetGroups>>,
             UNCHANGED poolVars,
             poolErr' \in Errors \cup {NoErr},
             events' \in [Positions -> Event \cup {NoEvent}],
             pqTask' \in [Names -> {"idle", "download", "rows", "done"}],
             pqRow' \in [Names -> Nat],
             pc' \in {"classify", "run", "done"},
             result' \in Results
      PROVE  TypeInv'
  BY <1>a DEF input, Positions, InputOK, PoolOK, Attached, poolVars
<1>2. CASE StartGroup
  BY <1>2, <1>a DEF StartGroup, pqVars, PoolOK
<1>3. CASE Return
  <2>1. result' \in Results
    <3>1. events \in Seq(Event \cup {NoEvent})
      BY SlotsAreSeq
    <3> QED
      BY <1>3, <3>1, ResultTypes DEF Return, ReturnWith, PoolOK
  <2> QED
    BY <1>3, <2>1, <1>a DEF Return, ReturnWith, pqVars, PoolOK
<1>4. ASSUME NEW o \in Names, SubmitParquet(o) PROVE TypeInv'
  BY <1>4, <1>a DEF SubmitParquet, Frame, PoolOK
<1>b. ASSUME NEW o \in Names, NEW e \in Errors, PqFails(o, e), Frame,
             UNCHANGED poolVars
      PROVE  TypeInv'
  <2>1. poolErr' \in Errors \cup {NoErr}
    BY <1>b, FirstErrorKeeps DEF PqFails, PoolOK
  <2> QED
    BY <1>b, <2>1, <1>a DEF PqFails, Frame, PoolOK
<1>5. ASSUME NEW o \in Names, Download(o) PROVE TypeInv'
  <2>1. PICK e \in GetObject(store, parquetGroups[o][1].bucket, o, Cancelled) :
          IF e = NoErr
          THEN /\ pqTask' = [pqTask EXCEPT ![o] = "rows"]
               /\ UNCHANGED <<poolErr, pqRow, events>>
          ELSE PqFails(o, e)
    BY <1>5 DEF Download
  <2>2. Cancelled \in BOOLEAN
    BY DEF Cancelled
  <2>3. e \in Errors \cup {NoErr}
    BY <2>1, <2>2, GetObjectOutcome DEF InputOK
  <2>4. CASE e = NoErr
    BY <1>5, <2>1, <2>4, <1>a DEF Download, Frame, PoolOK
  <2>5. CASE e # NoErr
    BY <1>5, <2>1, <2>3, <2>5, <1>b DEF Download
  <2> QED
    BY <2>4, <2>5
<1>6. ASSUME NEW o \in Names, CopyRow(o) PROVE TypeInv'
  <2> DEFINE item == parquetGroups[o][pqRow[o] + 1]
             ref  == indexes[item.idx]
             from == parquetGroups[o][1].bucket
  <2>1. /\ item.idx \in Positions /\ ref \in Ref /\ from \in Buckets
        /\ UNCHANGED poolVars /\ Frame
    <3>1. /\ parquetGroups[o] \in Seq([idx : Positions, bucket : Buckets])
          /\ pqRow[o] \in Nat /\ pqRow[o] < Len(parquetGroups[o])
      BY <1>6 DEF CopyRow
    <3>2. \A n \in 1..Len(parquetGroups[o]) :
            parquetGroups[o][n] \in [idx : Positions, bucket : Buckets]
      BY <3>1, ElementOfSeq
    <3>3. /\ pqRow[o] + 1 \in 1..Len(parquetGroups[o])
          /\ 1 \in 1..Len(parquetGroups[o])
      BY <3>1, LenProperties
    <3>4. item \in [idx : Positions, bucket : Buckets] /\ from \in Buckets
      BY <3>2, <3>3
    <3> QED
      BY <1>6, <3>4 DEF CopyRow
  <2>2. CASE <<from, o, ref.row>> \in store.readable
    <3>1. RowEvent(from, ref) \in Event
      BY <2>1 DEF RowEvent, Event, Record, Ref
    <3>2. events' = [events EXCEPT ![item.idx] = RowEvent(from, ref)]
      BY <1>6, <2>2 DEF CopyRow
    <3>3. events' \in [Positions -> Event \cup {NoEvent}]
      BY <2>1, <3>1, <3>2 DEF PoolOK
    <3>4. /\ pqRow' = [pqRow EXCEPT ![o] = @ + 1]
          /\ UNCHANGED <<pqTask, poolErr>>
      BY <1>6, <2>2 DEF CopyRow
    <3>5. UNCHANGED <<input, ctxDone, next, jsonItems, parquetGroups, pc,
                      result>>
      BY <2>1 DEF Frame
    <3>6. pqRow' \in [Names -> Nat]
      BY <3>4
    <3> QED
      BY <2>1, <3>3, <3>4, <3>5, <3>6, <1>a DEF PoolOK
  <2>3. CASE <<from, o, ref.row>> \notin store.readable
    BY <1>6, <2>1, <2>3, <1>b DEF CopyRow
  <2> QED
    BY <2>2, <2>3
<1>7. ASSUME NEW o \in Names, FinishParquet(o) PROVE TypeInv'
  BY <1>7, <1>a DEF FinishParquet, Frame, PoolOK
<1>8. CASE \/ \E k \in DOMAIN jsonItems : RepoSubmitJson(k)
           \/ \E i \in Positions : RepoJsonTask(i)
  <2>1. /\ Cancelled \in BOOLEAN /\ PoolStep(Cancelled)
        /\ UNCHANGED <<input, jsonItems, ctxDone, pc, next, result,
                       parquetGroups, pqVars>>
    BY <1>8, JsonStepIsPoolStep
  <2>2. PoolOK' /\ Attached'
    BY <2>1, PoolTypeStep
  <2> QED
    BY <2>1, <2>2 DEF input, Positions, InputOK, pqVars
<1>9. CASE CallerCancels /\ UNCHANGED <<parquetGroups, pqVars>>
  BY <1>9 DEF CallerCancels, input, Positions, InputOK, PoolOK, Attached,
              poolVars, pqVars
<1>10. CASE UNCHANGED vars
  BY <1>10, <1>a DEF vars, listVars, pqVars, PoolOK
<1> QED
  BY <1>1, <1>2, <1>3, <1>4, <1>5, <1>6, <1>7, <1>8, <1>9, <1>10
     DEF Next, Step, Finished, vars

(* Every variable keeps its type, for every set of inputs and every limit: *)
(* no step writes outside the batch or leaves an ill-formed event.         *)
THEOREM TypeCorrect == Spec => []TypeOK
<1>1. TypeInv => TypeOK
  BY DEF TypeInv
<1> QED
  BY <1>1, TypeInit, TypeStep, PTL DEF Spec

-----------------------------------------------------------------------------
(* The inductive invariant. *)

(* The parquet group of key o holds references to o, each with its bucket. *)
GroupOf(o) ==
    \A m \in 1..Len(parquetGroups[o]) :
        LET item == parquetGroups[o][m] IN
            /\ Resolvable(store, indexes[item.idx])
            /\ indexes[item.idx].name = o
            /\ item.bucket = BucketOf(store, indexes[item.idx])

(* What the task of group o has done so far. *)
ServedBy(o) ==
    /\ pqTask[o] # "idle" => o \in Groups /\ pc # "classify"
    /\ pqTask[o] = "rows" =>
            <<parquetGroups[o][1].bucket, o>> \in store.present
    /\ pqRow[o] <= Len(parquetGroups[o])
    /\ \A m \in 1..pqRow[o] : Served(parquetGroups[o][m].idx)
    /\ pqTask[o] = "done" /\ poolErr = NoErr =>
            pqRow[o] = Len(parquetGroups[o])

GroupInv == \A o \in Names : GroupOf(o) /\ ServedBy(o)

(* Position i is some task's to serve. *)
Queued(i) ==
    \/ \E k \in DOMAIN jsonItems : jsonItems[k] = i
    \/ \E o \in Names : \E m \in 1..Len(parquetGroups[o]) :
            parquetGroups[o][m].idx = i

ClassInv ==
    /\ pc # "done" => result = Pending
    /\ pc # "done" => \A i \in Positions : i < next => Queued(i)
    /\ pc = "run" => next \notin Positions

(* JSON tasks are those the loop over jsonItems has started. *)
TaskInv ==
    \A i \in Positions : jsTask[i] # "idle" =>
        pc # "classify" /\ \E k \in DOMAIN jsonItems : jsonItems[k] = i

Inv ==
    /\ TypeInv
    /\ Consistent(store, indexes)
    /\ GroupInv
    /\ ClassInv
    /\ TaskInv
    /\ JsonInv
    /\ ErrInv
    /\ BatchExact
    /\ Quiescent

-----------------------------------------------------------------------------
(* The fault and the event of the references of a group are those of the   *)
(* one file it downloads.                                                  *)
LEMMA GroupSharesFile ==
    ASSUME TypeInv, Consistent(store, indexes), NEW o \in Names, GroupOf(o),
           NEW m \in 1..Len(parquetGroups[o])
    PROVE  LET from == parquetGroups[o][1].bucket
               ref  == indexes[parquetGroups[o][m].idx]
           IN  /\ parquetGroups[o][m].idx \in Positions
               /\ IsParquetRef(ref)
               /\ ref.row \in Rows
               /\ FaultOf(ref) = Fault(store, from, o, ref.row)
               /\ EventOf(ref) = RowEvent(from, ref)
<1> DEFINE item == parquetGroups[o][m]
           from == parquetGroups[o][1].bucket
           ref == indexes[item.idx]
<1>1. /\ parquetGroups[o] \in Seq([idx : Positions, bucket : Buckets])
      /\ InputOK
  BY DEF TypeInv, TypeOK, ListTypeOK
<1>2. /\ Len(parquetGroups[o]) \in Nat /\ 1 \in 1..Len(parquetGroups[o])
      /\ item \in [idx : Positions, bucket : Buckets]
      /\ parquetGroups[o][1] \in [idx : Positions, bucket : Buckets]
  <2>1. Len(parquetGroups[o]) \in Nat
    BY <1>1, LenProperties
  <2>2. 1 \in 1..Len(parquetGroups[o])
    BY <2>1
  <2> QED
    BY <1>1, <2>1, <2>2, ElementOfSeq
<1>3. /\ Resolvable(store, ref) /\ ref.name = o
      /\ item.bucket = BucketOf(store, ref)
  BY DEF GroupOf
<1>4. /\ Resolvable(store, indexes[parquetGroups[o][1].idx])
      /\ indexes[parquetGroups[o][1].idx].name = o
      /\ from = BucketOf(store, indexes[parquetGroups[o][1].idx])
  BY <1>2 DEF GroupOf
<1>5. from = BucketOf(store, ref)
  BY <1>2, <1>3, <1>4 DEF Consistent, Positions, Resolvable, IsParquetRef
<1>6. IsParquetRef(ref) /\ ref \in Ref
  BY <1>1, <1>2, <1>3, PositionsAreNat DEF Resolvable, IsParquetRef
<1> QED
  BY <1>2, <1>3, <1>5, <1>6 DEF FaultOf, EventOf, Ref

LEMMA InvInit == ConsistentInputs /\ Init => Inv
<1> SUFFICES ASSUME ConsistentInputs, Init PROVE Inv
  OBVIOUS
<1>1. TypeInv
  BY TypeInit
<1>2. InputOK
  BY <1>1 DEF TypeInv, TypeOK, ListTypeOK
<1> USE PositionsAreNat, <1>2
<1>3. Consistent(store, indexes)
  BY DEF ConsistentInputs, Init, ListInit
<1>4. GroupInv
  BY EmptySeq DEF Init, GroupInv, GroupOf, ServedBy
<1>5. ClassInv
  BY DEF Init, ListInit, ClassInv
<1>6. TaskInv /\ ErrInv
  BY DEF Init, ListInit, TaskInv, ErrInv, Unpublished
<1>7. JsonInv
  BY DEF Init, ListInit, JsonInv, Unpublished
<1>8. BatchExact /\ Quiescent
  BY DEF Init, ListInit, BatchExact, Quiescent, Pending
<1> QED
  BY <1>1, <1>3, <1>4, <1>5, <1>6, <1>7, <1>8 DEF Inv

-----------------------------------------------------------------------------
(* What a task's step leaves alone of the invariant. *)
LEMMA FrameKeeps ==
    ASSUME Inv, Frame, pc # "done"
    PROVE  /\ \A o \in Names : GroupOf(o)'
           /\ Consistent(store, indexes)'
           /\ ClassInv' /\ BatchExact' /\ Quiescent'
<1>1. UNCHANGED <<input, pc, next, result, jsonItems, parquetGroups>>
  BY DEF Frame
<1>2. /\ indexes' = indexes /\ store' = store /\ buckets' = buckets
      /\ Positions' = Positions
  BY <1>1, AskedUnchanged
<1>3. \A o \in Names : GroupOf(o)'
  BY <1>1, <1>2 DEF Inv, GroupInv, GroupOf
<1>4. ClassInv'
  BY <1>1, <1>2 DEF Inv, ClassInv, Queued
<1>5. BatchExact'
  BY <1>1, <1>2, <1>4 DEF ClassInv, BatchExact, Pending
<1>6. Quiescent'
  BY <1>1 DEF Quiescent
<1> QED
  BY <1>2, <1>3, <1>4, <1>5, <1>6 DEF Inv

(* A step of a JSON task. *)
LEMMA JsonKeeps ==
    ASSUME Inv, TypeInv',
           \/ \E k \in DOMAIN jsonItems : RepoSubmitJson(k)
           \/ \E i \in Positions : RepoJsonTask(i)
    PROVE  Inv'
<1>1. /\ Cancelled \in BOOLEAN /\ PoolStep(Cancelled)
      /\ UNCHANGED <<input, jsonItems, ctxDone, pc, next, result,
                     parquetGroups, pqVars>>
  BY JsonStepIsPoolStep DEF Inv
<1>2. InputOK /\ PoolOK /\ Attached
  BY DEF Inv, TypeInv, TypeOK, ListTypeOK
<1>3. pc # "done"
  BY <1>2 DEF Inv, Quiescent, RunningJson, RepoSubmitJson, RepoJsonTask,
              JsonTask, Join, TryBucket, NoBuckets, TakeShared
<1>4. /\ \A o \in Names : GroupOf(o)'
      /\ Consistent(store, indexes)'
      /\ ClassInv' /\ BatchExact' /\ Quiescent'
  BY <1>1, <1>3, FrameKeeps DEF Frame
<1>5. JsonInv' /\ ErrInv'
  BY <1>1, <1>2, JsonInvStep, ErrInvStep DEF Inv, Cancelled
<1>6. TaskInv'
  <2>1. ASSUME NEW i \in Positions, jsTask'[i] # "idle"
        PROVE  pc # "classify" /\ \E k \in DOMAIN jsonItems : jsonItems[k] = i
    <3>1. CASE jsTask[i] # "idle"
      BY <3>1 DEF Inv, TaskInv
    <3>2. CASE jsTask[i] = "idle"
      <4>1. \A j \in Positions : RepoJsonTask(j) =>
                jsTask[j] # "idle" /\ (j # i => jsTask'[i] = jsTask[i])
        BY <1>2 DEF RepoJsonTask, JsonTask, Join, TryBucket, Publish,
                    NoBuckets, TakeShared, PoolOK
      <4>2. PICK k \in DOMAIN jsonItems : RepoSubmitJson(k)
        BY <2>1, <3>2, <4>1
      <4>3. pc = "run" /\ jsonItems[k] = i
        BY <1>2, <2>1, <3>2, <4>2 DEF RepoSubmitJson, SubmitJson, PoolOK
      <4> QED
        BY <4>2, <4>3
    <3> QED
      BY <3>1, <3>2
  <2> QED
    BY <1>1, <2>1, AskedUnchanged DEF TaskInv
<1>7. GroupInv'
  <2>1. /\ \A i \in Positions : IsParquetRef(indexes[i]) => events'[i] = events[i]
        /\ poolErr' = NoErr => poolErr = NoErr
    BY <1>1, <1>2, PoolStepSlots DEF Inv
  <2>2. UNCHANGED <<pc, store, indexes, parquetGroups, pqTask, pqRow>>
    BY <1>1 DEF pqVars, input
  <2>3. ASSUME NEW o \in Names
        PROVE  ServedBy(o)'
    <3>1. ServedBy(o) /\ GroupOf(o)
      BY DEF Inv, GroupInv
    <3>2. \A m \in 1..pqRow[o] : Served(parquetGroups[o][m].idx)'
      <4> TAKE m \in 1..pqRow[o]
      <4>1. m \in 1..Len(parquetGroups[o])
        <5>1. /\ pqRow[o] \in Nat /\ pqRow[o] <= Len(parquetGroups[o])
              /\ Len(parquetGroups[o]) \in Nat
          BY <3>1, LenProperties DEF ServedBy, Inv, TypeInv, TypeOK
        <5> QED
          BY <5>1
      <4>2. /\ parquetGroups[o][m].idx \in Positions
            /\ IsParquetRef(indexes[parquetGroups[o][m].idx])
        BY <3>1, <4>1, GroupSharesFile DEF Inv
      <4> QED
        BY <1>1, <2>1, <2>2, <3>1, <4>2, AskedUnchanged DEF ServedBy, Served
    <3> QED
      BY <2>1, <2>2, <3>1, <3>2 DEF ServedBy, Groups
  <2> QED
    BY <1>4, <2>3 DEF GroupInv
<1> QED
  BY <1>4, <1>5, <1>6, <1>7 DEF Inv

(* A parquet task's step keeps the invariant if it does so for the slots it *)
(* writes, for its own group and for the error kept.                       *)
LEMMA ParquetFrame ==
    ASSUME Inv, TypeInv', Frame, UNCHANGED poolVars, pc # "done",
           ErrInv',
           poolErr' = NoErr => poolErr = NoErr,
           \A i \in Positions :
                events'[i] = events[i] \/ (IsParquetRef(indexes[i]) /\ Served(i)'),
           \A q \in Names :
                ServedBy(q)' \/ (pqTask'[q] = pqTask[q] /\ pqRow'[q] = pqRow[q])
    PROVE  Inv'
<1>1. /\ \A q \in Names : GroupOf(q)'
      /\ Consistent(store, indexes)'
      /\ ClassInv' /\ BatchExact' /\ Quiescent'
  BY FrameKeeps
<1>2. UNCHANGED <<input, pc, jsonItems, parquetGroups>>
  BY DEF Frame
<1>3. InputOK
  BY DEF Inv, TypeInv, TypeOK, ListTypeOK
<1>4. TaskInv'
  BY <1>2, AskedUnchanged DEF Inv, TaskInv, poolVars
<1>5. JsonInv'
  <2>1. \A k \in DOMAIN jsonItems' : ~IsParquetRef(indexes[jsonItems'[k]])
    BY <1>2 DEF Inv, JsonInv
  <2> QED
    BY <1>2, <1>3, <2>1, JsonInvFrame DEF Inv
<1>6. ASSUME NEW q \in Names
      PROVE  ServedBy(q)'
  <2>1. CASE ServedBy(q)'
    BY <2>1
  <2>2. CASE pqTask'[q] = pqTask[q] /\ pqRow'[q] = pqRow[q]
    <3>1. ServedBy(q) /\ GroupOf(q) /\ pqTask'[q] = pqTask[q]
          /\ pqRow'[q] = pqRow[q]
      BY <2>2 DEF Inv, GroupInv
    <3>2. \A m \in 1..pqRow[q] : Served(parquetGroups[q][m].idx)'
      <4> TAKE m \in 1..pqRow[q]
      <4>1. m \in 1..Len(parquetGroups[q])
        <5>1. /\ pqRow[q] \in Nat /\ pqRow[q] <= Len(parquetGroups[q])
              /\ Len(parquetGroups[q]) \in Nat
          BY <3>1, LenProperties DEF ServedBy, Inv, TypeInv, TypeOK
        <5> QED
          BY <5>1
      <4>2. parquetGroups[q][m].idx \in Positions
        BY <3>1, <4>1, GroupSharesFile DEF Inv
      <4>3. Served(parquetGroups[q][m].idx)
        BY <3>1 DEF ServedBy
      <4> QED
        BY <1>2, <4>2, <4>3, AskedUnchanged DEF Served
    <3>3. store' = store
      BY <1>2, AskedUnchanged
    <3> QED
      BY <1>2, <3>1, <3>2, <3>3 DEF ServedBy, Groups
  <2> QED
    BY <2>1, <2>2
<1>7. GroupInv'
  BY <1>1, <1>6 DEF GroupInv
<1> QED
  BY <1>1, <1>4, <1>5, <1>7 DEF Inv

(* A parquet task that fails blames a reference of its group, the caller's *)
(* cancellation, or the transport -- or an error is kept already.          *)
LEMMA PqFailsKeeps ==
    ASSUME Inv, TypeInv', Frame, UNCHANGED poolVars, pc # "done",
           NEW o \in Names, o \in Groups, pc # "classify",
           NEW e \in Errors, PqFails(o, e),
           e \in Causes \/ poolErr # NoErr
    PROVE  Inv'
<1>1. PoolOK /\ poolErr \in Errors \cup {NoErr}
  BY DEF Inv, TypeInv, TypeOK, ListTypeOK, PoolOK
<1>2. \/ poolErr' = poolErr /\ poolErr # NoErr
      \/ poolErr = NoErr /\ poolErr' = e /\ e \in Causes
  BY <1>1, FirstErrorKeeps DEF PqFails
<1>3. UNCHANGED <<input, shared, ctxDone, pc, parquetGroups>>
  BY DEF Frame, poolVars
<1>4. ErrInv'
  BY <1>2, <1>3, ErrInvFrame DEF Inv
<1>5. UNCHANGED <<events, pqRow>> /\ pqTask' = [pqTask EXCEPT ![o] = "done"]
  BY DEF PqFails
<1>6. /\ pqTask'[o] = "done"
      /\ \A q \in Names \ {o} : pqTask'[q] = pqTask[q]
  BY <1>5 DEF Inv, TypeInv, TypeOK
<1>7. ServedBy(o)'
  <2>1. ServedBy(o)
    BY DEF Inv, GroupInv
  <2>2. poolErr' # NoErr
    BY <1>2
  <2>3. \A i : Served(i) => Served(i)'
    BY <1>3, <1>5, AskedUnchanged DEF Served
  <2> QED
    BY <1>3, <1>5, <1>6, <2>1, <2>2, <2>3 DEF ServedBy, Groups
<1>8. /\ poolErr' = NoErr => poolErr = NoErr
      /\ \A i \in Positions :
            events'[i] = events[i] \/ (IsParquetRef(indexes[i]) /\ Served(i)')
      /\ \A q \in Names :
            ServedBy(q)' \/ (pqTask'[q] = pqTask[q] /\ pqRow'[q] = pqRow[q])
  BY <1>2, <1>5, <1>6, <1>7
<1> QED
  BY <1>4, <1>8, ParquetFrame

(* The steps of a parquet task. *)
LEMMA ParquetKeeps ==
    ASSUME Inv, TypeInv', NEW o \in Names,
           SubmitParquet(o) \/ Download(o) \/ CopyRow(o) \/ FinishParquet(o)
    PROVE  Inv'
<1>1. /\ InputOK /\ PoolOK /\ TypeInv /\ Consistent(store, indexes)
      /\ parquetGroups[o] \in Seq([idx : Positions, bucket : Buckets])
      /\ Len(parquetGroups[o]) \in Nat /\ pqRow[o] \in Nat
      /\ pqTask \in [Names -> {"idle", "download", "rows", "done"}]
      /\ pqRow \in [Names -> Nat]
  BY LenProperties DEF Inv, TypeInv, TypeOK, ListTypeOK
<1>2. GroupOf(o) /\ ServedBy(o) /\ ErrInv
  BY DEF Inv, GroupInv
<1>3. /\ Frame /\ UNCHANGED poolVars /\ pc # "done"
      /\ o \in Groups /\ pc # "classify"
      /\ 1 \in 1..Len(parquetGroups[o])
  <2>1. Frame /\ UNCHANGED poolVars
    BY DEF SubmitParquet, Download, CopyRow, FinishParquet
  <2>2. pc = "run" \/ pqTask[o] \in {"download", "rows"}
    BY DEF SubmitParquet, Download, CopyRow, FinishParquet
  <2>3. pc # "done" /\ o \in Groups /\ pc # "classify"
    BY <1>2, <2>2 DEF Inv, Quiescent, RunningParquet, ServedBy, SubmitParquet,
                      Download, CopyRow, FinishParquet
  <2>4. parquetGroups[o] # <<>>
    BY <2>3 DEF Groups
  <2>5. Len(parquetGroups[o]) \in Nat \ {0}
    BY <1>1, <2>4, EmptySeq
  <2> QED
    BY <2>1, <2>3, <2>5
<1>4. /\ UNCHANGED <<input, ctxDone, pc, parquetGroups, shared>>
      /\ store' = store /\ indexes' = indexes
      /\ \A i : FaultOf(indexes[i])' = FaultOf(indexes[i])
      /\ \A i : EventOf(indexes[i])' = EventOf(indexes[i])
  BY <1>3, AskedUnchanged DEF Frame, poolVars
<1>5. ASSUME UNCHANGED <<poolErr, events>>,
             \A q \in Names : q # o =>
                pqTask'[q] = pqTask[q] /\ pqRow'[q] = pqRow[q],
             ServedBy(o)'
      PROVE  Inv'
  <2>1. ErrInv'
    BY <1>2, <1>4, <1>5, ErrInvFrame
  <2>2. \A i \in Positions :
          events'[i] = events[i] \/ (IsParquetRef(indexes[i]) /\ Served(i)')
    BY <1>5
  <2>3. \A q \in Names :
          ServedBy(q)' \/ (pqTask'[q] = pqTask[q] /\ pqRow'[q] = pqRow[q])
    BY <1>5
  <2>4. poolErr' = NoErr => poolErr = NoErr
    BY <1>5
  <2> QED
    BY <1>3, <2>1, <2>2, <2>3, <2>4, ParquetFrame
<1>6. CASE SubmitParquet(o)
  <2>1. /\ pqTask' = [pqTask EXCEPT ![o] = "download"]
        /\ UNCHANGED <<poolErr, events, pqRow>>
    BY <1>6 DEF SubmitParquet
  <2>2. \A i : Served(i) => Served(i)'
    BY <1>4, <2>1 DEF Served
  <2>3. ServedBy(o)'
    BY <1>1, <1>2, <1>3, <1>4, <2>1, <2>2 DEF ServedBy, Groups
  <2> QED
    BY <1>1, <1>5, <2>1, <2>3
<1>7. CASE Download(o)
  <2> DEFINE from == parquetGroups[o][1].bucket
             ref == indexes[parquetGroups[o][1].idx]
  <2>1. PICK e \in GetObject(store, from, o, Cancelled) :
          IF e = NoErr
          THEN /\ pqTask' = [pqTask EXCEPT ![o] = "rows"]
               /\ UNCHANGED <<poolErr, pqRow, events>>
          ELSE PqFails(o, e)
    BY <1>7 DEF Download
  <2>2. Cancelled \in BOOLEAN
    BY DEF Cancelled
  <2>3. /\ e \in Errors \cup {NoErr}
        /\ e = NoErr => <<from, o>> \in store.present
        /\ e = "NotFound" => <<from, o>> \notin store.present
        /\ e = "Canceled" => Cancelled
        /\ e = "Other" => store.flaky
    BY <1>1, <2>1, <2>2, GetObjectOutcome DEF InputOK
  <2>4. CASE e = NoErr
    <3>1. /\ pqTask' = [pqTask EXCEPT ![o] = "rows"]
          /\ UNCHANGED <<poolErr, pqRow, events>>
      BY <2>1, <2>4
    <3>2. \A i : Served(i) => Served(i)'
      BY <1>4, <3>1 DEF Served
    <3>3. ServedBy(o)'
      BY <1>1, <1>2, <1>3, <1>4, <2>3, <2>4, <3>1, <3>2 DEF ServedBy, Groups
    <3> QED
      BY <1>1, <1>5, <3>1, <3>3
  <2>5. CASE e # NoErr
    <3>1. /\ parquetGroups[o][1].idx \in Positions
          /\ FaultOf(ref) = Fault(store, from, o, ref.row)
      BY <1>1, <1>2, <1>3, GroupSharesFile
    <3>2. e \in Causes \/ poolErr # NoErr
      BY <2>3, <2>5, <3>1 DEF Causes, Cancelled, Fault
    <3> QED
      BY <1>3, <2>1, <2>3, <2>5, <3>2, PqFailsKeeps
  <2> QED
    BY <2>4, <2>5
<1>8. CASE CopyRow(o)
  <2>a. /\ pqRow[o] + 1 \in 1..Len(parquetGroups[o])
        /\ parquetGroups[o][pqRow[o] + 1].idx \in Positions
    <3>1. pqRow[o] + 1 \in 1..Len(parquetGroups[o])
      BY <1>1, <1>8 DEF CopyRow
    <3> QED
      BY <1>1, <1>2, <3>1, GroupSharesFile
  <2>b. PICK m \in 1..Len(parquetGroups[o]) : m = pqRow[o] + 1
    BY <2>a
  <2>c. PICK i \in Positions : i = parquetGroups[o][m].idx
    BY <2>a, <2>b
  <2> DEFINE ref == indexes[i]
             from == parquetGroups[o][1].bucket
  <2>1. pqTask[o] = "rows" /\ <<from, o>> \in store.present
    BY <1>2, <1>8 DEF CopyRow, ServedBy
  <2>2. /\ IsParquetRef(ref)
        /\ FaultOf(ref) = Fault(store, from, o, ref.row)
        /\ EventOf(ref) = RowEvent(from, ref)
    BY <1>1, <1>2, <2>b, <2>c, GroupSharesFile
  <2>3. CASE <<from, o, ref.row>> \in store.readable
    <3>1. /\ events' = [events EXCEPT ![i] = RowEvent(from, ref)]
          /\ pqRow' = [pqRow EXCEPT ![o] = m]
          /\ UNCHANGED <<pqTask, poolErr>>
      BY <1>8, <2>b, <2>c, <2>3 DEF CopyRow
    <3>2. Served(i)'
      BY <1>1, <1>4, <2>1, <2>2, <2>3, <3>1 DEF PoolOK, Served, Fault
    <3>3. \A j \in Positions : j # i => events'[j] = events[j]
      BY <1>1, <3>1 DEF PoolOK
    <3>4. ErrInv'
      BY <1>2, <1>4, <3>1, ErrInvFrame
    <3>5. ServedBy(o)'
      <4>1. pqRow'[o] = m /\ m <= Len(parquetGroups[o])
        BY <1>1, <2>b, <3>1
      <4>2. \A l \in 1..m : Served(parquetGroups[o][l].idx)'
        <5> TAKE l \in 1..m
        <5>1. l \in 1..Len(parquetGroups[o])
          BY <1>1, <2>b
        <5>2. parquetGroups[o][l].idx \in Positions
          BY <1>1, <1>2, <5>1, GroupSharesFile
        <5>3. CASE parquetGroups[o][l].idx = i
          BY <1>4, <3>2, <5>3
        <5>4. CASE parquetGroups[o][l].idx # i
          <6>1. l \in 1..pqRow[o]
            BY <1>1, <2>b, <2>c, <5>4
          <6>2. Served(parquetGroups[o][l].idx)
            BY <1>2, <6>1 DEF ServedBy
          <6> QED
            BY <1>4, <3>3, <5>2, <5>4, <6>2 DEF Served
        <5> QED
          BY <5>3, <5>4
      <4> QED
        BY <1>2, <1>3, <1>4, <2>1, <3>1, <4>1, <4>2 DEF ServedBy, Groups
    <3>6. \A j \in Positions :
            events'[j] = events[j] \/ (IsParquetRef(indexes[j]) /\ Served(j)')
      BY <2>2, <3>2, <3>3
    <3>7. \A q \in Names :
            ServedBy(q)' \/ (pqTask'[q] = pqTask[q] /\ pqRow'[q] = pqRow[q])
      BY <1>1, <3>1, <3>5
    <3>8. poolErr' = NoErr => poolErr = NoErr
      BY <3>1
    <3> QED
      BY <1>3, <3>4, <3>6, <3>7, <3>8, ParquetFrame
  <2>4. CASE <<from, o, ref.row>> \notin store.readable
    <3>1. PqFails(o, "Other")
      BY <1>8, <2>b, <2>c, <2>4 DEF CopyRow
    <3>2. "Other" \in Causes
      BY <2>1, <2>2, <2>4 DEF Causes, Fault
    <3> QED
      BY <1>3, <3>1, <3>2, PqFailsKeeps
  <2> QED
    BY <2>3, <2>4
<1>9. CASE FinishParquet(o)
  <2>1. /\ pqRow[o] = Len(parquetGroups[o])
        /\ pqTask' = [pqTask EXCEPT ![o] = "done"]
        /\ UNCHANGED <<poolErr, events, pqRow>>
    BY <1>9 DEF FinishParquet
  <2>2. \A i : Served(i) => Served(i)'
    BY <1>4, <2>1 DEF Served
  <2>3. ServedBy(o)'
    BY <1>1, <1>2, <1>3, <1>4, <2>1, <2>2 DEF ServedBy, Groups
  <2> QED
    BY <1>1, <1>5, <2>1, <2>3
<1> QED
  BY <1>6, <1>7, <1>8, <1>9

(* While the loop classifies, no task has been started. *)
LEMMA ClassifyKeeps ==
    ASSUME Inv, TypeInv', Classify
    PROVE  Inv'
<1>1. /\ InputOK /\ PoolOK /\ TypeInv /\ Consistent(store, indexes)
      /\ jsonItems \in Seq(Positions)
      /\ parquetGroups \in [Names -> Seq([idx : Positions, bucket : Buckets])]
      /\ \A o \in Names : Len(parquetGroups[o]) \in Nat
  BY LenProperties DEF Inv, TypeInv, TypeOK, ListTypeOK, PoolOK
<1>2. /\ pc = "classify" /\ next \in Positions /\ next' = next + 1
      /\ UNCHANGED <<input, ctxDone, poolErr, poolVars, pqVars, events>>
      /\ indexes[next] \in Ref
  BY <1>1, PositionsAreNat DEF Classify
<1>3. /\ indexes' = indexes /\ store' = store /\ buckets' = buckets
      /\ Positions' = Positions /\ next \in Nat /\ Positions \subseteq Nat
  BY <1>1, <1>2, AskedUnchanged, PositionsAreNat
<1>4. ErrInv'
  BY <1>2, ErrInvFrame DEF Inv, poolVars
<1>5. /\ \A i \in Positions : jsTask[i] = "idle"
      /\ \A o \in Names : pqTask[o] = "idle"
      /\ result = Pending
  BY <1>2 DEF Inv, TaskInv, GroupInv, ServedBy, ClassInv
<1>6. TaskInv' /\ Quiescent'
  BY <1>2, <1>3, <1>5 DEF TaskInv, Quiescent, RunningParquet, RunningJson,
                          poolVars, pqVars
<1>7. BatchExact'
  BY <1>2, <1>5 DEF Classify, BatchExact, Pending, Failed
<1>8. \A i : Served(i) => Served(i)'
  BY <1>2, AskedUnchanged DEF Served
<1>9. CASE ~IsParquetRef(indexes[next])
  <2>1. /\ jsonItems' = Append(jsonItems, next)
        /\ UNCHANGED <<parquetGroups, pc, result>>
    BY <1>2, <1>9 DEF Classify, Resolvable, IsParquetRef
  <2>2. /\ jsonItems' \in Seq(Positions)
        /\ \A k \in DOMAIN jsonItems :
                k \in DOMAIN jsonItems' /\ jsonItems'[k] = jsonItems[k]
        /\ \A k \in DOMAIN jsonItems' :
                jsonItems'[k] = next \/ \E l \in DOMAIN jsonItems :
                                            jsonItems'[k] = jsonItems[l]
        /\ \E k \in DOMAIN jsonItems' : jsonItems'[k] = next
    BY <1>1, <1>2, <2>1, AppendProperties, LenProperties
  <2>3. \A k \in DOMAIN jsonItems' : ~IsParquetRef(indexes[jsonItems'[k]])
    BY <1>9, <2>2 DEF Inv, JsonInv
  <2>4. JsonInv'
    BY <1>1, <1>2, <2>3, JsonInvFrame DEF Inv
  <2>5. GroupInv'
    <3>1. ASSUME NEW o \in Names PROVE GroupOf(o)' /\ ServedBy(o)'
      BY <1>2, <1>3, <1>8, <2>1 DEF Inv, GroupInv, GroupOf, ServedBy, Groups,
                                    pqVars
    <3> QED
      BY <3>1 DEF GroupInv
  <2>6. ClassInv'
    <3>1. ASSUME NEW i \in Positions, i < next + 1
          PROVE  Queued(i)'
      <4>1. CASE i = next
        BY <2>2, <4>1 DEF Queued
      <4>2. CASE i # next
        <5>1. Queued(i)
          BY <1>2, <1>3, <3>1, <4>2 DEF Inv, ClassInv
        <5> QED
          BY <2>1, <2>2, <5>1 DEF Queued
      <4> QED
        BY <4>1, <4>2
    <3> QED
      BY <1>2, <1>3, <1>5, <2>1, <3>1 DEF ClassInv
  <2> QED
    BY <1>3, <1>4, <1>6, <1>7, <2>4, <2>5, <2>6 DEF Inv
<1>10. CASE Resolvable(store, indexes[next])
  <2>1. /\ parquetGroups' = [parquetGroups EXCEPT ![indexes[next].name] =
                                Append(@, ParquetItem(next))]
        /\ UNCHANGED <<jsonItems, pc, result>>
    BY <1>2, <1>10 DEF Classify, Resolvable, IsParquetRef
  <2>a. PICK key \in Names : key = indexes[next].name
    BY <1>2 DEF Ref
  <2> DEFINE old == parquetGroups[key]
  <2>2. old \in Seq([idx : Positions, bucket : Buckets])
    BY <1>1
  <2>3. ParquetItem(next) \in [idx : Positions, bucket : Buckets]
    BY <1>1, <1>2, <1>10 DEF ParquetItem, Resolvable, BucketOf, Ref, Store,
                             InputOK
  <2>4. /\ \A o \in Names : o # key => parquetGroups'[o] = parquetGroups[o]
        /\ parquetGroups'[key] = Append(old, ParquetItem(next))
    BY <1>1, <2>1, <2>a
  <2>5. /\ Len(parquetGroups'[key]) = Len(old) + 1
        /\ \A m \in 1..Len(old) : parquetGroups'[key][m] = old[m]
        /\ parquetGroups'[key][Len(old) + 1] = ParquetItem(next)
    BY <2>2, <2>3, <2>4, AppendProperties
  <2>6. JsonInv'
    <3>1. \A k \in DOMAIN jsonItems' : ~IsParquetRef(indexes[jsonItems'[k]])
      BY <2>1 DEF Inv, JsonInv
    <3> QED
      BY <1>1, <1>2, <3>1, JsonInvFrame DEF Inv
  <2>7. ASSUME NEW o \in Names PROVE GroupOf(o)' /\ ServedBy(o)'
    <3>1. GroupOf(o) /\ ServedBy(o) /\ pqTask[o] = "idle"
      BY <1>5 DEF Inv, GroupInv
    <3>2. CASE o # key
      BY <1>2, <1>3, <1>8, <2>1, <2>4, <3>1, <3>2
         DEF GroupOf, ServedBy, Groups, pqVars
    <3>3. CASE o = key
      <4>1. ASSUME NEW m \in 1..Len(parquetGroups'[key])
            PROVE  LET item == parquetGroups'[key][m] IN
                    /\ Resolvable(store, indexes[item.idx])
                    /\ indexes[item.idx].name = key
                    /\ item.bucket = BucketOf(store, indexes[item.idx])
        <5>1. CASE m \in 1..Len(old)
          BY <2>5, <3>1, <3>3, <5>1 DEF GroupOf
        <5>2. CASE m \notin 1..Len(old)
          <6>1. m = Len(old) + 1
            BY <1>1, <2>2, <2>5, <5>2
          <6> QED
            BY <1>10, <2>a, <2>5, <6>1 DEF ParquetItem
        <5> QED
          BY <5>1, <5>2
      <4>2. GroupOf(o)'
        BY <1>3, <3>3, <4>1 DEF GroupOf
      <4>3. /\ pqRow[key] \in Nat /\ pqRow[key] <= Len(old)
            /\ Len(old) \in Nat
        BY <1>1, <2>2, <3>1, <3>3 DEF ServedBy, TypeInv, TypeOK
      <4>4. UNCHANGED <<pqTask, pqRow>>
        BY <1>2 DEF pqVars
      <4>5. \A m \in 1..pqRow[key] : Served(parquetGroups[key][m].idx)'
        <5>1. ASSUME NEW m \in 1..pqRow[key]
              PROVE  /\ Served(parquetGroups[key][m].idx)
                     /\ parquetGroups'[key][m] = parquetGroups[key][m]
          BY <2>5, <3>1, <3>3, <4>3, <5>1 DEF ServedBy
        <5> QED
          BY <1>3, <1>8, <5>1 DEF Served
      <4> QED
        BY <1>2, <2>5, <3>1, <3>3, <4>2, <4>3, <4>4, <4>5 DEF ServedBy
    <3> QED
      BY <3>2, <3>3
  <2>8. ClassInv'
    <3>1. ASSUME NEW i \in Positions, i < next + 1
          PROVE  Queued(i)'
      <4>1. CASE i = next
        <5>1. /\ Len(old) + 1 \in 1..Len(parquetGroups'[key])
              /\ parquetGroups'[key][Len(old) + 1].idx = i
          BY <1>1, <2>2, <2>5, <4>1 DEF ParquetItem
        <5> QED
          BY <2>2, <5>1 DEF Queued
      <4>2. CASE i # next
        <5>1. Queued(i)
          BY <1>2, <1>3, <3>1, <4>2 DEF Inv, ClassInv
        <5>2. \A o \in Names : \A m \in 1..Len(parquetGroups[o]) :
                /\ m \in 1..Len(parquetGroups'[o])
                /\ parquetGroups'[o][m] = parquetGroups[o][m]
          <6> TAKE o \in Names
          <6>1. CASE o = key
            BY <1>1, <2>2, <2>5, <6>1
          <6>2. CASE o # key
            BY <1>1, <2>4, <6>2
          <6> QED
            BY <6>1, <6>2
        <5> QED
          BY <2>1, <5>1, <5>2 DEF Queued
      <4> QED
        BY <4>1, <4>2
    <3> QED
      BY <1>2, <1>3, <1>5, <2>1, <3>1 DEF ClassInv
  <2> QED
    BY <1>3, <1>4, <1>6, <1>7, <2>6, <2>7, <2>8 DEF Inv, GroupInv
<1>11. CASE IsParquetRef(indexes[next]) /\ ~Resolvable(store, indexes[next])
  <2>1. pc' = "done" /\ UNCHANGED <<parquetGroups, jsonItems>>
    BY <1>2, <1>11 DEF Classify
  <2>2. ClassInv'
    BY <2>1 DEF ClassInv
  <2>3. JsonInv'
    <3>1. \A k \in DOMAIN jsonItems' : ~IsParquetRef(indexes[jsonItems'[k]])
      BY <2>1 DEF Inv, JsonInv
    <3> QED
      BY <1>1, <1>2, <3>1, JsonInvFrame DEF Inv
  <2>4. GroupInv'
    <3>1. ASSUME NEW o \in Names PROVE GroupOf(o)' /\ ServedBy(o)'
      BY <1>2, <1>3, <1>8, <2>1 DEF Inv, GroupInv, GroupOf, ServedBy, Groups,
                                    pqVars
    <3> QED
      BY <3>1 DEF GroupInv
  <2> QED
    BY <1>3, <1>4, <1>6, <1>7, <2>2, <2>3, <2>4 DEF Inv
<1> QED
  BY <1>9, <1>10, <1>11

(* When every task is done and no error was kept, every slot is served. *)
LEMMA AllServed ==
    ASSUME Inv, Return, poolErr = NoErr, NEW i \in Positions
    PROVE  Served(i)
<1>1. /\ pc = "run" /\ AllParquetDone /\ AllJsonDone
      /\ InputOK /\ PoolOK /\ next \in 1..(Len(indexes) + 1)
  BY DEF Return, ReturnWith, Inv, TypeInv, TypeOK, ListTypeOK
<1>2. Queued(i)
  <2>1. Len(indexes) \in Nat /\ Positions = 1..Len(indexes)
    BY <1>1, PositionsAreNat DEF InputOK
  <2>2. i < next
    BY <1>1, <2>1 DEF Inv, ClassInv
  <2> QED
    BY <1>1, <2>2 DEF Inv, ClassInv
<1>3. ASSUME NEW k \in DOMAIN jsonItems, jsonItems[k] = i
      PROVE  Served(i)
  BY <1>1, <1>3 DEF AllJsonDone, Inv, JsonInv
<1>4. ASSUME NEW o \in Names, NEW m \in 1..Len(parquetGroups[o]),
             parquetGroups[o][m].idx = i
      PROVE  Served(i)
  <2>1. parquetGroups[o] # <<>>
    BY EmptySeq
  <2>2. pqTask[o] = "done" /\ ServedBy(o)
    BY <1>1, <2>1 DEF AllParquetDone, Groups, Inv, GroupInv
  <2> QED
    BY <1>4, <2>2 DEF ServedBy
<1> QED
  BY <1>2, <1>3, <1>4 DEF Queued

LEMMA ReturnKeeps ==
    ASSUME Inv, TypeInv', Return
    PROVE  Inv'
<1>1. /\ InputOK /\ PoolOK /\ pc = "run" /\ pc' = "done"
      /\ UNCHANGED <<input, ctxDone, next, jsonItems, poolErr, poolVars, events,
                     parquetGroups, pqVars>>
      /\ result' = IF poolErr = NoErr THEN Delivered(events) ELSE Failed(poolErr)
  BY DEF Return, ReturnWith, Inv, TypeInv, TypeOK, ListTypeOK
<1>2. /\ indexes' = indexes /\ store' = store /\ buckets' = buckets
      /\ Positions' = Positions
  BY <1>1, AskedUnchanged
<1>3. ClassInv'
  BY <1>1 DEF ClassInv
<1>4. TaskInv' /\ Consistent(store, indexes)'
  BY <1>1, <1>2 DEF Inv, TaskInv, poolVars
<1>5. JsonInv' /\ ErrInv'
  <2>1. \A k \in DOMAIN jsonItems' : ~IsParquetRef(indexes[jsonItems'[k]])
    BY <1>1 DEF Inv, JsonInv
  <2> QED
    BY <1>1, <2>1, JsonInvFrame, ErrInvFrame DEF Inv, poolVars
<1>6. GroupInv'
  <2>1. \A i : Served(i) => Served(i)'
    BY <1>1, AskedUnchanged DEF Served
  <2>2. ASSUME NEW o \in Names PROVE GroupOf(o)' /\ ServedBy(o)'
    BY <1>1, <1>2, <2>1 DEF Inv, GroupInv, GroupOf, ServedBy, Groups, pqVars
  <2> QED
    BY <2>2 DEF GroupInv
<1>7. Quiescent'
  <2>1. \A o \in Names : pqTask[o] \in {"idle", "done"}
    BY DEF Return, AllParquetDone, Inv, GroupInv, ServedBy
  <2>2. \A i \in Positions : jsTask[i] \in {"idle", "done"}
    BY DEF Return, AllJsonDone, Inv, TaskInv
  <2> QED
    BY <1>1, <1>2, <2>1, <2>2
       DEF Quiescent, RunningParquet, RunningJson, pqVars, poolVars
<1>8. BatchExact'
  <2>1. CASE poolErr = NoErr
    <3>1. result'.events = events /\ DOMAIN events = Positions
      BY <1>1, <2>1 DEF Delivered, PoolOK
    <3>2. \A i \in Positions : Served(i)
      BY <2>1, AllServed
    <3> QED
      BY <1>1, <1>2, <3>1, <3>2, AskedUnchanged DEF BatchExact, Served
  <2>2. CASE poolErr # NoErr
    BY <1>1, <2>2 DEF BatchExact, Failed
  <2> QED
    BY <2>1, <2>2
<1> QED
  BY <1>3, <1>4, <1>5, <1>6, <1>7, <1>8 DEF Inv

(* Steps that touch neither the slots, nor the tasks, nor the result. *)
LEMMA QuietKeeps ==
    ASSUME Inv, TypeInv',
           UNCHANGED <<input, next, jsonItems, poolErr, poolVars, events, result,
                       parquetGroups, pqVars>>,
           ctxDone => ctxDone',
           \/ pc' = pc
           \/ pc = "classify" /\ pc' = "run" /\ next \notin Positions
    PROVE  Inv'
<1>1. InputOK
  BY DEF Inv, TypeInv, TypeOK, ListTypeOK
<1>2. /\ indexes' = indexes /\ store' = store /\ buckets' = buckets
      /\ Positions' = Positions
  BY AskedUnchanged
<1>3. ClassInv'
  BY <1>2 DEF Inv, ClassInv, Queued
<1>4. TaskInv' /\ Consistent(store, indexes)'
  BY <1>2 DEF Inv, TaskInv, poolVars
<1>5. JsonInv' /\ ErrInv'
  <2>1. \A k \in DOMAIN jsonItems' : ~IsParquetRef(indexes[jsonItems'[k]])
    BY DEF Inv, JsonInv
  <2> QED
    BY <1>1, <2>1, JsonInvFrame, ErrInvFrame DEF Inv, poolVars
<1>6. GroupInv'
  <2>1. \A i : Served(i) => Served(i)'
    BY AskedUnchanged DEF Served
  <2>2. ASSUME NEW o \in Names PROVE GroupOf(o)' /\ ServedBy(o)'
    BY <1>2, <2>1 DEF Inv, GroupInv, GroupOf, ServedBy, Groups, pqVars
  <2> QED
    BY <2>2 DEF GroupInv
<1>7. Quiescent'
  BY <1>2 DEF Inv, Quiescent, RunningParquet, RunningJson, pqVars, poolVars
<1>8. BatchExact'
  BY <1>2, AskedUnchanged DEF Inv, BatchExact
<1> QED
  BY <1>3, <1>4, <1>5, <1>6, <1>7, <1>8 DEF Inv

LEMMA InvStep == Inv /\ [Next]_vars => Inv'
<1> SUFFICES ASSUME Inv, [Next]_vars PROVE Inv'
  OBVIOUS
<1>1. TypeInv'
  BY TypeStep DEF Inv
<1>2. CASE Classify
  BY <1>1, <1>2, ClassifyKeeps
<1>3. CASE StartGroup
  BY <1>1, <1>3, QuietKeeps DEF StartGroup
<1>4. CASE Return
  BY <1>1, <1>4, ReturnKeeps
<1>5. ASSUME NEW o \in Names,
             SubmitParquet(o) \/ Download(o) \/ CopyRow(o) \/ FinishParquet(o)
      PROVE  Inv'
  BY <1>1, <1>5, ParquetKeeps
<1>6. CASE \/ \E k \in DOMAIN jsonItems : RepoSubmitJson(k)
           \/ \E i \in Positions : RepoJsonTask(i)
  BY <1>1, <1>6, JsonKeeps
<1>7. CASE CallerCancels /\ UNCHANGED <<parquetGroups, pqVars>>
  BY <1>1, <1>7, QuietKeeps DEF CallerCancels
<1>8. CASE UNCHANGED vars
  BY <1>1, <1>8, QuietKeeps DEF vars, listVars
<1> QED
  BY <1>2, <1>3, <1>4, <1>5, <1>6, <1>7, <1>8 DEF Next, Step, Finished, vars

LEMMA Invariance ==
    ASSUME ConsistentInputs
    PROVE  Spec => []Inv
BY InvInit, InvStep, PTL DEF Spec

-----------------------------------------------------------------------------
(* Results. *)

(* eventrepo never returns a slice in which a position holds another       *)
(* position's row, payload or header, nor one with a slot left unwritten:  *)
(* for every batch, limit, store and schedule.                             *)
THEOREM ListIsExact ==
    ASSUME ConsistentInputs
    PROVE  Spec => []BatchExact
<1>1. Inv => BatchExact
  BY DEF Inv
<1> QED
  BY <1>1, Invariance, PTL

(* Where the references of one object key agree on its bucket, every row   *)
(* is read from its own reference's bucket: that two of them name          *)
(* different buckets is the only way to be handed another file's row.      *)
THEOREM RowsFromOwnBucket ==
    ASSUME ConsistentInputs
    PROVE  Spec => []OwnBucket
<1>1. BatchExact => OwnBucket
  <2> SUFFICES ASSUME BatchExact, result.state = "ok", NEW i \in Positions,
                      IsParquetRef(indexes[i])
               PROVE  result.events[i].data[1] = BucketOf(store, indexes[i])
    BY DEF OwnBucket
  <2>1. result.events[i] = RowEvent(BucketOf(store, indexes[i]), indexes[i])
    BY DEF BatchExact, EventOf
  <2> QED
    BY <2>1 DEF RowEvent
<1> QED
  BY <1>1, ListIsExact, PTL

(* No goroutine of a call that has returned is left to write to the slice. *)
THEOREM NoTaskLeft ==
    ASSUME ConsistentInputs
    PROVE  Spec => []Quiescent
<1>1. Inv => Quiescent
  BY DEF Inv
<1> QED
  BY <1>1, Invariance, PTL

-----------------------------------------------------------------------------
(* The refinement: every step of the call is a step of BatchFetch, or one  *)
(* its caller cannot see.                                                  *)

LEMMA InitRefines == Init => Batch!Init
<1> SUFFICES ASSUME Init PROVE Batch!Init
  OBVIOUS
<1>1. InputOK
  BY TypeInit DEF TypeInv, TypeOK, ListTypeOK
<1>2. [i \in Positions |-> Asked(i)] \in Batch!Request
  BY <1>1, AskedIsRequest, SameVocabulary DEF Batch!Request
<1>3. store.flaky \in BOOLEAN
  BY <1>1 DEF InputOK, Store
<1>4. ctxDone = FALSE /\ result = Pending
  BY DEF Init, ListInit
<1> QED
  BY <1>2, <1>3, <1>4, SameVocabulary DEF Batch!Init

LEMMA StepRefines == Inv /\ [Next]_vars => [Batch!Next]_Batch!batchVars
<1> SUFFICES ASSUME Inv, [Next]_vars PROVE [Batch!Next]_Batch!batchVars
  OBVIOUS
<1>1. UNCHANGED input
  BY DEF Next, Step, Classify, StartGroup, Return, ReturnWith, SubmitParquet,
         Download, CopyRow, FinishParquet, RepoSubmitJson, RepoJsonTask, Frame,
         CallerCancels, Finished, listVars, vars
<1>2. /\ store' = store /\ Positions' = Positions
      /\ [i \in Positions |-> Asked(i)]' = [i \in Positions |-> Asked(i)]
  BY <1>1, AskedUnchanged DEF Asked
<1>3. ASSUME UNCHANGED <<ctxDone, result>>
      PROVE  UNCHANGED Batch!batchVars
  BY <1>2, <1>3 DEF Batch!batchVars
<1>4. Batch!Causes = Causes
  BY SameVocabulary DEF Batch!Causes, Causes, Batch!Positions, Asked
<1>5. ASSUME result = Pending, NEW e \in Causes, result' = Failed(e),
             UNCHANGED ctxDone
      PROVE  Batch!Next
  BY <1>2, <1>4, <1>5, SameVocabulary DEF Batch!Next, Batch!Return, Batch!Fail
<1>6. CASE Classify
  <2>1. UNCHANGED ctxDone /\ next \in Positions /\ result = Pending
    BY <1>6 DEF Classify, Inv, ClassInv
  <2>2. CASE result' = result
    BY <1>3, <2>1, <2>2
  <2>3. CASE result' # result
    <3>1. /\ IsParquetRef(indexes[next]) /\ ~Resolvable(store, indexes[next])
          /\ result' = Failed("Other")
      BY <1>6, <2>3 DEF Classify
    <3>2. "Other" \in Causes
      BY <2>1, <3>1 DEF Causes, FaultOf
    <3> QED
      BY <1>5, <2>1, <3>1, <3>2
  <2> QED
    BY <2>2, <2>3
<1>7. CASE Return
  <2>1. /\ result = Pending /\ UNCHANGED ctxDone
        /\ result' = IF poolErr = NoErr THEN Delivered(events)
                                        ELSE Failed(poolErr)
    BY <1>7 DEF Return, ReturnWith, Inv, ClassInv
  <2>2. CASE poolErr # NoErr
    BY <1>5, <2>1, <2>2 DEF Inv, ErrInv
  <2>3. CASE poolErr = NoErr
    <3>1. \A i \in Positions : Served(i)
      BY <1>7, <2>3, AllServed
    <3>2. events \in [Positions -> Event \cup {NoEvent}]
      BY DEF Inv, TypeInv, TypeOK, ListTypeOK, PoolOK
    <3>3. \A i \in Positions : Asked(i).fault = NoErr /\ Asked(i).event = events[i]
      BY <3>1 DEF Served, Asked
    <3>4. events = [i \in Positions |-> Asked(i).event]
      BY <3>2, <3>3
    <3>5. Batch!Deliver
      BY <2>1, <2>3, <3>3, <3>4, SameVocabulary
         DEF Batch!Deliver, Batch!Positions
    <3> QED
      BY <1>2, <2>1, <3>5 DEF Batch!Next, Batch!Return
  <2> QED
    BY <2>2, <2>3
<1>8. CASE CallerCancels
  BY <1>2, <1>8 DEF CallerCancels, Batch!Next, Batch!CallerCancels
<1>9. CASE StartGroup \/ UNCHANGED vars \/ Finished
  BY <1>3, <1>9 DEF StartGroup, vars, listVars, Finished
<1>10. CASE Frame
  BY <1>3, <1>10 DEF Frame
<1> QED
  BY <1>6, <1>7, <1>8, <1>9, <1>10
     DEF Next, Step, SubmitParquet, Download, CopyRow, FinishParquet,
         RepoSubmitJson, RepoJsonTask

(* eventrepo's batch fetch keeps the all-or-nothing promise, and the error *)
(* it reports is never one its own errgroup inflicted on a sibling.        *)
THEOREM ImplementsBatchFetch ==
    ASSUME ConsistentInputs
    PROVE  Spec => BatchPromise
<1>1. Spec => []Inv
  BY Invariance
<1> QED
  BY <1>1, InitRefines, StepRefines, PTL DEF Spec, BatchPromise, Batch!Spec

-----------------------------------------------------------------------------
(* Two JSON tasks of one key never download it at the same time.  Unlike   *)
(* the results above, this does not depend on what the references ask for. *)
THEOREM DownloadsAreShared == Spec => []NoDuplicateDownload
<1> DEFINE I == TypeInv /\ FlightInv
<1>1. Init => I
  BY TypeInit DEF Init, ListInit, FlightInv
<1>2. I /\ [Next]_vars => I'
  <2> SUFFICES ASSUME I, [Next]_vars PROVE FlightInv'
    BY TypeStep
  <2>1. CASE \/ \E k \in DOMAIN jsonItems : RepoSubmitJson(k)
             \/ \E i \in Positions : RepoJsonTask(i)
    BY <2>1, JsonStepIsPoolStep, FlightInvStep DEF TypeInv, TypeOK, ListTypeOK
  <2>2. CASE UNCHANGED <<input, poolVars>>
    BY <2>2, FlightInvFrame DEF poolVars
  <2> QED
    BY <2>1, <2>2
       DEF Next, Step, Classify, StartGroup, Return, ReturnWith, SubmitParquet,
           Download, CopyRow, FinishParquet, Frame, CallerCancels, Finished,
           listVars, vars
<1>3. I => NoDuplicateDownload
  BY OneLeaderPerKey
<1> QED
  BY <1>1, <1>2, <1>3, PTL DEF Spec

-----------------------------------------------------------------------------
(* No slot is written twice.  This does not depend on what the references  *)
(* ask for either.                                                         *)

(* The groups hold parquet references the loop has passed, each once.      *)
ItemOf(o, i) == IsParquetRef(indexes[i]) /\ indexes[i].name = o /\ i < next

GroupedOnce(o) ==
    /\ pqRow[o] <= Len(parquetGroups[o])
    /\ \A m \in 1..Len(parquetGroups[o]) : ItemOf(o, parquetGroups[o][m].idx)
    /\ \A m, n \in 1..Len(parquetGroups[o]) :
         parquetGroups[o][m].idx = parquetGroups[o][n].idx => m = n

(* A slot that is written has been copied by its group or is its task's.   *)
Copied(i) ==
    LET o == indexes[i].name
    IN  \E m \in 1..pqRow[o] : parquetGroups[o][m].idx = i

WrittenBy(i) ==
    /\ IsParquetRef(indexes[i]) => jsTask[i] = "idle"
    /\ events[i] # NoEvent =>
         IF IsParquetRef(indexes[i]) THEN Copied(i) ELSE jsTask[i] = "done"

OnceInv ==
    /\ \A n \in DOMAIN jsonItems : ~IsParquetRef(indexes[jsonItems[n]])
    /\ \A o \in Names : GroupedOnce(o)
    /\ \A i \in Positions : WrittenBy(i)

(* What a step may do to the slots. *)
WritesOnce == \A i \in Positions : events[i] # NoEvent => events'[i] = events[i]

LEMMA OnceInit == Init => OnceInv
<1> SUFFICES ASSUME Init PROVE OnceInv
  OBVIOUS
<1>1. DOMAIN jsonItems = {}
  BY EmptySeq DEF Init, ListInit
<1>2. ASSUME NEW o \in Names PROVE GroupedOnce(o)
  <2>1. pqRow[o] = 0 /\ parquetGroups[o] = <<>> /\ Len(parquetGroups[o]) = 0
    BY EmptySeq DEF Init
  <2>2. \A m \in 1..Len(parquetGroups[o]) : FALSE
    BY <2>1
  <2> QED
    BY <2>1, <2>2 DEF GroupedOnce
<1>3. \A i \in Positions : WrittenBy(i)
  BY DEF Init, ListInit, WrittenBy
<1> QED
  BY <1>1, <1>2, <1>3 DEF OnceInv

(* A group's rows are numbers, and those copied are in it.                 *)
LEMMA RowsOf ==
    ASSUME TypeInv, NEW o \in Names
    PROVE  /\ parquetGroups[o] \in Seq([idx : Positions, bucket : Buckets])
           /\ Len(parquetGroups[o]) \in Nat /\ pqRow[o] \in Nat
           /\ \A m \in 1..Len(parquetGroups[o]) : parquetGroups[o][m].idx \in Positions
<1>1. parquetGroups[o] \in Seq([idx : Positions, bucket : Buckets]) /\ pqRow[o] \in Nat
  BY DEF TypeInv, TypeOK
<1>2. \A m \in 1..Len(parquetGroups[o]) :
          parquetGroups[o][m] \in [idx : Positions, bucket : Buckets]
  BY <1>1, ElementOfSeq
<1> QED
  BY <1>1, <1>2, LenProperties

(* What a JSON task's step does: it moves its own task on, and writes its  *)
(* own slot only when it ends.                                             *)
LEMMA JsonTaskWrites ==
    ASSUME PoolOK, NEW i \in Positions, NEW c, JsonTask(i, c)
    PROVE  /\ jsTask[i] \notin {"idle", "done"}
           /\ \A j \in Positions : j # i => jsTask'[j] = jsTask[j] /\ events'[j] = events[j]
           /\ jsTask'[i] = "done" \/ events' = events
<1>1. CASE Join(i)
  BY <1>1 DEF Join, PoolOK
<1>2. CASE TryBucket(i, c)
  BY <1>2 DEF TryBucket, Publish, PoolOK
<1>3. CASE NoBuckets(i)
  BY <1>3 DEF NoBuckets, Publish, PoolOK
<1>4. CASE TakeShared(i)
  BY <1>4 DEF TakeShared, PoolOK
<1> QED
  BY <1>1, <1>2, <1>3, <1>4 DEF JsonTask

(* A step that leaves the groups alone, and the slots of their references. *)
LEMMA OnceFrame ==
    ASSUME TypeInv, OnceInv,
           UNCHANGED <<indexes, next, jsonItems, parquetGroups, pqRow>>,
           \A i \in Positions : WrittenBy(i)'
    PROVE  OnceInv'
<1>1. Positions' = Positions
  BY DEF Positions
<1>2. \A o \in Names : GroupedOnce(o)'
  BY DEF OnceInv, GroupedOnce, ItemOf
<1> QED
  BY <1>1, <1>2 DEF OnceInv

LEMMA OnceJson ==
    ASSUME TypeInv, OnceInv,
           \/ \E n \in DOMAIN jsonItems : RepoSubmitJson(n)
           \/ \E i \in Positions : RepoJsonTask(i)
    PROVE  OnceInv' /\ WritesOnce
<1>1. PoolOK /\ UNCHANGED <<indexes, next, jsonItems, parquetGroups, pqRow>>
  BY DEF TypeInv, TypeOK, ListTypeOK, RepoSubmitJson, RepoJsonTask, Frame, input, pqVars
<1>2. Positions' = Positions
  BY <1>1 DEF Positions
<1>3. ASSUME NEW n \in DOMAIN jsonItems, RepoSubmitJson(n)
      PROVE  WritesOnce /\ \A i \in Positions : WrittenBy(i)'
  <2>1. /\ jsTask[jsonItems[n]] = "idle" /\ UNCHANGED events
        /\ jsTask' = [jsTask EXCEPT ![jsonItems[n]] = "start"]
    BY <1>3 DEF RepoSubmitJson, SubmitJson
  <2>2. ~IsParquetRef(indexes[jsonItems[n]])
    BY DEF OnceInv
  <2>3. ASSUME NEW i \in Positions PROVE WrittenBy(i)'
    <3>1. WrittenBy(i)
      BY DEF OnceInv
    <3>2. Copied(i)' = Copied(i)
      BY <1>1 DEF Copied
    <3>3. IF i = jsonItems[n] THEN jsTask[i] = "idle" ELSE jsTask'[i] = jsTask[i]
      BY <1>1, <2>1 DEF PoolOK
    <3> QED
      BY <1>1, <2>1, <2>2, <3>1, <3>2, <3>3 DEF WrittenBy
  <2> QED
    BY <2>1, <2>3 DEF WritesOnce
<1>4. ASSUME NEW t \in Positions, RepoJsonTask(t)
      PROVE  WritesOnce /\ \A i \in Positions : WrittenBy(i)'
  <2>1. /\ jsTask[t] \notin {"idle", "done"}
        /\ \A j \in Positions : j # t => jsTask'[j] = jsTask[j] /\ events'[j] = events[j]
        /\ jsTask'[t] = "done" \/ events' = events
    BY <1>1, <1>4, JsonTaskWrites DEF RepoJsonTask
  <2>2. ~IsParquetRef(indexes[t]) /\ events[t] = NoEvent
    BY <2>1 DEF OnceInv, WrittenBy
  <2>3. ASSUME NEW i \in Positions PROVE WrittenBy(i)'
    <3>1. WrittenBy(i) /\ Copied(i)' = Copied(i)
      BY <1>1 DEF OnceInv, Copied
    <3>2. CASE i = t
      BY <1>1, <2>1, <2>2, <3>2 DEF WrittenBy
    <3>3. CASE i # t
      BY <1>1, <2>1, <3>1, <3>3 DEF WrittenBy
    <3> QED
      BY <3>2, <3>3
  <2>4. WritesOnce
    BY <2>1, <2>2 DEF WritesOnce
  <2> QED
    BY <2>3, <2>4
<1> QED
  BY <1>1, <1>3, <1>4, OnceFrame

(* The rows of a group name different positions, so the next one's slot is *)
(* still empty.                                                            *)
LEMMA OnceCopy ==
    ASSUME TypeInv, OnceInv, NEW o \in Names, CopyRow(o)
    PROVE  OnceInv' /\ WritesOnce
<1> DEFINE item == parquetGroups[o][pqRow[o] + 1]
           from == parquetGroups[o][1].bucket
           row == RowEvent(from, indexes[item.idx])
<1>1. /\ PoolOK /\ UNCHANGED <<indexes, next, jsonItems, parquetGroups, jsTask>>
      /\ pqRow[o] < Len(parquetGroups[o])
  BY DEF TypeInv, TypeOK, ListTypeOK, CopyRow, Frame, input, poolVars
<1>2. Positions' = Positions
  BY <1>1 DEF Positions
<1>3. /\ Len(parquetGroups[o]) \in Nat /\ pqRow[o] \in Nat
      /\ pqRow[o] + 1 \in 1..Len(parquetGroups[o]) /\ item.idx \in Positions
  <2>1. Len(parquetGroups[o]) \in Nat /\ pqRow[o] \in Nat
    BY RowsOf
  <2>2. pqRow[o] + 1 \in 1..Len(parquetGroups[o])
    BY <1>1, <2>1
  <2> QED
    BY <2>1, <2>2, RowsOf
<1>4. CASE UNCHANGED <<pqRow, events>>
  <2>1. \A i \in Positions : WrittenBy(i)'
    BY <1>1, <1>4 DEF OnceInv, WrittenBy, Copied
  <2> QED
    BY <1>1, <1>4, <2>1, OnceFrame DEF WritesOnce
<1>5. CASE /\ events' = [events EXCEPT ![item.idx] = row]
           /\ pqRow' = [pqRow EXCEPT ![o] = pqRow[o] + 1]
  <2>1. ItemOf(o, item.idx)
    BY <1>3 DEF OnceInv, GroupedOnce
  <2>2. events[item.idx] = NoEvent
    <3>1. ~Copied(item.idx)
      <4>1. ASSUME NEW m \in 1..pqRow[o], parquetGroups[o][m].idx = item.idx
            PROVE  FALSE
        <5>1. m \in 1..Len(parquetGroups[o]) /\ m # pqRow[o] + 1
          BY <1>3
        <5> QED
          BY <1>3, <4>1, <5>1 DEF OnceInv, GroupedOnce
      <4> QED
        BY <2>1, <4>1 DEF Copied, ItemOf
    <3> QED
      BY <1>3, <2>1, <3>1 DEF OnceInv, WrittenBy, ItemOf
  <2>3. WritesOnce
    <3>1. \A i \in Positions : i # item.idx => events'[i] = events[i]
      BY <1>1, <1>5 DEF PoolOK
    <3> QED
      BY <2>2, <3>1 DEF WritesOnce
  <2>4. ASSUME NEW u \in Names PROVE GroupedOnce(u)'
    <3>1. GroupedOnce(u)
      BY DEF OnceInv
    <3>2. pqRow'[u] <= Len(parquetGroups[u])
      <4>1. pqRow \in [Names -> Nat]
        BY DEF TypeInv, TypeOK
      <4>2. CASE u = o
        BY <1>3, <1>5, <4>1, <4>2
      <4>3. CASE u # o
        BY <1>5, <3>1, <4>1, <4>3 DEF GroupedOnce
      <4> QED
        BY <4>2, <4>3
    <3> QED
      BY <1>1, <3>1, <3>2 DEF GroupedOnce, ItemOf
  <2>5. ASSUME NEW i \in Positions, Copied(i) \/ i = item.idx
        PROVE  indexes[i].name \in Names => Copied(i)'
    <3> SUFFICES ASSUME indexes[i].name \in Names PROVE Copied(i)'
      OBVIOUS
    <3> DEFINE u == indexes[i].name
    <3>1. u \in Names /\ pqRow[u] \in Nat /\ pqRow \in [Names -> Nat]
      BY RowsOf DEF TypeInv, TypeOK
    <3>2. CASE i = item.idx
      <4>1. u = o /\ pqRow'[u] = pqRow[o] + 1
        BY <1>5, <2>1, <3>1, <3>2 DEF ItemOf
      <4>2. pqRow[o] + 1 \in 1..pqRow'[u]
        BY <1>3, <4>1
      <4> QED
        BY <1>1, <3>2, <4>1, <4>2 DEF Copied
    <3>3. CASE Copied(i)
      <4>1. PICK m \in 1..pqRow[u] : parquetGroups[u][m].idx = i
        BY <3>3 DEF Copied
      <4>2. m \in 1..pqRow'[u]
        BY <1>5, <3>1
      <4> QED
        BY <1>1, <4>1, <4>2 DEF Copied
    <3> QED
      BY <2>5, <3>2, <3>3
  <2>6. ASSUME NEW i \in Positions PROVE WrittenBy(i)'
    <3>1. WrittenBy(i) /\ indexes[i].name \in Names
      BY PositionsAreNat DEF OnceInv, TypeInv, TypeOK, ListTypeOK, Ref
    <3>2. CASE i = item.idx
      BY <1>1, <2>1, <2>5, <3>1, <3>2 DEF WrittenBy, ItemOf
    <3>3. CASE i # item.idx
      <4>1. events'[i] = events[i]
        BY <1>1, <1>5, <3>3 DEF PoolOK
      <4> QED
        BY <1>1, <2>5, <3>1, <4>1 DEF WrittenBy
    <3> QED
      BY <3>2, <3>3
  <2>7. \A n \in DOMAIN jsonItems' : ~IsParquetRef(indexes'[jsonItems'[n]])
    BY <1>1 DEF OnceInv
  <2> QED
    BY <1>2, <2>3, <2>4, <2>6, <2>7 DEF OnceInv
<1> QED
  BY <1>4, <1>5 DEF CopyRow, PqFails

(* The classification puts a position into one group or list, once. *)
LEMMA OnceClassify ==
    ASSUME TypeInv, OnceInv, Classify
    PROVE  OnceInv' /\ WritesOnce
<1> DEFINE ref == indexes[next]
<1>1. /\ InputOK /\ jsonItems \in Seq(Positions) /\ next \in Positions /\ next' = next + 1
      /\ UNCHANGED <<indexes, events, jsTask, pqRow>>
  BY DEF TypeInv, TypeOK, ListTypeOK, PoolOK, Classify, input, poolVars, pqVars
<1>2. Positions' = Positions /\ next \in Nat /\ ref \in Ref /\ ref.name \in Names
  BY <1>1, PositionsAreNat DEF Positions, Ref
<1>3. ASSUME NEW i \in Positions,
             \A o \in Names : \A m \in 1..Len(parquetGroups[o]) :
                 parquetGroups'[o][m] = parquetGroups[o][m]
      PROVE  WrittenBy(i)'
  <2>1. WrittenBy(i) /\ indexes[i].name \in Names
    BY <1>1, PositionsAreNat DEF OnceInv, Ref
  <2>2. ASSUME Copied(i) PROVE Copied(i)'
    <3> DEFINE u == indexes[i].name
    <3>1. PICK m \in 1..pqRow[u] : parquetGroups[u][m].idx = i
      BY <2>2 DEF Copied
    <3>2. pqRow[u] <= Len(parquetGroups[u]) /\ pqRow[u] \in Nat /\ Len(parquetGroups[u]) \in Nat
      BY <2>1, RowsOf DEF OnceInv, GroupedOnce
    <3>3. m \in 1..Len(parquetGroups[u])
      BY <3>2
    <3> QED
      BY <1>1, <1>3, <2>1, <3>1, <3>3 DEF Copied
  <2> QED
    BY <1>1, <2>1, <2>2 DEF WrittenBy
<1>4. ASSUME NEW o \in Names, parquetGroups'[o] = parquetGroups[o]
      PROVE  GroupedOnce(o)'
  <2>1. GroupedOnce(o)
    BY DEF OnceInv
  <2>2. ASSUME NEW i \in Positions, ItemOf(o, i) PROVE ItemOf(o, i)'
    BY <1>1, <1>2, <2>2, PositionsAreNat DEF ItemOf
  <2> QED
    BY <1>1, <1>4, <2>1, <2>2, RowsOf DEF GroupedOnce
<1>5. CASE ~IsParquetRef(ref) /\ jsonItems' = Append(jsonItems, next) /\ UNCHANGED parquetGroups
  <2>1. \A n \in DOMAIN jsonItems' :
          \/ jsonItems'[n] = next
          \/ n \in DOMAIN jsonItems /\ jsonItems'[n] = jsonItems[n]
    <3>1. /\ Len(jsonItems') = Len(jsonItems) + 1 /\ Len(jsonItems) \in Nat
          /\ jsonItems' \in Seq(Positions)
      BY <1>1, <1>5, AppendProperties, LenProperties
    <3>2. /\ DOMAIN jsonItems' = 1..Len(jsonItems') /\ DOMAIN jsonItems = 1..Len(jsonItems)
      BY <1>1, <3>1, LenProperties
    <3> QED
      BY <1>1, <1>5, <3>1, <3>2, AppendProperties
  <2>2. \A n \in DOMAIN jsonItems' : ~IsParquetRef(indexes'[jsonItems'[n]])
    BY <1>1, <1>5, <2>1 DEF OnceInv
  <2> QED
    BY <1>1, <1>2, <1>3, <1>4, <1>5, <2>2 DEF OnceInv, WritesOnce
<1>6. CASE IsParquetRef(ref) /\ UNCHANGED <<parquetGroups, jsonItems>>
  BY <1>1, <1>2, <1>3, <1>4, <1>6 DEF OnceInv, WritesOnce
<1>7. CASE /\ IsParquetRef(ref) /\ UNCHANGED jsonItems
           /\ parquetGroups' = [parquetGroups EXCEPT ![ref.name] = Append(@, ParquetItem(next))]
  <2>1. PICK key \in Names : key = ref.name
    BY <1>2
  <2>2. PICK i \in Positions : i = next
    BY <1>1
  <2>3. PICK old \in Seq([idx : Positions, bucket : Buckets]) : old = parquetGroups[key]
    BY RowsOf
  <2>4. /\ \A o \in Names : o # key => parquetGroups'[o] = parquetGroups[o]
        /\ parquetGroups'[key] = Append(old, ParquetItem(i))
    BY <1>7, <2>1, <2>2, <2>3 DEF TypeInv, TypeOK
  <2>5. PICK grown : grown = parquetGroups'[key]
    OBVIOUS
  <2>6. /\ Len(old) \in Nat /\ Len(grown) = Len(old) + 1 /\ grown[Len(old) + 1].idx = i
        /\ \A m \in 1..Len(old) : grown[m] = old[m]
    <3> DEFINE T == [idx : Positions, bucket : Buckets] \cup {ParquetItem(i)}
    <3>1. ParquetItem(i) \in T /\ [idx : Positions, bucket : Buckets] \subseteq T
      OBVIOUS
    <3>2. ParquetItem(i).idx = i
      BY DEF ParquetItem
    <3> HIDE DEF T
    <3>3. old \in Seq(T)
      <4>1. Len(old) \in Nat /\ old \in [1..Len(old) -> T]
        BY <3>1, LenProperties, ElementOfSeq
      <4> QED
        BY <4>1, SeqDef
    <3> QED
      BY <2>4, <2>5, <3>1, <3>2, <3>3, AppendProperties, LenProperties
  <2>7. /\ pqRow[key] \in Nat /\ pqRow[key] <= Len(old)
        /\ \A m \in 1..Len(old) : old[m].idx \in Nat /\ ItemOf(key, old[m].idx)
        /\ \A m, n \in 1..Len(old) : old[m].idx = old[n].idx => m = n
    BY <1>1, <2>3, RowsOf, PositionsAreNat DEF OnceInv, GroupedOnce
  <2>8. ASSUME NEW m \in 1..Len(grown)
        PROVE  (m \in 1..Len(old) /\ grown[m] = old[m]) \/ (m = Len(old) + 1 /\ grown[m].idx = i)
    BY <2>6
  <2>9. ASSUME NEW m \in 1..Len(grown) PROVE ItemOf(key, grown[m].idx)'
    <3>1. CASE m = Len(old) + 1 /\ grown[m].idx = i
      BY <1>1, <1>2, <1>7, <2>1, <2>2, <2>6, <3>1 DEF ItemOf
    <3>2. CASE m \in 1..Len(old) /\ grown[m] = old[m]
      <4>1. ItemOf(key, old[m].idx) /\ old[m].idx \in Nat
        BY <2>7, <3>2
      <4>2. ASSUME NEW a \in Nat, ItemOf(key, a) PROVE ItemOf(key, a)'
        BY <1>1, <1>2, <4>2 DEF ItemOf
      <4>3. ItemOf(key, old[m].idx)'
        BY <4>1, <4>2
      <4> QED
        BY <3>2, <4>3
    <3> QED
      BY <2>8, <3>1, <3>2
  <2>10. ASSUME NEW m \in 1..Len(grown), NEW n \in 1..Len(grown), grown[m].idx = grown[n].idx
         PROVE  m = n
    <3>1. \A a \in 1..Len(old) : old[a].idx # i
      BY <1>2, <2>2, <2>7 DEF ItemOf
    <3> QED
      BY <2>7, <2>8, <2>10, <3>1
  <2>11. GroupedOnce(key)'
    <3>1. pqRow'[key] <= Len(grown)
      BY <1>1, <2>6, <2>7
    <3> QED
      BY <2>5, <2>9, <2>10, <3>1 DEF GroupedOnce
  <2>12. \A o \in Names : GroupedOnce(o)'
    <3>1. ASSUME NEW o \in Names, o # key PROVE GroupedOnce(o)'
      BY <1>4, <2>4, <3>1
    <3> QED
      BY <2>11, <3>1
  <2>13. \A j \in Positions : WrittenBy(j)'
    <3>1. \A o \in Names : \A m \in 1..Len(parquetGroups[o]) :
              parquetGroups'[o][m] = parquetGroups[o][m]
      BY <2>3, <2>4, <2>5, <2>6
    <3> QED
      BY <1>3, <3>1
  <2>14. \A n \in DOMAIN jsonItems' : ~IsParquetRef(indexes'[jsonItems'[n]])
    BY <1>1, <1>7 DEF OnceInv
  <2> QED
    BY <1>1, <1>2, <2>12, <2>13, <2>14 DEF OnceInv, WritesOnce
<1> QED
  BY <1>5, <1>6, <1>7 DEF Classify, Resolvable, IsParquetRef

LEMMA OnceStep == TypeInv /\ OnceInv /\ [Next]_vars => OnceInv' /\ WritesOnce
<1> SUFFICES ASSUME TypeInv, OnceInv, [Next]_vars PROVE OnceInv' /\ WritesOnce
  OBVIOUS
<1>1. ASSUME UNCHANGED <<indexes, next, jsonItems, parquetGroups, pqRow, jsTask, events>>
      PROVE  OnceInv' /\ WritesOnce
  <2>1. \A i \in Positions : WrittenBy(i)'
    BY <1>1 DEF OnceInv, WrittenBy, Copied
  <2> QED
    BY <1>1, <2>1, OnceFrame DEF WritesOnce
<1>2. CASE Classify
  BY <1>2, OnceClassify
<1>3. CASE StartGroup \/ Return
  BY <1>1, <1>3 DEF StartGroup, Return, ReturnWith, input, poolVars, pqVars
<1>4. ASSUME NEW o \in Names, SubmitParquet(o) \/ Download(o) \/ FinishParquet(o)
      PROVE  OnceInv' /\ WritesOnce
  BY <1>1, <1>4 DEF SubmitParquet, Download, FinishParquet, PqFails, Frame, input, poolVars
<1>5. ASSUME NEW o \in Names, CopyRow(o) PROVE OnceInv' /\ WritesOnce
  BY <1>5, OnceCopy
<1>6. CASE \/ \E n \in DOMAIN jsonItems : RepoSubmitJson(n)
           \/ \E i \in Positions : RepoJsonTask(i)
  BY <1>6, OnceJson
<1>7. CASE (CallerCancels \/ Finished) /\ UNCHANGED <<parquetGroups, pqVars>>
  BY <1>1, <1>7 DEF CallerCancels, Finished, listVars, input, poolVars, pqVars
<1>8. CASE UNCHANGED vars
  BY <1>1, <1>8 DEF vars, listVars, input, poolVars, pqVars
<1> QED
  BY <1>2, <1>3, <1>4, <1>5, <1>6, <1>7, <1>8 DEF Next, Step

(* Whichever tasks of eventrepo's batch run in whichever order, and        *)
(* whatever the references ask for, no step overwrites a slot.             *)
THEOREM SlotsWrittenOnce == Spec => WriteOnce
<1>1. TypeInv /\ OnceInv /\ [Next]_vars
          => [\A i \in Positions : events[i] # NoEvent => events'[i] = events[i]]_events
  BY OnceStep DEF WritesOnce
<1> QED
  BY <1>1, TypeInit, TypeStep, OnceInit, OnceStep, PTL DEF Spec, WriteOnce

=============================================================================
