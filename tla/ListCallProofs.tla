--------------------------- MODULE ListCallProofs ---------------------------
(***************************************************************************)
(* Facts about the JSON tasks that hold whatever else the errgroup runs:   *)
(* they keep their types, and a payload that is published or taken over is *)
(* the one the index asks for.                                             *)
(***************************************************************************)
EXTENDS ListCall, SequenceTheorems, TLAPS

USE DEF NoCall, NoErr, Errors

LEMMA PositionsAreNat ==
    ASSUME InputOK
    PROVE  /\ Positions = 1..Len(indexes)
           /\ Positions \subseteq Nat
           /\ NoCall \notin Positions
           /\ \A i \in Positions : indexes[i] \in Ref
BY DEF InputOK, Positions

(* The slots form a slice. *)
LEMMA SlotsAreSeq ==
    ASSUME InputOK, PoolOK
    PROVE  events \in Seq(Event \cup {NoEvent})
<1> DEFINE S == Event \cup {NoEvent}
<1>1. Len(indexes) \in Nat /\ events \in [1..Len(indexes) -> S]
  BY PositionsAreNat DEF InputOK, PoolOK
<1> HIDE DEF S
<1>2. events \in UNION {[1..n -> S] : n \in Nat}
  BY <1>1
<1>3. events \in Seq(S)
  BY <1>2, SeqDef
<1> QED
  BY <1>3 DEF S

-----------------------------------------------------------------------------
(* The operators of EventStore and SyncGroups. *)

LEMMA GetObjectOutcome ==
    ASSUME NEW st \in Store, NEW b, NEW n, NEW c \in BOOLEAN,
           NEW e \in GetObject(st, b, n, c)
    PROVE  /\ e \in Errors \cup {NoErr}
           /\ e = NoErr => <<b, n>> \in st.present
           /\ e = "NotFound" => <<b, n>> \notin st.present
           /\ e = "Canceled" => c
           /\ e = "Other" => st.flaky
BY DEF GetObject

LEMMA ReadJsonOutcome ==
    ASSUME NEW st \in Store, NEW b \in Buckets, NEW ref \in Ref,
           NEW c \in BOOLEAN, NEW out \in ReadJson(st, b, ref, c)
    PROVE  /\ out \in [err : Errors \cup {NoErr}, data : Record \cup {NoData}]
           /\ ref.blob => out = [err |-> NoErr, data |-> NoData]
           /\ ~ref.blob /\ out.err = NoErr =>
                /\ Fault(st, b, ref.name, 0) = NoErr
                /\ out.data = <<b, ref.name, 0>>
           /\ out.err = "NotFound" =>
                ~ref.blob /\ <<b, ref.name>> \notin st.present
           /\ out.err = "Canceled" => c
           /\ out.err = "Other" =>
                ~ref.blob /\ (st.flaky \/ Fault(st, b, ref.name, 0) = "Other")
<1>1. CASE ref.blob
  BY <1>1 DEF ReadJson
<1>2. CASE ~ref.blob
  <2>1. PICK e \in GetObject(st, b, ref.name, c) :
            out = IF e # NoErr THEN [err |-> e, data |-> NoData]
                  ELSE IF <<b, ref.name, 0>> \notin st.readable
                       THEN [err |-> "Other", data |-> NoData]
                       ELSE [err |-> NoErr, data |-> <<b, ref.name, 0>>]
    BY <1>2 DEF ReadJson
  <2>2. <<b, ref.name, 0>> \in Record
    BY StoreAssumption DEF Record, Ref
  <2>3. /\ e \in Errors \cup {NoErr}
        /\ e = NoErr => <<b, ref.name>> \in st.present
        /\ e = "NotFound" => <<b, ref.name>> \notin st.present
        /\ e = "Canceled" => c
        /\ e = "Other" => st.flaky
    BY <2>1, GetObjectOutcome
  <2> QED
    BY <1>2, <2>1, <2>2, <2>3 DEF Fault
<1> QED
  BY <1>1, <1>2

LEMMA ResultTypes ==
    /\ Pending \in Results
    /\ \A e \in Errors : Failed(e) \in Results
    /\ \A evs \in Seq(Event \cup {NoEvent}) : Delivered(evs) \in Results
BY EmptySeq DEF Pending, Failed, Delivered, Results

LEMMA FirstErrorKeeps ==
    ASSUME NEW kept \in Errors \cup {NoErr}, NEW e \in Errors \cup {NoErr}
    PROVE  /\ FirstError(kept, e, NoErr) \in {kept, e}
           /\ kept # NoErr => FirstError(kept, e, NoErr) = kept
           /\ kept = NoErr => FirstError(kept, e, NoErr) = e
BY DEF FirstError

(* The bucket at which the fallback stops is the first one that holds the  *)
(* object.                                                                 *)
LEMMA FirstHolderIs ==
    ASSUME InputOK, NEW name, NEW n \in DOMAIN buckets, Holds(n, name),
           \A m \in 1..(n - 1) : ~Holds(m, name)
    PROVE  FirstHolder(name) = n
<1>1. DOMAIN buckets = 1..Len(buckets) /\ Len(buckets) \in Nat
  BY DEF InputOK
<1>2. \A m \in DOMAIN buckets :
        Holds(m, name) /\ (\A l \in 1..(m - 1) : ~Holds(l, name)) => m = n
  BY <1>1
<1> QED
  BY <1>2 DEF FirstHolder

-----------------------------------------------------------------------------
(* Type correctness of the pool. *)

(* A task past Do is attached to a call. *)
Attached ==
    \A i \in Positions : jsTask[i] \in {"fetch", "wait"} => call[i] \in Positions

(* A step of the pool. *)
PoolStep(c) ==
    \/ \E k \in DOMAIN jsonItems, free \in BOOLEAN : SubmitJson(k, free)
    \/ \E i \in Positions : JsonTask(i, c)

LEMMA ListTypeInit == ListInit => ListTypeOK /\ Attached
<1> SUFFICES ASSUME ListInit PROVE ListTypeOK /\ Attached
  OBVIOUS
<1>1. InputOK
  <2>1. PICK in \in Inputs : /\ indexes = in.indexes
                             /\ buckets = in.buckets
                             /\ store = in.store
    BY DEF ListInit
  <2>2. in \in [indexes : Seq(Ref), store : Store, buckets : Seq(Buckets)]
    BY ListAssumption
  <2> QED
    BY <2>1, <2>2 DEF InputOK
<1>2. PoolOK /\ Attached
  <2>1. jsonItems \in Seq(Positions)
    BY EmptySeq DEF ListInit
  <2> QED
    BY <1>1, <2>1, PositionsAreNat DEF ListInit, PoolOK, Attached, Unpublished
<1>3. next \in 1..(Len(indexes) + 1)
  <2>1. Len(indexes) \in Nat /\ next = 1
    BY <1>1 DEF InputOK, ListInit
  <2> QED
    BY <2>1
<1>4. result \in Results /\ ctxDone = FALSE /\ pc = "classify"
  BY ResultTypes DEF ListInit
<1> QED
  BY <1>1, <1>2, <1>3, <1>4 DEF ListTypeOK

LEMMA PoolTypeStep ==
    ASSUME InputOK, PoolOK, Attached, NEW c \in BOOLEAN, PoolStep(c),
           UNCHANGED <<input, jsonItems>>
    PROVE  PoolOK' /\ Attached'
<1> USE PositionsAreNat
<1>1. UNCHANGED <<indexes, buckets, store, Positions>>
  BY DEF input, Positions
<1>2. ASSUME NEW k \in DOMAIN jsonItems, NEW free \in BOOLEAN,
             SubmitJson(k, free)
      PROVE  PoolOK' /\ Attached'
  <2>1. jsonItems[k] \in Positions
    BY DEF PoolOK
  <2> QED
    BY <1>1, <1>2, <2>1 DEF SubmitJson, PoolOK, Attached
<1>3. ASSUME NEW i \in Positions, Join(i)
      PROVE  PoolOK' /\ Attached'
  <2>1. indexes[i].name \in Names
    BY DEF Ref
  <2>2. CallOf(flight, indexes[i].name, i) \in Positions
    BY <2>1 DEF CallOf, PoolOK
  <2> QED
    BY <1>1, <1>3, <2>1, <2>2 DEF Join, PoolOK, Attached
<1>4. ASSUME NEW i \in Positions,
             NEW out \in [err : Errors \cup {NoErr}, data : Record \cup {NoData}],
             Publish(i, out), jsTask[i] = "fetch",
             UNCHANGED <<poolErr, tried, call, events>>
      PROVE  PoolOK' /\ Attached'
  <2>1. Published(out) \in [done : BOOLEAN, err : Errors \cup {NoErr},
                            data : Record \cup {NoData}]
    BY DEF Published
  <2> QED
    BY <1>1, <1>4, <2>1 DEF Publish, PoolOK, Attached, Ref
<1>5. ASSUME NEW i \in Positions, TryBucket(i, c)
      PROVE  PoolOK' /\ Attached'
  <2>1. tried[i] \in Nat /\ buckets[tried[i] + 1] \in Buckets
    BY <1>5 DEF TryBucket, PoolOK, InputOK
  <2>2. PICK out \in ReadJson(store, buckets[tried[i] + 1], indexes[i], c) :
          IF FallsBack(out.err) /\ tried[i] + 1 < Len(buckets)
          THEN /\ tried' = [tried EXCEPT ![i] = @ + 1]
               /\ UNCHANGED <<shared, flight, jsTask>>
          ELSE Publish(i, out) /\ UNCHANGED tried
    BY <1>5 DEF TryBucket
  <2>3. out \in [err : Errors \cup {NoErr}, data : Record \cup {NoData}]
    BY <2>1, <2>2, ReadJsonOutcome DEF InputOK
  <2>4. CASE FallsBack(out.err) /\ tried[i] + 1 < Len(buckets)
    BY <1>1, <1>5, <2>1, <2>2, <2>4 DEF TryBucket, PoolOK, Attached
  <2>5. CASE ~(FallsBack(out.err) /\ tried[i] + 1 < Len(buckets))
    BY <1>4, <1>5, <2>2, <2>3, <2>5 DEF TryBucket
  <2> QED
    BY <2>4, <2>5
<1>6. ASSUME NEW i \in Positions, NoBuckets(i)
      PROVE  PoolOK' /\ Attached'
  BY <1>4, <1>6 DEF NoBuckets
<1>7. ASSUME NEW i \in Positions, TakeShared(i)
      PROVE  PoolOK' /\ Attached'
  <2>1. shared[call[i]] \in [done : BOOLEAN, err : Errors \cup {NoErr},
                             data : Record \cup {NoData}]
    BY <1>7 DEF TakeShared, Attached, PoolOK
  <2>2. Overlay(i, shared[call[i]].data) \in Event
    BY <2>1 DEF Overlay, Event, Ref
  <2>3. FirstError(poolErr, shared[call[i]].err, NoErr) \in Errors \cup {NoErr}
    BY <2>1, FirstErrorKeeps DEF PoolOK
  <2>4. CASE shared[call[i]].err = NoErr
    <3>1. events' = [events EXCEPT ![i] = Overlay(i, shared[call[i]].data)]
      BY <1>7, <2>4 DEF TakeShared
    <3>2. events' \in [Positions -> Event \cup {NoEvent}]
      BY <2>2, <3>1 DEF PoolOK
    <3> QED
      BY <1>1, <1>7, <2>4, <3>2 DEF TakeShared, PoolOK, Attached
  <2>5. CASE shared[call[i]].err # NoErr
    BY <1>1, <1>7, <2>3, <2>5 DEF TakeShared, PoolOK, Attached
  <2> QED
    BY <2>4, <2>5
<1> QED
  BY <1>2, <1>3, <1>5, <1>6, <1>7 DEF PoolStep, JsonTask

-----------------------------------------------------------------------------
(* What the pool serves. *)

(* Slot i holds what its reference asks for. *)
Served(i) ==
    /\ FaultOf(indexes[i]) = NoErr
    /\ events[i] = EventOf(indexes[i])

(* JSON references to one object. *)
SameKey(i, j) ==
    /\ ~IsParquetRef(indexes[i]) /\ ~IsParquetRef(indexes[j])
    /\ indexes[i].name = indexes[j].name

(* The payload of out is the one position i asks for. *)
Carries(i, out) ==
    out.err = NoErr => /\ FaultOf(indexes[i]) = NoErr
                       /\ out.data = EventOf(indexes[i]).data

JsonInv ==
    /\ \A k \in DOMAIN jsonItems : ~IsParquetRef(indexes[jsonItems[k]])
    /\ \A k \in Names : flight[k] # NoCall =>
            /\ ~IsParquetRef(indexes[flight[k]])
            /\ indexes[flight[k]].name = k
    /\ \A i \in Positions :
        /\ jsTask[i] # "idle" => ~IsParquetRef(indexes[i])
        /\ jsTask[i] \in {"fetch", "wait"} => SameKey(call[i], i)
        /\ \A m \in 1..tried[i] : ~Holds(m, indexes[i].name)
        /\ shared[i].done => Carries(i, shared[i])
        /\ jsTask[i] = "done" /\ poolErr = NoErr => Served(i)

(* References to one key of a consistent batch ask for the same payload. *)
LEMMA SharedPayload ==
    ASSUME InputOK, Consistent(store, indexes),
           NEW i \in Positions, NEW j \in Positions, SameKey(i, j)
    PROVE  /\ FaultOf(indexes[i]) = FaultOf(indexes[j])
           /\ EventOf(indexes[i]) = Overlay(i, EventOf(indexes[j]).data)
<1>1. indexes[i].blob = indexes[j].blob
  BY DEF Consistent, SameKey, Positions, IsParquetRef
<1>2. FaultOf(indexes[i]) = FaultOf(indexes[j])
  BY <1>1 DEF FaultOf, SameKey
<1>3. EventOf(indexes[i]) = Overlay(i, EventOf(indexes[j]).data)
  <2>1. CASE indexes[i].blob
    BY <1>1, <2>1 DEF EventOf, SameKey, HeaderOnly, Overlay
  <2>2. CASE ~indexes[i].blob
    <3>1. EventOf(indexes[j]).data
            = <<buckets[FirstHolder(indexes[i].name)], indexes[i].name, 0>>
      BY <1>1, <2>2 DEF EventOf, SameKey, JsonEvent
    <3> QED
      BY <2>2, <3>1 DEF EventOf, SameKey, JsonEvent, Overlay
  <2> QED
    BY <2>1, <2>2
<1> QED
  BY <1>2, <1>3

(* The errors a task may report: the fault of its own index, or -- when    *)
(* they occur at all -- a cancellation or a failure of the transport.      *)
Blames(i, e, c) ==
    e # NoErr => \/ e = FaultOf(indexes[i])
                 \/ e = "Canceled" /\ c
                 \/ e = "Other" /\ store.flaky

(* The answer at which the loop over the buckets stops is the index's own. *)
LEMMA LoopOutcome ==
    ASSUME InputOK, PoolOK, JsonInv, NEW c \in BOOLEAN,
           NEW i \in Positions, jsTask[i] = "fetch", tried[i] < Len(buckets),
           NEW out \in ReadJson(store, buckets[tried[i] + 1], indexes[i], c),
           ~(FallsBack(out.err) /\ tried[i] + 1 < Len(buckets))
    PROVE  Carries(i, out) /\ Blames(i, out.err, c)
<1> DEFINE ref == indexes[i]
           n == tried[i] + 1
<1>1. /\ ref \in Ref /\ ~IsParquetRef(ref)
      /\ n \in DOMAIN buckets /\ buckets[n] \in Buckets
      /\ buckets # <<>> /\ tried[i] \in Nat
      /\ \A m \in 1..(n - 1) : ~Holds(m, ref.name)
  BY PositionsAreNat DEF JsonInv, PoolOK, InputOK
<1>2. /\ ref.blob => out = [err |-> NoErr, data |-> NoData]
      /\ ~ref.blob /\ out.err = NoErr =>
            /\ Fault(store, buckets[n], ref.name, 0) = NoErr
            /\ out.data = <<buckets[n], ref.name, 0>>
      /\ out.err = "NotFound" =>
            ~ref.blob /\ <<buckets[n], ref.name>> \notin store.present
      /\ out.err = "Canceled" => c
      /\ out.err = "Other" =>
            ~ref.blob /\ (store.flaky
                            \/ Fault(store, buckets[n], ref.name, 0) = "Other")
      /\ out.err \in Errors \cup {NoErr}
  BY <1>1, ReadJsonOutcome DEF InputOK
<1>3. Holds(n, ref.name) => FirstHolder(ref.name) = n
  BY <1>1, FirstHolderIs
<1>4. CASE ref.blob
  BY <1>1, <1>2, <1>4 DEF Carries, Blames, FaultOf, EventOf, HeaderOnly
<1>5. CASE ~ref.blob /\ Holds(n, ref.name)
  <2>1. FaultOf(ref) = Fault(store, buckets[n], ref.name, 0)
    BY <1>1, <1>3, <1>5 DEF FaultOf
  <2>2. EventOf(ref).data = <<buckets[n], ref.name, 0>>
    BY <1>1, <1>3, <1>5 DEF EventOf, JsonEvent
  <2> QED
    BY <1>2, <1>5, <2>1, <2>2 DEF Carries, Blames, Holds
<1>6. CASE ~ref.blob /\ ~Holds(n, ref.name)
  <2>1. /\ out.err # NoErr
        /\ Fault(store, buckets[n], ref.name, 0) = "NotFound"
    BY <1>2, <1>6 DEF Holds, Fault
  <2>2. CASE out.err = "NotFound"
    <3>1. n = Len(buckets)
      BY <1>1, <2>2 DEF FallsBack, InputOK
    <3>2. \A m \in DOMAIN buckets : ~Holds(m, ref.name)
      BY <1>1, <1>6, <3>1 DEF InputOK
    <3> QED
      BY <1>1, <1>6, <2>2, <3>2 DEF Carries, Blames, FaultOf
  <2>3. CASE out.err # "NotFound"
    BY <1>2, <2>1, <2>3 DEF Carries, Blames
  <2> QED
    BY <2>2, <2>3
<1> QED
  BY <1>4, <1>5, <1>6

(* Nothing that defines what is asked for ever changes. *)
LEMMA AskedUnchanged ==
    ASSUME UNCHANGED input
    PROVE  /\ indexes' = indexes /\ buckets' = buckets /\ store' = store
           /\ Positions' = Positions
           /\ \A i : /\ FaultOf(indexes[i])' = FaultOf(indexes[i])
                     /\ EventOf(indexes[i])' = EventOf(indexes[i])
           /\ \A n, name : Holds(n, name)' = Holds(n, name)
BY DEF input, Positions, FaultOf, EventOf, Holds, FirstHolder

(* A published result carries its own index's payload. *)
LEMMA PublishKeeps ==
    ASSUME InputOK, PoolOK, JsonInv, NEW i \in Positions,
           NEW out \in [err : Errors \cup {NoErr}, data : Record \cup {NoData}],
           jsTask[i] = "fetch", Publish(i, out), Carries(i, out),
           UNCHANGED <<input, jsonItems, poolErr, tried, call, events>>
    PROVE  JsonInv'
<1> USE AskedUnchanged, PositionsAreNat
<1>1. \A k \in DOMAIN jsonItems' : ~IsParquetRef(indexes'[jsonItems'[k]])
  BY DEF JsonInv
<1>2. \A k \in Names : flight'[k] # NoCall =>
            /\ ~IsParquetRef(indexes'[flight'[k]])
            /\ indexes'[flight'[k]].name = k
  BY DEF JsonInv, PoolOK, Publish
<1>3. ASSUME NEW j \in Positions
      PROVE  /\ jsTask'[j] # "idle" => ~IsParquetRef(indexes'[j])
             /\ jsTask'[j] \in {"fetch", "wait"} => SameKey(call[j], j)'
             /\ \A m \in 1..tried'[j] : ~Holds(m, indexes[j].name)'
             /\ shared'[j].done => Carries(j, shared[j])'
             /\ jsTask'[j] = "done" /\ poolErr' = NoErr => Served(j)'
  <2>1. /\ jsTask'[j] # "idle" => ~IsParquetRef(indexes'[j])
        /\ jsTask'[j] \in {"fetch", "wait"} => SameKey(call[j], j)'
    BY DEF JsonInv, PoolOK, Publish, SameKey
  <2>2. \A m \in 1..tried'[j] : ~Holds(m, indexes[j].name)'
    BY DEF JsonInv, Holds
  <2>3. shared'[j].done => Carries(j, shared[j])'
    BY DEF JsonInv, PoolOK, Publish, Published, Carries
  <2>4. jsTask'[j] = "done" /\ poolErr' = NoErr => Served(j)'
    BY DEF JsonInv, PoolOK, Publish, Served
  <2> QED
    BY <2>1, <2>2, <2>3, <2>4
<1> QED
  BY <1>1, <1>2, <1>3 DEF JsonInv

LEMMA JsonInvStep ==
    ASSUME InputOK, PoolOK, Attached, Consistent(store, indexes), JsonInv,
           NEW c \in BOOLEAN, PoolStep(c), UNCHANGED <<input, jsonItems>>
    PROVE  JsonInv'
<1> USE AskedUnchanged, PositionsAreNat
<1>1. ASSUME NEW k \in DOMAIN jsonItems, NEW free \in BOOLEAN,
             SubmitJson(k, free)
      PROVE  JsonInv'
  <2>1. jsonItems[k] \in Positions /\ ~IsParquetRef(indexes[jsonItems[k]])
    BY DEF PoolOK, JsonInv
  <2>2. \A i \in Positions :
          jsTask'[i] = IF i = jsonItems[k] THEN "start" ELSE jsTask[i]
    BY <1>1, <2>1 DEF SubmitJson, PoolOK
  <2> QED
    BY <1>1, <2>1, <2>2
       DEF SubmitJson, JsonInv, SameKey, Carries, Served, Holds
<1>2. ASSUME NEW i \in Positions, Join(i)
      PROVE  JsonInv'
  <2> DEFINE key == indexes[i].name
             lead == CallOf(flight, key, i)
  <2>1. key \in Names /\ ~IsParquetRef(indexes[i])
    BY <1>2 DEF Ref, Join, JsonInv
  <2>2. lead \in Positions /\ SameKey(lead, i)
    BY <2>1 DEF CallOf, PoolOK, JsonInv, SameKey
  <2>3. /\ \A k \in Names : flight'[k] = IF k = key THEN lead ELSE flight[k]
        /\ \A j \in Positions :
            /\ call'[j] = IF j = i THEN lead ELSE call[j]
            /\ j # i => jsTask'[j] = jsTask[j]
            /\ j = i => jsTask'[j] \in {"fetch", "wait"}
    BY <1>2, <2>1 DEF Join, PoolOK
  <2> HIDE DEF key, lead
  <2>4. \A k \in Names : flight'[k] # NoCall =>
            /\ ~IsParquetRef(indexes'[flight'[k]])
            /\ indexes'[flight'[k]].name = k
    BY <2>2, <2>3 DEF JsonInv, SameKey, key
  <2> QED
    BY <1>2, <2>1, <2>2, <2>3, <2>4
       DEF Join, JsonInv, SameKey, Carries, Served, Holds
<1>3. ASSUME NEW i \in Positions, TryBucket(i, c)
      PROVE  JsonInv'
  <2>1. /\ jsTask[i] = "fetch" /\ tried[i] < Len(buckets) /\ tried[i] \in Nat
        /\ buckets[tried[i] + 1] \in Buckets
    BY <1>3 DEF TryBucket, PoolOK, InputOK
  <2>2. PICK out \in ReadJson(store, buckets[tried[i] + 1], indexes[i], c) :
          IF FallsBack(out.err) /\ tried[i] + 1 < Len(buckets)
          THEN /\ tried' = [tried EXCEPT ![i] = @ + 1]
               /\ UNCHANGED <<shared, flight, jsTask>>
          ELSE Publish(i, out) /\ UNCHANGED tried
    BY <1>3 DEF TryBucket
  <2>3. /\ out \in [err : Errors \cup {NoErr}, data : Record \cup {NoData}]
        /\ out.err = "NotFound" => ~Holds(tried[i] + 1, indexes[i].name)
    BY <2>1, <2>2, ReadJsonOutcome DEF InputOK, Holds
  <2>4. CASE FallsBack(out.err) /\ tried[i] + 1 < Len(buckets)
    <3>1. /\ UNCHANGED <<shared, flight, jsTask, poolErr, call, events>>
          /\ \A j \in Positions :
                tried'[j] = IF j = i THEN tried[i] + 1 ELSE tried[j]
      BY <1>3, <2>2, <2>4 DEF TryBucket, PoolOK
    <3>2. ASSUME NEW j \in Positions, NEW m \in 1..tried'[j]
          PROVE  ~Holds(m, indexes[j].name)
      <4>1. ~Holds(tried[i] + 1, indexes[i].name)
        BY <2>3, <2>4 DEF FallsBack
      <4>2. CASE m \in 1..tried[j]
        BY <4>2 DEF JsonInv
      <4>3. CASE m \notin 1..tried[j]
        <5>1. j = i /\ m = tried[i] + 1
          BY <2>1, <3>1, <4>3
        <5> QED
          BY <4>1, <5>1
      <4> QED
        BY <4>2, <4>3
    <3> QED
      BY <3>1, <3>2 DEF JsonInv, SameKey, Carries, Served, Holds
  <2>5. CASE ~(FallsBack(out.err) /\ tried[i] + 1 < Len(buckets))
    <3>1. Carries(i, out)
      BY <2>1, <2>2, <2>5, LoopOutcome
    <3> QED
      BY <1>3, <2>1, <2>2, <2>3, <2>5, <3>1, PublishKeeps DEF TryBucket
  <2> QED
    BY <2>4, <2>5
<1>4. ASSUME NEW i \in Positions, NoBuckets(i)
      PROVE  JsonInv'
  <2> DEFINE out == [err |-> "Other", data |-> NoData]
  <2>1. Carries(i, out) /\ out \in [err  : Errors \cup {NoErr},
                                    data : Record \cup {NoData}]
    BY DEF Carries
  <2> QED
    BY <1>4, <2>1, PublishKeeps DEF NoBuckets
<1>5. ASSUME NEW i \in Positions, TakeShared(i)
      PROVE  JsonInv'
  <2> DEFINE out == shared[call[i]]
  <2>1. /\ jsTask[i] = "wait" /\ call[i] \in Positions /\ SameKey(call[i], i)
        /\ SameKey(i, call[i]) /\ out.done /\ Carries(call[i], out)
        /\ out.err \in Errors \cup {NoErr}
    BY <1>5 DEF TakeShared, Attached, JsonInv, SameKey, PoolOK
  <2>2. /\ UNCHANGED <<tried, call, flight, shared>>
        /\ \A j \in Positions :
            /\ jsTask'[j] = IF j = i THEN "done" ELSE jsTask[j]
            /\ j # i => events'[j] = events[j]
        /\ poolErr' = NoErr => poolErr = NoErr /\ out.err = NoErr
    BY <1>5, <2>1, FirstErrorKeeps DEF TakeShared, PoolOK
  <2>3. ASSUME out.err = NoErr
        PROVE  Served(i)'
    <3>1. events'[i] = Overlay(i, out.data)
      BY <1>5, <2>3 DEF TakeShared, PoolOK
    <3>2. /\ FaultOf(indexes[i]) = NoErr
          /\ EventOf(indexes[i]) = Overlay(i, out.data)
      BY <2>1, <2>3, SharedPayload DEF Carries
    <3> QED
      BY <3>1, <3>2 DEF Served
  <2> QED
    BY <2>1, <2>2, <2>3 DEF JsonInv, SameKey, Carries, Served, Holds
<1> QED
  BY <1>1, <1>2, <1>3, <1>4, <1>5 DEF PoolStep, JsonTask

(* The pool writes the slots of JSON references only, and keeps its error. *)
LEMMA PoolStepSlots ==
    ASSUME InputOK, PoolOK, Attached, JsonInv, NEW c \in BOOLEAN, PoolStep(c)
    PROVE  /\ \A i \in Positions : IsParquetRef(indexes[i]) =>
                                        events'[i] = events[i]
           /\ poolErr' = NoErr => poolErr = NoErr
<1>1. CASE UNCHANGED <<events, poolErr>>
  BY <1>1
<1>2. ASSUME NEW i \in Positions, TakeShared(i)
      PROVE  /\ \A j \in Positions : IsParquetRef(indexes[j]) =>
                                        events'[j] = events[j]
             /\ poolErr' = NoErr => poolErr = NoErr
  <2>1. ~IsParquetRef(indexes[i]) /\ call[i] \in Positions
    BY <1>2 DEF TakeShared, JsonInv, Attached
  <2>2. shared[call[i]].err \in Errors \cup {NoErr}
    BY <2>1 DEF PoolOK
  <2> QED
    BY <1>2, <2>1, <2>2, FirstErrorKeeps DEF TakeShared, PoolOK
<1> QED
  BY <1>1, <1>2
     DEF PoolStep, JsonTask, SubmitJson, Join, TryBucket, NoBuckets

(* A task of another kind leaves the invariant alone when it writes other  *)
(* slots only and never takes an error back.                               *)
LEMMA JsonInvFrame ==
    ASSUME InputOK, JsonInv,
           UNCHANGED <<input, poolVars>>,
           \A k \in DOMAIN jsonItems' : ~IsParquetRef(indexes[jsonItems'[k]]),
           poolErr' = NoErr => poolErr = NoErr,
           \A i \in Positions : ~IsParquetRef(indexes[i]) =>
                                    events'[i] = events[i]
    PROVE  JsonInv'
BY AskedUnchanged, PositionsAreNat
   DEF poolVars, JsonInv, SameKey, Carries, Served, Holds

-----------------------------------------------------------------------------
(* The errors the pool keeps. *)

(* What may be reported to the caller (Causes of BatchFetch). *)
Causes ==
    ({FaultOf(indexes[i]) : i \in Positions} \ {NoErr})
        \cup (IF ctxDone THEN {"Canceled"} ELSE {})
        \cup (IF store.flaky THEN {"Other"} ELSE {})

(* A call that a cancellation of the group itself has ended may hold       *)
(* Canceled, but then an error is kept already, and it stays.              *)
ErrInv ==
    /\ poolErr \in Causes \cup {NoErr}
    /\ \A i \in Positions : shared[i].done =>
            shared[i].err \in Causes \cup {NoErr} \/ poolErr # NoErr

LEMMA CausesGrow ==
    ASSUME UNCHANGED input, ctxDone => ctxDone'
    PROVE  Causes \subseteq Causes'
BY AskedUnchanged DEF Causes

LEMMA BlamesCause ==
    ASSUME NEW i \in Positions, NEW c \in BOOLEAN, c => ctxDone \/ poolErr # NoErr,
           NEW e \in Errors \cup {NoErr}, Blames(i, e, c)
    PROVE  e \in Causes \cup {NoErr} \/ poolErr # NoErr
BY DEF Blames, Causes

LEMMA ErrInvStep ==
    ASSUME InputOK, PoolOK, Attached, JsonInv, ErrInv, NEW c \in BOOLEAN,
           c => ctxDone \/ poolErr # NoErr,
           PoolStep(c), UNCHANGED <<input, jsonItems, ctxDone>>
    PROVE  ErrInv'
<1>1. Causes' = Causes /\ Positions' = Positions
  BY AskedUnchanged DEF Causes
<1>2. ASSUME UNCHANGED <<poolErr, shared>>
      PROVE  ErrInv'
  BY <1>1, <1>2 DEF ErrInv
<1>3. ASSUME NEW i \in Positions,
             NEW out \in [err : Errors \cup {NoErr}, data : Record \cup {NoData}],
             Publish(i, out), Blames(i, out.err, c), UNCHANGED poolErr
      PROVE  ErrInv'
  <2>1. out.err \in Causes \cup {NoErr} \/ poolErr # NoErr
    BY <1>3, BlamesCause
  <2>2. \A j \in Positions :
          shared'[j] = IF j = i THEN Published(out) ELSE shared[j]
    BY <1>3 DEF Publish, PoolOK
  <2> QED
    BY <1>1, <1>3, <2>1, <2>2 DEF ErrInv, Published
<1>4. ASSUME NEW k \in DOMAIN jsonItems, NEW free \in BOOLEAN,
             SubmitJson(k, free)
      PROVE  ErrInv'
  BY <1>2, <1>4 DEF SubmitJson
<1>5. ASSUME NEW i \in Positions, Join(i)
      PROVE  ErrInv'
  BY <1>2, <1>5 DEF Join
<1>6. ASSUME NEW i \in Positions, TryBucket(i, c)
      PROVE  ErrInv'
  <2>1. /\ jsTask[i] = "fetch" /\ tried[i] < Len(buckets) /\ tried[i] \in Nat
        /\ buckets[tried[i] + 1] \in Buckets /\ indexes[i] \in Ref
        /\ UNCHANGED poolErr
    BY <1>6, PositionsAreNat DEF TryBucket, PoolOK, InputOK
  <2>2. PICK out \in ReadJson(store, buckets[tried[i] + 1], indexes[i], c) :
          IF FallsBack(out.err) /\ tried[i] + 1 < Len(buckets)
          THEN /\ tried' = [tried EXCEPT ![i] = @ + 1]
               /\ UNCHANGED <<shared, flight, jsTask>>
          ELSE Publish(i, out) /\ UNCHANGED tried
    BY <1>6 DEF TryBucket
  <2>3. out \in [err : Errors \cup {NoErr}, data : Record \cup {NoData}]
    BY <2>1, <2>2, ReadJsonOutcome DEF InputOK
  <2>4. CASE FallsBack(out.err) /\ tried[i] + 1 < Len(buckets)
    BY <1>2, <2>1, <2>2, <2>4
  <2>5. CASE ~(FallsBack(out.err) /\ tried[i] + 1 < Len(buckets))
    BY <1>3, <2>1, <2>2, <2>3, <2>5, LoopOutcome
  <2> QED
    BY <2>4, <2>5
<1>7. ASSUME NEW i \in Positions, NoBuckets(i)
      PROVE  ErrInv'
  <2> DEFINE out == [err |-> "Other", data |-> NoData]
  <2>1. out \in [err : Errors \cup {NoErr}, data : Record \cup {NoData}]
    OBVIOUS
  <2>2. Blames(i, out.err, c)
    BY <1>7 DEF NoBuckets, Blames, FaultOf, JsonInv
  <2> QED
    BY <1>3, <1>7, <2>1, <2>2 DEF NoBuckets
<1>8. ASSUME NEW i \in Positions, TakeShared(i)
      PROVE  ErrInv'
  <2>1. /\ UNCHANGED shared
        /\ call[i] \in Positions /\ shared[call[i]].done
        /\ shared[call[i]].err \in Errors \cup {NoErr}
    BY <1>8 DEF TakeShared, Attached, PoolOK
  <2>2. \/ UNCHANGED poolErr
        \/ poolErr' = FirstError(poolErr, shared[call[i]].err, NoErr)
    BY <1>8 DEF TakeShared
  <2>3. \/ poolErr' = poolErr
        \/ poolErr = NoErr /\ poolErr' = shared[call[i]].err
    BY <2>1, <2>2, FirstErrorKeeps DEF PoolOK
  <2> QED
    BY <1>1, <2>1, <2>3 DEF ErrInv
<1> QED
  BY <1>4, <1>5, <1>6, <1>7, <1>8 DEF PoolStep, JsonTask

(* What else may change: the caller gives up, or a task of another kind    *)
(* reports a cause.                                                        *)
LEMMA ErrInvFrame ==
    ASSUME ErrInv, UNCHANGED <<input, shared>>, ctxDone => ctxDone',
           \/ poolErr' = poolErr
           \/ poolErr = NoErr /\ poolErr' \in Causes
    PROVE  ErrInv'
BY CausesGrow, AskedUnchanged DEF ErrInv

-----------------------------------------------------------------------------
(* Sharing of downloads. *)

(* A task that downloads leads the call in flight for its key. *)
FlightInv ==
    \A i \in Positions : jsTask[i] = "fetch" => flight[indexes[i].name] = i

LEMMA OneLeaderPerKey == FlightInv => NoDuplicateDownload
BY DEF FlightInv, NoDuplicateDownload

LEMMA FlightInvStep ==
    ASSUME InputOK, PoolOK, FlightInv, NEW c \in BOOLEAN, PoolStep(c),
           UNCHANGED <<input, jsonItems>>
    PROVE  FlightInv'
<1> USE AskedUnchanged, PositionsAreNat
<1>1. ASSUME NEW k \in DOMAIN jsonItems, NEW free \in BOOLEAN,
             SubmitJson(k, free)
      PROVE  FlightInv'
  BY <1>1 DEF SubmitJson, FlightInv, PoolOK
<1>2. ASSUME NEW i \in Positions, Join(i)
      PROVE  FlightInv'
  <2> DEFINE lead == CallOf(flight, indexes[i].name, i)
  <2>1. /\ indexes[i].name \in Names
        /\ flight' = [flight EXCEPT ![indexes[i].name] = lead]
        /\ jsTask' = [jsTask EXCEPT ![i] = IF lead = i THEN "fetch" ELSE "wait"]
    BY <1>2 DEF Join, Ref
  <2>2. ASSUME NEW j \in Positions, jsTask'[j] = "fetch"
        PROVE  flight'[indexes[j].name] = j
    <3>1. CASE j = i
      BY <2>1, <2>2, <3>1 DEF PoolOK
    <3>2. CASE j # i
      <4>1. flight[indexes[j].name] = j
        BY <2>1, <2>2, <3>2 DEF PoolOK, FlightInv
      <4>2. indexes[j].name = indexes[i].name => lead = j
        BY <4>1 DEF CallOf
      <4> QED
        BY <2>1, <4>1, <4>2 DEF PoolOK
    <3> QED
      BY <3>1, <3>2
  <2> QED
    BY <2>2 DEF FlightInv
<1>3. ASSUME NEW i \in Positions, NEW out, Publish(i, out), jsTask[i] = "fetch"
      PROVE  FlightInv'
  BY <1>3 DEF Publish, FlightInv, PoolOK
<1>4. ASSUME NEW i \in Positions, TryBucket(i, c)
      PROVE  FlightInv'
  <2>1. jsTask[i] = "fetch"
    BY <1>4 DEF TryBucket
  <2>2. \/ \E out : Publish(i, out)
        \/ UNCHANGED <<flight, jsTask>>
    BY <1>4 DEF TryBucket
  <2>3. CASE UNCHANGED <<flight, jsTask>>
    BY <2>3 DEF FlightInv
  <2> QED
    BY <1>3, <2>1, <2>2, <2>3
<1>5. ASSUME NEW i \in Positions, NoBuckets(i)
      PROVE  FlightInv'
  BY <1>3, <1>5 DEF NoBuckets
<1>6. ASSUME NEW i \in Positions, TakeShared(i)
      PROVE  FlightInv'
  BY <1>6 DEF TakeShared, FlightInv, PoolOK
<1> QED
  BY <1>1, <1>2, <1>4, <1>5, <1>6 DEF PoolStep, JsonTask

LEMMA FlightInvFrame ==
    ASSUME FlightInv, UNCHANGED <<input, jsTask, flight>>
    PROVE  FlightInv'
BY AskedUnchanged DEF FlightInv

-----------------------------------------------------------------------------
(* The abstract call. *)

(* BatchFetch speaks of the same events, errors and results. *)
LEMMA SameVocabulary ==
    /\ Batch!Event = Event /\ Batch!Errors = Errors /\ Batch!NoErr = NoErr
    /\ Batch!Pending = Pending
    /\ \A e : Batch!Failed(e) = Failed(e)
    /\ \A evs : Batch!Delivered(evs) = Delivered(evs)
BY DEF Batch!Event, Event, Batch!Record, Record, Batch!Errors, Batch!NoErr,
       Batch!Pending, Pending, Batch!Failed, Failed, Batch!Delivered, Delivered

LEMMA AskedIsTyped ==
    ASSUME InputOK, NEW i \in Positions
    PROVE  Asked(i) \in [event : Event \cup {NoEvent},
                         fault : Errors \cup {NoErr}]
<1> DEFINE ref == indexes[i]
<1>1. ref \in Ref /\ store \in Store /\ buckets \in Seq(Buckets)
  BY PositionsAreNat DEF InputOK
<1>2. FaultOf(ref) \in Errors \cup {NoErr}
  BY DEF FaultOf, Fault
<1>3. FaultOf(ref) = NoErr => EventOf(ref) \in Event
  <2>1. CASE IsParquetRef(ref)
    BY <1>1, <2>1 DEF FaultOf, Fault, EventOf, RowEvent, Event, Store, Record
  <2>2. CASE ~IsParquetRef(ref) /\ ref.blob
    BY <1>1, <2>2 DEF EventOf, HeaderOnly, Event, Ref
  <2>3. CASE ~IsParquetRef(ref) /\ ~ref.blob
    BY <1>1, <2>3 DEF FaultOf, Fault, EventOf, JsonEvent, Event, Store,
                      Record, Ref
  <2> QED
    BY <2>1, <2>2, <2>3
<1> QED
  BY <1>2, <1>3 DEF Asked

(* What is asked for is a request: a fault, or else an event of its own. *)
LEMMA AskedIsRequest ==
    ASSUME InputOK
    PROVE  [i \in Positions |-> Asked(i)] \in
                Seq([event : Event \cup {NoEvent}, fault : Errors \cup {NoErr}])
<1> DEFINE S == [event : Event \cup {NoEvent}, fault : Errors \cup {NoErr}]
<1>1. Positions = 1..Len(indexes) /\ Len(indexes) \in Nat
  BY PositionsAreNat DEF InputOK
<1>2. \A i \in Positions : Asked(i) \in S
  BY AskedIsTyped
<1> HIDE DEF S
<1>3. [i \in Positions |-> Asked(i)] \in [1..Len(indexes) -> S]
  BY <1>1, <1>2
<1>4. [i \in Positions |-> Asked(i)] \in UNION {[1..n -> S] : n \in Nat}
  BY <1>1, <1>3
<1>5. [i \in Positions |-> Asked(i)] \in Seq(S)
  BY <1>4, SeqDef
<1> QED
  BY <1>5 DEF S
=============================================================================
