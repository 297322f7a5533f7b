-------------------------- MODULE ObjectListProofs --------------------------
(***************************************************************************)
(* What ListObjectsFromKeys returns, for every batch of keys, every store, *)
(* every size and Content-Length of an object, and every limit.            *)
(***************************************************************************)
EXTENDS ObjectList, SequenceTheorems, FiniteSetTheorems, WellFoundedInduction, TLAPS

CallOK(in) ==
    /\ in.keys \in Seq(Ref) /\ in.store \in Store /\ in.bucket \in Buckets
    /\ in.body \in [Names -> Nat] /\ in.length \in [Names -> Int \cup {Missing}]

InputInv ==
    CallOK([keys |-> keys, store |-> store, bucket |-> bucketName, body |-> body,
            length |-> length])

TypeInv ==
    /\ InputInv
    /\ ctxDone \in BOOLEAN
    /\ task \in [Positions -> Stages]
    /\ buffer \in [Positions -> Nat] /\ read \in [Positions -> Nat]
    /\ data \in [Positions -> Record \cup {NoData}]
    /\ poolErr \in Errors \cup {NoErr}

(* What a download has seen of its object when it is reading it.           *)
ReadInv(i) ==
    LET name == keys[i].name
    IN  /\ task[i] \in {"idle", "get"} => buffer[i] = 0 /\ read[i] = 0
        /\ task[i] \in {"full", "all"} =>
             /\ IsParquetRef(keys[i]) => Resolvable(store, keys[i])
             /\ <<PlaceOf(keys[i]), name>> \in store.present
             /\ read[i] <= body[name] /\ read[i] <= Wanted(i)
        /\ task[i] = "full" =>
             LengthGiven(name) /\ buffer[i] = length[name] /\ ~Exceeds(length[name])
        /\ task[i] = "all" => ~LengthGiven(name) /\ buffer[i] = 0

(* Every cause an error may have. *)
Causes ==
    ({FaultOf(keys[i]) : i \in Positions} \ {NoErr})
        \cup (IF ctxDone THEN {"Canceled"} ELSE {})
        \cup (IF store.flaky THEN {"Other"} ELSE {})

CauseInv == poolErr # NoErr => poolErr \in Causes

(* A task that is done without an error in the group has its payload.      *)
ServedInv(i) ==
    task[i] = "done" /\ poolErr = NoErr =>
        FaultOf(keys[i]) = NoErr /\ data[i] = Payload(keys[i])

Inv == TypeInv /\ CauseInv /\ \A i \in Positions : ReadInv(i) /\ ServedInv(i)

-----------------------------------------------------------------------------
LEMMA KeyType ==
    ASSUME InputInv, NEW i \in Positions
    PROVE  /\ keys[i] \in Ref /\ keys[i].name \in Names
           /\ body[keys[i].name] \in Nat
           /\ LengthGiven(keys[i].name) =>
                length[keys[i].name] \in Nat /\ length[keys[i].name] > 0
<1>1. keys[i] \in Ref
  BY ElementOfSeq DEF InputInv, CallOK, Positions
<1>2. keys[i].name \in Names
  BY <1>1 DEF Ref
<1> QED
  BY <1>1, <1>2 DEF InputInv, CallOK, LengthGiven

LEMMA PlaceType ==
    ASSUME InputInv, NEW i \in Positions,
           IsParquetRef(keys[i]) => Resolvable(store, keys[i])
    PROVE  Payload(keys[i]) \in Record
<1>1. PlaceOf(keys[i]) \in Buckets
  BY KeyType DEF InputInv, CallOK, PlaceOf, Resolvable, BucketOf, Store, Ref
<1>2. RowOf(keys[i]) \in Rows
  BY KeyType, StoreAssumption DEF RowOf, Ref
<1> QED
  BY <1>1, <1>2, KeyType DEF Payload, Record

LEMMA FaultType == \A key : FaultOf(key) \in Errors \cup {NoErr}
BY DEF FaultOf, Errors, NoErr

LEMMA InvInit == Init => Inv
<1> SUFFICES ASSUME Init PROVE Inv
  OBVIOUS
<1>1. InputInv
  BY ObjectAssumption DEF Init, InputInv, CallOK
<1>2. TypeInv
  BY <1>1 DEF Init, TypeInv, Stages
<1>3. CauseInv /\ \A i \in Positions : ReadInv(i) /\ ServedInv(i)
  BY DEF Init, CauseInv, ReadInv, ServedInv
<1> QED
  BY <1>2, <1>3 DEF Inv

-----------------------------------------------------------------------------
(* The call's arguments and the store do not change under it.              *)
LEMMA InputUnchanged ==
    ASSUME UNCHANGED input
    PROVE  /\ Positions' = Positions /\ (InputInv <=> InputInv')
           /\ keys' = keys /\ store' = store /\ body' = body /\ length' = length
           /\ \A key : /\ PlaceOf(key)' = PlaceOf(key) /\ Payload(key)' = Payload(key)
                       /\ FaultOf(key)' = FaultOf(key)
           /\ \A name : LengthGiven(name)' = LengthGiven(name)
BY DEF input, Positions, InputInv, PlaceOf, Payload, FaultOf, LengthGiven, RowOf, SizeOf

LEMMA OtherTasks ==
    ASSUME UNCHANGED input, NEW j \in Positions, ReadInv(j), ServedInv(j),
           task'[j] = task[j], buffer'[j] = buffer[j], read'[j] = read[j],
           data'[j] = data[j], poolErr # NoErr => poolErr' # NoErr
    PROVE  ReadInv(j)' /\ ServedInv(j)'
BY InputUnchanged DEF ReadInv, ServedInv, Wanted, Exceeds

LEMMA CausesGrow ==
    ASSUME UNCHANGED input, ctxDone => ctxDone'
    PROVE  Causes \subseteq Causes'
<1>1. {FaultOf(keys[i]) : i \in Positions}' = {FaultOf(keys[i]) : i \in Positions}
  BY InputUnchanged
<1>2. store'.flaky = store.flaky
  BY InputUnchanged
<1> QED
  BY <1>1, <1>2 DEF Causes

(* What a task that fails does. *)
LEMMA FailureKeeps ==
    ASSUME Inv, NEW i \in Positions, NEW e \in Errors, TaskFails(i, e),
           UNCHANGED <<input, ctxDone, download>>,
           e \in Causes \/ poolErr # NoErr
    PROVE  Inv'
<1>1. TypeInv'
  BY InputUnchanged DEF Inv, TypeInv, TaskFails, FirstError, Stages, download
<1>2. poolErr' # NoErr
  BY DEF TaskFails, FirstError, Errors, NoErr
<1>3. CauseInv'
  BY CausesGrow DEF Inv, CauseInv, TaskFails, FirstError
<1>4. ReadInv(i)' /\ ServedInv(i)'
  BY <1>2 DEF Inv, TypeInv, TaskFails, ReadInv, ServedInv
<1>5. ASSUME NEW j \in Positions, j # i
      PROVE  ReadInv(j)' /\ ServedInv(j)'
  <2>1. task'[j] = task[j] /\ UNCHANGED <<buffer, read, data>>
    BY <1>5 DEF Inv, TypeInv, TaskFails, download
  <2> QED
    BY <1>2, <1>5, <2>1, OtherTasks DEF Inv
<1> QED
  BY <1>1, <1>3, <1>4, <1>5, InputUnchanged DEF Inv

LEMMA FaultIsCause ==
    ASSUME NEW i \in Positions, FaultOf(keys[i]) # NoErr
    PROVE  FaultOf(keys[i]) \in Causes
BY DEF Causes

LEMMA RefusedKeeps ==
    ASSUME Inv, NEW i \in Positions, Refused(i)
    PROVE  Inv'
<1>1. UNCHANGED <<input, ctxDone, download>>
  BY DEF Refused
<1>2. CASE IsParquetRef(keys[i]) /\ ~Resolvable(store, keys[i])
  <2>1. TaskFails(i, "Other") /\ FaultOf(keys[i]) = "Other"
    BY <1>2 DEF Refused, FaultOf
  <2> QED
    BY <1>1, <2>1, FaultIsCause, FailureKeeps DEF Errors, NoErr
<1>3. CASE ~(IsParquetRef(keys[i]) /\ ~Resolvable(store, keys[i]))
  <2>1. PICK e \in GetObject(store, PlaceOf(keys[i]), keys[i].name, Cancelled) \ {NoErr} :
            TaskFails(i, e)
    BY <1>3 DEF Refused
  <2>2. e \in Errors
    BY DEF GetObject, Errors, NoErr
  <2>3. e \in Causes \/ poolErr # NoErr
    <3>1. CASE e = "NotFound" /\ <<PlaceOf(keys[i]), keys[i].name>> \notin store.present
      <4>1. FaultOf(keys[i]) = "NotFound"
        BY <1>3, <3>1 DEF FaultOf
      <4> QED
        BY <3>1, <4>1, FaultIsCause DEF NoErr
    <3>2. CASE e = "Canceled" /\ Cancelled
      BY <3>2 DEF Causes, Cancelled
    <3>3. CASE e = "Other" /\ store.flaky
      BY <3>3 DEF Causes
    <3> QED
      BY <3>1, <3>2, <3>3 DEF GetObject, NoErr
  <2> QED
    BY <1>1, <2>1, <2>2, <2>3, FailureKeeps
<1> QED
  BY <1>2, <1>3

LEMMA BreaksKeeps ==
    ASSUME Inv, NEW i \in Positions, Breaks(i)
    PROVE  Inv'
<1>1. PICK e \in (IF Cancelled THEN {"Canceled"} ELSE {})
                    \cup (IF store.flaky THEN {"Other"} ELSE {}) : TaskFails(i, e)
  BY DEF Breaks
<1>2. e \in Errors /\ (e \in Causes \/ poolErr # NoErr)
  BY DEF Cancelled, Causes, Errors
<1> QED
  BY <1>1, <1>2, FailureKeeps DEF Breaks

(* A step that leaves every task but one alone, and the error. *)
LEMMA OneTask ==
    ASSUME Inv, NEW i \in Positions, UNCHANGED <<input, ctxDone, poolErr>>, TypeInv',
           ReadInv(i)', ServedInv(i)',
           \A j \in Positions \ {i} :
               /\ task'[j] = task[j] /\ buffer'[j] = buffer[j]
               /\ read'[j] = read[j] /\ data'[j] = data[j]
    PROVE  Inv'
<1>1. CauseInv'
  BY CausesGrow DEF Inv, CauseInv
<1>2. ASSUME NEW j \in Positions, j # i
      PROVE  ReadInv(j)' /\ ServedInv(j)'
  BY <1>2, OtherTasks DEF Inv
<1> QED
  BY <1>1, <1>2, InputUnchanged DEF Inv

LEMMA SubmitKeeps ==
    ASSUME Inv, NEW i \in Positions, Submit(i)
    PROVE  Inv'
<1>1. /\ UNCHANGED <<input, ctxDone, poolErr>> /\ UNCHANGED <<buffer, read, data>>
      /\ task[i] = "idle" /\ task' = [task EXCEPT ![i] = "get"]
  BY DEF Submit, download
<1>2. TypeInv'
  BY <1>1, InputUnchanged DEF Inv, TypeInv, Stages
<1>3. ReadInv(i)' /\ ServedInv(i)'
  BY <1>1 DEF Inv, TypeInv, ReadInv, ServedInv
<1> QED
  BY <1>1, <1>2, <1>3, OneTask DEF Inv, TypeInv

LEMMA RespondsKeeps ==
    ASSUME Inv, NEW i \in Positions, Responds(i)
    PROVE  Inv'
<1> DEFINE name == keys[i].name
<1>1. /\ task[i] = "get" /\ UNCHANGED <<input, ctxDone, read, result>>
      /\ IsParquetRef(keys[i]) => Resolvable(store, keys[i])
      /\ <<PlaceOf(keys[i]), name>> \in store.present
  BY DEF Responds, GetObject, NoErr
<1>2. CASE LengthGiven(name) /\ Exceeds(length[name])
  <2>1. TaskFails(i, "Other") /\ UNCHANGED download
    BY <1>1, <1>2 DEF Responds, download
  <2>2. FaultOf(keys[i]) = "Other"
    BY <1>1, <1>2 DEF FaultOf, Exceeds, SizeOf
  <2> QED
    BY <1>1, <2>1, <2>2, FaultIsCause, FailureKeeps DEF Errors, NoErr
<1>3. CASE ~(LengthGiven(name) /\ Exceeds(length[name]))
  <2>1. /\ task' = [task EXCEPT ![i] = IF LengthGiven(name) THEN "full" ELSE "all"]
        /\ buffer' = [buffer EXCEPT ![i] = IF LengthGiven(name) THEN length[name] ELSE 0]
        /\ UNCHANGED <<poolErr, data>>
    BY <1>3 DEF Responds
  <2>2. TypeInv'
    BY <1>1, <2>1, KeyType, InputUnchanged DEF Inv, TypeInv, Stages
  <2>3. read[i] = 0 /\ read'[i] = 0
    BY <1>1 DEF Inv, ReadInv
  <2>4. ServedInv(i)'
    BY <1>1, <2>1 DEF Inv, TypeInv, ServedInv
  <2>5. ReadInv(i)'
    <3>1. /\ keys' = keys /\ store' = store /\ body' = body /\ length' = length
          /\ PlaceOf(keys[i])' = PlaceOf(keys[i]) /\ LengthGiven(name)' = LengthGiven(name)
      BY <1>1, InputUnchanged
    <3>2. body[name] \in Nat /\ (LengthGiven(name) => length[name] \in Nat)
      BY KeyType DEF Inv, TypeInv
    <3>3. /\ task'[i] = IF LengthGiven(name) THEN "full" ELSE "all"
          /\ buffer'[i] = IF LengthGiven(name) THEN length[name] ELSE 0
      BY <2>1 DEF Inv, TypeInv
    <3>4. Wanted(i)' \in Nat
      BY <3>2, <3>3, ObjectAssumption DEF Wanted
    <3> QED
      BY <1>1, <1>3, <2>3, <3>1, <3>2, <3>3, <3>4 DEF ReadInv, Exceeds
  <2> QED
    BY <1>1, <2>1, <2>2, <2>4, <2>5, OneTask DEF Inv, TypeInv
<1> QED
  BY <1>2, <1>3

LEMMA ChunkKeeps ==
    ASSUME Inv, NEW i \in Positions, NEW n \in 1..MaxChunk, Chunk(i, n)
    PROVE  Inv'
<1>1. /\ task[i] \in {"full", "all"} /\ UNCHANGED <<input, ctxDone, poolErr>>
      /\ read[i] + n <= body[keys[i].name] /\ read[i] + n <= Wanted(i)
      /\ read' = [read EXCEPT ![i] = read[i] + n] /\ UNCHANGED <<task, buffer, data>>
  BY DEF Chunk
<1>2. TypeInv'
  <2>1. read[i] + n \in Nat
    BY ObjectAssumption DEF Inv, TypeInv
  <2> QED
    BY <1>1, <2>1, InputUnchanged DEF Inv, TypeInv
<1>3. ServedInv(i)' /\ ReadInv(i)'
  <2>1. read'[i] = read[i] + n /\ Wanted(i)' = Wanted(i)
    BY <1>1 DEF Inv, TypeInv, Wanted
  <2> QED
    BY <1>1, <2>1, InputUnchanged DEF Inv, ReadInv, ServedInv, Exceeds
<1> QED
  BY <1>1, <1>2, <1>3, OneTask DEF Inv, TypeInv

(* Whether what has been read is the payload depends on its size alone.    *)
LEMMA EndsKeeps ==
    ASSUME Inv, NEW i \in Positions, Ends(i)
    PROVE  Inv'
<1> DEFINE name == keys[i].name
           Bad == \/ task[i] = "full" /\ read[i] < buffer[i]
                  \/ task[i] = "all" /\ Exceeds(read[i])
                  \/ IsParquetRef(keys[i]) /\ Payload(keys[i]) \notin store.readable
<1>1. /\ task[i] \in {"full", "all"} /\ UNCHANGED <<input, ctxDone, download, result>>
      /\ read[i] \in {Wanted(i), body[name]}
      /\ IF Bad THEN TaskFails(i, "Other") ELSE TaskDelivers(i)
  BY DEF Ends
<1>2. /\ IsParquetRef(keys[i]) => Resolvable(store, keys[i])
      /\ <<PlaceOf(keys[i]), name>> \in store.present
      /\ read[i] <= body[name] /\ read[i] <= Wanted(i)
      /\ task[i] = "full" => LengthGiven(name) /\ buffer[i] = length[name]
                               /\ ~Exceeds(length[name])
      /\ task[i] = "all" => ~LengthGiven(name)
  BY <1>1 DEF Inv, ReadInv
<1>3. /\ read[i] \in Nat /\ body[name] \in Nat /\ maxObjectSize \in Nat
      /\ LengthGiven(name) => length[name] \in Nat
  BY KeyType, ObjectAssumption DEF Inv, TypeInv
<1>4. CASE Bad
  <2>1. FaultOf(keys[i]) = "Other"
    <3>1. SizeOf(name) > maxObjectSize \/ body[name] < SizeOf(name)
             \/ (IsParquetRef(keys[i]) /\ Payload(keys[i]) \notin store.readable)
      BY <1>1, <1>2, <1>3, <1>4 DEF Wanted, Exceeds, SizeOf
    <3> QED
      BY <1>2, <3>1 DEF FaultOf, NoErr
  <2> QED
    BY <1>1, <1>4, <2>1, FaultIsCause, FailureKeeps DEF Errors, NoErr
<1>5. CASE ~Bad
  <2>1. read[i] = SizeOf(name) /\ SizeOf(name) <= maxObjectSize /\ body[name] >= SizeOf(name)
    BY <1>1, <1>2, <1>3, <1>5 DEF Wanted, Exceeds, SizeOf
  <2>2. FaultOf(keys[i]) = NoErr
    BY <1>2, <1>3, <1>5, <2>1 DEF FaultOf, NoErr
  <2>3. /\ task' = [task EXCEPT ![i] = "done"]
        /\ data' = [data EXCEPT ![i] = Payload(keys[i])]
        /\ UNCHANGED <<poolErr, buffer, read>>
    BY <1>1, <1>5, <2>1 DEF TaskDelivers, Content, download
  <2>4. TypeInv'
    BY <1>1, <1>2, <2>3, PlaceType, InputUnchanged DEF Inv, TypeInv, Stages
  <2>5. ReadInv(i)' /\ ServedInv(i)'
    BY <1>1, <2>2, <2>3, InputUnchanged DEF Inv, TypeInv, ReadInv, ServedInv
  <2> QED
    BY <1>1, <2>3, <2>4, <2>5, OneTask DEF Inv, TypeInv
<1> QED
  BY <1>4, <1>5

LEMMA FrameKeeps ==
    ASSUME Inv, UNCHANGED <<input, task, download, poolErr, data>>,
           ctxDone' \in BOOLEAN, ctxDone => ctxDone'
    PROVE  Inv'
<1>1. TypeInv'
  BY InputUnchanged DEF Inv, TypeInv, download
<1>2. CauseInv'
  BY CausesGrow DEF Inv, CauseInv
<1>3. \A j \in Positions : ReadInv(j)' /\ ServedInv(j)'
  BY OtherTasks DEF Inv, download
<1> QED
  BY <1>1, <1>2, <1>3, InputUnchanged DEF Inv

LEMMA Invariance == Spec => []Inv
<1>1. Inv /\ [Next]_vars => Inv'
  <2> SUFFICES ASSUME Inv, [Next]_vars PROVE Inv'
    OBVIOUS
  <2>1. ASSUME NEW i \in Positions, Submit(i) \/ RunTask(i)
        PROVE  Inv'
    BY <2>1, SubmitKeeps, RefusedKeeps, RespondsKeeps, ChunkKeeps, EndsKeeps, BreaksKeeps
       DEF RunTask
  <2>2. CASE Return
    BY <2>2, FrameKeeps DEF Return, Inv, TypeInv
  <2>3. CASE CallerCancels
    BY <2>3, FrameKeeps DEF CallerCancels
  <2>4. CASE UNCHANGED vars
    BY <2>4, FrameKeeps DEF vars, Inv, TypeInv
  <2> QED
    BY <2>1, <2>2, <2>3, <2>4 DEF Next, Step
<1> QED
  BY <1>1, InvInit, PTL DEF Spec

-----------------------------------------------------------------------------
(* The promise. *)

(* BatchFetch says the same of a result as this module. *)
LEMMA SameVocabulary ==
    /\ Batch!Event = Event /\ Batch!Errors = Errors /\ Batch!NoErr = NoErr
    /\ Batch!Pending = Pending
    /\ \A e : Batch!Failed(e) = Failed(e)
    /\ \A evs : Batch!Delivered(evs) = Delivered(evs)
<1>1. Batch!Record = Record
  BY DEF Batch!Record, Record
<1>2. Batch!Event = Event
  BY <1>1 DEF Batch!Event, Event
<1>3. Batch!Errors = Errors /\ Batch!NoErr = NoErr
  BY DEF Batch!Errors, Errors, Batch!NoErr, NoErr
<1> QED
  BY <1>2, <1>3 DEF Batch!Pending, Pending, Batch!Failed, Failed, Batch!Delivered, Delivered

(* The result as the promise sees it, with every payload in an event.      *)
WrappedResult ==
    [result EXCEPT !.events = [i \in DOMAIN result.events |-> Wrapped(result.events[i])]]

LEMMA WrapEmpty ==
    /\ result = Pending => WrappedResult = Pending
    /\ \A e : result = Failed(e) => WrappedResult = Failed(e)
<1>1. DOMAIN <<>> = {} /\ \A f : DOMAIN f = {} => [i \in DOMAIN f |-> Wrapped(f[i])] = <<>>
  BY EmptySeq
<1>2. CASE result = Pending
  BY <1>1, <1>2 DEF WrappedResult, Pending, Failed
<1>3. ASSUME NEW e, result = Failed(e)
      PROVE  WrappedResult = Failed(e)
  BY <1>1, <1>3 DEF WrappedResult, Failed
<1> QED
  BY <1>2, <1>3

LEMMA AskedIsRequest ==
    ASSUME InputInv
    PROVE  [i \in Positions |-> Asked(keys[i])] \in
                Seq([event : Event \cup {NoEvent}, fault : Errors \cup {NoErr}])
<1> DEFINE S == [event : Event \cup {NoEvent}, fault : Errors \cup {NoErr}]
<1>1. Positions = 1..Len(keys) /\ Len(keys) \in Nat
  BY LenProperties DEF InputInv, CallOK, Positions
<1>2. \A i \in Positions : Asked(keys[i]) \in S
  <2> SUFFICES ASSUME NEW i \in Positions PROVE Asked(keys[i]) \in S
    OBVIOUS
  <2>1. FaultOf(keys[i]) = NoErr => Wrapped(Payload(keys[i])) \in Event
    <3>1. FaultOf(keys[i]) = NoErr => (IsParquetRef(keys[i]) => Resolvable(store, keys[i]))
      BY DEF FaultOf, NoErr
    <3> QED
      BY <3>1, PlaceType DEF Wrapped, Event
  <2> QED
    BY <2>1, FaultType DEF Asked
<1> HIDE DEF S
<1>3. [i \in Positions |-> Asked(keys[i])] \in UNION {[1..n -> S] : n \in Nat}
  BY <1>1, <1>2
<1>4. [i \in Positions |-> Asked(keys[i])] \in Seq(S)
  BY <1>3, SeqDef
<1> QED
  BY <1>4 DEF S

LEMMA InitRefines == Init => Batch!Init
<1> SUFFICES ASSUME Init PROVE Batch!Init
  OBVIOUS
<1>1. InputInv
  BY InvInit DEF Inv, TypeInv
<1>2. [i \in Positions |-> Asked(keys[i])] \in Batch!Request
  BY <1>1, AskedIsRequest, SameVocabulary DEF Batch!Request
<1>3. store.flaky \in BOOLEAN
  BY <1>1 DEF InputInv, CallOK, Store
<1>4. ctxDone = FALSE /\ WrappedResult = Pending
  BY WrapEmpty DEF Init
<1> QED
  BY <1>2, <1>3, <1>4, SameVocabulary DEF Batch!Init, WrappedResult

LEMMA StepRefines == Inv /\ [Next]_vars => [Batch!Next]_Batch!batchVars
<1> SUFFICES ASSUME Inv, [Next]_vars PROVE [Batch!Next]_Batch!batchVars
  OBVIOUS
<1> DEFINE Requested == [i \in Positions |-> Asked(keys[i])]
<1>1. UNCHANGED input
  BY DEF Next, Step, Return, Submit, RunTask, Refused, Responds, Chunk, Ends, Breaks,
         CallerCancels, vars
<1>2. store' = store /\ Positions' = Positions /\ Requested' = Requested
  <2>1. keys' = keys /\ \A key : Asked(key)' = Asked(key)
    BY <1>1, InputUnchanged DEF Asked
  <2> QED
    BY <1>1, <2>1, InputUnchanged
<1>3. ASSUME UNCHANGED <<ctxDone, result>>
      PROVE  UNCHANGED Batch!batchVars
  BY <1>2, <1>3 DEF Batch!batchVars
<1>4. Batch!Causes = Causes
  BY SameVocabulary DEF Batch!Causes, Causes, Batch!Positions, Asked
<1>5. CASE Return
  <2>1. /\ result = Pending /\ UNCHANGED ctxDone
        /\ result' = IF poolErr = NoErr THEN Delivered(data) ELSE Failed(poolErr)
        /\ \A i \in Positions : task[i] = "done"
    BY <1>5 DEF Return
  <2>2. WrappedResult = Pending
    BY <2>1, WrapEmpty
  <2>3. CASE poolErr # NoErr
    <3>1. poolErr \in Batch!Causes
      BY <1>4, <2>3 DEF Inv, CauseInv
    <3>2. WrappedResult' = Failed(poolErr)
      BY <2>1, <2>3, EmptySeq DEF WrappedResult, Failed
    <3>3. Batch!Fail
      BY <2>2, <3>1, <3>2, SameVocabulary DEF Batch!Fail, WrappedResult
    <3> QED
      BY <1>2, <2>1, <3>3 DEF Batch!Next, Batch!Return
  <2>4. CASE poolErr = NoErr
    <3>1. \A i \in Positions : FaultOf(keys[i]) = NoErr /\ data[i] = Payload(keys[i])
      BY <2>1, <2>4 DEF Inv, ServedInv
    <3>2. data \in [Positions -> Record \cup {NoData}]
      BY DEF Inv, TypeInv
    <3>3. \A i \in Positions : Requested[i].fault = NoErr
                              /\ Requested[i].event = Wrapped(data[i])
      BY <3>1 DEF Asked
    <3>4. WrappedResult' = Delivered([i \in Positions |-> Wrapped(data[i])])
      BY <2>1, <2>4, <3>2 DEF WrappedResult, Delivered
    <3>5. [i \in Positions |-> Wrapped(data[i])] = [i \in Positions |-> Requested[i].event]
      BY <3>3
    <3>6. Batch!Deliver
      BY <2>2, <3>3, <3>4, <3>5, SameVocabulary
         DEF Batch!Deliver, Batch!Positions, WrappedResult
    <3> QED
      BY <1>2, <2>1, <3>6 DEF Batch!Next, Batch!Return
  <2> QED
    BY <2>3, <2>4
<1>6. CASE CallerCancels
  BY <1>2, <1>6 DEF CallerCancels, Batch!Next, Batch!CallerCancels
<1>7. ASSUME NEW i \in Positions, Submit(i) \/ RunTask(i)
      PROVE  UNCHANGED <<ctxDone, result>>
  BY <1>7 DEF Submit, RunTask, Refused, Responds, Chunk, Ends, Breaks
<1> QED
  BY <1>3, <1>5, <1>6, <1>7 DEF Next, Step, vars

(* Every payload is whole and its own key's, or an error is the fault of   *)
(* some key, of the transport, or of a caller that gave up.                *)
THEOREM ImplementsBatchFetch == Spec => BatchPromise
BY Invariance, InitRefines, StepRefines, PTL DEF Spec, BatchPromise, Batch!Spec

-----------------------------------------------------------------------------
(* The memory in use. *)

(* A slot for every running task, and nothing runs when the call has       *)
(* returned.                                                               *)
SlotInv ==
    /\ Cardinality(Running) <= Limit
    /\ result # Pending => \A i \in Positions : task[i] = "done"

LEMMA RunningFinite ==
    ASSUME InputInv, NEW S \in SUBSET Positions
    PROVE  IsFiniteSet(S) /\ Cardinality(S) \in Nat
<1>1. Positions = 1..Len(keys) /\ Len(keys) \in Nat
  BY LenProperties DEF InputInv, CallOK, Positions
<1>2. IsFiniteSet(Positions)
  BY <1>1, FS_Interval
<1>3. IsFiniteSet(S)
  BY <1>2, FS_Subset
<1> QED
  BY <1>3, FS_CardinalityType

LEMMA SlotInit == Init => SlotInv
<1> SUFFICES ASSUME Init PROVE SlotInv
  OBVIOUS
<1>1. Running = {}
  BY DEF Init, Running
<1> QED
  BY <1>1, FS_EmptySet, ObjectAssumption DEF Init, SlotInv

(* Only Submit takes a slot, and only a free one. *)
LEMMA FewerRun ==
    ASSUME Inv, SlotInv, Running' \subseteq Running,
           result' # Pending => \A i \in Positions' : task'[i] = "done"
    PROVE  SlotInv'
<1>1. Running \in SUBSET Positions /\ Running' \in SUBSET Running
  BY DEF Running
<1>2. Cardinality(Running') <= Cardinality(Running)
  BY <1>1, RunningFinite, FS_Subset DEF Inv, TypeInv
<1>3. Cardinality(Running') \in Nat /\ Cardinality(Running) \in Nat
  <2>1. Running' \in SUBSET Positions
    BY <1>1
  <2> QED
    BY <1>1, <2>1, RunningFinite DEF Inv, TypeInv
<1> QED
  BY <1>2, <1>3, ObjectAssumption DEF SlotInv

LEMMA SubmitSlot ==
    ASSUME Inv, SlotInv, NEW i \in Positions, Submit(i)
    PROVE  SlotInv'
<1>1. /\ task[i] = "idle" /\ task' = [task EXCEPT ![i] = "get"]
      /\ UNCHANGED <<input, result>> /\ Cardinality(Running) < Limit
  BY DEF Submit, HasSlot
<1>2. Running' = Running \cup {i} /\ i \notin Running
  BY <1>1, InputUnchanged DEF Running, Inv, TypeInv
<1>3. Running \in SUBSET Positions
  BY DEF Running
<1>4. Cardinality(Running') = Cardinality(Running) + 1 /\ Cardinality(Running) \in Nat
  BY <1>2, <1>3, RunningFinite, FS_AddElement DEF Inv, TypeInv
<1>5. result = Pending
  BY <1>1 DEF SlotInv
<1> QED
  BY <1>1, <1>4, <1>5, ObjectAssumption DEF SlotInv

LEMMA RunSlot ==
    ASSUME Inv, SlotInv, NEW i \in Positions, RunTask(i)
    PROVE  SlotInv'
<1>1. UNCHANGED <<input, result>> /\ task[i] \in {"get", "full", "all"}
  BY DEF RunTask, Refused, Responds, Chunk, Ends, Breaks
<1>2. \E st \in Stages : task' = [task EXCEPT ![i] = st]
  <2>1. task \in [Positions -> Stages]
    BY DEF Inv, TypeInv
  <2>2. task = [task EXCEPT ![i] = task[i]]
    BY <2>1
  <2>3. ASSUME NEW e, TaskFails(i, e) PROVE task' = [task EXCEPT ![i] = "done"]
    BY <2>3 DEF TaskFails
  <2>4. CASE Refused(i)
    BY <2>3, <2>4 DEF Refused, Stages
  <2>5. CASE Responds(i)
    BY <2>3, <2>5 DEF Responds, Stages
  <2>6. CASE Ends(i)
    BY <2>3, <2>6 DEF Ends, TaskDelivers, Stages
  <2>7. CASE Breaks(i)
    BY <2>3, <2>7 DEF Breaks, Stages
  <2>8. CASE \E n \in 1..MaxChunk : Chunk(i, n)
    BY <1>1, <2>2, <2>8 DEF Chunk, Stages
  <2> QED
    BY <2>4, <2>5, <2>6, <2>7, <2>8 DEF RunTask
<1>3. Running' \subseteq Running
  BY <1>1, <1>2, InputUnchanged DEF Running, Inv, TypeInv
<1>4. result = Pending
  BY <1>1 DEF SlotInv
<1> QED
  BY <1>1, <1>3, <1>4, FewerRun

LEMMA SlotInvariance == Spec => []SlotInv
<1>1. Inv /\ SlotInv /\ [Next]_vars => SlotInv'
  <2> SUFFICES ASSUME Inv, SlotInv, [Next]_vars PROVE SlotInv'
    OBVIOUS
  <2>1. ASSUME NEW i \in Positions, Submit(i) \/ RunTask(i)
        PROVE  SlotInv'
    BY <2>1, SubmitSlot, RunSlot
  <2>2. CASE Return
    <3>1. UNCHANGED <<input, task>> /\ \A i \in Positions : task[i] = "done"
      BY <2>2 DEF Return
    <3> QED
      BY <3>1, FewerRun, InputUnchanged DEF Running
  <2>3. CASE CallerCancels \/ UNCHANGED vars
    <3>1. UNCHANGED <<input, task, result>>
      BY <2>3 DEF CallerCancels, vars
    <3> QED
      BY <3>1, FewerRun, InputUnchanged DEF Running, SlotInv
  <2> QED
    BY <2>1, <2>2, <2>3 DEF Next, Step
<1> QED
  BY <1>1, Invariance, SlotInit, PTL DEF Spec

-----------------------------------------------------------------------------
(* HeldBy, the bytes held by the running tasks up to a position.           *)

Less == {pair \in Nat \X Nat : pair[1] < pair[2]}

(* Every set of numbers has a least one. *)
LEMMA LeastElement ==
    ASSUME NEW S \in SUBSET Nat, S # {}
    PROVE  \E n \in S : \A m \in S : n <= m
<1>1. IsWellFoundedOn(Less, Nat)
  BY NatLessThanWellFounded, Zenon DEF OpToRel, Less
<1>2. PICK n \in S : \A m \in S : <<m, n>> \notin Less
  BY <1>1, WFMin, Zenon
<1>3. ASSUME NEW m \in S PROVE n <= m
  <2>1. ~(m < n)
    BY <1>2 DEF Less
  <2> QED
    BY <2>1
<1> QED
  BY <1>3

(* The body of HeldBy, of a function f in its place.                       *)
HeldAt(f, n) ==
    IF n = 0 THEN 0 ELSE f[n - 1] + (IF n \in Running THEN Held(n) ELSE 0)

(* There is a function that satisfies the equation: the least position up  *)
(* to which there is none would not be 0, and one further than another.    *)
LEMMA HeldByExists ==
    ASSUME InputInv
    PROVE  \E f : f = [n \in 0..Len(keys) |-> HeldAt(f, n)]
<1> DEFINE Dom == 0..Len(keys)
           UpTo(m, f) == f = [n \in Dom |-> IF n <= m THEN HeldAt(f, n) ELSE 0]
           S == {m \in Dom : ~ \E f : UpTo(m, f)}
<1>1. Len(keys) \in Nat /\ Dom \in SUBSET Nat /\ Len(keys) \in Dom
  BY LenProperties DEF InputInv, CallOK
<1>2. S = {}
  <2> SUFFICES ASSUME S # {} PROVE FALSE
    OBVIOUS
  <2>1. S \in SUBSET Nat
    BY <1>1, Zenon
  <2>2. PICK m \in S : \A j \in S : m <= j
    BY <2>1, LeastElement, Zenon
  <2>3. m # 0
    <3>1. \A n \in Dom : (n <= 0) = (n = 0)
      BY <1>1
    <3>2. \A f : HeldAt(f, 0) = 0
      BY DEF HeldAt
    <3> DEFINE none == [n \in Dom |-> 0]
    <3>3. ASSUME NEW n \in Dom PROVE 0 = IF n <= 0 THEN HeldAt(none, n) ELSE 0
      BY <3>1, <3>2, Zenon
    <3>4. UpTo(0, none)
      BY <3>3, Zenon
    <3> QED
      BY <3>4, Zenon
  <2>4. m \in Dom
    BY Zenon
  <2>5. m \in Nat /\ m - 1 \in Dom /\ ~(m <= m - 1)
    BY <1>1, <2>3, <2>4
  <2>6. PICK f : UpTo(m - 1, f)
    BY <2>2, <2>5, Zenon
  <2> DEFINE g == [f EXCEPT ![m] = HeldAt(f, m)]
  <2>7. ASSUME NEW n \in Dom, n <= m PROVE HeldAt(g, n) = HeldAt(f, n)
    <3>1. CASE n = 0
      BY <3>1 DEF HeldAt
    <3>2. CASE n # 0
      <4>1. n - 1 \in Dom /\ n - 1 # m
        BY <3>2, <1>1, <2>5, <2>7
      <4>2. g[n - 1] = f[n - 1]
        BY <2>6, <4>1
      <4> QED
        BY <4>2 DEF HeldAt
    <3> QED
      BY <3>1, <3>2
  <2>8. ASSUME NEW n \in Dom PROVE (n <= m) <=> (n = m \/ n <= m - 1)
    BY <1>1, <2>5
  <2>9. UpTo(m, g)
    <3>1. g = [n \in Dom |-> IF n = m THEN HeldAt(f, m) ELSE f[n]]
      BY <2>6
    <3>2. ASSUME NEW n \in Dom
          PROVE  (IF n = m THEN HeldAt(f, m) ELSE f[n])
                   = (IF n <= m THEN HeldAt(g, n) ELSE 0)
      <4> HIDE DEF g
      <4>1. f[n] = IF n <= m - 1 THEN HeldAt(f, n) ELSE 0
        BY <2>6, Zenon
      <4> QED
        BY <4>1, <2>7, <2>8, Zenon
    <3> HIDE DEF g
    <3> QED
      BY <3>1, <3>2, Zenon
  <2> QED
    BY <2>9, Zenon
<1>3. PICK f : UpTo(Len(keys), f)
  BY <1>1, <1>2, Zenon
<1>4. \A n \in Dom : n <= Len(keys)
  BY <1>1
<1>5. f = [n \in Dom |-> HeldAt(f, n)]
  BY <1>3, <1>4, Zenon
<1> QED
  BY <1>5, Zenon

LEMMA HeldByEquation ==
    ASSUME InputInv, NEW n \in 0..Len(keys)
    PROVE  HeldBy[n] = HeldAt(HeldBy, n)
<1>1. \E f : f = [m \in 0..Len(keys) |->
                    IF m = 0 THEN 0
                    ELSE f[m - 1] + (IF m \in Running THEN Held(m) ELSE 0)]
  BY HeldByExists, Zenon DEF HeldAt
<1>2. HeldBy = [m \in 0..Len(keys) |->
                  IF m = 0 THEN 0
                  ELSE HeldBy[m - 1] + (IF m \in Running THEN Held(m) ELSE 0)]
  BY <1>1, Zenon DEF HeldBy
<1>3. HeldBy[n] = IF n = 0 THEN 0
                  ELSE HeldBy[n - 1] + (IF n \in Running THEN Held(n) ELSE 0)
  BY <1>2, Zenon
<1> QED
  BY <1>3, Zenon DEF HeldAt

(* A running task holds an object of the largest size and a byte at most.  *)
LEMMA HeldBound ==
    ASSUME Inv, NEW i \in Running
    PROVE  Held(i) \in Nat /\ Held(i) <= maxObjectSize + 1
<1>1. i \in Positions /\ task[i] \in {"get", "full", "all"}
  BY DEF Running, Inv, TypeInv, Stages
<1>2. buffer[i] \in Nat /\ read[i] \in Nat /\ maxObjectSize \in Nat
  BY <1>1, ObjectAssumption DEF Inv, TypeInv
<1>3. ReadInv(i)
  BY <1>1 DEF Inv
<1>4. CASE task[i] = "get"
  BY <1>2, <1>3, <1>4 DEF Held, ReadInv
<1>5. CASE task[i] = "full"
  <2>1. /\ buffer[i] = length[keys[i].name] /\ ~Exceeds(length[keys[i].name])
        /\ read[i] <= buffer[i]
    BY <1>3, <1>5 DEF ReadInv, Wanted
  <2> QED
    BY <1>2, <2>1 DEF Held, Exceeds
<1>6. CASE task[i] = "all"
  <2>1. buffer[i] = 0 /\ read[i] <= maxObjectSize + 1
    BY <1>3, <1>6 DEF ReadInv, Wanted
  <2> QED
    BY <1>2, <2>1 DEF Held
<1> QED
  BY <1>1, <1>4, <1>5, <1>6

LEMMA OneMore == \A c, m \in Nat : (c + 1) * m = c * m + m /\ c * m \in Nat
OBVIOUS

LEMMA Monotone == \A c, d, m \in Nat : c <= d => c * m <= d * m
OBVIOUS

(* The tasks running up to a position. *)
RunningTo(n) == {i \in Running : i <= n}

LEMMA HeldBySum ==
    ASSUME Inv, NEW n \in 0..Len(keys)
    PROVE  /\ HeldBy[n] \in Nat
           /\ HeldBy[n] <= Cardinality(RunningTo(n)) * (maxObjectSize + 1)
<1> DEFINE Bounded(m) == /\ HeldBy[m] \in Nat
                         /\ HeldBy[m] <= Cardinality(RunningTo(m)) * (maxObjectSize + 1)
           S == {m \in 0..Len(keys) : ~Bounded(m)}
<1>1. /\ InputInv /\ Positions = 1..Len(keys) /\ Len(keys) \in Nat
      /\ 0..Len(keys) \in SUBSET Nat /\ maxObjectSize + 1 \in Nat
  BY LenProperties, ObjectAssumption DEF Inv, TypeInv, InputInv, CallOK, Positions
<1>2. S = {}
  <2> SUFFICES ASSUME S # {} PROVE FALSE
    OBVIOUS
  <2>1. S \in SUBSET Nat
    BY <1>1, Zenon
  <2>2. PICK m \in S : \A j \in S : m <= j
    BY <2>1, LeastElement, Zenon
  <2>3. m \in 0..Len(keys) /\ ~Bounded(m)
    BY Zenon
  <2>4. HeldBy[m] = HeldAt(HeldBy, m)
    BY <1>1, <2>3, HeldByEquation
  <2>5. \A k \in Nat : Cardinality(RunningTo(k)) \in Nat /\ IsFiniteSet(RunningTo(k))
    BY <1>1, RunningFinite DEF RunningTo, Running
  <2>6. m # 0
    <3>1. ASSUME m = 0 PROVE Bounded(m)
      <4>1. HeldBy[m] = 0
        BY <2>4, <3>1 DEF HeldAt
      <4>2. RunningTo(m) = {}
        BY <1>1, <3>1 DEF RunningTo, Running
      <4> QED
        BY <1>1, <4>1, <4>2, FS_EmptySet
    <3> QED
      BY <2>3, <3>1
  <2>7. m \in Positions /\ m - 1 \in 0..Len(keys) /\ ~(m <= m - 1)
    BY <1>1, <2>3, <2>6
  <2>8. Bounded(m - 1)
    BY <2>2, <2>7, Zenon
  <2> HIDE DEF Bounded
  <2>9. CASE m \in Running
    <3>1. HeldBy[m] = HeldBy[m - 1] + Held(m)
      BY <2>4, <2>6, <2>9 DEF HeldAt
    <3>2. RunningTo(m) = RunningTo(m - 1) \cup {m} /\ m \notin RunningTo(m - 1)
      BY <1>1, <2>7, <2>9 DEF RunningTo, Running
    <3>3. Cardinality(RunningTo(m)) = Cardinality(RunningTo(m - 1)) + 1
      BY <1>1, <2>5, <2>7, <3>2, FS_AddElement
    <3>4. Held(m) \in Nat /\ Held(m) <= maxObjectSize + 1
      BY <2>9, HeldBound
    <3>5. Cardinality(RunningTo(m - 1)) \in Nat
      BY <1>1, <2>5, <2>7
    <3>6. Cardinality(RunningTo(m)) * (maxObjectSize + 1)
            = Cardinality(RunningTo(m - 1)) * (maxObjectSize + 1) + (maxObjectSize + 1)
      BY <1>1, <3>3, <3>5, OneMore
    <3>7. Cardinality(RunningTo(m - 1)) * (maxObjectSize + 1) \in Nat
      BY <1>1, <3>5, OneMore
    <3>8. Bounded(m)
      BY <1>1, <2>8, <3>1, <3>4, <3>6, <3>7 DEF Bounded
    <3> QED
      BY <2>3, <3>8
  <2>10. CASE m \notin Running
    <3>1. HeldBy[m] = HeldBy[m - 1] + 0
      BY <2>4, <2>6, <2>10 DEF HeldAt
    <3>2. RunningTo(m) = RunningTo(m - 1)
      BY <1>1, <2>7, <2>10 DEF RunningTo, Running
    <3>3. Bounded(m)
      BY <2>8, <3>1, <3>2 DEF Bounded
    <3> QED
      BY <2>3, <3>3
  <2> QED
    BY <2>9, <2>10
<1> QED
  BY <1>2

LEMMA InvBoundsMemory == Inv /\ SlotInv => MemoryBounded
<1> SUFFICES ASSUME Inv, SlotInv PROVE MemoryBounded
  OBVIOUS
<1>1. Len(keys) \in 0..Len(keys) /\ maxObjectSize + 1 \in Nat /\ Limit \in Nat
  BY LenProperties, ObjectAssumption DEF Inv, TypeInv, InputInv, CallOK
<1>2. RunningTo(Len(keys)) = Running
  BY LenProperties DEF RunningTo, Running, Positions, Inv, TypeInv, InputInv, CallOK
<1>3. HeldBy[Len(keys)] \in Nat /\ HeldBy[Len(keys)] <= Cardinality(Running) * (maxObjectSize + 1)
  BY <1>1, <1>2, HeldBySum
<1>4. Cardinality(Running) \in Nat
  BY RunningFinite DEF Running, Inv, TypeInv
<1>5. Cardinality(Running) * (maxObjectSize + 1) <= Limit * (maxObjectSize + 1)
  BY <1>1, <1>4, Monotone DEF SlotInv
<1>6. Cardinality(Running) * (maxObjectSize + 1) \in Nat /\ Limit * (maxObjectSize + 1) \in Nat
  BY <1>1, <1>4, OneMore
<1>7. HeldBy[Len(keys)] <= Limit * (maxObjectSize + 1)
  BY <1>3, <1>5, <1>6
<1>8. result # Pending => Running = {}
  BY DEF SlotInv, Running
<1> QED
  BY <1>7, <1>8 DEF MemoryBounded

(* Whatever the batch and whatever the objects say of their sizes, the     *)
(* downloads hold no more than Limit objects of the largest size and a     *)
(* byte of each, and nothing once the call has returned.                   *)
THEOREM MemoryIsBounded == Spec => []MemoryBounded
BY Invariance, SlotInvariance, InvBoundsMemory, PTL
=============================================================================
