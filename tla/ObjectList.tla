----------------------------- MODULE ObjectList -----------------------------
(***************************************************************************)
(* eventrepo.Service.ListObjectsFromKeys: the payload of every key, or an  *)
(* error.  One task per key in an errgroup with a limit; no two share a    *)
(* download.  A key is a reference of which only Data.Key matters.         *)
(*                                                                         *)
(* A task is followed through downloadS3Object, byte by byte: the body of  *)
(* a response may be shorter or longer than its Content-Length says, which *)
(* may be missing, and may break off.  What EventStore's GetObject is to   *)
(* the other modules is worked out here.                                   *)
(***************************************************************************)
EXTENDS EventStore, SyncGroups, Integers

CONSTANTS
    Inputs,          \* the calls considered
    Limit,           \* fetchConcurrency
    maxObjectSize,   \* in bytes
    MaxChunk,        \* bound: bytes one read returns
    Missing          \* the Content-Length of a response without one

ASSUME ObjectAssumption ==
    /\ \A in \in Inputs :
         /\ in.keys \in Seq(Ref) /\ in.store \in Store /\ in.bucket \in Buckets
         /\ in.body \in [Names -> Nat] /\ in.length \in [Names -> Int \cup {Missing}]
    /\ Limit \in Nat \ {0} /\ maxObjectSize \in Nat /\ MaxChunk \in Nat \ {0}
    /\ Missing \notin Int

VARIABLES
    keys, store, bucketName,   \* the arguments, and the object store
    body, length,              \* of each object, its bytes and Content-Length
    ctxDone,                   \* whether the caller's context is done
    task,                      \* per key, where its task is
    buffer, read,              \* per key, the bytes allocated at once, and read
    poolErr,                   \* the error kept by the errgroup
    data,                      \* the slots the tasks write
    result                     \* what the function returned

input == <<keys, store, bucketName, body, length>>
download == <<buffer, read>>
vars == <<input, ctxDone, task, download, poolErr, data, result>>

Positions == DOMAIN keys
Stages == {"idle", "get", "full", "all", "done"}

-----------------------------------------------------------------------------
(* What a key names, as BatchFetch states it.  A payload is wrapped in an  *)
(* event with nothing else in it.                                          *)
PlaceOf(key) == IF IsParquetRef(key) THEN BucketOf(store, key) ELSE bucketName
RowOf(key) == IF IsParquetRef(key) THEN key.row ELSE 0
Payload(key) == <<PlaceOf(key), key.name, RowOf(key)>>

LengthGiven(name) == length[name] # Missing /\ length[name] > 0
SizeOf(name) == IF LengthGiven(name) THEN length[name] ELSE body[name]

FaultOf(key) ==
    IF IsParquetRef(key) /\ ~Resolvable(store, key) THEN "Other"
    ELSE IF <<PlaceOf(key), key.name>> \notin store.present THEN "NotFound"
    ELSE IF SizeOf(key.name) > maxObjectSize \/ body[key.name] < SizeOf(key.name) THEN "Other"
    ELSE IF IsParquetRef(key) /\ Payload(key) \notin store.readable THEN "Other"
    ELSE NoErr

Wrapped(payload) == [hdr |-> payload, data |-> payload]

Asked(key) == [event |-> IF FaultOf(key) = NoErr THEN Wrapped(Payload(key)) ELSE NoEvent,
               fault |-> FaultOf(key)]

Batch == INSTANCE BatchFetch WITH
    request <- [i \in Positions |-> Asked(keys[i])],
    flaky <- store.flaky, cancelled <- ctxDone,
    result <- [result EXCEPT !.events =
                 [i \in DOMAIN result.events |-> Wrapped(result.events[i])]]

-----------------------------------------------------------------------------
Init ==
    /\ \E in \in Inputs :
         /\ keys = in.keys /\ store = in.store /\ bucketName = in.bucket
         /\ body = in.body /\ length = in.length
    /\ ctxDone = FALSE
    /\ task = [i \in Positions |-> "idle"]
    /\ buffer = [i \in Positions |-> 0] /\ read = [i \in Positions |-> 0]
    /\ poolErr = NoErr
    /\ data = [i \in Positions |-> NoData]
    /\ result = Pending

Running == {i \in Positions : task[i] \notin {"idle", "done"}}

(* errCtx. *)
Cancelled == ctxDone \/ poolErr # NoErr

(* group.Go for one key after the other. *)
Submit(i) ==
    /\ task[i] = "idle" /\ \A j \in 1..(i - 1) : task[j] # "idle"
    /\ HasSlot(Running, Limit)
    /\ task' = [task EXCEPT ![i] = "get"]
    /\ UNCHANGED <<input, ctxDone, download, poolErr, data, result>>

(* Mutant: a task that failed keeps its slot. *)
TaskFailsHolding(i, e) ==
    /\ poolErr' = FirstError(poolErr, e, NoErr)
    /\ UNCHANGED <<task, data>>

(* A task returns: an error is kept if it is the first, and cancels the    *)
(* others.                                                                 *)
TaskFails(i, e) ==
    /\ task' = [task EXCEPT ![i] = "done"]
    /\ poolErr' = FirstError(poolErr, e, NoErr)
    /\ UNCHANGED data

(* Half an object is no payload. *)
Content(i) == IF read[i] = SizeOf(keys[i].name) THEN Payload(keys[i]) ELSE NoData

TaskDelivers(i) ==
    /\ task' = [task EXCEPT ![i] = "done"]
    /\ data' = [data EXCEPT ![i] = Content(i)]
    /\ UNCHANGED poolErr

(* The reference does not parse, or GetObject fails. *)
Refused(i) ==
    /\ task[i] = "get"
    /\ \E e \in IF IsParquetRef(keys[i]) /\ ~Resolvable(store, keys[i]) THEN {"Other"}
                ELSE GetObject(store, PlaceOf(keys[i]), keys[i].name, Cancelled) \ {NoErr} :
         TaskFails(i, e)
    /\ UNCHANGED <<input, ctxDone, download, result>>

(* Mutant: any length is believed. *)
ExceedsNothing(size) == FALSE
Exceeds(size) == size > maxObjectSize

(* A response.  A positive length decides at once, and allocates what is   *)
(* then filled; without one the stream is read to its end.                 *)
Responds(i) ==
    /\ task[i] = "get"
    /\ IsParquetRef(keys[i]) => Resolvable(store, keys[i])
    /\ NoErr \in GetObject(store, PlaceOf(keys[i]), keys[i].name, Cancelled)
    /\ LET name == keys[i].name
       IN  IF LengthGiven(name) /\ Exceeds(length[name])
           THEN TaskFails(i, "Other") /\ UNCHANGED buffer
           ELSE /\ task' = [task EXCEPT ![i] = IF LengthGiven(name) THEN "full" ELSE "all"]
                /\ buffer' = [buffer EXCEPT ![i] = IF LengthGiven(name) THEN length[name] ELSE 0]
                /\ UNCHANGED <<poolErr, data>>
    /\ UNCHANGED <<input, ctxDone, read, result>>

(* io.ReadFull stops when the buffer is full, a LimitReader one byte past  *)
(* the limit; both when the stream ends.  Mutant: the limit itself.        *)
WantedExact(i) == IF task[i] = "full" THEN buffer[i] ELSE maxObjectSize
Wanted(i) == IF task[i] = "full" THEN buffer[i] ELSE maxObjectSize + 1

Chunk(i, n) ==
    /\ task[i] \in {"full", "all"}
    /\ read[i] + n <= body[keys[i].name] /\ read[i] + n <= Wanted(i)
    /\ read' = [read EXCEPT ![i] = @ + n]
    /\ UNCHANGED <<input, ctxDone, task, buffer, poolErr, data, result>>

(* The stream is at its end, or enough has been read.  A parquet file is   *)
(* then asked for its row.                                                 *)
Ends(i) ==
    /\ task[i] \in {"full", "all"}
    /\ read[i] \in {Wanted(i), body[keys[i].name]}
    /\ IF \/ task[i] = "full" /\ read[i] < buffer[i]
          \/ task[i] = "all" /\ Exceeds(read[i])
          \/ IsParquetRef(keys[i]) /\ Payload(keys[i]) \notin store.readable
       THEN TaskFails(i, "Other")
       ELSE TaskDelivers(i)
    /\ UNCHANGED <<input, ctxDone, download, result>>

(* The stream breaks off: the transport fails, or the context is done. *)
Breaks(i) ==
    /\ task[i] \in {"full", "all"}
    /\ \E e \in (IF Cancelled THEN {"Canceled"} ELSE {})
                  \cup (IF store.flaky THEN {"Other"} ELSE {}) : TaskFails(i, e)
    /\ UNCHANGED <<input, ctxDone, download, result>>

RunTask(i) == Refused(i) \/ Responds(i) \/ Ends(i) \/ Breaks(i) \/ \E n \in 1..MaxChunk : Chunk(i, n)

(* group.Wait, and the return. *)
Return ==
    /\ result = Pending /\ \A i \in Positions : task[i] = "done"
    /\ result' = IF poolErr = NoErr THEN Delivered(data) ELSE Failed(poolErr)
    /\ UNCHANGED <<input, ctxDone, task, download, poolErr, data>>

CallerCancels ==
    /\ result = Pending /\ ~ctxDone
    /\ ctxDone' = TRUE
    /\ UNCHANGED <<input, task, download, poolErr, data, result>>

Step == Return \/ \E i \in Positions : Submit(i) \/ RunTask(i)

Next == Step \/ CallerCancels

(* Goroutines are scheduled, a GetObject in flight returns, and a stream   *)
(* yields its bytes, ends or breaks.                                       *)
Spec == Init /\ [][Next]_vars /\ WF_vars(Step)

-----------------------------------------------------------------------------
(* However many keys are asked for and whatever their Content-Length says, *)
(* the downloads in flight hold no more than Limit objects of the largest  *)
(* size, and a byte of each; and no slot is handed out while one is.       *)
Held(i) == IF buffer[i] > read[i] THEN buffer[i] ELSE read[i]
HeldBy[n \in 0..Len(keys)] ==
    IF n = 0 THEN 0 ELSE HeldBy[n - 1] + (IF n \in Running THEN Held(n) ELSE 0)
MemoryBounded ==
    /\ HeldBy[Len(keys)] <= Limit * (maxObjectSize + 1)
    /\ result # Pending => Running = {}

(* All or nothing, each payload whole and at the position of its key, and  *)
(* an error that is the fault of a key (missing, too large, cut short), of *)
(* the transport or of the caller's own cancellation, never of the         *)
(* cancellation a sibling's failure causes.                                *)
BatchPromise == Batch!Spec

(* Every call returns, though keys may outnumber the slots. *)
Completes == <>(result # Pending)
=============================================================================
