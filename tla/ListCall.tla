------------------------------ MODULE ListCall ------------------------------
(***************************************************************************)
(* What the two functions named ListCloudEventsFromIndexes, eventrepo's    *)
(* (RepoList) and fetch's (FetchList), have in common: the batch they are  *)
(* asked for, the slots they fill, and the tasks that serve its JSON       *)
(* references from an errgroup with a limit, sharing downloads through a   *)
(* singleflight group.  fetch tries several buckets for a JSON object;     *)
(* eventrepo is the case of a single one.                                  *)
(*                                                                         *)
(* An action here says what it does to the variables of this module that   *)
(* belong to the pool, and to events; the caller's module adds the rest.   *)
(***************************************************************************)
EXTENDS EventStore, SyncGroups

CONSTANTS
    Inputs,   \* the calls considered
    Limit     \* tasks the errgroup runs at a time

ASSUME ListAssumption ==
    /\ Inputs \subseteq
        [indexes : Seq(Ref), store : Store, buckets : Seq(Buckets)]
    /\ Limit \in Nat \ {0}

VARIABLES
    indexes,    \* the references asked for
    buckets,    \* the buckets tried for a JSON object, in order
    store,      \* the object store
    ctxDone,    \* whether the caller's context is done
    pc,         \* the calling goroutine: "classify", "run" or "done"
    next,       \* the index the classification loop looks at next
    jsonItems,  \* the positions of JSON references, in order
    poolErr,    \* the error kept by the errgroup of the JSON tasks
    jsTask,     \* the task of each JSON item
    tried,      \* per call, how many buckets did not hold the object
    call,       \* the singleflight call each JSON task is attached to
    flight,     \* per key, the call in flight
    shared,     \* per call, its result
    events,     \* the slots the tasks write
    result      \* what the function returned

input == <<indexes, buckets, store>>
poolVars == <<jsTask, tried, call, flight, shared>>
listVars == <<input, ctxDone, pc, next, jsonItems, poolErr, poolVars, events,
              result>>

Positions == DOMAIN indexes

-----------------------------------------------------------------------------
(* What the batch asks for, as BatchFetch states it. *)

Holds(n, name) == <<buckets[n], name>> \in store.present

(* The first bucket, in the order they are tried, that holds the object. *)
FirstHolder(name) ==
    CHOOSE n \in DOMAIN buckets :
        Holds(n, name) /\ \A m \in 1..(n - 1) : ~Holds(m, name)

FaultOf(ref) ==
    IF IsParquetRef(ref)
    THEN IF Resolvable(store, ref)
         THEN Fault(store, BucketOf(store, ref), ref.name, ref.row)
         ELSE "Other"
    ELSE IF buckets = <<>> THEN "Other"
    ELSE IF ref.blob THEN NoErr
    ELSE IF \E n \in DOMAIN buckets : Holds(n, ref.name)
         THEN Fault(store, buckets[FirstHolder(ref.name)], ref.name, 0)
         ELSE "NotFound"

EventOf(ref) ==
    IF IsParquetRef(ref) THEN RowEvent(BucketOf(store, ref), ref)
    ELSE IF ref.blob THEN HeaderOnly(ref)
    ELSE JsonEvent(buckets[FirstHolder(ref.name)], ref)

Asked(i) == [event |-> IF FaultOf(indexes[i]) = NoErr THEN EventOf(indexes[i])
                                                      ELSE NoEvent,
             fault |-> FaultOf(indexes[i])]

Batch == INSTANCE BatchFetch WITH
    request <- [i \in Positions |-> Asked(i)],
    flaky <- store.flaky, cancelled <- ctxDone

-----------------------------------------------------------------------------
ListInit ==
    /\ \E in \in Inputs : /\ indexes = in.indexes
                          /\ buckets = in.buckets
                          /\ store = in.store
    /\ ctxDone = FALSE
    /\ pc = "classify"
    /\ next = 1
    /\ jsonItems = <<>>
    /\ poolErr = NoErr
    /\ jsTask = [i \in Positions |-> "idle"]
    /\ tried = [i \in Positions |-> 0]
    /\ call = [i \in Positions |-> NoCall]
    /\ flight = [k \in Names |-> NoCall]
    /\ shared = [i \in Positions |-> Unpublished(NoErr, NoData)]
    /\ events = [i \in Positions |-> NoEvent]
    /\ result = Pending

RunningJson == {i \in Positions : jsTask[i] \notin {"idle", "done"}}

(* group.Go in the loop over the JSON items, which blocks while the        *)
(* errgroup is full.                                                       *)
SubmitJson(k, free) ==
    /\ k \in DOMAIN jsonItems
    /\ jsTask[jsonItems[k]] = "idle"
    /\ \A j \in 1..(k - 1) : jsTask[jsonItems[j]] # "idle"
    /\ free
    /\ jsTask' = [jsTask EXCEPT ![jsonItems[k]] = "start"]
    /\ UNCHANGED <<poolErr, tried, call, flight, shared, events>>

(* Mutant: the object is fetched without asking the singleflight group. *)
JoinAlone(i) ==
    /\ jsTask[i] = "start"
    /\ call' = [call EXCEPT ![i] = i]
    /\ jsTask' = [jsTask EXCEPT ![i] = "fetch"]
    /\ UNCHANGED <<poolErr, tried, flight, shared, events>>

(* singleflight.Do: lead the call for this key, or follow it. *)
Join(i) ==
    /\ jsTask[i] = "start"
    /\ LET key == indexes[i].name IN
        /\ call' = [call EXCEPT ![i] = CallOf(flight, key, i)]
        /\ flight' = [flight EXCEPT ![key] = CallOf(flight, key, i)]
        /\ jsTask' = [jsTask EXCEPT ![i] =
                        IF CallOf(flight, key, i) = i THEN "fetch" ELSE "wait"]
    /\ UNCHANGED <<poolErr, tried, shared, events>>

(* The leader's function returns out: it is published, the key forgotten. *)
Publish(i, out) ==
    /\ shared' = [shared EXCEPT ![i] = Published(out)]
    /\ flight' = [flight EXCEPT ![indexes[i].name] = NoCall]
    /\ jsTask' = [jsTask EXCEPT ![i] = "wait"]

(* Mutant: any failure moves the loop on. *)
FallsBackAlways(err) == err # NoErr

(* errors.As(err, &notFound): only a missing object moves the loop on. *)
FallsBack(err) == err = "NotFound"

(* The leader, on its own index, tries one bucket; the last one's answer   *)
(* is final.                                                               *)
TryBucket(i, cancelled) ==
    /\ jsTask[i] = "fetch"
    /\ tried[i] < Len(buckets)
    /\ \E out \in ReadJson(store, buckets[tried[i] + 1], indexes[i], cancelled) :
        IF FallsBack(out.err) /\ tried[i] + 1 < Len(buckets)
        THEN /\ tried' = [tried EXCEPT ![i] = @ + 1]
             /\ UNCHANGED <<shared, flight, jsTask>>
        ELSE Publish(i, out) /\ UNCHANGED tried
    /\ UNCHANGED <<poolErr, call, events>>

(* "no buckets configured" *)
NoBuckets(i) ==
    /\ jsTask[i] = "fetch"
    /\ buckets = <<>>
    /\ Publish(i, [err |-> "Other", data |-> NoData])
    /\ UNCHANGED <<poolErr, tried, call, events>>

(* Mutant: the shared result keeps its leader's header. *)
OverlayLeader(i, payload) == [hdr |-> indexes[call[i]].hdr, data |-> payload]

(* Mutant: the payload is not taken over from the shared result. *)
OverlayNothing(i, payload) == [hdr |-> indexes[i].hdr]

(* "Apply this index's header; shared result may have a different one." *)
Overlay(i, payload) == [hdr |-> indexes[i].hdr, data |-> payload]

(* The task returns with its call's result, or the call's error. *)
TakeShared(i) ==
    /\ jsTask[i] = "wait"
    /\ shared[call[i]].done
    /\ LET out == shared[call[i]] IN
       IF out.err = NoErr
       THEN /\ events' = [events EXCEPT ![i] = Overlay(i, out.data)]
            /\ UNCHANGED poolErr
       ELSE /\ poolErr' = FirstError(poolErr, out.err, NoErr)
            /\ UNCHANGED events
    /\ jsTask' = [jsTask EXCEPT ![i] = "done"]
    /\ UNCHANGED <<tried, call, flight, shared>>

JsonTask(i, cancelled) ==
    Join(i) \/ TryBucket(i, cancelled) \/ NoBuckets(i) \/ TakeShared(i)

(* Mutant: the pool is left on its first error. *)
JsonDoneOrFailed ==
    \/ poolErr # NoErr
    \/ \A k \in DOMAIN jsonItems : jsTask[jsonItems[k]] = "done"

(* Mutant: a task is expected for every position, not for every item. *)
AllPositionsDone == \A i \in Positions : jsTask[i] = "done"

AllJsonDone == \A k \in DOMAIN jsonItems : jsTask[jsonItems[k]] = "done"

(* Mutant: the error of the group's context is returned, not the group's. *)
ReturnContextError(err) ==
    /\ pc = "run"
    /\ pc' = "done"
    /\ result' = IF err = NoErr THEN Delivered(events) ELSE Failed("Canceled")
    /\ UNCHANGED <<input, ctxDone, next, jsonItems, poolErr, poolVars, events>>

(* The slots are returned, or the error that was kept and no slots. *)
ReturnWith(err) ==
    /\ pc = "run"
    /\ pc' = "done"
    /\ result' = IF err = NoErr THEN Delivered(events) ELSE Failed(err)
    /\ UNCHANGED <<input, ctxDone, next, jsonItems, poolErr, poolVars, events>>

(* The request times out, or its client goes away. *)
CallerCancels ==
    /\ pc # "done"
    /\ ~ctxDone
    /\ ctxDone' = TRUE
    /\ UNCHANGED <<input, pc, next, jsonItems, poolErr, poolVars, events,
                   result>>

Finished == pc = "done" /\ UNCHANGED listVars

-----------------------------------------------------------------------------
Results == [state : {"pending", "ok", "failed"},
            events : Seq(Event \cup {NoEvent}), err : Errors \cup {NoErr}]

InputOK ==
    /\ indexes \in Seq(Ref)
    /\ buckets \in Seq(Buckets)
    /\ store \in Store

PoolOK ==
    /\ jsonItems \in Seq(Positions)
    /\ poolErr \in Errors \cup {NoErr}
    /\ jsTask \in [Positions -> {"idle", "start", "fetch", "wait", "done"}]
    /\ tried \in [Positions -> Nat]
    /\ call \in [Positions -> Positions \cup {NoCall}]
    /\ flight \in [Names -> Positions \cup {NoCall}]
    /\ shared \in [Positions -> [done : BOOLEAN, err : Errors \cup {NoErr},
                                 data : Record \cup {NoData}]]
    /\ events \in [Positions -> Event \cup {NoEvent}]

ListTypeOK ==
    /\ InputOK
    /\ PoolOK
    /\ ctxDone \in BOOLEAN
    /\ pc \in {"classify", "run", "done"}
    /\ next \in 1..(Len(indexes) + 1)
    /\ result \in Results

(* A slice is returned only if every position could be read, and then each *)
(* slot holds the event its own reference names: not a sibling's row, not  *)
(* a sibling's header over a shared payload, not an object of that name in *)
(* a later bucket, not a slot nobody wrote.                                *)
BatchExact ==
    result.state = "ok" =>
        /\ DOMAIN result.events = Positions
        /\ \A i \in Positions : /\ FaultOf(indexes[i]) = NoErr
                                /\ result.events[i] = EventOf(indexes[i])

(* The call implements the all-or-nothing promise: besides BatchExact, the *)
(* error it reports is a cause of its own.  A missing object is reported   *)
(* as missing although it cancels every other task, and Canceled is        *)
(* reported only to a caller that gave up.                                 *)
BatchPromise == Batch!Spec

(* No slot is written twice, whichever tasks run in whichever order.       *)
WriteOnce ==
    [][\A i \in Positions : events[i] # NoEvent => events'[i] = events[i]]_events

(* Concurrent JSON tasks of one key never download it at the same time.    *)
NoDuplicateDownload ==
    \A i, j \in Positions :
        jsTask[i] = "fetch" /\ jsTask[j] = "fetch"
            /\ indexes[i].name = indexes[j].name => i = j

(* Every call returns.  Followers hold a slot of the errgroup while they   *)
(* wait for their leader, yet a full group never waits for a task that     *)
(* cannot be submitted, and a failed leader releases its followers.        *)
Completes == <>(result # Pending)
=============================================================================
