------------------------------ MODULE RepoList ------------------------------
(***************************************************************************)
(* eventrepo.Service.ListCloudEventsFromIndexes: one errgroup runs a task  *)
(* per parquet object key and a task per JSON reference (ListCall, with    *)
(* bucketName as the only bucket).                                         *)
(***************************************************************************)
EXTENDS ListCall

VARIABLES
    parquetGroups,  \* per object key, the parquetItems in order of arrival
    pqTask,         \* the task of each parquet group
    pqRow           \* how many items of the group have been copied

pqVars == <<pqTask, pqRow>>
vars == <<listVars, parquetGroups, pqVars>>

(* errCtx: done as soon as a task failed or the caller gave up. *)
Cancelled == ctxDone \/ poolErr # NoErr

Init ==
    /\ ListInit
    /\ Len(buckets) = 1
    /\ parquetGroups = [o \in Names |-> <<>>]
    /\ pqTask = [o \in Names |-> "idle"]
    /\ pqRow = [o \in Names |-> 0]

(* Mutant: the position inside the group, not in the batch. *)
ParquetItemInGroup(i) ==
    [idx    |-> Len(parquetGroups[indexes[i].name]) + 1,
     bucket |-> BucketOf(store, indexes[i])]

(* The parquetItem of the index at position i. *)
ParquetItem(i) == [idx |-> i, bucket |-> BucketOf(store, indexes[i])]

(* The classification loop: a reference is queued, or the call is refused. *)
Classify ==
    /\ pc = "classify"
    /\ next \in Positions
    /\ LET ref == indexes[next] IN
       \/ /\ ~IsParquetRef(ref)
          /\ jsonItems' = Append(jsonItems, next)
          /\ UNCHANGED <<parquetGroups, pc, result>>
       \/ /\ Resolvable(store, ref)
          /\ parquetGroups' = [parquetGroups EXCEPT ![ref.name] =
                                    Append(@, ParquetItem(next))]
          /\ UNCHANGED <<jsonItems, pc, result>>
       \/ /\ IsParquetRef(ref) /\ ~Resolvable(store, ref)
          /\ pc' = "done"
          /\ result' = Failed("Other")
          /\ UNCHANGED <<parquetGroups, jsonItems>>
    /\ next' = next + 1
    /\ UNCHANGED <<input, ctxDone, poolErr, poolVars, pqVars, events>>

StartGroup ==
    /\ pc = "classify"
    /\ next \notin Positions
    /\ pc' = "run"
    /\ UNCHANGED <<input, ctxDone, next, jsonItems, poolErr, poolVars, events,
                   result, parquetGroups, pqVars>>

-----------------------------------------------------------------------------
(* The caller submits the tasks: parquet groups in map order, then JSON.   *)

Groups == {o \in Names : parquetGroups[o] # <<>>}

RunningParquet == {o \in Names : pqTask[o] \notin {"idle", "done"}}

Free == HasSlot({"parquet"} \X RunningParquet \cup {"json"} \X RunningJson,
                Limit)

(* What a task of this call leaves alone. *)
Frame == UNCHANGED <<input, ctxDone, pc, next, jsonItems, result, parquetGroups>>

SubmitParquet(o) ==
    /\ pc = "run"
    /\ o \in Groups
    /\ pqTask[o] = "idle"
    /\ Free
    /\ pqTask' = [pqTask EXCEPT ![o] = "download"]
    /\ UNCHANGED <<poolErr, poolVars, events, pqRow>>
    /\ Frame

RepoSubmitJson(k) ==
    /\ pc = "run"
    /\ \A o \in Groups : pqTask[o] # "idle"
    /\ SubmitJson(k, Free)
    /\ UNCHANGED pqVars
    /\ Frame

RepoJsonTask(i) ==
    /\ JsonTask(i, Cancelled)
    /\ UNCHANGED pqVars
    /\ Frame

-----------------------------------------------------------------------------
(* The task of the parquet group of object key o. *)

PqFails(o, e) ==
    /\ pqTask' = [pqTask EXCEPT ![o] = "done"]
    /\ poolErr' = FirstError(poolErr, e, NoErr)
    /\ UNCHANGED <<pqRow, events>>

(* One download per group, from the bucket of its first item. *)
Download(o) ==
    /\ pqTask[o] = "download"
    /\ \E e \in GetObject(store, parquetGroups[o][1].bucket, o, Cancelled) :
        IF e = NoErr
        THEN /\ pqTask' = [pqTask EXCEPT ![o] = "rows"]
             /\ UNCHANGED <<poolErr, pqRow, events>>
        ELSE PqFails(o, e)
    /\ UNCHANGED poolVars
    /\ Frame

(* The rows of the group are then read from memory, in order of arrival. *)
CopyRow(o) ==
    /\ pqTask[o] = "rows"
    /\ pqRow[o] < Len(parquetGroups[o])
    /\ LET item == parquetGroups[o][pqRow[o] + 1]
           ref  == indexes[item.idx]
           from == parquetGroups[o][1].bucket
       IN  IF <<from, o, ref.row>> \in store.readable
           THEN /\ events' = [events EXCEPT ![item.idx] = RowEvent(from, ref)]
                /\ pqRow' = [pqRow EXCEPT ![o] = @ + 1]
                /\ UNCHANGED <<pqTask, poolErr>>
           ELSE PqFails(o, "Other")
    /\ UNCHANGED poolVars
    /\ Frame

FinishParquet(o) ==
    /\ pqTask[o] = "rows"
    /\ pqRow[o] = Len(parquetGroups[o])
    /\ pqTask' = [pqTask EXCEPT ![o] = "done"]
    /\ UNCHANGED <<poolErr, poolVars, events, pqRow>>
    /\ Frame

-----------------------------------------------------------------------------
AllParquetDone == \A o \in Groups : pqTask[o] = "done"

(* group.Wait and the return. *)
Return ==
    /\ AllParquetDone
    /\ AllJsonDone
    /\ ReturnWith(poolErr)
    /\ UNCHANGED <<parquetGroups, pqVars>>

Step ==
    \/ Classify \/ StartGroup \/ Return
    \/ \E o \in Names : \/ SubmitParquet(o) \/ Download(o)
                        \/ CopyRow(o) \/ FinishParquet(o)
    \/ \E k \in DOMAIN jsonItems : RepoSubmitJson(k)
    \/ \E i \in Positions : RepoJsonTask(i)

Next == Step \/ ((CallerCancels \/ Finished) /\ UNCHANGED <<parquetGroups, pqVars>>)

Spec == Init /\ [][Next]_vars

(* Goroutines are scheduled and a GetObject in flight returns. *)
FairSpec == Spec /\ WF_vars(Step)

-----------------------------------------------------------------------------
TypeOK ==
    /\ ListTypeOK
    /\ parquetGroups \in [Names -> Seq([idx : Positions, bucket : Buckets])]
    /\ pqTask \in [Names -> {"idle", "download", "rows", "done"}]
    /\ pqRow \in [Names -> Nat]

(* Once the call has returned no task of it still runs: the slice the      *)
(* caller holds is not written behind its back.                            *)
Quiescent == pc = "done" => RunningParquet = {} /\ RunningJson = {}

(* A row is read from the file its own reference names: the bucket of its  *)
(* s3:// URI, or the configured bucket when it has none.                   *)
OwnBucket ==
    result.state = "ok" =>
        \A i \in Positions : IsParquetRef(indexes[i]) =>
            result.events[i].data[1] = BucketOf(store, indexes[i])
=============================================================================
