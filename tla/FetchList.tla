----------------------------- MODULE FetchList ------------------------------
(***************************************************************************)
(* fetch.ListCloudEventsFromIndexes: an outer errgroup of two goroutines.  *)
(* One hands the parquet references to eventrepo, of which only the        *)
(* BatchFetch promise is used here (RepoList implements it); the other     *)
(* runs an inner errgroup over the JSON references (ListCall).             *)
(***************************************************************************)
EXTENDS ListCall

VARIABLES
    parquetPositions,  \* the positions of parquet references, in order
    outerErr,          \* the error the outer errgroup keeps
    pqState,           \* the parquet goroutine: "idle", "run" or "done"
    pqResult,          \* what evtSvc.ListCloudEventsFromIndexes returned
    jsState            \* the JSON goroutine: "idle", "run" or "done"

groupVars == <<outerErr, pqState, pqResult, jsState>>
vars == <<listVars, parquetPositions, groupVars>>

(* errCtx and jsonCtx: done with their parent, or on their group's error. *)
OuterCancelled == ctxDone \/ outerErr # NoErr
JsonCancelled == OuterCancelled \/ poolErr # NoErr

(* evtSvc.ListCloudEventsFromIndexes(errCtx, parquetIndexes, ""). *)
RepoCall == INSTANCE BatchFetch WITH
    request <- [n \in DOMAIN parquetPositions |-> Asked(parquetPositions[n])],
    flaky <- store.flaky, cancelled <- OuterCancelled, result <- pqResult

Init ==
    /\ ListInit
    /\ parquetPositions = <<>>
    /\ outerErr = NoErr
    /\ pqState = "idle"
    /\ pqResult = Pending
    /\ jsState = "idle"

(* An empty batch is answered at once. *)
ReturnEmpty ==
    /\ pc = "classify"
    /\ Positions = {}
    /\ pc' = "done"
    /\ result' = Delivered(<<>>)
    /\ UNCHANGED <<input, ctxDone, next, jsonItems, poolErr, poolVars, events,
                   parquetPositions, groupVars>>

(* The split loop: parquet references and JSON references, by position. *)
Split ==
    /\ pc = "classify"
    /\ next \in Positions
    /\ IF IsParquetRef(indexes[next])
       THEN /\ parquetPositions' = Append(parquetPositions, next)
            /\ UNCHANGED jsonItems
       ELSE /\ jsonItems' = Append(jsonItems, next)
            /\ UNCHANGED parquetPositions
    /\ next' = next + 1
    /\ UNCHANGED <<input, ctxDone, pc, poolErr, poolVars, events, result,
                   groupVars>>

(* The two goroutines start; a side without references has none. *)
Spawn ==
    /\ pc = "classify"
    /\ Positions # {}
    /\ next \notin Positions
    /\ pc' = "run"
    /\ pqState' = IF parquetPositions = <<>> THEN "done" ELSE "run"
    /\ jsState' = IF jsonItems = <<>> THEN "done" ELSE "run"
    /\ UNCHANGED <<input, ctxDone, next, jsonItems, poolErr, poolVars, events,
                   result, parquetPositions, outerErr, pqResult>>

-----------------------------------------------------------------------------
(* What the goroutines leave alone. *)
Frame ==
    UNCHANGED <<input, ctxDone, pc, next, jsonItems, result, parquetPositions>>

OuterFails(e) == outerErr' = FirstError(outerErr, e, NoErr)

RepoReturns ==
    /\ pqState = "run"
    /\ RepoCall!Deliver \/ RepoCall!Fail
    /\ UNCHANGED <<outerErr, pqState, jsState, poolErr, poolVars, events>>
    /\ Frame

(* The position in the batch of the n-th parquet reference. *)
Target(n) == parquetPositions[n]

(* The events are copied to their positions, or the error is returned; no  *)
(* other goroutine looks at these slots, so the loop is one step.          *)
FinishParquet ==
    /\ pqState = "run"
    /\ \/ /\ pqResult.state = "ok"
          /\ LET Sub(i) == {n \in DOMAIN pqResult.events : Target(n) = i}
             IN  events' = [i \in Positions |->
                    IF Sub(i) = {} THEN events[i]
                    ELSE pqResult.events[CHOOSE n \in Sub(i) : TRUE]]
          /\ UNCHANGED outerErr
       \/ /\ pqResult.state = "failed"
          /\ OuterFails(pqResult.err)
          /\ UNCHANGED events
    /\ pqState' = "done"
    /\ UNCHANGED <<pqResult, jsState, poolErr, poolVars>>
    /\ Frame

(* The JSON goroutine submits its tasks, and they run. *)
FetchSubmitJson(k) ==
    /\ jsState = "run"
    /\ SubmitJson(k, HasSlot(RunningJson, Limit))
    /\ UNCHANGED groupVars
    /\ Frame

FetchJsonTask(i) ==
    /\ JsonTask(i, JsonCancelled)
    /\ UNCHANGED groupVars
    /\ Frame

(* jsonGroup.Wait: the goroutine returns the pool's first error. *)
FinishJson ==
    /\ jsState = "run"
    /\ AllJsonDone
    /\ jsState' = "done"
    /\ OuterFails(poolErr)
    /\ UNCHANGED <<pqState, pqResult, poolErr, poolVars, events>>
    /\ Frame

(* group.Wait and the return. *)
Return ==
    /\ pqState = "done"
    /\ jsState = "done"
    /\ ReturnWith(outerErr)
    /\ UNCHANGED <<parquetPositions, groupVars>>

Step ==
    \/ ReturnEmpty \/ Split \/ Spawn \/ Return
    \/ RepoReturns \/ FinishParquet \/ FinishJson
    \/ \E k \in DOMAIN jsonItems : FetchSubmitJson(k)
    \/ \E i \in Positions : FetchJsonTask(i)

Next ==
    \/ Step
    \/ (CallerCancels \/ Finished) /\ UNCHANGED <<parquetPositions, groupVars>>

Spec == Init /\ [][Next]_vars

(* Goroutines are scheduled, a GetObject in flight returns, and so does    *)
(* the call to eventrepo (RepoList, property Completes).                   *)
FairSpec == Spec /\ WF_vars(Step)

-----------------------------------------------------------------------------
TypeOK ==
    /\ ListTypeOK
    /\ parquetPositions \in Seq(Positions)
    /\ outerErr \in Errors \cup {NoErr}
    /\ pqState \in {"idle", "run", "done"}
    /\ pqResult \in Results
    /\ jsState \in {"idle", "run", "done"}

(* Once the call has returned, none of its goroutines is still running, in *)
(* the outer group or in the pool inside it.                               *)
Quiescent ==
    pc = "done" => pqState # "run" /\ jsState # "run" /\ RunningJson = {}
=============================================================================
