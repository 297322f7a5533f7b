----------------------------- MODULE SyncGroups -----------------------------
(***************************************************************************)
(* The two helpers of golang.org/x/sync the fetch paths are built from, as *)
(* the code uses them.                                                     *)
(*                                                                         *)
(* errgroup.WithContext: the first error a task returns is kept, and in    *)
(* the same step (errOnce) the group's context is cancelled; so the        *)
(* context is done exactly when an error is kept or the parent is done.    *)
(* SetLimit makes Go block its caller until a running task has returned.   *)
(*                                                                         *)
(* singleflight.Group: Do attaches the caller to the call in flight for    *)
(* its key, or starts one and leads it.  When the leader's function        *)
(* returns, its result is published and the key forgotten in one step      *)
(* (under the group's mutex); followers pick the result up afterwards.     *)
(***************************************************************************)
EXTENDS Naturals, FiniteSets

(* errgroup: the error kept when a task returns e. *)
FirstError(kept, e, none) == IF kept = none THEN e ELSE kept

(* errgroup: whether Go may start one more task. *)
HasSlot(running, limit) == Cardinality(running) < limit

(* singleflight: no call in flight; calls are named by their leader, a     *)
(* position of the batch, and positions start at 1.                        *)
NoCall == 0

(* singleflight: the call a Do(key) by task i is attached to. *)
CallOf(flight, key, i) == IF flight[key] = NoCall THEN i ELSE flight[key]

(* singleflight: the published result of a call. *)
Unpublished(none, empty) == [done |-> FALSE, err |-> none, data |-> empty]

Published(out) == [done |-> TRUE, err |-> out.err, data |-> out.data]
=============================================================================
