----------------------------- MODULE BatchFetch -----------------------------
(***************************************************************************)
(* What a batch fetch promises its caller, without goroutines, pools or    *)
(* singleflight: all or nothing, every position holding its own event,     *)
(* and an error that is the fault of some position, of the transport, or   *)
(* of the caller's own cancellation -- never of a sibling's.               *)
(***************************************************************************)
EXTENDS EventStore

VARIABLES
    request,    \* per position, the event it names, or the fault of reading it
    flaky,      \* whether the transport to the store may fail
    cancelled,  \* whether the caller's context is done
    result      \* what the call returned, or Pending

batchVars == <<request, flaky, cancelled, result>>

Request == Seq([event : Event \cup {NoEvent}, fault : Errors \cup {NoErr}])

Positions == DOMAIN request

Causes ==
    ({request[i].fault : i \in Positions} \ {NoErr})
        \cup (IF cancelled THEN {"Canceled"} ELSE {})
        \cup (IF flaky THEN {"Other"} ELSE {})

Init ==
    /\ request \in Request
    /\ flaky \in BOOLEAN
    /\ cancelled = FALSE
    /\ result = Pending

CallerCancels ==
    /\ ~cancelled
    /\ cancelled' = TRUE
    /\ UNCHANGED <<request, flaky, result>>

Deliver ==
    /\ result = Pending
    /\ \A i \in Positions : request[i].fault = NoErr
    /\ result' = Delivered([i \in Positions |-> request[i].event])

Fail ==
    /\ result = Pending
    /\ \E e \in Causes : result' = Failed(e)

Return ==
    /\ Deliver \/ Fail
    /\ UNCHANGED <<request, flaky, cancelled>>

Next == CallerCancels \/ Return

Spec == Init /\ [][Next]_batchVars
=============================================================================
