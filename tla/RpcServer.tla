----------------------------- MODULE RpcServer -----------------------------
(***************************************************************************)
(* internal/fetch/rpc: the gRPC service, as one client sees it.            *)
(*                                                                         *)
(* A handler queries the index, reads the events of the rows it found, or  *)
(* does one after the other; a client that lists indexes and reads events  *)
(* later makes two calls.  Meanwhile another service inserts rows, and     *)
(* objects appear in the store and vanish from it.  The query is one       *)
(* statement; reading the events is BatchFetch, here taken to read the     *)
(* store at the moment it returns.                                         *)
(*                                                                         *)
(* Advanced and plain options select rows alike (IndexTable says which);   *)
(* here a request names the headers it wants.  What a message keeps of a   *)
(* header is ProtoConvert's; of the payload, it is here.                   *)
(***************************************************************************)
EXTENDS EventStore, Integers, FiniteSetsExt

CONSTANTS
    buckets,      \* the server's buckets, in order
    InitStore,    \* the stores considered
    Inserts,      \* rows that may be inserted
    MaxRows,      \* bound: rows in the table
    Objects,      \* objects that may appear and vanish
    Requests,     \* sets of wanted headers
    Limits,       \* limits asked for (any int32)
    Base64        \* the records that have their payload in data_base64

ASSUME RpcAssumption ==
    /\ buckets \in Seq(Buckets) /\ buckets # <<>>
    /\ InitStore \subseteq Store
    /\ Inserts \subseteq Ref
    /\ MaxRows \in Nat
    /\ Objects \subseteq Buckets \X Names
    /\ Requests \subseteq SUBSET Headers
    /\ Limits \subseteq Int
    /\ Base64 \subseteq Record

VARIABLES
    rows,       \* the index, newest first
    store,      \* the object store
    listed,     \* the rows of the client's last listing
    held,       \* that listing, as it reached the client
    call,       \* the call being served
    pc,         \* where its handler stands: "idle", "query" or "fetch"
    cancelled,  \* whether its context is done
    indexes,    \* the indexes the handler goes on to read
    fetched,    \* what reading them returned
    reply       \* the answer to the last call

world == <<rows, store>>
client == <<listed, held>>
rpcVars == <<world, client, call, pc, cancelled, indexes, fetched, reply>>

LatestIndex == "GetLatestIndex"
ListIndexes == "ListIndexes"
ListEvents == "ListCloudEvents"
LatestEvent == "GetLatestCloudEvent"
FromIndexes == "ListCloudEventsFromIndex"

Latest == {LatestIndex, LatestEvent}
Queries == {LatestIndex, ListIndexes, ListEvents, LatestEvent}
Methods == Queries \cup {FromIndexes}

NoReply == [code |-> "none", events |-> <<>>, indexes |-> <<>>]
Status(code) == [NoReply EXCEPT !.code = code]

(* The requests.  Those for the latest have no limit, and the one for      *)
(* given indexes no options; its indexes are the ones the client holds.    *)
GetLatestIndexRequest == [method : {LatestIndex}, limit : {0}, hdrs : Requests]
GetLatestCloudEventRequest == [method : {LatestEvent}, limit : {0}, hdrs : Requests]
ListIndexesRequest == [method : {ListIndexes}, limit : Limits, hdrs : Requests]
ListCloudEventsRequest == [method : {ListEvents}, limit : Limits, hdrs : Requests]
ListCloudEventsFromKeysRequest == [method : {FromIndexes}, limit : {0}, hdrs : {{}}]

Calls ==
    GetLatestIndexRequest \cup GetLatestCloudEventRequest \cup ListIndexesRequest
        \cup ListCloudEventsRequest \cup ListCloudEventsFromKeysRequest

-----------------------------------------------------------------------------
(* Reading events. *)

Holders(ref) == {n \in DOMAIN buckets : <<buckets[n], ref.name>> \in store.present}

(* GetCloudEventFromIndex looks for a blob first; the batch only when a    *)
(* reference is not a parquet one.                                         *)
IsHeaderOnly(ref) == ref.blob /\ (IsParquetRef(ref) => call.method = LatestEvent)

(* fetch tries the buckets in order for a JSON object. *)
PlaceOf(ref) ==
    IF IsParquetRef(ref) THEN BucketOf(store, ref) ELSE buckets[Min(Holders(ref))]

FaultOf(ref) ==
    IF IsHeaderOnly(ref) THEN NoErr
    ELSE IF IsParquetRef(ref)
    THEN IF Resolvable(store, ref) THEN Fault(store, PlaceOf(ref), ref.name, ref.row)
                                   ELSE "Other"
    ELSE IF Holders(ref) = {} THEN "NotFound"
    ELSE Fault(store, PlaceOf(ref), ref.name, 0)

(* Mutant: the objects of blob events are downloaded in one call, too. *)
EventOfDownloaded(ref) ==
    IF IsParquetRef(ref) THEN RowEvent(PlaceOf(ref), ref)
                         ELSE JsonEvent(PlaceOf(ref), ref)

EventOf(ref) ==
    IF IsHeaderOnly(ref) THEN HeaderOnly(ref)
    ELSE IF IsParquetRef(ref) THEN RowEvent(PlaceOf(ref), ref)
    ELSE JsonEvent(PlaceOf(ref), ref)

Asked(ref) == [event |-> IF FaultOf(ref) = NoErr THEN EventOf(ref) ELSE NoEvent,
               fault |-> FaultOf(ref)]

Batch == INSTANCE BatchFetch WITH
    request <- [i \in DOMAIN indexes |-> Asked(indexes[i])],
    flaky <- store.flaky, result <- fetched

-----------------------------------------------------------------------------
(* Indexes on the wire.  ObjectInfo has one field, the key.                *)

(* Mutant: the key of the externalised payload is sent, too. *)
ToProtoWithBlob(ref) == ref
ToProto(ref) == [ref EXCEPT !.blob = FALSE]

(* Mutant: the server looks the rows up again. *)
FromProtoAgain(message) ==
    IF message # <<>> /\ Len(rows) >= Len(message) THEN SubSeq(rows, 1, Len(message))
    ELSE message
FromProto(message) == message

(* An index as a message, and what the methods answer with.                *)
CloudEventIndex == {ref \in Ref : ~ref.blob}
GetLatestIndexResponse == [code : {"OK"}, events : {<<>>}, indexes : [{1} -> CloudEventIndex]]
ListIndexesResponse == [code : {"OK"}, events : {<<>>}, indexes : Seq(CloudEventIndex)]
GetLatestCloudEventResponse == [code : {"OK"}, events : [{1} -> Event], indexes : {<<>>}]
ListCloudEventsResponse == [code : {"OK"}, events : Seq(Event), indexes : {<<>>}]
ListCloudEventsFromKeysResponse == [code : {"OK"}, events : Seq(Event), indexes : {<<>>}]

Response == [method \in Methods |->
    CASE method = LatestIndex -> GetLatestIndexResponse
      [] method = ListIndexes -> ListIndexesResponse
      [] method = LatestEvent -> GetLatestCloudEventResponse
      [] method = ListEvents -> ListCloudEventsResponse
      [] method = FromIndexes -> ListCloudEventsFromKeysResponse]

(* The rows with a wanted header among the first n, in order.              *)
Wanted[n \in 0..Len(rows)] ==
    IF n = 0 THEN <<>>
    ELSE IF rows[n].hdr \in call.hdrs THEN Append(Wanted[n - 1], rows[n])
    ELSE Wanted[n - 1]

(* The rows the query answers with.  Every limit is clamped below by 1; the *)
(* clamp from above is IndexTable's. *)
Matching ==
    LET limit == IF call.method \in Latest \/ call.limit < 1 THEN 1 ELSE call.limit
        found == Wanted[Len(rows)]
    IN  SubSeq(found, 1, IF limit < Len(found) THEN limit ELSE Len(found))

-----------------------------------------------------------------------------
RpcInit ==
    /\ rows = <<>>
    /\ store \in InitStore
    /\ listed = <<>> /\ held = <<>>
    /\ call = [method |-> FromIndexes, limit |-> 0, hdrs |-> {}]
    /\ pc = "idle"
    /\ cancelled = FALSE
    /\ indexes = <<>>
    /\ fetched = Pending
    /\ reply = NoReply

(* The world changes. *)
Insert(r) ==
    /\ Len(rows) < MaxRows
    /\ rows' = <<r>> \o rows
    /\ UNCHANGED <<store, client, call, pc, cancelled, indexes, fetched, reply>>

(* An object appears, or vanishes (the ephemeral bucket expires its own).  *)
Change(object) ==
    /\ store' = [store EXCEPT !.present =
                   IF object \in @ THEN @ \ {object} ELSE @ \cup {object}]
    /\ UNCHANGED <<rows, client, call, pc, cancelled, indexes, fetched, reply>>

(* The client calls. *)
Ask(c) ==
    /\ pc = "idle"
    /\ call' = c
    /\ pc' = IF c.method = FromIndexes THEN "fetch" ELSE "query"
    /\ cancelled' = FALSE
    /\ indexes' = IF c.method = FromIndexes THEN FromProto(held) ELSE <<>>
    /\ fetched' = Pending
    /\ reply' = NoReply
    /\ UNCHANGED <<world, client>>

(* The client goes away, or its deadline passes. *)
Cancel ==
    /\ pc # "idle" /\ ~cancelled
    /\ cancelled' = TRUE
    /\ UNCHANGED <<world, client, call, pc, indexes, fetched, reply>>

(* The query finds nothing, which is sql.ErrNoRows, or fails.              *)
QueryFails ==
    /\ pc = "query"
    /\ \/ Matching = <<>> /\ reply' = Status("NotFound")
       \/ reply' = Status("Internal")
    /\ pc' = "idle"
    /\ UNCHANGED <<world, client, call, cancelled, indexes, fetched>>

(* An index method answers with the rows' keys and headers.                *)
AnswerIndexes ==
    /\ pc = "query" /\ call.method \in {LatestIndex, ListIndexes}
    /\ Matching # <<>>
    /\ listed' = Matching
    /\ held' = [i \in DOMAIN listed' |-> ToProto(listed'[i])]
    /\ reply' = [Status("OK") EXCEPT !.indexes = held']
    /\ pc' = "idle"
    /\ UNCHANGED <<world, call, cancelled, indexes, fetched>>

(* An event method goes on to read the rows.                               *)
FoundIndexes ==
    /\ pc = "query" /\ call.method \in {ListEvents, LatestEvent}
    /\ Matching # <<>>
    /\ indexes' = Matching
    /\ pc' = "fetch"
    /\ UNCHANGED <<world, client, call, cancelled, fetched, reply>>

(* Mutant: a missing object is NotFound whichever method was called. *)
StatusOfMissing(method, err) ==
    Status(IF err = "NotFound" THEN "NotFound" ELSE "Internal")
StatusOf(method, err) ==
    Status(IF method = FromIndexes /\ err = "NotFound" THEN "NotFound" ELSE "Internal")

(* CloudEventToProto: a message has no field for a base64 payload, so it   *)
(* is sent without.                                                        *)
EventToProto(event) ==
    IF event.data \in Base64 THEN [event EXCEPT !.data = NoData] ELSE event

AnswerEvents ==
    /\ pc = "fetch"
    /\ UNCHANGED <<world, client, call, cancelled, indexes>>
    /\ Batch!Return
    /\ reply' = IF fetched'.state = "ok"
                THEN [Status("OK") EXCEPT !.events =
                        [i \in DOMAIN fetched'.events |-> EventToProto(fetched'.events[i])]]
                ELSE StatusOf(call.method, fetched'.err)
    /\ pc' = "idle"

Handle == QueryFails \/ AnswerIndexes \/ FoundIndexes \/ AnswerEvents

World == (\E r \in Inserts : Insert(r)) \/ (\E object \in Objects : Change(object))

RpcNext == World \/ (\E c \in Calls : Ask(c)) \/ Cancel \/ Handle

RpcSpec == RpcInit /\ [][RpcNext]_rpcVars

-----------------------------------------------------------------------------
(* Properties. *)

(* Types; an answer is of the type of the method that was called, and the  *)
(* latest ones answer with one index, or one event.                        *)
TypeOK ==
    /\ rows \in Seq(Ref) /\ store \in Store
    /\ listed \in Seq(Ref) /\ held \in Seq(CloudEventIndex) /\ indexes \in Seq(Ref)
    /\ call \in Calls
    /\ pc \in {"idle", "query", "fetch"}
    /\ cancelled \in BOOLEAN
    /\ reply \in {NoReply, Status("NotFound"), Status("Internal")} \cup Response[call.method]
    /\ pc = "fetch" => fetched = Pending

(* The status of a call names a cause it really had.  In the methods that  *)
(* query, NotFound says that no row matched: a row whose object is missing *)
(* is Internal there, so a client that is told NotFound may take it that   *)
(* the index has no such event.  In ListCloudEventsFromIndex, whichever of *)
(* several failing reads was kept, NotFound says that an object is missing *)
(* and Internal that something else went wrong.                            *)
NotFoundMeansNoRows ==
    call.method \in Queries /\ reply'.code = "NotFound" /\ reply # reply' =>
        pc = "query" /\ Matching = <<>>

FailureMeansFault ==
    pc = "fetch" /\ pc' = "idle" /\ call.method = FromIndexes =>
        LET faults == {FaultOf(indexes[i]) : i \in DOMAIN indexes}
        IN  /\ reply'.code = "NotFound" => "NotFound" \in faults
            /\ reply'.code = "Internal" => "Other" \in faults \/ store.flaky \/ cancelled
            /\ reply'.code = "OK" => faults \subseteq {NoErr}

StatusNamesCause == [][NotFoundMeansNoRows /\ FailureMeansFault]_rpcVars

(* The two-call protocol pins what it listed: whatever was inserted since, *)
(* the second call answers with the listed events, one each and in order,  *)
(* under the headers the index had for JSON objects then.  Each has the    *)
(* payload of its record, in whichever bucket that was found, unless it is *)
(* in base64: then the client gets the header only.  (Of a blob event the  *)
(* record is what lies under its key, without the payload split out of it.) *)
RecordsOf(ref) ==
    {<<b, ref.name, IF IsParquetRef(ref) THEN ref.row ELSE 0>> : b \in Buckets}

SameRecord(event, ref) ==
    \E record \in RecordsOf(ref) :
        /\ event.hdr = IF IsParquetRef(ref) THEN record ELSE ref.hdr
        /\ event.data = IF record \in Base64 THEN NoData ELSE record

TwoCallsPin ==
    call.method = FromIndexes /\ reply.code = "OK" =>
        /\ Len(reply.events) = Len(listed)
        /\ \A i \in 1..Len(listed) : SameRecord(reply.events[i], listed[i])

(* An event is sent without payload in two cases only, which its receiver  *)
(* cannot tell apart.  A blob event is not read at all by                  *)
(* GetLatestCloudEvent, nor by ListCloudEvents unless it is a parquet row; *)
(* where it is read, the message has what its record holds.  And of any    *)
(* record that was read, a payload in base64 is lost, whatever the method. *)
PayloadsLeftOut ==
    reply.code = "OK" =>
        \A i \in 1..Len(reply.events) :
            reply.events[i].data = NoData <=>
                \/ /\ indexes[i].blob
                   /\ \/ call.method = LatestEvent
                      \/ call.method = ListEvents /\ indexes[i].kind = "json"
                \/ fetched.events[i].data \in Base64
=============================================================================
