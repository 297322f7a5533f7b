---------------------------- MODULE MCRpcServer ----------------------------
(***************************************************************************)
(* RpcServer with two buckets for JSON objects and one for parquet files,  *)
(* three rows (a JSON object, and blob events with a JSON object and with  *)
(* a parquet row), and objects that come and go; the transport works or    *)
(* not.  One of the two places of the JSON object has a base64 payload.    *)
(*                                                                         *)
(* A behaviour is one of the service, or one of an event that goes to and  *)
(* fro in its messages (ProtoConvert): the two share no state, so they are *)
(* not interleaved.                                                        *)
(***************************************************************************)
EXTENDS RpcServer, MCProtoConvert

CONSTANTS raw, ephemeral, lake, json, blobbed, file, h1, h2

MCBuckets == {raw, ephemeral, lake}
MCNames == {json, blobbed, file}
MCOrder == <<raw, ephemeral>>
MCRows == {0, 1}

RefTo(kind, name, row, hdr, blob) ==
    [kind |-> kind, bucket |-> NoBucket, name |-> name, row |-> row, hdr |-> hdr,
     blob |-> blob]

MCInserts == {RefTo("json", json, 0, h1, FALSE), RefTo("json", blobbed, 0, h2, TRUE),
              RefTo("parquet", file, 1, h1, TRUE)}

(* Of some objects, the blob's among them, nothing can be read. *)
MCInitStore ==
    [present : {{<<ephemeral, json>>, <<lake, file>>, <<raw, blobbed>>}},
     readable : {{<<ephemeral, json, 0>>, <<raw, json, 0>>, <<lake, file, 1>>,
                  <<raw, blobbed, 0>>},
                 {<<raw, json, 0>>, <<lake, file, 1>>}},
     parquetBucket : {lake}, flaky : BOOLEAN]

MCBase64 == {<<ephemeral, json, 0>>}

MCObjects == {<<raw, json>>, <<ephemeral, json>>, <<lake, file>>}
MCRequests == {{h1}, {h1, h2}}

-----------------------------------------------------------------------------
NoTrip ==
    event = None /\ wire = None /\ trips = 0 /\ first = None /\ sent = None

MessageInit == RpcInit /\ (NoTrip \/ TripInit)

Service == NoTrip /\ RpcNext /\ UNCHANGED tripVars
Trip == ~NoTrip /\ TripNext /\ UNCHANGED rpcVars
TripsOver == trips = MaxTrips /\ wire = None /\ UNCHANGED <<rpcVars, tripVars>>

MessageSpec ==
    MessageInit /\ [][Service \/ Trip \/ TripsOver]_<<rpcVars, tripVars>>
=============================================================================
