----------------------------- MODULE EventStore -----------------------------
(***************************************************************************)
(* What the fetch paths read and return: index references, the object      *)
(* store, the outcome of one GetObject call, and the result of a batch.    *)
(*                                                                         *)
(* Payloads are abstracted to their provenance: the record <<bucket, name, *)
(* row>> of the store they were read from.  A JSON object is row 0 of the  *)
(* object that bears its name.  That is all the properties tell apart:     *)
(* whether a caller was handed the bytes its own index points to.          *)
(***************************************************************************)
EXTENDS Naturals, Sequences

CONSTANTS
    Buckets,   \* the S3 buckets
    Names,     \* object names (S3 keys), of parquet files and of JSON objects
    Rows,      \* row offsets inside an object
    Headers,   \* cloud event headers as the index stores them
    NoBucket,  \* the empty bucket name
    NoData,    \* the payload of a header-only event
    NoEvent    \* the zero RawEvent an events slot holds before it is written

Record == Buckets \X Names \X Rows

Event == [hdr : Headers \cup Record, data : Record \cup {NoData}]

ASSUME StoreAssumption ==
    /\ Rows \subseteq Nat
    /\ 0 \in Rows
    /\ NoBucket \notin Buckets
    /\ NoData \notin Record
    /\ NoEvent \notin Event

-----------------------------------------------------------------------------
(* Index references: cloudevent.CloudEvent[ObjectInfo]. *)

(* kind says what parquet.IsParquetRef and parquet.ParseIndexKey make of   *)
(* Data.Key; blob says that Data.DataIndexKey is not empty.                *)
Ref == [kind   : {"json", "parquet", "malformed"},
        bucket : Buckets \cup {NoBucket},
        name   : Names,
        row    : Rows,
        hdr    : Headers,
        blob   : BOOLEAN]

IsParquetRef(ref) == ref.kind # "json"

(* The object store, and the part of the service's configuration that      *)
(* decides what can be read from it.  A present object without a readable  *)
(* row 0 is corrupt, or larger than maxObjectSize.                         *)
Store == [present       : SUBSET (Buckets \X Names),
          readable      : SUBSET Record,
          parquetBucket : Buckets \cup {NoBucket},
          flaky         : BOOLEAN]

(* The bucket of the URI, or else the configured parquet bucket. *)
BucketOf(store, ref) ==
    IF ref.bucket # NoBucket THEN ref.bucket ELSE store.parquetBucket

Resolvable(store, ref) ==
    ref.kind = "parquet" /\ BucketOf(store, ref) # NoBucket

-----------------------------------------------------------------------------
(* Reading one object. *)

NoErr == "none"
Errors == {"NotFound", "Canceled", "Other"}

(* The outcomes of downloadS3Object: the object, NoSuchKey, the            *)
(* cancellation of the caller's context (a call in flight may still win    *)
(* the race with it), or a failure of the transport.                       *)
GetObject(store, bucket, name, cancelled) ==
    {IF <<bucket, name>> \in store.present THEN NoErr ELSE "NotFound"}
        \cup (IF cancelled THEN {"Canceled"} ELSE {})
        \cup (IF store.flaky THEN {"Other"} ELSE {})

(* What the store makes of a record when nothing is cancelled and the      *)
(* transport works.                                                        *)
Fault(store, bucket, name, row) ==
    IF <<bucket, name>> \notin store.present THEN "NotFound"
    ELSE IF <<bucket, name, row>> \notin store.readable THEN "Other"
    ELSE NoErr

(* A parquet row carries the whole event, header included. *)
RowEvent(bucket, ref) ==
    [hdr  |-> <<bucket, ref.name, ref.row>>,
     data |-> <<bucket, ref.name, ref.row>>]

(* A JSON object supplies the payload only; the header is the index's. *)
JsonEvent(bucket, ref) ==
    [hdr |-> ref.hdr, data |-> <<bucket, ref.name, 0>>]

(* The payload of a blob event is served by a presigned URL instead. *)
HeaderOnly(ref) == [hdr |-> ref.hdr, data |-> NoData]

(* eventrepo.Service.GetCloudEventFromIndex on a JSON reference: a blob     *)
(* event is header-only without touching the store, any other is           *)
(* downloaded and its payload decoded.                                     *)
ReadJson(store, bucket, ref, cancelled) ==
    IF ref.blob THEN {[err |-> NoErr, data |-> NoData]}
    ELSE {IF e # NoErr THEN [err |-> e, data |-> NoData]
          ELSE IF <<bucket, ref.name, 0>> \notin store.readable
               THEN [err |-> "Other", data |-> NoData]
               ELSE [err |-> NoErr, data |-> <<bucket, ref.name, 0>>] :
            e \in GetObject(store, bucket, ref.name, cancelled)}

(***************************************************************************)
(* Two indexes may share a store object.  A batch is consistent when they  *)
(* agree on what reading it means: parquet references of one object key on *)
(* its bucket, JSON references of one key on whether their payload was     *)
(* externalised.                                                           *)
(***************************************************************************)
Consistent(store, indexes) ==
    \A i, j \in DOMAIN indexes :
        LET r == indexes[i]
            s == indexes[j]
        IN  r.name = s.name /\ IsParquetRef(r) = IsParquetRef(s) =>
                IF IsParquetRef(r) THEN BucketOf(store, r) = BucketOf(store, s)
                                   ELSE r.blob = s.blob

-----------------------------------------------------------------------------
(* The result of a batch call: events, or an error and no events. *)

Pending == [state |-> "pending", events |-> <<>>, err |-> NoErr]
Delivered(evs) == [state |-> "ok", events |-> evs, err |-> NoErr]
Failed(e) == [state |-> "failed", events |-> <<>>, err |-> e]
=============================================================================
