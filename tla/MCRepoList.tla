----------------------------- MODULE MCRepoList -----------------------------
(***************************************************************************)
(* RepoList on every batch of at most MaxLen references drawn from a pool  *)
(* that holds each kind of reference, and on stores that differ in one     *)
(* thing that can go wrong.                                                *)
(***************************************************************************)
EXTENDS RepoList

CONSTANTS p, q, j, k,    \* object names: two parquet files, two JSON objects
          A, B,          \* buckets
          h1, h2,        \* headers
          MaxLen         \* references per batch

Parquet(b, o, r) == [kind |-> "parquet", bucket |-> b, name |-> o, row |-> r,
                     hdr |-> h1, blob |-> FALSE]
Json(n, h, ext) == [kind |-> "json", bucket |-> NoBucket, name |-> n, row |-> 0,
                    hdr |-> h, blob |-> ext]
Malformed == [Parquet(NoBucket, p, 0) EXCEPT !.kind = "malformed"]

(* Two rows of p (one through the configured bucket), a row of q, two      *)
(* headers over j, a blob event, and a reference that does not parse.      *)
Pool == {Parquet(A, p, 0), Parquet(NoBucket, p, 1), Parquet(A, q, 0),
         Json(j, h1, FALSE), Json(j, h2, FALSE), Json(k, h1, TRUE), Malformed}

Good == [present |-> {A} \X {p, q, j}, readable |-> {A} \X {p, q, j} \X {0, 1},
         parquetBucket |-> A, flaky |-> FALSE]

Stores ==
    {Good,
     [Good EXCEPT !.flaky = TRUE],
     [Good EXCEPT !.present = @ \ {<<A, p>>}],
     [Good EXCEPT !.present = @ \ {<<A, q>>, <<A, j>>}],
     [Good EXCEPT !.readable = @ \ {<<A, p, 1>>, <<A, j, 0>>}],
     [Good EXCEPT !.parquetBucket = NoBucket]}

Batches(pool) == UNION {[1..n -> pool] : n \in 1..MaxLen}

MCInputs ==
    {in \in [indexes : Batches(Pool), store : Stores, buckets : {<<A>>}] :
        Consistent(in.store, in.indexes)}

(* The same file name in two buckets. *)
TwoBuckets ==
    [indexes : Batches({Parquet(A, p, 0), Parquet(B, p, 0)}),
     store : {[Good EXCEPT !.present = {A, B} \X {p},
                           !.readable = {A, B} \X {p} \X {0}]},
     buckets : {<<A>>}]
=============================================================================
