---------------------------- MODULE MCFetchList -----------------------------
(***************************************************************************)
(* FetchList on every batch of at most MaxLen references drawn from a      *)
(* pool, with two buckets that hold different objects of one name.         *)
(***************************************************************************)
EXTENDS FetchList

CONSTANTS p, j, k,   \* object names: a parquet file, two JSON objects
          A, B,      \* buckets, tried in this order
          h1, h2,    \* headers
          MaxLen     \* references per batch

Parquet(o, r) == [kind |-> "parquet", bucket |-> A, name |-> o, row |-> r,
                  hdr |-> h1, blob |-> FALSE]
Json(n, h, ext) == [kind |-> "json", bucket |-> NoBucket, name |-> n, row |-> 0,
                    hdr |-> h, blob |-> ext]

Pool == {Parquet(p, 0), Parquet(p, 1), Json(j, h1, FALSE), Json(j, h2, FALSE),
         Json(k, h1, FALSE)}

(* j is in both buckets, k only in the second one. *)
Good == [present  |-> {<<A, p>>, <<A, j>>, <<B, j>>, <<B, k>>},
         readable |-> {<<A, p, 0>>, <<A, p, 1>>, <<A, j, 0>>, <<B, j, 0>>,
                       <<B, k, 0>>},
         parquetBucket |-> A, flaky |-> FALSE]

Stores ==
    {Good,
     [Good EXCEPT !.flaky = TRUE],
     [Good EXCEPT !.present = @ \ {<<A, p>>, <<B, k>>}],
     [Good EXCEPT !.present = @ \ {<<A, j>>, <<B, j>>}],
     [Good EXCEPT !.readable = @ \ {<<A, p, 1>>, <<A, j, 0>>}]}

Batches(pool, n) == UNION {[1..m -> pool] : m \in 0..n}

MCInputs ==
    [indexes : Batches(Pool, MaxLen), store : Stores, buckets : {<<A, B>>}]
        \cup [indexes : Batches({Parquet(p, 0), Json(k, h1, TRUE)}, 2),
              store : Stores, buckets : {<<>>, <<A>>}]
=============================================================================
