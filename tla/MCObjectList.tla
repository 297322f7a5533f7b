---------------------------- MODULE MCObjectList ----------------------------
(***************************************************************************)
(* ObjectList on batches of up to three keys of every kind, two at a time: *)
(* objects of each size around the limit, with a Content-Length that is    *)
(* right, too large, too small, zero, unknown (-1) or missing.             *)
(***************************************************************************)
EXTENDS ObjectList

CONSTANTS p, j, k, A, B, h

KeyTo(kind, bucket, name, row) ==
    [kind |-> kind, bucket |-> bucket, name |-> name, row |-> row, hdr |-> h, blob |-> FALSE]

Pool == {KeyTo("parquet", B, p, 0), KeyTo("parquet", NoBucket, p, 1), KeyTo("json", NoBucket, j, 0),
         KeyTo("json", NoBucket, k, 0), KeyTo("malformed", NoBucket, p, 0)}

Good == [present |-> {A, B} \X {p, j, k}, readable |-> {A, B} \X {p, j, k} \X {0, 1},
         parquetBucket |-> B, flaky |-> FALSE]

Stores ==
    {Good, [Good EXCEPT !.flaky = TRUE],
     [Good EXCEPT !.present = @ \ {<<A, j>>}, !.readable = @ \ {<<B, p, 1>>}],
     [Good EXCEPT !.present = @ \ {<<B, p>>}],
     [Good EXCEPT !.parquetBucket = NoBucket]}

Call(ks, s, size, len) ==
    [keys |-> ks, store |-> s, bucket |-> A,
     body |-> [n \in Names |-> IF n = j THEN size ELSE 1],
     length |-> [n \in Names |-> IF n = j THEN len ELSE 1]]

Batches(pool, most) == UNION {[1..n -> pool] : n \in 0..most}

(* Every store, with objects of a byte; and every size with every length.  *)
MCInputs ==
    {Call(ks, s, 1, 1) : ks \in Batches(Pool, 3), s \in Stores}
        \cup {Call(ks, s, size, len) :
                ks \in Batches({KeyTo("json", NoBucket, j, 0), KeyTo("parquet", B, p, 0)}, 3),
                s \in {Good},
                size \in 0..(maxObjectSize + 2), len \in -1..(maxObjectSize + 2) \cup {Missing}}
=============================================================================
