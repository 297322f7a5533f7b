---------------------------- MODULE MCIndexQuery ----------------------------
(***************************************************************************)
(* IndexQuery on a table with one voided event, its namesake of another    *)
(* subject, tombstones of the right and of a wrong source, and two         *)
(* events of one time.                                                     *)
(***************************************************************************)
EXTENDS IndexQuery

CONSTANTS s1, s2,      \* subjects
          a, b,        \* sources
          x, y, z,     \* ids
          attestation  \* an event type

Event(s, id, t) == [subject |-> s, source |-> a, id |-> id, type |-> attestation,
                    time |-> t, voids |-> NoId]
Void(s, src, id, t, target) ==
    [subject |-> s, source |-> src, id |-> id, type |-> Tombstone,
     time |-> t, voids |-> target]

MCUploads == {Event(s1, x, 1)}

MCIngested == {Event(s1, y, 1), Event(s2, x, 2),
               Void(s1, a, z, 3, x), Void(s1, b, y, 2, y)}

All == [subject |-> {s1}, type |-> {}, after |-> NoTime, before |-> NoTime,
        asc |-> FALSE]

MCRequests == {All, [All EXCEPT !.asc = TRUE],
               [All EXCEPT !.type = {attestation}, !.asc = TRUE],
               [All EXCEPT !.before = 3, !.after = 1],
               [All EXCEPT !.subject = {}], [All EXCEPT !.subject = {s1, s2}]}

MCLimits == {0, 2, 9}
=============================================================================
