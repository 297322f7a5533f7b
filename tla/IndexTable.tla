----------------------------- MODULE IndexTable -----------------------------
(***************************************************************************)
(* The cloud_event table and what eventrepo's queries select from it.      *)
(*                                                                         *)
(* A row is what the index stores of one event.  The columns kept are      *)
(* those a query can filter on, order by, or void; source, producer, data  *)
(* version, extras and id are all filtered the way type is.  Options are   *)
(* AdvancedSearchOptions whose fields have an In list only, which is what  *)
(* the GraphQL filter and the plain SearchOptions are converted to; the    *)
(* empty set is a field that was not given.                                *)
(***************************************************************************)
EXTENDS Naturals, Sequences, FiniteSets, FiniteSetsExt

CONSTANTS
    Subjects,      \* subject DIDs
    Sources,       \* event sources
    Ids,           \* event ids, unique per source only
    Types,         \* event types
    Tombstone,     \* the type dimo.tombstone
    NoId,          \* the empty voids_id
    Times,         \* event times
    NoTime,        \* an After or Before that was not given
    MaxQueryLimit  \* maxQueryLimit: rows per query

ASSUME TableAssumption ==
    /\ Tombstone \in Types
    /\ NoId \notin Ids
    /\ Times \subseteq Nat
    /\ NoTime \notin Times
    /\ MaxQueryLimit \in Nat \ {0}

Row == [subject : Subjects, source : Sources, id : Ids, type : Types,
        time : Times, voids : Ids \cup {NoId}]

Options == [subject : SUBSET Subjects, type : SUBSET Types,
            after : Times \cup {NoTime}, before : Times \cup {NoTime},
            asc : BOOLEAN]

-----------------------------------------------------------------------------
(* The WHERE clause. *)

In(allowed, value) == allowed # {} => value \in allowed

(* AdvancedSearchOptionsToQueryMod: both time bounds are strict. *)
Matches(o, r) ==
    /\ o.after # NoTime => r.time > o.after
    /\ o.before # NoTime => r.time < o.before
    /\ In(o.type, r.type)
    /\ In(o.subject, r.subject)

(* voidsSuppressionMod: (source, id) is among the (source, voids_id) of     *)
(* the tombstones of the requested subjects, whichever of them they are    *)
(* of.  The subquery ignores every other filter.  Without a subject there  *)
(* is no suppression.                                                      *)
Suppressed(table, o, r) ==
    \E t \in table :
        /\ t.subject \in o.subject
        /\ t.type = Tombstone
        /\ t.voids # NoId
        /\ t.source = r.source
        /\ t.voids = r.id

Selected(table, o, deleted) ==
    {r \in table : Matches(o, r) /\ (deleted \/ ~Suppressed(table, o, r))}

-----------------------------------------------------------------------------
(* ORDER BY and LIMIT. *)

Before(o, r, s) == IF o.asc THEN r.time < s.time ELSE r.time > s.time

(* The pages a query may answer with: ORDER BY says nothing about rows of  *)
(* one time.                                                               *)
IsPage(page, selected, o, limit) ==
    LET n == Len(page)
    IN  /\ \A i \in 1..n : page[i] \in selected
        /\ \A i, k \in 1..n : i < k => page[i] # page[k] /\ ~Before(o, page[k], page[i])
        /\ n <= limit
        /\ \A r \in selected \ {page[i] : i \in 1..n} :
               n = limit /\ \A i \in 1..n : ~Before(o, r, page[i])

Clamp(limit) ==
    IF limit <= 0 THEN 1 ELSE IF limit > MaxQueryLimit THEN MaxQueryLimit ELSE limit

-----------------------------------------------------------------------------
(* GROUP BY type. *)

Summary(selected, type) ==
    LET group == {r \in selected : r.type = type}
        times == {r.time : r \in group}
    IN  [type |-> type, count |-> Cardinality(group),
         first |-> Min(times), last |-> Max(times)]

Summaries(selected) == {Summary(selected, r.type) : r \in selected}

-----------------------------------------------------------------------------
(* What the comments promise: a tombstone voids the events of its own      *)
(* source and its own subject.                                             *)
Voided(table, r) ==
    \E t \in table : /\ t.type = Tombstone
                     /\ t.voids = r.id
                     /\ t.source = r.source
                     /\ t.subject = r.subject

Live(table, o, deleted) ==
    {r \in table : Matches(o, r) /\ (deleted \/ ~Voided(table, r))}
=============================================================================
