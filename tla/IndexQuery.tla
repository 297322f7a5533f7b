----------------------------- MODULE IndexQuery -----------------------------
(***************************************************************************)
(* eventrepo over an index that changes: StoreObject writes an object and  *)
(* then its row, another service ingests events and tombstones, and a      *)
(* client goes on querying with one options object.                        *)
(*                                                                         *)
(* A query is one statement of the database and sees one state of the      *)
(* table; reading the event of a row is a later step.                      *)
(***************************************************************************)
EXTENDS IndexTable, Integers

CONSTANTS
    Uploads,    \* the headers StoreObject is called with
    Ingested,   \* the rows another service may insert
    Requests,   \* the options a client may start with
    Limits      \* the limits it asks for

ASSUME QueryAssumption ==
    /\ Uploads \subseteq Row
    /\ Ingested \subseteq Row \ Uploads
    /\ Requests \subseteq Options
    /\ Limits \subseteq Int
    /\ \A h \in Uploads : h.voids = NoId

VARIABLES
    rows,      \* the table
    objects,   \* the keys of the objects in the bucket
    upload,    \* where the StoreObject call of each header stands
    asked,     \* the options as the client wrote them
    opts,      \* the object that holds them, passed to every call
    reply      \* the answer to the last query

table == <<rows, objects, upload>>
vars == <<rows, objects, upload, asked, opts, reply>>

(* chindexer.CloudEventToObjectKey. *)
ObjectKey(r) == <<r.subject, r.time, r.type, r.source, r.id>>

NoErr == "none"

NoReply == [call |-> "none", deleted |-> TRUE, limit |-> 1, page |-> <<>>,
            summaries |-> {}, err |-> NoErr, seen |-> {}]

Init ==
    /\ rows = {}
    /\ objects = {}
    /\ upload = [h \in Uploads |-> "idle"]
    /\ asked \in Requests
    /\ opts = asked
    /\ reply = NoReply

-----------------------------------------------------------------------------
(* The table fills. *)

(* Another service inserts a row. *)
Ingest(r) ==
    /\ rows' = rows \cup {r}
    /\ UNCHANGED <<objects, upload, asked, opts, reply>>

(* StoreObject, also called again after an attempt that failed. *)
PutObject(h) ==
    /\ upload[h] \in {"idle", "failed"}
    /\ objects' = objects \cup {ObjectKey(h)}
    /\ upload' = [upload EXCEPT ![h] = "put"]
    /\ UNCHANGED <<rows, asked, opts, reply>>

(* Mutant of PutFails: the error of PutObject is dropped. *)
PutErrorDropped(h) ==
    /\ upload[h] \in {"idle", "failed"}
    /\ objects' \in {objects, objects \cup {ObjectKey(h)}}
    /\ upload' = [upload EXCEPT ![h] = "put"]
    /\ UNCHANGED <<rows, asked, opts, reply>>

(* The caller sees an error; the object may have arrived all the same. *)
PutFails(h) ==
    /\ upload[h] \in {"idle", "failed"}
    /\ objects' \in {objects, objects \cup {ObjectKey(h)}}
    /\ upload' = [upload EXCEPT ![h] = "failed"]
    /\ UNCHANGED <<rows, asked, opts, reply>>

InsertRow(h) ==
    /\ upload[h] = "put"
    /\ rows' = rows \cup {h}
    /\ upload' = [upload EXCEPT ![h] = "stored"]
    /\ UNCHANGED <<objects, asked, opts, reply>>

(* Likewise for the row; or the process stops between the two writes. *)
InsertFails(h) ==
    /\ upload[h] = "put"
    /\ rows' \in {rows, rows \cup {h}}
    /\ upload' = [upload EXCEPT ![h] = "failed"]
    /\ UNCHANGED <<objects, asked, opts, reply>>

-----------------------------------------------------------------------------
(* The client queries. *)

Answer(call, deleted, limit, page, summaries, err) ==
    /\ reply' = [call |-> call, deleted |-> deleted, limit |-> limit, page |-> page,
                 summaries |-> summaries, err |-> err, seen |-> rows]
    /\ UNCHANGED <<table, asked>>

(* ListIndexesAdvanced with the options o: a page, ErrNoRows when nothing  *)
(* was selected, or the database's own error.                              *)
Query(call, deleted, limit, o) ==
    LET selected == Selected(rows, o, deleted)
    IN  \/ \E n \in 0..Clamp(limit) : \E page \in [1..n -> selected] :
              /\ IsPage(page, selected, o, Clamp(limit))
              /\ Answer(call, deleted, limit, page, {},
                        IF n = 0 THEN "NoRows" ELSE NoErr)
        \/ Answer(call, deleted, limit, <<>>, {}, "Other")

ListIndexes(limit, deleted) ==
    /\ Query("list", deleted, limit, opts)
    /\ UNCHANGED opts

(* GetLatestIndexAdvanced forces the descending order in a clone, so that  *)
(* the caller's object keeps its own.  Mutants: the order is not forced;   *)
(* it is forced, or unset, in the caller's object.                         *)
LatestOptsAsGiven(o) == o
LatestOpts(o) == [o EXCEPT !.asc = FALSE]

CallerOptsChanged(o) == [o EXCEPT !.asc = FALSE]
CallerOptsUnset(o) == [o EXCEPT !.asc = NoTime]
CallerOpts(o) == o

(* call is "latest" for GetLatestIndexAdvanced alone, "locate" when it is  *)
(* the first half of GetLatestCloudEventAdvanced.                          *)
GetLatestIndex(call, deleted) ==
    /\ Query(call, deleted, 1, LatestOpts(opts))
    /\ opts' = CallerOpts(opts)

(* The second half: the object of the row found, when it is read.  The     *)
(* objects of ingested rows are another service's.                         *)
ReadEvent ==
    /\ reply.call = "locate"
    /\ reply.err = NoErr
    /\ LET key == ObjectKey(reply.page[1])
       IN  \E e \in {"Other"} \cup
                   (IF key \in objects THEN {NoErr}
                    ELSE IF reply.page[1] \in Uploads THEN {"NotFound"}
                    ELSE {NoErr, "NotFound"}) :
               reply' = [reply EXCEPT !.call = "event", !.err = e]
    /\ UNCHANGED <<table, asked, opts>>

(* Mutant of GetSummaries: voided events are counted. *)
GetSummariesOfAll(deleted) ==
    /\ Answer("summaries", deleted, 1, <<>>, Summaries(Selected(rows, opts, TRUE)), NoErr)
    /\ UNCHANGED opts

(* GetCloudEventTypeSummariesAdvanced. *)
GetSummaries(deleted) ==
    /\ \/ Answer("summaries", deleted, 1, <<>>,
                 Summaries(Selected(rows, opts, deleted)), NoErr)
       \/ Answer("summaries", deleted, 1, <<>>, {}, "Other")
    /\ UNCHANGED opts

Write ==
    \/ \E r \in Ingested \ rows : Ingest(r)
    \/ \E h \in Uploads :
          PutObject(h) \/ PutFails(h) \/ InsertRow(h) \/ InsertFails(h)

Read ==
    \/ \E deleted \in BOOLEAN :
          \/ \E limit \in Limits : ListIndexes(limit, deleted)
          \/ \E call \in {"latest", "locate"} : GetLatestIndex(call, deleted)
          \/ GetSummaries(deleted)
    \/ ReadEvent

Next == Write \/ Read

Spec == Init /\ [][Next]_vars

-----------------------------------------------------------------------------
(* Types. *)
TypeOK ==
    /\ rows \subseteq Uploads \cup Ingested
    /\ objects \subseteq {ObjectKey(h) : h \in Uploads}
    /\ upload \in [Uploads -> {"idle", "put", "stored", "failed"}]
    /\ asked \in Requests
    /\ opts \in Options
    /\ reply.call \in {"none", "list", "latest", "locate", "event", "summaries"}
    /\ reply.err \in {NoErr, "NoRows", "NotFound", "Other"}
    /\ reply.deleted \in BOOLEAN
    /\ reply.limit \in Int
    /\ reply.seen \subseteq rows
    /\ \A i \in 1..Len(reply.page) : reply.page[i] \in reply.seen

(* Suppression compares with tombstones of all requested subjects at once, *)
(* so its promise is stated for one subject; every caller that asks for    *)
(* suppression (internal/graph) asks for one.                              *)
PerSubject(o, deleted) == deleted \/ \E s \in Subjects : o.subject = {s}

Judged(call) ==
    /\ reply.call \in call
    /\ reply.err \in {NoErr, "NoRows"}
    /\ PerSubject(asked, reply.deleted)

(* A list is a page of the events its client asked for, in the order it    *)
(* asked for, without those voided by a tombstone of their own subject     *)
(* and without any others missing, whatever other calls were made with     *)
(* the same options object before.                                         *)
ListIsExact ==
    Judged({"list"}) =>
        LET live == Live(reply.seen, asked, reply.deleted)
        IN  /\ IsPage(reply.page, live, asked, Clamp(reply.limit))
            /\ reply.err = "NoRows" <=> live = {}

(* The latest index is the newest live event, in whichever order the       *)
(* client's options sort.                                                  *)
LatestIsNewest ==
    Judged({"latest", "locate"}) =>
        LET live == Live(reply.seen, asked, reply.deleted)
        IN  IF live = {} THEN reply.err = "NoRows"
            ELSE /\ reply.err = NoErr
                 /\ reply.page[1] \in live
                 /\ \A r \in live : r.time <= reply.page[1].time

(* The summaries count exactly the live events and name their time range.  *)
SummariesAreExact ==
    Judged({"summaries"}) =>
        LET live == Live(reply.seen, asked, reply.deleted)
        IN  /\ {s.type : s \in reply.summaries} = {r.type : r \in live}
            /\ \A s \in reply.summaries :
                   LET group == {r \in live : r.type = s.type}
                   IN  /\ s.count = Cardinality(group)
                       /\ {s.first, s.last} \subseteq {r.time : r \in group}
                       /\ \A r \in group : s.first <= r.time /\ r.time <= s.last

(* A row of StoreObject is never in the table without its object, through  *)
(* failures, stops and repeated attempts: a client that finds the row in   *)
(* the index is not told that the object is missing.                       *)
StoredIsReadable ==
    reply.call = "event" /\ reply.page[1] \in Uploads => reply.err # "NotFound"

(* voidsSuppressionMod's comment, for any options: a row is hidden only by *)
(* a tombstone "for the same subject".  The code does not compare the      *)
(* subjects of the row and of the tombstone.                               *)
OwnTombstones ==
    reply.call = "list" /\ reply.err \in {NoErr, "NoRows"}
      /\ Len(reply.page) < Clamp(reply.limit) =>
        \A r \in Live(reply.seen, asked, reply.deleted) :
            \E i \in 1..Len(reply.page) : reply.page[i] = r
=============================================================================
