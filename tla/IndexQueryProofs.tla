-------------------------- MODULE IndexQueryProofs --------------------------
(***************************************************************************)
(* What IndexQuery's answers are worth, for every table, every request     *)
(* and every interleaving of writers and queries; and what FilterQuery's   *)
(* are, for every filter however deep and wide.                            *)
(***************************************************************************)
EXTENDS IndexQuery, FilterQuery, SequenceTheorems, WellFoundedInduction, TLAPS

-----------------------------------------------------------------------------
(* The query against its promise. *)

(* For one subject, comparing with the tombstones of the requested         *)
(* subjects is comparing with those of the row's own.                      *)
LEMMA SuppressionIsPerSubject ==
    ASSUME NEW R \in SUBSET Row, NEW o \in Options, NEW deleted \in BOOLEAN,
           PerSubject(o, deleted)
    PROVE  Selected(R, o, deleted) = Live(R, o, deleted)
<1>1. CASE deleted
  BY <1>1 DEF Selected, Live
<1>2. CASE ~deleted
  <2>1. PICK s \in Subjects : o.subject = {s}
    BY <1>2 DEF PerSubject
  <2>2. ASSUME NEW r \in R, Matches(o, r)
        PROVE  Suppressed(R, o, r) <=> Voided(R, r)
    <3>1. r.subject = s
      BY <2>1, <2>2 DEF Matches, In
    <3>2. r.id # NoId
      BY TableAssumption DEF Row
    <3> QED BY <2>1, <3>1, <3>2 DEF Suppressed, Voided
  <2> QED BY <2>2 DEF Selected, Live
<1> QED BY <1>1, <1>2

(* Pages depend on the options through the order only. *)
LEMMA OrderOnly ==
    ASSUME NEW o, NEW p, o.asc = p.asc, NEW page, NEW selected, NEW limit
    PROVE  IsPage(page, selected, o, limit) = IsPage(page, selected, p, limit)
BY DEF IsPage, Before

LEMMA ClampRange ==
    ASSUME NEW limit \in Int
    PROVE  /\ Clamp(limit) \in Nat \ {0}
           /\ limit = 1 => Clamp(limit) = 1
BY TableAssumption DEF Clamp

(* Only a page of nothing is empty: the limit is never zero. *)
LEMMA EmptyPage ==
    ASSUME NEW R, NEW o, NEW limit \in Nat \ {0}, NEW n \in 0..limit,
           NEW page \in [1..n -> R], IsPage(page, R, o, limit)
    PROVE  n = 0 <=> R = {}
<1>1. Len(page) = n /\ DOMAIN page = 1..n
  OBVIOUS
<1>2. CASE n = 0
  <2>1. \A r \in R : limit = 0
    BY <1>1, <1>2 DEF IsPage
  <2> QED BY <1>2, <2>1
<1>3. CASE n # 0
  <2>1. page[1] \in R
    BY <1>3
  <2> QED BY <1>3, <2>1
<1> QED BY <1>2, <1>3

-----------------------------------------------------------------------------
(* The invariant. *)

ReplyShape ==
    reply = [call |-> reply.call, deleted |-> reply.deleted, limit |-> reply.limit,
             page |-> reply.page, summaries |-> reply.summaries, err |-> reply.err,
             seen |-> reply.seen]

(* StoreObject's order: an upload that may insert its row has its object,  *)
(* and so has one whose row is there.                                      *)
ObjectFirst ==
    \A h \in Uploads : upload[h] = "put" \/ h \in rows => ObjectKey(h) \in objects

(* GetLatestCloudEventAdvanced goes on only with a row. *)
Located ==
    reply.call = "locate" /\ reply.err = NoErr => 1 \in 1..Len(reply.page)

Inv ==
    /\ TypeOK
    /\ ReplyShape
    /\ opts = asked
    /\ ObjectFirst
    /\ Located
    /\ ListIsExact
    /\ LatestIsNewest
    /\ StoredIsReadable

LEMMA InitInv == Init => Inv
<1> SUFFICES ASSUME Init PROVE Inv
  OBVIOUS
<1>1. asked \in Options
  BY QueryAssumption DEF Init
<1>2. TypeOK
  BY <1>1 DEF Init, TypeOK, NoReply, NoErr
<1>3. ReplyShape /\ Located
  BY DEF Init, NoReply, ReplyShape, Located
<1>4. ListIsExact /\ LatestIsNewest /\ StoredIsReadable
  BY DEF Init, NoReply, ListIsExact, LatestIsNewest, StoredIsReadable, Judged
<1>5. ObjectFirst
  BY DEF Init, ObjectFirst
<1> QED BY <1>2, <1>3, <1>4, <1>5 DEF Inv, Init

(* The steps that write leave the reply, and what it says, alone.          *)
LEMMA WriteStep == Inv /\ Write => Inv'
<1> SUFFICES ASSUME Inv, Write PROVE Inv'
  OBVIOUS
<1> USE DEF Inv
<1>1. UNCHANGED <<asked, opts, reply>> /\ rows \subseteq rows' /\ objects \subseteq objects'
  BY DEF Write, Ingest, PutObject, PutFails, InsertRow, InsertFails
<1>2. /\ rows' \subseteq Uploads \cup Ingested
      /\ objects' \subseteq {ObjectKey(h) : h \in Uploads}
      /\ upload' \in [Uploads -> {"idle", "put", "stored", "failed"}]
  BY DEF Write, Ingest, PutObject, PutFails, InsertRow, InsertFails, TypeOK
<1>3. TypeOK'
  BY <1>1, <1>2 DEF TypeOK
<1>4. ObjectFirst'
  <2> SUFFICES ASSUME NEW g \in Uploads, upload'[g] = "put" \/ g \in rows'
               PROVE  ObjectKey(g) \in objects'
    BY DEF ObjectFirst
  <2>1. ASSUME NEW r \in Ingested, Ingest(r)
        PROVE  ObjectKey(g) \in objects'
    BY <2>1, QueryAssumption DEF Ingest, ObjectFirst
  <2>2. ASSUME NEW h \in Uploads, PutObject(h)
        PROVE  ObjectKey(g) \in objects'
    BY <2>2 DEF PutObject, ObjectFirst, TypeOK
  <2>3. ASSUME NEW h \in Uploads, PutFails(h)
        PROVE  ObjectKey(g) \in objects'
    BY <2>3 DEF PutFails, ObjectFirst, TypeOK
  <2>4. ASSUME NEW h \in Uploads, InsertRow(h)
        PROVE  ObjectKey(g) \in objects'
    BY <2>4 DEF InsertRow, ObjectFirst, TypeOK
  <2>5. ASSUME NEW h \in Uploads, InsertFails(h)
        PROVE  ObjectKey(g) \in objects'
    BY <2>5 DEF InsertFails, ObjectFirst, TypeOK
  <2> QED BY <2>1, <2>2, <2>3, <2>4, <2>5 DEF Write
<1>5. (ReplyShape /\ Located /\ ListIsExact /\ LatestIsNewest /\ StoredIsReadable)'
  BY <1>1 DEF ReplyShape, Located, ListIsExact, LatestIsNewest, StoredIsReadable, Judged
<1> QED BY <1>1, <1>3, <1>4, <1>5

(* An answer leaves the rest of the state alone. *)
LEMMA AnswerFrame ==
    ASSUME Inv, NEW call, NEW deleted \in BOOLEAN, NEW limit \in Int,
           NEW page, NEW summaries, NEW err \in {NoErr, "NoRows", "Other"},
           call \in {"list", "latest", "locate", "summaries"},
           \A i \in 1..Len(page) : page[i] \in rows,
           Answer(call, deleted, limit, page, summaries, err),
           opts' = opts
    PROVE  (TypeOK /\ ReplyShape /\ opts = asked /\ ObjectFirst /\ StoredIsReadable)'
<1>1. /\ reply'.call = call /\ reply'.deleted = deleted /\ reply'.limit = limit
      /\ reply'.page = page /\ reply'.summaries = summaries /\ reply'.err = err
      /\ reply'.seen = rows
  BY DEF Answer
<1>2. UNCHANGED <<rows, objects, upload, asked, opts>>
  BY DEF Answer, table
<1>3. TypeOK'
  BY <1>1, <1>2 DEF Inv, TypeOK
<1>4. ReplyShape'
  BY DEF Answer, ReplyShape
<1>5. ObjectFirst'
  BY <1>2 DEF Inv, ObjectFirst
<1>6. StoredIsReadable'
  BY <1>1 DEF StoredIsReadable
<1> QED BY <1>2, <1>3, <1>4, <1>5, <1>6 DEF Inv

LEMMA QueryStep ==
    ASSUME Inv, NEW call \in {"list", "latest", "locate"}, NEW deleted \in BOOLEAN,
           NEW limit \in Int, NEW o \in Options,
           call = "list" => o = opts,
           call # "list" => limit = 1 /\ o = LatestOpts(opts),
           Query(call, deleted, limit, o),
           opts' = opts
    PROVE  Inv'
<1> DEFINE selected == Selected(rows, o, deleted)
<1>1. Clamp(limit) \in Nat \ {0} /\ (limit = 1 => Clamp(limit) = 1)
  BY ClampRange
<1>2. rows \in SUBSET Row /\ opts = asked /\ asked \in Options
  BY QueryAssumption DEF Inv, TypeOK
<1>3. CASE Answer(call, deleted, limit, <<>>, {}, "Other")
  <2>1. reply'.err = "Other"
    BY <1>3 DEF Answer
  <2>2. (Located /\ ListIsExact /\ LatestIsNewest)'
    BY <2>1 DEF Located, ListIsExact, LatestIsNewest, Judged, NoErr
  <2>3. \A i \in 1..Len(<<>>) : <<>>[i] \in rows
    OBVIOUS
  <2> QED BY <1>3, <2>2, <2>3, AnswerFrame DEF Inv
<1>4. ASSUME NEW n \in 0..Clamp(limit), NEW page \in [1..n -> selected],
             IsPage(page, selected, o, Clamp(limit)),
             Answer(call, deleted, limit, page, {}, IF n = 0 THEN "NoRows" ELSE NoErr)
      PROVE  Inv'
  <2>1. /\ reply'.call = call /\ reply'.deleted = deleted /\ reply'.limit = limit
        /\ reply'.page = page /\ reply'.seen = rows
        /\ reply'.err = (IF n = 0 THEN "NoRows" ELSE NoErr)
        /\ asked' = asked
    BY <1>4 DEF Answer
  <2>2. Len(page) = n
    BY <1>1
  <2>3. selected \subseteq rows
    BY DEF Selected
  <2>4. n = 0 <=> selected = {}
    BY <1>1, <1>4, EmptyPage
  <2>5. \A i \in 1..Len(page) : page[i] \in rows
    BY <2>2, <2>3
  <2>6. (TypeOK /\ ReplyShape /\ opts = asked /\ ObjectFirst /\ StoredIsReadable)'
    BY <1>4, <2>5, AnswerFrame
  <2>7. Located'
    BY <2>1, <2>2, <1>1 DEF Located, NoErr
  <2>8. ASSUME PerSubject(asked, deleted)
        PROVE  selected = Live(rows, asked, deleted)
    <3>1. PerSubject(o, deleted)
      BY <2>8, <1>2 DEF PerSubject, LatestOpts, Options
    <3>2. selected = Live(rows, o, deleted)
      BY <3>1, <1>2, SuppressionIsPerSubject
    <3>3. Live(rows, o, deleted) = Live(rows, asked, deleted)
      BY <1>2 DEF Live, Matches, LatestOpts, Options
    <3> QED BY <3>2, <3>3
  <2>9. ListIsExact'
    <3> SUFFICES ASSUME call = "list", PerSubject(asked, deleted)
                 PROVE  LET live == Live(rows, asked, deleted)
                        IN  /\ IsPage(page, live, asked, Clamp(limit))
                            /\ reply'.err = "NoRows" <=> live = {}
      BY <2>1 DEF ListIsExact, Judged
    <3> QED BY <1>2, <1>4, <2>1, <2>4, <2>8 DEF NoErr
  <2>10. LatestIsNewest'
    <3> SUFFICES ASSUME call # "list", PerSubject(asked, deleted)
                 PROVE  LET live == Live(rows, asked, deleted)
                        IN  IF live = {} THEN reply'.err = "NoRows"
                            ELSE /\ reply'.err = NoErr
                                 /\ page[1] \in live
                                 /\ \A r \in live : r.time <= page[1].time
      BY <2>1 DEF LatestIsNewest, Judged
    <3>1. selected = Live(rows, asked, deleted)
      BY <2>8
    <3>2. CASE n = 0
      BY <2>1, <2>4, <3>1, <3>2
    <3>3. CASE n # 0
      <4>1. n = 1 /\ page[1] \in selected /\ selected # {}
        BY <1>1, <3>3
      <4>2. ~o.asc
        BY <1>2 DEF LatestOpts, Options
      <4>3. ASSUME NEW r \in selected
            PROVE  r.time <= page[1].time
        <5>1. r \in Row /\ page[1] \in Row
          BY <1>2, <2>3, <4>1
        <5>2. r.time \in Nat /\ page[1].time \in Nat
          BY <5>1, TableAssumption DEF Row
        <5>3. r = page[1] \/ ~Before(o, r, page[1])
          BY <1>4, <2>2, <4>1 DEF IsPage
        <5> QED BY <4>2, <5>2, <5>3 DEF Before
      <4> QED BY <2>1, <3>1, <3>3, <4>1, <4>3
    <3> QED BY <3>2, <3>3
  <2> QED BY <2>6, <2>7, <2>9, <2>10 DEF Inv
<1> QED BY <1>3, <1>4 DEF Query

LEMMA ReadStep == Inv /\ Read => Inv'
<1> SUFFICES ASSUME Inv, Read PROVE Inv'
  OBVIOUS
<1>1. opts \in Options /\ LatestOpts(opts) \in Options
  BY DEF Inv, TypeOK, LatestOpts, Options
<1>2. ASSUME NEW deleted \in BOOLEAN, NEW limit \in Limits, ListIndexes(limit, deleted)
      PROVE  Inv'
  <2>1. limit \in Int
    BY QueryAssumption
  <2> QED BY <1>1, <1>2, <2>1, QueryStep DEF ListIndexes
<1>3. ASSUME NEW deleted \in BOOLEAN, NEW call \in {"latest", "locate"},
             GetLatestIndex(call, deleted)
      PROVE  Inv'
  BY <1>1, <1>3, QueryStep DEF GetLatestIndex, CallerOpts
<1>4. ASSUME NEW deleted \in BOOLEAN, GetSummaries(deleted)
      PROVE  Inv'
  <2>1. PICK sums, err : /\ err \in {NoErr, "Other"}
                         /\ Answer("summaries", deleted, 1, <<>>, sums, err)
    BY <1>4 DEF GetSummaries
  <2>2. opts' = opts
    BY <1>4 DEF GetSummaries
  <2>3. (TypeOK /\ ReplyShape /\ opts = asked /\ ObjectFirst /\ StoredIsReadable)'
    BY <2>1, <2>2, AnswerFrame
  <2>4. reply'.call = "summaries"
    BY <2>1 DEF Answer
  <2>5. (Located /\ ListIsExact /\ LatestIsNewest)'
    BY <2>4 DEF Located, ListIsExact, LatestIsNewest, Judged
  <2> QED BY <2>3, <2>5 DEF Inv
<1>5. ASSUME ReadEvent PROVE Inv'
  <2>1. PICK e : /\ e \in {NoErr, "NotFound", "Other"}
                 /\ e = "NotFound" /\ reply.page[1] \in Uploads =>
                        ObjectKey(reply.page[1]) \notin objects
                 /\ reply' = [reply EXCEPT !.call = "event", !.err = e]
    BY <1>5 DEF ReadEvent, NoErr
  <2>2. UNCHANGED <<rows, objects, upload, asked, opts>>
    BY <1>5 DEF ReadEvent, table
  <2>3. /\ reply'.call = "event" /\ reply'.err = e /\ reply'.deleted = reply.deleted
        /\ reply'.limit = reply.limit /\ reply'.page = reply.page
        /\ reply'.seen = reply.seen
    BY <2>1 DEF Inv, ReplyShape
  <2>4. TypeOK'
    BY <2>1, <2>2, <2>3 DEF Inv, TypeOK, NoErr
  <2>5. ReplyShape'
    BY <2>1 DEF Inv, ReplyShape
  <2>6. (Located /\ ListIsExact /\ LatestIsNewest)'
    BY <2>3 DEF Located, ListIsExact, LatestIsNewest, Judged
  <2>7. StoredIsReadable'
    <3>1. reply.page[1] \in rows
      BY <1>5 DEF ReadEvent, Inv, TypeOK, Located
    <3>2. reply.page[1] \in Uploads => ObjectKey(reply.page[1]) \in objects
      BY <3>1 DEF Inv, ObjectFirst
    <3> QED BY <2>1, <2>3, <3>2 DEF StoredIsReadable
  <2>8. ObjectFirst'
    BY <2>2 DEF Inv, ObjectFirst
  <2> QED BY <2>2, <2>4, <2>5, <2>6, <2>7, <2>8 DEF Inv
<1> QED BY <1>2, <1>3, <1>4, <1>5 DEF Read

LEMMA Invariant == Spec => []Inv
<1>1. Inv /\ UNCHANGED vars => Inv'
  BY DEF Inv, TypeOK, ReplyShape, ObjectFirst, Located, ListIsExact, LatestIsNewest,
         StoredIsReadable, Judged, vars
<1>2. Inv /\ [Next]_vars => Inv'
  BY <1>1, WriteStep, ReadStep DEF Next
<1> QED BY <1>2, InitInv, PTL DEF Spec

-----------------------------------------------------------------------------
(* Every variable keeps its type, for every pool of rows and requests. *)
THEOREM IndexTypeCorrect == Spec => []TypeOK
BY Invariant, PTL DEF Inv

(* A list is exactly the live events its client asked for, in its order,   *)
(* whatever was called with the same options before.                       *)
THEOREM ListsAreExact == Spec => []ListIsExact
BY Invariant, PTL DEF Inv

(* GetLatestIndexAdvanced answers with the newest live event. *)
THEOREM LatestIsRight == Spec => []LatestIsNewest
BY Invariant, PTL DEF Inv

(* A row that StoreObject inserted is never found without its object, for  *)
(* every interleaving of failing and repeated attempts with readers.       *)
THEOREM StoredObjectsAreRead == Spec => []StoredIsReadable
BY Invariant, PTL DEF Inv

-----------------------------------------------------------------------------
(* Summaries.  min(time) and max(time) of a group exist because the table *)
(* has been filled row by row: each of its sets of rows has an oldest and  *)
(* a newest one.                                                           *)
Ended(R) ==
    \A S \in SUBSET R : S # {} =>
        \E a, b \in S : \A r \in S : a.time <= r.time /\ r.time <= b.time

LEMMA EndedGrows ==
    ASSUME NEW R \in SUBSET Row, Ended(R), NEW q \in Row
    PROVE  Ended(R \cup {q})
<1> SUFFICES ASSUME NEW S \in SUBSET (R \cup {q}), S # {}
             PROVE  \E a, b \in S : \A r \in S : a.time <= r.time /\ r.time <= b.time
  BY DEF Ended
<1>1. \A r \in S : r.time \in Nat
  BY TableAssumption DEF Row
<1>2. CASE S \ {q} = {}
  <2>1. S = {q}
    BY <1>2
  <2> QED BY <1>1, <2>1
<1>3. CASE S \ {q} # {}
  <2>1. PICK a, b \in S \ {q} :
            \A r \in S \ {q} : a.time <= r.time /\ r.time <= b.time
    BY <1>3 DEF Ended
  <2>2. q.time \in Nat /\ a.time \in Nat /\ b.time \in Nat
    BY <1>1, <2>1, TableAssumption DEF Row
  <2>3. ASSUME NEW r \in S
        PROVE  /\ r.time \in Nat
               /\ r = q \/ (a.time <= r.time /\ r.time <= b.time)
    BY <1>1, <2>1
  <2>4. CASE q \in S /\ q.time <= a.time
    <3>1. \A r \in S : q.time <= r.time /\ r.time <= b.time
      BY <2>1, <2>2, <2>3, <2>4
    <3> QED BY <2>4, <3>1
  <2>5. CASE q \in S /\ b.time <= q.time
    <3>1. \A r \in S : a.time <= r.time /\ r.time <= q.time
      BY <2>1, <2>2, <2>3, <2>5
    <3> QED BY <2>5, <3>1
  <2>6. CASE q \notin S \/ (a.time <= q.time /\ q.time <= b.time)
    <3>1. \A r \in S : a.time <= r.time /\ r.time <= b.time
      BY <2>3, <2>6
    <3> QED BY <3>1
  <2>7. q.time <= a.time \/ b.time <= q.time \/ (a.time <= q.time /\ q.time <= b.time)
    BY <2>2
  <2> QED BY <2>4, <2>5, <2>6, <2>7
<1> QED BY <1>2, <1>3

LEMMA EndsOfTimes ==
    ASSUME NEW R \in SUBSET Row, Ended(R), NEW S \in SUBSET R, S # {},
           NEW times, times = {r.time : r \in S}
    PROVE  /\ Min(times) \in times /\ \A t \in times : Min(times) <= t
           /\ Max(times) \in times /\ \A t \in times : t <= Max(times)
<1>1. PICK a, b \in S : \A r \in S : a.time <= r.time /\ r.time <= b.time
  BY DEF Ended
<1>2. times \subseteq Nat /\ a.time \in times /\ b.time \in times
  BY TableAssumption DEF Row
<1>3. \A t \in times : a.time <= t /\ b.time >= t
  BY <1>1, <1>2
<1>4. Min(times) \in times /\ \A t \in times : Min(times) <= t
  BY <1>2, <1>3 DEF Min
<1>5. Max(times) \in times /\ \A t \in times : Max(times) >= t
  BY <1>2, <1>3 DEF Max
<1>6. \A t \in times : t <= Max(times)
  BY <1>2, <1>5
<1> QED BY <1>4, <1>5, <1>6

(* What GROUP BY makes of a set of rows. *)
LEMMA SummariesOf ==
    ASSUME NEW R \in SUBSET Row, Ended(R), NEW live \in SUBSET R
    PROVE  /\ {s.type : s \in Summaries(live)} = {r.type : r \in live}
           /\ \A s \in Summaries(live) :
                LET group == {r \in live : r.type = s.type}
                IN  /\ s.count = Cardinality(group)
                    /\ {s.first, s.last} \subseteq {r.time : r \in group}
                    /\ \A r \in group : s.first <= r.time /\ r.time <= s.last
<1>1. {s.type : s \in Summaries(live)} = {r.type : r \in live}
  <2>1. \A r \in live : Summary(live, r.type).type = r.type
    BY DEF Summary
  <2>2. \A s \in Summaries(live) : \E r \in live : s = Summary(live, r.type)
    BY DEF Summaries
  <2>3. \A r \in live : Summary(live, r.type) \in Summaries(live)
    BY DEF Summaries
  <2> QED BY <2>1, <2>2, <2>3
<1>2. ASSUME NEW s \in Summaries(live)
      PROVE  LET group == {r \in live : r.type = s.type}
             IN  /\ s.count = Cardinality(group)
                 /\ {s.first, s.last} \subseteq {r.time : r \in group}
                 /\ \A r \in group : s.first <= r.time /\ r.time <= s.last
  <2>1. PICK q \in live : s = Summary(live, q.type)
    BY DEF Summaries
  <2> DEFINE group == {r \in live : r.type = s.type}
             times == {r.time : r \in group}
  <2>2. /\ s.type = q.type /\ s.count = Cardinality(group)
        /\ s.first = Min(times) /\ s.last = Max(times)
    BY <2>1 DEF Summary
  <2>3. group \in SUBSET R /\ group # {}
    BY <2>2
  <2>4. /\ Min(times) \in times /\ \A t \in times : Min(times) <= t
        /\ Max(times) \in times /\ \A t \in times : t <= Max(times)
    BY <2>3, EndsOfTimes
  <2> QED BY <2>2, <2>4 DEF times
<1> QED BY <1>1, <1>2

LEMMA EndedStep == Inv /\ Ended(rows) /\ [Next]_vars => Ended(rows')
<1> SUFFICES ASSUME Inv, Ended(rows), [Next]_vars PROVE Ended(rows')
  OBVIOUS
<1>1. rows' = rows \/ \E r \in Row : rows' = rows \cup {r}
  BY QueryAssumption
     DEF Next, Write, Read, Ingest, PutObject, PutFails, InsertRow, InsertFails,
         ListIndexes, GetLatestIndex, GetSummaries, Query, Answer, ReadEvent,
         table, vars
<1>2. rows \in SUBSET Row
  BY QueryAssumption DEF Inv, TypeOK
<1> QED BY <1>1, <1>2, EndedGrows

LEMMA SummariesStep ==
    Inv /\ Ended(rows) /\ SummariesAreExact /\ [Next]_vars => SummariesAreExact'
<1> SUFFICES ASSUME Inv, Ended(rows), SummariesAreExact, [Next]_vars
             PROVE  SummariesAreExact'
  OBVIOUS
<1>1. CASE UNCHANGED <<asked, reply>>
  BY <1>1 DEF SummariesAreExact, Judged
<1>2. CASE reply'.call # "summaries"
  BY <1>2 DEF SummariesAreExact, Judged
<1>3. ASSUME NEW deleted \in BOOLEAN, GetSummaries(deleted)
      PROVE  SummariesAreExact'
  <2>1. /\ asked' = asked /\ reply'.deleted = deleted /\ reply'.seen = rows
        /\ \/ reply'.summaries = Summaries(Selected(rows, opts, deleted))
           \/ reply'.err = "Other"
    BY <1>3 DEF GetSummaries, Answer
  <2>2. CASE reply'.err = "Other"
    BY <2>2 DEF SummariesAreExact, Judged, NoErr
  <2>3. CASE reply'.summaries = Summaries(Selected(rows, opts, deleted))
    <3> SUFFICES ASSUME PerSubject(asked, deleted)
                 PROVE  LET live == Live(rows, asked, deleted)
                        IN  /\ {s.type : s \in reply'.summaries}
                                    = {r.type : r \in live}
                            /\ \A s \in reply'.summaries :
                               LET group == {r \in live : r.type = s.type}
                               IN  /\ s.count = Cardinality(group)
                                   /\ {s.first, s.last}
                                        \subseteq {r.time : r \in group}
                                   /\ \A r \in group :
                                        s.first <= r.time /\ r.time <= s.last
      BY <2>1 DEF SummariesAreExact, Judged
    <3>1. rows \in SUBSET Row /\ asked \in Options /\ opts = asked
      BY QueryAssumption DEF Inv, TypeOK
    <3>2. reply'.summaries = Summaries(Live(rows, asked, deleted))
      BY <2>3, <3>1, SuppressionIsPerSubject
    <3>3. Live(rows, asked, deleted) \in SUBSET rows
      BY DEF Live
    <3> QED BY <3>1, <3>2, <3>3, SummariesOf
  <2> QED BY <2>1, <2>2, <2>3
<1>4. CASE Write \/ UNCHANGED vars
  BY <1>1, <1>4 DEF Write, Ingest, PutObject, PutFails, InsertRow, InsertFails, vars
<1>5. CASE Read
  <2>1. ASSUME NEW call \in {"list", "latest", "locate"}, NEW deleted, NEW limit,
               NEW o, Query(call, deleted, limit, o)
        PROVE  reply'.call # "summaries"
    BY <2>1 DEF Query, Answer
  <2>2. ReadEvent => reply'.call # "summaries"
    BY DEF ReadEvent, Inv, ReplyShape
  <2> QED BY <1>2, <1>3, <1>5, <2>1, <2>2 DEF Read, ListIndexes, GetLatestIndex
<1> QED BY <1>4, <1>5 DEF Next

(* The type summaries count the live events of each type and give their    *)
(* first and last time, for every table that insertions can build.         *)
THEOREM SummariesAreRight == Spec => []SummariesAreExact
<1> DEFINE I == Ended(rows) /\ SummariesAreExact
<1>1. Init => I
  <2>1. Init => Ended(rows)
    BY DEF Init, Ended
  <2> QED BY <2>1 DEF Init, NoReply, SummariesAreExact, Judged
<1>2. Inv /\ I /\ [Next]_vars => I'
  BY EndedStep, SummariesStep
<1> QED BY <1>1, <1>2, Invariant, PTL DEF Spec

-----------------------------------------------------------------------------
(* Recursion on a number, and the sequences that are flattened.            *)

(* Counting from 0 reaches every number. *)
LEMMA CountingUp ==
    ASSUME NEW N \in Nat, NEW S, 0 \in S, \A n \in 1..N : n - 1 \in S => n \in S
    PROVE  \A n \in 0..N : n \in S
<1> DEFINE missed == (0..N) \ S
           less == {p \in Nat \X Nat : p[1] < p[2]}
<1> SUFFICES ASSUME missed # {} PROVE FALSE
  OBVIOUS
<1>1. IsWellFoundedOn(less, Nat)
  BY NatLessThanWellFounded, Zenon DEF OpToRel
<1>2. missed \in SUBSET Nat
  OBVIOUS
<1>3. PICK m \in missed : \A n \in missed : <<n, m>> \notin less
  BY <1>1, <1>2, WFMin, Zenon
<1>4. m \in 1..N /\ m - 1 \in 0..N
  BY <1>3
<1>5. <<m - 1, m>> \in less
  BY <1>4
<1>6. m - 1 \in S
  BY <1>3, <1>4, <1>5
<1> QED
  BY <1>3, <1>4, <1>6

(* What is defined by recursion on a number, each value from the one       *)
(* before, exists.                                                         *)
Recursion(f, N, V, first, step) ==
    f \in [0..N -> V] /\ f[0] = first /\ \A n \in 1..N : f[n] = step[n][f[n - 1]]

LEMMA RecursionDefines ==
    ASSUME NEW N \in Nat, NEW V, NEW first \in V, NEW step \in [1..N -> [V -> V]]
    PROVE  \E f : Recursion(f, N, V, first, step)
<1> DEFINE Solves(f, m) == f[0] = first /\ \A n \in 1..m : f[n] = step[n][f[n - 1]]
           S == {m \in 0..N : \E f \in [0..m -> V] : Solves(f, m)}
<1>1. 0 \in S
  <2> DEFINE f == [n \in 0..0 |-> first]
  <2>1. f \in [0..0 -> V] /\ Solves(f, 0) /\ 0 \in 0..N
    OBVIOUS
  <2> HIDE DEF f
  <2> QED
    BY <2>1
<1>2. ASSUME NEW m \in 1..N, m - 1 \in S PROVE m \in S
  <2>1. PICK f \in [0..m - 1 -> V] : Solves(f, m - 1)
    BY <1>2
  <2> DEFINE next == step[m][f[m - 1]]
             g == [n \in 0..m |-> IF n = m THEN next ELSE f[n]]
  <2>2. f[m - 1] \in V
    BY <2>1
  <2>3. step[m] \in [V -> V]
    OBVIOUS
  <2>4. next \in V
    BY <2>2, <2>3
  <2>5. g \in [0..m -> V]
    <3>1. \A n \in 0..m : n # m => n \in 0..m - 1
      OBVIOUS
    <3> HIDE DEF next
    <3> QED
      BY <2>1, <2>4, <3>1
  <2>6. g[0] = first
    BY <2>1
  <2>7. ASSUME NEW n \in 1..m PROVE g[n] = step[n][g[n - 1]]
    <3>1. n - 1 \in 0..m - 1 /\ n - 1 \in 0..m /\ n - 1 # m /\ n \in 0..m
      OBVIOUS
    <3>2. g[n - 1] = f[n - 1]
      BY <3>1
    <3>3. CASE n = m
      BY <3>1, <3>2, <3>3
    <3>4. CASE n # m
      <4>1. n \in 1..m - 1
        BY <3>4
      <4>2. g[n] = f[n]
        BY <3>1, <3>4
      <4>3. f[n] = step[n][f[n - 1]]
        BY <2>1, <4>1
      <4> QED
        BY <3>2, <4>2, <4>3
    <3> QED
      BY <3>3, <3>4
  <2>8. m \in 0..N
    OBVIOUS
  <2> HIDE DEF g
  <2> QED
    BY <2>5, <2>6, <2>7, <2>8
<1> HIDE DEF S
<1>3. N \in 0..N
  OBVIOUS
<1>4. N \in S
  BY <1>1, <1>2, <1>3, CountingUp, Zenon
<1> QED
  BY <1>4 DEF S, Recursion

(* A flattened sequence has the elements of those it is made of. *)
LEMMA FlattenFacts ==
    ASSUME NEW T, NEW seqs \in Seq(Seq(T))
    PROVE  /\ FlattenSeq(seqs) \in Seq(T)
           /\ Range(FlattenSeq(seqs)) = UNION {Range(seqs[i]) : i \in DOMAIN seqs}
<1> DEFINE N == Len(seqs)
           Equation(g) == g = [i \in 1..N |-> IF i = 1 THEN seqs[i] ELSE g[i - 1] \o seqs[i]]
           F == CHOOSE g : Equation(g)
<1>0. N \in Nat /\ DOMAIN seqs = 1..N /\ \A i \in 1..N : seqs[i] \in Seq(T)
  BY LenProperties, ElementOfSeq
<1>1. CASE N = 0
  <2>1. seqs = <<>>
    BY <1>1, EmptySeq
  <2> QED
    BY <2>1, <1>1 DEF FlattenSeq, Range
<1>2. CASE N # 0
  <2>1. \E g : Equation(g)
    <3> DEFINE step == [n \in 1..N |-> [v \in Seq(T) |-> v \o seqs[n]]]
    <3>1. step \in [1..N -> [Seq(T) -> Seq(T)]]
      BY <1>0, ConcatProperties
    <3>2. <<>> \in Seq(T)
      OBVIOUS
    <3>3. PICK f : Recursion(f, N, Seq(T), <<>>, step)
      <4>1. N \in Nat
        BY <1>0
      <4> HIDE DEF step, N
      <4> QED
        BY <4>1, <3>1, <3>2, RecursionDefines
    <3>4. ASSUME NEW n \in 1..N PROVE f[n] = f[n - 1] \o seqs[n]
      <4>1. n - 1 \in 0..N
        BY <1>0
      <4>2. f[n - 1] \in Seq(T)
        BY <3>3, <4>1 DEF Recursion
      <4>3. f[n] = step[n][f[n - 1]]
        BY <3>3 DEF Recursion
      <4> QED
        BY <4>2, <4>3
    <3> DEFINE g == [i \in 1..N |-> f[i]]
    <3>5. ASSUME NEW i \in 1..N
          PROVE  g[i] = IF i = 1 THEN seqs[i] ELSE g[i - 1] \o seqs[i]
      <4>1. CASE i = 1
        <5>1. f[i] = f[i - 1] \o seqs[i]
          BY <3>4
        <5>2. i - 1 = 0
          BY <4>1
        <5>3. seqs[i] \in Seq(T)
          BY <1>0
        <5>4. f[i] = seqs[i]
          BY <5>1, <5>2, <5>3, <3>3, ConcatEmptySeq DEF Recursion
        <5> QED
          BY <5>4, <4>1
      <4>2. CASE i # 1
        <5>1. i - 1 \in 1..N
          BY <1>0, <4>2
        <5>2. g[i] = f[i] /\ g[i - 1] = f[i - 1]
          BY <5>1
        <5> QED
          BY <5>2, <3>4, <4>2
      <4> QED
        BY <4>1, <4>2
    <3>6. Equation(g)
      <4> HIDE DEF g
      <4>1. g = [i \in 1..N |-> g[i]]
        BY DEF g
      <4> QED
        BY <3>5, <4>1, Zenon
    <3> QED
      BY <3>6, Zenon
  <2>2. Equation(F)
    BY <2>1, Zenon
  <2>3. FlattenSeq(seqs) = F[N]
    BY <1>2, Zenon DEF FlattenSeq
  <2> HIDE DEF F
  <2>4. ASSUME NEW i \in 1..N
        PROVE  F[i] = IF i = 1 THEN seqs[i] ELSE F[i - 1] \o seqs[i]
    BY <2>2, Zenon
  <2> DEFINE Good(i) == i = 0 \/ /\ F[i] \in Seq(T)
                                 /\ Range(F[i]) = UNION {Range(seqs[k]) : k \in 1..i}
             S == {i \in 0..N : Good(i)}
  <2>5. 0 \in S
    BY <1>0
  <2>6. ASSUME NEW i \in 1..N, i - 1 \in S PROVE i \in S
    <3>1. CASE i = 1
      <4>1. F[1] = seqs[1] /\ 1 \in 1..N
        BY <2>4, <3>1
      <4>2. UNION {Range(seqs[k]) : k \in 1..1} = Range(seqs[1])
        OBVIOUS
      <4> QED
        BY <4>1, <4>2, <1>0, <3>1
    <3>2. CASE i # 1
      <4>1. F[i - 1] \in Seq(T) /\ Range(F[i - 1]) = UNION {Range(seqs[k]) : k \in 1..i - 1}
        BY <2>6, <3>2, <1>0
      <4>2. F[i] = F[i - 1] \o seqs[i]
        BY <2>4, <3>2
      <4>3. F[i] \in Seq(T) /\ Range(F[i]) = Range(F[i - 1]) \cup Range(seqs[i])
        BY <4>1, <4>2, <1>0, ConcatProperties, RangeConcatenation
      <4>4. 1..i = (1..i - 1) \cup {i}
        BY <1>0
      <4>5. UNION {Range(seqs[k]) : k \in 1..i}
              = (UNION {Range(seqs[k]) : k \in 1..i - 1}) \cup Range(seqs[i])
        BY <4>4
      <4> QED
        BY <4>1, <4>3, <4>5, <1>0, i \in 0..N
    <3> QED
      BY <3>1, <3>2
  <2> HIDE DEF S
  <2>7. N \in S
    BY <1>0, <2>5, <2>6, CountingUp, N \in 0..N, Zenon
  <2> USE DEF S
  <2> QED
    BY <1>0, <1>2, <2>3, <2>7
<1> QED
  BY <1>1, <1>2

-----------------------------------------------------------------------------
(* The mods of one level of a filter.                                      *)

Term == [or : BOOLEAN, refused : BOOLEAN, rows : SUBSET Table]

(* A parenthesis without alternatives admits what all of its terms admit,  *)
(* one with alternatives also what any of these admits.                    *)
LEMMA RowsOfAlternatives ==
    ASSUME NEW own \in Seq(Term), NEW alternatives \in Seq(Term),
           \A m \in Range(own) : ~m.or, \A m \in Range(alternatives) : m.or
    PROVE  Rows(own \o alternatives) =
             {row \in Table : \/ own # <<>> /\ \A m \in Range(own) : row \in m.rows
                              \/ \E m \in Range(alternatives) : row \in m.rows}
<1> DEFINE k == Len(own)
           n == Len(alternatives)
           t == own \o alternatives
           starts == {i \in DOMAIN t : i = 1 \/ t[i].or}
           run(s) == {i \in DOMAIN t : s <= i /\ ~\E u \in starts : s < u /\ u <= i}
<1>1. /\ k \in Nat /\ n \in Nat /\ t \in Seq(Term)
      /\ DOMAIN own = 1..k /\ DOMAIN alternatives = 1..n /\ DOMAIN t = 1..(k + n)
  BY LenProperties, ConcatProperties
<1>2. own # <<>> <=> k > 0
  BY EmptySeq, <1>1
<1>3. /\ \A i \in 1..k : i \in 1..(k + n) /\ t[i] = own[i] /\ ~t[i].or
      /\ \A i \in (k + 1)..(k + n) : /\ i \in 1..(k + n) /\ i - k \in 1..n
                                     /\ t[i] = alternatives[i - k] /\ t[i].or
  <2>1. ASSUME NEW i \in 1..k PROVE i \in 1..(k + n) /\ t[i] = own[i] /\ ~t[i].or
    <3>1. i \in 1..(k + n) /\ i <= k
      BY <1>1
    <3>2. t[i] = own[i]
      BY <3>1, ConcatProperties
    <3>3. own[i] \in Range(own)
      BY <1>1 DEF Range
    <3> QED
      BY <3>1, <3>2, <3>3
  <2>2. ASSUME NEW i \in (k + 1)..(k + n)
        PROVE  i \in 1..(k + n) /\ i - k \in 1..n /\ t[i] = alternatives[i - k] /\ t[i].or
    <3>1. i \in 1..(k + n) /\ i - k \in 1..n /\ ~(i <= k)
      BY <1>1
    <3>2. t[i] = alternatives[i - k]
      BY <3>1, ConcatProperties
    <3>3. alternatives[i - k] \in Range(alternatives)
      BY <1>1, <3>1 DEF Range
    <3> QED
      BY <3>1, <3>2, <3>3
  <2> QED
    BY <2>1, <2>2
<1>4. starts = (IF k > 0 THEN {1} ELSE {}) \cup ((k + 1)..(k + n))
  <2>1. ASSUME NEW i \in 1..(k + n)
        PROVE  i \in starts <=> i \in (IF k > 0 THEN {1} ELSE {}) \cup ((k + 1)..(k + n))
    <3>1. CASE i \in 1..k
      BY <3>1, <1>1, <1>3
    <3>2. CASE i \in (k + 1)..(k + n)
      BY <3>2, <1>1, <1>3
    <3> QED
      BY <3>1, <3>2, <1>1
  <2>2. ASSUME NEW i \in (IF k > 0 THEN {1} ELSE {}) \cup ((k + 1)..(k + n))
        PROVE  i \in 1..(k + n)
    BY <1>1
  <2> QED
    BY <2>1, <2>2, <1>1
<1> HIDE DEF starts, t, k, n
<1>5. k > 0 => run(1) = 1..k
  BY <1>1, <1>4
<1>6. \A s \in (k + 1)..(k + n) : run(s) = {s}
  BY <1>1, <1>4
<1> DEFINE Admitted(row) == \E s \in starts : \A i \in run(s) : row \in t[i].rows
<1>7. Rows(own \o alternatives) = {row \in Table : Admitted(row)}
  BY DEF Rows, starts, t
<1>8. ASSUME NEW row \in Table
      PROVE  Admitted(row) <=> \/ own # <<>> /\ \A m \in Range(own) : row \in m.rows
                               \/ \E m \in Range(alternatives) : row \in m.rows
  <2> DEFINE inOwn == k > 0 /\ \A i \in 1..k : row \in t[i].rows
             inAlternative == \E s \in (k + 1)..(k + n) : row \in t[s].rows
  <2>1. Admitted(row) <=> inOwn \/ inAlternative
    <3>1. CASE k > 0
      <4>1. (\A i \in run(1) : row \in t[i].rows) <=> inOwn
        BY <3>1, <1>5
      <4>2. \A s \in (k + 1)..(k + n) : (\A i \in run(s) : row \in t[i].rows) <=> row \in t[s].rows
        BY <1>6
      <4> HIDE DEF run
      <4> QED
        BY <3>1, <1>4, <4>1, <4>2
    <3>2. CASE ~(k > 0)
      <4>2. \A s \in (k + 1)..(k + n) : (\A i \in run(s) : row \in t[i].rows) <=> row \in t[s].rows
        BY <1>6
      <4> HIDE DEF run
      <4> QED
        BY <3>2, <1>4, <4>2
    <3> QED
      BY <3>1, <3>2
  <2>2. inOwn <=> own # <<>> /\ \A m \in Range(own) : row \in m.rows
    BY <1>1, <1>2, <1>3 DEF Range
  <2>3. inAlternative <=> \E m \in Range(alternatives) : row \in m.rows
    <3>1. \A j \in 1..n : j + k \in (k + 1)..(k + n) /\ t[j + k] = alternatives[j]
      <4> TAKE j \in 1..n
      <4>1. j + k \in (k + 1)..(k + n) /\ (j + k) - k = j
        BY <1>1
      <4> QED
        BY <4>1, <1>3
    <3>2. Range(alternatives) = {alternatives[j] : j \in 1..n}
      BY <1>1 DEF Range
    <3> QED
      BY <3>1, <3>2, <1>3
  <2> QED
    BY <2>1, <2>2, <2>3
<1> QED
  BY <1>7, <1>8

(* Without alternatives, every term must admit a row.                      *)
LEMMA RowsOfAnded ==
    ASSUME NEW m \in Seq(Term), \A x \in Range(m) : ~x.or
    PROVE  Rows(m) = {row \in Table : m # <<>> /\ \A x \in Range(m) : row \in x.rows}
<1>1. <<>> \in Seq(Term) /\ Range(<<>>) = {} /\ m \o <<>> = m
  BY ConcatEmptySeq DEF Range
<1>2. Rows(m \o <<>>) =
        {row \in Table : \/ m # <<>> /\ \A x \in Range(m) : row \in x.rows
                         \/ \E x \in Range(<<>>) : row \in x.rows}
  BY <1>1, RowsOfAlternatives
<1> QED
  BY <1>1, <1>2

(* What is made of terms is a term.                                        *)
LEMMA TermTypes ==
    /\ \A column, op, arg : Where(column, op, arg) \in Term
    /\ \A m \in Seq(Term) : Rows(m) \in SUBSET Table /\ Refused(m) \in BOOLEAN
    /\ \A m \in Seq(Term) : Expr(m) \in Term /\ Or2(Expr(m)) \in Term
BY DEF Where, Term, Rows, Refused, Expr, Or2

(* One parenthesis alone is what is in it, except that it may be empty.    *)
LEMMA RowsOfOne ==
    ASSUME NEW m \in Seq(Term)
    PROVE  /\ <<Expr(m)>> \in Seq(Term) /\ <<Expr(m)>> # <<>>
           /\ Rows(<<Expr(m)>>) = Rows(m)
           /\ Refused(<<Expr(m)>>) <=> m = <<>> \/ Refused(m)
<1> DEFINE e == Expr(m)
<1>1. e \in Term /\ ~e.or /\ e.rows = Rows(m) /\ (e.refused <=> m = <<>> \/ Refused(m))
      /\ Rows(m) \in SUBSET Table
  BY TermTypes DEF Expr
<1> HIDE DEF e
<1>2. <<e>> \in Seq(Term) /\ <<e>> # <<>> /\ Range(<<e>>) = {e}
  BY <1>1 DEF Range
<1>3. Rows(<<e>>) = {row \in Table : row \in e.rows}
  BY <1>1, <1>2, RowsOfAnded
<1>4. Refused(<<e>>) <=> e.refused
  BY DEF Refused
<1> QED
  BY <1>1, <1>2, <1>3, <1>4 DEF e

(* The conditions of a filter are filters.                                 *)
LEMMA FilterShape ==
    ASSUME NEW column \in StringColumns \cup {"tags"}, NEW f \in FiltersOn(column)
    PROVE  /\ f.or \in Seq(FiltersOn(column))
           /\ \A i \in DOMAIN f.or : f.or[i] \in FiltersOn(column)
BY FilterAssumption, ElementOfSeq, LenProperties DEF FiltersOn

(* The wheres of a filter's own lists. *)
LEMMA WheresFacts ==
    ASSUME NEW column, NEW f
    PROVE  LET own == Wheres(column, Tests(f, column))
           IN  /\ own \in Seq(Term)
               /\ \A m \in Range(own) : ~m.or /\ ~m.refused
               /\ own = <<>> <=> Bare(f, column)
               /\ \A row \in Table :
                    (\A m \in Range(own) : row \in m.rows) <=> Own(f, column, row)
<1> DEFINE tests == Tests(f, column)
           test(i) == Where(column, tests[i][1], tests[i][2])
           parts == [i \in DOMAIN tests |-> IF tests[i][2] = {} THEN <<>> ELSE <<test(i)>>]
           own == Wheres(column, tests)
<1>1. \E n \in Nat : DOMAIN tests = 1..n
  <2>1. DOMAIN ArrayTests(f) = 1..4 /\ DOMAIN StringTests(f) = 1..2
    BY DEF ArrayTests, StringTests
  <2> QED
    BY <2>1 DEF Tests
<1>2. \A i : test(i) \in Term /\ ~test(i).or /\ ~test(i).refused
             /\ test(i).rows = {row \in Table : Test(row[column], tests[i][1], tests[i][2])}
  BY TermTypes DEF Where
<1> HIDE DEF tests, test
<1>3. parts \in Seq(Seq(Term)) /\ DOMAIN parts = DOMAIN tests
  BY <1>1, <1>2
<1>4. own = FlattenSeq(parts)
  BY DEF Wheres, test
<1>5. \A i \in DOMAIN tests : Range(parts[i]) = IF tests[i][2] = {} THEN {} ELSE {test(i)}
  BY DEF Range
<1> HIDE DEF parts
<1>6. /\ own \in Seq(Term)
      /\ \A m : m \in Range(own) <=> \E i \in DOMAIN tests : m \in Range(parts[i])
  <2>1. own \in Seq(Term) /\ Range(own) = UNION {Range(parts[i]) : i \in DOMAIN tests}
    BY <1>3, <1>4, FlattenFacts
  <2> QED
    BY <2>1
<1> HIDE DEF own
<1>7. /\ \A i \in DOMAIN tests : tests[i][2] # {} => test(i) \in Range(own)
      /\ \A m \in Range(own) : \E i \in DOMAIN tests : tests[i][2] # {} /\ m = test(i)
  <2>1. ASSUME NEW i \in DOMAIN tests, NEW m
        PROVE  m \in Range(parts[i]) <=> tests[i][2] # {} /\ m = test(i)
    BY <1>5
  <2> QED
    BY <1>6, <2>1
<1>8. own = <<>> <=> Range(own) = {}
  BY <1>6, EmptySeq, LenProperties DEF Range
<1>9. own = <<>> <=> Bare(f, column)
  BY <1>7, <1>8 DEF Bare, tests
<1>10. ASSUME NEW row \in Table
       PROVE  (\A m \in Range(own) : row \in m.rows) <=> Own(f, column, row)
  BY <1>2, <1>7 DEF Own, tests
<1> QED
  BY <1>2, <1>6, <1>7, <1>9, <1>10 DEF own, tests

(* The alternatives are the conditions' mods, of which something is left.  *)
LEMMA AlternativesFacts ==
    ASSUME NEW clauses \in Seq(Seq(Term))
    PROVE  LET found == Alternatives(clauses)
           IN  /\ found \in Seq(Term)
               /\ \A i \in DOMAIN clauses :
                    clauses[i] # <<>> => Or2(Expr(clauses[i])) \in Range(found)
               /\ \A m \in Range(found) : \E i \in DOMAIN clauses :
                    clauses[i] # <<>> /\ m = Or2(Expr(clauses[i]))
               /\ \A m \in Range(found) : m.or
<1> DEFINE parts == [i \in DOMAIN clauses |->
                        IF clauses[i] = <<>> THEN <<>> ELSE <<Or2(Expr(clauses[i]))>>]
           found == Alternatives(clauses)
<1>1. \A i \in DOMAIN clauses : clauses[i] \in Seq(Term)
  BY ElementOfSeq, LenProperties
<1>2. \A i \in DOMAIN clauses : Or2(Expr(clauses[i])) \in Term /\ Or2(Expr(clauses[i])).or
  BY <1>1, TermTypes DEF Or2
<1>3. parts \in Seq(Seq(Term)) /\ DOMAIN parts = DOMAIN clauses
  <2>1. DOMAIN clauses = 1..Len(clauses) /\ Len(clauses) \in Nat
    BY LenProperties
  <2>2. \A i \in DOMAIN clauses : parts[i] \in Seq(Term)
    BY <1>2
  <2> QED
    BY <2>1, <2>2
<1>4. found = FlattenSeq(parts)
  BY DEF Alternatives
<1>5. \A i \in DOMAIN clauses :
        Range(parts[i]) = IF clauses[i] = <<>> THEN {} ELSE {Or2(Expr(clauses[i]))}
  BY DEF Range
<1> HIDE DEF parts
<1>6. /\ found \in Seq(Term)
      /\ \A m : m \in Range(found) <=> \E i \in DOMAIN clauses : m \in Range(parts[i])
  <2>1. found \in Seq(Term) /\ Range(found) = UNION {Range(parts[i]) : i \in DOMAIN clauses}
    BY <1>3, <1>4, FlattenFacts
  <2> QED
    BY <2>1
<1> HIDE DEF found
<1>7. /\ \A i \in DOMAIN clauses : clauses[i] # <<>> => Or2(Expr(clauses[i])) \in Range(found)
      /\ \A m \in Range(found) : \E i \in DOMAIN clauses :
            clauses[i] # <<>> /\ m = Or2(Expr(clauses[i]))
  <2>1. ASSUME NEW i \in DOMAIN clauses, NEW m
        PROVE  m \in Range(parts[i]) <=> clauses[i] # <<>> /\ m = Or2(Expr(clauses[i]))
    BY <1>5
  <2> QED
    BY <1>6, <2>1
<1> QED
  BY <1>2, <1>6, <1>7 DEF found

(* Of no mods nothing is admitted and nothing refused.                     *)
LEMMA NothingLeft == Rows(<<>>) = {} /\ ~Refused(<<>>) /\ Range(<<>>) = {}
BY DEF Rows, Refused, Range

(* What a filter's mods admit, and when the database refuses them. *)
LEMMA CombineFacts ==
    ASSUME NEW column, NEW f, NEW clauses \in Seq(Seq(Term))
    PROVE  LET m == Combine(Wheres(column, Tests(f, column)), clauses)
           IN  /\ m \in Seq(Term)
               /\ m = <<>> <=> clauses = <<>> /\ Bare(f, column)
               /\ \A row \in Table : row \in Rows(m) <=>
                    \/ ~Bare(f, column) /\ Own(f, column, row)
                    \/ \E i \in DOMAIN clauses : row \in Rows(clauses[i])
               /\ Refused(m) <=>
                    /\ clauses # <<>>
                    /\ \/ Bare(f, column) /\ \A i \in DOMAIN clauses : clauses[i] = <<>>
                       \/ \E i \in DOMAIN clauses : Refused(clauses[i])
<1> DEFINE own == Wheres(column, Tests(f, column))
           found == Alternatives(clauses)
           m == Combine(own, clauses)
           meant(row) == \/ ~Bare(f, column) /\ Own(f, column, row)
                         \/ \E i \in DOMAIN clauses : row \in Rows(clauses[i])
<1>1. /\ own \in Seq(Term)
      /\ \A x \in Range(own) : ~x.or /\ ~x.refused
      /\ own = <<>> <=> Bare(f, column)
      /\ \A row \in Table : (\A x \in Range(own) : row \in x.rows) <=> Own(f, column, row)
  BY WheresFacts
<1>2. /\ found \in Seq(Term)
      /\ \A i \in DOMAIN clauses : clauses[i] # <<>> => Or2(Expr(clauses[i])) \in Range(found)
      /\ \A x \in Range(found) : \E i \in DOMAIN clauses :
            clauses[i] # <<>> /\ x = Or2(Expr(clauses[i]))
      /\ \A x \in Range(found) : x.or
  BY AlternativesFacts
<1>3. \A c : Or2(Expr(c)).rows = Rows(c) /\ (Or2(Expr(c)).refused <=> c = <<>> \/ Refused(c))
  BY DEF Or2, Expr
<1>4. Rows(own \o found) = {row \in Table : \/ own # <<>> /\ \A x \in Range(own) : row \in x.rows
                                            \/ \E x \in Range(found) : row \in x.rows}
  BY <1>1, <1>2, RowsOfAlternatives
<1>5. ASSUME NEW row \in Table PROVE row \in Rows(own \o found) <=> meant(row)
  <2>1. (\E x \in Range(found) : row \in x.rows) <=> \E i \in DOMAIN clauses : row \in Rows(clauses[i])
    BY <1>2, <1>3, NothingLeft
  <2> QED
    BY <1>1, <1>4, <2>1
<1>6. own \o found \in Seq(Term) /\ Range(own \o found) = Range(own) \cup Range(found)
  BY <1>1, <1>2, ConcatProperties, RangeConcatenation
<1>7. Refused(own \o found) <=> \E i \in DOMAIN clauses : Refused(clauses[i])
  <2>1. \A t : Refused(t) <=> \E x \in Range(t) : x.refused
    BY DEF Refused, Range
  <2>2. (\E x \in Range(found) : x.refused) <=> \E i \in DOMAIN clauses : Refused(clauses[i])
    BY <1>2, <1>3, NothingLeft
  <2> QED
    BY <1>1, <1>6, <2>1, <2>2
<1>8. own \o found = <<>> <=> Bare(f, column) /\ \A i \in DOMAIN clauses : clauses[i] = <<>>
  <2>1. own \o found = <<>> <=> own = <<>> /\ found = <<>>
    BY <1>1, <1>2, ConcatEqualIffEmpty
  <2>2. found = <<>> <=> Range(found) = {}
    BY <1>2, EmptySeq, LenProperties DEF Range
  <2> QED
    BY <1>1, <1>2, <2>1, <2>2
<1>9. CASE clauses = <<>>
  <2>1. m = own /\ DOMAIN clauses = {}
    BY <1>9 DEF Combine
  <2>2. Rows(own) = {row \in Table : own # <<>> /\ \A x \in Range(own) : row \in x.rows}
    BY <1>1, RowsOfAnded
  <2>3. ~Refused(own)
    BY <1>1 DEF Refused, Range
  <2>4. \A row \in Table : row \in Rows(m) <=> meant(row)
    BY <1>1, <2>1, <2>2
  <2> QED
    BY <1>1, <1>9, <2>1, <2>3, <2>4
<1>10. CASE clauses # <<>>
  <2>1. m = <<Expr(own \o found)>>
    BY <1>10 DEF Combine
  <2>2. m \in Seq(Term) /\ m # <<>> /\ Rows(m) = Rows(own \o found)
        /\ (Refused(m) <=> own \o found = <<>> \/ Refused(own \o found))
    BY <1>6, <2>1, RowsOfOne
  <2>3. \A row \in Table : row \in Rows(m) <=> meant(row)
    BY <1>5, <2>2
  <2> HIDE DEF m, own, found
  <2>4. Refused(m) <=> \/ Bare(f, column) /\ \A i \in DOMAIN clauses : clauses[i] = <<>>
                       \/ \E i \in DOMAIN clauses : Refused(clauses[i])
    BY <1>7, <1>8, <2>2
  <2> QED
    BY <1>10, <2>2, <2>3, <2>4 DEF m, own
<1> QED
  BY <1>9, <1>10

(* filterModsDepth by the depth. *)
LEMMA ModsByDepth ==
    ASSUME NEW column \in StringColumns \cup {"tags"}
    PROVE  /\ filterModsDepth(column) \in
                [0..MaxFilterDepth + 1 -> [FiltersOn(column) -> Seq(Term)]]
           /\ \A f \in FiltersOn(column) : filterModsDepth(column)[MaxFilterDepth + 1][f] = <<>>
           /\ \A depth \in 0..MaxFilterDepth : \A f \in FiltersOn(column) :
                filterModsDepth(column)[depth][f] =
                  Combine(Wheres(column, Tests(f, column)),
                          [i \in DOMAIN f.or |-> filterModsDepth(column)[depth + 1][f.or[i]]])
<1> DEFINE M == MaxFilterDepth
           F == FiltersOn(column)
           V == [F -> Seq(Term)]
           Made(v, f) == Combine(Wheres(column, Tests(f, column)), [i \in DOMAIN f.or |-> v[f.or[i]]])
           none == [f \in F |-> <<>>]
           step == [n \in 1..M + 1 |-> [v \in V |-> [f \in F |-> Made(v, f)]]]
           Equation(at) == at = [depth \in 0..M + 1 |->
                                   [f \in F |-> IF depth > M THEN <<>> ELSE Made(at[depth + 1], f)]]
           A == CHOOSE at : Equation(at)
<1>1. M \in Nat
  BY FilterAssumption
<1>2. ASSUME NEW v \in V, NEW f \in F PROVE Made(v, f) \in Seq(Term)
  <2> DEFINE clauses == [i \in DOMAIN f.or |-> v[f.or[i]]]
  <2>1. f.or \in Seq(F) /\ \A i \in DOMAIN f.or : f.or[i] \in F
    BY FilterShape
  <2>2. clauses \in Seq(Seq(Term))
    <3>1. DOMAIN f.or = 1..Len(f.or) /\ Len(f.or) \in Nat
      BY <2>1, LenProperties
    <3>2. \A i \in DOMAIN f.or : v[f.or[i]] \in Seq(Term)
      BY <2>1
    <3> QED
      BY <3>1, <3>2
  <2> HIDE DEF clauses
  <2>3. Combine(Wheres(column, Tests(f, column)), clauses) \in Seq(Term)
    BY <2>2, CombineFacts
  <2> QED
    BY <2>3 DEF clauses
<1> HIDE DEF Made, F
<1>3. step \in [1..M + 1 -> [V -> V]] /\ none \in V
  BY <1>2
<1>4. PICK f : Recursion(f, M + 1, V, none, step)
  <2>1. M + 1 \in Nat
    BY <1>1
  <2> HIDE DEF step, none, V, M
  <2> QED
    BY <1>3, <2>1, RecursionDefines
<1>5. \E at : Equation(at)
  <2> DEFINE at == [depth \in 0..M + 1 |-> f[M + 1 - depth]]
  <2>1. ASSUME NEW depth \in 0..M + 1
        PROVE  at[depth] = [g \in F |-> IF depth > M THEN <<>> ELSE Made(at[depth + 1], g)]
    <3>1. CASE depth = M + 1
      <4>1. at[depth] = f[0]
        BY <1>1, <3>1
      <4> QED
        BY <4>1, <3>1, <1>1, <1>4 DEF Recursion
    <3>2. CASE depth # M + 1
      <4> DEFINE n == M + 1 - depth
      <4>1. n \in 1..M + 1 /\ depth + 1 \in 0..M + 1 /\ ~(depth > M)
            /\ M + 1 - (depth + 1) = n - 1 /\ n - 1 \in 0..M + 1
        BY <1>1, <3>2
      <4>2. at[depth] = f[n] /\ at[depth + 1] = f[n - 1]
        BY <4>1
      <4> HIDE DEF n, at
      <4>3. f[n] = step[n][f[n - 1]] /\ f[n - 1] \in V
        BY <4>1, <1>4 DEF Recursion
      <4>4. f[n] = [g \in F |-> Made(f[n - 1], g)]
        BY <4>1, <4>3
      <4> QED
        BY <4>1, <4>2, <4>4
    <3> QED
      BY <3>1, <3>2
  <2>2. at = [depth \in 0..M + 1 |-> at[depth]]
    OBVIOUS
  <2> HIDE DEF at
  <2>3. Equation(at)
    BY <2>1, <2>2, Zenon
  <2> QED
    BY <2>3, Zenon
<1>6. Equation(A)
  BY <1>5, Zenon
<1>7. filterModsDepth(column) = A
  BY Zenon DEF filterModsDepth, Made, F
<1> HIDE DEF A
<1>8. \A depth \in 0..M + 1 :
        A[depth] = [g \in F |-> IF depth > M THEN <<>> ELSE Made(A[depth + 1], g)]
  BY <1>6, Zenon
<1>9. A[M + 1] = none
  <2>1. M + 1 \in 0..M + 1 /\ M + 1 > M
    BY <1>1
  <2>2. A[M + 1] = [g \in F |-> IF M + 1 > M THEN <<>> ELSE Made(A[M + 1 + 1], g)]
    BY <1>8, <2>1
  <2> QED
    BY <2>1, <2>2
<1>10. \A depth \in 0..M : \A g \in F : A[depth][g] = Made(A[depth + 1], g)
  <2> TAKE depth \in 0..M
  <2>1. depth \in 0..M + 1 /\ ~(depth > M)
    BY <1>1
  <2> QED
    BY <2>1, <1>8
<1>11. \A depth \in 0..M + 1 : A[depth] \in V
  <2> DEFINE S == {n \in 0..M + 1 : A[M + 1 - n] \in V}
  <2>1. 0 \in S
    <3>1. 0 \in 0..M + 1 /\ M + 1 - 0 = M + 1
      BY <1>1
    <3> QED
      BY <3>1, <1>3, <1>9
  <2>2. ASSUME NEW n \in 1..M + 1, n - 1 \in S PROVE n \in S
    <3> DEFINE depth == M + 1 - n
    <3>1. depth \in 0..M + 1 /\ ~(depth > M) /\ M + 1 - (n - 1) = depth + 1 /\ n \in 0..M + 1
      BY <1>1
    <3> HIDE DEF depth
    <3>2. A[depth + 1] \in V
      BY <2>2, <3>1
    <3>3. A[depth] = [g \in F |-> Made(A[depth + 1], g)]
      BY <3>1, <1>8
    <3>4. A[depth] \in V
      BY <1>2, <3>2, <3>3
    <3> QED
      BY <3>1, <3>4 DEF depth
  <2>3. \A n \in 0..M + 1 : n \in S
    <3>1. M + 1 \in Nat
      BY <1>1
    <3> HIDE DEF S
    <3> QED
      BY <2>1, <2>2, <3>1, CountingUp, Zenon
  <2>4. ASSUME NEW depth \in 0..M + 1 PROVE A[depth] \in V
    <3>1. M + 1 - depth \in 0..M + 1 /\ M + 1 - (M + 1 - depth) = depth
      BY <1>1
    <3> QED
      BY <2>3, <3>1
  <2> QED
    BY <2>4
<1>12. A \in [0..M + 1 -> V]
  BY <1>6, <1>11
<1> QED
  BY <1>7, <1>9, <1>10, <1>12 DEF Made, F

-----------------------------------------------------------------------------
(* The levels of a filter: what remains of it, against what it means.      *)

(* Means by the number of levels. *)
LEMMA MeansByLevel ==
    ASSUME NEW column \in StringColumns \cup {"tags"}
    PROVE  /\ Means(column) \in [0..Nesting -> [FiltersOn(column) -> SUBSET Table]]
           /\ \A f \in FiltersOn(column) : Means(column)[0][f] = {}
           /\ \A n \in 1..Nesting : \A f \in FiltersOn(column) :
                Means(column)[n][f] =
                  {row \in Table : Own(f, column, row) /\ (Bare(f, column) => f.or = <<>>)}
                    \cup UNION {Means(column)[n - 1][f.or[i]] : i \in DOMAIN f.or}
<1> DEFINE N == Nesting
           F == FiltersOn(column)
           V == [F -> SUBSET Table]
           Made(v, f) ==
               {row \in Table : Own(f, column, row) /\ (Bare(f, column) => f.or = <<>>)}
                 \cup UNION {v[f.or[i]] : i \in DOMAIN f.or}
           none == [f \in F |-> {}]
           step == [n \in 1..N |-> [v \in V |-> [f \in F |-> Made(v, f)]]]
           Equation(at) == at = [n \in 0..N |->
                                   [f \in F |-> IF n = 0 THEN {} ELSE Made(at[n - 1], f)]]
           A == CHOOSE at : Equation(at)
<1>1. N \in Nat
  BY FilterAssumption
<1>2. ASSUME NEW v \in V, NEW f \in F PROVE Made(v, f) \in SUBSET Table
  <2>1. \A i \in DOMAIN f.or : v[f.or[i]] \in SUBSET Table
    BY FilterShape
  <2> QED
    BY <2>1
<1> HIDE DEF Made, F
<1>3. step \in [1..N -> [V -> V]] /\ none \in V
  BY <1>2
<1>4. PICK f : Recursion(f, N, V, none, step)
  <2> HIDE DEF step, none, V, N
  <2> QED
    BY <1>1, <1>3, RecursionDefines
<1>5. Equation(f)
  <2>1. ASSUME NEW n \in 0..N
        PROVE  f[n] = [g \in F |-> IF n = 0 THEN {} ELSE Made(f[n - 1], g)]
    <3>1. CASE n = 0
      BY <3>1, <1>4 DEF Recursion
    <3>2. CASE n # 0
      <4>1. n \in 1..N /\ n - 1 \in 0..N
        BY <1>1, <3>2
      <4>2. f[n] = step[n][f[n - 1]] /\ f[n - 1] \in V
        BY <4>1, <1>4 DEF Recursion
      <4> QED
        BY <3>2, <4>1, <4>2
    <3> QED
      BY <3>1, <3>2
  <2>2. f = [n \in 0..N |-> f[n]]
    BY <1>4 DEF Recursion
  <2> QED
    BY <2>1, <2>2, Zenon
<1>6. Equation(A)
  BY <1>5, Zenon
<1>7. Means(column) = A
  BY Zenon DEF Means, Made, F
<1> HIDE DEF A
<1>8. \A n \in 0..N : A[n] = [g \in F |-> IF n = 0 THEN {} ELSE Made(A[n - 1], g)]
  BY <1>6, Zenon
<1>9. A[0] = none
  <2>1. 0 \in 0..N
    BY <1>1
  <2>2. A[0] = [g \in F |-> IF 0 = 0 THEN {} ELSE Made(A[0 - 1], g)]
    BY <1>8, <2>1
  <2> QED
    BY <2>2
<1>10. \A n \in 1..N : \A g \in F : A[n][g] = Made(A[n - 1], g)
  <2> TAKE n \in 1..N
  <2>1. n \in 0..N /\ n # 0
    BY <1>1
  <2>2. A[n] = [g \in F |-> IF n = 0 THEN {} ELSE Made(A[n - 1], g)]
    BY <1>8, <2>1
  <2> QED
    BY <2>1, <2>2
<1>11. \A n \in 0..N : A[n] \in V
  <2> DEFINE S == {n \in 0..N : A[n] \in V}
  <2>1. 0 \in S
    BY <1>1, <1>3, <1>9, 0 \in 0..N
  <2>2. ASSUME NEW n \in 1..N, n - 1 \in S PROVE n \in S
    <3>1. n \in 0..N /\ n # 0 /\ A[n - 1] \in V
      BY <1>1, <2>2
    <3>2. A[n] = [g \in F |-> Made(A[n - 1], g)]
      BY <3>1, <1>8
    <3>3. A[n] \in V
      BY <1>2, <3>1, <3>2
    <3> QED
      BY <3>1, <3>3
  <2>3. \A n \in 0..N : n \in S
    <3> HIDE DEF S
    <3> QED
      BY <1>1, <2>1, <2>2, CountingUp, Zenon
  <2> QED
    BY <2>3
<1>12. A \in [0..N -> V]
  BY <1>6, <1>11
<1> QED
  BY <1>7, <1>9, <1>10, <1>12 DEF Made, F

(* Plain by the number of levels. *)
LEMMA PlainByLevel ==
    ASSUME NEW column \in StringColumns \cup {"tags"}
    PROVE  /\ Plain(column) \in [0..MaxFilterDepth + 1 -> [FiltersOn(column) -> BOOLEAN]]
           /\ \A f \in FiltersOn(column) : Plain(column)[0][f] = FALSE
           /\ \A n \in 1..MaxFilterDepth + 1 : \A f \in FiltersOn(column) :
                Plain(column)[n][f] =
                  (/\ Bare(f, column) => f.or # <<>>
                   /\ \A i \in DOMAIN f.or : Plain(column)[n - 1][f.or[i]])
<1> DEFINE N == MaxFilterDepth + 1
           F == FiltersOn(column)
           V == [F -> BOOLEAN]
           Made(v, f) ==
               /\ Bare(f, column) => f.or # <<>>
               /\ \A i \in DOMAIN f.or : v[f.or[i]]
           none == [f \in F |-> FALSE]
           step == [n \in 1..N |-> [v \in V |-> [f \in F |-> Made(v, f)]]]
           Equation(at) == at = [n \in 0..N |->
                                   [f \in F |-> IF n = 0 THEN FALSE ELSE Made(at[n - 1], f)]]
           A == CHOOSE at : Equation(at)
<1>1. N \in Nat
  BY FilterAssumption
<1>2. ASSUME NEW v \in V, NEW f \in F PROVE Made(v, f) \in BOOLEAN
  OBVIOUS
<1> HIDE DEF Made, F
<1>3. step \in [1..N -> [V -> V]] /\ none \in V
  BY <1>2
<1>4. PICK f : Recursion(f, N, V, none, step)
  <2> HIDE DEF step, none, V, N
  <2> QED
    BY <1>1, <1>3, RecursionDefines
<1>5. Equation(f)
  <2>1. ASSUME NEW n \in 0..N
        PROVE  f[n] = [g \in F |-> IF n = 0 THEN FALSE ELSE Made(f[n - 1], g)]
    <3>1. CASE n = 0
      BY <3>1, <1>4 DEF Recursion
    <3>2. CASE n # 0
      <4>1. n \in 1..N /\ n - 1 \in 0..N
        BY <1>1, <3>2
      <4>2. f[n] = step[n][f[n - 1]] /\ f[n - 1] \in V
        BY <4>1, <1>4 DEF Recursion
      <4> QED
        BY <3>2, <4>1, <4>2
    <3> QED
      BY <3>1, <3>2
  <2>2. f = [n \in 0..N |-> f[n]]
    BY <1>4 DEF Recursion
  <2> QED
    BY <2>1, <2>2, Zenon
<1>6. Equation(A)
  BY <1>5, Zenon
<1>7. Plain(column) = A
  BY Zenon DEF Plain, Made, F
<1> HIDE DEF A
<1>8. \A n \in 0..N : A[n] = [g \in F |-> IF n = 0 THEN FALSE ELSE Made(A[n - 1], g)]
  BY <1>6, Zenon
<1>9. A[0] = none
  <2>1. 0 \in 0..N
    BY <1>1
  <2>2. A[0] = [g \in F |-> IF 0 = 0 THEN FALSE ELSE Made(A[0 - 1], g)]
    BY <1>8, <2>1
  <2> QED
    BY <2>2
<1>10. \A n \in 1..N : \A g \in F : A[n][g] = Made(A[n - 1], g)
  <2> TAKE n \in 1..N
  <2>1. n \in 0..N /\ n # 0
    BY <1>1
  <2>2. A[n] = [g \in F |-> IF n = 0 THEN FALSE ELSE Made(A[n - 1], g)]
    BY <1>8, <2>1
  <2> QED
    BY <2>1, <2>2
<1>11. \A n \in 0..N : A[n] \in V
  <2> DEFINE S == {n \in 0..N : A[n] \in V}
  <2>1. 0 \in S
    BY <1>1, <1>3, <1>9, 0 \in 0..N
  <2>2. ASSUME NEW n \in 1..N, n - 1 \in S PROVE n \in S
    <3>1. n \in 0..N /\ n # 0 /\ A[n - 1] \in V
      BY <1>1, <2>2
    <3>2. A[n] = [g \in F |-> Made(A[n - 1], g)]
      BY <3>1, <1>8
    <3>3. A[n] \in V
      BY <1>2, <3>1, <3>2
    <3> QED
      BY <3>1, <3>3
  <2>3. \A n \in 0..N : n \in S
    <3> HIDE DEF S
    <3> QED
      BY <1>1, <2>1, <2>2, CountingUp, Zenon
  <2> QED
    BY <2>3
<1>12. A \in [0..N -> V]
  BY <1>6, <1>11
<1> QED
  BY <1>7, <1>9, <1>10, <1>12 DEF Made, F

(* The mods of a filter that is k levels above the depth limit, those of   *)
(* its conditions, and the former from the latter.                         *)
ModsAbove(column, k, f) == filterModsDepth(column)[MaxFilterDepth + 1 - k][f]
Clauses(column, k, f) == [i \in DOMAIN f.or |-> ModsAbove(column, k - 1, f.or[i])]

LEMMA ModsOfFilter ==
    ASSUME NEW column \in StringColumns \cup {"tags"}, NEW f \in FiltersOn(column),
           NEW k \in 1..MaxFilterDepth + 1
    PROVE  /\ Clauses(column, k, f) \in Seq(Seq(Term))
           /\ ModsAbove(column, k, f) =
                Combine(Wheres(column, Tests(f, column)), Clauses(column, k, f))
<1> DEFINE at == filterModsDepth(column)
           M == MaxFilterDepth
           depth == M + 1 - k
           clauses == [i \in DOMAIN f.or |-> at[M + 1 - (k - 1)][f.or[i]]]
<1>1. M \in Nat
  BY FilterAssumption
<1>2. depth \in 0..M /\ M + 1 - (k - 1) = depth + 1 /\ depth + 1 \in 0..M + 1
  BY <1>1
<1>3. f.or \in Seq(FiltersOn(column)) /\ \A i \in DOMAIN f.or : f.or[i] \in FiltersOn(column)
  BY FilterShape
<1>4. /\ at \in [0..M + 1 -> [FiltersOn(column) -> Seq(Term)]]
      /\ \A d \in 0..M : \A g \in FiltersOn(column) :
           at[d][g] = Combine(Wheres(column, Tests(g, column)),
                              [i \in DOMAIN g.or |-> at[d + 1][g.or[i]]])
  BY ModsByDepth
<1> HIDE DEF at, depth, M
<1>5. clauses \in Seq(Seq(Term))
  <2>1. DOMAIN f.or = 1..Len(f.or) /\ Len(f.or) \in Nat
    BY <1>3, LenProperties
  <2>2. \A i \in DOMAIN f.or : at[depth + 1][f.or[i]] \in Seq(Term)
    BY <1>2, <1>3, <1>4
  <2> QED
    BY <1>2, <2>1, <2>2
<1>6. at[depth][f] = Combine(Wheres(column, Tests(f, column)), clauses)
  BY <1>2, <1>4
<1> QED
  BY <1>5, <1>6 DEF at, depth, M, ModsAbove, Clauses

(* What is left of a filter within the depth limit admits no row that the  *)
(* filter does not mean.                                                   *)
LEMMA ModsNarrow ==
    ASSUME NEW column \in StringColumns \cup {"tags"}
    PROVE  \A k \in 0..MaxFilterDepth + 1 : \A n \in k..Nesting : \A f \in FiltersOn(column) :
              Rows(ModsAbove(column, k, f)) \subseteq Means(column)[n][f]
<1> DEFINE mean == Means(column)
           N == MaxFilterDepth + 1
           F == FiltersOn(column)
           Narrow(k) == \A n \in k..Nesting : \A f \in F : Rows(ModsAbove(column, k, f)) \subseteq mean[n][f]
           S == {k \in 0..N : Narrow(k)}
<1>1. N \in Nat /\ Nesting \in Nat
  BY FilterAssumption
<1>2. 0 \in S
  <2>1. \A f \in F : filterModsDepth(column)[N][f] = <<>>
    BY ModsByDepth
  <2>2. N - 0 = N /\ 0 \in 0..N
    BY <1>1
  <2>3. \A f \in F : Rows(ModsAbove(column, 0, f)) = {}
    BY <2>1, <2>2, NothingLeft DEF ModsAbove
  <2> HIDE DEF mean, N, F
  <2> QED
    BY <2>2, <2>3
<1>3. ASSUME NEW k \in 1..N, k - 1 \in S PROVE k \in S
  <2>1. ASSUME NEW n \in k..Nesting, NEW f \in F PROVE Rows(ModsAbove(column, k, f)) \subseteq mean[n][f]
    <3> DEFINE clauses == Clauses(column, k, f)
               m == Combine(Wheres(column, Tests(f, column)), clauses)
    <3>1. clauses \in Seq(Seq(Term)) /\ ModsAbove(column, k, f) = m
      BY ModsOfFilter
    <3>2. n \in 1..Nesting /\ n - 1 \in (k - 1)..Nesting
      BY <1>1
    <3>3. mean[n][f] = {row \in Table : Own(f, column, row) /\ (Bare(f, column) => f.or = <<>>)}
                         \cup UNION {mean[n - 1][f.or[i]] : i \in DOMAIN f.or}
      BY <3>2, MeansByLevel
    <3>4. ASSUME NEW i \in DOMAIN f.or PROVE Rows(clauses[i]) \subseteq mean[n - 1][f.or[i]]
      <4>1. f.or[i] \in F
        BY FilterShape
      <4>2. clauses[i] = ModsAbove(column, k - 1, f.or[i])
        BY DEF Clauses
      <4> HIDE DEF clauses, mean, F, N
      <4> QED
        BY <1>3, <3>2, <4>1, <4>2
    <3>5. DOMAIN clauses = DOMAIN f.or
      BY DEF Clauses
    <3> HIDE DEF clauses
    <3>6. /\ m \in Seq(Term)
          /\ \A row \in Table : row \in Rows(m) <=>
               \/ ~Bare(f, column) /\ Own(f, column, row)
               \/ \E i \in DOMAIN clauses : row \in Rows(clauses[i])
      BY <3>1, CombineFacts
    <3>7. Rows(m) \subseteq Table
      BY <3>6, TermTypes
    <3> HIDE DEF m, mean, N, F
    <3> QED
      BY <3>1, <3>3, <3>4, <3>5, <3>6, <3>7
  <2>2. k \in 0..N
    BY <1>1
  <2> HIDE DEF mean, N, F
  <2> QED
    BY <2>1, <2>2
<1>4. \A k \in 0..N : k \in S
  <2> HIDE DEF S, N
  <2> QED
    BY <1>1, <1>2, <1>3, CountingUp, Zenon
<1> QED
  BY <1>4, Zenon

(* What is left of a filter that is plain is all of it. *)
LEMMA ModsExact ==
    ASSUME NEW column \in StringColumns \cup {"tags"}
    PROVE  \A k \in 0..MaxFilterDepth + 1 : \A n \in k..Nesting : \A f \in FiltersOn(column) :
              Plain(column)[k][f] =>
                LET m == ModsAbove(column, k, f)
                IN  m # <<>> /\ ~Refused(m) /\ Rows(m) = Means(column)[n][f]
<1> DEFINE mean == Means(column)
           plain == Plain(column)
           N == MaxFilterDepth + 1
           F == FiltersOn(column)
           Same(m, meant) == m # <<>> /\ ~Refused(m) /\ Rows(m) = meant
           Exact(k) == \A n \in k..Nesting : \A f \in F : plain[k][f] => Same(ModsAbove(column, k, f), mean[n][f])
           S == {k \in 0..N : Exact(k)}
<1>1. N \in Nat /\ Nesting \in Nat
  BY FilterAssumption
<1>2. 0 \in S
  <2>1. \A f \in F : ~plain[0][f]
    BY PlainByLevel
  <2>2. 0 \in 0..N
    BY <1>1
  <2> HIDE DEF mean, N, F, plain, Same
  <2> QED
    BY <2>1, <2>2
<1>3. ASSUME NEW k \in 1..N, k - 1 \in S PROVE k \in S
  <2>1. ASSUME NEW n \in k..Nesting, NEW f \in F, plain[k][f]
        PROVE  Same(ModsAbove(column, k, f), mean[n][f])
    <3> DEFINE clauses == Clauses(column, k, f)
               m == Combine(Wheres(column, Tests(f, column)), clauses)
    <3>1. clauses \in Seq(Seq(Term)) /\ ModsAbove(column, k, f) = m
      BY ModsOfFilter
    <3>2. n \in 1..Nesting /\ n - 1 \in (k - 1)..Nesting
      BY <1>1
    <3>3. mean[n][f] = {row \in Table : Own(f, column, row) /\ (Bare(f, column) => f.or = <<>>)}
                         \cup UNION {mean[n - 1][f.or[i]] : i \in DOMAIN f.or}
      BY <3>2, MeansByLevel
    <3>4. mean[n][f] \subseteq Table
      <4>1. n \in 0..Nesting
        BY <3>2
      <4>2. mean \in [0..Nesting -> [F -> SUBSET Table]]
        BY MeansByLevel
      <4> HIDE DEF mean, F
      <4> QED
        BY <4>1, <4>2
    <3>5. (Bare(f, column) => f.or # <<>>) /\ \A i \in DOMAIN f.or : plain[k - 1][f.or[i]]
      BY <2>1, PlainByLevel
    <3>6. ASSUME NEW i \in DOMAIN f.or PROVE Same(clauses[i], mean[n - 1][f.or[i]])
      <4>1. f.or[i] \in F
        BY FilterShape
      <4>2. clauses[i] = ModsAbove(column, k - 1, f.or[i])
        BY DEF Clauses
      <4> HIDE DEF clauses, mean, F, N, plain, Same
      <4> QED
        BY <1>3, <3>2, <3>5, <4>1, <4>2
    <3>7. DOMAIN clauses = DOMAIN f.or /\ (clauses = <<>> <=> f.or = <<>>)
          /\ (clauses # <<>> => DOMAIN f.or # {})
      <4>1. f.or \in Seq(F)
        BY FilterShape
      <4>2. DOMAIN clauses = DOMAIN f.or
        BY DEF Clauses
      <4> HIDE DEF clauses, F
      <4>3. Len(clauses) = Len(f.or) /\ Len(clauses) \in Nat /\ DOMAIN clauses = 1..Len(clauses)
        BY <3>1, <4>1, <4>2, LenProperties
      <4>4. clauses = <<>> <=> Len(clauses) = 0
        BY <3>1, EmptySeq
      <4>5. f.or = <<>> <=> Len(f.or) = 0
        BY <4>1, EmptySeq
      <4> QED
        BY <4>2, <4>3, <4>4, <4>5
    <3> HIDE DEF clauses
    <3>8. /\ m \in Seq(Term)
          /\ m = <<>> <=> clauses = <<>> /\ Bare(f, column)
          /\ \A row \in Table : row \in Rows(m) <=>
               \/ ~Bare(f, column) /\ Own(f, column, row)
               \/ \E i \in DOMAIN clauses : row \in Rows(clauses[i])
          /\ Refused(m) <=>
               /\ clauses # <<>>
               /\ \/ Bare(f, column) /\ \A i \in DOMAIN clauses : clauses[i] = <<>>
                  \/ \E i \in DOMAIN clauses : Refused(clauses[i])
      BY <3>1, CombineFacts
    <3>9. Rows(m) \subseteq Table
      BY <3>8, TermTypes
    <3> HIDE DEF m, mean, N, F, plain
    <3>10. m # <<>> /\ ~Refused(m)
      BY <3>5, <3>6, <3>7, <3>8
    <3>11. \A row \in Table : row \in Rows(m) <=> row \in mean[n][f]
      BY <3>3, <3>5, <3>6, <3>7, <3>8
    <3>12. Rows(m) = mean[n][f]
      BY <3>4, <3>9, <3>11
    <3> QED
      BY <3>1, <3>10, <3>12
  <2>2. k \in 0..N
    BY <1>1
  <2> HIDE DEF mean, N, F, plain, Same
  <2> QED
    BY <2>1, <2>2
<1>4. \A k \in 0..N : k \in S
  <2> HIDE DEF S, N
  <2> QED
    BY <1>1, <1>2, <1>3, CountingUp, Zenon
<1> QED
  BY <1>4, Zenon

-----------------------------------------------------------------------------
(* From the options to the answer.                                         *)

(* Options whose fields hold filters. *)
Filtering(o) ==
    /\ o # None
    /\ \A c \in StringColumns : o.strings[c] \in StringFilters \/ o.strings[c] = None
    /\ o.tags \in ArrayFilters \/ o.tags = None

(* The mods of the filter that the options have on a column. *)
ModsOn(o, c) == filterMods(FilterOn(o, c), c)
Answerable(o) == \A c \in Given(o) : ModsOn(o, c) # <<>> /\ ~Refused(ModsOn(o, c))

(* A field that is given has a filter of its kind.                         *)
LEMMA GivenFilters ==
    ASSUME NEW o, Filtering(o), NEW c \in Given(o)
    PROVE  /\ c \in StringColumns \cup {"tags"}
           /\ FilterOn(o, c) \in FiltersOn(c)
BY FilterAssumption DEF Filtering, Given, FilterOn, FiltersOn

(* A field's filter is at depth 0: the whole limit above the deepest.      *)
LEMMA FilterModsAbove ==
    ASSUME NEW column \in StringColumns \cup {"tags"}, NEW f \in FiltersOn(column)
    PROVE  /\ filterMods(f, column) = ModsAbove(column, MaxFilterDepth + 1, f)
           /\ filterMods(f, column) \in Seq(Term)
<1> DEFINE M == MaxFilterDepth
           at == filterModsDepth(column)
<1>1. M \in Nat
  BY FilterAssumption
<1>2. M + 1 - (M + 1) = 0 /\ 0 \in 0..M + 1
  BY <1>1
<1>3. at \in [0..M + 1 -> [FiltersOn(column) -> Seq(Term)]]
  BY ModsByDepth
<1> HIDE DEF at, M
<1>4. at[0][f] \in Seq(Term)
  BY <1>2, <1>3
<1> QED
  BY <1>2, <1>4 DEF at, M, filterMods, ModsAbove

(* A field that is given makes one parenthesis.                            *)
LEMMA FieldModsFacts ==
    ASSUME NEW column \in StringColumns \cup {"tags"}, NEW f, f = None \/ f \in FiltersOn(column)
    PROVE  /\ FieldMods(f, column) \in Seq(Term)
           /\ Range(FieldMods(f, column)) =
                IF f = None THEN {} ELSE {Expr(filterMods(f, column))}
<1>1. CASE f = None
  BY <1>1 DEF FieldMods, Range
<1>2. CASE f # None
  <2> DEFINE e == Expr(filterMods(f, column))
  <2>1. e \in Term
    BY <1>2, FilterModsAbove, TermTypes
  <2>2. FieldMods(f, column) = <<e>>
    BY <1>2 DEF FieldMods, Field
  <2> HIDE DEF e
  <2>3. <<e>> \in Seq(Term) /\ Range(<<e>>) = {e}
    BY <2>1 DEF Range
  <2> QED
    BY <1>2, <2>2, <2>3 DEF e
<1> QED
  BY <1>1, <1>2

(* A time bound that is given makes one condition.                         *)
LEMMA TimeModsFacts ==
    ASSUME NEW column, NEW op, NEW bound
    PROVE  /\ TimeMods(column, op, bound) \in Seq(Term)
           /\ Range(TimeMods(column, op, bound)) =
                IF bound = None THEN {} ELSE {Where(column, op, {bound.value})}
<1> DEFINE w == Where(column, op, {bound.value})
<1>1. w \in Term
  BY TermTypes
<1> HIDE DEF w
<1>2. <<w>> \in Seq(Term) /\ Range(<<w>>) = {w}
  BY <1>1 DEF Range
<1>3. TimeMods(column, op, bound) = IF bound = None THEN <<>> ELSE <<w>>
  BY DEF TimeMods, w
<1>4. <<>> \in Seq(Term) /\ Range(<<>>) = {}
  BY DEF Range
<1> QED
  BY <1>2, <1>3, <1>4 DEF w

(* The terms of a query are the time bounds and one for each field given. *)
LEMMA TermsOfOptions ==
    ASSUME NEW o, Filtering(o)
    PROVE  /\ AdvancedSearchOptionsToQueryMod(o) \in Seq(Term)
           /\ \A x : x \in Range(AdvancedSearchOptionsToQueryMod(o)) <=>
                \/ o.after # None /\ x = Where("time", ">", {o.after.value})
                \/ o.before # None /\ x = Where("time", "<", {o.before.value})
                \/ \E c \in Given(o) : x = Expr(ModsOn(o, c))
<1> DEFINE onColumns == [i \in DOMAIN Columns |-> FieldMods(o.strings[Columns[i]], Columns[i])]
           after == TimeMods("time", ">", o.after)
           before == TimeMods("time", "<", o.before)
           columns == FlattenSeq(onColumns)
           tags == FieldMods(o.tags, "tags")
           m == AdvancedSearchOptionsToQueryMod(o)
<1>1. m = after \o before \o columns \o tags
  BY DEF Filtering, AdvancedSearchOptionsToQueryMod
<1>2. /\ after \in Seq(Term) /\ before \in Seq(Term)
      /\ \A x : x \in Range(after) <=> o.after # None /\ x = Where("time", ">", {o.after.value})
      /\ \A x : x \in Range(before) <=> o.before # None /\ x = Where("time", "<", {o.before.value})
  <2>1. after \in Seq(Term)
        /\ Range(after) = IF o.after = None THEN {} ELSE {Where("time", ">", {o.after.value})}
    BY TimeModsFacts
  <2>2. before \in Seq(Term)
        /\ Range(before) = IF o.before = None THEN {} ELSE {Where("time", "<", {o.before.value})}
    BY TimeModsFacts
  <2> HIDE DEF after, before
  <2> QED
    BY <2>1, <2>2
<1>3. /\ tags \in Seq(Term)
      /\ Range(tags) = IF o.tags = None THEN {} ELSE {Expr(filterMods(o.tags, "tags"))}
  BY FieldModsFacts DEF Filtering, FiltersOn
<1>4. /\ columns \in Seq(Term)
      /\ \A x : x \in Range(columns) <=>
           \E c \in StringColumns : o.strings[c] # None /\ x = Expr(filterMods(o.strings[c], c))
  <2>1. DOMAIN Columns = 1..Len(Columns) /\ Len(Columns) \in Nat
        /\ StringColumns = {Columns[i] : i \in DOMAIN Columns}
    BY FilterAssumption, LenProperties DEF StringColumns, Range
  <2>2. ASSUME NEW c \in StringColumns
        PROVE  /\ FieldMods(o.strings[c], c) \in Seq(Term)
               /\ Range(FieldMods(o.strings[c], c)) =
                    IF o.strings[c] = None THEN {} ELSE {Expr(filterMods(o.strings[c], c))}
    <3>1. o.strings[c] = None \/ o.strings[c] \in FiltersOn(c)
      BY FilterAssumption DEF Filtering, FiltersOn
    <3> QED
      BY <3>1, FieldModsFacts
  <2>3. onColumns \in Seq(Seq(Term)) /\ DOMAIN onColumns = DOMAIN Columns
    <3>1. \A i \in DOMAIN Columns : onColumns[i] \in Seq(Term)
      <4> TAKE i \in DOMAIN Columns
      <4>1. Columns[i] \in StringColumns
        BY <2>1
      <4>2. FieldMods(o.strings[Columns[i]], Columns[i]) \in Seq(Term)
        BY <2>2, <4>1
      <4> QED
        BY <4>2
    <3> QED
      BY <2>1, <3>1
  <2>4. \A i \in DOMAIN Columns : Range(onColumns[i]) = Range(FieldMods(o.strings[Columns[i]], Columns[i]))
    OBVIOUS
  <2> HIDE DEF onColumns
  <2>5. columns \in Seq(Term) /\ Range(columns) = UNION {Range(onColumns[i]) : i \in DOMAIN onColumns}
    BY <2>3, FlattenFacts
  <2>6. \A x : x \in Range(columns) <=> \E i \in DOMAIN Columns : x \in Range(onColumns[i])
    BY <2>3, <2>5
  <2>7. ASSUME NEW x
        PROVE  x \in Range(columns) <=>
                 \E c \in StringColumns : o.strings[c] # None /\ x = Expr(filterMods(o.strings[c], c))
    <3>1. x \in Range(columns) <=>
             \E c \in StringColumns : x \in Range(FieldMods(o.strings[c], c))
      BY <2>1, <2>4, <2>6
    <3>2. \A c \in StringColumns : x \in Range(FieldMods(o.strings[c], c)) <=>
             o.strings[c] # None /\ x = Expr(filterMods(o.strings[c], c))
      BY <2>2
    <3> QED
      BY <3>1, <3>2
  <2> QED
    BY <2>5, <2>7
<1>5. \A x : x \in Range(tags) \/ x \in Range(columns) <=> \E c \in Given(o) : x = Expr(ModsOn(o, c))
  <2>1. \A c \in StringColumns : FilterOn(o, c) = o.strings[c]
    BY FilterAssumption DEF FilterOn
  <2>2. FilterOn(o, "tags") = o.tags
    BY DEF FilterOn
  <2>3. \A c : c \in Given(o) <=> \/ c \in StringColumns /\ o.strings[c] # None
                                  \/ c = "tags" /\ o.tags # None
    BY DEF Given
  <2>4. \A x : x \in Range(tags) <=> o.tags # None /\ x = Expr(filterMods(o.tags, "tags"))
    BY <1>3
  <2> HIDE DEF tags, columns
  <2> QED
    BY <1>4, <2>1, <2>2, <2>3, <2>4 DEF ModsOn
<1> HIDE DEF after, before, columns, tags, m
<1>6. /\ m \in Seq(Term)
      /\ Range(m) = Range(after) \cup Range(before) \cup Range(columns) \cup Range(tags)
  <2> DEFINE times == after \o before
             fields == times \o columns
  <2>1. times \in Seq(Term) /\ Range(times) = Range(after) \cup Range(before)
    BY <1>2, ConcatProperties, RangeConcatenation
  <2>2. m = fields \o tags
    BY <1>1
  <2> HIDE DEF times
  <2>3. fields \in Seq(Term) /\ Range(fields) = Range(times) \cup Range(columns)
    BY <1>4, <2>1, ConcatProperties, RangeConcatenation
  <2> HIDE DEF fields
  <2>4. m \in Seq(Term) /\ Range(m) = Range(fields) \cup Range(tags)
    BY <1>3, <2>2, <2>3, ConcatProperties, RangeConcatenation
  <2> QED
    BY <2>1, <2>3, <2>4
<1>7. \A x : x \in Range(m) <=>
        \/ x \in Range(after) \/ x \in Range(before) \/ x \in Range(tags) \/ x \in Range(columns)
  BY <1>6
<1> QED
  BY <1>2, <1>5, <1>6, <1>7 DEF m

(* What the database answers is the rows in time that every field's mods  *)
(* admit, unless it refuses those of a field.                              *)
LEMMA AnswerOfOptions ==
    ASSUME NEW o, Filtering(o)
    PROVE  newQuery(AdvancedSearchOptionsToQueryMod(o)) =
             IF Answerable(o)
             THEN [err |-> FALSE,
                   rows |-> {row \in Table : /\ InTime(o, row)
                                             /\ \A c \in Given(o) : row \in Rows(ModsOn(o, c))}]
             ELSE [err |-> TRUE, rows |-> {}]
<1> DEFINE m == AdvancedSearchOptionsToQueryMod(o)
           later == Where("time", ">", {o.after.value})
           earlier == Where("time", "<", {o.before.value})
<1>1. /\ m \in Seq(Term)
      /\ \A x : x \in Range(m) <=> \/ o.after # None /\ x = later
                                   \/ o.before # None /\ x = earlier
                                   \/ \E c \in Given(o) : x = Expr(ModsOn(o, c))
  BY TermsOfOptions
<1>2. \A t : /\ Expr(t).rows = Rows(t) /\ ~Expr(t).or
             /\ Expr(t).refused <=> t = <<>> \/ Refused(t)
  BY DEF Expr
<1>3. /\ ~later.or /\ ~later.refused
      /\ \A row \in Table : row \in later.rows <=> row.time > o.after.value
      /\ ~earlier.or /\ ~earlier.refused
      /\ \A row \in Table : row \in earlier.rows <=> row.time < o.before.value
  BY DEF Where, Test
<1> HIDE DEF m, later, earlier
<1>4. Refused(m) <=> ~Answerable(o)
  <2>1. Refused(m) <=> \E x \in Range(m) : x.refused
    BY DEF Refused, Range
  <2> QED
    BY <1>1, <1>2, <1>3, <2>1 DEF Answerable
<1>5. ASSUME NEW row \in Table
      PROVE  (\A x \in Range(m) : row \in x.rows) <=>
                InTime(o, row) /\ \A c \in Given(o) : row \in Rows(ModsOn(o, c))
  BY <1>1, <1>2, <1>3 DEF InTime
<1>6. \A x \in Range(m) : ~x.or
  BY <1>1, <1>2, <1>3
<1>7. (IF m = <<>> THEN Table ELSE Rows(m)) = {row \in Table : \A x \in Range(m) : row \in x.rows}
  <2>1. CASE m = <<>>
    BY <2>1 DEF Range
  <2>2. CASE m # <<>>
    BY <1>1, <1>6, <2>2, RowsOfAnded
  <2> QED
    BY <2>1, <2>2
<1>8. (IF m = <<>> THEN Table ELSE Rows(m)) =
        {row \in Table : InTime(o, row) /\ \A c \in Given(o) : row \in Rows(ModsOn(o, c))}
  BY <1>5, <1>7
<1> QED
  BY <1>4, <1>8 DEF newQuery, m

(* Means looks deeper than the depth limit. *)
LEMMA Levels ==
    /\ MaxFilterDepth + 1 \in 0..MaxFilterDepth + 1
    /\ MaxFilterDepth + 1 \in 1..MaxFilterDepth + 1
    /\ Nesting \in MaxFilterDepth + 1..Nesting
BY FilterAssumption

(* The answer is within the filter's meaning, as each field's mods are.    *)
LEMMA OptionsNeverWider ==
    ASSUME NEW o, Filtering(o)
    PROVE  newQuery(AdvancedSearchOptionsToQueryMod(o)).rows \subseteq Reference(o)
<1> DEFINE admitted == {row \in Table : /\ InTime(o, row)
                                        /\ \A c \in Given(o) : row \in Rows(ModsOn(o, c))}
           answered == newQuery(AdvancedSearchOptionsToQueryMod(o)).rows
<1>1. answered = IF Answerable(o) THEN admitted ELSE {}
  BY AnswerOfOptions
<1>2. ASSUME NEW c \in Given(o) PROVE Rows(ModsOn(o, c)) \subseteq Means(c)[Nesting][FilterOn(o, c)]
  <2>1. c \in StringColumns \cup {"tags"} /\ FilterOn(o, c) \in FiltersOn(c)
    BY GivenFilters
  <2>2. ModsOn(o, c) = ModsAbove(c, MaxFilterDepth + 1, FilterOn(o, c))
    BY <2>1, FilterModsAbove DEF ModsOn
  <2> QED
    BY <2>1, <2>2, Levels, ModsNarrow
<1>3. Reference(o) = {row \in Table : /\ InTime(o, row)
                                      /\ \A c \in Given(o) : row \in Means(c)[Nesting][FilterOn(o, c)]}
  BY DEF Reference, Filtering
<1> HIDE DEF answered
<1>4. admitted \subseteq Reference(o)
  BY <1>2, <1>3
<1> HIDE DEF admitted
<1> QED
  BY <1>1, <1>4 DEF answered

(* The answer is the filter's meaning, as each plain field's mods are.     *)
LEMMA PlainOptionsExact ==
    ASSUME NEW o, Filtering(o), AllPlain(o)
    PROVE  newQuery(AdvancedSearchOptionsToQueryMod(o)) = [err |-> FALSE, rows |-> Reference(o)]
<1> DEFINE admitted == {row \in Table : /\ InTime(o, row)
                                        /\ \A c \in Given(o) : row \in Rows(ModsOn(o, c))}
<1>1. ASSUME NEW c \in Given(o)
      PROVE  /\ ModsOn(o, c) # <<>> /\ ~Refused(ModsOn(o, c))
             /\ Rows(ModsOn(o, c)) = Means(c)[Nesting][FilterOn(o, c)]
  <2>1. c \in StringColumns \cup {"tags"} /\ FilterOn(o, c) \in FiltersOn(c)
    BY GivenFilters
  <2>2. ModsOn(o, c) = ModsAbove(c, MaxFilterDepth + 1, FilterOn(o, c))
    BY <2>1, FilterModsAbove DEF ModsOn
  <2>3. Plain(c)[MaxFilterDepth + 1][FilterOn(o, c)]
    BY DEF AllPlain
  <2> QED
    BY <2>1, <2>2, <2>3, Levels, ModsExact
<1>2. Answerable(o)
  BY <1>1 DEF Answerable
<1>3. Reference(o) = {row \in Table : /\ InTime(o, row)
                                      /\ \A c \in Given(o) : row \in Means(c)[Nesting][FilterOn(o, c)]}
  BY DEF Reference, Filtering
<1>4. admitted = Reference(o)
  BY <1>1, <1>3
<1> QED
  BY <1>2, <1>4, AnswerOfOptions

(* A filter of one list of values admits the rows with one of them. *)
LEMMA OneOfMods ==
    ASSUME NEW column \in StringColumns, NEW values, values # {}, OneOf(values) \in StringFilters
    PROVE  LET m == filterMods(OneOf(values), column)
           IN  m # <<>> /\ ~Refused(m) /\ Rows(m) = {row \in Table : row[column] \in values}
<1> DEFINE f == OneOf(values)
           clauses == Clauses(column, MaxFilterDepth + 1, f)
           m == filterMods(f, column)
<1>1. f.in = values /\ f.notIn = {} /\ f.or = <<>>
  BY DEF OneOf, StringFilter
<1>2. f \in FiltersOn(column) /\ column # "tags"
  BY FilterAssumption DEF FiltersOn
<1>3. clauses = <<>>
  BY <1>1 DEF Clauses
<1> HIDE DEF f
<1>4. Tests(f, column) = <<<<"IN", values>>, <<"NOT IN", {}>>>>
  BY <1>1, <1>2 DEF Tests, StringTests
<1> DEFINE tests == Tests(f, column)
<1>5. /\ DOMAIN tests = {1, 2}
       /\ tests[1][1] = "IN" /\ tests[1][2] = values /\ tests[2][2] = {}
  <2> DEFINE in == <<"IN", values>>
             notIn == <<"NOT IN", {}>>
  <2>1. in[1] = "IN" /\ in[2] = values /\ notIn[2] = {}
    OBVIOUS
  <2>2. tests = <<in, notIn>>
    BY <1>4
  <2> HIDE DEF tests, in, notIn
  <2>3. DOMAIN tests = 1..2 /\ tests[1] = in /\ tests[2] = notIn
    BY <2>2
  <2> QED
    BY <2>1, <2>3
<1> HIDE DEF tests
<1>6. ~Bare(f, column)
  BY <1>5 DEF Bare, tests
<1>7. \A row : Own(f, column, row) <=> row[column] \in values
  <2>1. \A v : Test(v, "IN", values) <=> v \in values
    BY DEF Test
  <2> QED
    BY <1>5, <2>1 DEF Own, tests
<1>8. m = Combine(Wheres(column, Tests(f, column)), clauses) /\ clauses \in Seq(Seq(Term))
      /\ m \in Seq(Term)
  BY <1>2, Levels, FilterModsAbove, ModsOfFilter
<1> HIDE DEF m, clauses
<1>9. /\ m = <<>> <=> clauses = <<>> /\ Bare(f, column)
      /\ \A row \in Table : row \in Rows(m) <=>
           \/ ~Bare(f, column) /\ Own(f, column, row)
           \/ \E i \in DOMAIN clauses : row \in Rows(clauses[i])
      /\ Refused(m) => clauses # <<>>
  BY <1>8, CombineFacts
<1>10. \A row \in Table : row \in Rows(m) <=> row[column] \in values
  BY <1>6, <1>7, <1>3, <1>9
<1>11. Rows(m) \subseteq Table
  BY <1>8, TermTypes
<1> QED
  BY <1>6, <1>3, <1>9, <1>10, <1>11 DEF m, f

(* Options that ask for one of some values in some columns. *)
LEMMA OneOfOptions ==
    ASSUME NEW o, Filtering(o), o.tags = None, NEW values,
           \A c \in Given(o) : values[c] # {} /\ o.strings[c] = OneOf(values[c])
    PROVE  newQuery(AdvancedSearchOptionsToQueryMod(o)) =
             [err |-> FALSE,
              rows |-> {row \in Table : /\ InTime(o, row)
                                        /\ \A c \in Given(o) : row[c] \in values[c]}]
<1>1. ASSUME NEW c \in Given(o)
      PROVE  /\ ModsOn(o, c) # <<>> /\ ~Refused(ModsOn(o, c))
             /\ Rows(ModsOn(o, c)) = {row \in Table : row[c] \in values[c]}
  <2>1. c \in StringColumns /\ FilterOn(o, c) = OneOf(values[c])
    BY FilterAssumption DEF Given, FilterOn
  <2>2. OneOf(values[c]) \in StringFilters /\ values[c] # {}
    BY <2>1, GivenFilters, FilterAssumption DEF FiltersOn
  <2> QED
    BY <2>1, <2>2, OneOfMods DEF ModsOn
<1>2. Answerable(o)
  BY <1>1 DEF Answerable
<1>3. {row \in Table : InTime(o, row) /\ \A c \in Given(o) : row \in Rows(ModsOn(o, c))}
        = {row \in Table : InTime(o, row) /\ \A c \in Given(o) : row[c] \in values[c]}
  BY <1>1
<1> QED
  BY <1>2, <1>3, AnswerOfOptions

(* A filter is not None, and neither are the options of a filter. *)
LEMMA Something ==
    /\ \A values : OneOf(values) # None
    /\ \A a, b, s, t : AdvancedSearchOptions(a, b, s, t) # None
<1>1. DOMAIN None = {"none"}
  BY DEF None
<1>2. \A values : "in" \in DOMAIN OneOf(values)
  BY DEF OneOf, StringFilter
<1>3. \A a, b, s, t : "after" \in DOMAIN AdvancedSearchOptions(a, b, s, t)
  BY DEF AdvancedSearchOptions
<1> QED
  BY <1>1, <1>2, <1>3

(* The options made of a request hold filters.                             *)
LEMMA RequestsFilter ==
    ASSUME NEW r \in FilterRequests, OptionsOf(r) # None
    PROVE  Filtering(OptionsOf(r))
BY RequestsAssumption DEF Filtering

(* No options select every row.                                            *)
LEMMA NoOptionsAnswer ==
    newQuery(AdvancedSearchOptionsToQueryMod(None)) = [err |-> FALSE, rows |-> Table]
BY NothingLeft DEF newQuery, AdvancedSearchOptionsToQueryMod

(* Plain options select the rows equal to every field given.               *)
LEMMA PlainFormExact ==
    ASSUME NEW r \in FilterRequests, r.form = "plain"
    PROVE  newQuery(AdvancedSearchOptionsToQueryMod(OptionsOf(r))) =
             [err |-> FALSE, rows |-> {row \in Table :
                r.filter # None =>
                    /\ InTime(r.filter, row)
                    /\ \A c \in StringColumns : r.filter.fields[c] # None =>
                           row[c] = r.filter.fields[c].value}]
<1> DEFINE p == r.filter
           o == OptionsOf(r)
<1>1. o = convertSearchOptionsToAdvanced(p)
  BY DEF OptionsOf
<1>2. CASE p = None
  <2>1. o = None
    BY <1>1, <1>2 DEF convertSearchOptionsToAdvanced
  <2>2. Table = {row \in Table : p # None => /\ InTime(p, row)
                    /\ \A c \in StringColumns : p.fields[c] # None => row[c] = p.fields[c].value}
    BY <1>2
  <2> QED
    BY <2>1, <2>2, NoOptionsAnswer
<1>3. CASE p # None
  <2> DEFINE values == [c \in StringColumns |-> {p.fields[c].value}]
             strings == [c \in StringColumns |-> IF p.fields[c] = None THEN None
                                                 ELSE OneOf({p.fields[c].value})]
  <2>1. o = AdvancedSearchOptions(p.after, p.before, strings, None)
    BY <1>1, <1>3 DEF convertSearchOptionsToAdvanced
  <2>2. o # None /\ Filtering(o)
    BY <2>1, Something, RequestsFilter
  <2>3. o.after = p.after /\ o.before = p.before /\ o.tags = None /\ o.strings = strings
    BY <2>1 DEF AdvancedSearchOptions
  <2>4. \A c \in StringColumns : /\ strings[c] = None <=> p.fields[c] = None
                                 /\ strings[c] # None => strings[c] = OneOf(values[c])
                                 /\ values[c] = {p.fields[c].value}
    BY Something
  <2> HIDE DEF o, strings, values
  <2>5. Given(o) = {c \in StringColumns : p.fields[c] # None}
    BY <2>3, <2>4 DEF Given
  <2>6. \A c \in Given(o) : values[c] # {} /\ o.strings[c] = OneOf(values[c])
    BY <2>3, <2>4, <2>5
  <2>7. newQuery(AdvancedSearchOptionsToQueryMod(o)) =
          [err |-> FALSE,
           rows |-> {row \in Table : InTime(o, row) /\ \A c \in Given(o) : row[c] \in values[c]}]
    BY <2>2, <2>3, <2>6, OneOfOptions
  <2>8. \A row \in Table : InTime(o, row) <=> InTime(p, row)
    BY <2>3 DEF InTime
  <2>9. {row \in Table : InTime(o, row) /\ \A c \in Given(o) : row[c] \in values[c]}
          = {row \in Table : p # None => /\ InTime(p, row)
                /\ \A c \in StringColumns : p.fields[c] # None => row[c] = p.fields[c].value}
    BY <1>3, <2>4, <2>5, <2>8
  <2> QED
    BY <2>7, <2>9 DEF o
<1> QED
  BY <1>2, <1>3

(* A GraphQL filter selects the events of its subject of the types it names. *)
LEMMA GraphqlFormExact ==
    ASSUME NEW r \in FilterRequests, r.form = "graphql"
    PROVE  newQuery(AdvancedSearchOptionsToQueryMod(OptionsOf(r))) =
             [err |-> FALSE, rows |-> {row \in Table :
                /\ row.subject = r.subject
                /\ r.filter # None =>
                    /\ InTime(r.filter, row)
                    /\ (r.filter.type # None \/ r.filter.types # {}) =>
                         \/ row.type \in r.filter.types
                         \/ r.filter.type # None /\ row.type = r.filter.type.value}]
<1> DEFINE p == r.filter
           o == OptionsOf(r)
           types == IF p = None THEN {} ELSE TypesOf(p)
           strings == [c \in StringColumns |->
                CASE c = "subject" -> OneOf({r.subject})
                  [] c = "type" /\ types # {} -> OneOf(types)
                  [] OTHER -> None]
           values == [c \in StringColumns |-> IF c = "subject" THEN {r.subject} ELSE types]
<1>1. o = filterToAdvancedSearchOptions(p, r.subject)
  BY DEF OptionsOf
<1>2. o = AdvancedSearchOptions(IF p = None THEN None ELSE p.after,
                                IF p = None THEN None ELSE p.before, strings, None)
  BY <1>1 DEF filterToAdvancedSearchOptions
<1>3. o # None /\ Filtering(o)
  BY <1>2, Something, RequestsFilter
<1>4. /\ o.after = IF p = None THEN None ELSE p.after
      /\ o.before = IF p = None THEN None ELSE p.before
      /\ o.tags = None /\ o.strings = strings
  BY <1>2 DEF AdvancedSearchOptions
<1>5. /\ \A c \in StringColumns :
           strings[c] = CASE c = "subject" -> OneOf({r.subject})
                          [] c = "type" /\ types # {} -> OneOf(types)
                          [] OTHER -> None
      /\ \A c \in StringColumns : values[c] = IF c = "subject" THEN {r.subject} ELSE types
  OBVIOUS
<1>6. "subject" \in StringColumns /\ "type" \in StringColumns
  BY FilterAssumption
<1>7. p # None => types = p.types \cup (IF p.type = None THEN {} ELSE {p.type.value})
  BY Zenon DEF TypesOf
<1>8. p = None => types = {}
  BY Zenon
<1> HIDE DEF o, types, strings, values
<1>9. \A c \in StringColumns : strings[c] # None <=>
                                   c = "subject" \/ (c = "type" /\ types # {})
  BY <1>5, Something
<1>10. Given(o) = {"subject"} \cup (IF types = {} THEN {} ELSE {"type"})
  BY <1>4, <1>6, <1>9 DEF Given
<1>11. \A c \in Given(o) : values[c] # {} /\ o.strings[c] = OneOf(values[c])
  BY <1>4, <1>5, <1>6, <1>10
<1>12. newQuery(AdvancedSearchOptionsToQueryMod(o)) =
         [err |-> FALSE,
          rows |-> {row \in Table : InTime(o, row) /\ \A c \in Given(o) : row[c] \in values[c]}]
  BY <1>3, <1>4, <1>11, OneOfOptions
<1>13. ASSUME NEW row \in Table
       PROVE  (InTime(o, row) /\ \A c \in Given(o) : row[c] \in values[c]) <=>
                /\ row.subject = r.subject
                /\ p # None =>
                    /\ InTime(p, row)
                    /\ (p.type # None \/ p.types # {}) =>
                         \/ row.type \in p.types
                         \/ p.type # None /\ row.type = p.type.value
  <2>1. (\A c \in Given(o) : row[c] \in values[c]) <=>
           row.subject = r.subject /\ (types # {} => row.type \in types)
    BY <1>5, <1>6, <1>10
  <2>2. InTime(o, row) <=> (p # None => InTime(p, row))
    BY <1>4 DEF InTime
  <2> QED
    BY <1>7, <1>8, <2>1, <2>2
<1> QED
  BY <1>12, <1>13 DEF o

-----------------------------------------------------------------------------
(* Each stage holds what the one before makes of the request.              *)
FilterInv ==
    /\ request \in FilterRequests
    /\ stage \in {"request", "options", "mods", "answer"}
    /\ stage # "request" => options = OptionsOf(request)
    /\ stage \in {"mods", "answer"} => mods = AdvancedSearchOptionsToQueryMod(options)
    /\ stage = "answer" => answer = newQuery(mods)

(* The options, the mods and the answer of ListIndexesAdvanced are always  *)
(* those of the request that came in.                                      *)
THEOREM FilterStages == FilterSpec => []FilterInv
<1>1. FilterInit => FilterInv
  BY DEF FilterInit, FilterInv
<1>2. FilterInv /\ [FilterNext]_filterVars => FilterInv'
  <2> SUFFICES ASSUME FilterInv, [FilterNext]_filterVars PROVE FilterInv'
    OBVIOUS
  <2>1. CASE Convert
    BY <2>1 DEF Convert, FilterInv
  <2>2. CASE Build
    BY <2>2 DEF Build, FilterInv
  <2>3. CASE Run
    BY <2>3 DEF Run, FilterInv
  <2>4. CASE UNCHANGED filterVars
    BY <2>4 DEF filterVars, FilterInv
  <2> QED
    BY <2>1, <2>2, <2>3, <2>4 DEF FilterNext
<1> QED
  BY <1>1, <1>2, PTL DEF FilterSpec

(* An answer is that to the options made of the request.                   *)
LEMMA Answered ==
    ASSUME FilterInv, stage = "answer"
    PROVE  /\ request \in FilterRequests
           /\ answer = newQuery(AdvancedSearchOptionsToQueryMod(OptionsOf(request)))
BY DEF FilterInv

(* An advanced request is its own options.                                 *)
LEMMA AdvancedAnswer ==
    ASSUME FilterInv, Advanced
    PROVE  /\ Filtering(request.filter)
           /\ answer = newQuery(AdvancedSearchOptionsToQueryMod(request.filter))
<1>1. OptionsOf(request) = request.filter
  BY DEF Advanced, OptionsOf
<1> QED
  BY <1>1, Answered, RequestsFilter DEF Advanced

(* However deep and wide its filter is nested, a query never answers with  *)
(* a row the filter excludes: what stringFilterModsDepth drops beyond      *)
(* maxFilterDepth, and empty conditions, only narrow it, and a filter of   *)
(* which nothing is left is refused.                                       *)
THEOREM FiltersNeverWiden == FilterSpec => []NeverWider
<1>1. FilterInv => NeverWider
  BY AdvancedAnswer, OptionsNeverWider DEF NeverWider
<1> QED
  BY <1>1, FilterStages, PTL

(* A filter that is within the depth limit and has no empty condition      *)
(* selects exactly the rows the proto's comments say, whatever separators  *)
(* and parentheses its conditions come to; so do plain gRPC options and    *)
(* GraphQL filters, which are converted to such filters.                   *)
THEOREM AnswersAreExact == FilterSpec => []AnswersExact
<1>1. FilterInv => ExactWhenPlain
  <2> SUFFICES ASSUME FilterInv, Advanced, AllPlain(request.filter)
               PROVE  ~answer.err /\ answer.rows = Reference(request.filter)
    BY DEF ExactWhenPlain
  <2>1. answer = [err |-> FALSE, rows |-> Reference(request.filter)]
    BY AdvancedAnswer, PlainOptionsExact
  <2> QED
    BY <2>1
<1>2. FilterInv => SimpleFormsExact
  <2> SUFFICES ASSUME FilterInv, stage = "answer" PROVE SimpleFormsExact
    BY DEF SimpleFormsExact
  <2> QED
    BY Answered, PlainFormExact, GraphqlFormExact DEF SimpleFormsExact
<1>3. FilterInv => AnswersExact
  BY <1>1, <1>2 DEF AnswersExact
<1> QED
  BY <1>3, FilterStages, PTL

=============================================================================
