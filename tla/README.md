# fetch-api: a verification development

fetch-api answers two kinds of question about cloud events: which events match a
filter (an index in ClickHouse) and what they contain (objects in S3). This
directory holds TLA+ models of that program, the TLC runs that check them on
small instances, and proofs, checked by TLAPS, that hold for all instances.

Paths below are relative to the repository root, `src/` here.

## Inventory

| Component | State | Operations | Talks to | What makes it correct |
|---|---|---|---|---|
| Batch fetch of one service: `eventrepo.Service.ListCloudEventsFromIndexes` (pkg/eventrepo/eventrepo.go) | `events`, `parquetGroups`, `jsonItems`, an errgroup with a limit, a singleflight group | classify, submit, download, copy rows, share JSON downloads, wait, return | S3; errgroup, singleflight | all or nothing; slot *i* holds what index *i* names; the error is the root cause; no goroutine outlives the call; every call returns |
| Batch fetch across buckets: `fetch.ListCloudEventsFromIndexes` (internal/fetch/fetch.go) | `events`, two position lists, an outer errgroup of two goroutines, an inner errgroup, a singleflight group | split, spawn, delegate parquet, fetch JSON with bucket fallback, copy back, return | eventrepo, S3 | the same, and fallback only past a bucket that lacks the object |
| Single fetch: `fetch.GetCloudEventFromIndex`, `eventrepo.GetCloudEventFromIndex`, `getCloudEventFromParquet` | none | header-only, parquet row, JSON object | S3 | the bytes and header of its own index |
| Object reads: `downloadS3Object`, `S3ReaderAt` (s3_reader.go) | the object's bytes | GetObject, size check, ReadAt | S3 | never more than `maxObjectSize` in memory; short objects are errors |
| Object listing: `ListObjectsFromKeys`, `GetObjectFromKey` | `data` slots, an errgroup | fetch every key | S3 | as for the batch, without sharing |
| Index queries: `ListIndexesAdvanced`, `GetLatestIndexAdvanced`, `GetCloudEventTypeSummariesAdvanced` | none (reads the table) | limit clamp, order, filters, tombstone suppression | ClickHouse | latest is latest; a tombstone hides exactly the rows it voids; options are not mutated |
| Search filters: `AdvancedSearchOptionsToQueryMod`, `stringFilterModsDepth`, `arrayFilterModsDepth` | none | nested OR to query mods, depth limit | query builder | the query means what the filter means |
| `StoreObject` | S3 object, then index row | two writes | S3, ClickHouse | a row never precedes its object |
| Presigned blob URLs: `PresignBlobURL` | none | sign | S3 presigner | the URL of its own index's blob |
| GraphQL resolvers (internal/graph) | `out`, `nonBlobPos` | authorise, query the index, presign blobs, fetch the rest, assemble | all of the above | position by position assembly; "nothing found" is null or an empty list, not an error |
| Access check and identity (resolver.go, internal/identity) | none; an HTTP call per request | linked-DID lookup | identity-api | no data of a subject the token does not cover |
| gRPC server (internal/fetch/rpc) | none | five calls, status mapping | eventrepo, fetch | status codes; index and data calls agree |
| Limits, authentication, wiring (internal/limits, internal/auth, internal/app, internal/config) | the request's context, logger, claims, status | middleware chain: recover, log, limit, check the token, add claims; gRPC interceptors | libraries | every HTTP request runs under a limit, is answered, and reaches a resolver only with a checked token |
| Process lifecycle (cmd/fetch-api) | runner group, contexts, three servers | start, signal, drain, wait, clean up, exit | OS signals, runner | one failure stops all; a clean exit follows a signal and leaves no request behind |
| GraphQL executor (internal/graph/generated.go) | per position of an answer its value and errors | resolve fields concurrently, defer, marshal, propagate nulls, respond | gqlgen runtime, resolvers | the answer is the one the schema defines, in every order of completion |
| gRPC messages (pkg/grpc) | - | getters, conversion to and from cloud events (common.go) | protobuf | an event survives its trips |
| MCP tool definitions (internal/graph/mcp_tools_gen.go) | constants | - | MCP server | constant data: not modelled |

The behaviours that are hard to test are the concurrent ones: an errgroup whose
first error cancels all siblings, so that several errors race to be the one kept;
singleflight, through which one goroutine's result reaches another; slots written
without locks by many goroutines and handed to the caller; an errgroup inside an
errgroup; and a caller that gives up half-way. The hazards are listed one by one,
each at its line, in `PROJECT.json`.

## What is modelled

    EventStore --- BatchFetch            the promise (abstract)
        |              ^  ^
    SyncGroups         |  | implements
        |              |  |
    ListCall ------ RepoList             eventrepo.ListCloudEventsFromIndexes
        |      \                         (implements BatchFetch)
        |       ------ FetchList         fetch.ListCloudEventsFromIndexes
        |                                (uses BatchFetch for eventrepo's call,
        |                                 implements BatchFetch itself)
    ListCallProofs - RepoListProofs, FetchListProofs

    EventStore, SyncGroups - ObjectList - ObjectListProofs
                                       ListObjectsFromKeys, downloadS3Object
                                       (implements BatchFetch)
    EventStore - RpcServer             the gRPC methods (use BatchFetch)
    ProtoConvert                       events as messages, and back

    IndexTable - IndexQuery            eventrepo's queries and StoreObject
    FilterQuery                        from a request's filter to the rows
    IndexQuery, FilterQuery - IndexQueryProofs

    Resolvers - ResolversProofs        GraphQL: access, queries, assembly, nulls
    GraphSchema - GraphTree - GraphExec - GraphExecProofs
                      |           | implements
                      +------ GraphAnswer        the answer the schema defines

    RequestChain   Lifecycle           the handlers around a request; main
             \      /
              Process
                 |
    Process, RpcServer, ProtoConvert - ServerProofs

**EventStore** - index references (`cloudevent.CloudEvent[ObjectInfo]`), the object
store, the outcomes of one read. A payload is abstracted to its *provenance*, the
record `<<bucket, name, row>>` it was read from, because what the properties tell
apart is whether a caller is handed the bytes its own index points to. A JSON
object is row 0 of the object of its name. `GetObject` is the set of outcomes of
`downloadS3Object`: the object or NoSuchKey, as the store has it; `Canceled` when the
context is done (a call in flight may still win that race, so it is a choice, not a
certainty); a transport error when the store is `flaky`. An object that cannot be
decoded, that is too large, or that lacks the row, is present but not `readable`.
Errors are the three classes callers can distinguish: `NotFound` (`errors.As` to
`s3types.NoSuchKey`), `Canceled`, `Other`.

**SyncGroups** - errgroup and singleflight, external libraries, as this code uses
them: the first error is kept and cancels the group in the same step
(`FirstError`); `Go` blocks while the limit is reached (`HasSlot`); `Do` joins the
call in flight for its key or leads one (`CallOf`); publishing a result and
forgetting the key is one step, done under the group's mutex.

**BatchFetch** - what a batch fetch promises: all or nothing, every position its
own event, and an error that is the fault of reading some position, of the
transport, or of the caller's own cancellation. In particular the `Canceled` that
the group's own cancellation causes in siblings is never what the caller sees.

**ListCall** - what the two functions of the name `ListCloudEventsFromIndexes` share:
the batch, the slots, and the pool of JSON tasks. `SubmitJson` is `group.Go`;
`Join` the entry into `singleflight.Do`; `TryBucket` one turn of the leader's loop in
`fetch.GetCloudEventFromIndex`, which moves on only past `NotFound`; `TakeShared` is
a task taking its call's result and overlaying its own header. `eventrepo`
passes a single bucket: the loop then has one turn. Its own field for the position of a
task is the TLA+ index; the variables `jsTask`, `call`, `tried`, `shared` are what the
goroutines' program counters, locals and singleflight's map hold.

**RepoList** - `Classify` is one turn of the classification loop, with the early
return for a reference that does not parse or has no bucket; `SubmitParquet` and
`RepoSubmitJson` are the two submission loops, parquet groups first and in any
order (Go's map iteration); `Download`, `CopyRow`, `FinishParquet`, `PqFails` are the
task of a group; `Return` is `group.Wait` and what follows it. `Cancelled` is
`errCtx`.

**FetchList** - `Split` is one turn of the loop over the indexes, `Spawn` starts the
two goroutines, `RepoReturns` is eventrepo's answer, for which only BatchFetch's
`Deliver` and `Fail` are used, `FinishParquet` copies events back to the positions
of the whole batch, `FinishJson` is `jsonGroup.Wait`, `Return` the outer `Wait`.

`CallerCancels` is the request's deadline (internal/limits/middleware.go) or a
client that goes away. It can happen at every point of a call.

**IndexTable** - the `cloud_event` table and the queries on it as operators:
`Matches` and `Suppressed` are the WHERE clause, `IsPage` is ORDER BY and LIMIT (any
order among rows of one time), `Summaries` is GROUP BY type. `Voided` and `Live` say
what the comments promise. A row has the columns that can be filtered on, ordered by
or voided; of the filter fields, type and subject stand for the seven that work alike.

**IndexQuery** - the table while it changes. `PutObject` / `PutFails` and `InsertRow` /
`InsertFails` are the two halves of `StoreObject`; a write that fails may have
happened, and a failed call may be made again. The table is a set: whether the
database merges a row inserted twice is its own affair. `Ingest` is the service that
writes events and tombstones. The client passes one options object (`opts`) to call
after call, as `ListIndexes`, `GetLatestIndex`, `GetSummaries` and, after `GetLatestIndex`
found a row, `ReadEvent`; `asked` is what it once wrote into that object, `reply` the
last answer together with the table its query saw.

**Resolvers** - one GraphQL request with several aliased fields. gqlgen resolves the
fields concurrently, so `Fields` are processes, each with a program counter; a step is
one call out of the resolver: `Authorize` (the token and the direct match), `LookUp`
(identity-api), `QueryIndex`, `PresignBlobs` (one turn of the loop over the list, which
also collects `nonBlobPos`), `FetchRest` (the fetch and the assembly). `latestCloudEvent` is a
list of one: its blob and its fetch are those of `cloudEvents`. `Respond` is
gqlgen's null propagation: `indexes` and `cloudEvents` are non-null in the schema,
`latestIndex` and `latestCloudEvent` are not. Meanwhile `Environment` pairs and
unpairs devices, inserts rows and deletes objects. A row has a `key`, its source and id, and a
tombstone in `voids` the key it voids. A query selects the rows of its subject that meet its
filter (the set of such rows; FilterQuery says which those are) and, unless it asked for deleted
ones, that no tombstone of the subject voids (`Selected`, `Suppressed`). If there are none the
resolver answers null or an empty list; otherwise the index answers with any page of them
(IndexTable says which one), and the fetch with what BatchFetch promises; a
slot is abstracted to the rows its header, payload and URL belong to.

**ObjectList** - `ListObjectsFromKeys`: one task per key under the limit, without
sharing. Here a download is followed byte by byte (`Responds`, `Chunk`, `Ends`,
`Breaks` are `downloadS3Object`): an object has a size, its response a Content-Length
that may be right, wrong, zero, negative or missing, and a stream may break off at any
byte. `FaultOf` derives from these what EventStore takes for granted elsewhere: an
object that is too large or cut short cannot be read.

**FilterQuery** - three forms of request (plain gRPC options, advanced ones, a GraphQL
filter) are converted to advanced options (`Convert`), those to query mods (`Build`),
and the database evaluates the statement (`Run`). sqlboiler's `Expr` and `Or2` are
external: a parenthesis, and the separator before its mod; the database gives AND
precedence over OR and refuses empty parentheses. A mod is therefore the separator it
writes, whether the database refuses its text, and the rows that text admits; `Rows` is what a list of mods
admits. `filterModsDepth` is both recursive functions of the code, which differ in their `Tests`: for each
depth up to `maxFilterDepth` and one beyond, the mods of every filter, from those of its conditions one deeper.
The filters are two sets that contain the conditions of their members; how deep they are
nested is not limited. `Means` is the reference, written from the comments of the proto file: the rows that
so many levels of a filter mean. Fewer levels never mean more rows, so that `Nesting`, which
is above the depth limit, makes `NeverWider` only stricter.

**RpcServer** - the five gRPC methods, for one client, over an index and an object store
that change between any two steps. `Ask` starts a method, `QueryFails`,
`AnswerIndexes` and `FoundIndexes` are the three outcomes of its query, `AnswerEvents` is
the fetch (BatchFetch's `Return`, over the store at that moment), the conversion of each event to a
message (`EventToProto`) and the mapping of an error to a status. A message has no field for a base64
payload; the records that have one are the constant `Base64`. `held` is the listing as it reached the client: an `ObjectInfo` message has one
field, the key, so `DataIndexKey` is lost (`ToProto`), and the client's second call reads without it
(`FromProto`).

**ProtoConvert** - `CloudEventToProto`, `AsRawCloudEvent` and the header conversions of
pkg/grpc/common.go, for an event that goes to and fro. An extra is abstracted to what
encoding/json makes of it; `Foreign` are messages other programs may send. It shares no state with
RpcServer, and their runs are one: a behaviour of `MessageSpec` (MCRpcServer) is one of the service or one
of an event's trips.

**GraphSchema**, **GraphTree**, **GraphExec** - gqlgen's generated code. GraphSchema
holds its tables: what each field is marshalled as, what an object function counts as
invalid, what runs in a goroutine of its own. GraphTree is one operation as the tree of
its answer's positions, each with what its resolver gives (a value, nil, an error, a panic, or an
argument that cannot be converted). GraphExec runs the tree: `Ready` positions start, in any order
where the code is concurrent; an object function waits for its fields and is null if a
strict one was; a list waits for its elements; a deferred group is left for later responses; `Exec` returns the
first one. **GraphAnswer** is the answer as a function of the resolvers' outcomes and the nullability of the
schema's types alone.

**RequestChain** - the handlers around one request: `PassThrough`, `LoggerMiddleware`,
`AddRequestTimeout`, `CheckJWT`, `authLoggerMiddleware`, `AddClaimHandler` inwards,
`Serve` inside, `Unwind` outwards through the deferred calls, also after a panic; and
the interceptors of the gRPC server. The JWT library may need the issuer's keys from the network
and fail for want of them. **Lifecycle** - main.go: `SetUp` with its fatal exits, `StartServer`,
`Fail`, `Drain`, `Stop`, `Signal`, `StopNotify`, `Wait`, `Return`. **Process** puts a request into
the process: a server that drains accepts nothing and stops when its request is
over; a process that exits leaves requests behind.

## The runs

| Run | Module, configuration | What it shows |
|---|---|---|
| `repo_list` | MCRepoList, RepoList.cfg | RepoList: types, `BatchExact`, `Quiescent`, `NoDuplicateDownload`, `WriteOnce`, the refinement `BatchPromise`, and `Completes` |
| `fetch_list` | MCFetchList, FetchList.cfg | FetchList: `Quiescent`, the same promise through two nested errgroups and the bucket fallback, over eventrepo's promise instead of its code, and `Completes` |
| `repo_two_buckets` | MCRepoList, RepoListTwoBuckets.cfg | the code fails `OwnBucket`: see below |
| `object_list` | MCObjectList, ObjectList.cfg | ObjectList: the same promise, `MemoryBounded`, `Completes` |
| `index_query` | MCIndexQuery, IndexQuery.cfg | IndexQuery: types, `ListIsExact`, `LatestIsNewest`, `SummariesAreExact`, `StoredIsReadable` |
| `index_two_subjects` | MCIndexQuery, IndexTwoSubjects.cfg | the code fails `OwnTombstones`: see below |
| `filter_query` | MCFilterQuery, FilterQuery.cfg | FilterQuery: `NeverWider`, `AnswersExact` |
| `rpc_server` | MCRpcServer, RpcServer.cfg | RpcServer: types, `TwoCallsPin`, `PayloadsLeftOut`, `StatusNamesCause`; ProtoConvert: `SettlesAfterOneTrip`, `KeepsWhatItCan` |
| `proto_base64` | MCProtoConvert, ProtoBase64.cfg | the code fails `PayloadSurvives`: see below |
| `resolvers` | MCResolvers, Resolvers.cfg | Resolvers: types, `OnlyLinkedSubjects`, `OwnSlots`, `NothingMeansNothing`, `SiblingsSurvive`, `Answered` |
| `graph_exec` | MCGraphExec, GraphExec.cfg | GraphExec: `Propagation`, `NoSilentLoss`, and the refinement `AnswersBySchema`, which includes that an answer comes |
| `process` | MCProcess, Process.cfg | Process: `CleanExit`, `OnlyValidClaims`, `EndsTidy`, `EndsWhenTold`, `Answered` |

The properties:

- `BatchExact`: a slice is returned only if every position could be read; slot *i*
  then holds the event index *i* names, in content, header, row and bucket.
- `BatchPromise`: every behaviour is one of BatchFetch. Beyond `BatchExact` this
  says that the reported error is a cause of its own: a missing object is
  reported as missing although it cancels every other task (callers map
  NotFound to a status of its own), and `Canceled` is reported only to a caller
  that gave up.
- `Quiescent`: when the call has returned, no goroutine of it is left to write
  to the slice the caller holds.
- `WriteOnce`: no slot is written twice, in whatever order tasks run.
- `NoDuplicateDownload`: two JSON tasks of one key never download it at once.
- `Completes`: every call returns. Followers hold a slot of the limited errgroup
  while they wait for their leader; this works because a leader always has a
  slot before it has followers.
- `ListIsExact`: a list for one subject (or without suppression) is a page of exactly
  the live events, in the order the client once asked for, whatever it called before
  with the same options.
- `LatestIsNewest`: the latest index is the newest live event, whichever order the
  options ask for.
- `SummariesAreExact`: the summaries count the live events, type by type.
- `StoredIsReadable`: a row of StoreObject is never found without its object.
- `OnlyLinkedSubjects`: a field learns something, even that there is nothing, only about
  the token's subject, or a device that was paired with it at some time since the request
  came. It need not be paired any longer when the data is read.
- `OwnSlots`: a list has a slot for every row of the query's page, with that row's
  header and either its payload or the URL of its blob, however blobs and other
  events alternate.
- `NothingMeansNothing`: null or an empty list only if no live row matched: every row the subject had
  when the request came fails the filter or, in a query that leaves deleted events out, is voided by
  a tombstone of that same subject. A failing index, identity service or store, or another subject's tombstone,
  never reads as "nothing".
- `SiblingsSurvive`: a source without events leaves the other aliases' data alone
  (schema/base.graphqls, on `latestIndex` and `latestCloudEvent`); only a list that was denied or failed
  takes it away.
- `Answered` (Resolvers): every request is answered, whatever changes meanwhile.
- `MemoryBounded`: whatever Content-Lengths say, the downloads in flight hold at most
  the limit's number of objects of the largest size, and a byte of each; none is in
  flight when the call has returned.
- `NeverWider`: a filter never lets through a row it excludes, though conditions deeper
  than `maxFilterDepth` and empty ones are dropped: dropping an alternative narrows, and a
  filter of which nothing is left becomes empty parentheses, which the database
  refuses.
- `AnswersExact`: within the depth limit and without empty conditions, exactly the rows
  the filter means; plain options and GraphQL filters likewise.
- `StatusNamesCause`: in the methods that query, NotFound says that no row matched; in
  `ListCloudEventsFromIndex` it says that an object is missing, and Internal that something
  else went wrong, whichever of several failing reads was kept.
- `TwoCallsPin`: the second call of the two-call protocol answers with the listed
  events, whatever was inserted in between: each with its header, and with the payload of the record
  that lies under its key, unless that payload is in base64. Of a blob event that record is without the
  payload that was split out of it, and so is the answer.
- `PayloadsLeftOut`: an event is sent without payload in two cases only. A blob event is not read at all where
  `DataIndexKey` is looked at: the single-event method does so before it looks at the key
  (pkg/eventrepo/eventrepo.go, `GetCloudEventFromIndex`), the batch only for references that are not
  parquet, and after a listing no method does, `DataIndexKey` being gone. And the base64 payload of whatever was
  read is dropped by every method.
- `SettlesAfterOneTrip`, `KeepsWhatItCan`: an event that goes over gRPC is the same after every trip as
  after the first, and the first keeps strings, time, JSON payload and every extra JSON can carry.
- `Propagation`, `NoSilentLoss`, `AnswersBySchema`: which positions of an answer are null; that every
  loss is told by an error of the same response; and that both are functions of the
  resolvers' outcomes, not of the order in which goroutines end.
- `CleanExit`: main returns only after a signal, all servers having ended and no drained one
  having left a request; a failure that came first is fatal, not hidden by the
  cancellations that follow it.
- `OnlyValidClaims`: a resolver runs with claims exactly if a valid token was sent and checked; a token
  that is not valid is turned away, not taken for none.
- `EndsTidy`: a request that is over was answered, even after a panic, has released its timer, and
  was counted under the status its caller saw.
- `EndsWhenTold`, `Answered` (Process): a signal or the failure of one server ends the process, and
  every HTTP request is answered or ends with it, though keys, database or store never answer. A gRPC
  call has no time limit of the server's: if it hangs, so does the drain.

`OwnTombstones` is the comment on `voidsSuppressionMod` ("for the same subject",
pkg/eventrepo/eventrepo.go:630-632) for any options. The clause compares source and id
only, so with two subjects requested a tombstone of one hides an event of the other.
No caller in this repository asks for suppression with more than one subject.

`PayloadSurvives` is the comment on the test of the conversion (pkg/grpc/common_test.go:23-24), "can be
converted to Proto and back without losing data ... regardless of structure changes", for any event. An event
whose payload is in `data_base64` arrives with none, as `CloudEventToProto` copies `Data` only. The test fills
the header by reflection, but the payload by hand, and so never has one in base64.

**Bounds.** Batches of up to three references, drawn from a pool with at least two
rows of one parquet file, two headers over one JSON object, a second object, a blob
event and an unparsable reference; stores that differ in one thing that can go
wrong (an object missing, a row or object unreadable, the transport failing, no
parquet bucket). Two buckets, with an object in both and one only in the second,
so that fallback past and stop at a bucket both happen. The limit is 2, not 50, so that the group is full
with three tasks: everything the limit can do needs one more task than the limit.
Three positions are enough for a leader, its follower, and a failing sibling, which
is the largest number of tasks any of the properties relates.
For the index: up to five rows, among them a voided event, its namesake of another subject,
a tombstone by the wrong source and two events of one time; a maximal limit of 3, so
that a table can hold more than a page; requests for one, two and no subjects, in both
orders, with a type and with time bounds. A second tombstone or a second upload adds
no new interaction: suppression is per row and uploads have separate keys.
For the resolvers: four pairs of aliases over the four calls, a vehicle, a
device and an account, a blob between two events, a tombstone that voids one of them, filters that only
the voided event or only the blob meets, deleted events asked for and not, tokens with each kind of
permission and none, limits absent, zero, below and above the number of rows; `MaxChanges` = 2, so that a
device can be unpaired and paired again, or a row come and an object go,
within one request. No property relates more than two aliases.
For ObjectList: `maxObjectSize` = 2, objects of 0 to 4 bytes with Content-Lengths from -1 to 4 and
none at all, chunks of one or two bytes, up to three keys with a limit of 2: every size is below, at, one past and well past
the limit. For FilterQuery: the real depth limit, 5, with chains of up to 7 conditions below one another, and `Nesting` 8,
a level for each of them and for the filter itself; two
values per column tell IN from NOT IN and any from all; two alternatives suffice for every
separator. For RpcServer: up to two rows, three objects that come and go, limits 0 and 2, and a JSON object with
a base64 payload in one bucket and without in the other. For
ProtoConvert: every kind of header and three trips, the number the two-call protocol makes. For
GraphExec: three shapes of operation that between them have every kind of field, each with every
outcome of its resolvers. For Process: the three servers of main.go and one request of each path and token;
a server drains by itself, and a second request would not meet the first.

**Fairness.** `WF_vars(Step)`: some goroutine that can move does move. The Go
scheduler justifies it, given that a GetObject in flight returns; the HTTP client
and the request's deadline see to that. `CallerCancels` is not fair: nothing
relies on a caller giving up. One weak fairness condition over all of `Step`
suffices, as no step can be repeated forever. In Resolvers
`Step` is a step of any field or the response: gqlgen runs every field, and each call
returns by the request's deadline; `Environment` is not fair. ObjectList and GraphExec have the same
single condition: goroutines run, and a stream yields bytes, ends or breaks. In Process the process's own
steps, a handler's own steps and the expiry of a timer are fair, each by itself; a
library that waits for the network (`Patient`) is fair only once the request's context is done, so
that nothing rests on an answer of the outside world, and signals, failures and new requests are not fair
at all. IndexQuery, RpcServer, ProtoConvert and FilterQuery state safety only: nothing
obliges a client to call again, and a filter's evaluation is one computation.

**Consistent batches.** Two indexes may name one store object. `Consistent` says
that they then agree on what reading it means: parquet references of one object key
on the bucket, JSON references of one key on whether their payload was
externalised (`DataIndexKey`). The runs and the theorems about content assume it,
as eventrepo's grouping (by object key) and its singleflight key (the object key)
do. It fails in two ways:

- *One object key in two buckets.* `ListCloudEventsFromIndexes` groups by object
  key and downloads a group from `items[0].bucket`
  (pkg/eventrepo/eventrepo.go:359 and 374-377), so both rows are read from one
  bucket, while the bucket of each is parsed from its own URI. The run
  `repo_two_buckets` shows it; reading the same two indexes one at a time gives the
  right rows.
- *One JSON key with and without `DataIndexKey`.* The first to lead decides for both. Whether the
  writer of the index can produce such rows is not visible in this repository.

## What is proved

`ListCallProofs` has the facts about the JSON pool that do not depend on what else
runs in the errgroup; `RepoListProofs` and `FetchListProofs` use them for the two functions. The
theorems hold for every set of buckets, names, rows, headers, every batch of any
length, every store and every limit; they assume `StoreAssumption` and
`ListAssumption` (which say no more than that the constants have the right shape)
and, where stated, that the batches are consistent.

| Module | Theorem | States |
|---|---|---|
| RepoListProofs | `TypeCorrect` | `Spec => []TypeOK` |
| | `ListIsExact` | consistent batches: `Spec => []BatchExact` |
| | `NoTaskLeft` | consistent batches: `Spec => []Quiescent` |
| | `ImplementsBatchFetch` | consistent batches: `Spec => BatchPromise`, the refinement |
| | `RowsFromOwnBucket` | consistent batches: `Spec => []OwnBucket` |
| | `DownloadsAreShared` | `Spec => []NoDuplicateDownload`, for any batch |
| | `SlotsWrittenOnce` | `Spec => WriteOnce`, for any batch |
| FetchListProofs | `TypeCorrect` | `Spec => []TypeOK` |
| | `NoGoroutineLeft` | `Spec => []Quiescent`, for any batch |
| | `ImplementsBatchFetch` | consistent batches: `Spec => BatchPromise`, the refinement |
| ObjectListProofs | `ImplementsBatchFetch` | `Spec => BatchPromise`, for any batch |
| | `MemoryIsBounded` | `Spec => []MemoryBounded` |
| IndexQueryProofs | `IndexTypeCorrect` | `Spec => []TypeOK` |
| | `ListsAreExact` | `Spec => []ListIsExact` |
| | `LatestIsRight` | `Spec => []LatestIsNewest` |
| | `SummariesAreRight` | `Spec => []SummariesAreExact` |
| | `StoredObjectsAreRead` | `Spec => []StoredIsReadable` |
| | `FiltersNeverWiden` | `FilterSpec => []NeverWider` |
| | `AnswersAreExact` | `FilterSpec => []AnswersExact` |
| ResolversProofs | `ResolverTypeCorrect` | `Spec => []TypeOK` |
| | `SlotsAreOwn` | `Spec => []OwnSlots` |
| | `AccessIsLinked` | `Spec => []OnlyLinkedSubjects` |
| | `NothingIsNothing` | `Spec => []NothingMeansNothing` |
| | `EmptySourcesAreHarmless` | `Spec => []SiblingsSurvive` |
| GraphExecProofs | `TypeCorrect` | `Spec => []TypeOK` |
| | `PropagatesBySchema` | `Spec => []Propagation` |
| | `LossIsReported` | `Spec => []NoSilentLoss` |
| | `RespondsLast` | `Spec => []Quiescent` |
| | `AnswersAsDefined` | `Spec => Answer!SafeSpec`, the refinement without its fairness |
| ServerProofs | `EndsWell` | `ProcessSpec => []CleanExit` |
| | `ClaimsAreChecked` | `ProcessSpec => []OnlyValidClaims` |
| | `RequestsEndTidy` | `ProcessSpec => []EndsTidy` |
| | `RpcTypeCorrect` | `RpcSpec => []TypeOK` |
| | `PinsWhatWasListed` | `RpcSpec => []TwoCallsPin` |
| | `LeavesOutPayloads` | `RpcSpec => []PayloadsLeftOut` |
| | `StatusesNameCauses` | `RpcSpec => StatusNamesCause` |
| | `OneTripSettles` | `TripSpec => []SettlesAfterOneTrip` |
| | `TripsKeepWhatTheyCan` | `TripSpec => []KeepsWhatItCan` |

The argument. `BatchExact` is not inductive: that a returned slice is right
depends on what each task has done before. The invariant `Inv` adds

- `TypeInv`: types, and that a task past `Do` is attached to a call;
- `ClassInv`: every position the loop has passed is queued somewhere, and the group
  is started only when it has passed all of them;
- `GroupInv`: a parquet group holds references to its own file, and the rows its
  task has copied are served (`Served(i)`: slot *i* is `EventOf` its reference, and
  that reference has no fault); a finished task has copied all of its rows or an
  error is kept;
- `TaskInv`: a JSON task that is not idle is one of `jsonItems`, and was started
  after the classification;
- `JsonInv`: leaders and followers have one key; the buckets a leader has passed
  lack the object; a published payload is the one its leader's index asks for; a
  finished task is served unless an error is kept;
- `ErrInv`: a kept error is a cause (`Causes`); a published error is a cause unless
  an error is already kept.

The step from a published payload to a follower's slot is `SharedPayload`, which needs
`Consistent`; that the leader's loop ends with its index's own answer is
`LoopOutcome`; that a group's file answers for all of its references is
`GroupSharesFile`. When `Return` finds every task done and no error kept, `AllServed`
puts these together. `ErrInv` is what makes the refinement's `Fail` step possible:
a `Canceled` the group inflicted on a sibling can only come second.

`DownloadsAreShared` needs neither consistency nor `Inv`: its invariant
`FlightInv` says that a downloading task leads the call in flight for its key, and
that no two tasks lead one key. Nor does `SlotsWrittenOnce`: a position is an item of one
group, once, or of the JSON list (`GroupedOnce`), and a slot that is written was copied by its group
already or is that of a JSON task that is done (`WrittenBy`); so the next row of a group,
and a task about to return, find theirs empty.

`RowsFromOwnBucket` says when the finding of `repo_two_buckets` cannot happen: whenever the
references of one object key agree on its bucket.

`IndexQueryProofs` is about any table, pool of rows, request and limit, under
`TableAssumption` and `QueryAssumption` (StoreObject's headers void nothing, and
nobody else inserts its rows). Its invariant adds to the properties themselves that the options object
still says what the client wrote, that an upload about to insert its row, or whose row
is there, has its object (`ObjectFirst`), and that an event is read only after a row was
found (`Located`). `SuppressionIsPerSubject` is the step from the clause to its
promise, and fails for two subjects.

The same module is about any filters: any columns and table, any width and depth of conditions, any depth
limit, under `FilterAssumption` (the conditions of a filter are filters, and `Nesting` exceeds the limit) and
`RequestsAssumption` (what a request is converted to has filters in its fields). That an answer belongs to its
request is `FilterStages`; the rest is about the conversion, a pure function. The code's recursion goes
down the depths and the reference's up the levels, so both, and `Plain`, are shown to be what their
equations say (`ModsByDepth`, `MeansByLevel`, `PlainByLevel`): functions of a number, which exist by
`RecursionDefines`. `CombineFacts` is one level: what a filter's parenthesis admits, given what each of
its conditions' mods admit, and when it is empty or refused. It rests on `RowsOfAlternatives`, AND before
OR, for any list of mods, and on `FlattenFacts`, as the mods are appended in loops.
`ModsNarrow` and `ModsExact` put the levels together from the depth limit upwards: `k` levels above the limit,
what is left of a filter admits no more than `k` levels of it mean, and exactly that if it is plain.
Where nothing is left below the limit, `ModsNarrow` starts from the empty set of rows and not from all of them;
that is why a dropped condition narrows. `AnswerOfOptions` ANDs the fields. Each induction counts upwards
by `CountingUp`, which takes the set of numbers for which a fact holds and uses the least number outside it, as
the library's induction theorems cannot be used.

`ResolversProofs` is about any request, any number of aliases, rows and DIDs, and any
number of changes meanwhile, under `ResolverAssumption`. Its invariant is one of the world
(the pairs there are, are among those seen; rows are never removed, so that a tombstone goes on hiding what it
hid, `SuppressionStays`), one of the response, and one of each field:
past each check stands only who passed it (`AccessInv`); the positions the loop has
passed are filled or noted in `nonBlobPos`, and nothing else is noted (`LoopInv`), from which
the assembly fills each empty position with its own event. A step of one resolver
disturbs no other (`OneField`), and a change of the world only adds (`WorldGrows`). `MaxChanges`
is any number here.

`FetchListProofs` is about two errgroups, one inside the other. `GroupsInv` is what quiescence needs: the
outer group is done only when both of its goroutines are, and the one for JSON only when
its own pool is. The rest of its invariant follows the positions: the loop has put each it
passed into one of the two lists (`SplitInv`); what eventrepo was asked, and has answered, is
the sub-batch of the one list (`RepoInv`), which is consistent if the batch is, so that its
promise applies to it; the JSON list is `ListCallProofs`'s (`JsonInv`). A kept error of either group
is a cause (`CauseInv`): a cancellation that one goroutine inflicts on the other
finds the outer group's error already set. Of eventrepo only the promise is used, so
the two refinements together say that fetch over eventrepo keeps it.

`ObjectListProofs` needs no consistency, as nothing is shared. Its `ReadInv` ties the bytes a download has
read to the object's size and Content-Length; where a download ends, `FaultOf` follows from them by
arithmetic, for any size limit. From it a running task holds no more than an object of the largest size and a
byte (`HeldBound`); a second invariant, `SlotInv`, counts the running tasks, of which only `Submit`
makes one more. `HeldBy` adds up what they hold, a recursive function on the positions: that
it exists, and is at most the number of running tasks times the most one holds, is shown by the least position
at which it would not be so (`HeldByExists`, `HeldBySum`), as the library's induction theorems
cannot be used.

`GraphExecProofs` is about any tree of positions. Its invariant says that a complete position has
the value its own outcome and its complete strict children force, and that a null that must
be told has an error at or below it. For the refinement, a
position the execution has started is `Reached`, with an error exactly if it adds one (`ReachedInv`), and one
that is done is null exactly if it is `Lost` (`NullIsLost`, by the last position of the tree at which it would not be so, as children come
after their parents); so the response that is returned is `Reply`, and every other step is a stutter.

`ServerProofs` has three invariants, as Process, RpcServer and ProtoConvert share no variable. The first is about any list of servers with a web and a gRPC server in it. The invariant of the process
follows the group's error: a server that drains or has stopped does so because of a signal or an
earlier error (`GroupInv`), so an error that is a cancellation had a signal before it; a
server that has stopped has no request and will get none (`DrainInv`). That of the request says, place by place of the
chain, what the handlers it passed have put into its context (`ContextInv`) and what is still to
be done on its way out (`DeferInv`).

The second is about any table, store, list of buckets and set of calls, and any writers: what a
client holds is its listing as the wire carries it, name, kind, row and header by name (`HeldInv`); the indexes a handler
goes on to read are the client's own or rows that the query found (`HandlerInv`); and an answer has, at each position, the message of its
own index's event (`ReplyInv`). That a query finds only rows of the table with a wanted
header is `WantedFound`, of a recursive function again. The third is about any event:
`Before` and `After` say what the first trip has made of it, and that what it made, it makes again.

Every safety property that holds in a run is proved. Only model-checked is liveness (`Completes`, both
`Answered`, `EndsWhenTold`, the fair half of `AnswersBySchema`): fairness is beyond the prover.

## What the code does that is worth knowing

Three disagreements between code and comment are runs of their own (`repo_two_buckets`,
`index_two_subjects`, `proto_base64`). The models also follow the code in these, which no comment
denies:

- after a trip over gRPC, integers beyond 2^53 in extras come back rounded, and a time that is absent as
  1970 (pkg/grpc/common.go);
- a gRPC client that lists a blob event and then reads it by its key gets the event without the payload that
  was split out of it (internal/fetch/rpc/rpc.go, `ListIndexes` drops `DataIndexKey`);
- a missing object is Internal to a gRPC client of the methods that query, and NotFound only to one of
  `ListCloudEventsFromIndex` (internal/fetch/rpc/rpc.go);
- filter conditions nested deeper than five, and empty ones, are dropped without an error, and a
  filter of which nothing is left makes the query fail;
- tombstones hide nothing when a subject is asked for otherwise than by `In`;
- two JSON indexes of one key, one with `DataIndexKey` and one without, share whichever answer came
  first (pkg/eventrepo/eventrepo.go:403).

## What is not modelled

Of modules that are there: the wording of errors, tag normalisation, the
decoding of JSON and parquet (an object is readable or not), the spellings of a DID
(the resolvers search for the normalised one), retries inside the AWS
client; suppression when the subject is given otherwise than by In; that
`fetch.GetCloudEventFromIndex` reads a missing parquet object again for every bucket; the
responses after the first one of a request with @defer, which gqlgen's
`ProcessDeferredGroup` makes; mixed JSON keys, which `Consistent` leaves out.

Of the system:

- `S3ReaderAt.ReadAt` copies a range of bytes already downloaded for the parquet library; it has no state
  beyond them;
- `availableCloudEventTypes` is in the schema's tables, its resolver is one authorisation and one query like
  `indexes`;
- the MCP tools (internal/graph/mcp_tools_gen.go) are constant data, and what they ask for runs through the executor;
- query complexity: the limit is fixed, and with no complexity root every field counts one;
- the construction of clients from settings (internal/app/setup.go, internal/config) is a sequence of library
  constructors, of which Lifecycle keeps that each may fail;
- protobuf's wire format and reflection, and introspection beyond its place in the schema.

External, and modelled as the code uses them: errgroup, singleflight, the S3 client, ClickHouse, sqlboiler's
query mods, gqlgen's runtime, the JWT library, the gRPC interceptors, the server runner.
