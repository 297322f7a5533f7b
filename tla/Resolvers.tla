----------------------------- MODULE Resolvers ------------------------------
(***************************************************************************)
(* The GraphQL resolvers: one request with several aliased fields, which   *)
(* gqlgen resolves concurrently, against an identity service, an index and *)
(* an object store that change meanwhile.                                  *)
(*                                                                         *)
(* An event is abstracted to its index row: a slot of an answer says whose *)
(* header it has, whose payload, and which blob its URL points to.  The    *)
(* batch fetch is used through its promise (BatchFetch): the event of each *)
(* row, or an error.  DIDs are compared as values; their spellings are     *)
(* not modelled.  A row's key is its source and id; a tombstone has in     *)
(* voids the key it voids, and any other row the empty string.  A filter   *)
(* is the set of the rows that meet it; FilterQuery says which they are.   *)
(***************************************************************************)
EXTENDS Integers, Sequences, SequencesExt

CONSTANTS
    Fields,        \* the aliased fields of the request
    Dids,          \* DIDs of vehicles, devices and accounts
    Erc721,        \* those that DecodeERC721DID accepts
    Rows,          \* the index rows that may exist
    DefaultLimit,  \* defaultLimit
    NoLimit,       \* a limit argument that was not given
    None,          \* no DID, no URL, no payload
    Requests,      \* the requests considered
    MaxChanges     \* bound: changes of the world during one request

Calls == {"latestIndex", "indexes", "latestCloudEvent", "cloudEvents"}
Permissions == {"rawData", "locationHistory", "nonLocationHistory"}

(* An includeDeleted that was not given is FALSE (resolveIncludeDeleted).   *)
Question == [call : Calls, did : Dids, limit : Int \cup {NoLimit},
             filter : SUBSET Rows, includeDeleted : BOOLEAN]
Token == [asset : Dids, permissions : SUBSET Permissions]

(* The client's token and fields; whether the server has an identity       *)
(* client; what the index and the identity service hold at first.          *)
Request == [token : Token \cup {None}, asks : [Fields -> Question],
            identity : BOOLEAN, rows : SUBSET Rows,
            aftermarket : [Dids -> Dids \cup {None}],
            synthetic : [Dids -> Dids \cup {None}]]

ASSUME ResolverAssumption ==
    /\ Erc721 \subseteq Dids
    /\ None \notin Dids \cup Rows
    /\ NoLimit \notin Int
    /\ DefaultLimit \in Nat \ {0}
    /\ Rows \subseteq [subject : Dids, key : STRING, blob : BOOLEAN, voids : STRING]
    /\ Requests \subseteq Request
    /\ MaxChanges \in Nat

VARIABLES
    request,      \* the request, as it came in
    aftermarket,  \* the vehicle each device is paired with
    synthetic,    \* likewise, as a synthetic device
    linked,       \* the pairs <<device, vehicle>> seen since the request came
    rows,         \* the index
    gone,         \* the rows whose object has been deleted
    changes,      \* how often the world has changed
    pc,           \* where each field's resolver stands
    list,         \* the rows its query returned
    out,          \* the answer under construction: what the loop has passed
    nonBlobPos,   \* the positions whose event is to be fetched
    outcome,      \* what the resolver returned
    response      \* the response's data

world == <<aftermarket, synthetic, linked, rows, gone, changes>>
resolver == <<pc, list, out, nonBlobPos, outcome>>
vars == <<request, world, resolver, response>>

Ask(f) == request.asks[f]
IsList(f) == Ask(f).call \in {"indexes", "cloudEvents"}

-----------------------------------------------------------------------------
(* Slots of an answer, and outcomes of a resolver. *)

IndexSlot(r) == [header |-> r, payload |-> None, url |-> None]
BlobSlot(r) == [header |-> r, payload |-> None, url |-> r]
EventSlot(r) == [header |-> r, payload |-> r, url |-> None]

Waiting == [kind |-> "waiting", slots |-> <<>>, cause |-> "none"]
Found(slots) == [kind |-> "found", slots |-> slots, cause |-> "none"]
Nothing == [kind |-> "nothing", slots |-> <<>>, cause |-> "none"]
Error(cause) == [kind |-> "error", slots |-> <<>>, cause |-> cause]

Pairs(am, sy) == {p \in Dids \X Dids : am[p[1]] = p[2] \/ sy[p[1]] = p[2]}

Init ==
    /\ request \in Requests
    /\ aftermarket = request.aftermarket
    /\ synthetic = request.synthetic
    /\ linked = Pairs(aftermarket, synthetic)
    /\ rows = request.rows
    /\ gone = {}
    /\ changes = 0
    /\ pc = [f \in Fields |-> "authorize"]
    /\ list = [f \in Fields |-> <<>>]
    /\ out = [f \in Fields |-> <<>>]
    /\ nonBlobPos = [f \in Fields |-> <<>>]
    /\ outcome = [f \in Fields |-> Waiting]
    /\ response = "pending"

-----------------------------------------------------------------------------
(* What a resolver does next, or returns. *)

Goto(f, label) ==
    /\ pc' = [pc EXCEPT ![f] = label]
    /\ UNCHANGED outcome

Return(f, o) ==
    /\ pc' = [pc EXCEPT ![f] = "done"]
    /\ outcome' = [outcome EXCEPT ![f] = o]

Frame == UNCHANGED <<request, world, response>>

(* requireRawDataToken. *)
HasRawData(token) ==
    /\ token # None
    /\ \/ "rawData" \in token.permissions
       \/ {"locationHistory", "nonLocationHistory"} \subseteq token.permissions

(* requireSubjectOptsByDID up to the call to the identity service. *)
Authorize(f) ==
    /\ pc[f] = "authorize"
    /\ IF ~HasRawData(request.token) THEN Return(f, Error("denied"))
       ELSE IF Ask(f).did = request.token.asset THEN Goto(f, "query")
       ELSE IF Ask(f).did \in Erc721 /\ request.identity THEN Goto(f, "lookup")
       ELSE Return(f, Error("denied"))
    /\ UNCHANGED <<list, out, nonBlobPos>>
    /\ Frame

(* GetLinkedDIDForDevice: a device is looked up as both kinds in one       *)
(* request, and the first vehicle of the answer counts.                    *)
LinkedDID(did) ==
    IF aftermarket[did] # None THEN aftermarket[did] ELSE synthetic[did]

(* Mutant of LookUp: any vehicle will do. *)
LookUpPairedOnly(f) ==
    /\ pc[f] = "lookup"
    /\ \/ LinkedDID(Ask(f).did) # None /\ Goto(f, "query")
       \/ Return(f, Error("denied"))
    /\ UNCHANGED <<list, out, nonBlobPos>>
    /\ Frame

(* Mutant of LookUp: it asks again until the answer suits. *)
LookUpAgain(f) ==
    /\ pc[f] = "lookup"
    /\ IF LinkedDID(Ask(f).did) = request.token.asset THEN Goto(f, "query")
       ELSE UNCHANGED <<pc, outcome>>
    /\ UNCHANGED <<list, out, nonBlobPos>>
    /\ Frame

(* An unpaired device and a failing identity service are a denial too. *)
LookUp(f) ==
    /\ pc[f] = "lookup"
    /\ \/ LinkedDID(Ask(f).did) = request.token.asset /\ Goto(f, "query")
       \/ Return(f, Error("denied"))
    /\ UNCHANGED <<list, out, nonBlobPos>>
    /\ Frame

ResolveLimit(limit) ==
    IF limit # NoLimit /\ limit > 0 THEN limit ELSE DefaultLimit

(* A row is hidden when a tombstone of its subject, which need not meet    *)
(* the filter itself, voids its key.                                       *)
Suppressed(table, r) ==
    \E t \in table : t.subject = r.subject /\ t.voids # "" /\ t.voids = r.key

(* The rows the query of a field selects. *)
Selected(f) ==
    {r \in rows \cap Ask(f).filter :
        /\ r.subject = Ask(f).did
        /\ Ask(f).includeDeleted \/ ~Suppressed(rows, r)}

(* The pages a query may answer with; which one it is, is IndexTable's     *)
(* affair.                                                                 *)
Pages(selected, limit) ==
    {page \in UNION {[1..n -> selected] : n \in 1..limit} : IsInjective(page)}

(* Mutant: sql.ErrNoRows is an error like any other. *)
NoRowsIsError == Error("noRows")

(* sql.ErrNoRows: null, or an empty list. *)
NoRows == Nothing

(* Mutant: any error of the query reads as no rows. *)
IndexFailureDropped == NoRows

IndexFailure == Error("index")

QueryIndex(f) ==
    LET ask == Ask(f)
        limit == IF IsList(f) THEN ResolveLimit(ask.limit) ELSE 1
    IN  /\ pc[f] = "query"
        /\ \/ /\ Selected(f) = {}
              /\ Return(f, NoRows)
              /\ UNCHANGED list
           \/ \E page \in Pages(Selected(f), limit) :
                 /\ list' = [list EXCEPT ![f] = page]
                 /\ IF ask.call \in {"latestIndex", "indexes"}
                    THEN Return(f, Found([i \in DOMAIN page |-> IndexSlot(page[i])]))
                    ELSE Goto(f, "assemble")
           \/ Return(f, IndexFailure) /\ UNCHANGED list
        /\ UNCHANGED <<out, nonBlobPos>>
        /\ Frame

(* One turn of the loop over the list: a blob gets its URL, or the resolver *)
(* fails; any other event is left for the fetch.                           *)
PresignBlobs(f) ==
    LET i == Len(out[f]) + 1
        r == list[f][i]
        Put(slot) == out' = [out EXCEPT ![f] = Append(@, slot)]
    IN  /\ pc[f] = "assemble"
        /\ i <= Len(list[f])
        /\ \/ r.blob /\ Put(BlobSlot(r)) /\ UNCHANGED <<pc, outcome, nonBlobPos>>
           \/ r.blob /\ Return(f, Error("blob")) /\ UNCHANGED <<out, nonBlobPos>>
           \/ /\ ~r.blob
              /\ Put(None)
              /\ nonBlobPos' = [nonBlobPos EXCEPT ![f] = Append(@, i)]
              /\ UNCHANGED <<pc, outcome>>
        /\ UNCHANGED list
        /\ Frame

(* Mutant: the position among the fetched events. *)
FetchedPosition(f, n) == n

SlotOf(f, n) == nonBlobPos[f][n]

(* The fetch, which reads no object when every event is a blob, and the    *)
(* assembly.  An object that is gone fails it for certain.                 *)
FetchRest(f) ==
    LET fetched == DOMAIN nonBlobPos[f]
        Row(n) == list[f][nonBlobPos[f][n]]
        Whole == [i \in DOMAIN out[f] |->
                    IF \E n \in fetched : SlotOf(f, n) = i
                    THEN EventSlot(Row(CHOOSE n \in fetched : SlotOf(f, n) = i))
                    ELSE out[f][i]]
    IN  /\ pc[f] = "assemble"
        /\ Len(out[f]) = Len(list[f])
        /\ \/ /\ \A n \in fetched : Row(n) \notin gone
              /\ out' = [out EXCEPT ![f] = Whole]
              /\ Return(f, Found(Whole))
           \/ /\ fetched # {}
              /\ Return(f, Error("object"))
              /\ UNCHANGED out
        /\ UNCHANGED <<list, nonBlobPos>>
        /\ Frame

(* gqlgen: an error in a field that must not be null leaves no data at all; *)
(* in a nullable one it is that field's alone.                             *)
Respond ==
    /\ response = "pending"
    /\ \A f \in Fields : pc[f] = "done"
    /\ response' = IF \E f \in Fields : IsList(f) /\ outcome[f].kind = "error"
                   THEN "null" ELSE "data"
    /\ UNCHANGED <<request, world, resolver>>

Resolve(f) ==
    Authorize(f) \/ LookUp(f) \/ QueryIndex(f) \/ PresignBlobs(f) \/ FetchRest(f)

Step == Respond \/ \E f \in Fields : Resolve(f)

-----------------------------------------------------------------------------
(* The world changes while the request is served. *)

Pair(device, vehicle) ==
    /\ \/ aftermarket' = [aftermarket EXCEPT ![device] = vehicle] /\ UNCHANGED synthetic
       \/ synthetic' = [synthetic EXCEPT ![device] = vehicle] /\ UNCHANGED aftermarket
    /\ linked' = linked \cup Pairs(aftermarket', synthetic')
    /\ UNCHANGED <<rows, gone>>

InsertRow(r) ==
    /\ rows' = rows \cup {r}
    /\ UNCHANGED <<aftermarket, synthetic, linked, gone>>

DeleteObject(r) ==
    /\ gone' = gone \cup {r}
    /\ UNCHANGED <<aftermarket, synthetic, linked, rows>>

Environment ==
    /\ response = "pending"
    /\ changes < MaxChanges
    /\ changes' = changes + 1
    /\ \/ \E device \in Erc721, vehicle \in Dids \cup {None} : Pair(device, vehicle)
       \/ \E r \in Rows \ rows : InsertRow(r)
       \/ \E r \in rows \ gone : DeleteObject(r)
    /\ UNCHANGED <<request, resolver, response>>

Finished == response # "pending" /\ UNCHANGED vars

Next == Step \/ Environment \/ Finished

Spec == Init /\ [][Next]_vars

(* gqlgen runs every field's resolver, and their calls return: the request *)
(* has a deadline.                                                         *)
FairSpec == Spec /\ WF_vars(Step)

-----------------------------------------------------------------------------
Slot == [header : Rows, payload : Rows \cup {None}, url : Rows \cup {None}]
Causes == {"none", "denied", "noRows", "index", "blob", "object"}

(* Types; in particular no slot of an answer is left empty, for the schema *)
(* makes the elements of a list non-null.                                  *)
TypeOK ==
    /\ linked \subseteq Dids \X Dids
    /\ rows \cup gone \subseteq Rows
    /\ changes \in 0..MaxChanges
    /\ pc \in [Fields -> {"authorize", "lookup", "query", "assemble", "done"}]
    /\ \A f \in Fields :
        /\ list[f] \in Seq(rows)
        /\ out[f] \in Seq(Slot \cup {None})
        /\ nonBlobPos[f] \in Seq(DOMAIN list[f])
        /\ outcome[f] \in [kind : {"waiting", "found", "nothing", "error"},
                           slots : Seq(Slot), cause : Causes]
        /\ pc[f] = "done" <=> outcome[f].kind # "waiting"
    /\ response \in {"pending", "data", "null"}

(* A field learns something, were it only that there is nothing, about no  *)
(* subject but the token's own, or a device that was paired with it at     *)
(* some time since the request came, and only with a raw-data permission.  *)
OnlyLinkedSubjects ==
    \A f \in Fields : outcome[f].kind \in {"found", "nothing"} =>
        /\ HasRawData(request.token)
        /\ \/ Ask(f).did = request.token.asset
           \/ <<Ask(f).did, request.token.asset>> \in linked
        /\ \A i \in DOMAIN outcome[f].slots :
               outcome[f].slots[i].header.subject = Ask(f).did

(* An answer has a slot for every row the query returned, at its position, *)
(* and each slot has the header, and either the payload or the blob URL,   *)
(* of its own row: splitting off the blobs and putting the fetched events  *)
(* back between them mixes up nothing.                                     *)
OwnSlots ==
    \A f \in Fields : outcome[f].kind = "found" =>
        /\ DOMAIN outcome[f].slots = DOMAIN list[f]
        /\ \A i \in DOMAIN list[f] :
            LET r == list[f][i]
            IN  outcome[f].slots[i] =
                  IF Ask(f).call \in {"latestIndex", "indexes"} THEN IndexSlot(r)
                  ELSE IF r.blob THEN BlobSlot(r) ELSE EventSlot(r)

(* The schema's "null when none match": a field is told that there is      *)
(* nothing only if every row its subject had when the request came fails   *)
(* its filter or, unless it asked for deleted ones, is voided by a         *)
(* tombstone of that subject.  A failure of the index, or the tombstone of *)
(* another subject, never reads as an absence.                             *)
NothingMeansNothing ==
    \A f \in Fields : outcome[f].kind = "nothing" =>
        \A r \in request.rows \cap Ask(f).filter :
            r.subject = Ask(f).did => ~Ask(f).includeDeleted /\ Suppressed(rows, r)

(* The schema's promise for aliased queries: a source with no event does   *)
(* not take the other aliases' data with it.  Only a list may, that was    *)
(* denied or met a failure of the index, the presigner or the store.       *)
SiblingsSurvive ==
    response = "null" =>
        \E f \in Fields : /\ IsList(f)
                         /\ outcome[f].cause \in {"denied", "index", "blob", "object"}

(* The request is answered, whatever changes meanwhile. *)
Answered == <>(response # "pending")
=============================================================================
