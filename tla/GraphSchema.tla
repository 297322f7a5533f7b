----------------------------- MODULE GraphSchema -----------------------------
(***************************************************************************)
(* The tables of internal/graph/generated.go: for every object type, what  *)
(* each field is marshalled as, which fields an object cannot do without,  *)
(* and which ones are resolved by goroutines of their own.  The first      *)
(* table is written from the field resolvers and the marshallers they      *)
(* name, the two others from the object functions; the code repeats the    *)
(* nullability of a field in both places, and so do the tables.            *)
(***************************************************************************)

(***************************************************************************)
(* How a field is marshalled: the object type its values have, or a        *)
(* scalar; whether it is a list of them; whether null is allowed in its    *)
(* place (the marshallers marshalO...) or not (marshalN...).               *)
(***************************************************************************)
Scalar == [of |-> "scalar", list |-> FALSE, strict |-> TRUE]
One(type) == [of |-> type, list |-> FALSE, strict |-> TRUE]
Many(type) == [of |-> type, list |-> TRUE, strict |-> TRUE]
OrNull(field) == [field EXCEPT !.strict = FALSE]

QueryFields ==
  [latestIndex |-> OrNull(One("CloudEventIndex")),
   latestCloudEvent |-> OrNull(One("CloudEvent")),
   indexes |-> Many("CloudEventIndex"),
   cloudEvents |-> Many("CloudEvent"),
   availableCloudEventTypes |-> Many("CloudEventTypeSummary"),
   __type |-> OrNull(One("__Type")),
   __schema |-> OrNull(One("__Schema"))]

CloudEventFields ==
  [header |-> One("CloudEventHeader"), data |-> OrNull(Scalar),
   dataBase64 |-> OrNull(Scalar), dataUrl |-> OrNull(Scalar)]

CloudEventHeaderFields ==
  [specversion |-> Scalar, type |-> Scalar, source |-> Scalar,
   subject |-> Scalar, id |-> Scalar, time |-> Scalar,
   datacontenttype |-> OrNull(Scalar), dataschema |-> OrNull(Scalar),
   dataversion |-> OrNull(Scalar), producer |-> Scalar,
   signature |-> OrNull(Scalar), raweventid |-> OrNull(Scalar),
   tags |-> Scalar]

CloudEventIndexFields ==
  [header |-> One("CloudEventHeader"), indexKey |-> Scalar]

CloudEventTypeSummaryFields ==
  [type |-> Scalar, count |-> Scalar, firstSeen |-> Scalar,
   lastSeen |-> Scalar]

__DirectiveFields ==
  [name |-> Scalar, description |-> OrNull(Scalar), isRepeatable |-> Scalar,
   locations |-> Scalar, args |-> Many("__InputValue")]

__EnumValueFields ==
  [name |-> Scalar, description |-> OrNull(Scalar), isDeprecated |-> Scalar,
   deprecationReason |-> OrNull(Scalar)]

__FieldFields ==
  [name |-> Scalar, description |-> OrNull(Scalar),
   args |-> Many("__InputValue"), type |-> One("__Type"),
   isDeprecated |-> Scalar, deprecationReason |-> OrNull(Scalar)]

__InputValueFields ==
  [name |-> Scalar, description |-> OrNull(Scalar), type |-> One("__Type"),
   defaultValue |-> OrNull(Scalar), isDeprecated |-> Scalar,
   deprecationReason |-> OrNull(Scalar)]

__SchemaFields ==
  [description |-> OrNull(Scalar), types |-> Many("__Type"),
   queryType |-> One("__Type"), mutationType |-> OrNull(One("__Type")),
   subscriptionType |-> OrNull(One("__Type")),
   directives |-> Many("__Directive")]

__TypeFields ==
  [kind |-> Scalar, name |-> OrNull(Scalar), description |-> OrNull(Scalar),
   specifiedByURL |-> OrNull(Scalar), fields |-> OrNull(Many("__Field")),
   interfaces |-> OrNull(Many("__Type")),
   possibleTypes |-> OrNull(Many("__Type")),
   enumValues |-> OrNull(Many("__EnumValue")),
   inputFields |-> OrNull(Many("__InputValue")),
   ofType |-> OrNull(One("__Type")), isOneOf |-> OrNull(Scalar)]

(* The whole schema, and the query itself as the one field of no object.   *)
Schema ==
  [Operation |-> [query |-> OrNull(One("Query"))],
   Query |-> QueryFields,
   CloudEvent |-> CloudEventFields,
   CloudEventHeader |-> CloudEventHeaderFields,
   CloudEventIndex |-> CloudEventIndexFields,
   CloudEventTypeSummary |-> CloudEventTypeSummaryFields,
   __Directive |-> __DirectiveFields, __EnumValue |-> __EnumValueFields,
   __Field |-> __FieldFields, __InputValue |-> __InputValueFields,
   __Schema |-> __SchemaFields, __Type |-> __TypeFields]

(***************************************************************************)
(* The fields whose null makes an object function count an Invalid, and so *)
(* turn the whole object into null.                                        *)
(***************************************************************************)
CloudEventRequired == {"header"}
CloudEventHeaderRequired ==
  {"specversion", "type", "source", "subject", "id", "time", "producer",
   "tags"}
CloudEventIndexRequired == {"header", "indexKey"}
CloudEventTypeSummaryRequired == {"type", "count", "firstSeen", "lastSeen"}
QueryRequired == {"indexes", "cloudEvents", "availableCloudEventTypes"}
__DirectiveRequired == {"name", "isRepeatable", "locations", "args"}
__EnumValueRequired == {"name", "isDeprecated"}
__FieldRequired == {"name", "args", "type", "isDeprecated"}
__InputValueRequired == {"name", "type", "isDeprecated"}
__SchemaRequired == {"types", "queryType", "directives"}
__TypeRequired == {"kind"}

Required ==
  [Operation |-> {}, Query |-> QueryRequired,
   CloudEvent |-> CloudEventRequired,
   CloudEventHeader |-> CloudEventHeaderRequired,
   CloudEventIndex |-> CloudEventIndexRequired,
   CloudEventTypeSummary |-> CloudEventTypeSummaryRequired,
   __Directive |-> __DirectiveRequired, __EnumValue |-> __EnumValueRequired,
   __Field |-> __FieldRequired, __InputValue |-> __InputValueRequired,
   __Schema |-> __SchemaRequired, __Type |-> __TypeRequired]

(* The fields an object function hands to FieldSet.Concurrently; it calls  *)
(* the resolvers of the others itself, in the order of the selection.      *)
Spawned(type) ==
  CASE type = "Query" -> {"latestIndex", "latestCloudEvent", "indexes",
                          "cloudEvents", "availableCloudEventTypes"}
    [] type = "CloudEvent" -> {"header", "data", "dataBase64"}
    [] OTHER -> {}

(* The arguments a field takes, which generated code converts, one after   *)
(* the other, before the resolver is called.                               *)
Arguments(type, name) ==
  CASE type = "Query" /\ name \in {"indexes", "cloudEvents"} ->
         {"did", "limit", "filter", "includeDeleted"}
    [] type = "Query" /\ name \in {"latestIndex", "latestCloudEvent",
                                   "availableCloudEventTypes"} ->
         {"did", "filter", "includeDeleted"}
    [] type = "Query" /\ name = "__type" -> {"name"}
    [] type \in {"__Directive", "__Field"} /\ name = "args" -> {"includeDeprecated"}
    [] type = "__Type" /\ name \in {"fields", "enumValues"} -> {"includeDeprecated"}
    [] OTHER -> {}
=============================================================================
