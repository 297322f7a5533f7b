----------------------------- MODULE MCGraphExec -----------------------------
(***************************************************************************)
(* The operations GraphExec is checked on: three shapes, each with every   *)
(* choice of what its resolvers give.                                      *)
(***************************************************************************)
EXTENDS GraphExec

F(parent, on, name, gives) ==
  [parent |-> parent, on |-> on, name |-> name, element |-> FALSE,
   gives |-> gives, bad |-> {}, late |-> FALSE]
E(parent, on, name) == [F(parent, on, name, "value") EXCEPT !.element = TRUE]
Late(node) == [node EXCEPT !.late = TRUE]
Query == F(0, "Operation", "query", "value")
Any(on, name) == MayGive(F(1, on, name, "value"))

(* Times can be zero and a filter can hold a time that is none.            *)
ZeroTime == {"value", "nil"}
Filtered(node) == {node, [node EXCEPT !.bad = {"filter"}]}

(* latestIndex { header { id time } indexKey }                             *)
(* cloudEvents { header { time } data }, two events                        *)
TwoRoots ==
  {<<Query, latest,
     F(2, "CloudEventIndex", "header", "value"),
     F(3, "CloudEventHeader", "id", "value"),
     F(3, "CloudEventHeader", "time", t1),
     F(2, "CloudEventIndex", "indexKey", "value"),
     F(1, "Query", "cloudEvents", list),
     E(7, "Query", "cloudEvents"),
     F(8, "CloudEvent", "header", "value"),
     F(9, "CloudEventHeader", "time", t2),
     F(8, "CloudEvent", "data", data),
     E(7, "Query", "cloudEvents"),
     F(12, "CloudEvent", "header", "value"),
     F(13, "CloudEventHeader", "time", t3)>> :
     latest \in UNION {Filtered(F(1, "Query", "latestIndex", g)) :
                         g \in Any("Query", "latestIndex")},
     list \in Any("Query", "cloudEvents"),
     t1 \in ZeroTime, t2 \in ZeroTime, t3 \in ZeroTime,
     data \in {"value", "nil"}}

(* cloudEvents { ... @defer { header { time } } dataUrl dataBase64 }       *)
(* availableCloudEventTypes { type firstSeen }                             *)
DeferredHeader ==
  {<<Query,
     F(1, "Query", "cloudEvents", list),
     E(2, "Query", "cloudEvents"),
     Late(F(3, "CloudEvent", "header", "value")),
     Late(F(4, "CloudEventHeader", "time", t1)),
     F(3, "CloudEvent", "dataUrl", "value"),
     F(3, "CloudEvent", "dataBase64", base64),
     E(2, "Query", "cloudEvents"),
     F(8, "CloudEvent", "header", "value"),
     F(9, "CloudEventHeader", "time", t2),
     F(1, "Query", "availableCloudEventTypes", types),
     E(11, "Query", "availableCloudEventTypes"),
     F(12, "CloudEventTypeSummary", "type", "value"),
     F(12, "CloudEventTypeSummary", "firstSeen", "value")>> :
     list \in Any("Query", "cloudEvents"),
     types \in Any("Query", "availableCloudEventTypes"),
     t1 \in ZeroTime, t2 \in ZeroTime, base64 \in {"value", "nil"}}

(* latestCloudEvent { ... @defer { data } header { time tags } }           *)
(* indexes { indexKey }, none found, and __type { kind ofType { kind } }   *)
NothingFound ==
  {<<Query,
     F(1, "Query", "latestCloudEvent", latest),
     Late(F(2, "CloudEvent", "data", "nil")),
     F(2, "CloudEvent", "header", "value"),
     F(4, "CloudEventHeader", "time", t1),
     F(4, "CloudEventHeader", "tags", "value"),
     list,
     F(1, "Query", "__type", type),
     F(8, "__Type", "kind", "value"),
     F(8, "__Type", "ofType", inner),
     F(10, "__Type", "kind", "value")>> :
     latest \in Any("Query", "latestCloudEvent"),
     list \in UNION {Filtered(F(1, "Query", "indexes", g)) : g \in Any("Query", "indexes")},
     type \in {"value", "nil"}, inner \in {"value", "nil"}, t1 \in ZeroTime}

MCOperations == TwoRoots \union DeferredHeader \union NothingFound
=============================================================================
