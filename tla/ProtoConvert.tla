---------------------------- MODULE ProtoConvert ----------------------------
(***************************************************************************)
(* pkg/grpc/common.go: a cloud event on its way over gRPC and back.  An    *)
(* index makes the trip three times in the two-call protocol: the server   *)
(* lists it, the client sends it back, the server answers with its header. *)
(*                                                                         *)
(* A Go header keeps its strings (one value here: each is copied to the    *)
(* field of its name), its time, tags and extras.  An extra is abstracted  *)
(* to what encoding/json makes of it: text, an integer a float64 holds or  *)
(* one it does not, a []byte, or a value that cannot be marshalled.        *)
(***************************************************************************)
EXTENDS Naturals

CONSTANTS Events,     \* the events sent
          MaxTrips    \* how often an event is sent and received

VARIABLES event,      \* the event as its holder has it
          wire,       \* the message in flight, or None
          trips,      \* trips made
          first,      \* the event as it was after the first trip
          sent        \* the event before the first trip

tripVars == <<event, wire, trips, first, sent>>

None == [none |-> TRUE]

ExtraNames == {"x", "y"}
GoExtra == {"text", "int", "bigInt", "rounded", "bytes", "unmarshalable", "absent"}
WireExtra == {"text", "int", "bigInt", "rounded", "base64", "notJson", "absent"}

CloudEventHeader ==
  [strings : {"as sent", ""}, time : {"zero", "epoch", "set"},
   tags : {"nil", "empty", "some"}, extras : [ExtraNames -> GoExtra]]
RawEvent == [header : CloudEventHeader, data : {"", "json"}, dataBase64 : {"", "b64"}]

(* The messages.  A client may leave out the header or the time, and the   *)
(* getters of a message that is absent return zero values.                 *)
ProtoHeader ==
  [strings : {"as sent", ""}, time : {"absent", "zero", "epoch", "set"},
   tags : {"empty", "some"}, extras : [ExtraNames -> WireExtra]]
ProtoEvent == [header : ProtoHeader \union {None}, data : {"", "json"}]

ASSUME EventsAssumption == Events \subseteq RawEvent /\ MaxTrips \in Nat

-----------------------------------------------------------------------------
TagsOrEmpty(tags) == IF tags = "some" THEN "some" ELSE "empty"

(* json.Marshal, and the extras it fails on are skipped; a []byte becomes  *)
(* a string of its base64.                                                 *)
Marshal(extra) ==
  CASE extra = "unmarshalable" -> "absent"
    [] extra = "bytes" -> "base64"
    [] OTHER -> extra

(* json.Unmarshal into any: numbers become float64; what is no JSON is     *)
(* kept as bytes.                                                          *)
Unmarshal(bytes) ==
  CASE bytes = "bigInt" -> "rounded"
    [] bytes = "base64" -> "text"
    [] bytes = "notJson" -> "bytes"
    [] OTHER -> bytes

CloudEventHeaderToProto(header) ==
  [strings |-> header.strings, time |-> header.time,
   tags |-> TagsOrEmpty(header.tags),
   extras |-> [name \in ExtraNames |-> Marshal(header.extras[name])]]

ZeroHeader == [strings |-> "", time |-> "zero", tags |-> "nil",
               extras |-> [name \in ExtraNames |-> "absent"]]

(* Mutant: extras are handed on as the bytes they arrived in. *)
AsCloudEventHeaderRaw(proto) ==
  IF proto = None THEN ZeroHeader
  ELSE [strings |-> proto.strings,
        time |-> IF proto.time = "absent" THEN "epoch" ELSE proto.time,
        tags |-> TagsOrEmpty(proto.tags),
        extras |-> [name \in ExtraNames |->
                      IF proto.extras[name] = "absent" THEN "absent" ELSE "bytes"]]

(* An absent time is the one of a nil Timestamp.                           *)
AsCloudEventHeader(proto) ==
  IF proto = None THEN ZeroHeader
  ELSE [strings |-> proto.strings,
        time |-> IF proto.time = "absent" THEN "epoch" ELSE proto.time,
        tags |-> TagsOrEmpty(proto.tags),
        extras |-> [name \in ExtraNames |-> Unmarshal(proto.extras[name])]]

(* Mutant: the header of the answer is built without its extras. *)
CloudEventToProtoBare(e) ==
  [header |-> [CloudEventHeaderToProto(e.header) EXCEPT
                 !.extras = [name \in ExtraNames |-> "absent"]],
   data |-> e.data]
CloudEventToProto(e) ==
  [header |-> CloudEventHeaderToProto(e.header), data |-> e.data]

AsRawCloudEvent(proto) ==
  [header |-> AsCloudEventHeader(proto.header), data |-> proto.data, dataBase64 |-> ""]

-----------------------------------------------------------------------------
(* What a client may send that this code would not: no header, no time, an *)
(* extra that is no JSON.                                                  *)
Foreign ==
  {[header |-> h, data |-> "json"] :
     h \in {None} \union
           [strings : {"as sent"}, time : {"absent", "set"}, tags : {"empty"},
            extras : [ExtraNames -> {"notJson", "int"}]]}

ASSUME ForeignAssumption == Foreign \subseteq ProtoEvent

TripInit ==
  /\ (event \in Events /\ wire = None) \/ (event = None /\ wire \in Foreign)
  /\ sent = event /\ first = None /\ trips = 0

Send ==
  /\ wire = None /\ trips < MaxTrips
  /\ wire' = CloudEventToProto(event) /\ event' = None
  /\ UNCHANGED <<trips, first, sent>>

Receive ==
  /\ wire # None
  /\ event' = AsRawCloudEvent(wire) /\ wire' = None
  /\ trips' = trips + 1
  /\ first' = IF first = None THEN event' ELSE first
  /\ UNCHANGED sent

TripNext == Send \/ Receive
TripSpec == TripInit /\ [][TripNext]_tripVars

-----------------------------------------------------------------------------
(* Properties.                                                             *)

(* One trip settles an event that a program made: however often its header *)
(* goes to and fro between client and server, every holder sees what the   *)
(* first one saw.  A message with extras that are no JSON takes one trip   *)
(* more: they turn into bytes, and those into a string.  So does one with  *)
(* no header, whose tags are nil until it has been sent on.                *)
Settled(e) ==
  [header |-> [strings |-> e.header.strings, time |-> e.header.time,
               tags |-> TagsOrEmpty(e.header.tags),
               extras |-> [name \in ExtraNames |->
                             IF e.header.extras[name] = "bytes" THEN "text"
                             ELSE e.header.extras[name]]],
   data |-> e.data, dataBase64 |-> e.dataBase64]

SettlesAfterOneTrip ==
  event # None /\ trips > 0 => event = IF trips > 1 THEN Settled(first) ELSE first

(* A trip keeps the strings, the time, the JSON payload and every extra    *)
(* that JSON can carry, and tags are never nil after it.                   *)
KeepsWhatItCan ==
  event # None /\ trips > 0 /\ sent # None =>
    /\ event.header.strings = sent.header.strings
    /\ event.header.time = sent.header.time
    /\ event.data = sent.data
    /\ event.header.tags = TagsOrEmpty(sent.header.tags)
    /\ \A name \in ExtraNames :
         sent.header.extras[name] \notin {"unmarshalable", "absent"} =>
           event.header.extras[name] # "absent"

(* What common_test.go says of the two conversions: an event goes there    *)
(* and back "without losing data", "regardless of structure changes".  Of  *)
(* the payload that is false: CloudEventToProto drops one in base64.       *)
PayloadSurvives ==
  event # None /\ trips > 0 /\ sent # None =>
    event.data = sent.data /\ event.dataBase64 = sent.dataBase64
=============================================================================
