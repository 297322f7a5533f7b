--------------------------- MODULE MCProtoConvert ---------------------------
(***************************************************************************)
(* ProtoConvert on events of every kind of header, and on events whose     *)
(* payload is base64.                                                      *)
(***************************************************************************)
EXTENDS ProtoConvert

GoHeaders ==
  [strings : {"as sent"}, time : {"zero", "set"}, tags : {"nil", "empty", "some"},
   extras : [ExtraNames -> {"text", "int", "bigInt", "bytes", "unmarshalable", "absent"}]]

JsonEvents == [header : GoHeaders, data : {"", "json"}, dataBase64 : {""}]
BinaryEvents == [header : GoHeaders, data : {""}, dataBase64 : {"b64"}]
MCEvents == JsonEvents \cup BinaryEvents
=============================================================================
