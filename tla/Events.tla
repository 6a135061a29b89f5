------------------------------- MODULE Events -------------------------------
(***************************************************************************)
(* What an application gives to the library and gets from it: the names of *)
(* events (socketio/src/event.rs), payloads (payload.rs), the packets made *)
(* of them (packet.rs), the callbacks registered with a builder, and which *)
(* of these a packet is for (callback and the handlers of both clients).   *)
(***************************************************************************)
EXTENDS Codec

-----------------------------------------------------------------------------
(* Events: the library's own and custom ones.                               *)
Library(name) == [custom |-> FALSE, name |-> name]
Custom(name) == [custom |-> TRUE, name |-> name]

(* From<String>: a name is the library's in any case of letters, and Connect *)
(* goes by the name open.                                                   *)
Lowercase(text) == IF text = "Error" THEN "error" ELSE text
EventOf(text) ==
  IF Lowercase(text) = "open" THEN Library("connect")
  ELSE IF Lowercase(text) \in {"message", "error", "close"} THEN Library(Lowercase(text))
  ELSE Custom(text)

(* as_str(), and From<Event> for String, which knows Connect by its other   *)
(* name.                                                                    *)
AsStr(event) == event.name
StringOf(event) == IF event = Library("connect") THEN "open" ELSE event.name

-----------------------------------------------------------------------------
(* Payloads: values, bytes, or the deprecated string; and the id of the     *)
(* answer that is asked for, if one is.                                     *)
Payload(kind, data) == [kind |-> kind, data |-> data, id |-> <<>>]

Json == {"v", "w"}  \* texts that are JSON, none of them a JSON string
ValueOf(text) == IF text \in Json THEN text ELSE "'" \o text \o "'"

FromValues(values) == Payload("values", values)
FromStrings(texts) == FromValues([i \in DOMAIN texts |-> ValueOf(texts[i])])
FromString(text) == FromStrings(<<text>>)
FromBytes(bytes) == Payload("bytes", bytes)
RawString(text) == Payload("string", <<text>>)

WithAckId(payload, id) == [payload EXCEPT !.id = id]

(* What goes into a packet: a deprecated string as JSON, if it is that.     *)
Values(payload) ==
  IF payload.kind = "string" THEN <<ValueOf(payload.data[1])>> ELSE payload.data

(* A JSON array of values, and back.                                        *)
Array(values) ==
  <<"[">> \o FlattenSeq([i \in DOMAIN values |-> IF i = 1 THEN <<values[1]>> ELSE <<",", values[i]>>])
          \o <<"]">>
Elements(json) == SelectSeq(json, LAMBDA c : c \notin {"[", ",", "]"})

(* new_from_payload: an event whose binary payload asks for an answer is    *)
(* sent as a BinaryAck.                                                     *)
NewFromPayload(payload, event, id) ==
  IF payload.kind = "bytes"
  THEN Packet(IF id # <<>> THEN BinaryAck ELSE BinaryEvent, <<StringOf(event)>>, id, <<payload.data>>)
  ELSE Packet(Event, Array(<<AsStr(event)>> \o Values(payload)), id, <<>>)

AckFromPayload(payload, id) ==
  IF payload.kind = "bytes" THEN Packet(BinaryAck, <<>>, id, <<payload.data>>)
  ELSE Packet(Ack, Array(Values(payload)), id, <<>>)

-----------------------------------------------------------------------------
(* Registrations: on() for the events of some names, on_any().              *)
Registered(names, any) == [on |-> {EventOf(name) : name \in names}, any |-> any]

Call(to, event, payload) == [to |-> to, event |-> event, payload |-> payload]

(* callback(): the callback of the event, then on_any, which hears of the   *)
(* library's events only Message.                                           *)
OnCall(listens, event, payload) ==
  IF event \in listens.on THEN <<Call("on", event, payload)>> ELSE <<>>
AnyCall(listens, event, payload) ==
  IF listens.any /\ (event.custom \/ event = Library("message"))
  THEN <<Call("any", event, payload)>> ELSE <<>>
Callback(listens, event, payload, id) ==
  OnCall(listens, event, WithAckId(payload, id)) \o AnyCall(listens, event, WithAckId(payload, id))

(* handle_event: an array only; the first of several values names the event *)
(* if it is a string.                                                       *)
IsArray(json) == json # <<>> /\ Head(json) = "["
Named(contents) == Len(contents) > 1 /\ contents[1] \notin Json
EventCalls(listens, p) ==
  LET contents == Elements(p.data)
      named == Named(contents)
  IN CASE ~IsArray(p.data) -> <<>>
       [] IsArray(p.data) /\ contents = <<>> ->
            Callback(listens, Library("error"), FromString("incomplete"), <<>>)
       [] IsArray(p.data) /\ contents # <<>> ->
            Callback(listens, IF named THEN EventOf(contents[1]) ELSE Library("message"),
                     FromValues(IF named THEN Tail(contents) ELSE contents), p.id)

(* handle_binary_event: all data is the name, and one attachment is handed  *)
(* out.                                                                     *)
Unquoted(data) == IF Len(data) = 1 THEN data[1] ELSE "garbled"
BinaryEventCalls(listens, p) ==
  IF p.atts = <<>> THEN <<>>
  ELSE Callback(listens, IF p.data = <<>> THEN Library("message") ELSE EventOf(Unquoted(p.data)),
                FromBytes(p.atts[1]), p.id)

(* handle_ack, for the call the id stands for (that each id is answered     *)
(* once is the matter of AckTable): the array of values as one value.       *)
AckCalls(p) ==
  LET call(payload) == Call("ack", Library("ack"), WithAckId(payload, p.id))
  IN IF p.id = <<>> THEN <<>>
     ELSE (IF p.data = <<>> THEN <<>> ELSE <<call(FromValues(p.data))>>)
          \o (IF p.atts = <<>> THEN <<>> ELSE <<call(FromBytes(p.atts[1]))>>)

(* handle_socketio_packet. A Disconnect packet ends the session, which is   *)
(* the matter of AsyncClient and SyncClient.                                *)
Calls(listens, p) ==
  CASE p.nsp # "/" \/ p.type = "1" -> <<>>
    [] p.nsp = "/" /\ p.type = "0" -> Callback(listens, Library("connect"), FromString(""), <<>>)
    [] p.nsp = "/" /\ p.type = "4" -> Callback(listens, Library("error"), FromString("refused"), <<>>)
    [] p.nsp = "/" /\ p.type = Event -> EventCalls(listens, p)
    [] p.nsp = "/" /\ p.type = BinaryEvent -> BinaryEventCalls(listens, p)
    [] p.nsp = "/" /\ p.type \in {Ack, BinaryAck} -> AckCalls(p)
=============================================================================
