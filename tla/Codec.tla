------------------------------- MODULE Codec -------------------------------
(***************************************************************************)
(* The two layers of packets: Socket.IO packets as text with attachments   *)
(* beside it (socketio/src/packet.rs), Engine.IO packets as text or bytes, *)
(* several of them to one polling body (engineio/src/packet.rs).           *)
(*                                                                         *)
(* Text and bytes are sequences of tokens: a character the grammar gives a *)
(* meaning to, a digit, or a name, value or placeholder of the JSON part.  *)
(***************************************************************************)
EXTENDS Naturals, Sequences, SequencesExt

Digits == {"0", "1", "2", "7"}
Namespaces == {"/admin"}        \* other than the default one
RS == "RS"                      \* the separator of payloads, 0x1e
Placeholder(num) == IF num = 0 THEN "ph0" ELSE "ph1"
Digit(n) == <<"0", "1", "2">>[n + 1]
Number(digit) == CHOOSE n \in 0 .. 2 : Digit(n) = digit

-----------------------------------------------------------------------------
(* Socket.IO packets. An id or data that is None is the empty sequence.     *)
Types == {"0", "1", "2", "3", "4", "5", "6"}
Event == "2"
Ack == "3"
BinaryEvent == "5"
BinaryAck == "6"
Binary == {BinaryEvent, BinaryAck}

Packet(type, data, id, atts) ==
  [type |-> type, nsp |-> "/", data |-> data, id |-> id, count |-> Len(atts), atts |-> atts]

EncodeBody(p) ==
  IF p.atts = <<>> THEN p.data
  ELSE <<"[">> \o (IF p.data = <<>> THEN <<>> ELSE p.data \o <<",">>)
              \o <<Placeholder(p.count - 1), "]">>

Encode(p) ==
  <<p.type>>
  \o (IF p.type \in Binary THEN <<Digit(p.count), "-">> ELSE <<>>)
  \o (IF p.nsp # "/" THEN <<p.nsp, ",">> ELSE <<>>)
  \o p.id \o EncodeBody(p)

(* try_from: where the namespace, the id and the JSON part of a text begin  *)
(* (0: only digits are left).                                               *)
NspAt(text) == IF Head(text) \in Binary THEN 4 ELSE 2
IdAt(text) == LET n == NspAt(text)
              IN IF n <= Len(text) /\ text[n] \in Namespaces THEN n + 2 ELSE n
JsonAt(text) == SelectInSubSeq(text, IdAt(text), Len(text), LAMBDA c : c \notin Digits)

IsJson(text) ==
  \/ Len(text) > 1 /\ Head(text) = "[" /\ Last(text) = "]"
  \/ Len(text) = 1 /\ Head(text) \notin {"[", "]", ","}

Decodable(text) ==
  /\ text # <<>> /\ Head(text) \in Types
  /\ Head(text) \in Binary => Len(text) > 2 /\ text[2] \in {"0", "1", "2"} /\ text[3] = "-"
  /\ IdAt(text) > NspAt(text) => NspAt(text) < Len(text) /\ text[NspAt(text) + 1] = ","
  /\ JsonAt(text) > 0 => IsJson(SubSeq(text, JsonAt(text), Len(text)))

(* The data of a binary packet: without brackets, without the placeholder   *)
(* of number 0 and without the comma that is left at its end.               *)
Stripped(json) ==
  LET inner == IF Head(json) = "[" THEN Tail(Front(json)) ELSE json
      plain == SelectSeq(inner, LAMBDA c : c # Placeholder(0))
  IN IF plain # <<>> /\ Last(plain) = "," THEN Front(plain) ELSE plain

(* A packet whose remainder is all digits has neither id nor data.          *)
Decode(text) ==
  LET json == SubSeq(text, JsonAt(text), Len(text))
      binary == Head(text) \in Binary
  IN [type |-> Head(text),
      nsp |-> IF IdAt(text) > NspAt(text) THEN text[NspAt(text)] ELSE "/",
      count |-> IF binary THEN Number(text[2]) ELSE 0,
      id |-> IF JsonAt(text) = 0 THEN <<>> ELSE SubSeq(text, IdAt(text), JsonAt(text) - 1),
      data |-> IF JsonAt(text) = 0 THEN <<>> ELSE IF binary THEN Stripped(json) ELSE json,
      atts |-> <<>>]

-----------------------------------------------------------------------------
(* Engine.IO packets.                                                       *)
EngineIds == {"Open", "Close", "Ping", "Pong", "Message", "Upgrade", "Noop"}
EngineId(byte) ==
  CASE byte = "0" -> "Open" [] byte = "1" -> "Close" [] byte = "2" -> "Ping"
    [] byte = "3" -> "Pong" [] byte = "4" -> "Message" [] byte = "5" -> "Upgrade"
    [] byte = "6" -> "Noop"

(* Base64, as far as it matters here: it is undone by decoding, and its     *)
(* alphabet has no separator.                                               *)
Base64 == [b \in {"a", "4", RS} |-> CASE b = "a" -> "YQ" [] b = "4" -> "NA" [] b = RS -> "Hg"]
ToBase64(bytes) == [i \in DOMAIN bytes |-> Base64[bytes[i]]]
FromBase64(text) ==
  [i \in DOMAIN text |-> CHOOSE b \in DOMAIN Base64 : Base64[b] = text[i]]
IsBase64(text) == \A i \in DOMAIN text : \E b \in DOMAIN Base64 : Base64[b] = text[i]

(* A packet as a transport carries it in text: its id, and binary data in   *)
(* base64.                                                                  *)
EngineByte == [id \in EngineIds \cup {"MessageBinary"} |->
  IF id = "MessageBinary" THEN "b" ELSE CHOOSE byte \in Types : EngineId(byte) = id]
EngineEncode(e) ==
  <<EngineByte[e.id]>> \o (IF e.id = "MessageBinary" THEN ToBase64(e.data) ELSE e.data)

EngineDecodable(bytes) ==
  /\ bytes # <<>>
  /\ IF Head(bytes) = "b" THEN IsBase64(Tail(bytes))
     ELSE /\ Head(bytes) \in Types
          /\ Len(bytes) = 1 => Head(bytes) # "4"

EngineDecode(bytes) ==
  IF Head(bytes) = "b" THEN [id |-> "MessageBinary", data |-> FromBase64(Tail(bytes))]
  ELSE [id |-> EngineId(Head(bytes)), data |-> Tail(bytes)]

(* Payload: packets separated by RS, the separator itself in none of them.  *)
(* cuts[n]: where the separators among the first n bytes are.               *)
Join(seqs) == Tail(FlattenSeq([i \in DOMAIN seqs |-> <<RS>> \o seqs[i]]))
Split(bytes) ==
  LET cuts[n \in 0 .. Len(bytes)] ==
        IF n = 0 THEN <<0>>
        ELSE IF bytes[n] = RS THEN Append(cuts[n - 1], n) ELSE cuts[n - 1]
      ends == Append(cuts[Len(bytes)], Len(bytes) + 1)
  IN [k \in 1 .. Len(ends) - 1 |-> SubSeq(bytes, ends[k] + 1, ends[k + 1] - 1)]
=============================================================================
