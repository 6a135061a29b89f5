-------------------------------- MODULE Link --------------------------------
(***************************************************************************)
(* A connection end to end: the transport is built (Handshake), then tasks *)
(* of the application send packets over it (Socket::send, Engine.IO emit,  *)
(* the transports' emit) and a reader turns what the peer sends into calls *)
(* of user callbacks (the transports' poll, payloads, the assembly of      *)
(* attachments, the handlers), with the packets of Codec and the payloads  *)
(* and callbacks of Events. The synchronous client makes the calls of a    *)
(* packet as it reads it. The asynchronous one spawns a task for them,     *)
(* which runs when the executor gets to it, and cuts the tasks that are    *)
(* left when its packet stream ends.                                       *)
(*                                                                         *)
(* The peer follows the protocol and is not part of the repository. How a  *)
(* connection is lost is the matter of AsyncClient and SyncClient; here it *)
(* stays up, and bytes arrive in order.                                    *)
(***************************************************************************)
EXTENDS Handshake, Events

CONSTANTS
  Senders,        \* tasks of the application that send, each one packet
  BinaryRequests, \* does the application pass bytes to emit_with_ack()?
  MaxPackets      \* BOUND: packets of both directions

ASSUME LinkAssumption == BinaryRequests \in BOOLEAN /\ MaxPackets \in Nat

VARIABLES
  async,     \* the asynchronous client?
  listens,   \* the names the application registered callbacks for, and on_any
  wire,      \* frames or polling bodies under way to the client
  todo,      \* Engine.IO packets of the payload being read
  part,      \* the Socket.IO packet that waits for attachments, if any
  ended,     \* has the packet stream ended with an error?
  dispatched, \* calls of user callbacks, in the order their packets are read
  tasks,     \* spawned tasks that have calls to make, first and last of them
  made,      \* which of the calls have been made
  left,      \* BOUND: packets that may still be sent
  job,       \* attachments a sender has yet to send
  peerPart,  \* the peer's packet that waits for attachments
  got,       \* packets the peer received, as it understands them
  due,       \* HISTORY: the calls the peer's packets ask for, as far as they can arrive
  spoilt,    \* HISTORY: did the carrier cut or garble a packet?
  emitted,   \* HISTORY: what the application sent, in the order the headers went out
  mixed      \* HISTORY: did another send come between a header and its attachments?

callVars == <<dispatched, tasks, made>>
readVars == <<wire, todo, part, ended, callVars, due, spoilt>>
sendVars == <<job, peerPart, got, emitted, mixed>>
client == <<buildVars, async, listens>>
vars == <<client, left, readVars, sendVars>>

Messages == {"Message", "MessageBinary"}
Prefix(s, n) == SubSeq(s, 1, n)

-----------------------------------------------------------------------------
(* handle_engineio_packet: attachments are whatever messages come next; an  *)
(* Engine.IO packet of another kind is an error there and passed over       *)
(* elsewhere.                                                               *)
Nothing(ok) == [part |-> <<>>, packets |-> <<>>, ok |-> ok]
Held(p) ==
  IF Len(p.atts) = p.count THEN [Nothing(TRUE) EXCEPT !.packets = <<p>>]
                           ELSE [Nothing(TRUE) EXCEPT !.part = <<p>>]

Assembled(waiting, e) ==
  CASE e.id \notin Messages -> Nothing(waiting = <<>>)
    [] e.id \in Messages /\ waiting # <<>> -> Held([waiting[1] EXCEPT !.atts = Append(@, e.data)])
    [] e.id \in Messages /\ waiting = <<>> ->
         IF Decodable(e.data) THEN Held(Decode(e.data)) ELSE Nothing(FALSE)

-----------------------------------------------------------------------------
(* The peer. It sends events with values and with attachments, one with a   *)
(* name of the library's, one without a name, one of another namespace,     *)
(* answers, and Pings, several packets at a time.                           *)
Blobs == {<<"a">>, <<"a", RS, "4", "a">>, <<>>}

Meaning(type, name, values, blobs, id) ==
  [type |-> type, nsp |-> "/", name |-> name, values |-> values, blobs |-> blobs, id |-> id]

Meanings ==
  {Meaning(Event, <<"ev">>, <<"v">>, <<>>, <<"1">>),
   [Meaning(Event, <<"ev">>, <<"v">>, <<>>, <<>>) EXCEPT !.nsp = "/admin"],
   Meaning(Event, <<"error">>, <<"v", "w">>, <<>>, <<>>),
   Meaning(Event, <<>>, <<"v">>, <<>>, <<>>),
   Meaning("4", <<>>, <<"v">>, <<>>, <<>>),
   Meaning(Ack, <<>>, <<"v", "w">>, <<>>, <<"7">>),
   Meaning(BinaryAck, <<>>, <<>>, <<<<"a">>>>, <<"7">>),
   Meaning(BinaryEvent, <<"ev">>, <<>>, <<<<"a">>, <<"4">>>>, <<>>)}
  \cup {Meaning(BinaryEvent, <<"ev">>, <<>>, <<blob>>, <<>>) : blob \in Blobs}

(* Its packet for a meaning, and that packet's text.                        *)
PeerPacket(m) ==
  [Packet(m.type, IF m.type \in Binary THEN m.name ELSE Array(m.name \o m.values), m.id, m.blobs)
     EXCEPT !.nsp = m.nsp]

PeerText(p) ==
  IF p.count = 2
  THEN <<p.type, "2", "-", "[">> \o p.data \o <<",", Placeholder(0), ",", Placeholder(1), "]">>
  ELSE Encode(p)

Frame(binary, data) == [binary |-> binary, data |-> data]

(* An Engine.IO packet as its transport carries it: over polling as text    *)
(* with base64, over the websocket as a text or a binary message. A binary  *)
(* message is read with the byte 4 before it.                               *)
PollingFrame(e) == Frame(FALSE, EngineEncode(e))
WebsocketFrame(e) ==
  IF e.id = "MessageBinary" THEN Frame(TRUE, e.data) ELSE Frame(FALSE, EngineEncode(e))
OnWire(e, transport) == IF transport = "polling" THEN PollingFrame(e) ELSE WebsocketFrame(e)
Incoming(frame) == (IF frame.binary THEN <<"4">> ELSE <<>>) \o frame.data

Attachments(p) == [i \in DOMAIN p.atts |-> [id |-> "MessageBinary", data |-> p.atts[i]]]
PeerFrames(p, transport) ==
  LET engine == <<[id |-> "Message", data |-> PeerText(p)]>> \o Attachments(p)
  IN [i \in DOMAIN engine |-> OnWire(engine[i], transport)]

(* What the peer sends at once, as websocket messages or as one body.       *)
Batches == SeqOf(Meanings, MaxPackets) \ {<<>>}
FramesOf ==
  [transport \in Transports |-> [batch \in Batches |->
     FlattenSeq([i \in DOMAIN batch |-> PeerFrames(PeerPacket(batch[i]), transport)])]]
BodyOf ==
  [batch \in Batches |->
     LET frames == FramesOf["polling"][batch] IN Join([i \in DOMAIN frames |-> frames[i].data])]

(* The asynchronous polling transport hands on a body in the chunks it      *)
(* arrives in; the synchronous one reads it whole.                          *)
Chunks(body) ==
  {<<Frame(FALSE, body)>>} \cup
  {<<Frame(FALSE, Prefix(body, cut)), Frame(FALSE, SubSeq(body, cut + 1, Len(body)))>> :
     cut \in IF async THEN 1 .. Len(body) - 1 ELSE {}}

Carried(batch) ==
  IF carrier = "websocket" THEN {FramesOf["websocket"][batch]} ELSE Chunks(BodyOf[batch])

(* A websocket message that the reader takes apart or takes for nothing,    *)
(* and a packet that is not read as it was meant over a transport: one with *)
(* such a message, and, over each, one with a second attachment, since the  *)
(* name and the attachments after the first are then lost.                  *)
Garbled(m) == \E i \in DOMAIN m.blobs : m.blobs[i] = <<>> \/ Contains(m.blobs[i], RS)
ReadsAsMeant(m, transport) == Len(m.blobs) < 2 /\ (transport = "polling" \/ ~Garbled(m))
Misread(m) == ~ReadsAsMeant(m, carrier)

(* The calls a packet asks for, by the names an application registered: an  *)
(* event's callback and, for names that are not the library's, on_any, with *)
(* its values or its attachment.                                            *)
Heard(m, to) ==
  LET name == IF m.type = "4" THEN "error" ELSE IF m.name = <<>> THEN "message" ELSE m.name[1]
      payload == IF m.type = "4" THEN FromString("refused")
                 ELSE IF m.blobs = <<>> THEN FromValues(m.values) ELSE FromBytes(m.blobs[1])
  IN Call(to, EventOf(name), WithAckId(payload, m.id))

AsksFor(m, ears) ==
  LET event == Heard(m, "on").event
      on == \E name \in ears.names : EventOf(name) = event
      any == ears.any /\ event.name \notin {"error", "connect", "close"}
  IN CASE m.nsp # "/" -> <<>>
       [] m.type = Ack -> <<Call("ack", Library("ack"), WithAckId(FromValues(Array(m.values)), m.id))>>
       [] m.type = BinaryAck -> <<Call("ack", Library("ack"), WithAckId(FromBytes(m.blobs[1]), m.id))>>
       [] OTHER -> (IF on THEN <<Heard(m, "on")>> ELSE <<>>) \o (IF any THEN <<Heard(m, "any")>> ELSE <<>>)

(* The calls of the packets of a batch before the first that is misread.    *)
DueOf(batch) ==
  LET misread == SelectInSeq(batch, Misread)
      intact == IF misread = 0 THEN batch ELSE Prefix(batch, misread - 1)
  IN FlattenSeq([i \in DOMAIN intact |-> AsksFor(intact[i], listens)])

PeerSends ==
  /\ Built
  /\ \E batch \in Batches :
       /\ Len(batch) <= left
       /\ left' = left - Len(batch)
       /\ \E items \in Carried(batch) :
            LET misread == SelectInSeq(batch, Misread) > 0
                cut == carrier = "polling" /\ (Len(items) > 1 \/ misread)
            IN /\ wire' = wire \o items
               /\ spoilt' = (spoilt \/ cut \/ misread)
               /\ due' = IF spoilt \/ cut THEN due ELSE due \o DueOf(batch)
  /\ UNCHANGED <<client, todo, part, ended, callVars, sendVars>>

PeerPings ==
  /\ Built /\ left > 0
  /\ left' = left - 1
  /\ wire' = Append(wire, OnWire([id |-> "Ping", data |-> <<>>], carrier))
  /\ UNCHANGED <<client, todo, part, ended, callVars, due, spoilt, sendVars>>

-----------------------------------------------------------------------------
(* The calls of a packet: made at once, or left to a task that is spawned   *)
(* for them next to those kept of the tasks there are.                      *)
Dispatches(calls, kept) ==
  LET task == [next |-> Len(dispatched) + 1, last |-> Len(dispatched) + Len(calls)]
  IN /\ dispatched' = dispatched \o calls
     /\ tasks' = IF async /\ calls # <<>> THEN kept \cup {task} ELSE kept
     /\ made' = IF async THEN made ELSE made \cup task.next .. task.last

(* The reader. What Engine.IO cannot decode ends the session: the stream of *)
(* the asynchronous client, and the synchronous one reconnects. At a        *)
(* Socket.IO packet it cannot decode it goes on with the next one. Either   *)
(* way a callback for errors is told; in the asynchronous client its task   *)
(* is the only one to survive the end of the stream, which comes next.      *)
Told ==
  Callback(Registered(listens.names, listens.any), Library("error"), FromString("undecodable"), <<>>)

(* The task of the error is cut like the others.                            *)
Fails_Plain(ends) ==
  /\ part' = <<>>
  /\ ended' = ends
  /\ dispatched' = dispatched \o Told
  /\ tasks' = {}
  /\ made' = IF async THEN made
             ELSE made \cup Len(dispatched) + 1 .. Len(dispatched) + Len(Told)

Fails(ends) ==
  /\ part' = <<>>
  /\ ended' = ends
  /\ Dispatches(Told, {})

(* The packets left of a payload are dropped when the next one is polled.   *)
Receives_DropsRest ==
  /\ Built /\ ~ended /\ wire # <<>>
  /\ wire' = Tail(wire)
  /\ \E packets \in {Split(Incoming(Head(wire)))} :
        IF \A i \in DOMAIN packets : EngineDecodable(packets[i])
        THEN /\ todo' = [i \in DOMAIN packets |-> EngineDecode(packets[i])]
             /\ UNCHANGED <<part, ended, callVars>>
        ELSE Fails(TRUE) /\ todo' = <<>>
  /\ UNCHANGED <<client, left, due, spoilt, sendVars>>

(* The transport's next message is decoded as a payload: one packet that    *)
(* cannot be decoded spoils all.                                            *)
Receives ==
  /\ Built /\ ~ended /\ todo = <<>> /\ wire # <<>>
  /\ wire' = Tail(wire)
  /\ \E packets \in {Split(Incoming(Head(wire)))} :
        IF \A i \in DOMAIN packets : EngineDecodable(packets[i])
        THEN /\ todo' = [i \in DOMAIN packets |-> EngineDecode(packets[i])]
             /\ UNCHANGED <<part, ended, callVars>>
        ELSE Fails(TRUE) /\ UNCHANGED todo
  /\ UNCHANGED <<client, left, due, spoilt, sendVars>>

(* What the builder was given: on() for two names and on_any(), or one name. *)
Listens == {[names |-> {"ev", "Error"}, any |-> TRUE], [names |-> {"message"}, any |-> FALSE]}

(* Socket::stream, Socket::poll and the handlers.                           *)
CallsFor(packets, ears) ==
  FlattenSeq([i \in DOMAIN packets |-> Calls(Registered(ears.names, ears.any), packets[i])])

Handles ==
  /\ Built /\ ~ended /\ todo # <<>>
  /\ todo' = Tail(todo)
  /\ \E next \in {Assembled(part, Head(todo))} :
        IF next.ok
        THEN /\ part' = next.part
             /\ Dispatches(CallsFor(next.packets, listens), tasks)
             /\ UNCHANGED ended
        ELSE Fails(async)
  /\ UNCHANGED <<client, left, wire, due, spoilt, sendVars>>

(* A task makes its next call. Tasks run in any order; the callbacks of one  *)
(* packet are awaited one after the other.                                   *)
Runs(task) ==
  /\ made' = made \cup {task.next}
  /\ tasks' = (tasks \ {task})
               \cup {next \in {[task EXCEPT !.next = @ + 1]} : task.next < task.last}
  /\ UNCHANGED <<client, left, wire, todo, part, ended, dispatched, due, spoilt, sendVars>>

(* What the codecs compute for one packet of the peer that arrives as it was *)
(* sent: none of its frames is taken apart, each is decoded, the header waits *)
(* for the attachments, and with the last frame the calls are made that the   *)
(* packet asks for.                                                           *)
Waiting(m, i) ==
  IF i \in {0, Len(m.blobs) + 1} THEN <<>>
  ELSE <<[Decode(PeerText(PeerPacket(m))) EXCEPT !.atts = Prefix(m.blobs, i - 1)]>>

Arrives(m, transport, ears) ==
  \A i \in 1 .. Len(m.blobs) + 1 :
    LET frame == PeerFrames(PeerPacket(m), transport)[i]
        bytes == Incoming(frame)
        next == Assembled(Waiting(m, i - 1), EngineDecode(bytes))
    IN /\ frame.data \in Seq(Range(frame.data))
       /\ ~Contains(bytes, RS) /\ EngineDecodable(bytes)
       /\ next.ok /\ next.part = Waiting(m, i)
       /\ CallsFor(next.packets, ears) = IF i <= Len(m.blobs) THEN <<>> ELSE AsksFor(m, ears)

(* Of no parameter of this module: TLC computes that it is so, and LinkProofs *)
(* has it from here.                                                          *)
ASSUME ReadingAssumption ==
  \A m \in Meanings, transport \in Transports, ears \in Listens :
    ReadsAsMeant(m, transport) => Arrives(m, transport, ears)

-----------------------------------------------------------------------------
(* The senders.                                                             *)
(* emit(), emit_with_ack(), and ack() and ack_with_id() with an id that an  *)
(* event brought, each for payloads made in another way.                    *)
Contents == {FromStrings(<<"v", "word">>), FromBytes(<<"a", RS, "4", "a">>)}
Emits ==
  {[name |-> <<"ev">>, payload |-> payload, id |-> <<>>] : payload \in Contents}
  \cup {[name |-> <<"message">>, payload |-> RawString("word"), id |-> <<>>]}
EmitsWithAck(bytes) ==
  {[name |-> <<"ev">>, payload |-> payload, id |-> <<"1">>] :
     payload \in {content \in Contents : bytes \/ content.kind # "bytes"}}

Answers ==
  {[name |-> <<>>, payload |-> payload, id |-> id] :
     payload \in {FromValues(<<"v">>), FromBytes(<<>>)}, id \in {<<>>, <<"1">>}}

Requests(bytes) == Emits \cup EmitsWithAck(bytes) \cup Answers

(* An answer names an id that an event brought to its callback, or none.    *)
Answerable(asked) ==
  asked \in Answers /\ asked.id # <<>> =>
    \E i \in made : dispatched[i].to = "on" /\ dispatched[i].payload.id = asked.id

PacketOf(asked) ==
  IF asked.name = <<>> THEN AckFromPayload(asked.payload, asked.id)
  ELSE NewFromPayload(asked.payload, EventOf(asked.name[1]), asked.id)

(* What the application means by it, and what the peer understands: an      *)
(* event or an answer, with values in text or bytes in an attachment.       *)
Meant(asked) ==
  [answer |-> asked.name = <<>>, name |-> asked.name, content |-> Values(asked.payload), id |-> asked.id]

Understood(p) ==
  LET named == p.type \in {Event, BinaryEvent} \/ (p.type = BinaryAck /\ p.data # <<>>)
      texts == Elements(p.data)
  IN [answer |-> p.type \in {Ack, BinaryAck},
      name |-> IF named THEN <<Head(texts)>> ELSE <<>>,
      content |-> IF p.type \in Binary THEN p.atts[1] ELSE IF named THEN Tail(texts) ELSE texts,
      id |-> p.id]

(* send(): the packet, then its attachments, each an emit of its own.       *)
Frames(p) == <<[id |-> "Message", data |-> Encode(p)]>> \o Attachments(p)

(* What the peer makes of a frame: over polling it undoes the base64, over  *)
(* the websocket a binary message is an attachment as it is.                *)
PeerDecodes(frame) ==
  IF frame.binary THEN [id |-> "MessageBinary", data |-> frame.data] ELSE EngineDecode(frame.data)

Reads(waiting, e, transport) == Assembled(waiting, PeerDecodes(OnWire(e, transport)))
Gets(next) == [i \in DOMAIN next.packets |-> Understood(next.packets[i])]

PeerTakes(e) ==
  \E next \in {Reads(peerPart, e, carrier)} :
     /\ peerPart' = next.part
     /\ got' = got \o Gets(next)

(* What the codecs compute for one packet that reaches the peer undisturbed: *)
(* it is put together from its header and its attachment, if it has one, and *)
(* understood as it was meant.                                              *)
RoundTrip(asked, transport) ==
  LET frames == Frames(PacketOf(asked))
      first == Reads(<<>>, Head(frames), transport)
      last == Reads(first.part, Head(Tail(frames)), transport)
  IN \/ Tail(frames) = <<>> /\ first.part = <<>> /\ Gets(first) = <<Meant(asked)>>
     \/ /\ Tail(frames) # <<>> /\ Tail(Tail(frames)) = <<>>
        /\ Gets(first) = <<>>
        /\ last.part = <<>> /\ Gets(last) = <<Meant(asked)>>

(* Of no parameter of this module: TLC computes that it is so, and LinkProofs *)
(* has it from here.                                                        *)
ASSUME CodecAssumption ==
  \A asked \in Requests(FALSE), transport \in Transports : RoundTrip(asked, transport)

(* The attachments are not sent.                                            *)
Begins_Bare(s) ==
  /\ Built /\ left > 0 /\ job[s] = <<>>
  /\ left' = left - 1
  /\ \E asked \in Requests(BinaryRequests) :
       /\ Answerable(asked)
       /\ PeerTakes(Head(Frames(PacketOf(asked))))
       /\ emitted' = Append(emitted, Meant(asked))
  /\ mixed' = (mixed \/ \E r \in Senders : job[r] # <<>>)
  /\ UNCHANGED <<client, readVars, job>>

Begins(s) ==
  /\ Built /\ left > 0 /\ job[s] = <<>>
  /\ left' = left - 1
  /\ \E asked \in Requests(BinaryRequests) :
       /\ Answerable(asked)
       /\ PeerTakes(Head(Frames(PacketOf(asked))))
       /\ job' = [job EXCEPT ![s] = Tail(Frames(PacketOf(asked)))]
       /\ emitted' = Append(emitted, Meant(asked))
  /\ mixed' = (mixed \/ \E r \in Senders : job[r] # <<>>)
  /\ UNCHANGED <<client, readVars>>

Continues(s) ==
  /\ job[s] # <<>>
  /\ PeerTakes(Head(job[s]))
  /\ job' = [job EXCEPT ![s] = Tail(@)]
  /\ UNCHANGED <<client, left, readVars, emitted, mixed>>

(* The emit of an attachment fails, or the task that awaits it is dropped.  *)
Abandons(s) ==
  /\ job[s] # <<>>
  /\ job' = [job EXCEPT ![s] = <<>>]
  /\ mixed' = TRUE
  /\ UNCHANGED <<client, left, readVars, peerPart, got, emitted>>

-----------------------------------------------------------------------------
Init ==
  /\ HandshakeInit /\ async \in BOOLEAN /\ left = MaxPackets
  /\ listens \in Listens
  /\ wire = <<>> /\ todo = <<>> /\ part = <<>> /\ ended = FALSE
  /\ dispatched = <<>> /\ tasks = {} /\ made = {}
  /\ due = <<>> /\ spoilt = FALSE
  /\ job = [s \in Senders |-> <<>>] /\ peerPart = <<>> /\ got = <<>>
  /\ emitted = <<>> /\ mixed = FALSE

Next ==
  \/ Builds /\ UNCHANGED <<async, listens, left, readVars, sendVars>>
  \/ PeerSends \/ PeerPings \/ Receives \/ Handles
  \/ \E task \in tasks : Runs(task)
  \/ \E s \in Senders : Begins(s) \/ Continues(s) \/ Abandons(s)

Spec == Init /\ [][Next]_vars

(* The reader runs as long as the stream has not ended; the executor runs   *)
(* the tasks it was given, and user callbacks return.                       *)
ReaderSpec ==
  Spec /\ WF_vars(Receives) /\ WF_vars(Handles) /\ WF_vars(\E task \in tasks : Runs(task))

-----------------------------------------------------------------------------
(* Types; a packet that waits for attachments has not got them all.         *)
TypeOK ==
  /\ HandshakeTypeOK /\ async \in BOOLEAN /\ left \in 0 .. MaxPackets
  /\ \A i \in DOMAIN wire : wire[i].binary \in BOOLEAN
  /\ \A i \in DOMAIN todo : todo[i].id \in EngineIds \cup {"MessageBinary"}
  /\ \A p \in {part, peerPart} : Len(p) <= 1 /\ (p # <<>> => Len(p[1].atts) < p[1].count)
  /\ made \subseteq DOMAIN dispatched
  /\ \A task \in tasks : task.next <= task.last /\ task.next .. task.last \subseteq DOMAIN dispatched
  /\ ended \in BOOLEAN /\ spoilt \in BOOLEAN /\ mixed \in BOOLEAN
  /\ \A s \in Senders : \A i \in DOMAIN job[s] : job[s][i].id = "MessageBinary"

(* A client is built on a transport the server reads its session from: one  *)
(* that was probed and announced, or that no upgrade was tried on, whatever *)
(* failed on the way and however far the server had got when it did; and    *)
(* what it requests names that session, unless the websocket opened it.     *)
SessionServed ==
  Built => /\ sid # 0 /\ serves[sid] = carrier
           /\ base.transport = carrier
           /\ base.sid = IF mode = "Websocket" THEN 0 ELSE sid

(* What callbacks are called for is what the peer sent, with its values and *)
(* its attachment, in its order, and each call is made once: over the       *)
(* websocket up to the first packet that has a second attachment or one     *)
(* that is empty or contains a separator byte, over polling up to the first *)
(* body that holds a packet with a second attachment or comes in chunks;    *)
(* and as long as nothing of that kind came, for nothing else. The          *)
(* synchronous client makes the calls in this order; the tasks of the       *)
(* asynchronous one start in any.                                           *)
CalledAsSent ==
  /\ \A i \in made : i <= Len(due) => dispatched[i] = due[i]
  /\ spoilt \/ \A i \in made : i <= Len(due)
  /\ \A task \in tasks : made \cap (task.next .. task.last) = {}
  /\ async \/ made = 1 .. Len(dispatched)

(* What came before a misread or cut packet is read and its callbacks are   *)
(* called, and so is the one for errors if the stream ends; but the end of  *)
(* the asynchronous stream cuts the tasks that have not run, whatever       *)
(* packet they are for.                                                     *)
Cut(i) == async /\ ended /\ i <= Len(dispatched) - Len(Told)
ArrivedIsCalled ==
  <>[](Len(due) <= Len(dispatched) /\ \A i \in 1 .. Len(dispatched) : i \in made \/ Cut(i))

(* The peer receives what was emitted, in the order the headers went out,   *)
(* each packet with its own attachments, as long as no other send comes     *)
(* between a header and its attachments and no send stops there: nothing in *)
(* the client keeps a packet's frames together. With BinaryRequests it does *)
(* not hold: the packet of such a request is read as an answer.             *)
GotAsEmitted ==
  ~mixed => /\ IsPrefix(got, emitted)
            /\ (\A s \in Senders : job[s] = <<>>) => got = emitted
=============================================================================
