------------------------------- MODULE Pollers -------------------------------
(***************************************************************************)
(* Several callers of one Engine.IO client, which ask for its packets.     *)
(*                                                                         *)
(* The synchronous client (engineio/src/socket.rs, client/client.rs,       *)
(* transports/) is polled by threads: each fetches a payload for itself    *)
(* and leaves what it does not return to the others. The asynchronous      *)
(* client (asynchronous/generator.rs, client/async_client.rs, and the same *)
(* pattern in async_transports/websocket_general.rs) is polled by tasks    *)
(* that drive one stream under a mutex and sleep until a waker runs them.  *)
(*                                                                         *)
(* Frames the client sends are those of Link and EngineSocket: here a Pong *)
(* is accepted or refused at once. The callbacks of the builders run inline*)
(* on threads and are spawned by tasks: their order is that of the calls,  *)
(* or of the spawning. An operator named Action_Fault is Action with the   *)
(* fault the suffix names; no specification uses one.                      *)
(***************************************************************************)
EXTENDS Naturals, Sequences, SequencesExt

CONSTANTS
  Callers,      \* threads or tasks that ask for packets
  Nobody,
  MaxPayloads,  \* BOUND: payloads the server sends
  MaxConnects   \* BOUND: calls of connect()

ASSUME PollersAssumption ==
  /\ Callers # {} /\ Nobody \notin Callers
  /\ MaxPayloads \in Nat /\ MaxConnects \in Nat

VARIABLES
  async,      \* which of the two clients
  polling,    \* is it the synchronous one, over HTTP polling?
  connected,  \* Socket::connected
  alive,      \* does the transport work?
  wire,       \* payloads on their way, sequences of packets
  overdue,    \* max_ping_timeout has elapsed since last_ping
  early,      \* who waits with a timeout computed from an older last_ping
  armed,      \* does the stream wait with a timeout it took when it was asked?
  rest,       \* what is left of a payload: remaining_packets, or in the stream
  pc,         \* where each caller is
  got,        \* the payload a thread fetched, the packet it handles
  holder,     \* who holds the generator's mutex
  waker,      \* whose waker the stream will wake
  stream,     \* the generator's stream: "live", "over", "retired" or "closed"
  connects,   \* connect() calls left
  payloads,   \* payloads sent
  sent,       \* packets sent, which are numbered
  taken,      \* HISTORY: the numbers of the packets handed to callers
  lossy,      \* HISTORY: two threads fetched at once, or a fetch failed with its answer
  hooks,      \* which callbacks the builder was given
  told        \* calls of each callback, made or spawned: the numbers of their packets

netVars == <<alive, wire, payloads, sent>>
heartVars == <<overdue, early, armed>>
callVars == <<hooks, told>>
taskVars == <<holder, waker, stream>>
vars == <<async, polling, connected, alive, wire, overdue, early, armed, rest, pc, got, holder,
          waker, stream, connects, payloads, sent, taken, lossy, callVars>>

(* What one payload holds. "Bad" does not decode; a Noop is a Message.      *)
Shapes == {<< >>, <<"Message">>, <<"Message", "Ping">>, <<"Close", "Message">>, <<"Bad">>}
Kinds == {"Message", "Ping", "Close", "Bad"}
Packets == [kind : Kinds, no : Nat]

(* The callbacks a builder takes, and those it was given here.              *)
Hooks == {"open", "close", "error", "packet", "data"}
Registrations == {{"packet", "data"}, {"open", "close", "error"}}

ThreadAt == {"check", "next", "fetch", "store", "handle", "pong"}
TaskAt == {"poll", "in", "asleep"}

TypeOK ==
  /\ async \in BOOLEAN /\ polling \in BOOLEAN /\ connected \in BOOLEAN /\ alive \in BOOLEAN
  /\ overdue \in BOOLEAN /\ armed \in BOOLEAN
  /\ wire \in Seq(Seq(Packets))
  /\ rest \in Seq(Packets) /\ early \subseteq Callers
  /\ pc \in [Callers -> {"out", "ended"} \cup IF async THEN TaskAt ELSE ThreadAt]
  /\ got \in [Callers -> Seq(Packets)]
  /\ \A c \in Callers : pc[c] \in {"store", "handle", "pong"} => got[c] # << >>
  /\ holder \in Callers \cup {Nobody} /\ waker \in Callers \cup {Nobody}
  /\ \A c \in Callers : pc[c] = "in" <=> holder = c
  /\ waker # Nobody => async /\ stream = "live"
  /\ stream \in {"live", "over", "retired", "closed"}
  /\ connects \in 0 .. MaxConnects /\ payloads \in 0 .. MaxPayloads
  /\ sent \in Nat /\ taken \in Seq(1 .. sent) /\ lossy \in BOOLEAN
  /\ hooks \subseteq Hooks /\ told \in [Hooks -> Seq(0 .. sent)]

(* Socket::new, Client::new: built, and not connected yet.                  *)
Init ==
  /\ async \in BOOLEAN /\ polling \in BOOLEAN /\ (async => ~polling)
  /\ connected = FALSE /\ alive = TRUE /\ wire = << >>
  /\ overdue = FALSE /\ early = {} /\ armed = FALSE /\ rest = << >>
  /\ pc = [c \in Callers |-> "out"] /\ got = [c \in Callers |-> << >>]
  /\ holder = Nobody /\ waker = Nobody /\ stream = "live"
  /\ connects = MaxConnects /\ payloads = 0 /\ sent = 0
  /\ taken = << >> /\ lossy = FALSE
  /\ hooks \in Registrations /\ told = [h \in Hooks |-> << >>]

Goes(c, from, to) == pc[c] = from /\ pc' = [pc EXCEPT ![c] = to]

(* Whoever the stream's waker belongs to is polled again, if it sleeps.     *)
Woken ==
  [c \in Callers |-> IF c = waker /\ pc[c] = "asleep" THEN "poll" ELSE pc[c]]
Wakes == pc' = Woken /\ waker' = Nobody

-----------------------------------------------------------------------------
(* The server, the network and the clock.                                   *)
PeerSends ==
  /\ alive /\ connected /\ payloads < MaxPayloads
  /\ payloads' = payloads + 1
  /\ \E shape \in Shapes :
       /\ wire' = Append(wire, [i \in DOMAIN shape |->
                                  [kind |-> shape[i], no |-> sent + i]])
       /\ sent' = sent + IF shape = <<"Bad">> THEN 0 ELSE Len(shape)
  /\ Wakes
  /\ UNCHANGED <<async, polling, connected, alive, heartVars, rest, got, holder, stream, connects,
                 taken, lossy, callVars>>

(* The transport breaks, with or without what was on its way.               *)
PeerBreaks ==
  /\ alive /\ connected /\ alive' = FALSE
  /\ wire' \in {wire, << >>}
  /\ Wakes
  /\ UNCHANGED <<async, polling, connected, payloads, sent, heartVars, rest, got, holder, stream,
                 connects, taken, lossy, callVars>>

TimePasses ==
  /\ ~overdue /\ overdue' = TRUE
  /\ Wakes
  /\ UNCHANGED <<async, polling, connected, netVars, early, armed, rest, got, holder, stream,
                 connects, taken, lossy, callVars>>

-----------------------------------------------------------------------------
(* Callbacks: which are due, for the packet with that number (0 for none).  *)
(* handle_packet, handle_data and handle_close for a packet; an error when  *)
(* a packet the client sends is refused.                                    *)
Tells(due, no) ==
  /\ told' = [h \in Hooks |-> IF h \in due \cap hooks THEN Append(told[h], no) ELSE told[h]]
  /\ UNCHANGED hooks
Quiet == UNCHANGED callVars

HandleData(p) == IF p.kind = "Message" THEN {"data"} ELSE {}
HandleClose(p) == IF p.kind = "Close" THEN {"close"} ELSE {}
HandlePacket(p) == {"packet"} \cup HandleData(p) \cup HandleClose(p)
Refusal == {"error"}

-----------------------------------------------------------------------------
(* connect(), disconnect() and close() of either client; the flag of a      *)
(* client whose stream is over is read by nobody. Neither the fetch of a    *)
(* thread nor a stream that waits hears of the new last_ping.               *)
Connects ==
  /\ connects > 0 /\ stream = "live"
  /\ connects' = connects - 1 /\ connected' = TRUE
  /\ overdue' = (async /\ armed /\ overdue)
  /\ early' = IF async THEN early ELSE {c \in Callers : pc[c] = "fetch"}
  /\ Tells({"open"} \cup IF alive THEN {} ELSE Refusal, 0)
  /\ UNCHANGED <<async, polling, netVars, armed, rest, pc, got, taskVars, taken, lossy>>

(* The Close packet is sent if it can be; the sync stream may be reopened.  *)
(* Disconnecting what is not connected only calls on_close and on_error     *)
(* once more, and is left out.                                              *)
Disconnects ==
  /\ ~async /\ connected /\ connected' = FALSE
  /\ Tells({"close"} \cup IF alive THEN {} ELSE Refusal, 0)
  /\ UNCHANGED <<async, polling, netVars, heartVars, rest, pc, got, taskVars, connects, taken,
                 lossy>>

(* generator.close(), with the mutex: the stream is dropped with what it    *)
(* has read and with the waker of whoever sleeps; then the socket is closed,*)
(* which a ping that did not come may have done before.                     *)
Closes ==
  /\ async /\ stream # "closed" /\ holder = Nobody
  /\ stream' = "closed" /\ waker' = Nobody /\ armed' = FALSE
  /\ rest' = << >> /\ wire' = << >> /\ connected' = FALSE
  /\ Tells(IF stream = "retired" THEN {} ELSE {"close"}, 0)
  /\ UNCHANGED <<async, polling, alive, payloads, sent, overdue, early, pc, got, holder, connects,
                 taken, lossy>>

(* The application asks for the next packet, again and again; an iterator   *)
(* that ended may be asked again once the socket is connected.              *)
Asks(c) ==
  /\ \/ Goes(c, "out", IF async THEN "poll" ELSE "check")
     \/ ~async /\ connected /\ Goes(c, "ended", "check")
  /\ UNCHANGED <<async, polling, connected, netVars, heartVars, rest, got, taskVars, connects, taken,
                 lossy, callVars>>

-----------------------------------------------------------------------------
(* Socket::poll on a thread.                                                *)
ThreadStep == UNCHANGED <<async, polling, netVars, taskVars, connects>>

Checks(c) ==
  /\ Goes(c, "check", IF connected THEN "next" ELSE "ended")
  /\ ThreadStep /\ Quiet /\ UNCHANGED <<connected, heartVars, rest, got, taken, lossy>>

(* The payload's rest is not looked at.                                     *)
TakesRest_Never(c) ==
  /\ Goes(c, "next", "fetch")
  /\ lossy' = (lossy \/ \E d \in Callers : pc[d] \in {"fetch", "store"})
  /\ early' = early \ {c}
  /\ ThreadStep /\ Quiet /\ UNCHANGED <<connected, overdue, armed, rest, got, taken>>

(* One packet of remaining_packets under its write lock, or off to the      *)
(* transport with a timeout computed from last_ping.                        *)
TakesRest(c) ==
  /\ \/ /\ rest # << >> /\ Goes(c, "next", "handle")
        /\ got' = [got EXCEPT ![c] = <<Head(rest)>>]
        /\ rest' = Tail(rest) /\ taken' = Append(taken, Head(rest).no)
        /\ UNCHANGED <<lossy, early>>
     \/ /\ rest = << >> /\ Goes(c, "next", "fetch")
        /\ lossy' = (lossy \/ \E d \in Callers : pc[d] \in {"fetch", "store"})
        /\ early' = early \ {c}
        /\ UNCHANGED <<rest, got, taken>>
  /\ ThreadStep /\ Quiet /\ UNCHANGED <<connected, overdue, armed>>

(* A body or a message came: an empty one is no payload, a garbled one an   *)
(* error of this poll.                                                      *)
Fetches(c) ==
  /\ wire # << >> /\ wire' = Tail(wire)
  /\ LET payload == Head(wire) IN
       /\ Goes(c, "fetch", CASE payload = << >> -> "check"
                             [] payload # << >> /\ payload[1].kind = "Bad" -> "out"
                             [] OTHER -> "store")
       /\ got' = [got EXCEPT ![c] = payload]
  /\ UNCHANGED <<async, polling, connected, alive, payloads, sent, heartVars, rest, taskVars,
                 connects, taken, lossy, callVars>>

(* A fetch that fails over polling may have reached the server: what it was *)
(* answered is lost.                                                        *)
GivesUp(c) ==
  /\ Goes(c, "fetch", "out")
  /\ \/ wire = << >> /\ wire' = wire
     \/ wire # << >> /\ polling /\ wire' \in {wire, Tail(wire)}
  /\ lossy' = (lossy \/ wire' # wire)
  /\ UNCHANGED <<async, polling, connected, alive, payloads, sent, heartVars, rest, got, taskVars,
                 connects, taken, callVars>>

FetchFails_Untimed(c) == ~alive /\ GivesUp(c)

(* The transport failed or ended, or the time to the next ping ran out: an  *)
(* error for this caller, and the socket stays as it is. The websocket is   *)
(* read before its timeout is looked at; over polling the timeout is that   *)
(* of the whole request, so that one of zero fails though a payload waits.  *)
FetchFails(c) == (~alive \/ overdue \/ c \in early) /\ GivesUp(c)

(* The whole payload is stored, the packet returned now included.           *)
Stores_Whole(c) ==
  /\ Goes(c, "store", "handle")
  /\ rest' = got[c] /\ got' = [got EXCEPT ![c] = <<Head(@)>>]
  /\ taken' = Append(taken, Head(got[c]).no)
  /\ ThreadStep /\ Quiet /\ UNCHANGED <<connected, heartVars, lossy>>

(* The iterator replaces remaining_packets, whatever another thread stored. *)
Stores(c) ==
  /\ Goes(c, "store", "handle")
  /\ rest' = Tail(got[c]) /\ got' = [got EXCEPT ![c] = <<Head(@)>>]
  /\ taken' = Append(taken, Head(got[c]).no)
  /\ ThreadStep /\ Quiet /\ UNCHANGED <<connected, heartVars, lossy>>

(* Client::poll: the callbacks run inline, a Close packet closes the        *)
(* socket, a Ping restarts the heartbeat.                                   *)
Handles(c) ==
  /\ pc[c] = "handle"
  /\ LET kind == Head(got[c]).kind IN
       /\ Goes(c, "handle", IF kind = "Ping" THEN "pong" ELSE "out")
       /\ Tells(HandlePacket(Head(got[c])), Head(got[c]).no)
       /\ connected' = (connected /\ kind # "Close")
       /\ \/ /\ kind = "Ping" /\ overdue' = FALSE /\ UNCHANGED armed
             /\ early' = {d \in Callers : pc[d] = "fetch"}
          \/ kind # "Ping" /\ UNCHANGED heartVars
  /\ ThreadStep /\ UNCHANGED <<rest, got, taken, lossy>>

(* The Pong is sent; or refused, and the poll fails instead of returning    *)
(* the Ping.                                                                *)
SendsPong(c) ==
  /\ Goes(c, "pong", "out")
  /\ \/ connected /\ Quiet
     \/ ~(connected /\ alive) /\ Tells(Refusal, 0)
  /\ ThreadStep /\ UNCHANGED <<connected, heartVars, rest, got, taken, lossy>>

Thread(c) ==
  Checks(c) \/ TakesRest(c) \/ Fetches(c) \/ FetchFails(c) \/ Stores(c) \/ Handles(c)
    \/ SendsPong(c)

-----------------------------------------------------------------------------
(* StreamGenerator::poll_next in a task.                                    *)
TaskStep == UNCHANGED <<async, polling, alive, payloads, sent, got, connects, lossy>>

Locks(c) ==
  /\ holder = Nobody /\ holder' = c
  /\ Goes(c, "poll", "in")
  /\ TaskStep /\ Quiet
  /\ UNCHANGED <<connected, wire, heartVars, rest, waker, stream, taken>>

(* Another task is driving the stream: the future that waits for the mutex  *)
(* is dropped, and nothing will wake this task.                             *)
FindsContended(c) ==
  /\ holder # Nobody
  /\ Goes(c, "poll", "asleep")
  /\ TaskStep /\ Quiet
  /\ UNCHANGED <<connected, wire, heartVars, rest, taskVars, taken>>

Ready == rest # << >> \/ wire # << >>
Unlocks(c, to) == Goes(c, "in", to) /\ holder' = Nobody

(* A packet of the payload at hand, or of the next one; empty payloads are  *)
(* passed over. What does not decode, or a Ping whose Pong is refused, ends *)
(* the stream with an error.                                                *)
YieldsPacket(c) ==
  /\ stream = "live" /\ Ready
  /\ LET payload == IF rest # << >> THEN rest ELSE Head(wire) IN
       /\ wire' = IF rest # << >> THEN wire ELSE Tail(wire)
       /\ \/ /\ payload = << >>
             /\ UNCHANGED <<connected, heartVars, rest, pc, taskVars, taken, callVars>>
          \/ /\ payload # << >> /\ Head(payload).kind = "Bad"
             /\ Unlocks(c, "out") /\ stream' = "over" /\ waker' = Nobody /\ armed' = FALSE
             /\ UNCHANGED <<connected, overdue, early, rest, taken, callVars>>
          \/ /\ payload # << >> /\ Head(payload).kind # "Bad"
             /\ Unlocks(c, "out")
             /\ armed' = FALSE /\ rest' = Tail(payload) /\ taken' = Append(taken, Head(payload).no)
             /\ connected' = (connected /\ Head(payload).kind # "Close")
             /\ overdue' = (overdue /\ Head(payload).kind # "Ping")
             /\ \/ /\ Head(payload).kind = "Ping" => connected
                   /\ Tells(HandlePacket(Head(payload)), Head(payload).no)
                   /\ UNCHANGED <<waker, stream>>
                \/ /\ Head(payload).kind = "Ping" /\ ~(connected /\ alive)
                   /\ Tells(HandlePacket(Head(payload)) \cup Refusal, Head(payload).no)
                   /\ stream' = "over" /\ waker' = Nobody
             /\ UNCHANGED early
  /\ pc[c] = "in" /\ TaskStep

(* The socket is not told.                                                  *)
YieldsEnd_Untold(c) ==
  /\ stream = "live" /\ ~Ready /\ (~alive \/ overdue)
  /\ Unlocks(c, "out") /\ waker' = Nobody
  /\ stream' = (IF alive THEN "retired" ELSE "over") /\ connected' = (connected /\ ~alive)
  /\ TaskStep /\ Quiet /\ armed' = FALSE /\ UNCHANGED <<wire, overdue, early, rest, taken>>

(* The transport ended, or no ping came in time, which closes the socket.   *)
YieldsEnd(c) ==
  /\ stream = "live" /\ ~Ready
  /\ Unlocks(c, "out") /\ waker' = Nobody
  /\ \/ ~alive /\ stream' = "over" /\ Quiet /\ UNCHANGED connected
     \/ /\ alive /\ overdue /\ stream' = "retired"
        /\ connected' = FALSE /\ Tells({"close"}, 0)
  /\ TaskStep /\ armed' = FALSE /\ UNCHANGED <<wire, overdue, early, rest, taken>>

(* What came after the stream was asked, and before the waker was stored,   *)
(* wakes nobody.                                                            *)
Registers_Late(c) ==
  /\ stream = "live"
  /\ Unlocks(c, "asleep") /\ waker' = c /\ armed' = TRUE
  /\ TaskStep /\ Quiet /\ UNCHANGED <<connected, wire, overdue, early, rest, stream, taken>>

(* Nothing is there: the stream keeps the waker of the last task that asked. *)
Registers(c) ==
  /\ stream = "live" /\ ~Ready /\ alive /\ ~overdue
  /\ Unlocks(c, "asleep") /\ waker' = c /\ armed' = TRUE
  /\ TaskStep /\ Quiet /\ UNCHANGED <<connected, wire, overdue, early, rest, stream, taken>>

FindsEnd(c) ==
  /\ stream # "live" /\ Unlocks(c, "ended")
  /\ TaskStep /\ Quiet /\ UNCHANGED <<connected, wire, heartVars, rest, waker, stream, taken>>

(* A sleeping task is polled for another reason, or stops waiting.          *)
Stirs(c) ==
  /\ \/ Goes(c, "asleep", "poll")
     \/ Goes(c, "asleep", "out")
  /\ TaskStep /\ Quiet
  /\ UNCHANGED <<connected, wire, heartVars, rest, taskVars, taken>>

Task(c) ==
  Locks(c) \/ FindsContended(c) \/ YieldsPacket(c) \/ YieldsEnd(c) \/ Registers(c)
    \/ FindsEnd(c)

-----------------------------------------------------------------------------
Next ==
  \/ PeerSends \/ PeerBreaks \/ TimePasses
  \/ Connects \/ Disconnects \/ Closes
  \/ \E c \in Callers : Asks(c) \/ Thread(c) \/ Task(c) \/ Stirs(c)

Spec == Init /\ [][Next]_vars

(* Threads and woken tasks run, time passes, and the application asks for   *)
(* the next packet as long as there is one.                                 *)
CallersSpec ==
  /\ Spec
  /\ WF_vars(TimePasses)
  /\ \A c \in Callers : WF_vars(Asks(c)) /\ WF_vars(Thread(c)) /\ WF_vars(Task(c))

-----------------------------------------------------------------------------
(* No packet is handed out twice, whoever polls; and none is skipped or     *)
(* comes before an earlier one, unless two threads fetched at the same      *)
(* time, when one payload's rest replaces the other's (remaining_packets),  *)
(* or a request over polling failed with its answer.                        *)
OnceInOrder ==
  /\ IsInjective(taken)
  /\ ~lossy => \A i \in DOMAIN taken : taken[i] = i

(* Callbacks hear of every packet that was taken, once, in the order it was *)
(* taken by tasks, and before a thread's poll returns it; and no connection *)
(* ends, by whoever's hand, without on_close.                               *)
CallbacksTold ==
  LET handled == {Head(got[c]).no : c \in {d \in Callers : pc[d] = "handle"}}
  IN /\ "packet" \in hooks =>
          IF async THEN told["packet"] = taken
          ELSE /\ IsInjective(told["packet"])
               /\ ToSet(told["packet"]) = ToSet(taken) \ handled
     /\ ("close" \in hooks /\ ~connected /\ connects < MaxConnects) => told["close"] # << >>

(* A poll on a thread returns although the server says nothing: the timeout *)
(* of the transport is the time to the next ping.                           *)
PollReturns ==
  \A c \in Callers : pc[c] \in ThreadAt ~> pc[c] \in {"out", "ended"}

(* While tasks wait for a live stream, one that sleeps is known to its      *)
(* waker, or another is awake to poll: a contended poll, whose own wake-up  *)
(* is lost, leaves a task behind that will be woken.                        *)
SomeoneIsWoken ==
  (stream = "live" /\ \A c \in Callers : pc[c] = "asleep") =>
     /\ waker # Nobody
     /\ ~Ready

(* What arrived is taken, however tasks contend for the mutex or threads for *)
(* the packets, as long as the client is not closed and callers come back   *)
(* for the next packet. Not so by the synchronous client over polling: when *)
(* the time to the next ping has run out, its requests fail at once, while  *)
(* it stays connected and the Ping that would help is among what waits.     *)
ArrivedIsTaken ==
  Ready /\ ~polling ~> ~Ready \/ ~connected \/ stream # "live"
=============================================================================
