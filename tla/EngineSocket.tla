---------------------------- MODULE EngineSocket ----------------------------
(***************************************************************************)
(* The asynchronous Engine.IO client and its socket: connect, emit and     *)
(* disconnect called through any number of clones, and the packet stream   *)
(* with its heartbeat, polled by one reader                                *)
(* (engineio/src/asynchronous/async_socket.rs, client/async_client.rs).    *)
(*                                                                         *)
(* An action is the code a task runs from one await to the next; the       *)
(* polling of emit's select is two, since another thread may run between   *)
(* them. An operator named Action_Fault is Action with the fault the       *)
(* suffix names; no specification uses one.                                *)
(***************************************************************************)
EXTENDS Naturals, Sequences

CONSTANTS
  Connects,  \* calls of connect()
  Emits,     \* calls of emit()
  Closers,   \* calls of disconnect()
  Reader,    \* the task that polls the packet stream
  None,
  MaxInbox   \* BOUND: packets received and not yet read

ASSUME EngineAssumption ==
  /\ None \notin Connects \cup Emits \cup Closers \cup {Reader}
  /\ Reader \notin Connects \cup Emits \cup Closers
  /\ Connects \cap Emits = {} /\ Connects \cap Closers = {} /\ Emits \cap Closers = {}
  /\ MaxInbox \in Nat

VARIABLES
  connected,  \* Socket::connected
  present,    \* Socket::transport is Some; closing is its negation
  gen,        \* the client's generator: its stream runs, is over, or was replaced
  pc,         \* where each task is
  sendLock,   \* who holds send_lock
  overdue,    \* max_ping_timeout has elapsed since last_ping
  early,      \* last_ping moved after the reader armed its timeout from it
  inbox,      \* packets received by the transport
  peer,       \* "alive", "stalled" (reads and writes nothing more), "broken"
  closes      \* HISTORY: Close frames begun

vars == <<connected, present, gen, pc, sendLock, overdue, early, inbox, peer, closes>>

Parties == Connects \cup Emits \cup Closers \cup {Reader}
Senders == Connects \cup Emits \cup {Reader}
Enders == Closers \cup {Reader}

(* Where a task is inside emit() and inside Socket::disconnect().           *)
Emitting == {"emit", "clone", "select", "polled", "sending"}
Closing == {"take", "lock", "closing"}

(* The reader is inside one poll of the generator, whose lock it holds.     *)
MidPoll == {"emit", "clone", "polled", "take", "done", "failed"}

(* Invalid is a Pong, an Open or what does not decode; a Noop is a Message. *)
Packets == {"Ping", "Message", "Close", "Invalid"}

TypeOK ==
  /\ connected \in BOOLEAN /\ present \in BOOLEAN /\ overdue \in BOOLEAN /\ early \in BOOLEAN
  /\ gen \in {"live", "ended", "closed"}
  /\ pc \in [Parties -> {"idle", "ping", "call", "wait", "parked", "over", "done", "failed"}
                          \cup Emitting \cup Closing]
  /\ sendLock \in Parties \cup {None}
  /\ sendLock # None => pc[sendLock] \in {"sending", "closing"}
  /\ inbox \in Seq(Packets)
  /\ peer \in {"alive", "stalled", "broken"}
  /\ closes \in Nat

Init ==
  /\ connected = FALSE /\ present = TRUE /\ gen = "live"
  /\ pc = [p \in Parties |-> "idle"]
  /\ sendLock = None /\ overdue = FALSE /\ early = FALSE
  /\ inbox = << >> /\ peer = "alive" /\ closes = 0

(* Only the reader acts on an error: it ends the stream.                    *)
Failed(p) == IF p = Reader THEN "failed" ELSE "done"

Goto(p, from, to) == pc[p] = from /\ pc' = [pc EXCEPT ![p] = to]

Unlocked(p) == IF sendLock = p THEN None ELSE sendLock

-----------------------------------------------------------------------------
(* The peer and the clock, as far as somebody looks: a stream that is over  *)
(* reads no packet and arms no timeout.                                     *)

PeerSends ==
  /\ peer = "alive" /\ gen = "live" /\ Len(inbox) < MaxInbox
  /\ \E packet \in Packets : inbox' = Append(inbox, packet)
  /\ UNCHANGED <<connected, present, gen, pc, sendLock, overdue, early, peer, closes>>

PeerFails ==
  /\ \/ peer = "alive" /\ peer' = "stalled"
     \/ peer # "broken" /\ peer' = "broken"
  /\ UNCHANGED <<connected, present, gen, pc, sendLock, overdue, early, inbox, closes>>

TimePasses ==
  /\ gen = "live" /\ ~overdue /\ overdue' = TRUE
  /\ UNCHANGED <<connected, present, gen, pc, sendLock, early, inbox, peer, closes>>

-----------------------------------------------------------------------------
(* connect(): connected is published under the transport's lock.            *)

ConnectPublishes_Unlocked(c) ==
  /\ \/ present /\ Goto(c, "idle", "call") /\ UNCHANGED connected
     \/ ~present /\ Goto(c, "idle", "done") /\ UNCHANGED connected
     \/ Goto(c, "call", "ping") /\ connected' = TRUE
  /\ UNCHANGED <<present, gen, sendLock, overdue, early, inbox, peer, closes>>

ConnectPublishes(c) ==
  /\ \/ present /\ Goto(c, "idle", "ping") /\ connected' = TRUE
     \/ ~present /\ Goto(c, "idle", "done") /\ UNCHANGED connected
  /\ UNCHANGED <<present, gen, sendLock, overdue, early, inbox, peer, closes>>

(* The heartbeat starts, but not that of a reader already waiting; the first*)
(* Pong is sent with emit.                                                  *)
ConnectPings(c) ==
  /\ Goto(c, "ping", "emit")
  /\ overdue' = FALSE /\ early' = (early \/ pc[Reader] = "wait")
  /\ UNCHANGED <<connected, present, gen, sendLock, inbox, peer, closes>>

-----------------------------------------------------------------------------
(* emit(), called by the application, by connect() and by the reader.       *)

EmitStep(p, from, to) ==
  /\ Goto(p, from, to)
  /\ UNCHANGED <<connected, present, gen, overdue, early, inbox, peer, closes>>

EmitCalled(e) == EmitStep(e, "idle", "emit") /\ UNCHANGED sendLock

EmitChecks(p) ==
  /\ EmitStep(p, "emit", IF connected THEN "clone" ELSE Failed(p))
  /\ UNCHANGED sendLock

EmitClones(p) ==
  /\ EmitStep(p, "clone", IF present THEN "select" ELSE Failed(p))
  /\ UNCHANGED sendLock

(* The select looks at closing first; it is polled again when the socket is *)
(* closed or the lock is released.                                          *)
EmitPolls(p) ==
  /\ \/ ~present /\ EmitStep(p, "select", Failed(p))
     \/ present /\ sendLock = None /\ EmitStep(p, "select", "polled")
  /\ UNCHANGED sendLock

EmitLocks_NoLock(p) == EmitStep(p, "polled", "sending") /\ sendLock' = p

EmitLocks(p) ==
  \/ sendLock = None /\ EmitStep(p, "polled", "sending") /\ sendLock' = p
  \/ sendLock # None /\ EmitStep(p, "polled", "select") /\ UNCHANGED sendLock

(* The transport accepts the frame or reports an error. A stalled peer may  *)
(* keep it waiting for ever.                                                *)
EmitCompletes(p) ==
  /\ \/ peer # "broken" /\ EmitStep(p, "sending", "done")
     \/ EmitStep(p, "sending", Failed(p))
  /\ sendLock' = None

EmitCancelled_NotRaced(p) ==
  /\ peer # "stalled" /\ EmitStep(p, "sending", Failed(p))
  /\ sendLock' = None

EmitCancelled(p) ==
  /\ ~present /\ EmitStep(p, "sending", Failed(p))
  /\ sendLock' = None

Emission(p) == EmitChecks(p) \/ EmitClones(p) \/ EmitPolls(p) \/ EmitLocks(p) \/ EmitCancelled(p)

-----------------------------------------------------------------------------
(* disconnect(): an owned task per call; the reader enters at "take" when   *)
(* the heartbeat fails.                                                     *)

CloserCalled(d) ==
  /\ Goto(d, "idle", "call")
  /\ UNCHANGED <<connected, present, gen, sendLock, overdue, early, inbox, peer, closes>>

InStream == {"wait", "select", "sending", "lock", "closing"}

CloserReplacesStream_Spares(d) ==
  /\ pc[Reader] \notin MidPoll /\ Goto(d, "call", "take")
  /\ gen' = "closed"
  /\ UNCHANGED <<connected, present, sendLock, overdue, early, inbox, peer, closes>>

(* generator.close(): the stream is dropped where it awaits, with all it    *)
(* holds; what it did not read is lost. Its task is not woken.              *)
CloserReplacesStream(d) ==
  /\ pc[d] = "call" /\ pc[Reader] \notin MidPoll
  /\ pc' = [pc EXCEPT ![d] = "take",
                      ![Reader] = IF @ \in InStream THEN "parked" ELSE @]
  /\ gen' = "closed"
  /\ sendLock' = Unlocked(Reader)
  /\ inbox' = << >> /\ overdue' = FALSE /\ early' = FALSE
  /\ UNCHANGED <<connected, present, peer, closes>>

(* Who finds the transport gone has nothing to do.                          *)
EnderTakes_Clone(p) ==
  /\ Goto(p, "take", "lock")
  /\ present' = FALSE /\ connected' = FALSE
  /\ UNCHANGED <<gen, sendLock, overdue, early, inbox, peer, closes>>

EnderTakes(p) ==
  /\ Goto(p, "take", IF present THEN "lock" ELSE "done")
  /\ present' = FALSE /\ connected' = FALSE
  /\ UNCHANGED <<gen, sendLock, overdue, early, inbox, peer, closes>>

EnderLocks(p) ==
  /\ sendLock = None /\ Goto(p, "lock", "closing")
  /\ sendLock' = p /\ closes' = closes + 1
  /\ UNCHANGED <<connected, present, gen, overdue, early, inbox, peer>>

(* Sent or failed, the caller is done: what the reader yields is an error.  *)
EnderSends(p) ==
  /\ Goto(p, "closing", "done")
  /\ sendLock' = None
  /\ UNCHANGED <<connected, present, gen, overdue, early, inbox, peer, closes>>

EnderTimesOut_InLock(p) ==
  /\ Goto(p, "lock", "done")
  /\ sendLock' = Unlocked(p)
  /\ UNCHANGED <<connected, present, gen, overdue, early, inbox, peer, closes>>

(* One second for the lock and the frame together.                          *)
EnderTimesOut(p) ==
  /\ Goto(p, "lock", "done") \/ Goto(p, "closing", "done")
  /\ sendLock' = Unlocked(p)
  /\ UNCHANGED <<connected, present, gen, overdue, early, inbox, peer, closes>>

Ending(p) == EnderTakes(p) \/ EnderLocks(p) \/ EnderTimesOut(p)

-----------------------------------------------------------------------------
(* The reader: Client::stream over Socket::as_stream.                       *)

ReaderStep(from, to) ==
  /\ Goto(Reader, from, to)
  /\ UNCHANGED <<present, sendLock, peer, closes>>

(* The consumer asks for the next packet; the timeout runs from last_ping.  *)
ReaderPolls ==
  /\ ReaderStep("idle", IF gen = "live" THEN "wait" ELSE "over")
  /\ early' = FALSE
  /\ UNCHANGED <<connected, gen, overdue, inbox>>

(* A packet that is there is taken even when the heartbeat is overdue. A    *)
(* Ping is yielded after its Pong; one the client must not get is an error. *)
ReaderTakes ==
  /\ inbox # << >> /\ inbox' = Tail(inbox)
  /\ LET packet == Head(inbox) IN
       /\ ReaderStep("wait", CASE packet = "Ping" -> "emit"
                               [] packet = "Invalid" -> "failed"
                               [] OTHER -> "idle")
       /\ connected' = (connected /\ packet # "Close")
       /\ overdue' = (overdue /\ packet # "Ping")
  /\ UNCHANGED <<gen, early>>

(* The transport's stream fails or ends, and so does the generator's.       *)
ReaderLosesTransport ==
  /\ peer = "broken" /\ inbox = << >>
  /\ ReaderStep("wait", "idle") /\ gen' = "ended"
  /\ UNCHANGED <<connected, overdue, early, inbox>>

ReaderTimesOut_OnlyConnected ==
  /\ overdue /\ inbox = << >> /\ connected
  /\ ReaderStep("wait", "take")
  /\ UNCHANGED <<connected, gen, overdue, early, inbox>>

ReaderTimesOut ==
  /\ overdue \/ early
  /\ inbox = << >>
  /\ ReaderStep("wait", "take")
  /\ UNCHANGED <<connected, gen, overdue, early, inbox>>

(* Yields the Ping, or an error, PingTimeout included, that ends the stream. *)
ReaderYields ==
  /\ pc[Reader] \in {"done", "failed"}
  /\ pc' = [pc EXCEPT ![Reader] = "idle"]
  /\ gen' = IF pc[Reader] = "failed" \/ ~present THEN "ended" ELSE gen
  /\ UNCHANGED <<connected, present, sendLock, overdue, early, inbox, peer, closes>>

Reading ==
  ReaderPolls \/ ReaderTakes \/ ReaderLosesTransport \/ ReaderTimesOut \/ ReaderYields

-----------------------------------------------------------------------------
Next ==
  \/ PeerSends \/ PeerFails \/ TimePasses
  \/ \E c \in Connects : ConnectPublishes(c) \/ ConnectPings(c)
  \/ \E e \in Emits : EmitCalled(e)
  \/ \E p \in Senders : Emission(p) \/ EmitCompletes(p)
  \/ \E d \in Closers : CloserCalled(d) \/ CloserReplacesStream(d)
  \/ \E p \in Enders : Ending(p) \/ EnderSends(p)
  \/ Reading

Spec == Init /\ [][Next]_vars

(* The executor runs what is runnable and fires timers; the generator's     *)
(* mutex is first come, first served, hence SF for who waits while the      *)
(* reader polls again and again. Nothing is assumed of the peer: no frame   *)
(* need ever be accepted.                                                   *)
ExecutorSpec ==
  /\ Spec
  /\ WF_vars(TimePasses) /\ WF_vars(Reading)
  /\ \A p \in Senders : WF_vars(Emission(p))
  /\ \A d \in Closers : SF_vars(CloserReplacesStream(d))
  /\ \A p \in Enders : WF_vars(Ending(p))

-----------------------------------------------------------------------------
(* Properties.                                                              *)

(* "A retired transport cannot be reopened through a surviving clone"       *)
(* (connect): after it was taken no interleaving publishes connected.       *)
Retired == ~present => ~connected

(* One frame at a time: send_lock is held by whoever writes to the          *)
(* transport, an emit or a closing disconnect, and comes back when the      *)
(* write is cancelled (emit, disconnect).                                   *)
FrameAtATime == \A p \in Parties : pc[p] \in {"sending", "closing"} => sendLock = p

(* What all this is for: to its clones the socket is a Channel. Of the      *)
(* frames' order only what send_lock, the select of emit and the ownership  *)
(* of the transport achieve together is promised.                           *)
ChannelPhase == IF ~present THEN "retired" ELSE IF connected THEN "open" ELSE "shut"

Polled == {p \in Parties : pc[p] = "polled"}
Writing == {p \in Parties : pc[p] \in {"sending", "closing"}}
Waiting == {p \in Enders : pc[p] = "lock"}

Clones == INSTANCE Channel WITH
  Users <- Parties, phase <- ChannelPhase, bound <- Polled, writing <- Writing, closer <- Waiting

ImplementsChannel == Clones!Spec

(* The transport is taken by one caller, who alone sends a Close frame;     *)
(* every other disconnect, and the heartbeat, finds nothing to close.       *)
OneCloseFrame ==
  /\ closes <= 1
  /\ \A p, q \in Enders : pc[p] \in {"lock", "closing"} /\ pc[q] \in {"lock", "closing"} => p = q

(* "Clear shared in-flight GET/stream ownership" (Client::disconnect): once *)
(* a disconnect is past the generator, no task is inside the stream.        *)
StreamReleased ==
  (\E d \in Closers : pc[d] \in Closing) => pc[Reader] \notin InStream

(* An emit that waits, for its turn or for the peer, returns once the       *)
(* socket is closed, though the peer never reads again.                     *)
EmitReleased ==
  \A p \in Connects \cup Emits :
    (pc[p] \in Emitting /\ ~present) ~> pc[p] = "done"

(* Every disconnect() completes ("an unresponsive peer cannot retain        *)
(* cleanup indefinitely", CHANGELOG 0.9.3).                                 *)
DisconnectCompletes == \A d \in Closers : pc[d] = "call" ~> pc[d] = "done"

(* A reader that waits for packets notices a peer that stopped sending, even *)
(* after that peer's Close packet.                                          *)
SilenceNoticed ==
  (pc[Reader] = "wait" /\ peer = "stalled") ~> (pc[Reader] # "wait" \/ peer = "broken")
=============================================================================
