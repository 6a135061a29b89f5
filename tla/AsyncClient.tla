---------------------------- MODULE AsyncClient ----------------------------
(***************************************************************************)
(* The lifecycle of the asynchronous Socket.IO client: the reader task     *)
(* (packet loop, reconnect loop), the dispatch tasks that run application  *)
(* callbacks, and the explicit disconnect operation, all of which run      *)
(* concurrently on the executor and share the fields of struct Client in   *)
(* socketio/src/asynchronous/client/client.rs.                             *)
(*                                                                         *)
(* An action is the code one task runs from one await to the next.         *)
(*                                                                         *)
(* An operator named Action_Fault is Action with the fault the suffix      *)
(* names. No specification uses one: it records which bug in that code a   *)
(* property would catch.                                                   *)
(***************************************************************************)
EXTENDS Naturals, Sequences

CONSTANTS
  Ops,                    \* calls of disconnect()
  Slots,                  \* BOUND: dispatch tasks alive at once
  MaxEpoch,               \* BOUND: the network accepts this many sessions
  MaxInbox,               \* BOUND: packets in flight from the server
  Reconnect,              \* ClientBuilder::reconnect
  ReconnectOnDisconnect,  \* ClientBuilder::reconnect_on_disconnect
  Limited,                \* is max_reconnect_attempts Some(_)?
  MaxAttempts,            \* its value when it is
  CounterSize,            \* values of the attempt counter (256 for the u8)
  BinaryEvents            \* does the server send binary attachments?

ASSUME ConstantsAssumption ==
  /\ MaxEpoch \in Nat \ {0} /\ MaxInbox \in Nat \ {0}
  /\ Reconnect \in BOOLEAN /\ ReconnectOnDisconnect \in BOOLEAN
  /\ Limited \in BOOLEAN /\ BinaryEvents \in BOOLEAN
  /\ CounterSize \in Nat \ {0} /\ MaxAttempts \in 0 .. CounterSize - 1

VARIABLES
  poll,       \* Client::poll_stream: "start", "spawned" (holds the slot lock), "ready"
  slot,       \* reader_task holds the reader's JoinHandle
  rpc,        \* where the reader task is suspended
  hand,       \* the item the reader took from the stream
  aborting,   \* JoinHandle::abort was called on the reader
  attempts,   \* reconnect_attempts of the reconnect loop
  reason,     \* disconnect_reason
  epoch,      \* session_epoch
  transport,  \* the installed inner socket
  inbox,      \* packets of the installed socket not yet read
  server,     \* the peer's namespace session on the installed socket
  task,       \* the dispatch tasks
  op,         \* where each disconnect operation is
  outcome,    \* its result so far
  notified,   \* HISTORY: epochs for which a Close was dispatched
  tries       \* HISTORY: reconnects begun since the last session opened

readerVars == <<rpc, hand, attempts, tries>>
netVars == <<transport, inbox, server>>
opVars == <<op, outcome>>
vars == <<poll, slot, rpc, hand, aborting, attempts, reason, epoch, transport,
          inbox, server, task, op, outcome, notified, tries>>

-----------------------------------------------------------------------------
(* Packets the reader can meet. "Foreign" belongs to another namespace and  *)
(* "Event" stands for Event, BinaryEvent, Ack and BinaryAck, which are      *)
(* dispatched alike. A binary event is a "Header" and its "Attachment".     *)
PacketKinds ==
  {"Connect", "ConnectError", "Event", "Disconnect", "Foreign", "Header", "Attachment"}

(* What the reader may have taken: "Err" is an error item of the stream.    *)
Items == {"Connect", "ConnectError", "Event", "Disconnect", "Foreign", "Err", "none"}

(* What a dispatch task is for. A Close task becomes a "CloseSession" task  *)
(* when on(Event::Close) returned and on_close_with_session is due.         *)
TaskKinds == {"Connect", "ConnectError", "Event", "StreamError", "Close", "CloseSession"}

TerminalKinds == {"Connect", "StreamError", "Close", "CloseSession"}

Idle == [kind |-> "Idle"]

Task == [kind: TaskKinds, epoch: Nat, st: {"spawned", "lookup", "user"}, aborted: BOOLEAN]

Streaming == {"next", "guard", "write"}
Reconnecting == {"callback", "create", "install", "connect", "open", "backoff"}

BuilderWriteHeld_Callback == {"callback"}

(* The program points at which the reader keeps the builder locked          *)
(* exclusively across an await: none, the on_reconnect callback is taken    *)
(* out of the builder and awaited without the lock.                         *)
BuilderWriteHeld == {}

Live == {t \in Slots : task[t] # Idle}

TypeOK ==
  /\ poll \in {"start", "spawned", "ready"} /\ slot \in BOOLEAN
  /\ rpc \in {"none", "clone", "ended", "stopped"} \cup Streaming \cup Reconnecting
  /\ hand \in Items
  /\ aborting \in BOOLEAN
  /\ attempts \in 0 .. CounterSize - 1
  /\ reason \in {"Unknown", "Manual", "Server"}
  /\ epoch \in 1 .. MaxEpoch
  /\ transport \in {"fresh", "open", "lost", "ended", "closed"}
  /\ inbox \in Seq(PacketKinds)
  /\ server \in {"idle", "opening", "open"}
  /\ task \in [Slots -> Task \cup {Idle}]
  /\ op \in [Ops -> {"idle", "queued", "take", "join", "send", "close", "abort", "done"}]
  /\ outcome \in [Ops -> {"none", "ok", "illegal", "err"}]
  /\ notified \subseteq 1 .. MaxEpoch
  /\ tries \in 0 .. MaxAttempts + 1

(* ClientBuilder::connect after connect_manual: the first session is open   *)
(* and the reader is not spawned yet.                                       *)
Init ==
  /\ poll = "start" /\ slot = FALSE
  /\ rpc = "none" /\ hand = "none" /\ aborting = FALSE /\ attempts = 0
  /\ reason = "Unknown" /\ epoch = 1
  /\ transport = "open" /\ inbox = << >> /\ server = "opening"
  /\ task = [t \in Slots |-> Idle]
  /\ op = [d \in Ops |-> "idle"] /\ outcome = [d \in Ops |-> "none"]
  /\ notified = {} /\ tries = 0

-----------------------------------------------------------------------------
(* Dispatch list: spawn_dispatch and abort_dispatch.                        *)

(* A handle that was aborted is no longer in the list.                      *)
AbortDispatch(tasks, includeTerminal) ==
  [t \in Slots |->
     IF tasks[t] # Idle /\ (includeTerminal \/ tasks[t].kind \notin TerminalKinds)
     THEN [tasks[t] EXCEPT !.aborted = TRUE]
     ELSE tasks[t]]

(* The task runs from here on; it is listed before its spawner goes on.     *)
SpawnDispatch(tasks, kind) ==
  \E t \in Slots :
    /\ tasks[t] = Idle
    /\ task' = [tasks EXCEPT ![t] =
                  [kind |-> kind, epoch |-> epoch, st |-> "spawned", aborted |-> FALSE]]

-----------------------------------------------------------------------------
(* The server and the network.                                              *)

Deliver(packets) ==
  /\ transport = "open"
  /\ Len(inbox) + Len(packets) <= MaxInbox
  /\ inbox' = inbox \o packets
  /\ UNCHANGED <<poll, slot, readerVars, aborting, reason, epoch, transport, task,
                 opVars, notified>>

(* The server answers CONNECT. *)
ServerAccept == server = "opening" /\ server' = "open" /\ Deliver(<<"Connect">>)
ServerRefuse == server = "opening" /\ server' = "idle" /\ Deliver(<<"ConnectError">>)

ServerSend ==
  /\ server = "open"
  /\ server' = server
  /\ \/ \E packet \in {"Event", "Foreign"} : Deliver(<<packet>>)
     \/ BinaryEvents /\ Deliver(<<"Header", "Attachment">>)

(* The server ends the namespace session; the transport may outlive it.     *)
ServerLeave == server = "open" /\ server' = "idle" /\ Deliver(<<"Disconnect">>)

(* The connection breaks, times out or is closed by the peer. What arrived  *)
(* before may still be read, or not.                                        *)
LoseTransport ==
  /\ transport = "open"
  /\ transport' = "lost" /\ server' = "idle"
  /\ \E n \in 0 .. Len(inbox) : inbox' = SubSeq(inbox, 1, n)
  /\ UNCHANGED <<poll, slot, readerVars, aborting, reason, epoch, task, opVars, notified>>

Environment == ServerAccept \/ ServerRefuse \/ ServerSend \/ ServerLeave \/ LoseTransport

-----------------------------------------------------------------------------
(* poll_stream: the spawned reader may run at once, the slot stays locked   *)
(* until the handle is in it.                                               *)

PollSpawn ==
  /\ poll = "start"
  /\ poll' = "spawned" /\ rpc' = "clone"
  /\ UNCHANGED <<slot, hand, aborting, attempts, reason, epoch, netVars, task, opVars,
                 notified, tries>>

PollStore ==
  /\ poll = "spawned"
  /\ poll' = "ready" /\ slot' = TRUE
  /\ UNCHANGED <<readerVars, aborting, reason, epoch, netVars, task, opVars, notified>>

-----------------------------------------------------------------------------
(* The reader: as_stream and the loop that drains it.                       *)

ReaderClone ==
  /\ rpc = "clone"
  /\ rpc' = "next"
  /\ UNCHANGED <<poll, slot, hand, aborting, attempts, reason, epoch, netVars, task,
                 opVars, notified, tries>>

TakeItem(item) ==
  /\ rpc = "next"
  /\ rpc' = "guard" /\ hand' = item
  /\ UNCHANGED <<poll, slot, aborting, attempts, reason, epoch, server, task, opVars,
                 notified, tries>>

ReaderNext ==
  /\ inbox # << >>
  /\ \/ Head(inbox) \notin {"Header", "Attachment"}
        /\ TakeItem(Head(inbox)) /\ inbox' = Tail(inbox)
     \/ Head(inbox) = "Header" /\ Len(inbox) > 1
        /\ TakeItem("Event") /\ inbox' = Tail(Tail(inbox))
  /\ UNCHANGED transport

(* A broken connection or an undecodable frame: one error item, after which *)
(* the stream of this socket is exhausted.                                  *)
ReaderNextErr ==
  /\ transport \in {"open", "lost"} /\ inbox \in {<< >>, <<"Header">>}
  /\ TakeItem("Err")
  /\ transport' = "ended" /\ inbox' = << >>

(* The connection ends without an error while attachments are due: next()   *)
(* returns None, unwrap() panics and the reader task is gone.               *)
ReaderPanics ==
  /\ rpc = "next" /\ transport = "lost" /\ inbox = <<"Header">>
  /\ rpc' = "stopped"
  /\ task' = AbortDispatch(task, FALSE)
  /\ UNCHANGED <<poll, slot, hand, aborting, attempts, reason, epoch, netVars, opVars,
                 notified, tries>>

(* The stream ends: unfold aborts the dead session's plain tasks, and the   *)
(* dropped ReaderState does so again.                                       *)
StreamEnds_NoAbort ==
  /\ rpc' = "ended" /\ hand' = "none"
  /\ UNCHANGED <<poll, slot, aborting, attempts, reason, epoch, netVars, task, opVars,
                 notified, tries>>

StreamEnds_AbortAll ==
  /\ rpc' = "ended" /\ hand' = "none"
  /\ task' = AbortDispatch(task, TRUE)
  /\ UNCHANGED <<poll, slot, aborting, attempts, reason, epoch, netVars, opVars,
                 notified, tries>>

StreamEnds ==
  /\ rpc' = "ended" /\ hand' = "none"
  /\ task' = AbortDispatch(task, FALSE)
  /\ UNCHANGED <<poll, slot, aborting, attempts, reason, epoch, netVars, opVars,
                 notified, tries>>

ReaderNextNone ==
  /\ rpc = "next" /\ transport \in {"lost", "ended", "closed"} /\ inbox = << >>
  /\ StreamEnds

ReaderGuardStop ==
  /\ rpc = "guard" /\ reason = "Manual"
  /\ StreamEnds

BackToNext == rpc' = "next" /\ hand' = "none"

(* Items whose handling awaits nothing: they are dispatched in the segment  *)
(* that read disconnect_reason.                                             *)
ReaderDispatch ==
  /\ rpc = "guard" /\ reason # "Manual"
  /\ BackToNext
  /\ \/ hand = "Err" /\ SpawnDispatch(task, "StreamError")
     \/ hand \in {"Event", "ConnectError"} /\ SpawnDispatch(task, hand)
     \/ hand = "Foreign" /\ UNCHANGED task
  /\ UNCHANGED <<poll, slot, aborting, attempts, reason, epoch, netVars, opVars,
                 notified, tries>>

(* Connect and Disconnect first wait for the lock of disconnect_reason.     *)
ReaderAwaitReason ==
  /\ rpc = "guard" /\ reason # "Manual" /\ hand \in {"Connect", "Disconnect"}
  /\ rpc' = "write"
  /\ UNCHANGED <<poll, slot, hand, aborting, attempts, reason, epoch, netVars, task,
                 opVars, notified, tries>>

HandleConnect ==
  /\ rpc = "write" /\ hand = "Connect"
  /\ reason' = "Unknown"
  /\ SpawnDispatch(task, "Connect")
  /\ BackToNext
  /\ UNCHANGED <<poll, slot, aborting, attempts, epoch, netVars, opVars, notified, tries>>

(* The Close carries the epoch of the session it reports.                   *)
NotifyClose(tasks) ==
  /\ SpawnDispatch(tasks, "Close")
  /\ notified' = notified \cup {epoch}

(* The session's tasks are aborted before its Close is dispatched.          *)
HandleDisconnect_KeepReason ==
  /\ rpc = "write" /\ hand = "Disconnect"
  /\ NotifyClose(AbortDispatch(task, FALSE))
  /\ BackToNext
  /\ UNCHANGED <<poll, slot, aborting, attempts, reason, epoch, netVars, opVars, tries>>

HandleDisconnect ==
  /\ rpc = "write" /\ hand = "Disconnect"
  /\ reason' = "Server"
  /\ NotifyClose(AbortDispatch(task, FALSE))
  /\ BackToNext
  /\ UNCHANGED <<poll, slot, aborting, attempts, epoch, netVars, opVars, tries>>

-----------------------------------------------------------------------------
(* The reader: what follows the end of the stream.                          *)

(* One turn of the attempt loop, after `done` attempts: past the limit the  *)
(* attempt loop ends and the outer loop streams the installed socket again. *)
BeginAttempt(done) ==
  LET n == IF Limited THEN (done + 1) % CounterSize ELSE 0
  IN IF Limited /\ n > MaxAttempts
     THEN rpc' = "clone" /\ attempts' = 0 /\ UNCHANGED tries
     ELSE /\ rpc' = "callback" /\ attempts' = n
          /\ tries' = IF tries > MaxAttempts THEN tries ELSE tries + 1

Stop == rpc' = "stopped" /\ attempts' = 0 /\ UNCHANGED tries

AfterStream(shouldReconnect) == IF shouldReconnect THEN BeginAttempt(0) ELSE Stop

DecideUnknown_Silent ==
  /\ rpc = "ended" /\ reason = "Unknown"
  /\ AfterStream(Reconnect)
  /\ UNCHANGED <<poll, slot, hand, aborting, reason, epoch, netVars, task, opVars,
                 notified>>

(* The epoch of the Close is read before the reconnect below can change it. *)
DecideUnknown ==
  /\ rpc = "ended" /\ reason = "Unknown"
  /\ NotifyClose(task)
  /\ AfterStream(Reconnect)
  /\ UNCHANGED <<poll, slot, hand, aborting, reason, epoch, netVars, opVars>>

DecideKnown ==
  /\ rpc = "ended" /\ reason # "Unknown"
  /\ AfterStream(reason = "Server" /\ ReconnectOnDisconnect)
  /\ UNCHANGED <<poll, slot, hand, aborting, reason, epoch, netVars, task, opVars,
                 notified>>

(* reconnect(): the on_reconnect callback, the handshake of a new socket,   *)
(* its installation, its engine connect and its CONNECT packet.             *)
ReconnectStep(from, to) ==
  /\ rpc = from /\ rpc' = to
  /\ UNCHANGED <<poll, slot, hand, aborting, reason, task, opVars, notified>>

HookReturns == ReconnectStep("callback", "create") /\ UNCHANGED <<epoch, netVars,
                                                                  attempts, tries>>

InnerCreate_GivesUp ==
  /\ \E to \in {"install", "stopped"} : ReconnectStep("create", to)
  /\ UNCHANGED <<epoch, netVars, attempts, tries>>

InnerCreate ==
  /\ \E to \in {"install", "backoff"} : ReconnectStep("create", to)
  /\ UNCHANGED <<epoch, netVars, attempts, tries>>

InstallSocket ==
  /\ ReconnectStep("install", "connect")
  /\ transport' = "fresh" /\ inbox' = << >> /\ server' = "idle"
  /\ UNCHANGED <<epoch, attempts, tries>>

EngineConnect ==
  /\ ReconnectStep("connect", "open")
  /\ transport' = "open"
  /\ UNCHANGED <<epoch, inbox, server, attempts, tries>>

EngineConnectFails ==
  /\ ReconnectStep("connect", "backoff")
  /\ transport' \in {"open", "lost"}
  /\ UNCHANGED <<epoch, inbox, server, attempts, tries>>

(* Only a sent CONNECT opens a session and counts it. Sending succeeds on a *)
(* broken connection whose end was not noticed yet.                         *)
OpenSession ==
  /\ epoch < MaxEpoch
  /\ ReconnectStep("open", "clone")
  /\ epoch' = epoch + 1
  /\ server' = IF transport = "open" THEN "opening" ELSE "idle"
  /\ tries' = 0 /\ attempts' = 0
  /\ UNCHANGED <<transport, inbox>>

(* The peer may have seen the CONNECT whose sending failed.                 *)
OpenSessionFails ==
  /\ ReconnectStep("open", "backoff")
  /\ transport' \in {transport, "lost"}
  /\ server' \in IF transport' = "open" THEN {server, "opening"} ELSE {"idle"}
  /\ UNCHANGED <<epoch, inbox, attempts, tries>>

BackoffEnds ==
  /\ rpc = "backoff"
  /\ BeginAttempt(attempts)
  /\ UNCHANGED <<poll, slot, hand, aborting, reason, epoch, netVars, task, opVars,
                 notified>>

(* An aborted task is dropped where it awaits, and every program point of   *)
(* the reader is an await. A dropped stream drops its ReaderState.          *)
ReaderCancelled ==
  /\ aborting /\ rpc \notin {"none", "stopped"}
  /\ rpc' = "stopped" /\ hand' = "none" /\ attempts' = 0
  /\ task' = IF rpc \in Streaming THEN AbortDispatch(task, FALSE) ELSE task
  /\ UNCHANGED <<poll, slot, aborting, reason, epoch, netVars, opVars, notified, tries>>

ReaderStream ==
  \/ ReaderClone \/ ReaderNext \/ ReaderNextErr \/ ReaderPanics \/ ReaderNextNone
  \/ ReaderGuardStop \/ ReaderDispatch \/ ReaderAwaitReason \/ HandleConnect \/ HandleDisconnect

ReaderReconnect ==
  \/ DecideUnknown \/ DecideKnown \/ HookReturns \/ InnerCreate \/ InstallSocket
  \/ EngineConnect \/ EngineConnectFails \/ OpenSession \/ OpenSessionFails \/ BackoffEnds

-----------------------------------------------------------------------------
(* Dispatch tasks.                                                          *)

TaskStep(t, tasks) ==
  /\ task[t] # Idle
  /\ task' = tasks
  /\ UNCHANGED <<poll, slot, readerVars, aborting, reason, epoch, netVars, opVars,
                 notified>>

(* The executor polls a new task, unless it was aborted before.             *)
TaskPolled(t) ==
  /\ task[t] # Idle /\ task[t].st = "spawned" /\ ~task[t].aborted
  /\ TaskStep(t, [task EXCEPT ![t].st = "lookup"])

TaskCallsUser_LateEpoch(t) ==
  /\ task[t] # Idle /\ task[t].st = "lookup" /\ rpc \notin BuilderWriteHeld
  /\ TaskStep(t, [task EXCEPT ![t].st = "user", ![t].epoch = epoch])

(* callback(): the registrations are cloned under the builder's shared lock *)
(* and the user callback runs outside it. An abort that arrives during this *)
(* poll takes effect only where the task awaits next.                       *)
TaskCallsUser(t) ==
  /\ task[t] # Idle /\ task[t].st = "lookup" /\ rpc \notin BuilderWriteHeld
  /\ TaskStep(t, [task EXCEPT ![t].st = "user"])

AfterCallback(t) ==
  IF task[t].kind = "Close"
  THEN [task[t] EXCEPT !.kind = "CloseSession", !.st = "lookup"]
  ELSE Idle

(* No callback is registered for the event.                                 *)
TaskFindsNone(t) ==
  /\ task[t] # Idle /\ task[t].st = "lookup" /\ rpc \notin BuilderWriteHeld
  /\ TaskStep(t, [task EXCEPT ![t] = AfterCallback(t)])

UserReturns(t) ==
  /\ task[t] # Idle /\ task[t].st = "user"
  /\ TaskStep(t, [task EXCEPT ![t] = AfterCallback(t)])

(* An aborted task is dropped at an await.                                  *)
TaskCancelled(t) ==
  /\ task[t] # Idle /\ task[t].aborted
  /\ TaskStep(t, [task EXCEPT ![t] = Idle])

Dispatcher(t) == TaskPolled(t) \/ TaskCallsUser(t) \/ TaskFindsNone(t) \/ TaskCancelled(t)

-----------------------------------------------------------------------------
(* disconnect(): an owned task per call, serialised by disconnect_operation *)

(* The application holds the client once connect() returned, a callback     *)
(* holds a clone. The caller only waits, whether it is cancelled or not.    *)
ClientReachable == poll = "ready" \/ \E t \in Live : task[t].st = "user"

OpStep(d, from, to) ==
  /\ op[d] = from /\ op' = [op EXCEPT ![d] = to]
  /\ UNCHANGED <<poll, readerVars, epoch, notified>>

DisconnectCalled(d) ==
  /\ ClientReachable
  /\ OpStep(d, "idle", "queued")
  /\ UNCHANGED <<slot, aborting, reason, netVars, task, outcome>>

HoldsOperation(d) == op[d] \in {"take", "join", "send", "close", "abort"}

OpMarksManual(d) ==
  /\ \A other \in Ops : ~HoldsOperation(other)
  /\ OpStep(d, "queued", "take")
  /\ reason' = "Manual"
  /\ UNCHANGED <<slot, aborting, netVars, task, outcome>>

OpTakesReader_NoAbort(d) ==
  /\ poll # "spawned"
  /\ OpStep(d, "take", IF slot THEN "join" ELSE "send")
  /\ slot' = FALSE
  /\ UNCHANGED <<aborting, reason, netVars, task, outcome>>

OpTakesReader(d) ==
  /\ poll # "spawned"
  /\ OpStep(d, "take", IF slot THEN "join" ELSE "send")
  /\ slot' = FALSE /\ aborting' = (aborting \/ slot)
  /\ UNCHANGED <<reason, netVars, task, outcome>>

(* Joining is the fence: it waits until the reader is really gone.          *)
OpJoinsReader_NoWait(d) ==
  /\ OpStep(d, "join", "send")
  /\ UNCHANGED <<slot, aborting, reason, netVars, task, outcome>>

OpJoinsReader(d) ==
  /\ rpc = "stopped"
  /\ OpStep(d, "join", "send")
  /\ UNCHANGED <<slot, aborting, reason, netVars, task, outcome>>

(* The DISCONNECT packet, bounded by one second: refused when the engine or *)
(* the namespace is not connected.                                          *)
SendOutcomes ==
  IF transport \in {"fresh", "closed"} THEN {"illegal"} ELSE {"ok", "illegal", "err"}

OpSends(d) ==
  /\ OpStep(d, "send", "close")
  /\ \E result \in SendOutcomes : outcome' = [outcome EXCEPT ![d] = result]
  /\ UNCHANGED <<slot, aborting, reason, netVars, task>>

(* Socket::disconnect retires the transport and then tries a Close frame; a *)
(* retired transport has nothing left to fail.                              *)
OpCloses(d) ==
  /\ OpStep(d, "close", "abort")
  /\ transport' = "closed" /\ inbox' = << >> /\ server' = "idle"
  /\ \/ UNCHANGED outcome
     \/ transport # "closed" /\ outcome' = [outcome EXCEPT ![d] = "err"]
  /\ UNCHANGED <<slot, aborting, reason, task>>

OpAborts_PlainOnly(d) ==
  /\ OpStep(d, "abort", "done")
  /\ task' = AbortDispatch(task, FALSE)
  /\ outcome' = [outcome EXCEPT ![d] = IF @ = "illegal" THEN "ok" ELSE @]
  /\ UNCHANGED <<slot, aborting, reason, netVars>>

OpAborts(d) ==
  /\ OpStep(d, "abort", "done")
  /\ task' = AbortDispatch(task, TRUE)
  /\ outcome' = [outcome EXCEPT ![d] = IF @ = "illegal" THEN "ok" ELSE @]
  /\ UNCHANGED <<slot, aborting, reason, netVars>>

Disconnecting(d) ==
  \/ OpMarksManual(d) \/ OpTakesReader(d) \/ OpJoinsReader(d)
  \/ OpSends(d) \/ OpCloses(d) \/ OpAborts(d)

-----------------------------------------------------------------------------
Next ==
  \/ PollSpawn \/ PollStore
  \/ Environment
  \/ ReaderStream \/ ReaderReconnect \/ ReaderCancelled
  \/ \E t \in Slots : Dispatcher(t) \/ UserReturns(t)
  \/ \E d \in Ops : DisconnectCalled(d) \/ Disconnecting(d)

Spec == Init /\ [][Next]_vars

(* What the executor guarantees: a runnable task runs, an aborted task is   *)
(* dropped, a disconnect operation is bounded by its timeouts. Nothing is   *)
(* assumed of the network or of user code.                                  *)
ExecutorFairness ==
  /\ WF_vars(PollSpawn) /\ WF_vars(PollStore)
  /\ WF_vars(ReaderCancelled)
  /\ \A t \in Slots : WF_vars(Dispatcher(t))
  /\ \A d \in Ops : WF_vars(Disconnecting(d))

ExecutorSpec == Spec /\ ExecutorFairness

(* In addition user callbacks return, timers fire and a server that is      *)
(* contacted again and again is reached at last.                            *)
RecoveryFairness ==
  /\ ExecutorFairness
  /\ \A t \in Slots : WF_vars(UserReturns(t))
  /\ WF_vars(ReaderStream) /\ WF_vars(ReaderReconnect)
  /\ SF_vars(InnerCreate /\ rpc' = "install")
  /\ SF_vars(EngineConnect) /\ SF_vars(OpenSession)

-----------------------------------------------------------------------------
(* Properties.                                                              *)

(* The join fence (disconnect): once the operation closes the transport the *)
(* reader task has ended, so no reconnect can install a new socket behind   *)
(* it, and no handle is left that a later disconnect would have to join.    *)
Fenced ==
  \A d \in Ops : op[d] \in {"send", "close", "abort", "done"} =>
                   poll = "ready" /\ ~slot /\ rpc = "stopped"

(* The client implements SessionLife: whatever reader, network, callbacks   *)
(* and concurrent disconnects do, a session is opened after the one before  *)
(* was reported, and behind the join fence of disconnect() no reconnect     *)
(* installs a transport or opens a session, nor is a Close reported.        *)
LifePhase ==
  CASE transport = "closed" -> "retired"
    [] transport # "closed" /\ \E d \in Ops : op[d] \in {"send", "close"} -> "fenced"
    [] OTHER -> "live"

LifeCall ==
  [d \in Ops |-> CASE op[d] = "idle" -> "idle" [] op[d] = "done" -> "done" [] OTHER -> "pending"]

Life == INSTANCE SessionLife WITH
  Calls <- Ops, Unreported <- ReconnectOnDisconnect,
  session <- epoch, reported <- notified, phase <- LifePhase, call <- LifeCall

ImplementsLife == Life!Spec

(* When disconnect() has returned, every dispatch task still around was     *)
(* aborted: none was spawned behind the final abort_dispatch(true).         *)
NoOrphanTask ==
  \A d \in Ops : op[d] = "done" => \A t \in Live : task[t].aborted

(* No event or ack callback of an earlier session runs on unaborted while a *)
(* later session is open.                                                   *)
NoTaskOutlivesSession ==
  \A t \in Live : task[t].kind \notin TerminalKinds /\ ~task[t].aborted =>
                     task[t].epoch = epoch

(* Only an explicit disconnect cuts a Connect, Error or Close notification. *)
TerminalTasksSpared ==
  \A t \in Live : task[t].kind \in TerminalKinds /\ task[t].aborted =>
                     \E d \in Ops : op[d] = "done"

(* The session of that epoch is over: a later one was opened, its stream    *)
(* ended, or its server left the namespace.                                 *)
Dead(e) == e < epoch \/ rpc \notin Streaming \/ server = "idle"

(* However late a Close callback runs, the epoch it reports is that of a    *)
(* session that died, never of the session opened meanwhile.                *)
CloseNamesDeadSession ==
  \A t \in Live : task[t].kind \in {"Close", "CloseSession"} => Dead(task[t].epoch)

Dispatched(t, kinds) ==
  task[t] = Idle /\ task'[t] # Idle /\ task'[t].kind \in kinds

(* A session that died is reported by one Close, though both the server's   *)
(* Disconnect packet and the end of the stream can report it.               *)
OneClosePerSession ==
  [][\A t \in Slots : Dispatched(t, {"Close"}) => epoch \notin notified]_vars

(* "fire a transport close event to notify it. We don't need to do that in  *)
(* the other cases" (poll_stream): a session that was replaced, or whose    *)
(* reader ended by itself, was reported by a Close.                         *)
SessionEndNotified ==
  /\ 1 .. epoch - 1 \subseteq notified
  /\ rpc = "stopped" /\ ~aborting /\ reason # "Manual" => epoch \in notified

(* max_reconnect_attempts bounds the reconnects between two sessions.       *)
AttemptsBounded == Limited => tries <= MaxAttempts

(* Every disconnect() completes, whatever the network and user callbacks do *)
(* and wherever the reader is suspended.                                    *)
DisconnectCompletes == \A d \in Ops : op[d] = "queued" ~> op[d] = "done"

(* A Close reaches the application, or finds it has no interest, even while *)
(* the on_reconnect callback is pending for ever (CHANGELOG 0.9.1).         *)
CloseDue(t) ==
  task[t] # Idle /\ task[t].kind = "Close" /\ task[t].st # "user" /\ ~task[t].aborted

CloseNotDelayed == \A t \in Slots : CloseDue(t) ~> ~CloseDue(t)

(* A lost transport is followed by a new session unless the application     *)
(* disconnects (or the network's bound MaxEpoch is reached).                *)
Recovers ==
  \A e \in 1 .. MaxEpoch - 1 :
    (epoch = e /\ transport = "lost") ~> (epoch > e \/ \E d \in Ops : op[d] # "idle")
=============================================================================
