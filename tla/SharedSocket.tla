---------------------------- MODULE SharedSocket ----------------------------
(***************************************************************************)
(* The socket behind its lock: every call of a Socket.IO client takes a    *)
(* read guard on the socket it finds installed, and a reconnect takes the  *)
(* write guard to install the next one. The asynchronous client guards the *)
(* Socket (asynchronous/client/client.rs, asynchronous/socket.rs), the     *)
(* synchronous one the RawClient (client/client.rs, client/raw_client.rs,  *)
(* socket.rs).                                                             *)
(*                                                                         *)
(* An action is the code from one await, or one step another thread can    *)
(* see, to the next. What a frame costs below the socket is the matter of  *)
(* EngineSocket; here it is sent, fails, or hangs.                         *)
(***************************************************************************)
EXTENDS Naturals, Sequences, SequencesExt

CONSTANTS
  Emitters,    \* calls of emit, ack, ack_with_id and emit_with_ack
  Closers,     \* calls of disconnect
  Reader,      \* the reader task, or the polling thread
  None,
  MaxSessions  \* BOUND: sockets dialled

ASSUME SocketAssumption ==
  /\ Emitters \cap Closers = {} /\ Reader \notin Emitters \cup Closers
  /\ None \notin Emitters \cup Closers \cup {Reader}
  /\ MaxSessions \in Nat \ {0}

VARIABLES
  async,   \* the asynchronous client?
  readers, \* who holds a read guard
  writer,  \* who holds the write guard
  queue,   \* requests for a guard
  pc,      \* where each task or thread is
  cur,     \* the session whose socket is installed
  made,    \* sessions dialled
  engine,  \* Engine.IO socket: built, open, shut (Close packet read) or closed
  flag,    \* Socket::connected
  peer,    \* alive, stalled (takes nothing more) or broken
  wire     \* HISTORY: frames each session's connection took

lockVars == <<readers, writer, queue>>
netVars == <<engine, flag, peer, wire>>
vars == <<async, lockVars, pc, cur, made, netVars>>

Sessions == 1 .. MaxSessions
Tasks == Emitters \cup Closers \cup {Reader}

(* Where a task or thread is: in its call, waiting for a guard, or past it. *)
Places ==
  {"idle", "wait", "done",
   "check", "frame", "attachment",
   "fenced", "leave", "goodbye", "close",
   "read", "poll", "dial", "install", "connect", "pong", "open", "aborted"}
Requests == [task : Tasks, write : BOOLEAN, next : Places]

(* A frame: whose it is, and which part of its packet. Part 0 is a packet   *)
(* without attachments, 1 the header of one that has an attachment, 2 that. *)
Frames == Tasks \X (0 .. 2)

Init ==
  /\ async \in BOOLEAN
  /\ readers = {} /\ writer = None /\ queue = <<>>
  /\ pc = [t \in Tasks |-> IF t = Reader THEN "read" ELSE "idle"]
  /\ cur = 1 /\ made = 1
  /\ engine = [s \in Sessions |-> IF s = 1 THEN "open" ELSE "none"]
  /\ flag = [s \in Sessions |-> s = 1]
  /\ peer = [s \in Sessions |-> "alive"]
  /\ wire = [s \in Sessions |-> IF s = 1 THEN << <<Reader, 0>> >> ELSE <<>>]

-----------------------------------------------------------------------------
(* The lock. tokio's serves requests in their order; the one of the         *)
(* standard library promises none. A request names where its task goes on.  *)
Ask(t, write, next) ==
  /\ queue' = Append(queue, [task |-> t, write |-> write, next |-> next])
  /\ pc' = [pc EXCEPT ![t] = "wait"]

Grantable(i) ==
  /\ writer = None /\ (async => i = 1)
  /\ queue[i].write => readers = {}

Grants ==
  \E i \in DOMAIN queue :
    LET r == queue[i] IN
      /\ Grantable(i)
      /\ queue' = RemoveAt(queue, i)
      /\ pc' = [pc EXCEPT ![r.task] = r.next]
      /\ IF r.write THEN writer' = r.task /\ UNCHANGED readers
                    ELSE readers' = readers \cup {r.task} /\ UNCHANGED writer
  /\ UNCHANGED <<async, cur, made, netVars>>

At(t, place) == pc[t] = place
Goes(t, place) == pc' = [pc EXCEPT ![t] = place]
Releases(t) == readers' = readers \ {t} /\ UNCHANGED writer

(* The session a step is about: the reader connects the latest one.         *)
Connecting == {"connect", "pong", "open"}
Of(t) == IF t = Reader /\ pc[t] \in Connecting THEN made ELSE cur

-----------------------------------------------------------------------------
(* The peer, as far as somebody looks.                                      *)
PeerStalls(s) ==
  /\ s \in {cur, made} /\ peer[s] = "alive" /\ peer' = [peer EXCEPT ![s] = "stalled"]
  /\ UNCHANGED <<async, lockVars, pc, cur, made, engine, flag, wire>>

PeerBreaks(s) ==
  /\ s \in {cur, made} /\ peer[s] # "broken" /\ peer' = [peer EXCEPT ![s] = "broken"]
  /\ UNCHANGED <<async, lockVars, pc, cur, made, engine, flag, wire>>

-----------------------------------------------------------------------------
(* send(): refused unless the engine is connected and the flag is set; then *)
(* a frame, and one for the attachment, each an emit of its own.            *)
Open(s) == engine[s] = "open" /\ flag[s]

(* A frame fails when the connection or the engine is gone before it is     *)
(* written. Only the asynchronous engine takes back one that hangs.         *)
CanFail(s) ==
  \/ peer[s] = "broken"
  \/ engine[s] # "open" /\ peer[s] = "alive"
  \/ engine[s] = "closed" /\ async

Written(t, part) ==
  /\ peer[Of(t)] = "alive" /\ engine[Of(t)] = "open"
  /\ wire' = [wire EXCEPT ![Of(t)] = Append(@, <<t, part>>)]
  /\ UNCHANGED <<engine, flag, peer>>

Lost(t) == CanFail(Of(t)) /\ UNCHANGED netVars

EmitterCalls(e) ==
  /\ At(e, "idle") /\ Ask(e, FALSE, "check")
  /\ UNCHANGED <<async, readers, writer, cur, made, netVars>>

EmitterReturns(e) ==
  Goes(e, "done") /\ Releases(e) /\ UNCHANGED queue

EmitterChecks(e) ==
  /\ At(e, "check")
  /\ IF Open(cur) THEN Goes(e, "frame") /\ UNCHANGED lockVars ELSE EmitterReturns(e)
  /\ UNCHANGED <<async, cur, made, netVars>>

(* The guard is taken anew for the attachment.                              *)
EmitterSends_Reacquires(e) ==
  /\ \/ At(e, "frame") /\ Written(e, 0) /\ EmitterReturns(e)
     \/ At(e, "frame") /\ Written(e, 1) /\ Releases(e) /\ Ask(e, FALSE, "attachment")
     \/ At(e, "attachment") /\ Written(e, 2) /\ EmitterReturns(e)
     \/ pc[e] \in {"frame", "attachment"} /\ Lost(e) /\ EmitterReturns(e)
  /\ UNCHANGED <<async, cur, made>>

EmitterSends(e) ==
  /\ \/ At(e, "frame") /\ Written(e, 0) /\ EmitterReturns(e)
     \/ At(e, "frame") /\ Written(e, 1) /\ Goes(e, "attachment") /\ UNCHANGED lockVars
     \/ At(e, "attachment") /\ Written(e, 2) /\ EmitterReturns(e)
     \/ pc[e] \in {"frame", "attachment"} /\ Lost(e) /\ EmitterReturns(e)
  /\ UNCHANGED <<async, cur, made>>

-----------------------------------------------------------------------------
(* disconnect(). The asynchronous one first stops and joins the reader,     *)
(* whose guard and request go with it; operations follow one another. The   *)
(* synchronous polling thread disconnects too, before it reconnects.        *)
Enders == Closers \cup {Reader}
Operating == \E c \in Closers : pc[c] \in {"fenced", "wait", "leave", "goodbye", "close"}

CloserCalls(c) ==
  /\ At(c, "idle")
  /\ IF async THEN ~Operating /\ Goes(c, "fenced") /\ UNCHANGED queue
              ELSE Ask(c, FALSE, "leave")
  /\ UNCHANGED <<async, readers, writer, cur, made, netVars>>

(* The queue without the request of t, which has one at most.               *)
Without(t) ==
  IF \E i \in DOMAIN queue : queue[i].task = t
  THEN RemoveAt(queue, CHOOSE i \in DOMAIN queue : queue[i].task = t)
  ELSE queue

(* The reader is left to itself.                                            *)
CloserFences_Spares(c) ==
  /\ At(c, "fenced") /\ Ask(c, FALSE, "leave")
  /\ UNCHANGED <<async, readers, writer, cur, made, netVars>>

CloserFences(c) ==
  /\ At(c, "fenced")
  /\ pc' = [pc EXCEPT ![Reader] = "aborted", ![c] = "wait"]
  /\ readers' = readers \ {Reader}
  /\ writer' = IF writer = Reader THEN None ELSE writer
  /\ queue' = Append(Without(Reader), [task |-> c, write |-> FALSE, next |-> "leave"])
  /\ UNCHANGED <<async, cur, made, netVars>>

(* The Disconnect packet, whose failure is not one of the operation and     *)
(* which the asynchronous client waits a second for.                        *)
EnderLeaves(d) ==
  /\ \/ At(d, "leave") /\ Goes(d, IF Open(cur) THEN "goodbye" ELSE "close") /\ UNCHANGED netVars
     \/ At(d, "goodbye") /\ Goes(d, "close") /\ (Written(d, 0) \/ Lost(d))
     \/ At(d, "goodbye") /\ Goes(d, "close") /\ async /\ UNCHANGED netVars
  /\ UNCHANGED <<async, lockVars, cur, made>>

(* Socket::disconnect(): the synchronous engine, if it is connected, sends  *)
(* a Close frame and waits for it as long as it takes.                      *)
EnderCloses(d) ==
  /\ At(d, "close")
  /\ async \/ peer[cur] # "stalled" \/ engine[cur] # "open"
  /\ engine' = [engine EXCEPT ![cur] = IF ~async /\ @ # "open" THEN @ ELSE "closed"]
  /\ flag' = [flag EXCEPT ![cur] = FALSE]
  /\ Releases(d) /\ Goes(d, IF d = Reader THEN "dial" ELSE "done")
  /\ UNCHANGED <<async, queue, cur, made, peer, wire>>

-----------------------------------------------------------------------------
(* The reader. The synchronous one polls under a read guard, the            *)
(* asynchronous one has its own clone of the socket.                        *)
Reading == IF async THEN "read" ELSE "poll"

ReaderPolls ==
  /\ ~async /\ At(Reader, "read") /\ Ask(Reader, FALSE, "poll")
  /\ UNCHANGED <<async, readers, writer, cur, made, netVars>>

(* Drops the guard, then disconnects (under another) and dials.             *)
ReaderLeaves ==
  IF async THEN Goes(Reader, "dial") /\ UNCHANGED lockVars
  ELSE Releases(Reader) /\ Ask(Reader, FALSE, "leave")

ReaderGoesOn ==
  IF async THEN UNCHANGED <<lockVars, pc>>
  ELSE Releases(Reader) /\ Goes(Reader, "read") /\ UNCHANGED queue

(* What a packet does to the socket. At the server's Disconnect the         *)
(* synchronous client may reconnect at once (reconnect_on_disconnect), the  *)
(* asynchronous one when the stream has ended.                              *)
ReaderTakes ==
  /\ At(Reader, Reading) /\ peer[cur] = "alive" /\ engine[cur] # "closed"
  /\ \/ \E accepted \in BOOLEAN : flag' = [flag EXCEPT ![cur] = accepted]   \* Connect, ConnectError
        /\ ReaderGoesOn /\ UNCHANGED engine
     \/ flag' = [flag EXCEPT ![cur] = FALSE] /\ UNCHANGED engine            \* Disconnect
        /\ (ReaderGoesOn \/ (~async /\ ReaderLeaves))
     \/ engine' = [engine EXCEPT ![cur] = IF @ = "open" THEN "shut" ELSE @] \* Engine.IO Close
        /\ UNCHANGED <<flag, lockVars, pc>>
  /\ UNCHANGED <<async, cur, made, peer, wire>>

(* The stream fails, whatever becomes of the frames under way (a POST is a   *)
(* request of its own); or the heartbeat is overdue, and the asynchronous   *)
(* engine closes itself. A stopped synchronous one is polled again.         *)
ReaderLosesStream ==
  /\ At(Reader, Reading) /\ engine[cur] # "closed"
  /\ \/ UNCHANGED engine
     \/ async /\ peer[cur] # "alive" /\ engine' = [engine EXCEPT ![cur] = "closed"]
  /\ ReaderLeaves
  /\ UNCHANGED <<async, cur, made, flag, peer, wire>>

ReaderFindsStopped ==
  /\ ~async /\ At(Reader, "poll") /\ engine[cur] \in {"shut", "closed"} /\ ReaderGoesOn
  /\ UNCHANGED <<async, cur, made, netVars>>

(* The synchronous client installs the socket it has yet to connect.        *)
ReaderDials_InstallsFirst ==
  /\ At(Reader, "dial") /\ made < MaxSessions /\ readers = {}
  /\ made' = made + 1 /\ engine' = [engine EXCEPT ![made + 1] = "built"]
  /\ cur' = IF async THEN cur ELSE made + 1
  /\ IF async THEN Ask(Reader, TRUE, "install")
              ELSE Goes(Reader, "connect") /\ UNCHANGED queue
  /\ UNCHANGED <<async, readers, writer, flag, peer, wire>>

(* A new socket; the synchronous client connects it before it installs it.  *)
(* An attempt that fails has no effect.                                     *)
ReaderDials ==
  /\ At(Reader, "dial") /\ made < MaxSessions
  /\ made' = made + 1 /\ engine' = [engine EXCEPT ![made + 1] = "built"]
  /\ IF async THEN Ask(Reader, TRUE, "install")
              ELSE Goes(Reader, "connect") /\ UNCHANGED queue
  /\ UNCHANGED <<async, readers, writer, cur, flag, peer, wire>>

(* The write guard is not dropped before connect() asks for a read guard.   *)
ReaderInstalls_KeepsGuard ==
  /\ At(Reader, "install") /\ cur' = made
  /\ IF async THEN Ask(Reader, FALSE, "connect")
              ELSE Goes(Reader, "read") /\ UNCHANGED queue
  /\ UNCHANGED <<async, writer, readers, made, netVars>>

ReaderInstalls ==
  /\ At(Reader, "install") /\ cur' = made
  /\ writer' = None
  /\ IF async THEN Ask(Reader, FALSE, "connect")
              ELSE Goes(Reader, "read") /\ UNCHANGED queue
  /\ UNCHANGED <<async, readers, made, netVars>>

(* A failed connect() or opening packet is a failed attempt; the socket     *)
(* stays installed, if it was.                                              *)
ReaderGivesUp == Releases(Reader) /\ Goes(Reader, "dial") /\ UNCHANGED queue

ReaderConnects ==
  /\ At(Reader, "connect") /\ Goes(Reader, "pong")
  /\ engine' = [engine EXCEPT ![made] = "open"]
  /\ UNCHANGED <<async, lockVars, cur, made, flag, peer, wire>>

(* The engine's first Pong; then connected is published and the guard       *)
(* dropped.                                                                 *)
ReaderPongs ==
  /\ At(Reader, "pong")
  /\ \/ peer[made] = "alive" /\ flag' = [flag EXCEPT ![made] = TRUE]
        /\ IF async THEN Releases(Reader) /\ Ask(Reader, FALSE, "open")
                    ELSE Goes(Reader, "open") /\ UNCHANGED lockVars
     \/ CanFail(made) /\ ReaderGivesUp /\ UNCHANGED flag
  /\ UNCHANGED <<async, cur, made, engine, peer, wire>>

(* The opening packet.                                                      *)
ReaderOpens ==
  /\ At(Reader, "open")
  /\ \/ Open(made) /\ Written(Reader, 0)
        /\ IF async THEN Releases(Reader) /\ Goes(Reader, "read") /\ UNCHANGED queue
                    ELSE Ask(Reader, TRUE, "install") /\ UNCHANGED <<readers, writer>>
     \/ CanFail(made) /\ ReaderGivesUp /\ UNCHANGED netVars
  /\ UNCHANGED <<async, cur, made>>

ReaderStep ==
  \/ ReaderPolls \/ ReaderTakes \/ ReaderLosesStream \/ ReaderFindsStopped
  \/ ReaderDials \/ ReaderInstalls \/ ReaderConnects \/ ReaderPongs \/ ReaderOpens

-----------------------------------------------------------------------------
Next ==
  \/ Grants
  \/ \E s \in Sessions : PeerStalls(s) \/ PeerBreaks(s)
  \/ \E e \in Emitters : EmitterCalls(e) \/ EmitterChecks(e) \/ EmitterSends(e)
  \/ \E c \in Closers : CloserCalls(c) \/ CloserFences(c)
  \/ \E d \in Enders : EnderLeaves(d) \/ EnderCloses(d)
  \/ ReaderStep

Spec == Init /\ [][Next]_vars

(* The executor runs what is runnable and fires timers; nothing is assumed  *)
(* of the peer.                                                             *)
ExecutorSpec ==
  /\ Spec /\ WF_vars(Grants)
  /\ \A e \in Emitters : WF_vars(EmitterChecks(e) \/ EmitterSends(e))
  /\ \A c \in Closers : WF_vars(CloserFences(c))
  /\ \A d \in Enders : WF_vars(EnderLeaves(d) \/ EnderCloses(d))
  /\ WF_vars(ReaderInstalls \/ ReaderConnects \/ ReaderPongs \/ ReaderOpens)

-----------------------------------------------------------------------------
(* Types; a writer is alone, and who waits holds nothing.                   *)
TypeOK ==
  /\ async \in BOOLEAN
  /\ readers \subseteq Tasks /\ writer \in Tasks \cup {None}
  /\ queue \in Seq(Requests)
  /\ cur \in Sessions /\ made \in Sessions
  /\ engine \in [Sessions -> {"none", "built", "open", "shut", "closed"}]
  /\ flag \in [Sessions -> BOOLEAN]
  /\ peer \in [Sessions -> {"alive", "stalled", "broken"}]
  /\ wire \in [Sessions -> Seq(Frames)]
  /\ pc \in [Tasks -> Places]
  /\ writer # None => readers = {}

(* "`connect`: an opening socket.io request": the first frame on a session's*)
(* connection is its opening packet.                                        *)
OpensFirst == \A s \in Sessions : wire[s] # <<>> => wire[s][1] = <<Reader, 0>>

(* The synchronous client opens a session before anyone can send on it.     *)
InstalledOpen == ~async => OpensFirst

(* The frames of a packet go out on one connection, the header first: a     *)
(* reconnect waits for the sends it finds (emit's guard).                   *)
PacketUndivided ==
  \A e \in Emitters, s \in Sessions : \A i \in DOMAIN wire[s] :
     wire[s][i] = <<e, 2>> => \E j \in 1 .. i - 1 : wire[s][j] = <<e, 1>>

(* A reconnect that has dialled completes or fails, as long as the peer     *)
(* does not keep a frame for ever: "we drop the write lock because the      *)
(* `connect` method we call below will need to use it".                     *)
InReconnect == pc[Reader] \in {"install", "wait"} \cup Connecting
ReconnectEnds ==
  ([]<>(\A s \in Sessions : peer[s] # "stalled")) => [](async /\ InReconnect => <>~InReconnect)

(* An asynchronous disconnect() returns though an emit hangs with the read  *)
(* guard, and a reconnect waits for the write guard before it.              *)
DisconnectGetsThrough == \A c \in Closers : (async /\ pc[c] = "fenced") ~> pc[c] = "done"
=============================================================================
