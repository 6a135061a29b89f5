----------------------------- MODULE SyncClient -----------------------------
(***************************************************************************)
(* The synchronous Socket.IO client (socketio/src/client/client.rs,        *)
(* client/raw_client.rs, socket.rs, on engineio/src/socket.rs): the thread *)
(* poll_callback spawns, which polls packets, runs the user's callbacks    *)
(* inline and reconnects, and the threads of the application that call     *)
(* Client::disconnect at any time.                                         *)
(*                                                                         *)
(* Threads share the RwLock around the installed RawClient, the mutex of   *)
(* the on() registrations, which is held while a callback runs, and the    *)
(* on_close_with_session registration, which is taken out of its mutex     *)
(* while it runs. A RawClient is named by the number of its session, which *)
(* is the value of session_epoch right after its connect().                *)
(*                                                                         *)
(* An operator named Action_Fault is Action with the fault the suffix      *)
(* names; no specification uses one.                                       *)
(***************************************************************************)
EXTENDS Naturals

CONSTANTS
  Users,                  \* application threads that call Client::disconnect
  Poller,                 \* the thread of poll_callback
  Nobody,                 \* a lock without a holder
  MaxSessions,            \* BOUND: handshakes that succeed
  MaxCalls,               \* BOUND: disconnect calls of one application thread
  Reconnect,              \* ClientBuilder::reconnect
  ReconnectOnDisconnect,  \* ClientBuilder::reconnect_on_disconnect
  MaxAttempts             \* max_reconnect_attempts, below the u8's last value

ASSUME SyncAssumption ==
  /\ Poller \notin Users /\ Nobody \notin Users \cup {Poller}
  /\ MaxSessions \in Nat \ {0} /\ MaxCalls \in Nat /\ MaxAttempts \in 0 .. 254
  /\ Reconnect \in BOOLEAN /\ ReconnectOnDisconnect \in BOOLEAN

Threads == Users \cup {Poller}
Sessions == 1 .. MaxSessions

VARIABLES
  epoch,     \* session_epoch
  cur,       \* the RawClient in Client::client
  engine,    \* connected flag of each RawClient's Engine.IO socket
  wire,      \* does its transport still work?
  readers,   \* threads with a read guard of Client::client
  on,        \* who holds the on() registrations
  taken,     \* who runs the on_close_with_session callback, taken out of its mutex
  pc,        \* where each thread is
  cl,        \* the RawClient it works on
  arg,       \* the epoch callback_close was given
  inner,     \* a disconnect made by its on_close_with_session callback: "no", "running", "made"
  cause,     \* why it closes: "user", "packet" (server Disconnect), "retry" (before a reconnect)
  item,      \* what the iterator yielded to the poller
  attempts,  \* reconnect_attempts
  calls,     \* disconnect calls an application thread has left
  reported,  \* HISTORY: epochs given to on_close_with_session
  tries      \* HISTORY: handshakes that failed since the last one that did not

lockVars == <<readers, on, taken>>
netVars == <<epoch, engine, wire>>
callVars == <<cl, arg, inner, cause>>
loopVars == <<item, attempts, calls, tries>>
vars == <<epoch, cur, engine, wire, readers, on, taken, pc, cl, arg, inner, cause,
          item, attempts, calls, reported, tries>>

(* Where a thread is inside RawClient::disconnect and callback_close.       *)
Closing == {"leave", "load", "legacy", "legacyUser", "take", "session", "closed"}

TypeOK ==
  /\ epoch \in Sessions /\ cur \in Sessions
  /\ engine \in [Sessions -> BOOLEAN] /\ wire \in [Sessions -> BOOLEAN]
  /\ readers \subseteq Threads
  /\ on \in Threads \cup {Nobody} /\ taken \in Threads \cup {Nobody}
  /\ pc \in [Threads -> {"idle", "next", "poll", "wait", "event", "eventUser", "judge", "again",
                         "attempt", "dial", "install"} \cup Closing]
  /\ cl \in [Threads -> Sessions] /\ arg \in [Threads -> Sessions]
  /\ inner \in [Threads -> {"no", "running", "made"}]
  /\ cause \in [Threads -> {"user", "packet", "retry"}]
  /\ item \in {"Packet", "Disconnect", "Lost", "Bad"}
  /\ attempts \in 0 .. MaxAttempts /\ tries \in Nat
  /\ calls \in [Users -> 0 .. MaxCalls]
  /\ reported \subseteq Sessions

(* Client::new: connect_raw opened session 1, the poller is spawned.        *)
Init ==
  /\ epoch = 1 /\ cur = 1
  /\ engine = [s \in Sessions |-> s = 1] /\ wire = engine
  /\ readers = {} /\ on = Nobody /\ taken = Nobody
  /\ pc = [t \in Threads |-> IF t = Poller THEN "next" ELSE "idle"]
  /\ cl = [t \in Threads |-> 1] /\ arg = cl
  /\ inner = [t \in Threads |-> "no"] /\ cause = [t \in Threads |-> "user"]
  /\ item = "Packet" /\ attempts = 0 /\ tries = 0
  /\ calls = [u \in Users |-> MaxCalls]
  /\ reported = {}

-----------------------------------------------------------------------------
(* The locks. A std RwLock with a writer in its queue admits no reader, and *)
(* the only writer is the poller's do_reconnect.                            *)
At(t, here) == pc[t] = here
Goes(t, there) == pc' = [pc EXCEPT ![t] = there]

CanRead == ~At(Poller, "install")
CanWrite == readers = {}

ReadLock(t) ==
  /\ CanRead
  /\ readers' = readers \cup {t}
  /\ cl' = [cl EXCEPT ![t] = cur]

-----------------------------------------------------------------------------
(* RawClient::disconnect and callback_close, on any thread.                 *)

(* The DISCONNECT and Close packets are sent if they can be; the socket is  *)
(* closed whatever became of them.                                          *)
ClosesEngine(t) ==
  /\ At(t, "leave") /\ Goes(t, "load")
  /\ engine' = [engine EXCEPT ![cl[t]] = FALSE]
  /\ UNCHANGED <<epoch, cur, wire, lockVars, callVars, loopVars, reported>>

(* session_epoch is loaded for the close chain.                             *)
LoadsEpoch(t) ==
  /\ At(t, "load") /\ Goes(t, "legacy")
  /\ arg' = [arg EXCEPT ![t] = epoch]
  /\ UNCHANGED <<cur, netVars, lockVars, cl, inner, cause, loopVars, reported>>

(* callback(): the registrations stay locked while the user's code runs.    *)
LocksOn(t) ==
  /\ on = Nobody /\ on' = t
  /\ \/ At(t, "legacy") /\ Goes(t, "legacyUser")
     \/ At(t, "event") /\ Goes(t, "eventUser")
  /\ UNCHANGED <<cur, netVars, readers, taken, callVars, loopVars, reported>>

CallbackReturns(t) ==
  /\ \/ At(t, "legacyUser") /\ Goes(t, "take") /\ UNCHANGED readers
     \/ At(t, "eventUser") /\ Goes(t, "judge") /\ readers' = readers \ {t}
  /\ on' = Nobody
  /\ UNCHANGED <<cur, netVars, taken, callVars, loopVars, reported>>

(* The callback runs under the mutex: who finds it locked waits.            *)
TakesCallback_UnderLock(t) ==
  /\ At(t, "take") /\ taken = Nobody
  /\ taken' = t /\ reported' = reported \cup {arg[t]}
  /\ inner' = [inner EXCEPT ![t] = "no"]
  /\ Goes(t, "session")
  /\ UNCHANGED <<cur, netVars, readers, on, cl, arg, cause, loopVars>>

(* on_close_with_session: the callback is taken out of the mutex and run;   *)
(* a thread that finds it taken skips it.                                   *)
TakesCallback(t) ==
  /\ At(t, "take")
  /\ \/ /\ taken = Nobody /\ taken' = t
        /\ reported' = reported \cup {arg[t]}
        /\ inner' = [inner EXCEPT ![t] = "no"]
        /\ Goes(t, "session")
     \/ /\ taken # Nobody
        /\ Goes(t, "closed")
        /\ UNCHANGED <<taken, reported, inner>>
  /\ UNCHANGED <<cur, netVars, readers, on, cl, arg, cause, loopVars>>

(* The cleanup the comment on callback_close names: the callback calls      *)
(* disconnect() of the RawClient it was given.                              *)
CallbackDisconnects(t) ==
  /\ At(t, "session") /\ inner[t] = "no"
  /\ inner' = [inner EXCEPT ![t] = "running"]
  /\ Goes(t, "leave")
  /\ UNCHANGED <<cur, netVars, lockVars, cl, arg, cause, loopVars, reported>>

(* The callback is not put back: nobody will find it again.                 *)
SessionReturns_NotPutBack(t) ==
  /\ At(t, "session") /\ Goes(t, "closed")
  /\ inner' = [inner EXCEPT ![t] = "no"]
  /\ UNCHANGED <<cur, netVars, lockVars, cl, arg, cause, loopVars, reported>>

SessionReturns(t) ==
  /\ At(t, "session") /\ Goes(t, "closed")
  /\ taken' = Nobody
  /\ inner' = [inner EXCEPT ![t] = "no"]
  /\ UNCHANGED <<cur, netVars, readers, on, cl, arg, cause, loopVars, reported>>

(* The guard of the disconnect before a reconnect lives as long as the       *)
(* reconnect.                                                                *)
Closed_KeepsGuard(t) ==
  /\ At(t, "closed")
  /\ \/ /\ inner[t] = "running"
        /\ inner' = [inner EXCEPT ![t] = "made"]
        /\ Goes(t, "session") /\ UNCHANGED readers
     \/ /\ inner[t] # "running"
        /\ Goes(t, CASE cause[t] = "user" -> "idle"
                     [] cause[t] = "packet" -> "judge"
                     [] cause[t] = "retry" -> "attempt")
        /\ readers' = IF cause[t] = "retry" THEN readers ELSE readers \ {t}
        /\ UNCHANGED inner
  /\ UNCHANGED <<cur, netVars, on, taken, cl, arg, cause, loopVars, reported>>

(* The close chain is done: back to the callback that called disconnect(),  *)
(* or out of the read guard to who began it.                                *)
Closed(t) ==
  /\ At(t, "closed")
  /\ \/ /\ inner[t] = "running"
        /\ inner' = [inner EXCEPT ![t] = "made"]
        /\ Goes(t, "session") /\ UNCHANGED readers
     \/ /\ inner[t] # "running"
        /\ Goes(t, CASE cause[t] = "user" -> "idle"
                     [] cause[t] = "packet" -> "judge"
                     [] cause[t] = "retry" -> "attempt")
        /\ readers' = readers \ {t} /\ UNCHANGED inner
  /\ UNCHANGED <<cur, netVars, on, taken, cl, arg, cause, loopVars, reported>>

(* Client::disconnect on a thread of the application.                       *)
UserDisconnects(u) ==
  /\ At(u, "idle") /\ calls[u] > 0
  /\ ReadLock(u) /\ Goes(u, "leave")
  /\ cause' = [cause EXCEPT ![u] = "user"]
  /\ calls' = [calls EXCEPT ![u] = @ - 1]
  /\ UNCHANGED <<cur, netVars, on, taken, arg, inner, item, attempts, tries, reported>>

-----------------------------------------------------------------------------
(* The poller: Iter::next, RawClient::poll.                                 *)
PollerReads ==
  /\ At(Poller, "next") /\ ReadLock(Poller) /\ Goes(Poller, "poll")
  /\ UNCHANGED <<cur, netVars, on, taken, arg, inner, cause, loopVars, reported>>

Yields(kind) == item' = kind /\ UNCHANGED <<attempts, calls, tries>>

(* Socket::poll tests connected once and then waits in the transport: what  *)
(* arrives is handled although a disconnect closed the socket meanwhile.    *)
PollerWaits ==
  /\ At(Poller, "poll") /\ engine[cl[Poller]] /\ Goes(Poller, "wait")
  /\ UNCHANGED <<cur, netVars, lockVars, callVars, loopVars, reported>>

(* A packet for one of the on() callbacks, or an error for on(Error): "Lost" *)
(* is an error of the Engine.IO client, which is also that of a Pong it may *)
(* no longer send, "Bad" one of decoding, or of an attachment that a closed *)
(* socket will not deliver.                                                 *)
PollerDispatches ==
  /\ At(Poller, "wait") /\ Goes(Poller, "event")
  /\ \/ wire[cl[Poller]] /\ Yields("Packet")
     \/ (~wire[cl[Poller]] \/ ~engine[cl[Poller]]) /\ Yields("Lost")
     \/ (wire[cl[Poller]] \/ ~engine[cl[Poller]]) /\ Yields("Bad")
  /\ UNCHANGED <<cur, netVars, lockVars, callVars, reported>>

(* A Disconnect packet of the server: callback_close with the epoch of now. *)
PollerGetsDisconnect ==
  /\ At(Poller, "wait") /\ wire[cl[Poller]]
  /\ cause' = [cause EXCEPT ![Poller] = "packet"]
  /\ Yields("Disconnect") /\ Goes(Poller, "load")
  /\ UNCHANGED <<cur, netVars, lockVars, cl, arg, inner, reported>>

(* A Ping that is answered, a Noop or a foreign namespace, or the Engine.IO *)
(* Close packet, which closes the socket: the poll goes on.                 *)
PollerGoesOn ==
  /\ At(Poller, "wait") /\ wire[cl[Poller]] /\ Goes(Poller, "poll")
  /\ \E closes \in BOOLEAN :
        engine' = [engine EXCEPT ![cl[Poller]] = @ /\ ~closes]
  /\ UNCHANGED <<epoch, cur, wire, lockVars, callVars, loopVars, reported>>

(* A stopped socket is one more reason to reconnect.                        *)
PollerFindsStopped_Reconnects ==
  /\ At(Poller, "poll") /\ ~engine[cl[Poller]]
  /\ readers' = readers \ {Poller} /\ Goes(Poller, "again")
  /\ UNCHANGED <<cur, netVars, on, taken, callVars, loopVars, reported>>

(* Ok(None) becomes StoppedEngineIoSocket, which the loop does not act on.  *)
PollerFindsStopped ==
  /\ At(Poller, "poll") /\ ~engine[cl[Poller]]
  /\ readers' = readers \ {Poller} /\ Goes(Poller, "next")
  /\ UNCHANGED <<cur, netVars, on, taken, callVars, loopVars, reported>>

-----------------------------------------------------------------------------
(* The poller: poll_callback, reconnect, do_reconnect.                      *)
ShouldReconnect ==
  \/ item = "Lost"
  \/ item = "Disconnect" /\ ReconnectOnDisconnect

(* Straight to reconnect(), without a disconnect of the old client.         *)
PollerJudges_NoDisconnect ==
  /\ At(Poller, "judge")
  /\ Goes(Poller, IF ShouldReconnect THEN "attempt" ELSE "next")
  /\ UNCHANGED <<cur, netVars, lockVars, callVars, loopVars, reported>>

PollerJudges ==
  /\ At(Poller, "judge")
  /\ Goes(Poller, IF ShouldReconnect THEN "again" ELSE "next")
  /\ UNCHANGED <<cur, netVars, lockVars, callVars, loopVars, reported>>

PollerDisconnects ==
  /\ At(Poller, "again") /\ ReadLock(Poller) /\ Goes(Poller, "leave")
  /\ cause' = [cause EXCEPT ![Poller] = "retry"]
  /\ UNCHANGED <<cur, netVars, on, taken, arg, inner, loopVars, reported>>

(* The head of the retry loop; the counter is local to reconnect().         *)
PollerAttempts ==
  /\ At(Poller, "attempt")
  /\ \/ /\ Reconnect /\ attempts < MaxAttempts
        /\ attempts' = attempts + 1 /\ Goes(Poller, "dial")
     \/ /\ ~Reconnect \/ attempts >= MaxAttempts
        /\ attempts' = 0 /\ Goes(Poller, "next")
  /\ UNCHANGED <<cur, netVars, lockVars, callVars, item, calls, tries, reported>>

(* connect_raw failed in the handshake or before its CONNECT was out.       *)
DialFails ==
  /\ At(Poller, "dial") /\ Goes(Poller, "attempt")
  /\ tries' = tries + 1
  /\ UNCHANGED <<cur, netVars, lockVars, callVars, item, attempts, calls, reported>>

(* connect_raw succeeded: the new RawClient has opened the next session,    *)
(* and the poller waits for the write lock with the builder locked.         *)
DialSucceeds ==
  /\ At(Poller, "dial") /\ epoch < MaxSessions
  /\ epoch' = epoch + 1
  /\ engine' = [engine EXCEPT ![epoch + 1] = TRUE]
  /\ wire' = [wire EXCEPT ![epoch + 1] = TRUE]
  /\ tries' = 0
  /\ Goes(Poller, "install")
  /\ UNCHANGED <<cur, lockVars, callVars, item, attempts, calls, reported>>

Installs ==
  /\ At(Poller, "install") /\ CanWrite
  /\ cur' = epoch /\ attempts' = 0 /\ Goes(Poller, "next")
  /\ UNCHANGED <<netVars, lockVars, callVars, item, calls, tries, reported>>

-----------------------------------------------------------------------------
(* The network or the peer breaks a session's transport.                    *)
WireBreaks(s) ==
  /\ wire[s]
  /\ wire' = [wire EXCEPT ![s] = FALSE]
  /\ UNCHANGED <<epoch, cur, engine, lockVars, pc, callVars, loopVars, reported>>

Polling ==
  \/ PollerReads \/ PollerWaits \/ PollerDispatches \/ PollerGetsDisconnect
  \/ PollerGoesOn \/ PollerFindsStopped

Reconnecting ==
  \/ PollerJudges \/ PollerDisconnects \/ PollerAttempts
  \/ DialFails \/ DialSucceeds \/ Installs

CloseChain(t) ==
  \/ ClosesEngine(t) \/ LoadsEpoch(t) \/ LocksOn(t) \/ CallbackReturns(t)
  \/ TakesCallback(t) \/ CallbackDisconnects(t) \/ SessionReturns(t) \/ Closed(t)

Next ==
  \/ Polling \/ Reconnecting
  \/ \E u \in Users : UserDisconnects(u)
  \/ \E t \in Threads : CloseChain(t)
  \/ \E s \in Sessions : WireBreaks(s)

Spec == Init /\ [][Next]_vars

(* Threads run, sockets accept or refuse a write, callbacks return, and a   *)
(* wait for a lock that is free often enough ends.                          *)
ThreadSpec ==
  /\ Spec
  /\ WF_vars(PollerReads) /\ WF_vars(PollerWaits \/ PollerFindsStopped)
  /\ WF_vars(PollerJudges) /\ WF_vars(PollerDisconnects) /\ WF_vars(PollerAttempts)
  /\ WF_vars(DialFails \/ DialSucceeds) /\ WF_vars(Installs)
  /\ \A t \in Threads :
        /\ WF_vars(ClosesEngine(t)) /\ WF_vars(LoadsEpoch(t)) /\ SF_vars(LocksOn(t))
        /\ WF_vars(CallbackReturns(t)) /\ WF_vars(TakesCallback(t))
        /\ WF_vars(SessionReturns(t)) /\ WF_vars(Closed(t))

-----------------------------------------------------------------------------
(* At most one session of the client is open: a reconnect, whatever made    *)
(* it necessary, first closes the Engine.IO socket it replaces.             *)
OneSessionOpen ==
  \A s, r \in Sessions : engine[s] /\ engine[r] => s = r

(* No client is replaced before a close for its session was given to        *)
(* on_close_with_session: threads that close at once skip a callback that   *)
(* runs elsewhere, and it is put back for the next session.                 *)
ReplacedReported == \A s \in 1 .. cur - 1 : s \in reported

(* However a session ended, at most max_reconnect_attempts handshakes fail  *)
(* before the client gives up: an iterator that only finds a stopped socket *)
(* starts no other round.                                                   *)
LimitKept == tries <= MaxAttempts

(* Client::disconnect returns, also when its callback calls disconnect()    *)
(* again, and whatever the poller is doing with the locks.                  *)
DisconnectReturns ==
  \A u \in Users : pc[u] # "idle" ~> pc[u] = "idle"

(* A lost connection does not stop the poller: it reconnects or spends its  *)
(* attempts, and comes back to the iterator.                                *)
LossHandled ==
  At(Poller, "judge") /\ item = "Lost" ~> At(Poller, "next")

(* The epoch given to on_close_with_session is the number of the session    *)
(* that was closed. (Not true: the poller counts a new session before it    *)
(* can install its client, and a disconnect of the old client that loads    *)
(* the epoch in between reports the live session as dead.)                  *)
CloseNamesDeadSession ==
  \A t \in Threads : At(t, "session") /\ inner[t] = "no" => arg[t] = cl[t]
=============================================================================
