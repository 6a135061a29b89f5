-------------------------- MODULE ReconnectProofs --------------------------
(***************************************************************************)
(* Machine-checked proofs about Reconnect: it adds the settings of a       *)
(* reconnect to AsyncClient and restricts nothing, so that what is proved  *)
(* of the lifecycle holds of it, and the settings reach the session.       *)
(***************************************************************************)
EXTENDS Reconnect, AsyncClientProofs

(* Lemma: every step of Reconnect is one of AsyncClient.                    *)
LEMMA StepOfClient ==
  ASSUME [ReconnectNext]_allVars
  PROVE  [Next]_vars
BY DEF ReconnectNext, AttemptBegins, SettingsApplied, SocketMade, SessionOpened,
       CancelledWithHook, Elsewhere, allVars, Next, ReaderReconnect

(* Reconnect implements AsyncClient: taking on_reconnect out of the builder *)
(* and putting it back, and the settings it returns, cost no behaviour.     *)
THEOREM ReconnectImplementsClient == ReconnectSpec => Spec
BY StepOfClient, PTL DEF ReconnectSpec, ReconnectInit, Spec

(* So the fence of disconnect() and the notifications hold with a callback  *)
(* that reconnects with other settings, or never returns.                   *)
THEOREM ReconnectFenced == ReconnectSpec => [](Fenced /\ TerminalTasksSpared)
BY ReconnectImplementsClient, FenceHolds, TerminalTasksSparedHolds, PTL

-----------------------------------------------------------------------------
(* Where the callback is.                                                   *)

(* HookConsulted is not inductive: that an attempt never begins without the *)
(* callback rests on where a callback that is not in the builder can be.    *)
HookInv ==
  /\ hook \in {"none", "builder", "taken", "lost"}
  /\ hook = "taken" => rpc = "callback"
  /\ hook = "lost" => rpc = "stopped"
  /\ HookConsulted

LEMMA HookInit == ReconnectInit => HookInv
BY DEF ReconnectInit, Init, Registered, HookInv, HookConsulted, Reconnecting

(* Lemma: a step that leaves the settings alone moves the reader out of an  *)
(* attempt or on within it, and never out of the callback.                  *)
LEMMA ElsewhereReader ==
  ASSUME FenceInv, Elsewhere
  PROVE  /\ UNCHANGED settingVars
         /\ \/ rpc' = rpc
            \/ rpc \notin {"callback", "stopped"} /\ rpc' \notin Reconnecting \ {"backoff"}
            \/ rpc = "install" /\ rpc' = "connect"
            \/ rpc = "connect" /\ rpc' = "open"
<1>0. UNCHANGED settingVars
  BY DEF Elsewhere
<1>1. CASE PollSpawn
  BY <1>0, <1>1 DEF PollSpawn, FenceInv, Unstarted, Reconnecting
<1>2. CASE PollStore
  BY <1>0, <1>2 DEF PollStore, readerVars
<1>3. CASE Environment
  BY <1>0, <1>3, EnvironmentFrame
<1>4. CASE ReaderStream
  BY <1>0, <1>4
  DEF ReaderStream, ReaderClone, ReaderNext, ReaderNextErr, ReaderPanics, ReaderNextNone,
      ReaderGuardStop, ReaderDispatch, ReaderAwaitReason, HandleConnect, HandleDisconnect,
      TakeItem, StreamEnds, BackToNext, Reconnecting
<1>5. CASE InstallSocket \/ EngineConnect \/ EngineConnectFails \/ OpenSessionFails
  BY <1>0, <1>5
  DEF InstallSocket, EngineConnect, EngineConnectFails, OpenSessionFails, ReconnectStep,
      Reconnecting
<1>6. ASSUME NEW t \in Slots, Dispatcher(t) \/ UserReturns(t)
      PROVE  rpc' = rpc
  BY <1>6, TaskFrame
<1>7. ASSUME NEW d \in Ops, DisconnectCalled(d) \/ Disconnecting(d)
      PROVE  rpc' = rpc
  BY <1>7
  DEF DisconnectCalled, Disconnecting, OpMarksManual, OpTakesReader, OpJoinsReader, OpSends,
      OpCloses, OpAborts, OpStep, readerVars
<1> QED
  BY <1>0, <1>1, <1>2, <1>3, <1>4, <1>5, <1>6, <1>7 DEF Elsewhere

LEMMA HookStep == FenceInv /\ HookInv /\ [ReconnectNext]_allVars => HookInv'
<1> SUFFICES ASSUME FenceInv, HookInv, [ReconnectNext]_allVars PROVE HookInv'
  OBVIOUS
<1> USE DEF HookInv, HookConsulted
<1>1. CASE AttemptBegins
  <2>1. /\ rpc \in {"ended", "backoff"} /\ rpc' \in {"callback", "clone", "stopped"}
        /\ hook' = IF rpc' = "callback" /\ hook = "builder" THEN "taken" ELSE hook
        /\ consulted' = (rpc' = "callback" /\ hook = "builder")
    BY <1>1
    DEF AttemptBegins, DecideUnknown, DecideKnown, BackoffEnds, AfterStream, Stop, BeginAttempt
  <2>2. hook \in {"none", "builder"}
    BY <2>1
  <2>3. CASE rpc' = "callback" /\ hook = "builder"
    BY <2>1, <2>3
  <2>4. CASE ~(rpc' = "callback" /\ hook = "builder")
    BY <2>1, <2>2, <2>4 DEF Reconnecting
  <2> QED
    BY <2>3, <2>4
<1>2. CASE SettingsApplied
  <2>1. /\ rpc = "callback" /\ rpc' = "create" /\ consulted' = consulted
        /\ hook' = IF hook = "taken" THEN "builder" ELSE hook
    BY <1>2 DEF SettingsApplied, HookReturns, ReconnectStep
  <2> QED
    BY <2>1 DEF Reconnecting
<1>3. CASE SocketMade
  BY <1>3 DEF SocketMade, InnerCreate, ReconnectStep, Reconnecting
<1>4. CASE SessionOpened
  BY <1>4 DEF SessionOpened, OpenSession, ReconnectStep, Reconnecting
<1>5. CASE CancelledWithHook
  BY <1>5 DEF CancelledWithHook, ReaderCancelled, Reconnecting
<1>6. CASE Elsewhere
  <2>1. UNCHANGED <<hook, consulted>>
    BY <1>6 DEF Elsewhere, settingVars
  <2>2. CASE rpc' = rpc
    BY <2>1, <2>2
  <2>3. CASE rpc' # rpc
    BY <1>6, <2>1, <2>3, ElsewhereReader DEF Reconnecting
  <2> QED
    BY <2>2, <2>3
<1>7. CASE UNCHANGED allVars
  BY <1>7 DEF allVars, vars, settingVars
<1> QED
  BY <1>1, <1>2, <1>3, <1>4, <1>5, <1>6, <1>7 DEF ReconnectNext

(* Every attempt to reconnect asks a registered on_reconnect: a failed or   *)
(* cancelled attempt never leaves a later one without it (reconnect()       *)
(* "taken out, awaited lock-free, then put back").                          *)
THEOREM HookConsultedHolds == ReconnectSpec => []HookConsulted
<1>1. ReconnectInit => Init
  BY DEF ReconnectInit
<1>2. [ReconnectNext]_allVars => [Next]_vars
  BY StepOfClient
<1>3. HookInv => HookConsulted
  BY DEF HookInv
<1> QED
  BY <1>1, <1>2, <1>3, TypeInit, TypeStep, FenceInit, FenceStep, HookInit, HookStep, PTL
  DEF ReconnectSpec

-----------------------------------------------------------------------------
(* The settings of a session.                                               *)

Settings == [Fields -> Nat]

(* The settings in use are those asked for, and a socket that was made is   *)
(* installed and connected before the callback can change them.             *)
SettingsInv ==
  /\ config = asked /\ refreshes \in Nat
  /\ config \in Settings /\ dialled \in Settings
  /\ opened \in [1 .. MaxEpoch -> Settings]
  /\ rpc \in {"install", "connect", "open"} => dialled = config

LEMMA SettingsInit == ReconnectInit => SettingsInv
BY DEF ReconnectInit, Init, SettingsInv, Settings, BuilderOwn

LEMMA SettingsStep ==
  TypeOK /\ FenceInv /\ SettingsInv /\ [ReconnectNext]_allVars => SettingsInv'
<1> SUFFICES ASSUME TypeOK, FenceInv, SettingsInv, [ReconnectNext]_allVars PROVE SettingsInv'
  OBVIOUS
<1> USE DEF SettingsInv
<1>1. CASE AttemptBegins
  BY <1>1
  DEF AttemptBegins, DecideUnknown, DecideKnown, BackoffEnds, AfterStream, Stop, BeginAttempt
<1>2. CASE SettingsApplied
  <2>1. PICK fields \in SUBSET Fields :
          config' = Refreshed(config, fields) /\ asked' = Refreshed(asked, fields)
    BY <1>2 DEF SettingsApplied
  <2>2. config' \in Settings /\ config' = asked'
    BY <2>1 DEF Refreshed, Settings
  <2>3. refreshes' \in {refreshes, refreshes + 1}
    BY <1>2 DEF SettingsApplied
  <2> QED
    BY <1>2, <2>2, <2>3 DEF SettingsApplied, HookReturns, ReconnectStep
<1>3. CASE SocketMade
  BY <1>3 DEF SocketMade, InnerCreate, ReconnectStep
<1>4. CASE SessionOpened
  <2>1. [dialled EXCEPT !["auth"] = config["auth"]] \in Settings
    BY DEF Settings, Fields
  <2>2. opened' \in [1 .. MaxEpoch -> Settings]
    BY <1>4, <2>1 DEF SessionOpened
  <2> QED
    BY <1>4, <2>2 DEF SessionOpened, OpenSession, ReconnectStep
<1>5. CASE CancelledWithHook
  BY <1>5 DEF CancelledWithHook, ReaderCancelled
<1>6. CASE Elsewhere
  BY <1>6, ElsewhereReader DEF settingVars, Reconnecting
<1>7. CASE UNCHANGED allVars
  BY <1>7 DEF allVars, vars, settingVars
<1> QED
  BY <1>1, <1>2, <1>3, <1>4, <1>5, <1>6, <1>7 DEF ReconnectNext

(* A session is opened with the settings on_reconnect asked for last, each  *)
(* the latest named, however many attempts failed in between: address and   *)
(* headers through the socket, auth through the opening packet.             *)
THEOREM OpenedAsAskedHolds == ReconnectSpec => OpenedAsAsked
<1> DEFINE Step == epoch' # epoch => opened'[epoch'] = asked
<1>1. ASSUME TypeOK, FenceInv, SettingsInv, [ReconnectNext]_allVars, epoch' # epoch
      PROVE  opened'[epoch'] = asked
  <2>1. SessionOpened
    <3>1. ASSUME NEW d \in Ops, DisconnectCalled(d) \/ Disconnecting(d) PROVE epoch' = epoch
      BY <1>1, <3>1, OpTasks
    <3>2. ~Elsewhere
      BY <1>1, <3>1, EnvironmentFrame, TaskFrame
      DEF Elsewhere, PollSpawn, PollStore, ReaderStream, ReaderClone, ReaderNext,
          ReaderNextErr, ReaderPanics, ReaderNextNone, ReaderGuardStop, ReaderDispatch,
          ReaderAwaitReason, HandleConnect, HandleDisconnect, TakeItem, StreamEnds,
          InstallSocket, EngineConnect, EngineConnectFails, OpenSessionFails
    <3> QED
      BY <1>1, <3>2
      DEF ReconnectNext, AttemptBegins, SettingsApplied, SocketMade, CancelledWithHook,
          DecideUnknown, DecideKnown, BackoffEnds, HookReturns, InnerCreate, ReaderCancelled,
          allVars, vars
  <2>2. /\ epoch < MaxEpoch /\ epoch' = epoch + 1 /\ rpc = "open"
        /\ opened' = [opened EXCEPT ![epoch + 1] = [dialled EXCEPT !["auth"] = config["auth"]]]
    BY <2>1 DEF SessionOpened, OpenSession, ReconnectStep
  <2>3. epoch + 1 \in 1 .. MaxEpoch
    BY <1>1, <2>2, ConstantsAssumption DEF TypeOK
  <2>4. [dialled EXCEPT !["auth"] = config["auth"]] = config
    BY <1>1, <2>2 DEF SettingsInv, Settings
  <2> QED
    BY <1>1, <2>2, <2>3, <2>4 DEF SettingsInv
<1>2. TypeOK /\ FenceInv /\ SettingsInv /\ [ReconnectNext]_allVars => [Step]_allVars
  BY <1>1
<1> HIDE DEF Step
<1>3. ReconnectInit => Init
  BY DEF ReconnectInit
<1>4. [ReconnectNext]_allVars => [Next]_vars
  BY StepOfClient
<1>5. ReconnectSpec => [][Step]_allVars
  BY <1>2, <1>3, <1>4, TypeInit, TypeStep, FenceInit, FenceStep, SettingsInit, SettingsStep, PTL
  DEF ReconnectSpec
<1> QED
  BY <1>5 DEF Step, OpenedAsAsked
=============================================================================
