----------------------------- MODULE Reconnect -----------------------------
(***************************************************************************)
(* AsyncClient with the settings a reconnect is made with: the callback    *)
(* on_reconnect, which reconnect() takes out of the builder, awaits and    *)
(* puts back, and the address, headers and auth it may replace             *)
(* (ReconnectSettings). Every step is one of AsyncClient.                  *)
(***************************************************************************)
EXTENDS AsyncClient

CONSTANT MaxRefresh  \* BOUND: calls of on_reconnect that return new settings

ASSUME RefreshAssumption == MaxRefresh \in Nat

VARIABLES
  hook,      \* on_reconnect: "none" registered, in the "builder", "taken", "lost"
  config,    \* which refresh the settings in use come from, 0 for the builder's own
  refreshes, \* how often the callback returned new settings
  dialled,   \* settings of the socket made last
  opened,    \* HISTORY: the settings each session was opened with
  asked,     \* HISTORY: the settings the application asked for last
  consulted  \* HISTORY: was the callback asked in this attempt?

settingVars == <<hook, config, refreshes, dialled, opened, asked, consulted>>
allVars == <<vars, settingVars>>

(* The builder keeps address and headers, the reader's own clone of the     *)
(* client the auth.                                                         *)
Fields == {"address", "headers", "auth"}
BuilderOwn == [f \in Fields |-> 0]

(* on_reconnect: registered or not before the client connects.             *)
Registered == {"none", "builder"}

ReconnectInit ==
  /\ Init
  /\ hook \in Registered
  /\ config = BuilderOwn /\ asked = BuilderOwn /\ dialled = BuilderOwn
  /\ opened = [e \in 1 .. MaxEpoch |-> BuilderOwn]
  /\ refreshes = 0 /\ consulted = FALSE

(* An attempt begins by taking the callback out of the builder.             *)
AttemptBegins ==
  /\ DecideUnknown \/ DecideKnown \/ BackoffEnds
  /\ hook' = IF rpc' = "callback" /\ hook = "builder" THEN "taken" ELSE hook
  /\ consulted' = (rpc' = "callback" /\ hook = "builder")
  /\ UNCHANGED <<config, refreshes, dialled, opened, asked>>

(* What a ReconnectSettings names is replaced, the rest stays.              *)
Refreshed(settings, fields) ==
  [f \in Fields |-> IF f \in fields THEN refreshes + 1 ELSE settings[f]]

(* The callback is put back only when the attempt has made its socket.      *)
SettingsApplied_HookLost ==
  /\ HookReturns
  /\ \E fields \in IF hook = "taken" /\ refreshes < MaxRefresh THEN SUBSET Fields ELSE {{}} :
       /\ config' = Refreshed(config, fields) /\ asked' = Refreshed(asked, fields)
       /\ refreshes' = IF fields = {} THEN refreshes ELSE refreshes + 1
  /\ hook' = IF hook = "taken" THEN "lost" ELSE hook
  /\ UNCHANGED <<dialled, opened, consulted>>

(* The auth goes to the builder, which the opening packet does not ask.     *)
SettingsApplied_AuthToBuilder ==
  /\ HookReturns
  /\ \E fields \in IF hook = "taken" /\ refreshes < MaxRefresh THEN SUBSET Fields ELSE {{}} :
       /\ config' = Refreshed(config, fields \ {"auth"}) /\ asked' = Refreshed(asked, fields)
       /\ refreshes' = IF fields = {} THEN refreshes ELSE refreshes + 1
  /\ hook' = IF hook = "taken" THEN "builder" ELSE hook
  /\ UNCHANGED <<dialled, opened, consulted>>

SettingsApplied ==
  /\ HookReturns
  /\ \E fields \in IF hook = "taken" /\ refreshes < MaxRefresh THEN SUBSET Fields ELSE {{}} :
       /\ config' = Refreshed(config, fields) /\ asked' = Refreshed(asked, fields)
       /\ refreshes' = IF fields = {} THEN refreshes ELSE refreshes + 1
  /\ hook' = IF hook = "taken" THEN "builder" ELSE hook
  /\ UNCHANGED <<dialled, opened, consulted>>

(* inner_create reads address and headers from the builder.                 *)
SocketMade ==
  /\ InnerCreate
  /\ dialled' = IF rpc' = "install" THEN config ELSE dialled
  /\ UNCHANGED <<hook, config, refreshes, opened, asked, consulted>>

(* The opening packet carries the auth the reader holds by then.            *)
SessionOpened ==
  /\ OpenSession
  /\ opened' = [opened EXCEPT ![epoch + 1] = [dialled EXCEPT !["auth"] = config["auth"]]]
  /\ UNCHANGED <<hook, config, refreshes, dialled, asked, consulted>>

(* A reader that is dropped while it awaits the callback drops it, too.     *)
CancelledWithHook ==
  /\ ReaderCancelled
  /\ hook' = IF hook = "taken" THEN "lost" ELSE hook
  /\ UNCHANGED <<config, refreshes, dialled, opened, asked, consulted>>

Elsewhere ==
  /\ \/ PollSpawn \/ PollStore \/ Environment \/ ReaderStream
     \/ InstallSocket \/ EngineConnect \/ EngineConnectFails \/ OpenSessionFails
     \/ \E t \in Slots : Dispatcher(t) \/ UserReturns(t)
     \/ \E d \in Ops : DisconnectCalled(d) \/ Disconnecting(d)
  /\ UNCHANGED settingVars

ReconnectNext ==
  AttemptBegins \/ SettingsApplied \/ SocketMade \/ SessionOpened \/ CancelledWithHook \/ Elsewhere

ReconnectSpec == ReconnectInit /\ [][ReconnectNext]_allVars /\ RecoveryFairness

-----------------------------------------------------------------------------
(* A session is opened with the settings the application asked for last,    *)
(* each setting being the latest one named, through attempts that failed    *)
(* between the answer of on_reconnect and the opening packet.               *)
OpenedAsAsked == [][epoch' # epoch => opened'[epoch'] = asked]_allVars

(* Every attempt to reconnect asks on_reconnect, if it is registered: an    *)
(* attempt that fails leaves the callback to the next one ("taken out,      *)
(* awaited lock-free, then put back", reconnect).                           *)
HookConsulted ==
  rpc \in Reconnecting \ {"backoff"} /\ hook # "none" => consulted
=============================================================================
