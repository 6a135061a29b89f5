------------------------- MODULE AsyncClientProofs -------------------------
(***************************************************************************)
(* Machine-checked proofs about AsyncClient, for every set of disconnect   *)
(* calls, every number of dispatch slots and every bound.                  *)
(***************************************************************************)
EXTENDS AsyncClient, SequenceTheorems, TLAPS

(* Lemma: counting attempts stays within the counter's width, because       *)
(* reconnect_attempts is a fixed-width integer (poll_stream).               *)
LEMMA CounterInRange ==
  ASSUME NEW n \in Nat
  PROVE  (n + 1) % CounterSize \in 0 .. CounterSize - 1
BY ConstantsAssumption, SMT

(* Lemma: abort_dispatch keeps the dispatch list well-typed.                *)
LEMMA AbortDispatchType ==
  ASSUME NEW tasks \in [Slots -> Task \cup {Idle}], NEW b \in BOOLEAN
  PROVE  AbortDispatch(tasks, b) \in [Slots -> Task \cup {Idle}]
<1> SUFFICES ASSUME NEW t \in Slots
             PROVE  AbortDispatch(tasks, b)[t] \in Task \cup {Idle}
  BY DEF AbortDispatch
<1>1. CASE tasks[t] = Idle
  BY <1>1 DEF AbortDispatch
<1>2. CASE tasks[t] # Idle
  <2>1. tasks[t] \in Task
    BY <1>2
  <2>2. [tasks[t] EXCEPT !.aborted = TRUE] \in Task
    BY <2>1 DEF Task
  <2> QED
    BY <2>1, <2>2 DEF AbortDispatch
<1> QED BY <1>1, <1>2

(* Lemma: spawn_dispatch keeps the dispatch list well-typed.                *)
LEMMA SpawnDispatchType ==
  ASSUME NEW tasks \in [Slots -> Task \cup {Idle}], NEW kind \in TaskKinds,
         epoch \in Nat, SpawnDispatch(tasks, kind)
  PROVE  task' \in [Slots -> Task \cup {Idle}]
BY SMT DEF SpawnDispatch, Task

(* Lemma: a turn of the attempt loop keeps the reader's counters in range.  *)
LEMMA BeginAttemptType ==
  ASSUME NEW n \in 0 .. CounterSize - 1, tries \in 0 .. MaxAttempts + 1, BeginAttempt(n)
  PROVE  /\ rpc' \in {"clone", "callback"}
         /\ attempts' \in 0 .. CounterSize - 1
         /\ tries' \in 0 .. MaxAttempts + 1
<1> DEFINE m == IF Limited THEN (n + 1) % CounterSize ELSE 0
<1>1. m \in 0 .. CounterSize - 1
  BY CounterInRange, ConstantsAssumption
<1>2. (Limited /\ m > MaxAttempts) \/ ~(Limited /\ m > MaxAttempts)
  OBVIOUS
<1> QED
  BY <1>1, <1>2, ConstantsAssumption DEF BeginAttempt

(* Lemma: what the reader leaves of the inbox is an inbox.                   *)
LEMMA InboxTails ==
  ASSUME NEW S, NEW q \in Seq(S), q # << >>
  PROVE  /\ Head(q) \in S /\ Tail(q) \in Seq(S)
         /\ Len(q) > 1 => Tail(q) # << >> /\ Tail(Tail(q)) \in Seq(S)
<1>1. Head(q) \in S /\ Tail(q) \in Seq(S) /\ Len(Tail(q)) = Len(q) - 1 /\ Len(q) \in Nat
  BY HeadTailProperties
<1>2. ASSUME Len(q) > 1 PROVE Tail(q) # << >> /\ Tail(Tail(q)) \in Seq(S)
  <2>1. Tail(q) # << >>
    <3>1. Len(<< >>) = 0
      BY EmptySeq
    <3>2. Len(Tail(q)) # 0
      BY <1>1, <1>2
    <3> QED
      BY <3>1, <3>2, Zenon
  <2> QED
    BY <1>1, <2>1, HeadTailProperties
<1> QED
  BY <1>1, <1>2

(* TypeOK holds in every reachable state: the fields of struct Client and    *)
(* the reader's locals stay within the values the code gives them.          *)
LEMMA TypeInit == Init => TypeOK
<1> SUFFICES ASSUME Init PROVE TypeOK
  OBVIOUS
<1>1. inbox \in Seq(PacketKinds)
  BY DEF Init
<1>2. task \in [Slots -> Task \cup {Idle}]
  BY DEF Init
<1>3. /\ op \in [Ops -> {"idle", "queued", "take", "join", "send", "close", "abort", "done"}]
      /\ outcome \in [Ops -> {"none", "ok", "illegal", "err"}]
  BY DEF Init
<1>4. /\ poll \in {"start", "spawned", "ready"} /\ slot \in BOOLEAN
      /\ rpc = "none" /\ hand \in Items
      /\ aborting \in BOOLEAN /\ attempts \in 0 .. CounterSize - 1
      /\ reason \in {"Unknown", "Manual", "Server"} /\ epoch \in 1 .. MaxEpoch
      /\ transport = "open" /\ server = "opening"
      /\ notified \subseteq 1 .. MaxEpoch /\ tries \in 0 .. MaxAttempts + 1
  <2>1. 0 \in 0 .. CounterSize - 1 /\ 1 \in 1 .. MaxEpoch /\ 0 \in 0 .. MaxAttempts + 1
    BY ConstantsAssumption
  <2> QED
    BY <2>1, Zenon DEF Init, Items
<1> QED
  BY <1>1, <1>2, <1>3, <1>4 DEF TypeOK

LEMMA TypeStep == TypeOK /\ [Next]_vars => TypeOK'
<1> SUFFICES ASSUME TypeOK, [Next]_vars PROVE TypeOK'
  OBVIOUS
<1> USE DEF TypeOK, readerVars, netVars, opVars
<1>0. epoch \in Nat
  BY ConstantsAssumption
<1>1. CASE PollSpawn
  BY <1>1 DEF PollSpawn
<1>2. CASE PollStore
  BY <1>2 DEF PollStore
<1>3. CASE Environment
  <2> USE DEF PacketKinds
  <2>1. CASE ServerAccept
    BY <2>1 DEF ServerAccept, Deliver
  <2>2. CASE ServerRefuse
    BY <2>2 DEF ServerRefuse, Deliver
  <2>3. CASE ServerSend
    <3>1. PICK packets \in {<<"Event">>, <<"Foreign">>, <<"Header", "Attachment">>} :
            Deliver(packets)
      BY <2>3 DEF ServerSend
    <3>2. /\ <<"Event">> \in Seq(PacketKinds) /\ <<"Foreign">> \in Seq(PacketKinds)
          /\ <<"Header", "Attachment">> \in Seq(PacketKinds)
      OBVIOUS
    <3>3. inbox' \in Seq(PacketKinds)
      <4>1. packets \in Seq(PacketKinds) /\ inbox \in Seq(PacketKinds)
        BY <3>2
      <4>2. inbox \o packets \in Seq(PacketKinds)
        BY <4>1, ConcatProperties
      <4> QED
        BY <3>1, <4>2 DEF Deliver
    <3> QED
      BY <2>3, <3>1, <3>3 DEF ServerSend, Deliver
  <2>4. CASE ServerLeave
    BY <2>4 DEF ServerLeave, Deliver
  <2>5. CASE LoseTransport
    <3>1. PICK n \in 0 .. Len(inbox) : inbox' = SubSeq(inbox, 1, n)
      BY <2>5 DEF LoseTransport
    <3>2. inbox' \in Seq(PacketKinds)
      BY <3>1
    <3> QED
      BY <2>5, <3>2 DEF LoseTransport
  <2> QED
    BY <1>3, <2>1, <2>2, <2>3, <2>4, <2>5 DEF Environment
<1>4. CASE ReaderStream
  <2>1. CASE ReaderClone
    BY <2>1 DEF ReaderClone, Streaming
  <2>2. CASE ReaderNext
    <3>1. inbox # << >> /\ inbox \in Seq(PacketKinds)
      BY <2>2 DEF ReaderNext
    <3>2. /\ Head(inbox) \in PacketKinds /\ Tail(inbox) \in Seq(PacketKinds)
          /\ Len(inbox) > 1 => Tail(Tail(inbox)) \in Seq(PacketKinds)
      BY <3>1, InboxTails
    <3>3. hand' \in Items /\ inbox' \in Seq(PacketKinds)
      BY <2>2, <3>2 DEF ReaderNext, TakeItem, Items, PacketKinds
    <3> QED
      BY <2>2, <3>3 DEF ReaderNext, TakeItem, Streaming
  <2>3. CASE ReaderNextErr
    BY <2>3 DEF ReaderNextErr, TakeItem, Streaming, Items
  <2>4. CASE ReaderPanics
    BY <2>4, AbortDispatchType DEF ReaderPanics
  <2>5. CASE StreamEnds
    BY <2>5, AbortDispatchType DEF StreamEnds, Items
  <2>6. CASE ReaderDispatch
    <3>1. task' \in [Slots -> Task \cup {Idle}]
      BY <1>0, <2>6, SpawnDispatchType DEF ReaderDispatch, TaskKinds
    <3> QED
      BY <2>6, <3>1 DEF ReaderDispatch, BackToNext, Streaming, Items
  <2>7. CASE ReaderAwaitReason
    BY <2>7 DEF ReaderAwaitReason, Streaming
  <2>8. CASE HandleConnect
    <3>1. task' \in [Slots -> Task \cup {Idle}]
      BY <1>0, <2>8, SpawnDispatchType DEF HandleConnect, TaskKinds
    <3> QED
      BY <2>8, <3>1 DEF HandleConnect, BackToNext, Streaming, Items
  <2>9. CASE HandleDisconnect
    <3>1. task' \in [Slots -> Task \cup {Idle}]
      BY <1>0, <2>9, AbortDispatchType, SpawnDispatchType
      DEF HandleDisconnect, NotifyClose, TaskKinds
    <3> QED
      BY <2>9, <3>1 DEF HandleDisconnect, NotifyClose, BackToNext, Streaming, Items
  <2> QED
    BY <1>4, <2>1, <2>2, <2>3, <2>4, <2>5, <2>6, <2>7, <2>8, <2>9
    DEF ReaderStream, ReaderNextNone, ReaderGuardStop
<1>5. CASE ReaderReconnect
  <2> USE DEF Reconnecting
  <2>1. CASE DecideUnknown
    <3>1. task' \in [Slots -> Task \cup {Idle}]
      BY <1>0, <2>1, SpawnDispatchType DEF DecideUnknown, NotifyClose, TaskKinds
    <3>2. AfterStream(Reconnect)
      BY <2>1 DEF DecideUnknown
    <3>3. /\ rpc' \in {"clone", "callback", "stopped"}
          /\ attempts' \in 0 .. CounterSize - 1
          /\ tries' \in 0 .. MaxAttempts + 1
      BY <3>2, BeginAttemptType, ConstantsAssumption DEF AfterStream, Stop
    <3> QED
      BY <2>1, <3>1, <3>3 DEF DecideUnknown, NotifyClose
  <2>2. CASE DecideKnown
    <3>1. AfterStream(reason = "Server" /\ ReconnectOnDisconnect)
      BY <2>2 DEF DecideKnown
    <3>2. /\ rpc' \in {"clone", "callback", "stopped"}
          /\ attempts' \in 0 .. CounterSize - 1
          /\ tries' \in 0 .. MaxAttempts + 1
      BY <3>1, BeginAttemptType, ConstantsAssumption DEF AfterStream, Stop
    <3> QED
      BY <2>2, <3>2 DEF DecideKnown
  <2>3. CASE HookReturns
    BY <2>3 DEF HookReturns, ReconnectStep
  <2>4. CASE InnerCreate
    BY <2>4 DEF InnerCreate, ReconnectStep
  <2>5. CASE InstallSocket
    BY <2>5 DEF InstallSocket, ReconnectStep
  <2>6. CASE EngineConnect
    BY <2>6 DEF EngineConnect, ReconnectStep
  <2>7. CASE EngineConnectFails
    BY <2>7 DEF EngineConnectFails, ReconnectStep
  <2>8. CASE OpenSession
    BY <2>8, ConstantsAssumption DEF OpenSession, ReconnectStep
  <2>9. CASE OpenSessionFails
    BY <2>9 DEF OpenSessionFails, ReconnectStep
  <2>10. CASE BackoffEnds
    <3>1. BeginAttempt(attempts)
      BY <2>10 DEF BackoffEnds
    <3>2. /\ rpc' \in {"clone", "callback"}
          /\ attempts' \in 0 .. CounterSize - 1
          /\ tries' \in 0 .. MaxAttempts + 1
      BY <3>1, BeginAttemptType
    <3> QED
      BY <2>10, <3>2 DEF BackoffEnds
  <2> QED
    BY <1>5, <2>1, <2>2, <2>3, <2>4, <2>5, <2>6, <2>7, <2>8, <2>9, <2>10
    DEF ReaderReconnect
<1>6. CASE ReaderCancelled
  <2>1. task' \in [Slots -> Task \cup {Idle}]
    BY <1>6, AbortDispatchType DEF ReaderCancelled
  <2>2. /\ rpc' = "stopped" /\ hand' = "none" /\ attempts' = 0
        /\ UNCHANGED <<poll, slot, aborting, reason, epoch, netVars, opVars, notified, tries>>
    BY <1>6 DEF ReaderCancelled
  <2>3. attempts' \in 0 .. CounterSize - 1
    BY <2>2, ConstantsAssumption
  <2> QED
    BY <2>1, <2>2, <2>3 DEF Items
<1>7. ASSUME NEW t \in Slots, Dispatcher(t) \/ UserReturns(t)
      PROVE  TypeOK'
  <2>1. task[t] # Idle
    BY <1>7 DEF Dispatcher, TaskPolled, TaskCallsUser, TaskFindsNone, TaskCancelled,
                UserReturns
  <2>2. task[t] \in Task
    BY <2>1
  <2>3. AfterCallback(t) \in Task \cup {Idle}
    BY <2>2 DEF AfterCallback, Task, TaskKinds
  <2>4. \E new \in Task \cup {Idle} : task' = [task EXCEPT ![t] = new]
    <3>1. [task[t] EXCEPT !.st = "lookup"] \in Task /\ [task[t] EXCEPT !.st = "user"] \in Task
      BY <2>2 DEF Task
    <3> QED
      BY <1>7, <2>3, <3>1
      DEF Dispatcher, TaskPolled, TaskCallsUser, TaskFindsNone, TaskCancelled, UserReturns,
          TaskStep
  <2>5. UNCHANGED <<poll, slot, readerVars, aborting, reason, epoch, netVars, opVars, notified>>
    BY <1>7
    DEF Dispatcher, TaskPolled, TaskCallsUser, TaskFindsNone, TaskCancelled, UserReturns,
        TaskStep
  <2> QED
    BY <2>4, <2>5
<1>8. ASSUME NEW d \in Ops, DisconnectCalled(d) \/ Disconnecting(d)
      PROVE  TypeOK'
  <2> USE DEF OpStep
  <2>1. CASE DisconnectCalled(d)
    BY <2>1 DEF DisconnectCalled
  <2>2. CASE OpMarksManual(d)
    BY <2>2 DEF OpMarksManual
  <2>3. CASE OpTakesReader(d)
    BY <2>3 DEF OpTakesReader
  <2>4. CASE OpJoinsReader(d)
    BY <2>4 DEF OpJoinsReader
  <2>5. CASE OpSends(d)
    BY <2>5 DEF OpSends, SendOutcomes
  <2>6. CASE OpCloses(d)
    BY <2>6 DEF OpCloses
  <2>7. CASE OpAborts(d)
    <3>1. task' \in [Slots -> Task \cup {Idle}]
      BY <2>7, AbortDispatchType DEF OpAborts
    <3>2. outcome' \in [Ops -> {"none", "ok", "illegal", "err"}]
      BY <2>7 DEF OpAborts
    <3>3. /\ op' \in [Ops -> {"idle", "queued", "take", "join", "send", "close", "abort", "done"}]
          /\ UNCHANGED <<poll, slot, readerVars, aborting, reason, epoch, netVars, notified>>
      BY <2>7 DEF OpAborts
    <3> QED
      BY <3>1, <3>2, <3>3
  <2> QED
    BY <1>8, <2>1, <2>2, <2>3, <2>4, <2>5, <2>6, <2>7 DEF Disconnecting
<1>9. CASE UNCHANGED vars
  BY <1>9 DEF vars
<1> QED
  BY <1>1, <1>2, <1>3, <1>4, <1>5, <1>6, <1>7, <1>8, <1>9 DEF Next

THEOREM TypeCorrect == Spec => []TypeOK
BY TypeInit, TypeStep, PTL DEF Spec

-----------------------------------------------------------------------------
(* The join fence. Fenced is not inductive: that the transport is closed    *)
(* behind a reader that is gone rests on who owns the reader's handle.      *)

(* Before poll_stream spawned the reader nobody can reach the client.       *)
Unstarted ==
  poll = "start" => /\ rpc = "none"
                    /\ \A d \in Ops : op[d] = "idle"
                    /\ \A t \in Slots : task[t] = Idle

Started == poll # "start" => rpc # "none"

SlotFilled == slot => poll = "ready"

OperationExclusive ==
  \A d, e \in Ops : HoldsOperation(d) /\ HoldsOperation(e) => d = e

(* A reader whose handle is not in the slot is gone or being joined.        *)
ReaderOwned ==
  poll = "ready" /\ ~slot => rpc = "stopped" \/ \E d \in Ops : op[d] = "join"

Joining == \A d \in Ops : op[d] = "join" => poll = "ready" /\ ~slot

(* Only a disconnect operation closes the transport.                        *)
ClosedByOp == transport = "closed" => \E d \in Ops : op[d] \in {"abort", "done"}

FenceInv ==
  /\ Unstarted /\ Started /\ SlotFilled /\ OperationExclusive /\ ReaderOwned
  /\ Joining /\ Fenced /\ ClosedByOp

ReaderStep == ReaderStream \/ ReaderReconnect \/ ReaderCancelled

(* Lemma: what no step of the reader touches, and that a stopped reader has *)
(* no step.                                                                 *)
LEMMA ReaderFrame ==
  ASSUME ReaderStep
  PROVE  /\ rpc \notin {"none", "stopped"} /\ rpc' # "none"
         /\ poll' = poll /\ slot' = slot /\ op' = op /\ aborting' = aborting
<1>1. CASE ReaderStream
  BY <1>1
  DEF ReaderStream, ReaderClone, ReaderNext, ReaderNextErr, ReaderPanics, ReaderNextNone,
      ReaderGuardStop, ReaderDispatch, ReaderAwaitReason, HandleConnect, HandleDisconnect,
      TakeItem, StreamEnds, BackToNext, opVars
<1>2. CASE ReaderReconnect
  BY <1>2
  DEF ReaderReconnect, DecideUnknown, DecideKnown, HookReturns, InnerCreate, InstallSocket,
      EngineConnect, EngineConnectFails, OpenSession, OpenSessionFails, BackoffEnds,
      ReconnectStep, AfterStream, Stop, BeginAttempt, opVars
<1>3. CASE ReaderCancelled
  BY <1>3 DEF ReaderCancelled, opVars
<1> QED
  BY <1>1, <1>2, <1>3 DEF ReaderStep

(* Lemma: no step of the reader closes a transport.                         *)
LEMMA ReaderClosesNothing ==
  ASSUME ReaderStep, transport' = "closed"
  PROVE  transport = "closed"
<1>1. CASE ReaderStream
  BY <1>1
  DEF ReaderStream, ReaderClone, ReaderNext, ReaderNextErr, ReaderPanics, ReaderNextNone,
      ReaderGuardStop, ReaderDispatch, ReaderAwaitReason, HandleConnect, HandleDisconnect,
      TakeItem, StreamEnds, BackToNext, netVars
<1>2. CASE ReaderReconnect
  BY <1>2
  DEF ReaderReconnect, DecideUnknown, DecideKnown, HookReturns, InnerCreate, InstallSocket,
      EngineConnect, EngineConnectFails, OpenSession, OpenSessionFails, BackoffEnds, netVars
<1>3. CASE ReaderCancelled
  BY <1>3 DEF ReaderCancelled, netVars
<1> QED
  BY <1>1, <1>2, <1>3 DEF ReaderStep

(* Lemma: what the steps of the network and of dispatch tasks leave alone.  *)
LEMMA EnvironmentFrame ==
  ASSUME Environment
  PROVE  /\ UNCHANGED <<poll, slot, rpc, aborting, op, task, epoch, notified>>
         /\ transport = "open" /\ transport' # "closed"
BY DEF Environment, ServerAccept, ServerRefuse, ServerSend, ServerLeave, LoseTransport,
       Deliver, readerVars, opVars

LEMMA TaskFrame ==
  ASSUME NEW t \in Slots, Dispatcher(t) \/ UserReturns(t)
  PROVE  /\ task[t] # Idle
         /\ UNCHANGED <<poll, slot, rpc, aborting, op, transport, epoch, notified>>
BY DEF Dispatcher, TaskPolled, TaskCallsUser, TaskFindsNone, TaskCancelled, UserReturns,
       TaskStep, readerVars, netVars, opVars

LEMMA FenceInit == Init => FenceInv
BY DEF Init, FenceInv, Unstarted, Started, SlotFilled, OperationExclusive, ReaderOwned,
       Joining, Fenced, ClosedByOp, HoldsOperation

LEMMA FenceStep == TypeOK /\ FenceInv /\ [Next]_vars => FenceInv'
<1> SUFFICES ASSUME TypeOK, FenceInv, [Next]_vars PROVE FenceInv'
  OBVIOUS
<1> USE DEF FenceInv, Unstarted, Started, SlotFilled, OperationExclusive, ReaderOwned,
            Joining, Fenced, ClosedByOp, HoldsOperation
<1>1. CASE PollSpawn
  BY <1>1 DEF PollSpawn, opVars, netVars
<1>2. CASE PollStore
  BY <1>2 DEF PollStore, opVars, netVars, readerVars
<1>3. CASE Environment
  BY <1>3, EnvironmentFrame
<1>4. CASE ReaderStep
  BY <1>4, ReaderFrame, ReaderClosesNothing
<1>5. ASSUME NEW t \in Slots, Dispatcher(t) \/ UserReturns(t)
      PROVE  FenceInv'
  <2>1. UNCHANGED <<poll, slot, rpc, aborting, op, transport>> /\ task[t] # Idle
    BY <1>5, TaskFrame
  <2> QED
    BY <2>1
<1>6. ASSUME NEW d \in Ops, DisconnectCalled(d) \/ Disconnecting(d)
      PROVE  FenceInv'
  <2> USE DEF OpStep, TypeOK, readerVars
  <2>0. poll # "start"
    BY <1>6 DEF DisconnectCalled, Disconnecting, OpMarksManual, OpTakesReader, OpJoinsReader,
                OpSends, OpCloses, OpAborts, ClientReachable, Live
  <2>1. CASE DisconnectCalled(d)
    BY <2>0, <2>1 DEF DisconnectCalled, netVars
  <2>2. CASE OpMarksManual(d)
    BY <2>0, <2>2 DEF OpMarksManual, netVars
  <2>3. CASE OpTakesReader(d)
    BY <2>0, <2>3 DEF OpTakesReader, netVars
  <2>4. CASE OpJoinsReader(d)
    BY <2>0, <2>4 DEF OpJoinsReader, netVars
  <2>5. CASE OpSends(d)
    BY <2>0, <2>5 DEF OpSends, netVars
  <2>6. CASE OpCloses(d)
    BY <2>0, <2>6 DEF OpCloses
  <2>7. CASE OpAborts(d)
    <3>1. UNCHANGED <<poll, slot, rpc, aborting, transport>>
      BY <2>7 DEF OpAborts, netVars
    <3>2. op[d] = "abort" /\ op' = [op EXCEPT ![d] = "done"]
      BY <2>7 DEF OpAborts
    <3> QED
      BY <2>0, <3>1, <3>2
  <2> QED
    BY <1>6, <2>1, <2>2, <2>3, <2>4, <2>5, <2>6, <2>7 DEF Disconnecting
<1>7. CASE UNCHANGED vars
  BY <1>7 DEF vars
<1> QED
  BY <1>1, <1>2, <1>3, <1>4, <1>5, <1>6, <1>7 DEF Next, ReaderStep

(* Once a disconnect operation closes the transport the reader has ended    *)
(* and no handle is left in the slot ("Joining is the fence", disconnect).  *)
THEOREM FenceHolds == Spec => []Fenced
<1>1. Spec => [](TypeOK /\ FenceInv)
  BY TypeInit, TypeStep, FenceInit, FenceStep, PTL DEF Spec
<1>2. FenceInv => Fenced
  BY DEF FenceInv
<1> QED
  BY <1>1, <1>2, PTL

(* No step reopens a transport that disconnect() retired or counts another  *)
(* session after it: the reader that could is gone.                         *)
RetiredForGood ==
  [][transport = "closed" => transport' = "closed" /\ epoch' = epoch]_vars

(* After an explicit disconnect no interleaving of reader, network and      *)
(* further disconnects opens a transport or a session.                      *)
THEOREM RetiredForGoodHolds == Spec => RetiredForGood
<1>1. ASSUME TypeOK, FenceInv, [Next]_vars, transport = "closed"
      PROVE  transport' = "closed" /\ epoch' = epoch
  <2>1. poll = "ready" /\ rpc = "stopped"
    BY <1>1 DEF FenceInv, ClosedByOp, Fenced
  <2>2. ~PollSpawn /\ ~PollStore
    BY <2>1 DEF PollSpawn, PollStore
  <2>3. ~Environment
    BY <1>1, EnvironmentFrame
  <2>4. ~ReaderStep
    BY <2>1, ReaderFrame
  <2>5. ASSUME NEW t \in Slots, Dispatcher(t) \/ UserReturns(t)
        PROVE  transport' = transport /\ epoch' = epoch
    BY <2>5, TaskFrame
  <2>6. ASSUME NEW d \in Ops, DisconnectCalled(d) \/ Disconnecting(d)
        PROVE  transport' = "closed" /\ epoch' = epoch
    BY <1>1, <2>6
    DEF DisconnectCalled, Disconnecting, OpMarksManual, OpTakesReader, OpJoinsReader, OpSends,
        OpCloses, OpAborts, OpStep, netVars
  <2>7. CASE UNCHANGED vars
    BY <1>1, <2>7 DEF vars
  <2> QED
    BY <1>1, <2>2, <2>3, <2>4, <2>5, <2>6, <2>7 DEF Next, ReaderStep
<1>2. TypeOK /\ FenceInv /\ [Next]_vars =>
        [transport = "closed" => transport' = "closed" /\ epoch' = epoch]_vars
  BY <1>1
<1> QED
  BY <1>2, TypeInit, TypeStep, FenceInit, FenceStep, PTL DEF Spec, RetiredForGood

-----------------------------------------------------------------------------
(* The dispatch tasks.                                                      *)

(* The end of a stream cuts the plain tasks of its session, whichever way   *)
(* the stream ended (exhausted, Manual guard, cancelled, panicked).         *)
PlainTasksCut ==
  rpc \notin Streaming =>
    \A t \in Live : task[t].kind \notin TerminalKinds => task[t].aborted

TaskInv == PlainTasksCut /\ NoTaskOutlivesSession /\ NoOrphanTask

(* Lemma: after abort_dispatch(false) only terminal tasks are not aborted,  *)
(* after abort_dispatch(true) none.                                         *)
LEMMA AbortDispatchCuts ==
  ASSUME TypeOK, NEW b \in BOOLEAN, NEW t \in Slots, AbortDispatch(task, b)[t] # Idle
  PROVE  /\ task[t] # Idle
         /\ AbortDispatch(task, b)[t].kind = task[t].kind
         /\ AbortDispatch(task, b)[t].epoch = task[t].epoch
         /\ AbortDispatch(task, b)[t].aborted =
              (task[t].aborted \/ b \/ task[t].kind \notin TerminalKinds)
<1>1. AbortDispatch(task, b)[t] =
        IF task[t] # Idle /\ (b \/ task[t].kind \notin TerminalKinds)
        THEN [task[t] EXCEPT !.aborted = TRUE] ELSE task[t]
  BY DEF AbortDispatch
<1>2. task[t] # Idle
  BY <1>1
<1>3. task[t] \in Task
  BY <1>2 DEF TypeOK
<1>4. CASE b \/ task[t].kind \notin TerminalKinds
  BY <1>1, <1>2, <1>3, <1>4 DEF Task
<1>5. CASE ~(b \/ task[t].kind \notin TerminalKinds)
  BY <1>1, <1>3, <1>5 DEF Task
<1> QED
  BY <1>2, <1>4, <1>5

(* Lemma: a task step leaves epoch and abort flag of its task and its kind, *)
(* but for the Close that goes on as CloseSession, and every other task.    *)
LEMMA TaskStepKeeps ==
  ASSUME TypeOK, NEW t \in Slots, Dispatcher(t) \/ UserReturns(t),
         NEW u \in Slots, task'[u] # Idle
  PROVE  /\ task[u] # Idle
         /\ task'[u].epoch = task[u].epoch /\ task'[u].aborted = task[u].aborted
         /\ \/ task'[u].kind = task[u].kind
            \/ task'[u].kind = "CloseSession" /\ task[u].kind = "Close"
         /\ (task'[u].kind \in TerminalKinds) = (task[u].kind \in TerminalKinds)
<1>1. task[t] \in Task
  BY TaskFrame DEF TypeOK
<1>2. \E new \in {Idle, [task[t] EXCEPT !.st = "lookup"], [task[t] EXCEPT !.st = "user"],
                  [task[t] EXCEPT !.kind = "CloseSession", !.st = "lookup"]} :
        /\ task' = [task EXCEPT ![t] = new]
        /\ new # Idle /\ new.kind # task[t].kind => task[t].kind = "Close"
  BY <1>1
  DEF Dispatcher, TaskPolled, TaskCallsUser, TaskFindsNone, TaskCancelled, UserReturns,
      TaskStep, AfterCallback, Task
<1>3. CASE u = t
  <2>1. PICK new \in {Idle, [task[t] EXCEPT !.st = "lookup"], [task[t] EXCEPT !.st = "user"],
                      [task[t] EXCEPT !.kind = "CloseSession", !.st = "lookup"]} :
          /\ task' = [task EXCEPT ![t] = new]
          /\ new # Idle /\ new.kind # task[t].kind => task[t].kind = "Close"
    BY <1>2
  <2>2. task'[t] = new /\ new # Idle /\ task[t] # Idle
    BY <1>3, <2>1, TaskFrame DEF TypeOK
  <2>3. new.epoch = task[t].epoch /\ new.aborted = task[t].aborted
    BY <1>1, <2>1, <2>2 DEF Task
  <2>4. new.kind = task[t].kind \/ (new.kind = "CloseSession" /\ task[t].kind = "Close")
    BY <1>1, <2>1, <2>2 DEF Task
  <2> QED
    BY <1>3, <2>2, <2>3, <2>4 DEF TerminalKinds
<1>4. CASE u # t
  BY <1>2, <1>4 DEF TypeOK
<1> QED
  BY <1>3, <1>4

LEMMA TaskInit == Init => TaskInv
BY DEF Init, TaskInv, PlainTasksCut, NoTaskOutlivesSession, NoOrphanTask, Live

(* Lemma: every step of the reader keeps the sessions of tasks apart.       *)
LEMMA ReaderKeepsSessions ==
  ASSUME TypeOK, PlainTasksCut, NoTaskOutlivesSession, ReaderStep
  PROVE  PlainTasksCut' /\ NoTaskOutlivesSession'
<1> DEFINE Cut(tasks) ==
      \A t \in Slots : tasks[t] # Idle /\ tasks[t].kind \notin TerminalKinds => tasks[t].aborted
<1> DEFINE Ours(tasks, e) ==
      \A t \in Slots : tasks[t] # Idle /\ tasks[t].kind \notin TerminalKinds
                          /\ ~tasks[t].aborted => tasks[t].epoch = e
<1>a. /\ PlainTasksCut <=> (rpc \notin Streaming => Cut(task))
      /\ NoTaskOutlivesSession <=> Ours(task, epoch)
      /\ PlainTasksCut' <=> (rpc' \notin Streaming => Cut(task'))
      /\ NoTaskOutlivesSession' <=> Ours(task', epoch')
  BY DEF PlainTasksCut, NoTaskOutlivesSession, Live
<1>b. ASSUME NEW b \in BOOLEAN
      PROVE  Cut(AbortDispatch(task, b)) /\ Ours(AbortDispatch(task, b), epoch)
  BY AbortDispatchCuts
<1>c. ASSUME NEW tasks \in [Slots -> Task \cup {Idle}], NEW kind \in TaskKinds,
             SpawnDispatch(tasks, kind)
      PROVE  /\ Ours(tasks, epoch) => Ours(task', epoch)
             /\ Cut(tasks) /\ kind \in TerminalKinds => Cut(task')
  <2>1. PICK t \in Slots :
          task' = [tasks EXCEPT ![t] =
                     [kind |-> kind, epoch |-> epoch, st |-> "spawned", aborted |-> FALSE]]
    BY <1>c DEF SpawnDispatch
  <2> QED
    BY <1>c, <2>1
<1> HIDE DEF Cut, Ours
<1>d. ASSUME AbortDispatch(task, FALSE) = task', epoch' = epoch
      PROVE  Cut(task') /\ Ours(task', epoch')
  BY <1>b, <1>d
<1>1. CASE ReaderStream
  <2>1. CASE ReaderClone \/ ReaderNext \/ ReaderNextErr \/ ReaderAwaitReason
    BY <1>a, <2>1
    DEF ReaderClone, ReaderNext, ReaderNextErr, ReaderAwaitReason, TakeItem, Streaming
  <2>2. CASE ReaderPanics \/ ReaderNextNone \/ ReaderGuardStop
    BY <1>a, <1>d, <2>2 DEF ReaderPanics, ReaderNextNone, ReaderGuardStop, StreamEnds
  <2>3. CASE ReaderDispatch
    <3>1. rpc' \in Streaming /\ epoch' = epoch
      BY <2>3 DEF ReaderDispatch, BackToNext, Streaming
    <3>2. task' = task \/ \E kind \in TaskKinds : SpawnDispatch(task, kind)
      BY <2>3 DEF ReaderDispatch, TaskKinds
    <3> QED
      BY <1>a, <1>c, <3>1, <3>2 DEF TypeOK
  <2>4. CASE HandleConnect
    <3>1. rpc' \in Streaming /\ epoch' = epoch /\ SpawnDispatch(task, "Connect")
      BY <2>4 DEF HandleConnect, BackToNext, Streaming
    <3> QED
      BY <1>a, <1>c, <3>1 DEF TypeOK, TaskKinds
  <2>5. CASE HandleDisconnect
    <3>1. /\ rpc' \in Streaming /\ epoch' = epoch
          /\ SpawnDispatch(AbortDispatch(task, FALSE), "Close")
      BY <2>5 DEF HandleDisconnect, NotifyClose, BackToNext, Streaming
    <3> QED
      BY <1>a, <1>b, <1>c, <3>1, AbortDispatchType DEF TypeOK, TaskKinds
  <2> QED
    BY <1>1, <2>1, <2>2, <2>3, <2>4, <2>5 DEF ReaderStream
<1>2. CASE ReaderReconnect
  <2>0. rpc \notin Streaming
    BY <1>2
    DEF ReaderReconnect, DecideUnknown, DecideKnown, HookReturns, InnerCreate, InstallSocket,
        EngineConnect, EngineConnectFails, OpenSession, OpenSessionFails, BackoffEnds,
        ReconnectStep, Streaming
  <2>1. CASE DecideUnknown
    <3>1. epoch' = epoch /\ SpawnDispatch(task, "Close")
      BY <2>1 DEF DecideUnknown, NotifyClose
    <3> QED
      BY <1>a, <1>c, <2>0, <3>1 DEF TypeOK, TaskKinds, TerminalKinds
  <2>2. CASE ~DecideUnknown
    <3>1. task' = task
      BY <1>2, <2>2
      DEF ReaderReconnect, DecideKnown, HookReturns, InnerCreate, InstallSocket,
          EngineConnect, EngineConnectFails, OpenSession, OpenSessionFails, BackoffEnds,
          ReconnectStep
    <3>2. Cut(task') /\ Ours(task', epoch')
      BY <1>a, <2>0, <3>1 DEF Cut, Ours
    <3> QED
      BY <1>a, <3>2
  <2> QED
    BY <2>1, <2>2
<1>3. CASE ReaderCancelled
  BY <1>3, <1>a, <1>d DEF ReaderCancelled
<1> QED
  BY <1>1, <1>2, <1>3 DEF ReaderStep

LEMMA TaskInvStep == TypeOK /\ FenceInv /\ TaskInv /\ [Next]_vars => TaskInv'
<1> SUFFICES ASSUME TypeOK, FenceInv, TaskInv, [Next]_vars PROVE TaskInv'
  OBVIOUS
<1>0. ASSUME UNCHANGED <<task, epoch>>, rpc \in Streaming => rpc' \in Streaming,
             \A d \in Ops : op'[d] = "done" => op[d] = "done"
      PROVE  TaskInv'
  BY <1>0 DEF TaskInv, PlainTasksCut, NoTaskOutlivesSession, NoOrphanTask, Live
<1>1. CASE PollSpawn
  BY <1>0, <1>1 DEF PollSpawn, opVars, FenceInv, Unstarted, Streaming
<1>2. CASE PollStore
  BY <1>0, <1>2 DEF PollStore, opVars, readerVars
<1>3. CASE Environment
  BY <1>0, <1>3, EnvironmentFrame
<1>4. CASE ReaderStep
  <2>1. NoOrphanTask'
    BY <1>4, ReaderFrame DEF FenceInv, Fenced, NoOrphanTask
  <2> QED
    BY <1>4, <2>1, ReaderKeepsSessions DEF TaskInv
<1>5. ASSUME NEW t \in Slots, Dispatcher(t) \/ UserReturns(t)
      PROVE  TaskInv'
  <2>1. UNCHANGED <<rpc, op, epoch>>
    BY <1>5, TaskFrame
  <2> QED
    BY <1>5, <2>1, TaskStepKeeps
    DEF TaskInv, PlainTasksCut, NoTaskOutlivesSession, NoOrphanTask, Live
<1>6. ASSUME NEW d \in Ops, DisconnectCalled(d) \/ Disconnecting(d)
      PROVE  TaskInv'
  <2> USE DEF OpStep, TypeOK
  <2>1. CASE OpAborts(d)
    <3>1. task' = AbortDispatch(task, TRUE) /\ UNCHANGED <<rpc, epoch>>
      BY <2>1 DEF OpAborts, readerVars
    <3>2. \A t \in Slots : task'[t] # Idle => task'[t].aborted
      BY <3>1, AbortDispatchCuts
    <3> QED
      BY <3>2 DEF TaskInv, PlainTasksCut, NoTaskOutlivesSession, NoOrphanTask, Live
  <2>2. CASE ~OpAborts(d)
    <3>1. /\ UNCHANGED <<task, rpc, epoch>>
          /\ \A e \in Ops : op'[e] = "done" => op[e] = "done"
      BY <1>6, <2>2
      DEF DisconnectCalled, Disconnecting, OpMarksManual, OpTakesReader, OpJoinsReader, OpSends,
          OpCloses, readerVars
    <3> QED
      BY <1>0, <3>1
  <2> QED
    BY <2>1, <2>2
<1>7. CASE UNCHANGED vars
  BY <1>0, <1>7 DEF vars
<1> QED
  BY <1>1, <1>2, <1>3, <1>4, <1>5, <1>6, <1>7 DEF Next, ReaderStep

LEMMA TaskInvariant == Spec => []TaskInv
BY TypeInit, TypeStep, FenceInit, FenceStep, TaskInit, TaskInvStep, PTL DEF Spec

(* When disconnect() has returned every dispatch task that is still around  *)
(* was aborted: none was spawned behind abort_dispatch(true).               *)
THEOREM NoOrphanTaskHolds == Spec => []NoOrphanTask
<1>1. TaskInv => NoOrphanTask
  BY DEF TaskInv
<1> QED
  BY <1>1, TaskInvariant, PTL

(* No event or ack task of an earlier session is left running unaborted     *)
(* while a later session is open.                                           *)
THEOREM NoTaskOutlivesSessionHolds == Spec => []NoTaskOutlivesSession
<1>1. TaskInv => NoTaskOutlivesSession
  BY DEF TaskInv
<1> QED
  BY <1>1, TaskInvariant, PTL

-----------------------------------------------------------------------------
(* AsyncClient implements SessionLife.                                      *)

(* A session under reconnect was reported, by the reader or when the        *)
(* server's Disconnect was handled; an operation past its close has closed  *)
(* the transport for good.                                                  *)
ReportInv ==
  /\ rpc \in Reconnecting => epoch \in notified \/ ReconnectOnDisconnect
  /\ \A d \in Ops : op[d] \in {"abort", "done"} => transport = "closed"

(* Lemma: the reader reports the newest session, or opens the next one out  *)
(* of a reconnect, or leaves both counts alone.                             *)
LEMMA ReaderReports ==
  ASSUME ReaderStep
  PROVE  \/ UNCHANGED <<epoch, notified>>
         \/ epoch' = epoch /\ notified' = notified \cup {epoch}
         \/ epoch' = epoch + 1 /\ notified' = notified /\ rpc = "open" /\ rpc' = "clone"
<1>1. CASE ReaderStream
  BY <1>1
  DEF ReaderStream, ReaderClone, ReaderNext, ReaderNextErr, ReaderPanics, ReaderNextNone,
      ReaderGuardStop, ReaderDispatch, ReaderAwaitReason, HandleConnect, HandleDisconnect,
      NotifyClose, TakeItem, StreamEnds
<1>2. CASE ReaderReconnect
  BY <1>2
  DEF ReaderReconnect, DecideUnknown, DecideKnown, HookReturns, InnerCreate, InstallSocket,
      EngineConnect, EngineConnectFails, OpenSession, OpenSessionFails, BackoffEnds,
      NotifyClose, ReconnectStep
<1>3. CASE ReaderCancelled
  BY <1>3 DEF ReaderCancelled
<1> QED
  BY <1>1, <1>2, <1>3 DEF ReaderStep

(* Lemma: a reconnect begins with a reported session, or with the Server    *)
(* reason that reconnect_on_disconnect heeds.                               *)
LEMMA ReconnectReported ==
  ASSUME TypeOK, ReportInv, ReaderStep, rpc' \in Reconnecting
  PROVE  epoch' \in notified' \/ ReconnectOnDisconnect
<1>1. CASE ReaderStream \/ ReaderCancelled
  <2>1. rpc' \notin Reconnecting
    BY <1>1
    DEF ReaderStream, ReaderClone, ReaderNext, ReaderNextErr, ReaderPanics, ReaderNextNone,
        ReaderGuardStop, ReaderDispatch, ReaderAwaitReason, HandleConnect, HandleDisconnect,
        TakeItem, StreamEnds, BackToNext, ReaderCancelled, Reconnecting
  <2> QED
    BY <2>1
<1>2. CASE DecideUnknown
  BY <1>2 DEF DecideUnknown, NotifyClose
<1>3. CASE DecideKnown
  BY <1>3 DEF DecideKnown, AfterStream, Stop, Reconnecting
<1>4. CASE /\ rpc \in Reconnecting
           /\ \/ HookReturns \/ InnerCreate \/ InstallSocket \/ EngineConnect
              \/ EngineConnectFails \/ OpenSessionFails \/ BackoffEnds
  BY <1>4 DEF HookReturns, InnerCreate, InstallSocket, EngineConnect, EngineConnectFails,
              OpenSessionFails, BackoffEnds, ReconnectStep, ReportInv
<1>5. CASE OpenSession
  BY <1>5 DEF OpenSession, ReconnectStep, Reconnecting
<1> QED
  BY <1>1, <1>2, <1>3, <1>4, <1>5
  DEF ReaderStep, ReaderReconnect, HookReturns, InnerCreate, InstallSocket, EngineConnect,
      EngineConnectFails, OpenSessionFails, BackoffEnds, ReconnectStep, Reconnecting

LEMMA ReportInit == Init => ReportInv
BY DEF Init, ReportInv, Reconnecting

LEMMA ReportStep == TypeOK /\ FenceInv /\ ReportInv /\ [Next]_vars => ReportInv'
<1> SUFFICES ASSUME TypeOK, FenceInv, ReportInv, [Next]_vars PROVE ReportInv'
  OBVIOUS
<1>0. ASSUME UNCHANGED <<rpc, epoch, notified, op>>, transport = "closed" => transport' = "closed"
      PROVE  ReportInv'
  BY <1>0 DEF ReportInv
<1>1. CASE PollSpawn
  BY <1>1 DEF PollSpawn, ReportInv, opVars, netVars, Reconnecting
<1>2. CASE PollStore
  BY <1>0, <1>2 DEF PollStore, opVars, netVars, readerVars
<1>3. CASE Environment
  BY <1>0, <1>3, EnvironmentFrame
<1>4. CASE ReaderStep
  <2>1. transport # "closed" /\ op' = op
    BY <1>4, ReaderFrame DEF FenceInv, ClosedByOp, Fenced
  <2>2. \A d \in Ops : op'[d] \notin {"abort", "done"}
    BY <2>1 DEF ReportInv
  <2> QED
    BY <1>4, <2>2, ReconnectReported DEF ReportInv
<1>5. ASSUME NEW t \in Slots, Dispatcher(t) \/ UserReturns(t)
      PROVE  ReportInv'
  BY <1>0, <1>5, TaskFrame
<1>6. ASSUME NEW d \in Ops, DisconnectCalled(d) \/ Disconnecting(d)
      PROVE  ReportInv'
  <2>1. UNCHANGED <<rpc, epoch, notified>>
    BY <1>6
    DEF DisconnectCalled, Disconnecting, OpMarksManual, OpTakesReader, OpJoinsReader, OpSends,
        OpCloses, OpAborts, OpStep, readerVars
  <2>2. ASSUME NEW e \in Ops, op'[e] \in {"abort", "done"}
        PROVE  transport' = "closed"
    BY <1>6, <2>2
    DEF DisconnectCalled, Disconnecting, OpMarksManual, OpTakesReader, OpJoinsReader, OpSends,
        OpCloses, OpAborts, OpStep, netVars, ReportInv, TypeOK
  <2> QED
    BY <2>1, <2>2 DEF ReportInv
<1>7. CASE UNCHANGED vars
  BY <1>0, <1>7 DEF vars
<1> QED
  BY <1>1, <1>2, <1>3, <1>4, <1>5, <1>6, <1>7 DEF Next, ReaderStep

LEMMA LifeInit == Init => Life!Init
BY DEF Init, Life!Init, LifePhase, LifeCall

(* Lemma: every step of the client is a step of SessionLife or none.        *)
LEMMA LifeStep ==
  TypeOK /\ FenceInv /\ ReportInv /\ [Next]_vars => [Life!Next]_(Life!lifeVars)
<1> SUFFICES ASSUME TypeOK, FenceInv, ReportInv, [Next]_vars
             PROVE  [Life!Next]_(Life!lifeVars)
  OBVIOUS
<1>0. ASSUME UNCHANGED <<epoch, notified, op>>, transport' = "closed" <=> transport = "closed"
      PROVE  UNCHANGED Life!lifeVars
  BY <1>0 DEF Life!lifeVars, LifePhase, LifeCall
<1>1. CASE PollSpawn \/ PollStore
  BY <1>0, <1>1 DEF PollSpawn, PollStore, opVars, netVars
<1>2. CASE Environment
  BY <1>0, <1>2, EnvironmentFrame
<1>3. ASSUME NEW t \in Slots, Dispatcher(t) \/ UserReturns(t)
      PROVE  UNCHANGED Life!lifeVars
  BY <1>0, <1>3, TaskFrame
<1>4. CASE ReaderStep
  <2>1. transport # "closed" /\ transport' # "closed" /\ op' = op
    BY <1>4, ReaderFrame, ReaderClosesNothing DEF FenceInv, ClosedByOp, Fenced
  <2>2. \A d \in Ops : op[d] \notin {"send", "close"}
    BY <1>4, ReaderFrame DEF FenceInv, Fenced
  <2>3. LifePhase = "live" /\ LifePhase' = "live" /\ LifeCall' = LifeCall
    BY <2>1, <2>2 DEF LifePhase, LifeCall
  <2>4. CASE UNCHANGED <<epoch, notified>>
    BY <2>3, <2>4 DEF Life!lifeVars
  <2>5. CASE epoch' = epoch /\ notified' = notified \cup {epoch}
    BY <2>3, <2>5 DEF Life!Next, Life!Report
  <2>6. CASE epoch' = epoch + 1 /\ notified' = notified /\ rpc = "open"
    BY <2>3, <2>6 DEF Life!Next, Life!Open, ReportInv, Reconnecting
  <2> QED
    BY <1>4, <2>4, <2>5, <2>6, ReaderReports
<1>5. ASSUME NEW d \in Ops, DisconnectCalled(d) \/ Disconnecting(d)
      PROVE  [Life!Next]_(Life!lifeVars)
  <2>0. UNCHANGED <<epoch, notified>>
    BY <1>5
    DEF DisconnectCalled, Disconnecting, OpMarksManual, OpTakesReader, OpJoinsReader, OpSends,
        OpCloses, OpAborts, OpStep
  <2>1. CASE DisconnectCalled(d)
    <3>1. op[d] = "idle" /\ op' = [op EXCEPT ![d] = "queued"] /\ UNCHANGED transport
      BY <2>1 DEF DisconnectCalled, OpStep, netVars
    <3>2. LifeCall[d] = "idle" /\ LifeCall' = [LifeCall EXCEPT ![d] = "pending"]
      BY <3>1 DEF LifeCall, TypeOK
    <3>3. UNCHANGED LifePhase
      BY <3>1 DEF LifePhase, TypeOK
    <3> QED
      BY <2>0, <3>2, <3>3 DEF Life!Next, Life!Ask
  <2>2. CASE OpAborts(d)
    <3>1. op[d] = "abort" /\ op' = [op EXCEPT ![d] = "done"] /\ UNCHANGED transport
      BY <2>2 DEF OpAborts, OpStep, netVars
    <3>2. LifeCall[d] = "pending" /\ LifeCall' = [LifeCall EXCEPT ![d] = "done"]
      BY <3>1 DEF LifeCall, TypeOK
    <3>3. LifePhase = "retired" /\ UNCHANGED LifePhase
      BY <3>1 DEF LifePhase, ReportInv
    <3> QED
      BY <2>0, <3>2, <3>3 DEF Life!Next, Life!Return
  <2>3. CASE OpMarksManual(d) \/ OpTakesReader(d) \/ OpJoinsReader(d) \/ OpSends(d) \/ OpCloses(d)
    <3> DEFINE from == op[d]
               to == op'[d]
    <3>1. /\ op' = [op EXCEPT ![d] = to]
          /\ <<from, to>> \in {<<"queued", "take">>, <<"take", "join">>, <<"take", "send">>,
                               <<"join", "send">>, <<"send", "close">>, <<"close", "abort">>}
          /\ transport' = IF from = "close" THEN "closed" ELSE transport
      BY <2>3
      DEF OpMarksManual, OpTakesReader, OpJoinsReader, OpSends, OpCloses, OpStep, netVars, TypeOK
    <3>2. LifeCall' = LifeCall /\ LifeCall[d] = "pending"
      BY <3>1 DEF LifeCall, TypeOK
    <3>3. from # "queued" => \A e \in Ops : op[e] \in {"send", "close"} => e = d
      BY <3>1 DEF FenceInv, OperationExclusive, HoldsOperation
    <3>4. CASE transport = "closed"
      <4>1. UNCHANGED LifePhase
        BY <3>1, <3>4 DEF LifePhase
      <4> QED
        BY <2>0, <3>2, <4>1 DEF Life!lifeVars
    <3>5. CASE transport # "closed" /\ <<from, to>> \in {<<"queued", "take">>, <<"take", "join">>}
      <4>1. (\E e \in Ops : op'[e] \in {"send", "close"}) <=> \E e \in Ops : op[e] \in {"send", "close"}
        BY <3>1, <3>5 DEF TypeOK
      <4>2. UNCHANGED LifePhase
        BY <3>1, <3>5, <4>1 DEF LifePhase
      <4> QED
        BY <2>0, <3>2, <4>2 DEF Life!lifeVars
    <3>6. CASE transport # "closed" /\ to = "send"
      <4>1. LifePhase = "live"
        BY <3>1, <3>3, <3>6 DEF LifePhase
      <4>2. LifePhase' = "fenced"
        BY <3>1, <3>6 DEF LifePhase
      <4> QED
        BY <2>0, <3>2, <4>1, <4>2 DEF Life!Next, Life!Fence
    <3>7. CASE transport # "closed" /\ to = "close"
      <4>1. LifePhase = "fenced" /\ LifePhase' = "fenced"
        BY <3>1, <3>7 DEF LifePhase
      <4> QED
        BY <2>0, <3>2, <4>1 DEF Life!lifeVars
    <3>8. CASE transport # "closed" /\ to = "abort"
      <4>1. LifePhase = "fenced" /\ LifePhase' = "retired"
        BY <3>1, <3>8 DEF LifePhase
      <4> QED
        BY <2>0, <3>2, <4>1 DEF Life!Next, Life!Retire
    <3> QED
      BY <3>1, <3>4, <3>5, <3>6, <3>7, <3>8
  <2> QED
    BY <1>5, <2>1, <2>2, <2>3 DEF Disconnecting
<1>6. CASE UNCHANGED vars
  BY <1>0, <1>6 DEF vars
<1> QED
  BY <1>1, <1>2, <1>3, <1>4, <1>5, <1>6 DEF Next, ReaderStep

(* The client implements SessionLife: sessions are opened one after the     *)
(* other and reported before they are replaced, and the first disconnect()  *)
(* that fences the reader ends that for good, for every call that waits.    *)
THEOREM ImplementsLifeHolds == Spec => ImplementsLife
<1>1. Spec => [](TypeOK /\ FenceInv /\ ReportInv)
  BY TypeInit, TypeStep, FenceInit, FenceStep, ReportInit, ReportStep, PTL DEF Spec
<1> QED
  BY <1>1, LifeInit, LifeStep, PTL DEF Spec, ImplementsLife, Life!Spec

-----------------------------------------------------------------------------
(* The notifications: which tasks are cut, and what a Close reports.        *)

(* Lemma: what a step of the reader does to the dispatch list. A task keeps *)
(* kind and epoch, and its abort flag when it is terminal; a new task is    *)
(* for the session of now, and a Close is spawned by its two reports alone. *)
LEMMA ReaderTasks ==
  ASSUME TypeOK, ReaderStep, NEW t \in Slots, task'[t] # Idle
  PROVE  \/ /\ task[t] # Idle
            /\ task'[t].kind = task[t].kind /\ task'[t].epoch = task[t].epoch
            /\ task[t].kind \in TerminalKinds => task'[t].aborted = task[t].aborted
         \/ /\ task[t] = Idle
            /\ task'[t].epoch = epoch /\ ~task'[t].aborted /\ task'[t].kind # "CloseSession"
            /\ task'[t].kind = "Close" => HandleDisconnect \/ DecideUnknown
<1> DEFINE Kept(tasks) ==
      /\ task[t] # Idle
      /\ tasks[t].kind = task[t].kind /\ tasks[t].epoch = task[t].epoch
      /\ task[t].kind \in TerminalKinds => tasks[t].aborted = task[t].aborted
<1> DEFINE New(kind) ==
      /\ task[t] = Idle
      /\ task'[t].epoch = epoch /\ ~task'[t].aborted /\ task'[t].kind = kind
<1>1. ASSUME AbortDispatch(task, FALSE)[t] # Idle PROVE Kept(AbortDispatch(task, FALSE))
  <2>1. /\ task[t] # Idle
        /\ AbortDispatch(task, FALSE)[t].kind = task[t].kind
        /\ AbortDispatch(task, FALSE)[t].epoch = task[t].epoch
    BY <1>1, AbortDispatchCuts
  <2>2. ASSUME task[t].kind \in TerminalKinds
        PROVE  AbortDispatch(task, FALSE)[t] = task[t]
    BY <2>2 DEF AbortDispatch
  <2> QED
    BY <2>1, <2>2
<1>2. AbortDispatch(task, FALSE)[t] = Idle => task[t] = Idle
  <2>1. CASE task[t] # Idle
    <3>1. task[t] \in Task
      BY <2>1 DEF TypeOK
    <3>2. [task[t] EXCEPT !.aborted = TRUE] # Idle
      <4>1. [task[t] EXCEPT !.aborted = TRUE].kind = task[t].kind
        BY <3>1 DEF Task
      <4>2. task[t].kind # "Idle" /\ Idle.kind = "Idle"
        BY <3>1 DEF Task, TaskKinds, Idle
      <4> QED
        BY <4>1, <4>2
    <3> QED
      BY <2>1, <3>2 DEF AbortDispatch
  <2> QED
    BY <2>1
<1>3. ASSUME NEW tasks \in [Slots -> Task \cup {Idle}], NEW kind \in TaskKinds,
             SpawnDispatch(tasks, kind),
             tasks[t] # Idle => Kept(tasks), tasks[t] = Idle => task[t] = Idle
      PROVE  Kept(task') \/ New(kind)
  <2>1. PICK u \in Slots :
          /\ tasks[u] = Idle
          /\ task' = [tasks EXCEPT ![u] =
                        [kind |-> kind, epoch |-> epoch, st |-> "spawned", aborted |-> FALSE]]
    BY <1>3 DEF SpawnDispatch
  <2>2. CASE u = t
    <3>1. task'[t] = [kind |-> kind, epoch |-> epoch, st |-> "spawned", aborted |-> FALSE]
      BY <2>1, <2>2
    <3> QED
      BY <1>3, <2>1, <2>2, <3>1
  <2>3. CASE u # t
    <3>1. task'[t] = tasks[t]
      BY <2>1, <2>3
    <3> QED
      BY <1>3, <3>1
  <2> QED
    BY <2>2, <2>3
<1>4. /\ task \in [Slots -> Task \cup {Idle}]
      /\ AbortDispatch(task, FALSE) \in [Slots -> Task \cup {Idle}]
  BY AbortDispatchType DEF TypeOK
<1>5. task' = task => Kept(task')
  OBVIOUS
<1>6. task' = AbortDispatch(task, FALSE) => Kept(task')
  BY <1>1
<1> HIDE DEF Kept
<1>7. CASE ReaderStream
  <2>1. CASE ReaderClone \/ ReaderNext \/ ReaderNextErr \/ ReaderAwaitReason
    BY <1>5, <2>1 DEF ReaderClone, ReaderNext, ReaderNextErr, ReaderAwaitReason, TakeItem, Kept
  <2>2. CASE ReaderPanics \/ ReaderNextNone \/ ReaderGuardStop
    BY <1>6, <2>2 DEF ReaderPanics, ReaderNextNone, ReaderGuardStop, StreamEnds, Kept
  <2>3. CASE ReaderDispatch
    <3>1. \/ task' = task
          \/ \E kind \in {"StreamError", "Event", "ConnectError"} : SpawnDispatch(task, kind)
      BY <2>3 DEF ReaderDispatch
    <3> QED
      BY <1>3, <1>4, <1>5, <3>1 DEF TaskKinds, Kept
  <2>4. CASE HandleConnect
    BY <1>3, <1>4, <1>5, <2>4 DEF HandleConnect, TaskKinds, Kept
  <2>5. CASE HandleDisconnect
    BY <1>1, <1>2, <1>3, <1>4, <2>5 DEF HandleDisconnect, NotifyClose, TaskKinds, Kept
  <2> QED
    BY <1>7, <2>1, <2>2, <2>3, <2>4, <2>5 DEF ReaderStream
<1>8. CASE ReaderReconnect
  <2>1. CASE DecideUnknown
    BY <1>3, <1>4, <1>5, <2>1 DEF DecideUnknown, NotifyClose, TaskKinds, Kept
  <2>2. CASE ~DecideUnknown
    <3>1. task' = task
      BY <1>8, <2>2
      DEF ReaderReconnect, DecideKnown, HookReturns, InnerCreate, InstallSocket,
          EngineConnect, EngineConnectFails, OpenSession, OpenSessionFails, BackoffEnds,
          ReconnectStep
    <3> QED
      BY <1>5, <3>1 DEF Kept
  <2> QED
    BY <2>1, <2>2
<1>9. CASE ReaderCancelled
  BY <1>5, <1>6, <1>9 DEF ReaderCancelled, Kept
<1> QED
  BY <1>7, <1>8, <1>9 DEF ReaderStep

(* Lemma: what a disconnect operation leaves of a dispatch task, and that a *)
(* completed operation stays so.                                            *)
LEMMA OpTasks ==
  ASSUME TypeOK, NEW d \in Ops, DisconnectCalled(d) \/ Disconnecting(d)
  PROVE  /\ UNCHANGED <<rpc, hand, epoch, notified>>
         /\ \A e \in Ops : op[e] = "done" => op'[e] = "done"
         /\ task' = task \/ (task' = AbortDispatch(task, TRUE) /\ op'[d] = "done")
BY DEF DisconnectCalled, Disconnecting, OpMarksManual, OpTakesReader, OpJoinsReader, OpSends,
       OpCloses, OpAborts, OpStep, readerVars, TypeOK

LEMMA SparedInit == Init => TerminalTasksSpared
BY DEF Init, TerminalTasksSpared, Live

LEMMA SparedStep == TypeOK /\ TerminalTasksSpared /\ [Next]_vars => TerminalTasksSpared'
<1> SUFFICES ASSUME TypeOK, TerminalTasksSpared, [Next]_vars,
                    NEW t \in Slots, task'[t] # Idle,
                    task'[t].kind \in TerminalKinds, task'[t].aborted
             PROVE  \E d \in Ops : op'[d] = "done"
  BY DEF TerminalTasksSpared, Live
<1>0. ASSUME op' = op, task[t] # Idle, task[t].kind \in TerminalKinds, task[t].aborted
      PROVE  \E d \in Ops : op'[d] = "done"
  BY <1>0 DEF TerminalTasksSpared, Live
<1>1. CASE PollSpawn \/ PollStore \/ Environment \/ UNCHANGED vars
  <2>1. UNCHANGED <<task, op>>
    BY <1>1, EnvironmentFrame DEF PollSpawn, PollStore, opVars, vars
  <2> QED
    BY <1>0, <2>1
<1>2. CASE ReaderStep
  <2>1. /\ task[t] # Idle /\ task'[t].kind = task[t].kind
        /\ task[t].kind \in TerminalKinds => task'[t].aborted = task[t].aborted
    BY <1>2, ReaderTasks
  <2> QED
    BY <1>0, <1>2, <2>1, ReaderFrame
<1>3. ASSUME NEW u \in Slots, Dispatcher(u) \/ UserReturns(u)
      PROVE  \E d \in Ops : op'[d] = "done"
  BY <1>0, <1>3, TaskFrame, TaskStepKeeps
<1>4. ASSUME NEW d \in Ops, DisconnectCalled(d) \/ Disconnecting(d)
      PROVE  \E e \in Ops : op'[e] = "done"
  BY <1>4, OpTasks DEF TerminalTasksSpared, Live
<1> QED
  BY <1>1, <1>2, <1>3, <1>4 DEF Next, ReaderStep

(* Nothing but a completed disconnect() cuts a Connect, Error or Close      *)
(* notification: neither the end of a stream nor a reconnect does           *)
(* (abort_dispatch spares terminal tasks).                                  *)
THEOREM TerminalTasksSparedHolds == Spec => []TerminalTasksSpared
BY TypeInit, TypeStep, SparedInit, SparedStep, PTL DEF Spec

(* Packets in the inbox: x does not occur, or only as the last one.         *)
Absent(x, q) == \A i \in 1 .. Len(q) : q[i] # x
OnlyLast(x, q) == \A i \in 1 .. Len(q) : q[i] = x => i = Len(q)

(* Lemma: packets are appended behind a queue without x.                    *)
LEMMA ConcatLast ==
  ASSUME NEW S, NEW p \in Seq(S), NEW q \in Seq(S), NEW x, Absent(x, p)
  PROVE  /\ Absent(x, q) => Absent(x, p \o q)
         /\ OnlyLast(x, q) => OnlyLast(x, p \o q)
<1>1. /\ Len(p) \in Nat /\ Len(q) \in Nat /\ Len(p \o q) = Len(p) + Len(q)
      /\ \A i \in 1 .. Len(p \o q) : (p \o q)[i] = IF i <= Len(p) THEN p[i] ELSE q[i - Len(p)]
  BY ConcatProperties, LenProperties
<1>2. ASSUME NEW i \in 1 .. Len(p \o q), (p \o q)[i] = x
      PROVE  i - Len(p) \in 1 .. Len(q) /\ q[i - Len(p)] = x
  BY <1>1, <1>2 DEF Absent
<1>3. ASSUME Absent(x, q) PROVE Absent(x, p \o q)
  BY <1>2, <1>3 DEF Absent
<1>4. ASSUME OnlyLast(x, q), NEW i \in 1 .. Len(p \o q), (p \o q)[i] = x
      PROVE  i = Len(p \o q)
  <2>1. i - Len(p) = Len(q)
    BY <1>2, <1>4 DEF OnlyLast
  <2> QED
    BY <1>1, <2>1
<1> QED
  BY <1>3, <1>4 DEF OnlyLast

(* Lemma: an x that is the last packet leaves nothing behind it.            *)
LEMMA TailLast ==
  ASSUME NEW S, NEW q \in Seq(S), q # << >>, NEW x
  PROVE  /\ Absent(x, q) => Head(q) # x /\ Absent(x, Tail(q))
         /\ OnlyLast(x, q) => OnlyLast(x, Tail(q)) /\ (Head(q) = x => Tail(q) = << >>)
<1> DEFINE rest == Tail(q)
<1>1. /\ rest \in Seq(S) /\ Len(q) \in Nat /\ Len(rest) = Len(q) - 1 /\ Head(q) = q[1]
      /\ \A i \in 1 .. Len(rest) : rest[i] = q[i + 1]
  BY HeadTailProperties
<1> HIDE DEF rest
<1>2. /\ Len(q) \in Nat \ {0} /\ 1 \in 1 .. Len(q)
      /\ \A i \in 1 .. Len(rest) : i + 1 \in 1 .. Len(q)
  BY <1>1, EmptySeq
<1>3. ASSUME Absent(x, q) PROVE Head(q) # x /\ Absent(x, rest)
  BY <1>1, <1>2, <1>3 DEF Absent
<1>4. ASSUME OnlyLast(x, q), NEW i \in 1 .. Len(rest), rest[i] = x
      PROVE  i = Len(rest)
  <2>1. i + 1 = Len(q)
    BY <1>1, <1>2, <1>4 DEF OnlyLast
  <2> QED
    BY <1>1, <2>1
<1>5. ASSUME OnlyLast(x, q), Head(q) = x PROVE rest = << >>
  <2>1. Len(q) = 1
    BY <1>1, <1>2, <1>5 DEF OnlyLast
  <2>2. Len(rest) \notin Nat \ {0}
    BY <1>1, <2>1
  <2> QED
    BY <1>1, <2>2, EmptySeq, Zenon
<1> QED
  BY <1>3, <1>4, <1>5 DEF OnlyLast, rest

(* Lemma: what is left of a queue when its end was lost.                    *)
LEMMA PrefixLast ==
  ASSUME NEW S, NEW q \in Seq(S), NEW n \in 0 .. Len(q), NEW x
  PROVE  /\ Absent(x, q) => Absent(x, SubSeq(q, 1, n))
         /\ OnlyLast(x, q) => OnlyLast(x, SubSeq(q, 1, n))
         /\ q = << >> => SubSeq(q, 1, n) = << >>
<1>1. /\ SubSeq(q, 1, n) \in Seq(S) /\ Len(SubSeq(q, 1, n)) = n /\ Len(q) \in Nat /\ n \in Nat
      /\ \A i \in 1 .. n : SubSeq(q, 1, n)[i] = q[i] /\ i \in 1 .. Len(q)
  BY SubSeqProperties, LenProperties
<1>2. Absent(x, q) => Absent(x, SubSeq(q, 1, n))
  BY <1>1 DEF Absent
<1>3. ASSUME OnlyLast(x, q), NEW i \in 1 .. n, SubSeq(q, 1, n)[i] = x
      PROVE  i = n
  <2>1. i = Len(q)
    BY <1>1, <1>3 DEF OnlyLast
  <2> QED
    BY <1>1, <2>1
<1>4. ASSUME q = << >> PROVE SubSeq(q, 1, n) = << >>
  BY <1>1, <1>4, EmptySeq
<1> QED
  BY <1>1, <1>2, <1>3, <1>4 DEF OnlyLast

(* Lemma: the sequences of packets that are delivered at once.              *)
LEMMA OneOrTwo ==
  ASSUME NEW S, NEW a \in S, NEW b \in S, NEW x
  PROVE  /\ <<a>> \in Seq(S) /\ <<a, b>> \in Seq(S) /\ OnlyLast(x, <<a>>)
         /\ a # x => Absent(x, <<a>>)
         /\ a # x /\ b # x => Absent(x, <<a, b>>)
<1>1. /\ Len(<<a>>) = 1 /\ <<a>>[1] = a /\ 1 .. 1 = {1}
      /\ Len(<<a, b>>) = 2 /\ <<a, b>>[1] = a /\ <<a, b>>[2] = b /\ 1 .. 2 = {1, 2}
  OBVIOUS
<1>2. OnlyLast(x, <<a>>) /\ (a # x => Absent(x, <<a>>))
  BY <1>1 DEF OnlyLast, Absent
<1>3. a # x /\ b # x => Absent(x, <<a, b>>)
  BY <1>1 DEF Absent
<1> QED
  BY <1>2, <1>3

(* A Disconnect is the last packet of a session, and a socket that is being *)
(* connected has no session yet.                                            *)
LeaveInv ==
  /\ OnlyLast("Disconnect", inbox)
  /\ server # "idle" => Absent("Disconnect", inbox)
  /\ rpc \in {"guard", "write"} /\ hand = "Disconnect" => server = "idle" /\ inbox = << >>
  /\ rpc \in {"connect", "open"} => server = "idle" /\ inbox = << >>

(* Lemma: what the steps of the network do to the session of the socket.    *)
LEMMA EnvironmentSends ==
  ASSUME TypeOK, Environment
  PROVE  /\ UNCHANGED <<rpc, hand>>
         /\ server = "idle" => server' = "idle"
         /\ \/ server # "idle" /\ server' # "idle"
               /\ \E q \in {<<"Connect">>, <<"Event">>, <<"Foreign">>, <<"Header", "Attachment">>} :
                    /\ inbox' = inbox \o q
                    /\ q = <<"Header", "Attachment">> => BinaryEvents
            \/ server # "idle" /\ server' = "idle"
               /\ \E q \in {<<"ConnectError">>, <<"Disconnect">>} : inbox' = inbox \o q
            \/ server' = "idle" /\ \E n \in 0 .. Len(inbox) : inbox' = SubSeq(inbox, 1, n)
<1>1. CASE ServerAccept
  BY <1>1 DEF ServerAccept, Deliver, readerVars
<1>2. CASE ServerRefuse
  BY <1>2 DEF ServerRefuse, Deliver, readerVars
<1>3. CASE ServerSend
  <2>1. PICK q \in {<<"Event">>, <<"Foreign">>, <<"Header", "Attachment">>} :
          Deliver(q) /\ (q = <<"Header", "Attachment">> => BinaryEvents)
    BY <1>3 DEF ServerSend
  <2>2. server = "open" /\ server' = "open"
    BY <1>3 DEF ServerSend
  <2> QED
    BY <2>1, <2>2 DEF Deliver, readerVars
<1>4. CASE ServerLeave
  BY <1>4 DEF ServerLeave, Deliver, readerVars
<1>5. CASE LoseTransport
  BY <1>5 DEF LoseTransport, readerVars
<1> QED
  BY <1>1, <1>2, <1>3, <1>4, <1>5 DEF Environment

LEMMA LeaveInit == Init => LeaveInv
BY DEF Init, LeaveInv, Absent, OnlyLast

LEMMA LeaveStep == TypeOK /\ LeaveInv /\ [Next]_vars => LeaveInv'
<1> SUFFICES ASSUME TypeOK, LeaveInv, [Next]_vars PROVE LeaveInv'
  OBVIOUS
<1>a. /\ inbox \in Seq(PacketKinds) /\ OnlyLast("Disconnect", inbox)
      /\ server # "idle" => Absent("Disconnect", inbox)
      /\ rpc \in {"guard", "write"} /\ hand = "Disconnect" => server = "idle" /\ inbox = << >>
      /\ rpc \in {"connect", "open"} => server = "idle" /\ inbox = << >>
  BY DEF TypeOK, LeaveInv
<1>b. OnlyLast("Disconnect", << >>) /\ Absent("Disconnect", << >>)
  BY DEF OnlyLast, Absent
<1>0. ASSUME UNCHANGED <<inbox, server, hand>>,
             rpc' \in {"guard", "write", "connect", "open"} => rpc' = rpc
      PROVE  LeaveInv'
  BY <1>0 DEF LeaveInv
<1>1. CASE PollSpawn \/ PollStore \/ UNCHANGED vars
  BY <1>0, <1>1 DEF PollSpawn, PollStore, readerVars, netVars, vars
<1>2. CASE Environment
  <2>0. UNCHANGED <<rpc, hand>> /\ (server = "idle" => server' = "idle")
    BY <1>2, EnvironmentSends
  <2>1. ASSUME server # "idle", server' # "idle",
               NEW q \in {<<"Connect">>, <<"Event">>, <<"Foreign">>, <<"Header", "Attachment">>},
               inbox' = inbox \o q
        PROVE  LeaveInv'
    <3>1. q \in Seq(PacketKinds) /\ Absent("Disconnect", q)
      <4>1. "Header" \in PacketKinds /\ "Attachment" \in PacketKinds
        BY DEF PacketKinds
      <4>2. /\ <<"Header", "Attachment">> \in Seq(PacketKinds)
            /\ Absent("Disconnect", <<"Header", "Attachment">>)
        BY <4>1, OneOrTwo
      <4>3. ASSUME NEW a \in PacketKinds, a # "Disconnect"
            PROVE  <<a>> \in Seq(PacketKinds) /\ Absent("Disconnect", <<a>>)
        BY <4>3, OneOrTwo
      <4>4. \E a \in PacketKinds : a # "Disconnect" /\ q \in {<<a>>, <<"Header", "Attachment">>}
        BY DEF PacketKinds
      <4> QED
        BY <4>2, <4>3, <4>4
    <3>2. OnlyLast("Disconnect", q)
      BY <3>1 DEF Absent, OnlyLast
    <3>3. Absent("Disconnect", inbox \o q) /\ OnlyLast("Disconnect", inbox \o q)
      BY <1>a, <2>1, <3>1, <3>2, ConcatLast, Zenon
    <3> QED
      BY <1>a, <2>0, <2>1, <3>3 DEF LeaveInv
  <2>2. ASSUME server # "idle", server' = "idle",
               NEW q \in {<<"ConnectError">>, <<"Disconnect">>}, inbox' = inbox \o q
        PROVE  LeaveInv'
    <3>1. q \in Seq(PacketKinds) /\ OnlyLast("Disconnect", q)
      <4>1. ASSUME NEW a \in PacketKinds
            PROVE  <<a>> \in Seq(PacketKinds) /\ OnlyLast("Disconnect", <<a>>)
        BY <4>1, OneOrTwo
      <4>2. \E a \in PacketKinds : q = <<a>>
        BY DEF PacketKinds
      <4> QED
        BY <4>1, <4>2
    <3>2. OnlyLast("Disconnect", inbox \o q)
      BY <1>a, <2>2, <3>1, ConcatLast, Zenon
    <3> QED
      BY <1>a, <2>0, <2>2, <3>2 DEF LeaveInv
  <2>3. ASSUME server' = "idle", NEW n \in 0 .. Len(inbox), inbox' = SubSeq(inbox, 1, n)
        PROVE  LeaveInv'
    <3>1. OnlyLast("Disconnect", inbox') /\ (inbox = << >> => inbox' = << >>)
      BY <1>a, <2>3, PrefixLast
    <3> QED
      BY <1>a, <2>0, <2>3, <3>1 DEF LeaveInv
  <2> QED
    BY <1>2, <2>1, <2>2, <2>3, EnvironmentSends
<1>3. CASE ReaderStream
  <2>1. CASE ReaderNext
    <3>1. CASE /\ inbox # << >> /\ inbox' = Tail(inbox) /\ hand' = Head(inbox)
               /\ rpc' = "guard" /\ server' = server
      <4>1. /\ OnlyLast("Disconnect", inbox')
            /\ Absent("Disconnect", inbox) => hand' # "Disconnect" /\ Absent("Disconnect", inbox')
            /\ hand' = "Disconnect" => inbox' = << >>
        BY <1>a, <3>1, TailLast
      <4> QED
        BY <1>a, <3>1, <4>1 DEF LeaveInv
    <3>2. CASE /\ inbox # << >> /\ Len(inbox) > 1 /\ inbox' = Tail(Tail(inbox))
               /\ hand' = "Event" /\ rpc' = "guard" /\ server' = server
      <4>1. /\ Tail(inbox) \in Seq(PacketKinds) /\ Tail(inbox) # << >>
            /\ OnlyLast("Disconnect", Tail(inbox))
            /\ Absent("Disconnect", inbox) => Absent("Disconnect", Tail(inbox))
        <5>1. Tail(inbox) \in Seq(PacketKinds) /\ Tail(inbox) # << >>
          BY <1>a, <3>2, InboxTails, Zenon
        <5> QED
          BY <1>a, <3>2, <5>1, TailLast, Zenon
      <4>2. /\ OnlyLast("Disconnect", inbox')
            /\ Absent("Disconnect", inbox) => Absent("Disconnect", inbox')
        BY <3>2, <4>1, TailLast, Zenon
      <4> QED
        BY <1>a, <3>2, <4>2 DEF LeaveInv
    <3> QED
      BY <2>1, <3>1, <3>2 DEF ReaderNext, TakeItem
  <2>2. CASE ReaderNextErr
    BY <1>b, <2>2 DEF ReaderNextErr, TakeItem, LeaveInv
  <2>3. CASE ReaderAwaitReason
    BY <2>3 DEF ReaderAwaitReason, netVars, LeaveInv
  <2>4. CASE \/ ReaderClone \/ ReaderPanics \/ ReaderNextNone \/ ReaderGuardStop
             \/ ReaderDispatch \/ HandleConnect \/ HandleDisconnect
    <3>1. UNCHANGED <<inbox, server>> /\ rpc' \notin {"guard", "write", "connect", "open"}
      BY <2>4
      DEF ReaderClone, ReaderPanics, ReaderNextNone, ReaderGuardStop, ReaderDispatch,
          HandleConnect, HandleDisconnect, StreamEnds, BackToNext, netVars
    <3> QED
      BY <3>1 DEF LeaveInv
  <2> QED
    BY <1>3, <2>1, <2>2, <2>3, <2>4 DEF ReaderStream
<1>4. CASE ReaderReconnect
  <2>1. CASE InstallSocket
    BY <1>b, <2>1 DEF InstallSocket, ReconnectStep, LeaveInv
  <2>2. CASE EngineConnect
    BY <2>2 DEF EngineConnect, ReconnectStep, LeaveInv
  <2>3. CASE \/ DecideUnknown \/ DecideKnown \/ HookReturns \/ InnerCreate
             \/ EngineConnectFails \/ BackoffEnds
    <3>1. UNCHANGED <<inbox, server>> /\ rpc' \notin {"guard", "write", "connect", "open"}
      BY <2>3
      DEF DecideUnknown, DecideKnown, HookReturns, InnerCreate, EngineConnectFails,
          BackoffEnds, ReconnectStep, AfterStream, Stop, BeginAttempt, netVars
    <3> QED
      BY <3>1 DEF LeaveInv
  <2>4. CASE OpenSession \/ OpenSessionFails
    <3>1. inbox' = << >> /\ rpc' \in {"clone", "backoff"}
      BY <2>4 DEF OpenSession, OpenSessionFails, ReconnectStep, LeaveInv
    <3> QED
      BY <1>b, <3>1 DEF LeaveInv
  <2> QED
    BY <1>4, <2>1, <2>2, <2>3, <2>4 DEF ReaderReconnect
<1>5. CASE ReaderCancelled
  BY <1>5 DEF ReaderCancelled, netVars, LeaveInv
<1>6. ASSUME NEW t \in Slots, Dispatcher(t) \/ UserReturns(t)
      PROVE  LeaveInv'
  BY <1>0, <1>6
  DEF Dispatcher, TaskPolled, TaskCallsUser, TaskFindsNone, TaskCancelled, UserReturns,
      TaskStep, readerVars, netVars
<1>7. ASSUME NEW d \in Ops, DisconnectCalled(d) \/ Disconnecting(d)
      PROVE  LeaveInv'
  <2>1. CASE OpCloses(d)
    BY <1>b, <2>1 DEF OpCloses, LeaveInv
  <2>2. CASE ~OpCloses(d)
    BY <1>0, <1>7, <2>2
    DEF DisconnectCalled, Disconnecting, OpMarksManual, OpTakesReader, OpJoinsReader, OpSends,
        OpAborts, OpStep, readerVars, netVars
  <2> QED
    BY <2>1, <2>2
<1> QED
  BY <1>1, <1>2, <1>3, <1>4, <1>5, <1>6, <1>7 DEF Next

(* What the report of a session leaves behind: a session that is streamed   *)
(* for the first time was not reported, and after the Disconnect that       *)
(* reported it the stream has nothing left that could report it again. The  *)
(* attempt limit is the exception: past it the installed socket is streamed *)
(* again under the number of the session that was reported.                 *)
ReportedInv ==
  /\ notified \subseteq 1 .. epoch
  /\ rpc \in {"none", "clone"} => epoch \notin notified
  /\ rpc \in Streaming \cup {"ended"} /\ epoch \in notified =>
       /\ reason # "Unknown" /\ server = "idle" /\ inbox = << >>
       /\ rpc \in {"guard", "write"} => hand \notin {"Connect", "Disconnect"}

LEMMA ReportedInit == Init => ReportedInv
BY DEF Init, ReportedInv, Streaming

LEMMA ReportedStep ==
  ASSUME ~Limited
  PROVE  TypeOK /\ FenceInv /\ LeaveInv /\ ReportedInv /\ [Next]_vars => ReportedInv'
<1> SUFFICES ASSUME TypeOK, FenceInv, LeaveInv, ReportedInv, [Next]_vars PROVE ReportedInv'
  OBVIOUS
<1>a. epoch \in Nat \ {0} /\ notified \subseteq 1 .. epoch
  BY ConstantsAssumption DEF TypeOK, ReportedInv
<1>0. ASSUME UNCHANGED <<rpc, hand, epoch, notified>>,
             reason # "Unknown" => reason' # "Unknown",
             server = "idle" => server' = "idle", inbox = << >> => inbox' = << >>
      PROVE  ReportedInv'
  BY <1>0 DEF ReportedInv
<1>1. CASE PollSpawn
  BY <1>1 DEF PollSpawn, FenceInv, Unstarted, ReportedInv, Streaming
<1>2. CASE PollStore \/ UNCHANGED vars
  BY <1>0, <1>2 DEF PollStore, readerVars, netVars, vars
<1>3. CASE Environment
  <2>1. UNCHANGED <<rpc, hand, epoch, notified, reason>> /\ (server = "idle" => server' = "idle")
    BY <1>3, EnvironmentFrame, EnvironmentSends
    DEF Environment, ServerAccept, ServerRefuse, ServerSend, ServerLeave, LoseTransport, Deliver
  <2>2. CASE server = "idle" /\ inbox = << >>
    <3>1. \E n \in 0 .. Len(inbox) : inbox' = SubSeq(inbox, 1, n)
      BY <1>3, <2>2, EnvironmentSends
    <3>2. inbox' = << >>
      BY <2>2, <3>1, PrefixLast DEF TypeOK
    <3> QED
      BY <1>0, <2>1, <3>2
  <2>3. CASE ~(server = "idle" /\ inbox = << >>)
    BY <2>1, <2>3 DEF ReportedInv
  <2> QED
    BY <2>2, <2>3
<1>4. CASE ReaderStream
  <2> USE DEF Streaming
  <2>1. CASE ReaderClone
    BY <2>1 DEF ReaderClone, ReportedInv
  <2>2. CASE ReaderNext
    BY <2>2 DEF ReaderNext, TakeItem, ReportedInv
  <2>3. CASE ReaderNextErr
    BY <2>3 DEF ReaderNextErr, TakeItem, ReportedInv
  <2>4. CASE ReaderPanics
    BY <2>4 DEF ReaderPanics, ReportedInv
  <2>5. CASE ReaderNextNone \/ ReaderGuardStop
    BY <2>5 DEF ReaderNextNone, ReaderGuardStop, StreamEnds, netVars, ReportedInv
  <2>6. CASE ReaderDispatch
    BY <2>6 DEF ReaderDispatch, BackToNext, netVars, ReportedInv
  <2>7. CASE ReaderAwaitReason
    BY <2>7 DEF ReaderAwaitReason, netVars, ReportedInv
  <2>8. CASE HandleConnect
    BY <2>8 DEF HandleConnect, BackToNext, netVars, ReportedInv
  <2>9. CASE HandleDisconnect
    <3>1. server = "idle" /\ inbox = << >>
      BY <2>9 DEF HandleDisconnect, LeaveInv
    <3>2. /\ rpc' = "next" /\ reason' = "Server" /\ UNCHANGED <<server, inbox, epoch>>
          /\ notified' = notified \cup {epoch}
      BY <2>9 DEF HandleDisconnect, NotifyClose, BackToNext, netVars
    <3>3. notified' \subseteq 1 .. epoch'
      BY <1>a, <3>2
    <3> QED
      BY <3>1, <3>2, <3>3 DEF ReportedInv
  <2> QED
    BY <1>4, <2>1, <2>2, <2>3, <2>4, <2>5, <2>6, <2>7, <2>8, <2>9 DEF ReaderStream
<1>5. CASE ReaderReconnect
  <2>1. CASE DecideUnknown
    <3>1. /\ rpc' \in {"callback", "stopped"} /\ epoch' = epoch
          /\ notified' = notified \cup {epoch}
      BY <2>1 DEF DecideUnknown, NotifyClose, AfterStream, Stop, BeginAttempt
    <3>2. notified' \subseteq 1 .. epoch'
      BY <1>a, <3>1
    <3> QED
      BY <3>1, <3>2 DEF ReportedInv, Streaming
  <2>2. CASE \/ DecideKnown \/ HookReturns \/ InnerCreate \/ InstallSocket \/ EngineConnect
             \/ EngineConnectFails \/ OpenSessionFails \/ BackoffEnds
    <3>1. UNCHANGED <<epoch, notified>> /\ rpc' \in Reconnecting \cup {"stopped"}
      BY <2>2
      DEF DecideKnown, HookReturns, InnerCreate, InstallSocket, EngineConnect,
          EngineConnectFails, OpenSessionFails, BackoffEnds, ReconnectStep, AfterStream, Stop,
          BeginAttempt, Reconnecting
    <3> QED
      BY <3>1 DEF ReportedInv, Streaming, Reconnecting
  <2>3. CASE OpenSession
    <3>1. epoch' = epoch + 1 /\ notified' = notified /\ rpc' = "clone"
      BY <2>3 DEF OpenSession, ReconnectStep
    <3>2. epoch' \notin notified' /\ notified' \subseteq 1 .. epoch'
      BY <1>a, <3>1
    <3> QED
      BY <3>1, <3>2 DEF ReportedInv, Streaming
  <2> QED
    BY <1>5, <2>1, <2>2, <2>3 DEF ReaderReconnect
<1>6. CASE ReaderCancelled
  BY <1>6 DEF ReaderCancelled, ReportedInv, Streaming
<1>7. ASSUME NEW t \in Slots, Dispatcher(t) \/ UserReturns(t)
      PROVE  ReportedInv'
  BY <1>0, <1>7
  DEF Dispatcher, TaskPolled, TaskCallsUser, TaskFindsNone, TaskCancelled, UserReturns,
      TaskStep, readerVars, netVars
<1>8. ASSUME NEW d \in Ops, DisconnectCalled(d) \/ Disconnecting(d)
      PROVE  ReportedInv'
  <2>1. UNCHANGED <<rpc, hand, epoch, notified>>
    BY <1>8, OpTasks
  <2>2. CASE OpMarksManual(d)
    BY <1>0, <2>1, <2>2 DEF OpMarksManual, netVars
  <2>3. CASE OpCloses(d)
    BY <1>0, <2>1, <2>3 DEF OpCloses
  <2>4. CASE ~OpMarksManual(d) /\ ~OpCloses(d)
    BY <1>0, <1>8, <2>1, <2>4
    DEF DisconnectCalled, Disconnecting, OpTakesReader, OpJoinsReader, OpSends, OpAborts, netVars
  <2> QED
    BY <2>2, <2>3, <2>4
<1> QED
  BY <1>1, <1>2, <1>3, <1>4, <1>5, <1>6, <1>7, <1>8 DEF Next

(* A Close is the report of a session, and unless the session was replaced  *)
(* nothing of it is left to be streamed.                                    *)
CloseInv ==
  \A t \in Live :
    /\ task[t].epoch <= epoch
    /\ task[t].kind \in {"Close", "CloseSession"} =>
         task[t].epoch < epoch \/ rpc \notin Streaming \cup {"clone"} \/ server = "idle"

LEMMA CloseInit == Init => CloseInv
BY DEF Init, CloseInv, Live

LEMMA CloseStep ==
  ASSUME ~Limited
  PROVE  TypeOK /\ FenceInv /\ LeaveInv /\ CloseInv /\ [Next]_vars => CloseInv'
<1> SUFFICES ASSUME TypeOK, FenceInv, LeaveInv, CloseInv, [Next]_vars,
                    NEW t \in Slots, task'[t] # Idle
             PROVE  /\ task'[t].epoch <= epoch'
                    /\ task'[t].kind \in {"Close", "CloseSession"} =>
                         \/ task'[t].epoch < epoch' \/ rpc' \notin Streaming \cup {"clone"}
                         \/ server' = "idle"
  BY DEF CloseInv, Live
<1> DEFINE Closes(tasks) == tasks[t].kind \in {"Close", "CloseSession"}
           Past(tasks, e, pc, s) ==
             tasks[t].epoch < e \/ pc \notin Streaming \cup {"clone"} \/ s = "idle"
           Goal == task'[t].epoch <= epoch' /\ (Closes(task') => Past(task', epoch', rpc', server'))
<1>a. task[t] # Idle =>
        /\ task[t].epoch <= epoch /\ task[t].epoch \in Nat
        /\ Closes(task) => Past(task, epoch, rpc, server)
  BY DEF CloseInv, Live, TypeOK, Task
<1>b. epoch \in Nat
  BY ConstantsAssumption DEF TypeOK
<1>0. ASSUME task[t] # Idle, task'[t].epoch = task[t].epoch, Closes(task') => Closes(task),
             epoch' = epoch, server = "idle" => server' = "idle",
             rpc' \in Streaming \cup {"clone"} => rpc \in Streaming \cup {"clone"}
      PROVE  Goal
  BY <1>a, <1>0
<1>1. CASE PollSpawn
  BY <1>1 DEF PollSpawn, FenceInv, Unstarted
<1>2. CASE PollStore \/ UNCHANGED vars
  BY <1>0, <1>2 DEF PollStore, readerVars, netVars, vars
<1>3. CASE Environment
  BY <1>0, <1>3, EnvironmentFrame, EnvironmentSends
<1>4. CASE HandleDisconnect
  <2>1. server' = "idle" /\ epoch' = epoch
    BY <1>4 DEF HandleDisconnect, LeaveInv, netVars
  <2>2. task'[t].epoch = epoch \/ (task[t] # Idle /\ task'[t].epoch = task[t].epoch)
    BY <1>4, ReaderTasks DEF ReaderStep, ReaderStream
  <2> QED
    BY <1>a, <1>b, <2>1, <2>2
<1>5. CASE ReaderStep /\ ~HandleDisconnect
  <2>1. CASE OpenSession
    <3>1. task' = task /\ epoch' = epoch + 1
      BY <2>1 DEF OpenSession, ReconnectStep
    <3> QED
      BY <1>a, <1>b, <3>1
  <2>2. CASE DecideUnknown
    <3>1. rpc' \in {"callback", "stopped"} /\ epoch' = epoch
      BY <2>2 DEF DecideUnknown, AfterStream, Stop, BeginAttempt
    <3>2. task'[t].epoch = epoch \/ (task[t] # Idle /\ task'[t].epoch = task[t].epoch)
      BY <2>2, ReaderTasks DEF ReaderStep, ReaderReconnect
    <3> QED
      BY <1>a, <1>b, <3>1, <3>2 DEF Streaming
  <2>3. CASE ReaderReconnect /\ ~OpenSession /\ ~DecideUnknown
    <3>1. task' = task /\ epoch' = epoch /\ rpc' \notin Streaming \cup {"clone"}
      BY <2>3
      DEF ReaderReconnect, DecideKnown, HookReturns, InnerCreate, InstallSocket, EngineConnect,
          EngineConnectFails, OpenSessionFails, BackoffEnds, ReconnectStep, AfterStream, Stop,
          BeginAttempt, Streaming
    <3> QED
      BY <1>a, <3>1
  <2>4. CASE ReaderStream
    <3>1. /\ rpc \in Streaming \cup {"clone"} \/ rpc' \notin Streaming \cup {"clone"}
          /\ server' = server /\ epoch' = epoch
      BY <1>5, <2>4
      DEF ReaderStream, ReaderClone, ReaderNext, ReaderNextErr, ReaderPanics, ReaderNextNone,
          ReaderGuardStop, ReaderDispatch, ReaderAwaitReason, HandleConnect, TakeItem,
          StreamEnds, BackToNext, netVars, Streaming
    <3>2. \/ /\ task[t] # Idle
             /\ task'[t].kind = task[t].kind /\ task'[t].epoch = task[t].epoch
          \/ task'[t].epoch = epoch /\ ~Closes(task')
      <4>1. ~DecideUnknown
        BY <1>5, <2>4
        DEF DecideUnknown, ReaderStream, ReaderClone, ReaderNext, ReaderNextErr, ReaderPanics,
            ReaderNextNone, ReaderGuardStop, ReaderDispatch, ReaderAwaitReason, HandleConnect,
            TakeItem, StreamEnds, BackToNext
      <4> QED
        BY <1>5, <2>4, <4>1, ReaderTasks
    <3> QED
      BY <1>a, <1>b, <3>1, <3>2
  <2>5. CASE ReaderCancelled
    <3>1. rpc' \notin Streaming \cup {"clone"} /\ epoch' = epoch
      BY <2>5 DEF ReaderCancelled, Streaming
    <3>2. task'[t].epoch = epoch \/ (task[t] # Idle /\ task'[t].epoch = task[t].epoch)
      BY <1>5, ReaderTasks
    <3> QED
      BY <1>a, <1>b, <3>1, <3>2
  <2> QED
    BY <1>5, <2>1, <2>2, <2>3, <2>4, <2>5 DEF ReaderStep
<1>6. ASSUME NEW u \in Slots, Dispatcher(u) \/ UserReturns(u)
      PROVE  Goal
  <2>1. UNCHANGED <<epoch, rpc, server>>
    BY <1>6, TaskFrame
    DEF Dispatcher, TaskPolled, TaskCallsUser, TaskFindsNone, TaskCancelled, UserReturns,
        TaskStep, netVars
  <2>2. task[t] # Idle /\ task'[t].epoch = task[t].epoch /\ (Closes(task') => Closes(task))
    BY <1>6, TaskStepKeeps
  <2> QED
    BY <1>0, <2>1, <2>2
<1>7. ASSUME NEW d \in Ops, DisconnectCalled(d) \/ Disconnecting(d)
      PROVE  Goal
  <2>1. UNCHANGED <<epoch, rpc>> /\ (server = "idle" => server' = "idle")
    BY <1>7, OpTasks
    DEF DisconnectCalled, Disconnecting, OpMarksManual, OpTakesReader, OpJoinsReader, OpSends,
        OpCloses, OpAborts, netVars
  <2>2. task[t] # Idle /\ task'[t].epoch = task[t].epoch /\ (Closes(task') => Closes(task))
    BY <1>7, OpTasks, AbortDispatchCuts
  <2> QED
    BY <1>0, <2>1, <2>2
<1> QED
  BY <1>1, <1>2, <1>3, <1>4, <1>5, <1>6, <1>7 DEF Next, ReaderStep

LEMMA CloseInvariant ==
  ASSUME ~Limited
  PROVE  Spec => [](TypeOK /\ FenceInv /\ LeaveInv /\ ReportedInv /\ CloseInv)
<1>1. TypeOK /\ FenceInv /\ LeaveInv /\ ReportedInv /\ [Next]_vars => ReportedInv'
  BY ReportedStep
<1>2. TypeOK /\ FenceInv /\ LeaveInv /\ CloseInv /\ [Next]_vars => CloseInv'
  BY CloseStep
<1> QED
  BY <1>1, <1>2, TypeInit, TypeStep, FenceInit, FenceStep, LeaveInit, LeaveStep,
     ReportedInit, CloseInit, PTL DEF Spec

(* Without a limit on the attempts (the default of ClientBuilder) a Close   *)
(* callback, however late it runs, reports the epoch of a session that is   *)
(* over.                                                                    *)
THEOREM CloseNamesDeadSessionHolds ==
  ASSUME ~Limited
  PROVE  Spec => []CloseNamesDeadSession
<1>1. TypeOK /\ CloseInv => CloseNamesDeadSession
  BY DEF CloseInv, CloseNamesDeadSession, Dead, Live
<1> QED
  BY <1>1, CloseInvariant, PTL

(* And one Close reports a session, whether the server's Disconnect packet  *)
(* or the end of the stream comes first.                                    *)
THEOREM OneClosePerSessionHolds ==
  ASSUME ~Limited
  PROVE  Spec => OneClosePerSession
<1> DEFINE Step == \A t \in Slots : Dispatched(t, {"Close"}) => epoch \notin notified
<1>1. ASSUME TypeOK, FenceInv, ReportedInv, [Next]_vars,
             NEW t \in Slots, Dispatched(t, {"Close"})
      PROVE  epoch \notin notified
  <2>1. task[t] = Idle /\ task'[t] # Idle /\ task'[t].kind = "Close"
    BY <1>1 DEF Dispatched
  <2>2. task' # task
    BY <2>1
  <2>3. ReaderStep
    <3>1. ~PollSpawn /\ ~PollStore /\ ~Environment /\ ~UNCHANGED vars
      BY <2>2, EnvironmentFrame DEF PollSpawn, PollStore, vars
    <3>2. ASSUME NEW u \in Slots, Dispatcher(u) \/ UserReturns(u) PROVE FALSE
      BY <1>1, <2>1, <3>2, TaskStepKeeps
    <3>3. ASSUME NEW d \in Ops, DisconnectCalled(d) \/ Disconnecting(d) PROVE FALSE
      BY <1>1, <2>1, <3>3, OpTasks, AbortDispatchCuts
    <3> QED
      BY <1>1, <3>1, <3>2, <3>3 DEF Next, ReaderStep
  <2>4. HandleDisconnect \/ DecideUnknown
    BY <1>1, <2>1, <2>3, ReaderTasks
  <2> QED
    BY <1>1, <2>4 DEF HandleDisconnect, DecideUnknown, ReportedInv, Streaming
<1>2. TypeOK /\ FenceInv /\ ReportedInv /\ [Next]_vars => [Step]_vars
  BY <1>1
<1> HIDE DEF Step
<1>3. Spec => [][Step]_vars
  BY <1>2, CloseInvariant, PTL DEF Spec
<1> QED
  BY <1>3 DEF Step, OneClosePerSession

(* Why a session does not end unreported when the client does not reconnect *)
(* after a server's Disconnect: the Server reason never reaches a reconnect *)
(* and is set together with the report.                                     *)
EndInv ==
  /\ Absent("Header", inbox)
  /\ reason = "Server" => epoch \in notified
  /\ rpc \in Reconnecting => reason # "Server" /\ epoch \in notified
  /\ SessionEndNotified

LEMMA EndInit == Init => EndInv
BY DEF Init, EndInv, Absent, Reconnecting, SessionEndNotified

LEMMA EndStep ==
  ASSUME ~ReconnectOnDisconnect, ~BinaryEvents
  PROVE  TypeOK /\ FenceInv /\ EndInv /\ [Next]_vars => EndInv'
<1> SUFFICES ASSUME TypeOK, FenceInv, EndInv, [Next]_vars PROVE EndInv'
  OBVIOUS
<1>a. inbox \in Seq(PacketKinds) /\ Absent("Header", inbox) /\ epoch \in Nat \ {0}
  BY ConstantsAssumption DEF TypeOK, EndInv
<1>b. Absent("Header", << >>)
  BY DEF Absent
<1>c. /\ 1 .. epoch - 1 \subseteq notified
      /\ rpc = "stopped" /\ ~aborting /\ reason # "Manual" => epoch \in notified
      /\ reason = "Server" => epoch \in notified
      /\ rpc \in Reconnecting => reason # "Server" /\ epoch \in notified
  BY DEF EndInv, SessionEndNotified
<1>0. ASSUME UNCHANGED <<epoch, notified>>, Absent("Header", inbox'),
             reason' \in {reason, "Manual"}, aborting => aborting',
             rpc' \in {rpc, "none", "clone", "next", "guard", "write", "ended"}
      PROVE  EndInv'
  BY <1>c, <1>0 DEF EndInv, SessionEndNotified, Reconnecting
<1>1. CASE PollSpawn \/ PollStore \/ UNCHANGED vars
  BY <1>a, <1>0, <1>1 DEF PollSpawn, PollStore, readerVars, netVars, vars
<1>2. CASE Environment
  <2>1. UNCHANGED <<rpc, epoch, notified, aborting, reason>>
    BY <1>2
    DEF Environment, ServerAccept, ServerRefuse, ServerSend, ServerLeave, LoseTransport, Deliver,
        readerVars
  <2>2. ASSUME NEW a \in PacketKinds, a # "Header", inbox' = inbox \o <<a>>
        PROVE  Absent("Header", inbox')
    <3>1. <<a>> \in Seq(PacketKinds) /\ Absent("Header", <<a>>)
      BY <2>2, OneOrTwo
    <3> QED
      BY <1>a, <2>2, <3>1, ConcatLast, Zenon
  <2>3. ASSUME NEW n \in 0 .. Len(inbox), inbox' = SubSeq(inbox, 1, n)
        PROVE  Absent("Header", inbox')
    BY <1>a, <2>3, PrefixLast, Zenon
  <2>4. \/ \E a \in PacketKinds : a # "Header" /\ inbox' = inbox \o <<a>>
        \/ \E n \in 0 .. Len(inbox) : inbox' = SubSeq(inbox, 1, n)
    BY <1>2, EnvironmentSends DEF PacketKinds
  <2> QED
    BY <1>0, <2>1, <2>2, <2>3, <2>4
<1>3. CASE ReaderStream
  <2>1. CASE ReaderNext
    <3>1. inbox # << >> /\ Head(inbox) # "Header" /\ Absent("Header", Tail(inbox))
      BY <1>a, <2>1, TailLast DEF ReaderNext
    <3>2. /\ UNCHANGED <<epoch, notified, aborting, reason>> /\ rpc' = "guard"
          /\ inbox' = Tail(inbox)
      BY <2>1, <3>1 DEF ReaderNext, TakeItem
    <3> QED
      BY <1>0, <3>1, <3>2
  <2>2. CASE ReaderNextErr
    BY <1>b, <1>0, <2>2 DEF ReaderNextErr, TakeItem
  <2>3. CASE ReaderPanics
    <3>1. inbox = <<"Header">>
      BY <2>3 DEF ReaderPanics
    <3>2. Len(inbox) = 1 /\ inbox[1] = "Header"
      BY <3>1
    <3> QED
      BY <1>a, <3>2 DEF Absent
  <2>4. CASE \/ ReaderClone \/ ReaderNextNone \/ ReaderGuardStop \/ ReaderDispatch
             \/ ReaderAwaitReason
    BY <1>a, <1>0, <2>4
    DEF ReaderClone, ReaderNextNone, ReaderGuardStop, ReaderDispatch, ReaderAwaitReason,
        StreamEnds, BackToNext, netVars
  <2>5. CASE HandleConnect
    BY <1>a, <1>c, <2>5
    DEF HandleConnect, BackToNext, netVars, EndInv, SessionEndNotified, Reconnecting
  <2>6. CASE HandleDisconnect
    BY <1>a, <1>c, <2>6
    DEF HandleDisconnect, NotifyClose, BackToNext, netVars, EndInv, SessionEndNotified,
        Reconnecting
  <2> QED
    BY <1>3, <2>1, <2>2, <2>3, <2>4, <2>5, <2>6 DEF ReaderStream
<1>4. CASE ReaderReconnect
  <2>1. CASE DecideUnknown
    BY <1>a, <1>c, <2>1
    DEF DecideUnknown, NotifyClose, AfterStream, Stop, BeginAttempt, netVars, EndInv,
        SessionEndNotified, Reconnecting
  <2>2. CASE DecideKnown
    <3>1. rpc' = "stopped" /\ UNCHANGED <<inbox, epoch, notified, aborting, reason>>
      BY <2>2 DEF DecideKnown, AfterStream, Stop, netVars
    <3>2. reason # "Unknown"
      BY <2>2 DEF DecideKnown
    <3> QED
      BY <1>a, <1>c, <3>1, <3>2 DEF EndInv, SessionEndNotified, Reconnecting, TypeOK
  <2>3. CASE OpenSession
    <3>1. /\ rpc = "open" /\ rpc' = "clone" /\ epoch' = epoch + 1
          /\ UNCHANGED <<inbox, notified, aborting, reason>>
      BY <2>3 DEF OpenSession, ReconnectStep
    <3>2. 1 .. epoch' - 1 \subseteq notified' /\ reason' # "Server"
      BY <1>a, <1>c, <3>1 DEF Reconnecting
    <3> QED
      BY <1>a, <3>1, <3>2 DEF EndInv, SessionEndNotified, Reconnecting
  <2>4. CASE \/ HookReturns \/ InnerCreate \/ InstallSocket \/ EngineConnect
             \/ EngineConnectFails \/ OpenSessionFails \/ BackoffEnds
    <3>1. /\ rpc \in Reconnecting /\ rpc' \in Reconnecting \cup {"clone"}
          /\ UNCHANGED <<epoch, notified, aborting, reason>> /\ inbox' \in {inbox, << >>}
      BY <2>4
      DEF HookReturns, InnerCreate, InstallSocket, EngineConnect, EngineConnectFails,
          OpenSessionFails, BackoffEnds, ReconnectStep, BeginAttempt, netVars, Reconnecting
    <3>2. Absent("Header", inbox')
      BY <1>a, <1>b, <3>1
    <3> QED
      BY <1>c, <3>1, <3>2 DEF EndInv, SessionEndNotified, Reconnecting
  <2> QED
    BY <1>4, <2>1, <2>2, <2>3, <2>4 DEF ReaderReconnect
<1>5. CASE ReaderCancelled
  BY <1>a, <1>c, <1>5
  DEF ReaderCancelled, netVars, EndInv, SessionEndNotified, Reconnecting
<1>6. ASSUME NEW t \in Slots, Dispatcher(t) \/ UserReturns(t)
      PROVE  EndInv'
  BY <1>a, <1>0, <1>6
  DEF Dispatcher, TaskPolled, TaskCallsUser, TaskFindsNone, TaskCancelled, UserReturns,
      TaskStep, readerVars, netVars
<1>7. ASSUME NEW d \in Ops, DisconnectCalled(d) \/ Disconnecting(d)
      PROVE  EndInv'
  <2>1. UNCHANGED <<rpc, epoch, notified>>
    BY <1>7, OpTasks
  <2>2. CASE OpCloses(d)
    BY <1>b, <1>0, <2>1, <2>2 DEF OpCloses
  <2>3. CASE ~OpCloses(d)
    BY <1>a, <1>0, <1>7, <2>1, <2>3
    DEF DisconnectCalled, Disconnecting, OpMarksManual, OpTakesReader, OpJoinsReader, OpSends,
        OpAborts, netVars
  <2> QED
    BY <2>2, <2>3
<1> QED
  BY <1>1, <1>2, <1>3, <1>4, <1>5, <1>6, <1>7 DEF Next

(* Without reconnect_on_disconnect (the default of ClientBuilder), and from *)
(* servers that send no attachments, no session ends unreported: it was     *)
(* replaced after its Close, or the reader stopped after its Close, unless  *)
(* the application disconnected. The hypotheses exclude the two ways out: a *)
(* session opened under the Server reason that dies before its CONNECT is   *)
(* answered, and the reader that panics (run panic).                        *)
THEOREM SessionEndNotifiedHolds ==
  ASSUME ~ReconnectOnDisconnect, ~BinaryEvents
  PROVE  Spec => []SessionEndNotified
<1>1. TypeOK /\ FenceInv /\ EndInv /\ [Next]_vars => EndInv'
  BY EndStep
<1>2. EndInv => SessionEndNotified
  BY DEF EndInv
<1> QED
  BY <1>1, <1>2, TypeInit, TypeStep, FenceInit, FenceStep, EndInit, PTL DEF Spec
=============================================================================
