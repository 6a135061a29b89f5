------------------------- MODULE EngineSocketProofs -------------------------
(* Theorems about EngineSocket for any number of calls and any inbox bound. *)
EXTENDS EngineSocket, SequenceTheorems, TLAPS

(* The calls are told apart: what the definitions below read of a task.     *)
LEMMA Distinct ==
  /\ Reader \in Parties /\ None \notin Parties
  /\ Senders \subseteq Parties /\ Enders \subseteq Parties
  /\ Connects \subseteq Parties /\ Emits \subseteq Parties /\ Closers \subseteq Parties
  /\ Reader \notin Closers
PROOF BY EngineAssumption DEF Parties, Senders, Enders

(* TypeOK: every lock holder is writing, and every task is where its call   *)
(* can be (connect, emit, disconnect, as_stream).                           *)
THEOREM TypeCorrect == Spec => []TypeOK
<1>1. Init => TypeOK
  <2> SUFFICES ASSUME Init PROVE TypeOK
    OBVIOUS
  <2>1. pc \in [Parties -> {"idle"}] /\ inbox \in Seq(Packets)
    BY DEF Init
  <2>2. QED
    BY <2>1 DEF Init, TypeOK
<1>2. TypeOK /\ [Next]_vars => TypeOK'
  <2> SUFFICES ASSUME TypeOK, [Next]_vars PROVE TypeOK'
    OBVIOUS
  <2> USE Distinct DEF TypeOK, Emitting, Closing
  <2>1. CASE PeerSends
    BY <2>1 DEF PeerSends, Packets
  <2>2. CASE PeerFails \/ TimePasses
    BY <2>2 DEF PeerFails, TimePasses
  <2>3. ASSUME NEW c \in Connects, ConnectPublishes(c) \/ ConnectPings(c) PROVE TypeOK'
    BY <2>3 DEF ConnectPublishes, ConnectPings, Goto
  <2>4. ASSUME NEW e \in Emits, EmitCalled(e) PROVE TypeOK'
    BY <2>4 DEF EmitCalled, EmitStep, Goto
  <2>5. ASSUME NEW p \in Senders, Emission(p) \/ EmitCompletes(p) PROVE TypeOK'
    BY <2>5 DEF Emission, EmitChecks, EmitClones, EmitPolls, EmitLocks, EmitCancelled,
                EmitCompletes, EmitStep, Failed, Goto
  <2>6. ASSUME NEW d \in Closers, CloserCalled(d) PROVE TypeOK'
    BY <2>6 DEF CloserCalled, Goto
  <2>7. ASSUME NEW d \in Closers, CloserReplacesStream(d) PROVE TypeOK'
    <3>1. inbox' \in Seq(Packets)
      BY <2>7 DEF CloserReplacesStream
    <3>2. QED
      BY <2>7, <3>1 DEF CloserReplacesStream, Unlocked, MidPoll, InStream
  <2>8. ASSUME NEW p \in Enders, Ending(p) \/ EnderSends(p) PROVE TypeOK'
    <3>1. CASE EnderTakes(p)
      BY <3>1 DEF EnderTakes, Goto
    <3>2. CASE EnderLocks(p)
      BY <3>2 DEF EnderLocks, Goto
    <3>3. CASE EnderTimesOut(p) \/ EnderSends(p)
      BY <3>3 DEF EnderTimesOut, EnderSends, Goto, Unlocked
    <3>4. QED
      BY <2>8, <3>1, <3>2, <3>3 DEF Ending
  <2>9. CASE ReaderTakes
    <3>1. inbox' \in Seq(Packets)
      BY <2>9, HeadTailProperties DEF ReaderTakes
    <3>2. QED
      BY <2>9, <3>1 DEF ReaderTakes, ReaderStep, Goto
  <2>10. CASE Reading /\ ~ReaderTakes
    BY <2>10 DEF Reading, ReaderPolls, ReaderLosesTransport, ReaderTimesOut, ReaderYields,
                 ReaderStep, Goto
  <2>11. CASE UNCHANGED vars
    BY <2>11 DEF vars
  <2>12. QED
    BY <2>1, <2>2, <2>3, <2>4, <2>5, <2>6, <2>7, <2>8, <2>9, <2>10, <2>11 DEF Next
<1>3. QED
  BY <1>1, <1>2, PTL DEF Spec

-----------------------------------------------------------------------------
(* Retired: connect() publishes under the transport's lock, so no clone     *)
(* reopens a socket whose transport was taken.                              *)
THEOREM RetiredHolds == Spec => []Retired
<1>1. Init => Retired
  BY DEF Init, Retired
<1>2. TypeOK /\ Retired /\ [Next]_vars => Retired'
  <2> SUFFICES ASSUME TypeOK, Retired, [Next]_vars PROVE Retired'
    OBVIOUS
  <2> USE DEF Retired, TypeOK
  <2>1. CASE PeerSends \/ PeerFails \/ TimePasses
    BY <2>1 DEF PeerSends, PeerFails, TimePasses
  <2>2. ASSUME NEW c \in Connects, ConnectPublishes(c) \/ ConnectPings(c) PROVE Retired'
    BY <2>2 DEF ConnectPublishes, ConnectPings
  <2>3. ASSUME NEW p \in Parties, EmitCalled(p) \/ Emission(p) \/ EmitCompletes(p) PROVE Retired'
    BY <2>3 DEF EmitCalled, Emission, EmitChecks, EmitClones, EmitPolls, EmitLocks,
                EmitCancelled, EmitCompletes, EmitStep
  <2>4. ASSUME NEW d \in Closers, CloserCalled(d) \/ CloserReplacesStream(d) PROVE Retired'
    BY <2>4 DEF CloserCalled, CloserReplacesStream
  <2>5. ASSUME NEW p \in Enders, Ending(p) \/ EnderSends(p) PROVE Retired'
    BY <2>5 DEF Ending, EnderTakes, EnderLocks, EnderTimesOut, EnderSends
  <2>6. CASE Reading
    BY <2>6 DEF Reading, ReaderPolls, ReaderTakes, ReaderLosesTransport, ReaderTimesOut,
                ReaderYields, ReaderStep
  <2>7. CASE UNCHANGED vars
    BY <2>7 DEF vars
  <2>8. QED
    BY <2>1, <2>2, <2>3, <2>4, <2>5, <2>6, <2>7, Distinct DEF Next
<1>3. QED
  BY <1>1, <1>2, TypeCorrect, PTL DEF Spec

-----------------------------------------------------------------------------
(* FrameAtATime: whoever writes to the transport holds send_lock, though an *)
(* emit is cancelled and a stream dropped in the middle of a write.         *)
THEOREM FrameAtATimeHolds == Spec => []FrameAtATime
<1>1. Init => FrameAtATime
  BY DEF Init, FrameAtATime
<1>2. TypeOK /\ FrameAtATime /\ [Next]_vars => FrameAtATime'
  <2> SUFFICES ASSUME TypeOK, FrameAtATime, [Next]_vars PROVE FrameAtATime'
    OBVIOUS
  <2> USE Distinct DEF FrameAtATime, TypeOK
  <2>1. CASE PeerSends \/ PeerFails \/ TimePasses
    BY <2>1 DEF PeerSends, PeerFails, TimePasses
  <2>2. ASSUME NEW c \in Connects, ConnectPublishes(c) \/ ConnectPings(c) PROVE FrameAtATime'
    BY <2>2 DEF ConnectPublishes, ConnectPings, Goto
  <2>3. ASSUME NEW p \in Parties, EmitCalled(p) PROVE FrameAtATime'
    BY <2>3 DEF EmitCalled, EmitStep, Goto
  <2>4. ASSUME NEW p \in Senders, Emission(p) \/ EmitCompletes(p) PROVE FrameAtATime'
    BY <2>4 DEF Emission, EmitChecks, EmitClones, EmitPolls, EmitLocks, EmitCancelled,
                EmitCompletes, EmitStep, Failed, Goto
  <2>5. ASSUME NEW d \in Closers, CloserCalled(d) PROVE FrameAtATime'
    BY <2>5 DEF CloserCalled, Goto
  <2>6. ASSUME NEW d \in Closers, CloserReplacesStream(d) PROVE FrameAtATime'
    BY <2>6 DEF CloserReplacesStream, Unlocked, MidPoll, InStream
  <2>7. ASSUME NEW p \in Enders, Ending(p) \/ EnderSends(p) PROVE FrameAtATime'
    BY <2>7 DEF Ending, EnderTakes, EnderLocks, EnderTimesOut, EnderSends, Goto, Unlocked
  <2>8. CASE Reading
    BY <2>8 DEF Reading, ReaderPolls, ReaderTakes, ReaderLosesTransport, ReaderTimesOut,
                ReaderYields, ReaderStep, Goto
  <2>9. CASE UNCHANGED vars
    BY <2>9 DEF vars
  <2>10. QED
    BY <2>1, <2>2, <2>3, <2>4, <2>5, <2>6, <2>7, <2>8, <2>9 DEF Next
<1>3. QED
  BY <1>1, <1>2, TypeCorrect, PTL DEF Spec

-----------------------------------------------------------------------------
(* Who waits for send_lock to close, or writes the Close frame, took the    *)
(* transport; and nobody waits once the frame was begun.                    *)
CloseInv ==
  /\ closes = 0 \/ closes = 1
  /\ \A p \in Enders : pc[p] \in {"lock", "closing"} => ~present
  /\ closes = 1 => ~present /\ \A p \in Enders : pc[p] # "lock"
  /\ \A p, q \in Enders : pc[p] \in {"lock", "closing"} /\ pc[q] \in {"lock", "closing"} => p = q

LEMMA CloseInvariant == Spec => []CloseInv
<1>1. Init => CloseInv
  BY Distinct DEF Init, CloseInv
<1>2. TypeOK /\ CloseInv /\ [Next]_vars => CloseInv'
  <2> SUFFICES ASSUME TypeOK, CloseInv, [Next]_vars PROVE CloseInv'
    OBVIOUS
  <2> USE Distinct DEF CloseInv, TypeOK
  <2>1. CASE PeerSends \/ PeerFails \/ TimePasses
    BY <2>1 DEF PeerSends, PeerFails, TimePasses
  <2>2. ASSUME NEW c \in Connects, ConnectPublishes(c) \/ ConnectPings(c) PROVE CloseInv'
    BY <2>2 DEF ConnectPublishes, ConnectPings, Goto
  <2>3. ASSUME NEW p \in Parties, EmitCalled(p) PROVE CloseInv'
    BY <2>3 DEF EmitCalled, EmitStep, Goto
  <2>4. ASSUME NEW p \in Senders, Emission(p) \/ EmitCompletes(p) PROVE CloseInv'
    <3>1. /\ UNCHANGED <<present, closes>>
          /\ pc' = [pc EXCEPT ![p] = pc'[p]] /\ pc'[p] \notin {"lock", "closing"}
      BY <2>4 DEF Emission, EmitChecks, EmitClones, EmitPolls, EmitLocks, EmitCancelled,
                  EmitCompletes, EmitStep, Failed, Goto
    <3>2. QED
      BY <3>1
  <2>5. ASSUME NEW d \in Closers, CloserCalled(d) PROVE CloseInv'
    BY <2>5 DEF CloserCalled, Goto
  <2>6. ASSUME NEW d \in Closers, CloserReplacesStream(d) PROVE CloseInv'
    BY <2>6 DEF CloserReplacesStream, MidPoll, InStream
  <2>7. ASSUME NEW p \in Enders, EnderTakes(p) PROVE CloseInv'
    BY <2>7 DEF EnderTakes, Goto
  <2>8. ASSUME NEW p \in Enders, EnderLocks(p) PROVE CloseInv'
    BY <2>8 DEF EnderLocks, Goto
  <2>9. ASSUME NEW p \in Enders, EnderTimesOut(p) \/ EnderSends(p) PROVE CloseInv'
    BY <2>9 DEF EnderTimesOut, EnderSends, Goto
  <2>10. CASE Reading
    BY <2>10 DEF Reading, ReaderPolls, ReaderTakes, ReaderLosesTransport, ReaderTimesOut,
                 ReaderYields, ReaderStep, Goto
  <2>11. CASE UNCHANGED vars
    BY <2>11 DEF vars
  <2>12. QED
    BY <2>1, <2>2, <2>3, <2>4, <2>5, <2>6, <2>7, <2>8, <2>9, <2>10, <2>11 DEF Next, Ending
<1>3. QED
  BY <1>1, <1>2, TypeCorrect, PTL DEF Spec

(* OneCloseFrame: of all disconnect() calls and the heartbeat, one sends a  *)
(* Close frame, and only one.                                               *)
THEOREM OneCloseFrameHolds == Spec => []OneCloseFrame
<1>1. CloseInv => OneCloseFrame
  BY DEF CloseInv, OneCloseFrame
<1>2. QED
  BY <1>1, CloseInvariant, PTL

-----------------------------------------------------------------------------
(* A disconnect past the generator has replaced the stream, and nobody      *)
(* enters a stream that was replaced.                                       *)
ReleaseInv ==
  /\ \A d \in Closers : pc[d] \notin {"idle", "call"} => gen = "closed"
  /\ gen = "closed" => pc[Reader] \in {"idle", "parked", "over"}
  /\ pc[Reader] \notin {"ping", "call"}

(* StreamReleased: a disconnect that closes the socket left no task in the  *)
(* old stream (Client::disconnect, StreamGenerator::close).                 *)
THEOREM StreamReleasedHolds == Spec => []StreamReleased
<1>1. Init => ReleaseInv
  BY Distinct DEF Init, ReleaseInv
<1>2. TypeOK /\ ReleaseInv /\ [Next]_vars => ReleaseInv'
  <2> SUFFICES ASSUME TypeOK, ReleaseInv, [Next]_vars PROVE ReleaseInv'
    OBVIOUS
  <2> USE Distinct DEF ReleaseInv, TypeOK
  <2>1. CASE PeerSends \/ PeerFails \/ TimePasses
    BY <2>1 DEF PeerSends, PeerFails, TimePasses
  <2>2. ASSUME NEW c \in Connects, ConnectPublishes(c) \/ ConnectPings(c) PROVE ReleaseInv'
    BY <2>2, EngineAssumption DEF ConnectPublishes, ConnectPings, Goto
  <2>3. ASSUME NEW e \in Emits, EmitCalled(e) PROVE ReleaseInv'
    BY <2>3, EngineAssumption DEF EmitCalled, EmitStep, Goto
  <2>4. ASSUME NEW p \in Senders, Emission(p) \/ EmitCompletes(p) PROVE ReleaseInv'
    <3>1. /\ UNCHANGED gen /\ pc' = [pc EXCEPT ![p] = pc'[p]]
          /\ pc[p] \notin {"idle", "parked", "over"} /\ pc'[p] \notin {"ping", "call"}
      BY <2>4 DEF Emission, EmitChecks, EmitClones, EmitPolls, EmitLocks, EmitCancelled,
                  EmitCompletes, EmitStep, Failed, Goto
    <3>2. p \notin Closers
      BY EngineAssumption DEF Senders
    <3>3. QED
      BY <3>1, <3>2
  <2>5. ASSUME NEW d \in Closers, CloserCalled(d) PROVE ReleaseInv'
    BY <2>5 DEF CloserCalled, Goto
  <2>6. ASSUME NEW d \in Closers, CloserReplacesStream(d) PROVE ReleaseInv'
    <3>1. pc[Reader] \in {"idle", "parked", "over"} \cup InStream
      BY <2>6, EngineAssumption DEF CloserReplacesStream, MidPoll, InStream, Emitting, Closing
    <3>2. QED
      BY <2>6, <3>1 DEF CloserReplacesStream
  <2>7. ASSUME NEW p \in Enders, Ending(p) \/ EnderSends(p) PROVE ReleaseInv'
    <3>1. /\ UNCHANGED gen /\ pc' = [pc EXCEPT ![p] = pc'[p]]
          /\ pc[p] \notin {"idle", "call", "parked", "over"} /\ pc'[p] \notin {"ping", "call"}
      BY <2>7 DEF Ending, EnderTakes, EnderLocks, EnderTimesOut, EnderSends, Goto
    <3>2. QED
      BY <3>1 DEF Enders
  <2>8. CASE Reading
    BY <2>8 DEF Reading, ReaderPolls, ReaderTakes, ReaderLosesTransport, ReaderTimesOut,
                ReaderYields, ReaderStep, Goto
  <2>9. CASE UNCHANGED vars
    BY <2>9 DEF vars
  <2>10. QED
    BY <2>1, <2>2, <2>3, <2>4, <2>5, <2>6, <2>7, <2>8, <2>9 DEF Next
<1>3. ReleaseInv => StreamReleased
  BY Distinct DEF ReleaseInv, StreamReleased, Closing, InStream
<1>4. QED
  BY <1>1, <1>2, <1>3, TypeCorrect, PTL DEF Spec

-----------------------------------------------------------------------------
(* The refinement of Channel.                                               *)

(* Lemma: what a step of one task does to the channel's sets.               *)
LEMMA TaskMoves ==
  ASSUME TypeOK, NEW p \in Parties, NEW at, pc' = [pc EXCEPT ![p] = at]
  PROVE  /\ Polled' = IF at = "polled" THEN Polled \cup {p} ELSE Polled \ {p}
         /\ Writing' = IF at \in {"sending", "closing"} THEN Writing \cup {p} ELSE Writing \ {p}
         /\ at # "lock" => Waiting' = Waiting \ {p}
         /\ at = "lock" /\ p \in Enders => Waiting' = Waiting \cup {p}
<1>1. \A q \in Parties : pc'[q] = IF q = p THEN at ELSE pc[q]
  BY DEF TypeOK
<1>2. QED
  BY <1>1, Distinct DEF Polled, Writing, Waiting

(* Lemma: a frame is under way if and only if send_lock is held.            *)
LEMMA LockIsFrame ==
  ASSUME TypeOK, FrameAtATime
  PROVE  Writing = IF sendLock = None THEN {} ELSE {sendLock}
BY Distinct DEF TypeOK, FrameAtATime, Writing

(* Lemma: one who waits to close is alone, and nobody waits before the      *)
(* transport was taken.                                                     *)
LEMMA OneWaits ==
  ASSUME TypeOK, CloseInv
  PROVE  /\ present => Waiting = {}
         /\ \A p \in Waiting : Waiting = {p}
BY DEF CloseInv, Waiting

(* Lemma: who enters or leaves no place the channel knows of changes none   *)
(* of its sets.                                                             *)
Seen == {"polled", "sending", "closing", "lock"}

LEMMA TaskUnseen ==
  ASSUME TypeOK, NEW p \in Parties, NEW at, pc' = [pc EXCEPT ![p] = at],
         pc[p] \notin Seen, at \notin Seen
  PROVE  UNCHANGED <<Polled, Writing, Waiting>>
<1>1. p \notin Polled /\ p \notin Writing /\ p \notin Waiting
  BY DEF Polled, Writing, Waiting, Seen
<1>2. Polled' = Polled \ {p} /\ Writing' = Writing \ {p} /\ Waiting' = Waiting \ {p}
  BY TaskMoves DEF Seen
<1>3. QED
  BY <1>1, <1>2

(* Lemma: the steps of the peer, the clock, connect() and calls begun.      *)
LEMMA OutsideIsChannel ==
  ASSUME TypeOK, Retired,
         \/ PeerSends \/ PeerFails \/ TimePasses
         \/ \E c \in Connects : ConnectPublishes(c) \/ ConnectPings(c)
         \/ \E e \in Emits : EmitCalled(e)
         \/ \E d \in Closers : CloserCalled(d)
  PROVE  Clones!Turn \/ UNCHANGED Clones!channelVars
<1> USE Distinct DEF Clones!channelVars
<1>1. CASE PeerSends \/ PeerFails \/ TimePasses
  BY <1>1 DEF PeerSends, PeerFails, TimePasses, ChannelPhase, Polled, Writing, Waiting
<1>2. ASSUME NEW c \in Connects, ConnectPublishes(c)
      PROVE  Clones!Turn \/ UNCHANGED Clones!channelVars
  <2>1. UNCHANGED <<Polled, Writing, Waiting>>
    BY <1>2, TaskUnseen DEF ConnectPublishes, Goto, Seen
  <2>2. QED
    BY <1>2, <2>1 DEF ConnectPublishes, ChannelPhase, Clones!Turn
<1>3. ASSUME NEW c \in Parties, ConnectPings(c) \/ EmitCalled(c) \/ CloserCalled(c)
      PROVE  UNCHANGED Clones!channelVars
  <2>1. UNCHANGED <<Polled, Writing, Waiting>>
    BY <1>3, TaskUnseen DEF ConnectPings, EmitCalled, EmitStep, CloserCalled, Goto, Seen
  <2>2. QED
    BY <1>3, <2>1 DEF ConnectPings, EmitCalled, EmitStep, CloserCalled, ChannelPhase
<1>4. QED
  BY <1>1, <1>2, <1>3

(* Lemma: emit(), in the application's calls, in connect() and in a Pong.   *)
LEMMA EmitIsChannel ==
  ASSUME TypeOK, FrameAtATime, Retired, NEW p \in Senders, Emission(p) \/ EmitCompletes(p)
  PROVE  (\E u \in Parties : Clones!Look(u) \/ Clones!StepBack(u) \/ Clones!Begin(u) \/ Clones!End(u))
           \/ UNCHANGED Clones!channelVars
<1>1. /\ p \in Parties /\ UNCHANGED <<present, connected, closes>>
      /\ pc' = [pc EXCEPT ![p] = pc'[p]] /\ pc[p] # "lock" /\ pc'[p] # "lock"
      /\ p \notin Waiting
  BY Distinct DEF Emission, EmitChecks, EmitClones, EmitPolls, EmitLocks, EmitCancelled,
                  EmitCompletes, EmitStep, Failed, Goto, TypeOK, Waiting
<1>2. UNCHANGED <<ChannelPhase, Waiting, closes>>
  <2>1. Waiting' = Waiting \ {p}
    BY <1>1, TaskMoves
  <2>2. QED
    BY <1>1, <2>1 DEF ChannelPhase
<1>3. Writing = IF sendLock = None THEN {} ELSE {sendLock}
  BY LockIsFrame
<1>4. CASE EmitChecks(p) \/ EmitClones(p)
  <2>1. pc[p] \notin Seen /\ pc'[p] \notin Seen
    BY <1>1, <1>4 DEF EmitChecks, EmitClones, EmitStep, Failed, Goto, Seen, TypeOK
  <2>2. QED
    BY <1>1, <1>2, <2>1, TaskUnseen DEF Clones!channelVars
<1>5. CASE EmitPolls(p)
  <2>1. CASE present
    <3>1. sendLock = None /\ pc[p] = "select" /\ pc'[p] = "polled"
      BY <1>1, <1>5, <2>1 DEF EmitPolls, EmitStep, Goto, TypeOK
    <3>2. Polled' = Polled \cup {p} /\ Writing' = Writing \ {p}
      BY <1>1, <3>1, TaskMoves
    <3>3. Clones!Look(p)
      BY <1>2, <1>3, <2>1, <3>1, <3>2 DEF Clones!Look, ChannelPhase
    <3>4. QED
      BY <1>1, <3>3
  <2>2. CASE ~present
    <3>1. pc[p] \notin Seen /\ pc'[p] \notin Seen
      BY <1>1, <1>5, <2>2 DEF EmitPolls, EmitStep, Failed, Goto, Seen, TypeOK
    <3>2. QED
      BY <1>1, <1>2, <3>1, TaskUnseen DEF Clones!channelVars
  <2>3. QED
    BY <2>1, <2>2
<1>6. CASE EmitLocks(p)
  <2>1. pc[p] = "polled" /\ p \in Polled
    BY <1>1, <1>6 DEF EmitLocks, EmitStep, Goto, Polled
  <2>2. CASE sendLock = None
    <3>1. pc'[p] = "sending"
      BY <1>1, <1>6, <2>2 DEF EmitLocks, EmitStep, Goto, TypeOK
    <3>2. Polled' = Polled \ {p} /\ Writing' = Writing \cup {p}
      BY <1>1, <3>1, TaskMoves
    <3>3. Clones!Begin(p)
      BY <1>2, <1>3, <2>1, <2>2, <3>2 DEF Clones!Begin
    <3>4. QED
      BY <1>1, <3>3
  <2>3. CASE sendLock # None
    <3>1. pc'[p] = "select" /\ p \notin Writing
      BY <1>1, <1>6, <2>1, <2>3 DEF EmitLocks, EmitStep, Goto, TypeOK, Writing
    <3>2. Polled' = Polled \ {p} /\ Writing' = Writing \ {p}
      BY <1>1, <3>1, TaskMoves
    <3>3. Clones!StepBack(p)
      BY <1>2, <1>3, <2>3, <3>1, <3>2 DEF Clones!StepBack
    <3>4. QED
      BY <1>1, <3>3
  <2>4. QED
    BY <2>2, <2>3
<1>7. CASE EmitCancelled(p) \/ EmitCompletes(p)
  <2>1. pc[p] = "sending" /\ pc'[p] \notin Seen
    BY <1>1, <1>7 DEF EmitCancelled, EmitCompletes, EmitStep, Failed, Goto, Seen, TypeOK
  <2>2. p \notin Polled
    BY <2>1 DEF Polled
  <2>3. Polled' = Polled \ {p} /\ Writing' = Writing \ {p}
    BY <1>1, <2>1, TaskMoves DEF Seen
  <2>4. Clones!End(p)
    BY <1>2, <2>2, <2>3 DEF Clones!End
  <2>5. QED
    BY <1>1, <2>4
<1>8. QED
  BY <1>4, <1>5, <1>6, <1>7 DEF Emission

(* Lemma: generator.close() gives up the frame, or the wait for one, of the *)
(* reader whose stream it drops.                                            *)
LEMMA ReplacingIsChannel ==
  ASSUME TypeOK, NEW d \in Closers, CloserReplacesStream(d)
  PROVE  Clones!End(Reader) \/ Clones!Leave(Reader)
<1>1. UNCHANGED <<ChannelPhase, closes>>
  BY DEF CloserReplacesStream, ChannelPhase
<1>2. \A q \in Parties : pc'[q] = IF q = d THEN "take"
                                 ELSE IF q = Reader /\ pc[q] \in InStream THEN "parked" ELSE pc[q]
  BY Distinct DEF CloserReplacesStream, TypeOK
<1>3. d \in Parties /\ d # Reader /\ pc[d] = "call" /\ pc[Reader] # "polled"
  BY Distinct DEF CloserReplacesStream, MidPoll
<1>4. /\ Polled' = Polled
      /\ Writing' = Writing \ {Reader}
      /\ Waiting' = Waiting \ {Reader}
  BY <1>2, <1>3, Distinct DEF Polled, Writing, Waiting, InStream
<1>5. Reader \notin Writing \/ Reader \notin Waiting
  BY DEF Writing, Waiting
<1>6. CASE Reader \notin Waiting
  BY <1>1, <1>4, <1>6 DEF Clones!End
<1>7. CASE Reader \notin Writing
  BY <1>1, <1>4, <1>7 DEF Clones!Leave
<1>8. QED
  BY <1>5, <1>6, <1>7

(* Lemma: Socket::disconnect(), by a caller or by the reader.               *)
LEMMA EndingIsChannel ==
  ASSUME TypeOK, FrameAtATime, CloseInv, NEW p \in Enders, Ending(p) \/ EnderSends(p)
  PROVE  Clones!Retire(p) \/ Clones!Close(p) \/ Clones!End(p) \/ Clones!Leave(p)
           \/ UNCHANGED Clones!channelVars
<1>1. p \in Parties /\ pc' = [pc EXCEPT ![p] = pc'[p]]
  BY Distinct DEF Ending, EnderTakes, EnderLocks, EnderTimesOut, EnderSends, Goto, TypeOK
<1>2. CASE EnderTakes(p)
  <2>1. pc[p] = "take" /\ p \notin Polled /\ p \notin Writing /\ p \notin Waiting
    BY <1>2 DEF EnderTakes, Goto, Polled, Writing, Waiting
  <2>2. CASE present
    <3>1. pc'[p] = "lock" /\ UNCHANGED closes /\ ChannelPhase # "retired" /\ ChannelPhase' = "retired"
      BY <1>1, <1>2, <2>2 DEF EnderTakes, Goto, TypeOK, ChannelPhase
    <3>2. Polled' = Polled /\ Writing' = Writing /\ Waiting' = Waiting \cup {p}
      BY <1>1, <2>1, <3>1, TaskMoves
    <3>3. QED
      BY <2>2, <3>1, <3>2, OneWaits DEF Clones!Retire
  <2>3. CASE ~present
    <3>1. pc'[p] = "done" /\ UNCHANGED closes /\ ChannelPhase' = ChannelPhase
      BY <1>1, <1>2, <2>3 DEF EnderTakes, Goto, TypeOK, ChannelPhase
    <3>2. UNCHANGED <<Polled, Writing, Waiting>>
      BY <1>1, <2>1, <3>1, TaskUnseen DEF Seen
    <3>3. QED
      BY <3>1, <3>2 DEF Clones!channelVars
  <2>4. QED
    BY <2>2, <2>3
<1>3. CASE EnderLocks(p)
  <2>1. /\ pc[p] = "lock" /\ pc'[p] = "closing" /\ sendLock = None /\ closes' = closes + 1
        /\ ChannelPhase' = ChannelPhase
    BY <1>1, <1>3 DEF EnderLocks, Goto, TypeOK, ChannelPhase
  <2>2. p \notin Polled /\ p \in Waiting /\ Writing = {}
    BY <2>1, LockIsFrame DEF Polled, Waiting
  <2>3. Polled' = Polled \ {p} /\ Writing' = Writing \cup {p} /\ Waiting' = Waiting \ {p}
    BY <1>1, <2>1, TaskMoves
  <2>4. Waiting = {p}
    BY <2>2, OneWaits
  <2>5. QED
    BY <2>1, <2>2, <2>3, <2>4 DEF Clones!Close
<1>4. CASE EnderTimesOut(p) \/ EnderSends(p)
  <2>1. /\ pc[p] \in {"lock", "closing"} /\ pc'[p] = "done"
        /\ UNCHANGED <<closes, ChannelPhase>>
    BY <1>1, <1>4 DEF EnderTimesOut, EnderSends, Goto, TypeOK, ChannelPhase
  <2>2. Polled' = Polled \ {p} /\ Writing' = Writing \ {p} /\ Waiting' = Waiting \ {p}
    BY <1>1, <2>1, TaskMoves
  <2>3. p \notin Polled /\ (p \notin Writing \/ p \notin Waiting)
    BY <2>1 DEF Polled, Writing, Waiting
  <2>4. QED
    BY <2>1, <2>2, <2>3 DEF Clones!End, Clones!Leave
<1>5. QED
  BY <1>2, <1>3, <1>4 DEF Ending

(* Lemma: the reader, but for the Pong it sends and the socket it closes.   *)
LEMMA ReadingIsChannel ==
  ASSUME TypeOK, Reading
  PROVE  Clones!Turn \/ UNCHANGED Clones!channelVars
<1>1. /\ Reader \in Parties /\ UNCHANGED <<present, closes>>
      /\ pc' = [pc EXCEPT ![Reader] = pc'[Reader]]
      /\ pc[Reader] \notin Seen /\ pc'[Reader] \notin Seen
      /\ connected' \in BOOLEAN
  BY Distinct DEF Reading, ReaderPolls, ReaderTakes, ReaderLosesTransport, ReaderTimesOut,
                  ReaderYields, ReaderStep, Goto, TypeOK, Seen
<1>2. UNCHANGED <<Polled, Writing, Waiting>>
  BY <1>1, TaskUnseen
<1>3. CASE present
  BY <1>1, <1>2, <1>3 DEF Clones!Turn, ChannelPhase
<1>4. CASE ~present
  BY <1>1, <1>2, <1>4 DEF Clones!channelVars, ChannelPhase
<1>5. QED
  BY <1>3, <1>4

(* ImplementsChannel: whatever the clones, the heartbeat and the peer do,   *)
(* the socket is a channel: one frame at a time, none by who looks after    *)
(* it was retired, one Close frame by who retired it, and never open again. *)
THEOREM ImplementsChannelHolds == Spec => ImplementsChannel
<1>1. Init => Clones!Init
  BY Distinct DEF Init, Clones!Init, ChannelPhase, Polled, Writing, Waiting
<1>2. ASSUME TypeOK, Retired, FrameAtATime, CloseInv, [Next]_vars
      PROVE  [Clones!Next]_Clones!channelVars
  <2>1. ASSUME NEW p \in Senders, Emission(p) \/ EmitCompletes(p)
        PROVE  Clones!Next \/ UNCHANGED Clones!channelVars
    BY <1>2, <2>1, EmitIsChannel, Zenon DEF Clones!Next
  <2>2. ASSUME NEW d \in Closers, CloserReplacesStream(d)
        PROVE  Clones!Next
    BY <1>2, <2>2, ReplacingIsChannel, Distinct, Zenon DEF Clones!Next
  <2>3. ASSUME NEW p \in Enders, Ending(p) \/ EnderSends(p)
        PROVE  Clones!Next \/ UNCHANGED Clones!channelVars
    <3>1. p \in Parties
      BY Distinct
    <3>2. QED
      BY <1>2, <2>3, <3>1, EndingIsChannel, Zenon DEF Clones!Next
  <2>4. CASE Reading
    BY <1>2, <2>4, ReadingIsChannel, Zenon DEF Clones!Next
  <2>5. CASE UNCHANGED vars
    BY <2>5 DEF vars, Clones!channelVars, ChannelPhase, Polled, Writing, Waiting
  <2>6. CASE \/ PeerSends \/ PeerFails \/ TimePasses
             \/ \E c \in Connects : ConnectPublishes(c) \/ ConnectPings(c)
             \/ \E e \in Emits : EmitCalled(e)
             \/ \E d \in Closers : CloserCalled(d)
    BY <1>2, <2>6, OutsideIsChannel, Zenon DEF Clones!Next
  <2>7. QED
    BY <1>2, <2>1, <2>2, <2>3, <2>4, <2>5, <2>6 DEF Next
<1>3. QED
  BY <1>1, <1>2, TypeCorrect, RetiredHolds, FrameAtATimeHolds, CloseInvariant, PTL
     DEF Spec, ImplementsChannel, Clones!Spec
=============================================================================
