-------------------------- MODULE SyncClientProofs --------------------------
(***************************************************************************)
(* Machine-checked proofs about SyncClient, for every number of            *)
(* application threads, sessions and attempts.                             *)
(***************************************************************************)
EXTENDS SyncClient, TLAPS

(* The poller and the application are different threads, and none of them   *)
(* is the value of a free lock.                                             *)
LEMMA Distinct ==
  /\ Poller \in Threads /\ Nobody \notin Threads
  /\ \A u \in Users : u \in Threads /\ u # Poller
BY SyncAssumption DEF Threads

(* TypeOK holds in every reachable state.                                   *)
THEOREM TypeCorrect == Spec => []TypeOK
<1>1. Init => TypeOK
  BY SyncAssumption DEF Init, TypeOK, Threads, Sessions, Closing
<1>2. TypeOK /\ [Next]_vars => TypeOK'
  <2> SUFFICES ASSUME TypeOK, [Next]_vars PROVE TypeOK'
    OBVIOUS
  <2> USE Distinct DEF TypeOK, Closing, Goes, At, lockVars, netVars, callVars, loopVars
  <2>1. CASE PollerReads \/ PollerWaits \/ PollerFindsStopped
    <3>1. CASE PollerReads
      BY <3>1 DEF PollerReads, ReadLock
    <3>2. CASE PollerWaits
      BY <3>2 DEF PollerWaits
    <3>3. CASE PollerFindsStopped
      BY <3>3 DEF PollerFindsStopped
    <3>4. QED
      BY <2>1, <3>1, <3>2, <3>3
  <2>2. CASE PollerDispatches \/ PollerGetsDisconnect \/ PollerGoesOn
    <3>1. CASE PollerDispatches
      BY <3>1 DEF PollerDispatches, Yields
    <3>2. CASE PollerGetsDisconnect
      BY <3>2 DEF PollerGetsDisconnect, Yields
    <3>3. CASE PollerGoesOn
      BY <3>3 DEF PollerGoesOn, Yields
    <3>4. QED
      BY <2>2, <3>1, <3>2, <3>3
  <2>3. CASE PollerJudges \/ PollerDisconnects
    BY <2>3 DEF PollerJudges, PollerDisconnects, ReadLock
  <2>4. CASE PollerAttempts
    BY <2>4, SyncAssumption DEF PollerAttempts
  <2>5. CASE DialFails \/ DialSucceeds
    <3>1. CASE DialFails
      BY <3>1 DEF DialFails
    <3>2. CASE DialSucceeds
      <4>1. epoch + 1 \in Sessions /\ 0 \in Nat
        BY <3>2, SyncAssumption DEF DialSucceeds, Sessions
      <4>2. QED
        BY <3>2, <4>1 DEF DialSucceeds
    <3>3. QED
      BY <2>5, <3>1, <3>2
  <2>6. CASE Installs
    BY <2>6, SyncAssumption DEF Installs
  <2>7. ASSUME NEW u \in Users, UserDisconnects(u) PROVE TypeOK'
    BY <2>7, SyncAssumption DEF UserDisconnects, ReadLock
  <2>8. ASSUME NEW t \in Threads, ClosesEngine(t) \/ LoadsEpoch(t) PROVE TypeOK'
    <3>1. CASE ClosesEngine(t)
      BY <3>1 DEF ClosesEngine
    <3>2. CASE LoadsEpoch(t)
      BY <3>2 DEF LoadsEpoch
    <3>3. QED
      BY <2>8, <3>1, <3>2
  <2>9. ASSUME NEW t \in Threads, LocksOn(t) \/ CallbackReturns(t) PROVE TypeOK'
    BY <2>9 DEF LocksOn, CallbackReturns
  <2>10. ASSUME NEW t \in Threads, TakesCallback(t) PROVE TypeOK'
    BY <2>10 DEF TakesCallback
  <2>11. ASSUME NEW t \in Threads, CallbackDisconnects(t) \/ SessionReturns(t) PROVE TypeOK'
    BY <2>11 DEF CallbackDisconnects, SessionReturns
  <2>12. ASSUME NEW t \in Threads, Closed(t) PROVE TypeOK'
    BY <2>12 DEF Closed
  <2>13. ASSUME NEW s \in Sessions, WireBreaks(s) PROVE TypeOK'
    BY <2>13 DEF WireBreaks
  <2>14. CASE UNCHANGED vars
    BY <2>14 DEF vars
  <2>15. QED
    BY <2>1, <2>2, <2>3, <2>4, <2>5, <2>6, <2>7, <2>8, <2>9, <2>10, <2>11, <2>12, <2>13, <2>14
       DEF Next, Polling, Reconnecting, CloseChain
<1>3. QED
  BY <1>1, <1>2, PTL DEF Spec

-----------------------------------------------------------------------------
(* What the poller knows of the session it works on: it is the newest one,  *)
(* and it is closed once a retry is past RawClient::disconnect.             *)
SessionInv ==
  /\ IF At(Poller, "install") THEN epoch = cur + 1 ELSE epoch = cur
  /\ \A s \in Sessions : engine[s] => s = epoch
  /\ pc[Poller] \in Closing \cup {"poll", "wait"} => cl[Poller] = epoch
  /\ pc[Poller] \in Closing \ {"leave"} /\ cause[Poller] = "retry" => ~engine[epoch]
  /\ pc[Poller] \in {"attempt", "dial"} => ~engine[epoch]
  /\ pc[Poller] \in Closing => cause[Poller] \in {"packet", "retry"}

LEMMA SessionInvariant == Spec => []SessionInv
<1>1. Init => SessionInv
  <2> SUFFICES ASSUME Init PROVE SessionInv
    OBVIOUS
  <2>1. pc[Poller] = "next" /\ epoch = cur
    BY Distinct DEF Init
  <2>2. \A s \in Sessions : engine[s] => s = epoch
    BY Zenon DEF Init
  <2>3. QED
    BY <2>1, <2>2 DEF SessionInv, At, Closing
<1>2. TypeOK /\ SessionInv /\ [Next]_vars => SessionInv'
  <2> SUFFICES ASSUME TypeOK, SessionInv, [Next]_vars PROVE SessionInv'
    OBVIOUS
  <2> USE SyncAssumption, Distinct DEF TypeOK, SessionInv, Closing, Goes, At, Sessions,
          lockVars, netVars, callVars, loopVars
  <2>1. CASE PollerReads \/ PollerWaits \/ PollerFindsStopped
    <3>1. CASE PollerReads
      BY <3>1 DEF PollerReads, ReadLock
    <3>2. CASE PollerWaits
      BY <3>2 DEF PollerWaits
    <3>3. CASE PollerFindsStopped
      BY <3>3 DEF PollerFindsStopped
    <3>4. QED
      BY <2>1, <3>1, <3>2, <3>3
  <2>2. CASE PollerDispatches \/ PollerGetsDisconnect \/ PollerGoesOn
    <3>1. CASE PollerDispatches
      BY <3>1 DEF PollerDispatches, Yields
    <3>2. CASE PollerGetsDisconnect
      BY <3>2 DEF PollerGetsDisconnect, Yields
    <3>3. CASE PollerGoesOn
      BY <3>3 DEF PollerGoesOn, Yields
    <3>4. QED
      BY <2>2, <3>1, <3>2, <3>3
  <2>3. CASE PollerJudges \/ PollerDisconnects
    BY <2>3 DEF PollerJudges, PollerDisconnects, ReadLock
  <2>4. CASE PollerAttempts
    BY <2>4 DEF PollerAttempts
  <2>5. CASE DialFails \/ DialSucceeds
    BY <2>5 DEF DialFails, DialSucceeds
  <2>6. CASE Installs
    BY <2>6 DEF Installs
  <2>7. ASSUME NEW u \in Users, UserDisconnects(u) PROVE SessionInv'
    BY <2>7 DEF UserDisconnects, ReadLock
  <2>8. ASSUME NEW t \in Threads, ClosesEngine(t) \/ LoadsEpoch(t) PROVE SessionInv'
    <3>1. CASE ClosesEngine(t)
      BY <3>1 DEF ClosesEngine
    <3>2. CASE LoadsEpoch(t)
      BY <3>2 DEF LoadsEpoch
    <3>3. QED
      BY <2>8, <3>1, <3>2
  <2>9. ASSUME NEW t \in Threads, LocksOn(t) \/ CallbackReturns(t) PROVE SessionInv'
    BY <2>9 DEF LocksOn, CallbackReturns
  <2>10. ASSUME NEW t \in Threads, TakesCallback(t) PROVE SessionInv'
    BY <2>10 DEF TakesCallback
  <2>11. ASSUME NEW t \in Threads, CallbackDisconnects(t) \/ SessionReturns(t) PROVE SessionInv'
    <3>1. CASE CallbackDisconnects(t)
      BY <3>1 DEF CallbackDisconnects
    <3>2. CASE SessionReturns(t)
      BY <3>2 DEF SessionReturns
    <3>3. QED
      BY <2>11, <3>1, <3>2
  <2>12. ASSUME NEW t \in Threads, Closed(t) PROVE SessionInv'
    BY <2>12 DEF Closed
  <2>13. ASSUME NEW s \in Sessions, WireBreaks(s) PROVE SessionInv'
    BY <2>13 DEF WireBreaks
  <2>14. CASE UNCHANGED vars
    BY <2>14 DEF vars
  <2>15. QED
    BY <2>1, <2>2, <2>3, <2>4, <2>5, <2>6, <2>7, <2>8, <2>9, <2>10, <2>11, <2>12, <2>13, <2>14
       DEF Next, Polling, Reconnecting, CloseChain
<1>3. QED
  BY <1>1, <1>2, TypeCorrect, PTL DEF Spec

(* OneSessionOpen: every reconnect first closes the session it replaces.    *)
THEOREM OneSessionOpenHolds == Spec => []OneSessionOpen
<1>1. SessionInv => OneSessionOpen
  BY DEF SessionInv, OneSessionOpen
<1>2. QED
  BY <1>1, SessionInvariant, PTL

-----------------------------------------------------------------------------
(* The rounds of the retry loop: handshakes that failed are counted while a *)
(* round lasts, and a round that gave up leaves a closed socket behind,     *)
(* from which the iterator never gets out.                                  *)
RoundInv ==
  /\ At(Poller, "attempt") => tries <= attempts
  /\ At(Poller, "dial") => tries < attempts
  /\ pc[Poller] \notin {"attempt", "dial", "install"} => attempts = 0
  /\ pc[Poller] \notin {"attempt", "dial"} /\ tries # 0 =>
       /\ pc[Poller] \in {"next", "poll"} /\ ~engine[epoch]
       /\ tries <= MaxAttempts

LEMMA RoundInvariant == Spec => []RoundInv
<1>1. Init => RoundInv
  BY Distinct DEF Init, RoundInv, At
<1>2. TypeOK /\ SessionInv /\ RoundInv /\ [Next]_vars => RoundInv'
  <2> SUFFICES ASSUME TypeOK, SessionInv, RoundInv, [Next]_vars PROVE RoundInv'
    OBVIOUS
  <2> USE SyncAssumption, Distinct DEF TypeOK, SessionInv, RoundInv, Closing, Goes, At, Sessions,
          lockVars, netVars, callVars, loopVars
  <2>1. CASE PollerReads \/ PollerWaits \/ PollerFindsStopped
    <3>1. CASE PollerReads
      BY <3>1 DEF PollerReads, ReadLock
    <3>2. CASE PollerWaits
      BY <3>2 DEF PollerWaits
    <3>3. CASE PollerFindsStopped
      BY <3>3 DEF PollerFindsStopped
    <3>4. QED
      BY <2>1, <3>1, <3>2, <3>3
  <2>2. CASE PollerDispatches \/ PollerGetsDisconnect \/ PollerGoesOn
    <3>1. CASE PollerDispatches
      BY <3>1 DEF PollerDispatches, Yields
    <3>2. CASE PollerGetsDisconnect
      BY <3>2 DEF PollerGetsDisconnect, Yields
    <3>3. CASE PollerGoesOn
      BY <3>3 DEF PollerGoesOn, Yields
    <3>4. QED
      BY <2>2, <3>1, <3>2, <3>3
  <2>3. CASE PollerJudges \/ PollerDisconnects
    BY <2>3 DEF PollerJudges, PollerDisconnects, ReadLock
  <2>4. CASE PollerAttempts
    BY <2>4 DEF PollerAttempts
  <2>5. CASE DialFails \/ DialSucceeds
    BY <2>5 DEF DialFails, DialSucceeds
  <2>6. CASE Installs
    BY <2>6 DEF Installs
  <2>7. ASSUME NEW u \in Users, UserDisconnects(u) PROVE RoundInv'
    BY <2>7 DEF UserDisconnects, ReadLock
  <2>8. ASSUME NEW t \in Threads, ClosesEngine(t) \/ LoadsEpoch(t) PROVE RoundInv'
    BY <2>8 DEF ClosesEngine, LoadsEpoch
  <2>9. ASSUME NEW t \in Threads, LocksOn(t) \/ CallbackReturns(t) PROVE RoundInv'
    BY <2>9 DEF LocksOn, CallbackReturns
  <2>10. ASSUME NEW t \in Threads, TakesCallback(t) PROVE RoundInv'
    BY <2>10 DEF TakesCallback
  <2>11. ASSUME NEW t \in Threads, CallbackDisconnects(t) \/ SessionReturns(t) PROVE RoundInv'
    BY <2>11 DEF CallbackDisconnects, SessionReturns
  <2>12. ASSUME NEW t \in Threads, Closed(t) PROVE RoundInv'
    BY <2>12 DEF Closed
  <2>13. ASSUME NEW s \in Sessions, WireBreaks(s) PROVE RoundInv'
    BY <2>13 DEF WireBreaks
  <2>14. CASE UNCHANGED vars
    BY <2>14 DEF vars
  <2>15. QED
    BY <2>1, <2>2, <2>3, <2>4, <2>5, <2>6, <2>7, <2>8, <2>9, <2>10, <2>11, <2>12, <2>13, <2>14
       DEF Next, Polling, Reconnecting, CloseChain
<1>3. QED
  BY <1>1, <1>2, TypeCorrect, SessionInvariant, PTL DEF Spec

(* LimitKept: the limit of max_reconnect_attempts bounds the handshakes     *)
(* that fail after a session, whatever ended it.                            *)
THEOREM LimitKeptHolds == Spec => []LimitKept
<1>1. TypeOK /\ RoundInv => LimitKept
  BY SyncAssumption, Distinct DEF TypeOK, RoundInv, LimitKept, At
<1>2. QED
  BY <1>1, TypeCorrect, RoundInvariant, PTL

-----------------------------------------------------------------------------
(* Whose report covers which session. A thread in the close chain keeps its *)
(* read guard, so no new client is installed before it is done; and who     *)
(* finds the callback taken finds it taken for the same session.            *)
ReportInv ==
  /\ \A t \in Threads : pc[t] \in Closing \cup {"poll", "wait"} => t \in readers
  /\ taken # Nobody =>
       /\ pc[taken] \in Closing
       /\ ~At(Poller, "install") => epoch \in reported
  /\ ~At(Poller, "install") =>
       \A t \in Threads : pc[t] \in {"legacy", "legacyUser", "take"} => arg[t] = epoch
  /\ pc[Poller] \in {"session", "closed"} \/ (pc[Poller] \in Closing /\ inner[Poller] = "running")
       => epoch \in reported
  /\ pc[Poller] \in {"attempt", "dial", "install"} => cur \in reported
  /\ \A t \in Threads : At(t, "session") => taken = t
  /\ \A t \in Threads : inner[t] = "running" => pc[t] \in Closing /\ taken = t
  /\ taken # Nobody => At(taken, "session") \/ inner[taken] = "running"
  /\ ReplacedReported

LEMMA ReportInvariant == Spec => []ReportInv
<1>1. Init => ReportInv
  <2> SUFFICES ASSUME Init PROVE ReportInv
    OBVIOUS
  <2>1. \A t \in Threads : pc[t] \in {"next", "idle"} /\ inner[t] = "no"
    BY DEF Init
  <2>2. ReplacedReported
    BY DEF Init, ReplacedReported
  <2>3. QED
    BY <2>1, <2>2, Distinct DEF Init, ReportInv, Closing, At
<1>2. TypeOK /\ SessionInv /\ ReportInv /\ [Next]_vars => ReportInv'
  <2> SUFFICES ASSUME TypeOK, SessionInv, ReportInv, [Next]_vars PROVE ReportInv'
    OBVIOUS
  <2> USE Distinct DEF TypeOK, SessionInv, ReportInv, ReplacedReported, Closing, Goes, At,
          lockVars, netVars, callVars, loopVars
  <2>1. CASE PollerReads
    BY <2>1 DEF PollerReads, ReadLock
  <2>2. CASE PollerWaits
    BY <2>2 DEF PollerWaits
  <2>3. CASE PollerFindsStopped
    BY <2>3 DEF PollerFindsStopped
  <2>4. CASE PollerDispatches
    BY <2>4 DEF PollerDispatches, Yields
  <2>5. CASE PollerGetsDisconnect
    BY <2>5 DEF PollerGetsDisconnect, Yields
  <2>6. CASE PollerGoesOn
    BY <2>6 DEF PollerGoesOn
  <2>7. CASE PollerJudges
    BY <2>7 DEF PollerJudges
  <2>8. CASE PollerDisconnects
    BY <2>8 DEF PollerDisconnects, ReadLock
  <2>9. CASE PollerAttempts
    BY <2>9 DEF PollerAttempts
  <2>10. CASE DialFails
    BY <2>10 DEF DialFails
  <2>11. CASE DialSucceeds
    BY <2>11 DEF DialSucceeds
  <2>12. CASE Installs
    <3>1. taken = Nobody /\ \A t \in Threads : pc[t] \notin Closing
      BY <2>12 DEF Installs, CanWrite
    <3>2. ReplacedReported'
      <4>1. cur' = cur + 1 /\ cur \in Nat /\ cur \in reported /\ reported' = reported
        BY <2>12 DEF Installs, Sessions
      <4>2. \A s \in 1 .. cur' - 1 : s = cur \/ s \in 1 .. cur - 1
        BY <4>1
      <4>3. QED
        BY <4>1, <4>2
    <3>3. \A t \in Threads : pc'[t] \notin Closing
      BY <2>12, <3>1 DEF Installs
    <3>4. QED
      BY <2>12, <3>1, <3>2, <3>3 DEF Installs
  <2>13. ASSUME NEW u \in Users, UserDisconnects(u) PROVE ReportInv'
    BY <2>13 DEF UserDisconnects, ReadLock
  <2>14. ASSUME NEW t \in Threads, ClosesEngine(t) PROVE ReportInv'
    BY <2>14 DEF ClosesEngine
  <2>15. ASSUME NEW t \in Threads, LoadsEpoch(t) PROVE ReportInv'
    BY <2>15 DEF LoadsEpoch
  <2>16. ASSUME NEW t \in Threads, LocksOn(t) PROVE ReportInv'
    BY <2>16 DEF LocksOn
  <2>17. ASSUME NEW t \in Threads, CallbackReturns(t) PROVE ReportInv'
    BY <2>17 DEF CallbackReturns
  <2>18. ASSUME NEW t \in Threads, TakesCallback(t) PROVE ReportInv'
    BY <2>18 DEF TakesCallback
  <2>19. ASSUME NEW t \in Threads, CallbackDisconnects(t) PROVE ReportInv'
    BY <2>19 DEF CallbackDisconnects
  <2>20. ASSUME NEW t \in Threads, SessionReturns(t) PROVE ReportInv'
    BY <2>20 DEF SessionReturns
  <2>21. ASSUME NEW t \in Threads, Closed(t) PROVE ReportInv'
    BY <2>21 DEF Closed
  <2>22. ASSUME NEW s \in Sessions, WireBreaks(s) PROVE ReportInv'
    BY <2>22 DEF WireBreaks
  <2>23. CASE UNCHANGED vars
    BY <2>23 DEF vars
  <2>24. QED
    BY <2>1, <2>2, <2>3, <2>4, <2>5, <2>6, <2>7, <2>8, <2>9, <2>10, <2>11, <2>12, <2>13,
       <2>14, <2>15, <2>16, <2>17, <2>18, <2>19, <2>20, <2>21, <2>22, <2>23
       DEF Next, Polling, Reconnecting, CloseChain
<1>3. QED
  BY <1>1, <1>2, TypeCorrect, SessionInvariant, PTL DEF Spec

(* ReplacedReported: a client is replaced only after a close for its        *)
(* session was given to on_close_with_session, by whichever thread.         *)
THEOREM ReplacedReportedHolds == Spec => []ReplacedReported
<1>1. ReportInv => ReplacedReported
  BY DEF ReportInv
<1>2. QED
  BY <1>1, ReportInvariant, PTL
=============================================================================
