--------------------------- MODULE AckTableProofs ---------------------------
(***************************************************************************)
(* Machine-checked proofs about AckTable, for every set of requests and    *)
(* ids, however often ids collide.                                         *)
(***************************************************************************)
EXTENDS AckTable, SequenceTheorems, TLAPS

NowDue(h) == h.st \in Calling => h.now \in h.due

(* TypeOK holds in every reachable state: the table holds requests, and     *)
(* each dispatch task is in a state of handle_ack.                          *)
LEMMA TypeInit == Init => TypeOK
BY EmptySeq DEF Init, TypeOK, NoHandler, Handler, HandlerStates, Calling

(* Lemma: a step of one dispatch task that replaces its record by another   *)
(* record keeps all well-typed.                                             *)
LEMMA HandlerStepType ==
  ASSUME TypeOK, NEW q \in Reqs, NEW h \in Handler, HandlerStep(q, h), NowDue(h),
         table' \subseteq Reqs, seen' \subseteq Reqs,
         calls' \in [Reqs -> Seq(Reqs)], drainer' \in [Reqs -> Reqs \cup {None}]
  PROVE  TypeOK'
BY DEF HandlerStep, TypeOK, NowDue

LEMMA FinishType ==
  ASSUME TypeOK, NEW q \in Reqs, NEW r \in Reqs, Finish(q, r)
  PROVE  TypeOK'
<1> DEFINE h == [handler[q] EXCEPT !.st = "loop", !.now = None, !.due = @ \ {r}]
<1>1. handler[q] \in Handler
  BY DEF TypeOK
<1>2. h \in Handler /\ NowDue(h)
  BY <1>1 DEF Handler, HandlerStates, NowDue, Calling
<1> QED
  BY <1>2, HandlerStepType DEF Finish, TypeOK

LEMMA CallUserType ==
  ASSUME TypeOK, NEW q \in Reqs, NEW r \in handler[q].due, NEW part \in Calling,
         CallUser(q, r, part)
  PROVE  TypeOK'
<1> DEFINE h == [handler[q] EXCEPT !.st = part, !.now = r]
<1>1. handler[q] \in Handler /\ r \in Reqs
  BY DEF TypeOK, Handler
<1>2. h \in Handler /\ NowDue(h)
  BY <1>1 DEF Handler, HandlerStates, NowDue, Calling
<1>3. Append(calls[r], q) \in Seq(Reqs)
  BY <1>1, AppendProperties DEF TypeOK
<1>4. calls' \in [Reqs -> Seq(Reqs)]
  BY <1>1, <1>3 DEF CallUser, TypeOK
<1> QED
  BY <1>2, <1>4, HandlerStepType DEF CallUser, TypeOK

LEMMA LeaveType ==
  ASSUME TypeOK, NEW q \in Reqs, NEW st \in {"gone", "panicked"}, Leave(q, st)
  PROVE  TypeOK'
<1> DEFINE h == [handler[q] EXCEPT !.st = st]
<1>1. handler[q] \in Handler
  BY DEF TypeOK
<1>2. h \in Handler /\ NowDue(h)
  BY <1>1 DEF Handler, HandlerStates, NowDue, Calling
<1> QED
  BY <1>2, HandlerStepType DEF Leave, TypeOK

(* Lemma: an answer takes entries of its own id only.                       *)
LEMMA MatchedOfId ==
  ASSUME NEW q
  PROVE  Matched(q) \subseteq table /\ \A r \in Matched(q) : id[r] = id[q]
BY DEF Matched

LEMMA TypeStep == TypeOK /\ [Next]_vars => TypeOK'
<1> SUFFICES ASSUME TypeOK, [Next]_vars PROVE TypeOK'
  OBVIOUS
<1>1. ASSUME NEW r \in Reqs, Build(r) PROVE TypeOK'
  BY <1>1 DEF Build, TypeOK
<1>2. ASSUME NEW r \in Reqs, Register(r) PROVE TypeOK'
  <2>1. order' \in Seq(Reqs)
    BY <1>2, AppendProperties DEF Register, TypeOK
  <2> QED
    BY <1>2, <2>1 DEF Register, TypeOK
<1>3. ASSUME NEW r \in Reqs, Send(r) PROVE TypeOK'
  BY <1>3 DEF Send, TypeOK
<1>4. ASSUME NEW r \in Reqs, Expire(r) PROVE TypeOK'
  BY <1>4 DEF Expire, TypeOK
<1>5. ASSUME NEW q \in Reqs, AnswerArrives(q) PROVE TypeOK'
  <2>1. PICK shape \in Shapes :
          HandlerStep(q, [NoHandler EXCEPT !.st = "spawned", !.shape = shape])
    BY <1>5 DEF AnswerArrives
  <2>2. [NoHandler EXCEPT !.st = "spawned", !.shape = shape] \in Handler
    BY DEF NoHandler, Handler, HandlerStates
  <2>3. NowDue([NoHandler EXCEPT !.st = "spawned", !.shape = shape])
    BY DEF NoHandler, NowDue, Calling
  <2> QED
    BY <1>5, <2>1, <2>2, <2>3, HandlerStepType DEF AnswerArrives, TypeOK
<1>6. ASSUME NEW q \in Reqs, Drain(q) PROVE TypeOK'
  <2> DEFINE h == [handler[q] EXCEPT !.st = "loop", !.due = Matched(q)]
  <2>1. handler[q] \in Handler /\ Matched(q) \subseteq Reqs
    BY MatchedOfId DEF TypeOK
  <2>2. h \in Handler /\ NowDue(h)
    BY <2>1 DEF Handler, HandlerStates, NowDue, Calling
  <2>3. drainer' \in [Reqs -> Reqs \cup {None}]
    BY <1>6 DEF Drain, TypeOK
  <2>4. HandlerStep(q, h) /\ table' \subseteq Reqs /\ seen' = seen /\ calls' = calls
    BY <1>6 DEF Drain, TypeOK
  <2> QED
    BY <2>2, <2>3, <2>4, HandlerStepType DEF TypeOK
<1>7. ASSUME NEW q \in Reqs, NextEntry(q) PROVE TypeOK'
  <2>1. PICK r \in handler[q].due :
          Finish(q, r) \/ CallUser(q, r, FirstPart(handler[q].shape))
    BY <1>7 DEF NextEntry
  <2>2. r \in Reqs /\ FirstPart(handler[q].shape) \in Calling
    BY DEF TypeOK, Handler, FirstPart, Calling
  <2> QED
    BY <2>1, <2>2, FinishType, CallUserType
<1>8. ASSUME NEW q \in Reqs, UserReturns(q) PROVE TypeOK'
  <2>1. handler[q].now \in handler[q].due /\ handler[q].now \in Reqs
    BY <1>8 DEF UserReturns, Calling, TypeOK, Handler
  <2> QED
    BY <1>8, <2>1, FinishType, CallUserType DEF UserReturns, Calling
<1>9. ASSUME NEW q \in Reqs, HandlerEnds(q) \/ UserPanics(q) \/ HandlerCancelled(q)
      PROVE  TypeOK'
  BY <1>9, LeaveType DEF HandlerEnds, UserPanics, HandlerCancelled
<1>10. CASE EndSession
  <2>1. ASSUME NEW q \in Reqs
        PROVE  handler'[q] \in Handler /\ NowDue(handler'[q])
    <3>1. handler[q] \in Handler /\ NowDue(handler[q])
      BY DEF TypeOK, NowDue
    <3>2. \/ handler'[q] = handler[q]
          \/ handler'[q] = [handler[q] EXCEPT !.aborted = @ \/ handler[q].st \in {"spawned", "loop"} \cup Calling]
      BY <1>10 DEF EndSession
    <3> QED
      BY <3>1, <3>2 DEF Handler, NowDue
  <2>2. handler' \in [Reqs -> Handler]
    BY <1>10, <2>1 DEF EndSession, TypeOK
  <2> QED
    BY <1>10, <2>1, <2>2 DEF EndSession, TypeOK, NowDue
<1>11. CASE UNCHANGED vars
  BY <1>11 DEF vars, TypeOK
<1> QED
  BY <1>1, <1>2, <1>3, <1>4, <1>5, <1>6, <1>7, <1>8, <1>9, <1>10, <1>11
  DEF Next, Emitter, Handling

THEOREM TypeCorrect == Spec => []TypeOK
<1> QED BY TypeInit, TypeStep, PTL DEF Spec

-----------------------------------------------------------------------------
(* The inductive invariant. A request whose answer may come or is about to  *)
(* be handled is in the table until one answer of its id takes it out; the  *)
(* answer's task then is the only one that can call it.                     *)
Started(r) == pc[r] \notin {"idle", "building"}

UnstartedUnknown ==
  \A r \in Reqs : ~Started(r) =>
    r \notin table /\ r \notin seen /\ drainer[r] = None /\ handler[r].st = "none"

StartedKept ==
  \A r \in Reqs : pc[r] = "registered" \/ r \in seen \/ handler[r].st = "spawned" =>
    r \in table \/ drainer[r] # None

NoRefire == \A r \in table : drainer[r] = None /\ calls[r] = << >>

DrainerMatches ==
  \A r \in Reqs : drainer[r] # None => Started(drainer[r]) /\ id[drainer[r]] = id[r]

CalledByDrainer ==
  \A r \in Reqs : \A i \in 1 .. Len(calls[r]) : calls[r][i] = drainer[r]

DueDrained == \A q \in Reqs : \A r \in handler[q].due : drainer[r] = q

AckInv ==
  UnstartedUnknown /\ StartedKept /\ NoRefire /\ DrainerMatches /\ CalledByDrainer /\ DueDrained

LEMMA AckInit == Init => AckInv
BY DEF Init, AckInv, UnstartedUnknown, StartedKept, NoRefire, DrainerMatches,
       CalledByDrainer, DueDrained, Started, NoHandler

(* Lemma: a step of a task that is under way and takes nothing, calls       *)
(* nothing and keeps no entry it did not have preserves the invariant.      *)
LEMMA HandlerKeeps ==
  ASSUME TypeOK, AckInv, NEW q \in Reqs, NEW h, HandlerStep(q, h),
         handler[q].st # "none", h.st # "spawned", h.due \subseteq handler[q].due,
         table' = table, seen' = seen, drainer' = drainer, calls' = calls
  PROVE  AckInv'
BY DEF HandlerStep, TypeOK, AckInv, UnstartedUnknown, StartedKept, NoRefire, DrainerMatches,
       CalledByDrainer, DueDrained, Started

LEMMA FinishKeeps ==
  ASSUME TypeOK, AckInv, NEW q \in Reqs, NEW r, handler[q].st # "none", Finish(q, r)
  PROVE  AckInv'
<1> DEFINE h == [handler[q] EXCEPT !.st = "loop", !.now = None, !.due = @ \ {r}]
<1>1. handler[q] \in Handler
  BY DEF TypeOK
<1>2. h.due \subseteq handler[q].due /\ h.st = "loop"
  BY <1>1 DEF Handler
<1> QED
  BY <1>2, HandlerKeeps DEF Finish

LEMMA LeaveKeeps ==
  ASSUME TypeOK, AckInv, NEW q \in Reqs, NEW st \in {"gone", "panicked"}, handler[q].st # "none", Leave(q, st)
  PROVE  AckInv'
<1> DEFINE h == [handler[q] EXCEPT !.st = st]
<1>1. handler[q] \in Handler
  BY DEF TypeOK
<1>2. h.due \subseteq handler[q].due /\ h.st = st
  BY <1>1 DEF Handler
<1> QED
  BY <1>2, HandlerKeeps DEF Leave

(* Lemma: a call made for an entry the task took itself is a call by its    *)
(* drainer, and the entry is not in the table.                              *)
LEMMA CallUserKeeps ==
  ASSUME TypeOK, AckInv, NEW q \in Reqs, NEW r \in handler[q].due, NEW part \in Calling,
         handler[q].st # "none", CallUser(q, r, part)
  PROVE  AckInv'
<1> DEFINE h == [handler[q] EXCEPT !.st = part, !.now = r]
<1>1. handler[q] \in Handler /\ r \in Reqs /\ drainer[r] = q /\ drainer[r] # None
  BY AckAssumption DEF TypeOK, Handler, AckInv, DueDrained
<1>2. h.due = handler[q].due /\ h.st # "spawned"
  BY <1>1 DEF Handler, Calling
<1>3. r \notin table
  BY <1>1 DEF AckInv, NoRefire
<1>4. /\ HandlerStep(q, h) /\ table' = table /\ seen' = seen /\ drainer' = drainer
      /\ calls' = [calls EXCEPT ![r] = Append(@, q)]
  BY <1>1 DEF CallUser
<1>5. UnstartedUnknown' /\ StartedKept' /\ DrainerMatches'
  BY <1>2, <1>4 DEF HandlerStep, AckInv, TypeOK, UnstartedUnknown, StartedKept, DrainerMatches, Started
<1>6. NoRefire'
  BY <1>3, <1>4 DEF AckInv, NoRefire, TypeOK
<1>7. CalledByDrainer'
  <2> SUFFICES ASSUME NEW x \in Reqs, NEW i \in 1 .. Len(calls'[x])
               PROVE  calls'[x][i] = drainer[x]
    BY <1>4 DEF CalledByDrainer
  <2>1. CASE x # r
    BY <1>4, <2>1 DEF AckInv, CalledByDrainer, TypeOK
  <2>2. CASE x = r
    <3>1. calls[r] \in Seq(Reqs) /\ calls'[r] = Append(calls[r], q)
      BY <1>1, <1>4 DEF TypeOK
    <3>2. \A j \in 1 .. Len(calls[r]) : calls[r][j] = drainer[r]
      BY <1>1 DEF AckInv, CalledByDrainer
    <3> QED
      BY <1>1, <2>2, <3>1, <3>2
  <2> QED
    BY <2>1, <2>2
<1>8. DueDrained'
  BY <1>2, <1>4 DEF HandlerStep, AckInv, DueDrained, TypeOK
<1> QED
  BY <1>5, <1>6, <1>7, <1>8 DEF AckInv

LEMMA DrainKeeps ==
  ASSUME TypeOK, AckInv, NEW q \in Reqs, Drain(q)
  PROVE  AckInv'
<1> DEFINE matched == Matched(q)
           h == [handler[q] EXCEPT !.st = "loop", !.due = matched]
<1>0. matched \subseteq table /\ \A r \in matched : id[r] = id[q]
  BY MatchedOfId
<1>1. /\ HandlerStep(q, h) /\ seen' = seen /\ calls' = calls /\ table' = table \ matched
      /\ drainer' = [r \in Reqs |-> IF r \in matched THEN q ELSE drainer[r]]
      /\ handler[q].st = "spawned"
  BY DEF Drain
<1>2. handler[q] \in Handler /\ table \subseteq Reqs /\ q # None
  BY AckAssumption DEF TypeOK
<1>3. h.due = matched /\ h.st = "loop"
  BY <1>2 DEF Handler
<1> HIDE DEF matched
<1>4. Started(q) /\ pc' = pc /\ id' = id
  BY <1>1 DEF HandlerStep, AckInv, UnstartedUnknown
<1>5. \A p \in Reqs : handler'[p] = IF p = q THEN h ELSE handler[p]
  BY <1>1 DEF HandlerStep, TypeOK
<1>6. \A r \in matched : drainer[r] = None /\ calls[r] = << >> /\ Started(r)
  BY <1>0, <1>2 DEF AckInv, NoRefire, UnstartedUnknown
<1>7. UnstartedUnknown'
  BY <1>1, <1>4, <1>5, <1>6 DEF AckInv, UnstartedUnknown, Started
<1>8. StartedKept' /\ NoRefire'
  BY <1>0, <1>1, <1>2, <1>3, <1>4, <1>5 DEF AckInv, StartedKept, NoRefire, Started
<1>9. DrainerMatches'
  BY <1>0, <1>1, <1>4 DEF AckInv, DrainerMatches, Started
<1>10. CalledByDrainer'
  BY <1>1, <1>6 DEF AckInv, CalledByDrainer
<1>11. DueDrained'
  <2> SUFFICES ASSUME NEW p \in Reqs, NEW r \in handler'[p].due PROVE drainer'[r] = p
    BY DEF DueDrained
  <2>1. CASE p = q
    BY <1>0, <1>1, <1>2, <1>3, <1>5, <2>1
  <2>2. CASE p # q
    <3>1. r \in handler[p].due /\ drainer[r] = p /\ p # None /\ r \in Reqs
      BY <1>5, <2>2, AckAssumption DEF AckInv, DueDrained, TypeOK, Handler
    <3> QED
      BY <1>1, <1>6, <3>1
  <2> QED
    BY <2>1, <2>2
<1> QED
  BY <1>7, <1>8, <1>9, <1>10, <1>11 DEF AckInv

LEMMA AckStep == TypeOK /\ AckInv /\ [Next]_vars => AckInv'
<1> SUFFICES ASSUME TypeOK, AckInv, [Next]_vars PROVE AckInv'
  OBVIOUS
<1> USE DEF UnstartedUnknown, StartedKept, NoRefire, DrainerMatches, CalledByDrainer, DueDrained
<1>1. ASSUME NEW r \in Reqs, Build(r) PROVE AckInv'
  BY <1>1 DEF Build, TypeOK, AckInv, Started
<1>2. ASSUME NEW r \in Reqs, Register(r) PROVE AckInv'
  <2>1. calls[r] = << >>
    <3>1. drainer[r] = None /\ calls[r] \in Seq(Reqs)
      BY <1>2 DEF Register, AckInv, Started, TypeOK
    <3>2. \A i \in 1 .. Len(calls[r]) : calls[r][i] \in Reqs /\ calls[r][i] = None
      BY <3>1 DEF AckInv
    <3>3. Len(calls[r]) = 0
      BY <3>1, <3>2, AckAssumption
    <3> QED
      BY <3>1, <3>3, EmptySeq
  <2> QED
    BY <1>2, <2>1 DEF Register, TypeOK, AckInv, Started
<1>3. ASSUME NEW r \in Reqs, Send(r) PROVE AckInv'
  <2>1. /\ Started(r) /\ pc'[r] \in {"sent", "failed"}
        /\ \A x \in Reqs : x # r => pc'[x] = pc[x]
    BY <1>3 DEF Send, TypeOK, Started
  <2>2. \A x \in Reqs : Started(x)' <=> Started(x)
    BY <2>1 DEF Started
  <2>3. seen' \subseteq seen \cup {r}
    BY <1>3 DEF Send
  <2>4. id' = id /\ table' = table /\ handler' = handler /\ calls' = calls /\ drainer' = drainer
    BY <1>3 DEF Send
  <2>5. UnstartedUnknown'
    BY <2>1, <2>2, <2>3, <2>4 DEF AckInv
  <2>7. StartedKept'
    BY <1>3, <2>1, <2>3, <2>4 DEF Send, AckInv
  <2>6. DrainerMatches'
    BY <2>2, <2>4 DEF AckInv, TypeOK
  <2> QED
    BY <2>4, <2>5, <2>7, <2>6 DEF AckInv
<1>4. ASSUME NEW r \in Reqs, Expire(r) PROVE AckInv'
  BY <1>4 DEF Expire, TypeOK, AckInv, Started
<1>5. ASSUME NEW q \in Reqs, AnswerArrives(q) PROVE AckInv'
  <2>1. PICK shape \in Shapes :
          HandlerStep(q, [NoHandler EXCEPT !.st = "spawned", !.shape = shape])
    BY <1>5 DEF AnswerArrives
  <2>2. [NoHandler EXCEPT !.st = "spawned", !.shape = shape].due = {}
    BY DEF NoHandler
  <2>3. /\ Started(q) /\ pc' = pc /\ id' = id
        /\ table' = table /\ drainer' = drainer /\ calls' = calls /\ seen' \subseteq seen
    BY <1>5, <2>1 DEF AnswerArrives, HandlerStep, AckInv
  <2>4. \A p \in Reqs : p # q => handler'[p] = handler[p]
    BY <2>1 DEF HandlerStep, TypeOK
  <2>5. handler'[q].due = {}
    BY <2>1, <2>2 DEF HandlerStep, TypeOK
  <2>6. StartedKept'
    BY <1>5, <2>3, <2>4 DEF AnswerArrives, AckInv
  <2> QED
    BY <2>3, <2>4, <2>5, <2>6 DEF AckInv, Started
<1>6. ASSUME NEW q \in Reqs, Drain(q) PROVE AckInv'
  BY <1>6, DrainKeeps
<1>7. ASSUME NEW q \in Reqs, NextEntry(q) PROVE AckInv'
  <2>1. handler[q].st # "none"
    BY <1>7 DEF NextEntry
  <2>2. PICK r \in handler[q].due :
          Finish(q, r) \/ CallUser(q, r, FirstPart(handler[q].shape))
    BY <1>7 DEF NextEntry
  <2>3. FirstPart(handler[q].shape) \in Calling
    BY DEF FirstPart, Calling
  <2> QED
    BY <2>1, <2>2, <2>3, FinishKeeps, CallUserKeeps
<1>8. ASSUME NEW q \in Reqs, UserReturns(q) PROVE AckInv'
  <2>1. handler[q].st \in Calling /\ handler[q].st # "none" /\ handler[q].now \in handler[q].due
    BY <1>8 DEF UserReturns, Calling, TypeOK
  <2> QED
    BY <1>8, <2>1, FinishKeeps, CallUserKeeps DEF UserReturns, Calling
<1>9. ASSUME NEW q \in Reqs, HandlerEnds(q) \/ UserPanics(q) \/ HandlerCancelled(q)
      PROVE  AckInv'
  BY <1>9, LeaveKeeps DEF HandlerEnds, UserPanics, HandlerCancelled, Calling
<1>10. CASE EndSession
  <2>1. \A q \in Reqs : handler'[q].st = handler[q].st /\ handler'[q].due = handler[q].due
    BY <1>10 DEF EndSession, TypeOK, Handler
  <2>2. table' \subseteq table /\ seen' = {}
        /\ UNCHANGED <<pc, id, calls, drainer>>
    BY <1>10 DEF EndSession
  <2>3. StartedKept'
    BY <1>10, <2>1, <2>2 DEF EndSession, AckInv, Busy
  <2> QED
    BY <2>1, <2>2, <2>3 DEF AckInv, Started
<1>11. CASE UNCHANGED vars
  BY <1>11 DEF vars, AckInv, Started
<1> QED
  BY <1>1, <1>2, <1>3, <1>4, <1>5, <1>6, <1>7, <1>8, <1>9, <1>10, <1>11
  DEF Next, Emitter, Handling

LEMMA AckInvariant == Spec => [](TypeOK /\ AckInv)
<1>1. Init => TypeOK /\ AckInv
  BY TypeInit, AckInit
<1>2. TypeOK /\ AckInv /\ [Next]_vars => (TypeOK /\ AckInv)'
  BY TypeStep, AckStep
<1> QED
  BY <1>1, <1>2, PTL DEF Spec

(* An answer always finds its entry, unless another answer of the same id   *)
(* took it: emit_with_ack registers before it sends.                        *)
THEOREM AnswerFindsEntryHolds == Spec => []AnswerFindsEntry
<1>1. TypeOK /\ AckInv => AnswerFindsEntry
  BY DEF AckInv, AnswerFindsEntry, UnstartedUnknown, StartedKept
<1> QED
  BY <1>1, AckInvariant, PTL

(* However ids collide, a callback is called by one task, with one answer,  *)
(* which carries its id (handle_ack).                                       *)
THEOREM OneAnswerPerAckHolds == Spec => []OneAnswerPerAck
<1>1. TypeOK /\ AckInv => OneAnswerPerAck
  <2> SUFFICES ASSUME TypeOK, AckInv PROVE OneAnswerPerAck
    OBVIOUS
  <2>1. ASSUME NEW r \in Reqs, NEW i \in 1 .. Len(calls[r])
        PROVE  calls[r][i] = drainer[r] /\ id[drainer[r]] = id[r]
    <3>1. calls[r][i] = drainer[r] /\ calls[r][i] \in Reqs
      BY <2>1 DEF AckInv, CalledByDrainer, TypeOK
    <3> QED
      BY <3>1, AckAssumption DEF AckInv, DrainerMatches
  <2>2. ASSUME NEW p \in Reqs, NEW q \in Reqs, p # q
        PROVE  handler[p].due \cap handler[q].due = {}
    BY <2>2 DEF AckInv, DueDrained
  <2> QED
    BY <2>1, <2>2 DEF OneAnswerPerAck, AckInv, NoRefire
<1> QED
  BY <1>1, AckInvariant, PTL
=============================================================================
