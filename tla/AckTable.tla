------------------------------ MODULE AckTable ------------------------------
(***************************************************************************)
(* Acknowledgements: emit_with_ack registers a request in outstanding_acks *)
(* and sends it; handle_ack takes entries with an answer's id out of the   *)
(* table and calls their callbacks outside the table's lock.               *)
(*                                                                         *)
(* The asynchronous client handles every answer in a dispatch task of its  *)
(* own, takes all entries with the id and keeps its table from one session *)
(* to the next. The synchronous one handles answers one by one on the      *)
(* polling thread, takes the oldest entry with the id, and has a new table *)
(* after a reconnect.                                                      *)
(*                                                                         *)
(* Entries are kept as a set: the order in which one task calls them is    *)
(* left open. An operator named Action_Fault is Action with the fault the  *)
(* suffix names; no specification uses one.                                *)
(***************************************************************************)
EXTENDS Naturals, Sequences

CONSTANTS
  Reqs,    \* calls of emit_with_ack
  Ids,     \* the ids drawn at random (0 .. 998 in the code)
  Shapes,  \* what an answer carries: data, an attachment, both or neither
  None     \* no request, no id yet

ASSUME AckAssumption ==
  /\ None \notin Reqs /\ None \notin Ids
  /\ Shapes \subseteq {"data", "attachment", "both", "empty"}

VARIABLES
  async,    \* which of the two clients
  order,    \* the requests in the order of their registration
  pc,       \* where each emit_with_ack is
  id,       \* the id it drew
  table,    \* outstanding_acks
  expired,  \* requests whose timeout has elapsed
  seen,     \* requests the server of this session may still answer
  handler,  \* the dispatch task of each request's answer
  calls,    \* HISTORY: the answers each request's callback was called with
  drainer   \* HISTORY: the answer that took the request out of the table

vars == <<async, order, pc, id, table, expired, seen, handler, calls, drainer>>

HandlerStates == {"none", "spawned", "loop", "data", "attachment", "gone", "panicked"}

(* due: the entries taken and not finished; now: the one whose callback runs. *)
Handler == [st: HandlerStates, shape: Shapes \cup {"empty"}, due: SUBSET Reqs,
            now: Reqs \cup {None}, aborted: BOOLEAN]

NoHandler == [st |-> "none", shape |-> "empty", due |-> {}, now |-> None, aborted |-> FALSE]

Calling == {"data", "attachment"}

TypeOK ==
  /\ async \in BOOLEAN /\ order \in Seq(Reqs)
  /\ pc \in [Reqs -> {"idle", "building", "registered", "sent", "failed"}]
  /\ id \in [Reqs -> Ids \cup {None}]
  /\ table \subseteq Reqs /\ expired \subseteq Reqs /\ seen \subseteq Reqs
  /\ handler \in [Reqs -> Handler]
  /\ \A q \in Reqs : handler[q].st \in Calling => handler[q].now \in handler[q].due
  /\ calls \in [Reqs -> Seq(Reqs)]
  /\ drainer \in [Reqs -> Reqs \cup {None}]

Init ==
  /\ async \in BOOLEAN /\ order = << >>
  /\ pc = [r \in Reqs |-> "idle"]
  /\ id = [r \in Reqs |-> None]
  /\ table = {} /\ expired = {} /\ seen = {}
  /\ handler = [q \in Reqs |-> NoHandler]
  /\ calls = [r \in Reqs |-> << >>]
  /\ drainer = [r \in Reqs |-> None]

-----------------------------------------------------------------------------
(* emit_with_ack                                                            *)

Build(r) ==
  /\ pc[r] = "idle"
  /\ pc' = [pc EXCEPT ![r] = "building"]
  /\ \E i \in Ids : id' = [id EXCEPT ![r] = i]
  /\ UNCHANGED <<async, order, table, expired, seen, handler, calls, drainer>>

Register(r) ==
  /\ pc[r] = "building"
  /\ pc' = [pc EXCEPT ![r] = "registered"]
  /\ table' = table \cup {r} /\ order' = Append(order, r)
  /\ UNCHANGED <<async, id, expired, seen, handler, calls, drainer>>

Send_BeforeRegister(r) ==
  /\ pc[r] \in {"building", "registered"}
  /\ \/ pc' = [pc EXCEPT ![r] = IF @ = "building" THEN @ ELSE "sent"] /\ seen' = seen \cup {r}
     \/ pc' = [pc EXCEPT ![r] = "failed"] /\ seen' \in {seen, seen \cup {r}}
  /\ UNCHANGED <<async, order, id, table, expired, handler, calls, drainer>>

(* A failed send leaves the entry; the server may have the packet anyway.   *)
Send(r) ==
  /\ pc[r] = "registered"
  /\ \/ pc' = [pc EXCEPT ![r] = "sent"] /\ seen' = seen \cup {r}
     \/ pc' = [pc EXCEPT ![r] = "failed"] /\ seen' \in {seen, seen \cup {r}}
  /\ UNCHANGED <<async, order, id, table, expired, handler, calls, drainer>>

(* The timeout runs from the construction of the entry to its end.          *)
Expire(r) ==
  /\ pc[r] = "building" \/ r \in table \/ \E q \in Reqs : r \in handler[q].due
  /\ r \notin expired
  /\ expired' = expired \cup {r}
  /\ UNCHANGED <<async, order, pc, id, table, seen, handler, calls, drainer>>

-----------------------------------------------------------------------------
(* The answer of request q and its dispatch task.                           *)

HandlerStep(q, h) ==
  /\ handler' = [handler EXCEPT ![q] = h]
  /\ UNCHANGED <<async, order, pc, id, expired>>

(* An answer that is being handled, or that stopped the polling thread.     *)
Busy == {"spawned", "loop", "panicked"} \cup Calling

AnswerArrives(q) ==
  /\ q \in seen /\ handler[q].st = "none"
  /\ async \/ \A p \in Reqs : handler[p].st \notin Busy
  /\ seen' = seen \ {q}
  /\ \E shape \in Shapes :
       HandlerStep(q, [NoHandler EXCEPT !.st = "spawned", !.shape = shape])
  /\ UNCHANGED <<table, calls, drainer>>

(* The entries an answer takes: all of its id, or the first of them.        *)
Before(r, s) == \E i, j \in DOMAIN order : order[i] = r /\ order[j] = s /\ i < j
Matched(q) ==
  {r \in table : /\ id[r] = id[q]
                 /\ async \/ \A s \in table : id[s] = id[q] => s = r \/ Before(r, s)}

Drain_KeepsCollisions(q) ==
  /\ handler[q].st = "spawned" /\ ~handler[q].aborted
  /\ HandlerStep(q, [handler[q] EXCEPT !.st = "loop", !.due = Matched(q)])
  /\ table' = table \ {q}
  /\ drainer' = [r \in Reqs |-> IF r \in Matched(q) THEN q ELSE drainer[r]]
  /\ UNCHANGED <<seen, calls>>

Drain(q) ==
  /\ handler[q].st = "spawned" /\ ~handler[q].aborted
  /\ HandlerStep(q, [handler[q] EXCEPT !.st = "loop", !.due = Matched(q)])
  /\ table' = table \ Matched(q)
  /\ drainer' = [r \in Reqs |-> IF r \in Matched(q) THEN q ELSE drainer[r]]
  /\ UNCHANGED <<seen, calls>>

CallUser(q, r, part) ==
  /\ HandlerStep(q, [handler[q] EXCEPT !.st = part, !.now = r])
  /\ calls' = [calls EXCEPT ![r] = Append(@, q)]
  /\ UNCHANGED <<table, seen, drainer>>

(* Done with an entry, with or without a call.                              *)
Finish(q, r) ==
  /\ HandlerStep(q, [handler[q] EXCEPT !.st = "loop", !.now = None, !.due = @ \ {r}])
  /\ UNCHANGED <<table, seen, calls, drainer>>

FirstPart(shape) == IF shape = "attachment" THEN "attachment" ELSE "data"

NextEntry_StopsAtExpired(q) ==
  /\ handler[q].st = "loop"
  /\ \E r \in handler[q].due :
       IF r \in expired
       THEN /\ HandlerStep(q, [handler[q] EXCEPT !.st = "gone"])
            /\ UNCHANGED <<table, seen, calls, drainer>>
       ELSE IF handler[q].shape = "empty"
       THEN Finish(q, r)
       ELSE CallUser(q, r, FirstPart(handler[q].shape))

(* The deadline is checked when the entry's turn comes.                     *)
NextEntry(q) ==
  /\ handler[q].st = "loop"
  /\ \E r \in handler[q].due :
       IF r \in expired \/ handler[q].shape = "empty"
       THEN Finish(q, r)
       ELSE CallUser(q, r, FirstPart(handler[q].shape))

(* A callback that got the data is called again with the attachment.        *)
UserReturns(q) ==
  \/ /\ handler[q].st = "data" /\ handler[q].shape = "both"
     /\ CallUser(q, handler[q].now, "attachment")
  \/ /\ handler[q].st \in Calling /\ (handler[q].st = "data" => handler[q].shape # "both")
     /\ Finish(q, handler[q].now)

Leave(q, st) ==
  /\ HandlerStep(q, [handler[q] EXCEPT !.st = st])
  /\ UNCHANGED <<table, seen, calls, drainer>>

HandlerEnds(q) == handler[q].st = "loop" /\ handler[q].due = {} /\ Leave(q, "gone")

UserPanics(q) == handler[q].st \in Calling /\ Leave(q, "panicked")

(* An aborted task is dropped where it awaits: before it ran, or inside a   *)
(* user callback.                                                           *)
HandlerCancelled(q) ==
  /\ handler[q].aborted /\ handler[q].st \in {"spawned"} \cup Calling
  /\ Leave(q, "gone")

(* The session ends and its answers not yet received are lost. The          *)
(* asynchronous client aborts its dispatch tasks and leaves the table as it *)
(* is. The synchronous one replaces the RawClient, table and all, when      *)
(* nobody emits under a read guard and the polling thread is not in a       *)
(* callback.                                                                *)
EndSession ==
  /\ seen' = {}
  /\ \/ /\ async /\ UNCHANGED table
        /\ handler' = [q \in Reqs |->
                         [handler[q] EXCEPT !.aborted = @ \/ handler[q].st \in {"spawned", "loop"} \cup Calling]]
     \/ /\ ~async /\ table' = {} /\ UNCHANGED handler
        /\ \A r \in Reqs : pc[r] \notin {"building", "registered"} /\ handler[r].st \notin Busy
  /\ UNCHANGED <<async, order, pc, id, expired, calls, drainer>>

-----------------------------------------------------------------------------
Emitter(r) == Register(r) \/ Send(r)

Handling(q) == Drain(q) \/ NextEntry(q) \/ HandlerEnds(q) \/ HandlerCancelled(q)

Next ==
  \/ \E r \in Reqs : Build(r) \/ Emitter(r) \/ Expire(r) \/ AnswerArrives(r)
  \/ \E q \in Reqs : Handling(q) \/ UserReturns(q) \/ UserPanics(q)
  \/ EndSession

Spec == Init /\ [][Next]_vars

(* The executor runs what is runnable; nothing is assumed of user code.     *)
ExecutorSpec ==
  /\ Spec
  /\ \A r \in Reqs : WF_vars(Emitter(r)) /\ WF_vars(Handling(r))

(* What an application may add: its ack callbacks return.                   *)
CallbacksReturn == \A q \in Reqs : WF_vars(UserReturns(q))

-----------------------------------------------------------------------------
(* Properties.                                                              *)

(* The entry is there before its answer can be (emit_with_ack pushes before *)
(* it sends): an answer finds it, unless another answer took it.            *)
AnswerFindsEntry ==
  \A q \in Reqs : q \in seen \/ handler[q].st = "spawned" =>
                    q \in table \/ drainer[q] # None

(* A callback is called with one answer packet only, one of its own id, and *)
(* never by two tasks; and no entry in the table was ever called, whose ack *)
(* would "later re-fire" (handle_ack).                                      *)
OneAnswerPerAck ==
  /\ \A r \in Reqs : \A i \in 1 .. Len(calls[r]) :
       calls[r][i] = drainer[r] /\ id[drainer[r]] = id[r]
  /\ \A p, q \in Reqs : p # q => handler[p].due \cap handler[q].due = {}
  /\ \A r \in table : drainer[r] = None /\ calls[r] = << >>

Lost(q) == handler[q].aborted \/ handler[q].st = "panicked"

(* An entry that was taken gets its call if callbacks return, unless it     *)
(* expired first, the task was aborted or a callback panicked, or the       *)
(* answer was empty.                                                        *)
TakenIsCalled ==
  CallbacksReturn =>
    \A q, r \in Reqs :
      r \in handler[q].due ~>
        calls[r] # << >> \/ r \in expired \/ Lost(q) \/ handler[q].shape = "empty"
=============================================================================
