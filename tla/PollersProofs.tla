---------------------------- MODULE PollersProofs ----------------------------
(***************************************************************************)
(* Machine-checked proofs about Pollers, for any number of callers,        *)
(* payloads and connections.                                               *)
(***************************************************************************)
EXTENDS Pollers, SequenceTheorems, TLAPS

-----------------------------------------------------------------------------
(* Where the callers are: threads or tasks, at most one with the mutex.     *)
Places == {"out", "ended"} \cup IF async THEN TaskAt ELSE ThreadAt

PlaceInv ==
  /\ async \in BOOLEAN /\ pc \in [Callers -> Places]
  /\ holder \in Callers \cup {Nobody} /\ waker \in Callers \cup {Nobody}
  /\ \A c \in Callers : pc[c] = "in" <=> holder = c
  /\ waker # Nobody => async /\ stream = "live"
  /\ stream \in {"live", "over", "retired", "closed"}

(* Lemma: a caller goes from one place to another, and no other moves.      *)
LEMMA GoesMoves ==
  ASSUME NEW c \in Callers, NEW from, NEW to, Goes(c, from, to), PlaceInv
  PROVE  /\ pc[c] = from /\ pc'[c] = to
         /\ \A d \in Callers : d # c => pc'[d] = pc[d]
         /\ to \in Places => pc' \in [Callers -> Places]
  BY DEF Goes, PlaceInv, Places

(* Lemma: the waker's task is awake, the others are where they were.        *)
LEMMA WokenMoves ==
  ASSUME PlaceInv, Wakes
  PROVE  /\ \A c \in Callers :
              pc'[c] = IF c = waker /\ pc[c] = "asleep" THEN "poll" ELSE pc[c]
         /\ pc' \in [Callers -> Places]
         /\ waker' = Nobody
  BY DEF Wakes, Woken, PlaceInv, Places, TaskAt, ThreadAt

(* Lemma: threads are where threads are, tasks where tasks are.             *)
LEMMA PlacesApart ==
  ASSUME PlaceInv, NEW c \in Callers
  PROVE  /\ pc[c] \in {"check", "next", "fetch", "store", "handle", "pong"} => ~async
         /\ pc[c] \in {"poll", "in", "asleep"} => async
  BY DEF PlaceInv, Places, TaskAt, ThreadAt

LEMMA PlaceInit ==
  Init => PlaceInv
  BY PollersAssumption DEF Init, PlaceInv, Places, TaskAt, ThreadAt

(* Lemma: the places stay sound when a caller goes to a place that is not   *)
(* inside the mutex, and the mutex stays with whoever has it.               *)
LEMMA GoesKeepsPlaces ==
  ASSUME PlaceInv, NEW c \in Callers, NEW from, NEW to, Goes(c, from, to),
         from # "in", to # "in", to \in Places,
         UNCHANGED <<async, holder, waker, stream>>
  PROVE  PlaceInv'
<1>1. /\ pc[c] = from /\ pc'[c] = to /\ pc' \in [Callers -> Places]
      /\ \A d \in Callers : d # c => pc'[d] = pc[d]
  BY GoesMoves
<1>2. Places' = Places
  BY DEF Places
<1> QED
  BY <1>1, <1>2 DEF PlaceInv

(* Lemma: they stay sound when a task leaves the mutex and its waker is     *)
(* kept or replaced as the stream's state allows.                           *)
LEMMA UnlocksKeepsPlaces ==
  ASSUME PlaceInv, NEW c \in Callers, NEW to, Unlocks(c, to), to # "in", to \in Places,
         UNCHANGED async, waker' \in Callers \cup {Nobody},
         waker' # Nobody => stream' = "live",
         stream' \in {"live", "over", "retired", "closed"}
  PROVE  PlaceInv'
<1>1. /\ pc[c] = "in" /\ pc'[c] = to /\ pc' \in [Callers -> Places]
      /\ \A d \in Callers : d # c => pc'[d] = pc[d]
  BY GoesMoves DEF Unlocks
<1>2. Places' = Places /\ holder' = Nobody /\ async
  BY <1>1, PlacesApart DEF Places, Unlocks
<1>3. holder = c
  BY <1>1 DEF PlaceInv
<1> QED
  BY <1>1, <1>2, <1>3, PollersAssumption DEF PlaceInv

LEMMA PlaceStep ==
  ASSUME PlaceInv, [Next]_vars
  PROVE  PlaceInv'
<1> USE DEF Places, TaskAt, ThreadAt
<1>1. CASE PeerSends \/ PeerBreaks \/ TimePasses
  <2>1. Wakes /\ UNCHANGED <<async, holder, stream>>
    BY <1>1 DEF PeerSends, PeerBreaks, TimePasses, heartVars, netVars
  <2>2. /\ \A c \in Callers :
             pc'[c] = IF c = waker /\ pc[c] = "asleep" THEN "poll" ELSE pc[c]
        /\ pc' \in [Callers -> Places] /\ waker' = Nobody
    BY <2>1, WokenMoves
  <2> QED
    BY <2>1, <2>2 DEF PlaceInv
<1>2. CASE Connects \/ Disconnects
  BY <1>2 DEF Connects, Disconnects, taskVars, PlaceInv
<1>3. CASE Closes
  BY <1>3 DEF Closes, PlaceInv
<1>4. ASSUME NEW c \in Callers, Asks(c)
      PROVE  PlaceInv'
  <2>1. UNCHANGED <<async, holder, waker, stream>>
    BY <1>4 DEF Asks, taskVars
  <2>2. CASE Goes(c, "out", IF async THEN "poll" ELSE "check")
    <3>1. CASE async
      BY <2>1, <2>2, <3>1, GoesKeepsPlaces
    <3>2. CASE ~async
      BY <2>1, <2>2, <3>2, GoesKeepsPlaces
    <3> QED
      BY <3>1, <3>2
  <2>3. CASE ~async /\ Goes(c, "ended", "check")
    BY <2>1, <2>3, GoesKeepsPlaces
  <2> QED
    BY <1>4, <2>2, <2>3 DEF Asks
<1>5. ASSUME NEW c \in Callers, Thread(c)
      PROVE  PlaceInv'
  <2>1. UNCHANGED <<async, holder, waker, stream>>
    BY <1>5 DEF Thread, Checks, TakesRest, Fetches, FetchFails, GivesUp, Stores, Handles, SendsPong,
                ThreadStep, taskVars
  <2>2. PICK from \in ThreadAt, to \in {"out", "ended"} \cup ThreadAt : Goes(c, from, to)
    <3>1. CASE Checks(c) \/ TakesRest(c)
      BY <3>1 DEF Checks, TakesRest
    <3>2. CASE Fetches(c) \/ FetchFails(c)
      BY <3>2 DEF Fetches, FetchFails, GivesUp
    <3>3. CASE Stores(c) \/ Handles(c) \/ SendsPong(c)
      BY <3>3 DEF Stores, Handles, SendsPong
    <3> QED
      BY <1>5, <3>1, <3>2, <3>3 DEF Thread
  <2>3. ~async
    BY <2>2, PlacesApart DEF Goes
  <2> QED
    BY <2>1, <2>2, <2>3, GoesKeepsPlaces
<1>6. ASSUME NEW c \in Callers, Locks(c) \/ FindsContended(c)
      PROVE  PlaceInv'
  <2>1. CASE Locks(c)
    <3>1. /\ pc[c] = "poll" /\ pc'[c] = "in"
          /\ \A d \in Callers : d # c => pc'[d] = pc[d]
      BY <2>1, GoesMoves DEF Locks
    <3>2. async
      BY <3>1, PlacesApart
    <3>3. pc' \in [Callers -> Places]
      BY <2>1, <3>2, GoesMoves DEF Locks
    <3>4. /\ holder = Nobody /\ holder' = c
          /\ UNCHANGED <<async, waker, stream>>
      BY <2>1 DEF Locks, TaskStep
    <3> QED
      BY <3>1, <3>2, <3>3, <3>4, PollersAssumption DEF PlaceInv
  <2>2. CASE FindsContended(c)
    <3>1. Goes(c, "poll", "asleep") /\ UNCHANGED <<async, holder, waker, stream>>
      BY <2>2 DEF FindsContended, TaskStep, taskVars
    <3>2. async
      BY <3>1, PlacesApart DEF Goes
    <3> QED
      BY <3>1, <3>2, GoesKeepsPlaces
  <2> QED
    BY <1>6, <2>1, <2>2
<1>7. ASSUME NEW c \in Callers, YieldsPacket(c)
      PROVE  PlaceInv'
  <2>1. CASE UNCHANGED <<pc, taskVars>>
    <3>1. async' = async
      BY <1>7 DEF YieldsPacket, TaskStep
    <3> QED
      BY <2>1, <3>1 DEF PlaceInv, taskVars
  <2>2. CASE Unlocks(c, "out")
    <3>1. /\ async' = async /\ stream = "live"
          /\ \/ UNCHANGED <<waker, stream>>
             \/ stream' = "over" /\ waker' = Nobody
      BY <1>7, <2>2, PollersAssumption DEF YieldsPacket, TaskStep, Unlocks, taskVars, PlaceInv
    <3> QED
      BY <2>2, <3>1, UnlocksKeepsPlaces DEF PlaceInv
  <2> QED
    BY <1>7, <2>1, <2>2 DEF YieldsPacket
<1>8. ASSUME NEW c \in Callers, YieldsEnd(c) \/ Registers(c) \/ FindsEnd(c)
      PROVE  PlaceInv'
  <2>1. CASE YieldsEnd(c)
    <3>1. /\ async' = async /\ waker' = Nobody /\ Unlocks(c, "out")
          /\ stream' \in {"over", "retired"}
      BY <2>1 DEF YieldsEnd, TaskStep
    <3> QED
      BY <3>1, UnlocksKeepsPlaces
  <2>2. CASE Registers(c)
    <3>1. async' = async /\ waker' = c /\ Unlocks(c, "asleep") /\ stream' = "live"
      BY <2>2 DEF Registers, TaskStep
    <3>2. async
      BY <3>1, PlacesApart DEF Unlocks, Goes
    <3> QED
      BY <3>1, <3>2, UnlocksKeepsPlaces
  <2>3. CASE FindsEnd(c)
    <3>1. UNCHANGED <<async, waker, stream>> /\ Unlocks(c, "ended")
      BY <2>3 DEF FindsEnd, TaskStep
    <3> QED
      BY <3>1, UnlocksKeepsPlaces DEF PlaceInv
  <2> QED
    BY <1>8, <2>1, <2>2, <2>3
<1>9. ASSUME NEW c \in Callers, Stirs(c)
      PROVE  PlaceInv'
  <2>1. /\ Goes(c, "asleep", "poll") \/ Goes(c, "asleep", "out")
        /\ UNCHANGED <<async, holder, waker, stream>>
    BY <1>9 DEF Stirs, TaskStep, taskVars
  <2>2. async
    BY <2>1, PlacesApart DEF Goes
  <2> QED
    BY <2>1, <2>2, GoesKeepsPlaces
<1>10. CASE UNCHANGED vars
  BY <1>10 DEF vars, PlaceInv
<1> QED
  BY <1>1, <1>2, <1>3, <1>4, <1>5, <1>6, <1>7, <1>8, <1>9, <1>10 DEF Next, Task

-----------------------------------------------------------------------------
(* Wake-ups. The stream keeps a waker only while there is nothing to read;  *)
(* and while it keeps none, somebody is awake.                              *)
WokenInv ==
  /\ waker # Nobody => ~Ready
  /\ (stream = "live" /\ waker = Nobody) => \E c \in Callers : pc[c] # "asleep"

LEMMA WokenInit ==
  Init => WokenInv
  BY PollersAssumption DEF Init, WokenInv

(* Lemma: who moves and is awake is the caller that is awake.               *)
LEMMA AwakeSuffices ==
  ASSUME PlaceInv', NEW c \in Callers, pc'[c] # "asleep", waker' = Nobody
  PROVE  WokenInv'
  BY DEF WokenInv

LEMMA WokenStep ==
  ASSUME PlaceInv, PlaceInv', WokenInv, [Next]_vars
  PROVE  WokenInv'
<1>1. CASE PeerSends \/ PeerBreaks \/ TimePasses
  <2>1. Wakes /\ stream' = stream
    BY <1>1 DEF PeerSends, PeerBreaks, TimePasses, heartVars, netVars
  <2>2. /\ \A c \in Callers :
             pc'[c] = IF c = waker /\ pc[c] = "asleep" THEN "poll" ELSE pc[c]
        /\ waker' = Nobody
    BY <2>1, WokenMoves
  <2>3. CASE waker = Nobody
    <3>1. \A c \in Callers : c # waker
      BY <2>3, PollersAssumption
    <3> QED
      BY <2>1, <2>2, <2>3, <3>1 DEF WokenInv
  <2>4. CASE waker # Nobody
    <3>1. waker \in Callers /\ pc'[waker] # "asleep"
      BY <2>2, <2>4 DEF PlaceInv
    <3> QED
      BY <2>2, <3>1, AwakeSuffices
  <2> QED
    BY <2>3, <2>4
<1>2. CASE Connects \/ Disconnects
  BY <1>2 DEF Connects, Disconnects, taskVars, netVars, WokenInv, Ready
<1>3. CASE Closes
  BY <1>3 DEF Closes, WokenInv
<1>4. ASSUME NEW c \in Callers, Asks(c)
      PROVE  WokenInv'
  <2>1. UNCHANGED <<wire, rest, waker, stream>>
    BY <1>4 DEF Asks, taskVars, netVars
  <2>2. pc'[c] # "asleep"
    BY <1>4, GoesMoves DEF Asks
  <2> QED
    BY <2>1, <2>2 DEF WokenInv, Ready
<1>5. ASSUME NEW c \in Callers, Thread(c)
      PROVE  WokenInv'
  <2>1. UNCHANGED <<async, waker>>
    BY <1>5 DEF Thread, Checks, TakesRest, Fetches, FetchFails, GivesUp, Stores, Handles, SendsPong,
                ThreadStep, taskVars
  <2>2. PICK from \in ThreadAt, to \in {"out", "ended"} \cup ThreadAt : Goes(c, from, to)
    <3>1. CASE Checks(c) \/ TakesRest(c)
      BY <3>1 DEF Checks, TakesRest, ThreadAt
    <3>2. CASE Fetches(c) \/ FetchFails(c)
      BY <3>2 DEF Fetches, FetchFails, GivesUp, ThreadAt
    <3>3. CASE Stores(c) \/ Handles(c) \/ SendsPong(c)
      BY <3>3 DEF Stores, Handles, SendsPong, ThreadAt
    <3> QED
      BY <1>5, <3>1, <3>2, <3>3 DEF Thread
  <2>3. pc[c] \in ThreadAt /\ pc'[c] # "asleep"
    BY <2>2, GoesMoves DEF ThreadAt
  <2>4. waker' = Nobody
    BY <2>1, <2>3, PlacesApart DEF PlaceInv, ThreadAt
  <2> QED
    BY <2>3, <2>4, AwakeSuffices
<1>6. ASSUME NEW c \in Callers, Locks(c) \/ FindsContended(c)
      PROVE  WokenInv'
  <2>1. UNCHANGED <<wire, rest, waker, stream>>
    BY <1>6 DEF Locks, FindsContended, TaskStep, taskVars
  <2>2. \E d \in Callers : pc'[d] = "in"
    <3>1. CASE Locks(c)
      BY <3>1, GoesMoves DEF Locks
    <3>2. CASE FindsContended(c)
      <4>1. holder' = holder /\ holder # Nobody
        BY <3>2 DEF FindsContended, taskVars
      <4> QED
        BY <4>1 DEF PlaceInv
    <3> QED
      BY <1>6, <3>1, <3>2
  <2> QED
    BY <2>1, <2>2 DEF WokenInv, Ready
<1>7. ASSUME NEW c \in Callers, YieldsPacket(c)
      PROVE  WokenInv'
  <2>1. waker = Nobody /\ pc[c] = "in"
    BY <1>7 DEF YieldsPacket, WokenInv
  <2>2. waker' = Nobody
    BY <1>7, <2>1 DEF YieldsPacket, taskVars
  <2>3. pc' = pc \/ Unlocks(c, "out")
    BY <1>7 DEF YieldsPacket
  <2>4. pc'[c] # "asleep"
    BY <2>1, <2>3, GoesMoves DEF Unlocks
  <2> QED
    BY <2>2, <2>4, AwakeSuffices
<1>8. ASSUME NEW c \in Callers, YieldsEnd(c) \/ Registers(c) \/ FindsEnd(c)
      PROVE  WokenInv'
  <2>1. CASE YieldsEnd(c)
    BY <2>1, GoesMoves, AwakeSuffices DEF YieldsEnd, Unlocks
  <2>2. CASE Registers(c)
    <3>1. waker' = c /\ ~Ready /\ UNCHANGED <<wire, rest>>
      BY <2>2 DEF Registers, TaskStep
    <3> QED
      BY <3>1, PollersAssumption DEF WokenInv, Ready
  <2>3. CASE FindsEnd(c)
    BY <2>3 DEF FindsEnd, TaskStep, WokenInv, Ready
  <2> QED
    BY <1>8, <2>1, <2>2, <2>3
<1>9. ASSUME NEW c \in Callers, Stirs(c)
      PROVE  WokenInv'
  <2>1. UNCHANGED <<wire, rest, waker, stream>> /\ pc'[c] # "asleep"
    BY <1>9, GoesMoves DEF Stirs, TaskStep, taskVars
  <2> QED
    BY <2>1 DEF WokenInv, Ready
<1>10. CASE UNCHANGED vars
  BY <1>10 DEF vars, WokenInv, Ready
<1> QED
  BY <1>1, <1>2, <1>3, <1>4, <1>5, <1>6, <1>7, <1>8, <1>9, <1>10 DEF Next, Task

(* Lemma: both are invariants.                                              *)
LEMMA WokenInvariant ==
  Spec => [](PlaceInv /\ WokenInv)
<1>1. Init => PlaceInv /\ WokenInv
  BY PlaceInit, WokenInit
<1>2. PlaceInv /\ WokenInv /\ [Next]_vars => (PlaceInv /\ WokenInv)'
  BY PlaceStep, WokenStep
<1> QED
  BY <1>1, <1>2, PTL DEF Spec

(* Theorem: no wake-up is lost with the mutex. When all the tasks of a live *)
(* stream sleep, one of them is known to the stream's waker, and there is   *)
(* nothing to read (StreamGenerator::poll_next).                            *)
THEOREM SomeoneIsWokenHolds ==
  Spec => []SomeoneIsWoken
<1>1. PlaceInv /\ WokenInv => SomeoneIsWoken
  BY DEF WokenInv, SomeoneIsWoken
<1> QED
  BY <1>1, WokenInvariant, PTL

-----------------------------------------------------------------------------
(* Packets that decode, and the numbers of those in a payload, in payloads. *)
Sound == [kind : Kinds \ {"Bad"}, no : Nat]
Nos(q) == {n \in Nat : \E i \in DOMAIN q : q[i].kind # "Bad" /\ q[i].no = n}
AllNos(w) == {n \in Nat : \E i \in DOMAIN w : n \in Nos(w[i])}
Below(A, B) == \A a \in A, b \in B : a < b
Rising(q) == \A i, j \in DOMAIN q : i < j => q[i].no < q[j].no
Ordered(w) == \A i, j \in DOMAIN w : i < j => Below(Nos(w[i]), Nos(w[j]))

(* Lemma: an empty payload, or no payloads, have no numbers.                *)
LEMMA NoNos ==
  Nos(<< >>) = {} /\ AllNos(<< >>) = {} /\ Rising(<< >>) /\ Ordered(<< >>)
  BY DEF Nos, AllNos, Rising, Ordered

(* Lemma: the numbers of a payload are that of its first packet and those,  *)
(* greater than it, of the rest.                                            *)
LEMMA FirstAndRest ==
  ASSUME NEW q \in Seq(Sound), q # << >>, Rising(q)
  PROVE  /\ Head(q) \in Sound /\ Tail(q) \in Seq(Sound)
         /\ Head(q).no \in Nos(q)
         /\ Nos(q) = {Head(q).no} \cup Nos(Tail(q))
         /\ Rising(Tail(q))
         /\ \A n \in Nos(Tail(q)) : Head(q).no < n
<1> DEFINE left == Tail(q)
           head == Head(q)
<1>1. /\ left \in Seq(Sound) /\ Len(left) = Len(q) - 1
      /\ \A i \in 1 .. Len(left) : left[i] = q[i + 1]
  BY HeadTailProperties
<1>2. /\ Len(q) \in Nat \ {0} /\ DOMAIN q = 1 .. Len(q) /\ DOMAIN left = 1 .. Len(left)
      /\ head = q[1]
  BY <1>1, EmptySeq, LenProperties
<1> HIDE DEF left, head
<1>3. \A i \in 1 .. Len(q) : q[i] \in Sound
  BY ElementOfSeq
<1>4. \A i \in 1 .. Len(q) : q[i].no \in Nat /\ q[i].kind # "Bad"
  BY <1>3 DEF Sound, Kinds
<1>5. \A i \in DOMAIN left : i + 1 \in DOMAIN q /\ left[i] = q[i + 1] /\ 1 < i + 1
  BY <1>1, <1>2
<1>6. \A i \in DOMAIN q : i # 1 => i - 1 \in DOMAIN left /\ left[i - 1] = q[i]
  BY <1>1, <1>2
<1>7. 1 \in DOMAIN q
  BY <1>2
<1>8. \A n \in Nos(left) : head.no < n /\ n \in Nos(q)
  BY <1>2, <1>4, <1>5, <1>7 DEF Nos, Rising
<1>9. head.no \in Nos(q)
  BY <1>2, <1>4, <1>7 DEF Nos
<1>10. \A n \in Nos(q) : n = head.no \/ n \in Nos(left)
  BY <1>2, <1>4, <1>6 DEF Nos
<1>11. Rising(left)
  <2>1. ASSUME NEW i \in DOMAIN left, NEW j \in DOMAIN left, i < j
        PROVE  left[i].no < left[j].no
    <3>1. i + 1 < j + 1
      BY <1>2, <2>1, <1>1
    <3> QED
      BY <1>5, <3>1 DEF Rising
  <2> QED
    BY <2>1 DEF Rising
<1> QED
  BY <1>1, <1>2, <1>3, <1>7, <1>8, <1>9, <1>10, <1>11 DEF left, head

(* Lemma: the same for payloads.                                            *)
LEMMA FirstPayload ==
  ASSUME NEW S, NEW w \in Seq(S), w # << >>, Ordered(w)
  PROVE  /\ Head(w) \in S /\ Tail(w) \in Seq(S)
         /\ AllNos(w) = Nos(Head(w)) \cup AllNos(Tail(w))
         /\ Ordered(Tail(w))
         /\ Below(Nos(Head(w)), AllNos(Tail(w)))
<1> DEFINE left == Tail(w)
           head == Head(w)
<1>1. /\ left \in Seq(S) /\ Len(left) = Len(w) - 1 /\ head \in S
      /\ \A i \in 1 .. Len(left) : left[i] = w[i + 1]
  BY HeadTailProperties
<1>2. /\ Len(w) \in Nat \ {0} /\ DOMAIN w = 1 .. Len(w) /\ DOMAIN left = 1 .. Len(left)
      /\ head = w[1]
  BY <1>1, EmptySeq, LenProperties
<1> HIDE DEF left, head
<1>3. \A i \in DOMAIN left : i + 1 \in DOMAIN w /\ left[i] = w[i + 1] /\ 1 < i + 1
  BY <1>1, <1>2
<1>4. \A i \in DOMAIN w : i # 1 => i - 1 \in DOMAIN left /\ left[i - 1] = w[i]
  BY <1>1, <1>2
<1>5. 1 \in DOMAIN w
  BY <1>2
<1>6. AllNos(w) = Nos(head) \cup AllNos(left)
  <2>1. \A n \in AllNos(w) : n \in Nos(head) \/ n \in AllNos(left)
    BY <1>2, <1>4 DEF AllNos
  <2>2. \A n \in Nos(head) : n \in AllNos(w)
    BY <1>2, <1>5 DEF AllNos, Nos
  <2>3. \A n \in AllNos(left) : n \in AllNos(w)
    BY <1>3 DEF AllNos
  <2> QED
    BY <2>1, <2>2, <2>3
<1>7. Below(Nos(head), AllNos(left))
  BY <1>2, <1>3, <1>5 DEF Below, Ordered, AllNos
<1>8. Ordered(left)
  <2>1. ASSUME NEW i \in DOMAIN left, NEW j \in DOMAIN left, i < j
        PROVE  Below(Nos(left[i]), Nos(left[j]))
    <3>1. i + 1 < j + 1
      BY <1>1, <1>2, <2>1
    <3> QED
      BY <1>3, <3>1 DEF Ordered
  <2> QED
    BY <2>1 DEF Ordered
<1> QED
  BY <1>1, <1>6, <1>7, <1>8 DEF left, head

(* Lemma: a payload behind the others, with greater numbers.                *)
LEMMA LastPayload ==
  ASSUME NEW S, NEW w \in Seq(S), NEW q \in S, Ordered(w), Below(AllNos(w), Nos(q))
  PROVE  /\ Append(w, q) \in Seq(S)
         /\ AllNos(Append(w, q)) = AllNos(w) \cup Nos(q)
         /\ Ordered(Append(w, q))
<1> DEFINE more == Append(w, q)
<1>1. /\ more \in Seq(S) /\ Len(more) = Len(w) + 1
      /\ \A i \in 1 .. Len(w) : more[i] = w[i]
      /\ more[Len(w) + 1] = q
  BY AppendProperties
<1>2. Len(w) \in Nat /\ DOMAIN w = 1 .. Len(w) /\ DOMAIN more = 1 .. Len(more)
  BY <1>1, LenProperties
<1> HIDE DEF more
<1>3. /\ \A i \in DOMAIN w : i \in DOMAIN more /\ more[i] = w[i]
      /\ \A i \in DOMAIN more : i \in DOMAIN w \/ (i = Len(w) + 1 /\ more[i] = q)
      /\ Len(w) + 1 \in DOMAIN more
  BY <1>1, <1>2
<1>4. AllNos(more) = AllNos(w) \cup Nos(q)
  <2>1. \A n \in AllNos(more) : n \in AllNos(w) \/ n \in Nos(q)
    BY <1>3 DEF AllNos
  <2>2. \A n \in Nos(q) : n \in AllNos(more)
    BY <1>1, <1>3 DEF AllNos, Nos
  <2>3. \A n \in AllNos(w) : n \in AllNos(more)
    BY <1>3 DEF AllNos
  <2> QED
    BY <2>1, <2>2, <2>3
<1>5. Ordered(more)
  <2>1. ASSUME NEW i \in DOMAIN more, NEW j \in DOMAIN more, i < j
        PROVE  Below(Nos(more[i]), Nos(more[j]))
    <3>1. i \in DOMAIN w
      BY <1>1, <1>2, <2>1
    <3>2. CASE j \in DOMAIN w
      BY <1>3, <2>1, <3>1, <3>2 DEF Ordered
    <3>3. CASE more[j] = q
      <4>1. \A n \in Nos(w[i]) : n \in AllNos(w)
        BY <3>1 DEF AllNos, Nos
      <4> QED
        BY <1>3, <3>1, <3>3, <4>1 DEF Below
    <3> QED
      BY <1>3, <2>1, <3>2, <3>3
  <2> QED
    BY <2>1 DEF Ordered
<1> QED
  BY <1>1, <1>4, <1>5 DEF more

-----------------------------------------------------------------------------
(* Where packets are: on the wire, left of a payload, fetched by a thread,  *)
(* taken; payloads hold packets with rising numbers, or garbage.            *)
Payloads(n) == {q \in Seq([kind : Kinds \ {"Bad"}, no : 1 .. n]) : Rising(q)}
Garbled == {q \in Seq(Packets) : q # << >> /\ q[1].kind = "Bad" /\ Nos(q) = {}}

Fetched == [c \in Callers |-> IF pc[c] = "store" THEN got[c] ELSE << >>]

PacketInv ==
  /\ sent \in Nat
  /\ wire \in Seq(Payloads(sent) \cup Garbled)
  /\ rest \in Payloads(sent)
  /\ got \in [Callers -> Seq(Packets)]
  /\ \A c \in Callers :
       pc[c] \in {"store", "handle", "pong"} => got[c] \in Payloads(sent) \ {<< >>}
  /\ taken \in Seq(1 .. sent)

(* Lemma: what a payload is when more packets have been sent.               *)
LEMMA PayloadsGrow ==
  ASSUME NEW m \in Nat, NEW n \in Nat, m <= n
  PROVE  Payloads(m) \subseteq Payloads(n)
<1>1. [kind : Kinds \ {"Bad"}, no : 1 .. m] \subseteq [kind : Kinds \ {"Bad"}, no : 1 .. n]
  OBVIOUS
<1> QED
  BY <1>1, SeqMonotonic DEF Payloads

(* Lemma: a payload that decodes holds sound packets, with numbers of what  *)
(* was sent.                                                                *)
LEMMA PayloadIsSound ==
  ASSUME NEW n \in Nat, NEW q \in Payloads(n)
  PROVE  /\ q \in Seq(Sound) /\ q \in Seq(Packets) /\ Rising(q) /\ Nos(q) \subseteq 1 .. n
         /\ q # << >> =>
              /\ Head(q) = q[1] /\ q[1].kind # "Bad" /\ Head(q).no \in 1 .. n
              /\ Tail(q) \in Payloads(n)
<1> DEFINE R == [kind : Kinds \ {"Bad"}, no : 1 .. n]
<1>1. q \in Seq(R) /\ Rising(q)
  BY DEF Payloads
<1>2. R \subseteq Sound /\ R \subseteq Packets
  BY DEF Sound, Packets
<1> HIDE DEF R
<1>3. q \in Seq(Sound) /\ q \in Seq(Packets)
  BY <1>1, <1>2, SeqMonotonic
<1>4. \A i \in DOMAIN q : q[i] \in R
  BY <1>1, ElementOfSeq, LenProperties
<1>5. Nos(q) \subseteq 1 .. n
  BY <1>4 DEF Nos, R
<1>6. ASSUME q # << >>
      PROVE  /\ Head(q) = q[1] /\ q[1].kind # "Bad" /\ Head(q).no \in 1 .. n
             /\ Tail(q) \in Payloads(n)
  <2>1. 1 \in DOMAIN q /\ Head(q) = q[1]
    BY <1>1, <1>6, EmptySeq, LenProperties
  <2>2. Tail(q) \in Seq(R)
    BY <1>1, <1>6, HeadTailProperties
  <2>3. Rising(Tail(q))
    BY <1>1, <1>3, <1>6, FirstAndRest
  <2>4. q[1] \in R
    BY <1>4, <2>1
  <2> QED
    BY <2>1, <2>2, <2>3, <2>4 DEF Payloads, R
<1> QED
  BY <1>1, <1>3, <1>5, <1>6

(* Lemma: garbage has no numbers and is told from what decodes by its first *)
(* packet.                                                                  *)
LEMMA GarbledOrNot ==
  ASSUME NEW n \in Nat, NEW q \in Payloads(n) \cup Garbled
  PROVE  /\ q \in Seq(Packets)
         /\ (q # << >> /\ q[1].kind # "Bad") => q \in Payloads(n)
         /\ (q # << >> /\ q[1].kind = "Bad") => Nos(q) = {}
         /\ q # << >> => Head(q) = q[1]
<1>1. q \in Seq(Packets)
  BY PayloadIsSound DEF Garbled
<1>2. q # << >> => Head(q) = q[1]
  BY <1>1, EmptySeq
<1>3. (q # << >> /\ q[1].kind = "Bad") => q \notin Payloads(n)
  BY PayloadIsSound
<1> QED
  BY <1>1, <1>2, <1>3 DEF Garbled

(* Lemma: what the server sends in one payload.                             *)
LEMMA SentPayload ==
  ASSUME NEW n \in Nat, NEW shape \in Shapes
  PROVE  LET q == [i \in DOMAIN shape |-> [kind |-> shape[i], no |-> n + i]]
             m == n + IF shape = <<"Bad">> THEN 0 ELSE Len(shape)
         IN  /\ m \in Nat /\ n <= m
             /\ q \in Payloads(m) \cup Garbled
             /\ Nos(q) = n + 1 .. m
<1> DEFINE q == [i \in DOMAIN shape |-> [kind |-> shape[i], no |-> n + i]]
           m == n + IF shape = <<"Bad">> THEN 0 ELSE Len(shape)
<1>1. /\ shape \in Seq(Kinds)
      /\ shape # <<"Bad">> => \A i \in DOMAIN shape : shape[i] # "Bad"
  <2>1. CASE shape = << >>
    BY <2>1, EmptySeq
  <2>2. CASE shape = <<"Message">> \/ shape = <<"Bad">>
    <3>1. PICK a \in {"Message", "Bad"} : shape = <<a>>
      BY <2>2
    <3> QED
      BY <3>1 DEF Kinds
  <2>3. CASE \E a, b \in {"Message", "Ping", "Close"} : shape = <<a, b>>
    <3>1. PICK a \in {"Message", "Ping", "Close"}, b \in {"Message", "Ping", "Close"} :
            shape = <<a, b>>
      BY <2>3
    <3> QED
      BY <3>1 DEF Kinds
  <2> QED
    BY <2>1, <2>2, <2>3 DEF Shapes
<1>2. /\ Len(shape) \in Nat /\ DOMAIN shape = 1 .. Len(shape)
      /\ \A i \in DOMAIN shape : shape[i] \in Kinds
  BY <1>1, LenProperties
<1> HIDE DEF q
<1>3. /\ DOMAIN q = 1 .. Len(shape)
      /\ \A i \in DOMAIN q : q[i].kind = shape[i] /\ q[i].no = n + i
  BY <1>2 DEF q
<1>4. Rising(q)
  BY <1>2, <1>3 DEF Rising
<1>5. CASE shape # <<"Bad">>
  <2>1. m = n + Len(shape)
    BY <1>5
  <2> HIDE DEF m
  <2>2. \A i \in DOMAIN shape : [kind |-> shape[i], no |-> n + i] \in [kind : Kinds \ {"Bad"}, no : 1 .. m]
    BY <1>1, <1>2, <1>5, <2>1
  <2>3. q \in [1 .. Len(shape) -> [kind : Kinds \ {"Bad"}, no : 1 .. m]]
    BY <1>2, <2>2 DEF q
  <2>4. q \in Seq([kind : Kinds \ {"Bad"}, no : 1 .. m])
    BY <1>2, <2>3, SeqDef
  <2>5. Nos(q) = n + 1 .. m
    <3>1. \A x \in Nos(q) : x \in n + 1 .. m
      BY <1>2, <1>3, <2>1 DEF Nos
    <3>2. ASSUME NEW x \in n + 1 .. m
          PROVE  x \in Nos(q)
      <4>1. x \in Nat /\ x - n \in DOMAIN q /\ n + (x - n) = x
        BY <1>2, <1>3, <2>1
      <4> QED
        BY <1>1, <1>2, <1>3, <1>5, <4>1 DEF Nos
    <3> QED
      BY <3>1, <3>2
  <2> QED
    BY <1>2, <1>4, <2>1, <2>4, <2>5 DEF q, m, Payloads
<1>6. CASE shape = <<"Bad">>
  <2>1. m = n /\ n + 1 .. n = {}
    BY <1>6
  <2>2. Len(shape) = 1 /\ shape[1] = "Bad"
    BY <1>6
  <2>3. Nos(q) = {}
    BY <1>3, <2>2 DEF Nos
  <2>4. q \in [1 .. 1 -> Packets]
    <3>1. \A i \in 1 .. 1 : [kind |-> shape[i], no |-> n + i] \in Packets
      BY <1>2, <2>2 DEF Packets
    <3> QED
      BY <1>2, <2>2, <3>1 DEF q
  <2>5. q \in Seq(Packets)
    BY <2>4, SeqDef
  <2>6. q # << >> /\ q[1].kind = "Bad"
    BY <1>3, <2>2
  <2>7. q \in Garbled
    BY <2>3, <2>5, <2>6 DEF Garbled
  <2> HIDE DEF m
  <2>8. m \in Nat /\ n <= m /\ n + 1 .. m = {}
    BY <2>1
  <2> QED
    BY <2>3, <2>7, <2>8 DEF q, m
<1> QED
  BY <1>5, <1>6

(* What a step does to the packets, whoever takes it: nothing; a payload    *)
(* arrives; what was on its way is lost; a thread fetches; a packet is      *)
(* taken from what is left, from the wire, or from what a thread fetched.   *)
Still == UNCHANGED <<wire, rest, Fetched, taken, sent>>

Arrives ==
  /\ sent' \in Nat /\ sent <= sent'
  /\ \E q \in Payloads(sent') \cup Garbled :
       wire' = Append(wire, q) /\ Nos(q) = sent + 1 .. sent'
  /\ UNCHANGED <<rest, Fetched, taken>>

Unbroken == alive /\ stream # "closed"

Lost ==
  /\ wire' = << >> /\ ~Unbroken'
  /\ rest' = rest \/ (async /\ rest' = << >>)
  /\ UNCHANGED <<Fetched, taken, sent>>

(* A fetch may have failed with the payload that answered it.               *)
GoesAstray ==
  /\ wire # << >> /\ wire' = Tail(wire) /\ (lossy' \/ wire' = wire)
  /\ UNCHANGED <<rest, Fetched, taken, sent>>

Comes(c) ==
  /\ wire # << >> /\ wire' = Tail(wire) /\ Fetched[c] = << >>
  /\ \E g \in Payloads(sent) :
       Nos(g) = Nos(Head(wire)) /\ Fetched' = [Fetched EXCEPT ![c] = g]
  /\ UNCHANGED <<rest, taken, sent>>

FromRest ==
  /\ rest # << >> /\ rest' = Tail(rest) /\ taken' = Append(taken, Head(rest).no)
  /\ UNCHANGED <<wire, Fetched, sent>>

FromWire ==
  /\ async /\ rest = << >> /\ wire # << >> /\ wire' = Tail(wire)
  /\ Head(wire) \in Payloads(sent) \ {<< >>}
  /\ rest' = Tail(Head(wire)) /\ taken' = Append(taken, Head(Head(wire)).no)
  /\ UNCHANGED <<Fetched, sent>>

FromThread(c) ==
  /\ Fetched[c] # << >> /\ rest' = Tail(Fetched[c])
  /\ taken' = Append(taken, Head(Fetched[c]).no)
  /\ Fetched' = [Fetched EXCEPT ![c] = << >>]
  /\ UNCHANGED <<wire, sent>>

Flow ==
  \/ Still \/ Arrives \/ Lost \/ GoesAstray \/ FromRest \/ FromWire
  \/ \E c \in Callers : Comes(c) \/ FromThread(c)

(* Lemma: what threads fetched stays when nobody starts or ends to store.   *)
LEMMA FetchedStays ==
  ASSUME \A c \in Callers : pc'[c] = "store" <=> pc[c] = "store",
         \A c \in Callers : pc[c] = "store" => got'[c] = got[c]
  PROVE  Fetched' = Fetched
  BY DEF Fetched

LEMMA FetchedMoves ==
  ASSUME PlaceInv, PacketInv, NEW c \in Callers, NEW from, NEW to, Goes(c, from, to),
         from # "store", to # "store",
         \/ got' = got
         \/ \E g : got' = [got EXCEPT ![c] = g]
  PROVE  Fetched' = Fetched
<1>1. /\ pc[c] = from /\ pc'[c] = to
      /\ \A d \in Callers : d # c => pc'[d] = pc[d]
  BY GoesMoves
<1>2. \A d \in Callers : d # c => got'[d] = got[d]
  BY DEF PacketInv
<1> QED
  BY <1>1, <1>2, FetchedStays

(* Lemma: what threads fetched are payloads that decode.                    *)
LEMMA FetchedType ==
  ASSUME PacketInv
  PROVE  /\ Fetched \in [Callers -> Payloads(sent)]
         /\ << >> \in Payloads(sent)
<1>1. << >> \in Payloads(sent)
  BY NoNos, EmptySeq DEF Payloads
<1> QED
  BY <1>1 DEF Fetched, PacketInv

LEMMA FlowStep ==
  ASSUME PlaceInv, PacketInv, [Next]_vars
  PROVE  Flow
<1>1. CASE PeerSends
  <2>1. PICK shape \in Shapes :
          /\ wire' = Append(wire, [i \in DOMAIN shape |-> [kind |-> shape[i], no |-> sent + i]])
          /\ sent' = sent + IF shape = <<"Bad">> THEN 0 ELSE Len(shape)
    BY <1>1 DEF PeerSends
  <2> DEFINE q == [i \in DOMAIN shape |-> [kind |-> shape[i], no |-> sent + i]]
  <2>2. /\ sent' \in Nat /\ sent <= sent'
        /\ q \in Payloads(sent') \cup Garbled
        /\ Nos(q) = sent + 1 .. sent'
    BY <2>1, SentPayload, Zenon DEF PacketInv
  <2>3. wire' = Append(wire, q)
    BY <2>1
  <2>4. UNCHANGED <<got, rest, taken>> /\ Wakes
    BY <1>1 DEF PeerSends
  <2>5. Fetched' = Fetched
    BY <2>4, WokenMoves, FetchedStays
  <2> HIDE DEF q
  <2> QED
    BY <2>2, <2>3, <2>4, <2>5 DEF Flow, Arrives
<1>2. CASE PeerBreaks \/ TimePasses
  <2>1. /\ UNCHANGED <<got, rest, taken, sent>> /\ Wakes
        /\ wire' = wire \/ (wire' = << >> /\ ~alive')
    BY <1>2 DEF PeerBreaks, TimePasses, netVars
  <2>2. Fetched' = Fetched
    BY <2>1, WokenMoves, FetchedStays
  <2> QED
    BY <2>1, <2>2 DEF Flow, Still, Lost, Unbroken
<1>3. CASE Connects \/ Disconnects
  BY <1>3 DEF Connects, Disconnects, netVars, Flow, Still, Fetched
<1>4. CASE Closes
  BY <1>4 DEF Closes, Flow, Lost, Unbroken, Fetched
<1>5. ASSUME NEW c \in Callers, Asks(c) \/ Stirs(c)
      PROVE  Flow
  <2>1. UNCHANGED <<wire, rest, got, taken, sent>>
    BY <1>5 DEF Asks, Stirs, TaskStep, netVars
  <2>2. \E from \in {"out", "ended", "asleep"}, to \in {"poll", "check", "out"} : Goes(c, from, to)
    BY <1>5 DEF Asks, Stirs
  <2>3. Fetched' = Fetched
    BY <2>1, <2>2, FetchedMoves
  <2> QED
    BY <2>1, <2>3 DEF Flow, Still
<1>6. ASSUME NEW c \in Callers, Thread(c)
      PROVE  Flow
  <2>1. CASE Checks(c) \/ Handles(c) \/ SendsPong(c)
    <3>1. UNCHANGED <<wire, rest, got, taken, sent>>
      BY <2>1 DEF Checks, Handles, SendsPong, ThreadStep, netVars
    <3>2. \E from \in {"check", "handle", "pong"},
             to \in {"next", "ended", "out", "pong"} : Goes(c, from, to)
      BY <2>1 DEF Checks, Handles, SendsPong
    <3>3. Fetched' = Fetched
      BY <3>1, <3>2, FetchedMoves
    <3> QED
      BY <3>1, <3>3 DEF Flow, Still
  <2>5. CASE FetchFails(c)
    <3>1. /\ Goes(c, "fetch", "out") /\ UNCHANGED <<rest, got, taken, sent>>
          /\ lossy' = (lossy \/ wire' # wire)
          /\ wire' = wire \/ (wire # << >> /\ wire' = Tail(wire))
      BY <2>5 DEF FetchFails, GivesUp
    <3>2. Fetched' = Fetched
      BY <3>1, FetchedMoves
    <3> QED
      BY <3>1, <3>2 DEF Flow, Still, GoesAstray
  <2>2. CASE TakesRest(c)
    <3>1. UNCHANGED <<wire, sent>>
      BY <2>2 DEF TakesRest, ThreadStep, netVars
    <3>2. CASE rest # << >>
      <4>1. /\ Goes(c, "next", "handle") /\ got' = [got EXCEPT ![c] = <<Head(rest)>>]
            /\ rest' = Tail(rest) /\ taken' = Append(taken, Head(rest).no)
        BY <2>2, <3>2 DEF TakesRest
      <4>2. Fetched' = Fetched
        BY <4>1, FetchedMoves
      <4> QED
        BY <3>1, <3>2, <4>1, <4>2 DEF Flow, FromRest
    <3>3. CASE rest = << >>
      <4>1. Goes(c, "next", "fetch") /\ UNCHANGED <<rest, got, taken>>
        BY <2>2, <3>3 DEF TakesRest
      <4>2. Fetched' = Fetched
        BY <4>1, FetchedMoves
      <4> QED
        BY <3>1, <4>1, <4>2 DEF Flow, Still
    <3> QED
      BY <3>2, <3>3
  <2>3. CASE Fetches(c)
    <3> DEFINE q == Head(wire)
    <3>1. /\ wire # << >> /\ wire' = Tail(wire) /\ UNCHANGED <<rest, taken, sent>>
          /\ got' = [got EXCEPT ![c] = q]
          /\ Goes(c, "fetch", CASE q = << >> -> "check"
                                 [] q # << >> /\ q[1].kind = "Bad" -> "out"
                                 [] OTHER -> "store")
      BY <2>3 DEF Fetches
    <3>2. q \in Payloads(sent) \cup Garbled /\ sent \in Nat
      BY <3>1, HeadTailProperties DEF PacketInv
    <3> HIDE DEF q
    <3>3. /\ pc[c] = "fetch" /\ \A d \in Callers : d # c => pc'[d] = pc[d]
          /\ pc'[c] = CASE q = << >> -> "check"
                         [] q # << >> /\ q[1].kind = "Bad" -> "out"
                         [] OTHER -> "store"
      BY <3>1, GoesMoves
    <3>4. got'[c] = q /\ \A d \in Callers : d # c => got'[d] = got[d]
      BY <3>1 DEF PacketInv
    <3>5. Fetched[c] = << >> /\ Fetched \in [Callers -> Payloads(sent)]
      BY <3>3, FetchedType DEF Fetched
    <3>6. ASSUME NEW g \in Payloads(sent), Nos(g) = Nos(q),
                 IF pc'[c] = "store" THEN g = q ELSE g = << >>
          PROVE  Flow
      <4>1. Fetched'[c] = g /\ \A d \in Callers : d # c => Fetched'[d] = Fetched[d]
        BY <3>3, <3>4, <3>6 DEF Fetched
      <4>2. Fetched' = [Fetched EXCEPT ![c] = g]
        <5>1. DOMAIN Fetched' = Callers /\ DOMAIN Fetched = Callers
          BY DEF Fetched
        <5>2. Fetched' = [d \in Callers |-> Fetched'[d]]
          BY DEF Fetched
        <5> QED
          BY <3>5, <4>1, <5>1, <5>2
      <4> QED
        BY <3>1, <3>5, <3>6, <4>2 DEF Flow, Comes, q
    <3>7. CASE q # << >> /\ q[1].kind # "Bad"
      BY <3>2, <3>3, <3>6, <3>7, GarbledOrNot
    <3>8. CASE q = << >>
      BY <3>3, <3>6, <3>8, FetchedType
    <3>9. CASE q # << >> /\ q[1].kind = "Bad"
      BY <3>2, <3>3, <3>6, <3>9, GarbledOrNot, NoNos, FetchedType
    <3> QED
      BY <3>7, <3>8, <3>9
  <2>4. CASE Stores(c)
    <3>1. /\ Goes(c, "store", "handle") /\ UNCHANGED <<wire, sent>>
          /\ rest' = Tail(got[c]) /\ got' = [got EXCEPT ![c] = <<Head(got[c])>>]
          /\ taken' = Append(taken, Head(got[c]).no)
      BY <2>4 DEF Stores, ThreadStep, netVars
    <3>2. /\ pc[c] = "store" /\ pc'[c] = "handle"
          /\ \A d \in Callers : d # c => pc'[d] = pc[d]
      BY <3>1, GoesMoves
    <3>3. Fetched[c] = got[c] /\ got[c] # << >>
      BY <3>2 DEF Fetched, PacketInv
    <3>4. Fetched'[c] = << >> /\ \A d \in Callers : d # c => Fetched'[d] = Fetched[d]
      BY <3>1, <3>2 DEF Fetched, PacketInv
    <3>5. Fetched' = [Fetched EXCEPT ![c] = << >>]
      <4>1. DOMAIN Fetched' = Callers /\ DOMAIN Fetched = Callers
        BY DEF Fetched
      <4>2. Fetched' = [d \in Callers |-> Fetched'[d]]
        BY DEF Fetched
      <4> QED
        BY <3>4, <4>1, <4>2
    <3> QED
      BY <3>1, <3>3, <3>5 DEF Flow, FromThread
  <2> QED
    BY <1>6, <2>1, <2>2, <2>3, <2>4, <2>5 DEF Thread
<1>7. ASSUME NEW c \in Callers,
             Locks(c) \/ FindsContended(c) \/ YieldsEnd(c) \/ Registers(c) \/ FindsEnd(c)
      PROVE  Flow
  <2>1. UNCHANGED <<wire, rest, got, taken, sent>>
    BY <1>7 DEF Locks, FindsContended, YieldsEnd, Registers, FindsEnd, TaskStep
  <2>2. \E from \in {"poll", "in"}, to \in {"in", "asleep", "out", "ended"} : Goes(c, from, to)
    BY <1>7 DEF Locks, FindsContended, YieldsEnd, Registers, FindsEnd, Unlocks
  <2>3. Fetched' = Fetched
    BY <2>1, <2>2, FetchedMoves
  <2> QED
    BY <2>1, <2>3 DEF Flow, Still
<1>8. ASSUME NEW c \in Callers, YieldsPacket(c)
      PROVE  Flow
  <2> DEFINE payload == IF rest # << >> THEN rest ELSE Head(wire)
  <2>1. /\ UNCHANGED <<got, sent>> /\ Ready
        /\ wire' = IF rest # << >> THEN wire ELSE Tail(wire)
        /\ \/ UNCHANGED <<rest, pc, taken>> /\ payload = << >>
           \/ /\ UNCHANGED <<rest, taken>> /\ Unlocks(c, "out")
              /\ payload # << >> /\ Head(payload).kind = "Bad"
           \/ /\ payload # << >> /\ Head(payload).kind # "Bad" /\ Unlocks(c, "out")
              /\ rest' = Tail(payload) /\ taken' = Append(taken, Head(payload).no)
    BY <1>8 DEF YieldsPacket, TaskStep
  <2>2. Fetched' = Fetched
    <3>1. CASE pc' = pc
      BY <2>1, <3>1 DEF Fetched
    <3>2. CASE Unlocks(c, "out")
      BY <2>1, <3>2, FetchedMoves DEF Unlocks
    <3> QED
      BY <2>1, <3>1, <3>2
  <2>3. CASE rest # << >>
    <3>1. payload = rest /\ rest \in Payloads(sent) /\ sent \in Nat /\ wire' = wire
      BY <2>1, <2>3 DEF PacketInv
    <3>2. Head(rest).kind # "Bad"
      BY <2>3, <3>1, PayloadIsSound
    <3>3. rest' = Tail(rest) /\ taken' = Append(taken, Head(rest).no)
      BY <2>1, <2>3, <3>1, <3>2
    <3> QED
      BY <2>1, <2>2, <2>3, <3>1, <3>3 DEF Flow, FromRest
  <2>4. CASE rest = << >>
    <3> DEFINE q == Head(wire)
    <3>1. payload = q /\ wire # << >> /\ wire' = Tail(wire)
      BY <2>1, <2>4 DEF Ready
    <3>2. q \in Payloads(sent) \cup Garbled /\ sent \in Nat
      BY <3>1, HeadTailProperties DEF PacketInv
    <3> HIDE DEF q
    <3>3. q # << >> => Head(q) = q[1]
      BY <3>2, GarbledOrNot
    <3>4. CASE q # << >> /\ Head(q).kind # "Bad"
      <4>1. q \in Payloads(sent) \ {<< >>}
        BY <3>2, <3>3, <3>4, GarbledOrNot
      <4>2. rest' = Tail(q) /\ taken' = Append(taken, Head(q).no)
        BY <2>1, <3>1, <3>4
      <4>3. async
        BY <1>8, PlacesApart DEF YieldsPacket
      <4> QED
        BY <2>1, <2>2, <2>4, <3>1, <4>1, <4>2, <4>3 DEF Flow, FromWire, q
    <3>5. CASE q = << >> \/ (q # << >> /\ Head(q).kind = "Bad")
      <4>1. UNCHANGED <<rest, taken>>
        BY <2>1, <3>1, <3>5
      <4>2. Nos(q) = {}
        BY <3>2, <3>3, <3>5, GarbledOrNot, NoNos
      <4>3. pc[c] = "in"
        BY <1>8 DEF YieldsPacket
      <4>4. Fetched[c] = << >> /\ Fetched = [Fetched EXCEPT ![c] = << >>]
        BY <4>3 DEF Fetched
      <4> QED
        BY <2>1, <2>2, <3>1, <4>1, <4>2, <4>4, NoNos, FetchedType DEF Flow, Comes, q
    <3> QED
      BY <3>4, <3>5
  <2> QED
    BY <2>3, <2>4
<1>9. CASE UNCHANGED vars
  BY <1>9 DEF vars, Flow, Still, Fetched
<1> QED
  BY <1>1, <1>2, <1>3, <1>4, <1>5, <1>6, <1>7, <1>8, <1>9 DEF Next, Task

(* Lemma: the packets stay sound, whatever happens to them.                 *)
LEMMA FlowType ==
  ASSUME PacketInv, Flow
  PROVE  /\ sent' \in Nat /\ sent <= sent'
         /\ Payloads(sent) \subseteq Payloads(sent')
         /\ wire' \in Seq(Payloads(sent') \cup Garbled)
         /\ rest' \in Payloads(sent')
         /\ Fetched' \in [Callers -> Payloads(sent')]
         /\ taken' \in Seq(1 .. sent')
<1> DEFINE W == Payloads(sent) \cup Garbled
<1>1. /\ sent \in Nat /\ wire \in Seq(W) /\ rest \in Payloads(sent)
      /\ Fetched \in [Callers -> Payloads(sent)] /\ taken \in Seq(1 .. sent)
      /\ << >> \in Payloads(sent)
  BY FetchedType DEF PacketInv
<1>2. wire # << >> => Head(wire) \in W /\ Tail(wire) \in Seq(W)
  BY <1>1, HeadTailProperties
<1>3. \A q \in Payloads(sent) : q # << >> =>
        Tail(q) \in Payloads(sent) /\ Append(taken, Head(q).no) \in Seq(1 .. sent)
  BY <1>1, PayloadIsSound, AppendProperties
<1>4. << >> \in Seq(W)
  BY EmptySeq
<1> HIDE DEF W
<1>5. CASE Arrives
  <2>1. /\ sent' \in Nat /\ sent <= sent' /\ UNCHANGED <<rest, Fetched, taken>>
        /\ \E q \in Payloads(sent') \cup Garbled : wire' = Append(wire, q)
    BY <1>5 DEF Arrives
  <2>2. Payloads(sent) \subseteq Payloads(sent')
    BY <1>1, <2>1, PayloadsGrow
  <2>3. wire \in Seq(Payloads(sent') \cup Garbled)
    BY <1>1, <2>2, SeqMonotonic DEF W
  <2>4. wire' \in Seq(Payloads(sent') \cup Garbled)
    BY <2>1, <2>3, AppendProperties
  <2>5. taken \in Seq(1 .. sent')
    <3>1. 1 .. sent \subseteq 1 .. sent'
      BY <1>1, <2>1
    <3> QED
      BY <1>1, <3>1, SeqMonotonic
  <2> QED
    BY <1>1, <2>1, <2>2, <2>4, <2>5
<1>6. CASE sent' = sent /\ ~Arrives
  <2>1. wire' \in Seq(W)
    BY <1>1, <1>2, <1>4, <1>6 DEF Flow, Still, Lost, GoesAstray, Comes, FromRest, FromWire, FromThread
  <2>2. rest' \in Payloads(sent)
    BY <1>1, <1>2, <1>3, <1>6 DEF Flow, Still, Lost, GoesAstray, Comes, FromRest, FromWire, FromThread
  <2>3. Fetched' \in [Callers -> Payloads(sent)]
    BY <1>1, <1>6 DEF Flow, Still, Lost, GoesAstray, Comes, FromRest, FromWire, FromThread
  <2>4. taken' \in Seq(1 .. sent)
    BY <1>1, <1>2, <1>3, <1>6 DEF Flow, Still, Lost, GoesAstray, Comes, FromRest, FromWire, FromThread
  <2> QED
    BY <1>1, <1>6, <2>1, <2>2, <2>3, <2>4 DEF W
<1>7. sent' = sent \/ Arrives
  BY DEF Flow, Still, Lost, GoesAstray, Comes, FromRest, FromWire, FromThread
<1> QED
  BY <1>5, <1>6, <1>7

LEMMA PacketInit ==
  Init => PacketInv
<1>1. << >> \in Payloads(0)
  BY NoNos, EmptySeq DEF Payloads
<1> QED
  BY <1>1, EmptySeq DEF Init, PacketInv

LEMMA PacketStep ==
  ASSUME PlaceInv, PacketInv, [Next]_vars
  PROVE  PacketInv'
<1>1. /\ sent' \in Nat /\ sent <= sent' /\ sent \in Nat
      /\ Payloads(sent) \subseteq Payloads(sent')
      /\ wire' \in Seq(Payloads(sent') \cup Garbled)
      /\ rest' \in Payloads(sent')
      /\ taken' \in Seq(1 .. sent')
  BY FlowStep, FlowType DEF PacketInv
<1> DEFINE Full == {"store", "handle", "pong"}
<1>2. ASSUME got' = got, \A c \in Callers : pc'[c] \in Full => pc[c] \in Full
      PROVE  PacketInv'
  BY <1>1, <1>2 DEF PacketInv
<1>3. ASSUME NEW c \in Callers, NEW from, NEW to, Goes(c, from, to), NEW g \in Seq(Packets),
             to \in Full => g \in Payloads(sent) \ {<< >>}, got' = [got EXCEPT ![c] = g]
      PROVE  PacketInv'
  <2>1. pc'[c] = to /\ \A d \in Callers : d # c => pc'[d] = pc[d]
    BY <1>3, GoesMoves
  <2>2. got'[c] = g /\ \A d \in Callers : d # c => got'[d] = got[d]
    BY <1>3 DEF PacketInv
  <2>3. got' \in [Callers -> Seq(Packets)]
    BY <1>3 DEF PacketInv
  <2>4. ASSUME NEW d \in Callers, pc'[d] \in Full
        PROVE  got'[d] \in Payloads(sent) \ {<< >>}
    <3>1. CASE d = c
      BY <1>3, <2>1, <2>2, <2>4, <3>1
    <3>2. CASE d # c
      BY <2>1, <2>2, <2>4, <3>2 DEF PacketInv
    <3> QED
      BY <3>1, <3>2
  <2> QED
    BY <1>1, <2>3, <2>4 DEF PacketInv
<1>4. \A q \in Payloads(sent) \ {<< >>} :
        <<Head(q)>> \in Payloads(sent) \ {<< >>} /\ <<Head(q)>> \in Seq(Packets)
  <2>1. ASSUME NEW q \in Payloads(sent), q # << >>
        PROVE  <<Head(q)>> \in Payloads(sent) /\ <<Head(q)>> # << >>
    <3> DEFINE R == [kind : Kinds \ {"Bad"}, no : 1 .. sent]
    <3>1. q \in Seq(R)
      BY DEF Payloads
    <3> HIDE DEF R
    <3>2. Head(q) \in R
      BY <2>1, <3>1, HeadTailProperties
    <3> DEFINE h == Head(q)
    <3> HIDE DEF h
    <3>3. ASSUME h \in R
          PROVE  <<h>> \in Seq(R) /\ Rising(<<h>>) /\ <<h>> # << >>
      BY <3>3 DEF Rising
    <3> QED
      BY <3>2, <3>3 DEF h, R, Payloads
  <2> QED
    BY <1>1, <2>1, PayloadIsSound
<1> HIDE DEF Full
<1>5. CASE PeerSends \/ PeerBreaks \/ TimePasses
  <2>1. got' = got /\ Wakes
    BY <1>5 DEF PeerSends, PeerBreaks, TimePasses
  <2> QED
    BY <1>2, <2>1, WokenMoves DEF Full
<1>6. CASE Connects \/ Disconnects \/ Closes
  BY <1>2, <1>6 DEF Connects, Disconnects, Closes, Full
<1>7. ASSUME NEW c \in Callers, Asks(c) \/ Stirs(c)
      PROVE  PacketInv'
  <2>1. \E from \in {"out", "ended", "asleep"}, to \in {"poll", "check", "out"} : Goes(c, from, to)
    BY <1>7 DEF Asks, Stirs
  <2>2. got' = got
    BY <1>7 DEF Asks, Stirs, TaskStep
  <2>3. \A d \in Callers : pc'[d] \in Full => pc[d] \in Full
    BY <2>1, GoesMoves DEF Full
  <2> QED
    BY <1>2, <2>2, <2>3 DEF Full
<1>8. ASSUME NEW c \in Callers, Thread(c)
      PROVE  PacketInv'
  <2>1. CASE Checks(c) \/ FetchFails(c) \/ Handles(c) \/ SendsPong(c)
    <3>1. got' = got
      BY <2>1 DEF Checks, FetchFails, GivesUp, Handles, SendsPong
    <3>2. \E from \in {"check", "fetch", "handle", "pong"},
             to \in {"next", "ended", "out", "pong"} :
            Goes(c, from, to) /\ (to = "pong" => from = "handle")
      BY <2>1 DEF Checks, FetchFails, GivesUp, Handles, SendsPong
    <3>3. \A d \in Callers : pc'[d] \in Full => pc[d] \in Full
      BY <3>2, GoesMoves DEF Full
    <3> QED
      BY <1>2, <3>1, <3>3 DEF Full
  <2>2. CASE TakesRest(c)
    <3>1. CASE rest # << >>
      <4>1. Goes(c, "next", "handle") /\ got' = [got EXCEPT ![c] = <<Head(rest)>>]
        BY <2>2, <3>1 DEF TakesRest
      <4>2. <<Head(rest)>> \in Payloads(sent) \ {<< >>} /\ <<Head(rest)>> \in Seq(Packets)
        BY <1>4, <3>1 DEF PacketInv
      <4> QED
        BY <1>3, <4>1, <4>2 DEF Full
    <3>2. CASE rest = << >>
      <4>1. Goes(c, "next", "fetch") /\ got' = got
        BY <2>2, <3>2 DEF TakesRest
      <4>2. \A d \in Callers : pc'[d] \in Full => pc[d] \in Full
        BY <4>1, GoesMoves DEF Full
      <4> QED
        BY <1>2, <4>1, <4>2 DEF Full
    <3> QED
      BY <3>1, <3>2
  <2>3. CASE Fetches(c)
    <3> DEFINE q == Head(wire)
               to == CASE q = << >> -> "check"
                       [] q # << >> /\ q[1].kind = "Bad" -> "out"
                       [] OTHER -> "store"
    <3>1. /\ wire # << >> /\ got' = [got EXCEPT ![c] = q] /\ Goes(c, "fetch", to)
      BY <2>3 DEF Fetches
    <3>2. q \in Payloads(sent) \cup Garbled
      BY <3>1, HeadTailProperties DEF PacketInv
    <3> HIDE DEF q
    <3>3. q \in Seq(Packets)
      BY <1>1, <3>2, GarbledOrNot
    <3>4. to \in Full => q # << >> /\ q[1].kind # "Bad"
      BY DEF Full
    <3>5. to \in Full => q \in Payloads(sent) \ {<< >>}
      BY <1>1, <3>2, <3>4, GarbledOrNot
    <3> HIDE DEF to
    <3> QED
      BY <1>3, <3>1, <3>3, <3>5 DEF Full
  <2>4. CASE Stores(c)
    <3>1. Goes(c, "store", "handle") /\ got' = [got EXCEPT ![c] = <<Head(got[c])>>]
      BY <2>4 DEF Stores
    <3>2. got[c] \in Payloads(sent) \ {<< >>}
      BY <3>1 DEF Goes, PacketInv
    <3> QED
      BY <1>3, <1>4, <3>1, <3>2 DEF Full
  <2> QED
    BY <1>8, <2>1, <2>2, <2>3, <2>4 DEF Thread
<1>9. ASSUME NEW c \in Callers, Task(c)
      PROVE  PacketInv'
  <2>1. got' = got
    BY <1>9 DEF Task, Locks, FindsContended, YieldsPacket, YieldsEnd, Registers, FindsEnd,
                TaskStep
  <2>2. \/ pc' = pc
        \/ \E from \in {"poll", "in"}, to \in {"in", "asleep", "out", "ended"} : Goes(c, from, to)
    BY <1>9 DEF Task, Locks, FindsContended, YieldsPacket, YieldsEnd, Registers, FindsEnd,
                Unlocks
  <2>3. \A d \in Callers : pc'[d] \in Full => pc[d] \in Full
    BY <2>2, GoesMoves DEF Full
  <2> QED
    BY <1>2, <2>1, <2>3 DEF Full
<1>10. CASE UNCHANGED vars
  BY <1>2, <1>10 DEF vars, Full
<1> QED
  BY <1>5, <1>6, <1>7, <1>8, <1>9, <1>10 DEF Next

-----------------------------------------------------------------------------
(* The numbers of the packets in each place. A number is in one place, at   *)
(* most once, and those still on the wire are above all the others.         *)
InRest == Nos(rest)
InHand == [c \in Callers |-> Nos(Fetched[c])]
InWire == AllNos(wire)
Taken == ToSet(taken)

NumberInv ==
  /\ Ordered(wire) /\ IsInjective(taken)
  /\ InRest \cup InWire \cup Taken \subseteq 1 .. sent
  /\ Below(InRest, InWire) /\ Below(Taken, InWire)
  /\ Taken \cap InRest = {}
  /\ \A c \in Callers :
       /\ InHand[c] \subseteq 1 .. sent /\ Below(InHand[c], InWire)
       /\ InHand[c] \cap InRest = {} /\ InHand[c] \cap Taken = {}
       /\ \A d \in Callers : c # d => InHand[c] \cap InHand[d] = {}

(* Lemma: a number appended to the history of numbers.                      *)
LEMMA AppendedNumber ==
  ASSUME NEW S, NEW s \in Seq(S), NEW n \in S
  PROVE  /\ ToSet(Append(s, n)) = ToSet(s) \cup {n}
         /\ (IsInjective(s) /\ n \notin ToSet(s)) => IsInjective(Append(s, n))
<1> DEFINE more == Append(s, n)
<1>1. /\ more \in Seq(S) /\ Len(more) = Len(s) + 1
      /\ \A i \in 1 .. Len(s) : more[i] = s[i]
      /\ more[Len(s) + 1] = n
  BY AppendProperties
<1>2. Len(s) \in Nat /\ DOMAIN s = 1 .. Len(s) /\ DOMAIN more = 1 .. Len(s) + 1
  BY <1>1, LenProperties
<1> HIDE DEF more
<1>3. /\ \A i \in DOMAIN s : i \in DOMAIN more /\ more[i] = s[i]
      /\ \A i \in DOMAIN more : i \in DOMAIN s \/ i = Len(s) + 1
      /\ Len(s) + 1 \in DOMAIN more
  BY <1>1, <1>2
<1>4. \A i \in DOMAIN s : s[i] \in ToSet(s)
  BY DEF ToSet
<1>5. ToSet(more) = ToSet(s) \cup {n}
  BY <1>1, <1>3 DEF ToSet
<1>6. ASSUME IsInjective(s), n \notin ToSet(s)
      PROVE  IsInjective(more)
  BY <1>1, <1>3, <1>4, <1>6 DEF IsInjective
<1> QED
  BY <1>5, <1>6, Zenon DEF more

(* Lemma: the first packet of a payload is handed out, what is left is kept *)
(* apart.                                                                   *)
LEMMA HandedOut ==
  ASSUME PacketInv, NEW q \in Payloads(sent), q # << >>,
         taken' = Append(taken, Head(q).no)
  PROVE  LET n == Head(q).no IN
         /\ Nos(q) = {n} \cup Nos(Tail(q)) /\ n \in Nat /\ n \notin Nos(Tail(q))
         /\ Nos(q) \subseteq 1 .. sent
         /\ Taken' = Taken \cup {n}
         /\ (IsInjective(taken) /\ n \notin Taken) => IsInjective(taken')
<1> DEFINE n == Head(q).no
           left == Tail(q)
<1>1. q \in Seq(Sound) /\ Rising(q) /\ n \in 1 .. sent /\ Nos(q) \subseteq 1 .. sent
  BY PayloadIsSound DEF PacketInv
<1>2. Nos(q) = {n} \cup Nos(left) /\ \A m \in Nos(left) : n < m
  BY <1>1, FirstAndRest
<1> HIDE DEF n, left
<1>3. /\ Taken' = Taken \cup {n}
      /\ (IsInjective(taken) /\ n \notin Taken) => IsInjective(taken')
  <2>1. taken' = Append(taken, n) /\ taken \in Seq(1 .. sent)
    BY DEF n, PacketInv
  <2>2. /\ ToSet(Append(taken, n)) = ToSet(taken) \cup {n}
        /\ (IsInjective(taken) /\ n \notin ToSet(taken)) => IsInjective(Append(taken, n))
    <3> DEFINE S == 1 .. sent
    <3>1. taken \in Seq(S) /\ n \in S
      BY <1>1, <2>1
    <3> HIDE DEF S
    <3> QED
      BY <3>1, AppendedNumber, Zenon
  <2> QED
    BY <2>1, <2>2, Zenon DEF Taken
<1>4. n \in Nat /\ n \notin Nos(left)
  BY <1>1, <1>2 DEF PacketInv
<1> QED
  BY <1>1, <1>2, <1>3, <1>4 DEF n, left

LEMMA NumberInit ==
  Init => NumberInv
<1> SUFFICES ASSUME Init
             PROVE  NumberInv
  OBVIOUS
<1>1. InRest = {} /\ InWire = {} /\ Ordered(wire)
  BY NoNos DEF Init, InRest, InWire
<1>2. Taken = {} /\ IsInjective(taken)
  BY DEF Init, Taken, ToSet, IsInjective
<1>3. \A c \in Callers : InHand[c] = {}
  BY NoNos DEF Init, InHand, Fetched
<1> QED
  BY <1>1, <1>2, <1>3 DEF NumberInv, Below

LEMMA NumberStep ==
  ASSUME PacketInv, PacketInv', NumberInv, Flow
  PROVE  NumberInv'
<1>1. /\ Ordered(wire) /\ IsInjective(taken)
      /\ InRest \cup InWire \cup Taken \subseteq 1 .. sent
      /\ Below(InRest, InWire) /\ Below(Taken, InWire)
      /\ Taken \cap InRest = {}
      /\ \A c \in Callers :
           /\ InHand[c] \subseteq 1 .. sent /\ Below(InHand[c], InWire)
           /\ InHand[c] \cap InRest = {} /\ InHand[c] \cap Taken = {}
           /\ \A d \in Callers : c # d => InHand[c] \cap InHand[d] = {}
      /\ sent \in Nat
  BY DEF NumberInv, PacketInv
<1>2. Fetched' = Fetched => InHand' = InHand
  BY DEF InHand
<1>3. rest' = rest => InRest' = InRest
  BY DEF InRest
<1>4. wire' = wire => InWire' = InWire /\ Ordered(wire')
  BY <1>1 DEF InWire
<1>5. taken' = taken => Taken' = Taken /\ IsInjective(taken')
  BY <1>1 DEF Taken
<1>6. (wire # << >> /\ wire' = Tail(wire)) =>
        /\ InWire = Nos(Head(wire)) \cup InWire'
        /\ Ordered(wire') /\ Below(Nos(Head(wire)), InWire')
  BY <1>1, FirstPayload DEF PacketInv, InWire
<1>7. wire' = << >> => InWire' = {} /\ Ordered(wire')
  BY NoNos DEF InWire
<1>8. CASE Still
  BY <1>1, <1>2, <1>3, <1>4, <1>5, <1>8 DEF Still, NumberInv
<1>9. CASE Arrives
  <2>1. PICK q \in Payloads(sent') \cup Garbled :
          wire' = Append(wire, q) /\ Nos(q) = sent + 1 .. sent'
    BY <1>9 DEF Arrives
  <2>2. sent' \in Nat /\ sent <= sent' /\ UNCHANGED <<rest, Fetched, taken>>
    BY <1>9 DEF Arrives
  <2>3. Below(AllNos(wire), Nos(q))
    BY <1>1, <2>1, <2>2 DEF Below, InWire
  <2>4. wire \in Seq(Payloads(sent') \cup Garbled)
    <3>1. Payloads(sent) \subseteq Payloads(sent')
      BY <1>1, <2>2, PayloadsGrow
    <3> QED
      BY <3>1, SeqMonotonic DEF PacketInv
  <2>5. InWire' = InWire \cup (sent + 1 .. sent') /\ Ordered(wire')
    <3> DEFINE W == Payloads(sent') \cup Garbled
    <3>1. wire \in Seq(W) /\ q \in W
      BY <2>1, <2>4
    <3> HIDE DEF W
    <3>2. AllNos(Append(wire, q)) = AllNos(wire) \cup Nos(q) /\ Ordered(Append(wire, q))
      BY <1>1, <2>3, <3>1, LastPayload
    <3> QED
      BY <2>1, <3>2, Zenon DEF InWire
  <2>6. \A A : A \subseteq 1 .. sent =>
          A \subseteq 1 .. sent' /\ (Below(A, InWire) => Below(A, InWire'))
    BY <1>1, <2>2, <2>5 DEF Below
  <2>7. InWire' \subseteq 1 .. sent'
    BY <1>1, <2>2, <2>5
  <2> QED
    BY <1>1, <1>2, <1>3, <1>5, <2>2, <2>5, <2>6, <2>7 DEF NumberInv
<1>10. CASE Lost
  <2>1. InWire' = {} /\ Ordered(wire')
    BY <1>7, <1>10 DEF Lost
  <2>2. InRest' = InRest \/ InRest' = {}
    BY <1>3, <1>10, NoNos DEF Lost, InRest
  <2>3. UNCHANGED <<InHand, sent>> /\ Taken' = Taken /\ IsInjective(taken')
    BY <1>2, <1>5, <1>10 DEF Lost
  <2>4. \A A : Below(A, InWire')
    BY <2>1 DEF Below
  <2> QED
    BY <1>1, <2>1, <2>2, <2>3, <2>4 DEF NumberInv
<1>11. ASSUME NEW c \in Callers, Comes(c)
       PROVE  NumberInv'
  <2>1. PICK g \in Payloads(sent) :
          Nos(g) = Nos(Head(wire)) /\ Fetched' = [Fetched EXCEPT ![c] = g]
    BY <1>11 DEF Comes
  <2>2. /\ wire # << >> /\ wire' = Tail(wire) /\ UNCHANGED <<rest, taken, sent>>
    BY <1>11 DEF Comes
  <2> DEFINE A == Nos(Head(wire))
  <2>3. /\ InWire = A \cup InWire' /\ Ordered(wire') /\ Below(A, InWire')
    BY <1>6, <2>2
  <2>4. InHand'[c] = A /\ \A d \in Callers : d # c => InHand'[d] = InHand[d]
    BY <2>1, FetchedType DEF InHand
  <2> HIDE DEF A
  <2>5. /\ \A B : Below(B, InWire) => Below(B, InWire') /\ Below(B, A)
        /\ \A B : (B \subseteq 1 .. sent /\ Below(B, A)) => A \cap B = {}
    BY <1>1, <2>3 DEF Below
  <2>6. A \subseteq 1 .. sent
    BY <1>1, <2>3
  <2>7. A \cap InRest = {} /\ A \cap Taken = {} /\ \A d \in Callers : A \cap InHand[d] = {}
    BY <1>1, <2>5
  <2>8. InRest' = InRest /\ Taken' = Taken /\ IsInjective(taken')
    BY <1>3, <1>5, <2>2
  <2>9. /\ Ordered(wire') /\ IsInjective(taken')
        /\ InRest' \cup InWire' \cup Taken' \subseteq 1 .. sent'
        /\ Below(InRest', InWire') /\ Below(Taken', InWire')
        /\ Taken' \cap InRest' = {}
    BY <1>1, <2>2, <2>3, <2>5, <2>8
  <2>10. ASSUME NEW d \in Callers
         PROVE  /\ InHand'[d] \subseteq 1 .. sent' /\ Below(InHand'[d], InWire')
                /\ InHand'[d] \cap InRest' = {} /\ InHand'[d] \cap Taken' = {}
                /\ \A e \in Callers : d # e => InHand'[d] \cap InHand'[e] = {}
    <3>1. CASE d = c
      BY <1>1, <2>2, <2>3, <2>4, <2>6, <2>7, <2>8, <3>1
    <3>2. CASE d # c
      <4>1. InHand'[d] = InHand[d]
        BY <2>4, <3>2
      <4>2. ASSUME NEW e \in Callers, d # e
            PROVE  InHand'[d] \cap InHand'[e] = {}
        BY <1>1, <2>4, <2>7, <4>1, <4>2
      <4> QED
        BY <1>1, <2>2, <2>5, <2>8, <4>1, <4>2
    <3> QED
      BY <3>1, <3>2
  <2> QED
    BY <2>9, <2>10 DEF NumberInv
<1>12. CASE FromRest
  <2> DEFINE n == Head(rest).no
  <2>1. /\ rest # << >> /\ rest' = Tail(rest) /\ taken' = Append(taken, n)
        /\ UNCHANGED <<wire, Fetched, sent>> /\ rest \in Payloads(sent)
    BY <1>12 DEF FromRest, PacketInv
  <2>2. /\ InRest = {n} \cup InRest' /\ n \notin InRest' /\ Taken' = Taken \cup {n}
        /\ (IsInjective(taken) /\ n \notin Taken) => IsInjective(taken')
    BY <2>1, HandedOut DEF InRest
  <2>3. InHand' = InHand /\ InWire' = InWire /\ Ordered(wire') /\ sent' = sent
    BY <1>2, <1>4, <2>1
  <2> HIDE DEF n
  <2> QED
    BY <1>1, <2>2, <2>3 DEF NumberInv, Below
<1>13. CASE FromWire
  <2> DEFINE q == Head(wire)
             n == Head(q).no
  <2>1. /\ rest = << >> /\ rest' = Tail(q) /\ taken' = Append(taken, n)
        /\ wire # << >> /\ wire' = Tail(wire)
        /\ UNCHANGED <<Fetched, sent>> /\ q \in Payloads(sent) /\ q # << >>
    BY <1>13 DEF FromWire
  <2>2. InWire = Nos(q) \cup InWire' /\ Ordered(wire') /\ Below(Nos(q), InWire')
    BY <1>6, <2>1
  <2> HIDE DEF q
  <2>3. /\ Nos(q) = {n} \cup InRest' /\ n \notin InRest' /\ Taken' = Taken \cup {n}
        /\ (IsInjective(taken) /\ n \notin Taken) => IsInjective(taken')
    BY <2>1, HandedOut DEF InRest
  <2>4. InHand' = InHand /\ sent' = sent
    BY <1>2, <2>1
  <2> HIDE DEF n
  <2>5. n \notin Taken /\ \A c \in Callers : n \notin InHand[c]
    BY <1>1, <2>2, <2>3 DEF Below
  <2>6. /\ Taken \cap InRest' = {} /\ \A c \in Callers : InHand[c] \cap InRest' = {}
    BY <1>1, <2>2, <2>3 DEF Below
  <2>7. /\ Below(InRest', InWire') /\ Below(Taken', InWire')
        /\ \A c \in Callers : Below(InHand[c], InWire')
    BY <1>1, <2>2, <2>3 DEF Below
  <2> QED
    BY <1>1, <2>2, <2>3, <2>4, <2>5, <2>6, <2>7 DEF NumberInv
<1>14. ASSUME NEW c \in Callers, FromThread(c)
       PROVE  NumberInv'
  <2> DEFINE q == Fetched[c]
             n == Head(q).no
  <2>1. /\ rest' = Tail(q) /\ taken' = Append(taken, n) /\ UNCHANGED <<wire, sent>>
        /\ q \in Payloads(sent) /\ q # << >>
        /\ Fetched' = [Fetched EXCEPT ![c] = << >>]
    BY <1>14, FetchedType DEF FromThread
  <2>2. InHand[c] = Nos(q)
    BY DEF InHand
  <2>3. InHand'[c] = {} /\ \A d \in Callers : d # c => InHand'[d] = InHand[d]
    BY <2>1, FetchedType, NoNos DEF InHand
  <2> HIDE DEF q
  <2>4. /\ InHand[c] = {n} \cup InRest' /\ n \notin InRest' /\ Taken' = Taken \cup {n}
        /\ (IsInjective(taken) /\ n \notin Taken) => IsInjective(taken')
    BY <2>1, <2>2, HandedOut DEF InRest
  <2>5. InWire' = InWire /\ Ordered(wire') /\ sent' = sent
    BY <1>4, <2>1
  <2> HIDE DEF n
  <2>6. n \notin Taken /\ \A d \in Callers : d # c => n \notin InHand[d]
    BY <1>1, <2>4
  <2>7. /\ Below(InRest', InWire') /\ Below(Taken', InWire')
        /\ InRest' \cup Taken' \subseteq 1 .. sent /\ Taken' \cap InRest' = {}
    BY <1>1, <2>4, <2>5 DEF Below
  <2>8. ASSUME NEW d \in Callers
        PROVE  /\ InHand'[d] \subseteq 1 .. sent' /\ Below(InHand'[d], InWire')
               /\ InHand'[d] \cap InRest' = {} /\ InHand'[d] \cap Taken' = {}
               /\ \A e \in Callers : d # e => InHand'[d] \cap InHand'[e] = {}
    <3>1. CASE d = c
      BY <2>3, <3>1 DEF Below
    <3>2. CASE d # c
      <4>1. InHand'[d] = InHand[d] /\ InHand[d] \cap InHand[c] = {}
        BY <1>1, <2>3, <3>2
      <4>2. ASSUME NEW e \in Callers, d # e
            PROVE  InHand'[d] \cap InHand'[e] = {}
        BY <1>1, <2>3, <4>1, <4>2
      <4> QED
        BY <1>1, <2>4, <2>5, <4>1, <4>2
    <3> QED
      BY <3>1, <3>2
  <2> QED
    BY <1>1, <2>4, <2>5, <2>6, <2>7, <2>8 DEF NumberInv
<1>15. CASE GoesAstray
  <2>1. /\ wire # << >> /\ wire' = Tail(wire)
        /\ UNCHANGED <<rest, Fetched, taken, sent>>
    BY <1>15 DEF GoesAstray
  <2>2. InWire' \subseteq InWire /\ Ordered(wire')
    BY <1>6, <2>1
  <2>3. \A A : Below(A, InWire) => Below(A, InWire')
    BY <2>2 DEF Below
  <2>4. InHand' = InHand /\ InRest' = InRest /\ Taken' = Taken /\ IsInjective(taken')
    BY <1>2, <1>3, <1>5, <2>1
  <2> QED
    BY <1>1, <2>1, <2>2, <2>3, <2>4 DEF NumberInv
<1> QED
  BY <1>8, <1>9, <1>10, <1>11, <1>12, <1>13, <1>14, <1>15 DEF Flow

-----------------------------------------------------------------------------
(* While no two threads fetched at the same time: one thread at most is     *)
(* about to store a payload, and nothing is left of another; packets were   *)
(* taken in the order of their numbers; and nothing is missing below what   *)
(* is somewhere, or at all while nothing was lost with the connection.      *)
Busy(c) == pc[c] \in {"fetch", "store"}

BusyInv ==
  ~lossy => \A c \in Callers : Busy(c) =>
                 rest = << >> /\ \A d \in Callers : Busy(d) => c = d

Known ==
  {n \in Nat : n \in InRest \/ n \in InWire \/ n \in Taken \/ \E c \in Callers : n \in InHand[c]}

CoverInv ==
  ~lossy =>
    /\ \A i \in DOMAIN taken : taken[i] = i
    /\ \A n \in Known, m \in 1 .. sent : m < n => m \in Known
    /\ Unbroken => 1 .. sent \subseteq Known

OpenInv == stream = "closed" => ~connected

(* The marks that are read and written as they are.                         *)
MarkInv ==
  /\ connected \in BOOLEAN /\ alive \in BOOLEAN /\ overdue \in BOOLEAN
  /\ polling \in BOOLEAN /\ armed \in BOOLEAN
  /\ lossy \in BOOLEAN /\ early \subseteq Callers
  /\ connects \in 0 .. MaxConnects /\ payloads \in 0 .. MaxPayloads

LEMMA MarkInit ==
  Init => MarkInv
<1>1. MaxConnects \in 0 .. MaxConnects /\ 0 \in 0 .. MaxPayloads
  BY PollersAssumption
<1> QED
  BY <1>1 DEF Init, MarkInv

LEMMA MarkStep ==
  ASSUME MarkInv, [Next]_vars
  PROVE  MarkInv'
<1>1. CASE PeerSends
  BY <1>1, PollersAssumption DEF PeerSends, MarkInv, heartVars
<1>2. CASE PeerBreaks \/ TimePasses
  BY <1>2 DEF PeerBreaks, TimePasses, MarkInv, heartVars, netVars
<1>3. CASE Connects
  <2>1. /\ connects > 0 /\ connects' = connects - 1
        /\ connected' = TRUE /\ overdue' \in BOOLEAN
        /\ UNCHANGED <<alive, polling, armed, lossy, payloads>>
        /\ early' = early \/ early' = {c \in Callers : pc[c] = "fetch"}
    BY <1>3 DEF Connects, netVars
  <2>2. connects' \in 0 .. MaxConnects
    BY <2>1, PollersAssumption DEF MarkInv
  <2> QED
    BY <2>1, <2>2 DEF MarkInv
<1>4. CASE Disconnects \/ Closes
  BY <1>4 DEF Disconnects, Closes, MarkInv, heartVars, netVars
<1>5. ASSUME NEW c \in Callers, Asks(c) \/ Stirs(c)
      PROVE  MarkInv'
  BY <1>5 DEF Asks, Stirs, TaskStep, MarkInv, heartVars, netVars
<1>6. ASSUME NEW c \in Callers, Thread(c)
      PROVE  MarkInv'
  <2>1. CASE Checks(c) \/ Stores(c) \/ SendsPong(c)
    BY <2>1 DEF Checks, Stores, SendsPong, ThreadStep, MarkInv, heartVars, netVars
  <2>5. CASE FetchFails(c)
    <3>1. /\ UNCHANGED <<polling, connected, alive, heartVars, connects, payloads>>
          /\ lossy' \in BOOLEAN
      BY <2>5 DEF FetchFails, GivesUp, MarkInv
    <3> QED
      BY <3>1 DEF MarkInv, heartVars
  <2>2. CASE Fetches(c)
    BY <2>2 DEF Fetches, MarkInv, heartVars
  <2>3. CASE TakesRest(c)
    <3>1. /\ UNCHANGED <<polling, armed, connected, alive, overdue, connects, payloads>>
          /\ early' = early \/ early' = early \ {c}
          /\ \/ lossy' = lossy
             \/ lossy' = (lossy \/ \E d \in Callers : pc[d] \in {"fetch", "store"})
      BY <2>3 DEF TakesRest, ThreadStep, netVars
    <3>2. lossy' \in BOOLEAN
      BY <3>1 DEF MarkInv
    <3> QED
      BY <3>1, <3>2 DEF MarkInv
  <2>4. CASE Handles(c)
    <3>1. /\ UNCHANGED <<polling, armed, alive, lossy, connects, payloads>>
          /\ overdue' = FALSE \/ overdue' = overdue
          /\ early' = early \/ early' = {d \in Callers : pc[d] = "fetch"}
          /\ connected' = (connected /\ Head(got[c]).kind # "Close")
      BY <2>4 DEF Handles, ThreadStep, netVars, heartVars
    <3> QED
      BY <3>1 DEF MarkInv
  <2> QED
    BY <1>6, <2>1, <2>2, <2>3, <2>4, <2>5 DEF Thread
<1>7. ASSUME NEW c \in Callers, Task(c)
      PROVE  MarkInv'
  <2>1. CASE Locks(c) \/ FindsContended(c) \/ YieldsEnd(c) \/ Registers(c) \/ FindsEnd(c)
    BY <2>1 DEF Locks, FindsContended, YieldsEnd, Registers, FindsEnd, TaskStep, MarkInv, heartVars
  <2>2. CASE YieldsPacket(c)
    <3>1. UNCHANGED <<polling, alive, lossy, early, connects, payloads>> /\ armed' \in {armed, FALSE}
      BY <2>2 DEF YieldsPacket, TaskStep, heartVars
    <3>2. \/ UNCHANGED <<connected, overdue>>
          \/ \E kind : /\ connected' = (connected /\ kind # "Close")
                       /\ overdue' = (overdue /\ kind # "Ping")
      BY <2>2 DEF YieldsPacket, heartVars
    <3> QED
      BY <3>1, <3>2 DEF MarkInv
  <2> QED
    BY <1>7, <2>1, <2>2 DEF Task
<1>8. CASE UNCHANGED vars
  BY <1>8 DEF vars, MarkInv
<1> QED
  BY <1>1, <1>2, <1>3, <1>4, <1>5, <1>6, <1>7, <1>8 DEF Next

(* Lemma: a lost answer and an overlap of fetches are never forgotten, and  *)
(* only a connection that works brings packets.                             *)
LEMMA MarksStay ==
  ASSUME OpenInv, MarkInv, [Next]_vars
  PROVE  /\ lossy => lossy'
         /\ Unbroken' => Unbroken
         /\ sent' # sent => Unbroken
<1>1. CASE PeerSends \/ PeerBreaks \/ TimePasses
  BY <1>1 DEF PeerSends, PeerBreaks, TimePasses, OpenInv, Unbroken, netVars
<1>2. CASE Connects \/ Disconnects \/ Closes
  BY <1>2 DEF Connects, Disconnects, Closes, Unbroken, netVars, taskVars
<1>3. ASSUME NEW c \in Callers, Asks(c) \/ Stirs(c)
      PROVE  UNCHANGED <<lossy, alive, stream, sent>>
  BY <1>3 DEF Asks, Stirs, TaskStep, taskVars, netVars
<1>4. ASSUME NEW c \in Callers, Thread(c)
      PROVE  UNCHANGED <<alive, stream, sent>> /\ (lossy => lossy')
  <2>1. UNCHANGED <<alive, stream, sent>>
    BY <1>4 DEF Thread, Checks, TakesRest, Fetches, FetchFails, GivesUp, Stores, Handles, SendsPong,
                ThreadStep, taskVars, netVars
  <2>2. \/ lossy' = lossy
        \/ lossy' = (lossy \/ \E d \in Callers : pc[d] \in {"fetch", "store"})
        \/ lossy' = (lossy \/ wire' # wire)
    BY <1>4 DEF Thread, Checks, TakesRest, Fetches, FetchFails, GivesUp, Stores, Handles, SendsPong,
                ThreadStep
  <2> QED
    BY <2>1, <2>2 DEF MarkInv
<1>5. ASSUME NEW c \in Callers, Task(c)
      PROVE  /\ UNCHANGED <<lossy, alive, sent>>
             /\ stream' = stream \/ stream = "live"
  BY <1>5 DEF Task, Locks, FindsContended, YieldsPacket, YieldsEnd, Registers, FindsEnd,
              TaskStep, taskVars
<1>6. CASE UNCHANGED vars
  BY <1>6 DEF vars, Unbroken
<1> QED
  BY <1>1, <1>2, <1>3, <1>4, <1>5, <1>6 DEF Next, Unbroken

LEMMA OpenStep ==
  ASSUME OpenInv, MarkInv, [Next]_vars
  PROVE  OpenInv'
<1>1. CASE PeerSends \/ PeerBreaks \/ TimePasses \/ Connects \/ Disconnects \/ Closes
  BY <1>1 DEF PeerSends, PeerBreaks, TimePasses, Connects, Disconnects, Closes, OpenInv,
              taskVars, netVars
<1>2. ASSUME NEW c \in Callers, Asks(c) \/ Stirs(c) \/ Thread(c)
      PROVE  stream' = stream /\ (connected' => connected)
  <2>1. stream' = stream
    BY <1>2 DEF Asks, Stirs, Thread, Checks, TakesRest, Fetches, FetchFails, GivesUp, Stores, Handles,
                SendsPong, ThreadStep, TaskStep, taskVars
  <2>2. \/ connected' = connected
        \/ connected' = (connected /\ Head(got[c]).kind # "Close")
    BY <1>2 DEF Asks, Stirs, Thread, Checks, TakesRest, Fetches, FetchFails, GivesUp, Stores, Handles,
                SendsPong, ThreadStep, TaskStep, taskVars
  <2> QED
    BY <2>1, <2>2 DEF MarkInv
<1>3. ASSUME NEW c \in Callers, Task(c)
      PROVE  /\ connected' => connected
             /\ stream' = stream \/ stream' \in {"over", "retired"}
  <2>1. CASE Locks(c) \/ FindsContended(c) \/ YieldsEnd(c) \/ Registers(c) \/ FindsEnd(c)
    BY <2>1 DEF Locks, FindsContended, YieldsEnd, Registers, FindsEnd, TaskStep, taskVars
  <2>2. CASE YieldsPacket(c)
    <3>1. \/ connected' = connected
          \/ \E kind : connected' = (connected /\ kind # "Close")
      BY <2>2 DEF YieldsPacket
    <3>2. stream' = stream \/ stream' = "over"
      BY <2>2 DEF YieldsPacket, taskVars
    <3> QED
      BY <3>1, <3>2 DEF MarkInv
  <2> QED
    BY <1>3, <2>1, <2>2 DEF Task
<1>4. CASE UNCHANGED vars
  BY <1>4 DEF vars, OpenInv
<1> QED
  BY <1>1, <1>2, <1>3, <1>4 DEF Next, OpenInv

(* Lemma: tasks are not busy; whoever fetched something is.                 *)
LEMMA BusyThreads ==
  ASSUME PlaceInv, NEW c \in Callers
  PROVE  /\ Busy(c) => ~async
         /\ InHand[c] # {} => Busy(c)
         /\ Fetched[c] # << >> => Busy(c)
  BY PlacesApart, NoNos DEF Busy, InHand, Fetched

LEMMA BusyStep ==
  ASSUME PlaceInv, BusyInv, OpenInv, MarkInv, [Next]_vars
  PROVE  BusyInv'
<1> SUFFICES ASSUME ~lossy'
             PROVE  \A c \in Callers : Busy(c)' =>
                      rest' = << >> /\ \A d \in Callers : Busy(d)' => c = d
  BY DEF BusyInv
<1>1. \A c \in Callers : Busy(c) => rest = << >> /\ \A d \in Callers : Busy(d) => c = d
  BY MarksStay DEF BusyInv
<1>2. ASSUME \A c \in Callers : Busy(c)' => Busy(c),
             rest' = rest \/ rest' = << >> \/ \A c \in Callers : ~Busy(c)'
      PROVE  \A c \in Callers : Busy(c)' =>
                      rest' = << >> /\ \A d \in Callers : Busy(d)' => c = d
  BY <1>1, <1>2
<1>3. ASSUME NEW c \in Callers, NEW from, NEW to, Goes(c, from, to),
             to \notin {"fetch", "store"}
      PROVE  /\ ~Busy(c)' /\ \A d \in Callers : Busy(d)' => Busy(d)
             /\ \A d \in Callers : Busy(d)' => d # c
  BY <1>3, GoesMoves DEF Busy
<1>4. CASE PeerSends \/ PeerBreaks \/ TimePasses
  <2>1. Wakes /\ rest' = rest
    BY <1>4 DEF PeerSends, PeerBreaks, TimePasses
  <2>2. \A c \in Callers : Busy(c)' => Busy(c)
    BY <2>1, WokenMoves DEF Busy
  <2> QED
    BY <1>2, <2>1, <2>2
<1>5. CASE Connects \/ Disconnects \/ Closes
  <2>1. pc' = pc /\ (rest' = rest \/ rest' = << >>)
    BY <1>5 DEF Connects, Disconnects, Closes
  <2> QED
    BY <1>2, <2>1 DEF Busy
<1>6. ASSUME NEW c \in Callers, Asks(c) \/ Stirs(c)
      PROVE  BusyInv'
  <2>1. \E from \in {"out", "ended", "asleep"}, to \in {"poll", "check", "out"} : Goes(c, from, to)
    BY <1>6 DEF Asks, Stirs
  <2>2. rest' = rest
    BY <1>6 DEF Asks, Stirs, TaskStep
  <2> QED
    BY <1>2, <1>3, <2>1, <2>2 DEF BusyInv
<1>7. ASSUME NEW c \in Callers, Thread(c)
      PROVE  BusyInv'
  <2>1. CASE Checks(c) \/ FetchFails(c) \/ Handles(c) \/ SendsPong(c)
    <3>1. rest' = rest
      BY <2>1 DEF Checks, FetchFails, GivesUp, Handles, SendsPong
    <3>2. \E from \in {"check", "fetch", "handle", "pong"},
             to \in {"next", "ended", "out", "pong"} : Goes(c, from, to)
      BY <2>1 DEF Checks, FetchFails, GivesUp, Handles, SendsPong
    <3> QED
      BY <1>2, <1>3, <3>1, <3>2 DEF BusyInv
  <2>2. CASE TakesRest(c) /\ rest # << >>
    <3>1. Goes(c, "next", "handle")
      BY <2>2 DEF TakesRest
    <3>2. \A d \in Callers : ~Busy(d)'
      BY <1>1, <1>3, <2>2, <3>1
    <3> QED
      BY <3>2 DEF BusyInv
  <2>3. CASE TakesRest(c) /\ rest = << >>
    <3>1. /\ Goes(c, "next", "fetch") /\ rest' = rest
          /\ lossy' = (lossy \/ \E d \in Callers : pc[d] \in {"fetch", "store"})
      BY <2>3 DEF TakesRest
    <3>2. \A d \in Callers : ~Busy(d)
      BY <3>1 DEF Busy
    <3>3. \A d \in Callers : Busy(d)' => d = c
      BY <3>1, <3>2, GoesMoves DEF Busy
    <3> QED
      BY <2>3, <3>1, <3>3 DEF BusyInv
  <2>4. CASE Fetches(c)
    <3>1. rest' = rest /\ pc[c] = "fetch"
      BY <2>4 DEF Fetches, Goes
    <3>2. \A d \in Callers : d # c => pc'[d] = pc[d]
      BY <2>4, GoesMoves DEF Fetches
    <3>3. \A d \in Callers : Busy(d)' => Busy(d)
      BY <3>1, <3>2 DEF Busy
    <3> QED
      BY <1>2, <3>1, <3>3 DEF BusyInv
  <2>5. CASE Stores(c)
    <3>1. Goes(c, "store", "handle") /\ Busy(c)
      BY <2>5 DEF Stores, Goes, Busy
    <3>2. \A d \in Callers : ~Busy(d)'
      BY <1>1, <1>3, <3>1
    <3> QED
      BY <3>2 DEF BusyInv
  <2> QED
    BY <1>7, <2>1, <2>2, <2>3, <2>4, <2>5 DEF Thread
<1>8. ASSUME NEW c \in Callers, Task(c)
      PROVE  BusyInv'
  <2>1. async
    BY <1>8, PlacesApart DEF Task, Locks, FindsContended, YieldsPacket, YieldsEnd, Registers,
                             FindsEnd, Unlocks, Goes
  <2>2. \A d \in Callers : ~Busy(d)
    BY <2>1, BusyThreads
  <2>3. \/ pc' = pc
        \/ \E from \in {"poll", "in"}, to \in {"in", "asleep", "out", "ended"} : Goes(c, from, to)
    BY <1>8 DEF Task, Locks, FindsContended, YieldsPacket, YieldsEnd, Registers, FindsEnd,
                Unlocks
  <2>4. \A d \in Callers : Busy(d)' => Busy(d)
    BY <1>3, <2>3 DEF Busy
  <2> QED
    BY <2>2, <2>4 DEF BusyInv
<1>9. CASE UNCHANGED vars
  BY <1>2, <1>9 DEF vars, Busy
<1> QED
  BY <1>4, <1>5, <1>6, <1>7, <1>8, <1>9 DEF Next, BusyInv

(* Lemma: the least number that is known and not taken is the next one.     *)
LEMMA NextInLine ==
  ASSUME PacketInv, NumberInv, NEW n \in Known, n \notin Taken,
         \A i \in DOMAIN taken : taken[i] = i,
         \A m \in Known : m \in Taken \/ n <= m,
         \A x \in Known, m \in 1 .. sent : m < x => m \in Known,
         taken' = Append(taken, n)
  PROVE  \A i \in DOMAIN taken' : taken'[i] = i
<1> DEFINE k == Len(taken)
<1>1. n \in 1 .. sent /\ sent \in Nat
  BY DEF Known, NumberInv, PacketInv
<1>2. k \in Nat /\ DOMAIN taken = 1 .. k
  BY LenProperties DEF PacketInv
<1>3. /\ taken' \in Seq(1 .. sent) /\ Len(taken') = k + 1
      /\ \A i \in 1 .. k : taken'[i] = taken[i]
      /\ taken'[k + 1] = n
  BY <1>1, AppendProperties DEF PacketInv
<1>4. DOMAIN taken' = 1 .. k + 1
  BY <1>3, LenProperties
<1> HIDE DEF k
<1>5. \A m \in Nat : m \in Taken <=> m \in 1 .. k
  BY <1>2 DEF Taken, ToSet
<1>6. n >= k + 1
  BY <1>1, <1>2, <1>5
<1>7. ~(n > k + 1)
  <2> SUFFICES ASSUME n > k + 1
               PROVE  FALSE
    OBVIOUS
  <2>1. k + 1 \in 1 .. sent /\ k + 1 < n /\ k + 1 \notin Taken
    BY <1>1, <1>2, <1>5
  <2>2. k + 1 \in Known
    BY <2>1
  <2>3. n <= k + 1
    BY <2>1, <2>2
  <2> QED
    BY <1>1, <1>2, <2>3
<1>8. n = k + 1
  BY <1>1, <1>2, <1>6, <1>7
<1> QED
  BY <1>2, <1>3, <1>4, <1>8

LEMMA CoverInit ==
  Init => CoverInv /\ BusyInv /\ OpenInv
<1> SUFFICES ASSUME Init
             PROVE  CoverInv /\ BusyInv /\ OpenInv
  OBVIOUS
<1>1. NumberInv /\ sent = 0 /\ DOMAIN taken = {}
  BY NumberInit DEF Init
<1> QED
  BY <1>1 DEF Init, CoverInv, BusyInv, OpenInv, Busy

LEMMA CoverStep ==
  ASSUME PlaceInv, PacketInv, NumberInv, BusyInv, CoverInv, OpenInv, MarkInv, [Next]_vars,
         PacketInv', NumberInv', Flow
  PROVE  CoverInv'
<1> SUFFICES ASSUME ~lossy'
             PROVE  /\ \A i \in DOMAIN taken' : taken'[i] = i
                    /\ \A n \in Known', m \in 1 .. sent' : m < n => m \in Known'
                    /\ Unbroken' => 1 .. sent' \subseteq Known'
  BY DEF CoverInv
<1>1. /\ ~lossy /\ (Unbroken' => Unbroken) /\ (sent' # sent => Unbroken)
  BY MarksStay
<1>2. /\ \A i \in DOMAIN taken : taken[i] = i
      /\ \A n \in Known, m \in 1 .. sent : m < n => m \in Known
      /\ Unbroken => 1 .. sent \subseteq Known
  BY <1>1 DEF CoverInv
<1>3. \A c \in Callers : Busy(c) => rest = << >> /\ \A d \in Callers : Busy(d) => c = d
  BY <1>1 DEF BusyInv
<1>4. /\ sent \in Nat
      /\ InRest \cup InWire \cup Taken \subseteq 1 .. sent
      /\ Below(InRest, InWire) /\ Below(Taken, InWire)
      /\ \A c \in Callers :
           /\ InHand[c] \subseteq 1 .. sent /\ Below(InHand[c], InWire)
           /\ InHand[c] \cap InRest = {} /\ InHand[c] \cap Taken = {}
      /\ Taken \cap InRest = {}
  BY DEF NumberInv, PacketInv
<1>5. \A c \in Callers : InHand[c] # {} => Busy(c) /\ ~async
  BY BusyThreads
<1>6. Fetched' = Fetched => InHand' = InHand
  BY DEF InHand
<1>7. rest' = rest => InRest' = InRest
  BY DEF InRest
<1>8. wire' = wire => InWire' = InWire
  BY DEF InWire
<1>9. taken' = taken => Taken' = Taken
  BY DEF Taken
<1>10. (wire # << >> /\ wire' = Tail(wire)) => InWire = Nos(Head(wire)) \cup InWire' /\ Below(Nos(Head(wire)), InWire')
  BY FirstPayload DEF PacketInv, NumberInv, InWire
<1>11. ASSUME Known' = Known, taken' = taken, sent' = sent
       PROVE  /\ \A i \in DOMAIN taken' : taken'[i] = i
              /\ \A n \in Known', m \in 1 .. sent' : m < n => m \in Known'
              /\ Unbroken' => 1 .. sent' \subseteq Known'
  BY <1>1, <1>2, <1>11
<1>12. ASSUME Known' = Known, NEW n \in Known, n \notin Taken, taken' = Append(taken, n),
              \A m \in Known : m \in Taken \/ n <= m, sent' = sent
       PROVE  /\ \A i \in DOMAIN taken' : taken'[i] = i
              /\ \A x \in Known', m \in 1 .. sent' : m < x => m \in Known'
              /\ Unbroken' => 1 .. sent' \subseteq Known'
  <2>1. \A i \in DOMAIN taken' : taken'[i] = i
    BY <1>2, <1>12, NextInLine
  <2> QED
    BY <1>1, <1>2, <1>12, <2>1
<1>13. CASE Still \/ GoesAstray
  <2>1. UNCHANGED <<wire, rest, Fetched, taken, sent>>
    BY <1>13 DEF Still, GoesAstray
  <2>2. Known' = Known
    BY <1>6, <1>7, <1>8, <1>9, <2>1 DEF Known
  <2> QED
    BY <1>11, <2>1, <2>2
<1>14. CASE Arrives
  <2>1. PICK q \in Payloads(sent') \cup Garbled :
          wire' = Append(wire, q) /\ Nos(q) = sent + 1 .. sent'
    BY <1>14 DEF Arrives
  <2>2. sent' \in Nat /\ sent <= sent' /\ UNCHANGED <<rest, Fetched, taken>>
    BY <1>14 DEF Arrives
  <2>3. AllNos(wire') = AllNos(wire) \cup Nos(q)
    <3> DEFINE W == Payloads(sent') \cup Garbled
    <3>1. Payloads(sent) \subseteq Payloads(sent')
      BY <1>4, <2>2, PayloadsGrow
    <3>2. wire \in Seq(W) /\ q \in W
      BY <2>1, <3>1, SeqMonotonic DEF PacketInv
    <3>3. Below(AllNos(wire), Nos(q)) /\ Ordered(wire)
      BY <1>4, <2>1, <2>2 DEF Below, InWire, NumberInv
    <3> HIDE DEF W
    <3>4. AllNos(Append(wire, q)) = AllNos(wire) \cup Nos(q)
      BY <3>2, <3>3, LastPayload
    <3> QED
      BY <2>1, <3>4, Zenon
  <2>4. InWire' = InWire \cup (sent + 1 .. sent')
    BY <2>1, <2>3 DEF InWire
  <2>5. \A n : n \in Known' <=> n \in Known \/ n \in sent + 1 .. sent'
    BY <1>4, <1>6, <1>7, <1>9, <2>2, <2>4 DEF Known
  <2>6. Known \subseteq 1 .. sent
    BY <1>4 DEF Known
  <2>7. CASE sent' = sent
    <3>1. Known' = Known
      <4>1. \A n : n \notin sent + 1 .. sent'
        BY <1>4, <2>7
      <4>2. \A n : n \in Known' <=> n \in Known
        BY <2>5, <4>1
      <4> QED
        BY <4>2
    <3> QED
      BY <1>11, <2>2, <2>7, <3>1
  <2>8. CASE sent' # sent
    <3>1. 1 .. sent \subseteq Known
      BY <1>1, <1>2, <2>8
    <3>2. 1 .. sent' \subseteq Known'
      BY <1>4, <2>2, <2>5, <3>1
    <3> QED
      BY <1>2, <2>2, <3>2
  <2> QED
    BY <2>7, <2>8
<1>15. CASE Lost
  <2>1. InWire' = {}
    BY <1>15, NoNos DEF Lost, InWire
  <2>2. UNCHANGED <<Fetched, taken, sent>> /\ ~Unbroken'
    BY <1>15 DEF Lost
  <2>3. CASE rest' = rest
    <3>1. \A n : n \in Known' <=> n \in InRest \/ n \in Taken \/ \E c \in Callers : n \in InHand[c]
      BY <1>4, <1>6, <1>7, <1>9, <2>1, <2>2, <2>3 DEF Known
    <3>2. \A n \in Known' : n \in Known /\ \A m \in InWire : n < m
      BY <1>4, <3>1 DEF Known, Below
    <3>3. \A m \in Known : m \in Known' \/ m \in InWire
      BY <3>1 DEF Known
    <3>4. ASSUME NEW n \in Known', NEW m \in 1 .. sent, m < n
          PROVE  m \in Known'
      <4>1. m \in Known /\ n \in Nat
        BY <1>2, <3>2, <3>4 DEF Known
      <4>2. m \notin InWire
        BY <1>4, <3>2, <3>4, <4>1
      <4> QED
        BY <3>3, <4>1, <4>2
    <3> QED
      BY <1>2, <2>2, <3>4
  <2>4. CASE async /\ rest' = << >>
    <3>1. \A n : n \in Known' <=> n \in Taken
      BY <1>4, <1>5, <1>6, <1>9, <2>1, <2>2, <2>4, NoNos DEF Known, InRest
    <3>2. DOMAIN taken = 1 .. Len(taken) /\ Len(taken) \in Nat
      BY LenProperties DEF PacketInv
    <3>3. \A n \in Nat : n \in Taken <=> n \in 1 .. Len(taken)
      BY <1>2, <3>2 DEF Taken, ToSet
    <3>4. ASSUME NEW n \in Known', NEW m \in 1 .. sent, m < n
          PROVE  m \in Known'
      BY <1>4, <3>1, <3>2, <3>3, <3>4
    <3> QED
      BY <1>2, <2>2, <3>4
  <2> QED
    BY <1>15, <2>3, <2>4 DEF Lost
<1>16. ASSUME NEW c \in Callers, Comes(c)
       PROVE  CoverInv'
  <2>1. PICK g \in Payloads(sent) :
          Nos(g) = Nos(Head(wire)) /\ Fetched' = [Fetched EXCEPT ![c] = g]
    BY <1>16 DEF Comes
  <2>2. /\ wire # << >> /\ wire' = Tail(wire) /\ UNCHANGED <<rest, taken, sent>>
        /\ Fetched[c] = << >>
    BY <1>16 DEF Comes
  <2> DEFINE A == Nos(Head(wire))
  <2>3. InWire = A \cup InWire'
    BY <1>10, <2>2
  <2>4. InHand'[c] = A /\ \A d \in Callers : d # c => InHand'[d] = InHand[d]
    BY <2>1, FetchedType DEF InHand
  <2>5. InHand[c] = {}
    BY <2>2, NoNos DEF InHand
  <2> HIDE DEF A
  <2>6. \A n : (\E d \in Callers : n \in InHand'[d]) <=> n \in A \/ \E d \in Callers : n \in InHand[d]
    BY <2>4, <2>5
  <2>7. \A n : n \in Known' <=> n \in Known
    BY <1>4, <1>7, <1>9, <2>2, <2>3, <2>6 DEF Known
  <2>8. Known' = Known
    BY <2>7
  <2> QED
    BY <1>11, <2>2, <2>8 DEF CoverInv
<1>17. CASE FromRest
  <2> DEFINE n == Head(rest).no
  <2>1. /\ rest # << >> /\ rest' = Tail(rest) /\ taken' = Append(taken, n)
        /\ UNCHANGED <<wire, Fetched, sent>> /\ rest \in Payloads(sent)
    BY <1>17 DEF FromRest, PacketInv
  <2>2. InRest = {n} \cup InRest' /\ Taken' = Taken \cup {n}
    BY <2>1, HandedOut DEF InRest
  <2>3. \A m \in InRest' : n < m
    BY <2>1, PayloadIsSound, FirstAndRest DEF InRest, PacketInv
  <2>4. InHand' = InHand /\ InWire' = InWire
    BY <1>6, <1>8, <2>1
  <2> HIDE DEF n
  <2>5. \A c \in Callers : InHand[c] = {}
    BY <1>3, <1>5, <2>1
  <2>6. Known' = Known
    BY <1>4, <2>2, <2>4 DEF Known
  <2>7. n \in Known /\ n \notin Taken
    BY <1>4, <2>2 DEF Known
  <2>8. \A m \in Known : m \in Taken \/ n <= m
    BY <1>4, <2>2, <2>3, <2>5 DEF Known, Below
  <2> QED
    BY <1>12, <2>1, <2>6, <2>7, <2>8
<1>18. CASE FromWire
  <2> DEFINE q == Head(wire)
             n == Head(q).no
  <2>1. /\ rest = << >> /\ rest' = Tail(q) /\ taken' = Append(taken, n)
        /\ wire # << >> /\ wire' = Tail(wire) /\ async
        /\ UNCHANGED <<Fetched, sent>> /\ q \in Payloads(sent) /\ q # << >>
    BY <1>18 DEF FromWire
  <2>2. InWire = Nos(q) \cup InWire' /\ Below(Nos(q), InWire')
    BY <1>10, <2>1
  <2> HIDE DEF q
  <2>3. Nos(q) = {n} \cup InRest' /\ Taken' = Taken \cup {n}
    BY <2>1, HandedOut DEF InRest
  <2>4. \A m \in InRest' : n < m
    BY <2>1, PayloadIsSound, FirstAndRest DEF InRest, PacketInv
  <2>5. InHand' = InHand /\ InRest = {} /\ \A c \in Callers : InHand[c] = {}
    BY <1>5, <1>6, <2>1, NoNos DEF InRest
  <2> HIDE DEF n
  <2>6. Known' = Known
    BY <1>4, <2>2, <2>3, <2>5 DEF Known
  <2>7. n \in Known /\ n \notin Taken
    BY <1>4, <2>2, <2>3 DEF Known, Below
  <2>8. \A m \in Known : m \in Taken \/ n <= m
    BY <1>4, <2>2, <2>3, <2>4, <2>5 DEF Known, Below
  <2> QED
    BY <1>12, <2>1, <2>6, <2>7, <2>8
<1>19. ASSUME NEW c \in Callers, FromThread(c)
       PROVE  CoverInv'
  <2> DEFINE q == Fetched[c]
             n == Head(q).no
  <2>1. /\ rest' = Tail(q) /\ taken' = Append(taken, n) /\ UNCHANGED <<wire, sent>>
        /\ q \in Payloads(sent) /\ q # << >>
        /\ Fetched' = [Fetched EXCEPT ![c] = << >>]
    BY <1>19, FetchedType DEF FromThread
  <2>2. InHand[c] = Nos(q)
    BY DEF InHand
  <2>3. InHand'[c] = {} /\ \A d \in Callers : d # c => InHand'[d] = InHand[d]
    BY <2>1, FetchedType, NoNos DEF InHand
  <2>4. Busy(c)
    BY <2>1, BusyThreads
  <2> HIDE DEF q
  <2>5. /\ InHand[c] = {n} \cup InRest' /\ Taken' = Taken \cup {n}
    BY <2>1, <2>2, HandedOut DEF InRest
  <2>6. \A m \in InRest' : n < m
    BY <2>1, PayloadIsSound, FirstAndRest DEF InRest, PacketInv
  <2>7. InWire' = InWire
    BY <1>8, <2>1
  <2>8. InRest = {} /\ \A d \in Callers : d # c => InHand[d] = {}
    BY <1>3, <1>5, <2>4, NoNos DEF InRest
  <2> HIDE DEF n
  <2>9. \A m : m \in Known' <=> m \in Known
    BY <1>4, <2>3, <2>5, <2>7, <2>8 DEF Known
  <2>10. n \in Known /\ n \notin Taken
    BY <1>4, <2>5 DEF Known
  <2>11. \A m \in Known : m \in Taken \/ n <= m
    BY <1>4, <2>5, <2>6, <2>8 DEF Known, Below
  <2>12. Known' = Known
    BY <2>9
  <2> QED
    BY <1>12, <2>1, <2>10, <2>11, <2>12 DEF CoverInv
<1> QED
  BY <1>13, <1>14, <1>15, <1>16, <1>17, <1>18, <1>19 DEF Flow, CoverInv

-----------------------------------------------------------------------------
(* Together: the invariant of the packets' way from the server to whoever   *)
(* asked for them.                                                          *)
WayInv ==
  PlaceInv /\ PacketInv /\ MarkInv /\ OpenInv /\ NumberInv /\ BusyInv /\ CoverInv

LEMMA WayInvariant ==
  Spec => []WayInv
<1>1. Init => WayInv
  BY PlaceInit, PacketInit, MarkInit, NumberInit, CoverInit DEF WayInv
<1>2. ASSUME WayInv, [Next]_vars
      PROVE  WayInv'
  <2>1. PlaceInv' /\ PacketInv' /\ MarkInv' /\ OpenInv'
    BY <1>2, PlaceStep, PacketStep, MarkStep, OpenStep DEF WayInv
  <2>2. Flow
    BY <1>2, FlowStep DEF WayInv
  <2>3. NumberInv' /\ BusyInv'
    BY <1>2, <2>1, <2>2, NumberStep, BusyStep DEF WayInv
  <2>4. CoverInv'
    BY <1>2, <2>1, <2>2, <2>3, CoverStep DEF WayInv
  <2> QED
    BY <2>1, <2>3, <2>4 DEF WayInv
<1>3. WayInv /\ [Next]_vars => WayInv'
  BY <1>2
<1> QED
  BY <1>1, <1>3, PTL DEF Spec

(* Theorem: whoever polls, no packet is handed out twice; and unless two    *)
(* threads fetched at the same time, packets are handed out in the order    *)
(* they were sent and none is skipped (Socket::poll, remaining_packets;     *)
(* StreamGenerator::poll_next).                                             *)
THEOREM OnceInOrderHolds ==
  Spec => []OnceInOrder
<1>1. WayInv => OnceInOrder
  BY DEF WayInv, NumberInv, CoverInv, OnceInOrder
<1> QED
  BY <1>1, WayInvariant, PTL

-----------------------------------------------------------------------------
(* Callbacks: those that were given are told numbers of packets, or 0.      *)
HookInv == hooks \subseteq Hooks /\ told \in [Hooks -> Seq(0 .. sent)]

(* Lemma: the callbacks that are due and given are told once more, the      *)
(* others are not.                                                          *)
LEMMA TellsCalls ==
  ASSUME HookInv, NEW due, NEW no \in 0 .. sent, Tells(due, no)
  PROVE  /\ hooks' = hooks
         /\ \A h \in Hooks : told'[h] = IF h \in due \cap hooks THEN Append(told[h], no) ELSE told[h]
         /\ told' \in [Hooks -> Seq(0 .. sent)]
         /\ \A h \in Hooks : (told[h] # << >> \/ h \in due \cap hooks) => told'[h] # << >>
<1> DEFINE S == 0 .. sent
<1>1. /\ hooks' = hooks
      /\ told' = [h \in Hooks |-> IF h \in due \cap hooks THEN Append(told[h], no) ELSE told[h]]
  BY DEF Tells
<1>2. \A h \in Hooks : told[h] \in Seq(S)
  BY DEF HookInv
<1>3. no \in S
  OBVIOUS
<1> HIDE DEF S
<1>4. \A h \in Hooks : Append(told[h], no) \in Seq(S) /\ Append(told[h], no) # << >>
  <2>1. ASSUME NEW h \in Hooks
        PROVE  Append(told[h], no) \in Seq(S) /\ Append(told[h], no) # << >>
    <3>1. told[h] \in Seq(S)
      BY <1>2
    <3> DEFINE t == told[h]
    <3> HIDE DEF t
    <3>2. ASSUME t \in Seq(S)
          PROVE  Append(t, no) \in Seq(S) /\ Append(t, no) # << >>
      <4>1. Append(t, no) \in Seq(S) /\ Len(Append(t, no)) = Len(t) + 1 /\ Len(t) \in Nat
        BY <1>3, <3>2, AppendProperties, LenProperties
      <4>2. Len(<< >>) = 0
        BY EmptySeq
      <4> QED
        BY <4>1, <4>2
    <3> QED
      BY <3>1, <3>2 DEF t
  <2> QED
    BY <2>1
<1>5. \A h \in Hooks : told'[h] = IF h \in due \cap hooks THEN Append(told[h], no) ELSE told[h]
  BY <1>1, Zenon
<1>6. told' \in [Hooks -> Seq(S)]
  <2>1. \A h \in Hooks :
          (IF h \in due \cap hooks THEN Append(told[h], no) ELSE told[h]) \in Seq(S)
    BY <1>2, <1>4
  <2> QED
    BY <1>1, <2>1, Zenon
<1>7. \A h \in Hooks : (told[h] # << >> \/ h \in due \cap hooks) => told'[h] # << >>
  BY <1>4, <1>5
<1> QED
  BY <1>1, <1>5, <1>6, <1>7 DEF S

(* Lemma: what a poll finds first can be counted.                           *)
LEMMA FirstNumbers ==
  ASSUME PacketInv
  PROVE  /\ rest # << >> => Head(rest).no \in 1 .. sent
         /\ \A c \in Callers :
              pc[c] \in {"store", "handle", "pong"} => Head(got[c]).no \in 1 .. sent
         /\ (wire # << >> /\ Head(wire) # << >> /\ Head(Head(wire)).kind # "Bad") =>
              Head(Head(wire)).no \in 1 .. sent
<1>1. sent \in Nat
  BY DEF PacketInv
<1>2. rest # << >> => Head(rest).no \in 1 .. sent
  BY <1>1, PayloadIsSound DEF PacketInv
<1>3. ASSUME NEW c \in Callers, pc[c] \in {"store", "handle", "pong"}
      PROVE  Head(got[c]).no \in 1 .. sent
  <2>1. got[c] \in Payloads(sent) /\ got[c] # << >>
    BY <1>3 DEF PacketInv
  <2> QED
    BY <1>1, <2>1, PayloadIsSound
<1>4. ASSUME wire # << >>, Head(wire) # << >>, Head(Head(wire)).kind # "Bad"
      PROVE  Head(Head(wire)).no \in 1 .. sent
  <2> DEFINE q == Head(wire)
  <2>1. q \in Payloads(sent) \cup Garbled
    BY <1>4, HeadTailProperties DEF PacketInv
  <2> HIDE DEF q
  <2>2. q # << >> => Head(q) = q[1]
    BY <1>1, <2>1, GarbledOrNot
  <2>3. q # << >> /\ Head(q).kind # "Bad"
    BY <1>4 DEF q
  <2>4. q \in Payloads(sent)
    BY <1>1, <2>1, <2>2, <2>3, GarbledOrNot
  <2> QED
    BY <1>1, <2>3, <2>4, PayloadIsSound DEF q
<1> QED
  BY <1>2, <1>3, <1>4

LEMMA CallsStep ==
  ASSUME PacketInv, [Next]_vars
  PROVE  Quiet \/ \E due \in SUBSET Hooks, no \in 0 .. sent : Tells(due, no)
<1>1. /\ HandlePacket(Head(rest)) \in SUBSET Hooks
      /\ HandlePacket(Head(Head(wire))) \in SUBSET Hooks
      /\ \A c \in Callers : HandlePacket(Head(got[c])) \in SUBSET Hooks
      /\ Refusal \in SUBSET Hooks /\ {"close"} \in SUBSET Hooks /\ {"open"} \in SUBSET Hooks
  BY DEF HandlePacket, HandleData, HandleClose, Refusal, Hooks
<1>2. sent \in Nat /\ 0 \in 0 .. sent /\ 1 .. sent \subseteq 0 .. sent
  BY DEF PacketInv
<1>3. CASE PeerSends \/ PeerBreaks \/ TimePasses
  BY <1>3 DEF PeerSends, PeerBreaks, TimePasses, Quiet
<1>4. CASE Connects \/ Disconnects \/ Closes
  <2>1. PICK a \in {{"open"}, {"close"}, {}}, b \in {Refusal, {}} : Tells(a \cup b, 0)
    BY <1>4 DEF Connects, Disconnects, Closes
  <2>2. a \cup b \in SUBSET Hooks
    BY <1>1
  <2> QED
    BY <1>2, <2>1, <2>2
<1>5. ASSUME NEW c \in Callers, Asks(c) \/ Stirs(c)
      PROVE  Quiet
  BY <1>5 DEF Asks, Stirs, Quiet
<1>6. ASSUME NEW c \in Callers, Thread(c)
      PROVE  Quiet \/ \E due \in SUBSET Hooks, no \in 0 .. sent : Tells(due, no)
  <2>1. CASE Checks(c) \/ TakesRest(c) \/ Fetches(c) \/ FetchFails(c) \/ Stores(c)
    BY <2>1 DEF Checks, TakesRest, Fetches, FetchFails, GivesUp, Stores, Quiet
  <2>2. CASE Handles(c)
    <3>1. Tells(HandlePacket(Head(got[c])), Head(got[c]).no) /\ pc[c] = "handle"
      BY <2>2 DEF Handles
    <3>2. Head(got[c]).no \in 0 .. sent
      BY <1>2, <3>1, FirstNumbers
    <3> QED
      BY <1>1, <3>1, <3>2
  <2>3. CASE SendsPong(c)
    BY <1>1, <1>2, <2>3 DEF SendsPong
  <2> QED
    BY <1>6, <2>1, <2>2, <2>3 DEF Thread
<1>7. ASSUME NEW c \in Callers, Task(c)
      PROVE  Quiet \/ \E due \in SUBSET Hooks, no \in 0 .. sent : Tells(due, no)
  <2>1. CASE Locks(c) \/ FindsContended(c) \/ Registers(c) \/ FindsEnd(c)
    BY <2>1 DEF Locks, FindsContended, Registers, FindsEnd
  <2>2. CASE YieldsEnd(c)
    BY <1>1, <1>2, <2>2 DEF YieldsEnd
  <2>3. CASE YieldsPacket(c)
    <3> DEFINE payload == IF rest # << >> THEN rest ELSE Head(wire)
    <3>1. /\ rest # << >> \/ wire # << >>
          /\ \/ Quiet
             \/ /\ payload # << >> /\ Head(payload).kind # "Bad"
                /\ \/ Tells(HandlePacket(Head(payload)), Head(payload).no)
                   \/ Tells(HandlePacket(Head(payload)) \cup Refusal, Head(payload).no)
      BY <2>3 DEF YieldsPacket, Ready, Quiet
    <3>2. HandlePacket(Head(payload)) \in SUBSET Hooks
      BY <1>1
    <3>3. (payload # << >> /\ Head(payload).kind # "Bad") => Head(payload).no \in 0 .. sent
      BY <1>2, <3>1, FirstNumbers
    <3> HIDE DEF payload
    <3>4. HandlePacket(Head(payload)) \cup Refusal \in SUBSET Hooks
      BY <1>1, <3>2
    <3> QED
      BY <3>1, <3>2, <3>3, <3>4
  <2> QED
    BY <1>7, <2>1, <2>2, <2>3 DEF Task
<1>8. CASE UNCHANGED vars
  BY <1>8 DEF vars, Quiet
<1> QED
  BY <1>3, <1>4, <1>5, <1>6, <1>7, <1>8 DEF Next

LEMMA HookInit ==
  Init => HookInv
  BY EmptySeq DEF Init, HookInv, Registrations, Hooks

LEMMA HookStep ==
  ASSUME PlaceInv, PacketInv, HookInv, [Next]_vars
  PROVE  /\ HookInv' /\ hooks' = hooks
         /\ \A h \in Hooks : told[h] # << >> => told'[h] # << >>
<1>1. sent \in Nat /\ sent' \in Nat /\ sent <= sent'
  BY FlowStep, FlowType DEF PacketInv
<1>2. 0 .. sent \subseteq 0 .. sent'
  BY <1>1
<1>3. \A t \in [Hooks -> Seq(0 .. sent)] : t \in [Hooks -> Seq(0 .. sent')]
  <2>1. \A s \in Seq(0 .. sent) : s \in Seq(0 .. sent')
    BY <1>2, SeqMonotonic
  <2> QED
    BY <2>1
<1>4. /\ told' \in [Hooks -> Seq(0 .. sent)] /\ hooks' = hooks
      /\ \A h \in Hooks : told[h] # << >> => told'[h] # << >>
  <2>1. CASE Quiet
    BY <2>1 DEF Quiet, callVars, HookInv
  <2>2. CASE ~Quiet
    <3>1. PICK due \in SUBSET Hooks, no \in 0 .. sent : Tells(due, no)
      BY <2>2, CallsStep
    <3> QED
      BY <3>1, TellsCalls
  <2> QED
    BY <2>1, <2>2
<1> QED
  BY <1>3, <1>4 DEF HookInv

-----------------------------------------------------------------------------
(* on_close: whoever ended a connection, and a stream that was retired,     *)
(* has told it.                                                             *)
EndedInv ==
  "close" \in hooks =>
    /\ stream = "retired" => told["close"] # << >>
    /\ (~connected /\ connects < MaxConnects) => told["close"] # << >>

LEMMA EndedInit ==
  Init => EndedInv
  BY PollersAssumption DEF Init, EndedInv

LEMMA EndedStep ==
  ASSUME WayInv, HookInv, EndedInv, [Next]_vars
  PROVE  EndedInv'
<1>1. /\ hooks' = hooks
      /\ told["close"] # << >> => told'["close"] # << >>
  BY HookStep DEF WayInv, Hooks
<1>2. ASSUME "close" \in hooks, NEW due, NEW no \in 0 .. sent, Tells(due, no), "close" \in due
      PROVE  told'["close"] # << >>
  BY <1>2, TellsCalls DEF Hooks
<1>3. sent \in Nat /\ 0 \in 0 .. sent /\ connected \in BOOLEAN /\ connected' \in BOOLEAN
  BY MarkStep DEF WayInv, PacketInv, MarkInv
<1>4. ASSUME UNCHANGED <<connects, stream>>, connected => connected'
      PROVE  EndedInv'
  BY <1>1, <1>3, <1>4 DEF EndedInv
<1>5. ASSUME "close" \in hooks => told'["close"] # << >>
      PROVE  EndedInv'
  BY <1>1, <1>5 DEF EndedInv
<1>6. CASE PeerSends \/ PeerBreaks \/ TimePasses
  <2>1. UNCHANGED <<connects, stream, connected>>
    BY <1>6 DEF PeerSends, PeerBreaks, TimePasses
  <2> QED
    BY <1>4, <2>1
<1>7. CASE Connects
  <2>1. connected' = TRUE /\ stream' = stream
    BY <1>7 DEF Connects, taskVars
  <2> QED
    BY <1>1, <2>1 DEF EndedInv
<1>8. CASE Disconnects
  <2>1. \E b \in {Refusal, {}} : Tells({"close"} \cup b, 0)
    BY <1>8 DEF Disconnects
  <2> QED
    BY <1>2, <1>3, <1>5, <2>1
<1>9. CASE Closes
  <2>1. CASE stream = "retired"
    BY <1>1, <1>5, <2>1 DEF EndedInv
  <2>2. CASE stream # "retired"
    <3>1. Tells({"close"}, 0)
      BY <1>9, <2>2 DEF Closes
    <3> QED
      BY <1>2, <1>3, <1>5, <3>1
  <2> QED
    BY <2>1, <2>2
<1>10. ASSUME NEW c \in Callers, Asks(c) \/ Stirs(c)
       PROVE  EndedInv'
  <2>1. UNCHANGED <<connects, stream, connected>>
    BY <1>10 DEF Asks, Stirs, TaskStep, taskVars
  <2> QED
    BY <1>4, <2>1
<1>11. ASSUME NEW c \in Callers, Thread(c)
       PROVE  EndedInv'
  <2>1. UNCHANGED <<connects, stream>>
    BY <1>11 DEF Thread, Checks, TakesRest, Fetches, FetchFails, GivesUp, Stores, Handles, SendsPong,
                 ThreadStep, taskVars
  <2>2. CASE Checks(c) \/ TakesRest(c) \/ Fetches(c) \/ FetchFails(c) \/ Stores(c) \/ SendsPong(c)
    <3>1. connected' = connected
      BY <2>2 DEF Checks, TakesRest, Fetches, FetchFails, GivesUp, Stores, SendsPong
    <3> QED
      BY <1>4, <2>1, <3>1
  <2>3. CASE Handles(c)
    <3> DEFINE p == Head(got[c])
    <3>1. /\ Tells(HandlePacket(p), p.no) /\ pc[c] = "handle"
          /\ connected' = (connected /\ p.kind # "Close")
      BY <2>3 DEF Handles
    <3>2. p.no \in 0 .. sent
      <4>1. p.no \in 1 .. sent
        BY <3>1, FirstNumbers DEF WayInv
      <4> QED
        BY <1>3, <4>1
    <3> HIDE DEF p
    <3>3. CASE p.kind = "Close"
      <4>1. "close" \in HandlePacket(p)
        BY <3>3 DEF HandlePacket, HandleClose
      <4> QED
        BY <1>2, <1>5, <3>1, <3>2, <4>1
    <3>4. CASE p.kind # "Close"
      BY <1>3, <1>4, <2>1, <3>1, <3>4
    <3> QED
      BY <3>3, <3>4
  <2> QED
    BY <1>11, <2>2, <2>3 DEF Thread
<1>12. ASSUME NEW c \in Callers, Task(c)
       PROVE  EndedInv'
  <2>1. CASE Locks(c) \/ FindsContended(c) \/ Registers(c) \/ FindsEnd(c)
    <3>1. UNCHANGED <<connects, stream, connected>>
      BY <2>1 DEF Locks, FindsContended, Registers, FindsEnd, TaskStep, taskVars
    <3> QED
      BY <1>4, <3>1
  <2>2. CASE YieldsEnd(c)
    <3>1. connects' = connects
      BY <2>2 DEF YieldsEnd, TaskStep
    <3>2. \/ stream' = "over" /\ connected' = connected
          \/ Tells({"close"}, 0)
      BY <2>2 DEF YieldsEnd
    <3>3. CASE Tells({"close"}, 0)
      BY <1>2, <1>3, <1>5, <3>3
    <3>4. CASE stream' = "over" /\ connected' = connected
      BY <1>1, <3>1, <3>4 DEF EndedInv
    <3> QED
      BY <3>2, <3>3, <3>4
  <2>3. CASE YieldsPacket(c)
    <3> DEFINE payload == IF rest # << >> THEN rest ELSE Head(wire)
               p == Head(payload)
    <3>1. /\ rest # << >> \/ wire # << >>
          /\ connects' = connects /\ (stream' = stream \/ stream' = "over")
          /\ \/ connected' = connected
             \/ /\ payload # << >> /\ p.kind # "Bad"
                /\ connected' = (connected /\ p.kind # "Close")
                /\ \/ Tells(HandlePacket(p), p.no)
                   \/ Tells(HandlePacket(p) \cup Refusal, p.no)
      BY <2>3 DEF YieldsPacket, Ready, TaskStep, taskVars
    <3>2. (payload # << >> /\ p.kind # "Bad") => p.no \in 0 .. sent
      <4>1. (payload # << >> /\ p.kind # "Bad") => p.no \in 1 .. sent
        BY <3>1, FirstNumbers DEF WayInv
      <4> QED
        BY <1>3, <4>1
    <3> HIDE DEF payload, p
    <3>3. CASE connected' = connected
      BY <1>1, <3>1, <3>3 DEF EndedInv
    <3>4. CASE connected' # connected
      <4>1. p.kind = "Close"
        BY <1>3, <3>1, <3>4
      <4>2. "close" \in HandlePacket(p) /\ "close" \in HandlePacket(p) \cup Refusal
        BY <4>1 DEF HandlePacket, HandleClose
      <4> QED
        BY <1>2, <1>5, <3>1, <3>2, <3>4, <4>2
    <3> QED
      BY <3>3, <3>4
  <2> QED
    BY <1>12, <2>1, <2>2, <2>3 DEF Task
<1>13. CASE UNCHANGED vars
  BY <1>4, <1>13 DEF vars
<1> QED
  BY <1>6, <1>7, <1>8, <1>9, <1>10, <1>11, <1>12, <1>13 DEF Next

-----------------------------------------------------------------------------
(* on_packet: the packets that threads took and have not told yet are       *)
(* taken, each by one thread; the others have been told once, by tasks in   *)
(* the order in which they were taken.                                      *)
Handling == [c \in Callers |-> IF pc[c] = "handle" THEN Head(got[c]).no ELSE 0]

HandleInv ==
  /\ \A c \in Callers : Handling[c] # 0 =>
       Handling[c] \in Taken /\ \A d \in Callers : c # d => Handling[c] # Handling[d]
  /\ "packet" \in hooks =>
       IF async THEN told["packet"] = taken
       ELSE /\ IsInjective(told["packet"])
            /\ \A n : n \in ToSet(told["packet"]) <=>
                       n \in Taken /\ \A c \in Callers : Handling[c] # n

(* What a step does to them: nothing; a thread takes a packet; a thread     *)
(* tells one; a task does both.                                             *)
Alike == UNCHANGED <<Handling, taken>> /\ told'["packet"] = told["packet"]

Starts(c) ==
  /\ ~async /\ Handling[c] = 0
  /\ \E n \in 1 .. sent :
       /\ n \notin Taken /\ taken' = Append(taken, n)
       /\ Handling' = [Handling EXCEPT ![c] = n]
  /\ told'["packet"] = told["packet"]

Finishes(c) ==
  /\ ~async /\ Handling[c] # 0 /\ Handling' = [Handling EXCEPT ![c] = 0]
  /\ "packet" \in hooks => told'["packet"] = Append(told["packet"], Handling[c])
  /\ taken' = taken

Yields ==
  /\ async /\ Handling' = Handling
  /\ \E n \in 1 .. sent :
       /\ taken' = Append(taken, n)
       /\ "packet" \in hooks => told'["packet"] = Append(told["packet"], n)

(* Lemma: as for what threads fetched.                                      *)
LEMMA HandlingStays ==
  ASSUME \A c \in Callers : pc'[c] = "handle" <=> pc[c] = "handle",
         \A c \in Callers : pc[c] = "handle" => got'[c] = got[c]
  PROVE  Handling' = Handling
  BY DEF Handling

LEMMA HandlingMoves ==
  ASSUME PlaceInv, PacketInv, NEW c \in Callers, NEW from, NEW to, Goes(c, from, to),
         \A d \in Callers : d # c => got'[d] = got[d]
  PROVE  /\ (from # "handle" /\ to # "handle") => Handling' = Handling
         /\ \A n : n = (IF to = "handle" THEN Head(got'[c]).no ELSE 0) =>
              Handling' = [Handling EXCEPT ![c] = n]
<1>1. /\ pc[c] = from /\ pc'[c] = to
      /\ \A d \in Callers : d # c => pc'[d] = pc[d]
  BY GoesMoves
<1>3. (from # "handle" /\ to # "handle") => Handling' = Handling
  BY <1>1, HandlingStays
<1>4. ASSUME NEW n, n = IF to = "handle" THEN Head(got'[c]).no ELSE 0
      PROVE  Handling' = [Handling EXCEPT ![c] = n]
  <2>1. Handling'[c] = n /\ \A d \in Callers : d # c => Handling'[d] = Handling[d]
    BY <1>1, <1>4 DEF Handling
  <2>2. Handling' = [d \in Callers |-> Handling'[d]]
    BY DEF Handling
  <2>3. Handling = [d \in Callers |-> Handling[d]]
    BY DEF Handling
  <2> QED
    BY <2>1, <2>2, <2>3
<1> QED
  BY <1>3, <1>4

(* Lemma: callbacks other than on_packet say nothing of packets.            *)
LEMMA PacketTold ==
  ASSUME HookInv, NEW due, NEW no \in 0 .. sent, Tells(due, no)
  PROVE  /\ "packet" \notin due => told'["packet"] = told["packet"]
         /\ ("packet" \in due /\ "packet" \in hooks) =>
              told'["packet"] = Append(told["packet"], no)
  BY TellsCalls DEF Hooks

LEMMA HandleFlow ==
  ASSUME WayInv, HookInv, [Next]_vars
  PROVE  /\ async' = async
         /\ Alike \/ Yields \/ \E c \in Callers : Starts(c) \/ Finishes(c)
<1>1. /\ PlaceInv /\ PacketInv /\ NumberInv /\ sent \in Nat
      /\ 0 \in 0 .. sent /\ 1 .. sent \subseteq 0 .. sent
  BY DEF WayInv, PacketInv
<1>2. /\ "packet" \notin Refusal /\ "packet" \notin {"open"} /\ "packet" \notin {"close"}
      /\ \A p : "packet" \in HandlePacket(p)
  BY DEF Refusal, HandlePacket
<1>3. Quiet => told'["packet"] = told["packet"]
  BY DEF Quiet, callVars
<1>4. CASE PeerSends \/ PeerBreaks \/ TimePasses
  <2>1. UNCHANGED <<async, got, taken>> /\ Wakes /\ Quiet
    BY <1>4 DEF PeerSends, PeerBreaks, TimePasses, Quiet
  <2>2. Handling' = Handling
    BY <1>1, <2>1, WokenMoves, HandlingStays
  <2> QED
    BY <1>3, <2>1, <2>2 DEF Alike
<1>5. CASE Connects \/ Disconnects \/ Closes
  <2>1. UNCHANGED <<async, got, pc, taken>>
    BY <1>5 DEF Connects, Disconnects, Closes
  <2>2. PICK a \in {{"open"}, {"close"}, {}}, b \in {Refusal, {}} : Tells(a \cup b, 0)
    BY <1>5 DEF Connects, Disconnects, Closes
  <2>3. "packet" \notin a \cup b
    BY <1>2
  <2> QED
    BY <1>1, <2>1, <2>2, <2>3, PacketTold DEF Alike, Handling
<1>6. ASSUME NEW c \in Callers, Asks(c) \/ Stirs(c)
      PROVE  async' = async /\ Alike
  <2>1. UNCHANGED <<async, got, taken>> /\ Quiet
    BY <1>6 DEF Asks, Stirs, TaskStep, Quiet
  <2>2. \E from \in {"out", "ended", "asleep"}, to \in {"poll", "check", "out"} : Goes(c, from, to)
    BY <1>6 DEF Asks, Stirs
  <2>3. Handling' = Handling
    BY <1>1, <2>1, <2>2, HandlingMoves
  <2> QED
    BY <1>3, <2>1, <2>3 DEF Alike
<1>7. ASSUME NEW c \in Callers, Thread(c)
      PROVE  async' = async /\ (Alike \/ Starts(c) \/ Finishes(c))
  <2>1. async' = async
    BY <1>7 DEF Thread, Checks, TakesRest, Fetches, FetchFails, GivesUp, Stores, Handles, SendsPong,
                ThreadStep
  <2>2. CASE Checks(c) \/ FetchFails(c) \/ SendsPong(c)
    <3>1. UNCHANGED <<got, taken>>
      BY <2>2 DEF Checks, FetchFails, GivesUp, SendsPong
    <3>2. \E from \in {"check", "fetch", "pong"}, to \in {"next", "ended", "out"} : Goes(c, from, to)
      BY <2>2 DEF Checks, FetchFails, GivesUp, SendsPong
    <3>3. Quiet \/ Tells(Refusal, 0)
      <4>1. FetchFails(c) => Quiet
        BY DEF FetchFails, GivesUp, Quiet
      <4> QED
        BY <2>2, <4>1 DEF Checks, SendsPong
    <3>4. told'["packet"] = told["packet"]
      BY <1>1, <1>2, <1>3, <3>3, PacketTold
    <3>5. Handling' = Handling
      BY <1>1, <3>1, <3>2, HandlingMoves
    <3> QED
      BY <2>1, <3>1, <3>4, <3>5 DEF Alike
  <2>3. CASE Fetches(c)
    <3>1. /\ taken' = taken /\ Quiet
          /\ got' = [got EXCEPT ![c] = Head(wire)]
          /\ \E to \in {"check", "out", "store"} : Goes(c, "fetch", to)
      BY <2>3 DEF Fetches, Quiet
    <3>2. \A d \in Callers : d # c => got'[d] = got[d]
      BY <1>1, <3>1 DEF PacketInv
    <3>3. Handling' = Handling
      BY <1>1, <3>1, <3>2, HandlingMoves
    <3> QED
      BY <1>3, <2>1, <3>1, <3>3 DEF Alike
  <2>4. CASE TakesRest(c) /\ rest = << >>
    <3>1. UNCHANGED <<got, taken>> /\ Quiet /\ Goes(c, "next", "fetch")
      BY <2>4 DEF TakesRest
    <3>2. Handling' = Handling
      BY <1>1, <3>1, HandlingMoves
    <3> QED
      BY <1>3, <2>1, <3>1, <3>2 DEF Alike
  <2>5. CASE TakesRest(c) /\ rest # << >>
    <3> DEFINE p == Head(rest)
               n == p.no
    <3>1. /\ Goes(c, "next", "handle") /\ Quiet
          /\ got' = [got EXCEPT ![c] = <<p>>] /\ taken' = Append(taken, n)
      BY <2>5 DEF TakesRest
    <3>2. n \in 1 .. sent
      BY <1>1, <2>5, FirstNumbers
    <3>3. n \notin Taken
      <4>1. n \in InRest
        BY <1>1, <2>5, PayloadIsSound, FirstAndRest DEF PacketInv, InRest
      <4> QED
        BY <1>1, <4>1 DEF NumberInv
    <3>4. ~async /\ Handling[c] = 0
      BY <1>1, <3>1, PlacesApart DEF Goes, Handling
    <3>5. got'[c] = <<p>> /\ \A d \in Callers : d # c => got'[d] = got[d]
      BY <1>1, <3>1 DEF PacketInv
    <3>6. Head(got'[c]).no = n
      BY <3>5
    <3> HIDE DEF n, p
    <3>7. Handling' = [Handling EXCEPT ![c] = n]
      BY <1>1, <3>1, <3>5, <3>6, HandlingMoves
    <3> QED
      BY <1>3, <2>1, <3>1, <3>2, <3>3, <3>4, <3>7 DEF Starts
  <2>6. CASE Stores(c)
    <3> DEFINE p == Head(got[c])
               n == p.no
    <3>1. /\ Goes(c, "store", "handle") /\ Quiet
          /\ got' = [got EXCEPT ![c] = <<p>>] /\ taken' = Append(taken, n)
      BY <2>6 DEF Stores
    <3>2. n \in 1 .. sent
      BY <1>1, <3>1, FirstNumbers DEF Goes
    <3>3. n \notin Taken
      <4>1. pc[c] = "store" /\ got[c] \in Payloads(sent) /\ got[c] # << >>
        BY <1>1, <3>1 DEF PacketInv, Goes
      <4>2. n \in InHand[c]
        BY <1>1, <4>1, PayloadIsSound, FirstAndRest DEF InHand, Fetched
      <4> QED
        BY <1>1, <4>2 DEF NumberInv
    <3>4. ~async /\ Handling[c] = 0
      BY <1>1, <3>1, PlacesApart DEF Goes, Handling
    <3>5. got'[c] = <<p>> /\ \A d \in Callers : d # c => got'[d] = got[d]
      BY <1>1, <3>1 DEF PacketInv
    <3>6. Head(got'[c]).no = n
      BY <3>5
    <3> HIDE DEF n, p
    <3>7. Handling' = [Handling EXCEPT ![c] = n]
      BY <1>1, <3>1, <3>5, <3>6, HandlingMoves
    <3> QED
      BY <1>3, <2>1, <3>1, <3>2, <3>3, <3>4, <3>7 DEF Starts
  <2>7. CASE Handles(c)
    <3> DEFINE n == Head(got[c]).no
    <3>1. /\ UNCHANGED <<got, taken>> /\ Tells(HandlePacket(Head(got[c])), n)
          /\ \E to \in {"pong", "out"} : Goes(c, "handle", to)
      BY <2>7 DEF Handles
    <3>2. pc[c] = "handle" /\ Handling[c] = n
      BY <3>1 DEF Goes, Handling
    <3>3. n \in 1 .. sent
      BY <1>1, <3>2, FirstNumbers
    <3> HIDE DEF n
    <3>4. "packet" \in hooks => told'["packet"] = Append(told["packet"], n)
      BY <1>1, <1>2, <3>1, <3>3, PacketTold
    <3>5. Handling' = [Handling EXCEPT ![c] = 0]
      BY <1>1, <3>1, HandlingMoves
    <3>6. ~async /\ n # 0
      BY <1>1, <3>2, <3>3, PlacesApart
    <3> QED
      BY <2>1, <3>1, <3>2, <3>4, <3>5, <3>6 DEF Finishes
  <2> QED
    BY <1>7, <2>2, <2>3, <2>4, <2>5, <2>6, <2>7 DEF Thread
<1>8. ASSUME NEW c \in Callers,
             Locks(c) \/ FindsContended(c) \/ YieldsEnd(c) \/ Registers(c) \/ FindsEnd(c)
      PROVE  async' = async /\ Alike
  <2>1. UNCHANGED <<async, got, taken>>
    BY <1>8 DEF Locks, FindsContended, YieldsEnd, Registers, FindsEnd, TaskStep
  <2>2. \E from \in {"poll", "in"}, to \in {"in", "asleep", "out", "ended"} : Goes(c, from, to)
    BY <1>8 DEF Locks, FindsContended, YieldsEnd, Registers, FindsEnd, Unlocks
  <2>3. Quiet \/ Tells({"close"}, 0)
    BY <1>8 DEF Locks, FindsContended, YieldsEnd, Registers, FindsEnd
  <2>4. Handling' = Handling
    BY <1>1, <2>1, <2>2, HandlingMoves
  <2>5. told'["packet"] = told["packet"]
    BY <1>1, <1>2, <1>3, <2>3, PacketTold
  <2> QED
    BY <2>1, <2>4, <2>5 DEF Alike
<1>9. ASSUME NEW c \in Callers, YieldsPacket(c)
      PROVE  async' = async /\ (Alike \/ Yields)
  <2> DEFINE payload == IF rest # << >> THEN rest ELSE Head(wire)
             p == Head(payload)
  <2>1. /\ UNCHANGED <<async, got>> /\ (rest # << >> \/ wire # << >>) /\ pc[c] = "in"
        /\ \/ taken' = taken /\ Quiet /\ (pc' = pc \/ Unlocks(c, "out"))
           \/ /\ payload # << >> /\ p.kind # "Bad" /\ taken' = Append(taken, p.no)
              /\ Unlocks(c, "out")
              /\ \/ Tells(HandlePacket(p), p.no)
                 \/ Tells(HandlePacket(p) \cup Refusal, p.no)
    BY <1>9 DEF YieldsPacket, Ready, TaskStep, Quiet
  <2>2. (payload # << >> /\ p.kind # "Bad") => p.no \in 1 .. sent
    BY <1>1, <2>1, FirstNumbers
  <2>3. async
    BY <1>1, <2>1, PlacesApart
  <2> HIDE DEF payload, p
  <2>4. Handling' = Handling
    <3>1. CASE pc' = pc
      BY <2>1, <3>1 DEF Handling
    <3>2. CASE Unlocks(c, "out")
      BY <1>1, <2>1, <3>2, HandlingMoves DEF Unlocks
    <3> QED
      BY <2>1, <3>1, <3>2
  <2>5. CASE taken' = taken /\ Quiet
    BY <1>3, <2>1, <2>4, <2>5 DEF Alike
  <2>6. CASE /\ payload # << >> /\ p.kind # "Bad" /\ taken' = Append(taken, p.no)
             /\ \/ Tells(HandlePacket(p), p.no)
                \/ Tells(HandlePacket(p) \cup Refusal, p.no)
    <3>1. p.no \in 0 .. sent
      BY <1>1, <2>2, <2>6
    <3>2. "packet" \in HandlePacket(p) /\ "packet" \in HandlePacket(p) \cup Refusal
      BY <1>2
    <3>3. "packet" \in hooks => told'["packet"] = Append(told["packet"], p.no)
      BY <1>1, <2>6, <3>1, <3>2, PacketTold
    <3> QED
      BY <2>1, <2>2, <2>3, <2>4, <2>6, <3>3 DEF Yields
  <2> QED
    BY <2>1, <2>5, <2>6
<1>10. CASE UNCHANGED vars
  BY <1>10 DEF vars, callVars, Alike, Handling
<1> QED
  BY <1>4, <1>5, <1>6, <1>7, <1>8, <1>9, <1>10 DEF Next, Task

LEMMA HandleInit ==
  Init => HandleInv
<1> SUFFICES ASSUME Init
             PROVE  HandleInv
  OBVIOUS
<1>1. \A c \in Callers : Handling[c] = 0
  BY DEF Init, Handling
<1>2. told["packet"] = << >> /\ taken = << >>
  BY DEF Init, Hooks
<1>3. IsInjective(<< >>) /\ ToSet(<< >>) = {}
  BY DEF IsInjective, ToSet
<1> QED
  BY <1>1, <1>2, <1>3 DEF HandleInv, Taken

LEMMA HandleStep ==
  ASSUME WayInv, WayInv', HookInv, HandleInv, [Next]_vars
  PROVE  HandleInv'
<1> DEFINE heard == told["packet"]
<1>1. /\ async' = async /\ hooks' = hooks
      /\ Alike \/ Yields \/ \E c \in Callers : Starts(c) \/ Finishes(c)
  BY HandleFlow, HookStep DEF WayInv
<1>2. /\ \A c \in Callers : Handling[c] # 0 =>
           Handling[c] \in Taken /\ \A d \in Callers : c # d => Handling[c] # Handling[d]
      /\ "packet" \in hooks =>
           IF async THEN heard = taken
           ELSE /\ IsInjective(heard)
                /\ \A n : n \in ToSet(heard) <=> n \in Taken /\ \A c \in Callers : Handling[c] # n
      /\ Taken \subseteq 1 .. sent /\ sent \in Nat /\ taken \in Seq(1 .. sent)
      /\ heard \in Seq(0 .. sent)
  BY DEF HandleInv, WayInv, NumberInv, PacketInv, HookInv, Hooks
<1>3. ASSUME NEW c \in Callers, NEW n, Handling' = [Handling EXCEPT ![c] = n]
      PROVE  Handling'[c] = n /\ \A d \in Callers : d # c => Handling'[d] = Handling[d]
  BY <1>3 DEF Handling
<1>4. ASSUME NEW n \in 1 .. sent, taken' = Append(taken, n)
      PROVE  Taken' = Taken \cup {n}
  <2> DEFINE S == 1 .. sent
  <2>1. taken \in Seq(S) /\ n \in S
    BY <1>2
  <2> HIDE DEF S
  <2>2. /\ ToSet(Append(taken, n)) = ToSet(taken) \cup {n}
        /\ (IsInjective(taken) /\ n \notin ToSet(taken)) => IsInjective(Append(taken, n))
    BY <2>1, AppendedNumber, Zenon
  <2> QED
    BY <1>4, <2>2, Zenon DEF Taken
<1>5. ASSUME NEW n \in 1 .. sent, heard' = Append(heard, n), n \notin ToSet(heard), IsInjective(heard)
      PROVE  ToSet(heard') = ToSet(heard) \cup {n} /\ IsInjective(heard')
  <2> DEFINE S == 0 .. sent
  <2>1. heard \in Seq(S) /\ n \in S
    BY <1>2
  <2> HIDE DEF S, heard
  <2>2. /\ ToSet(Append(heard, n)) = ToSet(heard) \cup {n}
        /\ (IsInjective(heard) /\ n \notin ToSet(heard)) => IsInjective(Append(heard, n))
    BY <2>1, AppendedNumber, Zenon
  <2> QED
    BY <1>5, <2>2, Zenon
<1> HIDE DEF heard
<1>6. CASE Alike
  <2>1. Handling' = Handling /\ taken' = taken /\ heard' = heard /\ Taken' = Taken
    BY <1>6 DEF Alike, heard, Taken
  <2> QED
    BY <1>1, <1>2, <2>1 DEF HandleInv, heard
<1>7. CASE Yields
  <2>1. PICK n \in 1 .. sent :
          taken' = Append(taken, n) /\ ("packet" \in hooks => heard' = Append(heard, n))
    BY <1>7 DEF Yields, heard
  <2>2. async /\ Handling' = Handling /\ Taken' = Taken \cup {n}
    BY <1>4, <1>7, <2>1 DEF Yields
  <2>3. "packet" \in hooks => heard' = taken'
    BY <1>2, <2>1, <2>2
  <2> QED
    BY <1>1, <1>2, <2>2, <2>3 DEF HandleInv, heard
<1>8. ASSUME NEW c \in Callers, Starts(c)
      PROVE  HandleInv'
  <2>1. PICK n \in 1 .. sent :
          /\ n \notin Taken /\ taken' = Append(taken, n)
          /\ Handling' = [Handling EXCEPT ![c] = n]
    BY <1>8 DEF Starts
  <2>2. /\ ~async /\ Handling[c] = 0 /\ heard' = heard /\ Taken' = Taken \cup {n}
        /\ Handling'[c] = n /\ \A d \in Callers : d # c => Handling'[d] = Handling[d]
    BY <1>3, <1>4, <1>8, <2>1 DEF Starts, heard
  <2>3. n # 0 /\ \A d \in Callers : Handling[d] # n
    BY <1>2, <2>1
  <2>4. ASSUME NEW d \in Callers, Handling'[d] # 0
        PROVE  Handling'[d] \in Taken' /\ \A e \in Callers : d # e => Handling'[d] # Handling'[e]
    <3>1. CASE d = c
      BY <2>2, <2>3, <3>1
    <3>2. CASE d # c
      BY <1>2, <2>2, <2>3, <2>4, <3>2
    <3> QED
      BY <3>1, <3>2
  <2>5. ASSUME "packet" \in hooks
        PROVE  /\ IsInjective(heard')
               /\ \A m : m \in ToSet(heard') <=> m \in Taken' /\ \A d \in Callers : Handling'[d] # m
    <3>1. /\ IsInjective(heard)
          /\ \A m : m \in ToSet(heard) <=> m \in Taken /\ \A d \in Callers : Handling[d] # m
      BY <1>2, <2>2, <2>5
    <3>2. ASSUME NEW m, m # n
          PROVE  m \in ToSet(heard) <=> m \in Taken' /\ \A d \in Callers : Handling'[d] # m
      <4>1. m \in Taken' <=> m \in Taken
        BY <2>2, <3>2
      <4>2. m \in Taken => m # 0
        BY <1>2
      <4>3. (m # 0 /\ \A d \in Callers : Handling[d] # m) <=> (m # 0 /\ \A d \in Callers : Handling'[d] # m)
        BY <2>2, <3>2
      <4> QED
        BY <3>1, <4>1, <4>2, <4>3
    <3>3. n \notin ToSet(heard) /\ Handling'[c] = n
      BY <2>1, <2>2, <3>1
    <3> QED
      BY <2>2, <3>1, <3>2, <3>3
  <2> QED
    BY <1>1, <2>2, <2>4, <2>5 DEF HandleInv, heard
<1>9. ASSUME NEW c \in Callers, Finishes(c)
      PROVE  HandleInv'
  <2> DEFINE n == Handling[c]
  <2>1. /\ ~async /\ n # 0 /\ taken' = taken /\ Taken' = Taken
        /\ Handling'[c] = 0 /\ \A d \in Callers : d # c => Handling'[d] = Handling[d]
        /\ "packet" \in hooks => heard' = Append(heard, n)
    BY <1>3, <1>9 DEF Finishes, Taken, heard
  <2>2. n \in Taken /\ n \in 1 .. sent /\ \A d \in Callers : d # c => Handling[d] # n
    BY <1>2, <2>1
  <2>3. Handling[c] = n
    OBVIOUS
  <2> HIDE DEF n
  <2>4. ASSUME NEW d \in Callers, Handling'[d] # 0
        PROVE  Handling'[d] \in Taken' /\ \A e \in Callers : d # e => Handling'[d] # Handling'[e]
    BY <1>2, <2>1, <2>4
  <2>5. ASSUME "packet" \in hooks
        PROVE  /\ IsInjective(heard')
               /\ \A m : m \in ToSet(heard') <=> m \in Taken' /\ \A d \in Callers : Handling'[d] # m
    <3>1. /\ IsInjective(heard)
          /\ \A m : m \in ToSet(heard) <=> m \in Taken /\ \A d \in Callers : Handling[d] # m
      BY <1>2, <2>1, <2>5
    <3>2. n \notin ToSet(heard)
      BY <2>3, <3>1
    <3>3. ToSet(heard') = ToSet(heard) \cup {n} /\ IsInjective(heard')
      BY <1>5, <2>1, <2>2, <2>5, <3>1, <3>2
    <3>4. \A d \in Callers : Handling'[d] # n
      BY <2>1, <2>2
    <3>5. ASSUME NEW m, m # n
          PROVE  m \in ToSet(heard) <=> m \in Taken' /\ \A d \in Callers : Handling'[d] # m
      <4>1. m \in Taken => m # 0
        BY <1>2
      <4>2. (m # 0 /\ \A d \in Callers : Handling[d] # m) <=> (m # 0 /\ \A d \in Callers : Handling'[d] # m)
        BY <2>1, <2>3, <3>5
      <4> QED
        BY <2>1, <3>1, <4>1, <4>2
    <3> QED
      BY <2>1, <2>2, <3>3, <3>4, <3>5
  <2> QED
    BY <1>1, <2>1, <2>4, <2>5 DEF HandleInv, heard
<1> QED
  BY <1>1, <1>6, <1>7, <1>8, <1>9

LEMMA ToldInvariant ==
  Spec => [](WayInv /\ HookInv /\ EndedInv /\ HandleInv)
<1> DEFINE Told == HookInv /\ EndedInv /\ HandleInv
<1>1. Init => Told
  BY HookInit, EndedInit, HandleInit
<1>2. ASSUME WayInv, WayInv', Told, [Next]_vars
      PROVE  Told'
  <2>1. HookInv' /\ EndedInv'
    BY <1>2, HookStep, EndedStep DEF WayInv
  <2>2. HandleInv'
    BY <1>2, HandleStep
  <2> QED
    BY <2>1, <2>2
<1>3. WayInv /\ WayInv' /\ Told /\ [Next]_vars => Told'
  BY <1>2
<1>4. WayInv /\ Told => WayInv /\ HookInv /\ EndedInv /\ HandleInv
  OBVIOUS
<1> HIDE DEF Told
<1> QED
  BY <1>1, <1>3, <1>4, WayInvariant, PTL DEF Spec

(* Theorem: on_packet hears of every packet that was taken, once, in the    *)
(* order of taking when tasks poll; no connection ends without on_close     *)
(* (handle_packet and handle_close of both sockets, Client::poll).          *)
THEOREM CallbacksToldHolds ==
  Spec => []CallbacksTold
<1>1. ASSUME WayInv, HandleInv, EndedInv
      PROVE  CallbacksTold
  <2> DEFINE handled == {Head(got[c]).no : c \in {d \in Callers : pc[d] = "handle"}}
  <2>1. ASSUME NEW n \in Taken
        PROVE  n \in handled <=> \E c \in Callers : Handling[c] = n
    <3>1. n # 0
      BY <1>1 DEF WayInv, NumberInv, PacketInv
    <3> QED
      BY <3>1 DEF Handling
  <2>2. ASSUME "packet" \in hooks, ~async
        PROVE  /\ IsInjective(told["packet"])
               /\ ToSet(told["packet"]) = Taken \ handled
    <3>1. /\ IsInjective(told["packet"])
          /\ \A n : n \in ToSet(told["packet"]) <=>
                     n \in Taken /\ \A c \in Callers : Handling[c] # n
      BY <1>1, <2>2 DEF HandleInv
    <3> HIDE DEF handled
    <3>2. \A n : n \in ToSet(told["packet"]) <=> n \in Taken /\ n \notin handled
      BY <2>1, <3>1
    <3> QED
      BY <3>1, <3>2
  <2>3. ("packet" \in hooks /\ async) => told["packet"] = taken
    BY <1>1 DEF HandleInv
  <2>4. ("close" \in hooks /\ ~connected /\ connects < MaxConnects) => told["close"] # << >>
    BY <1>1 DEF EndedInv
  <2> QED
    BY <2>2, <2>3, <2>4, Zenon DEF CallbacksTold, Taken
<1>2. WayInv /\ HandleInv /\ EndedInv => CallbacksTold
  BY <1>1
<1> QED
  BY <1>2, ToldInvariant, PTL

(* Theorem: type correctness of the callers, their packets and callbacks.   *)
THEOREM TypeCorrect ==
  Spec => []TypeOK
<1>1. ASSUME WayInv, HookInv
      PROVE  TypeOK
  <2>1. /\ async \in BOOLEAN /\ holder \in Callers \cup {Nobody} /\ waker \in Callers \cup {Nobody}
        /\ pc \in [Callers -> {"out", "ended"} \cup IF async THEN TaskAt ELSE ThreadAt]
        /\ \A c \in Callers : pc[c] = "in" <=> holder = c
        /\ waker # Nobody => async /\ stream = "live"
        /\ stream \in {"live", "over", "retired", "closed"}
    BY <1>1 DEF WayInv, PlaceInv, Places
  <2>2. /\ connected \in BOOLEAN /\ alive \in BOOLEAN /\ overdue \in BOOLEAN
        /\ polling \in BOOLEAN /\ armed \in BOOLEAN
        /\ lossy \in BOOLEAN /\ early \subseteq Callers
        /\ connects \in 0 .. MaxConnects /\ payloads \in 0 .. MaxPayloads
    BY <1>1 DEF WayInv, MarkInv
  <2>3. PacketInv /\ sent \in Nat
    BY <1>1 DEF WayInv, PacketInv
  <2>4. wire \in Seq(Seq(Packets))
    <3>1. Payloads(sent) \cup Garbled \subseteq Seq(Packets)
      BY <2>3, PayloadIsSound DEF Garbled
    <3> QED
      BY <2>3, <3>1, SeqMonotonic DEF PacketInv
  <2>5. rest \in Seq(Packets)
    BY <2>3, PayloadIsSound DEF PacketInv
  <2>6. /\ got \in [Callers -> Seq(Packets)] /\ taken \in Seq(1 .. sent)
        /\ \A c \in Callers : pc[c] \in {"store", "handle", "pong"} => got[c] # << >>
    BY <2>3 DEF PacketInv
  <2>7. hooks \subseteq Hooks /\ told \in [Hooks -> Seq(0 .. sent)]
    BY <1>1 DEF HookInv
  <2> QED
    BY <2>1, <2>2, <2>3, <2>4, <2>5, <2>6, <2>7, Zenon DEF TypeOK
<1>2. WayInv /\ HookInv => TypeOK
  BY <1>1
<1> QED
  BY <1>2, ToldInvariant, PTL

=============================================================================
