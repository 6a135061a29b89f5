------------------------- MODULE SharedSocketProofs -------------------------
(***************************************************************************)
(* Machine-checked proofs about SharedSocket, for any number of calls and  *)
(* sessions.                                                               *)
(***************************************************************************)
EXTENDS SharedSocket, SequenceTheorems, TLAPS

-----------------------------------------------------------------------------
(* The queue of the lock: what a task asks for, and that it waits then and  *)
(* has one request.                                                         *)
Wanted ==
  {r \in Requests :
     /\ r.task \in Emitters => ~r.write /\ r.next = "check"
     /\ r.task \in Closers => ~r.write
     /\ r.write <=> r.next = "install"}

QueueInv ==
  /\ queue \in Seq(Wanted)
  /\ \A i \in DOMAIN queue : pc[queue[i].task] = "wait"
  /\ \A i, j \in DOMAIN queue : queue[i].task = queue[j].task => i = j

(* Lemma: RemoveAt leaves the other elements, in their order.               *)
LEMMA RemoveAtProperties ==
  ASSUME NEW S, NEW s \in Seq(S), NEW i \in DOMAIN s
  PROVE  /\ RemoveAt(s, i) \in Seq(S)
         /\ DOMAIN RemoveAt(s, i) = 1 .. Len(s) - 1
         /\ \A j \in 1 .. Len(s) - 1 :
              RemoveAt(s, i)[j] = s[IF j < i THEN j ELSE j + 1]
<1> DEFINE front == SubSeq(s, 1, i - 1)
           back == SubSeq(s, i + 1, Len(s))
<1>1. Len(s) \in Nat /\ i \in 1 .. Len(s) /\ DOMAIN s = 1 .. Len(s)
  BY LenProperties
<1>2. /\ front \in Seq(S) /\ Len(front) = i - 1
      /\ \A j \in 1 .. i - 1 : front[j] = s[j]
  BY <1>1, SubSeqProperties
<1>3. /\ back \in Seq(S) /\ Len(back) = Len(s) - i
      /\ \A j \in 1 .. Len(s) - i : back[j] = s[i + j]
  BY <1>1, SubSeqProperties
<1> DEFINE both == front \o back
<1>4. RemoveAt(s, i) = both
  BY DEF RemoveAt
<1> HIDE DEF front, back
<1>5. /\ both \in Seq(S) /\ Len(both) = Len(front) + Len(back)
      /\ \A j \in 1 .. Len(front) + Len(back) :
           both[j] = IF j <= Len(front) THEN front[j] ELSE back[j - Len(front)]
  BY <1>2, <1>3, ConcatProperties, Zenon
<1> HIDE DEF both
<1>6. DOMAIN both = 1 .. Len(s) - 1
  BY <1>1, <1>2, <1>3, <1>5, LenProperties
<1>7. ASSUME NEW j \in 1 .. Len(s) - 1
      PROVE  both[j] = s[IF j < i THEN j ELSE j + 1]
  <2>1. j \in 1 .. Len(front) + Len(back)
    BY <1>1, <1>2, <1>3
  <2>2. CASE j < i
    BY <1>1, <1>2, <1>5, <2>1, <2>2
  <2>3. CASE ~(j < i)
    <3>1. j - (i - 1) \in 1 .. Len(s) - i /\ i + (j - (i - 1)) = j + 1
      BY <1>1, <2>3
    <3>2. both[j] = back[j - (i - 1)]
      BY <1>1, <1>2, <1>5, <2>1, <2>3
    <3> QED
      BY <1>3, <2>3, <3>1, <3>2
  <2> QED
    BY <2>2, <2>3
<1> QED
  BY <1>4, <1>5, <1>6, <1>7

(* Lemma: what is left of the queue without one of its requests.            *)
LEMMA RemovedRequest ==
  ASSUME QueueInv, NEW i \in DOMAIN queue
  PROVE  LET q == RemoveAt(queue, i) IN
           /\ q \in Seq(Wanted)
           /\ \A j \in DOMAIN q : q[j].task # queue[i].task /\ \E k \in DOMAIN queue : q[j] = queue[k]
           /\ \A j, k \in DOMAIN q : q[j].task = q[k].task => j = k
<1> DEFINE q == RemoveAt(queue, i)
           was(j) == IF j < i THEN j ELSE j + 1
<1>1. DOMAIN queue = 1 .. Len(queue) /\ Len(queue) \in Nat
  BY LenProperties DEF QueueInv
<1>2. /\ q \in Seq(Wanted) /\ DOMAIN q = 1 .. Len(queue) - 1
      /\ \A j \in 1 .. Len(queue) - 1 : q[j] = queue[IF j < i THEN j ELSE j + 1]
  BY RemoveAtProperties DEF QueueInv
<1> HIDE DEF q
<1>3. \A j \in DOMAIN q : was(j) \in DOMAIN queue /\ was(j) # i /\ q[j] = queue[was(j)]
  BY <1>1, <1>2
<1>4. \A j, k \in DOMAIN q : was(j) = was(k) => j = k
  BY <1>1, <1>2
<1>5. \A j, k \in DOMAIN queue : queue[j].task = queue[k].task => j = k
  BY DEF QueueInv
<1> HIDE DEF was
<1>6. \A j \in DOMAIN q : q[j].task # queue[i].task
  BY <1>3, <1>5
<1>7. ASSUME NEW j \in DOMAIN q, NEW k \in DOMAIN q, q[j].task = q[k].task
      PROVE  j = k
  <2>1. queue[was(j)].task = queue[was(k)].task
    BY <1>3, <1>7
  <2> QED
    BY <1>3, <1>4, <1>5, <2>1
<1> QED
  BY <1>2, <1>3, <1>6, <1>7 DEF q

(* Lemma: what a queue holds when another task's request is put behind it.  *)
LEMMA AppendedRequest ==
  ASSUME NEW q \in Seq(Wanted), NEW r \in Wanted,
         \A i \in DOMAIN q : q[i].task # r.task,
         \A i, j \in DOMAIN q : q[i].task = q[j].task => i = j
  PROVE  LET longer == Append(q, r) IN
           /\ longer \in Seq(Wanted)
           /\ \A i \in DOMAIN longer : longer[i] = r \/ \E j \in DOMAIN q : longer[i] = q[j]
           /\ \A i, j \in DOMAIN longer : longer[i].task = longer[j].task => i = j
<1> DEFINE longer == Append(q, r)
<1>1. /\ longer \in Seq(Wanted) /\ Len(longer) = Len(q) + 1
      /\ \A i \in 1 .. Len(q) : longer[i] = q[i]
      /\ longer[Len(q) + 1] = r
      /\ DOMAIN longer = 1 .. Len(q) + 1 /\ DOMAIN q = 1 .. Len(q) /\ Len(q) \in Nat
  BY AppendProperties, LenProperties
<1> HIDE DEF longer
<1>2. \A i \in DOMAIN longer : i \in DOMAIN q \/ i = Len(q) + 1
  BY <1>1
<1>3. ASSUME NEW i \in DOMAIN longer, NEW j \in DOMAIN longer, longer[i].task = longer[j].task
      PROVE  i = j
  <2>1. CASE i = Len(q) + 1 /\ j \in DOMAIN q
    BY <1>1, <1>3, <2>1
  <2>2. CASE i \in DOMAIN q /\ j = Len(q) + 1
    BY <1>1, <1>3, <2>2
  <2>3. CASE i \in DOMAIN q /\ j \in DOMAIN q
    BY <1>1, <1>3, <2>3
  <2> QED
    BY <1>2, <2>1, <2>2, <2>3
<1> QED
  BY <1>1, <1>2, <1>3 DEF longer

(* Lemma: a task that does not wait may queue for the lock.                 *)
LEMMA AskKeepsQueue ==
  ASSUME QueueInv, NEW t \in Tasks, pc[t] # "wait", pc \in [Tasks -> Places],
         NEW write \in BOOLEAN, NEW next \in Places, Ask(t, write, next),
         [task |-> t, write |-> write, next |-> next] \in Wanted
  PROVE  QueueInv' /\ pc' \in [Tasks -> Places]
<1> DEFINE r == [task |-> t, write |-> write, next |-> next]
<1>1. queue' = Append(queue, r) /\ pc' = [pc EXCEPT ![t] = "wait"]
  BY DEF Ask
<1>2. \A i \in DOMAIN queue : queue[i].task # t /\ queue[i].task \in Tasks
  BY ElementOfSeq, LenProperties DEF QueueInv, Wanted, Requests
<1>3. r.task = t
  OBVIOUS
<1> HIDE DEF r
<1>4. /\ queue' \in Seq(Wanted)
      /\ \A i \in DOMAIN queue' : queue'[i] = r \/ \E j \in DOMAIN queue : queue'[i] = queue[j]
      /\ \A i, j \in DOMAIN queue' : queue'[i].task = queue'[j].task => i = j
  BY <1>1, <1>2, <1>3, AppendedRequest DEF QueueInv, r
<1>5. \A i \in DOMAIN queue' : pc'[queue'[i].task] = "wait"
  BY <1>1, <1>2, <1>3, <1>4 DEF QueueInv
<1>6. pc' \in [Tasks -> Places]
  BY <1>1 DEF Places
<1> QED
  BY <1>4, <1>5, <1>6 DEF QueueInv

(* Lemma: a task that does not wait goes on without the queue.              *)
LEMMA GoesKeepsQueue ==
  ASSUME QueueInv, NEW t \in Tasks, pc[t] # "wait", pc \in [Tasks -> Places],
         NEW place \in Places, Goes(t, place), UNCHANGED queue
  PROVE  QueueInv' /\ pc' \in [Tasks -> Places]
<1>1. \A i \in DOMAIN queue : queue[i] \in Wanted
  BY ElementOfSeq, LenProperties DEF QueueInv
<1>2. pc' = [pc EXCEPT ![t] = place] /\ queue' = queue
  BY DEF Goes
<1>3. \A i \in DOMAIN queue : queue[i].task # t /\ queue[i].task \in Tasks
  BY <1>1 DEF QueueInv, Wanted, Requests
<1>4. \A i \in DOMAIN queue : pc'[queue[i].task] = "wait"
  BY <1>2, <1>3 DEF QueueInv
<1> QED
  BY <1>2, <1>4 DEF QueueInv

(* Lemma: so does everyone, when nobody moves.                              *)
LEMMA StillKeepsQueue ==
  ASSUME QueueInv, UNCHANGED <<queue, pc>>
  PROVE  QueueInv'
BY DEF QueueInv

(* Lemma: a request is granted and its task goes on.                        *)
LEMMA GrantKeepsQueue ==
  ASSUME QueueInv, pc \in [Tasks -> Places], NEW i \in DOMAIN queue, NEW place \in Places,
         queue' = RemoveAt(queue, i), pc' = [pc EXCEPT ![queue[i].task] = place]
  PROVE  QueueInv' /\ pc' \in [Tasks -> Places]
<1>1. \A k \in DOMAIN queue : queue[k].task \in Tasks
  BY ElementOfSeq, LenProperties DEF QueueInv, Wanted, Requests
<1>2. /\ queue' \in Seq(Wanted)
      /\ \A j \in DOMAIN queue' :
           queue'[j].task # queue[i].task /\ \E k \in DOMAIN queue : queue'[j] = queue[k]
      /\ \A j, k \in DOMAIN queue' : queue'[j].task = queue'[k].task => j = k
  BY RemovedRequest
<1>3. \A j \in DOMAIN queue' : pc'[queue'[j].task] = "wait"
  BY <1>1, <1>2 DEF QueueInv
<1>4. pc' \in [Tasks -> Places]
  BY DEF Places
<1> QED
  BY <1>2, <1>3, <1>4 DEF QueueInv

-----------------------------------------------------------------------------
(* The lock: a writer is alone, who sends holds a read guard, and who       *)
(* installs a socket holds the write guard.                                 *)
Sending == {"check", "frame", "attachment"}

LockInv ==
  /\ async \in BOOLEAN
  /\ readers \subseteq Tasks /\ writer \in Tasks \cup {None}
  /\ pc \in [Tasks -> Places]
  /\ writer # None => readers = {}
  /\ QueueInv
  /\ \A e \in Emitters : pc[e] \in Sending => e \in readers
  /\ pc[Reader] = "install" => writer = Reader

(* Lemma: a step of t, which may let go of the guards it has.               *)
LEMMA StepKeepsLock ==
  ASSUME LockInv, async' = async, NEW t \in Tasks, NEW place \in Places,
         pc' = [pc EXCEPT ![t] = place], QueueInv',
         readers' = readers \/ readers' = readers \ {t},
         writer' = writer \/ (t = Reader /\ writer' = None),
         t \in Emitters /\ place \in Sending => readers' = readers /\ pc[t] \in Sending,
         t = Reader => place # "install"
  PROVE  LockInv'
<1>1. pc' \in [Tasks -> Places]
  BY DEF LockInv, Places
<1>2. readers' \subseteq Tasks /\ writer' \in Tasks \cup {None} /\ (writer' # None => readers' = {})
  BY DEF LockInv
<1>3. ASSUME NEW e \in Emitters, pc'[e] \in Sending PROVE e \in readers'
  <2>1. e \in Tasks
    BY DEF Tasks
  <2> QED
    BY <1>3, <2>1 DEF LockInv
<1>4. ASSUME pc'[Reader] = "install" PROVE writer' = Reader
  <2>1. Reader \in Tasks
    BY DEF Tasks
  <2> QED
    BY <1>4, <2>1 DEF LockInv
<1> QED
  BY <1>1, <1>2, <1>3, <1>4 DEF LockInv

(* Lemma: t, which does not wait, goes on.                                  *)
LEMMA GoesKeepsLock ==
  ASSUME LockInv, async' = async, NEW t \in Tasks, NEW place \in Places, pc[t] # "wait",
         Goes(t, place), queue' = queue,
         readers' = readers \/ readers' = readers \ {t},
         writer' = writer \/ (t = Reader /\ writer' = None),
         t \in Emitters /\ place \in Sending => readers' = readers /\ pc[t] \in Sending,
         t = Reader => place # "install"
  PROVE  LockInv'
<1>1. QueueInv' /\ pc' = [pc EXCEPT ![t] = place]
  BY GoesKeepsQueue DEF LockInv, Goes
<1> QED
  BY <1>1, StepKeepsLock

(* Lemma: t, which does not wait, asks for a guard.                         *)
LEMMA AskKeepsLock ==
  ASSUME LockInv, async' = async, NEW t \in Tasks, NEW write \in BOOLEAN, NEW next \in Places,
         pc[t] # "wait", Ask(t, write, next),
         [task |-> t, write |-> write, next |-> next] \in Wanted,
         readers' = readers \/ readers' = readers \ {t},
         writer' = writer \/ (t = Reader /\ writer' = None)
  PROVE  LockInv'
<1>1. QueueInv' /\ pc' = [pc EXCEPT ![t] = "wait"]
  BY AskKeepsQueue DEF LockInv, Ask
<1>2. "wait" \in Places /\ "wait" \notin Sending
  BY DEF Places, Sending
<1> QED
  BY <1>1, <1>2, StepKeepsLock

(* Lemma: nobody moves.                                                     *)
LEMMA StillKeepsLock ==
  ASSUME LockInv, UNCHANGED <<async, lockVars, pc>>
  PROVE  LockInv'
BY StillKeepsQueue DEF LockInv, lockVars, QueueInv

(* Lemma: a guard is granted to the task at the place it asked for it.      *)
LEMMA GrantsKeepsLock ==
  ASSUME LockInv, Grants
  PROVE  LockInv'
<1>1. PICK i \in DOMAIN queue :
        /\ Grantable(i)
        /\ queue' = RemoveAt(queue, i)
        /\ pc' = [pc EXCEPT ![queue[i].task] = queue[i].next]
        /\ IF queue[i].write THEN writer' = queue[i].task /\ UNCHANGED readers
           ELSE readers' = readers \cup {queue[i].task} /\ UNCHANGED writer
  BY DEF Grants
<1>2. queue[i] \in Wanted /\ pc[queue[i].task] = "wait"
  BY ElementOfSeq, LenProperties DEF LockInv, QueueInv
<1> DEFINE r == queue[i]
<1>3. /\ r.task \in Tasks /\ r.write \in BOOLEAN /\ r.next \in Places
      /\ r.task \in Emitters => ~r.write
      /\ r.task \in Closers => ~r.write
      /\ r.write <=> r.next = "install"
  BY <1>2 DEF Wanted, Requests
<1>4. QueueInv' /\ pc' \in [Tasks -> Places] /\ async' = async
  BY <1>1, <1>3, GrantKeepsQueue DEF LockInv, Grants
<1>5. writer = None /\ (r.write => readers = {})
  BY <1>1 DEF Grantable
<1>6. r.write => r.task = Reader
  BY <1>3 DEF Tasks
<1> HIDE DEF r
<1>7. /\ pc' = [pc EXCEPT ![r.task] = r.next]
      /\ IF r.write THEN writer' = r.task /\ UNCHANGED readers
         ELSE readers' = readers \cup {r.task} /\ UNCHANGED writer
  BY <1>1 DEF r
<1>8. Reader \in Tasks /\ Emitters \subseteq Tasks /\ None \notin Tasks
  BY SocketAssumption DEF Tasks
<1>9. ASSUME NEW e \in Emitters, pc'[e] \in Sending PROVE e \in readers'
  <2>1. r.task = e => ~r.write
    BY <1>3
  <2> QED
    BY <1>3, <1>5, <1>6, <1>7, <1>8, <1>9, <2>1, SocketAssumption DEF LockInv, Sending
<1>10. ASSUME pc'[Reader] = "install" PROVE writer' = Reader
  BY <1>3, <1>5, <1>6, <1>7, <1>8, <1>10 DEF LockInv
<1>11. readers' \subseteq Tasks /\ writer' \in Tasks \cup {None} /\ (writer' # None => readers' = {})
  BY <1>3, <1>5, <1>7 DEF LockInv
<1> QED
  BY <1>4, <1>9, <1>10, <1>11 DEF LockInv

(* Lemma: a disconnect takes the reader's request and guard with it.        *)
LEMMA FencesKeepsLock ==
  ASSUME LockInv, NEW c \in Closers, CloserFences(c)
  PROVE  LockInv'
<1> DEFINE q == Without(Reader)
           r == [task |-> c, write |-> FALSE, next |-> "leave"]
<1>1. /\ pc[c] = "fenced" /\ async' = async
      /\ pc' = [pc EXCEPT ![Reader] = "aborted", ![c] = "wait"]
      /\ readers' = readers \ {Reader}
      /\ writer' = IF writer = Reader THEN None ELSE writer
      /\ queue' = Append(q, r)
  BY DEF CloserFences, At
<1>2. c \in Tasks /\ Reader \in Tasks /\ c # Reader /\ c \notin Emitters
  BY SocketAssumption DEF Tasks
<1>3. /\ queue \in Seq(Wanted)
      /\ \A i \in DOMAIN queue : queue[i] \in Wanted /\ pc[queue[i].task] = "wait"
      /\ \A i, j \in DOMAIN queue : queue[i].task = queue[j].task => i = j
  BY ElementOfSeq, LenProperties DEF LockInv, QueueInv
<1>4. /\ q \in Seq(Wanted)
      /\ \A i \in DOMAIN q : q[i].task # Reader /\ \E j \in DOMAIN queue : q[i] = queue[j]
      /\ \A i, j \in DOMAIN q : q[i].task = q[j].task => i = j
  <2>1. CASE \E i \in DOMAIN queue : queue[i].task = Reader
    <3> DEFINE k == CHOOSE i \in DOMAIN queue : queue[i].task = Reader
    <3>1. k \in DOMAIN queue /\ queue[k].task = Reader /\ q = RemoveAt(queue, k)
      BY <2>1 DEF Without
    <3> HIDE DEF k, q
    <3> QED
      BY <3>1, RemovedRequest DEF LockInv
  <2>2. CASE ~\E i \in DOMAIN queue : queue[i].task = Reader
    <3>1. q = queue
      BY <2>2 DEF Without
    <3> QED
      BY <1>3, <2>2, <3>1
  <2> QED
    BY <2>1, <2>2
<1> HIDE DEF q
<1>5. \A i \in DOMAIN q : q[i].task # c /\ q[i].task \in Tasks /\ pc[q[i].task] = "wait"
  BY <1>1, <1>3, <1>4 DEF Wanted, Requests
<1>6. r \in Wanted
  BY <1>2 DEF Wanted, Requests, Places
<1>7. r.task = c
  OBVIOUS
<1> HIDE DEF r
<1>8. /\ queue' \in Seq(Wanted)
      /\ \A i \in DOMAIN queue' : queue'[i] = r \/ \E j \in DOMAIN q : queue'[i] = q[j]
      /\ \A i, j \in DOMAIN queue' : queue'[i].task = queue'[j].task => i = j
  BY <1>1, <1>4, <1>5, <1>6, <1>7, AppendedRequest
<1>9. ASSUME NEW t \in Tasks
      PROVE  pc'[t] = IF t = c THEN "wait" ELSE IF t = Reader THEN "aborted" ELSE pc[t]
  BY <1>1, <1>2 DEF LockInv
<1>10. \A i \in DOMAIN queue' : pc'[queue'[i].task] = "wait"
  BY <1>2, <1>4, <1>5, <1>7, <1>8, <1>9
<1>11. pc' \in [Tasks -> Places]
  BY <1>1, <1>2 DEF LockInv, Places
<1>12. readers' \subseteq Tasks /\ writer' \in Tasks \cup {None} /\ (writer' # None => readers' = {})
  BY <1>1 DEF LockInv
<1>13. ASSUME NEW e \in Emitters, pc'[e] \in Sending PROVE e \in readers'
  <2>1. e \in Tasks /\ e # c /\ e # Reader
    BY SocketAssumption DEF Tasks
  <2> QED
    BY <1>1, <1>9, <1>13, <2>1 DEF LockInv
<1>14. pc'[Reader] # "install"
  BY <1>2, <1>9
<1> QED
  BY <1>1, <1>8, <1>10, <1>11, <1>12, <1>13, <1>14 DEF LockInv, QueueInv

(* Lemma: the lock is in order at the start.                                *)
LEMMA InitLock == Init => LockInv
<1> SUFFICES ASSUME Init PROVE LockInv
  OBVIOUS
<1>1. queue \in Seq(Wanted) /\ DOMAIN queue = {}
  BY EmptySeq, LenProperties DEF Init
<1>2. pc \in [Tasks -> Places]
  BY DEF Init, Places
<1>3. \A e \in Emitters : pc[e] = "idle"
  BY SocketAssumption DEF Init, Tasks
<1>4. pc[Reader] = "read"
  BY DEF Init, Tasks
<1> QED
  BY <1>1, <1>2, <1>3, <1>4 DEF Init, LockInv, QueueInv, Sending

(* Lemma: every step of a call keeps the lock in order.                     *)
LEMMA CallsKeepLock ==
  ASSUME LockInv, NEW e \in Emitters,
         EmitterCalls(e) \/ EmitterChecks(e) \/ EmitterSends(e)
  PROVE  LockInv'
<1>1. e \in Tasks /\ e # Reader /\ e \notin Closers /\ async' = async
  BY SocketAssumption DEF Tasks, EmitterCalls, EmitterChecks, EmitterSends
<1>2. CASE EmitterCalls(e)
  <2>1. pc[e] = "idle" /\ Ask(e, FALSE, "check") /\ readers' = readers /\ writer' = writer
    BY <1>2 DEF EmitterCalls, At
  <2>2. [task |-> e, write |-> FALSE, next |-> "check"] \in Wanted /\ "check" \in Places
    BY <1>1 DEF Wanted, Requests, Places
  <2> QED
    BY <1>1, <2>1, <2>2, AskKeepsLock
<1>3. ASSUME pc[e] # "wait", EmitterReturns(e) PROVE LockInv'
  <2>1. "done" \in Places /\ "done" \notin Sending
    BY DEF Places, Sending
  <2> QED
    BY <1>1, <1>3, <2>1, GoesKeepsLock DEF EmitterReturns, Releases
<1>4. CASE EmitterChecks(e)
  <2>1. pc[e] = "check"
    BY <1>4 DEF EmitterChecks, At
  <2>2. CASE Goes(e, "frame") /\ UNCHANGED lockVars
    <3>1. "frame" \in Places /\ "check" \in Sending
      BY DEF Places, Sending
    <3> QED
      BY <1>1, <2>1, <2>2, <3>1, GoesKeepsLock DEF lockVars
  <2> QED
    BY <1>3, <1>4, <2>1, <2>2 DEF EmitterChecks
<1>5. CASE EmitterSends(e)
  <2>1. pc[e] \in {"frame", "attachment"}
    BY <1>5 DEF EmitterSends, At
  <2>2. CASE pc[e] = "frame" /\ Goes(e, "attachment") /\ UNCHANGED lockVars
    <3>1. "attachment" \in Places /\ "frame" \in Sending
      BY DEF Places, Sending
    <3> QED
      BY <1>1, <2>2, <3>1, GoesKeepsLock DEF lockVars
  <2> QED
    BY <1>3, <1>5, <2>1, <2>2 DEF EmitterSends, At
<1> QED
  BY <1>2, <1>4, <1>5

(* Lemma: every step of a disconnect keeps the lock in order.               *)
LEMMA EndsKeepLock ==
  ASSUME LockInv, NEW d \in Enders,
         \/ d \in Closers /\ (CloserCalls(d) \/ CloserFences(d))
         \/ EnderLeaves(d) \/ EnderCloses(d)
  PROVE  LockInv'
<1>1. d \in Tasks /\ d \notin Emitters /\ (d \in Closers => d # Reader)
  BY SocketAssumption DEF Tasks, Enders
<1>2. CASE d \in Closers /\ CloserCalls(d)
  <2>1. pc[d] = "idle" /\ async' = async /\ readers' = readers /\ writer' = writer
    BY <1>2 DEF CloserCalls, At
  <2>2. CASE Goes(d, "fenced") /\ UNCHANGED queue
    <3>1. "fenced" \in Places
      BY DEF Places
    <3> QED
      BY <1>1, <1>2, <2>1, <2>2, <3>1, GoesKeepsLock
  <2>3. CASE Ask(d, FALSE, "leave")
    <3>1. [task |-> d, write |-> FALSE, next |-> "leave"] \in Wanted /\ "leave" \in Places
      BY <1>1 DEF Wanted, Requests, Places
    <3> QED
      BY <1>1, <2>1, <2>3, <3>1, AskKeepsLock
  <2> QED
    BY <1>2, <2>2, <2>3 DEF CloserCalls
<1>3. CASE d \in Closers /\ CloserFences(d)
  BY <1>3, FencesKeepsLock
<1>4. CASE EnderLeaves(d)
  <2>1. /\ pc[d] # "wait" /\ async' = async /\ UNCHANGED lockVars
        /\ Goes(d, "goodbye") \/ Goes(d, "close")
    BY <1>4 DEF EnderLeaves, At
  <2>2. "goodbye" \in Places /\ "close" \in Places
    BY DEF Places
  <2> QED
    BY <1>1, <2>1, <2>2, GoesKeepsLock DEF lockVars
<1>5. CASE EnderCloses(d)
  <2>1. /\ pc[d] # "wait" /\ async' = async /\ queue' = queue /\ Releases(d)
        /\ Goes(d, "dial") \/ Goes(d, "done")
    BY <1>5 DEF EnderCloses, At
  <2>2. "dial" \in Places /\ "done" \in Places
    BY DEF Places
  <2> QED
    BY <1>1, <2>1, <2>2, GoesKeepsLock DEF Releases
<1> QED
  BY <1>2, <1>3, <1>4, <1>5

(* Lemma: every step of the reader keeps the lock in order.                 *)
LEMMA ReaderKeepsLock ==
  ASSUME LockInv, ReaderStep
  PROVE  LockInv'
<1>1. Reader \in Tasks /\ Reader \notin Emitters /\ Reader \notin Closers /\ async' = async
  BY SocketAssumption
     DEF Tasks, ReaderStep, ReaderPolls, ReaderTakes, ReaderLosesStream, ReaderFindsStopped,
         ReaderDials, ReaderInstalls, ReaderConnects, ReaderPongs, ReaderOpens
<1> DEFINE Lets == (UNCHANGED readers \/ readers' = readers \ {Reader})
                   /\ (UNCHANGED writer \/ writer' = None)
<1>2. /\ pc[Reader] # "wait"
      /\ \/ UNCHANGED <<lockVars, pc>>
         \/ Lets /\ \E place \in {"read", "dial", "connect", "pong", "open"} :
                      Goes(Reader, place) /\ UNCHANGED queue
         \/ Lets /\ \E place \in {"poll", "leave", "connect", "open"} : Ask(Reader, FALSE, place)
         \/ Lets /\ Ask(Reader, TRUE, "install")
  <2>1. CASE ReaderPolls
    BY <2>1 DEF ReaderPolls, At
  <2>2. CASE ReaderTakes
    BY <2>2 DEF ReaderTakes, At, Reading, ReaderGoesOn, ReaderLeaves, Releases, lockVars
  <2>3. CASE ReaderLosesStream
    BY <2>3 DEF ReaderLosesStream, At, Reading, ReaderLeaves, Releases, lockVars
  <2>4. CASE ReaderFindsStopped
    BY <2>4 DEF ReaderFindsStopped, At, ReaderGoesOn, Releases, lockVars
  <2>5. CASE ReaderDials
    BY <2>5 DEF ReaderDials, At
  <2>6. CASE ReaderInstalls
    BY <2>6 DEF ReaderInstalls, At
  <2>7. CASE ReaderConnects
    BY <2>7 DEF ReaderConnects, At, lockVars
  <2>8. CASE ReaderPongs
    BY <2>8 DEF ReaderPongs, At, ReaderGivesUp, Releases, lockVars
  <2>9. CASE ReaderOpens
    BY <2>9 DEF ReaderOpens, At, ReaderGivesUp, Releases
  <2> QED
    BY <2>1, <2>2, <2>3, <2>4, <2>5, <2>6, <2>7, <2>8, <2>9 DEF ReaderStep
<1>3. CASE UNCHANGED <<lockVars, pc>>
  BY <1>1, <1>3, StillKeepsLock
<1>4. ASSUME Lets, NEW place \in {"read", "dial", "connect", "pong", "open"},
             Goes(Reader, place), UNCHANGED queue
      PROVE  LockInv'
  <2>1. place \in Places /\ place # "install"
    BY DEF Places
  <2> QED
    BY <1>1, <1>2, <1>4, <2>1, GoesKeepsLock
<1>5. ASSUME Lets, NEW place \in {"poll", "leave", "connect", "open"}, Ask(Reader, FALSE, place)
      PROVE  LockInv'
  <2>1. place \in Places /\ [task |-> Reader, write |-> FALSE, next |-> place] \in Wanted
    BY <1>1 DEF Wanted, Requests, Places
  <2> QED
    BY <1>1, <1>2, <1>5, <2>1, AskKeepsLock
<1>6. CASE Lets /\ Ask(Reader, TRUE, "install")
  <2>1. "install" \in Places /\ [task |-> Reader, write |-> TRUE, next |-> "install"] \in Wanted
    BY <1>1 DEF Wanted, Requests, Places
  <2> QED
    BY <1>1, <1>2, <1>6, <2>1, AskKeepsLock
<1> QED
  BY <1>2, <1>3, <1>4, <1>5, <1>6

(* Theorem: in every run a writer is alone, who sends holds a read guard    *)
(* and who installs a socket the write guard (RwLock of the socket).        *)
THEOREM LockInOrder == Spec => []LockInv
<1>1. Init => LockInv
  BY InitLock
<1>2. LockInv /\ [Next]_vars => LockInv'
  <2> SUFFICES ASSUME LockInv, [Next]_vars PROVE LockInv'
    OBVIOUS
  <2>1. CASE Grants
    BY <2>1, GrantsKeepsLock
  <2>2. ASSUME NEW s \in Sessions, PeerStalls(s) \/ PeerBreaks(s) PROVE LockInv'
    BY <2>2, StillKeepsLock DEF PeerStalls, PeerBreaks
  <2>3. ASSUME NEW e \in Emitters, EmitterCalls(e) \/ EmitterChecks(e) \/ EmitterSends(e)
        PROVE  LockInv'
    BY <2>3, CallsKeepLock
  <2>4. ASSUME NEW c \in Closers, CloserCalls(c) \/ CloserFences(c) PROVE LockInv'
    BY <2>4, EndsKeepLock DEF Enders
  <2>5. ASSUME NEW d \in Enders, EnderLeaves(d) \/ EnderCloses(d) PROVE LockInv'
    BY <2>5, EndsKeepLock
  <2>6. CASE ReaderStep
    BY <2>6, ReaderKeepsLock
  <2>7. CASE UNCHANGED vars
    BY <2>7, StillKeepsLock DEF vars
  <2> QED
    BY <2>1, <2>2, <2>3, <2>4, <2>5, <2>6, <2>7 DEF Next
<1> QED
  BY <1>1, <1>2, PTL DEF Spec

-----------------------------------------------------------------------------
(* The sockets and their connections.                                       *)
NetTypes ==
  /\ cur \in Sessions /\ made \in Sessions
  /\ engine \in [Sessions -> {"none", "built", "open", "shut", "closed"}]
  /\ flag \in [Sessions -> BOOLEAN]
  /\ peer \in [Sessions -> {"alive", "stalled", "broken"}]
  /\ wire \in [Sessions -> Seq(Frames)]

(* Lemma: a frame that is written.                                          *)
LEMMA WrittenTypes ==
  ASSUME NetTypes, NEW t \in Tasks, NEW part \in 0 .. 2, Written(t, part),
         UNCHANGED <<cur, made>>
  PROVE  NetTypes'
<1>1. Of(t) \in Sessions /\ <<t, part>> \in Frames
  BY DEF Of, NetTypes, Frames
<1>2. wire[Of(t)] \in Seq(Frames)
  BY <1>1 DEF NetTypes
<1>3. Append(wire[Of(t)], <<t, part>>) \in Seq(Frames)
  BY <1>1, <1>2, AppendProperties
<1>4. wire' = [wire EXCEPT ![Of(t)] = Append(wire[Of(t)], <<t, part>>)]
      /\ UNCHANGED <<engine, flag, peer>>
  BY DEF Written
<1>5. wire' \in [Sessions -> Seq(Frames)]
  BY <1>3, <1>4 DEF NetTypes
<1> QED
  BY <1>4, <1>5 DEF NetTypes

(* Lemma: every step keeps the types of the sockets.                        *)
LEMMA StepKeepsNet ==
  ASSUME NetTypes, [Next]_vars
  PROVE  NetTypes'
<1> USE SocketAssumption
<1>0. Reader \in Tasks /\ Emitters \subseteq Tasks /\ Closers \subseteq Tasks /\ Enders \subseteq Tasks
  BY DEF Tasks, Enders
<1>1. CASE UNCHANGED <<cur, made, netVars>>
  BY <1>1 DEF NetTypes, netVars
<1>2. ASSUME NEW s \in Sessions, PeerStalls(s) \/ PeerBreaks(s) PROVE NetTypes'
  BY <1>2 DEF PeerStalls, PeerBreaks, NetTypes
<1>3. ASSUME NEW e \in Emitters, EmitterSends(e) PROVE NetTypes'
  <2>1. UNCHANGED <<cur, made>>
    BY <1>3 DEF EmitterSends
  <2>2. CASE Written(e, 0) \/ Written(e, 1) \/ Written(e, 2)
    BY <1>0, <2>1, <2>2, WrittenTypes
  <2>3. CASE UNCHANGED netVars
    BY <1>1, <2>1, <2>3
  <2> QED
    BY <1>3, <2>2, <2>3 DEF EmitterSends, Lost
<1>4. ASSUME NEW d \in Enders, EnderLeaves(d) PROVE NetTypes'
  <2>1. UNCHANGED <<cur, made>>
    BY <1>4 DEF EnderLeaves
  <2>2. CASE Written(d, 0)
    BY <1>0, <2>1, <2>2, WrittenTypes
  <2>3. CASE UNCHANGED netVars
    BY <1>1, <2>1, <2>3
  <2> QED
    BY <1>4, <2>2, <2>3 DEF EnderLeaves, Lost
<1>5. ASSUME NEW d \in Enders, EnderCloses(d) PROVE NetTypes'
  BY <1>5 DEF EnderCloses, NetTypes
<1>6. CASE ReaderTakes
  BY <1>6 DEF ReaderTakes, NetTypes
<1>7. CASE ReaderLosesStream
  BY <1>7 DEF ReaderLosesStream, NetTypes
<1>8. CASE ReaderDials
  <2>1. made' \in Sessions
    BY <1>8 DEF ReaderDials, NetTypes, Sessions
  <2> QED
    BY <1>8, <2>1 DEF ReaderDials, NetTypes
<1>9. CASE ReaderInstalls
  BY <1>9 DEF ReaderInstalls, NetTypes, netVars
<1>10. CASE ReaderConnects
  BY <1>10 DEF ReaderConnects, NetTypes
<1>11. CASE ReaderPongs
  BY <1>11 DEF ReaderPongs, NetTypes
<1>12. CASE ReaderOpens
  <2>1. UNCHANGED <<cur, made>>
    BY <1>12 DEF ReaderOpens
  <2>2. CASE Written(Reader, 0)
    BY <1>0, <2>1, <2>2, WrittenTypes
  <2>3. CASE UNCHANGED netVars
    BY <1>1, <2>1, <2>3
  <2> QED
    BY <1>12, <2>2, <2>3 DEF ReaderOpens
<1>13. CASE Grants \/ ReaderPolls \/ ReaderFindsStopped
  BY <1>1, <1>13 DEF Grants, ReaderPolls, ReaderFindsStopped
<1>14. ASSUME NEW e \in Emitters, EmitterCalls(e) \/ EmitterChecks(e) PROVE NetTypes'
  BY <1>1, <1>14 DEF EmitterCalls, EmitterChecks
<1>15. ASSUME NEW c \in Closers, CloserCalls(c) \/ CloserFences(c) PROVE NetTypes'
  BY <1>1, <1>15 DEF CloserCalls, CloserFences
<1>16. CASE UNCHANGED vars
  BY <1>1, <1>16 DEF vars
<1> QED
  BY <1>2, <1>3, <1>4, <1>5, <1>6, <1>7, <1>8, <1>9, <1>10, <1>11, <1>12, <1>13, <1>14, <1>15,
     <1>16
  DEF Next, ReaderStep

(* Lemma: the sockets at the start.                                         *)
LEMMA InitNet == Init => NetTypes
<1> SUFFICES ASSUME Init PROVE NetTypes
  OBVIOUS
<1>1. 1 \in Sessions
  BY SocketAssumption DEF Sessions
<1>2. << <<Reader, 0>> >> \in Seq(Frames) /\ <<>> \in Seq(Frames)
  BY DEF Frames, Tasks
<1>3. wire \in [Sessions -> Seq(Frames)]
  BY <1>2 DEF Init
<1> QED
  BY <1>1, <1>3 DEF Init, NetTypes

(* Theorem: the types, for any number of calls and sessions.                *)
THEOREM TypeCorrect == Spec => []TypeOK
<1>1. Init => NetTypes
  BY InitNet
<1>2. NetTypes /\ [Next]_vars => NetTypes'
  BY StepKeepsNet
<1>3. LockInv /\ NetTypes => TypeOK
  <2> SUFFICES ASSUME LockInv, NetTypes PROVE TypeOK
    OBVIOUS
  <2>1. queue \in Seq(Wanted) /\ Wanted \subseteq Requests
    BY DEF LockInv, QueueInv, Wanted
  <2>2. queue \in Seq(Requests)
    BY <2>1
  <2> QED
    BY <2>2 DEF TypeOK, LockInv, NetTypes
<1> QED
  BY <1>1, <1>2, <1>3, LockInOrder, PTL DEF Spec

-----------------------------------------------------------------------------
(* Lemma: what is on the connections after a frame was written.             *)
LEMMA WrittenFrame ==
  ASSUME NetTypes, NEW t \in Tasks, NEW part, Written(t, part)
  PROVE  LET s == Of(t)
             n == Len(wire[s])
         IN  /\ s \in Sessions /\ n \in Nat
             /\ DOMAIN wire[s] = 1 .. n /\ DOMAIN wire'[s] = 1 .. n + 1
             /\ \A i \in 1 .. n : wire'[s][i] = wire[s][i]
             /\ wire'[s][n + 1] = <<t, part>>
             /\ \A r \in Sessions \ {s} : wire'[r] = wire[r]
<1>1. Of(t) \in Sessions
  BY DEF Of, NetTypes
<1>2. wire[Of(t)] \in Seq(Frames)
  BY <1>1 DEF NetTypes
<1>3. wire'[Of(t)] = Append(wire[Of(t)], <<t, part>>)
      /\ \A r \in Sessions \ {Of(t)} : wire'[r] = wire[r]
  BY <1>1 DEF Written, NetTypes
<1> DEFINE old == wire[Of(t)]
           any == {old[i] : i \in DOMAIN old} \cup {<<t, part>>}
<1>4. old \in Seq(any)
  BY <1>2
<1> HIDE DEF old
<1>5. /\ Len(Append(old, <<t, part>>)) = Len(old) + 1
      /\ Append(old, <<t, part>>) \in Seq(any)
      /\ \A i \in 1 .. Len(old) : Append(old, <<t, part>>)[i] = old[i]
      /\ Append(old, <<t, part>>)[Len(old) + 1] = <<t, part>>
      /\ DOMAIN old = 1 .. Len(old) /\ Len(old) \in Nat
  BY <1>4, AppendProperties, LenProperties
<1>6. DOMAIN Append(old, <<t, part>>) = 1 .. Len(old) + 1
  BY <1>5, LenProperties
<1> QED
  BY <1>1, <1>3, <1>5, <1>6 DEF old

(* Who has sent a header only has sent it on the socket that is installed.  *)
HeaderSent ==
  \A e \in Emitters : pc[e] = "attachment" => \E j \in DOMAIN wire[cur] : wire[cur][j] = <<e, 1>>

PacketInv == PacketUndivided /\ HeaderSent

(* Lemma: the calls that are between their frames were before the step,     *)
(* unless it wrote a header.                                                *)
LEMMA NoNewAttachment ==
  ASSUME LockInv, [Next]_vars, ~\E e \in Emitters : EmitterSends(e),
         NEW x \in Emitters, pc'[x] = "attachment"
  PROVE  pc[x] = "attachment"
<1>0. x \in Tasks /\ x \notin Enders /\ x # Reader
  BY SocketAssumption DEF Tasks, Enders
<1>1. ASSUME NEW t \in Tasks, NEW place, Goes(t, place), place # "attachment" \/ t # x
      PROVE  pc[x] = "attachment"
  BY <1>0, <1>1 DEF Goes, LockInv
<1>2. ASSUME NEW t \in Tasks, NEW write, NEW next, Ask(t, write, next)
      PROVE  pc[x] = "attachment"
  BY <1>0, <1>2 DEF Ask, LockInv
<1>3. CASE UNCHANGED pc
  BY <1>3
<1>4. CASE Grants
  <2>1. PICK i \in DOMAIN queue : pc' = [pc EXCEPT ![queue[i].task] = queue[i].next]
    BY <1>4 DEF Grants
  <2>2. queue[i] \in Wanted
    BY ElementOfSeq, LenProperties DEF LockInv, QueueInv
  <2>3. queue[i].task = x => queue[i].next = "check"
    BY <2>2 DEF Wanted
  <2> QED
    BY <1>0, <2>1, <2>3 DEF LockInv
<1>5. ASSUME NEW e \in Emitters, EmitterCalls(e) \/ EmitterChecks(e) PROVE pc[x] = "attachment"
  <2>1. e \in Tasks
    BY DEF Tasks
  <2> QED
    BY <1>1, <1>2, <1>5, <2>1 DEF EmitterCalls, EmitterChecks, EmitterReturns
<1>6. ASSUME NEW c \in Closers, CloserCalls(c) PROVE pc[x] = "attachment"
  <2>1. c \in Tasks
    BY DEF Tasks
  <2> QED
    BY <1>1, <1>2, <1>6, <2>1 DEF CloserCalls
<1>7. ASSUME NEW c \in Closers, CloserFences(c) PROVE pc[x] = "attachment"
  <2>1. x # c
    BY <1>0 DEF Enders
  <2> QED
    BY <1>0, <1>7, <2>1 DEF CloserFences, LockInv
<1>8. ASSUME NEW d \in Enders, EnderLeaves(d) \/ EnderCloses(d) PROVE pc[x] = "attachment"
  <2>1. d \in Tasks /\ d # x
    BY <1>0 DEF Tasks, Enders
  <2> QED
    BY <1>1, <1>8, <2>1 DEF EnderLeaves, EnderCloses
<1>9. CASE ReaderStep
  <2>1. Reader \in Tasks
    BY DEF Tasks
  <2>2. UNCHANGED pc \/ (\E place : Goes(Reader, place))
        \/ \E write, next : Ask(Reader, write, next)
    BY <1>9
       DEF ReaderStep, ReaderPolls, ReaderTakes, ReaderLosesStream, ReaderFindsStopped, ReaderDials,
           ReaderInstalls, ReaderConnects, ReaderPongs, ReaderOpens, ReaderGoesOn, ReaderLeaves,
           ReaderGivesUp
  <2> QED
    BY <1>0, <1>1, <1>2, <1>3, <2>1, <2>2
<1>10. ASSUME NEW s \in Sessions, PeerStalls(s) \/ PeerBreaks(s) PROVE pc[x] = "attachment"
  BY <1>3, <1>10 DEF PeerStalls, PeerBreaks
<1>11. CASE UNCHANGED vars
  BY <1>3, <1>11 DEF vars
<1> QED
  BY <1>4, <1>5, <1>6, <1>7, <1>8, <1>9, <1>10, <1>11 DEF Next

(* Lemma: a frame that is no attachment, or one whose header is there,      *)
(* leaves the packets whole.                                                *)
LEMMA FrameKeepsPackets ==
  ASSUME NetTypes, PacketUndivided, NEW t \in Tasks, NEW part, Written(t, part),
         part = 2 /\ t \in Emitters => \E j \in DOMAIN wire[Of(t)] : wire[Of(t)][j] = <<t, 1>>
  PROVE  PacketUndivided'
<1> DEFINE o == Of(t)
           n == Len(wire[o])
<1>1. /\ o \in Sessions /\ n \in Nat
      /\ DOMAIN wire[o] = 1 .. n /\ DOMAIN wire'[o] = 1 .. n + 1
      /\ \A i \in 1 .. n : wire'[o][i] = wire[o][i]
      /\ wire'[o][n + 1] = <<t, part>>
      /\ \A r \in Sessions \ {o} : wire'[r] = wire[r]
  BY WrittenFrame
<1>2. part = 2 /\ t \in Emitters => \E j \in DOMAIN wire[o] : wire[o][j] = <<t, 1>>
  OBVIOUS
<1> HIDE DEF o, n
<1> SUFFICES ASSUME NEW e \in Emitters, NEW s \in Sessions, NEW i \in DOMAIN wire'[s],
                    wire'[s][i] = <<e, 2>>
             PROVE  \E j \in 1 .. i - 1 : wire'[s][j] = <<e, 1>>
  BY DEF PacketUndivided
<1>a. \A r \in Sessions : \A k \in DOMAIN wire[r] :
        wire[r][k] = <<e, 2>> => \E j \in 1 .. k - 1 : wire[r][j] = <<e, 1>>
  BY DEF PacketUndivided
<1>3. CASE s # o
  <2>1. wire'[s] = wire[s]
    BY <1>1, <1>3
  <2> QED
    BY <1>a, <2>1
<1>4. CASE s = o /\ i \in 1 .. n
  <2>0. wire[o][i] = <<e, 2>> /\ i \in DOMAIN wire[o]
    BY <1>1, <1>4
  <2>1. PICK j \in 1 .. i - 1 : wire[o][j] = <<e, 1>>
    BY <1>1, <1>a, <2>0
  <2>2. j \in 1 .. n
    BY <1>1, <1>4
  <2> QED
    BY <1>1, <1>4, <2>1, <2>2
<1>5. CASE s = o /\ i = n + 1
  <2>1. t = e /\ part = 2
    BY <1>1, <1>5
  <2>2. PICK j \in 1 .. n : wire[o][j] = <<e, 1>>
    BY <1>1, <1>2, <2>1
  <2> QED
    BY <1>1, <1>5, <2>2
<1> QED
  BY <1>1, <1>3, <1>4, <1>5

(* Lemma: and every header that was sent.                                   *)
LEMMA FrameKeepsHeaders ==
  ASSUME NetTypes, NEW t \in Tasks, NEW part, Written(t, part), cur' = cur, NEW frame,
         \E j \in DOMAIN wire[cur] : wire[cur][j] = frame
  PROVE  \E j \in DOMAIN wire'[cur'] : wire'[cur'][j] = frame
<1> DEFINE o == Of(t)
           n == Len(wire[o])
<1>1. /\ o \in Sessions /\ n \in Nat
      /\ DOMAIN wire[o] = 1 .. n /\ DOMAIN wire'[o] = 1 .. n + 1
      /\ \A i \in 1 .. n : wire'[o][i] = wire[o][i]
      /\ \A r \in Sessions \ {o} : wire'[r] = wire[r]
  BY WrittenFrame
<1> HIDE DEF o, n
<1>2. cur \in Sessions
  BY DEF NetTypes
<1> QED
  BY <1>1, <1>2

(* Theorem: a packet's frames go out on one connection, the header first,   *)
(* whatever reconnects meanwhile: emit() keeps its read guard.              *)
THEOREM PacketUndividedHolds == Spec => []PacketUndivided
<1>1. Init => PacketInv
  <2> SUFFICES ASSUME Init PROVE PacketInv
    OBVIOUS
  <2>1. \A s \in Sessions : wire[s] = <<>> \/ wire[s] = << <<Reader, 0>> >>
    BY DEF Init
  <2>2. \A e \in Emitters : e # Reader /\ pc[e] # "attachment"
    BY SocketAssumption DEF Init, Tasks
  <2>3. ASSUME NEW e \in Emitters, NEW s \in Sessions, NEW i \in DOMAIN wire[s]
        PROVE  wire[s][i] # <<e, 2>>
    BY <2>1, <2>2
  <2> QED
    BY <2>2, <2>3 DEF PacketInv, PacketUndivided, HeaderSent
<1>2. LockInv /\ NetTypes /\ PacketInv /\ [Next]_vars => PacketInv'
  <2> SUFFICES ASSUME LockInv, NetTypes, PacketInv, [Next]_vars PROVE PacketInv'
    OBVIOUS
  <2>0. /\ Reader \in Tasks /\ Emitters \subseteq Tasks
        /\ Enders \subseteq Tasks /\ Emitters \cap Enders = {} /\ cur \in Sessions
    BY SocketAssumption DEF Tasks, Enders, NetTypes
  <2>1. ASSUME NEW e \in Emitters, EmitterSends(e) PROVE PacketInv'
    <3>0. cur' = cur /\ Of(e) = cur /\ e \in Tasks
      BY <2>0, <2>1, SocketAssumption DEF EmitterSends, Of
    <3>1. ASSUME NEW x \in Emitters, pc'[x] = "attachment"
          PROVE  \/ pc[x] = "attachment"
                 \/ x = e /\ Written(e, 1)
      <4>1. \/ Goes(e, "done")
            \/ Goes(e, "attachment") /\ Written(e, 1)
        BY <2>1 DEF EmitterSends, EmitterReturns
      <4> QED
        BY <2>0, <3>1, <4>1 DEF Goes, LockInv
    <3>2. CASE UNCHANGED netVars
      <4>1. ~Written(e, 1)
        <5> SUFFICES ASSUME Written(e, 1) PROVE FALSE
          OBVIOUS
        <5>1. /\ DOMAIN wire[cur] = 1 .. Len(wire[cur])
              /\ DOMAIN wire'[cur] = 1 .. Len(wire[cur]) + 1 /\ Len(wire[cur]) \in Nat
          BY <3>0, WrittenFrame
        <5> QED
          BY <3>2, <5>1 DEF netVars
      <4> QED
        BY <3>0, <3>1, <3>2, <4>1 DEF PacketInv, PacketUndivided, HeaderSent, netVars
    <3>3. ASSUME NEW part, Written(e, part), part \in {0, 1} \/ (part = 2 /\ pc[e] = "attachment")
          PROVE  PacketInv'
      <4>1. PacketUndivided'
        BY <3>0, <3>3, FrameKeepsPackets DEF PacketInv, HeaderSent
      <4>2. ASSUME NEW x \in Emitters, pc'[x] = "attachment"
            PROVE  \E j \in DOMAIN wire'[cur'] : wire'[cur'][j] = <<x, 1>>
        <5>1. CASE pc[x] = "attachment"
          BY <3>0, <3>3, <5>1, FrameKeepsHeaders DEF PacketInv, HeaderSent
        <5>2. CASE x = e /\ Written(e, 1)
          <6>1. /\ DOMAIN wire'[cur] = 1 .. Len(wire[cur]) + 1 /\ Len(wire[cur]) \in Nat
                /\ wire'[cur][Len(wire[cur]) + 1] = <<e, 1>>
            BY <3>0, <5>2, WrittenFrame
          <6> QED
            BY <3>0, <5>2, <6>1
        <5> QED
          BY <3>1, <4>2, <5>1, <5>2
      <4> QED
        BY <4>1, <4>2 DEF PacketInv, HeaderSent
    <3> QED
      BY <2>1, <3>2, <3>3 DEF EmitterSends, Lost, At
  <2>2. CASE ~\E e \in Emitters : EmitterSends(e)
    <3>1. \A x \in Emitters : pc'[x] = "attachment" => pc[x] = "attachment"
      BY <2>2, NoNewAttachment
    <3>2. CASE UNCHANGED <<cur, wire>>
      BY <3>1, <3>2 DEF PacketInv, PacketUndivided, HeaderSent
    <3>3. ASSUME NEW t \in Enders, Written(t, 0), cur' = cur PROVE PacketInv'
      <4>1. PacketUndivided'
        BY <2>0, <3>3, FrameKeepsPackets DEF PacketInv
      <4> QED
        BY <2>0, <3>1, <3>3, <4>1, FrameKeepsHeaders DEF PacketInv, HeaderSent
    <3>4. CASE ReaderInstalls
      <4>1. readers = {}
        BY <3>4, SocketAssumption DEF ReaderInstalls, At, LockInv
      <4>2. \A e \in Emitters : pc[e] # "attachment"
        BY <4>1 DEF LockInv, Sending
      <4> QED
        BY <3>1, <3>4, <4>2
        DEF ReaderInstalls, PacketInv, PacketUndivided, HeaderSent, netVars
    <3>5. ASSUME NEW d \in Enders, EnderLeaves(d) PROVE PacketInv'
      BY <3>2, <3>3, <3>5 DEF EnderLeaves, Lost, netVars
    <3>6. CASE ReaderOpens
      <4>1. Reader \in Enders
        BY DEF Enders
      <4> QED
        BY <3>2, <3>3, <3>6, <4>1 DEF ReaderOpens, netVars
    <3>7. CASE \/ Grants \/ ReaderPolls \/ ReaderTakes \/ ReaderLosesStream \/ ReaderFindsStopped
               \/ ReaderDials \/ ReaderConnects \/ ReaderPongs
      BY <3>2, <3>7
      DEF Grants, ReaderPolls, ReaderTakes, ReaderLosesStream, ReaderFindsStopped, ReaderDials,
          ReaderConnects, ReaderPongs, netVars
    <3>8. CASE \/ \E s \in Sessions : PeerStalls(s) \/ PeerBreaks(s)
               \/ \E e \in Emitters : EmitterCalls(e) \/ EmitterChecks(e)
               \/ \E c \in Closers : CloserCalls(c) \/ CloserFences(c)
               \/ \E d \in Enders : EnderCloses(d)
               \/ UNCHANGED vars
      BY <3>2, <3>8
      DEF PeerStalls, PeerBreaks, EmitterCalls, EmitterChecks, CloserCalls, CloserFences,
          EnderCloses, vars, netVars
    <3> QED
      BY <2>2, <3>4, <3>5, <3>6, <3>7, <3>8 DEF Next, ReaderStep
  <2> QED
    BY <2>1, <2>2
<1>3. PacketInv => PacketUndivided
  BY DEF PacketInv
<1> QED
  BY <1>1, <1>2, <1>3, LockInOrder, InitNet, StepKeepsNet, PTL DEF Spec

-----------------------------------------------------------------------------
(* The synchronous client installs a socket, or asks for the guard to, only *)
(* when its session has been opened.                                        *)
Installing == pc[Reader] = "install" \/ \E i \in DOMAIN queue : queue[i].write

OpenInv ==
  ~async => /\ OpensFirst
            /\ wire[cur] # <<>>
            /\ Installing => wire[made] # <<>>

(* Lemma: only the step that sends the opening packet begins to install.    *)
LEMMA OnlyOpenedAreInstalled ==
  ASSUME LockInv, ~async, [Next]_vars, ~ReaderOpens, Installing'
  PROVE  Installing
<1>0. /\ Reader \in Tasks /\ Reader \notin Emitters /\ Reader \notin Closers
      /\ queue \in Seq(Wanted) /\ pc \in [Tasks -> Places]
  BY SocketAssumption DEF Tasks, LockInv, QueueInv
<1>1. CASE UNCHANGED <<pc, queue>>
  BY <1>1 DEF Installing
<1>2. ASSUME NEW t \in Tasks, NEW place, place # "install" \/ t # Reader,
             Goes(t, place), UNCHANGED queue
      PROVE  Installing
  BY <1>0, <1>2 DEF Goes, Installing
<1>3. ASSUME NEW t \in Tasks, NEW next \in Places, Ask(t, FALSE, next) PROVE Installing
  <2> DEFINE r == [task |-> t, write |-> FALSE, next |-> next]
  <2>1. queue' = Append(queue, r) /\ pc' = [pc EXCEPT ![t] = "wait"] /\ r \in Requests
    BY <1>3 DEF Ask, Requests
  <2>2. queue \in Seq(Requests)
    BY <1>0 DEF Wanted
  <2>3. /\ DOMAIN queue = 1 .. Len(queue) /\ DOMAIN queue' = 1 .. Len(queue) + 1
        /\ Len(queue) \in Nat
        /\ \A i \in 1 .. Len(queue) : queue'[i] = queue[i]
        /\ queue'[Len(queue) + 1] = r
    BY <2>1, <2>2, AppendProperties, LenProperties
  <2>4. CASE pc'[Reader] = "install"
    BY <1>0, <2>1, <2>4 DEF Installing
  <2>5. ASSUME NEW i \in DOMAIN queue', queue'[i].write PROVE Installing
    BY <2>3, <2>5 DEF Installing
  <2> QED
    BY <2>4, <2>5 DEF Installing
<1>4. CASE Grants
  <2>1. PICK i \in DOMAIN queue :
          queue' = RemoveAt(queue, i) /\ pc' = [pc EXCEPT ![queue[i].task] = queue[i].next]
    BY <1>4 DEF Grants
  <2>2. queue[i] \in Wanted
    BY <1>0, ElementOfSeq, LenProperties
  <2>3. \A j \in DOMAIN queue' : \E k \in DOMAIN queue : queue'[j] = queue[k]
    BY <2>1, RemovedRequest DEF LockInv
  <2>4. queue[i].task = Reader /\ queue[i].next = "install" => queue[i].write
    BY <2>2 DEF Wanted
  <2> QED
    BY <1>0, <2>1, <2>2, <2>3, <2>4 DEF Installing, Wanted, Requests
<1>5. ASSUME NEW e \in Emitters, EmitterCalls(e) \/ EmitterChecks(e) \/ EmitterSends(e)
      PROVE  Installing
  <2>1. e \in Tasks /\ e # Reader /\ "check" \in Places
    BY <1>0 DEF Tasks, Places
  <2>2. \/ Ask(e, FALSE, "check")
        \/ UNCHANGED queue /\ \E place : Goes(e, place)
    BY <1>5 DEF EmitterCalls, EmitterChecks, EmitterSends, EmitterReturns, lockVars
  <2> QED
    BY <1>2, <1>3, <2>1, <2>2
<1>6. ASSUME NEW c \in Closers, CloserCalls(c) PROVE Installing
  <2>1. c \in Tasks /\ "leave" \in Places
    BY DEF Tasks, Places
  <2> QED
    BY <1>3, <1>6, <2>1 DEF CloserCalls
<1>7. ASSUME NEW c \in Closers, CloserFences(c) PROVE Installing
  <2> DEFINE q == Without(Reader)
             r == [task |-> c, write |-> FALSE, next |-> "leave"]
  <2>1. queue' = Append(q, r) /\ pc'[Reader] # "install"
    <3>1. c # Reader
      BY <1>0
    <3> QED
      BY <1>0, <1>7, <3>1 DEF CloserFences
  <2>2. q \in Seq(Requests) /\ \A i \in DOMAIN q : \E j \in DOMAIN queue : q[i] = queue[j]
    <3>1. CASE \E i \in DOMAIN queue : queue[i].task = Reader
      <4> DEFINE k == CHOOSE i \in DOMAIN queue : queue[i].task = Reader
      <4>1. k \in DOMAIN queue /\ q = RemoveAt(queue, k)
        BY <3>1 DEF Without
      <4> HIDE DEF k, q
      <4>2. /\ q \in Seq(Wanted)
            /\ \A j \in DOMAIN q : \E i \in DOMAIN queue : q[j] = queue[i]
        BY <4>1, RemovedRequest DEF LockInv
      <4> QED
        BY <4>2 DEF Wanted
    <3>2. CASE ~\E i \in DOMAIN queue : queue[i].task = Reader
      <4>1. q = queue
        BY <3>2 DEF Without
      <4> QED
        BY <1>0, <4>1 DEF Wanted
    <3> QED
      BY <3>1, <3>2
  <2>3. r \in Requests
    BY DEF Requests, Tasks, Places
  <2> HIDE DEF q
  <2>4. /\ DOMAIN q = 1 .. Len(q) /\ DOMAIN queue' = 1 .. Len(q) + 1 /\ Len(q) \in Nat
        /\ \A i \in 1 .. Len(q) : queue'[i] = q[i]
        /\ queue'[Len(q) + 1] = r
    BY <2>1, <2>2, <2>3, AppendProperties, LenProperties
  <2>5. ASSUME NEW i \in DOMAIN queue', queue'[i].write PROVE Installing
    BY <2>2, <2>4, <2>5 DEF Installing
  <2> QED
    BY <2>1, <2>5 DEF Installing
<1>8. ASSUME NEW d \in Enders, EnderLeaves(d) \/ EnderCloses(d) PROVE Installing
  <2>1. d \in Tasks
    BY DEF Tasks, Enders
  <2>2. /\ UNCHANGED queue
        /\ \E place \in {"goodbye", "close", "dial", "done"} : Goes(d, place)
    BY <1>8 DEF EnderLeaves, EnderCloses, lockVars
  <2> QED
    BY <1>2, <2>1, <2>2
<1>9. CASE ReaderStep
  <2>1. \/ UNCHANGED <<pc, queue>>
        \/ UNCHANGED queue /\ \E place \in {"read", "dial", "connect", "pong", "open"} :
                                 Goes(Reader, place)
        \/ \E place \in {"poll", "leave", "connect", "open"} : Ask(Reader, FALSE, place)
    BY <1>9
    DEF ReaderStep, ReaderPolls, ReaderTakes, ReaderLosesStream, ReaderFindsStopped, ReaderDials,
        ReaderInstalls, ReaderConnects, ReaderPongs, ReaderGoesOn, ReaderLeaves, ReaderGivesUp,
        lockVars
  <2>2. {"poll", "leave", "connect", "open"} \subseteq Places
    BY DEF Places
  <2> QED
    BY <1>0, <1>1, <1>2, <1>3, <2>1, <2>2
<1>10. ASSUME NEW s \in Sessions, PeerStalls(s) \/ PeerBreaks(s) PROVE Installing
  BY <1>1, <1>10 DEF PeerStalls, PeerBreaks, lockVars
<1>11. CASE UNCHANGED vars
  BY <1>1, <1>11 DEF vars, lockVars
<1> QED
  BY <1>4, <1>5, <1>6, <1>7, <1>8, <1>9, <1>10, <1>11 DEF Next

(* Lemma: a frame is never the first but the opening packet of its session. *)
LEMMA FrameKeepsOpening ==
  ASSUME NetTypes, OpensFirst, NEW t \in Tasks, NEW part, Written(t, part),
         wire[Of(t)] = <<>> => t = Reader /\ part = 0
  PROVE  /\ OpensFirst'
         /\ wire'[Of(t)] # <<>>
         /\ \A s \in Sessions : wire[s] # <<>> => wire'[s] # <<>>
<1> DEFINE o == Of(t)
           n == Len(wire[o])
<1>1. /\ o \in Sessions /\ n \in Nat
      /\ DOMAIN wire[o] = 1 .. n /\ DOMAIN wire'[o] = 1 .. n + 1
      /\ \A i \in 1 .. n : wire'[o][i] = wire[o][i]
      /\ wire'[o][n + 1] = <<t, part>>
      /\ \A r \in Sessions \ {o} : wire'[r] = wire[r]
  BY WrittenFrame
<1>2. wire[o] = <<>> => t = Reader /\ part = 0
  OBVIOUS
<1>3. wire[o] = <<>> <=> n = 0
  <2>1. wire[o] \in Seq(Frames)
    BY <1>1 DEF NetTypes
  <2> QED
    BY <2>1
<1> HIDE DEF o, n
<1>4. \A s \in Sessions : wire[s] # <<>> => wire[s][1] = <<Reader, 0>>
  BY DEF OpensFirst
<1>5. wire'[o][1] = <<Reader, 0>>
  <2>1. CASE n = 0
    BY <1>1, <1>2, <1>3, <2>1
  <2>2. CASE n # 0
    <3>1. 1 \in 1 .. n
      BY <1>1, <2>2
    <3> QED
      BY <1>1, <1>3, <1>4, <2>2, <3>1
  <2> QED
    BY <2>1, <2>2
<1>6. wire'[o] # <<>>
  <2>1. 1 \in DOMAIN wire'[o]
    BY <1>1
  <2> QED
    BY <2>1
<1>7. ASSUME NEW s \in Sessions
      PROVE  /\ wire'[s] # <<>> => wire'[s][1] = <<Reader, 0>>
             /\ wire[s] # <<>> => wire'[s] # <<>>
  BY <1>1, <1>4, <1>5, <1>6
<1>8. OpensFirst'
  BY <1>7 DEF OpensFirst
<1> QED
  BY <1>6, <1>7, <1>8 DEF o

(* Theorem: nobody sends on a session of the synchronous client before its  *)
(* opening packet: reconnect() installs a client that connect() returned.   *)
THEOREM InstalledOpenHolds == Spec => []InstalledOpen
<1>1. Init => OpenInv
  <2> SUFFICES ASSUME Init PROVE OpenInv
    OBVIOUS
  <2>1. \A s \in Sessions : wire[s] = IF s = 1 THEN << <<Reader, 0>> >> ELSE <<>>
    BY DEF Init
  <2>2. 1 \in Sessions /\ cur = 1 /\ made = 1
    BY SocketAssumption DEF Init, Sessions
  <2>3. << <<Reader, 0>> >> # <<>> /\ << <<Reader, 0>> >>[1] = <<Reader, 0>>
    OBVIOUS
  <2>4. OpensFirst
    BY <2>1, <2>3 DEF OpensFirst
  <2> QED
    BY <2>1, <2>2, <2>3, <2>4 DEF OpenInv
<1>2. LockInv /\ NetTypes /\ OpenInv /\ [Next]_vars => OpenInv'
  <2> SUFFICES ASSUME LockInv, NetTypes, OpenInv, [Next]_vars, ~async' PROVE OpenInv'
    BY DEF OpenInv
  <2>0. /\ ~async
        /\ Reader \in Tasks /\ Emitters \subseteq Tasks /\ Enders \subseteq Tasks
        /\ cur \in Sessions /\ made \in Sessions
    <3>1. async' = async
      BY DEF Next, vars, Grants, PeerStalls, PeerBreaks, EmitterCalls, EmitterChecks, EmitterSends,
             CloserCalls, CloserFences, EnderLeaves, EnderCloses, ReaderStep, ReaderPolls,
             ReaderTakes, ReaderLosesStream, ReaderFindsStopped, ReaderDials, ReaderInstalls,
             ReaderConnects, ReaderPongs, ReaderOpens
    <3> QED
      BY <3>1 DEF Tasks, Enders, NetTypes
  <2>1. OpensFirst /\ wire[cur] # <<>> /\ (Installing => wire[made] # <<>>)
    BY <2>0 DEF OpenInv
  <2>2. CASE ReaderOpens
    <3>1. pc[Reader] = "open" /\ cur' = cur /\ made' = made
      BY <2>2 DEF ReaderOpens, At
    <3>2. CASE Written(Reader, 0)
      <4>1. Of(Reader) = made
        BY <3>1 DEF Of, Connecting
      <4>2. /\ OpensFirst' /\ wire'[made] # <<>>
            /\ \A s \in Sessions : wire[s] # <<>> => wire'[s] # <<>>
        BY <2>0, <2>1, <3>2, <4>1, FrameKeepsOpening
      <4> QED
        BY <2>0, <2>1, <3>1, <4>2 DEF OpenInv
    <3>3. CASE ReaderGivesUp /\ UNCHANGED netVars
      <4>1. ~Installing' \/ Installing
        BY <2>0, <3>3 DEF ReaderGivesUp, Goes, Installing, LockInv
      <4> QED
        BY <2>1, <3>1, <3>3, <4>1 DEF OpenInv, OpensFirst, netVars
    <3> QED
      BY <2>2, <3>2, <3>3 DEF ReaderOpens
  <2>3. CASE ~ReaderOpens
    <3>1. Installing' => Installing
      BY <2>0, <2>3, OnlyOpenedAreInstalled
    <3>2. CASE UNCHANGED <<cur, made, wire>>
      BY <2>1, <3>1, <3>2 DEF OpenInv, OpensFirst
    <3>3. ASSUME NEW t \in Tasks, NEW part, Written(t, part), Of(t) = cur, UNCHANGED <<cur, made>>
          PROVE  OpenInv'
      <4>1. OpensFirst' /\ \A s \in Sessions : wire[s] # <<>> => wire'[s] # <<>>
        BY <2>1, <3>3, FrameKeepsOpening
      <4> QED
        BY <2>0, <2>1, <3>1, <3>3, <4>1 DEF OpenInv
    <3>4. CASE ReaderInstalls
      <4>1. /\ pc[Reader] = "install" /\ cur' = made /\ made' = made /\ wire' = wire
        BY <3>4 DEF ReaderInstalls, At, netVars
      <4>2. wire[made] # <<>>
        BY <2>1, <4>1 DEF Installing
      <4> QED
        BY <2>1, <4>1, <4>2 DEF OpenInv, OpensFirst
    <3>5. CASE ReaderDials
      <4>1. /\ pc[Reader] = "dial" /\ cur' = cur /\ wire' = wire /\ queue' = queue
            /\ pc' = [pc EXCEPT ![Reader] = "connect"]
        BY <2>0, <3>5 DEF ReaderDials, At, Goes
      <4>2. \A i \in DOMAIN queue : ~queue[i].write
        <5>1. \A i \in DOMAIN queue : queue[i] \in Wanted /\ pc[queue[i].task] = "wait"
          BY ElementOfSeq, LenProperties DEF LockInv, QueueInv
        <5> QED
          BY <4>1, <5>1 DEF Wanted, Requests, Tasks
      <4>3. ~Installing'
        BY <2>0, <4>1, <4>2 DEF Installing, LockInv
      <4> QED
        BY <2>1, <4>1, <4>3 DEF OpenInv, OpensFirst
    <3>6. ASSUME NEW e \in Emitters, EmitterSends(e) PROVE OpenInv'
      <4>1. UNCHANGED <<cur, made>> /\ Of(e) = cur
        BY <3>6, SocketAssumption DEF EmitterSends, Of
      <4>2. UNCHANGED netVars \/ \E part : Written(e, part)
        BY <3>6 DEF EmitterSends, Lost
      <4> QED
        BY <2>0, <3>2, <3>3, <4>1, <4>2 DEF netVars
    <3>7. ASSUME NEW d \in Enders, EnderLeaves(d) PROVE OpenInv'
      <4>1. UNCHANGED <<cur, made>> /\ Of(d) = cur
        BY <3>7 DEF EnderLeaves, At, Of, Connecting
      <4>2. UNCHANGED netVars \/ \E part : Written(d, part)
        BY <3>7 DEF EnderLeaves, Lost
      <4> QED
        BY <2>0, <3>2, <3>3, <4>1, <4>2 DEF netVars
    <3>8. CASE \/ Grants \/ ReaderPolls \/ ReaderTakes \/ ReaderLosesStream \/ ReaderFindsStopped
               \/ ReaderConnects \/ ReaderPongs
      BY <3>2, <3>8
      DEF Grants, ReaderPolls, ReaderTakes, ReaderLosesStream, ReaderFindsStopped,
          ReaderConnects, ReaderPongs, netVars
    <3>9. CASE \/ \E s \in Sessions : PeerStalls(s) \/ PeerBreaks(s)
               \/ \E e \in Emitters : EmitterCalls(e) \/ EmitterChecks(e)
               \/ \E c \in Closers : CloserCalls(c) \/ CloserFences(c)
               \/ \E d \in Enders : EnderCloses(d)
               \/ UNCHANGED vars
      BY <3>2, <3>9
      DEF PeerStalls, PeerBreaks, EmitterCalls, EmitterChecks, CloserCalls, CloserFences,
          EnderCloses, vars, netVars
    <3> QED
      BY <2>3, <3>4, <3>5, <3>6, <3>7, <3>8, <3>9 DEF Next, ReaderStep
  <2> QED
    BY <2>2, <2>3
<1>3. OpenInv => InstalledOpen
  BY DEF OpenInv, InstalledOpen
<1> QED
  BY <1>1, <1>2, <1>3, LockInOrder, InitNet, StepKeepsNet, PTL DEF Spec
=============================================================================
