----------------------------- MODULE LinkProofs -----------------------------
(***************************************************************************)
(* The transport under a built client is the one the server reads; packets *)
(* sent one at a time reach it whole and in order, for any number of       *)
(* senders and packets; and callbacks are called for what it sends, for    *)
(* any number of packets and batches. Decoders undo encoders.              *)
(***************************************************************************)
EXTENDS Link, SequenceTheorems, WellFoundedInduction, TLAPS

(* Where a build is, against what the server has been told: a build without *)
(* a handshake has no session, one that considers or tries the upgrade has  *)
(* a session that is still served by polling, and the URLs name it.         *)
Building == {"handshake", "offer", "dial", "probe", "pong"}

BuildInv ==
  /\ mode = "Websocket" => ~clone /\ carrier = "websocket" /\ step # "offer"
  /\ step = "handshake" => sid = 0 /\ (carrier = "websocket" => mode = "Websocket")
  /\ step = "dial" => (sid = 0 <=> mode = "Websocket")
  /\ step \in {"offer", "probe", "pong"} => sid # 0 /\ mode # "Websocket"
  /\ step = "offer" => carrier = "polling"
  /\ step \in {"dial", "probe", "pong"} => carrier = "websocket"
  /\ step \in {"offer", "dial", "probe", "pong"} /\ sid # 0 => serves[sid] = "polling"
  /\ step \in Building => url \in Urls /\ url.sid = sid
  /\ step = "handshake" /\ carrier = "websocket" => base = [sid |-> 0, transport |-> "websocket"]
  /\ step \in {"probe", "pong"} => base = [sid |-> sid, transport |-> "websocket"]

HandshakeInv == HandshakeTypeOK /\ BuildInv /\ SessionServed

LEMMA InitHandshake == Init => HandshakeInv
<1> SUFFICES ASSUME Init PROVE HandshakeInv
  OBVIOUS
<1>1. url \in Urls /\ url.sid = 0
  <2>1. PICK given \in [scheme : Schemes, path : {"/", "own"}, sid : {0}] : url = NewUrl(given)
    BY DEF Init, HandshakeInit
  <2> QED
    BY <2>1 DEF NewUrl, Urls
<1>2. /\ base = [sid |-> 0, transport |-> "none"] /\ mode \in Modes /\ clone = (mode = "Any")
      /\ step = IF mode = "Websocket" THEN "dial" ELSE "handshake"
      /\ sid = 0 /\ offered = FALSE
      /\ carrier = IF mode = "Websocket" THEN "websocket" ELSE "polling"
      /\ serves = [s \in Sids |-> "none"]
  BY DEF Init, HandshakeInit, NoBase
<1>3. HandshakeTypeOK
  BY <1>1, <1>2 DEF HandshakeTypeOK, Modes, Transports, Sids
<1>4. BuildInv /\ SessionServed
  BY <1>1, <1>2 DEF BuildInv, SessionServed, Built, Building
<1> QED
  BY <1>3, <1>4 DEF HandshakeInv

(* A failed build keeps nothing of its session, whatever the server made of *)
(* it: the fallback starts without a handshake.                             *)
LEMMA FailureForgets ==
  ASSUME HandshakeInv, BuildFails, UNCHANGED mode, step \in Building,
         serves' \in [Sids -> Transports \cup {"none"}]
  PROVE  HandshakeInv'
<1> USE DEF HandshakeInv, HandshakeTypeOK, BuildInv, BuildFails, NoBase, Building, Urls
<1>1. url' \in Urls \cup {NoUrl} /\ (clone => url' \in Urls /\ url'.sid = 0)
  OBVIOUS
<1>2. HandshakeTypeOK'
  BY <1>1 DEF Transports
<1>3. BuildInv' /\ SessionServed'
  BY <1>1 DEF SessionServed, Built
<1> QED
  BY <1>2, <1>3

(* A build that ends has used its builder up, and leaves what the server    *)
(* reads of its session and what its transport names.                       *)
LEMMA EndKeeps ==
  ASSUME HandshakeInv, Finishes, UNCHANGED mode,
         sid' \in Sids, carrier' \in Transports,
         base' = [sid |-> IF mode = "Websocket" THEN 0 ELSE sid', transport |-> carrier'],
         serves' \in [Sids -> Transports \cup {"none"}], serves'[sid'] = carrier',
         mode = "Websocket" => carrier' = "websocket"
  PROVE  HandshakeInv'
<1>1. HandshakeTypeOK'
  BY DEF HandshakeInv, HandshakeTypeOK, Finishes, Sids
<1>2. BuildInv'
  BY DEF BuildInv, Finishes, Building
<1>3. SessionServed'
  BY DEF SessionServed, Built, Finishes, Sids
<1> QED
  BY <1>1, <1>2, <1>3 DEF HandshakeInv

LEMMA StepHandshake ==
  ASSUME HandshakeInv, Builds
  PROVE  HandshakeInv'
<1> USE DEF HandshakeInv, HandshakeTypeOK, Transports, Sids, Building
<1>0. FreshSid \in Sids /\ FreshSid # 0
  BY DEF FreshSid
<1>1. CASE HandshakesPolling
  <2>1. serves' \in [Sids -> Transports \cup {"none"}] /\ step \in Building
    BY <1>0, <1>1 DEF HandshakesPolling, Opened, PollingUrl
  <2>2. CASE BuildFails
    BY <1>1, <2>1, <2>2, FailureForgets DEF HandshakesPolling
  <2>3. CASE step' = "offer"
    <3>1. sid' = FreshSid /\ url' \in Urls /\ url'.sid = FreshSid
      BY <1>0, <1>1, <2>3 DEF HandshakesPolling, BuildInv, Urls, BuildFails
    <3>2. serves'[FreshSid] = "polling" /\ mode # "Websocket"
      BY <1>0, <1>1, <2>3 DEF HandshakesPolling, BuildInv, Opened, PollingUrl, BuildFails
    <3> QED
      BY <1>0, <1>1, <2>1, <2>3, <3>1, <3>2
         DEF HandshakesPolling, BuildInv, SessionServed, Built, BuildFails
  <2> QED
    BY <1>1, <2>2, <2>3 DEF HandshakesPolling
<1>2. CASE HandshakesWebsocket
  <2>1. serves' \in [Sids -> Transports \cup {"none"}] /\ step \in Building
    BY <1>0, <1>2 DEF HandshakesWebsocket, Opened, BuildInv
  <2>2. CASE BuildFails
    BY <1>2, <2>1, <2>2, FailureForgets DEF HandshakesWebsocket
  <2>3. CASE step' = "built"
    <3>1. /\ sid' = FreshSid /\ serves' = Opened(base) /\ Finishes
          /\ UNCHANGED <<mode, carrier, base>>
      BY <1>2, <2>3 DEF HandshakesWebsocket, BuildFails
    <3>2. mode = "Websocket" /\ base = [sid |-> 0, transport |-> "websocket"] /\ carrier = "websocket"
      BY <1>2 DEF HandshakesWebsocket, BuildInv
    <3>3. serves'[FreshSid] = "websocket"
      BY <1>0, <3>1, <3>2 DEF Opened
    <3> QED
      BY <1>0, <2>1, <3>1, <3>2, <3>3, EndKeeps
  <2> QED
    BY <1>2, <2>2, <2>3 DEF HandshakesWebsocket, Finishes
<1>3. CASE Decides
  <2>1. CASE BuildFails
    BY <1>3, <2>1, FailureForgets DEF Decides
  <2>2. CASE step' = "dial"
    BY <1>3, <2>2 DEF Decides, Finishes, BuildInv, SessionServed, Built, BuildFails
  <2>3. CASE step' = "built"
    <3>1. /\ Finishes /\ base' = [sid |-> url.sid, transport |-> "polling"]
          /\ UNCHANGED <<mode, serves, sid, carrier>>
      BY <1>3, <2>3 DEF Decides, PollingUrl, BuildFails
    <3>2. /\ sid # 0 /\ mode # "Websocket" /\ carrier = "polling" /\ url.sid = sid
          /\ serves[sid] = "polling"
      BY <1>3 DEF Decides, BuildInv
    <3> QED
      BY <3>1, <3>2, EndKeeps
  <2> QED
    BY <1>3, <2>1, <2>2, <2>3 DEF Decides, Finishes
<1>4. CASE Dials
  <2>1. CASE BuildFails
    BY <1>4, <2>1, FailureForgets DEF Dials
  <2>2. CASE ~BuildFails
    <3>1. base' = [sid |-> sid, transport |-> "websocket"]
      BY <1>4, <2>2 DEF Dials, Dialled, SecureUrl, WebsocketUrl, BuildInv
    <3> QED
      BY <1>4, <2>2, <3>1 DEF Dials, BuildInv, SessionServed, Built
  <2> QED
    BY <2>1, <2>2
<1>5. CASE Probes
  <2>1. CASE BuildFails
    BY <1>5, <2>1, FailureForgets DEF Probes
  <2>2. CASE ~BuildFails
    BY <1>5, <2>2 DEF Probes, BuildInv, SessionServed, Built
  <2> QED
    BY <2>1, <2>2
<1>6. CASE Upgrades
  <2>1. serves' \in [Sids -> Transports \cup {"none"}] /\ step \in Building
    BY <1>6 DEF Upgrades, Turned, BuildInv
  <2>2. CASE BuildFails
    BY <1>6, <2>1, <2>2, FailureForgets DEF Upgrades
  <2>3. CASE ~BuildFails
    <3>1. /\ Finishes /\ serves' = Turned(base) /\ UNCHANGED <<mode, sid, base, carrier>>
      BY <1>6, <2>3 DEF Upgrades
    <3>2. /\ sid # 0 /\ mode # "Websocket" /\ carrier = "websocket"
          /\ base = [sid |-> sid, transport |-> "websocket"]
      BY <1>6 DEF Upgrades, BuildInv
    <3>3. serves'[sid] = "websocket"
      BY <3>1, <3>2 DEF Turned
    <3> QED
      BY <2>1, <3>1, <3>2, <3>3, EndKeeps
  <2> QED
    BY <2>2, <2>3
<1> QED
  BY <1>1, <1>2, <1>3, <1>4, <1>5, <1>6 DEF Builds

(* No step outside the builders touches what they built.                    *)
LEMMA PacketsKeepTransport ==
  ASSUME [Next]_vars, ~Builds
  PROVE  UNCHANGED buildVars
<1>1. CASE UNCHANGED vars
  BY <1>1 DEF vars, client
<1>2. CASE PeerSends \/ PeerPings \/ Receives \/ Handles
  BY <1>2 DEF PeerSends, PeerPings, Receives, Handles, client
<1>3. ASSUME NEW s \in Senders, Begins(s) \/ Continues(s) \/ Abandons(s)
      PROVE  UNCHANGED buildVars
  BY <1>3 DEF Begins, Continues, Abandons, client
<1>4. ASSUME NEW task \in tasks, Runs(task) PROVE UNCHANGED buildVars
  BY <1>4 DEF Runs, client
<1> QED
  BY <1>1, <1>2, <1>3, <1>4 DEF Next

(* Whatever fails while a client is built, and however far the server had   *)
(* got when it did, a client that is built sends and reads over the         *)
(* transport its session is served on (build, build_with_fallback, upgrade).*)
LEMMA HandshakeInvariant == Spec => []HandshakeInv
<1>1. HandshakeInv /\ [Next]_vars => HandshakeInv'
  <2> SUFFICES ASSUME HandshakeInv, [Next]_vars PROVE HandshakeInv'
    OBVIOUS
  <2>1. CASE Builds
    BY <2>1, StepHandshake
  <2>2. CASE ~Builds
    <3>1. UNCHANGED buildVars
      BY <2>2, PacketsKeepTransport
    <3> QED
      BY <3>1 DEF buildVars, HandshakeInv, HandshakeTypeOK, BuildInv, SessionServed, Built, Building
  <2> QED
    BY <2>1, <2>2
<1> QED
  BY <1>1, InitHandshake, PTL DEF Spec

(* Whatever fails while a client is built, and however far the server had   *)
(* got when it did, a client that is built sends and reads over the         *)
(* transport its session is served on (build, build_with_fallback, upgrade).*)
THEOREM SessionServedHolds == Spec => []SessionServed
<1>1. HandshakeInv => SessionServed
  BY DEF HandshakeInv
<1> QED
  BY <1>1, HandshakeInvariant, PTL

-----------------------------------------------------------------------------
(* What the senders have under way. As long as sends were not mixed, either *)
(* nobody is between a header and its attachment, and the peer has got what *)
(* was emitted; or one sender is, and the peer lacks that packet alone and  *)
(* waits for that attachment.                                               *)
RestOf(asked) == Tail(Frames(PacketOf(asked)))
MeantAll == {Meant(asked) : asked \in Requests(FALSE)}
Completes(waiting, e, asked) ==
  /\ Reads(waiting, e, carrier).part = <<>>
  /\ Gets(Reads(waiting, e, carrier)) = <<Meant(asked)>>

AllSent == (\A s \in Senders : job[s] = <<>>) /\ peerPart = <<>> /\ got = emitted

OneSending(s, asked) ==
  /\ job[s] = RestOf(asked) /\ job[s] # <<>>
  /\ \A r \in Senders : r # s => job[r] = <<>>
  /\ got \in Seq(MeantAll) /\ emitted = Append(got, Meant(asked))
  /\ Completes(peerPart, Head(job[s]), asked)

SendInv ==
  /\ job \in [Senders -> {<<>>} \cup {RestOf(asked) : asked \in Requests(FALSE)}]
  /\ \A s \in Senders : job[s] # <<>> => Built
  /\ emitted \in Seq(MeantAll)
  /\ ~mixed => AllSent \/ \E s \in Senders, asked \in Requests(FALSE) : OneSending(s, asked)

LEMMA SendInit == Init => SendInv
BY DEF Init, SendInv, AllSent

(* Lemma: what the codecs do to a request, in the terms of SendInv.         *)
LEMMA Sent ==
  ASSUME NEW asked \in Requests(FALSE), HandshakeTypeOK
  PROVE  LET first == Reads(<<>>, Head(Frames(PacketOf(asked))), carrier)
         IN \/ RestOf(asked) = <<>> /\ first.part = <<>> /\ Gets(first) = <<Meant(asked)>>
            \/ /\ RestOf(asked) # <<>> /\ Tail(RestOf(asked)) = <<>>
               /\ Gets(first) = <<>>
               /\ Completes(first.part, Head(RestOf(asked)), asked)
<1>1. RoundTrip(asked, carrier)
  BY CodecAssumption DEF HandshakeTypeOK
<1> QED
  BY <1>1, Zenon DEF RoundTrip, RestOf, Completes

(* Lemma: what the peer has got grows by a packet, or by none.              *)
LEMMA GotGrows ==
  ASSUME NEW S, NEW q \in Seq(S), NEW x \in S
  PROVE  q \o <<x>> = Append(q, x) /\ q \o <<>> = q /\ Append(q, x) \in Seq(S)
OBVIOUS

(* Lemma: steps that send nothing.                                          *)
LEMMA OthersSend ==
  ASSUME SendInv, UNCHANGED <<carrier, sendVars>>, Built => Built'
  PROVE  SendInv'
BY DEF SendInv, AllSent, OneSending, Completes, sendVars

LEMMA SendStep ==
  ASSUME ~BinaryRequests, HandshakeInv, SendInv, [Next]_vars
  PROVE  SendInv'
<1>0. HandshakeTypeOK
  BY DEF HandshakeInv
<1>1. ASSUME NEW s \in Senders, Begins(s) PROVE SendInv'
  <2>1. PICK asked \in Requests(FALSE) :
          /\ PeerTakes(Head(Frames(PacketOf(asked))))
          /\ job' = [job EXCEPT ![s] = RestOf(asked)]
          /\ emitted' = Append(emitted, Meant(asked))
    BY <1>1, LinkAssumption DEF Begins, RestOf
  <2> DEFINE first == Reads(peerPart, Head(Frames(PacketOf(asked))), carrier)
  <2>2. peerPart' = first.part /\ got' = got \o Gets(first)
    BY <2>1 DEF PeerTakes
  <2>3. /\ Built /\ job[s] = <<>> /\ UNCHANGED <<carrier, step>>
        /\ mixed' = (mixed \/ \E r \in Senders : job[r] # <<>>)
    BY <1>1 DEF Begins, client, buildVars
  <2>4. Meant(asked) \in MeantAll
    BY DEF MeantAll
  <2>5. /\ job' \in [Senders -> {<<>>} \cup {RestOf(a) : a \in Requests(FALSE)}]
        /\ \A r \in Senders : job'[r] = IF r = s THEN RestOf(asked) ELSE job[r]
    BY <2>1 DEF SendInv
  <2>6. emitted' \in Seq(MeantAll)
    BY <2>1, <2>4, GotGrows DEF SendInv
  <2>7. ASSUME ~mixed' PROVE AllSent' \/ OneSending(s, asked)'
    <3>1. /\ ~mixed /\ AllSent
      BY <2>3, <2>7, Zenon DEF SendInv, OneSending
    <3>2. peerPart = <<>> /\ got = emitted /\ got \in Seq(MeantAll)
      BY <3>1 DEF AllSent, SendInv
    <3>3. \A r \in Senders : r # s => job'[r] = <<>>
      BY <2>5, <3>1 DEF AllSent
    <3>4. CASE RestOf(asked) = <<>>
      <4>1. first.part = <<>> /\ Gets(first) = <<Meant(asked)>>
        BY <1>0, <3>2, <3>4, Sent, Zenon
      <4>2. got' = emitted'
        BY <2>1, <2>2, <2>4, <3>2, <4>1, GotGrows
      <4> QED
        BY <2>2, <2>5, <3>3, <3>4, <4>1, <4>2, Zenon DEF AllSent
    <3>5. CASE RestOf(asked) # <<>>
      <4>1. Gets(first) = <<>> /\ Completes(first.part, Head(RestOf(asked)), asked)
        BY <1>0, <3>2, <3>5, Sent, Zenon
      <4>2. got' = got /\ emitted' = Append(got', Meant(asked))
        BY <2>1, <2>2, <2>4, <3>2, <4>1, GotGrows
      <4>3. job'[s] = RestOf(asked)
        BY <2>5
      <4>4. Completes(peerPart, Head(job[s]), asked)'
        BY <2>2, <2>3, <4>1, <4>3 DEF Completes
      <4> QED
        BY <3>2, <3>3, <3>5, <4>2, <4>3, <4>4 DEF OneSending, MeantAll
    <3> QED
      BY <3>4, <3>5
  <2> QED
    BY <2>3, <2>5, <2>6, <2>7 DEF SendInv, Built, MeantAll, RestOf
<1>2. ASSUME NEW s \in Senders, Continues(s) PROVE SendInv'
  <2>1. /\ job[s] # <<>> /\ PeerTakes(Head(job[s])) /\ job' = [job EXCEPT ![s] = Tail(job[s])]
        /\ UNCHANGED <<carrier, step, emitted, mixed>>
    BY <1>2 DEF Continues, client, buildVars
  <2>2. PICK sent \in Requests(FALSE) : job[s] = RestOf(sent)
    BY <2>1 DEF SendInv
  <2>3. Tail(job[s]) = <<>>
    BY <1>0, <2>1, <2>2, Sent, Zenon
  <2>4. \A r \in Senders : job'[r] = IF r = s THEN <<>> ELSE job[r]
    BY <2>1, <2>3 DEF SendInv
  <2>5. job' \in [Senders -> {<<>>} \cup {RestOf(a) : a \in Requests(FALSE)}]
    BY <2>1, <2>3 DEF SendInv
  <2>6. ASSUME ~mixed' PROVE AllSent'
    <3>1. PICK asked \in Requests(FALSE) : OneSending(s, asked)
      BY <2>1, <2>6, Zenon DEF SendInv, AllSent, OneSending
    <3>2. peerPart' = <<>> /\ got' = got \o <<Meant(asked)>>
      BY <2>1, <3>1 DEF PeerTakes, OneSending, Completes
    <3>3. got' = emitted'
      BY <2>1, <3>1, <3>2, GotGrows DEF OneSending, MeantAll
    <3>4. \A r \in Senders : job'[r] = <<>>
      BY <2>4, <3>1 DEF OneSending
    <3> QED
      BY <3>2, <3>3, <3>4 DEF AllSent
  <2> QED
    BY <2>1, <2>4, <2>5, <2>6 DEF SendInv, Built, MeantAll, RestOf
<1>3. ASSUME NEW s \in Senders, Abandons(s) PROVE SendInv'
  <2>1. /\ mixed' /\ job' = [job EXCEPT ![s] = <<>>] /\ UNCHANGED <<emitted, step>>
    BY <1>3 DEF Abandons, client, buildVars
  <2> QED
    BY <2>1 DEF SendInv, Built, MeantAll, RestOf
<1>4. CASE PeerSends \/ PeerPings \/ Receives \/ Handles \/ (\E task \in tasks : Runs(task))
             \/ UNCHANGED vars
  <2>1. UNCHANGED <<carrier, step, sendVars>>
    BY <1>4 DEF PeerSends, PeerPings, Receives, Handles, Runs, vars, client, buildVars
  <2> QED
    BY <2>1, OthersSend DEF Built
<1>5. CASE Builds /\ UNCHANGED <<async, listens, left, readVars, sendVars>>
  <2>1. ~Built
    BY <1>5 DEF Builds, HandshakesPolling, HandshakesWebsocket, Decides, Dials, Probes, Upgrades, Built
  <2>2. \A s \in Senders : job[s] = <<>>
    BY <2>1 DEF SendInv
  <2> QED
    BY <1>5, <2>2 DEF SendInv, AllSent, OneSending, sendVars, MeantAll, RestOf
<1> QED
  BY <1>1, <1>2, <1>3, <1>4, <1>5 DEF Next

(* The peer gets each packet that was sent, in the order the headers went   *)
(* out and with its own attachment, as long as no send comes between a      *)
(* header and its attachment and none stops there (Socket::send). Of an     *)
(* application that passes no bytes to emit_with_ack, which makes an answer *)
(* of them (Link_requests.cfg).                                             *)
THEOREM GotAsEmittedHolds ==
  ASSUME ~BinaryRequests
  PROVE  Spec => []GotAsEmitted
<1>1. ASSUME SendInv PROVE GotAsEmitted
  <2>1. CASE AllSent
    <3>1. IsPrefix(emitted, emitted)
      BY DEF IsPrefix, SendInv
    <3> QED
      BY <2>1, <3>1 DEF AllSent, GotAsEmitted
  <2>2. ASSUME NEW s \in Senders, NEW asked \in Requests(FALSE), OneSending(s, asked)
        PROVE  GotAsEmitted
    <3>1. got \in Seq(MeantAll) /\ emitted = Append(got, Meant(asked)) /\ job[s] # <<>>
      BY <2>2 DEF OneSending
    <3>2. IsPrefix(got, emitted)
      BY <3>1 DEF IsPrefix
    <3> QED
      BY <3>1, <3>2 DEF GotAsEmitted
  <2> QED
    BY <1>1, <2>1, <2>2 DEF SendInv, GotAsEmitted
<1>2. HandshakeInv /\ SendInv /\ [Next]_vars => SendInv'
  BY SendStep
<1>3. SendInv => GotAsEmitted
  BY <1>1
<1> QED
  BY <1>2, <1>3, SendInit, HandshakeInvariant, PTL DEF Spec

-----------------------------------------------------------------------------
(* Induction over the naturals, for sets, and what the recursive definitions *)
(* of the codecs compute: FlattenSeq, of which bodies, frames and calls are  *)
(* made, and the separators Split finds.                                     *)
NatLess == {ss \in Nat \X Nat : ss[1] < ss[2]}

LEMMA NatLessWF == IsWellFoundedOn(NatLess, Nat)
BY NatLessThanWellFounded, Zenon DEF OpToRel, NatLess

(* Lemma: a set of naturals with 0 and with the successors of its elements. *)
LEMMA SetInduction ==
  ASSUME NEW T \in SUBSET Nat, 0 \in T, \A n \in T : n + 1 \in T
  PROVE  T = Nat
<1>1. SUFFICES ASSUME T # Nat PROVE FALSE
  OBVIOUS
<1>2. Nat \ T \subseteq Nat /\ Nat \ T # {}
  BY <1>1
<1>3. PICK m \in Nat \ T : \A y \in Nat \ T : ~ (<<y, m>> \in NatLess)
  BY <1>2, NatLessWF, WFMin, Zenon
<1>4. m # 0 /\ m - 1 \in Nat /\ <<m - 1, m>> \in NatLess
  BY DEF NatLess
<1>5. m - 1 \in T
  BY <1>3, <1>4
<1> QED BY <1>5, <1>3

(* The sums of the first sequences of ss, one sequence longer at each index. *)
Sums(g, ss, n) == g[1] = ss[1] /\ \A i \in 2 .. n : g[i] = g[i - 1] \o ss[i]

(* Lemma: they exist.                                                       *)
LEMMA SumsExist ==
  ASSUME NEW S, NEW P, P = Seq(S), NEW ss \in Seq(P), NEW len \in 1 .. Len(ss)
  PROVE  \E g \in [1 .. len -> P] : Sums(g, ss, len)
<1> DEFINE Q(n) == n \in 1 .. Len(ss) => \E g \in [1 .. n -> P] : Sums(g, ss, n)
           T == {n \in Nat : Q(n)}
<1>1. Q(0)
  OBVIOUS
<1>2. ASSUME NEW n \in Nat, Q(n) PROVE Q(n + 1)
  <2> SUFFICES ASSUME n + 1 \in 1 .. Len(ss)
               PROVE  \E g \in [1 .. n + 1 -> P] : Sums(g, ss, n + 1)
    OBVIOUS
  <2>1. CASE n = 0
    <3> DEFINE g == [i \in 1 .. 1 |-> ss[1]]
    <3>1. g \in [1 .. n + 1 -> P] /\ Sums(g, ss, n + 1)
      BY <2>1 DEF Sums
    <3> HIDE DEF g
    <3> QED BY <3>1
  <2>2. CASE n # 0
    <3>1. PICK f \in [1 .. n -> P] : Sums(f, ss, n)
      BY <1>2, <2>2
    <3> DEFINE x == f[n] \o ss[n + 1]
    <3>2. x \in P
      <4>1. f[n] \in P /\ ss[n + 1] \in P
        BY <2>2
      <4> QED BY <4>1
    <3> HIDE DEF x
    <3> DEFINE g == [i \in 1 .. n + 1 |-> IF i = n + 1 THEN x ELSE f[i]]
    <3>3. g \in [1 .. n + 1 -> P]
      BY <2>2, <3>2
    <3>4. g[1] = ss[1]
      BY <2>2, <3>1 DEF Sums
    <3>5. ASSUME NEW i \in 2 .. n + 1 PROVE g[i] = g[i - 1] \o ss[i]
      <4>1. CASE i = n + 1
        <5>1. g[i] = x /\ g[i - 1] = f[n]
          BY <4>1, <2>2
        <5> QED BY <5>1, <4>1, Zenon DEF x
      <4>2. CASE i # n + 1
        <5>1. i \in 2 .. n /\ i \in 1 .. n /\ i - 1 \in 1 .. n
          BY <4>2
        <5>2. g[i] = f[i] /\ g[i - 1] = f[i - 1]
          BY <5>1
        <5> QED BY <5>1, <5>2, <3>1, Zenon DEF Sums
      <4> QED BY <4>1, <4>2
    <3> HIDE DEF g
    <3> QED BY <3>3, <3>4, <3>5 DEF Sums
  <2> QED BY <2>1, <2>2
<1> HIDE DEF Q
<1>3. T = Nat
  <2>1. T \in SUBSET Nat /\ 0 \in T /\ \A k \in T : k + 1 \in T
    BY <1>1, <1>2
  <2> HIDE DEF T
  <2> QED BY <2>1, SetInduction
<1>4. Q(len)
  BY <1>3
<1> QED BY <1>4 DEF Q

(* Lemma: there are no others.                                              *)
LEMMA SumsUnique ==
  ASSUME NEW ss, NEW g, NEW h, NEW n \in Nat, Sums(g, ss, n), Sums(h, ss, n)
  PROVE  \A i \in 1 .. n : g[i] = h[i]
<1> DEFINE Q(k) == k \in 1 .. n => g[k] = h[k]
           T == {k \in Nat : Q(k)}
<1>1. Q(0)
  OBVIOUS
<1>2. ASSUME NEW k \in Nat, Q(k) PROVE Q(k + 1)
  <2> SUFFICES ASSUME k + 1 \in 1 .. n PROVE g[k + 1] = h[k + 1]
    OBVIOUS
  <2>1. CASE k = 0
    BY <2>1 DEF Sums
  <2>2. CASE k # 0
    <3>1. k + 1 \in 2 .. n /\ (k + 1) - 1 = k /\ g[k] = h[k]
      BY <1>2, <2>2
    <3>2. g[k + 1] = g[k] \o ss[k + 1] /\ h[k + 1] = h[k] \o ss[k + 1]
      BY <3>1 DEF Sums
    <3> QED BY <3>1, <3>2
  <2> QED BY <2>1, <2>2
<1> HIDE DEF Q
<1>3. T = Nat
  <2>1. T \in SUBSET Nat /\ 0 \in T /\ \A k \in T : k + 1 \in T
    BY <1>1, <1>2
  <2> HIDE DEF T
  <2> QED BY <2>1, SetInduction
<1>4. ASSUME NEW i \in 1 .. n PROVE g[i] = h[i]
  <2>1. Q(i)
    BY <1>3
  <2> QED BY <2>1 DEF Q
<1> QED BY <1>4

(* Lemma: FlattenSeq is the last of them.                                   *)
LEMMA FlattenSums ==
  ASSUME NEW S, NEW P, P = Seq(S), NEW ss \in Seq(P), ss # <<>>
  PROVE  \E g \in [1 .. Len(ss) -> P] : Sums(g, ss, Len(ss)) /\ FlattenSeq(ss) = g[Len(ss)]
<1>1. Len(ss) \in Nat /\ Len(ss) # 0 /\ Len(ss) \in 1 .. Len(ss)
  OBVIOUS
<1>2. PICK g \in [1 .. Len(ss) -> P] : Sums(g, ss, Len(ss))
  BY <1>1, SumsExist
<1>3. g = [i \in 1 .. Len(ss) |-> IF i = 1 THEN ss[i] ELSE g[i - 1] \o ss[i]]
  <2>1. ASSUME NEW i \in 1 .. Len(ss) PROVE g[i] = IF i = 1 THEN ss[i] ELSE g[i - 1] \o ss[i]
    <3>1. i = 1 \/ i \in 2 .. Len(ss)
      OBVIOUS
    <3> QED BY <1>2, <3>1 DEF Sums
  <2> QED BY <2>1
<1> DEFINE h == CHOOSE h : h = [i \in 1 .. Len(ss) |-> IF i = 1 THEN ss[i] ELSE h[i - 1] \o ss[i]]
<1>4. /\ h = [i \in 1 .. Len(ss) |-> IF i = 1 THEN ss[i] ELSE h[i - 1] \o ss[i]]
      /\ FlattenSeq(ss) = h[Len(ss)]
  BY <1>1, <1>3, Zenon DEF FlattenSeq
<1> HIDE DEF h
<1>5. Sums(h, ss, Len(ss))
  <2>1. h[1] = ss[1]
    BY <1>1, <1>4
  <2>2. ASSUME NEW i \in 2 .. Len(ss) PROVE h[i] = h[i - 1] \o ss[i]
    <3>1. i \in 1 .. Len(ss) /\ i # 1
      OBVIOUS
    <3>2. h[i] = IF i = 1 THEN ss[i] ELSE h[i - 1] \o ss[i]
      BY <3>1, <1>4, Zenon
    <3> QED BY <3>1, <3>2
  <2> QED BY <2>1, <2>2 DEF Sums
<1>6. h[Len(ss)] = g[Len(ss)]
  <2>1. \A i \in 1 .. Len(ss) : h[i] = g[i]
    BY <1>1, <1>2, <1>5, SumsUnique
  <2> QED BY <2>1, <1>1
<1> QED BY <1>2, <1>4, <1>6

(* Lemmas: FlattenSeq of no sequence, and of one sequence more.             *)
LEMMA FlattenEmpty == FlattenSeq(<<>>) = <<>>
BY DEF FlattenSeq

LEMMA FlattenStep ==
  ASSUME NEW S, NEW P, P = Seq(S), NEW ss \in Seq(P), NEW tt \in Seq(P),
         Len(tt) = Len(ss) + 1, \A i \in 1 .. Len(ss) : ss[i] = tt[i]
  PROVE  FlattenSeq(ss) \in P /\ FlattenSeq(tt) = FlattenSeq(ss) \o tt[Len(tt)]
<1>1. Len(ss) \in Nat /\ tt # <<>> /\ Len(tt) \in 1 .. Len(tt)
  OBVIOUS
<1>2. PICK h \in [1 .. Len(tt) -> P] : Sums(h, tt, Len(tt)) /\ FlattenSeq(tt) = h[Len(tt)]
  BY <1>1, FlattenSums, Zenon
<1>3. CASE ss = <<>>
  <2>1. Len(tt) = 1
    BY <1>3
  <2>2. FlattenSeq(tt) = tt[Len(tt)] /\ tt[Len(tt)] \in P
    BY <1>1, <1>2, <2>1 DEF Sums
  <2>3. FlattenSeq(ss) = <<>> /\ <<>> \in P /\ \A s \in P : <<>> \o s = s
    BY <1>3, FlattenEmpty
  <2> QED BY <2>2, <2>3, Zenon
<1>4. CASE ss # <<>>
  <2>1. PICK g \in [1 .. Len(ss) -> P] : Sums(g, ss, Len(ss)) /\ FlattenSeq(ss) = g[Len(ss)]
    BY <1>4, FlattenSums, Zenon
  <2>2. 1 \in 1 .. Len(ss) /\ Len(ss) \in 1 .. Len(ss) /\ Len(tt) \in 2 .. Len(tt) /\ Len(tt) - 1 = Len(ss)
    BY <1>1, <1>4
  <2>3. Sums(h, ss, Len(ss))
    <3>1. 2 .. Len(ss) \subseteq 2 .. Len(tt) /\ 2 .. Len(ss) \subseteq 1 .. Len(ss)
      BY <1>1
    <3> QED BY <1>2, <2>2, <3>1, Zenon DEF Sums
  <2>4. \A i \in 1 .. Len(ss) : g[i] = h[i]
    <3>1. Len(ss) \in Nat /\ Sums(g, ss, Len(ss)) /\ Sums(h, ss, Len(ss))
      BY <1>1, <2>1, <2>3
    <3> QED BY ONLY <3>1, SumsUnique
  <2>5. h[Len(tt)] = h[Len(ss)] \o tt[Len(tt)]
    BY <1>1, <1>2, <2>2, Zenon DEF Sums
  <2>6. g[Len(ss)] \in P
    BY <2>2
  <2> QED BY <1>2, <2>1, <2>2, <2>4, <2>5, <2>6, Zenon
<1> QED BY <1>3, <1>4

LEMMA FlattenAppend ==
  ASSUME NEW S, NEW P, P = Seq(S), NEW ss \in Seq(P), NEW s \in P
  PROVE  /\ FlattenSeq(ss) \in P
         /\ FlattenSeq(Append(ss, s)) = FlattenSeq(ss) \o s
<1> DEFINE tt == Append(ss, s)
<1>1. /\ tt \in Seq(P) /\ Len(tt) = Len(ss) + 1 /\ tt[Len(tt)] = s
      /\ \A i \in 1 .. Len(ss) : ss[i] = tt[i]
  OBVIOUS
<1> HIDE DEF tt
<1>2. FlattenSeq(ss) \in P /\ FlattenSeq(tt) = FlattenSeq(ss) \o tt[Len(tt)]
  BY <1>1, FlattenStep
<1> QED BY <1>1, <1>2, Zenon DEF tt

(* The separators among the first bytes, as Split collects them, and with the *)
(* end of the bytes behind them.                                              *)
Cuts(g, bytes, n) ==
  /\ g[0] = <<0>>
  /\ \A i \in 1 .. n : g[i] = IF bytes[i] = RS THEN Append(g[i - 1], i) ELSE g[i - 1]
Ends(g, bytes) == Append(g[Len(bytes)], Len(bytes) + 1)

(* Lemma: they exist.                                                       *)
LEMMA CutsExist ==
  ASSUME NEW bytes, NEW len \in Nat
  PROVE  \E g \in [0 .. len -> Seq(0 .. len)] : Cuts(g, bytes, len)
<1> DEFINE Q(n) == n <= len => \E g \in [0 .. n -> Seq(0 .. len)] : Cuts(g, bytes, n)
           T == {n \in Nat : Q(n)}
<1>1. Q(0)
  <2> DEFINE g == [i \in 0 .. 0 |-> <<0>>]
  <2>1. g \in [0 .. 0 -> Seq(0 .. len)] /\ Cuts(g, bytes, 0)
    BY DEF Cuts
  <2> HIDE DEF g
  <2> QED BY <2>1
<1>2. ASSUME NEW n \in Nat, Q(n) PROVE Q(n + 1)
  <2> SUFFICES ASSUME n + 1 <= len
               PROVE  \E g \in [0 .. n + 1 -> Seq(0 .. len)] : Cuts(g, bytes, n + 1)
    OBVIOUS
  <2>1. PICK f \in [0 .. n -> Seq(0 .. len)] : Cuts(f, bytes, n)
    BY <1>2
  <2> DEFINE x == IF bytes[n + 1] = RS THEN Append(f[n], n + 1) ELSE f[n]
  <2>2. x \in Seq(0 .. len)
    <3>1. f[n] \in Seq(0 .. len) /\ n + 1 \in 0 .. len
      OBVIOUS
    <3>2. \A q \in Seq(0 .. len), k \in 0 .. len : Append(q, k) \in Seq(0 .. len)
      OBVIOUS
    <3> QED BY ONLY <3>1, <3>2, Zenon DEF x
  <2> HIDE DEF x
  <2> DEFINE g == [i \in 0 .. n + 1 |-> IF i = n + 1 THEN x ELSE f[i]]
  <2>3. g \in [0 .. n + 1 -> Seq(0 .. len)] /\ g[0] = f[0]
    BY <2>2
  <2>4. ASSUME NEW i \in 1 .. n + 1
        PROVE  g[i] = IF bytes[i] = RS THEN Append(g[i - 1], i) ELSE g[i - 1]
    <3>1. CASE i = n + 1
      <4>1. g[i] = x /\ g[i - 1] = f[n]
        BY <3>1
      <4> QED BY <4>1, <3>1, Zenon DEF x
    <3>2. CASE i # n + 1
      <4>1. i \in 1 .. n /\ i \in 0 .. n /\ i - 1 \in 0 .. n
        BY <3>2
      <4>2. g[i] = f[i] /\ g[i - 1] = f[i - 1]
        BY <4>1
      <4> QED BY <4>1, <4>2, <2>1, Zenon DEF Cuts
    <3> QED BY <3>1, <3>2
  <2> HIDE DEF g
  <2> QED BY <2>1, <2>3, <2>4 DEF Cuts
<1> HIDE DEF Q
<1>3. T = Nat
  <2>1. T \in SUBSET Nat /\ 0 \in T /\ \A k \in T : k + 1 \in T
    BY <1>1, <1>2
  <2> HIDE DEF T
  <2> QED BY <2>1, SetInduction
<1>4. Q(len)
  BY <1>3
<1> QED BY <1>4 DEF Q

(* Lemma: there are no others.                                              *)
LEMMA CutsUnique ==
  ASSUME NEW bytes, NEW g, NEW h, NEW n \in Nat, Cuts(g, bytes, n), Cuts(h, bytes, n)
  PROVE  \A i \in 0 .. n : g[i] = h[i]
<1> DEFINE Q(k) == k \in 0 .. n => g[k] = h[k]
           T == {k \in Nat : Q(k)}
<1>1. Q(0)
  BY DEF Cuts
<1>2. ASSUME NEW k \in Nat, Q(k) PROVE Q(k + 1)
  <2> SUFFICES ASSUME k + 1 \in 0 .. n PROVE g[k + 1] = h[k + 1]
    OBVIOUS
  <2>1. k + 1 \in 1 .. n /\ (k + 1) - 1 = k /\ g[k] = h[k]
    BY <1>2
  <2>2. /\ g[k + 1] = IF bytes[k + 1] = RS THEN Append(g[k], k + 1) ELSE g[k]
        /\ h[k + 1] = IF bytes[k + 1] = RS THEN Append(h[k], k + 1) ELSE h[k]
    BY <2>1 DEF Cuts
  <2> QED BY <2>1, <2>2, Zenon
<1> HIDE DEF Q
<1>3. T = Nat
  <2>1. T \in SUBSET Nat /\ 0 \in T /\ \A k \in T : k + 1 \in T
    BY <1>1, <1>2
  <2> HIDE DEF T
  <2> QED BY <2>1, SetInduction
<1>4. ASSUME NEW i \in 0 .. n PROVE g[i] = h[i]
  <2>1. Q(i)
    BY <1>3
  <2> QED BY <2>1 DEF Q
<1> QED BY <1>4

(* Lemma: Split cuts there.                                                 *)
LEMMA SplitCuts ==
  ASSUME NEW bytes, Len(bytes) \in Nat
  PROVE  \E g \in [0 .. Len(bytes) -> Seq(0 .. Len(bytes))] :
           /\ Cuts(g, bytes, Len(bytes))
           /\ Split(bytes) = [k \in 1 .. Len(Ends(g, bytes)) - 1 |->
                SubSeq(bytes, Ends(g, bytes)[k] + 1, Ends(g, bytes)[k + 1] - 1)]
<1>1. PICK g \in [0 .. Len(bytes) -> Seq(0 .. Len(bytes))] : Cuts(g, bytes, Len(bytes))
  BY CutsExist
<1>2. g = [n \in 0 .. Len(bytes) |-> IF n = 0 THEN <<0>>
             ELSE IF bytes[n] = RS THEN Append(g[n - 1], n) ELSE g[n - 1]]
  <2>1. ASSUME NEW n \in 0 .. Len(bytes)
        PROVE  g[n] = IF n = 0 THEN <<0>>
                      ELSE IF bytes[n] = RS THEN Append(g[n - 1], n) ELSE g[n - 1]
    <3>1. n = 0 \/ n \in 1 .. Len(bytes)
      OBVIOUS
    <3>2. n \in 1 .. Len(bytes) => n # 0
      OBVIOUS
    <3> QED BY <1>1, <3>1, <3>2, Zenon DEF Cuts
  <2> QED BY <2>1
<1> DEFINE h == CHOOSE h : h = [n \in 0 .. Len(bytes) |-> IF n = 0 THEN <<0>>
                     ELSE IF bytes[n] = RS THEN Append(h[n - 1], n) ELSE h[n - 1]]
<1>3. /\ h = [n \in 0 .. Len(bytes) |-> IF n = 0 THEN <<0>>
               ELSE IF bytes[n] = RS THEN Append(h[n - 1], n) ELSE h[n - 1]]
      /\ Split(bytes) = [k \in 1 .. Len(Ends(h, bytes)) - 1 |->
                SubSeq(bytes, Ends(h, bytes)[k] + 1, Ends(h, bytes)[k + 1] - 1)]
  BY <1>2, Zenon DEF Split, Ends
<1> HIDE DEF h
<1>4. Cuts(h, bytes, Len(bytes))
  <2>1. h[0] = <<0>>
    BY <1>3
  <2>2. ASSUME NEW i \in 1 .. Len(bytes)
        PROVE  h[i] = IF bytes[i] = RS THEN Append(h[i - 1], i) ELSE h[i - 1]
    <3>1. i \in 0 .. Len(bytes) /\ i # 0
      OBVIOUS
    <3>2. h[i] = IF i = 0 THEN <<0>>
                 ELSE IF bytes[i] = RS THEN Append(h[i - 1], i) ELSE h[i - 1]
      BY <3>1, <1>3, Zenon
    <3> QED BY <3>1, <3>2, Zenon
  <2> QED BY <2>1, <2>2, Zenon DEF Cuts
<1>5. h[Len(bytes)] = g[Len(bytes)]
  <2>1. \A i \in 0 .. Len(bytes) : h[i] = g[i]
    BY ONLY <1>1, <1>4, Len(bytes) \in Nat, CutsUnique
  <2> QED BY <2>1
<1>6. Ends(h, bytes) = Ends(g, bytes)
  BY <1>5, Zenon DEF Ends
<1>7. Split(bytes) = [k \in 1 .. Len(Ends(g, bytes)) - 1 |->
                SubSeq(bytes, Ends(g, bytes)[k] + 1, Ends(g, bytes)[k + 1] - 1)]
  BY <1>3, <1>6, Zenon
<1> QED BY <1>1, <1>7, Zenon

(* Lemma: bytes that are no separators add none.                            *)
LEMMA CutsStay ==
  ASSUME NEW bytes, NEW g, NEW from \in Nat, NEW to \in Nat, from <= to, Cuts(g, bytes, to),
         \A i \in from + 1 .. to : bytes[i] # RS
  PROVE  g[to] = g[from]
<1> DEFINE Q(n) == from + n <= to => g[from + n] = g[from]
           T == {n \in Nat : Q(n)}
<1>1. Q(0)
  OBVIOUS
<1>2. ASSUME NEW n \in Nat, Q(n) PROVE Q(n + 1)
  <2> SUFFICES ASSUME from + (n + 1) <= to PROVE g[from + (n + 1)] = g[from]
    OBVIOUS
  <2> DEFINE i == from + (n + 1)
  <2>1. i \in 1 .. to /\ i \in from + 1 .. to /\ i - 1 = from + n
    OBVIOUS
  <2> HIDE DEF i
  <2>2. g[i] = g[i - 1]
    BY <2>1, Zenon DEF Cuts
  <2>3. g[from + n] = g[from]
    BY <1>2
  <2> QED BY <2>1, <2>2, <2>3 DEF i
<1> HIDE DEF Q
<1>3. T = Nat
  <2>1. T \in SUBSET Nat /\ 0 \in T /\ \A k \in T : k + 1 \in T
    BY <1>1, <1>2
  <2> HIDE DEF T
  <2> QED BY <2>1, SetInduction
<1>4. Q(to - from)
  BY <1>3
<1> QED BY <1>4 DEF Q

(* Lemmas: what is a sequence, one element longer than another, and what    *)
(* precedes its last element.                                               *)
LEMMA IsSeq ==
  ASSUME NEW P, NEW n \in Nat, NEW f, DOMAIN f = 1 .. n, f = [i \in 1 .. n |-> f[i]],
         \A i \in 1 .. n : f[i] \in P
  PROVE  f \in Seq(P) /\ Len(f) = n
OBVIOUS

LEMMA AppendUnique ==
  ASSUME NEW P, NEW q \in Seq(P), NEW x \in P, NEW t \in Seq(P),
         Len(t) = Len(q) + 1, t[Len(t)] = x, \A i \in 1 .. Len(q) : t[i] = q[i]
  PROVE  t = Append(q, x)
<1> DEFINE r == Append(q, x)
<1>1. r \in Seq(P) /\ Len(r) = Len(q) + 1 /\ r[Len(q) + 1] = x /\ \A i \in 1 .. Len(q) : r[i] = q[i]
  BY AppendProperties
<1> HIDE DEF r
<1>2. Len(q) \in Nat
  OBVIOUS
<1>3. ASSUME NEW i \in 1 .. Len(t) PROVE t[i] = r[i]
  BY <1>1, <1>2
<1>4. t = r
  BY <1>1, <1>3, SeqEqual
<1> QED BY <1>4 DEF r

LEMMA FrontAndLast ==
  ASSUME NEW P, NEW q \in Seq(P), q # <<>>
  PROVE  \E r \in Seq(P), s \in P :
           q = Append(r, s) /\ Len(q) = Len(r) + 1 /\ s = q[Len(q)]
           /\ \A i \in 1 .. Len(r) : r[i] = q[i]
<1> DEFINE r == SubSeq(q, 1, Len(q) - 1)
           s == q[Len(q)]
<1>1. Len(q) \in Nat /\ Len(q) # 0 /\ s \in P
  OBVIOUS
<1>2. r \in Seq(P) /\ Len(r) = Len(q) - 1 /\ \A i \in 1 .. Len(r) : r[i] = q[i]
  <2>1. PICK n \in Nat : n = Len(q) - 1
    BY <1>1
  <2>2. \A i \in 1 .. n : q[i] \in P
    BY <2>1
  <2>3. 1 \in Int /\ n \in Int
    OBVIOUS
  <2>4. /\ SubSeq(q, 1, n) \in Seq(P)
        /\ Len(SubSeq(q, 1, n)) = IF 1 <= n THEN n - 1 + 1 ELSE 0
        /\ \A i \in 1 .. n - 1 + 1 : SubSeq(q, 1, n)[i] = q[1 + i - 1]
    BY ONLY <2>2, <2>3, SubSeqProperties
  <2> QED BY <2>1, <2>4
<1> HIDE DEF r
<1>3. q = Append(r, s)
  <2>1. Len(q) = Len(r) + 1 /\ \A i \in 1 .. Len(r) : q[i] = r[i]
    BY <1>1, <1>2
  <2> QED BY <1>1, <1>2, <2>1, AppendUnique
<1> HIDE DEF s
<1>4. Len(q) = Len(r) + 1 /\ s = q[Len(q)]
  BY <1>1, <1>2 DEF s
<1> QED BY <1>1, <1>2, <1>3, <1>4, Zenon

(* A packet no byte of which is the separator.                              *)
RSFree(s) == \A i \in DOMAIN s : s[i] # RS

(* Lemma: a packet without a separator is not taken apart.                  *)
LEMMA SplitNone ==
  ASSUME NEW C, NEW s \in Seq(C), RSFree(s)
  PROVE  Split(s) = <<s>>
<1>0. Len(s) \in Nat
  OBVIOUS
<1>1. PICK g \in [0 .. Len(s) -> Seq(0 .. Len(s))] :
        /\ Cuts(g, s, Len(s))
        /\ Split(s) = [k \in 1 .. Len(Ends(g, s)) - 1 |->
                         SubSeq(s, Ends(g, s)[k] + 1, Ends(g, s)[k + 1] - 1)]
  BY <1>0, SplitCuts
<1>2. g[Len(s)] = g[0]
  <2>1. \A i \in 0 + 1 .. Len(s) : s[i] # RS
    BY DEF RSFree
  <2>2. 0 \in Nat /\ 0 <= Len(s)
    BY <1>0
  <2> QED BY ONLY <1>0, <1>1, <2>1, <2>2, CutsStay
<1>4. SubSeq(s, 1, Len(s)) = s
  OBVIOUS
<1> DEFINE e == Ends(g, s)
<1>5. Len(e) = 2 /\ e[1] = 0 /\ e[2] = Len(s) + 1
  <2>1. e = Append(<<0>>, Len(s) + 1)
    BY <1>1, <1>2, Zenon DEF Ends, Cuts
  <2> HIDE DEF e
  <2>2. <<0>> \in Seq(Nat) /\ Len(<<0>>) = 1 /\ <<0>>[1] = 0 /\ Len(s) + 1 \in Nat
    BY <1>0
  <2> QED BY <2>1, <2>2, AppendProperties
<1> HIDE DEF e
<1>6. Split(s) = [k \in 1 .. Len(e) - 1 |-> SubSeq(s, e[k] + 1, e[k + 1] - 1)]
  BY <1>1 DEF e
<1>7. Split(s) = [k \in 1 .. 1 |-> SubSeq(s, e[k] + 1, e[k + 1] - 1)]
  BY <1>5, <1>6
<1>8. \A k \in 1 .. 1 : SubSeq(s, e[k] + 1, e[k + 1] - 1) = s
  <2>1. e[1] + 1 = 1 /\ e[1 + 1] - 1 = Len(s)
    BY <1>0, <1>5
  <2> QED BY <1>4, <2>1
<1>9. Split(s) = [k \in 1 .. 1 |-> s]
  BY <1>7, <1>8
<1> QED BY <1>9

(* Lemma: sequences that agree have the same parts.                         *)
LEMMA SubSeqSame ==
  ASSUME NEW C, NEW w \in Seq(C), NEW b \in Seq(C), Len(b) <= Len(w),
         \A i \in 1 .. Len(b) : w[i] = b[i],
         NEW i \in 1 .. Len(b) + 1, NEW j \in -1 .. Len(b)
  PROVE  SubSeq(w, i, j) = SubSeq(b, i, j)
<1>1. Len(b) \in Nat /\ Len(w) \in Nat /\ i \in Int /\ j \in Int
  OBVIOUS
<1>2. \A k \in i .. j : w[k] = b[k] /\ b[k] \in C /\ w[k] \in C
  BY <1>1
<1>3. /\ SubSeq(w, i, j) \in Seq(C) /\ SubSeq(b, i, j) \in Seq(C)
      /\ Len(SubSeq(w, i, j)) = IF i <= j THEN j - i + 1 ELSE 0
      /\ Len(SubSeq(b, i, j)) = IF i <= j THEN j - i + 1 ELSE 0
      /\ \A k \in 1 .. j - i + 1 : SubSeq(w, i, j)[k] = w[i + k - 1]
      /\ \A k \in 1 .. j - i + 1 : SubSeq(b, i, j)[k] = b[i + k - 1]
  BY <1>1, <1>2, SubSeqProperties
<1> DEFINE v == SubSeq(w, i, j)
           a == SubSeq(b, i, j)
<1> HIDE DEF v, a
<1>4. ASSUME NEW k \in 1 .. Len(v) PROVE v[k] = a[k]
  <2>1. k \in 1 .. j - i + 1 /\ i + k - 1 \in i .. j
    BY <1>1, <1>3 DEF v
  <2> QED BY <1>2, <1>3, <2>1 DEF v, a
<1>5. v \in Seq(C) /\ a \in Seq(C) /\ Len(v) = Len(a)
  BY <1>3 DEF v, a
<1>6. v = a
  BY ONLY <1>4, <1>5, SeqEqual
<1> QED BY <1>6 DEF v, a

(* Lemma: what is left behind the first elements.                           *)
LEMMA SubSeqRest ==
  ASSUME NEW C, NEW w \in Seq(C), NEW s \in Seq(C), NEW n \in Nat, NEW m \in Nat,
         m = Len(w), m = n + Len(s), \A i \in 1 .. Len(s) : w[n + i] = s[i]
  PROVE  SubSeq(w, n + 1, m) = s
<1>1. PICK a \in Int : a = n + 1
  OBVIOUS
<1>2. ASSUME NEW k \in a .. m PROVE w[k] \in C
  <2>1. k \in 1 .. Len(w)
    BY <1>1
  <2> QED BY ONLY w \in Seq(C), <2>1, ElementOfSeq
<1> DEFINE v == SubSeq(w, a, m)
<1>3. /\ v \in Seq(C) /\ Len(v) = IF a <= m THEN m - a + 1 ELSE 0
      /\ \A k \in 1 .. m - a + 1 : v[k] = w[a + k - 1]
  <2>1. m \in Int
    OBVIOUS
  <2> QED BY ONLY <1>2, <2>1, a \in Int, SubSeqProperties
<1> HIDE DEF v
<1>4. Len(v) = Len(s) /\ Len(s) \in Nat
  BY <1>1, <1>3
<1>5. ASSUME NEW k \in 1 .. Len(v) PROVE v[k] = s[k]
  <2>1. k \in 1 .. m - a + 1 /\ a + k - 1 = n + k /\ k \in 1 .. Len(s)
    BY <1>1, <1>4
  <2> QED BY <1>3, <2>1, Zenon
<1>6. v = s
  BY ONLY s \in Seq(C), <1>3, <1>4, <1>5, SeqEqual
<1> QED BY <1>1, <1>6, Zenon DEF v

(* Lemma: a separator and a packet behind a body are one packet more.       *)
LEMMA SplitMore ==
  ASSUME NEW C, RS \in C, NEW b \in Seq(C), NEW s \in Seq(C), RSFree(s)
  PROVE  Split(b \o <<RS>> \o s) = Append(Split(b), s) /\ Split(b) \in Seq(Seq(C))
<1> DEFINE w == b \o <<RS>> \o s
           n == Len(b)
           m == Len(w)
<1>0. /\ w \in Seq(C) /\ n \in Nat /\ m = n + 1 + Len(s) /\ m \in Nat /\ Len(s) \in Nat /\ Len(b) \in Nat
      /\ \A i \in 1 .. n : w[i] = b[i]
      /\ w[n + 1] = RS
      /\ \A i \in 1 .. Len(s) : w[n + 1 + i] = s[i]
  OBVIOUS
<1>1. PICK g \in [0 .. Len(b) -> Seq(0 .. Len(b))] :
        /\ Cuts(g, b, Len(b))
        /\ Split(b) = [k \in 1 .. Len(Ends(g, b)) - 1 |->
                         SubSeq(b, Ends(g, b)[k] + 1, Ends(g, b)[k + 1] - 1)]
  BY <1>0, SplitCuts
<1> HIDE DEF w, n, m
<1>2. PICK h \in [0 .. Len(w) -> Seq(0 .. Len(w))] :
        /\ Cuts(h, w, Len(w))
        /\ Split(w) = [k \in 1 .. Len(Ends(h, w)) - 1 |->
                         SubSeq(w, Ends(h, w)[k] + 1, Ends(h, w)[k + 1] - 1)]
  <2>1. Len(w) \in Nat
    BY <1>0 DEF m
  <2> QED BY <2>1, SplitCuts
<1>3. h[n] = g[n]
  <2>1. Cuts(h, b, n)
    <3>1. 1 .. n \subseteq 1 .. m
      BY <1>0
    <3> QED BY <1>0, <1>2, <3>1, Zenon DEF Cuts, m
  <2>2. Cuts(g, b, n)
    BY <1>1 DEF n
  <2>3. \A i \in 0 .. n : h[i] = g[i]
    <3>1. n \in Nat
      BY <1>0
    <3> QED BY ONLY <2>1, <2>2, <3>1, CutsUnique, SMTT(30)
  <2> QED BY <2>3, <1>0
<1>4. h[n + 1] = Append(h[n], n + 1)
  <2>1. n + 1 \in 1 .. Len(w) /\ (n + 1) - 1 = n
    BY <1>0 DEF m
  <2> QED BY <1>0, <1>2, <2>1, Zenon DEF Cuts
<1>5. h[m] = h[n + 1]
  <2>1. \A i \in (n + 1) + 1 .. m : w[i] # RS
    <3> SUFFICES ASSUME NEW i \in (n + 1) + 1 .. m PROVE w[i] # RS
      OBVIOUS
    <3>1. i - (n + 1) \in 1 .. Len(s) /\ n + 1 + (i - (n + 1)) = i
      BY <1>0
    <3>2. i - (n + 1) \in DOMAIN s
      BY <3>1
    <3> QED BY <1>0, <3>1, <3>2 DEF RSFree
  <2>2. n + 1 \in Nat /\ m \in Nat /\ n + 1 <= m /\ Cuts(h, w, m)
    BY <1>0, <1>2 DEF m
  <2> QED BY ONLY <2>1, <2>2, CutsStay
<1> DEFINE e == Ends(g, b)
           f == Ends(h, w)
<1>6. e \in Seq(Nat) /\ e = Append(g[n], n + 1) /\ Len(e) >= 1 /\ e[Len(e)] = n + 1
      /\ \A k \in 1 .. Len(e) - 1 : e[k] <= n
  <2>1. Len(b) \in 0 .. Len(b)
    BY <1>0
  <2>2. g[n] \in Seq(0 .. n)
    BY <2>1, Zenon DEF n
  <2>3. e = Append(g[n], n + 1)
    BY DEF Ends, n
  <2> QED BY ONLY <1>0, <2>2, <2>3, n \in Nat
<1>7. f = Append(e, m + 1)
  BY <1>3, <1>4, <1>5, <1>6, Zenon DEF Ends, m
<1> HIDE DEF e, f
<1>8. /\ Split(b) = [k \in 1 .. Len(e) - 1 |-> SubSeq(b, e[k] + 1, e[k + 1] - 1)]
      /\ Split(w) = [k \in 1 .. Len(f) - 1 |-> SubSeq(w, f[k] + 1, f[k + 1] - 1)]
  BY <1>1, <1>2 DEF e, f
<1>9. /\ Len(f) = Len(e) + 1 /\ f[Len(e)] = n + 1 /\ f[Len(e) + 1] = m + 1
      /\ \A k \in 1 .. Len(e) : f[k] = e[k]
  BY <1>6, <1>7
<1>10. \A k \in 1 .. Len(e) - 1 : e[k] \in 0 .. n /\ e[k + 1] \in 0 .. n + 1
  <2> SUFFICES ASSUME NEW k \in 1 .. Len(e) - 1 PROVE e[k] \in 0 .. n /\ e[k + 1] \in 0 .. n + 1
    OBVIOUS
  <2>0. k \in 1 .. Len(e) /\ k + 1 \in 1 .. Len(e)
    BY <1>6
  <2>1. n \in Nat /\ e[k] \in Nat /\ e[k + 1] \in Nat /\ e[k] <= n
    <3>1. e[k] <= n
      BY <1>6
    <3> QED BY <2>0, <3>1, <1>0, <1>6, ElementOfSeq
  <2>2. k + 1 = Len(e) \/ k + 1 \in 1 .. Len(e) - 1
    BY <1>6
  <2>3. e[k + 1] <= n + 1
    BY <1>6, <2>1, <2>2
  <2> QED BY <2>1, <2>3
<1>11. ASSUME NEW k \in 1 .. Len(e) - 1
       PROVE  SubSeq(w, f[k] + 1, f[k + 1] - 1) = SubSeq(b, e[k] + 1, e[k + 1] - 1)
  <2>1. f[k] = e[k] /\ f[k + 1] = e[k + 1] /\ e[k] \in 0 .. n /\ e[k + 1] \in 0 .. n + 1
    <3>1. k \in 1 .. Len(e) /\ k + 1 \in 1 .. Len(e)
      BY <1>6
    <3> QED BY <3>1, <1>9, <1>10
  <2>2. e[k] + 1 \in 1 .. n + 1 /\ e[k + 1] - 1 \in -1 .. n /\ Len(b) <= Len(w)
    BY <1>0, <2>1 DEF n, m
  <2>3. SubSeq(w, e[k] + 1, e[k + 1] - 1) = SubSeq(b, e[k] + 1, e[k + 1] - 1)
    BY ONLY <1>0, b \in Seq(C), <2>2, SubSeqSame DEF n
  <2> QED BY <2>1, <2>3
<1>12. SubSeq(w, f[Len(e)] + 1, f[Len(e) + 1] - 1) = s
  <2>1. f[Len(e)] + 1 = n + 2 /\ f[Len(e) + 1] - 1 = m
    BY <1>0, <1>9
  <2>2. m = Len(w) /\ n + 1 \in Nat /\ m = (n + 1) + Len(s)
    BY <1>0 DEF m
  <2>3. SubSeq(w, (n + 1) + 1, m) = s
    BY ONLY <1>0, <2>2, s \in Seq(C), SubSeqRest
  <2>4. (n + 1) + 1 = n + 2
    BY <1>0
  <2> QED BY <2>1, <2>3, <2>4
<1>13. Split(b) \in Seq(Seq(C)) /\ Len(Split(b)) = Len(e) - 1
  <2>1. \A k \in 1 .. Len(e) - 1 : SubSeq(b, e[k] + 1, e[k + 1] - 1) \in Seq(C)
    <3>1. \A i \in 0 .. n, j \in 0 .. n + 1 : SubSeq(b, i + 1, j - 1) \in Seq(C)
      BY <1>0 DEF n
    <3> QED BY <3>1, <1>10
  <2>2. Len(e) - 1 \in Nat
    BY <1>6
  <2> DEFINE q == Split(b)
             P == Seq(C)
  <2>3. q = [k \in 1 .. Len(e) - 1 |-> SubSeq(b, e[k] + 1, e[k + 1] - 1)]
    BY <1>8
  <2> HIDE DEF q
  <2>4. \A k \in 1 .. Len(e) - 1 : q[k] \in P
    BY <2>1, <2>3, Zenon
  <2>5. DOMAIN q = 1 .. Len(e) - 1 /\ q = [k \in 1 .. Len(e) - 1 |-> q[k]]
    BY <2>3
  <2> HIDE DEF P
  <2>6. q \in Seq(P) /\ Len(q) = Len(e) - 1
    BY ONLY <2>2, <2>4, <2>5, IsSeq
  <2> QED BY <2>6, Zenon DEF q, P
<1>15. Split(w) = [k \in 1 .. Len(e) |-> IF k = Len(e) THEN s ELSE Split(b)[k]]
  <2>1. Split(w) = [k \in 1 .. Len(e) |-> SubSeq(w, f[k] + 1, f[k + 1] - 1)]
    BY <1>6, <1>8, <1>9
  <2>2. \A k \in 1 .. Len(e) : SubSeq(w, f[k] + 1, f[k + 1] - 1) = IF k = Len(e) THEN s ELSE Split(b)[k]
    <3> SUFFICES ASSUME NEW k \in 1 .. Len(e)
                 PROVE  SubSeq(w, f[k] + 1, f[k + 1] - 1) = IF k = Len(e) THEN s ELSE Split(b)[k]
      OBVIOUS
    <3>1. CASE k = Len(e)
      BY <3>1, <1>12, Zenon
    <3>2. CASE k # Len(e)
      <4>1. k \in 1 .. Len(e) - 1
        BY <1>6, <3>2
      <4>2. Split(b)[k] = SubSeq(b, e[k] + 1, e[k + 1] - 1)
        BY <4>1, <1>8, Zenon
      <4> QED BY <4>1, <4>2, <3>2, <1>11, Zenon
    <3> QED BY <3>1, <3>2
  <2> QED BY <2>1, <2>2
<1>16. Split(w) = Append(Split(b), s)
  <2> DEFINE t == Append(Split(b), s)
             P == Seq(C)
  <2>1. s \in P /\ Split(b) \in Seq(P) /\ Len(Split(b)) + 1 = Len(e) /\ Len(e) \in Nat
    BY <1>6, <1>13
  <2> HIDE DEF P
  <2>2. /\ t \in Seq(P) /\ Len(t) = Len(e) /\ t[Len(e)] = s
        /\ \A k \in 1 .. Len(e) - 1 : t[k] = Split(b)[k]
    BY <2>1, AppendProperties
  <2> HIDE DEF t
  <2>3. \A k \in 1 .. Len(e) : t[k] = IF k = Len(e) THEN s ELSE Split(b)[k]
    <3>1. ASSUME NEW k \in 1 .. Len(e), k # Len(e) PROVE t[k] = Split(b)[k]
      <4>1. k \in 1 .. Len(e) - 1
        BY <2>1, <3>1
      <4> QED BY <4>1, <2>2, Zenon
    <3> QED BY <3>1, <2>2, Zenon
  <2>4. t = [k \in 1 .. Len(e) |-> t[k]]
    BY <2>2
  <2>5. t = [k \in 1 .. Len(e) |-> IF k = Len(e) THEN s ELSE Split(b)[k]]
    BY <2>3, <2>4
  <2> QED BY <2>5, <1>15, Zenon DEF t
<1> QED BY <1>13, <1>16 DEF w

(* Packets with the separator before each, as Join puts them together.      *)
Marked(seqs) == [i \in DOMAIN seqs |-> <<RS>> \o seqs[i]]

LEMMA MarkedIs ==
  ASSUME NEW P, NEW seqs \in Seq(P), \A x \in P : <<RS>> \o x \in P
  PROVE  /\ Marked(seqs) \in Seq(P) /\ Len(Marked(seqs)) = Len(seqs)
         /\ \A i \in 1 .. Len(seqs) : Marked(seqs)[i] = <<RS>> \o seqs[i]
<1> DEFINE f == Marked(seqs)
<1>1. Len(seqs) \in Nat /\ DOMAIN seqs = 1 .. Len(seqs) /\ \A i \in 1 .. Len(seqs) : seqs[i] \in P
  OBVIOUS
<1>2. f = [i \in 1 .. Len(seqs) |-> <<RS>> \o seqs[i]]
  BY <1>1 DEF Marked
<1> HIDE DEF f
<1>3. DOMAIN f = 1 .. Len(seqs) /\ \A i \in 1 .. Len(seqs) : f[i] = <<RS>> \o seqs[i]
  BY <1>2, Zenon
<1>4. f = [i \in 1 .. Len(seqs) |-> f[i]] /\ \A i \in 1 .. Len(seqs) : f[i] \in P
  BY <1>1, <1>2, <1>3, Zenon
<1>5. f \in Seq(P) /\ Len(f) = Len(seqs)
  BY ONLY <1>1, <1>3, <1>4, IsSeq
<1> QED BY <1>3, <1>5 DEF f

(* Lemma: one packet more in a body.                                        *)
LEMMA JoinStep ==
  ASSUME NEW C, RS \in C, NEW P, P = Seq(C), NEW seqs \in Seq(P), NEW s \in P
  PROVE  /\ FlattenSeq(Marked(seqs)) \in P
         /\ seqs = <<>> => FlattenSeq(Marked(seqs)) = <<>>
         /\ FlattenSeq(Marked(Append(seqs, s))) = FlattenSeq(Marked(seqs)) \o (<<RS>> \o s)
<1>1. \A x \in P : <<RS>> \o x \in P
  OBVIOUS
<1> DEFINE t == Append(seqs, s)
           m == Marked(seqs)
           x == <<RS>> \o s
<1>2. /\ t \in Seq(P) /\ Len(t) = Len(seqs) + 1 /\ t[Len(seqs) + 1] = s
      /\ \A i \in 1 .. Len(seqs) : t[i] = seqs[i]
  BY AppendProperties
<1>3. x \in P
  BY <1>1
<1> HIDE DEF t
<1>4. /\ m \in Seq(P) /\ Len(m) = Len(seqs)
      /\ \A i \in 1 .. Len(seqs) : m[i] = <<RS>> \o seqs[i]
  BY <1>1, MarkedIs, Zenon
<1>5. /\ Marked(t) \in Seq(P) /\ Len(Marked(t)) = Len(t)
      /\ \A i \in 1 .. Len(t) : Marked(t)[i] = <<RS>> \o t[i]
  BY <1>1, <1>2, MarkedIs, Zenon
<1> HIDE DEF m, x
<1>6. Marked(t) = Append(m, x)
  <2>1. Len(Marked(t)) = Len(m) + 1 /\ Len(t) \in 1 .. Len(t)
        /\ Len(t) = Len(seqs) + 1 /\ 1 .. Len(m) \subseteq 1 .. Len(t) /\ Len(m) = Len(seqs)
    BY <1>2, <1>4, <1>5
  <2>2. Marked(t)[Len(Marked(t))] = x
    BY <1>2, <1>5, <2>1, Zenon DEF x
  <2>3. \A i \in 1 .. Len(m) : Marked(t)[i] = m[i]
    BY <1>2, <1>4, <1>5, <2>1, Zenon
  <2> QED BY ONLY <1>3, <1>4, <1>5, <2>1, <2>2, <2>3, AppendUnique
<1>7. FlattenSeq(Append(m, x)) = FlattenSeq(m) \o x /\ FlattenSeq(m) \in P
  BY ONLY P = Seq(C), <1>3, <1>4, FlattenAppend
<1>8. seqs = <<>> => FlattenSeq(m) = <<>>
  <2>1. ASSUME seqs = <<>> PROVE m = <<>>
    BY <2>1 DEF Marked, m
  <2> QED BY <2>1, FlattenEmpty, Zenon
<1> QED BY <1>6, <1>7, <1>8, Zenon DEF m, t, x

(* Lemma: by induction over the packets of a body.                          *)
LEMMA PayloadInduction ==
  ASSUME NEW C, RS \in C, NEW P, P = Seq(C), NEW seqs \in Seq(P), seqs # <<>>,
         \A i \in 1 .. Len(seqs) : RSFree(seqs[i])
  PROVE  Split(Join(seqs)) = seqs /\ Join(seqs) \in P
<1> DEFINE Clean(q) == \A i \in 1 .. Len(q) : RSFree(q[i])
           F(q) == FlattenSeq(Marked(q))
           Good(q) == Split(Join(q)) = q /\ F(q) \in P /\ F(q) # <<>>
           Q(n) == \A q \in Seq(P) : Len(q) = n /\ Clean(q) /\ q # <<>> => Good(q)
           T == {n \in Nat : Q(n)}
<1>1. \A q : Join(q) = Tail(F(q))
  BY Zenon DEF Join, Marked
<1>2. ASSUME NEW q \in Seq(P), NEW s \in P PROVE F(Append(q, s)) = F(q) \o (<<RS>> \o s)
  BY ONLY RS \in C, P = Seq(C), JoinStep
<1>3. F(<<>>) = <<>>
  BY FlattenEmpty DEF Marked
<1> HIDE DEF F
<1>4. Q(0)
  OBVIOUS
<1>5. ASSUME NEW n \in Nat, Q(n) PROVE Q(n + 1)
  <2> SUFFICES ASSUME NEW q \in Seq(P), Len(q) = n + 1, Clean(q), q # <<>> PROVE Good(q)
    OBVIOUS
  <2>1. PICK r \in Seq(P), s \in P :
          q = Append(r, s) /\ Len(q) = Len(r) + 1 /\ s = q[Len(q)] /\ \A i \in 1 .. Len(r) : r[i] = q[i]
    BY ONLY q \in Seq(P), q # <<>>, FrontAndLast
  <2>2. Len(r) = n /\ Clean(r) /\ RSFree(s)
    <3>1. Len(r) \in Nat
      OBVIOUS
    <3> QED BY <2>1, <3>1
  <2>3. F(q) = F(r) \o (<<RS>> \o s)
    BY <1>2, <2>1, Zenon
  <2>4. CASE r = <<>>
    <3>1. \A x \in P : LET y == <<>> \o (<<RS>> \o x) IN y \in P /\ y # <<>> /\ Tail(y) = x
      OBVIOUS
    <3>2. F(q) \in P /\ F(q) # <<>> /\ Tail(F(q)) = s
      BY <1>3, <2>3, <2>4, <3>1, Zenon
    <3>3. Split(s) = <<s>>
      BY ONLY P = Seq(C), s \in P, <2>2, SplitNone
    <3>4. <<s>> = Append(<<>>, s)
      OBVIOUS
    <3> QED BY <1>1, <2>1, <2>4, <3>2, <3>3, <3>4, Zenon
  <2>5. CASE r # <<>>
    <3>1. Split(Tail(F(r))) = r /\ F(r) \in P /\ F(r) # <<>>
      BY <1>1, <1>5, <2>2, <2>5, Zenon
    <3> DEFINE f == F(r)
    <3> HIDE DEF f
    <3>2. f \in P /\ f # <<>>
      BY <3>1 DEF f
    <3>3. Tail(f) \in P /\ f \o (<<RS>> \o s) \in P /\ f \o (<<RS>> \o s) # <<>>
      BY ONLY RS \in C, P = Seq(C), s \in P, <3>2
    <3>4. Tail(f \o (<<RS>> \o s)) = Tail(f) \o <<RS>> \o s
      BY ONLY RS \in C, P = Seq(C), s \in P, <3>2
    <3>5. Split(Tail(f) \o <<RS>> \o s) = Append(Split(Tail(f)), s)
      BY ONLY RS \in C, P = Seq(C), s \in P, <2>2, <3>3, SplitMore
    <3> QED BY <1>1, <2>1, <2>3, <3>1, <3>3, <3>4, <3>5, Zenon DEF f
  <2> QED BY <2>4, <2>5
<1> HIDE DEF Q
<1>6. T = Nat
  <2>1. T \in SUBSET Nat /\ 0 \in T /\ \A k \in T : k + 1 \in T
    BY <1>4, <1>5
  <2> HIDE DEF T
  <2> QED BY <2>1, SetInduction
<1>7. Q(Len(seqs))
  <2>1. Len(seqs) \in Nat
    OBVIOUS
  <2> QED BY <2>1, <1>6
<1>8. Split(Join(seqs)) = seqs /\ F(seqs) \in P /\ F(seqs) # <<>>
  BY <1>7, Zenon DEF Q
<1>9. \A f \in P : f # <<>> => Tail(f) \in P
  OBVIOUS
<1> QED BY <1>1, <1>8, <1>9, Zenon

(* A polling body is taken apart into the packets it was made of, any number  *)
(* of them and of any bytes but the separator (TryFrom<Payload> for Bytes and *)
(* TryFrom<Bytes> for Payload).                                               *)
THEOREM PayloadRoundTrip ==
  ASSUME NEW C, RS \in C, NEW seqs \in Seq(Seq(C)), seqs # <<>>,
         \A i \in 1 .. Len(seqs) : RSFree(seqs[i])
  PROVE  Split(Join(seqs)) = seqs
<1>1. PICK P : P = Seq(C)
  OBVIOUS
<1>2. seqs \in Seq(P)
  BY <1>1, Zenon
<1> QED BY ONLY RS \in C, seqs # <<>>, <1>1, <1>2, \A i \in 1 .. Len(seqs) : RSFree(seqs[i]), PayloadInduction

-----------------------------------------------------------------------------
(* A sequence, of whatever it is one; one that begins with another.         *)
Sequence(s) == \E S : s \in Seq(S)
BeginsWith(t, s) == Len(s) <= Len(t) /\ \A i \in 1 .. Len(s) : t[i] = s[i]

(* Lemmas: what sequences consist of.                                       *)
LEMMA SequenceIs ==
  ASSUME NEW s, Sequence(s)
  PROVE  Len(s) \in Nat /\ DOMAIN s = 1 .. Len(s) /\ (Len(s) = 0 <=> s = <<>>)
<1>1. PICK S : s \in Seq(S)
  BY Zenon DEF Sequence
<1> QED BY <1>1

LEMMA SequenceEmpty == Sequence(<<>>) /\ Len(<<>>) = 0
<1>1. <<>> \in Seq({})
  OBVIOUS
<1> QED BY <1>1, Zenon DEF Sequence

LEMMA SequenceOne ==
  ASSUME NEW x
  PROVE  Sequence(<<x>>) /\ Len(<<x>>) = 1 /\ <<x>>[1] = x
<1>1. <<x>> \in Seq({x})
  OBVIOUS
<1>2. Sequence(<<x>>)
  BY <1>1, Zenon DEF Sequence
<1> QED BY <1>2

LEMMA SequenceMade ==
  ASSUME NEW n \in Nat, NEW f, DOMAIN f = 1 .. n, f = [i \in 1 .. n |-> f[i]]
  PROVE  Sequence(f) /\ Len(f) = n
<1>1. PICK P : P = {f[i] : i \in 1 .. n}
  OBVIOUS
<1>2. \A i \in 1 .. n : f[i] \in P
  BY <1>1
<1>3. f \in Seq(P) /\ Len(f) = n
  BY ONLY <1>2, n \in Nat, DOMAIN f = 1 .. n, f = [i \in 1 .. n |-> f[i]], IsSeq
<1> QED BY <1>3, Zenon DEF Sequence

LEMMA SequenceEqual ==
  ASSUME NEW s, NEW t, Sequence(s), Sequence(t), Len(s) = Len(t),
         \A i \in 1 .. Len(s) : s[i] = t[i]
  PROVE  s = t
<1>1. PICK S : s \in Seq(S)
  BY Zenon DEF Sequence
<1>2. PICK T : t \in Seq(T)
  BY Zenon DEF Sequence
<1>3. PICK U : U = S \cup T
  OBVIOUS
<1>4. s \in Seq(U) /\ t \in Seq(U)
  BY <1>1, <1>2, <1>3
<1> QED BY ONLY <1>4, Len(s) = Len(t), \A i \in 1 .. Len(s) : s[i] = t[i], SeqEqual

LEMMA SequenceConcat ==
  ASSUME NEW s, NEW t, Sequence(s), Sequence(t)
  PROVE  /\ Sequence(s \o t) /\ Len(s \o t) = Len(s) + Len(t)
         /\ \A i \in 1 .. Len(s) : (s \o t)[i] = s[i]
         /\ \A i \in 1 .. Len(t) : (s \o t)[Len(s) + i] = t[i]
         /\ t = <<>> => s \o t = s
<1>1. PICK S : s \in Seq(S)
  BY Zenon DEF Sequence
<1>2. PICK T : t \in Seq(T)
  BY Zenon DEF Sequence
<1>3. PICK U : U = S \cup T
  OBVIOUS
<1>4. s \in Seq(U) /\ t \in Seq(U)
  BY <1>1, <1>2, <1>3
<1>5. /\ s \o t \in Seq(U) /\ Len(s \o t) = Len(s) + Len(t)
      /\ \A i \in 1 .. Len(s) : (s \o t)[i] = s[i]
      /\ \A i \in 1 .. Len(t) : (s \o t)[Len(s) + i] = t[i]
      /\ t = <<>> => s \o t = s
  BY ONLY <1>4
<1> QED BY <1>5, Zenon DEF Sequence

LEMMA SequenceAssociative ==
  ASSUME NEW s, NEW t, NEW u, Sequence(s), Sequence(t), Sequence(u)
  PROVE  (s \o t) \o u = s \o (t \o u)
<1>1. PICK S : s \in Seq(S)
  BY Zenon DEF Sequence
<1>2. PICK T : t \in Seq(T)
  BY Zenon DEF Sequence
<1>3. PICK U : u \in Seq(U)
  BY Zenon DEF Sequence
<1>4. PICK V : V = S \cup T \cup U
  OBVIOUS
<1>5. s \in Seq(V) /\ t \in Seq(V) /\ u \in Seq(V)
  BY <1>1, <1>2, <1>3, <1>4
<1> QED BY ONLY <1>5

LEMMA SequenceAppend ==
  ASSUME NEW s, NEW x, Sequence(s)
  PROVE  /\ Sequence(Append(s, x)) /\ Len(Append(s, x)) = Len(s) + 1
         /\ Append(s, x)[Len(s) + 1] = x
         /\ \A i \in 1 .. Len(s) : Append(s, x)[i] = s[i]
         /\ Append(s, x) = s \o <<x>>
<1>1. PICK S : s \in Seq(S)
  BY Zenon DEF Sequence
<1>2. PICK U : U = S \cup {x}
  OBVIOUS
<1>3. s \in Seq(U) /\ x \in U
  BY <1>1, <1>2
<1>4. /\ Append(s, x) \in Seq(U) /\ Len(Append(s, x)) = Len(s) + 1
      /\ Append(s, x)[Len(s) + 1] = x
      /\ \A i \in 1 .. Len(s) : Append(s, x)[i] = s[i]
      /\ Append(s, x) = s \o <<x>>
  BY ONLY <1>3
<1> QED BY <1>4, Zenon DEF Sequence

LEMMA SequenceTail ==
  ASSUME NEW s, Sequence(s), s # <<>>
  PROVE  /\ Sequence(Tail(s)) /\ Len(Tail(s)) = Len(s) - 1 /\ Head(s) = s[1] /\ Len(s) # 0
         /\ \A i \in 1 .. Len(s) - 1 : Tail(s)[i] = s[i + 1]
<1>1. PICK S : s \in Seq(S)
  BY Zenon DEF Sequence
<1>2. /\ Tail(s) \in Seq(S) /\ Len(Tail(s)) = Len(s) - 1 /\ Head(s) = s[1] /\ Len(s) # 0
      /\ \A i \in 1 .. Len(s) - 1 : Tail(s)[i] = s[i + 1]
  BY ONLY <1>1, s # <<>>
<1> QED BY <1>2, Zenon DEF Sequence

(* The reader with a packet that waits for attachments and the calls it has *)
(* made takes an Engine.IO packet, and several in their order (Handles).    *)
Takes(ears, a, e, b) ==
  LET next == Assembled(a.part, e)
      more == CallsFor(next.packets, ears)
  IN /\ next.ok /\ Sequence(more)
     /\ b = [part |-> next.part, calls |-> a.calls \o more]

Trace(ears, a, es, b) ==
  /\ Sequence(es)
  /\ \E run : /\ run[0] = a /\ run[Len(es)] = b
              /\ \A i \in 1 .. Len(es) : Takes(ears, run[i - 1], es[i], run[i])

(* Lemmas: calls are not taken back.                                        *)
LEMMA TakesGrows ==
  ASSUME NEW ears, NEW a, NEW e, NEW b, Sequence(a.calls), Takes(ears, a, e, b)
  PROVE  Sequence(b.calls) /\ BeginsWith(b.calls, a.calls)
<1>1. PICK more : Sequence(more) /\ b.calls = a.calls \o more
  BY Zenon DEF Takes
<1>2. /\ Sequence(a.calls \o more) /\ Len(a.calls \o more) = Len(a.calls) + Len(more)
      /\ \A i \in 1 .. Len(a.calls) : (a.calls \o more)[i] = a.calls[i]
  BY ONLY Sequence(a.calls), <1>1, SequenceConcat
<1>3. Len(a.calls) \in Nat /\ Len(more) \in Nat
  BY <1>1, SequenceIs
<1> QED BY <1>1, <1>2, <1>3 DEF BeginsWith

LEMMA TraceGrows ==
  ASSUME NEW ears, NEW a, NEW es, NEW b, Sequence(a.calls), Trace(ears, a, es, b)
  PROVE  Sequence(b.calls) /\ BeginsWith(b.calls, a.calls)
<1>1. PICK run : /\ run[0] = a /\ run[Len(es)] = b
                 /\ \A i \in 1 .. Len(es) : Takes(ears, run[i - 1], es[i], run[i])
  BY Zenon DEF Trace
<1>2. Len(es) \in Nat /\ Len(a.calls) \in Nat
  BY SequenceIs DEF Trace
<1> DEFINE Q(n) == n <= Len(es) => Sequence(run[n].calls) /\ BeginsWith(run[n].calls, a.calls)
           T == {n \in Nat : Q(n)}
<1>3. Q(0)
  BY <1>1, <1>2 DEF BeginsWith
<1>4. ASSUME NEW n \in Nat, Q(n) PROVE Q(n + 1)
  <2> SUFFICES ASSUME n + 1 <= Len(es)
               PROVE  Sequence(run[n + 1].calls) /\ BeginsWith(run[n + 1].calls, a.calls)
    OBVIOUS
  <2> DEFINE c == run[n]
             d == run[n + 1]
  <2>1. n + 1 \in 1 .. Len(es) /\ n + 1 - 1 = n /\ Sequence(c.calls) /\ BeginsWith(c.calls, a.calls)
    BY <1>2, <1>4
  <2>2. Takes(ears, c, es[n + 1], d)
    BY <1>1, <2>1
  <2> HIDE DEF c, d
  <2>3. Sequence(d.calls) /\ BeginsWith(d.calls, c.calls)
    BY ONLY <2>1, <2>2, TakesGrows
  <2>4. Len(c.calls) \in Nat
    BY <2>1, SequenceIs
  <2>5. BeginsWith(d.calls, a.calls)
    BY <1>2, <2>1, <2>3, <2>4 DEF BeginsWith
  <2> QED BY <2>3, <2>5 DEF d
<1> HIDE DEF Q
<1>5. T = Nat
  <2>1. T \in SUBSET Nat /\ 0 \in T /\ \A k \in T : k + 1 \in T
    BY <1>3, <1>4
  <2> HIDE DEF T
  <2> QED BY <2>1, SetInduction
<1>6. Q(Len(es))
  BY <1>2, <1>5
<1> QED BY <1>1, <1>2, <1>6 DEF Q

(* Lemmas: no packet, one, the first of several, and some after others.     *)
LEMMA TraceNone ==
  ASSUME NEW ears, NEW a, NEW b
  PROVE  Trace(ears, a, <<>>, b) <=> a = b
<1>1. Trace(ears, a, <<>>, b) => a = b
  BY SequenceEmpty DEF Trace
<1>2. ASSUME a = b PROVE Trace(ears, a, <<>>, b)
  <2> DEFINE run == [i \in 0 .. 0 |-> a]
  <2>1. run[0] = a /\ 1 .. 0 = {}
    OBVIOUS
  <2> HIDE DEF run
  <2> QED BY <1>2, <2>1, SequenceEmpty DEF Trace
<1> QED BY <1>1, <1>2

LEMMA TraceOne ==
  ASSUME NEW ears, NEW a, NEW e, NEW b, Takes(ears, a, e, b)
  PROVE  Trace(ears, a, <<e>>, b)
<1> DEFINE run == [i \in 0 .. 1 |-> IF i = 0 THEN a ELSE b]
<1>1. run[0] = a /\ run[1] = b
  OBVIOUS
<1> HIDE DEF run
<1>2. Sequence(<<e>>) /\ Len(<<e>>) = 1 /\ <<e>>[1] = e
  BY SequenceOne
<1>3. \A i \in 1 .. 1 : Takes(ears, run[i - 1], <<e>>[i], run[i])
  <2>1. \A i \in 1 .. 1 : i = 1 /\ i - 1 = 0
    OBVIOUS
  <2> QED BY <1>1, <1>2, <2>1, Zenon
<1> QED BY <1>1, <1>2, <1>3, Zenon DEF Trace

LEMMA TraceFirst ==
  ASSUME NEW ears, NEW a, NEW es, NEW b, Trace(ears, a, es, b), es # <<>>
  PROVE  \E c : Takes(ears, a, Head(es), c) /\ Trace(ears, c, Tail(es), b)
<1>1. PICK run : /\ run[0] = a /\ run[Len(es)] = b
                 /\ \A i \in 1 .. Len(es) : Takes(ears, run[i - 1], es[i], run[i])
  BY Zenon DEF Trace
<1>2. Sequence(es) /\ Len(es) \in Nat
  BY SequenceIs DEF Trace
<1>3. /\ Sequence(Tail(es)) /\ Len(Tail(es)) = Len(es) - 1 /\ Head(es) = es[1] /\ Len(es) # 0
      /\ \A i \in 1 .. Len(es) - 1 : Tail(es)[i] = es[i + 1]
  BY <1>2, SequenceTail
<1> DEFINE rest == [i \in 0 .. Len(es) - 1 |-> run[i + 1]]
           t == Tail(es)
<1>4. rest[0] = run[1] /\ rest[Len(es) - 1] = b /\ 1 \in 1 .. Len(es) /\ 1 - 1 = 0
  BY <1>1, <1>2, <1>3
<1>5. ASSUME NEW i \in 1 .. Len(es) - 1 PROVE Takes(ears, rest[i - 1], t[i], rest[i])
  <2>1. i + 1 \in 1 .. Len(es) /\ (i + 1) - 1 = i
    BY <1>2
  <2>2. rest[i - 1] = run[i] /\ rest[i] = run[i + 1]
    BY <1>2
  <2> QED BY <1>1, <1>3, <2>1, <2>2, Zenon
<1> HIDE DEF rest, t
<1>6. Trace(ears, run[1], t, b)
  BY <1>3, <1>4, <1>5, Zenon DEF Trace, t
<1>7. Takes(ears, a, Head(es), run[1])
  BY <1>1, <1>3, <1>4, Zenon
<1> QED BY <1>6, <1>7, Zenon DEF t

LEMMA TraceJoined ==
  ASSUME NEW ears, NEW a, NEW es, NEW b, NEW fs, NEW c, Trace(ears, a, es, b), Trace(ears, b, fs, c)
  PROVE  Trace(ears, a, es \o fs, c)
<1>1. PICK run : /\ run[0] = a /\ run[Len(es)] = b
                 /\ \A i \in 1 .. Len(es) : Takes(ears, run[i - 1], es[i], run[i])
  BY Zenon DEF Trace
<1>2. PICK more : /\ more[0] = b /\ more[Len(fs)] = c
                  /\ \A i \in 1 .. Len(fs) : Takes(ears, more[i - 1], fs[i], more[i])
  BY Zenon DEF Trace
<1> DEFINE n == Len(es)
           m == Len(fs)
           g == es \o fs
           all == [i \in 0 .. n + m |-> IF i <= n THEN run[i] ELSE more[i - n]]
<1>3. n \in Nat /\ m \in Nat
  BY SequenceIs DEF Trace
<1>4. /\ Sequence(g) /\ Len(g) = n + m
      /\ \A i \in 1 .. n : g[i] = es[i]
      /\ \A i \in 1 .. m : g[n + i] = fs[i]
  BY SequenceConcat DEF Trace
<1> HIDE DEF g, n, m
<1>5. all[0] = a /\ all[n + m] = c
  <2>1. all[0] = run[0]
    BY <1>3
  <2>2. CASE m = 0
    <3>1. all[n + m] = run[n]
      BY <1>3, <2>2
    <3> QED BY <1>1, <1>2, <2>1, <2>2, <3>1 DEF n, m
  <2>3. CASE m # 0
    <3>1. all[n + m] = more[m]
      BY <1>3, <2>3
    <3> QED BY <1>1, <1>2, <2>1, <3>1 DEF m
  <2> QED BY <2>2, <2>3
<1>6. ASSUME NEW i \in 1 .. n + m PROVE Takes(ears, all[i - 1], g[i], all[i])
  <2>1. CASE i <= n
    <3>1. i \in 1 .. n /\ all[i - 1] = run[i - 1] /\ all[i] = run[i]
      BY <1>3, <2>1
    <3> QED BY <1>1, <1>4, <3>1, Zenon DEF n
  <2>2. CASE ~(i <= n)
    <3>1. PICK j \in 1 .. m : i = n + j
      <4>1. i - n \in 1 .. m /\ i = n + (i - n)
        BY <1>3, <2>2
      <4> QED BY <4>1
    <3>2. all[i] = more[j] /\ g[i] = fs[j]
      BY <1>3, <1>4, <3>1
    <3>3. all[i - 1] = more[j - 1]
      <4>1. CASE j = 1
        <5>1. all[i - 1] = run[n]
          BY <1>3, <3>1, <4>1
        <5>2. j - 1 = 0
          BY <4>1
        <5> QED BY <1>1, <1>2, <5>1, <5>2, Zenon DEF n
      <4>2. CASE j # 1
        <5>1. i - 1 \in 0 .. n + m /\ ~(i - 1 <= n) /\ i - 1 - n = j - 1
          BY <1>3, <3>1, <4>2
        <5> QED BY <5>1
      <4> QED BY <4>1, <4>2
    <3> QED BY <1>2, <3>2, <3>3, Zenon DEF m
  <2> QED BY <2>1, <2>2
<1> HIDE DEF all
<1> QED BY <1>4, <1>5, <1>6, Zenon DEF Trace, g

(* A Socket.IO packet, with a type that is one; and what waits between two  *)
(* Engine.IO packets.                                                       *)
PacketLike(p) ==
  \E type, nsp, count, id, data, atts :
    type \in Types /\ p = [type |-> type, nsp |-> nsp, count |-> count, id |-> id, data |-> data, atts |-> atts]
Waits(waiting) == waiting = <<>> \/ \E p : PacketLike(p) /\ waiting = <<p>>

(* Lemma: a packet is for a sequence of callbacks (the handlers).           *)
LEMMA CallsAre ==
  ASSUME NEW reg, NEW p, PacketLike(p)
  PROVE  Sequence(Calls(reg, p))
<1>1. ASSUME NEW event, NEW payload, NEW id
      PROVE  Sequence(Callback(reg, event, payload, id))
  <2>1. /\ Sequence(OnCall(reg, event, WithAckId(payload, id)))
        /\ Sequence(AnyCall(reg, event, WithAckId(payload, id)))
    BY SequenceEmpty, SequenceOne, Zenon DEF OnCall, AnyCall
  <2> QED BY <2>1, SequenceConcat, Zenon DEF Callback
<1>2. Sequence(EventCalls(reg, p))
  <2>1. CASE ~IsArray(p.data)
    BY <2>1, SequenceEmpty, Zenon DEF EventCalls
  <2>2. CASE IsArray(p.data) /\ Elements(p.data) = <<>>
    BY <1>1, <2>2, Zenon DEF EventCalls
  <2>3. CASE IsArray(p.data) /\ Elements(p.data) # <<>>
    BY <1>1, <2>3, Zenon DEF EventCalls
  <2> QED BY <2>1, <2>2, <2>3, Zenon
<1>3. Sequence(BinaryEventCalls(reg, p))
  BY <1>1, SequenceEmpty, Zenon DEF BinaryEventCalls
<1>4. Sequence(AckCalls(p))
  <2>1. ASSUME NEW x, NEW y, x = <<>> \/ \E u : x = <<u>>, y = <<>> \/ \E u : y = <<u>>
        PROVE  Sequence(x \o y)
    <3>1. Sequence(x) /\ Sequence(y)
      BY <2>1, SequenceEmpty, SequenceOne, Zenon
    <3> QED BY <3>1, SequenceConcat
  <2> QED BY <2>1, SequenceEmpty, Zenon DEF AckCalls
<1>5. p.type \in Types
  BY DEF PacketLike
<1> QED BY <1>1, <1>2, <1>3, <1>4, <1>5, SequenceEmpty
         DEF Calls, Types, Event, BinaryEvent, Ack, BinaryAck

(* Lemmas: no packet, or one.                                               *)
LEMMA FlattenOne ==
  ASSUME NEW s, Sequence(s)
  PROVE  FlattenSeq(<<s>>) = s
<1>1. PICK S : s \in Seq(S)
  BY Zenon DEF Sequence
<1>2. PICK P : P = Seq(S)
  OBVIOUS
<1>3. s \in P
  BY <1>1, <1>2
<1>4. \A none \in Seq(P) : FlattenSeq(Append(none, s)) = FlattenSeq(none) \o s
  BY ONLY <1>2, <1>3, FlattenAppend
<1>5. Append(<<>>, s) = <<s>> /\ <<>> \o s = s /\ <<>> \in Seq(P)
  BY <1>1
<1> QED BY <1>4, <1>5, FlattenEmpty, Zenon

LEMMA CallsForFew ==
  ASSUME NEW ears
  PROVE  /\ CallsFor(<<>>, ears) = <<>>
         /\ \A p : Sequence(Calls(Registered(ears.names, ears.any), p)) =>
              CallsFor(<<p>>, ears) = Calls(Registered(ears.names, ears.any), p)
<1>1. CallsFor(<<>>, ears) = <<>>
  <2>1. [i \in DOMAIN <<>> |-> Calls(Registered(ears.names, ears.any), <<>>[i])] = <<>>
    OBVIOUS
  <2> QED BY <2>1, FlattenEmpty, Zenon DEF CallsFor
<1>2. ASSUME NEW p, Sequence(Calls(Registered(ears.names, ears.any), p))
      PROVE  CallsFor(<<p>>, ears) = Calls(Registered(ears.names, ears.any), p)
  <2> DEFINE s == Calls(Registered(ears.names, ears.any), p)
  <2>1. [i \in DOMAIN <<p>> |-> Calls(Registered(ears.names, ears.any), <<p>>[i])] = <<s>>
    <3>1. DOMAIN <<p>> = 1 .. 1 /\ \A i \in 1 .. 1 : <<p>>[i] = p
      OBVIOUS
    <3> HIDE DEF s
    <3>2. [i \in 1 .. 1 |-> s] = <<s>>
      OBVIOUS
    <3> QED BY <3>1, <3>2, Zenon DEF s
  <2>2. Sequence(s)
    BY <1>2
  <2> HIDE DEF s
  <2>3. FlattenSeq(<<s>>) = s
    BY <2>2, FlattenOne
  <2> QED BY <2>1, <2>3, Zenon DEF CallsFor, s
<1> QED BY <1>1, <1>2

(* Lemma: whatever the reader takes, what waits then is a packet, and the   *)
(* calls are a sequence.                                                    *)
LEMMA AssembledIs ==
  ASSUME NEW waiting, NEW e, NEW ears, Waits(waiting), Assembled(waiting, e).ok
  PROVE  LET next == Assembled(waiting, e)
         IN Waits(next.part) /\ Sequence(CallsFor(next.packets, ears))
<1>1. ASSUME NEW ok
      PROVE  Waits(Nothing(ok).part) /\ Sequence(CallsFor(Nothing(ok).packets, ears))
  BY CallsForFew, SequenceEmpty DEF Nothing, Waits
<1>2. ASSUME NEW p, PacketLike(p)
      PROVE  Waits(Held(p).part) /\ Sequence(CallsFor(Held(p).packets, ears))
  <2>1. Sequence(CallsFor(<<>>, ears)) /\ Sequence(CallsFor(<<p>>, ears))
    <3>1. Sequence(Calls(Registered(ears.names, ears.any), p))
      BY <1>2, CallsAre
    <3> QED BY <3>1, CallsForFew, SequenceEmpty, Zenon
  <2>2. \/ Held(p).part = <<>> /\ Held(p).packets = <<p>>
        \/ Held(p).part = <<p>> /\ Held(p).packets = <<>>
    BY DEF Held, Nothing
  <2> QED BY <1>2, <2>1, <2>2, Zenon DEF Waits
<1>3. CASE e.id \notin Messages
  BY <1>1, <1>3 DEF Assembled
<1>4. CASE e.id \in Messages /\ waiting # <<>>
  <2>1. PICK p : PacketLike(p) /\ waiting = <<p>>
    BY <1>4 DEF Waits
  <2>2. waiting[1] = p
    BY <2>1
  <2>3. PacketLike([p EXCEPT !.atts = Append(@, e.data)])
    <3>1. PICK type, nsp, count, id, data, atts :
            /\ type \in Types
            /\ p = [type |-> type, nsp |-> nsp, count |-> count, id |-> id, data |-> data, atts |-> atts]
      BY <2>1, Zenon DEF PacketLike
    <3> DEFINE more == Append(p.atts, e.data)
               q == [p EXCEPT !.atts = more]
    <3> HIDE DEF more
    <3>2. q = [type |-> type, nsp |-> nsp, count |-> count, id |-> id, data |-> data, atts |-> more]
      BY <3>1
    <3> HIDE DEF q
    <3>3. PacketLike(q)
      BY <3>1, <3>2, Zenon DEF PacketLike
    <3> QED BY <3>3 DEF q, more
  <2>4. Assembled(waiting, e) = Held([p EXCEPT !.atts = Append(@, e.data)])
    BY <1>4, <2>2 DEF Assembled
  <2> QED BY <1>2, <2>3, <2>4
<1>5. CASE e.id \in Messages /\ waiting = <<>>
  <2>1. CASE Decodable(e.data)
    <3>1. PacketLike(Decode(e.data))
      BY <2>1 DEF PacketLike, Decode, Decodable
    <3>2. Assembled(waiting, e) = Held(Decode(e.data))
      BY <1>5, <2>1 DEF Assembled
    <3> QED BY <1>2, <3>1, <3>2
  <2>2. CASE ~Decodable(e.data)
    BY <1>1, <1>5, <2>2 DEF Assembled
  <2> QED BY <2>1, <2>2
<1> QED BY <1>3, <1>4, <1>5

-----------------------------------------------------------------------------
(* The reader now, and what is under way to it. While nothing it has yet to *)
(* read was spoilt, its way from here leads over what was polled and all of *)
(* the wire to the calls that are due; once a frame or body was, over the   *)
(* intact ones before it, and when these are read the calls due were made.  *)
Now == [part |-> part, calls |-> dispatched]
Unpacked(item) ==
  LET packets == Split(Incoming(item)) IN [i \in DOMAIN packets |-> EngineDecode(packets[i])]
Intact(item) ==
  LET packets == Split(Incoming(item)) IN \A i \in DOMAIN packets : EngineDecodable(packets[i])

Way(n, st) ==
  /\ Trace(listens, Now, todo, st[0])
  /\ \A k \in 1 .. n : Intact(wire[k]) /\ Trace(listens, st[k - 1], Unpacked(wire[k]), st[k])
  /\ st[n].calls = due
  /\ ~spoilt => n = Len(wire) /\ st[n] = [part |-> <<>>, calls |-> due]

Clear == Sequence(wire) /\ \E n, st : n \in 0 .. Len(wire) /\ Way(n, st)
Past == spoilt /\ BeginsWith(dispatched, due)

ReadInv ==
  /\ listens \in Listens /\ Waits(part) /\ Sequence(dispatched) /\ Sequence(due)
  /\ Clear \/ Past

(* Lemma: along the way no call is taken back.                              *)
LEMMA WayGrows ==
  ASSUME Sequence(dispatched), NEW n \in Nat, NEW st, Way(n, st)
  PROVE  BeginsWith(due, dispatched)
<1>1. Now.calls = dispatched
  BY DEF Now
<1> DEFINE Q(k) == k <= n => Sequence(st[k].calls) /\ BeginsWith(st[k].calls, dispatched)
           T == {k \in Nat : Q(k)}
<1>2. Q(0)
  <2>1. Trace(listens, Now, todo, st[0])
    BY DEF Way
  <2> QED BY <1>1, <2>1, TraceGrows
<1>3. ASSUME NEW k \in Nat, Q(k) PROVE Q(k + 1)
  <2> SUFFICES ASSUME k + 1 <= n
               PROVE  Sequence(st[k + 1].calls) /\ BeginsWith(st[k + 1].calls, dispatched)
    OBVIOUS
  <2> DEFINE a == st[k]
             b == st[k + 1]
  <2>1. k + 1 \in 1 .. n /\ k + 1 - 1 = k /\ Sequence(a.calls) /\ BeginsWith(a.calls, dispatched)
    BY <1>3
  <2>2. Trace(listens, a, Unpacked(wire[k + 1]), b)
    BY <2>1 DEF Way
  <2> HIDE DEF a, b
  <2>3. Sequence(b.calls) /\ BeginsWith(b.calls, a.calls)
    BY ONLY <2>1, <2>2, TraceGrows
  <2>4. Len(a.calls) \in Nat /\ Len(dispatched) \in Nat
    BY <2>1, SequenceIs
  <2>5. BeginsWith(b.calls, dispatched)
    BY <2>1, <2>3, <2>4 DEF BeginsWith
  <2> QED BY <2>3, <2>5 DEF b
<1> HIDE DEF Q
<1>4. T = Nat
  <2>1. T \in SUBSET Nat /\ 0 \in T /\ \A k \in T : k + 1 \in T
    BY <1>2, <1>3
  <2> HIDE DEF T
  <2> QED BY <2>1, SetInduction
<1>5. Q(n)
  BY <1>4
<1> QED BY <1>5 DEF Q, Way

LEMMA ReadSafe ==
  ASSUME ReadInv
  PROVE  /\ \A i \in 1 .. Len(dispatched) : i <= Len(due) => dispatched[i] = due[i]
         /\ spoilt \/ Len(dispatched) <= Len(due)
<1>1. Sequence(dispatched) /\ Sequence(due) /\ Len(dispatched) \in Nat /\ Len(due) \in Nat
  BY SequenceIs DEF ReadInv
<1>2. CASE Clear
  <2>1. PICK n, st : n \in 0 .. Len(wire) /\ Way(n, st)
    BY <1>2 DEF Clear
  <2>2. BeginsWith(due, dispatched)
    <3>1. n \in Nat /\ Way(n, st)
      BY <2>1
    <3> QED BY ONLY <1>1, <3>1, WayGrows
  <2> QED BY <2>2 DEF BeginsWith
<1>3. CASE Past
  BY <1>1, <1>3 DEF Past, BeginsWith
<1> QED BY <1>2, <1>3 DEF ReadInv

LEMMA ReadInit == Init => ReadInv
<1> SUFFICES ASSUME Init PROVE ReadInv
  OBVIOUS
<1>1. /\ listens \in Listens /\ wire = <<>> /\ todo = <<>> /\ part = <<>> /\ dispatched = <<>>
      /\ due = <<>> /\ ~spoilt
  BY DEF Init
<1> DEFINE st == [i \in 0 .. 0 |-> Now]
<1>2. st[0] = Now
  OBVIOUS
<1> HIDE DEF st
<1>3. Trace(listens, Now, todo, st[0])
  BY <1>1, <1>2, TraceNone
<1>4. Way(0, st)
  <2>1. st[0].calls = due /\ st[0] = [part |-> <<>>, calls |-> due]
    BY <1>1, <1>2 DEF Now
  <2>2. 0 = Len(wire)
    BY <1>1
  <2> QED BY <1>3, <2>1, <2>2 DEF Way
<1>5. Clear
  <2>1. Sequence(wire) /\ Len(wire) = 0
    BY <1>1, SequenceEmpty
  <2> QED BY <1>4, <2>1 DEF Clear
<1> QED BY <1>1, <1>5, SequenceEmpty DEF ReadInv, Waits

(* Lemma: steps that do not touch what is under way.                        *)
LEMMA OthersRead ==
  ASSUME ReadInv, UNCHANGED <<listens, wire, todo, part, dispatched, due, spoilt>>
  PROVE  ReadInv'
BY DEF ReadInv, Clear, Past, Way, Now

(* Lemmas: what is called next comes behind what was called, and with it    *)
(* behind the calls that were due.                                          *)
LEMMA MoreCalled ==
  ASSUME NEW calls, NEW more, Sequence(calls), Sequence(more)
  PROVE  Sequence(calls \o more) /\ BeginsWith(calls \o more, calls) /\ BeginsWith(calls, calls)
<1>1. /\ Sequence(calls \o more) /\ Len(calls \o more) = Len(calls) + Len(more)
      /\ \A i \in 1 .. Len(calls) : (calls \o more)[i] = calls[i]
  BY SequenceConcat
<1>2. Len(calls) \in Nat /\ Len(more) \in Nat
  BY SequenceIs
<1> QED BY <1>1, <1>2 DEF BeginsWith

LEMMA StillPast ==
  ASSUME NEW a, NEW b, NEW c, Sequence(a), Sequence(b), Sequence(c),
         BeginsWith(c, b), BeginsWith(b, a)
  PROVE  BeginsWith(c, a)
<1>1. Len(a) \in Nat /\ Len(b) \in Nat /\ Len(c) \in Nat
  BY SequenceIs
<1> QED BY <1>1 DEF BeginsWith

LEMMA ToldIs == Sequence(Told)
<1> DEFINE reg == Registered(listens.names, listens.any)
<1> HIDE DEF reg
<1>1. \A event, payload, id : Sequence(Callback(reg, event, payload, id))
  <2> SUFFICES ASSUME NEW event, NEW payload, NEW id
               PROVE  Sequence(Callback(reg, event, payload, id))
    OBVIOUS
  <2>1. /\ Sequence(OnCall(reg, event, WithAckId(payload, id)))
        /\ Sequence(AnyCall(reg, event, WithAckId(payload, id)))
    BY SequenceEmpty, SequenceOne, Zenon DEF OnCall, AnyCall
  <2> QED BY <2>1, SequenceConcat, Zenon DEF Callback
<1> QED BY <1>1, Zenon DEF Told, reg

(* Lemmas: the reader goes on its way by a frame or by a packet; where one  *)
(* cannot be read, all that is due was called.                              *)
LEMMA ReceivesReads ==
  ASSUME ReadInv, Receives
  PROVE  ReadInv'
<1>1. /\ todo = <<>> /\ wire # <<>> /\ wire' = Tail(wire)
      /\ UNCHANGED <<listens, due, spoilt>>
  BY DEF Receives, client
<1>2. /\ Intact(Head(wire)) => todo' = Unpacked(Head(wire)) /\ part' = part /\ dispatched' = dispatched
      /\ part' \in {part, <<>>} /\ dispatched' \in {dispatched, dispatched \o Told}
  BY Zenon DEF Receives, Intact, Unpacked, Fails, Dispatches, callVars
<1>3. Waits(part') /\ Sequence(dispatched') /\ BeginsWith(dispatched', dispatched)
  <2>1. /\ Sequence(dispatched \o Told) /\ BeginsWith(dispatched \o Told, dispatched)
        /\ Sequence(dispatched) /\ BeginsWith(dispatched, dispatched)
    BY ToldIs, MoreCalled DEF ReadInv
  <2>2. Waits(part')
    BY <1>2 DEF ReadInv, Waits
  <2> QED BY <1>2, <2>1, <2>2
<1>4. CASE Past
  <2>1. Sequence(due) /\ Sequence(dispatched) /\ BeginsWith(dispatched, due)
    BY <1>4 DEF ReadInv, Past
  <2>2. BeginsWith(dispatched', due)
    BY ONLY <1>3, <2>1, StillPast
  <2> QED BY <1>1, <1>3, <1>4, <2>2 DEF ReadInv, Past
<1>5. CASE Clear
  <2>1. PICK n, st : n \in 0 .. Len(wire) /\ Way(n, st)
    BY <1>5 DEF Clear
  <2>2. Sequence(wire) /\ Len(wire) \in Nat
    BY <1>5, SequenceIs DEF Clear
  <2>3. /\ Sequence(Tail(wire)) /\ Len(Tail(wire)) = Len(wire) - 1 /\ Head(wire) = wire[1]
        /\ Len(wire) # 0 /\ \A i \in 1 .. Len(wire) - 1 : Tail(wire)[i] = wire[i + 1]
    BY <1>1, <2>2, SequenceTail
  <2>4. st[0] = Now
    BY <1>1, <2>1, TraceNone DEF Way
  <2>5. CASE n = 0
    <3>1. spoilt /\ due = dispatched
      BY <2>1, <2>2, <2>3, <2>4, <2>5 DEF Way, Now
    <3>2. BeginsWith(dispatched', due')
      BY <1>1, <1>3, <3>1
    <3> QED BY <1>1, <1>3, <3>1, <3>2 DEF ReadInv, Past
  <2>6. CASE n # 0
    <3>1. 1 \in 1 .. n /\ 1 - 1 = 0 /\ n - 1 \in 0 .. Len(wire') /\ Len(wire') = Len(wire) - 1
      BY <1>1, <2>1, <2>2, <2>3, <2>6
    <3>2. Intact(Head(wire)) /\ Trace(listens, Now, Unpacked(Head(wire)), st[1])
      BY <2>1, <2>3, <2>4, <3>1 DEF Way
    <3> DEFINE rest == [i \in 0 .. n - 1 |-> st[i + 1]]
    <3>3. /\ rest[0] = st[1] /\ rest[n - 1] = st[n]
          /\ \A k \in 1 .. n - 1 : rest[k - 1] = st[k] /\ rest[k] = st[k + 1]
      BY <2>1, <2>6
    <3> HIDE DEF rest
    <3>4. Trace(listens', Now', todo', rest[0])
      <4>1. Now' = Now /\ todo' = Unpacked(Head(wire)) /\ listens' = listens
        BY <1>1, <1>2, <3>2 DEF Now
      <4> QED BY <3>2, <3>3, <4>1
    <3>5. ASSUME NEW k \in 1 .. n - 1
          PROVE  Intact(wire'[k]) /\ Trace(listens', rest[k - 1], Unpacked(wire'[k]), rest[k])
      <4>1. k + 1 \in 1 .. n /\ (k + 1) - 1 = k /\ k \in 1 .. Len(wire) - 1
        BY <2>1, <2>2
      <4>2. wire'[k] = wire[k + 1]
        BY <1>1, <2>3, <4>1
      <4>3. Intact(wire[k + 1]) /\ Trace(listens, st[k], Unpacked(wire[k + 1]), st[k + 1])
        BY <2>1, <4>1, Zenon DEF Way
      <4> QED BY <1>1, <3>3, <4>2, <4>3
    <3>6. Way(n - 1, rest)'
      <4>1. st[n].calls = due' /\ (~spoilt' => n - 1 = Len(wire') /\ st[n] = [part |-> <<>>, calls |-> due'])
        BY <1>1, <2>1, <3>1 DEF Way
      <4> QED BY <3>3, <3>4, <3>5, <4>1 DEF Way
    <3>7. Clear'
      BY <1>1, <2>3, <3>1, <3>6 DEF Clear
    <3> QED BY <1>1, <1>3, <3>7 DEF ReadInv
  <2> QED BY <2>5, <2>6
<1> QED BY <1>4, <1>5 DEF ReadInv

LEMMA HandlesReads ==
  ASSUME ReadInv, Handles
  PROVE  ReadInv'
<1> DEFINE next == Assembled(part, Head(todo))
           more == CallsFor(next.packets, listens)
<1>1. /\ todo # <<>> /\ todo' = Tail(todo) /\ UNCHANGED <<listens, wire, due, spoilt>>
      /\ next.ok => part' = next.part /\ dispatched' = dispatched \o more
      /\ ~next.ok => part' = <<>> /\ dispatched' = dispatched \o Told
  BY DEF Handles, Fails, Dispatches, client
<1>2. next.ok => Waits(next.part) /\ Sequence(more)
  BY AssembledIs DEF ReadInv
<1> HIDE DEF next, more
<1>3. Waits(part') /\ Sequence(dispatched') /\ BeginsWith(dispatched', dispatched)
  <2>1. Sequence(dispatched)
    BY DEF ReadInv
  <2>2. CASE next.ok
    BY <1>1, <1>2, <2>1, <2>2, MoreCalled
  <2>3. CASE ~next.ok
    BY <1>1, <2>1, <2>3, ToldIs, MoreCalled DEF Waits
  <2> QED BY <2>2, <2>3
<1>4. CASE Past
  <2>1. Sequence(due) /\ Sequence(dispatched) /\ BeginsWith(dispatched, due)
    BY <1>4 DEF ReadInv, Past
  <2>2. BeginsWith(dispatched', due)
    BY ONLY <1>3, <2>1, StillPast
  <2> QED BY <1>1, <1>3, <1>4, <2>2 DEF ReadInv, Past
<1>5. CASE Clear
  <2>1. PICK n, st : n \in 0 .. Len(wire) /\ Way(n, st)
    BY <1>5 DEF Clear
  <2>2. PICK c : Takes(listens, Now, Head(todo), c) /\ Trace(listens, c, Tail(todo), st[0])
    BY <1>1, <2>1, TraceFirst DEF Way
  <2>3. c = Now'
    BY <1>1, <2>2 DEF Takes, Now, next, more
  <2>4. Way(n, st)'
    BY <1>1, <2>1, <2>2, <2>3 DEF Way
  <2>5. Clear'
    BY <1>1, <1>5, <2>1, <2>4 DEF Clear
  <2> QED BY <1>1, <1>3, <2>5 DEF ReadInv
<1> QED BY <1>4, <1>5 DEF ReadInv

(* Over items that are put on the wire, the reader comes from where the way *)
(* ends to the calls due then.                                              *)
Leads(items, m, st, ears, from, to) ==
  /\ st[0] = [part |-> <<>>, calls |-> from]
  /\ \A k \in 1 .. m : Intact(items[k]) /\ Trace(ears, st[k - 1], Unpacked(items[k]), st[k])
  /\ st[m].calls = to

(* Lemma: what is put on the wire behind a spoilt part does not matter.     *)
LEMMA SpoiltSends ==
  ASSUME ReadInv, NEW items, Sequence(items), wire' = wire \o items, spoilt',
         UNCHANGED <<listens, todo, part, dispatched, due>>
  PROVE  ReadInv'
<1>1. CASE Past
  BY <1>1 DEF ReadInv, Past
<1>2. CASE Clear
  <2>1. PICK n, st : n \in 0 .. Len(wire) /\ Way(n, st)
    BY <1>2 DEF Clear
  <2>2. /\ Sequence(wire') /\ Len(wire') = Len(wire) + Len(items)
        /\ \A i \in 1 .. Len(wire) : wire'[i] = wire[i]
        /\ Len(wire) \in Nat /\ Len(items) \in Nat
    BY <1>2, SequenceConcat, SequenceIs DEF Clear
  <2>3. \A k \in 1 .. n : wire'[k] = wire[k]
    BY <2>1, <2>2
  <2>4. Way(n, st)'
    BY <2>1, <2>3 DEF Way, Now
  <2>5. n \in 0 .. Len(wire')
    BY <2>1, <2>2
  <2>6. Clear'
    BY <2>2, <2>4, <2>5 DEF Clear
  <2> QED BY <2>6 DEF ReadInv
<1> QED BY <1>1, <1>2 DEF ReadInv

(* Lemma: and what is put behind a clear way makes it longer.               *)
LEMMA ClearSends ==
  ASSUME ReadInv, ~spoilt, NEW items, Sequence(items), wire' = wire \o items,
         NEW m \in 0 .. Len(items), NEW more, Leads(items, m, more, listens, due, due'),
         Sequence(due'), ~spoilt' => m = Len(items) /\ more[m] = [part |-> <<>>, calls |-> due'],
         UNCHANGED <<listens, todo, part, dispatched>>
  PROVE  ReadInv'
<1>1. PICK n, st : n \in 0 .. Len(wire) /\ Way(n, st)
  BY DEF ReadInv, Clear, Past
<1>2. Sequence(wire) /\ Len(wire) \in Nat /\ Len(items) \in Nat /\ m \in Nat
  BY SequenceIs DEF ReadInv, Clear, Past
<1>3. n = Len(wire) /\ st[n] = [part |-> <<>>, calls |-> due] /\ n \in Nat
  BY <1>1, <1>2 DEF Way
<1>4. /\ Sequence(wire') /\ Len(wire') = n + Len(items)
      /\ \A i \in 1 .. n : wire'[i] = wire[i]
      /\ \A i \in 1 .. Len(items) : wire'[n + i] = items[i]
  BY <1>2, <1>3, SequenceConcat
<1> DEFINE all == [k \in 0 .. n + m |-> IF k <= n THEN st[k] ELSE more[k - n]]
<1>5. all[0] = st[0] /\ all[n + m] = more[m]
  <2>1. all[0] = st[0]
    BY <1>2, <1>3
  <2>2. CASE m = 0
    <3>1. all[n + m] = st[n]
      BY <1>3, <2>2
    <3> QED BY <1>3, <2>1, <2>2, <3>1 DEF Leads
  <2>3. CASE m # 0
    <3>1. all[n + m] = more[m]
      BY <1>2, <1>3, <2>3
    <3> QED BY <2>1, <3>1
  <2> QED BY <2>2, <2>3
<1>6. ASSUME NEW k \in 1 .. n + m
      PROVE  Intact(wire'[k]) /\ Trace(listens', all[k - 1], Unpacked(wire'[k]), all[k])
  <2>1. CASE k <= n
    <3>1. k \in 1 .. n /\ all[k - 1] = st[k - 1] /\ all[k] = st[k]
      BY <1>2, <1>3, <2>1
    <3>2. wire'[k] = wire[k]
      BY <1>4, <3>1
    <3>3. Intact(wire[k]) /\ Trace(listens, st[k - 1], Unpacked(wire[k]), st[k])
      BY <1>1, <3>1 DEF Way
    <3> QED BY <3>1, <3>2, <3>3
  <2>2. CASE ~(k <= n)
    <3>1. PICK j \in 1 .. m : k = n + j
      <4>1. k - n \in 1 .. m /\ k = n + (k - n)
        BY <1>2, <1>3, <2>2
      <4> QED BY <4>1
    <3>2. all[k] = more[j] /\ wire'[k] = items[j]
      <4>1. j \in 1 .. Len(items)
        BY <1>2
      <4> QED BY <1>2, <1>3, <1>4, <3>1, <4>1
    <3>3. all[k - 1] = more[j - 1]
      <4>1. CASE j = 1
        <5>1. all[k - 1] = st[n] /\ j - 1 = 0
          BY <1>2, <1>3, <3>1, <4>1
        <5> QED BY <1>3, <5>1, Zenon DEF Leads
      <4>2. CASE j # 1
        <5>1. k - 1 \in 0 .. n + m /\ ~(k - 1 <= n) /\ k - 1 - n = j - 1
          BY <1>2, <1>3, <3>1, <4>2
        <5> QED BY <5>1
      <4> QED BY <4>1, <4>2
    <3>4. Intact(items[j]) /\ Trace(listens, more[j - 1], Unpacked(items[j]), more[j])
      BY DEF Leads
    <3> QED BY <3>2, <3>3, <3>4
  <2> QED BY <2>1, <2>2
<1> HIDE DEF all
<1>7. Way(n + m, all)'
  <2>1. Now' = Now /\ Trace(listens', Now', todo', all[0])
    BY <1>1, <1>5 DEF Way, Now
  <2>2. all[n + m].calls = due'
    BY <1>5 DEF Leads
  <2>3. ~spoilt' => n + m = Len(wire') /\ all[n + m] = [part |-> <<>>, calls |-> due']
    BY <1>4, <1>5
  <2> QED BY <1>6, <2>1, <2>2, <2>3 DEF Way
<1>8. n + m \in 0 .. Len(wire')
  BY <1>2, <1>3, <1>4
<1>9. Clear'
  BY <1>4, <1>7, <1>8 DEF Clear
<1> QED BY <1>9 DEF ReadInv

(* Lemma: a Ping is taken and makes no call.                                *)
LEMMA PingTaken ==
  ASSUME NEW transport, NEW ears, NEW calls, Sequence(calls)
  PROVE  LET item == OnWire([id |-> "Ping", data |-> <<>>], transport)
             reader == [part |-> <<>>, calls |-> calls]
         IN Intact(item) /\ Trace(ears, reader, Unpacked(item), reader)
<1> DEFINE item == OnWire([id |-> "Ping", data |-> <<>>], transport)
           reader == [part |-> <<>>, calls |-> calls]
           ping == [id |-> "Ping", data |-> <<>>]
<1>1. EngineByte["Ping"] = "2"
  <2>1. "2" \in Types /\ \A byte \in Types : EngineId(byte) = "Ping" <=> byte = "2"
    BY DEF Types, EngineId
  <2>2. (CHOOSE byte \in Types : EngineId(byte) = "Ping") = "2"
    BY <2>1
  <2> QED BY <2>2 DEF EngineByte, EngineIds
<1>2. item = Frame(FALSE, <<"2">>)
  <2>1. EngineEncode(ping) = <<"2">>
    BY <1>1 DEF EngineEncode
  <2> QED BY <2>1 DEF OnWire, PollingFrame, WebsocketFrame
<1> HIDE DEF item
<1>3. Incoming(item) = <<"2">>
  BY <1>2 DEF Incoming, Frame
<1>4. Split(<<"2">>) = <<<<"2">>>>
  <2>1. <<"2">> \in Seq({"2"}) /\ RSFree(<<"2">>)
    BY DEF RSFree, RS
  <2> QED BY <2>1, SplitNone
<1>5. EngineDecodable(<<"2">>) /\ EngineDecode(<<"2">>) = ping
  BY DEF EngineDecodable, EngineDecode, EngineId, Types
<1>6. Unpacked(item) = <<ping>> /\ Intact(item)
  <2>1. DOMAIN <<<<"2">>>> = 1 .. 1 /\ \A i \in 1 .. 1 : <<<<"2">>>>[i] = <<"2">>
    OBVIOUS
  <2>2. [i \in 1 .. 1 |-> ping] = <<ping>>
    OBVIOUS
  <2>3. Unpacked(item) = [i \in 1 .. 1 |-> ping]
    BY <1>3, <1>4, <1>5, <2>1, Zenon DEF Unpacked
  <2> QED BY <1>3, <1>4, <1>5, <2>1, <2>2, <2>3, Zenon DEF Intact
<1>7. Takes(ears, reader, ping, reader)
  <2>1. Assembled(<<>>, ping) = Nothing(TRUE)
    BY DEF Assembled, Messages
  <2>2. Nothing(TRUE).ok /\ Nothing(TRUE).part = <<>> /\ CallsFor(Nothing(TRUE).packets, ears) = <<>>
    BY CallsForFew DEF Nothing
  <2>3. calls \o <<>> = calls
    BY SequenceConcat, SequenceEmpty
  <2> QED BY <2>1, <2>2, <2>3, SequenceEmpty DEF Takes
<1>8. Trace(ears, reader, Unpacked(item), reader)
  BY <1>6, <1>7, TraceOne
<1> QED BY <1>6, <1>8 DEF item

LEMMA PingsRead ==
  ASSUME ReadInv, PeerPings
  PROVE  ReadInv'
<1> DEFINE item == OnWire([id |-> "Ping", data |-> <<>>], carrier)
           items == <<item>>
           reader == [part |-> <<>>, calls |-> due]
<1>1. wire' = Append(wire, item) /\ UNCHANGED <<listens, todo, part, dispatched, due, spoilt>>
  BY DEF PeerPings, client, callVars
<1>2. Intact(item) /\ Trace(listens, reader, Unpacked(item), reader)
  BY PingTaken DEF ReadInv
<1> HIDE DEF item
<1>3. Sequence(items) /\ Len(items) = 1 /\ items[1] = item
  BY SequenceOne
<1> HIDE DEF items
<1>4. CASE spoilt /\ ~Clear
  BY <1>1, <1>4 DEF ReadInv, Past
<1>5. CASE Clear
  <2>1. wire' = wire \o items
    BY <1>1, <1>5, SequenceAppend DEF Clear, items
  <2>2. CASE spoilt
    BY <1>1, <1>3, <2>1, <2>2, SpoiltSends
  <2>3. CASE ~spoilt
    <3> DEFINE st == [k \in 0 .. 1 |-> reader]
    <3>1. st[0] = reader /\ st[1] = reader
      OBVIOUS
    <3> HIDE DEF st
    <3>2. Leads(items, 1, st, listens, due, due')
      <4>1. ASSUME NEW k \in 1 .. 1
            PROVE  Intact(items[k]) /\ Trace(listens, st[k - 1], Unpacked(items[k]), st[k])
        <5>1. k = 1 /\ k - 1 = 0
          OBVIOUS
        <5> QED BY <1>2, <1>3, <3>1, <5>1
      <4> QED BY <1>1, <3>1, <4>1 DEF Leads
    <3>3. 1 \in 0 .. Len(items) /\ Sequence(due') /\ st[1] = [part |-> <<>>, calls |-> due']
      BY <1>1, <1>3, <3>1 DEF ReadInv
    <3> QED BY <1>1, <1>3, <2>1, <2>3, <3>2, <3>3, ClearSends
  <2> QED BY <2>2, <2>3
<1> QED BY <1>4, <1>5 DEF ReadInv, Past

-----------------------------------------------------------------------------
(* Lemma: FlattenSeq of what a function makes of a sequence's elements.     *)
LEMMA FlattenOf ==
  ASSUME NEW A, NEW g, \A a \in A : Sequence(g[a]), NEW q \in Seq(A), NEW x \in A
  PROVE  /\ Sequence(FlattenSeq([i \in DOMAIN q |-> g[q[i]]]))
         /\ FlattenSeq([i \in DOMAIN Append(q, x) |-> g[Append(q, x)[i]]]) =
              FlattenSeq([i \in DOMAIN q |-> g[q[i]]]) \o g[x]
<1>1. PICK S : S = UNION {{g[a][j] : j \in DOMAIN g[a]} : a \in A}
  OBVIOUS
<1>2. PICK P : P = Seq(S)
  OBVIOUS
<1>3. ASSUME NEW a \in A PROVE g[a] \in P
  <2> DEFINE s == g[a]
  <2>1. \A j \in DOMAIN s : s[j] \in S
    BY <1>1
  <2>2. Sequence(s)
    OBVIOUS
  <2> HIDE DEF s
  <2>3. PICK U : s \in Seq(U)
    BY <2>2, Zenon DEF Sequence
  <2>4. s \in Seq(S)
    BY <2>1, <2>3
  <2> QED BY <1>2, <2>4 DEF s
<1> DEFINE r == [i \in DOMAIN q |-> g[q[i]]]
           t == Append(q, x)
           u == [i \in DOMAIN t |-> g[t[i]]]
<1>4. Len(q) \in Nat /\ DOMAIN q = 1 .. Len(q) /\ \A i \in 1 .. Len(q) : q[i] \in A
  OBVIOUS
<1>5. DOMAIN r = 1 .. Len(q) /\ r = [i \in 1 .. Len(q) |-> r[i]] /\ \A i \in 1 .. Len(q) : r[i] \in P
  BY <1>3, <1>4
<1>6. r \in Seq(P) /\ Len(r) = Len(q)
  BY ONLY <1>4, <1>5, IsSeq
<1>7. /\ Len(q) + 1 \in Nat /\ DOMAIN t = 1 .. Len(q) + 1 /\ t[Len(q) + 1] = x
      /\ \A i \in 1 .. Len(q) : t[i] = q[i]
      /\ \A i \in 1 .. Len(q) + 1 : t[i] \in A
  OBVIOUS
<1> HIDE DEF t
<1>8. /\ DOMAIN u = 1 .. Len(q) + 1 /\ u = [i \in 1 .. Len(q) + 1 |-> u[i]]
      /\ \A i \in 1 .. Len(q) + 1 : u[i] \in P /\ u[i] = g[t[i]]
  BY <1>3, <1>7
<1> HIDE DEF u
<1>9. u \in Seq(P) /\ Len(u) = Len(q) + 1
  BY ONLY <1>7, <1>8, IsSeq
<1>10. ASSUME NEW i \in 1 .. Len(q) PROVE r[i] = u[i]
  <2>1. i \in 1 .. Len(q) + 1
    BY <1>4
  <2> QED BY <1>4, <1>7, <1>8, <2>1
<1> HIDE DEF r
<1>11. FlattenSeq(r) \in P /\ FlattenSeq(u) = FlattenSeq(r) \o u[Len(u)]
  <2>1. Len(u) = Len(r) + 1 /\ \A i \in 1 .. Len(r) : r[i] = u[i]
    BY <1>6, <1>9, <1>10
  <2>2. r \in Seq(P) /\ u \in Seq(P)
    BY <1>6, <1>9
  <2> QED BY ONLY <1>2, <2>1, <2>2, FlattenStep, Zenon
<1>12. u[Len(u)] = g[x]
  <2>1. Len(q) + 1 \in 1 .. Len(q) + 1
    BY <1>4
  <2> QED BY <1>7, <1>8, <1>9, <2>1
<1>13. Sequence(FlattenSeq(r))
  BY <1>2, <1>11, Zenon DEF Sequence
<1> QED BY <1>11, <1>12, <1>13, Zenon DEF r, t, u

(* The frames of several packets, and the calls they ask for.               *)
FramesFor(batch, transport) ==
  FlattenSeq([i \in DOMAIN batch |-> PeerFrames(PeerPacket(batch[i]), transport)])
CallsDue(batch, ears) == FlattenSeq([i \in DOMAIN batch |-> AsksFor(batch[i], ears)])

(* Lemmas: of one packet, of none, and of one more.                         *)
LEMMA FramesAre ==
  ASSUME NEW m \in Meanings, NEW transport
  PROVE  LET frames == PeerFrames(PeerPacket(m), transport)
         IN Sequence(frames) /\ Len(frames) = Len(m.blobs) + 1 /\ Len(m.blobs) \in Nat
<1>1. Sequence(m.blobs) /\ PeerPacket(m).atts = m.blobs
  <2>1. m.blobs = <<>> \/ (\E x : m.blobs = <<x>>) \/ (\E x, y : m.blobs = <<x, y>>)
    BY DEF Meanings, Meaning
  <2>2. ASSUME NEW x, NEW y PROVE Sequence(<<x, y>>)
    <3>1. <<x, y>> = Append(<<x>>, y)
      OBVIOUS
    <3> QED BY <3>1, SequenceOne, SequenceAppend
  <2>3. Sequence(m.blobs)
    BY <2>1, <2>2, SequenceEmpty, SequenceOne, Zenon
  <2>4. PeerPacket(m).atts = m.blobs
    BY DEF PeerPacket, Packet
  <2> QED BY <2>3, <2>4
<1> DEFINE n == Len(m.blobs)
           atts == Attachments(PeerPacket(m))
           engine == <<[id |-> "Message", data |-> PeerText(PeerPacket(m))]>> \o atts
           frames == [i \in DOMAIN engine |-> OnWire(engine[i], transport)]
<1>2. n \in Nat /\ DOMAIN m.blobs = 1 .. n
  BY <1>1, SequenceIs
<1>3. Sequence(atts) /\ Len(atts) = n
  <2>1. DOMAIN atts = 1 .. n /\ atts = [i \in 1 .. n |-> atts[i]]
    BY <1>1, <1>2 DEF Attachments
  <2> HIDE DEF atts, n
  <2> QED BY <1>2, <2>1, SequenceMade
<1> HIDE DEF atts, n
<1>4. Sequence(engine) /\ Len(engine) = n + 1 /\ DOMAIN engine = 1 .. n + 1
  <2>1. Sequence(engine) /\ Len(engine) = 1 + n
    BY <1>3, SequenceOne, SequenceConcat
  <2> HIDE DEF engine
  <2>2. DOMAIN engine = 1 .. Len(engine)
    BY <2>1, SequenceIs
  <2> QED BY <1>2, <2>1, <2>2
<1> HIDE DEF engine
<1>5. Sequence(frames) /\ Len(frames) = n + 1
  <2>1. n + 1 \in Nat /\ DOMAIN frames = 1 .. n + 1 /\ frames = [i \in 1 .. n + 1 |-> frames[i]]
    BY <1>2, <1>4
  <2> HIDE DEF frames
  <2> QED BY ONLY <2>1, SequenceMade
<1> QED BY <1>2, <1>5 DEF PeerFrames, n, engine, atts

LEMMA AskedIs ==
  ASSUME NEW m \in Meanings, NEW ears
  PROVE  Sequence(AsksFor(m, ears))
<1>1. ASSUME NEW x, NEW y, x = <<>> \/ \E u : x = <<u>>, y = <<>> \/ \E u : y = <<u>>
      PROVE  Sequence(x \o y)
  <2>1. Sequence(x) /\ Sequence(y)
    BY <1>1, SequenceEmpty, SequenceOne, Zenon
  <2> QED BY <2>1, SequenceConcat
<1>2. CASE m.nsp # "/"
  <2>1. m.type = Event
    BY <1>2 DEF Meanings, Meaning
  <2> QED BY <1>2, <2>1, SequenceEmpty DEF AsksFor, Event, Ack, BinaryAck
<1>3. CASE m.nsp = "/" /\ m.type \in {Ack, BinaryAck}
  BY <1>3, SequenceOne DEF AsksFor, Ack, BinaryAck
<1>4. CASE m.nsp = "/" /\ m.type \notin {Ack, BinaryAck}
  <2> DEFINE on(b) == IF b THEN <<Heard(m, "on")>> ELSE <<>>
             any(b) == IF b THEN <<Heard(m, "any")>> ELSE <<>>
  <2>1. \A b, c : Sequence(on(b) \o any(c))
    BY <1>1, Zenon
  <2> QED BY <1>4, <2>1 DEF AsksFor
<1> QED BY <1>2, <1>3, <1>4

LEMMA FramesMore ==
  ASSUME NEW transport, NEW batch \in Seq(Meanings), NEW m \in Meanings
  PROVE  /\ Sequence(FramesFor(batch, transport))
         /\ FramesFor(<<>>, transport) = <<>>
         /\ FramesFor(Append(batch, m), transport) =
              FramesFor(batch, transport) \o PeerFrames(PeerPacket(m), transport)
<1> DEFINE g == [n \in Meanings |-> PeerFrames(PeerPacket(n), transport)]
           more == Append(batch, m)
<1>1. \A n \in Meanings : g[n] = PeerFrames(PeerPacket(n), transport) /\ Sequence(g[n])
  BY FramesAre
<1>2. /\ more \in Seq(Meanings)
      /\ \A i \in DOMAIN batch : batch[i] \in Meanings
      /\ \A i \in DOMAIN more : more[i] \in Meanings
  OBVIOUS
<1> HIDE DEF g
<1>3. /\ Sequence(FlattenSeq([i \in DOMAIN batch |-> g[batch[i]]]))
      /\ FlattenSeq([i \in DOMAIN more |-> g[more[i]]]) =
           FlattenSeq([i \in DOMAIN batch |-> g[batch[i]]]) \o g[m]
  BY ONLY <1>1, batch \in Seq(Meanings), m \in Meanings, FlattenOf
<1> HIDE DEF more
<1>4. /\ FramesFor(batch, transport) = FlattenSeq([i \in DOMAIN batch |-> g[batch[i]]])
      /\ FramesFor(more, transport) = FlattenSeq([i \in DOMAIN more |-> g[more[i]]])
  <2>1. [i \in DOMAIN batch |-> g[batch[i]]] =
          [i \in DOMAIN batch |-> PeerFrames(PeerPacket(batch[i]), transport)]
    BY <1>1, <1>2
  <2>2. [i \in DOMAIN more |-> g[more[i]]] =
          [i \in DOMAIN more |-> PeerFrames(PeerPacket(more[i]), transport)]
    BY <1>1, <1>2
  <2> QED BY <2>1, <2>2, Zenon DEF FramesFor
<1>5. FramesFor(<<>>, transport) = <<>>
  <2>1. [i \in DOMAIN <<>> |-> PeerFrames(PeerPacket(<<>>[i]), transport)] = <<>>
    OBVIOUS
  <2> QED BY <2>1, FlattenEmpty, Zenon DEF FramesFor
<1> QED BY <1>1, <1>3, <1>4, <1>5 DEF more

LEMMA CallsMore ==
  ASSUME NEW ears, NEW batch \in Seq(Meanings), NEW m \in Meanings
  PROVE  /\ Sequence(CallsDue(batch, ears))
         /\ CallsDue(<<>>, ears) = <<>>
         /\ CallsDue(Append(batch, m), ears) = CallsDue(batch, ears) \o AsksFor(m, ears)
<1> DEFINE g == [n \in Meanings |-> AsksFor(n, ears)]
           more == Append(batch, m)
<1>1. \A n \in Meanings : g[n] = AsksFor(n, ears) /\ Sequence(g[n])
  BY AskedIs
<1>2. /\ more \in Seq(Meanings)
      /\ \A i \in DOMAIN batch : batch[i] \in Meanings
      /\ \A i \in DOMAIN more : more[i] \in Meanings
  OBVIOUS
<1> HIDE DEF g
<1>3. /\ Sequence(FlattenSeq([i \in DOMAIN batch |-> g[batch[i]]]))
      /\ FlattenSeq([i \in DOMAIN more |-> g[more[i]]]) =
           FlattenSeq([i \in DOMAIN batch |-> g[batch[i]]]) \o g[m]
  BY ONLY <1>1, batch \in Seq(Meanings), m \in Meanings, FlattenOf
<1> HIDE DEF more
<1>4. /\ CallsDue(batch, ears) = FlattenSeq([i \in DOMAIN batch |-> g[batch[i]]])
      /\ CallsDue(more, ears) = FlattenSeq([i \in DOMAIN more |-> g[more[i]]])
  <2>1. [i \in DOMAIN batch |-> g[batch[i]]] = [i \in DOMAIN batch |-> AsksFor(batch[i], ears)]
    BY <1>1, <1>2
  <2>2. [i \in DOMAIN more |-> g[more[i]]] = [i \in DOMAIN more |-> AsksFor(more[i], ears)]
    BY <1>1, <1>2
  <2> QED BY <2>1, <2>2, Zenon DEF CallsDue
<1>5. CallsDue(<<>>, ears) = <<>>
  <2>1. [i \in DOMAIN <<>> |-> AsksFor(<<>>[i], ears)] = <<>>
    OBVIOUS
  <2> QED BY <2>1, FlattenEmpty, Zenon DEF CallsDue
<1> QED BY <1>1, <1>3, <1>4, <1>5 DEF more

(* Frames that are taken for a packet each, and these packets.              *)
Readable(frames, transport) ==
  \A i \in 1 .. Len(frames) :
    /\ transport = "polling" => ~frames[i].binary
    /\ Sequence(frames[i].data) /\ RSFree(Incoming(frames[i]))
    /\ EngineDecodable(Incoming(frames[i]))
Decoded(frames) == [i \in DOMAIN frames |-> EngineDecode(Incoming(frames[i]))]

(* Lemmas: what comes in is a sequence, and the packets of more frames are  *)
(* more packets.                                                            *)
LEMMA IncomingIs ==
  ASSUME NEW frame, Sequence(frame.data)
  PROVE  Sequence(Incoming(frame)) /\ (~frame.binary => Incoming(frame) = frame.data)
<1>1. Sequence(<<>> \o frame.data) /\ Sequence(<<"4">> \o frame.data) /\ <<>> \o frame.data = frame.data
  <2>1. PICK S : frame.data \in Seq(S)
    BY Zenon DEF Sequence
  <2>2. <<>> \o frame.data = frame.data
    BY <2>1
  <2> QED BY <2>2, SequenceOne, SequenceConcat
<1> QED BY <1>1, Zenon DEF Incoming

LEMMA DecodedIs ==
  ASSUME NEW frames, Sequence(frames)
  PROVE  Sequence(Decoded(frames)) /\ Len(Decoded(frames)) = Len(frames)
         /\ \A i \in 1 .. Len(frames) : Decoded(frames)[i] = EngineDecode(Incoming(frames[i]))
<1> DEFINE d == Decoded(frames)
<1>1. Len(frames) \in Nat /\ DOMAIN frames = 1 .. Len(frames)
  BY SequenceIs
<1>2. /\ DOMAIN d = 1 .. Len(frames) /\ d = [i \in 1 .. Len(frames) |-> d[i]]
      /\ \A i \in 1 .. Len(frames) : d[i] = EngineDecode(Incoming(frames[i]))
  BY <1>1 DEF Decoded
<1> HIDE DEF d
<1>3. Sequence(d) /\ Len(d) = Len(frames)
  BY ONLY <1>1, <1>2, SequenceMade
<1> QED BY <1>2, <1>3 DEF d

LEMMA DecodedMore ==
  ASSUME NEW transport, NEW f, NEW g, Sequence(f), Sequence(g)
  PROVE  /\ Decoded(f \o g) = Decoded(f) \o Decoded(g)
         /\ Readable(f, transport) /\ Readable(g, transport) => Readable(f \o g, transport)
<1> DEFINE h == f \o g
           d == Decoded(f) \o Decoded(g)
<1>1. /\ Sequence(h) /\ Len(h) = Len(f) + Len(g) /\ Len(f) \in Nat /\ Len(g) \in Nat
      /\ \A i \in 1 .. Len(f) : h[i] = f[i]
      /\ \A i \in 1 .. Len(g) : h[Len(f) + i] = g[i]
  BY SequenceConcat, SequenceIs
<1>2. /\ Sequence(d) /\ Len(d) = Len(f) + Len(g)
      /\ \A i \in 1 .. Len(f) : d[i] = Decoded(f)[i]
      /\ \A i \in 1 .. Len(g) : d[Len(f) + i] = Decoded(g)[i]
  <2>1. Sequence(Decoded(f)) /\ Sequence(Decoded(g)) /\ Len(Decoded(f)) = Len(f) /\ Len(Decoded(g)) = Len(g)
    BY DecodedIs
  <2> QED BY <2>1, SequenceConcat
<1> HIDE DEF h, d
<1>3. ASSUME NEW i \in 1 .. Len(h)
      PROVE  (i \in 1 .. Len(f) /\ h[i] = f[i])
             \/ \E j \in 1 .. Len(g) : i = Len(f) + j /\ h[i] = g[j]
  <2>1. CASE i <= Len(f)
    BY <1>1, <2>1
  <2>2. CASE ~(i <= Len(f))
    <3>1. i - Len(f) \in 1 .. Len(g) /\ i = Len(f) + (i - Len(f))
      BY <1>1, <2>2
    <3> QED BY <1>1, <3>1
  <2> QED BY <2>1, <2>2
<1>4. \A i \in 1 .. Len(h) : d[i] = Decoded(h)[i]
  <2> SUFFICES ASSUME NEW i \in 1 .. Len(h) PROVE d[i] = Decoded(h)[i]
    OBVIOUS
  <2>1. Decoded(h)[i] = EngineDecode(Incoming(h[i]))
    BY <1>1, DecodedIs
  <2>2. CASE i \in 1 .. Len(f) /\ h[i] = f[i]
    <3>1. Decoded(f)[i] = EngineDecode(Incoming(f[i]))
      BY <2>2, DecodedIs
    <3> QED BY <1>2, <2>1, <2>2, <3>1
  <2>3. ASSUME NEW j \in 1 .. Len(g), i = Len(f) + j /\ h[i] = g[j] PROVE d[i] = Decoded(h)[i]
    <3>1. Decoded(g)[j] = EngineDecode(Incoming(g[j]))
      BY DecodedIs
    <3> QED BY <1>2, <2>1, <2>3, <3>1
  <2> QED BY <1>3, <2>2, <2>3
<1>5. Decoded(h) = d
  <2>1. Sequence(Decoded(h)) /\ Len(Decoded(h)) = Len(h)
    BY <1>1, DecodedIs
  <2> DEFINE e == Decoded(h)
  <2> HIDE DEF e
  <2>2. Sequence(e) /\ Len(d) = Len(e) /\ \A i \in 1 .. Len(d) : d[i] = e[i]
    BY <1>1, <1>2, <1>4, <2>1 DEF e
  <2>3. d = e
    BY ONLY <1>2, <2>2, SequenceEqual
  <2> QED BY <2>3 DEF e
<1>6. ASSUME Readable(f, transport), Readable(g, transport) PROVE Readable(h, transport)
  BY <1>3, <1>6, Zenon DEF Readable
<1> QED BY <1>5, <1>6 DEF h, d

(* Lemma: a packet that is not misread comes through, and the calls it asks *)
(* for are made.                                                            *)
LEMMA PacketArrives ==
  ASSUME NEW m \in Meanings, NEW transport \in Transports, NEW ears \in Listens,
         ReadsAsMeant(m, transport), NEW calls, Sequence(calls)
  PROVE  LET frames == PeerFrames(PeerPacket(m), transport)
         IN /\ Readable(frames, transport)
            /\ Trace(ears, [part |-> <<>>, calls |-> calls], Decoded(frames),
                     [part |-> <<>>, calls |-> calls \o AsksFor(m, ears)])
<1> DEFINE frames == PeerFrames(PeerPacket(m), transport)
           n == Len(m.blobs)
           more == AsksFor(m, ears)
           run == [i \in 0 .. n + 1 |->
                     [part |-> Waiting(m, i), calls |-> IF i <= n THEN calls ELSE calls \o more]]
<1>1. Sequence(frames) /\ Len(frames) = n + 1 /\ n \in Nat
  BY FramesAre
<1>2. Sequence(more)
  BY AskedIs
<1>3. calls \o <<>> = calls
  BY SequenceConcat, SequenceEmpty
<1>4. Waiting(m, 0) = <<>> /\ Waiting(m, n + 1) = <<>>
  BY DEF Waiting
<1>5. \A i \in 0 .. n + 1 :
        run[i] = [part |-> Waiting(m, i), calls |-> IF i <= n THEN calls ELSE calls \o more]
  OBVIOUS
<1> HIDE DEF more, run
<1>6. ASSUME NEW i \in 1 .. n + 1
      PROVE  LET bytes == Incoming(frames[i])
                 next == Assembled(Waiting(m, i - 1), EngineDecode(bytes))
             IN /\ frames[i].data \in Seq(Range(frames[i].data))
                /\ ~Contains(bytes, RS) /\ EngineDecodable(bytes)
                /\ next.ok /\ next.part = Waiting(m, i)
                /\ CallsFor(next.packets, ears) = IF i <= n THEN <<>> ELSE more
  <2>1. Arrives(m, transport, ears)
    BY ReadingAssumption
  <2> QED BY <2>1, Zenon DEF Arrives, more
<1>7. ASSUME NEW i \in 1 .. n + 1, transport = "polling" PROVE ~frames[i].binary
  <2>1. DOMAIN frames = 1 .. n + 1
    BY <1>1, SequenceIs
  <2>2. \E e : frames[i] = PollingFrame(e)
    BY <1>7, <2>1 DEF PeerFrames, OnWire
  <2> QED BY <2>2 DEF PollingFrame, Frame
<1> HIDE DEF frames, n
<1>8. Readable(frames, transport)
  <2> SUFFICES ASSUME NEW i \in 1 .. n + 1
               PROVE  /\ transport = "polling" => ~frames[i].binary
                      /\ Sequence(frames[i].data) /\ RSFree(Incoming(frames[i]))
                      /\ EngineDecodable(Incoming(frames[i]))
    BY <1>1 DEF Readable
  <2>1. Sequence(frames[i].data)
    BY <1>6, Zenon DEF Sequence
  <2>2. Sequence(Incoming(frames[i])) /\ DOMAIN Incoming(frames[i]) = 1 .. Len(Incoming(frames[i]))
    BY <2>1, IncomingIs, SequenceIs
  <2>3. RSFree(Incoming(frames[i]))
    BY <1>6, <2>2 DEF RSFree, Contains
  <2> QED BY <1>7, <1>6, <2>1, <2>3
<1>9. ASSUME NEW i \in 1 .. n + 1 PROVE Takes(ears, run[i - 1], Decoded(frames)[i], run[i])
  <2> DEFINE next == Assembled(Waiting(m, i - 1), EngineDecode(Incoming(frames[i])))
             this == IF i <= n THEN <<>> ELSE more
  <2>1. Decoded(frames)[i] = EngineDecode(Incoming(frames[i]))
    BY <1>1, DecodedIs
  <2>2. next.ok /\ next.part = Waiting(m, i) /\ CallsFor(next.packets, ears) = this
    BY <1>6
  <2>3. Sequence(this) /\ calls \o this = IF i <= n THEN calls ELSE calls \o more
    BY <1>2, <1>3, SequenceEmpty
  <2> DEFINE a == run[i - 1]
             b == run[i]
             e == Decoded(frames)[i]
  <2>4. a.part = Waiting(m, i - 1) /\ a.calls = calls
    <3>1. i - 1 \in 0 .. n + 1 /\ i - 1 <= n
      BY <1>1
    <3>2. a = [part |-> Waiting(m, i - 1), calls |-> IF i - 1 <= n THEN calls ELSE calls \o more]
      BY <1>5, <3>1, Zenon
    <3> HIDE DEF a
    <3> QED BY <3>1, <3>2
  <2>5. b = [part |-> Waiting(m, i), calls |-> IF i <= n THEN calls ELSE calls \o more]
    <3>1. i \in 0 .. n + 1
      OBVIOUS
    <3> QED BY <1>5, <3>1, Zenon
  <2> HIDE DEF a, b, this
  <2>6. Assembled(a.part, e) = next
    BY <2>1, <2>4, Zenon
  <2> HIDE DEF next, e
  <2>7. Takes(ears, a, e, b)
    BY <2>2, <2>3, <2>4, <2>5, <2>6 DEF Takes
  <2> QED BY <2>7 DEF a, b, e
<1>10. run[0] = [part |-> <<>>, calls |-> calls] /\ run[n + 1] = [part |-> <<>>, calls |-> calls \o more]
  <2>1. 0 \in 0 .. n + 1 /\ n + 1 \in 0 .. n + 1 /\ 0 <= n /\ ~(n + 1 <= n)
    BY <1>1
  <2> QED BY <1>4, <1>5, <2>1
<1>11. Sequence(Decoded(frames)) /\ Len(Decoded(frames)) = n + 1
  BY <1>1, DecodedIs
<1>12. Trace(ears, [part |-> <<>>, calls |-> calls], Decoded(frames),
            [part |-> <<>>, calls |-> calls \o more])
  BY <1>9, <1>10, <1>11 DEF Trace
<1> QED BY <1>8, <1>12 DEF frames, more

(* Lemma: and so do any number of them, one after the other.                *)
LEMMA BatchArrives ==
  ASSUME NEW transport \in Transports, NEW ears \in Listens, NEW calls, Sequence(calls),
         NEW batch \in Seq(Meanings),
         \A i \in 1 .. Len(batch) : ReadsAsMeant(batch[i], transport)
  PROVE  LET frames == FramesFor(batch, transport)
         IN /\ Readable(frames, transport)
            /\ Trace(ears, [part |-> <<>>, calls |-> calls], Decoded(frames),
                     [part |-> <<>>, calls |-> calls \o CallsDue(batch, ears)])
<1> DEFINE Clean(q) == \A i \in 1 .. Len(q) : ReadsAsMeant(q[i], transport)
           From == [part |-> <<>>, calls |-> calls]
           To(q) == [part |-> <<>>, calls |-> calls \o CallsDue(q, ears)]
           Good(q) == /\ Readable(FramesFor(q, transport), transport)
                      /\ Trace(ears, From, Decoded(FramesFor(q, transport)), To(q))
           Q(n) == \A q \in Seq(Meanings) : Len(q) = n /\ Clean(q) => Good(q)
           T == {n \in Nat : Q(n)}
<1>1. Q(0)
  <2> SUFFICES ASSUME NEW q \in Seq(Meanings), Len(q) = 0 PROVE Good(q)
    OBVIOUS
  <2>1. PICK m : m \in Meanings
    BY DEF Meanings
  <2>2. q = <<>>
    OBVIOUS
  <2>3. FramesFor(q, transport) = <<>> /\ CallsDue(q, ears) = <<>>
    BY <2>1, <2>2, FramesMore, CallsMore
  <2>4. Decoded(<<>>) = <<>> /\ Readable(<<>>, transport)
    BY DEF Decoded, Readable
  <2>5. calls \o <<>> = calls
    BY SequenceConcat, SequenceEmpty
  <2>6. Trace(ears, From, <<>>, From)
    BY TraceNone
  <2> QED BY <2>3, <2>4, <2>5, <2>6
<1>2. ASSUME NEW n \in Nat, Q(n) PROVE Q(n + 1)
  <2> SUFFICES ASSUME NEW q \in Seq(Meanings), Len(q) = n + 1, Clean(q) PROVE Good(q)
    OBVIOUS
  <2>1. PICK r \in Seq(Meanings), m \in Meanings :
          q = Append(r, m) /\ Len(q) = Len(r) + 1 /\ m = q[Len(q)] /\ \A i \in 1 .. Len(r) : r[i] = q[i]
    <3>1. q # <<>>
      OBVIOUS
    <3> QED BY ONLY q \in Seq(Meanings), <3>1, FrontAndLast
  <2>2. Len(r) = n /\ Clean(r) /\ ReadsAsMeant(m, transport)
    <3>1. Len(r) \in Nat /\ Len(q) \in 1 .. Len(q) /\ 1 .. Len(r) \subseteq 1 .. Len(q)
      BY <2>1
    <3> QED BY <2>1, <3>1
  <2>3. Good(r)
    BY <1>2, <2>2
  <2> DEFINE f == FramesFor(r, transport)
             g == PeerFrames(PeerPacket(m), transport)
             c == CallsDue(r, ears)
             a == AsksFor(m, ears)
  <2>4. FramesFor(q, transport) = f \o g /\ Sequence(f) /\ CallsDue(q, ears) = c \o a /\ Sequence(c)
    BY <2>1, FramesMore, CallsMore
  <2>5. Sequence(g) /\ Sequence(a)
    BY FramesAre, AskedIs
  <2>6. Sequence(calls \o c) /\ (calls \o c) \o a = calls \o (c \o a)
    <3> HIDE DEF c, a, f, g
    <3>1. Sequence(c) /\ Sequence(a) /\ Sequence(calls)
      BY <2>4, <2>5
    <3> QED BY ONLY <3>1, SequenceConcat, SequenceAssociative
  <2>7. /\ Readable(g, transport)
        /\ Trace(ears, To(r), Decoded(g), [part |-> <<>>, calls |-> (calls \o c) \o a])
    BY ONLY <2>2, <2>6, m \in Meanings, transport \in Transports, ears \in Listens, PacketArrives
  <2>8. Readable(f \o g, transport) /\ Decoded(f \o g) = Decoded(f) \o Decoded(g)
    BY <2>3, <2>4, <2>5, <2>7, DecodedMore
  <2>9. Trace(ears, From, Decoded(f) \o Decoded(g), To(q))
    <3>1. To(q) = [part |-> <<>>, calls |-> (calls \o c) \o a]
      BY <2>4, <2>6
    <3> HIDE DEF To, From, f, g, c, a
    <3>2. Trace(ears, From, Decoded(f), To(r)) /\ Trace(ears, To(r), Decoded(g), To(q))
      BY <2>3, <2>7, <3>1 DEF f
    <3> QED BY ONLY <3>2, TraceJoined
  <2> HIDE DEF f, g, c, a, To, From
  <2> QED BY <2>4, <2>8, <2>9
<1> HIDE DEF Q
<1>3. T = Nat
  <2>1. T \in SUBSET Nat /\ 0 \in T /\ \A k \in T : k + 1 \in T
    BY <1>1, <1>2
  <2> HIDE DEF T
  <2> QED BY <2>1, SetInduction
<1>4. Q(Len(batch))
  <2>1. Len(batch) \in Nat
    OBVIOUS
  <2> QED BY <1>3, <2>1
<1> QED BY <1>4, Zenon DEF Q

(* Lemma: what is sent at once is a sequence of packets.                    *)
LEMMA BatchIs ==
  ASSUME NEW batch \in Batches
  PROVE  batch \in Seq(Meanings) /\ batch # <<>> /\ Len(batch) \in Nat
<1>1. PICK n \in 0 .. MaxPackets : batch \in [1 .. n -> Meanings]
  BY DEF Batches, SeqOf
<1>2. n \in Nat
  BY LinkAssumption
<1> QED BY <1>1, <1>2 DEF Batches

(* Lemma: the packets before the first that is misread.                     *)
LEMMA FirstMisread ==
  ASSUME NEW batch \in Seq(Meanings)
  PROVE  LET n == SelectInSeq(batch, Misread)
         IN \/ n = 0 /\ \A i \in 1 .. Len(batch) : ~Misread(batch[i])
            \/ n \in 1 .. Len(batch) /\ \A i \in 1 .. n - 1 : ~Misread(batch[i])
<1> DEFINE bad == {i \in 1 .. Len(batch) : Misread(batch[i])}
<1>1. SelectInSeq(batch, Misread) = IF bad # {} THEN Min(bad) ELSE 0
  BY DEF SelectInSeq
<1>2. CASE bad = {}
  BY <1>1, <1>2
<1>3. CASE bad # {}
  <2>1. bad \subseteq Nat /\ bad \subseteq 1 .. Len(batch)
    OBVIOUS
  <2> HIDE DEF bad
  <2>2. PICK m \in bad : \A i \in bad : ~ (<<i, m>> \in NatLess)
    BY <1>3, <2>1, NatLessWF, WFMin, Zenon
  <2>3. ASSUME NEW i \in bad PROVE m <= i
    <3>1. i \in Nat /\ m \in Nat /\ <<i, m>> \in Nat \X Nat /\ ~ (<<i, m>> \in NatLess)
      BY <2>1, <2>2
    <3>2. ~(i < m)
      BY <3>1 DEF NatLess
    <3> QED BY <3>1, <3>2
  <2>4. Min(bad) \in bad /\ \A i \in bad : Min(bad) <= i
    BY <2>3 DEF Min
  <2>5. ASSUME NEW i \in 1 .. Min(bad) - 1 PROVE ~Misread(batch[i])
    <3>1. Len(batch) \in Nat /\ Min(bad) \in 1 .. Len(batch)
      <4>1. Len(batch) \in Nat
        OBVIOUS
      <4> QED BY ONLY <2>1, <2>4, <4>1
    <3>2. i \in 1 .. Len(batch) /\ ~(Min(bad) <= i)
      BY <3>1
    <3>3. i \notin bad
      BY <2>4, <3>2
    <3> QED BY <3>2, <3>3 DEF bad
  <2> QED BY <1>1, <1>3, <2>1, <2>4, <2>5
<1> QED BY <1>2, <1>3

(* Lemmas: the first elements of a sequence; the frames of the first        *)
(* packets are the first frames.                                            *)
LEMMA PrefixIs ==
  ASSUME NEW P, NEW q \in Seq(P), NEW k \in 0 .. Len(q)
  PROVE  /\ Prefix(q, k) \in Seq(P) /\ Len(Prefix(q, k)) = k
         /\ \A i \in 1 .. k : Prefix(q, k)[i] = q[i]
<1>1. 1 \in Int /\ k \in Int /\ k \in Nat
  OBVIOUS
<1>2. \A i \in 1 .. k : q[i] \in P
  OBVIOUS
<1>3. /\ SubSeq(q, 1, k) \in Seq(P)
      /\ Len(SubSeq(q, 1, k)) = IF 1 <= k THEN k - 1 + 1 ELSE 0
      /\ \A i \in 1 .. k - 1 + 1 : SubSeq(q, 1, k)[i] = q[1 + i - 1]
  BY ONLY <1>1, <1>2, SubSeqProperties
<1> QED BY <1>1, <1>3 DEF Prefix

LEMMA PrefixMore ==
  ASSUME NEW P, NEW q \in Seq(P), NEW k \in Nat, k + 1 <= Len(q)
  PROVE  Prefix(q, k + 1) = Append(Prefix(q, k), q[k + 1]) /\ q[k + 1] \in P
<1> DEFINE t == Prefix(q, k + 1)
           s == Prefix(q, k)
           x == q[k + 1]
<1>1. k + 1 \in 0 .. Len(q) /\ k \in 0 .. Len(q) /\ x \in P /\ k + 1 \in 1 .. k + 1
      /\ 1 .. k \subseteq 1 .. k + 1
  OBVIOUS
<1>2. /\ t \in Seq(P) /\ Len(t) = k + 1 /\ \A i \in 1 .. k + 1 : t[i] = q[i]
      /\ s \in Seq(P) /\ Len(s) = k /\ \A i \in 1 .. k : s[i] = q[i]
  BY <1>1, PrefixIs
<1>3. t[k + 1] = x
  BY <1>1, <1>2
<1> HIDE DEF t, s, x
<1>4. Len(t) = Len(s) + 1 /\ t[Len(t)] = x /\ \A i \in 1 .. Len(s) : t[i] = s[i]
  BY <1>1, <1>2, <1>3
<1>5. t = Append(s, x)
  BY ONLY <1>1, <1>2, <1>4, AppendUnique
<1> QED BY <1>1, <1>5 DEF t, s, x

LEMMA PrefixWhole ==
  ASSUME NEW P, NEW q \in Seq(P)
  PROVE  Prefix(q, Len(q)) = q
<1>1. Len(q) \in 0 .. Len(q)
  OBVIOUS
<1> DEFINE t == Prefix(q, Len(q))
<1>2. t \in Seq(P) /\ Len(t) = Len(q) /\ \A i \in 1 .. Len(t) : t[i] = q[i]
  BY <1>1, PrefixIs
<1> HIDE DEF t
<1>3. t = q
  BY ONLY <1>2, q \in Seq(P), SeqEqual
<1> QED BY <1>3 DEF t

LEMMA FramesBegin ==
  ASSUME NEW transport, NEW batch \in Seq(Meanings), NEW k \in 0 .. Len(batch)
  PROVE  \E rest : Sequence(rest) /\
           FramesFor(batch, transport) = FramesFor(Prefix(batch, k), transport) \o rest
<1> DEFINE first == FramesFor(Prefix(batch, k), transport)
           Q(n) == k + n <= Len(batch) => \E rest : Sequence(rest) /\
                     FramesFor(Prefix(batch, k + n), transport) = first \o rest
           T == {n \in Nat : Q(n)}
<1>0. Len(batch) \in Nat /\ k \in Nat /\ \E m : m \in Meanings
  BY DEF Meanings
<1>1. Sequence(first)
  <2>1. Prefix(batch, k) \in Seq(Meanings)
    BY PrefixIs
  <2> QED BY <1>0, <2>1, FramesMore
<1> HIDE DEF first
<1>2. Q(0)
  <2>1. first \o <<>> = first
    BY <1>1, SequenceConcat, SequenceEmpty
  <2>2. k + 0 = k
    BY <1>0
  <2> QED BY <2>1, <2>2, SequenceEmpty DEF first
<1>3. ASSUME NEW n \in Nat, Q(n) PROVE Q(n + 1)
  <2> SUFFICES ASSUME k + (n + 1) <= Len(batch)
               PROVE  \E rest : Sequence(rest) /\
                        FramesFor(Prefix(batch, k + (n + 1)), transport) = first \o rest
    OBVIOUS
  <2>1. PICK j \in Nat : j = k + n /\ k + (n + 1) = j + 1 /\ j + 1 <= Len(batch) /\ j \in 0 .. Len(batch)
    BY <1>0
  <2>2. PICK rest : Sequence(rest) /\ FramesFor(Prefix(batch, j), transport) = first \o rest
    <3>1. k + n <= Len(batch)
      BY <1>0
    <3> QED BY <1>3, <2>1, <3>1
  <2> DEFINE m == batch[j + 1]
             g == PeerFrames(PeerPacket(m), transport)
  <2>3. Prefix(batch, j + 1) = Append(Prefix(batch, j), m) /\ m \in Meanings
        /\ Prefix(batch, j) \in Seq(Meanings)
    BY <2>1, PrefixMore, PrefixIs
  <2> HIDE DEF m
  <2>4. FramesFor(Prefix(batch, j + 1), transport) = (first \o rest) \o g /\ Sequence(g)
    BY <2>2, <2>3, FramesMore, FramesAre
  <2>5. (first \o rest) \o g = first \o (rest \o g) /\ Sequence(rest \o g)
    BY <1>1, <2>2, <2>4, SequenceConcat, SequenceAssociative
  <2> QED BY <2>1, <2>4, <2>5
<1> HIDE DEF Q
<1>4. T = Nat
  <2>1. T \in SUBSET Nat /\ 0 \in T /\ \A j \in T : j + 1 \in T
    BY <1>2, <1>3
  <2> HIDE DEF T
  <2> QED BY <2>1, SetInduction
<1>5. Q(Len(batch) - k) /\ k + (Len(batch) - k) = Len(batch)
  <2>1. Len(batch) - k \in Nat /\ k + (Len(batch) - k) = Len(batch)
    BY <1>0
  <2> QED BY <1>4, <2>1
<1>6. Prefix(batch, Len(batch)) = batch
  BY PrefixWhole
<1> QED BY <1>0, <1>5, <1>6 DEF Q, first

-----------------------------------------------------------------------------
(* Lemma: a frame by itself is a payload of one packet (a websocket         *)
(* message).                                                                *)
LEMMA FrameAlone ==
  ASSUME NEW frame, Sequence(frame.data), RSFree(Incoming(frame)),
         EngineDecodable(Incoming(frame))
  PROVE  Intact(frame) /\ Unpacked(frame) = <<EngineDecode(Incoming(frame))>>
<1> DEFINE s == Incoming(frame)
           d == EngineDecode(s)
<1>1. Sequence(s)
  BY IncomingIs
<1> HIDE DEF s
<1>2. PICK C : s \in Seq(C)
  BY <1>1, Zenon DEF Sequence
<1>3. Split(s) = <<s>>
  BY ONLY <1>2, RSFree(Incoming(frame)), SplitNone DEF s
<1>4. DOMAIN <<s>> = 1 .. 1 /\ \A i \in 1 .. 1 : <<s>>[i] = s
  OBVIOUS
<1>5. EngineDecodable(s)
  BY DEF s
<1>6. Intact(frame)
  BY <1>3, <1>4, <1>5, Zenon DEF Intact, s
<1> HIDE DEF d
<1>7. [i \in 1 .. 1 |-> d] = <<d>>
  OBVIOUS
<1>8. Unpacked(frame) = <<d>>
  BY <1>3, <1>4, <1>7, Zenon DEF Unpacked, s, d
<1> QED BY <1>6, <1>8 DEF d, s

(* Lemma: frames put together to a body are taken apart again.              *)
LEMMA BodyArrives ==
  ASSUME NEW frames, Sequence(frames), frames # <<>>, Readable(frames, "polling")
  PROVE  LET item == Frame(FALSE, Join([i \in DOMAIN frames |-> frames[i].data]))
         IN Intact(item) /\ Unpacked(item) = Decoded(frames)
<1> DEFINE n == Len(frames)
           seqs == [i \in DOMAIN frames |-> frames[i].data]
           item == Frame(FALSE, Join(seqs))
<1>1. n \in Nat /\ DOMAIN frames = 1 .. n /\ n # 0
  BY SequenceIs
<1>2. \A i \in 1 .. n : /\ ~frames[i].binary /\ Sequence(frames[i].data)
                        /\ RSFree(Incoming(frames[i])) /\ EngineDecodable(Incoming(frames[i]))
  BY DEF Readable
<1>3. \A i \in 1 .. n : seqs[i] = frames[i].data /\ Incoming(frames[i]) = seqs[i]
  BY <1>1, <1>2, IncomingIs
<1>4. DOMAIN seqs = 1 .. n /\ seqs = [i \in 1 .. n |-> seqs[i]]
  BY <1>1
<1>5. \A i \in 1 .. n : Sequence(seqs[i]) /\ RSFree(seqs[i]) /\ EngineDecodable(seqs[i])
  BY <1>2, <1>3
<1> HIDE DEF seqs, n
<1>6. PICK C : C = {RS} \cup UNION {{seqs[i][j] : j \in DOMAIN seqs[i]} : i \in 1 .. n}
  OBVIOUS
<1>7. PICK P : P = Seq(C)
  OBVIOUS
<1>8. ASSUME NEW i \in 1 .. n PROVE seqs[i] \in P
  <2> DEFINE s == seqs[i]
  <2>1. \A j \in DOMAIN s : s[j] \in C
    BY <1>6
  <2>2. Sequence(s)
    BY <1>5
  <2> HIDE DEF s
  <2>3. PICK U : s \in Seq(U)
    BY <2>2, Zenon DEF Sequence
  <2>4. s \in Seq(C)
    BY <2>1, <2>3
  <2> QED BY <1>7, <2>4 DEF s
<1>9. seqs \in Seq(P) /\ Len(seqs) = n
  BY ONLY <1>1, <1>4, <1>8, IsSeq
<1>10. seqs # <<>> /\ RS \in C /\ \A i \in 1 .. Len(seqs) : RSFree(seqs[i])
  BY <1>1, <1>5, <1>6, <1>9
<1>11. Split(Join(seqs)) = seqs /\ Join(seqs) \in P
  BY ONLY <1>7, <1>9, <1>10, PayloadInduction
<1>12. Incoming(item) = Join(seqs)
  <2> DEFINE body == Join(seqs)
  <2>1. Sequence(body)
    BY <1>7, <1>11, Zenon DEF Sequence
  <2> HIDE DEF body
  <2>2. Frame(FALSE, body).data = body /\ ~Frame(FALSE, body).binary
    BY DEF Frame
  <2>3. Incoming(Frame(FALSE, body)) = body
    BY <2>1, <2>2, IncomingIs
  <2> QED BY <2>3 DEF body
<1> HIDE DEF item
<1>13. Intact(item)
  BY <1>4, <1>5, <1>11, <1>12, Zenon DEF Intact
<1>14. Unpacked(item) = [i \in 1 .. n |-> EngineDecode(seqs[i])]
  BY <1>4, <1>11, <1>12, Zenon DEF Unpacked
<1>15. Decoded(frames) = [i \in 1 .. n |-> EngineDecode(seqs[i])]
  BY <1>1, <1>3, Zenon DEF Decoded
<1> QED BY <1>13, <1>14, <1>15 DEF item, seqs

(* Lemma: what DueOf says of the packets that arrive as they were sent.     *)
LEMMA DueIs ==
  ASSUME NEW batch \in Seq(Meanings), NEW k \in 0 .. Len(batch),
         LET n == SelectInSeq(batch, Misread)
         IN k = IF n = 0 THEN Len(batch) ELSE n - 1
  PROVE  DueOf(batch) = CallsDue(Prefix(batch, k), listens)
<1> DEFINE n == SelectInSeq(batch, Misread)
<1>1. k = IF n = 0 THEN Len(batch) ELSE n - 1
  OBVIOUS
<1>2. Prefix(batch, Len(batch)) = batch
  BY PrefixWhole
<1> HIDE DEF n
<1>3. CASE n = 0
  BY <1>1, <1>2, <1>3 DEF DueOf, CallsDue, n
<1>4. CASE n # 0
  BY <1>1, <1>4 DEF DueOf, CallsDue, n
<1> QED BY <1>3, <1>4

(* Lemma: the items of a batch lead to the calls it asks for, over polling  *)
(* the body, over the websocket the messages before a packet misread.       *)
LEMMA PollingLeads ==
  ASSUME NEW batch \in Batches, NEW ears \in Listens, NEW calls, Sequence(calls),
         \A i \in 1 .. Len(batch) : ReadsAsMeant(batch[i], "polling"),
         NEW item, item = Frame(FALSE, BodyOf[batch])
  PROVE  \E st : /\ Leads(<<item>>, 1, st, ears, calls, calls \o CallsDue(batch, ears))
                 /\ st[1] = [part |-> <<>>, calls |-> calls \o CallsDue(batch, ears)]
<1> DEFINE frames == FramesFor(batch, "polling")
           from == [part |-> <<>>, calls |-> calls]
           to == [part |-> <<>>, calls |-> calls \o CallsDue(batch, ears)]
           st == [i \in 0 .. 1 |-> IF i = 0 THEN from ELSE to]
<1>1. batch \in Seq(Meanings) /\ batch # <<>> /\ Len(batch) \in Nat
  BY BatchIs
<1>2. Readable(frames, "polling") /\ Trace(ears, from, Decoded(frames), to)
  BY <1>1, BatchArrives DEF Transports
<1>3. Sequence(frames) /\ frames # <<>>
  <2>1. PICK r \in Seq(Meanings), m \in Meanings : batch = Append(r, m)
    BY ONLY <1>1, FrontAndLast
  <2> DEFINE g == PeerFrames(PeerPacket(m), "polling")
             f == FramesFor(r, "polling")
  <2>2. frames = f \o g /\ Sequence(f) /\ Sequence(g) /\ Len(g) # 0
    <3>1. frames = f \o g /\ Sequence(f)
      BY <2>1, FramesMore, Zenon
    <3>2. Sequence(g) /\ Len(g) = Len(m.blobs) + 1 /\ Len(m.blobs) \in Nat
      BY FramesAre
    <3> HIDE DEF f, g, frames
    <3> QED BY <3>1, <3>2
  <2> HIDE DEF f, g, frames
  <2>3. Sequence(f \o g) /\ Len(f \o g) = Len(f) + Len(g) /\ Len(f) \in Nat /\ Len(g) \in Nat
    BY ONLY <2>2, SequenceConcat, SequenceIs
  <2> QED BY <2>2, <2>3
<1>4. BodyOf[batch] = Join([i \in DOMAIN frames |-> frames[i].data])
  <2>1. FramesOf["polling"][batch] = frames
    BY DEF FramesOf, FramesFor, Transports
  <2> HIDE DEF frames
  <2> QED BY <2>1 DEF BodyOf
<1> HIDE DEF frames, from, to
<1>5. Intact(item) /\ Trace(ears, from, Unpacked(item), to)
  BY <1>2, <1>3, <1>4, BodyArrives, Zenon
<1>6. st[0] = from /\ st[1] = to
  OBVIOUS
<1> HIDE DEF st
<1>7. Leads(<<item>>, 1, st, ears, calls, calls \o CallsDue(batch, ears))
  <2> DEFINE items == <<item>>
  <2>1. items[1] = item
    OBVIOUS
  <2> HIDE DEF items
  <2>2. ASSUME NEW k \in 1 .. 1
        PROVE  Intact(items[k]) /\ Trace(ears, st[k - 1], Unpacked(items[k]), st[k])
    <3>1. k = 1 /\ k - 1 = 0
      OBVIOUS
    <3> QED BY <1>5, <1>6, <2>1, <3>1
  <2>3. st[0] = [part |-> <<>>, calls |-> calls]
    BY <1>6 DEF from
  <2>4. st[1].calls = calls \o CallsDue(batch, ears)
    BY <1>6 DEF to
  <2>5. Leads(items, 1, st, ears, calls, calls \o CallsDue(batch, ears))
    BY <2>2, <2>3, <2>4, Zenon DEF Leads
  <2> QED BY <2>5 DEF items
<1> QED BY <1>6, <1>7 DEF to

LEMMA WebsocketLeads ==
  ASSUME NEW batch \in Seq(Meanings), NEW ears \in Listens, NEW calls, Sequence(calls),
         NEW k \in 0 .. Len(batch), \A i \in 1 .. k : ReadsAsMeant(batch[i], "websocket")
  PROVE  LET items == FramesFor(batch, "websocket")
             m == Len(FramesFor(Prefix(batch, k), "websocket"))
             to == calls \o CallsDue(Prefix(batch, k), ears)
         IN /\ m \in 0 .. Len(items)
            /\ \E st : Leads(items, m, st, ears, calls, to) /\ st[m] = [part |-> <<>>, calls |-> to]
<1> DEFINE items == FramesFor(batch, "websocket")
           first == Prefix(batch, k)
           frames == FramesFor(first, "websocket")
           m == Len(frames)
           to == calls \o CallsDue(first, ears)
<1>1. /\ first \in Seq(Meanings) /\ Len(first) = k
      /\ \A i \in 1 .. Len(first) : ReadsAsMeant(first[i], "websocket")
  BY PrefixIs
<1> HIDE DEF first
<1>2. /\ Readable(frames, "websocket")
      /\ Trace(ears, [part |-> <<>>, calls |-> calls], Decoded(frames), [part |-> <<>>, calls |-> to])
  BY <1>1, BatchArrives DEF Transports
<1>3. Sequence(frames) /\ m \in Nat
  <2>1. \E x : x \in Meanings
    BY DEF Meanings
  <2>2. Sequence(frames)
    BY <1>1, <2>1, FramesMore
  <2> QED BY <2>2, SequenceIs
<1>4. PICK rest : Sequence(rest) /\ items = frames \o rest
  BY FramesBegin DEF first
<1> HIDE DEF items, frames, to
<1>5. m \in 0 .. Len(items) /\ \A i \in 1 .. m : items[i] = frames[i]
  <2>1. /\ Len(frames \o rest) = Len(frames) + Len(rest) /\ Len(rest) \in Nat
        /\ \A i \in 1 .. Len(frames) : (frames \o rest)[i] = frames[i]
    BY <1>3, <1>4, SequenceConcat, SequenceIs
  <2> QED BY <1>3, <1>4, <2>1
<1>6. Len(Decoded(frames)) = m /\ \A i \in 1 .. m : Decoded(frames)[i] = EngineDecode(Incoming(frames[i]))
  BY <1>3, DecodedIs
<1> HIDE DEF m
<1>7. PICK st : /\ st[0] = [part |-> <<>>, calls |-> calls] /\ st[m] = [part |-> <<>>, calls |-> to]
                /\ \A i \in 1 .. m : Takes(ears, st[i - 1], Decoded(frames)[i], st[i])
  BY <1>2, <1>6 DEF Trace
<1>8. ASSUME NEW i \in 1 .. m
      PROVE  Intact(items[i]) /\ Trace(ears, st[i - 1], Unpacked(items[i]), st[i])
  <2> DEFINE e == EngineDecode(Incoming(frames[i]))
  <2>1. Intact(frames[i]) /\ Unpacked(frames[i]) = <<e>>
    <3>1. /\ Sequence(frames[i].data) /\ RSFree(Incoming(frames[i]))
          /\ EngineDecodable(Incoming(frames[i]))
      BY <1>2 DEF Readable, m
    <3> QED BY <3>1, FrameAlone
  <2>2. Takes(ears, st[i - 1], e, st[i])
    BY <1>6, <1>7
  <2> HIDE DEF e
  <2>3. Trace(ears, st[i - 1], <<e>>, st[i])
    BY <2>2, TraceOne
  <2> QED BY <1>5, <2>1, <2>3
<1>9. Leads(items, m, st, ears, calls, to) /\ st[m] = [part |-> <<>>, calls |-> to]
  BY <1>7, <1>8 DEF Leads
<1> QED BY <1>5, <1>9 DEF items, m, to, first, frames

(* Lemmas: what the peer sends is read as it was sent; and so every step.   *)
LEMMA SendsRead ==
  ASSUME ReadInv, HandshakeTypeOK, PeerSends
  PROVE  ReadInv'
<1>0. PICK batch \in Batches : \E items \in Carried(batch) :
        LET misread == SelectInSeq(batch, Misread) > 0
            cut == carrier = "polling" /\ (Len(items) > 1 \/ misread)
        IN /\ wire' = wire \o items
           /\ spoilt' = (spoilt \/ cut \/ misread)
           /\ due' = IF spoilt \/ cut THEN due ELSE due \o DueOf(batch)
  BY Zenon DEF PeerSends
<1>1. PICK items \in Carried(batch) :
        LET misread == SelectInSeq(batch, Misread) > 0
            cut == carrier = "polling" /\ (Len(items) > 1 \/ misread)
        IN /\ wire' = wire \o items
           /\ spoilt' = (spoilt \/ cut \/ misread)
           /\ due' = IF spoilt \/ cut THEN due ELSE due \o DueOf(batch)
  BY <1>0, Zenon
<1>2. UNCHANGED <<listens, todo, part, dispatched>>
  BY DEF PeerSends, client, callVars
<1>3. batch \in Seq(Meanings) /\ Len(batch) \in Nat /\ (\E x : x \in Meanings)
  BY BatchIs DEF Meanings
<1>4. listens \in Listens /\ Sequence(due)
  BY DEF ReadInv
<1> DEFINE bad == SelectInSeq(batch, Misread)
           k == IF bad = 0 THEN Len(batch) ELSE bad - 1
           to == due \o CallsDue(Prefix(batch, k), listens)
<1>5. \/ bad = 0 /\ \A i \in 1 .. Len(batch) : ~Misread(batch[i])
      \/ bad \in 1 .. Len(batch) /\ \A i \in 1 .. bad - 1 : ~Misread(batch[i])
  BY <1>3, FirstMisread
<1> HIDE DEF bad
<1>6. k \in 0 .. Len(batch) /\ \A i \in 1 .. k : ReadsAsMeant(batch[i], carrier)
  BY <1>3, <1>5 DEF Misread
<1>7. DueOf(batch) = CallsDue(Prefix(batch, k), listens)
  BY <1>3, <1>6, DueIs DEF bad
<1>8. Sequence(to)
  <2>1. Prefix(batch, k) \in Seq(Meanings)
    BY <1>3, <1>6, PrefixIs
  <2>2. Sequence(CallsDue(Prefix(batch, k), listens))
    BY <1>3, <2>1, CallsMore
  <2> QED BY <1>4, <2>2, SequenceConcat
<1>9. CASE carrier = "polling"
  <2>1. items \in Chunks(BodyOf[batch])
    BY <1>1, <1>9 DEF Carried
  <2>2. (\E x, y : items = <<x, y>>) \/ items = <<Frame(FALSE, BodyOf[batch])>>
    BY <2>1 DEF Chunks
  <2>3. Sequence(items)
    <3>1. ASSUME NEW x, NEW y PROVE Sequence(<<x, y>>)
      <4>1. <<x, y>> = Append(<<x>>, y)
        OBVIOUS
      <4> QED BY <4>1, SequenceOne, SequenceAppend
    <3> QED BY <2>2, <3>1, SequenceOne, Zenon
  <2>4. ASSUME NEW x, NEW y, items = <<x, y>> PROVE ReadInv'
    <3>1. Len(items) > 1
      BY <2>4
    <3>2. spoilt' /\ due' = due /\ wire' = wire \o items
      BY <1>1, <1>9, <3>1
    <3> QED BY <1>2, <2>3, <3>2, SpoiltSends
  <2>5. CASE items = <<Frame(FALSE, BodyOf[batch])>>
    <3>1. Len(items) = 1 /\ ~(Len(items) > 1)
      BY <2>5
    <3>2. CASE spoilt
      <4>1. spoilt' /\ due' = due /\ wire' = wire \o items
        BY <1>1, <3>2
      <4> QED BY <1>2, <2>3, <4>1, SpoiltSends
    <3>3. CASE ~spoilt /\ bad > 0
      <4>1. spoilt' /\ due' = due /\ wire' = wire \o items
        BY <1>1, <1>9, <3>3 DEF bad
      <4> QED BY <1>2, <2>3, <4>1, SpoiltSends
    <3>4. CASE ~spoilt /\ ~(bad > 0)
      <4>0. bad = 0 /\ k = Len(batch)
        BY <1>3, <1>5, <3>4
      <4>1. Prefix(batch, k) = batch /\ \A i \in 1 .. Len(batch) : ReadsAsMeant(batch[i], "polling")
        BY <1>3, <1>6, <1>9, <4>0, PrefixWhole
      <4>2. due' = to /\ wire' = wire \o items
        BY <1>1, <1>7, <3>1, <3>4 DEF bad
      <4>3. PICK st : Leads(items, 1, st, listens, due, to) /\ st[1] = [part |-> <<>>, calls |-> to]
        BY <1>4, <2>5, <4>1, PollingLeads
      <4> HIDE DEF to, k
      <4>4. Leads(items, 1, st, listens, due, due') /\ Sequence(due') /\ 1 \in 0 .. Len(items)
            /\ 1 = Len(items) /\ st[1] = [part |-> <<>>, calls |-> due']
        BY <1>8, <3>1, <4>2, <4>3
      <4> QED BY ONLY ReadInv, <1>2, <2>3, <3>4, <4>2, <4>4, ClearSends
    <3> QED BY <3>2, <3>3, <3>4
  <2> QED BY <2>2, <2>4, <2>5
<1>10. CASE carrier = "websocket"
  <2>1. items = FramesFor(batch, "websocket")
    <3>1. items = FramesOf["websocket"][batch]
      BY <1>10 DEF Carried
    <3> QED BY <3>1 DEF FramesOf, FramesFor, Transports
  <2>2. Sequence(items)
    BY <1>3, <2>1, FramesMore
  <2>3. wire' = wire \o items /\ (spoilt => spoilt' /\ due' = due)
    BY <1>1
  <2>4. CASE spoilt
    BY <1>2, <2>2, <2>3, <2>4, SpoiltSends
  <2>5. CASE ~spoilt
    <3>1. due' = to /\ (~spoilt' => ~(bad > 0))
      BY <1>1, <1>7, <1>10, <2>5 DEF bad
    <3>2. ~spoilt' => Prefix(batch, k) = batch
      <4>1. ~(bad > 0) => bad = 0
        BY <1>3, <1>5
      <4> QED BY <1>3, <3>1, <4>1, PrefixWhole
    <3> DEFINE first == Prefix(batch, k)
               m == Len(FramesFor(first, "websocket"))
    <3>3. \A i \in 1 .. k : ReadsAsMeant(batch[i], "websocket")
      BY <1>6, <1>10
    <3> HIDE DEF k, bad
    <3>4. m \in 0 .. Len(items) /\ \E st : Leads(items, m, st, listens, due, to)
                                           /\ st[m] = [part |-> <<>>, calls |-> to]
      BY <1>3, <1>4, <1>6, <2>1, <3>3, WebsocketLeads
    <3>5. PICK st : Leads(items, m, st, listens, due, to) /\ st[m] = [part |-> <<>>, calls |-> to]
      BY <3>4
    <3>6. ~spoilt' => m = Len(items)
      BY <2>1, <3>2
    <3> HIDE DEF m, to
    <3>7. /\ Leads(items, m, st, listens, due, due') /\ Sequence(due') /\ m \in 0 .. Len(items)
          /\ ~spoilt' => m = Len(items) /\ st[m] = [part |-> <<>>, calls |-> due']
      BY <1>8, <3>1, <3>4, <3>5, <3>6
    <3> QED BY ONLY ReadInv, <1>2, <2>2, <2>3, <2>5, <3>7, ClearSends
  <2> QED BY <2>4, <2>5
<1> QED BY <1>9, <1>10 DEF HandshakeTypeOK, Transports

LEMMA ReadStep ==
  ASSUME ReadInv, HandshakeTypeOK, [Next]_vars
  PROVE  ReadInv'
<1>1. CASE UNCHANGED vars \/ (Builds /\ UNCHANGED <<async, listens, left, readVars, sendVars>>)
  <2>1. UNCHANGED <<listens, wire, todo, part, dispatched, due, spoilt>>
    BY <1>1 DEF vars, client, readVars, callVars
  <2> QED BY <2>1, OthersRead
<1>2. CASE PeerSends \/ PeerPings \/ Receives \/ Handles
  BY <1>2, SendsRead, PingsRead, ReceivesReads, HandlesReads
<1>3. ASSUME NEW s \in Senders, Begins(s) \/ Continues(s) \/ Abandons(s) PROVE ReadInv'
  <2>1. UNCHANGED <<listens, wire, todo, part, dispatched, due, spoilt>>
    BY <1>3 DEF Begins, Continues, Abandons, client, readVars, callVars
  <2> QED BY <2>1, OthersRead
<1>4. ASSUME NEW task \in tasks, Runs(task) PROVE ReadInv'
  <2>1. UNCHANGED <<listens, wire, todo, part, dispatched, due, spoilt>>
    BY <1>4 DEF Runs, client
  <2> QED BY <2>1, OthersRead
<1> QED BY <1>1, <1>2, <1>3, <1>4 DEF Next

(* Tasks and the calls they are for: a call that was dispatched was made, or *)
(* is left to one task, or was cut with the task it was left to.             *)
CallsOf(task) == task.next .. task.last
TaskInv ==
  /\ async \in BOOLEAN /\ Sequence(dispatched)
  /\ made \subseteq 1 .. Len(dispatched)
  /\ \A task \in tasks :
       /\ task.next \in Nat /\ task.last \in Nat /\ task.next <= task.last
       /\ task = [next |-> task.next, last |-> task.last]
       /\ CallsOf(task) \subseteq 1 .. Len(dispatched) \ made
  /\ \A one, other \in tasks : one # other => CallsOf(one) \cap CallsOf(other) = {}
  /\ ~async => tasks = {} /\ made = 1 .. Len(dispatched)

LEMMA InitTasks == Init => TaskInv
<1> SUFFICES ASSUME Init PROVE TaskInv
  OBVIOUS
<1>1. async \in BOOLEAN /\ dispatched = <<>> /\ tasks = {} /\ made = {}
  BY DEF Init
<1>2. Sequence(dispatched) /\ Len(dispatched) = 0 /\ 1 .. 0 = {}
  BY <1>1, SequenceEmpty
<1> QED BY <1>1, <1>2 DEF TaskInv

(* Lemma: the calls of one more packet, with some of the tasks cut.          *)
LEMMA DispatchesTasks ==
  ASSUME TaskInv, NEW calls, Sequence(calls), NEW kept \in SUBSET tasks,
         Dispatches(calls, kept), UNCHANGED async
  PROVE  TaskInv'
<1> DEFINE n == Len(dispatched)
           m == Len(calls)
           task == [next |-> n + 1, last |-> n + m]
<1>1. /\ n \in Nat /\ m \in Nat /\ Sequence(dispatched') /\ Len(dispatched') = n + m
      /\ calls # <<>> => m # 0
  <2>1. Sequence(dispatched)
    BY DEF TaskInv
  <2>2. dispatched' = dispatched \o calls
    BY DEF Dispatches
  <2>3. Len(calls) \in Nat /\ Len(dispatched) \in Nat
    BY <2>1, SequenceIs
  <2>4. Sequence(dispatched') /\ Len(dispatched') = n + m
    BY <2>1, <2>2, SequenceConcat
  <2>5. calls # <<>> => m # 0
    <3>1. PICK S : calls \in Seq(S)
      BY Zenon DEF Sequence
    <3> QED BY <3>1
  <2> QED BY <2>3, <2>4, <2>5
<1>2. /\ tasks' = IF async /\ calls # <<>> THEN kept \cup {task} ELSE kept
      /\ made' = IF async THEN made ELSE made \cup (n + 1 .. n + m)
  BY DEF Dispatches
<1>3. /\ task.next = n + 1 /\ task.last = n + m /\ task = [next |-> n + 1, last |-> n + m]
      /\ CallsOf(task) = n + 1 .. n + m
  BY DEF CallsOf
<1> HIDE DEF task
<1>4. CASE ~async
  <2>1. tasks = {} /\ made = 1 .. n /\ kept = {}
    BY <1>4 DEF TaskInv
  <2>2. tasks' = {} /\ made' = 1 .. n + m
    <3>1. (1 .. n) \cup (n + 1 .. n + m) = 1 .. n + m
      BY <1>1
    <3> QED BY <1>2, <1>4, <2>1, <3>1
  <2> QED BY <1>1, <1>4, <2>2 DEF TaskInv
<1>5. CASE async
  <2>1. made' = made /\ made \subseteq 1 .. n /\ 1 .. n \subseteq 1 .. n + m
    BY <1>1, <1>2, <1>5 DEF TaskInv
  <2>2. ASSUME NEW t \in kept
        PROVE  /\ t.next \in Nat /\ t.last \in Nat /\ t.next <= t.last
               /\ t = [next |-> t.next, last |-> t.last]
               /\ CallsOf(t) \subseteq 1 .. n /\ CallsOf(t) \cap made = {}
    BY DEF TaskInv
  <2>3. CASE calls = <<>>
    <3>1. tasks' = kept
      BY <1>2, <2>3
    <3>2. \A t \in kept : CallsOf(t) \subseteq (1 .. n + m) \ made
      BY <2>1, <2>2
    <3> QED BY <1>1, <1>5, <2>1, <2>2, <3>1, <3>2 DEF TaskInv
  <2>4. CASE calls # <<>>
    <3>1. tasks' = kept \cup {task}
      BY <1>2, <1>5, <2>4
    <3>2. /\ task.next \in Nat /\ task.last \in Nat /\ task.next <= task.last
          /\ task = [next |-> task.next, last |-> task.last]
      BY <1>1, <1>3, <2>4
    <3>3. /\ CallsOf(task) \subseteq 1 .. n + m
          /\ CallsOf(task) \cap (1 .. n) = {} /\ CallsOf(task) \cap made = {}
      BY <1>1, <1>3, <2>1
    <3>4. \A t \in tasks' : CallsOf(t) \subseteq (1 .. n + m) \ made
      BY <2>1, <2>2, <3>1, <3>3
    <3>5. ASSUME NEW one \in tasks', NEW other \in tasks', one # other
          PROVE  CallsOf(one) \cap CallsOf(other) = {}
      <4>1. CASE one \in kept /\ other \in kept
        BY <3>5, <4>1 DEF TaskInv
      <4>2. CASE one = task
        <5>1. other \in kept
          BY <3>1, <3>5, <4>2
        <5> QED BY <2>2, <3>3, <4>2, <5>1
      <4>3. CASE other = task
        <5>1. one \in kept
          BY <3>1, <3>5, <4>3
        <5> QED BY <2>2, <3>3, <4>3, <5>1
      <4> QED BY <3>1, <4>1, <4>2, <4>3
    <3> HIDE DEF n, m
    <3>6. \A t \in tasks' : /\ t.next \in Nat /\ t.last \in Nat /\ t.next <= t.last
                            /\ t = [next |-> t.next, last |-> t.last]
      BY <2>2, <3>1, <3>2
    <3> QED BY <1>1, <1>5, <2>1, <3>4, <3>5, <3>6 DEF TaskInv, CallsOf
  <2> QED BY <2>3, <2>4
<1> QED BY <1>4, <1>5 DEF TaskInv

LEMMA RunsTasks ==
  ASSUME TaskInv, NEW task \in tasks, Runs(task)
  PROVE  TaskInv'
<1> DEFINE rest == [task EXCEPT !.next = task.next + 1]
<1>1. /\ made' = made \cup {task.next} /\ UNCHANGED <<async, dispatched>>
      /\ tasks' = (tasks \ {task}) \cup {next \in {rest} : task.next < task.last}
  BY DEF Runs, client
<1>2. async
  BY DEF TaskInv
<1>3. /\ task.next \in Nat /\ task.last \in Nat /\ task.next <= task.last
      /\ task = [next |-> task.next, last |-> task.last]
      /\ CallsOf(task) \subseteq 1 .. Len(dispatched) \ made /\ task.next \in CallsOf(task)
  BY DEF TaskInv, CallsOf
<1>4. /\ rest.next = task.next + 1 /\ rest.last = task.last
      /\ rest = [next |-> rest.next, last |-> rest.last]
  BY <1>3
<1> HIDE DEF rest
<1>5. CallsOf(rest) \subseteq CallsOf(task) /\ task.next \notin CallsOf(rest)
  BY <1>3, <1>4 DEF CallsOf
<1>6. ASSUME NEW t \in tasks'
      PROVE  (t \in tasks /\ t # task) \/ (t = rest /\ task.next < task.last)
  BY <1>1
<1>7. ASSUME NEW t \in tasks, t # task
      PROVE  CallsOf(t) \cap CallsOf(task) = {} /\ task.next \notin CallsOf(t)
  <2>1. CallsOf(t) \cap CallsOf(task) = {}
    BY <1>7 DEF TaskInv
  <2> QED BY <1>3, <2>1
<1>8. ASSUME NEW t \in tasks'
      PROVE  /\ t.next \in Nat /\ t.last \in Nat /\ t.next <= t.last
             /\ t = [next |-> t.next, last |-> t.last]
             /\ CallsOf(t) \subseteq 1 .. Len(dispatched) \ made'
  <2>1. CASE t \in tasks /\ t # task
    <3>1. /\ t.next \in Nat /\ t.last \in Nat /\ t.next <= t.last
          /\ t = [next |-> t.next, last |-> t.last]
          /\ CallsOf(t) \subseteq 1 .. Len(dispatched) \ made
      BY <2>1 DEF TaskInv
    <3> QED BY <1>1, <1>7, <2>1, <3>1
  <2>2. CASE t = rest /\ task.next < task.last
    <3>1. CallsOf(t) \subseteq 1 .. Len(dispatched) \ made'
      BY <1>1, <1>3, <1>5, <2>2
    <3> QED BY <1>3, <1>4, <2>2, <3>1
  <2> QED BY <1>6, <2>1, <2>2
<1>9. ASSUME NEW one \in tasks', NEW other \in tasks', one # other
      PROVE  CallsOf(one) \cap CallsOf(other) = {}
  <2>1. CASE one \in tasks /\ other \in tasks
    BY <1>9, <2>1 DEF TaskInv
  <2>2. CASE one = rest
    <3>1. other \in tasks /\ other # task
      BY <1>6, <1>9, <2>2
    <3> QED BY <1>5, <1>7, <2>2, <3>1
  <2>3. CASE other = rest
    <3>1. one \in tasks /\ one # task
      BY <1>6, <1>9, <2>3
    <3> QED BY <1>5, <1>7, <2>3, <3>1
  <2> QED BY <1>6, <2>1, <2>2, <2>3
<1>10. made' \subseteq 1 .. Len(dispatched)
  BY <1>1, <1>3 DEF TaskInv
<1> QED BY <1>1, <1>2, <1>8, <1>9, <1>10 DEF TaskInv, CallsOf

LEMMA TasksStep ==
  ASSUME ReadInv, TaskInv, [Next]_vars
  PROVE  TaskInv'
<1>1. ASSUME UNCHANGED <<async, callVars>> PROVE TaskInv'
  BY <1>1 DEF TaskInv, callVars, CallsOf
<1>2. CASE Receives
  <2>1. UNCHANGED callVars \/ Dispatches(Told, {})
    BY <1>2, Zenon DEF Receives, Fails
  <2>2. UNCHANGED async /\ {} \in SUBSET tasks
    BY <1>2 DEF Receives, client
  <2> QED BY <1>1, <2>1, <2>2, ToldIs, DispatchesTasks
<1>3. CASE Handles
  <2> DEFINE next == Assembled(part, Head(todo))
             more == CallsFor(next.packets, listens)
  <2>1. (next.ok /\ Dispatches(more, tasks)) \/ (~next.ok /\ Dispatches(Told, {}))
    BY <1>3, Zenon DEF Handles, Fails
  <2>2. next.ok => Sequence(more)
    BY AssembledIs DEF ReadInv
  <2> HIDE DEF next, more
  <2>3. UNCHANGED async /\ {} \in SUBSET tasks /\ tasks \in SUBSET tasks
    BY <1>3 DEF Handles, client
  <2> QED BY <2>1, <2>2, <2>3, ToldIs, DispatchesTasks
<1>4. CASE PeerSends \/ PeerPings \/ UNCHANGED vars
           \/ (Builds /\ UNCHANGED <<async, listens, left, readVars, sendVars>>)
  <2>1. UNCHANGED <<async, callVars>>
    BY <1>4 DEF PeerSends, PeerPings, vars, client, readVars
  <2> QED BY <1>1, <2>1
<1>5. ASSUME NEW s \in Senders, Begins(s) \/ Continues(s) \/ Abandons(s) PROVE TaskInv'
  <2>1. UNCHANGED <<async, callVars>>
    BY <1>5 DEF Begins, Continues, Abandons, client, readVars
  <2> QED BY <1>1, <2>1
<1>6. ASSUME NEW task \in tasks, Runs(task) PROVE TaskInv'
  BY <1>6, RunsTasks
<1> QED BY <1>2, <1>3, <1>4, <1>5, <1>6 DEF Next

(* Callbacks are called for what the peer sent, with its values and its     *)
(* attachment and each once, in its order as far as tasks do not change it, *)
(* up to the first frame or body that was spoilt, for any number of         *)
(* packets, however they are batched, whichever tasks have run and whenever *)
(* a stream ends (the transports' poll, Payload, handle_engineio_packet,    *)
(* the handlers, spawn_dispatch, abort_dispatch).                           *)
THEOREM CalledAsSentHolds == Spec => []CalledAsSent
<1>1. HandshakeInv => HandshakeTypeOK
  BY DEF HandshakeInv
<1>2. HandshakeInv /\ ReadInv /\ TaskInv /\ [Next]_vars => ReadInv' /\ TaskInv'
  BY <1>1, ReadStep, TasksStep
<1>3. ASSUME ReadInv, TaskInv PROVE CalledAsSent
  <2>1. \A i \in 1 .. Len(dispatched) : i <= Len(due) => dispatched[i] = due[i]
    BY <1>3, ReadSafe
  <2>2. spoilt \/ Len(dispatched) <= Len(due)
    BY <1>3, ReadSafe
  <2>3. Len(dispatched) \in Nat /\ Len(due) \in Nat
    BY <1>3, SequenceIs DEF ReadInv
  <2>4. made \subseteq 1 .. Len(dispatched)
    BY <1>3 DEF TaskInv
  <2>5. spoilt \/ \A i \in made : i <= Len(due)
    BY <2>2, <2>3, <2>4
  <2>6. async \/ made = 1 .. Len(dispatched)
    BY <1>3 DEF TaskInv
  <2>7. \A task \in tasks : made \cap (task.next .. task.last) = {}
    BY <1>3 DEF TaskInv, CallsOf
  <2> QED BY <2>1, <2>4, <2>5, <2>6, <2>7 DEF CalledAsSent
<1>4. ReadInv /\ TaskInv => CalledAsSent
  BY <1>3
<1> QED
  BY <1>2, <1>4, ReadInit, InitTasks, HandshakeInvariant, PTL DEF Spec

-----------------------------------------------------------------------------
(* A packet a transport can carry as text: any bytes in base64, or text of  *)
(* characters of C that is not empty where it is a message.                 *)
Carriable(e, C) ==
  \E id, data :
    /\ e = [id |-> id, data |-> data]
    /\ \/ id = "MessageBinary" /\ data \in Seq(DOMAIN Base64)
       \/ id \in EngineIds /\ data \in Seq(C) /\ (id = "Message" => data # <<>>)

(* Lemmas: each kind of packet has a byte of its own, and base64 is undone. *)
LEMMA BytesAreIds ==
  /\ EngineByte["MessageBinary"] = "b"
  /\ \A id \in EngineIds : /\ EngineByte[id] \in Types /\ EngineId(EngineByte[id]) = id
                           /\ EngineByte[id] = "4" => id = "Message"
<1>1. EngineByte["MessageBinary"] = "b"
  BY DEF EngineByte
<1>2. ASSUME NEW id \in EngineIds
      PROVE  /\ EngineByte[id] \in Types /\ EngineId(EngineByte[id]) = id
             /\ EngineByte[id] = "4" => id = "Message"
  <2>1. id # "MessageBinary" /\ id \in EngineIds \cup {"MessageBinary"}
    BY DEF EngineIds
  <2>2. EngineByte[id] = CHOOSE byte \in Types : EngineId(byte) = id
    BY <2>1 DEF EngineByte
  <2>3. \E byte \in Types : EngineId(byte) = id
    <3>1. /\ EngineId("0") = "Open" /\ EngineId("1") = "Close" /\ EngineId("2") = "Ping"
          /\ EngineId("3") = "Pong" /\ EngineId("4") = "Message" /\ EngineId("5") = "Upgrade"
          /\ EngineId("6") = "Noop"
      BY DEF EngineId
    <3> QED BY <3>1 DEF Types, EngineIds
  <2>4. EngineByte[id] \in Types /\ EngineId(EngineByte[id]) = id
    BY <2>2, <2>3, Zenon
  <2>5. EngineId("4") = "Message"
    BY DEF EngineId
  <2> QED BY <2>4, <2>5
<1> QED BY <1>1, <1>2

LEMMA Base64Undone ==
  ASSUME NEW data \in Seq(DOMAIN Base64)
  PROVE  LET text == ToBase64(data)
         IN /\ text \in Seq({"YQ", "NA", "Hg"}) /\ IsBase64(text)
            /\ FromBase64(text) = data
<1> DEFINE text == ToBase64(data)
<1>1. /\ DOMAIN Base64 = {"a", "4", RS} /\ Base64["a"] = "YQ" /\ Base64["4"] = "NA"
      /\ Base64[RS] = "Hg"
  BY DEF Base64, RS
<1>2. \A a, b \in DOMAIN Base64 : Base64[a] = Base64[b] => a = b
  BY <1>1
<1>3. Len(data) \in Nat /\ DOMAIN data = 1 .. Len(data)
      /\ \A i \in 1 .. Len(data) : data[i] \in DOMAIN Base64
  OBVIOUS
<1>4. text = [i \in 1 .. Len(data) |-> Base64[data[i]]] /\ DOMAIN text = 1 .. Len(data)
  BY <1>3 DEF ToBase64
<1>5. \A i \in 1 .. Len(data) : text[i] = Base64[data[i]] /\ text[i] \in {"YQ", "NA", "Hg"}
  BY <1>1, <1>3, <1>4
<1> HIDE DEF text
<1>6. text \in Seq({"YQ", "NA", "Hg"}) /\ Len(text) = Len(data)
  <2>1. text = [i \in 1 .. Len(data) |-> text[i]]
    BY <1>4, <1>5
  <2> QED BY ONLY <1>3, <1>4, <1>5, <2>1, IsSeq
<1>7. IsBase64(text)
  BY <1>3, <1>4, <1>5 DEF IsBase64
<1>8. ASSUME NEW i \in 1 .. Len(data)
      PROVE  (CHOOSE b \in DOMAIN Base64 : Base64[b] = text[i]) = data[i]
  <2>1. data[i] \in DOMAIN Base64 /\ Base64[data[i]] = text[i]
    BY <1>3, <1>5
  <2> DEFINE c == CHOOSE b \in DOMAIN Base64 : Base64[b] = text[i]
  <2>2. c \in DOMAIN Base64 /\ Base64[c] = text[i]
    BY <2>1, Zenon
  <2> HIDE DEF c
  <2>3. c = data[i]
    BY <1>2, <2>1, <2>2, Zenon
  <2> QED BY <2>3 DEF c
<1>9. FromBase64(text) = [i \in 1 .. Len(data) |-> data[i]]
  BY <1>4, <1>8, Zenon DEF FromBase64
<1>10. data = [i \in 1 .. Len(data) |-> data[i]]
  OBVIOUS
<1> QED BY <1>6, <1>7, <1>9, <1>10 DEF text

(* An Engine.IO packet is decoded to what was encoded, whatever its text or *)
(* bytes (From<Packet> for Bytes, TryFrom<Bytes> for Packet).               *)
THEOREM EngineRoundTrip ==
  ASSUME NEW C, NEW e, Carriable(e, C)
  PROVE  EngineDecodable(EngineEncode(e)) /\ EngineDecode(EngineEncode(e)) = e
<1>1. PICK id, data :
        /\ e = [id |-> id, data |-> data]
        /\ \/ id = "MessageBinary" /\ data \in Seq(DOMAIN Base64)
           \/ id \in EngineIds /\ data \in Seq(C) /\ (id = "Message" => data # <<>>)
  BY Zenon DEF Carriable
<1>2. e.id = id /\ e.data = data
  BY <1>1
<1>3. ASSUME NEW b, NEW text, Sequence(text)
      PROVE  /\ <<b>> \o text # <<>> /\ Head(<<b>> \o text) = b /\ Tail(<<b>> \o text) = text
             /\ Len(<<b>> \o text) = Len(text) + 1
  <2>1. PICK S : text \in Seq(S)
    BY <1>3, Zenon DEF Sequence
  <2>2. PICK U : U = S \cup {b}
    OBVIOUS
  <2>3. text \in Seq(U) /\ b \in U
    BY <2>1, <2>2
  <2> QED BY ONLY <2>3
<1>4. CASE id = "MessageBinary" /\ data \in Seq(DOMAIN Base64)
  <2> DEFINE text == ToBase64(data)
  <2>1. Sequence(text) /\ IsBase64(text) /\ FromBase64(text) = data
    BY <1>4, Base64Undone DEF Sequence
  <2>2. EngineEncode(e) = <<"b">> \o text
    BY <1>2, <1>4, BytesAreIds DEF EngineEncode
  <2> HIDE DEF text
  <2> DEFINE bytes == <<"b">> \o text
  <2>3. bytes # <<>> /\ Head(bytes) = "b" /\ Tail(bytes) = text
    BY <1>3, <2>1
  <2> HIDE DEF bytes
  <2>4. EngineDecodable(bytes) /\ EngineDecode(bytes) = [id |-> "MessageBinary", data |-> data]
    BY <2>1, <2>3, Zenon DEF EngineDecodable, EngineDecode
  <2> QED BY <1>1, <1>4, <2>2, <2>4 DEF bytes
<1>5. CASE id \in EngineIds /\ data \in Seq(C) /\ (id = "Message" => data # <<>>)
  <2> DEFINE byte == EngineByte[id]
  <2>1. byte \in Types /\ EngineId(byte) = id /\ (byte = "4" => id = "Message") /\ byte # "b"
        /\ id # "MessageBinary"
    BY <1>5, BytesAreIds DEF Types, EngineIds
  <2>2. EngineEncode(e) = <<byte>> \o data
    BY <1>2, <2>1 DEF EngineEncode
  <2>3. Sequence(data) /\ Len(data) \in Nat /\ (Len(data) = 0 => data = <<>>)
    BY <1>5, Zenon, SequenceIs DEF Sequence
  <2> HIDE DEF byte
  <2> DEFINE bytes == <<byte>> \o data
  <2>4. bytes # <<>> /\ Head(bytes) = byte /\ Tail(bytes) = data /\ Len(bytes) = Len(data) + 1
    BY <1>3, <2>3
  <2> HIDE DEF bytes
  <2>5. Len(bytes) = 1 => byte # "4"
    <3>1. Len(bytes) = 1 => data = <<>>
      <4>1. Len(bytes) = Len(data) + 1 /\ Len(data) \in Nat
        BY <2>3, <2>4, Zenon
      <4>2. \A m, n : n \in Nat /\ m = n + 1 /\ m = 1 => n = 0
        OBVIOUS
      <4>3. Len(bytes) = 1 => Len(data) = 0
        BY <4>1, <4>2, Zenon
      <4> QED BY <2>3, <4>3, Zenon
    <3> QED BY <1>5, <2>1, <3>1, Zenon
  <2>6. EngineDecodable(bytes) /\ EngineDecode(bytes) = [id |-> id, data |-> data]
    BY <2>1, <2>4, <2>5, Zenon DEF EngineDecodable, EngineDecode
  <2> QED BY <1>1, <2>2, <2>6 DEF bytes
<1> QED BY <1>1, <1>4, <1>5

(* A body made of Engine.IO packets is read back as these packets, any      *)
(* number of them: attachments of any bytes, the separator among them,      *)
(* which base64 hides, and texts without the separator (Payload, Packet).   *)
THEOREM BodyRoundTrip ==
  ASSUME NEW C, NEW es, Sequence(es), es # <<>>,
         \A i \in 1 .. Len(es) :
           /\ Carriable(es[i], C)
           /\ es[i].id # "MessageBinary" => RSFree(es[i].data)
  PROVE  LET packets == Split(Join([i \in DOMAIN es |-> EngineEncode(es[i])]))
         IN /\ \A i \in DOMAIN packets : EngineDecodable(packets[i])
            /\ [i \in DOMAIN packets |-> EngineDecode(packets[i])] = es
<1> DEFINE texts == [i \in DOMAIN es |-> EngineEncode(es[i])]
<1>1. Len(es) \in Nat /\ DOMAIN es = 1 .. Len(es) /\ Len(es) # 0
  BY SequenceIs
<1>2. PICK D : D = C \cup {"YQ", "NA", "Hg"} \cup {"b", RS} \cup Types
  OBVIOUS
<1>3. ASSUME NEW i \in 1 .. Len(es)
      PROVE  texts[i] = EngineEncode(es[i]) /\ texts[i] \in Seq(D) /\ RSFree(texts[i])
  <2>1. texts[i] = EngineEncode(es[i])
    BY <1>1
  <2>2. PICK id, data :
          /\ es[i] = [id |-> id, data |-> data]
          /\ \/ id = "MessageBinary" /\ data \in Seq(DOMAIN Base64)
             \/ id \in EngineIds /\ data \in Seq(C) /\ (id = "Message" => data # <<>>)
    BY Zenon DEF Carriable
  <2>3. es[i].id = id /\ es[i].data = data
    BY <2>2
  <2>4. ASSUME NEW byte \in {"b"} \cup Types, NEW text \in Seq(D), RSFree(text)
        PROVE  <<byte>> \o text \in Seq(D) /\ RSFree(<<byte>> \o text)
    <3>1. byte \in D /\ byte # RS
      BY <1>2 DEF Types, RS
    <3> DEFINE w == <<byte>> \o text
    <3>2. /\ w \in Seq(D) /\ Len(w) = Len(text) + 1 /\ w[1] = byte
          /\ \A k \in 1 .. Len(text) : w[k + 1] = text[k]
      BY ONLY <3>1, text \in Seq(D)
    <3> HIDE DEF w
    <3>3. DOMAIN w = 1 .. Len(w) /\ DOMAIN text = 1 .. Len(text) /\ Len(text) \in Nat
      BY <3>2
    <3>4. ASSUME NEW k \in DOMAIN w PROVE w[k] # RS
      <4>1. CASE k = 1
        BY <3>1, <3>2, <4>1
      <4>2. CASE k # 1
        <5>1. PICK j \in 1 .. Len(text) : k = j + 1
          <6>1. k - 1 \in 1 .. Len(text)
            BY <3>2, <3>3, <4>2
          <6> QED BY <3>2, <3>3, <6>1
        <5>2. text[j] # RS /\ w[j + 1] = text[j]
          BY <2>4, <3>2, <3>3 DEF RSFree
        <5> QED BY <5>1, <5>2, Zenon
      <4> QED BY <4>1, <4>2
    <3> QED BY <3>2, <3>4 DEF RSFree, w
  <2>5. CASE id = "MessageBinary" /\ data \in Seq(DOMAIN Base64)
    <3> DEFINE text == ToBase64(data)
    <3>1. text \in Seq({"YQ", "NA", "Hg"})
      BY <2>5, Base64Undone
    <3>2. EngineEncode(es[i]) = <<"b">> \o text
      BY <2>3, <2>5, BytesAreIds DEF EngineEncode
    <3> HIDE DEF text
    <3>3. text \in Seq(D) /\ RSFree(text)
      BY <1>2, <3>1 DEF RSFree, RS
    <3> QED BY <2>1, <2>4, <3>2, <3>3
  <2>6. CASE id \in EngineIds /\ data \in Seq(C) /\ (id = "Message" => data # <<>>)
    <3>1. EngineByte[id] \in Types /\ id # "MessageBinary"
      BY <2>6, BytesAreIds DEF EngineIds
    <3>2. EngineEncode(es[i]) = <<EngineByte[id]>> \o data
      BY <2>3, <3>1 DEF EngineEncode
    <3>3. data \in Seq(D) /\ RSFree(data)
      BY <1>2, <2>3, <2>6, <3>1
    <3> QED BY <2>1, <2>4, <3>1, <3>2, <3>3
  <2> QED BY <2>2, <2>5, <2>6
<1>4. texts = [i \in 1 .. Len(es) |-> texts[i]] /\ DOMAIN texts = 1 .. Len(es)
  BY <1>1
<1> HIDE DEF texts
<1>5. texts \in Seq(Seq(D)) /\ Len(texts) = Len(es) /\ texts # <<>>
  <2>1. PICK P : P = Seq(D)
    OBVIOUS
  <2>2. \A i \in 1 .. Len(es) : texts[i] \in P
    BY <1>3, <2>1
  <2>3. texts \in Seq(P) /\ Len(texts) = Len(es)
    BY ONLY Len(es) \in Nat, <1>1, <1>4, <2>2, IsSeq
  <2>4. texts # <<>>
    BY <1>1, <2>3
  <2> QED BY <2>1, <2>3, <2>4, Zenon
<1>6. Split(Join(texts)) = texts
  <2>1. RS \in D /\ \A i \in 1 .. Len(texts) : RSFree(texts[i])
    BY <1>2, <1>3, <1>5
  <2> QED BY ONLY <1>5, <2>1, PayloadRoundTrip
<1>7. ASSUME NEW i \in 1 .. Len(es)
      PROVE  EngineDecodable(texts[i]) /\ EngineDecode(texts[i]) = es[i]
  BY <1>3, EngineRoundTrip, Zenon
<1>8. [i \in DOMAIN texts |-> EngineDecode(texts[i])] = es
  <2> DEFINE back == [i \in DOMAIN texts |-> EngineDecode(texts[i])]
  <2>1. back = [i \in 1 .. Len(es) |-> es[i]]
    BY <1>4, <1>7
  <2>2. es = [i \in 1 .. Len(es) |-> es[i]]
    <3>1. PICK S : es \in Seq(S)
      BY Zenon DEF Sequence
    <3> QED BY ONLY <3>1
  <2> QED BY <2>1, <2>2, Zenon
<1> DEFINE packets == Split(Join(texts))
<1>9. packets = texts
  BY <1>6
<1> HIDE DEF packets
<1>10. \A i \in DOMAIN packets : EngineDecodable(packets[i])
  BY <1>4, <1>7, <1>9
<1>11. [i \in DOMAIN packets |-> EngineDecode(packets[i])] = es
  BY <1>8, <1>9
<1> QED BY <1>10, <1>11 DEF packets, texts

(* Lemma: three sequences in one.                                           *)
LEMMA PartsOf ==
  ASSUME NEW a, NEW b, NEW c, Sequence(a), Sequence(b), Sequence(c)
  PROVE  LET t == a \o b \o c
             k == Len(a)
             m == Len(b)
             n == Len(c)
         IN /\ Sequence(t) /\ Len(t) = k + m + n
            /\ \A i \in 1 .. k : t[i] = a[i]
            /\ \A i \in 1 .. m : t[k + i] = b[i]
            /\ \A i \in 1 .. n : t[k + m + i] = c[i]
            /\ SubSeq(t, k + 1, k + m) = b
            /\ SubSeq(t, k + m + 1, k + m + n) = c
<1>1. PICK t : t = a \o b \o c
  OBVIOUS
<1>2. Len(a) \in Nat /\ Len(b) \in Nat /\ Len(c) \in Nat
  BY SequenceIs
<1>3. PICK k \in Nat : k = Len(a)
  BY <1>2
<1>4. PICK m \in Nat : m = Len(b)
  BY <1>2
<1>5. PICK n \in Nat : n = Len(c)
  BY <1>2
<1>6. PICK front : front = a \o b
  OBVIOUS
<1>7. /\ Sequence(front) /\ Len(front) = k + m
      /\ \A i \in 1 .. k : front[i] = a[i]
      /\ \A i \in 1 .. m : front[k + i] = b[i]
  <2>1. /\ Sequence(a \o b) /\ Len(a \o b) = k + m
        /\ \A i \in 1 .. k : (a \o b)[i] = a[i]
        /\ \A i \in 1 .. m : (a \o b)[k + i] = b[i]
    <3>1. k = Len(a) /\ m = Len(b)
      BY <1>3, <1>4
    <3>2. /\ Sequence(a \o b) /\ Len(a \o b) = Len(a) + Len(b)
          /\ \A i \in 1 .. Len(a) : (a \o b)[i] = a[i]
          /\ \A i \in 1 .. Len(b) : (a \o b)[Len(a) + i] = b[i]
      BY SequenceConcat
    <3> QED BY <3>1, <3>2, Zenon
  <2> QED BY <1>6, <2>1, Zenon
<1>8. t = front \o c
  BY <1>6, <1>1, Zenon
<1>9. PICK l \in Nat : l = k + m
  OBVIOUS
<1>10. /\ Sequence(t) /\ Len(t) = l + n
       /\ \A i \in 1 .. l : t[i] = front[i]
       /\ \A i \in 1 .. n : t[l + i] = c[i]
  <2>1. Sequence(c) /\ Len(front) = l /\ Len(c) = n
    BY <1>7, <1>9, <1>5
  <2>2. /\ Sequence(front \o c) /\ Len(front \o c) = Len(front) + Len(c)
        /\ \A i \in 1 .. Len(front) : (front \o c)[i] = front[i]
        /\ \A i \in 1 .. Len(c) : (front \o c)[Len(front) + i] = c[i]
    <3>1. Sequence(front) /\ Sequence(c)
      BY <1>7
    <3> QED BY ONLY <3>1, SequenceConcat
  <2> QED BY <1>8, <2>1, <2>2, Zenon
<1>11. /\ \A i \in 1 .. k : t[i] = a[i]
       /\ \A i \in 1 .. m : t[k + i] = b[i]
  <2>1. \A i \in 1 .. k : i \in 1 .. l
    BY ONLY <1>9, k \in Nat, m \in Nat
  <2>2. \A i \in 1 .. m : k + i \in 1 .. l
    BY ONLY <1>9, k \in Nat, m \in Nat
  <2> QED BY <1>7, <1>10, <2>1, <2>2, Zenon
<1>12. PICK D : t \in Seq(D) /\ front \in Seq(D) /\ b \in Seq(D) /\ c \in Seq(D)
  <2>1. PICK T : t \in Seq(T)
    BY <1>10, Zenon DEF Sequence
  <2>2. PICK S : front \in Seq(S)
    BY <1>7, Zenon DEF Sequence
  <2>3. PICK B : b \in Seq(B)
    BY Zenon DEF Sequence
  <2>4. PICK C : c \in Seq(C)
    BY Zenon DEF Sequence
  <2>5. PICK D : D = T \cup S \cup B \cup C
    OBVIOUS
  <2>6. t \in Seq(D) /\ front \in Seq(D) /\ b \in Seq(D) /\ c \in Seq(D)
    BY ONLY <2>1, <2>2, <2>3, <2>4, <2>5
  <2> QED BY <2>6, Zenon
<1>13. PICK q \in Nat : q = l + n
  BY <1>9
<1>14. SubSeq(t, l + 1, q) = c
  <2>1. q = Len(t) /\ q = l + Len(c)
    BY <1>10, <1>13, <1>5
  <2>2. \A i \in 1 .. Len(c) : t[l + i] = c[i]
    <3>1. 1 .. n = 1 .. Len(c)
      BY <1>5, Zenon
    <3>2. \A i \in 1 .. n : t[l + i] = c[i]
      BY <1>10, Zenon
    <3> QED BY <3>1, <3>2, Zenon
  <2> QED BY ONLY <1>9, <1>12, <1>13, <2>1, <2>2, SubSeqRest
<1>15. SubSeq(front, k + 1, l) = b
  <2>1. l = Len(front) /\ l = k + Len(b)
    BY <1>7, <1>9, <1>4
  <2>2. \A i \in 1 .. Len(b) : front[k + i] = b[i]
    BY <1>7, <1>4
  <2> QED BY ONLY <1>9, <1>12, <2>1, <2>2, k \in Nat, SubSeqRest
<1>16. SubSeq(t, k + 1, l) = SubSeq(front, k + 1, l)
  <2>1. Len(front) = l /\ Len(front) <= Len(t)
    BY ONLY <1>7, <1>9, <1>10, n \in Nat
  <2>2. k + 1 \in 1 .. l + 1 /\ l \in -1 .. l
    BY ONLY <1>9, k \in Nat, m \in Nat
  <2> QED BY <1>10, <1>12, <2>1, <2>2, SubSeqSame
<1>17. /\ Sequence(t) /\ Len(t) = k + m + n
       /\ \A i \in 1 .. k : t[i] = a[i]
       /\ \A i \in 1 .. m : t[k + i] = b[i]
       /\ \A i \in 1 .. n : t[k + m + i] = c[i]
       /\ SubSeq(t, k + 1, k + m) = b
       /\ SubSeq(t, k + m + 1, k + m + n) = c
  <2>1. q = k + m + n /\ l = k + m
    BY <1>9, <1>13, Zenon
  <2>2. SubSeq(t, k + 1, k + m) = b /\ SubSeq(t, k + m + 1, k + m + n) = c
    BY <1>14, <1>15, <1>16, <2>1, Zenon
  <2>3. Sequence(t) /\ Len(t) = k + m + n
    BY <1>10, <2>1, Zenon
  <2>4. \A i \in 1 .. n : t[k + m + i] = c[i]
    BY <1>10, <2>1, Zenon
  <2> QED BY <1>11, <2>2, <2>3, <2>4, Zenon
<1> QED BY <1>1, <1>3, <1>4, <1>5, <1>17, Zenon

(* Lemma: where the JSON part begins.                                       *)
LEMMA JsonBegins ==
  ASSUME NEW text, IdAt(text) \in Nat, Len(text) \in Nat,
         NEW j \in Nat, IdAt(text) <= j, j <= Len(text) + 1,
         \A i \in IdAt(text) .. j - 1 : text[i] \in Digits,
         j <= Len(text) => text[j] \notin Digits
  PROVE  JsonAt(text) = IF j <= Len(text) THEN j ELSE 0
<1> DEFINE others == {i \in IdAt(text) .. Len(text) : text[i] \notin Digits}
<1>1. JsonAt(text) = IF others # {} THEN Min(others) ELSE 0
  BY DEF JsonAt, SelectInSubSeq
<1>2. CASE j <= Len(text)
  <2>1. j \in others /\ \A i \in others : i \in Int /\ j <= i
    BY <1>2
  <2> HIDE DEF others
  <2> DEFINE least == Min(others)
  <2>2. least \in others /\ \A i \in others : least <= i
    BY <2>1 DEF Min
  <2> HIDE DEF least
  <2>3. least = j
    BY ONLY <2>1, <2>2, j \in Nat
  <2> QED BY <1>1, <1>2, <2>1, <2>3, Zenon DEF least
<1>3. CASE ~(j <= Len(text))
  <2>1. others = {}
    BY <1>3
  <2> QED BY <1>1, <1>3, <2>1
<1> QED BY <1>2, <1>3

(* Lemmas: a sequence of two; what a text is put together from.             *)
LEMMA SequenceTwo ==
  ASSUME NEW y, NEW z
  PROVE  Sequence(<<y, z>>) /\ Len(<<y, z>>) = 2 /\ <<y, z>>[1] = y /\ <<y, z>>[2] = z
<1>1. PICK S : S = {y, z}
  OBVIOUS
<1>2. y \in S /\ z \in S
  BY <1>1
<1>3. <<y, z>> \in Seq(S) /\ Len(<<y, z>>) = 2 /\ <<y, z>>[1] = y /\ <<y, z>>[2] = z
  BY ONLY <1>2
<1> QED BY <1>3, Zenon DEF Sequence

LEMMA EncodeIs ==
  ASSUME NEW p, p.type \notin Binary, p.atts = <<>>
  PROVE  Encode(p) = (<<p.type>> \o (IF p.nsp # "/" THEN <<p.nsp, ",">> ELSE <<>>)) \o p.id \o p.data
<1>1. EncodeBody(p) = p.data
  BY DEF EncodeBody
<1>2. Encode(p) = <<p.type>> \o <<>> \o (IF p.nsp # "/" THEN <<p.nsp, ",">> ELSE <<>>) \o p.id \o p.data
  BY <1>1, Zenon DEF Encode
<1>3. <<p.type>> \o <<>> = <<p.type>>
  BY SequenceConcat, SequenceOne, SequenceEmpty
<1> QED BY <1>2, <1>3, Zenon

(* A Socket.IO packet without attachments is decoded to what was encoded,   *)
(* with any id and any JSON, in either namespace; an id needs data behind   *)
(* it (From<&Packet> for Bytes, TryFrom<&Bytes> for Packet).                *)
THEOREM PacketRoundTrip ==
  ASSUME NEW C, NEW type \in Types \ Binary, NEW nsp \in {"/"} \cup Namespaces,
         NEW id \in Seq(Digits), NEW data \in Seq(C),
         data = <<>> => id = <<>>,
         data # <<>> => IsJson(data) /\ Head(data) \notin Digits \cup Namespaces
  PROVE  LET p == [type |-> type, nsp |-> nsp, data |-> data, id |-> id,
                   count |-> 0, atts |-> <<>>]
         IN Decodable(Encode(p)) /\ Decode(Encode(p)) = p
<1>1. PICK pre : pre = <<type>> \o (IF nsp # "/" THEN <<nsp, ",">> ELSE <<>>)
  OBVIOUS
<1>2. PICK k \in Nat : k = IF nsp = "/" THEN 1 ELSE 3
  OBVIOUS
<1> DEFINE p == [type |-> type, nsp |-> nsp, data |-> data, id |-> id,
                 count |-> 0, atts |-> <<>>]
<1>3. PICK text : text = pre \o id \o data
  OBVIOUS
<1>4. Sequence(pre) /\ Len(pre) = k /\ pre[1] = type /\ (k = 3 => pre[2] = nsp /\ pre[3] = ",")
  <2>1. PICK h : h = <<type>>
    OBVIOUS
  <2>2. Sequence(h) /\ Len(h) = 1 /\ h[1] = type
    BY <2>1, SequenceOne, Zenon
  <2>3. CASE nsp = "/"
    <3>1. pre = h \o <<>> /\ k = 1
      BY <1>1, <1>2, <2>1, <2>3
    <3>2. h \o <<>> = h
      BY ONLY <2>2, SequenceConcat, SequenceEmpty
    <3> QED BY <2>2, <3>1, <3>2
  <2>4. CASE nsp # "/"
    <3>1. PICK g : g = <<nsp, ",">>
      OBVIOUS
    <3>2. Sequence(g) /\ Len(g) = 2 /\ g[1] = nsp /\ g[2] = ","
      BY <3>1, SequenceTwo, Zenon
    <3>3. pre = h \o g /\ k = 3
      BY <1>1, <1>2, <2>1, <2>4, <3>1
    <3>4. /\ Sequence(h \o g) /\ Len(h \o g) = Len(h) + Len(g)
          /\ \A i \in 1 .. Len(h) : (h \o g)[i] = h[i]
          /\ \A i \in 1 .. Len(g) : (h \o g)[Len(h) + i] = g[i]
      <4>1. Sequence(h) /\ Sequence(g)
        BY <2>2, <3>2
      <4> QED BY ONLY <4>1, SequenceConcat
    <3>5. /\ Sequence(pre) /\ Len(pre) = Len(h) + Len(g)
          /\ \A i \in 1 .. Len(h) : pre[i] = h[i]
          /\ \A i \in 1 .. Len(g) : pre[Len(h) + i] = g[i]
      BY <3>3, <3>4, Zenon
    <3>6. Len(h) = 1 /\ Len(g) = 2
      BY <2>2, <3>2, Zenon
    <3>7. 1 \in 1 .. Len(h) /\ 1 \in 1 .. Len(g) /\ 2 \in 1 .. Len(g)
      BY ONLY <3>6
    <3>8. Len(h) + Len(g) = 3 /\ Len(h) + 1 = 2 /\ Len(h) + 2 = 3
      BY ONLY <3>6
    <3> QED BY <2>2, <3>2, <3>3, <3>5, <3>7, <3>8, Zenon
  <2> QED BY <2>3, <2>4
<1>5. PICK m \in Nat : m = Len(id)
  OBVIOUS
<1>6. PICK n \in Nat : n = Len(data)
  OBVIOUS
<1>7. /\ Sequence(id) /\ Sequence(data) /\ (data = <<>> <=> n = 0)
      /\ \A i \in 1 .. m : id[i] \in Digits
  <2>1. Sequence(id) /\ Sequence(data)
    BY Zenon DEF Sequence
  <2>2. data = <<>> <=> n = 0
    BY <1>6
  <2>3. \A i \in 1 .. m : id[i] \in Digits
    BY <1>5
  <2> QED BY <2>1, <2>2, <2>3
<1>8. /\ Sequence(text) /\ Len(text) = k + m + n
      /\ \A i \in 1 .. k : text[i] = pre[i]
      /\ \A i \in 1 .. m : text[k + i] = id[i]
      /\ \A i \in 1 .. n : text[k + m + i] = data[i]
      /\ SubSeq(text, k + 1, k + m) = id
      /\ SubSeq(text, k + m + 1, k + m + n) = data
  <2>1. k = Len(pre) /\ Sequence(pre) /\ Sequence(id) /\ Sequence(data)
    BY <1>4, <1>7
  <2>2. LET t == pre \o id \o data
        IN /\ Sequence(t) /\ Len(t) = Len(pre) + Len(id) + Len(data)
           /\ \A i \in 1 .. Len(pre) : t[i] = pre[i]
           /\ \A i \in 1 .. Len(id) : t[Len(pre) + i] = id[i]
           /\ \A i \in 1 .. Len(data) : t[Len(pre) + Len(id) + i] = data[i]
           /\ SubSeq(t, Len(pre) + 1, Len(pre) + Len(id)) = id
           /\ SubSeq(t, Len(pre) + Len(id) + 1, Len(pre) + Len(id) + Len(data)) = data
    <3>1. Sequence(pre) /\ Sequence(id) /\ Sequence(data)
      BY <2>1
    <3> QED BY ONLY <3>1, PartsOf
  <2> QED BY <1>3, <1>5, <1>6, <2>1, <2>2, Zenon
<1>9. PICK len \in Nat : len = Len(text) /\ len = k + m + n
  BY <1>8
<1>10. /\ k = 1 \/ k = 3
       /\ 1 <= len /\ (k = 3 => 2 < len) /\ len # 0
  BY <1>2, <1>9
<1>11. PICK j \in Nat : j = k + m + 1
  OBVIOUS
<1>12. text # <<>> /\ Head(text) = type /\ text[1] = type
  <2>1. text # <<>>
    BY <1>8, <1>9, <1>10, SequenceEmpty
  <2>2. Head(text) = text[1]
    BY <1>8, <2>1, SequenceTail
  <2>3. 1 \in 1 .. k
    BY <1>2
  <2> QED BY <1>4, <1>8, <2>1, <2>2, <2>3, Zenon
<1>13. k = 3 => text[2] = nsp /\ text[3] = "," /\ nsp \in Namespaces
  <2>1. k = 3 => 2 \in 1 .. k /\ 3 \in 1 .. k
    OBVIOUS
  <2>2. k = 3 => nsp \in Namespaces
    BY <1>2
  <2> QED BY <1>4, <1>8, <2>1, <2>2, Zenon
<1>14. ASSUME NEW i \in k + 1 .. j - 1 PROVE text[i] \in Digits
  <2>1. PICK h \in 1 .. m : i = k + h
    <3>1. i - k \in 1 .. m /\ i = k + (i - k)
      BY <1>11
    <3> QED BY <3>1, Zenon
  <2> QED BY <1>7, <1>8, <2>1, Zenon
<1>15. (j <= len <=> data # <<>>) /\ j <= len + 1
  BY ONLY <1>7, <1>9, <1>11, k \in Nat, m \in Nat, n \in Nat
<1>16. j <= len => text[j] \notin Digits \cup Namespaces
  <2> SUFFICES ASSUME data # <<>> PROVE text[j] \notin Digits \cup Namespaces
    BY <1>15
  <2>1. Head(data) = data[1] /\ 1 \in 1 .. n
    <3>1. Head(data) = data[1]
      BY <1>7, SequenceTail
    <3>2. 1 \in 1 .. n
      BY ONLY data # <<>>, <1>7, n \in Nat
    <3> QED BY <3>1, <3>2
  <2>2. text[j] = data[1]
    BY <1>8, <1>11, <2>1, Zenon
  <2> QED BY <2>1, <2>2
<1>17. NspAt(text) = 2 /\ Head(text) \notin Binary
  BY <1>12 DEF NspAt
<1>18. IdAt(text) = k + 1
  <2>1. CASE k = 3
    <3>1. 2 <= len /\ text[2] \in Namespaces
      <4>1. 2 < len
        BY <1>10, <2>1
      <4>2. text[2] \in Namespaces
        BY <1>13, <2>1, Zenon
      <4> QED BY <4>1, <4>2
    <3> QED BY <1>9, <1>17, <2>1, <3>1 DEF IdAt
  <2>2. CASE k = 1
    <3>1. 2 <= len => text[2] \notin Namespaces
      <4>1. CASE m = 0
        BY <1>11, <1>16, <2>2, <4>1
      <4>2. CASE m # 0
        <5>1. 2 \in k + 1 .. j - 1
          BY <1>11, <2>2, <4>2
        <5>2. text[2] \in Digits
          BY <1>14, <5>1
        <5> QED BY <5>2 DEF Digits, Namespaces
      <4> QED BY <4>1, <4>2
    <3> QED BY <1>9, <1>17, <2>2, <3>1 DEF IdAt
  <2> QED BY <1>2, <2>1, <2>2
<1>19. JsonAt(text) = IF data # <<>> THEN j ELSE 0
  <2>1. k + 1 \in Nat /\ k + 1 <= j
    BY <1>11
  <2>2. JsonAt(text) = IF j <= Len(text) THEN j ELSE 0
    BY <1>9, <1>14, <1>15, <1>16, <1>18, <2>1, JsonBegins
  <2> QED BY <1>9, <1>15, <2>2, Zenon
<1>20. Decodable(text)
  <2>1. IdAt(text) > NspAt(text) => NspAt(text) < Len(text) /\ text[NspAt(text) + 1] = ","
    <3>1. IdAt(text) > NspAt(text) => k = 3
      BY <1>17, <1>18, <1>10
    <3>2. k = 3 => 2 < Len(text) /\ text[2 + 1] = ","
      <4>1. 2 + 1 = 3
        OBVIOUS
      <4> QED BY <1>9, <1>13, <1>10, <4>1, Zenon
    <3> QED BY <1>17, <3>1, <3>2, Zenon
  <2>2. JsonAt(text) > 0 => IsJson(SubSeq(text, JsonAt(text), Len(text)))
    <3>1. JsonAt(text) > 0 => data # <<>>
      BY <1>19
    <3>2. data # <<>> => SubSeq(text, JsonAt(text), Len(text)) = data
      BY <1>8, <1>11, <1>19, Zenon
    <3> QED BY <3>1, <3>2
  <2> QED BY <1>12, <1>17, <2>1, <2>2, Zenon DEF Decodable
<1>21. Decode(text) = [type |-> type, nsp |-> nsp, data |-> data, id |-> id,
                       count |-> 0, atts |-> <<>>]
  <2>1. (IF IdAt(text) > NspAt(text) THEN text[NspAt(text)] ELSE "/") = nsp
    <3>1. CASE k = 3
      <4>1. IdAt(text) > NspAt(text)
        BY <1>17, <1>18, <3>1
      <4> QED BY <1>13, <1>17, <3>1, <4>1, Zenon
    <3>2. CASE k = 1
      <4>1. ~(IdAt(text) > NspAt(text)) /\ nsp = "/"
        BY <1>2, <1>17, <1>18, <3>2
      <4> QED BY <4>1, Zenon
    <3> QED BY <1>10, <3>1, <3>2
  <2>2. JsonAt(text) = 0 <=> data = <<>>
    BY <1>11, <1>19
  <2>3. (IF JsonAt(text) = 0 THEN <<>> ELSE SubSeq(text, IdAt(text), JsonAt(text) - 1)) = id
    <3>1. j - 1 = k + m
      BY <1>11
    <3> QED BY <1>8, <1>18, <1>19, <2>2, <3>1, Zenon
  <2>4. (IF JsonAt(text) = 0 THEN <<>> ELSE SubSeq(text, JsonAt(text), Len(text))) = data
    BY <1>8, <1>11, <1>19, <2>2, Zenon
  <2>5. (IF Head(text) \in Binary THEN Number(text[2]) ELSE 0) = 0
    BY <1>17
  <2> QED BY <1>12, <1>17, <2>1, <2>3, <2>4, <2>5 DEF Decode
<1>22. Encode(p) = text
  <2>1. type \notin Binary
    OBVIOUS
  <2>2. p.type = type /\ p.nsp = nsp /\ p.id = id /\ p.data = data /\ p.atts = <<>>
    OBVIOUS
  <2> HIDE DEF p
  <2>3. Encode(p) = (<<p.type>> \o (IF p.nsp # "/" THEN <<p.nsp, ",">> ELSE <<>>)) \o p.id \o p.data
    BY <2>1, <2>2, EncodeIs
  <2> QED BY <1>1, <1>3, <2>2, <2>3, Zenon
<1>23. Decode(text) = p
  BY <1>21
<1> HIDE DEF p
<1>24. Decodable(Encode(p)) /\ Decode(Encode(p)) = p
  BY <1>20, <1>22, <1>23, Zenon
<1> QED BY <1>24 DEF p
=============================================================================
