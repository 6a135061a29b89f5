----------------------------- MODULE Handshake -----------------------------
(***************************************************************************)
(* How an Engine.IO client gets its transport (engineio/src/client/        *)
(* client.rs and asynchronous/client/builder.rs, which take the same       *)
(* steps): a handshake over polling or websocket, the offer of an upgrade, *)
(* the websocket with its probe, and the fallback to polling. Every        *)
(* request may fail before or after the server acted on it, and the server *)
(* knows a session only by the URL a request names it in.                  *)
(*                                                                         *)
(* An operator named Action_Fault is Action with the fault the suffix      *)
(* names; no specification uses one.                                       *)
(***************************************************************************)
EXTENDS Naturals

(* TransportType of the Socket.IO builders: which build function is called. *)
Modes == {"Any", "Polling", "Websocket", "WebsocketUpgrade"}

(* A builder and, for build_with_fallback, the clone it tries first: each   *)
(* makes at most one handshake.                                             *)
Sids == 1 .. 2

(* The URL a builder works on: query pairs other than the sid, host and     *)
(* user-given query are left out. A builder that was used up has none.      *)
Schemes == {"http", "https", "ws", "wss", "other"}
Urls == [scheme : Schemes, path : {"/", "default", "own"}, sid : {0} \cup Sids]
NoUrl == [scheme |-> "none", path |-> "none", sid |-> 0]

VARIABLES
  mode,    \* the build function the application asked for
  step,    \* where the build is
  clone,   \* is this the clone build_with_fallback tries first?
  sid,     \* session of the builder's handshake, 0 without one
  url,     \* the builder's URL
  base,    \* base_url of the transport: the session and transport it names
  offered, \* does the handshake list the websocket among its upgrades?
  carrier, \* transport under construction
  serves   \* what the server reads of each session: "none", "polling", "websocket"

buildVars == <<mode, step, clone, sid, url, base, offered, carrier, serves>>

Transports == {"polling", "websocket"}

HandshakeTypeOK ==
  /\ mode \in Modes
  /\ step \in {"handshake", "offer", "dial", "probe", "pong", "built", "failed"}
  /\ clone \in BOOLEAN /\ offered \in BOOLEAN
  /\ sid \in {0} \cup Sids /\ carrier \in Transports
  /\ url \in Urls \cup {NoUrl}
  /\ base \in [sid : {0} \cup Sids, transport : Transports \cup {"none"}]
  /\ serves \in [Sids -> Transports \cup {"none"}]

(* ClientBuilder::new: a path is given to a URL without one (connect_raw    *)
(* and inner_create of Socket.IO have given it theirs before).              *)
NewUrl(given) == IF given.path = "/" THEN [given EXCEPT !.path = "default"] ELSE given

(* The base URLs of the transports, made of the builder's: the websocket    *)
(* ones replace the scheme, too. A clone of the builder has no session.     *)
PollingUrl(u) == [sid |-> u.sid, transport |-> "polling"]
WebsocketUrl(u) == [sid |-> u.sid, transport |-> "websocket"]
SecureUrl(u) == WebsocketUrl(u)
NoBase == [sid |-> 0, transport |-> "none"]

(* The HTTP client takes http and https only, build_websocket the four      *)
(* schemes it knows.                                                        *)
Requestable(u) == u.scheme \in {"http", "https"}
Dialled(u) ==
  CASE u.scheme \in {"http", "ws"} -> {WebsocketUrl(u)}
    [] u.scheme \in {"https", "wss"} -> {SecureUrl(u)}
    [] OTHER -> {}

HandshakeInit ==
  /\ \E given \in [scheme : Schemes, path : {"/", "own"}, sid : {0}] : url = NewUrl(given)
  /\ base = NoBase
  /\ mode \in Modes
  /\ step = IF mode = "Websocket" THEN "dial" ELSE "handshake"
  /\ clone = (mode = "Any")
  /\ sid = 0 /\ offered = FALSE
  /\ carrier = IF mode = "Websocket" THEN "websocket" ELSE "polling"
  /\ serves = [s \in Sids |-> "none"]

(* A session the server knows nothing of yet. One opened for a client that  *)
(* never saw the answer is passed over.                                     *)
FreshSid == IF serves[1] = "none" THEN 1 ELSE 2

(* What the server makes of a request that names no session, and of the     *)
(* Upgrade packet on a websocket whose URL names one.                       *)
Opened(address) == [serves EXCEPT ![FreshSid] = address.transport]
Turned(address) == [serves EXCEPT ![address.sid] = address.transport]

(* The fallback keeps what the clone learned in its handshake.              *)
BuildFails_KeepsHandshake ==
  /\ base' = NoBase
  /\ \/ /\ clone /\ step' = "offer" /\ clone' = FALSE
        /\ carrier' = "polling" /\ offered' = FALSE /\ UNCHANGED <<sid, url>>
     \/ ~clone /\ step' = "failed" /\ url' = NoUrl /\ UNCHANGED <<clone, sid, offered, carrier>>

(* An error of the build: the clone's is suppressed, and build_polling is   *)
(* called on the builder, which has no handshake and no sid in its URL.     *)
BuildFails ==
  /\ base' = NoBase
  /\ \/ /\ clone /\ step' = "handshake" /\ clone' = FALSE
        /\ sid' = 0 /\ url' = [url EXCEPT !.sid = 0]
        /\ offered' = FALSE /\ carrier' = "polling"
     \/ ~clone /\ step' = "failed" /\ url' = NoUrl /\ UNCHANGED <<clone, sid, offered, carrier>>

(* The builder is used up by a build that succeeds.                         *)
Finishes == step' = "built" /\ url' = NoUrl /\ clone' = FALSE /\ offered' = FALSE

(* handshake(): the first message of a polling transport is the Open packet *)
(* of a new session, whose sid goes into the builder's URL; without one the *)
(* build fails, and the server may have opened a session nevertheless.      *)
HandshakesPolling ==
  /\ step = "handshake" /\ carrier = "polling"
  /\ \/ /\ Requestable(url)
        /\ sid' = FreshSid /\ serves' = Opened(PollingUrl(url))
        /\ url' = [url EXCEPT !.sid = FreshSid]
        /\ offered' \in BOOLEAN /\ step' = "offer"
        /\ UNCHANGED <<clone, carrier, base>>
     \/ /\ \/ UNCHANGED serves
           \/ Requestable(url) /\ serves' = Opened(PollingUrl(url))
        /\ BuildFails
  /\ UNCHANGED mode

(* handshake_with_transport() over the websocket that was dialled without a *)
(* session: the sid does not propagate to the transport.                    *)
HandshakesWebsocket ==
  /\ step = "handshake" /\ carrier = "websocket"
  /\ \/ /\ sid' = FreshSid /\ serves' = Opened(base)
        /\ Finishes /\ UNCHANGED <<carrier, base>>
     \/ /\ UNCHANGED serves \/ serves' = Opened(base)
        /\ BuildFails
  /\ UNCHANGED mode

(* websocket_upgrade()                                                      *)
Upgradable == sid # 0 /\ offered

(* build(): an upgrade that is offered is taken. build_polling() does not   *)
(* ask, and the fallback is build_polling(), with a new transport over the  *)
(* URL that has the sid; build_websocket_with_upgrade() fails without an    *)
(* offer.                                                                   *)
Decides ==
  /\ step = "offer"
  /\ \/ /\ Upgradable /\ mode # "Polling" /\ (mode = "Any" => clone)
        /\ step' = "dial" /\ carrier' = "websocket"
        /\ UNCHANGED <<clone, sid, url, base, offered>>
     \/ /\ mode = "Polling" \/ (mode = "Any" /\ (clone => ~Upgradable))
        /\ base' = PollingUrl(url) /\ Finishes
        /\ UNCHANGED <<sid, carrier>>
     \/ ~Upgradable /\ mode = "WebsocketUpgrade" /\ BuildFails
  /\ UNCHANGED <<mode, serves>>

(* WebsocketTransport::new(), WebsocketSecureTransport::new(): with a       *)
(* session the websocket must be probed, without one the handshake is made  *)
(* over it.                                                                 *)
Dials ==
  /\ step = "dial"
  /\ \/ /\ base' \in Dialled(url)
        /\ step' = IF sid = 0 THEN "handshake" ELSE "probe"
        /\ UNCHANGED <<clone, sid, url, offered, carrier>>
     \/ BuildFails
  /\ UNCHANGED <<mode, serves>>

(* upgrade(): a Ping "probe" is sent ...                                    *)
Probes ==
  /\ step = "probe"
  /\ \/ step' = "pong" /\ UNCHANGED <<clone, sid, url, base, offered, carrier>>
     \/ BuildFails
  /\ UNCHANGED <<mode, serves>>

(* ... and when the Pong "probe" is there, and nothing else, the Upgrade    *)
(* packet, at which the server turns to the websocket. It may arrive        *)
(* although sending it reports an error.                                    *)
Upgrades ==
  /\ step = "pong"
  /\ \/ /\ serves' = Turned(base) /\ Finishes
        /\ UNCHANGED <<sid, base, carrier>>
     \/ /\ UNCHANGED serves \/ serves' = Turned(base)
        /\ BuildFails
  /\ UNCHANGED mode

Builds == HandshakesPolling \/ HandshakesWebsocket \/ Decides \/ Dials \/ Probes \/ Upgrades

Built == step = "built"
=============================================================================
