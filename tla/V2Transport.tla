---------------------------- MODULE V2Transport ----------------------------
(***************************************************************************)
(* The BIP324 v2 transport with the HX1 hybrid (ML-KEM-768) upgrade:       *)
(* class V2Transport of src/src/net.h and src/src/net.cpp, the cipher of   *)
(* src/src/bip324.cpp, and the socket-handler code of CConnman that closes *)
(* a connection.  The module describes one connection: an initiator "I"    *)
(* and a responder "R", each with its transport, and one ordered byte      *)
(* stream per direction.                                                   *)
(*                                                                         *)
(* Every method of V2Transport is an operator from a transport record to a *)
(* transport record, so that a handler is the composition of the methods   *)
(* it calls, under the locks it holds.  Bytes are grouped in the units the *)
(* handlers tell apart:                                                    *)
(*   KEY_HEAD  the first 24 bytes of an ellswift public key (as many as a  *)
(*             v1 header, and more than the 16 bytes of V1_PREFIX_LEN)     *)
(*   KEY_REST  the rest of the key, with the garbage that follows it       *)
(*   TERM      the garbage terminator                                      *)
(*   PKT       one encrypted packet                                        *)
(*   V1MSG     a v1 message of this network, V1ALIEN one of another        *)
(***************************************************************************)
EXTENDS Naturals, Sequences, FiniteSets

CONSTANTS
  Pairings, \* the pairs [I |-> mode, R |-> mode] of endpoints to connect
  Faults,   \* which faults the environment may produce, a subset of FaultKinds
  MaxMsgs   \* messages each node has to send on the connection

Sides == {"I", "R"}

Other(s) == IF s = "I" THEN "R" ELSE "I"

\* V1 and V1ALIEN are endpoints with a V1Transport, of this network and of
\* another one.
Modes == {"OFF", "PREFER", "REQUIRE", "V1", "V1ALIEN"}

FaultKinds == {"kem",     \* an ML-KEM or RNG call of a node fails
               "decaps",  \* decapsulation yields another secret
               "record",  \* the peer's software sends a wrong HX1 record
               "close",   \* a node closes the connection on its own
               "timeout"} \* the connection timeout passes early

ASSUME PairingsAssumption == Pairings \subseteq [Sides -> Modes]
ASSUME FaultsAssumption == Faults \subseteq FaultKinds
ASSUME MaxMsgsAssumption == MaxMsgs \in Nat

Stage2Keys == {"s2", "s2other"}

Ciphers == {"none", "s1"} \cup Stage2Keys

Bodies == {"EMPTY", "OFFER", "ACCEPT", "MALFORMED", "BADKEY", "MSG"}

Outcomes == {"HYBRID", "CLASSICAL", "REFUSED", "BAD_RECORD", "STAGE2_FAILED",
             "LOCAL_ERROR"}

CloseCauses == {"NONE", "TRANSPORT", "PEER", "TIMEOUT"}

-----------------------------------------------------------------------------
(* What travels on the wire.                                               *)

Unit(kind) == [kind |-> kind, key |-> "none", aad |-> FALSE, ignore |-> FALSE,
               big |-> FALSE, body |-> "EMPTY", n |-> 0, seq |-> 0]

\* BIP324Cipher::Encrypt under the sender's current cipher, whose packet counter
\* is the nonce.  "big" is a packet with more than
\* HYBRID_FIRST_PACKET_MAX_CONTENTS bytes of contents.
Encrypt(t, body, aad, ignore, big, n) ==
  [kind |-> "PKT", key |-> t.cipher, aad |-> aad, ignore |-> ignore,
   big |-> big, body |-> body, n |-> n, seq |-> t.send_seq]

V1Unit(kind, n) == [Unit(kind) EXCEPT !.body = "MSG", !.n = n]

Units == [kind : {"KEY_HEAD", "KEY_REST", "TERM", "PKT", "V1MSG", "V1ALIEN"},
          key : Ciphers, aad : BOOLEAN, ignore : BOOLEAN, big : BOOLEAN,
          body : Bodies, n : Nat, seq : Nat]

-----------------------------------------------------------------------------
(* The transport of one endpoint.                                          *)

RecvStates == {"KEY_MAYBE_V1", "KEY", "GARB_GARBTERM", "VERSION", "APP", "V1"}

SendStates == {"MAYBE_V1", "AWAITING_KEY", "AWAITING_VERSION", "READY", "V1"}

HybridStates == {"PENDING", "CLASSICAL", "UNCONFIRMED", "CONFIRMED", "FAILED"}

HandshakeModes == {"OFF", "PREFER", "REQUIRE"}

Transports ==
  [mode : Modes, initiating : BOOLEAN, recv_state : RecvStates,
   send_state : SendStates, hybrid_state : HybridStates, tag_seen : BOOLEAN,
   failure : Outcomes \cup {"none"}, key_pair : BOOLEAN, stage2_secret : BOOLEAN,
   cipher : Ciphers, send_seq : Nat, recv_seq : Nat, recv_aad : BOOLEAN, send_garbage : BOOLEAN,
   first_send : BOOLEAN, sent_v1_header_worth : BOOLEAN, partial_key : BOOLEAN,
   stalled : BOOLEAN, send_buffer : Seq(Units), rejected : BOOLEAN,
   counts : [Outcomes -> Nat], quirk : {"none", "MALFORMED", "BADKEY"}]

\* Append to the send buffer.
Push(t, u) == [t EXCEPT !.send_buffer = Append(@, u)]

PushPacket(t, body, aad, ignore, big, n) ==
  [Push(t, Encrypt(t, body, aad, ignore, big, n)) EXCEPT !.send_seq = @ + 1]

\* ReceivedBytes returns false: the caller closes the connection.
Reject(t) == [t EXCEPT !.rejected = TRUE]

CountHybrid(t, outcome) == [t EXCEPT !.counts[outcome] = @ + 1]

\* Slip: a failed handshake goes back to waiting for the version packet.
HybridFailPending(t, outcome) ==
  CountHybrid([t EXCEPT !.hybrid_state = "PENDING", !.failure = outcome,
                        !.key_pair = FALSE, !.stage2_secret = FALSE,
                        !.rejected = TRUE], outcome)

HybridFail(t, outcome) ==
  CountHybrid([t EXCEPT !.hybrid_state = "FAILED", !.failure = outcome,
                        !.key_pair = FALSE, !.stage2_secret = FALSE,
                        !.rejected = TRUE], outcome)

StartSendingHandshake(t) ==
  [t EXCEPT !.send_buffer = <<Unit("KEY_HEAD"), Unit("KEY_REST")>>]

\* The constructors of V2Transport and, for the v1 modes, of V1Transport
\* (MakeTransport).
MakeTransport(s, m, quirk) ==
  LET v2 == m \in HandshakeModes
      t == [mode |-> m, initiating |-> s = "I",
            recv_state |-> IF ~v2 THEN "V1" ELSE IF s = "I" THEN "KEY" ELSE "KEY_MAYBE_V1",
            send_state |-> IF ~v2 THEN "V1" ELSE IF s = "I" THEN "AWAITING_KEY" ELSE "MAYBE_V1",
            hybrid_state |-> "PENDING", tag_seen |-> FALSE, failure |-> "none",
            key_pair |-> FALSE, stage2_secret |-> FALSE, cipher |-> "none",
            send_seq |-> 0, recv_seq |-> 0, recv_aad |-> FALSE, send_garbage |-> v2, first_send |-> FALSE,
            sent_v1_header_worth |-> FALSE, partial_key |-> FALSE,
            stalled |-> FALSE, send_buffer |-> <<>>, rejected |-> FALSE,
            counts |-> [o \in Outcomes |-> 0], quirk |-> quirk]
  IN  IF v2 /\ s = "I" THEN StartSendingHandshake(t) ELSE t

\* The contents of a version packet: EncodeHybridRecord, or what other software
\* puts in its place.
EncodeHybridRecord(t, kind) == IF t.quirk = "none" THEN kind ELSE t.quirk

\* An invalid encapsulation key is still a well-formed OFFER.
ClassifyHybridRecord(body, expected_kind) ==
  CASE body = "EMPTY" -> "NONE"
    [] body = expected_kind \/ (body = "BADKEY" /\ expected_kind = "OFFER") -> "VALID"
    [] OTHER -> "MALFORMED"

\* A version packet authenticates the sender's garbage, which is then dropped.
PushVersion(t, body) ==
  [PushPacket(t, body, t.send_garbage, FALSE, FALSE, 0)
     EXCEPT !.send_garbage = FALSE]

\* What an ML-KEM call returns: its result, an error, or (decapsulation only)
\* a secret other than the one that was encapsulated.
KemResults == {"ok"} \cup (IF "kem" \in Faults THEN {"error"} ELSE {})
                     \cup (IF "decaps" \in Faults THEN {"other"} ELSE {})

\* BIP324Cipher::SwitchToStage2: new ciphers in both directions, at packet 0.
SwitchToStage2(t, key) ==
  [t EXCEPT !.cipher = key, !.send_seq = 0, !.recv_seq = 0, !.stage2_secret = FALSE]

ProcessHybridKey(t, kem) ==
  IF ~t.initiating /\ kem = "error"
  THEN HybridFail(t, "LOCAL_ERROR")
  ELSE LET u == Push([t EXCEPT !.send_state = "AWAITING_VERSION",
                               !.key_pair = ~t.initiating], Unit("TERM"))
       IN  IF t.initiating THEN u
           ELSE PushVersion(u, EncodeHybridRecord(u, "OFFER"))

\* BIP324Cipher::Initialize, then the reply to the completed key exchange.
ProcessReceivedKey(t, kem) ==
  LET u == [t EXCEPT !.cipher = "s1", !.stage2_secret = t.mode # "OFF",
                     !.recv_state = "GARB_GARBTERM", !.partial_key = FALSE]
  IN  IF t.mode # "OFF"
      THEN ProcessHybridKey(u, kem)
      ELSE PushVersion(Push([u EXCEPT !.send_state = "READY"], Unit("TERM")), "EMPTY")

ProcessReceivedKeyBytes(t, unit, kem) ==
  CASE unit.kind = "KEY_HEAD" -> [t EXCEPT !.partial_key = TRUE]
    [] unit.kind = "KEY_REST" -> ProcessReceivedKey(t, kem)
    [] OTHER -> Reject(t)

ProcessReceivedMaybeV1Bytes(t, unit, kem) ==
  IF unit.kind # "V1MSG"
  THEN ProcessReceivedKeyBytes(
         StartSendingHandshake([t EXCEPT !.recv_state = "KEY",
                                         !.send_state = "AWAITING_KEY"]), unit, kem)
  ELSE IF t.mode = "REQUIRE" THEN Reject(CountHybrid(t, "REFUSED"))
  ELSE [t EXCEPT !.recv_state = "V1", !.send_state = "V1", !.send_buffer = <<>>]

ProcessReceivedGarbageBytes(t, unit) ==
  [t EXCEPT !.recv_state = "VERSION", !.recv_aad = TRUE]

\* The peer's version packet carried no HX1 record.
StayClassical(t) ==
  IF t.mode = "REQUIRE" THEN HybridFail(t, "REFUSED")
  ELSE LET u == [t EXCEPT !.hybrid_state = "CLASSICAL", !.key_pair = FALSE,
                          !.stage2_secret = FALSE]
           v == IF t.initiating THEN PushVersion(u, "EMPTY") ELSE u
       IN  CountHybrid([v EXCEPT !.send_state = "READY"], "CLASSICAL")

\* The initiator answers a valid OFFER: its version packet is the last one
\* under stage-1 keys.
AnswerOffer(t, body, kem) ==
  CASE body = "BADKEY" -> HybridFail(t, "BAD_RECORD")
    [] kem = "error" \/ ~t.stage2_secret -> HybridFail(t, "LOCAL_ERROR")
    [] OTHER ->
         [SwitchToStage2(PushVersion(t, EncodeHybridRecord(t, "ACCEPT")), "s2")
            EXCEPT !.first_send = TRUE, !.hybrid_state = "UNCONFIRMED",
                   !.send_state = "READY"]

\* Slip: the responder takes the decapsulated secret as confirmed at once.
TakeAcceptConfirmed(t, kem) ==
  IF kem = "error" \/ ~t.key_pair \/ ~t.stage2_secret
  THEN HybridFail(t, "LOCAL_ERROR")
  ELSE LET u == SwitchToStage2([t EXCEPT !.key_pair = FALSE],
                               IF kem = "other" THEN "s2other" ELSE "s2")
       IN  CountHybrid([PushPacket(u, "EMPTY", FALSE, TRUE, FALSE, 0)
              EXCEPT !.hybrid_state = "CONFIRMED", !.send_state = "READY"], "HYBRID")

\* The responder takes a valid ACCEPT: the empty decoy is its first packet under
\* stage-2 keys.
TakeAccept(t, kem) ==
  IF kem = "error" \/ ~t.key_pair \/ ~t.stage2_secret
  THEN HybridFail(t, "LOCAL_ERROR")
  ELSE LET u == SwitchToStage2([t EXCEPT !.key_pair = FALSE],
                               IF kem = "other" THEN "s2other" ELSE "s2")
       IN  [PushPacket(u, "EMPTY", FALSE, TRUE, FALSE, 0)
              EXCEPT !.hybrid_state = "UNCONFIRMED", !.send_state = "READY"]

ProcessHybridVersion(t, body, kem) ==
  LET record == ClassifyHybridRecord(body, IF t.initiating THEN "OFFER" ELSE "ACCEPT")
      u == [t EXCEPT !.tag_seen = record # "NONE"]
  IN  CASE record = "NONE" -> StayClassical(u)
        [] record = "MALFORMED" -> HybridFail(u, "BAD_RECORD")
        [] record = "VALID" /\ t.initiating -> AnswerOffer(u, body, kem)
        [] record = "VALID" /\ ~t.initiating -> TakeAccept(u, kem)

AwaitsConfirmation(t) == t.mode # "OFF" /\ t.hybrid_state = "UNCONFIRMED"

\* The packet failed: wrong keys, a wrong AAD, or too long before key confirmation.
RejectPacket(t) ==
  IF AwaitsConfirmation(t) THEN HybridFail(t, "STAGE2_FAILED") ELSE Reject(t)

\* Key confirmation, at the first packet that authenticates under stage-2 keys.
Confirm(t) ==
  IF AwaitsConfirmation(t)
  THEN CountHybrid([t EXCEPT !.hybrid_state = "CONFIRMED"], "HYBRID")
  ELSE t

\* A length decrypted with the wrong key is any number: most exceed the limit or
\* fail to authenticate, a short one leaves the receiver waiting for bytes.
ProcessReceivedPacketBytes(t, unit, kem, wait) ==
  LET readable == ~t.stalled /\ unit.key = t.cipher /\ unit.seq = t.recv_seq
      ok == readable /\ unit.aad = t.recv_aad /\ ~(AwaitsConfirmation(t) /\ unit.big)
      u == Confirm([t EXCEPT !.recv_aad = FALSE, !.recv_seq = @ + 1])
  IN  CASE ~readable /\ wait -> [t EXCEPT !.stalled = TRUE]
        [] ~ok /\ (readable \/ ~wait) -> RejectPacket(t)
        [] ok /\ unit.ignore -> u
        [] ok /\ ~unit.ignore /\ t.recv_state = "APP" -> u
        [] ok /\ ~unit.ignore /\ t.recv_state = "VERSION" ->
             LET v == IF t.mode = "OFF" THEN u ELSE ProcessHybridVersion(u, unit.body, kem)
             IN  IF v.rejected THEN v ELSE [v EXCEPT !.recv_state = "APP"]

\* The v1 transport, or the v1 fallback of a responder: a header with the wrong
\* network magic ends the connection.
V1ReceivedBytes(t, unit) ==
  IF unit.kind = (IF t.mode = "V1ALIEN" THEN "V1ALIEN" ELSE "V1MSG") THEN t ELSE Reject(t)

ReceivedBytes(t, unit, kem, wait) ==
  CASE t.recv_state = "V1" -> V1ReceivedBytes(t, unit)
    [] t.recv_state = "KEY_MAYBE_V1" -> ProcessReceivedMaybeV1Bytes(t, unit, kem)
    [] t.recv_state = "KEY" -> ProcessReceivedKeyBytes(t, unit, kem)
    [] t.recv_state = "GARB_GARBTERM" -> ProcessReceivedGarbageBytes(t, unit)
    [] t.recv_state \in {"VERSION", "APP"} -> ProcessReceivedPacketBytes(t, unit, kem, wait)

\* APP_READY lasts until ReceiveMsgBytes takes the message in the same call.
MessageComplete(t, unit) ==
  unit.body = "MSG" /\ ~t.rejected /\ ~t.stalled /\ t.recv_state \in {"APP", "V1"}

CanSetMessageToSend(t) == t.send_state \in {"READY", "V1"} /\ t.send_buffer = <<>>

\* Slip: no decoy before a big first message.
SetMessageToSendNoDecoy(t, n, big) ==
  IF t.send_state = "V1"
  THEN Push(t, V1Unit(IF t.mode = "V1ALIEN" THEN "V1ALIEN" ELSE "V1MSG", n))
  ELSE [PushPacket(t, "MSG", FALSE, FALSE, big, n) EXCEPT !.first_send = FALSE]

\* The initiator's first packet under stage-2 keys must be small: an empty decoy
\* goes before a big one.
SetMessageToSend(t, n, big) ==
  IF t.send_state = "V1"
  THEN Push(t, V1Unit(IF t.mode = "V1ALIEN" THEN "V1ALIEN" ELSE "V1MSG", n))
  ELSE LET u == IF t.mode # "OFF" /\ t.first_send /\ big
                THEN PushPacket(t, "EMPTY", FALSE, TRUE, FALSE, 0) ELSE t
       IN  [PushPacket(u, "MSG", FALSE, FALSE, big, n) EXCEPT !.first_send = FALSE]

\* Slip: the v1 fallback keeps bytes that have been sent.
MarkBytesSentKeepsV1(t) ==
  [t EXCEPT !.send_buffer = IF t.send_state = "V1" THEN @ ELSE Tail(@),
            !.sent_v1_header_worth = @ \/ t.send_state # "V1"]

\* The first unit of the send buffer has been handed to the socket.
MarkBytesSent(t) ==
  [t EXCEPT !.send_buffer = Tail(@),
            !.sent_v1_header_worth = @ \/ t.send_state # "V1"]

V1ReconnectCondition(t) ==
  /\ t.mode \in HandshakeModes
  /\ t.initiating
  /\ t.recv_state = "KEY"
  /\ ~t.partial_key
  /\ t.sent_v1_header_worth

\* Slip: -v2hybrid=2 falls back to v1 like the other modes.
ShouldReconnectV1Require(t) == V1ReconnectCondition(t)

ShouldReconnectV1(t) == t.mode # "REQUIRE" /\ V1ReconnectCondition(t)

\* Slip: an established hybrid session is retried when it is lost.
GetHybridStatusRetryAlways(t) ==
  [unconfirmed |-> t.mode \in {"PREFER", "REQUIRE"} /\ t.hybrid_state = "UNCONFIRMED",
   retry_classical |-> t.initiating /\ t.mode = "PREFER" /\ t.tag_seen
                         /\ t.failure # "LOCAL_ERROR",
   v1_refused |-> t.mode = "REQUIRE" /\ V1ReconnectCondition(t)]

\* Slip: every handshake that has not finished counts as unconfirmed.
GetHybridStatusPending(t) ==
  [unconfirmed |-> /\ t.mode \in {"PREFER", "REQUIRE"}
                   /\ t.hybrid_state \notin {"CLASSICAL", "CONFIRMED"},
   retry_classical |-> t.initiating /\ t.mode = "PREFER" /\ t.tag_seen
                         /\ t.hybrid_state # "CONFIRMED" /\ t.failure # "LOCAL_ERROR",
   v1_refused |-> t.mode = "REQUIRE" /\ V1ReconnectCondition(t)]

GetHybridStatus(t) ==
  LET on == t.mode \in {"PREFER", "REQUIRE"}
  IN  [unconfirmed |-> on /\ t.hybrid_state = "UNCONFIRMED",
       retry_classical |-> /\ t.initiating
                           /\ t.mode = "PREFER"
                           /\ t.tag_seen
                           /\ t.hybrid_state # "CONFIRMED"
                           /\ t.failure # "LOCAL_ERROR",
       v1_refused |-> t.mode = "REQUIRE" /\ V1ReconnectCondition(t)]

\* The transport getpeerinfo reports.
GetInfo(t) ==
  CASE t.recv_state = "V1" -> "V1"
    [] t.recv_state = "APP" /\ t.mode = "OFF" -> "V2"
    [] t.recv_state = "APP" /\ t.hybrid_state = "CLASSICAL" -> "V2"
    [] t.recv_state = "APP" /\ t.hybrid_state = "CONFIRMED" -> "V2_HYBRID"
    [] OTHER -> "DETECTING"

-----------------------------------------------------------------------------
(* One connection between two nodes.                                       *)

VARIABLES
  transport,   \* the transport of each endpoint
  wire,        \* the units on their way to each endpoint
  sent,        \* how many messages each node has handed to its transport
  received,    \* the messages each node has taken from its transport
  sock,        \* whether each node still holds its socket
  fDisconnect, \* whether each node has given up the connection
  timed_out,   \* whether the socket thread has found the connection timed out
  close_cause, \* HybridCloseCause of each node
  reconnect    \* what DisconnectNodes decided once it removed the node

vars == <<transport, wire, sent, received, sock, fDisconnect, timed_out, close_cause, reconnect>>

Quirks == {"none"} \cup (IF "record" \in Faults THEN {"MALFORMED", "BADKEY"} ELSE {})

\* At most one of the two endpoints runs other software.
Init ==
  /\ \E p \in Pairings, q \in [Sides -> Quirks] :
       /\ "none" \in {q["I"], q["R"]}
       /\ transport = [s \in Sides |-> MakeTransport(s, p[s], q[s])]
  /\ wire = [s \in Sides |-> <<>>]
  /\ sent = [s \in Sides |-> 0]
  /\ received = [s \in Sides |-> <<>>]
  /\ sock = [s \in Sides |-> TRUE]
  /\ fDisconnect = [s \in Sides |-> FALSE]
  /\ timed_out = [s \in Sides |-> FALSE]
  /\ close_cause = [s \in Sides |-> "NONE"]
  /\ reconnect = [s \in Sides |-> {}]

\* fSuccessfullyConnected: the peer's second message is its VERACK.
Connected(s) == Len(received[s]) >= 2

\* The initiator starts with VERSION; everything else answers the peer's VERSION.
HasMessage(s) ==
  /\ sent[s] < MaxMsgs
  /\ (s = "I" /\ sent[s] = 0) \/ received[s] # <<>>

\* CNode::SetHybridCloseCause, then CNode::CloseSocketDisconnect.
Close(s, cause) ==
  /\ close_cause' = IF fDisconnect[s] THEN close_cause ELSE [close_cause EXCEPT ![s] = cause]
  /\ fDisconnect' = [fDisconnect EXCEPT ![s] = TRUE]
  /\ sock' = [sock EXCEPT ![s] = FALSE]

\* SocketSendData moves the next message of vSendMsg to the transport.
QueueMessage(s) ==
  /\ sock[s]
  /\ HasMessage(s)
  /\ CanSetMessageToSend(transport[s])
  /\ \E big \in BOOLEAN : transport' = [transport EXCEPT ![s] = SetMessageToSend(@, sent[s] + 1, big)]
  /\ sent' = [sent EXCEPT ![s] = @ + 1]
  /\ UNCHANGED <<wire, received, sock, fDisconnect, timed_out, close_cause, reconnect>>

\* SocketSendData hands bytes to the socket.  They are lost if the peer is gone.
SendBytes(s) ==
  /\ sock[s]
  /\ transport[s].send_buffer # <<>>
  /\ transport' = [transport EXCEPT ![s] = MarkBytesSent(@)]
  /\ wire' = [wire EXCEPT ![Other(s)] =
                IF sock[Other(s)] THEN Append(@, Head(transport[s].send_buffer)) ELSE @]
  /\ UNCHANGED <<sent, received, sock, fDisconnect, timed_out, close_cause, reconnect>>

\* SocketHandlerConnected reads bytes: CNode::ReceiveMsgBytes.  The thread that
\* finds a timeout removes the node before it reads again.
ReceiveMsgBytes(s) ==
  /\ sock[s]
  /\ ~timed_out[s]
  /\ wire[s] # <<>>
  /\ \E kem \in KemResults, wait \in BOOLEAN :
       LET u == ReceivedBytes(transport[s], Head(wire[s]), kem, wait)
       IN  /\ transport' = [transport EXCEPT ![s] = u]
           /\ received' = IF MessageComplete(u, Head(wire[s]))
                          THEN [received EXCEPT ![s] =
                                  Append(@, [n |-> Head(wire[s]).n, key |-> Head(wire[s]).key])]
                          ELSE received
           /\ IF u.rejected THEN Close(s, "TRANSPORT")
              ELSE UNCHANGED <<sock, fDisconnect, close_cause>>
  /\ wire' = [wire EXCEPT ![s] = Tail(@)]
  /\ UNCHANGED <<sent, timed_out, reconnect>>

\* Slip: WSAEWOULDBLOCK is taken for an error.
SocketClosedAnyError(s) ==
  /\ sock[s]
  /\ ~timed_out[s]
  /\ Close(s, "PEER")
  /\ wire' = [wire EXCEPT ![s] = <<>>]
  /\ UNCHANGED <<transport, sent, received, timed_out, reconnect>>

\* The socket reports that the peer closed it, or an error.  Bytes that were
\* still on their way may be lost with it.
SocketClosed(s) ==
  /\ sock[s]
  /\ ~timed_out[s]
  /\ ~sock[Other(s)]
  /\ Close(s, "PEER")
  /\ wire' = [wire EXCEPT ![s] = <<>>]
  /\ UNCHANGED <<transport, sent, received, timed_out, reconnect>>

\* Slip: only a handshake that has not reached its version packet times out.
TimeoutBeforeVersion(s) ==
  /\ "timeout" \in Faults
  /\ sock[s]
  /\ ~timed_out[s]
  /\ transport[s].hybrid_state = "PENDING"
  /\ fDisconnect' = [fDisconnect EXCEPT ![s] = TRUE]
  /\ timed_out' = [timed_out EXCEPT ![s] = TRUE]
  /\ UNCHANGED <<transport, wire, sent, received, sock, close_cause, reconnect>>

\* InactivityCheck: not connected within the connection timeout.
Timeout(s) ==
  /\ "timeout" \in Faults
  /\ sock[s]
  /\ ~timed_out[s]
  /\ ~Connected(s)
  /\ IF ~fDisconnect[s] /\ GetHybridStatus(transport[s]).unconfirmed
     THEN /\ transport' = [transport EXCEPT ![s] = CountHybrid(@, "STAGE2_FAILED")]
          /\ close_cause' = [close_cause EXCEPT ![s] = "TIMEOUT"]
     ELSE UNCHANGED <<transport, close_cause>>
  /\ fDisconnect' = [fDisconnect EXCEPT ![s] = TRUE]
  /\ timed_out' = [timed_out EXCEPT ![s] = TRUE]
  /\ UNCHANGED <<wire, sent, received, sock, reconnect>>

\* disconnectnode, a ban, eviction or shutdown: the node gives up on its own.
LocalDisconnect(s) ==
  /\ "close" \in Faults
  /\ ~fDisconnect[s]
  /\ fDisconnect' = [fDisconnect EXCEPT ![s] = TRUE]
  /\ UNCHANGED <<transport, wire, sent, received, sock, timed_out, close_cause, reconnect>>

\* DisconnectNodes removes the node and decides on a reconnection.
DisconnectNode(s) ==
  /\ fDisconnect[s]
  /\ reconnect[s] = {}
  /\ LET status == GetHybridStatus(transport[s])
     IN  /\ reconnect' = [reconnect EXCEPT ![s] =
              {"removed"}
              \cup (IF ShouldReconnectV1(transport[s]) THEN {"v1"} ELSE {})
              \cup (IF status.retry_classical /\ close_cause[s] # "NONE"
                    THEN {"classical"} ELSE {})]
         /\ transport' = IF status.v1_refused THEN [transport EXCEPT ![s] = CountHybrid(@, "REFUSED")] ELSE transport
  /\ sock' = [sock EXCEPT ![s] = FALSE]
  /\ UNCHANGED <<wire, sent, received, fDisconnect, timed_out, close_cause>>

\* Both nodes have removed the connection, or it has carried every message.
Done ==
  /\ \A s \in Sides : \/ reconnect[s] # {}
                      \/ ~fDisconnect[s] /\ Len(received[s]) = MaxMsgs /\ sent[s] = MaxMsgs
  /\ UNCHANGED vars

Next ==
  \/ \E s \in Sides :
       \/ QueueMessage(s)
       \/ SendBytes(s)
       \/ ReceiveMsgBytes(s)
       \/ SocketClosed(s)
       \/ Timeout(s)
       \/ LocalDisconnect(s)
       \/ DisconnectNode(s)
  \/ Done

Spec == Init /\ [][Next]_vars

\* The socket thread of each node loops over its sockets, sends what is queued,
\* reads what has arrived, notices closed sockets and removes dead nodes; the
\* timeout is checked on every turn of that loop.
Fairness ==
  \A s \in Sides : /\ WF_vars(QueueMessage(s))
                   /\ WF_vars(SendBytes(s))
                   /\ WF_vars(ReceiveMsgBytes(s))
                   /\ WF_vars(SocketClosed(s))
                   /\ WF_vars(Timeout(s))
                   /\ WF_vars(DisconnectNode(s))

FairSpec == Spec /\ Fairness

-----------------------------------------------------------------------------
(* Properties.                                                             *)

\* Everything the two nodes and the wire hold has its type.
TypeOK ==
  /\ transport \in [Sides -> Transports]
  /\ wire \in [Sides -> Seq(Units)]
  /\ sent \in [Sides -> 0..MaxMsgs]
  /\ received \in [Sides -> Seq([n : Nat, key : Ciphers])]
  /\ sock \in [Sides -> BOOLEAN]
  /\ fDisconnect \in [Sides -> BOOLEAN]
  /\ timed_out \in [Sides -> BOOLEAN]
  /\ close_cause \in [Sides -> CloseCauses]
  /\ reconnect \in [Sides -> SUBSET {"removed", "v1", "classical"}]

\* Key confirmation is mutual knowledge: a node that counts the session as
\* hybrid (ProcessReceivedPacketBytes) has a peer with the very same stage-2
\* keys, which has not kept the session classical.
KeyAgreement ==
  \A s \in Sides : transport[s].hybrid_state = "CONFIRMED" =>
    /\ transport[s].cipher \in Stage2Keys
    /\ transport[Other(s)].cipher = transport[s].cipher
    /\ transport[Other(s)].hybrid_state \notin {"PENDING", "CLASSICAL"}

\* -v2hybrid=2 (require): no message is ever sent or taken but under stage-2
\* keys, through every version-packet class, v1 fallback and failure path.
RequireOnlyHybrid ==
  \A s \in Sides : transport[s].mode = "REQUIRE" =>
    /\ \A i \in 1..Len(received[s]) : received[s][i].key \in Stage2Keys
    /\ \A i \in 1..Len(received[Other(s)]) : received[Other(s)][i].key \in Stage2Keys
    /\ "v1" \notin reconnect[s] /\ "classical" \notin reconnect[s]

\* What ties the keys of one endpoint to the progress of its handshake.
Sound(t) ==
  /\ t.hybrid_state \in {"UNCONFIRMED", "CONFIRMED"} => t.cipher \in Stage2Keys
  /\ t.cipher \in Stage2Keys => t.hybrid_state \notin {"PENDING", "CLASSICAL"}
  /\ ~t.rejected =>
       /\ t.recv_state \in {"KEY_MAYBE_V1", "KEY"} => t.cipher = "none"
       /\ t.recv_state \in {"GARB_GARBTERM", "VERSION"} => t.cipher = "s1"
       /\ t.cipher \in Stage2Keys => t.recv_state = "APP"
       /\ t.recv_state = "APP" /\ t.mode = "REQUIRE" => t.cipher \in Stage2Keys
  /\ t.mode = "REQUIRE" =>
       /\ t.recv_state # "V1" /\ t.send_state # "V1"
       /\ t.send_state = "READY" => t.cipher \in Stage2Keys

\* Units sent by an endpoint with transport t: stage-2 packets are under its
\* keys, and in require mode messages are stage-2 packets.
SentBy(t, unit) ==
  /\ unit.key \in Stage2Keys => unit.key = t.cipher
  /\ t.mode = "REQUIRE" /\ unit.body = "MSG" => unit.key \in Stage2Keys

\* The discipline behind KeyAgreement and RequireOnlyHybrid, as an inductive
\* invariant: the handshake state of each transport fixes its keys, nothing on
\* its way is under stage-2 keys its sender does not hold, and a transport that
\* rejected its peer's bytes reads no more.
KeyDiscipline ==
  \A s \in Sides :
    /\ Sound(transport[s])
    /\ transport[s].rejected => ~sock[s]
    /\ \A i \in 1..Len(transport[s].send_buffer) : SentBy(transport[s], transport[s].send_buffer[i])
    /\ \A i \in 1..Len(wire[Other(s)]) : SentBy(transport[s], wire[Other(s)][i])
    /\ transport[s].hybrid_state = "CONFIRMED" => transport[Other(s)].cipher = transport[s].cipher
    /\ transport[s].mode = "REQUIRE" =>
         /\ \A i \in 1..Len(received[s]) : received[s][i].key \in Stage2Keys
         /\ \A i \in 1..Len(received[Other(s)]) : received[Other(s)][i].key \in Stage2Keys
         /\ "v1" \notin reconnect[s] /\ "classical" \notin reconnect[s]

\* A connection is counted in getnetworkinfo's v2hybrid_counts at most once,
\* whichever of the transport, the timeout check and DisconnectNodes gets to
\* count it, and "hybrid" exactly when it was confirmed.
CountedOnce ==
  \A s \in Sides :
    /\ Cardinality({o \in Outcomes : transport[s].counts[o] > 0}) <= 1
    /\ \A o \in Outcomes : transport[s].counts[o] <= 1
    /\ (transport[s].counts["HYBRID"] = 1) <=> (transport[s].hybrid_state = "CONFIRMED")

\* DisconnectNodes asks for at most one reconnection, so the outbound grant it
\* moves into it is moved once, and never for a session that has delivered a
\* message or that this node confirmed or closed by itself.
OneReconnection ==
  \A s \in Sides :
    /\ ~({"v1", "classical"} \subseteq reconnect[s])
    /\ {"v1", "classical"} \cap reconnect[s] # {} => received[s] = <<>>
    /\ "classical" \in reconnect[s] =>
         /\ transport[s].counts["HYBRID"] = 0
         /\ transport[s].counts["LOCAL_ERROR"] = 0

\* The messages a node takes are the messages its peer sent, in order, none
\* lost, repeated or read with the wrong keys across the switch of keys.
MessagesInOrder ==
  \A s \in Sides :
    /\ Len(received[s]) <= sent[Other(s)]
    /\ \A i \in 1..Len(received[s]) : received[s][i].n = i
    /\ \A i, j \in 1..Len(received[s]) : received[s][i].key = received[s][j].key

\* What two nodes end with when nothing fails.
Session(i, r) ==
  CASE i \in {"V1", "V1ALIEN"} /\ r = i -> "V1"
    [] i = "V1" /\ r \in {"OFF", "PREFER"} -> "V1"
    [] {i, r} \subseteq {"PREFER", "REQUIRE"} -> "V2_HYBRID"
    [] {i, r} \subseteq {"OFF", "PREFER"} -> "V2"
    [] OTHER -> "none"

\* A handshake never hangs half way: keys of the second stage are confirmed in the
\* end, or, failing that, both nodes remove the connection.
NeverHalfOpen ==
  \A s \in Sides : []<>(transport[s].hybrid_state \in {"UNCONFIRMED", "FAILED"} =>
                          \A p \in Sides : reconnect[p] # {})
=============================================================================
