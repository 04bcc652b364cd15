------------------------- MODULE V2TransportProofs -------------------------
(***************************************************************************)
(* Proofs about V2Transport for every set of pairings, every set of faults *)
(* and every number of messages.                                           *)
(***************************************************************************)
EXTENDS V2Transport, TLAPS

-----------------------------------------------------------------------------
(* Each method of the transport keeps the transport well formed.           *)

LEMMA PushType ==
  ASSUME NEW x \in Transports, NEW u \in Units
  PROVE  Push(x, u) \in Transports
<1>1. Append(x.send_buffer, u) \in Seq(Units)
  BY DEF Transports
<1>. QED
  BY <1>1, Zenon DEF Push, Transports

LEMMA UnitType ==
  ASSUME NEW k \in {"KEY_HEAD", "KEY_REST", "TERM", "V1MSG", "V1ALIEN"}
  PROVE  Unit(k) \in Units
BY Zenon DEF Unit, Units, Ciphers, Bodies

LEMMA CountHybridType ==
  ASSUME NEW x \in Transports, NEW o \in Outcomes
  PROVE  CountHybrid(x, o) \in Transports
<1>1. [x.counts EXCEPT ![o] = @ + 1] \in [Outcomes -> Nat]
  <2>1. x.counts \in [Outcomes -> Nat]
    BY Zenon DEF Transports
  <2>. QED
    BY <2>1
<1>2. CountHybrid(x, o) = [x EXCEPT !.counts = [x.counts EXCEPT ![o] = @ + 1]]
  BY Zenon DEF CountHybrid
<1>. QED
  BY <1>1, <1>2, ZenonT(30) DEF Transports

LEMMA RejectType ==
  ASSUME NEW x \in Transports
  PROVE  Reject(x) \in Transports
BY Zenon DEF Reject, Transports

LEMMA HybridFailType ==
  ASSUME NEW x \in Transports, NEW o \in Outcomes
  PROVE  HybridFail(x, o) \in Transports
<1>1. [x EXCEPT !.hybrid_state = "FAILED", !.failure = o, !.key_pair = FALSE,
                !.stage2_secret = FALSE, !.rejected = TRUE] \in Transports
  BY ZenonT(30) DEF Transports, HybridStates
<1>. QED
  BY <1>1, CountHybridType, Zenon DEF HybridFail

LEMMA PushPacketType ==
  ASSUME NEW x \in Transports, NEW b \in Bodies, NEW a \in BOOLEAN,
         NEW i \in BOOLEAN, NEW g \in BOOLEAN, NEW n \in Nat
  PROVE  PushPacket(x, b, a, i, g, n) \in Transports
<1>1. Encrypt(x, b, a, i, g, n) \in Units
  <2>1. x.cipher \in Ciphers /\ x.send_seq \in Nat
    BY Zenon DEF Transports
  <2>. QED
    BY <2>1, Zenon DEF Encrypt, Units
<1>2. Push(x, Encrypt(x, b, a, i, g, n)) \in Transports
  BY <1>1, PushType, Zenon
<1>3. ASSUME NEW y \in Transports
      PROVE  [y EXCEPT !.send_seq = @ + 1] \in Transports
  <2>1. y.send_seq + 1 \in Nat
    BY DEF Transports
  <2>. QED
    BY <2>1, Zenon DEF Transports
<1>. QED
  BY <1>2, <1>3, Zenon DEF PushPacket

LEMMA PushVersionType ==
  ASSUME NEW x \in Transports, NEW b \in Bodies
  PROVE  PushVersion(x, b) \in Transports
<1>1. x.send_garbage \in BOOLEAN
  BY Zenon DEF Transports
<1>2. PushPacket(x, b, x.send_garbage, FALSE, FALSE, 0) \in Transports
  BY <1>1, PushPacketType, Zenon
<1>3. ASSUME NEW y \in Transports
      PROVE  [y EXCEPT !.send_garbage = FALSE] \in Transports
  BY Zenon DEF Transports
<1>. QED
  BY <1>2, <1>3, Zenon DEF PushVersion

LEMMA EncodeHybridRecordType ==
  ASSUME NEW x \in Transports, NEW b \in {"OFFER", "ACCEPT"}
  PROVE  EncodeHybridRecord(x, b) \in {"OFFER", "ACCEPT", "MALFORMED", "BADKEY"}
BY Zenon DEF EncodeHybridRecord, Transports

LEMMA StartSendingHandshakeType ==
  ASSUME NEW x \in Transports
  PROVE  StartSendingHandshake(x) \in Transports
<1>1. <<Unit("KEY_HEAD"), Unit("KEY_REST")>> \in Seq(Units)
  BY UnitType
<1>. QED
  BY <1>1, Zenon DEF StartSendingHandshake, Transports

LEMMA SwitchToStage2Type ==
  ASSUME NEW x \in Transports, NEW k \in Stage2Keys
  PROVE  SwitchToStage2(x, k) \in Transports
BY Zenon DEF SwitchToStage2, Transports, Ciphers

LEMMA MakeTransportType ==
  ASSUME NEW s \in Sides, NEW m \in Modes, NEW q \in {"none", "MALFORMED", "BADKEY"}
  PROVE  MakeTransport(s, m, q) \in Transports
<1>. DEFINE v2 == m \in HandshakeModes
            x == [mode |-> m, initiating |-> s = "I",
            recv_state |-> IF ~v2 THEN "V1" ELSE IF s = "I" THEN "KEY" ELSE "KEY_MAYBE_V1",
            send_state |-> IF ~v2 THEN "V1" ELSE IF s = "I" THEN "AWAITING_KEY" ELSE "MAYBE_V1",
            hybrid_state |-> "PENDING", tag_seen |-> FALSE, failure |-> "none",
            key_pair |-> FALSE, stage2_secret |-> FALSE, cipher |-> "none",
            send_seq |-> 0, recv_seq |-> 0, recv_aad |-> FALSE, send_garbage |-> v2, first_send |-> FALSE,
            sent_v1_header_worth |-> FALSE, partial_key |-> FALSE,
            stalled |-> FALSE, send_buffer |-> <<>>, rejected |-> FALSE,
            counts |-> [o \in Outcomes |-> 0], quirk |-> q]
<1>1. [o \in Outcomes |-> 0] \in [Outcomes -> Nat]
  BY Zenon
<1>2. <<>> \in Seq(Units)
  OBVIOUS
<1>3. v2 \in BOOLEAN
  BY DEF HandshakeModes
<1>4. x \in Transports
  BY <1>1, <1>2, <1>3, Zenon DEF Transports, Modes, RecvStates, SendStates, HybridStates, Ciphers
<1>5. MakeTransport(s, m, q) = IF v2 /\ s = "I" THEN StartSendingHandshake(x) ELSE x
  BY Zenon DEF MakeTransport
<1>. QED
  BY <1>4, <1>5, StartSendingHandshakeType, Zenon

-----------------------------------------------------------------------------
(* What the methods do to the keys and to the send buffer.                 *)

\* Nothing a method looks at differs but the send buffer and the counters.
Alike(x, y) ==
  /\ y.mode = x.mode
  /\ y.initiating = x.initiating
  /\ y.recv_state = x.recv_state
  /\ y.send_state = x.send_state
  /\ y.hybrid_state = x.hybrid_state
  /\ y.cipher = x.cipher
  /\ y.rejected = x.rejected
  /\ y.stalled = x.stalled

Clean(x) == \A i \in 1..Len(x.send_buffer) : SentBy(x, x.send_buffer[i])

Good(x) == x \in Transports /\ Sound(x) /\ Clean(x)

\* What y, the result of reading the unit in x, owes to x.
Follows(x, y, unit) ==
  /\ Good(y)
  /\ y.mode = x.mode
  /\ x.cipher \in Stage2Keys => y.cipher = x.cipher
  /\ y.hybrid_state = "CONFIRMED" =>
       x.cipher = y.cipher /\ (x.hybrid_state = "CONFIRMED" \/ unit.key = y.cipher)
  /\ y.recv_state = "APP" /\ ~y.rejected => x.recv_state \in {"VERSION", "APP"}

LEMMA PushEffect ==
  ASSUME NEW x \in Transports, Clean(x), NEW u \in Units, SentBy(x, u)
  PROVE  Push(x, u) \in Transports /\ Alike(x, Push(x, u)) /\ Clean(Push(x, u))
<1>1. Push(x, u) \in Transports
  BY PushType, Zenon
<1>2. Alike(x, Push(x, u)) /\ Push(x, u).send_buffer = Append(x.send_buffer, u)
  BY Zenon DEF Push, Alike, Transports
<1>3. x.send_buffer \in Seq(Units)
  BY Zenon DEF Transports
<1>4. ASSUME NEW i \in 1..Len(Append(x.send_buffer, u))
      PROVE  SentBy(x, Append(x.send_buffer, u)[i])
  BY <1>3, <1>4 DEF Clean
<1>5. Clean(Push(x, u))
  BY <1>2, <1>4 DEF Clean, Alike, SentBy
<1>. QED
  BY <1>1, <1>2, <1>5, Zenon

LEMMA PushPacketEffect ==
  ASSUME NEW x \in Transports, Clean(x), NEW b \in Bodies, NEW a \in BOOLEAN,
         NEW i \in BOOLEAN, NEW g \in BOOLEAN, NEW n \in Nat,
         b = "MSG" /\ x.mode = "REQUIRE" => x.cipher \in Stage2Keys
  PROVE  LET y == PushPacket(x, b, a, i, g, n)
         IN  y \in Transports /\ Alike(x, y) /\ Clean(y) /\ y.first_send = x.first_send
               /\ y.quirk = x.quirk
<1>. DEFINE u == Encrypt(x, b, a, i, g, n)
            z == Push(x, u)
            y == PushPacket(x, b, a, i, g, n)
<1>1. u \in Units
  <2>1. x.cipher \in Ciphers /\ x.send_seq \in Nat
    BY Zenon DEF Transports
  <2>. QED
    BY <2>1, Zenon DEF Encrypt, Units
<1>2. SentBy(x, u)
  BY Zenon DEF SentBy, Encrypt
<1>3. z \in Transports /\ Alike(x, z) /\ Clean(z)
  BY <1>1, <1>2, PushEffect, Zenon
<1>4. y \in Transports
  BY PushPacketType, Zenon
<1>5. Alike(z, y) /\ y.send_buffer = z.send_buffer
  BY <1>3, Zenon DEF PushPacket, Alike, Transports
<1>6. y.first_send = x.first_send /\ y.quirk = x.quirk
  BY Zenon DEF PushPacket, Push, Transports
<1>7. Alike(x, y)
  BY <1>3, <1>5, Zenon DEF Alike
<1>8. Clean(y)
  BY <1>3, <1>5 DEF Clean, SentBy, Alike
<1>. QED
  BY <1>4, <1>6, <1>7, <1>8, Zenon

LEMMA PushVersionEffect ==
  ASSUME NEW x \in Transports, Clean(x), NEW b \in Bodies \ {"MSG"}
  PROVE  PushVersion(x, b) \in Transports /\ Alike(x, PushVersion(x, b)) /\ Clean(PushVersion(x, b))
<1>. DEFINE z == PushPacket(x, b, x.send_garbage, FALSE, FALSE, 0)
            y == PushVersion(x, b)
<1>1. x.send_garbage \in BOOLEAN
  BY Zenon DEF Transports
<1>2. z \in Transports /\ Alike(x, z) /\ Clean(z)
  BY <1>1, PushPacketEffect, Zenon
<1>3. y \in Transports
  BY PushVersionType, Zenon
<1>4. Alike(z, y) /\ y.send_buffer = z.send_buffer
  BY <1>2, Zenon DEF PushVersion, Alike, Transports
<1>. QED
  BY <1>2, <1>3, <1>4, ZenonT(30) DEF Alike, Clean, SentBy

LEMMA CountHybridEffect ==
  ASSUME NEW x \in Transports, NEW o \in Outcomes
  PROVE  LET y == CountHybrid(x, o)
         IN  y \in Transports /\ Alike(x, y) /\ y.send_buffer = x.send_buffer
BY CountHybridType, ZenonT(30) DEF CountHybrid, Alike, Transports

LEMMA HybridFailEffect ==
  ASSUME NEW x \in Transports, NEW o \in Outcomes
  PROVE  LET y == HybridFail(x, o)
         IN  /\ y \in Transports
             /\ y.mode = x.mode /\ y.cipher = x.cipher
             /\ y.recv_state = x.recv_state /\ y.send_state = x.send_state
             /\ y.send_buffer = x.send_buffer
             /\ y.hybrid_state = "FAILED" /\ y.rejected
<1>. DEFINE z == [x EXCEPT !.hybrid_state = "FAILED", !.failure = o, !.key_pair = FALSE,
                           !.stage2_secret = FALSE, !.rejected = TRUE]
<1>1. z \in Transports
  BY ZenonT(30) DEF Transports, HybridStates
<1>2. /\ z.mode = x.mode /\ z.cipher = x.cipher
      /\ z.recv_state = x.recv_state /\ z.send_state = x.send_state
      /\ z.send_buffer = x.send_buffer
      /\ z.hybrid_state = "FAILED" /\ z.rejected
  BY Zenon DEF Transports
<1>3. HybridFail(x, o) = CountHybrid(z, o)
  BY Zenon DEF HybridFail
<1>. HIDE DEF z
<1>4. LET y == CountHybrid(z, o)
      IN  y \in Transports /\ Alike(z, y) /\ y.send_buffer = z.send_buffer
  BY <1>1, CountHybridEffect, Zenon
<1>. QED
  BY <1>2, <1>3, <1>4, Zenon DEF Alike

-----------------------------------------------------------------------------
(* Every way of reading a unit keeps the endpoint good.                    *)

LEMMA FailFollows ==
  ASSUME NEW x, Good(x), NEW z \in Transports, z.mode = x.mode, z.cipher = x.cipher,
         z.recv_state = x.recv_state, z.send_state = x.send_state,
         z.send_buffer = x.send_buffer, NEW o \in Outcomes, NEW unit
  PROVE  Follows(x, HybridFail(z, o), unit) /\ HybridFail(z, o).rejected
<1>. DEFINE y == HybridFail(z, o)
<1>1. /\ y \in Transports
      /\ y.mode = x.mode /\ y.cipher = x.cipher
      /\ y.recv_state = x.recv_state /\ y.send_state = x.send_state
      /\ y.send_buffer = x.send_buffer
      /\ y.hybrid_state = "FAILED" /\ y.rejected
  BY HybridFailEffect, Zenon
<1>. HIDE DEF y
<1>2. Sound(y)
  BY <1>1, Zenon DEF Good, Sound
<1>3. Clean(y)
  BY <1>1, Zenon DEF Good, Clean, SentBy
<1>. QED
  BY <1>1, <1>2, <1>3, Zenon DEF Good, Follows, y

LEMMA RejectFollows ==
  ASSUME NEW x, Good(x), NEW unit
  PROVE  Follows(x, Reject(x), unit) /\ Reject(x).rejected
<1>1. Reject(x) \in Transports
  BY RejectType, Zenon DEF Good
<1>2. /\ Reject(x).mode = x.mode /\ Reject(x).cipher = x.cipher
      /\ Reject(x).recv_state = x.recv_state /\ Reject(x).send_state = x.send_state
      /\ Reject(x).send_buffer = x.send_buffer
      /\ Reject(x).hybrid_state = x.hybrid_state /\ Reject(x).rejected
  BY Zenon DEF Reject, Good, Transports
<1>3. Sound(Reject(x))
  BY <1>2, Zenon DEF Good, Sound
<1>4. Clean(Reject(x))
  BY <1>2, Zenon DEF Good, Clean, SentBy
<1>5. x.hybrid_state = "CONFIRMED" => x.cipher = x.cipher
  BY Zenon
<1>. QED
  BY <1>1, <1>2, <1>3, <1>4, Zenon DEF Good, Follows

LEMMA ProcessReceivedKeyFollows ==
  ASSUME NEW x, Good(x), ~x.rejected, x.recv_state = "KEY", NEW kem, NEW unit
  PROVE  Follows(x, ProcessReceivedKey(x, kem), unit)
<1>. DEFINE u == [x EXCEPT !.cipher = "s1", !.stage2_secret = x.mode # "OFF",
                           !.recv_state = "GARB_GARBTERM", !.partial_key = FALSE]
            y == ProcessReceivedKey(x, kem)
<1>1. /\ x.cipher = "none" /\ x.hybrid_state \notin {"UNCONFIRMED", "CONFIRMED"}
      /\ x.mode = "REQUIRE" => x.send_state \notin {"READY", "V1"}
  BY Zenon DEF Good, Sound, Stage2Keys
<1>2. u \in Transports
  <2>. DEFINE a == [x EXCEPT !.cipher = "s1", !.stage2_secret = x.mode # "OFF"]
  <2>1. a \in Transports
    BY ZenonT(30) DEF Good, Transports, Ciphers
  <2>2. u = [a EXCEPT !.recv_state = "GARB_GARBTERM", !.partial_key = FALSE]
    BY Zenon DEF Good, Transports
  <2>. HIDE DEF a, u
  <2>. QED
    BY <2>1, <2>2, ZenonT(30) DEF Transports, RecvStates
<1>3. /\ u.mode = x.mode /\ u.initiating = x.initiating /\ u.cipher = "s1" /\ u.recv_state = "GARB_GARBTERM"
      /\ u.send_state = x.send_state /\ u.hybrid_state = x.hybrid_state /\ ~u.rejected
      /\ u.send_buffer = x.send_buffer
  BY Zenon DEF Good, Transports
<1>. HIDE DEF u
<1>4. Clean(u)
  BY <1>1, <1>3, Zenon DEF Good, Clean, SentBy, Stage2Keys
<1>5. CASE x.mode = "OFF"
  <2>. DEFINE v == [u EXCEPT !.send_state = "READY"]
              w == Push(v, Unit("TERM"))
  <2>1. v \in Transports
    BY <1>2, Zenon DEF Transports, SendStates
  <2>2. /\ v.mode = "OFF" /\ v.cipher = "s1" /\ v.recv_state = "GARB_GARBTERM"
        /\ v.hybrid_state = x.hybrid_state /\ ~v.rejected /\ v.send_buffer = u.send_buffer
    BY <1>2, <1>3, <1>5, Zenon DEF Transports
  <2>3. Clean(v)
    BY <1>3, <1>4, <1>5, <2>2, Zenon DEF Clean, SentBy
  <2>. HIDE DEF v
  <2>4. w \in Transports /\ Alike(v, w) /\ Clean(w)
    <3>1. SentBy(v, Unit("TERM"))
      BY Zenon DEF SentBy, Unit, Stage2Keys
    <3>. QED
      BY <2>1, <2>3, <3>1, UnitType, PushEffect, Zenon
  <2>. HIDE DEF w
  <2>5. PushVersion(w, "EMPTY") \in Transports /\ Alike(w, PushVersion(w, "EMPTY"))
          /\ Clean(PushVersion(w, "EMPTY"))
    BY <2>4, PushVersionEffect, Zenon DEF Bodies
  <2>6. y = PushVersion(w, "EMPTY")
    BY <1>5, Zenon DEF ProcessReceivedKey, u, v, w
  <2>. HIDE DEF y
  <2>. QED
    BY <1>1, <1>5, <2>2, <2>4, <2>5, <2>6 DEF Follows, Good, Sound, Alike, Stage2Keys, y
<1>6. CASE x.mode # "OFF"
  <2>1. y = ProcessHybridKey(u, kem)
    BY <1>6, Zenon DEF ProcessReceivedKey, u
  <2>. HIDE DEF y
  <2>2. CASE ~u.initiating /\ kem = "error"
    <3>1. y = HybridFail(u, "LOCAL_ERROR")
      BY <2>1, <2>2, Zenon DEF ProcessHybridKey
    <3>2. /\ y \in Transports
          /\ y.mode = u.mode /\ y.cipher = u.cipher
          /\ y.recv_state = u.recv_state /\ y.send_state = u.send_state
          /\ y.send_buffer = u.send_buffer
          /\ y.hybrid_state = "FAILED" /\ y.rejected
      BY <1>2, <3>1, HybridFailEffect, Zenon DEF Outcomes
    <3>. QED
      BY <1>1, <1>3, <1>4, <3>2 DEF Follows, Good, Sound, Clean, SentBy, Stage2Keys, y
  <2>3. CASE ~(~u.initiating /\ kem = "error")
    <3>. DEFINE v == [u EXCEPT !.send_state = "AWAITING_VERSION", !.key_pair = ~u.initiating]
                w == Push(v, Unit("TERM"))
    <3>1. v \in Transports
      BY <1>2, ZenonT(30) DEF Transports, SendStates
    <3>2. /\ v.mode = u.mode /\ v.cipher = "s1" /\ v.recv_state = "GARB_GARBTERM"
          /\ v.hybrid_state = x.hybrid_state /\ ~v.rejected /\ v.send_buffer = u.send_buffer
          /\ v.send_state = "AWAITING_VERSION"
      BY <1>2, <1>3, Zenon DEF Transports
    <3>3. Clean(v)
      BY <1>3, <1>4, <3>2 DEF Clean, SentBy
    <3>. HIDE DEF v
    <3>4. w \in Transports /\ Alike(v, w) /\ Clean(w)
      <4>1. SentBy(v, Unit("TERM"))
        BY Zenon DEF SentBy, Unit, Stage2Keys
      <4>. QED
        BY <3>1, <3>3, <4>1, UnitType, PushEffect, Zenon
    <3>. HIDE DEF w
    <3>5. ASSUME NEW z \in Transports, Alike(w, z), Clean(z)
          PROVE  Follows(x, z, unit)
      BY <1>1, <1>3, <3>2, <3>4, <3>5 DEF Follows, Good, Sound, Alike, Stage2Keys
    <3>6. CASE u.initiating
      <4>1. y = w
        BY <2>1, <2>3, <3>6, Zenon DEF ProcessHybridKey, v, w
      <4>. QED
        BY <3>4, <3>5, <4>1, Zenon DEF Alike, y
    <3>7. CASE ~u.initiating
      <4>. DEFINE b == EncodeHybridRecord(w, "OFFER")
      <4>1. b \in Bodies \ {"MSG"}
        BY <3>4, EncodeHybridRecordType, Zenon DEF Bodies
      <4>2. y = PushVersion(w, b)
        BY <2>1, <2>3, <3>7, Zenon DEF ProcessHybridKey, v, w
      <4>. HIDE DEF b
      <4>3. y \in Transports /\ Alike(w, y) /\ Clean(y)
        BY <3>4, <4>1, <4>2, PushVersionEffect, Zenon
      <4>. QED
        BY <3>5, <4>3, Zenon DEF y
    <3>. QED
      BY <3>6, <3>7, Zenon
  <2>. QED
    BY <2>2, <2>3, Zenon
<1>. QED
  BY <1>5, <1>6, Zenon

LEMMA ProcessReceivedKeyBytesFollows ==
  ASSUME NEW x, Good(x), ~x.rejected, x.recv_state = "KEY", NEW unit, NEW kem
  PROVE  Follows(x, ProcessReceivedKeyBytes(x, unit, kem), unit)
<1>. DEFINE y == [x EXCEPT !.partial_key = TRUE]
<1>1. y \in Transports /\ Alike(x, y) /\ y.send_buffer = x.send_buffer
  BY Zenon DEF Good, Transports, Alike
<1>. HIDE DEF y
<1>2. Follows(x, y, unit)
  BY <1>1, Zenon DEF Follows, Good, Sound, Clean, SentBy, Alike
<1>. QED
  BY <1>2, ProcessReceivedKeyFollows, RejectFollows, Zenon DEF ProcessReceivedKeyBytes, y

LEMMA ProcessReceivedMaybeV1BytesFollows ==
  ASSUME NEW x, Good(x), ~x.rejected, x.recv_state = "KEY_MAYBE_V1", NEW unit, NEW kem
  PROVE  Follows(x, ProcessReceivedMaybeV1Bytes(x, unit, kem), unit)
<1>. DEFINE y == ProcessReceivedMaybeV1Bytes(x, unit, kem)
<1>1. /\ x.cipher = "none" /\ x.hybrid_state \notin {"UNCONFIRMED", "CONFIRMED"}
  BY Zenon DEF Good, Sound, Stage2Keys
<1>2. CASE unit.kind # "V1MSG"
  <2>. DEFINE v == [x EXCEPT !.recv_state = "KEY", !.send_state = "AWAITING_KEY"]
              w == StartSendingHandshake(v)
  <2>1. v \in Transports
    BY Zenon DEF Good, Transports, RecvStates, SendStates
  <2>2. /\ v.mode = x.mode /\ v.cipher = x.cipher /\ v.recv_state = "KEY"
        /\ v.send_state = "AWAITING_KEY" /\ v.hybrid_state = x.hybrid_state /\ ~v.rejected
    BY Zenon DEF Good, Transports
  <2>. HIDE DEF v
  <2>3. w \in Transports
    BY <2>1, StartSendingHandshakeType, Zenon
  <2>4. Alike(v, w) /\ w.send_buffer = <<Unit("KEY_HEAD"), Unit("KEY_REST")>>
    BY <2>1, Zenon DEF StartSendingHandshake, Transports, Alike
  <2>. HIDE DEF w
  <2>5. Clean(w)
    BY <2>4 DEF Clean, SentBy, Unit, Stage2Keys
  <2>6. Good(w) /\ ~w.rejected /\ w.recv_state = "KEY"
    BY <1>1, <2>2, <2>3, <2>4, <2>5, Zenon DEF Good, Sound, Alike, Stage2Keys
  <2>7. Follows(w, ProcessReceivedKeyBytes(w, unit, kem), unit)
    BY <2>6, ProcessReceivedKeyBytesFollows, Zenon
  <2>8. y = ProcessReceivedKeyBytes(w, unit, kem)
    BY <1>2, Zenon DEF ProcessReceivedMaybeV1Bytes, v, w
  <2>. HIDE DEF y
  <2>. QED
    BY <1>1, <2>2, <2>4, <2>7, <2>8 DEF Follows, Alike, y, Stage2Keys
<1>3. CASE unit.kind = "V1MSG" /\ x.mode = "REQUIRE"
  <2>. DEFINE z == CountHybrid(x, "REFUSED")
  <2>1. z \in Transports /\ Alike(x, z) /\ z.send_buffer = x.send_buffer
    BY CountHybridEffect, Zenon DEF Good, Outcomes
  <2>. HIDE DEF z
  <2>2. Good(z)
    BY <2>1, Zenon DEF Good, Sound, Clean, SentBy, Alike
  <2>3. y = Reject(z)
    BY <1>3, Zenon DEF ProcessReceivedMaybeV1Bytes, z
  <2>4. Follows(z, y, unit)
    BY <2>2, <2>3, RejectFollows, Zenon
  <2>. HIDE DEF y
  <2>. QED
    BY <2>1, <2>4, Zenon DEF Follows, Alike, y
<1>4. CASE unit.kind = "V1MSG" /\ x.mode # "REQUIRE"
  <2>1. y = [x EXCEPT !.recv_state = "V1", !.send_state = "V1", !.send_buffer = <<>>]
    BY <1>4, Zenon DEF ProcessReceivedMaybeV1Bytes
  <2>2. y \in Transports
    <3>. DEFINE a == [x EXCEPT !.recv_state = "V1", !.send_state = "V1"]
    <3>1. <<>> \in Seq(Units)
      OBVIOUS
    <3>2. a \in Transports
      BY Zenon DEF Good, Transports, RecvStates, SendStates
    <3>3. y = [a EXCEPT !.send_buffer = <<>>]
      BY <2>1, Zenon DEF Good, Transports
    <3>. HIDE DEF a, y
    <3>. QED
      BY <3>1, <3>2, <3>3, Zenon DEF Transports
  <2>3. /\ y.mode = x.mode /\ y.cipher = x.cipher /\ y.recv_state = "V1"
        /\ y.send_state = "V1" /\ y.hybrid_state = x.hybrid_state /\ y.send_buffer = <<>>
    BY <2>1 DEF Good, Transports
  <2>. HIDE DEF y
  <2>4. Good(y)
    BY <1>1, <1>4, <2>2, <2>3 DEF Good, Sound, Clean, Stage2Keys
  <2>. QED
    BY <1>1, <2>3, <2>4, Zenon DEF Follows, y
<1>. QED
  BY <1>2, <1>3, <1>4, Zenon

LEMMA ProcessReceivedGarbageBytesFollows ==
  ASSUME NEW x, Good(x), ~x.rejected, x.recv_state = "GARB_GARBTERM", NEW unit
  PROVE  Follows(x, ProcessReceivedGarbageBytes(x, unit), unit)
<1>. DEFINE y == ProcessReceivedGarbageBytes(x, unit)
<1>1. /\ x.cipher = "s1" /\ x.hybrid_state \notin {"UNCONFIRMED", "CONFIRMED"}
  BY Zenon DEF Good, Sound, Stage2Keys
<1>2. y \in Transports
  BY Zenon DEF Good, Transports, RecvStates, ProcessReceivedGarbageBytes
<1>3. /\ y.mode = x.mode /\ y.cipher = x.cipher /\ y.recv_state = "VERSION"
      /\ y.send_state = x.send_state /\ y.hybrid_state = x.hybrid_state
      /\ y.send_buffer = x.send_buffer
  BY Zenon DEF Good, Transports, ProcessReceivedGarbageBytes
<1>. HIDE DEF y
<1>4. Good(y)
  BY <1>1, <1>2, <1>3, Zenon DEF Good, Sound, Clean, SentBy, Stage2Keys
<1>. QED
  BY <1>1, <1>3, <1>4, Zenon DEF Follows, y

LEMMA V1ReceivedBytesFollows ==
  ASSUME NEW x, Good(x), NEW unit
  PROVE  Follows(x, V1ReceivedBytes(x, unit), unit)
<1>1. Follows(x, x, unit)
  BY Zenon DEF Follows
<1>. QED
  BY <1>1, RejectFollows, Zenon DEF V1ReceivedBytes

\* The endpoint before its peer's version packet has been looked at.
AtVersion(x) ==
  /\ Good(x)
  /\ ~x.rejected
  /\ x.recv_state = "VERSION"

\* What ProcessHybridVersion leaves of it: v, on which the receive state moves
\* on unless v was rejected.
Versioned(x, v) ==
  /\ v \in Transports /\ Clean(v)
  /\ v.mode = x.mode
  /\ v.recv_state = "VERSION"
  /\ v.hybrid_state # "CONFIRMED"
  /\ v.hybrid_state = "UNCONFIRMED" => v.cipher \in Stage2Keys
  /\ v.cipher \in Stage2Keys => v.hybrid_state \notin {"PENDING", "CLASSICAL"}
  /\ v.mode = "REQUIRE" =>
       /\ v.send_state # "V1"
       /\ v.send_state = "READY" \/ ~v.rejected => v.cipher \in Stage2Keys

LEMMA AtVersionKeys ==
  ASSUME NEW x, AtVersion(x)
  PROVE  /\ x \in Transports /\ Clean(x) /\ x.recv_state = "VERSION" /\ ~x.rejected
         /\ x.cipher = "s1" /\ x.hybrid_state \notin {"UNCONFIRMED", "CONFIRMED"}
         /\ x.mode = "REQUIRE" => x.send_state \notin {"READY", "V1"}
BY Zenon DEF AtVersion, Good, Sound, Stage2Keys

LEMMA FailVersioned ==
  ASSUME NEW x, AtVersion(x), NEW o \in Outcomes
  PROVE  Versioned(x, HybridFail(x, o))
<1>. DEFINE y == HybridFail(x, o)
<1>1. /\ y \in Transports
      /\ y.mode = x.mode /\ y.cipher = x.cipher
      /\ y.recv_state = x.recv_state /\ y.send_state = x.send_state
      /\ y.send_buffer = x.send_buffer
      /\ y.hybrid_state = "FAILED" /\ y.rejected
  BY AtVersionKeys, HybridFailEffect, Zenon
<1>. HIDE DEF y
<1>. QED
  BY <1>1, AtVersionKeys DEF Versioned, Clean, SentBy, y, Stage2Keys

LEMMA StayClassicalVersioned ==
  ASSUME NEW x, AtVersion(x)
  PROVE  Versioned(x, StayClassical(x))
<1>. DEFINE y == StayClassical(x)
            u == [x EXCEPT !.hybrid_state = "CLASSICAL", !.key_pair = FALSE,
                           !.stage2_secret = FALSE]
            v == IF x.initiating THEN PushVersion(u, "EMPTY") ELSE u
            w == [v EXCEPT !.send_state = "READY"]
<1>1. CASE x.mode = "REQUIRE"
  BY <1>1, FailVersioned, Zenon DEF StayClassical, Outcomes
<1>2. CASE x.mode # "REQUIRE"
  <2>1. u \in Transports
    <3>1. x \in Transports
      BY AtVersionKeys, Zenon
    <3>. QED
      BY <3>1, Zenon DEF Transports, HybridStates
  <2>2. /\ u.mode = x.mode /\ u.cipher = "s1" /\ u.recv_state = "VERSION"
        /\ u.hybrid_state = "CLASSICAL" /\ u.send_buffer = x.send_buffer
    BY AtVersionKeys DEF Transports
  <2>3. y = CountHybrid(w, "CLASSICAL")
    BY <1>2, Zenon DEF StayClassical
  <2>. HIDE DEF y, u
  <2>4. Clean(u)
    BY <2>2, AtVersionKeys DEF Clean, SentBy
  <2>5. v \in Transports /\ Alike(u, v) /\ Clean(v)
    BY <2>1, <2>4, PushVersionEffect DEF Bodies, Alike
  <2>. HIDE DEF v
  <2>6. w \in Transports
    BY <2>5, Zenon DEF Transports, SendStates
  <2>7. /\ w.mode = v.mode /\ w.cipher = v.cipher /\ w.recv_state = v.recv_state
        /\ w.hybrid_state = v.hybrid_state /\ w.send_buffer = v.send_buffer
    BY <2>5, Zenon DEF Transports
  <2>. HIDE DEF w
  <2>8. y \in Transports /\ Alike(w, y) /\ y.send_buffer = w.send_buffer
    BY <2>3, <2>6, CountHybridEffect, Zenon DEF Outcomes
  <2>9. Clean(y)
    BY <2>5, <2>7, <2>8 DEF Clean, SentBy, Alike
  <2>. QED
    BY <1>2, <2>2, <2>5, <2>7, <2>8, <2>9 DEF Versioned, Alike, y, Stage2Keys
<1>. QED
  BY <1>1, <1>2, Zenon

LEMMA SwitchedVersioned ==
  ASSUME NEW x, AtVersion(x), NEW v \in Transports, Clean(v), v.mode = x.mode,
         v.recv_state = "VERSION", v.cipher \in Stage2Keys, v.hybrid_state = "UNCONFIRMED",
         v.send_state = "READY"
  PROVE  Versioned(x, v)
BY Zenon DEF Versioned

LEMMA AnswerOfferVersioned ==
  ASSUME NEW x, AtVersion(x), NEW body, NEW kem
  PROVE  Versioned(x, AnswerOffer(x, body, kem))
<1>. DEFINE y == AnswerOffer(x, body, kem)
            b == EncodeHybridRecord(x, "ACCEPT")
            v == PushVersion(x, b)
<1>1. CASE body = "BADKEY" \/ kem = "error" \/ ~x.stage2_secret
  <2>1. y = HybridFail(x, "BAD_RECORD") \/ y = HybridFail(x, "LOCAL_ERROR")
    BY <1>1 DEF AnswerOffer
  <2>. QED
    BY <2>1, FailVersioned, Zenon DEF Outcomes
<1>2. CASE ~(body = "BADKEY" \/ kem = "error" \/ ~x.stage2_secret)
  <2>1. b \in Bodies \ {"MSG"}
    BY AtVersionKeys, EncodeHybridRecordType, Zenon DEF Bodies
  <2>2. y = [SwitchToStage2(v, "s2") EXCEPT !.first_send = TRUE,
                 !.hybrid_state = "UNCONFIRMED", !.send_state = "READY"]
    BY <1>2, Zenon DEF AnswerOffer
  <2>. HIDE DEF y, b
  <2>3. v \in Transports /\ Alike(x, v) /\ Clean(v)
    BY <2>1, AtVersionKeys, PushVersionEffect, Zenon
  <2>. HIDE DEF v
  <2>. DEFINE w == SwitchToStage2(v, "s2")
  <2>4. w \in Transports
    BY <2>3, SwitchToStage2Type, Zenon DEF Stage2Keys
  <2>5. w.mode = v.mode /\ w.recv_state = v.recv_state /\ w.cipher = "s2" /\ w.send_buffer = v.send_buffer
    BY <2>3, Zenon DEF SwitchToStage2, Transports
  <2>. HIDE DEF w
  <2>6. y \in Transports
    BY <2>2, <2>4, Zenon DEF w, Transports, HybridStates, SendStates
  <2>7. /\ y.mode = w.mode /\ y.recv_state = w.recv_state /\ y.cipher = w.cipher
        /\ y.send_buffer = w.send_buffer /\ y.hybrid_state = "UNCONFIRMED" /\ y.send_state = "READY"
    BY <2>2, <2>4, Zenon DEF w, Transports
  <2>8. Clean(y)
    BY <2>3, <2>5, <2>7, AtVersionKeys DEF Clean, SentBy, Alike, Stage2Keys
  <2>. QED
    BY <2>3, <2>5, <2>6, <2>7, <2>8, AtVersionKeys, SwitchedVersioned DEF Alike, Stage2Keys, y
<1>. QED
  BY <1>1, <1>2, Zenon

LEMMA TakeAcceptVersioned ==
  ASSUME NEW x, AtVersion(x), NEW kem
  PROVE  Versioned(x, TakeAccept(x, kem))
<1>. DEFINE y == TakeAccept(x, kem)
            k == IF kem = "other" THEN "s2other" ELSE "s2"
            v == [x EXCEPT !.key_pair = FALSE]
            u == SwitchToStage2(v, k)
            w == PushPacket(u, "EMPTY", FALSE, TRUE, FALSE, 0)
<1>1. CASE kem = "error" \/ ~x.key_pair \/ ~x.stage2_secret
  BY <1>1, FailVersioned, Zenon DEF TakeAccept, Outcomes
<1>2. CASE ~(kem = "error" \/ ~x.key_pair \/ ~x.stage2_secret)
  <2>1. k \in Stage2Keys
    BY Zenon DEF Stage2Keys
  <2>2. v \in Transports
    <3>1. x \in Transports
      BY AtVersionKeys, Zenon
    <3>. QED
      BY <3>1, Zenon DEF Transports
  <2>3. v.mode = x.mode /\ v.recv_state = x.recv_state /\ v.send_buffer = x.send_buffer
    BY AtVersionKeys DEF Transports
  <2>4. y = [w EXCEPT !.hybrid_state = "UNCONFIRMED", !.send_state = "READY"]
    BY <1>2, Zenon DEF TakeAccept
  <2>. HIDE DEF y, k, v
  <2>5. u \in Transports
    BY <2>1, <2>2, SwitchToStage2Type, Zenon
  <2>6. u.mode = v.mode /\ u.recv_state = v.recv_state /\ u.cipher = k /\ u.send_buffer = v.send_buffer
    BY <2>1, <2>2, Zenon DEF SwitchToStage2, Transports
  <2>. HIDE DEF u
  <2>7. Clean(u)
    BY <2>1, <2>3, <2>6, AtVersionKeys DEF Clean, SentBy, Stage2Keys
  <2>8. w \in Transports /\ Alike(u, w) /\ Clean(w)
    BY <2>5, <2>7, PushPacketEffect, Zenon DEF Bodies
  <2>. HIDE DEF w
  <2>9. y \in Transports
    BY <2>4, <2>8, Zenon DEF Transports, HybridStates, SendStates
  <2>10. /\ y.mode = w.mode /\ y.recv_state = w.recv_state /\ y.cipher = w.cipher
         /\ y.send_buffer = w.send_buffer /\ y.hybrid_state = "UNCONFIRMED" /\ y.send_state = "READY"
    BY <2>4, <2>8, Zenon DEF Transports
  <2>11. Clean(y)
    BY <2>8, <2>10 DEF Clean, SentBy, Alike
  <2>. QED
    BY <2>1, <2>3, <2>6, <2>8, <2>9, <2>10, <2>11, AtVersionKeys, SwitchedVersioned DEF Alike, y
<1>. QED
  BY <1>1, <1>2, Zenon

LEMMA ProcessHybridVersionVersioned ==
  ASSUME NEW x, AtVersion(x), NEW body, NEW kem
  PROVE  Versioned(x, ProcessHybridVersion(x, body, kem))
<1>. DEFINE record == ClassifyHybridRecord(body, IF x.initiating THEN "OFFER" ELSE "ACCEPT")
            u == [x EXCEPT !.tag_seen = record # "NONE"]
            y == ProcessHybridVersion(x, body, kem)
<1>1. record \in {"NONE", "VALID", "MALFORMED"}
  BY Zenon DEF ClassifyHybridRecord
<1>2. x \in Transports
  BY AtVersionKeys, Zenon
<1>3. /\ record = "NONE" => y = StayClassical(u)
      /\ record = "MALFORMED" => y = HybridFail(u, "BAD_RECORD")
      /\ record = "VALID" => y = AnswerOffer(u, body, kem) \/ y = TakeAccept(u, kem)
  BY <1>2, Zenon DEF ProcessHybridVersion, Transports
<1>. HIDE DEF record, y
<1>4. u \in Transports
  BY <1>2, ZenonT(30) DEF Transports
<1>5. Alike(x, u) /\ u.send_buffer = x.send_buffer
  BY <1>2, Zenon DEF Alike, Transports
<1>. HIDE DEF u
<1>6. AtVersion(u)
  BY <1>4, <1>5, Zenon DEF AtVersion, Good, Sound, Clean, SentBy, Alike
<1>7. Versioned(u, y)
  BY <1>1, <1>3, <1>6, StayClassicalVersioned, FailVersioned, AnswerOfferVersioned,
     TakeAcceptVersioned, Zenon DEF Outcomes
<1>. QED
  BY <1>5, <1>7, Zenon DEF Versioned, Alike, y

\* In require mode a message in place of the version packet is refused.
LEMMA MessageIsNoVersion ==
  ASSUME NEW x, AtVersion(x), NEW kem
  PROVE  ProcessHybridVersion(x, "MSG", kem).rejected
<1>. DEFINE u == [x EXCEPT !.tag_seen = TRUE]
<1>1. x \in Transports
  BY AtVersionKeys, Zenon
<1>2. ProcessHybridVersion(x, "MSG", kem) = HybridFail(u, "BAD_RECORD")
  BY Zenon DEF ProcessHybridVersion, ClassifyHybridRecord
<1>3. u \in Transports
  BY <1>1, Zenon DEF Transports
<1>. QED
  BY <1>2, <1>3, HybridFailEffect, Zenon DEF Outcomes

\* A packet that authenticates, before the receiver looks at what is in it.
LEMMA AuthenticatedFollows ==
  ASSUME NEW x, Good(x), ~x.rejected, x.recv_state \in {"VERSION", "APP"},
         NEW unit, unit.key = x.cipher
  PROVE  LET u == Confirm([x EXCEPT !.recv_aad = FALSE, !.recv_seq = @ + 1])
         IN  /\ Follows(x, u, unit)
             /\ u.recv_state = x.recv_state /\ ~u.rejected /\ u.cipher = x.cipher
             /\ u.stalled = x.stalled
<1>. DEFINE z == [x EXCEPT !.recv_aad = FALSE, !.recv_seq = @ + 1]
            w == [z EXCEPT !.hybrid_state = "CONFIRMED"]
            u == Confirm(z)
<1>1. x \in Transports
  BY Zenon DEF Good
<1>2. z \in Transports
  <2>1. x.recv_seq + 1 \in Nat
    BY <1>1 DEF Transports
  <2>. QED
    BY <1>1, <2>1, Zenon DEF Transports
<1>3. Alike(x, z) /\ z.send_buffer = x.send_buffer
  BY <1>1, Zenon DEF Alike, Transports
<1>. HIDE DEF z
<1>4. CASE ~AwaitsConfirmation(z)
  <2>1. u = z
    BY <1>4, Zenon DEF Confirm
  <2>2. Good(z)
    BY <1>2, <1>3, Zenon DEF Good, Sound, Clean, SentBy, Alike
  <2>3. Follows(x, z, unit)
    BY <1>3, <2>2, Zenon DEF Follows, Alike
  <2>. QED
    BY <1>3, <2>1, <2>3, Zenon DEF Alike, z
<1>5. CASE AwaitsConfirmation(z)
  <2>1. u = CountHybrid(w, "HYBRID")
    BY <1>5, Zenon DEF Confirm
  <2>2. w \in Transports
    BY <1>2, Zenon DEF Transports, HybridStates
  <2>3. /\ w.mode = x.mode /\ w.recv_state = x.recv_state /\ w.send_state = x.send_state
        /\ w.cipher = x.cipher /\ w.rejected = x.rejected /\ w.stalled = x.stalled
        /\ w.send_buffer = x.send_buffer /\ w.hybrid_state = "CONFIRMED"
    BY <1>2, <1>3, Zenon DEF Transports, Alike
  <2>. HIDE DEF u, w
  <2>4. u \in Transports /\ Alike(w, u) /\ u.send_buffer = w.send_buffer
    BY <2>1, <2>2, CountHybridEffect, Zenon DEF Outcomes
  <2>5. x.hybrid_state = "UNCONFIRMED"
    BY <1>3, <1>5, Zenon DEF AwaitsConfirmation, Alike
  <2>6. Good(u)
    BY <2>3, <2>4, <2>5 DEF Good, Sound, Clean, SentBy, Alike
  <2>. QED
    BY <2>3, <2>4, <2>6, Zenon DEF Follows, Alike, u, z
<1>. QED
  BY <1>4, <1>5, Zenon

LEMMA RejectPacketFollows ==
  ASSUME NEW x, Good(x), NEW unit
  PROVE  Follows(x, RejectPacket(x), unit) /\ RejectPacket(x).rejected
<1>1. x \in Transports /\ "STAGE2_FAILED" \in Outcomes
  BY Zenon DEF Good, Outcomes
<1>. QED
  BY <1>1, FailFollows, RejectFollows, Zenon DEF RejectPacket

LEMMA ProcessReceivedPacketBytesFollows ==
  ASSUME NEW x, Good(x), ~x.rejected, x.recv_state \in {"VERSION", "APP"},
         NEW unit \in Units, NEW kem, NEW wait \in BOOLEAN
  PROVE  LET y == ProcessReceivedPacketBytes(x, unit, kem, wait)
         IN  /\ Follows(x, y, unit)
             /\ MessageComplete(y, unit) /\ y.mode = "REQUIRE" => unit.key \in Stage2Keys
<1>. DEFINE y == ProcessReceivedPacketBytes(x, unit, kem, wait)
            readable == ~x.stalled /\ unit.key = x.cipher /\ unit.seq = x.recv_seq
            ok == readable /\ unit.aad = x.recv_aad /\ ~(AwaitsConfirmation(x) /\ unit.big)
            u == Confirm([x EXCEPT !.recv_aad = FALSE, !.recv_seq = @ + 1])
            v == IF x.mode = "OFF" THEN u ELSE ProcessHybridVersion(u, unit.body, kem)
            w == [v EXCEPT !.recv_state = "APP"]
            Goal == /\ Follows(x, y, unit)
                    /\ MessageComplete(y, unit) /\ y.mode = "REQUIRE" => unit.key \in Stage2Keys
<1>1. x \in Transports /\ unit.ignore \in BOOLEAN
  BY Zenon DEF Good, Units
<1>2. CASE ~readable /\ wait
  <2>1. y = [x EXCEPT !.stalled = TRUE]
    BY <1>2, Zenon DEF ProcessReceivedPacketBytes
  <2>. HIDE DEF y
  <2>2. y \in Transports
    BY <1>1, <2>1, Zenon DEF Transports
  <2>3. /\ y.mode = x.mode /\ y.recv_state = x.recv_state /\ y.send_state = x.send_state
        /\ y.cipher = x.cipher /\ y.rejected = x.rejected /\ y.stalled
        /\ y.send_buffer = x.send_buffer /\ y.hybrid_state = x.hybrid_state
    BY <1>1, <2>1, Zenon DEF Transports
  <2>4. Good(y)
    BY <2>2, <2>3 DEF Good, Sound, Clean, SentBy
  <2>5. Goal
    BY <2>3, <2>4, Zenon DEF Follows, MessageComplete
  <2>. QED
    BY <2>5, Zenon DEF y
<1>3. CASE ~ok /\ (readable \/ ~wait)
  <2>1. y = RejectPacket(x)
    BY <1>3, Zenon DEF ProcessReceivedPacketBytes
  <2>2. Goal
    BY <2>1, RejectPacketFollows, Zenon DEF MessageComplete
  <2>. QED
    BY <2>2, Zenon
<1>4. CASE ok
  <2>1. /\ Follows(x, u, unit) /\ u.recv_state = x.recv_state /\ ~u.rejected
        /\ u.cipher = x.cipher /\ u.stalled = x.stalled
    BY <1>4, AuthenticatedFollows, Zenon
  <2>2. unit.key = x.cipher
    BY <1>4, Zenon
  <2>3. CASE unit.ignore \/ x.recv_state = "APP"
    <3>1. y = u
      BY <1>4, <2>3, Zenon DEF ProcessReceivedPacketBytes
    <3>. HIDE DEF u
    <3>2. y.mode = "REQUIRE" /\ MessageComplete(y, unit) => unit.key \in Stage2Keys
      BY <2>1, <2>2, <3>1, Zenon DEF Follows, Good, Sound, MessageComplete
    <3>. QED
      BY <2>1, <3>1, <3>2, Zenon
  <2>4. CASE ~unit.ignore /\ x.recv_state = "VERSION"
    <3>1. y = IF v.rejected THEN v ELSE w
      BY <1>4, <2>4, Zenon DEF ProcessReceivedPacketBytes
    <3>. HIDE DEF u, y
    <3>2. AtVersion(u)
      BY <2>1, <2>4, Zenon DEF AtVersion, Follows
    <3>3. CASE x.mode = "OFF"
      <4>1. u \in Transports
        BY <3>2, AtVersionKeys, Zenon
      <4>2. w \in Transports
        BY <3>3, <4>1 DEF Transports, RecvStates
      <4>3. /\ w.mode = u.mode /\ w.recv_state = "APP" /\ w.send_state = u.send_state
            /\ w.cipher = u.cipher /\ w.send_buffer = u.send_buffer /\ w.hybrid_state = u.hybrid_state
        BY <3>3, <4>1, Zenon DEF Transports
      <4>4. y = w
        BY <2>1, <3>1, <3>3, Zenon
      <4>. HIDE DEF w
      <4>5. Goal
        BY <2>1, <3>2, <3>3, <4>2, <4>3, <4>4, AtVersionKeys DEF Follows, Good, Sound, Clean,
           SentBy, Stage2Keys
      <4>. QED
        BY <4>5, Zenon DEF y
    <3>4. CASE x.mode # "OFF"
      <4>1. v = ProcessHybridVersion(u, unit.body, kem)
        BY <3>4, Zenon
      <4>. HIDE DEF v
      <4>2. Versioned(u, v)
        BY <3>2, <4>1, ProcessHybridVersionVersioned, Zenon
      <4>3. v \in Transports
        BY <4>2, Zenon DEF Versioned
      <4>4. unit.body = "MSG" => v.rejected
        BY <3>2, <4>1, MessageIsNoVersion, Zenon
      <4>5. CASE v.rejected
        <5>1. Good(v)
          BY <4>2, <4>5, Zenon DEF Versioned, Good, Sound
        <5>2. Goal
          BY <2>1, <3>1, <3>2, <4>2, <4>5, <5>1, AtVersionKeys, Zenon
            DEF Versioned, Follows, MessageComplete, Stage2Keys
        <5>. QED
          BY <5>2, Zenon DEF y
      <4>6. CASE ~v.rejected
        <5>1. w \in Transports
          BY <4>3, Zenon DEF Transports, RecvStates
        <5>2. /\ w.mode = v.mode /\ w.recv_state = "APP" /\ w.send_state = v.send_state
              /\ w.cipher = v.cipher /\ w.send_buffer = v.send_buffer /\ w.hybrid_state = v.hybrid_state
          BY <4>3, Zenon DEF Transports
        <5>3. y = w
          BY <3>1, <4>6, Zenon
        <5>. HIDE DEF w
        <5>4. Good(w)
          BY <4>2, <4>6, <5>1, <5>2 DEF Versioned, Good, Sound, Clean, SentBy
        <5>5. Follows(x, y, unit)
          BY <2>1, <3>2, <4>2, <5>2, <5>3, <5>4, AtVersionKeys, Zenon DEF Versioned, Follows,
             Stage2Keys
        <5>6. Goal
          BY <4>4, <4>6, <5>5, Zenon DEF MessageComplete
        <5>. QED
          BY <5>6, Zenon DEF y
      <4>. QED
        BY <4>5, <4>6, Zenon
    <3>. QED
      BY <3>3, <3>4, Zenon
  <2>. QED
    BY <2>3, <2>4, Zenon
<1>. QED
  BY <1>2, <1>3, <1>4, Zenon

\* Reading any unit in any receive state.
LEMMA ReceivedBytesFollows ==
  ASSUME NEW x, Good(x), ~x.rejected, NEW unit \in Units, NEW kem, NEW wait \in BOOLEAN
  PROVE  LET y == ReceivedBytes(x, unit, kem, wait)
         IN  /\ Follows(x, y, unit)
             /\ MessageComplete(y, unit) /\ y.mode = "REQUIRE" => unit.key \in Stage2Keys
<1>. DEFINE y == ReceivedBytes(x, unit, kem, wait)
<1>1. x.recv_state \in RecvStates
  BY Zenon DEF Good, Transports
<1>2. CASE x.recv_state = "V1"
  <2>1. y = V1ReceivedBytes(x, unit)
    BY <1>2, Zenon DEF ReceivedBytes
  <2>2. x.mode # "REQUIRE"
    BY <1>2, Zenon DEF Good, Sound
  <2>3. Follows(x, y, unit)
    BY <2>1, V1ReceivedBytesFollows, Zenon
  <2>4. y.mode # "REQUIRE"
    BY <2>2, <2>3, Zenon DEF Follows
  <2>. QED
    BY <2>3, <2>4, Zenon
<1>3. CASE x.recv_state \in {"KEY_MAYBE_V1", "KEY", "GARB_GARBTERM"}
  <2>1. Follows(x, y, unit)
    BY <1>3, ProcessReceivedMaybeV1BytesFollows, ProcessReceivedKeyBytesFollows,
       ProcessReceivedGarbageBytesFollows, Zenon DEF ReceivedBytes
  <2>. HIDE DEF y
  <2>2. MessageComplete(y, unit) /\ y.mode = "REQUIRE" => unit.key \in Stage2Keys
    BY <1>3, <2>1, Zenon DEF Follows, Good, Sound, MessageComplete
  <2>. QED
    BY <2>1, <2>2, Zenon DEF y
<1>4. CASE x.recv_state \in {"VERSION", "APP"}
  <2>1. y = ProcessReceivedPacketBytes(x, unit, kem, wait)
    BY <1>4, Zenon DEF ReceivedBytes
  <2>. QED
    BY <1>4, <2>1, ProcessReceivedPacketBytesFollows, Zenon
<1>. QED
  BY <1>1, <1>2, <1>3, <1>4, Zenon DEF RecvStates

-----------------------------------------------------------------------------
(* The other steps an endpoint takes.                                      *)

LEMMA MakeTransportGood ==
  ASSUME NEW s \in Sides, NEW m \in Modes, NEW q \in {"none", "MALFORMED", "BADKEY"}
  PROVE  LET x == MakeTransport(s, m, q)
         IN  Good(x) /\ ~x.rejected /\ x.hybrid_state = "PENDING" /\ x.cipher = "none"
<1>. DEFINE x == MakeTransport(s, m, q)
<1>1. x \in Transports
  BY MakeTransportType, Zenon
<1>2. /\ x.hybrid_state = "PENDING" /\ x.cipher = "none" /\ ~x.rejected
      /\ x.recv_state \in {"V1", "KEY", "KEY_MAYBE_V1"} /\ x.mode = m
      /\ x.send_state \in {"V1", "AWAITING_KEY", "MAYBE_V1"}
      /\ m = "REQUIRE" => x.recv_state # "V1" /\ x.send_state # "V1"
  BY Zenon DEF MakeTransport, StartSendingHandshake, HandshakeModes
<1>3. x.send_buffer = <<>> \/ x.send_buffer = <<Unit("KEY_HEAD"), Unit("KEY_REST")>>
  BY Zenon DEF MakeTransport, StartSendingHandshake
<1>. HIDE DEF x
<1>4. Sound(x)
  BY <1>2, Zenon DEF Sound, Stage2Keys
<1>5. Clean(x)
  BY <1>3 DEF Clean, SentBy, Unit, Stage2Keys
<1>. QED
  BY <1>1, <1>2, <1>4, <1>5, Zenon DEF Good, x

\* A step that only sends or counts: the keys and the handshake stay.
LEMMA AlikeGood ==
  ASSUME NEW x, Good(x), NEW y \in Transports, Alike(x, y), Clean(y)
  PROVE  Good(y)
BY Zenon DEF Good, Sound, Alike

LEMMA SetMessageToSendGood ==
  ASSUME NEW x, Good(x), NEW n \in Nat, NEW big \in BOOLEAN, CanSetMessageToSend(x)
  PROVE  Good(SetMessageToSend(x, n, big)) /\ Alike(x, SetMessageToSend(x, n, big))
<1>. DEFINE y == SetMessageToSend(x, n, big)
<1>1. x \in Transports /\ Clean(x)
  BY Zenon DEF Good
<1>2. CASE x.send_state = "V1"
  <2>. DEFINE u == V1Unit(IF x.mode = "V1ALIEN" THEN "V1ALIEN" ELSE "V1MSG", n)
  <2>1. u \in Units /\ u.key = "none"
    BY Zenon DEF V1Unit, Unit, Units, Ciphers, Bodies
  <2>2. x.mode # "REQUIRE"
    BY <1>2, Zenon DEF Good, Sound
  <2>3. y = Push(x, u)
    BY <1>2, Zenon DEF SetMessageToSend
  <2>. HIDE DEF u, y
  <2>4. SentBy(x, u)
    BY <2>1, <2>2, Zenon DEF SentBy, Stage2Keys
  <2>5. y \in Transports /\ Alike(x, y) /\ Clean(y)
    BY <1>1, <2>1, <2>3, <2>4, PushEffect, Zenon
  <2>. QED
    BY <2>5, AlikeGood, Zenon DEF y
<1>3. CASE x.send_state # "V1"
  <2>. DEFINE v == PushPacket(x, "EMPTY", FALSE, TRUE, FALSE, 0)
              u == IF x.mode # "OFF" /\ x.first_send /\ big THEN v ELSE x
              w == PushPacket(u, "MSG", FALSE, FALSE, big, n)
  <2>1. v \in Transports /\ Alike(x, v) /\ Clean(v)
    BY <1>1, PushPacketEffect, Zenon DEF Bodies
  <2>. HIDE DEF v
  <2>2. u \in Transports /\ Alike(x, u) /\ Clean(u)
    BY <1>1, <2>1, Zenon DEF Alike
  <2>3. y = [w EXCEPT !.first_send = FALSE]
    BY <1>3, Zenon DEF SetMessageToSend, v
  <2>. HIDE DEF u, y
  <2>4. u.mode = "REQUIRE" => u.cipher \in Stage2Keys
    BY <1>3, <2>2, Zenon DEF CanSetMessageToSend, Good, Sound, Alike
  <2>5. w \in Transports /\ Alike(u, w) /\ Clean(w)
    <3>1. "MSG" \in Bodies /\ FALSE \in BOOLEAN
      BY Zenon DEF Bodies
    <3>. QED
      BY <2>2, <2>4, <3>1, PushPacketEffect, Zenon
  <2>. HIDE DEF w
  <2>6. y \in Transports
    BY <2>3, <2>5, Zenon DEF Transports
  <2>7. Alike(w, y) /\ y.send_buffer = w.send_buffer
    BY <2>3, <2>5, Zenon DEF Transports, Alike
  <2>8. Alike(x, y) /\ Clean(y)
    BY <2>2, <2>5, <2>7 DEF Alike, Clean, SentBy
  <2>. QED
    BY <2>6, <2>8, AlikeGood, Zenon DEF y
<1>. QED
  BY <1>2, <1>3, Zenon

LEMMA MarkBytesSentGood ==
  ASSUME NEW x, Good(x), x.send_buffer # <<>>
  PROVE  Good(MarkBytesSent(x)) /\ Alike(x, MarkBytesSent(x))
<1>. DEFINE y == MarkBytesSent(x)
<1>1. x \in Transports /\ x.send_buffer \in Seq(Units) /\ x.sent_v1_header_worth \in BOOLEAN
  BY Zenon DEF Good, Transports
<1>2. Tail(x.send_buffer) \in Seq(Units)
  BY <1>1
<1>3. (x.sent_v1_header_worth \/ x.send_state # "V1") \in BOOLEAN
  BY <1>1, Zenon
<1>4. y = [x EXCEPT !.send_buffer = Tail(x.send_buffer),
                    !.sent_v1_header_worth = (x.sent_v1_header_worth \/ x.send_state # "V1")]
  BY <1>1, Zenon DEF MarkBytesSent
<1>. HIDE DEF y
<1>5. y \in Transports
  BY <1>1, <1>2, <1>3, <1>4, ZenonT(30) DEF Transports
<1>6. Alike(x, y) /\ y.send_buffer = Tail(x.send_buffer)
  BY <1>1, <1>4, Zenon DEF Transports, Alike
<1>7. Clean(y)
  <2>1. SUFFICES ASSUME NEW i \in 1..Len(Tail(x.send_buffer))
                 PROVE  SentBy(x, Tail(x.send_buffer)[i])
    BY <1>6, Zenon DEF Clean, SentBy, Alike
  <2>2. i + 1 \in 1..Len(x.send_buffer) /\ Tail(x.send_buffer)[i] = x.send_buffer[i + 1]
    BY <1>1, <2>1
  <2>. QED
    BY <2>2, Zenon DEF Good, Clean
<1>. QED
  BY <1>5, <1>6, <1>7, AlikeGood, Zenon DEF y

LEMMA CountHybridGood ==
  ASSUME NEW x, Good(x), NEW o \in Outcomes
  PROVE  Good(CountHybrid(x, o)) /\ Alike(x, CountHybrid(x, o))
<1>1. LET y == CountHybrid(x, o)
      IN  y \in Transports /\ Alike(x, y) /\ y.send_buffer = x.send_buffer
  BY CountHybridEffect, Zenon DEF Good
<1>2. Clean(CountHybrid(x, o))
  BY <1>1, Zenon DEF Good, Clean, SentBy, Alike
<1>. QED
  BY <1>1, <1>2, AlikeGood, Zenon

-----------------------------------------------------------------------------
(* The connection.                                                         *)

LEMMA OtherSide ==
  ASSUME NEW s \in Sides
  PROVE  Other(s) \in Sides /\ Other(s) # s /\ Other(Other(s)) = s /\ Sides = {s, Other(s)}
BY Zenon DEF Sides, Other

LEMMA SentByKeeps ==
  ASSUME NEW x, NEW y, y.mode = x.mode, x.cipher \in Stage2Keys => y.cipher = x.cipher,
         NEW u, SentBy(x, u)
  PROVE  SentBy(y, u)
BY Zenon DEF SentBy

\* What any step of side s owes: its transport moves to a good y, the units and
\* messages it leaves behind were there before or are its own.
LEMMA StepKeepsDiscipline ==
  ASSUME TypeOK, KeyDiscipline, NEW s \in Sides, NEW y, Good(y),
         transport' = [transport EXCEPT ![s] = y],
         y.mode = transport[s].mode,
         transport[s].cipher \in Stage2Keys => y.cipher = transport[s].cipher,
         y.hybrid_state = "CONFIRMED" => transport[Other(s)].cipher = y.cipher,
         y.rejected => ~sock'[s],
         sock'[Other(s)] => sock[Other(s)],
         \A p \in Sides : \A i \in 1..Len(wire'[p]) :
           \/ \E j \in 1..Len(wire[p]) : wire'[p][i] = wire[p][j]
           \/ /\ p = Other(s)
              /\ \E j \in 1..Len(transport[s].send_buffer) : wire'[p][i] = transport[s].send_buffer[j],
         \A p \in Sides : \A i \in 1..Len(received'[p]) :
           \/ \E j \in 1..Len(received[p]) : received'[p][i] = received[p][j]
           \/ (\E q \in Sides : transport[q].mode = "REQUIRE") => received'[p][i].key \in Stage2Keys,
         \A p \in Sides :
           \/ reconnect'[p] = reconnect[p]
           \/ transport[p].mode = "REQUIRE" => reconnect'[p] \cap {"v1", "classical"} = {}
  PROVE  KeyDiscipline'
<1>. DEFINE o == Other(s)
<1>1. o \in Sides /\ o # s /\ Other(o) = s /\ Sides = {s, o}
  BY OtherSide, Zenon
<1>2. transport'[s] = y /\ transport'[o] = transport[o]
  BY <1>1, Zenon DEF TypeOK
<1>3. \A p \in Sides : transport'[p].mode = transport[p].mode
  BY <1>1, <1>2, Zenon
<1>4. \A p \in Sides : Sound(transport'[p]) /\ (transport'[p].rejected => ~sock'[p])
  BY <1>1, <1>2 DEF Good, KeyDiscipline
<1>5. \A p \in Sides : \A i \in 1..Len(transport'[p].send_buffer) :
        SentBy(transport'[p], transport'[p].send_buffer[i])
  BY <1>1, <1>2 DEF Good, Clean, KeyDiscipline
<1>6. \A i \in 1..Len(wire'[o]) : SentBy(y, wire'[o][i])
  <2>1. SUFFICES ASSUME NEW i \in 1..Len(wire'[o]) PROVE SentBy(transport[s], wire'[o][i])
    BY SentByKeeps, Zenon
  <2>. QED
    BY <1>1, <2>1 DEF KeyDiscipline
<1>7. \A i \in 1..Len(wire'[s]) : SentBy(transport[o], wire'[s][i])
  BY <1>1 DEF KeyDiscipline
<1>8. \A p \in Sides : transport'[p].hybrid_state = "CONFIRMED" =>
                         transport'[Other(p)].cipher = transport'[p].cipher
  <2>1. transport[o].hybrid_state = "CONFIRMED" => y.cipher = transport[o].cipher
    BY <1>1 DEF KeyDiscipline, Sound
  <2>. QED
    BY <1>1, <1>2, <2>1
<1>9. ASSUME NEW p \in Sides, transport'[p].mode = "REQUIRE"
      PROVE  /\ \A i \in 1..Len(received'[p]) : received'[p][i].key \in Stage2Keys
             /\ \A i \in 1..Len(received'[Other(p)]) : received'[Other(p)][i].key \in Stage2Keys
  <2>1. transport[p].mode = "REQUIRE" /\ Other(p) \in Sides
    BY <1>3, <1>9, OtherSide, Zenon
  <2>. QED
    BY <2>1, ZenonT(30) DEF KeyDiscipline
<1>10. ASSUME NEW p \in Sides, transport'[p].mode = "REQUIRE"
       PROVE  "v1" \notin reconnect'[p] /\ "classical" \notin reconnect'[p]
  BY <1>3, <1>10 DEF KeyDiscipline
<1>11. \A p \in Sides : \A i \in 1..Len(wire'[Other(p)]) : SentBy(transport'[p], wire'[Other(p)][i])
  BY <1>1, <1>2, <1>6, <1>7
<1>. QED
  BY <1>4, <1>5, <1>8, <1>9, <1>10, <1>11, Zenon DEF KeyDiscipline

IInv == TypeOK /\ KeyDiscipline

LEMMA InvGood ==
  ASSUME IInv, NEW s \in Sides
  PROVE  Good(transport[s])
BY Zenon DEF IInv, TypeOK, KeyDiscipline, Good, Clean

LEMMA InitIInv == Init => IInv
<1>. SUFFICES ASSUME Init PROVE IInv
  BY Zenon
<1>1. PICK p \in Pairings, q \in [Sides -> Quirks] :
        transport = [s \in Sides |-> MakeTransport(s, p[s], q[s])]
  BY Zenon DEF Init
<1>2. ASSUME NEW s \in Sides
      PROVE  /\ Good(transport[s]) /\ ~transport[s].rejected
             /\ transport[s].hybrid_state = "PENDING"
  <2>1. p[s] \in Modes
    BY PairingsAssumption, Zenon
  <2>2. q[s] \in {"none", "MALFORMED", "BADKEY"}
    BY Zenon DEF Quirks
  <2>. QED
    BY <1>1, <2>1, <2>2, MakeTransportGood
<1>3. transport \in [Sides -> Transports]
  BY <1>1, <1>2, Zenon DEF Good
<1>4. TypeOK
  BY <1>3, MaxMsgsAssumption DEF Init, TypeOK, CloseCauses
<1>5. KeyDiscipline
  BY <1>2, OtherSide DEF Init, KeyDiscipline, Good, Clean
<1>. QED
  BY <1>4, <1>5, Zenon DEF IInv

LEMMA QueueMessageStep ==
  ASSUME IInv, NEW s \in Sides, QueueMessage(s)
  PROVE  IInv'
<1>. USE DEF IInv
<1>1. PICK big \in BOOLEAN :
        transport' = [transport EXCEPT ![s] = SetMessageToSend(transport[s], sent[s] + 1, big)]
  BY Zenon DEF QueueMessage, TypeOK
<1>. DEFINE y == SetMessageToSend(transport[s], sent[s] + 1, big)
<1>2. sent[s] \in Nat /\ sent[s] + 1 \in 0..MaxMsgs
  BY MaxMsgsAssumption DEF QueueMessage, HasMessage, TypeOK
<1>3. Good(y) /\ Alike(transport[s], y)
  BY <1>2, InvGood, SetMessageToSendGood DEF QueueMessage
<1>. HIDE DEF y
<1>4. TypeOK'
  <2>1. transport' \in [Sides -> Transports]
    BY <1>1, <1>3, Zenon DEF TypeOK, Good, y
  <2>2. sent' \in [Sides -> 0..MaxMsgs]
    BY <1>2, Zenon DEF QueueMessage, TypeOK
  <2>. QED
    BY <2>1, <2>2, Zenon DEF QueueMessage, TypeOK
<1>5. KeyDiscipline'
  <2>1. transport' = [transport EXCEPT ![s] = y]
    BY <1>1, Zenon DEF y
  <2>2. /\ y.mode = transport[s].mode /\ y.cipher = transport[s].cipher
        /\ y.hybrid_state = transport[s].hybrid_state /\ y.rejected = transport[s].rejected
    BY <1>3, Zenon DEF Alike
  <2>3. /\ wire' = wire /\ received' = received /\ reconnect' = reconnect /\ sock' = sock
    BY Zenon DEF QueueMessage
  <2>4. /\ transport[s].hybrid_state = "CONFIRMED" => transport[Other(s)].cipher = transport[s].cipher
        /\ transport[s].rejected => ~sock[s]
    BY Zenon DEF KeyDiscipline
  <2>. QED
    BY <1>3, <2>1, <2>2, <2>3, <2>4, StepKeepsDiscipline, Zenon
<1>. QED
  BY <1>4, <1>5, Zenon

LEMMA SendBytesStep ==
  ASSUME IInv, NEW s \in Sides, SendBytes(s)
  PROVE  IInv'
<1>. USE DEF IInv
<1>. DEFINE y == MarkBytesSent(transport[s])
            b == transport[s].send_buffer
            o == Other(s)
<1>1. transport' = [transport EXCEPT ![s] = y]
  BY Zenon DEF SendBytes, TypeOK
<1>2. Good(y) /\ Alike(transport[s], y)
  BY InvGood, MarkBytesSentGood, Zenon DEF SendBytes
<1>. HIDE DEF y
<1>3. b \in Seq(Units) /\ b # <<>>
  BY Zenon DEF SendBytes, TypeOK, Transports
<1>4. Head(b) \in Units /\ Head(b) = b[1] /\ 1 \in 1..Len(b)
  BY <1>3
<1>. HIDE DEF b
<1>5. o \in Sides /\ wire[o] \in Seq(Units)
  BY OtherSide, Zenon DEF TypeOK
<1>6. /\ wire' \in [Sides -> Seq(Units)]
      /\ \A p \in Sides : p # o => wire'[p] = wire[p]
      /\ wire'[o] = Append(wire[o], Head(b)) \/ wire'[o] = wire[o]
  <2>1. Append(wire[o], Head(b)) \in Seq(Units)
    BY <1>4, <1>5
  <2>. QED
    BY <1>5, <2>1, Zenon DEF SendBytes, TypeOK, b
<1>7. TypeOK'
  <2>1. transport' \in [Sides -> Transports]
    BY <1>1, <1>2, Zenon DEF TypeOK, Good
  <2>. QED
    BY <1>6, <2>1, Zenon DEF SendBytes, TypeOK
<1>8. KeyDiscipline'
  <2>1. /\ y.mode = transport[s].mode /\ y.cipher = transport[s].cipher
        /\ y.hybrid_state = transport[s].hybrid_state /\ y.rejected = transport[s].rejected
    BY <1>2, Zenon DEF Alike
  <2>2. /\ received' = received /\ reconnect' = reconnect /\ sock' = sock
    BY Zenon DEF SendBytes
  <2>3. /\ transport[s].hybrid_state = "CONFIRMED" => transport[Other(s)].cipher = transport[s].cipher
        /\ transport[s].rejected => ~sock[s]
    BY Zenon DEF KeyDiscipline
  <2>4. ASSUME NEW p \in Sides, NEW i \in 1..Len(wire'[p])
        PROVE  \/ \E j \in 1..Len(wire[p]) : wire'[p][i] = wire[p][j]
               \/ p = o /\ \E j \in 1..Len(b) : wire'[p][i] = b[j]
    <3>1. CASE wire'[p] = wire[p]
      BY <2>4, <3>1, Zenon
    <3>2. CASE p = o /\ wire'[o] = Append(wire[o], Head(b))
      <4>1. (i \in 1..Len(wire[o]) /\ wire'[p][i] = wire[o][i]) \/ wire'[p][i] = b[1]
        BY <1>4, <1>5, <2>4, <3>2
      <4>. QED
        BY <1>4, <3>2, <4>1, Zenon
    <3>. QED
      BY <1>6, <3>1, <3>2, Zenon
  <2>. QED
    BY <1>1, <1>2, <2>1, <2>2, <2>3, <2>4, StepKeepsDiscipline, Zenon DEF b
<1>. QED
  BY <1>7, <1>8, Zenon

LEMMA ReceiveMsgBytesStep ==
  ASSUME IInv, NEW s \in Sides, ReceiveMsgBytes(s)
  PROVE  IInv'
<1>. USE DEF IInv
<1>. DEFINE x == transport[s]
            unit == Head(wire[s])
            o == Other(s)
            m == [n |-> unit.n, key |-> unit.key]
<1>1. PICK kem \in KemResults, wait \in BOOLEAN :
        LET u == ReceivedBytes(x, unit, kem, wait)
        IN  /\ transport' = [transport EXCEPT ![s] = u]
            /\ received' = IF MessageComplete(u, unit)
                           THEN [received EXCEPT ![s] = Append(@, m)] ELSE received
            /\ IF u.rejected THEN Close(s, "TRANSPORT")
               ELSE UNCHANGED <<sock, fDisconnect, close_cause>>
  BY Zenon DEF ReceiveMsgBytes
<1>. DEFINE y == ReceivedBytes(x, unit, kem, wait)
<1>2. /\ wire[s] \in Seq(Units) /\ wire[s] # <<>> /\ sock[s] = TRUE
      /\ o \in Sides /\ Other(o) = s /\ o # s
  BY OtherSide, Zenon DEF ReceiveMsgBytes, TypeOK
<1>3. unit \in Units /\ unit = wire[s][1] /\ 1 \in 1..Len(wire[s])
  BY <1>2
<1>4. Good(x) /\ ~x.rejected
  BY <1>2, InvGood, Zenon DEF KeyDiscipline
<1>5. SentBy(transport[o], unit)
  BY <1>2, <1>3 DEF KeyDiscipline
<1>. HIDE DEF unit
<1>6. /\ Follows(x, y, unit)
      /\ MessageComplete(y, unit) /\ y.mode = "REQUIRE" => unit.key \in Stage2Keys
  BY <1>3, <1>4, ReceivedBytesFollows, Zenon
<1>7. /\ transport' = [transport EXCEPT ![s] = y]
      /\ received' = IF MessageComplete(y, unit)
                     THEN [received EXCEPT ![s] = Append(@, m)] ELSE received
      /\ IF y.rejected THEN Close(s, "TRANSPORT")
         ELSE UNCHANGED <<sock, fDisconnect, close_cause>>
  BY <1>1, Zenon
<1>. HIDE DEF y
<1>8. /\ sock' \in [Sides -> BOOLEAN] /\ fDisconnect' \in [Sides -> BOOLEAN]
      /\ close_cause' \in [Sides -> CloseCauses]
      /\ y.rejected => ~sock'[s]
      /\ sock'[o] = sock[o]
  BY <1>2, <1>7, Zenon DEF TypeOK, Close, CloseCauses
<1>9. received[s] \in Seq([n : Nat, key : Ciphers]) /\ m \in [n : Nat, key : Ciphers]
  BY <1>3, Zenon DEF TypeOK, Units
<1>10. wire' = [wire EXCEPT ![s] = Tail(wire[s])] /\ Tail(wire[s]) \in Seq(Units)
  BY <1>2 DEF ReceiveMsgBytes, TypeOK
<1>11. TypeOK'
  <2>1. transport' \in [Sides -> Transports]
    BY <1>6, <1>7, Zenon DEF TypeOK, Good, Follows
  <2>2. wire' \in [Sides -> Seq(Units)]
    BY <1>10, Zenon DEF TypeOK
  <2>3. received' \in [Sides -> Seq([n : Nat, key : Ciphers])]
    <3>1. Append(received[s], m) \in Seq([n : Nat, key : Ciphers])
      BY <1>9
    <3>. QED
      BY <1>7, <3>1, Zenon DEF TypeOK
  <2>. QED
    BY <1>8, <2>1, <2>2, <2>3, Zenon DEF ReceiveMsgBytes, TypeOK
<1>12. KeyDiscipline'
  <2>1. Good(y) /\ y.mode = x.mode /\ (x.cipher \in Stage2Keys => y.cipher = x.cipher)
    BY <1>6, Zenon DEF Follows
  <2>2. y.hybrid_state = "CONFIRMED" => transport[o].cipher = y.cipher
    <3>1. y.hybrid_state = "CONFIRMED" =>
            /\ x.cipher = y.cipher /\ y.cipher \in Stage2Keys
            /\ x.hybrid_state = "CONFIRMED" \/ unit.key = y.cipher
      BY <1>6, Zenon DEF Follows, Good, Sound
    <3>. QED
      BY <1>5, <3>1, Zenon DEF SentBy, KeyDiscipline
  <2>3. ASSUME NEW p \in Sides, NEW i \in 1..Len(wire'[p])
        PROVE  \E j \in 1..Len(wire[p]) : wire'[p][i] = wire[p][j]
    <3>1. CASE p = s
      <4>1. i \in 1..Len(Tail(wire[s])) /\ wire'[p][i] = Tail(wire[s])[i]
        BY <1>10, <2>3, <3>1, Zenon DEF TypeOK
      <4>2. i + 1 \in 1..Len(wire[s]) /\ Tail(wire[s])[i] = wire[s][i + 1]
        BY <1>2, <4>1
      <4>. QED
        BY <3>1, <4>1, <4>2, Zenon
    <3>2. CASE p # s
      BY <1>10, <2>3, <3>2, Zenon DEF TypeOK
    <3>. QED
      BY <3>1, <3>2, Zenon
  <2>4. ASSUME NEW p \in Sides, NEW i \in 1..Len(received'[p])
        PROVE  \/ \E j \in 1..Len(received[p]) : received'[p][i] = received[p][j]
               \/ (\E q \in Sides : transport[q].mode = "REQUIRE") => received'[p][i].key \in Stage2Keys
    <3>1. CASE received'[p] = received[p]
      BY <2>4, <3>1, Zenon
    <3>2. CASE p = s /\ MessageComplete(y, unit) /\ received'[s] = Append(received[s], m)
      <4>1. (i \in 1..Len(received[s]) /\ received'[p][i] = received[s][i]) \/ received'[p][i] = m
        BY <1>9, <2>4, <3>2
      <4>2. unit.body = "MSG"
        BY <3>2, Zenon DEF MessageComplete
      <4>3. (\E q \in Sides : transport[q].mode = "REQUIRE") => unit.key \in Stage2Keys
        BY <1>5, <1>6, <2>1, <3>2, <4>2, OtherSide, Zenon DEF SentBy
      <4>. QED
        BY <3>2, <4>1, <4>3
    <3>3. received'[p] = received[p]
            \/ (p = s /\ MessageComplete(y, unit) /\ received'[s] = Append(received[s], m))
      BY <1>7, Zenon DEF TypeOK
    <3>. QED
      BY <3>1, <3>2, <3>3, Zenon
  <2>5. reconnect' = reconnect
    BY Zenon DEF ReceiveMsgBytes
  <2>. QED
    BY <1>7, <1>8, <2>1, <2>2, <2>3, <2>4, <2>5, StepKeepsDiscipline, Zenon
<1>. QED
  BY <1>11, <1>12, Zenon

\* Steps that leave the transports, or all but their counters, alone.
LEMMA QuietStep ==
  ASSUME IInv, NEW s \in Sides, NEW y, Good(y), Alike(transport[s], y),
         transport' = [transport EXCEPT ![s] = y],
         wire' = wire \/ wire' = [wire EXCEPT ![s] = <<>>],
         received' = received,
         \A p \in Sides : sock'[p] => sock[p],
         \A p \in Sides :
           \/ reconnect'[p] = reconnect[p]
           \/ transport[p].mode = "REQUIRE" => reconnect'[p] \cap {"v1", "classical"} = {}
  PROVE  KeyDiscipline'
<1>. USE DEF IInv
<1>1. /\ y.mode = transport[s].mode /\ y.cipher = transport[s].cipher
      /\ y.hybrid_state = transport[s].hybrid_state /\ y.rejected = transport[s].rejected
  BY Zenon DEF Alike
<1>2. /\ transport[s].hybrid_state = "CONFIRMED" => transport[Other(s)].cipher = transport[s].cipher
      /\ transport[s].rejected => ~sock[s]
  BY Zenon DEF KeyDiscipline
<1>3. ASSUME NEW p \in Sides, NEW i \in 1..Len(wire'[p])
      PROVE  \E j \in 1..Len(wire[p]) : wire'[p][i] = wire[p][j]
  <2>1. wire'[p] = wire[p] \/ wire'[p] = <<>>
    BY Zenon DEF TypeOK
  <2>. QED
    BY <1>3, <2>1
<1>4. \A p \in Sides : \A i \in 1..Len(received'[p]) :
        \E j \in 1..Len(received[p]) : received'[p][i] = received[p][j]
  BY Zenon
<1>5. (y.rejected => ~sock'[s]) /\ (sock'[Other(s)] => sock[Other(s)])
  BY <1>1, <1>2, OtherSide, Zenon
<1>6. TypeOK /\ KeyDiscipline
  BY Zenon
<1>7. \A p \in Sides : \A i \in 1..Len(wire'[p]) :
        \/ \E j \in 1..Len(wire[p]) : wire'[p][i] = wire[p][j]
        \/ /\ p = Other(s)
           /\ \E j \in 1..Len(transport[s].send_buffer) : wire'[p][i] = transport[s].send_buffer[j]
  BY <1>3
<1>8. \A p \in Sides : \A i \in 1..Len(received'[p]) :
        \/ \E j \in 1..Len(received[p]) : received'[p][i] = received[p][j]
        \/ (\E q \in Sides : transport[q].mode = "REQUIRE") => received'[p][i].key \in Stage2Keys
  BY <1>4, Zenon
<1>9. y.hybrid_state = "CONFIRMED" => transport[Other(s)].cipher = y.cipher
  BY <1>1, <1>2, Zenon
<1>10. transport[s].cipher \in Stage2Keys => y.cipher = transport[s].cipher
  BY <1>1, Zenon
<1>. HIDE DEF IInv
<1>. QED
  BY <1>1, <1>5, <1>6, <1>7, <1>8, <1>9, <1>10, StepKeepsDiscipline, Zenon

LEMMA SocketClosedStep ==
  ASSUME IInv, NEW s \in Sides, SocketClosed(s)
  PROVE  IInv'
<1>1. Good(transport[s]) /\ Alike(transport[s], transport[s])
  BY InvGood, Zenon DEF Alike
<1>2. TypeOK'
  <2>1. <<>> \in Seq(Units)
    OBVIOUS
  <2>. QED
    BY <2>1, Zenon DEF IInv, TypeOK, SocketClosed, Close, CloseCauses
<1>3. transport' = [transport EXCEPT ![s] = transport[s]]
  BY Zenon DEF SocketClosed, IInv, TypeOK
<1>4. /\ wire' = [wire EXCEPT ![s] = <<>>] /\ received' = received /\ reconnect' = reconnect
      /\ \A p \in Sides : sock'[p] => sock[p]
  BY Zenon DEF SocketClosed, Close, IInv, TypeOK
<1>. QED
  BY <1>1, <1>2, <1>3, <1>4, QuietStep, Zenon DEF IInv

LEMMA TimeoutStep ==
  ASSUME IInv, NEW s \in Sides, Timeout(s)
  PROVE  IInv'
<1>. DEFINE c == CountHybrid(transport[s], "STAGE2_FAILED")
<1>1. /\ Good(transport[s]) /\ Alike(transport[s], transport[s])
      /\ Good(c) /\ Alike(transport[s], c)
  BY InvGood, CountHybridGood, Zenon DEF Alike, Outcomes
<1>2. PICK y \in {c, transport[s]} : transport' = [transport EXCEPT ![s] = y]
  BY Zenon DEF Timeout, IInv, TypeOK
<1>. HIDE DEF c
<1>3. Good(y) /\ Alike(transport[s], y)
  BY <1>1, <1>2, Zenon
<1>4. TypeOK'
  <2>1. transport' \in [Sides -> Transports]
    BY <1>2, <1>3, Zenon DEF Good, IInv, TypeOK
  <2>. QED
    BY <2>1, Zenon DEF IInv, TypeOK, Timeout, CloseCauses
<1>5. wire' = wire /\ received' = received /\ reconnect' = reconnect /\ sock' = sock
  BY Zenon DEF Timeout
<1>. QED
  BY <1>2, <1>3, <1>4, <1>5, QuietStep, Zenon DEF IInv

LEMMA DisconnectNodeStep ==
  ASSUME IInv, NEW s \in Sides, DisconnectNode(s)
  PROVE  IInv'
<1>. DEFINE c == CountHybrid(transport[s], "REFUSED")
<1>1. /\ Good(transport[s]) /\ Alike(transport[s], transport[s])
      /\ Good(c) /\ Alike(transport[s], c)
  BY InvGood, CountHybridGood DEF Alike, Outcomes
<1>2. PICK y \in {c, transport[s]} : transport' = [transport EXCEPT ![s] = y]
  BY Zenon DEF DisconnectNode, IInv, TypeOK
<1>. HIDE DEF c
<1>3. Good(y) /\ Alike(transport[s], y)
  BY <1>1, <1>2, Zenon
<1>4. reconnect' \in [Sides -> SUBSET {"removed", "v1", "classical"}]
  BY Zenon DEF DisconnectNode, IInv, TypeOK
<1>5. TypeOK'
  <2>1. transport' \in [Sides -> Transports]
    BY <1>2, <1>3, Zenon DEF Good, IInv, TypeOK
  <2>. QED
    BY <1>4, <2>1, Zenon DEF IInv, TypeOK, DisconnectNode
<1>6. \A p \in Sides :
        \/ reconnect'[p] = reconnect[p]
        \/ transport[p].mode = "REQUIRE" => reconnect'[p] \cap {"v1", "classical"} = {}
  <2>1. transport[s].mode = "REQUIRE" =>
          ~ShouldReconnectV1(transport[s]) /\ ~GetHybridStatus(transport[s]).retry_classical
    BY Zenon DEF ShouldReconnectV1, GetHybridStatus
  <2>2. transport[s].mode = "REQUIRE" => reconnect' = [reconnect EXCEPT ![s] = {"removed"}]
    BY <2>1, Zenon DEF DisconnectNode
  <2>3. \A p \in Sides : p # s => reconnect'[p] = reconnect[p]
    BY Zenon DEF DisconnectNode, IInv, TypeOK
  <2>. QED
    BY <2>2, <2>3 DEF IInv, TypeOK
<1>7. /\ wire' = wire /\ received' = received /\ \A p \in Sides : sock'[p] => sock[p]
  BY Zenon DEF DisconnectNode, IInv, TypeOK
<1>. QED
  BY <1>2, <1>3, <1>5, <1>6, <1>7, QuietStep, Zenon DEF IInv

\* KeyDiscipline and the types are inductive: every action of Next keeps them.
LEMMA Inductive == Spec => []IInv
<1>1. Init => IInv
  BY InitIInv, Zenon
<1>2. IInv /\ [Next]_vars => IInv'
  <2>. SUFFICES ASSUME IInv, [Next]_vars PROVE IInv'
    BY Zenon
  <2>1. CASE UNCHANGED vars
    BY <2>1, Zenon DEF vars, IInv, TypeOK, KeyDiscipline
  <2>2. CASE Done
    BY <2>2, Zenon DEF Done, vars, IInv, TypeOK, KeyDiscipline
  <2>3. ASSUME NEW s \in Sides, LocalDisconnect(s) PROVE IInv'
    <3>1. TypeOK'
      BY <2>3, Zenon DEF LocalDisconnect, IInv, TypeOK
    <3>2. KeyDiscipline'
      BY <2>3, Zenon DEF LocalDisconnect, IInv, KeyDiscipline
    <3>. QED
      BY <3>1, <3>2, Zenon DEF IInv
  <2>. QED
    BY <2>1, <2>2, <2>3, QueueMessageStep, SendBytesStep, ReceiveMsgBytesStep,
       SocketClosedStep, TimeoutStep, DisconnectNodeStep, Zenon DEF Next
<1>. QED
  BY <1>1, <1>2, PTL DEF Spec

\* The handshake state of each endpoint fixes its keys (ProcessHybridVersion),
\* and what it sends is under keys it holds.
THEOREM Discipline == Spec => []KeyDiscipline
<1>1. IInv => KeyDiscipline
  BY Zenon DEF IInv
<1>. QED
  BY <1>1, Inductive, PTL

\* Every reachable state of the connection is well typed.
THEOREM TypeCorrect == Spec => []TypeOK
<1>1. IInv => TypeOK
  BY Zenon DEF IInv
<1>. QED
  BY <1>1, Inductive, PTL

\* A node that counts its session as hybrid shares its stage-2 keys with its
\* peer, for every pair of modes, every fault and every number of messages.
THEOREM KeysAgree == Spec => []KeyAgreement
<1>1. IInv => KeyAgreement
  <2>. SUFFICES ASSUME IInv, NEW s \in Sides, transport[s].hybrid_state = "CONFIRMED"
                PROVE  /\ transport[s].cipher \in Stage2Keys
                       /\ transport[Other(s)].cipher = transport[s].cipher
                       /\ transport[Other(s)].hybrid_state \notin {"PENDING", "CLASSICAL"}
    BY Zenon DEF KeyAgreement
  <2>1. Sound(transport[s]) /\ Sound(transport[Other(s)])
    BY OtherSide, Zenon DEF IInv, KeyDiscipline
  <2>2. transport[Other(s)].cipher = transport[s].cipher
    BY Zenon DEF IInv, KeyDiscipline
  <2>. QED
    BY <2>1, <2>2, Zenon DEF Sound
<1>. QED
  BY <1>1, Inductive, PTL

\* In require mode no message is sent or taken but under stage-2 keys, and no
\* classical or v1 connection is asked for.
THEOREM RequireIsHybrid == Spec => []RequireOnlyHybrid
<1>1. IInv => RequireOnlyHybrid
  BY Zenon DEF IInv, KeyDiscipline, RequireOnlyHybrid
<1>. QED
  BY <1>1, Inductive, PTL
====
