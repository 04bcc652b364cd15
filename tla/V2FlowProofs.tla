---------------------------- MODULE V2FlowProofs ----------------------------
(***************************************************************************)
(* What one connection counts, asks for and delivers, for every set of     *)
(* pairings, every set of faults and every number of messages.  On top of  *)
(* the key discipline of V2TransportProofs the argument needs two more     *)
(* facts of every state: the books of each endpoint (BookOf: where its     *)
(* handshake stands is what it has counted, unless the timeout or          *)
(* DisconnectNodes has counted for it), and the stream to each endpoint    *)
(* (FlowOf: what is on the wire and in its peer's send buffer is exactly   *)
(* the messages it has yet to take, after the garbage terminator that      *)
(* makes them readable).                                                   *)
(***************************************************************************)
EXTENDS V2TransportProofs

-----------------------------------------------------------------------------
(* What an endpoint has counted and where its handshake stands.            *)

None(x) == \A o \in Outcomes : x.counts[o] = 0

Only(x, o) == x.counts[o] = 1 /\ \A p \in Outcomes \ {o} : x.counts[p] = 0

Unkeyed == {"KEY_MAYBE_V1", "KEY", "V1"}

Keyed == {"AWAITING_VERSION", "READY"}

\* The receive state, the handshake and the offer seen belong together.
Placed(x) ==
  /\ x.hybrid_state \in {"CLASSICAL", "UNCONFIRMED", "CONFIRMED"} => x.recv_state = "APP"
  /\ x.tag_seen => x.hybrid_state \in {"UNCONFIRMED", "CONFIRMED", "FAILED"}
  /\ x.recv_state \in Unkeyed \/ x.mode = "OFF" => x.hybrid_state = "PENDING"

\* The send state follows the receive state.
Staged(x) ==
  /\ x.send_state = "MAYBE_V1" => x.send_buffer = <<>> /\ x.recv_state = "KEY_MAYBE_V1"
  /\ x.recv_state = "KEY_MAYBE_V1" /\ ~x.rejected => x.send_state = "MAYBE_V1"
  /\ x.recv_state = "KEY" => x.send_state = "AWAITING_KEY"
  /\ x.recv_state \in {"GARB_GARBTERM", "VERSION", "APP"} /\ ~x.rejected => x.send_state \in Keyed
  /\ x.send_state = "V1" => x.recv_state = "V1"
  /\ x.recv_state = "V1" => x.send_state = "V1" /\ x.cipher = "none"

\* The counters say how the handshake ended; the timeout and DisconnectNodes
\* count what has not ended.
Tally(x) ==
  /\ x.hybrid_state = "CONFIRMED" => Only(x, "HYBRID")
  /\ x.hybrid_state = "CLASSICAL" => Only(x, "CLASSICAL")
  /\ x.hybrid_state = "FAILED" =>
       x.rejected /\ x.failure \in Outcomes \ {"HYBRID"} /\ Only(x, x.failure)
  /\ x.hybrid_state = "UNCONFIRMED" => None(x) \/ Only(x, "STAGE2_FAILED")
  /\ x.hybrid_state = "PENDING" => None(x) \/ Only(x, "REFUSED")

\* Nothing has been counted from outside.
Uncounted(x) ==
  /\ x.hybrid_state \in {"PENDING", "UNCONFIRMED"} /\ ~x.rejected => None(x)
  /\ x.recv_state = "KEY" => None(x)

Settled(x) == Placed(x) /\ Staged(x) /\ Tally(x) /\ Uncounted(x)

-----------------------------------------------------------------------------
(* What reading adds to the send buffer.                                   *)

V1Kinds == {"V1MSG", "V1ALIEN"}

\* Neither a message nor a unit of the v1 protocol.
Plain(u) == u.body # "MSG" /\ u.kind \notin V1Kinds

Grown(x, y) ==
  /\ Len(x.send_buffer) <= Len(y.send_buffer)
  /\ \A i \in 1..Len(x.send_buffer) : y.send_buffer[i] = x.send_buffer[i]
  /\ \A i \in 1..Len(y.send_buffer) : i > Len(x.send_buffer) => Plain(y.send_buffer[i])

HasTerm(x) == \E i \in 1..Len(x.send_buffer) : x.send_buffer[i].kind = "TERM"

Carries(x, y) ==
  Alike(x, y) /\ y.tag_seen = x.tag_seen /\ y.failure = x.failure /\ y.counts = x.counts

\* The send buffer is a sequence of units.
LEMMA BufferLen ==
  ASSUME NEW x \in Transports
  PROVE  x.send_buffer \in Seq(Units) /\ Len(x.send_buffer) \in Nat
<1>1. x.send_buffer \in Seq(Units)
  BY Zenon DEF Transports
<1>. QED
  BY <1>1

\* Growing composes.
LEMMA GrownTrans ==
  ASSUME NEW x \in Transports, NEW y \in Transports, NEW z \in Transports,
         Grown(x, y), Grown(y, z)
  PROVE  Grown(x, z) /\ (HasTerm(y) => HasTerm(z))
<1>. DEFINE a == x.send_buffer
            b == y.send_buffer
            c == z.send_buffer
<1>1. Len(a) \in Nat /\ Len(b) \in Nat /\ Len(c) \in Nat
  BY BufferLen, Zenon
<1>2. /\ Len(a) <= Len(b) /\ \A i \in 1..Len(a) : b[i] = a[i]
      /\ \A i \in 1..Len(b) : i > Len(a) => Plain(b[i])
      /\ Len(b) <= Len(c) /\ \A i \in 1..Len(b) : c[i] = b[i]
      /\ \A i \in 1..Len(c) : i > Len(b) => Plain(c[i])
  BY Zenon DEF Grown
<1>. HIDE DEF a, b, c
<1>3. /\ Len(a) <= Len(c) /\ \A i \in 1..Len(a) : c[i] = a[i]
      /\ \A i \in 1..Len(c) : i > Len(a) => Plain(c[i])
      /\ \A i \in 1..Len(b) : i \in 1..Len(c) /\ c[i] = b[i]
  BY <1>1, <1>2
<1>. QED
  BY <1>3, Zenon DEF Grown, HasTerm, a, b, c

\* An unchanged send buffer has grown by nothing.
LEMMA SameGrown ==
  ASSUME NEW x \in Transports, NEW y, y.send_buffer = x.send_buffer
  PROVE  Grown(x, y) /\ (HasTerm(x) => HasTerm(y))
<1>1. Len(x.send_buffer) \in Nat
  BY BufferLen, Zenon
<1>. DEFINE a == x.send_buffer
<1>. HIDE DEF a
<1>2. Len(a) <= Len(a) /\ \A i \in 1..Len(a) : ~(i > Len(a))
  BY <1>1 DEF a
<1>. QED
  BY <1>2, Zenon DEF Grown, HasTerm, a

\* Adding a plain unit to the send buffer changes nothing else.
LEMMA PushCarries ==
  ASSUME NEW x \in Transports, NEW u \in Units, Plain(u)
  PROVE  /\ Push(x, u) \in Transports /\ Carries(x, Push(x, u)) /\ Grown(x, Push(x, u))
         /\ u.kind = "TERM" => HasTerm(Push(x, u))
         /\ Push(x, u).quirk = x.quirk
<1>. DEFINE y == Push(x, u)
            a == x.send_buffer
<1>1. y \in Transports
  BY PushType, Zenon
<1>2. Carries(x, y) /\ y.send_buffer = Append(a, u) /\ y.quirk = x.quirk
  BY Zenon DEF Push, Carries, Alike, Transports
<1>3. a \in Seq(Units) /\ Len(a) \in Nat
  BY BufferLen, Zenon
<1>. HIDE DEF y, a
<1>4. /\ Len(a) <= Len(Append(a, u)) /\ \A i \in 1..Len(a) : Append(a, u)[i] = a[i]
      /\ \A i \in 1..Len(Append(a, u)) : i > Len(a) => Append(a, u)[i] = u
      /\ Len(a) + 1 \in 1..Len(Append(a, u)) /\ Append(a, u)[Len(a) + 1] = u
  BY <1>3
<1>5. Grown(x, y) /\ (u.kind = "TERM" => HasTerm(y))
  BY <1>2, <1>4, Zenon DEF Grown, HasTerm, a
<1>. QED
  BY <1>1, <1>2, <1>5, Zenon DEF y

\* Sending a packet that is no message.
LEMMA PushPacketCarries ==
  ASSUME NEW x \in Transports, NEW b \in Bodies \ {"MSG"}, NEW a \in BOOLEAN,
         NEW i \in BOOLEAN, NEW g \in BOOLEAN, NEW n \in Nat
  PROVE  LET y == PushPacket(x, b, a, i, g, n)
         IN  y \in Transports /\ Carries(x, y) /\ Grown(x, y) /\ y.quirk = x.quirk
<1>. DEFINE u == Encrypt(x, b, a, i, g, n)
            z == Push(x, u)
            y == PushPacket(x, b, a, i, g, n)
<1>1. u \in Units
  <2>1. x.cipher \in Ciphers /\ x.send_seq \in Nat
    BY Zenon DEF Transports
  <2>. QED
    BY <2>1 DEF Encrypt, Units
<1>2. Plain(u)
  BY DEF Plain, Encrypt, V1Kinds
<1>3. z \in Transports /\ Carries(x, z) /\ Grown(x, z) /\ z.quirk = x.quirk
  BY <1>1, <1>2, PushCarries, Zenon
<1>4. y \in Transports
  BY PushPacketType, Zenon
<1>5. y = [z EXCEPT !.send_seq = z.send_seq + 1]
  BY Zenon DEF PushPacket
<1>. HIDE DEF y, z
<1>6. Carries(z, y) /\ y.send_buffer = z.send_buffer /\ y.quirk = z.quirk
  BY <1>3, <1>5, Zenon DEF Carries, Alike, Transports
<1>7. Carries(x, y)
  BY <1>3, <1>6, Zenon DEF Carries, Alike
<1>8. Grown(x, y)
  BY <1>3, <1>4, <1>6, SameGrown, GrownTrans, Zenon
<1>. QED
  BY <1>3, <1>4, <1>6, <1>7, <1>8, Zenon DEF y

\* Sending a version packet.
LEMMA PushVersionCarries ==
  ASSUME NEW x \in Transports, NEW b \in Bodies \ {"MSG"}
  PROVE  LET y == PushVersion(x, b)
         IN  y \in Transports /\ Carries(x, y) /\ Grown(x, y) /\ (HasTerm(x) => HasTerm(y))
<1>. DEFINE z == PushPacket(x, b, x.send_garbage, FALSE, FALSE, 0)
            y == PushVersion(x, b)
<1>1. x.send_garbage \in BOOLEAN
  BY Zenon DEF Transports
<1>2. z \in Transports /\ Carries(x, z) /\ Grown(x, z)
  <2>1. FALSE \in BOOLEAN /\ 0 \in Nat
    OBVIOUS
  <2>. QED
    BY <1>1, <2>1, PushPacketCarries, Zenon
<1>3. y \in Transports
  BY PushVersionType, Zenon
<1>4. y = [z EXCEPT !.send_garbage = FALSE]
  BY Zenon DEF PushVersion
<1>. HIDE DEF y, z
<1>5. Carries(z, y) /\ y.send_buffer = z.send_buffer
  BY <1>2, <1>4, Zenon DEF Carries, Alike, Transports
<1>6. Carries(x, y)
  BY <1>2, <1>5, Zenon DEF Carries, Alike
<1>7. Grown(z, y)
  BY <1>2, <1>5, SameGrown, Zenon
<1>8. Grown(x, y)
  BY <1>2, <1>3, <1>7, GrownTrans, Zenon
<1>9. HasTerm(x) => HasTerm(y)
  <2>1. Grown(x, x)
    BY SameGrown, Zenon
  <2>. QED
    BY <1>3, <1>8, <2>1, GrownTrans, Zenon
<1>. QED
  BY <1>3, <1>6, <1>8, <1>9, Zenon DEF y

\* A first outcome is the only one.
LEMMA CountHybridTally ==
  ASSUME NEW x \in Transports, NEW o \in Outcomes
  PROVE  LET y == CountHybrid(x, o)
         IN  /\ y \in Transports /\ Alike(x, y) /\ y.send_buffer = x.send_buffer
             /\ y.tag_seen = x.tag_seen /\ y.failure = x.failure
             /\ None(x) => Only(y, o)
<1>. DEFINE y == CountHybrid(x, o)
<1>1. x.counts \in [Outcomes -> Nat]
  BY Zenon DEF Transports
<1>2. y = [x EXCEPT !.counts = [x.counts EXCEPT ![o] = x.counts[o] + 1]]
  BY Zenon DEF CountHybrid
<1>3. y \in Transports /\ Alike(x, y) /\ y.send_buffer = x.send_buffer
  BY CountHybridEffect, Zenon
<1>. HIDE DEF y
<1>4. y.tag_seen = x.tag_seen /\ y.failure = x.failure
      /\ y.counts = [x.counts EXCEPT ![o] = x.counts[o] + 1]
  BY <1>2, Zenon DEF Transports
<1>5. None(x) => Only(y, o)
  <2>1. 0 + 1 = 1
    OBVIOUS
  <2>. QED
    BY <1>1, <1>4, <2>1, Zenon DEF None, Only
<1>. QED
  BY <1>3, <1>4, <1>5, Zenon DEF y

-----------------------------------------------------------------------------
(* Reading a unit, once more: what it does to the counters, to the send    *)
(* buffer and to the place in the handshake.                               *)

Before == {"KEY_MAYBE_V1", "KEY", "GARB_GARBTERM"}

Quiet == {"PENDING", "CLASSICAL", "CONFIRMED"}

\* A message is a packet or a v1 message, and no decoy.
Proper(u) ==
  /\ u.body = "MSG" => u.kind \in {"PKT"} \cup V1Kinds /\ ~u.ignore
  /\ u.kind \in V1Kinds => u.key = "none"

Read(x, y, unit) ==
  /\ y \in Transports /\ Settled(y)
  /\ Grown(x, y)
  /\ y.send_state \in Keyed => x.send_state \in Keyed \/ HasTerm(y)
  /\ y.send_state = "V1" => x.send_state \in {"V1", "MAYBE_V1"} /\ y.send_buffer = x.send_buffer
  /\ y.send_state = "MAYBE_V1" => x.send_state = "MAYBE_V1"
  /\ x.send_state = "V1" => y.send_state = "V1"
  /\ x.recv_state \in Unkeyed /\ unit.kind \in V1Kinds => y.recv_state \in Unkeyed
  /\ ~y.rejected /\ y.recv_state \in Before =>
       x.recv_state \in {"KEY_MAYBE_V1", "KEY"} /\ unit.kind # "TERM"
  /\ x.stalled => y.stalled
  /\ unit.body = "MSG" /\ x.recv_state # "GARB_GARBTERM" /\ ~y.rejected /\ ~y.stalled =>
       y.recv_state \in {"APP", "V1"}
  /\ MessageComplete(y, unit) =>
       unit.key = y.cipher /\ (y.mode = "OFF" \/ y.hybrid_state \in Quiet)
  /\ x.recv_state \in {"APP", "V1"} =>
       /\ y.recv_state = x.recv_state /\ y.cipher = x.cipher
       /\ x.hybrid_state \in Quiet => y.hybrid_state = x.hybrid_state

\* ReceivedBytes returns false before it has changed anything.
LEMMA RejectRead ==
  ASSUME NEW x \in Transports, Settled(x), ~x.rejected, NEW unit
  PROVE  Read(x, Reject(x), unit) /\ Reject(x).rejected
<1>. DEFINE y == Reject(x)
<1>1. /\ y.mode = x.mode /\ y.recv_state = x.recv_state /\ y.send_state = x.send_state
      /\ y.hybrid_state = x.hybrid_state /\ y.tag_seen = x.tag_seen /\ y.failure = x.failure
      /\ y.counts = x.counts /\ y.cipher = x.cipher /\ y.stalled = x.stalled
      /\ y.send_buffer = x.send_buffer /\ y.rejected
  BY Zenon DEF Reject, Transports
<1>. HIDE DEF y
<1>2. Settled(y)
  BY <1>1, ZenonT(40) DEF Settled, Placed, Staged, Tally, Uncounted, None, Only
<1>3. Grown(x, y)
  BY <1>1, SameGrown, Zenon
<1>4. y \in Transports
  BY RejectType, Zenon DEF y
<1>5. Read(x, y, unit)
  BY <1>1, <1>2, <1>3, <1>4, Zenon DEF Read, MessageComplete
<1>. QED
  BY <1>1, <1>5, Zenon DEF y

\* A handshake that fails counts its failure.
LEMMA HybridFailTally ==
  ASSUME NEW x \in Transports, None(x), NEW o \in Outcomes
  PROVE  LET y == HybridFail(x, o)
         IN  /\ y \in Transports
             /\ y.mode = x.mode /\ y.cipher = x.cipher /\ y.stalled = x.stalled
             /\ y.recv_state = x.recv_state /\ y.send_state = x.send_state
             /\ y.send_buffer = x.send_buffer
             /\ y.hybrid_state = "FAILED" /\ y.rejected /\ y.failure = o /\ Only(y, o)
<1>. DEFINE z == [x EXCEPT !.hybrid_state = "FAILED", !.failure = o, !.key_pair = FALSE,
                           !.stage2_secret = FALSE, !.rejected = TRUE]
            y == HybridFail(x, o)
<1>1. z \in Transports
  BY ZenonT(40) DEF Transports, HybridStates
<1>2. /\ z.mode = x.mode /\ z.cipher = x.cipher /\ z.stalled = x.stalled
      /\ z.recv_state = x.recv_state /\ z.send_state = x.send_state
      /\ z.send_buffer = x.send_buffer /\ z.counts = x.counts
      /\ z.hybrid_state = "FAILED" /\ z.rejected /\ z.failure = o
  BY Zenon DEF Transports
<1>3. y = CountHybrid(z, o)
  BY Zenon DEF HybridFail
<1>. HIDE DEF y, z
<1>4. None(z)
  BY <1>2, Zenon DEF None
<1>5. /\ y \in Transports /\ Alike(z, y) /\ y.send_buffer = z.send_buffer
      /\ y.failure = z.failure /\ Only(y, o)
  BY <1>1, <1>3, <1>4, CountHybridTally, Zenon
<1>. QED
  BY <1>2, <1>5, Zenon DEF Alike, y

\* Reading the peer's key to the end.
LEMMA KeyedRead ==
  ASSUME NEW x \in Transports, Settled(x), ~x.rejected, x.recv_state = "KEY",
         NEW y \in Transports, Grown(x, y), y.mode = x.mode, y.hybrid_state = "PENDING",
         y.tag_seen = x.tag_seen, y.failure = x.failure, y.counts = x.counts,
         y.stalled = x.stalled, ~y.rejected, y.recv_state = "GARB_GARBTERM",
         y.send_state \in Keyed, HasTerm(y), NEW unit, Proper(unit), unit.kind = "KEY_REST"
  PROVE  Read(x, y, unit)
<1>1. None(x) /\ x.hybrid_state = "PENDING" /\ x.send_state = "AWAITING_KEY" /\ ~x.tag_seen
  BY Zenon DEF Settled, Uncounted, Placed, Staged, Unkeyed
<1>2. None(y)
  BY <1>1, Zenon DEF None
<1>3. y.send_state # "MAYBE_V1" /\ y.send_state # "V1"
  BY DEF Keyed
<1>4. Settled(y)
  BY <1>1, <1>2, <1>3, Zenon DEF Settled, Placed, Staged, Tally, Uncounted, Unkeyed
<1>5. unit.kind \notin V1Kinds /\ unit.body # "MSG" /\ unit.kind # "TERM"
  BY DEF V1Kinds, Proper
<1>. QED
  BY <1>1, <1>3, <1>4, <1>5, Zenon DEF Read, MessageComplete

\* The peer's key has arrived: the reply starts with the garbage terminator.
LEMMA ProcessReceivedKeyRead ==
  ASSUME NEW x \in Transports, Settled(x), ~x.rejected, x.recv_state = "KEY", NEW kem,
         NEW unit, Proper(unit), unit.kind = "KEY_REST"
  PROVE  Read(x, ProcessReceivedKey(x, kem), unit)
<1>. DEFINE u == [x EXCEPT !.cipher = "s1", !.stage2_secret = x.mode # "OFF",
                           !.recv_state = "GARB_GARBTERM", !.partial_key = FALSE]
            y == ProcessReceivedKey(x, kem)
<1>1. /\ None(x) /\ x.hybrid_state = "PENDING" /\ x.send_state = "AWAITING_KEY" /\ ~x.tag_seen
  BY Zenon DEF Settled, Uncounted, Placed, Staged, Unkeyed
<1>2. u \in Transports
  BY ZenonT(40) DEF Transports, Ciphers, RecvStates
<1>3. /\ u.mode = x.mode /\ u.initiating = x.initiating /\ u.recv_state = "GARB_GARBTERM"
      /\ u.send_state = x.send_state /\ u.hybrid_state = x.hybrid_state /\ ~u.rejected
      /\ u.tag_seen = x.tag_seen /\ u.failure = x.failure /\ u.counts = x.counts
      /\ u.stalled = x.stalled /\ u.send_buffer = x.send_buffer
  BY Zenon DEF Transports
<1>4. y = IF x.mode # "OFF" THEN ProcessHybridKey(u, kem)
          ELSE PushVersion(Push([u EXCEPT !.send_state = "READY"], Unit("TERM")), "EMPTY")
  BY Zenon DEF ProcessReceivedKey
<1>. HIDE DEF u, y
\* The reply: the terminator, and a version packet or none.
<1>5. ASSUME NEW v \in Transports, v.send_state \in Keyed, v.mode = u.mode,
             v.recv_state = u.recv_state, v.hybrid_state = u.hybrid_state, ~v.rejected,
             v.tag_seen = u.tag_seen, v.failure = u.failure, v.counts = u.counts,
             v.stalled = u.stalled, v.send_buffer = u.send_buffer, NEW b \in Bodies \ {"MSG"}
      PROVE  LET w == Push(v, Unit("TERM"))
             IN  /\ Read(x, w, unit) /\ Read(x, PushVersion(w, b), unit)
                 /\ w \in Transports /\ w.initiating = v.initiating /\ w.quirk = v.quirk
  <2>. USE <1>5
  <2>. DEFINE w == Push(v, Unit("TERM"))
              z == PushVersion(w, b)
  <2>1. Unit("TERM") \in Units /\ Plain(Unit("TERM")) /\ Unit("TERM").kind = "TERM"
    BY UnitType DEF Plain, Unit, V1Kinds
  <2>2. w \in Transports /\ Carries(v, w) /\ Grown(v, w) /\ HasTerm(w) /\ w.quirk = v.quirk
    BY <2>1, PushCarries, Zenon
  <2>. HIDE DEF w
  <2>3. z \in Transports /\ Carries(w, z) /\ Grown(w, z) /\ HasTerm(z)
    BY <2>2, PushVersionCarries, Zenon
  <2>. HIDE DEF z
  <2>4. Grown(x, v)
    BY <1>3, SameGrown, Zenon
  <2>5. Grown(x, w) /\ Grown(x, z)
    BY <2>2, <2>3, <2>4, GrownTrans, Zenon
  <2>6. Read(x, w, unit)
    BY <1>1, <1>3, <2>2, <2>5, KeyedRead, ZenonT(40) DEF Carries, Alike
  <2>7. Read(x, z, unit)
    <3>1. Carries(v, z)
      BY <2>2, <2>3, Zenon DEF Carries, Alike
    <3>. QED
      BY <1>1, <1>3, <2>3, <2>5, <3>1, KeyedRead, ZenonT(40) DEF Carries, Alike
  <2>. QED
    BY <2>2, <2>6, <2>7, Zenon DEF Carries, Alike, w, z
<1>6. CASE x.mode = "OFF"
  <2>. DEFINE v == [u EXCEPT !.send_state = "READY"]
  <2>1. v \in Transports
    BY <1>2, ZenonT(40) DEF Transports, SendStates
  <2>2. /\ v.mode = u.mode /\ v.recv_state = u.recv_state /\ v.hybrid_state = u.hybrid_state
        /\ ~v.rejected /\ v.tag_seen = u.tag_seen /\ v.failure = u.failure
        /\ v.counts = u.counts /\ v.stalled = u.stalled /\ v.send_buffer = u.send_buffer
        /\ v.send_state = "READY"
    BY <1>2, <1>3, Zenon DEF Transports
  <2>3. y = PushVersion(Push(v, Unit("TERM")), "EMPTY")
    BY <1>4, <1>6, Zenon
  <2>4. "EMPTY" \in Bodies \ {"MSG"} /\ "READY" \in Keyed
    BY DEF Bodies, Keyed
  <2>. HIDE DEF v
  <2>5. Read(x, y, unit)
    BY <2>1, <2>2, <2>3, <2>4, <1>5, Zenon
  <2>. QED
    BY <2>5, Zenon DEF y
<1>7. CASE x.mode # "OFF" /\ ~u.initiating /\ kem = "error"
  <2>1. y = HybridFail(u, "LOCAL_ERROR")
    BY <1>4, <1>7, Zenon DEF ProcessHybridKey
  <2>2. None(u) /\ "LOCAL_ERROR" \in Outcomes \ {"HYBRID"}
    BY <1>1, <1>3 DEF None, Outcomes
  <2>3. /\ y \in Transports
        /\ y.mode = x.mode /\ y.stalled = x.stalled
        /\ y.recv_state = "GARB_GARBTERM" /\ y.send_state = "AWAITING_KEY"
        /\ y.send_buffer = x.send_buffer
        /\ y.hybrid_state = "FAILED" /\ y.rejected /\ y.failure = "LOCAL_ERROR" /\ Only(y, "LOCAL_ERROR")
    BY <1>1, <1>2, <1>3, <2>1, <2>2, HybridFailTally, ZenonT(40)
  <2>4. y.send_state \notin Keyed /\ y.recv_state \notin Unkeyed
    BY <2>3 DEF Keyed, Unkeyed
  <2>5. Settled(y)
    BY <1>7, <2>2, <2>3, <2>4, Zenon DEF Settled, Placed, Staged, Tally, Uncounted
  <2>6. Grown(x, y)
    BY <2>3, SameGrown, Zenon
  <2>7. unit.kind \notin V1Kinds /\ unit.body # "MSG"
    BY DEF V1Kinds, Proper
  <2>8. Read(x, y, unit)
    BY <1>1, <2>3, <2>4, <2>5, <2>6, <2>7, Zenon DEF Read, MessageComplete
  <2>. QED
    BY <2>8, Zenon DEF y
<1>8. CASE x.mode # "OFF" /\ ~(~u.initiating /\ kem = "error")
  <2>. DEFINE v == [u EXCEPT !.send_state = "AWAITING_VERSION", !.key_pair = ~u.initiating]
              w == Push(v, Unit("TERM"))
  <2>1. v \in Transports
    BY <1>2, ZenonT(40) DEF Transports, SendStates
  <2>2. /\ v.mode = u.mode /\ v.recv_state = u.recv_state /\ v.hybrid_state = u.hybrid_state
        /\ ~v.rejected /\ v.tag_seen = u.tag_seen /\ v.failure = u.failure
        /\ v.counts = u.counts /\ v.stalled = u.stalled /\ v.send_buffer = u.send_buffer
        /\ v.send_state = "AWAITING_VERSION"
    BY <1>2, <1>3, Zenon DEF Transports
  <2>3. y = w \/ y = PushVersion(w, EncodeHybridRecord(w, "OFFER"))
    BY <1>4, <1>8, Zenon DEF ProcessHybridKey
  <2>4. "AWAITING_VERSION" \in Keyed
    BY DEF Keyed
  <2>. HIDE DEF v
  <2>5. w \in Transports
    <3>1. "EMPTY" \in Bodies \ {"MSG"}
      BY DEF Bodies
    <3>. QED
      BY <2>1, <2>2, <2>4, <3>1, <1>5, Zenon
  <2>6. EncodeHybridRecord(w, "OFFER") \in Bodies \ {"MSG"}
    BY <2>5, EncodeHybridRecordType DEF Bodies
  <2>7. Read(x, y, unit)
    BY <2>1, <2>2, <2>3, <2>4, <2>6, <1>5, Zenon
  <2>. QED
    BY <2>7, Zenon DEF y
<1>. QED
  BY <1>6, <1>7, <1>8, Zenon DEF y

\* Reading in the KEY state.
LEMMA ProcessReceivedKeyBytesRead ==
  ASSUME NEW x \in Transports, Settled(x), ~x.rejected, x.recv_state = "KEY", NEW kem,
         NEW unit, Proper(unit)
  PROVE  Read(x, ProcessReceivedKeyBytes(x, unit, kem), unit)
<1>. DEFINE y == ProcessReceivedKeyBytes(x, unit, kem)
<1>1. CASE unit.kind = "KEY_HEAD"
  <2>1. y = [x EXCEPT !.partial_key = TRUE]
    BY <1>1, Zenon DEF ProcessReceivedKeyBytes
  <2>. HIDE DEF y
  <2>2. y \in Transports /\ Carries(x, y) /\ y.send_buffer = x.send_buffer
    BY <2>1, ZenonT(40) DEF Carries, Alike, Transports
  <2>3. Settled(y)
    BY <2>2, Zenon DEF Carries, Alike, Settled, Placed, Staged, Tally, Uncounted, None, Only
  <2>4. Grown(x, y)
    BY <2>2, SameGrown, Zenon
  <2>5. unit.kind \notin V1Kinds /\ unit.body # "MSG" /\ unit.kind # "TERM"
    BY <1>1 DEF V1Kinds, Proper
  <2>6. Read(x, y, unit)
    BY <2>2, <2>3, <2>4, <2>5, Zenon DEF Carries, Alike, Read, MessageComplete
  <2>. QED
    BY <2>6, Zenon DEF y
<1>2. CASE unit.kind = "KEY_REST"
  <2>1. y = ProcessReceivedKey(x, kem)
    BY <1>2 DEF ProcessReceivedKeyBytes
  <2>. QED
    BY <1>2, <2>1, ProcessReceivedKeyRead, Zenon
<1>3. CASE unit.kind # "KEY_HEAD" /\ unit.kind # "KEY_REST"
  <2>1. y = Reject(x)
    BY <1>3, Zenon DEF ProcessReceivedKeyBytes
  <2>. QED
    BY <2>1, RejectRead, Zenon
<1>. QED
  BY <1>1, <1>2, <1>3, Zenon

\* Reading in the KEY_MAYBE_V1 state, the v1 fallback included.
LEMMA ProcessReceivedMaybeV1BytesRead ==
  ASSUME NEW x \in Transports, Settled(x), ~x.rejected, x.cipher = "none",
         x.recv_state = "KEY_MAYBE_V1", NEW kem, NEW unit, Proper(unit)
  PROVE  Read(x, ProcessReceivedMaybeV1Bytes(x, unit, kem), unit)
<1>. DEFINE y == ProcessReceivedMaybeV1Bytes(x, unit, kem)
<1>1. /\ None(x) /\ x.hybrid_state = "PENDING" /\ ~x.tag_seen
      /\ x.send_state = "MAYBE_V1" /\ x.send_buffer = <<>>
  BY Zenon DEF Settled, Uncounted, Placed, Staged, Unkeyed
<1>2. CASE unit.kind # "V1MSG"
  <2>. DEFINE a == [x EXCEPT !.recv_state = "KEY", !.send_state = "AWAITING_KEY"]
              z == StartSendingHandshake(a)
  <2>1. a \in Transports
    BY Zenon DEF Transports, RecvStates, SendStates
  <2>2. z \in Transports
    BY <2>1, StartSendingHandshakeType, Zenon
  <2>3. /\ z.mode = x.mode /\ z.recv_state = "KEY" /\ z.send_state = "AWAITING_KEY"
        /\ z.hybrid_state = x.hybrid_state /\ z.tag_seen = x.tag_seen /\ z.failure = x.failure
        /\ z.counts = x.counts /\ z.stalled = x.stalled /\ ~z.rejected
        /\ z.send_buffer = <<Unit("KEY_HEAD"), Unit("KEY_REST")>>
    <3>1. /\ a.mode = x.mode /\ a.recv_state = "KEY" /\ a.send_state = "AWAITING_KEY"
          /\ a.hybrid_state = x.hybrid_state /\ a.tag_seen = x.tag_seen /\ a.failure = x.failure
          /\ a.counts = x.counts /\ a.stalled = x.stalled /\ ~a.rejected
      BY Zenon DEF Transports
    <3>. HIDE DEF a
    <3>. QED
      BY <2>1, <3>1, Zenon DEF StartSendingHandshake, Transports
  <2>4. y = ProcessReceivedKeyBytes(z, unit, kem)
    BY <1>2, Zenon DEF ProcessReceivedMaybeV1Bytes
  <2>. HIDE DEF y, z
  <2>5. Settled(z)
    <3>1. None(z)
      BY <1>1, <2>3, Zenon DEF None
    <3>. QED
      BY <1>1, <2>3, <3>1, Zenon DEF Settled, Placed, Staged, Tally, Uncounted
  <2>6. Read(z, y, unit)
    BY <2>2, <2>3, <2>4, <2>5, ProcessReceivedKeyBytesRead, Zenon
  <2>7. Grown(x, z)
    <3>1. Plain(Unit("KEY_HEAD")) /\ Plain(Unit("KEY_REST"))
      BY DEF Plain, Unit, V1Kinds
    <3>. DEFINE b == <<Unit("KEY_HEAD"), Unit("KEY_REST")>>
    <3>2. Len(b) = 2 /\ b[1] = Unit("KEY_HEAD") /\ b[2] = Unit("KEY_REST")
      OBVIOUS
    <3>. HIDE DEF b
    <3>3. Len(<<>>) = 0 /\ 0 <= 2 /\ 1..0 = {} /\ \A i \in 1..2 : i = 1 \/ i = 2
      OBVIOUS
    <3>. QED
      BY <1>1, <2>3, <3>1, <3>2, <3>3, Zenon DEF Grown, b
  <2>8. Grown(x, y)
    BY <2>2, <2>6, <2>7, GrownTrans, Zenon DEF Read
  <2>9. "AWAITING_KEY" \notin Keyed /\ "KEY" \in Unkeyed /\ "MAYBE_V1" # "V1"
    BY DEF Keyed, Unkeyed
  <2>10. Read(x, y, unit)
    BY <1>1, <2>3, <2>6, <2>8, <2>9, Zenon DEF Read
  <2>. QED
    BY <2>10, Zenon DEF y
<1>3. CASE unit.kind = "V1MSG" /\ x.mode = "REQUIRE"
  <2>. DEFINE z == CountHybrid(x, "REFUSED")
  <2>1. y = Reject(z)
    BY <1>3, Zenon DEF ProcessReceivedMaybeV1Bytes
  <2>2. /\ z \in Transports /\ Alike(x, z) /\ z.send_buffer = x.send_buffer
        /\ z.tag_seen = x.tag_seen /\ z.failure = x.failure /\ Only(z, "REFUSED")
    BY <1>1, CountHybridTally, Zenon DEF Outcomes
  <2>. HIDE DEF z, y
  <2>3. /\ y.mode = z.mode /\ y.recv_state = z.recv_state /\ y.send_state = z.send_state
        /\ y.hybrid_state = z.hybrid_state /\ y.tag_seen = z.tag_seen
        /\ y.counts = z.counts /\ y.cipher = z.cipher /\ y.stalled = z.stalled
        /\ y.send_buffer = z.send_buffer /\ y.rejected /\ y \in Transports
    BY <2>1, <2>2, RejectType, ZenonT(40) DEF Reject, Transports
  <2>4. /\ y.mode = x.mode /\ y.recv_state = "KEY_MAYBE_V1" /\ y.send_state = "MAYBE_V1"
        /\ y.hybrid_state = "PENDING" /\ ~y.tag_seen /\ y.stalled = x.stalled
        /\ y.send_buffer = x.send_buffer /\ Only(y, "REFUSED") /\ y.rejected
    BY <1>1, <2>2, <2>3, ZenonT(40) DEF Alike, Only
  <2>5. Settled(y)
    BY <1>1, <2>4, Zenon DEF Settled, Placed, Staged, Tally, Uncounted
  <2>6. Grown(x, y)
    BY <2>4, SameGrown, Zenon
  <2>7. "MAYBE_V1" \notin Keyed /\ "KEY_MAYBE_V1" \in Unkeyed
    BY DEF Keyed, Unkeyed
  <2>8. Read(x, y, unit)
    BY <1>1, <2>3, <2>4, <2>5, <2>6, <2>7, Zenon DEF Read, MessageComplete
  <2>. QED
    BY <2>8, Zenon DEF y
<1>4. CASE unit.kind = "V1MSG" /\ x.mode # "REQUIRE"
  <2>1. y = [x EXCEPT !.recv_state = "V1", !.send_state = "V1", !.send_buffer = <<>>]
    BY <1>4, Zenon DEF ProcessReceivedMaybeV1Bytes
  <2>. HIDE DEF y
  <2>0. y \in Transports
    <3>1. <<>> \in Seq(Units)
      OBVIOUS
    <3>. QED
      BY <2>1, <3>1, ZenonT(40) DEF Transports, RecvStates, SendStates
  <2>2. /\ y.mode = x.mode /\ y.recv_state = "V1" /\ y.send_state = "V1"
        /\ y.hybrid_state = "PENDING" /\ ~y.tag_seen /\ y.stalled = x.stalled
        /\ y.counts = x.counts /\ y.cipher = "none" /\ y.send_buffer = x.send_buffer
    BY <1>1, <2>1, Zenon DEF Transports
  <2>3. None(y)
    BY <1>1, <2>2, Zenon DEF None
  <2>4. Settled(y)
    BY <2>2, <2>3, Zenon DEF Settled, Placed, Staged, Tally, Uncounted
  <2>5. Grown(x, y)
    BY <2>2, SameGrown, Zenon
  <2>6. "V1" \notin Keyed /\ "V1" \in Unkeyed /\ "V1" \notin Before /\ unit.key = "none" /\ "PENDING" \in Quiet
    BY <1>4 DEF Keyed, Unkeyed, Before, Proper, V1Kinds, Quiet
  <2>7. Read(x, y, unit)
    BY <1>1, <2>0, <2>2, <2>4, <2>5, <2>6, Zenon DEF Read, MessageComplete
  <2>. QED
    BY <2>7, Zenon DEF y
<1>. QED
  BY <1>2, <1>3, <1>4, Zenon

\* Reading in the GARB_GARBTERM state.
LEMMA ProcessReceivedGarbageBytesRead ==
  ASSUME NEW x \in Transports, Settled(x), ~x.rejected, x.recv_state = "GARB_GARBTERM",
         NEW unit
  PROVE  Read(x, ProcessReceivedGarbageBytes(x, unit), unit)
<1>. DEFINE y == ProcessReceivedGarbageBytes(x, unit)
<1>1. x.send_state \in Keyed /\ x.hybrid_state = "PENDING" /\ None(x) /\ ~x.tag_seen
  <2>1. x.hybrid_state \in HybridStates
    BY Zenon DEF Transports
  <2>. QED
    BY <2>1 DEF Settled, Placed, Staged, Tally, Uncounted, HybridStates
<1>2. /\ y.mode = x.mode /\ y.recv_state = "VERSION" /\ y.send_state = x.send_state
      /\ y.hybrid_state = x.hybrid_state /\ y.tag_seen = x.tag_seen /\ y.stalled = x.stalled
      /\ y.counts = x.counts /\ y.send_buffer = x.send_buffer /\ ~y.rejected
      /\ y \in Transports
  BY Zenon DEF ProcessReceivedGarbageBytes, Transports, RecvStates
<1>. HIDE DEF y
<1>3. y.send_state # "MAYBE_V1" /\ y.send_state # "V1" /\ x.recv_state \notin Unkeyed
      /\ y.recv_state \notin Before /\ y.recv_state \notin Unkeyed
  BY <1>1, <1>2 DEF Keyed, Unkeyed, Before
<1>4. Settled(y)
  <2>1. None(y)
    BY <1>1, <1>2, Zenon DEF None
  <2>. QED
    BY <1>1, <1>2, <1>3, <2>1, Zenon DEF Settled, Placed, Staged, Tally, Uncounted
<1>5. Grown(x, y)
  BY <1>2, SameGrown, Zenon
<1>6. Read(x, y, unit)
  BY <1>1, <1>2, <1>3, <1>4, <1>5, Zenon DEF Read, MessageComplete
<1>. QED
  BY <1>6, Zenon DEF y

\* Reading in the V1 state.
LEMMA V1ReceivedBytesRead ==
  ASSUME NEW x \in Transports, Settled(x), ~x.rejected, x.recv_state = "V1",
         NEW unit, Proper(unit)
  PROVE  Read(x, V1ReceivedBytes(x, unit), unit)
<1>. DEFINE y == V1ReceivedBytes(x, unit)
<1>1. y = Reject(x) \/ (y = x /\ unit.kind \in V1Kinds)
  BY Zenon DEF V1ReceivedBytes, V1Kinds
<1>2. x.send_state = "V1" /\ x.cipher = "none" /\ x.hybrid_state = "PENDING"
  BY Zenon DEF Settled, Placed, Staged, Unkeyed
<1>3. ASSUME unit.kind \in V1Kinds PROVE Read(x, x, unit)
  <2>1. unit.key = "none" /\ "V1" \notin Keyed /\ "V1" \notin Before /\ "PENDING" \in Quiet
    BY <1>3 DEF Proper, Keyed, Before, Quiet
  <2>2. Grown(x, x)
    BY SameGrown, Zenon
  <2>. QED
    BY <1>2, <2>1, <2>2, Zenon DEF Read, MessageComplete
<1>. QED
  BY <1>1, <1>3, RejectRead, Zenon

\* At the peer's version packet, before the handshake has ended.
Opening(x) ==
  /\ x \in Transports
  /\ None(x) /\ ~x.rejected
  /\ x.recv_state = "VERSION" /\ x.send_state \in Keyed

\* How ProcessHybridVersion ends it.
Ended(x, v) ==
  /\ v \in Transports
  /\ v.mode = x.mode /\ v.recv_state = "VERSION" /\ v.stalled = x.stalled
  /\ v.send_state \in Keyed
  /\ Grown(x, v)
  /\ \/ /\ v.rejected /\ v.hybrid_state = "FAILED"
        /\ v.failure \in Outcomes \ {"HYBRID"} /\ Only(v, v.failure)
     \/ ~v.rejected /\ v.hybrid_state = "CLASSICAL" /\ Only(v, "CLASSICAL") /\ ~v.tag_seen
     \/ ~v.rejected /\ v.hybrid_state = "UNCONFIRMED" /\ None(v)

\* ProcessHybridVersion fails the handshake.
LEMMA HybridFailEnds ==
  ASSUME NEW x, Opening(x), NEW o \in Outcomes \ {"HYBRID"}
  PROVE  Ended(x, HybridFail(x, o))
<1>. DEFINE v == HybridFail(x, o)
<1>1. x \in Transports /\ None(x) /\ x.recv_state = "VERSION" /\ x.send_state \in Keyed
  BY Zenon DEF Opening
<1>2. /\ v \in Transports
      /\ v.mode = x.mode /\ v.stalled = x.stalled
      /\ v.recv_state = x.recv_state /\ v.send_state = x.send_state
      /\ v.send_buffer = x.send_buffer
      /\ v.hybrid_state = "FAILED" /\ v.rejected /\ v.failure = o /\ Only(v, o)
  BY <1>1, HybridFailTally, ZenonT(40)
<1>. HIDE DEF v
<1>3. Grown(x, v)
  BY <1>1, <1>2, SameGrown, Zenon
<1>4. Ended(x, v)
  BY <1>1, <1>2, <1>3, Zenon DEF Ended
<1>. QED
  BY <1>4, Zenon DEF v

\* ProcessHybridVersion finds no record.
LEMMA StayClassicalEnds ==
  ASSUME NEW x, Opening(x), ~x.tag_seen
  PROVE  Ended(x, StayClassical(x))
<1>0. x \in Transports /\ None(x) /\ ~x.rejected /\ x.recv_state = "VERSION"
  BY Zenon DEF Opening
<1>1. CASE x.mode = "REQUIRE"
  BY <1>1, HybridFailEnds DEF StayClassical, Outcomes
<1>2. CASE x.mode # "REQUIRE"
  <2>. DEFINE u == [x EXCEPT !.hybrid_state = "CLASSICAL", !.key_pair = FALSE, !.stage2_secret = FALSE]
              v == IF x.initiating THEN PushVersion(u, "EMPTY") ELSE u
              w == [v EXCEPT !.send_state = "READY"]
              y == StayClassical(x)
  <2>1. u \in Transports
    BY <1>0, Zenon DEF Transports, HybridStates
  <2>2. /\ u.mode = x.mode /\ u.recv_state = "VERSION" /\ u.stalled = x.stalled
        /\ u.hybrid_state = "CLASSICAL" /\ ~u.rejected /\ ~u.tag_seen
        /\ u.counts = x.counts /\ u.send_buffer = x.send_buffer
    BY <1>0, Zenon DEF Transports
  <2>3. y = CountHybrid(w, "CLASSICAL")
    BY <1>2, Zenon DEF StayClassical
  <2>. HIDE DEF u, y
  <2>4. v \in Transports /\ Carries(u, v) /\ Grown(u, v)
    <3>1. "EMPTY" \in Bodies \ {"MSG"}
      BY DEF Bodies
    <3>2. Carries(u, u) /\ Grown(u, u)
      BY <2>1, SameGrown, Zenon DEF Carries, Alike
    <3>. QED
      BY <2>1, <3>1, <3>2, PushVersionCarries, Zenon
  <2>. HIDE DEF v
  <2>5. w \in Transports
    BY <2>4, Zenon DEF Transports, SendStates
  <2>6. /\ w.mode = v.mode /\ w.recv_state = v.recv_state /\ w.stalled = v.stalled
        /\ w.hybrid_state = v.hybrid_state /\ w.rejected = v.rejected /\ w.tag_seen = v.tag_seen
        /\ w.counts = v.counts /\ w.send_buffer = v.send_buffer /\ w.send_state = "READY"
    BY <2>4, Zenon DEF Transports
  <2>. HIDE DEF w
  <2>7. None(w)
    BY <1>0, <2>2, <2>4, <2>6, Zenon DEF None, Carries
  <2>8. /\ y \in Transports /\ Alike(w, y) /\ y.send_buffer = w.send_buffer
        /\ y.tag_seen = w.tag_seen /\ Only(y, "CLASSICAL")
    BY <2>3, <2>5, <2>7, CountHybridTally, Zenon DEF Outcomes
  <2>9. Grown(x, y)
    <3>1. Grown(x, u)
      BY <1>0, <2>2, SameGrown, Zenon
    <3>2. Grown(x, v)
      BY <1>0, <2>1, <2>4, <3>1, GrownTrans, Zenon
    <3>3. Grown(v, y)
      BY <2>4, <2>6, <2>8, SameGrown, Zenon
    <3>. QED
      BY <1>0, <2>4, <2>8, <3>2, <3>3, GrownTrans, Zenon
  <2>10. "READY" \in Keyed
    BY DEF Keyed
  <2>11. /\ y.mode = x.mode /\ y.recv_state = "VERSION" /\ y.stalled = x.stalled
         /\ y.hybrid_state = "CLASSICAL" /\ ~y.rejected /\ ~y.tag_seen /\ y.send_state = "READY"
    BY <2>2, <2>4, <2>6, <2>8, ZenonT(40) DEF Carries, Alike
  <2>12. Ended(x, y)
    BY <2>8, <2>9, <2>10, <2>11, Zenon DEF Ended
  <2>. QED
    BY <2>12, Zenon DEF y
<1>. QED
  BY <1>1, <1>2, Zenon

\* The initiator answers an offer.
LEMMA AnswerOfferEnds ==
  ASSUME NEW x, Opening(x), NEW body, NEW kem
  PROVE  Ended(x, AnswerOffer(x, body, kem))
<1>0. x \in Transports /\ None(x) /\ ~x.rejected /\ x.recv_state = "VERSION"
  BY Zenon DEF Opening
<1>1. CASE body = "BADKEY"
  BY <1>1, HybridFailEnds DEF AnswerOffer, Outcomes
<1>2. CASE body # "BADKEY" /\ (kem = "error" \/ ~x.stage2_secret)
  BY <1>2, HybridFailEnds DEF AnswerOffer, Outcomes
<1>3. CASE body # "BADKEY" /\ ~(kem = "error" \/ ~x.stage2_secret)
  <2>. DEFINE b == EncodeHybridRecord(x, "ACCEPT")
              u == PushVersion(x, b)
              w == SwitchToStage2(u, "s2")
              y == AnswerOffer(x, body, kem)
  <2>1. y = [w EXCEPT !.first_send = TRUE, !.hybrid_state = "UNCONFIRMED", !.send_state = "READY"]
    BY <1>3, Zenon DEF AnswerOffer
  <2>2. b \in Bodies \ {"MSG"}
    BY <1>0, EncodeHybridRecordType DEF Bodies
  <2>. HIDE DEF b
  <2>3. u \in Transports /\ Carries(x, u) /\ Grown(x, u)
    BY <1>0, <2>2, PushVersionCarries, Zenon
  <2>. HIDE DEF u
  <2>4. w \in Transports
    BY <2>3, SwitchToStage2Type, Zenon DEF Stage2Keys
  <2>5. /\ w.mode = u.mode /\ w.recv_state = u.recv_state /\ w.stalled = u.stalled
        /\ w.rejected = u.rejected /\ w.counts = u.counts /\ w.send_buffer = u.send_buffer
    BY <2>3, Zenon DEF SwitchToStage2, Transports
  <2>. HIDE DEF w, y
  <2>6. y \in Transports
    BY <2>1, <2>4, ZenonT(40) DEF Transports, HybridStates, SendStates
  <2>7. /\ y.mode = w.mode /\ y.recv_state = w.recv_state /\ y.stalled = w.stalled
        /\ y.rejected = w.rejected /\ y.counts = w.counts /\ y.send_buffer = w.send_buffer
        /\ y.hybrid_state = "UNCONFIRMED" /\ y.send_state = "READY"
    BY <2>1, <2>4, Zenon DEF Transports
  <2>8. Grown(x, y)
    <3>1. Grown(u, y)
      BY <2>3, <2>5, <2>7, SameGrown, Zenon
    <3>. QED
      BY <1>0, <2>3, <2>6, <3>1, GrownTrans, Zenon
  <2>9. None(y) /\ "READY" \in Keyed
    BY <1>0, <2>3, <2>5, <2>7, Zenon DEF None, Carries, Keyed
  <2>10. y.mode = x.mode /\ y.recv_state = "VERSION" /\ y.stalled = x.stalled /\ ~y.rejected
    BY <1>0, <2>3, <2>5, <2>7, Zenon DEF Carries, Alike
  <2>11. Ended(x, y)
    BY <2>6, <2>7, <2>8, <2>9, <2>10, Zenon DEF Ended
  <2>. QED
    BY <2>11, Zenon DEF y
<1>. QED
  BY <1>1, <1>2, <1>3, Zenon

\* The responder takes an accept.
LEMMA TakeAcceptEnds ==
  ASSUME NEW x, Opening(x), NEW kem
  PROVE  Ended(x, TakeAccept(x, kem))
<1>0. x \in Transports /\ None(x) /\ ~x.rejected /\ x.recv_state = "VERSION"
  BY Zenon DEF Opening
<1>1. CASE kem = "error" \/ ~x.key_pair \/ ~x.stage2_secret
  BY <1>1, HybridFailEnds DEF TakeAccept, Outcomes
<1>2. CASE ~(kem = "error" \/ ~x.key_pair \/ ~x.stage2_secret)
  <2>. DEFINE k == IF kem = "other" THEN "s2other" ELSE "s2"
              a == [x EXCEPT !.key_pair = FALSE]
              u == SwitchToStage2(a, k)
              w == PushPacket(u, "EMPTY", FALSE, TRUE, FALSE, 0)
              y == TakeAccept(x, kem)
  <2>1. y = [w EXCEPT !.hybrid_state = "UNCONFIRMED", !.send_state = "READY"]
    BY <1>2, Zenon DEF TakeAccept
  <2>2. k \in Stage2Keys
    BY DEF Stage2Keys
  <2>. HIDE DEF k
  <2>3. a \in Transports
    BY <1>0, Zenon DEF Transports
  <2>4. /\ a.mode = x.mode /\ a.recv_state = x.recv_state /\ a.stalled = x.stalled
        /\ a.rejected = x.rejected /\ a.counts = x.counts /\ a.send_buffer = x.send_buffer
    BY <1>0, Zenon DEF Transports
  <2>. HIDE DEF a
  <2>5. u \in Transports
    BY <2>2, <2>3, SwitchToStage2Type, Zenon
  <2>6. /\ u.mode = a.mode /\ u.recv_state = a.recv_state /\ u.stalled = a.stalled
        /\ u.rejected = a.rejected /\ u.counts = a.counts /\ u.send_buffer = a.send_buffer
    BY <2>3, Zenon DEF SwitchToStage2, Transports
  <2>. HIDE DEF u
  <2>7. w \in Transports /\ Carries(u, w) /\ Grown(u, w)
    <3>1. "EMPTY" \in Bodies \ {"MSG"} /\ FALSE \in BOOLEAN /\ TRUE \in BOOLEAN /\ 0 \in Nat
      BY DEF Bodies
    <3>. QED
      BY <2>5, <3>1, PushPacketCarries, Zenon
  <2>. HIDE DEF w, y
  <2>8. y \in Transports
    BY <2>1, <2>7, ZenonT(40) DEF Transports, HybridStates, SendStates
  <2>9. /\ y.mode = w.mode /\ y.recv_state = w.recv_state /\ y.stalled = w.stalled
        /\ y.rejected = w.rejected /\ y.counts = w.counts /\ y.send_buffer = w.send_buffer
        /\ y.hybrid_state = "UNCONFIRMED" /\ y.send_state = "READY"
    BY <2>1, <2>7, Zenon DEF Transports
  <2>10. Grown(x, y)
    <3>1. Grown(x, u)
      BY <1>0, <2>4, <2>6, SameGrown, Zenon
    <3>2. Grown(x, w)
      BY <1>0, <2>5, <2>7, <3>1, GrownTrans, Zenon
    <3>3. Grown(w, y)
      BY <2>7, <2>9, SameGrown, Zenon
    <3>. QED
      BY <1>0, <2>7, <2>8, <3>2, <3>3, GrownTrans, Zenon
  <2>11. None(y) /\ "READY" \in Keyed
    BY <1>0, <2>4, <2>6, <2>7, <2>9, Zenon DEF None, Carries, Keyed
  <2>12. y.mode = x.mode /\ y.recv_state = "VERSION" /\ y.stalled = x.stalled /\ ~y.rejected
    BY <1>0, <2>4, <2>6, <2>7, <2>9, ZenonT(40) DEF Carries, Alike
  <2>13. Ended(x, y)
    BY <2>8, <2>9, <2>10, <2>11, <2>12, Zenon DEF Ended
  <2>. QED
    BY <2>13, Zenon DEF y
<1>. QED
  BY <1>1, <1>2, Zenon

\* ProcessHybridVersion on any contents.
LEMMA ProcessHybridVersionEnds ==
  ASSUME NEW x, Opening(x), NEW body, NEW kem
  PROVE  Ended(x, ProcessHybridVersion(x, body, kem))
<1>. DEFINE record == ClassifyHybridRecord(body, IF x.initiating THEN "OFFER" ELSE "ACCEPT")
            u == [x EXCEPT !.tag_seen = record # "NONE"]
            y == ProcessHybridVersion(x, body, kem)
<1>0. x \in Transports /\ None(x) /\ ~x.rejected /\ x.recv_state = "VERSION" /\ x.send_state \in Keyed
  BY Zenon DEF Opening
<1>1. record \in {"NONE", "VALID", "MALFORMED"}
  BY DEF ClassifyHybridRecord
<1>2. /\ record = "NONE" => y = StayClassical(u)
      /\ record = "MALFORMED" => y = HybridFail(u, "BAD_RECORD")
      /\ record = "VALID" => y = AnswerOffer(u, body, kem) \/ y = TakeAccept(u, kem)
  BY <1>0, ZenonT(40) DEF ProcessHybridVersion, Transports
<1>. HIDE DEF record, y
<1>3. u \in Transports
  BY <1>0, ZenonT(40) DEF Transports
<1>4. /\ u.mode = x.mode /\ u.recv_state = x.recv_state /\ u.stalled = x.stalled
      /\ u.rejected = x.rejected /\ u.counts = x.counts /\ u.send_buffer = x.send_buffer
      /\ u.send_state = x.send_state /\ u.tag_seen = (record # "NONE")
  BY <1>0, Zenon DEF Transports
<1>. HIDE DEF u
<1>5. Opening(u)
  BY <1>0, <1>3, <1>4, Zenon DEF Opening, None
<1>6. Ended(u, y)
  BY <1>1, <1>2, <1>4, <1>5, StayClassicalEnds, HybridFailEnds, AnswerOfferEnds,
     TakeAcceptEnds, ZenonT(40) DEF Outcomes
<1>7. Grown(x, y)
  BY <1>0, <1>3, <1>4, <1>6, SameGrown, GrownTrans, Zenon DEF Ended
<1>8. Ended(x, y)
  BY <1>4, <1>6, <1>7, Zenon DEF Ended
<1>. QED
  BY <1>8, Zenon DEF y

\* A message in place of the version packet is refused.
LEMMA MessageEndsIt ==
  ASSUME NEW x, Opening(x), NEW kem
  PROVE  ProcessHybridVersion(x, "MSG", kem).rejected
<1>. DEFINE u == [x EXCEPT !.tag_seen = TRUE]
<1>1. x \in Transports /\ None(x)
  BY Zenon DEF Opening
<1>2. ProcessHybridVersion(x, "MSG", kem) = HybridFail(u, "BAD_RECORD")
  BY Zenon DEF ProcessHybridVersion, ClassifyHybridRecord
<1>3. u \in Transports /\ "BAD_RECORD" \in Outcomes
  BY <1>1, Zenon DEF Transports, Outcomes
<1>. QED
  BY <1>2, <1>3, HybridFailEffect, Zenon

\* What is left to show of a packet that was read.
LEMMA PacketRead ==
  ASSUME NEW x \in Transports, x.recv_state \in {"VERSION", "APP"}, x.send_state \in Keyed,
         NEW y \in Transports, Settled(y), Grown(x, y), y.send_state \in Keyed,
         y.recv_state = "APP" \/ (y.recv_state = "VERSION" /\ x.recv_state = "VERSION"),
         NEW unit,
         x.stalled => y.stalled,
         unit.body = "MSG" /\ ~y.rejected /\ ~y.stalled =>
           /\ y.recv_state = "APP" /\ unit.key = y.cipher
           /\ y.mode = "OFF" \/ y.hybrid_state \in Quiet,
         x.recv_state = "APP" =>
           y.cipher = x.cipher /\ (x.hybrid_state \in Quiet => y.hybrid_state = x.hybrid_state)
  PROVE  Read(x, y, unit)
<1>1. /\ x.recv_state \notin Unkeyed /\ y.recv_state \notin Before
      /\ y.send_state \notin {"V1", "MAYBE_V1"} /\ x.send_state # "V1"
      /\ x.recv_state = "V1" => FALSE
  BY DEF Unkeyed, Before, Keyed
<1>. QED
  BY <1>1, Zenon DEF Read, MessageComplete

\* A length that decrypts to a short one leaves the receiver waiting.
LEMMA StalledRead ==
  ASSUME NEW x \in Transports, Settled(x), ~x.rejected, x.recv_state \in {"VERSION", "APP"},
         x.send_state \in Keyed, NEW unit
  PROVE  Read(x, [x EXCEPT !.stalled = TRUE], unit)
<1>. DEFINE y == [x EXCEPT !.stalled = TRUE]
<1>1. /\ y.mode = x.mode /\ y.recv_state = x.recv_state /\ y.send_state = x.send_state
      /\ y.hybrid_state = x.hybrid_state /\ y.tag_seen = x.tag_seen /\ y.failure = x.failure
      /\ y.counts = x.counts /\ y.cipher = x.cipher /\ y.rejected = x.rejected
      /\ y.send_buffer = x.send_buffer /\ y.stalled /\ y \in Transports
  BY Zenon DEF Transports
<1>. HIDE DEF y
<1>2. Settled(y)
  BY <1>1, ZenonT(40) DEF Settled, Placed, Staged, Tally, Uncounted, None, Only
<1>3. Grown(x, y)
  BY <1>1, SameGrown, Zenon
<1>4. Read(x, y, unit)
  BY <1>1, <1>2, <1>3, PacketRead, Zenon
<1>. QED
  BY <1>4, Zenon DEF y

\* A packet that fails.
LEMMA RejectPacketRead ==
  ASSUME NEW x \in Transports, Settled(x), ~x.rejected, x.recv_state \in {"VERSION", "APP"},
         x.send_state \in Keyed, NEW unit
  PROVE  Read(x, RejectPacket(x), unit)
<1>1. CASE ~AwaitsConfirmation(x)
  BY <1>1, RejectRead, Zenon DEF RejectPacket
<1>2. CASE AwaitsConfirmation(x)
  <2>. DEFINE y == HybridFail(x, "STAGE2_FAILED")
  <2>1. RejectPacket(x) = y
    BY <1>2, Zenon DEF RejectPacket
  <2>2. x.mode # "OFF" /\ x.hybrid_state = "UNCONFIRMED" /\ None(x) /\ x.recv_state = "APP"
    BY <1>2, Zenon DEF AwaitsConfirmation, Settled, Uncounted, Placed
  <2>3. "STAGE2_FAILED" \in Outcomes \ {"HYBRID"}
    BY DEF Outcomes
  <2>4. /\ y \in Transports
        /\ y.mode = x.mode /\ y.cipher = x.cipher /\ y.stalled = x.stalled
        /\ y.recv_state = x.recv_state /\ y.send_state = x.send_state
        /\ y.send_buffer = x.send_buffer
        /\ y.hybrid_state = "FAILED" /\ y.rejected /\ y.failure = "STAGE2_FAILED"
        /\ Only(y, "STAGE2_FAILED")
    BY <2>2, <2>3, HybridFailTally, Zenon
  <2>. HIDE DEF y
  <2>5. "APP" \notin Unkeyed /\ y.send_state # "MAYBE_V1" /\ y.send_state # "V1"
        /\ "UNCONFIRMED" \notin Quiet
    BY <2>4 DEF Unkeyed, Keyed, Quiet
  <2>6. Settled(y)
    BY <2>2, <2>3, <2>4, <2>5, Zenon DEF Settled, Placed, Staged, Tally, Uncounted
  <2>7. Grown(x, y)
    BY <2>4, SameGrown, Zenon
  <2>. QED
    BY <2>1, <2>2, <2>4, <2>5, <2>6, <2>7, PacketRead, Zenon
<1>. QED
  BY <1>1, <1>2, Zenon

\* A packet that authenticates, before the receiver looks at what is in it.
LEMMA ConfirmRead ==
  ASSUME NEW x \in Transports, Settled(x), ~x.rejected, x.recv_state \in {"VERSION", "APP"},
         x.send_state \in Keyed
  PROVE  LET u == Confirm([x EXCEPT !.recv_aad = FALSE, !.recv_seq = @ + 1])
         IN  /\ u \in Transports /\ Settled(u) /\ ~u.rejected /\ u.send_buffer = x.send_buffer
             /\ u.mode = x.mode /\ u.recv_state = x.recv_state /\ u.send_state = x.send_state
             /\ u.cipher = x.cipher /\ u.stalled = x.stalled
             /\ u.mode = "OFF" \/ u.hybrid_state \in Quiet
             /\ x.hybrid_state \in Quiet => u.hybrid_state = x.hybrid_state
<1>. DEFINE z == [x EXCEPT !.recv_aad = FALSE, !.recv_seq = @ + 1]
            w == [z EXCEPT !.hybrid_state = "CONFIRMED"]
            u == Confirm(z)
<1>1. z \in Transports
  <2>1. x.recv_seq + 1 \in Nat
    BY DEF Transports
  <2>. QED
    BY <2>1, Zenon DEF Transports
<1>2. Carries(x, z) /\ z.send_buffer = x.send_buffer
  BY Zenon DEF Carries, Alike, Transports
<1>3. x.hybrid_state \in HybridStates /\ x.hybrid_state # "FAILED"
  BY Zenon DEF Transports, Settled, Tally
<1>. HIDE DEF z
<1>4. Settled(z)
  BY <1>2, Zenon DEF Carries, Alike, Settled, Placed, Staged, Tally, Uncounted, None, Only
<1>5. CASE ~AwaitsConfirmation(z)
  <2>1. u = z
    BY <1>5, Zenon DEF Confirm
  <2>2. z.mode = "OFF" \/ z.hybrid_state \in Quiet
    BY <1>2, <1>3, <1>5 DEF AwaitsConfirmation, Quiet, HybridStates, Carries, Alike
  <2>. QED
    BY <1>1, <1>2, <1>4, <2>1, <2>2, Zenon DEF Carries, Alike, z
<1>6. CASE AwaitsConfirmation(z)
  <2>1. u = CountHybrid(w, "HYBRID")
    BY <1>6, Zenon DEF Confirm
  <2>2. w \in Transports
    BY <1>1, Zenon DEF Transports, HybridStates
  <2>3. /\ w.mode = z.mode /\ w.recv_state = z.recv_state /\ w.send_state = z.send_state
        /\ w.cipher = z.cipher /\ w.rejected = z.rejected /\ w.stalled = z.stalled
        /\ w.send_buffer = z.send_buffer /\ w.hybrid_state = "CONFIRMED"
        /\ w.tag_seen = z.tag_seen /\ w.counts = z.counts
    BY <1>1, Zenon DEF Transports
  <2>4. x.hybrid_state = "UNCONFIRMED" /\ x.mode # "OFF"
    BY <1>2, <1>6, Zenon DEF AwaitsConfirmation, Carries, Alike
  <2>5. None(x) /\ x.recv_state = "APP"
    BY <2>4, Zenon DEF Settled, Uncounted, Placed
  <2>. HIDE DEF u, w
  <2>6. None(w)
    BY <1>2, <2>3, <2>5, Zenon DEF None, Carries
  <2>7. /\ u \in Transports /\ Alike(w, u) /\ u.send_buffer = w.send_buffer
        /\ u.tag_seen = w.tag_seen /\ Only(u, "HYBRID")
    BY <2>1, <2>2, <2>6, CountHybridTally, Zenon DEF Outcomes
  <2>8. /\ u.mode = x.mode /\ u.recv_state = "APP" /\ u.send_state = x.send_state
        /\ u.cipher = x.cipher /\ ~u.rejected /\ u.stalled = x.stalled
        /\ u.send_buffer = x.send_buffer /\ u.hybrid_state = "CONFIRMED"
    BY <1>2, <2>3, <2>5, <2>7, Zenon DEF Carries, Alike
  <2>9. "APP" \notin Unkeyed /\ u.send_state # "MAYBE_V1" /\ u.send_state # "V1"
        /\ "UNCONFIRMED" \notin Quiet /\ "CONFIRMED" \in Quiet
    BY <2>8 DEF Unkeyed, Keyed, Quiet
  <2>10. Settled(u)
    BY <2>4, <2>7, <2>8, <2>9, Zenon DEF Settled, Placed, Staged, Tally, Uncounted
  <2>. QED
    BY <2>4, <2>5, <2>7, <2>8, <2>9, <2>10, Zenon DEF u, z
<1>. QED
  BY <1>5, <1>6, Zenon

\* The version packet of a peer, once it has authenticated.
LEMMA VersionRead ==
  ASSUME NEW x \in Transports, x.recv_state = "VERSION", x.send_state \in Keyed, ~x.stalled,
         NEW u \in Transports, Settled(u), ~u.rejected, u.send_buffer = x.send_buffer,
         u.recv_state = "VERSION", u.send_state = x.send_state, u.mode = x.mode,
         u.cipher = x.cipher, u.stalled = x.stalled,
         NEW unit, unit.key = x.cipher, NEW kem
  PROVE  LET v == IF x.mode = "OFF" THEN u ELSE ProcessHybridVersion(u, unit.body, kem)
         IN  Read(x, IF v.rejected THEN v ELSE [v EXCEPT !.recv_state = "APP"], unit)
<1>1. u.hybrid_state = "PENDING" /\ None(u) /\ ~u.tag_seen
  <2>1. u.hybrid_state \in HybridStates
    BY Zenon DEF Transports
  <2>. QED
    BY <2>1 DEF Settled, Placed, Tally, Uncounted, HybridStates
<1>2. "APP" \notin Unkeyed /\ "VERSION" \notin Unkeyed
  BY DEF Unkeyed
<1>3. CASE x.mode = "OFF"
  <2>. DEFINE y == [u EXCEPT !.recv_state = "APP"]
  <2>1. y \in Transports
    BY Zenon DEF Transports, RecvStates
  <2>2. /\ y.mode = u.mode /\ y.recv_state = "APP" /\ y.send_state = u.send_state
        /\ y.hybrid_state = u.hybrid_state /\ y.tag_seen = u.tag_seen /\ y.counts = u.counts
        /\ y.cipher = u.cipher /\ y.rejected = u.rejected /\ y.stalled = u.stalled
        /\ y.send_buffer = u.send_buffer
    BY Zenon DEF Transports
  <2>. HIDE DEF y
  <2>3. None(y) /\ y.send_state # "MAYBE_V1" /\ y.send_state # "V1"
    BY <1>1, <2>2 DEF None, Keyed
  <2>4. Settled(y)
    BY <1>1, <1>2, <2>2, <2>3, Zenon DEF Settled, Placed, Staged, Tally, Uncounted
  <2>5. Grown(x, y)
    BY <2>2, SameGrown, Zenon
  <2>6. Read(x, y, unit)
    BY <1>3, <2>1, <2>2, <2>4, <2>5, PacketRead, Zenon
  <2>. QED
    BY <1>3, <2>6, Zenon DEF y
<1>4. CASE x.mode # "OFF"
  <2>. DEFINE v == ProcessHybridVersion(u, unit.body, kem)
              y == [v EXCEPT !.recv_state = "APP"]
  <2>1. Opening(u)
    BY <1>1, Zenon DEF Opening
  <2>2. Ended(u, v) /\ (unit.body = "MSG" => v.rejected)
    BY <2>1, ProcessHybridVersionEnds, MessageEndsIt, Zenon
  <2>. HIDE DEF v
  <2>3. /\ v \in Transports /\ v.mode = x.mode /\ v.recv_state = "VERSION" /\ v.stalled = x.stalled
        /\ v.send_state \in Keyed
    BY <2>2, Zenon DEF Ended
  <2>4. Grown(x, v)
    BY <2>2, <2>3, SameGrown, GrownTrans, Zenon DEF Ended
  <2>5. CASE v.rejected
    <3>1. v.hybrid_state = "FAILED" /\ v.failure \in Outcomes \ {"HYBRID"} /\ Only(v, v.failure)
      BY <2>2, <2>5, Zenon DEF Ended
    <3>2. v.send_state # "MAYBE_V1" /\ v.send_state # "V1"
      BY <2>3 DEF Keyed
    <3>3. Settled(v)
      BY <1>2, <1>4, <2>3, <2>5, <3>1, <3>2, Zenon DEF Settled, Placed, Staged, Tally, Uncounted
    <3>4. Read(x, v, unit)
      BY <2>3, <2>4, <2>5, <3>3, PacketRead, Zenon
    <3>. QED
      BY <1>4, <2>5, <3>4, Zenon DEF v
  <2>6. CASE ~v.rejected
    <3>1. y \in Transports
      BY <2>3, Zenon DEF Transports, RecvStates
    <3>2. /\ y.mode = v.mode /\ y.recv_state = "APP" /\ y.send_state = v.send_state
          /\ y.hybrid_state = v.hybrid_state /\ y.tag_seen = v.tag_seen /\ y.counts = v.counts
          /\ y.rejected = v.rejected /\ y.stalled = v.stalled
          /\ y.send_buffer = v.send_buffer
      BY <2>3, Zenon DEF Transports
    <3>. HIDE DEF y
    <3>3. y.send_state # "MAYBE_V1" /\ y.send_state # "V1"
      BY <2>3, <3>2 DEF Keyed
    <3>4. \/ y.hybrid_state = "CLASSICAL" /\ Only(y, "CLASSICAL") /\ ~y.tag_seen
          \/ y.hybrid_state = "UNCONFIRMED" /\ None(y)
      BY <2>2, <2>6, <3>2, Zenon DEF Ended, Only, None
    <3>5. Settled(y)
      BY <1>2, <1>4, <2>3, <3>2, <3>3, <3>4, Zenon DEF Settled, Placed, Staged, Tally, Uncounted
    <3>6. Grown(x, y)
      BY <2>3, <2>4, <3>1, <3>2, SameGrown, GrownTrans, Zenon
    <3>7. Read(x, y, unit)
      BY <2>2, <2>3, <2>6, <3>1, <3>2, <3>5, <3>6, PacketRead, Zenon
    <3>. QED
      BY <1>4, <2>6, <3>7, Zenon DEF v, y
  <2>. QED
    BY <2>5, <2>6, Zenon
<1>. QED
  BY <1>3, <1>4, Zenon

\* Reading in the VERSION and APP states.
LEMMA ProcessReceivedPacketBytesRead ==
  ASSUME NEW x \in Transports, Settled(x), ~x.rejected, x.recv_state \in {"VERSION", "APP"},
         NEW unit \in Units, Proper(unit), NEW kem, NEW wait \in BOOLEAN
  PROVE  Read(x, ProcessReceivedPacketBytes(x, unit, kem, wait), unit)
<1>. DEFINE y == ProcessReceivedPacketBytes(x, unit, kem, wait)
            readable == ~x.stalled /\ unit.key = x.cipher /\ unit.seq = x.recv_seq
            ok == readable /\ unit.aad = x.recv_aad /\ ~(AwaitsConfirmation(x) /\ unit.big)
            u == Confirm([x EXCEPT !.recv_aad = FALSE, !.recv_seq = @ + 1])
            v == IF x.mode = "OFF" THEN u ELSE ProcessHybridVersion(u, unit.body, kem)
<1>1. x.send_state \in Keyed /\ unit.ignore \in BOOLEAN
  BY Zenon DEF Settled, Staged, Units
<1>2. CASE ~readable /\ wait
  BY <1>1, <1>2, StalledRead, Zenon DEF ProcessReceivedPacketBytes
<1>3. CASE ~ok /\ (readable \/ ~wait)
  <2>1. y = RejectPacket(x)
    BY <1>3 DEF ProcessReceivedPacketBytes
  <2>. QED
    BY <1>1, <2>1, RejectPacketRead, Zenon
<1>4. CASE ok
  <2>0. ~x.stalled /\ unit.key = x.cipher
    BY <1>4, Zenon
  <2>1. /\ u \in Transports /\ Settled(u) /\ ~u.rejected /\ u.send_buffer = x.send_buffer
        /\ u.mode = x.mode /\ u.recv_state = x.recv_state /\ u.send_state = x.send_state
        /\ u.cipher = x.cipher /\ u.stalled = x.stalled
        /\ u.mode = "OFF" \/ u.hybrid_state \in Quiet
        /\ x.hybrid_state \in Quiet => u.hybrid_state = x.hybrid_state
    BY <1>1, ConfirmRead, Zenon
  <2>2. CASE unit.ignore \/ x.recv_state = "APP"
    <3>1. y = u
      BY <1>4, <2>2 DEF ProcessReceivedPacketBytes
    <3>. HIDE DEF u, y
    <3>2. Grown(x, u)
      BY <2>1, SameGrown, Zenon
    <3>3. unit.body = "MSG" => x.recv_state = "APP"
      BY <2>2, Zenon DEF Proper
    <3>4. Read(x, u, unit)
      BY <1>1, <2>0, <2>1, <3>2, <3>3, PacketRead, Zenon
    <3>. QED
      BY <3>1, <3>4, Zenon DEF y
  <2>3. CASE ~unit.ignore /\ x.recv_state = "VERSION"
    <3>1. y = IF v.rejected THEN v ELSE [v EXCEPT !.recv_state = "APP"]
      BY <1>4, <2>3 DEF ProcessReceivedPacketBytes
    <3>. HIDE DEF u, y
    <3>2. Read(x, IF v.rejected THEN v ELSE [v EXCEPT !.recv_state = "APP"], unit)
      BY <1>1, <2>0, <2>1, <2>3, VersionRead, Zenon
    <3>. QED
      BY <3>1, <3>2, Zenon DEF y
  <2>. QED
    BY <2>2, <2>3, Zenon
<1>. QED
  BY <1>2, <1>3, <1>4, Zenon

\* Reading any unit in any receive state.
LEMMA ReceivedBytesRead ==
  ASSUME NEW x, Good(x), Settled(x), ~x.rejected,
         NEW unit \in Units, Proper(unit), NEW kem, NEW wait \in BOOLEAN
  PROVE  Read(x, ReceivedBytes(x, unit, kem, wait), unit)
<1>. DEFINE y == ReceivedBytes(x, unit, kem, wait)
<1>1. x \in Transports /\ x.recv_state \in RecvStates
  BY Zenon DEF Good, Transports
<1>2. x.recv_state = "KEY_MAYBE_V1" => x.cipher = "none"
  BY Zenon DEF Good, Sound
<1>3. CASE x.recv_state = "V1"
  BY <1>1, <1>3, V1ReceivedBytesRead, Zenon DEF ReceivedBytes
<1>4. CASE x.recv_state = "KEY_MAYBE_V1"
  BY <1>1, <1>2, <1>4, ProcessReceivedMaybeV1BytesRead, Zenon DEF ReceivedBytes
<1>5. CASE x.recv_state = "KEY"
  BY <1>1, <1>5, ProcessReceivedKeyBytesRead, Zenon DEF ReceivedBytes
<1>6. CASE x.recv_state = "GARB_GARBTERM"
  BY <1>1, <1>6, ProcessReceivedGarbageBytesRead, Zenon DEF ReceivedBytes
<1>7. CASE x.recv_state \in {"VERSION", "APP"}
  BY <1>1, <1>7, ProcessReceivedPacketBytesRead, Zenon DEF ReceivedBytes
<1>. QED
  BY <1>1, <1>3, <1>4, <1>5, <1>6, <1>7 DEF RecvStates

-----------------------------------------------------------------------------
(* The stream to one endpoint: what is on the wire, then what its peer has *)
(* not handed to the socket yet.                                           *)

Message(u) == u.body = "MSG"

\* The stream holds the messages r + 1 to m, in order, each once.
Ordered(q, r, m) ==
  /\ \A i \in 1..Len(q) : Message(q[i]) => r < q[i].n /\ q[i].n <= m
  /\ \A i, j \in 1..Len(q) : Message(q[i]) /\ Message(q[j]) /\ i < j => q[i].n < q[j].n
  /\ \A n \in Nat : r < n /\ n <= m => \E i \in 1..Len(q) : Message(q[i]) /\ q[i].n = n

TermFirst(q) ==
  \A i \in 1..Len(q) : Message(q[i]) => \E j \in 1..Len(q) : j < i /\ q[j].kind = "TERM"

TermIn(q) == \E i \in 1..Len(q) : q[i].kind = "TERM"

\* The stream q to an endpoint with transport x that has taken the messages r,
\* from a peer in send state st that has sent m messages; open while x has its
\* socket.
FlowOf(x, st, q, r, m, open) ==
  /\ \A i \in 1..Len(q) : Proper(q[i]) /\ (q[i].kind \in V1Kinds <=> st = "V1")
  /\ st \in {"V1", "MAYBE_V1"} => x.recv_state \in Unkeyed
  /\ st = "MAYBE_V1" => q = <<>>
  /\ Len(r) <= m
  /\ open /\ ~x.stalled =>
       /\ Ordered(q, Len(r), m)
       /\ x.recv_state \in Before =>
            (st # "V1" => TermFirst(q)) /\ (st \in Keyed => TermIn(q))
  /\ \A i \in 1..Len(r) : r[i].n = i /\ r[i].key = x.cipher

\* The units of two sequences joined.
LEMMA JoinAt ==
  ASSUME NEW w \in Seq(Units), NEW b \in Seq(Units)
  PROVE  /\ w \o b \in Seq(Units) /\ Len(w \o b) = Len(w) + Len(b)
         /\ Len(w) \in Nat /\ Len(b) \in Nat
         /\ \A i \in 1..Len(w) : (w \o b)[i] = w[i]
         /\ \A i \in 1..Len(b) : (w \o b)[Len(w) + i] = b[i]
OBVIOUS

\* Handing a unit to the socket leaves the stream as it is.
LEMMA JoinSend ==
  ASSUME NEW w \in Seq(Units), NEW b \in Seq(Units), b # <<>>
  PROVE  Append(w, Head(b)) \o Tail(b) = w \o b
OBVIOUS

\* A unit added to the send buffer is the last of the stream.
LEMMA JoinAppend ==
  ASSUME NEW w \in Seq(Units), NEW b \in Seq(Units), NEW u \in Units
  PROVE  w \o Append(b, u) = Append(w \o b, u)
OBVIOUS

\* The first unit on the wire is the first of the stream.
LEMMA JoinTail ==
  ASSUME NEW w \in Seq(Units), NEW b \in Seq(Units), w # <<>>
  PROVE  /\ w \o b # <<>> /\ Head(w \o b) = Head(w) /\ Tail(w \o b) = Tail(w) \o b
OBVIOUS

\* A unit handed to a closed socket leaves the others.
LEMMA JoinLoses ==
  ASSUME NEW w \in Seq(Units), NEW b \in Seq(Units), b # <<>>
  PROVE  /\ w \o b \in Seq(Units) /\ w \o Tail(b) \in Seq(Units)
         /\ \A i \in 1..Len(w \o Tail(b)) : \E j \in 1..Len(w \o b) : (w \o Tail(b))[i] = (w \o b)[j]
<1>. DEFINE q == w \o b
            z == w \o Tail(b)
<1>1. q \in Seq(Units) /\ z \in Seq(Units)
  OBVIOUS
<1>2. ASSUME NEW i \in 1..Len(z)
      PROVE  \/ i \in 1..Len(q) /\ z[i] = q[i]
             \/ i + 1 \in 1..Len(q) /\ z[i] = q[i + 1]
  <2>1. CASE i <= Len(w)
    BY <2>1
  <2>2. CASE i > Len(w)
    BY <2>2
  <2>. QED
    BY <2>1, <2>2
<1>. QED
  BY <1>1, <1>2, Zenon

\* The units on the wire are dropped with the socket.
LEMMA JoinDropped ==
  ASSUME NEW w \in Seq(Units), NEW b \in Seq(Units)
  PROVE  /\ w \o b \in Seq(Units) /\ <<>> \o b \in Seq(Units)
         /\ \A i \in 1..Len(<<>> \o b) : \E j \in 1..Len(w \o b) : (<<>> \o b)[i] = (w \o b)[j]
<1>1. w \o b \in Seq(Units) /\ <<>> \o b \in Seq(Units)
  OBVIOUS
<1>2. ASSUME NEW i \in 1..Len(<<>> \o b)
      PROVE  Len(w) + i \in 1..Len(w \o b) /\ (<<>> \o b)[i] = (w \o b)[Len(w) + i]
  OBVIOUS
<1>. QED
  BY <1>1, <1>2, Zenon

\* The stream grows with the send buffer.
LEMMA JoinGrows ==
  ASSUME NEW w \in Seq(Units), NEW a \in Seq(Units), NEW b \in Seq(Units),
         Len(a) <= Len(b), \A i \in 1..Len(a) : b[i] = a[i],
         \A i \in 1..Len(b) : i > Len(a) => Plain(b[i])
  PROVE  /\ w \o a \in Seq(Units) /\ w \o b \in Seq(Units) /\ Len(w \o a) <= Len(w \o b)
         /\ \A i \in 1..Len(w \o a) : (w \o b)[i] = (w \o a)[i]
         /\ \A i \in 1..Len(w \o b) : i > Len(w \o a) => Plain((w \o b)[i])
<1>1. w \o a \in Seq(Units) /\ w \o b \in Seq(Units) /\ Len(w \o a) <= Len(w \o b)
  OBVIOUS
<1>2. ASSUME NEW i \in 1..Len(w \o a) PROVE (w \o b)[i] = (w \o a)[i]
  <2>1. CASE i <= Len(w)
    BY <2>1
  <2>2. CASE i > Len(w)
    BY <2>2
  <2>. QED
    BY <2>1, <2>2
<1>3. ASSUME NEW i \in 1..Len(w \o b), i > Len(w \o a) PROVE Plain((w \o b)[i])
  <2>1. i - Len(w) \in 1..Len(b) /\ i - Len(w) > Len(a) /\ (w \o b)[i] = b[i - Len(w)]
    BY <1>3
  <2>. QED
    BY <2>1, Zenon
<1>. QED
  BY <1>1, <1>2, <1>3, Zenon

\* A terminator in the send buffer is one in the stream.
LEMMA JoinTerm ==
  ASSUME NEW w \in Seq(Units), NEW b \in Seq(Units),
         \E i \in 1..Len(b) : b[i].kind = "TERM"
  PROVE  TermIn(w \o b)
<1>1. PICK i \in 1..Len(b) : b[i].kind = "TERM"
  BY Zenon
<1>2. Len(w) + i \in 1..Len(w \o b) /\ (w \o b)[Len(w) + i] = b[i]
  OBVIOUS
<1>. QED
  BY <1>1, <1>2, Zenon DEF TermIn

\* Plain units at the end change no message.
LEMMA OrderedGrows ==
  ASSUME NEW q \in Seq(Units), NEW p \in Seq(Units), Len(q) <= Len(p),
         \A i \in 1..Len(q) : p[i] = q[i],
         \A i \in 1..Len(p) : i > Len(q) => ~Message(p[i]),
         NEW r \in Nat, NEW m \in Nat, Ordered(q, r, m)
  PROVE  Ordered(p, r, m) /\ (TermFirst(q) => TermFirst(p)) /\ (TermIn(q) => TermIn(p))
<1>1. Len(q) \in Nat /\ Len(p) \in Nat
  OBVIOUS
<1>2. /\ \A i \in 1..Len(q) : i \in 1..Len(p)
      /\ \A i \in 1..Len(p) : Message(p[i]) => i \in 1..Len(q)
  BY <1>1
<1>3. Ordered(p, r, m)
  BY <1>2, Zenon DEF Ordered
<1>. QED
  BY <1>2, <1>3, Zenon DEF TermFirst, TermIn

\* The next message of the peer goes to the end.
LEMMA OrderedAppend ==
  ASSUME NEW q \in Seq(Units), NEW u \in Units, NEW r \in Nat, NEW m \in Nat, r <= m,
         Message(u), u.n = m + 1, Ordered(q, r, m)
  PROVE  Ordered(Append(q, u), r, m + 1)
<1>. DEFINE p == Append(q, u)
            l == Len(q)
<1>1. /\ l \in Nat /\ Len(p) = l + 1 /\ p[l + 1] = u
      /\ \A i \in 1..l : i \in 1..(l + 1) /\ p[i] = q[i]
      /\ \A i \in 1..(l + 1) : i \in 1..l \/ i = l + 1
  OBVIOUS
<1>0. \A i \in 1..l : q[i].n \in Nat
  <2>1. \A i \in 1..l : q[i] \in Units
    BY <1>1
  <2>. QED
    BY <2>1, Zenon DEF Units
<1>2. /\ \A i \in 1..l : Message(q[i]) => r < q[i].n /\ q[i].n <= m
      /\ \A i, j \in 1..l : Message(q[i]) /\ Message(q[j]) /\ i < j => q[i].n < q[j].n
      /\ \A n \in Nat : r < n /\ n <= m => \E i \in 1..l : Message(q[i]) /\ q[i].n = n
  BY Zenon DEF Ordered
<1>. HIDE DEF p, l
<1>3. \A i \in 1..(l + 1) : Message(p[i]) => r < p[i].n /\ p[i].n <= m + 1
  BY <1>0, <1>1, <1>2
<1>4. ASSUME NEW i \in 1..(l + 1), NEW j \in 1..(l + 1), Message(p[i]), Message(p[j]), i < j
      PROVE  p[i].n < p[j].n
  <2>1. i \in 1..l
    BY <1>1, <1>4
  <2>2. CASE j \in 1..l
    BY <1>1, <1>2, <1>4, <2>1, <2>2, Zenon
  <2>3. CASE j = l + 1
    <3>1. Message(q[i]) /\ p[i] = q[i] /\ p[j].n = m + 1
      BY <1>1, <1>4, <2>1, <2>3, Zenon
    <3>. QED
      BY <1>0, <1>2, <2>1, <3>1
  <2>. QED
    BY <1>1, <2>2, <2>3, Zenon
<1>5. ASSUME NEW n \in Nat, r < n, n <= m + 1
      PROVE  \E i \in 1..(l + 1) : Message(p[i]) /\ p[i].n = n
  <2>1. CASE n = m + 1
    BY <1>1, <2>1
  <2>2. CASE n <= m
    <3>1. PICK i \in 1..l : Message(q[i]) /\ q[i].n = n
      BY <1>2, <1>5, <2>2, Zenon
    <3>. QED
      BY <1>1, <3>1, Zenon
  <2>. QED
    BY <1>5, <2>1, <2>2
<1>. QED
  BY <1>1, <1>3, <1>4, <1>5, Zenon DEF Ordered, p

\* The first message of the stream is the next one.
LEMMA OrderedTail ==
  ASSUME NEW q \in Seq(Units), q # <<>>, NEW r \in Nat, NEW m \in Nat, Ordered(q, r, m)
  PROVE  /\ Message(Head(q)) => Head(q).n = r + 1 /\ r + 1 <= m /\ Ordered(Tail(q), r + 1, m)
         /\ ~Message(Head(q)) => Ordered(Tail(q), r, m)
<1>. DEFINE p == Tail(q)
            l == Len(q)
            k == Len(p)
<1>1. /\ l \in Nat /\ k \in Nat /\ l = k + 1 /\ 1 \in 1..l /\ Head(q) = q[1]
      /\ \A i \in 1..k : i + 1 \in 1..l /\ p[i] = q[i + 1] /\ 1 < i + 1
      /\ \A i \in 1..l : i = 1 \/ (i - 1 \in 1..k /\ p[i - 1] = q[i])
  OBVIOUS
<1>0. \A i \in 1..l : q[i].n \in Nat
  <2>1. \A i \in 1..l : q[i] \in Units
    BY <1>1
  <2>. QED
    BY <2>1, Zenon DEF Units
<1>2. /\ \A i \in 1..l : Message(q[i]) => r < q[i].n /\ q[i].n <= m
      /\ \A i, j \in 1..l : Message(q[i]) /\ Message(q[j]) /\ i < j => q[i].n < q[j].n
      /\ \A n \in Nat : r < n /\ n <= m => \E i \in 1..l : Message(q[i]) /\ q[i].n = n
  BY Zenon DEF Ordered
<1>. HIDE DEF p, l, k
<1>3. \A i, j \in 1..k : Message(p[i]) /\ Message(p[j]) /\ i < j => p[i].n < p[j].n
  <2>. SUFFICES ASSUME NEW i \in 1..k, NEW j \in 1..k, Message(p[i]), Message(p[j]), i < j
                PROVE  p[i].n < p[j].n
    BY Zenon
  <2>1. i + 1 < j + 1
    BY <1>1
  <2>2. i + 1 \in 1..l /\ j + 1 \in 1..l /\ p[i] = q[i + 1] /\ p[j] = q[j + 1]
    BY <1>1, Zenon
  <2>3. Message(q[i + 1]) /\ Message(q[j + 1])
    BY <2>2, Zenon
  <2>4. q[i + 1].n < q[j + 1].n
    BY <1>2, <2>1, <2>2, <2>3, Zenon
  <2>. QED
    BY <2>2, <2>4, Zenon
<1>4. ASSUME Message(q[1])
      PROVE  q[1].n = r + 1 /\ r + 1 <= m /\ Ordered(p, r + 1, m)
  <2>1. r < q[1].n /\ q[1].n <= m /\ q[1].n \in Nat
    BY <1>0, <1>1, <1>2, <1>4, Zenon
  <2>2. r + 1 \in Nat /\ r < r + 1 /\ r + 1 <= m
    BY <2>1
  <2>3. PICK i \in 1..l : Message(q[i]) /\ q[i].n = r + 1
    BY <1>2, <2>2, Zenon
  <2>4. i = 1
    <3>1. i # 1 => q[1].n < q[i].n
      <4>1. i # 1 => 1 < i
        BY <1>1
      <4>. QED
        BY <1>1, <1>2, <1>4, <2>3, <4>1, Zenon
    <3>. QED
      BY <2>1, <2>3, <3>1
  <2>5. q[1].n = r + 1
    BY <2>3, <2>4, Zenon
  <2>6. ASSUME NEW j \in 1..k, Message(p[j])
        PROVE  r + 1 < p[j].n /\ p[j].n <= m
    <3>1. j + 1 \in 1..l /\ p[j] = q[j + 1] /\ 1 < j + 1
      BY <1>1, Zenon
    <3>2. Message(q[j + 1])
      BY <2>6, <3>1, Zenon
    <3>3. q[1].n < q[j + 1].n /\ q[j + 1].n <= m
      BY <1>1, <1>2, <1>4, <3>1, <3>2, Zenon
    <3>. QED
      BY <2>5, <3>1, <3>3, Zenon
  <2>7. ASSUME NEW n \in Nat, r + 1 < n, n <= m
        PROVE  \E j \in 1..k : Message(p[j]) /\ p[j].n = n
    <3>1. r < n /\ n # r + 1
      BY <2>7
    <3>2. PICK j \in 1..l : Message(q[j]) /\ q[j].n = n
      BY <1>2, <2>7, <3>1, Zenon
    <3>3. j # 1
      BY <2>5, <3>1, <3>2, Zenon
    <3>. QED
      BY <1>1, <3>2, <3>3, Zenon
  <2>8. Ordered(p, r + 1, m)
    BY <1>3, <2>6, <2>7, Zenon DEF Ordered, k
  <2>. QED
    BY <2>2, <2>5, <2>8, Zenon
<1>5. ASSUME ~Message(q[1])
      PROVE  Ordered(p, r, m)
  <2>1. \A j \in 1..k : Message(p[j]) => r < p[j].n /\ p[j].n <= m
    BY <1>1, <1>2, ZenonT(40)
  <2>2. ASSUME NEW n \in Nat, r < n, n <= m
        PROVE  \E j \in 1..k : Message(p[j]) /\ p[j].n = n
    <3>1. PICK j \in 1..l : Message(q[j]) /\ q[j].n = n
      BY <1>2, <2>2, Zenon
    <3>. QED
      BY <1>1, <1>5, <3>1, Zenon
  <2>. QED
    BY <1>3, <2>1, <2>2, Zenon DEF Ordered, k
<1>. QED
  BY <1>1, <1>4, <1>5, Zenon DEF p

\* The peer reads, and may add plain units of its own.
LEMMA FlowGrows ==
  ASSUME NEW x, NEW q \in Seq(Units), NEW p \in Seq(Units), Len(q) <= Len(p),
         \A i \in 1..Len(q) : p[i] = q[i],
         \A i \in 1..Len(p) : i > Len(q) => Plain(p[i]),
         NEW st, NEW su,
         su = "V1" => st \in {"V1", "MAYBE_V1"} /\ p = q,
         su = "MAYBE_V1" => st = "MAYBE_V1" /\ p = <<>>,
         st = "V1" => su = "V1",
         su \in Keyed => st \in Keyed \/ TermIn(p),
         NEW r, Len(r) \in Nat, NEW m \in Nat, NEW open, FlowOf(x, st, q, r, m, open)
  PROVE  FlowOf(x, su, p, r, m, open)
<1>1. /\ \A i \in 1..Len(q) : Proper(q[i]) /\ (q[i].kind \in V1Kinds <=> st = "V1")
      /\ st \in {"V1", "MAYBE_V1"} => x.recv_state \in Unkeyed
      /\ st = "MAYBE_V1" => q = <<>>
  BY Zenon DEF FlowOf
<1>2. \A i \in 1..Len(p) : i \in 1..Len(q) \/ i > Len(q)
  OBVIOUS
<1>3. \A i \in 1..Len(p) : Proper(p[i]) /\ (p[i].kind \in V1Kinds <=> su = "V1")
  <2>1. CASE su = "V1"
    <3>1. \A i \in 1..Len(<<>>) : FALSE
      OBVIOUS
    <3>. QED
      BY <1>1, <2>1, <3>1, Zenon
  <2>2. CASE su # "V1"
    BY <1>1, <1>2, <2>2, Zenon DEF Plain, Proper
  <2>. QED
    BY <2>1, <2>2, Zenon
<1>4. su \in {"V1", "MAYBE_V1"} => x.recv_state \in Unkeyed
  BY <1>1, Zenon
<1>5. ASSUME open, ~x.stalled
      PROVE  /\ Ordered(p, Len(r), m)
             /\ x.recv_state \in Before =>
                  (su # "V1" => TermFirst(p)) /\ (su \in Keyed => TermIn(p))
  <2>1. /\ Ordered(q, Len(r), m)
        /\ x.recv_state \in Before =>
             (st # "V1" => TermFirst(q)) /\ (st \in Keyed => TermIn(q))
    BY <1>5, Zenon DEF FlowOf
  <2>2. \A i \in 1..Len(p) : i > Len(q) => ~Message(p[i])
    BY Zenon DEF Plain, Message
  <2>3. Ordered(p, Len(r), m) /\ (TermFirst(q) => TermFirst(p)) /\ (TermIn(q) => TermIn(p))
    BY <2>1, <2>2, OrderedGrows, Zenon
  <2>. QED
    BY <2>1, <2>3, Zenon
<1>6. Len(r) <= m /\ \A i \in 1..Len(r) : r[i].n = i /\ r[i].key = x.cipher
  BY Zenon DEF FlowOf
<1>. QED
  BY <1>3, <1>4, <1>5, <1>6, Zenon DEF FlowOf

\* The peer sends its next message.
LEMMA FlowAppend ==
  ASSUME NEW x, NEW q \in Seq(Units), NEW u \in Units, NEW st, st \in {"READY", "V1"},
         Message(u), Proper(u), u.kind \in V1Kinds <=> st = "V1",
         NEW r, Len(r) \in Nat, NEW m \in Nat, u.n = m + 1,
         NEW open, FlowOf(x, st, q, r, m, open)
  PROVE  FlowOf(x, st, Append(q, u), r, m + 1, open)
<1>. DEFINE p == Append(q, u)
            l == Len(q)
<1>1. /\ l \in Nat /\ Len(p) = l + 1 /\ p[l + 1] = u
      /\ \A i \in 1..l : i \in 1..(l + 1) /\ p[i] = q[i] /\ i < l + 1
      /\ \A i \in 1..(l + 1) : i \in 1..l \/ i = l + 1
  OBVIOUS
<1>2. /\ \A i \in 1..l : Proper(q[i]) /\ (q[i].kind \in V1Kinds <=> st = "V1")
      /\ st \in {"V1", "MAYBE_V1"} => x.recv_state \in Unkeyed
      /\ Len(r) <= m /\ \A i \in 1..Len(r) : r[i].n = i /\ r[i].key = x.cipher
  BY Zenon DEF FlowOf
<1>3. Len(r) <= m + 1
  BY <1>2
<1>4. ASSUME open, ~x.stalled
      PROVE  /\ Ordered(p, Len(r), m + 1)
             /\ x.recv_state \in Before =>
                  (st # "V1" => TermFirst(p)) /\ (st \in Keyed => TermIn(p))
  <2>1. /\ Ordered(q, Len(r), m)
        /\ x.recv_state \in Before =>
             (st # "V1" => TermFirst(q)) /\ (st \in Keyed => TermIn(q))
    BY <1>4, Zenon DEF FlowOf
  <2>2. Ordered(p, Len(r), m + 1)
    BY <1>2, <2>1, OrderedAppend, Zenon
  <2>3. st # "V1" => st \in Keyed
    BY DEF Keyed
  <2>. HIDE DEF p, l
  <2>4. TermIn(q) => TermIn(p)
    BY <1>1, Zenon DEF TermIn, l
  <2>5. TermFirst(q) /\ TermIn(q) => TermFirst(p)
    <3>. SUFFICES ASSUME TermFirst(q), TermIn(q), NEW i \in 1..(l + 1), Message(p[i])
                  PROVE  \E j \in 1..(l + 1) : j < i /\ p[j].kind = "TERM"
      BY <1>1, Zenon DEF TermFirst
    <3>1. CASE i \in 1..l
      BY <1>1, <3>1, Zenon DEF TermFirst, l
    <3>2. CASE i = l + 1
      BY <1>1, <3>2, Zenon DEF TermIn, l
    <3>. QED
      BY <1>1, <3>1, <3>2, Zenon
  <2>. QED
    BY <2>1, <2>2, <2>3, <2>4, <2>5, Zenon
<1>. HIDE DEF p, l
<1>5. \A i \in 1..Len(p) : Proper(p[i]) /\ (p[i].kind \in V1Kinds <=> st = "V1")
  BY <1>1, <1>2, Zenon
<1>6. st # "MAYBE_V1"
  OBVIOUS
<1>. QED
  BY <1>2, <1>3, <1>4, <1>5, <1>6, Zenon DEF FlowOf, p

\* The endpoint reads the first unit of the stream.
LEMMA FlowRead ==
  ASSUME NEW x, NEW y, NEW q \in Seq(Units), q # <<>>, Read(x, y, Head(q)), NEW st,
         NEW r \in Seq([n : Nat, key : Ciphers]), NEW m \in Nat,
         FlowOf(x, st, q, r, m, TRUE),
         r # <<>> => x.recv_state \in {"APP", "V1"},
         NEW v \in [n : Nat, key : Ciphers], v.n = Head(q).n, v.key = Head(q).key,
         NEW open, open => ~y.rejected
  PROVE  FlowOf(y, st, Tail(q), IF MessageComplete(y, Head(q)) THEN Append(r, v) ELSE r, m, open)
<1>. DEFINE u == Head(q)
            p == Tail(q)
            s == IF MessageComplete(y, u) THEN Append(r, v) ELSE r
<1>1. /\ Len(q) \in Nat /\ Len(p) \in Nat /\ 1 \in 1..Len(q) /\ u = q[1] /\ p \in Seq(Units)
      /\ \A i \in 1..Len(p) : i + 1 \in 1..Len(q) /\ p[i] = q[i + 1]
      /\ \A i \in 1..Len(q) : i = 1 \/ (i - 1 \in 1..Len(p) /\ p[i - 1] = q[i])
  OBVIOUS
<1>2. /\ \A i \in 1..Len(q) : Proper(q[i]) /\ (q[i].kind \in V1Kinds <=> st = "V1")
      /\ st \in {"V1", "MAYBE_V1"} => x.recv_state \in Unkeyed
      /\ st # "MAYBE_V1" /\ Len(r) <= m
      /\ \A i \in 1..Len(r) : r[i].n = i /\ r[i].key = x.cipher
      /\ ~x.stalled =>
           /\ Ordered(q, Len(r), m)
           /\ x.recv_state \in Before =>
                (st # "V1" => TermFirst(q)) /\ (st \in Keyed => TermIn(q))
  BY Zenon DEF FlowOf
<1>3. Len(r) \in Nat
  OBVIOUS
<1>4. /\ Len(s) = (IF MessageComplete(y, u) THEN Len(r) + 1 ELSE Len(r))
      /\ \A i \in 1..Len(s) : \/ i \in 1..Len(r) /\ s[i] = r[i]
                              \/ MessageComplete(y, u) /\ i = Len(r) + 1 /\ s[i] = v
      /\ r = <<>> => Len(r) = 0
  OBVIOUS
<1>. HIDE DEF u, p, s
<1>. USE DEF u
<1>5. ASSUME NEW i \in 1..Len(p)
      PROVE  Proper(p[i]) /\ (p[i].kind \in V1Kinds <=> st = "V1")
  <2>1. i + 1 \in 1..Len(q) /\ p[i] = q[i + 1]
    BY <1>1, Zenon
  <2>2. Proper(q[i + 1]) /\ (q[i + 1].kind \in V1Kinds <=> st = "V1")
    BY <1>2, <2>1, Zenon
  <2>. QED
    BY <2>1, <2>2, Zenon
<1>6. st \in {"V1", "MAYBE_V1"} => y.recv_state \in Unkeyed
  BY <1>1, <1>2, Zenon DEF Read
<1>7. MessageComplete(y, u) => Message(u) /\ ~x.stalled
  <2>1. x.stalled => y.stalled
    BY Zenon DEF Read
  <2>. QED
    BY <2>1, Zenon DEF MessageComplete, Message
<1>8. ~x.stalled =>
        /\ Message(u) => u.n = Len(r) + 1 /\ Len(r) + 1 <= m /\ Ordered(p, Len(r) + 1, m)
        /\ ~Message(u) => Ordered(p, Len(r), m)
  BY <1>2, <1>3, OrderedTail, Zenon DEF p
<1>9. Len(s) <= m
  BY <1>2, <1>4, <1>7, <1>8, Zenon
<1>10. \A i \in 1..Len(s) : s[i].n = i /\ s[i].key = y.cipher
  <2>1. ASSUME NEW i \in 1..Len(r) PROVE y.cipher = x.cipher
    <3>1. r # <<>>
      BY <1>3, <1>4
    <3>. QED
      BY <3>1, Zenon DEF Read
  <2>2. MessageComplete(y, u) => v.n = Len(r) + 1 /\ v.key = y.cipher
    BY <1>7, <1>8, Zenon DEF Read
  <2>. QED
    BY <1>2, <1>4, <2>1, <2>2, Zenon
<1>11. ASSUME open, ~y.stalled
       PROVE  /\ Ordered(p, Len(s), m)
              /\ y.recv_state \in Before =>
                   (st # "V1" => TermFirst(p)) /\ (st \in Keyed => TermIn(p))
  <2>1. ~y.rejected /\ ~x.stalled
    BY <1>11, Zenon DEF Read
  <2>2. x.recv_state = "GARB_GARBTERM" => ~Message(u)
    <3>1. x.recv_state = "GARB_GARBTERM" => x.recv_state \in Before /\ x.recv_state \notin Unkeyed
      BY DEF Before, Unkeyed
    <3>2. x.recv_state = "GARB_GARBTERM" => TermFirst(q)
      BY <1>2, <2>1, <3>1, Zenon
    <3>3. \A j \in 1..Len(q) : ~(j < 1)
      BY <1>1
    <3>. QED
      BY <1>1, <3>2, <3>3, Zenon DEF TermFirst
  <2>3. Message(u) => MessageComplete(y, u)
    BY <1>11, <2>1, <2>2, Zenon DEF Read, MessageComplete, Message
  <2>4. Ordered(p, Len(s), m)
    BY <1>4, <1>7, <1>8, <2>1, <2>3, Zenon
  <2>5. ASSUME y.recv_state \in Before
        PROVE  (st # "V1" => TermFirst(p)) /\ (st \in Keyed => TermIn(p))
    <3>1. x.recv_state \in {"KEY_MAYBE_V1", "KEY"} /\ u.kind # "TERM"
      BY <2>1, <2>5, Zenon DEF Read
    <3>2. (st # "V1" => TermFirst(q)) /\ (st \in Keyed => TermIn(q))
      <4>1. x.recv_state \in Before
        BY <3>1 DEF Before
      <4>. QED
        BY <1>2, <2>1, <4>1, Zenon
    <3>3. TermIn(q) => TermIn(p)
      BY <1>1, <3>1, ZenonT(40) DEF TermIn
    <3>4. ASSUME TermFirst(q), NEW i \in 1..Len(p), Message(p[i])
          PROVE  \E j \in 1..Len(p) : j < i /\ p[j].kind = "TERM"
      <4>1. i + 1 \in 1..Len(q) /\ Message(q[i + 1])
        BY <1>1, <3>4, Zenon
      <4>2. PICK j \in 1..Len(q) : j < i + 1 /\ q[j].kind = "TERM"
        BY <3>4, <4>1, Zenon DEF TermFirst
      <4>3. j - 1 \in 1..Len(p) /\ p[j - 1] = q[j]
        BY <1>1, <3>1, <4>2, Zenon
      <4>4. j - 1 < i
        BY <1>1, <4>2
      <4>. QED
        BY <4>2, <4>3, <4>4, Zenon
    <3>5. TermFirst(q) => TermFirst(p)
      BY <3>4, Zenon DEF TermFirst
    <3>. QED
      BY <3>2, <3>3, <3>5, Zenon
  <2>. QED
    BY <2>4, <2>5, Zenon
<1>12. FlowOf(y, st, p, s, m, open)
  BY <1>2, <1>5, <1>6, <1>9, <1>10, <1>11, Zenon DEF FlowOf
<1>. QED
  BY <1>12, Zenon DEF p, s

\* Units are lost once the endpoint has closed its socket.
LEMMA FlowLoses ==
  ASSUME NEW x, NEW st, NEW q \in Seq(Units), NEW p \in Seq(Units),
         \A i \in 1..Len(p) : \E j \in 1..Len(q) : p[i] = q[j],
         NEW r, NEW m, NEW open, FlowOf(x, st, q, r, m, open)
  PROVE  FlowOf(x, st, p, r, m, FALSE)
<1>1. \A i \in 1..Len(p) : Proper(p[i]) /\ (p[i].kind \in V1Kinds <=> st = "V1")
  BY Zenon DEF FlowOf
<1>2. q = <<>> => p = <<>>
  OBVIOUS
<1>. QED
  BY <1>1, <1>2, Zenon DEF FlowOf

\* A step that reads nothing leaves the flow to the endpoint as it is.
LEMMA FlowKeeps ==
  ASSUME NEW x, NEW y, y.recv_state = x.recv_state, y.stalled = x.stalled, y.cipher = x.cipher,
         NEW st, NEW q, NEW r, NEW m, NEW open, NEW still, still => open,
         FlowOf(x, st, q, r, m, open)
  PROVE  FlowOf(y, st, q, r, m, still)
BY Zenon DEF FlowOf

-----------------------------------------------------------------------------
(* What an endpoint has counted, over the life of its connection.          *)

\* The decision of DisconnectNodes, as OneReconnection states it.
Retried(x, r, rc) ==
  /\ ~({"v1", "classical"} \subseteq rc)
  /\ {"v1", "classical"} \cap rc # {} => r = <<>>
  /\ "classical" \in rc => x.counts["HYBRID"] = 0 /\ x.counts["LOCAL_ERROR"] = 0

\* An endpoint with transport x that has its socket (open), has timed out
\* (late), has taken the messages r and has decided rc.
BookOf(x, open, late, r, rc) ==
  /\ Placed(x) /\ Staged(x) /\ Tally(x)
  /\ open /\ ~late /\ x.hybrid_state \in {"PENDING", "UNCONFIRMED"} => None(x)
  /\ x.recv_state = "KEY" /\ rc = {} => None(x)
  /\ rc # {} => ~open
  /\ r # <<>> =>
       x.recv_state \in {"APP", "V1"} /\ (x.mode = "OFF" \/ x.hybrid_state \in Quiet)
  /\ Retried(x, r, rc)

\* The tally only reads the counters and the end of the handshake.
LEMMA TallyKeeps ==
  ASSUME NEW x, NEW y, y.counts = x.counts, y.hybrid_state = x.hybrid_state,
         y.rejected = x.rejected, y.failure = x.failure, Tally(x)
  PROVE  Tally(y) /\ (None(x) => None(y))
<1>1. \A o : Only(x, o) => Only(y, o)
  BY Zenon DEF Only
<1>2. None(x) => None(y)
  BY Zenon DEF None
<1>. QED
  BY <1>1, <1>2, Zenon DEF Tally

\* A step that counts nothing and takes no message.
LEMMA BookKeeps ==
  ASSUME NEW x, NEW y, Carries(x, y), y.send_state = "MAYBE_V1" => y.send_buffer = x.send_buffer,
         NEW open, NEW still, still => open, NEW late, NEW r, NEW rc,
         BookOf(x, open, late, r, rc)
  PROVE  BookOf(y, still, late, r, rc)
<1>1. /\ y.mode = x.mode /\ y.recv_state = x.recv_state /\ y.send_state = x.send_state
      /\ y.hybrid_state = x.hybrid_state /\ y.cipher = x.cipher /\ y.rejected = x.rejected
      /\ y.tag_seen = x.tag_seen /\ y.failure = x.failure /\ y.counts = x.counts
  BY Zenon DEF Carries, Alike
<1>2. Placed(x) /\ Staged(x) /\ Tally(x) /\ Retried(x, r, rc)
  BY Zenon DEF BookOf
<1>3. Placed(y)
  BY <1>1, <1>2, Zenon DEF Placed
<1>4. Staged(y)
  BY <1>1, <1>2, Zenon DEF Staged
<1>5. Tally(y) /\ (None(x) => None(y))
  BY <1>1, <1>2, TallyKeeps, Zenon
<1>6. Retried(y, r, rc)
  BY <1>1, <1>2, Zenon DEF Retried
<1>. QED
  BY <1>1, <1>3, <1>4, <1>5, <1>6, Zenon DEF BookOf

\* Reading a unit keeps the books.
LEMMA BookRead ==
  ASSUME NEW x, NEW y, NEW unit, Read(x, y, unit), y.mode = x.mode, ~x.rejected,
         NEW r, NEW v, NEW rc, BookOf(x, TRUE, FALSE, r, rc), Retried(x, r, rc),
         NEW open, open => ~y.rejected
  PROVE  BookOf(y, open, FALSE, IF MessageComplete(y, unit) THEN Append(r, v) ELSE r, rc)
<1>. DEFINE s == IF MessageComplete(y, unit) THEN Append(r, v) ELSE r
<1>1. /\ Settled(y)
      /\ MessageComplete(y, unit) => y.mode = "OFF" \/ y.hybrid_state \in Quiet
      /\ x.recv_state \in {"APP", "V1"} =>
           /\ y.recv_state = x.recv_state
           /\ x.hybrid_state \in Quiet => y.hybrid_state = x.hybrid_state
  <2>1. Settled(y)
    BY Zenon DEF Read
  <2>2. MessageComplete(y, unit) => y.mode = "OFF" \/ y.hybrid_state \in Quiet
    BY Zenon DEF Read
  <2>3. x.recv_state \in {"APP", "V1"} =>
          /\ y.recv_state = x.recv_state
          /\ x.hybrid_state \in Quiet => y.hybrid_state = x.hybrid_state
    BY Zenon DEF Read
  <2>. QED
    BY <2>1, <2>2, <2>3, Zenon
<1>2. MessageComplete(y, unit) => y.recv_state \in {"APP", "V1"}
  BY Zenon DEF MessageComplete
<1>3. rc = {}
  BY Zenon DEF BookOf
<1>4. r # <<>> => x.recv_state \in {"APP", "V1"} /\ (x.mode = "OFF" \/ x.hybrid_state \in Quiet)
  BY Zenon DEF BookOf
<1>5. s # <<>> => MessageComplete(y, unit) \/ r # <<>>
  BY Zenon
<1>. HIDE DEF s
<1>6. s # <<>> => y.recv_state \in {"APP", "V1"} /\ (y.mode = "OFF" \/ y.hybrid_state \in Quiet)
  BY <1>1, <1>2, <1>4, <1>5, Zenon
<1>7. Retried(y, s, rc)
  BY <1>3 DEF Retried
<1>8. BookOf(y, open, FALSE, s, rc)
  BY <1>1, <1>3, <1>6, <1>7, Zenon DEF BookOf, Settled, Uncounted
<1>. QED
  BY <1>8, Zenon DEF s

\* The timeout counts an unconfirmed handshake that was not counted.
LEMMA BookTimeout ==
  ASSUME NEW x \in Transports, x.hybrid_state = "UNCONFIRMED", NEW r, NEW rc,
         BookOf(x, TRUE, FALSE, r, rc)
  PROVE  BookOf(CountHybrid(x, "STAGE2_FAILED"), TRUE, TRUE, r, rc)
<1>. DEFINE y == CountHybrid(x, "STAGE2_FAILED")
<1>1. Placed(x) /\ Staged(x) /\ None(x) /\ rc = {}
  BY Zenon DEF BookOf
<1>2. /\ y \in Transports /\ Alike(x, y) /\ y.send_buffer = x.send_buffer
      /\ y.tag_seen = x.tag_seen /\ Only(y, "STAGE2_FAILED")
  BY <1>1, CountHybridTally, Zenon DEF Outcomes
<1>. HIDE DEF y
<1>3. /\ y.mode = x.mode /\ y.recv_state = x.recv_state /\ y.send_state = x.send_state
      /\ y.hybrid_state = "UNCONFIRMED" /\ y.cipher = x.cipher /\ y.rejected = x.rejected
  BY <1>2, Zenon DEF Alike
<1>4. Placed(y) /\ Staged(y)
  BY <1>1, <1>2, <1>3, Zenon DEF Placed, Staged
<1>5. Tally(y) /\ y.recv_state = "APP"
  BY <1>2, <1>3, <1>4, Zenon DEF Tally, Placed
<1>6. Retried(y, r, rc)
  BY <1>1 DEF Retried
<1>7. r # <<>> => x.recv_state \in {"APP", "V1"} /\ (x.mode = "OFF" \/ x.hybrid_state \in Quiet)
  BY Zenon DEF BookOf
<1>8. BookOf(y, TRUE, TRUE, r, rc)
  BY <1>1, <1>3, <1>4, <1>5, <1>6, <1>7, Zenon DEF BookOf
<1>. QED
  BY <1>8, Zenon DEF y

\* DisconnectNodes decides, and counts the refusal of a v1 peer.
LEMMA BookDisconnect ==
  ASSUME NEW x \in Transports, NEW open, NEW late, NEW r, BookOf(x, open, late, r, {}),
         NEW cause,
         NEW y, y = IF GetHybridStatus(x).v1_refused THEN CountHybrid(x, "REFUSED") ELSE x,
         NEW rc,
         rc = {"removed"}
                \cup (IF ShouldReconnectV1(x) THEN {"v1"} ELSE {})
                \cup (IF GetHybridStatus(x).retry_classical /\ cause # "NONE"
                      THEN {"classical"} ELSE {})
  PROVE  BookOf(y, FALSE, late, r, rc)
<1>1. /\ Placed(x) /\ Staged(x) /\ Tally(x)
      /\ x.recv_state = "KEY" => None(x)
      /\ r # <<>> => x.recv_state \in {"APP", "V1"} /\ (x.mode = "OFF" \/ x.hybrid_state \in Quiet)
  BY Zenon DEF BookOf
<1>2. GetHybridStatus(x).v1_refused => x.recv_state = "KEY"
  BY Zenon DEF GetHybridStatus, V1ReconnectCondition
<1>3. x.recv_state = "KEY" => x.hybrid_state = "PENDING" /\ ~x.tag_seen /\ r = <<>>
  BY <1>1 DEF Placed, Unkeyed
<1>4. "v1" \in rc => x.recv_state = "KEY"
  BY DEF ShouldReconnectV1, V1ReconnectCondition
<1>5. "classical" \in rc =>
        /\ x.mode = "PREFER" /\ x.tag_seen /\ x.hybrid_state # "CONFIRMED"
        /\ x.failure # "LOCAL_ERROR"
  BY DEF GetHybridStatus
<1>6. rc # {}
  OBVIOUS
<1>7. /\ y \in Transports /\ Alike(x, y) /\ y.send_buffer = x.send_buffer
      /\ y.tag_seen = x.tag_seen /\ y.failure = x.failure
      /\ (Only(y, "REFUSED") /\ x.recv_state = "KEY") \/ y.counts = x.counts
  <2>1. CASE GetHybridStatus(x).v1_refused
    BY <1>1, <1>2, <2>1, CountHybridTally, Zenon DEF Outcomes
  <2>2. CASE ~GetHybridStatus(x).v1_refused
    BY <2>2, Zenon DEF Alike
  <2>. QED
    BY <2>1, <2>2, Zenon
<1>8. /\ y.mode = x.mode /\ y.recv_state = x.recv_state /\ y.send_state = x.send_state
      /\ y.hybrid_state = x.hybrid_state /\ y.cipher = x.cipher /\ y.rejected = x.rejected
  BY <1>7, Zenon DEF Alike
<1>9. Placed(y) /\ Staged(y)
  BY <1>1, <1>7, <1>8, Zenon DEF Placed, Staged
<1>10. Tally(y)
  <2>1. CASE y.counts = x.counts
    BY <1>1, <1>7, <1>8, <2>1, TallyKeeps, Zenon
  <2>2. CASE Only(y, "REFUSED") /\ x.recv_state = "KEY"
    BY <1>3, <1>8, <2>2, Zenon DEF Tally
  <2>. QED
    BY <1>7, <2>1, <2>2, Zenon
<1>11. "classical" \in rc =>
         r = <<>> /\ y.counts["HYBRID"] = 0 /\ y.counts["LOCAL_ERROR"] = 0 /\ x.recv_state # "KEY"
  <2>. SUFFICES ASSUME "classical" \in rc
                PROVE  r = <<>> /\ y.counts["HYBRID"] = 0 /\ y.counts["LOCAL_ERROR"] = 0
                       /\ x.recv_state # "KEY"
    BY Zenon
  <2>1. x.hybrid_state \in {"UNCONFIRMED", "FAILED"} /\ x.mode # "OFF"
    BY <1>1, <1>5 DEF Placed
  <2>2. x.recv_state # "KEY" /\ r = <<>>
    BY <1>1, <1>3, <1>5, <2>1 DEF Quiet
  <2>3. y.counts = x.counts
    BY <1>7, <2>2, Zenon
  <2>4. None(x) \/ Only(x, "STAGE2_FAILED") \/ (x.failure \in Outcomes \ {"HYBRID"} /\ Only(x, x.failure))
    BY <1>1, <2>1, Zenon DEF Tally
  <2>5. x.counts["HYBRID"] = 0 /\ x.counts["LOCAL_ERROR"] = 0
    BY <1>5, <2>4 DEF None, Only, Outcomes
  <2>. QED
    BY <2>2, <2>3, <2>5, Zenon
<1>12. Retried(y, r, rc)
  BY <1>3, <1>4, <1>11 DEF Retried
<1>. QED
  BY <1>1, <1>6, <1>8, <1>9, <1>10, <1>12, Zenon DEF BookOf

\* The message that QueueMessage adds to the send buffer.
LEMMA SetMessageFlow ==
  ASSUME NEW x \in Transports, x.send_state \in {"READY", "V1"}, NEW n \in Nat, NEW big \in BOOLEAN
  PROVE  LET y == SetMessageToSend(x, n, big)
         IN  /\ y \in Transports /\ Carries(x, y)
             /\ \E u \in Units :
                  /\ Message(u) /\ Proper(u) /\ u.n = n
                  /\ u.kind \in V1Kinds <=> x.send_state = "V1"
                  /\ \/ y.send_buffer = Append(x.send_buffer, u)
                     \/ /\ x.send_state # "V1"
                        /\ \E d \in Units : Plain(d) /\ y.send_buffer = Append(Append(x.send_buffer, d), u)
<1>. DEFINE y == SetMessageToSend(x, n, big)
<1>1. CASE x.send_state = "V1"
  <2>. DEFINE k == IF x.mode = "V1ALIEN" THEN "V1ALIEN" ELSE "V1MSG"
              u == V1Unit(k, n)
  <2>1. y = Push(x, u)
    BY <1>1, Zenon DEF SetMessageToSend
  <2>2. u \in Units /\ u.body = "MSG" /\ u.n = n /\ u.kind \in V1Kinds /\ u.key = "none" /\ ~u.ignore
    BY ZenonT(40) DEF V1Unit, Unit, Units, Bodies, Ciphers, V1Kinds
  <2>. HIDE DEF u, y
  <2>3. y \in Transports
    BY <2>1, <2>2, PushType, Zenon
  <2>4. Carries(x, y) /\ y.send_buffer = Append(x.send_buffer, u)
    BY <2>1, Zenon DEF Push, Carries, Alike, Transports
  <2>5. Message(u) /\ Proper(u)
    BY <2>2 DEF Message, Proper
  <2>. QED
    BY <1>1, <2>2, <2>3, <2>4, <2>5, Zenon DEF y
<1>2. CASE x.send_state # "V1"
  <2>. DEFINE w == IF x.mode # "OFF" /\ x.first_send /\ big
                   THEN PushPacket(x, "EMPTY", FALSE, TRUE, FALSE, 0) ELSE x
              u == Encrypt(w, "MSG", FALSE, FALSE, big, n)
              z == Push(w, u)
              v == PushPacket(w, "MSG", FALSE, FALSE, big, n)
              d == Encrypt(x, "EMPTY", FALSE, TRUE, FALSE, 0)
  <2>1. y = [v EXCEPT !.first_send = FALSE]
    BY <1>2, Zenon DEF SetMessageToSend
  <2>2. v = [z EXCEPT !.send_seq = z.send_seq + 1]
    BY Zenon DEF PushPacket
  <2>3. d \in Units /\ Plain(d)
    <3>1. x.cipher \in Ciphers /\ x.send_seq \in Nat
      BY Zenon DEF Transports
    <3>. QED
      BY <3>1 DEF Encrypt, Units, Plain, V1Kinds, Bodies
  <2>4. /\ w \in Transports /\ Carries(x, w)
        /\ w.send_buffer = x.send_buffer \/ w.send_buffer = Append(x.send_buffer, d)
    <3>. DEFINE a == PushPacket(x, "EMPTY", FALSE, TRUE, FALSE, 0)
                e == Push(x, d)
    <3>1. a \in Transports /\ Carries(x, a)
      <4>1. "EMPTY" \in Bodies \ {"MSG"} /\ FALSE \in BOOLEAN /\ TRUE \in BOOLEAN /\ 0 \in Nat
        BY DEF Bodies
      <4>. QED
        BY <4>1, PushPacketCarries, Zenon
    <3>2. e \in Transports
      BY <2>3, PushType, Zenon
    <3>3. e.send_buffer = Append(x.send_buffer, d)
      BY Zenon DEF Push, Transports
    <3>4. a = [e EXCEPT !.send_seq = e.send_seq + 1]
      BY Zenon DEF PushPacket
    <3>. HIDE DEF a, e
    <3>5. a.send_buffer = e.send_buffer
      BY <3>2, <3>4, Zenon DEF Transports
    <3>6. Carries(x, x)
      BY Zenon DEF Carries, Alike
    <3>. QED
      BY <3>1, <3>3, <3>5, <3>6, Zenon DEF a
  <2>. HIDE DEF w, y
  <2>5. u \in Units /\ u.body = "MSG" /\ u.n = n /\ u.kind = "PKT" /\ ~u.ignore
    <3>1. w.cipher \in Ciphers /\ w.send_seq \in Nat
      BY <2>4, Zenon DEF Transports
    <3>. QED
      BY <3>1 DEF Encrypt, Units, Bodies
  <2>. HIDE DEF u, d
  <2>6. z \in Transports
    BY <2>4, <2>5, PushType, Zenon
  <2>7. Carries(w, z) /\ z.send_buffer = Append(w.send_buffer, u)
    BY <2>4, Zenon DEF Push, Carries, Alike, Transports
  <2>. HIDE DEF z
  <2>8. v \in Transports
    <3>1. z.send_seq + 1 \in Nat
      BY <2>6 DEF Transports
    <3>. QED
      BY <2>2, <2>6, <3>1, ZenonT(40) DEF Transports
  <2>9. Carries(z, v) /\ v.send_buffer = z.send_buffer
    BY <2>2, <2>6, ZenonT(40) DEF Carries, Alike, Transports
  <2>. HIDE DEF v
  <2>10. y \in Transports
    BY <2>1, <2>8, ZenonT(40) DEF Transports
  <2>11. Carries(v, y) /\ y.send_buffer = v.send_buffer
    BY <2>1, <2>8, Zenon DEF Carries, Alike, Transports
  <2>12. Carries(x, y)
    <3>1. Carries(x, z)
      BY <2>4, <2>7, Zenon DEF Carries, Alike
    <3>2. Carries(x, v)
      BY <2>9, <3>1, Zenon DEF Carries, Alike
    <3>. QED
      BY <2>11, <3>2, Zenon DEF Carries, Alike
  <2>13. Message(u) /\ Proper(u) /\ u.kind \notin V1Kinds
    BY <2>5 DEF Message, Proper, V1Kinds
  <2>. QED
    BY <1>2, <2>3, <2>4, <2>5, <2>7, <2>9, <2>10, <2>11, <2>12, <2>13, Zenon DEF y
<1>. QED
  BY <1>1, <1>2, Zenon

-----------------------------------------------------------------------------
(* The books and the flow of the connection.                               *)

Books ==
  \A s \in Sides : BookOf(transport[s], sock[s], timed_out[s], received[s], reconnect[s])

FlowTo(s) ==
  FlowOf(transport[s], transport[Other(s)].send_state,
         wire[s] \o transport[Other(s)].send_buffer, received[s], sent[Other(s)], sock[s])

Flows == \A s \in Sides : FlowTo(s)

FInv == IInv /\ Books /\ Flows

\* The types of what one side holds.
LEMMA SideTypes ==
  ASSUME IInv, NEW s \in Sides
  PROVE  /\ transport[s] \in Transports /\ transport[s].send_buffer \in Seq(Units)
         /\ wire[s] \in Seq(Units) /\ received[s] \in Seq([n : Nat, key : Ciphers])
         /\ Len(received[s]) \in Nat /\ sent[s] \in Nat
         /\ sock[s] \in BOOLEAN /\ timed_out[s] \in BOOLEAN
         /\ transport[s].rejected => ~sock[s]
<1>1. /\ transport[s] \in Transports /\ wire[s] \in Seq(Units)
      /\ received[s] \in Seq([n : Nat, key : Ciphers]) /\ sent[s] \in 0..MaxMsgs
      /\ sock[s] \in BOOLEAN /\ timed_out[s] \in BOOLEAN
  BY Zenon DEF IInv, TypeOK
<1>2. Len(received[s]) \in Nat /\ sent[s] \in Nat
  BY <1>1, MaxMsgsAssumption
<1>3. transport[s].rejected => ~sock[s]
  BY Zenon DEF IInv, KeyDiscipline
<1>. QED
  BY <1>1, <1>2, <1>3, BufferLen, Zenon

\* A step of one side, from what it leaves at each.
LEMMA BothSides ==
  ASSUME NEW s \in Sides, NEW p \in Sides, p = Other(s),
         BookOf(transport'[s], sock'[s], timed_out'[s], received'[s], reconnect'[s]),
         BookOf(transport'[p], sock'[p], timed_out'[p], received'[p], reconnect'[p]),
         FlowTo(s)', FlowTo(p)'
  PROVE  Books' /\ Flows'
<1>1. \A z \in Sides : z = s \/ z = p
  BY OtherSide, ZenonT(40)
<1>2. Books'
  BY <1>1, Zenon DEF Books
<1>3. Flows'
  <2>1. ASSUME NEW z \in Sides PROVE FlowTo(z)'
    <3>1. CASE z = s
      BY <3>1
    <3>2. CASE z = p
      BY <3>2
    <3>. QED
      BY <1>1, <3>1, <3>2, Zenon
  <2>. QED
    BY <2>1, Zenon DEF Flows
<1>. QED
  BY <1>2, <1>3, Zenon

\* A step that neither reads nor writes the streams.
LEMMA QuietFlow ==
  ASSUME FInv, NEW s \in Sides, NEW y, Alike(transport[s], y),
         y.send_buffer = transport[s].send_buffer,
         transport' = [transport EXCEPT ![s] = y],
         wire' = wire, received' = received, sent' = sent,
         \A p \in Sides : sock'[p] => sock[p]
  PROVE  Flows'
<1>1. transport \in [Sides -> Transports]
  BY Zenon DEF FInv, IInv, TypeOK
<1>2. ASSUME NEW p \in Sides
      PROVE  /\ transport'[p].recv_state = transport[p].recv_state
             /\ transport'[p].stalled = transport[p].stalled
             /\ transport'[p].cipher = transport[p].cipher
             /\ transport'[p].send_state = transport[p].send_state
             /\ transport'[p].send_buffer = transport[p].send_buffer
  <2>1. transport'[p] = transport[p] \/ (p = s /\ transport'[p] = y)
    BY <1>1, Zenon
  <2>. QED
    BY <2>1, Zenon DEF Alike
<1>3. ASSUME NEW p \in Sides PROVE FlowTo(p)'
  <2>1. Other(p) \in Sides
    BY OtherSide, Zenon
  <2>2. FlowOf(transport[p], transport[Other(p)].send_state,
               wire[p] \o transport[Other(p)].send_buffer, received[p], sent[Other(p)], sock[p])
    BY Zenon DEF FInv, Flows, FlowTo
  <2>3. FlowOf(transport'[p], transport[Other(p)].send_state,
               wire[p] \o transport[Other(p)].send_buffer, received[p], sent[Other(p)], sock'[p])
    <3>. DEFINE st == transport[Other(p)].send_state
                q == wire[p] \o transport[Other(p)].send_buffer
    <3>. HIDE DEF st, q
    <3>1. /\ transport'[p].recv_state = transport[p].recv_state
          /\ transport'[p].stalled = transport[p].stalled
          /\ transport'[p].cipher = transport[p].cipher
          /\ sock'[p] => sock[p]
      BY <1>2, Zenon
    <3>2. FlowOf(transport[p], st, q, received[p], sent[Other(p)], sock[p])
      BY <2>2, Zenon DEF st, q
    <3>3. FlowOf(transport'[p], st, q, received[p], sent[Other(p)], sock'[p])
      <4>. DEFINE x == transport[p]
                  z == transport'[p]
                  open == sock[p]
                  still == sock'[p]
      <4>. HIDE DEF x, z, open, still
      <4>1. z.recv_state = x.recv_state /\ z.stalled = x.stalled /\ z.cipher = x.cipher
            /\ (still => open)
        BY <3>1, Zenon DEF x, z, open, still
      <4>2. FlowOf(x, st, q, received[p], sent[Other(p)], open)
        BY <3>2, Zenon DEF x, open
      <4>3. FlowOf(z, st, q, received[p], sent[Other(p)], still)
        BY <4>1, <4>2, FlowKeeps, Zenon
      <4>. QED
        BY <4>3, Zenon DEF z, still
    <3>. QED
      BY <3>3, Zenon DEF st, q
  <2>. QED
    BY <1>2, <2>1, <2>3, Zenon DEF FlowTo
<1>. QED
  BY <1>3, Zenon DEF Flows

\* SetMessageToSend.
LEMMA QueueMessageFlow ==
  ASSUME FInv, NEW s \in Sides, QueueMessage(s)
  PROVE  Books' /\ Flows'
<1>. DEFINE p == Other(s)
            x == transport[s]
<1>0. IInv /\ Books /\ Flows
  BY Zenon DEF FInv
<1>1. PICK big \in BOOLEAN : transport' = [transport EXCEPT ![s] = SetMessageToSend(x, sent[s] + 1, big)]
  BY <1>0, Zenon DEF QueueMessage, IInv, TypeOK
<1>. DEFINE y == SetMessageToSend(x, sent[s] + 1, big)
<1>2. /\ x \in Transports /\ x.send_buffer \in Seq(Units) /\ sent[s] \in Nat /\ sent[s] + 1 \in Nat
      /\ p \in Sides /\ p # s /\ Other(p) = s
      /\ wire[p] \in Seq(Units) /\ Len(received[p]) \in Nat
  BY <1>0, SideTypes, OtherSide
<1>3. x.send_state \in {"READY", "V1"}
  BY Zenon DEF QueueMessage, CanSetMessageToSend
<1>4. /\ y \in Transports /\ Carries(x, y)
      /\ \E u \in Units :
           /\ Message(u) /\ Proper(u) /\ u.n = sent[s] + 1
           /\ u.kind \in V1Kinds <=> x.send_state = "V1"
           /\ \/ y.send_buffer = Append(x.send_buffer, u)
              \/ /\ x.send_state # "V1"
                 /\ \E d \in Units : Plain(d) /\ y.send_buffer = Append(Append(x.send_buffer, d), u)
  BY <1>2, <1>3, SetMessageFlow, ZenonT(40)
<1>5. /\ transport'[s] = y /\ transport'[p] = transport[p]
      /\ wire' = wire /\ received' = received /\ sock' = sock /\ timed_out' = timed_out
      /\ reconnect' = reconnect /\ sent'[s] = sent[s] + 1 /\ sent'[p] = sent[p]
  BY <1>0, <1>1, <1>2, Zenon DEF QueueMessage, IInv, TypeOK
<1>. HIDE DEF y, x, p
<1>6. /\ y.recv_state = x.recv_state /\ y.stalled = x.stalled /\ y.cipher = x.cipher
      /\ y.send_state = x.send_state /\ y.send_state # "MAYBE_V1"
  BY <1>3, <1>4 DEF Carries, Alike
<1>7. BookOf(y, sock[s], timed_out[s], received[s], reconnect[s])
  BY <1>0, <1>4, <1>6, BookKeeps, Zenon DEF Books, x
<1>8. BookOf(transport[p], sock[p], timed_out[p], received[p], reconnect[p])
  BY <1>0, <1>2, Zenon DEF Books
<1>9. FlowOf(y, transport[p].send_state, wire[s] \o transport[p].send_buffer, received[s],
             sent[p], sock[s])
  <2>1. FlowOf(x, transport[p].send_state, wire[s] \o transport[p].send_buffer, received[s],
               sent[p], sock[s])
    BY <1>0, Zenon DEF Flows, FlowTo, x, p
  <2>. QED
    BY <1>6, <2>1, FlowKeeps, ZenonT(40)
<1>10. FlowOf(transport[p], y.send_state, wire[p] \o y.send_buffer, received[p],
              sent[s] + 1, sock[p])
  <2>. DEFINE q == wire[p] \o x.send_buffer
              b == x.send_buffer
  <2>1. FlowOf(transport[p], x.send_state, q, received[p], sent[s], sock[p])
    BY <1>0, <1>2, Zenon DEF Flows, FlowTo, x
  <2>2. q \in Seq(Units)
    BY <1>2, JoinAt, Zenon
  <2>3. PICK u \in Units :
           /\ Message(u) /\ Proper(u) /\ u.n = sent[s] + 1
           /\ u.kind \in V1Kinds <=> x.send_state = "V1"
           /\ \/ y.send_buffer = Append(b, u)
              \/ /\ x.send_state # "V1"
                 /\ \E d \in Units : Plain(d) /\ y.send_buffer = Append(Append(b, d), u)
    BY <1>4, Zenon
  <2>4. CASE y.send_buffer = Append(b, u)
    <3>1. wire[p] \o y.send_buffer = Append(q, u)
      BY <1>2, <2>4, JoinAppend, ZenonT(40)
    <3>2. FlowOf(transport[p], x.send_state, Append(q, u), received[p], sent[s] + 1, sock[p])
      BY <1>2, <1>3, <2>1, <2>2, <2>3, FlowAppend, ZenonT(40)
    <3>. QED
      BY <1>6, <3>1, <3>2, Zenon
  <2>5. ASSUME x.send_state # "V1", NEW d \in Units, Plain(d),
               y.send_buffer = Append(Append(b, d), u)
        PROVE  FlowOf(transport[p], y.send_state, wire[p] \o y.send_buffer, received[p],
                      sent[s] + 1, sock[p])
    <3>. DEFINE c == Append(b, d)
                e == Append(q, d)
    <3>1. c \in Seq(Units) /\ wire[p] \o c = e
      <4>1. c \in Seq(Units)
        BY <1>2
      <4>. QED
        BY <1>2, <4>1, JoinAppend, Zenon
    <3>2. /\ e \in Seq(Units) /\ Len(q) <= Len(e) /\ \A i \in 1..Len(q) : e[i] = q[i]
          /\ \A i \in 1..Len(e) : i > Len(q) => e[i] = d
      <4>. HIDE DEF q
      <4>. QED
        BY <2>2
    <3>3. \A i \in 1..Len(e) : i > Len(q) => Plain(e[i])
      BY <2>5, <3>2, Zenon
    <3>4. x.send_state = "READY" /\ "READY" \in Keyed
      BY <1>3, <2>5 DEF Keyed
    <3>. HIDE DEF c, e, q
    <3>5. FlowOf(transport[p], x.send_state, e, received[p], sent[s], sock[p])
      <4>1. x.send_state # "V1" /\ x.send_state # "MAYBE_V1"
        BY <3>4
      <4>. QED
        BY <1>2, <2>1, <2>2, <3>2, <3>3, <3>4, <4>1, FlowGrows, ZenonT(40)
    <3>6. wire[p] \o y.send_buffer = Append(e, u)
      BY <1>2, <2>5, <3>1, JoinAppend, ZenonT(40) DEF c
    <3>7. FlowOf(transport[p], x.send_state, Append(e, u), received[p], sent[s] + 1, sock[p])
      BY <1>2, <1>3, <2>3, <3>2, <3>5, FlowAppend, ZenonT(40)
    <3>. QED
      BY <1>6, <3>6, <3>7, Zenon
  <2>. QED
    BY <2>3, <2>4, <2>5, Zenon
<1>11. FlowTo(s)' /\ FlowTo(p)'
  BY <1>2, <1>5, <1>9, <1>10, Zenon DEF FlowTo, p
<1>. QED
  BY <1>2, <1>5, <1>7, <1>8, <1>11, BothSides, ZenonT(40) DEF p

\* MarkBytesSent.
LEMMA SendBytesFlow ==
  ASSUME FInv, NEW s \in Sides, SendBytes(s)
  PROVE  Books' /\ Flows'
<1>. DEFINE p == Other(s)
            x == transport[s]
            b == x.send_buffer
            y == MarkBytesSent(x)
<1>0. IInv /\ Books /\ Flows
  BY Zenon DEF FInv
<1>1. /\ x \in Transports /\ b \in Seq(Units) /\ b # <<>>
      /\ p \in Sides /\ p # s /\ Other(p) = s
      /\ wire[p] \in Seq(Units) /\ Len(received[p]) \in Nat /\ sock[p] \in BOOLEAN
  BY <1>0, SideTypes, OtherSide, Zenon DEF SendBytes
<1>2. Carries(x, y) /\ y.send_buffer = Tail(b)
  BY <1>1, Zenon DEF MarkBytesSent, Carries, Alike, Transports
<1>3. /\ transport'[s] = y /\ transport'[p] = transport[p]
      /\ wire'[s] = wire[s]
      /\ wire'[p] = IF sock[p] THEN Append(wire[p], Head(b)) ELSE wire[p]
      /\ received' = received /\ sock' = sock /\ timed_out' = timed_out
      /\ reconnect' = reconnect /\ sent' = sent
  BY <1>0, <1>1, Zenon DEF SendBytes, IInv, TypeOK
<1>. HIDE DEF y, x, p
<1>4. BookOf(x, sock[s], timed_out[s], received[s], reconnect[s])
  BY <1>0, Zenon DEF Books, x
<1>5. /\ y.recv_state = x.recv_state /\ y.stalled = x.stalled /\ y.cipher = x.cipher
      /\ y.send_state = x.send_state /\ y.send_state # "MAYBE_V1"
  BY <1>1, <1>2, <1>4, Zenon DEF Carries, Alike, BookOf, Staged
<1>6. BookOf(y, sock[s], timed_out[s], received[s], reconnect[s])
  BY <1>2, <1>4, <1>5, BookKeeps, Zenon
<1>7. BookOf(transport[p], sock[p], timed_out[p], received[p], reconnect[p])
  BY <1>0, <1>1, Zenon DEF Books
<1>8. FlowOf(y, transport[p].send_state, wire[s] \o transport[p].send_buffer, received[s],
             sent[p], sock[s])
  <2>1. FlowOf(x, transport[p].send_state, wire[s] \o transport[p].send_buffer, received[s],
               sent[p], sock[s])
    BY <1>0, Zenon DEF Flows, FlowTo, x, p
  <2>. QED
    BY <1>5, <2>1, FlowKeeps, ZenonT(40)
<1>9. FlowOf(transport[p], y.send_state, wire'[p] \o y.send_buffer, received[p], sent[s], sock[p])
  <2>1. FlowOf(transport[p], x.send_state, wire[p] \o b, received[p], sent[s], sock[p])
    BY <1>0, <1>1, Zenon DEF Flows, FlowTo, x
  <2>2. CASE sock[p]
    <3>1. wire'[p] \o y.send_buffer = wire[p] \o b
      BY <1>1, <1>2, <1>3, <2>2, JoinSend, ZenonT(40)
    <3>. QED
      BY <1>5, <2>1, <3>1, Zenon
  <2>3. CASE ~sock[p]
    <3>. DEFINE q == wire[p] \o b
                z == wire[p] \o Tail(b)
    <3>1. /\ q \in Seq(Units) /\ z \in Seq(Units)
          /\ \A i \in 1..Len(z) : \E j \in 1..Len(q) : z[i] = q[j]
      BY <1>1, JoinLoses, Zenon
    <3>. HIDE DEF q
    <3>3. FlowOf(transport[p], x.send_state, z, received[p], sent[s], FALSE)
      BY <2>1, <3>1, FlowLoses, Zenon DEF q
    <3>4. sock[p] = FALSE /\ wire'[p] = wire[p]
      BY <1>1, <1>3, <2>3, Zenon
    <3>. QED
      BY <1>2, <1>5, <3>3, <3>4, ZenonT(40)
  <2>. QED
    BY <2>2, <2>3, Zenon
<1>10. FlowTo(s)' /\ FlowTo(p)'
  BY <1>1, <1>3, <1>8, <1>9, Zenon DEF FlowTo, p
<1>. QED
  BY <1>1, <1>3, <1>6, <1>7, <1>10, BothSides, ZenonT(40) DEF p

\* ReceiveMsgBytes.
LEMMA ReceiveMsgBytesFlow ==
  ASSUME FInv, NEW s \in Sides, ReceiveMsgBytes(s)
  PROVE  Books' /\ Flows'
<1>. DEFINE p == Other(s)
            x == transport[s]
            w == wire[s]
            unit == Head(w)
            v == [n |-> unit.n, key |-> unit.key]
<1>0. IInv /\ Books /\ Flows
  BY Zenon DEF FInv
<1>1. PICK kem \in KemResults, wait \in BOOLEAN :
        LET u == ReceivedBytes(x, unit, kem, wait)
        IN  /\ transport' = [transport EXCEPT ![s] = u]
            /\ received' = IF MessageComplete(u, unit)
                           THEN [received EXCEPT ![s] = Append(@, v)] ELSE received
            /\ IF u.rejected THEN Close(s, "TRANSPORT")
               ELSE UNCHANGED <<sock, fDisconnect, close_cause>>
  BY Zenon DEF ReceiveMsgBytes
<1>. DEFINE y == ReceivedBytes(x, unit, kem, wait)
            r == IF MessageComplete(y, unit) THEN Append(received[s], v) ELSE received[s]
<1>2. /\ x \in Transports /\ x.send_buffer \in Seq(Units)
      /\ p \in Sides /\ p # s /\ Other(p) = s
      /\ w \in Seq(Units) /\ w # <<>> /\ wire[p] \in Seq(Units)
      /\ received[s] \in Seq([n : Nat, key : Ciphers]) /\ Len(received[p]) \in Nat
      /\ sent[p] \in Nat /\ sent[s] \in Nat
      /\ sock[s] = TRUE /\ timed_out[s] = FALSE /\ sock[p] \in BOOLEAN
      /\ transport[p].send_buffer \in Seq(Units)
  BY <1>0, SideTypes, OtherSide, Zenon DEF ReceiveMsgBytes
<1>3. ~x.rejected /\ Good(x)
  BY <1>0, <1>2, SideTypes, InvGood, ZenonT(40)
<1>4. unit \in Units /\ unit = w[1] /\ 1 \in 1..Len(w)
  BY <1>2
<1>5. /\ transport'[s] = y /\ transport'[p] = transport[p]
      /\ wire'[s] = Tail(w) /\ wire'[p] = wire[p]
      /\ received'[s] = r /\ received'[p] = received[p]
      /\ timed_out' = timed_out /\ reconnect' = reconnect /\ sent' = sent
      /\ sock'[p] = sock[p] /\ (sock'[s] => ~y.rejected)
  BY <1>0, <1>1, <1>2, ZenonT(40) DEF ReceiveMsgBytes, Close, IInv, TypeOK
<1>6. v \in [n : Nat, key : Ciphers] /\ v.n = unit.n /\ v.key = unit.key
  BY <1>4, Zenon DEF Units
<1>. DEFINE q == w \o transport[p].send_buffer
<1>7. q \in Seq(Units) /\ q # <<>> /\ Head(q) = unit /\ Tail(q) = Tail(w) \o transport[p].send_buffer
  BY <1>2, JoinAt, JoinTail, ZenonT(40)
<1>8. q[1] = unit /\ 1 \in 1..Len(q)
  <2>. HIDE DEF q, unit
  <2>. QED
    BY <1>7
<1>9. y.mode = x.mode
  BY <1>3, <1>4, ReceivedBytesFollows, ZenonT(40) DEF Follows
<1>10. FlowOf(x, transport[p].send_state, q, received[s], sent[p], TRUE)
  BY <1>0, <1>2, Zenon DEF Flows, FlowTo
<1>11. BookOf(x, TRUE, FALSE, received[s], reconnect[s])
  BY <1>0, <1>2, Zenon DEF Books
<1>. HIDE DEF x, w, unit, v, p, q, r
<1>12. Proper(unit)
  BY <1>8, <1>10, Zenon DEF FlowOf
<1>13. Settled(x)
  BY <1>11, Zenon DEF BookOf, Settled, Uncounted
<1>14. Read(x, y, unit)
  BY <1>3, <1>4, <1>12, <1>13, ReceivedBytesRead, Zenon
<1>. HIDE DEF y
<1>15. BookOf(y, sock'[s], FALSE, r, reconnect[s])
  <2>. DEFINE open == sock'[s]
  <2>. HIDE DEF open
  <2>1. open => ~y.rejected
    BY <1>5, Zenon DEF open
  <2>2. Retried(x, received[s], reconnect[s])
    BY <1>11, Zenon DEF BookOf
  <2>3. BookOf(y, open, FALSE, IF MessageComplete(y, unit) THEN Append(received[s], v) ELSE received[s], reconnect[s])
    BY <1>3, <1>9, <1>11, <1>14, <2>1, <2>2, BookRead, ZenonT(40)
  <2>. QED
    BY <2>3, Zenon DEF open, r
<1>16. BookOf(transport[p], sock[p], timed_out[p], received[p], reconnect[p])
  BY <1>0, <1>2, Zenon DEF Books
<1>17. FlowOf(y, transport[p].send_state, Tail(q), r, sent[p], sock'[s])
  <2>. DEFINE open == sock'[s]
              st == transport[p].send_state
              m == sent[p]
              c == received[s]
  <2>. HIDE DEF open, st, m, c
  <2>1. open => ~y.rejected
    BY <1>5, Zenon DEF open
  <2>2. c # <<>> => x.recv_state \in {"APP", "V1"}
    BY <1>11, Zenon DEF BookOf, c
  <2>3. FlowOf(x, st, q, c, m, TRUE) /\ c \in Seq([n : Nat, key : Ciphers]) /\ m \in Nat
    BY <1>2, <1>10, Zenon DEF st, m, c
  <2>4. FlowOf(y, st, Tail(q), IF MessageComplete(y, Head(q)) THEN Append(c, v) ELSE c, m, open)
    BY <1>6, <1>7, <1>14, <2>1, <2>2, <2>3, FlowRead, ZenonT(40)
  <2>. QED
    BY <1>7, <2>4, ZenonT(40) DEF open, st, m, c, r
<1>18. FlowOf(transport[p], y.send_state, wire[p] \o y.send_buffer, received[p], sent[s], sock[p])
  <2>. DEFINE o == wire[p] \o x.send_buffer
              z == wire[p] \o y.send_buffer
              a == x.send_buffer
              b == y.send_buffer
              l == wire[p]
  <2>1. FlowOf(transport[p], x.send_state, o, received[p], sent[s], sock[p])
    BY <1>0, <1>2, Zenon DEF Flows, FlowTo, x
  <2>2. y \in Transports /\ Grown(x, y) /\ Settled(y)
    BY <1>14, Zenon DEF Read
  <2>3. b \in Seq(Units) /\ a \in Seq(Units) /\ l \in Seq(Units)
    BY <1>2, <2>2, BufferLen, Zenon
  <2>4. /\ Len(a) <= Len(b) /\ \A i \in 1..Len(a) : b[i] = a[i]
        /\ \A i \in 1..Len(b) : i > Len(a) => Plain(b[i])
    BY <2>2, Zenon DEF Grown
  <2>5. /\ o \in Seq(Units) /\ z \in Seq(Units) /\ Len(o) <= Len(z)
        /\ \A i \in 1..Len(o) : z[i] = o[i]
        /\ \A i \in 1..Len(z) : i > Len(o) => Plain(z[i])
    <3>. HIDE DEF a, b, l
    <3>. QED
      BY <2>3, <2>4, JoinGrows, Zenon DEF a, b, l
  <2>6. HasTerm(y) => TermIn(z)
    BY <2>3, JoinTerm, Zenon DEF HasTerm
  <2>7. /\ y.send_state = "V1" => x.send_state \in {"V1", "MAYBE_V1"} /\ b = a
        /\ y.send_state = "MAYBE_V1" => x.send_state = "MAYBE_V1"
        /\ x.send_state = "V1" => y.send_state = "V1"
        /\ y.send_state \in Keyed => x.send_state \in Keyed \/ HasTerm(y)
    <3>1. y.send_state = "V1" => x.send_state \in {"V1", "MAYBE_V1"} /\ b = a
      BY <1>14, Zenon DEF Read
    <3>2. y.send_state = "MAYBE_V1" => x.send_state = "MAYBE_V1"
      BY <1>14, Zenon DEF Read
    <3>3. x.send_state = "V1" => y.send_state = "V1"
      BY <1>14, Zenon DEF Read
    <3>4. y.send_state \in Keyed => x.send_state \in Keyed \/ HasTerm(y)
      BY <1>14, Zenon DEF Read
    <3>. QED
      BY <3>1, <3>2, <3>3, <3>4, Zenon
  <2>8. y.send_state = "MAYBE_V1" => z = <<>>
    <3>1. x.send_state = "MAYBE_V1" => o = <<>>
      BY <2>1, Zenon DEF FlowOf
    <3>2. y.send_state = "MAYBE_V1" => b = <<>>
      BY <2>2, Zenon DEF Settled, Staged
    <3>3. x.send_state = "MAYBE_V1" => a = <<>>
      BY <1>13, Zenon DEF Settled, Staged
    <3>. QED
      BY <2>7, <3>1, <3>2, <3>3, ZenonT(40)
  <2>9. y.send_state = "V1" => z = o
    BY <2>7, Zenon
  <2>. HIDE DEF o, z, a, b, l
  <2>10. FlowOf(transport[p], y.send_state, z, received[p], sent[s], sock[p])
    <3>. DEFINE e == transport[p]
                st == x.send_state
                su == y.send_state
                c == received[p]
                m == sent[s]
                open == sock[p]
    <3>1. /\ FlowOf(e, st, o, c, m, open) /\ Len(c) \in Nat /\ m \in Nat
          /\ su = "V1" => st \in {"V1", "MAYBE_V1"} /\ z = o
          /\ su = "MAYBE_V1" => st = "MAYBE_V1" /\ z = <<>>
          /\ st = "V1" => su = "V1"
          /\ su \in Keyed => st \in Keyed \/ TermIn(z)
      BY <1>2, <2>1, <2>6, <2>7, <2>8, <2>9, ZenonT(40)
    <3>. HIDE DEF e, st, su, c, m, open
    <3>2. FlowOf(e, su, z, c, m, open)
      BY <2>5, <3>1, FlowGrows, Zenon
    <3>. QED
      BY <3>2, Zenon DEF e, su, c, m, open
  <2>. QED
    BY <2>10, Zenon DEF z
<1>19. BookOf(transport'[s], sock'[s], timed_out'[s], received'[s], reconnect'[s])
  BY <1>2, <1>5, <1>15, Zenon
<1>20. FlowTo(s)' /\ FlowTo(p)'
  BY <1>2, <1>5, <1>7, <1>17, <1>18, ZenonT(40) DEF FlowTo, p
<1>. QED
  BY <1>2, <1>5, <1>16, <1>19, <1>20, BothSides, ZenonT(40) DEF p

\* The socket is closed by the peer.
LEMMA SocketClosedFlow ==
  ASSUME FInv, NEW s \in Sides, SocketClosed(s)
  PROVE  Books' /\ Flows'
<1>. DEFINE p == Other(s)
            x == transport[s]
            b == transport[p].send_buffer
<1>0. IInv /\ Books /\ Flows
  BY Zenon DEF FInv
<1>1. /\ p \in Sides /\ p # s /\ Other(p) = s
      /\ wire[s] \in Seq(Units) /\ b \in Seq(Units)
  BY <1>0, SideTypes, OtherSide, Zenon
<1>2. /\ transport' = transport /\ wire'[s] = <<>> /\ wire'[p] = wire[p]
      /\ received' = received /\ timed_out' = timed_out /\ reconnect' = reconnect
      /\ sent' = sent /\ sock'[p] = sock[p] /\ sock'[s] = FALSE
  BY <1>0, <1>1, Zenon DEF SocketClosed, Close, IInv, TypeOK
<1>. HIDE DEF p
<1>3. BookOf(x, FALSE, timed_out[s], received[s], reconnect[s])
  <2>1. Carries(x, x)
    BY Zenon DEF Carries, Alike
  <2>. QED
    BY <1>0, <2>1, BookKeeps, Zenon DEF Books
<1>4. BookOf(transport[p], sock[p], timed_out[p], received[p], reconnect[p])
  BY <1>0, <1>1, Zenon DEF Books
<1>5. FlowOf(x, transport[p].send_state, <<>> \o b, received[s], sent[p], FALSE)
  <2>1. FlowOf(x, transport[p].send_state, wire[s] \o b, received[s], sent[p], sock[s])
    BY <1>0, Zenon DEF Flows, FlowTo, p
  <2>2. /\ wire[s] \o b \in Seq(Units) /\ <<>> \o b \in Seq(Units)
        /\ \A i \in 1..Len(<<>> \o b) : \E j \in 1..Len(wire[s] \o b) : (<<>> \o b)[i] = (wire[s] \o b)[j]
    BY <1>1, JoinDropped, Zenon
  <2>. DEFINE q == wire[s] \o b
              z == <<>> \o b
              e == transport[s]
              st == transport[p].send_state
              c == received[s]
              m == sent[p]
              open == sock[s]
  <2>. HIDE DEF q, z, e, st, c, m, open
  <2>3. /\ q \in Seq(Units) /\ z \in Seq(Units) /\ FlowOf(e, st, q, c, m, open)
        /\ \A i \in 1..Len(z) : \E j \in 1..Len(q) : z[i] = q[j]
    BY <2>1, <2>2, Zenon DEF q, z, e, st, c, m, open
  <2>4. FlowOf(e, st, z, c, m, FALSE)
    BY <2>3, FlowLoses, Zenon
  <2>. QED
    BY <2>4, Zenon DEF z, e, st, c, m
<1>6. FlowTo(p)
  BY <1>0, <1>1, Zenon DEF Flows
<1>7. FlowTo(s)' /\ FlowTo(p)'
  BY <1>1, <1>2, <1>5, <1>6, Zenon DEF FlowTo, p
<1>. QED
  BY <1>1, <1>2, <1>3, <1>4, <1>7, BothSides, ZenonT(40) DEF p

\* InactivityCheck.
LEMMA TimeoutFlow ==
  ASSUME FInv, NEW s \in Sides, Timeout(s)
  PROVE  Books' /\ Flows'
<1>. DEFINE p == Other(s)
            x == transport[s]
            c == CountHybrid(x, "STAGE2_FAILED")
<1>0. IInv /\ Books /\ Flows
  BY Zenon DEF FInv
<1>1. /\ p \in Sides /\ p # s /\ x \in Transports /\ sock[s] = TRUE /\ timed_out[s] = FALSE
  BY <1>0, SideTypes, OtherSide, ZenonT(40) DEF Timeout
<1>2. PICK y : /\ transport' = [transport EXCEPT ![s] = y]
               /\ y = x \/ (y = c /\ GetHybridStatus(x).unconfirmed)
  <2>1. transport = [transport EXCEPT ![s] = x]
    BY <1>0, Zenon DEF IInv, TypeOK
  <2>. QED
    BY <2>1, Zenon DEF Timeout
<1>3. /\ transport'[s] = y /\ transport'[p] = transport[p]
      /\ wire' = wire /\ received' = received /\ sock' = sock /\ sent' = sent
      /\ reconnect' = reconnect /\ timed_out'[p] = timed_out[p] /\ timed_out'[s] = TRUE
  BY <1>0, <1>1, <1>2, ZenonT(40) DEF Timeout, IInv, TypeOK
<1>4. BookOf(x, TRUE, FALSE, received[s], reconnect[s])
  BY <1>0, <1>1, Zenon DEF Books
<1>5. BookOf(transport[p], sock[p], timed_out[p], received[p], reconnect[p])
  BY <1>0, <1>1, Zenon DEF Books
<1>6. GetHybridStatus(x).unconfirmed => x.hybrid_state = "UNCONFIRMED"
  BY Zenon DEF GetHybridStatus
<1>7. /\ BookOf(y, TRUE, TRUE, received[s], reconnect[s])
      /\ Alike(x, y) /\ y.send_buffer = x.send_buffer
  <2>1. CASE y = x
    BY <1>4, <2>1, Zenon DEF BookOf, Alike
  <2>2. CASE y = c /\ GetHybridStatus(x).unconfirmed
    BY <1>1, <1>4, <1>6, <2>2, BookTimeout, CountHybridTally, ZenonT(40) DEF Outcomes
  <2>. QED
    BY <1>2, <2>1, <2>2, Zenon
<1>8. Flows'
  BY <1>2, <1>3, <1>7, QuietFlow, Zenon
<1>9. Books'
  <2>1. \A z \in Sides : z = s \/ z = p
    BY OtherSide, ZenonT(40)
  <2>. HIDE DEF p
  <2>. QED
    BY <1>1, <1>3, <1>5, <1>7, <2>1, ZenonT(40) DEF Books
<1>. QED
  BY <1>8, <1>9, Zenon

\* DisconnectNodes.
LEMMA DisconnectNodeFlow ==
  ASSUME FInv, NEW s \in Sides, DisconnectNode(s)
  PROVE  Books' /\ Flows'
<1>. DEFINE p == Other(s)
            x == transport[s]
            y == IF GetHybridStatus(x).v1_refused THEN CountHybrid(x, "REFUSED") ELSE x
            rc == {"removed"}
                    \cup (IF ShouldReconnectV1(x) THEN {"v1"} ELSE {})
                    \cup (IF GetHybridStatus(x).retry_classical /\ close_cause[s] # "NONE"
                          THEN {"classical"} ELSE {})
<1>0. IInv /\ Books /\ Flows
  BY Zenon DEF FInv
<1>1. p \in Sides /\ p # s /\ x \in Transports /\ reconnect[s] = {}
  BY <1>0, SideTypes, OtherSide, Zenon DEF DisconnectNode
<1>2. transport' = [transport EXCEPT ![s] = y]
  <2>1. transport = [transport EXCEPT ![s] = x]
    BY <1>0, Zenon DEF IInv, TypeOK
  <2>. QED
    BY <2>1, Zenon DEF DisconnectNode
<1>3. /\ reconnect' = [reconnect EXCEPT ![s] = rc] /\ sock' = [sock EXCEPT ![s] = FALSE]
      /\ wire' = wire /\ received' = received /\ sent' = sent /\ timed_out' = timed_out
  BY Zenon DEF DisconnectNode
<1>4. BookOf(x, sock[s], timed_out[s], received[s], {})
  BY <1>0, <1>1, Zenon DEF Books
<1>5. BookOf(y, FALSE, timed_out[s], received[s], rc)
  <2>. DEFINE c == received[s]
              open == sock[s]
              late == timed_out[s]
              cause == close_cause[s]
  <2>. HIDE DEF c, open, late, cause
  <2>1. y = IF GetHybridStatus(x).v1_refused THEN CountHybrid(x, "REFUSED") ELSE x
    BY Zenon
  <2>2. rc = {"removed"}
               \cup (IF ShouldReconnectV1(x) THEN {"v1"} ELSE {})
               \cup (IF GetHybridStatus(x).retry_classical /\ cause # "NONE"
                     THEN {"classical"} ELSE {})
    BY Zenon DEF cause
  <2>3. BookOf(x, open, late, c, {}) /\ x \in Transports
    BY <1>1, <1>4, Zenon DEF open, late, c
  <2>. HIDE DEF y, rc, x
  <2>4. BookOf(y, FALSE, late, c, rc)
    BY <2>1, <2>2, <2>3, BookDisconnect, Zenon
  <2>. QED
    BY <2>4, Zenon DEF late, c
<1>6. BookOf(transport[p], sock[p], timed_out[p], received[p], reconnect[p])
  BY <1>0, <1>1, Zenon DEF Books
<1>7. Alike(x, y) /\ y.send_buffer = x.send_buffer
  BY <1>1, CountHybridTally, Zenon DEF Outcomes, Alike
<1>. HIDE DEF y, rc, p
<1>8. /\ transport'[s] = y /\ transport'[p] = transport[p] /\ reconnect'[s] = rc
      /\ reconnect'[p] = reconnect[p] /\ sock'[s] = FALSE /\ sock'[p] = sock[p]
  BY <1>0, <1>1, <1>2, <1>3, ZenonT(40) DEF IInv, TypeOK
<1>9. \A z \in Sides : z = s \/ z = p
  BY OtherSide, Zenon DEF p
<1>10. Flows'
  <2>1. \A z \in Sides : sock'[z] => sock[z]
    BY <1>8, <1>9, Zenon
  <2>. QED
    BY <1>2, <1>3, <1>7, <2>1, QuietFlow, ZenonT(40)
<1>11. Books'
  BY <1>3, <1>5, <1>6, <1>8, <1>9, ZenonT(40) DEF Books
<1>. QED
  BY <1>10, <1>11, Zenon

\* The constructors.
LEMMA MakeTransportFlow ==
  ASSUME NEW s \in Sides, NEW m \in Modes, NEW k \in {"none", "MALFORMED", "BADKEY"}
  PROVE  LET x == MakeTransport(s, m, k)
         IN  /\ x.recv_state \in Unkeyed /\ BookOf(x, TRUE, FALSE, <<>>, {})
             /\ x.send_state \notin Keyed
             /\ x.send_state \in {"V1", "MAYBE_V1"} => x.send_buffer = <<>>
             /\ x.send_buffer \in {<<>>, <<Unit("KEY_HEAD"), Unit("KEY_REST")>>}
<1>. DEFINE x == MakeTransport(s, m, k)
            v2 == m \in HandshakeModes
<1>1. /\ x.recv_state = (IF ~v2 THEN "V1" ELSE IF s = "I" THEN "KEY" ELSE "KEY_MAYBE_V1")
      /\ x.send_state = (IF ~v2 THEN "V1" ELSE IF s = "I" THEN "AWAITING_KEY" ELSE "MAYBE_V1")
      /\ x.hybrid_state = "PENDING" /\ x.tag_seen = FALSE /\ x.cipher = "none"
      /\ x.rejected = FALSE /\ x.counts = [o \in Outcomes |-> 0]
      /\ x.send_buffer = (IF v2 /\ s = "I" THEN <<Unit("KEY_HEAD"), Unit("KEY_REST")>> ELSE <<>>)
  BY DEF MakeTransport, StartSendingHandshake
<1>. HIDE DEF x, v2
<1>2. None(x)
  BY <1>1, Zenon DEF None
<1>3. /\ x.recv_state \in Unkeyed /\ x.send_state \notin Keyed
      /\ x.send_state \in {"V1", "MAYBE_V1"} => x.send_buffer = <<>>
      /\ x.send_buffer \in {<<>>, <<Unit("KEY_HEAD"), Unit("KEY_REST")>>}
  BY <1>1 DEF Unkeyed, Keyed
<1>4. Placed(x)
  BY <1>1 DEF Placed
<1>5. Staged(x)
  BY <1>1 DEF Staged
<1>6. Tally(x)
  BY <1>1, <1>2 DEF Tally
<1>7. Retried(x, <<>>, {})
  BY DEF Retried
<1>8. BookOf(x, TRUE, FALSE, <<>>, {})
  BY <1>2, <1>4, <1>5, <1>6, <1>7, ZenonT(40) DEF BookOf
<1>. QED
  BY <1>3, <1>8, Zenon DEF x

\* A new connection has empty books and streams without messages.
LEMMA InitFlow == Init => FInv
<1>. SUFFICES ASSUME Init PROVE FInv
  OBVIOUS
<1>1. PICK p \in Pairings, k \in [Sides -> Quirks] :
        transport = [s \in Sides |-> MakeTransport(s, p[s], k[s])]
  BY DEF Init
<1>2. ASSUME NEW s \in Sides
      PROVE  /\ transport[s].recv_state \in Unkeyed
             /\ BookOf(transport[s], TRUE, FALSE, <<>>, {})
             /\ transport[s].send_state \notin Keyed
             /\ transport[s].send_state \in {"V1", "MAYBE_V1"} => transport[s].send_buffer = <<>>
             /\ transport[s].send_buffer \in {<<>>, <<Unit("KEY_HEAD"), Unit("KEY_REST")>>}
  <2>1. p[s] \in Modes
    BY PairingsAssumption
  <2>2. k[s] \in {"none", "MALFORMED", "BADKEY"}
    BY DEF Quirks
  <2>3. transport[s] = MakeTransport(s, p[s], k[s])
    BY <1>1, Zenon
  <2>. QED
    BY <2>1, <2>2, <2>3, MakeTransportFlow, ZenonT(40)
<1>3. Books
  BY <1>2, Zenon DEF Init, Books
<1>4. ASSUME NEW s \in Sides PROVE FlowTo(s)
  <2>. DEFINE x == transport[s]
              st == transport[Other(s)].send_state
              b == transport[Other(s)].send_buffer
              q == <<>> \o b
  <2>1. /\ x.recv_state \in Unkeyed /\ st \notin Keyed
        /\ st \in {"V1", "MAYBE_V1"} => b = <<>>
        /\ b \in {<<>>, <<Unit("KEY_HEAD"), Unit("KEY_REST")>>}
    BY <1>2, OtherSide, Zenon
  <2>. HIDE DEF x, st, b
  <2>2. Unit("KEY_HEAD").body = "EMPTY" /\ Unit("KEY_REST").body = "EMPTY"
        /\ Unit("KEY_HEAD").kind = "KEY_HEAD" /\ Unit("KEY_REST").kind = "KEY_REST"
    BY DEF Unit
  <2>3. b = <<>> => q = <<>>
    OBVIOUS
  <2>4. \A i \in 1..Len(q) : q[i].body # "MSG" /\ q[i].kind \notin V1Kinds
    <3>1. CASE b = <<>>
      BY <3>1
    <3>2. CASE b = <<Unit("KEY_HEAD"), Unit("KEY_REST")>>
      <4>1. \A i \in 1..Len(q) : q[i] \in {Unit("KEY_HEAD"), Unit("KEY_REST")}
        BY <3>2
      <4>. QED
        BY <2>2, <4>1 DEF V1Kinds
    <3>. QED
      BY <2>1, <3>1, <3>2
  <2>5. st = "V1" => \A i \in 1..Len(q) : FALSE
    <3>1. q = <<>> => \A i \in 1..Len(q) : FALSE
      OBVIOUS
    <3>. QED
      BY <2>1, <2>3, <3>1, Zenon
  <2>. HIDE DEF q
  <2>6. \A i \in 1..Len(q) : Proper(q[i]) /\ (q[i].kind \in V1Kinds <=> st = "V1")
    BY <2>4, <2>5, Zenon DEF Proper
  <2>7. Ordered(q, 0, 0)
    <3>1. \A n \in Nat : ~(0 < n /\ n <= 0)
      OBVIOUS
    <3>. QED
      BY <2>4, <3>1, Zenon DEF Ordered, Message
  <2>8. TermFirst(q)
    BY <2>4, Zenon DEF TermFirst, Message
  <2>9. Len(<<>>) = 0 /\ 0 <= 0 /\ \A i \in 1..0 : FALSE
    OBVIOUS
  <2>10. FlowOf(x, st, q, <<>>, 0, TRUE)
    BY <2>1, <2>3, <2>6, <2>7, <2>8, <2>9, ZenonT(40) DEF FlowOf
  <2>11. wire[s] = <<>> /\ received[s] = <<>> /\ sent[Other(s)] = 0 /\ sock[s] = TRUE
    BY OtherSide, Zenon DEF Init
  <2>. QED
    BY <2>10, <2>11, Zenon DEF FlowTo, x, st, q, b
<1>5. IInv
  BY InitIInv, Zenon
<1>. QED
  BY <1>3, <1>4, <1>5, Zenon DEF FInv, Flows

\* The books and the flow are inductive, on top of the key discipline.
LEMMA FlowInductive == Spec => []FInv
<1>1. Init => FInv
  BY InitFlow
<1>2. FInv /\ IInv' /\ [Next]_vars => FInv'
  <2>. SUFFICES ASSUME FInv, IInv', [Next]_vars PROVE Books' /\ Flows'
    BY Zenon DEF FInv
  <2>1. CASE UNCHANGED vars
    BY <2>1, Zenon DEF vars, FInv, Books, Flows, FlowTo
  <2>2. CASE Done
    BY <2>2, Zenon DEF Done, vars, FInv, Books, Flows, FlowTo
  <2>3. ASSUME NEW s \in Sides, LocalDisconnect(s) PROVE Books' /\ Flows'
    BY <2>3, Zenon DEF LocalDisconnect, FInv, Books, Flows, FlowTo
  <2>. QED
    BY <2>1, <2>2, <2>3, QueueMessageFlow, SendBytesFlow, ReceiveMsgBytesFlow,
       SocketClosedFlow, TimeoutFlow, DisconnectNodeFlow, SMTT(30) DEF Next
<1>. QED
  BY <1>1, <1>2, Inductive, PTL DEF Spec

-----------------------------------------------------------------------------
(* Results.                                                                *)

INSTANCE FiniteSetTheorems

\* Whoever gets to count the outcome of a handshake, HybridFail,
\* ProcessReceivedPacketBytes, InactivityCheck or DisconnectNodes, is the only
\* one, and counts "hybrid" exactly for a confirmed session.
THEOREM CountsAreOnce == Spec => []CountedOnce
<1>1. FInv => CountedOnce
  <2>. SUFFICES ASSUME FInv, NEW s \in Sides
                PROVE  /\ Cardinality({o \in Outcomes : transport[s].counts[o] > 0}) <= 1
                       /\ \A o \in Outcomes : transport[s].counts[o] <= 1
                       /\ (transport[s].counts["HYBRID"] = 1) <=> (transport[s].hybrid_state = "CONFIRMED")
    BY Zenon DEF CountedOnce
  <2>. DEFINE x == transport[s]
              C == {o \in Outcomes : x.counts[o] > 0}
  <2>1. Tally(x) /\ x.hybrid_state \in HybridStates
    <3>1. transport[s] \in Transports
      BY SideTypes, ZenonT(40) DEF FInv
    <3>. QED
      BY <3>1, ZenonT(40) DEF FInv, Books, BookOf, Transports
  <2>. HIDE DEF x
  <2>2. /\ None(x) \/ \E o \in Outcomes : Only(x, o)
        /\ x.hybrid_state = "CONFIRMED" => Only(x, "HYBRID")
        /\ x.hybrid_state # "CONFIRMED" => None(x) \/ \E o \in Outcomes \ {"HYBRID"} : Only(x, o)
    <3>1. /\ x.hybrid_state \in {"CONFIRMED", "CLASSICAL", "FAILED", "UNCONFIRMED", "PENDING"}
          /\ {"CLASSICAL", "STAGE2_FAILED", "REFUSED"} \subseteq Outcomes \ {"HYBRID"}
          /\ "HYBRID" \in Outcomes /\ \A o \in Outcomes \ {"HYBRID"} : o \in Outcomes
      BY <2>1 DEF HybridStates, Outcomes
    <3>. QED
      BY <2>1, <3>1, SMTT(30) DEF Tally
  <2>3. (\A o \in Outcomes : x.counts[o] <= 1) /\ (x.counts["HYBRID"] = 1 <=> x.hybrid_state = "CONFIRMED")
    BY <2>2 DEF None, Only, Outcomes
  <2>4. C = {} \/ \E o \in Outcomes : C = {o}
    BY <2>2 DEF None, Only
  <2>. HIDE DEF C
  <2>5. Cardinality(C) = 0 \/ Cardinality(C) = 1
    BY <2>4, FS_EmptySet, FS_Singleton, ZenonT(40)
  <2>6. Cardinality(C) <= 1
    BY <2>5, SMTT(30)
  <2>. QED
    BY <2>3, <2>6, ZenonT(40) DEF x, C
<1>. QED
  BY <1>1, FlowInductive, PTL

\* DisconnectNodes asks for at most one reconnection, and for none after a
\* message was taken or the session confirmed.
THEOREM ReconnectsOnce == Spec => []OneReconnection
<1>1. FInv => OneReconnection
  BY ZenonT(40) DEF FInv, Books, BookOf, Retried, OneReconnection
<1>. QED
  BY <1>1, FlowInductive, PTL

\* ReceiveMsgBytes hands over the messages of the peer's SetMessageToSend in
\* order, without a gap and under one key, for any number of messages.
THEOREM DeliveredInOrder == Spec => []MessagesInOrder
<1>1. FInv => MessagesInOrder
  <2>. SUFFICES ASSUME FInv, NEW s \in Sides
                PROVE  /\ Len(received[s]) <= sent[Other(s)]
                       /\ \A i \in 1..Len(received[s]) : received[s][i].n = i
                       /\ \A i, j \in 1..Len(received[s]) : received[s][i].key = received[s][j].key
    BY Zenon DEF MessagesInOrder
  <2>1. /\ Len(received[s]) <= sent[Other(s)]
        /\ \A i \in 1..Len(received[s]) : received[s][i].n = i /\ received[s][i].key = transport[s].cipher
    BY Zenon DEF FInv, Flows, FlowTo, FlowOf
  <2>. QED
    BY <2>1, Zenon
<1>. QED
  BY <1>1, FlowInductive, PTL
=============================================================================
