------------------------------ MODULE MetalDAG ------------------------------
(***************************************************************************)
(* The verification caches of the MetalDAG proof of work                   *)
(* (src/src/metaldag) and who may have one built: the message thread of    *)
(* src/src/net_processing.cpp asks MayVerifyHeadersNow before it hashes    *)
(* headers of a peer; other threads (RPC, validation, blocks from disk)    *)
(* hash without asking.                                                    *)
(*                                                                         *)
(* Time is in ticks after the chain's base time.  A header is its nTime.   *)
(* The hash itself is an oracle: a header's proof of work is valid or not. *)
(***************************************************************************)
EXTENDS Integers, Sequences, FiniteSets

CONSTANTS
  Entries,   \* METALDAG_CACHE_ENTRIES
  EpochLen,  \* metaldagEpochSeconds
  Interval,  \* COLD_EPOCH_BUILD_INTERVAL
  Times,     \* nTimes of headers
  Start,     \* the clock at the start
  MaxTime,   \* the last clock reading
  MaxUses,   \* uses of a cache
  MaxHeaders \* headers of a message

ASSUME MetalDAGAssumption ==
  /\ Entries \in Nat \ {0} /\ EpochLen \in Nat \ {0} /\ Interval \in Nat \ {0}
  /\ Times \subseteq Nat /\ Start \in Nat /\ MaxTime \in Nat /\ Start <= MaxTime
  /\ MaxUses \in Nat /\ MaxHeaders \in Nat

\* GetEpochSizing: the cache's size follows the epoch, which names it.
Epoch(t) == t \div EpochLen

Epochs == {Epoch(t) : t \in Times}

VARIABLES
  now,      \* the clock
  best,     \* nTime of m_best_header
  slots,    \* g_cache_by_key: last_use of each resident epoch
  uses,     \* g_cache_clock
  last,     \* CacheBuildBudget::m_last_build
  left,     \* headers the message thread has still to hash
  asked,    \* the epoch(now) of the gate those headers passed
  gate,     \* the gate's verdict on the last message, and what it saw
  built     \* what the last step of the message thread built

vars == <<now, best, slots, uses, last, left, asked, gate, built>>

NoVerdict == [ok |-> TRUE, due |-> FALSE, cold |-> FALSE, ahead |-> FALSE]

NoBuild == [epoch |-> 0, asked |-> 0]

Init ==
  /\ now = Start
  /\ best \in {t \in Times : t <= Start}
  /\ slots = [e \in {} |-> 0]
  /\ uses = 0
  /\ last = -Interval
  /\ left = <<>>
  /\ asked = 0
  /\ gate = NoVerdict
  /\ built = NoBuild

Tick ==
  /\ now < MaxTime
  /\ now' = now + 1
  /\ UNCHANGED <<best, slots, uses, last, left, asked, gate, built>>

\* A header with more work becomes the best one.
BestHeader ==
  /\ \E t \in Times : t > best /\ t <= now /\ best' = t
  /\ UNCHANGED <<now, slots, uses, last, left, asked, gate, built>>

-----------------------------------------------------------------------------
(* The caches.                                                             *)

Resident(e) == e \in DOMAIN slots

\* Slip: the lowest epoch goes, as before audit finding 2.
EvictLowest(s) ==
  IF Cardinality(DOMAIN s) <= Entries THEN s
  ELSE LET victim == CHOOSE e \in DOMAIN s : \A f \in DOMAIN s : e <= f
       IN  [e \in DOMAIN s \ {victim} |-> s[e]]

\* One slot too many at most: the least recently used one goes.
Evict(s) ==
  IF Cardinality(DOMAIN s) <= Entries THEN s
  ELSE LET victim == CHOOSE e \in DOMAIN s : \A f \in DOMAIN s : s[e] <= s[f]
       IN  [e \in DOMAIN s \ {victim} |-> s[e]]

\* get_cache, which holds g_cache_mutex while it builds.
get_cache(e) ==
  /\ uses < MaxUses
  /\ uses' = uses + 1
  /\ slots' = IF Resident(e) THEN [slots EXCEPT ![e] = uses']
              ELSE Evict([f \in DOMAIN slots \cup {e} |-> IF f = e THEN uses' ELSE slots[f]])

-----------------------------------------------------------------------------
(* The gate in front of the message thread.                                *)

\* Slip: the hot window starts at the best header's epoch.
LoAtBest == Epoch(best)

Lo == IF Epoch(best) > 0 THEN Epoch(best) - 1 ELSE 0

Hi == Epoch(now) + 1

\* CacheBuildBudget::Take.
Take(prev) == now - prev >= Interval

\* Slip: an epoch beyond the clock is only rationed.
MayVerifyFromNetworkAhead(t, prev) ==
  LET e == Epoch(t)
  IN  IF Resident(e) \/ (Lo <= e /\ e <= Hi) THEN [ok |-> TRUE, last |-> prev]
      ELSE IF Take(prev) THEN [ok |-> TRUE, last |-> now]
      ELSE [ok |-> FALSE, last |-> prev]

\* Whether a header may be verified now, and the budget's new last build.
MayVerifyFromNetwork(t, prev) ==
  LET e == Epoch(t)
  IN  IF Resident(e) \/ (Lo <= e /\ e <= Hi) THEN [ok |-> TRUE, last |-> prev]
      ELSE IF e > Hi THEN [ok |-> FALSE, last |-> prev]
      ELSE IF Take(prev) THEN [ok |-> TRUE, last |-> now]
      ELSE [ok |-> FALSE, last |-> prev]

\* Header by header, up to the first refusal.
MayVerifyHeadersNow(hs) ==
  LET verdict[i \in 0..Len(hs)] ==
        IF i = 0 THEN [ok |-> TRUE, last |-> last]
        ELSE IF ~verdict[i - 1].ok THEN verdict[i - 1]
        ELSE MayVerifyFromNetwork(hs[i], verdict[i - 1].last)
  IN  verdict[Len(hs)]

Messages == UNION {[1..n -> Times] : n \in 1..MaxHeaders}

\* What the gate saw: whether a build was due, and whether some header was of a
\* cold epoch or of one ahead of the clock.
Seen(hs, ok) ==
  LET absent == {Epoch(hs[i]) : i \in DOMAIN hs} \ DOMAIN slots
  IN  [ok |-> ok, due |-> Take(last),
       cold |-> \E e \in absent : e + 1 < Epoch(best),
       ahead |-> \E e \in absent : e > Epoch(now) + 1]

\* A headers message that connects, or an unrequested block (one header).
Message(hs) ==
  /\ left = <<>>
  /\ LET v == MayVerifyHeadersNow(hs)
     IN  /\ last' = v.last
         /\ left' = IF v.ok THEN hs ELSE <<>>
         /\ asked' = IF v.ok THEN Epoch(now) ELSE 0
         /\ gate' = Seen(hs, v.ok)
  /\ built' = NoBuild
  /\ UNCHANGED <<now, best, slots, uses>>

\* CheckHeadersPoW hashes the next header, and stops at an invalid one.
HashNext ==
  /\ left # <<>>
  /\ LET e == Epoch(Head(left))
     IN  /\ get_cache(e)
         /\ built' = IF Resident(e) THEN NoBuild ELSE [epoch |-> e, asked |-> asked]
  /\ \E valid \in BOOLEAN : left' = IF valid THEN Tail(left) ELSE <<>>
  /\ asked' = IF left' = <<>> THEN 0 ELSE asked
  /\ gate' = NoVerdict
  /\ UNCHANGED <<now, best, last>>

\* Any other thread hashes a header, one that is not too new.
LocalHash(t) ==
  /\ Epoch(t) <= Hi
  /\ get_cache(Epoch(t))
  /\ UNCHANGED <<now, best, last, left, asked, gate, built>>

Next ==
  \/ Tick \/ BestHeader \/ HashNext
  \/ \E hs \in Messages : Message(hs)
  \/ \E t \in Times : LocalHash(t)

Spec == Init /\ [][Next]_vars

-----------------------------------------------------------------------------
(* Properties.                                                             *)

\* The resident epochs, the one used last first.
ByUse ==
  [i \in 1..Cardinality(DOMAIN slots) |->
     CHOOSE e \in DOMAIN slots : Cardinality({f \in DOMAIN slots : slots[f] > slots[e]}) = i - 1]

Recency == INSTANCE RecencyCache WITH Keys <- Epochs, list <- ByUse

\* The caches with their last_use stamps are a list of the last Entries epochs
\* used: a peer needs that many other epochs to push one out (metaldag.h).
EvictsLeastRecent == Recency!Spec

\* "Beyond any time this node could accept: never affordable, never built": no
\* header of a peer makes the node build a cache more than one epoch ahead of the
\* clock the gate read, however messages, clock and other threads interleave.
NeverBuiltAhead == built.epoch <= built.asked + 1

\* Headers next to the best header or the clock are always verified: a message is
\* refused only for a cold epoch or one ahead of the clock.
OnlyColdRefused == ~gate.ok => gate.cold \/ gate.ahead

\* "Dropped, not punished: a real deep fork is retried later": a message that
\* names nothing ahead of the clock is refused only while no build is due.
RefusedOnlyForNow == ~gate.ok /\ ~gate.ahead => ~gate.due
=============================================================================
