-------------------------- MODULE ChainstateProofs --------------------------
(***************************************************************************)
(* Proofs about CoinsView and Chainstate, for every tree of blocks, every  *)
(* set of outpoints and any number of crashes.  Bottom up: what the        *)
(* operations of a coins cache do to what is read through it; what the     *)
(* loops of ConnectBlock, DisconnectBlock and RollforwardBlock do to the   *)
(* unspent outputs; what ReplayBlocks makes of a database that a crash     *)
(* left between two tips; and, on top of these, the inductive invariant of *)
(* the chainstate.                                                         *)
(***************************************************************************)
EXTENDS Chainstate, TLAPS

-----------------------------------------------------------------------------
(* Induction over the natural numbers.                                     *)

\* Every set of natural numbers that has a member has a least one.  The lemmas
\* take it as a hypothesis; NumbersAreWellOrdered, before the theorems,
\* discharges it.
WellOrdered == \A T \in SUBSET Nat : T # {} => \E x \in T : \A y \in T : x <= y

\* A set that holds zero and with every number the next one holds them all.
LEMMA Induction ==
  ASSUME WellOrdered, NEW S \in SUBSET Nat, 0 \in S, \A n \in S : n + 1 \in S
  PROVE  S = Nat
<1> SUFFICES ASSUME Nat \ S # {} PROVE FALSE
  BY Zenon
<1>1. PICK x \in Nat \ S : \A y \in Nat \ S : x <= y
  BY Zenon DEF WellOrdered
<1>2. x - 1 \in Nat /\ x - 1 \notin Nat \ S
  BY <1>1
<1> QED
  BY <1>1, <1>2

-----------------------------------------------------------------------------
(* Loops.                                                                  *)

\* What holds before the first turn of a loop and is kept by every turn holds
\* after every turn; P[i] is the set of the states in which it holds after i.
LEMMA LoopKeeps ==
  ASSUME WellOrdered, NEW n \in Nat, NEW P, NEW s, s[0] \in P[0],
         \A i \in 1..n : s[i - 1] \in P[i - 1] => s[i] \in P[i]
  PROVE  \A i \in 0..n : s[i] \in P[i]
<1> DEFINE T == {i \in Nat : i <= n => s[i] \in P[i]}
<1>1. 0 \in T
  BY Zenon
<1>2. ASSUME NEW i \in T PROVE i + 1 \in T
  <2>1. CASE i + 1 <= n
    <3>1. i + 1 \in 1..n /\ (i + 1) - 1 = i /\ i <= n /\ i \in Nat
      BY <2>1
    <3>2. s[i] \in P[i]
      BY <3>1, Zenon
    <3> QED  BY <3>1, <3>2
  <2>2. CASE ~(i + 1 <= n)
    BY <2>2
  <2> QED  BY <2>1, <2>2, Zenon
<1>3. T = Nat
  <2> HIDE DEF T
  <2>1. T \in SUBSET Nat
    BY Zenon DEF T
  <2> QED  BY <1>1, <1>2, <2>1, Induction, Zenon
<1> QED
  BY <1>3

\* s is the run of the loop that starts in x and makes the i-th turn by F.
IsRun(n, x, F, s) == s = [i \in 0..n |-> IF i = 0 THEN x ELSE F[<<i, s[i - 1]>>]]

\* A loop whose every turn leads from P[i - 1] to P[i] has a run.
LEMMA LoopRuns ==
  ASSUME WellOrdered, NEW n \in Nat, NEW P, NEW F, NEW x \in P[0],
         \A i \in 1..n : \A y \in P[i - 1] : F[<<i, y>>] \in P[i]
  PROVE  \E s : IsRun(n, x, F, s) /\ \A i \in 0..n : s[i] \in P[i]
<1> DEFINE Run(m, s) == /\ s = [i \in 0..m |-> IF i = 0 THEN x ELSE F[<<i, s[i - 1]>>]]
                        /\ \A i \in 0..m : s[i] \in P[i]
           T == {m \in Nat : m <= n => \E s : Run(m, s)}
<1>1. 0 \in T
  <2> DEFINE s == [i \in 0..0 |-> x]
  <2>1. s = [i \in 0..0 |-> IF i = 0 THEN x ELSE F[<<i, s[i - 1]>>]] /\ \A i \in 0..0 : s[i] \in P[i]
    BY DEF s
  <2>2. Run(0, s)
    BY <2>1, Zenon
  <2> HIDE DEF Run
  <2>3. \E r : Run(0, r)
    BY <2>2, Zenon
  <2> QED  BY <2>3, Zenon
<1>2. ASSUME NEW m \in T PROVE m + 1 \in T
  <2> SUFFICES ASSUME m + 1 <= n PROVE \E s : Run(m + 1, s)
    <3> HIDE DEF Run
    <3> QED  OBVIOUS
  <2>1. m \in Nat /\ m <= n /\ m + 1 \in 1..n /\ (m + 1) - 1 = m /\ m \in 0..m
    OBVIOUS
  <2>2. PICK s : Run(m, s)
    <3> HIDE DEF Run
    <3> QED  BY <2>1, Zenon
  <2> DEFINE r == [i \in 0..(m + 1) |-> IF i = m + 1 THEN F[<<m + 1, s[m]>>] ELSE s[i]]
  <2>3. s[m] \in P[m]
    BY <2>1, <2>2, Zenon
  <2>4. F[<<m + 1, s[m]>>] \in P[m + 1]
    BY <2>1, <2>3, Zenon
  <2>5. \A i \in 0..(m + 1) : r[i] \in P[i]
    <3> SUFFICES ASSUME NEW i \in 0..(m + 1) PROVE r[i] \in P[i]
      BY Zenon
    <3>1. i = m + 1 \/ i \in 0..m
      BY <2>1
    <3>2. CASE i = m + 1
      BY <3>2, <2>4, <2>1, Zenon
    <3>3. CASE i \in 0..m
      <4>1. i # m + 1
        BY <3>3, <2>1
      <4>2. r[i] = s[i]
        BY <4>1, Zenon
      <4>3. s[i] \in P[i]
        BY <3>3, <2>2, Zenon
      <4> QED  BY <4>2, <4>3, Zenon
    <3> QED  BY <3>1, <3>2, <3>3, Zenon
  <2>6. ASSUME NEW i \in 0..(m + 1)
        PROVE  r[i] = IF i = 0 THEN x ELSE F[<<i, r[i - 1]>>]
    <3>1. i = m + 1 \/ i \in 0..m
      BY <2>1
    <3>2. CASE i = m + 1
      <4>1. r[i - 1] = s[m] /\ i # 0
        BY <3>2, <2>1
      <4> QED  BY <3>2, <4>1, Zenon
    <3>3. CASE i \in 0..m /\ i # 0
      <4>1. i # m + 1 /\ i - 1 # m + 1 /\ i - 1 \in 0..(m + 1)
        BY <3>3, <2>1
      <4>2. r[i] = s[i] /\ r[i - 1] = s[i - 1]
        BY <4>1, Zenon
      <4>3. s[i] = F[<<i, s[i - 1]>>]
        <5>1. s[i] = IF i = 0 THEN x ELSE F[<<i, s[i - 1]>>]
          BY <3>3, <2>2, Zenon
        <5> QED  BY <5>1, <3>3, Zenon
      <4> QED  BY <3>3, <4>2, <4>3, Zenon
    <3>4. CASE i = 0
      <4>1. r[0] = s[0]
        BY <2>1
      <4>2. s[0] = x
        <5>1. 0 \in 0..m
          BY <2>1
        <5> QED  BY <5>1, <2>2, Zenon
      <4> QED  BY <3>4, <4>1, <4>2, Zenon
    <3> QED  BY <3>1, <3>2, <3>3, <3>4, Zenon
  <2>7. r = [i \in 0..(m + 1) |-> IF i = 0 THEN x ELSE F[<<i, r[i - 1]>>]]
    <3>1. r = [i \in 0..(m + 1) |-> r[i]]
      BY Zenon
    <3> HIDE DEF r
    <3> QED  BY <3>1, <2>6, Zenon
  <2> HIDE DEF r
  <2>8. Run(m + 1, r)
    BY <2>5, <2>7, Zenon
  <2> HIDE DEF Run
  <2> QED  BY <2>8, Zenon
<1> HIDE DEF Run
<1>3. T = Nat
  <2> HIDE DEF T
  <2>1. T \in SUBSET Nat
    BY Zenon DEF T
  <2> QED  BY <1>1, <1>2, <2>1, Induction, Zenon
<1>4. \E s : Run(n, s)
  BY <1>3
<1>5. PICK s : Run(n, s)
  BY <1>4, Zenon
<1>6. IsRun(n, x, F, s) /\ \A i \in 0..n : s[i] \in P[i]
  BY <1>5, Zenon DEF Run, IsRun
<1> QED
  BY <1>6, Zenon
-----------------------------------------------------------------------------
(* What the operations of a coins cache do to what is read through it, for *)
(* every set of outpoints, every cache and every base.                     *)

\* Adding a coin the way the callers of AddCoin do (overwrite is set whenever
\* the coin may exist) changes what is read at that outpoint only, and keeps
\* the meaning of the flags: a coin whose spend is not yet written is never
\* taken for new.
THEOREM AddCoinSound ==
  ASSUME NEW base \in Base, NEW mid \in Cache, NEW o \in Outpoints,
         NEW coin \in Coins, NEW overwrite \in BOOLEAN,
         Sound(mid, base),
         ~overwrite => Peek(mid, base)[o] = NoCoin
  PROVE  /\ ~AddCoinThrows(mid, o, overwrite)
         /\ Sound(AddCoin(mid, o, coin, overwrite), base)
         /\ Peek(AddCoin(mid, o, coin, overwrite), base)
              = [Peek(mid, base) EXCEPT ![o] = coin]
<1> DEFINE new == AddCoin(mid, o, coin, overwrite)
<1>1. /\ DOMAIN new = DOMAIN mid \cup {o}
      /\ new[o].coin = coin /\ new[o].dirty = TRUE
      /\ new[o].fresh = ((~overwrite /\ ~(o \in DOMAIN mid /\ mid[o].dirty))
                           \/ (o \in DOMAIN mid /\ mid[o].fresh))
      /\ \A p \in DOMAIN mid : p # o => new[p] = mid[p]
  BY Zenon DEF AddCoin, Put
<1>2. ~AddCoinThrows(mid, o, overwrite)
  BY Zenon DEF AddCoinThrows, Peek
<1> HIDE DEF new
<1>3. Sound(new, base)
  <2> SUFFICES ASSUME NEW p \in DOMAIN new
               PROVE  /\ new[p].coin = NoCoin => new[p].dirty /\ ~new[p].fresh
                      /\ new[p].fresh => new[p].dirty /\ base[p] = NoCoin
                      /\ ~new[p].dirty => new[p].coin = base[p]
    BY Zenon DEF Sound
  <2>1. CASE p # o
    BY <2>1, <1>1, Zenon DEF Sound
  <2>2. CASE p = o
    <3>1. new[o].fresh => base[o] = NoCoin
      BY <1>1, Zenon DEF Sound, Peek
    <3> QED  BY <2>2, <3>1, <1>1, Zenon DEF Coins
  <2> QED  BY <2>1, <2>2, Zenon
<1>4. Peek(new, base) = [Peek(mid, base) EXCEPT ![o] = coin]
  BY <1>1, Zenon DEF Peek
<1> QED  BY <1>2, <1>3, <1>4, Zenon DEF new

\* Spending a coin removes it from what is read and leaves every other coin,
\* whether the entry is dropped (FRESH), cleared, or was only in the base.
THEOREM SpendCoinSound ==
  ASSUME NEW base \in Base, NEW mid \in Cache, NEW o \in Outpoints,
         Sound(mid, base)
  PROVE  /\ Sound(SpendCoin(mid, base, o), base)
         /\ Peek(SpendCoin(mid, base, o), base)
              = [Peek(mid, base) EXCEPT ![o] = NoCoin]
<1> DEFINE c == FetchCoin(mid, base, o)
           new == SpendCoin(mid, base, o)
<1>1. /\ Sound(c, base)
      /\ Peek(c, base) = Peek(mid, base)
      /\ o \notin DOMAIN c => Peek(mid, base)[o] = NoCoin
  BY Zenon DEF FetchCoin, Put, Sound, Peek, Base
<1>2. CASE o \notin DOMAIN c
  <2>1. new = c
    BY <1>2, Zenon DEF SpendCoin
  <2>2. Peek(mid, base) = [Peek(mid, base) EXCEPT ![o] = NoCoin]
    BY <1>1, <1>2, Zenon DEF Peek
  <2> QED  BY <2>1, <2>2, <1>1, Zenon
<1>3. CASE o \in DOMAIN c /\ c[o].fresh
  <2>1. DOMAIN new = DOMAIN c \ {o} /\ \A p \in DOMAIN new : new[p] = c[p]
    BY <1>3, Zenon DEF SpendCoin, Drop
  <2>2. base[o] = NoCoin
    BY <1>3, <1>1, Zenon DEF Sound
  <2> HIDE DEF new, c
  <2>3. Sound(new, base)
    BY <2>1, <1>1, Zenon DEF Sound
  <2>4. Peek(new, base) = [Peek(c, base) EXCEPT ![o] = NoCoin]
    BY <2>1, <2>2, Zenon DEF Peek
  <2> QED  BY <2>3, <2>4, <1>1, Zenon DEF new
<1>4. CASE o \in DOMAIN c /\ ~c[o].fresh
  <2>1. /\ DOMAIN new = DOMAIN c \cup {o}
        /\ new[o].coin = NoCoin /\ new[o].dirty = TRUE /\ new[o].fresh = FALSE
        /\ \A p \in DOMAIN c : p # o => new[p] = c[p]
    BY <1>4, Zenon DEF SpendCoin, Put
  <2> HIDE DEF new, c
  <2>2. Sound(new, base)
    BY <2>1, <1>1, Zenon DEF Sound
  <2>3. Peek(new, base) = [Peek(c, base) EXCEPT ![o] = NoCoin]
    BY <2>1, Zenon DEF Peek
  <2> QED  BY <2>2, <2>3, <1>1, Zenon DEF new
<1> QED  BY <1>2, <1>3, <1>4, Zenon

\* Flushing a view to the cache below it (ConnectTip, DisconnectTip) cannot
\* throw, changes nothing that is read, and leaves the lower cache's flags
\* with their meaning.
THEOREM FlushIsInvisible ==
  ASSUME NEW base \in Base, NEW parent \in Cache, NEW child \in Cache,
         Sound(parent, base), Sound(child, Peek(parent, base))
  PROVE  /\ ~BatchWriteThrows(parent, child)
         /\ Sound(BatchWrite(parent, child), base)
         /\ Peek(BatchWrite(parent, child), base) = Peek(child, Peek(parent, base))
<1> DEFINE new == BatchWrite(parent, child)
           mid == Peek(parent, base)
<1>1. DOMAIN parent \subseteq Outpoints /\ DOMAIN child \subseteq Outpoints
  BY Zenon DEF Cache
<1>2. \A p \in Outpoints : mid[p] = IF p \in DOMAIN parent THEN parent[p].coin ELSE base[p]
  BY Zenon DEF Peek
<1>3. ~BatchWriteThrows(parent, child)
  BY <1>1, <1>2, Zenon DEF BatchWriteThrows, Sound, Dirty
<1>4. /\ DOMAIN new = (DOMAIN parent \cup Dirty(child)) \ BatchDrops(parent, child)
      /\ \A p \in DOMAIN new : p \notin Dirty(child) => new[p] = parent[p]
      /\ \A p \in DOMAIN new : p \in Dirty(child) =>
           /\ new[p].coin = child[p].coin /\ new[p].dirty = TRUE
           /\ new[p].fresh = IF p \in DOMAIN parent THEN parent[p].fresh ELSE child[p].fresh
  BY Zenon DEF BatchWrite
<1> HIDE DEF new, mid
<1>5. Sound(new, base)
  <2> SUFFICES ASSUME NEW p \in DOMAIN new
               PROVE  /\ new[p].coin = NoCoin => new[p].dirty /\ ~new[p].fresh
                      /\ new[p].fresh => new[p].dirty /\ base[p] = NoCoin
                      /\ ~new[p].dirty => new[p].coin = base[p]
    BY Zenon DEF Sound
  <2>1. CASE p \notin Dirty(child)
    BY <2>1, <1>4, Zenon DEF Sound
  <2>2. CASE p \in Dirty(child)
    <3>1. p \in Outpoints /\ p \in DOMAIN child /\ p \notin BatchDrops(parent, child)
      BY <2>2, <1>1, <1>4, Zenon DEF Dirty
    <3>2. new[p].coin = NoCoin => ~new[p].fresh
      BY <2>2, <3>1, <1>4, Zenon DEF BatchDrops
    <3>3. new[p].fresh => base[p] = NoCoin
      BY <2>2, <3>1, <1>4, <1>2, Zenon DEF Sound, mid
    <3> QED  BY <2>2, <3>2, <3>3, <1>4, Zenon
  <2> QED  BY <2>1, <2>2, Zenon
<1>6. ASSUME NEW p \in Outpoints
      PROVE  (IF p \in DOMAIN new THEN new[p].coin ELSE base[p])
               = (IF p \in DOMAIN child THEN child[p].coin ELSE mid[p])
  <2>1. CASE p \notin Dirty(child)
    <3>1. p \in DOMAIN new <=> p \in DOMAIN parent
      BY <2>1, <1>4, Zenon DEF BatchDrops
    <3>2. p \in DOMAIN child => child[p].coin = mid[p]
      BY <2>1, Zenon DEF Sound, Dirty, mid
    <3> QED  BY <3>1, <3>2, <2>1, <1>4, <1>2, Zenon
  <2>2. CASE p \in Dirty(child) /\ p \notin BatchDrops(parent, child)
    BY <2>2, <1>4, Zenon DEF Dirty
  <2>3. CASE p \in BatchDrops(parent, child)
    <3>1. p \in DOMAIN child /\ child[p].coin = NoCoin /\ p \notin DOMAIN new
      BY <2>3, <1>4, Zenon DEF BatchDrops, Dirty
    <3>2. p \in DOMAIN parent /\ parent[p].fresh
      BY <2>3, <3>1, Zenon DEF BatchDrops, Sound
    <3>3. base[p] = NoCoin
      BY <3>2, Zenon DEF Sound
    <3> QED  BY <3>1, <3>3, Zenon
  <2> QED  BY <2>1, <2>2, <2>3, Zenon
<1>7. Peek(new, base) = Peek(child, mid)
  BY <1>6, Zenon DEF Peek
<1> QED  BY <1>3, <1>5, <1>7, Zenon DEF new, mid

\* A batch of any of the dirty entries changes nothing that is read through
\* the cache, so a reader never sees a partly written database.
THEOREM BatchIsInvisible ==
  ASSUME NEW db \in Base, NEW mid \in Cache, NEW S \in SUBSET Dirty(mid)
  PROVE  Peek(mid, DbWrite(db, mid, S)) = Peek(mid, db)
  BY Zenon DEF Peek, DbWrite, Dirty

\* When every dirty entry is written, the database alone holds what was read
\* through the cache, and what Sync keeps of the cache agrees with it.
THEOREM SyncWritesEverything ==
  ASSUME NEW db \in Base, NEW mid \in Cache, Sound(mid, db)
  PROVE  /\ DbWrite(db, mid, Dirty(mid)) = Peek(mid, db)
         /\ Sound(AfterSync(mid), DbWrite(db, mid, Dirty(mid)))
<1> DEFINE new == DbWrite(db, mid, Dirty(mid))
<1>1. DOMAIN mid \subseteq Outpoints
  BY Zenon DEF Cache
<1>2. new = Peek(mid, db)
  BY Zenon DEF DbWrite, Peek, Dirty, Sound
<1>3. \A o \in DOMAIN AfterSync(mid) :
        /\ o \in DOMAIN mid
        /\ mid[o].dirty => mid[o].coin # NoCoin
        /\ AfterSync(mid)[o] = [coin |-> mid[o].coin, dirty |-> FALSE, fresh |-> FALSE]
  BY Zenon DEF AfterSync
<1>4. \A o \in DOMAIN mid : new[o] = mid[o].coin
  BY <1>1, <1>2, Zenon DEF Peek
<1> HIDE DEF new
<1>5. Sound(AfterSync(mid), new)
  BY <1>3, <1>4 DEF Sound
<1> QED  BY <1>2, <1>5, Zenon DEF new

-----------------------------------------------------------------------------
(* Every operation of a cache gives a cache.                               *)

\* A function from outpoints to entries is a cache.
LEMMA CacheIntro ==
  ASSUME NEW c, DOMAIN c \subseteq Outpoints, c \in [DOMAIN c -> Entry]
  PROVE  c \in Cache
  BY Zenon DEF Cache

\* A cache is a function from outpoints to entries.
LEMMA CacheElim ==
  ASSUME NEW c \in Cache
  PROVE  DOMAIN c \subseteq Outpoints /\ c \in [DOMAIN c -> Entry]
  BY Zenon DEF Cache

\* What is read through a cache over a base is itself a base.
LEMMA PeekType ==
  ASSUME NEW c \in Cache, NEW base \in Base
  PROVE  Peek(c, base) \in Base
<1>1. DOMAIN c \subseteq Outpoints /\ \A o \in DOMAIN c : c[o] \in Entry
  BY CacheElim, Zenon
<1>2. \A o \in DOMAIN c : c[o].coin \in Nat
  BY <1>1, Zenon DEF Entry
<1> QED  BY <1>2, Zenon DEF Peek, Base

\* Setting an entry gives a cache.
LEMMA PutType ==
  ASSUME NEW c \in Cache, NEW o \in Outpoints, NEW e \in Entry
  PROVE  Put(c, o, e) \in Cache
<1>1. DOMAIN c \subseteq Outpoints /\ c \in [DOMAIN c -> Entry]
  BY CacheElim, Zenon
<1>2. Put(c, o, e) \in [DOMAIN c \cup {o} -> Entry]
  BY <1>1, Zenon DEF Put
<1> QED  BY <1>1, <1>2, Zenon DEF Cache

\* Dropping an entry gives a cache.
LEMMA DropType ==
  ASSUME NEW c \in Cache, NEW o
  PROVE  Drop(c, o) \in Cache
<1>1. DOMAIN c \subseteq Outpoints /\ c \in [DOMAIN c -> Entry]
  BY CacheElim, Zenon
<1>2. Drop(c, o) \in [DOMAIN c \ {o} -> Entry]
  BY <1>1, Zenon DEF Drop
<1> QED  BY <1>1, <1>2, Zenon DEF Cache

\* The empty cache shows its base.
LEMMA NoCacheIs ==
  /\ NoCache \in Cache
  /\ DOMAIN NoCache = {}
  /\ \A base : Sound(NoCache, base)
  /\ \A base \in Base : Peek(NoCache, base) = base
<1>1. DOMAIN NoCache = {} /\ NoCache \in [{} -> Entry]
  BY Zenon DEF NoCache
<1>2. NoCache \in Cache
  BY <1>1, Zenon DEF Cache
<1>3. \A base : Sound(NoCache, base)
  BY <1>1, Zenon DEF Sound
<1>4. \A base \in Base : Peek(NoCache, base) = base
  BY <1>1, Zenon DEF Peek, Base
<1> QED  BY <1>1, <1>2, <1>3, <1>4, Zenon

\* Copying coins of the base into the cache changes nothing that is read.
LEMMA FetchAllIs ==
  ASSUME NEW c \in Cache, NEW base \in Base, NEW S \in SUBSET Outpoints, Sound(c, base)
  PROVE  /\ FetchAll(c, base, S) \in Cache
         /\ Sound(FetchAll(c, base, S), base)
         /\ Peek(FetchAll(c, base, S), base) = Peek(c, base)
<1> DEFINE f == FetchAll(c, base, S)
<1>1. DOMAIN c \subseteq Outpoints /\ c \in [DOMAIN c -> Entry]
  BY CacheElim, Zenon
<1>2. /\ DOMAIN f = DOMAIN c \cup {p \in S : base[p] # NoCoin}
      /\ \A o \in DOMAIN c : f[o] = c[o]
      /\ \A o \in DOMAIN f : o \notin DOMAIN c =>
           o \in S /\ base[o] # NoCoin
           /\ f[o] = [coin |-> base[o], dirty |-> FALSE, fresh |-> FALSE]
  BY Zenon DEF FetchAll
<1>3. f = [o \in DOMAIN f |-> f[o]]
  BY Zenon DEF FetchAll
<1> HIDE DEF f
<1> DEFINE new(o) == [coin |-> base[o], dirty |-> FALSE, fresh |-> FALSE]
<1>9. \A o \in DOMAIN f : o \in DOMAIN c \/ (o \in Outpoints /\ base[o] # NoCoin /\ f[o] = new(o))
  BY <1>2, Zenon
<1>10. \A o \in Outpoints : /\ new(o).coin = base[o] /\ ~new(o).dirty /\ ~new(o).fresh
                            /\ new(o) \in Entry
  BY Zenon DEF Entry, Base
<1> HIDE DEF new
<1>4. \A o \in DOMAIN f : f[o] \in Entry
  BY <1>1, <1>2, <1>9, <1>10, Zenon
<1>5. DOMAIN f \subseteq Outpoints
  BY <1>1, <1>2, Zenon
<1>6. f \in Cache
  BY <1>3, <1>4, <1>5, CacheIntro, Zenon
<1>7. Sound(f, base)
  <2> SUFFICES ASSUME NEW o \in DOMAIN f
               PROVE  /\ f[o].coin = NoCoin => f[o].dirty /\ ~f[o].fresh
                      /\ f[o].fresh => f[o].dirty /\ base[o] = NoCoin
                      /\ ~f[o].dirty => f[o].coin = base[o]
    BY Zenon DEF Sound
  <2>1. CASE o \in DOMAIN c
    BY <2>1, <1>2, Zenon DEF Sound
  <2>2. CASE o \notin DOMAIN c
    BY <2>2, <1>9, <1>10, Zenon
  <2> QED  BY <2>1, <2>2, Zenon
<1>8. Peek(f, base) = Peek(c, base)
  <2>1. \A o \in Outpoints : (IF o \in DOMAIN f THEN f[o].coin ELSE base[o])
                               = (IF o \in DOMAIN c THEN c[o].coin ELSE base[o])
    BY <1>2, <1>9, <1>10, Zenon
  <2> QED  BY <2>1, Zenon DEF Peek
<1> QED  BY <1>6, <1>7, <1>8, Zenon DEF f

\* Fetching one coin changes nothing that is read.
LEMMA FetchCoinIs ==
  ASSUME NEW c \in Cache, NEW base \in Base, NEW o \in Outpoints, Sound(c, base)
  PROVE  /\ FetchCoin(c, base, o) \in Cache
         /\ Sound(FetchCoin(c, base, o), base)
         /\ Peek(FetchCoin(c, base, o), base) = Peek(c, base)
<1>1. FetchCoin(c, base, o) \in Cache
  <2>1. [coin |-> base[o], dirty |-> FALSE, fresh |-> FALSE] \in Entry
    BY Zenon DEF Entry, Base
  <2> QED  BY <2>1, PutType, Zenon DEF FetchCoin
<1>2. /\ Sound(FetchCoin(c, base, o), base)
      /\ Peek(FetchCoin(c, base, o), base) = Peek(c, base)
  BY Zenon DEF FetchCoin, Put, Sound, Peek, Base
<1> QED  BY <1>1, <1>2, Zenon

\* AddCoin gives a cache.
LEMMA AddCoinType ==
  ASSUME NEW c \in Cache, NEW o \in Outpoints, NEW coin \in Nat, NEW overwrite \in BOOLEAN
  PROVE  AddCoin(c, o, coin, overwrite) \in Cache
<1> DEFINE held == o \in DOMAIN c
           fr == (~overwrite /\ ~(held /\ c[o].dirty)) \/ (held /\ c[o].fresh)
<1>1. fr \in BOOLEAN
  BY Zenon
<1> HIDE DEF fr
<1>2. [coin |-> coin, dirty |-> TRUE, fresh |-> fr] \in Entry
  BY <1>1, Zenon DEF Entry
<1>3. Put(c, o, [coin |-> coin, dirty |-> TRUE, fresh |-> fr]) \in Cache
  BY <1>2, PutType, Zenon
<1> QED  BY <1>3, Zenon DEF AddCoin, fr

\* SpendCoin gives a cache.
LEMMA SpendCoinType ==
  ASSUME NEW c \in Cache, NEW base \in Base, NEW o \in Outpoints, Sound(c, base)
  PROVE  SpendCoin(c, base, o) \in Cache
<1> DEFINE f == FetchCoin(c, base, o)
<1>1. f \in Cache
  BY FetchCoinIs, Zenon
<1>2. [coin |-> NoCoin, dirty |-> TRUE, fresh |-> FALSE] \in Entry
  BY Zenon DEF Entry, NoCoin
<1> HIDE DEF f
<1>3. Drop(f, o) \in Cache /\ Put(f, o, [coin |-> NoCoin, dirty |-> TRUE, fresh |-> FALSE]) \in Cache
  BY <1>1, <1>2, DropType, PutType, Zenon
<1> QED  BY <1>1, <1>3, Zenon DEF SpendCoin, f

\* Dropping an unmodified entry changes nothing that is read.
LEMMA UncacheIs ==
  ASSUME NEW c \in Cache, NEW base \in Base, NEW o \in Outpoints, Sound(c, base)
  PROVE  /\ Uncache(c, o) \in Cache
         /\ Sound(Uncache(c, o), base)
         /\ Peek(Uncache(c, o), base) = Peek(c, base)
<1>1. Uncache(c, o) \in Cache
  BY DropType, Zenon DEF Uncache
<1>2. Sound(Uncache(c, o), base)
  BY Zenon DEF Uncache, Drop, Sound
<1>3. Peek(Uncache(c, o), base) = Peek(c, base)
  BY Zenon DEF Uncache, Drop, Sound, Peek
<1> QED  BY <1>1, <1>2, <1>3, Zenon

\* BatchWrite into a parent cache gives a cache.
LEMMA BatchWriteType ==
  ASSUME NEW parent \in Cache, NEW child \in Cache
  PROVE  BatchWrite(parent, child) \in Cache
<1> DEFINE new == BatchWrite(parent, child)
<1>1. /\ DOMAIN parent \subseteq Outpoints /\ DOMAIN child \subseteq Outpoints
      /\ \A o \in DOMAIN parent : parent[o] \in Entry
      /\ \A o \in DOMAIN child : child[o] \in Entry
  BY CacheElim, Zenon
<1>2. /\ DOMAIN new = (DOMAIN parent \cup Dirty(child)) \ BatchDrops(parent, child)
      /\ new = [o \in DOMAIN new |-> new[o]]
      /\ \A p \in DOMAIN new : new[p] =
           IF p \notin Dirty(child) THEN parent[p]
           ELSE [coin |-> child[p].coin, dirty |-> TRUE,
                 fresh |-> IF p \in DOMAIN parent THEN parent[p].fresh ELSE child[p].fresh]
  BY Zenon DEF BatchWrite
<1> HIDE DEF new
<1>3. ASSUME NEW p \in DOMAIN new PROVE new[p] \in Entry
  <2>1. CASE p \notin Dirty(child)
    BY <2>1, <1>1, <1>2, Zenon
  <2>2. CASE p \in Dirty(child)
    <3>1. child[p] \in Entry
      BY <2>2, <1>1, Zenon DEF Dirty
    <3> DEFINE fr == IF p \in DOMAIN parent THEN parent[p].fresh ELSE child[p].fresh
               co == child[p].coin
    <3>2. fr \in BOOLEAN /\ co \in Nat
      BY <3>1, <1>1, Zenon DEF Entry
    <3>3. new[p] = [coin |-> co, dirty |-> TRUE, fresh |-> fr]
      BY <2>2, <1>2, Zenon
    <3> HIDE DEF fr, co
    <3> QED  BY <3>2, <3>3 DEF Entry
  <2> QED  BY <2>1, <2>2, Zenon
<1>4. DOMAIN new \subseteq Outpoints
  BY <1>1, <1>2, Zenon DEF Dirty
<1>5. new \in [DOMAIN new -> Entry]
  BY <1>2, <1>3, Zenon
<1>6. new \in Cache
  BY <1>4, <1>5, CacheIntro, Zenon
<1> QED  BY <1>6, Zenon DEF new

\* What Sync leaves is a cache.
LEMMA AfterSyncType ==
  ASSUME NEW c \in Cache
  PROVE  AfterSync(c) \in Cache
<1>1. DOMAIN c \subseteq Outpoints /\ \A o \in DOMAIN c : c[o].coin \in Nat
  BY CacheElim, Zenon DEF Entry
<1>2. AfterSync(c) \in [DOMAIN AfterSync(c) -> Entry] /\ DOMAIN AfterSync(c) \subseteq DOMAIN c
  BY <1>1, Zenon DEF AfterSync, Entry
<1> QED  BY <1>1, <1>2, CacheIntro, Zenon

-----------------------------------------------------------------------------
(* The block tree.                                                         *)

\* The recursive function Ancestors is defined on every block of the index.
LEMMA AncestorsAre ==
  /\ Ancestors[Genesis] = {Genesis}
  /\ \A b \in Blocks : Ancestors[b] = {b} \cup Ancestors[Parent[b]]
<1>e. \E f : f = [b \in Index |-> IF b = Genesis THEN {b} ELSE {b} \cup f[Parent[b]]]
  <2> DEFINE Closed(S) == S \in SUBSET Index /\ \A x \in S : x # Genesis => Parent[x] \in S
             A(b) == {a \in Index : \A S : Closed(S) /\ b \in S => a \in S}
             f == [b \in Index |-> A(b)]
  <2>1. \A b \in Index : b # Genesis => b \in Blocks /\ Parent[b] \in Index
    BY TreeAssumption, Zenon DEF Index
  <2>2. ASSUME NEW b \in Index, b = Genesis PROVE A(b) = {b}
    <3>1. Closed({Genesis})
      BY Zenon DEF Index
    <3> HIDE DEF Closed
    <3> QED  BY <3>1, <2>2, Zenon
  <2>3. ASSUME NEW b \in Index, b # Genesis PROVE A(b) = {b} \cup A(Parent[b])
    <3>1. ASSUME NEW a \in A(b), a # b, NEW S, Closed(S), Parent[b] \in S
          PROVE  a \in S
      <4>1. Closed(S \cup {b})
        BY <2>3, <3>1, Zenon
      <4> HIDE DEF Closed
      <4>2. a \in S \cup {b}
        BY <4>1, Zenon
      <4> QED  BY <4>2, <3>1, Zenon
    <3>2. ASSUME NEW a \in A(Parent[b]), NEW S, Closed(S), b \in S
          PROVE  a \in S
      <4>1. Parent[b] \in S
        BY <2>3, <3>2, Zenon
      <4> HIDE DEF Closed
      <4> QED  BY <4>1, <3>2, Zenon
    <3> HIDE DEF Closed
    <3>3. A(b) \subseteq {b} \cup A(Parent[b])
      BY <3>1, Zenon
    <3>4. A(Parent[b]) \subseteq A(b)
      BY <3>2, Zenon
    <3>5. b \in A(b)
      BY Zenon
    <3> HIDE DEF A
    <3> QED  BY <3>3, <3>4, <3>5, Zenon
  <2> HIDE DEF A
  <2>4. ASSUME NEW b \in Index
        PROVE  f[b] = IF b = Genesis THEN {b} ELSE {b} \cup f[Parent[b]]
    BY <2>1, <2>2, <2>3, Zenon
  <2>5. f = [b \in Index |-> f[b]]
    BY Zenon
  <2> HIDE DEF f
  <2>6. f = [b \in Index |-> IF b = Genesis THEN {b} ELSE {b} \cup f[Parent[b]]]
    BY <2>4, <2>5, Zenon
  <2> QED  BY <2>6, Zenon
<1> DEFINE Is(f) == f = [b \in Index |-> IF b = Genesis THEN {b} ELSE {b} \cup f[Parent[b]]]
<1>1. \E f : Is(f)
  BY <1>e, Zenon
<1>2. Ancestors = CHOOSE f : Is(f)
  BY Zenon DEF Ancestors
<1> HIDE DEF Is
<1>3. Is(Ancestors)
  BY <1>1, <1>2, Zenon
<1>4. \A b \in Index : Ancestors[b] = IF b = Genesis THEN {b} ELSE {b} \cup Ancestors[Parent[b]]
  BY <1>3, Zenon DEF Is
<1> QED  BY <1>4, TreeAssumption, Zenon DEF Index

\* A chain has exactly one block at every height up to its tip's, and the chain
\* of each of its blocks is part of it.
Chain(b) ==
  /\ Ancestors[b] \subseteq Index
  /\ b \in Ancestors[b] /\ Genesis \in Ancestors[b]
  /\ \A a \in Ancestors[b] : Height[a] <= Height[b] /\ Ancestors[a] \subseteq Ancestors[b]
  /\ \A a, c \in Ancestors[b] : Height[a] = Height[c] => a = c
  /\ \A h \in 0..Height[b] : \E a \in Ancestors[b] : Height[a] = h

\* The ancestors of a block are a chain, one block for each height.
LEMMA AncestorsChain == ASSUME WellOrdered PROVE \A b \in Index : Chain(b)
<1> DEFINE T == {n \in Nat : \A b \in Index : Height[b] = n => Chain(b)}
<1>0. /\ Genesis \in Index /\ Blocks \subseteq Index
      /\ \A b \in Index : Height[b] \in Nat
      /\ \A b \in Index : b = Genesis \/ b \in Blocks
      /\ \A b \in Blocks : Parent[b] \in Index /\ Height[b] = Height[Parent[b]] + 1
      /\ Height[Genesis] = 0
  BY TreeAssumption, Zenon DEF Index
<1>1. 0 \in T
  <2> SUFFICES ASSUME NEW b \in Index, Height[b] = 0 PROVE Chain(b)
    BY Zenon
  <2>1. b = Genesis
    BY <1>0
  <2> QED  BY <2>1, <1>0, AncestorsAre DEF Chain
<1>2. ASSUME NEW n \in T PROVE n + 1 \in T
  <2> SUFFICES ASSUME NEW b \in Index, Height[b] = n + 1 PROVE Chain(b)
    OBVIOUS
  <2>1. n \in Nat /\ \A c \in Index : Height[c] = n => Chain(c)
    BY Zenon
  <2>2. b \in Blocks /\ Parent[b] \in Index /\ Height[Parent[b]] = n
    BY <1>0, <2>1
  <2> DEFINE p == Parent[b]
  <2>3. Chain(p)
    BY <2>1, <2>2, Zenon
  <2>4. Ancestors[b] = {b} \cup Ancestors[p]
    BY <2>2, AncestorsAre, Zenon
  <2> HIDE DEF p
  <2>5. /\ Ancestors[p] \subseteq Index /\ Genesis \in Ancestors[p]
        /\ \A a \in Ancestors[p] : Height[a] <= n /\ Ancestors[a] \subseteq Ancestors[p]
        /\ \A a, c \in Ancestors[p] : Height[a] = Height[c] => a = c
        /\ \A h \in 0..n : \E a \in Ancestors[p] : Height[a] = h
    BY <2>2, <2>3, Zenon DEF Chain, p
  <2>6. \A a \in Ancestors[b] : Height[a] <= Height[b] /\ Ancestors[a] \subseteq Ancestors[b]
    BY <2>1, <2>4, <2>5, <1>0
  <2>7. \A a, c \in Ancestors[b] : Height[a] = Height[c] => a = c
    BY <2>1, <2>4, <2>5, <1>0
  <2>8. \A h \in 0..Height[b] : \E a \in Ancestors[b] : Height[a] = h
    <3> SUFFICES ASSUME NEW h \in 0..Height[b] PROVE \E a \in Ancestors[b] : Height[a] = h
      BY Zenon
    <3>1. h = Height[b] \/ h \in 0..n
      BY <2>1
    <3> QED  BY <3>1, <2>4, <2>5, Zenon
  <2> QED  BY <2>4, <2>5, <2>6, <2>7, <2>8, Zenon DEF Chain
<1>3. T = Nat
  <2> HIDE DEF T
  <2>1. T \in SUBSET Nat
    BY Zenon DEF T
  <2> QED  BY <1>1, <1>2, <2>1, Induction, Zenon
<1> QED  BY <1>3, <1>0, Zenon

\* The branch of a block is its ancestors without the genesis block.
LEMMA BranchIs ==
  ASSUME WellOrdered
  PROVE  /\ Branch(NoBlock) = {} /\ Branch(Genesis) = {}
         /\ \A b \in Index : Branch(b) = Ancestors[b] \ {Genesis} /\ Branch(b) \subseteq Blocks
         /\ \A b \in Blocks : Branch(b) = {b} \cup Branch(Parent[b]) /\ Parent[b] \in Index
<1>1. Genesis \in Index /\ NoBlock \notin Index /\ Blocks \subseteq Index /\ Genesis \notin Blocks
  BY TreeAssumption, Zenon DEF Index
<1>2. \A b \in Index : Branch(b) = Ancestors[b] \ {Genesis}
  BY <1>1, Zenon DEF Branch
<1>3. \A b \in Index : Branch(b) \subseteq Blocks
  BY <1>2, AncestorsChain DEF Chain, Index
<1>4. Branch(NoBlock) = {} /\ Branch(Genesis) = {}
  BY <1>1, AncestorsAre, Zenon DEF Branch
<1>5. \A b \in Blocks : Parent[b] \in Index
  BY TreeAssumption, Zenon
<1>6. \A b \in Blocks : Branch(b) = {b} \cup Branch(Parent[b])
  BY <1>1, <1>2, <1>5, AncestorsAre
<1> QED  BY <1>2, <1>3, <1>4, <1>5, <1>6, Zenon

\* GetAncestor finds the ancestor at a height.
LEMMA GetAncestorIs ==
  ASSUME WellOrdered, NEW b \in Index, NEW h \in 0..Height[b]
  PROVE  /\ GetAncestor(b, h) \in Ancestors[b] /\ Height[GetAncestor(b, h)] = h
         /\ \A a \in Ancestors[b] : Height[a] = h => a = GetAncestor(b, h)
<1>1. \E a \in Ancestors[b] : Height[a] = h
  BY AncestorsChain, Zenon DEF Chain
<1>2. GetAncestor(b, h) \in Ancestors[b] /\ Height[GetAncestor(b, h)] = h
  BY <1>1, Zenon DEF GetAncestor
<1> QED  BY <1>2, AncestorsChain DEF Chain

\* The ancestor at the next height is a child of the one before.
LEMMA GetAncestorStep ==
  ASSUME WellOrdered, NEW b \in Index, NEW h \in 1..Height[b]
  PROVE  /\ GetAncestor(b, h) \in Blocks
         /\ GetAncestor(b, h) \in Branch(b)
         /\ Parent[GetAncestor(b, h)] = GetAncestor(b, h - 1)
<1> DEFINE a == GetAncestor(b, h)
<1>1. Height[b] \in Nat /\ h \in 0..Height[b] /\ h - 1 \in 0..Height[b]
  BY TreeAssumption
<1>2. a \in Ancestors[b] /\ Height[a] = h
  BY <1>1, GetAncestorIs, Zenon
<1> HIDE DEF a
<1>3. a # Genesis /\ a \in Index
  BY <1>2, AncestorsChain, TreeAssumption DEF Chain
<1>4. a \in Blocks /\ a \in Branch(b)
  BY <1>2, <1>3, BranchIs, Zenon DEF Index
<1>5. Parent[a] \in Index /\ Height[Parent[a]] = h - 1
  BY <1>2, <1>4, TreeAssumption
<1>6. Parent[a] \in Ancestors[a] /\ Ancestors[a] \subseteq Ancestors[b]
  BY <1>2, <1>4, <1>5, AncestorsAre, AncestorsChain DEF Chain
<1>7. Parent[a] = GetAncestor(b, h - 1)
  BY <1>1, <1>5, <1>6, GetAncestorIs, Zenon
<1> QED  BY <1>4, <1>7, Zenon DEF a

\* LastCommonAncestor finds an ancestor of both.
LEMMA LastCommonAncestorIs ==
  ASSUME WellOrdered, NEW b \in Index, NEW c \in Index
  PROVE  LastCommonAncestor(b, c) \in Ancestors[b] \cap Ancestors[c]
<1> DEFINE common == Ancestors[b] \cap Ancestors[c]
           T == {Height[b] - Height[a] : a \in common}
<1>1. Genesis \in common /\ common \subseteq Index /\ \A a \in common : Height[a] <= Height[b]
  BY AncestorsChain, Zenon DEF Chain
<1>2. Height[b] \in Nat /\ \A a \in common : Height[a] \in Nat
  BY <1>1, TreeAssumption, Zenon
<1> HIDE DEF common
<1>3. T \in SUBSET Nat /\ T # {}
  BY <1>1, <1>2
<1>4. PICK m \in T : \A k \in T : m <= k
  <2> HIDE DEF T
  <2> QED  BY <1>3, Zenon DEF WellOrdered
<1>5. PICK a \in common : m = Height[b] - Height[a]
  BY <1>4, Zenon
<1>6. \A d \in common : Height[d] <= Height[a]
  <2> SUFFICES ASSUME NEW d \in common PROVE Height[d] <= Height[a]
    BY Zenon
  <2>1. Height[b] - Height[d] \in T
    BY Zenon
  <2>2. m <= Height[b] - Height[d]
    BY <2>1, <1>4, Zenon
  <2> HIDE DEF T
  <2> QED  BY <2>2, <1>5, <1>2
<1>7. \E x \in common : \A d \in common : Height[d] <= Height[x]
  BY <1>6, Zenon
<1> QED  BY <1>7, Zenon DEF LastCommonAncestor, common

-----------------------------------------------------------------------------
(* What a block does to the unspent outputs.                               *)

SpentIn(b, Q) == {o \in Outpoints : \E i \in Q : Ops[b][i].kind = "spend" /\ Ops[b][i].o = o}
AddedIn(b, Q) == {o \in Outpoints : \E i \in Q : Ops[b][i].kind = "add" /\ Ops[b][i].o = o}

\* The inputs and outputs Q of b fit the unspent outputs u: none is spent twice,
\* what is made is not there and is spent only later, and what is spent and not
\* made is there.
Fits(b, Q, u) ==
  /\ NoOverwrite(b, u)
  /\ \A i, j \in Q : Ops[b][i].kind = "spend" /\ Ops[b][j].kind = "spend"
                       /\ Ops[b][i].o = Ops[b][j].o => i = j
  /\ \A i, j \in Q : Ops[b][i].kind = "add" /\ Ops[b][j].kind = "spend"
                       /\ Ops[b][i].o = Ops[b][j].o => i < j
  /\ \A o \in SpentIn(b, Q) \ AddedIn(b, Q) : u[o] # NoCoin

\* u with the inputs and outputs Q of b applied, and with them undone.
Applied(b, Q, u) ==
  [o \in Outpoints |-> IF o \in SpentIn(b, Q) THEN NoCoin
                       ELSE IF o \in AddedIn(b, Q) THEN Height[b] ELSE u[o]]

UndoOf(b, Q, u) ==
  [o \in SpentIn(b, Q) |-> IF o \in AddedIn(b, Q) THEN Height[b] ELSE u[o]]

\* The operations of a block are a sequence of operations on outpoints.
LEMMA OpsAre ==
  ASSUME NEW b \in Blocks
  PROVE  /\ Len(Ops[b]) \in Nat /\ DOMAIN Ops[b] = 1..Len(Ops[b])
         /\ \A i \in DOMAIN Ops[b] : /\ Ops[b][i].o \in Outpoints /\ Ops[b][i].cb \in BOOLEAN
                                     /\ Ops[b][i].kind = "spend" \/ Ops[b][i].kind = "add"
         /\ Height[b] \in Coins
<1>1. Ops[b] \in Seq(Op)
  BY OpsAssumption, Zenon
<1>2. Len(Ops[b]) \in Nat /\ DOMAIN Ops[b] = 1..Len(Ops[b]) /\ \A i \in DOMAIN Ops[b] : Ops[b][i] \in Op
  BY <1>1
<1>3. Height[b] \in Coins
  BY TreeAssumption DEF Index, Coins, NoCoin
<1> QED  BY <1>2, <1>3, Zenon DEF Op

\* What one more operation adds to the outpoints spent and added.
LEMMA InGrows ==
  ASSUME NEW b \in Blocks, NEW Q \in SUBSET DOMAIN Ops[b], NEW k \in DOMAIN Ops[b]
  PROVE  /\ SpentIn(b, Q \cup {k}) = IF Ops[b][k].kind = "spend" THEN SpentIn(b, Q) \cup {Ops[b][k].o}
                                                                 ELSE SpentIn(b, Q)
         /\ AddedIn(b, Q \cup {k}) = IF Ops[b][k].kind = "add" THEN AddedIn(b, Q) \cup {Ops[b][k].o}
                                                               ELSE AddedIn(b, Q)
<1>1. Ops[b][k].o \in Outpoints
  BY OpsAre, Zenon
<1>2. SpentIn(b, Q \cup {k}) = IF Ops[b][k].kind = "spend" THEN SpentIn(b, Q) \cup {Ops[b][k].o}
                                                           ELSE SpentIn(b, Q)
  BY <1>1, Zenon DEF SpentIn
<1>3. AddedIn(b, Q \cup {k}) = IF Ops[b][k].kind = "add" THEN AddedIn(b, Q) \cup {Ops[b][k].o}
                                                         ELSE AddedIn(b, Q)
  BY <1>1, Zenon DEF AddedIn
<1> QED  BY <1>2, <1>3, Zenon

\* No operations spend or add nothing.
LEMMA InNone ==
  ASSUME NEW b
  PROVE  SpentIn(b, {}) = {} /\ AddedIn(b, {}) = {}
  BY Zenon DEF SpentIn, AddedIn

\* All the operations of a block together touch what the block touches.
LEMMA InAll ==
  ASSUME NEW b \in Blocks
  PROVE  Touched(b) = SpentIn(b, DOMAIN Ops[b]) \cup AddedIn(b, DOMAIN Ops[b])
  BY OpsAre, Zenon DEF Touched, SpentIn, AddedIn

\* The unspent outputs of a chain follow from its parent's, block by block.
LEMMA UtxoStep ==
  ASSUME WellOrdered, NEW b \in Blocks, Fits(b, DOMAIN Ops[b], Utxo(Parent[b]))
  PROVE  Utxo(b) = Applied(b, DOMAIN Ops[b], Utxo(Parent[b]))
<1>k. ASSUME NEW o \in Touched(b)
      PROVE  LastUse(b, o).kind = IF o \in SpentIn(b, DOMAIN Ops[b]) THEN "spend" ELSE "add"
  <2> USE <1>k
  <2> DEFINE D == DOMAIN Ops[b]
             Last(i) == Ops[b][i].o = o /\ \A j \in D : Ops[b][j].o = o => j <= i
  <2>0. D = 1..Len(Ops[b]) /\ Len(Ops[b]) \in Nat
    BY OpsAre, Zenon
  <2>1. \A i, j \in D : Last(i) /\ Last(j) => i = j
    <3> SUFFICES ASSUME NEW i \in D, NEW j \in D, Last(i), Last(j) PROVE i = j
      BY Zenon
    <3>1. i <= j /\ j <= i
      BY Zenon
    <3> HIDE DEF Last
    <3> QED  BY <3>1, <2>0
  <2>2. ASSUME NEW i \in D, Last(i) PROVE LastUse(b, o) = Ops[b][i]
    <3> DEFINE c == CHOOSE j \in D : Last(j)
    <3>0. c \in D /\ Last(c)
      <4> HIDE DEF Last, D
      <4> QED  BY <2>2, Zenon
    <3>1. c = i
      <4> HIDE DEF Last, D, c
      <4> QED  BY <2>1, <2>2, <3>0, Zenon
    <3>2. LastUse(b, o) = Ops[b][c]
      BY Zenon DEF LastUse
    <3> QED  BY <3>1, <3>2, Zenon
  <2>3. CASE o \in SpentIn(b, D)
    <3>1. PICK i \in D : Ops[b][i].kind = "spend" /\ Ops[b][i].o = o
      BY <2>3, Zenon DEF SpentIn
    <3>2. ASSUME NEW j \in D, Ops[b][j].o = o PROVE j <= i
      <4>1. Ops[b][j].kind = "spend" \/ Ops[b][j].kind = "add"
        BY OpsAre, Zenon
      <4>2. j = i \/ j < i
        BY <3>1, <3>2, <4>1, Zenon DEF Fits
      <4> QED  BY <4>2, <2>0
    <3>3. Last(i)
      BY <3>1, <3>2, Zenon
    <3> HIDE DEF Last
    <3> QED  BY <2>2, <2>3, <3>1, <3>3, Zenon
  <2>4. CASE o \notin SpentIn(b, D)
    <3>1. PICK i \in D : Ops[b][i].o = o
      BY Zenon DEF Touched
    <3>2. \A j \in D : Ops[b][j].o = o => Ops[b][j].kind = "add"
      BY <2>4, OpsAre, Zenon DEF SpentIn
    <3>3. ASSUME NEW j \in D, Ops[b][j].o = o PROVE j <= i
      <4>1. j = i
        BY <3>1, <3>2, <3>3, OpsAssumption, Zenon
      <4> QED  BY <4>1, <2>0
    <3>4. Last(i)
      BY <3>1, <3>3, Zenon
    <3> HIDE DEF Last
    <3> QED  BY <2>2, <2>4, <3>1, <3>2, <3>4, Zenon
  <2> QED  BY <2>3, <2>4, Zenon
<1>l. ASSUME NEW o \in Touched(b)
      PROVE  Users(b, o) # {} /\ LastUser(b, o) = b
  <2> USE <1>l
  <2>1. b \in Index /\ Branch(b) \subseteq Ancestors[b] /\ b \in Branch(b)
    BY BranchIs DEF Index
  <2>2. b \in Users(b, o) /\ Users(b, o) \subseteq Ancestors[b]
    BY <2>1, Zenon DEF Users
  <2>3. \A c \in Users(b, o) : Height[c] <= Height[b] /\ Height[c] \in Nat /\ (Height[c] = Height[b] => c = b)
    BY <2>1, <2>2, AncestorsChain, TreeAssumption, Zenon DEF Chain
  <2> DEFINE Top(a) == \A c \in Users(b, o) : Height[c] <= Height[a]
  <2>4. Top(b)
    BY <2>3, Zenon
  <2>5. \A a \in Users(b, o) : Top(a) => a = b
    <3> SUFFICES ASSUME NEW a \in Users(b, o), Top(a) PROVE a = b
      BY Zenon
    <3>1. Height[b] <= Height[a]
      BY <2>2, Zenon
    <3> HIDE DEF Top
    <3> QED  BY <3>1, <2>2, <2>3
  <2>6. LastUser(b, o) = CHOOSE a \in Users(b, o) : Top(a)
    BY Zenon DEF LastUser
  <2> HIDE DEF Top
  <2>7. LastUser(b, o) = b
    BY <2>2, <2>4, <2>5, <2>6, Zenon
  <2> QED  BY <2>2, <2>7, Zenon
<1> DEFINE D == DOMAIN Ops[b]
           u == Utxo(Parent[b])
<1>1. ASSUME NEW o \in Outpoints
      PROVE  Utxo(b)[o] = IF o \in SpentIn(b, D) THEN NoCoin
                          ELSE IF o \in AddedIn(b, D) THEN Height[b] ELSE u[o]
  <2>1. CASE o \in Touched(b)
    <3>1. Users(b, o) # {} /\ LastUser(b, o) = b
      BY <2>1, <1>l, Zenon
    <3>2. Utxo(b)[o] = IF LastUse(b, o).kind = "add" THEN Height[b] ELSE NoCoin
      BY <3>1, Zenon DEF Utxo
    <3>3. LastUse(b, o).kind = IF o \in SpentIn(b, D) THEN "spend" ELSE "add"
      BY <2>1, <1>k, Zenon
    <3>4. o \in SpentIn(b, D) \/ o \in AddedIn(b, D)
      BY <2>1, InAll, Zenon
    <3> HIDE DEF D, u
    <3> QED  BY <3>2, <3>3, <3>4, Zenon
  <2>2. CASE o \notin Touched(b)
    <3>1. Users(b, o) = Users(Parent[b], o)
      BY <2>2, BranchIs, Zenon DEF Users
    <3>2. LastUser(b, o) = LastUser(Parent[b], o)
      BY <3>1, Zenon DEF LastUser
    <3>3. Utxo(b)[o] = u[o]
      BY <3>1, <3>2, Zenon DEF Utxo
    <3>4. o \notin SpentIn(b, D) /\ o \notin AddedIn(b, D)
      BY <2>2, InAll, Zenon
    <3> HIDE DEF D, u
    <3> QED  BY <3>3, <3>4, Zenon
  <2> QED  BY <2>1, <2>2, Zenon
<1>2. Utxo(b) = [o \in Outpoints |-> Utxo(b)[o]]
  BY Zenon DEF Utxo
<1> QED  BY <1>1, <1>2, Zenon DEF Applied

\* The blocks of a chain all fit.
Good(b) == \A a \in Branch(b) : Fits(a, DOMAIN Ops[a], Utxo(Parent[a]))

\* After the genesis block nothing is unspent.
LEMMA UtxoEmpty ==
  ASSUME WellOrdered, NEW b \in {Genesis, NoBlock}
  PROVE  Utxo(b) = [o \in Outpoints |-> NoCoin]
<1>1. \A o : Users(b, o) = {}
  BY BranchIs, Zenon DEF Users
<1> QED  BY <1>1, Zenon DEF Utxo

\* The unspent outputs after a good chain are a base.
LEMMA UtxoType ==
  ASSUME WellOrdered, NEW b \in Index \cup {NoBlock}, Good(b)
  PROVE  Utxo(b) \in Base
<1>1. ASSUME NEW c \in {Genesis, NoBlock} PROVE Utxo(c) \in Base
  <2>1. [o \in Outpoints |-> NoCoin] \in Base
    BY Zenon DEF Base, NoCoin
  <2> QED  BY <2>1, <1>1, UtxoEmpty, Zenon
<1> DEFINE T == {n \in Nat : \A c \in Index : Height[c] = n /\ Good(c) => Utxo(c) \in Base}
<1>2. \A c \in Index : Height[c] \in Nat /\ (c = Genesis \/ c \in Blocks)
  BY TreeAssumption, Zenon DEF Index
<1>3. 0 \in T
  <2> SUFFICES ASSUME NEW c \in Index, Height[c] = 0 PROVE Utxo(c) \in Base
    BY Zenon
  <2>1. c = Genesis
    BY <1>2, TreeAssumption
  <2> QED  BY <2>1, <1>1, Zenon
<1>4. ASSUME NEW n \in T PROVE n + 1 \in T
  <2> SUFFICES ASSUME NEW c \in Index, Height[c] = n + 1, Good(c) PROVE Utxo(c) \in Base
    OBVIOUS
  <2>1. n \in Nat /\ \A d \in Index : Height[d] = n /\ Good(d) => Utxo(d) \in Base
    BY Zenon
  <2>2. c \in Blocks /\ Parent[c] \in Index /\ Height[Parent[c]] = n
    BY <1>2, <2>1, TreeAssumption
  <2>3. Good(Parent[c]) /\ Fits(c, DOMAIN Ops[c], Utxo(Parent[c]))
    BY <2>2, BranchIs, SMTT(30) DEF Good
  <2>4. Utxo(Parent[c]) \in Base
    BY <2>1, <2>2, <2>3, Zenon
  <2>5. Utxo(c) = Applied(c, DOMAIN Ops[c], Utxo(Parent[c]))
    BY <2>2, <2>3, UtxoStep, Zenon
  <2>6. Height[c] \in Nat /\ NoCoin \in Nat
    BY <1>2, Zenon DEF NoCoin
  <2> DEFINE u == Utxo(Parent[c])
  <2> HIDE DEF u
  <2>7. Applied(c, DOMAIN Ops[c], u) \in Base
    BY <2>4, <2>6, Zenon DEF Applied, Base, u
  <2> QED  BY <2>5, <2>7, Zenon DEF u
<1>5. T = Nat
  <2> HIDE DEF T
  <2>1. T \in SUBSET Nat
    BY Zenon DEF T
  <2> QED  BY <1>3, <1>4, <2>1, Induction, Zenon
<1> QED  BY <1>1, <1>2, <1>5, Zenon

-----------------------------------------------------------------------------
(* ConnectBlock.                                                           *)

Undo == UNION {[S -> Nat] : S \in SUBSET Outpoints}
ConnectState == [view : Cache, undo : Undo, ok : BOOLEAN, throws : BOOLEAN]

\* After the inputs and outputs Q of b, unless b was refused.
Connecting(b, Q, u, s) ==
  s.ok => /\ ~s.throws /\ Sound(s.view, u)
          /\ Fits(b, Q, u)
          /\ Peek(s.view, u) = Applied(b, Q, u)
          /\ s.undo = UndoOf(b, Q, u)

\* ConnectBlock accepts only a block that fits, gives exactly its effect and the
\* coins it spent, and never throws.
LEMMA ConnectBlockIs ==
  ASSUME WellOrdered, NEW b \in Blocks, NEW u \in Base, ConnectBlock(b, u).ok
  PROVE  /\ ConnectBlock(b, u).view \in Cache /\ Sound(ConnectBlock(b, u).view, u)
         /\ ~ConnectBlock(b, u).throws
         /\ Fits(b, DOMAIN Ops[b], u)
         /\ Peek(ConnectBlock(b, u).view, u) = Applied(b, DOMAIN Ops[b], u)
         /\ ConnectBlock(b, u).undo = UndoOf(b, DOMAIN Ops[b], u)
<1>a. ASSUME NEW i \in DOMAIN Ops[b],
             Ops[b][i].kind = "spend", Fits(b, 1..(i - 1), u),
             Applied(b, 1..(i - 1), u)[Ops[b][i].o] # NoCoin
      PROVE  /\ Fits(b, 1..i, u)
             /\ Applied(b, 1..i, u) = [Applied(b, 1..(i - 1), u) EXCEPT ![Ops[b][i].o] = NoCoin]
             /\ UndoOf(b, 1..i, u) = Put(UndoOf(b, 1..(i - 1), u), Ops[b][i].o,
                                         Applied(b, 1..(i - 1), u)[Ops[b][i].o])
  <2> USE <1>a
  <2> DEFINE o == Ops[b][i].o
             Q == 1..(i - 1)
             R == 1..i
  <2>0. /\ i \in Nat /\ i >= 1 /\ R = Q \cup {i} /\ Q \in SUBSET DOMAIN Ops[b] /\ o \in Outpoints
        /\ \A j \in Q : j < i /\ j \in Nat
    BY OpsAre
  <2> HIDE DEF Q, R
  <2>1. SpentIn(b, R) = SpentIn(b, Q) \cup {o} /\ AddedIn(b, R) = AddedIn(b, Q)
    BY <2>0, InGrows, Zenon
  <2>2. o \notin SpentIn(b, Q) /\ Applied(b, Q, u)[o] = IF o \in AddedIn(b, Q) THEN Height[b] ELSE u[o]
    BY <2>0, Zenon DEF Applied, Q
  <2>3. Fits(b, R, u)
    <3>1. /\ NoOverwrite(b, u)
          /\ \A k, j \in Q : Ops[b][k].kind = "spend" /\ Ops[b][j].kind = "spend"
                               /\ Ops[b][k].o = Ops[b][j].o => k = j
          /\ \A k, j \in Q : Ops[b][k].kind = "add" /\ Ops[b][j].kind = "spend"
                               /\ Ops[b][k].o = Ops[b][j].o => k < j
          /\ \A p \in SpentIn(b, Q) \ AddedIn(b, Q) : u[p] # NoCoin
      BY Zenon DEF Fits, Q
    <3>2. \A j \in Q : Ops[b][j].kind = "spend" => Ops[b][j].o # o
      BY <2>0, <2>2, Zenon DEF SpentIn
    <3>3. \A k, j \in R : Ops[b][k].kind = "spend" /\ Ops[b][j].kind = "spend"
                            /\ Ops[b][k].o = Ops[b][j].o => k = j
      BY <2>0, <3>1, <3>2, Zenon
    <3>4. \A k, j \in R : Ops[b][k].kind = "add" /\ Ops[b][j].kind = "spend"
                            /\ Ops[b][k].o = Ops[b][j].o => k < j
      BY <2>0, <3>1, SMTT(30)
    <3>5. \A p \in SpentIn(b, R) \ AddedIn(b, R) : u[p] # NoCoin
      BY <2>1, <2>2, <3>1, Zenon DEF Q
    <3> QED  BY <3>1, <3>3, <3>4, <3>5, Zenon DEF Fits
  <2>4. Applied(b, R, u) = [Applied(b, Q, u) EXCEPT ![o] = NoCoin]
    BY <2>1, <2>0, ZenonT(30) DEF Applied
  <2>5. UndoOf(b, R, u) = Put(UndoOf(b, Q, u), o, Applied(b, Q, u)[o])
    BY <2>1, <2>2, Zenon DEF UndoOf, Put
  <2> QED  BY <2>3, <2>4, <2>5, Zenon DEF Q, R
<1>b. ASSUME NEW i \in DOMAIN Ops[b],
             Ops[b][i].kind = "add", Fits(b, 1..(i - 1), u)
      PROVE  /\ Fits(b, 1..i, u)
             /\ Applied(b, 1..(i - 1), u)[Ops[b][i].o] = NoCoin
             /\ Applied(b, 1..i, u) = [Applied(b, 1..(i - 1), u) EXCEPT ![Ops[b][i].o] = Height[b]]
             /\ UndoOf(b, 1..i, u) = UndoOf(b, 1..(i - 1), u)
  <2> USE <1>b
  <2> DEFINE o == Ops[b][i].o
             Q == 1..(i - 1)
             R == 1..i
  <2>0. /\ i \in Nat /\ i >= 1 /\ R = Q \cup {i} /\ Q \in SUBSET DOMAIN Ops[b] /\ o \in Outpoints
        /\ \A j \in Q : j < i /\ j \in Nat
    BY OpsAre
  <2> HIDE DEF Q, R
  <2>1. SpentIn(b, R) = SpentIn(b, Q) /\ AddedIn(b, R) = AddedIn(b, Q) \cup {o}
    BY <2>0, InGrows, Zenon
  <2>f. /\ NoOverwrite(b, u)
        /\ \A k, j \in Q : Ops[b][k].kind = "spend" /\ Ops[b][j].kind = "spend"
                             /\ Ops[b][k].o = Ops[b][j].o => k = j
        /\ \A k, j \in Q : Ops[b][k].kind = "add" /\ Ops[b][j].kind = "spend"
                             /\ Ops[b][k].o = Ops[b][j].o => k < j
        /\ \A p \in SpentIn(b, Q) \ AddedIn(b, Q) : u[p] # NoCoin
    BY Zenon DEF Fits, Q
  <2>2. u[o] = NoCoin
    BY <2>f, Zenon DEF NoOverwrite
  <2>3. o \notin AddedIn(b, Q)
    <3> SUFFICES ASSUME NEW j \in Q, Ops[b][j].kind = "add", Ops[b][j].o = o PROVE FALSE
      BY Zenon DEF AddedIn
    <3>1. j \in DOMAIN Ops[b] /\ j # i
      BY <2>0
    <3> QED  BY <3>1, OpsAssumption, Zenon
  <2>4. o \notin SpentIn(b, Q)
    BY <2>f, <2>2, <2>3, Zenon
  <2>5. Fits(b, R, u)
    <3>1. \A j \in Q : Ops[b][j].kind = "spend" => Ops[b][j].o # o
      BY <2>0, <2>4, Zenon DEF SpentIn
    <3>3. \A k, j \in R : Ops[b][k].kind = "spend" /\ Ops[b][j].kind = "spend"
                            /\ Ops[b][k].o = Ops[b][j].o => k = j
      BY <2>0, <2>f, Zenon
    <3>4. \A k, j \in R : Ops[b][k].kind = "add" /\ Ops[b][j].kind = "spend"
                            /\ Ops[b][k].o = Ops[b][j].o => k < j
      BY <2>0, <2>f, <3>1, Zenon
    <3>5. \A p \in SpentIn(b, R) \ AddedIn(b, R) : u[p] # NoCoin
      BY <2>1, <2>f, Zenon
    <3> QED  BY <2>f, <3>3, <3>4, <3>5, Zenon DEF Fits
  <2>6. Applied(b, Q, u)[o] = NoCoin
    BY <2>0, <2>2, <2>3, <2>4, Zenon DEF Applied
  <2>7. Applied(b, R, u) = [Applied(b, Q, u) EXCEPT ![o] = Height[b]]
    BY <2>1, <2>0, <2>4, Zenon DEF Applied
  <2>8. UndoOf(b, R, u) = UndoOf(b, Q, u)
    BY <2>1, <2>4, Zenon DEF UndoOf
  <2> QED  BY <2>5, <2>6, <2>7, <2>8, Zenon DEF Q, R
<1>c. ASSUME NEW i \in DOMAIN Ops[b],
             NEW s \in ConnectState, Connecting(b, 1..(i - 1), u, s)
      PROVE  /\ ConnectOp(s, Ops[b][i], u, Height[b]) \in ConnectState
             /\ Connecting(b, 1..i, u, ConnectOp(s, Ops[b][i], u, Height[b]))
  <2> USE <1>c
  <2> DEFINE op == Ops[b][i]
             o == op.o
             r == ConnectOp(s, op, u, Height[b])
             Q == 1..(i - 1)
             R == 1..i
             coin == Peek(s.view, u)[o]
  <2>0. /\ o \in Outpoints /\ op.cb \in BOOLEAN /\ (op.kind = "spend" \/ op.kind = "add")
        /\ Height[b] \in Coins /\ Height[b] \in Nat
    BY OpsAre, Zenon DEF Coins
  <2>s. s.view \in Cache /\ s.undo \in Undo /\ s.throws \in BOOLEAN /\ s.ok \in BOOLEAN
    BY Zenon DEF ConnectState
  <2>1. CASE ~s.ok
    <3>1. r = s
      BY <2>1, Zenon DEF ConnectOp
    <3> QED  BY <2>1, <3>1, Zenon DEF Connecting
  <2>2. CASE s.ok /\ op.kind = "spend"
    <3>1. r = [s EXCEPT !.ok = coin # NoCoin, !.undo = Put(@, o, coin), !.view = SpendCoin(@, u, o)]
      BY <2>2, Zenon DEF ConnectOp
    <3>2. /\ Sound(s.view, u) /\ Fits(b, Q, u) /\ ~s.throws
          /\ Peek(s.view, u) = Applied(b, Q, u) /\ s.undo = UndoOf(b, Q, u)
      BY <2>2, Zenon DEF Connecting
    <3>3. SpendCoin(s.view, u, o) \in Cache
      BY <2>0, <2>s, <3>2, SpendCoinType, Zenon
    <3>4. /\ Sound(SpendCoin(s.view, u, o), u)
          /\ Peek(SpendCoin(s.view, u, o), u) = [Peek(s.view, u) EXCEPT ![o] = NoCoin]
      BY <2>0, <2>s, <3>2, SpendCoinSound, Zenon
    <3>5. coin \in Nat
      BY <2>0, <2>s, PeekType, Zenon DEF Base
    <3>6. Put(s.undo, o, coin) \in Undo
      <4>1. PICK S \in SUBSET Outpoints : s.undo \in [S -> Nat]
        BY <2>s, ZenonT(30) DEF Undo
      <4> HIDE DEF coin
      <4>2. Put(s.undo, o, coin) \in [S \cup {o} -> Nat]
        BY <4>1, <3>5, Zenon DEF Put
      <4> QED  BY <4>2, <2>0, Zenon DEF Undo
    <3> DEFINE v == SpendCoin(s.view, u, o)
               d == Put(s.undo, o, coin)
               k == coin # NoCoin
    <3>7. r = [s EXCEPT !.ok = k, !.undo = d, !.view = v]
      BY <3>1, Zenon
    <3>8. k \in BOOLEAN /\ d \in Undo /\ v \in Cache
      BY <3>3, <3>6, Zenon
    <3>9. k => Fits(b, R, u) /\ Peek(v, u) = Applied(b, R, u) /\ d = UndoOf(b, R, u)
      BY <2>2, <3>2, <3>4, <1>a, ZenonT(30)
    <3>10. Sound(v, u)
      BY <3>4, Zenon
    <3> HIDE DEF v, d, k, r, op, Q, R
    <3>11. /\ r \in ConnectState /\ r.ok = k /\ r.undo = d /\ r.view = v /\ r.throws = s.throws
      BY <3>7, <3>8, Zenon DEF ConnectState
    <3> QED  BY <3>2, <3>9, <3>10, <3>11, Zenon DEF Connecting, r, op, R
  <2>3. CASE s.ok /\ op.kind = "add"
    <3> DEFINE v == AddCoin(s.view, o, Height[b], op.cb)
               k == s.throws \/ AddCoinThrows(s.view, o, op.cb)
    <3>1. r = [s EXCEPT !.throws = k, !.view = v]
      BY <2>3, <2>s, Zenon DEF ConnectOp
    <3>2. /\ Sound(s.view, u) /\ Fits(b, Q, u) /\ ~s.throws
          /\ Peek(s.view, u) = Applied(b, Q, u) /\ s.undo = UndoOf(b, Q, u)
      BY <2>3, ZenonT(30) DEF Connecting
    <3>3. /\ Fits(b, R, u) /\ Applied(b, Q, u)[o] = NoCoin
          /\ Applied(b, R, u) = [Applied(b, Q, u) EXCEPT ![o] = Height[b]]
          /\ UndoOf(b, R, u) = UndoOf(b, Q, u)
      BY <2>3, <3>2, <1>b, Zenon
    <3>4. Peek(s.view, u)[o] = NoCoin
      BY <3>2, <3>3, ZenonT(30)
    <3>5. ~k /\ Sound(v, u) /\ Peek(v, u) = [Peek(s.view, u) EXCEPT ![o] = Height[b]]
      BY <2>0, <2>s, <3>2, <3>4, AddCoinSound, SMTT(30)
    <3>6. v \in Cache
      BY <2>0, <2>s, AddCoinType, Zenon
    <3>7. Peek(v, u) = Applied(b, R, u)
      BY <3>2, <3>3, <3>5, Zenon
    <3>8. k \in BOOLEAN
      BY <2>s, Zenon DEF AddCoinThrows
    <3> HIDE DEF v, k, r, op, Q, R
    <3>9. r \in ConnectState /\ r.ok = s.ok /\ r.undo = s.undo /\ r.view = v /\ r.throws = k
      BY <3>1, <3>6, <3>8, <2>s, Zenon DEF ConnectState
    <3> QED  BY <3>2, <3>3, <3>5, <3>7, <3>9, Zenon DEF Connecting, r, op, R
  <2> QED  BY <2>0, <2>1, <2>2, <2>3, Zenon
<1> DEFINE n == Len(Ops[b])
           h == Height[b]
           x == [view |-> NoCache, undo |-> NoCache, ok |-> NoOverwrite(b, u), throws |-> FALSE]
           P == [i \in 0..n |-> {s \in ConnectState : Connecting(b, 1..i, u, s)}]
           F == [p \in (1..n) \X ConnectState |-> ConnectOp(p[2], Ops[b][p[1]], u, h)]
           Is(s) == s = [i \in 0..n |-> IF i = 0 THEN x ELSE ConnectOp(s[i - 1], Ops[b][i], u, h)]
           c == CHOOSE s : Is(s)
<1>0. n \in Nat /\ DOMAIN Ops[b] = 1..n
  BY OpsAre, Zenon
<1>1. x \in P[0]
  <2>1. NoCache \in Undo
    BY Zenon DEF NoCache, Undo
  <2>2. x \in ConnectState
    <3>1. NoOverwrite(b, u) \in BOOLEAN
      BY Zenon DEF NoOverwrite
    <3> QED  BY <2>1, <3>1, NoCacheIs, Zenon DEF ConnectState
  <2>3. 1..0 = {}
    OBVIOUS
  <2>4. SpentIn(b, {}) = {} /\ AddedIn(b, {}) = {}
    BY InNone, Zenon
  <2>5. Applied(b, {}, u) = u /\ UndoOf(b, {}, u) = NoCache
    BY <2>4, Zenon DEF Applied, UndoOf, NoCache, Base
  <2>6. NoOverwrite(b, u) => Fits(b, {}, u)
    BY <2>4, Zenon DEF Fits
  <2>7. Connecting(b, 1..0, u, x)
    BY <2>3, <2>5, <2>6, NoCacheIs, Zenon DEF Connecting
  <2> QED  BY <1>0, <2>2, <2>7, SMTT(30)
<1>2. ASSUME NEW i \in 1..n, NEW y \in P[i - 1]
      PROVE  ConnectOp(y, Ops[b][i], u, h) \in P[i] /\ y \in ConnectState
  <2>1. i - 1 \in 0..n /\ i \in 0..n /\ i \in DOMAIN Ops[b]
    BY <1>0
  <2>2. y \in ConnectState /\ Connecting(b, 1..(i - 1), u, y)
    BY <2>1, Zenon
  <2>3. /\ ConnectOp(y, Ops[b][i], u, h) \in ConnectState
        /\ Connecting(b, 1..i, u, ConnectOp(y, Ops[b][i], u, h))
    BY <2>1, <2>2, <1>c, Zenon
  <2> QED  BY <2>1, <2>2, <2>3, ZenonT(30)
<1> HIDE DEF x, P, h
<1>3. \E s : Is(s)
  <2>1. \A i \in 1..n : \A y \in P[i - 1] : F[<<i, y>>] = ConnectOp(y, Ops[b][i], u, h)
    BY <1>2, Zenon
  <2> HIDE DEF F
  <2>2. \A i \in 1..n : \A y \in P[i - 1] : F[<<i, y>>] \in P[i]
    BY <1>2, <2>1, Zenon
  <2>3. PICK s : IsRun(n, x, F, s) /\ \A i \in 0..n : s[i] \in P[i]
    BY <1>0, <1>1, <2>2, LoopRuns, Zenon
  <2>4. \A i \in 0..n : i # 0 => i \in 1..n /\ i - 1 \in 0..n
    BY <1>0
  <2>5. ASSUME NEW i \in 0..n
        PROVE  s[i] = IF i = 0 THEN x ELSE ConnectOp(s[i - 1], Ops[b][i], u, h)
    <3>1. s[i] = IF i = 0 THEN x ELSE F[<<i, s[i - 1]>>]
      BY <2>3, Zenon DEF IsRun
    <3> QED  BY <3>1, <2>1, <2>3, <2>4, Zenon
  <2>6. s = [i \in 0..n |-> s[i]]
    BY <2>3, Zenon DEF IsRun
  <2>7. Is(s)
    BY <2>5, <2>6, Zenon
  <2> HIDE DEF Is
  <2> QED  BY <2>7, Zenon
<1>4. Is(c)
  <2> HIDE DEF Is
  <2> QED  BY <1>3, Zenon
<1>5. ConnectOps(b, u) = c[n]
  BY Zenon DEF ConnectOps, x, h
<1> HIDE DEF c
<1>6. \A i \in 0..n : c[i] = IF i = 0 THEN x ELSE ConnectOp(c[i - 1], Ops[b][i], u, h)
  BY <1>4, Zenon
<1> HIDE DEF Is
<1>7. c[0] \in P[0] /\ \A i \in 1..n : c[i - 1] \in P[i - 1] => c[i] \in P[i]
  <2>1. 0 \in 0..n /\ \A i \in 1..n : i \in 0..n /\ i # 0
    BY <1>0
  <2> QED  BY <1>1, <1>2, <1>6, <2>1, Zenon
<1>8. c[n] \in P[n]
  <2>1. \A i \in 0..n : c[i] \in P[i]
    BY <1>0, <1>7, LoopKeeps, Zenon
  <2>2. n \in 0..n
    BY <1>0
  <2> QED  BY <2>1, <2>2, Zenon
<1>9. c[n] \in ConnectState /\ Connecting(b, DOMAIN Ops[b], u, c[n])
  BY <1>0, <1>8 DEF P
<1> DEFINE q == ConnectOps(b, u)
           e == ConnectBlock(b, u)
<1>10. e.view = q.view /\ e.undo = q.undo /\ e.throws = q.throws /\ (e.ok => q.ok)
  BY <1>5, <1>9, Zenon DEF ConnectBlock, ConnectState
<1> QED  BY <1>5, <1>9, <1>10, Zenon DEF Connecting, ConnectState

-----------------------------------------------------------------------------
(* DisconnectBlock, on any view of the coins.                              *)

DisconnectState == [view : Cache, clean : BOOLEAN]

\* v with the inputs and outputs Q of b undone; b fitted u.
Undone(b, Q, u, v) ==
  [o \in Outpoints |-> IF o \in AddedIn(b, Q) THEN NoCoin
                       ELSE IF o \in SpentIn(b, Q) THEN UndoOf(b, DOMAIN Ops[b], u)[o] ELSE v[o]]

Undoing(b, Q, u, base, v, s) ==
  /\ Sound(s.view, base)
  /\ Peek(s.view, base) = Undone(b, Q, u, v)
  /\ v = Applied(b, DOMAIN Ops[b], u) => s.clean

\* Whatever mixture of coins a view holds, DisconnectBlock leaves the outpoints
\* the block touched as they were before it, and no other changed; on the coins
\* after the block it finds every one of them as the block left it.
LEMMA DisconnectBlockIs ==
  ASSUME WellOrdered, NEW b \in Blocks, NEW u \in Base, NEW base \in Base,
         NEW c \in Cache, Sound(c, base), Fits(b, DOMAIN Ops[b], u), undo[b] = UndoOf(b, DOMAIN Ops[b], u)
  PROVE  /\ DisconnectBlock(b, c, base).view \in Cache
         /\ Sound(DisconnectBlock(b, c, base).view, base)
         /\ Peek(DisconnectBlock(b, c, base).view, base)
              = [o \in Outpoints |-> IF o \in Touched(b) THEN u[o] ELSE Peek(c, base)[o]]
         /\ Peek(c, base) = Applied(b, DOMAIN Ops[b], u) => DisconnectBlock(b, c, base).clean
<1>o. ASSUME NEW v \in Base,
             NEW k \in DOMAIN Ops[b], NEW s \in DisconnectState,
             Undoing(b, (k + 1)..Len(Ops[b]), u, base, v, s)
      PROVE  /\ DisconnectOp(s, Ops[b][k], base, b) \in DisconnectState
             /\ Undoing(b, k..Len(Ops[b]), u, base, v, DisconnectOp(s, Ops[b][k], base, b))
  <2> USE <1>o
  <2> DEFINE op == Ops[b][k]
             o == op.o
             D == DOMAIN Ops[b]
             Q == (k + 1)..Len(Ops[b])
             R == k..Len(Ops[b])
             r == DisconnectOp(s, op, base, b)
  <2>0. /\ o \in Outpoints /\ (op.kind = "spend" \/ op.kind = "add")
        /\ Height[b] \in Coins /\ Height[b] \in Nat
        /\ Q \in SUBSET D /\ R = Q \cup {k} /\ R \in SUBSET D
        /\ \A j \in Q : j > k /\ j # k /\ ~(j < k)
        /\ \A j \in D : k < j => j \in Q
    BY OpsAre, SMTT(30) DEF Coins
  <2>s. s.view \in Cache /\ s.clean \in BOOLEAN
    BY Zenon DEF DisconnectState
  <2> HIDE DEF D, Q, R
  <2>u. Sound(s.view, base) /\ Peek(s.view, base) = Undone(b, Q, u, v) /\ (v = Applied(b, D, u) => s.clean)
    BY ZenonT(30) DEF Undoing, D, Q
  <2>f. /\ \A i, j \in D : Ops[b][i].kind = "spend" /\ Ops[b][j].kind = "spend"
                             /\ Ops[b][i].o = Ops[b][j].o => i = j
        /\ \A i, j \in D : Ops[b][i].kind = "add" /\ Ops[b][j].kind = "spend"
                             /\ Ops[b][i].o = Ops[b][j].o => i < j
        /\ \A p \in SpentIn(b, D) \ AddedIn(b, D) : u[p] # NoCoin
    BY ZenonT(30) DEF Fits, D
  <2>k. k \in D
    BY Zenon DEF D
  <2>g. SpentIn(b, Q) \subseteq SpentIn(b, D)
    BY <2>0, Zenon DEF SpentIn
  <2>1. CASE op.kind = "add"
    <3> DEFINE w == SpendCoin(s.view, base, o)
               cl == s.clean /\ Peek(s.view, base)[o] = Height[b]
    <3>1. r = [view |-> w, clean |-> cl]
      BY <2>1, ZenonT(30) DEF DisconnectOp
    <3>2. w \in Cache /\ Sound(w, base) /\ Peek(w, base) = [Peek(s.view, base) EXCEPT ![o] = NoCoin]
      BY <2>0, <2>s, <2>u, SpendCoinType, SpendCoinSound, ZenonT(30)
    <3>3. AddedIn(b, R) = AddedIn(b, Q) \cup {o} /\ SpentIn(b, R) = SpentIn(b, Q)
      BY <2>0, <2>1, <2>k, InGrows, ZenonT(30) DEF D
    <3>4. Undone(b, R, u, v) = [Undone(b, Q, u, v) EXCEPT ![o] = NoCoin]
      BY <3>3, <2>0, Zenon DEF Undone
    <3>5. ASSUME v = Applied(b, D, u) PROVE Undone(b, Q, u, v)[o] = Height[b]
      <4>1. o \notin AddedIn(b, Q)
        <5> SUFFICES ASSUME NEW j \in Q, Ops[b][j].kind = "add", Ops[b][j].o = o PROVE FALSE
          BY Zenon DEF AddedIn
        <5>1. j \in DOMAIN Ops[b] /\ j # k
          BY <2>0, Zenon DEF D
        <5> QED  BY <5>1, <2>1, OpsAssumption, Zenon
      <4>2. o \in AddedIn(b, D)
        BY <2>0, <2>1, <2>k, Zenon DEF AddedIn
      <4>3. CASE o \in SpentIn(b, Q)
        <5>1. UndoOf(b, D, u)[o] = Height[b]
          BY <4>2, <4>3, <2>g, ZenonT(30) DEF UndoOf
        <5> QED  BY <4>1, <4>3, <5>1, <2>0, ZenonT(30) DEF Undone, D
      <4>4. CASE o \notin SpentIn(b, Q)
        <5>1. o \notin SpentIn(b, D)
          BY <4>4, <2>0, <2>1, <2>f, <2>k, ZenonT(30) DEF SpentIn
        <5>2. v[o] = Height[b]
          BY <3>5, <5>1, <4>2, <2>0, Zenon DEF Applied
        <5> QED  BY <4>1, <4>4, <5>2, <2>0, Zenon DEF Undone
      <4> QED  BY <4>3, <4>4, ZenonT(30)
    <3>6. v = Applied(b, D, u) => cl
      BY <3>5, <2>u, ZenonT(30)
    <3>7. cl \in BOOLEAN
      BY <2>s, Zenon
    <3>8. Peek(w, base) = Undone(b, R, u, v)
      BY <3>2, <3>4, <2>u, Zenon
    <3> HIDE DEF w, cl, r, op
    <3>9. r \in DisconnectState /\ r.view = w /\ r.clean = cl
      BY <3>1, <3>2, <3>7, Zenon DEF DisconnectState
    <3> QED  BY <3>2, <3>6, <3>8, <3>9, Zenon DEF Undoing, r, op, D, R
  <2>2. CASE op.kind = "spend"
    <3> DEFINE f == FetchCoin(s.view, base, o)
               have == Peek(f, base)[o] # NoCoin
               coin == UndoOf(b, D, u)[o]
               w == AddCoin(f, o, coin, have)
               cl == s.clean /\ ~have
    <3>1. r = [view |-> w, clean |-> cl]
      <4>1. op.kind # "add"
        BY <2>2, Zenon
      <4>2. undo[b] = UndoOf(b, D, u)
        BY Zenon DEF D
      <4>3. r = [view |-> AddCoin(f, o, undo[b][o], have), clean |-> s.clean /\ ~have]
        BY <4>1, ZenonT(30) DEF DisconnectOp
      <4> HIDE DEF f, have
      <4> QED  BY <4>2, <4>3, ZenonT(30)
    <3>2. f \in Cache /\ Sound(f, base) /\ Peek(f, base) = Peek(s.view, base)
      BY <2>0, <2>s, <2>u, FetchCoinIs, Zenon
    <3>3. o \in SpentIn(b, D)
      BY <2>0, <2>2, <2>k, ZenonT(30) DEF SpentIn
    <3>4. coin \in Coins /\ coin \in Nat
      <4>1. coin = IF o \in AddedIn(b, D) THEN Height[b] ELSE u[o]
        BY <3>3, Zenon DEF UndoOf
      <4>2. u[o] \in Nat
        BY <2>0, Zenon DEF Base
      <4>3. o \notin AddedIn(b, D) => u[o] # NoCoin
        BY <3>3, <2>f, Zenon
      <4> HIDE DEF coin
      <4> QED  BY <4>1, <4>2, <4>3, <2>0, Zenon DEF Coins
    <3>5. have \in BOOLEAN /\ (~have => Peek(f, base)[o] = NoCoin)
      BY Zenon DEF have
    <3> HIDE DEF f, have, coin
    <3>6. w \in Cache /\ Sound(w, base) /\ Peek(w, base) = [Peek(f, base) EXCEPT ![o] = coin]
      BY <2>0, <3>2, <3>4, <3>5, AddCoinType, AddCoinSound, SMTT(30)
    <3>7. AddedIn(b, R) = AddedIn(b, Q) /\ SpentIn(b, R) = SpentIn(b, Q) \cup {o}
      BY <2>0, <2>2, <2>k, InGrows, Zenon DEF D
    <3>8. o \notin AddedIn(b, Q)
      BY <2>0, <2>2, <2>f, <2>k, ZenonT(30) DEF AddedIn
    <3>9. Undone(b, R, u, v) = [Undone(b, Q, u, v) EXCEPT ![o] = coin]
      BY <3>7, <3>8, <2>0, Zenon DEF Undone, coin, D
    <3>10. ASSUME v = Applied(b, D, u) PROVE ~have
      <4>1. o \notin SpentIn(b, Q)
        BY <2>0, <2>2, <2>f, <2>k, ZenonT(30) DEF SpentIn
      <4>2. v[o] = NoCoin
        BY <3>10, <3>3, <2>0, Zenon DEF Applied
      <4>3. Undone(b, Q, u, v)[o] = NoCoin
        BY <4>1, <4>2, <3>8, <2>0, Zenon DEF Undone
      <4> QED  BY <4>3, <3>2, <2>u, Zenon DEF have
    <3>11. v = Applied(b, D, u) => cl
      BY <3>10, <2>u, Zenon
    <3>12. cl \in BOOLEAN
      BY <2>s, <3>5, Zenon
    <3>13. Peek(w, base) = Undone(b, R, u, v)
      BY <3>2, <3>6, <3>9, <2>u, ZenonT(30)
    <3> HIDE DEF w, cl, r, op
    <3>14. r \in DisconnectState /\ r.view = w /\ r.clean = cl
      BY <3>1, <3>6, <3>12, Zenon DEF DisconnectState
    <3> QED  BY <3>6, <3>11, <3>13, <3>14, Zenon DEF Undoing, r, op, D, R
  <2> QED  BY <2>0, <2>1, <2>2, Zenon
<1> DEFINE n == Len(Ops[b])
           v == Peek(c, base)
           x == [view |-> c, clean |-> TRUE]
           P == [i \in 0..n |-> {s \in DisconnectState : Undoing(b, (n + 1 - i)..n, u, base, v, s)}]
           F == [p \in (1..n) \X DisconnectState |-> DisconnectOp(p[2], Ops[b][n + 1 - p[1]], base, b)]
           Is(s) == s = [i \in 0..n |-> IF i = 0 THEN x
                                        ELSE DisconnectOp(s[i - 1], Ops[b][n + 1 - i], base, b)]
           d == CHOOSE s : Is(s)
<1>0. n \in Nat /\ DOMAIN Ops[b] = 1..n
  BY OpsAre, Zenon
<1>v. v \in Base
  BY PeekType, Zenon
<1>1. x \in P[0]
  <2>2. x \in DisconnectState
    BY Zenon DEF DisconnectState
  <2>3. (n + 1 - 0)..n = {}
    BY <1>0
  <2>4. SpentIn(b, {}) = {} /\ AddedIn(b, {}) = {}
    BY InNone, Zenon
  <2> HIDE DEF v
  <2>5. Undone(b, {}, u, v) = v
    BY <1>v, <2>4, Zenon DEF Undone, Base
  <2>6. Undoing(b, {}, u, base, v, x)
    BY <2>5, Zenon DEF Undoing, v
  <2> QED  BY <1>0, <2>2, <2>3, <2>6
<1>2. ASSUME NEW i \in 1..n, NEW y \in P[i - 1]
      PROVE  DisconnectOp(y, Ops[b][n + 1 - i], base, b) \in P[i] /\ y \in DisconnectState
  <2> DEFINE k == n + 1 - i
  <2>1. /\ i - 1 \in 0..n /\ i \in 0..n /\ k \in DOMAIN Ops[b] /\ n + 1 - (i - 1) = k + 1
    BY <1>0
  <2> HIDE DEF v, k
  <2>2. y \in DisconnectState /\ Undoing(b, (k + 1)..n, u, base, v, y)
    BY <2>1, Zenon
  <2>3. /\ DisconnectOp(y, Ops[b][k], base, b) \in DisconnectState
        /\ Undoing(b, k..n, u, base, v, DisconnectOp(y, Ops[b][k], base, b))
    BY <2>1, <2>2, <1>v, <1>o, Zenon
  <2> QED  BY <2>1, <2>2, <2>3, Zenon DEF k
<1> HIDE DEF x, P, v
<1>3. \E s : Is(s)
  <2>1. \A i \in 1..n : \A y \in P[i - 1] : F[<<i, y>>] = DisconnectOp(y, Ops[b][n + 1 - i], base, b)
    BY <1>2, Zenon
  <2> HIDE DEF F
  <2>2. \A i \in 1..n : \A y \in P[i - 1] : F[<<i, y>>] \in P[i]
    BY <1>2, <2>1, Zenon
  <2>3. PICK s : IsRun(n, x, F, s) /\ \A i \in 0..n : s[i] \in P[i]
    BY <1>0, <1>1, <2>2, LoopRuns, Zenon
  <2>4. \A i \in 0..n : i # 0 => i \in 1..n /\ i - 1 \in 0..n
    BY <1>0
  <2>5. ASSUME NEW i \in 0..n
        PROVE  s[i] = IF i = 0 THEN x ELSE DisconnectOp(s[i - 1], Ops[b][n + 1 - i], base, b)
    <3>1. s[i] = IF i = 0 THEN x ELSE F[<<i, s[i - 1]>>]
      BY <2>3, Zenon DEF IsRun
    <3> QED  BY <3>1, <2>1, <2>3, <2>4, Zenon
  <2>6. s = [i \in 0..n |-> s[i]]
    BY <2>3, Zenon DEF IsRun
  <2>7. Is(s)
    BY <2>5, <2>6, Zenon
  <2> HIDE DEF Is
  <2> QED  BY <2>7, Zenon
<1>4. Is(d)
  <2> HIDE DEF Is
  <2> QED  BY <1>3, Zenon
<1>5. DisconnectBlock(b, c, base) = d[n]
  BY Zenon DEF DisconnectBlock, x
<1> HIDE DEF d
<1>6. \A i \in 0..n : d[i] = IF i = 0 THEN x ELSE DisconnectOp(d[i - 1], Ops[b][n + 1 - i], base, b)
  BY <1>4, Zenon
<1> HIDE DEF Is
<1>7. d[0] \in P[0] /\ \A i \in 1..n : d[i - 1] \in P[i - 1] => d[i] \in P[i]
  <2>1. 0 \in 0..n /\ \A i \in 1..n : i \in 0..n /\ i # 0
    BY <1>0
  <2> QED  BY <1>1, <1>2, <1>6, <2>1, Zenon
<1>8. d[n] \in P[n]
  <2>1. \A i \in 0..n : d[i] \in P[i]
    BY <1>0, <1>7, LoopKeeps, Zenon
  <2>2. n \in 0..n
    BY <1>0, SMTT(30)
  <2> QED  BY <2>1, <2>2, Zenon
<1>9. d[n] \in DisconnectState /\ Undoing(b, DOMAIN Ops[b], u, base, v, d[n])
  <2>1. (n + 1 - n)..n = DOMAIN Ops[b] /\ n \in 0..n
    BY <1>0, SMTT(30)
  <2> QED  BY <2>1, <1>8, Zenon DEF P
<1>10. Undone(b, DOMAIN Ops[b], u, v) = [o \in Outpoints |-> IF o \in Touched(b) THEN u[o] ELSE v[o]]
  <2> DEFINE D == DOMAIN Ops[b]
  <2>1. \A o \in AddedIn(b, D) : u[o] = NoCoin
    BY Zenon DEF Fits, NoOverwrite, AddedIn
  <2>2. \A o \in SpentIn(b, D) : o \notin AddedIn(b, D) => UndoOf(b, D, u)[o] = u[o]
    BY Zenon DEF UndoOf
  <2>3. Touched(b) = SpentIn(b, D) \cup AddedIn(b, D)
    BY InAll, Zenon
  <2> QED  BY <2>1, <2>2, <2>3, Zenon DEF Undone
<1> QED  BY <1>5, <1>9, <1>10, ZenonT(30) DEF Undoing, DisconnectState, v

-----------------------------------------------------------------------------
(* RollforwardBlock, on any view of the coins.                             *)

Rolling(b, Q, base, v, c) == Sound(c, base) /\ Peek(c, base) = Applied(b, Q, v)

\* Applied to any mixture of coins, also one it was applied to before, a block
\* that fitted leaves the outpoints it touches as a first application would.
LEMMA RollforwardBlockIs ==
  ASSUME WellOrdered, NEW b \in Blocks, NEW u, NEW base \in Base, NEW c \in Cache, Sound(c, base),
         Fits(b, DOMAIN Ops[b], u)
  PROVE  /\ RollforwardBlock(b, c, base) \in Cache
         /\ Sound(RollforwardBlock(b, c, base), base)
         /\ Peek(RollforwardBlock(b, c, base), base) = Applied(b, DOMAIN Ops[b], Peek(c, base))
<1>o. ASSUME NEW v \in Base,
             NEW i \in DOMAIN Ops[b], NEW y \in Cache,
             Rolling(b, 1..(i - 1), base, v, y)
      PROVE  /\ RollforwardOp(y, Ops[b][i], base, Height[b]) \in Cache
             /\ Rolling(b, 1..i, base, v, RollforwardOp(y, Ops[b][i], base, Height[b]))
  <2> USE <1>o
  <2> DEFINE op == Ops[b][i]
             o == op.o
             D == DOMAIN Ops[b]
             Q == 1..(i - 1)
             R == 1..i
             r == RollforwardOp(y, op, base, Height[b])
  <2>0. /\ o \in Outpoints /\ (op.kind = "spend" \/ op.kind = "add")
        /\ Height[b] \in Coins /\ Height[b] \in Nat
        /\ Q \in SUBSET D /\ R = Q \cup {i} /\ \A j \in Q : ~(i < j)
    BY OpsAre DEF Coins
  <2> HIDE DEF Q, R
  <2>u. Sound(y, base) /\ Peek(y, base) = Applied(b, Q, v)
    BY Zenon DEF Rolling, Q
  <2>1. CASE op.kind = "spend"
    <3>1. r = SpendCoin(y, base, o)
      BY <2>1, Zenon DEF RollforwardOp
    <3>2. r \in Cache /\ Sound(r, base) /\ Peek(r, base) = [Peek(y, base) EXCEPT ![o] = NoCoin]
      BY <3>1, <2>0, <2>u, SpendCoinType, SpendCoinSound
    <3>3. SpentIn(b, R) = SpentIn(b, Q) \cup {o} /\ AddedIn(b, R) = AddedIn(b, Q)
      BY <2>0, <2>1, InGrows, Zenon
    <3>4. Applied(b, R, v) = [Applied(b, Q, v) EXCEPT ![o] = NoCoin]
      BY <3>3, <2>0, Zenon DEF Applied
    <3> QED  BY <3>2, <3>4, <2>u, Zenon DEF Rolling, R
  <2>2. CASE op.kind = "add"
    <3> DEFINE f == FetchCoin(y, base, o)
               have == Peek(f, base)[o] # NoCoin
    <3>1. r = AddCoin(f, o, Height[b], have)
      BY <2>2, Zenon DEF RollforwardOp
    <3>2. f \in Cache /\ Sound(f, base) /\ Peek(f, base) = Peek(y, base)
      BY <2>0, <2>u, FetchCoinIs, Zenon
    <3>3. have \in BOOLEAN /\ (~have => Peek(f, base)[o] = NoCoin)
      BY Zenon DEF have
    <3> HIDE DEF f, have
    <3>4. r \in Cache /\ Sound(r, base) /\ Peek(r, base) = [Peek(f, base) EXCEPT ![o] = Height[b]]
      BY <3>1, <3>2, <3>3, <2>0, AddCoinType, AddCoinSound
    <3>5. SpentIn(b, R) = SpentIn(b, Q) /\ AddedIn(b, R) = AddedIn(b, Q) \cup {o}
      BY <2>0, <2>2, InGrows, Zenon
    <3>6. o \notin SpentIn(b, Q)
      BY <2>0, <2>2, Zenon DEF SpentIn, Fits
    <3>7. Applied(b, R, v) = [Applied(b, Q, v) EXCEPT ![o] = Height[b]]
      BY <3>5, <3>6, <2>0, Zenon DEF Applied
    <3> QED  BY <3>2, <3>4, <3>7, <2>u, Zenon DEF Rolling, R
  <2> QED  BY <2>0, <2>1, <2>2, Zenon
<1> DEFINE n == Len(Ops[b])
           v == Peek(c, base)
           h == Height[b]
           P == [i \in 0..n |-> {y \in Cache : Rolling(b, 1..i, base, v, y)}]
           F == [p \in (1..n) \X Cache |-> RollforwardOp(p[2], Ops[b][p[1]], base, h)]
           Is(s) == s = [i \in 0..n |-> IF i = 0 THEN c ELSE RollforwardOp(s[i - 1], Ops[b][i], base, h)]
           d == CHOOSE s : Is(s)
<1>0. n \in Nat /\ DOMAIN Ops[b] = 1..n
  BY OpsAre, Zenon
<1>v. v \in Base
  BY PeekType, Zenon
<1>1. c \in P[0]
  <2>3. 1..0 = {}
    OBVIOUS
  <2>4. SpentIn(b, {}) = {} /\ AddedIn(b, {}) = {}
    BY InNone, Zenon
  <2> HIDE DEF v
  <2>5. Applied(b, {}, v) = v
    BY <1>v, <2>4, Zenon DEF Applied, Base
  <2>6. Rolling(b, 1..0, base, v, c)
    BY <2>3, <2>5, Zenon DEF Rolling, v
  <2> QED  BY <1>0, <2>6
<1>2. ASSUME NEW i \in 1..n, NEW y \in P[i - 1]
      PROVE  RollforwardOp(y, Ops[b][i], base, h) \in P[i] /\ y \in Cache
  <2>1. i - 1 \in 0..n /\ i \in 0..n /\ i \in DOMAIN Ops[b]
    BY <1>0
  <2> HIDE DEF v
  <2>2. y \in Cache /\ Rolling(b, 1..(i - 1), base, v, y)
    BY <2>1, Zenon
  <2>3. /\ RollforwardOp(y, Ops[b][i], base, h) \in Cache
        /\ Rolling(b, 1..i, base, v, RollforwardOp(y, Ops[b][i], base, h))
    BY <2>1, <2>2, <1>v, <1>o, Zenon
  <2> QED  BY <2>1, <2>2, <2>3, Zenon
<1> HIDE DEF P, v, h
<1>3. \E s : Is(s)
  <2>1. \A i \in 1..n : \A y \in P[i - 1] : F[<<i, y>>] = RollforwardOp(y, Ops[b][i], base, h)
    BY <1>2, Zenon
  <2> HIDE DEF F
  <2>2. \A i \in 1..n : \A y \in P[i - 1] : F[<<i, y>>] \in P[i]
    BY <1>2, <2>1, Zenon
  <2>3. PICK s : IsRun(n, c, F, s) /\ \A i \in 0..n : s[i] \in P[i]
    BY <1>0, <1>1, <2>2, LoopRuns, Zenon
  <2>4. \A i \in 0..n : i # 0 => i \in 1..n /\ i - 1 \in 0..n
    BY <1>0
  <2>5. ASSUME NEW i \in 0..n
        PROVE  s[i] = IF i = 0 THEN c ELSE RollforwardOp(s[i - 1], Ops[b][i], base, h)
    <3>1. s[i] = IF i = 0 THEN c ELSE F[<<i, s[i - 1]>>]
      BY <2>3, Zenon DEF IsRun
    <3> QED  BY <3>1, <2>1, <2>3, <2>4, Zenon
  <2>6. s = [i \in 0..n |-> s[i]]
    BY <2>3, Zenon DEF IsRun
  <2>7. Is(s)
    BY <2>5, <2>6, Zenon
  <2> HIDE DEF Is
  <2> QED  BY <2>7, Zenon
<1>4. Is(d)
  <2> HIDE DEF Is
  <2> QED  BY <1>3, Zenon
<1>5. RollforwardBlock(b, c, base) = d[n]
  BY Zenon DEF RollforwardBlock, h
<1> HIDE DEF d
<1>6. \A i \in 0..n : d[i] = IF i = 0 THEN c ELSE RollforwardOp(d[i - 1], Ops[b][i], base, h)
  BY <1>4, Zenon
<1> HIDE DEF Is
<1>7. d[0] \in P[0] /\ \A i \in 1..n : d[i - 1] \in P[i - 1] => d[i] \in P[i]
  <2>1. 0 \in 0..n /\ \A i \in 1..n : i \in 0..n /\ i # 0
    BY <1>0
  <2> QED  BY <1>1, <1>2, <1>6, <2>1, Zenon
<1>8. d[n] \in P[n]
  <2>1. \A i \in 0..n : d[i] \in P[i]
    BY <1>0, <1>7, LoopKeeps, Zenon
  <2>2. n \in 0..n
    BY <1>0
  <2> QED  BY <2>1, <2>2, Zenon
<1>9. d[n] \in Cache /\ Rolling(b, DOMAIN Ops[b], base, v, d[n])
  BY <1>0, <1>8 DEF P
<1> QED  BY <1>5, <1>9, Zenon DEF Rolling, v

-----------------------------------------------------------------------------
(* ReplayBlocks: the old branch undone and the new one redone, on a        *)
(* database that mixes the coins of the two tips.                          *)

\* The undo data of the chain of b is there and right.
Undoable(b) == \A a \in Branch(b) : undo[a] = UndoOf(a, DOMAIN Ops[a], Utxo(Parent[a]))

RollBackState == [view : Cache, at : Index]

\* On the way from old back to fork: an outpoint is as the chain of s.at has it,
\* or still as the database has it, and then no block above s.at touched it.
RollingBack(old, fork, base, i, s) ==
  /\ s.at \in Ancestors[old]
  /\ Height[s.at] = IF Height[old] - i >= Height[fork] THEN Height[old] - i ELSE Height[fork]
  /\ Sound(s.view, base)
  /\ \A o \in Outpoints :
       \/ Peek(s.view, base)[o] = Utxo(s.at)[o]
       \/ Peek(s.view, base)[o] = base[o] /\ Utxo(s.at)[o] = Utxo(old)[o]

\* Undoing the old branch: every outpoint ends as the fork has it, or was left
\* alone because the old branch never touched it.
LEMMA RollBackIs ==
  ASSUME WellOrdered, NEW old \in Index, NEW fork \in Ancestors[old], NEW base \in Base,
         Good(old), Undoable(old)
  PROVE  /\ RollBack(old, fork, base) \in Cache
         /\ Sound(RollBack(old, fork, base), base)
         /\ \A o \in Outpoints :
              \/ Peek(RollBack(old, fork, base), base)[o] = Utxo(fork)[o]
              \/ /\ Peek(RollBack(old, fork, base), base)[o] = base[o]
                 /\ Utxo(fork)[o] = Utxo(old)[o]
<1>o. ASSUME NEW i \in 1..Height[old], NEW s \in RollBackState,
             RollingBack(old, fork, base, i - 1, s)
      PROVE  LET r == IF s.at = fork THEN s
                      ELSE [view |-> DisconnectBlock(s.at, s.view, base).view, at |-> Parent[s.at]]
             IN  r \in RollBackState /\ RollingBack(old, fork, base, i, r)
  <2> USE <1>o
  <2> DEFINE a == s.at
             w == DisconnectBlock(a, s.view, base).view
             r == IF a = fork THEN s ELSE [view |-> w, at |-> Parent[a]]
  <2>0. s.view \in Cache /\ a \in Index
    BY Zenon DEF RollBackState
  <2>1. /\ fork \in Index /\ Ancestors[old] \subseteq Index
        /\ \A x, y \in Ancestors[old] : Height[x] = Height[y] => x = y
        /\ \A x \in Ancestors[old] : Ancestors[x] \subseteq Ancestors[old]
    BY AncestorsChain, Zenon DEF Chain
  <2>2. Height[old] \in Nat /\ Height[fork] \in Nat /\ Height[a] \in Nat
    BY <2>0, <2>1, TreeAssumption, Zenon
  <2>3. /\ a \in Ancestors[old] /\ Sound(s.view, base)
        /\ Height[a] = IF Height[old] - (i - 1) >= Height[fork] THEN Height[old] - (i - 1) ELSE Height[fork]
        /\ \A o \in Outpoints :
             \/ Peek(s.view, base)[o] = Utxo(a)[o]
             \/ Peek(s.view, base)[o] = base[o] /\ Utxo(a)[o] = Utxo(old)[o]
    BY Zenon DEF RollingBack
  <2>4. CASE a = fork
    <3>1. r = s
      BY <2>4, Zenon
    <3>2. Height[a] = IF Height[old] - i >= Height[fork] THEN Height[old] - i ELSE Height[fork]
      BY <2>2, <2>3, <2>4
    <3>3. RollingBack(old, fork, base, i, s)
      BY <2>3, <3>2, Zenon DEF RollingBack
    <3> QED  BY <3>1, <3>3, Zenon
  <2>5. CASE a # fork
    <3>1. r = [view |-> w, at |-> Parent[a]]
      BY <2>5, Zenon
    <3>2. Height[a] # Height[fork]
      BY <2>1, <2>3, <2>5, Zenon
    <3>3. Height[a] = Height[old] - (i - 1) /\ Height[a] > Height[fork]
      BY <2>2, <2>3, <3>2
    <3>4. a # Genesis
      BY <2>2, <3>3, TreeAssumption
    <3>5. a \in Blocks /\ a \in Branch(old)
      BY <2>0, <2>3, <3>4, BranchIs DEF Index
    <3>6. Parent[a] \in Index /\ Height[Parent[a]] = Height[a] - 1 /\ Height[Parent[a]] \in Nat
      BY <3>5, TreeAssumption
    <3>7. Parent[a] \in Ancestors[old]
      <4>1. Parent[a] \in Ancestors[Parent[a]]
        BY <3>6, AncestorsChain, Zenon DEF Chain
      <4> QED  BY <4>1, <3>5, <2>1, <2>3, AncestorsAre, Zenon
    <3>8. Height[Parent[a]] = IF Height[old] - i >= Height[fork] THEN Height[old] - i ELSE Height[fork]
      BY <2>2, <3>3, <3>6
    <3> DEFINE u == Utxo(Parent[a])
    <3>9. Fits(a, DOMAIN Ops[a], u) /\ undo[a] = UndoOf(a, DOMAIN Ops[a], u)
      BY <3>5, Zenon DEF Good, Undoable
    <3>10. u \in Base
      <4>1. Branch(Parent[a]) \subseteq Branch(old)
        <5>1. Ancestors[Parent[a]] \subseteq Ancestors[old]
          BY <2>1, <3>7, Zenon
        <5> QED  BY <5>1, <3>6, BranchIs
      <4>2. Good(Parent[a])
        BY <4>1, Zenon DEF Good
      <4> QED  BY <4>2, <3>6, UtxoType, Zenon
    <3> DEFINE pe == Peek(s.view, base)
               pw == Peek(w, base)
    <3>11. /\ w \in Cache /\ Sound(w, base)
           /\ pw = [o \in Outpoints |-> IF o \in Touched(a) THEN u[o] ELSE pe[o]]
      BY <2>0, <2>3, <3>5, <3>9, <3>10, DisconnectBlockIs
    <3>12. \A o \in Outpoints : o \notin Touched(a) => Utxo(a)[o] = u[o]
      <4>1. Utxo(a) = Applied(a, DOMAIN Ops[a], u)
        BY <3>5, <3>9, UtxoStep, Zenon
      <4> HIDE DEF u
      <4> QED  BY <4>1, <3>5, InAll, Zenon DEF Applied
    <3> HIDE DEF w, pw, pe, u
    <3>13. \A o \in Outpoints : pw[o] = u[o] \/ (pw[o] = base[o] /\ u[o] = Utxo(old)[o])
      <4>1. \A o \in Outpoints : pe[o] = Utxo(a)[o] \/ (pe[o] = base[o] /\ Utxo(a)[o] = Utxo(old)[o])
        BY <2>3, Zenon DEF pe
      <4>2. \A o \in Outpoints : pw[o] = IF o \in Touched(a) THEN u[o] ELSE pe[o]
        BY <3>11, Zenon
      <4> QED  BY <4>1, <4>2, <3>12, Zenon
    <3> HIDE DEF r, a
    <3>14. r \in RollBackState /\ r.view = w /\ r.at = Parent[a]
      BY <3>1, <3>6, <3>11, Zenon DEF RollBackState
    <3>15. RollingBack(old, fork, base, i, r)
      BY <3>7, <3>8, <3>11, <3>13, <3>14, Zenon DEF RollingBack, pw, u
    <3> QED  BY <3>14, <3>15, Zenon DEF r, a, w
  <2> QED  BY <2>4, <2>5, Zenon
<1> DEFINE n == Height[old]
           x == [view |-> NoCache, at |-> old]
           Step(y) == IF y.at = fork THEN y
                      ELSE [view |-> DisconnectBlock(y.at, y.view, base).view, at |-> Parent[y.at]]
           P == [i \in 0..n |-> {s \in RollBackState : RollingBack(old, fork, base, i, s)}]
           F == [p \in (1..n) \X RollBackState |-> Step(p[2])]
           Is(s) == s = [i \in 0..n |-> IF i = 0 THEN x ELSE Step(s[i - 1])]
           d == CHOOSE s : Is(s)
<1>0. n \in Nat /\ fork \in Index /\ Height[fork] \in Nat /\ Height[fork] <= n
  BY AncestorsChain, TreeAssumption, Zenon DEF Chain
<1>1. x \in P[0]
  <2>1. x \in RollBackState /\ x.at = old /\ x.view = NoCache
    BY NoCacheIs, Zenon DEF RollBackState
  <2>2. old \in Ancestors[old]
    BY AncestorsChain, Zenon DEF Chain
  <2>3. Height[old] = IF Height[old] - 0 >= Height[fork] THEN Height[old] - 0 ELSE Height[fork]
    BY <1>0
  <2>4. Peek(NoCache, base) = base /\ Sound(NoCache, base)
    BY NoCacheIs, Zenon
  <2> HIDE DEF x
  <2>5. RollingBack(old, fork, base, 0, x)
    BY <2>1, <2>2, <2>3, <2>4, Zenon DEF RollingBack
  <2>6. 0 \in 0..n
    BY <1>0
  <2> QED  BY <2>1, <2>5, <2>6, Zenon
<1>2. ASSUME NEW i \in 1..n, NEW y \in P[i - 1]
      PROVE  Step(y) \in P[i] /\ y \in RollBackState
  <2>1. i - 1 \in 0..n /\ i \in 0..n
    BY <1>0
  <2>2. y \in RollBackState /\ RollingBack(old, fork, base, i - 1, y)
    BY <2>1, Zenon
  <2>3. Step(y) \in RollBackState /\ RollingBack(old, fork, base, i, Step(y))
    BY <2>2, <1>o, Zenon
  <2> HIDE DEF Step
  <2> QED  BY <2>1, <2>2, <2>3, Zenon
<1> HIDE DEF x, P, Step
<1>3. \E s : Is(s)
  <2>1. \A i \in 1..n : \A y \in P[i - 1] : F[<<i, y>>] = Step(y)
    BY <1>2, Zenon
  <2> HIDE DEF F
  <2>2. \A i \in 1..n : \A y \in P[i - 1] : F[<<i, y>>] \in P[i]
    BY <1>2, <2>1, Zenon
  <2>3. PICK s : IsRun(n, x, F, s) /\ \A i \in 0..n : s[i] \in P[i]
    BY <1>0, <1>1, <2>2, LoopRuns, Zenon
  <2>4. \A i \in 0..n : i # 0 => i \in 1..n /\ i - 1 \in 0..n
    BY <1>0
  <2>5. ASSUME NEW i \in 0..n
        PROVE  s[i] = IF i = 0 THEN x ELSE Step(s[i - 1])
    <3>1. s[i] = IF i = 0 THEN x ELSE F[<<i, s[i - 1]>>]
      BY <2>3, Zenon DEF IsRun
    <3> QED  BY <3>1, <2>1, <2>3, <2>4, Zenon
  <2>6. s = [i \in 0..n |-> s[i]]
    BY <2>3, Zenon DEF IsRun
  <2>7. Is(s)
    BY <2>5, <2>6, Zenon
  <2> HIDE DEF Is
  <2> QED  BY <2>7, Zenon
<1>4. Is(d)
  <2> HIDE DEF Is
  <2> QED  BY <1>3, Zenon
<1>5. RollBack(old, fork, base) = d[n].view
  BY Zenon DEF RollBack, x, Step
<1> HIDE DEF d
<1>6. \A i \in 0..n : d[i] = IF i = 0 THEN x ELSE Step(d[i - 1])
  BY <1>4, Zenon
<1> HIDE DEF Is
<1>7. d[0] \in P[0] /\ \A i \in 1..n : d[i - 1] \in P[i - 1] => d[i] \in P[i]
  <2>1. 0 \in 0..n /\ \A i \in 1..n : i \in 0..n /\ i # 0
    BY <1>0
  <2> QED  BY <1>1, <1>2, <1>6, <2>1, Zenon
<1>8. d[n] \in P[n]
  <2>1. \A i \in 0..n : d[i] \in P[i]
    BY <1>0, <1>7, LoopKeeps, Zenon
  <2>2. n \in 0..n
    BY <1>0
  <2> QED  BY <2>1, <2>2, Zenon
<1>9. d[n] \in RollBackState /\ RollingBack(old, fork, base, n, d[n])
  <2>1. n \in 0..n
    BY <1>0
  <2> QED  BY <2>1, <1>8, Zenon DEF P
<1>10. d[n].at = fork
  <2>1. d[n].at \in Ancestors[old]
    BY <1>9, Zenon DEF RollingBack
  <2>2. Height[d[n].at] = IF n - n >= Height[fork] THEN n - n ELSE Height[fork]
    BY <1>9, Zenon DEF RollingBack
  <2>3. Height[d[n].at] = Height[fork]
    BY <2>2, <1>0
  <2> QED  BY <2>1, <2>3, AncestorsChain DEF Chain
<1>11. d[n].view \in Cache
  BY <1>9, Zenon DEF RollBackState
<1> QED  BY <1>5, <1>9, <1>10, <1>11, Zenon DEF RollingBack

\* On the way from fork up to new: an outpoint is as the chain up to height i
\* has it, or already as the new tip has it.
Reached(fork, new, i) == IF i <= Height[fork] THEN fork ELSE GetAncestor(new, i)

RollingForward(fork, new, base, i, c) ==
  /\ Sound(c, base)
  /\ \A o \in Outpoints : Peek(c, base)[o] \in {Utxo(Reached(fork, new, i))[o], Utxo(new)[o]}

\* Redoing the new branch on top of it: every outpoint ends as the new tip has it.
LEMMA RollForwardIs ==
  ASSUME WellOrdered, NEW new \in Index, NEW fork \in Ancestors[new], NEW base \in Base, Good(new),
         NEW c \in Cache, Sound(c, base),
         \A o \in Outpoints : Peek(c, base)[o] \in {Utxo(fork)[o], Utxo(new)[o]}
  PROVE  /\ RollForward(c, fork, new, base) \in Cache
         /\ Sound(RollForward(c, fork, new, base), base)
         /\ Peek(RollForward(c, fork, new, base), base) = Utxo(new)
<1>o. ASSUME NEW i \in 1..Height[new], i > Height[fork], NEW y \in Cache,
             RollingForward(fork, new, base, i - 1, y)
      PROVE  /\ RollforwardBlock(GetAncestor(new, i), y, base) \in Cache
             /\ RollingForward(fork, new, base, i, RollforwardBlock(GetAncestor(new, i), y, base))
  <2> USE <1>o
  <2> DEFINE a == GetAncestor(new, i)
             w == RollforwardBlock(a, y, base)
             u == Utxo(Parent[a])
             pe == Peek(y, base)
             pw == Peek(w, base)
  <2>0. Height[new] \in Nat /\ fork \in Index /\ Height[fork] \in Nat
    BY AncestorsChain, TreeAssumption, Zenon DEF Chain
  <2>1. a \in Blocks /\ a \in Branch(new) /\ Parent[a] = GetAncestor(new, i - 1)
    BY GetAncestorStep, Zenon
  <2>2. Reached(fork, new, i) = a
    BY <2>0 DEF Reached
  <2>3. Reached(fork, new, i - 1) = Parent[a]
    <3>1. CASE i - 1 <= Height[fork]
      <4>1. Height[fork] = i - 1 /\ i - 1 \in 0..Height[new]
        BY <2>0, <3>1
      <4>2. fork = GetAncestor(new, i - 1)
        BY <4>1, GetAncestorIs, Zenon
      <4> HIDE DEF a
      <4> QED  BY <3>1, <4>2, <2>1, Zenon DEF Reached
    <3>2. CASE ~(i - 1 <= Height[fork])
      <4> HIDE DEF a
      <4> QED  BY <3>2, <2>1, Zenon DEF Reached
    <3> QED  BY <3>1, <3>2, Zenon
  <2>4. Fits(a, DOMAIN Ops[a], u)
    BY <2>1, Zenon DEF Good
  <2>5. Sound(y, base) /\ \A o \in Outpoints : pe[o] \in {u[o], Utxo(new)[o]}
    BY <2>3, Zenon DEF RollingForward
  <2>6. w \in Cache /\ Sound(w, base) /\ pw = Applied(a, DOMAIN Ops[a], pe)
    BY <2>1, <2>4, <2>5, RollforwardBlockIs, Zenon
  <2>7. Utxo(a) = Applied(a, DOMAIN Ops[a], u)
    BY <2>1, <2>4, UtxoStep, Zenon
  <2> HIDE DEF a, w, u, pe, pw
  <2>8. \A o \in Outpoints : pw[o] \in {Utxo(a)[o], Utxo(new)[o]}
    BY <2>5, <2>6, <2>7, Zenon DEF Applied
  <2>9. RollingForward(fork, new, base, i, w)
    BY <2>2, <2>6, <2>8, Zenon DEF RollingForward, pw
  <2> QED  BY <2>6, <2>9, Zenon DEF a, w
<1> DEFINE n == Height[new]
           Step(i, y) == IF i <= Height[fork] THEN c ELSE RollforwardBlock(GetAncestor(new, i), y, base)
           P == [i \in 0..n |-> {y \in Cache : RollingForward(fork, new, base, i, y)}]
           F == [p \in (1..n) \X Cache |-> Step(p[1], p[2])]
           Is(s) == s = [i \in 0..n |-> Step(i, s[i - 1])]
           d == CHOOSE s : Is(s)
<1>0. n \in Nat /\ fork \in Index /\ Height[fork] \in Nat /\ Height[fork] <= n
  BY AncestorsChain, TreeAssumption, Zenon DEF Chain
<1>1. ASSUME NEW i \in 0..n, i <= Height[fork] PROVE c \in P[i]
  <2>1. Reached(fork, new, i) = fork
    BY <1>1, Zenon DEF Reached
  <2>2. RollingForward(fork, new, base, i, c)
    BY <2>1, Zenon DEF RollingForward
  <2> QED  BY <2>2, Zenon
<1>2. ASSUME NEW i \in 1..n, NEW y \in P[i - 1]
      PROVE  Step(i, y) \in P[i] /\ y \in Cache
  <2>1. i - 1 \in 0..n /\ i \in 0..n
    BY <1>0
  <2>2. y \in Cache /\ RollingForward(fork, new, base, i - 1, y)
    BY <2>1, Zenon
  <2>3. CASE i <= Height[fork]
    BY <2>1, <2>2, <2>3, <1>1, Zenon
  <2>4. CASE ~(i <= Height[fork])
    <3>1. i > Height[fork]
      BY <2>4, <1>0
    <3>2. /\ RollforwardBlock(GetAncestor(new, i), y, base) \in Cache
          /\ RollingForward(fork, new, base, i, RollforwardBlock(GetAncestor(new, i), y, base))
      BY <3>1, <2>2, <1>o, Zenon
    <3> QED  BY <2>1, <2>2, <2>4, <3>2, Zenon
  <2> QED  BY <2>3, <2>4, Zenon
<1>z. 0 \in 0..n /\ 0 <= Height[fork]
  BY <1>0
<1>y. \A y : Step(0, y) = c
  BY <1>z, Zenon
<1>x. c \in P[0]
  BY <1>1, <1>z, Zenon
<1> HIDE DEF P, Step
<1>3. \E s : Is(s)
  <2>1. \A i \in 1..n : \A y \in P[i - 1] : F[<<i, y>>] = Step(i, y)
    BY <1>2, Zenon
  <2> HIDE DEF F
  <2>2. \A i \in 1..n : \A y \in P[i - 1] : F[<<i, y>>] \in P[i]
    BY <1>2, <2>1, Zenon
  <2>3. PICK s : IsRun(n, c, F, s) /\ \A i \in 0..n : s[i] \in P[i]
    BY <1>0, <1>x, <2>2, LoopRuns, Zenon
  <2>4. \A i \in 0..n : i # 0 => i \in 1..n /\ i - 1 \in 0..n
    BY <1>0
  <2>5. ASSUME NEW i \in 0..n
        PROVE  s[i] = Step(i, s[i - 1])
    <3>1. s[i] = IF i = 0 THEN c ELSE F[<<i, s[i - 1]>>]
      BY <2>3, Zenon DEF IsRun
    <3>2. CASE i = 0
      BY <3>1, <3>2, <1>y, Zenon
    <3>3. CASE i # 0
      BY <3>1, <3>3, <2>1, <2>3, <2>4, Zenon
    <3> QED  BY <3>2, <3>3, Zenon
  <2>6. s = [i \in 0..n |-> s[i]]
    BY <2>3, Zenon DEF IsRun
  <2>7. Is(s)
    BY <2>5, <2>6, Zenon
  <2> HIDE DEF Is
  <2> QED  BY <2>7, Zenon
<1>4. Is(d)
  <2> HIDE DEF Is
  <2> QED  BY <1>3, Zenon
<1>5. RollForward(c, fork, new, base) = d[n]
  BY Zenon DEF RollForward, Step
<1> HIDE DEF d
<1>6. \A i \in 0..n : d[i] = Step(i, d[i - 1])
  BY <1>4, Zenon
<1> HIDE DEF Is
<1>7. d[0] \in P[0] /\ \A i \in 1..n : d[i - 1] \in P[i - 1] => d[i] \in P[i]
  <2>1. 0 \in 0..n /\ \A i \in 1..n : i \in 0..n
    BY <1>0
  <2>2. d[0] = c
    BY <1>6, <1>y, <2>1, Zenon
  <2> QED  BY <1>x, <1>2, <1>6, <2>1, <2>2, Zenon
<1>8. d[n] \in P[n]
  <2>1. \A i \in 0..n : d[i] \in P[i]
    BY <1>0, <1>7, LoopKeeps, Zenon
  <2>2. n \in 0..n
    BY <1>0
  <2> QED  BY <2>1, <2>2, Zenon
<1>9. d[n] \in Cache /\ RollingForward(fork, new, base, n, d[n])
  <2>1. n \in 0..n
    BY <1>0
  <2> QED  BY <2>1, <1>8, Zenon DEF P
<1>10. Reached(fork, new, n) = new
  <2>1. new \in Ancestors[new] /\ \A a \in Ancestors[new] : Height[a] = Height[new] => a = new
    BY AncestorsChain, Zenon DEF Chain
  <2>2. CASE n <= Height[fork]
    <3>1. Height[fork] = n
      BY <2>2, <1>0
    <3> QED  BY <2>1, <2>2, <3>1, Zenon DEF Reached
  <2>3. CASE ~(n <= Height[fork])
    <3>1. n \in 0..Height[new]
      BY <1>0
    <3>2. GetAncestor(new, n) = new
      BY <3>1, <2>1, GetAncestorIs, Zenon
    <3> QED  BY <2>3, <3>2, Zenon DEF Reached
  <2> QED  BY <2>2, <2>3, Zenon
<1>11. \A o \in Outpoints : Peek(d[n], base)[o] = Utxo(new)[o]
  BY <1>9, <1>10, Zenon DEF RollingForward
<1>12. Peek(d[n], base) = Utxo(new)
  BY <1>11, Zenon DEF Peek, Utxo
<1> QED  BY <1>5, <1>9, <1>12, Zenon DEF RollingForward

-----------------------------------------------------------------------------
(* The inductive invariant.                                                *)

TypeOK ==
  /\ coins \in Base /\ best \in Index \cup {NoBlock}
  /\ heads = <<>> \/ \E a \in Index, b \in Index \cup {NoBlock} : heads = <<a, b>>
  /\ cache \in Cache
  /\ phase \in {"run", "write", "down", "replay"}

\* The undo data of a block is what it spent, and it was connected because it fits.
UndoIsRight ==
  \A b \in DOMAIN undo :
     /\ b \in Blocks /\ Fits(b, DOMAIN Ops[b], Utxo(Parent[b]))
     /\ undo[b] = UndoOf(b, DOMAIN Ops[b], Utxo(Parent[b]))

\* What a start needs of b's chain is on disk.
OnDisk(b) == b \in durable \cup {NoBlock} /\ Branch(b) \subseteq DOMAIN undo \cap durable

\* The database is the state of one tip, or a mixture of the two it names.
Stored ==
  /\ Genesis \in durable
  /\ heads = <<>> => coins = Utxo(best) /\ OnDisk(best)
  /\ heads # <<>> =>
       /\ best = NoBlock /\ OnDisk(heads[1]) /\ OnDisk(heads[2])
       /\ \A o \in Outpoints : coins[o] \in {Utxo(heads[2])[o], Utxo(heads[1])[o]}

Up == phase # "down" =>
        tip \in Index /\ Branch(tip) \subseteq DOMAIN undo /\ Peek(cache, coins) = Utxo(tip)

Running == phase = "run" => heads = <<>> /\ Sound(cache, coins)

\* The entries of the cache that are not left to write are in the database.
Writing == phase \in {"write", "replay"} =>
  /\ OnDisk(tip) /\ (heads # <<>> => heads[1] = tip)
  /\ left \subseteq Dirty(cache)
  /\ \A o \in DOMAIN cache : /\ cache[o].coin = NoCoin => cache[o].dirty
                             /\ o \notin left => coins[o] = cache[o].coin

Down == phase = "down" => cache = NoCache

Inv == TypeOK /\ UndoIsRight /\ Stored /\ Up /\ Running /\ Writing /\ Down /\ ~fault

\* A block that is on disk stays on disk when more is written.
LEMMA OnDiskStays ==
  ASSUME NEW b, OnDisk(b), durable \subseteq durable',
         DOMAIN undo \cap durable \subseteq DOMAIN undo'
  PROVE  OnDisk(b)'
  BY Zenon DEF OnDisk

\* What is stored stays stored when more is written.
LEMMA StoredStays ==
  ASSUME Stored, UNCHANGED database, durable \subseteq durable',
         DOMAIN undo \cap durable \subseteq DOMAIN undo'
  PROVE  Stored'
<1>1. \A b : OnDisk(b) => OnDisk(b)'
  BY OnDiskStays, Zenon
<1>2. coins' = coins /\ best' = best /\ heads' = heads
  BY Zenon DEF database
<1> QED  BY <1>1, <1>2, Zenon DEF Stored

\* A chain all of whose blocks have undo data is good, and can be undone.
LEMMA ChainIsGood ==
  ASSUME UndoIsRight, NEW b, Branch(b) \subseteq DOMAIN undo
  PROVE  Good(b) /\ Undoable(b)
  BY Zenon DEF UndoIsRight, Good, Undoable

\* The initial states satisfy the invariant.
LEMMA InitInv == ASSUME WellOrdered, Init PROVE Inv
<1>1. /\ coins = [o \in Outpoints |-> NoCoin] /\ best = NoBlock /\ heads = <<>>
      /\ cache = NoCache /\ tip = Genesis /\ undo = NoCache /\ durable = {Genesis}
      /\ phase = "run" /\ fault = FALSE
  BY Zenon DEF Init
<1>2. NoCache \in Cache /\ DOMAIN NoCache = {} /\ (\A u : Sound(NoCache, u))
      /\ \A u \in Base : Peek(NoCache, u) = u
  BY NoCacheIs, Zenon
<1>3. coins \in Base /\ Utxo(Genesis) = coins /\ Utxo(NoBlock) = coins
  <2>1. coins \in Base
    BY <1>1, Zenon DEF Base, NoCoin
  <2> QED  BY <2>1, <1>1, UtxoEmpty, Zenon
<1>4. Branch(NoBlock) = {} /\ Branch(Genesis) = {}
  BY BranchIs, Zenon
<1>5. TypeOK
  BY <1>1, <1>2, <1>3, Zenon DEF TypeOK
<1>6. UndoIsRight
  BY <1>1, <1>2, Zenon DEF UndoIsRight
<1>7. Stored
  BY <1>1, <1>2, <1>3, <1>4, Zenon DEF Stored, OnDisk
<1>8. Up
  <2>1. Genesis \in Index
    BY Zenon DEF Index
  <2>2. Peek(cache, coins) = coins
    BY <1>1, <1>2, <1>3, Zenon
  <2> QED  BY <2>1, <2>2, <1>1, <1>3, <1>4, Zenon DEF Up
<1>9. Running /\ Writing /\ Down
  BY <1>1, <1>2, Zenon DEF Running, Writing, Down
<1> QED  BY <1>1, <1>5, <1>6, <1>7, <1>8, <1>9, Zenon DEF Inv

\* Every step keeps the invariant: one step of the proof for each action.
LEMMA NextInv == ASSUME WellOrdered, Inv, [Next]_vars PROVE Inv'
<1>run. ASSUME phase = "run", phase' = "run", UNCHANGED <<database, durable>>,
             cache' \in Cache, Sound(cache', coins), UndoIsRight',
             DOMAIN undo \subseteq DOMAIN undo',
             tip' \in Index, Branch(tip') \subseteq DOMAIN undo',
             Peek(cache', coins) = Utxo(tip'), ~fault'
      PROVE  Inv'
  <2> USE <1>run
  <2>1. coins' = coins /\ best' = best /\ heads' = heads /\ durable' = durable
    BY Zenon DEF database
  <2>2. TypeOK'
    BY <2>1, Zenon DEF Inv, TypeOK
  <2>3. Stored'
    BY <2>1, StoredStays, Zenon DEF Inv
  <2>4. Up' /\ Running' /\ Writing' /\ Down'
    BY <2>1, Zenon DEF Inv, Up, Running, Writing, Down
  <2> QED  BY <2>2, <2>3, <2>4, Zenon DEF Inv
<1>connect. ASSUME NEW b \in Blocks, ConnectTip(b)
      PROVE  Inv'
  <2> USE <1>connect
  <2> DEFINE u == Peek(cache, coins)
             r == ConnectBlock(b, u)
  <2>1. /\ phase = "run" /\ Parent[b] = tip /\ phase' = "run" /\ UNCHANGED <<database, durable>>
    BY Zenon DEF ConnectTip
  <2>2. /\ cache \in Cache /\ coins \in Base /\ Sound(cache, coins) /\ u = Utxo(tip)
        /\ tip \in Index /\ Branch(tip) \subseteq DOMAIN undo /\ UndoIsRight /\ ~fault
    BY <2>1, Zenon DEF Inv, TypeOK, Running, Up
  <2>3. u \in Base
    BY <2>2, PeekType, Zenon
  <2>4. CASE r.ok
    <3>1. /\ cache' = BatchWrite(cache, r.view)
          /\ fault' = (fault \/ r.throws \/ BatchWriteThrows(cache, r.view))
          /\ undo' = Put(undo, b, r.undo) /\ tip' = b
      BY <2>4, Zenon DEF ConnectTip
    <3>2. /\ r.view \in Cache /\ Sound(r.view, u) /\ ~r.throws /\ Fits(b, DOMAIN Ops[b], u)
          /\ Peek(r.view, u) = Applied(b, DOMAIN Ops[b], u)
          /\ r.undo = UndoOf(b, DOMAIN Ops[b], u)
      BY <2>3, <2>4, ConnectBlockIs, Zenon
    <3>3. /\ ~BatchWriteThrows(cache, r.view) /\ Sound(cache', coins)
          /\ Peek(cache', coins) = Peek(r.view, u)
      BY <2>2, <3>1, <3>2, FlushIsInvisible, Zenon
    <3>4. cache' \in Cache
      BY <2>2, <3>1, <3>2, BatchWriteType, Zenon
    <3>5. u = Utxo(Parent[b])
      BY <2>1, <2>2, Zenon
    <3>6. Utxo(b) = Applied(b, DOMAIN Ops[b], u)
      BY <3>2, <3>5, UtxoStep, Zenon
    <3> HIDE DEF r, u
    <3>7. DOMAIN undo' = DOMAIN undo \cup {b} /\ undo'[b] = r.undo
          /\ \A a \in DOMAIN undo : a # b => undo'[a] = undo[a]
      BY <3>1, Zenon DEF Put
    <3>8. UndoIsRight'
      BY <2>2, <3>2, <3>5, <3>7, Zenon DEF UndoIsRight
    <3>9. b \in Index /\ Branch(b) \subseteq DOMAIN undo'
      BY <2>1, <2>2, <3>7, BranchIs DEF Index
    <3>10. ~fault'
      BY <3>1, <3>2, <3>3, <2>2, Zenon
    <3>11. Peek(cache', coins) = Utxo(tip')
      BY <3>1, <3>2, <3>3, <3>6, Zenon
    <3>12. tip' \in Index /\ Branch(tip') \subseteq DOMAIN undo' /\ DOMAIN undo \subseteq DOMAIN undo'
      BY <3>1, <3>7, <3>9, Zenon
    <3> QED  BY <2>1, <3>3, <3>4, <3>8, <3>10, <3>11, <3>12, <1>run, Zenon
  <2>5. CASE ~r.ok
    <3>1. UNCHANGED <<cache, tip, undo, fault>>
      BY <2>5, Zenon DEF ConnectTip
    <3>2. UndoIsRight'
      BY <2>2, <3>1, Zenon DEF UndoIsRight
    <3>3. ~fault'
      BY <2>2, <3>1, Zenon
    <3> QED  BY <2>1, <2>2, <3>1, <3>2, <3>3, <1>run, Zenon
  <2> QED  BY <2>4, <2>5, Zenon
<1>disconnect. ASSUME DisconnectTip
      PROVE  Inv'
  <2> USE <1>disconnect
  <2> DEFINE c == FetchAll(cache, coins, Touched(tip))
             v == Peek(c, coins)
             r == DisconnectBlock(tip, NoCache, v)
             u == Utxo(Parent[tip])
  <2>1. /\ phase = "run" /\ tip # Genesis /\ phase' = "run" /\ UNCHANGED <<database, durable, undo>>
        /\ tip' = Parent[tip] /\ cache' = BatchWrite(c, r.view)
        /\ fault' = (fault \/ ~r.clean \/ BatchWriteThrows(c, r.view))
    BY Zenon DEF DisconnectTip
  <2>2. /\ cache \in Cache /\ coins \in Base /\ Sound(cache, coins) /\ Peek(cache, coins) = Utxo(tip)
        /\ tip \in Index /\ Branch(tip) \subseteq DOMAIN undo /\ UndoIsRight /\ ~fault
    BY <2>1, Zenon DEF Inv, TypeOK, Running, Up
  <2>3. tip \in Blocks /\ Parent[tip] \in Index /\ Branch(tip) = {tip} \cup Branch(Parent[tip])
    BY <2>1, <2>2, BranchIs, Zenon DEF Index
  <2>4. Touched(tip) \in SUBSET Outpoints
    BY <2>3, OpsAre, Zenon DEF Touched
  <2>5. c \in Cache /\ Sound(c, coins) /\ v = Utxo(tip) /\ v \in Base
    <3>1. c \in Cache /\ Sound(c, coins) /\ v = Peek(cache, coins)
      BY <2>2, <2>4, FetchAllIs, Zenon
    <3> QED  BY <3>1, <2>2, PeekType, Zenon
  <2>6. Fits(tip, DOMAIN Ops[tip], u) /\ undo[tip] = UndoOf(tip, DOMAIN Ops[tip], u)
    BY <2>2, <2>3, Zenon DEF UndoIsRight
  <2>7. Utxo(tip) = Applied(tip, DOMAIN Ops[tip], u)
    BY <2>3, <2>6, UtxoStep, Zenon
  <2>8. u \in Base
    <3>1. Branch(Parent[tip]) \subseteq DOMAIN undo
      BY <2>2, <2>3, Zenon
    <3>2. Good(Parent[tip])
      BY <3>1, <2>2, ChainIsGood, Zenon
    <3> QED  BY <3>2, <2>3, UtxoType, Zenon
  <2> HIDE DEF c, v, u
  <2>9. /\ r.view \in Cache /\ Sound(r.view, v) /\ r.clean
        /\ Peek(r.view, v) = [o \in Outpoints |-> IF o \in Touched(tip) THEN u[o] ELSE v[o]]
    <3>1. NoCache \in Cache /\ Sound(NoCache, v) /\ Peek(NoCache, v) = v
      BY <2>5, NoCacheIs, Zenon
    <3>2. /\ r.view \in Cache /\ Sound(r.view, v)
          /\ Peek(r.view, v) = [o \in Outpoints |-> IF o \in Touched(tip) THEN u[o] ELSE Peek(NoCache, v)[o]]
          /\ Peek(NoCache, v) = Applied(tip, DOMAIN Ops[tip], u) => r.clean
      BY <3>1, <2>3, <2>5, <2>6, <2>8, DisconnectBlockIs
    <3> HIDE DEF r
    <3> QED  BY <3>1, <3>2, <2>5, <2>7, Zenon
  <2> HIDE DEF r
  <2>10. \A o \in Outpoints : o \notin Touched(tip) => v[o] = u[o]
    BY <2>3, <2>5, <2>7, InAll, Zenon DEF Applied
  <2>11. Peek(r.view, v) = u
    <3>1. \A o \in Outpoints : (IF o \in Touched(tip) THEN u[o] ELSE v[o]) = u[o]
      BY <2>10, Zenon
    <3>2. u = [o \in Outpoints |-> u[o]]
      BY <2>8, Zenon DEF Base
    <3> QED  BY <2>9, <3>1, <3>2, Zenon
  <2>12. ~BatchWriteThrows(c, r.view) /\ Sound(cache', coins) /\ Peek(cache', coins) = u
    <3>1. /\ ~BatchWriteThrows(c, r.view) /\ Sound(BatchWrite(c, r.view), coins)
          /\ Peek(BatchWrite(c, r.view), coins) = Peek(r.view, Peek(c, coins))
      BY <2>2, <2>5, <2>9, FlushIsInvisible, Zenon DEF v
    <3> QED  BY <3>1, <2>1, <2>11, Zenon DEF v
  <2>13. cache' \in Cache
    BY <2>1, <2>5, <2>9, BatchWriteType, Zenon
  <2>14. UndoIsRight'
    BY <2>1, <2>2, Zenon DEF UndoIsRight
  <2>15. ~fault'
    BY <2>1, <2>2, <2>9, <2>12, Zenon
  <2>16. tip' \in Index /\ Branch(tip') \subseteq DOMAIN undo' /\ DOMAIN undo \subseteq DOMAIN undo'
    BY <2>1, <2>2, <2>3, Zenon
  <2>17. Peek(cache', coins) = Utxo(tip')
    BY <2>1, <2>12, Zenon DEF u
  <2> QED  BY <2>1, <2>12, <2>13, <2>14, <2>15, <2>16, <2>17, <1>run, Zenon
<1>cache. ASSUME NEW o \in Outpoints, ReadCoin(o) \/ UncacheCoin(o)
      PROVE  Inv'
  <2> USE <1>cache
  <2>1. /\ phase = "run" /\ phase' = "run" /\ UNCHANGED <<database, durable, undo, tip, fault>>
        /\ cache' = FetchCoin(cache, coins, o) \/ cache' = Uncache(cache, o)
    BY Zenon DEF ReadCoin, UncacheCoin
  <2>2. /\ cache \in Cache /\ coins \in Base /\ Sound(cache, coins) /\ Peek(cache, coins) = Utxo(tip)
        /\ tip \in Index /\ Branch(tip) \subseteq DOMAIN undo /\ UndoIsRight /\ ~fault
    BY <2>1, Zenon DEF Inv, TypeOK, Running, Up
  <2>3. cache' \in Cache /\ Sound(cache', coins) /\ Peek(cache', coins) = Peek(cache, coins)
    BY <2>1, <2>2, FetchCoinIs, UncacheIs, SMTT(30)
  <2>4. UndoIsRight'
    BY <2>1, <2>2, Zenon DEF UndoIsRight
  <2>5. ~fault'
    BY <2>1, <2>2, Zenon
  <2> QED  BY <2>1, <2>2, <2>3, <2>4, <2>5, <1>run, Zenon
<1>flush. ASSUME NEW wipe \in BOOLEAN, FlushStateToDisk(wipe)
      PROVE  Inv'
  <2> USE <1>flush
  <2>1. /\ phase = "run" /\ phase' = "write" /\ left' = Dirty(cache)
        /\ durable' = durable \cup DOMAIN undo \cup failed
        /\ UNCHANGED <<database, cache, tip, undo, fault>>
        /\ coins' = coins /\ best' = best /\ heads' = heads
    BY Zenon DEF FlushStateToDisk, database
  <2>2. /\ cache \in Cache /\ coins \in Base /\ Sound(cache, coins) /\ heads = <<>>
        /\ tip \in Index /\ Branch(tip) \subseteq DOMAIN undo /\ Genesis \in durable
    BY <2>1, Zenon DEF Inv, TypeOK, Running, Up, Stored
  <2>3. TypeOK' /\ UndoIsRight'
    BY <2>1, Zenon DEF Inv, TypeOK, UndoIsRight
  <2>4. Stored'
    BY <2>1, StoredStays, Zenon DEF Inv
  <2>5. OnDisk(tip)'
    <3>1. tip = Genesis \/ tip \in Branch(tip)
      BY <2>2, BranchIs DEF Index
    <3> QED  BY <3>1, <2>1, <2>2, Zenon DEF OnDisk
  <2>6. Writing'
    <3>1. \A o \in DOMAIN cache : /\ cache[o].coin = NoCoin => cache[o].dirty
                                  /\ o \notin Dirty(cache) => coins[o] = cache[o].coin
      BY <2>2, Zenon DEF Sound, Dirty
    <3> QED  BY <2>1, <2>2, <2>5, <3>1, Zenon DEF Writing
  <2>7. Up' /\ Running' /\ Down'
    BY <2>1, Zenon DEF Inv, Up, Running, Down
  <2> QED  BY <2>1, <2>3, <2>4, <2>6, <2>7, Zenon DEF Inv
<1>partial. ASSUME NEW S \in SUBSET left, PartialBatch(S)
      PROVE  Inv'
  <2> USE <1>partial
  <2>1. /\ phase \in {"write", "replay"} /\ coins' = DbWrite(coins, cache, S)
        /\ best' = NoBlock /\ heads' = <<tip, OldTip>> /\ left' = left \ S
        /\ fault' = (fault \/ OtherTip)
        /\ UNCHANGED <<cache, tip, undo, durable, phase>>
    BY Zenon DEF PartialBatch
  <2>2. /\ TypeOK /\ UndoIsRight /\ Stored /\ ~fault /\ cache \in Cache /\ coins \in Base
        /\ tip \in Index /\ Branch(tip) \subseteq DOMAIN undo /\ Peek(cache, coins) = Utxo(tip)
        /\ OnDisk(tip) /\ (heads # <<>> => heads[1] = tip) /\ left \subseteq Dirty(cache)
        /\ \A o \in DOMAIN cache : /\ cache[o].coin = NoCoin => cache[o].dirty
                                   /\ o \notin left => coins[o] = cache[o].coin
    BY <2>1, Zenon DEF Inv, TypeOK, Up, Writing
  <2>3. S \in SUBSET Dirty(cache) /\ DOMAIN cache \subseteq Outpoints /\ Dirty(cache) \subseteq DOMAIN cache
    BY <2>2, CacheElim, Zenon DEF Dirty
  <2>4. /\ \A o \in Outpoints : coins'[o] = IF o \in S THEN cache[o].coin ELSE coins[o]
        /\ coins' = [o \in Outpoints |-> coins'[o]]
    BY <2>1, Zenon DEF DbWrite
  <2>5. \A o \in DOMAIN cache : cache[o].coin = Utxo(tip)[o] /\ cache[o].coin \in Nat
    <3>1. \A o \in DOMAIN cache : Peek(cache, coins)[o] = cache[o].coin
      BY <2>3, Zenon DEF Peek
    <3>2. \A o \in DOMAIN cache : cache[o].coin \in Nat
      BY <2>2, CacheElim, Zenon DEF Entry
    <3> QED  BY <3>1, <3>2, <2>2, Zenon
  <2>6. coins' \in Base
    <3>1. \A o \in Outpoints : coins'[o] \in Nat
      BY <2>2, <2>3, <2>4, <2>5, Zenon DEF Base
    <3> QED  BY <3>1, <2>4, Zenon DEF Base
  <2>7. /\ OldTip \in Index \cup {NoBlock} /\ OnDisk(OldTip) /\ ~OtherTip
        /\ \A o \in Outpoints : coins[o] \in {Utxo(OldTip)[o], Utxo(tip)[o]}
    <3>1. CASE heads = <<>>
      <4>1. Len(heads) = 0
        BY <3>1, Zenon
      <4>2. OldTip = best /\ ~OtherTip
        BY <4>1 DEF OldTip, OtherTip
      <4> QED  BY <3>1, <4>2, <2>2, Zenon DEF TypeOK, Stored
    <3>2. CASE heads # <<>>
      <4>1. PICK a \in Index, b \in Index \cup {NoBlock} : heads = <<a, b>>
        BY <3>2, <2>2, Zenon DEF TypeOK
      <4>2. Len(heads) = 2 /\ heads[1] = a /\ heads[2] = b
        BY <4>1, Zenon
      <4>3. best = NoBlock /\ heads[1] = tip
        BY <3>2, <2>2, Zenon DEF Stored
      <4>4. OldTip = b /\ ~OtherTip
        BY <4>2, <4>3, Zenon DEF OldTip, OtherTip
      <4> QED  BY <3>2, <4>2, <4>3, <4>4, <2>2, Zenon DEF Stored
    <3> QED  BY <3>1, <3>2, Zenon
  <2>8. heads' # <<>> /\ heads'[1] = tip /\ heads'[2] = OldTip
    BY <2>1, Zenon
  <2>9. TypeOK'
    BY <2>1, <2>2, <2>6, <2>7, Zenon DEF TypeOK
  <2>10. UndoIsRight'
    BY <2>1, <2>2, ZenonT(30) DEF UndoIsRight
  <2>11. Stored'
    <3>1. \A o \in Outpoints : coins'[o] \in {Utxo(OldTip)[o], Utxo(tip)[o]}
      BY <2>3, <2>4, <2>5, <2>7, Zenon
    <3>2. Genesis \in durable'
      BY <2>1, <2>2, Zenon DEF Stored
    <3>4. \A o \in Outpoints : coins'[o] \in {Utxo(heads'[2])[o], Utxo(heads'[1])[o]}
      BY <3>1, <2>8, Zenon
    <3>5. OnDisk(heads[1])' /\ OnDisk(heads[2])'
      BY <2>1, <2>2, <2>7, <2>8, ZenonT(30) DEF OnDisk
    <3> QED  BY <3>2, <3>4, <3>5, <2>1, <2>8, Zenon DEF Stored
  <2>12. Up'
    <3>1. Peek(cache, coins') = Peek(cache, coins)
      BY <2>1, <2>2, <2>3, BatchIsInvisible, Zenon
    <3> QED  BY <3>1, <2>1, <2>2, Zenon DEF Up
  <2>13. Writing'
    <3>1. OnDisk(tip)'
      BY <2>1, <2>2, Zenon DEF OnDisk
    <3>2. \A o \in DOMAIN cache : o \notin left \ S => coins'[o] = cache[o].coin
      BY <2>2, <2>3, <2>4, Zenon
    <3> QED  BY <3>1, <3>2, <2>1, <2>2, <2>8, Zenon DEF Writing
  <2>14. Running' /\ Down'
    BY <2>1, Zenon DEF Running, Down
  <2>15. ~fault'
    BY <2>1, <2>2, <2>7, Zenon
  <2> QED  BY <2>9, <2>10, <2>11, <2>12, <2>13, <2>14, <2>15, Zenon DEF Inv
<1>final. ASSUME FinalBatch
      PROVE  Inv'
  <2> USE <1>final
  <2>1. /\ phase \in {"write", "replay"} /\ coins' = DbWrite(coins, cache, left)
        /\ best' = tip /\ heads' = <<>> /\ cache' = IF erase THEN NoCache ELSE AfterSync(cache)
        /\ phase' = "run" /\ fault' = (fault \/ OtherTip)
        /\ UNCHANGED <<tip, undo, durable>>
    BY Zenon DEF FinalBatch
  <2>2. /\ TypeOK /\ UndoIsRight /\ Stored /\ ~fault /\ cache \in Cache /\ coins \in Base
        /\ tip \in Index /\ Branch(tip) \subseteq DOMAIN undo /\ Peek(cache, coins) = Utxo(tip)
        /\ OnDisk(tip) /\ (heads # <<>> => heads[1] = tip) /\ left \subseteq Dirty(cache)
        /\ \A o \in DOMAIN cache : /\ cache[o].coin = NoCoin => cache[o].dirty
                                   /\ o \notin left => coins[o] = cache[o].coin
    BY <2>1, Zenon DEF Inv, TypeOK, Up, Writing
  <2>3. DOMAIN cache \subseteq Outpoints /\ left \subseteq DOMAIN cache
    BY <2>2, CacheElim, Zenon DEF Dirty
  <2>4. coins' = Peek(cache, coins)
    <3>1. \A o \in Outpoints : (IF o \in left THEN cache[o].coin ELSE coins[o])
                                 = (IF o \in DOMAIN cache THEN cache[o].coin ELSE coins[o])
      BY <2>2, <2>3, Zenon
    <3> QED  BY <3>1, <2>1, Zenon DEF DbWrite, Peek
  <2>5. coins' \in Base /\ coins' = Utxo(tip)
    BY <2>2, <2>4, PeekType, Zenon
  <2>6. cache' \in Cache /\ Sound(cache', coins') /\ Peek(cache', coins') = coins'
    <3>1. CASE erase
      BY <3>1, <2>1, <2>5, NoCacheIs, Zenon
    <3>2. CASE ~erase
      <4> DEFINE a == AfterSync(cache)
      <4>1. a \in Cache
        BY <2>2, AfterSyncType, Zenon
      <4>2. \A o \in DOMAIN a : /\ o \in DOMAIN cache /\ (cache[o].dirty => cache[o].coin # NoCoin)
                                /\ a[o] = [coin |-> cache[o].coin, dirty |-> FALSE, fresh |-> FALSE]
        BY Zenon DEF AfterSync
      <4>3. \A o \in DOMAIN cache : coins'[o] = cache[o].coin
        BY <2>3, <2>4, Zenon DEF Peek
      <4> HIDE DEF a
      <4>4. \A o \in DOMAIN a : /\ a[o].coin = coins'[o] /\ ~a[o].dirty /\ ~a[o].fresh
                                /\ a[o].coin # NoCoin
        BY <4>2, <4>3, <2>2
      <4>5. Sound(a, coins')
        BY <4>4, Zenon DEF Sound
      <4>6. Peek(a, coins') = coins'
        BY <4>4, <2>5, Zenon DEF Peek, Base
      <4> QED  BY <4>1, <4>5, <4>6, <3>2, <2>1, Zenon DEF a
    <3> QED  BY <3>1, <3>2, Zenon
  <2>7. ~OtherTip
    <3>1. CASE heads = <<>>
      <4>1. Len(heads) = 0
        BY <3>1, Zenon
      <4> QED  BY <4>1 DEF OtherTip
    <3>2. CASE heads # <<>>
      BY <3>2, <2>2, Zenon DEF OtherTip
    <3> QED  BY <3>1, <3>2, Zenon
  <2>8. TypeOK'
    BY <2>1, <2>2, <2>5, <2>6, Zenon DEF TypeOK
  <2>9. UndoIsRight'
    BY <2>1, <2>2, ZenonT(30) DEF UndoIsRight
  <2>10. Stored'
    <3>1. OnDisk(best)'
      BY <2>1, <2>2, Zenon DEF OnDisk
    <3> QED  BY <3>1, <2>1, <2>2, <2>5, Zenon DEF Stored
  <2>11. Up' /\ Running' /\ Writing' /\ Down'
    BY <2>1, <2>2, <2>5, <2>6, Zenon DEF Up, Running, Writing, Down
  <2>12. ~fault'
    BY <2>1, <2>2, <2>7, Zenon
  <2> QED  BY <2>8, <2>9, <2>10, <2>11, <2>12, Zenon DEF Inv
<1>crash. ASSUME Crash
      PROVE  Inv'
  <2> USE <1>crash
  <2>1. /\ phase' = "down" /\ cache' = NoCache /\ UNCHANGED <<database, durable, fault>>
        /\ undo' = [b \in DOMAIN undo \cap durable |-> undo[b]]
        /\ coins' = coins /\ best' = best /\ heads' = heads /\ durable' = durable
    BY Zenon DEF Crash, database
  <2>2. TypeOK'
    BY <2>1, NoCacheIs, Zenon DEF Inv, TypeOK
  <2>3. UndoIsRight'
    BY <2>1, ZenonT(30) DEF Inv, UndoIsRight
  <2>4. Stored'
    BY <2>1, StoredStays, Zenon DEF Inv
  <2>5. Up' /\ Running' /\ Writing' /\ Down'
    BY <2>1, Zenon DEF Up, Running, Writing, Down
  <2> QED  BY <2>1, <2>2, <2>3, <2>4, <2>5, Zenon DEF Inv
<1>restart. ASSUME Restart
      PROVE  Inv'
  <2> USE <1>restart
  <2>1. /\ phase = "down" /\ heads = <<>> /\ phase' = "run"
        /\ tip' = IF best = NoBlock THEN Genesis ELSE best
        /\ fault' = (fault \/ best \notin durable \cup {NoBlock})
        /\ UNCHANGED <<database, cache, undo, durable>>
        /\ coins' = coins /\ best' = best /\ heads' = heads
    BY Zenon DEF Restart, database
  <2>2. /\ TypeOK /\ UndoIsRight /\ Stored /\ ~fault /\ cache = NoCache /\ coins \in Base
        /\ coins = Utxo(best) /\ OnDisk(best) /\ best \in Index \cup {NoBlock}
    BY <2>1, Zenon DEF Inv, TypeOK, Stored, Down
  <2>3. TypeOK' /\ UndoIsRight'
    BY <2>1, <2>2, ZenonT(30) DEF TypeOK, UndoIsRight
  <2>4. Stored'
    BY <2>1, <2>2, StoredStays, Zenon
  <2>5. Peek(cache, coins) = coins /\ Sound(cache, coins)
    BY <2>2, NoCacheIs, Zenon
  <2>6. tip' \in Index /\ Utxo(tip') = Utxo(best) /\ Branch(tip') = Branch(best)
    <3>1. CASE best = NoBlock
      <4>1. Utxo(Genesis) = Utxo(NoBlock) /\ Branch(Genesis) = Branch(NoBlock) /\ Genesis \in Index
        BY UtxoEmpty, BranchIs, Zenon DEF Index
      <4> QED  BY <3>1, <4>1, <2>1, Zenon
    <3>2. CASE best # NoBlock
      BY <3>2, <2>1, <2>2, Zenon
    <3> QED  BY <3>1, <3>2, Zenon
  <2>7. Branch(best) \subseteq DOMAIN undo /\ best \in durable \cup {NoBlock}
    BY <2>2, Zenon DEF OnDisk
  <2>8. Up' /\ Running' /\ Writing' /\ Down'
    BY <2>1, <2>2, <2>5, <2>6, <2>7, Zenon DEF Up, Running, Writing, Down
  <2>9. ~fault'
    BY <2>1, <2>2, <2>7, Zenon
  <2> QED  BY <2>3, <2>4, <2>8, <2>9, Zenon DEF Inv
<1>isreplay. ASSUME phase = "down", heads # <<>>
      PROVE  LET back == IF heads[2] = NoBlock THEN NoCache ELSE RollBack(heads[2], Fork, coins)
                 c == RollForward(back, Fork, heads[1], coins)
             IN  /\ Replayable
                 /\ c \in Cache /\ Sound(c, coins) /\ Peek(c, coins) = Utxo(heads[1])
  <2> USE <1>isreplay
  <2> DEFINE new == heads[1]
             old == heads[2]
             back == IF old = NoBlock THEN NoCache ELSE RollBack(old, Fork, coins)
             c == RollForward(back, Fork, new, coins)
  <2>1. new \in Index /\ old \in Index \cup {NoBlock}
    <3>1. PICK a \in Index, b \in Index \cup {NoBlock} : heads = <<a, b>>
      BY Zenon DEF Inv, TypeOK
    <3> QED  BY <3>1, Zenon
  <2>2. /\ OnDisk(new) /\ OnDisk(old) /\ coins \in Base /\ UndoIsRight
        /\ \A o \in Outpoints : coins[o] \in {Utxo(old)[o], Utxo(new)[o]}
    BY Zenon DEF Inv, TypeOK, Stored
  <2>3. Replayable
    BY <2>2, Zenon DEF Replayable, OnDisk
  <2>4. Good(new) /\ Good(old) /\ Undoable(old)
    BY <2>2, ChainIsGood, Zenon DEF OnDisk
  <2>5. Fork \in Ancestors[new] /\ (old # NoBlock => Fork \in Ancestors[old])
    <3>1. CASE old = NoBlock
      BY <3>1, <2>1, AncestorsChain, Zenon DEF Fork, Chain
    <3>2. CASE old # NoBlock
      BY <3>2, <2>1, LastCommonAncestorIs, Zenon DEF Fork
    <3> QED  BY <3>1, <3>2, Zenon
  <2>6. /\ back \in Cache /\ Sound(back, coins)
        /\ \A o \in Outpoints : Peek(back, coins)[o] \in {Utxo(Fork)[o], Utxo(new)[o]}
    <3>1. CASE old = NoBlock
      <4>1. back = NoCache /\ Fork = Genesis
        BY <3>1, Zenon DEF Fork
      <4>2. Utxo(Genesis) = Utxo(NoBlock)
        BY UtxoEmpty, Zenon
      <4>3. NoCache \in Cache /\ Sound(NoCache, coins) /\ Peek(NoCache, coins) = coins
        BY <2>2, NoCacheIs, Zenon
      <4> HIDE DEF back, new, old
      <4> QED  BY <3>1, <4>1, <4>2, <4>3, <2>2, Zenon
    <3>2. CASE old # NoBlock
      <4>1. back = RollBack(old, Fork, coins)
        BY <3>2, Zenon
      <4>2. old \in Index
        BY <3>2, <2>1, Zenon
      <4> HIDE DEF back, new, old
      <4>3. /\ back \in Cache /\ Sound(back, coins)
            /\ \A o \in Outpoints : \/ Peek(back, coins)[o] = Utxo(Fork)[o]
                                    \/ Peek(back, coins)[o] = coins[o] /\ Utxo(Fork)[o] = Utxo(old)[o]
        BY <3>2, <4>1, <4>2, <2>2, <2>4, <2>5, RollBackIs, ZenonT(30)
      <4> QED  BY <4>3, <2>2, Zenon
    <3> QED  BY <3>1, <3>2, Zenon
  <2> HIDE DEF back
  <2>7. c \in Cache /\ Sound(c, coins) /\ Peek(c, coins) = Utxo(new)
    BY <2>1, <2>2, <2>4, <2>5, <2>6, RollForwardIs, Zenon
  <2> QED  BY <2>3, <2>7, Zenon DEF back
<1>replay. ASSUME ReplayBlocks
      PROVE  Inv'
  <2> USE <1>replay
  <2> DEFINE back == IF heads[2] = NoBlock THEN NoCache ELSE RollBack(heads[2], Fork, coins)
             c == RollForward(back, Fork, heads[1], coins)
  <2>1. /\ phase = "down" /\ heads # <<>> /\ UNCHANGED <<database, undo, durable>>
        /\ coins' = coins /\ best' = best /\ heads' = heads
    BY Zenon DEF ReplayBlocks, database
  <2>2. Replayable /\ c \in Cache /\ Sound(c, coins) /\ Peek(c, coins) = Utxo(heads[1])
    BY <2>1, <1>isreplay, Zenon
  <2>3. /\ cache' = c /\ left' = Dirty(c) /\ tip' = heads[1] /\ phase' = "replay" /\ UNCHANGED fault
    BY <2>2, Zenon DEF ReplayBlocks
  <2> HIDE DEF c
  <2>4. /\ TypeOK /\ UndoIsRight /\ Stored /\ ~fault /\ OnDisk(heads[1])
    BY <2>1, Zenon DEF Inv, Stored
  <2>5. heads[1] \in Index
    <3>1. PICK a \in Index, b \in Index \cup {NoBlock} : heads = <<a, b>>
      BY <2>1, <2>4, Zenon DEF TypeOK
    <3> QED  BY <3>1, Zenon
  <2>6. TypeOK' /\ UndoIsRight'
    BY <2>1, <2>2, <2>3, <2>4, Zenon DEF TypeOK, UndoIsRight
  <2>7. Stored'
    BY <2>1, <2>4, StoredStays, Zenon
  <2>8. Up'
    <3>1. Branch(tip') \subseteq DOMAIN undo'
      BY <2>1, <2>3, <2>4, Zenon DEF OnDisk
    <3> QED  BY <3>1, <2>1, <2>2, <2>3, <2>5, Zenon DEF Up
  <2>9. Writing'
    <3>1. OnDisk(tip)'
      BY <2>1, <2>3, <2>4, Zenon DEF OnDisk
    <3>2. \A o \in DOMAIN c : /\ c[o].coin = NoCoin => c[o].dirty
                              /\ o \notin Dirty(c) => coins[o] = c[o].coin
      BY <2>2, Zenon DEF Sound, Dirty
    <3> QED  BY <3>1, <3>2, <2>1, <2>3, Zenon DEF Writing
  <2>10. Running' /\ Down'
    BY <2>3, Zenon DEF Running, Down
  <2>11. ~fault'
    BY <2>3, <2>4, Zenon
  <2> QED  BY <2>6, <2>7, <2>8, <2>9, <2>10, <2>11, Zenon DEF Inv
<1>1. CASE UNCHANGED vars
  BY <1>1, ZenonT(30) DEF vars, Inv, TypeOK, UndoIsRight, Stored, OnDisk, Up, Running, Writing, Down
<1>2. CASE Next
  BY <1>2, <1>connect, <1>disconnect, <1>cache, <1>flush, <1>partial,
     <1>final, <1>crash, <1>restart, <1>replay, Zenon DEF Next
<1> QED  BY <1>1, <1>2, Zenon

-----------------------------------------------------------------------------
(* The theorems.                                                           *)

INSTANCE WellFoundedInduction

\* The hypothesis of the lemmas above, from the library's theorem that the
\* natural numbers are well founded under their order.
LEMMA NumbersAreWellOrdered == WellOrdered
<1> SUFFICES ASSUME NEW T \in SUBSET Nat, T # {}
             PROVE  \E x \in T : \A y \in T : x <= y
  BY Zenon DEF WellOrdered
<1> DEFINE R == {ss \in Nat \X Nat : ss[1] < ss[2]}
<1>1. IsWellFoundedOn(R, Nat)
  BY NatLessThanWellFounded, Zenon DEF OpToRel
<1> HIDE DEF R
<1>2. PICK x \in T : \A y \in T : ~(<<y, x>> \in R)
  BY <1>1, WFMin, Zenon
<1>3. \A y \in Nat : <<y, x>> \in R <=> y < x
  BY Zenon DEF R
<1>4. \A y \in T : x \in Nat /\ y \in Nat /\ ~(y < x)
  BY <1>2, <1>3, Zenon
<1> QED
  BY <1>4

\* The inductive invariant holds in every reachable state, for every tree of
\* blocks and through any number of crashes: the view shows the chain of the tip,
\* the database is the best block's or a mix of the two tips its heads name, and
\* what is needed to replay is on disk.
THEOREM ChainstateInvariant == Spec => []Inv
<1>1. Init => Inv
  BY InitInv, NumbersAreWellOrdered, Zenon
<1>2. Inv /\ [Next]_vars => Inv'
  BY NextInv, NumbersAreWellOrdered, Zenon
<1> QED  BY <1>1, <1>2, PTL DEF Spec

\* For every tree of blocks: what is read through CoinsTip() is always exactly the
\* unspent outputs of the chain that ends in its best block, through any
\* sequence of ConnectTip, DisconnectTip, reads, flushes, crashes and replays.
THEOREM ViewIsAlwaysTheChain == Spec => []ViewIsChain
<1>1. Inv => ViewIsChain
  BY Zenon DEF Inv, Up, ViewIsChain
<1> QED  BY <1>1, ChainstateInvariant, PTL

\* A database that names a best block holds exactly that chain's unspent outputs
\* (CCoinsViewDB::BatchWrite), whatever stopped the writes before.
THEOREM DatabaseIsAlwaysBest == Spec => []DatabaseIsBest
<1>1. Inv => DatabaseIsBest
  BY Zenon DEF Inv, Stored, DatabaseIsBest
<1> QED  BY <1>1, ChainstateInvariant, PTL

\* The flags of the tip's cache keep the meaning CCoinsCacheEntry::Flags gives
\* them.
THEOREM FlagsAlwaysMean == Spec => []FlagsMeanWhatTheySay
<1>1. Inv => FlagsMeanWhatTheySay
  BY Zenon DEF Inv, Running, FlagsMeanWhatTheySay
<1> QED  BY <1>1, ChainstateInvariant, PTL

\* No assertion fails and no logic_error is thrown: AddCoin, BatchWrite and
\* DisconnectTip find what they expect, a restart finds its best block, and
\* ReplayBlocks all the blocks and undo data it needs.
THEOREM NothingFails == Spec => []NeverFails
<1>1. Inv => NeverFails
  BY Zenon DEF Inv, NeverFails
<1> QED  BY <1>1, ChainstateInvariant, PTL
=============================================================================
