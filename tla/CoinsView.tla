------------------------------ MODULE CoinsView ------------------------------
(***************************************************************************)
(* The layered view of the unspent outputs (coins.h, coins.cpp): caches    *)
(* whose entries carry DIRTY and FRESH flags, each on top of a base.       *)
(*                                                                         *)
(* A coin is the height of the block that made it (Coin::nHeight); the     *)
(* scripts and the amounts decide nothing here.  A base is what its        *)
(* GetCoin answers, a function from every outpoint to its coin or NoCoin.  *)
(* A cache is a function from the outpoints it holds to their entries.     *)
(***************************************************************************)
EXTENDS Integers, FiniteSets

CONSTANT Outpoints

\* What GetCoin answers for an output that does not exist or is spent, and
\* what Coin::Clear leaves in an entry.
NoCoin == 0
Coins == Nat \ {NoCoin}

Entry == [coin : Nat, dirty : BOOLEAN, fresh : BOOLEAN]
Cache == UNION {[S -> Entry] : S \in SUBSET Outpoints}
Base == [Outpoints -> Nat]

NoCache == [o \in {} |-> NoCoin]

Put(cache, o, e) ==
  [p \in DOMAIN cache \cup {o} |-> IF p = o THEN e ELSE cache[p]]

Drop(cache, o) == [p \in DOMAIN cache \ {o} |-> cache[p]]

Dirty(cache) == {o \in DOMAIN cache : cache[o].dirty}

\* PeekCoin: the coins a reader sees through a cache, without filling it.
Peek(cache, base) ==
  [o \in Outpoints |-> IF o \in DOMAIN cache THEN cache[o].coin ELSE base[o]]

\* FetchCoin: a miss copies the base's coin into the cache, unflagged.
FetchCoin(cache, base, o) ==
  IF o \in DOMAIN cache \/ base[o] = NoCoin THEN cache
  ELSE Put(cache, o, [coin |-> base[o], dirty |-> FALSE, fresh |-> FALSE])

\* The logic_error of AddCoin.
AddCoinThrows(cache, o, overwrite) ==
  ~overwrite /\ o \in DOMAIN cache /\ cache[o].coin # NoCoin

\* A flag once set stays until the entry is cleaned, so FRESH survives an
\* overwrite.
AddCoin(cache, o, coin, overwrite) ==
  LET held == o \in DOMAIN cache
      fresh == ~overwrite /\ ~(held /\ cache[o].dirty)
  IN Put(cache, o, [coin |-> coin, dirty |-> TRUE,
                    fresh |-> fresh \/ (held /\ cache[o].fresh)])

SpendCoin(cache, base, o) ==
  LET c == FetchCoin(cache, base, o) IN
  IF o \notin DOMAIN c THEN c
  ELSE IF c[o].fresh THEN Drop(c, o)
  ELSE Put(c, o, [coin |-> NoCoin, dirty |-> TRUE, fresh |-> FALSE])

Uncache(cache, o) ==
  IF o \in DOMAIN cache /\ ~cache[o].dirty THEN Drop(cache, o) ELSE cache

\* CCoinsViewCache::BatchWrite: the logic_error, then the entries of the
\* child that reach the parent.  Entries are independent of each other.
BatchWriteThrows(parent, child) ==
  \E o \in Dirty(child) \cap DOMAIN parent :
     child[o].fresh /\ parent[o].coin # NoCoin

\* The outpoints that leave, or never enter, the parent.
BatchDrops(parent, child) ==
  {o \in Dirty(child) :
     /\ child[o].coin = NoCoin
     /\ IF o \in DOMAIN parent THEN parent[o].fresh ELSE child[o].fresh}

\* Slip: the child's FRESH flag handed to an entry the parent already has.
BatchWriteFresh(parent, child) ==
  [o \in (DOMAIN parent \cup Dirty(child)) \ BatchDrops(parent, child) |->
     IF o \notin Dirty(child) THEN parent[o]
     ELSE [coin |-> child[o].coin, dirty |-> TRUE, fresh |-> child[o].fresh]]

BatchWrite(parent, child) ==
  [o \in (DOMAIN parent \cup Dirty(child)) \ BatchDrops(parent, child) |->
     IF o \notin Dirty(child) THEN parent[o]
     ELSE [coin |-> child[o].coin, dirty |-> TRUE,
           fresh |-> IF o \in DOMAIN parent THEN parent[o].fresh
                                            ELSE child[o].fresh]]

\* What Sync leaves of the cache it wrote out: NextAndMaybeErase erases the
\* spent entries and cleans the others.  Flush leaves nothing.
AfterSync(cache) ==
  [o \in {p \in DOMAIN cache : cache[p].dirty => cache[p].coin # NoCoin} |->
     [coin |-> cache[o].coin, dirty |-> FALSE, fresh |-> FALSE]]

\* Slip: a write that forgets to erase what is spent.
DbWriteNoErase(db, cache, S) ==
  [o \in Outpoints |-> IF o \in S /\ cache[o].coin # NoCoin THEN cache[o].coin ELSE db[o]]

\* CCoinsViewDB::BatchWrite of the entries of S: spent ones are erased.
DbWrite(db, cache, S) ==
  [o \in Outpoints |-> IF o \in S THEN cache[o].coin ELSE db[o]]

\* SanityCheck, with what the comments on Flags say the two flags mean: an
\* entry that is not DIRTY is the base's coin, and the base has no coin of a
\* FRESH entry.
Sound(cache, base) ==
  \A o \in DOMAIN cache :
     /\ cache[o].coin = NoCoin => cache[o].dirty /\ ~cache[o].fresh
     /\ cache[o].fresh => cache[o].dirty /\ base[o] = NoCoin
     /\ ~cache[o].dirty => cache[o].coin = base[o]
=============================================================================
