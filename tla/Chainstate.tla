------------------------------ MODULE Chainstate ------------------------------
(***************************************************************************)
(* The unspent outputs of the active chain (validation.cpp, txdb.cpp):     *)
(* blocks connected and disconnected through a view on the tip's cache,    *)
(* the cache written to the database in several batches, the process       *)
(* stopping between any two of them, and ReplayBlocks at the next start.   *)
(*                                                                         *)
(* A block is the sequence of its inputs and outputs in transaction order, *)
(* the inputs of a transaction before its outputs.  cs_main is held over   *)
(* each of the actions below, so they do not interleave, except that the   *)
(* process may stop between two database batches.  Which of two branches   *)
(* is followed is ActivateBestChain's choice and is left open.             *)
(*                                                                         *)
(* A loop of the code is a recursive function of the number of its turns.  *)
(***************************************************************************)
EXTENDS CoinsView, Sequences

CONSTANTS
  Blocks,         \* the blocks on top of Genesis, valid or not
  Genesis,        \* has no spendable output
  Parent,         \* pprev of every block of Blocks
  Height,         \* nHeight of every block
  Ops,            \* their inputs and outputs
  BadScripts,     \* the blocks a script, levy or amount check refuses
  NoBlock         \* the null hash

Index == Blocks \cup {Genesis}

ASSUME TreeAssumption ==
  /\ Genesis \notin Blocks /\ NoBlock \notin Index
  /\ Parent \in [Blocks -> Index]
  /\ Height \in [Index -> Nat] /\ Height[Genesis] = 0
  /\ \A b \in Blocks : Height[b] = Height[Parent[b]] + 1

\* An input, or an output of a coinbase (cb) or of another transaction.
Op == [kind : {"spend", "add"}, o : Outpoints, cb : BOOLEAN]

\* The transactions of a block have ids of their own (CheckMerkleRoot), so no
\* two of its outputs are one outpoint.
ASSUME OpsAssumption ==
  /\ Ops \in [Blocks -> Seq(Op)]
  /\ \A b \in Blocks : \A i, j \in DOMAIN Ops[b] :
       Ops[b][i].kind = "add" /\ Ops[b][j].kind = "add" /\ Ops[b][i].o = Ops[b][j].o => i = j

VARIABLES
  coins, best, heads,   \* the database: DB_COIN, DB_BEST_BLOCK, DB_HEAD_BLOCKS
  cache, tip,           \* CoinsTip() and its best block
  undo,                 \* undo data written per connected block
  failed,               \* blocks marked BLOCK_FAILED_VALID
  durable,              \* blocks whose index entry and undo data are on disk
  phase,                \* "run", "write", "down" or "replay"
  left, erase,          \* the write under way: entries to write, Flush or Sync
  fault                 \* an assertion failed or a logic_error was thrown

database == <<coins, best, heads>>
vars == <<coins, best, heads, cache, tip, undo, failed, durable, phase, left,
          erase, fault>>

-------------------------------------------------------------------------------
Ancestors[b \in Index] == IF b = Genesis THEN {b} ELSE {b} \cup Ancestors[Parent[b]]

\* The blocks above Genesis of the chain that ends in b.
Branch(b) == IF b = NoBlock THEN {} ELSE Ancestors[b] \ {Genesis}

GetAncestor(b, h) == CHOOSE a \in Ancestors[b] : Height[a] = h

LastCommonAncestor(b, c) ==
  LET common == Ancestors[b] \cap Ancestors[c]
  IN  CHOOSE a \in common : \A d \in common : Height[d] <= Height[a]

Touched(b) == {Ops[b][i].o : i \in DOMAIN Ops[b]}

\* FetchCoin of the outpoints of S, in any order.
FetchAll(c, base, S) ==
  [o \in DOMAIN c \cup {p \in S : base[p] # NoCoin} |->
     IF o \in DOMAIN c THEN c[o] ELSE [coin |-> base[o], dirty |-> FALSE, fresh |-> FALSE]]

-------------------------------------------------------------------------------
\* One input or output in ConnectBlock: CheckTxInputs, then UpdateCoins.
ConnectOp(s, op, base, h) ==
  IF ~s.ok THEN s
  ELSE IF op.kind = "spend" THEN
    LET coin == Peek(s.view, base)[op.o] IN
    [s EXCEPT !.ok = coin # NoCoin,
              !.undo = Put(@, op.o, coin),
              !.view = SpendCoin(@, base, op.o)]
  ELSE [s EXCEPT !.throws = @ \/ AddCoinThrows(s.view, op.o, op.cb),
                 !.view = AddCoin(@, op.o, h, op.cb)]

\* BIP30: no output of the block is there already.
NoOverwrite(b, base) ==
  \A i \in DOMAIN Ops[b] : Ops[b][i].kind = "add" => base[Ops[b][i].o] = NoCoin

ConnectOps(b, base) ==
  LET s[i \in 0..Len(Ops[b])] ==
        IF i = 0 THEN [view |-> NoCache, undo |-> NoCache, ok |-> NoOverwrite(b, base), throws |-> FALSE]
        ELSE ConnectOp(s[i - 1], Ops[b][i], base, Height[b])
  IN  s[Len(Ops[b])]

ConnectBlock(b, base) == [ConnectOps(b, base) EXCEPT !.ok = @ /\ b \notin BadScripts]

\* One output (spent again) or input (ApplyTxInUndo) in DisconnectBlock.
DisconnectOp(s, op, base, b) ==
  IF op.kind = "add"
  THEN [view |-> SpendCoin(s.view, base, op.o),
        clean |-> s.clean /\ Peek(s.view, base)[op.o] = Height[b]]
  ELSE LET v == FetchCoin(s.view, base, op.o)
           have == Peek(v, base)[op.o] # NoCoin
       IN [view |-> AddCoin(v, op.o, undo[b][op.o], have),
           clean |-> s.clean /\ ~have]

DisconnectBlock(b, view, base) ==
  LET n == Len(Ops[b])
      s[i \in 0..n] == IF i = 0 THEN [view |-> view, clean |-> TRUE]
                       ELSE DisconnectOp(s[i - 1], Ops[b][n + 1 - i], base, b)
  IN  s[n]

\* RollforwardBlock: the block may already have been applied.
RollforwardOp(view, op, base, h) ==
  IF op.kind = "spend" THEN SpendCoin(view, base, op.o)
  ELSE LET v == FetchCoin(view, base, op.o)
       IN AddCoin(v, op.o, h, Peek(v, base)[op.o] # NoCoin)

RollforwardBlock(b, view, base) ==
  LET v[i \in 0..Len(Ops[b])] ==
        IF i = 0 THEN view ELSE RollforwardOp(v[i - 1], Ops[b][i], base, Height[b])
  IN  v[Len(Ops[b])]

\* Along the old branch down to the fork.
RollBack(old, fork, base) ==
  LET s[i \in 0..Height[old]] ==
        IF i = 0 THEN [view |-> NoCache, at |-> old]
        ELSE IF s[i - 1].at = fork THEN s[i - 1]
        ELSE [view |-> DisconnectBlock(s[i - 1].at, s[i - 1].view, base).view,
              at |-> Parent[s[i - 1].at]]
  IN  s[Height[old]].view

\* From the fork up to the new tip.
RollForward(view, fork, new, base) ==
  LET v[i \in 0..Height[new]] ==
        IF i <= Height[fork] THEN view
        ELSE RollforwardBlock(GetAncestor(new, i), v[i - 1], base)
  IN  v[Height[new]]

-------------------------------------------------------------------------------
Init ==
  /\ coins = [o \in Outpoints |-> NoCoin] /\ best = NoBlock /\ heads = <<>>
  /\ cache = NoCache /\ tip = Genesis
  /\ undo = NoCache /\ failed = {} /\ durable = {Genesis}
  /\ phase = "run" /\ left = {} /\ erase = FALSE
  /\ fault = FALSE

\* ConnectTip: the overlay is flushed to the tip's cache on success and
\* reset in any case.  A refused block is marked, and nothing else changes.
ConnectTip(b) ==
  /\ phase = "run"
  /\ Parent[b] = tip /\ b \notin failed
  /\ LET r == ConnectBlock(b, Peek(cache, coins)) IN
     IF r.ok
     THEN /\ cache' = BatchWrite(cache, r.view)
          /\ fault' = (fault \/ r.throws \/ BatchWriteThrows(cache, r.view))
          /\ undo' = Put(undo, b, r.undo)
          /\ tip' = b
          /\ UNCHANGED failed
     ELSE /\ failed' = failed \cup {b}
          /\ UNCHANGED <<cache, tip, undo, fault>>
  /\ UNCHANGED <<database, durable, phase, left, erase>>

\* DisconnectTip: its view reads through the tip's cache and fills it.
DisconnectTip ==
  /\ phase = "run" /\ tip # Genesis
  /\ LET c == FetchAll(cache, coins, Touched(tip))
         r == DisconnectBlock(tip, NoCache, Peek(c, coins))
     IN /\ cache' = BatchWrite(c, r.view)
        /\ fault' = (fault \/ ~r.clean \/ BatchWriteThrows(c, r.view))
  /\ tip' = Parent[tip]
  /\ UNCHANGED <<database, undo, failed, durable, phase, left, erase>>

\* A reader of CoinsTip() (the mempool's checks) fills it, and Uncache
\* drops an entry that is not dirty.
ReadCoin(o) ==
  /\ phase = "run"
  /\ cache' = FetchCoin(cache, coins, o)
  /\ UNCHANGED <<database, tip, undo, failed, durable, phase, left, erase, fault>>

UncacheCoin(o) ==
  /\ phase = "run"
  /\ cache' = Uncache(cache, o)
  /\ UNCHANGED <<database, tip, undo, failed, durable, phase, left, erase, fault>>

\* Slip: the coins written before the undo data and the index are on disk.
FlushCoinsFirst(wipe) ==
  /\ phase = "run"
  /\ phase' = "write" /\ left' = Dirty(cache) /\ erase' = wipe
  /\ UNCHANGED <<database, cache, tip, undo, failed, durable, fault>>

\* FlushStateToDisk: undo data and block index first, then the coins.
FlushStateToDisk(wipe) ==
  /\ phase = "run"
  /\ durable' = durable \cup DOMAIN undo \cup failed
  /\ phase' = "write" /\ left' = Dirty(cache) /\ erase' = wipe
  /\ UNCHANGED <<database, cache, tip, undo, failed, fault>>

\* Slip: the old tip of a write that does not know it completes an earlier one.
OldTipForgotten == best

\* The old tip CCoinsViewDB::BatchWrite writes into DB_HEAD_BLOCKS.
OldTip == IF best = NoBlock /\ Len(heads) = 2 THEN heads[2] ELSE best

\* Its assertion that a write that was left unfinished was to the same tip.
OtherTip == best = NoBlock /\ Len(heads) = 2 /\ heads[1] # tip

\* A batch that is not the last one.
PartialBatch(S) ==
  /\ phase \in {"write", "replay"}
  /\ S # {} /\ S \subseteq left
  /\ coins' = DbWrite(coins, cache, S)
  /\ best' = NoBlock /\ heads' = <<tip, OldTip>>
  /\ left' = left \ S
  /\ fault' = (fault \/ OtherTip)
  /\ UNCHANGED <<cache, tip, undo, failed, durable, phase, erase>>

\* The last batch, and what Flush or Sync then does to the cache.
FinalBatch ==
  /\ phase \in {"write", "replay"}
  /\ coins' = DbWrite(coins, cache, left)
  /\ best' = tip /\ heads' = <<>>
  /\ cache' = IF erase THEN NoCache ELSE AfterSync(cache)
  /\ phase' = "run" /\ left' = {} /\ erase' = FALSE
  /\ fault' = (fault \/ OtherTip)
  /\ UNCHANGED <<tip, undo, failed, durable>>

\* The process stops.  What was only in memory is lost.
Crash ==
  /\ phase # "down"
  /\ phase' = "down"
  /\ cache' = NoCache /\ tip' = NoBlock
  /\ undo' = [b \in DOMAIN undo \cap durable |-> undo[b]]
  /\ failed' = failed \cap durable
  /\ left' = {} /\ erase' = FALSE
  /\ UNCHANGED <<database, durable, fault>>

\* Start with a consistent database: LoadChainTip looks its best block up in
\* the block index.
Restart ==
  /\ phase = "down" /\ heads = <<>>
  /\ phase' = "run"
  /\ tip' = IF best = NoBlock THEN Genesis ELSE best
  /\ fault' = (fault \/ best \notin durable \cup {NoBlock})
  /\ UNCHANGED <<database, cache, undo, failed, durable, left, erase>>

\* The latest block common to the old and the new tip; on a first write there is
\* no old one.
Fork == IF heads[2] = NoBlock THEN Genesis ELSE LastCommonAncestor(heads[2], heads[1])

\* What ReplayBlocks needs to find on disk.
Replayable ==
  /\ {heads[1], heads[2]} \subseteq durable \cup {NoBlock}
  /\ Branch(heads[2]) \ Branch(Fork) \subseteq DOMAIN undo

\* Start after a write that did not finish: undo the old branch and redo the
\* new one in a cache on the database, then write that cache.
ReplayBlocks ==
  /\ phase = "down" /\ heads # <<>>
  /\ IF Replayable
     THEN LET back == IF heads[2] = NoBlock THEN NoCache ELSE RollBack(heads[2], Fork, coins)
              c == RollForward(back, Fork, heads[1], coins)
          IN /\ cache' = c /\ left' = Dirty(c)
             /\ tip' = heads[1]
             /\ phase' = "replay" /\ erase' = TRUE
             /\ UNCHANGED fault
     ELSE fault' = TRUE /\ UNCHANGED <<cache, left, tip, phase, erase>>
  /\ UNCHANGED <<database, undo, failed, durable>>

Next ==
  \/ \E b \in Blocks : ConnectTip(b)
  \/ DisconnectTip
  \/ \E o \in Outpoints : ReadCoin(o) \/ UncacheCoin(o)
  \/ \E wipe \in BOOLEAN : FlushStateToDisk(wipe)
  \/ \E S \in SUBSET left : PartialBatch(S)
  \/ FinalBatch
  \/ Crash
  \/ Restart
  \/ ReplayBlocks

Spec == Init /\ [][Next]_vars

-------------------------------------------------------------------------------
\* The unspent outputs of the chain ending in b, by definition: the last
\* input or output of the chain that names o decides.
Users(b, o) == {a \in Branch(b) : o \in Touched(a)}

LastUser(b, o) == CHOOSE a \in Users(b, o) : \A c \in Users(b, o) : Height[c] <= Height[a]

LastUse(b, o) ==
  Ops[b][CHOOSE i \in DOMAIN Ops[b] :
           Ops[b][i].o = o /\ \A j \in DOMAIN Ops[b] : Ops[b][j].o = o => j <= i]

Utxo(b) ==
  [o \in Outpoints |->
     IF Users(b, o) = {} THEN NoCoin
     ELSE LET a == LastUser(b, o)
          IN  IF LastUse(a, o).kind = "add" THEN Height[a] ELSE NoCoin]

\* Whatever was connected, disconnected, cached, dropped, partly written or
\* replayed, reading through CoinsTip() gives exactly the unspent outputs of
\* the chain that ends in its best block (ConnectTip, DisconnectTip,
\* CCoinsViewCache::BatchWrite, ReplayBlocks).
ViewIsChain == phase # "down" => Peek(cache, coins) = Utxo(tip)

\* A database that names a best block (CCoinsViewDB::BatchWrite's last batch)
\* holds exactly the unspent outputs of that block's chain, also when that
\* write finished a replay.
DatabaseIsBest ==
  heads = <<>> => coins = Utxo(best)

\* SanityCheck, and the meaning the comments of CCoinsCacheEntry::Flags give
\* the flags: a FRESH coin is absent from the database and a clean entry is
\* equal to it, so dropping the one and not writing the other loses nothing.
FlagsMeanWhatTheySay == phase = "run" => Sound(cache, coins)

\* No step fails: AddCoin and BatchWrite throw no logic_error, DisconnectTip
\* never finds a coin that does not match, and ReplayBlocks finds every block
\* index entry and all undo data it needs, because FlushStateToDisk writes
\* them before the coins.
NeverFails == ~fault
===============================================================================
