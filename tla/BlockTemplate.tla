--------------------------- MODULE BlockTemplate ---------------------------
(***************************************************************************)
(* What the node admits to its mempool, puts into a block template and     *)
(* accepts as a block (src/src/validation.cpp, txmempool.cpp,              *)
(* node/miner.cpp) while the settlement levy is raised by height and the   *)
(* chain reorganises; the coinbase of a template is the node's own or the  *)
(* pool's split of it.                                                     *)
(*                                                                         *)
(* Transactions are positive numbers, have one size, spend one coin: the  *)
(* output of another transaction (a lower number) or a coin that was there *)
(* before (a negative number).  Coins of the blocks' own coinbases are not *)
(* spent.  Every block claims all it may.                                  *)
(***************************************************************************)
EXTENDS WalletFee, PplnsSplit, FiniteSetsExt

CONSTANTS
  Txs,         \* transactions
  Coin,        \* the coin each spends
  Out,         \* the value of its outputs
  Fee,         \* its fee
  Schedules,   \* levy schedules, one of which is the chain's
  Table,       \* emission table
  Dust,        \* emissionClosingDustSat
  MaxSupply,   \* MAX_SUPPLY_SAT
  MinOutput,   \* MIN_OUTPUT_VALUE_SAT, and the pool's default min_out
  MaxBlockTxs, \* transactions that fit into a template
  Windows,     \* the shares of PPLNS windows
  FeeBp,       \* XCOIN_POOL_FEE_BP
  MaxOutputs,  \* XCOIN_PPLNS_MAX_OUTPUTS
  Payments,    \* payments the wallet is asked for
  MaxHeight,   \* height of the chain
  MaxDepth     \* blocks a reorganisation disconnects

EmissionTableTotalSat ==
  Total([i \in DOMAIN Table |->
           Table[i].baseSubsidy * (Table[i].endHeight - Table[i].startHeight + 1)])

ASSUME MoneyAssumption ==
  /\ \A s \in Schedules : SettlementLevyScheduleIsSoftForkOnly(s)
  /\ EmissionTableWellFormed(Table, 1)
  /\ EmissionTableTotalSat + Dust = MaxSupply
  /\ Payments \subseteq PaymentRecords

VARIABLES
  schedule,  \* settlementLevySchedule
  chain,     \* the transactions of each block, block 1 first
  mempool    \* transactions in the mempool

vars == <<schedule, chain, mempool>>

Init == schedule \in Schedules /\ chain = <<>> /\ mempool = {}

RuleAt(height) == SettlementLevyAt(schedule, height)

Confirmed(blocks) == UNION {ToSet(blocks[i]) : i \in DOMAIN blocks}

Fees(txs) == MapThenSumSet(LAMBDA t : Fee[t], txs)

Pays(t, height) == CheckSettlementLevy(Out[t], Fee[t], RuleAt(height))

\* The coin of t is there, given the transactions that are applied, and unspent.
HaveInputs(t, applied) ==
  /\ t \notin applied
  /\ Coin[t] \in Txs => Coin[t] \in applied
  /\ \A u \in applied : Coin[u] # Coin[t]

-----------------------------------------------------------------------------
(* Blocks.                                                                 *)

\* A block lists the parents before their children.
InOrder(txs) == SelectSeq([i \in 1..Max(Txs) |-> i], LAMBDA t : t \in txs)

GetBlockReward(txs, height) == Fees(txs) + GetBlockSubsidy(height, Table, Dust)

\* The output floor, from which a coinbase with one output is exempt unless it is zero.
CheckCoinbaseOutputs(values) ==
  \/ \A i \in DOMAIN values : values[i] >= MinOutput
  \/ Len(values) = 1 /\ values[1] > 0

ConnectTransactions(blocks, txs) ==
  \A i \in DOMAIN txs :
    /\ HaveInputs(txs[i], Confirmed(blocks) \cup {txs[j] : j \in 1..(i - 1)})
    /\ Pays(txs[i], Len(blocks) + 1)

\* The transactions of the blocks that may come next.
NextBlocks(blocks) ==
  {txs \in {InOrder(ts) : ts \in SUBSET (Txs \ Confirmed(blocks))} : ConnectTransactions(blocks, txs)}

\* Whether a block on top of the others is valid.
ConnectBlock(blocks, txs, values) ==
  /\ ConnectTransactions(blocks, txs)
  /\ Total(values) <= GetBlockReward(ToSet(txs), Len(blocks) + 1)
  /\ CheckCoinbaseOutputs(values)

-----------------------------------------------------------------------------
(* The mempool.                                                            *)

RECURSIVE Descendants(_, _)
Descendants(ts, pool) ==
  LET more == {t \in pool : Coin[t] \in ts} \cup ts
  IN  IF more = ts THEN ts ELSE Descendants(more, pool)

\* t, in the pool or not, leaves it with all that depends on it.
removeRecursive(ts, pool) == pool \ Descendants(ts, pool)

Conflicts(t, pool) == {u \in pool : u # t /\ Coin[u] = Coin[t]}

\* ReplacementChecks: with one size for all, a replacement has to pay more than all it replaces.
Replaces(t, pool) ==
  LET out == Descendants(Conflicts(t, pool), pool) IN out = {} \/ Fee[t] > Fees(out)

\* PreChecks and ReplacementChecks against the chain's tip.
CanAccept(t, blocks, pool) ==
  /\ t \notin pool
  /\ HaveInputs(t, Confirmed(blocks) \cup (pool \ Conflicts(t, pool)))
  /\ Pays(t, Len(blocks) + 1)
  /\ Replaces(t, pool)

AcceptToMemoryPool(t, pool) == removeRecursive(Conflicts(t, pool), pool) \cup {t}

removeForBlock(txs, pool) ==
  removeRecursive(UNION {Conflicts(t, pool) : t \in ToSet(txs)}, pool) \ ToSet(txs)

\* Slip: what depends on a transaction that is not taken back stays.
RECURSIVE UpdateMempoolNoRemoval(_, _, _)
UpdateMempoolNoRemoval(queue, blocks, pool) ==
  IF queue = <<>> THEN pool
  ELSE UpdateMempoolNoRemoval(Tail(queue), blocks,
         IF CanAccept(Head(queue), blocks, pool) THEN AcceptToMemoryPool(Head(queue), pool) ELSE pool)

\* MaybeUpdateMempoolForReorg, earliest transaction first.
RECURSIVE MaybeUpdateMempoolForReorg(_, _, _)
MaybeUpdateMempoolForReorg(queue, blocks, pool) ==
  IF queue = <<>> THEN pool
  ELSE MaybeUpdateMempoolForReorg(Tail(queue), blocks,
         IF CanAccept(Head(queue), blocks, pool) THEN AcceptToMemoryPool(Head(queue), pool)
         ELSE removeRecursive({Head(queue)}, pool))

-----------------------------------------------------------------------------
(* Block templates.                                                        *)

\* The transactions tied to those of ts by spending each other's outputs.
RECURSIVE Cluster(_, _)
Cluster(ts, pool) ==
  LET more == ts \cup {t \in pool : \E u \in ts : Coin[t] = u \/ Coin[u] = t}
  IN  IF more = ts THEN ts ELSE Cluster(more, pool)

\* The best chunk of what is left: of the highest feerate with its ancestors, and no larger.
BestChunk(left) ==
  LET chunks == {c \in SUBSET left \ {{}} : \A t \in c : Coin[t] \in left => Coin[t] \in c}
      Beats(c, d) == LET a == Fees(c) * Cardinality(d)
                         b == Fees(d) * Cardinality(c)
                     IN  a > b \/ (a = b /\ Cardinality(c) < Cardinality(d))
  IN  CHOOSE c \in chunks : \A d \in chunks : ~Beats(d, c)

TestChunkBlockLimits(txs, chunk) == Len(txs) + Cardinality(chunk) <= MaxBlockTxs

\* Slip: the levy is left to admission.
TestChunkFinality(chunk, height) == TRUE

TestChunkTransactions(chunk, height) == \A t \in chunk : Pays(t, height)

\* Slip: the first chunk that does not fit ends the template.
SkipAll(chunk, left, pool) == {}

\* SkipBuilderChunk: nothing more of its cluster.
Skip(chunk, left, pool) == left \ Cluster(chunk, pool)

RECURSIVE addChunks(_, _, _, _)
addChunks(left, txs, pool, height) ==
  IF left = {} THEN txs
  ELSE LET chunk == BestChunk(left)
       IN  IF TestChunkBlockLimits(txs, chunk) /\ TestChunkTransactions(chunk, height)
           THEN addChunks(left \ chunk, txs \o InOrder(chunk), pool, height)
           ELSE addChunks(Skip(chunk, left, pool), txs, pool, height)

\* The transactions CreateNewBlock puts into a template on the tip.
CreateNewBlock == addChunks(mempool, <<>>, mempool, Len(chain) + 1)

TemplateReward(txs) == GetBlockReward(ToSet(txs), Len(chain) + 1)

\* The outputs of the coinbase the pool gives it.
PoolOutputs(reward, window) == pplns_split(reward, Weights(window), FeeBp, MinOutput, MaxOutputs)

-----------------------------------------------------------------------------
(* Actions.  CreateNewBlock changes nothing: every state has its template. *)

\* A transaction comes from a peer or the wallet.
Submit ==
  /\ \E t \in Txs : /\ CanAccept(t, chain, mempool)
                    /\ mempool' = AcceptToMemoryPool(t, mempool)
  /\ UNCHANGED <<schedule, chain>>

\* A block, ours or a peer's, extends the tip.
ConnectTip ==
  /\ Len(chain) < MaxHeight
  /\ \E txs \in NextBlocks(chain) :
       /\ chain' = Append(chain, txs)
       /\ mempool' = removeForBlock(txs, mempool)
  /\ UNCHANGED schedule

\* The mempool expires or evicts a transaction.
Expire ==
  /\ \E t \in mempool : mempool' = removeRecursive({t}, mempool)
  /\ UNCHANGED <<schedule, chain>>

\* InvalidateBlock on the tip (new is 0), or a branch with more work: its first
\* block takes some of the transactions, the others are empty.
Reorg ==
  /\ \E old \in 1..Min({MaxDepth, Len(chain)}) :
     \E kept \in {SubSeq(chain, 1, Len(chain) - old)} :
     \E new \in 0..Min({old + 1, MaxHeight - Len(kept)}), txs \in NextBlocks(kept) :
       LET blocks == kept \o [i \in 1..new |-> IF i = 1 THEN txs ELSE <<>>]
           gone == FlattenSeq(SubSeq(chain, Len(kept) + 1, Len(chain)))
       IN  /\ new = 0 => (old = 1 /\ txs = <<>>)
           /\ chain' = blocks
           /\ mempool' = MaybeUpdateMempoolForReorg(
                           SelectSeq(gone, LAMBDA t : t \notin ToSet(txs)),
                           blocks, removeForBlock(txs, mempool))
  /\ UNCHANGED schedule

Next == Submit \/ ConnectTip \/ Expire \/ Reorg

Spec == Init /\ [][Next]_vars

-----------------------------------------------------------------------------
(* Properties.                                                             *)

\* Whenever CreateNewBlock is called, after any reorganisation and under a row that
\* was raised since its transactions were admitted, the block is one ConnectBlock
\* accepts (TestBlockValidity does not throw): with the node's coinbase unless the
\* reward is zero, and with the pool's as long as the pool's fee reaches the floor.
TemplateIsValid ==
  LET txs == CreateNewBlock
      reward == TemplateReward(txs)
  IN  /\ reward > 0 => ConnectBlock(chain, txs, <<reward>>)
      /\ (reward * FeeBp) \div 10000 >= MinOutput =>
           \A window \in Windows :
             LET outs == PoolOutputs(reward, window)
             IN  ConnectBlock(chain, txs, [i \in DOMAIN outs |-> outs[i].sats])

\* CreateNewBlock leaves a transaction out only if there is no room, or it or one it
\* is tied to pays too little at this height: a chunk that is skipped costs nobody
\* outside its cluster.
LeftOutForCause ==
  LET txs == CreateNewBlock IN
  \A t \in mempool \ ToSet(txs) :
    \/ Len(txs) + Cardinality(Cluster({t}, mempool)) > MaxBlockTxs
    \/ \E u \in Cluster({t}, mempool) : ~Pays(u, Len(chain) + 1)

\* Through blocks, replacements, expiry and reorganisations that lose a transaction
\* for good, all that is in the mempool can be applied to the tip together.
MempoolFitsTip ==
  \A t \in mempool : HaveInputs(t, Confirmed(chain) \cup (mempool \ {t}))

\* All of a template's reward is paid; every miner that is paid gets min_out, unless
\* only one is paid; a miner with more weight than another is never paid less, nor
\* left out for it.
SplitIsFair ==
  LET reward == TemplateReward(CreateNewBlock) IN
  reward > 0 => \A window \in Windows :
    LET w == Weights(window)
        all == PoolOutputs(reward, window)
        outs == SelectSeq(all, LAMBDA o : o.spk \in DOMAIN w)
        paid == {outs[i].spk : i \in DOMAIN outs}
        sats(s) == outs[CHOOSE i \in DOMAIN outs : outs[i].spk = s].sats
    IN  /\ SumOf(all) = reward
        /\ \A s \in paid : sats(s) >= MinOutput \/ Cardinality(paid) = 1
        /\ \A s \in paid, r \in DOMAIN w : w[r] > w[s] => (r \in paid /\ sats(r) >= sats(s))

\* A payment the wallet completes at the tip is one the node admits: its fee reaches
\* the levy on what goes to outputs.  It ends in the internal error "Fee needed > fee
\* paid" only while the levy on the payment and the change it aims at is below the cap.
WalletPaysLevy ==
  LET rule == RuleAt(Len(chain) + 1)
  IN  \A p \in Payments : Selected(p, rule) => PaysLevy(p, rule)
=============================================================================
