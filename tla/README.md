# xCoin verification

TLA+ specifications of parts of xCoin, the TLC configurations that check them on
small instances, and TLAPS proofs about them for every value of their constants.
`PROJECT.json` lists the runs, the mutants that show each property can fail, the
source lines each definition models, the hazards the properties aim at and the
disagreements between code and comments that came to light.

Check a run with `tlc -config <cfg> <MC module>`, the proofs with
`tlapm <Proofs module>`.

## The system and what is modelled

xCoin is a fork of Bitcoin Core with its own proof of work, post-quantum keys and
a post-quantum transport, and the programs around it.

| part | source | module |
|---|---|---|
| v2 transport, HX1 handshake | `src/src/net.cpp`, `net.h`, `bip324.cpp` | `V2Transport` |
| HX1 retries in the connection threads | `src/src/net.cpp`, `net.h` | `HybridRetry` |
| MetalDAG caches, cold-epoch budget | `src/src/metaldag`, `net_processing.cpp` | `MetalDAG`, `RecencyCache` |
| initial headers synchronization | `src/src/headerssync.cpp`, `net_processing.cpp` | `HeadersSync` (extends `Difficulty`) |
| difficulty controller | `src/src/pow.cpp` | `Difficulty` |
| UTXO caches, coins database, crash recovery | `src/src/coins.cpp`, `txdb.cpp`, `validation.cpp` | `CoinsView`, `Chainstate` |
| emission, subsidy, settlement levy | `src/src/consensus`, `validation.cpp` | `Money` |
| mempool, templates, reorganisations | `src/src/validation.cpp`, `txmempool.cpp`, `txgraph.cpp`, `node/miner.cpp` | `BlockTemplate` |
| fees of wallet payments | `src/src/wallet/spend.cpp` | `WalletFee` |
| pool: templates, jobs, shares, slots | `src/xcoin-pool/xcoin-pool.py` | `StratumPool` |
| pool: PPLNS window and payout split | same | `Pplns`, `PplnsSplit` |
| pool: files and restarts | same | `PoolLedger` (extends `Pplns`) |
| card-bound wallets | `src/wallet/card_seed.py`, `wallet_cli.py` | `CardWallet` |

The parts meet in these places. A failed HX1 handshake ends as a decision of
`DisconnectNodes`, which `V2Transport` derives from both endpoints and
`HybridRetry` takes as its input. The pool hashes shares through the node's
`getmetaldagpowhash`, one of the callers in `MetalDAG`. `HeadersSync` checks each
header against the targets of `Difficulty`. `PoolLedger` uses the window of `Pplns`
and stores the wins that `StratumPool` records. `BlockTemplate` composes the money
rules: the levy and the subsidy of `Money`, the wallet's fee of `WalletFee` and the
pool's coinbase of `PplnsSplit` have to fit what the node admits and accepts.

## `V2Transport`: one connection

One connection between an initiator `I` and a responder `R`. Each endpoint is a
record with the fields of `class V2Transport`. Each method is an operator on that
record, and an action is what one turn of a thread does under the transport's
locks: queue a message, hand bytes to the socket, read bytes, notice a closed
socket, find a timeout, disconnect locally, remove the node and decide on a
reconnection. Bytes are grouped in the units the handlers tell apart: the first
24 bytes of a key, the rest of it, the garbage terminator, one packet, one v1
message. Cryptography is symbolic: a packet carries the name of the key and the
counter it was encrypted with and is read only under the same key and counter.

`transport` has two scenes, told apart by a variable that never changes:

* "faults": every pair of modes that reaches the HX1 code, with an ML-KEM error,
  a decapsulation that yields another secret, a wrong record from other software,
  a local close and a timeout at any moment. Two messages per side suffice to have
  one before and one after the switch of keys. Besides the safety properties it
  checks `NeverHalfOpen`: a handshake that reached stage-2 keys is confirmed in the
  end, or both nodes remove the connection.
* "calm": all 25 pairs of endpoints without faults. The session is the one their
  modes determine (`ModeMatrix`), and two nodes that can talk do
  (`HandshakeCompletes`).

Fairness: weak fairness of the steps of the socket thread, which loops over all
its sockets, and of the timeout, which `InactivityCheck` finds sooner or later.
None is assumed of the faults.

## `HybridRetry`: who retries a failed handshake

The socket thread's `DisconnectNodes`, the addnode loop, the automatic loop and
an RPC thread, around `m_nodes`, `m_reconnections`, `m_v2_hybrid_retry_dests`,
the addnode list and the two semaphores. Each structure has a lock of its own, so
an action is what one lock covers: `OpenNetworkConnection` is three steps (check,
take the mark, dial) and `DisconnectNodes` two (remove, splice). A semaphore
grant is a value that moves between loop, call, connection and queue entry.
`Named` are the destinations an operator names, `Picked` those the automatic loop
may choose.

`hybrid_retry` has one destination that is both on the addnode list and picked
automatically, one slot of each semaphore, two failed handshakes and one command
at any moment: the smallest instance in which two loops want the same mark and a
slot is short. Instances with two commands, and with two slots each, pass as well
and take longer. `RetryRuns` assumes weak fairness of each thread's steps, which
loop for ever, and strong fairness of a successful dial: a destination dialled
again and again answers in the end. It does not assume that connections end, and
so allows one exception: the addnode loop waits for ever for a slot.

`CHECK_DEADLOCK FALSE`: the model really can stop, for a reason worth knowing.
Both loops wait for a slot before they serve `m_reconnections`, and the entries of
that queue hold slots; when connections and queued entries hold all of them,
nothing happens until a connection ends, and with `setnetworkactive false` or
a peer that stays, none need.

## `MetalDAG`: verification caches and the gate before them

`get_cache` builds a cache under `g_cache_mutex` and evicts the least recently
used one. The message thread asks `MayVerifyHeadersNow` about all headers of
a message and then hashes them one after the other; other threads (RPC,
validation of requested blocks, blocks from disk) hash without asking. Between
question and hash the clock moves, the best header advances and other threads
evict caches.

* `metaldag`: `EvictsLeastRecent` is refinement: the slots with their `last_use`
  stamps implement `RecencyCache`, a list of the last `Entries` epochs used.
  `NeverBuiltAhead` and `OnlyColdRefused` are the two sides of the gate.
* `metaldag_fork` shows that a message with two headers of one cold epoch is
  refused even when a build is due (see the findings).

Bounds: two slots, so that four uses evict and rebuild; five epochs around the
clock, two of them cold for a best header in epoch 3 and one ahead of the clock;
messages of one or two headers. The clock is after the base time, fits 32 bits and
does not run backwards. `CHECK_DEADLOCK FALSE`: the behaviour ends when the bound
on uses is reached. Not covered: that at most one cold cache is built per interval
over all peers. A cache found resident by the gate can be evicted, by an earlier
header of the same message or another thread, and be built again without budget.

## `StratumPool`: templates, jobs, shares and slots

One asyncio event loop: a task (the poll loop, or the handler of a connection)
runs until its next `await`. `Jobs.refresh` and RPC calls run in threads, so their
steps interleave with everything; `notify` is cut between its reads of `tmpl` and
`branch_le`, and `refresh` between its writes of them. `loop` names the task that
is inside `notify`, where nothing else of the event loop runs.

`pool` has two scenes:

* "crowded": two connections for one slot, one of them seated, and every event:
  joining, lost connections, clients that stop reading, failing calls, shares and
  blocks, vardiff; one change of the node and one vardiff job. A job table of one
  entry makes it overflow while a share is being checked.
* "quiet": two seated miners that stay and read while the tip changes and several
  threads refresh the template.

`RecordedIsMined` looks at a block between `submitblock` and the registry,
`PollKeepsPolling` and `LastTipReachesEveryMiner` are the liveness of the poll loop
and of the tips. `pool_pairing`: see the findings.

Fairness: weak fairness of every task and thread; none of the clients, the node's
blocks or the failures. `LastTipReachesEveryMiner` speaks of miners that stay and
read: a connection that breaks while a round of notifies is under way leaves the
rest of the round untold, and the refresh of a joining miner can take the change
from the poll loop. A round is then made up for at the next change only.
`PollKeepsPolling` excuses a poll loop inside `drain()`: it has no timeout
(`xcoin-pool.py:971`), so a client that does not read holds the loop, although the
comment at 964 says "one client must not stall the pool".

## `Pplns` and `PoolLedger`: shares, files, restarts

`Pplns` has the window: `add` and `weights`. `PoolLedger` adds the registry of wins,
the browser session number and their files. A save opens a `.tmp`, writes it and
renames it, one action each; any of them can fail and the process can die after
each. `ledger` goes through windows of up to three shares with a moving limit, and
allows one crash; it checks that the window is the shortest one that is long enough
whatever was loaded, and what a restart finds. `WindowSavedInTime` assumes strong
fairness of the statistics loop, which wakes every few seconds whatever happens in
between, and weak fairness of the steps of a save.

## `CoinsView` and `Chainstate`: the unspent outputs

`CoinsView` is `CCoinsViewCache` as operators on functions: a cache maps outpoints to
entries with DIRTY and FRESH flags, a base is what `GetCoin` answers. A coin is the
height it was made at, the one thing that tells a coin from a later one at the same
outpoint. `Chainstate` adds the database with its head blocks, `ConnectTip` through
the overlay view of `ConnectBlock`, `DisconnectTip`, `FlushStateToDisk` with flush or
sync, batches of any part of the dirty entries, a stop between two batches, and
`ReplayBlocks`, which may be stopped as well. `cs_main` is held over each action. The
loops of the code are recursive functions of the number of their turns; the tree of
blocks is given by `Parent` and `Height`, and a block is refused when an output of it
is there already (BIP30).

`coins` compares it with the definition of the unspent outputs of a chain:
`ViewIsChain` and `DatabaseIsBest`. `FlagsMeanWhatTheySay` is why entries may be
dropped or left unwritten, `NeverFails` that no assertion or `logic_error` is
reached. The instance is one fork of two blocks on each side, in which the same
transactions are mined at different heights and, on one side, in one block, and
two blocks that are refused, one by its inputs and one by its last check.

## `Difficulty` and `HeadersSync`: headers from a peer

`Difficulty` is the ASERT rule with the code's half-life, spacing and cubic
approximation, over a target of 29 bits; TLC reads the approximation from a table of
the fractions that occur. `HeadersSync` is `HeadersSyncState` with both downloads and
the part of `net_processing.cpp` that feeds it: `getheaders`, `headers`, `inv` and
the two-minute response time. The peer answers in order; it may grow, or move to
another chain, between any two messages, and answer late. A commitment is the block
committed to, compared by the salted bit the code keeps; `lucky` records that
another block met it.

`headers` has a chain of seven blocks and a fork of three, commitments every second
block, a buffer of one, two headers per message and two changes of the peer's chain,
which starts at block 5 or on the fork, under timestamps that swing as far as median time past and the two-hour rule
let them. `PeerChainReached` assumes that the peer answers and time passes, and
holds for peers that answer in time and do not reorganise. After a reorganisation
overlapping requests can end a synchronization until the next announcement: a
release of headers clears the time of the `getheaders` just sent
(`net_processing.cpp:3104`), so an announcement sends another, whose answer does not
connect. `CHECK_DEADLOCK FALSE`: nothing happens once the peer is known.

## `CardWallet`: cards, keys and wallet files

Each APDU that changes a card and each file that is written is an action, in the
order `provision_card`, `cmd_new_card`, `cmd_card_backup` and `factory_reset_card`
give them; `op` holds the next step. A command may end after any step (`Abort`), and
a file may be left torn. A key or factor is the number of its draw.

`cards`: three cards and two wallets, four draws, so that a card can be made for one
wallet, duplicated, reset, and made for the other. `CHECK_DEADLOCK FALSE`: the draws
run out. `KeysOnDisk` does not say that a command finishes the job: a card that was
left between two keys is refused by both `new` (its auth file exists) and
`card-reset` (its keys do not match the file), and is recovered by hand from the
keys on disk.

## `Money`, `WalletFee`, `PplnsSplit`, `BlockTemplate`: who is paid what

`Money` has the levy (`SettlementLevy`, its inverse over the inputs, the schedule by
height, the soft-fork condition on schedules) and the emission (`GetBlockSubsidy`,
the shape of the table, the closing dust). `WalletFee` follows
`CreateTransactionInternal` from the selected coins to the fee that is paid.
`PplnsSplit` is `pplns_split`, in integers where the code divides in floating point
before it rounds down. `BlockTemplate` has the actions: admission with replacement
(`Submit`), a block found by anyone (`ConnectTip`), `Expire` and `Reorg`; the template
is a function of the state and is checked in every state, with the node's coinbase
and with the pool's.

`settlement`: six transactions in three clusters, one with a parent that its child
pays for and one with a double spend; a chain of up to five blocks, reorganisations
of one or two; a levy that is zero, or raised at heights 2 and 4; an emission that
ends at 4; templates of three transactions. Amounts are real satoshi amounts near
the points where levy, cap and floor bite. 22,739 states. `CHECK_DEADLOCK FALSE`: the
height is bounded. `TemplateIsValid` leaves out two cases that the code refuses:

* after the emission an empty template has a coinbase of value zero, which is below
  the output floor (`tx_check.cpp:78`);
* a reward below about 334,448 satoshis gives a pool fee below the floor. The tail
  subsidy of the main chain, 10,000,000, is far above.

Two more observations. With a levy in force, a small payment from a large coin makes
change on which levy is owed, while coins were selected for the levy on recipients
and the change that was aimed at: `CreateTransaction` can end with the internal "Fee
needed > fee paid", in spite of the comment at `spend.cpp:1430`. It never does once
the cap is reached, and shipped chains have no levy. And a transaction that does not
pay a row raised after its admission holds its cluster out of templates until it
expires (`LeftOutForCause` states it).

The comment at `params.h:584` says that every chain starts with a row of 5 basis
points and 10,000 satoshis; the code's first row has rate and cap zero, and the model
follows the code.

Left out: sizes (all transactions have one), several inputs, coinbase spends and
maturity, lock times, `blockMinFeeRate`, the limit on consecutive failures, feerates
in replacement (fees are compared), and how clusters are linearized (taken as optimal).

## Proofs

`V2TransportProofs` proves, for every set of pairings and faults and any number of
messages:

* `TypeCorrect`, `Discipline`, `KeysAgree`, `RequireIsHybrid`: `Spec => []P` for
  `TypeOK`, `KeyDiscipline`, `KeyAgreement`, `RequireOnlyHybrid`.
* in `V2FlowProofs`, `CountsAreOnce`, `ReconnectsOnce`, `DeliveredInOrder`: the same for
  `CountedOnce`, `OneReconnection`, `MessagesInOrder`.

`KeyAgreement` is not inductive: it says nothing of the packets on their way,
through which an endpoint learns that the other side has switched. The inductive
invariant is `TypeOK /\ KeyDiscipline`. `KeyDiscipline` says that the handshake
state of an endpoint fixes its keys, and that nothing in its send buffer or on the
wire is under stage-2 keys it does not hold. One group of lemmas says what each
method does to a transport record, `StepKeepsDiscipline` says that a step of one
endpoint with such an effect keeps the invariant, and one lemma per action applies
it. `KeyDiscipline` is also an invariant of `transport`.

The other three need two more facts of every state. The books (`BookOf`): where the
handshake of an endpoint stands is what it has counted; only the timeout and
`DisconnectNodes` count for an endpoint that has counted nothing, and they do it after
the last unit was read, so no two of the four places that count can both do so. The
flow (`FlowOf`): the messages on the wire to an endpoint and in its peer's send buffer
are, while the socket is open and nothing was dropped, exactly the ones it has yet to
take, in order, and come after the garbage terminator as long as it is not read; on a
v1 connection all units are v1 messages. `Read` says once what reading a unit may do to
counters, buffer and place in the handshake, one lemma per `Process...` method shows
it, and the lemmas on joined streams say how one unit taken, pushed, sent or lost
changes the flow. Assumptions: the constants' types only.

`HybridProofs` proves what `hybrid_retry` checks of safety, for every set of destinations and addresses, any
number of slots, failures and commands, and any length of the two queues:

* `DueRetriesAreKept`, `Spec => RetryNotLost`. `TypeInv` says what the fields of an
  opener can hold at each of its steps (`OpenerInv`: only a call that is past its check
  of the marks holds one, and a grant is moved into a call, never shared with it).
  The theorem is then about single steps: a mark goes from the set into the call that
  took it, and back when the dial fails.
* `GrantsAreConserved`, `Spec => []GrantsConserved`. The sum has five parts, two of
  them counted over positions in a queue. Lemmas say how each count changes when one
  opener moves, a connection comes or goes, and a queue is spliced, appended to or
  shortened; every action is a combination of them.
* `RetriesAreOnce`, `Spec => []RetryOnce`. The inductive invariant `RetryInv` counts
  more than the property does: retries that are done, marks that are set, calls that
  took one, queued entries and calls that will dial classically, and connections that
  have failed and are not removed yet, never outnumber the failures of a destination.

Assumptions: finitely many destinations and numbers for connections, and the types of
the other constants.

`StratumPoolProofs`, for every finite set of connections and every cap:

* `SlotsWithinCap`, `Spec => []SlotCap`. `SlotInv` adds the types of `conn` and `spk`
  and that a connection has no slot before it is open; all actions but `authorize`
  leave the slots alone or free one, and `authorize` counts them in the same turn of
  the event loop in which it takes one.
* `CreditsAreMined`, `Spec => []RecordedIsMined`. `RecordInv` adds what is true
  between `submitblock` and `record_block`: a handler that waits for the tip has its
  own block in the node's chain at the height it noted, and nobody was credited for
  that height yet.

Assumptions: a finite set of miners, and seated ones within the cap.

`PoolLedgerProofs` proves the four safety properties of `ledger`, for every set of
scripts, difficulties and limits and any number of crashes and failing writes:
`WindowIsShortest`, `CleanWindowIsOnDisk`, `WinsAreOnDisk`, `NumbersAreFresh`; and
`TotalIsWeight`, that the running total is the sum of the window. `LedgerInv` has one
part for each, which adds what a save has in its `.tmp` when it is about to rename
it. The sums of a window are a recursive function; their laws (`SumsAre`,
`SumsOfRun`) are proved by induction over the set of indices they hold at.

`WalletProofs` proves the three properties of `cards` for any number of cards,
wallets and draws: `NeverBricked`, `MadeCardsUnlock`, `SealedCardsNeeded`. The
inductive invariant `Inv` adds what is true in the middle of a command: before the
auth file is saved there is none, from then on it holds the command's key, a card
that is ready holds factor and key, a card that is being made or reset is not among
those a wallet relies on, and a reset has restored the keys before its step.
`SetCardData` and `WithinPhase` say once what all steps on a card have in common, and
one lemma per action uses them. Assumptions: none beyond `MaxDraws \in Nat`.

The same module has the theorems about amounts: `LevyIsCeiling`, `FromInputsIsLeast`,
`LevyNeverFalls`, `SubsidyUntilTheEnd` and `WalletFeePaysLevy`, for every value, rate,
cap, schedule and table that meets the code's static assertions. Integers are
unbounded there: amounts are at most 10^16 and rates at most 10,000, and the code
multiplies quotient and remainder apart, so its 64-bit products do not wrap
(`levy.h:98` asserts it).

`ChainstateProofs` proves the four invariants of `coins` for every tree of blocks, every
set of outpoints and any number of crashes: `ViewIsAlwaysTheChain`,
`DatabaseIsAlwaysBest`, `FlagsAlwaysMean` and `NothingFails`. The argument goes bottom up:

* `AddCoinSound`, `SpendCoinSound`, `FlushIsInvisible`, `BatchIsInvisible` and
  `SyncWritesEverything` say what an operation on a cache whose flags are sound does to
  what is read through it.
* What the first inputs and outputs of a block do to a set of coins is given by a formula
  without a loop (`Applied`, `UndoOf`), and `Fits` says when a block can be applied.
  `ConnectBlock` computes it and accepts only a block that fits; `DisconnectBlock`
  takes it back; the unspent outputs of a chain, defined by the last use of each
  outpoint, are those of its parent with the last block applied (`UtxoStep`).
* After a crash the database holds, at each outpoint, the coin of the old tip's chain or
  of the new one's. Rolling back to the fork and forward again settles every outpoint
  that either branch touches, the others agree, and the result is the new chain.
* The inductive invariant `Inv` has a part for each phase: the undo data on disk is what
  the block spent; while a write is under way, the entries that are left are the ones
  the database may lack; what names a head block is durable.

Loops are met by induction over the natural numbers in the form of sets (`Induction`,
`LoopKeeps`). Assumptions: `TreeAssumption`, that heights count from `Genesis`, and
`OpsAssumption`, that no two outputs of a block are one outpoint.

`ConsensusProofs`:

* `HalfLifeDoubles` and `LaterIsEasier`, for every half-life, spacing and schedule
  error, on both sides of zero.
* `NothingBuiltAhead`, `OnlyColdIsRefused` and `EvictionByUse`, the three properties of
  `metaldag`, for every epoch length, number of slots, and length and number of
  messages. `DagInv` adds that no slot and no header that passed the gate lies more
  than one epoch ahead of the clock, which only moves forward: so a cache that is
  evicted between the gate and the hash is not built ahead either. The verdicts on a
  message are a recursive function, met by induction as the sums are. For
  `EvictionByUse`, a refinement, the rank of a slot is the number of slots used after
  it: stamps differ, so ranks count from zero without gaps (`RanksAll`), and each way a
  slot is used (resident, new, new in place of the victim) raises the ranks before one
  place by one (`TouchIs`, `AddIs`). Assumptions: `MetalDAGAssumption`, the constants'
  types.

Only model-checked: liveness under fairness, which the prover does not do; `ModeMatrix`,
which speaks of the calm scene of its run; how `pplns_split` divides a reward, which
selects subsequences by predicates; and headers synchronization, templates and the
mempool, whose definitions are recursive operators.

## Findings

Comments that the code does not live up to; each is a run that TLC refutes.

* `pool_pairing`: `notify` can pair a branch with other transactions
  (`xcoin-pool.py:1000`, against 879).
* `hybrid_retry_stale`: a mark taken before `removenode` comes back after the next
  `addnode` (`net.cpp:3392`, against 4123).
* `metaldag_fork`: a message with more than one header of a cold epoch is never
  verified, however long its sender waits (`net_processing.cpp:2659`, against 3038).

## Not modelled

* Script and transaction format rules, post-quantum keys and hashes, the charter and
  the genesis tool: predicates on bytes, computation and constants, without states.
* Block download and relay, block index and block files, the node wallet apart from
  fees: inherited from Bitcoin Core; the modules above take over where xCoin's
  changes, or the recovery of its chain state, meet them.
* Explorer index: one loop under one lock that appends blocks by height. It has no
  step that takes a block back after a reorganisation
  (`src/explorer/xcoin-explorer.py:383`), which needs no model to be seen.
* Metal miner: one thread that reads what has arrived, mines a batch and submits.
  `StratumPool` sees its submissions, late, stale or repeated.
* Pool statistics, rig registry, Discord posts and the arithmetic of vardiff, the
  statistics server, login, WebSocket bridge, browser extension and pages: reporting,
  I/O and floating point.
* Failures of the disk under the node's databases, pruning and assumeutxo snapshots;
  the classic retarget before `nASERTActivationHeight`, which the main chain never
  uses; the EV2 cryptography of the cards.
