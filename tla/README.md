# A verification project for LODE

TLA+ models of the LODE daemon (a fork of Monero v0.18.3.3), model-checked with
TLC; every safety property that the passing runs check is also a theorem that TLAPS checks, some
under a hypothesis (section 4). The code is in `src/src/`. The models are
about the daemon's core and its protocol: which coins exist, which chain is the main
chain, which transactions are pending, what the threads that change all this may do
to each other, how a node catches up with its peers, and how it passes transactions
on.

1. [The system](#1-the-system)
2. [Modules](#2-modules)
3. [Runs](#3-runs)
4. [Proofs](#4-proofs)
5. [Where code and documentation disagree](#5-where-code-and-documentation-disagree)
6. [What is not modelled](#6-what-is-not-modelled)
7. [Plan](#7-plan)

To repeat a run or a proof, in this directory:

    tlc -workers 2 -config MCTxPool.cfg MCTxPool
    tlapm LockOrderProofs.tla

## 1. The system

### Parts, state and interaction

| Part | State | Operations | Talks to |
|---|---|---|---|
| Emission (`cryptonote_basic_impl.cpp`) | none; `already_generated_coins` of every block is in the database | `get_block_reward`, `validate_miner_transaction` | called for each block and each template |
| Block weights (`blockchain.cpp`, `rolling_median.h`) | weight and long-term weight of every block in the database; the limits of the next block and a cached rolling median in memory | `get_next_long_term_block_weight`, `get_long_term_block_weight_median`, `update_next_cumulative_weight_limit` | the limits decide on penalties and on which blocks are too large |
| `HardFork` (`hardfork.cpp`) | window of votes, counters per version, index of the current fork; `hf_versions` in the database | `add`, `check`, `on_block_popped`, `reorganize_from_block_height`, `init` | the chain calls it for each block added or popped |
| `Blockchain` (`blockchain.cpp`) | main chain and alternative blocks in the database, `m_invalid_blocks` and many caches in memory | `add_new_block`, `handle_alternative_block`, `switch_to_alternative_blockchain`, `pop_blocks`, batches | takes transactions from the pool and puts them back; callbacks `on_blockchain_inc/dec` |
| `checkpoints` | `m_points` | compiled-in points, `checkpoints.json`, DNS | asked by the chain for each block; `update_checkpoints` rolls the chain back |
| `tx_memory_pool` (`tx_pool.cpp`) | transactions and meta data in the database; spent key images, order by fee, weight, cached input checks, timed-out transactions in memory | `add_tx`, `take_tx`, `prune`, `remove_stuck_transactions`, `set_relayed`, `fill_block_template` | asks the chain about inputs; its cookie decides if a cached template is used |
| `core` (`cryptonote_core.cpp`) | `m_incoming_tx_lock`, `m_checkpoints_updating` | `handle_incoming_txs`, `handle_block_found`, `update_checkpoints` | entry point of the network, miner, RPC and idle threads |
| LMDB (`db_lmdb.cpp`, `locked_txn.h`) | the tables; at most one batch, owned by a thread | `batch_start/stop/abort`, `LockedTXN` | everything persistent |
| Synchronisation (`cryptonote_protocol_handler.inl`, `block_queue.cpp`) | per connection a state, needed hashes and what was asked; the queue of spans; `m_synchronized` | handshake, chain entries, requests and answers, `try_add_next_blocks`, idle timers | adds blocks through `core` |
| Relaying (`levin_notify.cpp`, `dandelionpp.cpp`) | epoch, stem map, per connection a queue and its flush time; relay times in the pool's table | `send_txs`, `fluff_flush`, `start_epoch`, `relay_txpool_transactions` | reads and marks entries of the pool |
| Network (`p2p`, epee) | peer lists, connections | handshakes, Levin messages | feeds the protocol |
| Miner | template, worker threads | start, stop, new template | `create_block_template`, `handle_block_found` |
| RPC, ZMQ | sessions, payments, subscriptions | queries, commands | `core` |
| Wallet (`wallet2`, RPC, API, multisig) | transfers, key images, scanned blocks | refresh, transfer, reorganization | RPC of a daemon |

### What is hard

* **Concurrency.** Three recursive locks (`m_incoming_tx_lock`, the pool's, the
  chain's) that callbacks between pool and chain take again, and one batch of the
  database that every `LockedTXN` silently joins. Nothing enforces an order.
* **Failure in the middle.** A chain switch pops blocks, connects others and may
  fail at each; an exception aborts the batch and with it the database state, but
  not what is kept in memory.
* **Order.** The same transaction comes as private, public, and in a block; the
  same key image is spent by several; a block is refused or popped after its
  transactions were taken.
* **Caches.** The fork index, the weight limits and the rolling median, cached input
  checks, the block template and the pool indexes must follow every change of the chain,
  also pops within a switch.
* **Peers.** Answers come late, never, or for another request; connections are cut while
  one thread adds their blocks and another hands their spans to someone else; a stem
  peer swallows what it was given. A connection that waits for nothing, a hash that
  stays requested or a timer that is not set again are not seen by any test.
* **Boundaries.** The last coins before the cap, the first heights (`pt.first - 2`),
  the edge of the voting window, the limit of the pool.

What makes each part correct: the coins created never pass the cap and the counter
is their sum (Emission); which block is too large is a function of the chain alone (block
weights); the version of the next block is a function of its height
(HardFork); the chain anyone can see is left only for a better one and never spends
twice (Blockchain); a committed chain passes its checkpoints (Checkpoints); threads
never wait in a circle or write into each other's batch (locks); memory and database
agree and what is offered to miners can be mined (pool); a node that has a peer with a
longer chain gets it, and says that it is synchronised only then (synchronisation); a
transaction that stays in the pool reaches every peer (relaying). Where the code falls short of
one of these, section 5 says so. The hazards are listed one
by one, with their lines, in `PROJECT.json`.

## 2. Modules

| Module | Models | Composition |
|---|---|---|
| `Emission` | reward, penalty, cap, claimed amounts, popped blocks | |
| `RollingMedian` | the median of `rolling_median.h` by two heaps, and the one by sorting | |
| `BlockWeights` | long-term weights, their cached median, the limits of the next block | extends `Emission`; `MCBlockWeights` gives it `RollingMedian` |
| `HardFork` | the fork table, voting, the cached index | |
| `ChainSelection` | **abstract**: what the committed main chain promises | |
| `Blockchain` | main and alternative chains, switch and rollback, batch | implements `ChainSelection` |
| `Checkpoints` | loading of points, enforcement, a thread that adds blocks | |
| `TxPool` | the pool, its indexes, the template, blocks that use it, batches | |
| `LockOrder` | recursive locks and the batch, any threads, any calls | |
| `CoreLocks` | the calls of the core as programs of `LockOrder` | extends `LockOrder` |
| `BlockQueue` | the queue of spans, a method per operator | |
| `Sync` | one node that synchronises with peers | extends `BlockQueue` |
| `Relay` | the public zone of one node and the relay times of its pool | |
| `EmissionProofs`, `HardForkProofs`, `LockOrderProofs`, `BlockchainProofs`, `CheckpointsProofs`, `TxPoolProofs`, `RelayProofs`, `SyncProofs` | theorems | each extends its module (`EmissionProofs`: `BlockWeights`; `LockOrderProofs`: `CoreLocks`) |
| `MC...` | the instances TLC checks | |

Definitions carry the names of the functions they stand for; `PROJECT.json` maps each
to its lines. Definitions with the comment "Mutant" are deliberately wrong variants
of the definition that follows them: putting one in its place must break a property,
which shows that the property says something about the code.

**Emission.** `generated` and `issued` are, per height, the counter of the database
and what the miner transaction really created. `AddBlock` is the part of
`handle_block_to_main_chain` that concerns money: `get_block_reward` (halvings, cut to
what is left, penalty above the median), `validate_miner_transaction` (exact from
`HF_VERSION_EXACT_COINBASE` on, at most the reward before) and the capped sum. Integers
are unbounded; the module's header says why 64 and 128 bits are enough. There is no tail
emission: some comments and tests say otherwise (section 5).

**RollingMedian, BlockWeights.** `BlockWeights` is `Emission` with the weights: its action for a
block is `Emission!AddBlock` with the median that `validate_miner_transaction` takes from memory,
followed by what `handle_block_to_main_chain` stores and updates. `cache` is the pair of tip hash
and `rolling_median_t`. The operations of the latter are constants of `BlockWeights` (`ClearRM`, `InsertRM`, `MedianRM`), so that the
proofs do not reach the recursion in the heaps; the `block_weights` run gives them the operators of
`RollingMedian`, with the array of indices, the two heaps and the circular buffer as in the code. A block is named by the weights of its chain, so that a hash stands for a history.
`pop_blocks` stands for all three places that pop and then update the limits. `FailBlock` is an
exception of `add_block`: the batch is aborted, the memory stays.

**HardFork.** `blocks` and `hf_versions` are the database, `versions`, `last_versions`
and `current_fork_index` the cache. The loop of `reorganize_from_block_height` is one
step per block.

**Blockchain.** The blocks that exist form a constant tree, so `tip` stands for the
main chain. `alt`, `invalid` and `pool` are sets. A switch is a small program, with one
step per round of its loops: `Disconnect`, `Connect`, then `PushOld` and `Finish`, or
`ConnectFails`, `Rollback`, `Restore`, `GiveUp`; `ConnectAborts` is an exception of
`add_block`. `PopThrows` is one of a pop, in the loop that disconnects or in the one that rolls
back: `add_new_block` catches it, nothing is put back, and `cleanup_handle_incoming_blocks` commits
what the switch had done. `torn` records that this happened in a rollback. `batch` remembers what an abort or a crash goes back to. Validity is taken
apart into what depends on the block alone (`HeaderOK`, `RewardOK`) and what depends on
the chain and the pool (double spends, missing transactions, missing outputs), which is
computed. Pruned transactions cannot be returned to the pool. `ChainSelection` knows the committed
chain, whether a batch is open and whether a pop threw in it. A batch ends in the old chain or in a
better one as a whole (`Commit`), in the old one (`Abort`), or, only after an exception of a pop, in a
part of one of these (`CommitPart`); `pop_blocks` cuts the chain only between batches.

**Checkpoints.** Two threads. One adds blocks in a batch; the other loads points (file,
DNS, conflicts that end the daemon), and enforces them lowest first, one step per point,
with every exception the loop can meet. Heights wrap at `U64`. The compiled-in points are a
constant; the run has one at height 1, as the main network has.

**TxPool.** `pool` is the table of the database (relay method, `double_spend_seen`,
highest block used, the block on which a check failed); `spent`, `sorted`, `weight`,
`timed_out`, `cache` and `template` are memory. `add_tx_for_relay` and `add_tx_for_block`
are `add_tx` for the two kinds of callers, with all early returns, the upgrade of private
transactions, and the pruning at its end. Transactions of a refused or popped block go
back one per step. `Restart` rebuilds memory from the database as it was before an open
batch. `FailBlock` and `AbortBatch` are the exception path and belong to
`SpecWithAborts` only. `cookie` is not a number: every place that increments it makes the
template stale.

**LockOrder, CoreLocks.** A call is a sequence of steps: take or drop a lock, start or
stop a batch. `CoreLocks` writes down six kinds of calls, nested as in the code: the incoming-blocks
sequence with `handle_incoming_txs` and `add_new_block`, `handle_incoming_txs` alone, the operations of
the pool, `create_block_template`, `pop_blocks`, and `check_against_checkpoints` for a chain that passes
its checkpoints. The latter has the lock of the chain alone around its batch. That it pops blocks is a
call of its own, in the `lock_order_checkpoint` run.

**BlockQueue, Sync.** A queue is a record of spans by start height and the two sets of
hashes; each method holds the queue's mutex throughout, so it is an operator. `Sync` has a
variable per piece of state of the handler: the queue, the connections with their states,
needed hashes and flags, `m_synchronized`, the holder of `m_sync_lock`, the chain, and the
answers under way. Handlers that give up a lock in their middle (`try_add_next_blocks`, its
call of `request_missing_objects`) are several steps with a program counter per connection;
the others are one. Timers are actions that may happen at any time. A span that lengthens the chain
may end in a new stripe; then the connections that are done get a callback that makes them synchronise
again. A peer is a constant chain, and slow or not: the answers of a slow one come late or never.

**Relay.** `meta` is the relay method of each pool entry with what
`get_relayable_transactions` makes of its time: `never` (the value `add_tx` writes),
`later`, `now`. `jobs` are the `send_txs` calls under way, `map` is the `connection_map`,
`fluff_txs` are the queues and `callbacks` counts the flush callbacks. `add_tx`,
`on_transactions_relayed` and the work on the strand are separate steps, as they are in
separate threads or critical regions. Random choices (stems, epochs, flush times) are
nondeterministic. A message may be refused half-way (`ReceiveFails`), and transactions come back from
popped and alternative blocks (`AddFromBlock`): both leave the relay time at `never`, and `stranded`
records it. `lagging` are the peers whose height is below ours, which `get_out_connections` leaves out.
The peers are not modelled beyond what they may send; a message with a duplicate makes them drop the
connection, as `handle_notify_new_transactions` does.

## 3. Runs

| Run | Distinct states | Properties |
|---|---|---|
| `block_weights` | 349,201 | `SupplyTracked`, `LongTermWeightsAreExact`, `LimitFollowsChain` |
| `hardfork_schedule` | 4,043 | `VersionFollowsSchedule`, `CountsMatchWindow` |
| `hardfork_voting` | 5,901 | `WindowHoldsLastBlocks`, `RescanChangesNothing` |
| `blockchain` | 552,372 | `MainChainIsSound`, `FailedSwitchReverts`, `OnePlace`, `PushNeverSwitches`, `NoTxLost`, `SelectsBetterChain` (refinement) |
| `blockchain_checkpoint` | 15,777 | `CheckpointsHold`, `InvalidStaysOff`, `SwitchEnds` (liveness) |
| `checkpoints` | 97,290 | `EnforcedWhenDone`, `PointsKeepTheirHash`, `CommittedHistory` |
| `lock_order` | 20,857 | `LocksInOrder`, `NoDeadlock`, `PoolLockAroundBatch`, `BatchIsOurs` |
| `txpool` | 449,964 | `TypeOK`, `IndexesMatchPool`, `OnlyBlockTxsConflict`, `CacheIsFresh`, `TemplateConnects`, `TimedOutStaysOut`, `ReturnedTxsStay`, `WeightCoversPool` |
| `sync` | 217,337 | `OnlyRefusalForgets`, `NoHashIsLost`, `SynchronizedIsTrue`, `CatchesUp` (liveness) |
| `relay` | 270,497 | `EveryTxIsScheduled`, `QueuedIsFlushed`, `UsageIsCounted`, `StemIsKept`, `Broadcast` (liveness) |

The runs `lock_order_checkpoint` and `txpool_abort` each end in a counterexample; see
section 5. Deadlock is checked in every run but `sync`, where a node that has caught up, with
connections that have nothing to do, waits, and `block_weights`, where the bounds can be used up.

### Bounds, and why they are enough

* `block_weights`: a cap of 19, reward 8, two blocks per halving, seven blocks. The cap is
  reached with a reward that has to be cut (8 + 4 + 4 + 2 leaves 1), two halvings are
  passed and then the height from which the shift is not evaluated, and blocks lie below
  the median, between it and its double, and above. A long-term window of four and a
  short-term one of two fill, slide and are cut back; long-term weights are bounded from
  above (20 counts as 17) and from below (4 counts as 5), and blocks of 30 are too large
  until the median has risen. Two pops or aborted batches together, restarts at any time. Versions are those of the LODE table,
  1 and then 16. The branch of `validate_miner_transaction` for versions 2 to 12, where a
  miner may claim less, is on no LODE network and so not in the run; the theorem covers it.
* `hardfork_schedule`: the LODE table (version 1 at height 1, 16 at height 2) and one
  more fork at height 4, a window of 3 and 8 blocks, so that the window fills, slides,
  and is popped across both forks.
* `hardfork_voting`: forks at 50% and 67% of a window of 3, 7 blocks.
* `blockchain`: eight blocks in four branches, drawn in `MCBlockchain`. They make a
  switch that succeeds, one that fails in its middle on a double spend (`b2`), a heavier
  block that spends one key image twice (`d1`, the database throws), and transactions
  that may be missing from the pool at any time. Any pop of a switch or of a rollback may throw.
* `blockchain_checkpoint`: a heavy chain of three blocks against a light one that ends
  in a checkpoint, with a pruned transaction on the heavy one.
* `checkpoints`: five heights, two hashes, a compiled-in point at height 1 and others at 1 to 4
  to be loaded, one new point per source and load. A point that cannot be enforced, two points at once, a point above the chain, and a point that is rolled back
  under the loop all occur.
* `lock_order`: three threads, the six kinds of calls of `CorePrograms`. Three locks allow no longer circle. Threads are
  interchangeable, and all properties are invariants, so symmetry is used.
* `txpool`: two transactions that spend the same key image, and one that spends two
  others and needs an output of the first; blocks of one or two transactions, chains of
  two blocks, one block per batch; a limit of two for three transactions of weight one;
  relay methods `local`, `stem`, `block` (and `fluff` by upgrade and by `set_relayed`).
* `sync`: two peers, the good one with two connection ids, so that it is back on the second
  while a span of the first is in the queue; a common chain of three blocks of which the slow
  peer has a fourth, malformed one; requests of two blocks, so that two peers have spans at a
  time and the lower one may be lost; thresholds of one, so that `should_download_next_span`
  and the back-off of a full queue are reached; two troubles (connections to the slow peer,
  cuts, requests from peers) together. The chains agree: `CatchesUp` is claimed for such
  peers only, see section 5.
* `relay`: two outgoing connections and two stems; one transaction, whose id is used again
  after a block has taken it out of the pool, so that a source sends several in an epoch;
  two flush callbacks, so that one overtakes another; one trouble (a cut connection, a peer that
  falls behind, a message refused half-way, a restart, an epoch that begins or a block that comes
  while the transaction is on its way).
  Duplicates in a queue, gaps in the stem map and refilled places all occur.

### Fairness

* `SwitchEnds` assumes weak fairness of the steps of a switch: they are the loop of one
  thread that holds its locks and waits for nobody, so the scheduler runs it to its end. The clean-up
  after an exception is a step of the same thread.
* `CatchesUp` assumes that handlers run (threads of the pool of the network), that callbacks
  and the timers of `on_idle` fire and requests grow old, that timed syncs and the
  connections maker go on, and that peers which are not slow answer. Nothing is assumed of
  slow peers, and the network may cut connections (`MAX_TROUBLE` times).
* `Broadcast` assumes that jobs run on the strand, that timers fire, that
  `relay_txpool_transactions` is called (`on_idle`), that connections are opened again, and
  that epochs begin while nothing is on its way (strong fairness, as they begin every few
  minutes and sending takes seconds). Nothing is assumed of what peers do with a
  transaction.

## 4. Proofs

TLAPS checks these for all values of the constants that satisfy the named assumptions
(`ASSUME` in the component's module, evaluated by TLC for every instance). Bounds such as
`MAX_HEIGHT` or `MAX_TROUBLE` are constants too, so no theorem depends on their values. Each
theorem rests on an inductive invariant, which TLC checked on the run's instance before it was
proved; the proof has a lemma per action.

**`EmissionProofs`.** `SupplyIsCapped`: `Spec => [](TypeOK /\ SupplyTracked)`, for every cap,
reward, halving interval and zone. `TypeOK /\ SupplyTracked` is inductive: `BaseRewardBound`
(a reward never exceeds what is left), `PenaltyBound` (a penalty only lowers it) and
`RewardBound` give that the cap in `Accumulate` is met exactly or not at all, hence no coin is
hidden by it: as `get_block_reward` has no tail, the supply ends at the cap. `PowerAssumption` (`2^n` is positive) is an assumption, as the provers do not know
exponentiation.

The other three are about `WeightsSpec`, for all windows, weights, fork heights and histories of
blocks, pops, aborted batches and restarts:

| Theorem | Property | Hypothesis |
|---|---|---|
| `WeightsAreExact` | `LongTermWeightsAreExact` | `MedianOfWindow` |
| `LimitsFollow` | `LimitFollowsChain` | `MedianOfWindow` |
| `SupplyIsCappedInBatches` | `TypeOK /\ SupplyTracked`, with the limits in memory deciding on penalties | `MedianOfWindow` |

`MedianOfWindow` is the contract of `rolling_median.h`: filled with a sequence, it holds the median
of the sequence's last `LONG_TERM_WINDOW` values, and their number. `MCBlockWeights` has TLC evaluate
it for the real heaps on all sequences of up to seven of three values (`RollingMedianChecked`, with
the window of the run). `WeightsInv` says that the chain and the one an abort goes back to
carry the weights a node would compute from nothing (`ChainOK`), that the limits are those of the chain
unless a batch was aborted, and of the cache (`CacheOK`) that *some* sequence filled it and that, if
its tip is not the null hash, the end of that sequence is the end of the long-term weights of the
chain the tip names. That chain need not be ours: the cache survives pops and aborts. It is
consulted only if its tip is our tip or the parent of it, and long-term weights are determined by the
weights they belong to (`ExactUnique`), so that what it holds is then right.

**`HardForkProofs`.**

| Theorem | Property | Hypothesis |
|---|---|---|
| `VersionIsScheduled` | `VersionFollowsSchedule` | `NoVoting`: every fork has threshold 0, as in the LODE table |
| `CountsAreExact` | `CountsMatchWindow` | none |
| `WindowIsLastBlocks` | `WindowHoldsLastBlocks` | no pops (`SpecWithoutPops`) |
| `RestartRestoresTheCache` | `RescanChangesNothing` | no pops |

The scheduled index alone is not inductive, as reorganizations start from the versions recorded
in the database: `Inv` adds that each recorded version is the scheduled one and that the index
is scheduled for the height up to which a running reorganization has come. `WindowInv` adds to
the counts that the window is not empty under a block and holds only versions that are counted.
`HistoryInv` says that there is a function from heights to fork indices in which every index
follows from the one before by the votes of the window at its height, and that blocks, recorded
versions and the cached index are those of that function; hence no block fails `check()` when it
is scanned again. With pops the last two are false where forks wait for votes (section 5).

**`LockOrderProofs`**, for any threads and any calls: `DisciplineKeepsOrder` (`LocksInOrder`) and
`OrderPreventsDeadlock` (`NoDeadlock`) for calls that take the locks in order (`Disciplined`),
`PoolLockCoversBatch` (`PoolLockAroundBatch`) and `PoolLockGuardsBatch` (`BatchIsOurs`) for calls
whose batches are under locks (`BatchesUnderLocks`): a call has the lock of the chain where it starts a
batch, and keeps the lock of the pool around it, or that of the chain if it never takes the pool's. The invariant relates
the program counter to the locks held (`HeldIsDepth`), says that a lock has one holder
(`Exclusive`) and that the writer is the thread with a successful `batch_start` (`WriterOwns`).
`CoreNeverDeadlocks` is all four properties for the six kinds of calls of `CorePrograms`, any number of
threads; the rollback of `check_against_checkpoints`, which does deadlock, is not among them.
Its hypothesis only says that these are the calls. That they satisfy the other two hypotheses is shown by
taking each call apart as the code nests it: `Runs(p, a, b)` says that the steps `p` lead from the
holdings `a` (three depths and the open batches) to `b` by moves that keep order and batches right,
sequences of steps compose (`RunsBoth`), and the depths that `LockOrder` counts are the holdings
along the run (`TraceCounts`).

**`BlockchainProofs`**, for every tree of blocks, weights, checkpoints and transactions.
`BlockchainAssumption` says that `Path` is a tree: a block's path ends in the block, starts at
the genesis block, and the path to each block on it is a prefix; and that work grows along it.

| Theorem | Property | Hypothesis |
|---|---|---|
| `ChainIsSound` | `MainChainIsSound` | none |
| `CheckpointsAreKept` | `CheckpointsHold` | none |
| `BlocksHaveOnePlace` | `OnePlace` | none |
| `NoSwitchInASwitch` | `PushNeverSwitches` | none |
| `FailedSwitchIsUndone` | `FailedSwitchReverts` | `PrunedTxs = {}` |
| `SwitchKeepsTxs` | `NoTxLost` | `PrunedTxs = {}` |
| `InvalidBlocksStayOff` | `InvalidStaysOff` | no block spends a key image twice within itself |
| `ImplementsSelection` | `SelectsBetterChain`, the refinement of `ChainSelection` | `PrunedTxs = {}` |

`Inv` says for each phase of a switch where the tip is (`Placed`), how its two chains lie to each
other (`Forks`: they part at the split, the new one consists of alternative blocks from there on,
no checkpoint is on what is left) and which alternative blocks there may be (`AltApart`), and
that the state an abort goes back to is one between switches. After an exception of a pop `AltApart`
says what was left: nothing new if it came while blocks were disconnected, blocks in both places if
it came in a rollback (`torn`). As a block of the main chain was
checked on just the blocks it stands on, the old blocks pass all checks again when they are
restored, if their transactions are still there: `Kept`. That needs a database that has all
transactions in full; a pruned one cannot be returned to the pool (section 5). For the refinement,
`BatchAdvances` says that the tip of an open batch may follow the committed one, or after an exception
is on the path of one that may. `InvalidBlocksStayOff` rests on a switch that meets an invalid block
having failed there: no alternative chain can be connected beyond one (`Stuck`). The hypothesis
of `InvalidBlocksStayOff` keeps the database from throwing in the middle of a switch: the abort
brings back alternative blocks that the switch has meanwhile marked as invalid.

**`CheckpointsProofs`**: `PointsAreFinal` (`PointsKeepTheirHash`), `HistoryIsCommitted`
(`CommittedHistory`) and `PointsAreEnforced` (`EnforcedWhenDone`), without hypotheses. The last
excepts failed points at heights 0 and 1, where `pt.first - 2` wraps and nothing is rolled back, and says
that those above are enforced whatever stands there. The loop's
part of `Inv` is that all points it has passed are lower than those it has not, and that its
batch is the committed chain or that chain cut once, at a failed point; `Enforced` adds that no
passed point fails.

**`TxPoolProofs`**, for any transactions, key images, weights, fees and limits:

| Theorem | Property | Hypothesis |
|---|---|---|
| `IndexesAreExact` | `IndexesMatchPool` | none |
| `PoolIsLoadable` | `OnlyBlockTxsConflict` | none |
| `TimedOutIsRefused` | `TimedOutStaysOut` | none |
| `CacheNeverLies` | `CacheIsFresh` | none |
| `TemplateStaysValid` | the part of `TemplateConnects` that is not about relay methods | none |
| `TemplateIsMineable` | `TemplateConnects` | `"none" \notin Methods` |
| `ReturnedTxsAreKept` | `ReturnedTxsStay` | none |
| `WeightIsCovered` | `WeightCoversPool` | none |
| `PoolIsTyped` | `TypeOK` | none |

These are about `Spec`, without the exception path, which breaks the first (section 5). `Inv`
speaks of blocks that are popped where the properties speak of any block whose transactions go
back: those of a refused block go back while the cache and the template are in use. The
hypothesis of `TemplateIsMineable` is needed: a transaction submitted with `do_not_relay` may be
mined at once, and `/relay_tx` makes it one of the stem phase later (`set_relayed`), without
making the template stale. The `txpool` run has no such transaction either.
`WeightInv` adds to `WeightCoversPool` that the pool an open batch would go back to fits the counter,
as `Restart` counts it anew. The sum of the weights of a set is unfolded one element at a time, and what
holds of every finite set is shown by a smallest counterexample, in place of an induction.

**`RelayProofs`**, for any connections, transactions and number of stems: `QueuesAreFlushed`
(`QueuedIsFlushed`), `PoolIsScheduled` (`EveryTxIsScheduled`), `StemsAreCounted`
(`UsageIsCounted`) and `SourcesKeepTheirStem` (`StemIsKept`). `PoolInv` adds that the times of the
transactions of a job queued on the strand are set; `MapInv` that every source has a place, that
sources and open connections are finitely many and that every count is the number of sources of
its place. `PoolIsScheduled` says that a refused message, a block and a restart are the only three ways to
an entry whose time never comes, each a step of the model. `SourcesKeepTheirStem` is about stems that are
open and not behind, and holds through `update` and a second `get_stem` after a send that failed (`Keeps`);
a stem that lags is dropped by the `update` after another source's failed send.

**`SyncProofs`**, for any peers, chains, limits and number of connections:
`QueueAccountsForHashes` (`NoHashIsLost`), `ConnectionsStayAwake` (`OnlyRefusalForgets`) and
`SynchronizedMeansCaughtUp` (`SynchronizedIsTrue`). `SyncAssumption` says that a
block has the same ancestors in every chain it is on, and that some peer has a longest chain.
`SyncInv` says of every outcome of `request_missing_objects` and of every handler that the
connection is settled, that the queue is in order (`QueueOK`) and that an open connection's
height is that of its peer; for that, each answer under way carries that height. `TargetInv` says
that the target covers each connected peer, unless our chain does or the peer's top block is
known: `on_connection_close` lowers the target to the highest of the peers that are left, and
everything else only raises it. A peer whose top block is known only as invalid counts as
synchronised in `process_payload_sync_data`, hence the exception in `SynchronizedIsTrue`.

Only model-checked, and why:

* `SwitchEnds`, `CatchesUp`, `Broadcast`: liveness; TLAPS has no support for fairness and
  `ENABLED`.
* `MedianOfWindow`: `RollingMedian` is recursive, and that the two heaps hold the median of every
  sequence is an induction over data. TLC evaluates it on bounded sequences, as said above.

## 5. Where code and documentation disagree

Shown by a run:

* `lock_order_checkpoint`: enforcing a failed checkpoint takes the chain's lock and then,
  by popping blocks, the pool's. A pool operation takes them the other way round: deadlock.
  `add_new_block` has a comment on exactly this.
* `txpool_abort`: an aborted batch puts back the pool's table and not the spent key images
  and the order by fee kept in memory.

Met while modelling, in the models as in the code, without a run of their own:

* Leftovers of the tail emission of the parent project. The comment at `blockchain.cpp:4443` says that
  coins "will eventually exceed MONEY_SUPPLY" and that the cap leads to "the minimum subsidy >0 in the
  tail state", and `tests/unit_tests/block_reward.cpp:62` expects `FINAL_SUBSIDY_PER_MINUTE` near the
  cap. `get_block_reward` has no such minimum: it cuts the last reward to what is left and then pays
  nothing. `SupplyTracked` states the code, with which `docs/tokenomics.md` agrees.
* `blockchain.h:1309`: "If any step in the reorganization process fails, the blockchain is reverted to
  its previous state." That holds when a block cannot be connected (`FailedSwitchReverts`). When a pop
  throws, while the old chain is disconnected or in a rollback, `add_new_block` catches the exception
  (`blockchain.cpp:4694`), `m_batch_success` stays set and the half of the switch is committed: the chain
  may be shorter and have less work than before. After an exception in a rollback, blocks that were
  connected remain alternative blocks as well, until a restart without `--keep-alt-blocks` (`torn`).
* `locked_txn.h:36`: "If a batch exists, it can't be from another thread, since we can only be called with
  the txpool lock taken". `check_against_checkpoints` starts its batch with the lock of the chain alone
  (`blockchain.cpp:4709`), and may find that of incoming blocks open. What keeps a `LockedTXN` out of its
  batch is the lock of the chain (`BatchIsOurs`). If its rollback throws, the batch stays open, and
  the next `LockedTXN` of any thread writes into it; `Checkpoints` has that exception (`Throw`),
  `CoreLocks` has not.
* A switch that fails only because the pool lacks a transaction stores sound blocks as
  invalid, and they are then dismissed until a restart (`blockchain.cpp:1216`).
* After an aborted batch the weight limits in memory are those of blocks that are gone, until
  the next block is added or popped (`blockchain.cpp:4492` is not reached).
  `LimitFollowsChain` excepts this as `aborted`. What is stored in the database is right all the
  same (`LongTermWeightsAreExact`).
* `get_dynamic_base_fee_estimate_2021_scaling` copies the rolling median without the lock of the
  chain, while another thread may insert into it (`blockchain.cpp:3844`).
* A private transaction that comes a second time is counted twice in the "cumulative"
  weight of the pool, and the surplus stays until a restart (`tx_pool.cpp:390`).
  `WeightCoversPool` states the direction that holds.
* When the blocks of a span are refused, `try_add_next_blocks` returns before it goes back
  to download, and the connection that was adding is left synchronizing with nothing asked
  (`OnlyRefusalForgets`, `CatchesUp` except this).
* `get_next_span_if_scheduled` and `reset_next_span_time` are separate critical sections: a
  span may be gone or filled in between, and the assertions of the latter throw.
* `add_blocks` gives a span the hashes of the span that was there, whoever was asked for it.
  Where peers are on different forks these are not its blocks, and `CatchesUp` fails on such
  instances.
* Refused by `prepare_handle_incoming_blocks`, a span whose connection is gone stays at the
  head of the queue.
* `handle_request_get_objects` sets `m_last_request_time`, so that peers which ask us for
  blocks do not look idle.
* The daemon stops between `add_tx` and `set_relayed`: the transaction stays in the pool with
  a relay time that never comes (`tx_pool.cpp:351`), for a stem because the time is the
  largest there is, otherwise because `now - last_relayed_time` wraps and `get_relay_delay`
  returns a negative number as an unsigned one. The same happens to the transactions of a message of
  which a later one is refused (`cryptonote_protocol_handler.inl:1033` returns before
  `relay_transactions`) and to those of popped and alternative blocks ("We assume that if they were in
  a block, the transactions are already known to the network as a whole", `blockchain.cpp:646`).
  `EveryTxIsScheduled` shows that these are all the ways; `Broadcast` excepts them as `stranded`.
* A stem whose peer falls behind is dropped from the map by the `update` that follows a failed send of
  any other source (`levin_notify.cpp:148`), so its sources change their stem within the epoch.
* `fluff_txs` is not deduplicated: a transaction that is queued by its embargo and by its
  arrival at about the same time may be sent twice in a message, and the peer drops the
  connection ("Duplicate transaction in notification, dropping connection").
* `get_relayable_transactions` does not commit its `LockedTXN`, so that the times it writes
  are lost. The times only guard against later changes, as its comment says.
* A transaction that failed on a block is skipped by `fill_block_template` as long as that
  block is on the main chain, also if a later block has made it valid (`tx_pool.cpp:1466`).
* After `pop_blocks` to a fork point, `build_alt_chain` refuses a block that makes the known
  fork the heavier chain (`blockchain.cpp:1894`).
* A failed switch that had popped pruned transactions does not get back to the old chain
  (`blockchain.cpp:632`).
* A failed checkpoint at height 0 or 1 is not enforced: `pt.first - 2` wraps
  (`blockchain.cpp:4727`). The main network has a point at height 1. `EnforcedWhenDone` excepts it.
* An exception in `check_against_checkpoints` leaves its batch open and `m_checkpoints_updating` set, and no
  later update runs (`cryptonote_core.cpp:285`).
* With forks that wait for votes, `on_block_popped` puts a recorded version into the window
  in place of a vote (`hardfork.cpp:300`). No LODE table has such a fork.
* `docs/tokenomics.md:27` counts height 0 among the blocks that pay 100 LODE; `get_block_reward`
  pays nothing at height 0.

## 6. What is not modelled

`PROJECT.json` lists every part with its status. Out of reach: cryptography (the models take
signatures and proofs of work as valid or not), serialization, storage layout, devices.
Front ends (command line, wallet RPC, utilities, deployment) have no logic that the core does
not have; the catalogues under `translations/` are data. Inside the modelled parts: the
`fast_check` path with compiled-in block hashes, difficulty (part of `HeaderOK`), the weight
limits within `Blockchain` (part of `RewardOK`; they have a module of their own), the fees
computed from the limits, the age of outputs (one block in place of ten), `validate` of the pool
at a fork (the only fork of LODE is at height 2, before any transaction can exist), an aborted
batch that crossed that fork, a `BlockchainDB::pop_block` that fails after it has removed a part of the
block (`blockchain_db.cpp:315`, a damaged database), pruned peers, fluffy blocks and peers whose height
changes while they are connected in the synchronisation, noise
channels and anonymity networks in the relaying, the lifetime of pool entries there, and data
races: `m_checkpoints` is written without a lock that its readers take.

## 7. Plan

In this order, the most important behaviour first:

1. *(done)* `Emission` with `BlockWeights`, `HardFork`, `Blockchain` with `ChainSelection`, `Checkpoints`,
   `LockOrder`, `TxPool`, `BlockQueue` and `Sync`, `Relay`.
2. Peers on forks and pruned peers in `Sync`; `Relay` composed with `TxPool`.
3. `PoolInfo`: incremental pool information for wallets; a client that applies all answers
   misses no change.
4. Dynamic fees; `next_difficulty`; pruning stripes; merge-mining depth encoding: operators, over
   bounded inputs.
5. `Peerlist`, `Miner`, thread pool, reader gate of LMDB.
6. `Wallet`: refresh against a daemon that reorganizes.

Theorems to come: the operators of `BlockQueue` against a specification of their own; the pool with
the exception path, for what an aborted batch leaves true.
