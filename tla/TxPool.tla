------------------------------- MODULE TxPool -------------------------------
(***************************************************************************)
(* The transaction pool: what the database holds of it, the indexes kept   *)
(* in memory beside it (spent key images, the order by fee, the weight,    *)
(* the results of input checks), the cached block template, and the blocks *)
(* that take transactions out of the pool and put them back.               *)
(*                                                                         *)
(* Fees per byte differ, so the order by fee and receive time is that of   *)
(* the fees.  Transactions pass all checks that depend on them alone.  Any *)
(* transaction may be old enough to time out.  The transactions of a block *)
(* that is popped or refused go back one at a time, under the locks: the   *)
(* variable job holds those that are left, and nothing else is enabled.    *)
(* Blocks are handled inside a batch of the database, by the thread that   *)
(* has started it and holds the lock of the pool until it ends it.  An     *)
(* output is old enough to be spent in the next block, not ten blocks on.  *)
(***************************************************************************)
EXTENDS Integers, Sequences, FiniteSets, FiniteSetsExt

CONSTANTS
    Txs,
    KeyImages,
    Images,             \* the key images a transaction spends, in order
    Needs,              \* transactions with the outputs its rings refer to
    Weight, Fee,        \* the weight and the fee per byte of a transaction
    Methods,            \* the ways in which transactions reach the pool by themselves
    m_txpool_max_weight,
    m_mine_stem_txes,
    BlockIds,           \* tells apart blocks with the same parent and transactions
    BlockSizes,         \* the numbers of transactions a block may have
    MAX_BLOCKS,         \* bound on the blocks of the chain
    MAX_HANDLED,        \* bound on the blocks added, refused or popped in a batch
    MAX_TIMED_OUT,      \* bound on m_timed_out_transactions
    MAX_COUNTED         \* bound on m_txpool_weight

\* enum class relay_method, in its order.
relay_method == <<"none", "local", "forward", "stem", "fluff", "block">>

Rank(method) == CHOOSE i \in DOMAIN relay_method : relay_method[i] = method

ASSUME TxPoolAssumption ==
    /\ Images \in [Txs -> Seq(KeyImages)]
    /\ Needs \in [Txs -> SUBSET Txs]
    /\ Weight \in [Txs -> Nat \ {0}]
    /\ Fee \in [Txs -> Nat] /\ IsInjective(Fee)
    /\ Methods \subseteq {"none", "local", "forward", "stem", "fluff", "block"}
    /\ m_txpool_max_weight \in Nat /\ m_mine_stem_txes \in BOOLEAN
    /\ MAX_BLOCKS \in Nat /\ BlockSizes \subseteq Nat /\ MAX_HANDLED \in Nat
    /\ MAX_TIMED_OUT \in Nat /\ MAX_COUNTED \in Nat

VARIABLES
    chain,      \* the blocks above the genesis block: [id, txs]
    pool,       \* the pool in the database: transactions to their meta data
    spent,      \* m_spent_key_images
    sorted,     \* m_txs_by_fee_and_receive_time
    weight,     \* m_txpool_weight
    timed_out,  \* m_timed_out_transactions
    cache,      \* m_input_cache
    template,   \* the cached block template, and if it can still be used
    job,        \* transactions to be put back; popped: of a block just popped
    batch       \* what the database goes back to if its batch is aborted

vars == <<chain, pool, spent, sorted, weight, timed_out, cache, template, job, batch>>

NoJob == [txs |-> << >>, popped |-> FALSE]
NoBatch == [open |-> FALSE, failed |-> FALSE, handled |-> 0, chain |-> << >>, pool |-> << >>]
Stale == [usable |-> FALSE, txs |-> {}]

ImagesOf(t) == Range(Images[t])
TxsOf(blocks) == UNION {Range(b.txs) : b \in Range(blocks)}
Conflict(t, u) == t # u /\ ImagesOf(t) \cap ImagesOf(u) # {}

-----------------------------------------------------------------------------
(* What is asked of the pool and of the chain.                             *)

\* matches_category(method, legacy), and broadcasted without "none".
IsLegacy(method) == method \in {"none", "fluff", "block"}

have_tx_legacy(t) == t \in DOMAIN pool /\ IsLegacy(pool[t].relay)

have_tx_keyimg_as_spent(k, t) == spent[k] # {} /\ (spent[k] # {t} \/ have_tx_legacy(t))

\* Mutant: only the transaction itself is looked for.
have_tx_keyimges_as_spent_self(t) == \E k \in ImagesOf(t) : spent[k] = {t} /\ have_tx_legacy(t)

have_tx_keyimges_as_spent(t) == \E k \in ImagesOf(t) : have_tx_keyimg_as_spent(k, t)

\* Blockchain::check_tx_inputs.
InputsOK(t) ==
    /\ \A u \in TxsOf(chain) : u # t /\ ~Conflict(t, u)
    /\ Needs[t] \subseteq TxsOf(chain)

\* max_used_block_height, 0 being the genesis block.
MaxUsed(t) == Max({0} \cup {h \in DOMAIN chain : Needs[t] \cap Range(chain[h].txs) # {}})

\* check_tx_inputs of the pool: the cache is not used for kept_by_block.
Checked(t) == IF t \in DOMAIN cache THEN cache[t] ELSE [ok |-> InputsOK(t), used |-> MaxUsed(t)]

-----------------------------------------------------------------------------
(* Changes of the pool.                                                    *)

With(f, t, v) == [u \in DOMAIN f \cup {t} |-> IF u = t THEN v ELSE f[u]]
Without(f, S) == [u \in DOMAIN f \ S |-> f[u]]

\* insert_key_images.
insert_key_images(t) == [k \in KeyImages |-> IF k \in ImagesOf(t) THEN spent[k] \cup {t} ELSE spent[k]]

\* Mutant: only the first image is removed.
FoundFirst(s, t) == {Images[t][i] : i \in {n \in DOMAIN Images[t] : n = 1 /\ t \in s[Images[t][1]]}}

\* remove_transaction_keyimages stops at an image it does not find.
Found(s, t) ==
    {Images[t][i] : i \in {n \in DOMAIN Images[t] : \A j \in 1 .. n : t \in s[Images[t][j]]}}

remove_transaction_keyimages(s, S) == [k \in KeyImages |-> s[k] \ {t \in S : k \in Found(s, t)}]

Total(S) == MapThenSumSet(LAMBDA t : Weight[t], S)

reduce_txpool_weight(w, S) == IF Total(S) > w THEN 0 ELSE w - Total(S)

\* Mutant: transactions kept for a block are pruned, too.
PrunedAll(p, order, w) ==
    LET candidates == {t \in order : t \in DOMAIN p /\ \E u \in order : Fee[u] > Fee[t]}
    IN  {t \in candidates : reduce_txpool_weight(w, {u \in candidates : Fee[u] < Fee[t]}) > m_txpool_max_weight}

\* What prune removes: from the lowest fee on, until the weight is not above the
\* limit, but nothing kept for a block and never the first of the order.
Pruned(p, order, w) ==
    LET candidates == {t \in order : /\ t \in DOMAIN p /\ p[t].relay # "block"
                                     /\ \E u \in order : Fee[u] > Fee[t]}
    IN  {t \in candidates : reduce_txpool_weight(w, {u \in candidates : Fee[u] < Fee[t]}) > m_txpool_max_weight}

\* Mutant: a transaction kept for a block is not counted.
CountRelayedAndPrune(t, p, s, order) ==
    LET w == IF p[t].relay = "block" THEN weight ELSE weight + Weight[t]
        pruned == Pruned(p, order, w)
    IN  /\ w <= MAX_COUNTED
        /\ pool' = Without(p, pruned)
        /\ spent' = remove_transaction_keyimages(s, pruned)
        /\ sorted' = order \ pruned
        /\ weight' = reduce_txpool_weight(w, pruned)
        /\ template' = Stale

\* The end of add_tx: the weight is counted and the pool pruned.
CountAndPrune(t, p, s, order) ==
    LET w == weight + Weight[t]
        pruned == Pruned(p, order, w)
    IN  /\ w <= MAX_COUNTED
        /\ pool' = Without(p, pruned)
        /\ spent' = remove_transaction_keyimages(s, pruned)
        /\ sorted' = order \ pruned
        /\ weight' = reduce_txpool_weight(w, pruned)
        /\ template' = Stale

Insert(t, meta) == CountAndPrune(t, With(pool, t, meta), insert_key_images(t), sorted \cup {t})

\* mark_double_spend, for a transaction that is refused.
MarkDoubleSpend(t) ==
    LET others == UNION {spent[k] : k \in ImagesOf(t)} \cap DOMAIN pool
        marked == {u \in others : ~pool[u].double_spend_seen}
    IN  /\ pool' = [u \in DOMAIN pool |->
                      IF u \in marked THEN [pool[u] EXCEPT !.double_spend_seen = TRUE] ELSE pool[u]]
        /\ template' = IF marked = {} THEN template ELSE Stale
        /\ UNCHANGED <<spent, sorted, weight>>

\* Kept for a block although its inputs are wrong now.
AddUnchecked(t) ==
    Insert(t, [relay |-> "block", double_spend_seen |-> have_tx_keyimges_as_spent(t),
               used |-> -1, failed |-> {}])

\* A second stem message for a transaction is a loop, and turns into fluff.
UpgradeTo(t, method) ==
    IF t \in DOMAIN pool /\ method = "stem" /\ pool[t].relay = "stem" THEN "fluff" ELSE method

\* The inputs are right.  A transaction the pool has already is only upgraded,
\* if at all, and its weight is counted once more.
AddChecked(t, method, used) ==
    LET relay == UpgradeTo(t, method)
    IN  IF t \in DOMAIN pool /\ Rank(pool[t].relay) >= Rank(relay)
        THEN CountAndPrune(t, pool, spent, sorted)
        ELSE Insert(t, [relay |-> relay, double_spend_seen |-> FALSE,
                        used |-> used, failed |-> {}])

Refused == UNCHANGED <<pool, spent, sorted, weight, template>>

\* add_tx for relay_method::block.
add_tx_for_block(t) ==
    /\ \/ /\ InputsOK(t)
          /\ AddChecked(t, "block", MaxUsed(t))
       \/ /\ ~InputsOK(t) /\ t \notin DOMAIN pool
          /\ AddUnchecked(t)
       \/ /\ ~InputsOK(t) /\ t \in DOMAIN pool  \* add_txpool_tx throws
          /\ template' = Stale
          /\ UNCHANGED <<pool, spent, sorted, weight>>
    /\ UNCHANGED cache

\* Mutant: transactions that timed out are taken again.
add_tx_for_relay_timed_out(t, method) ==
    \/ /\ have_tx_keyimges_as_spent(t)
       /\ MarkDoubleSpend(t) /\ UNCHANGED cache
    \/ /\ ~have_tx_keyimges_as_spent(t)
       /\ cache' = With(cache, t, Checked(t))
       /\ IF Checked(t).ok THEN AddChecked(t, method, Checked(t).used) ELSE Refused

\* add_tx for any other method.
add_tx_for_relay(t, method) ==
    \/ /\ t \in timed_out
       /\ Refused /\ UNCHANGED cache
    \/ /\ t \notin timed_out /\ have_tx_keyimges_as_spent(t)
       /\ MarkDoubleSpend(t) /\ UNCHANGED cache
    \/ /\ t \notin timed_out /\ ~have_tx_keyimges_as_spent(t)
       /\ cache' = With(cache, t, Checked(t))
       /\ IF Checked(t).ok THEN AddChecked(t, method, Checked(t).used) ELSE Refused

\* Mutant: m_cookie is not incremented.
TakeKeepsTemplate(S) ==
    /\ pool' = Without(pool, S)
    /\ spent' = remove_transaction_keyimages(spent, S)
    /\ sorted' = sorted \ S
    /\ weight' = reduce_txpool_weight(weight, S)
    /\ UNCHANGED template

\* take_tx for some transactions.
Take(S) ==
    /\ pool' = Without(pool, S)
    /\ spent' = remove_transaction_keyimages(spent, S)
    /\ sorted' = sorted \ S
    /\ weight' = reduce_txpool_weight(weight, S)
    /\ template' = Stale

-----------------------------------------------------------------------------
Init ==
    /\ chain = << >>
    /\ pool = << >> /\ spent = [k \in KeyImages |-> {}] /\ sorted = {}
    /\ weight = 0 /\ timed_out = {} /\ cache = << >>
    /\ template = Stale /\ job = NoJob /\ batch = NoBatch

\* core::add_new_tx, for transactions on their own and for those of a block.
add_new_tx(t, method) ==
    /\ job = NoJob /\ (batch.open => method = "block")
    /\ ~have_tx_legacy(t) /\ t \notin TxsOf(chain)
    /\ IF method = "block" THEN add_tx_for_block(t) ELSE add_tx_for_relay(t, method)
    /\ UNCHANGED <<chain, timed_out, job, batch>>

\* set_relayed, once the transaction has been sent.
set_relayed(t, method) ==
    /\ ~batch.open
    /\ t \in DOMAIN pool
    /\ Rank(pool[t].relay) < Rank(method)
    /\ pool' = [pool EXCEPT ![t].relay = method]
    /\ sorted' = IF method = "fluff" THEN sorted \cup {t} ELSE sorted
    /\ UNCHANGED <<chain, spent, weight, timed_out, cache, template, job, batch>>

\* remove_stuck_transactions.
remove_stuck_transactions(old) ==
    /\ ~batch.open
    /\ old # {} /\ Cardinality(timed_out \cup old) <= MAX_TIMED_OUT
    /\ Take(old)
    /\ timed_out' = timed_out \cup old
    /\ UNCHANGED <<chain, cache, job, batch>>

flush_txes_from_pool(t) ==
    /\ ~batch.open
    /\ Take({t})
    /\ UNCHANGED <<chain, timed_out, cache, job, batch>>

-----------------------------------------------------------------------------
(* Blocks.                                                                 *)

\* Mutant: nobody has started a batch.
HandleWithoutBatch ==
    /\ job = NoJob
    /\ batch.handled < MAX_HANDLED
    /\ batch' = [batch EXCEPT !.handled = @ + 1]

\* One more block in the batch.
HandleInBatch ==
    /\ job = NoJob
    /\ batch.open /\ batch.handled < MAX_HANDLED
    /\ batch' = [batch EXCEPT !.handled = @ + 1]

BlockTxs == {txs \in UNION {[1 .. n -> DOMAIN pool] : n \in BlockSizes} : IsInjective(txs)}

\* Mutant: on_blockchain_inc keeps the results of input checks.
ClearedCacheKept == cache

\* on_blockchain_inc and on_blockchain_dec.
ClearedCache == << >>

\* A block is added to the main chain.
AddBlock(id, txs) ==
    /\ HandleInBatch
    /\ Len(chain) < MAX_BLOCKS
    /\ \A t \in Range(txs) : InputsOK(t)
    /\ \A t, u \in Range(txs) : ~Conflict(t, u)
    /\ Take(Range(txs))
    /\ chain' = Append(chain, [id |-> id, txs |-> txs])
    /\ cache' = ClearedCache
    /\ UNCHANGED <<timed_out, job>>

\* A block is refused: its transactions were taken up to the first with wrong
\* inputs, or all of them before a wrong reward was found.
RefuseBlock(txs) ==
    /\ HandleInBatch
    /\ txs # << >>
    /\ \A i \in 1 .. Len(txs) - 1 : InputsOK(txs[i])
    /\ Take(Range(txs))
    /\ job' = [txs |-> txs, popped |-> FALSE]
    /\ UNCHANGED <<chain, timed_out, cache>>

\* add_block of the database throws, for two that spend the same key image.
FailBlock(txs) ==
    /\ job = NoJob /\ batch.open
    /\ \A t \in Range(txs) : InputsOK(t)
    /\ \E t, u \in Range(txs) : Conflict(t, u)
    /\ Take(Range(txs))
    /\ job' = [txs |-> txs, popped |-> FALSE]
    /\ batch' = [batch EXCEPT !.failed = TRUE]
    /\ UNCHANGED <<chain, timed_out, cache>>

PopBlock ==
    /\ HandleInBatch
    /\ chain # << >>
    /\ chain' = SubSeq(chain, 1, Len(chain) - 1)
    /\ job' = [txs |-> chain[Len(chain)].txs, popped |-> TRUE]
    /\ UNCHANGED <<pool, spent, sorted, weight, timed_out, cache, template>>

\* One round of the loops of return_tx_to_pool and pop_block_from_blockchain.
ReturnTx ==
    /\ job.txs # << >>
    /\ add_tx_for_block(Head(job.txs))
    /\ job' = IF Len(job.txs) = 1 /\ ~job.popped THEN NoJob ELSE [job EXCEPT !.txs = Tail(@)]
    /\ UNCHANGED <<chain, timed_out, batch>>

\* on_blockchain_dec, and the template is invalidated.
FinishPop ==
    /\ job = [txs |-> << >>, popped |-> TRUE]
    /\ cache' = ClearedCache
    /\ template' = Stale
    /\ job' = NoJob
    /\ UNCHANGED <<chain, pool, spent, sorted, weight, timed_out, batch>>

-----------------------------------------------------------------------------
(* The block template.                                                     *)

\* The block on which a check failed is on the main chain.
FailedBefore(t) == \E top \in pool[t].failed : Len(top) <= Len(chain) /\ top = SubSeq(chain, 1, Len(top))

\* is_transaction_ready_to_go leaves such a transaction alone.
Skipped(t) == FailedBefore(t) \/ (pool[t].used >= 0 /\ pool[t].used > Len(chain))

Mineable(t) ==
    \/ IsLegacy(pool[t].relay)
    \/ m_mine_stem_txes /\ pool[t].relay = "stem"

\* fill_block_template, for the transactions that are wanted in the block as far
\* as weights and fees are concerned, and create_block_template, which caches the
\* result.  The higher fee wins where two spend the same key image.
create_block_template(wanted) ==
    LET checked == {t \in wanted \cap sorted : t \in DOMAIN pool /\ Mineable(t) /\ ~Skipped(t)}
        ready == {t \in checked : Checked(t).ok}
        meta(t) == IF t \in ready THEN [pool[t] EXCEPT !.used = Checked(t).used]
                   ELSE IF t \in checked THEN [pool[t] EXCEPT !.failed = {chain}, !.used = IF @ = -1 THEN -1 ELSE 0]
                   ELSE pool[t]
    IN  /\ ~batch.open
        /\ ~template.usable
        /\ \E txs \in SUBSET ready :
              /\ \A t \in ready : t \in txs <=> ~\E u \in txs : Fee[u] > Fee[t] /\ Conflict(t, u)
              /\ template' = [usable |-> TRUE, txs |-> txs]
        /\ pool' = [t \in DOMAIN pool |-> meta(t)]
        /\ cache' = [t \in DOMAIN cache \cup checked |-> Checked(t)]
        /\ UNCHANGED <<chain, spent, sorted, weight, timed_out, job, batch>>

-----------------------------------------------------------------------------
(* Restarts, and batches that are aborted.                                 *)

\* init inserts the key images of the pool anew; those kept for a block last.
Loadable(p) == \A t, u \in DOMAIN p : Conflict(t, u) => "block" \in {p[t].relay, p[u].relay}

Restart ==
    LET p == IF batch.open THEN batch.pool ELSE pool
    IN  /\ Loadable(p)
        /\ pool' = p
        /\ chain' = IF batch.open THEN batch.chain ELSE chain
        /\ spent' = [k \in KeyImages |-> {t \in DOMAIN p : k \in ImagesOf(t)}]
        /\ sorted' = DOMAIN p
        /\ weight' = Total(DOMAIN p)
        /\ timed_out' = {} /\ cache' = << >> /\ template' = Stale
        /\ job' = NoJob /\ batch' = NoBatch

prepare_handle_incoming_blocks ==
    /\ job = NoJob /\ ~batch.open
    /\ batch' = [open |-> TRUE, failed |-> FALSE, handled |-> 0, chain |-> chain, pool |-> pool]
    /\ UNCHANGED <<chain, pool, spent, sorted, weight, timed_out, cache, template, job>>

\* cleanup_handle_incoming_blocks.
CommitBatch ==
    /\ job = NoJob /\ batch.open /\ ~batch.failed
    /\ batch' = NoBatch
    /\ UNCHANGED <<chain, pool, spent, sorted, weight, timed_out, cache, template, job>>

\* Only the database goes back, and not what is kept in memory.
AbortBatch ==
    /\ job = NoJob /\ batch.failed
    /\ chain' = batch.chain
    /\ pool' = batch.pool
    /\ batch' = NoBatch
    /\ UNCHANGED <<spent, sorted, weight, timed_out, cache, template, job>>

Next ==
    \/ \E t \in Txs, method \in Methods : add_new_tx(t, method)
    \/ \E t \in Txs, method \in {"local", "forward", "stem", "fluff"} : set_relayed(t, method)
    \/ \E old \in SUBSET DOMAIN pool : remove_stuck_transactions(old)
    \/ \E t \in DOMAIN pool : flush_txes_from_pool(t)
    \/ prepare_handle_incoming_blocks
    \/ \E id \in BlockIds, txs \in BlockTxs : AddBlock(id, txs)
    \/ \E txs \in BlockTxs : RefuseBlock(txs)
    \/ PopBlock
    \/ ReturnTx
    \/ FinishPop
    \/ CommitBatch
    \/ \E wanted \in SUBSET DOMAIN pool : create_block_template(wanted)
    \/ Restart

Spec == Init /\ [][Next]_vars

\* With blocks that make the database throw.
NextWithAborts == Next \/ (\E txs \in BlockTxs : FailBlock(txs)) \/ AbortBatch

SpecWithAborts == Init /\ [][NextWithAborts]_vars

-----------------------------------------------------------------------------
(* Properties.                                                             *)

Kept(t) == pool[t].relay = "block"

\* Every variable holds a value of its kind, m_txpool_weight never goes below
\* zero, and transactions go back to the pool inside a batch only, so that a
\* daemon that stops in the middle finds them again.
TypeOK ==
    /\ Len(chain) <= MAX_BLOCKS
    /\ DOMAIN pool \subseteq Txs
    /\ \A t \in DOMAIN pool :
          /\ pool[t].relay \in Range(relay_method)
          /\ pool[t].double_spend_seen \in BOOLEAN
          /\ pool[t].used \in -1 .. MAX_BLOCKS
    /\ spent \in [KeyImages -> SUBSET Txs]
    /\ sorted \subseteq Txs /\ timed_out \subseteq Txs /\ DOMAIN cache \subseteq Txs
    /\ weight \in 0 .. MAX_COUNTED
    /\ template.txs \subseteq Txs
    /\ job.txs \in Seq(Txs) /\ (job # NoJob => batch.open)

\* m_spent_key_images and the order by fee (tx_pool.h) are kept by hand beside
\* the database in add_tx, prune, take_tx and remove_stuck_transactions, and
\* hold exactly the transactions of the pool after every step.
IndexesMatchPool ==
    /\ sorted = DOMAIN pool
    /\ \A k \in KeyImages : spent[k] = {t \in DOMAIN pool : k \in ImagesOf(t)}

\* "Only allow multiple txes per key-image if kept-by-block" (insert_key_images):
\* of two transactions of the pool that spend the same key image, one is kept
\* for a block, whatever upgrades, pops and refused blocks there were.  init
\* would otherwise fail, and the daemon not start, with what the database has.
OnlyBlockTxsConflict == Loadable(pool) /\ (batch.open => Loadable(batch.pool))

\* m_input_cache answers what checking the inputs on the chain as it is would
\* give, except in the middle of a pop, where it is not asked.
CacheIsFresh ==
    job = NoJob => \A t \in DOMAIN cache : cache[t].ok = InputsOK(t)

\* A template that is handed out again from the cache (create_block_template
\* compares m_cookie only) would still be accepted as a block: its transactions
\* are in the pool, are no secret, have right inputs and spend no key image twice.
TemplateConnects ==
    template.usable /\ job = NoJob =>
        /\ template.txs \subseteq DOMAIN pool
        /\ \A t \in template.txs : Mineable(t) /\ InputsOK(t)
        /\ \A t, u \in template.txs : ~Conflict(t, u)

\* "we do not accept transactions that timed out before, unless they're
\* kept_by_block" (add_tx).
TimedOutStaysOut == \A t \in timed_out \cap DOMAIN pool : Kept(t)

\* While the transactions of a popped or refused block go back to the pool,
\* none of those that are back already is pruned for the others.
ReturnedTxsStay ==
    [][job # NoJob /\ batch' = batch =>
          {t \in DOMAIN pool : Kept(t)} \cup (Range(job.txs) \ Range(job'.txs)) \subseteq DOMAIN pool']_vars

\* m_txpool_weight (tx_pool.h), which prune compares with the limit, never falls
\* below the weight of the transactions in the pool, however often one is counted
\* again or taken twice: the pool cannot outgrow its limit unnoticed.
WeightCoversPool == weight >= Total(DOMAIN pool)
=============================================================================
