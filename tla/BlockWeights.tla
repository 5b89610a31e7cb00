---------------------------- MODULE BlockWeights ----------------------------
(***************************************************************************)
(* The weight limit of the next block, on top of the emission: weights and *)
(* long-term weights that the database keeps for every block, the limits   *)
(* that Blockchain keeps in memory, and the cached rolling median of the   *)
(* long-term weights, which is found again by the hash of the tip it was   *)
(* computed for.  Blocks are added, popped, lost with an aborted batch or  *)
(* with a crash; the memory follows by itself in none of these cases.      *)
(*                                                                         *)
(* A block is known by the weights of the chain that ends in it.  Batches  *)
(* stay above the last fork: the cached version of the hard fork, which an *)
(* aborted batch does not restore either, is not part of this module.      *)
(***************************************************************************)
EXTENDS Emission

CONSTANTS
    REWARD_WINDOW,           \* CRYPTONOTE_REWARD_BLOCKS_WINDOW, 100 blocks
    LONG_TERM_WINDOW,        \* CRYPTONOTE_LONG_TERM_BLOCK_WEIGHT_WINDOW_SIZE, 100000 blocks
    SURGE_FACTOR,            \* CRYPTONOTE_SHORT_TERM_BLOCK_WEIGHT_SURGE_FACTOR, 50
    LONG_TERM_VERSION,       \* HF_VERSION_LONG_TERM_BLOCK_WEIGHT
    SHORT_TERM_VERSION,      \* HF_VERSION_EFFECTIVE_SHORT_TERM_MEDIAN_IN_PENALTY
    SCALING_VERSION,         \* HF_VERSION_2021_SCALING
    LAST_FORK,               \* the height of the last fork
    ClearRM(_), InsertRM(_, _, _), MedianRM(_),  \* rolling_median_t, for a window: clear, insert, median
    MedianOf(_),             \* epee::misc_utils::median
    MAX_TROUBLE              \* bound on the pops and the aborted batches

ASSUME BlockWeightsAssumption ==
    /\ REWARD_WINDOW \in Nat \ {0} /\ LONG_TERM_WINDOW \in Nat \ {0} /\ SURGE_FACTOR \in Nat
    /\ LONG_TERM_VERSION \in Nat /\ SHORT_TERM_VERSION \in Nat /\ SCALING_VERSION \in Nat
    /\ LAST_FORK \in Nat /\ MAX_TROUBLE \in Nat

VARIABLES
    weights,            \* weights[h + 1]: the weight of the block at height h
    long_term_weights,  \* its long-term weight
    cache,              \* m_long_term_block_weights_cache_*: tip and rolling median
    limits,             \* m_current_block_cumul_weight_median and the long-term one
    batch,              \* what the database goes back to if the batch is aborted
    aborted,            \* history: nothing was added or popped since a batch was aborted
    trouble             \* how often blocks were popped or a batch aborted

db == <<generated, issued, weights, long_term_weights>>

weights_vars == <<db, cache, limits, batch, aborted, trouble>>

null_hash == << >>

NoBatch == << >>

AtLeast(a, b) == IF a < b THEN b ELSE a

AtMost(a, b) == IF a > b THEN b ELSE a

Last_n(s, n) == SubSeq(s, AtLeast(Len(s) - n + 1, 1), Len(s))

-----------------------------------------------------------------------------
\* The bounds of a block's long-term weight.
LongTermWeight(version, long_term_median, weight) ==
    LET effective == AtLeast(ZONE_V5, long_term_median)
    IN  IF version < LONG_TERM_VERSION THEN weight
        ELSE IF version < SCALING_VERSION
        THEN AtMost(weight, effective + (effective * 2) \div 5)
        ELSE AtMost(AtLeast(weight, (effective * 10) \div 17), effective + (effective * 7) \div 10)

\* The limits for the next block; a version without long-term weights leaves the
\* long-term one alone.
LimitsFor(version, long_term_median, short_term_median, old) ==
    LET long_term == AtLeast(ZONE_V5, long_term_median)
        lowest == IF version < SCALING_VERSION THEN ZONE_V5 ELSE long_term
        surge == AtMost(AtLeast(lowest, short_term_median), SURGE_FACTOR * long_term)
    IN  IF version < LONG_TERM_VERSION
        THEN [old EXCEPT !.median = AtLeast(short_term_median, get_min_block_weight(version))]
        ELSE [median |-> AtLeast(surge, get_min_block_weight(version)), long_term |-> long_term]

\* The rolling median with a sequence of values inserted one after the other.
Filled(s) ==
    LET filled[n \in 0 .. Len(s)] ==
            IF n = 0 THEN ClearRM(LONG_TERM_WINDOW) ELSE InsertRM(filled[n - 1], s[n], LONG_TERM_WINDOW)
    IN  filled[Len(s)]

\* Mutant: a cache of the right size is taken for that of the tip.
get_long_term_any_tip(c, ws, ls) ==
    LET count == AtMost(Len(ls), LONG_TERM_WINDOW)
        sized == count = c.rm.sz
    IN  IF sized /\ c.tip # null_hash THEN c
        ELSE [tip |-> IF sized THEN ws ELSE null_hash, rm |-> Filled(Last_n(ls, count))]

\* get_long_term_block_weight_median for the window that ends at the tip: the cache
\* it leaves, whose median is the result.  While the window is filling the tip is
\* not recorded at first, because count differs from the size of the cache.
get_long_term_block_weight_median(c, ws, ls) ==
    LET count == AtMost(Len(ls), LONG_TERM_WINDOW)
        sized == count = c.rm.sz
    IN  IF sized /\ c.tip = ws THEN c
        ELSE IF sized /\ Len(ws) > 1 /\ c.tip = SubSeq(ws, 1, Len(ws) - 1)
        THEN [tip |-> ws, rm |-> InsertRM(c.rm, ls[Len(ls)], LONG_TERM_WINDOW)]
        ELSE [tip |-> IF sized THEN ws ELSE null_hash, rm |-> Filled(Last_n(ls, count))]

\* The cache after a call for the given chain, which an old version does not make; the
\* genesis block has one, so that the window is never empty (count > 0).
Consulted(c, ws, ls) ==
    IF VersionAt(Len(ws)) < LONG_TERM_VERSION THEN c ELSE get_long_term_block_weight_median(c, ws, ls)

get_last_n_blocks_weights(ws) == Last_n(ws, REWARD_WINDOW)

update_next_cumulative_weight_limit(c, ws, ls, old) ==
    LET consulted == Consulted(c, ws, ls)
    IN  /\ cache' = consulted
        /\ limits' = LimitsFor(VersionAt(Len(ws)), MedianRM(consulted.rm),
                               MedianOf(get_last_n_blocks_weights(ws)), old)

-----------------------------------------------------------------------------
Empty == [tip |-> null_hash, rm |-> ClearRM(LONG_TERM_WINDOW)]

NoLimits == [median |-> 0, long_term |-> 0]

WeightsInit ==
    /\ Init
    /\ weights = << >> /\ long_term_weights = << >>
    /\ cache = Empty /\ limits = NoLimits
    /\ batch = NoBatch /\ aborted = FALSE /\ trouble = 0

\* validate_miner_transaction: the median that decides on the penalty.
MedianForPenalty ==
    IF VersionAt(Height) >= SHORT_TERM_VERSION THEN limits.median
    ELSE MedianOf(get_last_n_blocks_weights(weights))

\* handle_block_to_main_chain, from the miner transaction on.
handle_block_to_main_chain(weight, fee, money_in_use) ==
    LET consulted == Consulted(cache, weights, long_term_weights)
        long_term == LongTermWeight(VersionAt(Height), MedianRM(consulted.rm), weight)
    IN  /\ AddBlock(MedianForPenalty, weight, fee, money_in_use)
        /\ weights' = Append(weights, weight)
        /\ long_term_weights' = Append(long_term_weights, long_term)
        /\ update_next_cumulative_weight_limit(consulted, weights', long_term_weights', limits)
        /\ aborted' = FALSE
        /\ UNCHANGED <<batch, trouble>>

CutTo(height) ==
    /\ generated' = SubSeq(generated, 1, height)
    /\ issued' = SubSeq(issued, 1, height)
    /\ weights' = SubSeq(weights, 1, height)
    /\ long_term_weights' = SubSeq(long_term_weights, 1, height)

\* Mutant: the limits are not updated.
pop_blocks_only(height) ==
    /\ trouble < MAX_TROUBLE /\ trouble' = trouble + 1
    /\ batch # NoBatch => height >= LAST_FORK
    /\ CutTo(height)
    /\ aborted' = FALSE
    /\ UNCHANGED <<cache, limits, batch>>

\* Blocks are popped by pop_blocks, or by a switch as its first step or when it is
\* rolled back; all three then update the limits.
pop_blocks(height) ==
    /\ trouble < MAX_TROUBLE /\ trouble' = trouble + 1
    /\ batch # NoBatch => height >= LAST_FORK
    /\ CutTo(height)
    /\ update_next_cumulative_weight_limit(cache, weights', long_term_weights', limits)
    /\ aborted' = FALSE
    /\ UNCHANGED batch

prepare_handle_incoming_blocks ==
    /\ batch = NoBatch /\ Height >= LAST_FORK
    /\ batch' = db
    /\ UNCHANGED <<db, cache, limits, aborted, trouble>>

BatchStop ==
    /\ batch # NoBatch
    /\ batch' = NoBatch
    /\ UNCHANGED <<db, cache, limits, aborted, trouble>>

\* The database as the batch found it.
GoBack ==
    /\ generated' = batch[1] /\ issued' = batch[2]
    /\ weights' = batch[3] /\ long_term_weights' = batch[4]
    /\ batch' = NoBatch

\* add_block throws, with the long-term weight of the block computed already, and
\* cleanup_handle_incoming_blocks aborts the batch.  Nothing updates the limits.
FailBlock ==
    /\ trouble < MAX_TROUBLE /\ trouble' = trouble + 1
    /\ batch # NoBatch
    /\ GoBack
    /\ cache' = Consulted(cache, weights, long_term_weights)
    /\ aborted' = TRUE
    /\ UNCHANGED limits

\* A stop, in a batch or not, and init.
Restart ==
    /\ Height > 0
    /\ IF batch = NoBatch
       THEN UNCHANGED <<db, batch>>
       ELSE GoBack
    /\ update_next_cumulative_weight_limit(Empty, weights', long_term_weights', NoLimits)
    /\ aborted' = FALSE
    /\ UNCHANGED trouble

WeightsNext ==
    \/ \E w \in Weights, f \in Fees : \* any payout, up to one grain above the highest reward
          \E money \in 0 .. (INITIAL_REWARD + f + 1) : handle_block_to_main_chain(w, f, money)
    \/ \E height \in 1 .. (Height - 1) : pop_blocks(height)
    \/ prepare_handle_incoming_blocks
    \/ BatchStop
    \/ FailBlock
    \/ Restart

WeightsSpec == WeightsInit /\ [][WeightsNext]_weights_vars

-----------------------------------------------------------------------------
\* The long-term weights of a chain, without a cache: each block's is bounded by the
\* median of the ones before it.
AreLongTermWeights(ls, ws) ==
    /\ Len(ls) = Len(ws)
    /\ \A h \in 1 .. Len(ws) :
          ls[h] = LongTermWeight(VersionAt(h - 1), MedianOf(Last_n(SubSeq(ls, 1, h - 1), LONG_TERM_WINDOW)), ws[h])

\* The long-term weights in the database, which decide on the limits of all later
\* blocks, are a function of the chain alone: get_long_term_block_weight_median gives
\* the median of the window although its cache outlives popped blocks and aborted
\* batches, and the two heaps of rolling_median_t agree with sorting.
LongTermWeightsAreExact == AreLongTermWeights(long_term_weights, weights)

\* Between two operations the limits in memory, by which validate_miner_transaction
\* accepts the next block, are those of the chain in the database, so that two nodes
\* with the same chain accept the same blocks; only after an aborted batch they may
\* be those of blocks that are gone.  The long-term limit is kept below the fork,
\* where nothing reads it.
LimitFollowsChain ==
    LET exact == LimitsFor(VersionAt(Height), MedianOf(Last_n(long_term_weights, LONG_TERM_WINDOW)),
                           MedianOf(get_last_n_blocks_weights(weights)), limits)
    IN  Height > 0 /\ ~aborted => limits = exact
=============================================================================
