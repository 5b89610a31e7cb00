------------------------------ MODULE Emission ------------------------------
(***************************************************************************)
(* The LODE emission: how many new coins the miner transaction of a block  *)
(* may create, and the cumulative counter already_generated_coins that the *)
(* database keeps for every block of the main chain.                       *)
(*                                                                         *)
(* Amounts and weights are natural numbers.  The code computes with        *)
(* uint64_t and a 128-bit product, and no intermediate value leaves those  *)
(* ranges: already_generated_coins + base_reward < 2 * MONEY_SUPPLY and    *)
(* (2 * median - weight) * weight <= median^2.                             *)
(***************************************************************************)
EXTENDS Integers, Sequences

CONSTANTS
    MONEY_SUPPLY,        \* the cap, 10^16 grains
    INITIAL_REWARD,      \* 10^10 grains
    HALVING_INTERVAL,    \* 500000 blocks
    MAX_HALVINGS,        \* 63: from here on the shift is not evaluated
    ZONE_V1, ZONE_V2, ZONE_V5,  \* CRYPTONOTE_BLOCK_GRANTED_FULL_REWARD_ZONE_*
    EXACT_COINBASE,      \* HF_VERSION_EXACT_COINBASE
    VersionAt(_),        \* the hard fork version a block of a height has
    Medians, Weights,    \* block weight medians and block weights
    Fees,                \* sums of the fees of a block's transactions
    MAX_HEIGHT           \* bound on the length of the chain

\* The sizes of cryptonote_config.h, as far as the arithmetic needs them.
ASSUME EmissionAssumption ==
    /\ MONEY_SUPPLY \in Nat
    /\ INITIAL_REWARD \in Nat
    /\ HALVING_INTERVAL \in Nat \ {0}
    /\ MAX_HALVINGS \in Nat
    /\ ZONE_V1 \in Nat \ {0} /\ ZONE_V2 \in Nat \ {0} /\ ZONE_V5 \in Nat \ {0}
    /\ EXACT_COINBASE \in Nat
    /\ \A h \in 0 .. MAX_HEIGHT : VersionAt(h) \in Nat
    /\ Medians \subseteq Nat /\ Weights \subseteq Nat /\ Fees \subseteq Nat
    /\ MAX_HEIGHT \in Nat

\* 2^n is a positive natural number.
ASSUME PowerAssumption == \A n \in 0 .. (MAX_HALVINGS - 1) : 2^n \in Nat \ {0}

VARIABLES
    generated,  \* generated[h + 1]: already_generated_coins of the block at height h
    issued      \* issued[h + 1]: the coins its miner transaction really created

vars == <<generated, issued>>

-----------------------------------------------------------------------------
get_min_block_weight(version) ==
    IF version < 2 THEN ZONE_V1 ELSE IF version < 5 THEN ZONE_V2 ELSE ZONE_V5

\* Mutant: the last reward is not cut to what is left to emit.
BaseRewardUncut(already_generated_coins, height) ==
    IF height = 0 \/ already_generated_coins >= MONEY_SUPPLY
    THEN 0
    ELSE LET halvings == height \div HALVING_INTERVAL
         IN  IF halvings >= MAX_HALVINGS THEN 0 ELSE INITIAL_REWARD \div 2^halvings

\* The subsidy before the penalty for a large block.
BaseReward(already_generated_coins, height) ==
    IF height = 0 \/ already_generated_coins >= MONEY_SUPPLY
    THEN 0
    ELSE LET halvings == height \div HALVING_INTERVAL
             base_reward == IF halvings >= MAX_HALVINGS
                            THEN 0
                            ELSE INITIAL_REWARD \div 2^halvings
         IN  IF already_generated_coins + base_reward > MONEY_SUPPLY
             THEN MONEY_SUPPLY - already_generated_coins
             ELSE base_reward

EffectiveMedian(median_weight, version) ==
    LET full_reward_zone == get_min_block_weight(version)
    IN  IF median_weight < full_reward_zone THEN full_reward_zone ELSE median_weight

\* A block heavier than the median loses a part of the subsidy.
Penalized(base_reward, median, weight) ==
    ((base_reward * ((2 * median - weight) * weight)) \div median) \div median

get_block_reward(median_weight, weight, already_generated_coins, version, height) ==
    LET base_reward == BaseReward(already_generated_coins, height)
        median == EffectiveMedian(median_weight, version)
    IN  [ ok |-> weight <= 2 * median,
          reward |-> IF weight <= median
                     THEN base_reward
                     ELSE Penalized(base_reward, median, weight) ]

\* From version 2 and before EXACT_COINBASE a miner may claim less than the
\* full reward; base_reward then becomes what was really claimed.
validate_miner_transaction(version, base_reward, fee, money_in_use) ==
    /\ base_reward + fee >= money_in_use
    /\ IF version < 2 \/ version >= EXACT_COINBASE
       THEN base_reward + fee = money_in_use
       ELSE money_in_use >= fee \* else money_in_use - fee wraps above base_reward

\* already_generated_coins is capped at MONEY_SUPPLY.
Accumulate(already_generated_coins, base_reward) ==
    IF base_reward < MONEY_SUPPLY - already_generated_coins
    THEN already_generated_coins + base_reward
    ELSE MONEY_SUPPLY

-----------------------------------------------------------------------------
Init ==
    /\ generated = << >>
    /\ issued = << >>

Height == Len(generated)

AlreadyGenerated == IF Height = 0 THEN 0 ELSE generated[Height]

\* The supply part of handle_block_to_main_chain, for a block of the given
\* weight and fees whose miner transaction pays out money_in_use.
AddBlock(median_weight, weight, fee, money_in_use) ==
    LET version == VersionAt(Height)
        r == get_block_reward(median_weight, weight, AlreadyGenerated, version, Height)
    IN  /\ Height < MAX_HEIGHT
        /\ r.ok
        /\ validate_miner_transaction(version, r.reward, fee, money_in_use)
        /\ generated' = Append(generated, Accumulate(AlreadyGenerated, money_in_use - fee))
        /\ issued' = Append(issued, money_in_use - fee)

\* pop_block_from_blockchain: never the genesis block.
PopBlock ==
    /\ Height > 1
    /\ generated' = SubSeq(generated, 1, Height - 1)
    /\ issued' = SubSeq(issued, 1, Height - 1)

Next ==
    \/ \E m \in Medians, w \in Weights, f \in Fees :
          \E money \in 0 .. (MONEY_SUPPLY + f) : AddBlock(m, w, f, money)
    \/ PopBlock

Spec == Init /\ [][Next]_vars

-----------------------------------------------------------------------------
\* Types.  Every block has its counter, and no miner transaction creates a negative
\* amount: the penalty of get_block_reward never takes more than the subsidy.
TypeOK ==
    /\ generated \in Seq(Nat)
    /\ issued \in Seq(Nat)
    /\ Len(issued) = Len(generated)

\* The hard cap of 100,000,000 LODE, "total number coins to be generated"
\* (cryptonote_config.h): the counter of handle_block_to_main_chain stays under
\* MONEY_SUPPLY, and its capping never hides a coin: at every height it is exactly the
\* previous counter plus what the miner transaction created.  This follows
\* get_block_reward, which pays nothing at the cap.  It contradicts two leftovers of
\* the tail emission that get_block_reward does not have: the comment at the capping
\* (blockchain.cpp:4443, "the number of coins will eventually exceed MONEY_SUPPLY"),
\* and tests/unit_tests/block_reward.cpp:62-74, which expect FINAL_SUBSIDY_PER_MINUTE
\* near the cap.
SupplyTracked ==
    \A h \in 1 .. Len(generated) :
        /\ generated[h] <= MONEY_SUPPLY
        /\ generated[h] = (IF h = 1 THEN 0 ELSE generated[h - 1]) + issued[h]
=============================================================================
