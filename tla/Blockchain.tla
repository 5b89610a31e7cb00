----------------------------- MODULE Blockchain -----------------------------
(***************************************************************************)
(* The choice of the main chain: blocks added to the top, alternative      *)
(* blocks, the switch to an alternative chain with its rollback, popped    *)
(* blocks, and the database batch all of it runs in.                       *)
(*                                                                         *)
(* The blocks form a constant tree, so the top block stands for the whole  *)
(* main chain (Path[tip]); everything a block's validity depends on besides *)
(* the transactions is a function of its ancestors and hence of the block. *)
(* The transaction pool is the set of the transactions it holds: what is   *)
(* added because of a block is never refused or pruned (kept_by_block).    *)
(*                                                                         *)
(* One thread holds the locks of the pool and of the chain for the whole   *)
(* of add_new_block.  Each round of a loop of a chain switch is a step of  *)
(* its own, and nothing else is enabled while the switch is under way.     *)
(* A pop may throw, which ends the switch where it is; the batch that is   *)
(* open is committed all the same.                                         *)
(***************************************************************************)
EXTENDS Integers, Sequences, FiniteSets

CONSTANTS
    Blocks, Genesis,
    Path,         \* from the genesis block to a block, both included
    Work,         \* the cumulative difficulty of a block
    HeaderOK,     \* blocks with the right version, timestamp, proof of work and miner input
    RewardOK,     \* blocks whose miner transaction claims a correct reward
    Txs,
    TxsOf,        \* the transactions of a block, in order
    KeyImages,    \* the key images a transaction spends
    Needs,        \* the blocks with the outputs its rings refer to, mature by then
    PrunedTxs,    \* transactions of which the database keeps no prunable part
    Checkpoints   \* heights to blocks

Range(s) == {s[i] : i \in DOMAIN s}

Height(b) == Len(Path[b]) - 1

\* The block at a height on the way to a block.
At(b, height) == Path[b][height + 1]

Parent(b) == At(b, Height(b) - 1)

ASSUME BlockchainAssumption ==
    /\ Genesis \in Blocks
    /\ Path \in [Blocks -> Seq(Blocks)]
    /\ Work \in [Blocks -> Nat]
    /\ \A b \in Blocks :
          /\ Path[b] # << >> /\ At(b, 0) = Genesis /\ At(b, Height(b)) = b
          /\ \A i \in DOMAIN Path[b] : Path[Path[b][i]] = SubSeq(Path[b], 1, i)
          /\ \A i, j \in DOMAIN Path[b] : i < j => Work[Path[b][i]] < Work[Path[b][j]]
    /\ HeaderOK \subseteq Blocks /\ RewardOK \subseteq Blocks
    /\ TxsOf \in [Blocks -> Seq(Txs)] /\ TxsOf[Genesis] = << >>
    /\ DOMAIN KeyImages = Txs
    /\ Needs \in [Txs -> SUBSET Blocks]
    /\ PrunedTxs \subseteq Txs
    /\ DOMAIN Checkpoints \subseteq Nat
    \* The genesis block is a constant of the network, and no point removes it.
    /\ 0 \in DOMAIN Checkpoints => Checkpoints[0] = Genesis

VARIABLES
    tip,      \* the top of the main chain
    alt,      \* the alternative blocks of the database
    invalid,  \* m_invalid_blocks, in memory
    pool,     \* the transactions of the pool
    switch,   \* the switch under way
    batch,    \* what the database goes back to if the batch is aborted
    torn      \* history: an exception cut short the rollback of a failed switch

vars == <<tip, alt, invalid, pool, switch, batch, torn>>

\* Of a switch under way: old, to: the tops of the chain left and of the chain
\* wanted; split: the height of the first block that differs; next: the height
\* of the next block of the loop; failed: that of the block that could not be
\* connected; discard: the old blocks are not kept.
NoSwitch == [phase |-> "none"]
NoBatch == [open |-> FALSE]

MainChain == Range(Path[tip])
TxsIn(B) == UNION {Range(TxsOf[b]) : b \in B}
ImagesOf(T) == UNION {KeyImages[t] : t \in T}
db_height == Height(tip) + 1

-----------------------------------------------------------------------------
(* handle_block_to_main_chain                                              *)

check_block(b) == Height(b) \in DOMAIN Checkpoints => Checkpoints[Height(b)] = b

\* Mutant: spent key images are not looked up.
check_tx_inputs_rings(t) == Needs[t] \subseteq MainChain

\* No key image spent on the chain, and every ring member found there.
check_tx_inputs(t) ==
    /\ KeyImages[t] \cap ImagesOf(TxsIn(MainChain)) = {}
    /\ Needs[t] \subseteq MainChain

\* take_tx fails for the i-th transaction, or the chain has it already.
Unavailable(b, i) ==
    \/ TxsOf[b][i] \in TxsIn(MainChain)
    \/ TxsOf[b][i] \notin pool
    \/ \E j \in 1 .. (i - 1) : TxsOf[b][j] = TxsOf[b][i]

TxFine(b, i) == ~Unavailable(b, i) /\ check_tx_inputs(TxsOf[b][i])

\* Mutant: the checkpoints are not consulted.
PrevalidatedUnchecked(b) == Parent(b) = tip /\ b \in HeaderOK

Prevalidated(b) == Parent(b) = tip /\ b \in HeaderOK /\ check_block(b)

\* The loop over the transactions stops at one with wrong inputs, which gets
\* the block stored as invalid.
HasWrongInputs(b) ==
    /\ Prevalidated(b)
    /\ \E i \in DOMAIN TxsOf[b] : /\ ~Unavailable(b, i) /\ ~check_tx_inputs(TxsOf[b][i])
                                  /\ \A j \in 1 .. (i - 1) : TxFine(b, j)

\* All checks pass and the block reaches the database.
ReachesDatabase(b) ==
    /\ Prevalidated(b)
    /\ \A i \in DOMAIN TxsOf[b] : TxFine(b, i)
    /\ b \in RewardOK

\* Two transactions of the block spend the same key image: check_tx_inputs
\* compares with the chain only, and add_block throws KEY_IMAGE_EXISTS.
SpendsTwice(b) ==
    \E i, j \in DOMAIN TxsOf[b] : i # j /\ KeyImages[TxsOf[b][i]] \cap KeyImages[TxsOf[b][j]] # {}

Accepted(b) == ReachesDatabase(b) /\ ~SpendsTwice(b)

\* On success the transactions move from the pool to the chain.  On any
\* failure return_tx_to_pool puts back what was taken.
ConnectToMain(b) == tip' = b /\ pool' = pool \ Range(TxsOf[b])

InvalidAfter(b) == IF HasWrongInputs(b) THEN invalid \cup {b} ELSE invalid

\* Mutant: the transactions are not put back.
PopTopLosesTxs == tip' = Parent(tip) /\ pool' = pool

\* pop_block_from_blockchain: the transactions go back to the pool, if the
\* database still has them in full.
PopTop == tip' = Parent(tip) /\ pool' = pool \cup (Range(TxsOf[tip]) \ PrunedTxs)

-----------------------------------------------------------------------------
(* handle_alternative_block                                                *)

\* Mutant: blocks known as invalid are not remembered.
have_valid_block(b) == b \in MainChain \cup alt

have_block(b) == b \in MainChain \cup alt \cup invalid

\* The last checkpoint not above the chain is below the block.
is_alternative_block_allowed(b) ==
    \A h \in DOMAIN Checkpoints : h <= db_height => h < Height(b)

\* The lowest height from which on all blocks below b are alternative ones.
IsFront(b, front) ==
    /\ front \in 1 .. Height(b)
    /\ \A h \in front .. (Height(b) - 1) : At(b, h) \in alt
    /\ At(b, front - 1) \notin alt

\* build_alt_chain: the chain of alternative blocks starts on the main chain,
\* and not right after its top.
Connects(b, front) ==
    /\ IsFront(b, front)
    /\ At(b, front - 1) \in MainChain
    /\ front < Height(b) => db_height > front

AltAccepted(b, front) ==
    /\ is_alternative_block_allowed(b)
    /\ Connects(b, front)
    /\ b \in HeaderOK
    /\ check_block(b)
    /\ b \notin alt

IsCheckpoint(b) == Height(b) \in DOMAIN Checkpoints

\* Mutant: a chain as heavy as the main chain takes over.
SwitchesToEqual(b) == IsCheckpoint(b) \/ Work[tip] <= Work[b]

SwitchesTo(b) == IsCheckpoint(b) \/ Work[tip] < Work[b]

StartSwitch(b, front) ==
    switch' = [phase |-> "disconnect", old |-> tip, to |-> b, split |-> front,
               next |-> front, failed |-> 0, discard |-> IsCheckpoint(b)]

-----------------------------------------------------------------------------
Init ==
    /\ tip = Genesis
    /\ alt = {} /\ invalid = {} /\ pool = {}
    /\ switch = NoSwitch
    /\ batch = NoBatch
    /\ torn = FALSE

Saved == [open |-> TRUE, tip |-> tip, alt |-> alt, pool |-> pool]

\* prepare_handle_incoming_blocks and cleanup_handle_incoming_blocks: the
\* blocks of one message, or the one just mined, are added in one batch.
prepare_handle_incoming_blocks ==
    /\ ~batch.open
    /\ batch' = Saved
    /\ UNCHANGED <<tip, alt, invalid, pool, switch, torn>>

\* add_new_block catches the exception of a pop and leaves m_batch_success set,
\* and its caller comes straight here: what the switch had done is committed.
cleanup_handle_incoming_blocks ==
    /\ batch.open /\ switch.phase \in {"none", "thrown"}
    /\ batch' = NoBatch
    /\ switch' = NoSwitch
    /\ torn' = (torn \/ (switch.phase = "thrown" /\ switch.failed # 0))
    /\ UNCHANGED <<tip, alt, invalid, pool>>

\* An exception in add_block clears m_batch_success; the caller gives up on the
\* block and cleanup_handle_incoming_blocks aborts the batch, pool included.
AbortBatch ==
    /\ tip' = batch.tip /\ alt' = batch.alt /\ pool' = batch.pool
    /\ batch' = NoBatch
    /\ UNCHANGED torn

\* A transaction reaches the pool, from a block or on its own.
ReceiveTx(t) ==
    /\ switch = NoSwitch
    /\ t \notin TxsIn(MainChain) \cup pool
    /\ pool' = pool \cup {t}
    /\ UNCHANGED <<tip, alt, invalid, switch, batch, torn>>

\* The pool forgets a transaction: it is too old, or flushed.
DropTx(t) ==
    /\ switch = NoSwitch /\ ~batch.open
    /\ t \in pool
    /\ pool' = pool \ {t}
    /\ UNCHANGED <<tip, alt, invalid, switch, batch, torn>>

\* add_new_block for a block on top of the main chain.
AddToMain(b) ==
    /\ batch.open /\ switch = NoSwitch
    /\ ~have_block(b)
    /\ Parent(b) = tip
    /\ \/ /\ Accepted(b)
          /\ ConnectToMain(b)
          /\ UNCHANGED <<alt, invalid, batch, torn>>
       \/ /\ ~ReachesDatabase(b)
          /\ invalid' = InvalidAfter(b)
          /\ UNCHANGED <<tip, alt, pool, batch, torn>>
       \/ /\ ReachesDatabase(b) /\ SpendsTwice(b)
          /\ AbortBatch
          /\ UNCHANGED invalid
    /\ UNCHANGED switch

\* add_new_block for any other block; what is not accepted changes nothing.
AddAlternative(b) ==
    /\ batch.open /\ switch = NoSwitch
    /\ ~have_block(b)
    /\ Parent(b) # tip
    /\ \E front \in 1 .. Height(b) :
          /\ AltAccepted(b, front)
          /\ alt' = alt \cup {b}
          /\ IF SwitchesTo(b) THEN StartSwitch(b, front) ELSE UNCHANGED switch
    /\ UNCHANGED <<tip, invalid, pool, batch, torn>>

-----------------------------------------------------------------------------
(* switch_to_alternative_blockchain and rollback_blockchain_switching.     *)

Target == At(switch.to, switch.next)
Previous == At(switch.old, switch.next)

\* Pop until the top is the parent of the first alternative block.
Disconnect ==
    /\ switch.phase = "disconnect"
    /\ PopTop
    /\ switch' = [switch EXCEPT !.phase = IF Height(tip) > switch.split THEN @ ELSE "connect"]
    /\ UNCHANGED <<alt, invalid, batch, torn>>

Connect ==
    /\ switch.phase = "connect"
    /\ Accepted(Target)
    /\ ConnectToMain(Target)
    /\ switch' = IF Target = switch.to
                 THEN [switch EXCEPT !.phase = IF switch.discard THEN "finish" ELSE "push",
                                     !.next = switch.split]
                 ELSE [switch EXCEPT !.next = @ + 1]
    /\ UNCHANGED <<alt, invalid, batch, torn>>

\* The block cannot be connected: back to the split, if anything was connected.
ConnectFails ==
    /\ switch.phase = "connect"
    /\ ~ReachesDatabase(Target)
    /\ invalid' = InvalidAfter(Target)
    /\ switch' = [switch EXCEPT !.phase = IF db_height > switch.split THEN "rollback" ELSE "restore",
                                !.failed = switch.next, !.next = switch.split]
    /\ UNCHANGED <<tip, alt, pool, batch, torn>>

\* The heights of the alternative blocks that are given up.
BlocksFrom(b, height) == {At(b, h) : h \in height .. Height(b)}

\* The block spends a key image twice.  The switch is rolled back and the blocks
\* are marked, unless a pop of the rollback throws, but in the end the batch is
\* aborted, and only the marks stay.
ConnectAborts ==
    /\ switch.phase = "connect"
    /\ ReachesDatabase(Target) /\ SpendsTwice(Target)
    /\ invalid' \in {invalid, invalid \cup BlocksFrom(switch.to, switch.next)}
    /\ AbortBatch
    /\ switch' = NoSwitch

Rollback ==
    /\ switch.phase = "rollback"
    /\ PopTop
    /\ switch' = [switch EXCEPT !.phase = IF Height(tip) > switch.split THEN @ ELSE "restore"]
    /\ UNCHANGED <<alt, invalid, batch, torn>>

\* m_db->pop_block throws and changes nothing, or update_next_cumulative_weight_limit
\* fails after the last pop of the loop.
PopThrows ==
    /\ switch.phase \in {"disconnect", "rollback"}
    /\ \/ UNCHANGED <<tip, pool>>
       \/ Height(tip) = switch.split /\ PopTop
    /\ switch' = [switch EXCEPT !.phase = "thrown"]
    /\ UNCHANGED <<alt, invalid, batch, torn>>

\* Mutant: one block too few is restored.
RestoreStopsEarly ==
    /\ switch.phase = "restore"
    /\ Accepted(Previous)
    /\ ConnectToMain(Previous)
    /\ switch' = IF switch.next + 1 >= Height(switch.old)
                 THEN [switch EXCEPT !.phase = "failed"]
                 ELSE [switch EXCEPT !.next = @ + 1]
    /\ UNCHANGED <<alt, invalid, batch, torn>>

Restore ==
    /\ switch.phase = "restore"
    /\ Accepted(Previous)
    /\ ConnectToMain(Previous)
    /\ switch' = IF Previous = switch.old
                 THEN [switch EXCEPT !.phase = "failed"]
                 ELSE [switch EXCEPT !.next = @ + 1]
    /\ UNCHANGED <<alt, invalid, batch, torn>>

\* "PANIC! failed to add (again) block": the rest of the old chain is lost, and
\* the caller does not look at the result.
RestoreFails ==
    /\ switch.phase = "restore"
    /\ ~Accepted(Previous)
    /\ invalid' = InvalidAfter(Previous)
    /\ switch' = [switch EXCEPT !.phase = "failed"]
    /\ UNCHANGED <<tip, alt, pool, batch, torn>>

\* The block that failed and all after it are invalid from now on.
GiveUp ==
    /\ switch.phase = "failed"
    /\ LET given == BlocksFrom(switch.to, switch.failed)
       IN  invalid' = invalid \cup given /\ alt' = alt \ given
    /\ switch' = NoSwitch
    /\ UNCHANGED <<tip, pool, batch, torn>>

\* Mutant: the loop does not move on.
PushOldStuck ==
    /\ switch.phase = "push"
    /\ alt' = IF \E front \in 1 .. Height(Previous) : AltAccepted(Previous, front)
              THEN alt \cup {Previous} ELSE alt
    /\ UNCHANGED <<tip, invalid, pool, switch, batch, torn>>

\* The blocks of the old chain become alternative blocks, if they pass.
PushOld ==
    /\ switch.phase = "push"
    /\ alt' = IF \E front \in 1 .. Height(Previous) : AltAccepted(Previous, front)
              THEN alt \cup {Previous} ELSE alt
    /\ switch' = IF Previous = switch.old
                 THEN [switch EXCEPT !.phase = "finish"]
                 ELSE [switch EXCEPT !.next = @ + 1]
    /\ UNCHANGED <<tip, invalid, pool, batch, torn>>

\* Mutant: the blocks of the new main chain stay alternative blocks.
FinishKeepsAlt ==
    /\ switch.phase = "finish"
    /\ switch' = NoSwitch
    /\ UNCHANGED <<tip, alt, invalid, pool, batch, torn>>

Finish ==
    /\ switch.phase = "finish"
    /\ alt' = alt \ BlocksFrom(switch.to, switch.split)
    /\ switch' = NoSwitch
    /\ UNCHANGED <<tip, invalid, pool, batch, torn>>

SwitchStep ==
    \/ Disconnect \/ Connect \/ ConnectFails \/ ConnectAborts \/ Rollback
    \/ Restore \/ RestoreFails \/ GiveUp \/ PushOld \/ Finish \/ PopThrows

-----------------------------------------------------------------------------
\* pop_blocks takes the locks, so no batch is open.
pop_blocks(height) ==
    /\ ~batch.open
    /\ tip' = At(tip, height)
    /\ pool' = pool \cup (TxsIn(BlocksFrom(tip, height + 1)) \ PrunedTxs)
    /\ UNCHANGED <<alt, invalid, switch, batch, torn>>

\* An operator has the invalid blocks forgotten.
flush_invalid_blocks ==
    /\ switch = NoSwitch
    /\ invalid' = {}
    /\ UNCHANGED <<tip, alt, pool, switch, batch, torn>>

\* The daemon stops or crashes, and starts again: an open batch is lost, and so
\* are the alternative blocks, unless it runs with --keep-alt-blocks.
Restart(keep_alt_blocks) ==
    LET saved == IF batch.open THEN batch ELSE Saved
    IN  /\ tip' = saved.tip /\ pool' = saved.pool
        /\ alt' = IF keep_alt_blocks THEN saved.alt ELSE {}
        /\ invalid' = {}
        /\ switch' = NoSwitch
        /\ batch' = NoBatch
        /\ torn' = (keep_alt_blocks /\ torn)

NextBlock ==
    \/ prepare_handle_incoming_blocks
    \/ cleanup_handle_incoming_blocks
    \/ \E t \in Txs : ReceiveTx(t)
    \/ \E b \in Blocks : AddToMain(b) \/ AddAlternative(b)
    \/ SwitchStep

Next ==
    \/ NextBlock
    \/ \E t \in Txs : DropTx(t)
    \/ \E height \in 0 .. (Height(tip) - 1) : pop_blocks(height)
    \/ flush_invalid_blocks
    \/ \E keep_alt_blocks \in BOOLEAN : Restart(keep_alt_blocks)

\* A switch runs to its end: it is a loop of one thread that holds its locks, and
\* the same thread cleans up after an exception.
Fairness == WF_vars(SwitchStep \/ (switch.phase = "thrown" /\ cleanup_handle_incoming_blocks))

Spec == Init /\ [][Next]_vars /\ Fairness

-----------------------------------------------------------------------------
\* blockchain.h on switch_to_alternative_blockchain: "If any step in the
\* reorganization process fails, the blockchain is reverted to its previous
\* state."  That is so when a block cannot be connected, and not when a pop throws:
\* see PopThrows.
FailedSwitchReverts == switch.phase = "failed" => tip = switch.old

\* Outside of a switch no block is an alternative block and a block of the main
\* chain at once, unless an exception cut short the rollback of a switch: the
\* blocks it had connected stay in both places until a restart drops the
\* alternative ones.
OnePlace == switch = NoSwitch /\ ~torn => MainChain \cap alt = {}

\* A block that passes all checks on top of its own ancestors.
Sound(b) ==
    LET before == Range(Path[Parent(b)])
    IN  /\ b \in HeaderOK \cap RewardOK
        /\ check_block(b)
        /\ ~SpendsTwice(b)
        /\ \A t \in Range(TxsOf[b]) : /\ t \notin TxsIn(before)
                                      /\ KeyImages[t] \cap ImagesOf(TxsIn(before)) = {}
                                      /\ Needs[t] \subseteq before
        /\ \A i, j \in DOMAIN TxsOf[b] : TxsOf[b][i] = TxsOf[b][j] => i = j

\* Every block of the main chain is sound, at any point of a switch or a rollback
\* and with any batch aborted: no key image is spent twice, no transaction occurs
\* twice or before what it needs, although handle_block_to_main_chain checks a
\* block only against the chain and the pool it finds.
MainChainIsSound == \A b \in MainChain \ {Genesis} : Sound(b)

\* As long as no batch is aborted, no block known as invalid gets onto the main
\* chain, as a block of an alternative chain either: add_new_block refuses it, and
\* a switch finds none, also after an exception that kept it from removing them.
InvalidStaysOff == MainChain \cap invalid = {}

\* Blocks of the main chain respect every checkpoint.
CheckpointsHold ==
    \A h \in DOMAIN Checkpoints : h <= Height(tip) => At(tip, h) = Checkpoints[h]

\* Pushing the old blocks as alternative ones, which goes through
\* handle_alternative_block again, never starts a switch inside the switch.
PushNeverSwitches ==
    switch.phase = "push" =>
        \A front \in 1 .. Height(Previous) : AltAccepted(Previous, front) => ~SwitchesTo(Previous)

\* While a switch is under way no transaction of the chain it leaves is lost:
\* it is in the pool or on the chain.
NoTxLost ==
    switch # NoSwitch =>
        TxsIn(Range(Path[switch.old])) \subseteq pool \cup TxsIn(MainChain)

\* The chain other threads and a restarted daemon see.
Committed == IF batch.open THEN batch.tip ELSE tip

Selection ==
    INSTANCE ChainSelection WITH main <- Committed, open <- batch.open, thrown <- (switch.phase = "thrown")

\* Seen from outside of the batch, the main chain is only ever left for a better
\* one: a switch shows as a whole or not at all, when a block of it fails, an
\* exception of add_block aborts the batch or the daemon stops half-way.  It is cut
\* back by pop_blocks between two batches, and when a pop throws in a switch, where
\* the part of a chain that is left is committed.
SelectsBetterChain == Selection!Spec

\* A switch comes to an end, by an exception or otherwise.
SwitchEnds == (switch # NoSwitch) ~> (switch = NoSwitch)
=============================================================================
