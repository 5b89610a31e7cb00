----------------------------- MODULE CoreLocks ------------------------------
(***************************************************************************)
(* What the calls into the core do with its locks and with the batch of    *)
(* the database, as programs for LockOrder.                                *)
(***************************************************************************)
EXTENDS LockOrder

\* CRITICAL_REGION_LOCAL(m_tx_pool); CRITICAL_REGION_LOCAL1(m_blockchain_lock).
UnderBoth(body) == <<Take(pool), Take(chain)>> \o body \o <<Drop(chain), Drop(pool)>>

LockedTXN == <<Start, Stop>>

\* The operations of the pool that write: add_tx, take_tx, set_relayed,
\* get_relayable_transactions, remove_stuck_transactions, validate.
pool_operation == UnderBoth(LockedTXN)

on_blockchain_dec == <<Take(pool), Drop(pool)>>

\* pop_block_from_blockchain under the lock of the chain: the transactions go
\* back to the pool.
pop_block_from_blockchain ==
    <<Take(chain)>> \o pool_operation \o on_blockchain_dec \o <<Drop(chain)>>

\* handle_incoming_txs, and on_transactions_relayed as well.
handle_incoming_txs == <<Take(incoming)>> \o pool_operation \o <<Drop(incoming)>>

\* Mutant: the lock of the chain is taken first.
create_block_template_inverted ==
    <<Take(chain), Take(pool)>> \o LockedTXN \o <<Drop(pool), Drop(chain)>>

\* fill_block_template opens a LockedTXN of its own.
create_block_template == UnderBoth(pool_operation)

pop_blocks == UnderBoth(<<Start>> \o pop_block_from_blockchain \o <<Stop>>)

\* add_new_block takes transactions from the pool, and may pop blocks.
add_new_block == UnderBoth(pool_operation \o pop_block_from_blockchain)

update_blockchain_pruning == UnderBoth(<< >>)

prepare_handle_incoming_blocks ==
    <<Take(incoming), Take(pool), Take(chain), Wait, Drop(chain)>>

\* Mutant: the lock of the pool is given back before the batch is stopped.
cleanup_handle_incoming_blocks_early ==
    <<Drop(pool), Take(chain), Stop, Drop(chain)>>
        \o update_blockchain_pruning \o <<Drop(incoming)>>

cleanup_handle_incoming_blocks ==
    <<Take(chain), Stop, Drop(chain), Drop(pool)>>
        \o update_blockchain_pruning \o <<Drop(incoming)>>

\* The blocks of a message, or a block found by the miner.
incoming_blocks ==
    prepare_handle_incoming_blocks \o handle_incoming_txs \o add_new_block
        \o cleanup_handle_incoming_blocks

\* update_checkpoints, when the chain passes every checkpoint: the lock of the
\* chain alone is around the batch.
check_against_checkpoints == <<Take(chain), Start, Stop, Drop(chain)>>

\* The same with a checkpoint that the chain fails.
check_against_checkpoints_rolls_back ==
    <<Take(chain), Start>> \o pop_block_from_blockchain \o <<Stop, Drop(chain)>>

\* The calls of the threads of the network, the miner, RPC and the idle handlers
\* that start batches.
CorePrograms ==
    [incoming_blocks |-> incoming_blocks, handle_incoming_txs |-> handle_incoming_txs,
     pool_operation |-> pool_operation, create_block_template |-> create_block_template,
     pop_blocks |-> pop_blocks, check_against_checkpoints |-> check_against_checkpoints]

\* An operation of the pool next to the enforcement of a checkpoint.
ProgramsWithCheckpoints ==
    [pool_operation |-> pool_operation,
     check_against_checkpoints |-> check_against_checkpoints_rolls_back]
=============================================================================
