----------------------------- MODULE LockOrder ------------------------------
(***************************************************************************)
(* The locks of the core and the batch of the database, for any number of  *)
(* threads.  A call is the sequence of what it does with them: it takes    *)
(* and drops recursive locks, and it starts and stops batches.             *)
(***************************************************************************)
EXTENDS Integers, Sequences, FiniteSets

CONSTANTS
    Threads,
    Calls,
    Program,   \* a call's steps
    NoThread, NoCall

\* m_incoming_tx_lock, the lock of m_tx_pool and m_blockchain_lock, in the order
\* prepare_handle_incoming_blocks asks for.
incoming == 1
pool == 2
chain == 3
Locks == {incoming, pool, chain}

Take(l) == [op |-> "take", lock |-> l]
Drop(l) == [op |-> "drop", lock |-> l]

\* batch_start, which fails if a batch is open, and a batch_stop or batch_abort
\* that does something only if that batch_start succeeded.  Wait is the loop of
\* prepare_handle_incoming_blocks around batch_start.
Start == [op |-> "start", lock |-> chain]
Wait == [op |-> "wait", lock |-> chain]
Stop == [op |-> "stop", lock |-> chain]

Steps ==
    {Take(l) : l \in Locks} \cup {Drop(l) : l \in Locks} \cup {Start, Wait, Stop}

\* How many of the steps of a call before its i-th one are in S.
Count(c, i, S) == Cardinality({j \in 1 .. (i - 1) : Program[c][j] \in S})

\* How often a call holds a lock, and how many batches it has started and not
\* stopped, before its i-th step.
Depth(c, i, l) == Count(c, i, {Take(l)}) - Count(c, i, {Drop(l)})
Open(c, i) == Count(c, i, {Start, Wait}) - Count(c, i, {Stop})

\* Nothing is dropped or stopped that was not taken or started, and nothing is
\* left in the end: all of it is done by guards of a C++ scope or in pairs.
ASSUME LockAssumption ==
    /\ NoThread \notin Threads /\ NoCall \notin Calls
    /\ Program \in [Calls -> Seq(Steps)]
    /\ \A c \in Calls :
          /\ \A l \in Locks : Depth(c, Len(Program[c]) + 1, l) = 0
          /\ Open(c, Len(Program[c]) + 1) = 0
          /\ \A i \in DOMAIN Program[c] :
                /\ Program[c][i].op = "drop" => Depth(c, i, Program[c][i].lock) > 0
                /\ Program[c][i].op = "stop" => Open(c, i) > 0

VARIABLES
    call,    \* what a thread is doing
    pc,      \* its next step
    held,    \* how often it holds each lock
    writer,  \* the thread whose batch is open
    owns     \* for each batch_start it has not stopped yet: did it succeed?

vars == <<call, pc, held, writer, owns>>

Init ==
    /\ call = [t \in Threads |-> NoCall]
    /\ pc = [t \in Threads |-> 1]
    /\ held = [t \in Threads |-> [l \in Locks |-> 0]]
    /\ writer = NoThread
    /\ owns = [t \in Threads |-> << >>]

Running(t) == call[t] # NoCall /\ pc[t] <= Len(Program[call[t]])

Step(t) == Program[call[t]][pc[t]]

IsFree(l, t) == \A u \in Threads \ {t} : held[u][l] = 0

Begin(t, c) ==
    /\ call[t] = NoCall
    /\ call' = [call EXCEPT ![t] = c]
    /\ pc' = [pc EXCEPT ![t] = 1]
    /\ UNCHANGED <<held, writer, owns>>

Advance(t) == pc' = [pc EXCEPT ![t] = @ + 1] /\ UNCHANGED call

TakeLock(t) ==
    /\ Running(t) /\ Step(t).op = "take"
    /\ IsFree(Step(t).lock, t)
    /\ held' = [held EXCEPT ![t][Step(t).lock] = @ + 1]
    /\ Advance(t)
    /\ UNCHANGED <<writer, owns>>

DropLock(t) ==
    /\ Running(t) /\ Step(t).op = "drop"
    /\ held' = [held EXCEPT ![t][Step(t).lock] = @ - 1]
    /\ Advance(t)
    /\ UNCHANGED <<writer, owns>>

\* batch_start of LMDB.  Where prepare_handle_incoming_blocks finds a batch open
\* it drops its locks, sleeps and tries again: BatchIsOurs shows that it never does.
StartBatch(t) ==
    /\ Running(t)
    /\ Step(t).op = "start" \/ (Step(t).op = "wait" /\ writer = NoThread)
    /\ writer' = IF writer = NoThread THEN t ELSE writer
    /\ owns' = [owns EXCEPT ![t] = Append(@, writer = NoThread)]
    /\ Advance(t)
    /\ UNCHANGED held

StopBatch(t) ==
    /\ Running(t) /\ Step(t).op = "stop"
    /\ writer' = IF owns[t][Len(owns[t])] THEN NoThread ELSE writer
    /\ owns' = [owns EXCEPT ![t] = SubSeq(@, 1, Len(@) - 1)]
    /\ Advance(t)
    /\ UNCHANGED held

Return(t) ==
    /\ call[t] # NoCall /\ ~Running(t)
    /\ call' = [call EXCEPT ![t] = NoCall]
    /\ UNCHANGED <<pc, held, writer, owns>>

Next ==
    \E t \in Threads :
        \/ \E c \in Calls : Begin(t, c)
        \/ TakeLock(t) \/ DropLock(t)
        \/ StartBatch(t) \/ StopBatch(t)
        \/ Return(t)

Spec == Init /\ [][Next]_vars

-----------------------------------------------------------------------------
\* Types: what a thread of the core runs, how often it holds each lock, and whose
\* batch is open.
TypeOK ==
    /\ call \in [Threads -> Calls \cup {NoCall}]
    /\ pc \in [Threads -> Nat]
    /\ held \in [Threads -> [Locks -> Nat]]
    /\ writer \in Threads \cup {NoThread}
    /\ owns \in [Threads -> Seq(BOOLEAN)]

\* The calls obey the comment in prepare_handle_incoming_blocks: none takes a
\* lock it does not have while it holds a later one.
Disciplined ==
    \A c \in Calls : \A i \in DOMAIN Program[c] :
        (Program[c][i].op = "take" /\ Depth(c, i, Program[c][i].lock) = 0) =>
            \A l \in Locks : l > Program[c][i].lock => Depth(c, i, l) = 0

\* The lock a call has around its batches: that of the pool, or that of the chain
\* if it has nothing to do with the pool.
BatchLock(c) == IF \E i \in DOMAIN Program[c] : Program[c][i] = Take(pool) THEN pool ELSE chain

\* Each call has that lock where it starts a batch and until it has stopped it, and
\* the lock of the chain at least where it starts it.
BatchesUnderLocks ==
    \A c \in Calls : \A i \in 1 .. (Len(Program[c]) + 1) :
        /\ Open(c, i) > 0 => Depth(c, i, BatchLock(c)) > 0
        /\ i \in DOMAIN Program[c] /\ Program[c][i].op \in {"start", "wait"}
              => Depth(c, i, BatchLock(c)) > 0 /\ Depth(c, i, chain) > 0

Blocked(t) == Running(t) /\ Step(t).op = "take" /\ ~IsFree(Step(t).lock, t)

\* "to avoid deadlock lets lock tx_pool for whole add/reorganize process"
\* (add_new_block): threads never wait for each other's locks in a circle, so
\* one of those that run a call can always go on.
NoDeadlock ==
    (\E t \in Threads : call[t] # NoCall) =>
        \E t \in Threads : call[t] # NoCall /\ ~Blocked(t)

\* "Something which takes the blockchain lock may never take the txpool lock if it
\* has not provably taken the txpool lock earlier" (prepare_handle_incoming_blocks):
\* whatever calls are nested, a lock is taken before all later ones.
LocksInOrder ==
    \A t \in Threads : Running(t) /\ Step(t).op = "take" /\ held[t][Step(t).lock] = 0 =>
        \A l \in Locks : l > Step(t).lock => held[t][l] = 0

\* locked_txn.h: "we can only be called with the txpool lock taken, and it is held
\* during the whole prepare/handle/cleanup incoming block sequence": however the
\* calls are nested, a thread has the lock of the pool when it starts a batch and
\* as long as one it asked for is not stopped.  check_against_checkpoints is the
\* exception to that comment: it starts a batch with the lock of the chain alone.
\* It keeps that lock until it has stopped the batch, and every other call has it
\* too where it starts one.
PoolLockAroundBatch ==
    \A t \in Threads :
        /\ Running(t) /\ Step(t).op \in {"start", "wait"} =>
              held[t][BatchLock(call[t])] > 0 /\ held[t][chain] > 0
        /\ owns[t] # << >> => held[t][BatchLock(call[t])] > 0

\* locked_txn.h: "If a batch exists, it can't be from another thread, since we
\* can only be called with the txpool lock taken, and it is held during the whole
\* prepare/handle/cleanup incoming block sequence."  Nor does a thread that has
\* blocks to add ever find a batch open.  The reason given does not cover
\* check_against_checkpoints, which may itself find the batch of incoming blocks
\* open; the lock of the chain keeps its own batch from the others.  An exception
\* while it rolls back would leave that batch open (Throw of Checkpoints).
BatchIsOurs ==
    \A t \in Threads :
        Running(t) /\ Step(t).op \in {"start", "wait"} /\ BatchLock(call[t]) = pool =>
            writer \in {NoThread, t}
=============================================================================
