----------------------------- MODULE RelayProofs -----------------------------
(***************************************************************************)
(* What the relay of transactions keeps for any number of connections,     *)
(* transactions and stems, and without bounds on what goes wrong: nothing  *)
(* that waits is without a callback, no transaction of the pool without a  *)
(* time or a thread to relay it, the stem map counts its sources, and a    *)
(* source keeps its stem.  What eventually happens is left to TLC.         *)
(***************************************************************************)
EXTENDS Relay, FiniteSetTheorems, TLAPS

Entries == [method : {"absent", "local", "forward", "stem", "fluff", "block"}, relay : {"never", "later", "now"}]

JobRecords == [txs : SUBSET Txs, source : Conns \cup {Nil}, how : {"local", "stem", "fluff", "queued"}]

PoolInv ==
    /\ meta \in [Txs -> Entries]
    /\ jobs \subseteq JobRecords
    /\ EveryTxIsScheduled

FlushInv ==
    /\ links \subseteq Conns /\ callbacks \in Nat
    /\ QueuedIsFlushed

-----------------------------------------------------------------------------
(* Callbacks.                                                              *)

LEMMA NotifyFlushes ==
    ASSUME FlushInv, NEW txs, NEW source, fluff_notify(txs, source), links' = links
    PROVE  FlushInv'
<1> DEFINE targets == links \ {source}
<1>1. /\ fluff_txs' = [c \in Conns |-> IF c \in targets THEN fluff_txs[c] \o InOrder(txs) ELSE fluff_txs[c]]
      /\ \/ (targets = {} \/ callbacks > 0) /\ callbacks' = callbacks
         \/ targets # {} /\ callbacks' = callbacks + 1
  BY DEF fluff_notify
<1>2. \A c \in Conns : c \notin targets => fluff_txs'[c] = fluff_txs[c]
  BY <1>1
<1>3. Waiting' \subseteq Waiting \cup targets /\ (targets = {} => Waiting' = Waiting)
  BY <1>2 DEF Waiting
<1>4. callbacks' \in Nat /\ (targets # {} => callbacks' > 0) /\ (callbacks > 0 => callbacks' > 0)
  BY <1>1 DEF FlushInv
<1> QED
  BY <1>3, <1>4 DEF FlushInv, QueuedIsFlushed

LEMMA EmptyWaits ==
    ASSUME NEW sent, NEW closed, Empty(sent, closed)
    PROVE  links' = links \ closed /\ Waiting' = Waiting \ (sent \cup closed)
BY DEF Empty, Waiting

LEMMA NextFlushes ==
    ASSUME FlushInv, [Next]_vars
    PROVE  FlushInv'
<1>1. ASSUME NEW job \in jobs, SendPublic(job)
      PROVE  FlushInv'
  BY <1>1 DEF SendPublic, linkVars, FlushInv, QueuedIsFlushed, Waiting
<1>2. ASSUME NEW job \in jobs, FluffJob(job)
      PROVE  FlushInv'
  BY <1>2, NotifyFlushes DEF FluffJob
<1>3. ASSUME NEW job \in jobs, FluffingJob(job)
      PROVE  FlushInv'
  BY <1>3, NotifyFlushes DEF FluffingJob, Fluff
<1>4. ASSUME NEW job \in jobs, StemJob(job)
      PROVE  FlushInv'
  <2>1. (fluff_notify(job.txs, job.source) /\ links' = links) \/ UNCHANGED <<links, fluff_txs, callbacks>>
    BY <1>4 DEF StemJob, Fluff, linkVars
  <2>2. CASE UNCHANGED <<links, fluff_txs, callbacks>>
    BY <2>2 DEF FlushInv, QueuedIsFlushed, Waiting
  <2> QED
    BY <2>1, <2>2, NotifyFlushes
<1>5. CASE start_epoch \/ relay_txpool_transactions \/ UNCHANGED vars
  <2>1. UNCHANGED <<links, fluff_txs, callbacks>>
    BY <1>5 DEF start_epoch, relay_txpool_transactions, vars, linkVars
  <2> QED
    BY <2>1 DEF FlushInv, QueuedIsFlushed, Waiting
<1>6. CASE Restart
  <2>1. links' = {} /\ Waiting' = Waiting \ links /\ callbacks' = 0
    BY <1>6, EmptyWaits DEF Restart
  <2> QED
    BY <2>1 DEF FlushInv, QueuedIsFlushed
<1>7. ASSUME NEW due \in SUBSET Conns, fluff_flush(due)
      PROVE  FlushInv'
  <2> DEFINE closed == {c \in due : HasDuplicate(c)}
  <2>1. /\ callbacks > 0 /\ due \subseteq Waiting /\ (callbacks > 1 => due = {})
        /\ callbacks' = IF callbacks = 1 /\ Waiting # due THEN 1 ELSE callbacks - 1
        /\ Empty(due, closed)
    BY <1>7 DEF fluff_flush
  <2>2. closed \subseteq due
    OBVIOUS
  <2> HIDE DEF closed
  <2>3. links' = links \ closed /\ Waiting' = Waiting \ due
    BY <2>1, <2>2, EmptyWaits
  <2>4. callbacks' \in Nat /\ (Waiting # due => callbacks' > 0)
    BY <2>1 DEF FlushInv
  <2>5. Waiting' \subseteq links'
    BY <2>2, <2>3 DEF FlushInv, QueuedIsFlushed
  <2>6. Waiting' # {} => Waiting # due
    BY <2>3
  <2> QED
    BY <2>3, <2>4, <2>5, <2>6 DEF FlushInv, QueuedIsFlushed
<1>8. ASSUME NEW t \in Txs, \/ RelayTimeComes(t) \/ Mined(t) \/ AddFromBlock(t)
                         \/ \E method \in {"local", "forward"} : Submit(t, method)
      PROVE  FlushInv'
  <2>1. UNCHANGED <<links, fluff_txs, callbacks>>
    BY <1>8 DEF RelayTimeComes, Mined, AddFromBlock, Submit, linkVars
  <2> QED
    BY <2>1 DEF FlushInv, QueuedIsFlushed, Waiting
<1>9. ASSUME NEW c \in Conns, Connect(c)
      PROVE  FlushInv'
  BY <1>9 DEF Connect, FlushInv, QueuedIsFlushed, Waiting
<1>10. ASSUME NEW c \in Conns, Lose(c)
       PROVE  FlushInv'
  <2>1. links' = links \ {c} /\ Waiting' = Waiting \ {c} /\ callbacks' = callbacks
    BY <1>10, EmptyWaits DEF Lose
  <2> QED
    BY <2>1 DEF FlushInv, QueuedIsFlushed
<1>11. ASSUME NEW c \in Conns, NEW txs \in SUBSET Txs, NEW fluff \in BOOLEAN, Receive(c, txs, fluff)
       PROVE  FlushInv'
  <2>1. UNCHANGED <<links, fluff_txs, callbacks>>
    BY <1>11 DEF Receive, linkVars
  <2> QED
    BY <2>1 DEF FlushInv, QueuedIsFlushed, Waiting
<1>12. ASSUME NEW c \in Conns, NEW txs \in SUBSET Txs, NEW fluff \in BOOLEAN, ReceiveFails(c, txs, fluff)
       PROVE  FlushInv'
  <2>1. links' = links \ {c} /\ Waiting' = Waiting \ {c} /\ callbacks' = callbacks
    BY <1>12, EmptyWaits DEF ReceiveFails
  <2> QED
    BY <2>1 DEF FlushInv, QueuedIsFlushed
<1>13. ASSUME NEW c \in Conns, FallsBehind(c) \/ CatchesUp(c)
       PROVE  FlushInv'
  <2>1. UNCHANGED <<links, fluff_txs, callbacks>>
    BY <1>13 DEF FallsBehind, CatchesUp
  <2> QED
    BY <2>1 DEF FlushInv, QueuedIsFlushed, Waiting
<1> QED
  BY <1>1, <1>2, <1>3, <1>4, <1>5, <1>6, <1>7, <1>8, <1>9, <1>10, <1>11, <1>12, <1>13 DEF Next, RunJob

\* Whatever the order in which fluff_notify queues callbacks and fluff_flush runs
\* them, and whichever connections come and go, transactions that wait have a
\* callback that will send them, and wait only at open connections.
THEOREM QueuesAreFlushed == Spec => []QueuedIsFlushed
<1>1. Init => FlushInv
  BY DEF Init, FlushInv, QueuedIsFlushed, Waiting
<1>2. FlushInv /\ [Next]_vars => FlushInv'
  BY NextFlushes
<1>3. FlushInv => QueuedIsFlushed
  BY DEF FlushInv
<1> QED
  BY <1>1, <1>2, <1>3, PTL DEF Spec

-----------------------------------------------------------------------------
(* Entries of the pool.                                                    *)

LEMMA AbsentIsEntry == Absent \in Entries
BY DEF Absent, Entries

LEMMA SetRelayed ==
    ASSUME NEW entry \in Entries, NEW method \in {"stem", "fluff"}
    PROVE  /\ set_relayed(entry, method) \in Entries
           /\ set_relayed(entry, method) = Absent \/ set_relayed(entry, method).relay = "later"
<1>1. CASE entry = Absent
  BY <1>1, AbsentIsEntry DEF set_relayed
<1>2. CASE entry # Absent
  <2> DEFINE upgraded == IF Rank(method) > Rank(entry.method) THEN method ELSE entry.method
  <2>1. set_relayed(entry, method) = [method |-> upgraded, relay |-> "later"]
    BY <1>2 DEF set_relayed
  <2>2. upgraded \in {"absent", "local", "forward", "stem", "fluff", "block"}
    BY DEF Entries
  <2> HIDE DEF upgraded
  <2> QED
    BY <2>1, <2>2 DEF Entries
<1> QED
  BY <1>1, <1>2

LEMMA AddTx ==
    ASSUME NEW entry \in Entries, NEW method \in {"local", "forward", "stem", "fluff", "block"}
    PROVE  /\ add_tx(entry, method) \in Entries
           /\ method = "forward" => add_tx(entry, method) = entry \/ add_tx(entry, method).relay = "later"
<1>1. CASE add_tx(entry, method) = entry
  BY <1>1
<1>2. CASE add_tx(entry, method) # entry
  <2>1. add_tx(entry, method) = [method |-> method, relay |-> IF method = "forward" THEN "later" ELSE "never"]
    BY <1>2 DEF add_tx
  <2> QED
    BY <2>1 DEF Entries
<1> QED
  BY <1>1, <1>2

\* The jobs that a call adds, and what is in them.
LEMMA JobType ==
    ASSUME NEW txs \in SUBSET Txs, NEW source \in Conns \cup {Nil}, NEW how \in {"local", "stem", "fluff"}
    PROVE  /\ Job(txs, source, how) \subseteq JobRecords
           /\ \A t \in txs : \E job \in Job(txs, source, how) : Sets(job, t)
<1>1. CASE txs = {}
  BY <1>1 DEF Job
<1>2. CASE txs # {}
  <2> DEFINE job == [txs |-> txs, source |-> source, how |-> how]
  <2>1. Job(txs, source, how) = {job}
    BY <1>2 DEF Job
  <2>2. job \in JobRecords /\ job.txs = txs /\ job.how # "queued"
    BY DEF JobRecords
  <2> HIDE DEF job
  <2> QED
    BY <2>1, <2>2 DEF Sets
<1> QED
  BY <1>1, <1>2

\* A job is taken and its transactions get their time.
LEMMA JobIsDone ==
    ASSUME PoolInv, NEW job \in jobs, jobs \ {job} \subseteq jobs', jobs' \subseteq JobRecords, stranded' = stranded,
           NEW method \in {"stem", "fluff"}, meta' = on_transactions_relayed(job.txs, method)
    PROVE  PoolInv'
<1>1. /\ meta \in [Txs -> Entries] /\ \A t \in Txs : meta[t] \in Entries
      /\ meta' = [t \in Txs |-> IF t \in job.txs THEN set_relayed(meta[t], method) ELSE meta[t]]
  BY DEF PoolInv, on_transactions_relayed
<1>2. meta' \in [Txs -> Entries]
  BY <1>1, SetRelayed
<1>3. ASSUME NEW t \in Txs
      PROVE  \/ meta'[t] = Absent \/ meta'[t].relay # "never" \/ t \in stranded'
             \/ \E j \in jobs' : Sets(j, t)
  <2>1. CASE t \in job.txs
    BY <1>1, <2>1, SetRelayed
  <2>2. CASE t \notin job.txs
    BY <1>1, <2>2 DEF PoolInv, EveryTxIsScheduled, Sets
  <2> QED
    BY <2>1, <2>2
<1> QED
  BY <1>2, <1>3 DEF PoolInv, EveryTxIsScheduled

\* AddTxs changes the transactions it adds and no other.
LEMMA AddTxsChanges ==
    ASSUME PoolInv, NEW txs \in SUBSET Txs, NEW fluff \in BOOLEAN, AddTxs(txs, fluff)
    PROVE  /\ meta' \in [Txs -> Entries]
           /\ NewTxs(txs) \in SUBSET txs
           /\ \A t \in NewTxs(txs) : MethodOf(t, fluff) \in {"stem", "fluff"}
           /\ \A t \in Txs \ NewTxs(txs) : meta'[t] = meta[t]
<1>1. /\ meta \in [Txs -> Entries]
      /\ meta' = [t \in Txs |-> IF t \in NewTxs(txs) THEN add_tx(meta[t], MethodOf(t, fluff)) ELSE meta[t]]
  BY DEF PoolInv, AddTxs
<1>2. \A t \in NewTxs(txs) : MethodOf(t, fluff) \in {"stem", "fluff"}
  BY DEF MethodOf, MethodFor
<1>3. NewTxs(txs) \in SUBSET txs
  BY DEF NewTxs
<1>4. \A t \in Txs : meta'[t] \in Entries
  BY <1>1, <1>2, AddTx
<1> QED
  BY <1>1, <1>2, <1>3, <1>4

\* What a step may do to one transaction: leave it with what it had, give it a time or
\* a job, or leave it as one that is known to have none.
LEMMA Scheduled ==
    ASSUME PoolInv, meta' \in [Txs -> Entries], jobs' \subseteq JobRecords,
           \A t \in Txs : \/ /\ meta'[t] = meta[t] /\ (t \in stranded => t \in stranded')
                             /\ \A job \in jobs : Sets(job, t) => job \in jobs'
                          \/ meta'[t] = Absent \/ meta'[t].relay # "never" \/ t \in stranded'
                          \/ \E job \in jobs' : Sets(job, t)
    PROVE  PoolInv'
<1>1. ASSUME NEW t \in Txs
      PROVE  \/ meta'[t] = Absent \/ meta'[t].relay # "never" \/ t \in stranded'
             \/ \E j \in jobs' : Sets(j, t)
  BY DEF PoolInv, EveryTxIsScheduled
<1> QED
  BY <1>1 DEF PoolInv, EveryTxIsScheduled

LEMMA NextSchedules ==
    ASSUME PoolInv, [Next]_vars
    PROVE  PoolInv'
<1>0. /\ meta \in [Txs -> Entries] /\ jobs \subseteq JobRecords
      /\ \A t \in Txs : meta[t] \in Entries
  BY DEF PoolInv
<1>1. ASSUME NEW job \in jobs, SendPublic(job)
      PROVE  PoolInv'
  <2> DEFINE queued == [job EXCEPT !.how = "queued"]
  <2>1. /\ jobs' = (jobs \ {job}) \cup {queued} /\ stranded' = stranded
        /\ meta' = on_transactions_relayed(job.txs, "fluff")
    BY <1>1 DEF SendPublic
  <2>2. queued \in JobRecords
    BY <1>0 DEF JobRecords
  <2> HIDE DEF queued
  <2>3. jobs \ {job} \subseteq jobs' /\ jobs' \subseteq JobRecords
    BY <1>0, <2>1, <2>2
  <2> QED
    BY <2>1, <2>3, JobIsDone
<1>2. ASSUME NEW job \in jobs, FluffJob(job)
      PROVE  PoolInv'
  <2>1. jobs' = jobs \ {job} /\ job.how = "queued" /\ UNCHANGED <<meta, stranded>>
    BY <1>2 DEF FluffJob
  <2>2. \A t \in Txs : \A j \in jobs : Sets(j, t) => j \in jobs'
    BY <2>1 DEF Sets
  <2>3. jobs' \subseteq JobRecords
    BY <1>0, <2>1
  <2> QED
    BY <1>0, <2>1, <2>2, <2>3, Scheduled
<1>3. ASSUME NEW job \in jobs, FluffingJob(job) \/ StemJob(job)
      PROVE  PoolInv'
  <2>1. /\ jobs' = jobs \ {job} /\ stranded' = stranded
        /\ \E method \in {"stem", "fluff"} : meta' = on_transactions_relayed(job.txs, method)
    BY <1>3 DEF FluffingJob, StemJob, Fluff
  <2>2. jobs \ {job} \subseteq jobs' /\ jobs' \subseteq JobRecords
    BY <1>0, <2>1
  <2> QED
    BY <2>1, <2>2, JobIsDone
<1>4. CASE start_epoch \/ UNCHANGED vars \/ (\E due \in SUBSET Conns : fluff_flush(due))
           \/ (\E c \in Conns : Connect(c) \/ Lose(c) \/ FallsBehind(c) \/ CatchesUp(c))
  <2>1. UNCHANGED <<meta, jobs, stranded>>
    BY <1>4, Zenon DEF start_epoch, vars, fluff_flush, Connect, Lose, FallsBehind, CatchesUp
  <2> QED
    BY <2>1 DEF PoolInv, EveryTxIsScheduled
<1>5. CASE relay_txpool_transactions
  <2> DEFINE due == {t \in Txs : meta[t].relay = "now"}
             forwarded == {t \in due : meta[t].method = "forward"}
  <2>1. /\ jobs' = jobs \cup Job(due \ forwarded, Nil, "fluff") \cup Job(forwarded, Nil, "stem")
        /\ UNCHANGED <<meta, stranded>>
    BY <1>5 DEF relay_txpool_transactions
  <2>2. due \ forwarded \in SUBSET Txs /\ forwarded \in SUBSET Txs
    OBVIOUS
  <2> HIDE DEF due, forwarded
  <2>3. jobs' \subseteq JobRecords
    BY <1>0, <2>1, <2>2, JobType, Zenon
  <2> QED
    BY <1>0, <2>1, <2>3, Scheduled
<1>6. CASE Restart
  <2>1. /\ jobs' = {} /\ meta' = meta
        /\ stranded' = Left({t \in Txs : meta[t] # Absent})
    BY <1>6 DEF Restart
  <2>2. \A t \in Txs : meta'[t] = Absent \/ meta'[t].relay # "never" \/ t \in stranded'
    BY <2>1 DEF Left
  <2> QED
    BY <1>0, <2>1, <2>2, Scheduled
<1>7. ASSUME NEW t \in Txs, RelayTimeComes(t)
      PROVE  PoolInv'
  <2>1. meta' = [meta EXCEPT ![t].relay = "now"] /\ UNCHANGED <<jobs, stranded>>
    BY <1>7 DEF RelayTimeComes
  <2>2. /\ meta'[t] \in Entries /\ meta'[t].relay = "now"
        /\ \A u \in Txs : u # t => meta'[u] = meta[u]
    BY <1>0, <2>1 DEF Entries
  <2>3. meta' \in [Txs -> Entries]
    BY <1>0, <2>1, <2>2
  <2> QED
    BY <1>0, <2>1, <2>2, <2>3, Scheduled
<1>8. ASSUME NEW t \in Txs, Mined(t)
      PROVE  PoolInv'
  <2>1. meta' = [meta EXCEPT ![t] = Absent] /\ stranded' = stranded \ {t} /\ jobs' = jobs
    BY <1>8 DEF Mined
  <2>2. meta' \in [Txs -> Entries] /\ meta'[t] = Absent /\ \A u \in Txs : u # t => meta'[u] = meta[u]
    BY <1>0, <2>1, AbsentIsEntry
  <2> QED
    BY <1>0, <2>1, <2>2, Scheduled
<1>9. ASSUME NEW t \in Txs, NEW method \in {"local", "forward"}, Submit(t, method)
      PROVE  PoolInv'
  <2>1. /\ meta' = [meta EXCEPT ![t] = add_tx(Absent, method)]
        /\ jobs' = jobs \cup IF method = "local" THEN Job({t}, Nil, "local") ELSE {}
        /\ stranded' = stranded
    BY <1>0, <1>9 DEF Submit, Unused
  <2>2. /\ meta' \in [Txs -> Entries] /\ meta'[t] = add_tx(Absent, method)
        /\ \A u \in Txs : u # t => meta'[u] = meta[u]
    BY <1>0, <2>1, AbsentIsEntry, AddTx
  <2>3. Job({t}, Nil, "local") \subseteq JobRecords /\ \E job \in Job({t}, Nil, "local") : Sets(job, t)
    BY JobType, Zenon
  <2>4. jobs' \subseteq JobRecords /\ jobs \subseteq jobs'
    BY <1>0, <2>1, <2>3, Zenon
  <2>5. \/ meta'[t] = Absent \/ meta'[t].relay # "never" \/ \E job \in jobs' : Sets(job, t)
    <3>1. CASE method = "local"
      BY <2>1, <2>3, <3>1
    <3>2. CASE method = "forward"
      BY <2>2, <3>2, AddTx, AbsentIsEntry
    <3> QED
      BY <3>1, <3>2
  <2> QED
    BY <1>0, <2>1, <2>2, <2>4, <2>5, Scheduled
<1>10. ASSUME NEW t \in Txs, AddFromBlock(t)
       PROVE  PoolInv'
  <2>1. PICK entry \in add_tx_kept_by_block(meta[t]) : meta' = [meta EXCEPT ![t] = entry]
    BY <1>10, Zenon DEF AddFromBlock
  <2>2. jobs' = jobs /\ stranded' = stranded \cup Left({t})
    BY <1>10 DEF AddFromBlock
  <2>3. entry \in Entries
    <3>1. add_tx(meta[t], "block") \in Entries
      BY <1>0, AddTx
    <3> QED
      BY <3>1 DEF add_tx_kept_by_block, Entries
  <2>4. /\ meta' \in [Txs -> Entries] /\ \A u \in Txs : u # t => meta'[u] = meta[u]
    BY <1>0, <2>1, <2>3
  <2>5. \/ meta'[t].relay # "never" \/ t \in stranded' \/ \E job \in jobs' : Sets(job, t)
    BY <2>2 DEF Left
  <2> QED
    BY <1>0, <2>2, <2>4, <2>5, Scheduled
<1>11. ASSUME NEW c \in Conns, NEW txs \in SUBSET Txs, NEW fluff \in BOOLEAN, Receive(c, txs, fluff)
       PROVE  PoolInv'
  <2> DEFINE new == NewTxs(txs)
             stems == {t \in new : MethodOf(t, fluff) = "stem"}
             fluffs == {t \in new : MethodOf(t, fluff) = "fluff"}
  <2>1. /\ AddTxs(txs, fluff)
        /\ jobs' = jobs \cup Job(stems, c, "stem") \cup Job(fluffs, c, "fluff")
        /\ stranded' = stranded \ new
    BY <1>11 DEF Receive
  <2>2. /\ meta' \in [Txs -> Entries] /\ new \in SUBSET txs
        /\ \A t \in Txs \ new : meta'[t] = meta[t]
        /\ \A t \in new : MethodOf(t, fluff) \in {"stem", "fluff"}
    BY <2>1, AddTxsChanges
  <2>3. stems \in SUBSET Txs /\ fluffs \in SUBSET Txs /\ \A t \in new : t \in stems \/ t \in fluffs
    BY <2>2
  <2> HIDE DEF new, stems, fluffs
  <2>4. /\ jobs' \subseteq JobRecords /\ jobs \subseteq jobs'
        /\ \A t \in new : \E job \in jobs' : Sets(job, t)
    BY <1>0, <2>1, <2>3, JobType, Zenon
  <2> QED
    BY <1>0, <2>1, <2>2, <2>4, Scheduled
<1>12. ASSUME NEW c \in Conns, NEW txs \in SUBSET Txs, NEW fluff \in BOOLEAN, ReceiveFails(c, txs, fluff)
       PROVE  PoolInv'
  <2>1. AddTxs(txs, fluff) /\ jobs' = jobs /\ stranded' = stranded \cup Left(NewTxs(txs))
    BY <1>12 DEF ReceiveFails
  <2>2. meta' \in [Txs -> Entries] /\ \A t \in Txs \ NewTxs(txs) : meta'[t] = meta[t]
    BY <2>1, AddTxsChanges
  <2>3. \A t \in NewTxs(txs) : \/ meta'[t].relay # "never" \/ t \in stranded'
                               \/ \E job \in jobs' : Sets(job, t)
    BY <2>1 DEF Left
  <2> QED
    BY <1>0, <2>1, <2>2, <2>3, Scheduled
<1> QED
  BY <1>1, <1>2, <1>3, <1>4, <1>5, <1>6, <1>7, <1>8, <1>9, <1>10, <1>11, <1>12 DEF Next, RunJob

\* A transaction of the pool has a time at which get_relayable_transactions takes
\* it, or a send_txs call is on its way that sets one; also when its id comes twice,
\* by stem and by fluff, or it is mined and submitted again meanwhile.  The three ways
\* in which the code leaves one without either (a message refused after it, a block it
\* comes from, a restart) are steps of the specification and add it to stranded.
THEOREM PoolIsScheduled == Spec => []EveryTxIsScheduled
<1>1. Init => PoolInv
  BY AbsentIsEntry DEF Init, PoolInv, EveryTxIsScheduled
<1>2. PoolInv /\ [Next]_vars => PoolInv'
  BY NextSchedules
<1>3. PoolInv => EveryTxIsScheduled
  BY DEF PoolInv
<1> QED
  BY <1>1, <1>2, <1>3, PTL DEF Spec

-----------------------------------------------------------------------------
(* The stem map.                                                           *)

Sources(m, i) == {s \in DOMAIN m.in : m.in[s] = i}

\* What get_stem and update rely on: every source has a place of out, and the count
\* of a place is that of its sources, who are finitely many.
MapOK(m) ==
    /\ DOMAIN m = {"out", "in", "usage"}
    /\ m.out \in Seq(Out \cup {Nil}) /\ Len(m.out) <= STEMS
    /\ IsFiniteSet(DOMAIN m.in) /\ \A s \in DOMAIN m.in : m.in[s] \in 1..Len(m.out)
    /\ m.usage \in [1..STEMS -> Int]
    /\ \A i \in 1..STEMS : m.usage[i] = Cardinality(Sources(m, i))

\* The sources of m whose stem is open and not behind have the same stem in n.
Keeps(m, n) ==
    \A s \in DOMAIN m.in :
        m.out[m.in[s]] \in links \ lagging => s \in DOMAIN n.in /\ n.out[n.in[s]] = m.out[m.in[s]]

MapInv == links \subseteq Conns /\ IsFiniteSet(links) /\ MapOK(map)

LEMMA SourcesAreFinite ==
    ASSUME NEW m, MapOK(m), NEW i
    PROVE  IsFiniteSet(Sources(m, i)) /\ Cardinality(Sources(m, i)) \in Nat
<1>1. Sources(m, i) \in SUBSET DOMAIN m.in
  BY DEF Sources
<1> QED
  BY <1>1, FS_Subset, FS_CardinalityType DEF MapOK

LEMMA AddSource ==
    ASSUME NEW m, MapOK(m), NEW source, source \notin DOMAIN m.in, NEW i \in 1..Len(m.out)
    PROVE  /\ MapOK(WithSource(m, source, i))
           /\ WithSource(m, source, i).out = m.out
           /\ \A s \in DOMAIN m.in : /\ s \in DOMAIN WithSource(m, source, i).in
                                     /\ WithSource(m, source, i).in[s] = m.in[s]
<1> DEFINE n == WithSource(m, source, i)
           in == [s \in DOMAIN m.in \cup {source} |-> IF s = source THEN i ELSE m.in[s]]
           usage == [m.usage EXCEPT ![i] = @ + 1]
<1>0. /\ DOMAIN m = {"out", "in", "usage"}
      /\ Len(m.out) \in Nat /\ Len(m.out) <= STEMS /\ STEMS \in Nat /\ i \in 1..STEMS
  BY RelayAssumption DEF MapOK
<1>1. DOMAIN n = {"out", "in", "usage"} /\ n.out = m.out /\ n.in = in /\ n.usage = usage
  BY <1>0 DEF WithSource
<1>2. DOMAIN in = DOMAIN m.in \cup {source} /\ in[source] = i /\ \A s \in DOMAIN m.in : in[s] = m.in[s]
  OBVIOUS
<1>3. IsFiniteSet(DOMAIN in) /\ \A s \in DOMAIN in : in[s] \in 1..Len(m.out)
  BY <1>2, FS_AddElement DEF MapOK
<1>4. usage \in [1..STEMS -> Int] /\ usage[i] = m.usage[i] + 1 /\ \A j \in 1..STEMS : j # i => usage[j] = m.usage[j]
  BY <1>0 DEF MapOK
<1> HIDE DEF in, usage, n
<1>5. ASSUME NEW j \in 1..STEMS
      PROVE  usage[j] = Cardinality(Sources(n, j))
  <2>1. /\ IsFiniteSet(Sources(m, j)) /\ m.usage[j] = Cardinality(Sources(m, j))
        /\ Cardinality(Sources(m, j)) \in Nat
    BY SourcesAreFinite DEF MapOK
  <2>2. CASE j = i
    <3>1. Sources(n, j) = Sources(m, j) \cup {source} /\ source \notin Sources(m, j)
      BY <1>1, <1>2, <2>2 DEF Sources
    <3>2. Cardinality(Sources(m, j) \cup {source}) = Cardinality(Sources(m, j)) + 1
      BY <2>1, <3>1, FS_AddElement, Zenon
    <3> QED
      BY <1>4, <2>1, <2>2, <3>1, <3>2
  <2>3. CASE j # i
    <3>1. Sources(n, j) = Sources(m, j)
      BY <1>1, <1>2, <2>3 DEF Sources
    <3> QED
      BY <1>4, <2>1, <2>3, <3>1
  <2> QED
    BY <2>2, <2>3
<1>6. MapOK(n)
  BY <1>1, <1>3, <1>4, <1>5, MapOK(m) DEF MapOK
<1> QED
  BY <1>1, <1>2, <1>6 DEF n

LEMMA RemoveSource ==
    ASSUME NEW m, MapOK(m), NEW source \in DOMAIN m.in
    PROVE  /\ MapOK(WithoutSource(m, source))
           /\ WithoutSource(m, source).out = m.out
           /\ DOMAIN WithoutSource(m, source).in = DOMAIN m.in \ {source}
           /\ \A s \in DOMAIN m.in \ {source} : WithoutSource(m, source).in[s] = m.in[s]
<1> DEFINE n == WithoutSource(m, source)
           in == [s \in DOMAIN m.in \ {source} |-> m.in[s]]
           i == m.in[source]
           usage == [m.usage EXCEPT ![i] = @ - 1]
<1>0. /\ DOMAIN m = {"out", "in", "usage"}
      /\ Len(m.out) \in Nat /\ Len(m.out) <= STEMS /\ STEMS \in Nat /\ i \in 1..STEMS
  BY RelayAssumption DEF MapOK
<1>1. DOMAIN n = {"out", "in", "usage"} /\ n.out = m.out /\ n.in = in /\ n.usage = usage
  BY <1>0 DEF WithoutSource
<1>2. DOMAIN in = DOMAIN m.in \ {source} /\ \A s \in DOMAIN in : in[s] = m.in[s]
  OBVIOUS
<1>3. IsFiniteSet(DOMAIN in) /\ \A s \in DOMAIN in : in[s] \in 1..Len(m.out)
  BY <1>2, FS_RemoveElement DEF MapOK
<1>4. usage \in [1..STEMS -> Int] /\ usage[i] = m.usage[i] - 1 /\ \A j \in 1..STEMS : j # i => usage[j] = m.usage[j]
  BY <1>0 DEF MapOK
<1>5. source \in DOMAIN m.in /\ m.in[source] = i
  OBVIOUS
<1> HIDE DEF in, usage, n, i
<1>6. ASSUME NEW j \in 1..STEMS
      PROVE  usage[j] = Cardinality(Sources(n, j))
  <2>1. /\ IsFiniteSet(Sources(m, j)) /\ m.usage[j] = Cardinality(Sources(m, j))
        /\ Cardinality(Sources(m, j)) \in Nat
    BY SourcesAreFinite DEF MapOK
  <2>2. CASE j = i
    <3>1. Sources(n, j) = Sources(m, j) \ {source} /\ source \in Sources(m, j)
      BY <1>1, <1>2, <1>5, <2>2 DEF Sources
    <3> QED
      BY <1>4, <2>1, <2>2, <3>1, FS_RemoveElement, Zenon
  <2>3. CASE j # i
    <3>1. Sources(n, j) = Sources(m, j)
      BY <1>1, <1>2, <1>5, <2>3 DEF Sources
    <3> QED
      BY <1>4, <2>1, <2>3, <3>1
  <2> QED
    BY <2>2, <2>3
<1>7. MapOK(n)
  BY <1>1, <1>3, <1>4, <1>6, MapOK(m) DEF MapOK
<1> QED
  BY <1>1, <1>2, <1>7 DEF n

LEMMA LeastExists ==
    ASSUME NEW S \in SUBSET Nat, S # {}
    PROVE  \E x \in S : \A y \in S : x <= y
<1>1. PICK x \in S : \A y \in S : ~(<<y, x>> \in OpToRel(<,Nat))
  BY NatLessThanWellFounded, WFMin, Zenon
<1>2. \A y \in S : ~(y < x)
  BY <1>1, Zenon DEF OpToRel
<1> QED
  BY <1>2

LEMMA MaxOf ==
    ASSUME NEW n \in Nat, NEW S \in SUBSET (0 .. n), S # {}
    PROVE  Max(S) \in S /\ \A y \in S : Max(S) >= y
<1> DEFINE T == {n - x : x \in S}
<1>0. \A x \in S : x \in Int /\ n - x \in Nat
  OBVIOUS
<1>1. T \in SUBSET Nat /\ T # {}
  BY <1>0, Zenon
<1>2. PICK z \in T : \A y \in T : z <= y
  BY <1>1, LeastExists, Zenon
<1>3. PICK x \in S : z = n - x
  BY <1>2
<1>4. ASSUME NEW y \in S
      PROVE  x >= y
  <2>1. n - y \in T
    OBVIOUS
  <2>2. n - x <= n - y
    BY <1>2, <1>3, <2>1, Zenon
  <2> QED
    BY <1>0, <2>2
<1> QED
  BY <1>4, Zenon DEF Max

LEMMA GetStem ==
    ASSUME NEW m, MapOK(m), NEW source, NEW r \in get_stem(m, source), links \subseteq Conns
    PROVE  MapOK(r.map) /\ Keeps(m, r.map)
<1> DEFINE lost  == source \in DOMAIN m.in /\ m.out[m.in[source]] = Nil
           fresh == IF lost THEN WithoutSource(m, source) ELSE m
<1>0. m.out \in Seq(Out \cup {Nil}) /\ Nil \notin links
  BY RelayAssumption DEF MapOK
<1>1. /\ MapOK(fresh) /\ fresh.out = m.out
      /\ lost => source \notin DOMAIN fresh.in
      /\ \A s \in DOMAIN m.in : m.out[m.in[s]] # Nil => s \in DOMAIN fresh.in /\ fresh.in[s] = m.in[s]
  <2>1. CASE lost
    BY <2>1, RemoveSource, SMTT(20), Zenon
  <2>2. CASE ~lost
    BY <2>2
  <2> QED
    BY <2>1, <2>2, Zenon
<1>2. CASE source \in DOMAIN m.in /\ ~lost
  <2>1. r.map = m
    BY <1>2 DEF get_stem
  <2> QED
    BY <2>1 DEF Keeps
<1>3. CASE ~(source \in DOMAIN m.in /\ ~lost)
  <2>1. source \notin DOMAIN fresh.in
    BY <1>1, <1>3, Zenon
  <2>2. \/ r.map = fresh
        \/ \E i \in select_stem(fresh) : r.map = WithSource(fresh, source, i)
    BY <1>3, SMTT(30) DEF get_stem
  <2> HIDE DEF fresh, lost
  <2>3. CASE r.map = fresh
    BY <1>0, <1>1, <2>3 DEF Keeps
  <2>4. ASSUME NEW i \in select_stem(fresh), r.map = WithSource(fresh, source, i)
        PROVE  MapOK(r.map) /\ Keeps(m, r.map)
    <3>1. i \in 1..Len(fresh.out)
      BY <1>0, <1>1 DEF select_stem
    <3>2. /\ MapOK(r.map) /\ r.map.out = fresh.out
          /\ \A s \in DOMAIN fresh.in : s \in DOMAIN r.map.in /\ r.map.in[s] = fresh.in[s]
      BY <1>1, <2>1, <2>4, <3>1, AddSource
    <3> QED
      BY <1>0, <1>1, <3>2 DEF Keeps
  <2> QED
    BY <2>2, <2>3, <2>4, Zenon
<1> QED
  BY <1>2, <1>3

LEMMA StemsAreFinite == IsFiniteSet(1..STEMS)
BY RelayAssumption, FS_Interval

LEMMA BelowGrows ==
    ASSUME NEW F \in SUBSET Nat, NEW i \in Nat, NEW j \in Nat, i <= j
    PROVE  {k \in F : k < i} \in SUBSET {k \in F : k < j} /\ {k \in F : k < j} \in SUBSET F
<1>1. \A k \in F : k \in Nat
  OBVIOUS
<1>2. \A k \in F : k < i => k < j
  BY <1>1
<1> QED
  BY <1>2, Zenon

LEMMA Update ==
    ASSUME NEW m, MapOK(m), NEW n \in update(m, get_out_connections), links \subseteq Conns, IsFiniteSet(links)
    PROVE  MapOK(n) /\ Keeps(m, n)
<1> DEFINE current == get_out_connections
           kept  == [i \in DOMAIN m.out |-> IF m.out[i] \in current THEN m.out[i] ELSE Nil]
           free  == {i \in 1..STEMS : i \in DOMAIN kept => kept[i] = Nil}
           spare == current \ Range(kept)
           below(i) == {j \in free : j < i}
           slots == {i \in free : Cardinality(below(i)) < Cardinality(spare)}
           size  == Max({Len(kept)} \cup slots)
<1>0. /\ m.out \in Seq(Out \cup {Nil}) /\ STEMS \in Nat /\ Len(m.out) \in 0..STEMS
      /\ DOMAIN m.out = 1..Len(m.out) /\ current = (links \cap Out) \ lagging /\ Nil \notin links
      /\ \A i \in 1..Len(m.out) : m.out[i] \in Out \cup {Nil}
  BY RelayAssumption DEF MapOK, get_out_connections
<1>1. /\ DOMAIN kept = 1..Len(m.out) /\ Len(kept) = Len(m.out)
      /\ \A i \in 1..Len(m.out) : kept[i] \in Out \cup {Nil} /\ (m.out[i] \in links \ lagging => kept[i] = m.out[i])
  <2>1. kept \in [1..Len(m.out) -> Out \cup {Nil}]
    BY <1>0
  <2>2. Len(kept) = Len(m.out)
    BY <1>0, <2>1
  <2> QED
    BY <1>0, <2>1, <2>2
<1>2. PICK f \in Injection(slots, spare) :
          n = [m EXCEPT !.out = [i \in 1..size |-> IF i \in slots THEN f[i] ELSE kept[i]]]
  BY Zenon DEF update
<1> DEFINE out == [i \in 1..size |-> IF i \in slots THEN f[i] ELSE kept[i]]
<1>3. DOMAIN n = {"out", "in", "usage"} /\ n.out = out /\ n.in = m.in /\ n.usage = m.usage
  BY <1>2, Zenon DEF MapOK
<1>4. \A i \in slots : f[i] \in Out \cup {Nil}
  BY <1>0, Zenon DEF Injection
<1>5. /\ slots \subseteq free /\ free \in SUBSET (1..STEMS) /\ \A i \in 1..STEMS : i > Len(m.out) => i \in free
      /\ \A i \in free : i \in 1..Len(m.out) => kept[i] = Nil
  <2>1. slots \subseteq free /\ free \in SUBSET (1..STEMS)
    OBVIOUS
  <2>2. ASSUME NEW i \in 1..STEMS, i > Len(m.out) PROVE i \in free
    <3>1. i \notin DOMAIN kept
      BY <1>0, <1>1, <2>2
    <3> QED
      BY <3>1, Zenon
  <2>3. \A i \in free : i \in 1..Len(m.out) => kept[i] = Nil
    BY <1>1, Zenon
  <2> QED
    BY <2>1, <2>2, <2>3, ZenonT(30)
<1>6. \A i \in free : i \in slots <=> Cardinality(below(i)) < Cardinality(spare)
  OBVIOUS
<1>7. IsFiniteSet(free) /\ Cardinality(spare) \in Nat
  <2>1. spare \in SUBSET links
    BY <1>0
  <2> HIDE DEF spare, free
  <2>2. IsFiniteSet(1..STEMS)
    BY StemsAreFinite
  <2>3. IsFiniteSet(free) /\ IsFiniteSet(spare)
    BY <1>5, <2>1, <2>2, FS_Subset, Zenon
  <2> QED
    BY <2>3, FS_CardinalityType, Zenon
<1>8. \A i, j \in 1..STEMS : i <= j => below(i) \in SUBSET below(j) /\ below(j) \in SUBSET free
  <2> HIDE DEF current, kept, free, spare, slots, size
  <2>1. \A i \in 1..STEMS : i \in Nat
    BY <1>0
  <2>2. free \in SUBSET Nat
    BY <1>5, <2>1, Zenon
  <2> QED
    BY <2>1, <2>2, BelowGrows
<1>9. size = Max({Len(kept)} \cup slots)
  OBVIOUS
<1> HIDE DEF current, kept, free, spare, below, slots, size
<1>10. size \in {Len(m.out)} \cup slots /\ Len(m.out) <= size /\ size \in 0..STEMS
  <2>0. \A i \in 1..STEMS : i \in 0..STEMS
    BY <1>0
  <2>1. {Len(kept)} \cup slots \in SUBSET (0..STEMS)
    BY <1>0, <1>1, <1>5, <2>0, Zenon
  <2>2. /\ Max({Len(kept)} \cup slots) \in {Len(kept)} \cup slots
        /\ \A y \in {Len(kept)} \cup slots : Max({Len(kept)} \cup slots) >= y
    BY <1>0, <2>1, MaxOf, Zenon
  <2>3. size \in {Len(kept)} \cup slots /\ \A y \in {Len(kept)} \cup slots : size >= y
    BY <1>9, <2>2, Zenon
  <2> QED
    BY <1>0, <1>1, <2>1, <2>3
<1>11. ASSUME NEW i \in 1..size, i \notin slots
       PROVE  i \in 1..Len(m.out)
  <2>1. SUFFICES ASSUME i > Len(m.out)
                 PROVE  FALSE
    BY <1>0, <1>10
  <2>2. i \in 1..STEMS /\ size \in 1..STEMS /\ i <= size
    BY <1>0, <1>10
  <2>3. size \in slots /\ i \in free /\ size \in free
    BY <1>0, <1>5, <1>10, <2>1, <2>2
  <2>4. /\ Cardinality(below(i)) <= Cardinality(below(size))
        /\ Cardinality(below(i)) \in Nat /\ Cardinality(below(size)) \in Nat
    BY <1>7, <1>8, <2>2, FS_Subset, FS_CardinalityType
  <2> QED
    BY <1>6, <1>7, <1>11, <2>3, <2>4
<1>12. out \in Seq(Out \cup {Nil}) /\ Len(out) = size
  <2>1. \A i \in 1..size : out[i] \in Out \cup {Nil}
    BY <1>1, <1>4, <1>11
  <2>2. size \in Nat /\ out \in [1..size -> Out \cup {Nil}]
    BY <1>10, <2>1
  <2> HIDE DEF out
  <2> QED
    BY <2>2
<1>13. MapOK(n)
  <2>1. \A i : Sources(n, i) = Sources(m, i)
    BY <1>3 DEF Sources
  <2>2. \A s \in DOMAIN m.in : m.in[s] \in 1..Len(n.out)
    BY <1>0, <1>3, <1>10, <1>12 DEF MapOK
  <2> HIDE DEF out
  <2> QED
    BY <1>0, <1>3, <1>10, <1>12, <2>1, <2>2, MapOK(m), SMTT(20), Zenon DEF MapOK
<1>14. ASSUME NEW s \in DOMAIN m.in, m.out[m.in[s]] \in links \ lagging
       PROVE  s \in DOMAIN n.in /\ n.out[n.in[s]] = m.out[m.in[s]]
  <2>1. m.in[s] \in 1..Len(m.out)
    BY DEF MapOK
  <2>2. m.in[s] \notin slots /\ kept[m.in[s]] = m.out[m.in[s]]
    BY <1>0, <1>1, <1>5, <1>14, <2>1
  <2>3. m.in[s] \in 1..size
    BY <1>0, <1>10, <2>1, SMTT(20), Zenon
  <2>4. out[m.in[s]] = kept[m.in[s]]
    BY <2>2, <2>3
  <2> QED
    BY <1>3, <2>2, <2>4
<1> QED
  BY <1>13, <1>14 DEF Keeps

LEMMA KeepsTransitive ==
    ASSUME NEW l, NEW m, NEW n, Keeps(l, m), Keeps(m, n)
    PROVE  Keeps(l, n)
BY DEF Keeps

LEMMA Tries ==
    ASSUME NEW m, MapOK(m), NEW source, NEW r \in TryStem(m, source), links \subseteq Conns, IsFiniteSet(links)
    PROVE  MapOK(r.map) /\ Keeps(m, r.map)
<1>1. PICK p \in get_stem(m, source) :
          \/ r = p
          \/ \E n \in update(p.map, get_out_connections) : \E q \in get_stem(n, source) :
                \/ r = q
                \/ \E k \in update(q.map, get_out_connections) : r = [map |-> k, to |-> Nil]
  BY DEF TryStem
<1>2. MapOK(p.map) /\ Keeps(m, p.map)
  BY GetStem
<1>3. CASE r = p
  BY <1>2, <1>3
<1>4. ASSUME NEW n \in update(p.map, get_out_connections), NEW q \in get_stem(n, source),
             \/ r = q
             \/ \E k \in update(q.map, get_out_connections) : r = [map |-> k, to |-> Nil]
      PROVE  MapOK(r.map) /\ Keeps(m, r.map)
  <2>1. MapOK(n) /\ Keeps(m, n)
    BY <1>2, Update, KeepsTransitive
  <2>2. MapOK(q.map) /\ Keeps(m, q.map)
    BY <2>1, GetStem, KeepsTransitive
  <2>3. CASE r = q
    BY <2>2, <2>3
  <2>4. ASSUME NEW k \in update(q.map, get_out_connections), r = [map |-> k, to |-> Nil]
        PROVE  MapOK(r.map) /\ Keeps(m, r.map)
    <3>1. MapOK(k) /\ Keeps(m, k)
      BY <2>2, Update, KeepsTransitive
    <3> QED
      BY <2>4, <3>1
  <2> QED
    BY <1>4, <2>3, <2>4
<1> QED
  BY <1>1, <1>3, <1>4

LEMMA NewMapCounts ==
    ASSUME NEW out \in Seq(Out \cup {Nil}), Len(out) <= STEMS
    PROVE  MapOK(connection_map(out)) /\ connection_map(out).in = << >>
<1> DEFINE m == connection_map(out)
<1>1. /\ DOMAIN m = {"out", "in", "usage"} /\ m.out = out /\ m.in = << >>
      /\ m.usage = [i \in 1..STEMS |-> 0]
  BY DEF connection_map
<1>2. DOMAIN m.in = {} /\ \A i : Sources(m, i) = {}
  BY <1>1 DEF Sources
<1> HIDE DEF m
<1>3. IsFiniteSet(DOMAIN m.in) /\ \A i : Cardinality(Sources(m, i)) = 0
  BY <1>2, FS_EmptySet, Zenon
<1>4. m.usage \in [1..STEMS -> Int] /\ \A i \in 1..STEMS : m.usage[i] = 0
  BY <1>1
<1>5. MapOK(m)
  BY <1>1, <1>2, <1>3, <1>4 DEF MapOK
<1> QED
  BY <1>1, <1>5 DEF m

LEMMA EmptyMapCounts == MapOK(connection_map(<< >>)) /\ connection_map(<< >>).in = << >>
<1>1. << >> \in Seq(Out \cup {Nil}) /\ Len(<< >>) <= STEMS
  BY RelayAssumption
<1> QED
  BY <1>1, NewMapCounts, Zenon

LEMMA NewMapsCount ==
    ASSUME links \subseteq Conns, IsFiniteSet(links), NEW m \in NewMaps(get_out_connections)
    PROVE  MapOK(m) /\ m.in = << >>
<1> DEFINE outs == get_out_connections
           k == Min({STEMS, Cardinality(outs)})
<1>0. STEMS \in Nat /\ outs \in SUBSET links /\ outs \subseteq Out
  BY RelayAssumption DEF get_out_connections
<1>1. Cardinality(outs) \in Nat
  BY <1>0, FS_Subset, FS_CardinalityType
<1>2. PICK out \in Injection(1..k, outs) : m = connection_map(out)
  BY Zenon DEF NewMaps
<1> HIDE DEF outs
<1>3. k \in Nat /\ k <= STEMS
  <2>1. \E x \in {STEMS, Cardinality(outs)} : \A y \in {STEMS, Cardinality(outs)} : x =< y
    BY <1>0, <1>1
  <2> QED
    BY <1>0, <1>1, <2>1 DEF Min
<1> HIDE DEF k
<1>4. out \in Seq(Out \cup {Nil}) /\ Len(out) = k
  <2>1. out \in [1..k -> Out \cup {Nil}]
    BY <1>0 DEF Injection
  <2> QED
    BY <1>3, <2>1
<1> QED
  BY <1>2, <1>3, <1>4, NewMapCounts

\* A step leaves the stem map alone, passes it through TryStem or makes a new one.
LEMMA NextMaps ==
    ASSUME MapInv, [Next]_vars
    PROVE  MapInv' /\ (map' = map \/ Keeps(map, map') \/ map'.in = << >>)
<1>0. links \subseteq Conns /\ IsFiniteSet(links) /\ MapOK(map)
  BY DEF MapInv
<1>1. CASE \/ UNCHANGED vars \/ relay_txpool_transactions
           \/ \E job \in jobs : SendPublic(job) \/ FluffJob(job) \/ FluffingJob(job)
           \/ \E t \in Txs : \/ RelayTimeComes(t) \/ Mined(t) \/ AddFromBlock(t)
                             \/ \E method \in {"local", "forward"} : Submit(t, method)
           \/ \E c \in Conns : FallsBehind(c) \/ CatchesUp(c)
           \/ \E c \in Conns, txs \in SUBSET Txs, fluff \in BOOLEAN : Receive(c, txs, fluff)
  <2>1. map' = map /\ links' = links
    BY <1>1, Zenon DEF vars, linkVars, relay_txpool_transactions, SendPublic, FluffJob, FluffingJob, Fluff,
                RelayTimeComes, Mined, AddFromBlock, Submit, FallsBehind, CatchesUp, Receive
  <2> QED
    BY <2>1 DEF MapInv
<1>2. CASE \/ \E due \in SUBSET Conns : fluff_flush(due)
           \/ \E c \in Conns : Connect(c) \/ Lose(c)
           \/ \E c \in Conns, txs \in SUBSET Txs, fluff \in BOOLEAN : ReceiveFails(c, txs, fluff)
  <2>1. PICK c : map' = map /\ (links' \in SUBSET links \/ links' = links \cup {c}) /\ links' \subseteq Conns
    BY <1>0, <1>2, Zenon DEF fluff_flush, Connect, Lose, ReceiveFails, Empty
  <2>2. IsFiniteSet(links')
    BY <1>0, <2>1, FS_Subset, FS_AddElement
  <2> QED
    BY <1>0, <2>1, <2>2, SMTT(20), Zenon DEF MapInv
<1>3. ASSUME NEW job \in jobs, StemJob(job)
      PROVE  MapInv' /\ Keeps(map, map')
  <2>1. PICK r \in TryStem(map, job.source) : map' = r.map
    BY <1>3 DEF StemJob
  <2>2. links' = links
    BY <1>3 DEF StemJob, Fluff, linkVars
  <2>3. MapOK(map') /\ Keeps(map, map')
    BY <1>0, <2>1, Tries
  <2> QED
    BY <1>0, <2>2, <2>3 DEF MapInv
<1>4. CASE start_epoch
  <2>1. map' \in NewMaps(get_out_connections) /\ links' = links
    BY <1>4 DEF start_epoch, linkVars
  <2>2. MapOK(map') /\ map'.in = << >>
    BY <1>0, <2>1, NewMapsCount
  <2> QED
    BY <1>0, <2>1, <2>2 DEF MapInv
<1>5. CASE Restart
  <2>1. map' = connection_map(<< >>) /\ links' = {}
    BY <1>5 DEF Restart, Empty
  <2>2. MapOK(map') /\ map'.in = << >>
    BY <2>1, EmptyMapCounts, Zenon
  <2> QED
    BY <2>1, <2>2, FS_EmptySet DEF MapInv
<1> QED
  BY <1>1, <1>2, <1>3, <1>4, <1>5 DEF Next, RunJob

LEMMA MapInvariant == Spec => []MapInv
<1>1. Init => MapInv
  BY EmptyMapCounts, FS_EmptySet DEF Init, MapInv
<1>2. MapInv /\ [Next]_vars => MapInv'
  BY NextMaps
<1> QED
  BY <1>1, <1>2, PTL DEF Spec

\* The counts by which select_stem shares out the stems are those of the sources,
\* for any number of stems, of sources and of lost connections: get_stem takes a
\* source from the place whose connection is gone before it counts it elsewhere.
THEOREM StemsAreCounted == Spec => []UsageIsCounted
<1>1. MapInv => UsageIsCounted
  BY DEF MapInv, MapOK, Sources, UsageIsCounted
<1> QED
  BY <1>1, MapInvariant, PTL

\* A source whose stem is open and not behind keeps it until the next epoch, also
\* through a send of another source that fails, after which update drops the stems
\* that are closed or behind and fills the gaps of the map, and get_stem is tried again.
THEOREM SourcesKeepTheirStem == Spec => StemIsKept
<1>1. MapInv /\ [Next]_vars =>
          [\A s \in DOMAIN map.in :
              LET stem == map.out[map.in[s]] IN
              stem \in links \ lagging /\ map'.in # << >> =>
                  s \in DOMAIN map'.in /\ map'.out[map'.in[s]] = stem]_vars
  BY NextMaps DEF Keeps
<1> QED
  BY <1>1, MapInvariant, PTL DEF Spec, StemIsKept
=============================================================================
