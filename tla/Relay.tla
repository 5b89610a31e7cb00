-------------------------------- MODULE Relay --------------------------------
(***************************************************************************)
(* How a node passes transactions on: levin_notify.cpp (Dandelion++),      *)
(* dandelionpp.cpp (the stem map), and the relay times of tx_pool.cpp.     *)
(*                                                                         *)
(* The state is an entry of the pool per transaction, the jobs that the    *)
(* threads have handed to the strand of the public zone, and the zone: the *)
(* epoch, the stem map, and per connection the transactions that wait to   *)
(* be sent.  Adding a transaction to the pool and relaying it are two      *)
(* steps, between which other threads run and the daemon may stop.  Peers  *)
(* send what they like, and need not pass anything on.                     *)
(*                                                                         *)
(* last_relayed_time is kept as what get_relayable_transactions makes of   *)
(* it.  "never" is the value add_tx writes, the largest there is: a stem   *)
(* transaction then waits for ever, and for the other methods              *)
(* now - last_relayed_time wraps to now + 1 while get_relay_delay, given   *)
(* -1 for the time, returns a negative number as an unsigned one, so that  *)
(* the delay never passes either.  Lifetimes (days) do not pass here, and  *)
(* anonymity networks are only where forwarded transactions come from.     *)
(***************************************************************************)
EXTENDS Integers, Sequences, FiniteSets, FiniteSetsExt

CONSTANTS
    Conns,          \* connection ids; an id is used again once nothing refers to it
    Out,            \* the outgoing ones
    Txs,
    STEMS,          \* CRYPTONOTE_DANDELIONPP_STEMS
    MAX_CALLBACKS,  \* bound on the flush callbacks of the zone
    MAX_TROUBLE,    \* bound on cut connections, refused messages, peers that fall behind,
                    \* restarts, and epochs and blocks that come while transactions are on
                    \* their way, together
    Nil             \* boost::uuids::nil_uuid()

VARIABLES
    meta,       \* the pool entries
    jobs,       \* send_txs calls on their way to the strand
    fluffing,   \* the zone is in a fluff epoch
    map,        \* the stem map
    links,      \* the open connections
    lagging,    \* the outgoing ones whose peer has fewer blocks than this node
    fluff_txs,  \* per connection, what waits to be sent
    callbacks,  \* flush_callbacks
    stranded,   \* history: transactions left without a job before their time was set
    trouble     \* how much of MAX_TROUBLE there has been

linkVars == <<links, lagging, fluff_txs>>

vars == <<meta, jobs, fluffing, map, linkVars, callbacks, stranded, trouble>>

ASSUME RelayAssumption ==
    /\ Out \subseteq Conns /\ Nil \notin Conns
    /\ STEMS \in Nat \ {0} /\ MAX_CALLBACKS \in Nat \ {0}

\* get_out_connections: peers that are behind get no stem transactions.
get_out_connections == (links \cap Out) \ lagging

Trouble == trouble < MAX_TROUBLE /\ trouble' = trouble + 1

-----------------------------------------------------------------------------
\* The pool: add_tx and set_relayed of a transaction that is valid and pays a fee.

Absent == [method |-> "absent", relay |-> "never"]

Rank(method) ==
    CASE method = "absent" -> 0 [] method = "local" -> 1 [] method = "forward" -> 2
      [] method = "stem" -> 3 [] method = "fluff" -> 4 [] method = "block" -> 5

IsBroadcast(entry) == entry.method \in {"fluff", "block"}

\* A transaction that comes by stem and is in the stem phase here has gone round
\* in a loop.
MethodFor(entry, method) == IF method = "stem" /\ entry.method = "stem" THEN "fluff" ELSE method

add_tx(entry, method) ==
    IF IsBroadcast(entry) \/ Rank(method) <= Rank(entry.method) THEN entry
    ELSE [method |-> method, relay |-> IF method = "forward" THEN "later" ELSE "never"]

\* add_tx of a transaction of a popped or alternative block.  One whose inputs are not
\* valid (now) is kept with the current time, but cannot replace an entry.
add_tx_kept_by_block(entry) ==
    {add_tx(entry, "block")} \cup IF entry = Absent THEN {[method |-> "block", relay |-> "later"]} ELSE {}

\* Mutant: the time is only set for transactions that stay in the stem phase.
set_relayed_stem_only(entry, method) ==
    LET upgraded == IF Rank(method) > Rank(entry.method) THEN method ELSE entry.method
    IN  IF entry = Absent THEN entry
        ELSE [method |-> upgraded, relay |-> IF upgraded = "stem" THEN "later" ELSE entry.relay]

\* The embargo of a stem transaction, or the delay after which a public one is
\* relayed again, begins.
set_relayed(entry, method) ==
    IF entry = Absent THEN entry
    ELSE [method |-> IF Rank(method) > Rank(entry.method) THEN method ELSE entry.method, relay |-> "later"]

on_transactions_relayed(txs, method) ==
    [t \in Txs |-> IF t \in txs THEN set_relayed(meta[t], method) ELSE meta[t]]

-----------------------------------------------------------------------------
\* The stem map: out has at most STEMS connections, or Nil where one was lost; in
\* gives every source its place in out; usage counts the sources of a place.

connection_map(out) == [out |-> out, in |-> << >>, usage |-> [i \in 1..STEMS |-> 0]]

\* Every choice of the constructor among the outgoing connections.
NewMaps(outs) == {connection_map(out) : out \in Injection(1..Min({STEMS, Cardinality(outs)}), outs)}

select_stem(m) ==
    LET used == {i \in DOMAIN m.out : m.out[i] # Nil}
    IN  {i \in used : \A j \in used : m.usage[i] <= m.usage[j]}

WithSource(m, source, i) ==
    [m EXCEPT !.in = [s \in DOMAIN m.in \cup {source} |-> IF s = source THEN i ELSE m.in[s]],
              !.usage[i] = @ + 1]

WithoutSource(m, source) ==
    [m EXCEPT !.in = [s \in DOMAIN m.in \ {source} |-> m.in[s]], !.usage[m.in[source]] = @ - 1]

\* Mutant: a source keeps its count when it is given another place.
get_stem_keeps_count(m, source) ==
    LET lost  == source \in DOMAIN m.in /\ m.out[m.in[source]] = Nil
        fresh == IF lost THEN [m EXCEPT !.in = [s \in DOMAIN m.in \ {source} |-> m.in[s]]] ELSE m
    IN  IF source \in DOMAIN m.in /\ ~lost THEN {[map |-> m, to |-> m.out[m.in[source]]]}
        ELSE IF select_stem(fresh) = {} THEN {[map |-> fresh, to |-> Nil]}
        ELSE {[map |-> WithSource(fresh, source, i), to |-> m.out[i]] : i \in select_stem(fresh)}

\* Mutant: a source is given a place anew every time.
get_stem_anew(m, source) ==
    LET fresh == IF source \in DOMAIN m.in THEN WithoutSource(m, source) ELSE m
    IN  IF select_stem(fresh) = {} THEN {[map |-> fresh, to |-> Nil]}
        ELSE {[map |-> WithSource(fresh, source, i), to |-> m.out[i]] : i \in select_stem(fresh)}

\* The outcomes of get_stem: the place of the source, chosen now if it has none or
\* has lost its connection.
get_stem(m, source) ==
    LET lost  == source \in DOMAIN m.in /\ m.out[m.in[source]] = Nil
        fresh == IF lost THEN WithoutSource(m, source) ELSE m
    IN  IF source \in DOMAIN m.in /\ ~lost THEN {[map |-> m, to |-> m.out[m.in[source]]]}
        ELSE IF select_stem(fresh) = {} THEN {[map |-> fresh, to |-> Nil]}
        ELSE {[map |-> WithSource(fresh, source, i), to |-> m.out[i]] : i \in select_stem(fresh)}

\* update: lost connections leave a gap, gaps and free places are filled in order.
update(m, current) ==
    LET kept  == [i \in DOMAIN m.out |-> IF m.out[i] \in current THEN m.out[i] ELSE Nil]
        free  == {i \in 1..STEMS : i \in DOMAIN kept => kept[i] = Nil}
        spare == current \ Range(kept)
        slots == {i \in free : Cardinality({j \in free : j < i}) < Cardinality(spare)}
        size  == Max({Len(kept)} \cup slots)
    IN  {[m EXCEPT !.out = [i \in 1..size |-> IF i \in slots THEN f[i] ELSE kept[i]]] :
            f \in Injection(slots, spare)}

\* The two tries of dandelionpp_notify, with the connections looked up again after
\* each failure; to is Nil when both have failed.
TryStem(m, source) ==
    LET retries(r) == UNION {get_stem(n, source) : n \in update(r.map, get_out_connections)}
        failed(r)  == {[map |-> n, to |-> Nil] : n \in update(r.map, get_out_connections)}
        second(r)  == IF r.to \in links THEN {r} ELSE failed(r)
        first(r)   == IF r.to \in links THEN {r} ELSE UNION {second(q) : q \in retries(r)}
    IN  UNION {first(r) : r \in get_stem(m, source)}

-----------------------------------------------------------------------------
\* The strand of the zone.

\* The transactions of a set, in some order.
InOrder(txs) == CHOOSE s \in Injection(1..Cardinality(txs), txs) : TRUE

\* fluff_notify: the transactions wait at every connection but the one they came
\* from.  A callback is queued if there is none or this one is due sooner.
fluff_notify(txs, source) ==
    LET targets == links \ {source} IN
    /\ fluff_txs' = [c \in Conns |-> IF c \in targets THEN fluff_txs[c] \o InOrder(txs) ELSE fluff_txs[c]]
    /\ \/ (targets = {} \/ callbacks > 0) /\ UNCHANGED callbacks
       \/ targets # {} /\ callbacks < MAX_CALLBACKS /\ callbacks' = callbacks + 1

\* send_txs of a transaction that is public, in the thread that calls it.
SendPublic(job) ==
    /\ job \in jobs /\ job.how = "fluff"
    /\ jobs' = (jobs \ {job}) \cup {[job EXCEPT !.how = "queued"]}
    /\ meta' = on_transactions_relayed(job.txs, "fluff")
    /\ UNCHANGED <<fluffing, map, linkVars, callbacks, stranded, trouble>>

\* The rest of it, on the strand.
FluffJob(job) ==
    /\ job \in jobs /\ jobs' = jobs \ {job}
    /\ job.how = "queued"
    /\ fluff_notify(job.txs, job.source)
    /\ UNCHANGED <<meta, fluffing, map, links, lagging, stranded, trouble>>

\* The end of dandelionpp_notify.
Fluff(job) ==
    /\ meta' = on_transactions_relayed(job.txs, "fluff")
    /\ fluff_notify(job.txs, job.source)
    /\ UNCHANGED <<fluffing, links, lagging, stranded, trouble>>

\* dandelionpp_notify in a fluff epoch.
FluffingJob(job) ==
    /\ job \in jobs /\ jobs' = jobs \ {job}
    /\ job.how = "stem" /\ fluffing
    /\ Fluff(job)
    /\ UNCHANGED map

\* dandelionpp_notify outside of a fluff epoch, or for the node's own transactions.  It
\* marks them as stem before it tries, which a later mark as fluff overrides.
StemJob(job) ==
    /\ job \in jobs /\ jobs' = jobs \ {job}
    /\ job.how = "local" \/ (job.how = "stem" /\ ~fluffing)
    /\ \E r \in TryStem(map, job.source) :
          /\ map' = r.map
          /\ \/ r.to = Nil /\ Fluff(job)
             \/ /\ r.to # Nil
                /\ meta' = on_transactions_relayed(job.txs, "stem")
                /\ UNCHANGED <<fluffing, linkVars, callbacks, stranded, trouble>>

Waiting == {c \in Conns : fluff_txs[c] # << >>}

HasDuplicate(c) == ~IsInjective(fluff_txs[c])

\* on_connection_close, after the messages to the connections sent were taken.  Nothing
\* of a closed connection stays.
Empty(sent, closed) ==
    /\ links' = links \ closed /\ lagging' = lagging \ closed
    /\ fluff_txs' = [c \in Conns |-> IF c \in sent \cup closed THEN << >> ELSE fluff_txs[c]]

\* Mutant: what is not due yet gets no callback of its own.
fluff_flush_once(due) ==
    /\ callbacks > 0 /\ callbacks' = callbacks - 1
    /\ due \subseteq Waiting /\ (callbacks > 1 => due = {})
    /\ Empty(due, {c \in due : HasDuplicate(c)})
    /\ UNCHANGED <<meta, jobs, fluffing, map, stranded, trouble>>

\* fluff_flush: only the last callback counts; it sends what is due (all that waits
\* if its timer was cancelled) and queues another one for the rest.  A peer that gets
\* a transaction twice in a message drops the connection.
fluff_flush(due) ==
    /\ callbacks > 0
    /\ due \subseteq Waiting /\ (callbacks > 1 => due = {})
    /\ callbacks' = IF callbacks = 1 /\ Waiting # due THEN 1 ELSE callbacks - 1
    /\ Empty(due, {c \in due : HasDuplicate(c)})
    /\ UNCHANGED <<meta, jobs, fluffing, map, stranded, trouble>>

\* Nothing is on its way.  Epochs last, and public transactions wait to be relayed
\* again, for minutes: long compared to the rest.
Quiet == jobs = {} /\ Waiting = {}

\* An epoch that begins while transactions are on their way counts as trouble.
start_epoch ==
    /\ map' \in NewMaps(get_out_connections) /\ fluffing' \in BOOLEAN
    /\ IF Quiet THEN UNCHANGED trouble ELSE Trouble
    /\ UNCHANGED <<meta, jobs, linkVars, callbacks, stranded>>

-----------------------------------------------------------------------------
\* The threads that hand transactions to the strand.

Job(txs, source, how) == IF txs = {} THEN {} ELSE {[txs |-> txs, source |-> source, how |-> how]}

\* The id of a transaction that has left the pool may be used for another one.
Unused(t) == /\ meta[t] = Absent
             /\ \A job \in jobs : t \notin job.txs
             /\ \A c \in Conns : t \notin Range(fluff_txs[c])

\* A job that will set the relay time of a transaction: it is done with the pool when
\* it is queued for the strand.
Sets(job, t) == t \in job.txs /\ job.how # "queued"

\* The transactions of the set that only a later message or block can help.
Left(txs) == {t \in txs : meta'[t].relay = "never" /\ \A job \in jobs' : ~Sets(job, t)}

\* A wallet sends a transaction, or one comes over an anonymity network.
Submit(t, method) ==
    /\ Unused(t)
    /\ meta' = [meta EXCEPT ![t] = add_tx(@, method)]
    /\ jobs' = jobs \cup IF method = "local" THEN Job({t}, Nil, "local") ELSE {}
    /\ UNCHANGED <<fluffing, map, linkVars, callbacks, stranded, trouble>>

\* The transactions of a message that are added to the pool, and how each is.
NewTxs(txs) == {t \in txs : ~IsBroadcast(meta[t])}

MethodOf(t, fluff) == MethodFor(meta[t], IF fluff THEN "fluff" ELSE "stem")

AddTxs(txs, fluff) ==
    /\ NewTxs(txs) # {} /\ \A t \in NewTxs(txs) : meta[t] = Absent => Unused(t)
    /\ meta' = [t \in Txs |-> IF t \in NewTxs(txs) THEN add_tx(meta[t], MethodOf(t, fluff)) ELSE meta[t]]

\* handle_notify_new_transactions, on a synchronised node.
Receive(c, txs, fluff) ==
    /\ c \in links /\ AddTxs(txs, fluff)
    /\ jobs' = jobs \cup Job({t \in NewTxs(txs) : MethodOf(t, fluff) = "stem"}, c, "stem")
                    \cup Job({t \in NewTxs(txs) : MethodOf(t, fluff) = "fluff"}, c, "fluff")
    /\ stranded' = stranded \ NewTxs(txs)
    /\ UNCHANGED <<fluffing, map, linkVars, callbacks, trouble>>

\* The same when a transaction after those of txs is not valid: the connection is
\* dropped, and the handler returns before it relays the ones it has added.
ReceiveFails(c, txs, fluff) ==
    /\ c \in links /\ AddTxs(txs, fluff) /\ Trouble
    /\ Empty({}, {c})
    /\ UNCHANGED <<jobs, fluffing, map, callbacks>>
    /\ stranded' = stranded \cup Left(NewTxs(txs))

\* A transaction comes with an alternative block or goes back from a popped one; "we
\* assume that if they were in a block, the transactions are already known to the
\* network as a whole", and nothing relays it.
AddFromBlock(t) ==
    /\ ~IsBroadcast(meta[t])
    /\ \E entry \in add_tx_kept_by_block(meta[t]) : meta' = [meta EXCEPT ![t] = entry]
    /\ IF Quiet THEN UNCHANGED trouble ELSE Trouble
    /\ UNCHANGED <<jobs, fluffing, map, linkVars, callbacks>>
    /\ stranded' = stranded \cup Left({t})

\* take_tx: a block that is added contains the transaction.
Mined(t) ==
    /\ meta[t] # Absent
    /\ meta' = [meta EXCEPT ![t] = Absent]
    /\ stranded' = stranded \ {t}
    /\ IF Quiet THEN UNCHANGED trouble ELSE Trouble
    /\ UNCHANGED <<jobs, fluffing, map, linkVars, callbacks>>

\* An embargo, the delay of a forwarded transaction or a relay delay ends.
RelayTimeComes(t) ==
    /\ meta[t].relay = "later"
    /\ IsBroadcast(meta[t]) => Quiet
    /\ meta' = [meta EXCEPT ![t].relay = "now"]
    /\ UNCHANGED <<jobs, fluffing, map, linkVars, callbacks, stranded, trouble>>

\* Mutant: a stem transaction whose embargo has ended is not relayed.
relay_public_transactions ==
    LET due       == {t \in Txs : meta[t].relay = "now" /\ meta[t].method # "stem"}
        forwarded == {t \in due : meta[t].method = "forward"}
    IN  /\ due # {} /\ \A job \in jobs : job.source = Nil => job.how = "local"
        /\ jobs' = jobs \cup Job(due \ forwarded, Nil, "fluff") \cup Job(forwarded, Nil, "stem")
        /\ UNCHANGED <<meta, fluffing, map, linkVars, callbacks, stranded, trouble>>

\* relay_txpool_transactions with get_relayable_transactions, whose new timestamps
\* are not committed.
relay_txpool_transactions ==
    LET due       == {t \in Txs : meta[t].relay = "now"}
        forwarded == {t \in due : meta[t].method = "forward"}
    IN  /\ due # {} /\ \A job \in jobs : job.source = Nil => job.how = "local"
        /\ jobs' = jobs \cup Job(due \ forwarded, Nil, "fluff") \cup Job(forwarded, Nil, "stem")
        /\ UNCHANGED <<meta, fluffing, map, linkVars, callbacks, stranded, trouble>>

-----------------------------------------------------------------------------
\* Connections and restarts.

Lose(c) ==
    /\ c \in links /\ Trouble
    /\ Empty({}, {c})
    /\ UNCHANGED <<meta, jobs, fluffing, map, callbacks, stranded>>

\* on_handshake_complete.
Connect(c) ==
    /\ c \notin links \cup DOMAIN map.in \cup Range(map.out)
    /\ \A job \in jobs : job.source # c
    /\ links' = links \cup {c}
    /\ UNCHANGED <<meta, jobs, fluffing, map, lagging, fluff_txs, callbacks, stranded, trouble>>

\* Blocks come to this node before a peer has them, or to the peer.
FallsBehind(c) ==
    /\ c \in (links \cap Out) \ lagging /\ Trouble
    /\ lagging' = lagging \cup {c}
    /\ UNCHANGED <<meta, jobs, fluffing, map, links, fluff_txs, callbacks, stranded>>

CatchesUp(c) ==
    /\ c \in lagging /\ lagging' = lagging \ {c}
    /\ UNCHANGED <<meta, jobs, fluffing, map, links, fluff_txs, callbacks, stranded, trouble>>

\* The daemon stops and starts again.  The pool is in the database.
Restart ==
    /\ Trouble
    /\ jobs' = {} /\ callbacks' = 0 /\ fluffing' \in BOOLEAN
    /\ map' = connection_map(<< >>)
    /\ Empty({}, links)
    /\ UNCHANGED meta
    /\ stranded' = Left({t \in Txs : meta[t] # Absent})

-----------------------------------------------------------------------------
Init ==
    /\ meta = [t \in Txs |-> Absent]
    /\ jobs = {} /\ fluffing \in BOOLEAN /\ map = connection_map(<< >>)
    /\ links = {} /\ lagging = {} /\ stranded = {}
    /\ fluff_txs = [c \in Conns |-> << >>]
    /\ callbacks = 0 /\ trouble = 0

RunJob == \E job \in jobs : SendPublic(job) \/ FluffJob(job) \/ FluffingJob(job) \/ StemJob(job)

Next ==
    \/ RunJob \/ start_epoch \/ relay_txpool_transactions \/ Restart
    \/ \E due \in SUBSET Conns : fluff_flush(due)
    \/ \E t \in Txs : \/ RelayTimeComes(t) \/ Mined(t) \/ AddFromBlock(t)
                      \/ \E method \in {"local", "forward"} : Submit(t, method)
    \/ \E c \in Conns : \/ Connect(c) \/ Lose(c) \/ FallsBehind(c) \/ CatchesUp(c)
                        \/ \E txs \in SUBSET Txs, fluff \in BOOLEAN :
                               Receive(c, txs, fluff) \/ ReceiveFails(c, txs, fluff)

\* Threads run their jobs, timers fire, epochs end, and connections are opened again.
\* A callback that finds nothing due and queues itself again is no step here, so the
\* callbacks that are taken send something in the end.
Fairness ==
    /\ WF_vars(RunJob) /\ WF_vars(relay_txpool_transactions)
    /\ WF_vars(\E due \in SUBSET Conns : fluff_flush(due))
    /\ WF_vars(\E t \in Txs : RelayTimeComes(t))
    /\ WF_vars(\E c \in Conns : Connect(c))
    /\ SF_vars(start_epoch)

Spec == Init /\ [][Next]_vars /\ Fairness

-----------------------------------------------------------------------------
\* Every transaction in the pool has a time at which it is relayed or a thread that
\* is about to set one.  add_tx leaves the largest time and says that "the `set_relayed`
\* function will adjust the time accordingly later"; the code does not in three cases,
\* which stranded holds and which are all there are: a later transaction of the message
\* was refused, the transaction came from a block, or the daemon stopped in between.
EveryTxIsScheduled ==
    \A t \in Txs : \/ meta[t] = Absent \/ meta[t].relay # "never" \/ t \in stranded
                   \/ \E job \in jobs : Sets(job, t)

\* Transactions that wait at a connection are never without a flush callback, in
\* whichever order callbacks are queued, overtaken and run, and none wait at a
\* connection that was closed.
QueuedIsFlushed == Waiting \subseteq links /\ (Waiting # {} => callbacks > 0)

\* The counts by which the stem map shares out its stems are those of its sources,
\* also after connections were lost and replaced.
UsageIsCounted ==
    \A i \in 1..STEMS : map.usage[i] = Cardinality({s \in DOMAIN map.in : map.in[s] = i})

\* Within an epoch the transactions of a source all take the same stem, as long as
\* that connection is open and its peer does not fall behind this node.
StemIsKept ==
    [][\A s \in DOMAIN map.in :
          LET stem == map.out[map.in[s]] IN
          stem \in links \ lagging /\ map'.in # << >> =>
              s \in DOMAIN map'.in /\ map'.out[map'.in[s]] = stem]_vars

Sent(t, c) == t \in Range(fluff_txs[c]) /\ ~HasDuplicate(c) /\ fluff_txs'[c] = << >> /\ c \in links'

\* A transaction that stays in the pool is sent to every peer with the fluff flag
\* again and again, whatever became of it on its stem, also over connections that
\* were opened later; unless it was left without a job before its time was set (by a
\* refused message, a block or a restart) and none of the ways to get one has come.
Broadcast ==
    \A t \in Txs, c \in Conns :
        <>[](meta[t] # Absent) => <>[](t \in stranded) \/ []<><<Sent(t, c)>>_vars
=============================================================================
