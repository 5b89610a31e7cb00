-------------------------------- MODULE Sync --------------------------------
(***************************************************************************)
(* Downloading the chain: the synchronisation part of                      *)
(* cryptonote_protocol_handler.inl on top of the block queue.  Every       *)
(* connection has a context; its handlers run one at a time (the strand of *)
(* the connection), those of different connections run concurrently.  A    *)
(* handler is cut where it lets go of what it has read: before it tries    *)
(* m_sync_lock, between two turns of the loop that adds blocks, between    *)
(* adding a span and removing it from the queue, before                    *)
(* request_missing_objects, and between reading the next span and          *)
(* resetting its time.  pc is that place.                                  *)
(*                                                                         *)
(* Peers keep their chain, have pruned nothing, answer what they have, and *)
(* one block is as much work as another.  The connections are outgoing,    *)
(* and there are no compiled block hashes.  A request is kept as the       *)
(* answer it will get.  Time passes in steps: a request or a span gets old *)
(* enough for its threshold.  Any span that makes the chain longer may     *)
(* reach a new stripe.                                                     *)
(***************************************************************************)
EXTENDS BlockQueue

CONSTANTS
    Peers,
    Conns,              \* connection ids; an id is used again once nothing refers to it
    Host,               \* the peer at the other end of a connection
    Chain,              \* the main chain of a peer, from the genesis block
    Bad,                \* blocks that fail verification
    Malformed,          \* those that prepare_handle_incoming_blocks already refuses
    Slow,               \* peers whose answers may come late, or never
    ids_limit,          \* BLOCKS_IDS_SYNCHRONIZING_DEFAULT_COUNT
    count_limit,        \* get_block_sync_size, blocks in a request
    NSPANS_THRESHOLD,   \* BLOCK_QUEUE_NSPANS_THRESHOLD
    SIZE_THRESHOLD,     \* BLOCK_QUEUE_SIZE_THRESHOLD, in blocks
    NEAR_BLOCKS,        \* BLOCK_QUEUE_FORCE_DOWNLOAD_NEAR_BLOCKS
    MAX_CALLBACKS,      \* bound on the callbacks the timers queue for a connection
    MAX_TROUBLE,        \* bound on connections to slow peers, connections the network
                        \* cuts, and requests that peers send us, together
    NoOne

VARIABLES
    tip,            \* the top block of the core
    known,          \* blocks in the database, on the main chain or not
    invalid,        \* m_invalid_blocks
    target,         \* the target height of the core
    queue,          \* m_block_queue
    ctx,            \* the contexts of the connections
    wire,           \* answers on their way to us
    lock,           \* the connection whose handler holds m_sync_lock
    add_end,        \* m_last_add_end_time: never, new, or DROP_ON_SYNC_WEDGE_THRESHOLD old
    synchronized,   \* m_synchronized
    refused,        \* history: a span has been refused
    trouble         \* how much of MAX_TROUBLE there has been

vars == <<tip, known, invalid, target, queue, ctx, wire, lock, add_end, synchronized, refused, trouble>>

coreVars == <<tip, known, invalid, refused>>

-----------------------------------------------------------------------------
\* The core.

Last(s) == s[Len(s)]

Reverse(s) == [i \in 1..Len(s) |-> s[Len(s) + 1 - i]]

Blocks == UNION {Range(Chain[p]) : p \in Peers}

PathTo == [b \in Blocks |->
    LET p == CHOOSE p \in Peers : b \in Range(Chain[p])
    IN  SubSeq(Chain[p], 1, CHOOSE i \in DOMAIN Chain[p] : Chain[p][i] = b)]

HeightOf(b) == Len(PathTo[b]) - 1

ParentOf(b) == PathTo[b][Len(PathTo[b]) - 1]

Genesis == CHOOSE b \in Blocks : Len(PathTo[b]) = 1

get_current_blockchain_height == HeightOf(tip) + 1

have_block(b) == b \in known \cup invalid

ASSUME SyncAssumption ==
    /\ Host \in [Conns -> Peers] /\ Slow \subseteq Peers /\ Malformed \subseteq Bad
    /\ DOMAIN Chain = Peers /\ \A p \in Peers : Chain[p] \in Seq(Range(Chain[p])) /\ Len(Chain[p]) > 0
    /\ \E p \in Peers : \A o \in Peers : Len(Chain[o]) <= Len(Chain[p])
    /\ \A p, o \in Peers : \A i \in DOMAIN Chain[p] : \A j \in DOMAIN Chain[o] :
          Chain[p][i] = Chain[o][j] => SubSeq(Chain[p], 1, i) = SubSeq(Chain[o], 1, j)
    /\ count_limit \in Nat \ {0}

-----------------------------------------------------------------------------
\* Contexts of connections.

NoConnection ==
    [state |-> "closed", closing |-> FALSE, needed |-> << >>, requested |-> {}, remote |-> 0,
     last_response |-> 0, time |-> "none", last_known |-> NoOne, score |-> 0, expect |-> "none",
     expect_height |-> 0, num_requested |-> FALSE, idle |-> FALSE, new_stripe |-> FALSE, callbacks |-> 0,
     pc |-> "idle", force |-> FALSE, via |-> "add", span |-> NoSpan, owner |-> NoOne]

Infinite == Max({Len(Chain[p]) : p \in Peers}) + 1

live_connections == {c \in Conns : ctx[c].state # "closed"}

\* No handler of the connection runs, and the next one may start.
Ready(c) == ctx[c].state # "closed" /\ ~ctx[c].closing /\ ctx[c].pc = "idle"

WithCallback(x) == [x EXCEPT !.callbacks = @ + 1]

InState(x, state) == [x EXCEPT !.state = state]

FirstNeeded(x) == x.last_response - Len(x.needed) + 1

-----------------------------------------------------------------------------
\* request_missing_objects.  An outcome is the context and the queue it leaves,
\* the answer to the request it sends, and whether on_connection_synchronized ran.

Outcome(x, q) == [x |-> x, q |-> q, answer |-> << >>, synced |-> FALSE, ok |-> TRUE]

\* return false: the caller drops the connection.
Fail(c, x, q) ==
    [Outcome([x EXCEPT !.closing = TRUE], flush_spans(q, c, FALSE)) EXCEPT !.ok = FALSE]

Synchronised(x, q, synced) == [Outcome(InState(x, "normal"), q) EXCEPT !.synced = synced]

\* The hash lists are asked for from the top of our chain, or from the last hash
\* known of that peer.  The peer answers from the first hash it has.
AskChain(c, x, q, from_last_known) ==
    LET chain   == Chain[Host[c]]
        pushed  == from_last_known /\ x.last_known \notin {NoOne, tip}
        history == (IF pushed THEN <<x.last_known>> ELSE << >>) \o Reverse(PathTo[tip])
        split   == HeightOf(SelectSeq(history, LAMBDA b : b \in Range(chain))[1])
        ids     == SubSeq(chain, split + 1, Min({Len(chain), split + ids_limit}))
        asked   == [x EXCEPT !.time = "new", !.expect = "chain",
                       !.expect_height = IF pushed THEN Infinite ELSE get_current_blockchain_height]
    IN  [Outcome(asked, q) EXCEPT
            !.answer = <<[type |-> "chain", start |-> split, ids |-> ids, total |-> Len(chain)]>>]

AskObjects(c, x, q, span) ==
    LET chain  == Chain[Host[c]]
        blocks == SelectSeq(span.hashes, LAMBDA b : b \in Range(chain))
        asked  == [x EXCEPT !.time = "new", !.expect = "objects", !.expect_height = span.start,
                      !.requested = @ \cup Range(span.hashes), !.num_requested = TRUE]
    IN  [Outcome(asked, q) EXCEPT
            !.answer = <<[type |-> "objects", blocks |-> blocks, total |-> Len(chain)]>>]

skip_unneeded_hashes(x, q, check_block_queue) ==
    LET had(b) == have_block(b) \/ (check_block_queue /\ b \in q.have)
        skip   == Max({k \in 0..Len(x.needed) : \A i \in 1..k : had(x.needed[i])})
    IN  [skipped |-> skip > 0,
         x |-> [x EXCEPT !.needed = SubSeq(@, skip + 1, Len(@)),
                         !.last_known = IF skip > 0 /\ skip = Len(x.needed) THEN x.needed[skip] ELSE @]]

\* The peer of the next span stalls or is much slower than a connection in standby:
\* faster.  Its context is gone, or the span has waited too long: late.
should_download_next_span(x, q, standby, faster) ==
    LET height == get_current_blockchain_height
        first  == q.spans[FirstStart(q)]
    IN  /\ x.remote > height
        /\ \/ ~has_next_span(q, height)
           \/ ~IsFilled(first) /\ (first.late \/ (standby /\ faster))

NothingLeft(skip) == skip.skipped /\ skip.x.needed = << >> /\ ~skip.x.num_requested

\* Mutant: the height is not compared with the target.
AllDoneUnchecked(c, x, q) ==
    IF x.remote > get_next_needed_height(q, get_current_blockchain_height) THEN Fail(c, x, q)
    ELSE Synchronised(x, q, TRUE)

AllDone(c, x, q) ==
    IF x.remote > get_next_needed_height(q, get_current_blockchain_height) THEN Fail(c, x, q)
    ELSE Synchronised(x, q, get_current_blockchain_height >= target)

\* The label skip: there is nothing to ask for among the hashes we know of.
NothingKnown(c, x, q) ==
    LET y == [x EXCEPT !.needed = << >>] IN
    IF get_current_blockchain_height < target /\ lock = NoOne /\ filled_starts(q) # {}
    THEN Outcome(WithCallback(InState(y, "standby")), q)
    ELSE IF y.last_response < y.remote - 1 THEN AskChain(c, y, q, TRUE)
    ELSE IF y.last_response # y.remote - 1 \/ y.requested # {} THEN Fail(c, y, q)
    ELSE Synchronised(y, q, y.remote >= target /\ get_current_blockchain_height >= target)

\* reserve is a span of the hashes the connection still needs, next the first span
\* of the queue if it is a scheduled one.
RequestSpan(c, x, q, force, next, reserve) ==
    LET used   == reserve.span.start + reserve.span.n - FirstNeeded(x)
        height == get_current_blockchain_height
    IN  IF reserve.span # NoSpan
        THEN AskObjects(c, [x EXCEPT !.needed = SubSeq(@, used + 1, Len(@))], reserve.queue, reserve.span)
        ELSE IF ~force /\ next # NoSpan
        THEN AskObjects(c, [x EXCEPT !.needed = SelectSeq(@, LAMBDA b : b \notin Range(next.hashes))], q, next)
        ELSE IF Max({height, get_next_needed_height(q, height)}) >= target
        THEN Outcome(InState(x, "normal"), q)
        ELSE Fail(c, x, q)

RequestNeeded(c, skip, q, force) ==
    {IF NothingLeft(skip) THEN AllDone(c, skip.x, q)
     ELSE RequestSpan(c, skip.x, q, force, get_next_span_if_scheduled(q), reserve) :
        reserve \in {reserve_span(q, skip.x.last_response, count_limit, c, skip.x.needed)}}

RequestObjects(c, x, q, force) ==
    LET next == get_next_span_if_scheduled(q) IN
    IF x.needed = << >> /\ ~force THEN {NothingKnown(c, x, q)}
    ELSE IF force /\ next # NoSpan THEN {Outcome([x EXCEPT !.pc = "reset", !.span = next], q)}
    ELSE IF x.last_response + 1 < Len(x.needed) THEN {NothingKnown(c, [x EXCEPT !.last_response = 0], q)}
    ELSE UNION {RequestNeeded(c, skip, q, force) : skip \in {skip_unneeded_hashes(x, q, FALSE)}}

\* The block queue is full enough, or not: wait, or proceed, for any relative speed
\* of the peers.
WaitOrProceed(c, skip, q) ==
    LET x       == skip.x
        height  == get_current_blockchain_height
        next_needed   == get_next_needed_height(q, height)
        next_block    == IF x.needed = << >> THEN next_needed ELSE FirstNeeded(x)
        queue_proceed == get_num_filled_spans(q) < NSPANS_THRESHOLD \/ get_data_size(q) < SIZE_THRESHOLD
        stripe_proceed_main == next_block < height + NEAR_BLOCKS \/ next_needed < height + NEAR_BLOCKS
        resumes == {stripe_proceed_main /\ should_download_next_span(x, q, TRUE, faster) : faster \in BOOLEAN}
    IN  IF NothingLeft(skip) THEN {AllDone(c, x, q)}
        ELSE IF stripe_proceed_main \/ queue_proceed
        THEN UNION {RequestObjects(c, InState(x, "synchronizing"), q, force) : force \in resumes}
        ELSE IF lock = NoOne /\ has_next_span(q, height) /\ IsFilled(q.spans[FirstStart(q)])
        THEN {Outcome(WithCallback(InState(x, "standby")), q)}
        ELSE IF lock = NoOne /\ add_end = "old" THEN {Fail(c, x, q)}
        ELSE {Outcome(InState(x, "standby"), q)}

\* The outcomes of request_missing_objects.
request_missing_objects(c, x, force) ==
    UNION {IF force THEN RequestObjects(c, x, q, TRUE)
           ELSE UNION {WaitOrProceed(c, skip, q) : skip \in {skip_unneeded_hashes(x, q, TRUE)}} :
              q \in {flush_stale_spans(queue, live_connections)}}

\* The rest of a handler, after request_missing_objects.
Finish(c, unread, r) ==
    /\ queue' = r.q
    /\ ctx' = [ctx EXCEPT ![c] = r.x]
    /\ wire' = [wire EXCEPT ![c] = unread \o r.answer]
    /\ synchronized' = (synchronized \/ r.synced)

\* The end of handle_response_chain_entry, or of try_add_next_blocks, unless
\* request_missing_objects stops to reset the time of the next span.
FinishVia(c, unread, r) ==
    LET chain == r.ok /\ r.x.via = "chain" /\ r.x.pc = "idle" IN
    /\ Finish(c, unread, IF chain THEN [r EXCEPT !.x.num_requested = FALSE, !.x.via = "add"] ELSE r)
    /\ target' = IF chain THEN Max({target, r.x.remote}) ELSE target

-----------------------------------------------------------------------------
\* Connections come and go.

\* process_payload_sync_data, with the handshake and every timed sync after it.
SyncData(c, x, is_initial) ==
    LET chain  == Chain[Host[c]]
        height == get_current_blockchain_height
        aim    == IF target = 0 THEN height ELSE target
        y      == [x EXCEPT !.remote = Len(chain)]
        have   == have_block(Last(chain))
    IN  /\ ctx' = [ctx EXCEPT ![c] =
                      IF have THEN InState(y, "normal")
                      ELSE [WithCallback(InState(y, "synchronizing")) EXCEPT !.num_requested = FALSE]]
        /\ synchronized' = (synchronized \/ (have /\ is_initial /\ Len(chain) >= aim /\ aim = height))
        /\ target' = IF ~have /\ Len(chain) > aim THEN Len(chain) ELSE target
        /\ add_end' = IF ~have /\ Len(chain) > aim /\ target = 0 THEN "never" ELSE add_end
        /\ UNCHANGED <<coreVars, queue, wire, lock>>

\* No span and no handler refers to the connection id.
Unused(c) ==
    /\ ctx[c].state = "closed"
    /\ \A h \in Starts(queue) : queue.spans[h].conn # c
    /\ \A d \in Conns : ctx[d].owner # c

Trouble == trouble < MAX_TROUBLE /\ trouble' = trouble + 1

\* One connection to a peer at a time, with the first free id.
Connect(c) ==
    /\ Unused(c)
    /\ \A d \in live_connections : Host[d] # Host[c]
    /\ \A d \in Conns : Host[d] = Host[c] /\ Unused(d) => c <= d
    /\ IF Host[c] \in Slow THEN Trouble ELSE UNCHANGED trouble
    /\ SyncData(c, NoConnection, TRUE)

TimedSync(c) ==
    /\ Ready(c) /\ ctx[c].state # "synchronizing" /\ ctx[c].callbacks < MAX_CALLBACKS
    /\ SyncData(c, ctx[c], FALSE)
    /\ UNCHANGED trouble

\* The network cuts a connection.
Lose(c) ==
    /\ ctx[c].state # "closed" /\ ~ctx[c].closing
    /\ Trouble
    /\ ctx' = [ctx EXCEPT ![c].closing = TRUE]
    /\ UNCHANGED <<coreVars, target, queue, wire, lock, add_end, synchronized>>

\* The socket is closed once no handler of the connection runs.
on_connection_close(c) ==
    /\ ctx[c].closing /\ ctx[c].pc \in {"idle", "thrown"}
    /\ target' = Min({target, Max({0} \cup {ctx[d].remote : d \in live_connections \ {c}})})
    /\ queue' = flush_spans(queue, c, FALSE)
    /\ ctx' = [ctx EXCEPT ![c] = NoConnection]
    /\ wire' = [wire EXCEPT ![c] = << >>]
    /\ UNCHANGED <<coreVars, lock, add_end, synchronized, trouble>>

\* handle_request_get_objects: the peer asks us for blocks.
handle_request_get_objects(c) ==
    /\ Ready(c) /\ ctx[c].time # "new"
    /\ Trouble
    /\ ctx' = [ctx EXCEPT ![c].time = "new"]
    /\ UNCHANGED <<coreVars, target, queue, wire, lock, add_end, synchronized>>

-----------------------------------------------------------------------------
\* Time.

\* NON_RESPONSIVE_PEER_KICK_TIME after a request, IDLE_PEER_KICK_TIME without one.
RequestAges(c) ==
    /\ ctx[c].time = "new"
    /\ ctx[c].expect = "none" \/ Host[c] \in Slow
    /\ ctx' = [ctx EXCEPT ![c].time = "old"]
    /\ UNCHANGED <<coreVars, target, queue, wire, lock, add_end, synchronized, trouble>>

\* REQUEST_NEXT_SCHEDULED_SPAN_THRESHOLD.
SpanAges ==
    /\ Starts(queue) # {}
    /\ ~IsFilled(queue.spans[FirstStart(queue)]) /\ ~queue.spans[FirstStart(queue)].late
    /\ queue' = [queue EXCEPT !.spans[FirstStart(queue)].late = TRUE]
    /\ UNCHANGED <<coreVars, target, ctx, wire, lock, add_end, synchronized, trouble>>

AddEndAges ==
    /\ add_end = "new" /\ add_end' = "old"
    /\ UNCHANGED <<coreVars, target, queue, ctx, wire, lock, synchronized, trouble>>

kick_idle_peers(c) ==
    /\ ctx[c].state = "synchronizing" /\ ctx[c].time = "old" /\ ctx[c].callbacks < MAX_CALLBACKS
    /\ ctx' = [ctx EXCEPT ![c] = [WithCallback(@) EXCEPT !.idle = TRUE]]
    /\ UNCHANGED <<coreVars, target, queue, wire, lock, add_end, synchronized, trouble>>

check_standby_peers(c) ==
    /\ ctx[c].state = "standby" /\ ctx[c].callbacks < MAX_CALLBACKS
    /\ ctx' = [ctx EXCEPT ![c] = WithCallback(@)]
    /\ UNCHANGED <<coreVars, target, queue, wire, lock, add_end, synchronized, trouble>>

-----------------------------------------------------------------------------
\* The handlers.

\* A kick: an idle connection goes to standby, or is dropped the second time.  A new
\* stripe: a connection that is done synchronises again.
on_callback(c) ==
    LET x0   == [ctx[c] EXCEPT !.callbacks = @ - 1, !.idle = FALSE, !.new_stripe = FALSE]
        kick == ctx[c].idle /\ x0.state = "synchronizing" /\ x0.time = "old"
        x    == IF kick THEN [x0 EXCEPT !.score = @ - 1, !.time = "none", !.expect = "none",
                                        !.expect_height = 0, !.requested = {}, !.state = "standby"]
                ELSE IF ctx[c].new_stripe /\ x0.state = "normal" THEN InState(x0, "synchronizing")
                ELSE x0
        r    == IF kick /\ x0.score < 0 THEN Fail(c, x0, queue)
                ELSE IF x.state = "synchronizing" /\ x.time = "none"
                THEN AskChain(c, [x EXCEPT !.needed = << >>], queue, FALSE)
                ELSE IF x.state = "standby"
                THEN Outcome([x EXCEPT !.state = "synchronizing", !.pc = "try"], queue)
                ELSE Outcome(x, queue)
    IN  /\ Ready(c) /\ ctx[c].callbacks > 0
        /\ \E outcome \in {r} : Finish(c, wire[c], outcome)
        /\ UNCHANGED <<coreVars, target, lock, add_end, trouble>>

Answered(c, type) == Ready(c) /\ wire[c] # << >> /\ Head(wire[c]).type = type

\* The hashes of a chain entry: the first is known, and a block we have does not
\* come after one we do not have.
UsableHashes(ids) ==
    /\ have_block(ids[1]) \/ ids[1] \in queue.requested \cup queue.have
    /\ \A i \in 2..Len(ids) : ids[i] \notin invalid
    /\ \A i, j \in 1..Len(ids) : i < j /\ ~have_block(ids[i]) => ~have_block(ids[j])

handle_response_chain_entry(c) ==
    LET a == Head(wire[c])
        x == [ctx[c] EXCEPT !.expect = "none", !.time = "none", !.remote = a.total, !.needed = a.ids,
                            !.last_response = a.start + Len(a.ids) - 1, !.via = "chain"]
        usable == /\ ctx[c].expect = "chain"
                  /\ a.start + 1 <= ctx[c].expect_height
                  /\ UsableHashes(a.ids)
    IN  /\ Answered(c, "chain")
        /\ \E r \in IF usable THEN request_missing_objects(c, x, FALSE) ELSE {Fail(c, ctx[c], queue)} :
              FinishVia(c, Tail(wire[c]), r)
        /\ UNCHANGED <<coreVars, lock, add_end, trouble>>

\* The blocks are those asked for, all of them, and go into the queue.
handle_response_get_objects(c) ==
    LET a == Head(wire[c])
        x == [ctx[c] EXCEPT !.expect = "none", !.time = "none", !.remote = a.total]
        current == /\ ctx[c].expect = "objects" /\ a.blocks # << >>
                   /\ a.total >= x.last_response
        start  == HeightOf(a.blocks[1])
        usable == /\ start <= x.expect_height
                  /\ Range(a.blocks) = x.requested
        y      == [x EXCEPT !.requested = {}, !.last_known = Last(a.blocks), !.pc = "try"]
    IN  /\ Answered(c, "objects")
        /\ \E r \in {IF ~current THEN Fail(c, ctx[c], queue)
                    ELSE IF ~usable THEN Fail(c, x, queue)
                    ELSE Outcome(y, add_blocks(queue, start, a.blocks, c))} : Finish(c, Tail(wire[c]), r)
        /\ target' = IF current THEN Max({target, a.total}) ELSE target
        /\ UNCHANGED <<coreVars, lock, add_end, trouble>>

-----------------------------------------------------------------------------
\* try_add_next_blocks.

At(c, pc) == ctx[c].pc = pc

GoTo(c, pc) == ctx' = [ctx EXCEPT ![c].pc = pc]

\* Mutant: a handler that does not get the lock ends.
TryLockOrEnd(c) ==
    /\ At(c, "try")
    /\ \/ lock = NoOne /\ lock' = c /\ GoTo(c, "loop")
       \/ lock # NoOne /\ UNCHANGED lock /\ GoTo(c, "idle")
    /\ UNCHANGED <<coreVars, target, queue, wire, add_end, synchronized, trouble>>

TryLock(c) ==
    /\ At(c, "try")
    /\ \/ lock = NoOne /\ lock' = c /\ GoTo(c, "loop")
       \/ lock # NoOne /\ UNCHANGED lock
          /\ ctx' = [ctx EXCEPT ![c].pc = "request", ![c].force = FALSE]
    /\ UNCHANGED <<coreVars, target, queue, wire, add_end, synchronized, trouble>>

\* The filled span the next turn of the loop takes.
NextSpan ==
    LET start == Min(filled_starts(queue)) IN
    [start |-> start, blocks |-> queue.spans[start].blocks, owner |-> queue.spans[start].conn]

ParentKnown(b) == have_block(ParentOf(b))

\* Nothing can be added now: back to download.
LeaveLoop(c) ==
    /\ At(c, "loop")
    /\ \/ filled_starts(queue) = {}
       \/ /\ filled_starts(queue) # {}
          /\ ~have_block(Last(NextSpan.blocks)) /\ ~ParentKnown(NextSpan.blocks[1])
          /\ ParentOf(NextSpan.blocks[1]) \in queue.requested
    /\ lock' = NoOne
    /\ ctx' = [ctx EXCEPT ![c].pc = "request",
                          ![c].force = should_download_next_span(ctx[c], queue, FALSE, FALSE)]
    /\ UNCHANGED <<coreVars, target, queue, wire, add_end, synchronized, trouble>>

\* The parent is neither known nor requested: leave the span for later, or drop it
\* and query the hashes again if it is the one that is needed now.
UnknownParent(c) ==
    LET span == NextSpan
        later == span.start > get_current_blockchain_height
    IN  /\ At(c, "loop") /\ filled_starts(queue) # {}
        /\ ~have_block(Last(span.blocks)) /\ ~ParentKnown(span.blocks[1])
        /\ ParentOf(span.blocks[1]) \notin queue.requested
        /\ queue' = IF later THEN queue ELSE remove_spans(queue, span.owner, span.start)
        /\ ctx' = [ctx EXCEPT ![c] =
                      IF later THEN [@ EXCEPT !.pc = "request", !.force = FALSE]
                      ELSE [@ EXCEPT !.pc = "request", !.force = FALSE, !.needed = << >>, !.last_response = 0]]
        /\ lock' = NoOne
        /\ UNCHANGED <<coreVars, target, wire, add_end, synchronized, trouble>>

\* How many blocks of a span handle_incoming_block takes: up to the first new one
\* that fails verification or whose parent is only known as invalid, an orphan.
Accepted(blocks) ==
    LET fails(b) == ~have_block(b) /\ (b \in Bad \/ Range(PathTo[b]) \cap invalid # {})
    IN  Max({k \in 0..Len(blocks) : \A i \in 1..k : ~fails(blocks[i])})

HeaviestTip(added) ==
    LET higher == {b \in added \cap Blocks : HeightOf(b) > HeightOf(tip) /\ \A a \in added : HeightOf(a) <= HeightOf(b)}
    IN  IF higher = {} THEN tip ELSE CHOOSE b \in higher : TRUE

\* One turn: the span is old, or its blocks are added to the core, crossed if they
\* end in another stripe.  The span stays in the queue until RemoveSpan.
AddSpan(c) ==
    LET span  == NextSpan
        old   == have_block(Last(span.blocks))
        added == IF old THEN {} ELSE Range(span.blocks) \ invalid
    IN  /\ At(c, "loop") /\ filled_starts(queue) # {}
        /\ old \/ (ParentKnown(span.blocks[1]) /\ Accepted(span.blocks) = Len(span.blocks))
        /\ known' = known \cup added
        /\ tip' = HeaviestTip(added)
        /\ add_end' = IF old THEN add_end ELSE "new"
        /\ \E pc \in {"added"} \cup (IF tip' = tip THEN {} ELSE {"crossed"}) :
              ctx' = [ctx EXCEPT ![c].pc = pc, ![c].owner = span.owner, ![c].span.start = span.start]
        /\ UNCHANGED <<invalid, refused, target, queue, wire, lock, synchronized, trouble>>

\* The other connections that are done get a callback.
notify_new_stripe(x) == IF x.state = "normal" THEN [WithCallback(x) EXCEPT !.new_stripe = TRUE] ELSE x

RemoveSpan(c) ==
    /\ At(c, "added") \/ At(c, "crossed")
    /\ queue' = remove_spans(queue, ctx[c].owner, ctx[c].span.start)
    /\ ctx' = [d \in Conns |->
                  IF d = c THEN [ctx[d] EXCEPT !.pc = "loop", !.owner = NoOne, !.span = NoSpan]
                  ELSE IF At(c, "crossed") THEN notify_new_stripe(ctx[d])
                  ELSE ctx[d]]
    /\ UNCHANGED <<coreVars, target, wire, lock, add_end, synchronized, trouble>>

\* prepare_handle_incoming_blocks looks at a span that extends the chain, unless it
\* has a block we know.
prepare_fails(blocks) ==
    /\ ParentOf(blocks[1]) = tip
    /\ \A b \in Range(blocks) : ~have_block(b)
    /\ Range(blocks) \cap Malformed # {}

\* A block is refused: the connections to the peer it came from are dropped, with
\* all their spans, and the handler returns.
RefuseSpan(c) ==
    LET span      == NextSpan
        malformed == prepare_fails(span.blocks)
        added     == {span.blocks[i] : i \in 1..Accepted(span.blocks)} \ invalid
        dropped   == {d \in live_connections : Host[d] = Host[span.owner]}
        spans     == {h \in Starts(queue) : queue.spans[h].conn \in dropped}
    IN  /\ At(c, "loop") /\ filled_starts(queue) # {}
        /\ ~have_block(Last(span.blocks)) /\ ParentKnown(span.blocks[1])
        /\ Accepted(span.blocks) < Len(span.blocks)
        /\ known' = IF malformed THEN known ELSE known \cup added
        /\ tip' = IF malformed THEN tip ELSE HeaviestTip(added)
        /\ \/ UNCHANGED invalid
           \/ ~malformed /\ invalid' = invalid \cup (Bad \cap {span.blocks[Accepted(span.blocks) + 1]})
        /\ queue' = IF malformed THEN Erase(queue, spans)
                    ELSE remove_spans(Erase(queue, spans), span.owner, span.start)
        /\ ctx' = [d \in Conns |-> [ctx[d] EXCEPT !.closing = @ \/ d \in dropped,
                                                  !.pc = IF d = c THEN "idle" ELSE @]]
        /\ lock' = NoOne
        /\ add_end' = "new"
        /\ refused' = TRUE
        /\ UNCHANGED <<target, wire, synchronized, trouble>>

RequestMissing(c) ==
    /\ At(c, "request")
    /\ \E r \in request_missing_objects(c, [ctx[c] EXCEPT !.pc = "idle", !.force = FALSE], ctx[c].force) :
          FinishVia(c, wire[c], r)
    /\ UNCHANGED <<coreVars, lock, add_end, trouble>>

\* reset_next_span_time and the request for that span.  When the first span is not
\* a scheduled one any more an assertion throws: nothing reads from the connection
\* again until a timer closes it.
reset_next_span_time(c) ==
    LET x      == [ctx[c] EXCEPT !.pc = "idle", !.span = NoSpan]
        asserts == Starts(queue) # {} /\ ~IsFilled(queue.spans[FirstStart(queue)])
    IN  /\ At(c, "reset")
        /\ \/ /\ asserts
              /\ \E r \in {AskObjects(c, x, [queue EXCEPT !.spans[FirstStart(queue)].late = FALSE], ctx[c].span)} :
                    FinishVia(c, wire[c], r)
           \/ /\ ~asserts
              /\ ctx' = [ctx EXCEPT ![c] = [x EXCEPT !.closing = TRUE, !.pc = "thrown"]]
              /\ UNCHANGED <<queue, wire, target, synchronized>>
        /\ UNCHANGED <<coreVars, lock, add_end, trouble>>

-----------------------------------------------------------------------------
Init ==
    /\ tip = Genesis /\ known = {Genesis} /\ invalid = {} /\ refused = FALSE /\ target = 0
    /\ queue = EmptyQueue
    /\ ctx = [c \in Conns |-> NoConnection]
    /\ wire = [c \in Conns |-> << >>]
    /\ lock = NoOne /\ add_end = "never" /\ synchronized = FALSE /\ trouble = 0

HandlerStep(c) ==
    \/ TryLock(c) \/ LeaveLoop(c) \/ UnknownParent(c) \/ AddSpan(c) \/ RefuseSpan(c)
    \/ RemoveSpan(c) \/ RequestMissing(c) \/ reset_next_span_time(c)

AnswerArrives(c) == handle_response_chain_entry(c) \/ handle_response_get_objects(c)

Timer(c) == TimedSync(c) \/ kick_idle_peers(c) \/ check_standby_peers(c)

Next ==
    \/ \E c \in Conns :
          \/ Connect(c) \/ Lose(c) \/ on_connection_close(c) \/ handle_request_get_objects(c)
          \/ RequestAges(c) \/ Timer(c) \/ on_callback(c) \/ AnswerArrives(c) \/ HandlerStep(c)
    \/ SpanAges
    \/ AddEndAges

\* Threads run their handlers, timers fire, time passes, the connections maker
\* keeps the peers connected, and peers that are not slow answer.
Fairness ==
    /\ \A c \in Conns :
          /\ WF_vars(HandlerStep(c)) /\ WF_vars(on_callback(c)) /\ WF_vars(on_connection_close(c))
          /\ WF_vars(RequestAges(c)) /\ WF_vars(Connect(c))
          /\ WF_vars(TimedSync(c)) /\ WF_vars(kick_idle_peers(c)) /\ WF_vars(check_standby_peers(c))
    /\ \A c \in {d \in Conns : Host[d] \notin Slow} : WF_vars(AnswerArrives(c))
    /\ WF_vars(SpanAges)

Spec == Init /\ [][Next]_vars

FairSpec == Spec /\ Fairness

-----------------------------------------------------------------------------
\* The connection synchronises, no handler of it runs, and nothing will start one:
\* it has no request whose age the idle check could see, and no callback.  Timed
\* syncs return early while a connection synchronises.
Forgotten(c) ==
    /\ Ready(c) /\ ctx[c].state = "synchronizing"
    /\ ctx[c].time = "none" /\ ctx[c].callbacks = 0

\* After adding blocks "we go back to download" (try_add_next_blocks).  Until the
\* blocks of a span are refused, every path out of a handler sends a request, asks
\* for a callback, changes the connection's state or drops it.
OnlyRefusalForgets == refused \/ \A c \in Conns : ~Forgotten(c)

\* The queue's hash sets never outlive its spans, whatever order connections fill,
\* flush and remove them in.
NoHashIsLost == NoLeakedRequest(queue)

\* m_synchronized is set only when no peer we are connected to claims more blocks
\* than we have, unless we know its top block already: as an invalid one.
SynchronizedIsTrue ==
    [][~synchronized /\ synchronized' =>
          \A c \in live_connections :
              ctx[c].remote <= get_current_blockchain_height \/ have_block(Last(Chain[Host[c]]))]_vars

\* As long as no span is refused we catch up with every peer that answers, whatever
\* slow peers leave behind in the queue and whichever connections are cut.
CatchesUp == <>[](refused \/ \A p \in Peers \ Slow : get_current_blockchain_height >= Len(Chain[p]))
=============================================================================
