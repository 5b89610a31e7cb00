----------------------------- MODULE BlockQueue -----------------------------
(***************************************************************************)
(* block_queue.{h,cpp}: the queue of spans of blocks that connections have *)
(* been asked for (scheduled) or have delivered (filled).  A queue is a    *)
(* record: spans maps a start height to its span, because std::set orders  *)
(* spans by start_block_height alone and keeps one span per start; and the *)
(* two hash sets requested_hashes and have_blocks.                         *)
(*                                                                         *)
(* Every method takes the queue's mutex for its whole length, so a method  *)
(* is an operator from a queue to a queue and its callers decide what may  *)
(* happen between two calls.  Peers are not pruned (pruning seed 0), so    *)
(* the stripes of reserve_span do not appear.  A block is its hash.        *)
(***************************************************************************)
EXTENDS Integers, Sequences, FiniteSets, FiniteSetsExt

EmptyQueue == [spans |-> << >>, requested |-> {}, have |-> {}]

HashesAt(q, H) == UNION {Range(q.spans[h].hashes) : h \in H}

Starts(q) == DOMAIN q.spans

IsFilled(span) == span.blocks # << >>

\* Mutant: the hashes of an erased span stay requested.
EraseKeepingRequests(q, H) ==
    [q EXCEPT !.spans = [h \in Starts(q) \ H |-> q.spans[h]], !.have = @ \ HashesAt(q, H)]

\* erase_block, for the spans that start at the heights H.
Erase(q, H) ==
    [spans     |-> [h \in Starts(q) \ H |-> q.spans[h]],
     requested |-> q.requested \ HashesAt(q, H),
     have      |-> q.have \ HashesAt(q, H)]

\* std::set::insert: a span that starts where another one does is ignored.
Insert(q, start, span) ==
    IF start \in Starts(q) THEN q
    ELSE [q EXCEPT !.spans = [h \in Starts(q) \cup {start} |->
                                 IF h = start THEN span ELSE q.spans[h]]]

set_span_hashes(q, start, c, hashes) ==
    IF start \notin Starts(q) THEN q
    ELSE IF q.spans[start].conn # c THEN q
    ELSE [spans     |-> [q.spans EXCEPT ![start].hashes = hashes],
          requested |-> Erase(q, {start}).requested \cup Range(hashes),
          have      |-> Erase(q, {start}).have]

\* add_blocks of the blocks that connection c delivered.  The hashes are those
\* of the span that was there, whoever had been asked for it.
add_blocks(q, start, blocks, c) ==
    LET filled == [n |-> Len(blocks), hashes |-> << >>, blocks |-> blocks, conn |-> c, late |-> FALSE]
        kept   == Insert(Erase(q, {start} \cap Starts(q)), start, filled)
        hashes == q.spans[start].hashes
    IN  IF start \notin Starts(q) THEN kept
        ELSE set_span_hashes([kept EXCEPT !.requested = @ \cup Range(hashes),
                                          !.have = @ \cup Range(hashes)], start, c, hashes)

flush_spans(q, c, all) ==
    Erase(q, {h \in Starts(q) : q.spans[h].conn = c /\ (all \/ ~IsFilled(q.spans[h]))})

flush_stale_spans(q, live) ==
    Erase(q, {h \in Starts(q) : q.spans[h].conn \notin live /\ ~IsFilled(q.spans[h])})

remove_spans(q, c, start) ==
    Erase(q, {h \in Starts(q) : q.spans[h].conn = c /\ h <= start})

-----------------------------------------------------------------------------
\* The queries.  NoSpan is the pair (0, 0) of the code.

NoSpan == [start |-> 0, n |-> 0, hashes |-> << >>]

FirstStart(q) == Min(Starts(q))

filled_starts(q) == {h \in Starts(q) : IsFilled(q.spans[h])}

get_num_filled_spans(q) == Cardinality(filled_starts(q))

\* get_data_size, in blocks.
get_data_size(q) == MapThenSumSet(LAMBDA h : Len(q.spans[h].blocks), Starts(q))

has_next_span(q, height) == Starts(q) # {} /\ FirstStart(q) <= height

get_next_span_if_scheduled(q) ==
    IF Starts(q) = {} THEN NoSpan
    ELSE LET first == q.spans[FirstStart(q)] IN
         IF IsFilled(first) THEN NoSpan
         ELSE [start |-> FirstStart(q), n |-> first.n, hashes |-> first.hashes]

\* get_next_needed_height: the end of the unbroken row of spans from the chain's
\* height on; a row that begins with a scheduled span counts as empty.
get_next_needed_height(q, height) ==
    LET ahead     == {h \in Starts(q) : h + q.spans[h].n - 1 >= height}
        end(H)    == IF H = {} THEN height ELSE Max(H) + q.spans[Max(H)].n
        before(h) == {i \in ahead : i < h}
        breaks(h) == h # end(before(h)) \/ (before(h) = {} /\ ~IsFilled(q.spans[h]))
    IN  end({h \in ahead : \A i \in before(h) \cup {h} : ~breaks(i)})

\* reserve_span for the hashes a connection still needs, the last of them at
\* height last: the leading requested ones are skipped.
reserve_span(q, last, max_blocks, c, needed) ==
    LET skip  == Max({k \in 0..Len(needed) : \A i \in 1..k : needed[i] \in q.requested})
        start == last - Len(needed) + 1 + skip
        size  == Min({max_blocks, Len(needed) - skip})
        span  == [n |-> size, hashes |-> << >>, blocks |-> << >>, conn |-> c, late |-> FALSE]
        hashes == SubSeq(needed, skip + 1, skip + size)
    IN  IF Len(needed) > last \/ size = 0 THEN [queue |-> q, span |-> NoSpan]
        ELSE [queue |-> set_span_hashes(Insert(q, start, span), start, c, hashes),
              span  |-> [start |-> start, n |-> size, hashes |-> hashes]]

-----------------------------------------------------------------------------
\* The hash sets never name a hash that no span accounts for: a hash that stayed
\* requested after its span was erased would never be asked for again.
NoLeakedRequest(q) == q.have \subseteq q.requested /\ q.requested \subseteq HashesAt(q, Starts(q))
=============================================================================
