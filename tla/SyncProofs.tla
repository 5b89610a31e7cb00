----------------------------- MODULE SyncProofs -----------------------------
(***************************************************************************)
(* What the synchronisation keeps for any peers, chains, limits and number *)
(* of connections: the hash sets of the block queue are those of its       *)
(* spans, no connection is left without anything that would wake it up     *)
(* until a span is refused, and the node calls itself synchronised only    *)
(* when it has as many blocks as its peers.  SyncInv says what each        *)
(* handler leaves behind, TargetInv that the target the node compares its  *)
(* height with covers every connected peer.  That the node catches up is   *)
(* left to TLC.                                                            *)
(***************************************************************************)
EXTENDS Sync, WellFoundedInduction, TLAPS

-----------------------------------------------------------------------------
(* The block queue.                                                        *)

SpanFields == {"n", "hashes", "blocks", "conn", "late"}

QueueOK(q) ==
    /\ DOMAIN q = {"spans", "requested", "have"}
    /\ \A h \in Starts(q) : DOMAIN q.spans[h] = SpanFields
    /\ NoLeakedRequest(q)

\* A hash that the sets name is one of the hashes of a span.
LEMMA HashesOfSpans ==
    ASSUME NEW q, NEW H, NEW x
    PROVE  x \in HashesAt(q, H) <=> \E h \in H : x \in Range(q.spans[h].hashes)
BY DEF HashesAt

LEMMA QueueIsOK ==
    ASSUME NEW q, DOMAIN q = {"spans", "requested", "have"},
           \A h \in Starts(q) : DOMAIN q.spans[h] = SpanFields,
           q.have \subseteq q.requested,
           \A x \in q.requested : \E h \in Starts(q) : x \in Range(q.spans[h].hashes)
    PROVE  QueueOK(q)
<1>1. q.requested \subseteq HashesAt(q, Starts(q))
  BY HashesOfSpans
<1> QED
  BY <1>1 DEF QueueOK, NoLeakedRequest

LEMMA OKQueue ==
    ASSUME NEW q, QueueOK(q)
    PROVE  /\ DOMAIN q = {"spans", "requested", "have"}
           /\ \A h \in Starts(q) : DOMAIN q.spans[h] = SpanFields
           /\ q.have \subseteq q.requested
           /\ \A x \in q.requested : \E h \in Starts(q) : x \in Range(q.spans[h].hashes)
<1>1. q.have \subseteq q.requested /\ q.requested \subseteq HashesAt(q, Starts(q))
  BY DEF QueueOK, NoLeakedRequest
<1>2. \A x \in q.requested : \E h \in Starts(q) : x \in Range(q.spans[h].hashes)
  BY <1>1, HashesOfSpans
<1> QED
  BY <1>1, <1>2 DEF QueueOK

LEMMA EmptyIsOK == QueueOK(EmptyQueue)
<1>1. /\ DOMAIN EmptyQueue = {"spans", "requested", "have"} /\ Starts(EmptyQueue) = {}
      /\ EmptyQueue.requested = {} /\ EmptyQueue.have = {}
  BY DEF EmptyQueue, Starts
<1> QED
  BY <1>1, QueueIsOK

LEMMA EraseIsOK ==
    ASSUME NEW q, QueueOK(q), NEW H
    PROVE  QueueOK(Erase(q, H))
<1> DEFINE r == Erase(q, H)
<1>1. /\ DOMAIN r = {"spans", "requested", "have"} /\ Starts(r) = Starts(q) \ H
      /\ \A h \in Starts(r) : r.spans[h] = q.spans[h]
      /\ r.requested = q.requested \ HashesAt(q, H) /\ r.have = q.have \ HashesAt(q, H)
  BY DEF Erase, Starts
<1> HIDE DEF r
<1>2. \A h \in Starts(r) : DOMAIN r.spans[h] = SpanFields
  BY <1>1, OKQueue
<1>3. r.have \subseteq r.requested
  BY <1>1, OKQueue
<1>4. ASSUME NEW x \in r.requested
      PROVE  \E h \in Starts(r) : x \in Range(r.spans[h].hashes)
  <2>1. x \in q.requested /\ x \notin HashesAt(q, H)
    BY <1>1
  <2>2. PICK h \in Starts(q) : x \in Range(q.spans[h].hashes)
    BY <2>1, OKQueue
  <2>3. h \notin H
    BY <2>1, <2>2, HashesOfSpans
  <2> QED
    BY <1>1, <2>2, <2>3
<1>5. QueueOK(r)
  BY <1>1, <1>2, <1>3, <1>4, QueueIsOK
<1> QED
  BY <1>5 DEF r

LEMMA InsertIsOK ==
    ASSUME NEW q, QueueOK(q), NEW start, NEW span, DOMAIN span = SpanFields
    PROVE  /\ QueueOK(Insert(q, start, span))
           /\ Starts(Insert(q, start, span)) = Starts(q) \cup {start}
           /\ start \notin Starts(q) => Insert(q, start, span).spans[start] = span
           /\ Insert(q, start, span).requested = q.requested /\ Insert(q, start, span).have = q.have
<1> DEFINE r == Insert(q, start, span)
<1>1. CASE start \in Starts(q)
  BY <1>1 DEF Insert
<1>2. CASE start \notin Starts(q)
  <2>0. DOMAIN q = {"spans", "requested", "have"}
    BY OKQueue
  <2>1. /\ DOMAIN r = {"spans", "requested", "have"} /\ Starts(r) = Starts(q) \cup {start}
        /\ r.spans[start] = span /\ \A h \in Starts(q) : r.spans[h] = q.spans[h]
        /\ r.requested = q.requested /\ r.have = q.have
    BY <1>2, <2>0 DEF Insert, Starts
  <2> HIDE DEF r
  <2>2. \A h \in Starts(r) : DOMAIN r.spans[h] = SpanFields
    BY <2>1, OKQueue
  <2>3. \A x \in r.requested : \E h \in Starts(r) : x \in Range(r.spans[h].hashes)
    BY <2>1, OKQueue
  <2>4. QueueOK(r)
    BY <2>1, <2>2, <2>3, OKQueue, QueueIsOK
  <2> QED
    BY <2>1, <2>4 DEF r
<1> QED
  BY <1>1, <1>2

\* Also when the sets name hashes that the span is about to get.
LEMMA SetHashes ==
    ASSUME NEW q, DOMAIN q = {"spans", "requested", "have"}, \A h \in Starts(q) : DOMAIN q.spans[h] = SpanFields,
           NEW start \in Starts(q), NEW c, q.spans[start].conn = c, NEW hashes,
           q.have \subseteq q.requested,
           \A x \in q.requested : x \in Range(hashes) \/ \E h \in Starts(q) : x \in Range(q.spans[h].hashes)
    PROVE  QueueOK(set_span_hashes(q, start, c, hashes))
<1> DEFINE r == set_span_hashes(q, start, c, hashes)
           gone == HashesAt(q, {start})
<1>1. r = [spans |-> [q.spans EXCEPT ![start].hashes = hashes],
           requested |-> (q.requested \ gone) \cup Range(hashes), have |-> q.have \ gone]
  BY DEF set_span_hashes, Erase
<1>2. /\ DOMAIN r = {"spans", "requested", "have"} /\ r.spans = [q.spans EXCEPT ![start].hashes = hashes]
      /\ r.requested = (q.requested \ gone) \cup Range(hashes) /\ r.have = q.have \ gone
  BY <1>1
<1>3. \A x : x \in gone <=> x \in Range(q.spans[start].hashes)
  BY HashesOfSpans
<1> HIDE DEF r, gone
<1>4. DOMAIN q.spans[start] = SpanFields /\ "hashes" \in SpanFields
  BY DEF SpanFields
<1>5. /\ Starts(r) = Starts(q) /\ \A h \in Starts(q) : h # start => r.spans[h] = q.spans[h]
      /\ DOMAIN r.spans[start] = SpanFields /\ r.spans[start].hashes = hashes
  BY <1>2, <1>4 DEF Starts
<1>6. \A h \in Starts(r) : DOMAIN r.spans[h] = SpanFields
  BY <1>5
<1>7. \A x \in r.requested : \E h \in Starts(r) : x \in Range(r.spans[h].hashes)
  BY <1>2, <1>3, <1>5
<1>8. QueueOK(r)
  BY <1>2, <1>6, <1>7, QueueIsOK, Zenon
<1> QED
  BY <1>8 DEF r

LEMMA SetHashesIsOK ==
    ASSUME NEW q, QueueOK(q), NEW start, NEW c, NEW hashes
    PROVE  QueueOK(set_span_hashes(q, start, c, hashes))
<1>1. CASE start \in Starts(q) /\ q.spans[start].conn = c
  BY <1>1, OKQueue, SetHashes, Zenon
<1>2. CASE ~(start \in Starts(q) /\ q.spans[start].conn = c)
  BY <1>2 DEF set_span_hashes
<1> QED
  BY <1>1, <1>2

LEMMA AddBlocksIsOK ==
    ASSUME NEW q, QueueOK(q), NEW start, NEW blocks, NEW c
    PROVE  QueueOK(add_blocks(q, start, blocks, c))
<1> DEFINE filled == [n |-> Len(blocks), hashes |-> << >>, blocks |-> blocks, conn |-> c, late |-> FALSE]
           erased == Erase(q, {start} \cap Starts(q))
           kept   == Insert(erased, start, filled)
           hashes == q.spans[start].hashes
           named  == [kept EXCEPT !.requested = @ \cup Range(hashes), !.have = @ \cup Range(hashes)]
<1>1. DOMAIN filled = SpanFields /\ filled.conn = c
  BY DEF SpanFields
<1>2. add_blocks(q, start, blocks, c) =
          IF start \notin Starts(q) THEN kept ELSE set_span_hashes(named, start, c, hashes)
  BY DEF add_blocks
<1>3. start \notin Starts(erased)
  BY DEF Erase, Starts
<1> HIDE DEF filled, erased
<1>4. QueueOK(erased)
  BY EraseIsOK DEF erased
<1>5. QueueOK(kept) /\ start \in Starts(kept) /\ kept.spans[start] = filled
  BY <1>1, <1>3, <1>4, InsertIsOK
<1> HIDE DEF kept
<1>6. /\ DOMAIN kept = {"spans", "requested", "have"} /\ \A h \in Starts(kept) : DOMAIN kept.spans[h] = SpanFields
      /\ kept.have \subseteq kept.requested
      /\ \A x \in kept.requested : \E h \in Starts(kept) : x \in Range(kept.spans[h].hashes)
  BY <1>5, OKQueue
<1>7. /\ DOMAIN named = {"spans", "requested", "have"} /\ named.spans = kept.spans
      /\ named.requested = kept.requested \cup Range(hashes) /\ named.have = kept.have \cup Range(hashes)
  BY <1>6
<1> HIDE DEF named, hashes
<1>8. Starts(named) = Starts(kept)
  BY <1>7 DEF Starts
<1>9. QueueOK(set_span_hashes(named, start, c, hashes))
  BY <1>1, <1>5, <1>6, <1>7, <1>8, SetHashes
<1> QED
  BY <1>2, <1>5, <1>9

LEMMA ReserveIsOK ==
    ASSUME NEW q, QueueOK(q), NEW last, NEW max_blocks, NEW c, NEW needed
    PROVE  QueueOK(reserve_span(q, last, max_blocks, c, needed).queue)
<1> DEFINE skip  == Max({k \in 0..Len(needed) : \A i \in 1..k : needed[i] \in q.requested})
           start == last - Len(needed) + 1 + skip
           size  == Min({max_blocks, Len(needed) - skip})
           span  == [n |-> size, hashes |-> << >>, blocks |-> << >>, conn |-> c, late |-> FALSE]
           hashes == SubSeq(needed, skip + 1, skip + size)
<1>1. reserve_span(q, last, max_blocks, c, needed).queue \in
          {q, set_span_hashes(Insert(q, start, span), start, c, hashes)}
  BY DEF reserve_span
<1>2. DOMAIN span = SpanFields
  BY DEF SpanFields
<1> HIDE DEF skip, start, size, span, hashes
<1>3. QueueOK(Insert(q, start, span))
  BY <1>2, InsertIsOK
<1> QED
  BY <1>1, <1>3, SetHashesIsOK

LEMMA LateIsOK ==
    ASSUME NEW q, QueueOK(q), NEW start, NEW late
    PROVE  QueueOK([q EXCEPT !.spans[start].late = late])
<1> DEFINE r == [q EXCEPT !.spans[start].late = late]
<1>0. /\ DOMAIN q = {"spans", "requested", "have"}
      /\ \A h \in Starts(q) : DOMAIN q.spans[h] = SpanFields
      /\ q.have \subseteq q.requested
      /\ \A x \in q.requested : \E h \in Starts(q) : x \in Range(q.spans[h].hashes)
  BY OKQueue
<1>1. /\ DOMAIN r = {"spans", "requested", "have"} /\ r.spans = [q.spans EXCEPT ![start].late = late]
      /\ r.requested = q.requested /\ r.have = q.have
  BY <1>0
<1> HIDE DEF r
<1>2. "hashes" \in SpanFields /\ "hashes" # "late"
  BY DEF SpanFields
<1>3. Starts(r) = Starts(q)
  BY <1>1 DEF Starts
<1>4. ASSUME NEW h \in Starts(q)
      PROVE  DOMAIN r.spans[h] = SpanFields /\ r.spans[h].hashes = q.spans[h].hashes
  BY <1>0, <1>1, <1>2 DEF Starts
<1>5. QueueOK(r)
  BY <1>0, <1>1, <1>3, <1>4, QueueIsOK, Zenon
<1> QED
  BY <1>5 DEF r

-----------------------------------------------------------------------------
(* Contexts and the outcomes of handlers.                                  *)

Fields == {"state", "closing", "needed", "requested", "remote", "last_response", "time", "last_known", "score",
           "expect", "expect_height", "num_requested", "idle", "new_stripe", "callbacks", "pc", "force", "via", "span",
           "owner"}

\* A connection that is open, and one that is not.
Context(c, x) ==
    /\ DOMAIN x = Fields /\ x.callbacks \in Nat
    /\ x.state # "closed" /\ x.remote = Len(Chain[Host[c]])

Closed(x) ==
    /\ DOMAIN x = Fields /\ x.callbacks = 0
    /\ x.state = "closed" /\ x.remote = 0 /\ x.pc = "idle" /\ x.time = "none"

\* A handler runs, or something will start one, or the connection does not
\* synchronise or is being dropped.
Settled(x) ==
    \/ x.closing \/ x.state # "synchronizing" \/ x.pc # "idle"
    \/ x.time # "none" \/ x.callbacks > 0

\* What is on its way from a peer tells the height of its chain.
AnswersOK(c, w) == w \in Seq(Range(w)) /\ \A a \in Range(w) : a.total = Len(Chain[Host[c]])

\* What a handler leaves.
OutcomeOK(c, r) ==
    /\ DOMAIN r = {"x", "q", "answer", "synced", "ok"}
    /\ Context(c, r.x) /\ Settled(r.x) /\ QueueOK(r.q) /\ AnswersOK(c, r.answer)
    /\ r.synced => get_current_blockchain_height >= target

LEMMA FieldNames ==
    /\ "state" \in Fields /\ "closing" \in Fields /\ "time" \in Fields /\ "callbacks" \in Fields
    /\ "pc" \in Fields /\ "idle" \in Fields /\ "new_stripe" \in Fields /\ "remote" \in Fields /\ "needed" \in Fields /\ "span" \in Fields
BY DEF Fields

LEMMA SeqOfRange ==
    ASSUME NEW S, NEW w \in Seq(S)
    PROVE  w \in Seq(Range(w)) /\ Range(w) \subseteq S /\ \A i \in 1..Len(w) : w[i] \in Range(w)
<1>1. DOMAIN w = 1..Len(w) /\ Len(w) \in Nat /\ \A i \in 1..Len(w) : w[i] \in S
  OBVIOUS
<1>2. \A i \in 1..Len(w) : w[i] \in Range(w)
  BY <1>1 DEF Range
<1>3. Range(w) \subseteq S
  BY <1>1 DEF Range
<1> QED
  BY <1>1, <1>2, <1>3

LEMMA AnswersAreOK ==
    ASSUME NEW c, NEW S, NEW w \in Seq(S), \A a \in S : a.total = Len(Chain[Host[c]])
    PROVE  AnswersOK(c, w)
BY SeqOfRange DEF AnswersOK

LEMMA NoAnswer ==
    ASSUME NEW c
    PROVE  AnswersOK(c, << >>)
<1> DEFINE S == {}
<1>1. << >> \in Seq(S) /\ \A a \in S : a.total = Len(Chain[Host[c]])
  OBVIOUS
<1> HIDE DEF S
<1> QED
  BY <1>1, AnswersAreOK, Zenon

LEMMA OneAnswer ==
    ASSUME NEW c, NEW a, a.total = Len(Chain[Host[c]])
    PROVE  AnswersOK(c, <<a>>)
<1> DEFINE S == {a}
<1>1. <<a>> \in Seq(S) /\ \A b \in S : b.total = Len(Chain[Host[c]])
  OBVIOUS
<1> HIDE DEF S
<1> QED
  BY <1>1, AnswersAreOK, Zenon

LEMMA JoinAnswers ==
    ASSUME NEW c, NEW v, NEW w, AnswersOK(c, v), AnswersOK(c, w)
    PROVE  AnswersOK(c, v \o w)
<1>1. v \o w \in Seq(Range(v) \cup Range(w))
  BY DEF AnswersOK
<1>2. \A a \in Range(v) \cup Range(w) : a.total = Len(Chain[Host[c]])
  BY DEF AnswersOK
<1> QED
  BY <1>1, <1>2, AnswersAreOK, Zenon

LEMMA NextAnswer ==
    ASSUME NEW c, NEW w, AnswersOK(c, w), w # << >>
    PROVE  Head(w).total = Len(Chain[Host[c]]) /\ AnswersOK(c, Tail(w))
<1>1. w \in Seq(Range(w)) /\ \A a \in Range(w) : a.total = Len(Chain[Host[c]])
  BY DEF AnswersOK
<1>2. Head(w) \in Range(w) /\ Tail(w) \in Seq(Range(w))
  BY <1>1
<1> QED
  BY <1>1, <1>2, AnswersAreOK, Zenon

LEMMA OutcomeIsOK ==
    ASSUME NEW c, NEW x, Context(c, x), Settled(x), NEW q, QueueOK(q)
    PROVE  OutcomeOK(c, Outcome(x, q))
BY NoAnswer DEF OutcomeOK, Outcome

LEMMA FlushIsOK ==
    ASSUME NEW q, QueueOK(q), NEW c, NEW y
    PROVE  /\ QueueOK(flush_spans(q, c, y)) /\ QueueOK(flush_stale_spans(q, y))
           /\ QueueOK(remove_spans(q, c, y))
BY EraseIsOK DEF flush_spans, flush_stale_spans, remove_spans

LEMMA InStateIsContext ==
    ASSUME NEW c, NEW x, Context(c, x), NEW state, state # "closed"
    PROVE  /\ Context(c, InState(x, state)) /\ InState(x, state).state = state
           /\ state # "synchronizing" => Settled(InState(x, state))
BY FieldNames DEF Context, InState, Settled

LEMMA WithCallbackIsContext ==
    ASSUME NEW c, NEW x, Context(c, x)
    PROVE  Context(c, WithCallback(x)) /\ Settled(WithCallback(x))
BY FieldNames DEF Context, WithCallback, Settled

LEMMA FailIsOK ==
    ASSUME NEW c, NEW x, Context(c, x), NEW q, QueueOK(q)
    PROVE  OutcomeOK(c, Fail(c, x, q))
<1> DEFINE y == [x EXCEPT !.closing = TRUE]
           flushed == flush_spans(q, c, FALSE)
<1>1. Context(c, y) /\ Settled(y)
  BY FieldNames DEF Context, Settled
<1>2. QueueOK(flushed)
  BY FlushIsOK, Zenon
<1>3. Fail(c, x, q) = [Outcome(y, flushed) EXCEPT !.ok = FALSE]
  BY DEF Fail
<1> HIDE DEF y, flushed
<1>4. OutcomeOK(c, Outcome(y, flushed))
  BY <1>1, <1>2, OutcomeIsOK
<1> QED
  BY <1>3, <1>4 DEF OutcomeOK

LEMMA SynchronisedIsOK ==
    ASSUME NEW c, NEW x, Context(c, x), NEW q, QueueOK(q), NEW synced,
           synced => get_current_blockchain_height >= target
    PROVE  OutcomeOK(c, Synchronised(x, q, synced))
<1>1. OutcomeOK(c, Outcome(InState(x, "normal"), q))
  BY InStateIsContext, OutcomeIsOK
<1> QED
  BY <1>1 DEF OutcomeOK, Synchronised

LEMMA AskChainIsOK ==
    ASSUME NEW c, NEW x, Context(c, x), NEW q, QueueOK(q), NEW from_last_known
    PROVE  OutcomeOK(c, AskChain(c, x, q, from_last_known))
<1> DEFINE r == AskChain(c, x, q, from_last_known)
<1>1. /\ DOMAIN r = {"x", "q", "answer", "synced", "ok"} /\ r.q = q /\ r.synced = FALSE
      /\ Context(c, r.x) /\ Settled(r.x)
  BY FieldNames, Zenon DEF AskChain, Outcome, Context, Settled
<1>2. r.answer = <<r.answer[1]>> /\ r.answer[1].total = Len(Chain[Host[c]])
  BY Zenon DEF AskChain, Outcome
<1> HIDE DEF r
<1>3. AnswersOK(c, r.answer)
  BY <1>2, OneAnswer, Zenon
<1>4. OutcomeOK(c, r)
  BY <1>1, <1>3 DEF OutcomeOK
<1> QED
  BY <1>4 DEF r

LEMMA AskObjectsIsOK ==
    ASSUME NEW c, NEW x, Context(c, x), NEW q, QueueOK(q), NEW span
    PROVE  OutcomeOK(c, AskObjects(c, x, q, span))
<1> DEFINE r == AskObjects(c, x, q, span)
<1>1. /\ DOMAIN r = {"x", "q", "answer", "synced", "ok"} /\ r.q = q /\ r.synced = FALSE
      /\ Context(c, r.x) /\ Settled(r.x)
  BY FieldNames, Zenon DEF AskObjects, Outcome, Context, Settled
<1>2. r.answer = <<r.answer[1]>> /\ r.answer[1].total = Len(Chain[Host[c]])
  BY DEF AskObjects, Outcome
<1> HIDE DEF r
<1>3. AnswersOK(c, r.answer)
  BY <1>2, OneAnswer, Zenon
<1>4. OutcomeOK(c, r)
  BY <1>1, <1>3 DEF OutcomeOK
<1> QED
  BY <1>4 DEF r

LEMMA SkipIsContext ==
    ASSUME NEW c, NEW x, Context(c, x), NEW q, NEW check_block_queue
    PROVE  Context(c, skip_unneeded_hashes(x, q, check_block_queue).x)
BY FieldNames, Zenon DEF skip_unneeded_hashes, Context

LEMMA AllDoneIsOK ==
    ASSUME NEW c, NEW x, Context(c, x), NEW q, QueueOK(q)
    PROVE  OutcomeOK(c, AllDone(c, x, q))
<1>1. \/ AllDone(c, x, q) = Fail(c, x, q)
      \/ AllDone(c, x, q) = Synchronised(x, q, get_current_blockchain_height >= target)
  BY DEF AllDone
<1> QED
  BY <1>1, FailIsOK, SynchronisedIsOK, Zenon

LEMMA NothingKnownIsOK ==
    ASSUME NEW c, NEW x, Context(c, x), NEW q, QueueOK(q)
    PROVE  OutcomeOK(c, NothingKnown(c, x, q))
<1> DEFINE y == [x EXCEPT !.needed = << >>]
<1>1. Context(c, y)
  BY FieldNames DEF Context
<1>2. \/ NothingKnown(c, x, q) = Outcome(WithCallback(InState(y, "standby")), q)
      \/ NothingKnown(c, x, q) = AskChain(c, y, q, TRUE)
      \/ NothingKnown(c, x, q) = Fail(c, y, q)
      \/ NothingKnown(c, x, q) = Synchronised(y, q, y.remote >= target /\ get_current_blockchain_height >= target)
  BY Zenon DEF NothingKnown
<1> HIDE DEF y
<1>3. OutcomeOK(c, Outcome(WithCallback(InState(y, "standby")), q))
  BY <1>1, InStateIsContext, WithCallbackIsContext, OutcomeIsOK, Zenon
<1> QED
  BY <1>1, <1>2, <1>3, AskChainIsOK, FailIsOK, SynchronisedIsOK, Zenon
LEMMA RequestSpanIsOK ==
    ASSUME NEW c, NEW x, Context(c, x), NEW q, QueueOK(q), NEW force, NEW next, NEW reserve, QueueOK(reserve.queue)
    PROVE  OutcomeOK(c, RequestSpan(c, x, q, force, next, reserve))
<1> DEFINE used == reserve.span.start + reserve.span.n - FirstNeeded(x)
           y == [x EXCEPT !.needed = SubSeq(@, used + 1, Len(@))]
           z == [x EXCEPT !.needed = SelectSeq(@, LAMBDA b : b \notin Range(next.hashes))]
<1>1. Context(c, y) /\ Context(c, z)
  BY FieldNames DEF Context
<1>2. \/ RequestSpan(c, x, q, force, next, reserve) = AskObjects(c, y, reserve.queue, reserve.span)
      \/ RequestSpan(c, x, q, force, next, reserve) = AskObjects(c, z, q, next)
      \/ RequestSpan(c, x, q, force, next, reserve) = Outcome(InState(x, "normal"), q)
      \/ RequestSpan(c, x, q, force, next, reserve) = Fail(c, x, q)
  BY DEF RequestSpan
<1> HIDE DEF y, z
<1>3. OutcomeOK(c, Outcome(InState(x, "normal"), q))
  BY InStateIsContext, OutcomeIsOK
<1>4. OutcomeOK(c, AskObjects(c, y, reserve.queue, reserve.span)) /\ OutcomeOK(c, AskObjects(c, z, q, next))
  BY <1>1, AskObjectsIsOK
<1> QED
  BY <1>2, <1>3, <1>4, FailIsOK

LEMMA RequestNeededIsOK ==
    ASSUME NEW c, NEW skip, Context(c, skip.x), NEW q, QueueOK(q), NEW force, NEW r \in RequestNeeded(c, skip, q, force)
    PROVE  OutcomeOK(c, r)
<1> DEFINE reserve == reserve_span(q, skip.x.last_response, count_limit, c, skip.x.needed)
           next == get_next_span_if_scheduled(q)
<1>1. r \in {AllDone(c, skip.x, q), RequestSpan(c, skip.x, q, force, next, reserve)}
  BY DEF RequestNeeded
<1>2. QueueOK(reserve.queue)
  BY ReserveIsOK
<1> HIDE DEF reserve, next
<1>3. OutcomeOK(c, RequestSpan(c, skip.x, q, force, next, reserve))
  BY <1>2, RequestSpanIsOK
<1>4. OutcomeOK(c, AllDone(c, skip.x, q))
  BY AllDoneIsOK
<1> QED
  BY <1>1, <1>3, <1>4

LEMMA RequestObjectsIsOK ==
    ASSUME NEW c, NEW x, Context(c, x), NEW q, QueueOK(q), NEW force, NEW r \in RequestObjects(c, x, q, force)
    PROVE  OutcomeOK(c, r)
<1> DEFINE next == get_next_span_if_scheduled(q)
           y == [x EXCEPT !.pc = "reset", !.span = next]
           z == [x EXCEPT !.last_response = 0]
           skip == skip_unneeded_hashes(x, q, FALSE)
<1>1. r \in {NothingKnown(c, x, q), Outcome(y, q), NothingKnown(c, z, q)} \cup RequestNeeded(c, skip, q, force)
  BY Zenon DEF RequestObjects
<1>2. Context(c, y) /\ Settled(y) /\ Context(c, z)
  BY FieldNames DEF Context, Settled
<1>3. Context(c, skip.x)
  BY SkipIsContext, Zenon
<1> HIDE DEF next, y, z, skip
<1>4. OutcomeOK(c, Outcome(y, q))
  BY <1>2, OutcomeIsOK
<1>5. OutcomeOK(c, NothingKnown(c, x, q)) /\ OutcomeOK(c, NothingKnown(c, z, q))
  BY <1>2, NothingKnownIsOK
<1> QED
  BY <1>1, <1>3, <1>4, <1>5, RequestNeededIsOK

LEMMA WaitOrProceedIsOK ==
    ASSUME NEW c, NEW skip, Context(c, skip.x), NEW q, QueueOK(q), NEW r \in WaitOrProceed(c, skip, q)
    PROVE  OutcomeOK(c, r)
<1> DEFINE x == skip.x
<1>1. \/ r \in {AllDone(c, x, q), Outcome(WithCallback(InState(x, "standby")), q), Fail(c, x, q),
                Outcome(InState(x, "standby"), q)}
      \/ \E force : r \in RequestObjects(c, InState(x, "synchronizing"), q, force)
  BY Zenon DEF WaitOrProceed
<1> HIDE DEF x
<1>2. /\ Context(c, x) /\ Context(c, InState(x, "synchronizing"))
      /\ Context(c, InState(x, "standby")) /\ Settled(InState(x, "standby"))
  BY InStateIsContext DEF x
<1>3. OutcomeOK(c, Outcome(WithCallback(InState(x, "standby")), q)) /\ OutcomeOK(c, Outcome(InState(x, "standby"), q))
  BY <1>2, WithCallbackIsContext, OutcomeIsOK, Zenon
<1>4. OutcomeOK(c, AllDone(c, x, q)) /\ OutcomeOK(c, Fail(c, x, q))
  BY <1>2, AllDoneIsOK, FailIsOK
<1> QED
  BY <1>1, <1>2, <1>3, <1>4, RequestObjectsIsOK, Zenon

\* Every path out of request_missing_objects leaves the connection settled.
LEMMA RequestMissingIsOK ==
    ASSUME NEW c, NEW x, Context(c, x), QueueOK(queue), NEW force, NEW r \in request_missing_objects(c, x, force)
    PROVE  OutcomeOK(c, r)
<1> DEFINE q == flush_stale_spans(queue, live_connections)
           skip == skip_unneeded_hashes(x, q, TRUE)
<1>1. r \in RequestObjects(c, x, q, TRUE) \cup WaitOrProceed(c, skip, q)
  BY Zenon DEF request_missing_objects
<1>2. QueueOK(q) /\ Context(c, skip.x)
  BY FlushIsOK, SkipIsContext, Zenon
<1> HIDE DEF q, skip
<1> QED
  BY <1>1, <1>2, RequestObjectsIsOK, WaitOrProceedIsOK, Zenon


-----------------------------------------------------------------------------
(* The steps.                                                              *)

SyncInv ==
    /\ DOMAIN ctx = Conns /\ \A c \in Conns : Closed(ctx[c]) \/ Context(c, ctx[c])
    /\ DOMAIN wire = Conns /\ \A c \in Conns : AnswersOK(c, wire[c])
    /\ QueueOK(queue) /\ target \in Nat
    /\ refused \/ \A c \in Conns : Settled(ctx[c])

\* The node calls itself synchronised only at the height it aims at.
Honest == synchronized' => synchronized \/ get_current_blockchain_height >= target

\* What every step does but the opening and closing of connections and timed syncs.
Steady ==
    /\ SyncInv' /\ Honest
    /\ target' >= target
    /\ \A c \in Conns : Closed(ctx[c]) => Closed(ctx'[c])

LEMMA ChainLengths ==
    ASSUME NEW c \in Conns
    PROVE  Len(Chain[Host[c]]) \in Nat
<1>1. Host[c] \in Peers
  BY SyncAssumption
<1>2. Chain[Host[c]] \in Seq(Range(Chain[Host[c]]))
  BY <1>1, SyncAssumption
<1> QED
  BY <1>2

LEMMA RemoteIsNat ==
    ASSUME NEW c \in Conns, NEW x, Closed(x) \/ Context(c, x)
    PROVE  x.remote \in Nat
BY ChainLengths DEF Closed, Context

LEMMA LeastExists ==
    ASSUME NEW S \in SUBSET Nat, S # {}
    PROVE  \E x \in S : \A y \in S : x <= y
<1>1. PICK x \in S : \A y \in S : ~(<<y, x>> \in OpToRel(<,Nat))
  BY NatLessThanWellFounded, WFMin, Zenon
<1>2. \A y \in S : ~(y < x)
  BY <1>1, Zenon DEF OpToRel
<1> QED
  BY <1>2

LEMMA MaxOf ==
    ASSUME NEW n \in Nat, NEW S \in SUBSET (0 .. n), S # {}
    PROVE  Max(S) \in S /\ \A y \in S : Max(S) >= y
<1> DEFINE T == {n - x : x \in S}
<1>0. \A x \in S : x \in Int /\ n - x \in Nat
  OBVIOUS
<1>1. T \in SUBSET Nat /\ T # {}
  BY <1>0, Zenon
<1>2. PICK z \in T : \A y \in T : z <= y
  BY <1>1, LeastExists, Zenon
<1>3. PICK x \in S : z = n - x
  BY <1>2
<1>4. ASSUME NEW y \in S
      PROVE  x >= y
  <2>1. n - y \in T
    OBVIOUS
  <2>2. n - x <= n - y
    BY <1>2, <1>3, <2>1, Zenon
  <2> QED
    BY <1>0, <2>2
<1> QED
  BY <1>4 DEF Max

LEMMA MaxOfTwo ==
    ASSUME NEW a \in Nat, NEW b \in Nat
    PROVE  Max({a, b}) \in Nat /\ Max({a, b}) >= a /\ Max({a, b}) >= b
<1>1. \E x \in {a, b} : \A y \in {a, b} : x >= y
  OBVIOUS
<1> QED
  BY <1>1 DEF Max

LEMMA ContextStep ==
    ASSUME SyncInv, NEW c \in Conns, NEW x, Context(c, x), refused \/ Settled(x), ctx' = [ctx EXCEPT ![c] = x],
           DOMAIN wire' = Conns, \A d \in Conns : AnswersOK(d, wire'[d]),
           QueueOK(queue'), target' \in Nat, refused' = refused
    PROVE  SyncInv'
<1>1. DOMAIN ctx' = Conns /\ ctx'[c] = x /\ \A d \in Conns : d # c => ctx'[d] = ctx[d]
  BY DEF SyncInv
<1>2. \A d \in Conns : Closed(ctx'[d]) \/ Context(d, ctx'[d])
  BY <1>1 DEF SyncInv
<1>3. refused' \/ \A d \in Conns : Settled(ctx'[d])
  BY <1>1 DEF SyncInv
<1> QED
  BY <1>1, <1>2, <1>3 DEF SyncInv

LEMMA SteadyStep ==
    ASSUME SyncInv, NEW c \in Conns, Context(c, ctx[c]), NEW x, Context(c, x), refused \/ Settled(x),
           ctx' = [ctx EXCEPT ![c] = x], wire' = wire, synchronized' = synchronized,
           QueueOK(queue'), target' = target, refused' = refused
    PROVE  Steady
<1>1. DOMAIN wire' = Conns /\ (\A d \in Conns : AnswersOK(d, wire'[d])) /\ target \in Nat
  BY DEF SyncInv
<1>2. SyncInv'
  BY <1>1, ContextStep, Zenon
<1>3. \A d \in Conns : Closed(ctx[d]) => Closed(ctx'[d])
  BY DEF SyncInv, Closed, Context
<1> QED
  BY <1>1, <1>2, <1>3 DEF Steady, Honest

LEMMA FinishStep ==
    ASSUME SyncInv, NEW c \in Conns, Context(c, ctx[c]), NEW unread, AnswersOK(c, unread),
           NEW r, OutcomeOK(c, r), Finish(c, unread, r),
           target' \in Nat, target' >= target, refused' = refused
    PROVE  Steady
<1>1. /\ queue' = r.q /\ ctx' = [ctx EXCEPT ![c] = r.x] /\ wire' = [wire EXCEPT ![c] = unread \o r.answer]
      /\ synchronized' = (synchronized \/ r.synced)
  BY DEF Finish
<1>2. Context(c, r.x) /\ Settled(r.x) /\ QueueOK(queue') /\ AnswersOK(c, unread \o r.answer)
  BY <1>1, JoinAnswers DEF OutcomeOK
<1>3. SyncInv'
  <2>1. DOMAIN wire' = Conns /\ \A d \in Conns : AnswersOK(d, wire'[d])
    BY <1>1, <1>2 DEF SyncInv
  <2> QED
    BY <1>1, <1>2, <2>1, ContextStep, Zenon
<1>4. Honest
  BY <1>1, Zenon DEF OutcomeOK, Honest
<1>5. \A d \in Conns : Closed(ctx[d]) => Closed(ctx'[d])
  BY <1>1 DEF SyncInv, Closed, Context
<1> QED
  BY <1>3, <1>4, <1>5 DEF Steady

LEMMA FinishViaStep ==
    ASSUME SyncInv, NEW c \in Conns, Context(c, ctx[c]), NEW unread, AnswersOK(c, unread),
           NEW r, OutcomeOK(c, r), FinishVia(c, unread, r), refused' = refused
    PROVE  Steady
<1> DEFINE s == [r EXCEPT !.x.num_requested = FALSE, !.x.via = "add"]
<1>1. /\ Finish(c, unread, r) \/ Finish(c, unread, s)
      /\ target' = target \/ target' = Max({target, r.x.remote})
  BY DEF FinishVia
<1>2. /\ DOMAIN s = {"x", "q", "answer", "synced", "ok"} /\ s.q = r.q /\ s.answer = r.answer /\ s.synced = r.synced
      /\ s.x = [r.x EXCEPT !.num_requested = FALSE, !.via = "add"]
  BY DEF OutcomeOK
<1> HIDE DEF s
<1>3. Context(c, s.x) /\ Settled(s.x)
  BY <1>2, FieldNames DEF OutcomeOK, Context, Settled
<1>4. OutcomeOK(c, s)
  BY <1>2, <1>3 DEF OutcomeOK
<1>5. target' \in Nat /\ target' >= target
  <2>1. target \in Nat /\ r.x.remote \in Nat
    BY ChainLengths, Zenon DEF SyncInv, OutcomeOK, Context
  <2> QED
    BY <1>1, <2>1, MaxOfTwo
<1> QED
  BY <1>1, <1>4, <1>5, FinishStep

LEMMA SyncDataStep ==
    ASSUME SyncInv, NEW c \in Conns, NEW x, DOMAIN x = Fields, x.callbacks \in Nat, NEW is_initial,
           SyncData(c, x, is_initial), get_current_blockchain_height \in Nat
    PROVE  /\ SyncInv' /\ Honest /\ target' >= target
           /\ Context(c, ctx'[c]) /\ \A d \in Conns : d # c => ctx'[d] = ctx[d]
           /\ \/ have_block(Last(Chain[Host[c]]))
              \/ ctx'[c].remote <= target' \/ ctx'[c].remote <= get_current_blockchain_height
<1> DEFINE n == Len(Chain[Host[c]])
           have == have_block(Last(Chain[Host[c]]))
           height == get_current_blockchain_height
           aim == IF target = 0 THEN height ELSE target
           y == [x EXCEPT !.remote = n]
           normal == InState(y, "normal")
           called == [WithCallback(InState(y, "synchronizing")) EXCEPT !.num_requested = FALSE]
<1>1. /\ ctx' = [ctx EXCEPT ![c] = normal] \/ ctx' = [ctx EXCEPT ![c] = called]
      /\ queue' = queue /\ refused' = refused /\ wire' = wire
      /\ synchronized' => synchronized \/ aim = height
      /\ target' = IF ~have /\ n > aim THEN n ELSE target
  BY Zenon DEF SyncData, coreVars
<1>2. n \in Nat /\ height \in Nat /\ target \in Nat
  BY ChainLengths DEF SyncInv
<1> HIDE DEF n, have, height
<1>3. target' \in Nat /\ target' >= target /\ (synchronized' => synchronized \/ height >= target)
      /\ (have \/ n <= target' \/ n <= height)
  BY <1>1, <1>2
<1>4. /\ Context(c, normal) /\ Settled(normal)
  BY FieldNames DEF Context, InState, Settled, n
<1>5. Context(c, called) /\ Settled(called)
  BY FieldNames DEF Context, InState, WithCallback, Settled, n
<1> HIDE DEF normal, called
<1>6. PICK z : ctx' = [ctx EXCEPT ![c] = z] /\ Context(c, z) /\ Settled(z)
  BY <1>1, <1>4, <1>5, Zenon
<1>7. DOMAIN wire' = Conns /\ (\A d \in Conns : AnswersOK(d, wire'[d])) /\ QueueOK(queue')
  BY <1>1 DEF SyncInv
<1>8. SyncInv'
  BY <1>1, <1>3, <1>6, <1>7, ContextStep, Zenon
<1>9. ctx'[c] = z /\ z.remote = n /\ \A d \in Conns : d # c => ctx'[d] = ctx[d]
  BY <1>6 DEF SyncInv, Context, n
<1> QED
  BY <1>3, <1>6, <1>8, <1>9, Zenon DEF Honest, have, height

LEMMA Alive ==
    ASSUME SyncInv, NEW c \in Conns, ctx[c].state # "closed" \/ ctx[c].pc # "idle" \/ ctx[c].time # "none"
    PROVE  Context(c, ctx[c])
BY DEF SyncInv, Closed

LEMMA CallbackStep ==
    ASSUME SyncInv, NEW c \in Conns, on_callback(c)
    PROVE  Steady
<1> DEFINE x0   == [ctx[c] EXCEPT !.callbacks = @ - 1, !.idle = FALSE, !.new_stripe = FALSE]
           kick == ctx[c].idle /\ x0.state = "synchronizing" /\ x0.time = "old"
           x1   == [x0 EXCEPT !.score = @ - 1, !.time = "none", !.expect = "none",
                              !.expect_height = 0, !.requested = {}, !.state = "standby"]
           x2   == InState(x0, "synchronizing")
           x    == IF kick THEN x1 ELSE IF ctx[c].new_stripe /\ x0.state = "normal" THEN x2 ELSE x0
           y    == [x EXCEPT !.needed = << >>]
           z    == [x EXCEPT !.state = "synchronizing", !.pc = "try"]
           r    == IF kick /\ x0.score < 0 THEN Fail(c, x0, queue)
                   ELSE IF x.state = "synchronizing" /\ x.time = "none" THEN AskChain(c, y, queue, FALSE)
                   ELSE IF x.state = "standby" THEN Outcome(z, queue)
                   ELSE Outcome(x, queue)
<1>0. /\ Ready(c) /\ ctx[c].callbacks > 0
      /\ \E outcome \in {r} : Finish(c, wire[c], outcome)
      /\ UNCHANGED coreVars /\ target' = target
  BY Zenon DEF on_callback
<1> HIDE DEF r
<1>1. ctx[c].callbacks > 0 /\ Finish(c, wire[c], r) /\ refused' = refused
  BY <1>0, Zenon DEF coreVars
<1>2. Context(c, ctx[c]) /\ QueueOK(queue) /\ AnswersOK(c, wire[c]) /\ target' \in Nat /\ target' >= target
  BY <1>0, Alive DEF SyncInv, Ready
<1>3. Context(c, x0)
  BY <1>1, <1>2, FieldNames DEF Context
<1> HIDE DEF x0
<1>4. Context(c, x1) /\ Context(c, x2)
  BY <1>3, FieldNames DEF Context, InState
<1> HIDE DEF x1, x2, kick
<1>5. Context(c, x)
  BY <1>3, <1>4
<1> HIDE DEF x
<1>6. Context(c, y) /\ Context(c, z) /\ Settled(z)
  BY <1>5, FieldNames DEF Context, Settled
<1> HIDE DEF y, z
<1>7. OutcomeOK(c, r)
  <2>1. CASE kick /\ x0.score < 0
    BY <1>2, <1>3, <2>1, FailIsOK, Zenon DEF r
  <2>2. CASE ~(kick /\ x0.score < 0) /\ x.state = "synchronizing" /\ x.time = "none"
    BY <1>2, <1>6, <2>2, AskChainIsOK, Zenon DEF r
  <2>3. CASE ~(kick /\ x0.score < 0) /\ ~(x.state = "synchronizing" /\ x.time = "none") /\ x.state = "standby"
    BY <1>2, <1>6, <2>3, OutcomeIsOK DEF r
  <2>4. CASE ~(kick /\ x0.score < 0) /\ ~(x.state = "synchronizing" /\ x.time = "none") /\ x.state # "standby"
    <3>1. Settled(x)
      BY <2>4 DEF Settled
    <3> QED
      BY <1>2, <1>5, <2>4, <3>1, OutcomeIsOK, Zenon DEF r
  <2> QED
    BY <2>1, <2>2, <2>3, <2>4, Zenon
<1> QED
  BY <1>1, <1>2, <1>7, FinishStep

LEMMA ChainEntryStep ==
    ASSUME SyncInv, NEW c \in Conns, handle_response_chain_entry(c)
    PROVE  Steady
<1> DEFINE a == Head(wire[c])
           x == [ctx[c] EXCEPT !.expect = "none", !.time = "none", !.remote = a.total, !.needed = a.ids,
                               !.last_response = a.start + Len(a.ids) - 1, !.via = "chain"]
<1>1. PICK r \in request_missing_objects(c, x, FALSE) \cup {Fail(c, ctx[c], queue)} : FinishVia(c, Tail(wire[c]), r)
  BY Zenon DEF handle_response_chain_entry
<1>2. refused' = refused /\ Ready(c) /\ wire[c] # << >>
  BY DEF handle_response_chain_entry, coreVars, Answered
<1>3. Context(c, ctx[c]) /\ QueueOK(queue) /\ AnswersOK(c, wire[c])
  BY <1>2, Alive DEF SyncInv, Ready
<1>4. AnswersOK(c, Tail(wire[c])) /\ a.total = Len(Chain[Host[c]])
  BY <1>2, <1>3, NextAnswer
<1> HIDE DEF a
<1>5. Context(c, x)
  BY <1>3, <1>4, FieldNames DEF Context
<1> HIDE DEF x
<1>6. OutcomeOK(c, r)
  BY <1>1, <1>3, <1>5, RequestMissingIsOK, FailIsOK, Zenon
<1> QED
  BY <1>1, <1>2, <1>3, <1>4, <1>6, FinishViaStep

LEMMA ObjectsStep ==
    ASSUME SyncInv, NEW c \in Conns, handle_response_get_objects(c)
    PROVE  Steady
<1> DEFINE a == Head(wire[c])
           x == [ctx[c] EXCEPT !.expect = "none", !.time = "none", !.remote = a.total]
           y == [x EXCEPT !.requested = {}, !.last_known = Last(a.blocks), !.pc = "try"]
           added == add_blocks(queue, HeightOf(a.blocks[1]), a.blocks, c)
<1>1. PICK r \in {Fail(c, ctx[c], queue), Fail(c, x, queue), Outcome(y, added)} : Finish(c, Tail(wire[c]), r)
  BY DEF handle_response_get_objects
<1>2. /\ refused' = refused /\ Ready(c) /\ wire[c] # << >>
      /\ target' = target \/ target' = Max({target, a.total})
  BY DEF handle_response_get_objects, coreVars, Answered
<1>3. Context(c, ctx[c]) /\ QueueOK(queue) /\ AnswersOK(c, wire[c]) /\ target \in Nat
  BY <1>2, Alive DEF SyncInv, Ready
<1>4. AnswersOK(c, Tail(wire[c])) /\ a.total = Len(Chain[Host[c]])
  BY <1>2, <1>3, NextAnswer, Zenon
<1> HIDE DEF a
<1>5. target' \in Nat /\ target' >= target
  BY <1>2, <1>3, <1>4, ChainLengths, MaxOfTwo
<1>6. Context(c, x)
  BY <1>3, <1>4, FieldNames DEF Context
<1> HIDE DEF x
<1>7. Context(c, y) /\ Settled(y)
  BY <1>6, FieldNames DEF Context, Settled
<1>8. QueueOK(added)
  BY <1>3, AddBlocksIsOK
<1> HIDE DEF y, added
<1>9. OutcomeOK(c, r)
  BY <1>1, <1>3, <1>6, <1>7, <1>8, FailIsOK, OutcomeIsOK
<1> QED
  BY <1>1, <1>2, <1>3, <1>4, <1>5, <1>9, FinishStep

LEMMA ResetStep ==
    ASSUME SyncInv, NEW c \in Conns, reset_next_span_time(c)
    PROVE  Steady
<1> DEFINE x == [ctx[c] EXCEPT !.pc = "idle", !.span = NoSpan]
           y == [x EXCEPT !.closing = TRUE, !.pc = "thrown"]
           q == [queue EXCEPT !.spans[FirstStart(queue)].late = FALSE]
<1>1. /\ \/ \E r \in {AskObjects(c, x, q, ctx[c].span)} : FinishVia(c, wire[c], r)
         \/ /\ ctx' = [ctx EXCEPT ![c] = y]
            /\ queue' = queue /\ wire' = wire /\ target' = target /\ synchronized' = synchronized
      /\ UNCHANGED coreVars /\ ctx[c].pc = "reset"
  BY DEF reset_next_span_time, At
<1>2. refused' = refused
  BY <1>1 DEF coreVars
<1>3. Context(c, ctx[c]) /\ QueueOK(queue) /\ AnswersOK(c, wire[c])
  BY <1>1, Alive DEF SyncInv
<1>4. Context(c, x)
  BY <1>3, FieldNames DEF Context
<1> HIDE DEF x
<1>5. Context(c, y) /\ Settled(y)
  BY <1>4, FieldNames DEF Context, Settled
<1>6. QueueOK(q)
  BY <1>3, LateIsOK, Zenon
<1> HIDE DEF y, q
<1>7. OutcomeOK(c, AskObjects(c, x, q, ctx[c].span))
  BY <1>4, <1>6, AskObjectsIsOK
<1>8. CASE \E r \in {AskObjects(c, x, q, ctx[c].span)} : FinishVia(c, wire[c], r)
  BY <1>2, <1>3, <1>7, <1>8, FinishViaStep
<1>9. CASE /\ ctx' = [ctx EXCEPT ![c] = y]
           /\ queue' = queue /\ wire' = wire /\ target' = target /\ synchronized' = synchronized
  BY <1>2, <1>3, <1>5, <1>9, SteadyStep, Zenon
<1> QED
  BY <1>1, <1>8, <1>9

LEMMA RequestMissingStep ==
    ASSUME SyncInv, NEW c \in Conns, RequestMissing(c)
    PROVE  Steady
<1> DEFINE x == [ctx[c] EXCEPT !.pc = "idle", !.force = FALSE]
<1>1. PICK r \in request_missing_objects(c, x, ctx[c].force) : FinishVia(c, wire[c], r)
  BY DEF RequestMissing
<1>2. refused' = refused /\ ctx[c].pc = "request"
  BY DEF RequestMissing, coreVars, At
<1>3. Context(c, ctx[c]) /\ QueueOK(queue) /\ AnswersOK(c, wire[c])
  BY <1>2, Alive DEF SyncInv
<1>4. Context(c, x)
  BY <1>3, FieldNames, Zenon DEF Context
<1> HIDE DEF x
<1>5. OutcomeOK(c, r)
  BY <1>1, <1>3, <1>4, RequestMissingIsOK
<1> QED
  BY <1>1, <1>2, <1>3, <1>5, FinishViaStep

\* The steps of a handler that leave it at another place than "idle".
LEMMA PlaceStep ==
    ASSUME SyncInv, NEW c \in Conns, NEW x, ctx' = [ctx EXCEPT ![c] = x], Context(c, ctx[c]),
           DOMAIN x = Fields, x.callbacks = ctx[c].callbacks, x.state = ctx[c].state, x.remote = ctx[c].remote,
           x.pc # "idle", wire' = wire, synchronized' = synchronized, target' = target,
           QueueOK(queue'), refused' = refused
    PROVE  Steady
<1>1. Context(c, x) /\ Settled(x)
  BY DEF Context, Settled
<1> QED
  BY <1>1, SteadyStep, Zenon

LEMMA LoopStep ==
    ASSUME SyncInv, NEW c \in Conns,
           TryLock(c) \/ LeaveLoop(c) \/ UnknownParent(c) \/ AddSpan(c)
    PROVE  Steady
<1> DEFINE x == ctx[c]
           Same(y) == DOMAIN y = Fields /\ y.callbacks = x.callbacks /\ y.state = x.state /\ y.remote = x.remote
                      /\ y.pc # "idle"
<1>0. /\ refused' = refused /\ wire' = wire /\ synchronized' = synchronized /\ target' = target
      /\ x.pc \in {"try", "loop"}
  BY Zenon DEF TryLock, LeaveLoop, UnknownParent, AddSpan, coreVars, At
<1>1. Context(c, x) /\ DOMAIN x = Fields /\ QueueOK(queue) /\ DOMAIN ctx = Conns
  BY <1>0, Alive DEF SyncInv, Context
<1>2. CASE TryLock(c)
  <2> DEFINE y == [x EXCEPT !.pc = "loop"]
             z == [x EXCEPT !.pc = "request", !.force = FALSE]
  <2>1. /\ ctx' = [ctx EXCEPT ![c].pc = "loop"] \/ ctx' = [ctx EXCEPT ![c].pc = "request", ![c].force = FALSE]
        /\ queue' = queue
    BY <1>2 DEF TryLock, GoTo
  <2>2. ctx' = [ctx EXCEPT ![c] = y] \/ ctx' = [ctx EXCEPT ![c] = z]
    BY <1>1, <2>1, Zenon
  <2>3. Same(y) /\ Same(z)
    BY <1>1, FieldNames
  <2> HIDE DEF y, z
  <2> QED
    BY <1>0, <1>1, <2>1, <2>2, <2>3, PlaceStep
<1>3. CASE LeaveLoop(c)
  <2> DEFINE force == should_download_next_span(x, queue, FALSE, FALSE)
             y == [x EXCEPT !.pc = "request", !.force = force]
  <2>1. ctx' = [ctx EXCEPT ![c].pc = "request", ![c].force = force] /\ queue' = queue
    BY <1>3 DEF LeaveLoop
  <2> HIDE DEF force
  <2>2. ctx' = [ctx EXCEPT ![c] = y]
    BY <1>1, <2>1, Zenon
  <2>3. Same(y)
    BY <1>1, FieldNames
  <2> HIDE DEF y
  <2> QED
    BY <1>0, <1>1, <2>1, <2>2, <2>3, PlaceStep, Zenon
<1>4. CASE UnknownParent(c)
  <2> DEFINE y == [x EXCEPT !.pc = "request", !.force = FALSE]
             z == [x EXCEPT !.pc = "request", !.force = FALSE, !.needed = << >>, !.last_response = 0]
  <2>1. /\ ctx' = [ctx EXCEPT ![c] = y] \/ ctx' = [ctx EXCEPT ![c] = z]
        /\ queue' \in {queue, remove_spans(queue, NextSpan.owner, NextSpan.start)}
    BY <1>4, Zenon DEF UnknownParent
  <2>2. Same(y) /\ Same(z)
    BY <1>1, FieldNames
  <2>3. QueueOK(queue')
    BY <1>1, <2>1, FlushIsOK
  <2> HIDE DEF y, z
  <2> QED
    BY <1>0, <1>1, <2>1, <2>2, <2>3, PlaceStep
<1>5. CASE AddSpan(c)
  <2> DEFINE owner == NextSpan.owner
             start == NextSpan.start
  <2>1. PICK pc \in {"added", "crossed"} :
               /\ ctx' = [ctx EXCEPT ![c].pc = pc, ![c].owner = owner, ![c].span.start = start]
               /\ queue' = queue
    BY <1>5, Zenon DEF AddSpan
  <2> DEFINE y == [x EXCEPT !.pc = pc, !.owner = owner, !.span.start = start]
  <2> HIDE DEF owner, start
  <2>2. ctx' = [ctx EXCEPT ![c] = y]
    BY <1>1, <2>1, Zenon
  <2>3. Same(y)
    BY <1>1, FieldNames
  <2> HIDE DEF y
  <2> QED
    BY <1>0, <1>1, <2>1, <2>2, <2>3, PlaceStep, ZenonT(30)
<1> QED
  BY <1>2, <1>3, <1>4, <1>5

\* The other connections may get a callback, which never hurts.
LEMMA RemoveStep ==
    ASSUME SyncInv, NEW c \in Conns, RemoveSpan(c)
    PROVE  Steady
<1> DEFINE x == ctx[c]
           y == [x EXCEPT !.pc = "loop", !.owner = NoOne, !.span = NoSpan]
<1>1. /\ refused' = refused /\ wire' = wire /\ synchronized' = synchronized /\ target' = target
      /\ queue' = remove_spans(queue, x.owner, x.span.start) /\ x.pc # "idle"
  BY Zenon DEF RemoveSpan, coreVars, At
<1>2. /\ DOMAIN ctx' = Conns /\ ctx'[c] = y
      /\ \A d \in Conns : d # c => ctx'[d] = ctx[d] \/ ctx'[d] = notify_new_stripe(ctx[d])
  BY Zenon DEF RemoveSpan
<1>3. Context(c, x) /\ QueueOK(queue) /\ target \in Nat
  BY <1>1, Alive DEF SyncInv
<1>4. QueueOK(queue')
  BY <1>1, <1>3, FlushIsOK
<1>5. Context(c, y) /\ Settled(y)
  BY <1>3, FieldNames DEF Context, Settled
<1> HIDE DEF y
<1>6. ASSUME NEW d \in Conns
      PROVE  /\ Closed(ctx[d]) => Closed(ctx'[d])
             /\ Closed(ctx'[d]) \/ Context(d, ctx'[d])
             /\ Settled(ctx[d]) => Settled(ctx'[d])
  <2>1. CASE d = c
    BY <1>2, <1>3, <1>5, <2>1, Zenon DEF Closed, Context
  <2>2. CASE d # c /\ ctx'[d] = ctx[d]
    BY <2>2, Zenon DEF SyncInv
  <2>3. CASE d # c /\ ctx'[d] = notify_new_stripe(ctx[d]) /\ ctx[d].state = "normal"
    <3> DEFINE z == [WithCallback(ctx[d]) EXCEPT !.new_stripe = TRUE]
    <3>1. ctx'[d] = z
      BY <2>3 DEF notify_new_stripe
    <3>2. Context(d, ctx[d]) /\ ~Closed(ctx[d])
      BY <2>3 DEF SyncInv, Closed
    <3>3. Context(d, z) /\ Settled(z)
      BY <3>2, FieldNames DEF Context, Settled, WithCallback
    <3> HIDE DEF z
    <3> QED
      BY <3>1, <3>2, <3>3
  <2>4. CASE d # c /\ ctx'[d] = notify_new_stripe(ctx[d]) /\ ctx[d].state # "normal"
    <3>1. ctx'[d] = ctx[d]
      BY <2>4 DEF notify_new_stripe
    <3> QED
      BY <2>2, <2>4, <3>1
  <2> QED
    BY <1>2, <2>1, <2>2, <2>3, <2>4, Zenon
<1>7. SyncInv'
  BY <1>1, <1>2, <1>3, <1>4, <1>6, Zenon DEF SyncInv
<1>8. target' >= target
  BY <1>1, <1>3
<1> QED
  BY <1>1, <1>6, <1>7, <1>8, ZenonT(30) DEF Steady, Honest

LEMMA RefuseStep ==
    ASSUME SyncInv, NEW c \in Conns, RefuseSpan(c)
    PROVE  Steady
<1> DEFINE dropped == {d \in live_connections : Host[d] = Host[NextSpan.owner]}
           spans   == {h \in Starts(queue) : queue.spans[h].conn \in dropped}
           rest    == Erase(queue, spans)
<1>1. /\ queue' \in {rest, remove_spans(rest, NextSpan.owner, NextSpan.start)}
      /\ ctx' = [d \in Conns |-> [ctx[d] EXCEPT !.closing = @ \/ d \in dropped, !.pc = IF d = c THEN "idle" ELSE @]]
      /\ refused' = TRUE /\ wire' = wire /\ synchronized' = synchronized /\ target' = target
  BY Zenon DEF RefuseSpan
<1>2. QueueOK(rest)
  BY EraseIsOK, Zenon DEF SyncInv
<1> HIDE DEF dropped, rest
<1>3. QueueOK(queue')
  BY <1>1, <1>2, FlushIsOK, Zenon
<1>4. ASSUME NEW d \in Conns
      PROVE  (Closed(ctx[d]) => Closed(ctx'[d])) /\ (Closed(ctx'[d]) \/ Context(d, ctx'[d]))
  <2> DEFINE closing == ctx[d].closing \/ d \in dropped
             pc == IF d = c THEN "idle" ELSE ctx[d].pc
             y == [ctx[d] EXCEPT !.closing = closing, !.pc = pc]
  <2>1. ctx'[d] = y
    BY <1>1, Zenon
  <2>2. pc = ctx[d].pc \/ pc = "idle"
    OBVIOUS
  <2> HIDE DEF closing, pc
  <2>3. (Closed(ctx[d]) => Closed(y)) /\ (Context(d, ctx[d]) => Context(d, y))
    BY <2>2, FieldNames, Zenon DEF Closed, Context
  <2> HIDE DEF y
  <2> QED
    BY <2>1, <2>3, Zenon DEF SyncInv
<1>5. SyncInv'
  BY <1>1, <1>3, <1>4, Zenon DEF SyncInv
<1>6. target' = target /\ target \in Nat
  BY <1>1, Zenon DEF SyncInv
<1>7. target' >= target
  BY <1>6
<1> QED
  BY <1>1, <1>4, <1>5, <1>7, Zenon DEF Steady, Honest

\* The steps of the network, of time and of the timers.
LEMMA TimeStep ==
    ASSUME SyncInv, NEW c \in Conns,
           Lose(c) \/ handle_request_get_objects(c) \/ RequestAges(c) \/ kick_idle_peers(c) \/ check_standby_peers(c)
    PROVE  Steady
<1> DEFINE x == ctx[c]
<1>0. /\ x.state # "closed" \/ x.time # "none"
      /\ queue' = queue /\ wire' = wire /\ synchronized' = synchronized /\ target' = target /\ refused' = refused
  BY Zenon DEF Lose, handle_request_get_objects, RequestAges, kick_idle_peers, check_standby_peers, Ready, coreVars
<1>1. Context(c, x) /\ QueueOK(queue') /\ DOMAIN ctx = Conns
  BY <1>0, Alive DEF SyncInv
<1>2. CASE Lose(c)
  <2> DEFINE y == [x EXCEPT !.closing = TRUE]
  <2>1. ctx' = [ctx EXCEPT ![c] = y]
    BY <1>1, <1>2 DEF Lose
  <2>2. Context(c, y) /\ Settled(y)
    BY <1>1, FieldNames DEF Context, Settled
  <2> HIDE DEF y
  <2> QED
    BY <1>0, <1>1, <2>1, <2>2, SteadyStep, Zenon
<1>3. CASE handle_request_get_objects(c) \/ RequestAges(c)
  <2>1. PICK time \in {"new", "old"} : ctx' = [ctx EXCEPT ![c].time = time]
    BY <1>3 DEF handle_request_get_objects, RequestAges
  <2> DEFINE y == [x EXCEPT !.time = time]
  <2>2. ctx' = [ctx EXCEPT ![c] = y]
    BY <1>1, <2>1
  <2>3. Context(c, y) /\ Settled(y)
    BY <1>1, FieldNames DEF Context, Settled
  <2> HIDE DEF y
  <2> QED
    BY <1>0, <1>1, <2>2, <2>3, SteadyStep, Zenon
<1>4. CASE kick_idle_peers(c)
  <2> DEFINE y == [WithCallback(x) EXCEPT !.idle = TRUE]
  <2>1. ctx' = [ctx EXCEPT ![c] = y]
    BY <1>4 DEF kick_idle_peers
  <2>2. Context(c, y) /\ Settled(y)
    BY <1>1, FieldNames DEF Context, Settled, WithCallback
  <2> HIDE DEF y
  <2> QED
    BY <1>0, <1>1, <2>1, <2>2, SteadyStep, Zenon
<1>5. CASE check_standby_peers(c)
  <2>1. ctx' = [ctx EXCEPT ![c] = WithCallback(x)]
    BY <1>5 DEF check_standby_peers
  <2> QED
    BY <1>0, <1>1, <2>1, WithCallbackIsContext, SteadyStep, Zenon
<1> QED
  BY <1>2, <1>3, <1>4, <1>5

LEMMA NoConnectionIsClosed == Closed(NoConnection) /\ Settled(NoConnection)
BY Zenon DEF NoConnection, Closed, Settled, Fields

\* A connection opens, tells its height, or closes.
ComesOrGoes(c) == Connect(c) \/ TimedSync(c) \/ on_connection_close(c)

LEMMA SteadySteps ==
    ASSUME SyncInv, [Next]_vars
    PROVE  Steady \/ \E c \in Conns : ComesOrGoes(c)
<1>1. CASE SpanAges
  <2>1. /\ queue' = [queue EXCEPT !.spans[FirstStart(queue)].late = TRUE] /\ ctx' = ctx /\ refused' = refused
        /\ wire' = wire /\ target' = target /\ synchronized' = synchronized
    BY <1>1 DEF SpanAges, coreVars
  <2>2. QueueOK(queue')
    BY <2>1, LateIsOK DEF SyncInv
  <2> QED
    BY <2>1, <2>2 DEF Steady, Honest, SyncInv
<1>2. CASE AddEndAges \/ UNCHANGED vars
  <2>1. /\ queue' = queue /\ ctx' = ctx /\ refused' = refused
        /\ wire' = wire /\ target' = target /\ synchronized' = synchronized
    BY <1>2 DEF AddEndAges, vars, coreVars
  <2> QED
    BY <2>1 DEF Steady, Honest, SyncInv
<1>3. ASSUME NEW c \in Conns, HandlerStep(c)
      PROVE  Steady
  BY <1>3, LoopStep, RemoveStep, RefuseStep, RequestMissingStep, ResetStep DEF HandlerStep
<1>4. ASSUME NEW c \in Conns, AnswerArrives(c)
      PROVE  Steady
  BY <1>4, ChainEntryStep, ObjectsStep DEF AnswerArrives
<1> QED
  BY <1>1, <1>2, <1>3, <1>4, TimeStep, CallbackStep DEF Next, Timer, ComesOrGoes

-----------------------------------------------------------------------------
(* The core: heights of blocks, and a tip that never moves down.           *)

LEMMA Paths ==
    ASSUME NEW b \in Blocks
    PROVE  \E p \in Peers : \E i \in 1..Len(Chain[p]) :
              Chain[p][i] = b /\ PathTo[b] = SubSeq(Chain[p], 1, i) /\ Len(PathTo[b]) = i
<1> DEFINE p == CHOOSE p \in Peers : b \in Range(Chain[p])
           i == CHOOSE i \in DOMAIN Chain[p] : Chain[p][i] = b
<1>1. PathTo[b] = SubSeq(Chain[p], 1, i)
  BY Zenon DEF PathTo
<1>2. p \in Peers /\ b \in Range(Chain[p])
  BY DEF Blocks
<1> HIDE DEF p
<1>3. i \in DOMAIN Chain[p] /\ Chain[p][i] = b
  BY <1>2 DEF Range
<1> HIDE DEF i
<1>4. Chain[p] \in Seq(Range(Chain[p]))
  BY <1>2, SyncAssumption
<1>5. i \in 1..Len(Chain[p]) /\ Len(SubSeq(Chain[p], 1, i)) = i
  BY <1>3, <1>4
<1> QED
  BY <1>1, <1>2, <1>3, <1>5

LEMMA HeightsAreNat ==
    ASSUME NEW b \in Blocks
    PROVE  HeightOf(b) \in Nat
<1>1. PICK p \in Peers : \E i \in 1..Len(Chain[p]) : Len(PathTo[b]) = i
  BY Paths
<1>2. Chain[p] \in Seq(Range(Chain[p]))
  BY SyncAssumption
<1> QED
  BY <1>1, <1>2 DEF HeightOf

LEMMA GenesisIsABlock == Genesis \in Blocks
<1>1. PICK p \in Peers : Chain[p] \in Seq(Range(Chain[p])) /\ Len(Chain[p]) > 0
  BY SyncAssumption
<1> DEFINE b == Chain[p][1]
<1>2. 1 \in DOMAIN Chain[p] /\ b \in Range(Chain[p]) /\ Len(SubSeq(Chain[p], 1, 1)) = 1
  BY <1>1 DEF Range
<1>3. b \in Blocks
  BY <1>2 DEF Blocks
<1>4. PICK o \in Peers : \E j \in 1..Len(Chain[o]) : Chain[o][j] = b /\ PathTo[b] = SubSeq(Chain[o], 1, j)
  BY <1>3, Paths
<1>5. PICK j \in 1..Len(Chain[o]) : Chain[o][j] = b /\ PathTo[b] = SubSeq(Chain[o], 1, j)
  BY <1>4
<1>6. j \in DOMAIN Chain[o]
  <2>1. Chain[o] \in Seq(Range(Chain[o]))
    BY SyncAssumption
  <2> QED
    BY <1>5, <2>1
<1>7. SubSeq(Chain[p], 1, 1) = SubSeq(Chain[o], 1, j)
  <2>1. \A k \in DOMAIN Chain[p] : \A l \in DOMAIN Chain[o] :
           Chain[p][k] = Chain[o][l] => SubSeq(Chain[p], 1, k) = SubSeq(Chain[o], 1, l)
    BY SyncAssumption
  <2>2. Chain[p][1] = Chain[o][j]
    BY <1>5
  <2> QED
    BY <1>2, <1>6, <2>1, <2>2, Zenon
<1>8. Len(PathTo[b]) = 1
  BY <1>2, <1>5, <1>7
<1> HIDE DEF b
<1> QED
  BY <1>3, <1>8 DEF Genesis

LEMMA TipRises ==
    ASSUME tip \in Blocks, NEW added
    PROVE  HeaviestTip(added) \in Blocks /\ HeightOf(HeaviestTip(added)) >= HeightOf(tip)
<1> DEFINE higher == {b \in added \cap Blocks : HeightOf(b) > HeightOf(tip)
                                                /\ \A a \in added : HeightOf(a) <= HeightOf(b)}
           best == CHOOSE b \in higher : TRUE
<1>1. HeaviestTip(added) = IF higher = {} THEN tip ELSE best
  BY DEF HeaviestTip
<1>2. CASE higher = {}
  BY <1>1, <1>2, HeightsAreNat
<1>3. CASE higher # {}
  <2>1. best \in higher
    BY <1>3
  <2>2. best \in Blocks /\ HeightOf(best) > HeightOf(tip)
    BY <2>1
  <2> HIDE DEF best, higher
  <2>3. HeightOf(best) \in Nat /\ HeightOf(tip) \in Nat
    BY <2>2, HeightsAreNat
  <2> QED
    BY <1>1, <1>3, <2>2, <2>3
<1> QED
  BY <1>2, <1>3

\* The core only learns, and its chain only grows.
CoreGrows ==
    /\ tip' \in Blocks /\ HeightOf(tip') >= HeightOf(tip)
    /\ known \subseteq known' /\ invalid \subseteq invalid'

LEMMA CoreSteps ==
    ASSUME tip \in Blocks, [Next]_vars
    PROVE  CoreGrows
<1>1. ASSUME NEW c \in Conns, AddSpan(c) \/ RefuseSpan(c)
      PROVE  CoreGrows
  <2>1. (tip' = tip \/ \E added : tip' = HeaviestTip(added)) /\ known \subseteq known' /\ invalid \subseteq invalid'
    BY <1>1, Zenon DEF AddSpan, RefuseSpan
  <2> QED
    BY <2>1, TipRises, HeightsAreNat DEF CoreGrows
<1>2. CASE UNCHANGED coreVars
  BY <1>2, HeightsAreNat DEF coreVars, CoreGrows
<1>3. ASSUME NEW c \in Conns, HandlerStep(c)
      PROVE  AddSpan(c) \/ RefuseSpan(c) \/ UNCHANGED coreVars
  BY <1>3, Zenon DEF HandlerStep, TryLock, LeaveLoop, UnknownParent, RemoveSpan, RequestMissing, reset_next_span_time
<1>4. ASSUME NEW c \in Conns, AnswerArrives(c) \/ Timer(c) \/ Connect(c) \/ on_callback(c)
      PROVE  UNCHANGED coreVars
  BY <1>4, Zenon DEF AnswerArrives, handle_response_chain_entry, handle_response_get_objects, Timer, TimedSync,
              SyncData, kick_idle_peers, check_standby_peers, Connect, on_callback
<1>5. ASSUME NEW c \in Conns, Lose(c) \/ on_connection_close(c) \/ handle_request_get_objects(c) \/ RequestAges(c)
      PROVE  UNCHANGED coreVars
  BY <1>5, Zenon DEF Lose, on_connection_close, handle_request_get_objects, RequestAges
<1>6. CASE SpanAges \/ AddEndAges \/ UNCHANGED vars
  <2>1. UNCHANGED coreVars
    BY <1>6 DEF SpanAges, AddEndAges, vars, coreVars
  <2> QED
    BY <1>2, <2>1
<1> QED
  BY <1>1, <1>2, <1>3, <1>4, <1>5, <1>6 DEF Next

-----------------------------------------------------------------------------
(* The target.                                                             *)

\* The node aims as high as every peer it is connected to, unless it has that many
\* blocks or the peer's top block is one it knows.
Aimed(c) ==
    \/ ctx[c].remote <= target \/ ctx[c].remote <= get_current_blockchain_height
    \/ have_block(Last(Chain[Host[c]]))

TargetInv == tip \in Blocks /\ \A c \in Conns : Aimed(c)

LEMMA CloseStep ==
    ASSUME SyncInv, NEW c \in Conns, on_connection_close(c)
    PROVE  /\ SyncInv' /\ Honest
           /\ \A d \in Conns : ctx'[d].remote <= target' \/ (d # c /\ target' <= target /\ ~(ctx[d].remote <= target))
<1> DEFINE remotes == {0} \cup {ctx[d].remote : d \in live_connections \ {c}}
           most == Max(remotes)
<1>1. /\ target' = Min({target, most}) /\ queue' = flush_spans(queue, c, FALSE)
      /\ ctx' = [ctx EXCEPT ![c] = NoConnection] /\ wire' = [wire EXCEPT ![c] = << >>]
      /\ refused' = refused /\ synchronized' = synchronized
  BY DEF on_connection_close, coreVars
<1>2. \A d \in live_connections \ {c} : ctx[d].remote = Len(Chain[Host[d]]) /\ Host[d] \in Peers
  BY SyncAssumption, Zenon DEF live_connections, SyncInv, Closed, Context
<1>3. PICK p \in Peers : \A o \in Peers : Len(Chain[o]) <= Len(Chain[p])
  BY SyncAssumption
<1>4. \A o \in Peers : Len(Chain[o]) \in Nat
  BY SyncAssumption
<1>5. remotes \in SUBSET (0 .. Len(Chain[p])) /\ 0 \in remotes
  BY <1>2, <1>3, <1>4
<1>6. \A d \in live_connections \ {c} : ctx[d].remote \in remotes
  OBVIOUS
<1> HIDE DEF remotes
<1>7. most \in remotes /\ \A n \in remotes : most >= n
  BY <1>3, <1>4, <1>5, MaxOf, Zenon
<1> HIDE DEF most
<1>8. most \in Nat /\ target \in Nat
  <2>1. most \in 0 .. Len(Chain[p]) /\ Len(Chain[p]) \in Nat
    BY <1>4, <1>5, <1>7
  <2> QED
    BY <2>1 DEF SyncInv
<1>9. target' \in Nat /\ (target' = target \/ target' = most) /\ target' <= target
  <2>1. \E x \in {target, most} : \A y \in {target, most} : x <= y
    BY <1>8
  <2> QED
    BY <1>1, <1>8, <2>1, Zenon DEF Min
<1>10. QueueOK(queue')
  BY <1>1, FlushIsOK, Zenon DEF SyncInv
<1>11. /\ DOMAIN ctx' = Conns /\ ctx'[c] = NoConnection /\ \A d \in Conns : d # c => ctx'[d] = ctx[d]
       /\ DOMAIN wire' = Conns /\ wire'[c] = << >> /\ \A d \in Conns : d # c => wire'[d] = wire[d]
  BY <1>1 DEF SyncInv
<1>12. SyncInv'
  <2>1. \A d \in Conns : Closed(ctx'[d]) \/ Context(d, ctx'[d])
    BY <1>11, NoConnectionIsClosed, ZenonT(30) DEF SyncInv
  <2>2. \A d \in Conns : AnswersOK(d, wire'[d])
    BY <1>11, NoAnswer DEF SyncInv
  <2>3. refused' \/ \A d \in Conns : Settled(ctx'[d])
    BY <1>1, <1>11, NoConnectionIsClosed, Zenon DEF SyncInv
  <2> QED
    BY <1>9, <1>10, <1>11, <2>1, <2>2, <2>3 DEF SyncInv
<1>13. ASSUME NEW d \in Conns
       PROVE  ctx'[d].remote <= target' \/ (d # c /\ target' <= target /\ ~(ctx[d].remote <= target))
  <2>1. CASE d = c \/ ctx[d].state = "closed"
    <3>1. Closed(ctx'[d])
      BY <1>11, <2>1, NoConnectionIsClosed, Zenon DEF SyncInv, Context
    <3> QED
      BY <1>9, <3>1 DEF Closed
  <2>2. CASE d # c /\ ctx[d].state # "closed"
    <3>1. d \in live_connections \ {c} /\ ctx'[d] = ctx[d]
      BY <1>11, <2>2 DEF live_connections
    <3>2. ctx[d].remote <= most /\ ctx[d].remote \in Nat
      BY <1>2, <1>4, <1>6, <1>7, <1>8, <3>1, Zenon
    <3> QED
      BY <1>8, <1>9, <2>2, <3>1, <3>2, Zenon
  <2> QED
    BY <2>1, <2>2
<1> QED
  BY <1>1, <1>12, <1>13, Zenon DEF Honest

LEMMA ComeStep ==
    ASSUME SyncInv, tip \in Blocks, NEW c \in Conns, Connect(c) \/ TimedSync(c)
    PROVE  /\ SyncInv' /\ Honest /\ target' >= target
           /\ Context(c, ctx'[c]) /\ \A d \in Conns : d # c => ctx'[d] = ctx[d]
           /\ \/ have_block(Last(Chain[Host[c]]))
              \/ ctx'[c].remote <= target' \/ ctx'[c].remote <= get_current_blockchain_height
<1>1. SyncData(c, NoConnection, TRUE) \/ SyncData(c, ctx[c], FALSE)
  BY Zenon DEF Connect, TimedSync
<1>2. DOMAIN NoConnection = Fields /\ NoConnection.callbacks \in Nat
  BY NoConnectionIsClosed DEF Closed
<1>3. DOMAIN ctx[c] = Fields /\ ctx[c].callbacks \in Nat
  <2>1. Closed(ctx[c]) \/ Context(c, ctx[c])
    BY DEF SyncInv
  <2> QED
    BY <2>1 DEF Closed, Context
<1>4. get_current_blockchain_height \in Nat
  BY HeightsAreNat DEF get_current_blockchain_height
<1> QED
  BY <1>1, <1>2, <1>3, <1>4, SyncDataStep, Zenon

LEMMA SyncKeeps ==
    ASSUME SyncInv, tip \in Blocks, [Next]_vars
    PROVE  SyncInv' /\ Honest
BY SteadySteps, ComeStep, CloseStep DEF Steady, ComesOrGoes

LEMMA TargetKeeps ==
    ASSUME SyncInv, TargetInv, [Next]_vars
    PROVE  TargetInv'
<1>1. CoreGrows /\ SyncInv'
  BY CoreSteps, SyncKeeps DEF TargetInv
<1>2. HeightOf(tip) \in Nat /\ HeightOf(tip') \in Nat
  BY <1>1, HeightsAreNat DEF TargetInv, CoreGrows
<1>3. get_current_blockchain_height' = HeightOf(tip') + 1 /\ get_current_blockchain_height = HeightOf(tip) + 1
  BY DEF get_current_blockchain_height
<1>4. \A b : have_block(b) => have_block(b)'
  BY <1>1 DEF CoreGrows, have_block
<1>5. target \in Nat /\ target' \in Nat /\ \A d \in Conns : ctx[d].remote \in Nat /\ ctx'[d].remote \in Nat
  <2>1. /\ target \in Nat /\ target' \in Nat
        /\ \A d \in Conns : Closed(ctx[d]) \/ Context(d, ctx[d])
        /\ \A d \in Conns : Closed(ctx'[d]) \/ Context(d, ctx'[d])
    BY <1>1, Zenon DEF SyncInv
  <2> QED
    <3>1. ASSUME NEW d \in Conns
          PROVE  ctx[d].remote \in Nat /\ ctx'[d].remote \in Nat
      <4>1. Closed(ctx[d]) \/ Context(d, ctx[d])
        BY <2>1
      <4>2. Closed(ctx'[d]) \/ Context(d, ctx'[d])
        BY <2>1
      <4>3. ctx[d].remote \in Nat
        BY <4>1, ChainLengths DEF Closed, Context
      <4>4. ctx'[d].remote \in Nat
        BY <4>2, ChainLengths DEF Closed, Context
      <4> QED
        BY <4>3, <4>4
    <3> QED
      BY <2>1, <3>1
<1>6. ASSUME NEW d \in Conns, ctx'[d].remote = ctx[d].remote, target' >= target \/ ~(ctx[d].remote <= target)
      PROVE  Aimed(d)'
  <2>1. CASE have_block(Last(Chain[Host[d]]))
    BY <1>4, <2>1 DEF Aimed
  <2>2. CASE ctx[d].remote <= target
    BY <1>5, <1>6, <2>2 DEF Aimed
  <2>3. CASE ctx[d].remote <= get_current_blockchain_height
    <3>1. ctx'[d].remote <= get_current_blockchain_height'
      BY <1>1, <1>2, <1>3, <1>5, <1>6, <2>3 DEF CoreGrows
    <3> QED
      BY <3>1, Zenon DEF Aimed
  <2> QED
    BY <2>1, <2>2, <2>3, Zenon DEF TargetInv, Aimed
<1>7. CASE Steady
  <2>1. ASSUME NEW d \in Conns
        PROVE  Aimed(d)'
    <3>1. CASE Closed(ctx[d])
      <4>1. ctx'[d].remote = 0
        BY <1>7, <3>1 DEF Steady, Closed
      <4>2. ctx'[d].remote <= target'
        BY <1>5, <4>1
      <4> QED
        BY <4>2, Zenon DEF Aimed
    <3>2. CASE Context(d, ctx[d])
      <4>1. Closed(ctx'[d]) \/ Context(d, ctx'[d])
        BY <1>1 DEF SyncInv
      <4>2. CASE Closed(ctx'[d])
        <5>1. ctx'[d].remote = 0
          BY <4>2, Zenon DEF Closed
        <5>2. ctx'[d].remote <= target'
          BY <1>5, <5>1
        <5> QED
          BY <5>2 DEF Aimed
      <4>3. CASE Context(d, ctx'[d])
        BY <1>6, <1>7, <3>2, <4>3 DEF Context, Steady
      <4> QED
        BY <4>1, <4>2, <4>3, Zenon
    <3> QED
      BY <3>1, <3>2 DEF SyncInv
  <2> QED
    BY <1>1, <2>1, Zenon DEF TargetInv, CoreGrows
<1>8. ASSUME NEW c \in Conns, Connect(c) \/ TimedSync(c)
      PROVE  TargetInv'
  <2>1. /\ target' >= target /\ \A d \in Conns : d # c => ctx'[d] = ctx[d]
        /\ \/ have_block(Last(Chain[Host[c]]))
           \/ ctx'[c].remote <= target' \/ ctx'[c].remote <= get_current_blockchain_height
    BY <1>8, ComeStep, Zenon DEF TargetInv
  <2>2. Aimed(c)'
    <3>1. ctx'[c].remote <= get_current_blockchain_height => ctx'[c].remote <= get_current_blockchain_height'
      BY <1>1, <1>2, <1>3, <1>5 DEF CoreGrows
    <3> QED
      BY <1>4, <2>1, <3>1 DEF Aimed
  <2>3. \A d \in Conns : d # c => Aimed(d)'
    BY <1>6, <2>1
  <2> QED
    BY <1>1, <2>2, <2>3 DEF TargetInv, CoreGrows
<1>9. ASSUME NEW c \in Conns, on_connection_close(c)
      PROVE  TargetInv'
  <2>1. \A d \in Conns : ctx'[d].remote <= target' \/ (d # c /\ ~(ctx[d].remote <= target))
    BY <1>9, CloseStep, Zenon
  <2>2. \A d \in Conns : d # c => ctx'[d] = ctx[d]
    BY <1>9, Zenon DEF on_connection_close, SyncInv
  <2>3. \A d \in Conns : Aimed(d)'
    BY <1>6, <2>1, <2>2 DEF Aimed
  <2> QED
    BY <1>1, <2>3 DEF TargetInv, CoreGrows
<1> QED
  BY <1>7, <1>8, <1>9, SteadySteps DEF ComesOrGoes

LEMMA SyncInvariant == Spec => [](SyncInv /\ TargetInv)
<1>1. Init => SyncInv
  <2> SUFFICES ASSUME Init PROVE SyncInv
    OBVIOUS
  <2>1. /\ DOMAIN ctx = Conns /\ DOMAIN wire = Conns /\ target \in Nat
        /\ \A c \in Conns : ctx[c] = NoConnection /\ wire[c] = << >>
    BY DEF Init
  <2>2. QueueOK(queue)
    BY EmptyIsOK DEF Init
  <2> QED
    BY <2>1, <2>2, NoConnectionIsClosed, NoAnswer DEF SyncInv
<1>2. Init => TargetInv
  <2> SUFFICES ASSUME Init PROVE TargetInv
    OBVIOUS
  <2>1. tip = Genesis /\ target = 0 /\ \A c \in Conns : ctx[c] = NoConnection
    BY Zenon DEF Init
  <2>2. NoConnection.remote = 0
    BY DEF NoConnection
  <2>3. \A c \in Conns : Aimed(c)
    BY <2>1, <2>2 DEF Aimed
  <2> QED
    BY <2>1, <2>3, GenesisIsABlock DEF TargetInv
<1>3. SyncInv /\ TargetInv /\ [Next]_vars => SyncInv' /\ TargetInv'
  BY SyncKeeps, TargetKeeps DEF TargetInv
<1> QED
  BY <1>1, <1>2, <1>3, PTL DEF Spec

\* requested_hashes and have_blocks name only hashes of spans that are in the queue,
\* whichever connections reserve, fill, flush and remove spans, in any order and at
\* any heights: no hash is taken for requested after the span it was requested in
\* is gone.
THEOREM QueueAccountsForHashes == Spec => []NoHashIsLost
<1>1. SyncInv => NoHashIsLost
  BY DEF SyncInv, QueueOK, NoHashIsLost
<1> QED
  BY <1>1, SyncInvariant, PTL

\* Every path out of on_callback, the two response handlers, try_add_next_blocks and
\* request_missing_objects leaves a connection that synchronises with a request whose
\* age the idle check sees, or a callback, until the blocks of a span are refused.
THEOREM ConnectionsStayAwake == Spec => []OnlyRefusalForgets
<1>1. SyncInv => OnlyRefusalForgets
  <2> SUFFICES ASSUME SyncInv, ~refused, NEW c \in Conns, Forgotten(c) PROVE FALSE
    BY Zenon DEF OnlyRefusalForgets
  <2>1. Settled(ctx[c])
    BY DEF SyncInv
  <2> QED
    BY <2>1 DEF Settled, Forgotten, Ready
<1> QED
  BY <1>1, SyncInvariant, PTL

\* m_synchronized is set, by a handshake or by request_missing_objects, only when the
\* chain is as long as that of every connected peer whose top block is not known:
\* on_connection_close never lowers the target below a peer that is still there, and
\* a handshake with a longer chain may come between any two steps of a handler.
THEOREM SynchronizedMeansCaughtUp == Spec => SynchronizedIsTrue
<1> DEFINE Truth == ~synchronized /\ synchronized' =>
                       \A c \in live_connections :
                           ctx[c].remote <= get_current_blockchain_height \/ have_block(Last(Chain[Host[c]]))
<1>1. SyncInv /\ TargetInv /\ [Next]_vars => [Truth]_vars
  <2> SUFFICES ASSUME SyncInv, TargetInv, [Next]_vars, ~synchronized, synchronized', NEW c \in live_connections
               PROVE  ctx[c].remote <= get_current_blockchain_height \/ have_block(Last(Chain[Host[c]]))
    OBVIOUS
  <2>1. get_current_blockchain_height >= target
    BY SyncKeeps DEF Honest, TargetInv
  <2>2. c \in Conns /\ Aimed(c)
    BY DEF live_connections, TargetInv
  <2>3. target \in Nat /\ get_current_blockchain_height \in Nat /\ ctx[c].remote \in Nat
    <3>1. target \in Nat /\ (Closed(ctx[c]) \/ Context(c, ctx[c])) /\ tip \in Blocks
      BY <2>2 DEF SyncInv, TargetInv
    <3>2. get_current_blockchain_height \in Nat
      BY <3>1, HeightsAreNat DEF get_current_blockchain_height
    <3> QED
      BY <2>2, <3>1, <3>2, RemoteIsNat, Zenon
  <2>4. CASE ctx[c].remote <= target
    BY <2>1, <2>3, <2>4
  <2> QED
    BY <2>2, <2>4 DEF Aimed
<1> QED
  BY <1>1, SyncInvariant, PTL DEF Spec, SynchronizedIsTrue
=============================================================================
