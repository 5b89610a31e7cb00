---------------------------- MODULE RollingMedian ----------------------------
(***************************************************************************)
(* rolling_median.h: the median of the last N values inserted.  data is a  *)
(* circular buffer; heap holds positions of data, the median at 0, a heap  *)
(* of larger values at 1, 2, ... and one of smaller values at -1, -2, ...; *)
(* pos is the inverse of heap.  The module also has the median of          *)
(* misc_language.h, which sorts, and is what the other one must equal.     *)
(***************************************************************************)
EXTENDS Integers, Sequences

LOCAL INSTANCE SequencesExt

\* (a + b) / 2 without overflow.
get_mid(a, b) == a \div 2 + b \div 2 + ((a % 2) + (b % 2)) \div 2

median(v) ==
    LET sorted == SortSeq(v, <)
        n      == Len(v) \div 2
    IN  IF v = << >> THEN 0
        ELSE IF Len(v) % 2 = 1 THEN sorted[n + 1] ELSE get_mid(sorted[n], sorted[n + 1])

-----------------------------------------------------------------------------
\* Positions of the heap in the order in which the first values fill it: 0, -1, 1, -2, ...
FillPosition(n) == ((n + 1) \div 2) * (IF n % 2 = 1 THEN -1 ELSE 1)

clear(N) ==
    [data |-> [n \in 0 .. N - 1 |-> 0],
     pos  |-> [n \in 0 .. N - 1 |-> FillPosition(n)],
     heap |-> [i \in {FillPosition(n) : n \in 0 .. N - 1} |-> CHOOSE n \in 0 .. N - 1 : FillPosition(n) = i],
     idx  |-> 0, minCt |-> 0, maxCt |-> 0, sz |-> 0]

mmless(r, i, j) == r.data[r.heap[i]] < r.data[r.heap[j]]

mmexchange(r, i, j) ==
    [r EXCEPT !.heap = [@ EXCEPT ![i] = r.heap[j], ![j] = r.heap[i]],
              !.pos  = [@ EXCEPT ![r.heap[j]] = i, ![r.heap[i]] = j]]

\* Towards zero, as in C++.
Half(i) == IF i < 0 THEN -((-i) \div 2) ELSE i \div 2

RECURSIVE minSortDown(_, _), maxSortDown(_, _), minSortUp(_, _), maxSortUp(_, _)

minSortDown(r, i) ==
    LET left  == 2 * i
        child == IF left < r.minCt /\ mmless(r, left + 1, left) THEN left + 1 ELSE left
    IN  IF left <= r.minCt /\ mmless(r, child, Half(child))
        THEN minSortDown(mmexchange(r, child, Half(child)), child)
        ELSE r

maxSortDown(r, i) ==
    LET left  == 2 * i
        child == IF left > -r.maxCt /\ mmless(r, left, left - 1) THEN left - 1 ELSE left
    IN  IF left >= -r.maxCt /\ mmless(r, Half(child), child)
        THEN maxSortDown(mmexchange(r, Half(child), child), child)
        ELSE r

\* The new median with whether it has changed.
minSortUp(r, i) ==
    IF i > 0 /\ mmless(r, i, Half(i)) THEN minSortUp(mmexchange(r, i, Half(i)), Half(i))
    ELSE [rm |-> r, top |-> i = 0]

maxSortUp(r, i) ==
    IF i < 0 /\ mmless(r, Half(i), i) THEN maxSortUp(mmexchange(r, Half(i), i), Half(i))
    ELSE [rm |-> r, top |-> i = 0]

-----------------------------------------------------------------------------
\* The three cases of insert, for a value that was put at position p of the heap.

InMinHeap(r, p, v, old, N) ==
    LET full == r.minCt >= (N - 1) \div 2
        up   == minSortUp(IF full THEN r ELSE [r EXCEPT !.minCt = @ + 1], p)
    IN  IF full /\ v > old THEN minSortDown(r, p)
        ELSE IF up.top /\ mmless(up.rm, 0, -1) THEN maxSortDown(mmexchange(up.rm, 0, -1), -1)
        ELSE up.rm

InMaxHeap(r, p, v, old, N) ==
    LET full == r.maxCt >= N \div 2
        up   == maxSortUp(IF full THEN r ELSE [r EXCEPT !.maxCt = @ + 1], p)
    IN  IF full /\ v < old THEN maxSortDown(r, p)
        ELSE IF up.top /\ up.rm.minCt > 0 /\ mmless(up.rm, 1, 0)
        THEN minSortDown(mmexchange(up.rm, 1, 0), 1)
        ELSE up.rm

AtMedian(r) ==
    LET max  == IF r.maxCt > 0 THEN maxSortUp(r, -1) ELSE [rm |-> r, top |-> FALSE]
        rest == IF max.top THEN maxSortDown(max.rm, -1) ELSE max.rm
        min  == IF r.minCt > 0 THEN minSortUp(rest, 1) ELSE [rm |-> rest, top |-> FALSE]
    IN  IF min.top THEN minSortDown(min.rm, 1) ELSE min.rm

insert(r, v, N) ==
    LET p   == r.pos[r.idx]
        old == r.data[r.idx]
        s   == [r EXCEPT !.data[r.idx] = v, !.idx = (r.idx + 1) % N, !.sz = IF r.sz < N THEN r.sz + 1 ELSE N]
    IN  IF p > 0 THEN InMinHeap(s, p, v, old, N)
        ELSE IF p < 0 THEN InMaxHeap(s, p, v, old, N)
        ELSE AtMedian(s)

rolling_median(r) ==
    LET v == r.data[r.heap[0]]
    IN  IF r.minCt < r.maxCt THEN get_mid(v, r.data[r.heap[-1]]) ELSE v
=============================================================================
