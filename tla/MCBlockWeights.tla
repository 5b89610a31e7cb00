--------------------------- MODULE MCBlockWeights ---------------------------
(***************************************************************************)
(* BlockWeights with the rolling median of RollingMedian, which is checked *)
(* against sorting for all short sequences of values.                      *)
(***************************************************************************)
EXTENDS BlockWeights

RM == INSTANCE RollingMedian

MCclear(N) == RM!clear(N)
MCinsert(r, v, N) == RM!insert(r, v, N)
MCrolling_median(r) == RM!rolling_median(r)
MCmedian(v) == RM!median(v)

MCVersionAt(h) == IF h < LAST_FORK THEN 1 ELSE 16

\* MedianOfWindow of EmissionProofs, for up to MAX_HEIGHT values.
ASSUME RollingMedianChecked ==
    \A s \in UNION {[1 .. n -> {1, 2, 4}] : n \in 0 .. MAX_HEIGHT} :
        /\ MedianOf(s) \in Nat
        /\ MedianRM(Filled(s)) = MedianOf(Last_n(s, LONG_TERM_WINDOW))
        /\ Filled(s).sz = AtMost(Len(s), LONG_TERM_WINDOW)
=============================================================================
