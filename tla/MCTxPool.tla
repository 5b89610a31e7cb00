------------------------------ MODULE MCTxPool ------------------------------
(* Two transactions that spend the same key image, and one that needs an    *)
(* output of the first.                                                      *)
EXTENDS TxPool

CONSTANTS a, b, c

MCImages == [t \in Txs |-> IF t = c THEN <<2, 3>> ELSE <<1>>]
MCNeeds == [t \in Txs |-> IF t = c THEN {a} ELSE {}]
MCWeight == [t \in Txs |-> 1]
MCFee == [t \in Txs |-> CASE t = a -> 2 [] t = b -> 3 [] t = c -> 1]
=============================================================================
