---------------------------- MODULE MCBlockchain ----------------------------
(***************************************************************************)
(* Small trees of blocks for Blockchain.                                   *)
(*                                                                         *)
(*     g - m1 - m2          m1 spends with s the key image 1               *)
(*      \- a1 - a2          a1 spends it with t; a2 is heavier than m2     *)
(*      |    \- b2 - c3     b2 spends it again, with v                     *)
(*      \- d1               d1 spends the key image 1 with s and with t    *)
(***************************************************************************)
EXTENDS Blockchain, TLC

CONSTANTS g, m1, m2, a1, a2, b2, c3, d1, m3, s, t, u, v

TreePath ==
    (g :> <<g>>) @@ (m1 :> <<g, m1>>) @@ (m2 :> <<g, m1, m2>>) @@
    (a1 :> <<g, a1>>) @@ (a2 :> <<g, a1, a2>>) @@ (b2 :> <<g, a1, b2>>) @@
    (c3 :> <<g, a1, b2, c3>>) @@ (d1 :> <<g, d1>>)

TreeWork ==
    (g :> 1) @@ (m1 :> 2) @@ (m2 :> 3) @@ (a1 :> 2) @@ (a2 :> 4) @@
    (b2 :> 3) @@ (c3 :> 5) @@ (d1 :> 3)

TreeTxs ==
    (g :> << >>) @@ (m1 :> <<s>>) @@ (m2 :> << >>) @@ (a1 :> <<t>>) @@ (a2 :> << >>) @@
    (b2 :> <<v>>) @@ (c3 :> << >>) @@ (d1 :> <<s, t>>)

TreeKeyImages == (s :> {1}) @@ (t :> {1}) @@ (v :> {1})

TreeNeeds == (s :> {}) @@ (t :> {g}) @@ (v :> {a1})

NoCheckpoints == << >>

\* A heavy chain, m1 to m3, and a long chain with the checkpoint at its end.
LongPath ==
    (g :> <<g>>) @@ (m1 :> <<g, m1>>) @@ (m2 :> <<g, m1, m2>>) @@
    (m3 :> <<g, m1, m2, m3>>) @@
    (a1 :> <<g, a1>>) @@ (a2 :> <<g, a1, a2>>) @@ (c3 :> <<g, a1, a2, c3>>)

LongWork == (g :> 1) @@ (m1 :> 7) @@ (m2 :> 8) @@ (m3 :> 9) @@ (a1 :> 2) @@ (a2 :> 3) @@ (c3 :> 4)

LongTxs ==
    (g :> << >>) @@ (m1 :> <<s>>) @@ (m2 :> <<u>>) @@ (a1 :> <<t>>) @@ (a2 :> <<v>>) @@ (c3 :> << >>) @@
    (m3 :> << >>)

LongKeyImages == (s :> {1}) @@ (t :> {1}) @@ (u :> {2}) @@ (v :> {2})

LongNeeds == (s :> {}) @@ (t :> {}) @@ (u :> {m1}) @@ (v :> {a1})

CheckpointAtTheEnd == 3 :> c3
=============================================================================
