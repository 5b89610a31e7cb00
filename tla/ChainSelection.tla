--------------------------- MODULE ChainSelection ---------------------------
(***************************************************************************)
(* What the block chain promises to everyone who reads the database.       *)
(* Blocks are added in batches.  A batch that is committed leaves the main *)
(* chain as it was, or replaces it as a whole by one that has more work or *)
(* a checkpoint the old one lacks; one that is not leaves no trace.  Only  *)
(* if an exception cut a switch short, may the batch leave a part of such  *)
(* a chain.  The operator pops blocks between batches.                     *)
(***************************************************************************)
EXTENDS Integers, Sequences

CONSTANTS Blocks, Genesis, Path, Work, Checkpoints

VARIABLES
    main,    \* the top of the main chain that is committed
    open,    \* a batch is open
    thrown   \* a pop threw in a switch of that batch

vars == <<main, open, thrown>>

Passes(b, h) == h < Len(Path[b]) /\ Path[b][h + 1] = Checkpoints[h]

Better(b) ==
    \/ Work[main] < Work[b]
    \/ \E h \in DOMAIN Checkpoints : Passes(b, h) /\ ~Passes(main, h)

MayBecome(b) == b = main \/ Better(b)

Init == main = Genesis /\ open = FALSE /\ thrown = FALSE

Begin == ~open /\ open' = TRUE /\ UNCHANGED <<main, thrown>>

Commit(b) ==
    /\ open /\ ~thrown /\ MayBecome(b)
    /\ main' = b /\ open' = FALSE
    /\ UNCHANGED thrown

Throw == open /\ ~thrown /\ thrown' = TRUE /\ UNCHANGED <<main, open>>

\* The h-th block of a chain that may become the main chain is its top now.
CommitPart(b, h) ==
    /\ open /\ thrown /\ MayBecome(b)
    /\ main' = Path[b][h] /\ open' = FALSE /\ thrown' = FALSE

\* The batch is aborted, or lost in a crash.
Abort == open /\ open' = FALSE /\ thrown' = FALSE /\ UNCHANGED main

PopBlocks(h) == ~open /\ main' = Path[main][h] /\ UNCHANGED <<open, thrown>>

Next ==
    \/ Begin \/ Throw \/ Abort
    \/ \E b \in Blocks : Commit(b)
    \/ \E b \in Blocks : \E h \in DOMAIN Path[b] : CommitPart(b, h)
    \/ \E h \in DOMAIN Path[main] : PopBlocks(h)

Spec == Init /\ [][Next]_vars
=============================================================================
