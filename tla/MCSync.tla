------------------------------- MODULE MCSync -------------------------------
EXTENDS Sync

CONSTANTS good, slow, g, a1, a2, b3

\* The good peer has two connection ids: it is back on the second one while a span
\* of the first is still in the queue.
MCConns == 1..3
MCHost == <<good, slow, good>>

\* The slow peer is one block ahead, and that block is bad.
MCChain == [x \in {good, slow} |-> IF x = good THEN <<g, a1, a2>> ELSE <<g, a1, a2, b3>>]
=============================================================================
