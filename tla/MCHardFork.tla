----------------------------- MODULE MCHardFork -----------------------------
EXTENDS HardFork

Fork(version, height, threshold) ==
    [version |-> version, height |-> height, threshold |-> threshold]

\* The table of hardforks.cpp, with one more fork to come.
Scheduled == <<Fork(1, 1, 0), Fork(16, 2, 0), Fork(17, 4, 0)>>

\* Forks that need half, and two thirds, of the window.
Voted == <<Fork(1, 0, 0), Fork(2, 2, 50), Fork(3, 4, 67)>>
=============================================================================
