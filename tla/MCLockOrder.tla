---------------------------- MODULE MCLockOrder -----------------------------
(***************************************************************************)
(* The calls of CoreLocks, for TLC.  Threads are interchangeable.          *)
(***************************************************************************)
EXTENDS CoreLocks, TLC

CoreCalls == DOMAIN CorePrograms
CheckpointCalls == DOMAIN ProgramsWithCheckpoints

ThreadSymmetry == Permutations(Threads)
=============================================================================
