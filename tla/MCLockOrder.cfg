SPECIFICATION Spec
CONSTANTS
    Threads = {t1, t2, t3}
    Calls <- CoreCalls
    Program <- CorePrograms
    NoThread = NoThread
    NoCall = NoCall
SYMMETRY ThreadSymmetry
INVARIANTS LocksInOrder NoDeadlock PoolLockAroundBatch BatchIsOurs
