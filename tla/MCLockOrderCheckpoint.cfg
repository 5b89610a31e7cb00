SPECIFICATION Spec
CONSTANTS
    Threads = {t1, t2}
    Calls <- CheckpointCalls
    Program <- ProgramsWithCheckpoints
    NoThread = NoThread
    NoCall = NoCall
INVARIANT NoDeadlock
