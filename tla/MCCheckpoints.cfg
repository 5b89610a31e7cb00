SPECIFICATION Spec
CONSTANTS
    Hashes = {a, b}
    Heights = {1, 2, 3, 4}
    Compiled <- LowestPoint
    m_enforce_dns_checkpoints = TRUE
    U64 = 16
    MAX_LOAD = 1
    MAX_HEIGHT = 5
INVARIANTS EnforcedWhenDone
PROPERTIES PointsKeepTheirHash CommittedHistory
