CONSTANTS
    b2 = b2 d1 = d1 m3 = m3 v = v g = g m1 = m1 m2 = m2 a1 = a1 a2 = a2 c3 = c3
    s = s t = t u = u
    Blocks = {g, m1, m2, m3, a1, a2, c3}
    Genesis = g
    Path <- LongPath
    Work <- LongWork
    HeaderOK = {g, m1, m2, m3, a1, a2, c3}
    RewardOK = {g, m1, m2, m3, a1, a2, c3}
    Txs = {s, t, u, v}
    TxsOf <- LongTxs
    KeyImages <- LongKeyImages
    Needs <- LongNeeds
    PrunedTxs = {s}
    Checkpoints <- CheckpointAtTheEnd
SPECIFICATION Spec
INVARIANTS
    CheckpointsHold
    InvalidStaysOff
PROPERTY SwitchEnds
