CONSTANTS
    g = g m1 = m1 m2 = m2 a1 = a1 a2 = a2 b2 = b2 c3 = c3 d1 = d1 m3 = m3
    s = s t = t u = u v = v
    Blocks = {g, m1, m2, a1, a2, b2, c3, d1}
    Genesis = g
    Path <- TreePath
    Work <- TreeWork
    HeaderOK = {g, m1, m2, a1, a2, b2, c3, d1}
    RewardOK = {g, m1, m2, a1, a2, b2, c3, d1}
    Txs = {s, t, v}
    TxsOf <- TreeTxs
    KeyImages <- TreeKeyImages
    Needs <- TreeNeeds
    PrunedTxs = {}
    Checkpoints <- NoCheckpoints
SPECIFICATION Spec
INVARIANTS
    MainChainIsSound
    FailedSwitchReverts
    OnePlace
    PushNeverSwitches
    NoTxLost
PROPERTY SelectsBetterChain
