CONSTANTS
    a = a b = b c = c
    Txs = {a, b, c}
    KeyImages = {1, 2, 3}
    Images <- MCImages
    Needs <- MCNeeds
    Weight <- MCWeight
    Fee <- MCFee
    Methods = {"local", "stem", "block"}
    m_txpool_max_weight = 2
    m_mine_stem_txes = FALSE
    BlockIds = {1}
    MAX_BLOCKS = 2
    BlockSizes = {1, 2}
    MAX_HANDLED = 1
    MAX_TIMED_OUT = 1
    MAX_COUNTED = 3
SPECIFICATION Spec
INVARIANTS
    TypeOK
    IndexesMatchPool
    OnlyBlockTxsConflict
    CacheIsFresh
    TemplateConnects
    TimedOutStaysOut
    WeightCoversPool
PROPERTY ReturnedTxsStay
