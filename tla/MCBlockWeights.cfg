CONSTANTS
    MONEY_SUPPLY = 19
    INITIAL_REWARD = 8
    HALVING_INTERVAL = 2
    MAX_HALVINGS = 3
    ZONE_V1 = 3
    ZONE_V2 = 6
    ZONE_V5 = 10
    EXACT_COINBASE = 13
    VersionAt <- MCVersionAt
    ClearRM <- MCclear
    InsertRM <- MCinsert
    MedianRM <- MCrolling_median
    MedianOf <- MCmedian
    Medians = {}
    Weights = {4, 20, 30}
    Fees = {2}
    MAX_HEIGHT = 7
    REWARD_WINDOW = 2
    LONG_TERM_WINDOW = 4
    SURGE_FACTOR = 50
    LONG_TERM_VERSION = 10
    SHORT_TERM_VERSION = 12
    SCALING_VERSION = 15
    LAST_FORK = 2
    MAX_TROUBLE = 2
SPECIFICATION WeightsSpec
INVARIANTS SupplyTracked LongTermWeightsAreExact 
CHECK_DEADLOCK FALSE
