CONSTANTS
    Forks <- Voted
    original_version = 1
    window_size = 3
    Minors = {1, 2, 3}
    MAX_HEIGHT = 7
SPECIFICATION SpecWithoutPops
INVARIANTS WindowHoldsLastBlocks
PROPERTIES RescanChangesNothing
