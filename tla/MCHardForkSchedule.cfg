CONSTANTS
    Forks <- Scheduled
    original_version = 1
    window_size = 3
    Minors = {0, 16, 17}
    MAX_HEIGHT = 8
SPECIFICATION Spec
INVARIANTS VersionFollowsSchedule CountsMatchWindow
