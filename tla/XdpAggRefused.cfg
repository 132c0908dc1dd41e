SPECIFICATION Spec
CONSTANTS
    CPUs = {c1, c2}
    Jobs = {1, 2}
    Parts = {1}
    SLOT_MAP_ENTRIES = 2
    JOB_QUOTA_ENTRIES = 2
    MAX_TRACKED_WORKERS = 3
    NETSUM_MAX_CHUNK_LEN = 1
    UINT32 = 8
    Configs = {1}
    Traffics <- TwoRounds
CHECK_DEADLOCK FALSE
PROPERTY OpenRoundNotRefused
