SPECIFICATION NetFairSpec
CONSTANTS
    Jobs = {1}
    Parts = {0, 1, 2}
    SLOT_TABLE_CAPACITY = 2
    MAX_TRACKED_WORKERS = 3
    NETSUM_MAX_CHUNK_LEN = 1
    max_packets = 0
    Unset = Unset
    job = 1
    num_workers = 2
    num_rounds = 2
    MaxRuns = 2
    Strays <- MixedStrays
CHECK_DEADLOCK FALSE
INVARIANTS ServerTypeOK ReportedOnce ReportedExact
PROPERTY EveryRoundReported
