SPECIFICATION ParitySpec
CONSTANTS
    CPUs = {c1}
    Jobs = {1, 2}
    Parts = {1, 2}
    SLOT_MAP_ENTRIES = 1
    JOB_QUOTA_ENTRIES = 1
    MAX_TRACKED_WORKERS = 3
    NETSUM_MAX_CHUNK_LEN = 1
    UINT32 = 8
    Configs = {1}
    BYTE = 4
    SCALE = 8
    Unit = 1
    SlotHash <- NoHash
    Traffics <- MixedFrames
    RawDatagrams <- MixedTraffic
CHECK_DEADLOCK FALSE
INVARIANTS TypeOK CountedAtRest SameRounds SameSums
PROPERTIES ImplementsAggregation HarnessMirrors
