SPECIFICATION Spec
CONSTANTS
    Jobs = {1, 2}
    Parts = {1, 2}
    SlotHash <- AllWrap
    SLOT_TABLE_CAPACITY = 2
    JOB_TABLE_CAPACITY = 2
    MAX_TRACKED_WORKERS = 3
    NETSUM_MAX_CHUNK_LEN = 1
    max_packets = 4
    g_job_quota = 1
    slot_ttl = 2
    MaxBack = 0
    Datagrams <- MessyTraffic
    RCVBUF = 1
CHECK_DEADLOCK FALSE
INVARIANTS TypeOK AccountingInv SlotConsistent EmittedExact
PROPERTY ImplementsAggregation
