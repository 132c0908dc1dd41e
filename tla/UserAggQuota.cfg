SPECIFICATION FairSpec
CONSTANTS
    Jobs = {1, 2}
    Parts = {1, 2}
    SlotHash <- AllCollide
    SLOT_TABLE_CAPACITY = 2
    JOB_TABLE_CAPACITY = 2
    MAX_TRACKED_WORKERS = 2
    NETSUM_MAX_CHUNK_LEN = 1
    max_packets = 3
    g_job_quota = 1
    slot_ttl = 2
    MaxBack = 1
    Datagrams <- GreedyTraffic
    RCVBUF = 1
CHECK_DEADLOCK FALSE
INVARIANTS QuotaCap QuotaAccounting NoJobStarved
PROPERTIES OnlyHolesCutOff SlotEventuallyFreed DumpEventuallyDone
