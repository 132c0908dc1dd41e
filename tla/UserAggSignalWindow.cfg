SPECIFICATION FairSpec
CONSTANTS
    Jobs = {1, 2}
    Parts = {1}
    SlotHash <- AllCollide
    SLOT_TABLE_CAPACITY = 2
    JOB_TABLE_CAPACITY = 2
    MAX_TRACKED_WORKERS = 3
    NETSUM_MAX_CHUNK_LEN = 1
    max_packets = 1
    g_job_quota = 0
    slot_ttl = 0
    MaxBack = 0
    Datagrams <- OneKeyTraffic
    RCVBUF = 1
CHECK_DEADLOCK FALSE
PROPERTIES DumpEventuallyDone
