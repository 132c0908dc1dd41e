------------------------------ MODULE MCUserAgg ------------------------------
(***************************************************************************)
(* Small instances of UserAgg.  Two jobs, three workers' worth of ids; the *)
(* hash is chosen by the run.                                              *)
(***************************************************************************)
EXTENDS UserAggRefinement

K(j, p) == [job_id |-> j, part |-> p]
D(j, p, w, n, len) == [n |-> len, key |-> K(j, p), worker_id |-> w,
                       num_workers |-> n, chunk_len |-> len]

\* Hashes under which every two keys share a probe sequence: from the first
\* index, and from the last, where each probe sequence wraps around.
AllCollide == [k \in Keys |-> 0]
AllWrap    == [k \in Keys |-> SLOT_TABLE_CAPACITY - 1]

\* One complete round of two workers for every key.
Rounds == {D(j, p, w, 2, 1) : j \in Jobs, p \in Parts, w \in 0 .. 1}

\* Datagrams dropped before the lookup, one per check, and the runt.
BadDatagrams ==
    {[D(1, 1, 0, 2, 1) EXCEPT !.n = -1],           \* shorter than the header
     [D(1, 1, 0, 2, 1) EXCEPT !.n = 0],            \* truncated lanes
     D(1, 1, 0, 2, NETSUM_MAX_CHUNK_LEN + 1),      \* chunk_len too long
     D(1, 1, MAX_TRACKED_WORKERS, 2, 1),           \* worker_id out of range
     D(1, 1, 0, 0, 1),                             \* num_workers = 0
     D(1, 1, 0, MAX_TRACKED_WORKERS + 1, 1)}       \* num_workers too large

\* One key, every kind of datagram: a full round of three workers, one that
\* disagrees on chunk_len, one on num_workers, and the malformed ones.
MixedTraffic ==
    {D(1, 1, w, 3, 1) : w \in 0 .. 2} \cup BadDatagrams
        \cup {D(1, 1, 1, 3, 0), D(1, 1, 1, 1, 1)}

\* A greedy job with a round and one more key begun, beside a modest job: in a
\* table with one slot for each job.
GreedyTraffic == {d \in Rounds : d.key = K(1, 1)} \cup {D(1, 2, 0, 2, 1), D(2, 1, 0, 2, 1)}

\* Two workers for two keys of one job, and for one of another.
ThreeKeyTraffic == {d \in Rounds : d.key \in {K(1, 1), K(1, 2), K(2, 1)}}

\* The mixed traffic of one key, a complete round of another job and one more
\* key begun.
MessyTraffic ==
    MixedTraffic \cup {d \in Rounds : d.key = K(2, 1)} \cup {D(1, 2, 0, 2, 1)}

\* A round of two workers.
OneKeyTraffic == {d \in Rounds : d.key = K(1, 1)}
=============================================================================
