----------------------------- MODULE ParseShared -----------------------------
(***************************************************************************)
(* The differential fuzz harness (src/fuzz/parse_shared.h, src/fuzz/       *)
(* fuzz_grad_parse.cpp): the admission checks of the two aggregators that  *)
(* need nothing but the received bytes, restated as two functions of a raw *)
(* datagram, and the fuzz target that aborts when they disagree.           *)
(*                                                                         *)
(* A raw datagram is what arrived behind the UDP header: its length in     *)
(* bytes and the bytes of the header's 16-bit fields, as on the wire.      *)
(***************************************************************************)
EXTENDS GradProto

CONSTANTS
    NETSUM_MAX_CHUNK_LEN,
    MAX_TRACKED_WORKERS     \* 256, which is also MAX_TRACKED_WORKERS_BITMAP_BYTES * 8

Field == (0 .. BYTE - 1) \X (0 .. BYTE - 1)

netsum_reject == [verdict |-> "REJECT", chunk_len |-> 0, worker_id |-> 0, num_workers |-> 0]
Accept(len, w, n) == [verdict |-> "ACCEPT", chunk_len |-> len, worker_id |-> w,
                      num_workers |-> n]

\* Mutant: the lanes that arrived are not counted.
AggParseTruncated(r) ==
    LET chunk_len   == ntohs(Load16(r.chunk_len))
        worker_id   == ntohs(Load16(r.worker_id))
        num_workers == ntohs(Load16(r.num_workers))
    IN  IF /\ r.len >= NETSUM_HDR_SIZE
           /\ chunk_len <= NETSUM_MAX_CHUNK_LEN
           /\ worker_id < MAX_TRACKED_WORKERS
           /\ num_workers # 0 /\ num_workers <= MAX_TRACKED_WORKERS
        THEN Accept(chunk_len, worker_id, num_workers) ELSE netsum_reject

agg_parse_stateless(r) ==
    LET chunk_len   == ntohs(Load16(r.chunk_len))
        worker_id   == ntohs(Load16(r.worker_id))
        num_workers == ntohs(Load16(r.num_workers))
    IN  IF /\ r.len >= NETSUM_HDR_SIZE
           /\ chunk_len <= NETSUM_MAX_CHUNK_LEN
           /\ r.len >= NETSUM_HDR_SIZE + chunk_len * LaneSize
           /\ worker_id < MAX_TRACKED_WORKERS
           /\ num_workers # 0 /\ num_workers <= MAX_TRACKED_WORKERS
        THEN Accept(chunk_len, worker_id, num_workers) ELSE netsum_reject

xdp_parse_stateless(r) ==
    LET chunk_len   == netsum_bpf_ntohs(Load16(r.chunk_len))
        worker_id   == netsum_bpf_ntohs(Load16(r.worker_id))
        num_workers == netsum_bpf_ntohs(Load16(r.num_workers))
    IN  IF /\ r.len >= NETSUM_HDR_SIZE
           /\ chunk_len <= NETSUM_MAX_CHUNK_LEN
           /\ r.len >= NETSUM_HDR_SIZE + chunk_len * LaneSize
           /\ worker_id < MAX_TRACKED_WORKERS
           /\ num_workers # 0 /\ num_workers <= MAX_TRACKED_WORKERS
        THEN Accept(chunk_len, worker_id, num_workers) ELSE netsum_reject

\* LLVMFuzzerTestOneInput() aborts: the verdicts differ, or the fields of an
\* accepted input do.
Divergence(r) ==
    LET a == agg_parse_stateless(r)  x == xdp_parse_stateless(r)
    IN  \/ a.verdict # x.verdict
        \/ /\ a.verdict = "ACCEPT"
           /\ \/ a.chunk_len # x.chunk_len
              \/ a.worker_id # x.worker_id
              \/ a.num_workers # x.num_workers

\* The whole lanes that arrived, as the aggregators count them; -1 for a
\* datagram shorter than the header.
LanesOf(r) ==
    IF r.len < NETSUM_HDR_SIZE THEN -1 ELSE (r.len - NETSUM_HDR_SIZE) \div LaneSize
=============================================================================
