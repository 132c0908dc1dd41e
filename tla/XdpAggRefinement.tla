--------------------------- MODULE XdpAggRefinement ---------------------------
(***************************************************************************)
(* XdpAgg implements Aggregation, the same promise UserAgg keeps: on one   *)
(* CPU whatever is lost, duplicated or malformed on the way; on several    *)
(* CPUs when every worker's frame arrives once, and but for the quota.     *)
(***************************************************************************)
EXTENDS XdpAgg

\* The round a key has in its slot, once it has a contribution and until it has
\* the last one.
Open(k) ==
    /\ slot_map[k] # NULL
    /\ SlotOf(k).contributions_received \in 1 .. SlotOf(k).num_workers_expected - 1
RoundOf(k) ==
    IF Open(k)
    THEN LET s == SlotOf(k)
         IN  [open |-> TRUE, chunk_len |-> s.chunk_len,
              expected |-> s.num_workers_expected, members |-> s.seen_worker]
    ELSE [open |-> FALSE]

SumOf(e) == [key |-> e.key, chunk_len |-> e.chunk_len,
             workers |-> {w \in Workers : e.sum[<<e.key, w>>] > 0}]

\* A round is not closed before its sum is on the wire: a CPU on its way from
\* the last contribution to XDP_TX still holds the round open, its own
\* contribution outside.  Without a configuration the round is abandoned.
Closer(k) == {c \in CPUs : pc[c] \in After /\ final[c] # NoFinal /\ KeyOf(c) = k}
Promised(k) ==
    IF Closer(k) = {} THEN RoundOf(k)
    ELSE LET c == CHOOSE c \in Closer(k) : TRUE
             others == SumOf(final[c]).workers \ {frame[c].worker_id}
         IN  IF final[c].num_workers = 1 THEN [open |-> FALSE]
             ELSE [open |-> TRUE, chunk_len |-> final[c].chunk_len,
                   expected |-> final[c].num_workers, members |-> others]

\* The quota of a configuration that stays the same; on several CPUs it may be
\* overshot (QuotaOvershoot), and is not part of the promise.
FixedQuota == LET q == CHOOSE q \in Configs : TRUE IN IF q = NoConfig THEN 0 ELSE q
PromisedQuota == IF Cardinality(CPUs) = 1 THEN FixedQuota ELSE 0

Promise == INSTANCE Aggregation WITH
    Quota     <- PromisedQuota,
    ChunkLens <- 0 .. NETSUM_MAX_CHUNK_LEN,
    round     <- [k \in Keys |-> Promised(k)],
    emitted   <- [n \in DOMAIN emitted |-> SumOf(emitted[n])]

\* One CPU's steps, whatever the traffic, and several CPUs' steps interleaved
\* in any order, while every frame arrives once, keep the promise of
\* Aggregation with a configuration that stays the same (xdp_agg.c:361-601;
\* 199-204 "concurrent packets for the same slot landing on different CPU
\* cores").
ImplementsAggregation == Promise!Spec
=============================================================================
