-------------------------- MODULE UserAggRefinement --------------------------
(***************************************************************************)
(* UserAgg implements Aggregation wherever a key cannot have two slots at *)
(* once.                                                                   *)
(***************************************************************************)
EXTENDS UserAgg

\* The round a key has: the slot in the table that carries the key.
RoundOf(k) ==
    IF \E i \in InUse : slots[i].key = k
    THEN LET s == slots[CHOOSE i \in InUse : slots[i].key = k]
         IN  [open |-> TRUE, chunk_len |-> s.chunk_len,
              expected |-> s.num_workers_expected, members |-> s.seen_worker]
    ELSE [open |-> FALSE]

\* A datagram sent downstream, as the workers it sums.
SumOf(e) == [key |-> e.key, chunk_len |-> e.chunk_len,
             workers |-> {w \in Workers : e.sum[w] > 0}]

Promise == INSTANCE Aggregation WITH
    Quota     <- g_job_quota,
    ChunkLens <- 0 .. NETSUM_MAX_CHUNK_LEN,
    round     <- [k \in Keys |-> RoundOf(k)],
    emitted   <- [n \in DOMAIN out |-> SumOf(out[n])]

\* The slot table and job table of agg.c, with reaping, refusals, duplicates
\* and disagreeing workers, keep the promise of Aggregation (agg.c:3-7,
\* 196-224), as long as no slot is given back ahead of another on that one's
\* probe sequence, or if a job may hold one slot only.
ImplementsAggregation == Promise!Spec

\* Every slot in the table is the one a lookup of its key ends at.
SlotReachable == \A i \in InUse : Findable(i)

\* A step that leaves a hole ahead of a slot.
CutsOff == \E i \in InUse' : CutOff(i)

\* A key never has two slots at once (agg.c:3-6 "accumulate it into a
\* per-(job,round,chunk) slot").
OneSlotPerKey ==
    \A i, m \in InUse : slots[i].key = slots[m].key => i = m
=============================================================================
