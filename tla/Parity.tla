-------------------------------- MODULE Parity --------------------------------
(***************************************************************************)
(* The two aggregators side by side: the XDP program (XdpAgg, on one CPU)  *)
(* and agg.c (UserAgg) are given the same raw datagrams in the same order, *)
(* with the same table sizes and the same quota.  Both claim to be the     *)
(* same algorithm (src/userspace_agg/agg.c:2-25, src/fuzz/parse_shared.h:  *)
(* 3-35); the harness compares their stateless checks only, and asks for a *)
(* stateful comparison (parse_shared.h:169-176).  This is it.              *)
(*                                                                         *)
(* The XDP program runs to its end on a datagram, then agg.c takes the     *)
(* same datagram from its socket and goes back to sleep.  No reaper, no    *)
(* signal, and every sendto() succeeds: the XDP program has none of these. *)
(***************************************************************************)
EXTENDS XdpAggRefinement

CONSTANTS
    BYTE, SCALE, Unit,
    SlotHash,       \* slot_key() of agg.c
    RawDatagrams    \* what is sent; copies are counted apart

INSTANCE ParseShared

VARIABLES
    slots, jobs, queue, out, agg_pc, g_dump_stats_requested, packets_in, since_reap,
    asymmetric  \* history: an open round took a frame with a num_workers out of range

\* The same bytes, as each of the two parses them.
FrameOf(r) ==
    [n |-> LanesOf(r), key |-> r.key, copy |-> r.copy,
     worker_id   |-> netsum_bpf_ntohs(Load16(r.worker_id)),
     num_workers |-> netsum_bpf_ntohs(Load16(r.num_workers)),
     chunk_len   |-> netsum_bpf_ntohs(Load16(r.chunk_len))]
DatagramOf(r) ==
    [n |-> LanesOf(r), key |-> r.key,
     worker_id   |-> ntohs(Load16(r.worker_id)),
     num_workers |-> ntohs(Load16(r.num_workers)),
     chunk_len   |-> ntohs(Load16(r.chunk_len))]

Datagrams == {DatagramOf(r) : r \in RawDatagrams}

RawDatagram == [len : Nat, key : Keys, worker_id : Field, num_workers : Field,
                chunk_len : Field, copy : Nat]
ASSUME ParityAssumption ==
    /\ BYTE \in Nat /\ BYTE >= 2 /\ BYTE % 2 = 0
    /\ SCALE \in Nat \ {0} /\ Unit \in Nat \ {0}
    /\ SlotHash \in [Keys -> Nat]
    /\ RawDatagrams \subseteq RawDatagram
    /\ Frames = {FrameOf(r) : r \in RawDatagrams}

Agg == INSTANCE UserAggRefinement WITH
    SLOT_TABLE_CAPACITY <- SLOT_MAP_ENTRIES,
    JOB_TABLE_CAPACITY  <- JOB_QUOTA_ENTRIES,
    max_packets <- 0, g_job_quota <- FixedQuota, slot_ttl <- 0, MaxBack <- 0, RCVBUF <- 1,
    pc <- agg_pc

agg_vars == <<slots, jobs, queue, out, agg_pc, g_dump_stats_requested, packets_in,
              since_reap>>
parity_vars == <<vars, agg_vars, asymmetric>>

ParityInit == Init /\ Agg!Init /\ asymmetric = FALSE

\* agg.c sleeps in recvfrom(); neither program has anything left to do.
AggAtRest == queue = <<>> /\ agg_pc = "blocked"
BothAtRest == AtRest /\ AggAtRest

\* The next datagram reaches both.  An open round's frame is not asked for its
\* num_workers in the kernel (xdp_agg.c:396-414), and always by agg.c; after
\* such a frame there is nothing left to compare.
Deliver(c, r) ==
    /\ BothAtRest /\ ~asymmetric
    /\ FrameOf(r) \in wire /\ wire' = wire \ {FrameOf(r)} /\ Rx(c)
    /\ queue' = <<DatagramOf(r)>>
    /\ asymmetric' = (/\ WellFormed(FrameOf(r)) /\ ~MayCreate(FrameOf(r))
                      /\ slot_map[r.key] # NULL)
    /\ UNCHANGED <<slots, jobs, out, agg_pc, g_dump_stats_requested, packets_in,
                   since_reap>>

XdpRuns(c) == Step(c) /\ UNCHANGED <<agg_vars, asymmetric>>

\* A completed sum is sent: sendto() does not fail.
AggRuns ==
    /\ AtRest /\ ~AggAtRest
    /\ Agg!MainLoop
    /\ Agg!RecvComplete => out' # out
    /\ UNCHANGED <<vars, asymmetric>>

ParityNext ==
    \/ AggRuns
    \/ \E c \in CPUs : XdpRuns(c) \/ \E r \in RawDatagrams : Deliver(c, r)

ParitySpec == ParityInit /\ [][ParityNext]_parity_vars

-----------------------------------------------------------------------------
(***************************************************************************)
(* Properties.                                                             *)
(***************************************************************************)
\* After any sequence of datagrams the two programs have the same rounds open,
\* with the same members and the same expectations, track the same jobs and
\* charge each the same number of slots (agg.c:2-8, xdp_agg.c:1-20 "same
\* algorithm"), but for the one asymmetry parse_shared.h:150-176 tells of.
SameRounds ==
    BothAtRest /\ ~asymmetric =>
        /\ \A k \in Keys : RoundOf(k) = Agg!RoundOf(k)
        /\ \A j \in Jobs : CountOf(j) = jobs[j].concurrent_slots
        /\ Tracked = {j \in Jobs : jobs[j].in_use}

\* ... and have sent on the same sums, in the same order.
SameSums ==
    BothAtRest /\ ~asymmetric =>
        /\ Len(emitted) = Len(out)
        /\ \A i \in DOMAIN out :
              /\ SumOf(emitted[i]) = Agg!SumOf(out[i])
              /\ \A w \in Workers : emitted[i].sum[<<out[i].key, w>>] = out[i].sum[w]

\* The harness tests what is shipped (parse_shared.h:31-35): its two functions
\* agree, agg_parse_stateless() accepts exactly the datagrams agg.c looks a slot
\* up for, and xdp_parse_stateless() those the XDP program would make a slot for.
Accepted(result) == result.verdict = "ACCEPT"
HarnessMirrors ==
    [][\A r \in RawDatagrams :
          /\ FrameOf(r) \in wire \ wire' =>
                /\ ~Divergence(r)
                /\ slot_map[r.key] = NULL =>
                      (Accepted(xdp_parse_stateless(r)) <=> \E c \in CPUs : pc'[c] = "precheck")
          /\ queue = <<DatagramOf(r)>> /\ queue' = <<>> =>
                (Accepted(agg_parse_stateless(r)) <=> ~(Agg!RecvRunt \/ Agg!RecvMalformed))
      ]_parity_vars
=============================================================================
