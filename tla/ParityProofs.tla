----------------------------- MODULE ParityProofs -----------------------------
(***************************************************************************)
(* Theorems about Parity: what is fed to the two aggregators is what each  *)
(* meets by itself, the harness tests what they do, and they agree.        *)
(***************************************************************************)
EXTENDS Parity, XdpAggRefinementProofs

Wire == INSTANCE GradProtoProofs

-----------------------------------------------------------------------------
\* The harness's functions agree on what is sent.
LEMMA RawAgree == ASSUME NEW r \in RawDatagrams PROVE ~Divergence(r)
<1> DEFINE b == [len |-> r.len, worker_id |-> r.worker_id, num_workers |-> r.num_workers,
                 chunk_len |-> r.chunk_len]
<1>1. b \in [len : Nat, worker_id : Wire!Field, num_workers : Wire!Field, chunk_len : Wire!Field]
  BY ParityAssumption DEF RawDatagram, Field, Wire!Field
<1>2. ~Wire!Divergence(b)
  BY ParityAssumption, <1>1, Wire!NoDivergence
<1>3. /\ agg_parse_stateless(r) = Wire!agg_parse_stateless(b)
      /\ xdp_parse_stateless(r) = Wire!xdp_parse_stateless(b)
  BY DEF agg_parse_stateless, Wire!agg_parse_stateless, xdp_parse_stateless,
         Wire!xdp_parse_stateless, ntohs, Wire!ntohs, netsum_bpf_ntohs,
         Wire!netsum_bpf_ntohs, Load16, Wire!Load16, Accept, Wire!Accept, netsum_reject,
         Wire!netsum_reject, NETSUM_HDR_SIZE, Wire!NETSUM_HDR_SIZE, LaneSize, Wire!LaneSize
<1>4. QED
  BY <1>2, <1>3 DEF Divergence, Wire!Divergence

-----------------------------------------------------------------------------
\* In Parity the XDP program does what it does by itself, on the frames that are
\* sent to both, so that all that is proved of it holds there: its types, the
\* sums, the counts and the refinement of Aggregation (xdp_agg.c:361-601).
THEOREM ParityRunsXdp == ParitySpec => Spec
<1>1. ParityInit => Init
  BY DEF ParityInit
<1>2. [ParityNext]_parity_vars => [Next]_vars
  BY DEF ParityNext, parity_vars, AggRuns, XdpRuns, Deliver, Next
<1>3. QED BY <1>1, <1>2, PTL DEF ParitySpec, Spec

\* And so does agg.c (agg.c:397-549): a datagram that reaches both is one that
\* arrives at its socket.
THEOREM ParityRunsAgg == ParitySpec => Agg!Spec
<1>1. ParityInit => Agg!Init
  BY DEF ParityInit
<1>2. ASSUME NEW c \in CPUs, NEW r \in RawDatagrams, Deliver(c, r) PROVE Agg!Arrive
  <2>1. queue = <<>> /\ queue' = <<DatagramOf(r)>> /\ DatagramOf(r) \in Datagrams
    BY <1>2 DEF Deliver, BothAtRest, AggAtRest, Datagrams
  <2>2. Len(queue) < 1 /\ queue' = Append(queue, DatagramOf(r))
    BY <2>1
  <2>3. QED BY <1>2, <2>1, <2>2 DEF Deliver, Agg!Arrive
<1>3. [ParityNext]_parity_vars => [Agg!Next]_(Agg!vars)
  <2>1. SUFFICES ASSUME [ParityNext]_parity_vars PROVE [Agg!Next]_(Agg!vars)
    OBVIOUS
  <2>2. CASE AggRuns
    BY <2>2 DEF AggRuns, Agg!Next
  <2>3. CASE \E c \in CPUs : XdpRuns(c)
    BY <2>3 DEF XdpRuns, agg_vars, Agg!vars
  <2>4. CASE UNCHANGED parity_vars
    BY <2>4 DEF parity_vars, agg_vars, Agg!vars
  <2>5. QED BY <1>2, <2>1, <2>2, <2>3, <2>4 DEF ParityNext, Agg!Next
<1>4. QED BY <1>1, <1>3, PTL DEF ParitySpec, Agg!Spec

-----------------------------------------------------------------------------
(***************************************************************************)
(* The harness and the programs.                                           *)
(***************************************************************************)
\* What both parses make of a datagram.
LEMMA Parsed ==
    ASSUME NEW r \in RawDatagrams
    PROVE  /\ FrameOf(r) \in Frames /\ DatagramOf(r) \in Datagrams
           /\ r.len \in Nat /\ r.key \in Keys
           /\ FrameOf(r).chunk_len \in Nat
           /\ FrameOf(r).worker_id \in Nat /\ FrameOf(r).num_workers \in Nat
           /\ FrameOf(r).key = r.key /\ DatagramOf(r).key = r.key
           /\ DatagramOf(r).n = FrameOf(r).n
           /\ DatagramOf(r).chunk_len = FrameOf(r).chunk_len
           /\ DatagramOf(r).worker_id = FrameOf(r).worker_id
           /\ DatagramOf(r).num_workers = FrameOf(r).num_workers
           /\ FrameOf(r).n \in Int
<1>1. FrameOf(r) \in Frames /\ DatagramOf(r) \in Datagrams /\ r.len \in Nat /\ r.key \in Keys
  BY ParityAssumption DEF RawDatagram, Datagrams
<1>2. FrameOf(r) \in Frame
  BY <1>1, RunAssumption
<1>3. /\ r.worker_id \in Wire!Byte \X Wire!Byte /\ r.num_workers \in Wire!Byte \X Wire!Byte
      /\ r.chunk_len \in Wire!Byte \X Wire!Byte
  BY ParityAssumption DEF RawDatagram, Field, Wire!Byte
<1>4. \A b \in Wire!Byte \X Wire!Byte : netsum_bpf_ntohs(Load16(b)) = ntohs(Load16(b))
  BY ParityAssumption, Wire!ShortSwapsAgree
     DEF ntohs, Wire!ntohs, netsum_bpf_ntohs, Wire!netsum_bpf_ntohs, Load16, Wire!Load16
<1>5. /\ DatagramOf(r).chunk_len = FrameOf(r).chunk_len
      /\ DatagramOf(r).worker_id = FrameOf(r).worker_id
      /\ DatagramOf(r).num_workers = FrameOf(r).num_workers
  BY <1>3, <1>4 DEF FrameOf, DatagramOf
<1>6. /\ FrameOf(r).chunk_len \in Nat /\ FrameOf(r).worker_id \in Nat
      /\ FrameOf(r).num_workers \in Nat /\ FrameOf(r).n \in Int
  BY <1>2 DEF Frame
<1>7. FrameOf(r).key = r.key /\ DatagramOf(r).key = r.key /\ DatagramOf(r).n = FrameOf(r).n
  BY DEF FrameOf, DatagramOf
<1>8. QED BY <1>1, <1>5, <1>6, <1>7

\* As many whole lanes arrived as were announced, counted in bytes or in lanes.
LEMMA LanesArrived ==
    ASSUME NEW bytes \in Nat, NEW len \in Nat
    PROVE  LET lanes == IF bytes < NETSUM_HDR_SIZE THEN -1
                        ELSE (bytes - NETSUM_HDR_SIZE) \div LaneSize
           IN  /\ lanes >= 0 <=> bytes >= NETSUM_HDR_SIZE
               /\ lanes >= len <=> bytes >= NETSUM_HDR_SIZE + len * LaneSize
BY DEF NETSUM_HDR_SIZE, LaneSize

\* The harness accepts what the two programs let past their stateless checks.
LEMMA Mirrored ==
    ASSUME NEW r \in RawDatagrams
    PROVE  /\ Accepted(xdp_parse_stateless(r)) <=> WellFormed(FrameOf(r)) /\ MayCreate(FrameOf(r))
           /\ Accepted(agg_parse_stateless(r)) <=>
                 DatagramOf(r).n >= 0 /\ Agg!WellFormed(DatagramOf(r))
<1> DEFINE f == FrameOf(r)
<1>1. /\ f.chunk_len \in Nat /\ f.worker_id \in Nat /\ f.num_workers \in Nat /\ f.n \in Int
      /\ r.len \in Nat /\ MAX_TRACKED_WORKERS \in Nat
  BY Parsed, MapAssumption
<1>2. f.n >= 0 /\ f.n >= f.chunk_len <=>
         r.len >= NETSUM_HDR_SIZE /\ r.len >= NETSUM_HDR_SIZE + f.chunk_len * LaneSize
  <2>1. f.n = IF r.len < NETSUM_HDR_SIZE THEN -1 ELSE (r.len - NETSUM_HDR_SIZE) \div LaneSize
    BY DEF FrameOf, LanesOf
  <2> HIDE DEF f
  <2>2. QED BY <1>1, <2>1, LanesArrived
<1>3. f.num_workers # 0 /\ f.num_workers <= MAX_TRACKED_WORKERS
         <=> f.num_workers \in 1 .. MAX_TRACKED_WORKERS
  <2> HIDE DEF f
  <2>1. QED BY <1>1
<1>4. Accepted(xdp_parse_stateless(r)) <=>
         /\ r.len >= NETSUM_HDR_SIZE
         /\ f.chunk_len <= NETSUM_MAX_CHUNK_LEN
         /\ r.len >= NETSUM_HDR_SIZE + f.chunk_len * LaneSize
         /\ f.worker_id < MAX_TRACKED_WORKERS
         /\ f.num_workers # 0 /\ f.num_workers <= MAX_TRACKED_WORKERS
  BY DEF xdp_parse_stateless, FrameOf, Accepted, Accept, netsum_reject
<1>5. Accepted(agg_parse_stateless(r)) <=> Accepted(xdp_parse_stateless(r))
  BY RawAgree DEF Divergence, Accepted
<1>6. WellFormed(f) /\ MayCreate(f) <=> DatagramOf(r).n >= 0 /\ Agg!WellFormed(DatagramOf(r))
  BY Parsed DEF WellFormed, MayCreate, Agg!WellFormed
<1>7. WellFormed(f) /\ MayCreate(f) <=> Accepted(xdp_parse_stateless(r))
  <2> HIDE DEF f
  <2>1. QED BY <1>2, <1>3, <1>4 DEF WellFormed, MayCreate
<1>8. QED BY <1>5, <1>6, <1>7

\* A frame is delivered to a CPU, and to nobody else.
LEMMA XdpMirrored ==
    ASSUME TypeInv, NEW c \in CPUs, NEW s \in RawDatagrams, Deliver(c, s),
           NEW r \in RawDatagrams, FrameOf(r) \in wire \ wire', slot_map[r.key] = NULL
    PROVE  Accepted(xdp_parse_stateless(r)) <=> \E d \in CPUs : pc'[d] = "precheck"
<1>1. FrameOf(r) = FrameOf(s) /\ AtRest /\ Rx(c)
  BY DEF Deliver, BothAtRest
<1>2. pc \in [CPUs -> Labels] /\ wire' = wire \ {FrameOf(r)} /\ FrameOf(r) \in wire
  BY <1>1 DEF Deliver, TypeInv, LocalsTyped
<1>3. FrameOf(r).key = r.key
  BY Parsed
<1>4. \A f \in wire : Receive(c, f) => f = FrameOf(r)
  BY <1>2 DEF Receive
<1>5. CASE RxIgnored(c)
  <2>1. ~(WellFormed(FrameOf(r)) /\ MayCreate(FrameOf(r))) /\ pc' = pc
    BY <1>4, <1>5 DEF RxIgnored
  <2>2. \A d \in CPUs : pc'[d] = "idle"
    BY <1>1, <2>1 DEF AtRest
  <2>3. QED BY <2>1, <2>2, Mirrored
<1>6. CASE RxHit(c)
  BY <1>3, <1>4, <1>6 DEF RxHit
<1>7. CASE RxMiss(c)
  <2>1. WellFormed(FrameOf(r)) /\ MayCreate(FrameOf(r)) /\ Goto(c, "precheck")
    BY <1>4, <1>7 DEF RxMiss
  <2>2. pc'[c] = "precheck"
    BY <1>2, <2>1 DEF Goto
  <2>3. QED BY <2>1, <2>2, Mirrored
<1>8. QED BY <1>1, <1>5, <1>6, <1>7 DEF Rx

\* agg.c takes the datagram out of its socket in one of the ways it has.
LEMMA AggMirrored ==
    ASSUME NEW r \in RawDatagrams, Agg!MainLoop, queue = <<DatagramOf(r)>>, queue' = <<>>
    PROVE  Accepted(agg_parse_stateless(r)) <=> ~(Agg!RecvRunt \/ Agg!RecvMalformed)
<1> DEFINE d == DatagramOf(r)
<1>1. Head(queue) = d /\ queue' # queue /\ d.n \in Int
  BY Parsed
<1>2. Accepted(agg_parse_stateless(r)) <=> d.n >= 0 /\ Agg!WellFormed(d)
  BY Mirrored
<1> HIDE DEF d
<1>3. ASSUME Agg!RecvRunt \/ Agg!RecvMalformed PROVE ~(d.n >= 0 /\ Agg!WellFormed(d))
  BY <1>1, <1>3 DEF Agg!RecvRunt, Agg!RecvMalformed, Agg!Receive
<1>4. ASSUME ~(Agg!RecvRunt \/ Agg!RecvMalformed) PROVE d.n >= 0 /\ Agg!WellFormed(d)
  <2>1. \/ Agg!RecvRefused \/ Agg!RecvMismatch \/ Agg!RecvDuplicate
        \/ Agg!RecvPartial \/ Agg!RecvComplete
    BY <1>1, <1>4 DEF Agg!MainLoop, Agg!Exit, Agg!Sweep, Agg!NoSweep, Agg!DumpStats,
       Agg!ClearRequest, Agg!NoDump, Agg!Block, Agg!Timeout
  <2>2. QED
    BY <1>1, <2>1 DEF Agg!RecvRefused, Agg!RecvMismatch, Agg!RecvDuplicate, Agg!RecvPartial,
       Agg!RecvComplete, Agg!Admitted, Agg!Receive
<1>5. QED BY <1>2, <1>3, <1>4

\* The harness tests what is shipped: for every datagram, on every number of CPUs
\* and in every state of the tables, its two functions agree, agg_parse_stateless()
\* accepts exactly the datagrams agg.c looks a slot up for, and
\* xdp_parse_stateless() those the XDP program would make a slot for
\* (parse_shared.h:12-35, 90-213; agg.c:430-459; xdp_agg.c:371-414).
THEOREM HarnessMirrorsHolds == ParitySpec => HarnessMirrors
<1> DEFINE A == \A r \in RawDatagrams :
          /\ FrameOf(r) \in wire \ wire' =>
                /\ ~Divergence(r)
                /\ slot_map[r.key] = NULL =>
                      (Accepted(xdp_parse_stateless(r)) <=> \E c \in CPUs : pc'[c] = "precheck")
          /\ queue = <<DatagramOf(r)>> /\ queue' = <<>> =>
                (Accepted(agg_parse_stateless(r)) <=> ~(Agg!RecvRunt \/ Agg!RecvMalformed))
<1>1. ASSUME TypeInv, ParityNext, NEW r \in RawDatagrams, FrameOf(r) \in wire \ wire'
      PROVE  /\ ~Divergence(r)
             /\ slot_map[r.key] = NULL =>
                   (Accepted(xdp_parse_stateless(r)) <=> \E c \in CPUs : pc'[c] = "precheck")
  <2>1. ASSUME NEW c \in CPUs, XdpRuns(c) PROVE wire' = wire
    BY <2>1 DEF XdpRuns, Step, Precheck, QuotaAdmits, QuotaRejects, CreateWins, CreateLoses,
       Relookup, RelookupFails, Increment, IncrementNew, LockRejects, Accumulates, LockPartial,
       LockCompletes, LookupConfig, Delete, DecrementTest, Subtract, Transmit, BumpStat,
       BumpNewStat, shared
  <2>2. AggRuns => wire' = wire
    BY DEF AggRuns, vars
  <2>3. PICK c \in CPUs, s \in RawDatagrams : Deliver(c, s)
    BY <1>1, <2>1, <2>2 DEF ParityNext
  <2>4. QED BY <1>1, <2>3, XdpMirrored, RawAgree
<1>2. ASSUME ParityNext, NEW r \in RawDatagrams, queue = <<DatagramOf(r)>>, queue' = <<>>
      PROVE  Accepted(agg_parse_stateless(r)) <=> ~(Agg!RecvRunt \/ Agg!RecvMalformed)
  <2>1. queue' # queue /\ queue # <<>>
    BY <1>2
  <2>2. AggRuns
    BY <1>2, <2>1 DEF ParityNext, XdpRuns, Deliver, BothAtRest, AggAtRest, agg_vars
  <2>3. QED BY <1>2, <2>2, AggMirrored DEF AggRuns
<1>3. TypeInv /\ ParityNext => A
  BY <1>1, <1>2
<1>4. TypeInv /\ [ParityNext]_parity_vars => [A]_parity_vars
  BY <1>3
<1>5. QED BY <1>4, ParityRunsXdp, TypeAlways, PTL DEF ParitySpec, HarnessMirrors

-----------------------------------------------------------------------------
(***************************************************************************)
(* The two aggregators agree.  Between two datagrams their tables are the  *)
(* same; while the XDP program is ahead of agg.c, they are the same as the *)
(* tables agg.c will have at that point of its body.  S, J and O stand for *)
(* g_slots, g_jobs and what agg.c has sent.                                *)
(***************************************************************************)
\* Where a key's slot is, if its probe sequence meets no other key's slot.
Home(k) == Agg!ProbeIndex(k, 0)
Holds(S, k) == S[Home(k)].in_use /\ S[Home(k)].key = k

SlotAgrees(k, x, s) ==
    /\ x.chunk_len = s.chunk_len /\ x.num_workers_expected = s.num_workers_expected
    /\ x.contributions_received = s.contributions_received /\ x.seen_worker = s.seen_worker
    /\ \A w \in Workers : x.sum[<<k, w>>] = s.sum[w]

SlotsTyped(S) ==
    /\ S \in [Agg!Index -> Agg!UsedSlot \cup {Agg!FreeSlot}]
    /\ \A i \in Agg!Index : S[i].in_use => Home(S[i].key) = i
KeyAgrees(S, k) ==
    IF slot_map[k] = NULL THEN ~Holds(S, k)
    ELSE Holds(S, k) /\ SlotAgrees(k, SlotOf(k), S[Home(k)])
SlotsAgree(S) == SlotsTyped(S) /\ \A k \in Keys : KeyAgrees(S, k)

JobsTyped(J) == J \in [Jobs -> Agg!JobEntry]
JobAgrees(j, e) == CountOf(j) = e.concurrent_slots /\ (j \in Tracked <=> e.in_use)
JobsAgree(J) == JobsTyped(J) /\ \A j \in Jobs : JobAgrees(j, J[j])

SumsAgree(e, o) ==
    /\ e.key = o.key /\ o.key \in Keys
    /\ e.chunk_len = o.chunk_len /\ e.num_workers = o.num_workers
    /\ \A w \in Workers : e.sum[<<o.key, w>>] = o.sum[w]
SentAgrees(O) ==
    /\ O \in Seq(Agg!Emission) /\ Len(emitted) = Len(O)
    /\ \A i \in DOMAIN O : SumsAgree(emitted[i], O[i])

Agree(S, J, O) == SlotsAgree(S) /\ JobsAgree(J) /\ SentAgrees(O)

\* What agg.c makes of d: the slot it finds or makes if it does, before and after d
\* is added to it; its tables with that slot, without it, and with its job charged
\* and repaid; and the sum if d is the last contribution.
Valid(d) == d.n >= 0 /\ Agg!WellFormed(d)
Fate(d) ==
    LET refused == Agg!Refused(d.key)
        found   == IF refused THEN Agg!FreeSlot ELSE Agg!SlotFor(d)
        takes   == Valid(d) /\ ~refused /\ ~Agg!Mismatch(d) /\ ~Agg!Duplicate(d)
        added   == IF takes THEN Agg!Accumulated(d) ELSE found
        charged == IF refused THEN jobs ELSE Agg!JobsAfterLookup(d.key)
        Place(s) == [slots EXCEPT ![Home(d.key)] = s]
    IN  [slots |-> slots, jobs |-> jobs, out |-> out, here |-> slots[Home(d.key)],
         atquota |-> Agg!AtQuota(d.key.job_id), valid |-> Valid(d),
         refused |-> refused, takes |-> takes, last |-> takes /\ Agg!Completes(d),
         slot |-> found, added |-> added, charged |-> charged,
         opened |-> Place(found), filled |-> Place(added), freed |-> Place(Agg!FreeSlot),
         repaid |-> [charged EXCEPT ![d.key.job_id].concurrent_slots = Agg!Less(@, 1)],
         sum |-> IF takes THEN [key |-> d.key, chunk_len |-> added.chunk_len,
                                sum |-> added.sum,
                                num_workers |-> added.num_workers_expected]
                 ELSE NoFinal]

\* The XDP program is done with the datagram.
Done(p) ==
    IF ~p.takes THEN Agree(p.slots, p.jobs, p.out)
    ELSE IF ~p.last THEN Agree(p.filled, p.charged, p.out)
    ELSE Agree(p.freed, p.repaid, Append(p.out, p.sum))

\* ... and is not.
SameFields(f, d) ==
    /\ f.key = d.key /\ f.worker_id = d.worker_id
    /\ f.num_workers = d.num_workers /\ f.chunk_len = d.chunk_len
Stage(c, d, p) ==
    /\ SameFields(frame[c], d) /\ p.valid
    /\ pc[c] \in {"precheck", "quota", "create"} => Agree(p.slots, p.jobs, p.out)
    /\ pc[c] = "quota" => max_slots[c] = FixedQuota /\ FixedQuota > 0
    /\ pc[c] = "create" => ~p.atquota
    /\ pc[c] \in Making => Agree(p.opened, p.jobs, p.out) /\ ~p.refused /\ ~p.here.in_use
    /\ pc[c] = "newjob" => JobOf(c) \notin Tracked
    /\ pc[c] = "lock" => Agree(p.opened, p.charged, p.out) /\ ~p.refused
    /\ pc[c] \in After =>
          p.takes /\ p.last /\ final[c] # NoFinal /\ SumsAgree(final[c], p.sum)
    /\ pc[c] \in Closing => Agree(p.filled, p.charged, p.out)
    /\ pc[c] \in {"decrement", "subtract"} => Agree(p.freed, p.charged, p.out)
    /\ pc[c] = "tx" => Agree(p.freed, p.repaid, p.out)

Ahead(c, d, p) ==
    IF pc[c] \in {"idle", "lost", "stat", "newstat"} THEN Done(p) ELSE Stage(c, d, p)
AggTyped == SlotsTyped(slots) /\ JobsTyped(jobs) /\ out \in Seq(Agg!Emission)
Coupled(c) ==
    \/ asymmetric
    \/ queue = <<>> /\ pc[c] = "idle" /\ Agree(slots, jobs, out)
    \/ /\ AggTyped
       /\ \E r \in RawDatagrams :
             queue = <<DatagramOf(r)>> /\ Ahead(c, DatagramOf(r), Fate(DatagramOf(r)))

CoupledInv == \A c \in CPUs : Coupled(c)

\* A key's slot is met first by its lookup: keys have places of their own, or
\* there is but one place.
NoDetour == SLOT_MAP_ENTRIES = 1 \/ \A k, m \in Keys : Home(k) = Home(m) => k = m

LEMMA AggNames ==
    /\ Agg!Keys = Keys /\ Agg!Workers = Workers
    /\ Agg!Index = 0 .. SLOT_MAP_ENTRIES - 1
BY DEF Agg!Keys, Keys, Agg!Workers, Workers, Agg!Index

LEMMA HomeType == ASSUME NEW k \in Keys PROVE Home(k) \in Agg!Index
<1>1. SlotHash[k] + 0 \in Nat /\ SLOT_MAP_ENTRIES \in Nat \ {0}
  BY ParityAssumption, MapAssumption
<1>2. (SlotHash[k] + 0) % SLOT_MAP_ENTRIES \in 0 .. SLOT_MAP_ENTRIES - 1
  BY <1>1
<1>3. QED BY <1>2, AggNames DEF Home, Agg!ProbeIndex

\* A slot is free, or used with fields of their types.
LEMMA SlotKinds ==
    ASSUME NEW S, SlotsTyped(S), NEW i \in Agg!Index
    PROVE  \/ S[i] = Agg!FreeSlot /\ ~S[i].in_use
           \/ S[i] \in Agg!UsedSlot /\ S[i].in_use /\ S[i].key \in Keys /\ Home(S[i].key) = i
<1>1. S[i] \in Agg!UsedSlot \cup {Agg!FreeSlot}
  BY DEF SlotsTyped
<1>2. CASE S[i] = Agg!FreeSlot
  BY <1>2 DEF Agg!FreeSlot
<1>3. CASE S[i] \in Agg!UsedSlot
  <2>1. S[i].in_use /\ S[i].key \in Agg!Keys
    BY <1>3 DEF Agg!UsedSlot
  <2>2. QED BY <1>3, <2>1, AggNames DEF SlotsTyped
<1>4. QED BY <1>1, <1>2, <1>3

\* find_or_create_slot() ends at a key's place, or nowhere.
LEMMA FoundHome ==
    ASSUME NoDetour, SlotsTyped(slots), NEW k \in Keys
    PROVE  /\ ~slots[Home(k)].in_use \/ slots[Home(k)].key = k =>
                 Agg!Stops(k) # {} /\ Agg!Found(k) = Home(k)
           /\ slots[Home(k)].in_use /\ slots[Home(k)].key # k => Agg!Stops(k) = {}
<1>1. Home(k) \in Agg!Index /\ SLOT_MAP_ENTRIES \in Nat \ {0}
  BY HomeType, MapAssumption
<1>2. ASSUME ~slots[Home(k)].in_use \/ slots[Home(k)].key = k
      PROVE  Agg!Stops(k) # {} /\ Agg!Found(k) = Home(k)
  <2>1. 0 \in Agg!Stops(k) /\ Agg!Stops(k) \subseteq Nat
    BY <1>1, <1>2 DEF Agg!Stops, Agg!StopsAt, Home
  <2> DEFINE p == CHOOSE p \in Agg!Stops(k) : \A q \in Agg!Stops(k) : p <= q
  <2>2. p = 0
    <3>1. \A q \in Agg!Stops(k) : 0 <= q
      BY <2>1
    <3>2. p \in Agg!Stops(k) /\ \A q \in Agg!Stops(k) : p <= q
      BY <2>1, <3>1
    <3>3. QED BY <2>1, <3>2
  <2>3. QED BY <2>1, <2>2 DEF Agg!Found, Home
<1>3. ASSUME slots[Home(k)].in_use, slots[Home(k)].key # k PROVE Agg!Stops(k) = {}
  <2>1. slots[Home(k)].key \in Keys /\ Home(slots[Home(k)].key) = Home(k)
    BY <1>1, <1>3, SlotKinds
  <2>2. SLOT_MAP_ENTRIES = 1
    BY <1>3, <2>1 DEF NoDetour
  <2>3. \A p \in 0 .. SLOT_MAP_ENTRIES - 1 : p = 0
    BY <2>2
  <2>4. ~Agg!StopsAt(k, Agg!ProbeIndex(k, 0))
    BY <1>3 DEF Agg!StopsAt, Home
  <2>5. QED BY <2>3, <2>4 DEF Agg!Stops
<1>4. QED BY <1>2, <1>3

\* The elements of the kernel's map.
LEMMA ElemsFinite == IsFiniteSet(Elems) /\ Cardinality(Elems) = SLOT_MAP_ENTRIES
<1>1. 1 \in Int /\ SLOT_MAP_ENTRIES \in Int /\ SLOT_MAP_ENTRIES >= 1
  BY MapAssumption
<1>2. /\ IsFiniteSet(1 .. SLOT_MAP_ENTRIES)
      /\ Cardinality(1 .. SLOT_MAP_ENTRIES) =
            IF 1 > SLOT_MAP_ENTRIES THEN 0 ELSE SLOT_MAP_ENTRIES - 1 + 1
  BY <1>1, FS_Interval
<1>3. QED BY <1>1, <1>2 DEF Elems

LEMMA IndexFinite == IsFiniteSet(Agg!Index) /\ Cardinality(Agg!Index) = SLOT_MAP_ENTRIES
<1>1. 0 \in Int /\ SLOT_MAP_ENTRIES - 1 \in Int /\ SLOT_MAP_ENTRIES - 1 >= 0
  BY MapAssumption
<1>2. /\ IsFiniteSet(0 .. SLOT_MAP_ENTRIES - 1)
      /\ Cardinality(0 .. SLOT_MAP_ENTRIES - 1) =
            IF 0 > SLOT_MAP_ENTRIES - 1 THEN 0 ELSE SLOT_MAP_ENTRIES - 1 - 0 + 1
  BY <1>1, FS_Interval
<1>3. SLOT_MAP_ENTRIES - 1 - 0 + 1 = SLOT_MAP_ENTRIES
  BY MapAssumption
<1>4. QED BY <1>1, <1>2, <1>3, AggNames

\* Both tables have room for a key that has no slot, or neither has.
LEMMA RoomAgrees ==
    ASSUME NoDetour, TypeInv, MapInjective, NEW S, SlotsAgree(S), NEW k \in Keys, slot_map[k] = NULL
    PROVE  FreeElems # {} <=> ~S[Home(k)].in_use
<1> DEFINE h == Home(k)
<1>1. h \in Agg!Index /\ SlotsTyped(S) /\ SLOT_MAP_ENTRIES \in Nat \ {0}
  BY HomeType, MapAssumption DEF SlotsAgree
<1>2. \A m \in Keys : slot_map[m] # NULL <=> Holds(S, m)
  BY DEF SlotsAgree, KeyAgrees
<1>3. CASE SLOT_MAP_ENTRIES = 1
  <2>1. Elems = {1} /\ 1 # NULL
    BY <1>3 DEF Elems, NULL
  <2>2. Agg!Index = {0}
    BY <1>3, AggNames
  <2>3. FreeElems = {} => S[h].in_use
    <3>1. SUFFICES ASSUME FreeElems = {} PROVE S[h].in_use
      OBVIOUS
    <3>2. PICK m \in Keys : slot_map[m] = 1
      BY <2>1, <3>1 DEF FreeElems
    <3>3. Holds(S, m) /\ Home(m) = h
      BY <1>1, <1>2, <2>1, <2>2, <3>2, HomeType
    <3>4. QED BY <3>3 DEF Holds
  <2>4. S[h].in_use => FreeElems = {}
    <3>1. SUFFICES ASSUME S[h].in_use PROVE FreeElems = {}
      OBVIOUS
    <3>2. S[h].key \in Keys /\ Home(S[h].key) = h
      BY <1>1, <3>1, SlotKinds
    <3>3. slot_map[S[h].key] # NULL
      BY <1>2, <3>1, <3>2 DEF Holds
    <3>4. slot_map[S[h].key] = 1
      BY <2>1, <3>2, <3>3 DEF TypeInv, MapsTyped
    <3>5. QED BY <2>1, <3>2, <3>4 DEF FreeElems
  <2>5. QED BY <2>3, <2>4
<1>4. CASE \A m, n \in Keys : Home(m) = Home(n) => m = n
  <2>1. ~S[h].in_use
    <3>1. SUFFICES ASSUME S[h].in_use PROVE FALSE
      OBVIOUS
    <3>2. S[h].key \in Keys /\ Home(S[h].key) = h
      BY <1>1, <3>1, SlotKinds
    <3>3. S[h].key = k
      BY <1>4, <3>2
    <3>4. QED BY <1>2, <3>1, <3>3 DEF Holds
  <2>2. FreeElems # {}
    <3>1. SUFFICES ASSUME FreeElems = {} PROVE FALSE
      OBVIOUS
    <3> DEFINE owner(e) == CHOOSE m \in Keys : slot_map[m] = e
               f == [e \in Elems |-> Home(owner(e))]
               T == Agg!Index \ {h}
    <3>2. \A e \in Elems : owner(e) \in Keys /\ slot_map[owner(e)] = e
      BY <3>1 DEF FreeElems
    <3>3. \A e \in Elems : Home(owner(e)) \in T
      <4>1. SUFFICES ASSUME NEW e \in Elems PROVE Home(owner(e)) # h
        BY <3>2, HomeType
      <4>2. owner(e) # k
        <5>1. e # NULL
          BY DEF Elems, NULL
        <5>2. QED BY <3>2, <5>1
      <4>3. QED BY <1>4, <3>2, <4>2
    <3>4. f \in [Elems -> T]
      BY <3>3
    <3>5. IsFiniteSet(T) /\ Cardinality(T) = SLOT_MAP_ENTRIES - 1
      BY <1>1, IndexFinite, FS_RemoveElement
    <3>6. Cardinality(Elems) > Cardinality(T)
      BY <1>1, <3>5, ElemsFinite
    <3> HIDE DEF f, T
    <3>7. \E x, y \in Elems : x # y /\ f[x] = f[y]
      BY <3>4, <3>5, <3>6, ElemsFinite, FS_PigeonHole
    <3>8. PICK x, y \in Elems : x # y /\ f[x] = f[y]
      BY <3>7
    <3>9. Home(owner(x)) = Home(owner(y))
      BY <3>8 DEF f
    <3>10. owner(x) = owner(y)
      BY <1>4, <3>2, <3>9
    <3>11. QED BY <3>2, <3>8, <3>10
  <2>3. QED BY <2>1, <2>2
<1>5. QED BY <1>3, <1>4 DEF NoDetour

-----------------------------------------------------------------------------
(***************************************************************************)
(* What agg.c makes of a datagram, field by field.                         *)
(***************************************************************************)
NewSlot(d) ==
    [in_use |-> TRUE, key |-> d.key, num_workers_expected |-> d.num_workers,
     contributions_received |-> 0, sum |-> [w \in Agg!Workers |-> 0],
     chunk_len |-> d.chunk_len, seen_worker |-> {}, age |-> 0]
HasEntry(j, J) ==
    J[j].in_use \/ Cardinality({i \in Jobs : J[i].in_use}) < JOB_QUOTA_ENTRIES

AddedTo(d, s, a) ==
    /\ a \in Agg!UsedSlot /\ a.key = d.key
    /\ a.chunk_len = s.chunk_len /\ a.num_workers_expected = s.num_workers_expected
    /\ a.contributions_received = s.contributions_received + 1
    /\ a.seen_worker = s.seen_worker \cup {d.worker_id}
    /\ \A w \in Workers : a.sum[w] = IF w = d.worker_id THEN s.sum[w] + 1 ELSE s.sum[w]

FateSlots(d, p) ==
    LET h == Home(d.key) IN
    /\ SlotsTyped(p.slots) /\ p.here = p.slots[h]
    /\ p.valid <=> Valid(d)
    /\ p.refused <=> IF p.here.in_use THEN p.here.key # d.key ELSE p.atquota
    /\ ~p.refused =>
          /\ p.slot = IF p.here.in_use THEN p.here ELSE NewSlot(d)
          /\ p.slot \in Agg!UsedSlot /\ p.slot.key = d.key
          /\ p.opened = [p.slots EXCEPT ![h] = p.slot]
    /\ p.takes <=> /\ p.valid /\ ~p.refused /\ p.slot.chunk_len = d.chunk_len
                   /\ d.worker_id \notin p.slot.seen_worker
    /\ p.takes =>
          /\ AddedTo(d, p.slot, p.added)
          /\ p.last <=> p.added.contributions_received >= p.added.num_workers_expected
          /\ p.filled = [p.slots EXCEPT ![h] = p.added]
          /\ p.freed = [p.slots EXCEPT ![h] = Agg!FreeSlot]
FateJobs(d, p) ==
    LET j == d.key.job_id IN
    /\ JobsTyped(p.jobs)
    /\ p.atquota <=> /\ HasEntry(j, p.jobs) /\ FixedQuota > 0
                     /\ p.jobs[j].concurrent_slots >= FixedQuota
    /\ ~p.refused =>
          /\ JobsTyped(p.charged) /\ \A i \in Jobs \ {j} : p.charged[i] = p.jobs[i]
          /\ IF p.here.in_use \/ ~HasEntry(j, p.jobs) THEN p.charged = p.jobs
             ELSE /\ p.charged[j].in_use
                  /\ p.charged[j].concurrent_slots = p.jobs[j].concurrent_slots + 1
          /\ JobsTyped(p.repaid) /\ \A i \in Jobs \ {j} : p.repaid[i] = p.charged[i]
          /\ p.repaid[j].in_use = p.charged[j].in_use
          /\ p.repaid[j].concurrent_slots = Agg!Less(p.charged[j].concurrent_slots, 1)
FateSent(d, p) ==
    /\ p.out \in Seq(Agg!Emission)
    /\ p.takes =>
          /\ p.sum \in Agg!Emission /\ p.sum.key = d.key
          /\ p.sum.chunk_len = p.added.chunk_len /\ p.sum.sum = p.added.sum
          /\ p.sum.num_workers = p.added.num_workers_expected
Given(d) ==
    /\ d.key \in Keys /\ d.key.job_id \in Jobs /\ Home(d.key) \in Agg!Index
    /\ d.worker_id \in Nat /\ d.num_workers \in Nat /\ d.chunk_len \in Nat
    /\ Valid(d) => d.worker_id \in Workers
FateIs(d, p) == Given(d) /\ FateSlots(d, p) /\ FateJobs(d, p) /\ FateSent(d, p)

LEMMA GivenType ==
    ASSUME NEW r \in RawDatagrams, NEW d, d = DatagramOf(r)
    PROVE  /\ Given(d)
           /\ SameFields(FrameOf(r), d) /\ FrameOf(r) \in Frames /\ FrameOf(r).key = r.key
           /\ Valid(d) <=> WellFormed(FrameOf(r)) /\ MayCreate(FrameOf(r))
<1>1. /\ d.key \in Keys /\ d.worker_id \in Nat /\ d.num_workers \in Nat /\ d.chunk_len \in Nat
      /\ SameFields(FrameOf(r), d) /\ FrameOf(r) \in Frames /\ FrameOf(r).key = r.key
      /\ d.n = FrameOf(r).n
  BY Parsed DEF SameFields
<1>2. d.key.job_id \in Jobs /\ Home(d.key) \in Agg!Index
  BY <1>1, HomeType DEF Keys
<1>3. Valid(d) => d.worker_id \in Workers
  BY <1>1, MapAssumption DEF Valid, Agg!WellFormed, Workers
<1>4. Valid(d) <=> WellFormed(FrameOf(r)) /\ MayCreate(FrameOf(r))
  BY <1>1 DEF Valid, Agg!WellFormed, WellFormed, MayCreate, SameFields
<1>5. QED BY <1>1, <1>2, <1>3, <1>4 DEF Given

\* Where the lookup ends.
LEMMA FateHere ==
    ASSUME NoDetour, SlotsTyped(slots), NEW d, d.key \in Keys
    PROVE  LET here == slots[Home(d.key)] IN
           /\ Agg!Refused(d.key) <=>
                 IF here.in_use THEN here.key # d.key ELSE Agg!AtQuota(d.key.job_id)
           /\ ~Agg!Refused(d.key) =>
                 /\ Agg!Found(d.key) = Home(d.key)
                 /\ Agg!SlotFor(d) = IF here.in_use THEN here ELSE NewSlot(d)
<1> DEFINE here == slots[Home(d.key)]
<1>1. CASE here.in_use /\ here.key # d.key
  BY <1>1, FoundHome DEF Agg!Refused
<1>2. CASE ~here.in_use \/ here.key = d.key
  <2>1. Agg!Stops(d.key) # {} /\ Agg!Found(d.key) = Home(d.key)
    BY <1>2, FoundHome
  <2>2. Agg!Refused(d.key) <=> ~here.in_use /\ Agg!AtQuota(d.key.job_id)
    BY <2>1 DEF Agg!Refused, Agg!RefusedByQuota
  <2>3. Agg!SlotFor(d) = IF here.in_use THEN here ELSE NewSlot(d)
    BY <2>1 DEF Agg!SlotFor, NewSlot
  <2>4. QED BY <1>2, <2>1, <2>2, <2>3
<1>3. QED BY <1>1, <1>2

LEMMA NewSlotType ==
    ASSUME NEW d, d.key \in Keys, d.num_workers \in Nat, d.chunk_len \in Nat
    PROVE  /\ NewSlot(d) \in Agg!UsedSlot /\ NewSlot(d).key = d.key
           /\ NewSlot(d).chunk_len = d.chunk_len /\ NewSlot(d).seen_worker = {}
           /\ NewSlot(d).num_workers_expected = d.num_workers
           /\ NewSlot(d).contributions_received = 0
           /\ \A w \in Workers : NewSlot(d).sum[w] = 0
BY AggNames DEF NewSlot, Agg!UsedSlot

\* d is added to the slot.
LEMMA AddedToSlot ==
    ASSUME NEW d, NEW s, s = Agg!SlotFor(d), s \in Agg!UsedSlot, s.key = d.key,
           d.worker_id \in Workers
    PROVE  AddedTo(d, s, Agg!Accumulated(d))
<1> DEFINE w     == d.worker_id
           sum   == Agg!Summed(s.sum, w)
           count == s.contributions_received + 1
           seen  == s.seen_worker \cup {w}
           a     == Agg!Accumulated(d)
<1>1. /\ s.sum \in [Workers -> Nat] /\ s.contributions_received \in Nat
      /\ s.seen_worker \in SUBSET Workers
  BY AggNames, Zenon DEF Agg!UsedSlot
<1>2. /\ sum \in [Workers -> Nat] /\ count \in Nat /\ seen \in SUBSET Workers /\ 0 \in Int
      /\ \A v \in Workers : sum[v] = IF v = w THEN s.sum[v] + 1 ELSE s.sum[v]
  BY <1>1 DEF Agg!Summed
<1>3. a = [s EXCEPT !.seen_worker = seen, !.age = 0, !.sum = sum,
                    !.contributions_received = count]
  BY DEF Agg!Accumulated
<1> HIDE DEF w, sum, count, seen, a
<1>4. /\ a \in Agg!UsedSlot /\ a.key = s.key
      /\ a.chunk_len = s.chunk_len /\ a.num_workers_expected = s.num_workers_expected
      /\ a.contributions_received = count /\ a.seen_worker = seen /\ a.sum = sum
  BY <1>2, <1>3, AggNames, ZenonT(30) DEF Agg!UsedSlot
<1>5. QED BY <1>2, <1>4 DEF AddedTo, w, sum, count, seen, a

\* d's job is charged.
LEMMA ChargedJob ==
    ASSUME JobsTyped(jobs), NEW k \in Keys, NEW j, j = k.job_id, NEW J, J = Agg!JobsAfterLookup(k)
    PROVE  /\ JobsTyped(J) /\ \A i \in Jobs \ {j} : J[i] = jobs[i]
           /\ IF slots[Agg!Found(k)].in_use \/ ~Agg!JobFound(j) THEN J = jobs
              ELSE J[j].in_use /\ J[j].concurrent_slots = jobs[j].concurrent_slots + 1
<1>1. j \in Jobs /\ jobs \in [Jobs -> Agg!JobEntry]
  BY DEF Keys, JobsTyped
<1>2. CASE slots[Agg!Found(k)].in_use \/ ~Agg!JobFound(j)
  BY <1>2 DEF Agg!JobsAfterLookup
<1>3. CASE ~(slots[Agg!Found(k)].in_use \/ ~Agg!JobFound(j))
  <2>1. J = [jobs EXCEPT ![j].in_use = TRUE, ![j].concurrent_slots = @ + 1,
                         ![j].admitted_count = @ + 1]
    BY <1>3 DEF Agg!JobsAfterLookup
  <2>2. /\ JobsTyped(J) /\ J[j].in_use /\ J[j].concurrent_slots = jobs[j].concurrent_slots + 1
        /\ \A i \in Jobs \ {j} : J[i] = jobs[i]
    BY <1>1, <2>1 DEF Agg!JobEntry, JobsTyped
  <2>3. QED BY <1>3, <2>2
<1>4. QED BY <1>2, <1>3

\* ... and repaid.
Repays(J, j, R) ==
    R = [J EXCEPT ![j] = [J[j] EXCEPT !.concurrent_slots =
                                          Agg!Less(J[j].concurrent_slots, 1)]]
LEMMA RepaidJob ==
    ASSUME NEW J, JobsTyped(J), NEW j \in Jobs, NEW R, Repays(J, j, R)
    PROVE  /\ JobsTyped(R) /\ \A i \in Jobs \ {j} : R[i] = J[i]
           /\ R[j].in_use = J[j].in_use
           /\ R[j].concurrent_slots = Agg!Less(J[j].concurrent_slots, 1)
<1> DEFINE e == J[j]
           n == Agg!Less(e.concurrent_slots, 1)
<1>1. e \in Agg!JobEntry
  BY DEF JobsTyped
<1>2. n \in Nat
  <2>1. e.concurrent_slots \in Nat
    BY <1>1, Zenon DEF Agg!JobEntry
  <2>2. QED BY <2>1 DEF Agg!Less
<1>3. R = [J EXCEPT ![j] = [e EXCEPT !.concurrent_slots = n]]
  BY Zenon DEF Repays
<1> HIDE DEF e, n
<1>4. /\ [e EXCEPT !.concurrent_slots = n] \in Agg!JobEntry
      /\ [e EXCEPT !.concurrent_slots = n].concurrent_slots = n
      /\ [e EXCEPT !.concurrent_slots = n].in_use = e.in_use
  BY <1>1, <1>2, Zenon DEF Agg!JobEntry
<1>5. PICK x : x = [e EXCEPT !.concurrent_slots = n]
  OBVIOUS
<1>6. /\ R \in [Jobs -> Agg!JobEntry] /\ R[j] = x /\ \A i \in Jobs \ {j} : R[i] = J[i]
      /\ x.concurrent_slots = n /\ x.in_use = e.in_use
  BY <1>3, <1>4, <1>5 DEF JobsTyped
<1>7. QED BY <1>6 DEF JobsTyped, e, n

LEMMA FateType ==
    ASSUME NoDetour, AggTyped, NEW r \in RawDatagrams, NEW d, d = DatagramOf(r),
           NEW p, p = Fate(d)
    PROVE  FateIs(d, p)
<1>1. /\ d.key \in Keys /\ d.key.job_id \in Jobs /\ Home(d.key) \in Agg!Index
      /\ d.num_workers \in Nat /\ d.chunk_len \in Nat
      /\ Valid(d) => d.worker_id \in Workers
  BY GivenType DEF Given
<1> DEFINE h == Home(d.key)
           here == slots[h]
           j == d.key.job_id
<1>2. /\ p.slots = slots /\ p.jobs = jobs /\ p.out = out /\ p.here = here
      /\ p.atquota = Agg!AtQuota(j) /\ p.valid = Valid(d) /\ p.refused = Agg!Refused(d.key)
      /\ p.takes = (Valid(d) /\ ~p.refused /\ ~Agg!Mismatch(d) /\ ~Agg!Duplicate(d))
      /\ p.last = (p.takes /\ Agg!Completes(d))
      /\ p.opened = [slots EXCEPT ![h] = p.slot]
      /\ p.filled = [slots EXCEPT ![h] = p.added]
      /\ p.freed = [slots EXCEPT ![h] = Agg!FreeSlot]
      /\ p.repaid = [p.charged EXCEPT ![j].concurrent_slots = Agg!Less(@, 1)]
  BY DEF Fate
<1>3. /\ ~p.refused => p.slot = Agg!SlotFor(d) /\ p.charged = Agg!JobsAfterLookup(d.key)
      /\ p.takes => /\ p.added = Agg!Accumulated(d)
                    /\ p.sum = [key |-> d.key, chunk_len |-> p.added.chunk_len,
                                sum |-> p.added.sum,
                                num_workers |-> p.added.num_workers_expected]
  BY DEF Fate
<1>4. Agg!JobFound(j) <=> HasEntry(j, jobs)
  <2>1. Agg!TrackedJobs = {i \in Jobs : jobs[i].in_use}
    BY DEF Agg!TrackedJobs
  <2>2. Cardinality({i \in Jobs : jobs[i].in_use}) \in Nat
    BY RunAssumption, FS_Subset, FS_CardinalityType
  <2>3. \A S : Agg!Cardinality(S) = Cardinality(S)
    BY DEF Agg!Cardinality, Cardinality
  <2>4. QED BY <2>1, <2>2, <2>3, MapAssumption DEF Agg!JobFound, Agg!JobTableFull, HasEntry
<1>5. p.refused <=> IF here.in_use THEN here.key # d.key ELSE p.atquota
  BY <1>1, <1>2, FateHere DEF AggTyped
<1>6. ASSUME ~p.refused
      PROVE  /\ p.slot = (IF here.in_use THEN here ELSE NewSlot(d))
             /\ p.slot \in Agg!UsedSlot /\ p.slot.key = d.key
  <2>1. p.slot = IF here.in_use THEN here ELSE NewSlot(d)
    BY <1>1, <1>2, <1>3, <1>6, FateHere DEF AggTyped
  <2>2. CASE here.in_use
    <3>1. here \in Agg!UsedSlot /\ here.key = d.key
      BY <1>1, <1>5, <1>6, <2>2, SlotKinds DEF AggTyped
    <3>2. QED BY <2>1, <2>2, <3>1
  <2>3. CASE ~here.in_use
    <3>1. p.slot = NewSlot(d)
      BY <2>1, <2>3
    <3>2. p.slot \in Agg!UsedSlot /\ p.slot.key = d.key
      BY <1>1, <3>1, NewSlotType
    <3>3. QED BY <2>1, <3>2
  <2>4. QED BY <2>2, <2>3
<1>7. ASSUME p.takes PROVE AddedTo(d, p.slot, p.added)
  <2>1. PICK s : s = Agg!SlotFor(d)
    OBVIOUS
  <2>2. p.slot = s /\ p.added = Agg!Accumulated(d) /\ ~p.refused
    BY <1>2, <1>3, <1>7, <2>1
  <2>3. s \in Agg!UsedSlot /\ s.key = d.key /\ d.worker_id \in Workers
    BY <1>1, <1>2, <1>6, <1>7, <2>2
  <2>4. AddedTo(d, s, Agg!Accumulated(d))
    BY <2>1, <2>3, AddedToSlot
  <2>5. QED BY <2>2, <2>4
<1>8. FateSlots(d, p)
  <2>1. p.takes <=> /\ p.valid /\ ~p.refused /\ p.slot.chunk_len = d.chunk_len
                    /\ d.worker_id \notin p.slot.seen_worker
    <3>1. p.takes <=> Valid(d) /\ ~p.refused /\ ~Agg!Mismatch(d) /\ ~Agg!Duplicate(d)
      BY <1>2, Zenon
    <3>2. ~p.refused => p.slot = Agg!SlotFor(d)
      BY <1>3, Zenon
    <3>3. p.valid <=> Valid(d)
      BY <1>2, Zenon
    <3>4. QED BY <3>1, <3>2, <3>3 DEF Agg!Mismatch, Agg!Duplicate
  <2>2. p.takes => (p.last <=> p.added.contributions_received >= p.added.num_workers_expected)
    BY <1>2, <1>3 DEF Agg!Completes
  <2>3. SlotsTyped(p.slots) /\ p.here = p.slots[h] /\ (p.valid <=> Valid(d))
    <3>1. SlotsTyped(p.slots)
      BY <1>2, Zenon DEF AggTyped
    <3>2. p.here = p.slots[h] /\ p.valid = Valid(d)
      BY <1>2, ZenonT(60)
    <3>3. QED BY <3>1, <3>2, Zenon
  <2> HIDE DEF h
  <2>4. QED BY <1>2, <1>5, <1>6, <1>7, <2>1, <2>2, <2>3 DEF FateSlots, h
<1>9. FateJobs(d, p)
  <2>1. p.atquota <=> HasEntry(j, p.jobs) /\ FixedQuota > 0
                      /\ p.jobs[j].concurrent_slots >= FixedQuota
    BY <1>2, <1>4 DEF Agg!AtQuota
  <2>2. ASSUME ~p.refused
        PROVE  /\ JobsTyped(p.charged) /\ \A i \in Jobs \ {j} : p.charged[i] = p.jobs[i]
               /\ IF here.in_use \/ ~HasEntry(j, p.jobs) THEN p.charged = p.jobs
                  ELSE /\ p.charged[j].in_use
                       /\ p.charged[j].concurrent_slots = p.jobs[j].concurrent_slots + 1
    <3>1. p.charged = Agg!JobsAfterLookup(d.key) /\ Agg!Found(d.key) = h
      BY <1>1, <1>2, <1>3, <2>2, FateHere DEF AggTyped
    <3>2. QED BY <1>1, <1>2, <1>4, <3>1, ChargedJob DEF AggTyped
  <2>3. ASSUME ~p.refused
        PROVE  /\ JobsTyped(p.repaid) /\ \A i \in Jobs \ {j} : p.repaid[i] = p.charged[i]
               /\ p.repaid[j].in_use = p.charged[j].in_use
               /\ p.repaid[j].concurrent_slots = Agg!Less(p.charged[j].concurrent_slots, 1)
    <3>0. PICK i \in Jobs : i = d.key.job_id
      BY <1>1
    <3>1. PICK J, R : J = p.charged /\ R = p.repaid
      OBVIOUS
    <3>2. JobsTyped(J)
      BY <2>2, <2>3, <3>1
    <3>3. Repays(J, i, R)
      BY <1>2, <3>0, <3>1 DEF Repays
    <3>4. /\ JobsTyped(R) /\ \A m \in Jobs \ {i} : R[m] = J[m]
          /\ R[i].in_use = J[i].in_use
          /\ R[i].concurrent_slots = Agg!Less(J[i].concurrent_slots, 1)
      BY <3>2, <3>3, RepaidJob, Zenon
    <3>5. QED BY <3>0, <3>1, <3>4
  <2>4. QED BY <1>2, <2>1, <2>2, <2>3 DEF FateJobs, AggTyped
<1>10. FateSent(d, p)
  <2>1. ASSUME p.takes
        PROVE  /\ p.sum \in Agg!Emission /\ p.sum.key = d.key
               /\ p.sum.chunk_len = p.added.chunk_len /\ p.sum.sum = p.added.sum
               /\ p.sum.num_workers = p.added.num_workers_expected
    <3>1. PICK a : a = p.added
      OBVIOUS
    <3>2. a \in Agg!UsedSlot
      BY <1>7, <2>1, <3>1 DEF AddedTo
    <3>3. a.chunk_len \in Nat /\ a.sum \in [Agg!Workers -> Nat] /\ a.num_workers_expected \in Nat
      BY <3>2 DEF Agg!UsedSlot
    <3>4. p.sum = [key |-> d.key, chunk_len |-> a.chunk_len, sum |-> a.sum,
                   num_workers |-> a.num_workers_expected]
      BY <1>3, <2>1, <3>1
    <3>5. QED BY <1>1, <3>1, <3>3, <3>4, AggNames DEF Agg!Emission
  <2>2. QED BY <1>2, <2>1 DEF FateSent, AggTyped
<1>11. QED BY <1>8, <1>9, <1>10, GivenType DEF FateIs

-----------------------------------------------------------------------------
(***************************************************************************)
(* The tables stay in step when one key's slot and one job's count change. *)
(***************************************************************************)
LEMMA UsedKinds ==
    /\ \A s \in Agg!UsedSlot : s.in_use
    /\ ~Agg!FreeSlot.in_use
BY DEF Agg!UsedSlot, Agg!FreeSlot

\* A slot is put at its home, or taken from there.
LEMMA SlotSet ==
    ASSUME NEW S, SlotsTyped(S), NEW k \in Keys, ~S[Home(k)].in_use \/ S[Home(k)].key = k,
           NEW t \in Agg!UsedSlot \cup {Agg!FreeSlot}, t.in_use => t.key = k,
           NEW T, T = [S EXCEPT ![Home(k)] = t], KeyAgrees(T, k)',
           \A m \in Keys \ {k} :
              /\ KeyAgrees(S, m) /\ slot_map'[m] = slot_map[m]
              /\ slot_map[m] # NULL => SlotOf(m)' = SlotOf(m)
    PROVE  SlotsAgree(T)'
<1> DEFINE h == Home(k)
<1>1. h \in Agg!Index /\ S \in [Agg!Index -> Agg!UsedSlot \cup {Agg!FreeSlot}]
  BY HomeType DEF SlotsTyped
<1>2. T[h] = t /\ \A i \in Agg!Index \ {h} : T[i] = S[i]
  BY <1>1
<1>3. SlotsTyped(T)
  <2>1. T \in [Agg!Index -> Agg!UsedSlot \cup {Agg!FreeSlot}]
    BY <1>1
  <2>2. ASSUME NEW i \in Agg!Index, T[i].in_use PROVE Home(T[i].key) = i
    BY <1>1, <1>2, <2>2 DEF SlotsTyped
  <2>3. QED BY <2>1, <2>2 DEF SlotsTyped
<1>4. ASSUME NEW m \in Keys \ {k} PROVE KeyAgrees(T, m)'
  <2>1. Home(m) \in Agg!Index
    BY HomeType
  <2>2. CASE Home(m) # h
    <3>1. PICK u : u = S[Home(m)] /\ u = T[Home(m)]
      BY <1>2, <2>1, <2>2
    <3>2. PICK x : x = SlotOf(m)
      OBVIOUS
    <3>3. IF slot_map[m] = NULL THEN ~(u.in_use /\ u.key = m)
          ELSE u.in_use /\ u.key = m /\ SlotAgrees(m, x, u)
      BY <3>1, <3>2 DEF KeyAgrees, Holds
    <3>4. slot_map'[m] = slot_map[m] /\ (slot_map[m] # NULL => SlotOf(m)' = x)
      BY <3>2
    <3>5. QED BY <3>1, <3>3, <3>4 DEF KeyAgrees, Holds, SlotAgrees
  <2>3. CASE Home(m) = h
    <3>1. ~Holds(S, m)
      BY <2>3 DEF Holds
    <3>2. slot_map'[m] = NULL
      BY <3>1 DEF KeyAgrees
    <3>3. ~(T[h].in_use /\ T[h].key = m)
      BY <1>2
    <3>4. QED BY <2>3, <3>2, <3>3 DEF KeyAgrees, Holds
  <2>4. QED BY <2>2, <2>3
<1>5. \A m \in Keys : KeyAgrees(T, m)'
  BY <1>4
<1>6. QED BY <1>3, <1>5 DEF SlotsAgree, SlotsTyped

LEMMA SlotsKept ==
    ASSUME NEW S, SlotsAgree(S), UNCHANGED <<slot_map, elem>>
    PROVE  SlotsAgree(S)'
BY DEF SlotsAgree, SlotsTyped, KeyAgrees, Holds, SlotAgrees, SlotOf

LEMMA JobsKept ==
    ASSUME NEW J, JobsAgree(J), UNCHANGED job_quota_map
    PROVE  JobsAgree(J)'
BY DEF JobsAgree, JobsTyped, JobAgrees, CountOf, Tracked

LEMMA SentKept ==
    ASSUME NEW O, SentAgrees(O), UNCHANGED emitted
    PROVE  SentAgrees(O)'
BY DEF SentAgrees, SumsAgree

LEMMA AgreeKept ==
    ASSUME NEW S, NEW J, NEW O, Agree(S, J, O),
           UNCHANGED <<slot_map, elem, job_quota_map, emitted>>
    PROVE  Agree(S, J, O)'
<1>1. SlotsAgree(S)' /\ JobsAgree(J)' /\ SentAgrees(O)'
  BY SlotsKept, JobsKept, SentKept DEF Agree
<1>2. QED BY <1>1 DEF Agree

\* Job a's count becomes v; K has it so.
LEMMA JobSet ==
    ASSUME TypeInv, NEW J, JobsAgree(J), NEW a \in Jobs, NEW v \in 0 .. UINT32 - 1,
           job_quota_map' = Put(job_quota_map, a, v),
           NEW K, JobsTyped(K), \A i \in Jobs \ {a} : K[i] = J[i],
           K[a].in_use, K[a].concurrent_slots = v
    PROVE  JobsAgree(K)'
<1>1. /\ CountOf(a)' = v /\ Tracked' = Tracked \cup {a}
      /\ \A j \in Jobs \ {a} : CountOf(j)' = CountOf(j)
  BY CountMoves
<1>2. ASSUME NEW j \in Jobs PROVE CountOf(j)' = K[j].concurrent_slots /\ (j \in Tracked' <=> K[j].in_use)
  <2>1. CASE j = a
    BY <1>1, <2>1
  <2>2. CASE j # a
    BY <1>1, <2>2 DEF JobsAgree, JobAgrees
  <2>3. QED BY <2>1, <2>2
<1>3. QED BY <1>2 DEF JobsAgree, JobsTyped, JobAgrees

\* Two job tables that say the same of every job.
SameEntry(e, f) == e.in_use = f.in_use /\ e.concurrent_slots = f.concurrent_slots
LEMMA JobsAlike ==
    ASSUME NEW J, JobsAgree(J), NEW K, JobsTyped(K),
           \A j \in Jobs : SameEntry(K[j], J[j])
    PROVE  JobsAgree(K)
BY DEF JobsAgree, JobAgrees, SameEntry

\* A sum is sent by both.
LEMMA SentMore ==
    ASSUME NEW O, SentAgrees(O), emitted \in Seq(Emission), NEW e, NEW o \in Agg!Emission,
           SumsAgree(e, o), emitted' = Append(emitted, e), NEW Q, Q = Append(O, o)
    PROVE  SentAgrees(Q)'
<1>1. /\ O \in Seq(Agg!Emission) /\ Len(O) \in Nat /\ Len(emitted) = Len(O)
      /\ DOMAIN O = 1 .. Len(O)
  BY DEF SentAgrees
<1>2. Q \in Seq(Agg!Emission) /\ Len(Q) = Len(O) + 1 /\ DOMAIN Q = 1 .. Len(O) + 1
      /\ Q[Len(O) + 1] = o /\ \A i \in 1 .. Len(O) : Q[i] = O[i]
  BY <1>1
<1>3. Len(emitted') = Len(O) + 1 /\ emitted'[Len(O) + 1] = e
      /\ \A i \in 1 .. Len(O) : emitted'[i] = emitted[i]
  BY <1>1
<1>4. ASSUME NEW i \in DOMAIN Q PROVE SumsAgree(emitted'[i], Q[i])
  <2>1. i \in 1 .. Len(O) \/ i = Len(O) + 1
    BY <1>1, <1>2
  <2>2. QED BY <1>1, <1>2, <1>3, <2>1 DEF SentAgrees
<1>5. QED BY <1>2, <1>3, <1>4 DEF SentAgrees, SumsAgree

-----------------------------------------------------------------------------
(***************************************************************************)
(* The XDP program's steps keep it ahead of agg.c.                         *)
(***************************************************************************)
\* The steps that leave what is compared alone.
Still == UNCHANGED <<slot_map, elem, job_quota_map, emitted>>

LEMMA DoneKept ==
    ASSUME NEW p, Done(p), Still
    PROVE  Done(p)'
<1>1. PICK O : O = Append(p.out, p.sum)
  OBVIOUS
<1>2. CASE ~p.takes
  BY <1>2, AgreeKept DEF Done, Still
<1>3. CASE p.takes /\ ~p.last
  BY <1>3, AgreeKept DEF Done, Still
<1>4. CASE p.takes /\ p.last
  <2>1. Agree(p.freed, p.repaid, O)
    BY <1>1, <1>4 DEF Done
  <2>2. Agree(p.freed, p.repaid, O)'
    BY <2>1, AgreeKept DEF Still
  <2>3. QED BY <1>1, <1>4, <2>2 DEF Done
<1>5. QED BY <1>2, <1>3, <1>4

\* Both quotas say the same of d's job.
LEMMA QuotaAgrees ==
    ASSUME TypeInv, NEW d, NEW p, FateIs(d, p), JobsAgree(p.jobs), FixedQuota \in Nat
    PROVE  p.atquota <=> FixedQuota > 0 /\ AtQuota(d.key.job_id, FixedQuota)
<1>1. PICK j \in Jobs : j = d.key.job_id
  BY DEF FateIs, Given
<1>2. PICK e : e = p.jobs[j]
  OBVIOUS
<1>3. CountOf(j) = e.concurrent_slots /\ (j \in Tracked <=> e.in_use) /\ CountOf(j) \in Nat
  BY <1>2, CountType DEF JobsAgree, JobAgrees
<1>4. p.atquota <=> HasEntry(j, p.jobs) /\ FixedQuota > 0 /\ e.concurrent_slots >= FixedQuota
  BY <1>1, <1>2 DEF FateIs, FateJobs
<1>5. e.in_use => HasEntry(j, p.jobs)
  BY <1>2 DEF HasEntry
<1>6. FixedQuota > 0 /\ CountOf(j) >= FixedQuota => j \in Tracked
  BY DEF CountOf
<1>7. AtQuota(j, FixedQuota) <=> j \in Tracked /\ CountOf(j) >= FixedQuota
  BY DEF AtQuota, CountOf
<1>8. QED BY <1>1, <1>3, <1>4, <1>5, <1>6, <1>7

LEMMA AheadPrecheck ==
    ASSUME TypeInv, NEW c \in CPUs, config_map = FixedQuota, FixedQuota \in Nat,
           NEW d, NEW p, FateIs(d, p), Ahead(c, d, p), Precheck(c)
    PROVE  Ahead(c, d, p)'
<1>1. /\ pc[c] = "precheck" /\ Still /\ UNCHANGED frame /\ max_slots'[c] = FixedQuota
      /\ pc'[c] = IF FixedQuota > 0 THEN "quota" ELSE "create"
  <2>1. config_map # NoConfig
    BY DEF NoConfig
  <2>2. QED BY <2>1 DEF Precheck, Goto, TypeInv, LocalsTyped, shared, Still
<1>2. Stage(c, d, p)
  BY <1>1 DEF Ahead
<1>3. Agree(p.slots, p.jobs, p.out)' /\ SameFields(frame[c], d)' /\ p.valid
  BY <1>1, <1>2, AgreeKept DEF Stage, SameFields, Still
<1>4. pc'[c] = "create" => ~p.atquota
  BY <1>1 DEF FateIs, FateJobs
<1>5. Stage(c, d, p)' /\ pc'[c] \in {"quota", "create"}
  BY <1>1, <1>3, <1>4 DEF Stage, Making, After, Closing
<1>6. QED BY <1>5 DEF Ahead

LEMMA AheadAdmits ==
    ASSUME TypeInv, NEW c \in CPUs, FixedQuota \in Nat,
           NEW d, NEW p, FateIs(d, p), Ahead(c, d, p), QuotaAdmits(c)
    PROVE  Ahead(c, d, p)'
<1>1. pc[c] = "quota" /\ Still /\ UNCHANGED frame /\ pc'[c] = "create"
  BY DEF QuotaAdmits, Goto, TypeInv, LocalsTyped, shared, locals, Still
<1>2. Stage(c, d, p)
  BY <1>1 DEF Ahead
<1>3. Agree(p.slots, p.jobs, p.out)' /\ SameFields(frame[c], d)' /\ p.valid
  BY <1>1, <1>2, AgreeKept DEF Stage, SameFields, Still
<1>4. ~p.atquota
  <2>1. JobsAgree(p.jobs) /\ JobOf(c) = d.key.job_id /\ max_slots[c] = FixedQuota
    BY <1>1, <1>2 DEF Stage, Agree, SameFields, JobOf
  <2>2. QED BY <2>1, QuotaAgrees DEF QuotaAdmits
<1>5. Stage(c, d, p)'
  BY <1>1, <1>3, <1>4 DEF Stage, Making, After, Closing
<1>6. QED BY <1>1, <1>5 DEF Ahead

\* A key that has no slot has none at agg.c either.
LEMMA HereIs ==
    ASSUME NEW d, NEW p, FateIs(d, p), SlotsAgree(p.slots)
    PROVE  IF slot_map[d.key] = NULL THEN ~(p.here.in_use /\ p.here.key = d.key)
           ELSE /\ p.here.in_use /\ p.here.key = d.key
                /\ SlotAgrees(d.key, SlotOf(d.key), p.here)
<1>1. p.here = p.slots[Home(d.key)] /\ KeyAgrees(p.slots, d.key)
  BY DEF FateIs, FateSlots, Given, SlotsAgree
<1>2. QED BY <1>1 DEF KeyAgrees, Holds

LEMMA AheadRejects ==
    ASSUME TypeInv, NEW c \in CPUs, Solo(c), FixedQuota \in Nat,
           NEW d, NEW p, FateIs(d, p), Ahead(c, d, p), QuotaRejects(c)
    PROVE  Ahead(c, d, p)'
<1>1. pc[c] = "quota" /\ Still /\ pc'[c] = "stat"
  BY DEF QuotaRejects, Goto, TypeInv, LocalsTyped, shared, locals, Still
<1>2. Stage(c, d, p)
  BY <1>1 DEF Ahead
<1>3. /\ Agree(p.slots, p.jobs, p.out) /\ JobOf(c) = d.key.job_id /\ KeyOf(c) = d.key
      /\ max_slots[c] = FixedQuota /\ FixedQuota > 0
  BY <1>1, <1>2 DEF Stage, SameFields, JobOf, KeyOf
<1>4. p.atquota
  BY <1>3, QuotaAgrees DEF QuotaRejects, Agree
<1>5. slot_map[d.key] = NULL
  BY <1>1, <1>3 DEF Solo, SoloCPU
<1>6. ~p.takes
  BY <1>3, <1>4, <1>5, HereIs DEF Agree, FateIs, FateSlots
<1>7. Done(p)'
  BY <1>1, <1>3, <1>6, DoneKept DEF Done
<1>8. QED BY <1>1, <1>7 DEF Ahead

Placed(S, h, s) == [S EXCEPT ![h] = s]

\* A datagram's slot is at its key's place in the tables of its fate.
LEMMA Spot ==
    ASSUME NEW d, NEW p, FateIs(d, p)
    PROVE  LET h == Home(d.key) IN
           /\ h \in Agg!Index /\ d.key \in Keys /\ p.here = p.slots[h]
           /\ ~p.refused =>
                 /\ SlotsTyped(p.slots) /\ (~p.here.in_use \/ p.here.key = d.key)
                 /\ p.opened[h] = p.slot /\ p.slot.in_use /\ p.slot.key = d.key
                 /\ p.here.in_use => p.opened = p.slots
                 /\ p.takes => /\ p.added \in Agg!UsedSlot /\ p.added.in_use /\ p.added.key = d.key
                               /\ p.filled[h] = p.added
                               /\ p.filled = Placed(p.opened, h, p.added)
                               /\ p.freed = Placed(p.filled, h, Agg!FreeSlot)
<1> DEFINE h == Home(d.key)
<1>1. h \in Agg!Index /\ d.key \in Keys /\ p.here = p.slots[h]
  BY DEF FateIs, Given, FateSlots
<1>2. SUFFICES ASSUME ~p.refused
      PROVE  /\ SlotsTyped(p.slots) /\ (~p.here.in_use \/ p.here.key = d.key)
             /\ p.opened[h] = p.slot /\ p.slot.in_use /\ p.slot.key = d.key
             /\ p.here.in_use => p.opened = p.slots
             /\ p.takes => /\ p.added \in Agg!UsedSlot /\ p.added.in_use /\ p.added.key = d.key
                           /\ p.filled[h] = p.added
                           /\ p.filled = Placed(p.opened, h, p.added)
                           /\ p.freed = Placed(p.filled, h, Agg!FreeSlot)
  BY <1>1
<1>3. PICK S, s, a, T, F, G :
         /\ S = p.slots /\ s = p.slot /\ a = p.added
         /\ T = p.opened /\ F = p.filled /\ G = p.freed
  OBVIOUS
<1>4. /\ SlotsTyped(S) /\ (~p.here.in_use \/ p.here.key = d.key)
      /\ s \in Agg!UsedSlot /\ s.key = d.key /\ T = [S EXCEPT ![h] = s]
      /\ p.here.in_use => s = S[h]
  BY <1>1, <1>2, <1>3 DEF FateIs, FateSlots
<1>5. p.takes => /\ a \in Agg!UsedSlot /\ a.key = d.key /\ F = [S EXCEPT ![h] = a]
                 /\ G = [S EXCEPT ![h] = Agg!FreeSlot]
  BY <1>3 DEF FateIs, FateSlots, AddedTo
<1>6. S \in [Agg!Index -> Agg!UsedSlot \cup {Agg!FreeSlot}]
  BY <1>4 DEF SlotsTyped
<1> HIDE DEF h
<1>7. /\ T[h] = s /\ (p.here.in_use => T = S)
      /\ p.takes => F[h] = a /\ F = [T EXCEPT ![h] = a] /\ G = [F EXCEPT ![h] = Agg!FreeSlot]
  BY <1>1, <1>4, <1>5, <1>6
<1>8. s.in_use /\ (p.takes => a.in_use)
  BY <1>4, <1>5, UsedKinds
<1>9. QED BY <1>3, <1>4, <1>5, <1>7, <1>8 DEF Placed

LEMMA SlotPut ==
    ASSUME NEW S, SlotsTyped(S), NEW k \in Keys, ~S[Home(k)].in_use \/ S[Home(k)].key = k,
           NEW t \in Agg!UsedSlot, t.key = k, NEW T, T = [S EXCEPT ![Home(k)] = t],
           NEW x, x = SlotOf(k)', slot_map'[k] # NULL, SlotAgrees(k, x, t),
           \A m \in Keys \ {k} :
              /\ KeyAgrees(S, m) /\ slot_map'[m] = slot_map[m]
              /\ slot_map[m] # NULL => SlotOf(m)' = SlotOf(m)
    PROVE  SlotsAgree(T)'
<1>1. T[Home(k)] = t /\ t.in_use
  BY HomeType, UsedKinds DEF SlotsTyped
<1>2. KeyAgrees(T, k)'
  BY <1>1 DEF KeyAgrees, Holds, SlotAgrees
<1>3. QED BY <1>2, SlotSet

LEMMA SlotGone ==
    ASSUME NEW S, SlotsTyped(S), NEW k \in Keys, ~S[Home(k)].in_use \/ S[Home(k)].key = k,
           NEW T, T = [S EXCEPT ![Home(k)] = Agg!FreeSlot], slot_map'[k] = NULL,
           \A m \in Keys \ {k} :
              /\ KeyAgrees(S, m) /\ slot_map'[m] = slot_map[m]
              /\ slot_map[m] # NULL => SlotOf(m)' = SlotOf(m)
    PROVE  SlotsAgree(T)'
<1>1. T[Home(k)] = Agg!FreeSlot /\ ~Agg!FreeSlot.in_use
  BY HomeType, UsedKinds DEF SlotsTyped
<1>2. KeyAgrees(T, k)'
  BY <1>1 DEF KeyAgrees, Holds
<1>3. QED BY <1>1, <1>2, SlotSet

LEMMA RoomHere ==
    ASSUME NoDetour, TypeInv, MapInjective, NEW d, NEW p, FateIs(d, p), SlotsAgree(p.slots),
           slot_map[d.key] = NULL
    PROVE  FreeElems # {} <=> ~p.here.in_use
<1>1. PICK k \in Keys : k = d.key
  BY DEF FateIs, Given
<1>s. PICK S : S = p.slots
  OBVIOUS
<1>2. p.here = S[Home(k)]
  BY <1>1, <1>s DEF FateIs, FateSlots
<1>3. FreeElems # {} <=> ~S[Home(k)].in_use
  BY <1>1, <1>s, RoomAgrees
<1>4. QED BY <1>2, <1>3

\* An update of slot_map fails where agg.c finds no slot.
LEMMA AheadLoses ==
    ASSUME NoDetour, TypeInv, NEW c \in CPUs, Solo(c),
           NEW d, NEW p, FateIs(d, p), Ahead(c, d, p), CreateLoses(c)
    PROVE  Ahead(c, d, p)'
<1>1. pc[c] = "create" /\ Still /\ pc'[c] = "lost"
  BY DEF CreateLoses, Goto, TypeInv, LocalsTyped, shared, Still
<1>2. Stage(c, d, p)
  BY <1>1 DEF Ahead
<1>3. Agree(p.slots, p.jobs, p.out) /\ KeyOf(c) = d.key
  BY <1>1, <1>2 DEF Stage, SameFields, KeyOf
<1>4. slot_map[d.key] = NULL /\ FreeElems = {}
  BY <1>1, <1>3 DEF Solo, SoloCPU, CreateLoses
<1>5. p.here.in_use
  BY <1>3, <1>4, RoomHere DEF Agree, Solo
<1>6. ~p.takes
  BY <1>3, <1>4, <1>5, HereIs DEF Agree, FateIs, FateSlots
<1>7. Done(p)'
  BY <1>1, <1>3, <1>6, DoneKept DEF Done
<1>8. QED BY <1>1, <1>7 DEF Ahead

\* A slot is made in both tables.
LEMMA AheadWins ==
    ASSUME NoDetour, TypeInv, NEW c \in CPUs, Solo(c),
           NEW d, NEW p, FateIs(d, p), Ahead(c, d, p), CreateWins(c)
    PROVE  Ahead(c, d, p)'
<1>1. /\ pc[c] = "create" /\ pc'[c] = "won"
      /\ UNCHANGED <<job_quota_map, emitted, frame>>
  BY DEF CreateWins, Goto, TypeInv, LocalsTyped, locals
<1>2. Stage(c, d, p)
  BY <1>1 DEF Ahead
<1>3. /\ Agree(p.slots, p.jobs, p.out) /\ KeyOf(c) = d.key /\ ~p.atquota
      /\ SameFields(frame[c], d) /\ p.valid
  BY <1>1, <1>2 DEF Stage, SameFields, KeyOf
<1>k. PICK k \in Keys : k = d.key
  BY DEF FateIs, Given
<1>f. PICK fresh : fresh = Fresh(d.chunk_len, d.num_workers)
  OBVIOUS
<1>e. PICK e \in FreeElems :
        /\ slot_map[k] = NULL
        /\ slot_map' = [slot_map EXCEPT ![k] = e] /\ elem' = [elem EXCEPT ![e] = fresh]
  BY <1>3, <1>k, <1>f DEF CreateWins, SameFields
<1>4. e \in Elems /\ e # NULL /\ \A m \in Keys : slot_map[m] # e
  BY DEF FreeElems, Elems, NULL
<1>5. /\ slot_map'[k] = e /\ SlotOf(k)' = fresh
      /\ \A m \in Keys \ {k} :
            /\ slot_map'[m] = slot_map[m]
            /\ slot_map[m] # NULL => SlotOf(m)' = SlotOf(m)
  BY <1>e, <1>4 DEF TypeInv, MapsTyped, SlotOf
<1>6. ~p.here.in_use
  BY <1>3, <1>k, <1>e, RoomHere DEF Agree, Solo
<1>7. ~p.refused
  BY <1>3, <1>6 DEF FateIs, FateSlots
<1>8. SlotAgrees(k, fresh, p.slot)
  <2>1. p.slot = NewSlot(d)
    BY <1>6, <1>7 DEF FateIs, FateSlots
  <2>2. /\ fresh.seen_worker = {} /\ fresh.contributions_received = 0
        /\ fresh.num_workers_expected = d.num_workers /\ fresh.chunk_len = d.chunk_len
        /\ \A w \in Workers : fresh.sum[<<k, w>>] = 0
    BY <1>f DEF Fresh, Tags
  <2>3. /\ p.slot.seen_worker = {} /\ p.slot.contributions_received = 0
        /\ p.slot.num_workers_expected = d.num_workers /\ p.slot.chunk_len = d.chunk_len
        /\ \A w \in Workers : p.slot.sum[w] = 0
    BY <2>1, NewSlotType DEF FateIs, Given
  <2>4. QED BY <2>2, <2>3 DEF SlotAgrees
<1>9. SlotsAgree(p.opened)'
  <2>1. PICK S, t, T : S = p.slots /\ t = p.slot /\ T = p.opened
    OBVIOUS
  <2>2. /\ SlotsTyped(S) /\ ~S[Home(k)].in_use /\ t \in Agg!UsedSlot /\ t.key = k
        /\ T = [S EXCEPT ![Home(k)] = t] /\ \A m \in Keys : KeyAgrees(S, m)
        /\ SlotAgrees(k, fresh, t)
    BY <1>3, <1>k, <1>6, <1>7, <1>8, <2>1 DEF FateIs, FateSlots, Agree, SlotsAgree
  <2>3. SlotsAgree(T)'
    BY <1>4, <1>5, <2>2, SlotPut
  <2>4. QED BY <2>1, <2>3
<1>10. Agree(p.opened, p.jobs, p.out)'
  BY <1>1, <1>3, <1>9, JobsKept, SentKept DEF Agree
<1>11. Stage(c, d, p)'
  BY <1>1, <1>3, <1>6, <1>7, <1>10 DEF Stage, Making, After, Closing, SameFields
<1>12. QED BY <1>1, <1>11 DEF Ahead

\* The second lookup: it fails only after a lost update.
LEMMA AheadRelookup ==
    ASSUME TypeInv, NEW c \in CPUs, Solo(c),
           NEW d, NEW p, Ahead(c, d, p), Relookup(c) \/ RelookupFails(c)
    PROVE  Ahead(c, d, p)'
<1>1. pc[c] \in {"won", "lost"} /\ Still
  BY DEF Relookup, RelookupFails, shared, Still
<1>2. CASE pc[c] = "won"
  <2>1. slot_map[KeyOf(c)] # NULL
    BY <1>2 DEF Solo, SoloCPU, Making
  <2>2. UNCHANGED frame /\ pc'[c] = "increment"
    BY <1>2, <2>1 DEF Relookup, RelookupFails, Goto, TypeInv, LocalsTyped
  <2>3. /\ Agree(p.opened, p.jobs, p.out) /\ ~p.refused /\ ~p.here.in_use
        /\ SameFields(frame[c], d) /\ p.valid
    BY <1>2 DEF Ahead, Stage, Making
  <2>4. Agree(p.opened, p.jobs, p.out)' /\ SameFields(frame[c], d)'
    BY <1>1, <2>2, <2>3, AgreeKept DEF SameFields, Still
  <2>5. Stage(c, d, p)'
    BY <2>2, <2>3, <2>4 DEF Stage, Making, After, Closing
  <2>6. QED BY <2>2, <2>5 DEF Ahead
<1>3. CASE pc[c] = "lost"
  <2>1. slot_map[KeyOf(c)] = NULL
    BY <1>3 DEF Solo, SoloCPU
  <2>2. pc'[c] = "idle"
    BY <2>1 DEF Relookup, RelookupFails, Return, Goto, TypeInv, LocalsTyped
  <2>3. Done(p)'
    BY <1>1, <1>3, DoneKept DEF Ahead
  <2>4. QED BY <2>2, <2>3 DEF Ahead
<1>4. QED BY <1>1, <1>2, <1>3

\* The job of a new slot is charged in both tables, if it can be.
LEMMA ChargeAgrees ==
    ASSUME TypeInv, NEW d, NEW p, FateIs(d, p), JobsAgree(p.jobs), ~p.refused, ~p.here.in_use,
           NEW j, j = d.key.job_id,
           \/ /\ j \in Tracked \/ Cardinality(Tracked) < JOB_QUOTA_ENTRIES
              /\ CountOf(j) + 1 < UINT32
              /\ job_quota_map' = Put(job_quota_map, j, CountOf(j) + 1)
           \/ /\ ~(j \in Tracked \/ Cardinality(Tracked) < JOB_QUOTA_ENTRIES)
              /\ UNCHANGED job_quota_map
    PROVE  JobsAgree(p.charged)'
<1>1. PICK J, K : J = p.jobs /\ K = p.charged
  OBVIOUS
<1>2. j \in Jobs
  BY DEF FateIs, Given
<1>3. /\ JobsTyped(K) /\ \A i \in Jobs \ {j} : K[i] = J[i]
      /\ IF ~HasEntry(j, J) THEN K = J
         ELSE K[j].in_use /\ K[j].concurrent_slots = J[j].concurrent_slots + 1
  BY <1>1 DEF FateIs, FateJobs
<1>4. JobsAgree(J) /\ CountOf(j) = J[j].concurrent_slots /\ CountOf(j) \in Nat
  BY <1>1, <1>2, CountType DEF JobsAgree, JobAgrees
<1>5. HasEntry(j, J) <=> j \in Tracked \/ Cardinality(Tracked) < JOB_QUOTA_ENTRIES
  <2>1. \A i \in Jobs : i \in Tracked <=> J[i].in_use
    BY <1>4 DEF JobsAgree, JobAgrees
  <2>2. Tracked \subseteq Jobs
    BY DEF TypeInv, MapsTyped
  <2>3. {i \in Jobs : J[i].in_use} = Tracked
    BY <2>1, <2>2
  <2>4. QED BY <1>2, <2>1, <2>3 DEF HasEntry
<1>6. CASE j \in Tracked \/ Cardinality(Tracked) < JOB_QUOTA_ENTRIES
  <2>1. /\ CountOf(j) + 1 < UINT32
        /\ job_quota_map' = Put(job_quota_map, j, CountOf(j) + 1)
    BY <1>6
  <2>2. PICK v : v = CountOf(j) + 1
    OBVIOUS
  <2>3. v \in 0 .. UINT32 - 1 /\ job_quota_map' = Put(job_quota_map, j, v)
    BY <1>4, <2>1, <2>2, MapAssumption
  <2>4. K[j].in_use /\ K[j].concurrent_slots = v
    BY <1>3, <1>4, <1>5, <1>6, <2>2
  <2>5. JobsAgree(K)'
    BY <1>2, <1>3, <1>4, <2>3, <2>4, JobSet
  <2>6. QED BY <1>1, <2>5
<1>7. CASE ~(j \in Tracked \/ Cardinality(Tracked) < JOB_QUOTA_ENTRIES)
  <2>1. K = J /\ UNCHANGED job_quota_map
    BY <1>3, <1>5, <1>7
  <2>2. JobsAgree(J)'
    BY <1>4, <2>1, JobsKept
  <2>3. QED BY <1>1, <2>1, <2>2
<1>8. QED BY <1>6, <1>7

LEMMA AheadIncrement ==
    ASSUME TypeInv, SlotsHeld, QuotaAccounted, NEW c \in CPUs,
           NEW d, NEW p, FateIs(d, p), Ahead(c, d, p), Increment(c) \/ IncrementNew(c)
    PROVE  Ahead(c, d, p)'
<1>1. /\ pc[c] \in {"increment", "newjob"}
      /\ UNCHANGED <<slot_map, elem, emitted, frame>>
  BY DEF Increment, IncrementNew, locals
<1>2. Stage(c, d, p)
  BY <1>1 DEF Ahead
<1>3. /\ Agree(p.opened, p.jobs, p.out) /\ ~p.refused /\ ~p.here.in_use
      /\ SameFields(frame[c], d) /\ p.valid /\ JobOf(c) = d.key.job_id
      /\ pc[c] = "newjob" => JobOf(c) \notin Tracked
  BY <1>1, <1>2 DEF Stage, Making, SameFields, JobOf
<1>4. SameFields(frame[c], d)'
  BY <1>1, <1>3 DEF SameFields
<1>j. PICK j \in Jobs : j = JobOf(c)
  BY <1>1, HeldType
<1>5. CASE pc[c] = "increment" /\ j \notin Tracked
  <2>1. pc'[c] = "newjob" /\ UNCHANGED job_quota_map /\ JobOf(c)' \notin Tracked'
    BY <1>1, <1>j, <1>5 DEF Increment, IncrementNew, Goto, TypeInv, LocalsTyped, JobOf, Tracked
  <2>2. Agree(p.opened, p.jobs, p.out)'
    BY <1>1, <1>3, <2>1, AgreeKept
  <2>3. Stage(c, d, p)'
    BY <1>3, <1>4, <2>1, <2>2 DEF Stage, Making, After, Closing
  <2>4. QED BY <2>1, <2>3 DEF Ahead
<1>6. CASE pc[c] = "newjob" \/ j \in Tracked
  <2>1. pc'[c] = "lock"
    BY <1>1, <1>j, <1>6 DEF Increment, IncrementNew, Goto, TypeInv, LocalsTyped
  <2>2. CountOf(j) \in Nat /\ Cardinality(Tracked) \in Nat /\ JOB_QUOTA_ENTRIES \in Nat
    BY CountType, RunAssumption, MapAssumption, FS_Subset, FS_CardinalityType DEF TypeInv, MapsTyped
  <2>3. Countable(j) => CountOf(j) + 1 < UINT32
    <3>1. c \in At(j, Making)
      BY <1>1, <1>j DEF At, Making
    <3>2. QED BY <3>1, CountBounds DEF QuotaAccounted
  <2>4. CASE j \in Tracked
    <3>1. CountOf(j) = job_quota_map[j]
      BY <2>4 DEF CountOf
    <3>2. job_quota_map' = Put(job_quota_map, j, (CountOf(j) + 1) % UINT32)
      BY <1>1, <1>3, <1>j, <2>4, <3>1 DEF Increment, IncrementNew, AddOne
    <3>3. CountOf(j) + 1 < UINT32
      BY <2>3, <2>4 DEF Countable
    <3>4. (CountOf(j) + 1) % UINT32 = CountOf(j) + 1
      <4>1. CountOf(j) + 1 \in Nat
        BY <2>2
      <4>2. QED BY <3>3, <4>1, NoWrap
    <3>5. job_quota_map' = Put(job_quota_map, j, CountOf(j) + 1)
      BY <3>2, <3>4
    <3>6. JobsAgree(p.charged)'
      BY <1>3, <1>j, <2>4, <3>3, <3>5, ChargeAgrees DEF Agree
    <3>7. QED BY <1>1, <1>3, <1>4, <2>1, <3>6, SlotsKept, SentKept
          DEF Ahead, Stage, Making, After, Closing, Agree
  <2>5. CASE j \notin Tracked
    <3>1. IncrementNew(c) /\ CountOf(j) = 0
      BY <1>6, <2>5 DEF Increment, CountOf
    <3>2. \/ /\ Cardinality(Tracked) < JOB_QUOTA_ENTRIES
             /\ job_quota_map' = Put(job_quota_map, j, CountOf(j) + 1)
          \/ ~(Cardinality(Tracked) < JOB_QUOTA_ENTRIES) /\ UNCHANGED job_quota_map
      BY <1>j, <2>2, <2>5, <3>1 DEF IncrementNew, FreshCount
    <3>3. Cardinality(Tracked) < JOB_QUOTA_ENTRIES => CountOf(j) + 1 < UINT32
      BY <2>3 DEF Countable
    <3>4. JobsAgree(p.charged)'
      BY <1>3, <1>j, <2>5, <3>2, <3>3, ChargeAgrees DEF Agree
    <3>5. QED BY <1>1, <1>3, <1>4, <2>1, <3>4, SlotsKept, SentKept
          DEF Ahead, Stage, Making, After, Closing, Agree
  <2>6. QED BY <2>4, <2>5
<1>7. QED BY <1>1, <1>5, <1>6

\* The two slots at the lock.
LEMMA AtLock ==
    ASSUME TypeInv, NEW c \in CPUs, Solo(c), NEW d, NEW p, FateIs(d, p), Ahead(c, d, p),
           pc[c] = "lock"
    PROVE  /\ KeyOf(c) = d.key /\ d.key \in Keys /\ SameFields(frame[c], d) /\ p.valid
           /\ Agree(p.opened, p.charged, p.out) /\ ~p.refused
           /\ elem[slot[c]] = SlotOf(d.key) /\ slot_map[d.key] # NULL
           /\ SlotAgrees(d.key, SlotOf(d.key), p.slot)
<1>1. /\ SameFields(frame[c], d) /\ p.valid /\ Agree(p.opened, p.charged, p.out) /\ ~p.refused
  BY DEF Ahead, Stage
<1>2. KeyOf(c) = d.key /\ d.key \in Keys
  BY <1>1 DEF KeyOf, SameFields, FateIs, Given
<1>3. slot[c] = slot_map[d.key] /\ slot[c] # NULL
  BY <1>2 DEF Solo, SoloCPU, TypeInv, Known, Pointing
<1>4. elem[slot[c]] = SlotOf(d.key)
  BY <1>3 DEF SlotOf
<1>5. KeyAgrees(p.opened, d.key) /\ p.opened[Home(d.key)] = p.slot
  BY <1>1, <1>2, Spot DEF Agree, SlotsAgree
<1>6. SlotAgrees(d.key, SlotOf(d.key), p.slot)
  BY <1>3, <1>5 DEF KeyAgrees
<1>7. QED BY <1>1, <1>2, <1>3, <1>4, <1>6

\* Both drop a frame that disagrees or is a duplicate, and leave everything as it was.
LEMMA AheadDrops ==
    ASSUME TypeInv, NEW c \in CPUs, Solo(c), NEW d, NEW p, FateIs(d, p), Ahead(c, d, p),
           LockRejects(c)
    PROVE  Ahead(c, d, p)'
<1>1. /\ pc[c] = "lock" /\ pc'[c] = "idle" /\ Still
      /\ \/ elem[slot[c]].chunk_len # frame[c].chunk_len
         \/ frame[c].worker_id \in elem[slot[c]].seen_worker
  BY DEF LockRejects, Seen, shared, TypeInv, LocalsTyped, Return, Goto, Still
<1>2. /\ SameFields(frame[c], d) /\ Agree(p.opened, p.charged, p.out) /\ ~p.refused
      /\ elem[slot[c]] = SlotOf(d.key) /\ SlotAgrees(d.key, SlotOf(d.key), p.slot)
  BY <1>1, AtLock
<1>3. p.slot.chunk_len # d.chunk_len \/ d.worker_id \in p.slot.seen_worker
  BY <1>1, <1>2 DEF SlotAgrees, SameFields
<1>4. ~p.takes
  BY <1>3 DEF FateIs, FateSlots
<1>5. p.here.in_use
  <2>1. ~p.here.in_use => p.slot = NewSlot(d)
    BY <1>2 DEF FateIs, FateSlots
  <2>2. NewSlot(d).chunk_len = d.chunk_len /\ NewSlot(d).seen_worker = {}
    BY NewSlotType DEF FateIs, Given
  <2>3. QED BY <1>3, <2>1, <2>2
<1>6. p.opened = p.slots /\ p.charged = p.jobs
  BY <1>2, <1>5, Spot DEF FateIs, FateJobs
<1>7. Done(p)'
  BY <1>1, <1>2, <1>4, <1>6, DoneKept DEF Done
<1>8. QED BY <1>1, <1>7 DEF Ahead

\* A contribution is added by both.
LEMMA BothAdd ==
    ASSUME TypeInv, NEW c \in CPUs, Solo(c), NEW d, NEW p, FateIs(d, p), Ahead(c, d, p),
           LockPartial(c) \/ LockCompletes(c), NEW k, NEW s, NEW a, Adds(c, k, s, a)
    PROVE  /\ p.takes /\ ~p.refused /\ p.valid /\ k = d.key /\ SameFields(frame[c], d)
           /\ p.last <=> Completes(a)
           /\ SlotAgrees(k, a, p.added)
           /\ SlotsAgree(p.filled)' /\ JobsAgree(p.charged)' /\ SentAgrees(p.out)'
<1>1. /\ pc[c] = "lock" /\ k = KeyOf(c) /\ slot[c] = slot_map[k] /\ s = SlotOf(k)
      /\ elem[slot[c]].chunk_len = frame[c].chunk_len
      /\ UNCHANGED <<job_quota_map, emitted>>
  BY DEF Adds, LockPartial, LockCompletes, Accumulates
<1>2. /\ k = d.key /\ k \in Keys /\ SameFields(frame[c], d) /\ p.valid /\ ~p.refused
      /\ Agree(p.opened, p.charged, p.out) /\ SlotAgrees(k, s, p.slot)
  BY <1>1, AtLock
<1>3. s.chunk_len = d.chunk_len /\ d.worker_id \notin s.seen_worker
  BY <1>1, <1>2 DEF Adds, SlotOf, SameFields
<1>4. p.takes
  BY <1>2, <1>3 DEF SlotAgrees, FateIs, FateSlots
<1>w. PICK w \in Workers : w = d.worker_id
  BY <1>2 DEF Adds, SameFields
<1>t. PICK t, b : t = p.slot /\ b = p.added
  OBVIOUS
<1>5. AddedTo(d, t, b) /\ SlotAgrees(k, s, t)
  BY <1>2, <1>4, <1>t DEF FateIs, FateSlots
<1>6. /\ Tally(k, s) /\ Tally(k, a)
      /\ s.contributions_received \in Nat /\ s.num_workers_expected \in Nat
      /\ s.contributions_received < s.num_workers_expected
      /\ a.chunk_len = s.chunk_len /\ a.num_workers_expected = s.num_workers_expected
      /\ a.contributions_received = s.contributions_received + 1
      /\ a.seen_worker = s.seen_worker \cup {w}
  BY <1>2, <1>w DEF Adds, SameFields
<1>7. ASSUME NEW v \in Workers PROVE a.sum[<<k, v>>] = b.sum[v]
  <2>1. <<k, v>> \in Tags /\ <<k, v>>[1] = k /\ <<k, v>>[2] = v
    BY <1>2 DEF Tags
  <2>2. /\ s.sum[<<k, v>>] = (IF v \in s.seen_worker THEN 1 ELSE 0)
        /\ a.sum[<<k, v>>] = (IF v \in a.seen_worker THEN 1 ELSE 0)
    BY <1>6, <2>1 DEF Tally
  <2>3. b.sum[v] = IF v = w THEN t.sum[v] + 1 ELSE t.sum[v]
    BY <1>5, <1>w DEF AddedTo
  <2>4. t.sum[v] = s.sum[<<k, v>>]
    BY <1>5 DEF SlotAgrees
  <2>5. CASE v = w
    <3>1. v \notin s.seen_worker /\ v \in a.seen_worker
      BY <1>3, <1>6, <1>w, <2>5
    <3>2. QED BY <2>2, <2>3, <2>4, <2>5, <3>1
  <2>6. CASE v # w
    <3>1. v \in a.seen_worker <=> v \in s.seen_worker
      BY <1>6, <2>6
    <3>2. QED BY <2>2, <2>3, <2>4, <2>6, <3>1
  <2>7. QED BY <2>5, <2>6
<1>8. SlotAgrees(k, a, b)
  BY <1>5, <1>6, <1>7, <1>w DEF SlotAgrees, AddedTo
<1>9. p.last <=> Completes(a)
  <2>1. p.last <=> b.contributions_received >= b.num_workers_expected
    BY <1>4, <1>t DEF FateIs, FateSlots
  <2>2. /\ b.contributions_received = s.contributions_received + 1
        /\ b.num_workers_expected = s.num_workers_expected
    BY <1>5, <1>6, <1>8 DEF SlotAgrees
  <2>3. QED BY <1>6, <2>1, <2>2 DEF Completes
<1>10. SlotsAgree(p.filled)'
  <2>1. PICK S, T, h : S = p.opened /\ T = p.filled /\ h = Home(k)
    OBVIOUS
  <2>2. SlotsTyped(S) /\ \A m \in Keys : KeyAgrees(S, m)
    BY <1>2, <2>1 DEF Agree, SlotsAgree
  <2>3. /\ S[h] = t /\ t.key = k
        /\ b \in Agg!UsedSlot /\ b.key = k /\ T = [S EXCEPT ![h] = b]
    <3>1. p.opened[Home(d.key)] = p.slot /\ p.slot.key = d.key
      BY <1>2, Spot
    <3>2. p.added \in Agg!UsedSlot /\ p.added.key = d.key
      BY <1>2, <1>4, Spot
    <3>3. p.filled = Placed(p.opened, Home(d.key), p.added)
      BY <1>2, <1>4, Spot
    <3>4. QED BY <1>2, <1>t, <2>1, <3>1, <3>2, <3>3 DEF Placed
  <2>4. /\ slot_map' = slot_map /\ slot_map[k] # NULL /\ a = SlotOf(k)'
        /\ \A m \in Keys \ {k} : slot_map[m] # NULL => SlotOf(m)' = SlotOf(m)
    BY DEF Adds
  <2>5. SlotsAgree(T)'
    BY <1>2, <1>8, <2>1, <2>2, <2>3, <2>4, SlotPut
  <2>6. QED BY <2>1, <2>5
<1>11. JobsAgree(p.charged)' /\ SentAgrees(p.out)'
  BY <1>1, <1>2, JobsKept, SentKept DEF Agree
<1>12. QED BY <1>2, <1>4, <1>8, <1>9, <1>10, <1>11, <1>t

LEMMA AheadAdds ==
    ASSUME TypeInv, TypeInv', NEW c \in CPUs, Solo(c), NEW d, NEW p, FateIs(d, p),
           Ahead(c, d, p), LockPartial(c) \/ LockCompletes(c)
    PROVE  Ahead(c, d, p)'
<1>1. PICK k, s, a : Adds(c, k, s, a)
  <2>1. Awaits(c)
    BY SoloLock DEF LockPartial, LockCompletes, Accumulates
  <2>2. QED BY <2>1, LockAdds DEF Solo
<1>2. /\ p.takes /\ ~p.refused /\ p.valid /\ k = d.key /\ SameFields(frame[c], d)
      /\ p.last <=> Completes(a)
      /\ SlotAgrees(k, a, p.added)
      /\ SlotsAgree(p.filled)' /\ JobsAgree(p.charged)' /\ SentAgrees(p.out)'
  BY <1>1, BothAdd
<1>3. Agree(p.filled, p.charged, p.out)'
  BY <1>2 DEF Agree
<1>4. CASE ~Completes(a)
  <2>1. pc'[c] = "idle"
    BY <1>1, <1>4 DEF Adds
  <2>2. QED BY <1>2, <1>3, <1>4, <2>1 DEF Ahead, Done
<1>5. CASE Completes(a)
  <2>1. /\ pc'[c] = "complete" /\ UNCHANGED frame
        /\ final'[c].key = k /\ final'[c].chunk_len = a.chunk_len
        /\ final'[c].num_workers = a.num_workers_expected /\ final'[c].sum = a.sum
    BY <1>1, <1>5 DEF Adds
  <2>2. final'[c] # NoFinal
    BY <2>1 DEF TypeInv, Known
  <2>3. SumsAgree(final'[c], p.sum)
    <3>1. PICK e, o, b : e = final'[c] /\ o = p.sum /\ b = p.added
      OBVIOUS
    <3>2. /\ o.key = k /\ o.chunk_len = b.chunk_len /\ o.sum = b.sum
          /\ o.num_workers = b.num_workers_expected /\ k \in Keys
      BY <1>2, <3>1 DEF FateIs, FateSent, Given
    <3>3. /\ e.key = k /\ e.chunk_len = a.chunk_len
          /\ e.num_workers = a.num_workers_expected /\ e.sum = a.sum
      BY <2>1, <3>1
    <3>4. SumsAgree(e, o)
      BY <1>2, <3>1, <3>2, <3>3 DEF SumsAgree, SlotAgrees
    <3>5. QED BY <3>1, <3>4
  <2>4. SameFields(frame[c], d)' /\ SumsAgree(final[c], p.sum)'
    BY <1>2, <2>1, <2>3 DEF SameFields, SumsAgree
  <2>5. Stage(c, d, p)'
    BY <1>2, <1>3, <1>5, <2>1, <2>2, <2>4 DEF Stage, Making, After, Closing
  <2>6. QED BY <2>1, <2>5 DEF Ahead
<1>6. QED BY <1>4, <1>5

-----------------------------------------------------------------------------
\* A configured program keeps its sum.
LEMMA AheadConfig ==
    ASSUME TypeInv, NEW c \in CPUs, config_map = FixedQuota, FixedQuota \in Nat,
           NEW d, NEW p, Ahead(c, d, p), LookupConfig(c)
    PROVE  Ahead(c, d, p)'
<1>1. pc[c] = "complete" /\ Still /\ UNCHANGED <<frame, final>> /\ pc'[c] = "delete"
  <2>1. config_map # NoConfig
    BY DEF NoConfig
  <2>2. QED BY <2>1 DEF LookupConfig, Goto, TypeInv, LocalsTyped, shared, Still
<1>2. /\ SameFields(frame[c], d) /\ p.valid /\ p.takes /\ p.last /\ final[c] # NoFinal
      /\ SumsAgree(final[c], p.sum) /\ Agree(p.filled, p.charged, p.out)
  BY <1>1 DEF Ahead, Stage, After, Closing
<1>3. /\ Agree(p.filled, p.charged, p.out)' /\ SameFields(frame[c], d)'
      /\ SumsAgree(final[c], p.sum)'
  BY <1>1, <1>2, AgreeKept DEF SameFields, SumsAgree, Still
<1>4. Stage(c, d, p)'
  BY <1>1, <1>2, <1>3 DEF Stage, Making, After, Closing
<1>5. QED BY <1>1, <1>4 DEF Ahead

\* The slot is taken out of both tables.
LEMMA AheadDeletes ==
    ASSUME TypeInv, NEW c \in CPUs, NEW d, NEW p, FateIs(d, p), Ahead(c, d, p), Delete(c)
    PROVE  Ahead(c, d, p)'
<1>1. /\ pc[c] = "delete" /\ pc'[c] = "decrement"
      /\ slot_map' = [slot_map EXCEPT ![KeyOf(c)] = NULL]
      /\ UNCHANGED <<elem, job_quota_map, emitted, frame, final>>
  BY DEF Delete, locals, TypeInv, LocalsTyped, Goto
<1>2. /\ SameFields(frame[c], d) /\ p.valid /\ p.takes /\ p.last /\ final[c] # NoFinal
      /\ SumsAgree(final[c], p.sum) /\ Agree(p.filled, p.charged, p.out)
  BY <1>1 DEF Ahead, Stage, After, Closing
<1>k. PICK k \in Keys : k = d.key /\ k = KeyOf(c)
  BY <1>2 DEF FateIs, Given, SameFields, KeyOf
<1>3. /\ slot_map'[k] = NULL
      /\ \A m \in Keys \ {k} : slot_map'[m] = slot_map[m] /\ SlotOf(m)' = SlotOf(m)
  BY <1>1, <1>k DEF TypeInv, MapsTyped, SlotOf
<1>4. SlotsAgree(p.freed)'
  <2>1. PICK S, T, h : S = p.filled /\ T = p.freed /\ h = Home(k)
    OBVIOUS
  <2>2. SlotsTyped(S) /\ \A m \in Keys : KeyAgrees(S, m)
    BY <1>2, <2>1 DEF Agree, SlotsAgree
  <2>3. ~p.refused
    BY <1>2 DEF FateIs, FateSlots
  <2>4. /\ p.filled[Home(d.key)] = p.added /\ p.added.key = d.key
        /\ p.freed = Placed(p.filled, Home(d.key), Agg!FreeSlot)
    <3>1. p.filled[Home(d.key)] = p.added /\ p.added.key = d.key
      BY <1>2, <2>3, Spot
    <3>2. p.freed = Placed(p.filled, Home(d.key), Agg!FreeSlot)
      BY <1>2, <2>3, Spot
    <3>3. QED BY <3>1, <3>2
  <2>5. S[h].key = k /\ T = [S EXCEPT ![h] = Agg!FreeSlot]
    BY <1>k, <2>1, <2>4 DEF Placed
  <2>6. SlotsAgree(T)'
    BY <1>3, <2>1, <2>2, <2>5, SlotGone
  <2>7. QED BY <2>1, <2>6
<1>5. Agree(p.freed, p.charged, p.out)'
  BY <1>1, <1>2, <1>4, JobsKept, SentKept DEF Agree
<1>6. SameFields(frame[c], d)' /\ SumsAgree(final[c], p.sum)'
  BY <1>1, <1>2 DEF SameFields, SumsAgree
<1>7. Stage(c, d, p)'
  BY <1>1, <1>2, <1>5, <1>6 DEF Stage, Making, After, Closing
<1>8. QED BY <1>1, <1>7 DEF Ahead

\* The job of a slot that is taken out is repaid.
LEMMA RepayAgrees ==
    ASSUME TypeInv, NEW d, NEW p, FateIs(d, p), JobsAgree(p.charged), ~p.refused,
           NEW j, j = d.key.job_id,
           \/ /\ j \in Tracked /\ CountOf(j) >= 1
              /\ job_quota_map' = Put(job_quota_map, j, CountOf(j) - 1)
           \/ CountOf(j) = 0 /\ UNCHANGED job_quota_map
    PROVE  JobsAgree(p.repaid)'
<1>1. PICK J, K : J = p.charged /\ K = p.repaid
  OBVIOUS
<1>2. j \in Jobs
  BY DEF FateIs, Given
<1>3. /\ JobsTyped(K) /\ \A i \in Jobs \ {j} : K[i] = J[i]
      /\ K[j].in_use = J[j].in_use
      /\ K[j].concurrent_slots = Agg!Less(J[j].concurrent_slots, 1)
  BY <1>1 DEF FateIs, FateJobs
<1>4. /\ JobsAgree(J) /\ CountOf(j) = J[j].concurrent_slots /\ (j \in Tracked <=> J[j].in_use)
      /\ CountOf(j) \in Nat /\ CountOf(j) < UINT32
  BY <1>1, <1>2, CountType DEF JobsAgree, JobAgrees
<1>5. CASE /\ j \in Tracked /\ CountOf(j) >= 1
           /\ job_quota_map' = Put(job_quota_map, j, CountOf(j) - 1)
  <2>1. PICK v : v = CountOf(j) - 1
    OBVIOUS
  <2>2. v \in 0 .. UINT32 - 1
    BY <1>4, <1>5, <2>1, MapAssumption
  <2>3. K[j].in_use /\ K[j].concurrent_slots = v
    BY <1>3, <1>4, <1>5, <2>1 DEF Agg!Less
  <2>4. job_quota_map' = Put(job_quota_map, j, v)
    BY <1>5, <2>1
  <2>5. JobsAgree(K)'
    BY <1>2, <1>3, <1>4, <2>2, <2>3, <2>4, JobSet
  <2>6. QED BY <1>1, <2>5
<1>6. CASE CountOf(j) = 0 /\ UNCHANGED job_quota_map
  <2>1. K[j].concurrent_slots = J[j].concurrent_slots
    BY <1>3, <1>4, <1>6 DEF Agg!Less
  <2>2. \A i \in Jobs : SameEntry(K[i], J[i])
    BY <1>3, <2>1 DEF SameEntry
  <2>3. JobsAgree(K)
    BY <1>3, <1>4, <2>2, JobsAlike
  <2>4. JobsAgree(K)'
    BY <1>6, <2>3, JobsKept
  <2>5. QED BY <1>1, <2>4
<1>7. QED BY <1>5, <1>6

\* job_quota_decrement(): the sum is there, and goes on to XDP_TX.
LEMMA AheadDecrements ==
    ASSUME TypeInv, TypeInv', SlotsHeld, QuotaAccounted, NEW c \in CPUs,
           NEW d, NEW p, FateIs(d, p), Ahead(c, d, p), DecrementTest(c) \/ Subtract(c)
    PROVE  Ahead(c, d, p)'
<1>1. /\ pc[c] \in {"decrement", "subtract"}
      /\ UNCHANGED <<slot_map, elem, emitted, frame, final>>
  BY DEF DecrementTest, Subtract, shared, locals
<1>2. /\ SameFields(frame[c], d) /\ p.valid /\ p.takes /\ p.last /\ final[c] # NoFinal
      /\ SumsAgree(final[c], p.sum) /\ Agree(p.freed, p.charged, p.out)
  BY <1>1 DEF Ahead, Stage, After, Closing
<1>3. SameFields(frame[c], d)' /\ SumsAgree(final[c], p.sum)' /\ final'[c] # NoFinal
  BY <1>1, <1>2 DEF SameFields, SumsAgree
<1>j. PICK j \in Jobs : j = JobOf(c) /\ j = d.key.job_id
  BY <1>2 DEF FateIs, Given, SameFields, JobOf
<1>r. ~p.refused
  BY <1>2 DEF FateIs, FateSlots
<1>4. CASE DecrementTest(c) /\ pc'[c] = "subtract"
  <2>1. Still
    BY <1>4 DEF DecrementTest, shared, Still
  <2>2. Agree(p.freed, p.charged, p.out)'
    BY <1>2, <2>1, AgreeKept DEF Still
  <2>3. Stage(c, d, p)'
    BY <1>2, <1>3, <1>4, <2>2 DEF Stage, Making, After, Closing
  <2>4. QED BY <1>4, <2>3 DEF Ahead
<1>5. CASE DecrementTest(c) /\ pc'[c] # "subtract"
  <2>1. /\ pc'[c] = "tx" /\ UNCHANGED job_quota_map
        /\ ~(j \in Tracked /\ job_quota_map[j] > 0)
    BY <1>2, <1>j, <1>5
       DEF DecrementTest, AfterDecrement, Goto, TypeInv, LocalsTyped, shared
  <2>2. CountOf(j) = 0
    BY <2>1, CountType DEF CountOf
  <2>3. JobsAgree(p.repaid)'
    BY <1>2, <1>j, <1>r, <2>1, <2>2, RepayAgrees DEF Agree
  <2>4. Agree(p.freed, p.repaid, p.out)'
    BY <1>1, <1>2, <2>3, SlotsKept, SentKept DEF Agree
  <2>5. Stage(c, d, p)'
    BY <1>2, <1>3, <2>1, <2>4 DEF Stage, Making, After, Closing
  <2>6. QED BY <2>1, <2>5 DEF Ahead
<1>6. CASE Subtract(c)
  <2>1. /\ pc[c] = "subtract" /\ pc'[c] = "tx" /\ j \in Tracked
        /\ job_quota_map' = Put(job_quota_map, j, (job_quota_map[j] - 1) % UINT32)
    BY <1>2, <1>j, <1>6
       DEF Subtract, AfterDecrement, Goto, TypeInv, LocalsTyped, Known
  <2>2. Accounted(j)
    BY <2>1 DEF QuotaAccounted, Countable
  <2>3. CountOf(j) \in Nat /\ CountOf(j) >= 1 /\ CountOf(j) < UINT32
    BY <1>j, <2>1, <2>2, LeavesCounted, CountType DEF Leaving
  <2>4. (CountOf(j) - 1) % UINT32 = CountOf(j) - 1
    <3>1. CountOf(j) - 1 \in Nat /\ CountOf(j) - 1 < UINT32
      BY <2>3, MapAssumption
    <3>2. QED BY <3>1, NoWrap
  <2>5. CountOf(j) = job_quota_map[j]
    BY <2>1 DEF CountOf
  <2>6. job_quota_map' = Put(job_quota_map, j, CountOf(j) - 1)
    BY <2>1, <2>4, <2>5
  <2>7. JobsAgree(p.repaid)'
    BY <1>2, <1>j, <1>r, <2>1, <2>3, <2>6, RepayAgrees DEF Agree
  <2>8. Agree(p.freed, p.repaid, p.out)'
    BY <1>1, <1>2, <2>7, SlotsKept, SentKept DEF Agree
  <2>9. Stage(c, d, p)'
    BY <1>2, <1>3, <2>1, <2>8 DEF Stage, Making, After, Closing
  <2>10. QED BY <2>1, <2>9 DEF Ahead
<1>7. QED BY <1>4, <1>5, <1>6

\* The sum is sent by the XDP program; agg.c will send the same one.
LEMMA AheadTransmits ==
    ASSUME TypeInv, NEW c \in CPUs, NEW d, NEW p, FateIs(d, p), Ahead(c, d, p), Transmit(c)
    PROVE  Ahead(c, d, p)'
<1>1. /\ pc[c] = "tx" /\ pc'[c] = "idle" /\ emitted' = Append(emitted, final[c])
      /\ UNCHANGED <<slot_map, elem, job_quota_map>>
  BY DEF Transmit, TypeInv, LocalsTyped, Return, Goto
<1>2. p.takes /\ p.last /\ SumsAgree(final[c], p.sum) /\ Agree(p.freed, p.repaid, p.out)
  BY <1>1 DEF Ahead, Stage, After, Closing
<1>3. PICK O, o, Q, e : O = p.out /\ o = p.sum /\ Q = Append(O, o) /\ e = final[c]
  OBVIOUS
<1>4. SentAgrees(O) /\ o \in Agg!Emission /\ SumsAgree(e, o) /\ emitted \in Seq(Emission)
  BY <1>2, <1>3 DEF Agree, FateIs, FateSent, TypeInv, MapsTyped
<1>5. SentAgrees(Q)'
  BY <1>1, <1>3, <1>4, SentMore
<1>6. Agree(p.freed, p.repaid, Q)'
  BY <1>1, <1>2, <1>5, SlotsKept, JobsKept DEF Agree
<1>7. Done(p)'
  BY <1>2, <1>3, <1>6 DEF Done
<1>8. QED BY <1>1, <1>7 DEF Ahead

\* A drop is counted.
LEMMA AheadBumps ==
    ASSUME TypeInv, NEW c \in CPUs, NEW d, NEW p, Ahead(c, d, p), BumpStat(c) \/ BumpNewStat(c)
    PROVE  Ahead(c, d, p)'
<1>1. /\ pc[c] \in {"stat", "newstat"} /\ pc'[c] \in {"idle", "newstat"} /\ Still
  BY DEF BumpStat, BumpNewStat, TypeInv, LocalsTyped, Return, Goto, Still
<1>2. Done(p)'
  BY <1>1, DoneKept DEF Ahead
<1>3. QED BY <1>1, <1>2 DEF Ahead

LEMMA AheadStep ==
    ASSUME NoDetour, TypeInv, TypeInv', SlotsHeld, QuotaAccounted, NEW c \in CPUs, Solo(c),
           config_map = FixedQuota, FixedQuota \in Nat,
           NEW d, NEW p, FateIs(d, p), Ahead(c, d, p), Step(c)
    PROVE  Ahead(c, d, p)'
BY AheadPrecheck, AheadAdmits, AheadRejects, AheadWins, AheadLoses, AheadRelookup,
   AheadIncrement, AheadDrops, AheadAdds, AheadConfig, AheadDeletes, AheadDecrements,
   AheadTransmits, AheadBumps DEF Step

-----------------------------------------------------------------------------
(***************************************************************************)
(* Between the two programs.                                               *)
(***************************************************************************)
\* What agg.c will make of a datagram does not change while it sleeps.
LEMMA FateKept ==
    ASSUME NEW d, UNCHANGED <<slots, jobs, out>>
    PROVE  Fate(d)' = Fate(d)
<1>1. \A k : Agg!Found(k)' = Agg!Found(k) /\ Agg!Stops(k)' = Agg!Stops(k)
  BY DEF Agg!Found, Agg!Stops, Agg!StopsAt
<1>2. \A j : Agg!JobFound(j)' = Agg!JobFound(j) /\ Agg!AtQuota(j)' = Agg!AtQuota(j)
  BY DEF Agg!JobFound, Agg!JobTableFull, Agg!TrackedJobs, Agg!AtQuota
<1>3. \A k : /\ Agg!Refused(k)' = Agg!Refused(k)
             /\ Agg!JobsAfterLookup(k)' = Agg!JobsAfterLookup(k)
  BY <1>1, <1>2 DEF Agg!Refused, Agg!RefusedByQuota, Agg!JobsAfterLookup
<1>4. Agg!SlotFor(d)' = Agg!SlotFor(d)
  BY <1>1 DEF Agg!SlotFor
<1>5. /\ Agg!Accumulated(d)' = Agg!Accumulated(d) /\ Agg!Completes(d)' = Agg!Completes(d)
      /\ Agg!Mismatch(d)' = Agg!Mismatch(d) /\ Agg!Duplicate(d)' = Agg!Duplicate(d)
  BY <1>4 DEF Agg!Accumulated, Agg!Completes, Agg!Mismatch, Agg!Duplicate
<1>6. Valid(d)' = Valid(d)
  BY DEF Valid, Agg!WellFormed
<1>7. QED BY <1>2, <1>3, <1>4, <1>5, <1>6 DEF Fate

LEMMA AggTypedKept ==
    ASSUME AggTyped, UNCHANGED <<slots, jobs, out>>
    PROVE  AggTyped'
BY DEF AggTyped, SlotsTyped, JobsTyped

LEMMA CoupledXdp ==
    ASSUME NoDetour, TypeInv, TypeInv', SlotsHeld, QuotaAccounted, NEW c \in CPUs, Solo(c),
           config_map = FixedQuota, FixedQuota \in Nat, Coupled(c), XdpRuns(c)
    PROVE  Coupled(c)'
<1>1. Step(c) /\ UNCHANGED <<slots, jobs, queue, out, asymmetric>>
  BY DEF XdpRuns, agg_vars
<1>2. pc[c] # "idle"
  BY <1>1 DEF Step, Precheck, QuotaAdmits, QuotaRejects, CreateWins, CreateLoses, Relookup,
     RelookupFails, Increment, IncrementNew, LockRejects, Accumulates, LockPartial,
     LockCompletes, LookupConfig, Delete, DecrementTest, Subtract, Transmit, BumpStat,
     BumpNewStat
<1>3. CASE asymmetric
  BY <1>1, <1>3 DEF Coupled
<1>4. CASE ~asymmetric
  <2>1. PICK r \in RawDatagrams :
           queue = <<DatagramOf(r)>> /\ Ahead(c, DatagramOf(r), Fate(DatagramOf(r)))
    BY <1>2, <1>4 DEF Coupled
  <2>2. PICK d : d = DatagramOf(r)
    OBVIOUS
  <2>3. PICK p : p = Fate(d)
    OBVIOUS
  <2>4. AggTyped /\ AggTyped'
    BY <1>1, <1>2, <1>4, AggTypedKept DEF Coupled
  <2>5. FateIs(d, p)
    BY <2>2, <2>3, <2>4, FateType
  <2>6. Ahead(c, d, p)'
    BY <1>1, <2>1, <2>2, <2>3, <2>5, AheadStep
  <2>7. p = Fate(d)'
    BY <1>1, <2>3, FateKept
  <2>8. queue' = <<d>>
    BY <1>1, <2>1, <2>2
  <2>9. QED BY <2>2, <2>4, <2>6, <2>7, <2>8 DEF Coupled
<1>5. QED BY <1>3, <1>4

\* What a frame is to the two aggregators when it comes.
LEMMA Arrives ==
    ASSUME TypeInv, NEW c \in CPUs, NEW r \in RawDatagrams, Deliver(c, r),
           NEW d, d = DatagramOf(r)
    PROVE  /\ AtRest /\ queue = <<>> /\ ~asymmetric /\ queue' = <<d>> /\ Still
           /\ UNCHANGED <<slots, jobs, out>>
           /\ \/ pc'[c] = "idle" /\ ~Valid(d)
              \/ slot_map[d.key] # NULL /\ ~Valid(d) /\ asymmetric'
              \/ /\ pc'[c] = "lock" /\ Valid(d) /\ slot_map[d.key] # NULL
                 /\ SameFields(frame'[c], d)
              \/ /\ pc'[c] = "precheck" /\ Valid(d) /\ slot_map[d.key] = NULL
                 /\ SameFields(frame'[c], d)
<1>1. /\ AtRest /\ queue = <<>> /\ ~asymmetric /\ Rx(c) /\ queue' = <<d>>
      /\ UNCHANGED <<slots, jobs, out>>
      /\ asymmetric' = (/\ WellFormed(FrameOf(r)) /\ ~MayCreate(FrameOf(r))
                        /\ slot_map[r.key] # NULL)
  BY DEF Deliver, BothAtRest, AggAtRest
<1>2. /\ Given(d) /\ SameFields(FrameOf(r), d) /\ FrameOf(r).key = r.key
      /\ Valid(d) <=> WellFormed(FrameOf(r)) /\ MayCreate(FrameOf(r))
  BY GivenType
<1>f. PICK f : f = FrameOf(r)
  OBVIOUS
<1>3. f.key = r.key /\ d.key = r.key
  BY <1>2, <1>f DEF SameFields
<1>4. f \in wire /\ \A g \in wire : Receive(c, g) => g = f
  BY <1>f DEF Deliver, Receive
<1>5. Still
  BY <1>1 DEF Rx, RxIgnored, RxHit, RxMiss, Still
<1>6. CASE RxIgnored(c)
  <2>1. WellFormed(f) => slot_map[f.key] = NULL /\ ~MayCreate(f)
    BY <1>4, <1>6 DEF RxIgnored
  <2>2. pc'[c] = "idle"
    BY <1>1, <1>6 DEF RxIgnored, AtRest
  <2>3. QED BY <1>1, <1>2, <1>5, <1>f, <2>1, <2>2
<1>7. CASE RxHit(c)
  <2>1. /\ WellFormed(f) /\ slot_map[f.key] # NULL
        /\ frame' = [frame EXCEPT ![c] = f] /\ Goto(c, "lock")
    BY <1>4, <1>7 DEF RxHit
  <2>2. frame'[c] = f /\ pc'[c] = "lock"
    BY <2>1 DEF TypeInv, LocalsTyped, Goto
  <2>3. QED BY <1>1, <1>2, <1>3, <1>5, <1>f, <2>1, <2>2
<1>8. CASE RxMiss(c)
  <2>1. /\ WellFormed(f) /\ MayCreate(f) /\ slot_map[f.key] = NULL
        /\ frame' = [frame EXCEPT ![c] = f] /\ Goto(c, "precheck")
    BY <1>4, <1>8 DEF RxMiss
  <2>2. frame'[c] = f /\ pc'[c] = "precheck"
    BY <2>1 DEF TypeInv, LocalsTyped, Goto
  <2>3. QED BY <1>1, <1>2, <1>3, <1>5, <1>f, <2>1, <2>2
<1>9. QED BY <1>1, <1>6, <1>7, <1>8 DEF Rx

LEMMA CoupledDeliver ==
    ASSUME NoDetour, TypeInv, NEW c \in CPUs, Coupled(c), NEW r \in RawDatagrams, Deliver(c, r)
    PROVE  Coupled(c)'
<1>d. PICK d : d = DatagramOf(r)
  OBVIOUS
<1>p. PICK p : p = Fate(d)
  OBVIOUS
<1>1. /\ queue = <<>> /\ ~asymmetric /\ queue' = <<d>> /\ Still
      /\ UNCHANGED <<slots, jobs, out>>
      /\ \/ pc'[c] = "idle" /\ ~Valid(d)
         \/ slot_map[d.key] # NULL /\ ~Valid(d) /\ asymmetric'
         \/ /\ pc'[c] = "lock" /\ Valid(d) /\ slot_map[d.key] # NULL
            /\ SameFields(frame'[c], d)
         \/ /\ pc'[c] = "precheck" /\ Valid(d) /\ slot_map[d.key] = NULL
            /\ SameFields(frame'[c], d)
  BY <1>d, Arrives
<1>2. Agree(slots, jobs, out)
  BY <1>1 DEF Coupled
<1>3. AggTyped
  BY <1>2 DEF Agree, SlotsAgree, JobsAgree, SentAgrees, AggTyped
<1>4. FateIs(d, p) /\ p = Fate(d)' /\ AggTyped'
  BY <1>1, <1>3, <1>d, <1>p, FateType, FateKept, AggTypedKept
<1>5. Agree(p.slots, p.jobs, p.out)
  <2>1. p.slots = slots /\ p.jobs = jobs /\ p.out = out
    BY <1>p DEF Fate
  <2>2. QED BY <1>2, <2>1
<1>6. Agree(p.slots, p.jobs, p.out)'
  BY <1>1, <1>5, AgreeKept DEF Still
<1>7. p.valid <=> Valid(d)
  BY <1>4 DEF FateIs, FateSlots
<1>8. ASSUME Ahead(c, d, p)' PROVE Coupled(c)'
  BY <1>1, <1>4, <1>8, <1>d DEF Coupled
<1>9. CASE pc'[c] = "idle" /\ ~Valid(d)
  <2>1. ~p.takes
    BY <1>4, <1>7, <1>9 DEF FateIs, FateSlots
  <2>2. Ahead(c, d, p)'
    BY <1>6, <1>9, <2>1 DEF Ahead, Done
  <2>3. QED BY <1>8, <2>2
<1>10. CASE pc'[c] = "lock" /\ Valid(d) /\ slot_map[d.key] # NULL /\ SameFields(frame'[c], d)
  <2>1. p.here.in_use /\ p.here.key = d.key
    BY <1>4, <1>5, <1>10, HereIs DEF Agree
  <2>2. ~p.refused
    BY <1>4, <2>1 DEF FateIs, FateSlots
  <2>3. p.opened = p.slots
    BY <1>4, <2>1, <2>2, Spot
  <2>4. p.charged = p.jobs
    BY <1>4, <2>1, <2>2 DEF FateIs, FateJobs
  <2>5. Stage(c, d, p)'
    BY <1>6, <1>7, <1>10, <2>2, <2>3, <2>4 DEF Stage, Making, After, Closing, SameFields
  <2>6. Ahead(c, d, p)'
    BY <1>10, <2>5 DEF Ahead
  <2>7. QED BY <1>8, <2>6
<1>11. CASE pc'[c] = "precheck" /\ Valid(d) /\ SameFields(frame'[c], d)
  <2>1. Stage(c, d, p)'
    BY <1>6, <1>7, <1>11 DEF Stage, Making, After, Closing, SameFields
  <2>2. Ahead(c, d, p)'
    BY <1>11, <2>1 DEF Ahead
  <2>3. QED BY <1>8, <2>2
<1>12. CASE asymmetric'
  BY <1>12 DEF Coupled
<1>13. QED BY <1>1, <1>9, <1>10, <1>11, <1>12

-----------------------------------------------------------------------------
(***************************************************************************)
(* agg.c takes the datagram out of its socket and catches up.              *)
(***************************************************************************)
\* With no reaper and no bound on packets, the head of the loop leaves all as it is.
LEMMA HeadIdle ==
    ASSUME \/ Agg!Exit \/ Agg!Sweep \/ Agg!NoSweep \/ Agg!DumpStats \/ Agg!ClearRequest
           \/ Agg!NoDump \/ Agg!Block \/ Agg!Timeout
    PROVE  UNCHANGED <<slots, jobs, queue, out>>
BY DEF Agg!Exit, Agg!KeepRunning, Agg!Sweep, Agg!SweepDue, Agg!NoSweep, Agg!DumpStats,
       Agg!ClearRequest, Agg!NoDump, Agg!Block, Agg!Timeout

\* recvfrom() returns the datagram, and a completed sum is sent.
Receives ==
    \/ Agg!RecvRunt \/ Agg!RecvMalformed \/ Agg!RecvRefused \/ Agg!RecvMismatch
    \/ Agg!RecvDuplicate \/ Agg!RecvPartial
    \/ (Agg!RecvComplete /\ out' # out)

\* The tables after the datagram.
LEMMA Takes ==
    ASSUME NoDetour, AggTyped, NEW r \in RawDatagrams, NEW d, d = DatagramOf(r), queue = <<d>>,
           NEW p, p = Fate(d), FateIs(d, p), Receives
    PROVE  /\ queue' = <<>>
           /\ IF ~p.takes
              THEN /\ UNCHANGED <<slots, out>>
                   /\ \/ UNCHANGED jobs
                      \/ p.atquota /\ jobs' = [jobs EXCEPT ![d.key.job_id].in_use = TRUE,
                                                   ![d.key.job_id].rejected_count = @ + 1]
              ELSE IF ~p.last THEN slots' = p.filled /\ jobs' = p.charged /\ UNCHANGED out
              ELSE slots' = p.freed /\ jobs' = p.repaid /\ out' = Append(out, p.sum)
<1>1. \A e : Agg!Receive(e) => e = d /\ queue' = <<>>
  BY DEF Agg!Receive
<1>2. d \in Datagrams /\ d.n \in Int /\ d.key \in Keys
  BY Parsed, SMTT(30)
<1>3. /\ p.takes <=> Valid(d) /\ ~Agg!Refused(d.key) /\ ~Agg!Mismatch(d) /\ ~Agg!Duplicate(d)
      /\ p.last <=> p.takes /\ Agg!Completes(d)
      /\ p.atquota = Agg!AtQuota(d.key.job_id)
  BY DEF Fate
<1>4. ASSUME p.takes
      PROVE  /\ p.filled = [slots EXCEPT ![Home(d.key)] = Agg!Accumulated(d)]
             /\ p.freed = [slots EXCEPT ![Home(d.key)] = Agg!FreeSlot]
             /\ p.charged = Agg!JobsAfterLookup(d.key)
             /\ p.repaid = [Agg!JobsAfterLookup(d.key) EXCEPT
                               ![d.key.job_id].concurrent_slots = Agg!Less(@, 1)]
             /\ p.sum = [key |-> d.key, chunk_len |-> Agg!Accumulated(d).chunk_len,
                         sum |-> Agg!Accumulated(d).sum,
                         num_workers |-> Agg!Accumulated(d).num_workers_expected]
             /\ Agg!Found(d.key) = Home(d.key)
  <2>1. ~Agg!Refused(d.key)
    BY <1>3, <1>4
  <2>2. Agg!Found(d.key) = Home(d.key)
    BY <1>2, <2>1, FateHere DEF AggTyped
  <2>3. ~p.refused /\ p.takes
    BY <1>4, <2>1, ZenonT(60) DEF Fate
  <2>4. p.filled = [slots EXCEPT ![Home(d.key)] = p.added]
        /\ p.freed = [slots EXCEPT ![Home(d.key)] = Agg!FreeSlot]
        /\ p.repaid = [p.charged EXCEPT ![d.key.job_id].concurrent_slots = Agg!Less(@, 1)]
    BY DEF Fate
  <2>5. /\ p.added = Agg!Accumulated(d) /\ p.charged = Agg!JobsAfterLookup(d.key)
        /\ p.sum = [key |-> d.key, chunk_len |-> Agg!Accumulated(d).chunk_len,
                    sum |-> Agg!Accumulated(d).sum,
                    num_workers |-> Agg!Accumulated(d).num_workers_expected]
    BY <2>3, ZenonT(60) DEF Fate
  <2>6. QED BY <2>2, <2>4, <2>5, Zenon
<1>5. CASE Agg!RecvRunt \/ Agg!RecvMalformed
  <2>1. queue' = <<>> /\ UNCHANGED <<slots, jobs, out>> /\ ~Valid(d)
    BY <1>1, <1>2, <1>5 DEF Agg!RecvRunt, Agg!RecvMalformed, Valid
  <2>2. QED BY <1>3, <2>1
<1>6. CASE Agg!RecvRefused
  <2>1. queue' = <<>> /\ UNCHANGED <<slots, out>> /\ Agg!Refused(d.key)
        /\ jobs' = Agg!JobsAfterRefusal(d.key)
    BY <1>1, <1>6 DEF Agg!RecvRefused
  <2>2. \/ UNCHANGED jobs
        \/ p.atquota /\ jobs' = [jobs EXCEPT ![d.key.job_id].in_use = TRUE,
                                             ![d.key.job_id].rejected_count = @ + 1]
    BY <1>3, <2>1 DEF Agg!JobsAfterRefusal, Agg!RefusedByQuota
  <2>3. QED BY <1>3, <2>1, <2>2
<1>7. CASE Agg!RecvMismatch \/ Agg!RecvDuplicate
  <2>1. queue' = <<>> /\ UNCHANGED <<slots, jobs, out>> /\ (Agg!Mismatch(d) \/ Agg!Duplicate(d))
    BY <1>1, <1>7 DEF Agg!RecvMismatch, Agg!RecvDuplicate, Agg!Admitted
  <2>2. QED BY <1>3, <2>1
<1>8. CASE Agg!RecvPartial
  <2>1. /\ queue' = <<>> /\ Valid(d) /\ ~Agg!Refused(d.key) /\ ~Agg!Mismatch(d)
        /\ ~Agg!Duplicate(d) /\ ~Agg!Completes(d)
        /\ slots' = [slots EXCEPT ![Agg!Found(d.key)] = Agg!Accumulated(d)]
        /\ jobs' = Agg!JobsAfterLookup(d.key) /\ UNCHANGED out
    BY <1>1, <1>8 DEF Agg!RecvPartial, Agg!Admitted, Valid
  <2>2. p.takes /\ ~p.last
    BY <1>3, <2>1
  <2>3. QED BY <1>4, <2>1, <2>2
<1>9. CASE Agg!RecvComplete /\ out' # out
  <2>1. /\ queue' = <<>> /\ Valid(d) /\ ~Agg!Refused(d.key) /\ ~Agg!Mismatch(d)
        /\ ~Agg!Duplicate(d) /\ Agg!Completes(d)
        /\ slots' = [slots EXCEPT ![Agg!Found(d.key)] = Agg!FreeSlot]
        /\ jobs' = [Agg!JobsAfterLookup(d.key) EXCEPT
                       ![d.key.job_id].concurrent_slots = Agg!Less(@, 1)]
        /\ out' = Append(out, [key |-> d.key, chunk_len |-> Agg!Accumulated(d).chunk_len,
                               sum |-> Agg!Accumulated(d).sum,
                               num_workers |-> Agg!Accumulated(d).num_workers_expected])
    BY <1>1, <1>9 DEF Agg!RecvComplete, Agg!Admitted, Valid
  <2>2. p.takes /\ p.last
    BY <1>3, <2>1
  <2>3. QED BY <1>4, <2>1, <2>2
<1>10. QED BY <1>5, <1>6, <1>7, <1>8, <1>9 DEF Receives

\* A refusal is counted in g_jobs, and changes nothing that is compared.
LEMMA RefusalCounted ==
    ASSUME TypeInv, NEW d, NEW p, FateIs(d, p), JobsAgree(p.jobs), FixedQuota \in Nat, p.atquota,
           NEW K, K = [p.jobs EXCEPT ![d.key.job_id].in_use = TRUE,
                                     ![d.key.job_id].rejected_count = @ + 1]
    PROVE  JobsAgree(K)
<1>j. PICK j \in Jobs : j = d.key.job_id
  BY DEF FateIs, Given
<1>J. PICK J : J = p.jobs
  OBVIOUS
<1>1. JobsAgree(J) /\ J \in [Jobs -> Agg!JobEntry]
  BY <1>J DEF JobsAgree, JobsTyped
<1>2. K = [J EXCEPT ![j].in_use = TRUE, ![j].rejected_count = @ + 1]
  BY <1>j, <1>J, SMTT(30)
<1>3. /\ K \in [Jobs -> Agg!JobEntry] /\ K[j].in_use
      /\ K[j].concurrent_slots = J[j].concurrent_slots
      /\ \A i \in Jobs \ {j} : K[i] = J[i]
  BY <1>1, <1>2, SMTT(60) DEF Agg!JobEntry
<1>4. J[j].in_use
  <2>1. FixedQuota > 0 /\ AtQuota(j, FixedQuota)
    BY <1>j, QuotaAgrees
  <2>2. QED BY <1>1, <2>1 DEF AtQuota, JobsAgree, JobAgrees
<1>5. J[j].in_use \in BOOLEAN /\ K[j].in_use \in BOOLEAN
  BY <1>1, <1>3, ZenonT(60) DEF Agg!JobEntry
<1>6. \A i \in Jobs : SameEntry(K[i], J[i])
  BY <1>3, <1>4, <1>5 DEF SameEntry
<1>7. JobsTyped(K)
  BY <1>3, Zenon DEF JobsTyped
<1>8. QED BY <1>1, <1>6, <1>7, JobsAlike, Zenon

\* After the datagram agg.c is where the XDP program was.
LEMMA CatchesUp ==
    ASSUME NoDetour, TypeInv, FixedQuota \in Nat, AggTyped,
           NEW r \in RawDatagrams, NEW d, d = DatagramOf(r), queue = <<d>>,
           NEW p, p = Fate(d), FateIs(d, p), Done(p), UNCHANGED vars,
           Receives
    PROVE  queue' = <<>> /\ Agree(slots, jobs, out)'
<1>1. p.slots = slots /\ p.jobs = jobs /\ p.out = out
  BY DEF Fate
<1>2. PICK S, J, O : S = slots' /\ J = jobs' /\ O = out'
  OBVIOUS
<1>3. /\ queue' = <<>>
      /\ IF ~p.takes
         THEN /\ S = p.slots /\ O = p.out
              /\ \/ J = p.jobs
                 \/ p.atquota /\ J = [p.jobs EXCEPT ![d.key.job_id].in_use = TRUE,
                                                    ![d.key.job_id].rejected_count = @ + 1]
         ELSE IF ~p.last THEN S = p.filled /\ J = p.charged /\ O = p.out
         ELSE S = p.freed /\ J = p.repaid /\ O = Append(p.out, p.sum)
  BY <1>1, <1>2, Takes
<1>4. Agree(S, J, O)
  <2>1. CASE ~p.takes
    <3>1. Agree(p.slots, p.jobs, p.out)
      BY <2>1, ZenonT(60) DEF Done
    <3>2. JobsAgree(J)
      BY <1>3, <2>1, <3>1, RefusalCounted DEF Agree
    <3>3. QED BY <1>3, <2>1, <3>1, <3>2 DEF Agree
  <2>2. CASE p.takes
    BY <1>3, <2>2 DEF Done
  <2>3. QED BY <2>1, <2>2
<1>5. Agree(S, J, O)'
  BY <1>4, AgreeKept DEF vars
<1>6. QED BY <1>2, <1>3, <1>5, SMTT(30)

\* Nothing that is compared changes.
LEMMA CoupledKept ==
    ASSUME NEW c, Coupled(c), Still, UNCHANGED <<pc, frame, max_slots, final>>,
           UNCHANGED <<slots, jobs, queue, out, asymmetric>>
    PROVE  Coupled(c)'
<1>1. ASSUME NEW S, NEW J, NEW O, Agree(S, J, O) PROVE Agree(S, J, O)'
  BY <1>1, AgreeKept DEF Still
<1>2. CASE asymmetric
  BY <1>2 DEF Coupled
<1>3. CASE queue = <<>> /\ pc[c] = "idle" /\ Agree(slots, jobs, out)
  <2>1. PICK S, J, O : S = slots /\ J = jobs /\ O = out
    OBVIOUS
  <2>2. Agree(S, J, O)' /\ S = slots' /\ J = jobs' /\ O = out'
    BY <1>1, <1>3, <2>1
  <2>3. Agree(slots, jobs, out)'
    BY <2>2
  <2>4. QED BY <1>3, <2>3 DEF Coupled
<1>4. ASSUME AggTyped, NEW r \in RawDatagrams, queue = <<DatagramOf(r)>>,
             Ahead(c, DatagramOf(r), Fate(DatagramOf(r)))
      PROVE  Coupled(c)'
  <2>1. PICK d, p : d = DatagramOf(r) /\ p = Fate(d)
    OBVIOUS
  <2>2. AggTyped' /\ p = Fate(d)'
    BY <1>4, <2>1, AggTypedKept, FateKept
  <2>3. Ahead(c, d, p)'
    <3>1. CASE pc[c] \in {"idle", "lost", "stat", "newstat"}
      <4>1. Done(p)'
        BY <1>4, <2>1, <3>1, DoneKept DEF Ahead
      <4>2. QED BY <3>1, <4>1 DEF Ahead
    <3>2. CASE pc[c] \notin {"idle", "lost", "stat", "newstat"}
      <4>1. Stage(c, d, p)
        BY <1>4, <2>1, <3>2 DEF Ahead
      <4>2. Stage(c, d, p)'
        BY <1>1, <4>1 DEF Stage, SameFields, SumsAgree, JobOf, Tracked, Still
      <4>3. QED BY <3>2, <4>2 DEF Ahead
    <3>3. QED BY <3>1, <3>2
  <2>4. QED BY <1>4, <2>1, <2>2, <2>3 DEF Coupled
<1>5. QED BY <1>2, <1>3, <1>4 DEF Coupled

LEMMA CoupledAgg ==
    ASSUME NoDetour, TypeInv, FixedQuota \in Nat, NEW c \in CPUs, Coupled(c), AggRuns
    PROVE  Coupled(c)'
<1>1. /\ pc[c] = "idle" /\ pc'[c] = "idle" /\ UNCHANGED vars /\ UNCHANGED asymmetric
      /\ Still /\ Agg!MainLoop /\ (Agg!RecvComplete => out' # out)
  BY DEF AggRuns, AtRest, vars, Still
<1>2. UNCHANGED <<slots, jobs, queue, out>> \/ Receives
  BY <1>1, HeadIdle DEF Agg!MainLoop, Receives
<1>3. CASE UNCHANGED <<slots, jobs, queue, out>>
  BY <1>1, <1>3, CoupledKept DEF vars
<1>4. CASE Receives
  <2>1. queue # <<>>
    BY <1>4 DEF Receives, Agg!RecvRunt, Agg!RecvMalformed, Agg!RecvRefused,
       Agg!RecvMismatch, Agg!RecvDuplicate, Agg!RecvPartial, Agg!RecvComplete, Agg!Admitted,
       Agg!Receive
  <2>2. CASE asymmetric
    BY <1>1, <2>2 DEF Coupled
  <2>3. ASSUME AggTyped, NEW r \in RawDatagrams, queue = <<DatagramOf(r)>>,
               Ahead(c, DatagramOf(r), Fate(DatagramOf(r)))
        PROVE  Coupled(c)'
    <3>1. PICK d, p : d = DatagramOf(r) /\ p = Fate(d)
      OBVIOUS
    <3>2. FateIs(d, p)
      BY <2>3, <3>1, FateType
    <3>3. Done(p)
      BY <1>1, <2>3, <3>1 DEF Ahead
    <3>4. queue' = <<>> /\ Agree(slots, jobs, out)'
      BY <1>1, <1>4, <2>3, <3>1, <3>2, <3>3, CatchesUp
    <3>5. QED BY <1>1, <3>4 DEF Coupled
  <2>4. QED BY <2>1, <2>2, <2>3 DEF Coupled
<1>5. QED BY <1>2, <1>3, <1>4

-----------------------------------------------------------------------------
\* Nothing has been received.
LEMMA CoupledInit == ASSUME NEW c \in CPUs PROVE ParityInit => Coupled(c)
<1>1. SUFFICES ASSUME ParityInit PROVE Coupled(c)
  OBVIOUS
<1>2. /\ slot_map = [k \in Keys |-> NULL] /\ job_quota_map = [j \in {} |-> 0]
      /\ emitted = <<>> /\ pc = [d \in CPUs |-> "idle"] /\ queue = <<>>
      /\ slots = [i \in Agg!Index |-> Agg!FreeSlot] /\ jobs = [j \in Jobs |-> Agg!NoEntry]
      /\ out = <<>>
  BY <1>1 DEF ParityInit, Init, Agg!Init
<1>3. SlotsAgree(slots)
  <2>1. SlotsTyped(slots)
    BY <1>2, UsedKinds DEF SlotsTyped
  <2>2. \A k \in Keys : ~Holds(slots, k)
    BY <1>2, HomeType, UsedKinds DEF Holds
  <2>3. QED BY <1>2, <2>1, <2>2 DEF SlotsAgree, KeyAgrees
<1>4. JobsAgree(jobs)
  <2>1. Agg!NoEntry \in Agg!JobEntry /\ Agg!NoEntry.concurrent_slots = 0 /\ ~Agg!NoEntry.in_use
    BY DEF Agg!NoEntry, Agg!JobEntry
  <2>2. Tracked = {}
    BY <1>2 DEF Tracked
  <2>3. QED BY <1>2, <2>1, <2>2 DEF JobsAgree, JobsTyped, JobAgrees, CountOf
<1>5. SentAgrees(out)
  BY <1>2 DEF SentAgrees
<1>6. QED BY <1>2, <1>3, <1>4, <1>5 DEF Coupled, Agree

\* The two programs stay in step.  c is the one CPU.
LEMMA CoupledStep ==
    ASSUME NoDetour, NEW c \in CPUs, CPUs = {c}, Configs = {FixedQuota}
    PROVE  /\ TypeInv /\ TypeInv' /\ SlotsHeld /\ QuotaAccounted /\ Solo(c) /\ Coupled(c)
              /\ [ParityNext]_parity_vars
           => Coupled(c)'
<1>1. SUFFICES ASSUME TypeInv, TypeInv', SlotsHeld, QuotaAccounted, Solo(c), Coupled(c),
                      [ParityNext]_parity_vars
               PROVE  Coupled(c)'
  OBVIOUS
<1>2. FixedQuota \in Nat /\ config_map = FixedQuota
  <2>1. FixedQuota \in Nat \cup {NoConfig}
    BY RunAssumption
  <2>2. FixedQuota # NoConfig
    BY DEF FixedQuota, NoConfig
  <2>3. QED BY <1>1, <2>1, <2>2 DEF TypeInv, MapsTyped
<1>3. CASE AggRuns
  BY <1>1, <1>2, <1>3, CoupledAgg
<1>4. CASE XdpRuns(c)
  BY <1>1, <1>2, <1>4, CoupledXdp
<1>5. ASSUME NEW r \in RawDatagrams, Deliver(c, r) PROVE Coupled(c)'
  BY <1>1, <1>5, CoupledDeliver
<1>6. CASE UNCHANGED parity_vars
  <2>1. Still /\ UNCHANGED <<pc, frame, max_slots, final, slots, jobs, queue, out, asymmetric>>
    BY <1>6 DEF parity_vars, vars, agg_vars, Still
  <2>2. QED BY <1>1, <2>1, CoupledKept
<1>7. QED BY <1>1, <1>3, <1>4, <1>5, <1>6 DEF ParityNext

\* What holds of the two programs on one CPU.
LEMMA CoupledAlways ==
    ASSUME NoDetour, NEW c \in CPUs, CPUs = {c}, Configs = {FixedQuota}
    PROVE  ParitySpec => [](TypeInv /\ Solo(c) /\ Coupled(c))
<1>1. OnceTraffic \/ Cardinality(CPUs) = 1
  BY FS_Singleton
<1>2. /\ Spec => []TypeInv
      /\ Spec => []SlotsHeld
      /\ Spec => []QuotaAccounted
      /\ Spec => []Solo(c)
  BY <1>1, TypeAlways, HeldAlways, QuotaAlways, SoloAlways
<1>3. QED BY <1>2, CoupledInit, CoupledStep, ParityRunsXdp, PTL DEF ParitySpec

-----------------------------------------------------------------------------
(***************************************************************************)
(* What can be seen of it when both are at rest.                           *)
(***************************************************************************)
LEMMA AgreeAtRest ==
    ASSUME NEW c \in CPUs, CPUs = {c}, Coupled(c), BothAtRest, ~asymmetric
    PROVE  Agree(slots, jobs, out) /\ pc[c] = "idle"
BY DEF Coupled, BothAtRest, AtRest, AggAtRest

\* A key's round is open in both, or in neither.
LEMMA RoundsAlike ==
    ASSUME TypeInv, NEW c \in CPUs, Solo(c), pc[c] = "idle", SlotsAgree(slots), NEW k \in Keys
    PROVE  RoundOf(k) = Agg!RoundOf(k)
<1>1. SlotsTyped(slots) /\ KeyAgrees(slots, k) /\ Home(k) \in Agg!Index
  BY HomeType DEF SlotsAgree
<1>2. \A i \in Agg!InUse : slots[i].key = k => i = Home(k)
  BY <1>1 DEF SlotsTyped, Agg!InUse
<1>3. CASE slot_map[k] = NULL
  <2>1. ~Holds(slots, k)
    BY <1>1, <1>3 DEF KeyAgrees
  <2>2. ~\E i \in Agg!InUse : slots[i].key = k
    BY <1>2, <2>1 DEF Holds, Agg!InUse
  <2>3. Agg!RoundOf(k) = [open |-> FALSE]
    BY <2>2 DEF Agg!RoundOf
  <2>4. RoundOf(k) = [open |-> FALSE]
    BY <1>3 DEF RoundOf, Open
  <2>5. QED BY <2>3, <2>4
<1>4. CASE slot_map[k] # NULL
  <2>1. PICK h, u, s : h = Home(k) /\ u = slots[h] /\ s = SlotOf(k)
    OBVIOUS
  <2>2. h \in Agg!InUse /\ slots[h].key = k /\ SlotAgrees(k, s, u)
    BY <1>1, <1>4, <2>1 DEF KeyAgrees, Holds, Agg!InUse
  <2>3. (CHOOSE i \in Agg!InUse : slots[i].key = k) = h
    BY <1>2, <2>1, <2>2
  <2>4. Agg!RoundOf(k) = [open |-> TRUE, chunk_len |-> u.chunk_len,
                          expected |-> u.num_workers_expected, members |-> u.seen_worker]
    BY <2>1, <2>2, <2>3 DEF Agg!RoundOf
  <2>5. Open(k)
    <3>1. SoloSlot(c, k) /\ ~Closes(c, k) /\ ~Opening(c)
      BY <1>4 DEF Solo, SoloSlots, Closes, Closing, Opening, Making
    <3>2. /\ s.contributions_received < s.num_workers_expected /\ s.contributions_received # 0
          /\ s.contributions_received = Cardinality(s.seen_worker) /\ SlotSized(s)
      BY <2>1, <3>1 DEF SoloSlot, Tally
    <3>3. slot_map[k] \in Elems
      BY <1>4 DEF TypeInv, MapsTyped
    <3>4. s \in GradSlot
      BY <2>1, <3>3 DEF TypeInv, MapsTyped, SlotOf
    <3>5. s.contributions_received \in Nat /\ s.num_workers_expected \in Nat
      BY <3>4 DEF GradSlot
    <3>6. s.contributions_received \in 1 .. s.num_workers_expected - 1
      BY <3>2, <3>5
    <3>7. QED BY <1>4, <2>1, <3>6 DEF Open
  <2>6. RoundOf(k) = [open |-> TRUE, chunk_len |-> s.chunk_len,
                      expected |-> s.num_workers_expected, members |-> s.seen_worker]
    BY <2>1, <2>5 DEF RoundOf
  <2>7. QED BY <2>2, <2>4, <2>6 DEF SlotAgrees
<1>5. QED BY <1>3, <1>4

\* On one CPU, with one configuration for both and no two keys in each other's way
\* in the hash table of agg.c, the two programs have the same rounds open after any
\* sequence of datagrams, with the same members and the same expectations, track
\* the same jobs and charge each the same number of slots (agg.c:2-8,
\* xdp_agg.c:1-20), whatever is lost, duplicated, malformed or refused at the
\* quota or a full table, as long as no open round took a frame with a
\* num_workers out of range (parse_shared.h:150-176).
THEOREM SameRoundsHolds ==
    ASSUME Cardinality(CPUs) = 1, Configs = {FixedQuota}, NoDetour
    PROVE  ParitySpec => []SameRounds
<1>c. PICK c \in CPUs : CPUs = {c}
  BY OneCPU
<1>1. TypeInv /\ Solo(c) /\ Coupled(c) => SameRounds
  <2>1. SUFFICES ASSUME TypeInv, Solo(c), Coupled(c), BothAtRest, ~asymmetric
                 PROVE  /\ \A k \in Keys : RoundOf(k) = Agg!RoundOf(k)
                        /\ \A j \in Jobs : CountOf(j) = jobs[j].concurrent_slots
                        /\ Tracked = {j \in Jobs : jobs[j].in_use}
    BY DEF SameRounds
  <2>2. Agree(slots, jobs, out) /\ pc[c] = "idle"
    BY <1>c, <2>1, AgreeAtRest
  <2>3. \A k \in Keys : RoundOf(k) = Agg!RoundOf(k)
    BY <2>1, <2>2, RoundsAlike DEF Agree
  <2>4. \A j \in Jobs : CountOf(j) = jobs[j].concurrent_slots /\ (j \in Tracked <=> jobs[j].in_use)
    BY <2>2 DEF Agree, JobsAgree, JobAgrees
  <2>5. Tracked \subseteq Jobs
    BY <2>1 DEF TypeInv, MapsTyped
  <2>6. QED BY <2>3, <2>4, <2>5
<1>2. ParitySpec => [](TypeInv /\ Solo(c) /\ Coupled(c))
  BY <1>c, CoupledAlways
<1>3. QED BY <1>1, <1>2, PTL

\* ... and have sent on the same sums of the same workers, in the same order
\* (agg.c:522-543; xdp_agg.c:517-546, 600).
THEOREM SameSumsHolds ==
    ASSUME Cardinality(CPUs) = 1, Configs = {FixedQuota}, NoDetour
    PROVE  ParitySpec => []SameSums
<1>c. PICK c \in CPUs : CPUs = {c}
  BY OneCPU
<1>1. TypeInv /\ Solo(c) /\ Coupled(c) => SameSums
  <2>1. SUFFICES ASSUME Coupled(c), BothAtRest, ~asymmetric
                 PROVE  /\ Len(emitted) = Len(out)
                        /\ \A i \in DOMAIN out :
                              /\ SumOf(emitted[i]) = Agg!SumOf(out[i])
                              /\ \A w \in Workers :
                                    emitted[i].sum[<<out[i].key, w>>] = out[i].sum[w]
    BY DEF SameSums
  <2>2. SentAgrees(out)
    BY <1>c, <2>1, AgreeAtRest DEF Agree
  <2>3. ASSUME NEW i \in DOMAIN out
        PROVE  /\ SumOf(emitted[i]) = Agg!SumOf(out[i])
               /\ \A w \in Workers : emitted[i].sum[<<out[i].key, w>>] = out[i].sum[w]
    <3>1. PICK e, o : e = emitted[i] /\ o = out[i]
      OBVIOUS
    <3>2. /\ e.key = o.key /\ e.chunk_len = o.chunk_len
          /\ \A w \in Workers : e.sum[<<o.key, w>>] = o.sum[w]
      BY <2>2, <3>1 DEF SentAgrees, SumsAgree
    <3>3. {w \in Workers : e.sum[<<e.key, w>>] > 0} = {w \in Workers : o.sum[w] > 0}
      BY <3>2
    <3>4. SumOf(e) = Agg!SumOf(o)
      BY <3>2, <3>3, AggNames DEF SumOf, Agg!SumOf
    <3>5. QED BY <3>1, <3>2, <3>4
  <2>4. QED BY <2>2, <2>3 DEF SentAgrees
<1>2. ParitySpec => [](TypeInv /\ Solo(c) /\ Coupled(c))
  BY <1>c, CoupledAlways
<1>3. QED BY <1>1, <1>2, PTL
=============================================================================
