-------------------------------- MODULE XdpAgg --------------------------------
(***************************************************************************)
(* The in-kernel aggregator, src/xdp_agg/xdp_agg.c: the XDP program runs   *)
(* to its end once per received frame, on every CPU at the same time; the  *)
(* instances share four BPF hash maps and synchronise through map updates, *)
(* atomic adds and the spin lock in each slot.  One step here is the code  *)
(* from one access to shared memory to the next.                           *)
(*                                                                         *)
(* slot_map is a preallocated BPF hash map: a deleted element goes back to *)
(* the free list at once and may be handed to the next update, for         *)
(* whatever key, while another CPU still holds a pointer to it.            *)
(*                                                                         *)
(* Data abstraction as in UserAgg: (round, chunk_id) is a member of Parts; *)
(* a sum is kept as how often each worker's values for each key are in it. *)
(* Addresses and checksums of the frame sent on are left out.              *)
(***************************************************************************)
EXTENDS Integers, Sequences, FiniteSets

CONSTANTS
    CPUs,
    Jobs,                     \* job_id values in the traffic
    Parts,                    \* (round, chunk_id) pairs in the traffic
    SLOT_MAP_ENTRIES,         \* max_entries of slot_map (65536)
    JOB_QUOTA_ENTRIES,        \* max_entries of job_quota_map (256)
    MAX_TRACKED_WORKERS,      \* MAX_TRACKED_WORKERS_BITMAP_BYTES * 8
    NETSUM_MAX_CHUNK_LEN,
    UINT32,                   \* 2^32: concurrent_slots wraps here
    Configs,                  \* what config_map[0] holds in the run: NoConfig
                              \* or the max_slots_per_job the loader wrote
    Traffics                  \* what is sent in the run: one of these sets of
                              \* frames, copies counted apart

Keys    == [job_id : Jobs, part : Parts]
Workers == 0 .. MAX_TRACKED_WORKERS - 1
Elems   == 1 .. SLOT_MAP_ENTRIES
NULL    == 0
NoConfig == -1
Frames  == UNION Traffics

(***************************************************************************)
(* A frame on the wire.  n is the number of whole int32 lanes behind the   *)
(* gradient header, -1 for a frame that is not a whole gradient header on  *)
(* UDP port NETSUM_PORT.  copy tells a retransmission from the original.   *)
(***************************************************************************)
Frame == [n : Int, key : Keys, worker_id : Nat, num_workers : Nat, chunk_len : Nat,
          copy : Nat]

ASSUME MapAssumption ==
    /\ SLOT_MAP_ENTRIES \in Nat \ {0}
    /\ JOB_QUOTA_ENTRIES \in Nat \ {0}
    /\ MAX_TRACKED_WORKERS \in Nat \ {0}
    /\ NETSUM_MAX_CHUNK_LEN \in Nat
    /\ UINT32 \in Nat \ {0}
\* A count does not wrap: there are fewer slots and CPUs than uint32_t values.
ASSUME WidthAssumption == SLOT_MAP_ENTRIES + Cardinality(CPUs) < UINT32
ASSUME RunAssumption ==
    /\ IsFiniteSet(CPUs) /\ CPUs # {}
    /\ IsFiniteSet(Jobs)
    /\ Configs \subseteq Nat \cup {NoConfig} /\ Configs # {}
    /\ Frames \subseteq Frame

VARIABLES
    slot_map,      \* the element of each key, or NULL
    elem,          \* the value in each preallocated element
    config_map,    \* NoConfig, or max_slots_per_job
    job_quota_map, \* concurrent_slots of each job that has an entry
    drop_stats,    \* the counters that have an entry
    wire,          \* frames no CPU has received
    emitted,       \* frames sent with XDP_TX, in order
    pc,            \* where each CPU is in netsum_xdp_aggregate()
    frame,         \* ... the frame it is working on
    slot,          \* ... its slot pointer
    max_slots,     \* ... its max_slots_per_job
    final,         \* ... the completed sum, written into its frame
    drops,         \* history: the frames dropped, with the counter bumped for it
    closed         \* history: keys whose round was completed

shared == <<slot_map, elem, config_map, job_quota_map, drop_stats, wire, emitted>>
vars == <<slot_map, elem, config_map, job_quota_map, drop_stats, wire, emitted, pc,
          frame, slot, max_slots, final, drops, closed>>
history == <<drops, closed>>

STAT_DROPPED_NO_CONFIG      == 0
STAT_DROPPED_FAIRNESS_QUOTA == 1
Stats == {STAT_DROPPED_NO_CONFIG, STAT_DROPPED_FAIRNESS_QUOTA}

NoFrame == [n |-> -1]
NoFinal == [sent |-> FALSE]
Tags    == Keys \X Workers
GradSlot == [chunk_len : Nat, num_workers_expected : Nat, contributions_received : Nat,
             seen_worker : SUBSET Workers, sum : [Tags -> Nat]]
Fresh(len, n) == [chunk_len |-> len, num_workers_expected |-> n,
                  contributions_received |-> 0, seen_worker |-> {},
                  sum |-> [t \in Tags |-> 0]]
\* num_workers here is what the slot expected, not the 1 on the wire.
Emission == [sent : {TRUE}, key : Keys, chunk_len : Nat, num_workers : Nat,
             sum : [Tags -> Nat]]

Init ==
    /\ slot_map = [k \in Keys |-> NULL]
    /\ elem = [e \in Elems |-> Fresh(0, 0)]
    /\ config_map \in Configs
    /\ job_quota_map = [j \in {} |-> 0]
    /\ drop_stats = [s \in {} |-> 0]
    /\ wire \in Traffics
    /\ emitted = <<>>
    /\ pc = [c \in CPUs |-> "idle"]
    /\ frame = [c \in CPUs |-> NoFrame]
    /\ slot = [c \in CPUs |-> NULL]
    /\ max_slots = [c \in CPUs |-> 0]
    /\ final = [c \in CPUs |-> NoFinal]
    /\ drops = {}
    /\ closed = {}

-----------------------------------------------------------------------------
\* The program of CPU c goes on at a label, or returns and its locals are gone.
Goto(c, label) == pc' = [pc EXCEPT ![c] = label]
Return(c) ==
    /\ Goto(c, "idle")
    /\ frame' = [frame EXCEPT ![c] = NoFrame]
    /\ slot' = [slot EXCEPT ![c] = NULL]
    /\ max_slots' = [max_slots EXCEPT ![c] = 0]
    /\ final' = [final EXCEPT ![c] = NoFinal]

locals == <<frame, slot, max_slots, final>>
KeyOf(c) == frame[c].key
JobOf(c) == frame[c].key.job_id
Tracked  == DOMAIN job_quota_map

\* A map entry gets the value v, new or not.
Put(f, x, v) == [y \in DOMAIN f \cup {x} |-> IF y = x THEN v ELSE f[y]]

-----------------------------------------------------------------------------
(***************************************************************************)
(* From the frame to a slot.                                               *)
(***************************************************************************)
\* Mutant: worker_id is not compared with the width of the bitmap.
WellFormedAnyWorker(f) ==
    f.n >= 0 /\ f.chunk_len <= NETSUM_MAX_CHUNK_LEN /\ f.n >= f.chunk_len

\* The parse: a frame that is not gradient traffic is passed to the stack, a
\* malformed one dropped; neither touches anything.
WellFormed(f) ==
    /\ f.n >= 0
    /\ f.chunk_len <= NETSUM_MAX_CHUNK_LEN
    /\ f.n >= f.chunk_len
    /\ f.worker_id < MAX_TRACKED_WORKERS

\* num_workers is looked at only when there is no slot yet.
MayCreate(f) == f.num_workers \in 1 .. MAX_TRACKED_WORKERS

Receive(c, f) == pc[c] = "idle" /\ f \in wire /\ wire' = wire \ {f}

RxIgnored(c) ==
    \E f \in wire :
        /\ Receive(c, f)
        /\ WellFormed(f) => slot_map[f.key] = NULL /\ ~MayCreate(f)
        /\ UNCHANGED <<slot_map, elem, config_map, job_quota_map, drop_stats, emitted,
                       pc, locals, history>>

RxHit(c) ==
    \E f \in wire :
        /\ Receive(c, f) /\ WellFormed(f)
        /\ slot_map[f.key] # NULL
        /\ frame' = [frame EXCEPT ![c] = f]
        /\ slot' = [slot EXCEPT ![c] = slot_map[f.key]]
        /\ Goto(c, "lock")
        /\ UNCHANGED <<slot_map, elem, config_map, job_quota_map, drop_stats, emitted,
                       max_slots, final, history>>

RxMiss(c) ==
    \E f \in wire :
        /\ Receive(c, f) /\ WellFormed(f)
        /\ slot_map[f.key] = NULL /\ MayCreate(f)
        /\ frame' = [frame EXCEPT ![c] = f]
        /\ Goto(c, "precheck")
        /\ UNCHANGED <<slot_map, elem, config_map, job_quota_map, drop_stats, emitted,
                       slot, max_slots, final, history>>

\* precheck_cfg: without a configuration the quota is unlimited.
Precheck(c) ==
    LET limit == IF config_map = NoConfig THEN 0 ELSE config_map IN
    /\ pc[c] = "precheck"
    /\ max_slots' = [max_slots EXCEPT ![c] = limit]
    /\ Goto(c, IF limit > 0 THEN "quota" ELSE "create")
    /\ UNCHANGED <<shared, frame, slot, final, history>>

\* Mutant: the test is off by one.
AtQuotaOffByOne(j, limit) == j \in Tracked /\ job_quota_map[j] > limit
AtQuota(j, limit) == j \in Tracked /\ job_quota_map[j] >= limit

QuotaAdmits(c) ==
    /\ pc[c] = "quota" /\ ~AtQuota(JobOf(c), max_slots[c])
    /\ Goto(c, "create")
    /\ UNCHANGED <<shared, locals, history>>

QuotaRejects(c) ==
    /\ pc[c] = "quota" /\ AtQuota(JobOf(c), max_slots[c])
    /\ drops' = drops \cup {<<STAT_DROPPED_FAIRNESS_QUOTA, frame[c]>>}
    /\ Goto(c, "stat")
    /\ UNCHANGED <<shared, locals, closed>>

FreeElems == Elems \ {slot_map[k] : k \in Keys}

\* bpf_map_update_elem(&slot_map, BPF_NOEXIST), and create_rc.
CreateWins(c) ==
    /\ pc[c] = "create" /\ slot_map[KeyOf(c)] = NULL
    /\ \E e \in FreeElems :
          /\ slot_map' = [slot_map EXCEPT ![KeyOf(c)] = e]
          /\ elem' = [elem EXCEPT ![e] = Fresh(frame[c].chunk_len, frame[c].num_workers)]
    /\ Goto(c, "won")
    /\ UNCHANGED <<config_map, job_quota_map, drop_stats, wire, emitted, locals, history>>

CreateLoses(c) ==
    /\ pc[c] = "create" /\ (slot_map[KeyOf(c)] # NULL \/ FreeElems = {})
    /\ Goto(c, "lost")
    /\ UNCHANGED <<shared, locals, history>>

\* The second lookup: NULL is a full map, or a slot closed in between.
Relookup(c) ==
    /\ pc[c] \in {"won", "lost"}
    /\ slot_map[KeyOf(c)] # NULL
    /\ slot' = [slot EXCEPT ![c] = slot_map[KeyOf(c)]]
    /\ Goto(c, IF pc[c] = "won" THEN "increment" ELSE "lock")
    /\ UNCHANGED <<shared, frame, max_slots, final, history>>

RelookupFails(c) ==
    /\ pc[c] \in {"won", "lost"}
    /\ slot_map[KeyOf(c)] = NULL
    /\ Return(c)
    /\ UNCHANGED <<shared, history>>

-----------------------------------------------------------------------------
(***************************************************************************)
(* job_quota_increment().  An entry is never removed from job_quota_map,   *)
(* so a lookup that found one and the atomic add that follows are one step.*)
(***************************************************************************)
\* Mutant: the fresh entry does not count the slot it was made for.
FreshCountZero == 0
FreshCount == 1

AddOne(j) == job_quota_map' = Put(job_quota_map, j, (job_quota_map[j] + 1) % UINT32)

Increment(c) ==
    /\ pc[c] = "increment"
    /\ IF JobOf(c) \in Tracked
       THEN AddOne(JobOf(c)) /\ Goto(c, "lock")
       ELSE Goto(c, "newjob") /\ UNCHANGED job_quota_map
    /\ UNCHANGED <<slot_map, elem, config_map, drop_stats, wire, emitted, locals, history>>

\* The NOEXIST update; when it fails, the second lookup and the add, if the
\* failure was a lost race and not a full map.
IncrementNew(c) ==
    /\ pc[c] = "newjob"
    /\ \/ JobOf(c) \in Tracked /\ AddOne(JobOf(c))
       \/ /\ JobOf(c) \notin Tracked /\ Cardinality(Tracked) < JOB_QUOTA_ENTRIES
          /\ job_quota_map' = Put(job_quota_map, JobOf(c), FreshCount)
       \/ /\ JobOf(c) \notin Tracked /\ Cardinality(Tracked) >= JOB_QUOTA_ENTRIES
          /\ UNCHANGED job_quota_map
    /\ Goto(c, "lock")
    /\ UNCHANGED <<slot_map, elem, config_map, drop_stats, wire, emitted, locals, history>>

-----------------------------------------------------------------------------
(***************************************************************************)
(* The section under slot->lock, one step: whatever the pointer leads to   *)
(* by now.                                                                 *)
(***************************************************************************)
\* Mutant: the dedup bitmap is not consulted.
NeverSeen(s, w) == FALSE
Seen(s, w) == w \in s.seen_worker

\* The lanes of one contribution are added.
Summed(sum, t) == [sum EXCEPT ![t] = @ + 1]

\* Mutant: the bounds test in the loop is off by one, and the lane is left out.
AccumulatedShort(s, f) ==
    [s EXCEPT !.seen_worker = @ \cup {f.worker_id}, !.contributions_received = @ + 1]

Accumulated(s, f) ==
    [s EXCEPT !.seen_worker = @ \cup {f.worker_id},
              !.sum = Summed(@, <<f.key, f.worker_id>>),
              !.contributions_received = @ + 1]

\* Mutants: the slot waits for one contribution less, or one more.
CompletesEarly(s) == s.contributions_received + 1 >= s.num_workers_expected
CompletesLate(s)  == s.contributions_received > s.num_workers_expected
Completes(s) == s.contributions_received = s.num_workers_expected

\* Dropped under the lock: the chunk_len disagrees, or a duplicate.
LockRejects(c) ==
    LET s == elem[slot[c]] IN
    /\ pc[c] = "lock"
    /\ s.chunk_len # frame[c].chunk_len \/ Seen(s, frame[c].worker_id)
    /\ Return(c)
    /\ UNCHANGED <<shared, history>>

\* The frame will be accumulated; s is the slot then.
Accumulates(c, s) ==
    /\ pc[c] = "lock"
    /\ elem[slot[c]].chunk_len = frame[c].chunk_len
    /\ ~Seen(elem[slot[c]], frame[c].worker_id)
    /\ s = Accumulated(elem[slot[c]], frame[c])
    /\ elem' = [elem EXCEPT ![slot[c]] = s]
    /\ UNCHANGED <<slot_map, config_map, job_quota_map, drop_stats, wire, emitted, drops>>

LockPartial(c) ==
    LET s == Accumulated(elem[slot[c]], frame[c]) IN
    /\ Accumulates(c, s) /\ ~Completes(s)
    /\ Return(c)
    /\ UNCHANGED closed

LockCompletes(c) ==
    LET s == Accumulated(elem[slot[c]], frame[c]) IN
    /\ Accumulates(c, s) /\ Completes(s)
    /\ final' = [final EXCEPT ![c] =
                    [sent |-> TRUE, key |-> KeyOf(c), chunk_len |-> s.chunk_len,
                     num_workers |-> s.num_workers_expected, sum |-> s.sum]]
    /\ closed' = closed \cup {KeyOf(c)}
    /\ Goto(c, "complete")
    /\ UNCHANGED <<frame, slot, max_slots>>

-----------------------------------------------------------------------------
(***************************************************************************)
(* Tearing the slot down, by key, and sending the sum on.                  *)
(***************************************************************************)
\* Without a configuration the sum is lost; everything else is the same.
LookupConfig(c) ==
    /\ pc[c] = "complete"
    /\ final' = IF config_map = NoConfig THEN [final EXCEPT ![c] = NoFinal] ELSE final
    /\ Goto(c, "delete")
    /\ UNCHANGED <<shared, frame, slot, max_slots, history>>

\* Mutant: without a configuration the job is not given its slot back.
DeleteUncharged(c) ==
    /\ pc[c] = "delete"
    /\ slot_map' = [slot_map EXCEPT ![KeyOf(c)] = NULL]
    /\ Goto(c, IF final[c] = NoFinal THEN "idle" ELSE "decrement")
    /\ UNCHANGED <<elem, config_map, job_quota_map, drop_stats, wire, emitted, locals,
                   history>>

Delete(c) ==
    /\ pc[c] = "delete"
    /\ slot_map' = [slot_map EXCEPT ![KeyOf(c)] = NULL]
    /\ Goto(c, "decrement")
    /\ UNCHANGED <<elem, config_map, job_quota_map, drop_stats, wire, emitted, locals,
                   history>>

\* After job_quota_decrement(): XDP_TX, or the no-config counter.
AfterDecrement(c) ==
    IF final[c] = NoFinal
    THEN /\ drops' = drops \cup {<<STAT_DROPPED_NO_CONFIG, frame[c]>>}
         /\ Goto(c, "stat")
    ELSE Goto(c, "tx") /\ UNCHANGED drops

\* job_quota_decrement() reads the count ...
DecrementTest(c) ==
    /\ pc[c] = "decrement"
    /\ IF JobOf(c) \in Tracked /\ job_quota_map[JobOf(c)] > 0
       THEN Goto(c, "subtract") /\ UNCHANGED drops
       ELSE AfterDecrement(c)
    /\ UNCHANGED <<shared, locals, closed>>

\* ... and subtracts one in a later, atomic, access.
Subtract(c) ==
    /\ pc[c] = "subtract"
    /\ job_quota_map' = Put(job_quota_map, JobOf(c), (job_quota_map[JobOf(c)] - 1) % UINT32)
    /\ AfterDecrement(c)
    /\ UNCHANGED <<slot_map, elem, config_map, drop_stats, wire, emitted, locals, closed>>

Transmit(c) ==
    /\ pc[c] = "tx"
    /\ emitted' = Append(emitted, final[c])
    /\ Return(c)
    /\ UNCHANGED <<slot_map, elem, config_map, job_quota_map, drop_stats, wire, history>>

-----------------------------------------------------------------------------
(***************************************************************************)
(* bump_stat(), for the reason the frame was dropped: only a rejected      *)
(* frame has no slot.  The entry is looked up in one access and created in *)
(* another; once there it is never removed.                                *)
(***************************************************************************)
StatOf(c) == IF slot[c] = NULL THEN STAT_DROPPED_FAIRNESS_QUOTA ELSE STAT_DROPPED_NO_CONFIG

\* Mutant: the entry is created with the value 0.
FirstCountZero == 0
FirstCount == 1

BumpStat(c) ==
    /\ pc[c] = "stat"
    /\ IF StatOf(c) \in DOMAIN drop_stats
       THEN /\ drop_stats' = Put(drop_stats, StatOf(c), drop_stats[StatOf(c)] + 1)
            /\ Return(c)
       ELSE Goto(c, "newstat") /\ UNCHANGED <<drop_stats, locals>>
    /\ UNCHANGED <<slot_map, elem, config_map, job_quota_map, wire, emitted, history>>

BumpNewStat(c) ==
    /\ pc[c] = "newstat"
    /\ drop_stats' = Put(drop_stats, StatOf(c), FirstCount)
    /\ Return(c)
    /\ UNCHANGED <<slot_map, elem, config_map, job_quota_map, wire, emitted, history>>

-----------------------------------------------------------------------------
\* netsum_cfg_loader writes config_map[0]; bpftool may delete it.
SetConfig ==
    /\ config_map' \in Configs \ {config_map}
    /\ UNCHANGED <<slot_map, elem, job_quota_map, drop_stats, wire, emitted, pc, locals,
                   history>>

Rx(c) == RxIgnored(c) \/ RxHit(c) \/ RxMiss(c)

Step(c) ==
    \/ Precheck(c) \/ QuotaAdmits(c) \/ QuotaRejects(c)
    \/ CreateWins(c) \/ CreateLoses(c) \/ Relookup(c) \/ RelookupFails(c)
    \/ Increment(c) \/ IncrementNew(c)
    \/ LockRejects(c) \/ LockPartial(c) \/ LockCompletes(c)
    \/ LookupConfig(c) \/ Delete(c) \/ DecrementTest(c) \/ Subtract(c) \/ Transmit(c)
    \/ BumpStat(c) \/ BumpNewStat(c)

Next == SetConfig \/ \E c \in CPUs : Rx(c) \/ Step(c)

Spec == Init /\ [][Next]_vars

\* An instance of the program that has begun runs to its end (BPF programs do
\* not block), and no frame is lost on its way to some CPU.
FairSpec ==
    /\ Spec
    /\ \A c \in CPUs : WF_vars(Step(c))
    /\ WF_vars(\E c \in CPUs : Rx(c))

-----------------------------------------------------------------------------
(***************************************************************************)
(* Properties.                                                             *)
(***************************************************************************)
SlotsOf(j)  == {k \in Keys : k.job_id = j /\ slot_map[k] # NULL}
At(j, labels) == {c \in CPUs : pc[c] \in labels /\ JobOf(c) = j}
\* CPUs whose slot is made and not counted, and closed and still counted.
Uncounted(j) == At(j, {"won", "increment", "newjob"})
Uncharged(j) == At(j, {"decrement", "subtract"})
CountOf(j)   == IF j \in Tracked THEN job_quota_map[j] ELSE 0
AtRest       == \A c \in CPUs : pc[c] = "idle"

Labels == {"idle", "precheck", "quota", "create", "won", "lost", "increment", "newjob",
           "lock", "complete", "delete", "decrement", "subtract", "tx", "stat", "newstat"}

\* Every variable has its type; a CPU in the program has a frame, and a slot
\* pointer from the lookup on.
TypeOK ==
    /\ slot_map \in [Keys -> Elems \cup {NULL}]
    /\ elem \in [Elems -> GradSlot]
    /\ config_map \in Configs
    /\ Tracked \subseteq Jobs /\ job_quota_map \in [Tracked -> 0 .. UINT32 - 1]
    /\ DOMAIN drop_stats \subseteq Stats /\ drop_stats \in [DOMAIN drop_stats -> Nat]
    /\ wire \subseteq Frames
    /\ emitted \in Seq(Emission)
    /\ pc \in [CPUs -> Labels]
    /\ frame \in [CPUs -> Frames \cup {NoFrame}]
    /\ slot \in [CPUs -> Elems \cup {NULL}]
    /\ max_slots \in [CPUs -> Nat]
    /\ final \in [CPUs -> Emission \cup {NoFinal}]
    /\ drops \subseteq Stats \X Frames
    /\ closed \subseteq Keys
    /\ \A c \in CPUs : pc[c] # "idle" => frame[c] \in Frames
    /\ \A c \in CPUs :
          pc[c] \in {"increment", "newjob", "lock", "complete", "delete", "decrement",
                     "subtract", "tx"} => slot[c] # NULL

\* The slot a CPU is about to lock is still the slot of its frame's key: no CPU
\* is left behind with a pointer to an element that was closed under it
\* (xdp_agg.c:199-204; the lookups at 396 and 454, the lock at 481, another
\* CPU's delete at 579).
PointersLive ==
    \A c \in CPUs :
        pc[c] \in {"increment", "newjob", "lock"} => slot[c] = slot_map[KeyOf(c)]

\* Every frame sent on sums num_workers distinct workers of its own key, each
\* exactly once, and nothing else (xdp_agg.c:199-204 "concurrent packets for
\* the same slot landing on different CPU cores ... accumulate correctly").
Exact(e) ==
    /\ \A t \in Tags : e.sum[t] \in (IF t[1] = e.key THEN {0, 1} ELSE {0})
    /\ Cardinality({w \in Workers : e.sum[<<e.key, w>>] = 1}) = e.num_workers
EmittedExact == \A n \in DOMAIN emitted : Exact(emitted[n])

(***************************************************************************)
(* Why the two above hold when every worker's frame arrives at most once:  *)
(* a CPU that has not accumulated its frame yet is a worker its slot still *)
(* waits for, so the slot cannot be complete and nobody can delete it.     *)
(***************************************************************************)
Good == {f \in Frames : WellFormed(f)}
OnceTraffic ==
    /\ \A f, g \in Good : f.key = g.key => f.num_workers = g.num_workers
    /\ \A f, g \in Good : f.key = g.key /\ f.worker_id = g.worker_id => f = g
    /\ \A f \in Good : f.worker_id < f.num_workers

\* A frame in hand and not accumulated; a completed slot not yet deleted; a sum
\* in hand.
Before  == {"precheck", "quota", "create", "won", "lost", "increment", "newjob", "lock"}
Closing == {"complete", "delete"}
After   == {"complete", "delete", "decrement", "subtract", "tx"}
SlotOf(k) == elem[slot_map[k]]

MapInjective ==
    \A k, m \in Keys : slot_map[k] = slot_map[m] /\ slot_map[k] # NULL => k = m

HeldApart ==
    /\ \A c \in CPUs : pc[c] # "idle" => frame[c] \in Good \ wire
    /\ \A c, d \in CPUs :
          pc[c] \in Before /\ pc[d] \in Before /\ frame[c] = frame[d] => c = d

\* A slot has summed the workers it has seen, once, and their frames are gone.
SlotTallied(k, s) ==
    /\ s.seen_worker \subseteq 0 .. s.num_workers_expected - 1
    /\ s.contributions_received = Cardinality(s.seen_worker)
    /\ \A t \in Tags : s.sum[t] = IF t[1] = k /\ t[2] \in s.seen_worker THEN 1 ELSE 0
    /\ \A f \in Good : f.key = k =>
          /\ f.num_workers = s.num_workers_expected
          /\ f.worker_id \in s.seen_worker => f \notin wire
SlotsTallied == \A k \in Keys : slot_map[k] # NULL => SlotTallied(k, SlotOf(k))

StillAwaited ==
    \A c \in CPUs :
        /\ pc[c] \in Before /\ slot_map[KeyOf(c)] # NULL =>
              frame[c].worker_id \notin SlotOf(KeyOf(c)).seen_worker
        /\ pc[c] = "won" => slot_map[KeyOf(c)] # NULL

ClosedByOne ==
    /\ \A c \in CPUs : pc[c] \in Closing =>
          /\ slot_map[KeyOf(c)] # NULL
          /\ Completes(SlotOf(KeyOf(c)))
    /\ \A c, d \in CPUs :
          pc[c] \in Closing /\ pc[d] \in Closing /\ KeyOf(c) = KeyOf(d) => c = d

FinalExact ==
    \A c \in CPUs : pc[c] \in After =>
        /\ final[c] # NoFinal => Exact(final[c])
        /\ pc[c] \in {"complete", "tx"} => final[c] # NoFinal

\* The inductive invariant (xdp_agg.c:396-579, for traffic without duplicates).
OnceInv ==
    OnceTraffic =>
        /\ PointersLive /\ EmittedExact
        /\ MapInjective /\ HeldApart /\ SlotsTallied /\ StillAwaited /\ ClosedByOne
        /\ FinalExact

\* A job's count is the slots it has in slot_map, but for the CPUs that are on
\* their way between the map and the count (xdp_agg.c:456-462, 579-580): no
\* order of two CPUs' steps counts a slot twice, forgets one or goes below 0,
\* when no worker's frame comes twice, or on one CPU whatever comes.
\* A job that finds job_quota_map full is never counted.
Countable(j) == j \in Tracked \/ Cardinality(Tracked) < JOB_QUOTA_ENTRIES
QuotaAccounting ==
    \A j \in Jobs : Countable(j) =>
        CountOf(j) + Cardinality(Uncounted(j)) =
            Cardinality(SlotsOf(j)) + Cardinality(Uncharged(j))

\* The admission test and the count it tests are apart, so CPUs that passed the
\* test together overshoot the quota that ci/netsum_cfg_loader.c:47-51 says is
\* a cap; but by one slot less than there are CPUs, however long they are apart
\* (xdp_agg.c:433-462), as long as the configuration stays and jobs are counted.
QuotaOvershoot ==
    (Configs = {config_map} /\ config_map > 0) =>
        \A j \in Jobs : Countable(j) =>
            Cardinality(SlotsOf(j)) <= config_map + Cardinality(CPUs) - 1

\* When nothing is running, a counted job's count is the slots it holds
\* (xdp_agg.c:456-461 "exactly once per real slot creation").
CountedAtRest ==
    AtRest => \A j \in Tracked : CountOf(j) = Cardinality(SlotsOf(j))

\* A drop counter never says more than was dropped, and when nothing is running
\* it says something if anything was dropped (xdp_agg.c:273-279 "a completed
\* aggregation dropped ... used to vanish with no counter"); two CPUs that make
\* the entry at the same time may lose a drop, so it may say less.
DropsFor(s) == {d \in drops : d[1] = s}
StatsSound ==
    \A s \in Stats :
        /\ s \in DOMAIN drop_stats => drop_stats[s] \in 1 .. Cardinality(DropsFor(s))
        /\ AtRest /\ DropsFor(s) # {} => s \in DOMAIN drop_stats

\* The quota turns away new slots only: a frame whose round has a slot is not
\* refused (xdp_agg.c:419-421 "An existing slot this job already holds is never
\* affected by its own quota; only a NEW one can be rejected").
OpenRoundNotRefused ==
    [][\A c \in CPUs : QuotaRejects(c) => slot_map[KeyOf(c)] = NULL]_vars

\* A retransmission does not open a completed round again: the dedup bitmap
\* absorbs it (xdp_agg.c:548-550, 555-564; .github/workflows/
\* xdp-loadtest.yml:334-336).
DuplicateAbsorbed == [][\A c \in CPUs : CreateWins(c) => KeyOf(c) \notin closed]_vars

\* A round whose workers' frames all arrive is sent on, whatever order and
\* whichever CPUs they arrive at, unless one of them was dropped for a reason
\* that is counted (xdp_agg.c:273-288; .github/workflows/xdp-loadtest.yml:
\* 351-372): no order of two CPUs' steps loses a round silently.
FramesOf(k) == {f \in wire : WellFormed(f) /\ f.key = k}
RoundDelivered ==
    \A k \in Keys :
        (\E f \in FramesOf(k) : Cardinality(FramesOf(k)) = f.num_workers) =>
            <>(\/ \E n \in DOMAIN emitted : emitted[n].key = k
               \/ \E d \in drops : d[2].key = k)
=============================================================================
