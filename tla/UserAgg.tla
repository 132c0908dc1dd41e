------------------------------- MODULE UserAgg -------------------------------
(***************************************************************************)
(* The userspace aggregator, src/userspace_agg/agg.c: one thread that      *)
(* receives gradient datagrams, sums them per (job_id, round, chunk_id)    *)
(* slot in a fixed open-addressing table, applies a per-job admission      *)
(* quota, emits one summed datagram when a slot is complete, and evicts    *)
(* slots that stay silent for slot_ttl.  A SIGUSR1 handler and the socket  *)
(* buffer run concurrently with that thread.                               *)
(*                                                                         *)
(* Data abstraction.  The (round, chunk_id) pair is one member of Parts.   *)
(* Lane values are linear in the contributions, so a slot's sum is kept as *)
(* the number of times each worker's values were added to it; the integer  *)
(* width of a lane is the subject of another module.  A time stamp is      *)
(* kept as its age, saturated at the bound it is compared with, so time    *)
(* itself is unbounded.  Ages are differences of gettimeofday() readings:  *)
(* a clock set forward is several ticks at once, a clock set back makes    *)
(* them less again, and negative.  Log lines are left out.                 *)
(***************************************************************************)
EXTENDS Integers, Sequences, FiniteSets

CONSTANTS
    Jobs,                   \* job_id values in the traffic
    Parts,                  \* (round, chunk_id) pairs in the traffic
    SlotHash,               \* slot_key(): a hash for every key
    SLOT_TABLE_CAPACITY,
    JOB_TABLE_CAPACITY,
    MAX_TRACKED_WORKERS,
    NETSUM_MAX_CHUNK_LEN,
    max_packets,            \* argv: 0 = run forever
    g_job_quota,            \* argv: 0 = unlimited
    slot_ttl,               \* argv: 0 = no reaper; in ticks (1 tick = 1 ms)
    MaxBack,                \* bound: how far the clock falls behind a time stamp
    Datagrams,              \* what the network can put in the socket buffer
    RCVBUF                  \* datagrams the socket buffer holds

Keys    == [job_id : Jobs, part : Parts]
Workers == 0 .. MAX_TRACKED_WORKERS - 1
Index   == 0 .. SLOT_TABLE_CAPACITY - 1

(***************************************************************************)
(* A received datagram.  n is the number of whole int32 lanes that arrived *)
(* behind the header, -1 for a datagram shorter than the header.           *)
(***************************************************************************)
Datagram == [n : Int, key : Keys, worker_id : Nat, num_workers : Nat, chunk_len : Nat]

ASSUME CapacityAssumption ==
    /\ SLOT_TABLE_CAPACITY \in Nat \ {0}
    /\ JOB_TABLE_CAPACITY \in Nat \ {0}
    /\ MAX_TRACKED_WORKERS \in Nat \ {0}
    /\ NETSUM_MAX_CHUNK_LEN \in Nat
ASSUME ArgumentAssumption ==
    max_packets \in Nat /\ g_job_quota \in Nat /\ slot_ttl \in Nat /\ MaxBack \in Nat
ASSUME TrafficAssumption ==
    /\ IsFiniteSet(Jobs)
    /\ SlotHash \in [Keys -> Nat]
    /\ Datagrams \subseteq Datagram
    /\ RCVBUF \in Nat

VARIABLES
    slots,        \* g_slots
    jobs,         \* g_jobs, as the entry of each job_id
    queue,        \* in_sock's receive buffer
    out,          \* datagrams handed to out_sock, in order
    pc,           \* where the main loop is
    g_dump_stats_requested,
    packets_in,
    since_reap    \* now - last_reap_micros

vars == <<slots, jobs, queue, out, pc, g_dump_stats_requested, packets_in, since_reap>>

FreeSlot == [in_use |-> FALSE]
UsedSlot == [in_use : {TRUE}, key : Keys, num_workers_expected : Nat,
             contributions_received : Nat, sum : [Workers -> Nat], chunk_len : Nat,
             seen_worker : SUBSET Workers, age : Int]
JobEntry == [in_use : BOOLEAN, concurrent_slots : Nat, admitted_count : Nat,
             rejected_count : Nat]
NoEntry  == [in_use |-> FALSE, concurrent_slots |-> 0, admitted_count |-> 0,
             rejected_count |-> 0]
\* num_workers here is what the slot had latched, not the 1 on the wire.
Emission == [key : Keys, chunk_len : Nat, sum : [Workers -> Nat], num_workers : Nat]

\* A sweep is due every quarter of the TTL, at least 1 ms.
reap_interval == IF slot_ttl \div 4 < 1 THEN 1 ELSE slot_ttl \div 4

Init ==
    /\ slots = [i \in Index |-> FreeSlot]
    /\ jobs = [j \in Jobs |-> NoEntry]
    /\ queue = <<>>
    /\ out = <<>>
    /\ pc = "top"
    /\ g_dump_stats_requested = FALSE
    /\ packets_in = 0
    /\ since_reap = 0

-----------------------------------------------------------------------------
(***************************************************************************)
(* The two tables.  g_jobs entries are never given back, so probing it is  *)
(* exactly a lookup by job_id that fails when every entry is taken; it is  *)
(* modelled as that.  g_slots entries are given back, so its probe         *)
(* sequence is kept.                                                       *)
(***************************************************************************)
TrackedJobs == {j \in Jobs : jobs[j].in_use}
InUse       == {i \in Index : slots[i].in_use}
Owned(j)    == {i \in InUse : slots[i].key.job_id = j}

JobTableFull == Cardinality(TrackedJobs) >= JOB_TABLE_CAPACITY

\* find_or_create_job() returns an entry, and not NULL.
JobFound(j) == jobs[j].in_use \/ ~JobTableFull

\* Mutants of AtQuota: the test is off by one; there is no admission policy.
AtQuotaOffByOne(j) == /\ JobFound(j)
                      /\ g_job_quota > 0
                      /\ jobs[j].concurrent_slots > g_job_quota
AtQuotaNever(j) == FALSE

AtQuota(j) == /\ JobFound(j)
              /\ g_job_quota > 0
              /\ jobs[j].concurrent_slots >= g_job_quota

\* The index slot_key() and `probe` lead to.
ProbeIndex(k, probe) == (SlotHash[k] + probe) % SLOT_TABLE_CAPACITY

\* The probes at which find_or_create_slot() leaves its loop.
StopsAt(k, i) == slots[i].in_use => slots[i].key = k
Stops(k) == {probe \in 0 .. SLOT_TABLE_CAPACITY - 1 : StopsAt(k, ProbeIndex(k, probe))}

\* Mutant: a later probe that could stop is taken, not the first.
FoundLast(k) == ProbeIndex(k, CHOOSE p \in Stops(k) : \A q \in Stops(k) : p >= q)

Found(k) == ProbeIndex(k, CHOOSE p \in Stops(k) : \A q \in Stops(k) : p <= q)

\* find_or_create_slot() returns NULL: no probe stops, or a new slot is
\* refused by the job's quota.
RefusedByQuota(k) == Stops(k) # {} /\ ~slots[Found(k)].in_use /\ AtQuota(k.job_id)
Refused(k) == Stops(k) = {} \/ RefusedByQuota(k)

\* The slot find_or_create_slot() returns for d, after main() has latched a
\* first contribution's chunk_len and num_workers.
SlotFor(d) ==
    LET s == slots[Found(d.key)]
    IN  IF s.in_use THEN s
        ELSE [in_use |-> TRUE, key |-> d.key, num_workers_expected |-> d.num_workers,
              contributions_received |-> 0, sum |-> [w \in Workers |-> 0],
              chunk_len |-> d.chunk_len, seen_worker |-> {}, age |-> 0]

\* Mutant: every accepted lookup is charged, not only the creating one.
JobsAfterAnyLookup(k) ==
    IF ~JobFound(k.job_id) THEN jobs
    ELSE [jobs EXCEPT ![k.job_id].in_use = TRUE,
                      ![k.job_id].concurrent_slots = @ + 1,
                      ![k.job_id].admitted_count = @ + 1]

\* g_jobs after find_or_create_slot() returned that slot.
JobsAfterLookup(k) ==
    IF slots[Found(k)].in_use \/ ~JobFound(k.job_id) THEN jobs
    ELSE [jobs EXCEPT ![k.job_id].in_use = TRUE,
                      ![k.job_id].concurrent_slots = @ + 1,
                      ![k.job_id].admitted_count = @ + 1]

\* g_jobs after find_or_create_slot() refused a new slot at the quota.
JobsAfterRefusal(k) ==
    IF RefusedByQuota(k) THEN [jobs EXCEPT ![k.job_id].in_use = TRUE,
                                           ![k.job_id].rejected_count = @ + 1]
    ELSE jobs

\* Mutant: the count is decremented without looking.
LessUnchecked(count, n) == count - n

\* free_slot() never takes a count below zero.
Less(count, n) == IF count >= n THEN count - n ELSE 0

\* Mutant: slots are marked free without free_slot().
JobsUncharged(E) == jobs

\* g_jobs after free_slot() of the slots in E.  free_slot() looks the job up
\* again; its entry is there whenever the slot was counted (SlotJobTracked),
\* and an uncounted job has nothing to decrement.
JobsAfterFree(E) ==
    [j \in Jobs |-> [jobs[j] EXCEPT !.concurrent_slots =
                                        Less(@, Cardinality(E \cap Owned(j)))]]

-----------------------------------------------------------------------------
(***************************************************************************)
(* The environment: the network, the clock and whoever sends SIGUSR1.      *)
(***************************************************************************)
\* A datagram reaches the socket; when the buffer is full the kernel drops it.
Arrive ==
    /\ Len(queue) < RCVBUF
    /\ \E d \in Datagrams : queue' = Append(queue, d)
    /\ UNCHANGED <<slots, jobs, out, pc, g_dump_stats_requested, packets_in, since_reap>>

SweepDue == slot_ttl > 0 /\ since_reap >= reap_interval
Expired  == {i \in InUse : slots[i].age >= slot_ttl}

Older(age, bound) == IF age < bound THEN age + 1 ELSE age

\* One tick of the clock, for every time stamp the program compares with now.
Tick ==
    /\ slot_ttl > 0
    /\ slots' = [i \in Index |->
                    IF slots[i].in_use THEN [slots[i] EXCEPT !.age = Older(@, slot_ttl)]
                    ELSE slots[i]]
    /\ since_reap' = Older(since_reap, reap_interval)
    /\ UNCHANGED <<jobs, queue, out, pc, g_dump_stats_requested, packets_in>>

\* The clock is set back by one tick.  What is past its bound may stay past it.
ClockBack ==
    /\ slot_ttl > 0
    /\ since_reap > -MaxBack /\ \A i \in InUse : slots[i].age > -MaxBack
    /\ \E past \in SUBSET Expired :
          slots' = [i \in Index |->
                       IF i \in InUse \ past THEN [slots[i] EXCEPT !.age = @ - 1]
                       ELSE slots[i]]
    /\ since_reap' \in {since_reap - 1} \cup (IF SweepDue THEN {since_reap} ELSE {})
    /\ UNCHANGED <<jobs, queue, out, pc, g_dump_stats_requested, packets_in>>

\* SIGUSR1.  No SA_RESTART: a thread asleep in recvfrom() leaves it with EINTR.
SigUsr1 ==
    /\ pc # "exit"
    /\ g_dump_stats_requested' = TRUE
    /\ pc' = IF pc = "blocked" /\ queue = <<>> THEN "top" ELSE pc
    /\ UNCHANGED <<slots, jobs, queue, out, packets_in, since_reap>>

-----------------------------------------------------------------------------
(***************************************************************************)
(* main(), from the head of the loop to recvfrom().                        *)
(***************************************************************************)
KeepRunning == max_packets = 0 \/ packets_in < max_packets

Exit ==
    /\ pc = "top" /\ ~KeepRunning
    /\ pc' = "exit"
    /\ UNCHANGED <<slots, jobs, queue, out, g_dump_stats_requested, packets_in, since_reap>>

\* reap_expired_slots(), and last_reap_micros = now.
Sweep ==
    /\ pc = "top" /\ KeepRunning /\ SweepDue
    /\ slots' = [i \in Index |-> IF i \in Expired THEN FreeSlot ELSE slots[i]]
    /\ jobs' = JobsAfterFree(Expired)
    /\ since_reap' = 0
    /\ pc' = "stats"
    /\ UNCHANGED <<queue, out, g_dump_stats_requested, packets_in>>

NoSweep ==
    /\ pc = "top" /\ KeepRunning /\ ~SweepDue
    /\ pc' = "stats"
    /\ UNCHANGED <<slots, jobs, queue, out, g_dump_stats_requested, packets_in, since_reap>>

\* dump_job_stats(): the flag is read here and cleared by a later step.
DumpStats ==
    /\ pc = "stats" /\ g_dump_stats_requested
    /\ pc' = "clear"
    /\ UNCHANGED <<slots, jobs, queue, out, g_dump_stats_requested, packets_in, since_reap>>

\* Mutant: the request is never taken back.
ClearNothing ==
    /\ pc = "clear"
    /\ pc' = "recv"
    /\ UNCHANGED <<slots, jobs, queue, out, g_dump_stats_requested, packets_in, since_reap>>

ClearRequest ==
    /\ pc = "clear"
    /\ g_dump_stats_requested' = FALSE
    /\ pc' = "recv"
    /\ UNCHANGED <<slots, jobs, queue, out, packets_in, since_reap>>

NoDump ==
    /\ pc = "stats" /\ ~g_dump_stats_requested
    /\ pc' = "recv"
    /\ UNCHANGED <<slots, jobs, queue, out, g_dump_stats_requested, packets_in, since_reap>>

\* recvfrom() finds nothing and the thread goes to sleep in it.
Block ==
    /\ pc = "recv" /\ queue = <<>>
    /\ pc' = "blocked"
    /\ UNCHANGED <<slots, jobs, queue, out, g_dump_stats_requested, packets_in, since_reap>>

\* Mutant: no SO_RCVTIMEO.
NoTimeout == pc = "blocked" /\ FALSE /\ UNCHANGED vars

\* SO_RCVTIMEO, installed only with a reaper: recvfrom() returns EAGAIN.
Timeout ==
    /\ pc = "blocked" /\ queue = <<>> /\ slot_ttl > 0
    /\ pc' = "top"
    /\ UNCHANGED <<slots, jobs, queue, out, g_dump_stats_requested, packets_in, since_reap>>

-----------------------------------------------------------------------------
(***************************************************************************)
(* main(), from recvfrom() to the end of the loop's body, by outcome.      *)
(***************************************************************************)
\* recvfrom() returns d; the body ends, in the head of the loop again.
Receive(d) ==
    /\ pc \in {"recv", "blocked"}
    /\ queue # <<>> /\ d = Head(queue)
    /\ queue' = Tail(queue)
    /\ pc' = "top"
    /\ UNCHANGED <<g_dump_stats_requested, since_reap>>

\* Mutant: worker_id is not compared with the width of seen_worker[].
WellFormedAnyWorker(d) ==
    /\ d.chunk_len <= NETSUM_MAX_CHUNK_LEN /\ d.n >= d.chunk_len
    /\ d.num_workers \in 1 .. MAX_TRACKED_WORKERS

\* The checks before any slot is looked up.
WellFormed(d) ==
    /\ d.chunk_len <= NETSUM_MAX_CHUNK_LEN
    /\ d.n >= d.chunk_len
    /\ d.worker_id < MAX_TRACKED_WORKERS
    /\ d.num_workers \in 1 .. MAX_TRACKED_WORKERS

\* A datagram too short for the header is not even counted.
RecvRunt ==
    \E d \in Datagrams :
        /\ Receive(d) /\ d.n < 0
        /\ UNCHANGED <<slots, jobs, out, packets_in>>

RecvMalformed ==
    \E d \in Datagrams :
        /\ Receive(d) /\ d.n >= 0 /\ ~WellFormed(d)
        /\ packets_in' = packets_in + 1
        /\ UNCHANGED <<slots, jobs, out>>

RecvRefused ==
    \E d \in Datagrams :
        /\ Receive(d) /\ d.n >= 0 /\ WellFormed(d)
        /\ Refused(d.key)
        /\ packets_in' = packets_in + 1
        /\ jobs' = JobsAfterRefusal(d.key)
        /\ UNCHANGED <<slots, out>>

\* d gets past admission; it is a mismatch, a duplicate or a contribution.
Admitted(d) ==
    /\ Receive(d) /\ d.n >= 0 /\ WellFormed(d)
    /\ ~Refused(d.key)
    /\ packets_in' = packets_in + 1

\* Mutant: no seen_worker[].
DuplicateNever(d) == FALSE

\* The two drops that leave the slot as it was (never a new slot: a new slot
\* has d's chunk_len and has seen nobody).
Mismatch(d)  == SlotFor(d).chunk_len # d.chunk_len
Duplicate(d) == d.worker_id \in SlotFor(d).seen_worker

RecvMismatch ==
    \E d \in Datagrams :
        /\ Admitted(d) /\ Mismatch(d)
        /\ UNCHANGED <<slots, jobs, out>>

RecvDuplicate ==
    \E d \in Datagrams :
        /\ Admitted(d) /\ ~Mismatch(d) /\ Duplicate(d)
        /\ UNCHANGED <<slots, jobs, out>>

\* Worker w's lanes are added to a sum.
Summed(sum, w) == [sum EXCEPT ![w] = @ + 1]

\* The slot once d is summed into it.
Accumulated(d) ==
    [SlotFor(d) EXCEPT !.seen_worker = @ \cup {d.worker_id},
                       !.age = 0,
                       !.sum = Summed(@, d.worker_id),
                       !.contributions_received = @ + 1]

\* Mutants: one contribution too many is waited for; the latest num_workers
\* decides and not the latched one.
CompletesLate(d) ==
    Accumulated(d).contributions_received > Accumulated(d).num_workers_expected
CompletesByLatest(d) == Accumulated(d).contributions_received >= d.num_workers

Completes(d) ==
    Accumulated(d).contributions_received >= Accumulated(d).num_workers_expected

RecvPartial ==
    \E d \in Datagrams :
        /\ Admitted(d) /\ ~Mismatch(d) /\ ~Duplicate(d) /\ ~Completes(d)
        /\ slots' = [slots EXCEPT ![Found(d.key)] = Accumulated(d)]
        /\ jobs' = JobsAfterLookup(d.key)
        /\ UNCHANGED out

\* sendto() may fail: the sum is gone, the slot is freed either way.
RecvComplete ==
    \E d \in Datagrams :
        LET s == Accumulated(d) IN
        /\ Admitted(d) /\ ~Mismatch(d) /\ ~Duplicate(d) /\ Completes(d)
        /\ slots' = [slots EXCEPT ![Found(d.key)] = FreeSlot]
        /\ jobs' = [JobsAfterLookup(d.key) EXCEPT ![d.key.job_id].concurrent_slots =
                                                            Less(@, 1)]
        /\ \/ out' = Append(out, [key |-> d.key, chunk_len |-> s.chunk_len, sum |-> s.sum,
                                  num_workers |-> s.num_workers_expected])
           \/ UNCHANGED out

-----------------------------------------------------------------------------
MainLoop ==
    \/ Exit \/ Sweep \/ NoSweep \/ DumpStats \/ ClearRequest \/ NoDump
    \/ Block \/ Timeout
    \/ RecvRunt \/ RecvMalformed \/ RecvRefused \/ RecvMismatch \/ RecvDuplicate
    \/ RecvPartial \/ RecvComplete

Next == Arrive \/ Tick \/ ClockBack \/ SigUsr1 \/ MainLoop

Spec == Init /\ [][Next]_vars

\* The thread is scheduled, the clock advances and is set back only finitely
\* often; nothing is asked of the network or of whoever sends the signal.
FairSpec == Spec /\ WF_vars(MainLoop) /\ WF_vars(Tick) /\ <>[][~ClockBack]_vars

-----------------------------------------------------------------------------
(***************************************************************************)
(* Properties.                                                             *)
(***************************************************************************)
\* Every variable has its type.
TypeOK ==
    /\ slots \in [Index -> UsedSlot \cup {FreeSlot}]
    /\ jobs \in [Jobs -> JobEntry]
    /\ queue \in Seq(Datagrams)
    /\ out \in Seq(Emission)
    /\ pc \in {"top", "stats", "clear", "recv", "blocked", "exit"}
    /\ g_dump_stats_requested \in BOOLEAN
    /\ packets_in \in Nat
    /\ since_reap \in -MaxBack .. reap_interval

\* A job whose slots are uncounted is a job that found g_jobs full: free_slot()
\* never meets an untracked job it could still give an entry to (agg.c:233
\* "must already exist").
SlotJobTracked ==
    \A j \in Jobs : Owned(j) # {} => jobs[j].in_use \/ JobTableFull

\* concurrent_slots of a tracked job is the number of slots it holds in the
\* table, through creation, completion and eviction (agg.c:213, 234).
QuotaAccounting ==
    \A j \in TrackedJobs : jobs[j].concurrent_slots = Cardinality(Owned(j))

\* No tracked job holds more slots than the quota (agg.c:131-142).
QuotaCap ==
    g_job_quota > 0 => \A j \in TrackedJobs : Cardinality(Owned(j)) <= g_job_quota

\* The three above, and an entry not in use counts nothing: inductive.
AccountingInv ==
    /\ SlotJobTracked /\ QuotaAccounting /\ QuotaCap
    /\ \A j \in Jobs : ~jobs[j].in_use => jobs[j].concurrent_slots = 0

\* What the quota is for (agg.c:131-142): when jobs and quotas fit the tables, no
\* combination of the other jobs' slots leaves a job that is below its own
\* quota without a place for any of its keys.
NoJobStarved ==
    /\ g_job_quota > 0
    /\ Cardinality(Jobs) <= JOB_TABLE_CAPACITY
    /\ Cardinality(Jobs) * g_job_quota <= SLOT_TABLE_CAPACITY
    =>
        \A k \in Keys : ~AtQuota(k.job_id) => ~Refused(k)

\* A slot has summed each worker it has seen exactly once and nobody else, and
\* counts them.
Tallied(s) ==
    /\ s.contributions_received = Cardinality(s.seen_worker)
    /\ \A w \in Workers : s.sum[w] = IF w \in s.seen_worker THEN 1 ELSE 0

\* A slot in the table is a round in progress: tallied, begun, and lacking at
\* least one worker (agg.c:487-512: no complete slot is left behind, whatever
\* the datagrams' num_workers said, and no empty one either).
SlotConsistent ==
    \A i \in InUse :
        /\ Tallied(slots[i])
        /\ slots[i].contributions_received \in 1 .. slots[i].num_workers_expected - 1

\* Every datagram sent downstream sums num_workers distinct workers, each
\* exactly once (agg.c:3-7, 522-543), however datagrams were duplicated,
\* mixed, refused or evicted on the way.
Exact(e) ==
    /\ \A w \in Workers : e.sum[w] \in {0, 1}
    /\ Cardinality({w \in Workers : e.sum[w] = 1}) = e.num_workers
EmittedExact == \A n \in DOMAIN out : Exact(out[n])

\* The indices a probe for the key of slot i passes before it first comes to i.
Before(i) ==
    LET k      == slots[i].key
        passed == {p \in Index : \A q \in 0 .. p : ProbeIndex(k, q) # i}
    IN  {ProbeIndex(k, p) : p \in passed}

\* A lookup of slot i's key ends at i.
Findable(i) == \A j \in Before(i) : slots[j].in_use /\ slots[j].key # slots[i].key

\* This step gives a slot back before i, which stays in the table.
CutOff(i) == \E j \in Before(i)' : slots[j].in_use /\ ~slots'[j].in_use

\* Only a hole hides a slot: a slot opened by a step, and one that was found
\* before it, is found after it, unless the step completed or evicted a slot
\* earlier on its key's probe sequence (agg.c:185-224, 235), whichever keys
\* collide, however full the table is and whoever was refused.
OnlyHolesCutOff ==
    [][\A i \in InUse' : Findable(i)' \/ (i \in InUse /\ ~Findable(i)) \/ CutOff(i)]_vars

\* With a reaper no slot stays in the table for ever, whatever else the
\* program is doing, even when no datagram ever comes again and however the
\* clock is set while the slot is open (agg.c:46-48, 58-67, 303-308): a crashed
\* worker costs its job a slot only for a while.
SlotEventuallyFreed ==
    slot_ttl > 0 => \A i \in Index : slots[i].in_use ~> (~slots[i].in_use \/ pc = "exit")

\* A pending request for statistics is served (agg.c:244-251, 258-262).
DumpEventuallyDone == g_dump_stats_requested ~> (~g_dump_stats_requested \/ pc = "exit")
=============================================================================
