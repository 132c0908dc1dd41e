# NetSum in TLA+

NetSum sums the gradient chunks of a group of workers inside the network. Every
worker sends one UDP datagram per `(job_id, round, chunk_id)`; an aggregator adds
the datagrams of one key together and sends a single summed datagram on to a
parameter server. This directory specifies the aggregators, the parameter server, the
workers, the wire protocol and the fuzz harness of the repository, model-checks them with
TLC on small instances and proves some of their properties for every instance with TLAPS.

Line numbers are those of the files under `src/`; `agg.c` is
`src/userspace_agg/agg.c`, `xdp_agg.c` is `src/xdp_agg/xdp_agg.c`.

## 1. The system

### Parts and how they interact

```
 worker.c --UDP--> agg.c (AF_INET, one thread) -----UDP--> paramserver.c
        \-frames-> xdp_agg.c (in the kernel, per CPU) -XDP_TX->  "
                        ^ config_map          | drop_stats, job_quota_map
              netsum_cfg_loader.c          bpftool / ci/*.py
```

| Part | State | Operations | What makes it correct |
|---|---|---|---|
| userspace aggregator, `agg.c` | `g_slots` (open addressing, linear probing, entries are freed), `g_jobs` (open addressing, entries are never freed), the stats flag, the reaper's clock, its socket's buffer | one loop: sweep when due, dump when asked, receive one datagram; per datagram: parse checks, find or create a slot under the job's quota, reject a mismatch or a duplicate, add, complete | a sum sent on holds each expected worker once; a job's count is its slots; the quota caps and protects; silent slots go away; a dump is done |
| XDP aggregator, `xdp_agg.c` | BPF hash maps `slot_map` (preallocated), `config_map`, `job_quota_map`, `drop_stats`; per running instance: its frame, slot pointer and locals | the same algorithm, once per frame, on every CPU at the same time; maps are updated one access at a time, a slot under its own spin lock | as above, plus: no order of the CPUs' accesses corrupts a sum, a count or a counter |
| configuration loader, `ci/netsum_cfg_loader.c` | none | writes `config_map[0]` | the program copes with any moment of the write |
| wire protocol, `protocol/grad_proto.h`, and the byte swaps of `xdp_agg/bpf_compat.h` | none | header layout, Q16.16 lanes, the bound check of a deployment | sums stay in an `int32_t`; a reported sum is close to the real one; both swaps are one |
| parameter server, `paramserver.c` | a slot table that keeps its slots for good, a receive buffer that is never cleared | one loop: receive, check, find or create a slot, add, report it when complete; behind an aggregator one datagram completes a slot | reports a key once, as the sum of exactly the expected workers |
| worker, `worker.c` | its round counter | sends one chunk per round, gives up at the first failing `sendto()` | one datagram per round |
| fuzz harness, `fuzz/` | none | `parse_shared.h` restates the parse of both aggregators, the fuzz target aborts when the two differ | accepts what the programs accept; never aborts |
| tests, CI, benchmarks, dashboard | results | drive and observe the programs | outside the model; their expectations are used as statements to check |

The parts share nothing but datagrams, except that `bpftool`, the loader and the
Python checks read and write the BPF maps of the running XDP program. `agg.c` calls
itself the reference of `xdp_agg.c` ("byte-for-byte the same algorithm"), so both
are held to the same abstract specification, and run side by side.

### What is hard here

* **Slot table with holes** (`agg.c:196-236`): freeing an entry breaks the probe
  chain of the slots behind it.
* **Two tables that must agree** (`agg.c:213, 234`; `xdp_agg.c:462, 580`): a job's
  `concurrent_slots` is maintained next to the slots it counts, through creation,
  completion, eviction and, in the kernel, on several CPUs at once.
* **Lossy, duplicating, reordering network**, and workers that disagree with each
  other on `num_workers` or `chunk_len`.
* **Check, then act, on shared maps** (`xdp_agg.c:301-303, 314-326, 335-338, 396-454,
  436-462, 536-580`): every lookup may be stale when it is used; an element of a
  preallocated map may belong to another key by then.
* **A signal and a blocking call** (`agg.c:410-415`), and a **reaper that must wake up
  although nothing arrives** (`agg.c:362-380`).
* **Tables at their limit** (`agg.c:182, 223`; `xdp_agg.c:320, 455`; `paramserver.c:151`).
* **A buffer that keeps the last datagram** (`paramserver.c:127-168`), whose length is not
  compared with what the header says.
* **A wall clock that is set** (`agg.c:238-242, 308, 377`): ages are differences of
  `gettimeofday()` readings and may jump or be negative.
* **Integer lanes** (`grad_proto.h:46-69`): truncation, undefined conversions, `int32_t`
  additions that wrap, bytes swapped by two different routines.
* **Two programs that claim to be one**, and a harness that tests copies of both.
* **The whole chain**: an aggregator that reopens or abandons a round, workers that are
  run again and a server that remembers for ever must together report each round once.

`PROJECT.json` lists the hazards one by one with their lines and properties.

## 2. The modules

| Module | Content |
|---|---|
| `Aggregation` | what any aggregator promises: one round at a time per key, each worker once, a sum of exactly the expected number of workers or nothing, no round opened by a job at its quota |
| `UserAgg` | `agg.c`: state, every step, its properties |
| `UserAggRefinement` | the mapping of `UserAgg` to `Aggregation` |
| `UserAggProofs` | theorems about `UserAgg` and its refinement of `Aggregation` |
| `MCUserAgg` | hashes and traffic of its runs |
| `XdpAgg` | `xdp_agg.c` on a set of CPUs, with the loader's write of `config_map` |
| `XdpAggRefinement` | the mapping of `XdpAgg` to `Aggregation`, on one CPU and on several |
| `MCXdpAgg` | traffic and configurations of its runs |
| `XdpAggProofs` | theorems about `XdpAgg`: types, and the sums, on several CPUs without duplicates and on one CPU with any traffic |
| `XdpAggQuotaProofs` | theorems about its quota accounting and its drop counters |
| `XdpAggRefinementProofs` | the theorems that `XdpAgg` implements `Aggregation`, on several CPUs and on one |
| `GradProto` | words, bytes, swaps, fixed point and the bound check: operators only |
| `GradProtoProofs` | lemmas and theorems about them, and that the fuzz harness never aborts |
| `LaneSum` | one lane of one round: `worker.c`, an aggregator, `paramserver.c`, with real integer widths |
| `LaneSumProofs` | theorems about `LaneSum` |
| `MCLaneSum` | gradients of its run |
| `ParseShared` | `fuzz/parse_shared.h` and the abort condition of `fuzz_grad_parse.cpp` |
| `Parity` | `XdpAgg` and `UserAgg` fed the same raw datagrams, and the harness's verdict on each |
| `MCParity` | its datagrams |
| `ParityProofs` | theorems about `Parity`: the harness mirrors the programs, and the programs agree |
| `ParamServer` | `paramserver.c` in both modes; what arrives is a parameter of its step `Handle` |
| `NetSum` | workers (`worker.c`), the network, an aggregator (`Aggregation`) and `ParamServer` composed |
| `MCNetSum` | stray datagrams of its run |
| `NetSumProofs` | theorems about `ParamServer`, and about the whole of `NetSum` |

### Abstractions common to both

* `(round, chunk_id)` is one member of `Parts`. The code only compares and hashes it.
* A lane is linear in the contributions, so a slot's `sum` is kept as *how often each
  worker's values are in it*. "The sum is right" becomes "every expected worker once,
  nobody else". What the bits of a lane do is the subject of `LaneSum`, which in turn takes
  from here that each worker is added once.
* A datagram is a record: the number of lanes that arrived (`n`, -1 when it is not even
  a header), key, `worker_id`, `num_workers`, `chunk_len`.
* Log lines, byte order, addresses and checksums are left out.

### UserAgg and agg.c

| Model | Code |
|---|---|
| `slots`, `jobs` | `g_slots`, `g_jobs` |
| `queue` | the socket's receive buffer, of `RCVBUF` datagrams |
| `out` | datagrams handed to `sendto()` |
| `pc` | `top` (loop head, 401), `stats` (410), `clear` (412), `recv` (415), `blocked` (asleep in `recvfrom`), `exit` |
| `age` in a slot, `since_reap` | `now - last_touched_micros`, `now - last_reap_micros`: integers, saturated at the bound they are compared with, so that time is unbounded and the state space is not |
| `Sweep`/`NoSweep`, `DumpStats`/`NoDump`, `ClearRequest` | the head of the loop; the test and the reset of the flag are separate steps, for `SigUsr1` to come in between |
| `Block`, `Timeout`, `SigUsr1` | `recvfrom()` sleeping, `SO_RCVTIMEO` (only with a TTL), a signal without `SA_RESTART` |
| `RecvRunt` ... `RecvComplete` | one datagram from `recvfrom()` to the end of the body, one action per way out |
| `StopsAt`, `Found`, `Refused`, `JobsAfter...` | `find_or_create_slot()`, `find_or_create_job()`, `free_slot()` |
| `Arrive`, `Tick` | the network and the clock; a clock set forward is several `Tick`s |
| `ClockBack` | the wall clock is set back: every age falls, below zero even, by at most `MaxBack` in all since the last sweep |

Nothing between `recvfrom()` and the end of the loop body is visible to another party
(the signal handler only sets a flag the body does not read), so the body is one step.
`g_jobs` entries are never freed, so its probing is a lookup that fails when the
table is full, and it is modelled as that; `g_slots` keeps its probe sequence, over an
arbitrary hash `SlotHash`.

### XdpAgg and xdp_agg.c

Every instance of the program is a CPU with a `pc`; one step is the code from one access
to a shared map to the next.

| `pc` | About to do |
|---|---|
| `idle` | receive: parse and `slot_map` lookup (365-414) |
| `precheck`, `quota` | read `config_map` (434); read `job_quota_map` (437) |
| `create`, `won`/`lost` | `BPF_NOEXIST` update (447); second lookup (454) |
| `increment`, `newjob` | `job_quota_increment()`: lookup and add (315); insert, or add after a lost race (320) |
| `lock` | the section under the slot's spin lock (481-551) |
| `complete`, `delete` | `config_map` lookup (566); `bpf_map_delete_elem` (568, 579) |
| `decrement`, `subtract` | `job_quota_decrement()`: test (335); atomic subtraction (336) |
| `tx` | `XDP_TX` (601) |
| `stat`, `newstat` | `bump_stat()`: lookup and add (298); insert (303) |

`slot_map` is a preallocated `BPF_MAP_TYPE_HASH` (no `BPF_F_NO_PREALLOC`): its elements
(`elem`) live for ever, a deleted one is at once on the free list, and `CreateWins` may
take any free one. `slot[c]` is a pointer to an element, not to a key: that is what
makes stale pointers expressible. `drops` and `closed` are history variables, read by
properties only.

`XdpAggRefinement` maps this to `Aggregation`. On its way from the last contribution to
`XDP_TX` a CPU has already taken the slot out of `slot_map`, while nothing is on the wire yet.
`Promised` therefore holds the round open, without that CPU's contribution, until the datagram
is sent: the abstract step that completes a round and the one that emits its sum are the
same. The quota is part of the promise on one CPU only, since several may overshoot it.

### ParamServer and paramserver.c

One datagram is one step, `Handle(d)`, with one disjunct per way out of the loop's body.
Entries of its table are never freed, so probing is a lookup that fails when the table is
full (`TableFull`); the hash plays no part. Two things differ from the aggregators and are
kept: a completed slot stays and goes on summing (`completed`), and the length of a datagram
is not compared with its `chunk_len`. For the second, `packet` holds the lanes of the
receive buffer, each lane with its provenance (how often each worker's value for each key
is in it, or `Unset` where nothing was ever received), and `Summed` adds lanes of the buffer,
whoever they came from.

### NetSum

`net` is a bag of datagrams with a destination. In mode noagg workers send to the server,
in mode agg to the aggregator, which is the module `Aggregation` (what `UserAgg` and
`XdpAgg` are shown to implement), so `NetSum` covers both of them as far as those
refinements go, with rounds abandoned, sums lost and rounds reopened by late copies.
Copies come from `RunAgain`: the load test sends every round several times by running the
workers again (`xdp-loadtest.yml:341-345`). What an aggregator emits is in flight at once
(`AggReceive`), as the step to `sendto()` cannot be seen by anyone else. `lost` is a history
variable: the keys for which a datagram, a round or a worker's sending was given up. A datagram turned
away by a full table excuses its own key and no other.

### GradProto and LaneSum

| Model | Code |
|---|---|
| `WORD`, `Int32`, `Unsigned`, `Signed`, `Plus32` | a 32-bit word, its two readings, and the wrapping `+=` of `agg.c:501-503`, `xdp_agg.c:533`, `paramserver.c:167-169` |
| `Store`, `Load`, `Reversed`, `ntohl`, `netsum_bpf_ntohl` | a word in the memory of a little-endian host, the libc's swap, the hand-written one of `bpf_compat.h:90-102` |
| `netsum_to_fixed` | `grad_proto.h:46-54`: a *set* of outcomes, one where the conversion is defined, and what x86-64 and arm64 yield where it is not |
| `netsum_sum_fits_i32` | the bound check, `grad_proto.h:60-69`, whose verdict is only printed (`worker.c:74-87`) |
| `Send`, `Add`, `Report` | one worker's datagram; its addition at the slot, in any order; the aggregator's datagram at the server |
| `route` | who adds: `agg.c`, `xdp_agg.c` or, in mode noagg, the server itself |

`BYTE` and `SCALE` are parameters: 256 and 2^16 in the program, and anything (an even
`BYTE`, a positive `SCALE`) in the proofs. A double is a multiple of `1/Unit`, for any
`Unit`; that a product of doubles may itself be rounded is left out, since the gradients and bounds
of the deployments are far from the 53 bits of a mantissa. The sums of gradients and of
quantised gradients, `real` and `total`, are history variables of unbounded integers: what
the 32-bit accumulators are compared with.

### ParseShared and Parity

A raw datagram is its length and the *bytes* of its 16-bit fields. `agg_parse_stateless` reads
them with `ntohs`, `xdp_parse_stateless` with `netsum_bpf_ntohs`, and `Divergence` is the
condition under which `LLVMFuzzerTestOneInput` aborts.

`Parity` delivers one raw datagram to both programs at a time. The XDP program (`XdpAgg` on
one CPU) runs to its end on it, then `agg.c` (`UserAgg`) takes it from its socket. Both keep
all their steps; only what the other lacks is switched off (reaper, signals, a failing
`sendto()`, which `AggRuns` excludes). This is the stateful comparison that
`parse_shared.h:169-176` says the harness does not make. The one asymmetry it documents
(150-176) is that an open round's frame is not asked for its `num_workers` in the kernel,
whereas `agg.c:452` always asks; after such a frame the two may differ, `asymmetric` becomes true and
the comparison ends.

## 3. What is checked

All properties are stated, with the code they are about, in the module that defines them.

### Runs that pass

| Run | States | Question |
|---|---|---|
| `UserAggQuota` | 59k | Quota 1, a greedy and a modest job on one probe chain of a table with a slot for each, a TTL of 2 ticks, a wall clock set forward and back. Does the quota cap (`QuotaCap`), is the count exact (`QuotaAccounting`), can the greedy job take the other's place (`NoJobStarved`), and can a slot be lost to lookups in any other way than by an entry given back ahead of it (`OnlyHolesCutOff`)? Under total silence, are slots evicted (`SlotEventuallyFreed`) and dumps done (`DumpEventuallyDone`)? |
| `UserAggChained` | 1.03M | Every key on one probe chain that starts at the last index and wraps around, two entries for three keys: a table that fills and entries given back ahead of others. Quota 1, every kind of bad datagram, workers that disagree on `num_workers` and `chunk_len`, TTL, failing `sendto()`. Types and the inductive invariant `AccountingInv`; is every slot unfinished (`SlotConsistent`), every sum exact (`EmittedExact`), and the whole an implementation of `Aggregation`? |
| `XdpAggOnce` | 325k | Two CPUs, every frame once, three keys of a job with quota 1 and one of another, four rounds with three slots, two one-worker rounds of a job that two CPUs may close at once, workers that disagree on `chunk_len`, a frame that is no gradient: `OnceInv` (no stale pointer, slots tallied, one closer), `EmittedExact`, `QuotaAccounting`, the exact overshoot of the quota, `QuotaOvershoot`, and `Aggregation` implemented in every interleaving. |
| `XdpAggConfig` | 54k | Two CPUs while `config_map` is written and deleted, with room for one of two jobs in `job_quota_map`: counters (`StatsSound`), accounting, and that no order of steps loses a round silently (`RoundDelivered`). |
| `Parity` | 347k | Both aggregators side by side: two keys of one job and one of another over tables of a single entry, a quota of 1, a retransmission, and a datagram for each check that turns one away. Same rounds, job entries and counts (`SameRounds`), same sums (`SameSums`), and the harness accepts what each program accepts (`HarnessMirrors`); on the way, types, `CountedAtRest` and `Aggregation` for the XDP program with duplicates. |
| `LaneSum` | 94k | One to three workers, three routes, bounds that pass, just pass and just fail the check, gradients inside and outside of them: no wrap-around on the way (`SumExact`), the report right modulo the word (`ReportedModular`) and within one unit per worker (`ReportedClose`). |
| `NetSumBoth` | 212k | Two workers, two rounds, two repeated runs, one stray datagram (a third worker of the job, a runt, a datagram without its lanes, a `worker_id` out of range), both modes, a server table with two slots for three keys. Is a key reported once (`ReportedOnce`), as the sum of all its workers and nothing else (`ReportedExact`), and every round reported unless something was given up for its key (`EveryRoundReported`)? |

### Runs that find a counterexample

Each states what a comment or a workflow of the repository says, and TLC shows a
behaviour of the code that contradicts it. They are listed with quotations under
`findings` in `PROJECT.json`.

| Run | Statement | What happens |
|---|---|---|
| `UserAggHole` | a key has one slot (`agg.c:5-7`) | A and B share a chain, A completes and is freed, B's next worker stops at A's place and opens a second slot; neither completes. |
| `UserAggSignalWindow` | a requested dump "runs promptly instead of waiting for a packet" (`agg.c:260-262`) | without a TTL, a signal after the flag was tested and before `recvfrom()` sleeps leaves the request pending until traffic comes. |
| `XdpAggStale` | frames on different CPUs "accumulate correctly" (`xdp_agg.c:199-201`) | a retransmission completes and deletes a slot under a CPU that holds a pointer to it; the element is reused; the CPU adds its lanes to another key's sum. |
| `XdpAggReopened` | the dedup bitmap absorbs retransmissions (workflow 334-336, `xdp_agg.c:557-559`) | the bitmap is deleted with the slot, and a later copy opens a slot nobody completes. |
| `XdpAggRefused` | a job's existing slot is never affected by its quota (`xdp_agg.c:419-421`) | the lookup of a frame misses, another CPU creates and counts the slot, the frame is then refused at the quota its own round fills. |

### Bounds

Two jobs are enough for one to disturb another; a table of two to five slots is enough
for chains, holes and a full table; two or three workers for partial, complete and
disagreeing rounds; two CPUs for every race of the check-then-act pairs (none of them
involves a third party: each is a window of one CPU and an interfering step of another).
`max_packets` is the program's own argument and bounds a `UserAgg` run; the runs of
`XdpAgg` are bounded by `Traffics`, finite sets of frames of which one is sent: each of its
frames is received once, a retransmission being a member of its own. `NetSum` is bounded by `num_rounds` and `MaxRuns`
(two repeated runs in all, so that both workers repeat or one repeats twice), with one lane
(`chunk_len` 1): a second lane is summed by the same loop turn. `UINT32` stands for 2^32: it is 8 in the runs,
more than any count reached, and a count that went below zero would show as 7. Ages
saturate at the value they are compared with, which loses nothing. `MaxBack` bounds how far
the clock falls behind between two sweeps: one tick against a TTL of two is enough for negative ages, for
a `since_reap` below zero, and for a sweep that is put off. In `LaneSum` a byte has four values and
1.0 is 8, so that `int32_t` is -128..127 and the whole range is in reach of three
gradients; each byte of a word still differs from the others, which the swaps need. In
`Parity` both tables have one entry, so that they fill after a single datagram. `CHECK_DEADLOCK FALSE`
because `max_packets` lets the program end, and the XDP runs end when the traffic is used up.

### Fairness

`UserAgg!FairSpec` asks that the thread is scheduled (`WF(MainLoop)`), that the clock
advances (`WF(Tick)`) and that it is set back finitely often (a clock that is set back again and again
lets no slot grow old, and no reaper built on it could). Arrivals and signals carry no fairness: `SlotEventuallyFreed`
holds although nothing ever arrives again, because `SO_RCVTIMEO` wakes the thread, and
fails without it (that is its mutant). `XdpAgg!FairSpec` asks that an instance that has
begun runs to its end, which the kernel guarantees for a BPF program, and that a frame on
the wire reaches some CPU; the second is an assumption on the network that is part of the
statement "all of whose frames arrive" of `RoundDelivered`.

`NetSum!NetFairSpec` asks for `WF(Progress)`: while a worker has something to send or a
datagram is in flight, some process goes on or some datagram arrives. No process is
preferred and no delivery order assumed; loss remains possible, and is what the disjunct
`lost` of `EveryRoundReported` allows for.

## 4. What is proved

`UserAggProofs` proves, for every table size, hash, quota, TTL, traffic, buffer size and
any length of run, from the three assumptions on the constants in `UserAgg`:

| Theorem | Statement |
|---|---|
| `TypeCorrect` | `Spec => []TypeOK` |
| `AccountingCorrect` | `Spec => []AccountingInv` |
| `QuotaHolds`, `QuotaAccountingHolds` | `Spec => []QuotaCap`, `Spec => []QuotaAccounting` |
| `SummedOnceCorrect` | `Spec => [](SlotConsistent /\ EmittedExact)` |
| `SlotConsistentHolds` | `Spec => []SlotConsistent` |
| `NoJobStarvedHolds` | `Spec => []NoJobStarved` |
| `OnlyHolesCutOffHolds` | `Spec => OnlyHolesCutOff` |
| `ImplementsAggregationHolds` | `Spec /\ [][~CutsOff]_vars => ImplementsAggregation`, with no quota or with a job table that has room for every job |
| `ImplementsAggregationAtOne` | `Spec => ImplementsAggregation`, with a quota of 1 and room for every job |

*Accounting.* `QuotaCap` alone is not inductive: the test at creation reads
`concurrent_slots`, so it says something about the table only together with
`QuotaAccounting`. That in turn holds for tracked jobs only, and a job that owned
uncounted slots and became tracked later would break it. `SlotJobTracked` excludes
this: a job with slots and without an entry exists only when `g_jobs` is full, and
`g_jobs` never empties again. Together with "an unused entry counts nothing" this is
`AccountingInv`, which is inductive over `TypeOK`. Each kind of step changes the
set of a job's slots by one element or by a set that is evicted, and the cardinality
lemmas of the library do the rest.

*Sums.* `SlotConsistent` and `EmittedExact` are inductive together: a slot has added each
worker it has seen once (`Tallied`) and lacks at least one of the expected workers, so the
contribution that reaches `num_workers_expected` reaches it exactly, and what is sent
is a sum of that many distinct workers. Nothing about the hash is used: the sums stay
exact even when holes in the probe chains give a key two slots.

*Starvation.* `NoJobStarved` needs no invariant beyond `AccountingInv`: when `g_jobs` has room
for every job each job is tracked, so it holds what it is charged for, at most the quota. Had
no probe of a key a place to stop, every index would be in use (a probe sequence visits all of
them: `ProbesCover`, from the uniqueness of the remainder), and the slots in use would map one-to-one
into `Jobs` times `1..g_job_quota` without one element that the job below its quota leaves over
(`FewerThanProduct`): fewer slots than the table has.

*Probe chains.* A slot is `Findable` when every entry ahead of it on its key's probe sequence is in use by
another key, that is, when a lookup of its key ends at it. A lookup that opens a slot has passed such entries
only, so a new slot is findable (`OpensFindable`); as long as none of these entries is given back it
stays so (`StaysFindable`). `CutOff(i)` is the step that gives one of them back, and `OnlyHolesCutOff` says
that nothing else hides a slot (`HoleStep`). `free_slot()` leaves no tombstone, so such steps are possible under every hash
with collisions, and `UserAggHole` shows where they lead.

*Refinement.* A key's round can be a function of the table only if no lookup opens a second slot for a
key that has one (`NoSecondSlot`). There are two ways to this, for every hash. In a behaviour without a
step that cuts a slot off (`[][~CutsOff]_vars`), every slot stays findable (`SlotReachableHolds`, by
`ReachableStep`); workers in lockstep give such behaviours, and so does a hash under
which no two keys of the traffic collide. With a quota of 1, a job that has a slot is refused another one, whether it is for the same key or not,
so a slot that was cut off may be out of reach but stays its key's only one (`QuotaNoSecond`, `OneRound`); what is
promised of rounds is then kept, although frames of its round are turned away. A
contribution then is `Join` of the round found, or of a fresh one, a sweep is `Abandon` of the
rounds whose slots expired, and every other step changes neither rounds nor sums. That a job at its quota
opens no further round needs the accounting: the open rounds of a job are at most the slots it owns
(`OpenOwned`), and a tracked job's count is exactly those. A job that found `g_jobs`
full is not limited (`agg.c:182, 207`), which is why the theorem asks for room. Without either hypothesis the
statement is false: `UserAggHole` shows a key with two slots, with no quota.

`XdpAggProofs`, `XdpAggQuotaProofs` and `XdpAggRefinementProofs` prove, for any finite number
of CPUs, every size of the maps and every configuration written at any moment. `XdpAggStale` refutes
the sums on several CPUs with duplicates, so the theorems marked *once* assume that a worker's frame
arrives at most once (`OnceTraffic`), the ones marked *once or alone* that or a single CPU, where
every traffic is allowed: lost, duplicated, reordered and malformed frames, and workers that disagree.

| Theorem | Statement |
|---|---|
| `TypeCorrect` | `Spec => []TypeOK`, every traffic |
| `OnceCorrect` | `Spec => []OnceInv`, *once* |
| `EmittedCorrect` | `Spec => []EmittedExact`, *once or alone* |
| `QuotaAccountingCorrect`, `CountedAtRestCorrect` | `Spec => []QuotaAccounting`, `Spec => []CountedAtRest`, *once or alone* |
| `QuotaOvershootCorrect` | `Spec => []QuotaOvershoot`, *once or alone*: on one CPU the quota is a cap |
| `StatsSoundCorrect` | `Spec => []StatsSound`, every traffic |
| `ImplementsAggregationCorrect` | `Spec => ImplementsAggregation`, several CPUs, *once* |
| `ImplementsAggregationAlone` | `Spec => ImplementsAggregation`, one CPU, every traffic, with the quota |

*Types.* `TypeInv` adds to `TypeOK` what the program knows at a label: a well-formed frame, a
pointer that is not `NULL`, a sum where one is sent, a job entry where one is decremented.

*Stale pointers and sums.* `Once` is inductive over `TypeInv`. Its core is `StillAwaited`: a CPU that has not
accumulated its frame yet is a worker its slot still waits for. So the slot cannot be complete,
nobody can delete it, and the pointer the CPU holds is still the slot of its key. `HeldApart` (a
frame is on the wire or in one CPU's hands) and `SlotsTallied` (the frames a slot has added are
gone) keep it so; `ClosedByOne` and `FinalExact` carry the sum from the lock to `XDP_TX`.

*One CPU.* `Solo` takes the place of `Once`. A duplicate may come while its round is open, after it, or
before; what saves the sums then is `seen_worker`, together with the fact that nothing
happens between a CPU's lookup and its lock but its own steps. A slot has added exactly the workers it has
seen and lacks at least one, but for the CPU on its way from the last contribution to the delete
(`SoloSlot`), and the CPU's pointer is the slot of its key, which it has while it makes or closes it and has not
while it is between the miss and the creation or past the delete (`SoloCPU`). No property of the traffic
is used.

*Quota.* The accounting rests on neither, but on what both give (`SlotsHeld`: an element has one key, a slot
is made by one CPU, and a CPU that makes or closes a slot has it in the map), which is why one
proof serves both cases. A job's count and the CPUs that have made a slot and not counted it are together its slots and
the CPUs that have deleted one and not taken it off. Every one of the eight steps that touch a
side touches the other, or moves a CPU from one term to another. The count does not go below 0 at
`subtract`, because the CPUs that make slots are fewer than the slots and the CPUs that
closed one; and it does not wrap upwards by `WidthAssumption`: there are fewer slots and CPUs than `uint32_t` values.
`QuotaOvershoot` is strengthened to: a job's slots and its CPUs past the admission test
exceed the quota by at most the CPUs less one. The test itself reads a count that lags behind by those that
have not counted yet, and they are other CPUs.

*Drop counters.* A frame is on the wire, in one CPU's hands, or gone. A counter is at most the
frames dropped for its reason whose CPU has gone past it, and is not absent once one has.

*Refinement.* The mapping of a step rests on `RoundsHeld`: a CPU about to lock is awaited by its slot, a CPU about
to delete has completed it, and a sum in hand is of as many workers as the slot expected and
alone: no other CPU has a sum of the key or is about to lock a slot of it, and past the delete
the key has no slot. `Ready` gets this from `Once` and the frames that are left (no frame of a completed round
is left anywhere), `SoloReady` from `Solo`. The round of a key is then either in its slot or in the hands of one CPU,
never in both. Every step of the program is a stutter of `Aggregation` but three: the lock joins a round that is
not completed by it, `XDP_TX` is the contribution that closes one, and a missing configuration abandons
one. The lock that completes a round is a stutter: the round moves from the slot to its closer.

A step that opens a round must be one that `Aggregation` admits under the quota (`Admitted`). On several CPUs the
mapping promises no quota, since the code overshoots it. On one CPU it does: a job's slots are at most
the quota (`SoloWithin`, from the accounting), the slot about to be locked is one of them
and has no round yet, and a CPU with a sum past the delete leaves the job a slot below it (`Below`). This
is what the theorem asks the rest of its hypotheses for, unless the quota is 0: the configuration
stays, and `job_quota_map` has room for every job; the program does not count, and does
not limit, a job whose entry it could not create (`xdp_agg.c:319-325, 438`).

`NetSumProofs` proves, for every traffic, table size and mode, about the server by itself:

| Theorem | Statement |
|---|---|
| `ServerTypeCorrect` | `ServerSpec => []ServerTypeOK` |
| `ReportedOnceHolds` | `ServerSpec => []ReportedOnce` |

and about the whole of `NetSum`, for any number of workers, rounds and repeated runs, in both modes:

| Theorem | Statement |
|---|---|
| `ReportedExactHolds` | `NetSpec => []ReportedExact` |
| `NetServerImplements` | `NetSpec => ServerSpec` |
| `NetReportedOnce` | `NetSpec => [](ServerTypeOK /\ ReportedOnce)` |
| `NetAggregates` | `NetSpec => Agg!Spec` |

*One line per key.* `ReportedOnce` needs the slots: `ReportedInv` says that a reported key's slot stays in the
table and is completed, and that two lines of one key are the same line. A step reports
only a slot that was not completed, so it cannot be that of a reported key. `ServerSpec`
lets any datagram arrive at any time, and `NetServerImplements` says that the composition takes only
`Handle` steps or none of the server's, so what holds of `ServerSpec` holds of `NetSpec`.

*The sum that is reported.* `ReportedExact` speaks of one process and depends on all of them. `NetInv` is
inductive over the server's types: what is in flight (`InFlight`) is a gradient of a worker to
the aggregator, or, on the way to the server, a sum of `num_workers` distinct workers in mode agg, and a gradient
or a stray datagram in mode noagg; the aggregator's rounds are rounds of the job (`AggOK`), so
that the next sum is whole too; and a slot of a key without short datagrams (`SlotsExact`) has
added exactly the workers it has seen, or, in mode agg, has seen "worker 0", the one whole sum it takes
(`paramserver.c:158-164` drops a second one, as from a reopened round, by the same bitmap that drops a duplicate).
Strays are what a datagram of somebody else may be (`StrayAssumption`): a copy of a worker's
contribution, one shorter than it says, or one the program refuses; a well-formed datagram in a
worker's name with other lanes is the worker's contribution as far as any program of the repository can tell.

*What it rests on.* `NetAggregates` closes the chain: the aggregator of the composition takes only steps of
`Aggregation`, the specification that `ImplementsAggregationHolds` (`agg.c`) and
`ImplementsAggregationCorrect` and `ImplementsAggregationAlone` (`xdp_agg.c`) show of the two programs.

The `UserAgg` proofs need that a probe sequence that stops has a *first* stop (`LeastMember`). It is
proved by a pigeonhole argument with the finite-set library, without induction. They
cover a clock that is set back: the table is only re-aged (`Reaged`), which touches
neither a job's slots nor a sum.

`GradProtoProofs` and `LaneSumProofs` prove, for every even `BYTE`, `SCALE`,
`Unit`, number of workers, bound, gradients, route and order of arrival:

| Theorem | Statement |
|---|---|
| `ShortSwapsAgree`, `SwapsAgree` | the hand-written swaps are the libc's, and the 32-bit one its own inverse |
| `NoDivergence` | the fuzz target aborts on no datagram |
| `DataCorrect` | `Spec => []DataInv` |
| `ReportedModularHolds` | `Spec => []ReportedModular` |
| `SumExactHolds` | `Spec => []SumExact` |
| `ReportedCloseHolds` | `Spec => []ReportedClose` |

*Data.* `DataInv` says that every lane in flight decodes, by either swap, to what its worker
meant, and that the accumulator, the datagram sent on and the report are `total` modulo the word.
It is inductive by two lemmas: `Signed` undoes `Unsigned` on `Int32`, and `Plus32` is a
homomorphism modulo `WORD`. `ReportedModular` is a part of it.

*Bounds.* `BoundInv` adds, when the bound check passes and no worker exceeds the bound, that every
quantised gradient is within one unit of its gradient and at most the quantised bound, so that
`total` over *any* set of seen workers is at most their number times the bound. That is
below `HALF`, at every prefix and not only for the final sum, so the accumulator and the integer
agree, which is `SumExact`; and the distance of `total` from `real` grows by less than one unit
with every worker, which is `ReportedClose`.

`ParityProofs` proves, for every set of raw datagrams, table size, hash and configuration:

| Theorem | Statement |
|---|---|
| `ParityRunsXdp`, `ParityRunsAgg` | `ParitySpec => Spec` of `XdpAgg`, and `ParitySpec => Agg!Spec` of `UserAgg` |
| `HarnessMirrorsHolds` | `ParitySpec => HarnessMirrors`, any number of CPUs |
| `SameRoundsHolds` | `ParitySpec => []SameRounds`, one CPU, one configuration, `NoDetour` |
| `SameSumsHolds` | `ParitySpec => []SameSums`, one CPU, one configuration, `NoDetour` |

*The harness.* Both parses read the same lengths and fields of a datagram (`Parsed`, from the swaps'
agreement), and whole lanes are counted in bytes or in lanes with the same verdict
(`LanesArrived`). So what the harness accepts is what each program lets past its stateless checks,
whatever its tables hold.

*The programs.* The XDP program runs to its end on a datagram before `agg.c` takes it, so in between the
tables differ. `Fate(d)` is what `agg.c` is going to make of the datagram in its socket: whether it is
refused, adds or completes, and the tables it has after each stage of its body. While a datagram is under way this is a
function of tables that do not change. `Ahead` says of every label of the XDP program at which of those
stages its maps are the same as `agg.c`'s tables will be (`Stage`), and that they are the final ones once
it is done (`Done`). `Coupled` is the case distinction: nothing is under way and the tables agree
(`Agree`), or one datagram is and the XDP program is ahead by it. It is inductive over
`TypeInv`, `Solo`, `SlotsHeld` and the quota accounting of the XDP program, which hold here by
`ParityRunsXdp`: `Solo` because the element a CPU's pointer leads to must be that of the key, and the
accounting because a job's count must not be tested before it is raised or taken off twice.
One lemma per step of the XDP program shows that it moves from stage to stage (`AheadStep`), and one
that what `agg.c` then does is what `Fate` said (`CatchesUp`). Agreement at rest follows: a key's
round is the same record read off either table (`RoundsAlike`).

*What it rests on.* Duplicates, disagreeing workers, malformed datagrams, a job at its quota and full tables of
slots and of jobs are all in the theorems. The hypotheses leave out what makes the programs differ indeed. Several
CPUs: `XdpAggStale`, and the sums go out in another order. No configuration, or one that changes:
the kernel program drops the sum, or limits the jobs by another number. Keys on one
another's probe chains (`NoDetour` fails): `UserAggHole` shows `agg.c` with two slots for a key, which the
kernel's hash map never has. `NoDetour` asks that keys have home indices of their own, or that
the table has one entry, which is where a full slot table is met; it is also how the run `Parity`
is set up, so its constants satisfy all the hypotheses. After a frame with a `num_workers`
out of range was added to an open round (`asymmetric`) nothing is claimed, as in the properties.

Only model-checked: all liveness (`SlotEventuallyFreed`, `DumpEventuallyDone`, `RoundDelivered`,
`EveryRoundReported`), since TLAPS does not reason about fairness here.

## 5. What is not modelled, and known divergences without a run

Not modelled: start-up, argument parsing and socket errors other than those named; address
rewriting and checksums (pure header computations no other part reads); the generator of
the fuzz corpus, the scripts, the dashboard and the documents.

Differences between comments and code that were met while modelling and follow from one
line or are close relatives of a run above:

* `agg.c:223`: an attempt turned away because `g_slots` is full is in neither counter,
  against the comment at 148-149.
* `agg.c:182, 207`: once 256 job ids have been seen, further jobs are not limited by the
  quota. `QuotaCap` speaks of tracked jobs for that reason.
* `agg.c:405`: the sweep runs before datagrams already in the socket are read, so it may
  evict a slot whose next contribution has arrived (53-55 says it would not).
* `agg.c:308`: a wall clock set forward by more than the TTL makes the next sweep evict slots
  that were not silent, against the comment at 493-498; the round is abandoned, which
  `Aggregation` allows.
* `parse_shared.h:150-176`, `xdp_agg.c:398`: the kernel program looks at `num_workers` of a
  round's first frame only. The repository documents this; the claim of "byte-for-byte the same algorithm"
  (`agg.c:450`) holds up to it.
* `xdp_agg.c:438, 455` and `agg.c:201-223`: when the table is full and the job is at its quota,
  the kernel program tests the quota first and counts a quota drop, whereas `agg.c` finds no free entry
  first and counts nothing. What is summed and sent is the same, so `Parity` compares tables
  and sums, not the drop counters.
* `agg.c:412`: a signal during the dump is wiped out by the reset of the flag.
* `xdp_agg.c:438, 462`: CPUs that pass the admission test together exceed
  `max_slots_per_job`; `QuotaOvershoot` bounds by how much.
* `xdp_agg.c:462`: with retransmissions, a slot may be completed and its count taken back
  before its creator raised it, which leaves the count one too high; `QuotaAccounting` is
  stated with the CPUs in between, and `CountedAtRest` is checked on one CPU.
* `paramserver.c:167-168`: a datagram shorter than its `chunk_len` sums what an earlier one
  left in the buffer (`agg.c` compares the lengths, 430-445). `ReportedExact` excepts the keys
  that have such datagrams, and shows that no other key is touched.
* `paramserver.c:172`: `num_workers = 0` makes a slot that never completes (`agg.c:452`
  refuses it).
* `paramserver.c:167`: workers beyond the expected number are summed after the report; the
  reported line is not affected.
* `xdp_agg.c:303`: two first bumps of a counter overwrite one another; `StatsSound` is the
  statement that survives.

## 6. Plan

1. *Done:* `UserAgg` with its proofs, `XdpAgg`, the common abstract specification,
   `ParamServer` with its proofs, `NetSum`.
2. *Done:* the wall clock that is set; the multi-CPU refinement of `Aggregation`;
   `GradProto`, `LaneSum`, `ParseShared` with their proofs; `Parity`.
3. *Done:* the proofs about `XdpAgg`, for any number of CPUs: `OnceInv` and the sums, the quota
   accounting and its overshoot, the drop counters, the refinement of `Aggregation`; that
   `UserAgg` starves nobody, and that a slot is hidden by holes in its probe chain only, and that
   it implements `Aggregation` when no such hole arises or the quota is 1.
4. *Done:* the proofs about the composition: `ReportedExact` of `NetSum` for any number of workers and
   repeated runs, with an invariant on what is in flight; that the server and the aggregator in it are the
   ones specified alone.
5. *Done:* the proofs that `XdpAgg` on one CPU sends exact sums, keeps its counts and implements
   `Aggregation` with its quota, for every traffic.
6. *Done:* the proof that the two aggregators of `Parity` agree, with an invariant that couples their
   tables, and that the fuzz harness mirrors both.
7. *Open:* a `NoDetour` weaker than homes of their own, for slot tables of several entries that
   fill up: it would have to follow the probe chains until the first entry is freed.

## 7. Running it

```
tlc -config UserAggQuota.cfg MCUserAgg      # and so on, one .cfg per run
tlapm UserAggProofs.tla
tlapm NetSumProofs.tla                      # GradProtoProofs, LaneSumProofs, ParityProofs
tlapm XdpAggProofs.tla                      # XdpAggQuotaProofs, XdpAggRefinementProofs
```
