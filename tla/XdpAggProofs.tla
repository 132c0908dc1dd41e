----------------------------- MODULE XdpAggProofs -----------------------------
(***************************************************************************)
(* Theorems about XdpAgg, for any number of CPUs, every size of the maps   *)
(* and every traffic; those about sums and quotas for traffic in which     *)
(* every worker's frame arrives at most once (OnceTraffic).                *)
(***************************************************************************)
EXTENDS XdpAgg, TLAPS, FiniteSetTheorems

(***************************************************************************)
(* Type correctness.  What the program knows at a label is added to it.    *)
(***************************************************************************)
Pointing == {"increment", "newjob", "lock", "complete", "delete", "decrement",
             "subtract", "tx"}

MapsTyped ==
    /\ slot_map \in [Keys -> Elems \cup {NULL}]
    /\ elem \in [Elems -> GradSlot]
    /\ config_map \in Configs
    /\ Tracked \subseteq Jobs /\ job_quota_map \in [Tracked -> 0 .. UINT32 - 1]
    /\ DOMAIN drop_stats \subseteq Stats /\ drop_stats \in [DOMAIN drop_stats -> Nat]
    /\ wire \subseteq Frames
    /\ emitted \in Seq(Emission)
    /\ drops \subseteq Stats \X Frames
    /\ closed \subseteq Keys

LocalsTyped ==
    /\ pc \in [CPUs -> Labels]
    /\ frame \in [CPUs -> Frames \cup {NoFrame}]
    /\ slot \in [CPUs -> Elems \cup {NULL}]
    /\ max_slots \in [CPUs -> Nat]
    /\ final \in [CPUs -> Emission \cup {NoFinal}]

\* A CPU in the program has a well-formed frame, a pointer from the lookup on, a
\* sum where one is sent, and an entry where one is decremented.
Known(c) ==
    /\ pc[c] # "idle" => frame[c] \in Frames /\ WellFormed(frame[c])
    /\ pc[c] \in Pointing => slot[c] # NULL
    /\ pc[c] \in {"complete", "tx"} => final[c] # NoFinal
    /\ pc[c] = "subtract" => JobOf(c) \in Tracked

TypeInv == MapsTyped /\ LocalsTyped /\ \A c \in CPUs : Known(c)

LEMMA FrameType ==
    ASSUME NEW f \in Frames
    PROVE  /\ f.key \in Keys /\ f.key.job_id \in Jobs
           /\ f.worker_id \in Nat /\ f.num_workers \in Nat /\ f.chunk_len \in Nat
           /\ WellFormed(f) => f.worker_id \in Workers
<1>1. f \in Frame
  BY RunAssumption
<1>2. f.key \in Keys /\ f.worker_id \in Nat /\ f.num_workers \in Nat /\ f.chunk_len \in Nat
  BY <1>1 DEF Frame
<1>3. f.key.job_id \in Jobs
  BY <1>2 DEF Keys
<1>4. WellFormed(f) => f.worker_id \in Workers
  BY <1>2, MapAssumption DEF WellFormed, Workers
<1>5. QED BY <1>2, <1>3, <1>4

LEMMA HeldType ==
    ASSUME TypeInv, NEW c \in CPUs, pc[c] # "idle"
    PROVE  /\ frame[c] \in Frames /\ KeyOf(c) \in Keys /\ JobOf(c) \in Jobs
           /\ frame[c].worker_id \in Workers
           /\ frame[c].num_workers \in Nat /\ frame[c].chunk_len \in Nat
BY FrameType DEF TypeInv, Known, KeyOf, JobOf

\* The program of c returns.
LEMMA ReturnTyped ==
    ASSUME TypeInv, NEW c \in CPUs, Return(c), Tracked' = Tracked
    PROVE  LocalsTyped' /\ \A d \in CPUs : Known(d)'
<1>1. LocalsTyped'
  BY DEF TypeInv, LocalsTyped, Return, Goto, Labels
<1>2. ASSUME NEW d \in CPUs PROVE Known(d)'
  <2>1. CASE d = c
    <3>1. pc'[d] = "idle"
      BY <2>1 DEF TypeInv, LocalsTyped, Return, Goto
    <3>2. QED BY <3>1 DEF Known, Pointing
  <2>2. CASE d # c
    <3>1. pc'[d] = pc[d] /\ frame'[d] = frame[d] /\ slot'[d] = slot[d] /\ final'[d] = final[d]
      BY <2>2 DEF TypeInv, LocalsTyped, Return, Goto
    <3>2. Known(d)
      BY DEF TypeInv
    <3>3. QED BY <3>1, <3>2 DEF Known, JobOf
  <2>3. QED BY <2>1, <2>2
<1>3. QED BY <1>1, <1>2

\* The program of c goes on at a label.
LEMMA GotoTyped ==
    ASSUME TypeInv, NEW c \in CPUs, NEW label \in Labels, pc[c] # "idle",
           Goto(c, label), UNCHANGED frame, LocalsTyped',
           \A d \in CPUs \ {c} : slot'[d] = slot[d] /\ final'[d] = final[d],
           Tracked \subseteq Tracked',
           label \in Pointing => slot'[c] # NULL,
           label \in {"complete", "tx"} => final'[c] # NoFinal,
           label = "subtract" => JobOf(c) \in Tracked
    PROVE  \A d \in CPUs : Known(d)'
<1>1. ASSUME NEW d \in CPUs, d = c PROVE Known(d)'
  <2>1. pc'[d] = label /\ frame'[d] = frame[d]
    BY <1>1 DEF TypeInv, LocalsTyped, Goto
  <2>2. Known(d)
    BY DEF TypeInv
  <2>3. QED BY <1>1, <2>1, <2>2 DEF Known, JobOf
<1>2. ASSUME NEW d \in CPUs, d # c PROVE Known(d)'
  <2>1. pc'[d] = pc[d] /\ frame'[d] = frame[d] /\ slot'[d] = slot[d] /\ final'[d] = final[d]
    BY <1>2 DEF TypeInv, LocalsTyped, Goto
  <2>2. Known(d)
    BY DEF TypeInv
  <2>3. QED BY <2>1, <2>2 DEF Known, JobOf
<1>3. QED BY <1>1, <1>2

\* ... and changes nothing but shared maps.
LEMMA JumpTyped ==
    ASSUME TypeInv, NEW c \in CPUs, NEW label \in Labels, pc[c] # "idle",
           Goto(c, label), UNCHANGED locals,
           Tracked \subseteq Tracked',
           label \in Pointing => slot[c] # NULL,
           label \in {"complete", "tx"} => final[c] # NoFinal,
           label = "subtract" => JobOf(c) \in Tracked
    PROVE  LocalsTyped' /\ \A d \in CPUs : Known(d)'
<1>1. LocalsTyped'
  BY DEF TypeInv, LocalsTyped, Goto, locals
<1>2. QED BY <1>1, GotoTyped DEF locals

LEMMA PutType ==
    ASSUME NEW f, NEW x, NEW v, NEW S, f \in [DOMAIN f -> S], v \in S
    PROVE  /\ Put(f, x, v) \in [DOMAIN Put(f, x, v) -> S]
           /\ DOMAIN Put(f, x, v) = DOMAIN f \cup {x}
           /\ \A y \in DOMAIN f : y # x => Put(f, x, v)[y] = f[y]
           /\ Put(f, x, v)[x] = v
BY DEF Put

LEMMA FreshType ==
    ASSUME NEW len \in Nat, NEW n \in Nat
    PROVE  Fresh(len, n) \in GradSlot
BY DEF Fresh, GradSlot

LEMMA TypeInit == Init => TypeInv
<1>1. SUFFICES ASSUME Init PROVE TypeInv
  OBVIOUS
<1>2. MapsTyped
  <2>1. elem \in [Elems -> GradSlot]
    BY <1>1, FreshType DEF Init
  <2>2. job_quota_map \in [Tracked -> 0 .. UINT32 - 1] /\ Tracked = {}
    BY <1>1 DEF Init, Tracked
  <2>3. drop_stats \in [DOMAIN drop_stats -> Nat] /\ DOMAIN drop_stats = {}
    BY <1>1 DEF Init
  <2>4. emitted \in Seq(Emission)
    BY <1>1 DEF Init
  <2>5. wire \subseteq Frames
    BY <1>1 DEF Init, Frames
  <2>6. QED BY <1>1, <2>1, <2>2, <2>3, <2>4, <2>5 DEF Init, MapsTyped
<1>3. LocalsTyped
  BY <1>1 DEF Init, LocalsTyped, Labels
<1>4. \A c \in CPUs : Known(c)
  BY <1>1 DEF Init, Known, Pointing
<1>5. QED BY <1>2, <1>3, <1>4 DEF TypeInv

LEMMA MapsKept ==
    ASSUME TypeInv, UNCHANGED shared, drops' \subseteq Stats \X Frames, closed' \subseteq Keys
    PROVE  MapsTyped'
BY DEF TypeInv, MapsTyped, shared, Tracked

LEMMA TypeReceive ==
    ASSUME TypeInv, NEW c \in CPUs, NEW f, Receive(c, f)
    PROVE  /\ f \in Frames /\ f.key \in Keys /\ wire' \subseteq Frames
           /\ pc[c] = "idle"
BY FrameType DEF TypeInv, MapsTyped, Receive

LEMMA TypeRx ==
    ASSUME TypeInv, NEW c \in CPUs, Rx(c)
    PROVE  TypeInv'
<1>1. PICK f \in wire : Receive(c, f)
  BY DEF Rx, RxIgnored, RxHit, RxMiss
<1>2. UNCHANGED <<slot_map, elem, config_map, job_quota_map, drop_stats, emitted, history>>
  BY DEF Rx, RxIgnored, RxHit, RxMiss
<1>3. MapsTyped'
  BY <1>1, <1>2, TypeReceive DEF TypeInv, MapsTyped, history, Tracked
<1>4. Tracked' = Tracked
  BY <1>2 DEF Tracked
<1>5. CASE RxIgnored(c)
  <2>1. UNCHANGED <<pc, locals>>
    BY <1>5 DEF RxIgnored
  <2>2. QED BY <1>3, <1>4, <2>1 DEF TypeInv, LocalsTyped, Known, JobOf, locals
<1>6. CASE RxHit(c)
  <2>1. PICK g \in wire :
          /\ Receive(c, g) /\ WellFormed(g) /\ slot_map[g.key] # NULL
          /\ frame' = [frame EXCEPT ![c] = g]
          /\ slot' = [slot EXCEPT ![c] = slot_map[g.key]]
          /\ Goto(c, "lock") /\ UNCHANGED <<max_slots, final>>
    BY <1>6 DEF RxHit
  <2>2. g \in Frames /\ g.key \in Keys
    BY <2>1, TypeReceive
  <2>3. slot_map[g.key] \in Elems
    BY <2>1, <2>2 DEF TypeInv, MapsTyped
  <2>4. LocalsTyped'
    BY <2>1, <2>2, <2>3 DEF TypeInv, LocalsTyped, Goto, Labels
  <2>5. ASSUME NEW d \in CPUs PROVE Known(d)'
    <3>1. CASE d = c
      BY <2>1, <2>2, <3>1 DEF TypeInv, LocalsTyped, Goto, Known
    <3>2. CASE d # c
      BY <1>4, <2>1, <3>2 DEF TypeInv, LocalsTyped, Goto, Known, JobOf
    <3>3. QED BY <3>1, <3>2
  <2>6. QED BY <1>3, <2>4, <2>5 DEF TypeInv
<1>7. CASE RxMiss(c)
  <2>1. PICK g \in wire :
          /\ Receive(c, g) /\ WellFormed(g)
          /\ frame' = [frame EXCEPT ![c] = g]
          /\ Goto(c, "precheck") /\ UNCHANGED <<slot, max_slots, final>>
    BY <1>7 DEF RxMiss
  <2>2. g \in Frames
    BY <2>1, TypeReceive
  <2>3. LocalsTyped'
    BY <2>1, <2>2 DEF TypeInv, LocalsTyped, Goto, Labels
  <2>4. ASSUME NEW d \in CPUs PROVE Known(d)'
    <3>1. CASE d = c
      BY <2>1, <2>2, <3>1 DEF TypeInv, LocalsTyped, Goto, Known, Pointing
    <3>2. CASE d # c
      BY <1>4, <2>1, <3>2 DEF TypeInv, LocalsTyped, Goto, Known, JobOf
    <3>3. QED BY <3>1, <3>2
  <2>5. QED BY <1>3, <2>3, <2>4 DEF TypeInv
<1>8. QED BY <1>5, <1>6, <1>7 DEF Rx

\* From the frame to a slot: nothing but locals, the slot that is made, and what
\* was dropped.
LEMMA TypePrecheck ==
    ASSUME TypeInv, NEW c \in CPUs, Precheck(c)
    PROVE  TypeInv'
<1> DEFINE limit == IF config_map = NoConfig THEN 0 ELSE config_map
           label == IF limit > 0 THEN "quota" ELSE "create"
<1>1. limit \in Nat
  BY RunAssumption DEF TypeInv, MapsTyped
<1>2. /\ pc[c] # "idle" /\ Goto(c, label) /\ max_slots' = [max_slots EXCEPT ![c] = limit]
      /\ UNCHANGED <<shared, frame, slot, final, history>>
  BY DEF Precheck
<1>3. label \in {"quota", "create"}
  OBVIOUS
<1> HIDE DEF limit, label
<1>4. MapsTyped'
  BY <1>2, MapsKept DEF TypeInv, MapsTyped, history
<1>5. LocalsTyped'
  BY <1>1, <1>2, <1>3 DEF TypeInv, LocalsTyped, Goto, Labels
<1>6. Tracked' = Tracked
  BY <1>2 DEF shared, Tracked
<1>7. \A d \in CPUs : Known(d)'
  BY <1>2, <1>3, <1>5, <1>6, GotoTyped DEF Labels, Pointing
<1>8. QED BY <1>4, <1>5, <1>7 DEF TypeInv

LEMMA TypeQuota ==
    ASSUME TypeInv, NEW c \in CPUs,
           QuotaAdmits(c) \/ QuotaRejects(c) \/ CreateLoses(c)
    PROVE  TypeInv'
<1>1. PICK label \in {"create", "stat", "lost"} :
        /\ pc[c] # "idle" /\ Goto(c, label) /\ UNCHANGED <<shared, locals, closed>>
  BY DEF QuotaAdmits, QuotaRejects, CreateLoses, history
<1>2. drops' = drops \/ drops' = drops \cup {<<STAT_DROPPED_FAIRNESS_QUOTA, frame[c]>>}
  BY DEF QuotaAdmits, QuotaRejects, CreateLoses, history
<1>3. drops' \subseteq Stats \X Frames
  <2>1. <<STAT_DROPPED_FAIRNESS_QUOTA, frame[c]>> \in Stats \X Frames
    BY <1>1, HeldType DEF Stats
  <2>2. QED BY <1>2, <2>1 DEF TypeInv, MapsTyped
<1>4. MapsTyped'
  BY <1>1, <1>3, MapsKept DEF TypeInv, MapsTyped
<1>5. Tracked' = Tracked
  BY <1>1 DEF shared, Tracked
<1>6. LocalsTyped' /\ \A d \in CPUs : Known(d)'
  BY <1>1, <1>5, JumpTyped DEF Labels, Pointing
<1>7. QED BY <1>4, <1>6 DEF TypeInv

LEMMA TypeCreateWins ==
    ASSUME TypeInv, NEW c \in CPUs, CreateWins(c)
    PROVE  TypeInv'
<1>1. PICK e \in FreeElems :
        /\ slot_map' = [slot_map EXCEPT ![KeyOf(c)] = e]
        /\ elem' = [elem EXCEPT ![e] = Fresh(frame[c].chunk_len, frame[c].num_workers)]
  BY DEF CreateWins
<1>2. /\ pc[c] # "idle" /\ Goto(c, "won")
      /\ UNCHANGED <<config_map, job_quota_map, drop_stats, wire, emitted, locals, history>>
  BY DEF CreateWins
<1>3. e \in Elems
  BY DEF FreeElems
<1>4. Fresh(frame[c].chunk_len, frame[c].num_workers) \in GradSlot
  BY <1>2, HeldType, FreshType
<1>5. MapsTyped'
  BY <1>1, <1>2, <1>3, <1>4 DEF TypeInv, MapsTyped, Tracked, history
<1>6. Tracked' = Tracked
  BY <1>2 DEF Tracked
<1>7. LocalsTyped' /\ \A d \in CPUs : Known(d)'
  BY <1>2, <1>6, JumpTyped DEF Labels, Pointing
<1>8. QED BY <1>5, <1>7 DEF TypeInv

LEMMA TypeRelookup ==
    ASSUME TypeInv, NEW c \in CPUs, Relookup(c)
    PROVE  TypeInv'
<1> DEFINE label == IF pc[c] = "won" THEN "increment" ELSE "lock"
<1>1. /\ pc[c] # "idle" /\ Goto(c, label) /\ slot_map[KeyOf(c)] # NULL
      /\ slot' = [slot EXCEPT ![c] = slot_map[KeyOf(c)]]
      /\ UNCHANGED <<shared, frame, max_slots, final, history>>
  BY DEF Relookup
<1>2. label \in {"increment", "lock"}
  OBVIOUS
<1> HIDE DEF label
<1>3. slot_map[KeyOf(c)] \in Elems
  BY <1>1, HeldType DEF TypeInv, MapsTyped
<1>4. MapsTyped'
  BY <1>1, MapsKept DEF TypeInv, MapsTyped, history
<1>5. LocalsTyped'
  BY <1>1, <1>2, <1>3 DEF TypeInv, LocalsTyped, Goto, Labels
<1>6. Tracked' = Tracked
  BY <1>1 DEF shared, Tracked
<1>7. slot'[c] # NULL /\ \A d \in CPUs \ {c} : slot'[d] = slot[d] /\ final'[d] = final[d]
  BY <1>1 DEF TypeInv, LocalsTyped
<1>8. \A d \in CPUs : Known(d)'
  BY <1>1, <1>2, <1>5, <1>6, <1>7, GotoTyped DEF Labels, Pointing
<1>9. QED BY <1>4, <1>5, <1>8 DEF TypeInv

\* The ways out that leave all maps alone.
LEMMA TypeReturns ==
    ASSUME TypeInv, NEW c \in CPUs, RelookupFails(c) \/ LockRejects(c)
    PROVE  TypeInv'
<1>1. Return(c) /\ UNCHANGED <<shared, history>>
  BY DEF RelookupFails, LockRejects
<1>2. MapsTyped'
  BY <1>1, MapsKept DEF TypeInv, MapsTyped, history
<1>3. Tracked' = Tracked
  BY <1>1 DEF shared, Tracked
<1>4. QED BY <1>1, <1>2, <1>3, ReturnTyped DEF TypeInv

\* job_quota_map: entries are added, and changed, modulo 2^32.
LEMMA QuotaMapType ==
    ASSUME MapsTyped, NEW j \in Jobs, NEW v \in 0 .. UINT32 - 1,
           job_quota_map' = Put(job_quota_map, j, v)
    PROVE  /\ Tracked' = Tracked \cup {j} /\ Tracked' \subseteq Jobs
           /\ job_quota_map' \in [Tracked' -> 0 .. UINT32 - 1]
           /\ job_quota_map'[j] = v
           /\ \A i \in Tracked : i # j => job_quota_map'[i] = job_quota_map[i]
<1> DEFINE S == 0 .. UINT32 - 1
<1>1. job_quota_map \in [DOMAIN job_quota_map -> S] /\ v \in S /\ Tracked \subseteq Jobs
  BY DEF MapsTyped, Tracked
<1> HIDE DEF S
<1>2. /\ job_quota_map' \in [DOMAIN job_quota_map' -> S]
      /\ DOMAIN job_quota_map' = DOMAIN job_quota_map \cup {j}
      /\ \A i \in DOMAIN job_quota_map : i # j => job_quota_map'[i] = job_quota_map[i]
      /\ job_quota_map'[j] = v
  <2> DEFINE new == Put(job_quota_map, j, v)
  <2>1. new \in [DOMAIN new -> S] /\ DOMAIN new = DOMAIN job_quota_map \cup {j}
        /\ (\A i \in DOMAIN job_quota_map : i # j => new[i] = job_quota_map[i])
        /\ new[j] = v
    BY <1>1 DEF Put
  <2>2. job_quota_map' = new
    OBVIOUS
  <2> HIDE DEF new
  <2>3. QED BY <2>1, <2>2
<1>3. QED BY <1>1, <1>2 DEF S, Tracked

LEMMA Wraps ==
    ASSUME NEW n \in Int
    PROVE  n % UINT32 \in 0 .. UINT32 - 1
BY MapAssumption, SMT

LEMMA TypeIncrement ==
    ASSUME TypeInv, NEW c \in CPUs, Increment(c) \/ IncrementNew(c)
    PROVE  TypeInv'
<1>1. PICK label \in {"lock", "newjob"} :
        /\ pc[c] \in {"increment", "newjob"} /\ Goto(c, label)
        /\ UNCHANGED <<slot_map, elem, config_map, drop_stats, wire, emitted, locals, history>>
  BY DEF Increment, IncrementNew
<1>2. /\ Tracked' \subseteq Jobs /\ Tracked \subseteq Tracked'
      /\ job_quota_map' \in [Tracked' -> 0 .. UINT32 - 1]
  <2>1. JobOf(c) \in Jobs
    BY <1>1, HeldType
  <2>2. CASE UNCHANGED job_quota_map
    BY <2>2 DEF TypeInv, MapsTyped, Tracked
  <2>3. CASE JobOf(c) \in Tracked /\ AddOne(JobOf(c))
    <3>1. job_quota_map[JobOf(c)] \in 0 .. UINT32 - 1
      BY <2>3 DEF TypeInv, MapsTyped
    <3>2. job_quota_map[JobOf(c)] + 1 \in Int
      BY <3>1, SMT
    <3>3. QED BY <2>1, <2>3, <3>2, Wraps, QuotaMapType DEF TypeInv, AddOne
  <2>4. CASE job_quota_map' = Put(job_quota_map, JobOf(c), FreshCount)
            /\ JobOf(c) \notin Tracked /\ Cardinality(Tracked) < JOB_QUOTA_ENTRIES
    <3>1. FreshCount \in 0 .. UINT32 - 1
      BY WidthAssumption, MapAssumption, FS_CardinalityType, RunAssumption, SMT DEF FreshCount
    <3>2. QED BY <2>1, <2>4, <3>1, QuotaMapType DEF TypeInv
  <2>5. QED BY <2>2, <2>3, <2>4 DEF Increment, IncrementNew
<1>3. MapsTyped'
  BY <1>1, <1>2 DEF TypeInv, MapsTyped, history
<1>4. LocalsTyped' /\ \A d \in CPUs : Known(d)'
  <2>1. pc[c] # "idle" /\ slot[c] # NULL
    BY <1>1 DEF TypeInv, Known, Pointing
  <2>2. QED BY <1>1, <1>2, <2>1, JumpTyped DEF Labels
<1>5. QED BY <1>3, <1>4 DEF TypeInv

LEMMA AccumulatedType ==
    ASSUME NEW s \in GradSlot, NEW f \in Frames, WellFormed(f)
    PROVE  /\ Accumulated(s, f) \in GradSlot
           /\ Accumulated(s, f).chunk_len = s.chunk_len
           /\ Accumulated(s, f).num_workers_expected = s.num_workers_expected
           /\ Accumulated(s, f).seen_worker = s.seen_worker \cup {f.worker_id}
           /\ Accumulated(s, f).contributions_received = s.contributions_received + 1
           /\ Accumulated(s, f).sum =
                 Summed(s.sum, <<f.key, f.worker_id>>)
<1> DEFINE w == f.worker_id
           t == <<f.key, f.worker_id>>
           seen == s.seen_worker \cup {w}
           sum == Summed(s.sum, t)
           count == s.contributions_received + 1
<1>1. w \in Workers /\ t \in Tags
  BY FrameType DEF Tags
<1>2. s.sum[t] + 1 \in Nat /\ count \in Nat /\ s.sum \in [Tags -> Nat]
  BY <1>1 DEF GradSlot
<1>3. sum \in [Tags -> Nat] /\ seen \in SUBSET Workers
  BY <1>1, <1>2 DEF GradSlot, Summed
<1>4. Accumulated(s, f) = [s EXCEPT !.seen_worker = seen, !.sum = sum,
                                    !.contributions_received = count]
  BY DEF Accumulated
<1> HIDE DEF w, t, seen, sum, count
<1>5. /\ [s EXCEPT !.seen_worker = seen, !.sum = sum, !.contributions_received = count]
            \in GradSlot
      /\ Accumulated(s, f).chunk_len = s.chunk_len
      /\ Accumulated(s, f).num_workers_expected = s.num_workers_expected
      /\ Accumulated(s, f).seen_worker = seen
      /\ Accumulated(s, f).contributions_received = count
      /\ Accumulated(s, f).sum = sum
  BY <1>2, <1>3, <1>4, ZenonT(30) DEF GradSlot
<1>6. QED BY <1>4, <1>5 DEF w, t, seen, sum, count

LEMMA LockType ==
    ASSUME TypeInv, NEW c \in CPUs, pc[c] = "lock"
    PROVE  /\ slot[c] \in Elems /\ elem[slot[c]] \in GradSlot
           /\ frame[c] \in Frames /\ WellFormed(frame[c])
           /\ Accumulated(elem[slot[c]], frame[c]) \in GradSlot
<1>1. slot[c] \in Elems
  BY DEF TypeInv, LocalsTyped, Known, Pointing
<1>2. elem[slot[c]] \in GradSlot
  BY <1>1 DEF TypeInv, MapsTyped
<1>3. frame[c] \in Frames /\ WellFormed(frame[c])
  BY DEF TypeInv, Known
<1>4. QED BY <1>1, <1>2, <1>3, AccumulatedType

LEMMA TypeAccumulates ==
    ASSUME TypeInv, NEW c \in CPUs, Accumulates(c, Accumulated(elem[slot[c]], frame[c])),
           closed' \subseteq Keys
    PROVE  MapsTyped' /\ Tracked' = Tracked
<1>1. /\ pc[c] = "lock"
      /\ elem' = [elem EXCEPT ![slot[c]] = Accumulated(elem[slot[c]], frame[c])]
      /\ UNCHANGED <<slot_map, config_map, job_quota_map, drop_stats, wire, emitted, drops>>
  BY DEF Accumulates
<1>2. elem' \in [Elems -> GradSlot]
  BY <1>1, LockType DEF TypeInv, MapsTyped
<1>3. QED BY <1>1, <1>2 DEF TypeInv, MapsTyped, Tracked

LEMMA TypeLockPartial ==
    ASSUME TypeInv, NEW c \in CPUs, LockPartial(c)
    PROVE  TypeInv'
<1>1. Accumulates(c, Accumulated(elem[slot[c]], frame[c])) /\ Return(c) /\ closed' = closed
  BY DEF LockPartial
<1>2. MapsTyped' /\ Tracked' = Tracked
  BY <1>1, TypeAccumulates DEF TypeInv, MapsTyped
<1>3. QED BY <1>1, <1>2, ReturnTyped DEF TypeInv

LEMMA TypeLockCompletes ==
    ASSUME TypeInv, NEW c \in CPUs, LockCompletes(c)
    PROVE  TypeInv'
<1> DEFINE s == Accumulated(elem[slot[c]], frame[c])
           e == [sent |-> TRUE, key |-> KeyOf(c), chunk_len |-> s.chunk_len,
                 num_workers |-> s.num_workers_expected, sum |-> s.sum]
<1>1. /\ Accumulates(c, s) /\ pc[c] = "lock"
      /\ final' = [final EXCEPT ![c] = e] /\ closed' = closed \cup {KeyOf(c)}
      /\ Goto(c, "complete") /\ UNCHANGED <<frame, slot, max_slots>>
  BY DEF LockCompletes, Accumulates
<1>2. s \in GradSlot /\ KeyOf(c) \in Keys
  BY <1>1, LockType, HeldType
<1>3. e \in Emission /\ e # NoFinal
  BY <1>2 DEF Emission, GradSlot, NoFinal
<1> HIDE DEF s, e
<1>4. MapsTyped' /\ Tracked' = Tracked
  BY <1>1, <1>2, TypeAccumulates DEF TypeInv, MapsTyped, s
<1>5. LocalsTyped'
  BY <1>1, <1>3 DEF TypeInv, LocalsTyped, Goto, Labels
<1>6. final'[c] = e /\ \A d \in CPUs \ {c} : final'[d] = final[d]
  BY <1>1 DEF TypeInv, LocalsTyped
<1>7. slot[c] # NULL
  BY <1>1 DEF TypeInv, Known, Pointing
<1>8. \A d \in CPUs : Known(d)'
  BY <1>1, <1>3, <1>4, <1>5, <1>6, <1>7, GotoTyped DEF Labels
<1>9. QED BY <1>4, <1>5, <1>8 DEF TypeInv

LEMMA TypeLookupConfig ==
    ASSUME TypeInv, NEW c \in CPUs, LookupConfig(c)
    PROVE  TypeInv'
<1>1. /\ pc[c] = "complete" /\ Goto(c, "delete")
      /\ UNCHANGED <<shared, frame, slot, max_slots, history>>
      /\ final' = [final EXCEPT ![c] = NoFinal] \/ final' = final
  BY DEF LookupConfig
<1>2. MapsTyped'
  BY <1>1, MapsKept DEF TypeInv, MapsTyped, history
<1>3. LocalsTyped'
  BY <1>1 DEF TypeInv, LocalsTyped, Goto, Labels
<1>4. Tracked' = Tracked
  BY <1>1 DEF shared, Tracked
<1>5. slot[c] # NULL /\ \A d \in CPUs \ {c} : final'[d] = final[d]
  BY <1>1 DEF TypeInv, LocalsTyped, Known, Pointing
<1>6. \A d \in CPUs : Known(d)'
  BY <1>1, <1>3, <1>4, <1>5, GotoTyped DEF Labels
<1>7. QED BY <1>2, <1>3, <1>6 DEF TypeInv

LEMMA TypeDelete ==
    ASSUME TypeInv, NEW c \in CPUs, Delete(c)
    PROVE  TypeInv'
<1>1. /\ pc[c] = "delete" /\ Goto(c, "decrement")
      /\ slot_map' = [slot_map EXCEPT ![KeyOf(c)] = NULL]
      /\ UNCHANGED <<elem, config_map, job_quota_map, drop_stats, wire, emitted, locals,
                     history>>
  BY DEF Delete
<1>2. MapsTyped' /\ Tracked' = Tracked
  BY <1>1 DEF TypeInv, MapsTyped, history, Tracked
<1>3. slot[c] # NULL
  BY <1>1 DEF TypeInv, Known, Pointing
<1>4. LocalsTyped' /\ \A d \in CPUs : Known(d)'
  BY <1>1, <1>2, <1>3, JumpTyped DEF Labels
<1>5. QED BY <1>2, <1>4 DEF TypeInv

\* job_quota_decrement(), and where it leads.
LEMMA AfterDecrementGoes ==
    ASSUME TypeInv, NEW c \in CPUs, AfterDecrement(c), pc[c] # "idle"
    PROVE  /\ drops' \subseteq Stats \X Frames
           /\ \E label \in {"stat", "tx"} :
                 Goto(c, label) /\ (label = "tx" => final[c] # NoFinal)
<1>1. CASE final[c] = NoFinal
  <2>1. drops' = drops \cup {<<STAT_DROPPED_NO_CONFIG, frame[c]>>} /\ Goto(c, "stat")
    BY <1>1 DEF AfterDecrement
  <2>2. <<STAT_DROPPED_NO_CONFIG, frame[c]>> \in Stats \X Frames
    BY HeldType DEF Stats
  <2>3. QED BY <2>1, <2>2 DEF TypeInv, MapsTyped
<1>2. CASE final[c] # NoFinal
  BY <1>2 DEF AfterDecrement, TypeInv, MapsTyped
<1>3. QED BY <1>1, <1>2

LEMMA TypeDecrementTest ==
    ASSUME TypeInv, NEW c \in CPUs, DecrementTest(c)
    PROVE  TypeInv'
<1>1. pc[c] = "decrement" /\ UNCHANGED <<shared, locals, closed>>
  BY DEF DecrementTest
<1>2. /\ drops' \subseteq Stats \X Frames
      /\ \E label \in {"subtract", "stat", "tx"} :
            /\ Goto(c, label)
            /\ label = "tx" => final[c] # NoFinal
            /\ label = "subtract" => JobOf(c) \in Tracked
  <2>1. CASE JobOf(c) \in Tracked /\ job_quota_map[JobOf(c)] > 0
    BY <2>1 DEF DecrementTest, TypeInv, MapsTyped
  <2>2. CASE ~(JobOf(c) \in Tracked /\ job_quota_map[JobOf(c)] > 0)
    BY <1>1, <2>2, AfterDecrementGoes DEF DecrementTest
  <2>3. QED BY <2>1, <2>2
<1>3. MapsTyped'
  BY <1>1, <1>2, MapsKept DEF TypeInv, MapsTyped
<1>4. Tracked' = Tracked /\ slot[c] # NULL
  BY <1>1 DEF shared, Tracked, TypeInv, Known, Pointing
<1>5. LocalsTyped' /\ \A d \in CPUs : Known(d)'
  BY <1>1, <1>2, <1>4, JumpTyped DEF Labels
<1>6. QED BY <1>3, <1>5 DEF TypeInv

LEMMA TypeSubtract ==
    ASSUME TypeInv, NEW c \in CPUs, Subtract(c)
    PROVE  TypeInv'
<1> DEFINE j == JobOf(c)
           v == (job_quota_map[j] - 1) % UINT32
<1>1. /\ pc[c] = "subtract" /\ AfterDecrement(c) /\ job_quota_map' = Put(job_quota_map, j, v)
      /\ UNCHANGED <<slot_map, elem, config_map, drop_stats, wire, emitted, locals, closed>>
  BY DEF Subtract
<1>2. j \in Tracked /\ j \in Jobs
  BY <1>1 DEF TypeInv, MapsTyped, Known
<1>3. v \in 0 .. UINT32 - 1
  <2>1. job_quota_map[j] \in 0 .. UINT32 - 1
    BY <1>2 DEF TypeInv, MapsTyped
  <2>2. job_quota_map[j] - 1 \in Int
    BY <2>1, SMT
  <2>3. QED BY <2>2, Wraps
<1> HIDE DEF j, v
<1>4. Tracked' = Tracked /\ job_quota_map' \in [Tracked' -> 0 .. UINT32 - 1]
  BY <1>1, <1>2, <1>3, QuotaMapType DEF TypeInv
<1>5. /\ drops' \subseteq Stats \X Frames
      /\ \E label \in {"stat", "tx"} :
            Goto(c, label) /\ (label = "tx" => final[c] # NoFinal)
  BY <1>1, AfterDecrementGoes
<1>6. MapsTyped'
  BY <1>1, <1>4, <1>5 DEF TypeInv, MapsTyped
<1>7. slot[c] # NULL
  BY <1>1 DEF TypeInv, Known, Pointing
<1>8. LocalsTyped' /\ \A d \in CPUs : Known(d)'
  BY <1>1, <1>4, <1>5, <1>7, JumpTyped DEF Labels
<1>9. QED BY <1>6, <1>8 DEF TypeInv

LEMMA TypeTransmit ==
    ASSUME TypeInv, NEW c \in CPUs, Transmit(c)
    PROVE  TypeInv'
<1>1. /\ pc[c] = "tx" /\ emitted' = Append(emitted, final[c]) /\ Return(c)
      /\ UNCHANGED <<slot_map, elem, config_map, job_quota_map, drop_stats, wire, history>>
  BY DEF Transmit
<1>2. final[c] \in Emission
  BY <1>1 DEF TypeInv, LocalsTyped, Known
<1>3. emitted' \in Seq(Emission)
  BY <1>1, <1>2 DEF TypeInv, MapsTyped
<1>4. MapsTyped' /\ Tracked' = Tracked
  BY <1>1, <1>3 DEF TypeInv, MapsTyped, history, Tracked
<1>5. QED BY <1>1, <1>4, ReturnTyped DEF TypeInv

LEMMA DropStatsType ==
    ASSUME MapsTyped, NEW s \in Stats, NEW v \in Nat, drop_stats' = Put(drop_stats, s, v)
    PROVE  DOMAIN drop_stats' \subseteq Stats /\ drop_stats' \in [DOMAIN drop_stats' -> Nat]
BY DEF MapsTyped, Put

LEMMA TypeBump ==
    ASSUME TypeInv, NEW c \in CPUs, BumpStat(c) \/ BumpNewStat(c)
    PROVE  TypeInv'
<1>1. /\ pc[c] \in {"stat", "newstat"}
      /\ UNCHANGED <<slot_map, elem, config_map, job_quota_map, wire, emitted, history>>
  BY DEF BumpStat, BumpNewStat
<1>2. StatOf(c) \in Stats
  BY DEF StatOf, Stats
<1>3. Tracked' = Tracked
  BY <1>1 DEF Tracked
<1>4. CASE /\ Return(c)
           /\ \E v \in Nat : drop_stats' = Put(drop_stats, StatOf(c), v)
  <2>1. MapsTyped'
    BY <1>1, <1>2, <1>4, DropStatsType DEF TypeInv, MapsTyped, history, Tracked
  <2>2. QED BY <1>3, <1>4, <2>1, ReturnTyped DEF TypeInv
<1>5. CASE Goto(c, "newstat") /\ UNCHANGED <<drop_stats, locals>>
  <2>1. MapsTyped'
    BY <1>1, <1>5 DEF TypeInv, MapsTyped, history, Tracked
  <2>2. LocalsTyped' /\ \A d \in CPUs : Known(d)'
    BY <1>1, <1>3, <1>5, JumpTyped DEF Labels, Pointing
  <2>3. QED BY <2>1, <2>2 DEF TypeInv
<1>6. ASSUME BumpStat(c), StatOf(c) \in DOMAIN drop_stats
      PROVE  Return(c) /\ \E v \in Nat : drop_stats' = Put(drop_stats, StatOf(c), v)
  <2>1. drop_stats[StatOf(c)] + 1 \in Nat
    BY <1>6 DEF TypeInv, MapsTyped
  <2>2. QED BY <1>6, <2>1 DEF BumpStat
<1>7. ASSUME BumpNewStat(c)
      PROVE  Return(c) /\ \E v \in Nat : drop_stats' = Put(drop_stats, StatOf(c), v)
  BY <1>7 DEF BumpNewStat, FirstCount
<1>8. QED BY <1>4, <1>5, <1>6, <1>7 DEF BumpStat

LEMMA TypeSetConfig == TypeInv /\ SetConfig => TypeInv'
BY DEF TypeInv, MapsTyped, LocalsTyped, Known, JobOf, Tracked, SetConfig, locals, history

LEMMA TypeStep == TypeInv /\ [Next]_vars => TypeInv'
<1>1. SUFFICES ASSUME TypeInv, [Next]_vars PROVE TypeInv'
  OBVIOUS
<1>2. CASE UNCHANGED vars
  BY <1>1, <1>2 DEF TypeInv, MapsTyped, LocalsTyped, Known, JobOf, Tracked, vars
<1>3. CASE SetConfig
  BY <1>1, <1>3, TypeSetConfig
<1>4. ASSUME NEW c \in CPUs, Rx(c) PROVE TypeInv'
  BY <1>1, <1>4, TypeRx
<1>5. ASSUME NEW c \in CPUs, Step(c) PROVE TypeInv'
  BY <1>1, <1>5, TypePrecheck, TypeQuota, TypeCreateWins, TypeRelookup, TypeReturns,
     TypeIncrement, TypeLockPartial, TypeLockCompletes, TypeLookupConfig, TypeDelete,
     TypeDecrementTest, TypeSubtract, TypeTransmit, TypeBump DEF Step
<1>6. QED BY <1>1, <1>2, <1>3, <1>4, <1>5 DEF Next

LEMMA TypeAlways == Spec => []TypeInv
BY TypeInit, TypeStep, PTL DEF Spec

\* Every variable keeps its type, and a CPU never runs without a frame, nor
\* follows a NULL pointer (xdp_agg.c:361-601), whatever the traffic.
THEOREM TypeCorrect == Spec => []TypeOK
<1>1. TypeInv => TypeOK
  BY DEF TypeInv, MapsTyped, LocalsTyped, Known, Pointing, TypeOK
<1>2. QED BY <1>1, TypeAlways, PTL

-----------------------------------------------------------------------------
(***************************************************************************)
(* Traffic without duplicates: OnceInv is inductive over TypeInv.  Added   *)
(* is that no two CPUs make the slot of one key, which the quota needs.    *)
(***************************************************************************)
Making == {"won", "increment", "newjob"}

MadeByOne ==
    \A c, d \in CPUs :
        pc[c] \in Making /\ pc[d] \in Making /\ KeyOf(c) = KeyOf(d) => c = d

Once ==
    /\ PointersLive /\ EmittedExact
    /\ MapInjective /\ HeldApart /\ SlotsTallied /\ StillAwaited /\ ClosedByOne
    /\ FinalExact
    /\ MadeByOne

LEMMA OnceInit == Init => Once
<1>1. SUFFICES ASSUME Init PROVE Once
  OBVIOUS
<1>2. (\A c \in CPUs : pc[c] = "idle") /\ emitted = <<>> /\ \A k \in Keys : slot_map[k] = NULL
  BY <1>1 DEF Init
<1>3. QED
  BY <1>2 DEF Once, PointersLive, EmittedExact, MapInjective, HeldApart, SlotsTallied,
     StillAwaited, ClosedByOne, FinalExact, MadeByOne, Before, Closing, After, Making

\* A worker a slot waits for is one more.
LEMMA Lacks ==
    ASSUME NEW S, NEW n \in Nat, S \subseteq 0 .. n - 1, NEW w \in 0 .. n - 1, w \notin S
    PROVE  /\ IsFiniteSet(S) /\ Cardinality(S) \in Nat /\ Cardinality(S) < n
           /\ Cardinality(S \cup {w}) = Cardinality(S) + 1
<1>1. IsFiniteSet(0 .. n - 1) /\ Cardinality(0 .. n - 1) = n
  <2>1. 0 \in Int /\ n - 1 \in Int
    OBVIOUS
  <2>2. /\ IsFiniteSet(0 .. n - 1)
        /\ Cardinality(0 .. n - 1) = IF 0 > n - 1 THEN 0 ELSE (n - 1) - 0 + 1
    BY <2>1, FS_Interval
  <2>3. QED BY <2>2
<1>2. IsFiniteSet(S) /\ Cardinality(S) \in Nat
  BY <1>1, FS_Subset, FS_CardinalityType
<1>3. IsFiniteSet(S \cup {w}) /\ Cardinality(S \cup {w}) = Cardinality(S) + 1
  BY <1>2, FS_AddElement
<1>4. Cardinality(S \cup {w}) <= n
  <2>1. S \cup {w} \subseteq 0 .. n - 1
    OBVIOUS
  <2>2. QED BY <1>1, <2>1, FS_Subset
<1>5. QED BY <1>2, <1>3, <1>4

\* A slot somebody has a contribution for is not complete.
LEMMA AwaitedOpen ==
    ASSUME TypeInv, OnceTraffic, Once, NEW c \in CPUs, pc[c] \in Before,
           slot_map[KeyOf(c)] # NULL
    PROVE  LET s == SlotOf(KeyOf(c))
               w == frame[c].worker_id
           IN  /\ s \in GradSlot /\ SlotTallied(KeyOf(c), s)
               /\ frame[c] \in Good \ wire
               /\ w \notin s.seen_worker /\ w \in 0 .. s.num_workers_expected - 1
               /\ s.contributions_received \in Nat
               /\ s.contributions_received < s.num_workers_expected
               /\ Cardinality(s.seen_worker \cup {w}) = s.contributions_received + 1
<1> DEFINE s == SlotOf(KeyOf(c))
           w == frame[c].worker_id
<1>1. pc[c] # "idle" /\ KeyOf(c) \in Keys
  BY HeldType DEF Before
<1>2. slot_map[KeyOf(c)] \in Elems
  BY <1>1 DEF TypeInv, MapsTyped
<1>3. s \in GradSlot
  BY <1>2 DEF TypeInv, MapsTyped, SlotOf
<1>4. SlotTallied(KeyOf(c), s)
  BY <1>1 DEF Once, SlotsTallied
<1>5. frame[c] \in Good \ wire
  BY <1>1 DEF Once, HeldApart
<1>6. w \notin s.seen_worker
  BY DEF Once, StillAwaited
<1>7. w \in Nat /\ w < frame[c].num_workers /\ frame[c].num_workers \in Nat
  BY <1>5, FrameType DEF OnceTraffic, Good
<1>8. frame[c].num_workers = s.num_workers_expected
  BY <1>4, <1>5 DEF SlotTallied, KeyOf
<1>9. s.num_workers_expected \in Nat /\ s.contributions_received \in Nat
  BY <1>3 DEF GradSlot
<1>10. w \in 0 .. s.num_workers_expected - 1
  BY <1>7, <1>8, <1>9
<1>11. /\ s.seen_worker \subseteq 0 .. s.num_workers_expected - 1
       /\ s.contributions_received = Cardinality(s.seen_worker)
  BY <1>4 DEF SlotTallied
<1> HIDE DEF s, w
<1>12. /\ Cardinality(s.seen_worker) < s.num_workers_expected
       /\ Cardinality(s.seen_worker \cup {w}) = Cardinality(s.seen_worker) + 1
  BY <1>6, <1>9, <1>10, <1>11, Lacks
<1>13. QED BY <1>3, <1>4, <1>5, <1>6, <1>9, <1>10, <1>11, <1>12 DEF s, w

\* CPU c goes on, and touches neither slots nor frames of others.
Moves(c) ==
    /\ UNCHANGED <<slot_map, elem, wire, emitted>>
    /\ \A d \in CPUs \ {c} :
          pc'[d] = pc[d] /\ frame'[d] = frame[d] /\ slot'[d] = slot[d] /\ final'[d] = final[d]
    /\ \/ pc'[c] = "idle"
       \/ /\ frame'[c] = frame[c] /\ pc[c] # "idle"
          /\ pc'[c] \in Before => pc[c] \in Before
          /\ pc'[c] \in {"increment", "newjob", "lock"} => slot'[c] = slot_map[KeyOf(c)]
          /\ pc'[c] # "won"
          /\ pc'[c] \in Making => pc[c] \in Making
          /\ pc'[c] \in Closing => pc[c] \in Closing
          /\ pc'[c] \in After => pc[c] \in After /\ final'[c] \in {final[c], NoFinal}

LEMMA OnceMoves ==
    ASSUME TypeInv, TypeInv', Once, NEW c \in CPUs, Moves(c)
    PROVE  Once'
<1>1. ASSUME NEW d \in CPUs, pc'[d] # "idle"
      PROVE  /\ pc[d] # "idle" /\ frame'[d] = frame[d] /\ KeyOf(d)' = KeyOf(d)
             /\ pc'[d] \in Before => pc[d] \in Before
             /\ pc'[d] \in {"increment", "newjob", "lock"} => slot'[d] = slot_map[KeyOf(d)]
             /\ pc'[d] = "won" => pc[d] = "won"
             /\ pc'[d] \in Making => pc[d] \in Making
             /\ pc'[d] \in Closing => pc[d] \in Closing
             /\ pc'[d] \in After => pc[d] \in After /\ final'[d] \in {final[d], NoFinal}
  BY <1>1 DEF Moves, KeyOf, Once, PointersLive
<1>2. "idle" \notin Before \cup Closing \cup After \cup Making
  BY DEF Before, Closing, After, Making
<1>3. slot_map' = slot_map /\ elem' = elem /\ wire' = wire /\ emitted' = emitted
  BY DEF Moves
<1>4. PointersLive'
  BY <1>1, <1>3 DEF PointersLive
<1>5. EmittedExact' /\ MapInjective'
  BY <1>3 DEF Once, EmittedExact, MapInjective
<1>6. HeldApart'
  BY <1>1, <1>2, <1>3 DEF Once, HeldApart
<1>7. SlotsTallied'
  BY <1>3 DEF Once, SlotsTallied, SlotTallied, SlotOf
<1>8. StillAwaited'
  BY <1>1, <1>2, <1>3 DEF Once, StillAwaited, SlotOf
<1>9. ClosedByOne'
  BY <1>1, <1>2, <1>3 DEF Once, ClosedByOne, Completes, SlotOf
<1>10. FinalExact'
  <2>1. ASSUME NEW d \in CPUs, pc'[d] \in After
        PROVE  /\ final'[d] # NoFinal => Exact(final'[d])
               /\ pc'[d] \in {"complete", "tx"} => final'[d] # NoFinal
    <3>1. pc[d] \in After /\ final'[d] \in {final[d], NoFinal}
      BY <1>1, <1>2, <2>1
    <3>2. QED BY <3>1 DEF Once, FinalExact, TypeInv, Known
  <2>2. QED BY <2>1 DEF FinalExact
<1>11. MadeByOne'
  BY <1>1, <1>2 DEF Once, MadeByOne
<1>12. QED BY <1>4, <1>5, <1>6, <1>7, <1>8, <1>9, <1>10, <1>11 DEF Once

LEMMA MovesReturn ==
    ASSUME TypeInv, NEW c \in CPUs, Return(c), UNCHANGED <<slot_map, elem, wire, emitted>>
    PROVE  Moves(c)
BY DEF TypeInv, LocalsTyped, Moves, Return, Goto

LEMMA MovesGoto ==
    ASSUME TypeInv, NEW c \in CPUs, NEW label \in Labels, Goto(c, label), pc[c] # "idle",
           UNCHANGED <<slot_map, elem, wire, emitted, locals>>,
           label \in Before => pc[c] \in Before,
           label \in {"increment", "newjob", "lock"} =>
              slot[c] = slot_map[KeyOf(c)],
           label # "won", label \in Making => pc[c] \in Making,
           label \in Closing => pc[c] \in Closing, label \in After => pc[c] \in After
    PROVE  Moves(c)
<1>1. pc'[c] = label /\ \A d \in CPUs \ {c} : pc'[d] = pc[d]
  BY DEF TypeInv, LocalsTyped, Goto
<1>2. QED BY <1>1 DEF Moves, locals

LEMMA QuietMoves ==
    ASSUME TypeInv, Once, NEW c \in CPUs,
           \/ Precheck(c) \/ QuotaAdmits(c) \/ QuotaRejects(c) \/ CreateLoses(c)
           \/ Relookup(c) \/ RelookupFails(c) \/ Increment(c) \/ IncrementNew(c)
           \/ LockRejects(c) \/ LookupConfig(c) \/ DecrementTest(c) \/ Subtract(c)
           \/ BumpStat(c) \/ BumpNewStat(c)
    PROVE  Moves(c)
<1>1. CASE RelookupFails(c) \/ LockRejects(c)
  BY <1>1, MovesReturn DEF RelookupFails, LockRejects, shared
<1>2. CASE Precheck(c)
  <2>1. \E label \in {"quota", "create"} : Goto(c, label)
    BY <1>2 DEF Precheck
  <2>2. pc[c] = "precheck" /\ UNCHANGED <<shared, frame, slot, final>>
    BY <1>2 DEF Precheck
  <2>3. pc'[c] \in {"quota", "create"} /\ \A d \in CPUs \ {c} : pc'[d] = pc[d]
    BY <2>1 DEF TypeInv, LocalsTyped, Goto
  <2>4. QED BY <2>2, <2>3 DEF Moves, shared, Before, Making, Closing, After
<1>3. CASE QuotaAdmits(c) \/ QuotaRejects(c) \/ CreateLoses(c)
  <2>1. /\ pc[c] \in {"quota", "create"} /\ UNCHANGED <<shared, locals>>
        /\ \E label \in {"create", "stat", "lost"} : Goto(c, label)
    BY <1>3 DEF QuotaAdmits, QuotaRejects, CreateLoses
  <2>2. QED
    BY <2>1, MovesGoto DEF shared, Labels, Before, Making, Closing, After
<1>4. CASE Relookup(c)
  <2>1. /\ pc[c] \in {"won", "lost"} /\ slot' = [slot EXCEPT ![c] = slot_map[KeyOf(c)]]
        /\ Goto(c, IF pc[c] = "won" THEN "increment" ELSE "lock")
        /\ UNCHANGED <<shared, frame, max_slots, final>>
    BY <1>4 DEF Relookup
  <2>2. /\ slot'[c] = slot_map[KeyOf(c)]
        /\ \A d \in CPUs \ {c} : pc'[d] = pc[d] /\ slot'[d] = slot[d]
    BY <2>1 DEF TypeInv, LocalsTyped, Goto
  <2>3. CASE pc[c] = "won"
    <3>1. pc'[c] = "increment"
      BY <2>1, <2>3 DEF TypeInv, LocalsTyped, Goto
    <3>2. QED BY <2>1, <2>2, <2>3, <3>1 DEF Moves, shared, Before, Making, Closing, After
  <2>4. CASE pc[c] = "lost"
    <3>1. pc'[c] = "lock"
      BY <2>1, <2>4 DEF TypeInv, LocalsTyped, Goto
    <3>2. QED BY <2>1, <2>2, <2>4, <3>1 DEF Moves, shared, Before, Making, Closing, After
  <2>5. QED BY <2>1, <2>3, <2>4
<1>5. CASE Increment(c) \/ IncrementNew(c)
  <2>1. /\ pc[c] \in {"increment", "newjob"}
        /\ UNCHANGED <<slot_map, elem, wire, emitted, locals>>
        /\ \E label \in {"lock", "newjob"} : Goto(c, label)
    BY <1>5 DEF Increment, IncrementNew
  <2>2. slot[c] = slot_map[KeyOf(c)]
    BY <2>1 DEF Once, PointersLive
  <2>3. QED
    BY <2>1, <2>2, MovesGoto DEF Labels, Before, Making, Closing, After
<1>6. CASE LookupConfig(c)
  <2>1. /\ pc[c] = "complete" /\ Goto(c, "delete") /\ UNCHANGED <<shared, frame, slot>>
        /\ final' \in {final, [final EXCEPT ![c] = NoFinal]}
    BY <1>6 DEF LookupConfig
  <2>2. /\ pc'[c] = "delete" /\ final'[c] \in {final[c], NoFinal}
        /\ \A d \in CPUs \ {c} : pc'[d] = pc[d] /\ final'[d] = final[d]
    BY <2>1 DEF TypeInv, LocalsTyped, Goto
  <2>3. QED BY <2>1, <2>2 DEF Moves, shared, Before, Making, Closing, After
<1>7. CASE DecrementTest(c) \/ Subtract(c)
  <2>1. /\ pc[c] \in {"decrement", "subtract"}
        /\ UNCHANGED <<slot_map, elem, wire, emitted, locals>>
        /\ \E label \in {"subtract", "stat", "tx"} : Goto(c, label)
    BY <1>7 DEF DecrementTest, Subtract, AfterDecrement, shared
  <2>2. QED BY <2>1, MovesGoto DEF Labels, Before, Making, Closing, After
<1>8. CASE BumpStat(c) \/ BumpNewStat(c)
  <2>1. CASE Return(c) /\ UNCHANGED <<slot_map, elem, wire, emitted>>
    BY <2>1, MovesReturn
  <2>2. CASE pc[c] = "stat" /\ Goto(c, "newstat")
             /\ UNCHANGED <<slot_map, elem, wire, emitted, locals>>
    BY <2>2, MovesGoto DEF Labels, Before, Making, Closing, After
  <2>3. QED BY <1>8, <2>1, <2>2 DEF BumpStat, BumpNewStat
<1>9. QED BY <1>1, <1>2, <1>3, <1>4, <1>5, <1>6, <1>7, <1>8

\* A frame arrives: it is a worker its slot has not seen, and no other CPU has it.
LEMMA OnceRx ==
    ASSUME TypeInv, OnceTraffic, Once, NEW c \in CPUs, Rx(c)
    PROVE  Once'
<1>1. PICK f \in wire :
        /\ Receive(c, f)
        /\ UNCHANGED <<slot_map, elem, emitted, final>>
        /\ \/ UNCHANGED <<pc, locals>>
           \/ /\ WellFormed(f) /\ frame' = [frame EXCEPT ![c] = f]
              /\ \/ /\ Goto(c, "lock") /\ slot' = [slot EXCEPT ![c] = slot_map[f.key]]
                    /\ slot_map[f.key] # NULL
                 \/ Goto(c, "precheck") /\ slot' = slot
  BY DEF Rx, RxIgnored, RxHit, RxMiss, locals
<1>2. wire' = wire \ {f} /\ pc[c] = "idle" /\ f \in Frames
  BY <1>1, TypeReceive DEF Receive
<1>3. EmittedExact' /\ MapInjective'
  BY <1>1 DEF Once, EmittedExact, MapInjective
<1>4. SlotsTallied'
  BY <1>1, <1>2 DEF Once, SlotsTallied, SlotTallied, SlotOf
<1>5. CASE UNCHANGED <<pc, locals>>
  <2>1. HeldApart'
    BY <1>2, <1>5 DEF Once, HeldApart, locals
  <2>2. PointersLive' /\ StillAwaited' /\ ClosedByOne' /\ FinalExact' /\ MadeByOne'
    BY <1>1, <1>5 DEF Once, PointersLive, StillAwaited, ClosedByOne, FinalExact, MadeByOne,
       KeyOf, SlotOf, Completes, locals
  <2>3. QED BY <1>3, <1>4, <2>1, <2>2 DEF Once
<1>6. CASE /\ WellFormed(f) /\ frame' = [frame EXCEPT ![c] = f]
           /\ \/ /\ Goto(c, "lock") /\ slot' = [slot EXCEPT ![c] = slot_map[f.key]]
                 /\ slot_map[f.key] # NULL
              \/ Goto(c, "precheck") /\ slot' = slot
  <2>1. /\ frame'[c] = f /\ KeyOf(c)' = f.key
        /\ pc'[c] \in {"precheck", "lock"}
        /\ pc'[c] = "lock" => slot'[c] = slot_map[f.key]
    <3>1. frame'[c] = f /\ KeyOf(c)' = f.key
      BY <1>6 DEF TypeInv, LocalsTyped, KeyOf
    <3>2. CASE Goto(c, "lock") /\ slot' = [slot EXCEPT ![c] = slot_map[f.key]]
      BY <3>1, <3>2 DEF TypeInv, LocalsTyped, Goto
    <3>3. CASE Goto(c, "precheck")
      BY <3>1, <3>3 DEF TypeInv, LocalsTyped, Goto
    <3>4. QED BY <1>6, <3>2, <3>3
  <2>2. ASSUME NEW d \in CPUs, d # c
        PROVE  /\ pc'[d] = pc[d] /\ frame'[d] = frame[d] /\ slot'[d] = slot[d]
               /\ final'[d] = final[d] /\ KeyOf(d)' = KeyOf(d)
    BY <1>1, <1>6, <2>2 DEF TypeInv, LocalsTyped, Goto, KeyOf
  <2>3. f \in Good /\ f \in wire /\ f \notin wire'
    BY <1>2, <1>6 DEF Good
  <2>4. PointersLive'
    BY <1>1, <2>1, <2>2 DEF Once, PointersLive
  <2>5. HeldApart'
    <3>1. \A d \in CPUs : pc'[d] # "idle" => frame'[d] \in Good \ wire'
      BY <1>2, <2>1, <2>2, <2>3 DEF Once, HeldApart
    <3>2. \A d \in CPUs \ {c} : pc[d] \in Before => frame[d] # f
      BY <2>3 DEF Once, HeldApart, Before
    <3>3. QED BY <2>1, <2>2, <3>1, <3>2 DEF Once, HeldApart
  <2>6. StillAwaited'
    <3>1. slot_map[f.key] # NULL => f.worker_id \notin SlotOf(f.key).seen_worker
      BY <2>3, FrameType DEF Once, SlotsTallied, SlotTallied, Good
    <3>2. QED BY <1>1, <2>1, <2>2, <3>1 DEF Once, StillAwaited, SlotOf
  <2>7. ClosedByOne' /\ FinalExact' /\ MadeByOne'
    <3>1. pc'[c] \notin Closing \cup After \cup Making
      BY <2>1 DEF Closing, After, Making
    <3>2. QED
      BY <1>1, <2>2, <3>1 DEF Once, ClosedByOne, FinalExact, MadeByOne, SlotOf, Completes
  <2>8. QED BY <1>3, <1>4, <2>4, <2>5, <2>6, <2>7 DEF Once
<1>7. QED BY <1>1, <1>5, <1>6

\* A slot is made: its element was nobody's, and so no CPU points to it.
LEMMA OnceCreateWins ==
    ASSUME TypeInv, OnceTraffic, Once, NEW c \in CPUs, CreateWins(c)
    PROVE  Once'
<1>k. PICK k \in Keys : k = KeyOf(c)
  BY HeldType DEF CreateWins
<1>f. PICK fresh : fresh = Fresh(frame[c].chunk_len, frame[c].num_workers)
  OBVIOUS
<1>1. PICK e \in FreeElems :
        slot_map' = [slot_map EXCEPT ![k] = e] /\ elem' = [elem EXCEPT ![e] = fresh]
  BY <1>k, <1>f DEF CreateWins
<1>2. /\ pc[c] = "create" /\ slot_map[k] = NULL
      /\ Goto(c, "won") /\ UNCHANGED <<wire, emitted, locals>>
  BY <1>k DEF CreateWins
<1>3. e \in Elems /\ e # NULL /\ \A m \in Keys : slot_map[m] # e
  BY DEF FreeElems, Elems, NULL
<1>4. /\ slot_map'[k] = e /\ elem'[e] = fresh
      /\ \A m \in Keys \ {k} :
            /\ slot_map'[m] = slot_map[m]
            /\ slot_map[m] # NULL => SlotOf(m)' = SlotOf(m)
  BY <1>1, <1>3 DEF TypeInv, MapsTyped, SlotOf
<1>5. SlotOf(k)' = fresh
  BY <1>4 DEF SlotOf
<1>6. pc'[c] = "won" /\ \A d \in CPUs \ {c} : pc'[d] = pc[d]
  BY <1>2 DEF TypeInv, LocalsTyped, Goto
<1>7. \A d \in CPUs : KeyOf(d)' = KeyOf(d) /\ frame'[d] = frame[d]
                      /\ slot'[d] = slot[d] /\ final'[d] = final[d]
  BY <1>2 DEF locals, KeyOf
<1>8. \A d \in CPUs : pc[d] # "idle" => KeyOf(d) \in Keys
  BY HeldType
<1>9. fresh.seen_worker = {} /\ fresh.contributions_received = 0
      /\ fresh.num_workers_expected = frame[c].num_workers
      /\ fresh.sum = [t \in Tags |-> 0]
  BY <1>f DEF Fresh
<1>10. PointersLive'
  <2>1. ASSUME NEW d \in CPUs, d # c, pc'[d] \in {"increment", "newjob", "lock"}
        PROVE  slot'[d] = slot_map'[KeyOf(d)']
    <3>1. slot[d] # NULL /\ slot[d] = slot_map[KeyOf(d)] /\ KeyOf(d) \in Keys
      BY <1>6, <1>8, <2>1 DEF TypeInv, Known, Pointing, Once, PointersLive
    <3>2. KeyOf(d) # k
      BY <1>2, <3>1
    <3>3. QED BY <1>4, <1>7, <3>1, <3>2
  <2>2. QED BY <1>6, <2>1 DEF PointersLive
<1>11. EmittedExact'
  BY <1>2 DEF Once, EmittedExact
<1>12. MapInjective'
  BY <1>3, <1>4 DEF Once, MapInjective
<1>13. HeldApart'
  BY <1>2, <1>6, <1>7 DEF Once, HeldApart, Before
<1>14. SlotsTallied'
  <2>1. SlotTallied(k, fresh)'
    <3>1. \A f \in Good : f.key = k => f.num_workers = frame[c].num_workers
      BY <1>2, <1>k DEF Once, HeldApart, OnceTraffic, KeyOf
    <3>2. \A t \in Tags : fresh.sum[t] = 0
      BY <1>9
    <3>3. Cardinality({}) = 0
      BY FS_EmptySet
    <3>4. QED BY <1>9, <3>1, <3>2, <3>3 DEF SlotTallied
  <2>2. ASSUME NEW m \in Keys, m # k, slot_map'[m] # NULL
        PROVE  SlotTallied(m, SlotOf(m))'
    <3>1. slot_map[m] # NULL /\ SlotOf(m)' = SlotOf(m)
      BY <1>4, <2>2
    <3>2. SlotTallied(m, SlotOf(m))
      BY <3>1 DEF Once, SlotsTallied
    <3>3. QED BY <1>2, <3>1, <3>2 DEF SlotTallied
  <2>3. QED BY <1>5, <2>1, <2>2 DEF SlotsTallied
<1>15. StillAwaited'
  <2>1. ASSUME NEW d \in CPUs, pc'[d] \in Before, slot_map'[KeyOf(d)'] # NULL
        PROVE  frame'[d].worker_id \notin SlotOf(KeyOf(d))'.seen_worker
    <3>1. pc[d] \in Before /\ KeyOf(d) \in Keys
      BY <1>2, <1>6, <1>8, <2>1 DEF Before
    <3>2. CASE KeyOf(d) = k
      BY <1>5, <1>7, <1>9, <3>2 DEF SlotOf
    <3>3. CASE KeyOf(d) # k
      <4>1. slot_map[KeyOf(d)] # NULL /\ elem'[slot_map'[KeyOf(d)']] = SlotOf(KeyOf(d))
        BY <1>4, <1>7, <2>1, <3>1, <3>3 DEF SlotOf
      <4>2. frame[d].worker_id \notin SlotOf(KeyOf(d)).seen_worker
        BY <3>1, <4>1 DEF Once, StillAwaited
      <4>3. QED BY <1>7, <4>1, <4>2 DEF SlotOf
    <3>4. QED BY <3>2, <3>3
  <2>2. ASSUME NEW d \in CPUs, pc'[d] = "won" PROVE slot_map'[KeyOf(d)'] # NULL
    <3>1. CASE d = c
      BY <1>k, <1>3, <1>4, <1>7, <3>1
    <3>2. CASE d # c
      <4>1. pc[d] = "won" /\ slot_map[KeyOf(d)] # NULL /\ KeyOf(d) \in Keys
        BY <1>6, <1>8, <2>2, <3>2 DEF Once, StillAwaited
      <4>2. QED BY <1>3, <1>4, <1>7, <4>1
    <3>3. QED BY <3>1, <3>2
  <2>3. QED BY <2>1, <2>2 DEF StillAwaited, SlotOf
<1>16. ClosedByOne'
  <2>1. ASSUME NEW d \in CPUs, pc'[d] \in Closing
        PROVE  /\ pc[d] \in Closing /\ slot_map'[KeyOf(d)'] # NULL
               /\ Completes(SlotOf(KeyOf(d)))'
    <3>1. pc[d] \in Closing /\ KeyOf(d) \in Keys
      BY <1>6, <1>8, <2>1 DEF Closing
    <3>2. slot_map[KeyOf(d)] # NULL /\ Completes(SlotOf(KeyOf(d)))
      BY <3>1 DEF Once, ClosedByOne
    <3>3. KeyOf(d) # k
      BY <1>2, <3>2
    <3>4. SlotOf(KeyOf(d))' = SlotOf(KeyOf(d)) /\ slot_map'[KeyOf(d)] = slot_map[KeyOf(d)]
      BY <1>4, <1>7, <3>1, <3>2, <3>3 DEF SlotOf
    <3>5. QED BY <1>7, <3>1, <3>2, <3>4 DEF Completes
  <2>2. QED BY <1>7, <2>1 DEF Once, ClosedByOne
<1>17. FinalExact'
  BY <1>6, <1>7 DEF Once, FinalExact, After
<1>18. MadeByOne'
  <2>1. ASSUME NEW d \in CPUs, d # c, pc[d] \in Making PROVE KeyOf(d) # k
    <3>1. CASE pc[d] = "won"
      BY <1>2, <3>1 DEF Once, StillAwaited
    <3>2. CASE pc[d] \in {"increment", "newjob"}
      BY <1>2, <3>2 DEF Once, PointersLive, TypeInv, Known, Pointing
    <3>3. QED BY <2>1, <3>1, <3>2 DEF Making
  <2>2. QED BY <1>k, <1>6, <1>7, <2>1 DEF Once, MadeByOne
<1>19. QED BY <1>10, <1>11, <1>12, <1>13, <1>14, <1>15, <1>16, <1>17, <1>18 DEF Once

\* A slot of k has added each worker it has seen once, and nothing else.
Tally(k, s) ==
    /\ s.contributions_received = Cardinality(s.seen_worker)
    /\ \A t \in Tags : s.sum[t] = IF t[1] = k /\ t[2] \in s.seen_worker THEN 1 ELSE 0

LEMMA WorkersFinite == IsFiniteSet(Workers)
<1>1. 0 \in Int /\ MAX_TRACKED_WORKERS - 1 \in Int
  BY MapAssumption
<1>2. QED BY <1>1, FS_Interval DEF Workers

\* One contribution more is one worker more, and one lane of it.
LEMMA AddedTally ==
    ASSUME NEW f \in Frames, WellFormed(f), NEW k, k = f.key, NEW s \in GradSlot, Tally(k, s),
           f.worker_id \notin s.seen_worker, NEW a, a = Accumulated(s, f)
    PROVE  /\ Tally(k, a) /\ a \in GradSlot
           /\ a.chunk_len = s.chunk_len /\ a.num_workers_expected = s.num_workers_expected
           /\ a.contributions_received = s.contributions_received + 1
           /\ a.seen_worker = s.seen_worker \cup {f.worker_id}
           /\ s.contributions_received \in Nat /\ s.num_workers_expected \in Nat
<1>w. PICK w \in Workers : w = f.worker_id
  BY FrameType
<1>1. /\ a \in GradSlot
      /\ a.chunk_len = s.chunk_len /\ a.num_workers_expected = s.num_workers_expected
      /\ a.contributions_received = s.contributions_received + 1
      /\ a.seen_worker = s.seen_worker \cup {w}
      /\ a.sum = Summed(s.sum, <<k, w>>)
  BY <1>w, AccumulatedType
<1>2. /\ s.sum \in [Tags -> Nat] /\ s.seen_worker \in SUBSET Workers
      /\ s.contributions_received \in Nat /\ s.num_workers_expected \in Nat
  BY DEF GradSlot
<1>3. Cardinality(s.seen_worker \cup {w}) = s.contributions_received + 1
  <2>1. IsFiniteSet(s.seen_worker)
    BY <1>2, WorkersFinite, FS_Subset
  <2>2. QED BY <1>w, <2>1, FS_AddElement DEF Tally
<1>4. ASSUME NEW t \in Tags
      PROVE  a.sum[t] = IF t[1] = k /\ t[2] \in a.seen_worker THEN 1 ELSE 0
  <2>1. s.sum[t] = IF t[1] = k /\ t[2] \in s.seen_worker THEN 1 ELSE 0
    BY DEF Tally
  <2>2. t = <<t[1], t[2]>>
    BY DEF Tags
  <2>3. CASE t = <<k, w>>
    <3>1. s.sum[t] = 0 /\ a.sum[t] = s.sum[t] + 1
      BY <1>w, <1>1, <1>2, <2>1, <2>3 DEF Summed
    <3>2. QED BY <1>1, <2>3, <3>1
  <2>4. CASE t # <<k, w>>
    <3>1. a.sum[t] = s.sum[t]
      BY <1>1, <1>2, <2>4 DEF Summed
    <3>2. t[1] = k => t[2] # w
      BY <2>2, <2>4
    <3>3. QED BY <1>1, <2>1, <3>1, <3>2
  <2>5. QED BY <2>3, <2>4
<1>5. Tally(k, a)
  BY <1>1, <1>3, <1>4 DEF Tally
<1>6. QED BY <1>w, <1>1, <1>2, <1>5

\* A contribution is added: the slot stays tallied, and whoever else has one
\* for it has another worker's.
LEMMA AddedTallied ==
    ASSUME TypeInv, OnceTraffic, Once, NEW c \in CPUs, pc[c] = "lock", NEW k, k = KeyOf(c),
           Accumulates(c, Accumulated(elem[slot[c]], frame[c]))
    PROVE  LET s == SlotOf(k)
               a == Accumulated(s, frame[c])
           IN  /\ k \in Keys /\ slot_map[k] # NULL /\ slot[c] = slot_map[k]
               /\ slot_map' = slot_map /\ elem' = [elem EXCEPT ![slot_map[k]] = a]
               /\ elem'[slot_map'[k]] = a
               /\ \A m \in Keys \ {k} :
                     slot_map[m] # NULL => elem'[slot_map'[m]] = SlotOf(m)
               /\ a.seen_worker = s.seen_worker \cup {frame[c].worker_id}
               /\ SlotsTallied'
<1> DEFINE s == SlotOf(k)
           w == frame[c].worker_id
           a == Accumulated(s, frame[c])
<1>1. k \in Keys
  BY HeldType
<1>2. slot[c] = slot_map[k] /\ slot_map[k] # NULL /\ slot_map[k] \in Elems
  BY <1>1 DEF Once, PointersLive, TypeInv, Known, Pointing, MapsTyped
<1>3. /\ elem' = [elem EXCEPT ![slot_map[k]] = a]
      /\ UNCHANGED <<slot_map, wire>>
  BY <1>2 DEF Accumulates, SlotOf
<1>4. elem'[slot_map'[k]] = a
  BY <1>2, <1>3 DEF TypeInv, MapsTyped
<1>5. ASSUME NEW m \in Keys \ {k}, slot_map[m] # NULL
      PROVE  elem'[slot_map'[m]] = SlotOf(m)
  <2>1. slot_map[m] \in Elems /\ slot_map[m] # slot_map[k]
    BY <1>1, <1>2, <1>5 DEF Once, MapInjective, TypeInv, MapsTyped
  <2>2. QED BY <1>3, <2>1 DEF TypeInv, MapsTyped, SlotOf
<1>6. /\ s \in GradSlot /\ SlotTallied(k, s) /\ frame[c] \in Good \ wire
      /\ w \notin s.seen_worker /\ w \in 0 .. s.num_workers_expected - 1
      /\ Cardinality(s.seen_worker \cup {w}) = s.contributions_received + 1
  BY <1>2, AwaitedOpen DEF Before
<1>7. /\ a.num_workers_expected = s.num_workers_expected
      /\ a.seen_worker = s.seen_worker \cup {w}
      /\ a.contributions_received = s.contributions_received + 1
      /\ a.sum = Summed(s.sum, <<k, w>>)
  BY <1>6, AccumulatedType DEF Good, KeyOf
<1>8. \A t \in Tags : a.sum[t] = IF t[1] = k /\ t[2] \in a.seen_worker THEN 1 ELSE 0
  <2>1. Tally(k, s)
    BY <1>6 DEF SlotTallied, Tally
  <2>2. Tally(k, a)
    BY <1>6, <2>1, AddedTally DEF Good, KeyOf
  <2>3. QED BY <2>2 DEF Tally
<1> HIDE DEF s, w, a
<1>9. SlotsTallied'
  <2>1. /\ a.seen_worker \subseteq 0 .. a.num_workers_expected - 1
        /\ a.contributions_received = Cardinality(a.seen_worker)
    BY <1>6, <1>7 DEF SlotTallied
  <2>2. \A f \in Good : f.key = k =>
            /\ f.num_workers = a.num_workers_expected
            /\ f.worker_id \in a.seen_worker => f \notin wire
    <3>1. ASSUME NEW f \in Good, f.key = k, f.worker_id = w PROVE f \notin wire
      BY <1>6, <3>1 DEF OnceTraffic, KeyOf, w
    <3>2. QED BY <1>6, <1>7, <3>1 DEF SlotTallied
  <2>3. SlotTallied(k, a) /\ wire' = wire
    BY <1>3, <1>8, <2>1, <2>2 DEF SlotTallied
  <2>4. ASSUME NEW m \in Keys, slot_map'[m] # NULL
        PROVE  SlotTallied(m, elem'[slot_map'[m]])
    <3>1. CASE m = k
      BY <1>4, <2>3, <3>1
    <3>2. CASE m # k
      BY <1>3, <1>5, <2>4, <3>2 DEF Once, SlotsTallied
    <3>3. QED BY <3>1, <3>2
  <2>5. QED BY <2>3, <2>4 DEF SlotsTallied, SlotTallied, SlotOf
<1>10. QED BY <1>1, <1>2, <1>3, <1>4, <1>5, <1>7, <1>9 DEF s, w, a

\* A completed sum has every expected worker once.
LEMMA CompletedExact ==
    ASSUME NEW s \in GradSlot, NEW k \in Keys, NEW e,
           s.contributions_received = Cardinality(s.seen_worker),
           \A t \in Tags : s.sum[t] = IF t[1] = k /\ t[2] \in s.seen_worker THEN 1 ELSE 0,
           Completes(s),
           e.key = k, e.sum = s.sum, e.num_workers = s.num_workers_expected
    PROVE  Exact(e)
<1>1. s.seen_worker \subseteq Workers
  BY DEF GradSlot
<1>2. ASSUME NEW w \in Workers PROVE s.sum[<<k, w>>] = 1 <=> w \in s.seen_worker
  BY DEF Tags
<1>3. {w \in Workers : e.sum[<<e.key, w>>] = 1} = s.seen_worker
  BY <1>1, <1>2
<1>4. Cardinality(s.seen_worker) = e.num_workers
  BY DEF Completes
<1>5. QED BY <1>3, <1>4 DEF Exact

LEMMA OnceLock ==
    ASSUME TypeInv, TypeInv', OnceTraffic, Once, NEW c \in CPUs,
           LockPartial(c) \/ LockCompletes(c)
    PROVE  Once'
<1>k. PICK k, w, a : /\ k = KeyOf(c) /\ w = frame[c].worker_id
                     /\ a = Accumulated(SlotOf(k), frame[c])
  OBVIOUS
<1>1. /\ pc[c] = "lock" /\ Accumulates(c, Accumulated(elem[slot[c]], frame[c]))
      /\ UNCHANGED <<wire, emitted>>
  BY DEF LockPartial, LockCompletes, Accumulates
<1>2. /\ k \in Keys /\ slot_map[k] # NULL /\ slot[c] = slot_map[k]
      /\ slot_map' = slot_map /\ elem'[slot_map'[k]] = a
      /\ \A m \in Keys \ {k} : slot_map[m] # NULL => elem'[slot_map'[m]] = SlotOf(m)
      /\ a.seen_worker = SlotOf(k).seen_worker \cup {w}
      /\ SlotsTallied'
  BY <1>k, <1>1, AddedTallied
<1>3. \A d \in CPUs : d # c =>
        /\ pc'[d] = pc[d] /\ frame'[d] = frame[d] /\ slot'[d] = slot[d]
        /\ final'[d] = final[d] /\ KeyOf(d)' = KeyOf(d)
  BY DEF LockPartial, LockCompletes, Return, Goto, TypeInv, LocalsTyped, KeyOf
<1>4. \/ pc'[c] = "idle"
      \/ /\ pc'[c] = "complete" /\ frame'[c] = frame[c] /\ KeyOf(c)' = k
         /\ Completes(a)
         /\ final'[c].key = k /\ final'[c].sum = a.sum
         /\ final'[c].num_workers = a.num_workers_expected
  <2>1. CASE LockPartial(c)
    BY <2>1 DEF LockPartial, Return, Goto, TypeInv, LocalsTyped
  <2>2. CASE LockCompletes(c)
    <3>1. a = Accumulated(elem[slot[c]], frame[c])
      BY <1>k, <1>2 DEF SlotOf
    <3>2. /\ pc'[c] = "complete" /\ frame'[c] = frame[c]
          /\ Completes(Accumulated(elem[slot[c]], frame[c]))
      BY <2>2 DEF LockCompletes, Goto, TypeInv, LocalsTyped
    <3>3. final'[c] = [sent |-> TRUE, key |-> k, chunk_len |-> a.chunk_len,
                       num_workers |-> a.num_workers_expected, sum |-> a.sum]
      BY <1>k, <2>2, <3>1 DEF LockCompletes, TypeInv, LocalsTyped
    <3>4. KeyOf(c)' = k
      BY <1>k, <3>2 DEF KeyOf
    <3>5. QED BY <3>1, <3>2, <3>3, <3>4
  <2>3. QED BY <2>1, <2>2
<1>5. \A d \in CPUs : pc[d] # "idle" => KeyOf(d) \in Keys
  BY HeldType
<1>6. ASSUME NEW d \in CPUs, d # c, pc[d] \in Before, KeyOf(d) = k
      PROVE  frame[d].worker_id # w
  <2>1. frame[d] \in Good /\ frame[c] \in Good
    BY <1>1, <1>6 DEF Once, HeldApart, Before
  <2>2. frame[d] # frame[c]
    BY <1>1, <1>6 DEF Once, HeldApart, Before
  <2>3. QED BY <1>k, <1>6, <2>1, <2>2 DEF OnceTraffic, KeyOf
<1>7. ASSUME NEW d \in CPUs, pc[d] \in Closing PROVE KeyOf(d) # k
  <2>1. ~Completes(SlotOf(k))
    BY <1>k, <1>1, <1>2, AwaitedOpen DEF Before, Completes
  <2>2. QED BY <1>7, <2>1 DEF Once, ClosedByOne
<1>8. /\ a \in GradSlot
      /\ a.seen_worker \subseteq 0 .. a.num_workers_expected - 1
      /\ a.contributions_received = Cardinality(a.seen_worker)
      /\ \A t \in Tags : a.sum[t] = IF t[1] = k /\ t[2] \in a.seen_worker THEN 1 ELSE 0
  <2>1. slot_map'[k] \in Elems
    BY <1>2 DEF TypeInv, MapsTyped
  <2>2. a \in GradSlot
    BY <1>2, <2>1 DEF TypeInv, MapsTyped
  <2>3. SlotTallied(k, SlotOf(k))'
    BY <1>2 DEF SlotsTallied
  <2>4. QED BY <1>2, <2>2, <2>3 DEF SlotTallied, SlotOf
<1>9. PointersLive'
  BY <1>2, <1>3, <1>4 DEF Once, PointersLive
<1>10. EmittedExact' /\ MapInjective'
  BY <1>1, <1>2 DEF Once, EmittedExact, MapInjective
<1>11. HeldApart'
  <2>1. pc[c] # "idle" /\ pc'[c] \notin Before /\ wire' = wire
    BY <1>1, <1>4 DEF Before
  <2>2. QED BY <1>3, <1>4, <2>1 DEF Once, HeldApart
<1>12. StillAwaited'
  <2>1. ASSUME NEW d \in CPUs, pc'[d] \in Before, slot_map'[KeyOf(d)'] # NULL
        PROVE  frame'[d].worker_id \notin elem'[slot_map'[KeyOf(d)']].seen_worker
    <3>1. d # c
      BY <1>4, <2>1 DEF Before
    <3>2. /\ pc[d] \in Before /\ KeyOf(d)' = KeyOf(d) /\ frame'[d] = frame[d]
          /\ slot_map[KeyOf(d)] # NULL /\ KeyOf(d) \in Keys
      BY <1>2, <1>3, <1>5, <2>1, <3>1 DEF Before
    <3>3. frame[d].worker_id \notin SlotOf(KeyOf(d)).seen_worker
      BY <3>2 DEF Once, StillAwaited
    <3>4. CASE KeyOf(d) = k
      BY <1>2, <1>6, <3>1, <3>2, <3>3, <3>4
    <3>5. CASE KeyOf(d) # k
      BY <1>2, <3>2, <3>3, <3>5
    <3>6. QED BY <3>4, <3>5
  <2>2. ASSUME NEW d \in CPUs, pc'[d] = "won" PROVE slot_map'[KeyOf(d)'] # NULL
    <3>1. d # c
      BY <1>4, <2>2
    <3>2. QED BY <1>2, <1>3, <2>2, <3>1 DEF Once, StillAwaited
  <2>3. QED BY <2>1, <2>2 DEF StillAwaited, SlotOf
<1>13. ClosedByOne'
  <2>1. ASSUME NEW d \in CPUs, d # c, pc'[d] \in Closing
        PROVE  /\ slot_map'[KeyOf(d)'] # NULL
               /\ Completes(elem'[slot_map'[KeyOf(d)']])
               /\ KeyOf(d)' # k
    <3>1. pc[d] \in Closing /\ KeyOf(d)' = KeyOf(d) /\ KeyOf(d) \in Keys
      BY <1>3, <1>5, <2>1 DEF Closing
    <3>2. slot_map[KeyOf(d)] # NULL /\ Completes(SlotOf(KeyOf(d)))
      BY <3>1 DEF Once, ClosedByOne
    <3>3. QED BY <1>2, <1>7, <3>1, <3>2
  <2>2. ASSUME pc'[c] \in Closing
        PROVE  /\ slot_map'[KeyOf(c)'] # NULL /\ KeyOf(c)' = k
               /\ Completes(elem'[slot_map'[KeyOf(c)']])
    BY <1>2, <1>4, <2>2 DEF Closing
  <2>3. \A d \in CPUs : pc'[d] \in Closing =>
            /\ slot_map'[KeyOf(d)'] # NULL
            /\ Completes(elem'[slot_map'[KeyOf(d)']])
    BY <2>1, <2>2
  <2>4. \A d, b \in CPUs :
            pc'[d] \in Closing /\ pc'[b] \in Closing /\ KeyOf(d)' = KeyOf(b)' => d = b
    <3>1. ASSUME NEW d \in CPUs, NEW b \in CPUs, d # c, b # c,
                 pc'[d] \in Closing, pc'[b] \in Closing, KeyOf(d)' = KeyOf(b)'
          PROVE  d = b
      BY <1>3, <3>1 DEF Once, ClosedByOne
    <3>2. QED BY <2>1, <2>2, <3>1
  <2>5. QED BY <2>3, <2>4 DEF ClosedByOne, Completes, SlotOf
<1>14. FinalExact'
  <2>1. pc'[c] = "complete" => Exact(final'[c])
    BY <1>2, <1>4, <1>8, CompletedExact
  <2>2. ASSUME NEW d \in CPUs, pc'[d] \in After
        PROVE  /\ final'[d] # NoFinal => Exact(final'[d])
               /\ pc'[d] \in {"complete", "tx"} => final'[d] # NoFinal
    <3>1. CASE d = c
      BY <1>4, <2>1, <2>2, <3>1 DEF After, TypeInv, Known
    <3>2. CASE d # c
      BY <1>3, <2>2, <3>2 DEF Once, FinalExact
    <3>3. QED BY <3>1, <3>2
  <2>3. QED BY <2>2 DEF FinalExact
<1>15. MadeByOne'
  BY <1>3, <1>4 DEF Once, MadeByOne, Making
<1>16. QED BY <1>2, <1>9, <1>10, <1>11, <1>12, <1>13, <1>14, <1>15 DEF Once

\* A slot is taken out: it is complete, so nobody is on the way to it.
LEMMA OnceDelete ==
    ASSUME TypeInv, OnceTraffic, Once, NEW c \in CPUs, Delete(c)
    PROVE  Once'
<1>k. PICK k \in Keys : k = KeyOf(c)
  BY HeldType DEF Delete
<1>1. /\ pc[c] = "delete" /\ Goto(c, "decrement")
      /\ slot_map' = [slot_map EXCEPT ![k] = NULL]
      /\ UNCHANGED <<elem, wire, emitted, locals>>
  BY <1>k DEF Delete
<1>2. slot_map[k] # NULL /\ Completes(SlotOf(k))
  BY <1>k, <1>1 DEF Once, ClosedByOne, Closing
<1>3. slot_map'[k] = NULL /\ \A m \in Keys \ {k} : slot_map'[m] = slot_map[m]
  BY <1>1 DEF TypeInv, MapsTyped
<1>4. pc'[c] = "decrement" /\ \A d \in CPUs \ {c} : pc'[d] = pc[d]
  BY <1>1 DEF TypeInv, LocalsTyped, Goto
<1>5. \A d \in CPUs : KeyOf(d)' = KeyOf(d) /\ frame'[d] = frame[d]
                      /\ slot'[d] = slot[d] /\ final'[d] = final[d]
  BY <1>1 DEF locals, KeyOf
<1>6. ASSUME NEW d \in CPUs, pc[d] \in Before PROVE slot_map[KeyOf(d)] # NULL => KeyOf(d) # k
  <2>1. SUFFICES ASSUME slot_map[KeyOf(d)] # NULL, KeyOf(d) = k PROVE FALSE
    OBVIOUS
  <2>2. /\ SlotOf(KeyOf(d)) \in GradSlot
        /\ SlotOf(KeyOf(d)).contributions_received < SlotOf(KeyOf(d)).num_workers_expected
    BY <1>6, <2>1, AwaitedOpen
  <2>3. SlotOf(KeyOf(d)).contributions_received = SlotOf(KeyOf(d)).num_workers_expected
    BY <1>2, <2>1 DEF Completes
  <2>4. QED BY <2>2, <2>3 DEF GradSlot
<1>7. ASSUME NEW d \in CPUs, d # c, pc[d] \in Closing PROVE KeyOf(d) # k
  BY <1>k, <1>1, <1>7 DEF Once, ClosedByOne, Closing
<1>8. \A d \in CPUs : pc[d] # "idle" => KeyOf(d) \in Keys
  BY HeldType
<1>9. PointersLive'
  <2>1. ASSUME NEW d \in CPUs, pc'[d] \in {"increment", "newjob", "lock"}
        PROVE  slot'[d] = slot_map'[KeyOf(d)']
    <3>1. d # c /\ pc[d] = pc'[d]
      BY <1>4, <2>1
    <3>2. slot[d] # NULL /\ slot[d] = slot_map[KeyOf(d)] /\ KeyOf(d) \in Keys
      BY <1>8, <2>1, <3>1 DEF TypeInv, Known, Pointing, Once, PointersLive
    <3>3. KeyOf(d) # k
      BY <1>6, <2>1, <3>1, <3>2 DEF Before
    <3>4. QED BY <1>3, <1>5, <3>2, <3>3
  <2>2. QED BY <2>1 DEF PointersLive
<1>10. EmittedExact' /\ MapInjective'
  BY <1>1, <1>3 DEF Once, EmittedExact, MapInjective
<1>11. HeldApart'
  BY <1>1, <1>4, <1>5 DEF Once, HeldApart, Before
<1>12. SlotsTallied'
  <2>1. ASSUME NEW m \in Keys, slot_map'[m] # NULL
        PROVE  slot_map[m] # NULL /\ SlotTallied(m, elem'[slot_map'[m]])
    BY <1>1, <1>3, <2>1 DEF Once, SlotsTallied, SlotOf
  <2>2. wire' = wire
    BY <1>1
  <2>3. QED BY <2>1, <2>2 DEF SlotsTallied, SlotTallied, SlotOf
<1>13. StillAwaited'
  <2>1. ASSUME NEW d \in CPUs, pc'[d] \in Before
        PROVE  pc[d] = pc'[d] /\ KeyOf(d) \in Keys
    BY <1>4, <1>8, <2>1 DEF Before
  <2>2. ASSUME NEW d \in CPUs, pc'[d] \in Before, slot_map'[KeyOf(d)'] # NULL
        PROVE  frame'[d].worker_id \notin elem'[slot_map'[KeyOf(d)']].seen_worker
    <3>1. KeyOf(d) # k /\ slot_map'[KeyOf(d)'] = slot_map[KeyOf(d)]
      BY <1>3, <1>5, <2>1, <2>2
    <3>2. QED BY <1>1, <1>5, <2>1, <2>2, <3>1 DEF Once, StillAwaited, SlotOf
  <2>3. ASSUME NEW d \in CPUs, pc'[d] = "won" PROVE slot_map'[KeyOf(d)'] # NULL
    <3>1. pc[d] = "won" /\ slot_map[KeyOf(d)] # NULL /\ KeyOf(d) \in Keys
      BY <2>1, <2>3 DEF Once, StillAwaited, Before
    <3>2. KeyOf(d) # k
      BY <1>6, <3>1 DEF Before
    <3>3. QED BY <1>3, <1>5, <3>1, <3>2
  <2>4. QED BY <2>2, <2>3 DEF StillAwaited, SlotOf
<1>14. ClosedByOne'
  <2>1. ASSUME NEW d \in CPUs, pc'[d] \in Closing
        PROVE  /\ pc[d] \in Closing /\ slot_map'[KeyOf(d)'] # NULL
               /\ Completes(elem'[slot_map'[KeyOf(d)']])
    <3>1. d # c /\ pc[d] = pc'[d] /\ KeyOf(d) \in Keys
      BY <1>4, <1>8, <2>1 DEF Closing
    <3>2. KeyOf(d) # k
      BY <1>7, <2>1, <3>1
    <3>3. slot_map[KeyOf(d)] # NULL /\ Completes(SlotOf(KeyOf(d)))
      BY <2>1, <3>1 DEF Once, ClosedByOne
    <3>4. slot_map'[KeyOf(d)'] = slot_map[KeyOf(d)] /\ elem' = elem
      BY <1>1, <1>3, <1>5, <3>1, <3>2
    <3>5. QED BY <2>1, <3>1, <3>3, <3>4 DEF SlotOf
  <2>2. QED BY <1>5, <2>1 DEF Once, ClosedByOne, Completes, SlotOf
<1>15. FinalExact'
  BY <1>1, <1>4, <1>5 DEF Once, FinalExact, After
<1>16. MadeByOne'
  BY <1>4, <1>5 DEF Once, MadeByOne, Making
<1>17. QED BY <1>9, <1>10, <1>11, <1>12, <1>13, <1>14, <1>15, <1>16 DEF Once

LEMMA OnceTransmit ==
    ASSUME TypeInv, TypeInv', Once, NEW c \in CPUs, Transmit(c)
    PROVE  Once'
<1>1. /\ pc[c] = "tx" /\ emitted' = Append(emitted, final[c]) /\ Return(c)
      /\ UNCHANGED <<slot_map, elem, wire>>
  BY DEF Transmit
<1>2. EmittedExact'
  <2>1. Exact(final[c])
    BY <1>1 DEF Once, FinalExact, After
  <2>2. emitted \in Seq(Emission)
    BY DEF TypeInv, MapsTyped
  <2>3. ASSUME NEW n \in DOMAIN emitted' PROVE Exact(emitted'[n])
    <3>1. CASE n \in DOMAIN emitted
      BY <1>1, <2>2, <3>1 DEF Once, EmittedExact
    <3>2. CASE n \notin DOMAIN emitted
      BY <1>1, <2>1, <2>2, <2>3, <3>2
    <3>3. QED BY <3>1, <3>2
  <2>4. QED BY <2>3 DEF EmittedExact
<1>3. /\ pc'[c] = "idle"
      /\ \A d \in CPUs \ {c} :
            /\ pc'[d] = pc[d] /\ frame'[d] = frame[d] /\ slot'[d] = slot[d]
            /\ final'[d] = final[d] /\ KeyOf(d)' = KeyOf(d)
  BY <1>1 DEF TypeInv, LocalsTyped, Return, Goto, KeyOf
<1>4. "idle" \notin Before \cup Closing \cup After \cup Making
  BY DEF Before, Closing, After, Making
<1>5. PointersLive' /\ MapInjective'
  BY <1>1, <1>3 DEF Once, PointersLive, MapInjective
<1>6. HeldApart'
  BY <1>1, <1>3, <1>4 DEF Once, HeldApart
<1>7. SlotsTallied'
  BY <1>1 DEF Once, SlotsTallied, SlotTallied, SlotOf
<1>8. StillAwaited'
  BY <1>1, <1>3, <1>4 DEF Once, StillAwaited, SlotOf
<1>9. ClosedByOne'
  BY <1>1, <1>3, <1>4 DEF Once, ClosedByOne, Completes, SlotOf
<1>10. FinalExact'
  BY <1>3, <1>4 DEF Once, FinalExact
<1>11. MadeByOne'
  BY <1>3, <1>4 DEF Once, MadeByOne
<1>12. QED BY <1>2, <1>5, <1>6, <1>7, <1>8, <1>9, <1>10, <1>11 DEF Once

LEMMA OnceStep == TypeInv /\ TypeInv' /\ OnceTraffic /\ Once /\ [Next]_vars => Once'
<1>1. SUFFICES ASSUME TypeInv, TypeInv', OnceTraffic, Once, [Next]_vars PROVE Once'
  OBVIOUS
<1>2. CASE UNCHANGED <<slot_map, elem, wire, emitted, pc, locals>>
  BY <1>1, <1>2 DEF Once, PointersLive, EmittedExact, MapInjective, HeldApart, SlotsTallied,
     SlotTallied, StillAwaited, ClosedByOne, Completes, FinalExact, MadeByOne, SlotOf, KeyOf,
     locals
<1>3. CASE SetConfig \/ UNCHANGED vars
  BY <1>2, <1>3 DEF SetConfig, vars, locals
<1>4. ASSUME NEW c \in CPUs, Rx(c) PROVE Once'
  BY <1>1, <1>4, OnceRx
<1>5. ASSUME NEW c \in CPUs, Step(c) PROVE Once'
  <2>1. CASE CreateWins(c)
    BY <1>1, <2>1, OnceCreateWins
  <2>2. CASE LockPartial(c) \/ LockCompletes(c)
    BY <1>1, <2>2, OnceLock
  <2>3. CASE Delete(c)
    BY <1>1, <2>3, OnceDelete
  <2>4. CASE Transmit(c)
    BY <1>1, <2>4, OnceTransmit
  <2>5. CASE \/ Precheck(c) \/ QuotaAdmits(c) \/ QuotaRejects(c) \/ CreateLoses(c)
             \/ Relookup(c) \/ RelookupFails(c) \/ Increment(c) \/ IncrementNew(c)
             \/ LockRejects(c) \/ LookupConfig(c) \/ DecrementTest(c) \/ Subtract(c)
             \/ BumpStat(c) \/ BumpNewStat(c)
    BY <1>1, <2>5, QuietMoves, OnceMoves
  <2>6. QED BY <1>5, <2>1, <2>2, <2>3, <2>4, <2>5 DEF Step
<1>6. QED BY <1>1, <1>3, <1>4, <1>5 DEF Next

LEMMA OnceAlways == ASSUME OnceTraffic PROVE Spec => []Once
<1>1. TypeInv /\ Once /\ [Next]_vars => Once'
  BY TypeStep, OnceStep
<1>2. QED BY OnceInit, <1>1, TypeAlways, PTL DEF Spec

(***************************************************************************)
(* When every worker's frame arrives at most once, no CPU ever holds a     *)
(* pointer to an element that was closed under it, a round is closed by    *)
(* one CPU, and every sum in a slot or in hand is of distinct workers of   *)
(* its own key (xdp_agg.c:396-579), however many CPUs there are and in     *)
(* whatever order their steps come.                                        *)
(***************************************************************************)
THEOREM OnceCorrect == Spec => []OnceInv
<1>1. CASE OnceTraffic
  <2>1. Once => OnceInv
    BY DEF Once, OnceInv
  <2>2. Spec => []Once
    BY <1>1, OnceAlways
  <2>3. QED BY <2>1, <2>2, PTL
<1>2. CASE ~OnceTraffic
  <2>1. OnceInv
    BY <1>2 DEF OnceInv
  <2>2. QED BY <2>1, PTL
<1>3. QED BY <1>1, <1>2

-----------------------------------------------------------------------------
(***************************************************************************)
(* One CPU, whatever the traffic.  Its program runs to its end on a frame  *)
(* before it takes the next, so what it looked up stays true: a slot is    *)
(* tallied, and but for the one it is closing every slot still waits for a *)
(* contribution.  A retransmission or a stray worker changes nothing of    *)
(* that.                                                                   *)
(***************************************************************************)
Gone == {"decrement", "subtract", "tx"}

\* A slot expects a number of workers that MayCreate admits.
SlotSized(s) ==
    /\ s.num_workers_expected \in 1 .. MAX_TRACKED_WORKERS
    /\ s.chunk_len \in 0 .. NETSUM_MAX_CHUNK_LEN

\* c has made a slot and not added its frame yet; c is closing the slot of k.
Opening(c) == pc[c] \in Making \cup {"lock"}
Closes(c, k) == pc[c] \in Closing /\ KeyOf(c) = k

SoloSlot(c, k) ==
    LET s == SlotOf(k) IN
    /\ Tally(k, s) /\ SlotSized(s)
    /\ IF Closes(c, k) THEN Completes(s)
       ELSE s.contributions_received < s.num_workers_expected
    /\ s.contributions_received = 0 =>
          Opening(c) /\ KeyOf(c) = k /\ s.chunk_len = frame[c].chunk_len

SoloCPU(c) ==
    /\ pc[c] \in {"precheck", "quota", "create", "lost"} \cup Gone => slot_map[KeyOf(c)] = NULL
    /\ pc[c] \in {"precheck", "quota", "create"} => MayCreate(frame[c])
    /\ pc[c] \in Making \cup Closing => slot_map[KeyOf(c)] # NULL
    /\ pc[c] \in {"increment", "newjob", "lock"} => slot[c] = slot_map[KeyOf(c)]
    /\ pc[c] \in After /\ final[c] # NoFinal => Exact(final[c])

SoloSlots(c) == \A k \in Keys : slot_map[k] # NULL => SoloSlot(c, k)

Solo(c) == MapInjective /\ EmittedExact /\ SoloSlots(c) /\ SoloCPU(c)

LEMMA SoloInit == ASSUME NEW c \in CPUs PROVE Init => Solo(c)
BY DEF Init, Solo, MapInjective, EmittedExact, SoloSlots, SoloCPU, Gone, Making, Closing, After

\* A slot without contributions is the one c has just made.
LEMMA SoloNew ==
    ASSUME NEW c, SoloSlots(c), ~Opening(c), NEW k \in Keys, slot_map[k] # NULL
    PROVE  SlotOf(k).contributions_received # 0
BY DEF SoloSlots, SoloSlot

\* c goes on or returns and leaves the slots alone.
LEMMA SoloKept ==
    ASSUME NEW c, SoloSlots(c), UNCHANGED <<slot_map, elem>>,
           \/ /\ frame'[c] = frame[c]
              /\ pc[c] \in Closing <=> pc'[c] \in Closing
              /\ Opening(c) => Opening(c)'
           \/ /\ pc[c] \notin Closing /\ pc'[c] \notin Closing
              /\ \A k \in Keys : slot_map[k] # NULL => SlotOf(k).contributions_received # 0
    PROVE  SoloSlots(c)'
<1>1. SUFFICES ASSUME NEW k \in Keys, slot_map'[k] # NULL PROVE SoloSlot(c, k)'
  BY DEF SoloSlots
<1>2. slot_map[k] # NULL /\ SoloSlot(c, k)
  BY <1>1 DEF SoloSlots
<1>3. PICK s : s = SlotOf(k)
  OBVIOUS
<1>4. SlotOf(k)' = s
  BY <1>3 DEF SlotOf
<1>5. /\ Tally(k, s) /\ SlotSized(s)
      /\ IF Closes(c, k) THEN Completes(s)
         ELSE s.contributions_received < s.num_workers_expected
      /\ s.contributions_received = 0 =>
            Opening(c) /\ KeyOf(c) = k /\ s.chunk_len = frame[c].chunk_len
  BY <1>2, <1>3 DEF SoloSlot
<1>6. Closes(c, k)' <=> Closes(c, k)
  BY DEF Closes, KeyOf
<1>7. s.contributions_received = 0 =>
         Opening(c)' /\ KeyOf(c)' = k /\ s.chunk_len = frame'[c].chunk_len
  BY <1>2, <1>3, <1>5 DEF KeyOf
<1>8. QED BY <1>4, <1>5, <1>6, <1>7 DEF SoloSlot, Tally, SlotSized, Completes

LEMMA SoloRx ==
    ASSUME TypeInv, NEW c \in CPUs, Solo(c), Rx(c)
    PROVE  Solo(c)'
<1>1. PICK f \in wire :
        /\ Receive(c, f) /\ UNCHANGED <<slot_map, elem, emitted, final>>
        /\ \/ UNCHANGED <<pc, locals>>
           \/ /\ frame' = [frame EXCEPT ![c] = f]
              /\ Goto(c, "lock") /\ slot' = [slot EXCEPT ![c] = slot_map[f.key]]
           \/ /\ frame' = [frame EXCEPT ![c] = f]
              /\ Goto(c, "precheck") /\ slot_map[f.key] = NULL /\ MayCreate(f)
  BY DEF Rx, RxIgnored, RxHit, RxMiss, locals
<1>2. pc[c] = "idle"
  BY <1>1 DEF Receive
<1>3. \/ pc'[c] = "idle"
      \/ pc'[c] = "lock" /\ frame'[c] = f /\ slot'[c] = slot_map[f.key]
      \/ pc'[c] = "precheck" /\ frame'[c] = f /\ slot_map[f.key] = NULL /\ MayCreate(f)
  BY <1>1, <1>2 DEF TypeInv, LocalsTyped, Goto
<1>4. SoloSlots(c)'
  <2>1. pc[c] \notin Closing /\ pc'[c] \notin Closing /\ ~Opening(c)
    BY <1>2, <1>3 DEF Closing, Opening, Making
  <2>2. QED BY <1>1, <2>1, SoloNew, SoloKept DEF Solo
<1>5. SoloCPU(c)'
  BY <1>1, <1>3 DEF SoloCPU, Gone, Making, Closing, After, KeyOf
<1>6. QED BY <1>1, <1>4, <1>5 DEF Solo, MapInjective, EmittedExact

\* The steps up to the slot pointer.
LEMMA SoloLookup ==
    ASSUME TypeInv, NEW c \in CPUs, Solo(c),
           \/ Precheck(c) \/ QuotaAdmits(c) \/ QuotaRejects(c) \/ CreateLoses(c)
           \/ Relookup(c) \/ RelookupFails(c) \/ Increment(c) \/ IncrementNew(c)
    PROVE  Solo(c)'
<1>1. UNCHANGED <<slot_map, elem, emitted>>
  BY DEF Precheck, QuotaAdmits, QuotaRejects, CreateLoses, Relookup, RelookupFails, Increment,
     IncrementNew, shared
<1>2. CASE Precheck(c) \/ QuotaAdmits(c) \/ QuotaRejects(c) \/ CreateLoses(c)
  <2>1. /\ pc[c] \in {"precheck", "quota", "create"}
        /\ pc'[c] \in {"quota", "create", "stat", "lost"}
        /\ UNCHANGED frame
    BY <1>2 DEF Precheck, QuotaAdmits, QuotaRejects, CreateLoses, locals, TypeInv, LocalsTyped, Goto
  <2>2. SoloSlots(c)'
    BY <1>1, <2>1, SoloKept DEF Solo, Opening, Making, Closing
  <2>3. SoloCPU(c)'
    BY <1>1, <2>1 DEF Solo, SoloCPU, Gone, Making, Closing, After, KeyOf
  <2>4. QED BY <1>1, <2>2, <2>3 DEF Solo, MapInjective, EmittedExact
<1>3. CASE Relookup(c)
  <2>1. /\ pc[c] = "won" /\ pc'[c] = "increment" /\ slot'[c] = slot_map[KeyOf(c)]
        /\ slot_map[KeyOf(c)] # NULL /\ UNCHANGED frame
    BY <1>3 DEF Relookup, Solo, SoloCPU, TypeInv, LocalsTyped, Goto
  <2>2. SoloSlots(c)'
    BY <1>1, <2>1, SoloKept DEF Solo, Opening, Making, Closing
  <2>3. SoloCPU(c)'
    BY <1>1, <2>1 DEF SoloCPU, Gone, Making, Closing, After, KeyOf
  <2>4. QED BY <1>1, <2>2, <2>3 DEF Solo, MapInjective, EmittedExact
<1>4. CASE RelookupFails(c)
  <2>1. pc[c] = "lost" /\ pc'[c] = "idle"
    BY <1>4 DEF RelookupFails, Solo, SoloCPU, Making, TypeInv, LocalsTyped, Return, Goto
  <2>2. SoloSlots(c)'
    BY <1>1, <2>1, SoloNew, SoloKept DEF Solo, Opening, Making, Closing
  <2>3. SoloCPU(c)'
    BY <2>1 DEF SoloCPU, Gone, Making, Closing, After
  <2>4. QED BY <1>1, <2>2, <2>3 DEF Solo, MapInjective, EmittedExact
<1>5. CASE Increment(c) \/ IncrementNew(c)
  <2>1. /\ pc[c] \in {"increment", "newjob"} /\ pc'[c] \in {"lock", "newjob"}
        /\ UNCHANGED <<frame, slot>>
    BY <1>5 DEF Increment, IncrementNew, locals, TypeInv, LocalsTyped, Goto
  <2>2. SoloSlots(c)'
    BY <1>1, <2>1, SoloKept DEF Solo, Opening, Making, Closing
  <2>3. SoloCPU(c)'
    BY <1>1, <2>1 DEF Solo, SoloCPU, Gone, Making, Closing, After, KeyOf
  <2>4. QED BY <1>1, <2>2, <2>3 DEF Solo, MapInjective, EmittedExact
<1>6. QED BY <1>2, <1>3, <1>4, <1>5

\* The steps after the lock, but for the slot's removal and XDP_TX.
LEMMA SoloLeaves ==
    ASSUME TypeInv, NEW c \in CPUs, Solo(c),
           \/ LookupConfig(c) \/ DecrementTest(c) \/ Subtract(c)
           \/ BumpStat(c) \/ BumpNewStat(c)
    PROVE  Solo(c)'
<1>1. UNCHANGED <<slot_map, elem, emitted>>
  BY DEF LookupConfig, DecrementTest, Subtract, BumpStat, BumpNewStat, shared
<1>2. CASE LookupConfig(c)
  <2>1. /\ pc[c] = "complete" /\ pc'[c] = "delete" /\ UNCHANGED frame
        /\ final'[c] \in {final[c], NoFinal}
    BY <1>2 DEF LookupConfig, TypeInv, LocalsTyped, Goto
  <2>2. SoloSlots(c)'
    BY <1>1, <2>1, SoloKept DEF Solo, Opening, Making, Closing
  <2>3. SoloCPU(c)'
    BY <1>1, <2>1 DEF Solo, SoloCPU, Gone, Making, Closing, After, KeyOf
  <2>4. QED BY <1>1, <2>2, <2>3 DEF Solo, MapInjective, EmittedExact
<1>3. CASE DecrementTest(c) \/ Subtract(c)
  <2>1. /\ pc[c] \in {"decrement", "subtract"} /\ pc'[c] \in {"subtract", "stat", "tx"}
        /\ UNCHANGED <<frame, final>>
    BY <1>3 DEF DecrementTest, Subtract, AfterDecrement, locals, TypeInv, LocalsTyped, Goto
  <2>2. SoloSlots(c)'
    BY <1>1, <2>1, SoloKept DEF Solo, Opening, Making, Closing
  <2>3. SoloCPU(c)'
    BY <1>1, <2>1 DEF Solo, SoloCPU, Gone, Making, Closing, After, KeyOf
  <2>4. QED BY <1>1, <2>2, <2>3 DEF Solo, MapInjective, EmittedExact
<1>4. CASE BumpStat(c) \/ BumpNewStat(c)
  <2>1. pc[c] \in {"stat", "newstat"} /\ pc'[c] \in {"idle", "newstat"}
    BY <1>4 DEF BumpStat, BumpNewStat, locals, TypeInv, LocalsTyped, Return, Goto
  <2>2. SoloSlots(c)'
    BY <1>1, <2>1, SoloNew, SoloKept DEF Solo, Opening, Making, Closing
  <2>3. SoloCPU(c)'
    BY <2>1 DEF SoloCPU, Gone, Making, Closing, After
  <2>4. QED BY <1>1, <2>2, <2>3 DEF Solo, MapInjective, EmittedExact
<1>5. QED BY <1>2, <1>3, <1>4

\* A slot is made: its element was nobody's.
LEMMA SoloCreateWins ==
    ASSUME TypeInv, NEW c \in CPUs, Solo(c), CreateWins(c)
    PROVE  Solo(c)'
<1>k. PICK k \in Keys : k = KeyOf(c)
  BY HeldType DEF CreateWins
<1>f. PICK fresh : fresh = Fresh(frame[c].chunk_len, frame[c].num_workers)
  OBVIOUS
<1>1. PICK e \in FreeElems :
        slot_map' = [slot_map EXCEPT ![k] = e] /\ elem' = [elem EXCEPT ![e] = fresh]
  BY <1>k, <1>f DEF CreateWins
<1>2. /\ pc[c] = "create" /\ pc'[c] = "won" /\ UNCHANGED <<emitted, locals>>
  BY DEF CreateWins, TypeInv, LocalsTyped, Goto
<1>3. e \in Elems /\ e # NULL /\ \A m \in Keys : slot_map[m] # e
  BY DEF FreeElems, Elems, NULL
<1>4. /\ slot_map'[k] = e /\ elem'[e] = fresh
      /\ \A m \in Keys \ {k} :
            /\ slot_map'[m] = slot_map[m]
            /\ slot_map[m] # NULL => elem'[slot_map[m]] = SlotOf(m)
  BY <1>1, <1>3 DEF TypeInv, MapsTyped, SlotOf
<1>5. KeyOf(c)' = k /\ frame' = frame
  BY <1>k, <1>2 DEF locals, KeyOf
<1>6. MapInjective' /\ EmittedExact'
  BY <1>2, <1>3, <1>4 DEF Solo, MapInjective, EmittedExact
<1>7. SoloSlot(c, k)'
  <2>1. /\ fresh.seen_worker = {} /\ fresh.contributions_received = 0
        /\ fresh.num_workers_expected = frame[c].num_workers
        /\ fresh.chunk_len = frame[c].chunk_len
        /\ \A t \in Tags : fresh.sum[t] = 0
    BY <1>f DEF Fresh
  <2>2. Tally(k, fresh)
    BY <2>1, FS_EmptySet DEF Tally
  <2>3. /\ frame[c].num_workers \in 1 .. MAX_TRACKED_WORKERS
        /\ frame[c].chunk_len \in 0 .. NETSUM_MAX_CHUNK_LEN
        /\ 0 < frame[c].num_workers
    <3>1. MayCreate(frame[c])
      BY <1>2 DEF Solo, SoloCPU
    <3>2. WellFormed(frame[c]) /\ frame[c].chunk_len \in Nat
      BY <1>2, HeldType DEF TypeInv, Known
    <3>3. QED BY <3>1, <3>2, MapAssumption DEF MayCreate, WellFormed
  <2>4. SlotOf(k)' = fresh
    BY <1>4 DEF SlotOf
  <2>5. Opening(c)' /\ ~Closes(c, k)'
    BY <1>2 DEF Opening, Making, Closes, Closing
  <2>6. Tally(k, fresh)' /\ SlotSized(fresh)'
    BY <2>1, <2>2, <2>3 DEF Tally, SlotSized
  <2>7. QED BY <1>5, <2>1, <2>3, <2>4, <2>5, <2>6 DEF SoloSlot
<1>8. ASSUME NEW m \in Keys \ {k}, slot_map'[m] # NULL PROVE SoloSlot(c, m)'
  <2>1. PICK s : s = SlotOf(m)
    OBVIOUS
  <2>2. SoloSlot(c, m) /\ SlotOf(m)' = s /\ slot_map[m] # NULL
    BY <1>4, <1>8, <2>1 DEF Solo, SoloSlots, SlotOf
  <2>3. ~Closes(c, m) /\ ~Closes(c, m)' /\ ~Opening(c)
    BY <1>2 DEF Closes, Closing, Opening, Making
  <2>4. /\ Tally(m, s) /\ SlotSized(s)
        /\ s.contributions_received < s.num_workers_expected
        /\ s.contributions_received # 0
    BY <2>1, <2>2, <2>3 DEF SoloSlot
  <2>5. QED BY <2>2, <2>3, <2>4 DEF SoloSlot, Tally, SlotSized
<1>9. SoloSlots(c)'
  BY <1>7, <1>8 DEF SoloSlots
<1>10. SoloCPU(c)'
  BY <1>2, <1>3, <1>4, <1>5 DEF SoloCPU, Gone, Making, Closing, After
<1>11. QED BY <1>6, <1>9, <1>10 DEF Solo

\* The section under the lock, where c adds its frame to the slot s of k, which
\* is a after.
Adds(c, k, s, a) ==
    /\ k = KeyOf(c) /\ k \in Keys /\ pc[c] = "lock"
    /\ slot_map[k] # NULL /\ slot[c] = slot_map[k] /\ slot_map' = slot_map
    /\ s = SlotOf(k) /\ s \in GradSlot /\ Tally(k, s) /\ SlotSized(s)
    /\ s.contributions_received \in Nat /\ s.num_workers_expected \in Nat
    /\ s.contributions_received < s.num_workers_expected
    /\ frame[c].worker_id \in Workers /\ frame[c].worker_id \notin s.seen_worker
    /\ a = SlotOf(k)' /\ a \in GradSlot /\ Tally(k, a) /\ SlotSized(a)
    /\ a.chunk_len = s.chunk_len /\ a.num_workers_expected = s.num_workers_expected
    /\ a.contributions_received = s.contributions_received + 1
    /\ a.seen_worker = s.seen_worker \cup {frame[c].worker_id}
    /\ \A m \in Keys \ {k} : slot_map[m] # NULL => SlotOf(m)' = SlotOf(m)
    /\ UNCHANGED emitted
    /\ \A d \in CPUs \ {c} : pc'[d] = pc[d] /\ frame'[d] = frame[d] /\ final'[d] = final[d]
    /\ \/ LockPartial(c) /\ ~Completes(a) /\ pc'[c] = "idle"
       \/ /\ LockCompletes(c) /\ Completes(a) /\ pc'[c] = "complete" /\ UNCHANGED frame
          /\ final'[c].key = k /\ final'[c].chunk_len = a.chunk_len
          /\ final'[c].num_workers = a.num_workers_expected /\ final'[c].sum = a.sum

\* The slot c has locked is its key's, and waits for a contribution.
Awaits(c) ==
    LET k == KeyOf(c)
        s == SlotOf(k)
    IN  /\ slot[c] = slot_map[k] /\ Tally(k, s) /\ SlotSized(s)
        /\ s.contributions_received < s.num_workers_expected

LEMMA LockAdds ==
    ASSUME TypeInv, MapInjective, NEW c \in CPUs, LockPartial(c) \/ LockCompletes(c), Awaits(c)
    PROVE  \E k, s, a : Adds(c, k, s, a)
<1>k. PICK k \in Keys : k = KeyOf(c)
  BY HeldType DEF LockPartial, LockCompletes, Accumulates
<1>f. PICK f \in Frames : f = frame[c] /\ WellFormed(f) /\ f.key = k /\ f.worker_id \in Workers
  BY <1>k, HeldType, LockType DEF LockPartial, LockCompletes, Accumulates, KeyOf
<1>s. PICK s : s = SlotOf(k)
  OBVIOUS
<1>a. PICK a : a = Accumulated(s, f)
  OBVIOUS
<1>1. pc[c] = "lock" /\ slot[c] = slot_map[k] /\ slot_map[k] # NULL /\ slot_map[k] \in Elems
  <2>1. pc[c] = "lock"
    BY DEF LockPartial, LockCompletes, Accumulates
  <2>2. slot[c] = slot_map[k] /\ slot[c] # NULL
    BY <1>k, <2>1 DEF Awaits, TypeInv, Known, Pointing
  <2>3. QED BY <2>1, <2>2 DEF TypeInv, MapsTyped
<1>2. s = elem[slot[c]] /\ s \in GradSlot
  BY <1>s, <1>1 DEF SlotOf, TypeInv, MapsTyped
<1>3. /\ elem' = [elem EXCEPT ![slot_map[k]] = a] /\ UNCHANGED <<slot_map, emitted>>
      /\ f.worker_id \notin s.seen_worker
  BY <1>f, <1>a, <1>1, <1>2 DEF LockPartial, LockCompletes, Accumulates, Seen
<1>4. Tally(k, s) /\ SlotSized(s) /\ s.contributions_received < s.num_workers_expected
  BY <1>k, <1>s DEF Awaits
<1>5. /\ Tally(k, a) /\ a \in GradSlot
      /\ a.chunk_len = s.chunk_len /\ a.num_workers_expected = s.num_workers_expected
      /\ a.contributions_received = s.contributions_received + 1
      /\ a.seen_worker = s.seen_worker \cup {f.worker_id}
      /\ s.contributions_received \in Nat /\ s.num_workers_expected \in Nat
  BY <1>f, <1>a, <1>2, <1>3, <1>4, AddedTally
<1>6. SlotSized(a)
  BY <1>4, <1>5 DEF SlotSized
<1>7. a = SlotOf(k)'
  BY <1>1, <1>3 DEF SlotOf, TypeInv, MapsTyped
<1>8. ASSUME NEW m \in Keys \ {k}, slot_map[m] # NULL PROVE SlotOf(m)' = SlotOf(m)
  <2>1. slot_map[m] \in Elems /\ slot_map[m] # slot_map[k]
    BY <1>1, <1>8 DEF MapInjective, TypeInv, MapsTyped
  <2>2. QED BY <1>3, <2>1 DEF TypeInv, MapsTyped, SlotOf
<1>9. LockPartial(c) => ~Completes(a) /\ pc'[c] = "idle"
  BY <1>f, <1>a, <1>2 DEF LockPartial, Return, Goto, TypeInv, LocalsTyped
<1>10. ASSUME LockCompletes(c)
       PROVE  /\ Completes(a) /\ pc'[c] = "complete" /\ UNCHANGED frame
              /\ final'[c].key = k /\ final'[c].chunk_len = a.chunk_len
              /\ final'[c].num_workers = a.num_workers_expected /\ final'[c].sum = a.sum
  <2>1. Completes(a) /\ pc'[c] = "complete" /\ UNCHANGED frame
    BY <1>f, <1>a, <1>2, <1>10 DEF LockCompletes, Goto, TypeInv, LocalsTyped
  <2>2. final'[c] = [sent |-> TRUE, key |-> k, chunk_len |-> a.chunk_len,
                     num_workers |-> a.num_workers_expected, sum |-> a.sum]
    BY <1>k, <1>f, <1>a, <1>2, <1>10 DEF LockCompletes, TypeInv, LocalsTyped
  <2>3. QED BY <2>1, <2>2
<1>11. \A d \in CPUs \ {c} : pc'[d] = pc[d] /\ frame'[d] = frame[d] /\ final'[d] = final[d]
  BY DEF LockPartial, LockCompletes, Return, Goto, TypeInv, LocalsTyped
<1>12. Adds(c, k, s, a)
  BY <1>k, <1>f, <1>s, <1>1, <1>2, <1>3, <1>4, <1>5, <1>6, <1>7, <1>8, <1>9, <1>10, <1>11
  DEF Adds
<1>13. QED BY <1>12

LEMMA SoloLock ==
    ASSUME TypeInv, NEW c \in CPUs, Solo(c), pc[c] = "lock"
    PROVE  Awaits(c)
<1>k. PICK k \in Keys : k = KeyOf(c)
  BY HeldType
<1>1. slot[c] = slot_map[k] /\ slot_map[k] # NULL
  BY <1>k DEF Solo, SoloCPU, TypeInv, Known, Pointing
<1>2. SoloSlot(c, k) /\ ~Closes(c, k)
  BY <1>1 DEF Solo, SoloSlots, Closes, Closing
<1>3. QED BY <1>k, <1>1, <1>2 DEF SoloSlot, Awaits

LEMMA SoloAdd ==
    ASSUME TypeInv, NEW c \in CPUs, Solo(c), LockPartial(c) \/ LockCompletes(c)
    PROVE  Solo(c)'
<1>k. PICK k, s, a : Adds(c, k, s, a)
  <2>1. Awaits(c)
    BY SoloLock DEF LockPartial, LockCompletes, Accumulates
  <2>2. QED BY <2>1, LockAdds DEF Solo
<1>1. /\ k = KeyOf(c) /\ k \in Keys /\ pc[c] = "lock" /\ slot_map[k] # NULL
      /\ slot_map' = slot_map /\ emitted' = emitted
      /\ a = SlotOf(k)' /\ a \in GradSlot /\ Tally(k, a) /\ SlotSized(a)
      /\ s.contributions_received \in Nat /\ s.num_workers_expected \in Nat
      /\ s.contributions_received < s.num_workers_expected
      /\ a.num_workers_expected = s.num_workers_expected
      /\ a.contributions_received = s.contributions_received + 1
      /\ \A m \in Keys \ {k} : slot_map[m] # NULL => SlotOf(m)' = SlotOf(m)
      /\ \/ ~Completes(a) /\ pc'[c] = "idle"
         \/ /\ Completes(a) /\ pc'[c] = "complete" /\ UNCHANGED frame
            /\ final'[c].key = k /\ final'[c].num_workers = a.num_workers_expected
            /\ final'[c].sum = a.sum
  BY <1>k DEF Adds
<1>2. MapInjective' /\ EmittedExact'
  BY <1>1 DEF Solo, MapInjective, EmittedExact
<1>3. ~Opening(c)' /\ (Closes(c, k)' <=> pc'[c] = "complete")
      /\ \A m \in Keys \ {k} : ~Closes(c, m)'
  BY <1>1 DEF Opening, Making, Closes, Closing, KeyOf
<1>4. SoloSlot(c, k)'
  <2>1. a.contributions_received # 0
    BY <1>1
  <2>2. ~Completes(a) => a.contributions_received < a.num_workers_expected
    BY <1>1 DEF Completes
  <2>3. IF Closes(c, k)' THEN Completes(a)
        ELSE a.contributions_received < a.num_workers_expected
    BY <1>1, <1>3, <2>2
  <2>4. QED BY <1>1, <2>1, <2>3 DEF SoloSlot, Tally, SlotSized, Completes
<1>5. ASSUME NEW m \in Keys \ {k}, slot_map'[m] # NULL PROVE SoloSlot(c, m)'
  <2>1. PICK r : r = SlotOf(m)
    OBVIOUS
  <2>2. SoloSlot(c, m) /\ SlotOf(m)' = r
    BY <1>1, <1>5, <2>1 DEF Solo, SoloSlots
  <2>3. ~Closes(c, m) /\ KeyOf(c) # m
    BY <1>1 DEF Closes, Closing
  <2>4. /\ Tally(m, r) /\ SlotSized(r)
        /\ r.contributions_received < r.num_workers_expected
        /\ r.contributions_received # 0
    BY <2>1, <2>2, <2>3 DEF SoloSlot
  <2>5. QED BY <1>3, <2>2, <2>4 DEF SoloSlot, Tally, SlotSized
<1>6. SoloSlots(c)'
  BY <1>4, <1>5 DEF SoloSlots
<1>7. SoloCPU(c)'
  <2>1. CASE pc'[c] = "idle"
    BY <2>1 DEF SoloCPU, Gone, Making, Closing, After
  <2>2. CASE pc'[c] = "complete"
    <3>1. Completes(a) /\ KeyOf(c)' = k
      BY <1>1, <2>2 DEF KeyOf
    <3>2. Exact(final'[c])
      BY <1>1, <2>2, CompletedExact DEF Tally
    <3>3. QED BY <1>1, <2>2, <3>1, <3>2 DEF SoloCPU, Gone, Making, Closing, After
  <2>3. QED BY <1>1, <2>1, <2>2
<1>8. QED BY <1>2, <1>6, <1>7 DEF Solo

\* A frame is dropped under the lock: its slot has a contribution, since the first
\* frame of a slot is not dropped.
LEMMA SoloRejects ==
    ASSUME TypeInv, NEW c \in CPUs, Solo(c), LockRejects(c)
    PROVE  Solo(c)'
<1>1. /\ pc[c] = "lock" /\ pc'[c] = "idle" /\ UNCHANGED <<slot_map, elem, emitted>>
      /\ \/ elem[slot[c]].chunk_len # frame[c].chunk_len
         \/ frame[c].worker_id \in elem[slot[c]].seen_worker
  BY DEF LockRejects, Seen, shared, TypeInv, LocalsTyped, Return, Goto
<1>2. ASSUME NEW k \in Keys, slot_map[k] # NULL, SlotOf(k).contributions_received = 0
      PROVE  FALSE
  <2>1. PICK s : s = SlotOf(k)
    OBVIOUS
  <2>2. Tally(k, s) /\ KeyOf(c) = k /\ s.chunk_len = frame[c].chunk_len
    BY <1>2, <2>1 DEF Solo, SoloSlots, SoloSlot
  <2>3. s = elem[slot[c]] /\ s \in GradSlot
    <3>1. slot[c] = slot_map[k]
      BY <1>1, <2>2 DEF Solo, SoloCPU
    <3>2. QED BY <1>1, <2>1, <3>1, LockType DEF SlotOf
  <2>4. s.seen_worker = {}
    <3>1. s.seen_worker \in SUBSET Workers
      BY <2>3 DEF GradSlot
    <3>2. Cardinality(s.seen_worker) = 0
      BY <1>2, <2>1, <2>2 DEF Tally
    <3>3. QED BY <3>1, <3>2, WorkersFinite, FS_Subset, FS_EmptySet
  <2>5. QED BY <1>1, <2>2, <2>3, <2>4
<1>3. SoloSlots(c)'
  BY <1>1, <1>2, SoloKept DEF Solo, Closing
<1>4. SoloCPU(c)'
  BY <1>1 DEF SoloCPU, Gone, Making, Closing, After
<1>5. QED BY <1>1, <1>3, <1>4 DEF Solo, MapInjective, EmittedExact

LEMMA SoloDelete ==
    ASSUME TypeInv, NEW c \in CPUs, Solo(c), Delete(c)
    PROVE  Solo(c)'
<1>k. PICK k \in Keys : k = KeyOf(c)
  BY HeldType DEF Delete
<1>1. /\ pc[c] = "delete" /\ pc'[c] = "decrement"
      /\ slot_map' = [slot_map EXCEPT ![k] = NULL]
      /\ UNCHANGED <<elem, emitted, frame, final>>
  BY <1>k DEF Delete, locals, TypeInv, LocalsTyped, Goto
<1>2. slot_map'[k] = NULL /\ \A m \in Keys \ {k} : slot_map'[m] = slot_map[m]
  BY <1>1 DEF TypeInv, MapsTyped
<1>3. MapInjective' /\ EmittedExact'
  BY <1>1, <1>2 DEF Solo, MapInjective, EmittedExact
<1>4. ASSUME NEW m \in Keys, slot_map'[m] # NULL PROVE SoloSlot(c, m)'
  <2>1. PICK r : r = SlotOf(m)
    OBVIOUS
  <2>2. SoloSlot(c, m) /\ SlotOf(m)' = r /\ m # k
    BY <1>1, <1>2, <1>4, <2>1 DEF Solo, SoloSlots, SlotOf
  <2>3. ~Closes(c, m) /\ ~Closes(c, m)' /\ ~Opening(c)
    BY <1>k, <1>1, <2>2 DEF Closes, Closing, Opening, Making
  <2>4. /\ Tally(m, r) /\ SlotSized(r)
        /\ r.contributions_received < r.num_workers_expected
        /\ r.contributions_received # 0
    BY <2>1, <2>2, <2>3 DEF SoloSlot
  <2>5. QED BY <2>2, <2>3, <2>4 DEF SoloSlot, Tally, SlotSized
<1>5. SoloCPU(c)'
  BY <1>k, <1>1, <1>2 DEF Solo, SoloCPU, Gone, Making, Closing, After, KeyOf
<1>6. QED BY <1>3, <1>4, <1>5 DEF Solo, SoloSlots

LEMMA SoloTransmit ==
    ASSUME TypeInv, NEW c \in CPUs, Solo(c), Transmit(c)
    PROVE  Solo(c)'
<1>1. /\ pc[c] = "tx" /\ pc'[c] = "idle" /\ emitted' = Append(emitted, final[c])
      /\ UNCHANGED <<slot_map, elem>>
  BY DEF Transmit, TypeInv, LocalsTyped, Return, Goto
<1>2. Exact(final[c])
  BY <1>1 DEF Solo, SoloCPU, After, TypeInv, Known
<1>3. EmittedExact'
  <2>1. emitted \in Seq(Emission)
    BY DEF TypeInv, MapsTyped
  <2>2. ASSUME NEW n \in DOMAIN emitted' PROVE Exact(emitted'[n])
    <3>1. CASE n \in DOMAIN emitted
      BY <1>1, <2>1, <3>1 DEF Solo, EmittedExact
    <3>2. CASE n \notin DOMAIN emitted
      BY <1>1, <1>2, <2>1, <2>2, <3>2
    <3>3. QED BY <3>1, <3>2
  <2>3. QED BY <2>2 DEF EmittedExact
<1>4. SoloSlots(c)'
  BY <1>1, SoloNew, SoloKept DEF Solo, Opening, Making, Closing
<1>5. SoloCPU(c)'
  BY <1>1 DEF SoloCPU, Gone, Making, Closing, After
<1>6. QED BY <1>1, <1>3, <1>4, <1>5 DEF Solo, MapInjective

LEMMA SoloStep ==
    ASSUME NEW c \in CPUs, CPUs = {c}
    PROVE  TypeInv /\ Solo(c) /\ [Next]_vars => Solo(c)'
<1>1. SUFFICES ASSUME TypeInv, Solo(c), [Next]_vars PROVE Solo(c)'
  OBVIOUS
<1>2. CASE SetConfig \/ UNCHANGED vars
  <2>1. UNCHANGED <<slot_map, elem, emitted, pc, locals>>
    BY <1>2 DEF SetConfig, vars, locals
  <2>2. SoloSlots(c)'
    BY <1>1, <2>1, SoloKept DEF Solo, Opening, locals
  <2>3. SoloCPU(c)'
    BY <1>1, <2>1 DEF Solo, SoloCPU, KeyOf, locals
  <2>4. QED BY <1>1, <2>1, <2>2, <2>3 DEF Solo, MapInjective, EmittedExact
<1>3. CASE Rx(c)
  BY <1>1, <1>3, SoloRx
<1>4. CASE Step(c)
  BY <1>1, <1>4, SoloLookup, SoloCreateWins, SoloRejects, SoloAdd, SoloLeaves, SoloDelete,
     SoloTransmit DEF Step
<1>5. QED BY <1>1, <1>2, <1>3, <1>4 DEF Next

LEMMA SoloAlways == ASSUME NEW c \in CPUs, CPUs = {c} PROVE Spec => []Solo(c)
BY SoloInit, SoloStep, TypeAlways, PTL DEF Spec

LEMMA OneCPU == ASSUME Cardinality(CPUs) = 1 PROVE \E c \in CPUs : CPUs = {c}
BY FS_Singleton, RunAssumption

(***************************************************************************)
(* ... and every frame sent with XDP_TX sums as many distinct workers as   *)
(* its slot expected, each exactly once, and nothing else (xdp_agg.c:      *)
(* 481-579, 600): on several CPUs when every worker's frame arrives at     *)
(* most once, and on one CPU whatever is duplicated, reordered, lost or    *)
(* malformed on the way.                                                   *)
(***************************************************************************)
THEOREM EmittedCorrect ==
    ASSUME OnceTraffic \/ Cardinality(CPUs) = 1
    PROVE  Spec => []EmittedExact
<1>1. CASE OnceTraffic
  <2>1. Once => EmittedExact
    BY DEF Once
  <2>2. Spec => []Once
    BY <1>1, OnceAlways
  <2>3. QED BY <2>1, <2>2, PTL
<1>2. CASE Cardinality(CPUs) = 1
  <2>1. PICK c \in CPUs : CPUs = {c}
    BY <1>2, OneCPU
  <2>2. Solo(c) => EmittedExact
    BY DEF Solo
  <2>3. Spec => []Solo(c)
    BY <2>1, SoloAlways
  <2>4. QED BY <2>2, <2>3, PTL
<1>3. QED BY <1>1, <1>2
=============================================================================
