---------------------------- MODULE UserAggProofs ----------------------------
(***************************************************************************)
(* Theorems about UserAgg, for every size of the tables, every hash, every *)
(* quota, TTL and traffic; the last ones are that UserAgg implements       *)
(* Aggregation, and what a hole in a probe sequence has to do with it.     *)
(***************************************************************************)
EXTENDS UserAggRefinement, TLAPS, FunctionTheorems, FiniteSetTheorems

\* A non-empty set of naturals has a least member: were there none, the numbers
\* below all of S would be a finite set that n |-> n + 1 maps into itself,
\* one-to-one and missing 0.
LEMMA LeastMember ==
    ASSUME NEW S \in SUBSET Nat, S # {}
    PROVE  \E p \in S : \A q \in S : p <= q
<1> DEFINE Below == {n \in Nat : \A q \in S : n < q}
           succ  == [n \in Below |-> n + 1]
<1>1. SUFFICES ASSUME \A p \in S : \E q \in S : q < p
               PROVE  FALSE
  OBVIOUS
<1>2. PICK x \in S : TRUE
  OBVIOUS
<1>3. IsFiniteSet(Below)
  <2>1. Below \in SUBSET (0 .. x)
    BY <1>2
  <2>2. IsFiniteSet(0 .. x)
    BY <1>2, FS_Interval
  <2>3. HIDE DEF Below
  <2>4. QED
    BY <2>1, <2>2, FS_Subset
<1>4. 0 \in Below
  BY <1>1
<1>5. ASSUME NEW n \in Below PROVE n + 1 \in Below
  BY <1>1
<1>6. succ \in Injection(Below, Below)
  BY <1>5 DEF Injection, IsInjective
<1>7. succ \in Surjection(Below, Below)
  <2>1. HIDE DEF Below, succ
  <2>2. QED
    BY <1>3, <1>6, FS_Injection
<1>8. PICK n \in Below : succ[n] = 0
  BY <1>4, <1>7 DEF Surjection
<1>9. QED
  BY <1>8

-----------------------------------------------------------------------------
(***************************************************************************)
(* Type correctness.                                                       *)
(***************************************************************************)
LEMMA ProbeIndexType ==
    ASSUME NEW k \in Keys, NEW p \in Nat
    PROVE  ProbeIndex(k, p) \in Index
<1>1. SlotHash[k] + p \in Nat
  BY TrafficAssumption
<1>2. QED
  BY <1>1, CapacityAssumption DEF ProbeIndex, Index

\* A lookup that does not run off the table ends at an index where its loop
\* stops: a free slot or the key's own.
LEMMA FoundStops ==
    ASSUME NEW k \in Keys, Stops(k) # {}
    PROVE  Found(k) \in Index /\ StopsAt(k, Found(k))
<1>1. Stops(k) \in SUBSET Nat
  BY CapacityAssumption DEF Stops
<1>2. \E p \in Stops(k) : \A q \in Stops(k) : p <= q
  BY <1>1, LeastMember
<1> DEFINE p == CHOOSE p \in Stops(k) : \A q \in Stops(k) : p <= q
<1>3. p \in Stops(k)
  BY <1>2
<1>4. p \in Nat /\ StopsAt(k, ProbeIndex(k, p))
  BY <1>1, <1>3 DEF Stops
<1>5. Found(k) = ProbeIndex(k, p)
  BY DEF Found
<1>6. QED
  BY <1>4, <1>5, ProbeIndexType

LEMMA DatagramType ==
    ASSUME TypeOK, NEW d \in Datagrams
    PROVE  d \in Datagram /\ d.key \in Keys /\ d.key.job_id \in Jobs
BY TrafficAssumption DEF Datagram, Keys

LEMMA ReceiveType ==
    ASSUME TypeOK, NEW d, Receive(d)
    PROVE  queue' \in Seq(Datagrams)
BY DEF Receive, TypeOK

\* What find_or_create_slot() returns, and what becomes of it once d is in.
LEMMA SlotForType ==
    ASSUME TypeOK, NEW d \in Datagrams, ~Refused(d.key)
    PROVE  SlotFor(d) \in UsedSlot
<1>1. Found(d.key) \in Index /\ d \in Datagram /\ d.key \in Keys
  BY FoundStops, DatagramType DEF Refused
<1>2. slots[Found(d.key)] \in UsedSlot \cup {FreeSlot}
  BY <1>1 DEF TypeOK
<1>3. CASE slots[Found(d.key)] = FreeSlot
  <2>1. ~slots[Found(d.key)].in_use
    BY <1>3 DEF FreeSlot
  <2>2. QED
    BY <1>1, <2>1 DEF SlotFor, UsedSlot, Datagram
<1>4. CASE slots[Found(d.key)] \in UsedSlot
  <2>1. slots[Found(d.key)].in_use
    BY <1>4 DEF UsedSlot
  <2>2. QED
    BY <1>4, <2>1 DEF SlotFor
<1>5. QED
  BY <1>2, <1>3, <1>4

LEMMA AccumulatedType ==
    ASSUME TypeOK, NEW d \in Datagrams, WellFormed(d), ~Refused(d.key)
    PROVE  Accumulated(d) \in UsedSlot
<1>1. d.worker_id \in Workers
  BY DatagramType, CapacityAssumption DEF WellFormed, Workers, Datagram
<1> DEFINE s     == SlotFor(d)
           sum   == Summed(s.sum, d.worker_id)
           count == s.contributions_received + 1
           seen  == s.seen_worker \cup {d.worker_id}
<1>2. s \in UsedSlot
  BY SlotForType
<1>3. sum \in [Workers -> Nat] /\ count \in Nat /\ seen \in SUBSET Workers
  <2>1. /\ s.sum \in [Workers -> Nat] /\ s.contributions_received \in Nat
        /\ s.seen_worker \in SUBSET Workers
    BY <1>2, Zenon DEF UsedSlot
  <2>2. QED
    BY <2>1, <1>1 DEF Summed
<1>0. 0 \in Int
  OBVIOUS
<1>4. Accumulated(d) = [s EXCEPT !.seen_worker = seen, !.age = 0, !.sum = sum,
                                 !.contributions_received = count]
  BY DEF Accumulated
<1>5. HIDE DEF s, sum, count, seen
<1>6. [s EXCEPT !.seen_worker = seen, !.age = 0, !.sum = sum,
                !.contributions_received = count] \in UsedSlot
  BY <1>0, <1>2, <1>3, ZenonT(30) DEF UsedSlot
<1>7. QED
  BY <1>4, <1>6

LEMMA JobsType ==
    ASSUME TypeOK, NEW k \in Keys
    PROVE  /\ JobsAfterLookup(k) \in [Jobs -> JobEntry]
           /\ JobsAfterRefusal(k) \in [Jobs -> JobEntry]
<1>1. k.job_id \in Jobs
  BY DEF Keys
<1>2. jobs \in [Jobs -> JobEntry]
  BY DEF TypeOK
<1>3. QED
  BY <1>1, <1>2 DEF JobsAfterLookup, JobsAfterRefusal, JobEntry

\* Aging and freeing keep the shape of the table and of the job entries.
LEMMA AgedType ==
    ASSUME NEW s \in UsedSlot \cup {FreeSlot}, s.in_use, NEW a \in Int
    PROVE  [s EXCEPT !.age = a] \in UsedSlot
<1>1. s \in UsedSlot
  BY DEF FreeSlot
<1>2. QED
  BY <1>1, Zenon DEF UsedSlot

\* What the clock does to the table, forward or back: slots in use are re-aged.
Reaged ==
    /\ slots' = [i \in Index |-> slots'[i]]
    /\ \A i \in Index :
          IF slots[i].in_use THEN \E a \in Int : slots'[i] = [slots[i] EXCEPT !.age = a]
          ELSE slots'[i] = slots[i]
    /\ since_reap' \in -MaxBack .. reap_interval
    /\ UNCHANGED <<jobs, queue, out, pc, g_dump_stats_requested, packets_in>>

LEMMA ClockReages == TypeOK /\ (Tick \/ ClockBack) => Reaged
<1>1. /\ reap_interval \in Nat /\ slot_ttl \in Nat /\ MaxBack \in Nat
  BY ArgumentAssumption DEF reap_interval
<1>2. ASSUME TypeOK, NEW i \in Index, slots[i].in_use PROVE slots[i].age \in Int
  <2>1. slots[i] \in UsedSlot
    BY <1>2 DEF TypeOK, FreeSlot
  <2>2. QED
    BY <2>1, Zenon DEF UsedSlot
<1>3. ASSUME TypeOK, Tick PROVE Reaged
  <2>1. ASSUME NEW i \in Index, slots[i].in_use
        PROVE  \E a \in Int : slots'[i] = [slots[i] EXCEPT !.age = a]
    <3>1. Older(slots[i].age, slot_ttl) \in Int
      BY <1>1, <1>2, <1>3, <2>1 DEF Older
    <3>2. slots'[i] = [slots[i] EXCEPT !.age = Older(slots[i].age, slot_ttl)]
      BY <1>3, <2>1 DEF Tick
    <3>3. QED
      BY <3>1, <3>2
  <2>2. ASSUME NEW i \in Index, ~slots[i].in_use PROVE slots'[i] = slots[i]
    BY <1>3, <2>2 DEF Tick
  <2>3. since_reap' \in -MaxBack .. reap_interval
    <3>1. since_reap \in -MaxBack .. reap_interval
          /\ since_reap' = Older(since_reap, reap_interval)
      BY <1>3 DEF TypeOK, Tick
    <3>2. QED
      BY <1>1, <3>1 DEF Older
  <2>4. slots' = [i \in Index |-> slots'[i]]
    BY <1>3 DEF Tick
  <2>5. QED
    BY <1>3, <2>1, <2>2, <2>3, <2>4 DEF Tick, Reaged
<1>4. ASSUME TypeOK, ClockBack PROVE Reaged
  <2>1. PICK past \in SUBSET Expired :
            slots' = [i \in Index |->
                        IF i \in InUse \ past THEN [slots[i] EXCEPT !.age = @ - 1]
                        ELSE slots[i]]
    BY <1>4 DEF ClockBack
  <2>2. ASSUME NEW i \in Index, slots[i].in_use
        PROVE  \E a \in Int : slots'[i] = [slots[i] EXCEPT !.age = a]
    <3>1. slots[i].age \in Int /\ slots[i].age - 1 \in Int
      BY <1>2, <1>4, <2>2
    <3>2. CASE i \in past
      <4>1. slots'[i] = slots[i]
        BY <2>1, <2>2, <3>2
      <4>2. slots[i] \in UsedSlot
        BY <1>4, <2>2 DEF TypeOK, FreeSlot
      <4>3. slots[i] = [slots[i] EXCEPT !.age = slots[i].age]
        BY <4>2, Zenon DEF UsedSlot
      <4>4. QED
        BY <3>1, <4>1, <4>3
    <3>3. CASE i \notin past
      <4>1. slots'[i] = [slots[i] EXCEPT !.age = slots[i].age - 1]
        BY <2>1, <2>2, <3>3 DEF InUse
      <4>2. QED
        BY <3>1, <4>1
    <3>4. QED
      BY <3>2, <3>3
  <2>3. ASSUME NEW i \in Index, ~slots[i].in_use PROVE slots'[i] = slots[i]
    BY <2>1, <2>3 DEF InUse
  <2>4. since_reap' \in -MaxBack .. reap_interval
    <3>1. since_reap \in -MaxBack .. reap_interval /\ since_reap > -MaxBack
          /\ since_reap' \in {since_reap - 1, since_reap}
      BY <1>4 DEF TypeOK, ClockBack
    <3>2. QED
      BY <1>1, <3>1
  <2>5. slots' = [i \in Index |-> slots'[i]]
    BY <2>1
  <2>6. QED
    BY <1>4, <2>2, <2>3, <2>4, <2>5 DEF ClockBack, Reaged
<1>5. QED
  BY <1>3, <1>4

LEMMA OwnedFinite ==
    ASSUME NEW j, NEW E
    PROVE  /\ IsFiniteSet(Owned(j)) /\ IsFiniteSet(E \cap Owned(j))
           /\ Cardinality(Owned(j)) \in Nat /\ Cardinality(E \cap Owned(j)) \in Nat
<1>1. IsFiniteSet(Index)
  BY CapacityAssumption, FS_Interval DEF Index
<1>2. Owned(j) \in SUBSET Index /\ E \cap Owned(j) \in SUBSET Index
  BY DEF Owned, InUse
<1>3. QED
  BY <1>1, <1>2, FS_Subset, FS_CardinalityType

LEMMA LessType ==
    ASSUME NEW a \in Nat, NEW b \in Nat
    PROVE  Less(a, b) \in Nat
BY DEF Less

LEMMA JobsAfterFreeType ==
    ASSUME TypeOK, NEW E
    PROVE  JobsAfterFree(E) \in [Jobs -> JobEntry]
<1>1. SUFFICES ASSUME NEW j \in Jobs
               PROVE  [jobs[j] EXCEPT !.concurrent_slots =
                          Less(@, Cardinality(E \cap Owned(j)))] \in JobEntry
  BY DEF JobsAfterFree
<1> DEFINE e == jobs[j]
           n == Less(e.concurrent_slots, Cardinality(E \cap Owned(j)))
<1>2. e \in JobEntry
  BY DEF TypeOK
<1>3. n \in Nat
  <2>1. e.concurrent_slots \in Nat
    BY <1>2, Zenon DEF JobEntry
  <2>2. QED
    BY <2>1, OwnedFinite, LessType
<1>4. HIDE DEF e, n
<1>5. [e EXCEPT !.concurrent_slots = n] \in JobEntry
  BY <1>2, <1>3, Zenon DEF JobEntry
<1>6. QED
  BY <1>5 DEF e, n

LEMMA CompletedJobsType ==
    ASSUME TypeOK, NEW k \in Keys
    PROVE  [JobsAfterLookup(k) EXCEPT ![k.job_id].concurrent_slots = Less(@, 1)]
                \in [Jobs -> JobEntry]
<1> DEFINE js == JobsAfterLookup(k)
           e  == js[k.job_id]
           n  == Less(e.concurrent_slots, 1)
<1>1. js \in [Jobs -> JobEntry] /\ k.job_id \in Jobs
  BY JobsType DEF Keys
<1>2. e \in JobEntry
  BY <1>1
<1>3. n \in Nat
  <2>1. e.concurrent_slots \in Nat
    BY <1>2, Zenon DEF JobEntry
  <2>2. QED
    BY <2>1, LessType
<1>4. HIDE DEF js, e, n
<1>5. [e EXCEPT !.concurrent_slots = n] \in JobEntry
  BY <1>2, <1>3, Zenon DEF JobEntry
<1>6. [js EXCEPT ![k.job_id] = [e EXCEPT !.concurrent_slots = n]] \in [Jobs -> JobEntry]
  BY <1>1, <1>5
<1>7. QED
  BY <1>6 DEF js, e, n

\* What a completed slot is sent on as.
LEMMA EmissionType ==
    ASSUME TypeOK, NEW d \in Datagrams, WellFormed(d), ~Refused(d.key)
    PROVE  [key |-> d.key, chunk_len |-> Accumulated(d).chunk_len,
            sum |-> Accumulated(d).sum,
            num_workers |-> Accumulated(d).num_workers_expected] \in Emission
<1>1. Accumulated(d) \in UsedSlot /\ d.key \in Keys
  BY AccumulatedType, DatagramType
<1>2. QED
  BY <1>1 DEF UsedSlot, Emission

THEOREM TypeInit == Init => TypeOK
<1>1. reap_interval \in Nat
  BY ArgumentAssumption DEF reap_interval
<1>2. NoEntry \in JobEntry
  BY Zenon DEF NoEntry, JobEntry
<1>3. ASSUME Init PROVE slots \in [Index -> UsedSlot \cup {FreeSlot}]
  BY <1>3 DEF Init
<1>4. ASSUME Init PROVE jobs \in [Jobs -> JobEntry]
  BY <1>2, <1>4 DEF Init
<1>5. ASSUME Init PROVE queue \in Seq(Datagrams) /\ out \in Seq(Emission)
  BY <1>5 DEF Init
<1>6. ASSUME Init PROVE packets_in \in Nat /\ since_reap \in -MaxBack .. reap_interval
  BY <1>1, <1>6, ArgumentAssumption DEF Init
<1>7. QED
  BY <1>3, <1>4, <1>5, <1>6, Zenon DEF Init, TypeOK

LEMMA TypeArrive == TypeOK /\ Arrive => TypeOK'
BY DEF TypeOK, Arrive

LEMMA TypeClock == TypeOK /\ (Tick \/ ClockBack) => TypeOK'
<1>1. SUFFICES ASSUME TypeOK, Reaged PROVE TypeOK'
  BY ClockReages
<1>2. slots' \in [Index -> UsedSlot \cup {FreeSlot}]
  <2>1. SUFFICES ASSUME NEW i \in Index PROVE slots'[i] \in UsedSlot \cup {FreeSlot}
    BY <1>1 DEF Reaged
  <2>2. slots[i] \in UsedSlot \cup {FreeSlot}
    BY <1>1 DEF TypeOK
  <2>3. CASE slots[i].in_use
    <3>1. PICK a \in Int : slots'[i] = [slots[i] EXCEPT !.age = a]
      BY <1>1, <2>3 DEF Reaged
    <3>2. QED
      BY <2>2, <2>3, <3>1, AgedType
  <2>4. CASE ~slots[i].in_use
    BY <1>1, <2>2, <2>4 DEF Reaged
  <2>5. QED
    BY <2>3, <2>4
<1>3. QED
  BY <1>1, <1>2 DEF TypeOK, Reaged

LEMMA TypeQuiet ==
    TypeOK /\ (SigUsr1 \/ Exit \/ NoSweep \/ DumpStats \/ ClearRequest \/ NoDump
               \/ Block \/ Timeout) => TypeOK'
BY DEF TypeOK, SigUsr1, Exit, NoSweep, DumpStats, ClearRequest, NoDump, Block, Timeout

LEMMA TypeSweep == TypeOK /\ Sweep => TypeOK'
<1>1. SUFFICES ASSUME TypeOK, Sweep PROVE TypeOK'
  OBVIOUS
<1>2. slots' \in [Index -> UsedSlot \cup {FreeSlot}]
  BY <1>1 DEF TypeOK, Sweep
<1>3. jobs' \in [Jobs -> JobEntry]
  BY <1>1, JobsAfterFreeType DEF Sweep
<1>4. since_reap' \in -MaxBack .. reap_interval
  <2>1. reap_interval \in Nat /\ MaxBack \in Nat
    BY ArgumentAssumption DEF reap_interval
  <2>2. QED
    BY <1>1, <2>1 DEF Sweep
<1>5. QED
  BY <1>1, <1>2, <1>3, <1>4 DEF TypeOK, Sweep

LEMMA TypeDropped ==
    TypeOK /\ (RecvRunt \/ RecvMalformed \/ RecvMismatch \/ RecvDuplicate) => TypeOK'
<1>1. SUFFICES ASSUME TypeOK, NEW d \in Datagrams, Receive(d),
                      UNCHANGED <<slots, jobs, out>>,
                      packets_in' = packets_in \/ packets_in' = packets_in + 1
               PROVE  TypeOK'
  BY DEF RecvRunt, RecvMalformed, RecvMismatch, RecvDuplicate, Admitted
<1>2. QED
  BY <1>1, ReceiveType DEF TypeOK, Receive

LEMMA TypeRefused == TypeOK /\ RecvRefused => TypeOK'
<1>1. SUFFICES ASSUME TypeOK, NEW d \in Datagrams, Receive(d),
                      UNCHANGED <<slots, out>>, packets_in' = packets_in + 1,
                      jobs' = JobsAfterRefusal(d.key)
               PROVE  TypeOK'
  BY DEF RecvRefused
<1>2. jobs' \in [Jobs -> JobEntry]
  BY <1>1, JobsType, DatagramType
<1>3. QED
  BY <1>1, <1>2, ReceiveType DEF TypeOK, Receive

LEMMA TypePartial == TypeOK /\ RecvPartial => TypeOK'
<1>1. SUFFICES ASSUME TypeOK, NEW d \in Datagrams, Admitted(d), UNCHANGED out,
                      slots' = [slots EXCEPT ![Found(d.key)] = Accumulated(d)],
                      jobs' = JobsAfterLookup(d.key)
               PROVE  TypeOK'
  BY DEF RecvPartial
<1>2. Receive(d) /\ WellFormed(d) /\ ~Refused(d.key) /\ packets_in' = packets_in + 1
  BY <1>1 DEF Admitted
<1>3. slots' \in [Index -> UsedSlot \cup {FreeSlot}]
  BY <1>1, <1>2, AccumulatedType DEF TypeOK
<1>4. jobs' \in [Jobs -> JobEntry]
  BY <1>1, JobsType, DatagramType
<1>5. QED
  BY <1>1, <1>2, <1>3, <1>4, ReceiveType DEF TypeOK, Receive

LEMMA TypeComplete == TypeOK /\ RecvComplete => TypeOK'
<1>1. SUFFICES ASSUME TypeOK, NEW d \in Datagrams, Admitted(d),
                      slots' = [slots EXCEPT ![Found(d.key)] = FreeSlot],
                      jobs' = [JobsAfterLookup(d.key) EXCEPT
                                  ![d.key.job_id].concurrent_slots = Less(@, 1)],
                      \/ out' = Append(out, [key |-> d.key,
                              chunk_len |-> Accumulated(d).chunk_len,
                              sum |-> Accumulated(d).sum,
                              num_workers |-> Accumulated(d).num_workers_expected])
                      \/ UNCHANGED out
               PROVE  TypeOK'
  BY DEF RecvComplete
<1>2. Receive(d) /\ WellFormed(d) /\ ~Refused(d.key) /\ packets_in' = packets_in + 1
  BY <1>1 DEF Admitted
<1>3. slots' \in [Index -> UsedSlot \cup {FreeSlot}]
  BY <1>1 DEF TypeOK
<1>4. jobs' \in [Jobs -> JobEntry]
  BY <1>1, CompletedJobsType, DatagramType
<1>5. out' \in Seq(Emission)
  <2> DEFINE e == [key |-> d.key, chunk_len |-> Accumulated(d).chunk_len,
                   sum |-> Accumulated(d).sum,
                   num_workers |-> Accumulated(d).num_workers_expected]
  <2>1. e \in Emission
    BY <1>1, <1>2, EmissionType
  <2>2. out' = Append(out, e) \/ out' = out
    BY <1>1
  <2>3. out \in Seq(Emission)
    BY <1>1 DEF TypeOK
  <2>4. HIDE DEF e
  <2>5. QED
    BY <2>1, <2>2, <2>3
<1>6. QED
  BY <1>1, <1>2, <1>3, <1>4, <1>5, ReceiveType DEF TypeOK, Receive

LEMMA TypeStep == TypeOK /\ [Next]_vars => TypeOK'
<1>1. TypeOK /\ UNCHANGED vars => TypeOK'
  BY DEF TypeOK, vars
<1>2. QED
  BY <1>1, TypeArrive, TypeClock, TypeQuiet, TypeSweep, TypeDropped, TypeRefused,
     TypePartial, TypeComplete DEF Next, MainLoop

\* Every variable keeps its type, for every table size, hash, quota, TTL and
\* traffic (agg.c:99-160, 318-558).
THEOREM TypeCorrect == Spec => []TypeOK
BY TypeInit, TypeStep, PTL DEF Spec

-----------------------------------------------------------------------------
(***************************************************************************)
(* Quota accounting.  Every step changes what a job owns and what it is    *)
(* charged for together; the lemmas say how each kind of change to the     *)
(* table changes Owned.                                                    *)
(***************************************************************************)
LEMMA PutSlot ==
    ASSUME TypeOK, NEW i \in Index, NEW s \in UsedSlot,
           slots' = [slots EXCEPT ![i] = s], NEW j
    PROVE  Owned(j)' = IF s.key.job_id = j THEN Owned(j) \cup {i} ELSE Owned(j) \ {i}
<1>1. slots \in [Index -> UsedSlot \cup {FreeSlot}] /\ s.in_use
  BY DEF TypeOK, UsedSlot
<1>2. \A m \in Index : m \in Owned(j)' <=>
            IF m = i THEN s.key.job_id = j ELSE m \in Owned(j)
  BY <1>1 DEF Owned, InUse
<1>3. Owned(j) \subseteq Index /\ Owned(j)' \subseteq Index
  BY DEF Owned, InUse
<1>4. QED
  BY <1>2, <1>3

LEMMA DropSlots ==
    ASSUME NEW E \in SUBSET Index,
           slots' = [i \in Index |-> IF i \in E THEN FreeSlot ELSE slots[i]], NEW j
    PROVE  Owned(j)' = Owned(j) \ E
<1>1. ~FreeSlot.in_use
  BY DEF FreeSlot
<1>2. \A m \in Index : m \in Owned(j)' <=> m \notin E /\ m \in Owned(j)
  BY <1>1 DEF Owned, InUse
<1>3. Owned(j) \subseteq Index /\ Owned(j)' \subseteq Index
  BY DEF Owned, InUse
<1>4. QED
  BY <1>2, <1>3

\* g_jobs entries are never given back.
LEMMA TrackedGrow ==
    ASSUME \A j \in Jobs : jobs[j].in_use => jobs'[j].in_use
    PROVE  JobTableFull => JobTableFull'
<1>1. IsFiniteSet(TrackedJobs) /\ IsFiniteSet(TrackedJobs')
  BY TrafficAssumption, FS_Subset DEF TrackedJobs
<1>2. TrackedJobs \in SUBSET (TrackedJobs')
  BY DEF TrackedJobs
<1>3. Cardinality(TrackedJobs) <= Cardinality(TrackedJobs')
  BY <1>1, <1>2, FS_Subset
<1>4. QED
  BY <1>1, <1>3, FS_CardinalityType, CapacityAssumption DEF JobTableFull

\* The books of one job.
Account(j) ==
    IF jobs[j].in_use
    THEN /\ jobs[j].concurrent_slots = Cardinality(Owned(j))
         /\ g_job_quota > 0 => Cardinality(Owned(j)) <= g_job_quota
    ELSE jobs[j].concurrent_slots = 0 /\ (Owned(j) # {} => JobTableFull)

LEMMA AccountsInv == AccountingInv <=> \A j \in Jobs : Account(j)
BY DEF AccountingInv, SlotJobTracked, QuotaAccounting, QuotaCap, TrackedJobs, Account

\* A step that changes neither what a job owns nor its entry.
LEMMA SameAccount ==
    ASSUME NEW j \in Jobs, Account(j), Owned(j)' = Owned(j),
           jobs'[j].in_use = jobs[j].in_use,
           jobs'[j].concurrent_slots = jobs[j].concurrent_slots,
           JobTableFull => JobTableFull'
    PROVE  Account(j)'
BY DEF Account

\* Steps that leave g_jobs alone and every slot to its owner.
LEMMA AccountsQuiet ==
    ASSUME AccountingInv, jobs' = jobs, \A j \in Jobs : Owned(j)' = Owned(j)
    PROVE  AccountingInv'
<1>1. JobTableFull => JobTableFull'
  BY TrackedGrow
<1>2. \A j \in Jobs : Account(j)'
  BY <1>1, AccountsInv, SameAccount
<1>3. QED
  BY <1>2, AccountsInv DEF AccountingInv, SlotJobTracked, QuotaAccounting, QuotaCap,
     TrackedJobs, Account

LEMMA AccountsClock == TypeOK /\ AccountingInv /\ (Tick \/ ClockBack) => AccountingInv'
<1>1. SUFFICES ASSUME TypeOK, AccountingInv, Reaged PROVE AccountingInv'
  BY ClockReages
<1>2. ASSUME NEW j \in Jobs, NEW i \in Index PROVE i \in Owned(j)' <=> i \in Owned(j)
  <2>1. slots[i] \in UsedSlot \cup {FreeSlot}
    BY <1>1 DEF TypeOK
  <2>2. CASE slots[i].in_use
    <3>1. PICK a \in Int : slots'[i] = [slots[i] EXCEPT !.age = a]
      BY <1>1, <2>2 DEF Reaged
    <3>2. slots[i] \in UsedSlot
      BY <2>1, <2>2 DEF FreeSlot
    <3>3. slots'[i].in_use /\ slots'[i].key = slots[i].key
      BY <3>1, <3>2 DEF UsedSlot
    <3>4. QED
      BY <2>2, <3>3 DEF Owned, InUse
  <2>3. CASE ~slots[i].in_use
    <3>1. slots'[i] = slots[i]
      BY <1>1, <2>3 DEF Reaged
    <3>2. QED
      BY <3>1 DEF Owned, InUse
  <2>4. QED
    BY <2>2, <2>3
<1>3. \A j \in Jobs : Owned(j)' = Owned(j)
  <2>1. \A j \in Jobs : Owned(j)' \subseteq Index /\ Owned(j) \subseteq Index
    BY DEF Owned, InUse
  <2>2. QED
    BY <1>2, <2>1
<1>4. QED
  BY <1>1, <1>3, AccountsQuiet DEF Reaged

\* The steps that touch neither table.
LEMMA AccountsUntouched ==
    ASSUME AccountingInv, UNCHANGED <<slots, jobs>>
    PROVE  AccountingInv'
<1>1. \A j \in Jobs : Owned(j)' = Owned(j)
  BY DEF Owned, InUse
<1>2. QED
  BY <1>1, AccountsQuiet

\* A sweep takes from every job as many slots as it takes off its count.
LEMMA AccountsSweep == TypeOK /\ AccountingInv /\ Sweep => AccountingInv'
<1>1. SUFFICES ASSUME TypeOK, AccountingInv, Sweep PROVE AccountingInv'
  OBVIOUS
<1>2. Expired \in SUBSET Index
  BY DEF Expired, InUse
<1>3. SUFFICES ASSUME NEW j \in Jobs PROVE Account(j)'
  BY DEF AccountingInv, SlotJobTracked, QuotaAccounting, QuotaCap, TrackedJobs, Account
<1>4. Owned(j)' = Owned(j) \ Expired
  BY <1>1, <1>2, DropSlots DEF Sweep
<1> DEFINE n == Cardinality(Expired \cap Owned(j))
<1>5. jobs'[j] = [jobs[j] EXCEPT !.concurrent_slots = Less(@, n)]
  BY <1>1 DEF Sweep, JobsAfterFree
<1>6. jobs[j] \in JobEntry /\ jobs[j].concurrent_slots \in Nat
  <2>1. jobs[j] \in JobEntry
    BY <1>1 DEF TypeOK
  <2>2. QED
    BY <2>1, Zenon DEF JobEntry
<1>7. /\ jobs'[j].in_use = jobs[j].in_use
      /\ jobs'[j].concurrent_slots = Less(jobs[j].concurrent_slots, n)
  <2>1. HIDE DEF n
  <2>2. QED
    BY <1>5, <1>6, Zenon DEF JobEntry
<1>8. /\ n \in Nat /\ Cardinality(Owned(j)) \in Nat /\ n <= Cardinality(Owned(j))
      /\ Cardinality(Owned(j)') = Cardinality(Owned(j)) - n
  <2>1. n \in Nat /\ Cardinality(Owned(j)) \in Nat /\ IsFiniteSet(Owned(j))
    BY OwnedFinite
  <2>2. Cardinality(Owned(j) \ Expired) = Cardinality(Owned(j)) - Cardinality(Owned(j) \cap Expired)
    BY <2>1, FS_Difference
  <2>3. Owned(j) \cap Expired = Expired \cap Owned(j)
    OBVIOUS
  <2>4. n <= Cardinality(Owned(j))
    <3>1. Expired \cap Owned(j) \in SUBSET Owned(j)
      OBVIOUS
    <3>2. QED
      BY <2>1, <3>1, FS_Subset
  <2>5. QED
    BY <1>4, <2>1, <2>2, <2>3, <2>4
<1>9. JobTableFull => JobTableFull'
  <2>1. ASSUME NEW m \in Jobs PROVE jobs'[m].in_use = jobs[m].in_use
    <3>1. jobs'[m] = [jobs[m] EXCEPT !.concurrent_slots =
                                          Less(@, Cardinality(Expired \cap Owned(m)))]
      BY <1>1 DEF Sweep, JobsAfterFree
    <3>2. jobs[m] \in JobEntry
      BY <1>1 DEF TypeOK
    <3>3. QED
      BY <3>1, <3>2, Zenon DEF JobEntry
  <2>2. QED
    BY <2>1, TrackedGrow
<1>10. Account(j)
  BY <1>1, AccountsInv
<1>11. HIDE DEF n
<1>12. CASE jobs[j].in_use
  BY <1>7, <1>8, <1>10, <1>12, ArgumentAssumption DEF Account, Less
<1>13. CASE ~jobs[j].in_use
  BY <1>4, <1>6, <1>7, <1>8, <1>9, <1>10, <1>13 DEF Account, Less
<1>14. QED
  BY <1>12, <1>13

\* A refusal at the quota only ever touches an entry that is in use.
LEMMA AccountsRefused == TypeOK /\ AccountingInv /\ RecvRefused => AccountingInv'
<1>1. SUFFICES ASSUME TypeOK, AccountingInv, NEW d \in Datagrams, UNCHANGED slots,
                      jobs' = JobsAfterRefusal(d.key)
               PROVE  AccountingInv'
  BY DEF RecvRefused
<1> DEFINE a == d.key.job_id
<1>2. jobs \in [Jobs -> JobEntry] /\ a \in Jobs
  BY <1>1, DatagramType DEF TypeOK
<1>3. Account(a)
  BY <1>1, <1>2, AccountsInv
<1>4. CASE RefusedByQuota(d.key)
  <2>1. jobs[a].in_use
    BY <1>2, <1>3, <1>4, ArgumentAssumption DEF RefusedByQuota, AtQuota, Account
  <2>2. jobs' = [jobs EXCEPT ![a].in_use = TRUE, ![a].rejected_count = @ + 1]
    BY <1>1, <1>4 DEF JobsAfterRefusal
  <2>3. ASSUME NEW j \in Jobs
        PROVE  /\ jobs'[j].in_use = jobs[j].in_use
               /\ jobs'[j].concurrent_slots = jobs[j].concurrent_slots
    BY <1>2, <2>1, <2>2 DEF JobEntry
  <2>4. JobTableFull => JobTableFull'
    BY <2>3, TrackedGrow
  <2>5. \A j \in Jobs : Owned(j)' = Owned(j)
    BY <1>1 DEF Owned, InUse
  <2>6. \A j \in Jobs : Account(j)'
    BY <1>1, <2>3, <2>4, <2>5, AccountsInv, SameAccount
  <2>7. QED
    BY <2>6 DEF AccountingInv, SlotJobTracked, QuotaAccounting, QuotaCap, TrackedJobs,
       Account
<1>5. CASE ~RefusedByQuota(d.key)
  <2>1. jobs' = jobs
    BY <1>1, <1>5 DEF JobsAfterRefusal
  <2>2. QED
    BY <1>1, <2>1, AccountsUntouched
<1>6. QED
  BY <1>4, <1>5

\* The slot a contribution ends in carries the contribution's key.
LEMMA AccumulatedKey ==
    ASSUME TypeOK, NEW d \in Datagrams, WellFormed(d), ~Refused(d.key)
    PROVE  Accumulated(d).key = d.key
<1>1. Found(d.key) \in Index /\ StopsAt(d.key, Found(d.key)) /\ d.key \in Keys
  BY FoundStops, DatagramType DEF Refused
<1>2. SlotFor(d).key = d.key
  BY <1>1 DEF SlotFor, StopsAt
<1> DEFINE s == SlotFor(d)
<1>3. s \in UsedSlot
  BY SlotForType
<1>4. Accumulated(d).key = s.key
  <2>1. Accumulated(d) = [s EXCEPT !.seen_worker = @ \cup {d.worker_id}, !.age = 0,
              !.sum = Summed(@, d.worker_id), !.contributions_received = @ + 1]
    BY DEF Accumulated
  <2>2. HIDE DEF s
  <2>3. QED
    BY <1>3, <2>1, Zenon DEF UsedSlot
<1>5. QED
  BY <1>2, <1>4

\* What the lookup does to the books: nothing, when the slot is there or the
\* job cannot be tracked; else it charges the job, which is below its quota.
LEMMA LookupBooks ==
    ASSUME TypeOK, AccountingInv, NEW k \in Keys, ~Refused(k)
    PROVE  \/ JobsAfterLookup(k) = jobs /\ (slots[Found(k)].in_use \/ ~JobFound(k.job_id))
           \/ /\ ~slots[Found(k)].in_use /\ JobFound(k.job_id)
              /\ g_job_quota > 0 => jobs[k.job_id].concurrent_slots < g_job_quota
              /\ JobsAfterLookup(k) \in [Jobs -> JobEntry]
              /\ JobsAfterLookup(k)[k.job_id].in_use
              /\ JobsAfterLookup(k)[k.job_id].concurrent_slots =
                      jobs[k.job_id].concurrent_slots + 1
              /\ \A j \in Jobs \ {k.job_id} : JobsAfterLookup(k)[j] = jobs[j]
<1>1. jobs \in [Jobs -> JobEntry] /\ k.job_id \in Jobs
  BY DEF TypeOK, Keys
<1>2. CASE slots[Found(k)].in_use \/ ~JobFound(k.job_id)
  BY <1>2 DEF JobsAfterLookup
<1>3. CASE ~slots[Found(k)].in_use /\ JobFound(k.job_id)
  <2>1. JobsAfterLookup(k) = [jobs EXCEPT ![k.job_id].in_use = TRUE,
                                  ![k.job_id].concurrent_slots = @ + 1,
                                  ![k.job_id].admitted_count = @ + 1]
    BY <1>3 DEF JobsAfterLookup
  <2>2. jobs[k.job_id].concurrent_slots \in Nat
    BY <1>1 DEF JobEntry
  <2>3. g_job_quota > 0 => jobs[k.job_id].concurrent_slots < g_job_quota
    BY <1>3, <2>2, ArgumentAssumption DEF Refused, RefusedByQuota, AtQuota
  <2>4. /\ JobsAfterLookup(k)[k.job_id].in_use
        /\ JobsAfterLookup(k)[k.job_id].concurrent_slots =
                jobs[k.job_id].concurrent_slots + 1
        /\ \A j \in Jobs \ {k.job_id} : JobsAfterLookup(k)[j] = jobs[j]
    BY <1>1, <2>1 DEF JobEntry
  <2>5. QED
    BY <1>3, <2>3, <2>4, JobsType
<1>4. QED
  BY <1>2, <1>3

\* A charged job's count is what it owns: also when it is charged for the
\* first time, for an untracked job that finds room in g_jobs owns nothing.
LEMMA ChargeableCount ==
    ASSUME NEW j \in Jobs, Account(j), JobFound(j)
    PROVE  jobs[j].concurrent_slots = Cardinality(Owned(j))
<1>1. CASE jobs[j].in_use
  BY <1>1 DEF Account
<1>2. CASE ~jobs[j].in_use
  BY <1>2, FS_EmptySet DEF Account, JobFound
<1>3. QED
  BY <1>1, <1>2

\* The slot a lookup ends at is owned by the key's job if it is in use, and by
\* nobody otherwise.
LEMMA FoundOwner ==
    ASSUME NEW k \in Keys, Stops(k) # {}, NEW j
    PROVE  Found(k) \in Owned(j) <=> slots[Found(k)].in_use /\ j = k.job_id
BY FoundStops DEF Owned, InUse, StopsAt

LEMMA AccountsPartial == TypeOK /\ AccountingInv /\ RecvPartial => AccountingInv'
<1>1. SUFFICES ASSUME TypeOK, AccountingInv, NEW d \in Datagrams, Admitted(d),
                      slots' = [slots EXCEPT ![Found(d.key)] = Accumulated(d)],
                      jobs' = JobsAfterLookup(d.key)
               PROVE  AccountingInv'
  BY DEF RecvPartial
<1> DEFINE k == d.key
           a == k.job_id
           F == Found(k)
<1>2. WellFormed(d) /\ ~Refused(k) /\ k \in Keys /\ a \in Jobs /\ Stops(k) # {}
  BY <1>1, DatagramType DEF Admitted, Refused
<1>3. /\ F \in Index
      /\ \A j \in Jobs : Owned(j)' = IF a = j THEN Owned(j) \cup {F} ELSE Owned(j) \ {F}
  <2> DEFINE s == Accumulated(d)
  <2>1. F \in Index /\ s \in UsedSlot /\ s.key = k /\ slots' = [slots EXCEPT ![F] = s]
    BY <1>1, <1>2, FoundStops, AccumulatedType, AccumulatedKey
  <2>2. TypeOK /\ s.key.job_id = a
    BY <1>1, <2>1
  <2> HIDE DEF s, F, a
  <2>3. ASSUME NEW j \in Jobs
        PROVE  Owned(j)' = IF a = j THEN Owned(j) \cup {F} ELSE Owned(j) \ {F}
    BY <2>1, <2>2, PutSlot
  <2>4. QED
    BY <2>1, <2>3
<1>4. \A j \in Jobs : F \in Owned(j) <=> slots[F].in_use /\ j = a
  BY <1>2, FoundOwner
<1>5. \A j \in Jobs \ {a} : Owned(j)' = Owned(j)
  BY <1>3, <1>4
<1>6. CASE slots[F].in_use
  <2>1. jobs' = jobs
    BY <1>1, <1>6 DEF JobsAfterLookup
  <2>2. Owned(a)' = Owned(a)
    BY <1>2, <1>3, <1>4, <1>6
  <2>3. QED
    BY <1>1, <1>5, <2>1, <2>2, AccountsQuiet
<1>7. CASE ~slots[F].in_use /\ ~JobFound(a)
  <2>1. jobs' = jobs
    BY <1>1, <1>7 DEF JobsAfterLookup
  <2>2. JobTableFull'
    BY <1>7, <2>1, TrackedGrow DEF JobFound
  <2>3. \A j \in Jobs : Account(j)
    BY <1>1, AccountsInv
  <2>4. Account(a)'
    BY <1>2, <1>7, <2>1, <2>2, <2>3 DEF Account, JobFound
  <2>5. \A j \in Jobs \ {a} : Account(j)'
    BY <1>5, <2>1, <2>2, <2>3, SameAccount
  <2>6. QED
    BY <2>4, <2>5 DEF AccountingInv, SlotJobTracked, QuotaAccounting, QuotaCap,
       TrackedJobs, Account
<1>8. CASE ~slots[F].in_use /\ JobFound(a)
  <2>1. /\ g_job_quota > 0 => jobs[a].concurrent_slots < g_job_quota
        /\ jobs'[a].in_use
        /\ jobs'[a].concurrent_slots = jobs[a].concurrent_slots + 1
        /\ \A j \in Jobs \ {a} : jobs'[j] = jobs[j]
    BY <1>1, <1>2, <1>8, LookupBooks
  <2>2. \A j \in Jobs : Account(j)
    BY <1>1, AccountsInv
  <2>3. jobs[a].concurrent_slots = Cardinality(Owned(a))
    BY <1>2, <1>8, <2>2, ChargeableCount
  <2>4. Owned(a)' = Owned(a) \cup {F} /\ F \notin Owned(a)
    BY <1>2, <1>3, <1>4, <1>8
  <2>5. Cardinality(Owned(a)') = Cardinality(Owned(a)) + 1 /\ Cardinality(Owned(a)) \in Nat
    BY <2>4, OwnedFinite, FS_AddElement
  <2>6. Account(a)'
    BY <2>1, <2>3, <2>5, ArgumentAssumption DEF Account
  <2>7. JobTableFull => JobTableFull'
    BY <2>1, TrackedGrow
  <2>8. \A j \in Jobs \ {a} : Account(j)'
    BY <1>5, <2>1, <2>2, <2>7, SameAccount
  <2>9. QED
    BY <2>6, <2>8 DEF AccountingInv, SlotJobTracked, QuotaAccounting, QuotaCap,
       TrackedJobs, Account
<1>9. QED
  BY <1>6, <1>7, <1>8

\* A completed slot is given up together with its charge; a round of one worker
\* is charged and given up in the same step.
LEMMA AccountsComplete == TypeOK /\ AccountingInv /\ RecvComplete => AccountingInv'
<1>1. SUFFICES ASSUME TypeOK, AccountingInv, NEW d \in Datagrams, Admitted(d),
                      slots' = [slots EXCEPT ![Found(d.key)] = FreeSlot],
                      jobs' = [JobsAfterLookup(d.key) EXCEPT
                                  ![d.key.job_id].concurrent_slots = Less(@, 1)]
               PROVE  AccountingInv'
  BY DEF RecvComplete
<1> DEFINE k == d.key
           a == k.job_id
           F == Found(k)
           L == JobsAfterLookup(k)
<1>2. ~Refused(k) /\ k \in Keys /\ a \in Jobs /\ Stops(k) # {} /\ F \in Index
  BY <1>1, DatagramType, FoundStops DEF Admitted, Refused
<1>3. ASSUME NEW j \in Jobs PROVE Owned(j)' = Owned(j) \ {F}
  <2>1. slots' = [i \in Index |-> IF i \in {F} THEN FreeSlot ELSE slots[i]]
    BY <1>1, <1>2 DEF TypeOK
  <2>2. {F} \in SUBSET Index
    BY <1>2
  <2>3. HIDE DEF F
  <2>4. QED
    BY <2>1, <2>2, DropSlots
<1>4. \A j \in Jobs : F \in Owned(j) <=> slots[F].in_use /\ j = a
  BY <1>2, FoundOwner
<1>5. \A j \in Jobs \ {a} : Owned(j)' = Owned(j)
  BY <1>3, <1>4
<1>6. \A j \in Jobs : Account(j)
  BY <1>1, AccountsInv
<1>7. L \in [Jobs -> JobEntry] /\ L[a].concurrent_slots \in Nat
  <2>1. L \in [Jobs -> JobEntry]
    BY <1>1, <1>2, JobsType
  <2>2. QED
    BY <1>2, <2>1 DEF JobEntry
<1>8. /\ jobs'[a].in_use = L[a].in_use
      /\ jobs'[a].concurrent_slots = Less(L[a].concurrent_slots, 1)
      /\ \A j \in Jobs \ {a} : jobs'[j] = L[j]
  <2>1. HIDE DEF L
  <2>2. jobs' = [L EXCEPT ![a].concurrent_slots = Less(@, 1)]
    BY <1>1 DEF L
  <2>3. QED
    BY <1>2, <1>7, <2>2 DEF JobEntry
<1>9. /\ \A j \in Jobs \ {a} : L[j] = jobs[j]
      /\ jobs[a].in_use => L[a].in_use
  BY <1>1, <1>2, LookupBooks
<1>10. JobTableFull => JobTableFull'
  BY <1>2, <1>8, <1>9, TrackedGrow
<1>11. \A j \in Jobs \ {a} : Account(j)'
  BY <1>5, <1>6, <1>8, <1>9, <1>10, SameAccount
<1>12. /\ Cardinality(Owned(a)) \in Nat
       /\ Cardinality(Owned(a)') = IF slots[F].in_use THEN Cardinality(Owned(a)) - 1
                                   ELSE Cardinality(Owned(a))
       /\ slots[F].in_use => Cardinality(Owned(a)) > 0
  <2>1. IsFiniteSet(Owned(a)) /\ Cardinality(Owned(a)) \in Nat
    BY OwnedFinite
  <2>2. Cardinality(Owned(a) \ {F}) =
            IF F \in Owned(a) THEN Cardinality(Owned(a)) - 1 ELSE Cardinality(Owned(a))
    BY <2>1, FS_RemoveElement
  <2>3. F \in Owned(a) => Cardinality(Owned(a)) > 0
    BY <2>1, FS_EmptySet
  <2>4. QED
    BY <1>2, <1>3, <1>4, <2>1, <2>2, <2>3
<1>13. Account(a)'
  <2>1. CASE ~slots[F].in_use /\ JobFound(a)
    <3>1. /\ L[a].in_use /\ L[a].concurrent_slots = jobs[a].concurrent_slots + 1
          /\ g_job_quota > 0 => jobs[a].concurrent_slots < g_job_quota
      BY <1>1, <1>2, <2>1, LookupBooks
    <3>2. jobs[a].concurrent_slots = Cardinality(Owned(a))
      BY <1>2, <1>6, <2>1, ChargeableCount
    <3>3. QED
      BY <1>8, <1>12, <2>1, <3>1, <3>2, ArgumentAssumption DEF Account, Less
  <2>2. CASE slots[F].in_use \/ ~JobFound(a)
    <3>1. L = jobs
      BY <2>2 DEF JobsAfterLookup
    <3>2. CASE jobs[a].in_use
      BY <1>2, <1>6, <1>8, <1>12, <2>2, <3>1, <3>2, ArgumentAssumption
         DEF Account, Less, JobFound
    <3>3. CASE ~jobs[a].in_use
      <4>1. JobTableFull
        BY <1>2, <1>4, <1>6, <2>2, <3>3 DEF Account, JobFound
      <4>2. QED
        BY <1>2, <1>6, <1>8, <1>10, <3>1, <3>3, <4>1 DEF Account, Less
    <3>4. QED
      BY <3>2, <3>3
  <2>3. QED
    BY <2>1, <2>2
<1>14. QED
  BY <1>11, <1>13 DEF AccountingInv, SlotJobTracked, QuotaAccounting, QuotaCap,
     TrackedJobs, Account

LEMMA AccountsInit == Init => AccountingInv
<1>1. SUFFICES ASSUME Init, NEW j \in Jobs PROVE Account(j)
  BY DEF AccountingInv, SlotJobTracked, QuotaAccounting, QuotaCap, TrackedJobs, Account
<1>2. jobs[j] = NoEntry
  BY <1>1 DEF Init
<1>3. Owned(j) = {}
  BY <1>1 DEF Init, Owned, InUse, FreeSlot
<1>4. ~jobs[j].in_use /\ jobs[j].concurrent_slots = 0
  BY <1>2, SMT DEF NoEntry
<1>5. QED
  BY <1>3, <1>4 DEF Account

LEMMA AccountsStep == TypeOK /\ AccountingInv /\ [Next]_vars => AccountingInv'
<1>1. SUFFICES ASSUME TypeOK, AccountingInv, [Next]_vars PROVE AccountingInv'
  OBVIOUS
<1>2. CASE Arrive \/ SigUsr1 \/ Exit \/ NoSweep \/ DumpStats \/ ClearRequest \/ NoDump
           \/ Block \/ Timeout \/ UNCHANGED vars
  BY <1>1, <1>2, AccountsUntouched DEF Arrive, SigUsr1, Exit, NoSweep, DumpStats,
     ClearRequest, NoDump, Block, Timeout, vars
<1>3. CASE RecvRunt \/ RecvMalformed \/ RecvMismatch \/ RecvDuplicate
  BY <1>1, <1>3, AccountsUntouched DEF RecvRunt, RecvMalformed, RecvMismatch, RecvDuplicate
<1>4. QED
  BY <1>1, <1>2, <1>3, AccountsClock, AccountsSweep, AccountsRefused, AccountsPartial,
     AccountsComplete DEF Next, MainLoop

\* The books are right in every reachable state: a tracked job's count is the
\* number of slots it holds, through creation, completion, eviction and the
\* splitting of a key over two slots, and an untracked job holds slots only if
\* the job table is full.
THEOREM AccountingCorrect == Spec => []AccountingInv
<1>1. QED
  BY TypeCorrect, AccountsInit, AccountsStep, PTL DEF Spec

\* No tracked job ever holds more slots than the quota (agg.c:131-142).
THEOREM QuotaHolds == Spec => []QuotaCap
<1>1. AccountingInv => QuotaCap
  BY DEF AccountingInv
<1>2. QED
  BY <1>1, AccountingCorrect, PTL

\* concurrent_slots of a tracked job is exactly the slots it holds.
THEOREM QuotaAccountingHolds == Spec => []QuotaAccounting
<1>1. AccountingInv => QuotaAccounting
  BY DEF AccountingInv
<1>2. QED
  BY <1>1, AccountingCorrect, PTL

-----------------------------------------------------------------------------
(***************************************************************************)
(* Every worker is summed once.  SlotConsistent and EmittedExact are       *)
(* inductive together with TypeOK.                                         *)
(***************************************************************************)
SummedOnce == SlotConsistent /\ EmittedExact

\* The fields of the slot a contribution ends in.
LEMMA AccumulatedFields ==
    ASSUME TypeOK, NEW d \in Datagrams, WellFormed(d), ~Refused(d.key)
    PROVE  /\ Accumulated(d).seen_worker = SlotFor(d).seen_worker \cup {d.worker_id}
           /\ Accumulated(d).sum = Summed(SlotFor(d).sum, d.worker_id)
           /\ Accumulated(d).contributions_received = SlotFor(d).contributions_received + 1
           /\ Accumulated(d).num_workers_expected = SlotFor(d).num_workers_expected
<1> DEFINE s     == SlotFor(d)
           sum   == Summed(s.sum, d.worker_id)
           count == s.contributions_received + 1
           seen  == s.seen_worker \cup {d.worker_id}
<1>1. s \in UsedSlot
  BY SlotForType
<1>2. Accumulated(d) = [s EXCEPT !.seen_worker = seen, !.age = 0, !.sum = sum,
                                 !.contributions_received = count]
  BY DEF Accumulated
<1>3. HIDE DEF s, sum, count, seen
<1>4. /\ Accumulated(d).seen_worker = seen /\ Accumulated(d).sum = sum
      /\ Accumulated(d).contributions_received = count
      /\ Accumulated(d).num_workers_expected = s.num_workers_expected
  BY <1>1, <1>2, Zenon DEF UsedSlot
<1>5. QED
  BY <1>4 DEF s, sum, count, seen

\* The slot the lookup returns is tallied and lacks a worker, new or not.
LEMMA SlotForTallied ==
    ASSUME TypeOK, SlotConsistent, NEW d \in Datagrams, WellFormed(d), ~Refused(d.key)
    PROVE  /\ Tallied(SlotFor(d))
           /\ SlotFor(d).contributions_received < SlotFor(d).num_workers_expected
<1>1. Found(d.key) \in Index /\ d \in Datagram
  BY FoundStops, DatagramType DEF Refused
<1>2. CASE slots[Found(d.key)].in_use
  <2>1. SlotFor(d) = slots[Found(d.key)] /\ Found(d.key) \in InUse
    BY <1>1, <1>2 DEF SlotFor, InUse
  <2>2. SlotFor(d).num_workers_expected \in Nat
    BY SlotForType DEF UsedSlot
  <2>3. QED
    BY <2>1, <2>2 DEF SlotConsistent
<1>3. CASE ~slots[Found(d.key)].in_use
  <2>1. /\ SlotFor(d).contributions_received = 0 /\ SlotFor(d).seen_worker = {}
        /\ SlotFor(d).num_workers_expected = d.num_workers
        /\ SlotFor(d).sum = [w \in Workers |-> 0]
    BY <1>3 DEF SlotFor
  <2>2. d.num_workers > 0
    BY CapacityAssumption DEF WellFormed
  <2>3. QED
    BY <2>1, <2>2, FS_EmptySet DEF Tallied
<1>4. QED
  BY <1>2, <1>3

\* A contribution that is no duplicate keeps the tally.
LEMMA AccumulatedTallied ==
    ASSUME TypeOK, SlotConsistent, NEW d \in Datagrams, WellFormed(d), ~Refused(d.key),
           ~Duplicate(d)
    PROVE  /\ Tallied(Accumulated(d))
           /\ Accumulated(d).contributions_received \in
                    1 .. Accumulated(d).num_workers_expected
<1> DEFINE s == SlotFor(d)
           a == Accumulated(d)
           w0 == d.worker_id
<1>1. /\ a.seen_worker = s.seen_worker \cup {w0} /\ a.sum = Summed(s.sum, w0)
      /\ a.contributions_received = s.contributions_received + 1
      /\ a.num_workers_expected = s.num_workers_expected
  BY AccumulatedFields
<1>2. Tallied(s) /\ s.contributions_received < s.num_workers_expected
  BY SlotForTallied
<1>3. s \in UsedSlot /\ w0 \in Workers /\ w0 \notin s.seen_worker
  <2>1. s \in UsedSlot /\ w0 \notin s.seen_worker
    BY SlotForType DEF Duplicate
  <2>2. w0 \in Workers
    BY DatagramType, CapacityAssumption DEF WellFormed, Workers, Datagram
  <2>3. QED
    BY <2>1, <2>2
<1>4. /\ s.seen_worker \in SUBSET Workers /\ s.sum \in [Workers -> Nat]
      /\ s.contributions_received \in Nat /\ s.num_workers_expected \in Nat
  BY <1>3, Zenon DEF UsedSlot
<1>5. HIDE DEF s, a, w0
<1>6. IsFiniteSet(s.seen_worker)
  <2>1. IsFiniteSet(Workers)
    BY CapacityAssumption, FS_Interval DEF Workers
  <2>2. QED
    BY <1>4, <2>1, FS_Subset
<1>7. Cardinality(a.seen_worker) = Cardinality(s.seen_worker) + 1
  BY <1>1, <1>3, <1>6, FS_AddElement
<1>8. \A w \in Workers : a.sum[w] = IF w \in a.seen_worker THEN 1 ELSE 0
  BY <1>1, <1>2, <1>3, <1>4 DEF Summed, Tallied
<1>9. Tallied(a) /\ a.contributions_received \in 1 .. a.num_workers_expected
  BY <1>1, <1>2, <1>4, <1>7, <1>8 DEF Tallied
<1>10. QED
  BY <1>9 DEF a

LEMMA SummedPartial == TypeOK /\ SummedOnce /\ RecvPartial => SummedOnce'
<1>1. SUFFICES ASSUME TypeOK, SummedOnce, NEW d \in Datagrams, Admitted(d), ~Duplicate(d),
                      ~Completes(d), UNCHANGED out,
                      slots' = [slots EXCEPT ![Found(d.key)] = Accumulated(d)]
               PROVE  SummedOnce'
  BY DEF RecvPartial
<1> DEFINE a == Accumulated(d)
<1>2. WellFormed(d) /\ ~Refused(d.key)
  BY <1>1 DEF Admitted
<1>3. Tallied(a) /\ a.contributions_received \in 1 .. a.num_workers_expected /\ a \in UsedSlot
  BY <1>1, <1>2, AccumulatedTallied, AccumulatedType DEF SummedOnce
<1>4. a.contributions_received \in 1 .. a.num_workers_expected - 1
  <2>1. a.num_workers_expected \in Nat
    BY <1>3, Zenon DEF UsedSlot
  <2>2. QED
    BY <1>1, <1>3, <2>1 DEF Completes
<1>5. HIDE DEF a
<1>6. SlotConsistent'
  <2>1. SUFFICES ASSUME NEW i \in Index, slots'[i].in_use
                 PROVE  /\ Tallied(slots'[i])
                        /\ slots'[i].contributions_received \in
                                1 .. slots'[i].num_workers_expected - 1
    BY DEF SlotConsistent, InUse, Tallied
  <2>2. slots'[i] = a \/ slots'[i] = slots[i]
    BY <1>1 DEF a, TypeOK
  <2>3. QED
    BY <1>1, <1>3, <1>4, <2>1, <2>2 DEF SummedOnce, SlotConsistent, InUse
<1>7. EmittedExact'
  BY <1>1 DEF SummedOnce, EmittedExact, Exact
<1>8. QED
  BY <1>6, <1>7 DEF SummedOnce

\* Steps after which every slot in use was in use before, with the same tally.
LEMMA SummedKept ==
    ASSUME SummedOnce, out' = out,
           \A i \in Index : slots'[i].in_use =>
                /\ slots[i].in_use
                /\ slots'[i].contributions_received = slots[i].contributions_received
                /\ slots'[i].num_workers_expected = slots[i].num_workers_expected
                /\ slots'[i].seen_worker = slots[i].seen_worker
                /\ slots'[i].sum = slots[i].sum
    PROVE  SummedOnce'
<1>1. SlotConsistent'
  BY DEF SummedOnce, SlotConsistent, InUse, Tallied
<1>2. EmittedExact'
  BY DEF SummedOnce, EmittedExact, Exact
<1>3. QED
  BY <1>1, <1>2 DEF SummedOnce

LEMMA SummedComplete == TypeOK /\ SummedOnce /\ RecvComplete => SummedOnce'
<1>1. SUFFICES ASSUME TypeOK, SummedOnce, NEW d \in Datagrams, Admitted(d), ~Duplicate(d),
                      Completes(d), slots' = [slots EXCEPT ![Found(d.key)] = FreeSlot],
                      \/ out' = Append(out, [key |-> d.key,
                              chunk_len |-> Accumulated(d).chunk_len,
                              sum |-> Accumulated(d).sum,
                              num_workers |-> Accumulated(d).num_workers_expected])
                      \/ UNCHANGED out
               PROVE  SummedOnce'
  BY DEF RecvComplete
<1> DEFINE a == Accumulated(d)
           e == [key |-> d.key, chunk_len |-> a.chunk_len, sum |-> a.sum,
                 num_workers |-> a.num_workers_expected]
<1>2. WellFormed(d) /\ ~Refused(d.key)
  BY <1>1 DEF Admitted
<1>3. Tallied(a) /\ a.contributions_received \in 1 .. a.num_workers_expected /\ a \in UsedSlot
  BY <1>1, <1>2, AccumulatedTallied, AccumulatedType DEF SummedOnce
<1>4. a.contributions_received = a.num_workers_expected
  <2>1. a.num_workers_expected \in Nat
    BY <1>3, Zenon DEF UsedSlot
  <2>2. QED
    BY <1>1, <1>3, <2>1 DEF Completes
<1>5. out' = Append(out, e) \/ out' = out
  BY <1>1
<1>6. e.sum = a.sum /\ e.num_workers = a.num_workers_expected
  OBVIOUS
<1>7. HIDE DEF a, e
<1>8. Exact(e)
  <2>1. a.seen_worker \in SUBSET Workers
    BY <1>3, Zenon DEF UsedSlot
  <2>2. {w \in Workers : e.sum[w] = 1} = a.seen_worker
    BY <1>3, <1>6, <2>1 DEF Tallied
  <2>3. \A w \in Workers : e.sum[w] \in {0, 1}
    BY <1>3, <1>6 DEF Tallied
  <2>4. QED
    BY <1>3, <1>4, <1>6, <2>2, <2>3 DEF Exact, Tallied
<1>9. EmittedExact'
  <2>1. out \in Seq(Emission) /\ \A n \in DOMAIN out : Exact(out[n])
    BY <1>1 DEF TypeOK, SummedOnce, EmittedExact
  <2>2. SUFFICES ASSUME NEW n \in DOMAIN out' PROVE Exact(out'[n])
    BY DEF EmittedExact, Exact
  <2>3. (n \in DOMAIN out /\ out'[n] = out[n]) \/ out'[n] = e
    BY <1>5, <2>1
  <2>4. QED
    BY <1>8, <2>1, <2>3
<1>10. SlotConsistent'
  <2>1. SUFFICES ASSUME NEW i \in Index, slots'[i].in_use
                 PROVE  /\ Tallied(slots'[i])
                        /\ slots'[i].contributions_received \in
                                1 .. slots'[i].num_workers_expected - 1
    BY DEF SlotConsistent, InUse, Tallied
  <2>2. slots'[i] = FreeSlot \/ slots'[i] = slots[i]
    BY <1>1 DEF TypeOK
  <2>3. slots'[i] = slots[i]
    BY <2>1, <2>2 DEF FreeSlot
  <2>4. QED
    BY <1>1, <2>1, <2>3 DEF SummedOnce, SlotConsistent, InUse
<1>11. QED
  BY <1>9, <1>10 DEF SummedOnce

LEMMA SummedClock == TypeOK /\ SummedOnce /\ (Tick \/ ClockBack) => SummedOnce'
<1>1. SUFFICES ASSUME TypeOK, SummedOnce, Reaged PROVE SummedOnce'
  BY ClockReages
<1>2. ASSUME NEW i \in Index, slots'[i].in_use
      PROVE  /\ slots[i].in_use
             /\ slots'[i].contributions_received = slots[i].contributions_received
             /\ slots'[i].num_workers_expected = slots[i].num_workers_expected
             /\ slots'[i].seen_worker = slots[i].seen_worker
             /\ slots'[i].sum = slots[i].sum
  <2>1. slots[i] \in UsedSlot \cup {FreeSlot}
    BY <1>1 DEF TypeOK
  <2>2. CASE slots[i].in_use
    <3>1. slots[i] \in UsedSlot
      BY <2>1, <2>2 DEF FreeSlot
    <3>2. PICK a \in Int : slots'[i] = [slots[i] EXCEPT !.age = a]
      BY <1>1, <2>2 DEF Reaged
    <3>3. QED
      BY <2>2, <3>1, <3>2, Zenon DEF UsedSlot
  <2>3. CASE ~slots[i].in_use
    <3>1. slots'[i] = slots[i]
      BY <1>1, <2>3 DEF Reaged
    <3>2. QED
      BY <1>2, <2>3, <3>1
  <2>4. QED
    BY <2>2, <2>3
<1>3. out' = out
  BY <1>1 DEF Reaged
<1>4. QED
  BY <1>1, <1>2, <1>3, SummedKept

LEMMA SummedSweep == SummedOnce /\ Sweep => SummedOnce'
<1>1. SUFFICES ASSUME SummedOnce, Sweep PROVE SummedOnce'
  OBVIOUS
<1>2. ASSUME NEW i \in Index, slots'[i].in_use PROVE slots'[i] = slots[i]
  BY <1>1, <1>2 DEF Sweep, FreeSlot
<1>3. out' = out
  BY <1>1 DEF Sweep
<1>4. QED
  BY <1>1, <1>2, <1>3, SummedKept

LEMMA SummedUntouched ==
    ASSUME SummedOnce, UNCHANGED <<slots, out>>
    PROVE  SummedOnce'
BY SummedKept

LEMMA SummedInit == Init => SummedOnce
BY DEF Init, SummedOnce, SlotConsistent, EmittedExact, InUse, FreeSlot

LEMMA SummedStep == TypeOK /\ SummedOnce /\ [Next]_vars => SummedOnce'
<1>1. SUFFICES ASSUME TypeOK, SummedOnce, [Next]_vars PROVE SummedOnce'
  OBVIOUS
<1>2. CASE Arrive \/ SigUsr1 \/ Exit \/ NoSweep \/ DumpStats \/ ClearRequest \/ NoDump
           \/ Block \/ Timeout \/ UNCHANGED vars
  BY <1>1, <1>2, SummedUntouched DEF Arrive, SigUsr1, Exit, NoSweep, DumpStats,
     ClearRequest, NoDump, Block, Timeout, vars
<1>3. CASE RecvRunt \/ RecvMalformed \/ RecvRefused \/ RecvMismatch \/ RecvDuplicate
  BY <1>1, <1>3, SummedUntouched DEF RecvRunt, RecvMalformed, RecvRefused, RecvMismatch,
     RecvDuplicate
<1>4. QED
  BY <1>1, <1>2, <1>3, SummedClock, SummedSweep, SummedPartial, SummedComplete
     DEF Next, MainLoop

\* Every slot in the table is an unfinished round that has summed each worker
\* it has seen once, and everything sent downstream sums exactly the expected
\* number of distinct workers, each once (agg.c:487-550) - also when the same
\* key is split over two slots.
THEOREM SummedOnceCorrect == Spec => [](SlotConsistent /\ EmittedExact)
<1>1. SummedOnce => SlotConsistent /\ EmittedExact
  BY DEF SummedOnce
<1>2. QED
  BY <1>1, TypeCorrect, SummedInit, SummedStep, PTL DEF Spec

\* A slot that is in the table is the round of its key: it has a contribution,
\* lacks one, and has summed each worker it has seen once.
THEOREM SlotConsistentHolds == Spec => []SlotConsistent
BY SummedOnceCorrect, PTL

-----------------------------------------------------------------------------
(***************************************************************************)
(* Nobody is starved.  NoJobStarved is a consequence of the books: when    *)
(* jobs and quotas fit the tables every job is tracked, so the slots in    *)
(* use are at most quota many per job, and fewer for a job below it.       *)
(***************************************************************************)
LEMMA ModUnique ==
    ASSUME NEW c \in Nat \ {0}, NEW q \in Int, NEW r \in 0 .. c - 1
    PROVE  (c * q + r) % c = r
<1> DEFINE n == c * q + r
<1>1. n \in Int /\ n % c \in 0 .. c - 1 /\ n = c * (n \div c) + (n % c) /\ n \div c \in Int
  OBVIOUS
<1>2. PICK z \in Int : z = (n \div c) - q
  BY <1>1
<1>3. c * z = r - (n % c)
  BY <1>1, <1>2
<1>4. z = 0
  <2>1. z >= 1 => c * z >= c
    OBVIOUS
  <2>2. z <= -1 => c * z <= -c
    OBVIOUS
  <2>3. QED
    BY <1>1, <1>3, <2>1, <2>2
<1>5. QED
  BY <1>1, <1>3, <1>4

\* A probe sequence visits every index.
LEMMA ProbesCover ==
    ASSUME NEW k \in Keys, NEW i \in Index
    PROVE  \E p \in Index : ProbeIndex(k, p) = i
<1> DEFINE c == SLOT_TABLE_CAPACITY
           h == SlotHash[k]
           r == h % c
           q == h \div c
<1>1. /\ c \in Nat \ {0} /\ h \in Nat /\ i \in 0 .. c - 1 /\ Index = 0 .. c - 1
      /\ \A p \in Index : ProbeIndex(k, p) = (h + p) % c
  BY CapacityAssumption, TrafficAssumption DEF Index, ProbeIndex
<1>2. r \in 0 .. c - 1 /\ q \in Int /\ h = c * q + r
  <2>1. HIDE DEF c, h
  <2>2. QED
    BY <1>1 DEF r, q
<1> HIDE DEF c, h, r, q
<1>3. CASE i >= r
  <2>1. i - r \in Index /\ h + (i - r) = c * q + i
    BY <1>1, <1>2, <1>3
  <2>2. (h + (i - r)) % c = i
    BY <1>1, <1>2, <2>1, ModUnique
  <2>3. QED
    BY <1>1, <2>1, <2>2
<1>4. CASE i < r
  <2>1. i - r + c \in Index /\ h + (i - r + c) = c * (q + 1) + i /\ q + 1 \in Int
    BY <1>1, <1>2, <1>4
  <2>2. (h + (i - r + c)) % c = i
    BY <1>1, <2>1, ModUnique
  <2>3. QED
    BY <1>1, <2>1, <2>2
<1>5. QED
  BY <1>1, <1>2, <1>3, <1>4

\* Finite sets of at most q members, indexed by a finite set, hold fewer than
\* Cardinality(J) * q members between them if one of them holds fewer than q.
LEMMA FewerThanProduct ==
    ASSUME NEW J, IsFiniteSet(J), NEW q \in Nat, NEW a \in J, NEW U, IsFiniteSet(U),
           NEW owner \in [U -> J],
           \A j \in J : Cardinality({i \in U : owner[i] = j}) <= q,
           Cardinality({i \in U : owner[i] = a}) < q
    PROVE  Cardinality(U) < Cardinality(J) * q
<1> DEFINE Own(j)  == {i \in U : owner[i] = j}
           rank(j) == CHOOSE f \in [Own(j) -> 1 .. Cardinality(Own(j))] :
                          \A x, y \in Own(j) : f[x] = f[y] => x = y
           place   == [i \in U |-> <<owner[i], rank(owner[i])[i]>>]
           Places  == (J \X (1 .. q)) \ {<<a, q>>}
<1>1. ASSUME NEW j \in J
      PROVE  /\ Cardinality(Own(j)) \in Nat
             /\ rank(j) \in [Own(j) -> 1 .. Cardinality(Own(j))]
             /\ \A x, y \in Own(j) : rank(j)[x] = rank(j)[y] => x = y
  <2>1. IsFiniteSet(Own(j))
    BY FS_Subset
  <2>2. ExistsBijection(Own(j), 1 .. Cardinality(Own(j))) /\ Cardinality(Own(j)) \in Nat
    BY <2>1, FS_CardinalityType, Fun_ExistsBijSymmetric
  <2>3. \E f \in [Own(j) -> 1 .. Cardinality(Own(j))] :
            \A x, y \in Own(j) : f[x] = f[y] => x = y
    BY <2>2 DEF ExistsBijection, Bijection, Injection, IsInjective
  <2>4. QED
    BY <2>2, <2>3
<1>2. \A j \in J : Cardinality(Own(j)) <= q
  OBVIOUS
<1>3. Cardinality(Own(a)) < q
  OBVIOUS
<1> HIDE DEF Own, rank
<1>4. ASSUME NEW i \in U
      PROVE  /\ owner[i] \in J /\ i \in Own(owner[i])
             /\ rank(owner[i])[i] \in 1 .. q
             /\ owner[i] = a => rank(owner[i])[i] < q
  <2>1. owner[i] \in J /\ i \in Own(owner[i])
    BY DEF Own
  <2>2. PICK j \in J : j = owner[i]
    BY <2>1
  <2>3. rank(j)[i] \in 1 .. Cardinality(Own(j))
    BY <1>1, <2>1, <2>2
  <2>4. QED
    BY <1>1, <1>2, <1>3, <2>1, <2>2, <2>3
<1>5. place \in [U -> Places]
  BY <1>4
<1>6. \A x, y \in U : place[x] = place[y] => x = y
  <2>1. SUFFICES ASSUME NEW x \in U, NEW y \in U, place[x] = place[y] PROVE x = y
    OBVIOUS
  <2>2. owner[x] = owner[y] /\ rank(owner[x])[x] = rank(owner[y])[y]
    BY <2>1
  <2>3. PICK j \in J : j = owner[x]
    BY <1>4
  <2>4. x \in Own(j) /\ y \in Own(j) /\ rank(j)[x] = rank(j)[y]
    BY <1>4, <2>2, <2>3
  <2>5. QED
    BY <1>1, <2>4
<1>7. /\ IsFiniteSet(Places) /\ Cardinality(Places) = Cardinality(J) * q - 1
      /\ Cardinality(J) \in Nat
  <2>1. IsFiniteSet(1 .. q) /\ Cardinality(1 .. q) = q
    BY FS_Interval
  <2>2. IsFiniteSet(J \X (1 .. q)) /\ Cardinality(J \X (1 .. q)) = Cardinality(J) * q
    BY <2>1, FS_Product
  <2>3. <<a, q>> \in J \X (1 .. q)
    <3>1. q \in 1 .. q
      BY <1>1, <1>3
    <3>2. QED
      BY <3>1
  <2>4. Cardinality(J) \in Nat
    BY FS_CardinalityType
  <2>5. IsFiniteSet(Places) /\ Cardinality(Places) = Cardinality(J \X (1 .. q)) - 1
    <3> DEFINE all == J \X (1 .. q)
               x   == <<a, q>>
    <3>1. IsFiniteSet(all) /\ x \in all /\ Places = all \ {x}
      BY <2>2, <2>3
    <3>2. HIDE DEF all, x, Places
    <3>3. IsFiniteSet(Places) /\ Cardinality(Places) = Cardinality(all) - 1
      BY <3>1, FS_RemoveElement
    <3>4. QED
      BY <3>3 DEF all
  <2>6. QED
    BY <2>2, <2>4, <2>5
<1>8. Cardinality(U) <= Cardinality(Places)
  <2>1. HIDE DEF place, Places
  <2>2. ~ (Cardinality(Places) < Cardinality(U))
    BY <1>5, <1>6, <1>7, FS_PigeonHole
  <2>3. Cardinality(U) \in Nat /\ Cardinality(Places) \in Nat
    BY <1>7, FS_CardinalityType
  <2>4. QED
    BY <2>2, <2>3
<1>9. QED
  <2>1. Cardinality(U) \in Nat /\ Cardinality(J) * q \in Nat
    BY <1>7, FS_CardinalityType
  <2>2. QED
    BY <1>7, <1>8, <2>1

\* When g_jobs has room for every job, each job holds what it is charged for.
LEMMA AllTracked ==
    ASSUME TypeOK, AccountingInv, Cardinality(Jobs) <= JOB_TABLE_CAPACITY, NEW j \in Jobs
    PROVE  JobFound(j) /\ jobs[j].concurrent_slots = Cardinality(Owned(j))
<1>1. JobFound(j)
  <2>1. SUFFICES ASSUME ~jobs[j].in_use PROVE ~JobTableFull
    BY DEF JobFound
  <2>2. TrackedJobs \in SUBSET (Jobs \ {j})
    BY <2>1 DEF TrackedJobs
  <2>3. IsFiniteSet(Jobs \ {j}) /\ Cardinality(Jobs \ {j}) = Cardinality(Jobs) - 1
    BY TrafficAssumption, FS_RemoveElement
  <2>4. Cardinality(TrackedJobs) <= Cardinality(Jobs) - 1 /\ IsFiniteSet(TrackedJobs)
    BY <2>2, <2>3, FS_Subset
  <2>5. Cardinality(TrackedJobs) \in Nat /\ Cardinality(Jobs) \in Nat
    BY <2>4, TrafficAssumption, FS_CardinalityType
  <2>6. QED
    BY <2>4, <2>5, CapacityAssumption DEF JobTableFull
<1>2. Account(j)
  BY AccountsInv
<1>3. QED
  BY <1>1, <1>2, ChargeableCount

LEMMA AccountsStarveNobody == TypeOK /\ AccountingInv => NoJobStarved
<1>1. SUFFICES ASSUME TypeOK, AccountingInv, g_job_quota > 0,
                      Cardinality(Jobs) <= JOB_TABLE_CAPACITY,
                      Cardinality(Jobs) * g_job_quota <= SLOT_TABLE_CAPACITY,
                      NEW k \in Keys, ~AtQuota(k.job_id), Refused(k)
               PROVE  FALSE
  BY DEF NoJobStarved
<1> DEFINE a == k.job_id
<1>2. a \in Jobs /\ g_job_quota \in Nat
  BY ArgumentAssumption DEF Keys
<1>3. \A j \in Jobs : JobFound(j) /\ jobs[j].concurrent_slots = Cardinality(Owned(j))
  BY <1>1, AllTracked
<1>4. \A j \in Jobs : Cardinality(Owned(j)) \in Nat
  BY OwnedFinite
<1>5. ASSUME NEW j \in Jobs PROVE Cardinality(Owned(j)) <= g_job_quota
  <2>1. Account(j)
    BY <1>1, AccountsInv
  <2>2. QED
    BY <1>1, <1>2, <1>3, <1>4, <2>1 DEF Account
<1>6. Cardinality(Owned(a)) < g_job_quota
  BY <1>1, <1>2, <1>3, <1>4 DEF AtQuota
<1>7. Stops(k) = {}
  BY <1>1 DEF Refused, RefusedByQuota
<1>8. ASSUME NEW i \in Index PROVE slots[i].in_use
  <2>1. PICK p \in Index : ProbeIndex(k, p) = i
    BY ProbesCover
  <2>2. QED
    BY <1>7, <2>1 DEF Stops, StopsAt, Index
<1> DEFINE owner == [i \in Index |-> slots[i].key.job_id]
<1>9. owner \in [Index -> Jobs]
  <2>1. SUFFICES ASSUME NEW i \in Index PROVE slots[i].key.job_id \in Jobs
    OBVIOUS
  <2>2. slots[i] \in UsedSlot
    BY <1>1, <1>8 DEF TypeOK, FreeSlot
  <2>3. slots[i].key \in Keys
    BY <2>2, Zenon DEF UsedSlot
  <2>4. QED
    BY <2>3 DEF Keys
<1>10. \A j \in Jobs : {i \in Index : owner[i] = j} = Owned(j)
  BY <1>8 DEF Owned, InUse
<1>11. IsFiniteSet(Index) /\ Cardinality(Index) = SLOT_TABLE_CAPACITY
  <2>1. SLOT_TABLE_CAPACITY - 1 \in Int /\ SLOT_TABLE_CAPACITY > 0
    BY CapacityAssumption
  <2>2. QED
    BY <2>1, CapacityAssumption, FS_Interval DEF Index
<1>12. Cardinality(Index) < Cardinality(Jobs) * g_job_quota
  <2>1. HIDE DEF owner, a
  <2>2. IsFiniteSet(Jobs)
    BY TrafficAssumption
  <2>3. \A j \in Jobs : Cardinality({i \in Index : owner[i] = j}) <= g_job_quota
    BY <1>5, <1>10
  <2>4. Cardinality({i \in Index : owner[i] = a}) < g_job_quota
    BY <1>2, <1>6, <1>10
  <2>5. QED
    BY <1>2, <1>9, <1>11, <2>2, <2>3, <2>4, FewerThanProduct
<1>13. Cardinality(Jobs) * g_job_quota \in Nat
  BY <1>2, TrafficAssumption, FS_CardinalityType
<1>14. QED
  BY <1>1, <1>11, <1>12, <1>13, CapacityAssumption

\* A job below its quota is never turned away when jobs and quotas fit the two
\* tables (agg.c:131-142, 196-224), whatever the other jobs send.
THEOREM NoJobStarvedHolds == Spec => []NoJobStarved
BY TypeCorrect, AccountingCorrect, AccountsStarveNobody, PTL
-----------------------------------------------------------------------------
(***************************************************************************)
(* Lookups.  A lookup ends at the slot of its key unless one of the slots  *)
(* ahead of it was given back.                                             *)
(***************************************************************************)
LEMMA KeyType ==
    ASSUME TypeOK, NEW i \in Index, slots[i].in_use
    PROVE  slots[i] \in UsedSlot /\ slots[i].key \in Keys
<1>1. slots[i] \in UsedSlot
  BY DEF TypeOK, FreeSlot
<1>2. QED
  BY <1>1, Zenon DEF UsedSlot

\* The first of the probes at which a lookup of k stops.
LEMMA FirstStop ==
    ASSUME NEW k \in Keys, Stops(k) # {}
    PROVE  \E p \in Stops(k) : Found(k) = ProbeIndex(k, p) /\ \A q \in Stops(k) : p <= q
<1>1. Stops(k) \in SUBSET Nat
  BY CapacityAssumption DEF Stops
<1>2. \E p \in Stops(k) : \A q \in Stops(k) : p <= q
  BY <1>1, LeastMember
<1>3. QED
  BY <1>2 DEF Found

LEMMA FindableFound ==
    ASSUME TypeOK, NEW i \in Index, slots[i].in_use, Findable(i)
    PROVE  Stops(slots[i].key) # {} /\ Found(slots[i].key) = i
<1>1. PICK k \in Keys : k = slots[i].key
  BY KeyType
<1>2. PICK r \in Index : ProbeIndex(k, r) = i
  BY ProbesCover
<1>3. Stops(k) # {}
  BY <1>1, <1>2 DEF Stops, StopsAt, Index
<1>4. PICK p \in Stops(k) : Found(k) = ProbeIndex(k, p) /\ \A q \in Stops(k) : p <= q
  BY <1>3, FirstStop
<1>5. p \in Index /\ StopsAt(k, Found(k)) /\ Index \subseteq Nat
  BY <1>4, CapacityAssumption DEF Stops, Index
<1>6. ASSUME Found(k) # i PROVE FALSE
  <2>1. ASSUME NEW q \in 0 .. p, ProbeIndex(k, q) = i PROVE FALSE
    <3>1. q \in Index
      BY <1>5, CapacityAssumption DEF Index
    <3>2. q \in Stops(k)
      BY <1>1, <2>1, <3>1 DEF Stops, StopsAt, Index
    <3>3. q = p
      BY <1>4, <1>5, <3>1, <3>2
    <3>4. QED
      BY <1>4, <1>6, <2>1, <3>3
  <2>2. Found(k) \in Before(i)
    BY <1>1, <1>4, <1>5, <2>1 DEF Before
  <2>3. slots[Found(k)].in_use /\ slots[Found(k)].key # k
    BY <1>1, <2>2 DEF Findable
  <2>4. QED
    BY <1>5, <2>3 DEF StopsAt
<1>7. QED
  BY <1>1, <1>3, <1>6

\* No step moves a slot to another index or gives it another key ...
Kept(i) == slots'[i].in_use => slots[i].in_use /\ slots'[i].key = slots[i].key

\* ... and at most one is opened, where the lookup of its key ends.
Opened(k, h) ==
    /\ Stops(k) # {} /\ h = Found(k)
    /\ ~slots[h].in_use /\ slots'[h].in_use /\ slots'[h].key = k
    /\ \A i \in Index \ {h} : slots'[i] = slots[i]

LEMMA SlotSteps ==
    TypeOK /\ [Next]_vars =>
        (\A i \in Index : Kept(i)) \/ \E k \in Keys, h \in Index : Opened(k, h)
<1>1. SUFFICES ASSUME TypeOK, [Next]_vars
               PROVE  (\A i \in Index : Kept(i)) \/ \E k \in Keys, h \in Index : Opened(k, h)
  OBVIOUS
<1>2. CASE UNCHANGED slots
  BY <1>2 DEF Kept
<1>3. CASE Tick \/ ClockBack
  <2>1. Reaged
    BY <1>1, <1>3, ClockReages
  <2>2. ASSUME NEW i \in Index PROVE Kept(i)
    <3>1. CASE slots[i].in_use
      <4>1. PICK a \in Int : slots'[i] = [slots[i] EXCEPT !.age = a]
        BY <2>1, <3>1 DEF Reaged
      <4>2. slots[i] \in UsedSlot
        BY <1>1, <3>1, KeyType
      <4>3. slots'[i].key = slots[i].key
        BY <4>1, <4>2, Zenon DEF UsedSlot
      <4>4. QED
        BY <3>1, <4>3 DEF Kept
    <3>2. CASE ~slots[i].in_use
      BY <2>1, <3>2 DEF Reaged, Kept
    <3>3. QED
      BY <3>1, <3>2
  <2>3. QED
    BY <2>2
<1>4. CASE Sweep
  <2>1. \A i \in Index : slots'[i] = IF i \in Expired THEN FreeSlot ELSE slots[i]
    BY <1>4 DEF Sweep
  <2>2. QED
    BY <2>1 DEF Kept, FreeSlot
<1>5. CASE RecvComplete
  <2>1. PICK h : slots' = [slots EXCEPT ![h] = FreeSlot]
    BY <1>5 DEF RecvComplete
  <2>2. \A i \in Index : slots'[i] = IF i = h THEN FreeSlot ELSE slots[i]
    BY <1>1, <2>1 DEF TypeOK
  <2>3. QED
    BY <2>2 DEF Kept, FreeSlot
<1>6. CASE RecvPartial
  <2>1. PICK d \in Datagrams :
            Admitted(d) /\ slots' = [slots EXCEPT ![Found(d.key)] = Accumulated(d)]
    BY <1>6 DEF RecvPartial
  <2>2. PICK k \in Keys : k = d.key
    BY <1>1, DatagramType
  <2>3. WellFormed(d) /\ ~Refused(k) /\ Stops(k) # {}
    BY <2>1, <2>2 DEF Admitted, Refused
  <2>4. PICK h \in Index : h = Found(k) /\ StopsAt(k, h)
    BY <2>3, FoundStops
  <2>5. Accumulated(d).key = k /\ Accumulated(d).in_use
    <3>1. Accumulated(d) \in UsedSlot
      BY <1>1, <2>2, <2>3, AccumulatedType
    <3>2. QED
      BY <1>1, <2>2, <2>3, <3>1, AccumulatedKey DEF UsedSlot
  <2>6. \A i \in Index : slots'[i] = IF i = h THEN Accumulated(d) ELSE slots[i]
    BY <1>1, <2>1, <2>2, <2>4 DEF TypeOK
  <2>7. CASE slots[h].in_use
    BY <2>4, <2>5, <2>6, <2>7 DEF Kept, StopsAt
  <2>8. CASE ~slots[h].in_use
    BY <2>3, <2>4, <2>5, <2>6, <2>8 DEF Opened
  <2>9. QED
    BY <2>7, <2>8
<1>7. QED
  BY <1>1, <1>2, <1>3, <1>4, <1>5, <1>6 DEF Next, MainLoop, Arrive, SigUsr1, Exit, NoSweep,
     DumpStats, ClearRequest, NoDump, Block, Timeout, RecvRunt, RecvMalformed, RecvRefused,
     RecvMismatch, RecvDuplicate, vars

LEMMA BeforeType ==
    ASSUME NEW i \in Index, slots[i].key \in Keys
    PROVE  Before(i) \subseteq Index
<1>1. Index \subseteq Nat
  BY CapacityAssumption DEF Index
<1>2. QED
  BY <1>1, ProbeIndexType DEF Before

LEMMA BeforeKept ==
    ASSUME NEW i \in Index, slots'[i].key = slots[i].key
    PROVE  Before(i)' = Before(i)
BY DEF Before, ProbeIndex

\* A slot that stays is found again, unless one ahead of it went.
LEMMA StaysFindable ==
    ASSUME TypeOK, NEW i \in Index, slots[i].in_use, slots'[i].in_use, Findable(i),
           \A m \in Index : slots[m].in_use => Kept(m)
    PROVE  Findable(i)' \/ CutOff(i)
<1>1. slots[i].key \in Keys /\ slots'[i].key = slots[i].key
  BY KeyType DEF Kept
<1>2. Before(i)' = Before(i) /\ Before(i) \subseteq Index
  BY <1>1, BeforeType, BeforeKept
<1>3. ASSUME ~CutOff(i), NEW j \in Before(i)
      PROVE  slots'[j].in_use /\ slots'[j].key # slots'[i].key
  <2>1. slots[j].in_use /\ slots[j].key # slots[i].key
    BY DEF Findable
  <2>2. slots'[j].in_use
    BY <1>2, <1>3, <2>1 DEF CutOff
  <2>3. QED
    BY <1>1, <1>2, <2>1, <2>2 DEF Kept
<1>4. QED
  BY <1>2, <1>3 DEF Findable

\* A slot is opened at the first free index for its key.
LEMMA OpensFindable ==
    ASSUME TypeOK, NEW k \in Keys, NEW h \in Index, Opened(k, h)
    PROVE  Findable(h)'
<1>1. PICK r \in Stops(k) : h = ProbeIndex(k, r) /\ \A q \in Stops(k) : r <= q
  BY FirstStop DEF Opened
<1>2. r \in Nat /\ Index \subseteq Nat /\ slots'[h].key = k
  BY <1>1, CapacityAssumption DEF Stops, Opened, Index
<1>3. ASSUME NEW p \in Index, \A q \in 0 .. p : ProbeIndex(k, q) # h
      PROVE  slots'[ProbeIndex(k, p)].in_use /\ slots'[ProbeIndex(k, p)].key # k
  <2>1. ProbeIndex(k, p) \in Index /\ ProbeIndex(k, p) # h /\ p < r
    <3>1. p \in 0 .. p /\ (r <= p => r \in 0 .. p)
      BY <1>2
    <3>2. QED
      BY <1>1, <1>2, <1>3, <3>1, ProbeIndexType
  <2>2. p \notin Stops(k)
    BY <1>1, <1>2, <2>1
  <2>3. slots[ProbeIndex(k, p)].in_use /\ slots[ProbeIndex(k, p)].key # k
    BY <2>2 DEF Stops, StopsAt, Index
  <2>4. QED
    BY <2>1, <2>3 DEF Opened
<1>4. Before(h)' = {ProbeIndex(k, p) : p \in {p \in Index : \A q \in 0 .. p : ProbeIndex(k, q) # h}}
  BY <1>2 DEF Before, ProbeIndex
<1>5. \A j \in Before(h)' : slots'[j].in_use /\ slots'[j].key # slots'[h].key
  BY <1>2, <1>3, <1>4
<1>6. QED
  BY <1>5 DEF Findable

LEMMA HoleStep ==
    TypeOK /\ [Next]_vars =>
        \A i \in InUse' : Findable(i)' \/ (i \in InUse /\ ~Findable(i)) \/ CutOff(i)
<1>1. SUFFICES ASSUME TypeOK, [Next]_vars, NEW i \in Index, slots'[i].in_use,
                      i \in InUse => Findable(i)
               PROVE  Findable(i)' \/ CutOff(i)
  BY DEF InUse
<1>2. CASE \A m \in Index : Kept(m)
  <2>1. slots[i].in_use /\ Findable(i)
    BY <1>1, <1>2 DEF Kept, InUse
  <2>2. QED
    BY <1>1, <1>2, <2>1, StaysFindable
<1>3. ASSUME NEW k \in Keys, NEW h \in Index, Opened(k, h) PROVE Findable(i)' \/ CutOff(i)
  <2>1. CASE i = h
    BY <1>1, <1>3, <2>1, OpensFindable
  <2>2. CASE i # h
    <3>1. slots[i].in_use /\ Findable(i)
      BY <1>1, <1>3, <2>2 DEF Opened, InUse
    <3>2. \A m \in Index : slots[m].in_use => Kept(m)
      BY <1>3 DEF Opened, Kept
    <3>3. QED
      BY <1>1, <3>1, <3>2, StaysFindable
  <2>3. QED
    BY <2>1, <2>2
<1>4. QED
  BY <1>1, <1>2, <1>3, SlotSteps

\* Only a hole hides a slot (agg.c:185-224, 235): for every hash, however the
\* probe sequences overlap and wrap around, every size of the table, quota, TTL
\* and traffic.
THEOREM OnlyHolesCutOffHolds == Spec => OnlyHolesCutOff
<1>1. TypeOK /\ [Next]_vars =>
         [\A i \in InUse' : Findable(i)' \/ (i \in InUse /\ ~Findable(i)) \/ CutOff(i)]_vars
  BY HoleStep
<1>2. QED
  BY <1>1, TypeCorrect, PTL DEF Spec, OnlyHolesCutOff

LEMMA ReachableStep ==
    TypeOK /\ SlotReachable /\ [Next]_vars /\ [~CutsOff]_vars => SlotReachable'
<1>1. SUFFICES ASSUME TypeOK, SlotReachable, [Next]_vars, [~CutsOff]_vars
               PROVE  SlotReachable'
  OBVIOUS
<1>2. CASE UNCHANGED vars
  BY <1>1, <1>2 DEF vars, SlotReachable, InUse, Findable, Before, ProbeIndex
<1>3. CASE ~CutsOff
  BY <1>1, <1>3, HoleStep DEF SlotReachable, CutsOff
<1>4. QED
  BY <1>1, <1>2, <1>3

LEMMA ReachableInit == Init => SlotReachable
BY DEF Init, SlotReachable, InUse, FreeSlot

\* As long as no slot is given back ahead of another, a lookup of a key that has
\* a slot ends at that slot (agg.c:185-224), whichever keys collide.
THEOREM SlotReachableHolds == Spec /\ [][~CutsOff]_vars => []SlotReachable
BY ReachableInit, ReachableStep, TypeCorrect, PTL DEF Spec

-----------------------------------------------------------------------------
(***************************************************************************)
(* What a lookup must do for UserAgg to implement Aggregation: it does not *)
(* end at a second slot for a key that has one, though it may be refused.  *)
(* Either of two things is enough: that no hole hides a slot, or that a    *)
(* job may hold one slot only.                                             *)
(***************************************************************************)
NoSecondSlot ==
    /\ OneSlotPerKey
    /\ \A i \in InUse : Refused(slots[i].key) \/ Found(slots[i].key) = i

LEMMA ReachableNoSecond == TypeOK /\ SlotReachable => NoSecondSlot
<1>1. SUFFICES ASSUME TypeOK, SlotReachable PROVE NoSecondSlot
  OBVIOUS
<1>2. \A i \in InUse : Found(slots[i].key) = i
  BY <1>1, FindableFound DEF SlotReachable, InUse
<1>3. QED
  BY <1>2 DEF NoSecondSlot, OneSlotPerKey

LEMMA AtMostOne ==
    ASSUME NEW S, IsFiniteSet(S), Cardinality(S) <= 1, NEW x \in S, NEW y \in S
    PROVE  x = y
<1>1. Cardinality(S) \in Nat /\ Cardinality(S \ {x}) = Cardinality(S) - 1
      /\ IsFiniteSet(S \ {x}) /\ Cardinality(S \ {x}) \in Nat
  BY FS_RemoveElement, FS_CardinalityType
<1>2. Cardinality(S \ {x}) = 0
  BY <1>1
<1>3. S \ {x} = {}
  BY <1>1, <1>2, FS_EmptySet
<1>4. QED
  BY <1>3

LEMMA QuotaNoSecond ==
    TypeOK /\ AccountingInv /\ g_job_quota = 1 /\ Cardinality(Jobs) <= JOB_TABLE_CAPACITY
        => NoSecondSlot
<1>1. SUFFICES ASSUME TypeOK, AccountingInv, g_job_quota = 1,
                      Cardinality(Jobs) <= JOB_TABLE_CAPACITY
               PROVE  NoSecondSlot
  OBVIOUS
<1>2. ASSUME NEW i \in InUse
      PROVE  slots[i].key \in Keys /\ slots[i].key.job_id \in Jobs
             /\ i \in Owned(slots[i].key.job_id)
  <2>1. slots[i].key \in Keys
    BY <1>1, <1>2, KeyType DEF InUse
  <2>2. QED
    BY <1>2, <2>1 DEF Keys, Owned
<1>3. ASSUME NEW j \in Jobs
      PROVE  /\ IsFiniteSet(Owned(j)) /\ Cardinality(Owned(j)) \in Nat
             /\ Cardinality(Owned(j)) <= 1
             /\ JobFound(j) /\ jobs[j].concurrent_slots = Cardinality(Owned(j))
  <2>1. JobFound(j) /\ jobs[j].concurrent_slots = Cardinality(Owned(j))
    BY <1>1, AllTracked
  <2>2. IsFiniteSet(Owned(j)) /\ Cardinality(Owned(j)) \in Nat
    BY OwnedFinite
  <2>3. Cardinality(Owned(j)) <= 1
    <3>1. CASE jobs[j].in_use
      BY <1>1, <3>1 DEF AccountingInv, QuotaCap, TrackedJobs
    <3>2. CASE ~jobs[j].in_use
      BY <1>1, <2>1, <2>2, <3>2 DEF AccountingInv
    <3>3. QED
      BY <3>1, <3>2
  <2>4. QED
    BY <2>1, <2>2, <2>3
<1>4. ASSUME NEW i \in InUse, NEW m \in InUse, slots[i].key.job_id = slots[m].key.job_id
      PROVE  i = m
  <2>1. PICK j \in Jobs : j = slots[i].key.job_id /\ i \in Owned(j) /\ m \in Owned(j)
    BY <1>2, <1>4
  <2>2. QED
    BY <1>3, <2>1, AtMostOne
<1>5. ASSUME NEW i \in InUse, ~Refused(slots[i].key) PROVE Found(slots[i].key) = i
  <2>1. PICK k \in Keys : k = slots[i].key /\ k.job_id \in Jobs /\ i \in Owned(k.job_id)
    BY <1>2
  <2>2. Stops(k) # {} /\ ~RefusedByQuota(k)
    BY <1>5, <2>1 DEF Refused
  <2>3. Found(k) \in Index /\ StopsAt(k, Found(k))
    BY <2>1, <2>2, FoundStops
  <2>4. CASE slots[Found(k)].in_use
    BY <1>4, <2>1, <2>3, <2>4 DEF StopsAt, InUse
  <2>5. CASE ~slots[Found(k)].in_use
    <3>1. ~AtQuota(k.job_id)
      BY <2>2, <2>5 DEF RefusedByQuota
    <3>2. Cardinality(Owned(k.job_id)) = 0
      BY <1>1, <1>3, <2>1, <3>1 DEF AtQuota
    <3>3. Owned(k.job_id) = {}
      BY <1>3, <2>1, <3>2, FS_EmptySet
    <3>4. QED
      BY <2>1, <3>3
  <2>6. QED
    BY <2>1, <2>4, <2>5
<1>6. QED
  BY <1>4, <1>5 DEF NoSecondSlot, OneSlotPerKey

-----------------------------------------------------------------------------
(***************************************************************************)
(* UserAgg implements Aggregation: a key's round is what its slot holds.   *)
(***************************************************************************)
Rounds == [k \in Keys |-> RoundOf(k)]
Sent   == [n \in DOMAIN out |-> SumOf(out[n])]

Held(n, len, S) == [open |-> TRUE, chunk_len |-> len, expected |-> n, members |-> S]
NoRound == [open |-> FALSE]
RoundIn(s) == IF s.in_use THEN Held(s.num_workers_expected, s.chunk_len, s.seen_worker)
              ELSE NoRound

\* What a state must be for its steps to be those of Aggregation.
Sound == TypeOK /\ AccountingInv /\ SummedOnce /\ NoSecondSlot

RoundsKnown ==
    \A k \in Keys :
        /\ \A i \in InUse : slots[i].key = k => RoundOf(k) = RoundIn(slots[i])
        /\ (\A i \in InUse : slots[i].key # k) => RoundOf(k) = NoRound

LEMMA RoundsAre == OneSlotPerKey => RoundsKnown
<1>1. SUFFICES ASSUME OneSlotPerKey, NEW k \in Keys
               PROVE  /\ \A i \in InUse : slots[i].key = k => RoundOf(k) = RoundIn(slots[i])
                      /\ (\A i \in InUse : slots[i].key # k) => RoundOf(k) = NoRound
  BY DEF RoundsKnown
<1>2. ASSUME NEW i \in InUse, slots[i].key = k PROVE RoundOf(k) = RoundIn(slots[i])
  <2>1. (CHOOSE m \in InUse : slots[m].key = k) = i
    BY <1>1, <1>2 DEF OneSlotPerKey
  <2>2. slots[i].in_use
    BY DEF InUse
  <2>3. QED
    BY <1>2, <2>1, <2>2 DEF RoundOf, RoundIn, Held
<1>3. QED
  BY <1>2 DEF RoundOf, NoRound

LEMMA SoundRounds == (Sound => RoundsKnown) /\ (Sound' => RoundsKnown')
<1>1. Sound => RoundsKnown
  BY RoundsAre DEF Sound, NoSecondSlot
<1>2. QED
  BY <1>1, PTL

\* Slot h is the one of key k, or is free and k has none.
OwnOrNew(k, h) ==
    /\ h \in Index
    /\ slots[h].in_use => slots[h].key = k
    /\ ~slots[h].in_use => \A i \in InUse : slots[i].key # k

\* s is no other key's slot.
Carries(s, k) == s.in_use => s.key = k

\* What becomes of a key's round when its slot, the one at h, becomes s and the
\* others stay.
LEMMA OneRound ==
    ASSUME Sound, Sound', NEW k \in Keys, NEW h \in Index, NEW s,
           slots' = [slots EXCEPT ![h] = s], OwnOrNew(k, h), Carries(s, k)
    PROVE  Rounds' = [Rounds EXCEPT ![k] = RoundIn(s)]
<1>1. RoundsKnown /\ RoundsKnown'
  BY SoundRounds
<1>2. \A i \in Index : slots'[i] = IF i = h THEN s ELSE slots[i]
  BY DEF Sound, TypeOK
<1>3. \A i : i \in InUse' <=> i \in Index /\ slots'[i].in_use
  BY DEF InUse
<1>4. \A m \in Keys, i \in InUse' : slots'[i].key = m => RoundOf(m)' = RoundIn(slots'[i])
  BY <1>1 DEF RoundsKnown, RoundIn, Held, NoRound
<1>5. \A m \in Keys : (\A i \in InUse' : slots'[i].key # m) => RoundOf(m)' = NoRound
  BY <1>1 DEF RoundsKnown, NoRound
<1>6. ASSUME NEW m \in Keys, m # k PROVE RoundOf(m)' = RoundOf(m)
  <2>1. CASE \E i \in InUse : slots[i].key = m
    <3>1. PICK i \in InUse : slots[i].key = m
      BY <2>1
    <3>2. i \in InUse' /\ slots'[i] = slots[i]
      BY <1>2, <1>3, <1>6, <3>1 DEF InUse, OwnOrNew
    <3>3. QED
      BY <1>1, <1>4, <3>1, <3>2 DEF RoundsKnown
  <2>2. CASE \A i \in InUse : slots[i].key # m
    <3>1. \A i \in InUse' : slots'[i].key # m
      BY <1>2, <1>3, <1>6, <2>2 DEF InUse, Carries
    <3>2. QED
      BY <1>1, <1>5, <2>2, <3>1 DEF RoundsKnown
  <2>3. QED
    BY <2>1, <2>2
<1>7. RoundOf(k)' = RoundIn(s)
  <2>1. CASE s.in_use
    BY <1>2, <1>3, <1>4, <2>1 DEF Carries
  <2>2. CASE ~s.in_use
    <3>1. \A i \in InUse \ {h} : slots[i].key # k
      BY DEF Sound, NoSecondSlot, OneSlotPerKey, InUse, OwnOrNew
    <3>2. \A i \in InUse' : slots'[i].key # k
      BY <1>2, <1>3, <2>2, <3>1 DEF InUse
    <3>3. QED
      BY <1>5, <2>2, <3>2 DEF RoundIn
  <2>3. QED
    BY <2>1, <2>2
<1>8. QED
  BY <1>6, <1>7 DEF Rounds

LEMMA SameCardinality == \A S : Promise!Cardinality(S) = Cardinality(S)
BY DEF Promise!Cardinality, Cardinality, Promise!IsFiniteSet, IsFiniteSet

LEMMA MoreMembers ==
    ASSUME NEW open, NEW n, NEW len, NEW S, NEW M
    PROVE  [[open |-> open, chunk_len |-> len, expected |-> n, members |-> S]
               EXCEPT !.members = M]
           = [open |-> open, chunk_len |-> len, expected |-> n, members |-> M]
OBVIOUS

LEMMA HeldMore ==
    ASSUME NEW n, NEW len, NEW S, NEW M
    PROVE  [Held(n, len, S) EXCEPT !.members = M] = Held(n, len, M)
<1>1. PICK open : open = TRUE
  OBVIOUS
<1>2. \A m, l, T : Held(m, l, T) = [open |-> open, chunk_len |-> l, expected |-> m, members |-> T]
  BY <1>1 DEF Held
<1>3. QED
  BY <1>2, MoreMembers

LEMMA JoinPartial ==
    ASSUME NEW k, NEW n, NEW len, NEW S, NEW w, w \notin S, Cardinality(S \cup {w}) < n,
           Rounds' = [Rounds EXCEPT ![k] = Held(n, len, S \cup {w})], Sent' = Sent
    PROVE  Promise!Join(k, Held(n, len, S), w)
<1>1. [Held(n, len, S) EXCEPT !.members = S \cup {w}] = Held(n, len, S \cup {w})
  BY HeldMore
<1>2. Held(n, len, S).members = S /\ Held(n, len, S).expected = n
  BY DEF Held
<1>3. Promise!Cardinality(S \cup {w}) < n
  BY SameCardinality
<1>4. QED
  BY <1>1, <1>2, <1>3 DEF Promise!Join, Rounds, Sent

LEMMA JoinLast ==
    ASSUME NEW k, NEW n, NEW len, NEW S, NEW w, w \notin S, Cardinality(S \cup {w}) = n,
           Rounds' = [Rounds EXCEPT ![k] = NoRound],
           \/ Sent' = Append(Sent, [key |-> k, chunk_len |-> len, workers |-> S \cup {w}])
           \/ Sent' = Sent
    PROVE  Promise!Join(k, Held(n, len, S), w)
<1>1. /\ Held(n, len, S).members = S /\ Held(n, len, S).expected = n
      /\ Held(n, len, S).chunk_len = len
  BY DEF Held
<1>2. Promise!Cardinality(S \cup {w}) = n
  BY SameCardinality
<1>3. NoRound = Promise!NoRound
  BY DEF NoRound, Promise!NoRound
<1>4. QED
  BY <1>1, <1>2, <1>3 DEF Promise!Join, Rounds, Sent

LEMMA Joined ==
    ASSUME NEW k \in Keys, NEW n, NEW len, NEW S, NEW w \in Workers,
           Promise!Join(k, Held(n, len, S), w),
           \/ Rounds[k] = Held(n, len, S)
           \/ /\ Rounds[k] = NoRound /\ S = {} /\ Promise!MayOpen(k)
              /\ n \in 1 .. Cardinality(Workers) /\ len \in 0 .. NETSUM_MAX_CHUNK_LEN
    PROVE  Promise!Next
<1>1. k \in Promise!Keys
  BY DEF Promise!Keys, Keys
<1>2. CASE Rounds[k] = Held(n, len, S)
  <2>1. Rounds[k].open
    BY <1>2 DEF Held
  <2>2. Promise!JoinRound(k)
    BY <1>2, <2>1 DEF Promise!JoinRound, Rounds
  <2>3. QED
    BY <1>1, <2>2 DEF Promise!Next
<1>3. CASE /\ Rounds[k] = NoRound /\ S = {} /\ Promise!MayOpen(k)
           /\ n \in 1 .. Cardinality(Workers) /\ len \in 0 .. NETSUM_MAX_CHUNK_LEN
  <2>1. ~Rounds[k].open
    BY <1>3 DEF NoRound
  <2>2. Held(n, len, S) = Promise!Fresh(n, len)
    BY <1>3 DEF Held, Promise!Fresh
  <2>3. n \in 1 .. Promise!Cardinality(Workers)
    BY <1>3, SameCardinality
  <2>4. Promise!Join(k, Promise!Fresh(n, len), w)
    BY <2>2
  <2>5. Promise!OpenRound(k)
    BY <1>3, <2>1, <2>3, <2>4 DEF Promise!OpenRound, Rounds
  <2>6. QED
    BY <1>1, <2>5 DEF Promise!Next
<1>4. QED
  BY <1>2, <1>3

LEMMA Abandoned ==
    ASSUME NEW S \in SUBSET Keys,
           Rounds' = [m \in Keys |-> IF m \in S THEN NoRound ELSE Rounds[m]], Sent' = Sent
    PROVE  Promise!Next
<1>1. Keys = Promise!Keys
  BY DEF Promise!Keys, Keys
<1>2. NoRound = Promise!NoRound
  BY DEF NoRound, Promise!NoRound
<1>3. Rounds' = [m \in Keys |-> IF m \in S THEN Promise!NoRound ELSE Rounds[m]]
  BY <1>2
<1>4. Promise!Abandon
  BY <1>1, <1>3 DEF Promise!Abandon, Rounds, Sent
<1>5. QED
  BY <1>4 DEF Promise!Next

\* A job has at most as many rounds open as it owns slots.
LEMMA OpenOwned ==
    ASSUME Sound, NEW j \in Jobs
    PROVE  /\ Cardinality(Promise!OpenRounds(j)) \in Nat
           /\ Cardinality(Promise!OpenRounds(j)) <= Cardinality(Owned(j))
<1> DEFINE f == [i \in Owned(j) |-> slots[i].key]
           O == Promise!OpenRounds(j)
<1>1. O = {k \in Keys : RoundOf(k).open /\ k.job_id = j}
  BY DEF Promise!OpenRounds, Promise!Keys, Keys
<1>2. ASSUME NEW i \in Owned(j) PROVE slots[i].key \in O
  <2>1. i \in InUse /\ i \in Index /\ slots[i].in_use /\ slots[i].key.job_id = j
    BY <1>2 DEF Owned, InUse
  <2>2. slots[i].key \in Keys
    BY <2>1, KeyType DEF Sound
  <2>3. RoundOf(slots[i].key) = RoundIn(slots[i])
    BY <2>1, <2>2, SoundRounds DEF RoundsKnown
  <2>4. QED
    BY <1>1, <2>1, <2>2, <2>3 DEF RoundIn, Held
<1>3. ASSUME NEW k \in O PROVE \E i \in Owned(j) : slots[i].key = k
  <2>1. k \in Keys /\ RoundOf(k).open /\ k.job_id = j
    BY <1>1
  <2>2. PICK i \in InUse : slots[i].key = k
    BY <2>1, SoundRounds DEF RoundsKnown, NoRound
  <2>3. QED
    BY <2>1, <2>2 DEF Owned
<1>4. f \in Surjection(Owned(j), O)
  <2>1. HIDE DEF O
  <2>2. QED
    BY <1>2, <1>3 DEF Surjection
<1>5. HIDE DEF f, O
<1>6. Cardinality(O) \in Nat /\ Cardinality(O) <= Cardinality(Owned(j))
  BY <1>4, OwnedFinite, FS_Surjection, FS_CardinalityType
<1>7. QED
  BY <1>6 DEF O

LEMMA OpensBelowQuota ==
    ASSUME Sound, g_job_quota = 0 \/ Cardinality(Jobs) <= JOB_TABLE_CAPACITY,
           NEW k \in Keys, ~Refused(k), ~slots[Found(k)].in_use
    PROVE  Promise!MayOpen(k)
<1>1. CASE g_job_quota = 0
  BY <1>1 DEF Promise!MayOpen
<1>2. CASE g_job_quota # 0
  <2>1. PICK j \in Jobs : j = k.job_id
    BY DEF Keys
  <2>2. g_job_quota \in Nat /\ g_job_quota > 0 /\ Cardinality(Jobs) <= JOB_TABLE_CAPACITY
    BY <1>2, ArgumentAssumption
  <2>3. JobFound(j) /\ jobs[j].concurrent_slots = Cardinality(Owned(j))
    BY <2>2, AllTracked DEF Sound
  <2>4. Cardinality(Owned(j)) \in Nat
    BY OwnedFinite
  <2>5. Cardinality(Owned(j)) < g_job_quota
    BY <2>1, <2>2, <2>3, <2>4 DEF Refused, RefusedByQuota, AtQuota
  <2>6. /\ Cardinality(Promise!OpenRounds(j)) \in Nat
        /\ Cardinality(Promise!OpenRounds(j)) <= Cardinality(Owned(j))
    BY OpenOwned
  <2>7. Cardinality(Promise!OpenRounds(j)) < g_job_quota
    BY <2>2, <2>4, <2>5, <2>6
  <2>8. QED
    BY <2>1, <2>7, SameCardinality DEF Promise!MayOpen
<1>3. QED
  BY <1>1, <1>2

-----------------------------------------------------------------------------
(***************************************************************************)
(* Every step of UserAgg is a step of Aggregation or none.                 *)
(***************************************************************************)
LEMMA ClockMaps ==
    ASSUME Sound, Sound', Tick \/ ClockBack
    PROVE  Rounds' = Rounds /\ Sent' = Sent
<1>1. Reaged
  BY ClockReages DEF Sound
<1>2. ASSUME NEW i \in Index PROVE RoundIn(slots'[i]) = RoundIn(slots[i])
  <2>1. CASE slots[i].in_use
    <3>1. PICK a \in Int : slots'[i] = [slots[i] EXCEPT !.age = a]
      BY <1>1, <2>1 DEF Reaged
    <3>2. slots[i] \in UsedSlot
      BY <2>1, KeyType DEF Sound
    <3>3. /\ slots'[i].in_use
          /\ slots'[i].num_workers_expected = slots[i].num_workers_expected
          /\ slots'[i].chunk_len = slots[i].chunk_len
          /\ slots'[i].seen_worker = slots[i].seen_worker
      BY <2>1, <3>1, <3>2, Zenon DEF UsedSlot
    <3>4. QED
      BY <2>1, <3>3 DEF RoundIn
  <2>2. CASE ~slots[i].in_use
    BY <1>1, <2>2 DEF Reaged
  <2>3. QED
    BY <2>1, <2>2
<1>3. ASSUME NEW m \in Keys PROVE RoundOf(m)' = RoundOf(m)
  <2>1. RoundsKnown /\ RoundsKnown'
    BY SoundRounds
  <2>2. \A i \in Index : slots'[i].in_use = slots[i].in_use
                          /\ (slots[i].in_use => slots'[i].key = slots[i].key)
    <3>1. SUFFICES ASSUME NEW i \in Index
                   PROVE  slots'[i].in_use = slots[i].in_use
                          /\ (slots[i].in_use => slots'[i].key = slots[i].key)
      OBVIOUS
    <3>2. CASE slots[i].in_use
      <4>1. PICK a \in Int : slots'[i] = [slots[i] EXCEPT !.age = a]
        BY <1>1, <3>2 DEF Reaged
      <4>2. slots[i] \in UsedSlot
        BY <3>2, KeyType DEF Sound
      <4>3. QED
        BY <4>1, <4>2, Zenon DEF UsedSlot
    <3>3. CASE ~slots[i].in_use
      BY <1>1, <3>3 DEF Reaged
    <3>4. QED
      BY <3>2, <3>3
  <2>3. CASE \E i \in InUse : slots[i].key = m
    <3>1. PICK i \in Index : slots[i].in_use /\ slots[i].key = m
      BY <2>3 DEF InUse
    <3>2. RoundOf(m) = RoundIn(slots[i]) /\ RoundOf(m)' = RoundIn(slots'[i])
      BY <2>1, <2>2, <3>1 DEF RoundsKnown, InUse, RoundIn, Held, NoRound
    <3>3. QED
      BY <1>2, <3>1, <3>2
  <2>4. CASE \A i \in InUse : slots[i].key # m
    BY <2>1, <2>2, <2>4 DEF RoundsKnown, InUse, NoRound
  <2>5. QED
    BY <2>3, <2>4
<1>4. QED
  BY <1>1, <1>3 DEF Rounds, Sent, SumOf, Reaged

\* A sweep abandons the rounds whose slots expired.
LEMMA SweepMaps ==
    ASSUME Sound, Sound', Sweep
    PROVE  Promise!Next
<1> DEFINE S == {k \in Keys : \E i \in Expired : slots[i].key = k}
<1>1. RoundsKnown /\ RoundsKnown'
  BY SoundRounds
<1>2. \A i \in Index : slots'[i] = IF i \in Expired THEN FreeSlot ELSE slots[i]
  BY DEF Sweep
<1>3. \A i : i \in InUse' <=> i \in InUse /\ i \notin Expired
  BY <1>2 DEF InUse, FreeSlot
<1>4. \A m \in Keys :
         /\ \A i \in InUse' : slots'[i].key = m => RoundOf(m)' = RoundIn(slots'[i])
         /\ (\A i \in InUse' : slots'[i].key # m) => RoundOf(m)' = NoRound
  BY <1>1 DEF RoundsKnown, RoundIn, Held, NoRound
<1>5. ASSUME NEW m \in Keys PROVE RoundOf(m)' = IF m \in S THEN NoRound ELSE RoundOf(m)
  <2>1. CASE m \in S
    <3>1. PICK e \in Expired : slots[e].key = m
      BY <2>1
    <3>2. \A i \in InUse : slots[i].key = m => i = e
      BY <3>1 DEF Sound, NoSecondSlot, OneSlotPerKey, Expired
    <3>3. \A i \in InUse' : slots'[i].key # m
      BY <1>2, <1>3, <3>1, <3>2 DEF InUse
    <3>4. QED
      BY <1>4, <2>1, <3>3
  <2>2. CASE m \notin S
    <3>1. \A i \in InUse : slots[i].key = m => i \in InUse' /\ slots'[i] = slots[i]
      BY <1>2, <1>3, <2>2 DEF InUse
    <3>2. \A i \in InUse' : i \in InUse /\ slots'[i] = slots[i]
      BY <1>2, <1>3 DEF InUse
    <3>3. CASE \E i \in InUse : slots[i].key = m
      BY <1>1, <1>4, <2>2, <3>1, <3>3 DEF RoundsKnown
    <3>4. CASE \A i \in InUse : slots[i].key # m
      BY <1>1, <1>4, <2>2, <3>2, <3>4 DEF RoundsKnown
    <3>5. QED
      BY <3>3, <3>4
  <2>3. QED
    BY <2>1, <2>2
<1>6. Rounds' = [m \in Keys |-> IF m \in S THEN NoRound ELSE Rounds[m]]
  BY <1>5 DEF Rounds
<1>7. Sent' = Sent
  BY DEF Sweep, Sent, SumOf
<1>8. S \in SUBSET Keys
  OBVIOUS
<1>9. HIDE DEF S
<1>10. QED
  BY <1>6, <1>7, <1>8, Abandoned

LEMMA WorkerCount == MAX_TRACKED_WORKERS = Cardinality(Workers)
<1>1. 0 \in Int /\ MAX_TRACKED_WORKERS - 1 \in Int /\ MAX_TRACKED_WORKERS \in Nat
  BY CapacityAssumption
<1>2. Cardinality(Workers) = IF 0 > MAX_TRACKED_WORKERS - 1 THEN 0
                             ELSE (MAX_TRACKED_WORKERS - 1) - 0 + 1
  BY <1>1, FS_Interval DEF Workers
<1>3. QED
  BY <1>1, <1>2, CapacityAssumption

LEMMA AccumulatedLen ==
    ASSUME TypeOK, NEW d \in Datagrams, WellFormed(d), ~Refused(d.key)
    PROVE  Accumulated(d).chunk_len = SlotFor(d).chunk_len
<1> DEFINE s     == SlotFor(d)
           sum   == Summed(s.sum, d.worker_id)
           count == s.contributions_received + 1
           seen  == s.seen_worker \cup {d.worker_id}
<1>1. s \in UsedSlot
  BY SlotForType
<1>2. Accumulated(d) = [s EXCEPT !.seen_worker = seen, !.age = 0, !.sum = sum,
                                 !.contributions_received = count]
  BY DEF Accumulated
<1>3. HIDE DEF s, sum, count, seen
<1>4. Accumulated(d).chunk_len = s.chunk_len
  BY <1>1, <1>2, Zenon DEF UsedSlot
<1>5. QED
  BY <1>4 DEF s

\* d is a contribution to the round S of its key, of n workers and len lanes,
\* found in the table or opened by d.
Contributes(d, k, w, n, len, S) ==
    /\ k = d.key /\ w = d.worker_id
    /\ n = SlotFor(d).num_workers_expected /\ len = SlotFor(d).chunk_len
    /\ S = SlotFor(d).seen_worker

\* What the lookup and the summing make of it.
Contributed(d, k, w, n, len, S) ==
    /\ k \in Keys /\ w \in Workers /\ w \notin S
    /\ OwnOrNew(k, Found(k))
    /\ \/ Rounds[k] = Held(n, len, S)
       \/ /\ Rounds[k] = NoRound /\ S = {} /\ Promise!MayOpen(k)
          /\ n \in 1 .. Cardinality(Workers) /\ len \in 0 .. NETSUM_MAX_CHUNK_LEN
    /\ Accumulated(d).num_workers_expected = n /\ Accumulated(d).chunk_len = len
    /\ Accumulated(d).seen_worker = S \cup {w}
    /\ Accumulated(d).contributions_received = Cardinality(S \cup {w})
    /\ Cardinality(S \cup {w}) \in 1 .. n

LEMMA Contribution ==
    ASSUME Sound, g_job_quota = 0 \/ Cardinality(Jobs) <= JOB_TABLE_CAPACITY,
           NEW d \in Datagrams, Admitted(d), ~Duplicate(d),
           NEW k, NEW w, NEW n, NEW len, NEW S, Contributes(d, k, w, n, len, S)
    PROVE  Contributed(d, k, w, n, len, S)
<1>1. WellFormed(d) /\ ~Refused(k) /\ k \in Keys /\ d \in Datagram
  BY DatagramType DEF Sound, Admitted, Contributes
<1>2. w \in Workers /\ w \notin S
  <2>1. w \in Workers
    BY <1>1, CapacityAssumption DEF WellFormed, Workers, Datagram, Contributes
  <2>2. QED
    BY <2>1 DEF Duplicate, Contributes
<1>3. OwnOrNew(k, Found(k))
  <2>1. Found(k) \in Index /\ StopsAt(k, Found(k))
    BY <1>1, FoundStops DEF Refused
  <2>2. \A i \in InUse : slots[i].key = k => slots[Found(k)].in_use
    BY <1>1 DEF Sound, NoSecondSlot, InUse
  <2>3. QED
    BY <2>1, <2>2 DEF OwnOrNew, StopsAt
<1>4. Rounds[k] = RoundIn(slots[Found(k)])
  <2>1. CASE slots[Found(k)].in_use
    BY <1>1, <1>3, <2>1, SoundRounds DEF RoundsKnown, OwnOrNew, InUse, Rounds
  <2>2. CASE ~slots[Found(k)].in_use
    BY <1>1, <1>3, <2>2, SoundRounds DEF RoundsKnown, OwnOrNew, RoundIn, Rounds
  <2>3. QED
    BY <2>1, <2>2
<1>5. \/ Rounds[k] = Held(n, len, S)
      \/ /\ Rounds[k] = NoRound /\ S = {} /\ Promise!MayOpen(k)
         /\ n \in 1 .. Cardinality(Workers) /\ len \in 0 .. NETSUM_MAX_CHUNK_LEN
  <2>1. CASE slots[Found(k)].in_use
    BY <1>3, <1>4, <2>1 DEF RoundIn, SlotFor, Contributes
  <2>2. CASE ~slots[Found(k)].in_use
    <3>1. n = d.num_workers /\ len = d.chunk_len /\ S = {}
      BY <1>3, <2>2 DEF SlotFor, Contributes
    <3>2. Promise!MayOpen(k)
      BY <1>1, <1>3, <2>2, OpensBelowQuota
    <3>3. n \in 1 .. Cardinality(Workers) /\ len \in 0 .. NETSUM_MAX_CHUNK_LEN
      BY <1>1, <3>1, WorkerCount, CapacityAssumption DEF WellFormed, Datagram
    <3>4. QED
      BY <1>4, <2>2, <3>1, <3>2, <3>3 DEF RoundIn
  <2>3. QED
    BY <2>1, <2>2
<1>7. /\ Accumulated(d).num_workers_expected = n /\ Accumulated(d).chunk_len = len
      /\ Accumulated(d).seen_worker = S \cup {w}
  BY <1>1, AccumulatedFields, AccumulatedLen DEF Sound, Contributes
<1>8. /\ Accumulated(d).contributions_received = Cardinality(S \cup {w})
      /\ Cardinality(S \cup {w}) \in 1 .. n
  BY <1>1, <1>7, AccumulatedTallied DEF Sound, SummedOnce, Tallied, Contributes
<1>9. QED
  BY <1>1, <1>2, <1>3, <1>5, <1>7, <1>8 DEF Contributed

LEMMA PartialMaps ==
    ASSUME Sound, Sound', RecvPartial,
           g_job_quota = 0 \/ Cardinality(Jobs) <= JOB_TABLE_CAPACITY
    PROVE  Promise!Next
<1>1. PICK d \in Datagrams :
          /\ Admitted(d) /\ ~Duplicate(d) /\ ~Completes(d) /\ UNCHANGED out
          /\ slots' = [slots EXCEPT ![Found(d.key)] = Accumulated(d)]
  BY DEF RecvPartial
<1>2. PICK k, w, n, len, S : Contributes(d, k, w, n, len, S)
  BY DEF Contributes
<1> DEFINE a == Accumulated(d)
<1>3. /\ k \in Keys /\ w \in Workers /\ w \notin S /\ OwnOrNew(k, Found(k))
      /\ a.num_workers_expected = n /\ a.chunk_len = len /\ a.seen_worker = S \cup {w}
      /\ a.contributions_received = Cardinality(S \cup {w})
      /\ Cardinality(S \cup {w}) \in 1 .. n
  <2>1. Contributed(d, k, w, n, len, S)
    BY <1>1, <1>2, Contribution
  <2>2. QED
    BY <2>1 DEF Contributed
<1>4. Cardinality(S \cup {w}) < n
  <2>1. a \in UsedSlot
    BY <1>1, AccumulatedType DEF Sound, Admitted
  <2>2. n \in Nat
    BY <1>3, <2>1, Zenon DEF UsedSlot
  <2>3. QED
    BY <1>1, <1>3, <2>2 DEF Completes
<1>5. a.in_use /\ a.key = k /\ k = d.key
  <2>1. a \in UsedSlot
    BY <1>1, AccumulatedType DEF Sound, Admitted
  <2>2. a.key = d.key
    BY <1>1, AccumulatedKey DEF Sound, Admitted
  <2>3. QED
    BY <1>2, <2>1, <2>2 DEF UsedSlot, Contributes
<1>6. Rounds' = [Rounds EXCEPT ![k] = Held(n, len, S \cup {w})]
  <2>1. PICK h \in Index : h = Found(k) /\ OwnOrNew(k, h)
    BY <1>3 DEF OwnOrNew
  <2>2. slots' = [slots EXCEPT ![h] = a]
    BY <1>1, <1>5, <2>1
  <2>3. PICK s : s = a /\ Carries(s, k)
    BY <1>5 DEF Carries
  <2>4. Rounds' = [Rounds EXCEPT ![k] = RoundIn(s)]
    <3>1. k \in Keys
      BY <1>3
    <3>2. slots' = [slots EXCEPT ![h] = s]
      BY <2>2, <2>3
    <3>3. HIDE DEF a
    <3>4. QED
      BY <2>1, <2>3, <3>1, <3>2, OneRound
  <2>5. RoundIn(s) = Held(n, len, S \cup {w})
    BY <1>3, <1>5, <2>3 DEF RoundIn
  <2>6. QED
    BY <2>4, <2>5
<1>7. Sent' = Sent
  BY <1>1 DEF Sent, SumOf
<1>8. Promise!Join(k, Held(n, len, S), w)
  BY <1>3, <1>4, <1>6, <1>7, JoinPartial
<1>9. \/ Rounds[k] = Held(n, len, S)
      \/ /\ Rounds[k] = NoRound /\ S = {} /\ Promise!MayOpen(k)
         /\ n \in 1 .. Cardinality(Workers) /\ len \in 0 .. NETSUM_MAX_CHUNK_LEN
  BY <1>1, <1>2, Contribution DEF Contributed
<1>10. QED
  BY <1>3, <1>8, <1>9, Joined

LEMMA SeqFunction ==
    ASSUME NEW T, NEW s \in Seq(T), NEW n, n = Len(s)
    PROVE  s \in [1 .. n -> T]
OBVIOUS

LEMMA AppendIs ==
    ASSUME NEW T, NEW s \in Seq(T), NEW x \in T, NEW n, n = Len(s)
    PROVE  Append(s, x) = [m \in 1 .. n + 1 |-> IF m <= n THEN s[m] ELSE x]
<1>1. n \in Nat /\ Append(s, x) \in Seq(T) /\ Len(Append(s, x)) = n + 1
  OBVIOUS
<1>2. Append(s, x) \in [1 .. n + 1 -> T]
  BY <1>1, SeqFunction
<1>3. ASSUME NEW m \in 1 .. n + 1 PROVE Append(s, x)[m] = IF m <= n THEN s[m] ELSE x
  <2>1. CASE m <= n
    BY <1>1, <2>1
  <2>2. CASE ~(m <= n)
    <3>1. m = n + 1
      BY <1>1, <2>2
    <3>2. QED
      BY <1>1, <2>2, <3>1
  <2>3. QED
    BY <2>1, <2>2
<1>4. QED
  BY <1>2, <1>3

LEMMA SentAppend ==
    ASSUME out \in Seq(Emission), NEW e \in Emission, out' = Append(out, e)
    PROVE  Sent' = Append(Sent, SumOf(e))
<1>1. PICK n \in Nat : n = Len(out) /\ DOMAIN out = 1 .. n
  OBVIOUS
<1>2. /\ DOMAIN out' = 1 .. n + 1 /\ out'[n + 1] = e
      /\ \A m \in 1 .. n : out'[m] = out[m]
  BY <1>1
<1>3. Sent = [m \in 1 .. n |-> SumOf(out[m])]
  BY <1>1 DEF Sent
<1>4. Sent' = [m \in 1 .. n + 1 |-> SumOf(out'[m])]
  BY <1>2 DEF Sent, SumOf
<1>5. PICK T : T = {SumOf(out[m]) : m \in 1 .. n} \cup {SumOf(e)}
  OBVIOUS
<1>6. Append(Sent, SumOf(e)) = [m \in 1 .. n + 1 |-> IF m <= n THEN Sent[m] ELSE SumOf(e)]
  <2>1. Sent \in [1 .. n -> T]
    BY <1>3, <1>5
  <2>2. Sent \in Seq(T) /\ n = Len(Sent) /\ SumOf(e) \in T
    BY <1>1, <1>5, <2>1
  <2>3. PICK q, x : q = Sent /\ x = SumOf(e)
    OBVIOUS
  <2>4. Append(q, x) = [m \in 1 .. n + 1 |-> IF m <= n THEN q[m] ELSE x]
    BY <2>2, <2>3, AppendIs
  <2>5. QED
    BY <2>3, <2>4
<1>7. ASSUME NEW m \in 1 .. n + 1
      PROVE  SumOf(out'[m]) = IF m <= n THEN Sent[m] ELSE SumOf(e)
  <2>1. CASE m <= n
    <3>1. m \in 1 .. n
      BY <1>1, <1>7, <2>1
    <3>2. QED
      BY <1>2, <1>3, <2>1, <3>1
  <2>2. CASE ~(m <= n)
    <3>1. m = n + 1
      BY <1>1, <1>7, <2>2
    <3>2. QED
      BY <1>2, <2>2, <3>1
  <2>3. QED
    BY <2>1, <2>2
<1>8. QED
  BY <1>4, <1>6, <1>7

LEMMA CompleteMaps ==
    ASSUME Sound, Sound', RecvComplete,
           g_job_quota = 0 \/ Cardinality(Jobs) <= JOB_TABLE_CAPACITY
    PROVE  Promise!Next
<1>1. PICK d \in Datagrams :
          /\ Admitted(d) /\ ~Duplicate(d) /\ Completes(d)
          /\ slots' = [slots EXCEPT ![Found(d.key)] = FreeSlot]
          /\ \/ out' = Append(out, [key |-> d.key, chunk_len |-> Accumulated(d).chunk_len,
                                    sum |-> Accumulated(d).sum,
                                    num_workers |-> Accumulated(d).num_workers_expected])
             \/ UNCHANGED out
  BY DEF RecvComplete
<1>2. PICK k, w, n, len, S : Contributes(d, k, w, n, len, S)
  BY DEF Contributes
<1> DEFINE a == Accumulated(d)
           e == [key |-> k, chunk_len |-> a.chunk_len, sum |-> a.sum,
                 num_workers |-> a.num_workers_expected]
<1>3. /\ k \in Keys /\ w \in Workers /\ w \notin S /\ OwnOrNew(k, Found(k))
      /\ a.num_workers_expected = n /\ a.chunk_len = len /\ a.seen_worker = S \cup {w}
      /\ a.contributions_received = Cardinality(S \cup {w})
      /\ Cardinality(S \cup {w}) \in 1 .. n
  <2>1. Contributed(d, k, w, n, len, S)
    BY <1>1, <1>2, Contribution
  <2>2. QED
    BY <2>1 DEF Contributed
<1>4. a \in UsedSlot /\ WellFormed(d) /\ ~Refused(d.key) /\ k = d.key
  BY <1>1, <1>2, AccumulatedType DEF Sound, Admitted, Contributes
<1>5. Cardinality(S \cup {w}) = n
  <2>1. n \in Nat
    BY <1>3, <1>4, Zenon DEF UsedSlot
  <2>2. QED
    BY <1>1, <1>3, <2>1 DEF Completes
<1>6. Rounds' = [Rounds EXCEPT ![k] = NoRound]
  <2>1. RoundIn(FreeSlot) = NoRound /\ Carries(FreeSlot, k)
    BY DEF RoundIn, FreeSlot, Carries
  <2>2. PICK h \in Index : h = Found(k) /\ OwnOrNew(k, h)
    BY <1>3 DEF OwnOrNew
  <2>3. slots' = [slots EXCEPT ![h] = FreeSlot]
    BY <1>1, <1>4, <2>2
  <2>4. Rounds' = [Rounds EXCEPT ![k] = RoundIn(FreeSlot)]
    BY <1>3, <2>1, <2>2, <2>3, OneRound
  <2>5. QED
    BY <2>1, <2>4
<1>7. SumOf(e) = [key |-> k, chunk_len |-> len, workers |-> S \cup {w}]
  <2>1. \A v \in Workers : a.sum[v] = IF v \in a.seen_worker THEN 1 ELSE 0
    BY <1>1, <1>4, AccumulatedTallied DEF Sound, SummedOnce, Tallied
  <2>2. a.seen_worker \in SUBSET Workers
    BY <1>4, Zenon DEF UsedSlot
  <2>3. {v \in Workers : a.sum[v] > 0} = S \cup {w}
    BY <1>3, <2>1, <2>2
  <2>4. QED
    BY <1>3, <2>3 DEF SumOf
<1>8. \/ Sent' = Append(Sent, [key |-> k, chunk_len |-> len, workers |-> S \cup {w}])
      \/ Sent' = Sent
  <2>1. CASE UNCHANGED out
    BY <2>1 DEF Sent, SumOf
  <2>2. CASE out' = Append(out, e)
    <3>1. e \in Emission
      BY <1>1, <1>4, EmissionType DEF Sound
    <3>2. out \in Seq(Emission)
      BY DEF Sound, TypeOK
    <3>3. HIDE DEF e
    <3>4. Sent' = Append(Sent, SumOf(e))
      BY <2>2, <3>1, <3>2, SentAppend
    <3>5. QED
      BY <1>7, <3>4
  <2>3. QED
    BY <1>1, <1>4, <2>1, <2>2
<1>9. Promise!Join(k, Held(n, len, S), w)
  BY <1>3, <1>5, <1>6, <1>8, JoinLast
<1>10. \/ Rounds[k] = Held(n, len, S)
       \/ /\ Rounds[k] = NoRound /\ S = {} /\ Promise!MayOpen(k)
          /\ n \in 1 .. Cardinality(Workers) /\ len \in 0 .. NETSUM_MAX_CHUNK_LEN
  BY <1>1, <1>2, Contribution DEF Contributed
<1>11. QED
  BY <1>3, <1>9, <1>10, Joined

LEMMA MapsStep ==
    (g_job_quota = 0 \/ Cardinality(Jobs) <= JOB_TABLE_CAPACITY)
    /\ Sound /\ Sound' /\ [Next]_vars
        => Promise!Next \/ (Rounds' = Rounds /\ Sent' = Sent)
<1>1. SUFFICES ASSUME Sound, Sound', [Next]_vars,
                      g_job_quota = 0 \/ Cardinality(Jobs) <= JOB_TABLE_CAPACITY
               PROVE  Promise!Next \/ (Rounds' = Rounds /\ Sent' = Sent)
  OBVIOUS
<1>2. CASE UNCHANGED <<slots, out>>
  BY <1>2 DEF Rounds, Sent, RoundOf, SumOf, InUse
<1>3. CASE Tick \/ ClockBack
  BY <1>1, <1>3, ClockMaps
<1>4. CASE Sweep
  BY <1>1, <1>4, SweepMaps
<1>5. CASE RecvPartial
  BY <1>1, <1>5, PartialMaps
<1>6. CASE RecvComplete
  BY <1>1, <1>6, CompleteMaps
<1>7. QED
  BY <1>1, <1>2, <1>3, <1>4, <1>5, <1>6 DEF Next, MainLoop, Arrive, SigUsr1, Exit, NoSweep,
     DumpStats, ClearRequest, NoDump, Block, Timeout, RecvRunt, RecvMalformed, RecvRefused,
     RecvMismatch, RecvDuplicate, vars

LEMMA MapsInit == Init => Promise!Init
<1>1. SUFFICES ASSUME Init PROVE Promise!Init
  OBVIOUS
<1>2. InUse = {}
  BY <1>1 DEF Init, InUse, FreeSlot
<1>3. Rounds = [m \in Keys |-> NoRound]
  BY <1>2 DEF Rounds, RoundOf, NoRound
<1>4. Sent = <<>>
  BY <1>1 DEF Init, Sent
<1>5. Keys = Promise!Keys /\ NoRound = Promise!NoRound
  BY DEF Promise!Keys, Keys, NoRound, Promise!NoRound
<1>6. QED
  BY <1>3, <1>4, <1>5 DEF Promise!Init, Rounds, Sent

LEMMA BooksKept ==
    /\ Init => SummedOnce /\ AccountingInv
    /\ TypeOK /\ SummedOnce /\ AccountingInv /\ [Next]_vars => (SummedOnce /\ AccountingInv)'
BY SummedInit, AccountsInit, SummedStep, AccountsStep

(***************************************************************************)
(* UserAgg implements Aggregation (agg.c:3-7, 196-224), given a job table  *)
(* that has room for every job if there is a quota: a key has one round at *)
(* a time, a round takes each worker's contribution once and is sent on    *)
(* whole or not at all, and a job at its quota opens no further round -    *)
(* through collisions, a full table, refusals, duplicates, evictions and   *)
(* clock changes, for every hash, every size of the tables and every       *)
(* traffic, as long as no slot is given back ahead of another on that      *)
(* one's probe sequence.                                                   *)
(***************************************************************************)
THEOREM ImplementsAggregationHolds ==
    ASSUME g_job_quota = 0 \/ Cardinality(Jobs) <= JOB_TABLE_CAPACITY
    PROVE  Spec /\ [][~CutsOff]_vars => ImplementsAggregation
<1>1. TypeOK /\ SummedOnce /\ AccountingInv /\ SlotReachable => Sound
  BY ReachableNoSecond DEF Sound
<1>2. Sound /\ Sound' /\ [Next]_vars
         => [Promise!Next]_<<[k \in Keys |-> RoundOf(k)],
                             [n \in DOMAIN out |-> SumOf(out[n])]>>
  BY MapsStep DEF Rounds, Sent
<1>3. QED
  BY <1>1, <1>2, MapsInit, BooksKept, SlotReachableHolds, TypeCorrect, PTL
     DEF Spec, ImplementsAggregation, Promise!Spec

\* With a quota of one slot it does so whatever is given back when: a key whose
\* slot is hidden is refused a second one, for its job is at the quota
\* (agg.c:196-212), which the sender sees as a loss.
THEOREM ImplementsAggregationAtOne ==
    ASSUME g_job_quota = 1, Cardinality(Jobs) <= JOB_TABLE_CAPACITY
    PROVE  Spec => ImplementsAggregation
<1>1. TypeOK /\ SummedOnce /\ AccountingInv => Sound
  BY QuotaNoSecond DEF Sound
<1>2. Sound /\ Sound' /\ [Next]_vars
         => [Promise!Next]_<<[k \in Keys |-> RoundOf(k)],
                             [n \in DOMAIN out |-> SumOf(out[n])]>>
  BY MapsStep DEF Rounds, Sent
<1>3. QED
  BY <1>1, <1>2, MapsInit, BooksKept, TypeCorrect, PTL
     DEF Spec, ImplementsAggregation, Promise!Spec
=============================================================================
