----------------------------- MODULE NetSumProofs -----------------------------
(***************************************************************************)
(* Theorems about the parameter server of ParamServer, for every traffic,  *)
(* and about NetSum, the server with workers, network and aggregator       *)
(* around it, for every number of workers, rounds, runs and strays.        *)
(*                                                                         *)
(* The composition's invariant NetInv says what can be in flight, and that *)
(* a slot has added exactly the workers it has seen: without the first, a  *)
(* datagram from the network could be anything, as it may be in ServerSpec *)
(* where sums need not be exact.                                           *)
(***************************************************************************)
EXTENDS NetSum, FiniteSetTheorems, TLAPS

-----------------------------------------------------------------------------
(***************************************************************************)
(* The parameter server by itself, whatever is sent to it.                 *)
(***************************************************************************)
\* Lanes are added to lanes.
LEMMA PlusType ==
    ASSUME NEW a \in Lane, NEW b \in Lane
    PROVE  Plus(a, b) \in Lane
<1>1. \A t \in Tags : a[t] + b[t] \in Nat
    BY DEF Lane
<1> QED BY <1>1 DEF Plus, Lane

\* Every set of tags is the value of a lane.
LEMMA OneType == ASSUME NEW S PROVE One(S) \in Lane
<1>1. \A t \in Tags : (IF t \in S THEN 1 ELSE 0) \in Nat
    OBVIOUS
<1> QED BY <1>1 DEF One, Lane

\* A slot is created empty, or is the one in the table (find_or_create_slot()).
LEMMA SlotForType ==
    ASSUME ServerTypeOK, NEW d \in Datagram
    PROVE  SlotFor(d) \in UsedSlot
<1>1. d.key \in Keys /\ d.num_workers \in Nat /\ d.chunk_len \in Nat
    BY DEF Datagram
<1>2. CASE slots[d.key].in_use
    <2>1. slots[d.key] \in UsedSlot \cup {FreeSlot}
        BY <1>1 DEF ServerTypeOK
    <2>2. slots[d.key] # FreeSlot
        BY <1>2 DEF FreeSlot
    <2> QED BY <1>2, <2>1, <2>2 DEF SlotFor
<1>3. CASE ~slots[d.key].in_use
    <2>1. Zero \in Lane
        BY DEF Zero, Lane
    <2>2. [i \in Lanes |-> Zero] \in [Lanes -> Lane]
        BY <2>1
    <2>3. (IF agg_mode THEN 1 ELSE d.num_workers) \in Nat
        BY <1>1
    <2> DEFINE expected == IF agg_mode THEN 1 ELSE d.num_workers
               sums == [i \in Lanes |-> Zero]
    <2>4. SlotFor(d) = [in_use |-> TRUE, contributions_received |-> 0, seen_worker |-> {},
                        num_workers_expected |-> expected, chunk_len |-> d.chunk_len,
                        sum |-> sums, completed |-> FALSE]
        BY <1>3 DEF SlotFor
    <2>5. expected \in Nat /\ sums \in [Lanes -> Lane]
        BY <2>2, <2>3
    <2> HIDE DEF expected, sums
    <2> QED BY <1>1, <2>4, <2>5 DEF UsedSlot
<1> QED BY <1>2, <1>3

\* What the loop's body makes of a slot is a slot.
LEMMA AccumulatedType ==
    ASSUME ServerTypeOK, NEW d \in Datagram, WellFormed(d), packet' \in [Lanes -> Lane]
    PROVE  Accumulated(d) \in UsedSlot
<1> DEFINE s == SlotFor(d)
<1>1. s \in UsedSlot
    BY SlotForType
<1>2. d.worker_id \in Workers
    BY ServerAssumption DEF Datagram, WellFormed, Workers
<1>3. Summed(s.sum, d) \in [Lanes -> Lane]
    <2>1. s.sum \in [Lanes -> Lane]
        BY <1>1 DEF UsedSlot
    <2>2. \A i \in Lanes : Plus(s.sum[i], packet'[i]) \in Lane /\ s.sum[i] \in Lane
        BY <2>1, PlusType
    <2> QED BY <2>2 DEF Summed
<1> DEFINE seen == s.seen_worker \cup {d.worker_id}
           sums == Summed(s.sum, d)
           count == s.contributions_received + 1
<1>4. seen \in SUBSET Workers /\ count \in Nat
    BY <1>1, <1>2 DEF UsedSlot
<1>5. Accumulated(d) = [s EXCEPT !.seen_worker = seen, !.sum = sums,
                                 !.contributions_received = count]
    BY DEF Accumulated
<1> HIDE DEF s, seen, sums, count
<1>6. sums \in [Lanes -> Lane]
    BY <1>3 DEF sums
<1> QED BY <1>1, <1>4, <1>5, <1>6 DEF UsedSlot

-----------------------------------------------------------------------------
\* The server starts with its variables typed.
LEMMA ServerInitType == Init => ServerTypeOK
<1> SUFFICES ASSUME Init PROVE ServerTypeOK
    OBVIOUS
<1>1. packet \in [Lanes -> Lane]
    BY OneType DEF Init
<1>2. slots \in [Keys -> UsedSlot \cup {FreeSlot}]
    BY DEF Init
<1>3. completions \in Seq(Line)
    BY DEF Init
<1> QED BY <1>1, <1>2, <1>3 DEF Init, ServerTypeOK

\* Every datagram leaves the variables typed.
LEMMA ServerStepType ==
    ASSUME ServerTypeOK, [\E d \in Datagram : Handle(d)]_server
    PROVE  ServerTypeOK'
<1>1. CASE UNCHANGED server
    BY <1>1 DEF ServerTypeOK, server
<1>2. ASSUME NEW d \in Datagram, Handle(d) PROVE ServerTypeOK'
    <2>1. CASE RecvRunt(d)
        BY <2>1 DEF RecvRunt, ServerTypeOK, server
    <2>2. ASSUME Receive(d)
          PROVE  packet' \in [Lanes -> Lane] /\ packets_seen' \in Nat /\ agg_mode' \in BOOLEAN
        <3>1. d.value \in Lane
            BY DEF Datagram
        <3>2. \A i \in Lanes : (IF i <= d.n THEN d.value ELSE packet[i]) \in Lane
            BY <3>1 DEF ServerTypeOK
        <3>3. packet' \in [Lanes -> Lane]
            BY <2>2, <3>2 DEF Receive
        <3> QED BY <2>2, <3>3 DEF Receive, ServerTypeOK
    <2>3. CASE RecvMalformed(d) \/ RecvFull(d) \/ RecvDuplicate(d)
        <3>1. Receive(d) /\ UNCHANGED <<slots, completions>>
            BY <2>3 DEF RecvMalformed, RecvFull, RecvDuplicate
        <3> QED BY <2>2, <3>1 DEF ServerTypeOK
    <2>4. CASE RecvPartial(d)
        <3>1. Accumulated(d) \in UsedSlot
            BY <2>2, <2>4, AccumulatedType DEF RecvPartial
        <3>2. slots' = [slots EXCEPT ![d.key] = Accumulated(d)] /\ UNCHANGED completions
            BY <2>4 DEF RecvPartial
        <3>3. slots' \in [Keys -> UsedSlot \cup {FreeSlot}]
            BY <3>1, <3>2 DEF ServerTypeOK
        <3> QED BY <2>2, <2>4, <3>2, <3>3 DEF ServerTypeOK, RecvPartial
    <2>5. CASE RecvComplete(d)
        <3> DEFINE a == Accumulated(d)
        <3>1. a \in UsedSlot
            BY <2>2, <2>5, AccumulatedType DEF RecvComplete
        <3>2. /\ slots' = [slots EXCEPT ![d.key] = [a EXCEPT !.completed = TRUE]]
              /\ completions' = Append(completions, [key |-> d.key, sum |-> a.sum[1],
                                           contributions |-> a.contributions_received])
            BY <2>5 DEF RecvComplete
        <3>3. d.key \in Keys /\ 1 \in Lanes
            BY ServerAssumption DEF Datagram, Lanes
        <3> HIDE DEF a
        <3>4. [a EXCEPT !.completed = TRUE] \in UsedSlot
            BY <3>1 DEF UsedSlot
        <3>5. slots' \in [Keys -> UsedSlot \cup {FreeSlot}]
            BY <3>2, <3>4 DEF ServerTypeOK
        <3>6. [key |-> d.key, sum |-> a.sum[1], contributions |-> a.contributions_received]
                  \in Line
            BY <3>1, <3>3 DEF UsedSlot, Line
        <3>7. completions' \in Seq(Line)
            BY <3>2, <3>6 DEF ServerTypeOK
        <3> QED BY <2>2, <2>5, <3>5, <3>7 DEF ServerTypeOK, RecvComplete
    <2> QED BY <1>2, <2>1, <2>3, <2>4, <2>5 DEF Handle
<1> QED BY <1>1, <1>2

\* Type correctness of paramserver.c, whatever arrives.
THEOREM ServerTypeCorrect == ServerSpec => []ServerTypeOK
<1>1. ServerTypeOK /\ [\E d \in Datagram : Handle(d)]_server => ServerTypeOK'
    BY ServerStepType
<1> QED BY ServerInitType, <1>1, PTL DEF ServerSpec

-----------------------------------------------------------------------------
\* A server step keeps every reported key's slot completed and adds a line only
\* for a slot that was not: seen by its test of completed_micros (172).
LEMMA ReportedStep ==
    ASSUME ServerTypeOK, ReportedInv, [\E d \in Datagram : Handle(d)]_server
    PROVE  ReportedInv'
<1>1. CASE UNCHANGED server
    BY <1>1 DEF ReportedInv, server
<1>2. ASSUME NEW d \in Datagram, Handle(d) PROVE ReportedInv'
    <2>1. CASE UNCHANGED <<slots, completions>>
        BY <2>1 DEF ReportedInv
    <2>2. \A n \in DOMAIN completions : completions[n].key \in Keys
        <3>1. \A n \in DOMAIN completions : completions[n] \in Line
            BY DEF ServerTypeOK
        <3> QED BY <3>1 DEF Line
    <2> DEFINE a == Accumulated(d)
    <2>3. a.in_use = SlotFor(d).in_use /\ a.completed = SlotFor(d).completed
        BY SlotForType DEF Accumulated, UsedSlot
    <2>4. ASSUME slots[d.key].in_use PROVE a.in_use /\ a.completed = slots[d.key].completed
        BY <2>3, <2>4 DEF SlotFor
    <2> HIDE DEF a
    <2>5. CASE RecvPartial(d)
        <3>1. slots' = [slots EXCEPT ![d.key] = a] /\ completions' = completions
            BY <2>5 DEF RecvPartial, a
        <3>2. ASSUME NEW n \in DOMAIN completions
              PROVE  slots'[completions[n].key].in_use /\ slots'[completions[n].key].completed
            BY <2>2, <2>4, <3>1 DEF ReportedInv, ServerTypeOK
        <3> QED BY <3>1, <3>2 DEF ReportedInv
    <2>6. CASE RecvComplete(d)
        <3> DEFINE b == [a EXCEPT !.completed = TRUE]
        <3>1. /\ slots' = [slots EXCEPT ![d.key] = b]
              /\ completions' = Append(completions, [key |-> d.key, sum |-> a.sum[1],
                                           contributions |-> a.contributions_received])
            BY <2>6 DEF RecvComplete, a
        <3>2. ~a.completed
            BY <2>6 DEF RecvComplete, Completes, a
        <3>3. \A n \in DOMAIN completions : completions[n].key # d.key
            BY <2>4, <3>2 DEF ReportedInv
        <3>4. SlotFor(d).in_use
            BY SlotForType DEF UsedSlot
        <3>5. d.key \in Keys
            BY DEF Datagram
        <3>6. b.in_use /\ b.completed
            <4>1. a \in [DOMAIN a -> {a[x] : x \in DOMAIN a}] /\ DOMAIN a = DOMAIN SlotFor(d)
                BY DEF a, Accumulated
            <4> QED BY <2>3, <3>4, <4>1, SlotForType DEF UsedSlot
        <3>7. slots'[d.key] = b /\ \A k \in Keys \ {d.key} : slots'[k] = slots[k]
            BY <3>1, <3>5 DEF ServerTypeOK
        <3> HIDE DEF b
        <3>8. /\ DOMAIN completions' = 1 .. Len(completions) + 1
              /\ DOMAIN completions = 1 .. Len(completions)
              /\ \A n \in DOMAIN completions : completions'[n] = completions[n]
              /\ completions'[Len(completions) + 1].key = d.key
            BY <3>1 DEF ServerTypeOK
        <3>9. Len(completions) \in Nat
            BY DEF ServerTypeOK
        <3>10. ASSUME NEW n \in DOMAIN completions'
               PROVE  slots'[completions'[n].key].in_use /\ slots'[completions'[n].key].completed
            <4>1. CASE n \in DOMAIN completions
                <5>1. completions'[n].key \in Keys \ {d.key}
                    BY <2>2, <3>3, <3>8, <4>1
                <5> QED BY <3>7, <3>8, <4>1, <5>1 DEF ReportedInv
            <4>2. CASE n = Len(completions) + 1
                BY <3>6, <3>7, <3>8, <4>2
            <4> QED BY <3>8, <3>9, <3>10, <4>1, <4>2
        <3>11. ASSUME NEW m \in DOMAIN completions', NEW n \in DOMAIN completions',
                      completions'[m].key = completions'[n].key
               PROVE  m = n
            <4>1. CASE m \in DOMAIN completions /\ n \in DOMAIN completions
                BY <3>8, <3>11, <4>1 DEF ReportedInv
            <4>2. CASE m \notin DOMAIN completions \/ n \notin DOMAIN completions
                <5>1. ASSUME NEW i \in DOMAIN completions', i \notin DOMAIN completions
                      PROVE  i = Len(completions) + 1 /\ completions'[i].key = d.key
                    BY <3>8, <3>9, <5>1
                <5>2. ASSUME NEW i \in DOMAIN completions PROVE completions'[i].key # d.key
                    BY <3>3, <3>8
                <5> QED BY <3>11, <4>2, <5>1, <5>2
            <4> QED BY <4>1, <4>2
        <3> QED BY <3>10, <3>11 DEF ReportedInv
    <2>7. RecvRunt(d) \/ RecvMalformed(d) \/ RecvFull(d) \/ RecvDuplicate(d)
              => UNCHANGED <<slots, completions>>
        BY DEF RecvRunt, RecvMalformed, RecvFull, RecvDuplicate, server
    <2> QED BY <1>2, <2>1, <2>5, <2>6, <2>7 DEF Handle
<1> QED BY <1>1, <1>2

\* A key has at most one [complete] line.
LEMMA ReportedInvOnce == ASSUME ServerTypeOK, ReportedInv PROVE ReportedOnce
<1> SUFFICES ASSUME NEW k \in Keys PROVE Cardinality(Reported(k)) <= 1
    BY DEF ReportedOnce
<1>1. CASE Reported(k) = {}
    BY <1>1, FS_EmptySet
<1>2. CASE Reported(k) # {}
    <2>1. PICK n : n \in Reported(k)
        BY <1>2
    <2>2. Reported(k) = {n}
        BY <2>1 DEF Reported, ReportedInv
    <2> QED BY <2>2, FS_Singleton
<1> QED BY <1>1, <1>2

\* Whatever is sent to it, repeated, reopened upstream or beyond the expected
\* number of workers, the server reports a key at most once (paramserver.c:172).
THEOREM ReportedOnceHolds == ServerSpec => []ReportedOnce
<1>1. Init => ServerTypeOK /\ ReportedInv
    <2>1. Init => ReportedInv
        BY DEF Init, ReportedInv
    <2> QED BY <2>1, ServerInitType
<1>2. (ServerTypeOK /\ ReportedInv) /\ [\E d \in Datagram : Handle(d)]_server
          => (ServerTypeOK /\ ReportedInv)'
    BY ServerStepType, ReportedStep
<1>3. ServerTypeOK /\ ReportedInv => ReportedOnce
    BY ReportedInvOnce
<1> QED BY <1>1, <1>2, <1>3, PTL DEF ServerSpec

-----------------------------------------------------------------------------
(***************************************************************************)
(* The composition.                                                        *)
(***************************************************************************)
\* A datagram added to the network is in it, and nothing else is new.
LEMMA AddInFlight ==
    ASSUME NEW B, NEW x
    PROVE  BagToSet(B (+) SetToBag({x})) = BagToSet(B) \cup {x}
BY DEF (+), SetToBag, BagToSet

\* Nothing is put into the network by taking a datagram out.
LEMMA RemoveInFlight ==
    ASSUME NEW B, NEW x
    PROVE  BagToSet(B (-) SetToBag({x})) \subseteq BagToSet(B)
BY DEF (-), SetToBag, BagToSet

-----------------------------------------------------------------------------
\* What a worker or the aggregator may have in flight, or somebody else in mode
\* noagg.
Emission == [key : Keys, chunk_len : {1},
             workers : {S \in SUBSET Senders : Cardinality(S) = num_workers}]
Gradients == {Gradient(w, r) : w \in Senders, r \in 0 .. num_rounds - 1}
Sums == {Sum(e) : e \in Emission}
ToServer == IF agg_mode THEN Sums ELSE Gradients \cup Strays
Sendable ==
    {To("server", d) : d \in ToServer}
        \cup (IF agg_mode THEN {To("aggregator", d) : d \in Gradients} ELSE {})
InFlight == BagToSet(net) \subseteq Sendable

\* The aggregator's rounds are rounds of the workers' job.
Rounds == [open : {TRUE}, chunk_len : {1}, expected : {num_workers},
           members : SUBSET Senders]
AggOK == round \in [Keys -> Rounds \cup {Agg!NoRound}] /\ emitted \in Seq(Emission)

\* A slot has added exactly the workers it has seen.
SumOf(k, S) == One({<<k, w>> : w \in S})
Exact(k, s) ==
    IF agg_mode THEN 0 \in s.seen_worker
    ELSE /\ s.num_workers_expected = num_workers
         /\ s.contributions_received = Cardinality(s.seen_worker)
         /\ s.sum[1] = SumOf(k, s.seen_worker)
SlotsExact == \A k \in Keys \ Short : slots[k].in_use => Exact(k, slots[k])

\* The inductive invariant of the composition.
NetInv ==
    /\ next_round \in [Senders -> 0 .. num_rounds]
    /\ InFlight /\ AggOK /\ SlotsExact /\ ReportedExact

-----------------------------------------------------------------------------
\* Workers and rounds of the job are workers and keys of the traffic.
LEMMA SendersAre ==
    /\ Senders \subseteq Workers
    /\ \A r \in 0 .. num_rounds - 1 : KeyOf(r) \in Keys
    /\ num_workers \in Nat \ {0} /\ 1 \in Lanes
BY WorkerAssumption, ServerAssumption DEF Senders, Workers, KeyOf, Keys, Lanes

\* What a worker sends is a contribution of one lane.
LEMMA GradientIs == \A d \in Gradients : d \in Datagram /\ Contribution(d) /\ d.chunk_len = 1
<1> SUFFICES ASSUME NEW w \in Senders, NEW r \in 0 .. num_rounds - 1
             PROVE  /\ Gradient(w, r) \in Datagram /\ Contribution(Gradient(w, r))
                    /\ Gradient(w, r).chunk_len = 1
    BY DEF Gradients
<1>1. KeyOf(r) \in Keys /\ w \in Nat /\ num_workers \in Nat
    BY SendersAre DEF Senders
<1> DEFINE v == One({<<KeyOf(r), w>>})
<1>2. v \in Lane
    BY OneType
<1>3. Contribution(Gradient(w, r)) /\ Gradient(w, r).chunk_len = 1
    BY DEF Contribution, Gradient
<1>4. Gradient(w, r) = [n |-> 1, key |-> KeyOf(r), worker_id |-> w,
                        num_workers |-> num_workers, chunk_len |-> 1, value |-> v]
    BY DEF Gradient
<1> HIDE DEF v
<1> QED BY <1>1, <1>2, <1>3, <1>4 DEF Datagram

\* What the aggregator sends is the exact sum of the workers of a round.
LEMMA SumIs ==
    ASSUME NEW e \in Emission
    PROVE  /\ Sum(e) \in Datagram
           /\ Sum(e).key = e.key /\ Sum(e).worker_id = 0 /\ Sum(e).n = 1
           /\ Sum(e).chunk_len = 1 /\ Sum(e).value = SumOf(e.key, e.workers)
<1>1. e.key \in Keys /\ e.chunk_len = 1
    BY DEF Emission
<1> DEFINE v == SumOf(e.key, e.workers)
<1>2. v \in Lane
    BY OneType DEF SumOf
<1>3. Sum(e) = [n |-> 1, key |-> e.key, worker_id |-> 0, num_workers |-> 1,
                chunk_len |-> 1, value |-> v]
    BY <1>1 DEF Sum, SumOf
<1> HIDE DEF v
<1>4. Sum(e) \in Datagram
    BY <1>1, <1>2, <1>3 DEF Datagram
<1> QED BY <1>3, <1>4 DEF v

\* Everything on its way to the server is a datagram.
LEMMA ToServerIs == ToServer \subseteq Datagram
<1>1. Sums \subseteq Datagram
    BY SumIs DEF Sums
<1> QED BY <1>1, GradientIs, WorkerAssumption DEF ToServer

-----------------------------------------------------------------------------
\* A lane that is the sum of num_workers distinct workers of a key.
LEMMA SumOfExact ==
    ASSUME NEW k \in Keys, NEW S \in SUBSET Workers, Cardinality(S) = num_workers
    PROVE  ExactLane(k, SumOf(k, S))
<1> DEFINE T == {<<k, w>> : w \in S}
           lane == SumOf(k, S)
<1>1. \A t \in Tags : lane[t] = IF t \in T THEN 1 ELSE 0
    BY DEF SumOf, One
<1>2. \A t \in T : t # Unset /\ t[1] = k
    BY ServerAssumption
<1>3. \A w \in Workers : <<k, w>> \in Tags /\ (<<k, w>> \in T <=> w \in S)
    BY DEF Tags
<1>4. {w \in Workers : lane[<<k, w>>] = 1} = S
    BY <1>1, <1>3
<1>5. \A t \in Tags : lane[t] \in (IF t # Unset /\ t[1] = k THEN {0, 1} ELSE {0})
    BY <1>1, <1>2
<1> QED BY <1>4, <1>5 DEF ExactLane

\* A worker is added to the ones that are in the sum.
LEMMA SumOfPlus ==
    ASSUME NEW k, NEW S, NEW w, w \notin S
    PROVE  Plus(SumOf(k, S), One({<<k, w>>})) = SumOf(k, S \cup {w})
<1> DEFINE T == {<<k, v>> : v \in S}
           U == {<<k, v>> : v \in S \cup {w}}
           a == SumOf(k, S)
           b == One({<<k, w>>})
<1>1. /\ \A t \in Tags : a[t] = IF t \in T THEN 1 ELSE 0
      /\ \A t \in Tags : b[t] = IF t = <<k, w>> THEN 1 ELSE 0
    BY DEF SumOf, One
<1>2. <<k, w>> \notin T /\ U = T \cup {<<k, w>>}
    OBVIOUS
<1> HIDE DEF T, U, a, b
<1>3. \A t \in Tags : a[t] + b[t] = IF t \in U THEN 1 ELSE 0
    BY <1>1, <1>2
<1>4. Plus(a, b) = [t \in Tags |-> IF t \in U THEN 1 ELSE 0]
    BY <1>3 DEF Plus
<1> QED BY <1>4 DEF a, b, U, SumOf, One

\* The sum of nobody is zero, and zero adds nothing.
LEMMA SumOfNone == ASSUME NEW k PROVE Zero = SumOf(k, {})
BY DEF Zero, SumOf, One
LEMMA SumOfOne == ASSUME NEW a \in Lane PROVE Plus(Zero, a) = a
<1>1. \A t \in Tags : 0 + a[t] = a[t]
    BY DEF Lane
<1>2. \A t \in Tags : Zero[t] = 0
    BY DEF Zero
<1> QED BY <1>1, <1>2 DEF Plus, Lane

-----------------------------------------------------------------------------
\* What the loop's body does to the fields of a slot.
LEMMA AccumulatedFields ==
    ASSUME ServerTypeOK, NEW d \in Datagram
    PROVE  LET a == Accumulated(d)  s == SlotFor(d)
           IN  /\ a.seen_worker = s.seen_worker \cup {d.worker_id}
               /\ a.sum = Summed(s.sum, d)
               /\ a.contributions_received = s.contributions_received + 1
               /\ a.num_workers_expected = s.num_workers_expected
<1> DEFINE s == SlotFor(d)
           seen == s.seen_worker \cup {d.worker_id}
           sums == Summed(s.sum, d)
           count == s.contributions_received + 1
<1>1. Accumulated(d) = [s EXCEPT !.seen_worker = seen, !.sum = sums,
                                 !.contributions_received = count]
    BY DEF Accumulated
<1>2. s \in UsedSlot
    BY SlotForType
<1> HIDE DEF s, seen, sums, count
<1>3. /\ Accumulated(d).seen_worker = seen /\ Accumulated(d).sum = sums
      /\ Accumulated(d).contributions_received = count
      /\ Accumulated(d).num_workers_expected = s.num_workers_expected
    BY <1>1, <1>2 DEF UsedSlot
<1> QED BY <1>3 DEF s, seen, sums, count

\* In the first lane a datagram that has it adds its value.
LEMMA FirstLane ==
    ASSUME ServerTypeOK, NEW d \in Datagram, Receive(d), d.chunk_len >= 1, d.n >= 1
    PROVE  Accumulated(d).sum[1] = Plus(SlotFor(d).sum[1], d.value)
<1>1. Accumulated(d).sum = Summed(SlotFor(d).sum, d)
    BY AccumulatedFields
<1>2. packet'[1] = d.value
    BY SendersAre DEF Receive
<1> QED BY <1>1, <1>2, SendersAre DEF Summed

\* In mode noagg all that a slot of the job adds up are contributions.
LEMMA ContributionIs ==
    ASSUME ~agg_mode, NEW d \in ToServer, WellFormed(d), d.key \notin Short
    PROVE  Contribution(d)
<1>1. CASE d \in Gradients
    BY <1>1, GradientIs
<1>2. CASE d \in Strays
    <2>1. d.worker_id \in Workers /\ d.chunk_len <= NETSUM_MAX_CHUNK_LEN
        BY ToServerIs, ServerAssumption DEF WellFormed, Workers, Datagram
    <2>2. ~(d.n < d.chunk_len)
        BY <1>2 DEF Short
    <2>3. ~(d.chunk_len > NETSUM_MAX_CHUNK_LEN)
        BY <2>1, ToServerIs, ServerAssumption DEF Datagram
    <2> QED BY <1>2, <2>1, <2>2, <2>3, StrayAssumption
<1> QED BY <1>1, <1>2 DEF ToServer

\* Mode noagg: a contribution of a worker that was not seen.
LEMMA AddsContribution ==
    ASSUME ServerTypeOK, ~agg_mode, NEW d \in ToServer, Contribution(d),
           Receive(d), WellFormed(d), ~Duplicate(d),
           slots[d.key].in_use => Exact(d.key, slots[d.key])
    PROVE  /\ Exact(d.key, Accumulated(d))
           /\ Completes(Accumulated(d)) =>
                 ExactLane(d.key, Accumulated(d).sum[1])
<1> DEFINE k == d.key
           s == SlotFor(d)
           w == d.worker_id
           a == Accumulated(d)
<1>1. d \in Datagram
    BY ToServerIs
<1>2. d.chunk_len >= 1 /\ d.n >= 1 /\ k \in Keys
    BY <1>1 DEF Contribution, Datagram
<1>3. Exact(k, s)
    <2>1. CASE slots[k].in_use
        BY <2>1 DEF SlotFor
    <2>2. CASE ~slots[k].in_use
        <3>1. /\ s.num_workers_expected = num_workers /\ s.contributions_received = 0
              /\ s.seen_worker = {} /\ s.sum[1] = Zero
            BY <2>2, SendersAre DEF SlotFor, Contribution
        <3>2. Cardinality(s.seen_worker) = 0 /\ Zero = SumOf(k, s.seen_worker)
            BY <3>1, FS_EmptySet, SumOfNone
        <3> HIDE DEF s, k
        <3> QED BY <3>1, <3>2 DEF Exact
    <2> QED BY <2>1, <2>2
<1>4. s.seen_worker \in SUBSET Workers /\ w \notin s.seen_worker
    <2>1. s \in UsedSlot
        BY <1>1, SlotForType
    <2>2. s.seen_worker \in SUBSET Workers
        BY <2>1 DEF UsedSlot
    <2> QED BY <2>2 DEF Duplicate
<1>5. IsFiniteSet(s.seen_worker)
    <2>1. IsFiniteSet(Workers)
        BY FS_Interval, ServerAssumption DEF Workers
    <2> QED BY <1>4, <2>1, FS_Subset
<1>6. Cardinality(s.seen_worker \cup {w}) = Cardinality(s.seen_worker) + 1
    BY <1>4, <1>5, FS_AddElement
<1>7. a.sum[1] = SumOf(k, s.seen_worker \cup {w})
    <2>1. a.sum[1] = Plus(s.sum[1], d.value)
        BY <1>1, <1>2, FirstLane
    <2>2. s.sum[1] = SumOf(k, s.seen_worker) /\ d.value = One({<<k, w>>})
        BY <1>3 DEF Exact, Contribution
    <2> QED BY <1>4, <2>1, <2>2, SumOfPlus
<1>8. /\ a.seen_worker = s.seen_worker \cup {w}
      /\ a.contributions_received = s.contributions_received + 1
      /\ a.num_workers_expected = s.num_workers_expected
    BY <1>1, AccumulatedFields
<1> HIDE DEF k, s, w, a
<1>9. Exact(k, a)
    BY <1>3, <1>6, <1>7, <1>8 DEF Exact
<1>10. ASSUME Completes(a) PROVE ExactLane(k, a.sum[1])
    <2>1. a.seen_worker \in SUBSET Workers
        <3>1. d.worker_id \in Nat
            BY <1>1 DEF Datagram
        <3>2. w \in Workers
            BY <3>1, ServerAssumption DEF w, WellFormed, Workers
        <3> QED BY <1>4, <1>8, <3>2
    <2>2. Cardinality(a.seen_worker) = num_workers
        BY <1>9, <1>10 DEF Exact, Completes
    <2> QED BY <1>2, <1>7, <1>8, <2>1, <2>2, SumOfExact
<1> QED BY <1>9, <1>10 DEF k, a

\* Mode agg: the first sum of a key, and no other, is added.
LEMMA AddsSum ==
    ASSUME ServerTypeOK, agg_mode, NEW d \in ToServer, Receive(d), ~Duplicate(d),
           slots[d.key].in_use => Exact(d.key, slots[d.key])
    PROVE  Exact(d.key, Accumulated(d)) /\ ExactLane(d.key, Accumulated(d).sum[1])
<1>1. PICK e \in Emission : d = Sum(e)
    BY DEF ToServer, Sums
<1>2. /\ d \in Datagram /\ d.key = e.key /\ d.worker_id = 0 /\ d.n = 1
      /\ d.chunk_len = 1 /\ d.value = SumOf(e.key, e.workers)
    BY <1>1, SumIs
<1>3. /\ e.key \in Keys /\ e.workers \in SUBSET Workers
      /\ Cardinality(e.workers) = num_workers
    BY SendersAre DEF Emission
<1>4. ~slots[d.key].in_use
    BY <1>2 DEF Exact, Duplicate, SlotFor
<1>5. SlotFor(d).sum[1] = Zero
    BY <1>4, SendersAre DEF SlotFor
<1>6. Accumulated(d).sum[1] = d.value
    <2>1. Accumulated(d).sum[1] = Plus(Zero, d.value)
        BY <1>2, <1>5, FirstLane
    <2> QED BY <1>2, <2>1, SumOfOne DEF Datagram
<1>7. 0 \in Accumulated(d).seen_worker
    BY <1>2, AccumulatedFields
<1> QED BY <1>2, <1>3, <1>6, <1>7, SumOfExact DEF Exact

\* Either way, what is added to a slot keeps it exact, and so is what completes it.
LEMMA AddedExact ==
    ASSUME ServerTypeOK, SlotsExact, NEW d \in ToServer, d.key \notin Short,
           Receive(d), WellFormed(d), ~Duplicate(d)
    PROVE  /\ Exact(d.key, Accumulated(d))
           /\ Completes(Accumulated(d)) => ExactLane(d.key, Accumulated(d).sum[1])
<1>1. d.key \in Keys
    BY ToServerIs DEF Datagram
<1>2. slots[d.key].in_use => Exact(d.key, slots[d.key])
    BY <1>1 DEF SlotsExact
<1>3. CASE agg_mode
    BY <1>2, <1>3, AddsSum
<1>4. CASE ~agg_mode
    BY <1>2, <1>4, ContributionIs, AddsContribution
<1> QED BY <1>3, <1>4

\* A datagram of the composition leaves every slot and every report exact.
LEMMA ServerKeeps ==
    ASSUME ServerTypeOK, SlotsExact, ReportedExact, NEW d \in ToServer, Handle(d)
    PROVE  SlotsExact' /\ ReportedExact' /\ agg_mode' = agg_mode
<1>1. agg_mode' = agg_mode
    BY DEF Handle, RecvRunt, RecvMalformed, RecvFull, RecvDuplicate, RecvPartial,
           RecvComplete, Receive, server
<1>2. CASE UNCHANGED <<slots, completions>>
    BY <1>1, <1>2 DEF SlotsExact, Exact, ReportedExact
<1> DEFINE a == Accumulated(d)
<1>3. d.key \in Keys /\ slots \in [Keys -> UsedSlot \cup {FreeSlot}] /\ d \in Datagram
    BY ToServerIs DEF Datagram, ServerTypeOK
<1>4. ASSUME NEW s, slots' = [slots EXCEPT ![d.key] = s],
             d.key \notin Short => Exact(d.key, s)
      PROVE  SlotsExact'
    <2> SUFFICES ASSUME NEW k \in Keys \ Short, slots'[k].in_use PROVE Exact(k, slots[k])'
        BY DEF SlotsExact
    <2>1. CASE k = d.key
        BY <1>1, <1>3, <1>4, <2>1 DEF Exact
    <2>2. CASE k # d.key
        <3>1. slots'[k] = slots[k]
            BY <1>3, <1>4, <2>2
        <3> QED BY <1>1, <3>1 DEF SlotsExact, Exact
    <2> QED BY <2>1, <2>2
<1>5. CASE RecvPartial(d)
    <2>1. slots' = [slots EXCEPT ![d.key] = a] /\ completions' = completions
        BY <1>5 DEF RecvPartial
    <2>2. d.key \notin Short => Exact(d.key, a)
        BY <1>5, AddedExact DEF RecvPartial
    <2> HIDE DEF a
    <2> QED BY <1>1, <1>4, <2>1, <2>2 DEF ReportedExact
<1>6. CASE RecvComplete(d)
    <2> DEFINE line == [key |-> d.key, sum |-> a.sum[1],
                        contributions |-> a.contributions_received]
               b == [a EXCEPT !.completed = TRUE]
    <2>1. slots' = [slots EXCEPT ![d.key] = b] /\ completions' = Append(completions, line)
        BY <1>6 DEF RecvComplete
    <2>2. d.key \notin Short => Exact(d.key, a) /\ ExactLane(d.key, a.sum[1])
        BY <1>6, AddedExact DEF RecvComplete
    <2>3. a \in UsedSlot
        <3>1. packet' \in [Lanes -> Lane]
            <4>1. d.value \in Lane /\ packet \in [Lanes -> Lane]
                BY <1>3 DEF Datagram, ServerTypeOK
            <4> QED BY <1>6, <4>1 DEF RecvComplete, Receive
        <3> QED BY <1>3, <1>6, <3>1, AccumulatedType DEF RecvComplete
    <2> HIDE DEF a
    <2>4. d.key \notin Short => Exact(d.key, b)
        <3>1. /\ b.seen_worker = a.seen_worker /\ b.sum = a.sum
              /\ b.num_workers_expected = a.num_workers_expected
              /\ b.contributions_received = a.contributions_received
            BY <2>3 DEF UsedSlot
        <3> HIDE DEF b
        <3> QED BY <2>2, <3>1 DEF Exact
    <2>5. SlotsExact'
        BY <1>4, <2>1, <2>4
    <2>6. ReportedExact'
        <3>1. completions \in Seq(Line) /\ line.key = d.key /\ line.sum = a.sum[1]
            BY DEF ServerTypeOK
        <3> SUFFICES ASSUME NEW n \in DOMAIN completions', completions'[n].key \notin Short
                     PROVE  ExactLane(completions'[n].key, completions'[n].sum)
            BY DEF ReportedExact
        <3>2. CASE n \in DOMAIN completions
            <4>1. completions'[n] = completions[n]
                BY <2>1, <3>1, <3>2
            <4> QED BY <3>2, <4>1 DEF ReportedExact
        <3>3. CASE n \notin DOMAIN completions
            <4>1. completions'[n] = line
                BY <2>1, <3>1, <3>3
            <4> QED BY <2>2, <3>1, <4>1
        <3> QED BY <3>2, <3>3
    <2> QED BY <1>1, <2>5, <2>6
<1>7. RecvRunt(d) \/ RecvMalformed(d) \/ RecvFull(d) \/ RecvDuplicate(d)
          => UNCHANGED <<slots, completions>>
    BY DEF RecvRunt, RecvMalformed, RecvFull, RecvDuplicate, server
<1> QED BY <1>2, <1>5, <1>6, <1>7 DEF Handle

-----------------------------------------------------------------------------
\* The aggregator counts as the server does.
LEMMA SameCardinality == \A S : Agg!Cardinality(S) = Cardinality(S)
BY DEF Agg!Cardinality, Cardinality, Agg!IsFiniteSet, IsFiniteSet

\* What may be in flight does not change.
LEMMA StaysInFlight ==
    ASSUME InFlight, agg_mode' = agg_mode, NEW X \in SUBSET Sendable,
           BagToSet(net') \subseteq BagToSet(net) \cup X
    PROVE  InFlight'
<1>1. Sendable' = Sendable
    BY DEF Sendable, ToServer
<1> QED BY <1>1 DEF InFlight

\* What is sent to the server, and to the aggregator.
LEMMA AtServer == ASSUME InFlight, NEW m \in BagToSet(net), m.to = "server" PROVE m.d \in ToServer
BY DEF InFlight, Sendable, To
LEMMA AtAggregator ==
    ASSUME InFlight, NEW m \in BagToSet(net), m.to = "aggregator"
    PROVE  /\ agg_mode
           /\ m.d.key \in Keys /\ m.d.worker_id \in Senders
           /\ m.d.num_workers = num_workers /\ m.d.chunk_len = 1
<1>1. agg_mode /\ m.d \in Gradients
    BY DEF InFlight, Sendable, To
<1>2. PICK w \in Senders, r \in 0 .. num_rounds - 1 : m.d = Gradient(w, r)
    BY <1>1 DEF Gradients
<1> QED BY <1>1, <1>2, SendersAre DEF Gradient

\* The round a datagram finds or opens, and what Join makes of it.
RoundFor(d) == IF round[d.key].open THEN round[d.key] ELSE Agg!Fresh(d.num_workers, d.chunk_len)
LEMMA RoundForType ==
    ASSUME AggOK, NEW d, d.key \in Keys, d.num_workers = num_workers, d.chunk_len = 1
    PROVE  RoundFor(d) \in Rounds
<1>1. CASE round[d.key].open
    <2>1. round[d.key] # Agg!NoRound
        BY <1>1 DEF Agg!NoRound
    <2> QED BY <1>1, <2>1 DEF AggOK, RoundFor
<1>2. CASE ~round[d.key].open
    BY <1>2 DEF RoundFor, Agg!Fresh, Rounds
<1> QED BY <1>1, <1>2

\* Joining keeps the rounds of the job, and a sum that is sent on is whole.
LEMMA JoinKeeps ==
    ASSUME AggOK, NEW k \in Keys, NEW r \in Rounds, NEW w \in Senders, Agg!Join(k, r, w)
    PROVE  /\ AggOK'
           /\ emitted' # emitted => emitted'[Len(emitted')] \in Emission
<1> DEFINE members == r.members \cup {w}
           more == [r EXCEPT !.members = members]
           e == [key |-> k, chunk_len |-> r.chunk_len, workers |-> members]
<1>1. members \in SUBSET Senders /\ r.chunk_len = 1 /\ r.expected = num_workers
    BY DEF Rounds
<1>2. CASE round' = [round EXCEPT ![k] = more] /\ emitted' = emitted
    <2>1. more \in Rounds
        <3> HIDE DEF members
        <3> QED BY <1>1 DEF Rounds
    <2> HIDE DEF more
    <2> QED BY <1>2, <2>1 DEF AggOK
<1>3. CASE /\ Agg!Cardinality(members) = r.expected
           /\ round' = [round EXCEPT ![k] = Agg!NoRound]
           /\ emitted' = Append(emitted, e) \/ emitted' = emitted
    <2>1. Cardinality(members) = num_workers
        BY <1>1, <1>3, SameCardinality
    <2> HIDE DEF members
    <2>2. e \in Emission
        BY <1>1, <2>1 DEF Emission
    <2> HIDE DEF e
    <2>3. round' \in [Keys -> Rounds \cup {Agg!NoRound}]
        BY <1>3 DEF AggOK
    <2>4. emitted \in Seq(Emission)
        BY DEF AggOK
    <2>5. CASE emitted' = Append(emitted, e)
        <3>1. emitted' \in Seq(Emission) /\ emitted'[Len(emitted')] = e
            BY <2>2, <2>4, <2>5
        <3> QED BY <2>2, <2>3, <3>1 DEF AggOK
    <2> QED BY <1>3, <2>3, <2>4, <2>5 DEF AggOK
<1> QED BY <1>2, <1>3 DEF Agg!Join

-----------------------------------------------------------------------------
\* The composition starts in the invariant.
LEMMA NetInitInv == NetInit => ServerTypeOK /\ NetInv
<1> SUFFICES ASSUME NetInit PROVE ServerTypeOK /\ NetInv
    OBVIOUS
<1>1. ServerTypeOK
    BY ServerInitType DEF NetInit
<1>2. next_round \in [Senders -> 0 .. num_rounds]
    BY WorkerAssumption DEF NetInit
<1>3. InFlight
    <2>1. CASE net = EmptyBag
        BY <2>1 DEF InFlight, EmptyBag, SetToBag, BagToSet
    <2>2. ASSUME ~agg_mode, NEW d \in Strays, net = SetToBag({To("server", d)})
          PROVE  InFlight
        BY <2>2 DEF InFlight, Sendable, ToServer, SetToBag, BagToSet
    <2> QED BY <2>1, <2>2 DEF NetInit
<1>4. AggOK
    <2>1. Agg!Keys = Keys
        BY DEF Agg!Keys, Keys
    <2> QED BY <2>1 DEF NetInit, Agg!Init, AggOK
<1>5. SlotsExact
    BY DEF NetInit, Init, SlotsExact, FreeSlot
<1>6. ReportedExact
    BY DEF NetInit, Init, ReportedExact
<1> QED BY <1>1, <1>2, <1>3, <1>4, <1>5, <1>6 DEF NetInv

\* A worker sends, fails or is run again.
LEMMA WorkerStep ==
    ASSUME NetInv, NEW w \in Senders, Send(w) \/ SendFails(w) \/ RunAgain(w)
    PROVE  UNCHANGED <<server, aggregator>> /\ NetInv'
<1>1. UNCHANGED <<server, aggregator>>
    BY DEF Send, SendFails, RunAgain
<1>2. AggOK' /\ SlotsExact' /\ ReportedExact' /\ agg_mode' = agg_mode
    BY <1>1 DEF NetInv, AggOK, SlotsExact, Exact, ReportedExact, server, aggregator
<1>3. next_round[w] \in 0 .. num_rounds
    BY DEF NetInv
<1>4. next_round' \in [Senders -> 0 .. num_rounds]
    <2>1. PICK r \in 0 .. num_rounds : next_round' = [next_round EXCEPT ![w] = r]
        BY <1>3, WorkerAssumption DEF Send, SendFails, RunAgain
    <2> QED BY <2>1 DEF NetInv
<1>5. InFlight'
    <2>1. CASE net' = net
        BY <1>2, <2>1, StaysInFlight DEF NetInv
    <2>2. CASE Send(w)
        <3> DEFINE d == Gradient(w, next_round[w])
                   x == To(IF agg_mode THEN "aggregator" ELSE "server", d)
        <3>1. net' = net (+) SetToBag({x})
            BY <2>2 DEF Send
        <3>2. BagToSet(net') = BagToSet(net) \cup {x}
            BY <3>1, AddInFlight
        <3>3. d \in Gradients
            BY <1>3, <2>2, WorkerAssumption DEF Send, Gradients
        <3>4. x \in Sendable
            BY <3>3 DEF Sendable, ToServer
        <3> HIDE DEF x
        <3> QED BY <1>2, <3>2, <3>4, StaysInFlight DEF NetInv
    <2> QED BY <2>1, <2>2 DEF SendFails, RunAgain
<1> QED BY <1>1, <1>2, <1>4, <1>5 DEF NetInv

\* A datagram is lost on the way.
LEMMA LoseStep == ASSUME NetInv, Lose PROVE UNCHANGED <<server, aggregator>> /\ NetInv'
<1>1. UNCHANGED <<server, aggregator, workers>>
    BY DEF Lose
<1>2. AggOK' /\ SlotsExact' /\ ReportedExact' /\ agg_mode' = agg_mode
    BY <1>1 DEF NetInv, AggOK, SlotsExact, Exact, ReportedExact, server, aggregator
<1>3. BagToSet(net') \subseteq BagToSet(net)
    BY RemoveInFlight DEF Lose
<1>4. InFlight'
    BY <1>2, <1>3, StaysInFlight DEF NetInv
<1> QED BY <1>1, <1>2, <1>4 DEF NetInv, workers

\* The aggregator receives a gradient: it joins, in the round of its key, the
\* workers that were seen, or is one of them.
LEMMA AggReceiveStep ==
    ASSUME NetInv, AggReceive
    PROVE  /\ UNCHANGED server /\ NetInv'
           /\ \/ UNCHANGED aggregator
              \/ \E d : /\ d.key \in Keys /\ d.worker_id \in Senders
                       /\ d.num_workers = num_workers /\ d.chunk_len = 1
                       /\ Agg!Join(d.key, RoundFor(d), d.worker_id)
<1>1. PICK m \in BagToSet(net) :
          /\ m.to = "aggregator"
          /\ \/ /\ Agg!Join(m.d.key, RoundFor(m.d), m.d.worker_id)
                /\ net' = IF emitted' = emitted THEN net (-) SetToBag({m})
                          ELSE (net (-) SetToBag({m}))
                               (+) SetToBag({To("server", Sum(emitted'[Len(emitted')]))})
             \/ /\ net' = net (-) SetToBag({m})
                /\ UNCHANGED aggregator
          /\ UNCHANGED <<server, workers>>
    BY DEF AggReceive, RoundFor
<1>2. /\ agg_mode /\ m.d.key \in Keys /\ m.d.worker_id \in Senders
      /\ m.d.num_workers = num_workers /\ m.d.chunk_len = 1
    BY <1>1, AtAggregator DEF NetInv
<1>3. /\ SlotsExact' /\ ReportedExact' /\ agg_mode' = agg_mode
      /\ next_round' \in [Senders -> 0 .. num_rounds]
    BY <1>1 DEF NetInv, SlotsExact, Exact, ReportedExact, server, workers
<1> DEFINE rest == net (-) SetToBag({m})
<1>4. BagToSet(rest) \subseteq BagToSet(net)
    BY RemoveInFlight
<1> HIDE DEF rest
<1>5. CASE UNCHANGED aggregator /\ net' = rest
    <2>1. AggOK'
        BY <1>5 DEF NetInv, AggOK, aggregator
    <2>2. InFlight'
        BY <1>3, <1>4, <1>5, StaysInFlight DEF NetInv
    <2> QED BY <1>1, <1>3, <1>5, <2>1, <2>2 DEF NetInv
<1>6. CASE Agg!Join(m.d.key, RoundFor(m.d), m.d.worker_id)
    <2> DEFINE x == To("server", Sum(emitted'[Len(emitted')]))
    <2>1. RoundFor(m.d) \in Rounds
        BY <1>2, RoundForType DEF NetInv
    <2>2. AggOK' /\ (emitted' # emitted => emitted'[Len(emitted')] \in Emission)
        BY <1>2, <1>6, <2>1, JoinKeeps DEF NetInv
    <2>3. emitted' # emitted => x \in Sendable
        BY <1>2, <2>2 DEF Sendable, ToServer, Sums
    <2>4. CASE net' = rest
        <3>1. InFlight'
            BY <1>3, <1>4, <2>4, StaysInFlight DEF NetInv
        <3> QED BY <1>1, <1>2, <1>3, <1>6, <2>2, <3>1 DEF NetInv
    <2>5. CASE emitted' # emitted /\ net' = rest (+) SetToBag({x})
        <3> HIDE DEF x
        <3>1. BagToSet(net') \subseteq BagToSet(net) \cup {x}
            BY <1>4, <2>5, AddInFlight
        <3>2. InFlight'
            BY <1>3, <2>3, <2>5, <3>1, StaysInFlight DEF NetInv
        <3> QED BY <1>1, <1>2, <1>3, <1>6, <2>2, <3>2 DEF NetInv
    <2>6. ~Agg!Join(m.d.key, RoundFor(m.d), m.d.worker_id) \/ net' = rest
              \/ (emitted' # emitted /\ net' = rest (+) SetToBag({x}))
              \/ (UNCHANGED aggregator /\ net' = rest)
        BY <1>1 DEF rest
    <2> QED BY <1>5, <1>6, <2>4, <2>5, <2>6
<1> QED BY <1>1, <1>5, <1>6 DEF rest

\* The reaper takes rounds away.
LEMMA AbandonStep == ASSUME NetInv, AggAbandon PROVE UNCHANGED server /\ NetInv'
<1>1. UNCHANGED <<server, workers, net>>
    BY DEF AggAbandon
<1>2. SlotsExact' /\ ReportedExact' /\ agg_mode' = agg_mode
    BY <1>1 DEF NetInv, SlotsExact, Exact, ReportedExact, server
<1>3. AggOK'
    <2>1. Agg!Keys = Keys
        BY DEF Agg!Keys, Keys
    <2>2. PICK S \in SUBSET Keys :
              round' = [k \in Keys |-> IF k \in S THEN Agg!NoRound ELSE round[k]]
        BY <2>1 DEF AggAbandon, Agg!Abandon
    <2>3. emitted' = emitted
        BY DEF AggAbandon, Agg!Abandon
    <2> QED BY <2>2, <2>3 DEF NetInv, AggOK
<1>4. InFlight'
    BY <1>1, <1>2, StaysInFlight DEF NetInv
<1> QED BY <1>1, <1>2, <1>3, <1>4 DEF NetInv, workers

\* The server receives what was sent to it.
LEMMA ServerReceiveStep ==
    ASSUME ServerTypeOK, NetInv, ServerReceive
    PROVE  (\E d \in Datagram : Handle(d)) /\ UNCHANGED aggregator /\ NetInv'
<1>1. PICK m \in BagToSet(net) :
          /\ m.to = "server" /\ Handle(m.d) /\ net' = net (-) SetToBag({m})
          /\ UNCHANGED <<workers, aggregator>>
    BY DEF ServerReceive
<1>2. m.d \in ToServer
    BY <1>1, AtServer DEF NetInv
<1>3. m.d \in Datagram
    BY <1>2, ToServerIs
<1>4. SlotsExact' /\ ReportedExact' /\ agg_mode' = agg_mode
    BY <1>1, <1>2, ServerKeeps DEF NetInv
<1>5. InFlight'
    BY <1>1, <1>4, RemoveInFlight, StaysInFlight DEF NetInv
<1>6. AggOK' /\ next_round' \in [Senders -> 0 .. num_rounds]
    BY <1>1 DEF NetInv, AggOK, aggregator, workers
<1> QED BY <1>1, <1>3, <1>4, <1>5, <1>6 DEF NetInv

\* Every step of the composition keeps the invariant, and is a step of the server
\* as it is by itself, or none of its.
LEMMA NetStep ==
    ASSUME ServerTypeOK, NetInv, [NetNext]_vars
    PROVE  [\E d \in Datagram : Handle(d)]_server /\ (ServerTypeOK /\ NetInv)'
<1>1. [\E d \in Datagram : Handle(d)]_server /\ NetInv'
    <2>1. CASE UNCHANGED vars
        BY <2>1, StaysInFlight
           DEF vars, server, NetInv, AggOK, SlotsExact, Exact, ReportedExact
    <2> QED BY <2>1, WorkerStep, LoseStep, AggReceiveStep, AbandonStep, ServerReceiveStep
            DEF NetNext
<1>2. ServerTypeOK'
    BY <1>1, ServerStepType
<1> QED BY <1>1, <1>2

\* The invariant holds throughout.
LEMMA NetInductive == NetSpec => [](ServerTypeOK /\ NetInv)
<1>1. ServerTypeOK /\ NetInv /\ [NetNext]_vars => (ServerTypeOK /\ NetInv)'
    BY NetStep
<1> QED BY NetInitInv, <1>1, PTL DEF NetSpec

\* Whatever is lost, reordered, repeated, refused, abandoned or reopened on the
\* way, in both modes, a [complete] line is the sum of as many distinct workers as
\* the job has, each once (agg.c:3-7, paramserver.c:1-16).
THEOREM ReportedExactHolds == NetSpec => []ReportedExact
<1>1. NetInv => ReportedExact
    BY DEF NetInv
<1> QED BY NetInductive, <1>1, PTL

\* In its surroundings the server does what it does by itself, so that all that is
\* proved of ServerSpec holds in the composition: its types and ReportedOnce.
THEOREM NetServerImplements == NetSpec => ServerSpec
<1>1. NetInit => Init
    BY DEF NetInit
<1>2. ServerTypeOK /\ NetInv /\ [NetNext]_vars => [\E d \in Datagram : Handle(d)]_server
    BY NetStep
<1> QED BY <1>1, <1>2, NetInductive, PTL DEF NetSpec, ServerSpec

\* With everything around it, too, the server reports a key at most once and keeps
\* its types (paramserver.c:172).
THEOREM NetReportedOnce == NetSpec => [](ServerTypeOK /\ ReportedOnce)
BY NetServerImplements, ServerTypeCorrect, ReportedOnceHolds, PTL

-----------------------------------------------------------------------------
\* A gradient's joining is a step the abstract aggregator takes: the round it finds
\* open, or one that it may open.
LEMMA JoinIsAggregation ==
    ASSUME NetInv, NEW d, d.key \in Keys, d.worker_id \in Senders,
           d.num_workers = num_workers, d.chunk_len = 1,
           Agg!Join(d.key, RoundFor(d), d.worker_id)
    PROVE  Agg!Next
<1> DEFINE k == d.key
           w == d.worker_id
<1>1. k \in Agg!Keys /\ w \in Workers
    BY SendersAre DEF Agg!Keys, Keys
<1>2. CASE round[k].open
    <2>1. Agg!JoinRound(k)
        BY <1>1, <1>2 DEF Agg!JoinRound, RoundFor
    <2> QED BY <1>1, <2>1 DEF Agg!Next
<1>3. CASE ~round[k].open
    <2>1. Agg!MayOpen(k)
        BY DEF Agg!MayOpen
    <2>2. Cardinality(Workers) = MAX_TRACKED_WORKERS
        BY ServerAssumption, FS_Interval DEF Workers
    <2>3. num_workers \in 1 .. Agg!Cardinality(Workers)
        BY <2>2, SameCardinality, WorkerAssumption
    <2>4. 1 \in 0 .. NETSUM_MAX_CHUNK_LEN
        BY ServerAssumption
    <2>5. Agg!Join(k, Agg!Fresh(num_workers, 1), w)
        BY <1>3 DEF RoundFor
    <2>6. Agg!OpenRound(k)
        BY <1>1, <1>3, <2>1, <2>3, <2>4, <2>5 DEF Agg!OpenRound
    <2> QED BY <1>1, <2>6 DEF Agg!Next
<1> QED BY <1>2, <1>3

\* The aggregator of the composition is the one UserAgg and XdpAgg implement: fed by
\* the network, it takes no step that Aggregation does not allow, so that what is
\* proved here of NetSum rests on what is proved of the two programs
\* (agg.c:2-25, xdp_agg.c:1-20).
THEOREM NetAggregates == NetSpec => Agg!Spec
<1>1. NetInit => Agg!Init
    BY DEF NetInit
<1>2. ASSUME NetInv, [NetNext]_vars PROVE [Agg!Next]_<<round, emitted>>
    <2>1. CASE UNCHANGED vars
        BY <2>1 DEF vars
    <2>2. CASE AggAbandon
        BY <2>2 DEF AggAbandon, Agg!Next
    <2>3. CASE AggReceive
        BY <1>2, <2>3, AggReceiveStep, JoinIsAggregation DEF aggregator
    <2>4. CASE ServerReceive \/ Lose
        BY <2>4 DEF ServerReceive, Lose, aggregator
    <2>5. CASE \E w \in Senders : Send(w) \/ SendFails(w) \/ RunAgain(w)
        BY <2>5 DEF Send, SendFails, RunAgain, aggregator
    <2> QED BY <1>2, <2>1, <2>2, <2>3, <2>4, <2>5 DEF NetNext
<1> QED BY <1>1, <1>2, NetInductive, PTL DEF NetSpec, Agg!Spec
=============================================================================
