---------------------------- MODULE LaneSumProofs ----------------------------
(***************************************************************************)
(* Proofs about LaneSum, for every number of workers, every gradient and   *)
(* every route.  DataInv ties each piece of data in flight to the integer  *)
(* it stands for, modulo 2^32; BoundInv bounds the integers themselves.    *)
(***************************************************************************)
EXTENDS LaneSum, GradProtoProofs, FiniteSetTheorems

\* What a lane is read as is what was written.
LEMMA ReadBack ==
    ASSUME NEW x \in Int32
    PROVE  /\ Written(x) \in Lane /\ WrittenBySlot(x) \in Lane
           /\ ReadByLibc(Written(x)) = x /\ ReadBySlot(Written(x)) = x
           /\ ReadByLibc(WrittenBySlot(x)) = x
<1>1. Unsigned(x) \in Uint32 /\ Signed(Unsigned(x)) = x
  <2>1. x \in Int
    BY HalfFacts, SMT DEF Int32, INT_MIN, INT_MAX
  <2>2. QED BY <2>1, Casts
<1> DEFINE u == Unsigned(x)  v == ntohl(u)
<1>2. /\ v \in Uint32 /\ ntohl(v) = u
      /\ netsum_bpf_ntohl(u) = v /\ netsum_bpf_ntohl(v) = u
  BY <1>1, SwapsAgree
<1>3. Store(v) \in Lane /\ Load(Store(v)) = v
  BY <1>2, MemoryKeeps
<1>4. Written(x) = Store(v) /\ WrittenBySlot(x) = Store(v)
  BY <1>2 DEF Written, WrittenBySlot
<1>5. Signed(ntohl(Load(Store(v)))) = x /\ Signed(netsum_bpf_ntohl(Load(Store(v)))) = x
  BY <1>1, <1>2, <1>3
<1>6. QED BY <1>3, <1>4, <1>5 DEF ReadByLibc, ReadByBpf, ReadBySlot

-----------------------------------------------------------------------------
(***************************************************************************)
(* The invariant: types; what is in flight is what was meant; and the sum  *)
(* agrees with the integers it stands for, modulo 2^32.                    *)
(***************************************************************************)
Typed ==
    /\ route \in Routes /\ num_workers \in Nat \ {0} /\ max_abs_grad \in Nat
    /\ bounded \in BOOLEAN
    /\ lanes \in [Senders -> Lane \cup {NoLane}]
    /\ seen \in SUBSET Senders
    /\ sum \in Int32
    /\ sent_on \in Lane \cup {NoLane}
    /\ reported \in Int32 \cup {NoLane}
    /\ gradient \in [Senders -> Int] /\ fixed \in [Senders -> Int32]
    /\ real \in Int /\ total \in Int

Meant == \A w \in Senders : lanes[w] # NoLane => lanes[w] = Written(fixed[w])
Arrived == \A w \in seen : lanes[w] # NoLane
Complete == Cardinality(seen) = num_workers
Agrees ==
    /\ Unsigned(sum) = Unsigned(total)
    /\ sent_on # NoLane => Complete /\ sent_on = WrittenBySlot(sum)
    /\ reported # NoLane => Complete /\ Unsigned(reported) = Unsigned(total)
DataInv == Typed /\ Meant /\ Arrived /\ Agrees

LEMMA CardinalitySeen ==
    ASSUME Typed
    PROVE  /\ IsFiniteSet(seen) /\ Cardinality(seen) \in Nat
           /\ Cardinality(seen) <= num_workers
           /\ \A w \in Senders \ seen :
                 /\ Cardinality(seen) < num_workers
                 /\ Cardinality(seen \cup {w}) = Cardinality(seen) + 1
<1>1. IsFiniteSet(Senders) /\ Cardinality(Senders) = num_workers
  <2>1. num_workers \in Nat /\ num_workers > 0 /\ num_workers - 1 \in Int /\ 0 \in Int
    BY SMT DEF Typed
  <2>2. IsFiniteSet(0 .. num_workers - 1)
        /\ Cardinality(0 .. num_workers - 1) =
              IF 0 > num_workers - 1 THEN 0 ELSE (num_workers - 1) - 0 + 1
    BY <2>1, FS_Interval
  <2>3. QED BY <2>1, <2>2, SMT DEF Senders
<1>2. /\ IsFiniteSet(seen) /\ Cardinality(seen) \in Nat
      /\ Cardinality(seen) <= num_workers
  BY <1>1, FS_Subset, FS_CardinalityType DEF Typed
<1>3. ASSUME NEW w \in Senders \ seen
      PROVE  /\ Cardinality(seen) < num_workers
             /\ Cardinality(seen \cup {w}) = Cardinality(seen) + 1
  <2>1. Cardinality(seen \cup {w}) = Cardinality(seen) + 1
    BY <1>2, FS_AddElement
  <2>2. seen \cup {w} \subseteq Senders
    BY DEF Typed
  <2>3. Cardinality(seen \cup {w}) <= num_workers
    BY <1>1, <2>2, FS_Subset
  <2>4. num_workers \in Nat
    BY DEF Typed
  <2>5. QED BY <1>2, <2>1, <2>3, <2>4, SMT
<1>4. QED BY <1>2, <1>3

LEMMA DataInit == Init => DataInv
<1>1. SUFFICES ASSUME Init PROVE DataInv
  OBVIOUS
<1>2. 0 \in Int32
  BY HalfFacts, SMT DEF Int32, INT_MIN, INT_MAX
<1>3. Typed
  BY <1>1, <1>2, LaneAssumption DEF Init, Typed
<1>4. QED BY <1>1, <1>3 DEF DataInv, Meant, Arrived, Agrees, Init

LEMMA SendKeepsData ==
    ASSUME DataInv, NEW w \in Senders, Send(w)
    PROVE  DataInv'
<1> USE DEF DataInv
<1>0. PICK v \in Gradients :
        /\ gradient' = [gradient EXCEPT ![w] = v]
        /\ bounded' = (bounded /\ -max_abs_grad <= v /\ v <= max_abs_grad)
        /\ \E q \in netsum_to_fixed(v) :
              /\ fixed' = [fixed EXCEPT ![w] = q]
              /\ lanes' = [lanes EXCEPT ![w] = Written(q)]
  BY DEF Send
<1>1. PICK q \in netsum_to_fixed(v) :
        /\ fixed' = [fixed EXCEPT ![w] = q]
        /\ lanes' = [lanes EXCEPT ![w] = Written(q)]
  BY <1>0
<1>2. v \in Int /\ q \in Int32
  BY LaneAssumption, Quantised
<1>3. Written(q) \in Lane
  BY <1>2, ReadBack
<1>4. /\ UNCHANGED <<deployment, seen, sum, sent_on, reported, real, total>>
      /\ Senders' = Senders /\ lanes[w] = NoLane
  BY DEF Send, deployment, Senders
<1>5. Typed'
  <2>1. bounded' \in BOOLEAN
    BY <1>0
  <2>2. lanes' \in [Senders -> Lane \cup {NoLane}]
    BY <1>1, <1>3 DEF Typed
  <2>3. gradient' \in [Senders -> Int] /\ fixed' \in [Senders -> Int32]
    BY <1>0, <1>1, <1>2 DEF Typed
  <2>4. QED BY <1>4, <2>1, <2>2, <2>3 DEF Typed, deployment
<1>6. Meant'
  BY <1>1, <1>4 DEF Meant, Typed
<1>7. Arrived'
  BY <1>1, <1>4 DEF Arrived, Typed
<1>8. Agrees'
  BY <1>4 DEF Agrees, Complete, WrittenBySlot, deployment
<1>9. QED BY <1>5, <1>6, <1>7, <1>8

LEMMA AddKeepsData ==
    ASSUME DataInv, NEW w \in Senders, Add(w)
    PROVE  DataInv'
<1> USE DEF DataInv
<1>1. /\ UNCHANGED <<deployment, bounded, lanes, gradient, fixed>>
      /\ Senders' = Senders
      /\ w \in Senders \ seen /\ lanes[w] # NoLane
      /\ seen' = seen \cup {w}
  BY DEF Add, deployment, Senders
<1>2. fixed[w] \in Int32 /\ gradient[w] \in Int /\ lanes[w] = Written(fixed[w])
  BY <1>1 DEF Typed, Meant
<1>3. Int32 \subseteq Int
  BY HalfFacts, SMT DEF Int32, INT_MIN, INT_MAX
<1>int. sum \in Int /\ total \in Int /\ real \in Int /\ fixed[w] \in Int
  BY <1>2, <1>3 DEF Typed
<1>4. ReadBySlot(lanes[w]) = fixed[w]
  BY <1>2, ReadBack
<1>5. sum' = Plus32(sum, fixed[w]) /\ total' = total + fixed[w] /\ real' = real + gradient[w]
  BY <1>4 DEF Add
<1>6. sum' \in Int32 /\ total' \in Int /\ real' \in Int
  <2>1. sum + fixed[w] \in Int /\ total + fixed[w] \in Int /\ real + gradient[w] \in Int
    BY <1>2, <1>3, <1>int, SMT
  <2>2. QED BY <1>5, <2>1, Casts DEF Plus32
<1>7. Unsigned(sum') = Unsigned(total')
  <2>1. Unsigned(sum) = Unsigned(total)
    BY DEF Agrees
  <2>2. QED BY <1>int, <1>5, <2>1, SumModular
<1>8. Cardinality(seen) + 1 <= num_workers /\ Cardinality(seen') = Cardinality(seen) + 1
  BY <1>1, CardinalitySeen, SMT DEF Typed
<1>9. sent_on = NoLane /\ reported = NoLane
  BY <1>1, CardinalitySeen DEF Agrees, Complete, Typed
<1>10. /\ sent_on' \in Lane \cup {NoLane}
       /\ sent_on' # NoLane => Complete' /\ sent_on' = WrittenBySlot(sum')
  <2>1. sent_on' = sent_on \/ (Complete' /\ sent_on' = WrittenBySlot(sum'))
    BY <1>1, <1>8 DEF Add, Complete, deployment
  <2>2. QED BY <2>1, <1>9, <1>6, ReadBack
<1>11. /\ reported' \in Int32 \cup {NoLane}
       /\ reported' # NoLane => Complete' /\ reported' = sum'
  <2>1. reported' = reported \/ (Complete' /\ reported' = sum')
    BY <1>1, <1>8 DEF Add, Complete, deployment
  <2>2. QED BY <2>1, <1>9, <1>6
<1>12. WrittenBySlot(sum') = WrittenBySlot(sum)'
  BY <1>1 DEF WrittenBySlot, deployment
<1>13. Typed'
  <2>1. seen' \in SUBSET Senders
    BY <1>1 DEF Typed
  <2>2. QED BY <1>1, <1>6, <1>10, <1>11, <2>1 DEF Typed, deployment
<1>14. Meant' /\ Arrived'
  BY <1>1 DEF Meant, Arrived
<1>15. Agrees'
  BY <1>7, <1>10, <1>11, <1>12 DEF Agrees
<1>16. QED BY <1>13, <1>14, <1>15

LEMMA ReportKeepsData ==
    ASSUME DataInv, Report
    PROVE  DataInv'
<1> USE DEF DataInv
<1>1. /\ UNCHANGED <<deployment, bounded, lanes, seen, sum, sent_on, gradient, fixed,
                     real, total>>
      /\ Senders' = Senders
      /\ sent_on # NoLane
      /\ reported' = Plus32(0, ReadByLibc(sent_on))
  BY DEF Report, deployment, Senders
<1>2. Complete /\ ReadByLibc(sent_on) = sum /\ sum \in Int32
  BY <1>1, ReadBack DEF Agrees, Typed
<1>3. reported' = sum
  <2>1. 0 + sum = sum
    BY <1>2, HalfFacts, SMT DEF Int32, INT_MIN, INT_MAX
  <2>2. QED BY <1>1, <1>2, <2>1, Casts DEF Plus32
<1>4. Typed'
  BY <1>1, <1>2, <1>3 DEF Typed, deployment
<1>5. Meant' /\ Arrived'
  BY <1>1 DEF Meant, Arrived
<1>6. Agrees'
  BY <1>1, <1>2, <1>3 DEF Agrees, Complete, WrittenBySlot, deployment
<1>7. QED BY <1>4, <1>5, <1>6

LEMMA DataStep == DataInv /\ [Next]_vars => DataInv'
<1>1. SUFFICES ASSUME DataInv, [Next]_vars PROVE DataInv'
  OBVIOUS
<1>2. CASE Report
  BY <1>1, <1>2, ReportKeepsData
<1>3. ASSUME NEW w \in Senders, Send(w) PROVE DataInv'
  BY <1>1, <1>3, SendKeepsData
<1>4. ASSUME NEW w \in Senders, Add(w) PROVE DataInv'
  BY <1>1, <1>4, AddKeepsData
<1>5. CASE UNCHANGED vars
  BY <1>1, <1>5 DEF vars, deployment, DataInv, Typed, Meant, Arrived, Agrees, Complete,
                    Senders, WrittenBySlot
<1>6. QED BY <1>1, <1>2, <1>3, <1>4, <1>5 DEF Next

\* Every lane in flight is what its sender meant, and every accumulator is the
\* integer sum of its contributions modulo 2^32 (worker.c:99-119, agg.c:501-543,
\* xdp_agg.c:506-551).
THEOREM DataCorrect == Spec => []DataInv
  BY DataInit, DataStep, PTL DEF Spec

\* Whatever the deployment, the gradients and the order of arrival, what is
\* reported is the integer sum modulo 2^32 (paramserver.c:165-180).
THEOREM ReportedModularHolds == Spec => []ReportedModular
<1>1. DataInv => ReportedModular
  BY DEF DataInv, Agrees, ReportedModular
<1>2. QED BY <1>1, DataCorrect, PTL

-----------------------------------------------------------------------------
(***************************************************************************)
(* Below the bound: every contribution is at most max_abs_grad, and within *)
(* one ULP of its gradient; so are their sums, per contribution.           *)
(***************************************************************************)
Within(x, m) == x <= m /\ -m <= x
Safe == Fits /\ bounded
MaxFixed == max_abs_grad * SCALE
BoundInv ==
    Safe =>
        /\ \A w \in Senders : lanes[w] # NoLane =>
              /\ Within(fixed[w] * Unit, MaxFixed)
              /\ Within((fixed[w] * Unit) - (gradient[w] * SCALE), Unit - 1)
        /\ Within(total * Unit, Cardinality(seen) * MaxFixed)
        /\ Within((total * Unit) - (real * SCALE), Cardinality(seen) * (Unit - 1))

\* One more of at most m.
LEMMA OneMore ==
    ASSUME NEW x \in Int, NEW y \in Int, NEW c \in Nat, NEW m \in Int,
           Within(x, c * m), Within(y, m)
    PROVE  Within(x + y, (c + 1) * m)
<1> DEFINE p == c * m
<1>1. (c + 1) * m = p + m /\ p \in Int
  BY SMT
<1>2. x <= p /\ -p <= x /\ y <= m /\ -m <= y
  BY DEF Within
<1> HIDE DEF p
<1>3. QED BY <1>1, <1>2, SMT DEF Within

LEMMA UnitFacts == Unit \in Int /\ SCALE \in Int /\ Unit > 0 /\ SCALE > 0
  BY ScaleAssumption

LEMMA BoundInit == Init => BoundInv
<1>1. SUFFICES ASSUME Init PROVE BoundInv
  OBVIOUS
<1>2. \A w \in Senders : lanes[w] = NoLane
  BY <1>1 DEF Init
<1>3. Cardinality(seen) = 0 /\ total = 0 /\ real = 0
  BY <1>1, FS_EmptySet DEF Init
<1>4. MaxFixed \in Int
  BY <1>1, LaneAssumption, UnitFacts, SMT DEF Init, MaxFixed
<1>5. /\ 0 * Unit = 0 /\ 0 * MaxFixed = 0 /\ (0 * Unit) - (0 * SCALE) = 0
      /\ 0 * (Unit - 1) = 0
  BY <1>4, UnitFacts, SMT
<1>6. Within(0, 0)
  BY SMT DEF Within
<1>7. QED BY <1>2, <1>3, <1>5, <1>6 DEF BoundInv

LEMMA SendKeepsBound ==
    ASSUME DataInv, BoundInv, NEW w \in Senders, Send(w)
    PROVE  BoundInv'
<1>0. PICK v \in Gradients :
        /\ gradient' = [gradient EXCEPT ![w] = v]
        /\ bounded' = (bounded /\ -max_abs_grad <= v /\ v <= max_abs_grad)
        /\ \E q \in netsum_to_fixed(v) :
              /\ fixed' = [fixed EXCEPT ![w] = q]
              /\ lanes' = [lanes EXCEPT ![w] = Written(q)]
  BY DEF Send
<1>1. PICK q \in netsum_to_fixed(v) :
        /\ fixed' = [fixed EXCEPT ![w] = q]
        /\ lanes' = [lanes EXCEPT ![w] = Written(q)]
  BY <1>0
<1>2. /\ UNCHANGED <<deployment, seen, real, total>>
      /\ Senders' = Senders /\ Fits' = Fits /\ MaxFixed' = MaxFixed
  BY DEF Send, deployment, Senders, Fits, MaxFixed
<1>3. SUFFICES ASSUME Safe' PROVE BoundInv'
  BY DEF BoundInv
<1>4. Safe /\ Within(v, max_abs_grad)
  BY <1>0, <1>2, <1>3 DEF Safe, Within, DataInv, Typed
<1>5. v \in Int /\ q \in Int32 /\ Int32 \subseteq Int
  BY LaneAssumption, Quantised, HalfFacts, SMT DEF Int32, INT_MIN, INT_MAX
<1>6. Within(q * Unit, MaxFixed) /\ Within((q * Unit) - (v * SCALE), Unit - 1)
  <2>1. /\ num_workers \in Nat \ {0} /\ max_abs_grad \in Nat
        /\ netsum_sum_fits_i32(num_workers, max_abs_grad)
        /\ -max_abs_grad <= v /\ v <= max_abs_grad
    BY <1>4 DEF Safe, Fits, Within, DataInv, Typed
  <2>2. /\ q * Unit <= MaxFixed /\ -MaxFixed <= q * Unit
        /\ (q * Unit) - (v * SCALE) <= Unit - 1
        /\ (v * SCALE) - (q * Unit) <= Unit - 1
    BY <1>5, <2>1, Quantised DEF MaxFixed
  <2> DEFINE x == q * Unit  y == v * SCALE
  <2>3. x \in Int /\ y \in Int /\ Unit \in Int
    BY <1>5, UnitFacts, SMT
  <2> HIDE DEF x, y
  <2>4. x - y <= Unit - 1 /\ y - x <= Unit - 1
    BY <2>2 DEF x, y
  <2>5. -(Unit - 1) <= x - y
    BY <2>3, <2>4, SMT
  <2>6. QED BY <2>2, <2>4, <2>5 DEF Within, x, y
<1>7. ASSUME NEW u \in Senders, lanes'[u] # NoLane
      PROVE  /\ Within(fixed'[u] * Unit, MaxFixed)
             /\ Within((fixed'[u] * Unit) - (gradient'[u] * SCALE), Unit - 1)
  <2>1. CASE u = w
    <3>1. fixed'[u] = q /\ gradient'[u] = v
      BY <2>1, <1>0, <1>1 DEF DataInv, Typed
    <3>2. QED BY <3>1, <1>6
  <2>2. CASE u # w
    <3>1. fixed'[u] = fixed[u] /\ gradient'[u] = gradient[u] /\ lanes'[u] = lanes[u]
      BY <2>2, <1>0, <1>1 DEF DataInv, Typed
    <3>2. QED BY <3>1, <1>4, <1>7 DEF BoundInv
  <2>3. QED BY <2>1, <2>2
<1>8. /\ Within(total * Unit, Cardinality(seen) * MaxFixed)
      /\ Within((total * Unit) - (real * SCALE), Cardinality(seen) * (Unit - 1))
  BY <1>4 DEF BoundInv
<1>9. QED BY <1>2, <1>7, <1>8 DEF BoundInv

LEMMA AddKeepsBound ==
    ASSUME DataInv, BoundInv, NEW w \in Senders, Add(w)
    PROVE  BoundInv'
<1>1. /\ UNCHANGED <<deployment, bounded, lanes, gradient, fixed>>
      /\ Senders' = Senders /\ Safe' = Safe /\ MaxFixed' = MaxFixed
      /\ w \in Senders \ seen /\ lanes[w] # NoLane
      /\ seen' = seen \cup {w}
      /\ total' = total + fixed[w] /\ real' = real + gradient[w]
  BY DEF Add, deployment, Senders, Safe, Fits, MaxFixed
<1>2. SUFFICES ASSUME Safe PROVE BoundInv'
  BY <1>1 DEF BoundInv
<1>3. /\ Within(fixed[w] * Unit, MaxFixed)
      /\ Within((fixed[w] * Unit) - (gradient[w] * SCALE), Unit - 1)
      /\ Within(total * Unit, Cardinality(seen) * MaxFixed)
      /\ Within((total * Unit) - (real * SCALE), Cardinality(seen) * (Unit - 1))
  BY <1>1, <1>2 DEF BoundInv
<1>4. /\ fixed[w] \in Int /\ gradient[w] \in Int /\ total \in Int /\ real \in Int
      /\ MaxFixed \in Int /\ Unit \in Int /\ SCALE \in Int
  <2>1. Int32 \subseteq Int
    BY HalfFacts, SMT DEF Int32, INT_MIN, INT_MAX
  <2>2. max_abs_grad \in Int
    BY SMT DEF DataInv, Typed
  <2>3. MaxFixed \in Int
    BY <2>2, UnitFacts, SMT DEF MaxFixed
  <2>4. QED BY <2>1, <2>3, UnitFacts, <1>1 DEF DataInv, Typed
<1>5. /\ Cardinality(seen) \in Nat
      /\ Cardinality(seen') = Cardinality(seen) + 1
  BY <1>1, CardinalitySeen DEF DataInv
<1> DEFINE c == Cardinality(seen)
           f == fixed[w] * Unit  g == gradient[w] * SCALE
           t == total * Unit     r == real * SCALE
<1>6. /\ total' * Unit = t + f /\ real' * SCALE = r + g
      /\ f \in Int /\ g \in Int /\ t \in Int /\ r \in Int
  <2>1. (total + fixed[w]) * Unit = t + f /\ (real + gradient[w]) * SCALE = r + g
    BY <1>4, SMT
  <2>2. f \in Int /\ g \in Int /\ t \in Int /\ r \in Int
    BY <1>4, SMT
  <2>3. QED BY <2>1, <2>2, <1>1
<1> HIDE DEF f, g, t, r, c
<1>7. c \in Nat /\ Within(t, c * MaxFixed) /\ Within(t - r, c * (Unit - 1))
      /\ Within(f, MaxFixed) /\ Within(f - g, Unit - 1)
  BY <1>3, <1>5 DEF f, g, t, r, c
<1>8. Within(t + f, (c + 1) * MaxFixed)
  BY <1>4, <1>6, <1>7, OneMore
<1>9. Within((t + f) - (r + g), (c + 1) * (Unit - 1))
  <2>1. t - r \in Int /\ f - g \in Int /\ Unit - 1 \in Int
        /\ (t - r) + (f - g) = (t + f) - (r + g)
    BY <1>4, <1>6, SMT
  <2>2. Within((t - r) + (f - g), (c + 1) * (Unit - 1))
    BY ONLY <2>1, <1>7, OneMore
  <2>3. QED BY <2>1, <2>2
<1>10. ASSUME NEW u \in Senders, lanes[u] # NoLane
       PROVE  /\ Within(fixed[u] * Unit, MaxFixed)
              /\ Within((fixed[u] * Unit) - (gradient[u] * SCALE), Unit - 1)
  BY <1>2, <1>10 DEF BoundInv
<1>11. /\ Within(total' * Unit, Cardinality(seen') * MaxFixed)
       /\ Within((total' * Unit) - (real' * SCALE), Cardinality(seen') * (Unit - 1))
  BY <1>5, <1>6, <1>8, <1>9 DEF c
<1>12. QED BY <1>1, <1>10, <1>11 DEF BoundInv

LEMMA BoundStep == DataInv /\ BoundInv /\ [Next]_vars => BoundInv'
<1>1. SUFFICES ASSUME DataInv, BoundInv, [Next]_vars PROVE BoundInv'
  OBVIOUS
<1>2. CASE Report \/ UNCHANGED vars
  <2>1. /\ UNCHANGED <<deployment, bounded, lanes, seen, gradient, fixed, real, total>>
        /\ Senders' = Senders /\ Safe' = Safe /\ MaxFixed' = MaxFixed
    BY <1>2 DEF Report, vars, deployment, Senders, Safe, Fits, MaxFixed
  <2>2. QED BY <1>1, <2>1 DEF BoundInv
<1>3. ASSUME NEW w \in Senders, Send(w) PROVE BoundInv'
  BY <1>1, <1>3, SendKeepsBound
<1>4. ASSUME NEW w \in Senders, Add(w) PROVE BoundInv'
  BY <1>1, <1>4, AddKeepsBound
<1>5. QED BY <1>1, <1>2, <1>3, <1>4 DEF Next

\* In a deployment that passes the bound check, every sum is within the bound of
\* as many workers as it has seen, and as many units from the real one
\* (grad_proto.h:52-69, worker.c:69-75).
THEOREM BoundCorrect == Spec => [](DataInv /\ BoundInv)
<1>1. Init => DataInv /\ BoundInv
  BY DataInit, BoundInit
<1>2. DataInv /\ BoundInv /\ [Next]_vars => (DataInv /\ BoundInv)'
  BY DataStep, BoundStep
<1>3. QED BY <1>1, <1>2, PTL DEF Spec

LEMMA TotalFits == DataInv /\ BoundInv /\ Safe => total \in Int32
<1>1. SUFFICES ASSUME DataInv, BoundInv, Safe PROVE total \in Int32
  OBVIOUS
<1>2. /\ num_workers \in Nat /\ max_abs_grad \in Nat /\ total \in Int
      /\ netsum_sum_fits_i32(num_workers, max_abs_grad)
  BY <1>1 DEF DataInv, Typed, Safe, Fits
<1>3. Cardinality(seen) \in Nat /\ Cardinality(seen) <= num_workers
  BY <1>1, CardinalitySeen DEF DataInv
<1>4. /\ total * Unit <= Cardinality(seen) * (max_abs_grad * SCALE)
      /\ -(Cardinality(seen) * (max_abs_grad * SCALE)) <= total * Unit
  BY <1>1 DEF BoundInv, Within, MaxFixed
<1>5. QED BY <1>2, <1>3, <1>4, BoundSuffices

\* A deployment that passes netsum_sum_fits_i32(), with no worker above its
\* max_abs_grad, never wraps: for every number of workers, gradient and order
\* (grad_proto.h:60-69).
THEOREM SumExactHolds == Spec => []SumExact
<1>1. DataInv /\ BoundInv => SumExact
  <2>1. SUFFICES ASSUME DataInv, BoundInv, Fits, bounded PROVE sum = total
    BY DEF SumExact
  <2>2. total \in Int32 /\ sum \in Int32 /\ Unsigned(sum) = Unsigned(total)
    BY <2>1, TotalFits DEF Safe, DataInv, Typed, Agrees
  <2>3. QED BY <2>2, Casts
<1>2. QED BY <1>1, BoundCorrect, PTL

\* And what it reports is less than one ULP per worker from the real sum
\* (tests/test_correctness.py:28-38, grad_proto.h:52-58).
THEOREM ReportedCloseHolds == Spec => []ReportedClose
<1>1. DataInv /\ BoundInv => ReportedClose
  <2>1. SUFFICES ASSUME DataInv, BoundInv, Fits, bounded, reported # NoLane
                 PROVE  /\ netsum_to_double(reported) - real * SCALE < num_workers * Unit
                        /\ -(netsum_to_double(reported) - real * SCALE) < num_workers * Unit
    BY DEF ReportedClose
  <2>2. /\ total \in Int32 /\ reported \in Int32 /\ Unsigned(reported) = Unsigned(total)
        /\ Cardinality(seen) = num_workers
    BY <2>1, TotalFits DEF Safe, DataInv, Typed, Agrees, Complete
  <2>3. reported = total
    BY <2>2, Casts
  <2> DEFINE e == (total * Unit) - (real * SCALE)
  <2>4. Within(e, num_workers * (Unit - 1))
    BY <2>1, <2>2 DEF BoundInv, Safe
  <2>5. total \in Int /\ real \in Int /\ num_workers \in Nat /\ num_workers > 0
    BY <2>1, SMT DEF DataInv, Typed
  <2>6. e \in Int /\ num_workers * (Unit - 1) = (num_workers * Unit) - num_workers
        /\ num_workers * Unit \in Int
    BY <2>5, UnitFacts, SMT
  <2> DEFINE N == num_workers * Unit
  <2> HIDE DEF e, N
  <2>7. e <= N - num_workers /\ -(N - num_workers) <= e /\ N \in Int
    BY <2>4, <2>6 DEF Within, N
  <2>8. e < N /\ -e < N
    BY <2>5, <2>6, <2>7, SMT
  <2>9. QED BY <2>3, <2>8 DEF netsum_to_double, e, N
<1>2. QED BY <1>1, BoundCorrect, PTL
=============================================================================
