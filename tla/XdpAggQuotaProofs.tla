--------------------------- MODULE XdpAggQuotaProofs ---------------------------
(***************************************************************************)
(* Theorems about the fairness quota of XdpAgg and its drop counters, for  *)
(* any number of CPUs, every size of the maps, every traffic and every     *)
(* configuration.                                                          *)
(***************************************************************************)
EXTENDS XdpAggProofs

(***************************************************************************)
(* What the accounting rests on: a CPU that made a slot, or closes one,    *)
(* finds it in slot_map until it has counted it or deleted it, and it is   *)
(* its alone.  So it is on several CPUs when every worker's frame arrives  *)
(* at most once, and on one CPU for every traffic.                         *)
(***************************************************************************)
SlotsHeld ==
    /\ MapInjective /\ MadeByOne
    /\ \A c \in CPUs : pc[c] \in Making \cup Closing => slot_map[KeyOf(c)] # NULL

LEMMA OnceHeld == TypeInv /\ Once => SlotsHeld
<1>1. SUFFICES ASSUME TypeInv, Once, NEW c \in CPUs, pc[c] \in Making \cup Closing
               PROVE  slot_map[KeyOf(c)] # NULL
  BY DEF Once, SlotsHeld
<1>2. CASE pc[c] \in Closing
  BY <1>1, <1>2 DEF Once, ClosedByOne
<1>3. CASE pc[c] \in Making
  BY <1>1, <1>3 DEF Making, Once, StillAwaited, PointersLive, TypeInv, Known, Pointing
<1>4. QED BY <1>1, <1>2, <1>3

LEMMA SoloHeld == ASSUME NEW c \in CPUs, CPUs = {c} PROVE Solo(c) => SlotsHeld
BY DEF Solo, SoloCPU, SlotsHeld, MadeByOne

LEMMA HeldAlways ==
    ASSUME OnceTraffic \/ Cardinality(CPUs) = 1
    PROVE  Spec => []SlotsHeld
<1>1. CASE OnceTraffic
  <2>1. Spec => []Once
    BY <1>1, OnceAlways
  <2>2. QED BY <2>1, OnceHeld, TypeAlways, PTL
<1>2. CASE Cardinality(CPUs) = 1
  <2>1. PICK c \in CPUs : CPUs = {c}
    BY <1>2, OneCPU
  <2>2. (Solo(c) => SlotsHeld) /\ (Spec => []Solo(c))
    BY <2>1, SoloHeld, SoloAlways
  <2>3. QED BY <2>2, PTL
<1>3. QED BY <1>1, <1>2

(***************************************************************************)
(* How many CPUs are at labels with a frame of job j, and how many slots   *)
(* job j has, change by what one CPU and one key contribute.               *)
(***************************************************************************)
Leaving == {"decrement", "subtract"}
Creating == {"create"}

In(c, j, labels) == IF pc[c] \in labels /\ JobOf(c) = j THEN 1 ELSE 0
Has(k, j)        == IF k.job_id = j /\ slot_map[k] # NULL THEN 1 ELSE 0

LEMMA AtFinite ==
    ASSUME NEW j, NEW labels
    PROVE  /\ IsFiniteSet(At(j, labels)) /\ Cardinality(At(j, labels)) \in Nat
           /\ Cardinality(At(j, labels)) <= Cardinality(CPUs)
<1>1. At(j, labels) \in SUBSET CPUs
  BY DEF At
<1>2. QED BY <1>1, RunAssumption, FS_Subset, FS_CardinalityType

\* Only CPU c goes on.
Alone(c) == \A d \in CPUs \ {c} : pc'[d] = pc[d] /\ frame'[d] = frame[d]

LEMMA AtMoves ==
    ASSUME NEW c \in CPUs, Alone(c), NEW j, NEW labels
    PROVE  Cardinality(At(j, labels)') =
               Cardinality(At(j, labels)) + In(c, j, labels)' - In(c, j, labels)
<1> DEFINE S == At(j, labels)
<1>1. /\ c \in S <=> pc[c] \in labels /\ JobOf(c) = j
      /\ c \in S' <=> pc'[c] \in labels /\ JobOf(c)' = j
  BY DEF At
<1>2. \A d \in CPUs \ {c} : d \in S' <=> d \in S
  BY DEF At, Alone, JobOf
<1>3. S \subseteq CPUs /\ S' \subseteq CPUs
  BY DEF At
<1>4. IsFiniteSet(S) /\ Cardinality(S) \in Nat
  BY AtFinite
<1>5. /\ In(c, j, labels) = IF c \in S THEN 1 ELSE 0
      /\ In(c, j, labels)' = IF c \in S' THEN 1 ELSE 0
  BY <1>1 DEF In
<1> HIDE DEF S
<1>6. CASE c \in S'
  <2>1. S' = S \cup {c}
    BY <1>2, <1>3, <1>6
  <2>2. Cardinality(S \cup {c}) = IF c \in S THEN Cardinality(S) ELSE Cardinality(S) + 1
    BY <1>4, FS_AddElement
  <2>3. Cardinality(S') = Cardinality(S) + In(c, j, labels)' - In(c, j, labels)
    BY <1>4, <1>5, <1>6, <2>1, <2>2
  <2>4. QED BY <2>3 DEF S
<1>7. CASE c \notin S'
  <2>1. S' = S \ {c}
    BY <1>2, <1>3, <1>7
  <2>2. Cardinality(S \ {c}) = IF c \in S THEN Cardinality(S) - 1 ELSE Cardinality(S)
    BY <1>4, FS_RemoveElement
  <2>3. Cardinality(S') = Cardinality(S) + In(c, j, labels)' - In(c, j, labels)
    BY <1>4, <1>5, <1>7, <2>1, <2>2
  <2>4. QED BY <2>3 DEF S
<1>8. QED BY <1>6, <1>7

\* No two keys share an element: a job has at most as many slots as there are.
LEMMA SlotsFinite ==
    ASSUME TypeInv, MapInjective, NEW j
    PROVE  /\ IsFiniteSet(SlotsOf(j)) /\ Cardinality(SlotsOf(j)) \in Nat
           /\ Cardinality(SlotsOf(j)) <= SLOT_MAP_ENTRIES
<1> DEFINE f == [k \in SlotsOf(j) |-> slot_map[k]]
<1>1. f \in Injection(SlotsOf(j), Elems)
  BY DEF SlotsOf, TypeInv, MapsTyped, MapInjective, Injection, IsInjective
<1> HIDE DEF f
<1>2. IsFiniteSet(Elems) /\ Cardinality(Elems) = SLOT_MAP_ENTRIES
  <2>1. 1 \in Int /\ SLOT_MAP_ENTRIES \in Int /\ SLOT_MAP_ENTRIES >= 1
    BY MapAssumption
  <2>2. /\ IsFiniteSet(1 .. SLOT_MAP_ENTRIES)
        /\ Cardinality(1 .. SLOT_MAP_ENTRIES) =
              IF 1 > SLOT_MAP_ENTRIES THEN 0 ELSE SLOT_MAP_ENTRIES - 1 + 1
    BY <2>1, FS_Interval
  <2>3. QED BY <2>1, <2>2 DEF Elems
<1>3. IsFiniteSet(SlotsOf(j)) /\ Cardinality(SlotsOf(j)) <= Cardinality(Elems)
  BY <1>1, <1>2, FS_Injection
<1>4. QED BY <1>2, <1>3, FS_CardinalityType

LEMMA SlotsMove ==
    ASSUME TypeInv, MapInjective, NEW k \in Keys,
           \A m \in Keys \ {k} : slot_map'[m] = slot_map[m], NEW j
    PROVE  Cardinality(SlotsOf(j)') = Cardinality(SlotsOf(j)) + Has(k, j)' - Has(k, j)
<1> DEFINE S == SlotsOf(j)
<1>1. /\ Has(k, j) = IF k \in S THEN 1 ELSE 0
      /\ Has(k, j)' = IF k \in S' THEN 1 ELSE 0
  BY DEF SlotsOf, Has
<1>2. \A m \in Keys \ {k} : m \in S' <=> m \in S
  BY DEF SlotsOf
<1>3. S \subseteq Keys /\ S' \subseteq Keys
  BY DEF SlotsOf
<1>4. IsFiniteSet(S) /\ Cardinality(S) \in Nat
  BY SlotsFinite
<1> HIDE DEF S
<1>5. CASE k \in S'
  <2>1. S' = S \cup {k}
    BY <1>2, <1>3, <1>5
  <2>2. Cardinality(S \cup {k}) = IF k \in S THEN Cardinality(S) ELSE Cardinality(S) + 1
    BY <1>4, FS_AddElement
  <2>3. Cardinality(S') = Cardinality(S) + Has(k, j)' - Has(k, j)
    BY <1>1, <1>4, <1>5, <2>1, <2>2
  <2>4. QED BY <2>3 DEF S
<1>6. CASE k \notin S'
  <2>1. S' = S \ {k}
    BY <1>2, <1>3, <1>6
  <2>2. Cardinality(S \ {k}) = IF k \in S THEN Cardinality(S) - 1 ELSE Cardinality(S)
    BY <1>4, FS_RemoveElement
  <2>3. Cardinality(S') = Cardinality(S) + Has(k, j)' - Has(k, j)
    BY <1>1, <1>4, <1>6, <2>1, <2>2
  <2>4. QED BY <2>3 DEF S
<1>7. QED BY <1>5, <1>6

\* CPUs that made a slot they have not counted made different ones.
LEMMA MadeAreSlots ==
    ASSUME TypeInv, SlotsHeld, NEW j
    PROVE  Cardinality(At(j, Making)) <= Cardinality(SlotsOf(j))
<1> DEFINE f == [c \in At(j, Making) |-> KeyOf(c)]
<1>1. ASSUME NEW c \in At(j, Making)
      PROVE  c \in CPUs /\ pc[c] \in Making /\ KeyOf(c) \in SlotsOf(j)
  <2>1. c \in CPUs /\ pc[c] \in Making /\ JobOf(c) = j
    BY <1>1 DEF At
  <2>2. KeyOf(c) \in Keys
    BY <2>1, HeldType DEF Making
  <2>3. slot_map[KeyOf(c)] # NULL
    BY <2>1 DEF SlotsHeld
  <2>4. QED BY <2>1, <2>2, <2>3 DEF SlotsOf, JobOf, KeyOf
<1>2. f \in Injection(At(j, Making), SlotsOf(j))
  BY <1>1 DEF Injection, IsInjective, SlotsHeld, MadeByOne
<1> HIDE DEF f
<1>3. QED BY <1>2, SlotsFinite, FS_Injection DEF SlotsHeld

-----------------------------------------------------------------------------
(***************************************************************************)
(* QuotaAccounting is inductive over TypeInv and SlotsHeld.                *)
(***************************************************************************)
Accounted(j) ==
    CountOf(j) + Cardinality(At(j, Making)) =
        Cardinality(SlotsOf(j)) + Cardinality(At(j, Leaving))

QuotaAccounted == \A j \in Jobs : Countable(j) => Accounted(j)

LEMMA AccountedIsAccounting == QuotaAccounted <=> QuotaAccounting
BY DEF QuotaAccounted, QuotaAccounting, Accounted, Uncounted, Uncharged, Making, Leaving

\* A job that can be counted now could be counted before.
LEMMA CountableBack ==
    ASSUME Tracked' = Tracked \/ Cardinality(Tracked) < JOB_QUOTA_ENTRIES,
           NEW j, Countable(j)'
    PROVE  Countable(j)
BY DEF Countable

LEMMA CountType ==
    ASSUME TypeInv, NEW j \in Jobs
    PROVE  CountOf(j) \in Nat /\ CountOf(j) < UINT32
<1>1. CASE j \in Tracked
  <2>1. job_quota_map[j] \in 0 .. UINT32 - 1
    BY <1>1 DEF TypeInv, MapsTyped
  <2>2. QED BY <1>1, <2>1, MapAssumption DEF CountOf
<1>2. CASE j \notin Tracked
  BY <1>2, MapAssumption DEF CountOf
<1>3. QED BY <1>1, <1>2

\* The count is as many as the slots it is for and those not yet given back,
\* and there is always room to count one more.
LEMMA CountBounds ==
    ASSUME TypeInv, SlotsHeld, NEW j \in Jobs, Accounted(j)
    PROVE  /\ Cardinality(At(j, Leaving)) <= CountOf(j)
           /\ At(j, Making) # {} => CountOf(j) + 1 < UINT32
<1> DEFINE m == Cardinality(At(j, Making))
           l == Cardinality(At(j, Leaving))
           s == Cardinality(SlotsOf(j))
           n == CountOf(j)
<1>1. /\ m \in Nat /\ l \in Nat /\ s \in Nat /\ n \in Nat
      /\ m <= s /\ l <= Cardinality(CPUs) /\ s <= SLOT_MAP_ENTRIES
      /\ n + m = s + l
      /\ At(j, Making) # {} => m >= 1
  <2>1. At(j, Making) # {} => Cardinality(At(j, Making)) # 0
    BY AtFinite, FS_EmptySet
  <2>2. QED
    BY <2>1, AtFinite, SlotsFinite, MadeAreSlots, CountType DEF SlotsHeld, Accounted
<1>2. Cardinality(CPUs) \in Nat
  BY RunAssumption, FS_CardinalityType
<1> HIDE DEF m, l, s, n
<1>3. l <= n /\ (At(j, Making) # {} => n + 1 < UINT32)
  BY <1>1, <1>2, MapAssumption, WidthAssumption
<1>4. QED BY <1>3 DEF l, n

LEMMA Counts ==
    TypeInv /\ SlotsHeld =>
        \A j \in Jobs : CountOf(j) \in Nat /\ Cardinality(SlotsOf(j)) \in Nat
BY CountType, SlotsFinite DEF SlotsHeld

LEMMA CountsNext ==
    TypeInv' /\ SlotsHeld' =>
        \A j \in Jobs : CountOf(j)' \in Nat /\ Cardinality(SlotsOf(j)') \in Nat
<1>1. TypeInv' /\ SlotsHeld' => (\A j \in Jobs : CountOf(j) \in Nat /\ Cardinality(SlotsOf(j)) \in Nat)'
  BY Counts, PTL
<1>2. QED BY <1>1

\* A step of c that moves as many slots and CPUs as counts.
LEMMA Balance ==
    ASSUME TypeInv, TypeInv', SlotsHeld, SlotsHeld', NEW c \in CPUs, Alone(c), NEW j \in Jobs,
           Accounted(j),
           CountOf(j)' + In(c, j, Making)' - In(c, j, Making) - CountOf(j) =
               Cardinality(SlotsOf(j)') - Cardinality(SlotsOf(j))
                   + In(c, j, Leaving)' - In(c, j, Leaving)
    PROVE  Accounted(j)'
<1> DEFINE m == Cardinality(At(j, Making))
           l == Cardinality(At(j, Leaving))
           s == Cardinality(SlotsOf(j))
           n == CountOf(j)
<1>1. m \in Nat /\ l \in Nat /\ s \in Nat /\ n \in Nat /\ s' \in Nat /\ n' \in Nat
  BY AtFinite, Counts, CountsNext
<1>2. /\ m' = m + In(c, j, Making)' - In(c, j, Making)
      /\ l' = l + In(c, j, Leaving)' - In(c, j, Leaving)
  BY AtMoves
<1>3. /\ In(c, j, Making) \in Int /\ In(c, j, Making)' \in Int
      /\ In(c, j, Leaving) \in Int /\ In(c, j, Leaving)' \in Int
  BY DEF In
<1>4. n + m = s + l
  BY DEF Accounted
<1>5. n' + In(c, j, Making)' - In(c, j, Making) - n =
          s' - s + In(c, j, Leaving)' - In(c, j, Leaving)
  OBVIOUS
<1> HIDE DEF m, l, s, n
<1>6. n' + m' = s' + l'
  BY <1>1, <1>2, <1>3, <1>4, <1>5
<1>7. QED BY <1>6 DEF Accounted, m, l, s, n

\* CPU c is on its way between the map and the count neither before nor after,
\* or goes on there.
Aside(c) ==
    /\ Alone(c)
    /\ UNCHANGED <<slot_map, job_quota_map>>
    /\ \A labels \in {Making, Leaving} :
          /\ pc[c] \in labels <=> pc'[c] \in labels
          /\ pc[c] \in labels => frame'[c] = frame[c]

LEMMA AsideAccounted ==
    ASSUME TypeInv, TypeInv', SlotsHeld, SlotsHeld', QuotaAccounted, NEW c \in CPUs, Aside(c)
    PROVE  QuotaAccounted'
<1>1. SUFFICES ASSUME NEW j \in Jobs, Countable(j)' PROVE Accounted(j)'
  BY DEF QuotaAccounted
<1>2. Tracked' = Tracked /\ CountOf(j)' = CountOf(j) /\ SlotsOf(j)' = SlotsOf(j) /\ Alone(c)
  BY DEF Aside, Tracked, CountOf, SlotsOf
<1>3. Accounted(j)
  BY <1>1, <1>2, CountableBack DEF QuotaAccounted
<1>4. In(c, j, Making)' = In(c, j, Making) /\ In(c, j, Leaving)' = In(c, j, Leaving)
  BY DEF Aside, In, JobOf
<1>5. CountOf(j) \in Int /\ Cardinality(SlotsOf(j)) \in Int
      /\ In(c, j, Making) \in Int /\ In(c, j, Leaving) \in Int
  BY Counts DEF In
<1>6. CountOf(j)' + In(c, j, Making)' - In(c, j, Making) - CountOf(j) =
          Cardinality(SlotsOf(j)') - Cardinality(SlotsOf(j))
              + In(c, j, Leaving)' - In(c, j, Leaving)
  BY <1>2, <1>4, <1>5
<1>7. QED BY <1>2, <1>3, <1>6, Balance

LEMMA GoesAside ==
    ASSUME TypeInv, NEW c \in CPUs, NEW label \in Labels, Goto(c, label), UNCHANGED frame,
           UNCHANGED <<slot_map, job_quota_map>>,
           pc[c] \in Making <=> label \in Making, pc[c] \in Leaving <=> label \in Leaving
    PROVE  Aside(c)
<1>1. pc'[c] = label /\ \A d \in CPUs \ {c} : pc'[d] = pc[d]
  BY DEF TypeInv, LocalsTyped, Goto
<1>2. QED BY <1>1 DEF Aside, Alone

LEMMA ReturnsAside ==
    ASSUME TypeInv, NEW c \in CPUs, Return(c), UNCHANGED <<slot_map, job_quota_map>>,
           pc[c] \notin Making \cup Leaving
    PROVE  Aside(c)
<1>1. pc'[c] = "idle" /\ Alone(c)
  BY DEF TypeInv, LocalsTyped, Return, Goto, Alone
<1>2. QED BY <1>1 DEF Aside, Making, Leaving

LEMMA RxAside ==
    ASSUME TypeInv, NEW c \in CPUs, Rx(c)
    PROVE  Aside(c)
<1>1. pc[c] = "idle" /\ UNCHANGED <<slot_map, job_quota_map>>
  BY DEF Rx, RxIgnored, RxHit, RxMiss, Receive
<1>2. Alone(c) /\ pc'[c] \in {"idle", "lock", "precheck"}
  BY <1>1 DEF Rx, RxIgnored, RxHit, RxMiss, TypeInv, LocalsTyped, Goto, Alone, locals
<1>3. QED BY <1>1, <1>2 DEF Aside, Making, Leaving

LEMMA QuietAside ==
    ASSUME TypeInv, SlotsHeld, NEW c \in CPUs,
           \/ Precheck(c) \/ QuotaAdmits(c) \/ QuotaRejects(c) \/ CreateLoses(c)
           \/ Relookup(c) \/ RelookupFails(c)
           \/ LockRejects(c) \/ LockPartial(c) \/ LockCompletes(c)
           \/ LookupConfig(c) \/ Transmit(c) \/ BumpStat(c) \/ BumpNewStat(c)
    PROVE  Aside(c)
<1>1. CASE RelookupFails(c)
  <2>1. pc[c] = "lost" /\ Return(c) /\ UNCHANGED shared
    BY <1>1 DEF RelookupFails, SlotsHeld, Making
  <2>2. QED BY <2>1, ReturnsAside DEF shared, Making, Leaving
<1>2. CASE LockRejects(c) \/ LockPartial(c) \/ Transmit(c)
  <2>1. pc[c] \in {"lock", "tx"} /\ Return(c) /\ UNCHANGED <<slot_map, job_quota_map>>
    BY <1>2 DEF LockRejects, LockPartial, Accumulates, Transmit, shared
  <2>2. QED BY <2>1, ReturnsAside DEF Making, Leaving
<1>3. CASE BumpStat(c) \/ BumpNewStat(c)
  <2>1. /\ pc[c] \in {"stat", "newstat"} /\ UNCHANGED <<slot_map, job_quota_map>>
        /\ Return(c) \/ (Goto(c, "newstat") /\ UNCHANGED frame)
    BY <1>3 DEF BumpStat, BumpNewStat, locals
  <2>2. QED BY <2>1, ReturnsAside, GoesAside DEF Making, Leaving, Labels
<1>4. CASE Precheck(c) \/ QuotaAdmits(c) \/ QuotaRejects(c) \/ CreateLoses(c)
  <2>1. /\ pc[c] \in {"precheck", "quota", "create"} /\ UNCHANGED <<shared, frame>>
        /\ \E label \in {"quota", "create", "stat", "lost"} : Goto(c, label)
    BY <1>4 DEF Precheck, QuotaAdmits, QuotaRejects, CreateLoses, locals
  <2>2. QED BY <2>1, GoesAside DEF shared, Labels, Making, Leaving
<1>5. CASE LockCompletes(c) \/ LookupConfig(c)
  <2>1. /\ pc[c] \in {"lock", "complete"} /\ UNCHANGED <<slot_map, job_quota_map, frame>>
        /\ \E label \in {"complete", "delete"} : Goto(c, label)
    BY <1>5 DEF LockCompletes, Accumulates, LookupConfig, shared
  <2>2. QED BY <2>1, GoesAside DEF Labels, Making, Leaving
<1>6. CASE Relookup(c)
  <2>1. UNCHANGED <<slot_map, job_quota_map, frame>>
    BY <1>6 DEF Relookup, shared
  <2>2. \/ pc[c] = "won" /\ Goto(c, "increment")
        \/ pc[c] = "lost" /\ Goto(c, "lock")
    BY <1>6 DEF Relookup
  <2>3. QED BY <2>1, <2>2, GoesAside DEF Labels, Making, Leaving
<1>7. QED BY <1>1, <1>2, <1>3, <1>4, <1>5, <1>6

\* c goes on to a label with its frame.
LEMMA InAfter ==
    ASSUME TypeInv, NEW c \in CPUs, NEW label, Goto(c, label), UNCHANGED frame
    PROVE  /\ Alone(c) /\ pc'[c] = label
           /\ \A j, labels : In(c, j, labels)' =
                                IF label \in labels /\ JobOf(c) = j THEN 1 ELSE 0
<1>1. pc'[c] = label /\ \A d \in CPUs \ {c} : pc'[d] = pc[d]
  BY DEF TypeInv, LocalsTyped, Goto
<1>2. QED BY <1>1 DEF Alone, In, JobOf

LEMMA NoWrap ==
    ASSUME NEW n \in Nat, n < UINT32
    PROVE  n % UINT32 = n /\ n \in 0 .. UINT32 - 1
BY MapAssumption, SMT

\* An update of one job's count.
LEMMA CountMoves ==
    ASSUME TypeInv, NEW a \in Jobs, NEW v \in 0 .. UINT32 - 1,
           job_quota_map' = Put(job_quota_map, a, v)
    PROVE  /\ CountOf(a)' = v
           /\ \A j \in Jobs \ {a} : CountOf(j)' = CountOf(j)
           /\ Tracked' = Tracked \cup {a}
<1>1. /\ Tracked' = Tracked \cup {a} /\ job_quota_map'[a] = v
      /\ \A i \in Tracked : i # a => job_quota_map'[i] = job_quota_map[i]
  BY QuotaMapType DEF TypeInv
<1>2. QED BY <1>1 DEF CountOf

\* A slot is made: one slot more, and one CPU that has to count it.
LEMMA AccountCreateWins ==
    ASSUME TypeInv, TypeInv', SlotsHeld, SlotsHeld', QuotaAccounted, NEW c \in CPUs, CreateWins(c)
    PROVE  QuotaAccounted'
<1>k. PICK k \in Keys : k = KeyOf(c)
  BY HeldType DEF CreateWins
<1>1. PICK e \in FreeElems : slot_map' = [slot_map EXCEPT ![k] = e]
  BY <1>k DEF CreateWins
<1>2. /\ pc[c] = "create" /\ slot_map[k] = NULL /\ Goto(c, "won")
      /\ UNCHANGED <<job_quota_map, frame>>
  BY <1>k DEF CreateWins, locals
<1>3. slot_map'[k] # NULL /\ \A m \in Keys \ {k} : slot_map'[m] = slot_map[m]
  BY <1>1, MapAssumption DEF TypeInv, MapsTyped, FreeElems, Elems, NULL
<1>4. SUFFICES ASSUME NEW j \in Jobs, Countable(j)' PROVE Accounted(j)'
  BY DEF QuotaAccounted
<1>5. Tracked' = Tracked /\ CountOf(j)' = CountOf(j)
  BY <1>2 DEF Tracked, CountOf
<1>6. Accounted(j)
  BY <1>4, <1>5, CountableBack DEF QuotaAccounted
<1>7. Cardinality(SlotsOf(j)') = Cardinality(SlotsOf(j)) + Has(k, j)' - Has(k, j)
  BY <1>3, SlotsMove DEF SlotsHeld
<1>8. Has(k, j) = 0 /\ Has(k, j)' = IF JobOf(c) = j THEN 1 ELSE 0
  BY <1>k, <1>2, <1>3 DEF Has, KeyOf, JobOf
<1>9. /\ Alone(c)
      /\ In(c, j, Making) = 0 /\ In(c, j, Making)' = IF JobOf(c) = j THEN 1 ELSE 0
      /\ In(c, j, Leaving) = 0 /\ In(c, j, Leaving)' = 0
  <2>1. /\ Alone(c)
        /\ In(c, j, Making)' = IF "won" \in Making /\ JobOf(c) = j THEN 1 ELSE 0
        /\ In(c, j, Leaving)' = IF "won" \in Leaving /\ JobOf(c) = j THEN 1 ELSE 0
    BY <1>2, InAfter
  <2>2. In(c, j, Making) = 0 /\ In(c, j, Leaving) = 0
    BY <1>2 DEF In, Making, Leaving
  <2>3. QED BY <2>1, <2>2 DEF Making, Leaving
<1>10. CountOf(j) \in Int /\ Cardinality(SlotsOf(j)) \in Int
  BY Counts
<1>11. CountOf(j)' + In(c, j, Making)' - In(c, j, Making) - CountOf(j) =
          Cardinality(SlotsOf(j)') - Cardinality(SlotsOf(j))
              + In(c, j, Leaving)' - In(c, j, Leaving)
  BY <1>5, <1>7, <1>8, <1>9, <1>10
<1>12. QED BY <1>6, <1>9, <1>11, Balance

\* A slot is deleted: one slot less, and one CPU that has to take it off the count.
LEMMA AccountDelete ==
    ASSUME TypeInv, TypeInv', SlotsHeld, SlotsHeld', QuotaAccounted, NEW c \in CPUs, Delete(c)
    PROVE  QuotaAccounted'
<1>k. PICK k \in Keys : k = KeyOf(c)
  BY HeldType DEF Delete
<1>1. /\ pc[c] = "delete" /\ slot_map' = [slot_map EXCEPT ![k] = NULL]
      /\ Goto(c, "decrement") /\ UNCHANGED <<job_quota_map, frame>>
  BY <1>k DEF Delete, locals
<1>2. slot_map[k] # NULL
  BY <1>k, <1>1 DEF SlotsHeld, Closing
<1>3. slot_map'[k] = NULL /\ \A m \in Keys \ {k} : slot_map'[m] = slot_map[m]
  BY <1>1 DEF TypeInv, MapsTyped
<1>4. SUFFICES ASSUME NEW j \in Jobs, Countable(j)' PROVE Accounted(j)'
  BY DEF QuotaAccounted
<1>5. Tracked' = Tracked /\ CountOf(j)' = CountOf(j)
  BY <1>1 DEF Tracked, CountOf
<1>6. Accounted(j)
  BY <1>4, <1>5, CountableBack DEF QuotaAccounted
<1>7. Cardinality(SlotsOf(j)') = Cardinality(SlotsOf(j)) + Has(k, j)' - Has(k, j)
  BY <1>3, SlotsMove DEF SlotsHeld
<1>8. Has(k, j)' = 0 /\ Has(k, j) = IF JobOf(c) = j THEN 1 ELSE 0
  BY <1>k, <1>2, <1>3 DEF Has, KeyOf, JobOf
<1>9. /\ Alone(c)
      /\ In(c, j, Making) = 0 /\ In(c, j, Making)' = 0
      /\ In(c, j, Leaving) = 0 /\ In(c, j, Leaving)' = IF JobOf(c) = j THEN 1 ELSE 0
  <2>1. /\ Alone(c)
        /\ In(c, j, Making)' = IF "decrement" \in Making /\ JobOf(c) = j THEN 1 ELSE 0
        /\ In(c, j, Leaving)' = IF "decrement" \in Leaving /\ JobOf(c) = j THEN 1 ELSE 0
    BY <1>1, InAfter
  <2>2. In(c, j, Making) = 0 /\ In(c, j, Leaving) = 0
    BY <1>1 DEF In, Making, Leaving
  <2>3. QED BY <2>1, <2>2 DEF Making, Leaving
<1>10. CountOf(j) \in Int /\ Cardinality(SlotsOf(j)) \in Int
  BY Counts
<1>11. CountOf(j)' + In(c, j, Making)' - In(c, j, Making) - CountOf(j) =
          Cardinality(SlotsOf(j)') - Cardinality(SlotsOf(j))
              + In(c, j, Leaving)' - In(c, j, Leaving)
  BY <1>5, <1>7, <1>8, <1>9, <1>10
<1>12. QED BY <1>6, <1>9, <1>11, Balance

\* The count of the job of c's frame changes by what c had to change it by.
LEMMA AccountCount ==
    ASSUME TypeInv, TypeInv', SlotsHeld, SlotsHeld', QuotaAccounted, NEW c \in CPUs,
           UNCHANGED <<slot_map, frame>>, NEW a \in Jobs, a = JobOf(c),
           NEW label \in Labels \ (Making \cup Leaving), Goto(c, label),
           Tracked' = Tracked \/ Cardinality(Tracked) < JOB_QUOTA_ENTRIES,
           \A j \in Jobs \ {a} : CountOf(j)' = CountOf(j),
           Countable(a) /\ Accounted(a) =>
              CountOf(a)' = CountOf(a) + In(c, a, Making) - In(c, a, Leaving)
    PROVE  QuotaAccounted'
<1>1. SUFFICES ASSUME NEW j \in Jobs, Countable(j)' PROVE Accounted(j)'
  BY DEF QuotaAccounted
<1>2. Accounted(j) /\ Countable(j)
  BY <1>1, CountableBack DEF QuotaAccounted
<1>3. Alone(c) /\ In(c, j, Making)' = 0 /\ In(c, j, Leaving)' = 0
  BY InAfter
<1>4. CountOf(j)' = CountOf(j) + In(c, j, Making) - In(c, j, Leaving)
  <2>1. CASE j = a
    BY <1>2, <2>1
  <2>2. CASE j # a
    <3>1. In(c, j, Making) = 0 /\ In(c, j, Leaving) = 0 /\ CountOf(j)' = CountOf(j)
      BY <2>2 DEF In
    <3>2. QED BY <3>1, Counts
  <2>3. QED BY <2>1, <2>2
<1>5. /\ CountOf(j) \in Int /\ Cardinality(SlotsOf(j)) \in Int
      /\ In(c, j, Making) \in Int /\ In(c, j, Leaving) \in Int
  BY Counts DEF In
<1>6. SlotsOf(j)' = SlotsOf(j)
  BY DEF SlotsOf
<1>7. CountOf(j)' + In(c, j, Making)' - In(c, j, Making) - CountOf(j) =
          Cardinality(SlotsOf(j)') - Cardinality(SlotsOf(j))
              + In(c, j, Leaving)' - In(c, j, Leaving)
  BY <1>3, <1>4, <1>5, <1>6
<1>8. QED BY <1>2, <1>3, <1>7, Balance

LEMMA AccountAddOne ==
    ASSUME TypeInv, TypeInv', SlotsHeld, SlotsHeld', QuotaAccounted, NEW c \in CPUs,
           pc[c] \in {"increment", "newjob"}, Goto(c, "lock"),
           UNCHANGED <<slot_map, frame>>, JobOf(c) \in Tracked, AddOne(JobOf(c))
    PROVE  QuotaAccounted'
<1>a. PICK a \in Jobs : a = JobOf(c)
  BY HeldType
<1> DEFINE v == (job_quota_map[a] + 1) % UINT32
<1>1. a \in Tracked /\ job_quota_map' = Put(job_quota_map, a, v)
  BY <1>a DEF AddOne
<1>2. CountOf(a) = job_quota_map[a] /\ CountOf(a) \in Nat
  BY <1>1, CountType DEF CountOf
<1>3. v \in 0 .. UINT32 - 1
  <2>1. job_quota_map[a] + 1 \in Int
    BY <1>2
  <2>2. QED BY <2>1, Wraps
<1>4. Accounted(a) => v = CountOf(a) + 1
  <2>1. c \in At(a, Making)
    BY <1>a DEF At, Making
  <2>2. Accounted(a) => CountOf(a) + 1 < UINT32
    BY <2>1, CountBounds
  <2>3. CountOf(a) + 1 < UINT32 => (CountOf(a) + 1) % UINT32 = CountOf(a) + 1
    <3>1. CountOf(a) + 1 \in Nat
      BY <1>2
    <3>2. QED BY <3>1, NoWrap
  <2>4. QED BY <1>2, <2>2, <2>3
<1> HIDE DEF v
<1>5. /\ CountOf(a)' = v /\ Tracked' = Tracked
      /\ \A j \in Jobs \ {a} : CountOf(j)' = CountOf(j)
  BY <1>1, <1>3, CountMoves
<1>6. In(c, a, Making) = 1 /\ In(c, a, Leaving) = 0
  BY <1>a DEF In, Making, Leaving
<1>7. Countable(a) /\ Accounted(a) =>
          CountOf(a)' = CountOf(a) + In(c, a, Making) - In(c, a, Leaving)
  BY <1>2, <1>4, <1>5, <1>6
<1>8. "lock" \in Labels \ (Making \cup Leaving)
  BY DEF Labels, Making, Leaving
<1>9. QED BY <1>a, <1>5, <1>7, <1>8, AccountCount

\* job_quota_increment(): the slot that was made is counted.
LEMMA AccountIncrement ==
    ASSUME TypeInv, TypeInv', SlotsHeld, SlotsHeld', QuotaAccounted, NEW c \in CPUs,
           Increment(c) \/ IncrementNew(c)
    PROVE  QuotaAccounted'
<1>a. PICK a \in Jobs : a = JobOf(c)
  BY HeldType DEF Increment, IncrementNew
<1>1. pc[c] \in {"increment", "newjob"} /\ UNCHANGED <<slot_map, frame>>
  BY DEF Increment, IncrementNew, locals
<1>2. CASE Increment(c) /\ a \notin Tracked
  <2>1. Goto(c, "newjob") /\ UNCHANGED job_quota_map
    BY <1>a, <1>2 DEF Increment
  <2>2. Aside(c)
    BY <1>1, <2>1, GoesAside DEF Labels, Making, Leaving
  <2>3. QED BY <2>2, AsideAccounted
<1>3. CASE a \in Tracked
  <2>1. Goto(c, "lock") /\ AddOne(a)
    BY <1>a, <1>3 DEF Increment, IncrementNew
  <2>2. QED BY <1>a, <1>1, <1>3, <2>1, AccountAddOne
<1>4. CASE IncrementNew(c) /\ a \notin Tracked
  <2>1. /\ Goto(c, "lock")
        /\ \/ /\ Cardinality(Tracked) < JOB_QUOTA_ENTRIES
              /\ job_quota_map' = Put(job_quota_map, a, 1)
           \/ ~(Cardinality(Tracked) < JOB_QUOTA_ENTRIES) /\ UNCHANGED job_quota_map
    <3>1. Cardinality(Tracked) >= JOB_QUOTA_ENTRIES
             => ~(Cardinality(Tracked) < JOB_QUOTA_ENTRIES)
      <4>1. Cardinality(Tracked) \in Nat
        BY RunAssumption, FS_Subset, FS_CardinalityType DEF TypeInv, MapsTyped
      <4>2. QED BY <4>1, MapAssumption
    <3>2. QED BY <1>a, <1>4, <3>1 DEF IncrementNew, FreshCount
  <2>2. "lock" \in Labels \ (Making \cup Leaving)
    BY DEF Labels, Making, Leaving
  <2>3. In(c, a, Making) = 1 /\ In(c, a, Leaving) = 0 /\ CountOf(a) = 0
    BY <1>a, <1>1, <1>4 DEF In, Making, Leaving, CountOf
  <2>4. CASE job_quota_map' = Put(job_quota_map, a, 1)
             /\ Cardinality(Tracked) < JOB_QUOTA_ENTRIES
    <3>1. CASE 1 < UINT32
      <4>1. 1 \in 0 .. UINT32 - 1
        BY <3>1, NoWrap
      <4>2. CountOf(a)' = 1 /\ \A j \in Jobs \ {a} : CountOf(j)' = CountOf(j)
        BY <2>4, <4>1, CountMoves
      <4>3. CountOf(a)' = CountOf(a) + In(c, a, Making) - In(c, a, Leaving)
        BY <2>3, <4>2
      <4>4. QED BY <1>a, <1>1, <2>1, <2>2, <2>4, <4>2, <4>3, AccountCount
    <3>2. CASE ~(1 < UINT32)
      <4>1. 1 <= SLOT_MAP_ENTRIES /\ Cardinality(CPUs) >= 0
        BY MapAssumption, RunAssumption, FS_CardinalityType
      <4>2. Cardinality(CPUs) \in Nat
        BY RunAssumption, FS_CardinalityType
      <4>3. QED BY <3>2, <4>1, <4>2, MapAssumption, WidthAssumption
    <3>3. QED BY <3>1, <3>2
  <2>5. CASE ~(Cardinality(Tracked) < JOB_QUOTA_ENTRIES) /\ UNCHANGED job_quota_map
    <3>1. ~Countable(a)
      BY <1>4, <2>5 DEF Countable
    <3>2. Tracked' = Tracked /\ \A j \in Jobs \ {a} : CountOf(j)' = CountOf(j)
      BY <2>5 DEF Tracked, CountOf
    <3>3. QED BY <1>a, <1>1, <2>1, <2>2, <3>1, <3>2, AccountCount
  <2>6. QED BY <2>1, <2>4, <2>5
<1>5. QED BY <1>2, <1>3, <1>4

\* A CPU that has a slot to take off the count finds it counted: the count does
\* not reach 0 before, and is not taken below it.
LEMMA LeavesCounted ==
    ASSUME TypeInv, SlotsHeld, NEW c \in CPUs, NEW a \in Jobs, a = JobOf(c),
           pc[c] \in Leaving, Accounted(a)
    PROVE  a \in Tracked /\ CountOf(a) \in Nat /\ CountOf(a) >= 1
<1>1. c \in At(a, Leaving)
  BY DEF At
<1>2. Cardinality(At(a, Leaving)) \in Nat /\ Cardinality(At(a, Leaving)) # 0
  BY <1>1, AtFinite, FS_EmptySet
<1>3. CountOf(a) \in Nat /\ Cardinality(At(a, Leaving)) <= CountOf(a)
  BY CountBounds, CountType
<1>4. CountOf(a) >= 1
  BY <1>2, <1>3
<1>5. QED BY <1>3, <1>4 DEF CountOf

LEMMA AccountSubtract ==
    ASSUME TypeInv, TypeInv', SlotsHeld, SlotsHeld', QuotaAccounted, NEW c \in CPUs, Subtract(c)
    PROVE  QuotaAccounted'
<1>a. PICK a \in Jobs : a = JobOf(c)
  BY HeldType DEF Subtract
<1> DEFINE v == (job_quota_map[a] - 1) % UINT32
<1>1. /\ pc[c] = "subtract" /\ job_quota_map' = Put(job_quota_map, a, v)
      /\ UNCHANGED <<slot_map, frame>>
  BY <1>a DEF Subtract, locals
<1>2. PICK label \in {"stat", "tx"} : Goto(c, label)
  BY DEF Subtract, AfterDecrement
<1>3. a \in Tracked
  BY <1>a, <1>1 DEF TypeInv, Known
<1>4. CountOf(a) = job_quota_map[a] /\ CountOf(a) \in Nat /\ CountOf(a) < UINT32
  BY <1>3, CountType DEF CountOf
<1>5. v \in 0 .. UINT32 - 1
  <2>1. job_quota_map[a] - 1 \in Int
    BY <1>4
  <2>2. QED BY <2>1, Wraps
<1>6. Accounted(a) => v = CountOf(a) - 1
  <2>1. Accounted(a) => CountOf(a) >= 1
    BY <1>a, <1>1, LeavesCounted DEF Leaving
  <2>2. CountOf(a) >= 1 => (CountOf(a) - 1) % UINT32 = CountOf(a) - 1
    <3>1. CountOf(a) >= 1 => CountOf(a) - 1 \in Nat /\ CountOf(a) - 1 < UINT32
      BY <1>4, MapAssumption
    <3>2. QED BY <3>1, NoWrap
  <2>3. QED BY <1>4, <2>1, <2>2
<1> HIDE DEF v
<1>7. /\ CountOf(a)' = v /\ Tracked' = Tracked
      /\ \A j \in Jobs \ {a} : CountOf(j)' = CountOf(j)
  BY <1>1, <1>3, <1>5, CountMoves
<1>8. In(c, a, Making) = 0 /\ In(c, a, Leaving) = 1
  BY <1>a, <1>1 DEF In, Making, Leaving
<1>9. Countable(a) /\ Accounted(a) =>
          CountOf(a)' = CountOf(a) + In(c, a, Making) - In(c, a, Leaving)
  BY <1>4, <1>6, <1>7, <1>8
<1>10. label \in Labels \ (Making \cup Leaving)
  BY <1>2 DEF Labels, Making, Leaving
<1>11. QED BY <1>a, <1>1, <1>2, <1>7, <1>9, <1>10, AccountCount

LEMMA AccountDecrementTest ==
    ASSUME TypeInv, TypeInv', SlotsHeld, SlotsHeld', QuotaAccounted, NEW c \in CPUs, DecrementTest(c)
    PROVE  QuotaAccounted'
<1>a. PICK a \in Jobs : a = JobOf(c)
  BY HeldType DEF DecrementTest
<1>1. pc[c] = "decrement" /\ UNCHANGED <<slot_map, job_quota_map, frame>>
  BY DEF DecrementTest, shared, locals
<1>2. CASE a \in Tracked /\ job_quota_map[a] > 0
  <2>1. Goto(c, "subtract")
    BY <1>a, <1>2 DEF DecrementTest
  <2>2. Aside(c)
    BY <1>1, <2>1, GoesAside DEF Labels, Making, Leaving
  <2>3. QED BY <2>2, AsideAccounted
<1>3. CASE ~(a \in Tracked /\ job_quota_map[a] > 0)
  <2>1. PICK label \in {"stat", "tx"} : Goto(c, label)
    BY <1>a, <1>3 DEF DecrementTest, AfterDecrement
  <2>2. ~Accounted(a)
    <3>1. SUFFICES ASSUME Accounted(a) PROVE FALSE
      OBVIOUS
    <3>2. a \in Tracked /\ CountOf(a) \in Nat /\ CountOf(a) >= 1
      BY <1>a, <1>1, <3>1, LeavesCounted DEF Leaving
    <3>3. QED BY <1>3, <3>2 DEF CountOf
  <2>3. Tracked' = Tracked /\ \A j \in Jobs \ {a} : CountOf(j)' = CountOf(j)
    BY <1>1 DEF Tracked, CountOf
  <2>4. label \in Labels \ (Making \cup Leaving)
    BY <2>1 DEF Labels, Making, Leaving
  <2>5. QED BY <1>a, <1>1, <2>1, <2>2, <2>3, <2>4, AccountCount
<1>4. QED BY <1>2, <1>3

LEMMA QuotaInit == Init => QuotaAccounted
<1>1. SUFFICES ASSUME Init, NEW j \in Jobs PROVE Accounted(j)
  BY DEF QuotaAccounted
<1>2. SlotsOf(j) = {} /\ At(j, Making) = {} /\ At(j, Leaving) = {} /\ CountOf(j) = 0
  BY <1>1 DEF Init, SlotsOf, At, Making, Leaving, CountOf, Tracked
<1>3. QED BY <1>2, FS_EmptySet DEF Accounted

LEMMA QuotaStep ==
    TypeInv /\ TypeInv' /\ SlotsHeld /\ SlotsHeld' /\ QuotaAccounted /\ [Next]_vars => QuotaAccounted'
<1>1. SUFFICES ASSUME TypeInv, TypeInv', SlotsHeld, SlotsHeld', QuotaAccounted, [Next]_vars
               PROVE  QuotaAccounted'
  OBVIOUS
<1>2. CASE SetConfig \/ UNCHANGED vars
  <2>1. UNCHANGED <<slot_map, job_quota_map, pc, frame>>
    BY <1>2 DEF SetConfig, vars, locals
  <2>2. QED BY <1>1, <2>1 DEF QuotaAccounted, Accounted, Countable, CountOf, Tracked, SlotsOf,
     At, JobOf
<1>3. ASSUME NEW c \in CPUs, Rx(c) PROVE QuotaAccounted'
  BY <1>1, <1>3, RxAside, AsideAccounted
<1>4. ASSUME NEW c \in CPUs, Step(c) PROVE QuotaAccounted'
  <2>1. CASE CreateWins(c)
    BY <1>1, <2>1, AccountCreateWins
  <2>2. CASE Delete(c)
    BY <1>1, <2>2, AccountDelete
  <2>3. CASE Increment(c) \/ IncrementNew(c)
    BY <1>1, <2>3, AccountIncrement
  <2>4. CASE Subtract(c) \/ DecrementTest(c)
    BY <1>1, <2>4, AccountSubtract, AccountDecrementTest
  <2>5. CASE \/ Precheck(c) \/ QuotaAdmits(c) \/ QuotaRejects(c) \/ CreateLoses(c)
             \/ Relookup(c) \/ RelookupFails(c)
             \/ LockRejects(c) \/ LockPartial(c) \/ LockCompletes(c)
             \/ LookupConfig(c) \/ Transmit(c) \/ BumpStat(c) \/ BumpNewStat(c)
    BY <1>1, <2>5, QuietAside, AsideAccounted
  <2>6. QED BY <1>4, <2>1, <2>2, <2>3, <2>4, <2>5 DEF Step
<1>5. QED BY <1>1, <1>2, <1>3, <1>4 DEF Next

LEMMA QuotaAlways ==
    ASSUME OnceTraffic \/ Cardinality(CPUs) = 1
    PROVE  Spec => []QuotaAccounted
BY QuotaInit, QuotaStep, TypeAlways, HeldAlways, PTL DEF Spec

\* A job's count in job_quota_map is the slots it has in slot_map, but for the
\* CPUs that made a slot and have not counted it yet and those that deleted one
\* and have not taken it off yet (xdp_agg.c:456-462, 579-580): however many CPUs
\* there are, no slot is counted twice, and the subtraction, which is apart from
\* its test (xdp_agg.c:335-338), never takes a count below 0.
THEOREM QuotaAccountingCorrect ==
    ASSUME OnceTraffic \/ Cardinality(CPUs) = 1
    PROVE  Spec => []QuotaAccounting
BY QuotaAlways, AccountedIsAccounting, PTL

\* When no CPU is running, a counted job's count is the slots it holds.
THEOREM CountedAtRestCorrect ==
    ASSUME OnceTraffic \/ Cardinality(CPUs) = 1
    PROVE  Spec => []CountedAtRest
<1>1. TypeInv /\ SlotsHeld /\ QuotaAccounted => CountedAtRest
  <2>1. SUFFICES ASSUME TypeInv, SlotsHeld, QuotaAccounted, AtRest, NEW j \in Tracked
                 PROVE  CountOf(j) = Cardinality(SlotsOf(j))
    BY DEF CountedAtRest
  <2>2. j \in Jobs /\ Accounted(j)
    BY <2>1 DEF TypeInv, MapsTyped, QuotaAccounted, Countable
  <2>3. At(j, Making) = {} /\ At(j, Leaving) = {}
    BY <2>1 DEF AtRest, At, Making, Leaving
  <2>4. CountOf(j) + 0 = Cardinality(SlotsOf(j)) + 0
    BY <2>2, <2>3, FS_EmptySet DEF Accounted
  <2>5. QED BY <2>1, <2>2, <2>4, Counts
<1>2. QED BY <1>1, TypeAlways, HeldAlways, QuotaAlways, PTL

-----------------------------------------------------------------------------
(***************************************************************************)
(* How far the quota q is overshot: a slot or a CPU that is about to make  *)
(* one was admitted when the count was below q, and what the count lacked  *)
(* then were slots of other CPUs.                                          *)
(***************************************************************************)
Capped(q, j) ==
    Cardinality(SlotsOf(j)) + Cardinality(At(j, Creating)) <= q + Cardinality(CPUs) - 1

CapInv(q) ==
    /\ \A c \in CPUs : pc[c] = "quota" => max_slots[c] = q
    /\ \A j \in Jobs : Countable(j) => Capped(q, j)

LEMMA CapTypes ==
    TypeInv /\ SlotsHeld =>
        \A j \in Jobs : /\ Cardinality(SlotsOf(j)) \in Nat
                        /\ Cardinality(At(j, Creating)) \in Nat
                        /\ Cardinality(At(j, Making)) \in Nat
                        /\ Cardinality(At(j, Leaving)) \in Nat
                        /\ CountOf(j) \in Nat
BY Counts, AtFinite

LEMMA TrackedGrows ==
    ASSUME TypeInv, NEW c \in CPUs, Rx(c) \/ Step(c)
    PROVE  Tracked' = Tracked \/ Cardinality(Tracked) < JOB_QUOTA_ENTRIES
<1>1. CASE UNCHANGED job_quota_map
  BY <1>1 DEF Tracked
<1>2. CASE Increment(c) \/ IncrementNew(c) \/ Subtract(c)
  <2>1. CASE /\ JobOf(c) \in Tracked
             /\ \E v : job_quota_map' = Put(job_quota_map, JobOf(c), v)
    BY <2>1 DEF Put, Tracked
  <2>2. Subtract(c) => JobOf(c) \in Tracked
    BY DEF Subtract, TypeInv, Known
  <2>3. QED BY <1>1, <1>2, <2>1, <2>2 DEF Increment, IncrementNew, Subtract, AddOne
<1>3. Rx(c) => UNCHANGED job_quota_map
  BY DEF Rx, RxIgnored, RxHit, RxMiss
<1>4. Step(c) => \/ Increment(c) \/ IncrementNew(c) \/ Subtract(c)
                 \/ UNCHANGED job_quota_map
  BY DEF Step, shared, Precheck, QuotaAdmits, QuotaRejects, CreateWins, CreateLoses, Relookup,
     RelookupFails, LockRejects, LockPartial, LockCompletes, Accumulates, LookupConfig, Delete,
     DecrementTest, Transmit, BumpStat, BumpNewStat
<1>5. QED BY <1>1, <1>2, <1>3, <1>4

\* One CPU that is neither making nor counting is one less of those that are.
LEMMA CrowdBound ==
    ASSUME NEW c \in CPUs, pc[c] \notin Making \cup Creating, NEW j
    PROVE  Cardinality(At(j, Making)) + Cardinality(At(j, Creating)) + 1 <= Cardinality(CPUs)
<1> DEFINE M == At(j, Making)
           C == At(j, Creating)
<1>1. /\ M \cap C = {} /\ c \notin M \cup C
      /\ (M \cup C) \cup {c} \in SUBSET CPUs
  BY DEF At, Making, Creating
<1>2. /\ IsFiniteSet(M) /\ Cardinality(M) \in Nat
      /\ IsFiniteSet(C) /\ Cardinality(C) \in Nat
  BY AtFinite
<1> HIDE DEF M, C
<1>3. /\ IsFiniteSet(M \cup C)
      /\ Cardinality(M \cup C) = Cardinality(M) + Cardinality(C) - Cardinality(M \cap C)
  BY <1>2, FS_Union
<1>4. Cardinality(M \cap C) = 0
  BY <1>1, FS_EmptySet
<1>5. Cardinality((M \cup C) \cup {c}) = Cardinality(M \cup C) + 1
  BY <1>1, <1>3, FS_AddElement
<1>6. Cardinality((M \cup C) \cup {c}) <= Cardinality(CPUs)
  BY <1>1, RunAssumption, FS_Subset
<1>7. Cardinality(M) + Cardinality(C) + 1 <= Cardinality(CPUs)
  BY <1>2, <1>3, <1>4, <1>5, <1>6
<1>8. QED BY <1>7 DEF M, C

\* c makes no slot and does not get to where it may.
LEMMA CapKept ==
    ASSUME NEW q \in Nat, TypeInv, TypeInv', SlotsHeld, SlotsHeld', CapInv(q),
           NEW c \in CPUs, Rx(c) \/ Step(c), Alone(c),
           \A d \in CPUs \ {c} : max_slots'[d] = max_slots[d],
           pc'[c] = "quota" => max_slots'[c] = q,
           \A j \in Jobs :
              Cardinality(SlotsOf(j)') + In(c, j, Creating)' <=
                  Cardinality(SlotsOf(j)) + In(c, j, Creating)
    PROVE  CapInv(q)'
<1>1. \A d \in CPUs : pc'[d] = "quota" => max_slots'[d] = q
  BY DEF CapInv, Alone
<1>2. ASSUME NEW j \in Jobs, Countable(j)' PROVE Capped(q, j)'
  <2>1. Capped(q, j)
    BY <1>2, TrackedGrows, CountableBack DEF CapInv
  <2>2. Cardinality(At(j, Creating)') =
            Cardinality(At(j, Creating)) + In(c, j, Creating)' - In(c, j, Creating)
    BY AtMoves
  <2>3. /\ Cardinality(SlotsOf(j)') + In(c, j, Creating)' <=
              Cardinality(SlotsOf(j)) + In(c, j, Creating)
        /\ In(c, j, Creating) \in Int /\ In(c, j, Creating)' \in Int
        /\ Cardinality(SlotsOf(j)) \in Int /\ Cardinality(SlotsOf(j)') \in Int
        /\ Cardinality(At(j, Creating)) \in Int
    BY CapTypes, CountsNext DEF In
  <2>4. Cardinality(CPUs) \in Int
    BY RunAssumption, FS_CardinalityType
  <2>5. Cardinality(SlotsOf(j)) + Cardinality(At(j, Creating)) <= q + Cardinality(CPUs) - 1
    BY <2>1 DEF Capped
  <2>6. Cardinality(SlotsOf(j)') + Cardinality(At(j, Creating)') <= q + Cardinality(CPUs) - 1
    BY <2>2, <2>3, <2>4, <2>5
  <2>7. QED BY <2>6 DEF Capped
<1>3. QED BY <1>1, <1>2 DEF CapInv

LEMMA CapAway ==
    ASSUME NEW q \in Nat, TypeInv, TypeInv', SlotsHeld, SlotsHeld', CapInv(q),
           NEW c \in CPUs, Rx(c) \/ Step(c), Alone(c), UNCHANGED slot_map,
           \A d \in CPUs \ {c} : max_slots'[d] = max_slots[d],
           pc'[c] = "quota" => max_slots'[c] = q,
           pc'[c] # "create"
    PROVE  CapInv(q)'
<1>1. ASSUME NEW j \in Jobs
      PROVE  Cardinality(SlotsOf(j)') + In(c, j, Creating)' <=
                 Cardinality(SlotsOf(j)) + In(c, j, Creating)
  <2>1. SlotsOf(j)' = SlotsOf(j) /\ In(c, j, Creating)' = 0 /\ In(c, j, Creating) \in {0, 1}
    BY DEF SlotsOf, In, Creating
  <2>2. QED BY <2>1, Counts
<1>2. QED BY <1>1, CapKept

LEMMA CapPrecheck ==
    ASSUME NEW q \in Nat, q > 0, Configs = {q}, TypeInv, TypeInv', SlotsHeld, SlotsHeld', CapInv(q),
           NEW c \in CPUs, Precheck(c)
    PROVE  CapInv(q)'
<1>1. config_map = q
  BY DEF TypeInv, MapsTyped
<1>2. /\ Goto(c, "quota") /\ max_slots' = [max_slots EXCEPT ![c] = q]
      /\ UNCHANGED <<slot_map, frame>>
  <2>1. (IF config_map = NoConfig THEN 0 ELSE config_map) = q
    BY <1>1 DEF NoConfig
  <2>2. Goto(c, "quota") /\ max_slots' = [max_slots EXCEPT ![c] = q]
    BY <2>1 DEF Precheck
  <2>3. QED BY <2>2 DEF Precheck, shared
<1>3. /\ Alone(c) /\ pc'[c] = "quota" /\ max_slots'[c] = q
      /\ \A d \in CPUs \ {c} : max_slots'[d] = max_slots[d]
  BY <1>2, InAfter DEF TypeInv, LocalsTyped
<1>4. Step(c)
  BY DEF Step
<1>5. QED BY <1>2, <1>3, <1>4, CapAway

\* A slot is admitted: the count is below q, and what it lacks are slots that
\* other CPUs are about to count.
LEMMA CapAdmits ==
    ASSUME NEW q \in Nat, q > 0, TypeInv, TypeInv', SlotsHeld, SlotsHeld', QuotaAccounted,
           CapInv(q), NEW c \in CPUs, QuotaAdmits(c)
    PROVE  CapInv(q)'
<1>1. /\ pc[c] = "quota" /\ max_slots[c] = q /\ ~AtQuota(JobOf(c), q)
      /\ Goto(c, "create") /\ UNCHANGED <<slot_map, job_quota_map, frame, max_slots>>
  BY DEF QuotaAdmits, CapInv, shared, locals
<1>2. Alone(c) /\ pc'[c] = "create"
  BY <1>1, InAfter
<1>3. \A d \in CPUs : pc'[d] = "quota" => max_slots'[d] = q
  BY <1>1, <1>2 DEF CapInv, Alone
<1>4. ASSUME NEW j \in Jobs, Countable(j)' PROVE Capped(q, j)'
  <2>1. Countable(j) /\ SlotsOf(j)' = SlotsOf(j)
    BY <1>1, <1>4 DEF Countable, Tracked, SlotsOf
  <2>2. Capped(q, j) /\ Accounted(j)
    BY <2>1 DEF CapInv, QuotaAccounted
  <2>3. Cardinality(At(j, Creating)') =
            Cardinality(At(j, Creating)) + In(c, j, Creating)' - In(c, j, Creating)
    BY <1>2, AtMoves
  <2>4. In(c, j, Creating) = 0
    BY <1>1 DEF In, Creating
  <2>5. CASE JobOf(c) # j
    <3>1. In(c, j, Creating)' = 0
      BY <1>1, <2>5 DEF In, JobOf
    <3>2. Cardinality(At(j, Creating)') = Cardinality(At(j, Creating))
      BY <2>3, <2>4, <3>1, CapTypes
    <3>3. QED BY <2>1, <2>2, <3>2 DEF Capped
  <2>6. CASE JobOf(c) = j
    <3>1. In(c, j, Creating)' = 1
      BY <1>1, <1>2, <2>6 DEF In, JobOf, Creating
    <3>2. CountOf(j) \in Nat /\ CountOf(j) < q
      <4>1. CASE j \in Tracked
        <5>1. ~(job_quota_map[j] >= q) /\ CountOf(j) = job_quota_map[j]
          BY <1>1, <2>6, <4>1 DEF AtQuota, CountOf
        <5>2. QED BY <5>1, CapTypes
      <4>2. CASE j \notin Tracked
        BY <4>2 DEF CountOf
      <4>3. QED BY <4>1, <4>2
    <3>3. Cardinality(At(j, Making)) + Cardinality(At(j, Creating)) + 1 <= Cardinality(CPUs)
      BY <1>1, CrowdBound DEF Making, Creating
    <3>4. CountOf(j) + Cardinality(At(j, Making)) =
              Cardinality(SlotsOf(j)) + Cardinality(At(j, Leaving))
      BY <2>2 DEF Accounted
    <3>5. Cardinality(CPUs) \in Nat
      BY RunAssumption, FS_CardinalityType
    <3>6. Cardinality(SlotsOf(j)') + Cardinality(At(j, Creating)') <=
              q + Cardinality(CPUs) - 1
      BY <2>1, <2>3, <2>4, <3>1, <3>2, <3>3, <3>4, <3>5, CapTypes
    <3>7. QED BY <3>6 DEF Capped
  <2>7. QED BY <2>5, <2>6
<1>5. QED BY <1>3, <1>4 DEF CapInv

\* A slot is made by one CPU less that may make one.
LEMMA CapCreateWins ==
    ASSUME NEW q \in Nat, TypeInv, TypeInv', SlotsHeld, SlotsHeld', CapInv(q),
           NEW c \in CPUs, CreateWins(c)
    PROVE  CapInv(q)'
<1>k. PICK k \in Keys : k = KeyOf(c)
  BY HeldType DEF CreateWins
<1>1. PICK e \in FreeElems : slot_map' = [slot_map EXCEPT ![k] = e]
  BY <1>k DEF CreateWins
<1>2. /\ pc[c] = "create" /\ slot_map[k] = NULL /\ Goto(c, "won")
      /\ UNCHANGED <<frame, max_slots>>
  BY <1>k DEF CreateWins, locals
<1>3. \A m \in Keys \ {k} : slot_map'[m] = slot_map[m]
  BY <1>1 DEF TypeInv, MapsTyped
<1>4. Alone(c) /\ pc'[c] = "won" /\ Step(c)
  BY <1>2, InAfter DEF Step
<1>5. ASSUME NEW j \in Jobs
      PROVE  Cardinality(SlotsOf(j)') + In(c, j, Creating)' <=
                 Cardinality(SlotsOf(j)) + In(c, j, Creating)
  <2>1. Cardinality(SlotsOf(j)') = Cardinality(SlotsOf(j)) + Has(k, j)' - Has(k, j)
    BY <1>3, SlotsMove DEF SlotsHeld
  <2>2. /\ Has(k, j) = 0 /\ (JobOf(c) # j => Has(k, j)' = 0) /\ Has(k, j)' \in {0, 1}
    BY <1>k, <1>2 DEF Has, KeyOf, JobOf
  <2>3. /\ In(c, j, Creating)' = 0
        /\ In(c, j, Creating) = IF JobOf(c) = j THEN 1 ELSE 0
    BY <1>2, <1>4 DEF In, Creating
  <2>4. QED BY <2>1, <2>2, <2>3, Counts
<1>6. QED BY <1>2, <1>4, <1>5, CapKept

LEMMA CapDelete ==
    ASSUME NEW q \in Nat, TypeInv, TypeInv', SlotsHeld, SlotsHeld', CapInv(q),
           NEW c \in CPUs, Delete(c)
    PROVE  CapInv(q)'
<1>k. PICK k \in Keys : k = KeyOf(c)
  BY HeldType DEF Delete
<1>1. /\ pc[c] = "delete" /\ slot_map' = [slot_map EXCEPT ![k] = NULL]
      /\ Goto(c, "decrement") /\ UNCHANGED <<frame, max_slots>>
  BY <1>k DEF Delete, locals
<1>2. slot_map'[k] = NULL /\ \A m \in Keys \ {k} : slot_map'[m] = slot_map[m]
  BY <1>1 DEF TypeInv, MapsTyped
<1>3. Alone(c) /\ pc'[c] = "decrement" /\ Step(c)
  BY <1>1, InAfter DEF Step
<1>4. ASSUME NEW j \in Jobs
      PROVE  Cardinality(SlotsOf(j)') + In(c, j, Creating)' <=
                 Cardinality(SlotsOf(j)) + In(c, j, Creating)
  <2>1. Cardinality(SlotsOf(j)') = Cardinality(SlotsOf(j)) + Has(k, j)' - Has(k, j)
    BY <1>2, SlotsMove DEF SlotsHeld
  <2>2. Has(k, j)' = 0 /\ Has(k, j) \in {0, 1}
    BY <1>2 DEF Has
  <2>3. In(c, j, Creating)' = 0 /\ In(c, j, Creating) = 0
    BY <1>1, <1>3 DEF In, Creating
  <2>4. QED BY <2>1, <2>2, <2>3, Counts
<1>5. QED BY <1>1, <1>3, <1>4, CapKept

\* The steps that take c neither to the quota nor past it.
LEMMA OthersAway ==
    ASSUME TypeInv, NEW c \in CPUs,
           \/ Rx(c)
           \/ QuotaRejects(c) \/ CreateLoses(c) \/ Relookup(c) \/ RelookupFails(c)
           \/ Increment(c) \/ IncrementNew(c)
           \/ LockRejects(c) \/ LockPartial(c) \/ LockCompletes(c)
           \/ LookupConfig(c) \/ DecrementTest(c) \/ Subtract(c) \/ Transmit(c)
           \/ BumpStat(c) \/ BumpNewStat(c)
    PROVE  /\ Alone(c) /\ UNCHANGED slot_map /\ pc'[c] \notin {"quota", "create"}
           /\ \A d \in CPUs \ {c} : max_slots'[d] = max_slots[d]
<1>1. CASE Rx(c)
  <2>1. Aside(c) /\ UNCHANGED max_slots
    BY <1>1, RxAside DEF Rx, RxIgnored, RxHit, RxMiss, locals
  <2>2. pc'[c] \in {"idle", "lock", "precheck"}
    BY <1>1 DEF Rx, RxIgnored, RxHit, RxMiss, Receive, TypeInv, LocalsTyped, Goto
  <2>3. QED BY <2>1, <2>2 DEF Aside
<1>2. CASE Return(c) /\ UNCHANGED slot_map
  BY <1>2 DEF TypeInv, LocalsTyped, Return, Goto, Alone
<1>3. CASE /\ \E label \in {"stat", "newstat", "lost", "increment", "newjob", "lock",
                            "complete", "delete", "subtract", "tx"} : Goto(c, label)
           /\ UNCHANGED <<slot_map, frame, max_slots>>
  BY <1>3, InAfter
<1>4. CASE QuotaRejects(c) \/ CreateLoses(c) \/ Relookup(c) \/ Increment(c) \/ IncrementNew(c)
  BY <1>3, <1>4 DEF QuotaRejects, CreateLoses, Relookup, Increment, IncrementNew, shared, locals
<1>5. CASE LockCompletes(c) \/ LookupConfig(c) \/ DecrementTest(c) \/ Subtract(c)
  BY <1>3, <1>5 DEF LockCompletes, Accumulates, LookupConfig, DecrementTest, Subtract,
     AfterDecrement, shared, locals
<1>6. CASE RelookupFails(c) \/ LockRejects(c) \/ LockPartial(c) \/ Transmit(c)
  BY <1>2, <1>6 DEF RelookupFails, LockRejects, LockPartial, Accumulates, Transmit, shared
<1>7. CASE BumpStat(c) \/ BumpNewStat(c)
  BY <1>2, <1>3, <1>7 DEF BumpStat, BumpNewStat, locals
<1>8. QED BY <1>1, <1>4, <1>5, <1>6, <1>7

LEMMA CapStep ==
    ASSUME NEW q \in Nat, q > 0, Configs = {q}
    PROVE  TypeInv /\ TypeInv' /\ SlotsHeld /\ SlotsHeld' /\ QuotaAccounted /\ CapInv(q) /\ [Next]_vars
              => CapInv(q)'
<1>1. SUFFICES ASSUME TypeInv, TypeInv', SlotsHeld, SlotsHeld', QuotaAccounted, CapInv(q), [Next]_vars
               PROVE  CapInv(q)'
  OBVIOUS
<1>2. CASE SetConfig \/ UNCHANGED vars
  <2>1. UNCHANGED <<slot_map, job_quota_map, pc, frame, max_slots>>
    BY <1>2 DEF SetConfig, vars, locals
  <2>2. QED BY <1>1, <2>1 DEF CapInv, Capped, Countable, Tracked, SlotsOf, At, JobOf
<1>3. ASSUME NEW c \in CPUs, Rx(c) PROVE CapInv(q)'
  BY <1>1, <1>3, OthersAway, CapAway
<1>4. ASSUME NEW c \in CPUs, Step(c) PROVE CapInv(q)'
  <2>1. CASE Precheck(c)
    BY <1>1, <2>1, CapPrecheck
  <2>2. CASE QuotaAdmits(c)
    BY <1>1, <2>2, CapAdmits
  <2>3. CASE CreateWins(c)
    BY <1>1, <2>3, CapCreateWins
  <2>4. CASE Delete(c)
    BY <1>1, <2>4, CapDelete
  <2>5. CASE \/ QuotaRejects(c) \/ CreateLoses(c) \/ Relookup(c) \/ RelookupFails(c)
             \/ Increment(c) \/ IncrementNew(c)
             \/ LockRejects(c) \/ LockPartial(c) \/ LockCompletes(c)
             \/ LookupConfig(c) \/ DecrementTest(c) \/ Subtract(c) \/ Transmit(c)
             \/ BumpStat(c) \/ BumpNewStat(c)
    BY <1>1, <1>4, <2>5, OthersAway, CapAway
  <2>6. QED BY <1>4, <2>1, <2>2, <2>3, <2>4, <2>5 DEF Step
<1>5. QED BY <1>1, <1>2, <1>3, <1>4 DEF Next

LEMMA CapAlways ==
    ASSUME OnceTraffic \/ Cardinality(CPUs) = 1, NEW q \in Nat, q > 0, Configs = {q}
    PROVE  Spec => []CapInv(q)
<1>1. Init => CapInv(q)
  <2>1. SUFFICES ASSUME Init PROVE CapInv(q)
    OBVIOUS
  <2>2. ASSUME NEW j \in Jobs PROVE Capped(q, j)
    <3>1. SlotsOf(j) = {} /\ At(j, Creating) = {}
      BY <2>1 DEF Init, SlotsOf, At, Creating
    <3>2. Cardinality(CPUs) \in Nat /\ Cardinality(CPUs) # 0
      BY RunAssumption, FS_CardinalityType, FS_EmptySet
    <3>3. QED BY <3>1, <3>2, FS_EmptySet DEF Capped
  <2>3. \A c \in CPUs : pc[c] # "quota"
    BY <2>1 DEF Init
  <2>4. QED BY <2>2, <2>3 DEF CapInv
<1>2. TypeInv /\ TypeInv' /\ SlotsHeld /\ SlotsHeld' /\ QuotaAccounted /\ CapInv(q) /\ [Next]_vars
         => CapInv(q)'
  BY CapStep
<1>3. QED BY <1>1, <1>2, TypeAlways, HeldAlways, QuotaAlways, PTL DEF Spec

\* CPUs that passed the quota's test together overshoot it, but by one slot less
\* than there are CPUs, however long the test and the count it tests are apart
\* (xdp_agg.c:433-462): under a configuration that stays, and for jobs that are
\* counted.  On one CPU nobody passes the test together, and the quota is a cap
\* for every traffic.
THEOREM QuotaOvershootCorrect ==
    ASSUME OnceTraffic \/ Cardinality(CPUs) = 1
    PROVE  Spec => []QuotaOvershoot
<1>1. ASSUME NEW q \in Nat, q > 0, Configs = {q}
      PROVE  Spec => []QuotaOvershoot
  <2>1. Spec => []CapInv(q)
    BY <1>1, CapAlways
  <2>2. TypeInv /\ SlotsHeld /\ CapInv(q) => QuotaOvershoot
    <3>1. SUFFICES ASSUME TypeInv, SlotsHeld, CapInv(q), NEW j \in Jobs, Countable(j)
                   PROVE  Cardinality(SlotsOf(j)) <= q + Cardinality(CPUs) - 1
      BY <1>1 DEF QuotaOvershoot
    <3>2. Cardinality(SlotsOf(j)) + Cardinality(At(j, Creating)) <= q + Cardinality(CPUs) - 1
      BY <3>1 DEF CapInv, Capped
    <3>3. Cardinality(CPUs) \in Nat
      BY RunAssumption, FS_CardinalityType
    <3>4. QED BY <1>1, <3>1, <3>2, <3>3, CapTypes
  <2>3. QED BY <2>1, <2>2, TypeAlways, HeldAlways, PTL
<1>2. CASE \E q \in Nat : q > 0 /\ Configs = {q}
  BY <1>1, <1>2
<1>3. CASE ~\E q \in Nat : q > 0 /\ Configs = {q}
  <2>1. QuotaOvershoot
    <3>1. SUFFICES ASSUME Configs = {config_map}, config_map > 0 PROVE FALSE
      BY DEF QuotaOvershoot
    <3>2. config_map \in Nat
      BY <3>1, RunAssumption DEF NoConfig
    <3>3. QED BY <1>3, <3>1, <3>2
  <2>2. QED BY <2>1, PTL
<1>4. QED BY <1>2, <1>3

-----------------------------------------------------------------------------
(***************************************************************************)
(* The drop counters, for every traffic: a frame is on the wire, in the    *)
(* hands of one CPU, or gone, so it is dropped once; and a CPU that has    *)
(* dropped it has yet to count it.                                         *)
(***************************************************************************)
Bumps == {"stat", "newstat"}
Bumping(s) == {c \in CPUs : pc[c] \in Bumps /\ StatOf(c) = s}
Shown(s)   == IF s \in DOMAIN drop_stats THEN drop_stats[s] ELSE 0

DroppedOnce ==
    /\ \A c \in CPUs : pc[c] # "idle" => frame[c] \notin wire
    /\ \A c, d \in CPUs :
          pc[c] # "idle" /\ pc[d] # "idle" /\ frame[c] = frame[d] => c = d
    /\ \A x \in drops : x[2] \notin wire
    /\ \A c \in CPUs : pc[c] \notin Bumps \cup {"idle"} =>
          \A x \in drops : x[2] # frame[c]
    /\ \A c \in CPUs : pc[c] \in {"idle", "precheck", "quota"} => slot[c] = NULL

Tallied(s) ==
    /\ Shown(s) + Cardinality(Bumping(s)) <= Cardinality(DropsFor(s))
    /\ s \in DOMAIN drop_stats => drop_stats[s] >= 1
    /\ DropsFor(s) # {} => s \in DOMAIN drop_stats \/ Bumping(s) # {}

DropsTallied == DroppedOnce /\ IsFiniteSet(drops) /\ \A s \in Stats : Tallied(s)

LEMMA TallyTypes ==
    TypeInv /\ IsFiniteSet(drops) =>
        \A s \in Stats :
           /\ IsFiniteSet(DropsFor(s)) /\ Cardinality(DropsFor(s)) \in Nat
           /\ IsFiniteSet(Bumping(s)) /\ Cardinality(Bumping(s)) \in Nat
           /\ Shown(s) \in Nat
<1>1. SUFFICES ASSUME TypeInv, IsFiniteSet(drops), NEW s \in Stats
               PROVE  /\ IsFiniteSet(DropsFor(s)) /\ IsFiniteSet(Bumping(s))
                      /\ Shown(s) \in Nat
  BY FS_CardinalityType
<1>2. DropsFor(s) \in SUBSET drops /\ Bumping(s) \in SUBSET CPUs
  BY DEF DropsFor, Bumping
<1>3. Shown(s) \in Nat
  BY <1>1 DEF Shown, TypeInv, MapsTyped
<1>4. QED BY <1>1, <1>2, <1>3, RunAssumption, FS_Subset

\* Only CPU c goes on, and drops nothing and counts nothing.
Carries(c) ==
    /\ Alone(c) /\ \A d \in CPUs \ {c} : slot'[d] = slot[d]
    /\ UNCHANGED <<drops, drop_stats>> /\ wire' \subseteq wire
    /\ pc[c] \notin Bumps /\ pc'[c] \notin Bumps
    /\ \/ pc'[c] = "idle"
       \/ pc[c] # "idle" /\ frame'[c] = frame[c]
       \/ pc[c] = "idle" /\ frame'[c] \in wire \ wire'
    /\ pc'[c] \in {"idle", "precheck", "quota"} => slot'[c] = NULL

LEMMA CarriesTallied ==
    ASSUME TypeInv, DropsTallied, NEW c \in CPUs, Carries(c)
    PROVE  DropsTallied'
<1>1. DroppedOnce'
  <2>1. \A d \in CPUs : pc'[d] # "idle" => frame'[d] \notin wire'
    BY DEF DropsTallied, DroppedOnce, Carries, Alone
  <2>2. \A d \in CPUs : d # c /\ pc'[d] # "idle" /\ pc'[c] # "idle" => frame'[d] # frame'[c]
    BY DEF DropsTallied, DroppedOnce, Carries, Alone
  <2>3. \A d, b \in CPUs :
            pc'[d] # "idle" /\ pc'[b] # "idle" /\ frame'[d] = frame'[b] => d = b
    BY <2>2 DEF DropsTallied, DroppedOnce, Carries, Alone
  <2>4. \A x \in drops' : x[2] \notin wire'
    BY DEF DropsTallied, DroppedOnce, Carries
  <2>5. \A d \in CPUs : pc'[d] \notin Bumps \cup {"idle"} =>
            \A x \in drops' : x[2] # frame'[d]
    BY DEF DropsTallied, DroppedOnce, Carries, Alone
  <2>6. \A d \in CPUs : pc'[d] \in {"idle", "precheck", "quota"} => slot'[d] = NULL
    BY DEF DropsTallied, DroppedOnce, Carries, Alone
  <2>7. QED BY <2>1, <2>3, <2>4, <2>5, <2>6 DEF DroppedOnce
<1>2. \A s \in Stats : Bumping(s)' = Bumping(s)
  BY DEF Carries, Alone, Bumping, StatOf
<1>3. QED
  BY <1>1, <1>2 DEF DropsTallied, Tallied, Shown, DropsFor, Carries

\* The frame of c is dropped for the reason s.
Drops(c, s) ==
    /\ pc[c] \notin Bumps \cup {"idle"}
    /\ drops' = drops \cup {<<s, frame[c]>>}
    /\ Goto(c, "stat")
    /\ StatOf(c) = s
    /\ UNCHANGED <<wire, drop_stats, frame, slot>>

LEMMA DropsAreTallied ==
    ASSUME TypeInv, DropsTallied, NEW c \in CPUs, NEW s \in Stats, Drops(c, s)
    PROVE  DropsTallied'
<1> DEFINE x == <<s, frame[c]>>
<1>1. /\ pc'[c] = "stat" /\ \A d \in CPUs \ {c} : pc'[d] = pc[d]
      /\ pc[c] \notin Bumps \cup {"idle"} /\ StatOf(c) = s
      /\ drops' = drops \cup {x} /\ UNCHANGED <<wire, drop_stats, frame, slot>>
  BY DEF Drops, TypeInv, LocalsTyped, Goto
<1>2. x \notin drops /\ x[2] = frame[c] /\ x[1] = s
  BY <1>1 DEF DropsTallied, DroppedOnce
<1>3. DroppedOnce'
  <2>1. "stat" \in Bumps /\ "stat" # "idle"
    BY DEF Bumps
  <2>2. \A y \in drops' : y[2] \notin wire'
    BY <1>1, <1>2 DEF DropsTallied, DroppedOnce
  <2>3. \A d \in CPUs : pc'[d] \notin Bumps \cup {"idle"} =>
            \A y \in drops' : y[2] # frame'[d]
    BY <1>1, <1>2, <2>1 DEF DropsTallied, DroppedOnce
  <2>4. /\ \A d \in CPUs : pc'[d] # "idle" => frame'[d] \notin wire' /\ pc[d] # "idle"
        /\ \A d \in CPUs : pc'[d] \in {"idle", "precheck", "quota"} => slot'[d] = NULL
    BY <1>1, <2>1 DEF DropsTallied, DroppedOnce
  <2>5. \A d, b \in CPUs :
            pc'[d] # "idle" /\ pc'[b] # "idle" /\ frame'[d] = frame'[b] => d = b
    BY <1>1, <2>4 DEF DropsTallied, DroppedOnce
  <2>6. QED BY <2>2, <2>3, <2>4, <2>5 DEF DroppedOnce
<1>4. IsFiniteSet(drops')
  BY <1>1, FS_AddElement DEF DropsTallied
<1>5. ASSUME NEW t \in Stats PROVE Tallied(t)'
  <2>1. StatOf(c)' = s /\ \A d \in CPUs : StatOf(d)' = StatOf(d)
    BY <1>1 DEF StatOf
  <2>2. CASE t # s
    <3>1. DropsFor(t)' = DropsFor(t)
      BY <1>1, <1>2, <2>2 DEF DropsFor
    <3>2. Bumping(t)' = Bumping(t)
      BY <1>1, <2>1, <2>2 DEF Bumping
    <3>3. QED BY <1>1, <3>1, <3>2 DEF DropsTallied, Tallied, Shown
  <2>3. CASE t = s
    <3>1. DropsFor(t)' = DropsFor(t) \cup {x} /\ x \notin DropsFor(t)
      BY <1>1, <1>2, <2>3 DEF DropsFor
    <3>2. Bumping(t)' = Bumping(t) \cup {c} /\ c \notin Bumping(t)
      BY <1>1, <2>1, <2>3 DEF Bumping, Bumps
    <3>3. /\ IsFiniteSet(DropsFor(t)) /\ Cardinality(DropsFor(t)) \in Nat
          /\ IsFiniteSet(Bumping(t)) /\ Cardinality(Bumping(t)) \in Nat /\ Shown(t) \in Nat
      BY TallyTypes DEF DropsTallied
    <3>4. /\ Cardinality(DropsFor(t)') = Cardinality(DropsFor(t)) + 1
          /\ Cardinality(Bumping(t)') = Cardinality(Bumping(t)) + 1
      BY <3>1, <3>2, <3>3, FS_AddElement
    <3>5. Shown(t)' = Shown(t)
      BY <1>1 DEF Shown
    <3>6. Shown(t) + Cardinality(Bumping(t)) <= Cardinality(DropsFor(t))
      BY DEF DropsTallied, Tallied
    <3>7. Shown(t)' + Cardinality(Bumping(t)') <= Cardinality(DropsFor(t)')
      BY <3>3, <3>4, <3>5, <3>6
    <3>8. QED BY <1>1, <3>2, <3>7 DEF DropsTallied, Tallied
  <2>4. QED BY <2>2, <2>3
<1>6. QED BY <1>3, <1>4, <1>5 DEF DropsTallied

\* The drop is counted, or made the first; a count that was lost is only less.
LEMMA CountsAreTallied ==
    ASSUME TypeInv, DropsTallied, NEW c \in CPUs, pc[c] \in Bumps, Return(c),
           UNCHANGED <<wire, drops>>,
           NEW s \in Stats, s = StatOf(c), NEW v \in Nat, v >= 1, v <= Shown(s) + 1,
           drop_stats' = Put(drop_stats, s, v)
    PROVE  DropsTallied'
<1>1. /\ pc'[c] = "idle" /\ slot'[c] = NULL
      /\ \A d \in CPUs \ {c} :
            pc'[d] = pc[d] /\ frame'[d] = frame[d] /\ slot'[d] = slot[d]
  BY DEF TypeInv, LocalsTyped, Return, Goto
<1>2. DroppedOnce'
  BY <1>1 DEF DropsTallied, DroppedOnce
<1>3. /\ DOMAIN drop_stats' = DOMAIN drop_stats \cup {s} /\ drop_stats'[s] = v
      /\ \A t \in DOMAIN drop_stats : t # s => drop_stats'[t] = drop_stats[t]
  <2> DEFINE new == Put(drop_stats, s, v)
  <2>1. /\ DOMAIN new = DOMAIN drop_stats \cup {s} /\ new[s] = v
        /\ \A t \in DOMAIN drop_stats : t # s => new[t] = drop_stats[t]
    BY DEF Put
  <2>2. drop_stats' = new
    OBVIOUS
  <2> HIDE DEF new
  <2>3. QED BY <2>1, <2>2
<1>4. ASSUME NEW t \in Stats PROVE Tallied(t)'
  <2>1. DropsFor(t)' = DropsFor(t)
    BY DEF DropsFor
  <2>2. CASE t # s
    <3>1. Bumping(t)' = Bumping(t)
      BY <1>1, <2>2 DEF Bumping, StatOf, Bumps
    <3>2. /\ Shown(t)' = Shown(t)
          /\ t \in DOMAIN drop_stats' <=> t \in DOMAIN drop_stats
          /\ t \in DOMAIN drop_stats => drop_stats'[t] = drop_stats[t]
      BY <1>3, <2>2 DEF Shown
    <3>3. QED BY <2>1, <3>1, <3>2 DEF DropsTallied, Tallied
  <2>3. CASE t = s
    <3>1. Bumping(t)' = Bumping(t) \ {c} /\ c \in Bumping(t)
      BY <1>1, <2>3 DEF Bumping, StatOf, Bumps
    <3>2. /\ IsFiniteSet(Bumping(t)) /\ Cardinality(Bumping(t)) \in Nat
          /\ Shown(t) \in Nat /\ Cardinality(DropsFor(t)) \in Nat
      BY TallyTypes DEF DropsTallied
    <3>3. Cardinality(Bumping(t)') = Cardinality(Bumping(t)) - 1
      BY <3>1, <3>2, FS_RemoveElement
    <3>4. t \in DOMAIN drop_stats' /\ drop_stats'[t] = v /\ Shown(t)' = v
      BY <1>3, <2>3 DEF Shown
    <3>5. Shown(t) + Cardinality(Bumping(t)) <= Cardinality(DropsFor(t))
      BY DEF DropsTallied, Tallied
    <3>6. Shown(t)' + Cardinality(Bumping(t)') <= Cardinality(DropsFor(t)')
      BY <2>1, <2>3, <3>2, <3>3, <3>4, <3>5
    <3>7. QED BY <3>4, <3>6 DEF Tallied
  <2>4. QED BY <2>2, <2>3
<1>5. QED BY <1>2, <1>4 DEF DropsTallied

LEMMA BumpTallied ==
    ASSUME TypeInv, DropsTallied, NEW c \in CPUs, BumpStat(c) \/ BumpNewStat(c)
    PROVE  DropsTallied'
<1>s. PICK s \in Stats : s = StatOf(c)
  BY DEF StatOf, Stats
<1>1. pc[c] \in Bumps /\ UNCHANGED <<wire, drops>>
  BY DEF BumpStat, BumpNewStat, Bumps, history
<1>2. Shown(s) \in Nat
  BY TallyTypes DEF DropsTallied
<1>3. CASE BumpStat(c) /\ s \in DOMAIN drop_stats
  <2> DEFINE v == Shown(s) + 1
  <2>1. Return(c) /\ drop_stats' = Put(drop_stats, s, v)
    BY <1>s, <1>3 DEF BumpStat, Shown
  <2>2. v \in Nat /\ v >= 1 /\ v <= Shown(s) + 1
    BY <1>2
  <2> HIDE DEF v
  <2>3. QED BY <1>s, <1>1, <2>1, <2>2, CountsAreTallied
<1>4. CASE BumpNewStat(c)
  <2>1. Return(c) /\ drop_stats' = Put(drop_stats, s, 1)
    BY <1>s, <1>4 DEF BumpNewStat, FirstCount
  <2>2. 1 \in Nat /\ 1 >= 1 /\ 1 <= Shown(s) + 1
    BY <1>2
  <2>3. QED BY <1>s, <1>1, <2>1, <2>2, CountsAreTallied
<1>5. CASE BumpStat(c) /\ s \notin DOMAIN drop_stats
  <2>1. pc[c] = "stat" /\ Goto(c, "newstat") /\ UNCHANGED <<drop_stats, frame, slot>>
    BY <1>s, <1>5 DEF BumpStat, locals
  <2>2. pc'[c] = "newstat" /\ \A d \in CPUs \ {c} : pc'[d] = pc[d]
    BY <2>1 DEF TypeInv, LocalsTyped, Goto
  <2>3. DroppedOnce'
    BY <1>1, <2>1, <2>2 DEF DropsTallied, DroppedOnce, Bumps
  <2>4. \A t \in Stats : Bumping(t)' = Bumping(t)
    BY <2>1, <2>2 DEF Bumping, StatOf, Bumps
  <2>5. QED BY <1>1, <2>1, <2>3, <2>4 DEF DropsTallied, Tallied, Shown, DropsFor
<1>6. QED BY <1>3, <1>4, <1>5

\* A completed sum without a configuration is dropped; c has a slot pointer then.
LEMMA AfterDecrementTallied ==
    ASSUME TypeInv, DropsTallied, NEW c \in CPUs, pc[c] \in Leaving, AfterDecrement(c),
           UNCHANGED <<wire, drop_stats, frame, slot>>
    PROVE  DropsTallied'
<1>1. pc[c] \notin Bumps \cup {"idle"} /\ slot[c] # NULL
  BY DEF Leaving, Bumps, TypeInv, Known, Pointing
<1>2. CASE final[c] = NoFinal
  <2>1. Drops(c, STAT_DROPPED_NO_CONFIG)
    BY <1>1, <1>2 DEF AfterDecrement, Drops, StatOf
  <2>2. QED BY <2>1, DropsAreTallied DEF Stats
<1>3. CASE final[c] # NoFinal
  <2>1. Goto(c, "tx") /\ UNCHANGED drops
    BY <1>3 DEF AfterDecrement
  <2>2. Alone(c) /\ pc'[c] = "tx"
    BY <2>1, InAfter
  <2>3. Carries(c)
    BY <1>1, <2>1, <2>2 DEF Carries, Bumps
  <2>4. QED BY <2>3, CarriesTallied
<1>4. QED BY <1>2, <1>3

LEMMA GoesCarries ==
    ASSUME TypeInv, NEW c \in CPUs, NEW label \in Labels \ Bumps, Goto(c, label),
           pc[c] \notin Bumps \cup {"idle"},
           UNCHANGED <<frame, drops, drop_stats, wire>>,
           \A d \in CPUs \ {c} : slot'[d] = slot[d],
           label \in {"idle", "precheck", "quota"} => slot'[c] = NULL
    PROVE  Carries(c)
BY InAfter DEF Carries

LEMMA ReturnsCarries ==
    ASSUME TypeInv, NEW c \in CPUs, Return(c), pc[c] \notin Bumps,
           UNCHANGED <<drops, drop_stats, wire>>
    PROVE  Carries(c)
BY DEF Carries, Alone, TypeInv, LocalsTyped, Return, Goto, Bumps

LEMMA RxCarries ==
    ASSUME TypeInv, DropsTallied, NEW c \in CPUs, Rx(c)
    PROVE  Carries(c)
<1>1. PICK f \in wire :
        /\ pc[c] = "idle" /\ wire' = wire \ {f} /\ UNCHANGED <<drops, drop_stats>>
        /\ \/ UNCHANGED <<pc, frame, slot>>
           \/ /\ frame' = [frame EXCEPT ![c] = f]
              /\ \/ Goto(c, "lock") /\ \E e : slot' = [slot EXCEPT ![c] = e]
                 \/ Goto(c, "precheck") /\ UNCHANGED slot
  BY DEF Rx, RxIgnored, RxHit, RxMiss, Receive, history, locals
<1>2. slot[c] = NULL
  BY <1>1 DEF DropsTallied, DroppedOnce
<1>3. QED BY <1>1, <1>2 DEF Carries, Alone, TypeInv, LocalsTyped, Goto, Bumps

LEMMA OthersCarry ==
    ASSUME TypeInv, DropsTallied, NEW c \in CPUs,
           \/ Precheck(c) \/ QuotaAdmits(c) \/ CreateWins(c) \/ CreateLoses(c)
           \/ Relookup(c) \/ RelookupFails(c) \/ Increment(c) \/ IncrementNew(c)
           \/ LockRejects(c) \/ LockPartial(c) \/ LockCompletes(c)
           \/ LookupConfig(c) \/ Delete(c) \/ Transmit(c)
    PROVE  Carries(c)
<1>1. CASE RelookupFails(c) \/ LockRejects(c) \/ LockPartial(c) \/ Transmit(c)
  <2>1. /\ pc[c] \in {"won", "lost", "lock", "tx"} /\ Return(c)
        /\ UNCHANGED <<drops, drop_stats, wire>>
    BY <1>1 DEF RelookupFails, LockRejects, LockPartial, Accumulates, Transmit, shared, history
  <2>2. QED BY <2>1, ReturnsCarries DEF Bumps
<1>2. CASE Precheck(c) \/ QuotaAdmits(c)
  <2>1. /\ pc[c] \in {"precheck", "quota"}
        /\ UNCHANGED <<frame, slot, drops, drop_stats, wire>>
        /\ \E label \in {"quota", "create"} : Goto(c, label)
    BY <1>2 DEF Precheck, QuotaAdmits, shared, history, locals
  <2>2. slot[c] = NULL
    BY <2>1 DEF DropsTallied, DroppedOnce
  <2>3. QED BY <2>1, <2>2, GoesCarries DEF Bumps, Labels
<1>3. CASE \/ CreateWins(c) \/ CreateLoses(c) \/ Increment(c) \/ IncrementNew(c)
           \/ LockCompletes(c) \/ LookupConfig(c) \/ Delete(c)
  <2>1. /\ pc[c] \in {"create", "increment", "newjob", "lock", "complete", "delete"}
        /\ UNCHANGED <<frame, slot, drops, drop_stats, wire>>
        /\ \E label \in {"won", "lost", "newjob", "lock", "complete", "delete", "decrement"} :
              Goto(c, label)
    BY <1>3 DEF CreateWins, CreateLoses, Increment, IncrementNew, LockCompletes, Accumulates,
       LookupConfig, Delete, shared, history, locals
  <2>2. QED BY <2>1, GoesCarries DEF Bumps, Labels
<1>4. CASE Relookup(c)
  <2>1. /\ pc[c] \in {"won", "lost"} /\ UNCHANGED <<frame, drops, drop_stats, wire>>
        /\ \E label \in {"increment", "lock"} : Goto(c, label)
        /\ \A d \in CPUs \ {c} : slot'[d] = slot[d]
    BY <1>4 DEF Relookup, shared, history, TypeInv, LocalsTyped
  <2>2. QED BY <2>1, GoesCarries DEF Bumps, Labels
<1>5. QED BY <1>1, <1>2, <1>3, <1>4

LEMMA TallyStep == TypeInv /\ DropsTallied /\ [Next]_vars => DropsTallied'
<1>1. SUFFICES ASSUME TypeInv, DropsTallied, [Next]_vars PROVE DropsTallied'
  OBVIOUS
<1>2. CASE SetConfig \/ UNCHANGED vars
  <2>1. UNCHANGED <<drop_stats, wire, pc, frame, slot, drops>>
    BY <1>2 DEF SetConfig, vars, locals, history
  <2>2. QED BY <1>1, <2>1 DEF DropsTallied, DroppedOnce, Tallied, Shown, DropsFor, Bumping,
     StatOf
<1>3. ASSUME NEW c \in CPUs, Rx(c) PROVE DropsTallied'
  BY <1>1, <1>3, RxCarries, CarriesTallied
<1>4. ASSUME NEW c \in CPUs, Step(c) PROVE DropsTallied'
  <2>1. CASE QuotaRejects(c)
    <3>1. Drops(c, STAT_DROPPED_FAIRNESS_QUOTA)
      BY <1>1, <2>1 DEF QuotaRejects, Drops, StatOf, DropsTallied, DroppedOnce, Bumps, shared,
         locals
    <3>2. QED BY <1>1, <3>1, DropsAreTallied DEF Stats
  <2>2. CASE BumpStat(c) \/ BumpNewStat(c)
    BY <1>1, <2>2, BumpTallied
  <2>3. CASE Subtract(c)
    BY <1>1, <2>3, AfterDecrementTallied DEF Subtract, Leaving, locals
  <2>4. CASE DecrementTest(c)
    <3>1. pc[c] = "decrement" /\ UNCHANGED <<wire, drop_stats, frame, slot>>
      BY <2>4 DEF DecrementTest, shared, locals
    <3>2. CASE Goto(c, "subtract") /\ UNCHANGED drops
      <4>1. Carries(c)
        BY <1>1, <3>1, <3>2, GoesCarries DEF Bumps, Labels
      <4>2. QED BY <1>1, <4>1, CarriesTallied
    <3>3. CASE AfterDecrement(c)
      BY <1>1, <3>1, <3>3, AfterDecrementTallied DEF Leaving
    <3>4. QED BY <2>4, <3>2, <3>3 DEF DecrementTest
  <2>5. CASE \/ Precheck(c) \/ QuotaAdmits(c) \/ CreateWins(c) \/ CreateLoses(c)
             \/ Relookup(c) \/ RelookupFails(c) \/ Increment(c) \/ IncrementNew(c)
             \/ LockRejects(c) \/ LockPartial(c) \/ LockCompletes(c)
             \/ LookupConfig(c) \/ Delete(c) \/ Transmit(c)
    BY <1>1, <2>5, OthersCarry, CarriesTallied
  <2>6. QED BY <1>4, <2>1, <2>2, <2>3, <2>4, <2>5 DEF Step
<1>5. QED BY <1>1, <1>2, <1>3, <1>4 DEF Next

LEMMA TallyInit == Init => DropsTallied
<1>1. SUFFICES ASSUME Init PROVE DropsTallied
  OBVIOUS
<1>2. DroppedOnce
  BY <1>1 DEF Init, DroppedOnce
<1>3. ASSUME NEW s \in Stats PROVE Tallied(s)
  <2>1. Bumping(s) = {} /\ DropsFor(s) = {} /\ Shown(s) = 0 /\ s \notin DOMAIN drop_stats
    BY <1>1 DEF Init, Bumping, Bumps, DropsFor, Shown
  <2>2. QED BY <2>1, FS_EmptySet DEF Tallied
<1>4. IsFiniteSet(drops)
  BY <1>1, FS_EmptySet DEF Init
<1>5. QED BY <1>2, <1>3, <1>4 DEF DropsTallied

\* A drop counter never says more than was dropped for its reason, and when no
\* CPU is running it says something if anything was dropped: a dropped round
\* does not vanish without a trace (xdp_agg.c:273-306), for every traffic and
\* configuration, duplicates included.
THEOREM StatsSoundCorrect == Spec => []StatsSound
<1>1. TypeInv /\ DropsTallied => StatsSound
  <2>1. SUFFICES ASSUME TypeInv, DropsTallied, NEW s \in Stats
                 PROVE  /\ s \in DOMAIN drop_stats =>
                              drop_stats[s] \in 1 .. Cardinality(DropsFor(s))
                        /\ AtRest /\ DropsFor(s) # {} => s \in DOMAIN drop_stats
    BY DEF StatsSound
  <2>2. Tallied(s) /\ Shown(s) \in Nat
        /\ Cardinality(Bumping(s)) \in Nat /\ Cardinality(DropsFor(s)) \in Nat
    BY <2>1, TallyTypes DEF DropsTallied
  <2>3. ASSUME s \in DOMAIN drop_stats
        PROVE  drop_stats[s] \in 1 .. Cardinality(DropsFor(s))
    <3>1. Shown(s) = drop_stats[s] /\ drop_stats[s] >= 1
      BY <2>2, <2>3 DEF Shown, Tallied
    <3>2. Shown(s) + Cardinality(Bumping(s)) <= Cardinality(DropsFor(s))
      BY <2>2 DEF Tallied
    <3>3. QED BY <2>2, <3>1, <3>2
  <2>4. AtRest => Bumping(s) = {}
    BY DEF AtRest, Bumping, Bumps
  <2>5. QED BY <2>2, <2>3, <2>4 DEF Tallied
<1>2. QED BY <1>1, TallyInit, TallyStep, TypeAlways, PTL DEF Spec
=============================================================================
