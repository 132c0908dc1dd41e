------------------------ MODULE XdpAggRefinementProofs ------------------------
(***************************************************************************)
(* XdpAgg implements Aggregation: on several CPUs when every worker's      *)
(* frame arrives at most once, and on one CPU for every traffic.  A round  *)
(* is one atomic object, although the program that closes it takes its     *)
(* slot down and sends its sum in steps of their own.                      *)
(***************************************************************************)
EXTENDS XdpAggRefinement, XdpAggQuotaProofs

HasSum(c) == pc[c] \in After /\ final[c] # NoFinal

\* A sum in hand is of as many workers as the slot expected, c's among them ...
SumWhole(c) ==
    LET e == final[c]
        S == SumOf(e).workers
    IN  /\ e.key = KeyOf(c)
        /\ e.num_workers \in 1 .. MAX_TRACKED_WORKERS
        /\ e.chunk_len \in 0 .. NETSUM_MAX_CHUNK_LEN
        /\ frame[c].worker_id \in S
        /\ IsFiniteSet(S) /\ Cardinality(S) = e.num_workers

\* ... and they are all there are: nobody has or will have a frame of its key.
SumLast(c) ==
    /\ \A f \in Good : f.key = KeyOf(c) => f \notin wire
    /\ \A d \in CPUs : pc[d] \in Before => KeyOf(d) # KeyOf(c)
    /\ \A d \in CPUs : HasSum(d) /\ KeyOf(d) = KeyOf(c) => d = c
    /\ pc[c] \in Gone => slot_map[KeyOf(c)] = NULL

SumsInHand == \A c \in CPUs : HasSum(c) => SumWhole(c) /\ SumLast(c)

\* Every slot expects a number of workers that MayCreate admits.
Sized ==
    /\ \A k \in Keys : slot_map[k] # NULL => SlotSized(SlotOf(k))
    /\ \A c \in CPUs : pc[c] \in {"precheck", "quota", "create"} => MayCreate(frame[c])

Ready == TypeInv /\ Once /\ SumsInHand /\ Sized

LEMMA ReadyInit == Init => SumsInHand /\ Sized
BY DEF Init, SumsInHand, HasSum, After, Sized

\* The steps of c that make no slot, delete none and add nothing to one; sums
\* are only lost, and only by c.
Steady(c) ==
    /\ UNCHANGED <<slot_map, elem, emitted>>
    /\ \A d \in CPUs \ {c} : pc'[d] = pc[d] /\ frame'[d] = frame[d] /\ final'[d] = final[d]
    /\ HasSum(c)' => HasSum(c) /\ final'[c] = final[c] /\ frame'[c] = frame[c]
    /\ pc'[c] \in Gone => pc[c] \in Gone /\ frame'[c] = frame[c]

Keeps(c) ==
    /\ Steady(c) /\ wire' \subseteq wire
    /\ pc'[c] \in Before =>
          \/ pc[c] \in Before /\ frame'[c] = frame[c]
          \/ frame'[c] \in wire \cap Good
    /\ pc'[c] \in {"precheck", "quota", "create"} => MayCreate(frame'[c])

LEMMA KeepsReady ==
    ASSUME SumsInHand, Sized, NEW c \in CPUs, Keeps(c)
    PROVE  SumsInHand' /\ Sized'
<1>1. ASSUME NEW d \in CPUs, HasSum(d)'
      PROVE  /\ HasSum(d) /\ final'[d] = final[d] /\ frame'[d] = frame[d]
             /\ KeyOf(d)' = KeyOf(d) /\ (pc'[d] \in Gone => pc[d] \in Gone)
  BY <1>1 DEF Keeps, Steady, HasSum, KeyOf
<1>2. ASSUME NEW d \in CPUs, HasSum(d)' PROVE SumWhole(d)'
  BY <1>1, <1>2 DEF SumsInHand, SumWhole, SumOf
<1>3. ASSUME NEW d \in CPUs, HasSum(d)' PROVE SumLast(d)'
  <2>1. SumLast(d) /\ KeyOf(d)' = KeyOf(d)
    BY <1>1, <1>3 DEF SumsInHand
  <2>2. \A f \in Good : f.key = KeyOf(d)' => f \notin wire'
    BY <2>1 DEF SumLast, Keeps, Steady
  <2>3. \A b \in CPUs : pc'[b] \in Before => KeyOf(b)' # KeyOf(d)'
    BY <2>1 DEF SumLast, Keeps, Steady, KeyOf
  <2>4. \A b \in CPUs : HasSum(b)' /\ KeyOf(b)' = KeyOf(d)' => b = d
    BY <1>1, <2>1 DEF SumLast
  <2>5. pc'[d] \in Gone => slot_map'[KeyOf(d)'] = NULL
    BY <1>1, <1>3, <2>1 DEF SumLast, Keeps, Steady
  <2>6. QED BY <2>2, <2>3, <2>4, <2>5 DEF SumLast
<1>4. Sized'
  BY DEF Keeps, Steady, Sized, SlotSized, SlotOf
<1>5. QED BY <1>2, <1>3, <1>4 DEF SumsInHand

LEMMA RxKeeps ==
    ASSUME TypeInv, NEW c \in CPUs, Rx(c)
    PROVE  Keeps(c) /\ ~HasSum(c) /\ ~HasSum(c)'
<1>1. PICK f \in wire :
        /\ pc[c] = "idle" /\ wire' = wire \ {f} /\ UNCHANGED <<slot_map, elem, emitted, final>>
        /\ \/ UNCHANGED <<pc, frame>>
           \/ /\ WellFormed(f) /\ frame' = [frame EXCEPT ![c] = f]
              /\ Goto(c, "lock") \/ (Goto(c, "precheck") /\ MayCreate(f))
  BY DEF Rx, RxIgnored, RxHit, RxMiss, Receive, locals
<1>2. f \in Frames
  BY <1>1 DEF TypeInv, MapsTyped
<1>3. CASE UNCHANGED <<pc, frame>>
  BY <1>1, <1>3 DEF Keeps, Steady, HasSum, Before, Gone, After
<1>4. CASE /\ WellFormed(f) /\ frame' = [frame EXCEPT ![c] = f]
           /\ Goto(c, "lock") \/ (Goto(c, "precheck") /\ MayCreate(f))
  <2>1. /\ frame'[c] = f /\ f \in wire \cap Good
        /\ pc'[c] = "lock" \/ (pc'[c] = "precheck" /\ MayCreate(f))
        /\ \A d \in CPUs \ {c} : pc'[d] = pc[d] /\ frame'[d] = frame[d]
    BY <1>1, <1>2, <1>4 DEF TypeInv, LocalsTyped, Goto, Good
  <2>2. QED BY <1>1, <2>1 DEF Keeps, Steady, HasSum, After, Gone
<1>5. QED BY <1>1, <1>3, <1>4

\* What the quiet steps do with sums: they keep them, but for a completion that
\* finds no configuration.
LEMMA QuietSums ==
    ASSUME TypeInv, Sized, NEW c \in CPUs,
           \/ Precheck(c) \/ QuotaAdmits(c) \/ QuotaRejects(c) \/ CreateLoses(c)
           \/ Relookup(c) \/ RelookupFails(c) \/ Increment(c) \/ IncrementNew(c)
           \/ LockRejects(c) \/ LookupConfig(c) \/ DecrementTest(c) \/ Subtract(c)
           \/ BumpStat(c) \/ BumpNewStat(c)
    PROVE  /\ HasSum(c)' => HasSum(c) /\ final'[c] = final[c] /\ frame'[c] = frame[c]
           /\ HasSum(c) => HasSum(c)' \/ (pc[c] = "complete" /\ pc'[c] = "delete")
           /\ pc'[c] \in Gone => pc[c] \in Gone /\ frame'[c] = frame[c]
           /\ pc'[c] \in {"precheck", "quota", "create"} => MayCreate(frame'[c])
<1>1. CASE /\ pc[c] \notin After
           /\ \/ Return(c)
              \/ /\ UNCHANGED frame
                 /\ \E label \in {"lost", "increment", "newjob", "lock", "stat", "newstat"} :
                       Goto(c, label)
  BY <1>1 DEF Return, Goto, TypeInv, LocalsTyped, HasSum, After, Gone
<1>2. CASE Precheck(c) \/ QuotaAdmits(c)
  <2>1. /\ pc[c] \in {"precheck", "quota"} /\ UNCHANGED frame
        /\ \E label \in {"quota", "create"} : Goto(c, label)
    BY <1>2 DEF Precheck, QuotaAdmits, locals
  <2>2. pc'[c] \in {"quota", "create"}
    BY <2>1 DEF Goto, TypeInv, LocalsTyped
  <2>3. QED BY <2>1, <2>2 DEF Sized, HasSum, After, Gone
<1>3. CASE LookupConfig(c)
  <2>1. /\ pc[c] = "complete" /\ Goto(c, "delete") /\ UNCHANGED frame
        /\ final' \in {final, [final EXCEPT ![c] = NoFinal]}
    BY <1>3 DEF LookupConfig
  <2>2. pc'[c] = "delete" /\ final'[c] \in {final[c], NoFinal}
    BY <2>1 DEF Goto, TypeInv, LocalsTyped
  <2>3. QED BY <2>1, <2>2 DEF HasSum, After, Gone
<1>4. CASE DecrementTest(c) \/ Subtract(c)
  <2>1. /\ pc[c] \in {"decrement", "subtract"} /\ UNCHANGED <<frame, final>>
        /\ \/ final[c] = NoFinal
           \/ \E label \in {"subtract", "tx"} : Goto(c, label)
        /\ \E label \in {"subtract", "stat", "tx"} : Goto(c, label)
    BY <1>4 DEF DecrementTest, Subtract, AfterDecrement, locals
  <2>2. /\ pc'[c] \in {"subtract", "stat", "tx"}
        /\ final[c] = NoFinal \/ pc'[c] \in {"subtract", "tx"}
    BY <2>1 DEF Goto, TypeInv, LocalsTyped
  <2>3. QED BY <2>1, <2>2 DEF HasSum, After, Gone
<1>5. CASE \/ QuotaRejects(c) \/ CreateLoses(c) \/ Relookup(c) \/ RelookupFails(c)
           \/ Increment(c) \/ IncrementNew(c) \/ LockRejects(c) \/ BumpStat(c) \/ BumpNewStat(c)
  <2>1. pc[c] \notin After
    BY <1>5 DEF QuotaRejects, CreateLoses, Relookup, RelookupFails, Increment, IncrementNew,
       LockRejects, BumpStat, BumpNewStat, After
  <2>2. \/ Return(c)
        \/ /\ UNCHANGED frame
           /\ \E label \in {"lost", "increment", "newjob", "lock", "stat", "newstat"} :
                 Goto(c, label)
    BY <1>5 DEF QuotaRejects, CreateLoses, Relookup, RelookupFails, Increment, IncrementNew,
       LockRejects, BumpStat, BumpNewStat, locals
  <2>3. QED BY <1>1, <2>1, <2>2
<1>6. QED BY <1>2, <1>3, <1>4, <1>5

LEMMA QuietSteady ==
    ASSUME TypeInv, Sized, NEW c \in CPUs,
           \/ Precheck(c) \/ QuotaAdmits(c) \/ QuotaRejects(c) \/ CreateLoses(c)
           \/ Relookup(c) \/ RelookupFails(c) \/ Increment(c) \/ IncrementNew(c)
           \/ LockRejects(c) \/ LookupConfig(c) \/ DecrementTest(c) \/ Subtract(c)
           \/ BumpStat(c) \/ BumpNewStat(c)
    PROVE  Steady(c)
<1>1. UNCHANGED <<slot_map, elem, emitted>>
  BY DEF Precheck, QuotaAdmits, QuotaRejects, CreateLoses, Relookup, RelookupFails, Increment,
     IncrementNew, LockRejects, LookupConfig, DecrementTest, Subtract, BumpStat, BumpNewStat,
     shared
<1>2. /\ \/ Return(c)
         \/ UNCHANGED frame /\ \E label : Goto(c, label)
      /\ \/ Return(c)
         \/ final' \in {final, [final EXCEPT ![c] = NoFinal]}
  BY DEF Precheck, QuotaAdmits, QuotaRejects, CreateLoses, Relookup, RelookupFails, Increment,
     IncrementNew, LockRejects, LookupConfig, DecrementTest, Subtract, AfterDecrement, BumpStat,
     BumpNewStat, locals
<1>3. \A d \in CPUs \ {c} : pc'[d] = pc[d] /\ frame'[d] = frame[d] /\ final'[d] = final[d]
  BY <1>2 DEF Return, Goto, TypeInv, LocalsTyped
<1>4. QED BY <1>1, <1>3, QuietSums DEF Steady

LEMMA QuietKeeps ==
    ASSUME TypeInv, Once, Sized, NEW c \in CPUs,
           \/ Precheck(c) \/ QuotaAdmits(c) \/ QuotaRejects(c) \/ CreateLoses(c)
           \/ Relookup(c) \/ RelookupFails(c) \/ Increment(c) \/ IncrementNew(c)
           \/ LockRejects(c) \/ LookupConfig(c) \/ DecrementTest(c) \/ Subtract(c)
           \/ BumpStat(c) \/ BumpNewStat(c)
    PROVE  Keeps(c)
<1>1. Moves(c)
  BY QuietMoves
<1>2. "idle" \notin Before
  BY DEF Before
<1>3. QED BY <1>1, <1>2, QuietSums, QuietSteady DEF Moves, Keeps

-----------------------------------------------------------------------------
(***************************************************************************)
(* The steps that touch a slot.                                            *)
(***************************************************************************)
LEMMA CreateFacts ==
    ASSUME TypeInv, NEW c \in CPUs, CreateWins(c), NEW k, k = KeyOf(c)
    PROVE  /\ k \in Keys /\ pc[c] = "create" /\ pc'[c] = "won" /\ slot_map[k] = NULL
           /\ SlotOf(k)' = Fresh(frame[c].chunk_len, frame[c].num_workers)
           /\ \A m \in Keys \ {k} :
                 slot_map'[m] = slot_map[m] /\ (slot_map[m] # NULL => SlotOf(m)' = SlotOf(m))
           /\ \A d \in CPUs \ {c} : pc'[d] = pc[d]
           /\ UNCHANGED <<frame, final, wire, emitted>>
<1> DEFINE fresh == Fresh(frame[c].chunk_len, frame[c].num_workers)
<1>1. k \in Keys
  BY HeldType DEF CreateWins
<1>2. PICK e \in FreeElems :
        slot_map' = [slot_map EXCEPT ![k] = e] /\ elem' = [elem EXCEPT ![e] = fresh]
  BY DEF CreateWins
<1> HIDE DEF fresh
<1>3. /\ pc[c] = "create" /\ slot_map[k] = NULL
      /\ Goto(c, "won") /\ UNCHANGED <<frame, final, wire, emitted>>
  BY DEF CreateWins, locals
<1>4. e \in Elems /\ \A m \in Keys : slot_map[m] # e
  BY <1>2 DEF FreeElems
<1>5. /\ slot_map'[k] = e /\ elem'[e] = fresh
      /\ \A m \in Keys \ {k} :
            slot_map'[m] = slot_map[m] /\ (slot_map[m] # NULL => SlotOf(m)' = SlotOf(m))
  BY <1>1, <1>2, <1>4 DEF TypeInv, MapsTyped, SlotOf
<1>6. pc'[c] = "won" /\ \A d \in CPUs \ {c} : pc'[d] = pc[d]
  BY <1>3 DEF TypeInv, LocalsTyped, Goto
<1>7. SlotOf(k)' = fresh
  BY <1>5 DEF SlotOf
<1>8. QED BY <1>1, <1>3, <1>5, <1>6, <1>7 DEF fresh

LEMMA CreateReady ==
    ASSUME Ready, NEW c \in CPUs, CreateWins(c)
    PROVE  SumsInHand' /\ Sized'
<1>k. PICK k : k = KeyOf(c)
  OBVIOUS
<1>1. /\ k \in Keys /\ pc[c] = "create" /\ pc'[c] = "won" /\ slot_map[k] = NULL
      /\ SlotOf(k)' = Fresh(frame[c].chunk_len, frame[c].num_workers)
      /\ \A m \in Keys \ {k} :
            slot_map'[m] = slot_map[m] /\ (slot_map[m] # NULL => SlotOf(m)' = SlotOf(m))
      /\ \A d \in CPUs \ {c} : pc'[d] = pc[d]
      /\ UNCHANGED <<frame, final, wire, emitted>>
  BY <1>k, CreateFacts DEF Ready
<1>2. /\ \A d \in CPUs : /\ KeyOf(d)' = KeyOf(d)
                         /\ HasSum(d)' <=> HasSum(d)
                         /\ HasSum(d) => (pc'[d] \in Gone <=> pc[d] \in Gone)
                         /\ pc'[d] \in Before => pc[d] \in Before
  BY <1>1 DEF KeyOf, HasSum, After, Before, Gone
<1>3. ASSUME NEW d \in CPUs, HasSum(d) PROVE SumWhole(d)' /\ SumLast(d)'
  <2>1. SumWhole(d) /\ SumLast(d)
    BY <1>3 DEF Ready, SumsInHand
  <2>2. SumWhole(d)'
    BY <1>1, <1>2, <2>1 DEF SumWhole, SumOf
  <2>3. KeyOf(d) # k
    BY <1>k, <1>1, <2>1 DEF SumLast, Before
  <2>4. KeyOf(d) \in Keys
    BY <1>3, HeldType DEF Ready, HasSum, After
  <2>5. pc'[d] \in Gone => slot_map'[KeyOf(d)'] = NULL
    BY <1>1, <1>2, <1>3, <2>1, <2>3, <2>4 DEF SumLast
  <2>6. QED BY <1>1, <1>2, <2>1, <2>2, <2>5 DEF SumLast
<1>4. Sized'
  <2>1. SlotSized(Fresh(frame[c].chunk_len, frame[c].num_workers))
    <3>1. MayCreate(frame[c]) /\ WellFormed(frame[c]) /\ frame[c].chunk_len \in Nat
      BY <1>1, HeldType DEF Ready, Sized, TypeInv, Known
    <3>2. QED BY <3>1, MapAssumption DEF MayCreate, WellFormed, Fresh, SlotSized
  <2>2. ASSUME NEW m \in Keys, slot_map'[m] # NULL PROVE SlotSized(SlotOf(m))'
    <3>1. CASE m = k
      BY <1>1, <2>1, <3>1 DEF SlotSized
    <3>2. CASE m # k
      BY <1>1, <2>2, <3>2 DEF Ready, Sized, SlotSized
    <3>3. QED BY <3>1, <3>2
  <2>3. QED BY <1>1, <2>2 DEF Ready, Sized
<1>5. QED BY <1>2, <1>3, <1>4 DEF SumsInHand

LEMMA DeleteFacts ==
    ASSUME TypeInv, NEW c \in CPUs, Delete(c), NEW k, k = KeyOf(c)
    PROVE  /\ k \in Keys /\ pc[c] = "delete" /\ pc'[c] = "decrement"
           /\ slot_map'[k] = NULL
           /\ \A m \in Keys \ {k} : slot_map'[m] = slot_map[m]
           /\ \A d \in CPUs \ {c} : pc'[d] = pc[d]
           /\ UNCHANGED <<elem, frame, final, wire, emitted>>
<1>1. k \in Keys
  BY HeldType DEF Delete
<1>2. /\ pc[c] = "delete" /\ Goto(c, "decrement")
      /\ slot_map' = [slot_map EXCEPT ![k] = NULL]
      /\ UNCHANGED <<elem, frame, final, wire, emitted>>
  BY DEF Delete, locals
<1>3. QED BY <1>1, <1>2 DEF TypeInv, MapsTyped, LocalsTyped, Goto

LEMMA DeleteReady ==
    ASSUME Ready, NEW c \in CPUs, Delete(c)
    PROVE  SumsInHand' /\ Sized'
<1>k. PICK k : k = KeyOf(c)
  OBVIOUS
<1>1. /\ k \in Keys /\ pc[c] = "delete" /\ pc'[c] = "decrement" /\ slot_map'[k] = NULL
      /\ \A m \in Keys \ {k} : slot_map'[m] = slot_map[m]
      /\ \A d \in CPUs \ {c} : pc'[d] = pc[d]
      /\ UNCHANGED <<elem, frame, final, wire, emitted>>
  BY <1>k, DeleteFacts DEF Ready
<1>2. /\ \A d \in CPUs : /\ KeyOf(d)' = KeyOf(d)
                         /\ HasSum(d)' <=> HasSum(d)
                         /\ pc'[d] \in Before => pc[d] \in Before
  BY <1>1 DEF KeyOf, HasSum, After, Before
<1>3. ASSUME NEW d \in CPUs, HasSum(d) PROVE SumWhole(d)' /\ SumLast(d)'
  <2>1. SumWhole(d) /\ SumLast(d)
    BY <1>3 DEF Ready, SumsInHand
  <2>2. SumWhole(d)'
    BY <1>1, <1>2, <2>1 DEF SumWhole, SumOf
  <2>3. KeyOf(d) \in Keys
    BY <1>3, HeldType DEF Ready, HasSum, After
  <2>4. pc'[d] \in Gone => slot_map'[KeyOf(d)'] = NULL
    <3>1. CASE d = c
      BY <1>k, <1>1, <1>2, <3>1
    <3>2. CASE d # c
      BY <1>1, <1>2, <2>1, <2>3, <3>2 DEF SumLast
    <3>3. QED BY <3>1, <3>2
  <2>5. QED BY <1>1, <1>2, <2>1, <2>2, <2>4 DEF SumLast
<1>4. Sized'
  <2>1. ASSUME NEW m \in Keys, slot_map'[m] # NULL PROVE SlotSized(SlotOf(m))'
    BY <1>1, <2>1 DEF Ready, Sized, SlotSized, SlotOf
  <2>2. QED BY <1>1, <2>1 DEF Ready, Sized
<1>5. QED BY <1>2, <1>3, <1>4 DEF SumsInHand

\* The lock is taken for the frame of c, from worker w: s is the slot of its key
\* before, a after.
Taking(c, k, s, w, a) ==
    /\ k = KeyOf(c) /\ s = SlotOf(k) /\ w = frame[c].worker_id
    /\ a = Accumulated(s, frame[c])
    /\ LockPartial(c) \/ LockCompletes(c)

Taken(c, k, s, w, a) ==
    /\ k \in Keys /\ pc[c] = "lock" /\ slot_map[k] # NULL
    /\ UNCHANGED <<slot_map, wire, emitted>>
    /\ SlotOf(k)' = a
    /\ \A m \in Keys \ {k} : slot_map[m] # NULL => SlotOf(m)' = SlotOf(m)
    /\ \A d \in CPUs \ {c} :
          pc'[d] = pc[d] /\ frame'[d] = frame[d] /\ final'[d] = final[d]
    /\ s \in GradSlot /\ SlotTallied(k, s) /\ SlotsTallied'
    /\ w \in Workers /\ w \notin s.seen_worker /\ w \in 0 .. s.num_workers_expected - 1
    /\ s.contributions_received < s.num_workers_expected
    /\ a.chunk_len = s.chunk_len /\ a.num_workers_expected = s.num_workers_expected
    /\ a.seen_worker = s.seen_worker \cup {w} /\ a.seen_worker \subseteq Workers
    /\ a.contributions_received = s.contributions_received + 1
    /\ a.sum = Summed(s.sum, <<k, w>>)
    /\ Cardinality(a.seen_worker) = a.contributions_received
    /\ LockPartial(c) => pc'[c] = "idle" /\ ~Completes(a)
    /\ LockCompletes(c) =>
          /\ pc'[c] = "complete" /\ Completes(a) /\ frame'[c] = frame[c]
          /\ final'[c].sent = TRUE /\ final'[c].key = k
          /\ final'[c].chunk_len = a.chunk_len
          /\ final'[c].num_workers = a.num_workers_expected
          /\ final'[c].sum = a.sum

LEMMA LockFacts ==
    ASSUME TypeInv, OnceTraffic, Once, NEW c \in CPUs, NEW k, NEW s, NEW w, NEW a,
           Taking(c, k, s, w, a)
    PROVE  Taken(c, k, s, w, a)
<1>k. /\ k = KeyOf(c) /\ s = SlotOf(k) /\ w = frame[c].worker_id
      /\ a = Accumulated(s, frame[c])
      /\ LockPartial(c) \/ LockCompletes(c)
  BY DEF Taking
<1>1. pc[c] = "lock" /\ Accumulates(c, Accumulated(elem[slot[c]], frame[c]))
  BY <1>k DEF LockPartial, LockCompletes, Accumulates
<1>2. /\ k \in Keys /\ slot_map[k] # NULL /\ slot[c] = slot_map[k]
      /\ slot_map' = slot_map /\ elem'[slot_map'[k]] = a
      /\ \A m \in Keys \ {k} : slot_map[m] # NULL => elem'[slot_map'[m]] = SlotOf(m)
      /\ SlotsTallied'
  BY <1>k, <1>1, AddedTallied
<1>3. UNCHANGED <<slot_map, wire, emitted>>
  BY <1>1 DEF Accumulates
<1>4. /\ s \in GradSlot /\ SlotTallied(k, s) /\ frame[c] \in Good
      /\ w \notin s.seen_worker /\ w \in 0 .. s.num_workers_expected - 1
      /\ s.contributions_received < s.num_workers_expected
      /\ Cardinality(s.seen_worker \cup {w}) = s.contributions_received + 1
  BY <1>k, <1>1, <1>2, AwaitedOpen DEF Before
<1>5. /\ a.chunk_len = s.chunk_len /\ a.num_workers_expected = s.num_workers_expected
      /\ a.seen_worker = s.seen_worker \cup {w}
      /\ a.contributions_received = s.contributions_received + 1
      /\ a.sum = Summed(s.sum, <<k, w>>)
  BY <1>k, <1>4, AccumulatedType DEF Good, KeyOf
<1>6. w \in Workers /\ a.seen_worker \subseteq Workers
  BY <1>k, <1>1, <1>4, <1>5, HeldType DEF GradSlot
<1>7. \A d \in CPUs \ {c} :
          pc'[d] = pc[d] /\ frame'[d] = frame[d] /\ final'[d] = final[d]
  BY <1>k DEF LockPartial, LockCompletes, Return, Goto, TypeInv, LocalsTyped
<1>8. elem[slot[c]] = s
  BY <1>k, <1>2 DEF SlotOf
<1>9. LockPartial(c) => pc'[c] = "idle" /\ ~Completes(a)
  BY <1>k, <1>8 DEF LockPartial, Return, Goto, TypeInv, LocalsTyped
<1>10. ASSUME LockCompletes(c)
       PROVE  /\ pc'[c] = "complete" /\ Completes(a) /\ frame'[c] = frame[c]
              /\ final'[c].sent = TRUE /\ final'[c].key = k
              /\ final'[c].chunk_len = a.chunk_len
              /\ final'[c].num_workers = a.num_workers_expected
              /\ final'[c].sum = a.sum
  <2>1. pc'[c] = "complete" /\ Completes(a) /\ frame'[c] = frame[c]
    BY <1>k, <1>8, <1>10 DEF LockCompletes, Goto, TypeInv, LocalsTyped
  <2>2. final'[c] = [sent |-> TRUE, key |-> k, chunk_len |-> a.chunk_len,
                     num_workers |-> a.num_workers_expected, sum |-> a.sum]
    BY <1>k, <1>8, <1>10 DEF LockCompletes, TypeInv, LocalsTyped
  <2>3. QED BY <2>1, <2>2
<1>11. SlotOf(k)' = a /\ \A m \in Keys \ {k} : slot_map[m] # NULL => SlotOf(m)' = SlotOf(m)
  BY <1>2 DEF SlotOf
<1>12. QED
  BY <1>1, <1>2, <1>3, <1>4, <1>5, <1>6, <1>7, <1>9, <1>10, <1>11 DEF Taken

\* A set of n workers below n is all of them.
LEMMA AllWorkers ==
    ASSUME NEW n \in Nat, NEW S, S \subseteq 0 .. n - 1, Cardinality(S) = n
    PROVE  S = 0 .. n - 1 /\ IsFiniteSet(S)
<1>1. IsFiniteSet(0 .. n - 1) /\ Cardinality(0 .. n - 1) = n
  <2>1. 0 \in Int /\ n - 1 \in Int
    OBVIOUS
  <2>2. /\ IsFiniteSet(0 .. n - 1)
        /\ Cardinality(0 .. n - 1) = IF 0 > n - 1 THEN 0 ELSE (n - 1) - 0 + 1
    BY <2>1, FS_Interval
  <2>3. QED BY <2>2
<1>2. QED BY <1>1, FS_Subset

\* The workers of a sum tallied for k are those seen.
LEMMA SummedSeen ==
    ASSUME NEW k \in Keys, NEW s, NEW e, s.seen_worker \subseteq Workers, Tally(k, s),
           e.key = k, e.sum = s.sum
    PROVE  SumOf(e).workers = s.seen_worker
<1>1. ASSUME NEW w \in Workers PROVE e.sum[<<e.key, w>>] > 0 <=> w \in s.seen_worker
  <2>1. <<k, w>> \in Tags
    BY DEF Tags
  <2>2. s.sum[<<k, w>>] = IF w \in s.seen_worker THEN 1 ELSE 0
    BY <2>1 DEF Tally
  <2>3. QED BY <2>2
<1>2. SumOf(e).workers = {w \in Workers : e.sum[<<e.key, w>>] > 0}
  BY DEF SumOf
<1>3. QED BY <1>1, <1>2

\* The last contribution: all the workers are in, and nobody has a frame of theirs.
LEMMA CompletesLast ==
    ASSUME TypeInv, OnceTraffic, Once, NEW c \in CPUs, LockCompletes(c),
           NEW k, NEW s, NEW w, NEW a, Taking(c, k, s, w, a)
    PROVE  /\ a.seen_worker = 0 .. a.num_workers_expected - 1
           /\ IsFiniteSet(a.seen_worker)
           /\ Cardinality(a.seen_worker) = a.num_workers_expected
           /\ \A f \in Good : f.key = k => f.worker_id \in a.seen_worker /\ f \notin wire'
           /\ \A d \in CPUs : pc'[d] \in Before => KeyOf(d)' # k
<1>k. k = KeyOf(c) /\ s = SlotOf(k) /\ w = frame[c].worker_id /\ Taken(c, k, s, w, a)
  BY LockFacts DEF Taking
<1>1. /\ k \in Keys /\ pc[c] = "lock" /\ slot_map[k] # NULL /\ slot_map' = slot_map
      /\ SlotOf(k)' = a /\ SlotsTallied' /\ SlotTallied(k, s) /\ s \in GradSlot
      /\ \A d \in CPUs \ {c} : pc'[d] = pc[d] /\ frame'[d] = frame[d]
      /\ a.num_workers_expected = s.num_workers_expected
      /\ a.seen_worker = s.seen_worker \cup {w} /\ w \in 0 .. s.num_workers_expected - 1
      /\ Cardinality(a.seen_worker) = a.contributions_received
      /\ pc'[c] = "complete" /\ Completes(a)
  BY <1>k DEF Taken
<1>2. PICK n : n = s.num_workers_expected
  OBVIOUS
<1>3. n \in Nat
  BY <1>1, <1>2 DEF GradSlot
<1>4. a.seen_worker \subseteq 0 .. n - 1 /\ Cardinality(a.seen_worker) = n
  BY <1>1, <1>2 DEF SlotTallied, Completes
<1>5. a.seen_worker = 0 .. n - 1 /\ IsFiniteSet(a.seen_worker)
  BY <1>3, <1>4, AllWorkers
<1>6. ASSUME NEW f \in Good, f.key = k PROVE f.worker_id \in a.seen_worker /\ f \notin wire'
  <2>1. f.num_workers = n /\ f.worker_id < f.num_workers
    BY <1>1, <1>2, <1>6 DEF SlotTallied, OnceTraffic
  <2>2. f.worker_id \in Nat
    BY FrameType DEF Good
  <2>3. f.worker_id \in 0 .. n - 1
    BY <1>3, <2>1, <2>2
  <2>4. SlotTallied(k, a)'
    BY <1>1 DEF SlotsTallied
  <2>5. QED BY <1>5, <1>6, <2>3, <2>4 DEF SlotTallied
<1>7. ASSUME NEW d \in CPUs, pc'[d] \in Before, KeyOf(d)' = k PROVE FALSE
  <2>1. d # c /\ pc[d] \in Before /\ KeyOf(d) = k /\ frame[d].key = k /\ frame[c].key = k
    BY <1>k, <1>1, <1>7 DEF Before, KeyOf
  <2>2. frame[d] \in Good /\ frame[c] \in Good /\ pc[c] \in Before
    BY <1>1, <2>1 DEF Once, HeldApart, Before
  <2>3. frame[d].worker_id \in s.seen_worker \cup {w}
    BY <1>1, <1>6, <2>1, <2>2
  <2>4. frame[d].worker_id \notin s.seen_worker
    BY <1>k, <1>1, <2>1 DEF Once, StillAwaited
  <2>5. frame[d] = frame[c]
    BY <1>k, <2>1, <2>2, <2>3, <2>4 DEF OnceTraffic
  <2>6. QED BY <2>1, <2>2, <2>5 DEF Once, HeldApart
<1>8. QED BY <1>1, <1>2, <1>4, <1>5, <1>6, <1>7

LEMMA LockReady ==
    ASSUME Ready, OnceTraffic, NEW c \in CPUs, LockPartial(c) \/ LockCompletes(c)
    PROVE  SumsInHand' /\ Sized'
<1>k. PICK k, s, w, a : /\ k = KeyOf(c) /\ s = SlotOf(k) /\ w = frame[c].worker_id
                        /\ a = Accumulated(s, frame[c])
  OBVIOUS
<1>t. Taking(c, k, s, w, a) /\ Taken(c, k, s, w, a)
  BY <1>k, LockFacts DEF Ready, Taking
<1>1. /\ k \in Keys /\ pc[c] = "lock" /\ slot_map[k] # NULL
      /\ UNCHANGED <<slot_map, wire, emitted>>
      /\ SlotOf(k)' = a
      /\ \A m \in Keys \ {k} : slot_map[m] # NULL => SlotOf(m)' = SlotOf(m)
      /\ \A d \in CPUs \ {c} :
            pc'[d] = pc[d] /\ frame'[d] = frame[d] /\ final'[d] = final[d]
      /\ a.chunk_len = s.chunk_len /\ a.num_workers_expected = s.num_workers_expected
      /\ LockPartial(c) => pc'[c] = "idle"
      /\ LockCompletes(c) =>
            /\ pc'[c] = "complete" /\ frame'[c] = frame[c]
            /\ final'[c].key = k
            /\ final'[c].chunk_len = a.chunk_len
            /\ final'[c].num_workers = a.num_workers_expected
            /\ final'[c].sum = a.sum
  BY <1>t DEF Taken
<1>2. ASSUME NEW d \in CPUs, d # c
      PROVE  /\ KeyOf(d)' = KeyOf(d) /\ (HasSum(d)' <=> HasSum(d))
             /\ pc'[d] = pc[d] /\ frame'[d] = frame[d] /\ final'[d] = final[d]
  BY <1>1, <1>2 DEF KeyOf, HasSum
<1>3. ASSUME NEW d \in CPUs, d # c, HasSum(d) PROVE SumWhole(d)' /\ SumLast(d)'
  <2>1. SumWhole(d) /\ SumLast(d)
    BY <1>3 DEF Ready, SumsInHand
  <2>2. SumWhole(d)'
    BY <1>2, <1>3, <2>1 DEF SumWhole, SumOf
  <2>3. KeyOf(d) # k
    BY <1>k, <1>1, <2>1 DEF SumLast, Before
  <2>4. \A f \in Good : f.key = KeyOf(d)' => f \notin wire'
    BY <1>1, <1>2, <1>3, <2>1 DEF SumLast
  <2>5. ASSUME NEW b \in CPUs, pc'[b] \in Before PROVE KeyOf(b)' # KeyOf(d)'
    <3>1. b # c
      BY <1>1, <2>5 DEF Before
    <3>2. QED BY <1>2, <1>3, <2>1, <2>5, <3>1 DEF SumLast
  <2>6. ASSUME NEW b \in CPUs, HasSum(b)', KeyOf(b)' = KeyOf(d)' PROVE b = d
    <3>1. CASE b = c
      <4>1. pc'[c] = "complete" /\ frame'[c] = frame[c]
        BY <1>1, <2>6, <3>1 DEF HasSum, After
      <4>2. KeyOf(c)' = k
        BY <1>k, <4>1 DEF KeyOf
      <4>3. QED BY <1>2, <1>3, <2>3, <2>6, <3>1, <4>2
    <3>2. CASE b # c
      BY <1>2, <1>3, <2>1, <2>6, <3>2 DEF SumLast
    <3>3. QED BY <3>1, <3>2
  <2>7. pc'[d] \in Gone => slot_map'[KeyOf(d)'] = NULL
    BY <1>1, <1>2, <1>3, <2>1 DEF SumLast
  <2>8. QED BY <2>2, <2>4, <2>5, <2>6, <2>7 DEF SumLast
<1>4. ASSUME HasSum(c)' PROVE SumWhole(c)' /\ SumLast(c)'
  <2>1. LockCompletes(c)
    BY <1>1, <1>4 DEF HasSum, After
  <2>2. /\ a.seen_worker = 0 .. a.num_workers_expected - 1
        /\ IsFiniteSet(a.seen_worker)
        /\ Cardinality(a.seen_worker) = a.num_workers_expected
        /\ \A f \in Good : f.key = k => f.worker_id \in a.seen_worker /\ f \notin wire'
        /\ \A d \in CPUs : pc'[d] \in Before => KeyOf(d)' # k
    BY <1>t, <2>1, CompletesLast DEF Ready
  <2>3. KeyOf(c)' = k
    BY <1>k, <1>1, <2>1 DEF KeyOf
  <2>4. SumOf(final'[c]).workers = a.seen_worker
    <3>1. SlotTallied(k, a)' /\ a.seen_worker \subseteq Workers
      BY <1>1, <1>t DEF Taken, SlotsTallied
    <3>2. Tally(k, a)
      BY <1>1, <3>1 DEF SlotTallied, Tally
    <3>3. QED BY <1>1, <2>1, <3>1, <3>2, SummedSeen
  <2>5. w \in a.seen_worker
    BY <1>t DEF Taken
  <2>6. SlotSized(s)
    BY <1>k, <1>1 DEF Ready, Sized
  <2>7. SumWhole(c)'
    <3>1. SumOf(final[c])' = SumOf(final'[c])
      BY DEF SumOf
    <3>2. QED BY <1>k, <1>1, <2>1, <2>2, <2>3, <2>4, <2>5, <2>6, <3>1 DEF SumWhole, SlotSized
  <2>8. ASSUME NEW d \in CPUs, HasSum(d)', KeyOf(d)' = k, d # c PROVE FALSE
    <3>1. SumLast(d)
      BY <1>2, <2>8 DEF Ready, SumsInHand
    <3>2. QED BY <1>k, <1>1, <1>2, <2>8, <3>1 DEF SumLast, Before
  <2>9. pc'[c] \notin Gone
    BY <1>1, <2>1 DEF Gone
  <2>10. SumLast(c)'
    BY <2>2, <2>3, <2>8, <2>9 DEF SumLast
  <2>11. QED BY <2>7, <2>10
<1>5. Sized'
  <2>1. ASSUME NEW m \in Keys, slot_map'[m] # NULL PROVE SlotSized(SlotOf(m))'
    <3>1. CASE m = k
      BY <1>k, <1>1, <3>1 DEF Ready, Sized, SlotSized
    <3>2. CASE m # k
      BY <1>1, <2>1, <3>2 DEF Ready, Sized, SlotSized
    <3>3. QED BY <3>1, <3>2
  <2>2. \A d \in CPUs : pc'[d] \in {"precheck", "quota", "create"} => MayCreate(frame[d])'
    BY <1>1 DEF Ready, Sized, MayCreate
  <2>3. QED BY <2>1, <2>2 DEF Sized
<1>6. QED BY <1>2, <1>3, <1>4, <1>5 DEF SumsInHand

LEMMA TransmitFacts ==
    ASSUME TypeInv, NEW c \in CPUs, Transmit(c)
    PROVE  /\ pc[c] = "tx" /\ pc'[c] = "idle" /\ HasSum(c) /\ ~HasSum(c)'
           /\ emitted' = Append(emitted, final[c])
           /\ UNCHANGED <<slot_map, elem, wire>>
           /\ \A d \in CPUs \ {c} :
                 pc'[d] = pc[d] /\ frame'[d] = frame[d] /\ final'[d] = final[d]
<1>1. /\ pc[c] = "tx" /\ emitted' = Append(emitted, final[c]) /\ Return(c)
      /\ UNCHANGED <<slot_map, elem, wire>>
  BY DEF Transmit
<1>2. /\ pc'[c] = "idle"
      /\ \A d \in CPUs \ {c} :
            pc'[d] = pc[d] /\ frame'[d] = frame[d] /\ final'[d] = final[d]
  BY <1>1 DEF TypeInv, LocalsTyped, Return, Goto
<1>3. QED BY <1>1, <1>2 DEF TypeInv, Known, HasSum, After

LEMMA TransmitReady ==
    ASSUME Ready, NEW c \in CPUs, Transmit(c)
    PROVE  SumsInHand' /\ Sized'
<1>1. /\ pc'[c] = "idle" /\ ~HasSum(c)' /\ UNCHANGED <<slot_map, elem, wire>>
      /\ \A d \in CPUs \ {c} :
            pc'[d] = pc[d] /\ frame'[d] = frame[d] /\ final'[d] = final[d]
  BY TransmitFacts DEF Ready
<1>2. ASSUME NEW d \in CPUs, d # c
      PROVE  KeyOf(d)' = KeyOf(d) /\ (HasSum(d)' <=> HasSum(d))
  BY <1>1, <1>2 DEF KeyOf, HasSum
<1>3. ASSUME NEW d \in CPUs, HasSum(d)' PROVE SumWhole(d)' /\ SumLast(d)'
  <2>1. d # c /\ SumWhole(d) /\ SumLast(d)
    BY <1>1, <1>2, <1>3 DEF Ready, SumsInHand
  <2>2. SumWhole(d)'
    BY <1>1, <1>2, <2>1 DEF SumWhole, SumOf
  <2>3. \A b \in CPUs : pc'[b] \in Before => b # c /\ pc[b] \in Before
    BY <1>1 DEF Before
  <2>4. SumLast(d)'
    BY <1>1, <1>2, <2>1, <2>3 DEF SumLast
  <2>5. QED BY <2>2, <2>4
<1>4. Sized'
  BY <1>1 DEF Ready, Sized, SlotSized, SlotOf
<1>5. QED BY <1>3, <1>4 DEF SumsInHand

LEMMA ReadyStep == TypeInv' /\ OnceTraffic /\ Ready /\ [Next]_vars => Ready'
<1>1. SUFFICES ASSUME TypeInv', OnceTraffic, Ready, [Next]_vars PROVE SumsInHand' /\ Sized'
  BY OnceStep DEF Ready
<1>2. CASE SetConfig \/ UNCHANGED vars
  <2>1. UNCHANGED <<slot_map, elem, wire, pc, frame, final>>
    BY <1>2 DEF SetConfig, vars, locals
  <2>2. QED
    BY <1>1, <2>1 DEF Ready, SumsInHand, HasSum, SumWhole, SumLast, SumOf, KeyOf, Sized,
       SlotSized, SlotOf
<1>3. ASSUME NEW c \in CPUs, Rx(c) PROVE SumsInHand' /\ Sized'
  BY <1>1, <1>3, RxKeeps, KeepsReady DEF Ready
<1>4. ASSUME NEW c \in CPUs, Step(c) PROVE SumsInHand' /\ Sized'
  <2>1. CASE CreateWins(c)
    BY <1>1, <2>1, CreateReady
  <2>2. CASE LockPartial(c) \/ LockCompletes(c)
    BY <1>1, <2>2, LockReady
  <2>3. CASE Delete(c)
    BY <1>1, <2>3, DeleteReady
  <2>4. CASE Transmit(c)
    BY <1>1, <2>4, TransmitReady
  <2>5. CASE \/ Precheck(c) \/ QuotaAdmits(c) \/ QuotaRejects(c) \/ CreateLoses(c)
             \/ Relookup(c) \/ RelookupFails(c) \/ Increment(c) \/ IncrementNew(c)
             \/ LockRejects(c) \/ LookupConfig(c) \/ DecrementTest(c) \/ Subtract(c)
             \/ BumpStat(c) \/ BumpNewStat(c)
    BY <1>1, <2>5, QuietKeeps, KeepsReady DEF Ready
  <2>6. QED BY <1>4, <2>1, <2>2, <2>3, <2>4, <2>5 DEF Step
<1>5. QED BY <1>1, <1>2, <1>3, <1>4 DEF Next

LEMMA ReadyAlways == ASSUME OnceTraffic PROVE Spec => []Ready
<1>1. Ready /\ TypeInv' /\ [Next]_vars => Ready'
  BY ReadyStep
<1>2. Init => Ready
  BY TypeInit, OnceInit, ReadyInit DEF Ready
<1>3. Ready => TypeInv
  BY DEF Ready
<1>4. QED BY <1>1, <1>2, <1>3, TypeStep, PTL DEF Spec

-----------------------------------------------------------------------------
(***************************************************************************)
(* The rounds and the sums sent on, as Aggregation has them.               *)
(***************************************************************************)
Rounds == [k \in Keys |-> Promised(k)]
Sent   == [n \in DOMAIN emitted |-> SumOf(emitted[n])]

Held(n, len, S) == [open |-> TRUE, chunk_len |-> len, expected |-> n, members |-> S]
NoRound == [open |-> FALSE]

\* The round a CPU holds open until it sends its sum.
RoundHeld(c) ==
    LET e == final[c] IN
    IF e.num_workers = 1 THEN NoRound
    ELSE Held(e.num_workers, e.chunk_len, SumOf(e).workers \ {frame[c].worker_id})

LEMMA SameCardinality == \A S : Promise!Cardinality(S) = Cardinality(S)
BY DEF Promise!Cardinality, Cardinality, Promise!IsFiniteSet, IsFiniteSet

LEMMA MoreMembers ==
    ASSUME NEW open, NEW n, NEW len, NEW S, NEW M
    PROVE  [[open |-> open, chunk_len |-> len, expected |-> n, members |-> S]
               EXCEPT !.members = M]
           = [open |-> open, chunk_len |-> len, expected |-> n, members |-> M]
OBVIOUS

LEMMA HeldMore ==
    ASSUME NEW n, NEW len, NEW S, NEW M
    PROVE  [Held(n, len, S) EXCEPT !.members = M] = Held(n, len, M)
<1>1. PICK open : open = TRUE
  OBVIOUS
<1>2. \A m, l, T : Held(m, l, T) = [open |-> open, chunk_len |-> l, expected |-> m, members |-> T]
  BY <1>1 DEF Held
<1>3. QED BY <1>2, MoreMembers

LEMMA JoinPartial ==
    ASSUME NEW k, NEW n, NEW len, NEW S, NEW w, w \notin S, Cardinality(S \cup {w}) < n,
           Rounds' = [Rounds EXCEPT ![k] = Held(n, len, S \cup {w})], Sent' = Sent
    PROVE  Promise!Join(k, Held(n, len, S), w)
<1>1. [Held(n, len, S) EXCEPT !.members = S \cup {w}] = Held(n, len, S \cup {w})
  BY HeldMore
<1>2. Held(n, len, S).members = S /\ Held(n, len, S).expected = n
  BY DEF Held
<1>3. Promise!Cardinality(S \cup {w}) < n
  BY SameCardinality
<1>4. QED BY <1>1, <1>2, <1>3 DEF Promise!Join, Rounds, Sent

LEMMA JoinLast ==
    ASSUME NEW k, NEW n, NEW len, NEW S, NEW w, w \notin S, Cardinality(S \cup {w}) = n,
           Rounds' = [Rounds EXCEPT ![k] = NoRound],
           Sent' = Append(Sent, [key |-> k, chunk_len |-> len, workers |-> S \cup {w}])
    PROVE  Promise!Join(k, Held(n, len, S), w)
<1>1. /\ Held(n, len, S).members = S /\ Held(n, len, S).expected = n
      /\ Held(n, len, S).chunk_len = len
  BY DEF Held
<1>2. Promise!Cardinality(S \cup {w}) = n
  BY SameCardinality
<1>3. NoRound = Promise!NoRound
  BY DEF NoRound, Promise!NoRound
<1>4. QED BY <1>1, <1>2, <1>3 DEF Promise!Join, Rounds, Sent

LEMMA Joined ==
    ASSUME NEW k \in Keys, NEW n, NEW len, NEW S, NEW w \in Workers,
           Promise!Join(k, Held(n, len, S), w),
           \/ Rounds[k] = Held(n, len, S)
           \/ /\ Rounds[k] = NoRound /\ S = {}
              /\ n \in 1 .. Cardinality(Workers) /\ len \in 0 .. NETSUM_MAX_CHUNK_LEN
              /\ Promise!MayOpen(k)
    PROVE  Promise!Next
<1>1. k \in Promise!Keys
  BY DEF Promise!Keys, Keys
<1>2. CASE Rounds[k] = Held(n, len, S)
  <2>1. Rounds[k].open
    BY <1>2 DEF Held
  <2>2. Promise!JoinRound(k)
    BY <1>2, <2>1 DEF Promise!JoinRound, Rounds
  <2>3. QED BY <1>1, <2>2 DEF Promise!Next
<1>3. CASE /\ Rounds[k] = NoRound /\ S = {}
           /\ n \in 1 .. Cardinality(Workers) /\ len \in 0 .. NETSUM_MAX_CHUNK_LEN
           /\ Promise!MayOpen(k)
  <2>1. ~Rounds[k].open
    BY <1>3 DEF NoRound
  <2>2. Held(n, len, S) = Promise!Fresh(n, len)
    BY <1>3 DEF Held, Promise!Fresh
  <2>4. n \in 1 .. Promise!Cardinality(Workers)
    BY <1>3, SameCardinality
  <2>5. Promise!Join(k, Promise!Fresh(n, len), w)
    BY <2>2
  <2>6. Promise!OpenRound(k)
    BY <1>3, <2>1, <2>4, <2>5 DEF Promise!OpenRound, Rounds
  <2>7. QED BY <1>1, <2>6 DEF Promise!Next
<1>4. QED BY <1>2, <1>3

LEMMA Abandoned ==
    ASSUME NEW k \in Keys, Rounds' = [Rounds EXCEPT ![k] = NoRound], Sent' = Sent
    PROVE  Promise!Next
<1>1. Keys = Promise!Keys
  BY DEF Promise!Keys, Keys
<1>2. Rounds' = [m \in Keys |-> IF m \in {k} THEN NoRound ELSE Rounds[m]]
  BY DEF Rounds
<1>3. NoRound = Promise!NoRound
  BY DEF NoRound, Promise!NoRound
<1>4. PICK S \in SUBSET Keys : S = {k}
  OBVIOUS
<1>5. Rounds' = [m \in Keys |-> IF m \in S THEN Promise!NoRound ELSE Rounds[m]]
  BY <1>2, <1>3, <1>4
<1>6. Promise!Abandon
  BY <1>1, <1>5 DEF Promise!Abandon, Rounds, Sent
<1>7. QED BY <1>6 DEF Promise!Next

LEMMA NoCloser ==
    ASSUME NEW k, \A c \in CPUs : HasSum(c) => KeyOf(c) # k
    PROVE  Promised(k) = RoundOf(k)
BY DEF Promised, Closer, HasSum

LEMMA OneCloser ==
    ASSUME NEW c \in CPUs, HasSum(c), NEW k, k = KeyOf(c),
           \A d \in CPUs : HasSum(d) /\ KeyOf(d) = k => d = c
    PROVE  Promised(k) = RoundHeld(c)
<1>1. Closer(k) = {c}
  BY DEF Closer, HasSum
<1>2. (CHOOSE d \in Closer(k) : TRUE) = c
  BY <1>1
<1>3. QED BY <1>1, <1>2 DEF Promised, RoundHeld, Held, NoRound

\* A key whose slot and closers are what they were has the round it had.
LEMMA SamePromise ==
    ASSUME NEW k, RoundOf(k)' = RoundOf(k),
           \A c \in CPUs : (HasSum(c) /\ KeyOf(c) = k) <=> (HasSum(c) /\ KeyOf(c) = k)',
           \A c \in CPUs : HasSum(c) /\ KeyOf(c) = k =>
                              final'[c] = final[c] /\ frame'[c] = frame[c]
    PROVE  Promised(k)' = Promised(k)
<1>1. Closer(k)' = Closer(k)
  BY DEF Closer, HasSum
<1>2. CASE Closer(k) = {}
  BY <1>1, <1>2 DEF Promised
<1>3. CASE Closer(k) # {}
  <2>1. PICK c : c = CHOOSE d \in Closer(k) : TRUE
    OBVIOUS
  <2>2. c \in Closer(k) /\ c = CHOOSE d \in Closer(k)' : TRUE
    BY <1>1, <1>3, <2>1
  <2>3. final'[c] = final[c] /\ frame'[c] = frame[c]
    BY <2>2 DEF Closer, HasSum
  <2>4. QED BY <1>1, <1>3, <2>1, <2>2, <2>3 DEF Promised, SumOf
<1>4. QED BY <1>2, <1>3

LEMMA RoundsKept ==
    ASSUME \A m \in Keys : Promised(m)' = Promised(m), UNCHANGED emitted
    PROVE  Rounds' = Rounds /\ Sent' = Sent
BY DEF Rounds, Sent, SumOf

LEMMA OneRound ==
    ASSUME NEW k \in Keys, \A m \in Keys \ {k} : Promised(m)' = Promised(m),
           NEW r, Promised(k)' = r
    PROVE  Rounds' = [Rounds EXCEPT ![k] = r]
BY DEF Rounds

-----------------------------------------------------------------------------
(***************************************************************************)
(* Every step of XdpAgg is a step of Aggregation or none: as long as slots *)
(* are tallied, a slot that is locked awaits a contribution, and a sum in  *)
(* hand is whole and its key's only one; and a round is opened only where  *)
(* the quota admits it.                                                    *)
(***************************************************************************)
SumAlone(c) ==
    /\ \A d \in CPUs : pc[d] = "lock" => KeyOf(d) # KeyOf(c)
    /\ \A d \in CPUs : HasSum(d) /\ KeyOf(d) = KeyOf(c) => d = c
    /\ pc[c] \in Gone => slot_map[KeyOf(c)] = NULL

RoundsHeld ==
    /\ TypeInv /\ MapInjective /\ Sized
    /\ \A c \in CPUs : pc[c] = "lock" => Awaits(c)
    /\ \A c \in CPUs : pc[c] \in Closing =>
          slot_map[KeyOf(c)] # NULL /\ Completes(SlotOf(KeyOf(c)))
    /\ \A c \in CPUs : HasSum(c) => SumWhole(c) /\ SumAlone(c)

Admitted ==
    \A c \in CPUs : pc[c] \in {"lock", "tx"} /\ Promised(KeyOf(c)) = NoRound =>
        Promise!MayOpen(KeyOf(c))

Maps == Promise!Next \/ (Rounds' = Rounds /\ Sent' = Sent)

LEMMA SteadyMaps ==
    ASSUME NEW c \in CPUs, Steady(c), HasSum(c) => HasSum(c)'
    PROVE  Maps
<1>1. ASSUME NEW d \in CPUs
      PROVE  /\ HasSum(d)' <=> HasSum(d)
             /\ HasSum(d) => final'[d] = final[d] /\ frame'[d] = frame[d] /\ KeyOf(d)' = KeyOf(d)
  BY <1>1 DEF Steady, HasSum, KeyOf
<1>2. ASSUME NEW m \in Keys PROVE Promised(m)' = Promised(m)
  <2>1. RoundOf(m)' = RoundOf(m)
    BY DEF Steady, RoundOf, Open, SlotOf
  <2>2. QED BY <1>1, <2>1, SamePromise
<1>3. QED BY <1>2, RoundsKept DEF Steady, Maps

\* A sum is lost: its round is abandoned.
LEMMA LostMaps ==
    ASSUME RoundsHeld, NEW c \in CPUs, Steady(c), HasSum(c), ~HasSum(c)', pc[c] = "complete"
    PROVE  Maps
<1>k. PICK k : k = KeyOf(c)
  OBVIOUS
<1>1. k \in Keys
  BY <1>k, HeldType DEF RoundsHeld
<1>2. Completes(SlotOf(k)) /\ SumAlone(c)
  BY <1>k DEF RoundsHeld, Closing
<1>3. ASSUME NEW d \in CPUs, d # c
      PROVE  /\ HasSum(d)' <=> HasSum(d)
             /\ final'[d] = final[d] /\ frame'[d] = frame[d] /\ KeyOf(d)' = KeyOf(d)
  BY <1>3 DEF Steady, HasSum, KeyOf
<1>4. ASSUME NEW m \in Keys PROVE RoundOf(m)' = RoundOf(m)
  BY DEF Steady, RoundOf, Open, SlotOf
<1>5. ASSUME NEW m \in Keys \ {k} PROVE Promised(m)' = Promised(m)
  <2>1. \A d \in CPUs : KeyOf(d) = m => d # c
    BY <1>k
  <2>2. \A d \in CPUs : (HasSum(d) /\ KeyOf(d) = m) <=> (HasSum(d) /\ KeyOf(d) = m)'
    BY <1>3, <2>1
  <2>3. QED BY <1>3, <1>4, <2>1, <2>2, SamePromise
<1>6. Promised(k)' = NoRound
  <2>1. Closer(k)' = {}
    BY <1>k, <1>2, <1>3 DEF Closer, HasSum, SumAlone
  <2>2. RoundOf(k) = NoRound
    BY <1>2 DEF RoundOf, Open, Completes, NoRound
  <2>3. QED BY <1>1, <1>4, <2>1, <2>2 DEF Promised
<1>7. Rounds' = [Rounds EXCEPT ![k] = NoRound]
  BY <1>1, <1>5, <1>6, OneRound
<1>8. Sent' = Sent
  BY DEF Steady, Sent, SumOf
<1>9. QED BY <1>1, <1>7, <1>8, Abandoned DEF Maps

LEMMA QuietMaps ==
    ASSUME RoundsHeld, NEW c \in CPUs,
           \/ Precheck(c) \/ QuotaAdmits(c) \/ QuotaRejects(c) \/ CreateLoses(c)
           \/ Relookup(c) \/ RelookupFails(c) \/ Increment(c) \/ IncrementNew(c)
           \/ LockRejects(c) \/ LookupConfig(c) \/ DecrementTest(c) \/ Subtract(c)
           \/ BumpStat(c) \/ BumpNewStat(c)
    PROVE  Maps
<1>1. Steady(c)
  BY QuietSteady DEF RoundsHeld
<1>2. HasSum(c) => HasSum(c)' \/ pc[c] = "complete"
  BY QuietSums DEF RoundsHeld
<1>3. QED BY <1>1, <1>2, SteadyMaps, LostMaps

\* A slot without a contribution is no round yet.
LEMMA CreateMaps ==
    ASSUME TypeInv, NEW c \in CPUs, CreateWins(c)
    PROVE  Maps
<1>k. PICK k : k = KeyOf(c)
  OBVIOUS
<1>1. /\ k \in Keys /\ pc[c] = "create" /\ pc'[c] = "won" /\ slot_map[k] = NULL
      /\ SlotOf(k)' = Fresh(frame[c].chunk_len, frame[c].num_workers)
      /\ \A m \in Keys \ {k} :
            slot_map'[m] = slot_map[m] /\ (slot_map[m] # NULL => SlotOf(m)' = SlotOf(m))
      /\ \A d \in CPUs \ {c} : pc'[d] = pc[d]
      /\ UNCHANGED <<frame, final, wire, emitted>>
  BY <1>k, CreateFacts
<1>2. \A d \in CPUs : KeyOf(d)' = KeyOf(d) /\ (HasSum(d)' <=> HasSum(d))
  BY <1>1 DEF KeyOf, HasSum, After
<1>3. ASSUME NEW m \in Keys PROVE RoundOf(m)' = RoundOf(m)
  <2>1. CASE m = k
    <3>1. SlotOf(k)'.contributions_received = 0
      BY <1>1 DEF Fresh
    <3>2. ~Open(k) /\ ~Open(k)'
      BY <1>1, <3>1 DEF Open
    <3>3. QED BY <2>1, <3>2 DEF RoundOf
  <2>2. CASE m # k
    BY <1>1, <2>2 DEF RoundOf, Open
  <2>3. QED BY <2>1, <2>2
<1>4. \A m \in Keys : Promised(m)' = Promised(m)
  BY <1>1, <1>2, <1>3, SamePromise
<1>5. QED BY <1>1, <1>4, RoundsKept DEF Maps

\* A complete slot is no round any more: its round is in the hands of its closer.
LEMMA DeleteMaps ==
    ASSUME RoundsHeld, NEW c \in CPUs, Delete(c)
    PROVE  Maps
<1>k. PICK k : k = KeyOf(c)
  OBVIOUS
<1>1. /\ k \in Keys /\ pc[c] = "delete" /\ pc'[c] = "decrement"
      /\ slot_map[k] # NULL /\ Completes(SlotOf(k)) /\ slot_map'[k] = NULL
      /\ \A m \in Keys \ {k} : slot_map'[m] = slot_map[m]
      /\ \A d \in CPUs \ {c} : pc'[d] = pc[d]
      /\ UNCHANGED <<elem, frame, final, wire, emitted>>
  BY <1>k, DeleteFacts DEF RoundsHeld, Delete, Closing
<1>2. \A d \in CPUs : KeyOf(d)' = KeyOf(d) /\ (HasSum(d)' <=> HasSum(d))
  BY <1>1 DEF KeyOf, HasSum, After
<1>3. ASSUME NEW m \in Keys PROVE RoundOf(m)' = RoundOf(m)
  <2>1. CASE m = k
    <3>1. ~Open(k) /\ ~Open(k)'
      BY <1>1 DEF Open, Completes
    <3>2. QED BY <2>1, <3>1 DEF RoundOf
  <2>2. CASE m # k
    BY <1>1, <2>2 DEF RoundOf, Open, SlotOf
  <2>3. QED BY <2>1, <2>2
<1>4. \A m \in Keys : Promised(m)' = Promised(m)
  BY <1>1, <1>2, <1>3, SamePromise
<1>5. QED BY <1>1, <1>4, RoundsKept DEF Maps

\* The lock leaves the rounds of other keys alone, and its key has no closer before.
LEMMA LockOthers ==
    ASSUME RoundsHeld, NEW c \in CPUs, NEW k, NEW s, NEW a, Adds(c, k, s, a)
    PROVE  /\ \A m \in Keys \ {k} : Promised(m)' = Promised(m)
           /\ Promised(k) = RoundOf(k)
           /\ Sent' = Sent
           /\ ~HasSum(c)' => Promised(k)' = RoundOf(k)'
<1>k. k = KeyOf(c)
  BY DEF Adds
<1>1. /\ pc[c] = "lock" /\ UNCHANGED <<slot_map, emitted>>
      /\ \A m \in Keys \ {k} : slot_map[m] # NULL => SlotOf(m)' = SlotOf(m)
      /\ \A d \in CPUs \ {c} :
            pc'[d] = pc[d] /\ frame'[d] = frame[d] /\ final'[d] = final[d]
      /\ pc'[c] = "idle" \/ (pc'[c] = "complete" /\ frame'[c] = frame[c])
  BY DEF Adds
<1>2. ~HasSum(c) /\ (HasSum(c)' => KeyOf(c)' = k)
  BY <1>k, <1>1 DEF HasSum, After, KeyOf
<1>3. ASSUME NEW d \in CPUs, d # c
      PROVE  /\ HasSum(d)' <=> HasSum(d)
             /\ final'[d] = final[d] /\ frame'[d] = frame[d] /\ KeyOf(d)' = KeyOf(d)
  BY <1>1, <1>3 DEF HasSum, KeyOf
<1>4. ASSUME NEW m \in Keys \ {k} PROVE Promised(m)' = Promised(m)
  <2>1. RoundOf(m)' = RoundOf(m)
    BY <1>1 DEF RoundOf, Open
  <2>2. \A d \in CPUs : (HasSum(d) /\ KeyOf(d) = m) <=> (HasSum(d) /\ KeyOf(d) = m)'
    BY <1>2, <1>3
  <2>3. \A d \in CPUs : HasSum(d) => final'[d] = final[d] /\ frame'[d] = frame[d]
    BY <1>2, <1>3
  <2>4. QED BY <2>1, <2>2, <2>3, SamePromise
<1>5. ASSUME NEW d \in CPUs, HasSum(d) PROVE KeyOf(d) # k
  BY <1>k, <1>1, <1>5 DEF RoundsHeld, SumAlone
<1>6. Promised(k) = RoundOf(k)
  BY <1>5, NoCloser
<1>7. ASSUME ~HasSum(c)' PROVE Promised(k)' = RoundOf(k)'
  <2>1. Closer(k)' = {}
    BY <1>3, <1>5, <1>7 DEF Closer, HasSum
  <2>2. QED BY <2>1 DEF Promised
<1>8. Sent' = Sent
  BY <1>1 DEF Sent, SumOf
<1>9. QED BY <1>4, <1>6, <1>7, <1>8

\* A slot s of k whose contributions are some of those it expects is a round; one
\* without contributions is none.
LEMMA RoundOfSlot ==
    ASSUME NEW k, slot_map[k] # NULL, NEW s, s = SlotOf(k), s \in GradSlot
    PROVE  /\ s.contributions_received = 0 \/ Completes(s) => RoundOf(k) = NoRound
           /\ s.contributions_received > 0 /\ s.contributions_received < s.num_workers_expected
                 => RoundOf(k) = Held(s.num_workers_expected, s.chunk_len, s.seen_worker)
<1>1. s.contributions_received \in Nat /\ s.num_workers_expected \in Nat
  BY DEF GradSlot
<1>2. Open(k) <=> /\ s.contributions_received > 0
                  /\ s.contributions_received < s.num_workers_expected
  BY <1>1 DEF Open
<1>3. CASE Open(k)
  BY <1>1, <1>2, <1>3 DEF RoundOf, Held, Completes
<1>4. CASE ~Open(k)
  BY <1>1, <1>2, <1>4 DEF RoundOf, NoRound, Completes
<1>5. QED BY <1>3, <1>4

LEMMA WorkerCount == MAX_TRACKED_WORKERS = Cardinality(Workers)
<1>1. 0 \in Int /\ MAX_TRACKED_WORKERS - 1 \in Int /\ MAX_TRACKED_WORKERS \in Nat
  BY MapAssumption
<1>2. Cardinality(Workers) = IF 0 > MAX_TRACKED_WORKERS - 1 THEN 0
                             ELSE (MAX_TRACKED_WORKERS - 1) - 0 + 1
  BY <1>1, FS_Interval DEF Workers
<1>3. QED BY <1>1, <1>2, MapAssumption

\* What the round was before the contribution of c.
LEMMA RoundBefore ==
    ASSUME NEW c, NEW k, NEW s, NEW a, Adds(c, k, s, a)
    PROVE  \/ /\ s.contributions_received = 0 /\ s.seen_worker = {}
              /\ RoundOf(k) = NoRound
           \/ /\ s.contributions_received > 0
              /\ RoundOf(k) = Held(s.num_workers_expected, s.chunk_len, s.seen_worker)
<1>1. /\ slot_map[k] # NULL /\ s = SlotOf(k) /\ s \in GradSlot /\ Tally(k, s)
      /\ s.contributions_received \in Nat
      /\ s.contributions_received < s.num_workers_expected
  BY DEF Adds
<1>2. IsFiniteSet(s.seen_worker)
  BY <1>1, WorkersFinite, FS_Subset DEF GradSlot
<1>3. CASE s.contributions_received = 0
  <2>1. s.seen_worker = {}
    BY <1>1, <1>2, <1>3, FS_EmptySet DEF Tally
  <2>2. QED BY <1>1, <1>3, <2>1, RoundOfSlot
<1>4. CASE s.contributions_received > 0
  BY <1>1, <1>4, RoundOfSlot
<1>5. QED BY <1>1, <1>3, <1>4

\* A contribution before the last opens the round or joins it.
LEMMA PartialMaps ==
    ASSUME RoundsHeld, Admitted, NEW c \in CPUs, LockPartial(c)
    PROVE  Maps
<1>k. PICK k, s, a : Adds(c, k, s, a)
  <2>1. Awaits(c)
    BY DEF RoundsHeld, LockPartial, Accumulates
  <2>2. QED BY <2>1, LockAdds DEF RoundsHeld
<1> DEFINE n == s.num_workers_expected
           S == s.seen_worker
           w == frame[c].worker_id
<1>1. /\ k = KeyOf(c) /\ pc[c] = "lock"
      /\ k \in Keys /\ slot_map' = slot_map /\ slot_map[k] # NULL /\ SlotOf(k)' = a
      /\ pc'[c] = "idle" /\ ~Completes(a) /\ w \in Workers /\ w \notin S
      /\ a.num_workers_expected = n /\ a.chunk_len = s.chunk_len
      /\ a.seen_worker = S \cup {w}
      /\ a.contributions_received = s.contributions_received + 1
      /\ Cardinality(S \cup {w}) = a.contributions_received
      /\ s.contributions_received < n
      /\ s.contributions_received \in Nat /\ n \in Nat
  <2>1. pc'[c] = "idle" /\ ~Completes(a)
    BY <1>k DEF Adds, LockPartial, Return, Goto, TypeInv, LocalsTyped, RoundsHeld
  <2>2. QED BY <1>k, <2>1 DEF Adds, Tally
<1>2. \/ S = {} /\ RoundOf(k) = NoRound
      \/ RoundOf(k) = Held(n, s.chunk_len, S)
  BY <1>k, RoundBefore
<1>3. a.contributions_received > 0 /\ a.contributions_received < n
  BY <1>1 DEF Completes
<1>4. n \in 1 .. Cardinality(Workers) /\ s.chunk_len \in 0 .. NETSUM_MAX_CHUNK_LEN
  BY <1>k, WorkerCount DEF Adds, SlotSized
<1>5. RoundOf(k)' = Held(n, s.chunk_len, S \cup {w})
  <2>1. Open(k)'
    BY <1>1, <1>3 DEF Open
  <2>2. RoundOf(k)' = [open |-> TRUE, chunk_len |-> a.chunk_len,
                       expected |-> a.num_workers_expected, members |-> a.seen_worker]
    BY <1>1, <2>1 DEF RoundOf
  <2>3. QED BY <1>1, <2>2 DEF Held
<1>6. /\ \A m \in Keys \ {k} : Promised(m)' = Promised(m)
      /\ Promised(k) = RoundOf(k) /\ Sent' = Sent
      /\ Promised(k)' = RoundOf(k)'
  BY <1>k, <1>1, LockOthers DEF HasSum, After
<1>7. Rounds' = [Rounds EXCEPT ![k] = Held(n, s.chunk_len, S \cup {w})]
  BY <1>1, <1>5, <1>6, OneRound
<1>8. Rounds[k] = RoundOf(k)
  BY <1>1, <1>6 DEF Rounds
<1>9. RoundOf(k) = NoRound => Promise!MayOpen(k)
  BY <1>1, <1>6 DEF Admitted
<1> HIDE DEF n, S, w
<1>10. Promise!Join(k, Held(n, s.chunk_len, S), w)
  BY <1>1, <1>3, <1>6, <1>7, JoinPartial
<1>11. QED BY <1>1, <1>2, <1>4, <1>8, <1>9, <1>10, Joined DEF Maps

\* The last contribution: the round stays open until its sum is on the wire.
LEMMA CompletesMaps ==
    ASSUME RoundsHeld, RoundsHeld', NEW c \in CPUs, LockCompletes(c)
    PROVE  Maps
<1>k. PICK k, s, a : Adds(c, k, s, a)
  <2>1. Awaits(c)
    BY DEF RoundsHeld, LockCompletes, Accumulates
  <2>2. QED BY <2>1, LockAdds DEF RoundsHeld
<1>w. PICK w : w = frame[c].worker_id
  OBVIOUS
<1>1. /\ k = KeyOf(c) /\ k \in Keys /\ frame'[c] = frame[c]
      /\ s.contributions_received \in Nat /\ s.num_workers_expected \in Nat
      /\ w \notin s.seen_worker /\ a.seen_worker = s.seen_worker \cup {w}
      /\ a.seen_worker \subseteq Workers /\ Tally(k, a)
      /\ a.num_workers_expected = s.num_workers_expected /\ a.chunk_len = s.chunk_len
      /\ a.contributions_received = s.contributions_received + 1
  BY <1>k, <1>w DEF Adds, LockCompletes, GradSlot
<1>2. /\ pc'[c] = "complete" /\ Completes(a)
      /\ final'[c].key = k /\ final'[c].chunk_len = a.chunk_len
      /\ final'[c].num_workers = a.num_workers_expected /\ final'[c].sum = a.sum
  <2>1. pc'[c] = "complete"
    BY DEF LockCompletes, Goto, TypeInv, LocalsTyped, RoundsHeld
  <2>2. QED BY <1>k, <2>1 DEF Adds
<1>3. HasSum(c)' /\ KeyOf(c)' = k
  BY <1>1, <1>2 DEF RoundsHeld, TypeInv, Known, HasSum, After, KeyOf
<1>4. SumOf(final'[c]).workers = a.seen_worker
  BY <1>1, <1>2, SummedSeen
<1>5. Promised(k)' = RoundHeld(c)'
  <2>1. Closer(k)' = {c}
    BY <1>3 DEF RoundsHeld, SumAlone, Closer, HasSum
  <2>2. (CHOOSE d \in Closer(k)' : TRUE) = c
    BY <2>1
  <2>3. QED BY <2>1, <2>2 DEF Promised, RoundHeld, Held, NoRound
<1>6. RoundHeld(c)' = RoundOf(k)
  <2>1. a.seen_worker \ {w} = s.seen_worker
    BY <1>1
  <2>2. RoundHeld(c)' = IF a.num_workers_expected = 1 THEN NoRound
                        ELSE Held(a.num_workers_expected, a.chunk_len, a.seen_worker \ {w})
    BY <1>w, <1>1, <1>2, <1>4 DEF RoundHeld, SumOf
  <2>3. s.num_workers_expected = s.contributions_received + 1
    BY <1>1, <1>2 DEF Completes
  <2>4. s.num_workers_expected = 1 <=> s.contributions_received = 0
    BY <1>1, <2>3
  <2>5. CASE s.contributions_received = 0
    <3>1. RoundOf(k) = NoRound
      BY <1>k, <1>1, <2>5, RoundBefore
    <3>2. QED BY <1>1, <2>2, <2>4, <2>5, <3>1
  <2>6. CASE s.contributions_received # 0
    <3>1. RoundOf(k) = Held(s.num_workers_expected, s.chunk_len, s.seen_worker)
      BY <1>k, <1>1, <2>6, RoundBefore
    <3>2. QED BY <1>1, <2>1, <2>2, <2>4, <2>6, <3>1
  <2>7. QED BY <2>5, <2>6
<1>7. /\ \A m \in Keys \ {k} : Promised(m)' = Promised(m)
      /\ Promised(k) = RoundOf(k) /\ Sent' = Sent
  BY <1>k, LockOthers
<1>8. Rounds' = Rounds
  BY <1>5, <1>6, <1>7 DEF Rounds
<1>9. QED BY <1>7, <1>8 DEF Maps

LEMMA SeqFunction ==
    ASSUME NEW T, NEW s \in Seq(T), NEW n, n = Len(s)
    PROVE  s \in [1 .. n -> T]
OBVIOUS

LEMMA AppendIs ==
    ASSUME NEW T, NEW s \in Seq(T), NEW x \in T, NEW n, n = Len(s)
    PROVE  Append(s, x) = [m \in 1 .. n + 1 |-> IF m <= n THEN s[m] ELSE x]
<1>1. n \in Nat /\ Append(s, x) \in Seq(T) /\ Len(Append(s, x)) = n + 1
  OBVIOUS
<1>2. Append(s, x) \in [1 .. n + 1 -> T]
  BY <1>1, SeqFunction
<1>3. ASSUME NEW m \in 1 .. n + 1 PROVE Append(s, x)[m] = IF m <= n THEN s[m] ELSE x
  <2>1. CASE m <= n
    BY <1>1, <2>1
  <2>2. CASE ~(m <= n)
    <3>1. m = n + 1
      BY <1>1, <2>2
    <3>2. QED BY <1>1, <2>2, <3>1
  <2>3. QED BY <2>1, <2>2
<1>4. QED BY <1>2, <1>3

LEMMA SentAppend ==
    ASSUME TypeInv, NEW e \in Emission, emitted' = Append(emitted, e)
    PROVE  Sent' = Append(Sent, SumOf(e))
<1>1. emitted \in Seq(Emission)
  BY DEF TypeInv, MapsTyped
<1>2. PICK n \in Nat : n = Len(emitted) /\ DOMAIN emitted = 1 .. n
  BY <1>1
<1>3. /\ DOMAIN emitted' = 1 .. n + 1 /\ emitted'[n + 1] = e
      /\ \A m \in 1 .. n : emitted'[m] = emitted[m]
  BY <1>1, <1>2
<1>4. Sent = [m \in 1 .. n |-> SumOf(emitted[m])]
  BY <1>2 DEF Sent
<1>5. Sent' = [m \in 1 .. n + 1 |-> SumOf(emitted'[m])]
  BY <1>3 DEF Sent, SumOf
<1>6. PICK T : T = {SumOf(emitted[m]) : m \in 1 .. n} \cup {SumOf(e)}
  OBVIOUS
<1>7. Append(Sent, SumOf(e)) = [m \in 1 .. n + 1 |-> IF m <= n THEN Sent[m] ELSE SumOf(e)]
  <2>1. Sent \in [1 .. n -> T]
    BY <1>4, <1>6
  <2>2. Sent \in Seq(T) /\ n = Len(Sent) /\ SumOf(e) \in T
    BY <1>2, <1>6, <2>1
  <2>3. PICK q, x : q = Sent /\ x = SumOf(e)
    OBVIOUS
  <2>4. Append(q, x) = [m \in 1 .. n + 1 |-> IF m <= n THEN q[m] ELSE x]
    BY <2>2, <2>3, AppendIs
  <2>5. QED BY <2>3, <2>4
<1>8. ASSUME NEW m \in 1 .. n + 1
      PROVE  SumOf(emitted'[m]) = IF m <= n THEN Sent[m] ELSE SumOf(e)
  <2>1. CASE m <= n
    <3>1. m \in 1 .. n
      BY <1>2, <1>8, <2>1
    <3>2. QED BY <1>3, <1>4, <2>1, <3>1
  <2>2. CASE ~(m <= n)
    <3>1. m = n + 1
      BY <1>2, <1>8, <2>2
    <3>2. QED BY <1>3, <2>2, <3>1
  <2>3. QED BY <2>1, <2>2
<1>9. QED BY <1>5, <1>7, <1>8

\* The sum is on the wire: the round is closed by its closer's contribution.
LEMMA TransmitMaps ==
    ASSUME RoundsHeld, Admitted, NEW c \in CPUs, Transmit(c)
    PROVE  Maps
<1>k. PICK k, e, S, w : /\ k = KeyOf(c) /\ e = final[c] /\ S = SumOf(e).workers
                        /\ w = frame[c].worker_id
  OBVIOUS
<1>1. /\ pc[c] = "tx" /\ pc'[c] = "idle" /\ HasSum(c) /\ ~HasSum(c)'
      /\ emitted' = Append(emitted, final[c])
      /\ UNCHANGED <<slot_map, elem, wire>>
      /\ \A d \in CPUs \ {c} :
            pc'[d] = pc[d] /\ frame'[d] = frame[d] /\ final'[d] = final[d]
  BY TransmitFacts DEF RoundsHeld
<1>2. k \in Keys /\ w \in Workers
  BY <1>k, <1>1, HeldType DEF RoundsHeld
<1>3. /\ e.key = k /\ e.num_workers \in 1 .. MAX_TRACKED_WORKERS
      /\ e.chunk_len \in 0 .. NETSUM_MAX_CHUNK_LEN
      /\ w \in S /\ IsFiniteSet(S) /\ Cardinality(S) = e.num_workers
      /\ slot_map[k] = NULL
      /\ \A d \in CPUs : HasSum(d) /\ KeyOf(d) = k => d = c
  BY <1>k, <1>1 DEF RoundsHeld, SumWhole, SumAlone, Gone
<1>4. ASSUME NEW d \in CPUs, d # c
      PROVE  /\ HasSum(d)' <=> HasSum(d)
             /\ final'[d] = final[d] /\ frame'[d] = frame[d] /\ KeyOf(d)' = KeyOf(d)
  BY <1>1, <1>4 DEF HasSum, KeyOf
<1>5. ASSUME NEW m \in Keys \ {k} PROVE Promised(m)' = Promised(m)
  <2>1. RoundOf(m)' = RoundOf(m)
    BY <1>1 DEF RoundOf, Open, SlotOf
  <2>2. \A d \in CPUs : KeyOf(d) = m => d # c
    BY <1>k
  <2>3. \A d \in CPUs : (HasSum(d) /\ KeyOf(d) = m) <=> (HasSum(d) /\ KeyOf(d) = m)'
    BY <1>1, <1>4, <2>2
  <2>4. QED BY <1>4, <2>1, <2>2, <2>3, SamePromise
<1>6. Promised(k)' = NoRound
  <2>1. Closer(k)' = {}
    BY <1>1, <1>3, <1>4 DEF Closer, HasSum
  <2>2. ~Open(k)'
    BY <1>1, <1>3 DEF Open
  <2>3. QED BY <2>1, <2>2 DEF Promised, RoundOf, NoRound
<1>7. Rounds' = [Rounds EXCEPT ![k] = NoRound]
  BY <1>2, <1>5, <1>6, OneRound
<1>8. Sent' = Append(Sent, [key |-> k, chunk_len |-> e.chunk_len, workers |-> S])
  <2>1. e \in Emission
    BY <1>k, <1>1 DEF RoundsHeld, TypeInv, LocalsTyped, HasSum
  <2>2. SumOf(e) = [key |-> k, chunk_len |-> e.chunk_len, workers |-> S]
    BY <1>k, <1>3 DEF SumOf
  <2>3. QED BY <1>k, <1>1, <2>1, <2>2, SentAppend DEF RoundsHeld
<1>9. (S \ {w}) \cup {w} = S /\ w \notin S \ {w}
  BY <1>3
<1>10. Promise!Join(k, Held(e.num_workers, e.chunk_len, S \ {w}), w)
  BY <1>3, <1>7, <1>8, <1>9, JoinLast
<1>11. \/ Rounds[k] = Held(e.num_workers, e.chunk_len, S \ {w})
       \/ Rounds[k] = NoRound /\ S \ {w} = {} /\ Promise!MayOpen(k)
  <2>1. Promised(k) = RoundHeld(c) /\ Rounds[k] = Promised(k)
    BY <1>k, <1>1, <1>2, <1>3, OneCloser DEF Rounds
  <2>2. CASE e.num_workers = 1
    <3>1. S \ {w} = {}
      <4>1. \E x : S = {x}
        BY <1>3, <2>2, FS_Singleton
      <4>2. QED BY <1>3, <4>1
    <3>2. Promised(k) = NoRound
      BY <1>k, <2>1, <2>2 DEF RoundHeld
    <3>3. QED BY <1>k, <1>1, <2>1, <3>1, <3>2 DEF Admitted
  <2>3. CASE e.num_workers # 1
    BY <1>k, <2>1, <2>3 DEF RoundHeld
  <2>4. QED BY <2>2, <2>3
<1>12. e.num_workers \in 1 .. Cardinality(Workers)
  BY <1>3, WorkerCount
<1>13. QED BY <1>2, <1>3, <1>10, <1>11, <1>12, Joined DEF Maps

LEMMA MapsStep ==
    RoundsHeld /\ RoundsHeld' /\ Admitted /\ [Next]_vars => Maps
<1>1. SUFFICES ASSUME RoundsHeld, RoundsHeld', Admitted, [Next]_vars PROVE Maps
  OBVIOUS
<1>2. CASE SetConfig \/ UNCHANGED vars
  <2>1. UNCHANGED <<slot_map, elem, emitted, pc, frame, final>>
    BY <1>2 DEF SetConfig, vars, locals
  <2>2. \A m \in Keys : RoundOf(m)' = RoundOf(m)
    BY <2>1 DEF RoundOf, Open, SlotOf
  <2>3. \A d \in CPUs : KeyOf(d)' = KeyOf(d) /\ (HasSum(d)' <=> HasSum(d))
    BY <2>1 DEF KeyOf, HasSum
  <2>4. \A m \in Keys : Promised(m)' = Promised(m)
    BY <2>1, <2>2, <2>3, SamePromise
  <2>5. QED BY <2>1, <2>4, RoundsKept DEF Maps
<1>3. ASSUME NEW c \in CPUs, Rx(c) PROVE Maps
  BY <1>1, <1>3, RxKeeps, SteadyMaps DEF RoundsHeld, Keeps
<1>4. ASSUME NEW c \in CPUs, Step(c) PROVE Maps
  <2>1. CASE CreateWins(c)
    BY <1>1, <2>1, CreateMaps DEF RoundsHeld
  <2>2. CASE LockPartial(c)
    BY <1>1, <2>2, PartialMaps
  <2>3. CASE LockCompletes(c)
    BY <1>1, <2>3, CompletesMaps
  <2>4. CASE Delete(c)
    BY <1>1, <2>4, DeleteMaps
  <2>5. CASE Transmit(c)
    BY <1>1, <2>5, TransmitMaps
  <2>6. CASE \/ Precheck(c) \/ QuotaAdmits(c) \/ QuotaRejects(c) \/ CreateLoses(c)
             \/ Relookup(c) \/ RelookupFails(c) \/ Increment(c) \/ IncrementNew(c)
             \/ LockRejects(c) \/ LookupConfig(c) \/ DecrementTest(c) \/ Subtract(c)
             \/ BumpStat(c) \/ BumpNewStat(c)
    BY <1>1, <2>6, QuietMaps
  <2>7. QED BY <1>4, <2>1, <2>2, <2>3, <2>4, <2>5, <2>6 DEF Step
<1>5. QED BY <1>1, <1>2, <1>3, <1>4 DEF Next

LEMMA MapsInit == Init => Promise!Init
<1>1. SUFFICES ASSUME Init PROVE Promise!Init
  OBVIOUS
<1>2. \A m \in Keys : Promised(m) = NoRound
  <2>1. \A m \in Keys : slot_map[m] = NULL /\ Closer(m) = {}
    BY <1>1 DEF Init, Closer, After
  <2>2. QED BY <2>1 DEF Promised, RoundOf, Open, NoRound
<1>3. Rounds = [m \in Keys |-> NoRound]
  BY <1>2 DEF Rounds
<1>4. Sent = <<>>
  BY <1>1 DEF Init, Sent
<1>5. Keys = Promise!Keys /\ NoRound = Promise!NoRound
  BY DEF Promise!Keys, Keys, NoRound, Promise!NoRound
<1>6. QED BY <1>3, <1>4, <1>5 DEF Promise!Init, Rounds, Sent

\* Traffic without duplicates keeps the rounds so.
LEMMA ReadyHolds == ASSUME OnceTraffic PROVE Ready => RoundsHeld
<1>1. SUFFICES ASSUME Ready PROVE RoundsHeld
  OBVIOUS
<1>2. TypeInv /\ MapInjective /\ Sized
  BY <1>1 DEF Ready, Once
<1>3. ASSUME NEW c \in CPUs, pc[c] = "lock" PROVE Awaits(c)
  <2>1. PICK k \in Keys : k = KeyOf(c)
    BY <1>2, <1>3, HeldType
  <2>2. slot[c] = slot_map[k] /\ slot_map[k] # NULL
    BY <1>1, <1>3, <2>1 DEF Ready, Once, PointersLive, TypeInv, Known, Pointing
  <2>3. SlotTallied(k, SlotOf(k)) /\ SlotSized(SlotOf(k))
    BY <1>1, <2>2 DEF Ready, Once, SlotsTallied, Sized
  <2>4. SlotOf(k).contributions_received < SlotOf(k).num_workers_expected
    BY <1>1, <1>3, <2>1, <2>2, AwaitedOpen DEF Ready, Before
  <2>5. QED BY <2>1, <2>2, <2>3, <2>4 DEF Awaits, SlotTallied, Tally
<1>4. ASSUME NEW c \in CPUs, pc[c] \in Closing
      PROVE  slot_map[KeyOf(c)] # NULL /\ Completes(SlotOf(KeyOf(c)))
  BY <1>1, <1>4 DEF Ready, Once, ClosedByOne
<1>5. ASSUME NEW c \in CPUs, HasSum(c) PROVE SumWhole(c) /\ SumAlone(c)
  BY <1>1, <1>5 DEF Ready, SumsInHand, SumLast, SumAlone, Before
<1>6. QED BY <1>2, <1>3, <1>4, <1>5 DEF RoundsHeld

(***************************************************************************)
(* On several CPUs XdpAgg implements Aggregation when every worker's frame *)
(* arrives at most once: whatever order the steps of netsum_xdp_aggregate  *)
(* on different CPUs come in (xdp_agg.c:361-601; "concurrent packets for   *)
(* the same slot landing on different CPU cores", 199-204), a key has one  *)
(* round at a time, a round takes each worker's contribution once, and     *)
(* what is sent on is a whole round.  The quota is not part of it: on      *)
(* several CPUs PromisedQuota is 0, which is none (QuotaOvershootCorrect   *)
(* says what holds instead).                                               *)
(***************************************************************************)
THEOREM ImplementsAggregationCorrect ==
    ASSUME OnceTraffic, Cardinality(CPUs) # 1
    PROVE  Spec => ImplementsAggregation
<1>1. Admitted
  BY DEF Admitted, Promise!MayOpen, PromisedQuota
<1>2. RoundsHeld /\ RoundsHeld' /\ [Next]_vars
         => [Promise!Next]_<<[k \in Keys |-> Promised(k)],
                             [n \in DOMAIN emitted |-> SumOf(emitted[n])]>>
  BY <1>1, MapsStep DEF Maps, Rounds, Sent
<1>3. Ready => RoundsHeld
  BY ReadyHolds
<1>4. QED
  BY <1>2, <1>3, MapsInit, ReadyAlways, PTL DEF Spec, ImplementsAggregation, Promise!Spec

-----------------------------------------------------------------------------
(***************************************************************************)
(* One CPU, whatever the traffic.  The sum in hand is whole; the quota is  *)
(* never exceeded, and a slot that is closed is one below it.              *)
(***************************************************************************)
SoloReady(c) == TypeInv /\ Solo(c) /\ (HasSum(c) => SumWhole(c))

LEMMA SoloSized == ASSUME NEW c \in CPUs, CPUs = {c} PROVE Solo(c) => Sized
BY DEF Solo, SoloSlots, SoloSlot, SoloCPU, Sized

LEMMA SoloSum ==
    ASSUME NEW c \in CPUs, CPUs = {c}
    PROVE  SoloReady(c) /\ [Next]_vars => (HasSum(c)' => SumWhole(c)')
<1>1. SUFFICES ASSUME SoloReady(c), [Next]_vars, HasSum(c)' PROVE SumWhole(c)'
  OBVIOUS
<1>2. TypeInv /\ Solo(c) /\ Sized
  BY <1>1, SoloSized DEF SoloReady
<1>3. CASE HasSum(c) /\ final'[c] = final[c] /\ frame'[c] = frame[c]
  BY <1>1, <1>3 DEF SoloReady, SumWhole, SumOf, KeyOf
<1>4. CASE SetConfig \/ UNCHANGED vars
  BY <1>1, <1>3, <1>4 DEF SetConfig, vars, locals, HasSum
<1>5. CASE Rx(c)
  BY <1>1, <1>2, <1>5, RxKeeps
<1>6. CASE Step(c)
  <2>1. CASE CreateWins(c)
    BY <1>1, <1>2, <2>1, CreateFacts DEF HasSum, After
  <2>2. CASE Delete(c)
    BY <1>1, <1>2, <1>3, <2>2, DeleteFacts DEF HasSum, After
  <2>3. CASE Transmit(c)
    BY <1>1, <1>2, <2>3, TransmitFacts
  <2>4. CASE LockPartial(c) \/ LockCompletes(c)
    <3>1. PICK k, s, a : Adds(c, k, s, a)
      <4>1. Awaits(c)
        BY <1>2, <2>4, SoloLock DEF LockPartial, LockCompletes, Accumulates
      <4>2. QED BY <1>2, <2>4, <4>1, LockAdds DEF Solo
    <3>2. /\ k = KeyOf(c) /\ k \in Keys /\ UNCHANGED frame /\ Completes(a)
          /\ final'[c].key = k /\ final'[c].chunk_len = a.chunk_len
          /\ final'[c].num_workers = a.num_workers_expected /\ final'[c].sum = a.sum
      BY <1>1, <3>1 DEF Adds, HasSum, After
    <3>3. /\ Tally(k, a) /\ SlotSized(a) /\ a.seen_worker \subseteq Workers
          /\ frame[c].worker_id \in a.seen_worker
      BY <3>1 DEF Adds, GradSlot
    <3>4. SumOf(final'[c]).workers = a.seen_worker
      BY <3>2, <3>3, SummedSeen
    <3>5. IsFiniteSet(a.seen_worker) /\ Cardinality(a.seen_worker) = a.num_workers_expected
      BY <3>2, <3>3, WorkersFinite, FS_Subset DEF Tally, Completes
    <3>6. SumOf(final[c])' = SumOf(final'[c]) /\ KeyOf(c)' = k
      BY <3>2 DEF SumOf, KeyOf
    <3>7. QED BY <3>2, <3>3, <3>4, <3>5, <3>6 DEF SumWhole, SlotSized
  <2>5. CASE \/ Precheck(c) \/ QuotaAdmits(c) \/ QuotaRejects(c) \/ CreateLoses(c)
             \/ Relookup(c) \/ RelookupFails(c) \/ Increment(c) \/ IncrementNew(c)
             \/ LockRejects(c) \/ LookupConfig(c) \/ DecrementTest(c) \/ Subtract(c)
             \/ BumpStat(c) \/ BumpNewStat(c)
    BY <1>1, <1>2, <1>3, <2>5, QuietSums
  <2>6. QED BY <1>6, <2>1, <2>2, <2>3, <2>4, <2>5 DEF Step
<1>7. QED BY <1>1, <1>4, <1>5, <1>6 DEF Next

LEMMA SoloReadyAlways ==
    ASSUME NEW c \in CPUs, CPUs = {c}
    PROVE  Spec => []SoloReady(c)
<1>1. SoloReady(c) /\ [Next]_vars => SoloReady(c)'
  BY TypeStep, SoloStep, SoloSum DEF SoloReady
<1>2. Init => SoloReady(c)
  BY TypeInit, SoloInit DEF SoloReady, Init, HasSum, After
<1>3. QED BY <1>1, <1>2, PTL DEF Spec

LEMMA SoloReadyHolds ==
    ASSUME NEW c \in CPUs, CPUs = {c}
    PROVE  SoloReady(c) => RoundsHeld
<1>1. SUFFICES ASSUME SoloReady(c) PROVE RoundsHeld
  OBVIOUS
<1>2. TypeInv /\ MapInjective /\ Sized
  BY <1>1, SoloSized DEF SoloReady, Solo
<1>3. pc[c] = "lock" => Awaits(c)
  BY <1>1, SoloLock DEF SoloReady
<1>4. ASSUME pc[c] \in Closing
      PROVE  slot_map[KeyOf(c)] # NULL /\ Completes(SlotOf(KeyOf(c)))
  <2>1. KeyOf(c) \in Keys /\ slot_map[KeyOf(c)] # NULL
    BY <1>1, <1>4, HeldType DEF SoloReady, Solo, SoloCPU, Closing
  <2>2. QED BY <1>1, <1>4, <2>1 DEF SoloReady, Solo, SoloSlots, SoloSlot, Closes
<1>5. ASSUME HasSum(c) PROVE SumWhole(c) /\ SumAlone(c)
  <2>1. pc[c] # "lock" /\ (pc[c] \in Gone => slot_map[KeyOf(c)] = NULL)
    BY <1>1, <1>5 DEF SoloReady, Solo, SoloCPU, HasSum, After
  <2>2. QED BY <1>1, <1>5, <2>1 DEF SoloReady, SumAlone
<1>6. QED BY <1>2, <1>3, <1>4, <1>5 DEF RoundsHeld

\* Every job can be counted when job_quota_map has room for all of them.
LEMMA AllCountable ==
    ASSUME Cardinality(Jobs) <= JOB_QUOTA_ENTRIES, TypeInv, NEW j \in Jobs
    PROVE  Countable(j)
<1>1. CASE j \notin Tracked
  <2>1. Tracked \in SUBSET (Jobs \ {j})
    BY <1>1 DEF TypeInv, MapsTyped
  <2>2. IsFiniteSet(Jobs \ {j}) /\ Cardinality(Jobs \ {j}) = Cardinality(Jobs) - 1
    BY RunAssumption, FS_RemoveElement
  <2>3. Cardinality(Tracked) \in Nat /\ Cardinality(Tracked) <= Cardinality(Jobs) - 1
    BY <2>1, <2>2, FS_Subset, FS_CardinalityType
  <2>4. Cardinality(Jobs) \in Nat
    BY RunAssumption, FS_CardinalityType
  <2>5. QED BY <2>3, <2>4, MapAssumption DEF Countable
<1>2. QED BY <1>1 DEF Countable

\* A closed slot has left room for another.
Below(q, c) == pc[c] \in Gone => Cardinality(SlotsOf(JobOf(c))) < q

Within(q) == \A j \in Jobs : Cardinality(SlotsOf(j)) <= q

LEMMA BelowStep ==
    ASSUME NEW c \in CPUs, CPUs = {c}, NEW q \in Nat
    PROVE  SoloReady(c) /\ Within(q) /\ Below(q, c) /\ [Next]_vars => Below(q, c)'
<1>1. SUFFICES ASSUME SoloReady(c), Within(q), Below(q, c), [Next]_vars, pc'[c] \in Gone
               PROVE  Cardinality(SlotsOf(JobOf(c)))' < q
  BY DEF Below
<1>2. TypeInv /\ Solo(c) /\ Sized
  BY <1>1, SoloSized DEF SoloReady
<1>3. CASE pc[c] \in Gone /\ frame'[c] = frame[c] /\ UNCHANGED slot_map
  BY <1>1, <1>3 DEF Below, SlotsOf, JobOf
<1>4. CASE SetConfig \/ UNCHANGED vars
  BY <1>1, <1>3, <1>4 DEF SetConfig, vars, locals
<1>5. CASE Rx(c)
  BY <1>1, <1>2, <1>3, <1>5, RxKeeps DEF Keeps, Steady
<1>6. CASE Delete(c)
  <2>1. PICK k \in Keys : k = KeyOf(c)
    BY <1>2, <1>6, HeldType DEF Delete
  <2>2. /\ slot_map'[k] = NULL /\ \A m \in Keys \ {k} : slot_map'[m] = slot_map[m]
        /\ UNCHANGED frame /\ pc[c] = "delete"
    BY <1>2, <1>6, <2>1, DeleteFacts
  <2>3. slot_map[k] # NULL
    BY <1>2, <2>1, <2>2 DEF Solo, SoloCPU, Closing
  <2>4. JobOf(c) = k.job_id /\ JobOf(c)' = k.job_id /\ k.job_id \in Jobs
    BY <2>1, <2>2 DEF KeyOf, JobOf, Keys
  <2>5. PICK S : S = SlotsOf(k.job_id)
    OBVIOUS
  <2>6. SlotsOf(k.job_id)' = S \ {k} /\ k \in S
    BY <2>2, <2>3, <2>5 DEF SlotsOf
  <2>7. IsFiniteSet(S) /\ Cardinality(S) \in Nat /\ Cardinality(S) <= q
    BY <1>1, <1>2, <2>4, <2>5, SlotsFinite DEF Within, Solo
  <2>8. Cardinality(S \ {k}) = Cardinality(S) - 1
    BY <2>6, <2>7, FS_RemoveElement
  <2>9. Cardinality(S \ {k}) < q
    BY <2>7, <2>8
  <2>10. QED BY <2>4, <2>6, <2>9
<1>7. CASE CreateWins(c) \/ LockPartial(c) \/ LockCompletes(c) \/ Transmit(c)
  BY <1>1, <1>2, <1>7 DEF CreateWins, LockPartial, LockCompletes, Transmit, Return, Goto,
     TypeInv, LocalsTyped, Gone
<1>8. CASE \/ Precheck(c) \/ QuotaAdmits(c) \/ QuotaRejects(c) \/ CreateLoses(c)
           \/ Relookup(c) \/ RelookupFails(c) \/ Increment(c) \/ IncrementNew(c)
           \/ LockRejects(c) \/ LookupConfig(c) \/ DecrementTest(c) \/ Subtract(c)
           \/ BumpStat(c) \/ BumpNewStat(c)
  BY <1>1, <1>2, <1>3, <1>8, QuietSteady DEF Steady
<1>9. QED BY <1>1, <1>4, <1>5, <1>6, <1>7, <1>8 DEF Next, Step

\* A round is opened in a slot that the quota admitted, or by a sum whose slot is
\* given back.
LEMMA SoloAdmitted ==
    ASSUME NEW c \in CPUs, CPUs = {c}, NEW q \in Nat, PromisedQuota = q,
           SoloReady(c), Within(q), Below(q, c)
    PROVE  Admitted
<1>1. SUFFICES ASSUME pc[c] \in {"lock", "tx"}, Promised(KeyOf(c)) = NoRound
               PROVE  Promise!MayOpen(KeyOf(c))
  BY DEF Admitted
<1>2. PICK k \in Keys : k = KeyOf(c)
  BY <1>1, HeldType DEF SoloReady
<1>3. PICK j \in Jobs : j = k.job_id /\ j = JobOf(c)
  BY <1>2 DEF Keys, KeyOf, JobOf
<1>4. PICK R, S : R = Promise!OpenRounds(j) /\ S = SlotsOf(j)
  OBVIOUS
<1>5. R \subseteq S \ {k}
  <2>1. ASSUME NEW m \in R PROVE m \in S \ {k}
    <3>1. m \in Keys /\ m.job_id = j /\ Promised(m).open
      BY <1>4, <2>1 DEF Promise!OpenRounds, Promise!Keys, Keys
    <3>2. m # k
      BY <1>1, <1>2, <3>1 DEF NoRound
    <3>3. Promised(m) = RoundOf(m)
      BY <1>2, <3>2, NoCloser
    <3>4. slot_map[m] # NULL
      BY <3>1, <3>3 DEF RoundOf, Open
    <3>5. QED BY <1>4, <3>1, <3>2, <3>4 DEF SlotsOf
  <2>2. QED BY <2>1
<1>6. IsFiniteSet(S) /\ Cardinality(S) \in Nat /\ Cardinality(S) <= q
  BY <1>4, SlotsFinite DEF SoloReady, Solo, Within
<1>7. Cardinality(R) < q
  <2>1. CASE pc[c] = "lock"
    <3>1. slot_map[k] # NULL
      BY <1>2, <2>1 DEF SoloReady, Solo, SoloCPU, TypeInv, Known, Pointing
    <3>2. k \in S
      BY <1>2, <1>3, <1>4, <3>1 DEF SlotsOf
    <3>3. IsFiniteSet(S \ {k}) /\ Cardinality(S \ {k}) = Cardinality(S) - 1
      BY <1>6, <3>2, FS_RemoveElement
    <3>4. Cardinality(R) \in Nat /\ Cardinality(R) <= Cardinality(S \ {k})
      BY <1>5, <3>3, FS_Subset, FS_CardinalityType
    <3>5. QED BY <1>6, <3>3, <3>4
  <2>2. CASE pc[c] = "tx"
    <3>1. Cardinality(S) < q
      BY <1>3, <1>4, <2>2 DEF Below, Gone
    <3>2. Cardinality(R) \in Nat /\ Cardinality(R) <= Cardinality(S)
      BY <1>5, <1>6, FS_Subset, FS_CardinalityType
    <3>3. QED BY <1>6, <3>1, <3>2
  <2>3. QED BY <1>1, <2>1, <2>2
<1>8. Promise!Cardinality(R) < q
  BY <1>7, SameCardinality
<1>9. QED BY <1>2, <1>3, <1>4, <1>8 DEF Promise!MayOpen

\* The quota, when it is in force, is a cap.
LEMMA SoloWithin ==
    ASSUME NEW c \in CPUs, CPUs = {c}, NEW q \in Nat, Cardinality(Jobs) <= JOB_QUOTA_ENTRIES
    PROVE  SoloReady(c) /\ CapInv(q) => Within(q)
<1>1. SUFFICES ASSUME SoloReady(c), CapInv(q), NEW j \in Jobs
               PROVE  Cardinality(SlotsOf(j)) <= q
  BY DEF Within
<1>2. TypeInv /\ SlotsHeld
  BY <1>1, SoloHeld DEF SoloReady
<1>3. Cardinality(SlotsOf(j)) + Cardinality(At(j, Creating)) <= q + Cardinality(CPUs) - 1
  BY <1>1, <1>2, AllCountable DEF CapInv, Capped
<1>4. Cardinality(CPUs) = 1
  BY FS_Singleton
<1>5. QED BY <1>2, <1>3, <1>4, CapTypes

LEMMA AdmittedAlways ==
    ASSUME NEW c \in CPUs, CPUs = {c},
           \/ FixedQuota = 0
           \/ Configs = {FixedQuota} /\ Cardinality(Jobs) <= JOB_QUOTA_ENTRIES
    PROVE  Spec => []Admitted
<1>1. PromisedQuota = FixedQuota
  BY FS_Singleton DEF PromisedQuota
<1>2. CASE FixedQuota = 0
  <2>1. Admitted
    BY <1>1, <1>2 DEF Admitted, Promise!MayOpen
  <2>2. QED BY <2>1, PTL
<1>3. CASE FixedQuota # 0
  <2>1. PICK q : q = FixedQuota
    OBVIOUS
  <2>2. Configs = {q} /\ Cardinality(Jobs) <= JOB_QUOTA_ENTRIES /\ q # 0
    BY <1>3, <2>1
  <2>3. q \in Nat /\ q > 0
    <3>1. q \in Nat \cup {NoConfig}
      BY <2>2, RunAssumption
    <3>2. q # NoConfig
      BY <2>1, <2>2 DEF FixedQuota
    <3>3. QED BY <2>2, <3>1, <3>2
  <2>4. OnceTraffic \/ Cardinality(CPUs) = 1
    BY FS_Singleton
  <2>5. Spec => []CapInv(q)
    BY <2>2, <2>3, <2>4, CapAlways
  <2>6. SoloReady(c) /\ CapInv(q) => Within(q)
    BY <2>2, <2>3, SoloWithin
  <2>7. SoloReady(c) /\ Within(q) /\ Below(q, c) /\ [Next]_vars => Below(q, c)'
    BY <2>3, BelowStep
  <2>8. SoloReady(c) /\ Within(q) /\ Below(q, c) => Admitted
    BY <1>1, <2>1, <2>3, SoloAdmitted
  <2>9. Init => Below(q, c)
    BY DEF Init, Below, Gone
  <2>10. QED
    BY <2>5, <2>6, <2>7, <2>8, <2>9, SoloReadyAlways, PTL DEF Spec
<1>4. QED BY <1>2, <1>3

(***************************************************************************)
(* On one CPU XdpAgg implements Aggregation for every traffic: whatever is *)
(* lost, duplicated, reordered or malformed on the way (xdp_agg.c:361-601),*)
(* and however many workers a frame claims, a round takes each worker's    *)
(* contribution once and is sent on whole.  The quota is part of the       *)
(* promise, unless it is 0: a job at it opens no further round             *)
(* (xdp_agg.c:433-442), if the configuration stays and job_quota_map has   *)
(* room for every job; a job whose entry could not be created is not       *)
(* counted, and not capped (319-325, 438).                                 *)
(***************************************************************************)
THEOREM ImplementsAggregationAlone ==
    ASSUME Cardinality(CPUs) = 1,
           \/ FixedQuota = 0
           \/ Configs = {FixedQuota} /\ Cardinality(Jobs) <= JOB_QUOTA_ENTRIES
    PROVE  Spec => ImplementsAggregation
<1>1. PICK c \in CPUs : CPUs = {c}
  BY OneCPU
<1>2. RoundsHeld /\ RoundsHeld' /\ Admitted /\ [Next]_vars
         => [Promise!Next]_<<[k \in Keys |-> Promised(k)],
                             [n \in DOMAIN emitted |-> SumOf(emitted[n])]>>
  BY MapsStep DEF Maps, Rounds, Sent
<1>3. (SoloReady(c) => RoundsHeld) /\ (Spec => []SoloReady(c)) /\ (Spec => []Admitted)
  BY <1>1, SoloReadyHolds, SoloReadyAlways, AdmittedAlways
<1>4. QED
  BY <1>2, <1>3, MapsInit, PTL DEF Spec, ImplementsAggregation, Promise!Spec
=============================================================================
