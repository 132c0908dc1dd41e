----------------------------- MODULE ParamServer -----------------------------
(***************************************************************************)
(* The parameter server, src/paramserver/paramserver.c: one thread that    *)
(* receives datagrams and sums them per (job_id, round, chunk_id) slot; a  *)
(* slot is never given back, and reports its sum on stderr when it is      *)
(* complete.  Behind an aggregator (mode agg) one datagram, already a sum, *)
(* completes a slot; in mode noagg it takes num_workers of them.           *)
(*                                                                         *)
(* Data abstraction.  As in UserAgg, but a lane is kept by itself: its     *)
(* value is how often each worker's value for each key is in it.  The      *)
(* receive buffer is not cleared, and a datagram's length is not compared  *)
(* with its chunk_len, so lanes of an earlier datagram may be summed.      *)
(*                                                                         *)
(* Every step is the loop's body for one datagram d that recvfrom()        *)
(* returned; where d comes from is left to the module that composes.       *)
(***************************************************************************)
EXTENDS Integers, Sequences, FiniteSets

CONSTANTS
    Jobs,                   \* job_id values in the traffic
    Parts,                  \* (round, chunk_id) pairs in the traffic
    SLOT_TABLE_CAPACITY,
    MAX_TRACKED_WORKERS,
    NETSUM_MAX_CHUNK_LEN,
    max_packets,            \* argv: 0 = run forever
    Unset                   \* what was on the stack where the buffer is

Keys    == [job_id : Jobs, part : Parts]
Workers == 0 .. MAX_TRACKED_WORKERS - 1
Lanes   == 1 .. NETSUM_MAX_CHUNK_LEN

\* A lane's value: a number of times for each (key, worker).
Tags    == (Keys \X Workers) \cup {Unset}
Lane    == [Tags -> Nat]
Zero    == [t \in Tags |-> 0]
One(S)  == [t \in Tags |-> IF t \in S THEN 1 ELSE 0]
Plus(a, b) == [t \in Tags |-> a[t] + b[t]]

\* A received datagram: n lanes that arrived, all with the same value; n is -1
\* for a datagram shorter than the header.
Datagram == [n : Int, key : Keys, worker_id : Nat, num_workers : Nat, chunk_len : Nat,
             value : Lane]

ASSUME ServerAssumption ==
    /\ IsFiniteSet(Jobs) /\ IsFiniteSet(Parts)
    /\ SLOT_TABLE_CAPACITY \in Nat \ {0}
    /\ MAX_TRACKED_WORKERS \in Nat \ {0}
    /\ NETSUM_MAX_CHUNK_LEN \in Nat \ {0}
    /\ max_packets \in Nat
    /\ Unset \notin Keys \X Workers

VARIABLES
    agg_mode,      \* argv: the server sits behind an aggregator
    slots,         \* g_slots, as the slot of each key
    packet,        \* the lanes of the receive buffer
    packets_seen,
    completions    \* the [complete] lines on stderr, in order

server == <<agg_mode, slots, packet, packets_seen, completions>>

FreeSlot == [in_use |-> FALSE]
UsedSlot == [in_use : {TRUE}, num_workers_expected : Nat, contributions_received : Nat,
             sum : [Lanes -> Lane], chunk_len : Nat, completed : BOOLEAN,
             seen_worker : SUBSET Workers]
Line     == [key : Keys, contributions : Nat, sum : Lane]

Init ==
    /\ agg_mode \in BOOLEAN
    /\ slots = [k \in Keys |-> FreeSlot]
    /\ packet = [i \in Lanes |-> One({Unset})]
    /\ packets_seen = 0
    /\ completions = <<>>

-----------------------------------------------------------------------------
Held == {k \in Keys : slots[k].in_use}

\* find_or_create_slot() returns NULL.  No entry is ever freed, so probing the
\* table is a lookup by key.
TableFull(k) == k \notin Held /\ Cardinality(Held) >= SLOT_TABLE_CAPACITY

\* The slot of d, with what the first contribution latches.
SlotFor(d) ==
    IF slots[d.key].in_use THEN slots[d.key]
    ELSE [in_use |-> TRUE, contributions_received |-> 0, seen_worker |-> {},
          num_workers_expected |-> IF agg_mode THEN 1 ELSE d.num_workers,
          chunk_len |-> d.chunk_len, sum |-> [i \in Lanes |-> Zero], completed |-> FALSE]

\* Mutant: worker_id is not compared with the size of seen_worker[].
WellFormedAnyWorker(d) == d.chunk_len <= NETSUM_MAX_CHUNK_LEN
WellFormed(d) ==
    /\ d.chunk_len <= NETSUM_MAX_CHUNK_LEN
    /\ d.worker_id < MAX_TRACKED_WORKERS

\* recvfrom() returned d, with a whole header: the buffer keeps the lanes d does
\* not reach.
Receive(d) ==
    /\ max_packets = 0 \/ packets_seen < max_packets
    /\ d.n >= 0
    /\ packet' = [i \in Lanes |-> IF i <= d.n THEN d.value ELSE packet[i]]
    /\ packets_seen' = packets_seen + 1
    /\ UNCHANGED agg_mode

RecvRunt(d) ==
    /\ max_packets = 0 \/ packets_seen < max_packets
    /\ d.n < 0
    /\ UNCHANGED server

RecvMalformed(d) ==
    /\ Receive(d) /\ ~WellFormed(d)
    /\ UNCHANGED <<slots, completions>>

RecvFull(d) ==
    /\ Receive(d) /\ WellFormed(d)
    /\ TableFull(d.key)
    /\ UNCHANGED <<slots, completions>>

\* Mutant: no seen_worker[].
DuplicateNever(d) == FALSE
Duplicate(d) == d.worker_id \in SlotFor(d).seen_worker

RecvDuplicate(d) ==
    /\ Receive(d) /\ WellFormed(d) /\ ~TableFull(d.key)
    /\ Duplicate(d)
    /\ UNCHANGED <<slots, completions>>

\* The loop's bound is d's chunk_len, not the slot's, and its lanes are the
\* buffer's.
Summed(sum, d) ==
    [i \in Lanes |-> IF i <= d.chunk_len THEN Plus(sum[i], packet'[i]) ELSE sum[i]]

Accumulated(d) ==
    [SlotFor(d) EXCEPT !.seen_worker = @ \cup {d.worker_id},
                       !.sum = Summed(@, d),
                       !.contributions_received = @ + 1]

\* Mutants: a complete slot is one that has enough, and is so again and again;
\* one contribution too many is waited for.
CompletesAgain(s) == s.contributions_received >= s.num_workers_expected
CompletesLate(s)  == s.contributions_received = s.num_workers_expected + 1 /\ ~s.completed
Completes(s) == s.contributions_received = s.num_workers_expected /\ ~s.completed

RecvPartial(d) ==
    /\ Receive(d) /\ WellFormed(d) /\ ~TableFull(d.key) /\ ~Duplicate(d)
    /\ ~Completes(Accumulated(d))
    /\ slots' = [slots EXCEPT ![d.key] = Accumulated(d)]
    /\ UNCHANGED completions

RecvComplete(d) ==
    /\ Receive(d) /\ WellFormed(d) /\ ~TableFull(d.key) /\ ~Duplicate(d)
    /\ Completes(Accumulated(d))
    /\ slots' = [slots EXCEPT ![d.key] = [Accumulated(d) EXCEPT !.completed = TRUE]]
    /\ completions' = Append(completions,
                             [key |-> d.key, sum |-> Accumulated(d).sum[1],
                              contributions |-> Accumulated(d).contributions_received])

Handle(d) ==
    \/ RecvRunt(d) \/ RecvMalformed(d) \/ RecvFull(d) \/ RecvDuplicate(d)
    \/ RecvPartial(d) \/ RecvComplete(d)

\* The server by itself, whatever is sent to it.
ServerSpec == Init /\ [][\E d \in Datagram : Handle(d)]_server

-----------------------------------------------------------------------------
\* Every variable of the server has its type.
ServerTypeOK ==
    /\ agg_mode \in BOOLEAN
    /\ slots \in [Keys -> UsedSlot \cup {FreeSlot}]
    /\ packet \in [Lanes -> Lane]
    /\ packets_seen \in Nat
    /\ completions \in Seq(Line)

Reported(k) == {n \in DOMAIN completions : completions[n].key = k}

\* A reported key has its slot for good, completed, and is reported in one line.
\* (The inductive invariant behind ReportedOnce.)
ReportedInv ==
    /\ \A n \in DOMAIN completions : slots[completions[n].key].in_use
                                  /\ slots[completions[n].key].completed
    /\ \A m, n \in DOMAIN completions : completions[m].key = completions[n].key => m = n

\* A key is reported at most once, however often its datagrams come again and
\* whatever the aggregator before it reopened (ci/assert_paramserver.py:64
\* "expected exactly 1 [complete] line"; paramserver.c:172).
ReportedOnce == \A k \in Keys : Cardinality(Reported(k)) <= 1
=============================================================================
