------------------------------- MODULE LaneSum -------------------------------
(***************************************************************************)
(* One lane of one round, bit by bit: every worker quantises its gradient  *)
(* (src/worker/worker.c), the lane travels in network byte order, the      *)
(* aggregator adds it with int32_t arithmetic (src/userspace_agg/agg.c or, *)
(* with its own byte swap, src/xdp_agg/xdp_agg.c), and the parameter       *)
(* server reports the sum (src/paramserver/paramserver.c).                 *)
(*                                                                         *)
(* That every worker is added once is what the other modules are about; it *)
(* is built in here.  Contributions arrive in any order.                   *)
(***************************************************************************)
EXTENDS GradProto, FiniteSets

CONSTANTS
    Routes,     \* who adds the lanes: "user", "kernel" or, in mode noagg, "none"
    NumWorkers, \* values of argv num_workers
    MaxAbs,     \* values of argv max_abs_grad
    Gradients,  \* the gradients a worker may compute or be given
    NoLane

ASSUME LaneAssumption ==
    /\ Routes \subseteq {"user", "kernel", "none"}
    /\ NumWorkers \subseteq Nat \ {0} /\ MaxAbs \subseteq Nat
    /\ Gradients \subseteq Int
    /\ NoLane \notin Lane \cup Int

VARIABLES
    route, num_workers, max_abs_grad,   \* the deployment
    bounded,    \* no worker was given a fixed_value above max_abs_grad
    lanes,      \* the lane of each worker's datagram, or NoLane
    seen, sum,  \* the slot that adds them up
    sent_on,    \* the lane of the aggregator's datagram, or NoLane
    reported,   \* sum[0] of the [complete] line, or NoLane
    gradient,   \* history: the gradient of each worker ...
    fixed,      \* history: ... and what it was quantised to
    real,       \* history: the sum over seen of the gradients ...
    total       \* history: ... and of what they were quantised to, as an integer

deployment == <<route, num_workers, max_abs_grad>>
vars == <<deployment, bounded, lanes, seen, sum, sent_on, reported,
          gradient, fixed, real, total>>

Senders == 0 .. num_workers - 1

Init ==
    /\ route \in Routes /\ num_workers \in NumWorkers /\ max_abs_grad \in MaxAbs
    /\ bounded = TRUE
    /\ lanes = [w \in Senders |-> NoLane]
    /\ seen = {}
    /\ sum = 0
    /\ sent_on = NoLane
    /\ reported = NoLane
    /\ gradient = [w \in Senders |-> 0]
    /\ fixed = [w \in Senders |-> 0]
    /\ real = 0
    /\ total = 0

-----------------------------------------------------------------------------
\* What a sender writes for a lane, and what each receiver reads.
Written(x) == Store(ntohl(Unsigned(x)))
ReadByLibc(lane) == Signed(ntohl(Load(lane)))
ReadByBpf(lane)  == Signed(netsum_bpf_ntohl(Load(lane)))
ReadBySlot(lane) == IF route = "kernel" THEN ReadByBpf(lane) ELSE ReadByLibc(lane)

\* The XDP program writes its own sums back with its own swap.
WrittenBySlot(x) ==
    IF route = "kernel" THEN Store(netsum_bpf_ntohl(Unsigned(x))) ELSE Written(x)

\* A worker sends its datagram: the random gradient is within max_abs_grad, a
\* fixed_value need not be.
Send(w) ==
    /\ lanes[w] = NoLane
    /\ \E v \in Gradients :
          /\ gradient' = [gradient EXCEPT ![w] = v]
          /\ bounded' = (bounded /\ -max_abs_grad <= v /\ v <= max_abs_grad)
          /\ \E q \in netsum_to_fixed(v) :
                /\ fixed' = [fixed EXCEPT ![w] = q]
                /\ lanes' = [lanes EXCEPT ![w] = Written(q)]
    /\ UNCHANGED <<deployment, seen, sum, sent_on, reported, real, total>>

\* A datagram reaches the slot.  The one that completes it is sent on, or, at
\* the parameter server, reported.
Add(w) ==
    LET complete == Cardinality(seen) + 1 = num_workers
    IN
    /\ lanes[w] # NoLane /\ w \notin seen
    /\ seen' = seen \cup {w}
    /\ sum' = Plus32(sum, ReadBySlot(lanes[w]))
    /\ total' = total + fixed[w]
    /\ real' = real + gradient[w]
    /\ sent_on'  = IF complete /\ route # "none" THEN WrittenBySlot(sum') ELSE sent_on
    /\ reported' = IF complete /\ route = "none" THEN sum' ELSE reported
    /\ UNCHANGED <<deployment, bounded, lanes, gradient, fixed>>

\* The aggregator's datagram reaches a fresh slot of the parameter server.
Report ==
    /\ sent_on # NoLane /\ reported = NoLane
    /\ reported' = Plus32(0, ReadByLibc(sent_on))
    /\ UNCHANGED <<deployment, bounded, lanes, seen, sum, sent_on, gradient, fixed,
                   real, total>>

Next == Report \/ \E w \in Senders : Send(w) \/ Add(w)

Spec == Init /\ [][Next]_vars

-----------------------------------------------------------------------------
(***************************************************************************)
(* Properties.                                                             *)
(***************************************************************************)
Fits == netsum_sum_fits_i32(num_workers, max_abs_grad)

\* When the configuration passes the bound check and no worker exceeds
\* max_abs_grad, int32_t addition is exact at every contribution, in any order
\* of arrival, not only in the final sum (grad_proto.h:60-69 "the summed Q16.16
\* accumulator must not exceed int32_t's range").
SumExact == Fits /\ bounded => sum = total

\* Without that, an accumulator may wrap on the way, but what is reported is the
\* integer sum modulo 2^32: exact whenever the final sum fits, whatever the
\* order of arrival, and the same for the three byte orders on the way
\* (grad_proto.h:4-10 "one aggregation algorithm, not three").
ReportedModular == reported # NoLane => Unsigned(reported) = Unsigned(total)

\* A reported sum is within one ULP per worker of the sum of the gradients
\* (tests/test_correctness.py:28-38, ci/assert_paramserver.py:34-35).
ReportedClose ==
    Fits /\ bounded /\ reported # NoLane =>
        LET error == netsum_to_double(reported) - real * SCALE
        IN  error < num_workers * Unit /\ -error < num_workers * Unit
=============================================================================
