-------------------------------- MODULE NetSum --------------------------------
(***************************************************************************)
(* The whole of NetSum: workers (src/worker/worker.c), the network, an     *)
(* aggregator and the parameter server (src/paramserver/paramserver.c).    *)
(* The aggregator is Aggregation, the specification that UserAgg and       *)
(* XdpAgg implement; it may refuse, abandon and lose rounds as they do.    *)
(* In mode noagg the workers send to the parameter server directly.        *)
(*                                                                         *)
(* The network is a bag of datagrams in flight: it loses and reorders      *)
(* them.  Duplicates come from workers that are run again, as the load     *)
(* test does (src/.github/workflows/xdp-loadtest.yml:341-345).             *)
(***************************************************************************)
EXTENDS ParamServer, Bags

CONSTANTS
    job,            \* argv of every worker: its job_id ...
    num_workers,    \* ... how many of them there are
    num_rounds,     \* ... and how many rounds each sends
    MaxRuns,        \* bound: how often workers are run again, all together
    Strays          \* other datagrams, one of which may go to the server in mode noagg

ASSUME WorkerAssumption ==
    /\ job \in Jobs /\ 0 .. num_rounds - 1 \subseteq Parts
    /\ num_workers \in 1 .. MAX_TRACKED_WORKERS /\ num_rounds \in Nat
    /\ Strays \subseteq Datagram

\* A worker's contribution to a job of num_workers workers.
Contribution(d) ==
    /\ d.num_workers = num_workers /\ d.chunk_len \in 1 .. d.n
    /\ d.value = One({<<d.key, d.worker_id>>})

\* A stray comes from one more worker of a job, is shorter than it says, or is one
\* the server turns away as malformed.
ASSUME StrayAssumption ==
    \A d \in Strays :
        \/ Contribution(d)
        \/ d.n < d.chunk_len
        \/ d.worker_id \notin Workers \/ d.chunk_len > NETSUM_MAX_CHUNK_LEN

VARIABLES
    next_round,     \* `round` of each worker's loop; num_rounds when it is done
    runs,           \* how many runs were started again
    net,            \* the bag of datagrams in flight
    round, emitted, \* the aggregator
    lost            \* history: keys for which something was given up on the way

Agg == INSTANCE Aggregation WITH Quota <- 0, ChunkLens <- 0 .. NETSUM_MAX_CHUNK_LEN

vars == <<server, next_round, runs, net, round, emitted, lost>>

Senders == 0 .. num_workers - 1
KeyOf(r) == [job_id |-> job, part |-> r]

\* Datagrams in flight, with their destination.
To(dest, d) == [to |-> dest, d |-> d]

\* What worker w sends in its round r (chunk_len 1).
Gradient(w, r) ==
    [n |-> 1, key |-> KeyOf(r), worker_id |-> w, num_workers |-> num_workers,
     chunk_len |-> 1, value |-> One({<<KeyOf(r), w>>})]

\* What the aggregator sends for a sum: worker 0, the only one of one.
Sum(e) ==
    [n |-> e.chunk_len, key |-> e.key, worker_id |-> 0, num_workers |-> 1,
     chunk_len |-> e.chunk_len, value |-> One({<<e.key, w>> : w \in e.workers})]

NetInit ==
    /\ Init
    /\ Agg!Init
    /\ next_round = [w \in Senders |-> 0]
    /\ runs = 0
    /\ \/ net = EmptyBag
       \/ ~agg_mode /\ \E d \in Strays : net = SetToBag({To("server", d)})
    /\ lost = {}

aggregator == <<round, emitted>>
workers    == <<next_round, runs>>

-----------------------------------------------------------------------------
\* One turn of a worker's loop; its address is an argument.
Send(w) ==
    LET r == next_round[w] IN
    /\ r < num_rounds
    /\ net' = net (+) SetToBag({To(IF agg_mode THEN "aggregator" ELSE "server", Gradient(w, r))})
    /\ next_round' = [next_round EXCEPT ![w] = r + 1]
    /\ UNCHANGED <<server, aggregator, runs, lost>>

\* sendto() fails and the worker exits.
SendFails(w) ==
    /\ next_round[w] < num_rounds
    /\ next_round' = [next_round EXCEPT ![w] = num_rounds]
    /\ lost' = lost \cup {KeyOf(r) : r \in next_round[w] .. num_rounds - 1}
    /\ UNCHANGED <<server, aggregator, runs, net>>

\* A worker that is done is started again: it sends the same rounds once more.
RunAgain(w) ==
    /\ next_round[w] = num_rounds /\ runs < MaxRuns
    /\ next_round' = [next_round EXCEPT ![w] = 0]
    /\ runs' = runs + 1
    /\ UNCHANGED <<server, aggregator, net, lost>>

\* The network loses a datagram; the aggregator refuses one (a quota, a full
\* table), which leaves as little behind.
Lose ==
    /\ \E m \in BagToSet(net) :
          /\ net' = net (-) SetToBag({m})
          /\ lost' = lost \cup {m.d.key}
    /\ UNCHANGED <<server, aggregator, workers>>

-----------------------------------------------------------------------------
\* The aggregator receives d.  What it emits is on its way at once.
AggReceive ==
    \E m \in BagToSet(net) :
        LET d == m.d
            r == IF round[d.key].open THEN round[d.key]
                 ELSE Agg!Fresh(d.num_workers, d.chunk_len)
        IN
        /\ m.to = "aggregator"
        /\ \/ /\ Agg!Join(d.key, r, d.worker_id)
              /\ net' = IF emitted' = emitted THEN net (-) SetToBag({m})
                        ELSE (net (-) SetToBag({m}))
                             (+) SetToBag({To("server", Sum(emitted'[Len(emitted')]))})
              /\ lost' = IF ~round'[d.key].open /\ emitted' = emitted
                         THEN lost \cup {d.key} ELSE lost
           \/ /\ d.worker_id \in r.members
              /\ net' = net (-) SetToBag({m})
              /\ UNCHANGED <<aggregator, lost>>
        /\ UNCHANGED <<server, workers>>

\* The reaper.
AggAbandon ==
    /\ Agg!Abandon /\ aggregator' # aggregator
    /\ lost' = lost \cup {k \in Keys : round'[k] # round[k]}
    /\ UNCHANGED <<server, workers, net>>

ServerReceive ==
    \E m \in BagToSet(net) :
        /\ m.to = "server"
        /\ Handle(m.d)
        /\ net' = net (-) SetToBag({m})
        /\ lost' = IF RecvFull(m.d) THEN lost \cup {m.d.key} ELSE lost
        /\ UNCHANGED <<workers, aggregator>>

NetNext ==
    \/ \E w \in Senders : Send(w) \/ SendFails(w) \/ RunAgain(w)
    \/ Lose \/ AggReceive \/ AggAbandon \/ ServerReceive

NetSpec == NetInit /\ [][NetNext]_vars

\* As long as a worker has something to send or something is in flight, some
\* process goes on or some datagram arrives (or is lost).
Progress == (\E w \in Senders : Send(w)) \/ AggReceive \/ ServerReceive
NetFairSpec == NetSpec /\ WF_vars(Progress)

-----------------------------------------------------------------------------
\* Keys whose datagrams may be shorter than they say.
Short == {d.key : d \in {e \in Strays : e.n < e.chunk_len}}

\* A [complete] line reports a sum of as many distinct workers as the job has,
\* each once, and of nothing else: no loss, reordering, repeated run, refused,
\* abandoned or reopened round on the way makes the server report a sum it
\* should not (agg.c:3-7, paramserver.c:1-16; tests/test_correctness.py:208).
\* Keys with datagrams shorter than their chunk_len are excepted: the server
\* sums what was in its buffer (paramserver.c:157-168).
ExactLane(k, lane) ==
    /\ \A t \in Tags : lane[t] \in (IF t # Unset /\ t[1] = k THEN {0, 1} ELSE {0})
    /\ Cardinality({w \in Workers : lane[<<k, w>>] = 1}) = num_workers
ReportedExact ==
    \A n \in DOMAIN completions :
        completions[n].key \notin Short =>
            ExactLane(completions[n].key, completions[n].sum)

\* Every round for which nothing was given up on the way is reported in the end,
\* in both modes, whatever the order of arrival, however often the workers are
\* run and whatever the other rounds lost: a full table costs only the keys it
\* has no slot for (paramserver.c:149-154; tests/test_correctness.py:144-190, 239).
EveryRoundReported ==
    <>(\A r \in 0 .. num_rounds - 1 : KeyOf(r) \in lost \/ Reported(KeyOf(r)) # {})
=============================================================================
