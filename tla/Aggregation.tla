----------------------------- MODULE Aggregation -----------------------------
(***************************************************************************)
(* What an aggregator promises (src/userspace_agg/agg.c:1-25), whatever    *)
(* table it keeps its rounds in: a key has one round at a time; a round    *)
(* adds each worker's contribution once; it is closed by the contribution  *)
(* that makes it complete, and then sent on as one sum of exactly the      *)
(* expected number of workers, or lost, but never sent in part; and a job  *)
(* at its quota can open no further round.  A round may be abandoned.      *)
(***************************************************************************)
EXTENDS Integers, Sequences, FiniteSets

CONSTANTS Jobs, Parts, Workers, Quota, ChunkLens

VARIABLES
    round,    \* the open round of each key, or NoRound
    emitted   \* the sums sent on, in order

Keys    == [job_id : Jobs, part : Parts]
NoRound == [open |-> FALSE]
Fresh(n, len) == [open |-> TRUE, chunk_len |-> len, expected |-> n, members |-> {}]

Init ==
    /\ round = [k \in Keys |-> NoRound]
    /\ emitted = <<>>

OpenRounds(j) == {k \in Keys : round[k].open /\ k.job_id = j}

MayOpen(k) == Quota = 0 \/ Cardinality(OpenRounds(k.job_id)) < Quota

\* Worker w's contribution joins r, the round of k it found or opened.
Join(k, r, w) ==
    LET members == r.members \cup {w} IN
    /\ w \notin r.members
    /\ \/ /\ Cardinality(members) < r.expected
          /\ round' = [round EXCEPT ![k] = [r EXCEPT !.members = members]]
          /\ UNCHANGED emitted
       \/ /\ Cardinality(members) = r.expected
          /\ round' = [round EXCEPT ![k] = NoRound]
          /\ \/ emitted' = Append(emitted, [key |-> k, chunk_len |-> r.chunk_len,
                                            workers |-> members])
             \/ UNCHANGED emitted

JoinRound(k) == round[k].open /\ \E w \in Workers : Join(k, round[k], w)

OpenRound(k) ==
    /\ ~round[k].open /\ MayOpen(k)
    /\ \E w \in Workers, n \in 1 .. Cardinality(Workers), len \in ChunkLens :
          Join(k, Fresh(n, len), w)

Abandon ==
    /\ \E S \in SUBSET Keys :
          round' = [k \in Keys |-> IF k \in S THEN NoRound ELSE round[k]]
    /\ UNCHANGED emitted

Next == Abandon \/ \E k \in Keys : JoinRound(k) \/ OpenRound(k)

Spec == Init /\ [][Next]_<<round, emitted>>
=============================================================================
