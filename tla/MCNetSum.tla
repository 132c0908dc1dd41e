------------------------------ MODULE MCNetSum ------------------------------
(***************************************************************************)
(* A small instance of NetSum: two workers, two rounds, two more runs of   *)
(* either worker and one stray datagram.                                   *)
(***************************************************************************)
EXTENDS NetSum

Stray(w, n) ==
    [n |-> n, key |-> KeyOf(2), worker_id |-> w, num_workers |-> 2, chunk_len |-> 1,
     value |-> One({<<KeyOf(2), 0>>})]

\* A third worker of a job of two; and for a round nobody else sends a datagram
\* shorter than a header, one without its lane, and a worker_id out of range.
MixedStrays ==
    {Gradient(2, 0), Stray(0, -1), Stray(1, 0), Stray(MAX_TRACKED_WORKERS, 1)}
=============================================================================
