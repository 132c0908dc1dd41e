------------------------------- MODULE MCXdpAgg -------------------------------
(***************************************************************************)
(* Small instances of XdpAgg: one or two CPUs, a handful of frames, so     *)
(* that every order of their steps is explored.                            *)
(***************************************************************************)
EXTENDS XdpAggRefinement

K(j, p) == [job_id |-> j, part |-> p]
F(j, p, w, n) == [n |-> 1, key |-> K(j, p), worker_id |-> w, num_workers |-> n,
                  chunk_len |-> 1, copy |-> 0]
Copy(f) == [f EXCEPT !.copy = 1]

\* A complete round of two workers.
Round(j, p) == {F(j, p, 0, 2), F(j, p, 1, 2)}

\* Every frame once: a round, two more of its job that are only begun, and a
\* one-worker round of another job; or four rounds, one of them of one worker,
\* more than there are slots; or a frame that is no gradient traffic, and a
\* round whose workers disagree on chunk_len; or two one-worker rounds of one
\* job, which may close at the same time, beside a third that is only begun.
\* No worker of a key has two frames in all of them together: OnceTraffic.
RoundAndMore == Round(1, 1) \cup {F(1, 2, 0, 2), F(1, 3, 0, 2), F(2, 1, 0, 1)}
Begun    == {F(1, 2, 0, 2), F(1, 3, 0, 2), F(2, 2, 0, 2), F(2, 3, 0, 1)}
Disagree == {F(1, 2, 0, 2), [F(1, 2, 1, 2) EXCEPT !.chunk_len = 0],
             [F(2, 1, 0, 1) EXCEPT !.n = -1]}
Singles  == {F(2, 1, 0, 1), F(2, 3, 0, 1), F(2, 2, 0, 2)}
OnceEach == {RoundAndMore, Begun, Disagree, Singles}

\* One round each of two jobs.
TwoRounds == {Round(1, 1) \cup {F(2, 1, 0, 1)}}

\* A round whose every frame is sent twice; one retransmission and a frame of
\* another key.
RetransmittedRound == {Round(1, 1) \cup {Copy(f) : f \in Round(1, 1)}}
StalePointer == {Round(1, 1) \cup {Copy(F(1, 1, 0, 2)), F(1, 2, 1, 2)}}

\* config_map written, deleted and written again.
Reconfigured == {NoConfig, 1}
=============================================================================
