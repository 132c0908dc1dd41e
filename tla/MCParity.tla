------------------------------- MODULE MCParity -------------------------------
(***************************************************************************)
(* A small instance of Parity: a table of one slot, a round of two workers *)
(* with a retransmission, a second key, a second job, and a datagram for   *)
(* each check that turns one away.                                         *)
(***************************************************************************)
EXTENDS Parity

Wire(v) == <<v \div BYTE, v % BYTE>>
\* job j, part p, worker w of n, chunk_len len, in a datagram of bytes bytes.
R(j, p, w, n, len, bytes) ==
    [len |-> bytes, key |-> [job_id |-> j, part |-> p], worker_id |-> Wire(w),
     num_workers |-> Wire(n), chunk_len |-> Wire(len), copy |-> 0]
Plain(j, p, w, n) == R(j, p, w, n, 1, 24)

MixedTraffic ==
    {Plain(1, 1, 0, 2), Plain(1, 1, 1, 2), [Plain(1, 1, 0, 2) EXCEPT !.copy = 1],
     Plain(1, 2, 0, 1), Plain(2, 1, 0, 2),
     R(1, 1, 0, 2, 1, 19),                         \* shorter than the header
     R(1, 1, 1, 2, 1, 23),                         \* the last lane is cut short
     R(1, 1, 1, 2, 2, 28),                         \* chunk_len too long
     R(1, 1, 1, 2, 0, 20),                         \* no lanes: disagrees with the slot
     Plain(1, 1, MAX_TRACKED_WORKERS, 2),          \* worker_id out of range
     Plain(1, 1, 1, 0),                            \* num_workers = 0
     Plain(1, 1, 1, MAX_TRACKED_WORKERS + 1)}      \* num_workers too large
MixedFrames == {{FrameOf(r) : r \in MixedTraffic}}
NoHash == [k \in Keys |-> 0]
=============================================================================
