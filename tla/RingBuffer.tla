------------------------------ MODULE RingBuffer ------------------------------
(* The output buffer of a pseudo-terminal, for a client that comes back.  The *)
(* bytes a process writes are numbered 1, 2, ..., so a chunk is an interval.  *)
EXTENDS Integers, Sequences

CONSTANT Cap    \* RING_BUFFER_BYTES
ASSUME CapAssumption == Cap \in Nat \ {0}

Unwritten == 0

\* allocUnsafe: nothing is read before it is written.
NewBuffer == [at |-> [i \in 0 .. Cap - 1 |-> Unwritten], len |-> 0]

BugLenGrows(b, n) == b.len + n
\* len after a chunk of n bytes: one that fills the buffer starts it afresh.
LenAfter(b, n) == IF n >= Cap THEN Cap ELSE b.len + n

\* push: the bytes first, ..., first + n - 1, of which those that fit stay.
Push(b, first, n) ==
    LET kept  == IF n >= Cap THEN Cap ELSE n
        start == IF n >= Cap THEN 0 ELSE b.len % Cap
        behind(i) == (i - start + Cap) % Cap
    IN [at  |-> [i \in 0 .. Cap - 1 |->
                    IF behind(i) < kept THEN first + n - kept + behind(i) ELSE b.at[i]],
        len |-> LenAfter(b, n)]

\* snapshot: from the oldest byte to the newest.
Snapshot(b) == IF b.len < Cap THEN [i \in 1 .. b.len |-> b.at[i - 1]]
               ELSE [i \in 1 .. Cap |-> b.at[(b.len + i - 1) % Cap]]
=============================================================================
