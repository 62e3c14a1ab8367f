-------------------------- MODULE MCSessionTurns --------------------------
(* Small instances of SessionTurns for TLC. *)
EXTENDS SessionTurnsLedger

CONSTANTS r1, r2, r3, t1, t2

\* Two turns, the first of them sent twice.
ResentTurn == (r1 :> t1) @@ (r2 :> t1) @@ (r3 :> t2)
\* Two different turns.
TwoTurns == [r \in Requests |-> IF r = r1 THEN t1 ELSE t2]

\* The two copies of the resent turn can be exchanged.
CopySymmetry == Permutations({r1, r2})
=============================================================================
