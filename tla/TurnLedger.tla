----------------------------- MODULE TurnLedger -----------------------------
(***************************************************************************)
(* What the durable turn queue of a chat promises about a prompt: it is    *)
(* stored before it leaves for the provider, it leaves once, and when it   *)
(* is over, because it was given up or because a process ended while it    *)
(* was leaving, it never returns.  A process that ends does not touch a    *)
(* stored prompt, so restarts are no actions of their own.                 *)
(***************************************************************************)
CONSTANT Turns

VARIABLE ledger

Fates == {"new", "stored", "leaving", "sent", "over"}

Init == ledger = [t \in Turns |-> "new"]

MoveOn(t, from, to) ==
    /\ ledger[t] = from
    /\ ledger' = [ledger EXCEPT ![t] = to]

Store(t) == MoveOn(t, "new", "stored")
Leave(t) == MoveOn(t, "stored", "leaving")
Send(t)  == MoveOn(t, "leaving", "sent")

\* A Stop, a failure or a restart ends several turns at once, but none that
\* was sent.
GiveUp(T) ==
    /\ \A t \in T : ledger[t] # "sent"
    /\ ledger' = [t \in Turns |-> IF t \in T THEN "over" ELSE ledger[t]]

Next ==
    \/ \E t \in Turns : Store(t) \/ Leave(t) \/ Send(t)
    \/ \E T \in SUBSET Turns : GiveUp(T)

Spec == Init /\ [][Next]_ledger
=============================================================================
