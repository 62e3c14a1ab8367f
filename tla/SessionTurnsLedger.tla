------------------------- MODULE SessionTurnsLedger -------------------------
(***************************************************************************)
(* SessionTurns implements TurnLedger when no turn id is sent twice: the   *)
(* fate of a turn, read from its row, its requests and what was sent.      *)
(***************************************************************************)
EXTENDS SessionTurns

UniqueTurns == \A q, r \in Requests : TurnOf[q] = TurnOf[r] => q = r

\* runQuery has not been called, or persistDurableTurn is under way.
Awaiting == {"new", "persisting"}

\* The request was not dismissed: an accepted steer does not stop the insert.
Going == {"new", "pending", "steered"}

MayBeStored(t) == \A r \in Requests :
    TurnOf[r] = t => durableReady[r] \in Awaiting /\ outcome[r] \in Going

Fate(t) ==
    IF sent[t] > 0 THEN "sent"
    ELSE IF pendingRows[t].state \in Recoverable THEN "stored"
    ELSE IF pendingRows[t].state = "dispatching" THEN "leaving"
    ELSE IF MayBeStored(t) THEN "new" ELSE "over"

fates == [t \in Turns |-> Fate(t)]

Ledger == INSTANCE TurnLedger WITH ledger <- fates

\* Over queueing, sleeping, steering, Stop and restarts a prompt is stored before
\* it is dispatched, dispatched once, and discarded for good when a process ends
\* during its dispatch (restoreDurableTurns, listRecoverablePendingSessionTurns).
ImplementsTurnLedger == Ledger!Spec
=============================================================================
