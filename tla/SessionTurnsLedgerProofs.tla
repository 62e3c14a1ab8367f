---------------------- MODULE SessionTurnsLedgerProofs ----------------------
(***************************************************************************)
(* The proof that SessionTurns implements TurnLedger when every request    *)
(* has a turn id of its own, for any requests and number of restarts.      *)
(***************************************************************************)
EXTENDS SessionTurnsLedger, SessionTurnsProofs

\* A request whose row may still be inserted has left no trace, and when it was
\* dismissed, persistDurableTurn will see that.
AwaitInv == \A r \in Requests : durableReady[r] \in Awaiting =>
    /\ pendingRows[TurnOf[r]].state = "absent" /\ durableTurns[TurnOf[r]] = "absent"
    /\ sent[TurnOf[r]] = 0
    /\ outcome[r] \notin Going => TurnOf[r] \in cancelledDurableTurns
    /\ durableReady[r] = "new" => outcome[r] = "new"

\* The row of r is there, unless r is running, or stopped and in the drain loop.
Kept(r) ==
    \/ pendingRows[TurnOf[r]].state \in Recoverable
    \/ /\ r = currentTurn
       /\ \/ aborted \/ phase = "running"
          \/ phase = "dispatching" /\ pendingRows[TurnOf[r]].state = "dispatching"

KeptInv == \A r \in Requests :
    outcome[r] = "pending" /\ durableReady[r] = "yes" => Kept(r)

LedgerInv == Inv /\ AwaitInv /\ KeptInv

\* Before the first message no turn has a fate yet.
LEMMA LedgerInit == Init => LedgerInv /\ Ledger!Init
<1> SUFFICES ASSUME Init PROVE LedgerInv /\ Ledger!Init
    OBVIOUS
<1>1. Inv
    BY InitInv
<1>2. NoRow.state = "absent"
    BY DEF NoRow
<1>3. AwaitInv /\ KeptInv
    BY <1>2, RequestsAssumption DEF Init, AwaitInv, KeptInv, Going, Awaiting
<1>4. \A t \in Turns : Fate(t) = "new"
    BY <1>2 DEF Init, Fate, MayBeStored, Awaiting, Going, Recoverable
<1> QED BY <1>1, <1>3, <1>4 DEF LedgerInv, Ledger!Init, fates

\* When rows only disappear, and no request comes back, turns are given up.
LEMMA TurnsGivenUp ==
    ASSUME LedgerInv, sent' = sent,
           \A r \in Requests :
               durableReady'[r] \in Awaiting /\ outcome'[r] \in Going =>
                   durableReady[r] \in Awaiting /\ outcome[r] \in Going,
           \A t \in Turns :
               \/ pendingRows'[t].state \in {"absent", pendingRows[t].state}
               \/ pendingRows[t].state \in Recoverable /\ pendingRows'[t].state \in Recoverable
    PROVE  [Ledger!Next]_fates
<1>1. ASSUME NEW t \in Turns
      PROVE  Fate(t)' = Fate(t) \/ (Fate(t) # "sent" /\ Fate(t)' = "over")
    <2>1. MayBeStored(t)' => MayBeStored(t)
        BY DEF MayBeStored
    <2>2. MayBeStored(t) => pendingRows[t].state = "absent"
        BY DEF MayBeStored, LedgerInv, Inv, RowInv, AwaitInv
    <2>3. "absent" \notin Recoverable /\ "dispatching" \notin Recoverable
        BY DEF Recoverable
    <2>4. pendingRows[t].state \in RowStates
        BY DEF LedgerInv, Inv, TypeOK, Row
    <2> QED BY <2>1, <2>2, <2>3, <2>4 DEF Fate, RowStates, Recoverable
<1> DEFINE T == {t \in Turns : Fate(t)' # Fate(t)}
<1>2. \A t \in T : fates[t] # "sent"
    BY <1>1 DEF fates
<1>3. fates' = [t \in Turns |-> IF t \in T THEN "over" ELSE fates[t]]
    BY <1>1 DEF fates
<1>4. Ledger!GiveUp(T)
    BY <1>2, <1>3 DEF Ledger!GiveUp
<1>5. T \in SUBSET Turns
    OBVIOUS
<1> QED BY <1>4, <1>5 DEF Ledger!Next

\* Rows only change among the recoverable states, or disappear.
RowsKept == \A t \in Turns :
    \/ pendingRows'[t].state \in {"absent", pendingRows[t].state}
    \/ pendingRows[t].state \in Recoverable /\ pendingRows'[t].state \in Recoverable

\* A request that still waits for its row was waiting before, and is as far as
\* it was, or was dismissed for good.
AwaitKept == \A r \in Requests : durableReady'[r] \in Awaiting =>
    /\ durableReady[r] \in Awaiting
    /\ durableReady'[r] = "new" => durableReady[r] = "new" /\ outcome'[r] = outcome[r]
    /\ outcome'[r] \in Going => outcome[r] \in Going
    /\ outcome'[r] \notin Going =>
          outcome[r] \notin Going \/ TurnOf[r] \in cancelledDurableTurns'
    /\ TurnOf[r] \in cancelledDurableTurns =>
          TurnOf[r] \in cancelledDurableTurns' \/ outcome'[r] \in Going
    /\ durableTurns'[TurnOf[r]] = "absent"

\* What every step proves but the three that move a turn on.
LEMMA LedgerKept ==
    ASSUME LedgerInv, Inv', sent' = sent, RowsKept, AwaitKept, KeptInv'
    PROVE  LedgerInv' /\ [Ledger!Next]_fates
<1>1. AwaitInv'
    <2> SUFFICES ASSUME NEW r \in Requests, durableReady'[r] \in Awaiting
                 PROVE  /\ pendingRows'[TurnOf[r]].state = "absent"
                        /\ durableTurns'[TurnOf[r]] = "absent"
                        /\ sent'[TurnOf[r]] = 0
                        /\ outcome'[r] \notin Going => TurnOf[r] \in cancelledDurableTurns'
                        /\ durableReady'[r] = "new" => outcome'[r] = "new"
        BY DEF AwaitInv
    <2>1. durableReady[r] \in Awaiting /\ TurnOf[r] \in Turns
        BY RequestsAssumption DEF AwaitKept
    <2>2. /\ pendingRows[TurnOf[r]].state = "absent" /\ sent[TurnOf[r]] = 0
          /\ outcome[r] \notin Going => TurnOf[r] \in cancelledDurableTurns
          /\ durableReady[r] = "new" => outcome[r] = "new"
        BY <2>1 DEF LedgerInv, AwaitInv
    <2>3. pendingRows'[TurnOf[r]].state = "absent"
        BY <2>1, <2>2 DEF RowsKept, Recoverable
    <2> QED BY <2>1, <2>2, <2>3 DEF AwaitKept
<1>2. [Ledger!Next]_fates
    BY TurnsGivenUp DEF AwaitKept, RowsKept
<1> QED BY <1>1, <1>2 DEF LedgerInv

\* Turns that are forgotten through settleDurableTurn, cancelQueued or abort.
LEMMA SettleEffect ==
    ASSUME LedgerInv, NEW t \in Turns,
           SettleDurableTurn(t) \/ SettleUnlessSuspending(t)
    PROVE  /\ \A u \in Turns : pendingRows'[u].state \in {"absent", pendingRows[u].state}
           /\ \A u \in Turns \ {t} : pendingRows'[u] = pendingRows[u]
           /\ \A u \in Turns : durableTurns'[u] \in {"absent", durableTurns[u]}
           /\ \A u \in cancelledDurableTurns :
                 u \in cancelledDurableTurns' \/ durableTurns[u] # "absent"
<1>1. pendingRows \in [Turns -> Row] /\ durableTurns \in [Turns -> RowStates]
    BY DEF LedgerInv, Inv, TypeOK
<1>2. NoRow.state = "absent"
    BY DEF NoRow
<1> QED BY <1>1, <1>2 DEF SettleDurableTurn, SettleUnlessSuspending

\* runQuery, and the ends of persistDurableTurn that store nothing.
LEMMA RunQueryLedger ==
    ASSUME LedgerInv, NEW r \in Requests, RunQuery(r)
    PROVE  LedgerInv' /\ [Ledger!Next]_fates
<1>1. Inv'
    BY RunQueryStep DEF LedgerInv
<1>2. /\ outcome[r] = "new" /\ outcome' = [outcome EXCEPT ![r] = "pending"]
      /\ durableReady' = [durableReady EXCEPT ![r] = "persisting"]
      /\ UNCHANGED <<pendingRows, durableTurns, cancelledDurableTurns, sent>>
      /\ Enqueued(Append(turnQueue, r))
    BY DEF RunQuery, Settle, history
<1>3. /\ turnQueue \in Seq(Requests) /\ IsInjective(turnQueue) /\ r \notin ToSet(turnQueue)
      /\ aborted \in BOOLEAN /\ durableReady[r] = "new"
      /\ outcome \in [Requests -> Outcomes] /\ DOMAIN durableReady = Requests
    BY <1>2 DEF LedgerInv, Inv, TypeOK, QueueInv
<1>4. RowsKept
    BY <1>2 DEF RowsKept
<1>5. AwaitKept
    BY <1>2, <1>3, RequestsAssumption DEF AwaitKept, Awaiting, Going, LedgerInv, AwaitInv
<1>6. KeptInv'
    <2> SUFFICES ASSUME NEW q \in Requests, outcome'[q] = "pending", durableReady'[q] = "yes"
                 PROVE  Kept(q)'
        BY DEF KeptInv
    <2>1. q # r /\ Kept(q)
        BY <1>2, <1>3 DEF LedgerInv, KeptInv
    <2>2. CASE pendingRows[TurnOf[q]].state \in Recoverable
        BY <1>2, <2>2 DEF Kept
    <2>3. CASE q = currentTurn
        <3>1. phase # "idle"
            BY <2>3, NoneAssumption DEF LedgerInv, Inv, QueueInv
        <3> QED BY <1>2, <2>1, <3>1 DEF Kept, Enqueued
    <2> QED BY <2>1, <2>2, <2>3 DEF Kept
<1> QED BY <1>1, <1>2, <1>4, <1>5, <1>6, LedgerKept

\* persistDurableTurn ends without a row: refused, cancelled or failed.
LEMMA PersistEndsLedger ==
    ASSUME LedgerInv, UniqueTurns, NEW r \in Requests,
           PersistRefused(r) \/ PersistCancelled(r) \/ PersistFails(r)
    PROVE  LedgerInv' /\ [Ledger!Next]_fates
<1>1. Inv'
    BY PersistEndsStep DEF LedgerInv
<1>2. /\ durableReady' \in {[durableReady EXCEPT ![r] = "no"], [durableReady EXCEPT ![r] = "failed"]}
      /\ cancelledDurableTurns' \in {cancelledDurableTurns, cancelledDurableTurns \ {TurnOf[r]}}
      /\ UNCHANGED <<pendingRows, durableTurns, currentTurn, phase, aborted, outcome, sent>>
    BY DEF PersistRefused, PersistCancelled, PersistFails, durableVars, drainVars, history
<1>3. /\ \A q \in Requests \ {r} : durableReady'[q] = durableReady[q]
      /\ durableReady'[r] \in {"no", "failed"}
    BY <1>2 DEF LedgerInv, Inv, TypeOK
<1>4. RowsKept
    BY <1>2 DEF RowsKept
<1>5. AwaitKept
    BY <1>2, <1>3 DEF AwaitKept, Awaiting, UniqueTurns, LedgerInv, AwaitInv
<1>6. KeptInv'
    BY <1>2, <1>3 DEF LedgerInv, KeptInv, Kept
<1> QED BY <1>1, <1>2, <1>4, <1>5, <1>6, LedgerKept

\* A turn ends: no other request loses its row.
LEMMA EndOfTurnLedger ==
    ASSUME LedgerInv, UniqueTurns,
           DropTurn \/ RejectTurn \/ GateAborted \/ FinishTurn \/ FailTurn
    PROVE  LedgerInv' /\ [Ledger!Next]_fates
<1>1. Inv'
    BY EndOfTurnStep DEF LedgerInv
<1>2. PICK r \in Requests : r = currentTurn /\ outcome[r] = "pending"
    BY DEF LedgerInv, Inv, QueueInv, DropTurn, RejectTurn, GateAborted, FinishTurn, FailTurn, InTurn
<1>3. /\ durableReady[r] \notin Awaiting
      /\ UNCHANGED <<durableReady, sent>>
      /\ \E how \in {"dropped", "failed", "stopped", "ran"} :
            outcome' = [outcome EXCEPT ![r] = how]
      /\ UNCHANGED <<durableTurns, cancelledDurableTurns, pendingRows>>
            \/ SettleUnlessSuspending(TurnOf[r])
    BY <1>2 DEF DropTurn, RejectTurn, GateAborted, FinishTurn, FailTurn, Settle, InTurn,
       history, durableVars, Awaiting, LedgerInv, Inv, PhaseInv
<1>4. /\ TurnOf[r] \in Turns
      /\ \A q \in Requests \ {r} : outcome'[q] = outcome[q] /\ TurnOf[q] # TurnOf[r]
      /\ outcome'[r] # "pending"
    BY <1>3, RequestsAssumption DEF LedgerInv, Inv, TypeOK, UniqueTurns
<1>5. /\ \A u \in Turns : pendingRows'[u].state \in {"absent", pendingRows[u].state}
      /\ \A u \in Turns \ {TurnOf[r]} : pendingRows'[u] = pendingRows[u]
      /\ \A u \in Turns : durableTurns'[u] \in {"absent", durableTurns[u]}
      /\ \A u \in cancelledDurableTurns :
            u \in cancelledDurableTurns' \/ durableTurns[u] # "absent"
    BY <1>3, <1>4, SettleEffect
<1>6. RowsKept
    BY <1>5 DEF RowsKept
<1>7. AwaitKept
    BY <1>3, <1>4, <1>5, RequestsAssumption DEF AwaitKept, LedgerInv, AwaitInv
<1>8. KeptInv'
    <2> SUFFICES ASSUME NEW q \in Requests, outcome'[q] = "pending", durableReady'[q] = "yes"
                 PROVE  Kept(q)'
        BY DEF KeptInv
    <2>1. q # r /\ Kept(q)
        BY <1>3, <1>4 DEF LedgerInv, KeptInv
    <2> QED BY <1>2, <1>4, <1>5, <2>1, RequestsAssumption DEF Kept
<1> QED BY <1>1, <1>3, <1>6, <1>7, <1>8, LedgerKept

\* The drain loop waits, wakes, builds the prompt; steering begins and ends: no
\* row, no request and no signal changes.
LEMMA QuietLedger ==
    ASSUME LedgerInv, Inv',
           UNCHANGED <<pendingRows, durableReady, durableTurns, cancelledDurableTurns,
                       outcome, sent>>,
           \/ UNCHANGED <<currentTurn, phase>> /\ (phase # "idle" /\ aborted => aborted')
           \/ UNCHANGED <<currentTurn, aborted>> /\ phase \notin {"dispatching", "running"}
           \/ phase = "idle"
    PROVE  LedgerInv' /\ [Ledger!Next]_fates
<1>1. RowsKept
    BY DEF RowsKept
<1>2. AwaitKept
    BY DEF AwaitKept, LedgerInv, AwaitInv
<1>3. KeptInv'
    <2> SUFFICES ASSUME NEW q \in Requests, outcome[q] = "pending", durableReady[q] = "yes"
                 PROVE  Kept(q)'
        BY DEF KeptInv
    <2>1. Kept(q)
        BY DEF LedgerInv, KeptInv
    <2>2. CASE phase = "idle"
        <3>1. currentTurn = None
            BY <2>2 DEF LedgerInv, Inv, QueueInv
        <3> QED BY <2>1, <3>1, NoneAssumption DEF Kept
    <2>3. CASE phase # "idle"
        BY <2>1, <2>3 DEF Kept
    <2> QED BY <2>2, <2>3
<1> QED BY <1>1, <1>2, <1>3, LedgerKept

\* The steps that QuietLedger is about.
LEMMA QuietStepsLedger ==
    ASSUME LedgerInv, NEW t \in Turns,
           \/ AcceptTurn \/ GateProceeds \/ GateWakes
           \/ LookUpUserMessage \/ AppendUserMessage
           \/ SuspendForRestart \/ SteerCapture(t) \/ SteerClaim(t)
           \/ SteerGivesUp(t) \/ ProviderAcceptsSteer(t) \/ SteerDeclined(t)
           \/ SteerLooksUp(t) \/ SteerAppends(t)
    PROVE  LedgerInv' /\ [Ledger!Next]_fates
<1>1. CASE AcceptTurn \/ GateProceeds \/ GateWakes \/ LookUpUserMessage
    <2>1. Inv'
        BY <1>1, GatePassedStep DEF LedgerInv
    <2>2. /\ UNCHANGED <<pendingRows, durableReady, durableTurns, cancelledDurableTurns,
                         outcome, sent, currentTurn, aborted>>
          /\ phase # "running" /\ phase # "dispatching" /\ phase # "idle"
        BY <1>1 DEF AcceptTurn, GateProceeds, GateWakes, LookUpUserMessage, durableVars, history
    <2> QED BY <2>1, <2>2, QuietLedger
<1>2. CASE AppendUserMessage
    <2>1. Inv'
        BY <1>2, AppendUserMessageStep DEF LedgerInv
    <2> QED BY <1>2, <2>1, QuietLedger DEF AppendUserMessage, history
<1>3. CASE SuspendForRestart
    <2>1. Inv'
        BY <1>3, SuspendStep DEF LedgerInv
    <2> QED BY <1>3, <2>1, QuietLedger
            DEF SuspendForRestart, TearDownNativeSessionState, durableVars, history
<1>4. CASE SteerCapture(t) \/ SteerGivesUp(t) \/ ProviderAcceptsSteer(t) \/ SteerLooksUp(t)
    <2>1. Inv'
        BY <1>4, SteerOnlyStep DEF LedgerInv
    <2> QED BY <1>4, <2>1, QuietLedger
            DEF SteerCapture, SteerGivesUp, ProviderAcceptsSteer, SteerLooksUp, durableVars,
                drainVars, history
<1>7. CASE SteerAppends(t)
    <2>1. Inv'
        BY <1>7, SteerAppendsStep DEF LedgerInv
    <2> QED BY <1>7, <2>1, QuietLedger DEF SteerAppends, drainVars, history
<1>5. CASE SteerClaim(t)
    <2>1. Inv'
        BY <1>5, SteerClaimStep DEF LedgerInv
    <2>2. UNCHANGED <<pendingRows, durableReady, durableTurns, cancelledDurableTurns,
                      outcome, sent, currentTurn, phase, aborted>>
        BY <1>5 DEF SteerClaim, durableVars, history
    <2> QED BY <2>1, <2>2, QuietLedger
<1>6. CASE SteerDeclined(t)
    <2>1. Inv'
        BY <1>6, SteerDeclinedStep DEF LedgerInv
    <2>2. \/ UNCHANGED <<currentTurn, phase>> /\ (phase # "idle" /\ aborted => aborted')
          \/ phase = "idle"
        BY <1>6 DEF SteerDeclined, RestoreToQueue, Enqueued
    <2>3. UNCHANGED <<pendingRows, durableReady, durableTurns, cancelledDurableTurns,
                      outcome, sent>>
        BY <1>6 DEF SteerDeclined, durableVars, history
    <2> QED BY <2>1, <2>2, <2>3, QuietLedger
<1> QED BY <1>1, <1>2, <1>3, <1>4, <1>5, <1>6, <1>7

\* onSleep and Resume now write to a recoverable row only, and leave it so.
LEMMA GateSleepsLedger ==
    ASSUME LedgerInv, UniqueTurns, GateSleeps \/ GateSkipped
    PROVE  LedgerInv' /\ [Ledger!Next]_fates
<1>1. Inv'
    BY GateSleepsStep DEF LedgerInv
<1>2. PICK r \in Requests : r = currentTurn
    BY DEF LedgerInv, Inv, QueueInv, GateSleeps, GateSkipped
<1>3. /\ durableReady[r] = "yes" /\ TurnOf[r] \in Turns
      /\ pendingRows \in [Turns -> Row] /\ durableTurns \in [Turns -> RowStates]
    BY <1>2, RequestsAssumption DEF LedgerInv, Inv, TypeOK, PhaseInv, GateSleeps, GateSkipped
<1>4. /\ UNCHANGED <<durableReady, cancelledDurableTurns, outcome, sent, currentTurn, aborted>>
      /\ ~aborted /\ phase \in {"preparing", "sleeping"}
      /\ \A u \in Turns \ {TurnOf[r]} : durableTurns'[u] = durableTurns[u]
    BY <1>2, <1>3 DEF GateSleeps, GateSkipped, history
<1>5. \A u \in Turns :
          IF pendingRows[u].state \in Recoverable
          THEN pendingRows'[u].state \in Recoverable
          ELSE pendingRows'[u].state = pendingRows[u].state
    <2> SUFFICES ASSUME NEW u \in Turns
                 PROVE  IF pendingRows[u].state \in Recoverable
                        THEN pendingRows'[u].state \in Recoverable
                        ELSE pendingRows'[u].state = pendingRows[u].state
        OBVIOUS
    <2>1. pendingRows[u] \in Row
        BY <1>3
    <2>2. CASE GateSleeps
        BY <1>2, <1>3, <2>1, <2>2 DEF GateSleeps, Recoverable, Row
    <2>3. CASE GateSkipped
        BY <1>2, <1>3, <2>1, <2>3 DEF GateSkipped, ResumedRow, Recoverable, Row
    <2> QED BY <2>2, <2>3
<1>6. RowsKept
    BY <1>5 DEF RowsKept
<1>7. AwaitKept
    <2>1. \A q \in Requests : durableReady[q] \in Awaiting => TurnOf[q] \in Turns \ {TurnOf[r]}
        BY <1>3, RequestsAssumption DEF Awaiting, UniqueTurns
    <2> QED BY <1>4, <2>1 DEF AwaitKept, LedgerInv, AwaitInv
<1>8. KeptInv'
    BY <1>4, <1>5, RequestsAssumption DEF LedgerInv, KeptInv, Kept
<1> QED BY <1>1, <1>4, <1>6, <1>7, <1>8, LedgerKept

\* promoteQueued moves rows, and changes the state of none.
LEMMA PromoteQueuedLedger ==
    ASSUME LedgerInv, NEW t \in Turns, PromoteQueued(t)
    PROVE  LedgerInv' /\ [Ledger!Next]_fates
<1>1. Inv'
    BY PromoteQueuedStep DEF LedgerInv
<1>2. /\ UNCHANGED <<durableReady, durableTurns, cancelledDurableTurns, outcome, sent,
                     currentTurn, phase, aborted>>
      /\ pendingRows' \in {pendingRows, promotePendingSessionTurn(pendingRows, t)}
    BY DEF PromoteQueued, history
<1>3. \A u \in Turns : pendingRows'[u].state = pendingRows[u].state
    <2>1. pendingRows \in [Turns -> Row]
        BY DEF LedgerInv, Inv, TypeOK
    <2>2. \A u \in Turns :
              promotePendingSessionTurn(pendingRows, t)[u].state = pendingRows[u].state
        BY <2>1, PromotionKeepsRows
    <2> QED BY <1>2, <2>2
<1>4. RowsKept
    BY <1>3 DEF RowsKept
<1>5. AwaitKept
    BY <1>2 DEF AwaitKept, LedgerInv, AwaitInv
<1>6. KeptInv'
    BY <1>2, <1>3, RequestsAssumption DEF LedgerInv, KeptInv, Kept
<1> QED BY <1>1, <1>2, <1>4, <1>5, <1>6, LedgerKept

\* cancelQueued: the request that leaves takes only its own turn along.
LEMMA CancelQueuedLedger ==
    ASSUME LedgerInv, UniqueTurns, NEW t \in Turns, CancelQueued(t)
    PROVE  LedgerInv' /\ [Ledger!Next]_fates
<1>1. Inv'
    BY CancelQueuedStep DEF LedgerInv
<1>2. PICK i \in DOMAIN turnQueue :
        /\ TurnOf[turnQueue[i]] = t
        /\ outcome' = [outcome EXCEPT ![turnQueue[i]] = "cancelled"]
    BY DEF CancelQueued, IsFirst, Settle
<1> DEFINE r == turnQueue[i]
<1>3. /\ r \in Requests /\ outcome[r] = "pending" /\ outcome \in [Requests -> Outcomes]
    BY <1>2, QueueElements DEF LedgerInv, Inv, TypeOK, QueueInv, ToSet
<1>4. /\ ForgetTurns({t}) /\ UNCHANGED <<durableReady, sent, currentTurn, phase, aborted>>
    BY DEF CancelQueued, history
<1>5. /\ \A u \in Turns \ {t} : pendingRows'[u] = pendingRows[u] /\ durableTurns'[u] = durableTurns[u]
      /\ pendingRows'[t].state = "absent" /\ t \in cancelledDurableTurns'
      /\ cancelledDurableTurns \subseteq cancelledDurableTurns'
    BY <1>4, ForgetKeepsRows DEF LedgerInv, Inv
<1>6. durableTurns'[t] = "absent"
    BY <1>4 DEF ForgetTurns
<1>7. /\ outcome'[r] = "cancelled" /\ TurnOf[r] = t
      /\ \A q \in Requests \ {r} : /\ outcome'[q] = outcome[q]
                                   /\ TurnOf[q] \in Turns \ {t}
    BY <1>2, <1>3, RequestsAssumption DEF UniqueTurns
<1> HIDE DEF r
<1>8. RowsKept
    BY <1>5 DEF RowsKept
<1>9. AwaitKept
    <2> SUFFICES ASSUME NEW q \in Requests, durableReady[q] \in Awaiting
                 PROVE  /\ durableReady[q] = "new" => outcome'[q] = outcome[q]
                        /\ outcome'[q] \in Going => outcome[q] \in Going
                        /\ outcome'[q] \notin Going =>
                              outcome[q] \notin Going \/ TurnOf[q] \in cancelledDurableTurns'
                        /\ TurnOf[q] \in cancelledDurableTurns => TurnOf[q] \in cancelledDurableTurns'
                        /\ durableTurns'[TurnOf[q]] = "absent"
        BY <1>4 DEF AwaitKept
    <2>1. CASE q = r
        BY <1>3, <1>5, <1>6, <1>7, <2>1 DEF LedgerInv, AwaitInv, Going
    <2>2. CASE q # r
        BY <1>5, <1>7, <2>2 DEF LedgerInv, AwaitInv
    <2> QED BY <2>1, <2>2
<1>10. KeptInv'
    <2> SUFFICES ASSUME NEW q \in Requests, outcome'[q] = "pending", durableReady'[q] = "yes"
                 PROVE  Kept(q)'
        BY DEF KeptInv
    <2>1. q # r /\ Kept(q)
        BY <1>4, <1>7 DEF LedgerInv, KeptInv
    <2> QED BY <1>4, <1>5, <1>7, <2>1 DEF Kept
<1> QED BY <1>1, <1>4, <1>8, <1>9, <1>10, LedgerKept

\* abort: the turn in the drain loop keeps its request, under a raised signal.
LEMMA AbortLedger ==
    ASSUME LedgerInv, UniqueTurns, Abort
    PROVE  LedgerInv' /\ [Ledger!Next]_fates
<1> DEFINE found == ToSet(turnQueue) \cup ({currentTurn} \ {None})
           T == {TurnOf[r] : r \in found}
<1>1. Inv'
    BY AbortStep DEF LedgerInv
<1>2. /\ ToSet(turnQueue) \subseteq Requests /\ found \subseteq Requests
      /\ T \in SUBSET Turns
    BY QueueElements, RequestsAssumption DEF LedgerInv, Inv, TypeOK
<1>3. /\ ForgetTurns(T) /\ UNCHANGED <<durableReady, sent, currentTurn, phase>>
      /\ aborted' = (phase # "idle")
      /\ \A q \in Requests :
            outcome'[q] = IF q \in ToSet(turnQueue) THEN "stopped" ELSE outcome[q]
    BY DEF Abort, TearDownNativeSessionState
<1>4. \A q \in ToSet(turnQueue) : outcome[q] = "pending"
    BY DEF LedgerInv, Inv, QueueInv
<1>5. \A q \in Requests : (q \in found <=> TurnOf[q] \in T) /\ TurnOf[q] \in Turns
    BY <1>2, RequestsAssumption DEF UniqueTurns
<1>6. \A q \in found : q \in ToSet(turnQueue) \/ (q = currentTurn /\ phase # "idle")
    BY DEF LedgerInv, Inv, QueueInv
<1>7. \A q \in Requests : q \notin found => q # currentTurn
    BY NoneAssumption
<1>8. ToSet(turnQueue) \subseteq found
    OBVIOUS
<1> HIDE DEF found, T
<1>9. /\ \A u \in Turns \ T : pendingRows'[u] = pendingRows[u] /\ durableTurns'[u] = durableTurns[u]
      /\ \A u \in T : pendingRows'[u].state = "absent" /\ u \in cancelledDurableTurns'
      /\ cancelledDurableTurns \subseteq cancelledDurableTurns'
    BY <1>2, <1>3, ForgetKeepsRows DEF LedgerInv, Inv
<1>10. \A u \in T : durableTurns'[u] = "absent"
    BY <1>2, <1>3 DEF ForgetTurns
<1>11. RowsKept
    BY <1>9 DEF RowsKept
<1>12. AwaitKept
    <2> SUFFICES ASSUME NEW q \in Requests, durableReady[q] \in Awaiting
                 PROVE  /\ durableReady[q] = "new" => outcome'[q] = outcome[q]
                        /\ outcome'[q] \in Going => outcome[q] \in Going
                        /\ outcome'[q] \notin Going =>
                              outcome[q] \notin Going \/ TurnOf[q] \in cancelledDurableTurns'
                        /\ TurnOf[q] \in cancelledDurableTurns => TurnOf[q] \in cancelledDurableTurns'
                        /\ durableTurns'[TurnOf[q]] = "absent"
        BY <1>3 DEF AwaitKept
    <2>1. CASE q \in ToSet(turnQueue)
        BY <1>3, <1>4, <1>5, <1>8, <1>9, <1>10, <2>1 DEF LedgerInv, AwaitInv, Going
    <2>2. CASE q \notin ToSet(turnQueue)
        BY <1>3, <1>5, <1>9, <1>10, <2>2 DEF LedgerInv, AwaitInv
    <2> QED BY <2>1, <2>2
<1>13. KeptInv'
    <2> SUFFICES ASSUME NEW q \in Requests, outcome'[q] = "pending", durableReady'[q] = "yes"
                 PROVE  Kept(q)'
        BY DEF KeptInv
    <2>1. q \notin ToSet(turnQueue) /\ Kept(q)
        BY <1>3 DEF LedgerInv, KeptInv
    <2>2. CASE q \in found
        BY <1>3, <1>6, <2>1, <2>2 DEF Kept
    <2>3. CASE q \notin found
        BY <1>5, <1>7, <1>9, <2>1, <2>3 DEF Kept
    <2> QED BY <2>2, <2>3
<1> QED BY <1>1, <1>3, <1>11, <1>12, <1>13, LedgerKept

\* The answer to a steer arrives: the claimed turn is settled, and no other.
LEMMA SteerSettlesLedger ==
    ASSUME LedgerInv, UniqueTurns, NEW t \in Turns, SteerSettles(t)
    PROVE  LedgerInv' /\ [Ledger!Next]_fates
<1>1. Inv'
    BY SteerSettlesStep DEF LedgerInv
<1>2. PICK r \in Requests : /\ r = steer[t].request /\ r # currentTurn
                            /\ TurnOf[r] = t /\ outcome[r] = "pending"
    BY DEF LedgerInv, Inv, QueueInv, SteerSettles, Claimed
<1>3. /\ SettleDurableTurn(t) /\ outcome' = [outcome EXCEPT ![r] = "steered"]
      /\ UNCHANGED <<durableReady, sent, currentTurn, phase, aborted>>
    BY <1>2 DEF SteerSettles, Settle, drainVars, history
<1>4. /\ outcome'[r] = "steered"
      /\ \A q \in Requests \ {r} : outcome'[q] = outcome[q] /\ TurnOf[q] \in Turns \ {t}
    BY <1>2, <1>3, RequestsAssumption DEF UniqueTurns, LedgerInv, Inv, TypeOK
<1>5. /\ \A u \in Turns : pendingRows'[u].state \in {"absent", pendingRows[u].state}
      /\ \A u \in Turns \ {t} : pendingRows'[u] = pendingRows[u]
      /\ \A u \in Turns : durableTurns'[u] \in {"absent", durableTurns[u]}
      /\ \A u \in cancelledDurableTurns :
            u \in cancelledDurableTurns' \/ durableTurns[u] # "absent"
    BY <1>3, SettleEffect
<1>6. RowsKept
    BY <1>5 DEF RowsKept
<1>7. AwaitKept
    <2> SUFFICES ASSUME NEW q \in Requests, durableReady[q] \in Awaiting
                 PROVE  /\ durableReady[q] = "new" => outcome'[q] = outcome[q]
                        /\ outcome'[q] \in Going => outcome[q] \in Going
                        /\ outcome'[q] \notin Going => outcome[q] \notin Going
                        /\ TurnOf[q] \in cancelledDurableTurns => TurnOf[q] \in cancelledDurableTurns'
                        /\ durableTurns'[TurnOf[q]] = "absent"
        BY <1>3 DEF AwaitKept
    <2>1. durableTurns[TurnOf[q]] = "absent" /\ TurnOf[q] \in Turns
        BY RequestsAssumption DEF LedgerInv, AwaitInv
    <2>2. CASE q = r
        BY <1>2, <1>4, <1>5, <2>1, <2>2 DEF LedgerInv, AwaitInv, Going
    <2>3. CASE q # r
        BY <1>4, <1>5, <2>1, <2>3
    <2> QED BY <2>2, <2>3
<1>8. KeptInv'
    <2> SUFFICES ASSUME NEW q \in Requests, outcome'[q] = "pending", durableReady'[q] = "yes"
                 PROVE  Kept(q)'
        BY DEF KeptInv
    <2>1. q # r /\ Kept(q)
        BY <1>3, <1>4 DEF LedgerInv, KeptInv
    <2> QED BY <1>3, <1>4, <1>5, <2>1 DEF Kept
<1> QED BY <1>1, <1>3, <1>6, <1>7, <1>8, LedgerKept

\* restoreDurableTurns: what is pending afterwards has a recoverable row.
LEMMA RestartLedger ==
    ASSUME LedgerInv, Restart
    PROVE  LedgerInv' /\ [Ledger!Next]_fates
<1> DEFINE R == {t \in Turns : pendingRows[t].state \in Recoverable}
<1>1. Inv'
    BY RestartStep DEF LedgerInv
<1>2. /\ sent' = sent /\ pendingRows \in [Turns -> Row]
      /\ \A t \in Turns : /\ pendingRows'[t] = RestoredRow(pendingRows[t])
                          /\ durableTurns'[t] = RestoredRow(pendingRows[t]).state
    BY DEF Restart, LedgerInv, Inv, TypeOK
<1>3. PICK order \in SetToSeqs(R) :
          LET queue == [i \in DOMAIN order |-> pendingRows[order[i]].request] IN
          /\ outcome' = [r \in Requests |->
                IF r \in ToSet(queue) THEN "pending"
                ELSE IF outcome[r] = "pending" THEN "lost" ELSE outcome[r]]
          /\ durableReady' = [r \in Requests |->
                IF r \in ToSet(queue) THEN "yes"
                ELSE IF durableReady[r] = "persisting" THEN "no" ELSE durableReady[r]]
    BY DEF Restart
<1> DEFINE queue == [i \in DOMAIN order |-> pendingRows[order[i]].request]
           back == ToSet(queue)
<1>4. \A i \in DOMAIN order : order[i] \in R
    BY <1>3 DEF SetToSeqs
<1>5. \A r \in back : TurnOf[r] \in R
    <2> SUFFICES ASSUME NEW i \in DOMAIN queue
                 PROVE  TurnOf[queue[i]] \in R
        BY DEF ToSet
    <2>1. queue[i] = pendingRows[order[i]].request /\ order[i] \in R
        BY <1>4
    <2>2. TurnOf[pendingRows[order[i]].request] = order[i]
        BY <2>1 DEF LedgerInv, Inv, RowInv, Recoverable
    <2> QED BY <2>1, <2>2
<1>6. \A r \in Requests :
          /\ outcome'[r] = IF r \in back THEN "pending"
                           ELSE IF outcome[r] = "pending" THEN "lost" ELSE outcome[r]
          /\ durableReady'[r] = IF r \in back THEN "yes"
                ELSE IF durableReady[r] = "persisting" THEN "no" ELSE durableReady[r]
    BY <1>3
<1> HIDE DEF back
<1>7. \A t \in Turns : /\ pendingRows'[t].state \in {"absent", pendingRows[t].state}
                       /\ t \in R => pendingRows'[t].state \in Recoverable
                       /\ pendingRows[t].state = "absent" => durableTurns'[t] = "absent"
    BY <1>2 DEF RestoredRow, NoRow, Recoverable
<1>8. RowsKept
    BY <1>7 DEF RowsKept
<1>9. AwaitKept
    <2> SUFFICES ASSUME NEW r \in Requests, durableReady'[r] \in Awaiting
                 PROVE  /\ durableReady[r] = "new" /\ outcome[r] = "new"
                        /\ outcome'[r] = "new" /\ durableTurns'[TurnOf[r]] = "absent"
        BY DEF AwaitKept, Awaiting, Going
    <2>1. durableReady[r] = "new" /\ r \notin back
        BY <1>6 DEF Awaiting
    <2>2. outcome[r] = "new" /\ pendingRows[TurnOf[r]].state = "absent"
        BY <2>1 DEF LedgerInv, AwaitInv, Awaiting
    <2> QED BY <1>6, <1>7, <2>1, <2>2, RequestsAssumption
<1>10. KeptInv'
    BY <1>5, <1>6, <1>7 DEF KeptInv, Kept
<1> QED BY <1>1, <1>2, <1>8, <1>9, <1>10, LedgerKept

\* persistDurableTurn inserts a row: the prompt is stored.
LEMMA InsertedLedger ==
    ASSUME LedgerInv, UniqueTurns, NEW r \in Requests, PersistInserted(r)
    PROVE  LedgerInv' /\ [Ledger!Next]_fates
<1> DEFINE t == TurnOf[r]
<1>1. Inv'
    BY PersistInsertedStep DEF LedgerInv
<1>2. /\ t \in Turns /\ pendingRows \in [Turns -> Row]
      /\ durableReady \in [Requests -> {"new", "persisting", "yes", "no", "failed"}]
      /\ durableTurns \in [Turns -> RowStates] /\ durableReady[r] = "persisting"
      /\ t \notin cancelledDurableTurns
    BY RequestsAssumption DEF LedgerInv, Inv, TypeOK, PersistInserted, CancelledMeanwhile
<1>3. PICK last \in {0} \cup {pendingRows[u].position : u \in Present} :
        LET rows == [pendingRows EXCEPT ![t] = NewRow(r, last)] IN
        pendingRows' = IF r \in promoting THEN promotePendingSessionTurn(rows, t) ELSE rows
    BY DEF PersistInserted
<1> DEFINE rows == [pendingRows EXCEPT ![t] = NewRow(r, last)]
<1>4. last \in Nat
    BY <1>2, <1>3 DEF Present, Row
<1>5. rows \in [Turns -> Row]
    BY <1>2, <1>4 DEF NewRow, Row, RowStates
<1>6. \A u \in Turns : promotePendingSessionTurn(rows, t)[u].state = rows[u].state
    BY <1>2, <1>5, PromotionKeepsRows
<1>7. /\ pendingRows'[t].state = "queued"
      /\ \A u \in Turns \ {t} : pendingRows'[u].state = pendingRows[u].state
    <2>1. rows[t].state = "queued" /\ \A u \in Turns \ {t} : rows[u] = pendingRows[u]
        BY <1>2 DEF NewRow
    <2> HIDE DEF rows
    <2> QED BY <1>2, <1>3, <1>6, <2>1 DEF rows
<1>8. /\ UNCHANGED <<outcome, sent, currentTurn, phase, aborted, cancelledDurableTurns>>
      /\ durableReady'[r] = "yes"
      /\ \A q \in Requests \ {r} : durableReady'[q] = durableReady[q] /\ TurnOf[q] \in Turns \ {t}
      /\ \A u \in Turns \ {t} : durableTurns'[u] = durableTurns[u]
    BY <1>2, RequestsAssumption DEF PersistInserted, drainVars, history, UniqueTurns
<1>9. /\ pendingRows[t].state = "absent" /\ sent[t] = 0 /\ outcome[r] \in Going
      /\ durableReady[r] \in Awaiting
    BY <1>2 DEF LedgerInv, AwaitInv, Awaiting
<1> HIDE DEF rows
<1>10. AwaitInv'
    <2> SUFFICES ASSUME NEW q \in Requests, durableReady'[q] \in Awaiting
                 PROVE  /\ pendingRows'[TurnOf[q]].state = "absent"
                        /\ durableTurns'[TurnOf[q]] = "absent"
                        /\ sent'[TurnOf[q]] = 0
                        /\ outcome'[q] \notin Going => TurnOf[q] \in cancelledDurableTurns'
                        /\ durableReady'[q] = "new" => outcome'[q] = "new"
        BY DEF AwaitInv
    <2>1. q # r
        BY <1>8 DEF Awaiting
    <2> HIDE DEF t
    <2> QED BY <1>7, <1>8, <2>1 DEF LedgerInv, AwaitInv
<1>11. KeptInv'
    <2> SUFFICES ASSUME NEW q \in Requests, outcome'[q] = "pending", durableReady'[q] = "yes"
                 PROVE  Kept(q)'
        BY DEF KeptInv
    <2>1. CASE q = r
        BY <1>7, <2>1 DEF Kept, Recoverable
    <2>2. CASE q # r
        <3>1. Kept(q)
            BY <1>8, <2>2 DEF LedgerInv, KeptInv
        <3> QED BY <1>7, <1>8, <2>2, <3>1 DEF Kept
    <2> QED BY <2>1, <2>2
<1>12. MayBeStored(t) /\ Fate(t) = "new"
    BY <1>9 DEF MayBeStored, UniqueTurns, Fate, Recoverable
<1>13. Fate(t)' = "stored"
    BY <1>7, <1>8, <1>9 DEF Fate, Recoverable
<1>14. ASSUME NEW u \in Turns, u # t PROVE Fate(u)' = Fate(u)
    <2>1. MayBeStored(u)' <=> MayBeStored(u)
        BY <1>8, <1>14 DEF MayBeStored
    <2> QED BY <1>7, <1>8, <1>14, <2>1 DEF Fate
<1>15. Ledger!Store(t)
    BY <1>2, <1>12, <1>13, <1>14 DEF Ledger!Store, Ledger!MoveOn, fates
<1> QED BY <1>1, <1>2, <1>10, <1>11, <1>15 DEF LedgerInv, Ledger!Next

\* markDurableTurnDispatching: the prompt leaves, unless its row is gone, and
\* then the drain has been stopped.
LEMMA MarkDispatchingLedger ==
    ASSUME LedgerInv, UniqueTurns, MarkDispatching
    PROVE  LedgerInv' /\ [Ledger!Next]_fates
<1>0. PICK r \in Requests : r = currentTurn
    BY DEF LedgerInv, Inv, QueueInv, MarkDispatching
<1>1. Inv'
    BY MarkDispatchingStep DEF LedgerInv
<1> DEFINE t == TurnOf[r]
<1>2. /\ r = currentTurn /\ t \in Turns /\ durableReady[r] = "yes" /\ outcome[r] = "pending"
      /\ pendingRows \in [Turns -> Row] /\ durableTurns \in [Turns -> RowStates]
    BY <1>0, RequestsAssumption DEF LedgerInv, Inv, TypeOK, QueueInv, PhaseInv, MarkDispatching
<1>3. /\ phase = "opening" /\ phase' = "dispatching"
      /\ UNCHANGED <<durableReady, cancelledDurableTurns, currentTurn, aborted, outcome, sent>>
    BY DEF MarkDispatching, history
<1>4. Kept(r)
    BY <1>2 DEF LedgerInv, KeptInv
<1>5. CASE durableTurns[t] = "absent"
    <2>1. UNCHANGED <<durableTurns, pendingRows>>
        BY <1>2, <1>5 DEF MarkDispatching
    <2>2. pendingRows[t].state = "absent"
        BY <1>2, <1>5 DEF LedgerInv, Inv, RowInv
    <2>3. aborted
        BY <1>3, <1>4, <2>2 DEF Kept, Recoverable
    <2>4. RowsKept /\ AwaitKept
        BY <1>3, <2>1 DEF RowsKept, AwaitKept, LedgerInv, AwaitInv
    <2>5. KeptInv'
        BY <1>3, <2>1, <2>3 DEF LedgerInv, KeptInv, Kept
    <2> QED BY <1>1, <1>3, <2>4, <2>5, LedgerKept
<1>6. CASE durableTurns[t] # "absent"
    <2>1. /\ pendingRows[t].state \in Recoverable /\ pendingRows'[t].state = "dispatching"
          /\ \A u \in Turns \ {t} : /\ pendingRows'[u] = pendingRows[u]
                                   /\ durableTurns'[u] = durableTurns[u]
        BY <1>2, <1>6 DEF MarkDispatching, DispatchingRow, Row
    <2>2. sent[t] = 0
        BY <1>2, <2>1 DEF LedgerInv, Inv, RowInv
    <2>3. \A q \in Requests : q # r => TurnOf[q] \in Turns \ {t}
        BY <1>2, RequestsAssumption DEF UniqueTurns
    <2>4. \A q \in Requests : durableReady[q] \in Awaiting => q # r
        BY <1>2 DEF Awaiting
    <2> HIDE DEF t
    <2>5. AwaitInv'
        BY <1>3, <2>1, <2>3, <2>4 DEF LedgerInv, AwaitInv
    <2>6. KeptInv'
        <3> SUFFICES ASSUME NEW q \in Requests, outcome'[q] = "pending", durableReady'[q] = "yes"
                     PROVE  Kept(q)'
            BY DEF KeptInv
        <3>1. CASE q = r
            BY <1>2, <1>3, <2>1, <3>1 DEF Kept, t
        <3>2. CASE q # r
            <4>1. Kept(q)
                BY <1>3 DEF LedgerInv, KeptInv
            <4> QED BY <1>3, <2>1, <2>3, <3>2, <4>1 DEF Kept
        <3> QED BY <3>1, <3>2
    <2>7. Fate(t) = "stored" /\ Fate(t)' = "leaving"
        BY <1>3, <2>1, <2>2 DEF Fate, Recoverable
    <2>8. ASSUME NEW u \in Turns, u # t PROVE Fate(u)' = Fate(u)
        <3>1. MayBeStored(u)' <=> MayBeStored(u)
            BY <1>3 DEF MayBeStored
        <3> QED BY <1>3, <2>1, <2>8, <3>1 DEF Fate
    <2>9. Ledger!Leave(t)
        BY <1>2, <2>7, <2>8 DEF Ledger!Leave, Ledger!MoveOn, fates
    <2> QED BY <1>1, <1>2, <2>5, <2>6, <2>9 DEF LedgerInv, Ledger!Next
<1> QED BY <1>5, <1>6

\* AgentSession.send: a prompt is sent only while its row says dispatching.
LEMMA SendLedger ==
    ASSUME LedgerInv, UniqueTurns, Send
    PROVE  LedgerInv' /\ [Ledger!Next]_fates
<1>0. PICK r \in Requests : r = currentTurn
    BY DEF LedgerInv, Inv, QueueInv, Send
<1>1. Inv'
    BY SendStep DEF LedgerInv
<1> DEFINE t == TurnOf[r]
<1>2. /\ r = currentTurn /\ t \in Turns /\ durableReady[r] = "yes" /\ outcome[r] = "pending"
      /\ sent \in [Turns -> Nat]
    BY <1>0, RequestsAssumption DEF LedgerInv, Inv, TypeOK, QueueInv, PhaseInv, Send
<1>3. /\ phase = "dispatching" /\ phase' = "running" /\ ~aborted
      /\ sent' = [sent EXCEPT ![t] = @ + 1]
      /\ UNCHANGED <<pendingRows, durableReady, durableTurns, cancelledDurableTurns,
                     currentTurn, aborted, outcome>>
    BY <1>2 DEF Send, durableVars
<1>4. pendingRows[t].state = "dispatching"
    <2>1. Kept(r)
        BY <1>2 DEF LedgerInv, KeptInv
    <2>2. pendingRows[t].state \in {"absent", "dispatching"}
        BY <1>2, <1>3 DEF LedgerInv, Inv, PhaseInv
    <2> QED BY <1>3, <2>1, <2>2 DEF Kept, Recoverable
<1>5. sent[t] = 0
    <2>1. Unsent(r)
        BY <1>2, <1>3 DEF Unsent
    <2> QED BY <1>2, <2>1 DEF LedgerInv, Inv, RivalInv
<1>6. sent'[t] = 1 /\ \A u \in Turns \ {t} : sent'[u] = sent[u]
    BY <1>2, <1>3, <1>5
<1>7. \A q \in Requests : durableReady[q] \in Awaiting => TurnOf[q] \in Turns \ {t}
    BY <1>2, RequestsAssumption DEF UniqueTurns, Awaiting
<1> HIDE DEF t
<1>8. AwaitInv'
    BY <1>3, <1>6, <1>7 DEF LedgerInv, AwaitInv
<1>9. KeptInv'
    BY <1>3 DEF LedgerInv, KeptInv, Kept
<1>10. Fate(t) = "leaving" /\ Fate(t)' = "sent"
    BY <1>4, <1>5, <1>6 DEF Fate, Recoverable
<1>11. ASSUME NEW u \in Turns, u # t PROVE Fate(u)' = Fate(u)
    <2>1. MayBeStored(u)' <=> MayBeStored(u)
        BY <1>3 DEF MayBeStored
    <2> QED BY <1>3, <1>6, <1>11, <2>1 DEF Fate
<1>12. Ledger!Send(t)
    BY <1>2, <1>10, <1>11 DEF Ledger!Send, Ledger!MoveOn, fates
<1> QED BY <1>1, <1>2, <1>8, <1>9, <1>12 DEF LedgerInv, Ledger!Next

\* Nothing happens to this chat.
LEMMA StutterLedger ==
    ASSUME LedgerInv, UNCHANGED vars PROVE LedgerInv' /\ [Ledger!Next]_fates
<1>1. Inv'
    BY StutterInv DEF LedgerInv
<1>2. UNCHANGED <<pendingRows, durableReady, durableTurns, cancelledDurableTurns,
                  outcome, sent, currentTurn, phase, aborted>>
    BY DEF vars
<1> QED BY <1>1, <1>2, QuietLedger

\* Every step maps to a step of the ledger or to a stutter.
LEMMA NextLedger ==
    ASSUME LedgerInv, UniqueTurns, [Next]_vars
    PROVE  LedgerInv' /\ [Ledger!Next]_fates
<1>1. CASE UNCHANGED vars
    BY <1>1, StutterLedger
<1>2. ASSUME NEW r \in Requests, RunQuery(r) \/ PersistDurableTurn(r) \/ PersistFails(r)
      PROVE  LedgerInv' /\ [Ledger!Next]_fates
    BY <1>2, RunQueryLedger, PersistEndsLedger, InsertedLedger DEF PersistDurableTurn
<1>3. CASE DrainStep
    <2>1. CASE \/ AcceptTurn \/ GateProceeds \/ GateWakes
               \/ LookUpUserMessage \/ AppendUserMessage
        <3>1. PICK r \in Requests : TurnOf[r] \in Turns
            BY <2>1, RequestsAssumption DEF LedgerInv, Inv, QueueInv, AcceptTurn, GateProceeds,
               GateWakes, LookUpUserMessage, AppendUserMessage
        <3> QED BY <2>1, <3>1, QuietStepsLedger
    <2>2. CASE GateSleeps \/ GateSkipped
        BY <2>2, GateSleepsLedger
    <2>3. CASE DropTurn \/ RejectTurn \/ GateAborted \/ FinishTurn \/ FailTurn
        BY <2>3, EndOfTurnLedger
    <2>4. CASE MarkDispatching \/ Send
        BY <2>4, MarkDispatchingLedger, SendLedger
    <2> QED BY <1>3, <2>1, <2>2, <2>3, <2>4 DEF DrainStep
<1>4. ASSUME NEW t \in Turns,
             CancelQueued(t) \/ PromoteQueued(t) \/ SteerCapture(t) \/ SteerStep(t)
      PROVE  LedgerInv' /\ [Ledger!Next]_fates
    BY <1>4, CancelQueuedLedger, PromoteQueuedLedger, QuietStepsLedger, SteerSettlesLedger
       DEF SteerStep
<1>5. CASE Abort \/ Restart
    BY <1>5, AbortLedger, RestartLedger
<1>6. CASE SuspendForRestart
    <2>1. CASE Turns = {}
        <3>1. Inv'
            BY <1>6, SuspendStep DEF LedgerInv
        <3>2. UNCHANGED <<pendingRows, durableReady, durableTurns, cancelledDurableTurns,
                          outcome, sent, currentTurn, phase>>
            BY <1>6 DEF SuspendForRestart, durableVars, history
        <3>3. phase # "idle" /\ aborted => aborted'
            BY <1>6 DEF SuspendForRestart, TearDownNativeSessionState
        <3> QED BY <3>1, <3>2, <3>3, QuietLedger
    <2>2. CASE Turns # {}
        BY <1>6, <2>2, QuietStepsLedger
    <2> QED BY <2>1, <2>2
<1> QED BY <1>1, <1>2, <1>3, <1>4, <1>5, <1>6 DEF Next

\* The chat's durable queue implements the ledger of its prompts (runQuery,
\* persistDurableTurn, drainTurnQueue, restoreDurableTurns), when no turn id
\* reaches the server twice: stored before it is dispatched, dispatched once.
THEOREM ImplementsLedger == UniqueTurns => (Spec => ImplementsTurnLedger)
<1> SUFFICES ASSUME UniqueTurns PROVE Spec => ImplementsTurnLedger
    OBVIOUS
<1>1. Init => LedgerInv /\ Ledger!Init
    BY LedgerInit
<1>2. LedgerInv /\ [Next]_vars => LedgerInv' /\ [Ledger!Next]_fates
    BY NextLedger
<1> QED BY <1>1, <1>2, PTL DEF Spec, ImplementsTurnLedger, Ledger!Spec
=============================================================================
