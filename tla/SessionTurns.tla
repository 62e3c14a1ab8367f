--------------------------- MODULE SessionTurns ---------------------------
(***************************************************************************)
(* The durable turn queue of one chat: SessionManager (server/session.ts), *)
(* its SessionTurnQueue, and the session_pending_turns table that lets     *)
(* accepted prompts survive a restart of Hlid.                             *)
(*                                                                         *)
(* A step is what one stretch of the event loop does between two waits on  *)
(* the outside world.  bun:sqlite is synchronous behind an already         *)
(* resolved getDb(), so a statement belongs to the step that issues it.    *)
(***************************************************************************)
EXTENDS Naturals, Sequences, FiniteSets, SequencesExt

CONSTANTS
    Requests,       \* calls of runQuery: one per chat message received
    Turns,          \* client-generated turn ids
    TurnOf,         \* the turn id each request carries
    None,           \* no request
    AutoSleep,      \* auto_sleep.enabled in the configuration
    ProviderSteers, \* the provider session offers steer()
    MaxRestarts     \* bound on the restarts a behaviour may contain

ASSUME RequestsAssumption == TurnOf \in [Requests -> Turns] /\ IsFiniteSet(Turns)
ASSUME NoneAssumption     == None \notin Requests
ASSUME FlagsAssumption    == AutoSleep \in BOOLEAN /\ ProviderSteers \in BOOLEAN
ASSUME BoundAssumption    == MaxRestarts \in Nat
\* A client marks an outbox item as sent; a reload or a second tab can replay
\* it once more, so a turn id reaches the server at most twice.
ASSUME ResendAssumption   ==
    \A a, b, c \in Requests :
        TurnOf[a] = TurnOf[b] /\ TurnOf[b] = TurnOf[c] => a = b \/ b = c \/ a = c

VARIABLES
    \* --- SQLite: what a restart finds again ---
    pendingRows,  \* session_pending_turns, by turn id
    transcript,   \* number of user rows of a turn id in messages
    \* --- SessionManager: lost with the process ---
    turnQueue,    \* SessionTurnQueue.pending
    durableReady, \* outcome of persistDurableTurn, by request
    durableTurns, \* the manager's copy of a row's state, by turn id
    cancelledDurableTurns,
    promoting,    \* requests promoted before their row exists
    currentTurn,  \* currentTurnArgs
    phase,        \* where drainTurnQueue and runOneTurn wait
    aborted,      \* the abort signal of the drain in progress
    agentSession, \* a provider session is attached
    steer,        \* steerQueued in progress, by turn id
    suspendingForRestart,
    \* --- history, for the properties and the bounds only ---
    outcome,      \* how the promise of a request ended
    sent,         \* times a turn was handed to the provider by the drain loop
    steered,      \* turns a provider accepted as steering
    stopped,      \* requests a Stop found in the queue or running
    restarts

durableVars == <<pendingRows, transcript>>
drainVars   == <<turnQueue, currentTurn, phase, aborted>>
history     == <<sent, steered, stopped, restarts>>
vars == <<pendingRows, transcript, turnQueue, durableReady, durableTurns,
          cancelledDurableTurns, promoting, currentTurn, phase, aborted,
          agentSession, steer, suspendingForRestart, outcome, sent, steered,
          stopped, restarts>>

RowStates == {"absent", "queued", "sleeping", "dispatching"}
Recoverable == {"queued", "sleeping"}
\* currentTurnState is set
InTurn == {"prompting", "appending", "opening", "dispatching", "running"}
Phases == {"idle", "accepting", "preparing", "sleeping"} \cup InTurn
Outcomes == {"new", "pending", "ran", "failed", "stopped", "cancelled",
             "dropped", "steered", "lost"}
Row == [state : RowStates, position : Nat, request : Requests \cup {None},
        resumed : BOOLEAN]
Stages == {"none", "preparing", "delivering", "accepted", "writing", "written"}
Claimed == {"delivering", "accepted", "writing", "written"}  \* out of the queue
Steering == [stage : Stages,
             target : Requests \cup {None}, request : Requests \cup {None},
             index : Nat]

NoRow   == [state |-> "absent", position |-> 0, request |-> None, resumed |-> FALSE]
NoSteer == [stage |-> "none", target |-> None, request |-> None, index |-> 0]

TypeOK ==
    /\ pendingRows \in [Turns -> Row]
    /\ transcript \in [Turns -> Nat]
    /\ turnQueue \in Seq(Requests)
    /\ durableReady \in [Requests -> {"new", "persisting", "yes", "no", "failed"}]
    /\ durableTurns \in [Turns -> RowStates]
    /\ cancelledDurableTurns \subseteq Turns
    /\ promoting \subseteq Requests
    /\ currentTurn \in Requests \cup {None}
    /\ phase \in Phases
    /\ aborted \in BOOLEAN
    /\ agentSession \in BOOLEAN
    /\ steer \in [Turns -> Steering]
    /\ suspendingForRestart \in BOOLEAN
    /\ outcome \in [Requests -> Outcomes]
    /\ sent \in [Turns -> Nat]
    /\ steered \subseteq Turns
    /\ stopped \subseteq Requests
    /\ restarts \in 0..MaxRestarts

Init ==
    /\ pendingRows = [t \in Turns |-> NoRow]
    /\ transcript = [t \in Turns |-> 0]
    /\ turnQueue = <<>>
    /\ durableReady = [r \in Requests |-> "new"]
    /\ durableTurns = [t \in Turns |-> "absent"]
    /\ cancelledDurableTurns = {}
    /\ promoting = {}
    /\ currentTurn = None
    /\ phase = "idle"
    /\ aborted = FALSE
    /\ agentSession = FALSE
    /\ steer = [t \in Turns |-> NoSteer]
    /\ suspendingForRestart = FALSE
    /\ outcome = [r \in Requests |-> "new"]
    /\ sent = [t \in Turns |-> 0]
    /\ steered = {}
    /\ stopped = {}
    /\ restarts = 0

-----------------------------------------------------------------------------
(* Rows of session_pending_turns.  A definition whose name starts with Bug is  *)
(* the same operator with a mistake in it, which a property has to notice.      *)

Present == {t \in Turns : pendingRows[t].state # "absent"}

BugKnownByRowOnly(t) == t \in Present
BugKnownBySession(t) == transcript[t] > 0 \/ Present # {}

\* enqueuePendingSessionTurn finds the turn in the transcript or in the table.
AlreadyKnown(t) == transcript[t] > 0 \/ t \in Present

\* The row it appends behind position last.
NewRow(r, last) ==
    [state |-> "queued", position |-> last + 1, request |-> r, resumed |-> FALSE]

BugPromoteWithoutShift(rows, t, u) ==
    IF u = t /\ rows[t].state = "queued" THEN [rows[u] EXCEPT !.position = 1] ELSE rows[u]

\* The row a promotion leaves at u when t is promoted: only a queued row can be
\* promoted, and only queued rows ahead of it move back.
PromotedRow(rows, t, u) ==
    IF rows[t].state # "queued" THEN rows[u]
    ELSE IF u = t THEN [rows[u] EXCEPT !.position = 1]
    ELSE IF rows[u].state = "queued" /\ rows[u].position < rows[t].position
    THEN [rows[u] EXCEPT !.position = @ + 1]
    ELSE rows[u]

BugReplayDispatching(row) == IF row.state = "absent" THEN row ELSE [row EXCEPT !.state = "queued"]
BugRestoreQueuedOnly(row) == IF row.state = "queued" THEN row ELSE NoRow

\* What markPendingSessionTurnDispatching, the stored Resume now and a restart
\* make of a row.
DispatchingRow(row) == [row EXCEPT !.state = "dispatching"]
ResumedRow(row) ==
    IF row.state \in Recoverable
    THEN [row EXCEPT !.state = "sleeping", !.resumed = TRUE] ELSE row
RestoredRow(row) == IF row.state \in Recoverable THEN row ELSE NoRow

promotePendingSessionTurn(rows, t) == [u \in Turns |-> PromotedRow(rows, t, u)]

\* settleDurableTurn: forget a turn, in memory and on disk.  A turn the map no
\* longer knows is left alone, and so is its id in cancelledDurableTurns.
SettleDurableTurn(t) ==
    IF durableTurns[t] = "absent"
    THEN UNCHANGED <<durableTurns, cancelledDurableTurns, pendingRows>>
    ELSE /\ durableTurns' = [durableTurns EXCEPT ![t] = "absent"]
         /\ cancelledDurableTurns' = cancelledDurableTurns \ {t}
         /\ pendingRows' = [pendingRows EXCEPT ![t] = NoRow]

BugSettleWhileSuspending(t) == SettleDurableTurn(t)

\* A turn that ends while Hlid shuts down keeps its row for the next process.
SettleUnlessSuspending(t) ==
    IF suspendingForRestart
    THEN UNCHANGED <<durableTurns, cancelledDurableTurns, pendingRows>>
    ELSE SettleDurableTurn(t)

BugForgetInFlight(T) ==
    /\ durableTurns' = [t \in Turns |-> IF t \in T THEN "absent" ELSE durableTurns[t]]
    /\ pendingRows' = [t \in Turns |-> IF t \in T THEN NoRow ELSE pendingRows[t]]
    /\ UNCHANGED cancelledDurableTurns

\* cancelQueued and abort: forget turns the user gave up, and remember their
\* ids for a persistDurableTurn that is still under way.
ForgetTurns(T) ==
    /\ durableTurns' = [t \in Turns |-> IF t \in T THEN "absent" ELSE durableTurns[t]]
    /\ cancelledDurableTurns' = cancelledDurableTurns \cup T
    /\ pendingRows' = [t \in Turns |-> IF t \in T THEN NoRow ELSE pendingRows[t]]

BugNeverCancelled(t) == FALSE

\* The check persistDurableTurn makes after its insert.
CancelledMeanwhile(t) == t \in cancelledDurableTurns

Settle(r, how) == outcome' = [outcome EXCEPT ![r] = how]

-----------------------------------------------------------------------------
(* The drain loop *)

\* drainTurnQueue's loop head, with q pending: the next turn starts, or the
\* drain ends.  Under suspendingForRestart the turn it shifted is let go
\* unresolved.  The whole drain shares one abort signal.
NextTurn(q, signal) ==
    IF q = <<>> \/ suspendingForRestart
    THEN /\ turnQueue' = IF q = <<>> THEN q ELSE Tail(q)
         /\ currentTurn' = None
         /\ phase' = "idle"
         /\ aborted' = FALSE
    ELSE /\ turnQueue' = Tail(q)
         /\ currentTurn' = Head(q)
         /\ phase' = "accepting"
         /\ aborted' = signal

\* A pending turn joins the queue; it starts a drain when none is running.
Enqueued(q) ==
    IF phase = "idle" THEN NextTurn(q, FALSE)
    ELSE turnQueue' = q /\ UNCHANGED <<currentTurn, phase, aborted>>

\* runQuery: enqueue first, persist meanwhile.
RunQuery(r) ==
    /\ outcome[r] = "new"
    /\ Settle(r, "pending")
    /\ durableReady' = [durableReady EXCEPT ![r] = "persisting"]
    /\ Enqueued(Append(turnQueue, r))
    /\ UNCHANGED <<pendingRows, transcript, durableTurns, cancelledDurableTurns,
                   promoting, agentSession, steer, suspendingForRestart, history>>

\* persistDurableTurn finds the turn already in the transcript or in the table.
PersistRefused(r) ==
    /\ durableReady[r] = "persisting"
    /\ AlreadyKnown(TurnOf[r])
    /\ durableReady' = [durableReady EXCEPT ![r] = "no"]
    /\ promoting' = promoting \ {r}
    /\ UNCHANGED <<durableVars, durableTurns, cancelledDurableTurns, drainVars,
                   agentSession, steer, suspendingForRestart, outcome, history>>

\* It was cancelled meanwhile: the row is inserted and deleted again.
PersistCancelled(r) ==
    /\ durableReady[r] = "persisting"
    /\ ~AlreadyKnown(TurnOf[r])
    /\ CancelledMeanwhile(TurnOf[r])
    /\ cancelledDurableTurns' = cancelledDurableTurns \ {TurnOf[r]}
    /\ durableReady' = [durableReady EXCEPT ![r] = "no"]
    /\ promoting' = promoting \ {r}
    /\ UNCHANGED <<durableVars, durableTurns, drainVars, agentSession, steer,
                   suspendingForRestart, outcome, history>>

\* The row is appended after the last one; a promotion that was waiting for it
\* reaches the table too.
PersistInserted(r) ==
    LET t == TurnOf[r] IN
    /\ durableReady[r] = "persisting"
    /\ ~AlreadyKnown(t)
    /\ ~CancelledMeanwhile(t)
    /\ \E last \in {0} \cup {pendingRows[u].position : u \in Present} :
          /\ \A u \in Present : pendingRows[u].position <= last
          /\ LET rows == [pendingRows EXCEPT ![t] = NewRow(r, last)] IN
             pendingRows' = IF r \in promoting
                            THEN promotePendingSessionTurn(rows, t) ELSE rows
    /\ durableTurns' = [durableTurns EXCEPT ![t] = "queued"]
    /\ durableReady' = [durableReady EXCEPT ![r] = "yes"]
    /\ promoting' = promoting \ {r}
    /\ UNCHANGED <<transcript, cancelledDurableTurns, drainVars, agentSession,
                   steer, suspendingForRestart, outcome, history>>

\* initSessionContext threw: a session that cannot be restored, or one whose
\* settings changed while it was read.
PersistFails(r) ==
    /\ durableReady[r] = "persisting"
    /\ durableReady' = [durableReady EXCEPT ![r] = "failed"]
    /\ promoting' = promoting \ {r}
    /\ UNCHANGED <<durableVars, durableTurns, cancelledDurableTurns, drainVars,
                   agentSession, steer, suspendingForRestart, outcome, history>>

PersistDurableTurn(r) ==
    PersistRefused(r) \/ PersistCancelled(r) \/ PersistInserted(r)

\* drainTurnQueue after `await durableReady`.
AcceptTurn ==
    /\ phase = "accepting"
    /\ durableReady[currentTurn] = "yes"
    /\ phase' = "preparing"
    /\ UNCHANGED <<durableVars, turnQueue, durableReady, durableTurns,
                   cancelledDurableTurns, promoting, currentTurn, aborted,
                   agentSession, steer, suspendingForRestart, outcome, history>>

DropTurn ==
    /\ phase = "accepting"
    /\ durableReady[currentTurn] = "no"
    /\ Settle(currentTurn, "dropped")
    /\ NextTurn(turnQueue, aborted)
    /\ UNCHANGED <<durableVars, durableReady, durableTurns, cancelledDurableTurns,
                   promoting, agentSession, steer, suspendingForRestart, history>>

\* drainTurnQueue's catch: the persistence failed, or runOneTurn threw before
\* its own try (barriers, initSessionContext, prepareProviderForTurn).
RejectTurn ==
    /\ \/ phase = "accepting" /\ durableReady[currentTurn] = "failed"
       \/ phase = "preparing"
    /\ SettleUnlessSuspending(TurnOf[currentTurn])
    /\ Settle(currentTurn, "failed")
    /\ NextTurn(turnQueue, aborted)
    /\ UNCHANGED <<transcript, durableReady, promoting, agentSession, steer,
                   suspendingForRestart, history>>

-----------------------------------------------------------------------------
(* One turn: runOneTurn.  The verdict of the usage gate is left open here;  *)
(* a row whose sleep the user ended carries an expired cap and is let by.   *)

GateProceeds ==
    /\ phase = "preparing"
    /\ ~(AutoSleep /\ aborted)
    /\ phase' = "prompting"
    /\ UNCHANGED <<durableVars, turnQueue, durableReady, durableTurns,
                   cancelledDurableTurns, promoting, currentTurn, aborted,
                   agentSession, steer, suspendingForRestart, outcome, history>>

\* onSleep: the turn waits, and its row says so unless it is gone.
GateSleeps ==
    LET t == TurnOf[currentTurn] IN
    /\ phase = "preparing"
    /\ AutoSleep /\ ~aborted
    /\ ~pendingRows[t].resumed
    /\ phase' = "sleeping"
    /\ durableTurns' = [durableTurns EXCEPT ![t] =
                           IF @ \in Recoverable THEN "sleeping" ELSE @]
    /\ pendingRows' = [pendingRows EXCEPT ![t].state =
                           IF @ \in Recoverable THEN "sleeping" ELSE @]
    /\ UNCHANGED <<transcript, turnQueue, durableReady, cancelledDurableTurns,
                   promoting, currentTurn, aborted, agentSession, steer,
                   suspendingForRestart, outcome, history>>

\* The window reset or the cap ran out: the row keeps its last sleep decision.
GateWakes ==
    /\ phase = "sleeping"
    /\ ~aborted
    /\ phase' = "prompting"
    /\ UNCHANGED <<durableVars, turnQueue, durableReady, durableTurns,
                   cancelledDurableTurns, promoting, currentTurn, aborted,
                   agentSession, steer, suspendingForRestart, outcome, history>>

\* Resume now: the expired cap is stored, so the choice survives a restart.
\* The gate writes back the copy it took before sleeping, which can return an
\* entry that was forgotten meanwhile; the UPDATE does not return its row.
GateSkipped ==
    LET t == TurnOf[currentTurn] IN
    /\ phase = "sleeping"
    /\ ~aborted
    /\ phase' = "prompting"
    /\ \E returned \in BOOLEAN : durableTurns' = [durableTurns EXCEPT ![t] =
          IF @ \in Recoverable \/ (returned /\ @ = "absent") THEN "sleeping" ELSE @]
    /\ pendingRows' = [pendingRows EXCEPT ![t] = ResumedRow(@)]
    /\ UNCHANGED <<transcript, turnQueue, durableReady, cancelledDurableTurns,
                   promoting, currentTurn, aborted, agentSession, steer,
                   suspendingForRestart, outcome, sent, steered, stopped, restarts>>

GateAborted ==
    /\ phase \in {"preparing", "sleeping"}
    /\ AutoSleep /\ aborted
    /\ SettleUnlessSuspending(TurnOf[currentTurn])
    /\ Settle(currentTurn, "stopped")
    /\ NextTurn(turnQueue, aborted)
    /\ UNCHANGED <<transcript, durableReady, promoting, agentSession, steer,
                   suspendingForRestart, history>>

BugNeverFound(t) == FALSE

\* getUserMessageSeqByTurnId finds a user row, such as one an earlier process
\* left behind before it dispatched the turn.
UserRowFound(t) == transcript[t] > 0

\* appendMessage.
UserRowAppended(t) == [transcript EXCEPT ![t] = @ + 1]

\* persistUserMessage runs once the prompt is built: it looks for the turn's row,
\* and what it found decides what it does after that wait.
LookUpUserMessage ==
    /\ phase = "prompting"
    /\ phase' = IF UserRowFound(TurnOf[currentTurn]) THEN "opening" ELSE "appending"
    /\ UNCHANGED <<durableVars, turnQueue, durableReady, durableTurns,
                   cancelledDurableTurns, promoting, currentTurn, aborted,
                   agentSession, steer, suspendingForRestart, outcome, history>>

AppendUserMessage ==
    /\ phase = "appending"
    /\ transcript' = UserRowAppended(TurnOf[currentTurn])
    /\ phase' = "opening"
    /\ UNCHANGED <<pendingRows, turnQueue, durableReady, durableTurns,
                   cancelledDurableTurns, promoting, currentTurn, aborted,
                   agentSession, steer, suspendingForRestart, outcome, history>>

\* getOrCreateAgentSession, setPermissionMode, markDurableTurnDispatching.  A
\* turn the map forgot is not marked.
MarkDispatching ==
    LET t == TurnOf[currentTurn] IN
    /\ phase = "opening"
    /\ durableTurns[t] # "absent" => pendingRows[t].state \in Recoverable
    /\ agentSession' = TRUE
    /\ phase' = "dispatching"
    /\ IF durableTurns[t] = "absent"
       THEN UNCHANGED <<durableTurns, pendingRows>>
       ELSE /\ durableTurns' = [durableTurns EXCEPT ![t] = "dispatching"]
            /\ pendingRows' = [pendingRows EXCEPT ![t] = DispatchingRow(@)]
    /\ UNCHANGED <<transcript, turnQueue, durableReady, cancelledDurableTurns,
                   promoting, currentTurn, aborted, steer, suspendingForRestart,
                   outcome, history>>

\* AgentSession.send: a provider session born under, or cancelled by, an
\* aborted signal delivers nothing.
Send ==
    /\ phase = "dispatching"
    /\ ~aborted
    /\ phase' = "running"
    /\ sent' = [sent EXCEPT ![TurnOf[currentTurn]] = @ + 1]
    /\ UNCHANGED <<durableVars, turnQueue, durableReady, durableTurns,
                   cancelledDurableTurns, promoting, currentTurn, aborted,
                   agentSession, steer, suspendingForRestart, outcome, steered,
                   stopped, restarts>>

\* iterateConversation returned: done, interrupted, or the stream was closed.
FinishTurn ==
    /\ phase = "running"
    /\ SettleUnlessSuspending(TurnOf[currentTurn])
    /\ Settle(currentTurn, "ran")
    /\ NextTurn(turnQueue, aborted)
    /\ UNCHANGED <<transcript, durableReady, promoting, agentSession, steer,
                   suspendingForRestart, history>>

\* A steer prepared for a provider session that is gone has lost its target.
DropTargets == steer' = [t \in Turns |->
    IF steer[t].stage = "preparing" THEN [steer[t] EXCEPT !.target = None] ELSE steer[t]]

\* runOneTurn's catch and finally: an expected abort is silent, any other
\* error is reported; the provider session is torn down.
FailTurn ==
    /\ phase \in InTurn
    /\ agentSession' = FALSE
    /\ DropTargets
    /\ SettleUnlessSuspending(TurnOf[currentTurn])
    /\ Settle(currentTurn, IF aborted THEN "stopped" ELSE "failed")
    /\ NextTurn(turnQueue, aborted)
    /\ UNCHANGED <<transcript, durableReady, promoting, suspendingForRestart, history>>

-----------------------------------------------------------------------------
(* What the user and the process do to the queue *)

\* The entry findIndex returns for a turn id.
IsFirst(i, t) ==
    /\ i \in DOMAIN turnQueue
    /\ TurnOf[turnQueue[i]] = t
    /\ \A j \in DOMAIN turnQueue : TurnOf[turnQueue[j]] = t => i <= j

CancelQueued(t) == \E i \in DOMAIN turnQueue :
    /\ IsFirst(i, t)
    /\ Settle(turnQueue[i], "cancelled")
    /\ turnQueue' = RemoveAt(turnQueue, i)
    /\ ForgetTurns({t})
    /\ UNCHANGED <<transcript, durableReady, promoting, currentTurn, phase,
                   aborted, agentSession, steer, suspendingForRestart, history>>

\* promoteQueued: to the head of the queue at once, in the table as soon as the
\* row exists.  The interrupt it sends ends a running turn through FinishTurn.
PromoteQueued(t) == \E i \in DOMAIN turnQueue :
    LET r == turnQueue[i] IN
    /\ IsFirst(i, t)
    /\ turnQueue' = <<r>> \o RemoveAt(turnQueue, i)
    /\ promoting' = IF durableReady[r] = "persisting" THEN promoting \cup {r} ELSE promoting
    /\ pendingRows' = IF durableReady[r] = "yes"
                      THEN promotePendingSessionTurn(pendingRows, t) ELSE pendingRows
    /\ UNCHANGED <<transcript, durableReady, durableTurns, cancelledDurableTurns,
                   currentTurn, phase, aborted, agentSession, steer,
                   suspendingForRestart, outcome, history>>

TearDownNativeSessionState ==
    /\ agentSession' = FALSE
    /\ DropTargets
    /\ aborted' = (phase # "idle")

\* abort: the running turn ends through its signal, the queued ones here.  A
\* request claimed for steering is in neither place.
Abort ==
    LET found == ToSet(turnQueue) \cup ({currentTurn} \ {None}) IN
    /\ ForgetTurns({TurnOf[r] : r \in found})
    /\ outcome' = [r \in Requests |->
          IF r \in ToSet(turnQueue) THEN "stopped" ELSE outcome[r]]
    /\ turnQueue' = <<>>
    /\ TearDownNativeSessionState
    /\ stopped' = stopped \cup found
    /\ UNCHANGED <<transcript, durableReady, promoting, currentTurn, phase,
                   suspendingForRestart, sent, steered, restarts>>

\* suspendForRestart, called before the process exits.
SuspendForRestart ==
    /\ restarts < MaxRestarts
    /\ ~suspendingForRestart
    /\ suspendingForRestart' = TRUE
    /\ TearDownNativeSessionState
    /\ UNCHANGED <<durableVars, turnQueue, durableReady, durableTurns,
                   cancelledDurableTurns, promoting, currentTurn, phase, outcome,
                   history>>

\* The process ends, cleanly or not, and the next one calls
\* SessionPool.restoreDurableTurns: dispatching rows are discarded, the others
\* queued again by position, and a drain starts.
Restart ==
    /\ restarts < MaxRestarts
    /\ restarts' = restarts + 1
    /\ suspendingForRestart' = FALSE
    /\ pendingRows' = [t \in Turns |-> RestoredRow(pendingRows[t])]
    /\ durableTurns' = [t \in Turns |-> RestoredRow(pendingRows[t]).state]
    /\ \E order \in SetToSeqs({t \in Turns : pendingRows[t].state \in Recoverable}) :
          LET queue == [i \in DOMAIN order |-> pendingRows[order[i]].request] IN
          /\ \A i, j \in DOMAIN order :
                i < j => pendingRows[order[i]].position <= pendingRows[order[j]].position
          /\ turnQueue' = IF queue = <<>> THEN queue ELSE Tail(queue)
          /\ currentTurn' = IF queue = <<>> THEN None ELSE Head(queue)
          /\ phase' = IF queue = <<>> THEN "idle" ELSE "accepting"
          /\ outcome' = [r \in Requests |->
                IF r \in ToSet(queue) THEN "pending"
                ELSE IF outcome[r] = "pending" THEN "lost" ELSE outcome[r]]
          /\ durableReady' = [r \in Requests |->
                IF r \in ToSet(queue) THEN "yes"
                ELSE IF durableReady[r] = "persisting" THEN "no" ELSE durableReady[r]]
    /\ aborted' = FALSE
    /\ agentSession' = FALSE
    /\ cancelledDurableTurns' = {}
    /\ promoting' = {}
    /\ steer' = [t \in Turns |-> NoSteer]
    /\ UNCHANGED <<transcript, sent, steered, stopped>>

-----------------------------------------------------------------------------
(* steerQueued: a queued turn joins the turn the provider is running *)

SteerCapture(t) ==
    /\ ProviderSteers /\ agentSession
    /\ phase \in InTurn
    /\ steer[t].stage = "none"
    /\ \E i \in DOMAIN turnQueue : IsFirst(i, t)
    /\ steer' = [steer EXCEPT ![t] =
                    [NoSteer EXCEPT !.stage = "preparing", !.target = currentTurn]]
    /\ UNCHANGED <<durableVars, drainVars, durableReady, durableTurns,
                   cancelledDurableTurns, promoting, agentSession,
                   suspendingForRestart, outcome, history>>

\* assertActiveSteeringTarget
TargetStillActive(t) ==
    /\ steer[t].target = currentTurn /\ currentTurn # None
    /\ phase \in InTurn

BugRestoreWithoutDrain(r, index) ==
    LET at == IF index <= Len(turnQueue) + 1 THEN index ELSE Len(turnQueue) + 1
    IN turnQueue' = InsertAt(turnQueue, at, r) /\ UNCHANGED <<currentTurn, phase, aborted>>

\* SessionTurnQueue.extract and restore: a claimed turn leaves the queue, and a
\* declined one returns to its old index, or to the end of a queue that has
\* become shorter, and starts a drain when none is running.
Extracted(q, i) == RemoveAt(q, i)
RestoreToQueue(r, index) ==
    LET at == IF index <= Len(turnQueue) + 1 THEN index ELSE Len(turnQueue) + 1
    IN Enqueued(InsertAt(turnQueue, at, r))

\* The prompt is built and the target still there: the turn is claimed and goes
\* to the provider.
SteerClaim(t) == \E i \in DOMAIN turnQueue :
    /\ steer[t].stage = "preparing"
    /\ TargetStillActive(t)
    /\ IsFirst(i, t)
    /\ turnQueue' = Extracted(turnQueue, i)
    /\ steer' = [steer EXCEPT ![t].stage = "delivering",
                              ![t].request = turnQueue[i], ![t].index = i]
    /\ UNCHANGED <<durableVars, durableReady, durableTurns, cancelledDurableTurns,
                   promoting, currentTurn, phase, aborted, agentSession,
                   suspendingForRestart, outcome, history>>

\* The target changed, the prompt could not be built, or the turn left the queue.
SteerGivesUp(t) ==
    /\ steer[t].stage = "preparing"
    /\ steer' = [steer EXCEPT ![t] = NoSteer]
    /\ UNCHANGED <<durableVars, drainVars, durableReady, durableTurns,
                   cancelledDurableTurns, promoting, agentSession,
                   suspendingForRestart, outcome, history>>

\* The provider takes the instruction; its answer is on the way.
ProviderAcceptsSteer(t) ==
    /\ steer[t].stage = "delivering"
    /\ steer' = [steer EXCEPT ![t].stage = "accepted"]
    /\ steered' = steered \cup {t}
    /\ UNCHANGED <<durableVars, drainVars, durableReady, durableTurns,
                   cancelledDurableTurns, promoting, agentSession,
                   suspendingForRestart, outcome, sent, stopped, restarts>>

\* The answer arrives: persistUserMessage looks for the turn's row and appends
\* one, or that write fails, ...
SteerLooksUp(t) ==
    /\ steer[t].stage = "accepted"
    /\ steer' = [steer EXCEPT ![t].stage = IF UserRowFound(t) THEN "written" ELSE "writing"]
    /\ UNCHANGED <<durableVars, drainVars, durableReady, durableTurns,
                   cancelledDurableTurns, promoting, agentSession,
                   suspendingForRestart, outcome, history>>

SteerAppends(t) ==
    /\ steer[t].stage = "writing"
    /\ \E appended \in BOOLEAN :
          transcript' = IF appended THEN UserRowAppended(t) ELSE transcript
    /\ steer' = [steer EXCEPT ![t].stage = "written"]
    /\ UNCHANGED <<pendingRows, drainVars, durableReady, durableTurns,
                   cancelledDurableTurns, promoting, agentSession,
                   suspendingForRestart, outcome, history>>

\* ... and the turn is settled either way.
SteerSettles(t) ==
    /\ steer[t].stage = "written"
    /\ SettleDurableTurn(t)
    /\ Settle(steer[t].request, "steered")
    /\ steer' = [steer EXCEPT ![t] = NoSteer]
    /\ UNCHANGED <<transcript, drainVars, durableReady, promoting, agentSession,
                   suspendingForRestart, history>>

\* The provider declines.
SteerDeclined(t) ==
    /\ steer[t].stage = "delivering"
    /\ RestoreToQueue(steer[t].request, steer[t].index)
    /\ steer' = [steer EXCEPT ![t] = NoSteer]
    /\ UNCHANGED <<durableVars, durableReady, durableTurns, cancelledDurableTurns,
                   promoting, agentSession, suspendingForRestart, outcome, history>>

-----------------------------------------------------------------------------
DrainStep ==
    \/ AcceptTurn \/ DropTurn \/ RejectTurn
    \/ GateProceeds \/ GateSleeps \/ GateWakes \/ GateSkipped \/ GateAborted
    \/ LookUpUserMessage \/ AppendUserMessage \/ MarkDispatching \/ Send \/ FinishTurn \/ FailTurn

SteerStep(t) ==
    \/ SteerClaim(t) \/ SteerGivesUp(t)
    \/ ProviderAcceptsSteer(t) \/ SteerDeclined(t)
    \/ SteerLooksUp(t) \/ SteerAppends(t) \/ SteerSettles(t)

Next ==
    \/ \E r \in Requests : RunQuery(r) \/ PersistDurableTurn(r) \/ PersistFails(r)
    \/ DrainStep
    \/ \E t \in Turns : \/ CancelQueued(t) \/ PromoteQueued(t)
                        \/ SteerCapture(t) \/ SteerStep(t)
    \/ Abort
    \/ SuspendForRestart
    \/ Restart

\* Awaited work completes: a provider ends its turns and answers a steer, and a
\* sleep ends at a reset or its cap.  No restart is assumed.
Fairness ==
    /\ \A r \in Requests : WF_vars(PersistDurableTurn(r) \/ PersistFails(r))
    /\ WF_vars(DrainStep)
    /\ \A t \in Turns : WF_vars(SteerStep(t))

Spec == Init /\ [][Next]_vars /\ Fairness

-----------------------------------------------------------------------------
(* Properties *)

\* r's turn id reached the server once.
OnlyCopy(r) == \A q \in Requests : TurnOf[q] = TurnOf[r] => q = r

\* The user dismissed a request of turn t.
Dismissed(t) == \E r \in Requests :
    TurnOf[r] = t /\ (outcome[r] = "cancelled" \/ r \in stopped)

\* An accepted request that was not handed to a provider.
Unsent(r) ==
    /\ outcome[r] = "pending" /\ durableReady[r] = "yes"
    /\ ~(currentTurn = r /\ phase = "running")

\* A turn is handed to the provider at most once, over any number of restarts,
\* resends, cancellations and stops: markDurableTurnDispatching, the transcript
\* check of enqueuePendingSessionTurn and the discard at start-up together
\* prevent a replay.
SentOnce == \A t \in Turns : sent[t] <= 1

\* A prompt shows once in the transcript, although persistUserMessage waits
\* between its lookup and its insert, a steer writes the row too, and the process
\* can stop before or after either.  A steered copy of a resent turn is excepted:
\* steerQueued does not wait for its acceptance, and both copies can find no row.
ShownOnce == \A r \in Requests :
    OnlyCopy(r) \/ TurnOf[r] \notin steered => transcript[TurnOf[r]] <= 1

\* An accepted prompt that no provider has seen is in the database, so that a
\* restart finds it, until the user dismisses it, it is taken as steering, or a
\* copy of it fails.  It may be marked dispatching only when it is being sent.
AcceptedTurnIsStored == \A r \in Requests :
    LET t == TurnOf[r] IN
    Unsent(r) /\ ~Dismissed(t) /\ t \notin steered
        /\ (\A q \in Requests : TurnOf[q] = t => outcome[q] # "failed")
    => \/ pendingRows[t].state \in Recoverable
       \/ currentTurn = r /\ phase = "dispatching" /\ pendingRows[t].state = "dispatching"

\* The table keeps nothing that no request is waiting for: a leftover row would
\* run a prompt at the next start that was already answered or given up.
NoLeftoverRow == \A t \in Present :
    \/ suspendingForRestart \/ t \in steered
    \/ \E r \in Requests : TurnOf[r] = t /\ (outcome[r] = "pending" \/ ~OnlyCopy(r))

\* A request that Stop found, queued or running, is never sent afterwards, also
\* when its row was still being written (cancelledDurableTurns).
StoppedIsNeverSent == [][\A r \in stopped :
    OnlyCopy(r) => sent'[TurnOf[r]] = sent[TurnOf[r]]]_vars

\* persistDurableTurn refuses only what the user stopped and what was sent twice.
DroppedForCause == \A r \in Requests :
    outcome[r] = "dropped" => r \in stopped \/ ~OnlyCopy(r)

\* Promotions keep the queued rows of a session in one strict order, so that a
\* restart restores them in one way.
QueuedOrderIsStrict == \A t, u \in Turns :
    /\ t # u
    /\ pendingRows[t].state = "queued" /\ pendingRows[u].state = "queued"
    => pendingRows[t].position # pendingRows[u].position

\* Shutting down deletes no row of a turn that waits for its dispatch: neither
\* the drain that winds down nor a late error settles it.
SuspendDeletesNothing == [][\A t \in Turns :
    /\ suspendingForRestart
    /\ pendingRows[t].state \in Recoverable
    /\ t \notin steered /\ t \notin cancelledDurableTurns'
    => pendingRows'[t].state # "absent"]_vars

\* Every message accepted by runQuery is answered: its promise settles, or the
\* process it lived in is gone, or the manager is suspended for a restart, which
\* lets a waiting turn go without an answer.
EveryRequestSettles == \A r \in Requests :
    outcome[r] = "pending" ~> outcome[r] # "pending" \/ suspendingForRestart

(* Why SentOnce holds: the parts of an inductive invariant.                 *)

\* A pending request is in one place: the queue, the drain loop, or claimed.
QueueInv ==
    /\ IsInjective(turnQueue)
    /\ \A r \in ToSet(turnQueue) : outcome[r] = "pending" /\ r # currentTurn
    /\ \A t \in Turns : steer[t].stage \in Claimed =>
          /\ steer[t].request \in Requests /\ steer[t].index > 0
          /\ TurnOf[steer[t].request] = t
          /\ outcome[steer[t].request] = "pending"
          /\ steer[t].request # currentTurn
          /\ steer[t].request \notin ToSet(turnQueue)
    /\ IF phase = "idle" THEN currentTurn = None
       ELSE currentTurn \in Requests /\ outcome[currentTurn] = "pending"
    /\ \A r \in Requests : outcome[r] = "new" => durableReady[r] = "new"

\* The map agrees with the table, and a row that a restart would run belongs to
\* a turn that was never sent.
RowInv == \A t \in Turns :
    /\ pendingRows[t].state # "absent" =>
          /\ durableTurns[t] = pendingRows[t].state
          /\ pendingRows[t].request \in Requests
          /\ TurnOf[pendingRows[t].request] = t
    /\ sent[t] > 0 => transcript[t] > 0
    /\ pendingRows[t].state \in Recoverable => sent[t] = 0

\* What the drain loop has established when it reaches a phase.
PhaseInv ==
    /\ phase \notin {"idle", "accepting"} => durableReady[currentTurn] = "yes"
    /\ phase \in {"opening", "dispatching", "running"} => transcript[TurnOf[currentTurn]] > 0
    /\ phase = "dispatching" =>
          pendingRows[TurnOf[currentTurn]].state \in {"absent", "dispatching"}

\* While a request waits to be sent, no copy of it is accepted or can be.
NoRival(r) == \A q \in Requests :
    q # r /\ TurnOf[q] = TurnOf[r] /\ outcome[q] \in {"new", "pending"} =>
        /\ durableReady[q] # "yes"
        /\ durableReady[q] \in {"new", "persisting"} =>
              AlreadyKnown(TurnOf[q]) \/ CancelledMeanwhile(TurnOf[q])

RivalInv == \A r \in Requests : Unsent(r) => sent[TurnOf[r]] = 0 /\ NoRival(r)

Inv == TypeOK /\ QueueInv /\ RowInv /\ PhaseInv /\ RivalInv /\ SentOnce
=============================================================================
