------------------------------ MODULE Routines ------------------------------
(***************************************************************************)
(* Scheduled work: RoutineScheduler (server/routineScheduler.ts), the      *)
(* routines and routine_runs tables (db/routines.ts), the execution of one *)
(* run (server/sessionRunner.ts), and the recovery of the notifications a  *)
(* run owes its user (server/index.ts).                                    *)
(*                                                                         *)
(* Every SQLite transaction is a step of its own, so that the process can  *)
(* end between two of them.  Time is counted in arbitrary units.           *)
(***************************************************************************)
EXTENDS Naturals, Sequences, FiniteSets

CONSTANTS
    RoutineIds,
    Schedules,      \* the schedules a user may choose: sets of due times
    NoOverlap,      \* routines defined with no_overlap
    CatchUp,        \* catch_up_window_minutes
    Endings,        \* how a run may end, all of it or part
    RecoveryWindow, \* how long a finished run is still notified at start-up
    Horizon,        \* bound on the clock
    MaxRevision,    \* bound on edits of a routine
    MaxToggles,     \* bound on enabling and disabling
    MaxManual,      \* bound on Run now
    MaxRestarts,    \* bound on restarts
    MaxRefusals     \* bound on commits SQLite refuses for a notification

ASSUME SchedulesAssumption == Schedules \subseteq SUBSET (Nat \ {0}) /\ Schedules # {}
ASSUME NoOverlapAssumption == NoOverlap \subseteq RoutineIds
ASSUME TimeAssumption      == CatchUp \in Nat /\ RecoveryWindow \in Nat /\ Horizon \in Nat
ASSUME EndingsAssumption ==
    /\ "succeeded" \in Endings
    /\ Endings \subseteq {"succeeded", "failed", "delivery_error", "provider_unavailable"}
ASSUME BoundsAssumption ==
    /\ MaxRevision \in Nat /\ MaxToggles \in Nat /\ MaxManual \in Nat
    /\ MaxRestarts \in Nat /\ MaxRefusals \in Nat

VARIABLES
    now,       \* the clock
    \* --- SQLite ---
    routines,  \* routines, by id
    runs,      \* routine_runs, in the order of their insertion
    events,    \* push_notification_events of runs, by dedupe key
    recorded,  \* routine_run_notification_records
    \* --- RoutineScheduler: lost with the process ---
    active,    \* runs being executed
    pending,   \* claimed runs waiting for execute()
    execution, \* where execute() and runRoutineSession are, by run
    \* --- history, for the properties and the bounds only ---
    attention, \* routines whose user has a pause to answer
    toggles,
    restarts,
    refusals

processVars == <<active, pending, execution>>
history     == <<attention, toggles, restarts, refusals>>
vars == <<now, routines, runs, events, recorded, active, pending, execution,
          attention, toggles, restarts, refusals>>

NoTime == 0   \* next_run_at IS NULL

Live     == {"claimed", "running"}
Notified == {"succeeded", "action_required", "failed", "delivery_error",
             "provider_unavailable", "interrupted"}
Statuses == Live \cup Notified \cup {"missed", "skipped_overlap"}
Reasons  == {"routine_succeeded", "routine_action_required", "routine_failed",
             "routine_delivery_error", "routine_provider_unavailable"}
Routine == [enabled : BOOLEAN, archived : BOOLEAN, revision : Nat,
            schedule : Schedules, next : Nat]
Run == [routine : RoutineIds, revision : Nat, trigger : {"scheduled", "manual"},
        scheduledFor : Nat, claimedAt : Nat, finishedAt : Nat, status : Statuses]
Stages == {"none", "starting", "checked", "running", "returned", "finished", "reporting"}
Execution == [at : Stages, result : Statuses, actionRequired : BOOLEAN]
NoExecution == [at |-> "none", result |-> "claimed", actionRequired |-> FALSE]

TypeOK ==
    /\ now \in Nat \ {0}
    /\ routines \in [RoutineIds -> Routine]
    /\ runs \in Seq(Run)
    /\ events \subseteq [run : DOMAIN runs, reason : Reasons]
    /\ recorded \subseteq DOMAIN runs
    /\ active \subseteq DOMAIN runs
    /\ pending \in Seq(DOMAIN runs)
    /\ execution \in [DOMAIN runs -> Execution]
    /\ attention \subseteq RoutineIds
    /\ toggles \in 0..MaxToggles
    /\ restarts \in 0..MaxRestarts
    /\ refusals \in 0..MaxRefusals

-----------------------------------------------------------------------------
(* The tables *)

\* nextRoutineOccurrence: the first due time strictly after t.
IsNextOccurrence(schedule, t, n) ==
    IF \E o \in schedule : o > t
    THEN n \in schedule /\ n > t /\ \A o \in schedule : o > t => n <= o
    ELSE n = NoTime
BugNotAfter(schedule, t) == CHOOSE n \in schedule \cup {NoTime} :
    IF \E o \in schedule : o >= t
    THEN n \in schedule /\ n >= t /\ \A o \in schedule : o >= t => n <= o
    ELSE n = NoTime
NextOccurrence(schedule, t) ==
    CHOOSE n \in schedule \cup {NoTime} : IsNextOccurrence(schedule, t, n)

BugNextAtFromStart(schedule, enabled, t) ==
    IF enabled THEN NextOccurrence(schedule, 0) ELSE NoTime

\* nextAt: a definition saved at a due time is still due then.
NextAt(schedule, enabled, t) ==
    IF enabled THEN NextOccurrence(schedule, t - 1) ELSE NoTime

\* UNIQUE(routine_id, scheduled_for, trigger)
Taken(r, at, trigger) == \E i \in DOMAIN runs :
    runs[i].routine = r /\ runs[i].scheduledFor = at /\ runs[i].trigger = trigger

\* A row of routine_runs as insertClaim and the two other inserts write it.
NewRun(r, trigger, at, status) ==
    [routine |-> r, revision |-> routines[r].revision, trigger |-> trigger,
     scheduledFor |-> at, claimedAt |-> IF status \in Live THEN now ELSE NoTime,
     finishedAt |-> IF status \in Live THEN NoTime ELSE now, status |-> status]


\* What claimDueRoutineRuns selects.
Due == {r \in RoutineIds :
    /\ routines[r].enabled /\ ~routines[r].archived
    /\ routines[r].next # NoTime /\ routines[r].next <= now}

\* How it treats one of them: skipped while a run of it is live, missed when
\* the catch-up window has passed, claimed otherwise.
Verdict(r) ==
    IF r \in NoOverlap /\ \E i \in DOMAIN runs : runs[i].routine = r /\ runs[i].status \in Live
    THEN "skipped_overlap"
    ELSE IF now - routines[r].next > CatchUp THEN "missed"
    ELSE "claimed"

BugNotPaused(R) == R

\* pauseRoutine
Paused(R) == [R EXCEPT !.enabled = FALSE, !.next = NoTime]

-----------------------------------------------------------------------------
Init ==
    /\ now = 1
    /\ routines \in [RoutineIds -> {[enabled |-> e, archived |-> FALSE, revision |-> 1,
           schedule |-> s, next |-> NextAt(s, e, 1)] : e \in BOOLEAN, s \in Schedules}]
    /\ runs = <<>>
    /\ events = {}
    /\ recorded = {}
    /\ active = {}
    /\ pending = <<>>
    /\ execution = <<>>
    /\ attention = {}
    /\ toggles = 0
    /\ restarts = 0
    /\ refusals = 0

Advance ==
    /\ now < Horizon
    /\ now' = now + 1
    /\ UNCHANGED <<routines, runs, events, recorded, processVars, history>>

(* What the user does to a definition *)

UpdateRoutine(r) == \E s \in Schedules, e \in BOOLEAN :
    /\ routines[r].revision < MaxRevision
    /\ routines' = [routines EXCEPT ![r] = [@ EXCEPT
           !.schedule = s, !.enabled = e, !.revision = routines[r].revision + 1,
           !.next = NextAt(s, e, now)]]
    /\ attention' = attention \ {r}
    /\ UNCHANGED <<now, runs, events, recorded, processVars, toggles, restarts, refusals>>

SetRoutineEnabled(r) == \E e \in BOOLEAN :
    /\ toggles < MaxToggles
    /\ toggles' = toggles + 1
    /\ ~routines[r].archived
    /\ routines' = [routines EXCEPT ![r] = [@ EXCEPT
           !.enabled = e, !.next = NextAt(routines[r].schedule, e, now)]]
    /\ attention' = attention \ {r}
    /\ UNCHANGED <<now, runs, events, recorded, processVars, restarts, refusals>>

ArchiveRoutine(r) ==
    /\ routines' = [routines EXCEPT ![r] = [@ EXCEPT
           !.archived = TRUE, !.enabled = FALSE, !.next = NoTime]]
    /\ UNCHANGED <<now, runs, events, recorded, processVars, history>>

-----------------------------------------------------------------------------
(* The scheduler *)

BugUnlimited == TRUE

\* One run at a time: tick's capacity, and the check of runNow.
HasCapacity == active = {} /\ pending = <<>>

\* drain: with no run active, the first of queue starts, in the given stages.
Drain(running, queue, stages) ==
    IF running # {} \/ queue = <<>>
    THEN active' = running /\ pending' = queue /\ execution' = stages
    ELSE /\ active' = {Head(queue)}
         /\ pending' = Tail(queue)
         /\ execution' = [stages EXCEPT ![Head(queue)].at = "starting"]

\* A claimed run is pushed to pending, and drain takes it up.
ClaimAndDrain(run) ==
    /\ runs' = Append(runs, run)
    /\ Drain(active, Append(pending, Len(runs) + 1),
             Append(execution, NoExecution))

\* tick, when something is due: the oldest due routine is skipped, missed or
\* claimed.  An occurrence that has its row already is passed over.
Tick(r) ==
    LET at == routines[r].next
        next == NextOccurrence(routines[r].schedule, now) IN
    /\ HasCapacity
    /\ r \in Due
    /\ \A u \in Due : at <= routines[u].next
    /\ routines' = [routines EXCEPT ![r] = [@ EXCEPT
           !.next = next,
           !.enabled = IF Verdict(r) = "claimed" THEN next # NoTime ELSE routines[r].enabled]]
    /\ IF Taken(r, at, "scheduled")
       THEN UNCHANGED <<runs, processVars>>
       ELSE IF Verdict(r) = "claimed"
       THEN ClaimAndDrain(NewRun(r, "scheduled", at, "claimed"))
       ELSE /\ runs' = Append(runs, NewRun(r, "scheduled", at, Verdict(r)))
            /\ execution' = Append(execution, NoExecution)
            /\ UNCHANGED <<active, pending>>
    /\ UNCHANGED <<now, events, recorded, history>>

RunNow(r) ==
    /\ HasCapacity
    /\ ~routines[r].archived
    /\ ~Taken(r, now, "manual")
    /\ Cardinality({i \in DOMAIN runs : runs[i].trigger = "manual"}) < MaxManual
    /\ ClaimAndDrain(NewRun(r, "manual", now, "claimed"))
    /\ UNCHANGED <<now, routines, events, recorded, history>>

-----------------------------------------------------------------------------
(* One run: RoutineScheduler.execute and runRoutineSession *)

MoveTo(i, stage) == execution' = [execution EXCEPT ![i].at = stage]

ReturnWith(i, result) ==
    execution' = [execution EXCEPT ![i].at = "returned", ![i].result = result]

\* The definition may have changed since the claim.
CheckRevision(i) ==
    /\ execution[i].at = "starting"
    /\ IF routines[runs[i].routine].revision = runs[i].revision
       THEN MoveTo(i, "checked") ELSE ReturnWith(i, "failed")
    /\ UNCHANGED <<now, routines, runs, events, recorded, active, pending, history>>

\* The provider, its catalog, the attachments or the session pool refuse.
FailToStart(i) ==
    /\ execution[i].at = "checked"
    /\ \E result \in {"provider_unavailable", "failed"} \cap Endings : ReturnWith(i, result)
    /\ UNCHANGED <<now, routines, runs, events, recorded, active, pending, history>>

MarkRoutineRunRunning(i) ==
    /\ execution[i].at = "checked"
    /\ MoveTo(i, "running")
    /\ runs' = [runs EXCEPT ![i].status = IF @ = "claimed" THEN "running" ELSE @]
    /\ UNCHANGED <<now, routines, events, recorded, active, pending, history>>

\* onActionRequired: the run reached something outside its policy.
ActionRequired(i) ==
    /\ execution[i].at = "running"
    /\ ~execution[i].actionRequired
    /\ execution' = [execution EXCEPT ![i].actionRequired = TRUE]
    /\ routines' = [routines EXCEPT ![runs[i].routine] = Paused(@)]
    /\ attention' = attention \cup {runs[i].routine}
    /\ UNCHANGED <<now, runs, events, recorded, active, pending, toggles, restarts, refusals>>

\* runQuery settled, and with it the delegated children and the deliveries; a
\* turn that was stopped, or suspended, looks like one that succeeded.
RunReturns(i) ==
    /\ execution[i].at = "running"
    /\ \E result \in IF execution[i].actionRequired THEN {"action_required"}
                     ELSE {"succeeded", "failed", "delivery_error"} \cap Endings : ReturnWith(i, result)
    /\ UNCHANGED <<now, routines, runs, events, recorded, active, pending, history>>

FinishRoutineRun(i) ==
    /\ execution[i].at = "returned"
    /\ runs' = [runs EXCEPT ![i].status = execution[i].result, ![i].finishedAt = now]
    /\ MoveTo(i, "finished")
    /\ UNCHANGED <<now, routines, events, recorded, active, pending, history>>

\* The pause that belongs to the outcome.
PauseRoutine(i) ==
    LET pauses == execution[i].result \in {"action_required", "provider_unavailable"} IN
    /\ execution[i].at = "finished"
    /\ MoveTo(i, "reporting")
    /\ routines' = IF pauses THEN [routines EXCEPT ![runs[i].routine] = Paused(@)] ELSE routines
    /\ attention' = IF pauses THEN attention \cup {runs[i].routine} ELSE attention
    /\ UNCHANGED <<now, runs, events, recorded, active, pending, toggles, restarts, refusals>>

-----------------------------------------------------------------------------
(* Notifications *)

\* completionReason
CompletionReason(status) ==
    CASE status = "succeeded" -> "routine_succeeded"
      [] status = "action_required" -> "routine_action_required"
      [] status = "delivery_error" -> "routine_delivery_error"
      [] status = "provider_unavailable" -> "routine_provider_unavailable"
      [] OTHER -> "routine_failed"

BugRecoveredReason(status) ==
    IF status = "succeeded" THEN "routine_succeeded" ELSE "routine_failed"

\* The reason recoverRoutineNotifications derives from the stored row.
RecoveredReason(status) ==
    CASE status = "succeeded" -> "routine_succeeded"
      [] status = "action_required" -> "routine_action_required"
      [] status = "delivery_error" -> "routine_delivery_error"
      [] status = "provider_unavailable" -> "routine_provider_unavailable"
      [] OTHER -> "routine_failed"

\* enqueueRoutineNotification: the event, by its dedupe key, then the record of
\* it; either commit can be refused.
Enqueue(i, reason) ==
    \/ /\ events' = events \cup {[run |-> i, reason |-> reason]}
       /\ recorded' = recorded \cup {i}
       /\ UNCHANGED refusals
    \/ /\ refusals < MaxRefusals
       /\ refusals' = refusals + 1
       /\ \/ UNCHANGED events
          \/ events' = events \cup {[run |-> i, reason |-> reason]}
       /\ UNCHANGED recorded

\* onRunComplete; a failed callback is logged.  Then execute() ends, and drain
\* takes up the next run.
Report(i) ==
    /\ execution[i].at = "reporting"
    /\ Enqueue(i, CompletionReason(execution[i].result))
    /\ Drain(active \ {i}, pending, [execution EXCEPT ![i] = NoExecution])
    /\ UNCHANGED <<now, routines, runs, attention, toggles, restarts>>

BugInterruptedIsSilent(i) ==
    runs[i].status \in Notified \ {"interrupted"} /\ i \notin recorded

TooOld(i) == now - runs[i].finishedAt > RecoveryWindow

\* listRoutineRunsNeedingNotification
NeedsNotification(i) ==
    /\ runs[i].status \in Notified
    /\ i \notin recorded
    /\ ~TooOld(i)

\* recoverRoutineNotifications, at start-up and from its timer.
RecoverNotification(i) ==
    /\ NeedsNotification(i)
    /\ Enqueue(i, RecoveredReason(runs[i].status))
    /\ UNCHANGED <<now, routines, runs, processVars, attention, toggles, restarts>>

-----------------------------------------------------------------------------
BugInterruptAll(run) == [run EXCEPT !.status = "interrupted", !.finishedAt = now]
BugNotInterrupted(run) == run

\* interruptStaleRoutineRuns, for every lease.
Interrupted(run) ==
    IF run.status \in Live
    THEN [run EXCEPT !.status = "interrupted", !.finishedAt = now] ELSE run

\* The process ends at any point; the next one interrupts what it left.
Restart ==
    /\ restarts < MaxRestarts
    /\ restarts' = restarts + 1
    /\ runs' = [i \in DOMAIN runs |-> Interrupted(runs[i])]
    /\ active' = {}
    /\ pending' = <<>>
    /\ execution' = [i \in DOMAIN runs |-> NoExecution]
    /\ UNCHANGED <<now, routines, events, recorded, attention, toggles, refusals>>

\* No more rows than occurrences and manual runs.
MaxRuns == Cardinality(RoutineIds) * Horizon + MaxManual

RunStep(i) ==
    \/ CheckRevision(i) \/ FailToStart(i) \/ MarkRoutineRunRunning(i)
    \/ RunReturns(i) \/ FinishRoutineRun(i) \/ PauseRoutine(i) \/ Report(i)

Next ==
    \/ Advance
    \/ \E r \in RoutineIds : \/ UpdateRoutine(r) \/ SetRoutineEnabled(r)
                             \/ ArchiveRoutine(r) \/ Tick(r) \/ RunNow(r)
    \/ \E i \in DOMAIN runs : \/ RunStep(i) \/ ActionRequired(i)
                              \/ RecoverNotification(i)
    \/ Restart

\* The poll timer keeps calling tick, what a run waits for comes to an end, and
\* SQLite does not refuse the recovery of a notification for ever.
Fairness ==
    /\ WF_vars(\E r \in RoutineIds : Tick(r))
    /\ WF_vars(\E i \in DOMAIN runs : RunStep(i))
    /\ \A i \in 1..MaxRuns : WF_vars(i \in DOMAIN runs /\ RecoverNotification(i))

Spec == Init /\ [][Next]_vars /\ Fairness

-----------------------------------------------------------------------------
(* Properties *)

\* The schedule of a routine only goes forward: an occurrence is claimed, missed
\* or skipped once, and none from before it follows, whatever schedules were
\* saved, switched off and on again, or passed over by a restart meanwhile, also
\* when a definition saved at a due time is due again at once (nextAt).
OccurrencesInOrder == \A i, j \in DOMAIN runs :
    /\ i < j
    /\ runs[i].trigger = "scheduled" /\ runs[j].trigger = "scheduled"
    /\ runs[i].routine = runs[j].routine
    => runs[i].scheduledFor < runs[j].scheduledFor

\* Unattended work runs one at a time: whatever tick and runNow claim, no second
\* row is live.
OneLiveRun == \A i, j \in DOMAIN runs :
    runs[i].status \in Live /\ runs[j].status \in Live => i = j

\* A live row is in the hands of this process: a row that the previous one left
\* live would make every later occurrence of its routine an overlap.
LiveRunHasExecutor == \A i \in DOMAIN runs :
    runs[i].status \in Live => i \in active /\ execution[i].at # "none"

\* The outcome of a run never changes: finishRoutineRun updates its row without
\* a condition, so an interrupted run must have nobody left to finish it.
OutcomeIsFinal == [][\A i \in DOMAIN runs :
    runs[i].status \notin Live => runs'[i] = runs[i]]_vars

\* A run produces one notification, although the running scheduler, a later
\* start and the recovery timer may each enqueue it, after any partial failure.
NotifiedOnce == \A d, e \in events : d.run = e.run => d = e

\* A run that needed approval, or found its provider unavailable, leaves its
\* routine paused until the user answers by saving or enabling it.
PausedUntilAnswered == \A r \in attention : ~routines[r].enabled

\* An archived routine is never claimed by the schedule, also after an edit that
\* was already open saves it as enabled.
ArchivedIsNeverScheduled == [][\A r \in RoutineIds :
    routines[r].archived => \A i \in DOMAIN runs' \ DOMAIN runs :
        runs'[i].trigger = "scheduled" => runs'[i].routine # r]_vars

\* No routine gets stuck: what is due is claimed, missed or skipped, unless the
\* user changes it.
DueIsHandled == \A r \in RoutineIds : \A t \in 1..Horizon :
    r \in Due /\ routines[r].next = t ~> ~(r \in Due /\ routines[r].next = t)

\* Every claimed run ends, and the user is told of its end, unless it ended
\* longer ago than the recovery looks back.
EveryRunIsReported == \A i \in 1..MaxRuns :
    i \in DOMAIN runs /\ runs[i].status \in Live ~>
        \/ i \in recorded
        \/ i \in DOMAIN runs /\ runs[i].status \in Notified /\ TooOld(i)
=============================================================================
