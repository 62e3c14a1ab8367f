----------------------------- MODULE UsageGate ------------------------------
(***************************************************************************)
(* Auto-sleep (server/usageGate.ts) of the chats of one provider, with     *)
(* what a chat does around it: SessionManager.gateOnUsage and              *)
(* handleRateLimit (server/session.ts), the sleeping rows of               *)
(* session_pending_turns, and their restoration after a restart.           *)
(*                                                                         *)
(* The unit of time is the longest interval for which a sleeping chat      *)
(* waits before it looks at the clock again (60 s).                        *)
(***************************************************************************)
EXTENDS Naturals

CONSTANTS
    Sessions,
    Windows,          \* the usage windows this provider reports
    MaxSleep,         \* max_sleep_minutes
    ResumeBuffer,     \* resume_buffer_seconds
    RecheckInterval,  \* NULL_RESET_RECHECK_SECONDS
    SkipFallback,     \* SKIP_FALLBACK_SECONDS
    Events,           \* rate limit events a provider may send
    Readings,         \* usage readings it may report
    MaxTime,          \* bound on the clock
    MaxSignals        \* bound on the readings and limits reported, uses of
                      \* Resume now and restarts, taken together

\* The lower rank is preferred.
Rank == [spend_control |-> 1, five_hour |-> 2, weekly |-> 3]
SleepWindows == {"spend_control", "five_hour", "weekly"}

ASSUME WindowsAssumption == Windows \subseteq SleepWindows
ASSUME SettingsAssumption ==
    /\ MaxSleep \in Nat \ {0} /\ ResumeBuffer \in Nat
    /\ RecheckInterval \in Nat \ {0} /\ SkipFallback \in Nat \ {0}
ASSUME EventsAssumption ==
    \A e \in Events : /\ e.window \in Windows \cup {"none"} /\ e.rejected \in BOOLEAN
                      /\ e.level \in {"none", "low", "high"} /\ e.resetsAt \in Nat
ASSUME ReadingsAssumption ==
    \A r \in Readings : /\ r.window \in Windows
                        /\ r.level \in {"low", "high"} /\ r.resetsAt \in Nat
ASSUME BoundsAssumption ==
    MaxTime \in Nat /\ MaxSignals \in Nat

VARIABLES
    now,         \* the clock
    usage,       \* hardLimits, skipUntil and the window marks, by window
    gate,        \* the call of sleepUntilAllowed of each chat
    woken,       \* chats whose waker was called and that have not run since
    sleepState,  \* the window a chat's banner names
    rows,        \* SQLite: the chat's row of session_pending_turns
    unrestored,  \* chats whose row the new process has not restored yet
    \* --- history, for the properties and the bounds only ---
    promised,    \* the deadline of the turn's sleep when it was first stored
    released,    \* chats whose stored turn was released by Resume now
    resumedTo,   \* until when the last Resume now suppresses sleep, by window
    signals

history == <<promised, released, resumedTo, signals>>
vars == <<now, usage, gate, woken, sleepState, rows, unrestored,
          promised, released, resumedTo, signals>>

Unknown == 0       \* null, for a time
None    == "none"  \* null, for a window

NoLimit == [resetsAt |-> Unknown, reportedAt |-> Unknown]
NoMark  == [level |-> None, resetsAt |-> Unknown]
NoGate  == [at |-> "idle", cap |-> Unknown, window |-> None, reason |-> None,
            until |-> Unknown, checked |-> Unknown, skipped |-> FALSE]
NoRow   == [state |-> None, window |-> None, reason |-> None, target |-> Unknown,
            cap |-> Unknown, createdAt |-> Unknown]

Reasons == {"threshold", "limit_reached", None}
\* A utilization reading matters by which side of the threshold it is on.
Levels == {None, "low", "high"}
Usage == [limit : [resetsAt : Nat, reportedAt : Nat], skip : Nat,
          mark : [level : Levels, resetsAt : Nat]]
Gate  == [at : {"idle", "ready", "waiting", "passed", "running"}, cap : Nat,
          window : SleepWindows \cup {None}, reason : Reasons, until : Nat,
          checked : Nat, skipped : BOOLEAN]
Row   == [state : {None, "queued", "sleeping"}, window : SleepWindows \cup {None},
          reason : Reasons, target : Nat, cap : Nat, createdAt : Nat]

TypeOK ==
    /\ now \in Nat \ {0}
    /\ usage \in [Windows -> Usage]
    /\ gate \in [Sessions -> Gate]
    /\ woken \subseteq Sessions
    /\ sleepState \in [Sessions -> Windows \cup {None}]
    /\ rows \in [Sessions -> Row]
    /\ unrestored \subseteq Sessions
    /\ promised \in [Sessions -> Nat]
    /\ released \subseteq Sessions
    /\ resumedTo \in [Windows -> Nat]
    /\ signals \in 0..MaxSignals

-----------------------------------------------------------------------------
(* The decision, as a function of the usage u of all windows at time t *)

Lesser(a, b) == IF a <= b THEN a ELSE b
Greater(a, b) == IF a >= b THEN a ELSE b

HasLimit(u, w)     == u[w].limit.reportedAt # Unknown
LimitHolds(u, w, t) == HasLimit(u, w) /\ (u[w].limit.resetsAt = Unknown \/ u[w].limit.resetsAt > t)

\* Only a spend window needs a high reading and a reset to count as active.
MarkHolds(u, w, t, spendLevels) ==
    IF w = "spend_control"
    THEN u[w].mark.level \in spendLevels /\ u[w].mark.resetsAt > t
    ELSE u[w].mark.level # None /\ (u[w].mark.resetsAt = Unknown \/ u[w].mark.resetsAt > t)

activeWindows(u, t, spendLevels) ==
    {w \in Windows : LimitHolds(u, w, t) \/ MarkHolds(u, w, t, spendLevels)}

selectedWindow(u, t, spendLevels) ==
    LET active == activeWindows(u, t, spendLevels)
    IN  IF active = {} THEN None
        ELSE CHOOSE w \in active : \A v \in active : Rank[w] <= Rank[v]

\* Expired limits of the windows looked at, up to the selected one, are deleted.
Refreshed(u, t, spendLevels) == [w \in Windows |->
    IF /\ HasLimit(u, w) /\ ~LimitHolds(u, w, t)
       /\ \A v \in activeWindows(u, t, spendLevels) : Rank[w] <= Rank[v]
    THEN [u[w] EXCEPT !.limit = NoLimit] ELSE u[w]]

SkipHolds(u, w, t) == u[w].skip > t

BugRestartsWithNow(u, w) == now + MaxSleep

\* A limit without a reset gives up MaxSleep after it was reported.
CapEnd(u, w) == u[w].limit.reportedAt + MaxSleep
GivesUp(u, w, t) == /\ HasLimit(u, w) /\ u[w].limit.resetsAt = Unknown
                    /\ t >= CapEnd(u, w)

Proceed == [window |-> None, reason |-> None, until |-> Unknown,
            capApplied |-> FALSE, target |-> Unknown]

UntilReset(w, reason, resetsAt, t) ==
    LET target == resetsAt + ResumeBuffer  cap == t + MaxSleep
    IN  [window |-> w, reason |-> reason, until |-> Lesser(target, cap),
         capApplied |-> cap < target, target |-> target]

UntilRecheck(u, w, t) ==
    [window |-> w, reason |-> "limit_reached",
     until |-> Lesser(t + RecheckInterval, CapEnd(u, w)),
     capApplied |-> CapEnd(u, w) <= t + RecheckInterval, target |-> Unknown]

evaluateSleep(u, t) ==
    LET w == selectedWindow(u, t, {"high"})
    IN  IF w = None THEN Proceed
        ELSE IF SkipHolds(u, w, t) \/ GivesUp(u, w, t) THEN Proceed
        ELSE IF LimitHolds(u, w, t)
             THEN IF u[w].limit.resetsAt = Unknown THEN UntilRecheck(u, w, t)
                  ELSE UntilReset(w, "limit_reached", u[w].limit.resetsAt, t)
        ELSE IF u[w].mark.level = "high" /\ u[w].mark.resetsAt > t
             THEN UntilReset(w, "threshold", u[w].mark.resetsAt, t)
        ELSE Proceed

\* What an evaluation leaves behind in the maps.
Evaluated(u, t) ==
    LET w == selectedWindow(u, t, {"high"})
        r == Refreshed(u, t, {"high"})
    IN  IF w = None \/ SkipHolds(u, w, t) THEN r
        ELSE IF GivesUp(u, w, t)
             THEN [r EXCEPT ![w].limit = NoLimit, ![w].skip = t + SkipFallback]
             ELSE [r EXCEPT ![w].skip = Unknown]

-----------------------------------------------------------------------------
(* Signals of the provider *)

Quiet == woken = {}   \* woken chats run before anything else does
Early == now + MaxSleep <= MaxTime   \* bound: a cap that starts now is reached
HasRow(s) == rows[s].state # None

\* The window an event is about; a rejection without one counts as five_hour
\* when its reset is near.
SignalWindow(e) ==
    IF e.window # None THEN e.window
    ELSE IF e.rejected /\ e.resetsAt > now /\ e.resetsAt - now <= MaxSleep THEN "five_hour"
    ELSE None

reportRateLimitSignal(u, e) ==
    LET w == SignalWindow(e)
    IN  IF w \notin Windows THEN u
        ELSE [u EXCEPT ![w].limit = IF e.rejected
              THEN [resetsAt |-> e.resetsAt, reportedAt |-> now] ELSE NoLimit]

updateWindowMark(u, e) ==
    IF e.window = None \/ e.level = None THEN u
    ELSE [u EXCEPT ![e.window].mark = [level |-> e.level, resetsAt |-> e.resetsAt]]

\* handleRateLimit of a chat whose turn is at the provider.
HandleRateLimit(s, e) ==
    /\ Quiet /\ signals < MaxSignals
    /\ gate[s].at \in {"ready", "waiting", "running"} /\ ~HasRow(s)
    /\ e.resetsAt = Unknown => Early
    /\ LET u == updateWindowMark(reportRateLimitSignal(usage, e), e)
       IN  /\ usage' = Evaluated(u, now)
           /\ sleepState' = [sleepState EXCEPT ![s] = evaluateSleep(u, now).window]
    /\ signals' = signals + 1
    /\ UNCHANGED <<now, gate, woken, rows, unrestored, promised, released, resumedTo>>

\* applyReading: usage polled from the provider or read off its proxy.
ApplyReading(r) ==
    /\ Quiet /\ signals < MaxSignals
    /\ usage' = updateWindowMark(usage, r)
    /\ signals' = signals + 1
    /\ UNCHANGED <<now, gate, woken, sleepState, rows, unrestored, promised, released,
                   resumedTo>>

\* reconcileSleepState after usage was polled: the banner follows the decision.
RefreshProviderUsage(s) ==
    /\ Quiet /\ gate[s].at \in {"ready", "waiting", "running"} /\ ~HasRow(s)
    /\ usage' = Evaluated(usage, now)
    /\ sleepState' = [sleepState EXCEPT ![s] = evaluateSleep(usage, now).window]
    /\ UNCHANGED <<now, gate, woken, rows, unrestored, history>>

-----------------------------------------------------------------------------
(* One chat: a turn, its gate before dispatch, the gates of its tools *)

\* A prompt is accepted and its row written.
NewTurn(s) ==
    /\ Quiet /\ Early /\ gate[s].at = "idle" /\ ~HasRow(s)
    /\ rows' = [rows EXCEPT ![s] = [NoRow EXCEPT !.state = "queued", !.createdAt = now]]
    /\ gate' = [gate EXCEPT ![s] = [NoGate EXCEPT !.at = "ready"]]
    /\ UNCHANGED <<now, usage, woken, sleepState, unrestored, history>>

\* The row is marked dispatching and the turn sent: from here on a restart
\* discards it.
Dispatch(s) ==
    /\ Quiet /\ gate[s].at = "passed"
    /\ gate' = [gate EXCEPT ![s] = [NoGate EXCEPT !.at = "running"]]
    /\ rows' = [rows EXCEPT ![s] = NoRow]
    /\ promised' = [promised EXCEPT ![s] = Unknown]
    /\ released' = released \ {s}
    /\ UNCHANGED <<now, usage, woken, sleepState, unrestored, resumedTo, signals>>

\* A tool call of the turn goes through the gate too, without a row.
ToolGate(s) ==
    /\ Quiet /\ gate[s].at = "running"
    /\ gate' = [gate EXCEPT ![s] = [NoGate EXCEPT !.at = "ready"]]
    /\ promised' = [promised EXCEPT ![s] = Unknown]
    /\ UNCHANGED <<now, usage, woken, sleepState, rows, unrestored, released, resumedTo,
                   signals>>

\* The turn ends, by itself or by a Stop at any await of the gate.
EndTurn(s) ==
    /\ Quiet /\ gate[s].at # "idle"
    /\ gate' = [gate EXCEPT ![s] = NoGate]
    /\ sleepState' = [sleepState EXCEPT ![s] = None]
    /\ rows' = [rows EXCEPT ![s] = NoRow]
    /\ promised' = [promised EXCEPT ![s] = Unknown]
    /\ released' = released \ {s}
    /\ UNCHANGED <<now, usage, woken, unrestored, resumedTo, signals>>

-----------------------------------------------------------------------------
(* One pass of the loop of sleepUntilAllowed *)

Due(s) == IF Quiet
          THEN \/ gate[s].at = "ready"
               \/ gate[s].at = "waiting" /\ now > gate[s].checked
          ELSE s \in woken

BugSlidingCap(s, d) == IF d.capApplied THEN d.until ELSE gate[s].cap

\* The deadline of this call: the first capped decision sets it.
Anchored(s, d) == IF gate[s].cap = Unknown /\ d.capApplied THEN d.until ELSE gate[s].cap

CapReached(s, d) == Anchored(s, d) # Unknown /\ now >= Anchored(s, d)

Skipped(s) == gate[s].at = "waiting" /\ (gate[s].skipped \/ s \in woken)

BugCapOnlyInMemory(s, skipped) == rows[s].cap

\* gateOnUsage's onWake("skipped") stores an expired cap with the turn.
StoredCap(s, skipped) ==
    IF skipped /\ rows[s].state = "sleeping" THEN now ELSE rows[s].cap

\* The gate lets the chat by.
Pass(s, skipped) ==
    /\ gate' = [gate EXCEPT ![s] =
                  [NoGate EXCEPT !.at = IF HasRow(s) THEN "passed" ELSE "running"]]
    /\ rows' = [rows EXCEPT ![s].cap = StoredCap(s, skipped)]
    /\ sleepState' = [sleepState EXCEPT ![s] =
                        IF gate[s].at = "waiting" THEN None ELSE @]

GateOpens(s) ==
    /\ Due(s) /\ evaluateSleep(usage, now) = Proceed
    /\ Pass(s, Skipped(s))
    /\ released' = IF Skipped(s) /\ rows[s].state = "sleeping"
                   THEN released \cup {s} ELSE released
    /\ usage' = Evaluated(usage, now)
    /\ woken' = woken \ {s}
    /\ UNCHANGED <<now, unrestored, promised, resumedTo, signals>>

\* The cap has been slept through: sleep is suppressed until the reset.
CapExpires(s) == Due(s) /\ \E d \in {evaluateSleep(usage, now)} :
    /\ d # Proceed /\ CapReached(s, d)
    /\ Pass(s, FALSE)
    /\ usage' = [Evaluated(usage, now) EXCEPT ![d.window].skip =
                   IF d.target = Unknown THEN now + SkipFallback ELSE d.target]
    /\ woken' = woken \ {s}
    /\ UNCHANGED <<now, unrestored, history>>

\* onSleep: the row remembers the decision, and the first capped deadline.
SleepingRow(s, d, until, capped) ==
    [rows[s] EXCEPT !.state = "sleeping", !.window = d.window, !.reason = d.reason,
                    !.target = d.target,
                    !.cap = IF capped /\ @ = Unknown THEN until ELSE @]

FallAsleep(s) == Due(s) /\ \E d \in {evaluateSleep(usage, now)} :
    LET cap == Anchored(s, d)
        early == cap # Unknown /\ cap < d.until
        until == IF early THEN cap ELSE d.until
        emitted == /\ gate[s].window = d.window /\ gate[s].reason = d.reason
                   /\ gate[s].until = until
        row == IF emitted \/ ~HasRow(s) THEN rows[s]
               ELSE SleepingRow(s, d, until, early \/ d.capApplied)
    IN  /\ d # Proceed /\ ~CapReached(s, d)
        /\ gate' = [gate EXCEPT ![s] =
              [at |-> "waiting", cap |-> cap, window |-> d.window, reason |-> d.reason,
               until |-> until, checked |-> now, skipped |-> Skipped(s)]]
        /\ rows' = [rows EXCEPT ![s] = row]
        /\ sleepState' = [sleepState EXCEPT ![s] = IF emitted THEN @ ELSE d.window]
        /\ usage' = Evaluated(usage, now)
        /\ woken' = woken \ {s}
        /\ promised' = [promised EXCEPT ![s] =
              IF @ = Unknown /\ (HasRow(s) => row.cap # Unknown) THEN cap ELSE @]
        /\ UNCHANGED <<now, unrestored, released, resumedTo, signals>>

-----------------------------------------------------------------------------
(* Resume now *)

Sleeping == {s \in Sessions : gate[s].at = "waiting"}

KnownReset(u, w) ==
    IF HasLimit(u, w) /\ u[w].limit.resetsAt # Unknown
    THEN u[w].limit.resetsAt ELSE u[w].mark.resetsAt

BugWakeOwn(s) == Sleeping \cap {s}
WakersCalled(s) == Sleeping

\* SessionManager.skipSleep and skipSleep: the window of the chat's own banner,
\* or the one that gates now.
SkipSleep(s) ==
    /\ Quiet /\ signals < MaxSignals
    /\ LET shown == sleepState[s]
           u == IF shown # None THEN usage ELSE Refreshed(usage, now, Levels \ {None})
           w == IF shown # None THEN shown ELSE selectedWindow(usage, now, Levels \ {None})
           skip == IF w # None /\ KnownReset(u, w) > now
                   THEN KnownReset(u, w) ELSE now + SkipFallback
       IN  IF w = None THEN usage' = u /\ UNCHANGED resumedTo
           ELSE /\ usage' = [u EXCEPT ![w].skip = skip]
                /\ resumedTo' = [resumedTo EXCEPT ![w] = skip]
    /\ woken' = WakersCalled(s)
    /\ sleepState' = [sleepState EXCEPT ![s] = None]
    /\ signals' = signals + 1
    /\ UNCHANGED <<now, gate, rows, unrestored, promised, released>>

-----------------------------------------------------------------------------
(* Restart *)

\* seedWindowMarks: readings that reached the settings table and have not reset.
SeededMark(w, seeded) ==
    IF w \in seeded /\ (usage[w].mark.resetsAt = Unknown \/ usage[w].mark.resetsAt >= now)
    THEN usage[w].mark ELSE NoMark

Restart ==
    /\ signals < MaxSignals
    /\ \E seeded \in SUBSET Windows :
         usage' = [w \in Windows |-> [limit |-> NoLimit, skip |-> Unknown,
                                      mark |-> SeededMark(w, seeded)]]
    /\ gate' = [s \in Sessions |-> NoGate]
    /\ woken' = {}
    /\ sleepState' = [s \in Sessions |-> None]
    /\ unrestored' = {s \in Sessions : HasRow(s)}
    /\ promised' = [s \in Sessions |-> IF HasRow(s) THEN promised[s] ELSE Unknown]
    /\ resumedTo' = [w \in Windows |-> Unknown]
    /\ signals' = signals + 1
    /\ UNCHANGED <<now, rows, released>>

\* restoreSleepDecision: a reading of this process outranks what the row says.
restoreSleepDecision(u, row) ==
    LET w == row.window
        resetsAt == IF row.target = Unknown THEN Unknown
                    ELSE Greater(row.createdAt + 1, row.target - ResumeBuffer)
        existing == u[w].mark
    IN  IF row.reason = "threshold"
        THEN IF existing # NoMark \/ row.target = Unknown THEN u
             ELSE [u EXCEPT ![w].mark = [level |-> "high", resetsAt |-> resetsAt]]
        ELSE IF /\ existing.resetsAt # Unknown /\ resetsAt # Unknown
                /\ existing.resetsAt # resetsAt
             THEN u
             ELSE [u EXCEPT ![w].limit = [resetsAt |-> resetsAt, reportedAt |-> row.createdAt]]

\* The pool restores the chats one after the other.
RestoreDurableTurns(s) ==
    /\ Quiet /\ s \in unrestored
    /\ usage' = IF rows[s].state = "sleeping" THEN restoreSleepDecision(usage, rows[s])
                ELSE usage
    /\ gate' = [gate EXCEPT ![s] = [NoGate EXCEPT !.at = "ready", !.cap = rows[s].cap]]
    /\ unrestored' = unrestored \ {s}
    /\ UNCHANGED <<now, woken, sleepState, rows, history>>

-----------------------------------------------------------------------------
Advance ==
    /\ Quiet /\ now < MaxTime
    /\ now' = now + 1
    /\ UNCHANGED <<usage, gate, woken, sleepState, rows, unrestored, history>>

Init ==
    /\ now = 1
    /\ usage = [w \in Windows |-> [limit |-> NoLimit, skip |-> Unknown, mark |-> NoMark]]
    /\ gate = [s \in Sessions |-> NoGate]
    /\ woken = {}
    /\ sleepState = [s \in Sessions |-> None]
    /\ rows = [s \in Sessions |-> NoRow]
    /\ unrestored = {}
    /\ promised = [s \in Sessions |-> Unknown]
    /\ released = {}
    /\ resumedTo = [w \in Windows |-> Unknown]
    /\ signals = 0

OnePass(s)  == GateOpens(s) \/ CapExpires(s) \/ FallAsleep(s)
Progress(s) == OnePass(s) \/ Dispatch(s) \/ RestoreDurableTurns(s)

Next ==
    \/ Advance
    \/ \E s \in Sessions, e \in Events : HandleRateLimit(s, e)
    \/ \E r \in Readings : ApplyReading(r)
    \/ Restart
    \/ \E s \in Sessions :
         \/ NewTurn(s) \/ Dispatch(s) \/ ToolGate(s) \/ EndTurn(s)
         \/ OnePass(s)
         \/ RefreshProviderUsage(s)
         \/ SkipSleep(s)
         \/ RestoreDurableTurns(s)

\* The clock runs, timers fire, a turn that has passed the gate is dispatched,
\* and the start of a process restores what it found: WF_vars(Advance) and
\* WF_vars(Progress(s)), where CanProgress(s) is what enables Progress(s).
CanProgress(s) == \/ Due(s)
                  \/ Quiet /\ gate[s].at = "passed"
                  \/ Quiet /\ s \in unrestored

Fairness ==
    /\ WF_vars(Advance)
    /\ \A s \in Sessions : []<>~CanProgress(s) \/ []<><<Progress(s)>>_vars

Spec == Init /\ [][Next]_vars /\ Fairness

-----------------------------------------------------------------------------
(* Properties *)

\* A capped sleep ends at the deadline it had when the turn's row first stored
\* one (at once, for a tool call): later readings, other windows, Resume now and
\* restarts do not put it off (usageGate.ts, capDeadline; cap_deadline).
CapHolds == \A s \in Sessions :
    gate[s].at = "waiting" /\ promised[s] # Unknown => gate[s].until <= promised[s]

\* Resume now releases every chat of the provider that sleeps on the window,
\* and none falls asleep on it again until the window resets (skipSleep).
ResumeHolds == \A s \in Sessions \ woken :
    gate[s].at = "waiting" => gate[s].checked >= resumedTo[gate[s].window]

\* A stored turn that Resume now released does not sleep again, in this
\* process or in the one that restores it (gateOnUsage, onWake).
ResumeSurvives == \A s \in released : gate[s].at # "waiting"

\* A turn that was accepted, or whose tool call is at the gate, gets by or
\* ends: no wait is forgotten, whatever expires, wakes or restarts.
EveryTurnGetsBy == \A s \in Sessions :
    (HasRow(s) \/ gate[s].at \in {"ready", "waiting"})
        ~> ~(HasRow(s) \/ gate[s].at \in {"ready", "waiting"})

-----------------------------------------------------------------------------
(* The invariant the proofs use *)

\* The row and the call know the promised deadline, or a cap that has expired.
CapInv == \A s \in Sessions :
    /\ HasRow(s) => IF promised[s] = Unknown THEN rows[s].cap <= now
                    ELSE /\ rows[s].cap # Unknown
                         /\ rows[s].cap <= promised[s] \/ rows[s].cap <= now
    /\ gate[s].at \in {"ready", "waiting"} /\ promised[s] # Unknown =>
         /\ gate[s].cap # Unknown
         /\ gate[s].cap <= promised[s] \/ gate[s].cap <= now
    /\ gate[s].at = "running" => ~HasRow(s)
    /\ gate[s].at = "idle" /\ ~HasRow(s) => promised[s] = Unknown

\* What a Resume now suppresses is suppressed until that time has come.
ResumeInv == \A w \in Windows : resumedTo[w] <= usage[w].skip \/ resumedTo[w] <= now

\* A released turn carries an expired cap wherever it is.
ReleaseInv == \A s \in released :
    /\ HasRow(s) /\ rows[s].cap # Unknown /\ rows[s].cap <= now
    /\ gate[s].at \in {"idle", "ready", "passed"}
    /\ gate[s].at = "ready" => gate[s].cap # Unknown /\ gate[s].cap <= now

\* Between a restart and its restoration a row has no call.
RestoreInv == \A s \in unrestored : HasRow(s) /\ gate[s].at = "idle"

SleeperInv ==
    /\ \A s \in Sessions : gate[s].at = "waiting" => gate[s].window \in Windows
    /\ \A s \in woken : gate[s].at = "waiting"

Inv == /\ TypeOK /\ CapInv /\ CapHolds /\ ResumeInv /\ ResumeHolds /\ ReleaseInv
       /\ SleeperInv /\ RestoreInv
=============================================================================
