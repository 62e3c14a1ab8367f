-------------------------- MODULE UsageGateProofs ---------------------------
(***************************************************************************)
(* Proofs about UsageGate, for any number of chats, any windows, settings  *)
(* and signals.                                                            *)
(***************************************************************************)
EXTENDS UsageGate, TLAPS

\* What an evaluation may return: no sleep, or a sleep in a window in which
\* sleep is not suppressed, until some time.
Decision == [window : SleepWindows \cup {None}, reason : Reasons, until : Nat,
             capApplied : BOOLEAN, target : Nat]

LEMMA UsageTypes == \A u \in [Windows -> Usage], w \in Windows :
    /\ u[w] \in Usage
    /\ u[w].limit \in [resetsAt : Nat, reportedAt : Nat] /\ u[w].skip \in Nat
    /\ u[w].mark \in [level : Levels, resetsAt : Nat]
    /\ u[w].limit.resetsAt \in Nat /\ u[w].limit.reportedAt \in Nat
    /\ u[w].mark.level \in Levels /\ u[w].mark.resetsAt \in Nat
BY DEF Usage

\* The preferred of the active windows exists: there are three at most.
LEMMA SelectedIsAWindow ==
    ASSUME NEW u, NEW t, NEW levels
    PROVE  selectedWindow(u, t, levels) \in Windows \cup {None}
<1> DEFINE active == activeWindows(u, t, levels)
<1>1. CASE active = {}
  BY <1>1 DEF selectedWindow
<1>2. CASE active # {}
  <2>1. active \subseteq SleepWindows /\ active \subseteq Windows
    BY WindowsAssumption DEF activeWindows
  <2>2. \E w \in active : \A v \in active : Rank[w] <= Rank[v]
    <3> HIDE DEF active
    <3>1. CASE "spend_control" \in active
      BY <2>1, <3>1 DEF SleepWindows, Rank
    <3>2. CASE "spend_control" \notin active /\ "five_hour" \in active
      BY <2>1, <3>2 DEF SleepWindows, Rank
    <3>3. CASE active = {"weekly"}
      BY <3>3 DEF Rank
    <3> QED
      BY <1>2, <2>1, <3>1, <3>2, <3>3 DEF SleepWindows
  <2> QED
    BY <1>2, <2>1, <2>2 DEF selectedWindow
<1> QED
  BY <1>1, <1>2

LEMMA NoneIsNoWindow == None \notin SleepWindows
BY DEF None, SleepWindows

\* evaluateSleep and what it leaves behind.
LEMMA EvaluateFacts ==
    ASSUME NEW u \in [Windows -> Usage], NEW t \in Nat \ {0}
    PROVE  LET d == evaluateSleep(u, t) IN
           /\ d \in Decision /\ d.window \in Windows \cup {None}
           /\ d # Proceed => /\ d.window \in Windows /\ d.until > 0
                             /\ u[d.window].skip <= t
           /\ Evaluated(u, t) \in [Windows -> Usage]
           /\ \A w \in Windows : Evaluated(u, t)[w].skip = u[w].skip \/ u[w].skip <= t
<1> DEFINE w == selectedWindow(u, t, {"high"})
           r == Refreshed(u, t, {"high"})
<1>1. w \in Windows \cup {None}
  BY SelectedIsAWindow
<1>2. None \notin Windows
  BY NoneIsNoWindow, WindowsAssumption
<1>3. /\ r \in [Windows -> Usage]
      /\ \A v \in Windows : r[v].skip = u[v].skip
  BY UsageTypes DEF Refreshed, Usage, NoLimit, Unknown
<1>4. Proceed \in Decision /\ Proceed.window = None
  BY DEF Proceed, Decision, Reasons, Unknown, None
<1>5. CASE w = None
  <2>1. evaluateSleep(u, t) = Proceed /\ Evaluated(u, t) = r
    BY <1>5 DEF evaluateSleep, Evaluated
  <2> QED
    BY <1>3, <1>4, <2>1
<1>6. CASE w \in Windows
  <2> HIDE DEF w, r
  <2>1. w # None /\ w \in SleepWindows
    BY <1>2, <1>6, WindowsAssumption
  <2>2. /\ u[w].skip \in Nat /\ u[w].limit.resetsAt \in Nat
        /\ u[w].limit.reportedAt \in Nat /\ u[w].mark.resetsAt \in Nat
    BY <1>6, UsageTypes
  <2>3. /\ Evaluated(u, t) \in [Windows -> Usage]
        /\ \A v \in Windows : Evaluated(u, t)[v].skip = u[v].skip \/ u[v].skip <= t
    <3>1. Evaluated(u, t) = IF SkipHolds(u, w, t) THEN r
            ELSE IF GivesUp(u, w, t)
                 THEN [r EXCEPT ![w].limit = NoLimit, ![w].skip = t + SkipFallback]
                 ELSE [r EXCEPT ![w].skip = Unknown]
      BY <2>1 DEF Evaluated, w, r
    <3>2. CASE SkipHolds(u, w, t)
      BY <1>3, <3>1, <3>2
    <3>3. CASE ~SkipHolds(u, w, t) /\ GivesUp(u, w, t)
      <4>1. Evaluated(u, t) = [r EXCEPT ![w].limit = NoLimit, ![w].skip = t + SkipFallback]
        BY <3>1, <3>3
      <4>2. u[w].skip <= t /\ t + SkipFallback \in Nat
        BY <2>2, <3>3, SettingsAssumption DEF SkipHolds
      <4>3. Evaluated(u, t) \in [Windows -> Usage]
        <5>1. [r[w] EXCEPT !.limit = NoLimit, !.skip = t + SkipFallback] \in Usage
          BY <1>3, <1>6, <4>2 DEF Usage, NoLimit, Unknown
        <5> QED
          BY <1>3, <1>6, <4>1, <5>1
      <4>4. \A v \in Windows \ {w} : Evaluated(u, t)[v] = r[v]
        BY <1>3, <4>1
      <4> QED
        BY <1>3, <4>2, <4>3, <4>4
    <3>4. CASE ~SkipHolds(u, w, t) /\ ~GivesUp(u, w, t)
      <4>1. Evaluated(u, t) = [r EXCEPT ![w].skip = Unknown]
        BY <3>1, <3>4
      <4>2. u[w].skip <= t
        BY <2>2, <3>4 DEF SkipHolds
      <4>3. Evaluated(u, t) \in [Windows -> Usage]
        <5>1. [r[w] EXCEPT !.skip = Unknown] \in Usage
          BY <1>3, <1>6 DEF Usage, Unknown
        <5> QED
          BY <1>3, <1>6, <4>1, <5>1
      <4>4. \A v \in Windows \ {w} : Evaluated(u, t)[v] = r[v]
        BY <1>3, <4>1
      <4> QED
        BY <1>3, <4>2, <4>3, <4>4
    <3> QED
      BY <3>2, <3>3, <3>4
  <2>4. \A reason \in Reasons, R \in Nat \ {0} :
          LET d == UntilReset(w, reason, R, t)
          IN  d \in Decision /\ d.window = w /\ d.until > 0
    <3> SUFFICES ASSUME NEW reason \in Reasons, NEW R \in Nat \ {0}
                 PROVE  LET d == UntilReset(w, reason, R, t)
                        IN  d \in Decision /\ d.window = w /\ d.until > 0
      OBVIOUS
    <3> DEFINE target == R + ResumeBuffer
               cap == t + MaxSleep
    <3>1. target \in Nat /\ cap \in Nat /\ cap > 0 /\ target > 0
      BY SettingsAssumption
    <3>2. UntilReset(w, reason, R, t) =
            [window |-> w, reason |-> reason, until |-> Lesser(target, cap),
             capApplied |-> cap < target, target |-> target]
      BY DEF UntilReset
    <3>3. (cap < target) \in BOOLEAN
      OBVIOUS
    <3> HIDE DEF target, cap
    <3>4. Lesser(target, cap) \in Nat /\ Lesser(target, cap) > 0
      BY <3>1 DEF Lesser
    <3> QED
      BY <2>1, <3>1, <3>2, <3>3, <3>4 DEF Decision
  <2>5. ~GivesUp(u, w, t) /\ LimitHolds(u, w, t) /\ u[w].limit.resetsAt = Unknown =>
          LET d == UntilRecheck(u, w, t)
          IN  d \in Decision /\ d.window = w /\ d.until > 0
    BY <2>1, <2>2, SettingsAssumption
    DEF UntilRecheck, Decision, Lesser, CapEnd, GivesUp, LimitHolds, HasLimit, Reasons, Unknown
  <2>6. evaluateSleep(u, t) =
          IF SkipHolds(u, w, t) \/ GivesUp(u, w, t) THEN Proceed
          ELSE IF LimitHolds(u, w, t)
               THEN IF u[w].limit.resetsAt = Unknown THEN UntilRecheck(u, w, t)
                    ELSE UntilReset(w, "limit_reached", u[w].limit.resetsAt, t)
          ELSE IF u[w].mark.level = "high" /\ u[w].mark.resetsAt > t
               THEN UntilReset(w, "threshold", u[w].mark.resetsAt, t)
          ELSE Proceed
    BY <2>1 DEF evaluateSleep, w
  <2>7. "limit_reached" \in Reasons /\ "threshold" \in Reasons
    BY DEF Reasons
  <2>8. ~SkipHolds(u, w, t) => u[w].skip <= t
    BY <2>2 DEF SkipHolds
  <2>9. CASE SkipHolds(u, w, t) \/ GivesUp(u, w, t)
    BY <1>4, <2>3, <2>6, <2>9
  <2>10. CASE ~SkipHolds(u, w, t) /\ ~GivesUp(u, w, t)
    <3>1. CASE LimitHolds(u, w, t) /\ u[w].limit.resetsAt = Unknown
      BY <1>6, <2>3, <2>5, <2>6, <2>8, <2>10, <3>1
    <3>2. CASE LimitHolds(u, w, t) /\ u[w].limit.resetsAt # Unknown
      <4>1. u[w].limit.resetsAt \in Nat \ {0}
        BY <2>2, <3>2 DEF Unknown
      <4> QED
        BY <1>6, <2>3, <2>4, <2>6, <2>7, <2>8, <2>10, <3>2, <4>1
    <3>3. CASE ~LimitHolds(u, w, t) /\ u[w].mark.level = "high" /\ u[w].mark.resetsAt > t
      <4>1. u[w].mark.resetsAt \in Nat \ {0}
        BY <2>2, <3>3
      <4> QED
        BY <1>6, <2>3, <2>4, <2>6, <2>7, <2>8, <2>10, <3>3, <4>1
    <3>4. CASE ~LimitHolds(u, w, t) /\ ~(u[w].mark.level = "high" /\ u[w].mark.resetsAt > t)
      BY <1>4, <2>3, <2>6, <2>10, <3>4
    <3> QED
      BY <3>1, <3>2, <3>3, <3>4
  <2> QED
    BY <2>9, <2>10
<1> QED
  BY <1>1, <1>5, <1>6

-----------------------------------------------------------------------------
(* What the parts of a step do to the types and to suppressed sleep *)

USE SettingsAssumption, BoundsAssumption

LEMMA EventFacts ==
    ASSUME NEW u \in [Windows -> Usage], NEW e \in Events, now \in Nat \ {0}
    PROVE  LET v == updateWindowMark(reportRateLimitSignal(u, e), e) IN
           /\ v \in [Windows -> Usage]
           /\ \A w \in Windows : v[w].skip = u[w].skip
<1> DEFINE r == reportRateLimitSignal(u, e)
<1>1. r \in [Windows -> Usage] /\ \A w \in Windows : r[w].skip = u[w].skip
  <2>1. e.resetsAt \in Nat
    BY EventsAssumption
  <2> DEFINE x == SignalWindow(e)
  <2> HIDE DEF x
  <2>2. r = IF x \notin Windows THEN u
            ELSE [u EXCEPT ![x].limit = IF e.rejected
                  THEN [resetsAt |-> e.resetsAt, reportedAt |-> now] ELSE NoLimit]
    BY DEF reportRateLimitSignal, x
  <2> QED
    BY <2>1, <2>2 DEF Usage, NoLimit, Unknown
<1> HIDE DEF r
<1>2. e.level \in Levels /\ e.resetsAt \in Nat /\ e.window \in Windows \cup {None}
  BY EventsAssumption DEF Levels, None
<1>3. [level |-> e.level, resetsAt |-> e.resetsAt] \in [level : Levels, resetsAt : Nat]
  BY <1>2
<1>4. CASE e.window = None \/ e.level = None
  BY <1>1, <1>4 DEF updateWindowMark, r
<1>5. CASE e.window \in Windows /\ e.window # None /\ e.level # None
  <2> DEFINE x == e.window
             m == [level |-> e.level, resetsAt |-> e.resetsAt]
  <2>1. updateWindowMark(r, e) = [r EXCEPT ![x].mark = m]
    BY <1>5 DEF updateWindowMark
  <2>2. /\ [r EXCEPT ![x].mark = m] \in [Windows -> Usage]
        /\ \A w \in Windows : [r EXCEPT ![x].mark = m][w].skip = r[w].skip
    <3>1. x \in Windows
      BY <1>5
    <3> HIDE DEF x
    <3> QED
      BY <1>1, <1>2, <3>1 DEF Usage
  <2> QED
    BY <1>1, <2>1, <2>2 DEF r
<1> QED
  BY <1>2, <1>4, <1>5

LEMMA ReadingFacts ==
    ASSUME NEW u \in [Windows -> Usage], NEW r \in Readings
    PROVE  /\ updateWindowMark(u, r) \in [Windows -> Usage]
           /\ \A w \in Windows : updateWindowMark(u, r)[w].skip = u[w].skip
<1>1. r.window \in Windows /\ r.level \in Levels /\ r.resetsAt \in Nat
  BY ReadingsAssumption DEF Levels, None
<1> DEFINE x == r.window
           m == [level |-> r.level, resetsAt |-> r.resetsAt]
<1>2. m \in [level : Levels, resetsAt : Nat]
  BY <1>1
<1>3. updateWindowMark(u, r) = u \/ updateWindowMark(u, r) = [u EXCEPT ![x].mark = m]
  BY DEF updateWindowMark
<1>4. /\ [u EXCEPT ![x].mark = m] \in [Windows -> Usage]
      /\ \A w \in Windows : [u EXCEPT ![x].mark = m][w].skip = u[w].skip
  <2>1. x \in Windows
    BY <1>1
  <2> HIDE DEF x
  <2> QED
    BY <1>1, <2>1 DEF Usage
<1> QED
  BY <1>3, <1>4

LEMMA RestoreFacts ==
    ASSUME NEW u \in [Windows -> Usage], NEW row \in Row
    PROVE  /\ restoreSleepDecision(u, row) \in [Windows -> Usage]
           /\ \A w \in Windows : restoreSleepDecision(u, row)[w].skip = u[w].skip
<1> DEFINE R == IF row.target = Unknown THEN Unknown
                ELSE Greater(row.createdAt + 1, row.target - ResumeBuffer)
<1>1. R \in Nat /\ row.createdAt \in Nat
  BY DEF Row, Greater, Unknown
<1> HIDE DEF R
<1>2. \/ restoreSleepDecision(u, row) = u
      \/ restoreSleepDecision(u, row) =
           [u EXCEPT ![row.window].mark = [level |-> "high", resetsAt |-> R]]
      \/ restoreSleepDecision(u, row) =
           [u EXCEPT ![row.window].limit = [resetsAt |-> R, reportedAt |-> row.createdAt]]
  BY DEF restoreSleepDecision, R
<1>3. CASE restoreSleepDecision(u, row) = u
  BY <1>3
<1>4. ASSUME NEW x, restoreSleepDecision(u, row) =
                      [u EXCEPT ![x].mark = [level |-> "high", resetsAt |-> R]]
      PROVE  /\ restoreSleepDecision(u, row) \in [Windows -> Usage]
             /\ \A w \in Windows : restoreSleepDecision(u, row)[w].skip = u[w].skip
  <2>1. CASE x \notin Windows
    <3>1. restoreSleepDecision(u, row) = u
      BY <1>4, <2>1
    <3> QED
      BY <3>1
  <2>2. CASE x \in Windows
    <3>1. u[x] \in Usage
      BY <2>2
    <3> DEFINE changed == [u[x] EXCEPT !.mark = [level |-> "high", resetsAt |-> R]]
    <3>2. changed \in Usage /\ changed.skip = u[x].skip
      BY <1>1, <3>1 DEF Usage, Levels
    <3>3. restoreSleepDecision(u, row) = [u EXCEPT ![x] = changed]
      BY <1>4
    <3> HIDE DEF changed
    <3> QED
      BY <2>2, <3>2, <3>3
  <2> QED
    BY <2>1, <2>2
<1>5. ASSUME NEW x, restoreSleepDecision(u, row) =
                      [u EXCEPT ![x].limit = [resetsAt |-> R, reportedAt |-> row.createdAt]]
      PROVE  /\ restoreSleepDecision(u, row) \in [Windows -> Usage]
             /\ \A w \in Windows : restoreSleepDecision(u, row)[w].skip = u[w].skip
  <2>1. CASE x \notin Windows
    <3>1. restoreSleepDecision(u, row) = u
      BY <1>5, <2>1
    <3> QED
      BY <3>1
  <2>2. CASE x \in Windows
    <3>1. u[x] \in Usage
      BY <2>2
    <3> DEFINE changed == [u[x] EXCEPT !.limit = [resetsAt |-> R, reportedAt |-> row.createdAt]]
    <3>2. changed \in Usage /\ changed.skip = u[x].skip
      BY <1>1, <3>1 DEF Usage
    <3>3. restoreSleepDecision(u, row) = [u EXCEPT ![x] = changed]
      BY <1>5
    <3> HIDE DEF changed
    <3> QED
      BY <2>2, <3>2, <3>3
  <2> QED
    BY <2>1, <2>2
<1> QED
  BY <1>2, <1>3, <1>4, <1>5

-----------------------------------------------------------------------------
(* One lemma for each action *)

LEMMA InitInv == Init => Inv
<1> SUFFICES ASSUME Init PROVE Inv
  OBVIOUS
<1>1. TypeOK
  BY DEF Init, TypeOK, Usage, Gate, Row, NoGate, NoRow, NoLimit, NoMark, Levels, Reasons,
         Unknown, None
<1> QED
  BY <1>1 DEF Init, Inv, CapInv, CapHolds, ResumeInv, ResumeHolds, ReleaseInv,
              SleeperInv, RestoreInv, HasRow, NoGate, NoRow, Unknown, None

\* Steps that only touch the maps, the banner and the counters.
LEMMA SignalStep ==
    ASSUME Inv,
           \/ \E s \in Sessions, e \in Events : HandleRateLimit(s, e)
           \/ \E r \in Readings : ApplyReading(r)
           \/ \E s \in Sessions : RefreshProviderUsage(s)
    PROVE  Inv'
<1> USE DEF Inv
<1>1. /\ usage' \in [Windows -> Usage]
      /\ \A w \in Windows : usage'[w].skip = usage[w].skip \/ usage[w].skip <= now
      /\ sleepState' \in [Sessions -> Windows \cup {None}]
      /\ signals' \in 0..MaxSignals
      /\ UNCHANGED <<now, gate, woken, rows, unrestored, promised, released, resumedTo>>
  <2>1. ASSUME NEW s \in Sessions, NEW e \in Events, HandleRateLimit(s, e) PROVE <1>1!:
    <3> DEFINE u == updateWindowMark(reportRateLimitSignal(usage, e), e)
    <3>1. u \in [Windows -> Usage] /\ \A w \in Windows : u[w].skip = usage[w].skip
      BY EventFacts DEF TypeOK
    <3>2. /\ usage' = Evaluated(u, now)
          /\ sleepState' = [sleepState EXCEPT ![s] = evaluateSleep(u, now).window]
      BY <2>1 DEF HandleRateLimit
    <3> HIDE DEF u
    <3>3. /\ Evaluated(u, now) \in [Windows -> Usage]
          /\ evaluateSleep(u, now).window \in Windows \cup {None}
          /\ \A w \in Windows : Evaluated(u, now)[w].skip = u[w].skip \/ u[w].skip <= now
      BY <3>1, EvaluateFacts DEF TypeOK
    <3> QED
      BY <2>1, <3>1, <3>2, <3>3 DEF HandleRateLimit, TypeOK
  <2>2. ASSUME NEW r \in Readings, ApplyReading(r) PROVE <1>1!:
    BY <2>2, ReadingFacts DEF ApplyReading, TypeOK
  <2>3. ASSUME NEW s \in Sessions, RefreshProviderUsage(s) PROVE <1>1!:
    <3>1. /\ Evaluated(usage, now) \in [Windows -> Usage]
          /\ evaluateSleep(usage, now).window \in Windows \cup {None}
          /\ \A w \in Windows : Evaluated(usage, now)[w].skip = usage[w].skip
                                  \/ usage[w].skip <= now
      BY EvaluateFacts DEF TypeOK
    <3> QED
      BY <2>3, <3>1 DEF RefreshProviderUsage, TypeOK, history
  <2> QED
    BY <2>1, <2>2, <2>3
<1>2. TypeOK'
  BY <1>1 DEF TypeOK
<1>3. ResumeInv'
  <2>1. \A w \in Windows : resumedTo[w] \in Nat /\ usage[w].skip \in Nat /\ now \in Nat
    BY UsageTypes DEF TypeOK
  <2> QED
    BY <1>1, <2>1 DEF ResumeInv
<1> QED
  BY <1>1, <1>2, <1>3
  DEF CapInv, CapHolds, ResumeHolds, ReleaseInv, SleeperInv, RestoreInv, HasRow

LEMMA AdvanceStep == ASSUME Inv, Advance PROVE Inv'
<1>1. TypeOK'
  BY DEF Inv, TypeOK, Advance, history
<1>2. /\ now' = now + 1 /\ now \in Nat
      /\ UNCHANGED <<usage, gate, woken, rows, unrestored, promised, released, resumedTo>>
  BY DEF Inv, TypeOK, Advance, history
<1>3. CapInv'
  BY <1>2 DEF Inv, TypeOK, CapInv, HasRow, Row, Gate
<1>4. ResumeInv'
  BY <1>2 DEF Inv, TypeOK, ResumeInv
<1>5. ReleaseInv'
  BY <1>2 DEF Inv, TypeOK, ReleaseInv, HasRow, Row, Gate
<1> QED
  BY <1>1, <1>2, <1>3, <1>4, <1>5
  DEF Inv, CapHolds, ResumeHolds, SleeperInv, RestoreInv, HasRow

LEMMA FieldTypes ==
    ASSUME TypeOK
    PROVE  /\ now \in Nat \ {0}
           /\ \A s \in Sessions :
                /\ rows[s] \in Row /\ rows[s].cap \in Nat /\ rows[s].createdAt \in Nat
                /\ gate[s] \in Gate /\ gate[s].cap \in Nat /\ gate[s].until \in Nat
                /\ gate[s].checked \in Nat /\ promised[s] \in Nat
           /\ \A w \in Windows : resumedTo[w] \in Nat /\ usage[w].skip \in Nat
BY UsageTypes DEF TypeOK, Row, Gate

LEMMA EmptyTypes ==
    /\ NoRow \in Row
    /\ \A at \in {"idle", "ready", "passed", "running"} :
         [NoGate EXCEPT !.at = at] \in Gate /\ [NoGate EXCEPT !.at = at].at = at
BY DEF Row, Gate, NoRow, NoGate, Reasons, None, Unknown

LEMMA NewTurnStep == ASSUME NEW s \in Sessions, Inv, NewTurn(s) PROVE Inv'
<1>1. /\ rows' = [rows EXCEPT ![s] = [NoRow EXCEPT !.state = "queued", !.createdAt = now]]
      /\ gate' = [gate EXCEPT ![s] = [NoGate EXCEPT !.at = "ready"]]
      /\ gate[s].at = "idle" /\ ~HasRow(s) /\ woken = {}
      /\ UNCHANGED <<now, usage, woken, sleepState, unrestored, promised, released,
                     resumedTo, signals>>
  BY DEF NewTurn, history, Quiet
<1>2. TypeOK'
  BY <1>1, FieldTypes
  DEF Inv, TypeOK, Row, Gate, NoRow, NoGate, Reasons, None, Unknown
<1>3. promised[s] = Unknown /\ s \notin released
  BY <1>1 DEF Inv, CapInv, ReleaseInv
<1>4. CapInv'
  BY <1>1, <1>3, FieldTypes DEF Inv, TypeOK, CapInv, HasRow, NoRow, NoGate, Unknown, None
<1>5. ReleaseInv' /\ ResumeInv'
  BY <1>1, <1>3 DEF Inv, TypeOK, ReleaseInv, ResumeInv, HasRow
<1>6. CapHolds' /\ ResumeHolds' /\ SleeperInv'
  BY <1>1 DEF Inv, TypeOK, CapHolds, ResumeHolds, SleeperInv, NoGate
<1>7. RestoreInv'
  BY <1>1 DEF Inv, TypeOK, RestoreInv, HasRow
<1> QED
  BY <1>2, <1>4, <1>5, <1>6, <1>7 DEF Inv

\* The turn leaves the gate: Dispatch, ToolGate and EndTurn.
LEMMA LeaveStep ==
    ASSUME NEW s \in Sessions, Inv, Dispatch(s) \/ ToolGate(s) \/ EndTurn(s)
    PROVE  Inv'
<1>1. \E at \in {"idle", "ready", "running"} :
        /\ gate' = [gate EXCEPT ![s] = [NoGate EXCEPT !.at = at]]
        /\ woken = {}
        /\ UNCHANGED <<now, usage, woken, unrestored, resumedTo, signals>>
        /\ promised' = [promised EXCEPT ![s] = Unknown]
        /\ released' = released \ {s}
        /\ rows' = [rows EXCEPT ![s] = NoRow] \/ (rows' = rows /\ ~HasRow(s))
        /\ sleepState' \in [Sessions -> Windows \cup {None}]
  <2>1. CASE Dispatch(s)
    BY <2>1 DEF Dispatch, Inv, TypeOK, Quiet
  <2>2. CASE ToolGate(s)
    <3>1. s \notin released /\ ~HasRow(s)
      BY <2>2 DEF ToolGate, Inv, CapInv, ReleaseInv
    <3> QED
      BY <2>2, <3>1 DEF ToolGate, Inv, TypeOK, Quiet
  <2>3. CASE EndTurn(s)
    <3>1. NoGate = [NoGate EXCEPT !.at = "idle"]
      BY SMT DEF NoGate, None, Unknown
    <3>2. sleepState' \in [Sessions -> Windows \cup {None}]
      <4>1. sleepState' = [sleepState EXCEPT ![s] = None]
        BY <2>3 DEF EndTurn
      <4> QED
        BY <4>1 DEF Inv, TypeOK
    <3>3. gate' = [gate EXCEPT ![s] = [NoGate EXCEPT !.at = "idle"]]
      BY <2>3, <3>1, Zenon DEF EndTurn
    <3>4. /\ woken = {}
          /\ UNCHANGED <<now, usage, woken, unrestored, resumedTo, signals>>
          /\ promised' = [promised EXCEPT ![s] = Unknown]
          /\ released' = released \ {s}
          /\ rows' = [rows EXCEPT ![s] = NoRow]
      BY <2>3 DEF EndTurn, Quiet
    <3> QED
      BY <3>2, <3>3, <3>4, Zenon
  <2> QED
    BY <2>1, <2>2, <2>3
<1>2. PICK at \in {"idle", "ready", "running"} : <1>1!(at)
  BY <1>1
<1>3. TypeOK'
  BY <1>2, EmptyTypes DEF Inv, TypeOK, Unknown
<1>4. ~HasRow(s)'
  BY <1>2 DEF HasRow, NoRow, Inv, TypeOK
<1>5. CapInv'
  BY <1>2, <1>4, FieldTypes DEF Inv, TypeOK, CapInv, HasRow, NoGate, Unknown
<1>6. ReleaseInv' /\ ResumeInv'
  BY <1>2 DEF Inv, TypeOK, ReleaseInv, ResumeInv, HasRow
<1>7. CapHolds' /\ ResumeHolds' /\ SleeperInv'
  BY <1>2 DEF Inv, TypeOK, CapHolds, ResumeHolds, SleeperInv, NoGate
<1>8. s \notin unrestored
  BY DEF Inv, RestoreInv, Dispatch, ToolGate, EndTurn
<1>9. RestoreInv'
  BY <1>2, <1>8 DEF Inv, TypeOK, RestoreInv, HasRow
<1> QED
  BY <1>3, <1>5, <1>6, <1>7, <1>9 DEF Inv

\* The gate lets the chat by: GateOpens and CapExpires.
LEMMA PassStep ==
    ASSUME NEW s \in Sessions, Inv, GateOpens(s) \/ CapExpires(s)
    PROVE  Inv'
<1> DEFINE d == evaluateSleep(usage, now)
<1>1. /\ d \in Decision /\ d.window \in Windows \cup {None}
      /\ d # Proceed => d.window \in Windows /\ usage[d.window].skip <= now
      /\ Evaluated(usage, now) \in [Windows -> Usage]
      /\ \A w \in Windows : Evaluated(usage, now)[w].skip = usage[w].skip
                              \/ usage[w].skip <= now
  BY EvaluateFacts DEF Inv, TypeOK
<1> HIDE DEF d
<1>2. PICK skipped \in BOOLEAN :
        /\ Pass(s, skipped)
        /\ skipped => gate[s].at = "waiting"
        /\ released' = IF skipped /\ rows[s].state = "sleeping"
                       THEN released \cup {s} ELSE released
        /\ woken' = woken \ {s}
        /\ UNCHANGED <<now, unrestored, promised, resumedTo, signals>>
        /\ usage' \in [Windows -> Usage]
        /\ \A w \in Windows : usage'[w].skip = usage[w].skip \/ usage[w].skip <= now
  <2>1. CASE GateOpens(s)
    <3>1. Skipped(s) \in BOOLEAN /\ (Skipped(s) => gate[s].at = "waiting")
      BY DEF Skipped
    <3> QED
      BY <1>1, <2>1, <3>1 DEF GateOpens
  <2>2. CASE CapExpires(s)
    <3> DEFINE skip == IF d.target = Unknown THEN now + SkipFallback ELSE d.target
    <3>1. /\ usage' = [Evaluated(usage, now) EXCEPT ![d.window].skip = skip]
          /\ d # Proceed /\ Pass(s, FALSE) /\ woken' = woken \ {s}
          /\ UNCHANGED <<now, unrestored, promised, released, resumedTo, signals>>
      BY <2>2 DEF CapExpires, history, d
    <3>2. skip \in Nat
      BY <1>1, FieldTypes DEF Decision, Inv
    <3> HIDE DEF skip
    <3>3. usage' \in [Windows -> Usage]
      BY <1>1, <3>1, <3>2 DEF Usage
    <3>4. \A w \in Windows : usage'[w].skip = usage[w].skip \/ usage[w].skip <= now
      BY <1>1, <3>1, <3>2 DEF Usage
    <3> QED
      BY <3>1, <3>3, <3>4
  <2> QED
    BY <2>1, <2>2
<1>3. /\ gate' = [gate EXCEPT ![s] =
                    [NoGate EXCEPT !.at = IF HasRow(s) THEN "passed" ELSE "running"]]
      /\ rows' = [rows EXCEPT ![s].cap = StoredCap(s, skipped)]
      /\ sleepState' \in [Sessions -> Windows \cup {None}]
      /\ StoredCap(s, skipped) = IF skipped /\ rows[s].state = "sleeping"
                                 THEN now ELSE rows[s].cap
      /\ StoredCap(s, skipped) \in Nat
  BY <1>2, FieldTypes DEF Pass, StoredCap, Inv, TypeOK
<1>4. TypeOK'
  <2>1. [rows[s] EXCEPT !.cap = StoredCap(s, skipped)] \in Row
    BY <1>3, FieldTypes DEF Inv, Row
  <2> QED
    BY <1>2, <1>3, <2>1, EmptyTypes DEF Inv, TypeOK
<1>5. /\ \A v \in Sessions : HasRow(v)' <=> HasRow(v)
      /\ \A v \in Sessions \ {s} : rows'[v] = rows[v] /\ gate'[v] = gate[v]
      /\ rows'[s].cap = StoredCap(s, skipped)
      /\ gate'[s].at = IF HasRow(s) THEN "passed" ELSE "running"
  BY <1>3 DEF HasRow, Inv, TypeOK, Row, NoGate
<1>6. CapInv'
  BY <1>2, <1>3, <1>5, FieldTypes DEF Inv, CapInv, Unknown
<1>7. ReleaseInv'
  BY <1>2, <1>3, <1>5, FieldTypes DEF Inv, ReleaseInv, HasRow, Unknown, None
<1>8. ResumeInv'
  BY <1>2, FieldTypes DEF Inv, ResumeInv
<1>9. CapHolds' /\ ResumeHolds' /\ SleeperInv'
  BY <1>2, <1>5 DEF Inv, TypeOK, CapHolds, ResumeHolds, SleeperInv
<1>10. RestoreInv'
  <2>1. s \notin unrestored
    BY DEF Inv, RestoreInv, SleeperInv, GateOpens, CapExpires, Due
  <2> QED
    BY <1>2, <1>5, <2>1 DEF Inv, TypeOK, RestoreInv, HasRow
<1> QED
  BY <1>4, <1>6, <1>7, <1>8, <1>9, <1>10 DEF Inv

LEMMA FallAsleepStep == ASSUME NEW s \in Sessions, Inv, FallAsleep(s) PROVE Inv'
<1> DEFINE d == evaluateSleep(usage, now)
           cap == Anchored(s, d)
           early == cap # Unknown /\ cap < d.until
           until == IF early THEN cap ELSE d.until
           emitted == /\ gate[s].window = d.window /\ gate[s].reason = d.reason
                      /\ gate[s].until = until
           row == IF emitted \/ ~HasRow(s) THEN rows[s]
                  ELSE SleepingRow(s, d, until, early \/ d.capApplied)
           newGate == [at |-> "waiting", cap |-> cap, window |-> d.window,
                       reason |-> d.reason, until |-> until, checked |-> now,
                       skipped |-> Skipped(s)]
<1>1. /\ d \in Decision /\ d.window \in Windows /\ d.until > 0
      /\ usage[d.window].skip <= now
      /\ Evaluated(usage, now) \in [Windows -> Usage]
      /\ \A w \in Windows : Evaluated(usage, now)[w].skip = usage[w].skip
                              \/ usage[w].skip <= now
  BY EvaluateFacts DEF Inv, TypeOK, FallAsleep
<1>2. /\ gate' = [gate EXCEPT ![s] = newGate]
      /\ rows' = [rows EXCEPT ![s] = row]
      /\ sleepState' = [sleepState EXCEPT ![s] = IF emitted THEN @ ELSE d.window]
      /\ usage' = Evaluated(usage, now)
      /\ woken' = woken \ {s}
      /\ promised' = [promised EXCEPT ![s] =
            IF @ = Unknown /\ (HasRow(s) => row.cap # Unknown) THEN cap ELSE @]
      /\ UNCHANGED <<now, unrestored, released, resumedTo, signals>>
      /\ ~CapReached(s, d)
  BY DEF FallAsleep
<1>3. /\ d.until \in Nat /\ d.capApplied \in BOOLEAN /\ d.reason \in Reasons /\ d.target \in Nat
      /\ d.window \in SleepWindows
  BY <1>1, WindowsAssumption DEF Decision
<1>4. gate[s].at \in {"ready", "waiting"}
  BY DEF FallAsleep, Due, Inv, SleeperInv
<1>5. promised[s] # Unknown =>
        /\ gate[s].cap # Unknown
        /\ gate[s].cap <= promised[s] \/ gate[s].cap <= now
  BY <1>4 DEF Inv, CapInv
<1>6. /\ now \in Nat /\ cap \in Nat /\ gate[s].cap \in Nat /\ promised[s] \in Nat
      /\ rows[s].cap \in Nat
      /\ cap = IF gate[s].cap = Unknown /\ d.capApplied THEN d.until ELSE gate[s].cap
      /\ cap # Unknown => now < cap
  BY <1>2, <1>3, FieldTypes DEF Anchored, CapReached, Inv
<1> HIDE DEF d, cap
<1>7. /\ until \in Nat /\ (cap # Unknown => until <= cap)
      /\ early \/ d.capApplied => cap # Unknown /\ until > 0
  BY <1>1, <1>3, <1>6 DEF Unknown
<1>8. /\ row \in Row /\ (row.state # None <=> HasRow(s))
      /\ row.cap = rows[s].cap \/ (rows[s].cap = Unknown /\ row.cap = until
                                   /\ cap # Unknown /\ until > 0)
  <2> HIDE DEF until, emitted, early
  <2>1. rows[s] \in Row
    BY FieldTypes DEF Inv
  <2>2. CASE row = rows[s]
    BY <2>1, <2>2 DEF HasRow
  <2>3. CASE row = SleepingRow(s, d, until, early \/ d.capApplied) /\ HasRow(s)
    <3> DEFINE newCap == IF (early \/ d.capApplied) /\ rows[s].cap = Unknown
                         THEN until ELSE rows[s].cap
    <3>1. newCap \in Nat
      BY <1>6, <1>7
    <3>2. /\ newCap = rows[s].cap \/ (rows[s].cap = Unknown /\ newCap = until
                                   /\ cap # Unknown /\ until > 0)
      BY <1>7
    <3>3. row = [rows[s] EXCEPT !.state = "sleeping", !.window = d.window,
                   !.reason = d.reason, !.target = d.target, !.cap = newCap]
      BY <2>1, <2>3 DEF SleepingRow, Row
    <3> HIDE DEF newCap, row
    <3>4. row \in Row /\ row.state = "sleeping" /\ row.cap = newCap
      BY <1>3, <2>1, <3>1, <3>3 DEF Row
    <3> QED
      BY <2>3, <3>2, <3>4 DEF HasRow, None
  <2> QED
    BY <2>2, <2>3
<1>9. newGate \in Gate /\ newGate.at = "waiting" /\ newGate.cap = cap
      /\ newGate.window = d.window /\ newGate.until = until /\ newGate.checked = now
  <2>1. Skipped(s) \in BOOLEAN
    BY DEF Skipped
  <2> HIDE DEF until
  <2> QED
    BY <1>3, <1>6, <1>7, <2>1 DEF Gate
<1> HIDE DEF until, emitted, early, row, newGate
<1>10. /\ gate'[s] = newGate /\ rows'[s] = row
       /\ promised'[s] = IF promised[s] = Unknown /\ (HasRow(s) => row.cap # Unknown)
                         THEN cap ELSE promised[s]
       /\ \A v \in Sessions \ {s} : /\ gate'[v] = gate[v] /\ rows'[v] = rows[v]
                                    /\ promised'[v] = promised[v]
       /\ now' = now
  BY <1>2 DEF Inv, TypeOK
<1>11. HasRow(s)' <=> HasRow(s)
  BY <1>8, <1>10 DEF HasRow
<1>12. TypeOK'
  <2>1. sleepState' \in [Sessions -> Windows \cup {None}]
    BY <1>1, <1>2 DEF Inv, TypeOK
  <2> QED
    BY <1>1, <1>2, <1>6, <1>8, <1>9, <2>1 DEF Inv, TypeOK
<1>13. CapInv'
  <2>1. ASSUME NEW v \in Sessions, v # s PROVE CapInv!(v)'
    BY <1>10, <2>1 DEF Inv, CapInv, HasRow
  <2>2. CapInv!(s)'
    <3>1. HasRow(s) => IF promised[s] = Unknown THEN rows[s].cap <= now
                       ELSE /\ rows[s].cap # Unknown
                            /\ rows[s].cap <= promised[s] \/ rows[s].cap <= now
      BY DEF Inv, CapInv
    <3> QED
      BY <1>4, <1>5, <1>6, <1>7, <1>8, <1>9, <1>10, <1>11, <3>1 DEF Unknown
  <2> QED
    BY <2>1, <2>2 DEF CapInv
<1>14. CapHolds'
  <2>1. promised'[s] # Unknown => until <= promised'[s]
    BY <1>5, <1>6, <1>7, <1>10
  <2> QED
    BY <1>9, <1>10, <2>1 DEF Inv, CapHolds
<1>15. ResumeInv'
  BY <1>1, <1>2, FieldTypes DEF Inv, ResumeInv
<1>16. ResumeHolds'
  <2>1. resumedTo[d.window] <= now
    BY <1>1, FieldTypes DEF Inv, ResumeInv
  <2> QED
    BY <1>2, <1>9, <1>10, <2>1 DEF Inv, TypeOK, ResumeHolds
<1>17. ReleaseInv'
  <2>1. s \notin released
    BY <1>4, <1>6 DEF Inv, ReleaseInv
  <2> QED
    BY <1>2, <1>10, <2>1 DEF Inv, TypeOK, ReleaseInv, HasRow
<1>18. SleeperInv'
  BY <1>1, <1>2, <1>9, <1>10 DEF Inv, TypeOK, SleeperInv
<1>19. RestoreInv'
  BY <1>2, <1>4, <1>10 DEF Inv, RestoreInv, HasRow
<1> QED
  BY <1>12, <1>13, <1>14, <1>15, <1>16, <1>17, <1>18, <1>19 DEF Inv

\* Resume now: the window's suppression is at least as late as what was promised.
LEMMA SkipSleepStep == ASSUME NEW s \in Sessions, Inv, SkipSleep(s) PROVE Inv'
<1> DEFINE shown == sleepState[s]
           levels == Levels \ {None}
           u == IF shown # None THEN usage ELSE Refreshed(usage, now, levels)
           w == IF shown # None THEN shown ELSE selectedWindow(usage, now, levels)
           skip == IF w # None /\ KnownReset(u, w) > now
                   THEN KnownReset(u, w) ELSE now + SkipFallback
<1>1. /\ IF w = None THEN usage' = u /\ resumedTo' = resumedTo
         ELSE /\ usage' = [u EXCEPT ![w].skip = skip]
              /\ resumedTo' = [resumedTo EXCEPT ![w] = skip]
      /\ woken' = Sleeping
      /\ sleepState' = [sleepState EXCEPT ![s] = None]
      /\ signals' = signals + 1 /\ signals < MaxSignals
      /\ UNCHANGED <<now, gate, rows, unrestored, promised, released>>
  BY DEF SkipSleep, WakersCalled
<1>2. u \in [Windows -> Usage] /\ \A v \in Windows : u[v].skip = usage[v].skip
  <2>1. usage \in [Windows -> Usage]
    BY DEF Inv, TypeOK
  <2>2. /\ Refreshed(usage, now, levels) \in [Windows -> Usage]
        /\ \A v \in Windows : Refreshed(usage, now, levels)[v].skip = usage[v].skip
    <3> HIDE DEF levels
    <3> QED
      BY <2>1, UsageTypes DEF Refreshed, Usage, NoLimit, Unknown
  <2> QED
    BY <2>1, <2>2
<1>3. w \in Windows \cup {None} /\ None \notin Windows
  BY SelectedIsAWindow, NoneIsNoWindow, WindowsAssumption DEF Inv, TypeOK
<1> HIDE DEF u, w
<1>4. skip \in Nat
  <2>1. w \in Windows => KnownReset(u, w) \in Nat
    BY <1>2, UsageTypes DEF KnownReset
  <2> QED
    BY <1>3, <2>1, FieldTypes DEF Inv
<1> HIDE DEF skip
<1>5. /\ usage' \in [Windows -> Usage] /\ resumedTo' \in [Windows -> Nat]
      /\ \A v \in Windows : \/ usage'[v].skip = usage[v].skip /\ resumedTo'[v] = resumedTo[v]
                            \/ usage'[v].skip = resumedTo'[v]
  <2>1. CASE w = None
    BY <1>1, <1>2, <2>1 DEF Inv, TypeOK
  <2>2. CASE w \in Windows
    <3>1. /\ usage' = [u EXCEPT ![w].skip = skip]
          /\ resumedTo' = [resumedTo EXCEPT ![w] = skip] /\ resumedTo \in [Windows -> Nat]
      BY <1>1, <1>3, <2>2 DEF Inv, TypeOK
    <3>2. /\ usage' \in [Windows -> Usage] /\ usage'[w].skip = skip
          /\ \A v \in Windows \ {w} : usage'[v] = u[v]
      BY <1>2, <1>4, <2>2, <3>1 DEF Usage
    <3> QED
      BY <1>2, <1>4, <2>2, <3>1, <3>2
  <2> QED
    BY <1>3, <2>1, <2>2
<1>6. TypeOK'
  BY <1>1, <1>5 DEF Inv, TypeOK, Sleeping
<1>7. ResumeInv'
  BY <1>1, <1>5, FieldTypes DEF Inv, TypeOK, ResumeInv
<1>8. CapInv' /\ CapHolds' /\ ReleaseInv'
  BY <1>1 DEF Inv, CapInv, CapHolds, ReleaseInv, HasRow
<1>9. ResumeHolds' /\ SleeperInv' /\ RestoreInv'
  BY <1>1 DEF Inv, ResumeHolds, SleeperInv, RestoreInv, Sleeping, HasRow
<1> QED
  BY <1>6, <1>7, <1>8, <1>9 DEF Inv

\* A restart keeps the rows, the promises of their turns and nothing else.
LEMMA RestartStep == ASSUME Inv, Restart PROVE Inv'
<1>1. PICK seeded \in SUBSET Windows :
        usage' = [w \in Windows |-> [limit |-> NoLimit, skip |-> Unknown,
                                     mark |-> SeededMark(w, seeded)]]
  BY DEF Restart
<1>2. /\ gate' = [s \in Sessions |-> NoGate]
      /\ woken' = {}
      /\ sleepState' = [s \in Sessions |-> None]
      /\ unrestored' = {s \in Sessions : HasRow(s)}
      /\ promised' = [s \in Sessions |-> IF HasRow(s) THEN promised[s] ELSE Unknown]
      /\ resumedTo' = [w \in Windows |-> Unknown]
      /\ signals' = signals + 1 /\ signals < MaxSignals
      /\ UNCHANGED <<now, rows, released>>
  BY DEF Restart
<1>3. usage' \in [Windows -> Usage]
  <2>1. \A w \in Windows : SeededMark(w, seeded) \in [level : Levels, resetsAt : Nat]
    BY UsageTypes DEF SeededMark, NoMark, Levels, Unknown, None, Inv, TypeOK
  <2> QED
    BY <1>1, <2>1 DEF Usage, NoLimit, Unknown
<1>4. NoGate \in Gate /\ NoGate.at = "idle"
  BY DEF Gate, NoGate, Reasons, None, Unknown
<1>5. TypeOK'
  BY <1>2, <1>3, <1>4, FieldTypes DEF Inv, TypeOK, Unknown
<1>6. CapInv'
  BY <1>2, <1>4 DEF Inv, CapInv, HasRow
<1>7. ReleaseInv'
  BY <1>2, <1>4 DEF Inv, TypeOK, ReleaseInv, HasRow
<1>8. ResumeInv'
  BY <1>2, FieldTypes DEF Inv, ResumeInv, Unknown
<1>9. CapHolds' /\ ResumeHolds' /\ SleeperInv' /\ RestoreInv'
  BY <1>2, <1>4 DEF CapHolds, ResumeHolds, SleeperInv, RestoreInv, HasRow
<1> QED
  BY <1>5, <1>6, <1>7, <1>8, <1>9 DEF Inv

\* A restored call takes its deadline from the row.
LEMMA RestoreStep == ASSUME NEW s \in Sessions, Inv, RestoreDurableTurns(s) PROVE Inv'
<1> DEFINE newGate == [NoGate EXCEPT !.at = "ready", !.cap = rows[s].cap]
<1>1. HasRow(s) /\ s \in unrestored
  BY DEF RestoreDurableTurns, Inv, RestoreInv
<1>2. /\ usage' \in {usage, restoreSleepDecision(usage, rows[s])}
      /\ gate' = [gate EXCEPT ![s] = newGate]
      /\ unrestored' = unrestored \ {s} /\ woken = {}
      /\ UNCHANGED <<now, woken, sleepState, rows, promised, released, resumedTo,
                     signals>>
  BY DEF RestoreDurableTurns, history, Quiet
<1>3. newGate \in Gate /\ newGate.at = "ready" /\ newGate.cap = rows[s].cap
  BY FieldTypes DEF Inv, Gate, NoGate, Reasons, None, Unknown
<1> HIDE DEF newGate
<1>4. usage' \in [Windows -> Usage] /\ \A w \in Windows : usage'[w].skip = usage[w].skip
  BY <1>2, RestoreFacts, FieldTypes DEF Inv, TypeOK
<1>5. TypeOK'
  BY <1>2, <1>3, <1>4 DEF Inv, TypeOK
<1>6. /\ gate'[s] = newGate
      /\ \A v \in Sessions \ {s} : gate'[v] = gate[v]
  BY <1>2 DEF Inv, TypeOK
<1>7. CapInv' /\ CapHolds'
  BY <1>1, <1>2, <1>3, <1>6 DEF Inv, CapInv, CapHolds, HasRow, Unknown
<1>8. ReleaseInv' /\ RestoreInv'
  BY <1>1, <1>2, <1>3, <1>6 DEF Inv, TypeOK, ReleaseInv, RestoreInv, HasRow
<1>9. ResumeInv'
  BY <1>2, <1>4, FieldTypes DEF Inv, ResumeInv
<1>10. ResumeHolds' /\ SleeperInv'
  BY <1>2, <1>3, <1>6 DEF Inv, ResumeHolds, SleeperInv
<1> QED
  BY <1>5, <1>7, <1>8, <1>9, <1>10 DEF Inv

-----------------------------------------------------------------------------
(* The theorems *)

\* The invariant of the proofs: every step of the usage gate preserves it.
THEOREM InvAlways == Spec => []Inv
<1>1. Init => Inv
  BY InitInv
<1>2. Inv /\ [Next]_vars => Inv'
  <2> SUFFICES ASSUME Inv, [Next]_vars PROVE Inv'
    OBVIOUS
  <2>1. CASE Advance
    BY <2>1, AdvanceStep
  <2>2. CASE \E s \in Sessions, e \in Events : HandleRateLimit(s, e)
    BY <2>2, SignalStep
  <2>3. CASE \E r \in Readings : ApplyReading(r)
    BY <2>3, SignalStep
  <2>4. CASE Restart
    BY <2>4, RestartStep
  <2>5. ASSUME NEW s \in Sessions, NewTurn(s) PROVE Inv'
    BY <2>5, NewTurnStep
  <2>6. ASSUME NEW s \in Sessions, Dispatch(s) \/ ToolGate(s) \/ EndTurn(s) PROVE Inv'
    BY <2>6, LeaveStep
  <2>7. ASSUME NEW s \in Sessions, OnePass(s) PROVE Inv'
    BY <2>7, PassStep, FallAsleepStep DEF OnePass
  <2>8. ASSUME NEW s \in Sessions, RefreshProviderUsage(s) PROVE Inv'
    BY <2>8, SignalStep
  <2>9. ASSUME NEW s \in Sessions, SkipSleep(s) PROVE Inv'
    BY <2>9, SkipSleepStep
  <2>10. ASSUME NEW s \in Sessions, RestoreDurableTurns(s) PROVE Inv'
    BY <2>10, RestoreStep
  <2>11. CASE UNCHANGED vars
    BY <2>11
    DEF vars, Inv, TypeOK, CapInv, CapHolds, ResumeInv, ResumeHolds, ReleaseInv,
        SleeperInv, RestoreInv, HasRow
  <2> QED
    BY <2>1, <2>2, <2>3, <2>4, <2>5, <2>6, <2>7, <2>8, <2>9, <2>10, <2>11 DEF Next
<1> QED
  BY <1>1, <1>2, PTL DEF Spec

\* Every variable keeps its type: the rows, the calls and the usage maps.
THEOREM TypeCorrect == Spec => []TypeOK
<1>1. Inv => TypeOK
  BY DEF Inv
<1> QED
  BY <1>1, InvAlways, PTL

\* A capped sleep never outlasts the deadline the turn's row stored (capDeadline).
THEOREM CapHoldsAlways == Spec => []CapHolds
<1>1. Inv => CapHolds
  BY DEF Inv
<1> QED
  BY <1>1, InvAlways, PTL

\* Resume now releases every sleeping chat and none falls asleep again before
\* the reset it suppresses sleep until (skipSleep).
THEOREM ResumeHoldsAlways == Spec => []ResumeHolds
<1>1. Inv => ResumeHolds
  BY DEF Inv
<1> QED
  BY <1>1, InvAlways, PTL

\* A stored turn that Resume now released does not sleep again, also in the
\* process that restores it (onWake).
THEOREM ResumeSurvivesAlways == Spec => []ResumeSurvives
<1>1. Inv => ResumeSurvives
  BY DEF Inv, ReleaseInv, ResumeSurvives
<1> QED
  BY <1>1, InvAlways, PTL
=============================================================================
