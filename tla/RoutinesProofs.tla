--------------------------- MODULE RoutinesProofs ---------------------------
(***************************************************************************)
(* Proofs about Routines, for any routines, schedules and bounds: the type *)
(* invariant, the safety properties of runs and their notifications, and   *)
(* the two action properties.                                              *)
(***************************************************************************)
EXTENDS Routines, TLAPS, SequenceTheorems, WellFoundedInduction

\* Less-than on the natural numbers, as a well-founded relation.
LEMMA LessThanRelation ==
    \E R : IsWellFoundedOn(R, Nat) /\ \A m, n \in Nat : m < n => <<m, n>> \in R
<1> DEFINE R == {p \in Nat \X Nat : p[1] < p[2]}
<1>1. IsWellFoundedOn(R, Nat)
    BY NatLessThanWellFounded, Zenon DEF OpToRel
<1>2. \A m, n \in Nat : m < n => <<m, n>> \in R
    OBVIOUS
<1> QED BY <1>1, <1>2

\* The schedule has a first due time, and it is after t, or it has none.
LEMMA NextOccurrenceType ==
    ASSUME NEW s \in Schedules, NEW t \in Int
    PROVE  NextOccurrence(s, t) \in Nat /\ NextOccurrence(s, t) \in {NoTime} \cup {n \in Nat : n > t}
<1> DEFINE later == {o \in s : o > t}
<1>1. s \subseteq Nat
    BY SchedulesAssumption
<1>2. \E n \in s \cup {NoTime} : IsNextOccurrence(s, t, n)
    <2>1. CASE later = {}
        <3>1. IsNextOccurrence(s, t, NoTime)
            BY <2>1 DEF IsNextOccurrence
        <3> QED BY <3>1
    <2>2. CASE later # {}
        <3>0. later \subseteq Nat
            BY <1>1
        <3>1. PICK R : IsWellFoundedOn(R, Nat) /\ \A m, n \in Nat : m < n => <<m, n>> \in R
            BY LessThanRelation
        <3>2. PICK n \in later : \A m \in later : ~ (<<m, n>> \in R)
            <4> HIDE DEF later
            <4> QED BY <2>2, <3>0, <3>1, WFMin, Zenon
        <3>3. \A m \in later : n <= m
            <4>1. SUFFICES ASSUME NEW m \in later PROVE ~ (m < n)
                BY <3>0
            <4>2. m \in Nat /\ n \in Nat
                BY <3>0
            <4> QED BY <3>1, <3>2, <4>2
        <3>4. IsNextOccurrence(s, t, n)
            BY <3>3 DEF IsNextOccurrence
        <3> QED BY <3>4
    <2> QED BY <2>1, <2>2
<1>3. /\ NextOccurrence(s, t) \in s \cup {NoTime}
      /\ IsNextOccurrence(s, t, NextOccurrence(s, t))
    BY <1>2, Zenon DEF NextOccurrence
<1>4. s \cup {NoTime} \subseteq Nat
    BY <1>1 DEF NoTime
<1>5. NextOccurrence(s, t) = NoTime \/ NextOccurrence(s, t) > t
    BY <1>3 DEF IsNextOccurrence
<1> QED BY <1>3, <1>4, <1>5

LEMMA NextAtType ==
    ASSUME NEW s \in Schedules, NEW e \in BOOLEAN, NEW t \in Nat
    PROVE  NextAt(s, e, t) \in Nat /\ NextAt(s, e, t) \in {NoTime} \cup {n \in Nat : n >= t}
<1>1. t - 1 \in Int /\ \A n \in Nat : n > t - 1 => n >= t
    OBVIOUS
<1> QED BY <1>1, NextOccurrenceType DEF NextAt, NoTime

-----------------------------------------------------------------------------
(* The inductive invariant *)

\* drain leaves nothing pending, and one run is active.
OneAtATime == pending = <<>> /\ \A i, j \in active : i = j

\* The row of a run agrees with the stage of its execution.
StageInv == \A i \in DOMAIN runs :
    /\ execution[i].at = "none" <=> i \notin active
    /\ runs[i].status \in Live <=>
           execution[i].at \in {"starting", "checked", "running", "returned"}
    /\ execution[i].at \in {"returned", "finished", "reporting"} =>
           execution[i].result \in Notified
    /\ execution[i].at \in {"finished", "reporting"} => runs[i].status = execution[i].result

\* An event tells the outcome its row has, which is final.
EventInv == \A e \in events :
    runs[e.run].status \in Notified /\ e.reason = CompletionReason(runs[e.run].status)

\* No scheduled row is ahead of the clock, nor of what its routine has next.
NotAhead == \A i \in DOMAIN runs : runs[i].trigger = "scheduled" =>
    LET next == routines[runs[i].routine].next IN
    /\ runs[i].scheduledFor <= now
    /\ next # NoTime => runs[i].scheduledFor <= next

Inv == /\ TypeOK /\ OneAtATime /\ StageInv /\ NotAhead
       /\ OccurrencesInOrder /\ PausedUntilAnswered /\ EventInv

\* Append adds one index and keeps the others.
LEMMA AppendAt ==
    ASSUME NEW S, NEW q \in Seq(S), NEW e \in S
    PROVE  /\ Append(q, e) \in Seq(S)
           /\ Len(q) + 1 \notin DOMAIN q
           /\ DOMAIN Append(q, e) = DOMAIN q \cup {Len(q) + 1}
           /\ \A i \in DOMAIN q : Append(q, e)[i] = q[i]
           /\ Append(q, e)[Len(q) + 1] = e
BY AppendProperties, LenProperties

\* A run gains an entry of execution when it gains its row.
LEMMA NewExecution ==
    ASSUME TypeOK, NEW run \in Run
    PROVE  LET n == Len(runs) + 1  ex == Append(execution, NoExecution) IN
           /\ Append(runs, run) \in Seq(Run)
           /\ n \notin DOMAIN runs
           /\ DOMAIN Append(runs, run) = DOMAIN runs \cup {n}
           /\ \A i \in DOMAIN runs : Append(runs, run)[i] = runs[i]
           /\ Append(runs, run)[n] = run
           /\ ex \in [DOMAIN runs \cup {n} -> Execution]
           /\ \A i \in DOMAIN runs : ex[i] = execution[i]
           /\ ex[n] = NoExecution
<1> DEFINE n == Len(runs) + 1
<1>1. runs \in Seq(Run)
    BY DEF TypeOK
<1>2. Len(runs) \in Nat /\ DOMAIN runs = 1..Len(runs)
    BY <1>1, LenProperties
<1>3. NoExecution \in Execution
    BY DEF NoExecution, Execution, Stages, Statuses, Live
<1>4. execution \in Seq(Execution) /\ DOMAIN execution = DOMAIN runs
    BY <1>2, SeqDef DEF TypeOK
<1>5. Len(execution) = Len(runs)
    BY <1>2, <1>4, LenProperties
<1>6. Append(execution, NoExecution) \in [DOMAIN runs \cup {n} -> Execution]
    <2>1. Append(execution, NoExecution) \in Seq(Execution)
        BY <1>3, <1>4, AppendProperties
    <2>2. DOMAIN Append(execution, NoExecution) = DOMAIN runs \cup {n}
        BY <1>3, <1>4, <1>5, AppendAt
    <2> QED BY <2>1, <2>2, LenProperties
<1> QED BY <1>1, <1>3, <1>4, <1>5, <1>6, AppendAt

\* A claimed run starts at once, and its row is the last.
LEMMA ClaimEffect ==
    ASSUME TypeOK, OneAtATime, HasCapacity, NEW run \in Run, ClaimAndDrain(run)
    PROVE  LET n == Len(runs) + 1 IN
           /\ runs' \in Seq(Run)
           /\ n \notin DOMAIN runs
           /\ DOMAIN runs' = DOMAIN runs \cup {n}
           /\ \A i \in DOMAIN runs : runs'[i] = runs[i] /\ execution'[i] = execution[i]
           /\ runs'[n] = run
           /\ execution' \in [DOMAIN runs' -> Execution]
           /\ execution'[n] = [NoExecution EXCEPT !.at = "starting"]
           /\ active' = {n}
           /\ pending' = <<>>
<1> DEFINE n == Len(runs) + 1
<1> DEFINE ex == Append(execution, NoExecution)
<1>1. active = {} /\ pending = <<>>
    BY DEF HasCapacity
<1>2. Append(pending, n) = <<n>>
    BY <1>1
<1>3. Head(<<n>>) = n /\ Tail(<<n>>) = <<>> /\ <<n>> # <<>>
    OBVIOUS
<1>4. active' = {n} /\ pending' = <<>> /\ execution' = [ex EXCEPT ![n].at = "starting"]
    BY <1>1, <1>2, <1>3 DEF ClaimAndDrain, Drain
<1>5. runs' = Append(runs, run)
    BY DEF ClaimAndDrain
<1>6. [NoExecution EXCEPT !.at = "starting"] \in Execution
    BY DEF NoExecution, Execution, Stages, Statuses, Live
<1> HIDE DEF n, ex
<1>7. /\ Append(runs, run) \in Seq(Run)
      /\ n \notin DOMAIN runs
      /\ DOMAIN Append(runs, run) = DOMAIN runs \cup {n}
      /\ \A i \in DOMAIN runs : Append(runs, run)[i] = runs[i]
      /\ Append(runs, run)[n] = run
      /\ ex \in [DOMAIN runs \cup {n} -> Execution]
      /\ \A i \in DOMAIN runs : ex[i] = execution[i]
      /\ ex[n] = NoExecution
    BY NewExecution DEF n, ex
<1>8. execution' \in [DOMAIN runs' -> Execution]
    BY <1>4, <1>5, <1>6, <1>7
<1>9. execution'[n] = [NoExecution EXCEPT !.at = "starting"]
    BY <1>4, <1>7
<1>10. \A i \in DOMAIN runs : execution'[i] = execution[i]
    BY <1>4, <1>7
<1> QED BY <1>4, <1>5, <1>7, <1>8, <1>9, <1>10 DEF n

-----------------------------------------------------------------------------
(* Every step preserves it *)

LEMMA InitInv == Init => Inv
<1> SUFFICES ASSUME Init PROVE Inv
    OBVIOUS
<1>1. <<>> \in Seq(Run) /\ DOMAIN <<>> = {} /\ <<>> \in Seq({})
    OBVIOUS
<1>2. routines \in [RoutineIds -> Routine]
    <2>1. \A s \in Schedules, e \in BOOLEAN :
            [enabled |-> e, archived |-> FALSE, revision |-> 1, schedule |-> s,
             next |-> NextAt(s, e, 1)] \in Routine
        BY NextAtType DEF Routine
    <2> QED BY <2>1 DEF Init
<1>3. <<>> \in [{} -> Execution]
    OBVIOUS
<1>4. TypeOK
    BY <1>1, <1>2, <1>3, BoundsAssumption DEF Init, TypeOK
<1> QED BY <1>1, <1>4 DEF Init, Inv, OneAtATime, StageInv, NotAhead,
        OccurrencesInOrder, PausedUntilAnswered, EventInv

\* One routine changes, and keeps its type.
LEMMA RoutineChange ==
    ASSUME TypeOK, NEW r \in RoutineIds, NEW new \in Routine,
           routines' = [routines EXCEPT ![r] = new]
    PROVE  /\ routines' \in [RoutineIds -> Routine]
           /\ routines'[r] = new
           /\ \A u \in RoutineIds : u # r => routines'[u] = routines[u]
BY DEF TypeOK

\* The user's changes, and time, touch no run.
LEMMA UserStep ==
    ASSUME Inv, NEW r \in RoutineIds,
           Advance \/ UpdateRoutine(r) \/ SetRoutineEnabled(r) \/ ArchiveRoutine(r)
    PROVE  Inv'
<1> USE DEF Inv
<1>1. UNCHANGED <<runs, events, recorded, active, pending, execution, restarts, refusals>>
    BY DEF Advance, UpdateRoutine, SetRoutineEnabled, ArchiveRoutine, processVars, history
<1>2. routines[r] \in Routine /\ routines[r].schedule \in Schedules
    BY DEF TypeOK, Routine
<1>3. /\ now' \in Nat \ {0} /\ routines' \in [RoutineIds -> Routine]
      /\ attention' \subseteq RoutineIds /\ toggles' \in 0..MaxToggles
      /\ PausedUntilAnswered'
      /\ now' \in Nat /\ now <= now'
      /\ \A u \in RoutineIds : \/ routines'[u].next \in {NoTime, routines[u].next}
                               \/ routines'[u].next \in Nat /\ now <= routines'[u].next
    <2>1. CASE Advance
        BY <2>1 DEF Advance, TypeOK, history, PausedUntilAnswered
    <2>2. CASE UpdateRoutine(r)
        <3>1. PICK s \in Schedules, e \in BOOLEAN :
                /\ routines' = [routines EXCEPT ![r] = [routines[r] EXCEPT
                       !.schedule = s, !.enabled = e,
                       !.revision = routines[r].revision + 1, !.next = NextAt(s, e, now)]]
                /\ attention' = attention \ {r}
            BY <2>2 DEF UpdateRoutine
        <3>2. /\ NextAt(s, e, now) \in Nat /\ routines[r].revision + 1 \in Nat
              /\ NextAt(s, e, now) = NoTime \/ now <= NextAt(s, e, now)
            <4>1. /\ NextAt(s, e, now) \in Nat
                  /\ NextAt(s, e, now) = NoTime \/ now <= NextAt(s, e, now)
                BY NextAtType DEF TypeOK
            <4>2. routines[r].revision \in Nat
                BY <1>2 DEF Routine
            <4> QED BY <4>1, <4>2
        <3>3. [routines[r] EXCEPT !.schedule = s, !.enabled = e,
                   !.revision = routines[r].revision + 1, !.next = NextAt(s, e, now)] \in Routine
            <4> \A R \in Routine, n, v \in Nat :
                    [R EXCEPT !.schedule = s, !.enabled = e, !.revision = v, !.next = n] \in Routine
                BY DEF Routine
            <4> QED BY <1>2, <3>2
        <3>4. /\ routines' \in [RoutineIds -> Routine]
              /\ routines'[r].next = NextAt(s, e, now)
              /\ \A u \in RoutineIds : u # r => routines'[u] = routines[u]
            BY <1>2, <3>1, <3>3, RoutineChange DEF Routine
        <3>5. UNCHANGED <<now, toggles>>
            BY <2>2 DEF UpdateRoutine
        <3>6. now \in Nat
            BY DEF TypeOK
        <3> QED BY <3>1, <3>2, <3>4, <3>5, <3>6 DEF TypeOK, PausedUntilAnswered
    <2>3. CASE SetRoutineEnabled(r)
        <3>1. PICK e \in BOOLEAN :
                /\ routines' = [routines EXCEPT ![r] = [routines[r] EXCEPT
                       !.enabled = e, !.next = NextAt(routines[r].schedule, e, now)]]
                /\ attention' = attention \ {r}
            BY <2>3 DEF SetRoutineEnabled
        <3>2. /\ now \in Nat /\ NextAt(routines[r].schedule, e, now) \in Nat
              /\ \/ NextAt(routines[r].schedule, e, now) = NoTime
                 \/ now <= NextAt(routines[r].schedule, e, now)
            BY <1>2, NextAtType DEF TypeOK
        <3>3. [routines[r] EXCEPT !.enabled = e,
                   !.next = NextAt(routines[r].schedule, e, now)] \in Routine
            BY <1>2, <3>2 DEF Routine
        <3>4. /\ routines' \in [RoutineIds -> Routine]
              /\ routines'[r].next = NextAt(routines[r].schedule, e, now)
              /\ \A u \in RoutineIds : u # r => routines'[u] = routines[u]
            BY <1>2, <3>1, <3>3, RoutineChange DEF Routine
        <3>5. now' = now /\ toggles < MaxToggles /\ toggles' = toggles + 1
            BY <2>3 DEF SetRoutineEnabled
        <3>6. toggles' \in 0..MaxToggles
            BY <3>5, BoundsAssumption DEF TypeOK
        <3> QED BY <3>1, <3>2, <3>4, <3>5, <3>6 DEF TypeOK, PausedUntilAnswered
    <2>4. CASE ArchiveRoutine(r)
        <3>1. [routines[r] EXCEPT !.archived = TRUE, !.enabled = FALSE, !.next = NoTime] \in Routine
            BY <1>2 DEF Routine, NoTime
        <3>2. LET R == [routines[r] EXCEPT !.archived = TRUE, !.enabled = FALSE, !.next = NoTime]
              IN ~R.enabled /\ R.next = NoTime
            BY <1>2 DEF Routine
        <3>3. /\ routines' \in [RoutineIds -> Routine]
              /\ ~routines'[r].enabled /\ routines'[r].next = NoTime
              /\ \A u \in RoutineIds : u # r => routines'[u] = routines[u]
            BY <2>4, <3>1, <3>2, RoutineChange DEF ArchiveRoutine
        <3>4. now \in Nat /\ UNCHANGED <<now, attention, toggles>>
            BY <2>4 DEF ArchiveRoutine, history, TypeOK
        <3>5. /\ now' \in Nat \ {0} /\ attention' \subseteq RoutineIds
              /\ toggles' \in 0..MaxToggles /\ PausedUntilAnswered'
            BY <3>3, <3>4 DEF TypeOK, PausedUntilAnswered
        <3>6. \A u \in RoutineIds : routines'[u].next \in {NoTime, routines[u].next}
            BY <3>3
        <3> QED BY <3>3, <3>4, <3>5, <3>6
    <2> QED BY <2>1, <2>2, <2>3, <2>4
<1>4. TypeOK'
    BY <1>1, <1>3 DEF TypeOK
<1>5. NotAhead'
    <2>1. SUFFICES ASSUME NEW i \in DOMAIN runs, runs[i].trigger = "scheduled",
                          NEW u, u = runs[i].routine
                   PROVE  /\ runs[i].scheduledFor <= now'
                          /\ routines'[u].next # NoTime => runs[i].scheduledFor <= routines'[u].next
        BY <1>1 DEF NotAhead
    <2>2. /\ u \in RoutineIds /\ runs[i].scheduledFor \in Nat /\ now \in Nat
          /\ runs[i].scheduledFor <= now
          /\ routines[u].next # NoTime => runs[i].scheduledFor <= routines[u].next
        <3>1. runs[i] \in Run /\ now \in Nat
            BY LenProperties DEF TypeOK
        <3> QED BY <2>1, <3>1 DEF NotAhead, Run
    <2> QED BY <1>3, <2>1, <2>2
<1> QED BY <1>1, <1>3, <1>4, <1>5 DEF OneAtATime, StageInv, OccurrencesInOrder, EventInv

\* A row joins the table: a claimed one that starts, or one that never runs.
LEMMA AddRun ==
    ASSUME Inv, NEW n, n = Len(runs) + 1,
           runs' \in Seq(Run), DOMAIN runs' = DOMAIN runs \cup {n},
           execution' \in [DOMAIN runs' -> Execution],
           \A i \in DOMAIN runs : runs'[i] = runs[i] /\ execution'[i] = execution[i],
           NotAhead',
           runs'[n].trigger = "scheduled" => \A i \in DOMAIN runs :
               runs[i].trigger = "scheduled" /\ runs[i].routine = runs'[n].routine =>
                   runs[i].scheduledFor < runs'[n].scheduledFor,
           HasCapacity, pending' = <<>>,
           \/ active' = {n} /\ execution'[n].at = "starting" /\ runs'[n].status = "claimed"
           \/ active' = {} /\ execution'[n].at = "none" /\ runs'[n].status \notin Live,
           routines' \in [RoutineIds -> Routine], PausedUntilAnswered',
           UNCHANGED <<now, events, recorded, history>>
    PROVE  Inv'
<1> USE DEF Inv
<1>1. TypeOK'
    <2>1. pending' \in Seq(DOMAIN runs')
        OBVIOUS
    <2>2. events' \subseteq [run : DOMAIN runs', reason : Reasons]
        BY DEF TypeOK
    <2>3. active' \subseteq DOMAIN runs'
        OBVIOUS
    <2> QED BY <2>1, <2>2, <2>3 DEF TypeOK, history
<1>2. OneAtATime'
    BY DEF OneAtATime
<1>3. active = {}
    BY DEF HasCapacity
<1>4. StageInv'
    <2>1. SUFFICES ASSUME NEW i \in DOMAIN runs'
                   PROVE  /\ execution'[i].at = "none" <=> i \notin active'
                          /\ runs'[i].status \in Live <=>
                                execution'[i].at \in {"starting", "checked", "running", "returned"}
                          /\ execution'[i].at \in {"returned", "finished", "reporting"} =>
                                execution'[i].result \in Notified
                          /\ execution'[i].at \in {"finished", "reporting"} =>
                                runs'[i].status = execution'[i].result
        BY DEF StageInv
    <2>2. CASE i = n
        BY <2>2 DEF Live
    <2>3. CASE i \in DOMAIN runs
        BY <1>3, <2>3 DEF StageInv
    <2> QED BY <2>2, <2>3
<1>5. OccurrencesInOrder'
    <2>1. SUFFICES ASSUME NEW i \in DOMAIN runs', NEW j \in DOMAIN runs', i < j,
                          runs'[i].trigger = "scheduled", runs'[j].trigger = "scheduled",
                          runs'[i].routine = runs'[j].routine
                   PROVE  runs'[i].scheduledFor < runs'[j].scheduledFor
        BY DEF OccurrencesInOrder
    <2>2. CASE i \in DOMAIN runs /\ j \in DOMAIN runs
        BY <2>1, <2>2 DEF OccurrencesInOrder
    <2>3. CASE i \in DOMAIN runs /\ j = n
        BY <2>1, <2>3
    <2>4. CASE i = n
        <3>1. DOMAIN runs = 1..Len(runs) /\ Len(runs) \in Nat
            BY LenProperties DEF TypeOK
        <3> QED BY <2>1, <2>4, <3>1
    <2> QED BY <2>2, <2>3, <2>4
<1>6. EventInv'
    <2>1. \A e \in events : e.run \in DOMAIN runs
        BY DEF TypeOK
    <2> QED BY <2>1 DEF EventInv
<1> QED BY <1>1, <1>2, <1>4, <1>5, <1>6

\* What the scheduler and Run now write.
LEMMA NewRunType ==
    ASSUME TypeOK, NEW r \in RoutineIds, NEW trigger \in {"scheduled", "manual"},
           NEW at \in Nat, NEW status \in Statuses
    PROVE  NewRun(r, trigger, at, status) \in Run
<1>1. routines[r].revision \in Nat /\ now \in Nat
    BY DEF TypeOK, Routine
<1>2. (IF status \in Live THEN now ELSE NoTime) \in Nat
      /\ (IF status \in Live THEN NoTime ELSE now) \in Nat
    BY <1>1 DEF NoTime
<1> QED BY <1>1, <1>2 DEF NewRun, Run

LEMMA TickStep ==
    ASSUME Inv, NEW r \in RoutineIds, Tick(r)
    PROVE  Inv'
<1> USE DEF Inv
<1> DEFINE at == routines[r].next
<1> DEFINE next == NextOccurrence(routines[r].schedule, now)
<1> DEFINE enabled == IF Verdict(r) = "claimed" THEN next # NoTime ELSE routines[r].enabled
<1>1. /\ HasCapacity /\ r \in Due
      /\ routines' = [routines EXCEPT ![r] = [routines[r] EXCEPT !.next = next, !.enabled = enabled]]
      /\ UNCHANGED <<now, events, recorded, history>>
    BY DEF Tick
<1>2. routines[r] \in Routine /\ routines[r].schedule \in Schedules
    BY DEF TypeOK, Routine
<1>3. next \in Nat /\ (next = NoTime \/ next > now)
    <2>1. now \in Int
        BY DEF TypeOK
    <2> QED BY <1>2, <2>1, NextOccurrenceType
<1>4. enabled \in BOOLEAN
    BY <1>2 DEF Routine
<1>5. [routines[r] EXCEPT !.next = next, !.enabled = enabled] \in Routine
    <2>1. \A R \in Routine, n \in Nat, e \in BOOLEAN :
            [R EXCEPT !.next = n, !.enabled = e] \in Routine
        BY DEF Routine
    <2> HIDE DEF next, enabled
    <2> QED BY <1>2, <1>3, <1>4, <2>1
<1>6. /\ routines' \in [RoutineIds -> Routine]
      /\ routines'[r].next = next
      /\ \A u \in RoutineIds : u # r => routines'[u] = routines[u]
    <2>1. \A R \in Routine, n \in Nat, e \in BOOLEAN :
            [R EXCEPT !.next = n, !.enabled = e].next = n
        BY DEF Routine
    <2>2. [routines[r] EXCEPT !.next = next, !.enabled = enabled].next = next
        BY <1>2, <1>3, <1>4, <2>1
    <2> HIDE DEF next, enabled
    <2> QED BY <1>1, <1>5, <2>2, RoutineChange
<1>7. PausedUntilAnswered'
    <2>1. r \notin attention
        BY <1>1 DEF Due, PausedUntilAnswered
    <2> QED BY <1>1, <1>6, <2>1 DEF PausedUntilAnswered, TypeOK, history
<1>11. /\ at \in Nat /\ at <= now /\ now \in Nat
       /\ \A i \in DOMAIN runs : runs[i].trigger = "scheduled" =>
             /\ runs[i].scheduledFor \in Nat /\ runs[i].routine \in RoutineIds
             /\ runs[i].scheduledFor <= now
             /\ runs[i].routine = r => runs[i].scheduledFor <= at
             /\ routines'[runs[i].routine].next # NoTime =>
                   runs[i].scheduledFor <= routines'[runs[i].routine].next
    <2>1. at \in Nat /\ at # NoTime /\ at <= now /\ now \in Nat
        BY <1>1, <1>2 DEF Due, TypeOK, Routine
    <2>2. \A i \in DOMAIN runs : runs[i].scheduledFor \in Nat /\ runs[i].routine \in RoutineIds
        <3>1. \A i \in DOMAIN runs : runs[i] \in Run
            BY LenProperties DEF TypeOK
        <3> QED BY <3>1 DEF Run
    <2>3. SUFFICES ASSUME NEW i \in DOMAIN runs, runs[i].trigger = "scheduled", NEW u, u = runs[i].routine
                   PROVE  /\ runs[i].scheduledFor <= now
                          /\ u = r => runs[i].scheduledFor <= at
                          /\ routines'[u].next # NoTime => runs[i].scheduledFor <= routines'[u].next
        BY <2>1, <2>2
    <2>4. /\ runs[i].scheduledFor <= now
          /\ routines[u].next # NoTime => runs[i].scheduledFor <= routines[u].next
        BY <2>3 DEF NotAhead
    <2> HIDE DEF next
    <2> QED BY <1>3, <1>6, <2>1, <2>2, <2>3, <2>4
\* The new row, if any, is behind the clock and behind what the routine has next.
<1>12. ASSUME ~Taken(r, at, "scheduled"), NEW run, run.routine = r, run.scheduledFor = at,
              DOMAIN runs' = DOMAIN runs \cup {Len(runs) + 1},
              \A i \in DOMAIN runs : runs'[i] = runs[i], runs'[Len(runs) + 1] = run
       PROVE  /\ NotAhead'
              /\ \A i \in DOMAIN runs :
                    runs[i].trigger = "scheduled" /\ runs[i].routine = run.routine =>
                        runs[i].scheduledFor < run.scheduledFor
    <2>1. \A i \in DOMAIN runs : runs[i].trigger = "scheduled" /\ runs[i].routine = r =>
            runs[i].scheduledFor # at
        BY <1>12 DEF Taken
    <2> HIDE DEF at, next
    <2>2. at <= now /\ (routines'[r].next # NoTime => at <= routines'[r].next)
        BY <1>3, <1>6, <1>11
    <2> QED BY <1>1, <1>11, <1>12, <2>1, <2>2 DEF NotAhead
<1>8. CASE Taken(r, at, "scheduled")
    <2>1. UNCHANGED <<runs, active, pending, execution>>
        BY <1>8 DEF Tick, processVars
    <2>2. NotAhead'
        BY <1>1, <1>11, <2>1 DEF NotAhead
    <2> QED BY <1>1, <1>6, <1>7, <2>1, <2>2 DEF TypeOK, OneAtATime, StageInv,
            OccurrencesInOrder, EventInv, history
<1>9. CASE ~Taken(r, at, "scheduled") /\ Verdict(r) = "claimed"
    <2> DEFINE run == NewRun(r, "scheduled", at, "claimed")
    <2>1. ClaimAndDrain(run)
        BY <1>9 DEF Tick
    <2>2. run \in Run
        BY <1>2, NewRunType DEF Routine, Statuses, Live
    <2>3. run.trigger = "scheduled" /\ run.routine = r /\ run.scheduledFor = at /\ run.status = "claimed"
        BY DEF NewRun
    <2>4. ([NoExecution EXCEPT !.at = "starting"]).at = "starting"
        BY DEF NoExecution
    <2> HIDE DEF run, at, next
    <2> QED BY <1>1, <1>6, <1>7, <1>9, <1>12, <2>1, <2>2, <2>3, <2>4, ClaimEffect, AddRun
<1>10. CASE ~Taken(r, at, "scheduled") /\ Verdict(r) # "claimed"
    <2> DEFINE run == NewRun(r, "scheduled", at, Verdict(r))
    <2>1. /\ runs' = Append(runs, run)
          /\ execution' = Append(execution, NoExecution)
          /\ UNCHANGED <<active, pending>>
        BY <1>10 DEF Tick
    <2>2. Verdict(r) \in {"skipped_overlap", "missed"}
        BY <1>10 DEF Verdict
    <2>3. run \in Run
        BY <1>2, <2>2, NewRunType DEF Routine, Statuses
    <2>4. run.routine = r /\ run.scheduledFor = at /\ run.status \notin Live
        BY <2>2 DEF NewRun, Live
    <2>5. NoExecution.at = "none"
        BY DEF NoExecution
    <2>6. active = {} /\ pending = <<>>
        BY <1>1 DEF HasCapacity
    <2> HIDE DEF run, at, next
    <2> QED BY <1>1, <1>6, <1>7, <1>10, <1>12, <2>1, <2>3, <2>4, <2>5, <2>6, NewExecution, AddRun
<1> QED BY <1>8, <1>9, <1>10

LEMMA RunNowStep ==
    ASSUME Inv, NEW r \in RoutineIds, RunNow(r)
    PROVE  Inv'
<1> USE DEF Inv
<1> DEFINE run == NewRun(r, "manual", now, "claimed")
<1>1. HasCapacity /\ ClaimAndDrain(run) /\ UNCHANGED <<now, routines, events, recorded, history>>
    BY DEF RunNow
<1>2. run \in Run
    BY NewRunType DEF TypeOK, Statuses, Live
<1>3. run.trigger # "scheduled" /\ run.status = "claimed"
    BY DEF NewRun
<1>4. ([NoExecution EXCEPT !.at = "starting"]).at = "starting"
    BY DEF NoExecution
<1>5. routines' \in [RoutineIds -> Routine] /\ PausedUntilAnswered'
    BY <1>1 DEF TypeOK, PausedUntilAnswered, history
<1>6. ASSUME DOMAIN runs' = DOMAIN runs \cup {Len(runs) + 1},
             \A i \in DOMAIN runs : runs'[i] = runs[i], runs'[Len(runs) + 1] = run
      PROVE  NotAhead'
    BY <1>1, <1>3, <1>6 DEF NotAhead
<1> HIDE DEF run
<1> QED BY <1>1, <1>2, <1>3, <1>4, <1>5, <1>6, ClaimEffect, AddRun

-----------------------------------------------------------------------------
(* The steps of a run *)

\* One row changes, and keeps its type.
LEMMA RowChange ==
    ASSUME TypeOK, NEW i \in DOMAIN runs, NEW new \in Run,
           runs' = [runs EXCEPT ![i] = new]
    PROVE  /\ runs' \in Seq(Run)
           /\ DOMAIN runs' = DOMAIN runs
           /\ runs'[i] = new
           /\ \A j \in DOMAIN runs : j # i => runs'[j] = runs[j]
<1>1. runs \in Seq(Run) /\ i \in 1..Len(runs)
    BY LenProperties DEF TypeOK
<1> QED BY <1>1, ExceptSeq

\* One execution changes, and keeps its type.
LEMMA StageChange ==
    ASSUME TypeOK, NEW i \in DOMAIN runs, NEW new \in Execution,
           execution' = [execution EXCEPT ![i] = new]
    PROVE  /\ execution' \in [DOMAIN runs -> Execution]
           /\ execution'[i] = new
           /\ \A j \in DOMAIN runs : j # i => execution'[j] = execution[j]
BY DEF TypeOK

\* What a step of run i may do: the row keeps its occurrence, and its status
\* once it is final; the stage and the row agree.
LEMMA RunStepInv ==
    ASSUME Inv, NEW i \in DOMAIN runs,
           runs' \in Seq(Run), DOMAIN runs' = DOMAIN runs,
           execution' \in [DOMAIN runs -> Execution],
           \A j \in DOMAIN runs : j # i => runs'[j] = runs[j] /\ execution'[j] = execution[j],
           runs'[i].routine = runs[i].routine,
           runs'[i].scheduledFor = runs[i].scheduledFor,
           runs'[i].trigger = runs[i].trigger,
           runs'[i].status = runs[i].status \/ runs[i].status \in Live,
           execution[i].at # "none", execution'[i].at # "none",
           runs'[i].status \in Live <=>
               execution'[i].at \in {"starting", "checked", "running", "returned"},
           execution'[i].at \in {"returned", "finished", "reporting"} =>
               execution'[i].result \in Notified,
           execution'[i].at \in {"finished", "reporting"} =>
               runs'[i].status = execution'[i].result,
           routines' \in [RoutineIds -> Routine], attention' \subseteq RoutineIds,
           PausedUntilAnswered',
           \A u \in RoutineIds : routines'[u].next \in {NoTime, routines[u].next},
           UNCHANGED <<now, events, recorded, active, pending, toggles, restarts, refusals>>
    PROVE  Inv'
<1> USE DEF Inv
<1>1. TypeOK'
    BY DEF TypeOK
<1>2. OneAtATime'
    BY DEF OneAtATime
<1>3. StageInv'
    <2>1. SUFFICES ASSUME NEW j \in DOMAIN runs
                   PROVE  /\ execution'[j].at = "none" <=> j \notin active
                          /\ runs'[j].status \in Live <=>
                                execution'[j].at \in {"starting", "checked", "running", "returned"}
                          /\ execution'[j].at \in {"returned", "finished", "reporting"} =>
                                execution'[j].result \in Notified
                          /\ execution'[j].at \in {"finished", "reporting"} =>
                                runs'[j].status = execution'[j].result
        BY DEF StageInv
    <2>2. CASE j = i
        BY <2>2 DEF StageInv
    <2>3. CASE j # i
        BY <2>3 DEF StageInv
    <2> QED BY <2>2, <2>3
<1>4. OccurrencesInOrder' /\ NotAhead'
    <2>1. \A j \in DOMAIN runs : /\ runs'[j].routine = runs[j].routine
                                 /\ runs'[j].scheduledFor = runs[j].scheduledFor
                                 /\ runs'[j].trigger = runs[j].trigger
        OBVIOUS
    <2>2. OccurrencesInOrder'
        BY <2>1 DEF OccurrencesInOrder
    <2>3. \A j \in DOMAIN runs : runs[j].routine \in RoutineIds
        <3>1. \A j \in DOMAIN runs : runs[j] \in Run
            BY LenProperties DEF TypeOK
        <3> QED BY <3>1 DEF Run
    <2>4. NotAhead'
        BY <2>1, <2>3 DEF NotAhead
    <2> QED BY <2>2, <2>4
<1>5. EventInv'
    <2>1. \A e \in events : e.run \in DOMAIN runs
        BY DEF TypeOK
    <2>2. \A s \in Live : s \notin Notified
        BY DEF Live, Notified
    <2>3. SUFFICES ASSUME NEW e \in events
                   PROVE  runs'[e.run].status = runs[e.run].status
        BY <2>1 DEF EventInv
    <2>4. runs[e.run].status \notin Live
        BY <2>2 DEF EventInv
    <2> QED BY <2>1, <2>4
<1> QED BY <1>1, <1>2, <1>3, <1>4, <1>5

LEMMA CheckRevisionStep ==
    ASSUME Inv, NEW i \in DOMAIN runs, CheckRevision(i)
    PROVE  Inv'
<1> USE DEF Inv
<1>1. execution[i] \in Execution /\ runs[i].status \in Live
    BY DEF CheckRevision, TypeOK, StageInv
<1>2. PICK new \in Execution :
        /\ execution' = [execution EXCEPT ![i] = new]
        /\ \/ new.at = "checked"
           \/ new.at = "returned" /\ new.result = "failed"
    <2>1. CASE routines[runs[i].routine].revision = runs[i].revision
        <3>1. [execution[i] EXCEPT !.at = "checked"] \in Execution
            BY <1>1 DEF Execution, Stages
        <3> QED BY <1>1, <2>1, <3>1 DEF CheckRevision, MoveTo, Execution
    <2>2. CASE routines[runs[i].routine].revision # runs[i].revision
        <3>1. [execution[i] EXCEPT !.at = "returned", !.result = "failed"] \in Execution
            BY <1>1 DEF Execution, Stages, Statuses, Notified
        <3>2. execution' = [execution EXCEPT ![i] =
                  [execution[i] EXCEPT !.at = "returned", !.result = "failed"]]
            BY <2>2 DEF CheckRevision, ReturnWith, TypeOK
        <3> QED BY <1>1, <3>1, <3>2 DEF Execution
    <2> QED BY <2>1, <2>2
<1>3. /\ execution' \in [DOMAIN runs -> Execution]
      /\ execution'[i] = new
      /\ \A j \in DOMAIN runs : j # i => execution'[j] = execution[j]
    BY <1>2, StageChange
<1>4. execution[i].at = "starting" /\ UNCHANGED <<now, routines, runs, events, recorded,
            active, pending, attention, toggles, restarts, refusals>>
    BY DEF CheckRevision, history
<1>5. runs \in Seq(Run) /\ routines \in [RoutineIds -> Routine] /\ attention \subseteq RoutineIds
    BY DEF TypeOK
<1>6. PausedUntilAnswered'
    BY <1>4 DEF PausedUntilAnswered
<1> QED BY <1>1, <1>2, <1>3, <1>4, <1>5, <1>6, RunStepInv DEF Notified, Live

LEMMA FailToStartStep ==
    ASSUME Inv, NEW i \in DOMAIN runs, FailToStart(i)
    PROVE  Inv'
<1> USE DEF Inv
<1>1. execution[i] \in Execution /\ runs[i].status \in Live
    BY DEF FailToStart, TypeOK, StageInv
<1>2. PICK result \in {"provider_unavailable", "failed"} : ReturnWith(i, result)
    BY DEF FailToStart
<1>3. [execution[i] EXCEPT !.at = "returned", !.result = result] \in Execution
    BY <1>1 DEF Execution, Stages, Statuses, Notified
<1>4. execution' = [execution EXCEPT ![i] =
          [execution[i] EXCEPT !.at = "returned", !.result = result]]
    BY <1>2 DEF ReturnWith, TypeOK
<1>5. /\ execution' \in [DOMAIN runs -> Execution]
      /\ execution'[i].at = "returned" /\ execution'[i].result = result
      /\ \A j \in DOMAIN runs : j # i => execution'[j] = execution[j]
    BY <1>1, <1>3, <1>4, StageChange DEF Execution
<1>6. execution[i].at = "checked" /\ UNCHANGED <<now, routines, runs, events, recorded,
            active, pending, attention, toggles, restarts, refusals>>
    BY DEF FailToStart, history
<1>7. runs \in Seq(Run) /\ routines \in [RoutineIds -> Routine] /\ attention \subseteq RoutineIds
    BY DEF TypeOK
<1>8. PausedUntilAnswered'
    BY <1>6 DEF PausedUntilAnswered
<1>9. result \in Notified
    BY DEF Notified
<1> QED BY <1>1, <1>5, <1>6, <1>7, <1>8, <1>9, RunStepInv

LEMMA MarkRunningStep ==
    ASSUME Inv, NEW i \in DOMAIN runs, MarkRoutineRunRunning(i)
    PROVE  Inv'
<1> USE DEF Inv
<1> DEFINE status == IF runs[i].status = "claimed" THEN "running" ELSE runs[i].status
<1>1. execution[i] \in Execution /\ runs[i] \in Run /\ runs[i].status \in Live
    BY LenProperties DEF MarkRoutineRunRunning, TypeOK, StageInv
<1>2. status \in Live
    BY <1>1 DEF Live
<1>3. [runs[i] EXCEPT !.status = status] \in Run
    BY <1>1, <1>2 DEF Run, Statuses
<1>4. runs' = [runs EXCEPT ![i] = [runs[i] EXCEPT !.status = status]]
    BY DEF MarkRoutineRunRunning
<1>5. [execution[i] EXCEPT !.at = "running"] \in Execution
    BY <1>1 DEF Execution, Stages
<1>6. execution' = [execution EXCEPT ![i] = [execution[i] EXCEPT !.at = "running"]]
    BY DEF MarkRoutineRunRunning, MoveTo
<1> HIDE DEF status
<1>7. /\ execution' \in [DOMAIN runs -> Execution]
      /\ execution'[i].at = "running"
      /\ \A j \in DOMAIN runs : j # i => execution'[j] = execution[j]
    BY <1>1, <1>5, <1>6, StageChange DEF Execution
<1>8. /\ runs' \in Seq(Run) /\ DOMAIN runs' = DOMAIN runs
      /\ runs'[i] = [runs[i] EXCEPT !.status = status]
      /\ \A j \in DOMAIN runs : j # i => runs'[j] = runs[j]
    BY <1>3, <1>4, RowChange
<1>9. /\ runs'[i].routine = runs[i].routine /\ runs'[i].scheduledFor = runs[i].scheduledFor
      /\ runs'[i].trigger = runs[i].trigger /\ runs'[i].status = status
    BY <1>1, <1>8 DEF Run
<1>10. execution[i].at = "checked" /\ UNCHANGED <<now, routines, events, recorded,
            active, pending, attention, toggles, restarts, refusals>>
    BY DEF MarkRoutineRunRunning, history
<1>11. routines \in [RoutineIds -> Routine] /\ attention \subseteq RoutineIds
    BY DEF TypeOK
<1>12. PausedUntilAnswered'
    BY <1>10 DEF PausedUntilAnswered
<1> QED BY <1>1, <1>2, <1>7, <1>8, <1>9, <1>10, <1>11, <1>12, RunStepInv

\* Pausing the routine of a run keeps its user waiting.
LEMMA PauseEffect ==
    ASSUME TypeOK, PausedUntilAnswered, NEW r \in RoutineIds,
           routines' = [routines EXCEPT ![r] = Paused(routines[r])],
           attention' = attention \cup {r}
    PROVE  /\ routines' \in [RoutineIds -> Routine]
           /\ attention' \subseteq RoutineIds
           /\ PausedUntilAnswered'
           /\ \A u \in RoutineIds : routines'[u].next \in {NoTime, routines[u].next}
<1>1. routines[r] \in Routine
    BY DEF TypeOK
<1>2. /\ Paused(routines[r]) \in Routine /\ ~Paused(routines[r]).enabled
      /\ Paused(routines[r]).next = NoTime
    <2>1. \A R \in Routine, n \in Nat :
            /\ [R EXCEPT !.enabled = FALSE, !.next = n] \in Routine
            /\ ~([R EXCEPT !.enabled = FALSE, !.next = n]).enabled
            /\ ([R EXCEPT !.enabled = FALSE, !.next = n]).next = n
        BY DEF Routine
    <2> QED BY <1>1, <2>1 DEF Paused, NoTime
<1>3. /\ routines' \in [RoutineIds -> Routine] /\ ~routines'[r].enabled
      /\ routines'[r].next = NoTime
      /\ \A u \in RoutineIds : u # r => routines'[u] = routines[u]
    BY <1>2, RoutineChange
<1> QED BY <1>3 DEF TypeOK, PausedUntilAnswered

LEMMA ActionRequiredStep ==
    ASSUME Inv, NEW i \in DOMAIN runs, ActionRequired(i)
    PROVE  Inv'
<1> USE DEF Inv
<1>1. execution[i] \in Execution /\ runs[i] \in Run /\ runs[i].status \in Live
    <2>1. runs[i] \in Run
        BY LenProperties DEF TypeOK
    <2> QED BY <2>1 DEF ActionRequired, TypeOK, StageInv
<1>2. [execution[i] EXCEPT !.actionRequired = TRUE] \in Execution
    BY <1>1 DEF Execution
<1>3. execution' = [execution EXCEPT ![i] = [execution[i] EXCEPT !.actionRequired = TRUE]]
    BY DEF ActionRequired
<1>4. /\ execution' \in [DOMAIN runs -> Execution]
      /\ execution'[i].at = "running"
      /\ \A j \in DOMAIN runs : j # i => execution'[j] = execution[j]
    <2>1. execution[i].at = "running"
        BY DEF ActionRequired
    <2> QED BY <1>1, <1>2, <1>3, <2>1, StageChange DEF Execution
<1>5. execution[i].at = "running" /\ UNCHANGED <<now, runs, events, recorded,
            active, pending, toggles, restarts, refusals>>
    BY DEF ActionRequired
<1>6. runs[i].routine \in RoutineIds /\ runs \in Seq(Run)
    BY <1>1 DEF Run, TypeOK
<1>7. /\ routines' \in [RoutineIds -> Routine]
      /\ attention' \subseteq RoutineIds
      /\ PausedUntilAnswered'
      /\ \A u \in RoutineIds : routines'[u].next \in {NoTime, routines[u].next}
    BY <1>6, PauseEffect DEF ActionRequired
<1> QED BY <1>1, <1>4, <1>5, <1>6, <1>7, RunStepInv

LEMMA RunReturnsStep ==
    ASSUME Inv, NEW i \in DOMAIN runs, RunReturns(i)
    PROVE  Inv'
<1> USE DEF Inv
<1>1. execution[i] \in Execution /\ runs[i].status \in Live
    BY DEF RunReturns, TypeOK, StageInv
<1>2. PICK result \in {"action_required", "succeeded", "failed", "delivery_error"} :
        ReturnWith(i, result)
    BY DEF RunReturns
<1>3. [execution[i] EXCEPT !.at = "returned", !.result = result] \in Execution
    BY <1>1 DEF Execution, Stages, Statuses, Notified
<1>4. execution' = [execution EXCEPT ![i] =
          [execution[i] EXCEPT !.at = "returned", !.result = result]]
    BY <1>2 DEF ReturnWith, TypeOK
<1>5. /\ execution' \in [DOMAIN runs -> Execution]
      /\ execution'[i].at = "returned" /\ execution'[i].result = result
      /\ \A j \in DOMAIN runs : j # i => execution'[j] = execution[j]
    BY <1>1, <1>3, <1>4, StageChange DEF Execution
<1>6. execution[i].at = "running" /\ UNCHANGED <<now, routines, runs, events, recorded,
            active, pending, attention, toggles, restarts, refusals>>
    BY DEF RunReturns, history
<1>7. runs \in Seq(Run) /\ routines \in [RoutineIds -> Routine] /\ attention \subseteq RoutineIds
    BY DEF TypeOK
<1>8. PausedUntilAnswered'
    BY <1>6 DEF PausedUntilAnswered
<1>9. result \in Notified
    BY DEF Notified
<1> QED BY <1>1, <1>5, <1>6, <1>7, <1>8, <1>9, RunStepInv

LEMMA FinishStep ==
    ASSUME Inv, NEW i \in DOMAIN runs, FinishRoutineRun(i)
    PROVE  Inv'
<1> USE DEF Inv
<1> DEFINE result == execution[i].result
<1>1. /\ execution[i] \in Execution /\ runs[i] \in Run /\ runs[i].status \in Live
      /\ result \in Notified /\ now \in Nat
    BY LenProperties DEF FinishRoutineRun, TypeOK, StageInv
<1>2. [runs[i] EXCEPT !.status = result, !.finishedAt = now] \in Run
    <2>1. \A R \in Run, st \in Statuses, n \in Nat :
            [R EXCEPT !.status = st, !.finishedAt = n] \in Run
        BY DEF Run
    <2> HIDE DEF result
    <2> QED BY <1>1, <2>1 DEF Statuses
<1>3. runs' = [runs EXCEPT ![i] = [runs[i] EXCEPT !.status = result, !.finishedAt = now]]
    BY <1>1 DEF FinishRoutineRun, TypeOK
<1>4. [execution[i] EXCEPT !.at = "finished"] \in Execution
    BY <1>1 DEF Execution, Stages
<1>5. execution' = [execution EXCEPT ![i] = [execution[i] EXCEPT !.at = "finished"]]
    BY DEF FinishRoutineRun, MoveTo
<1>6. /\ execution' \in [DOMAIN runs -> Execution]
      /\ execution'[i].at = "finished" /\ execution'[i].result = result
      /\ \A j \in DOMAIN runs : j # i => execution'[j] = execution[j]
    BY <1>1, <1>4, <1>5, StageChange DEF Execution
<1> HIDE DEF result
<1>7. /\ runs' \in Seq(Run) /\ DOMAIN runs' = DOMAIN runs
      /\ runs'[i] = [runs[i] EXCEPT !.status = result, !.finishedAt = now]
      /\ \A j \in DOMAIN runs : j # i => runs'[j] = runs[j]
    BY <1>2, <1>3, RowChange
<1>8. /\ runs'[i].routine = runs[i].routine /\ runs'[i].scheduledFor = runs[i].scheduledFor
      /\ runs'[i].trigger = runs[i].trigger /\ runs'[i].status = result
    BY <1>1, <1>7 DEF Run
<1>9. execution[i].at = "returned" /\ UNCHANGED <<now, routines, events, recorded,
            active, pending, attention, toggles, restarts, refusals>>
    BY DEF FinishRoutineRun, history
<1>10. routines \in [RoutineIds -> Routine] /\ attention \subseteq RoutineIds
    BY DEF TypeOK
<1>11. PausedUntilAnswered'
    BY <1>9 DEF PausedUntilAnswered
<1>12. result \notin Live
    BY <1>1 DEF Notified, Live
<1> QED BY <1>1, <1>6, <1>7, <1>8, <1>9, <1>10, <1>11, <1>12, RunStepInv

LEMMA PauseRoutineStep ==
    ASSUME Inv, NEW i \in DOMAIN runs, PauseRoutine(i)
    PROVE  Inv'
<1> USE DEF Inv
<1>1. /\ execution[i] \in Execution /\ runs[i] \in Run
      /\ execution[i].at = "finished" /\ execution[i].result \in Notified
      /\ runs[i].status = execution[i].result
    BY LenProperties DEF PauseRoutine, TypeOK, StageInv
<1>2. [execution[i] EXCEPT !.at = "reporting"] \in Execution
    BY <1>1 DEF Execution, Stages
<1>3. execution' = [execution EXCEPT ![i] = [execution[i] EXCEPT !.at = "reporting"]]
    BY DEF PauseRoutine, MoveTo
<1>4. /\ execution' \in [DOMAIN runs -> Execution]
      /\ execution'[i].at = "reporting" /\ execution'[i].result = execution[i].result
      /\ \A j \in DOMAIN runs : j # i => execution'[j] = execution[j]
    BY <1>1, <1>2, <1>3, StageChange DEF Execution
<1>5. UNCHANGED <<now, runs, events, recorded, active, pending, toggles, restarts, refusals>>
    BY DEF PauseRoutine
<1>6. runs[i].routine \in RoutineIds /\ runs \in Seq(Run)
    BY <1>1 DEF Run, TypeOK
<1>7. /\ routines' \in [RoutineIds -> Routine]
      /\ attention' \subseteq RoutineIds
      /\ PausedUntilAnswered'
      /\ \A u \in RoutineIds : routines'[u].next \in {NoTime, routines[u].next}
    <2>1. CASE execution[i].result \in {"action_required", "provider_unavailable"}
        BY <1>6, <2>1, PauseEffect DEF PauseRoutine
    <2>2. CASE execution[i].result \notin {"action_required", "provider_unavailable"}
        BY <2>2 DEF PauseRoutine, TypeOK, PausedUntilAnswered
    <2> QED BY <2>1, <2>2
<1>8. runs[i].status \notin Live
    BY <1>1 DEF Notified, Live
<1> QED BY <1>1, <1>4, <1>5, <1>6, <1>7, <1>8, RunStepInv

-----------------------------------------------------------------------------
(* Notifications, and the end of the process *)

\* The reason of an event is read from the row, or was the result of the run.
LEMMA RecoveredIsCompletion ==
    ASSUME NEW status PROVE RecoveredReason(status) = CompletionReason(status)
BY DEF RecoveredReason, CompletionReason

LEMMA ReasonType ==
    ASSUME NEW status PROVE CompletionReason(status) \in Reasons
BY DEF CompletionReason, Reasons

\* A notification tells of a final row.
LEMMA EnqueueEffect ==
    ASSUME Inv, NEW i \in DOMAIN runs, runs[i].status \in Notified,
           Enqueue(i, CompletionReason(runs[i].status)), runs' = runs
    PROVE  /\ events' \subseteq [run : DOMAIN runs, reason : Reasons]
           /\ recorded' \subseteq DOMAIN runs
           /\ refusals' \in 0..MaxRefusals
           /\ EventInv'
<1> USE DEF Inv
<1> DEFINE event == [run |-> i, reason |-> CompletionReason(runs[i].status)]
<1>1. event \in [run : DOMAIN runs, reason : Reasons]
    BY ReasonType
<1>2. /\ events' \in {events, events \cup {event}}
      /\ recorded' \in {recorded, recorded \cup {i}}
      /\ refusals' \in {refusals, refusals + 1}
      /\ refusals' # refusals => refusals < MaxRefusals
    BY DEF Enqueue
<1>3. event.run = i /\ event.reason = CompletionReason(runs[i].status)
    OBVIOUS
<1> HIDE DEF event
<1>4. refusals' \in 0..MaxRefusals
    BY <1>2, BoundsAssumption DEF TypeOK
<1>5. EventInv'
    BY <1>2, <1>3 DEF EventInv
<1> QED BY <1>1, <1>2, <1>4, <1>5 DEF TypeOK

LEMMA ReportStep ==
    ASSUME Inv, NEW i \in DOMAIN runs, Report(i)
    PROVE  Inv'
<1> USE DEF Inv
<1>1. /\ execution[i].at = "reporting" /\ runs[i].status = execution[i].result
      /\ runs[i].status \in Notified /\ i \in active
    BY DEF Report, StageInv
<1>2. active \ {i} = {} /\ pending = <<>>
    BY <1>1 DEF OneAtATime
<1>3. active' = {} /\ pending' = <<>> /\ execution' = [execution EXCEPT ![i] = NoExecution]
    BY <1>2 DEF Report, Drain
<1>4. NoExecution \in Execution /\ NoExecution.at = "none"
    BY DEF NoExecution, Execution, Stages, Statuses, Live
<1>5. /\ execution' \in [DOMAIN runs -> Execution]
      /\ execution'[i].at = "none"
      /\ \A j \in DOMAIN runs : j # i => execution'[j] = execution[j]
    BY <1>3, <1>4, StageChange
<1>6. UNCHANGED <<now, routines, runs, attention, toggles, restarts>>
    BY DEF Report
<1>7. /\ events' \subseteq [run : DOMAIN runs, reason : Reasons]
      /\ recorded' \subseteq DOMAIN runs
      /\ refusals' \in 0..MaxRefusals
      /\ EventInv'
    BY <1>1, <1>6, EnqueueEffect DEF Report
<1>8. TypeOK'
    BY <1>3, <1>5, <1>6, <1>7 DEF TypeOK
<1>9. OneAtATime'
    BY <1>3 DEF OneAtATime
<1>10. StageInv'
    <2>1. SUFFICES ASSUME NEW j \in DOMAIN runs
                   PROVE  /\ execution'[j].at = "none"
                          /\ runs[j].status \notin Live
        BY <1>3, <1>6 DEF StageInv
    <2>2. CASE j = i
        BY <1>1, <1>5, <2>2 DEF StageInv
    <2>3. CASE j # i
        <3>1. j \notin active
            BY <1>2, <2>3
        <3> QED BY <1>5, <2>3, <3>1 DEF StageInv
    <2> QED BY <2>2, <2>3
<1>11. OccurrencesInOrder' /\ NotAhead' /\ PausedUntilAnswered'
    BY <1>6 DEF OccurrencesInOrder, NotAhead, PausedUntilAnswered
<1> QED BY <1>7, <1>8, <1>9, <1>10, <1>11

LEMMA RecoverStep ==
    ASSUME Inv, NEW i \in DOMAIN runs, RecoverNotification(i)
    PROVE  Inv'
<1> USE DEF Inv
<1>1. /\ runs[i].status \in Notified
      /\ Enqueue(i, CompletionReason(runs[i].status))
    BY RecoveredIsCompletion DEF RecoverNotification, NeedsNotification
<1>2. UNCHANGED <<now, routines, runs, active, pending, execution, attention, toggles, restarts>>
    BY DEF RecoverNotification, processVars
<1>3. /\ events' \subseteq [run : DOMAIN runs, reason : Reasons]
      /\ recorded' \subseteq DOMAIN runs
      /\ refusals' \in 0..MaxRefusals
      /\ EventInv'
    BY <1>1, <1>2, EnqueueEffect
<1>4. TypeOK'
    BY <1>2, <1>3 DEF TypeOK
<1>5. OneAtATime' /\ StageInv' /\ OccurrencesInOrder' /\ NotAhead' /\ PausedUntilAnswered'
    BY <1>2 DEF OneAtATime, StageInv, OccurrencesInOrder, NotAhead, PausedUntilAnswered
<1> QED BY <1>3, <1>4, <1>5

\* interruptStaleRoutineRuns touches the live rows only.
LEMMA InterruptedEffect ==
    ASSUME TypeOK, NEW i \in DOMAIN runs
    PROVE  LET run == Interrupted(runs[i]) IN
           /\ run \in Run /\ run.status \notin Live
           /\ run.routine = runs[i].routine /\ run.scheduledFor = runs[i].scheduledFor
           /\ run.trigger = runs[i].trigger
           /\ runs[i].status \notin Live => run = runs[i]
<1>1. runs[i] \in Run
    BY LenProperties DEF TypeOK
<1>2. now \in Nat
    BY DEF TypeOK
<1>3. \A R \in Run, n \in Nat :
        LET new == [R EXCEPT !.status = "interrupted", !.finishedAt = n] IN
        /\ new \in Run /\ new.status = "interrupted" /\ new.routine = R.routine
        /\ new.scheduledFor = R.scheduledFor /\ new.trigger = R.trigger
    BY DEF Run, Statuses, Notified
<1>4. "interrupted" \notin Live
    BY DEF Live
<1> QED BY <1>1, <1>2, <1>3, <1>4 DEF Interrupted

LEMMA RestartStep ==
    ASSUME Inv, Restart
    PROVE  Inv'
<1> USE DEF Inv
<1>1. /\ runs' = [j \in DOMAIN runs |-> Interrupted(runs[j])]
      /\ active' = {} /\ pending' = <<>>
      /\ execution' = [j \in DOMAIN runs |-> NoExecution]
      /\ UNCHANGED <<now, routines, events, recorded, attention, toggles, refusals>>
      /\ restarts < MaxRestarts /\ restarts' = restarts + 1
    BY DEF Restart
<1>2. DOMAIN runs = 1..Len(runs) /\ Len(runs) \in Nat
    BY LenProperties DEF TypeOK
<1>3. /\ runs' \in Seq(Run) /\ DOMAIN runs' = DOMAIN runs
      /\ \A j \in DOMAIN runs : runs'[j] = Interrupted(runs[j])
    <2>1. runs' \in [1..Len(runs) -> Run]
        BY <1>1, <1>2, InterruptedEffect
    <2> QED BY <1>1, <1>2, <2>1, SeqDef
<1>4. NoExecution \in Execution /\ NoExecution.at = "none"
    BY DEF NoExecution, Execution, Stages, Statuses, Live
<1>5. restarts' \in 0..MaxRestarts
    BY <1>1, BoundsAssumption DEF TypeOK
<1>6. TypeOK'
    BY <1>1, <1>3, <1>4, <1>5 DEF TypeOK
<1>7. OneAtATime'
    BY <1>1 DEF OneAtATime
<1>8. StageInv'
    BY <1>1, <1>3, <1>4, InterruptedEffect DEF StageInv
<1>9. OccurrencesInOrder' /\ NotAhead'
    <2>1. \A j \in DOMAIN runs : /\ runs'[j].routine = runs[j].routine
                                 /\ runs'[j].scheduledFor = runs[j].scheduledFor
                                 /\ runs'[j].trigger = runs[j].trigger
        BY <1>3, InterruptedEffect
    <2> QED BY <1>1, <1>3, <2>1 DEF OccurrencesInOrder, NotAhead
<1>10. PausedUntilAnswered'
    BY <1>1 DEF PausedUntilAnswered
<1>11. EventInv'
    <2>1. \A e \in events : e.run \in DOMAIN runs
        BY DEF TypeOK
    <2>2. SUFFICES ASSUME NEW e \in events PROVE runs'[e.run] = runs[e.run]
        BY <1>1, <2>1 DEF EventInv
    <2>3. runs[e.run].status \notin Live
        BY DEF EventInv, Notified, Live
    <2> QED BY <1>3, <2>1, <2>3, InterruptedEffect
<1> QED BY <1>6, <1>7, <1>8, <1>9, <1>10, <1>11

LEMMA NextInv == Inv /\ [Next]_vars => Inv'
<1> SUFFICES ASSUME Inv, [Next]_vars PROVE Inv'
    OBVIOUS
<1>1. CASE Advance
    <2>1. CASE RoutineIds # {}
        BY <1>1, <2>1, UserStep
    <2>2. CASE RoutineIds = {}
        <3>1. \A i \in DOMAIN runs : runs[i] \in Run
            BY LenProperties DEF Inv, TypeOK
        <3>2. DOMAIN runs = {}
            BY <2>2, <3>1 DEF Run
        <3> QED BY <1>1, <2>2, <3>2 DEF Advance, Inv, TypeOK, OneAtATime, StageInv, OccurrencesInOrder,
           NotAhead, PausedUntilAnswered, EventInv, processVars, history
    <2> QED BY <2>1, <2>2
<1>2. CASE \E r \in RoutineIds : UpdateRoutine(r) \/ SetRoutineEnabled(r) \/ ArchiveRoutine(r)
    BY <1>2, UserStep
<1>3. CASE \E r \in RoutineIds : Tick(r)
    BY <1>3, TickStep
<1>4. CASE \E r \in RoutineIds : RunNow(r)
    BY <1>4, RunNowStep
<1>5. CASE \E i \in DOMAIN runs : RunStep(i)
    BY <1>5, CheckRevisionStep, FailToStartStep, MarkRunningStep, RunReturnsStep, FinishStep,
       PauseRoutineStep, ReportStep DEF RunStep
<1>6. CASE \E i \in DOMAIN runs : ActionRequired(i) \/ RecoverNotification(i)
    BY <1>6, ActionRequiredStep, RecoverStep
<1>7. CASE Restart
    BY <1>7, RestartStep
<1>8. CASE UNCHANGED vars
    BY <1>8 DEF vars, Inv, TypeOK, OneAtATime, StageInv, OccurrencesInOrder,
       NotAhead, PausedUntilAnswered, EventInv
<1> QED BY <1>1, <1>2, <1>3, <1>4, <1>5, <1>6, <1>7, <1>8 DEF Next

\* The inductive invariant holds in every reachable state.
THEOREM InvAlways == Spec => []Inv
<1>1. Init => Inv
    BY InitInv
<1>2. Inv /\ [Next]_vars => Inv'
    BY NextInv
<1> QED BY <1>1, <1>2, PTL DEF Spec

-----------------------------------------------------------------------------
(* What follows from it *)

\* The tables and the scheduler's memory keep their types, over restarts.
THEOREM TypeCorrect == Spec => []TypeOK
<1>1. Inv => TypeOK
    BY DEF Inv
<1> QED BY <1>1, InvAlways, PTL

\* nextAt, claimDueRoutineRuns and the unique key of routine_runs: the scheduled
\* rows of a routine go strictly forward in time, whatever is edited, paused,
\* switched on again or restarted.
THEOREM OccurrencesInOrderAlways == Spec => []OccurrencesInOrder
<1>1. Inv => OccurrencesInOrder
    BY DEF Inv
<1> QED BY <1>1, InvAlways, PTL

\* The capacity checks of tick and runNow leave at most one live row.
THEOREM OneLiveRunAlways == Spec => []OneLiveRun
<1>1. Inv => OneLiveRun
    BY DEF Inv, StageInv, OneAtATime, OneLiveRun
<1> QED BY <1>1, InvAlways, PTL

\* interruptStaleRoutineRuns at start-up and execute() leave no live row that
\* nobody executes.
THEOREM LiveRunHasExecutorAlways == Spec => []LiveRunHasExecutor
<1>1. Inv => LiveRunHasExecutor
    BY DEF Inv, StageInv, LiveRunHasExecutor
<1> QED BY <1>1, InvAlways, PTL

\* A routine whose run paused it stays disabled until the user answers.
THEOREM PausedAlways == Spec => []PausedUntilAnswered
<1>1. Inv => PausedUntilAnswered
    BY DEF Inv
<1> QED BY <1>1, InvAlways, PTL

\* enqueueRoutineNotification and recoverRoutineNotifications agree on the
\* dedupe key of a run, so that its event is stored once.
THEOREM NotifiedOnceAlways == Spec => []NotifiedOnce
<1>1. Inv => NotifiedOnce
    <2>1. SUFFICES ASSUME Inv, NEW d \in events, NEW e \in events, d.run = e.run
                   PROVE  d = e
        BY DEF NotifiedOnce
    <2>2. d \in [run : DOMAIN runs, reason : Reasons] /\ e \in [run : DOMAIN runs, reason : Reasons]
        BY <2>1 DEF Inv, TypeOK
    <2>3. d.reason = e.reason
        BY <2>1 DEF Inv, EventInv
    <2> QED BY <2>1, <2>2, <2>3
<1> QED BY <1>1, InvAlways, PTL

\* Only Tick and RunNow add a row, and none is lost.
LEMMA RowsOfStep ==
    ASSUME Inv, [Next]_vars
    PROVE  \/ \E r \in RoutineIds : Tick(r)
           \/ \E r \in RoutineIds : RunNow(r)
           \/ DOMAIN runs' = DOMAIN runs
<1>1. CASE \/ Advance
           \/ \E r \in RoutineIds : UpdateRoutine(r) \/ SetRoutineEnabled(r) \/ ArchiveRoutine(r)
           \/ UNCHANGED vars
    BY <1>1 DEF Advance, UpdateRoutine, SetRoutineEnabled, ArchiveRoutine, vars
<1>2. CASE \E i \in DOMAIN runs : RunStep(i)
    BY <1>2 DEF RunStep, CheckRevision, FailToStart, MarkRoutineRunRunning, RunReturns,
       FinishRoutineRun, PauseRoutine, Report
<1>3. CASE \E i \in DOMAIN runs : ActionRequired(i) \/ RecoverNotification(i)
    BY <1>3 DEF ActionRequired, RecoverNotification
<1>4. CASE Restart
    BY <1>4 DEF Restart
<1> QED BY <1>1, <1>2, <1>3, <1>4 DEF Next

\* The row a tick or Run now writes is the last one, and the others stay.
LEMMA NewRowOfStep ==
    ASSUME Inv, NEW r \in RoutineIds, Tick(r) \/ RunNow(r)
    PROVE  /\ \A i \in DOMAIN runs : runs'[i] = runs[i]
           /\ \A i \in DOMAIN runs' \ DOMAIN runs :
                 runs'[i].trigger = "scheduled" => Tick(r) /\ runs'[i].routine = r
<1> USE DEF Inv
<1>1. routines[r].next \in Nat /\ now \in Nat
    BY DEF TypeOK, Routine
<1>2. CASE runs' = runs
    BY <1>2
<1>3. CASE Tick(r) /\ runs' # runs
    <2>1. PICK status \in {"claimed", "missed", "skipped_overlap"} :
            runs' = Append(runs, NewRun(r, "scheduled", routines[r].next, status))
        BY <1>3 DEF Tick, ClaimAndDrain, Verdict
    <2> DEFINE run == NewRun(r, "scheduled", routines[r].next, status)
    <2>2. run \in Run
        BY <1>1, NewRunType DEF Statuses, Live
    <2>3. run.routine = r
        BY DEF NewRun
    <2> HIDE DEF run
    <2> QED BY <1>3, <2>1, <2>2, <2>3, NewExecution DEF run
<1>4. CASE RunNow(r)
    <2> DEFINE run == NewRun(r, "manual", now, "claimed")
    <2>1. runs' = Append(runs, run)
        BY <1>4 DEF RunNow, ClaimAndDrain
    <2>2. run \in Run
        BY <1>1, NewRunType DEF Statuses, Live
    <2>3. run.trigger = "manual"
        BY DEF NewRun
    <2> HIDE DEF run
    <2> QED BY <2>1, <2>2, <2>3, NewExecution
<1> QED BY <1>2, <1>3, <1>4

\* finishRoutineRun and interruptStaleRoutineRuns write live rows only.
THEOREM OutcomeIsFinalAlways == Spec => OutcomeIsFinal
<1>1. ASSUME Inv, [Next]_vars
      PROVE  \A i \in DOMAIN runs : runs[i].status \notin Live => runs'[i] = runs[i]
    <2> SUFFICES ASSUME NEW i \in DOMAIN runs, runs[i].status \notin Live
                 PROVE  runs'[i] = runs[i]
        OBVIOUS
    <2>1. CASE \E r \in RoutineIds : Tick(r) \/ RunNow(r)
        BY <1>1, <2>1, NewRowOfStep
    <2>2. CASE \/ Advance
               \/ \E r \in RoutineIds : UpdateRoutine(r) \/ SetRoutineEnabled(r) \/ ArchiveRoutine(r)
               \/ UNCHANGED vars
        BY <2>2 DEF Advance, UpdateRoutine, SetRoutineEnabled, ArchiveRoutine, vars
    <2>3. CASE \E j \in DOMAIN runs : MarkRoutineRunRunning(j) \/ FinishRoutineRun(j)
        <3>1. PICK j \in DOMAIN runs : MarkRoutineRunRunning(j) \/ FinishRoutineRun(j)
            BY <2>3
        <3>2. j # i
            BY <1>1, <3>1 DEF MarkRoutineRunRunning, FinishRoutineRun, Inv, StageInv
        <3> QED BY <3>1, <3>2 DEF MarkRoutineRunRunning, FinishRoutineRun
    <2>4. CASE \E j \in DOMAIN runs :
                 \/ CheckRevision(j) \/ FailToStart(j) \/ RunReturns(j) \/ PauseRoutine(j)
                 \/ Report(j) \/ ActionRequired(j) \/ RecoverNotification(j)
        BY <2>4 DEF CheckRevision, FailToStart, RunReturns, PauseRoutine, Report,
           ActionRequired, RecoverNotification
    <2>5. CASE Restart
        BY <1>1, <2>5, InterruptedEffect DEF Restart, Inv
    <2> QED BY <1>1, <2>1, <2>2, <2>3, <2>4, <2>5 DEF Next, RunStep
<1> QED BY <1>1, InvAlways, PTL DEF Spec, OutcomeIsFinal

\* claimDueRoutineRuns never selects an archived routine, also when an edit
\* saved it as enabled.
THEOREM ArchivedAlways == Spec => ArchivedIsNeverScheduled
<1>1. ASSUME Inv, [Next]_vars
      PROVE  \A r \in RoutineIds : routines[r].archived =>
                 \A i \in DOMAIN runs' \ DOMAIN runs :
                     runs'[i].trigger = "scheduled" => runs'[i].routine # r
    <2> SUFFICES ASSUME NEW r \in RoutineIds, routines[r].archived,
                        NEW i \in DOMAIN runs' \ DOMAIN runs,
                        runs'[i].trigger = "scheduled", runs'[i].routine = r
                 PROVE  FALSE
        OBVIOUS
    <2>1. PICK u \in RoutineIds : Tick(u) \/ RunNow(u)
        BY <1>1, RowsOfStep
    <2>2. Tick(u) /\ r = u
        BY <1>1, <2>1, NewRowOfStep
    <2> QED BY <2>2 DEF Tick, Due
<1> QED BY <1>1, InvAlways, PTL DEF Spec, ArchivedIsNeverScheduled
=============================================================================
