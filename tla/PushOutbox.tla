----------------------------- MODULE PushOutbox -----------------------------
(***************************************************************************)
(* Web Push for sessions: PushNotificationCoordinator turns the status of  *)
(* sessions into events, PushNotificationOutbox drains the stored events   *)
(* to the subscribed devices, and pushDelivery.ts calls the provider and   *)
(* retries it.  The tables and their statements are in PushStore.          *)
(*                                                                         *)
(* SQLite calls are synchronous and the awaits between them only yield to  *)
(* microtasks, so another task of the server runs only while the drain     *)
(* waits for a provider or a retry delay, or is not running: Quiet.  A     *)
(* crash may come between any two steps.                                   *)
(***************************************************************************)
EXTENDS PushStore

CONSTANTS
    SourceOf,     \* [Event -> Source], the session of an event
    Modes,        \* modes the user may choose
    Keen,         \* devices whose preferences accept alerts by default
    Quick,        \* length of TRANSIENT_RETRY_DELAYS_MS
    MaxMoves,     \* bound on what users and sessions do besides new events
    MaxCrashes    \* bound on crashes

ASSUME OutboxConstants ==
    /\ SourceOf \in [Event -> Source]
    /\ Modes \subseteq {"default", "mute", "notify_once",
                        "notify_completion_once"}
    /\ Keen \subseteq Device
    /\ 1 \in Revs /\ Quick \in Nat /\ MaxMoves \in Nat /\ MaxCrashes \in Nat

VARIABLES
    db,         \* the stored tables, all that survives a crash
    app,        \* the coordinator, the users and the sessions
    drain,      \* the drain in progress
    io,         \* the worker of each device
    seen        \* history: alerts received, the pass that spent a revision,
                \* what the user has revoked

vars == <<db, app, drain, io, seen>>

Apps ==
    [relevant  : SUBSET Event,    \* isEventStillRelevant
     pending   : SUBSET Event,    \* coordinator.pending
     held      : SUBSET Event,    \* coordinator.completionBatch
     tracked   : SUBSET Event,    \* outbox.persisted
     recovered : SUBSET Event,    \* created before start, in the grace time
     focused   : BOOLEAN,         \* an authenticated window is in front
     devices   : SUBSET Device,   \* listDeliverablePushSubscriptions
     rev       : Revs \cup {NoShot},
     moves     : 0 .. MaxMoves, crashes : 0 .. MaxCrashes]

Drains ==
    [phase : {"boot", "idle", "list", "pick", "triage", "spread", "send",
              "settle"},
     todo  : SUBSET SUBSET Event, \* groups that process() has yet to take
     later : SUBSET Event,        \* completions, grouped after attention
     again : SUBSET Event,        \* already processed when they were listed
     rel   : SUBSET Event,        \* relevant, in process
     cand  : [Device -> SUBSET Event],
     fans  : SUBSET SUBSET Event, \* groups of one target set not yet sent
     fan   : SUBSET Event,        \* the group being looked at, or being sent
     whole : BOOLEAN,             \* it has a batch of exactly its events
     dead  : SUBSET Event,        \* batch members terminal before sending
     cut   : SUBSET Event,        \* cancelledEventIds
     shots : SUBSET Revs]         \* acceptedOneShots

Workers ==
    [st   : {"off", "go", "wire", "sleep", "write"},
     cur  : SUBSET Event,         \* the events of the call
     ask  : SUBSET Event,         \* those it has yet to look at
     keep : SUBSET Event,         \* those that qualify
     left : SUBSET Event,         \* events of later calls
     n    : 0 .. Quick + 1,
     writes : SUBSET ({"log", "sent", "mark", "retry", "dead", "gone",
                       "requeue", "batch"} \X Event)]

NoDrain == [phase |-> "idle", todo |-> {}, later |-> {}, again |-> {},
            rel |-> {}, cand |-> [d \in Device |-> {}], fans |-> {},
            fan |-> {}, whole |-> FALSE, dead |-> {}, cut |-> {}, shots |-> {}]
Off == [st |-> "off", cur |-> {}, ask |-> {}, keep |-> {}, left |-> {},
        n |-> 0, writes |-> {}]

TypeOK ==
    /\ db \in Stores /\ app \in Apps /\ drain \in Drains
    /\ io \in [Device -> Workers]
    /\ seen \in [got : SUBSET (Event \X Device), spent : [Revs -> SUBSET Event],
                 revoked : SUBSET (Event \X Device \X Revs)]

(* The chats whose settings matter: delegated ones inherit.                *)
Governing == {PolicyOf[e] : e \in Event}

(* A chat may be created with a setting of its own.                        *)
Init ==
    /\ \E s \in Governing, mode \in Modes \cup {"default"} :
         /\ db = PutPolicy(EmptyStore, s, mode, 1)
         /\ app = [relevant |-> {}, pending |-> {}, held |-> {}, tracked |-> {},
                   recovered |-> {}, focused |-> FALSE, devices |-> Device,
                   rev |-> IF mode = "default" THEN NoShot ELSE 1,
                   moves |-> MaxMoves, crashes |-> MaxCrashes]
    /\ drain = NoDrain
    /\ io = [d \in Device |-> Off]
    /\ seen = [got |-> {}, spent |-> [r \in Revs |-> {}], revoked |-> {}]

Earliest(S) == CHOOSE e \in S : \A f \in S : e <= f
AllOff == \A d \in Device : io[d].st = "off"
Busy == \E d \in Device : io[d].st \in {"go", "write"}
Quiet == \/ drain.phase = "idle"
         \/ drain.phase = "send" /\ ~ AllOff /\ ~ Busy

-----------------------------------------------------------------------------
(* The coordinator.                                                        *)

(* cancelSessionEvent: only events this process has stored are known.      *)
Cancel(store, S) == Terminate(store, S \cap app.tracked)

Persist(e) ==
    LET s == SourceOf[e]
        same   == {x \in Event \ {e} : SourceOf[x] = s}
        latest == {x \in app.tracked \cap Attention \cap same :
                     \A y \in app.tracked \cap Attention \cap same : y <= x}
        passed == IF e \in Attention THEN latest ELSE {}
    IN /\ Quiet /\ db.status[e] = "absent"
       /\ \A x \in same : db.status[x] # "absent" => x < e
       /\ \E over \in SUBSET (same \cap app.relevant) :
            /\ \A x \in same \cap app.relevant :
                 {x, e} \cap Completion # {} => x \in over
            /\ LET stale == (app.pending \cap (over \cup same)) \cup passed
               IN /\ db' = Enqueue(Cancel(db, stale), e,
                                   e \in Completion /\ app.focused)
                  /\ app' = [app EXCEPT
                               !.relevant = (@ \ over) \cup {e},
                               !.pending = (@ \ stale) \cup {e},
                               !.tracked = (@ \ stale) \cup {e}]
       /\ UNCHANGED <<drain, io, seen>>

(* The request is answered, the chat works again, the card is dismissed.   *)
Resolve(e) ==
    LET hit == app.pending \cap {e}
    IN /\ Quiet /\ e \in app.relevant /\ app.moves > 0
       /\ db' = Cancel(db, hit)
       /\ app' = [app EXCEPT !.relevant = @ \ {e}, !.pending = @ \ {e},
                             !.tracked = @ \ hit, !.moves = @ - 1]
       /\ UNCHANGED <<drain, io, seen>>

QuietCompletion(store, e) ==
    e \in Completion /\ (e \in store.focused \/ app.focused)

(* The settle timer of an event, or the end of the focus it waited for.    *)
TryDeliver(e) ==
    LET older == {x \in app.held : SourceOf[x] = SourceOf[e]}
        gone == IF QuietCompletion(db, e) THEN {e}
                ELSE IF e \in Completion THEN older ELSE {}
    IN /\ Quiet /\ e \in app.pending
       /\ e \in Completion \/ ~ app.focused
       /\ db' = Cancel(db, gone)
       /\ app' = [app EXCEPT
                    !.pending = @ \ {e}, !.tracked = @ \ gone,
                    !.held = IF e \in Completion THEN (@ \cup {e}) \ gone
                             ELSE @]
       /\ UNCHANGED <<drain, io, seen>>

FlushCompletions ==
    LET gone == {e \in app.held : \/ e \notin app.relevant
                                  \/ QuietCompletion(db, e)}
    IN /\ Quiet /\ app.held # {}
       /\ db' = Cancel(db, gone)
       /\ app' = [app EXCEPT !.held = {}, !.tracked = @ \ gone]
       /\ UNCHANGED <<drain, io, seen>>

-----------------------------------------------------------------------------
(* What a drain decides about one event and one device.                    *)

OneShot(mode, e) == \/ mode = "notify_once"
                    \/ mode = "notify_completion_once" /\ e \in Completion

(* policyForDelivery: a row keeps the one-shot that authorised it while    *)
(* the policy is Default; any other mode wins.                             *)
PolicyForDelivery(store, e, d) ==
    LET p == store.policy[PolicyOf[e]]
        retained == store.row[e][d].shot
    IN  IF p.mode = "default" /\ retained # NoShot
        THEN [mode |-> "notify_once", shot |-> retained]
        ELSE [mode |-> p.mode,
              shot |-> IF OneShot(p.mode, e) THEN p.rev ELSE NoShot]

(* pushSubscriptionWantsNotification *)
Wants(mode, e, d) == OneShot(mode, e) \/ (mode # "mute" /\ d \in Keen)

Chosen(store, e, d) ==
    LET p == PolicyForDelivery(store, e, d)
    IN  Decided(store, e, d,
                IF Wants(p.mode, e, d) THEN "pending" ELSE "suppressed",
                "none", p.shot)

Unavailable(store, P) == Receipts(store, P, "expired", "none", "plain")

ExpireTerminalBatch(store, e) ==
    LET B == store.batchOf[e]
    IN  IF \A m \in B : Terminal(store, m) THEN SetBatch(store, B, "expired")
        ELSE store

SuppressFocused(store, e) == ExpireTerminalBatch(Terminate(store, {e}), e)

-----------------------------------------------------------------------------
(* The drain.                                                              *)

Superseded(S) ==
    {e \in S : \E f \in S : SourceOf[f] = SourceOf[e] /\ f > e}

(* The receipts a crash lost are made up for, then what is due is listed.  *)
Drain ==
    /\ drain.phase \in {"boot", "idle"}
    /\ db' = Reconcile(db)
    /\ drain' = [NoDrain EXCEPT !.phase = "list"]
    /\ UNCHANGED <<app, io, seen>>

List ==
    /\ drain.phase = "list"
    /\ \E near \in SUBSET {e \in Completion : db.status[e] = "window"} :
         LET due  == (PendingEvents(db, near) \cup PendingRows(db)) \ db.old
             past == Superseded(due \cap Attention)
         IN /\ db' = Terminate(ExpireOld(db), past)
            /\ app' = [app EXCEPT !.tracked = @ \ past]
            /\ drain' = [drain EXCEPT
                           !.phase = "pick",
                           !.todo  = {{e} : e \in (due \cap Attention) \ past},
                           !.later = due \cap Completion,
                           !.again = {e \in due : db.status[e] = "processed"}]
    /\ UNCHANGED <<io, seen>>

(* Completions are grouped once the attention events are done with.        *)
GroupCompletions ==
    LET past == Superseded(drain.later)
        rest == drain.later \ past
    IN /\ drain.phase = "pick" /\ drain.todo = {} /\ drain.later # {}
       /\ db' = Terminate(db, past)
       /\ app' = [app EXCEPT !.tracked = @ \ past]
       /\ drain' = [drain EXCEPT
                      !.later = {},
                      !.todo = {{e \in rest : db.batchOf[e] = B} :
                                  B \in {db.batchOf[e] : e \in rest}}]
       /\ UNCHANGED <<io, seen>>

(* process(), in steps that no provider call separates: a first look at    *)
(* each event, in turn.                                                    *)
Process(G) ==
    /\ drain.phase = "pick" /\ G \in drain.todo
    /\ drain' = [drain EXCEPT !.phase = "triage", !.todo = @ \ {G}, !.fan = G]
    /\ UNCHANGED <<db, app, io, seen>>

Triage ==
    LET e == Earliest(drain.fan)
        drop == e \notin app.relevant
        wait == \/ e \in app.recovered
                \/ app.focused /\ ~ QuietCompletion(db, e)
        hush == ~ wait /\ QuietCompletion(db, e)
    IN /\ drain.phase = "triage" /\ drain.fan # {}
       /\ db' = IF drop THEN Terminate(db, {e})
                ELSE IF wait THEN SetStatus(db, e, "deferred", "later")
                ELSE IF hush THEN SuppressFocused(db, e) ELSE db
       /\ app' = [app EXCEPT !.tracked = IF drop \/ hush THEN @ \ {e} ELSE @]
       /\ drain' = [drain EXCEPT !.fan = @ \ {e},
                                 !.rel = IF drop \/ wait \/ hush THEN @
                                         ELSE @ \cup {e}]
       /\ UNCHANGED <<io, seen>>

(* Each device that is due gets its decision, and what is left for devices *)
(* that are gone expires.  A processed event is not widened to devices     *)
(* that had no decision.                                                   *)
DecideRows ==
    LET open == {p \in drain.rel \X app.devices :
                   /\ Due(db.row[p[1]][p[2]])
                   /\ p[1] \in drain.again => db.row[p[1]][p[2]].st # "none"}
        lost == {p \in drain.rel \X (Device \ app.devices) :
                   db.row[p[1]][p[2]].st
                     \notin {"none", "suppressed", "gone", "expired"}}
    IN /\ drain.phase = "triage" /\ drain.fan = {}
       /\ db' = [Unavailable(db, lost) EXCEPT !.row = [e \in Event |-> [d \in Device |->
                   IF <<e, d>> \in open THEN Chosen(db, e, d) ELSE @[e][d]]]]
       /\ drain' = [drain EXCEPT
                      !.phase = IF drain.rel = {} THEN "pick" ELSE "spread",
                      !.cand = [d \in Device |->
                                 {e \in drain.rel : /\ <<e, d>> \in open
                                                    /\ Due(Chosen(db, e, d))}]]
       /\ UNCHANGED <<app, io, seen>>

(* Events are grouped by the devices they are for; a device that accepted  *)
(* a batch has accepted it for every member.                               *)
SpreadBatches ==
    LET batches == {db.batchOf[e] : e \in drain.rel} \ {{}}
        target(e) == {d \in Device : e \in drain.cand[d]}
        took(B, d) == \E m \in B : SentAsBatch(db.row[m][d])
        owed == {p \in (UNION batches) \X Device :
                   /\ took(db.batchOf[p[1]], p[2])
                   /\ db.row[p[1]][p[2]].st \notin {"none", "sent"}}
    IN /\ drain.phase = "spread"
       /\ db' = Receipts(db, owed, "sent", "none", "batch")
       /\ drain' = [drain EXCEPT
            !.phase = "send",
            !.fans = {{e \in drain.rel : target(e) = T} :
                        T \in {target(e) : e \in drain.rel} \ {{}}},
            !.cand = [d \in Device |->
                        {e \in @[d] : ~ \E B \in batches :
                                           e \in B /\ took(B, d)}],
            !.dead = {m \in UNION batches : Terminal(db, m)}]
       /\ UNCHANGED <<app, io, seen>>

(* Two or more events for the same devices travel as one batch, unless     *)
(* their batch is known to hold other events.                              *)
StartFan(g) ==
    LET batches == {db.batchOf[e] : e \in g} \ {{}}
        new == Cardinality(g) > 1 /\ batches = {}
    IN /\ drain.phase = "send" /\ AllOff /\ g \in drain.fans
       /\ db' = IF new THEN CreateBatch(db, g) ELSE db
       /\ drain' = [drain EXCEPT !.fans = @ \ {g}, !.fan = g,
                                 !.whole = new \/ batches = {g}]
       /\ io' = [d \in Device |->
                   LET mine == drain.cand[d] \cap g
                   IN IF mine = {} THEN Off
                      ELSE [Off EXCEPT !.st = "go", !.cur = mine, !.ask = mine]]
       /\ UNCHANGED <<app, seen>>

(* The calls of a worker that are left go one event at a time.             *)
Next1(left) ==
    IF left = {} THEN Off ELSE
    LET e == Earliest(left)
    IN [Off EXCEPT !.st = "go", !.cur = {e}, !.ask = {e}, !.left = left \ {e}]

(* The last look at each event of a call, made again after a retry delay.  *)
Look(d) ==
    LET w == io[d]
        e == Earliest(w.ask)
        row == db.row[e][d]
        wait == app.focused /\ ~ QuietCompletion(db, e)
        next == IF wait THEN Decided(db, e, d, "queued", "later",
                                     PolicyForDelivery(db, e, d).shot)
                ELSE Chosen(db, e, d)
        late == Due(row) /\ e \in db.old
        drop == Due(row) /\ ~ late /\ e \notin app.relevant
        hush == Due(row) /\ ~ late /\ ~ drop /\ QuietCompletion(db, e)
        turn == Due(row) /\ ~ (late \/ drop \/ hush)
    IN /\ w.st = "go" /\ w.ask # {} /\ d \in app.devices
       /\ db' = IF late THEN Unavailable(db, {<<e, d>>})
                ELSE IF drop THEN Terminate(db, {e})
                ELSE IF hush THEN SuppressFocused(db, e)
                ELSE IF turn THEN [db EXCEPT !.row[e][d] = next] ELSE db
       /\ app' = [app EXCEPT !.tracked = IF drop \/ hush THEN @ \ {e} ELSE @]
       /\ drain' = [drain EXCEPT !.cut = IF drop \/ hush THEN @ \cup {e}
                                         ELSE @]
       /\ io' = [io EXCEPT ![d].ask = @ \ {e},
                           ![d].keep = IF turn /\ Due(next) THEN @ \cup {e}
                                       ELSE @]
       /\ UNCHANGED seen

(* A payload of several events is sent only if all of them still qualify   *)
(* and are the whole batch, else they are sent one by one.                 *)
Launch(d) ==
    LET w == io[d]
        send == /\ w.keep = w.cur
                /\ Cardinality(w.cur) > 1 => drain.whole /\ w.cur = drain.fan
    IN /\ w.st = "go" /\ w.ask = {}
       /\ io' = [io EXCEPT ![d] =
                   IF send THEN [w EXCEPT !.st = "wire", !.n = @ + 1]
                   ELSE Next1(w.left \cup IF Cardinality(w.cur) > 1
                                          THEN w.keep ELSE {})]
       /\ UNCHANGED <<db, app, drain, seen>>

(* The device is no longer subscribed. *)
Skip(d) ==
    LET w == io[d]
    IN /\ w.st = "go" /\ w.ask # {} /\ d \notin app.devices
       /\ db' = Unavailable(db, w.cur \X {d})
       /\ io' = [io EXCEPT ![d] = Next1(w.left)]
       /\ UNCHANGED <<app, drain, seen>>

Retry(d) ==
    /\ io[d].st = "sleep" /\ Quiet
    /\ io' = [io EXCEPT ![d].st = "go", ![d].ask = io[d].cur, ![d].keep = {}]
    /\ UNCHANGED <<db, app, drain, seen>>

-----------------------------------------------------------------------------
(* The answer of a provider, as the commits it leads to.                   *)

(* Attempts are journaled first, then each event gets its receipt, and a   *)
(* completion its status, and last the batch.                              *)
Stage(kind) == CASE kind = "log" -> 0 [] kind = "batch" -> 2 [] OTHER -> 1
Before(x, y) ==
    \/ Stage(x[1]) < Stage(y[1])
    \/ Stage(x[1]) = Stage(y[1]) /\ x[2] < y[2]
    \/ x[2] = y[2] /\ x[1] = "sent" /\ y[1] = "mark"

Answered(d, writes) ==
    io' = [io EXCEPT ![d].st = "write", ![d].writes = writes]

Accept(d) ==
    LET S == io[d].cur
    IN /\ io[d].st = "wire" /\ ~ Busy
       /\ Answered(d, ({"log", "sent"} \X S) \cup ({"mark"} \X (S \cap Completion))
                      \cup IF Cardinality(S) > 1
                           THEN {<<"batch", Earliest(S)>>} ELSE {})
       /\ UNCHANGED <<db, app, drain, seen>>

\* Mutant: one quick retry too many.
BugOneMore(d) ==
    /\ io[d].st = "wire" /\ ~ Busy /\ io[d].n <= Quick + 1
    /\ io' = [io EXCEPT ![d].st = "sleep"]
    /\ UNCHANGED <<db, app, drain, seen>>

(* After a transient failure the worker sleeps and calls again, if it has  *)
(* a quick retry left and the alerts do not expire before it.              *)
Pause(d) ==
    /\ io[d].st = "wire" /\ ~ Busy /\ io[d].n <= Quick
    /\ io' = [io EXCEPT ![d].st = "sleep"]
    /\ UNCHANGED <<db, app, drain, seen>>

(* Else the events wait in the tables, but for the last attempts: all, if  *)
(* the failure is permanent, or those that expire before the next one.     *)
Fail(d, last) ==
    /\ io[d].st = "wire" /\ ~ Busy
    /\ Answered(d, ({"retry"} \X (io[d].cur \ last)) \cup ({"dead"} \X last))
    /\ UNCHANGED <<db, app, drain, seen>>

(* The endpoint is gone: the subscription is disabled, unless the browser  *)
(* has replaced its endpoint while the call was under way.                 *)
Gone(d) ==
    /\ io[d].st = "wire" /\ ~ Busy /\ app.moves > 0
    /\ \E rotated \in BOOLEAN :
         /\ Answered(d, {IF rotated THEN "requeue" ELSE "gone"} \X io[d].cur)
         /\ app' = [app EXCEPT !.devices = IF rotated THEN @ ELSE @ \ {d},
                               !.moves = @ - 1]
    /\ UNCHANGED <<db, drain, seen>>

(* History: the device has the alerts, and their pass has spent their      *)
(* one-shots.                                                              *)
Received(d) ==
    [seen EXCEPT
       !.got = @ \cup (io[d].cur \X {d}),
       !.spent = [r \in Revs |->
                    IF @[r] = {} /\ \E e \in io[d].cur : db.row[e][d].shot = r
                    THEN drain.rel ELSE @[r]]]

Commit(d) == \E x \in io[d].writes :
    LET w == io[d]
        kind == x[1]
        e == x[2]
        r == db.row[e][d]
        many == Cardinality(w.cur) > 1
        receipt(st, at, why) == Receipts(db, {<<e, d>>}, st, at, why)
    IN /\ w.st = "write" /\ \A y \in w.writes \ {x} : Before(x, y)
       /\ db' = CASE kind = "log" -> Journal(db, e, d, IF many THEN "batch"
                                                       ELSE "single")
                  [] kind = "sent" -> receipt("sent", "none",
                                              IF many THEN "batch" ELSE "plain")
                  [] kind = "mark" -> SetStatus(db, e, "processed", "none")
                  [] kind = "retry" -> receipt("failed",
                         IF r.tries < Retries THEN "later" ELSE "none", "plain")
                  [] kind = "dead" -> receipt("failed", "none", "plain")
                  [] kind = "gone" -> receipt("gone", "none", "plain")
                  [] kind = "requeue" -> [db EXCEPT !.row[e][d] =
                         Decided(db, e, d, "pending", "now", r.shot)]
                  [] kind = "batch" -> SetBatch(db, drain.fan, "sent")
       /\ drain' = [drain EXCEPT !.shots = IF kind = "sent"
                                           THEN @ \cup ({r.shot} \ {NoShot})
                                           ELSE @]
       /\ io' = [io EXCEPT ![d] = IF w.writes # {x}
                                  THEN [w EXCEPT !.writes = @ \ {x}]
                                  ELSE Next1(w.left)]
       /\ seen' = IF kind = "log" THEN Received(d) ELSE seen
       /\ UNCHANGED app

(* The end of process(): accepted one-shots are consumed, then each event  *)
(* is deferred to its next row or processed, then its batch is closed.     *)
ConsumeShots ==
    /\ drain.phase = "send" /\ AllOff /\ drain.fans = {}
    /\ db' = ConsumeOneShots(db, drain.shots)
    /\ drain' = [drain EXCEPT !.phase = "settle"]
    /\ UNCHANGED <<app, io, seen>>

Settle ==
    LET open(e) == {d \in Device : Unsettled(db.row[e][d])}
        rest == drain.rel \ drain.cut
        due(e) == IF open(e) = {} THEN "none"
                  ELSE IF \E d \in open(e) : db.row[e][d].at = "now" THEN "now"
                  ELSE "later"
        over(m) == IF m \in drain.rel THEN m \in drain.cut \/ open(m) = {}
                   ELSE m \in drain.dead
        took(B) == db.batch[B] = "sent" \/ \E m \in B, d \in Device :
                                             SentAsBatch(db.row[m][d])
        touched == {B \in {db.batchOf[e] : e \in drain.rel} \ {{}} :
                      db.batch[B] = "ready"}
    IN /\ drain.phase = "settle"
       /\ db' = [db EXCEPT
            !.status = [e \in Event |-> IF e \notin rest THEN @[e]
                         ELSE IF open(e) = {} THEN "processed" ELSE "deferred"],
            !.due = [e \in Event |-> IF e \in rest THEN due(e) ELSE @[e]],
            !.batch = [B \in SUBSET Event |->
                         IF B \in touched /\ took(B) THEN "sent"
                         ELSE IF B \in touched /\ \A m \in B : over(m)
                         THEN "expired" ELSE @[B]]]
       /\ app' = [app EXCEPT !.tracked = @ \ {e \in rest : open(e) = {}}]
       /\ drain' = [NoDrain EXCEPT !.phase = "pick", !.todo = drain.todo,
                                   !.later = drain.later, !.again = drain.again]
       /\ UNCHANGED <<io, seen>>

EndDrain ==
    /\ drain.phase = "pick" /\ drain.todo = {} /\ drain.later = {}
    /\ db' = ReconcileOneShots(db)
    /\ drain' = NoDrain
    /\ UNCHANGED <<app, io, seen>>

-----------------------------------------------------------------------------
(* Users, devices, time and crashes.                                       *)

(* The event was terminated while its call was under way. *)
ClosedInFlight(e, d) ==
    io[d].st = "wire" /\ e \in io[d].cur /\ db.row[e][d].st = "expired"

SetPolicy(s, mode) ==
    LET rev == app.rev + 1
        stores == mode # "default"
        mine == {e \in Event : PolicyOf[e] = s}
        granted == ({db.policy[s].rev}
                      \cup {db.row[e][d].shot : e \in mine, d \in Device})
                   \ {NoShot}
    IN /\ Quiet /\ app.moves > 0 /\ mode # db.policy[s].mode
       /\ stores => rev \in Revs
       /\ db' = PutPolicy(db, s, mode, rev)
       /\ app' = [app EXCEPT !.moves = @ - 1,
                             !.rev = IF stores THEN rev ELSE @]
       /\ seen' = IF mode \in {"default", "mute"}
                  THEN [seen EXCEPT !.revoked = @ \cup
                          {t \in mine \X Device \X granted :
                             ~ ClosedInFlight(t[1], t[2])}]
                  ELSE seen
       /\ UNCHANGED <<drain, io>>

Focus ==
    /\ Quiet /\ (app.focused \/ app.moves > 0)
    /\ app' = [app EXCEPT !.focused = ~ @,
                          !.moves = IF app.focused THEN @ ELSE @ - 1]
    /\ UNCHANGED <<db, drain, io, seen>>

Subscribe(d) ==
    /\ Quiet /\ app.moves > 0
    /\ app' = [app EXCEPT !.moves = @ - 1,
                          !.devices = IF d \in @ THEN @ \ {d} ELSE @ \cup {d}]
    /\ UNCHANGED <<db, drain, io, seen>>

(* next_attempt_at of the event is reached, with some of its rows.         *)
Elapse(e) ==
    LET waiting == {d \in Device : db.row[e][d].at = "later"}
    IN /\ Quiet /\ (db.due[e] = "later" \/ waiting # {})
       /\ \E D \in SUBSET waiting :
            /\ waiting # {} => D # {}
            /\ db' = [db EXCEPT
                 !.due[e] = IF @ = "later" THEN "now" ELSE @,
                 !.row[e] = [d \in Device |-> IF d \in D
                                              THEN [@[d] EXCEPT !.at = "now"]
                                              ELSE @[d]]]
       /\ UNCHANGED <<app, drain, io, seen>>

(* expires_at of an event is passed.                                       *)
GrowOld(e) ==
    /\ Quiet /\ app.moves > 0 /\ db.status[e] # "absent" /\ e \notin db.old
    /\ db' = [db EXCEPT !.old = @ \cup {e}]
    /\ app' = [app EXCEPT !.moves = @ - 1]
    /\ UNCHANGED <<drain, io, seen>>

(* startupGraceUntil is passed. *)
GraceOver ==
    /\ Quiet /\ app.recovered # {}
    /\ app' = [app EXCEPT !.recovered = {}]
    /\ UNCHANGED <<db, drain, io, seen>>

(* The process dies and starts again.  The new coordinator may find the    *)
(* requests of restored chats again; accepted one-shots are consumed, and  *)
(* the first drain runs at once.                                           *)
Crash ==
    /\ app.crashes > 0 /\ drain.phase # "boot"
    /\ \E kept \in SUBSET app.relevant :
         app' = [app EXCEPT !.relevant = kept, !.pending = {}, !.held = {},
                            !.tracked = {}, !.focused = FALSE,
                            !.recovered = {e \in Event : db.status[e] # "absent"},
                            !.crashes = @ - 1]
    /\ drain' = [NoDrain EXCEPT !.phase = "boot"]
    /\ io' = [d \in Device |-> Off]
    /\ db' = ReconcileOneShots(db)
    /\ UNCHANGED seen

(* The steps of a drain, and the answers it waits for.                     *)
Work ==
    \/ Drain \/ List \/ GroupCompletions \/ Triage \/ DecideRows \/ SpreadBatches
    \/ ConsumeShots \/ Settle \/ EndDrain
    \/ \E G \in drain.todo : Process(G)
    \/ \E g \in drain.fans : StartFan(g)
    \/ \E d \in Device :
         \/ Look(d) \/ Launch(d) \/ Skip(d) \/ Retry(d) \/ Commit(d)
         \/ Accept(d) \/ Pause(d) \/ \E last \in SUBSET io[d].cur : Fail(d, last)

Next ==
    \/ Work \/ FlushCompletions \/ GraceOver \/ Focus \/ Crash
    \/ \E d \in Device : Gone(d) \/ Subscribe(d)
    \/ \E e \in Event : Persist(e) \/ TryDeliver(e) \/ Resolve(e)
                         \/ Elapse(e) \/ GrowOld(e)
    \/ \E s \in Governing, mode \in Modes : SetPolicy(s, mode)

Spec == Init /\ [][Next]_vars

(* The poll timer drains every 30 s, and providers answer or time out.     *)
(* Time passes also during a drain, though the model shows it between two  *)
(* drains: strong fairness.  That a device or a user acts is not promised. *)
Fairness ==
    /\ WF_vars(Work) /\ SF_vars(GraceOver)
    /\ \A e \in Event : SF_vars(Elapse(e))
FairSpec == Spec /\ Fairness

-----------------------------------------------------------------------------
(* A provider call for e on d starts in this step. *)
Sends(e, d) == io[d].st # "wire" /\ io'[d].st = "wire" /\ e \in io'[d].cur

(* An alert whose acceptance is journaled is never sent to the same device *)
(* again, whatever crash, lost receipt, new decision or batch mate comes   *)
(* between (recordPushNotificationDeliveryAttempt before the receipt, and  *)
(* reconcileDeliveredPushNotificationAttempts before each drain).          *)
ReceivedIsNotResent ==
    [][\A e \in Event, d \in Device : Sends(e, d) => <<e, d>> \notin seen.got]_vars

(* Once an alert was accepted under a one-shot setting, that revision      *)
(* authorises no call for another event, but for those one pass of process *)
(* handled with it, even if a crash came before the setting was consumed.  *)
OneShotIsForOneEvent ==
    [][\A e \in Event, d \in Device, r \in Revs :
         Sends(e, d) /\ db'.row[e][d].shot = r /\ seen.spent[r] # {}
         => e \in seen.spent[r]]_vars

(* A one-shot the user has withdrawn with Default or Mute authorises no    *)
(* later call, though rows written under it wait for a retry and an answer *)
(* under it may still be on its way.  Only a row that a termination closed *)
(* under its call escapes: its late failure opens it again.                *)
RevokedIsNotUsed ==
    [][\A e \in Event, d \in Device :
         Sends(e, d) => <<e, d, db'.row[e][d].shot>> \notin seen.revoked]_vars

(* Unless Hlid stays in front, every alert is in the end sent, suppressed, *)
(* failed for good or withdrawn: none is left behind by a crash, a batch   *)
(* or a retry that nobody will list again.                                 *)
EventuallySettled ==
    []<>(\/ app.focused
         \/ \A e \in Event :
              /\ ~ Live(db, e)
              /\ db.status[e] # "cancelled" =>
                   \A d \in Device : ~ Unsettled(db.row[e][d]))
=============================================================================
