# Hlid in TLA+

Hlid is a web application, with one Bun server process, that runs chats with
external coding agents (Claude, Codex, ACP agents) on the user's own machine. It
queues prompts, sleeps through provider usage limits, runs routines on a
schedule, notifies devices, delegates work to child sessions, and must do all of
it over restarts, deployments and lost connections. This directory holds TLA+
modules of the parts of the server where that is difficult, the TLC runs that
check them on small instances, and proofs for every size that TLAPS checks.

Source paths below are those of the repository (`src/server/session.ts`);
`PROJECT.json` maps every definition to its lines.

## 1. Inventory

### Components

| Component | State it keeps | Operations | Properties that make it correct | Here |
|---|---|---|---|---|
| Chat turn queue: `session.ts` (SessionManager), `sessionTurnQueue.ts`, `db/pendingTurns.ts`, `sessionPool.restoreDurableTurns` | queue, running turn, abort signal, `durableTurns`, `cancelledDurableTurns`; tables `session_pending_turns`, `messages` | `runQuery`, `persistDurableTurn`, `drainTurnQueue`, `runOneTurn`, `steerQueued`, `cancelQueued`, `promoteQueued`, `abort`, `suspendForRestart`, restore | a prompt is stored until it is sent, sent once, shown once, never sent after a Stop; every request is answered | `SessionTurns` |
| Routine scheduler: `routineScheduler.ts`, `sessionRunner.ts`, `db/routines.ts`, notification recovery in `index.ts` | `active`, `pending`; tables `routines`, `routine_runs`, `routine_run_notification_records` | create, edit, enable, archive, claim, run, pause, finish, notify, interrupt stale runs, recover notifications | occurrences handled in order and once, one run at a time, one outcome and one notification per run, a paused routine stays paused, nothing stalls | `Routines` |
| Usage gate: `usageGate.ts` | hard limits, skips and wakers by provider and window | `evaluateSleep`, `sleepUntilAllowed`, `restoreSleepDecision`, `skipSleep` | the cap of a sleep counts from its start and over restarts; Resume now wakes every sleeper; every wait ends | `UsageGate`; its verdict is a free choice in `SessionTurns` |
| Session pool: `sessionPool.ts`, `wsHandlers.ts`, `sessionRunner.ts` | entries, the chat each has claimed or loads, CLI update lease, drain promise | create, close, drain, claim a chat, restore stored turns; the chat, goal and Routine handlers that use them | one entry per chat, no entry under a lease or a drain, the pool opens again | `SessionPool` |
| CLI updates: `cliUpdateActions.ts`, `lib/cliUpdateRuntime.ts`, the requests in `index.ts` | the lease and its clients | begin, renew, release, reconcile, abandon | who installs is alone, and after every process that its drain can wait for has gone | `SessionPool` |
| Permission and question requests: `permissions.ts`, `umbod.ts` | pending requests by id | register, complete, clear | a request is resolved once | not modelled |
| Push notification outbox: `pushNotificationOutbox.ts`, `pushNotificationCoordinator.ts`, `pushDelivery.ts`, `db/pushNotifications.ts` | events, batches, delivery rows, the attempt journal, policies; the drain and its workers | enqueue, batch, deliver, retry, expire, consume or revoke a one-shot, reconcile | no alert twice on a device once its acceptance is stored, a one-shot covers one event, nothing is left behind | `PushStore`, `PushOutbox`; `Routines` models the enqueueing of its own events |
| Delegation manager: `hlidDelegation.ts`, `db/delegations.ts` | `session_delegations`, the active map, the hierarchy lock | delegate, continue, cancel, cancel a run's children, archive, finish | caps on children hold, no slot leaks, a cancelled tree neither grows nor wakes, a Routine's run ends last | `Delegations` |
| Run state and WebSocket fan-out: `runState.ts`, `wsHandlers.ts` | replay buffer (500 events), transitions, subscribers | publish, replay, subscribe | a client that reconnects sees no gap before the current turn and no event twice | not modelled |
| Terminal and shell pools: `ptySessionPoolBase.ts`, `terminalSessionPool.ts`, `shellSessionPool.ts`, `ringBuffer.ts` | entries, subscribers, idle and clean-up timers, output ring | subscribe, unsubscribe, close, output, exit, clean up | no process without a session that shows it, the replay is the last bytes, an unwatched terminal ends | `PtyPool`, `RingBuffer` |
| Worker RPC client: `workerRpcClient.ts` | worker, requests in flight | request, answer, time-out, close | every request settles once, and by its own worker | not modelled |
| Provider adapters: `claudeProvider.ts`, `codexProvider.ts`, `codexAppServer.ts`, `acpProvider.ts`, `acpRuntime.ts` | external agent processes | open, send, steer, interrupt, cancel, event stream | | not modelled: protocols of external programs; `SessionTurns` keeps what the session asks of them |
| Web client store: `hooks/wsStore.ts` | outbox of unsent messages | send, mark `_sent`, resend | | not modelled: an input (a turn id may arrive twice) |
| User interface: `components`, `routes` | React state | rendering, forms | | not modelled: presentation |
| Persistence schema and queries: `db/schema.ts`, `db/messages.ts`, `db/sessions.ts` | SQLite tables | migrations, queries | | the tables that carry the protocols are variables of the modules |
| History import and extension management | files, catalogues | import, install | | not modelled: input and output |
| Integrations: Obsidian, CLIProxy, speech, TLS, authentication | external services | thin wrappers | | not modelled |

### How they interact

A message arrives on the WebSocket (`wsHandlers`), which finds or creates an
entry of the session pool and calls `runQuery` of its `SessionManager`. The
manager queues the turn at once and writes its row concurrently; its drain loop
takes the head of the queue, waits for the row, asks the usage gate, writes the
transcript, opens the provider session, marks the row, sends, and follows the
event stream. The routine scheduler creates a session of its own for a run and
calls the same `runQuery`; it waits for the turn, for delegated children and for
deliveries, and reports the outcome through a callback that enqueues an event of
the push outbox. At shutdown the pool suspends every manager, then the process
exits; the next one calls `restoreDurableTurns`, interrupts stale routine runs and
recovers their notifications.

Everything but the provider processes, the workers and the browser runs in one
JavaScript process. Its stretches between awaits are atomic, and `bun:sqlite`
executes a statement synchronously once `getDb()` has resolved. In development
the server functions of the web user interface run in a second process on the same
database; the modules describe the deployed single process.

### What is hard

- State read before an await and used after it: a turn waits in the queue before
  its row exists; a steer holds a claimed turn while the provider decides.
- The process may end between any two commits, and a row left behind must say
  neither too little (a prompt sent twice) nor too much (a prompt lost).
- Messages and requests arrive twice; cancellation meets work under way.
- Timers, retries and leases meet late answers.

The hazards, each at its line and with the properties that cover it or the reason
why none does yet, are in `PROJECT.json`.

## 2. The modules

| Module | Content |
|---|---|
| `SessionTurns` | the durable turn queue of one chat, its properties and its inductive invariant |
| `TurnLedger` | what that queue promises about a prompt, in five fates |
| `SessionTurnsLedger` | the refinement mapping from `SessionTurns` to `TurnLedger` |
| `SessionTurnsProofs` | facts about the queue operations, and proof of the invariant and of every safety property of the turn queue |
| `SessionTurnsLedgerProofs` | proof of the refinement |
| `Routines` | the scheduler, one run, the tables, notifications, and their properties |
| `RoutinesProofs` | the inductive invariant of `Routines`, and the proof of it, of seven properties and of the types |
| `UsageGate` | auto-sleep of the chats of one provider, and its properties |
| `UsageGateProofs` | its inductive invariant, and the proof of it, of three properties and of the types |
| `SessionPool` | entries of the pool, the handlers that create and use them, and the clients of a CLI update |
| `SessionPoolProofs` | its inductive invariant, and the proof of it, of three properties and of the types |
| `PushStore` | the notification tables as one record, with an operator for each statement or transaction |
| `PushOutbox` | the coordinator, the drain, its workers and the provider's answers, on top of `PushStore` |
| `PushOutboxProofs` | what each statement and each step does, the inductive invariant, and the proof of it, of its three safety properties and of the types |
| `Delegations` | the delegation manager, a user's or a Routine's session above it, and crashes |
| `DelegationsProofs` | its inductive invariant, and the proof of it, of five properties and of the types |
| `RingBuffer` | the output buffer of a terminal, as operators |
| `PtyPool` | the terminals of both pools with their clients, timers and workers |
| `PtyPoolProofs` | proof that the ring buffer replays the tail, the pool's inductive invariant, two properties and the types |
| `MC...` | constants of the runs of each module |

Definitions whose name starts with `Bug` are mutations: the definition next to
them with a mistake in it that one of the properties detects. They are not part
of the specification.

### SessionTurns

| Variable | In the code |
|---|---|
| `pendingRows` | table `session_pending_turns`: state, position, the request it came from, and whether an expired sleep cap is stored (`resumed`) |
| `transcript` | user rows of a turn id in `messages` |
| `turnQueue` | `SessionTurnQueue.pending` |
| `durableReady` | the promise of `persistDurableTurn`, by request |
| `durableTurns`, `cancelledDurableTurns` | the maps of the manager |
| `promoting` | requests promoted before their row exists |
| `currentTurn`, `phase`, `aborted` | `currentTurnArgs`, the await at which `drainTurnQueue` or `runOneTurn` stands, and the drain's abort signal |
| `agentSession`, `steer` | the attached provider session; calls of `steerQueued` in progress |
| `suspendingForRestart` | the flag of that name |
| `outcome`, `sent`, `steered`, `stopped`, `restarts` | history: how each promise ended, and what happened to a turn; only properties and bounds read them (a request may be made once, `outcome = "new"`) |

An action is one stretch between two waits on the outside world, with every write
it makes. `RunQuery` queues and starts a drain when none runs.
`PersistRefused`, `PersistCancelled`, `PersistInserted` and `PersistFails` are the
four ends of `persistDurableTurn`, which is a step of its own because it waits for
the session context; the order in which several of them end is free.
`AcceptTurn` ... `FailTurn` follow `drainTurnQueue` and `runOneTurn`: wait for
the row, gate (proceed, sleep, wake, skip, abort), look the user message up
(`LookUpUserMessage`), append it when none was found (`AppendUserMessage`, phase
`appending`, for `persistUserMessage` awaits between the two), mark the row, send, end.
A steer does the same on its own way: `SteerLooksUp`, `SteerAppends`, `SteerSettles`. `CancelQueued`, `PromoteQueued`, `Abort` and the
`Steer...` actions are the handlers of the client's commands. `SuspendForRestart`
is the deployment's shutdown; `Restart` is the end of the process at any point, with
or without it, together with what the next process does in
`restoreDurableTurns`.

Decisions worth knowing:

- A row is deleted by a promise nobody awaits. Its statement is issued in the same
  stretch, so the deletion belongs to the action.
- An aborted provider session delivers nothing, so `Send` needs `~aborted`; that is
  what `AgentSession` promises, not what an agent process does.
- The verdict of the usage gate is a free choice, except that an expired cap lets
  a turn by.
- `GateSkipped` may return a forgotten entry to `durableTurns`: the gate writes
  back a copy it took before it slept. The UPDATE beside it does not return the row.
- Cancelling or stopping a turn whose row exists leaves its id in
  `cancelledDurableTurns`, as in the code; the next message with that id is then
  dropped without a word.
- `EveryRequestSettles` asks nothing of a suspended manager: `suspendForRestart` lets waiting
  turns go without an answer, and a CLI update suspends without a restart (section 6).
- `ShownOnce` leaves out a steered copy of a turn that arrived twice, as section 6 tells.
- Left out: continuations queued by a provider, compactions and turns without an id,
  which share the queue but have no row; archived sessions; a pool that is full at
  restore; rows with an unreadable payload; deletions that SQLite refuses.

### TurnLedger

A prompt is `new`, `stored` (its row would be run by a restart), `leaving`
(its row says dispatching), `sent` or `over`. `Store`, `Leave` and `Send` move one
prompt on; `GiveUp` ends any number of prompts that were not sent. Restarts,
the queue, steering and sleep do not appear: the mapping `Fate` reads the fate of a
turn from its row, from `sent`, and from the requests that may still insert the row.
The refinement needs turn ids to be unique (`UniqueTurns`); with copies a second
row for an abandoned turn is intended.

### Routines

`routines` and `runs` are the tables, `events` and `recorded` the events of runs in
the outbox and the records that they exist, `active`, `pending` and `execution` the
scheduler's memory, `execution[i].at` the await at which `execute` or
`runRoutineSession` stands. A schedule is a set of due times, so that
`NextOccurrence` keeps the meaning of `nextRoutineOccurrence` (the first due time
strictly after an instant) without calendars and time zones. `Tick` is one row of
`claimDueRoutineRuns` with the capacity check before it; `CheckRevision`,
`FailToStart`, `MarkRoutineRunRunning`, `ActionRequired`, `StopTurn`, `RunReturns`,
`FinishRoutineRun`, `PauseRoutine` and `Report` follow a run. Every SQLite transaction is a
step, and `Restart`, which includes `interruptStaleRoutineRuns`, can come between any two.
An outcome that SQLite refuses to store is an unhandled rejection, which ends the process
(`server/prelude.ts`): it is a `Restart`. `Enqueue` can be refused at either of its two
commits. Left out: permission grants, what delegated children and
deliveries do (a run returns after them), the expiry of a permission profile, which
nothing sets.

### UsageGate

| Variable | In the code |
|---|---|
| `now` | the clock; a unit is the longest wait between two evaluations, 60 s |
| `usage` | `hardLimits`, `skipUntil` and the window marks of `proxy.ts`, by window of one provider |
| `gate` | one chat's call of `sleepUntilAllowed`: `cap` is `capDeadline`, `window`, `reason` and `until` are `lastEmitted`, `checked` the time of the last pass, `skipped` the flag |
| `woken` | chats whose waker was called in this stretch |
| `sleepState` | the window of the chat's banner, which decides what Resume now suppresses |
| `rows` | the row of the chat's turn in `session_pending_turns`, its sleep columns and `created_at` |
| `unrestored` | chats the new process has not come to yet |
| `promised`, `released`, `resumedTo`, `signals` | history, and the one bound on limits, readings, uses of Resume now and restarts together |

`evaluateSleep` is a function of the maps and the time; what it deletes on the way (expired
limits and skips, a limit that gives up) is `Evaluated`. `GateOpens`, `CapExpires` and
`FallAsleep` are one pass of the loop; a woken chat passes before anything else happens, because
its waker resolves a promise. The rest are the sources of change: events of
the provider's stream, polled readings, Resume now, restarts, and time. Decisions worth knowing:

- A utilization is `low` or `high`, by its side of the threshold less the reserve.
- `onSleep` and `onWake` wait for SQLite only, so no other handler runs between the decision and
  the registration of the waker.
- A tool call goes through the gate without a row: a restart discards its turn.
- A row keeps a deadline only when the decision that brought it was emitted. A capped decision with the
  window, reason and end of the uncapped one before it is not emitted, and its
  deadline then lives in memory only; so `CapHolds` speaks of a deadline from the moment the row
  has it.
- Left out: the setting changed or disabled during a sleep, readings without a utilization,
  the time shown by the banner, a provider's windows beyond the three.

### SessionPool

A session is named by the request that created it (`pool`), and its manager reduced to the
chat it has claimed (`claimed`) or loaded (`current`), whether it has a provider process (`proc`)
and whether it is suspended (`susp`). A process whose session has left the pool stays in
`proc` until it exits (`StrayExits`), and nobody waits for it. `req` says what each request is (a chat message, a goal
command, a Routine's run, a stored turn of the restart), the await its handler stands at, and
the session it uses; `lease`, `drain` and `update` are the CLI update lease, the drain
promise with those that wait for it, and where each client of an update is. `ChatArrives`,
`Prepared`, `Submit` and `SelectionFails` are `handleChat` cut at its awaits; `Start`,
`Load`, `Launch` and `EndTurn` what a manager does with a turn; `UpdateBegins` ... `Abandon` the
requests of a client, some of them late. Decisions worth knowing:

- `Holds(e)` is what `findByDbSessionId` sees: a claim, else the chat the manager has loaded.
- A drain waits for what has owned cleanup: `suspendForRestartAndWait` collects the sessions
  that exist and awaits those of a provider with `cancelAndWait`, which only ACP has. Which they
  are is a free choice of `UpdateBegins` (`owned`, then `dying`).
- Suspending or closing a manager does not stop a turn that is starting: `Launch` opens its
  provider whatever has become of the session, since `runOneTurn` looks at no abort signal between
  `buildPromptAsync` and `getOrCreateAgentSession`. So `InstallerWaits` speaks of the
  processes that were waited for, and section 6 tells what it cannot say.
- A drain that another client has begun is joined, not begun anew; one that fails leaves
  processes behind (`loose`), and the next drain does not wait for them, as in the code.
- `promised` is the end of the time a client was last given; properties speak of what a client
  does before it. The clock is discrete and time passes only with `Tick`.
- Left out: the vault's entry, the relief of a full pool, realtime sessions, entries of delegated
  children, the generation guard of permission modes, reloads of the configuration, retiring a
  provider's sessions, status, the order within a queue, Codex app servers.

### PushStore and PushOutbox

`PushStore` holds no variables: `Stores` is the type of the tables, and each statement or
transaction is an operator from tables to tables. `PushOutbox` adds `db`, the tables of that
type, all that a crash leaves; `app`, the coordinator, users, devices and whether a window is in
front; `drain`, the pass in progress with its phase (list, pick, triage, spread, send, settle); `io`, the
worker of each device, its call on the wire and the writes it still owes; and `seen`, history. A
pass follows `drain` and `process`; a worker follows the loop of `deliverPushEventsUnlocked`, with
transient retries (`Quick`) under the stored ones (`Retries`). After a failure the worker pauses
and calls again (`Pause`, `Retry`) or gives up (`Fail`): it has no quick retry left, the failure
is permanent, or the alerts expire before the next call. `Fail` chooses freely which of them
have had their last attempt. A crash may come between any two
steps, also between two of the writes after an answer; the accepted one-shots it leaves are
consumed by the next start (`ReconcileOneShots`). `seen` records what a device has got (from the
commit of the attempt journal on), the pass that first spent a revision, and, row by row, the
revisions a user has withdrawn. Decisions worth knowing:

- `RevokedIsNotUsed` leaves out a row that a termination closed under its call on the wire
  (`ClosedInFlight`): its late failure opens it again, which section 6 tells.
- `OneShotIsForOneEvent` speaks of the first pass that spends a revision: the code consumes it at the end of
  that pass, so other alerts of the same pass may use it too, on this or another device.
- Time is what a column says: a next attempt is none, later or now, and `Elapse` moves it on.
- SQLite answers at once, so other handlers run only while the drain waits for a provider or a
  delay, or is idle (`Quiet`).
- Preferences and quiet hours are the set `Keen` of devices that accept by default. Left out:
  the events of Routines (`Routines` has their creation), device targets, the mode "notify", the page limits
  of a pass, Retry-After, batches marked read, test notifications, pruning.

### Delegations

| Variable | In the code |
|---|---|
| `row`, `filed` | `session_delegations`: status, parent, depth, attempts, unattended; whether the child's session is open or archived |
| `run`, `stopping` | the active map with the stage of each attempt, and `cancellationRequested` |
| `turn` | the running turn of each session |
| `call` | requests to the manager under way, the await each stands at (the lock, the provider's setup, the claim), and the subtree a cancel walks |
| `routine` | a Routine's run as `SessionRunner` sees it |
| `used`, `cut`, `revived` | bounds; history: delegations for which a cancel has returned, and those un-archived after it had passed them over |

`Delegate`, `Resume`, `Cancel` and `CancelRun` begin a call, `Serve` and `Sweep` move it on, the
attempt of a child runs through `start`, `query`, `ended` and `saved`. A crash clears
everything but the tables, and the next process marks active rows as interrupted. Trees of
any shape arise because a running child may delegate too. Left out: queries that fail,
worktrees, steering, checks of providers and permissions (any of them may refuse), the user's turns in
a child's chat, deletion, token accounting. `RoutineEnds` takes the loop of
`waitForRoutineRun` as one guard, so a loop that did not look again would not be seen.

### RingBuffer and PtyPool

Bytes are numbered as they are written, so a chunk is an interval of numbers and a buffer
holds numbers; `Push` and `Snapshot` are the code's modular arithmetic over an array that is not
cleared. In `PtyPool`, `entries`, `alive`, `subs`, `handle` and `exitMark` are the entry of a session
and its fields, `idling` and `cleaning` the timers that are pending, `worker` what the process
does. Timers carry a session's id in the code, so an idle timer and a clean-up act on whatever
entry that session has when they expire; the model keeps that. Left out: input, resizing, labels,
pins, and the frames between the bridge and its worker, of which a worker's death without an exit frame remains
(`Vanish`). `closeAll` closes sessions one after the other in one stretch.

## 3. The runs

| Run | Instance | States | Shows |
|---|---|---|---|
| `turns` | 2 prompts, sleep, steering, 2 restarts | 53,202 | seven properties of stored prompts, the refinement of `TurnLedger`, and that every request is answered |
| `turns_resent` | 2 prompts, one sent twice, steering, 1 restart | 623,834 | `SentOnce` and `ShownOnce` with copies |
| `routines` | 1 routine, 2 kinds of schedule, an edit, a toggle, Run now, a restart | 2,081,047 | occurrences in order, one outcome, pauses |
| `routines_live` | 2 routines, each due twice, no catch-up window, a restart, a refusal | 143,708 | one run at a time, one notification, every occurrence is run, missed or skipped, every outcome is reported |
| `usage_gate` | 2 chats, 2 windows, 3 signals among limits, readings, Resume now and restarts, clock to 4 | 272,204 | caps, Resume now for both chats, restored turns, and that every wait ends |
| `push_one_shot` | 2 events of 2 chats, 1 device, a one-shot mode, both retries, 2 moves, a crash | 1,827,940 | what a one-shot setting may authorise |
| `push_live` | 2 events, 1 device, a stored retry, a crash | 478,793 | no alert twice, none left behind |
| `delegations` | 2 children, 2 calls at once, 2 cancels, archiving, 2 crashes | 1,696,496 | caps, slots and cancelled trees |
| `delegations_live` | the same under a Routine's run, an action without a grant, a crash | 127,607 | the run ends last, cancels settle |
| `pool` | 2 requests for a chat, 2 CLI updates, leases of 2 units, clock to 3, a mishap | 749,200 | one owner, a lone installer that waited for what it could, an open pool |
| `pty` | 1 session, 3 clients, 2 workers, a buffer of 3, 5 bytes | 366,555 | no stray process, the replay, the end of unwatched terminals |
| `finding_...` | the pool with a clock to 2 | | the disagreement of section 6 that has a run |

What a property says is stated above it in its module.

### Bounds, and why they are enough

- Two prompts: one is in the drain loop while the other is queued, persisted, steered or
  restored; every property but the order of rows speaks of one turn, or of a turn and
  the running one. The order of any number of rows is proved (`QueuedOrderAlways`). Copies need a
  third request for the turn beside the copies.
- Two restarts, because a row can be restored by one process and dispatched by the next;
  one where more adds only time.
- One edit, toggle, manual run or refusal, and one restart, at any point of a run: the faults that the
  properties exclude need one of each. A clock up to 2, with a window of 0, has
  occurrences in time and missed ones. The live run has two due times of two routines, so while one
  runs the other's occurrence is missed, overlaps and is skipped, or waits; its turns succeed,
  need an action or are interrupted. Other endings and Run now are in `routines` and in the theorems.
- `ResendAssumption` limits a turn id to two arrivals: the client marks a
  message as sent, and only a reload or a second tab replays it.
- The gate: two chats, one that uses Resume now and one that it must wake too; any number by
  proof. A cap of 2 units, a
  buffer, a recheck and a fallback of 1 make resets before, at and after the cap; a chat is
  admitted, and a limit without a reset reported, only when a cap that starts then can still
  end (`Early`). Three signals give a limit, its change or another window's, and the Resume now or the
  restart that meets them.
- The pool: two requests for one chat are the race for its ownership, in the mixes message with
  message, goal command with stored turn, and message with Routine; two clients are a holder and
  its successor. A lease of 2 units is renewed in time or expires under its client, and a clock to
  3 leaves room for a second lease. One mishap is a closed session or a failed drain. Any number
  of all of them by proof.
- Push: two events are an alert and the one that replaces it, joins its batch or uses up its
  setting. One device; that the properties hold of any number, when one accepts what another
  refuses, is proved. Two things that users or sessions do are needed to grant a
  one-shot and withdraw it, or to end an alert whose call is on the wire and then withdraw; one
  where a run is about liveness. One stored retry, and one transient one where there is room for it: a
  longer chain repeats the same rows. One crash, at every point.
- Delegations: two children, so a parent's cap of 1 is reached and a child may be
  another's parent (depth 2); two cancels, the second of which meets what was un-archived after
  the first; two calls, so one waits where the other holds the lock; two attempts,
  for a continuation; the crashes interrupt an attempt and then its continuation. Any number by proof.
- Terminals: three clients, because a timer of a predecessor, a watcher of its successor
  and one that comes later are three; two workers are a predecessor and a successor. Chunks of 1 to 5
  bytes are below, at and above a buffer of 3, and wrap. Any number by proof.
- Symmetry is used in runs without liveness only: exchanging the two copies of a
  turn, two children or two calls.

Deadlock is not checked, because these systems may stop: all requests are answered, or nothing
is due, and the bounds are spent.

### Fairness

Only steps that the code drives by itself are fair. In `SessionTurns`: the end of
`persistDurableTurn`, the drain loop (weak fairness of its disjunction: some step of the running turn
happens, since a provider ends its turns and a sleep has a reset or a cap), and the
steps of a steer (a provider answers). A restart is never promised, not even after a suspension. In
`Routines`: `Tick` (a timer every 15 s), the steps of a run, and the recovery of each
notification (at start and every 30 s; refusals are finite). In `UsageGate`: the clock, and for
each chat the pass that is due when its timer fires, the dispatch of a turn that was let by, and the
restoration of its row at start. In `SessionPool`: the end of a process that a drain waits for
(not of those that nobody waits for), the drain's answer, and the clock, hence leases expire; turns are fair only for the
finding's run. In `PushOutbox`: the drain and its workers (a poll every 30 s, every call has a
time-out), and, strongly since a crash or a newer alert may disturb them, the grace time after a start and
the passing of each retry delay. In `Delegations`: the steps of a call, strongly for the
one that needs the lock (it is granted first come, first served), the stages of an attempt, the end of a
query that was stopped, and of the Routine's run; a query that nobody stops may go on for ever. In
`PtyPool`: the two timers. Users, crashes and restarts have none.

## 4. What is proved

For every value of the constants that satisfies the named assumptions:

| Theorem | Module | Says |
|---|---|---|
| `SentOnceAlways` | `SessionTurnsProofs` | no turn is sent twice |
| `TypeCorrect`, `InvAlways` | `SessionTurnsProofs` | types, and the invariant below |
| `ImplementsLedger` | `SessionTurnsLedgerProofs` | with unique turn ids, the chat implements `TurnLedger` |
| `QueuedOrderAlways` | `SessionTurnsProofs` | waiting rows have distinct positions |
| `ShownOnceAlways` | `SessionTurnsProofs` | a prompt shows once in the transcript, though its lookup and its insert are apart and two writers exist |
| `AcceptedTurnIsStoredAlways` | `SessionTurnsProofs` | an accepted prompt that no provider has seen is in the database |
| `NoLeftoverRowAlways` | `SessionTurnsProofs` | no row outlives the request it belongs to |
| `DroppedForCauseAlways` | `SessionTurnsProofs` | only a stopped or repeated message is dropped |
| `StoppedIsNeverSentAlways` | `SessionTurnsProofs` | what Stop found is not sent afterwards |
| `SuspendDeletesNothingAlways` | `SessionTurnsProofs` | a shutdown keeps the rows of waiting turns |
| `OccurrencesInOrderAlways`, `OneLiveRunAlways`, `LiveRunHasExecutorAlways`, `PausedAlways`, `NotifiedOnceAlways` | `RoutinesProofs` | the invariants of `Routines` |
| `OutcomeIsFinalAlways`, `ArchivedAlways` | `RoutinesProofs` | its action properties |
| `TypeCorrect`, `InvAlways` | `RoutinesProofs` | types, and the invariant below |
| `CapHoldsAlways`, `ResumeHoldsAlways`, `ResumeSurvivesAlways` | `UsageGateProofs` | the invariants of `UsageGate` |
| `TypeCorrect`, `InvAlways` | `UsageGateProofs` | types, and the invariant below |
| `WithinLimitsAlways`, `NoSlotIsLeakedAlways`, `SlotOutlivesTurnAlways`, `CancelReachesTreeAlways`, `RoutineEndsLastAlways` | `DelegationsProofs` | the invariants of `Delegations`, for trees of any shape |
| `TypeCorrect`, `InvAlways` | `DelegationsProofs` | types, and the invariant below |
| `OneOwnerAlways`, `HolderIsAloneAlways`, `InstallerWaitsAlways` | `SessionPoolProofs` | the invariants of `SessionPool` |
| `TypeCorrect`, `IInvAlways` | `SessionPoolProofs` | types, and the invariant below |
| `NoStrayProcessAlways`, `ReplayIsTailAlways` | `PtyPoolProofs` | the invariants of `PtyPool`, for any capacity and chunks |
| `TypeCorrect`, `IInvAlways` | `PtyPoolProofs` | types, and the invariant below |
| `ReceivedIsNotResentAlways` | `PushOutboxProofs` | what the journal says was accepted is never sent again |
| `OneShotIsForOneEventAlways` | `PushOutboxProofs` | a spent one-shot authorises no call of another pass |
| `RevokedIsNotUsedAlways` | `PushOutboxProofs` | a withdrawn one-shot authorises no later call |
| `TypeCorrect`, `OutboxInvariant` | `PushOutboxProofs` | types, and the invariant below |

Of these, the types of `SessionTurns`, `Routines`, `UsageGate`, `Delegations`, `SessionPool` and
`PtyPool` and `ArchivedIsNeverScheduled` are proved and need no run of their own.

**Turn queue.** `SentOnce` is not inductive. `Inv` adds: `QueueInv`, a pending request is in one
place (queue, drain loop, or claimed by a steer); `RowInv`, the map agrees with the table and a
row that a restart would run belongs to a turn that was never sent; `PhaseInv`, what the drain loop
has established at each await (from `opening` on the transcript has the turn; while
dispatching its row is absent or says so); and `RivalInv`, while an accepted request
waits to be sent, no copy of it is accepted and none can be, since a row, a transcript entry
or a cancellation makes `persistDurableTurn` refuse it. `Send` preserves `SentOnce` because
the request it sends was unsent, so by `RivalInv` its turn was not sent. Two
arrivals of an id are assumed: a third could be accepted after the cancellation of the first
consumed the memory of it. Lemmas at the head of the module say what shifting, extracting,
restoring and promoting do to an injective queue.

The other safety properties follow from `MoreInv`. `ShownOnce` needs `ShownInv`: while
there is `OneWriter` of a turn (its id came once, or no copy of it was taken as steering), its
transcript has at most one row, and none as long as the drain loop or a steer, which found none, is
still to append it. A lookup by the other in between is excluded by `WritersApart`: a
request claimed by a steer is not the one in the drain loop, and a copy of it there would be a rival
of an accepted request. `AcceptedTurnIsStored` is inductive next to `Inv`: a step
of the drain loop that takes the row of a turn leaves no other request of
that turn unsent, by `RivalInv`; a cancellation, a stop, a failure and a steer are
remembered; and a restart makes pending exactly what it finds. The others speak of requests
whose id came once, and need `OnlyOf`: such a request has no trace before it arrives; its row says
that it was accepted, was not stopped and is still to be sent; while the row is being written,
`cancelledDurableTurns` has its id if and only if it was given up, steers apart; and once stopped it is
pending only as the current turn of an aborted drain. That a restart finds each row with its
request uses that a sequence of all rows without repetition reaches every row.

**Refinement.** `LedgerInv` adds `AwaitInv`, a request whose row may still be inserted has
left no trace, and if it was dismissed `cancelledDurableTurns` knows; and `KeptInv`, a pending accepted
request has its row, unless it is running, or its drain was stopped. `LedgerKept` treats all steps that
move nothing on: rows only disappear or change among the recoverable states, which is
`GiveUp` of the turns that lose theirs. `PersistInserted` is `Store`; `MarkDispatching` is
`Leave`, or a stutter when the row is gone (then the drain is aborted); `Send` is `Send`,
because `KeptInv` and `~aborted` leave only a row that says dispatching.

**Order.** Waiting rows have distinct positions from 1 on. A promotion adds one to the
positions of exactly the rows ahead of the promoted one, which frees 1 for it; an insertion goes
behind the last position in the table, sent rows included.

**Usage gate.** `CapHolds` needs `CapInv`: from the moment a deadline is promised, the row of
the turn has one no later, or one that has passed, and so has the call in progress; a
restored call takes it from the row. `ResumeHolds` needs `ResumeInv`: the suppression that Resume now
stored is there until its time, since an evaluation deletes or replaces only one
that has expired, and a cap replaces one only in a window where none holds. `ResumeSurvives`
needs `ReleaseInv`: a released turn carries an expired cap in its row and in its call, so a
pass can only let it by. That a preferred window exists among the active ones uses that there
are three windows; nothing else is assumed of windows, signals, settings or their number.

**Routines.** `Inv` adds to `OccurrencesInOrder` and `PausedUntilAnswered` the parts `NotAhead` (the
next due time lies after every scheduled row, across edits, toggles and restarts, so a new row is the latest), `OneAtATime` (one active run, none
waiting), `StageInv` (the status of a row follows from the stage of its
execution) and `EventInv` (every event tells the final status of its row, by the same
reason the scheduler and the recovery derive). `OneLiveRun`, `LiveRunHasExecutor` and `NotifiedOnce`
follow. That a next due time exists, for any set of due times, is the
well-foundedness of `<` on the naturals.

**Delegations.** `IInv` adds to the properties `Shape` (the lock has one holder, and what a call
at each await is about), `Steps` (what each stage of an attempt
implies about its row, its session and its turn), `InHand` (what a call has checked, capacity
included, is still true when it comes back from a wait, because it holds the lock) and `Cuts`
(below a delegation whose cancel has returned, everything is over or told to stop, no call under way
adds to it or continues any of it, and what a cancel in progress has not reached is below
a row that it still has to visit). The lemmas on trees say that a subtree is closed under
children and that a new leaf extends only the subtrees of its ancestors. `CancelReachesTree`
is the first half of `Cuts`. Both except what lies below a delegation in `revived`: the sweep passes
over an archived child that is not active, and `setSessionArchived` clears the mark without
asking whether its parent was cancelled. The exception ends with the next cancel above the child that reaches it.

**Pool.** `IInv` adds `Named` and `Unborn` (entries are born once), `Resolved` (a handler past its
look-up uses a session that was the chat's owner), `Drained` and `Leased`. A session is created only
without an active lease and without a drain, and an update begins only without an active
lease, in the same stretch as its drain; so a client within its promised time holds the lease
and found or made the pool empty. A failed drain releases only the leases of those that wait
for it, and none of them is at work.

**Terminals.** `HoldsTail(b, n)`: of `n` bytes written, each that no later one has overwritten is at its
place, counted backwards from the next position. A chunk below the capacity moves every
place by its length around the end, one at or above it starts afresh; remainders are handled by four
lemmas. `Shows` adds to `NoStrayProcess` that a running worker is alive and the entry of
its session: a replacement needs an entry whose process has exited, a close tells the
process first, a clean-up removes only dead entries.

**Outbox.** `IInv` of `PushOutboxProofs` has three layers. `StInv` is the structure of a pass and its workers:
what holds in each phase (`PhaseInv`), which writes a worker may owe (`WorkerInv`), that an event in hand is
stored (`KnownInv`), that batches are disjoint (`BatchInv`), that the row under a call is pending or was
closed meanwhile (`RowInv`), and that revisions only grow (`RevInv`).

`JournalInv` says that what the journal or a row shows was received, and that a row a device has received is `Over`
(nothing is owed to the provider, and no worker will call) or `Owed` (the journal of the row or of a batch mate
proves it, and either its answer is still being written or the process has just started). The attempts are
journaled before the first receipt and all in one stretch, so a crash between the writes
leaves the proof, and the pass a start begins with makes up the receipts before it lists anything.

For the one-shots, `RevokedInv` says that a withdrawn revision is no policy's and that a row which still has it is
`Over`; `SpentInv`, that a call under way with a spent revision is for an event of the pass that spent it; and
`OneShotInv`, that a spent revision is `Used` (no policy has it, nor an open row of another event), or its pass
still runs (`InPass`), or the process has just started (`Recovering`). The last is why the grace time
after a start matters: the first pass defers every event it finds, so it can make up receipts,
and at its end consume what they prove was spent, before anything is decided under the setting. A revision is
written once, so none comes back.

Most steps neither receive, prove nor spend anything. They are `Steady`, a relation of the state before to the state
after, and each layer is proved once for all of them; what is left are the commits of an answer, the
reconciliation, the consumption, a change of policy and a crash. The proof refuted two properties that
smaller bounds had not: `RevokedIsNotUsed` has its exception, and a disagreement in section 6, from there, and
`OneShotIsForOneEvent` now names the pass.

Not proved, and left to TLC: the liveness properties (`EveryRequestSettles`,
`DueIsHandled`, `EveryRunIsReported`, `EveryTurnGetsBy`, `EventuallySettled`, `CancelSettles`,
`PoolReopens`, `UnwatchedEnds`), because fairness and ENABLED are out of reach of
the provers. Properties computed by recursion
over data are not proved either: induction takes an operator as its parameter, which the installed
provers do not instantiate.

## 5. Running

    tlc -workers 2 -config SessionTurnsTwo.cfg MCSessionTurns
    tlapm SessionTurnsProofs.tla

`PROJECT.json` lists which module and configuration belong to a run, and for each
property a mutation that it detects.

## 6. Where the code and its texts disagree

One disagreement has a run, `finding_everysubmittedturnsettles`:

- `EverySubmittedTurnSettles`: the drain for a CLI update suspends the managers as for a
  restart, but no restart follows. `drainTurnQueue` then leaves its loop and settles neither the turn
  it took nor those behind it, although "this call queues behind it and resolves when *its*
  turn completes" (`session.ts:9632`). A Routine's runner waits there and keeps the
  scheduler's only slot.

The others were met while modelling; TLC found a trace of each; where one formula over the module's
variables says it, the formula is given.

- A Stop while the provider decides on a steer does not reach the claimed turn; declined, it
  returns to the queue and runs (`session.ts:6578`; "Explicit abort cancels durable work too.",
  6576). A claim, a Stop and a declined steer, in that order, then a dispatch.
- A turn that builds its prompt when Hlid suspends is marked dispatching afterwards, sends nothing,
  and is discarded by the next start (`session.ts:12462`; "retaining every pre-dispatch
  durable turn", 6599).
- An occurrence that comes due during a run of its routine is not skipped but run after it, within
  the catch-up window (`routineScheduler.ts:197`; "Overlapping runs are skipped rather than
  piled on top of each other.", `docs/user-guide.md:297`).
- A run whose turn was stopped is recorded and reported as succeeded (`sessionRunner.ts:241`).
- A sleeper proceeds at the first evaluation after the reset, so of a resume buffer at most one
  interval between evaluations is waited for (`usageGate.ts`).
- The failed call of an alert that a newer one has replaced meanwhile defers it again, and it is sent late
  (`pushNotificationOutbox.ts:1698`; "Stop an obsolete durable event without rewriting
  terminal history.", `db/pushNotifications.ts:1694`). In `PushOutbox`:
  `[][\A e \in Event : db.status[e] = "cancelled" => db'.status[e] = "cancelled"]_vars`.
- In the same way a one-shot can outlive its withdrawal: an alert is on the wire under it; the alert is
  terminated, which closes its row and keeps the row's one-shot; the user chooses Default, which withdraws
  only rows that still expect a call; the call fails, its receipt opens the row again, the
  end of the pass defers the event, and the next pass sends it under the withdrawn one-shot
  (`pushNotificationOutbox.ts:1698`, `db/pushNotifications.ts:2359`; "Provider accepted rows remain accepted,
  but any future retry is terminated.", 1694). In `PushOutbox`: `RevokedIsNotUsed` without
  `ClosedInFlight` in `SetPolicy`.
- In a Routine, the second action without a grant cancels no child: the clean-up of the first is
  remembered and returned (`sessionRunner.ts:170`; "A late unmatched action pauses the Routine
  and cancels its remaining children.", `hlidHelpGuidance.ts:77`).
- A process is opened while an installer runs: a turn builds its prompt, a client begins an update and
  its drain ends, since no session exists to wait for, and then the turn opens its
  provider (`session.ts:6612`, 12382; "Hold new provider sessions closed across drain, installer, and
  reconcile.", `sessionPool.ts:181`). A message on an entry that a user had closed does the same, and
  processes of Claude and Codex are cancelled but not waited for. In `SessionPool`:
  `[][(\E u \in Updates : Installing(u)) => proc' \subseteq proc]_vars`.
- A handler keeps the entry it resolved over two awaits; when a user closes it meanwhile, its
  message runs on the closed entry while another one answers for the chat
  (`wsHandlers.ts:1645`; `sessionPool.ts:38`).
- An idle timer that was pending when its process exited is never cleared and closes the
  successor that a client watches: subscribe, unsubscribe, exit, subscribe, expiry
  (`ptySessionPoolBase.ts:50`; "kill PTY after this many ms with no WS subscribers", 11). In `PtyPool`:
  `[][\A c \in Clients : LET p == entries[SessionOf[c]] IN IdleExpires(c) /\ p # None /\ alive[p] => subs[p] = {}]_vars`.

Observations without a text to compare them with:

- A process that ends after a provider took a steer, and before its answer is handled,
  replays the steered prompt: its row still says queued.
- A prompt that the client sends twice can show twice when one copy is steered: both copies are
  queued, the drain loop takes the first and looks for a user row, finds none and awaits; the other is
  taken as steering, which does not wait for its acceptance, finds none either; both append
  (`session.ts:11343`, 11359).
- An interrupted child that is archived during a cancel of its parent is passed over, since the
  sweep skips what is archived and not active; un-archived, it can be continued under the cancelled
  parent, until that is cancelled again (`hlidDelegation.ts:1056`, `db/sessions.ts:1747`).
- A promotion moves the queued rows only, so a promoted row may share position 1 with one that
  sleeps; `QueuedOrderIsStrict` speaks of queued rows.
- A sleep is not bounded by `max_sleep_minutes` as a whole when it goes on in another window: a
  five-hour reset within the cap sets no deadline, and a weekly one that follows starts its
  own (`usageGate.ts`, "max_sleep bounds the whole sleep").
- A reading seeded at start with another reset outranks the hard limit that a sleeping row
  remembers, so the restored turn may proceed, or wait for the other reset.
- A crash after the receipts of a batch and before its own update leaves an accepted batch
  "ready". A worker that fails early ends a pass while another's call is under way.
- A subscriber of a dead entry that leaves while its successor has none overwrites the
  successor's idle handle; a late exit frame marks the successor as exited; and the clean-up
  timer of a predecessor removes a successor that died less than 5 s ago. A worker that
  dies without an exit frame leaves an entry that clients believe alive.

## 7. Not modelled, and what is left

- Of the modelled components, what section 2 lists as left out.
- Permission requests, run state with its replay buffer, and the worker RPC client are small and within
  reach of TLC; the RPC client has a hazard (`workerRpcClient.ts:52`) that nothing covers yet.
- `UsageGate` composed into `SessionTurns` in place of the free choice of a verdict, and
  `PushOutbox` with the notification end of `Routines`: each pair was checked apart,
  because their product is beyond a run of minutes.
- Provider adapters speak the protocols of external programs, the web client and the user
  interface are rendering, and history import, extensions and integrations are input and output: no
  protocol of their own runs there that the modules could keep.
- Proofs: every safety property the runs check has one. Left are an abstract specification of the outbox, of
  a delegation and of a Routine's run, in the manner of `TurnLedger`, and their refinements.
