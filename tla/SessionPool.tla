----------------------------- MODULE SessionPool -----------------------------
(***************************************************************************)
(* SessionPool and its users: the chat handler of the WebSocket, the       *)
(* handlers that look a chat up and then create its session, a Routine's   *)
(* runner, the restore of stored turns, and the clients of a CLI update,   *)
(* whose lease keeps the pool empty while a provider is being replaced.    *)
(*                                                                         *)
(* JavaScript runs a handler up to its next await; a step is that stretch. *)
(* A session (pool entry) is named by the request that created it.  Its    *)
(* manager is reduced to the chat it has loaded, its turn queue and        *)
(* whether it has a provider process.                                      *)
(***************************************************************************)
EXTENDS Integers, FiniteSets

CONSTANTS
    Requests,       \* messages, commands, runs and stored turns, each made once
    Mixes,          \* what they may be: "chat", "goal", "routine" or "stored"
    Chats, ChatOf,  \* database sessions, and the one each is for
    Updates,        \* clients of a CLI update, and the leases they get
    None,
    MaxSize,        \* DEFAULT_MAX_SIZE
    Ttl,            \* DEFAULT_CLI_UPDATE_LEASE_MS
    MaxTime,        \* bound on the clock
    MaxMishaps      \* bound on sessions that a user closes and drains that fail

Kinds == {"chat", "goal", "routine", "stored"}

ASSUME PoolConstants ==
    /\ Mixes \subseteq [Requests -> Kinds]
    /\ ChatOf \in [Requests -> Chats] /\ Chats \cap Requests = {}
    /\ None \notin Chats \cup Requests \cup Updates
    /\ MaxSize \in Nat /\ Ttl \in Nat \ {0} /\ MaxTime \in Nat
    /\ MaxMishaps \in Nat

VARIABLES
    pool,       \* entries
    claimed,    \* claimedDbSessionId of each session
    current,    \* currentSessionId of its manager
    susp,       \* managers that are suspended (suspendingForRestart)
    proc,       \* managers with a provider process; nobody waits for those that
                \* have left the pool
    dying,      \* processes whose end a drain was to wait for
    req,        \* each request: what it is, where it is, on which session
    lease,      \* cliUpdateLease
    drain,      \* drainPromise: what it waits for, and whose handlers wait for it
    update,     \* where each update client is
    now,
    promised,   \* history: the time until which a client was last given the lease
    loose,      \* history: processes that a failed drain left behind
    mishaps     \* counter that the bound is about

sessions == <<pool, claimed, current, susp, proc>>
updates == <<dying, lease, drain, update, promised, loose>>
vars == <<sessions, req, updates, now, mishaps>>

NoLease == [by |-> None, until |-> 0]
NoDrain == [on |-> FALSE, left |-> {}, for |-> {}]
Where == {"new", "stored", "looking", "preparing", "selecting", "queued", "starting",
          "running", "settled", "refused", "left"}

TypeOK ==
    /\ pool \subseteq Requests /\ susp \subseteq Requests
    /\ proc \subseteq Requests /\ dying \subseteq Requests /\ loose \subseteq Requests
    /\ claimed \in [Requests -> Chats \cup Requests \cup {None}]
    /\ current \in [Requests -> Chats \cup Requests \cup {None}]
    /\ req \in [Requests -> [kind : Kinds, at : Where, on : Requests]]
    /\ lease \in [by : Updates \cup {None}, until : 0 .. MaxTime]
    /\ drain \in [on : BOOLEAN, left : SUBSET Requests, for : SUBSET Updates]
    /\ update \in [Updates -> {"idle", "draining", "working", "reconciling", "ended"}]
    /\ now \in 0 .. MaxTime
    /\ promised \in [Updates -> 0 .. MaxTime]
    /\ mishaps \in 0 .. MaxMishaps

Init ==
    /\ pool = {} /\ susp = {} /\ proc = {} /\ dying = {} /\ loose = {}
    /\ claimed = [e \in Requests |-> None] /\ current = [e \in Requests |-> None]
    /\ \E kinds \in Mixes : req = [h \in Requests |->
           [kind |-> kinds[h], at |-> IF kinds[h] = "stored" THEN "stored" ELSE "new",
            on |-> h]]
    /\ lease = NoLease /\ drain = NoDrain
    /\ update = [u \in Updates |-> "idle"] /\ now = 0
    /\ promised = [u \in Updates |-> 0]
    /\ mishaps = 0

-----------------------------------------------------------------------------
(* The pool *)

At(h, places) == req[h].at \in places
Kind(h) == req[h].kind
\* A Routine's run has the chat that its session is named by.
Chat(h) == IF Kind(h) = "routine" THEN h ELSE ChatOf[h]
Goes(h, at, e) == req' = [req EXCEPT ![h].at = at, ![h].on = e]

BugNeverExpires == lease.by # None
\* activeCliUpdateLease: a lease that has expired is none.
LeaseActive == lease.by # None /\ lease.until > now

\* create throws.
Refuses == LeaseActive \/ drain.on \/ Cardinality(pool) >= MaxSize

\* findByDbSessionId: the chat a session has loaded counts before its claim.
Holds(e) == IF current[e] # None THEN current[e] ELSE claimed[e]
Owners(c) == {e \in pool : Holds(e) = c}
Owner(c) == CHOOSE e \in Owners(c) : TRUE

BugNoClaim(h) == claimed
\* claimDbSessionId on a session just created.
Claimed(h) == [claimed EXCEPT ![h] = Chat(h)]

CreateFor(h) == /\ pool' = pool \cup {h}
                /\ claimed' = Claimed(h)

\* A manager that is idle takes a turn at once, a suspended one takes none.
Busy(e) == \E h \in Requests : req[h].on = e /\ At(h, {"starting", "running"})
Enqueued(e) == IF Busy(e) \/ e \in susp THEN "queued" ELSE "starting"

\* abort resolves the queued turns.  It cancels the provider process of the one
\* that runs, which ends; a turn that is starting has none yet, and goes on.
Aborted(e) == [h \in Requests |->
    IF req[h].on = e /\ At(h, {"queued"}) THEN [req[h] EXCEPT !.at = "settled"]
                                          ELSE req[h]]

-----------------------------------------------------------------------------
(* Messages, commands, Routine runs and stored turns *)

\* handleChat up to prepareSessionControlsForChat, under the control of the chat
\* (acquireDetachedSessionControl), which the handler keeps while it prepares.
ChatArrives(h) ==
    /\ Kind(h) = "chat" /\ At(h, {"new"})
    /\ \A g \in Requests : Kind(g) = "chat" /\ At(g, {"preparing"}) => Chat(g) # Chat(h)
    /\ \/ /\ Owners(Chat(h)) # {}
          /\ Goes(h, "selecting", Owner(Chat(h)))
          /\ UNCHANGED <<pool, claimed>>
       \/ /\ Owners(Chat(h)) = {} /\ Refuses
          /\ Goes(h, "refused", h)
          /\ UNCHANGED <<pool, claimed>>
       \/ /\ Owners(Chat(h)) = {} /\ ~Refuses
          /\ CreateFor(h)
          /\ Goes(h, "preparing", h)
    /\ UNCHANGED <<current, susp, proc, updates, now, mishaps>>

\* The controls of a stored chat are restored; a chat without a row is only
\* claimed; and the restore may throw.
Prepared(h) ==
    /\ At(h, {"preparing"})
    /\ \/ /\ current' = [current EXCEPT ![h] = Chat(h)]
          /\ Goes(h, "selecting", h)
       \/ Goes(h, "selecting", h) /\ UNCHANGED current
       \/ Goes(h, "refused", h) /\ UNCHANGED current
    /\ UNCHANGED <<pool, claimed, susp, proc, updates, now, mishaps>>

\* A goal command finds the session of the chat, or reads the chat's selection.
GoalArrives(h) ==
    /\ Kind(h) = "goal" /\ At(h, {"new"})
    /\ IF Owners(Chat(h)) # {} THEN Goes(h, "settled", Owner(Chat(h)))
                                 ELSE Goes(h, "looking", h)
    /\ UNCHANGED <<sessions, updates, now, mishaps>>

\* After the read it creates one, unless it meets another owner.
GoalResolves(h) ==
    /\ At(h, {"looking"})
    /\ IF Refuses
       THEN Goes(h, "refused", h) /\ UNCHANGED <<pool, claimed>>
       ELSE IF Owners(Chat(h)) # {}
       THEN Goes(h, "settled", Owner(Chat(h))) /\ UNCHANGED <<pool, claimed>>
       ELSE Goes(h, "settled", h) /\ CreateFor(h)
    /\ UNCHANGED <<current, susp, proc, updates, now, mishaps>>

\* The runner of a Routine creates a session that claims nothing.
RoutineStarts(h) ==
    /\ Kind(h) = "routine" /\ At(h, {"new"})
    /\ IF Refuses
       THEN Goes(h, "refused", h) /\ UNCHANGED pool
       ELSE Goes(h, "selecting", h) /\ pool' = pool \cup {h}
    /\ UNCHANGED <<claimed, current, susp, proc, updates, now, mishaps>>

\* restoreDurableTurns, while the server already answers: a chat whose session
\* cannot be created is left for the next start.
RestoreTurn(h) ==
    /\ At(h, {"stored"})
    /\ IF Refuses
       THEN Goes(h, "left", h) /\ UNCHANGED <<pool, claimed>>
       ELSE IF Owners(Chat(h)) # {}
       THEN Goes(h, Enqueued(Owner(Chat(h))), Owner(Chat(h))) /\ UNCHANGED <<pool, claimed>>
       ELSE Goes(h, "starting", h) /\ CreateFor(h)
    /\ UNCHANGED <<current, susp, proc, updates, now, mishaps>>

-----------------------------------------------------------------------------
(* Turns *)

\* runQuery, after the provider and model of the request have been selected on
\* the session that was resolved before.
Submit(h) ==
    /\ At(h, {"selecting"})
    /\ Goes(h, Enqueued(req[h].on), req[h].on)
    /\ UNCHANGED <<sessions, updates, now, mishaps>>

\* Whatever ends the run of a Routine, its runner closes the session.
RunCloses(h) == pool' = IF Kind(h) = "routine" THEN pool \ {h} ELSE pool

\* The selection is refused.
SelectionFails(h) ==
    /\ At(h, {"selecting"})
    /\ Goes(h, "refused", req[h].on)
    /\ RunCloses(h)
    /\ UNCHANGED <<claimed, current, susp, proc, updates, now, mishaps>>

\* drainTurnQueue takes the next turn.
Start(h) ==
    /\ At(h, {"queued"}) /\ ~Busy(req[h].on) /\ req[h].on \notin susp
    /\ Goes(h, "starting", req[h].on)
    /\ UNCHANGED <<sessions, updates, now, mishaps>>

\* persistDurableTurn loads the chat of a message that waits in the queue.
Load(h) ==
    /\ At(h, {"queued"}) /\ Kind(h) = "chat" /\ current[req[h].on] # Chat(h)
    /\ current' = [current EXCEPT ![req[h].on] = Chat(h)]
    /\ UNCHANGED <<pool, claimed, susp, proc, req, updates, now, mishaps>>

\* initSessionContext loads it at the latest, and the provider gets the turn, also
\* when the session was closed or suspended while the prompt was being built.
Launch(h) ==
    /\ At(h, {"starting"})
    /\ Goes(h, "running", req[h].on)
    /\ current' = [current EXCEPT ![req[h].on] = Chat(h)]
    /\ proc' = proc \cup {req[h].on}
    /\ UNCHANGED <<pool, claimed, susp, updates, now, mishaps>>

\* The turn ends, fails or is given up before its provider has it.
EndTurn(h) ==
    /\ At(h, {"starting", "running"})
    /\ Goes(h, "settled", req[h].on)
    /\ RunCloses(h)
    /\ UNCHANGED <<claimed, current, susp, proc, updates, now, mishaps>>

\* A user closes a session.
Close(e) ==
    /\ e \in pool /\ mishaps < MaxMishaps
    /\ pool' = pool \ {e}
    /\ req' = Aborted(e)
    /\ mishaps' = mishaps + 1
    /\ UNCHANGED <<claimed, current, susp, proc, updates, now>>

\* A process that its manager cancelled, and nobody waits for, is gone.
StrayExits(e) ==
    /\ e \in proc \ pool
    /\ proc' = proc \ {e}
    /\ UNCHANGED <<pool, claimed, current, susp, req, updates, now, mishaps>>

-----------------------------------------------------------------------------
(* CLI updates *)

NewDrain(u, owned) == [on |-> TRUE, left |-> owned, for |-> {u}]
BugDrainAlone(u, owned) == NewDrain(u, owned)
\* closeAllAndWait: a second caller joins the first.
Drain(u, owned) == IF drain.on THEN [drain EXCEPT !.for = @ \cup {u}]
                               ELSE NewDrain(u, owned)

\* When a lease given now expires; the bound on the clock cuts the last ones short.
Expiry == IF now + Ttl < MaxTime THEN now + Ttl ELSE MaxTime

\* /internal/cli-updates/drain takes the lease and empties the pool.  Its managers
\* are suspended: they cancel their processes, and their queued turns stay.  Those
\* of a provider with owned cleanup (cancelAndWait, which only ACP has) are waited for.
UpdateBegins(u) ==
    /\ update[u] = "idle" /\ ~LeaseActive /\ now < MaxTime
    /\ lease' = [by |-> u, until |-> Expiry]
    /\ promised' = [promised EXCEPT ![u] = Expiry]
    /\ update' = [update EXCEPT ![u] = "draining"]
    /\ pool' = {} /\ susp' = susp \cup pool
    /\ \E owned \in SUBSET (proc \cap pool) :
           /\ drain' = Drain(u, owned)
           /\ proc' = proc \ owned /\ dying' = dying \cup owned
    /\ UNCHANGED <<claimed, current, req, loose, now, mishaps>>

\* beginCliUpdateLease throws.
UpdateRefused(u) ==
    /\ update[u] = "idle" /\ LeaseActive
    /\ update' = [update EXCEPT ![u] = "ended"]
    /\ UNCHANGED <<sessions, req, dying, lease, drain, now, promised, loose, mishaps>>

\* A provider process that a drain waits for is gone.
ProcessExits(e) ==
    /\ e \in dying
    /\ dying' = dying \ {e}
    /\ UNCHANGED <<sessions, req, lease, drain, update, now, promised, loose, mishaps>>

\* Every process has gone; the clients that still wait get their lease.
DrainEnds ==
    /\ drain.on /\ drain.left \cap dying = {}
    /\ drain' = NoDrain
    /\ update' = [u \in Updates |-> IF u \in drain.for /\ update[u] = "draining"
                                    THEN "working" ELSE update[u]]
    /\ UNCHANGED <<sessions, req, dying, lease, now, promised, loose, mishaps>>

BugAnyRelease(u) == LeaseActive
\* ownsCliUpdateLease; releaseCliUpdateLease and renewCliUpdateLease succeed
\* only for the client whose lease is in force.
Releases(u) == LeaseActive /\ lease.by = u

\* One process could not be stopped: Promise.all waits for no other, and the
\* handlers release what they hold.
DrainFails ==
    /\ drain.on /\ drain.left \cap dying # {} /\ mishaps < MaxMishaps
    /\ drain' = NoDrain
    /\ lease' = IF \E u \in drain.for : Releases(u) THEN NoLease ELSE lease
    /\ update' = [u \in Updates |-> IF u \in drain.for /\ update[u] = "draining"
                                    THEN "ended" ELSE update[u]]
    /\ loose' = loose \cup (drain.left \cap dying)
    /\ mishaps' = mishaps + 1
    /\ UNCHANGED <<sessions, req, dying, now, promised>>

\* The heartbeat of an update terminal that is open: renewCliUpdateLease.
Heartbeat(u) ==
    /\ update[u] = "working" /\ Releases(u)
    /\ lease.until < Expiry
    /\ lease' = [lease EXCEPT !.until = Expiry]
    /\ promised' = [promised EXCEPT ![u] = Expiry]
    /\ UNCHANGED <<sessions, req, dying, drain, update, now, loose, mishaps>>

\* An update without ACP, or one that failed: release.
Release(u) ==
    /\ update[u] \in {"working", "reconciling"}
    /\ lease' = IF Releases(u) THEN NoLease ELSE lease
    /\ update' = [update EXCEPT ![u] = "ended"]
    /\ UNCHANGED <<sessions, req, dying, drain, now, promised, loose, mishaps>>

\* reconcile-acp refreshes the runtime and then releases.
Reconcile(u) ==
    /\ update[u] = "working" /\ Releases(u)
    /\ update' = [update EXCEPT ![u] = "reconciling"]
    /\ UNCHANGED <<sessions, req, dying, lease, drain, now, promised, loose, mishaps>>

\* The client is gone: its request timed out, or Forge was closed.
Abandon(u) ==
    /\ update[u] \in {"draining", "working"}
    /\ update' = [update EXCEPT ![u] = "ended"]
    /\ UNCHANGED <<sessions, req, dying, lease, drain, now, promised, loose, mishaps>>

Tick ==
    /\ now < MaxTime
    /\ now' = now + 1
    /\ UNCHANGED <<sessions, req, updates, mishaps>>

-----------------------------------------------------------------------------
RequestStep(h) ==
    \/ ChatArrives(h) \/ Prepared(h) \/ GoalArrives(h) \/ GoalResolves(h)
    \/ RoutineStarts(h) \/ RestoreTurn(h) \/ Submit(h) \/ SelectionFails(h)
    \/ Start(h) \/ Load(h) \/ Launch(h) \/ EndTurn(h)

UpdateStep(u) ==
    \/ UpdateBegins(u) \/ UpdateRefused(u) \/ Heartbeat(u)
    \/ Release(u) \/ Reconcile(u) \/ Abandon(u)

Next ==
    \/ \E h \in Requests : RequestStep(h) \/ Close(h) \/ StrayExits(h) \/ ProcessExits(h)
    \/ \E u \in Updates : UpdateStep(u)
    \/ DrainEnds \/ DrainFails \/ Tick

\* What is waited for goes, and time passes; users, requests and the clients of
\* updates may stop.
Spec == /\ Init /\ [][Next]_vars
        /\ WF_vars(\E h \in Requests : ProcessExits(h))
        /\ WF_vars(DrainEnds) /\ WF_vars(Tick)

\* Managers work off their queues.
TurnsSpec == /\ Spec
             /\ \A h \in Requests : /\ WF_vars(Start(h)) /\ WF_vars(Launch(h))
                                    /\ WF_vars(EndTurn(h))

-----------------------------------------------------------------------------
(* Properties *)

\* No chat has two sessions in the pool, though handlers look for its owner,
\* await and create one, while others do the same and the restore of stored
\* turns is under way (claimDbSessionId).
OneOwner == \A e, f \in pool : Holds(e) = Holds(f) /\ Holds(e) # None => e = f

\* A client that works within the time it was last given has the lease, and no
\* session was created behind its back: an expired, abandoned or failed update
\* does not unlock the one that came after (releaseCliUpdateLease).
Installing(u) == update[u] \in {"working", "reconciling"} /\ now < promised[u]
HolderIsAlone == \A u \in Updates :
    Installing(u) => lease = [by |-> u, until |-> promised[u]] /\ pool = {}

\* The installer runs only once the processes that its drain, or one that it
\* joined, was to wait for have gone; those of a drain that failed are not waited
\* for again.  Nothing is said of proc: a turn that was starting when its session
\* was suspended, one on a session that a user had closed, or a provider without
\* owned cleanup may have a process while the installer runs
\* (suspendForRestartAndWait).
InstallerWaits == (\E u \in Updates : Installing(u)) => dying \subseteq loose

\* Whatever becomes of the clients of an update, sessions can be created again.
PoolReopens == (LeaseActive \/ drain.on) ~> ~(LeaseActive \/ drain.on)

\* A turn that was submitted is settled ("resolves when its turn completes").
EverySubmittedTurnSettles == \A h \in Requests : At(h, {"queued"}) ~> At(h, {"settled"})
=============================================================================
