------------------------------- MODULE PtyPool -------------------------------
(***************************************************************************)
(* PtySessionPoolBase with TerminalSessionPool or ShellSessionPool: the    *)
(* pseudo-terminals that stay while their clients come and go.  A client   *)
(* is one WebSocket, which opens and closes once, for one session.  Every  *)
(* callback runs to its end; what interleaves are WebSocket events,        *)
(* timers, the frames of the workers and the requests that close sessions. *)
(* Two timers that differ in length (30 minutes and 5 seconds) may expire  *)
(* in either order: they need not have started together.                   *)
(***************************************************************************)
EXTENDS RingBuffer, FiniteSets

CONSTANTS
    Sessions, Clients, None,
    SessionOf,      \* ws.data.sessionId
    MaxProcs,       \* bound on workers spawned
    MaxOut,         \* bound on the bytes that all of them write
    Idles           \* idleTimeoutMs is not null: a terminal, not a shell

Procs == 1 .. MaxProcs

ASSUME PtyConstants ==
    /\ SessionOf \in [Clients -> Sessions] /\ None \notin Clients \cup Procs
    /\ MaxProcs \in Nat /\ MaxOut \in Nat /\ Idles \in BOOLEAN

VARIABLES
    entries,    \* entries: the worker of each session
    session,    \* the session each worker was spawned for
    worker,     \* what the worker does: "told" after the kill frame
    alive,      \* alive of its entry
    subs,       \* subscribers of its entry
    handle,     \* idleTimer of its entry, named by the client that started it
    exitMark,   \* entries whose exitCode and exitedAt are set
    buffer,     \* buffer of its entry
    idling,     \* idle timers that are pending
    cleaning,   \* scheduled clean-ups, named by the worker that exited
    client,     \* where each WebSocket is
    mapped,     \* the keys of wsToSession
    out         \* history: bytes each worker has written

entry == <<session, worker, alive, subs, handle, exitMark, buffer>>
vars == <<entries, entry, idling, cleaning, client, mapped, out>>

Init ==
    /\ entries = [s \in Sessions |-> None]
    /\ session = [p \in Procs |-> None] /\ worker = [p \in Procs |-> "unborn"]
    /\ alive = [p \in Procs |-> FALSE] /\ subs = [p \in Procs |-> {}]
    /\ handle = [p \in Procs |-> None] /\ exitMark = {}
    /\ buffer = [p \in Procs |-> NewBuffer]
    /\ idling = {} /\ cleaning = {}
    /\ client = [c \in Clients |-> "new"] /\ mapped = {}
    /\ out = [p \in Procs |-> 0]

-----------------------------------------------------------------------------
Of(s) == {c \in Clients : SessionOf[c] = s}
\* subscribeCore reuses only an entry whose process has not exited.
Reusable(s) == entries[s] # None /\ alive[entries[s]]

\* subscribeCore: reattach, which stops the idle timer, or a new worker.
Subscribe(c) ==
    LET s == SessionOf[c] IN
    /\ client[c] = "new"
    /\ client' = [client EXCEPT ![c] = "open"]
    /\ mapped' = mapped \cup {c}
    /\ \/ /\ Reusable(s)
          /\ LET p == entries[s] IN
             /\ subs' = [subs EXCEPT ![p] = @ \cup {c}]
             /\ idling' = idling \ {handle[p]}
             /\ handle' = [handle EXCEPT ![p] = None]
          /\ UNCHANGED <<entries, session, worker, alive>>
       \/ /\ ~Reusable(s)
          /\ \E p \in Procs :
             /\ worker[p] = "unborn" /\ \A q \in 1 .. p - 1 : worker[q] # "unborn"
             /\ entries' = [entries EXCEPT ![s] = p]
             /\ session' = [session EXCEPT ![p] = s]
             /\ worker' = [worker EXCEPT ![p] = "running"]
             /\ alive' = [alive EXCEPT ![p] = TRUE]
             /\ subs' = [subs EXCEPT ![p] = {c}]
          /\ UNCHANGED <<handle, idling>>
    /\ UNCHANGED <<exitMark, buffer, cleaning, out>>

BugBeforeDelete(p, c) == subs[p] = {} /\ alive[p] /\ Idles
\* The idle timer starts when the last subscriber of a live entry has left.
StartsIdle(p, c) == subs[p] \ {c} = {} /\ alive[p] /\ Idles

\* unsubscribe, of the entry the session has by now; a handle it holds is
\* overwritten.
Unsubscribe(c) ==
    LET p == entries[SessionOf[c]] IN
    /\ client[c] = "open"
    /\ client' = [client EXCEPT ![c] = "closed"]
    /\ mapped' = mapped \ {c}
    /\ IF c \notin mapped \/ p = None THEN UNCHANGED <<subs, handle, idling>>
       ELSE /\ subs' = [subs EXCEPT ![p] = @ \ {c}]
            /\ IF StartsIdle(p, c)
               THEN handle' = [handle EXCEPT ![p] = c] /\ idling' = idling \cup {c}
               ELSE UNCHANGED <<handle, idling>>
    /\ UNCHANGED <<entries, session, worker, alive, exitMark, buffer, cleaning, out>>

\* close, of a session that has an entry, with the timers that remain pending.
Closes(s, pending) ==
    LET p == entries[s] IN
    /\ entries' = [entries EXCEPT ![s] = None]
    /\ worker' = [worker EXCEPT ![p] = IF @ = "running" THEN "told" ELSE @]
    /\ idling' = pending \ {handle[p]}
    /\ handle' = [handle EXCEPT ![p] = None]
    /\ mapped' = mapped \ Of(s)
    /\ UNCHANGED <<session, alive, subs, exitMark, buffer, cleaning, client, out>>

\* A user closes or deletes the session, switches the shell off, or Hlid stops
\* (closeAll closes every session in turn).
Close(s) == entries[s] # None /\ Closes(s, idling)

\* The idle timer that c started closes whatever the session has by now.
IdleExpires(c) ==
    /\ c \in idling
    /\ IF entries[SessionOf[c]] # None THEN Closes(SessionOf[c], idling \ {c})
       ELSE idling' = idling \ {c} /\ UNCHANGED <<entries, entry, cleaning, client, mapped, out>>

\* onData: output of the worker, before or after the kill frame.
Output(p, n) ==
    /\ worker[p] \in {"running", "told"}
    /\ buffer' = [buffer EXCEPT ![p] = Push(@, out[p] + 1, n)]
    /\ out' = [out EXCEPT ![p] = @ + n]
    /\ UNCHANGED <<entries, session, worker, alive, subs, handle, exitMark, idling,
                   cleaning, client, mapped>>

\* onExit: the entry of the worker is dead, but onExited of a terminal marks
\* the entry the session has by now.
Exit(p) ==
    /\ worker[p] \in {"running", "told"}
    /\ worker' = [worker EXCEPT ![p] = "gone"]
    /\ alive' = [alive EXCEPT ![p] = FALSE]
    /\ exitMark' = IF Idles THEN exitMark \cup ({entries[session[p]]} \ {None}) ELSE exitMark
    /\ cleaning' = cleaning \cup {p}
    /\ UNCHANGED <<entries, session, subs, handle, buffer, idling, client, mapped, out>>

\* A worker that dies without an exit frame: its pipe ends, and nobody is told.
Vanish(p) ==
    /\ worker[p] \in {"running", "told"}
    /\ worker' = [worker EXCEPT ![p] = "gone"]
    /\ UNCHANGED <<entries, session, alive, subs, handle, exitMark, buffer, idling,
                   cleaning, client, mapped, out>>

BugCleanAny(s) == entries[s] # None
\* scheduleCleanup removes whatever the session has by now, if it has exited.
Cleans(s) == entries[s] # None /\ ~alive[entries[s]]

CleanUp(p) ==
    LET s == session[p] IN
    /\ p \in cleaning
    /\ cleaning' = cleaning \ {p}
    /\ IF Cleans(s) THEN /\ entries' = [entries EXCEPT ![s] = None]
                         /\ mapped' = mapped \ Of(s)
       ELSE UNCHANGED <<entries, mapped>>
    /\ UNCHANGED <<entry, idling, client, out>>

-----------------------------------------------------------------------------
TotalOut[n \in 0 .. MaxProcs] == IF n = 0 THEN 0 ELSE TotalOut[n - 1] + out[n]

Next ==
    \/ \E c \in Clients : Subscribe(c) \/ Unsubscribe(c) \/ IdleExpires(c)
    \/ \E s \in Sessions : Close(s)
    \/ \E p \in Procs : \/ Exit(p) \/ Vanish(p) \/ CleanUp(p)
                        \/ \E n \in 1 .. MaxOut - TotalOut[MaxProcs] : Output(p, n)

\* Timers expire; clients and processes need not do anything.
Spec == /\ Init /\ [][Next]_vars
        /\ \A c \in Clients : WF_vars(IdleExpires(c))
        /\ \A p \in Procs : WF_vars(CleanUp(p))

-----------------------------------------------------------------------------
(* Properties *)

TypeOK ==
    /\ entries \in [Sessions -> Procs \cup {None}]
    /\ session \in [Procs -> Sessions \cup {None}]
    /\ worker \in [Procs -> {"unborn", "running", "told", "gone"}]
    /\ alive \in [Procs -> BOOLEAN] /\ subs \in [Procs -> SUBSET Clients]
    /\ handle \in [Procs -> Clients \cup {None}]
    /\ exitMark \subseteq Procs /\ cleaning \subseteq Procs
    /\ idling \subseteq Clients /\ mapped \subseteq Clients
    /\ client \in [Clients -> {"new", "open", "closed"}]
    /\ buffer \in [Procs -> [at : [0 .. Cap - 1 -> Nat], len : Nat]]
    /\ out \in [Procs -> Nat]

\* A process that nobody told to end is the one its session shows: otherwise no
\* client could reach it and no timer would ever end it (ptySessionPoolBase.ts).
Shown(p) == \E s \in Sessions : entries[s] = p
NoStrayProcess == \A p \in Procs : worker[p] = "running" => Shown(p)

\* A terminal that nobody watches is closed, or watched again, in the end, also
\* when its worker died without a word (IDLE_TIMEOUT_MS).
UnwatchedEnds == \A p \in Procs :
    Idles /\ Shown(p) /\ subs[p] = {} ~> ~Shown(p) \/ subs[p] # {}

\* A client that comes back is shown the last bytes, in order and without a gap,
\* however the output was cut into chunks (ringBuffer.ts).
ReplayIsTail == \A p \in Procs :
    LET len == IF out[p] < Cap THEN out[p] ELSE Cap IN
    Snapshot(buffer[p]) = [i \in 1 .. len |-> out[p] - len + i]
=============================================================================
