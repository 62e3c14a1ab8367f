----------------------------- MODULE Delegations -----------------------------
(***************************************************************************)
(* HlidDelegationManager: a session's running turn delegates work to child *)
(* sessions, which may delegate in turn.  Rows of session_delegations      *)
(* survive a crash; the hierarchy lock, the active map and the requests    *)
(* under way do not.                                                       *)
(*                                                                         *)
(* SQLite answers at once, so a step covers the statements and checks that *)
(* only microtasks separate when nothing else could tell the difference;   *)
(* the waits for a lock, a provider or a turn are boundaries of steps, and *)
(* so is every wait inside which a turn may end.  What precedes the lock   *)
(* takes any time, so any waiting call may be the next to get it.          *)
(***************************************************************************)
EXTENDS Integers, FiniteSets, FiniteSetsExt

CONSTANTS
    Child,          \* delegations, each with the child session it is for
    Roots,          \* "chat": a user's session, "routine": a Routine's session
    Call,           \* requests to the manager that are under way at once
    MaxDepth,       \* HLID_DELEGATION_MAX_DEPTH
    MaxPerParent,   \* HLID_DELEGATION_MAX_ACTIVE_PER_PARENT
    MaxGlobal,      \* HLID_DELEGATION_MAX_ACTIVE_GLOBAL
    MaxAttempts,    \* HLID_DELEGATION_MAX_ATTEMPTS
    MaxTurns,       \* bound on the turns of the user's session
    MaxCancels,     \* bound on the cancels of users and parents
    MaxActs,        \* bound on the actions a Routine's grants do not match
    MaxCrashes      \* bound on crashes

Session == Roots \cup Child

ASSUME DelegationConstants ==
    /\ Roots \subseteq {"chat", "routine"} /\ Child \cap {"chat", "routine"} = {}
    /\ "none" \notin Child /\ IsFiniteSet(Child)
    /\ MaxDepth \in Nat /\ MaxPerParent \in Nat /\ MaxGlobal \in Nat
    /\ MaxAttempts \in Nat \ {0} /\ MaxTurns \in Nat
    /\ MaxCancels \in Nat /\ MaxActs \in Nat /\ MaxCrashes \in Nat

VARIABLES
    row,        \* session_delegations
    filed,      \* child sessions of the sessions table: "none", "open", "archived"
    run,        \* the active map: the background lifecycle of each attempt
    stopping,   \* cancellationRequested
    turn,       \* the running turn of each session, 0 for none
    call,       \* requests under way
    routine,    \* the Routine run, as SessionRunner sees it
    used,       \* counters that the bounds are about
    cut,        \* history: delegations a cancel of this process has returned for
    revived     \* history: those un-archived after it had passed them over

vars == <<row, filed, run, stopping, turn, call, routine, used, cut, revived>>

Over == {"completed", "failed", "cancelled", "interrupted"}
NoRow == [st |-> "none", up |-> "none", depth |-> 0, tries |-> 0, unattended |-> FALSE]
NoRun == [ph |-> "off", stop |-> FALSE, won |-> "none"]
NoCall == [op |-> "none", pc |-> "idle", by |-> "none", turn |-> 0,
           of |-> {}, todo |-> {}]

Rows == [st : Over \cup {"none", "pending", "running"},
         up : Session \cup {"none"}, depth : 0 .. MaxDepth,
         tries : 0 .. MaxAttempts, unattended : BOOLEAN]
Runs == [ph : {"off", "start", "query", "ended", "saved"}, stop : BOOLEAN,
         won : {"none", "finished", "failed", "cancelled"}]
Turns == 0 .. MaxAttempts + MaxTurns + 1
Requests ==
    [op : {"none", "delegate", "resume", "cancel", "cancelRun"},
     pc : {"idle", "wait", "setup", "stored", "claim", "claimed", "sweep"},
     by : Session \cup {"none"}, turn : Turns,
     of : SUBSET Child, todo : SUBSET Child]

TypeOK ==
    /\ row \in [Child -> Rows]
    /\ filed \in [Child -> {"none", "open", "archived"}]
    /\ run \in [Child -> Runs]
    /\ stopping \subseteq Child
    /\ turn \in [Session -> Turns]
    /\ call \in [Call -> Requests]
    /\ routine \in {"none", "turn", "children", "over"}
    /\ used \in [turns : 0 .. MaxTurns, cancels : 0 .. MaxCancels,
                 acts : 0 .. MaxActs, crashes : 0 .. MaxCrashes]
    /\ cut \subseteq Child /\ revived \subseteq Child

Init ==
    /\ row = [d \in Child |-> NoRow]
    /\ filed = [d \in Child |-> "none"]
    /\ run = [d \in Child |-> NoRun]
    /\ stopping = {}
    /\ turn = [s \in Session |-> 0]
    /\ call = [c \in Call |-> NoCall]
    /\ routine = "none"
    /\ used = [turns |-> 0, cancels |-> 0, acts |-> 0, crashes |-> 0]
    /\ cut = {} /\ revived = {}

-----------------------------------------------------------------------------
Active == {d \in Child : row[d].st \in {"pending", "running"}}
KidsOf(s) == {d \in Child : row[d].up = s}
Unattended == {d \in Child : row[d].unattended}

(* A delegation and all its descendants: the least set with d that is      *)
(* closed under children.                                                  *)
Closed(S) == \A e \in S : KidsOf(e) \subseteq S
Tree(d) == {e \in Child : \A S \in SUBSET Child : d \in S /\ Closed(S) => e \in S}
Trees(S) == UNION {Tree(d) : d \in S}

(* isResumableHlidDelegation, with the snapshot's join on the session.     *)
Resumable(d) ==
    /\ row[d].st = "interrupted" /\ row[d].tries < MaxAttempts
    /\ ~ row[d].unattended /\ filed[d] = "open"

Free == \A c \in Call : call[c].pc \in {"idle", "wait"}

(* assertSameRunningParentTurn *)
SameTurn(c) == turn[call[c].by] = call[c].turn

\* Mutant: the cap on all children is checked by itself.
BugGlobalOnly(s) == Cardinality(Active) < MaxGlobal

(* assertActiveCapacity *)
Capacity(s) ==
    /\ Cardinality(Active \cap KidsOf(s)) < MaxPerParent
    /\ Cardinality(Active) < MaxGlobal

Started == [NoRun EXCEPT !.ph = "start"]

-----------------------------------------------------------------------------
(* delegate: what the turn of p checks before the lock.                    *)
Delegate(c, p) ==
    /\ call[c].pc = "idle" /\ turn[p] # 0
    /\ p \in Child => row[p].st = "running"
    /\ (IF p \in Child THEN row[p].depth ELSE 0) < MaxDepth
    /\ call' = [call EXCEPT ![c] = [NoCall EXCEPT !.op = "delegate",
                                      !.pc = "wait", !.by = p, !.turn = turn[p]]]
    /\ UNCHANGED <<row, filed, run, stopping, turn, routine, used, cut, revived>>

(* Under the lock the same is looked at again, then a pool entry is made   *)
(* and its provider set, with no row yet.                                  *)
Admit(c) ==
    LET p == call[c].by
    IN /\ call[c].op = "delegate" /\ call[c].pc = "wait" /\ Free
       /\ SameTurn(c) /\ Capacity(p)
       /\ p \in Child => row[p].st = "running" /\ p \notin stopping
       /\ \E d \in Child :
            /\ row[d] = NoRow /\ filed[d] = "none"
            /\ call' = [call EXCEPT ![c].pc = "setup", ![c].of = {d}]
       /\ UNCHANGED <<row, filed, run, stopping, turn, routine, used, cut, revived>>

(* A check of delegate or resume fails, the pool is full, the provider     *)
(* cannot be set: nothing was stored, and nothing is left.                 *)
Refuse(c) ==
    /\ \/ call[c].op \in {"delegate", "resume"} /\ call[c].pc = "wait" /\ Free
       \/ call[c].pc \in {"setup", "claim"}
    /\ call' = [call EXCEPT ![c] = NoCall]
    /\ UNCHANGED <<row, filed, run, stopping, turn, routine, used, cut, revived>>

(* createHlidDelegation *)
Store(c) ==
    LET p == call[c].by
        fresh == [st |-> "pending", up |-> p, tries |-> 1,
                  depth |-> (IF p \in Child THEN row[p].depth ELSE 0) + 1,
                  unattended |-> IF p \in Child THEN row[p].unattended
                                 ELSE p = "routine"]
    IN /\ call[c].pc = "setup"
       /\ row' = [d \in Child |-> IF d \in call[c].of THEN fresh ELSE row[d]]
       /\ call' = [call EXCEPT ![c].pc = "stored"]
       /\ UNCHANGED <<filed, run, stopping, turn, routine, used, cut, revived>>

\* Mutant: the parent's turn is not looked at again before the launch.
BugBlindLaunch(c) ==
    /\ call[c].pc = "stored"
    /\ filed' = [d \in Child |-> IF d \in call[c].of THEN "open" ELSE filed[d]]
    /\ run' = [d \in Child |-> IF d \in call[c].of THEN Started ELSE run[d]]
    /\ call' = [call EXCEPT ![c] = NoCall]
    /\ UNCHANGED <<row, stopping, turn, routine, used, cut, revived>>

\* Mutant: a setup that fails leaves its row.
BugKeepRow(c) ==
    /\ call[c].pc = "stored"
    /\ IF SameTurn(c)
       THEN /\ filed' = [d \in Child |-> IF d \in call[c].of THEN "open"
                                         ELSE filed[d]]
            /\ run' = [d \in Child |-> IF d \in call[c].of THEN Started
                                       ELSE run[d]]
       ELSE UNCHANGED <<filed, run>>
    /\ call' = [call EXCEPT ![c] = NoCall]
    /\ UNCHANGED <<row, stopping, turn, routine, used, cut, revived>>

(* createSession, a last look at the parent's turn, and the launch; or     *)
(* rollbackHlidDelegationSetup.                                            *)
Launch(c) ==
    /\ call[c].pc = "stored"
    /\ IF SameTurn(c)
       THEN /\ filed' = [d \in Child |-> IF d \in call[c].of THEN "open"
                                         ELSE filed[d]]
            /\ run' = [d \in Child |-> IF d \in call[c].of THEN Started
                                       ELSE run[d]]
            /\ row' = row
       ELSE /\ row' = [d \in Child |-> IF d \in call[c].of THEN NoRow
                                       ELSE row[d]]
            /\ UNCHANGED <<filed, run>>
    /\ call' = [call EXCEPT ![c] = NoCall]
    /\ UNCHANGED <<stopping, turn, routine, used, cut, revived>>

-----------------------------------------------------------------------------
(* resume: continuations of one delegation are also serialised before the  *)
(* hierarchy lock.                                                         *)
Resume(c, d) ==
    LET p == row[d].up
    IN /\ call[c].pc = "idle" /\ Resumable(d) /\ run[d].ph = "off"
       /\ turn[p] # 0 /\ (p \in Child => ~ row[p].unattended)
       /\ \A x \in Call : call[x].op = "resume" => d \notin call[x].of
       /\ call' = [call EXCEPT ![c] = [NoCall EXCEPT !.op = "resume",
                      !.pc = "wait", !.by = p, !.turn = turn[p], !.of = {d}]]
       /\ UNCHANGED <<row, filed, run, stopping, turn, routine, used, cut, revived>>

AdmitResume(c) ==
    /\ call[c].op = "resume" /\ call[c].pc = "wait" /\ Free
    /\ SameTurn(c) /\ Capacity(call[c].by)
    /\ \A d \in call[c].of : Resumable(d) /\ run[d].ph = "off"
    /\ call' = [call EXCEPT ![c].pc = "claim"]
    /\ UNCHANGED <<row, filed, run, stopping, turn, routine, used, cut, revived>>

(* resumeHlidDelegation, a compare-and-set, after the provider is set.     *)
Claim(c) ==
    /\ call[c].pc = "claim"
    /\ SameTurn(c) /\ \A d \in call[c].of : Resumable(d)
    /\ row' = [d \in Child |-> IF d \in call[c].of
                               THEN [row[d] EXCEPT !.st = "pending",
                                                   !.tries = @ + 1]
                               ELSE row[d]]
    /\ call' = [call EXCEPT ![c].pc = "claimed"]
    /\ UNCHANGED <<filed, run, stopping, turn, routine, used, cut, revived>>

(* The launch, or rollbackHlidDelegationResume.                            *)
LaunchResume(c) ==
    /\ call[c].pc = "claimed"
    /\ IF SameTurn(c)
       THEN /\ run' = [d \in Child |-> IF d \in call[c].of THEN Started
                                       ELSE run[d]]
            /\ row' = row
       ELSE /\ row' = [d \in Child |-> IF d \in call[c].of
                                       THEN [row[d] EXCEPT !.st = "interrupted",
                                                           !.tries = @ - 1]
                                       ELSE row[d]]
            /\ run' = run
    /\ call' = [call EXCEPT ![c] = NoCall]
    /\ UNCHANGED <<filed, stopping, turn, routine, used, cut, revived>>

-----------------------------------------------------------------------------
\* Mutant: a cancel that comes before the provider turn is forgotten.
BugForgetStop(d) ==
    /\ run[d].ph = "start" /\ row[d].st = "pending"
    /\ row' = [row EXCEPT ![d].st = "running"]
    /\ run' = [run EXCEPT ![d] = [NoRun EXCEPT !.ph = "query"]]
    /\ turn' = [turn EXCEPT ![d] = row[d].tries]
    /\ UNCHANGED <<filed, stopping, call, routine, used, cut, revived>>

(* launch and runDelegation: the attempt in the background.                *)
Mark(d) ==
    /\ run[d].ph = "start" /\ row[d].st = "pending"
    /\ row' = [row EXCEPT ![d].st = "running"]
    /\ run' = [run EXCEPT ![d].ph = "query"]
    /\ turn' = [turn EXCEPT ![d] = row[d].tries]
    /\ UNCHANGED <<filed, stopping, call, routine, used, cut, revived>>

(* The provider turn settles.  A cancellation asked for before wins.       *)
QueryEnds(d) ==
    /\ run[d].ph = "query"
    /\ \E won \in IF run[d].stop THEN {"cancelled"} ELSE {"finished", "failed"} :
         run' = [run EXCEPT ![d].ph = "ended", ![d].won = won]
    /\ turn' = [turn EXCEPT ![d] = 0]
    /\ UNCHANGED <<row, filed, stopping, call, routine, used, cut, revived>>

(* finishHlidDelegation.  A turn that was rejected asks once more whether  *)
(* it was cancelled; one that finished may lack a result.                  *)
Finish(d) ==
    /\ run[d].ph = "ended"
    /\ \E st \in CASE run[d].won = "finished" -> {"completed", "failed"}
                   [] run[d].won = "failed" -> {IF run[d].stop THEN "cancelled"
                                                ELSE "failed"}
                   [] run[d].won = "cancelled" -> {"cancelled"} :
         row' = [row EXCEPT ![d].st = IF d \in Active THEN st ELSE @]
    /\ run' = [run EXCEPT ![d].ph = "saved"]
    /\ UNCHANGED <<filed, stopping, turn, call, routine, used, cut, revived>>

(* The end of launch: the runtime is retired and the attempt forgotten.    *)
Retire(d) ==
    /\ run[d].ph = "saved"
    /\ stopping' = stopping \ {d}
    /\ run' = [run EXCEPT ![d] = NoRun]
    /\ UNCHANGED <<row, filed, turn, call, routine, used, cut, revived>>

-----------------------------------------------------------------------------
(* cancel, by a parent or a user.                                          *)
Cancel(c, d) ==
    /\ call[c].pc = "idle" /\ row[d] # NoRow /\ used.cancels < MaxCancels
    /\ used' = [used EXCEPT !.cancels = @ + 1]
    /\ call' = [call EXCEPT ![c] = [NoCall EXCEPT !.op = "cancel", !.pc = "wait",
                                                  !.of = {d}]]
    /\ UNCHANGED <<row, filed, run, stopping, turn, routine, cut, revived>>

(* A turn of the Routine run asks for what no grant covers: the first time *)
(* onActionRequired calls cancelRoutineRun, later it returns that call.    *)
ActionRequired(c, s) ==
    /\ call[c].pc = "idle" /\ used.acts < MaxActs
    /\ turn[s] # 0 /\ (s = "routine" \/ s \in Unattended)
    /\ used' = [used EXCEPT !.acts = @ + 1]
    /\ call' = IF used.acts # 0 THEN call
               ELSE [call EXCEPT ![c] = [NoCall EXCEPT !.op = "cancelRun",
                                                       !.pc = "wait"]]
    /\ UNCHANGED <<row, filed, run, stopping, turn, routine, cut, revived>>

(* The tree is walked under the lock.  The delegation a cancel is for may  *)
(* have been taken back meanwhile.                                         *)
Sweep(c) ==
    LET addressed == IF call[c].op = "cancel" THEN call[c].of ELSE Unattended
        known == \A d \in addressed : row[d] # NoRow
    IN /\ call[c].op \in {"cancel", "cancelRun"} /\ call[c].pc = "wait" /\ Free
       /\ call' = [call EXCEPT ![c] =
                      IF known THEN [@ EXCEPT !.pc = "sweep", !.of = addressed,
                                              !.todo = addressed]
                      ELSE NoCall]
       /\ UNCHANGED <<row, filed, run, stopping, turn, routine, used, cut, revived>>

\* Mutant: the children of a terminal delegation are not visited.
BugLiveOnly(c, d) ==
    LET live == d \in Active /\ d \notin stopping
        away == Resumable(d) \/ (live /\ run[d].ph = "off")
        hit  == live /\ run[d].ph # "off"
    IN /\ call[c].pc = "sweep" /\ d \in call[c].todo
       /\ row' = [row EXCEPT ![d].st = IF away THEN "cancelled" ELSE @]
       /\ stopping' = IF hit THEN stopping \cup {d} ELSE stopping
       /\ run' = [run EXCEPT ![d].stop = @ \/ hit]
       /\ call' = [call EXCEPT ![c].todo = (@ \ {d}) \cup
                                             IF live THEN KidsOf(d) ELSE {}]
       /\ UNCHANGED <<filed, turn, routine, used, cut, revived>>

\* Mutant: a cancelled delegation gives its slot back at once.
BugEarlySlot(c, d) ==
    LET live == d \in Active /\ d \notin stopping
        away == Resumable(d) \/ live
        hit  == live /\ run[d].ph # "off"
    IN /\ call[c].pc = "sweep" /\ d \in call[c].todo
       /\ row' = [row EXCEPT ![d].st = IF away THEN "cancelled" ELSE @]
       /\ stopping' = IF hit THEN stopping \cup {d} ELSE stopping
       /\ run' = [run EXCEPT ![d].stop = @ \/ hit]
       /\ call' = [call EXCEPT ![c].todo = (@ \ {d}) \cup KidsOf(d)]
       /\ UNCHANGED <<filed, turn, routine, used, cut, revived>>

(* cancelDelegationTree, one delegation of the tree: an interrupted one is *)
(* abandoned, a live one asked to stop, and its children are next, though  *)
(* it may be over itself.  To visit one again changes nothing: the set of  *)
(* visited ids only spares the work.                                       *)
Visit(c, d) ==
    LET live == d \in Active /\ d \notin stopping
        away == Resumable(d) \/ (live /\ run[d].ph = "off")
        hit  == live /\ run[d].ph # "off"
    IN /\ call[c].pc = "sweep" /\ d \in call[c].todo
       /\ row' = [row EXCEPT ![d].st = IF away THEN "cancelled" ELSE @]
       /\ stopping' = IF hit THEN stopping \cup {d} ELSE stopping
       /\ run' = [run EXCEPT ![d].stop = @ \/ hit]
       /\ call' = [call EXCEPT ![c].todo = (@ \ {d}) \cup KidsOf(d)]
       /\ UNCHANGED <<filed, turn, routine, used, cut, revived>>

Swept(c) ==
    /\ call[c].pc = "sweep" /\ call[c].todo = {}
    /\ cut' = cut \cup call[c].of
    /\ revived' = {d \in revived : Resumable(d) \/ d \notin Trees(call[c].of)}
    /\ call' = [call EXCEPT ![c] = NoCall]
    /\ UNCHANGED <<row, filed, run, stopping, turn, routine, used>>

-----------------------------------------------------------------------------
(* The sessions around.                                                    *)
TurnStarts ==
    /\ "chat" \in Roots /\ turn["chat"] = 0 /\ used.turns < MaxTurns
    /\ turn' = [turn EXCEPT !["chat"] = used.turns + 1]
    /\ used' = [used EXCEPT !.turns = @ + 1]
    /\ UNCHANGED <<row, filed, run, stopping, call, routine, cut, revived>>

TurnEnds ==
    /\ "chat" \in Roots /\ turn["chat"] # 0
    /\ turn' = [turn EXCEPT !["chat"] = 0]
    /\ UNCHANGED <<row, filed, run, stopping, call, routine, used, cut, revived>>

(* runRoutineSession: its own turn, then waitForRoutineRun.                *)
RoutineStarts ==
    /\ "routine" \in Roots /\ routine = "none"
    /\ routine' = "turn"
    /\ turn' = [turn EXCEPT !["routine"] = 1]
    /\ UNCHANGED <<row, filed, run, stopping, call, used, cut, revived>>

RoutineTurnEnds ==
    /\ routine = "turn"
    /\ routine' = "children"
    /\ turn' = [turn EXCEPT !["routine"] = 0]
    /\ UNCHANGED <<row, filed, run, stopping, call, used, cut, revived>>

(* The loop over the completions ends when it finds none, and a cancelRun  *)
(* under way is waited for.                                                *)
RoutineEnds ==
    /\ routine = "children"
    /\ \A d \in Unattended : run[d].ph = "off"
    /\ \A c \in Call : call[c].op # "cancelRun"
    /\ routine' = "over"
    /\ UNCHANGED <<row, filed, run, stopping, turn, call, used, cut, revived>>

(* A user archives a child chat: refused while it is pending or running.   *)
Archive(d) ==
    /\ row[d].st = "interrupted" /\ filed[d] = "open"
    /\ filed' = [filed EXCEPT ![d] = "archived"]
    /\ UNCHANGED <<row, run, stopping, turn, call, routine, used, cut, revived>>

(* The user opens it again, which asks for nothing.  A cancel may have     *)
(* passed it over in between.                                              *)
PassedOver(d) ==
    \/ d \in Trees(cut)
    \/ \E c \in Call : call[c].pc = "sweep" /\ d \in Trees(call[c].of) \ Trees(call[c].todo)

Unarchive(d) ==
    /\ filed[d] = "archived"
    /\ filed' = [filed EXCEPT ![d] = "open"]
    /\ revived' = IF PassedOver(d) THEN revived \cup {d} ELSE revived
    /\ UNCHANGED <<row, run, stopping, turn, call, routine, used, cut>>

(* The process dies and starts again: rows whose session was never stored  *)
(* go, and what was active is interrupted.                                 *)
Crash ==
    /\ used.crashes < MaxCrashes
    /\ row' = [d \in Child |->
                 IF filed[d] = "none" THEN NoRow
                 ELSE IF d \in Active THEN [row[d] EXCEPT !.st = "interrupted"]
                 ELSE row[d]]
    /\ run' = [d \in Child |-> NoRun]
    /\ stopping' = {}
    /\ turn' = [s \in Session |-> 0]
    /\ call' = [c \in Call |-> NoCall]
    /\ routine' = IF routine = "none" THEN "none" ELSE "over"
    /\ used' = [used EXCEPT !.crashes = @ + 1]
    /\ cut' = {} /\ revived' = {}
    /\ UNCHANGED filed

Serve(c) ==
    \/ Store(c) \/ Launch(c) \/ Claim(c) \/ LaunchResume(c)
    \/ Refuse(c) \/ Swept(c) \/ \E d \in Child : Visit(c, d)

Attempt(d) == Mark(d) \/ Finish(d) \/ Retire(d)

Next ==
    \/ \E c \in Call :
         \/ Admit(c) \/ AdmitResume(c) \/ Serve(c) \/ Sweep(c)
         \/ \E s \in Session : Delegate(c, s) \/ ActionRequired(c, s)
         \/ \E d \in Child : Resume(c, d) \/ Cancel(c, d)
    \/ \E d \in Child : Attempt(d) \/ QueryEnds(d) \/ Archive(d) \/ Unarchive(d)
    \/ TurnStarts \/ TurnEnds \/ RoutineStarts \/ RoutineTurnEnds \/ RoutineEnds
    \/ Crash

Spec == Init /\ [][Next]_vars

(* A provider that is set or refused answers, and so does one that is told *)
(* to stop.  The lock is first come, first served, so a waiting cancel is  *)
(* not passed over for ever: strong fairness.  Nothing makes a turn end    *)
(* that nobody stops.                                                      *)
Fairness ==
    /\ \A c \in Call : WF_vars(Serve(c)) /\ SF_vars(Sweep(c))
    /\ \A d \in Child : WF_vars(Attempt(d)) /\ WF_vars(run[d].stop /\ QueryEnds(d))
    /\ WF_vars(RoutineEnds)
FairSpec == Spec /\ Fairness

-----------------------------------------------------------------------------
(* Calls that overlap, continuations after a restart and children that     *)
(* delegate in turn never exceed the cap of a parent or of Hlid, rows that *)
(* are being set up included.                                              *)
WithinLimits ==
    /\ Cardinality(Active) <= MaxGlobal
    /\ \A s \in Session : Cardinality(Active \cap KidsOf(s)) <= MaxPerParent

(* A row that takes a slot is in somebody's hands: an attempt that will    *)
(* finish it, or a call that will launch it or take it back.  No race of a *)
(* turn's end, a cancel, a refusal or a crash leaks a slot.                *)
NoSlotIsLeaked ==
    \A d \in Active :
        \/ run[d].ph \in {"start", "query", "ended"}
        \/ \E c \in Call : d \in call[c].of /\ call[c].pc \in {"stored", "claimed"}

(* A cancelled child keeps its slot until its provider turn has settled:   *)
(* while the turn runs, the row still says running.                        *)
SlotOutlivesTurn == \A d \in Child : turn[d] # 0 => row[d].st = "running"

(* Once a cancel has returned, all of the subtree is over or told to stop, *)
(* and nothing can join it or be continued in it, whatever was being       *)
(* admitted, finished or archived while the tree was walked.  An archived  *)
(* delegation that is interrupted is passed over: what is un-archived      *)
(* after that, and what it delegates when it is continued, is excepted     *)
(* until the next cancel returns.                                          *)
CancelReachesTree ==
    \A d \in cut : \A e \in Tree(d) \ Trees(revived) :
        /\ e \in Active => run[e].stop \/ run[e].ph = "ended"
        /\ ~ Resumable(e)

(* When a Routine run is over none of its children is at work, and none    *)
(* starts later: waitForRoutineRun cannot miss a child, nested or not,     *)
(* that is still being set up when the loop finds nothing to wait for.     *)
RoutineEndsLast ==
    routine = "over" => \A d \in Unattended : run[d].ph = "off"

(* A cancel is not stuck behind the lock, and the subtree it has cancelled *)
(* frees its slots in the end, but for what was un-archived in it.         *)
CancelSettles ==
    /\ \A c \in Call : (call[c].op \in {"cancel", "cancelRun"}) ~> (call[c].pc = "idle")
    /\ \A d \in Child : (d \in cut) ~> (Tree(d) \cap Active \subseteq Trees(revived))
=============================================================================
