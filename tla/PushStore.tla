------------------------------ MODULE PushStore ------------------------------
(***************************************************************************)
(* The notification tables of db/pushNotifications.ts as one record, and   *)
(* each exported statement or transaction as an operator from the tables   *)
(* before it to the tables after it.                                       *)
(*                                                                         *)
(* Time is abstract: a next_attempt_at column is "none" (NULL), "later"    *)
(* or "now" (reached).  Reasons are kept only where a statement tests one: *)
(* a batch receipt, and the two reasons that make a one-shot row final.    *)
(***************************************************************************)
EXTENDS Integers, FiniteSets

CONSTANTS
    Event,        \* notification events, numbered by occurred_at
    Device,       \* push subscriptions
    Source,       \* sessions
    PolicyOf,     \* [Event -> Source], the session whose policy covers it
    Attention,    \* events of category request or problem; the rest complete
    Revs,         \* policy revisions that may be written
    Retries       \* length of RETRY_DELAYS_MS

ASSUME StoreConstants ==
    /\ Event \subseteq Nat /\ IsFiniteSet(Event)
    /\ PolicyOf \in [Event -> Source]
    /\ Attention \subseteq Event
    /\ Revs \subseteq Nat \ {0}
    /\ Retries \in Nat

Completion == Event \ Attention
When == {"none", "later", "now"}
NoShot == 0

Rows == [st : {"none", "pending", "queued", "failed", "sent",
               "suppressed", "gone", "expired"},
         at : When, tries : 0 .. Retries, shot : Revs \cup {NoShot},
         why : {"plain", "batch", "cancelled", "consumed"}]
NoRow == [st |-> "none", at |-> "none", tries |-> 0, shot |-> NoShot,
          why |-> "plain"]

(* status "window" is deferred with the reason batch_window.               *)
(* journal: the delivered provider attempt of a delivery row; "done" once  *)
(* a receipt at least as recent as the attempt is stored.                  *)
Stores ==
    [status  : [Event -> {"absent", "window", "deferred", "batched",
                          "processed", "cancelled", "expired"}],
     due     : [Event -> When],
     old     : SUBSET Event,
     row     : [Event -> [Device -> Rows]],
     journal : [Event -> [Device -> {"none", "single", "batch", "done"}]],
     marker  : SUBSET (Event \X Revs),
     policy  : [Source -> [mode : {"default", "mute", "notify_once",
                                   "notify_completion_once"},
                           rev : Revs \cup {NoShot}]],
     batchOf : [Event -> SUBSET Event],
     batch   : [SUBSET Event -> {"none", "ready", "sent", "expired"}],
     focused : SUBSET Event]

EmptyStore ==
    [status  |-> [e \in Event |-> "absent"],
     due     |-> [e \in Event |-> "none"],
     old     |-> {},
     row     |-> [e \in Event |-> [d \in Device |-> NoRow]],
     journal |-> [e \in Event |-> [d \in Device |-> "none"]],
     marker  |-> {},
     policy  |-> [s \in Source |-> [mode |-> "default", rev |-> NoShot]],
     batchOf |-> [e \in Event |-> {}],
     batch   |-> [b \in SUBSET Event |-> "none"],
     focused |-> {}]

Live(db, e) == db.status[e] \in {"window", "deferred", "batched"}
Terminal(db, e) == db.status[e] \in {"processed", "expired", "cancelled"}

(* A delivery row that still expects a provider call. *)
Unsettled(r) ==
    \/ r.st \in {"pending", "queued"}
    \/ r.st = "failed" /\ r.at # "none"

(* The user, or a sent alert of another event, has closed the row. *)
OneShotClosed(r) == r.why \in {"cancelled", "consumed"}

Attempted(r) == IF r.tries < Retries THEN r.tries + 1 ELSE r.tries

-----------------------------------------------------------------------------
Enqueue(db, e, stamped) ==
    [db EXCEPT !.status[e] = IF e \in Attention THEN "deferred" ELSE "window",
               !.due[e] = "later",
               !.focused = IF stamped THEN @ \cup {e} ELSE @]

\* Mutant: a deferral forgets when to look again.
BugNoWake(db, e, status, due) ==
    [db EXCEPT !.status[e] = status, !.due[e] = "none"]

(* updatePushNotificationEventStatus without onlyIfStatuses. *)
SetStatus(db, e, status, due) ==
    [db EXCEPT !.status[e] = status, !.due[e] = due]

(* The row when the event behind it is terminated or has expired.          *)
Closed(r) ==
    IF r.st \in {"pending", "queued", "failed"}
    THEN [r EXCEPT !.st = "expired", !.why = "plain", !.at = "none"] ELSE r

(* terminatePushNotificationEvent, of each event of S.                     *)
Terminate(db, S) ==
    LET known == {e \in S : db.status[e] \notin {"absent", "expired", "cancelled"}}
        open  == {e \in known : db.status[e] # "processed"}
        taken == {e \in open : \E d \in Device : db.row[e][d].st = "sent"}
    IN [db EXCEPT
          !.row = [e \in Event |-> [d \in Device |->
                     IF e \in known THEN Closed(@[e][d]) ELSE @[e][d]]],
          !.status = [e \in Event |-> IF e \in taken THEN "processed"
                                      ELSE IF e \in open THEN "cancelled"
                                      ELSE @[e]],
          !.due = [e \in Event |-> IF e \in open THEN "none" ELSE @[e]]]

(* A one-shot may authorise a row when its revision is the live one or was *)
(* already written to the same row.                                        *)
Stale(db, e, d, shot) ==
    /\ shot # NoShot
    /\ db.policy[PolicyOf[e]].rev # shot
    /\ db.row[e][d].shot # shot

(* The row that recordPushNotificationDecision leaves.                     *)
Decided(db, e, d, st, at, shot) ==
    LET was   == db.row[e][d]
        stale == Stale(db, e, d, shot)
    IN  IF OneShotClosed(was) THEN was ELSE
        [was EXCEPT !.st   = IF was.st = "sent" THEN "sent"
                             ELSE IF stale THEN "suppressed" ELSE st,
                    !.at   = IF stale THEN "none" ELSE at,
                    !.why  = IF stale THEN "cancelled" ELSE "plain",
                    !.shot = shot]

(* The receipts, for the rows of P, of provider answers or of devices or   *)
(* an event that are gone.  A row's one-shot is spent by its acceptance.   *)
Receipts(db, P, st, at, why) ==
    LET row(p) == db.row[p[1]][p[2]]
        stored == {p \in P : /\ row(p).st # "none"
                             /\ st = "sent" \/ ~ OneShotClosed(row(p))}
        new(r) == [r EXCEPT !.st = st, !.at = at, !.why = why,
                            !.tries = Attempted(r)]
    IN [db EXCEPT
          !.row = [e \in Event |-> [d \in Device |->
                     IF <<e, d>> \in stored
                     THEN new(@[e][d]) ELSE @[e][d]]],
          !.journal = [e \in Event |-> [d \in Device |->
                         IF <<e, d>> \in stored /\ @[e][d] # "none"
                         THEN "done" ELSE @[e][d]]],
          !.marker = @ \cup {m \in Event \X Revs :
                               /\ st = "sent"
                               /\ \E p \in stored : /\ m[1] = p[1]
                                                    /\ m[2] = row(p).shot}]

Journal(db, e, d, kind) == [db EXCEPT !.journal[e][d] = kind]

(* Rows in closing are suppressed and their live events made due, as the   *)
(* two statements that cancel or consume a one-shot both do.               *)
CloseOneShotRows(db, closing, why) ==
    LET hit == {p[1] : p \in closing}
    IN [db EXCEPT
          !.row = [e \in Event |-> [d \in Device |->
                     IF <<e, d>> \in closing
                     THEN [@[e][d] EXCEPT !.st = "suppressed", !.why = why,
                                          !.at = "none"]
                     ELSE @[e][d]]],
          !.status = [e \in Event |-> IF e \in hit /\ Live(db, e)
                                      THEN "deferred" ELSE @[e]],
          !.due = [e \in Event |-> IF e \in hit /\ Live(db, e)
                                   THEN "now" ELSE @[e]]]

(* consumePushNotificationOneShot, of each revision of R.                  *)
ConsumeOneShots(db, R) ==
    LET by(rev) == {e \in Event : <<e, rev>> \in db.marker}
        closing == {p \in Event \X Device :
                      LET r == db.row[p[1]][p[2]]
                      IN /\ Unsettled(r) /\ r.shot \in R
                         /\ by(r.shot) # {} /\ p[1] \notin by(r.shot)}
    IN [CloseOneShotRows(db, closing, "consumed") EXCEPT
          !.policy = [s \in Source |->
                        IF @[s].rev \in R
                        THEN [mode |-> "default", rev |-> NoShot] ELSE @[s]],
          !.marker = {m \in @ : m[2] \notin R}]

\* Mutant: only failed rows are withdrawn, not one whose call is under way.
BugKeepPending(db, s) ==
    LET closing == {p \in Event \X Device :
                      /\ PolicyOf[p[1]] = s
                      /\ db.row[p[1]][p[2]].st = "failed"
                      /\ Unsettled(db.row[p[1]][p[2]])
                      /\ db.row[p[1]][p[2]].shot # NoShot}
    IN  CloseOneShotRows(db, closing, "cancelled")

CancelOneShots(db, s) ==
    LET closing == {p \in Event \X Device :
                      /\ PolicyOf[p[1]] = s
                      /\ Unsettled(db.row[p[1]][p[2]])
                      /\ db.row[p[1]][p[2]].shot # NoShot}
    IN  CloseOneShotRows(db, closing, "cancelled")

(* PATCH of the session policy: a one-shot or Mute is a new revision,      *)
(* Default removes the row, and Default and Mute withdraw what was granted. *)
PutPolicy(db, s, mode, rev) ==
    LET put == [db EXCEPT !.policy[s] =
                  IF mode = "default" THEN [mode |-> "default", rev |-> NoShot]
                  ELSE [mode |-> mode, rev |-> rev]]
    IN  IF mode \in {"default", "mute"} THEN CancelOneShots(put, s) ELSE put

-----------------------------------------------------------------------------
(* Batches.  The set of its members is the identity of a batch.            *)
CreateBatch(db, B) ==
    [db EXCEPT !.batch[B] = "ready",
               !.batchOf = [e \in Event |-> IF e \in B THEN B ELSE @[e]],
               !.status  = [e \in Event |-> IF e \in B THEN "batched"
                                            ELSE @[e]]]

SetBatch(db, B, status) ==
    IF B # {} /\ db.batch[B] = "ready" THEN [db EXCEPT !.batch[B] = status]
                                      ELSE db

SentAsBatch(r) == r.st = "sent" /\ r.why = "batch"

\* Mutant: the journal is not read back after a restart.
BugNoProof(db) == db

(* A delivered attempt whose receipt is missing proves the receipt: of its *)
(* row, or of the rows of all members of the batch it carried.             *)
Reconcile(db) ==
    LET proofs(kind) == {p \in Event \X Device : db.journal[p[1]][p[2]] = kind}
        batched(e, d) == \E p \in proofs("batch") :
                            p[2] = d /\ e \in db.batchOf[p[1]]
        single(e, d)  == <<e, d>> \in proofs("single")
        target(e, d)  == /\ db.row[e][d].st # "none"
                         /\ \/ batched(e, d) /\ ~ SentAsBatch(db.row[e][d])
                            \/ single(e, d) /\ db.row[e][d].st # "sent"
        sent(r, e, d) == [r EXCEPT !.st = "sent", !.at = "none",
                            !.why = IF batched(e, d) THEN "batch" ELSE "plain",
                            !.tries = Attempted(r)]
    IN IF proofs("single") \cup proofs("batch") = {} THEN db ELSE
       [db EXCEPT
          !.row = [e \in Event |-> [d \in Device |->
                     IF target(e, d) THEN sent(@[e][d], e, d) ELSE @[e][d]]],
          !.journal = [e \in Event |-> [d \in Device |->
                         IF @[e][d] = "none" THEN "none" ELSE "done"]],
          !.marker = @ \cup {<<p[1], db.row[p[1]][p[2]].shot>> :
                               p \in {q \in Event \X Device :
                                        /\ target(q[1], q[2])
                                        /\ db.row[q[1]][q[2]].shot # NoShot}},
          !.batch = [B \in SUBSET Event |->
                       IF \E p \in proofs("batch") : B = db.batchOf[p[1]]
                       THEN "sent" ELSE @[B]]]

\* Mutant: a marker left by a crash is not consumed.
BugKeepMarkers(db) == db

(* reconcilePushNotificationOneShots: every marker left behind is spent.   *)
ReconcileOneShots(db) == ConsumeOneShots(db, {m[2] : m \in db.marker})

-----------------------------------------------------------------------------
(* deliveryIsDue *)
Due(r) ==
    \/ r.st = "none"
    \/ r.st = "pending" /\ r.at # "later"
    \/ r.st \in {"queued", "failed"} /\ r.at = "now"

RowReady(r) == r.st # "none" /\ Due(r)

(* The two listings first expire what is past its lifetime.                *)
ExpireOld(db) ==
    LET over == {e \in db.old : Live(db, e)}
    IN [db EXCEPT
          !.status = [e \in Event |-> IF e \in over THEN "expired" ELSE @[e]],
          !.due = [e \in Event |-> IF e \in over THEN "none" ELSE @[e]],
          !.row = [e \in Event |-> IF e \in db.old
                                   THEN [d \in Device |-> Closed(@[e][d])]
                                   ELSE @[e]]]

(* listPendingPushNotificationEvents: what is due, the mates of its batch, *)
(* and the completions that were persisted near a due one.                 *)
PendingEvents(db, near) ==
    LET open(B) == B # {} /\ db.batch[B] \in {"ready", "sent"}
        selected == {e \in Event \ db.old :
                       \/ db.status[e] \in {"window", "deferred"}
                          /\ db.due[e] = "now"
                       \/ db.status[e] = "batched" /\ open(db.batchOf[e])}
        ready == {e \in Event \ db.old :
                    /\ db.status[e] \notin {"expired", "cancelled"}
                    /\ open(db.batchOf[e])
                    /\ \E d \in Device : RowReady(db.row[e][d])}
        batches == {db.batchOf[e] : e \in selected \cup ready} \ {{}}
        mates == {e \in Event :
                    /\ db.batchOf[e] \in batches
                    /\ \/ Live(db, e)
                       \/ \E d \in Device : Unsettled(db.row[e][d])}
        anchors == {a \in selected : db.status[a] = "window"}
        window == {e \in near \ db.old : /\ db.status[e] = "window"
                                         /\ \E a \in anchors : e >= a}
    IN  selected \cup mates \cup window

(* listPendingPushNotificationDeliveries, as the events it adds.           *)
PendingRows(db) ==
    {e \in Event \ db.old : /\ db.status[e] \notin {"expired", "cancelled"}
                            /\ \E d \in Device : RowReady(db.row[e][d])}

=============================================================================
