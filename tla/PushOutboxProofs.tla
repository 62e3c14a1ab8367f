-------------------------- MODULE PushOutboxProofs --------------------------
(***************************************************************************)
(* What holds of PushOutbox for any events, devices, sessions, revisions,  *)
(* retries, moves and crashes.                                             *)
(*                                                                         *)
(* First the effects of the statements of PushStore, then those of the     *)
(* steps, then the invariant in three layers: the structure of a drain     *)
(* (StInv), the journal and what devices have received (JournalInv), and   *)
(* the one-shots (SpentInv, OneShotInv, RevokedInv).  Nearly all steps are *)
(* Steady, and each layer is shown once for all of them; what is left are  *)
(* the steps that receive, prove or spend.                                 *)
(***************************************************************************)
EXTENDS PushOutbox, TLAPS, FiniteSetTheorems, WellFoundedInduction

\* A row that exists and expects no provider call.
Settled(r) == r.st # "none" /\ ~ Unsettled(r)

\* What a statement that is no answer of a provider may do to a row.
RowKept(r, s) ==
    /\ s.shot = r.shot
    /\ s.st = "none" <=> r.st = "none"
    /\ Settled(r) => Settled(s)
    /\ (OneShotClosed(r) => r.st = "suppressed") =>
         /\ OneShotClosed(r) => OneShotClosed(s)
         /\ OneShotClosed(s) => s.st = "suppressed"
         /\ r.st \in {"pending", "expired"} =>
              s.st \in {"pending", "expired"} \/ OneShotClosed(s)
    /\ s.st = "sent" => r.st = "sent"
    /\ SentAsBatch(s) => SentAsBatch(r)

\* What a statement that only closes rows leaves alone.
Kept(a, b) ==
    /\ b.journal = a.journal /\ b.marker = a.marker /\ b.policy = a.policy
    /\ b.batchOf = a.batchOf
    /\ \A e \in Event, d \in Device : RowKept(a.row[e][d], b.row[e][d])
Calm(a, b) ==
    /\ Kept(a, b)
    /\ \A e \in Event : b.status[e] = "absent" <=> a.status[e] = "absent"
    /\ \A e \in Event, d \in Device :
         OneShotClosed(b.row[e][d]) => OneShotClosed(a.row[e][d])

RowTable == [Event -> [Device -> Rows]]
StatusTable == [Event -> {"absent", "window", "deferred", "batched",
                          "processed", "cancelled", "expired"}]

\* A step that leaves the tables alone is calm.
LEMMA CalmRefl == \A a : Calm(a, a)
BY DEF Calm, Kept, RowKept

\* Calm statements may follow one another.
LEMMA CalmTrans ==
    ASSUME NEW a, NEW b, NEW c, Calm(a, b), Calm(b, c)
    PROVE  Calm(a, c)
<1>1. ASSUME NEW r, NEW s, NEW t, RowKept(r, s), RowKept(s, t)
      PROVE  RowKept(r, t)
    BY <1>1, Zenon DEF RowKept
<1> QED BY <1>1 DEF Calm, Kept

\* What closing a row keeps of it.
LEMMA ClosedRow ==
    ASSUME NEW r \in Rows
    PROVE  /\ Closed(r) \in Rows /\ RowKept(r, Closed(r))
           /\ OneShotClosed(Closed(r)) => OneShotClosed(r)
BY DEF Rows, Closed, RowKept, Settled, Unsettled, OneShotClosed, SentAsBatch, When

\* terminatePushNotificationEvent only closes rows.
LEMMA TerminateCalm ==
    ASSUME NEW s \in Stores, NEW S \in SUBSET Event
    PROVE  Terminate(s, S) \in Stores /\ Calm(s, Terminate(s, S))
<1> DEFINE known == {e \in S : s.status[e] \notin {"absent", "expired", "cancelled"}}
           open == {e \in known : s.status[e] # "processed"}
           taken == {e \in open : \E d \in Device : s.row[e][d].st = "sent"}
           row == [e \in Event |-> [d \in Device |->
                     IF e \in known THEN Closed(s.row[e][d]) ELSE s.row[e][d]]]
           status == [e \in Event |-> IF e \in taken THEN "processed"
                                      ELSE IF e \in open THEN "cancelled"
                                      ELSE s.status[e]]
           due == [e \in Event |-> IF e \in open THEN "none" ELSE s.due[e]]
<1>1. Terminate(s, S) = [s EXCEPT !.row = row, !.status = status, !.due = due]
    BY DEF Terminate
<1>2. s.row \in RowTable /\ s.status \in StatusTable /\ s.due \in [Event -> When]
    BY DEF Stores, RowTable, StatusTable
<1>3. /\ row \in RowTable
      /\ \A e \in Event, d \in Device :
           /\ RowKept(s.row[e][d], row[e][d])
           /\ OneShotClosed(row[e][d]) => OneShotClosed(s.row[e][d])
    <2>1. \A e \in Event, d \in Device : s.row[e][d] \in Rows
        BY <1>2 DEF RowTable
    <2>2. \A e \in Event, d \in Device : RowKept(s.row[e][d], s.row[e][d])
        BY DEF RowKept
    <2> QED BY <2>1, <2>2, ClosedRow DEF RowTable
<1>4. /\ status \in StatusTable
      /\ \A e \in Event : status[e] = "absent" <=> s.status[e] = "absent"
    BY <1>2 DEF StatusTable
<1>5. due \in [Event -> When]
    BY <1>2 DEF When
<1> HIDE DEF known, open, taken, row, status, due
<1>6. [s EXCEPT !.row = row, !.status = status, !.due = due] \in Stores
    BY <1>3, <1>4, <1>5 DEF Stores, RowTable, StatusTable
<1>7. Calm(s, [s EXCEPT !.row = row, !.status = status, !.due = due])
    BY <1>3, <1>4, <1>5 DEF Stores, Calm, Kept
<1> QED BY <1>1, <1>6, <1>7

\* So does the expiry at the head of the two listings.
LEMMA ExpireOldCalm ==
    ASSUME NEW s \in Stores
    PROVE  ExpireOld(s) \in Stores /\ Calm(s, ExpireOld(s))
<1> DEFINE over == {e \in s.old : Live(s, e)}
           row == [e \in Event |-> IF e \in s.old
                                   THEN [d \in Device |-> Closed(s.row[e][d])]
                                   ELSE s.row[e]]
           status == [e \in Event |-> IF e \in over THEN "expired" ELSE s.status[e]]
           due == [e \in Event |-> IF e \in over THEN "none" ELSE s.due[e]]
<1>1. ExpireOld(s) = [s EXCEPT !.status = status, !.due = due, !.row = row]
    BY DEF ExpireOld
<1>2. s.row \in RowTable /\ s.status \in StatusTable /\ s.due \in [Event -> When]
    BY DEF Stores, RowTable, StatusTable
<1>3. /\ row \in RowTable
      /\ \A e \in Event, d \in Device :
           /\ RowKept(s.row[e][d], row[e][d])
           /\ OneShotClosed(row[e][d]) => OneShotClosed(s.row[e][d])
    <2>1. \A e \in Event, d \in Device : s.row[e][d] \in Rows
        BY <1>2 DEF RowTable
    <2>2. \A e \in Event, d \in Device : RowKept(s.row[e][d], s.row[e][d])
        BY DEF RowKept
    <2>3. \A e \in Event : s.row[e] \in [Device -> Rows]
        BY <1>2 DEF RowTable
    <2> QED BY <2>1, <2>2, <2>3, ClosedRow DEF RowTable
<1>4. /\ status \in StatusTable
      /\ \A e \in Event : status[e] = "absent" <=> s.status[e] = "absent"
    BY <1>2 DEF StatusTable, Live
<1>5. due \in [Event -> When]
    BY <1>2 DEF When
<1> HIDE DEF over, row, status, due
<1>6. [s EXCEPT !.status = status, !.due = due, !.row = row] \in Stores
    BY <1>3, <1>4, <1>5 DEF Stores, RowTable, StatusTable
<1>7. Calm(s, [s EXCEPT !.status = status, !.due = due, !.row = row])
    BY <1>3, <1>4, <1>5 DEF Stores, Calm, Kept
<1> QED BY <1>1, <1>6, <1>7

\* The status of a known event may change freely.
LEMMA SetStatusCalm ==
    ASSUME NEW s \in Stores, NEW e \in Event, s.status[e] # "absent",
           NEW due \in When,
           NEW status \in {"deferred", "processed"}
    PROVE  SetStatus(s, e, status, due) \in Stores /\ Calm(s, SetStatus(s, e, status, due))
<1>1. SetStatus(s, e, status, due) \in Stores
    BY DEF SetStatus, Stores
<1>2. \A f \in Event, d \in Device : RowKept(s.row[f][d], s.row[f][d])
    BY DEF RowKept
<1>3. Calm(s, SetStatus(s, e, status, due))
    BY <1>2 DEF SetStatus, Stores, Calm, Kept
<1> QED BY <1>1, <1>3

\* So may the status of a batch.
LEMMA SetBatchCalm ==
    ASSUME NEW s \in Stores, NEW B \in SUBSET Event, NEW status \in {"sent", "expired"}
    PROVE  SetBatch(s, B, status) \in Stores /\ Calm(s, SetBatch(s, B, status))
<1>1. SetBatch(s, B, status) \in Stores
    BY DEF SetBatch, Stores
<1>2. \A f \in Event, d \in Device : RowKept(s.row[f][d], s.row[f][d])
    BY DEF RowKept
<1>3. Calm(s, SetBatch(s, B, status))
    BY <1>2 DEF SetBatch, Stores, Calm, Kept
<1> QED BY <1>1, <1>3

\* Suppressing a completion for a focused window only closes rows.
LEMMA SuppressCalm ==
    ASSUME NEW s \in Stores, NEW e \in Event
    PROVE  SuppressFocused(s, e) \in Stores /\ Calm(s, SuppressFocused(s, e))
<1> DEFINE t == Terminate(s, {e})
<1>1. t \in Stores /\ Calm(s, t)
    BY TerminateCalm
<1>2. t.batchOf[e] \in SUBSET Event
    BY <1>1 DEF Stores
<1>3. ExpireTerminalBatch(t, e) \in Stores /\ Calm(t, ExpireTerminalBatch(t, e))
    <2>1. CASE \A m \in t.batchOf[e] : Terminal(t, m)
        BY <1>1, <1>2, <2>1, SetBatchCalm DEF ExpireTerminalBatch
    <2>2. CASE ~ \A m \in t.batchOf[e] : Terminal(t, m)
        BY <1>1, <2>2, CalmRefl DEF ExpireTerminalBatch
    <2> QED BY <2>1, <2>2
<1> HIDE DEF t
<1>4. Calm(s, ExpireTerminalBatch(t, e))
    BY <1>1, <1>3, CalmTrans
<1> QED BY <1>3, <1>4 DEF SuppressFocused, t

\* A new event has no rows yet.
LEMMA EnqueueKept ==
    ASSUME NEW s \in Stores, NEW e \in Event, NEW stamped \in BOOLEAN
    PROVE  LET t == Enqueue(s, e, stamped) IN
           /\ t \in Stores /\ t.row = s.row /\ t.journal = s.journal
           /\ t.marker = s.marker /\ t.policy = s.policy /\ t.batchOf = s.batchOf
           /\ \A f \in Event : f # e => t.status[f] = s.status[f]
           /\ t.status[e] # "absent"
<1> DEFINE st == IF e \in Attention THEN "deferred" ELSE "window"
           foc == IF stamped THEN s.focused \cup {e} ELSE s.focused
<1>1. Enqueue(s, e, stamped) = [s EXCEPT !.status[e] = st, !.due[e] = "later",
                                         !.focused = foc]
    BY DEF Enqueue
<1>2. st \in {"deferred", "window"} /\ foc \in SUBSET Event
    BY DEF Stores
<1> HIDE DEF st, foc
<1> DEFINE t == [s EXCEPT !.status[e] = st, !.due[e] = "later", !.focused = foc]
<1>3. t \in Stores
    BY <1>2 DEF Stores, When
<1>4. /\ t.row = s.row /\ t.journal = s.journal
      /\ t.marker = s.marker /\ t.policy = s.policy /\ t.batchOf = s.batchOf
      /\ t.status = [s.status EXCEPT ![e] = st]
    BY DEF Stores
<1>5. s.status \in [Event -> {"absent", "window", "deferred", "batched",
                              "processed", "cancelled", "expired"}]
    BY DEF Stores
<1>6. /\ \A f \in Event : f # e => t.status[f] = s.status[f]
      /\ t.status[e] # "absent"
    BY <1>2, <1>4, <1>5
<1> HIDE DEF t
<1> QED BY <1>1, <1>3, <1>4, <1>6 DEF t

\* Closing the rows of a one-shot settles them for good.
LEMMA CloseKept ==
    ASSUME NEW s \in Stores, NEW closing \in SUBSET (Event \X Device),
           NEW why \in {"cancelled", "consumed"},
           \A e \in Event, d \in Device :
              <<e, d>> \in closing => Unsettled(s.row[e][d])
    PROVE  LET t == CloseOneShotRows(s, closing, why) IN
           /\ t \in Stores /\ Kept(s, t)
           /\ \A e \in Event : t.status[e] = "absent" <=> s.status[e] = "absent"
           /\ \A e \in Event, d \in Device :
                IF <<e, d>> \in closing
                THEN OneShotClosed(t.row[e][d]) /\ Settled(t.row[e][d])
                ELSE t.row[e][d] = s.row[e][d]
<1> DEFINE hit == {p[1] : p \in closing}
           shut(r) == [r EXCEPT !.st = "suppressed", !.why = why, !.at = "none"]
           row == [e \in Event |-> [d \in Device |->
                     IF <<e, d>> \in closing THEN shut(s.row[e][d])
                     ELSE s.row[e][d]]]
           status == [e \in Event |-> IF e \in hit /\ Live(s, e)
                                      THEN "deferred" ELSE s.status[e]]
           due == [e \in Event |-> IF e \in hit /\ Live(s, e)
                                   THEN "now" ELSE s.due[e]]
<1>1. CloseOneShotRows(s, closing, why)
        = [s EXCEPT !.row = row, !.status = status, !.due = due]
    BY DEF CloseOneShotRows
<1>2. s.row \in RowTable /\ s.status \in StatusTable /\ s.due \in [Event -> When]
    BY DEF Stores, RowTable, StatusTable
<1>3. \A e \in Event, d \in Device : s.row[e][d] \in Rows
    BY <1>2 DEF RowTable
<1>4. ASSUME NEW r \in Rows
      PROVE  /\ shut(r) \in Rows
             /\ Unsettled(r) => /\ OneShotClosed(shut(r)) /\ Settled(shut(r))
                                /\ RowKept(r, shut(r))
    BY DEF Rows, When, RowKept, Settled, Unsettled, OneShotClosed, SentAsBatch
<1>5. \A e \in Event, d \in Device : RowKept(s.row[e][d], s.row[e][d])
    BY DEF RowKept
<1>6. /\ row \in RowTable
      /\ \A e \in Event, d \in Device :
           /\ RowKept(s.row[e][d], row[e][d])
           /\ IF <<e, d>> \in closing
              THEN OneShotClosed(row[e][d]) /\ Settled(row[e][d])
              ELSE row[e][d] = s.row[e][d]
    <2> HIDE DEF shut
    <2> QED BY <1>3, <1>4, <1>5 DEF RowTable
<1>7. /\ status \in StatusTable
      /\ \A e \in Event : status[e] = "absent" <=> s.status[e] = "absent"
    BY <1>2 DEF StatusTable, Live
<1>8. due \in [Event -> When]
    BY <1>2 DEF When
<1> HIDE DEF hit, row, status, due
<1>9. [s EXCEPT !.row = row, !.status = status, !.due = due] \in Stores
    BY <1>6, <1>7, <1>8 DEF Stores, RowTable, StatusTable
<1>10. LET t == [s EXCEPT !.row = row, !.status = status, !.due = due] IN
       /\ Kept(s, t)
       /\ \A e \in Event : t.status[e] = "absent" <=> s.status[e] = "absent"
    BY <1>6, <1>7 DEF Stores, Kept
<1> QED BY <1>1, <1>6, <1>9, <1>10 DEF Stores

\* What consuming the one-shots of R does.
Consumed(a, b, R) ==
    /\ b.journal = a.journal /\ b.batchOf = a.batchOf
    /\ \A e \in Event : b.status[e] = "absent" <=> a.status[e] = "absent"
    /\ \A e \in Event, d \in Device : RowKept(a.row[e][d], b.row[e][d])
    /\ b.marker = {m \in a.marker : m[2] \notin R}
    /\ \A x \in Source : b.policy[x].rev = IF a.policy[x].rev \in R THEN NoShot
                                           ELSE a.policy[x].rev
    /\ \A e \in Event, d \in Device :
         LET r == a.row[e][d] IN
         (r.shot \in R /\ Unsettled(r) /\ \E f \in Event : <<f, r.shot>> \in a.marker)
           => \/ <<e, r.shot>> \in a.marker
              \/ OneShotClosed(b.row[e][d]) /\ Settled(b.row[e][d])

\* consumePushNotificationOneShot, of any set of revisions, is Consumed.
LEMMA ConsumeEffect ==
    ASSUME NEW s \in Stores, NEW R \in SUBSET Revs
    PROVE  ConsumeOneShots(s, R) \in Stores /\ Consumed(s, ConsumeOneShots(s, R), R)
<1> DEFINE by(rev) == {e \in Event : <<e, rev>> \in s.marker}
           closing == {p \in Event \X Device :
                      LET r == s.row[p[1]][p[2]]
                      IN /\ Unsettled(r) /\ r.shot \in R
                         /\ by(r.shot) # {} /\ p[1] \notin by(r.shot)}
           t == CloseOneShotRows(s, closing, "consumed")
           policy == [x \in Source |->
                        IF t.policy[x].rev \in R
                        THEN [mode |-> "default", rev |-> NoShot] ELSE t.policy[x]]
           marker == {m \in t.marker : m[2] \notin R}
<1>1. ConsumeOneShots(s, R) = [t EXCEPT !.policy = policy, !.marker = marker]
    BY Zenon DEF ConsumeOneShots
<1>2. \A e \in Event, d \in Device :
         <<e, d>> \in closing <=>
           /\ Unsettled(s.row[e][d]) /\ s.row[e][d].shot \in R
           /\ \E f \in Event : <<f, s.row[e][d].shot>> \in s.marker
           /\ <<e, s.row[e][d].shot>> \notin s.marker
    OBVIOUS
<1>3. closing \in SUBSET (Event \X Device)
    OBVIOUS
<1> HIDE DEF closing
<1>4. /\ t \in Stores /\ Kept(s, t)
      /\ \A e \in Event : t.status[e] = "absent" <=> s.status[e] = "absent"
      /\ \A e \in Event, d \in Device :
           <<e, d>> \in closing =>
             OneShotClosed(t.row[e][d]) /\ Settled(t.row[e][d])
    BY <1>2, <1>3, CloseKept
<1> HIDE DEF t
<1>5. /\ policy \in [Source -> [mode : {"default", "mute", "notify_once",
                                        "notify_completion_once"},
                                rev : Revs \cup {NoShot}]]
      /\ \A x \in Source : policy[x].rev = IF t.policy[x].rev \in R THEN NoShot
                                           ELSE t.policy[x].rev
    BY <1>4 DEF Stores
<1>6. marker \in SUBSET (Event \X Revs)
    BY <1>4 DEF Stores
<1> HIDE DEF policy
<1>7. [t EXCEPT !.policy = policy, !.marker = marker] \in Stores
    BY <1>4, <1>5, <1>6 DEF Stores
<1>8. Consumed(s, [t EXCEPT !.policy = policy, !.marker = marker], R)
    BY <1>2, <1>4, <1>5 DEF Stores, Calm, Kept, Consumed
<1> QED BY <1>1, <1>7, <1>8

\* What Default, Mute or a new one-shot does to the tables.
PolicyPut(s, t, x, mode, rev) ==
    /\ t.journal = s.journal /\ t.batchOf = s.batchOf /\ t.marker = s.marker
    /\ \A e \in Event : t.status[e] = "absent" <=> s.status[e] = "absent"
    /\ \A e \in Event, d \in Device : RowKept(s.row[e][d], t.row[e][d])
    /\ \A y \in Source : t.policy[y].rev =
         IF y = x THEN IF mode = "default" THEN NoShot ELSE rev
         ELSE s.policy[y].rev
    /\ mode \in {"default", "mute"} =>
         \A e \in Event, d \in Device :
           /\ PolicyOf[e] = x /\ Unsettled(s.row[e][d])
           /\ s.row[e][d].shot # NoShot
           => OneShotClosed(t.row[e][d]) /\ Settled(t.row[e][d])

\* The PATCH of a session policy is PolicyPut.
LEMMA PutPolicyEffect ==
    ASSUME NEW s \in Stores, NEW x \in Source, NEW rev \in Revs \cup {NoShot},
           NEW mode \in {"default", "mute", "notify_once", "notify_completion_once"},
           mode # "default" => rev \in Revs
    PROVE  LET t == PutPolicy(s, x, mode, rev) IN
           t \in Stores /\ PolicyPut(s, t, x, mode, rev)
<1> DEFINE new == IF mode = "default" THEN [mode |-> "default", rev |-> NoShot]
                  ELSE [mode |-> mode, rev |-> rev]
           put == [s EXCEPT !.policy[x] = new]
           closing == {p \in Event \X Device :
                      /\ PolicyOf[p[1]] = x
                      /\ Unsettled(put.row[p[1]][p[2]])
                      /\ put.row[p[1]][p[2]].shot # NoShot}
<1>1. PutPolicy(s, x, mode, rev) =
         IF mode \in {"default", "mute"} THEN CloseOneShotRows(put, closing, "cancelled")
         ELSE put
    BY Zenon DEF PutPolicy, CancelOneShots
<1>2. /\ new \in [mode : {"default", "mute", "notify_once", "notify_completion_once"},
                  rev : Revs \cup {NoShot}]
      /\ new.rev = IF mode = "default" THEN NoShot ELSE rev
    OBVIOUS
<1> HIDE DEF new
<1>3. /\ put \in Stores
      /\ put.journal = s.journal /\ put.batchOf = s.batchOf /\ put.marker = s.marker
      /\ put.status = s.status /\ put.row = s.row
      /\ \A y \in Source : put.policy[y].rev =
                IF y = x THEN IF mode = "default" THEN NoShot ELSE rev
                ELSE s.policy[y].rev
    BY <1>2 DEF Stores
<1> HIDE DEF put
<1>4. \A e \in Event, d \in Device :
         <<e, d>> \in closing <=> /\ PolicyOf[e] = x
                                  /\ Unsettled(put.row[e][d])
                                  /\ put.row[e][d].shot # NoShot
    OBVIOUS
<1>5. closing \in SUBSET (Event \X Device)
    OBVIOUS
<1> HIDE DEF closing
<1> DEFINE t == CloseOneShotRows(put, closing, "cancelled")
<1>6. /\ t \in Stores /\ Kept(put, t)
      /\ \A e \in Event : t.status[e] = "absent" <=> put.status[e] = "absent"
      /\ \A e \in Event, d \in Device :
           <<e, d>> \in closing =>
             OneShotClosed(t.row[e][d]) /\ Settled(t.row[e][d])
    BY <1>3, <1>4, <1>5, CloseKept
<1> HIDE DEF t
<1>7. CASE mode \in {"default", "mute"}
    <2>1. PutPolicy(s, x, mode, rev) = t
        BY <1>1, <1>7 DEF t
    <2>2. /\ t.journal = s.journal /\ t.batchOf = s.batchOf /\ t.marker = s.marker
          /\ t.policy = put.policy
          /\ \A e \in Event : t.status[e] = "absent" <=> s.status[e] = "absent"
          /\ \A e \in Event, d \in Device : RowKept(s.row[e][d], t.row[e][d])
        BY <1>3, <1>6 DEF Calm, Kept
    <2>3. \A e \in Event, d \in Device :
             /\ PolicyOf[e] = x /\ Unsettled(s.row[e][d])
             /\ s.row[e][d].shot # NoShot
             => OneShotClosed(t.row[e][d]) /\ Settled(t.row[e][d])
        BY <1>3, <1>4, <1>6
    <2>4. PolicyPut(s, t, x, mode, rev)
        BY <1>3, <2>2, <2>3 DEF PolicyPut
    <2> QED BY <1>6, <2>1, <2>4
<1>8. CASE mode \notin {"default", "mute"}
    <2>1. \A e \in Event, d \in Device : RowKept(s.row[e][d], s.row[e][d])
        BY DEF RowKept
    <2>2. PolicyPut(s, put, x, mode, rev)
        BY <1>3, <1>8, <2>1 DEF PolicyPut
    <2> QED BY <1>1, <1>3, <1>8, <2>2
<1> QED BY <1>7, <1>8

\* A decision keeps the row in its type, and uses the revision it is given.
LEMMA DecidedRow ==
    ASSUME NEW s \in Stores, NEW e \in Event, NEW d \in Device,
           NEW st \in {"pending", "suppressed", "queued"},
           NEW at \in When, NEW shot \in Revs \cup {NoShot}
    PROVE  LET r == s.row[e][d]
               n == Decided(s, e, d, st, at, shot) IN
           /\ r \in Rows /\ n \in Rows
           /\ OneShotClosed(r) => n = r
           /\ ~ OneShotClosed(r) =>
                /\ n.shot = shot
                /\ n.st = "sent" <=> r.st = "sent"
                /\ n.st # "none"
                /\ r.st # "sent" => /\ n.st \in {st, "suppressed"}
                                    /\ OneShotClosed(n) => n.st = "suppressed"
                                    /\ n.st = "suppressed" \/ n.at = at
           /\ n.st = "none" => r.st = "none"
<1> DEFINE r == s.row[e][d]
           stale == Stale(s, e, d, shot)
<1>1. r \in Rows
    BY DEF Stores
<1>2. stale \in BOOLEAN
    BY DEF Stale
<1>3. Decided(s, e, d, st, at, shot) =
        IF OneShotClosed(r) THEN r ELSE
        [r EXCEPT !.st = IF r.st = "sent" THEN "sent"
                         ELSE IF stale THEN "suppressed" ELSE st,
                  !.at   = IF stale THEN "none" ELSE at,
                  !.why  = IF stale THEN "cancelled" ELSE "plain",
                  !.shot = shot]
    BY DEF Decided
<1> HIDE DEF r, stale
<1>4. CASE OneShotClosed(r)
    <2>1. Decided(s, e, d, st, at, shot) = r
        BY <1>3, <1>4
    <2> QED BY <1>1, <1>4, <2>1 DEF r
<1>5. CASE ~ OneShotClosed(r)
    BY <1>1, <1>2, <1>3, <1>5 DEF Rows, When, OneShotClosed, r
<1> QED BY <1>4, <1>5

\* The rows a receipt for P is written to.
Stored(s, P, st, e, d) ==
    /\ <<e, d>> \in P /\ s.row[e][d].st # "none"
    /\ st = "sent" \/ ~ OneShotClosed(s.row[e][d])

\* What a receipt does to a row, to its attempt and to the markers.
Receipted(a, b, P, st, at, why) ==
    /\ b.status = a.status /\ b.policy = a.policy /\ b.batchOf = a.batchOf
    /\ \A e \in Event, d \in Device :
         LET r == a.row[e][d]
             n == b.row[e][d] IN
         IF Stored(a, P, st, e, d)
         THEN /\ n.st = st /\ n.at = at /\ n.why = why /\ n.shot = r.shot
              /\ b.journal[e][d] = IF a.journal[e][d] = "none" THEN "none" ELSE "done"
         ELSE n = r /\ b.journal[e][d] = a.journal[e][d]
    /\ a.marker \subseteq b.marker
    /\ st # "sent" => b.marker = a.marker
    /\ \A e \in Event, v \in Revs :
         <<e, v>> \in b.marker <=>
           \/ <<e, v>> \in a.marker
           \/ st = "sent" /\ \E d \in Device : /\ Stored(a, P, st, e, d)
                                               /\ a.row[e][d].shot = v

\* The receipts of any set of rows are Receipted.
LEMMA ReceiptsEffect ==
    ASSUME NEW s \in Stores, NEW P \in SUBSET (Event \X Device),
           NEW st \in {"failed", "gone", "sent", "expired"},
           NEW at \in {"later", "none"}, NEW why \in {"plain", "batch"}
    PROVE  /\ Receipts(s, P, st, at, why) \in Stores
           /\ Receipted(s, Receipts(s, P, st, at, why), P, st, at, why)
<1> DEFINE row(p) == s.row[p[1]][p[2]]
           stored == {p \in P : /\ row(p).st # "none"
                                /\ st = "sent" \/ ~ OneShotClosed(row(p))}
           new(r) == [r EXCEPT !.st = st, !.at = at, !.why = why,
                               !.tries = Attempted(r)]
           rows == [e \in Event |-> [d \in Device |->
                     IF <<e, d>> \in stored
                     THEN new(s.row[e][d]) ELSE s.row[e][d]]]
           journal == [e \in Event |-> [d \in Device |->
                         IF <<e, d>> \in stored /\ s.journal[e][d] # "none"
                         THEN "done" ELSE s.journal[e][d]]]
           marker == s.marker \cup {m \in Event \X Revs :
                               /\ st = "sent"
                               /\ \E p \in stored : /\ m[1] = p[1]
                                                    /\ m[2] = row(p).shot}
           t == [s EXCEPT !.row = rows, !.journal = journal, !.marker = marker]
<1>1. Receipts(s, P, st, at, why) = t
    BY DEF Receipts
<1>2. \A e \in Event, d \in Device : <<e, d>> \in stored <=> Stored(s, P, st, e, d)
    BY DEF Stored
<1>3. \A e \in Event, v \in Revs :
         <<e, v>> \in marker <=>
           \/ <<e, v>> \in s.marker
           \/ st = "sent" /\ \E d \in Device : /\ <<e, d>> \in stored
                                               /\ s.row[e][d].shot = v
    <2>1. \A p \in stored : p \in Event \X Device
        OBVIOUS
    <2>2. \A e \in Event, v \in Revs :
            (\E p \in stored : e = p[1] /\ v = row(p).shot)
              <=> \E d \in Device : <<e, d>> \in stored /\ s.row[e][d].shot = v
        <3> SUFFICES ASSUME NEW e \in Event, NEW v \in Revs
                     PROVE  (\E p \in stored : e = p[1] /\ v = row(p).shot)
                              <=> \E d \in Device : <<e, d>> \in stored /\ s.row[e][d].shot = v
            OBVIOUS
        <3> HIDE DEF stored
        <3>1. ASSUME NEW p \in stored, e = p[1], v = row(p).shot
              PROVE  \E d \in Device : <<e, d>> \in stored /\ s.row[e][d].shot = v
            <4>1. p = <<e, p[2]>> /\ p[2] \in Device
                BY <2>1, <3>1
            <4> QED BY <3>1, <4>1
        <3>2. ASSUME NEW d \in Device, <<e, d>> \in stored, s.row[e][d].shot = v
              PROVE  \E p \in stored : e = p[1] /\ v = row(p).shot
            BY <3>2
        <3> QED BY <3>1, <3>2
    <2> HIDE DEF stored, row
    <2> QED BY <2>2
<1>4. marker \in SUBSET (Event \X Revs) /\ s.marker \subseteq marker
      /\ (st # "sent" => marker = s.marker)
    BY DEF Stores
<1>5. \A e \in Event, d \in Device : s.row[e][d] \in Rows
    BY DEF Stores
<1>6. ASSUME NEW r \in Rows
      PROVE  /\ new(r) \in Rows
             /\ new(r).st = st /\ new(r).at = at /\ new(r).why = why
             /\ new(r).shot = r.shot
    <2>1. Attempted(r) \in 0 .. Retries
        BY StoreConstants DEF Rows, Attempted
    <2> QED BY <2>1 DEF Rows, When
<1> HIDE DEF stored, marker, new
<1>7. rows \in [Event -> [Device -> Rows]]
    BY <1>5, <1>6
<1>8. journal \in [Event -> [Device -> {"none", "single", "batch", "done"}]]
    BY DEF Stores
<1>9. \A e \in Event, d \in Device :
         LET r == s.row[e][d] IN
         IF <<e, d>> \in stored
         THEN /\ rows[e][d].st = st /\ rows[e][d].at = at /\ rows[e][d].why = why
              /\ rows[e][d].shot = r.shot
              /\ journal[e][d] = IF s.journal[e][d] = "none" THEN "none" ELSE "done"
         ELSE rows[e][d] = r /\ journal[e][d] = s.journal[e][d]
    BY <1>5, <1>6
<1> HIDE DEF rows, journal
<1>10. t \in Stores
    BY <1>4, <1>7, <1>8 DEF Stores
<1>11. /\ t.status = s.status /\ t.policy = s.policy /\ t.batchOf = s.batchOf
       /\ t.row = rows /\ t.journal = journal /\ t.marker = marker
    BY DEF Stores
<1> HIDE DEF t
<1>12. Receipted(s, t, P, st, at, why)
    <2>1. \A e \in Event, d \in Device :
         LET r == s.row[e][d]
             n == t.row[e][d] IN
         IF Stored(s, P, st, e, d)
         THEN /\ n.st = st /\ n.at = at /\ n.why = why /\ n.shot = r.shot
              /\ t.journal[e][d] = IF s.journal[e][d] = "none" THEN "none" ELSE "done"
         ELSE n = r /\ t.journal[e][d] = s.journal[e][d]
        BY <1>2, <1>9, <1>11
    <2>2. \A e \in Event, v \in Revs :
         <<e, v>> \in t.marker <=>
           \/ <<e, v>> \in s.marker
           \/ st = "sent" /\ \E d \in Device : /\ Stored(s, P, st, e, d)
                                               /\ s.row[e][d].shot = v
        BY <1>2, <1>3, <1>11
    <2> QED BY <1>4, <1>11, <2>1, <2>2 DEF Receipted
<1> QED BY <1>1, <1>10, <1>12

\* An attempt is journaled for one row.
Journaled(s, t, e, d, kind) ==
    /\ t.row = s.row /\ t.status = s.status /\ t.policy = s.policy
    /\ t.marker = s.marker /\ t.batchOf = s.batchOf
    /\ t.journal[e][d] = kind
    /\ \A f \in Event, c \in Device :
         f # e \/ c # d => t.journal[f][c] = s.journal[f][c]

\* recordPushNotificationDeliveryAttempt touches one row of the journal.
LEMMA JournalEffect ==
    ASSUME NEW s \in Stores, NEW e \in Event, NEW d \in Device,
           NEW kind \in {"single", "batch"}
    PROVE  /\ Journal(s, e, d, kind) \in Stores
           /\ Journaled(s, Journal(s, e, d, kind), e, d, kind)
<1> DEFINE t == [s EXCEPT !.journal[e][d] = kind]
<1>1. t \in Stores
    BY DEF Stores
<1>2. /\ t.row = s.row /\ t.status = s.status /\ t.policy = s.policy
      /\ t.marker = s.marker /\ t.batchOf = s.batchOf
      /\ t.journal = [s.journal EXCEPT ![e][d] = kind]
    BY DEF Stores
<1>3. s.journal \in [Event -> [Device -> {"none", "single", "batch", "done"}]]
    BY DEF Stores
<1>4. t.journal[e][d] = kind
           /\ \A f \in Event, c \in Device :
                f # e \/ c # d => t.journal[f][c] = s.journal[f][c]
    BY <1>2, <1>3
<1>5. Journaled(s, t, e, d, kind)
    BY <1>2, <1>4 DEF Journaled
<1> HIDE DEF t
<1> QED BY <1>1, <1>5 DEF Journal, t

\* createPushNotificationBatch gives its members their batch and no more.
LEMMA CreateBatchEffect ==
    ASSUME NEW s \in Stores, NEW B \in SUBSET Event,
           \A e \in B : s.status[e] # "absent"
    PROVE  LET t == CreateBatch(s, B) IN
           /\ t \in Stores
           /\ t.row = s.row /\ t.policy = s.policy
           /\ t.marker = s.marker /\ t.journal = s.journal
           /\ \A e \in Event : t.batchOf[e] = IF e \in B THEN B ELSE s.batchOf[e]
           /\ \A e \in Event : t.status[e] = "absent" <=> s.status[e] = "absent"
<1> DEFINE of == [e \in Event |-> IF e \in B THEN B ELSE s.batchOf[e]]
           status == [e \in Event |-> IF e \in B THEN "batched" ELSE s.status[e]]
           batch == [s.batch EXCEPT ![B] = "ready"]
           t == [s EXCEPT !.batch = batch, !.batchOf = of, !.status = status]
<1>1. CreateBatch(s, B) = t
    BY DEF CreateBatch
<1>2. of \in [Event -> SUBSET Event]
    BY DEF Stores
<1>3. status \in StatusTable
    BY DEF Stores, StatusTable
<1>4. batch \in [SUBSET Event -> {"none", "ready", "sent", "expired"}]
    BY DEF Stores
<1>5. /\ \A e \in Event : of[e] = IF e \in B THEN B ELSE s.batchOf[e]
      /\ \A e \in Event : status[e] = "absent" <=> s.status[e] = "absent"
    OBVIOUS
<1> HIDE DEF of, status, batch
<1>6. t \in Stores
    BY <1>2, <1>3, <1>4 DEF Stores, StatusTable
<1>7. /\ t.row = s.row /\ t.policy = s.policy
      /\ t.marker = s.marker /\ t.journal = s.journal
      /\ t.batchOf = of /\ t.status = status
    BY DEF Stores
<1> HIDE DEF t
<1> QED BY <1>1, <1>5, <1>6, <1>7

\* A delivered attempt proves the receipt of a row.
Proven(s, e, d) ==
    \/ s.journal[e][d] = "single"
    \/ \E g \in Event : s.journal[g][d] = "batch" /\ e \in s.batchOf[g]

\* What a restart makes of a row.
MadeUp(s, t, e, d) ==
    LET r == s.row[e][d]
        n == t.row[e][d] IN
    \/ n = r /\ (Proven(s, e, d) => r.st \in {"none", "sent"})
    \/ /\ Proven(s, e, d) /\ r.st # "none"
       /\ n.st = "sent" /\ n.at = "none" /\ n.shot = r.shot
       /\ n.why \in {"plain", "batch"}
       /\ n.why = "batch" =>
            \E g \in Event : s.journal[g][d] = "batch" /\ e \in s.batchOf[g]
       /\ r.shot # NoShot => <<e, r.shot>> \in t.marker

\* reconcileDeliveredPushNotificationAttempts makes up each row that is
\* proven, marks its one-shot and clears the journal.
LEMMA ReconcileEffect ==
    ASSUME NEW s \in Stores
    PROVE  LET t == Reconcile(s) IN
           /\ t \in Stores
           /\ t.status = s.status /\ t.policy = s.policy /\ t.batchOf = s.batchOf
           /\ s.marker \subseteq t.marker
           /\ \A e \in Event, d \in Device :
                t.journal[e][d] \in {"none", "done"} /\ MadeUp(s, t, e, d)
           /\ \A m \in t.marker \ s.marker : \E d \in Device :
                Proven(s, m[1], d) /\ s.row[m[1]][d].shot = m[2]
           /\ t.marker \subseteq Event \X Revs
<1> DEFINE proofs(kind) == {p \in Event \X Device : s.journal[p[1]][p[2]] = kind}
           batched(e, d) == \E p \in proofs("batch") :
                               p[2] = d /\ e \in s.batchOf[p[1]]
           single(e, d)  == <<e, d>> \in proofs("single")
           target(e, d)  == /\ s.row[e][d].st # "none"
                            /\ \/ batched(e, d) /\ ~ SentAsBatch(s.row[e][d])
                               \/ single(e, d) /\ s.row[e][d].st # "sent"
           sent(r, e, d) == [r EXCEPT !.st = "sent", !.at = "none",
                               !.why = IF batched(e, d) THEN "batch" ELSE "plain",
                               !.tries = Attempted(r)]
           row == [e \in Event |-> [d \in Device |->
                     IF target(e, d) THEN sent(s.row[e][d], e, d) ELSE s.row[e][d]]]
           journal == [e \in Event |-> [d \in Device |->
                         IF s.journal[e][d] = "none" THEN "none" ELSE "done"]]
           marker == s.marker \cup {<<p[1], s.row[p[1]][p[2]].shot>> :
                               p \in {q \in Event \X Device :
                                        /\ target(q[1], q[2])
                                        /\ s.row[q[1]][q[2]].shot # NoShot}}
           batch == [B \in SUBSET Event |->
                       IF \E p \in proofs("batch") : B = s.batchOf[p[1]]
                       THEN "sent" ELSE s.batch[B]]
           t == [s EXCEPT !.row = row, !.journal = journal, !.marker = marker,
                          !.batch = batch]
           none == proofs("single") \cup proofs("batch") = {}
<1>1. Reconcile(s) = IF none THEN s ELSE t
    BY Zenon DEF Reconcile
<1>2. \A e \in Event, d \in Device :
        /\ s.row[e][d] \in Rows
        /\ s.journal[e][d] \in {"none", "single", "batch", "done"}
    BY DEF Stores
<1>3. \A e \in Event, d \in Device :
        /\ batched(e, d) <=> \E g \in Event : s.journal[g][d] = "batch" /\ e \in s.batchOf[g]
        /\ single(e, d) <=> s.journal[e][d] = "single"
    <2>1. ASSUME NEW e \in Event, NEW d \in Device, NEW g \in Event,
                 s.journal[g][d] = "batch", e \in s.batchOf[g]
          PROVE  batched(e, d)
        <3>1. <<g, d>> \in proofs("batch")
            BY <2>1
        <3> QED BY <2>1, <3>1
    <2>2. ASSUME NEW e \in Event, NEW d \in Device, NEW p \in proofs("batch"),
                 p[2] = d, e \in s.batchOf[p[1]]
          PROVE  \E g \in Event : s.journal[g][d] = "batch" /\ e \in s.batchOf[g]
        BY <2>2
    <2>3. \A e \in Event, d \in Device : single(e, d) <=> s.journal[e][d] = "single"
        OBVIOUS
    <2> HIDE DEF single
    <2> QED BY <2>1, <2>2, <2>3
<1>4. \A e \in Event, d \in Device : Proven(s, e, d) <=> batched(e, d) \/ single(e, d)
    <2> HIDE DEF batched, single
    <2> QED BY <1>3 DEF Proven
<1>5. CASE none
    <2>1. \A e \in Event, d \in Device : s.journal[e][d] \notin {"single", "batch"}
        <3>1. ASSUME NEW e \in Event, NEW d \in Device
              PROVE  <<e, d>> \notin proofs("single") /\ <<e, d>> \notin proofs("batch")
            <4> HIDE DEF proofs
            <4> QED BY <1>5
        <3> QED BY <3>1
    <2>2. \A e \in Event, d \in Device :
            ~ Proven(s, e, d) /\ s.journal[e][d] \in {"none", "done"}
        BY <1>2, <2>1 DEF Proven
    <2>3. Reconcile(s) = s
        BY <1>1, <1>5
    <2>4. s.marker \subseteq Event \X Revs
        BY DEF Stores
    <2> HIDE DEF none
    <2> QED BY <2>2, <2>3, <2>4 DEF MadeUp
<1>6. CASE ~ none
    <2>1. Reconcile(s) = t
        BY <1>1, <1>6
    <2> HIDE DEF none, batched, single, proofs
    <2>2. \A e \in Event, d \in Device : target(e, d) \in BOOLEAN
        OBVIOUS
    <2>3. ASSUME NEW e \in Event, NEW d \in Device
          PROVE  LET n == sent(s.row[e][d], e, d) IN
                 /\ n \in Rows /\ n.st = "sent" /\ n.at = "none"
                 /\ n.shot = s.row[e][d].shot
                 /\ n.why = IF batched(e, d) THEN "batch" ELSE "plain"
        <3>1. PICK r \in Rows : r = s.row[e][d]
            BY <1>2
        <3>2. PICK why \in {"plain", "batch"} :
                why = IF batched(e, d) THEN "batch" ELSE "plain"
            OBVIOUS
        <3>3. Attempted(r) \in 0 .. Retries
            BY StoreConstants DEF Rows, Attempted
        <3> QED BY <3>1, <3>2, <3>3 DEF Rows, When
    <2>4. \A e \in Event, d \in Device :
            ~ target(e, d) /\ Proven(s, e, d) => s.row[e][d].st \in {"none", "sent"}
        BY <1>4 DEF SentAsBatch
    <2>5. \A e \in Event, d \in Device :
            target(e, d) => Proven(s, e, d) /\ s.row[e][d].st # "none"
        BY <1>4
    <2> HIDE DEF target, sent
    <2>6. /\ row \in RowTable
          /\ \A e \in Event, d \in Device :
               row[e][d] = IF target(e, d) THEN sent(s.row[e][d], e, d) ELSE s.row[e][d]
        BY <1>2, <2>3 DEF RowTable
    <2>7. /\ journal \in [Event -> [Device -> {"none", "single", "batch", "done"}]]
          /\ \A e \in Event, d \in Device : journal[e][d] \in {"none", "done"}
        OBVIOUS
    <2>8. /\ s.marker \subseteq marker
          /\ \A e \in Event, d \in Device :
               target(e, d) /\ s.row[e][d].shot # NoShot
                 => <<e, s.row[e][d].shot>> \in marker
          /\ \A m \in marker \ s.marker :
               /\ m[1] \in Event /\ m \in Event \X Revs
               /\ \E d \in Device : target(m[1], d) /\ s.row[m[1]][d].shot = m[2]
        <3>1. \A e \in Event, d \in Device :
                s.row[e][d].shot # NoShot => s.row[e][d].shot \in Revs
            BY <1>2 DEF Rows
        <3>2. ASSUME NEW e \in Event, NEW d \in Device,
                     target(e, d), s.row[e][d].shot # NoShot
              PROVE  <<e, s.row[e][d].shot>> \in marker
            <4>1. <<e, d>> \in {q \in Event \X Device :
                                        /\ target(q[1], q[2])
                                        /\ s.row[q[1]][q[2]].shot # NoShot}
                BY <3>2
            <4> QED BY <4>1
        <3>3. ASSUME NEW m \in marker, m \notin s.marker
              PROVE  /\ m[1] \in Event /\ m \in Event \X Revs
                     /\ \E d \in Device : target(m[1], d) /\ s.row[m[1]][d].shot = m[2]
            <4>1. PICK p \in Event \X Device :
                    /\ target(p[1], p[2]) /\ s.row[p[1]][p[2]].shot # NoShot
                    /\ m = <<p[1], s.row[p[1]][p[2]].shot>>
                BY <3>3
            <4>2. p[1] \in Event /\ p[2] \in Device
                OBVIOUS
            <4>3. m[1] = p[1] /\ m[2] = s.row[p[1]][p[2]].shot
                BY <4>1
            <4> QED BY <3>1, <4>1, <4>2, <4>3
        <3> HIDE DEF marker
        <3>4. s.marker \subseteq marker
            BY DEF marker
        <3> QED BY <3>2, <3>3, <3>4
    <2>9. marker \in SUBSET (Event \X Revs)
        BY <2>8 DEF Stores
    <2>10. batch \in [SUBSET Event -> {"none", "ready", "sent", "expired"}]
        BY DEF Stores
    <2> HIDE DEF row, journal, marker, batch
    <2>11. t \in Stores
        BY <2>6, <2>7, <2>9, <2>10 DEF Stores, RowTable
    <2>12. /\ t.status = s.status /\ t.policy = s.policy /\ t.batchOf = s.batchOf
           /\ t.row = row /\ t.journal = journal /\ t.marker = marker
        BY DEF Stores
    <2> HIDE DEF t
    <2>13. \A m \in t.marker \ s.marker : \E d \in Device :
                Proven(s, m[1], d) /\ s.row[m[1]][d].shot = m[2]
        BY <2>5, <2>8, <2>12
    <2>14. \A e \in Event, d \in Device :
                LET r == s.row[e][d]
                    n == t.row[e][d] IN
                /\ t.journal[e][d] \in {"none", "done"}
                /\ \/ n = r /\ (Proven(s, e, d) => r.st \in {"none", "sent"})
                   \/ /\ Proven(s, e, d) /\ r.st # "none"
                      /\ n.st = "sent" /\ n.at = "none" /\ n.shot = r.shot
                      /\ n.why \in {"plain", "batch"}
                      /\ n.why = "batch" =>
                           \E g \in Event : s.journal[g][d] = "batch" /\ e \in s.batchOf[g]
                      /\ r.shot # NoShot => <<e, r.shot>> \in t.marker
        BY <1>3, <2>3, <2>4, <2>5, <2>6, <2>7, <2>8, <2>12
    <2>15. \A e \in Event, d \in Device :
                t.journal[e][d] \in {"none", "done"} /\ MadeUp(s, t, e, d)
        BY <2>14, Zenon DEF MadeUp
    <2> QED BY <2>1, <2>8, <2>9, <2>11, <2>12, <2>13, <2>15
<1> QED BY <1>5, <1>6

-----------------------------------------------------------------------------
\* Events are well ordered by time, for Earliest.
LEMMA LessThanRelation ==
  \E R : IsWellFoundedOn(R, Nat) /\ \A m, n \in Nat : m < n => <<m, n>> \in R
<1> DEFINE R == {p \in Nat \X Nat : p[1] < p[2]}
<1>1. IsWellFoundedOn(R, Nat)
    BY NatLessThanWellFounded, Zenon DEF OpToRel
<1>2. \A m, n \in Nat : m < n => <<m, n>> \in R
    OBVIOUS
<1> QED BY <1>1, <1>2

\* The earliest of some events is one of them.
LEMMA EarliestIn ==
    ASSUME NEW S \in SUBSET Event, S # {}
    PROVE  Earliest(S) \in S
<1>1. S \subseteq Nat
    BY StoreConstants
<1>2. PICK R : IsWellFoundedOn(R, Nat) /\ \A m, n \in Nat : m < n => <<m, n>> \in R
    BY LessThanRelation
<1>3. PICK n \in S : \A m \in S : ~ (<<m, n>> \in R)
    <2>1. \E m \in S : TRUE
        OBVIOUS
    <2> QED BY <1>1, <1>2, <2>1, WFMin, Zenon
<1>4. \A m \in S : n <= m
    <2> SUFFICES ASSUME NEW m \in S PROVE ~ (m < n)
        BY <1>1
    <2> QED BY <1>1, <1>2, <1>3
<1> QED BY <1>3, <1>4 DEF Earliest

\* A call of several events has at least two of them.
LEMMA Several ==
    ASSUME NEW S \in SUBSET Event
    PROVE  /\ Cardinality(S) \in Nat
           /\ Cardinality(S) > 1 => S # {}
           /\ \A e \in S : ~ (Cardinality(S) > 1) => S = {e}
<1>1. IsFiniteSet(S)
    BY StoreConstants, FS_Subset
<1>2. Cardinality(S) \in Nat
    BY <1>1, FS_CardinalityType
<1>3. Cardinality(S) > 1 => S # {}
    BY FS_EmptySet, <1>1
<1>4. ASSUME NEW e \in S, ~ (Cardinality(S) > 1) PROVE S = {e}
    <2>1. {e} \subseteq S /\ IsFiniteSet({e}) /\ Cardinality({e}) = 1
        BY FS_Singleton
    <2>2. Cardinality({e}) <= Cardinality(S)
        BY <1>1, <2>1, FS_Subset
    <2> QED BY <1>1, <1>2, <1>4, <2>1, <2>2, FS_Subset
<1> QED BY <1>2, <1>3, <1>4

-----------------------------------------------------------------------------
(* What the steps do to the tables. *)

\* A bound that is not used up can be lowered.
LEMMA OneLess ==
    ASSUME NEW a \in Apps
    PROVE  /\ a.moves > 0 => a.moves - 1 \in 0 .. MaxMoves
           /\ a.crashes > 0 => a.crashes - 1 \in 0 .. MaxCrashes
BY OutboxConstants DEF Apps

UserStep ==
    \/ FlushCompletions \/ GraceOver \/ Focus
    \/ \E d \in Device : Subscribe(d)
    \/ \E e \in Event : Persist(e) \/ TryDeliver(e) \/ Resolve(e)
                         \/ Elapse(e) \/ GrowOld(e)

\* cancelSessionEvent only closes rows of events this process has stored.
LEMMA CancelCalm ==
    ASSUME TypeOK, NEW S
    PROVE  Cancel(db, S) \in Stores /\ Calm(db, Cancel(db, S))
<1>1. S \cap app.tracked \in SUBSET Event
    BY DEF TypeOK, Apps
<1> QED BY <1>1, TerminateCalm DEF Cancel, TypeOK

\* Persisting an event closes the rows of those it replaces.
LEMMA PersistEffect ==
    ASSUME TypeOK, NEW e \in Event, Persist(e)
    PROVE  /\ db' \in Stores /\ app' \in Apps /\ app'.rev = app.rev
           /\ app'.recovered = app.recovered
           /\ Kept(db, db')
           /\ \A f \in Event : db.status[f] # "absent" => db'.status[f] # "absent"
           /\ Quiet /\ UNCHANGED <<drain, io, seen>>
<1> DEFINE s == SourceOf[e]
           same == {x \in Event \ {e} : SourceOf[x] = s}
           latest == {x \in app.tracked \cap Attention \cap same :
                     \A y \in app.tracked \cap Attention \cap same : y <= x}
           passed == IF e \in Attention THEN latest ELSE {}
           stale(over) == (app.pending \cap (over \cup same)) \cup passed
           stamped == e \in Completion /\ app.focused
<1>1. PICK over \in SUBSET (same \cap app.relevant) :
        /\ db' = Enqueue(Cancel(db, stale(over)), e, stamped)
        /\ app' = [app EXCEPT !.relevant = (@ \ over) \cup {e},
                              !.pending = (@ \ stale(over)) \cup {e},
                              !.tracked = (@ \ stale(over)) \cup {e}]
    BY Zenon DEF Persist
<1>2. PICK S : S = stale(over)
    OBVIOUS
<1>3. stamped \in BOOLEAN
    OBVIOUS
<1>4. UNCHANGED <<drain, io, seen>> /\ Quiet
    BY DEF Persist
<1>5. app' = [app EXCEPT !.relevant = (@ \ over) \cup {e},
                         !.pending = (@ \ S) \cup {e}, !.tracked = (@ \ S) \cup {e}]
    BY <1>1, <1>2
<1>6. app' \in Apps /\ app'.rev = app.rev /\ app'.recovered = app.recovered
    BY <1>5 DEF TypeOK, Apps
<1> DEFINE c == Cancel(db, S)
<1>7. c \in Stores /\ Calm(db, c)
    BY CancelCalm
<1> HIDE DEF c, stamped
<1>8. db' = Enqueue(c, e, stamped)
    BY <1>1, <1>2 DEF c
<1>9. /\ db' \in Stores /\ db'.row = c.row /\ db'.journal = c.journal
      /\ db'.marker = c.marker /\ db'.policy = c.policy /\ db'.batchOf = c.batchOf
      /\ \A f \in Event : f # e => db'.status[f] = c.status[f]
      /\ db'.status[e] # "absent"
    BY <1>3, <1>7, <1>8, EnqueueKept
<1>10. /\ Kept(db, db')
       /\ \A f \in Event : db.status[f] # "absent" => db'.status[f] # "absent"
    BY <1>7, <1>9 DEF Calm, Kept
<1> QED BY <1>4, <1>6, <1>9, <1>10

\* Time moves next_attempt_at of rows and events, nothing else.
LEMMA ElapseCalm ==
    ASSUME TypeOK, NEW e \in Event, Elapse(e)
    PROVE  db' \in Stores /\ Calm(db, db')
<1> DEFINE waiting == {d \in Device : db.row[e][d].at = "later"}
           due == IF db.due[e] = "later" THEN "now" ELSE db.due[e]
<1>1. PICK D \in SUBSET waiting :
         db' = [db EXCEPT !.due[e] = IF @ = "later" THEN "now" ELSE @,
                 !.row[e] = [d \in Device |-> IF d \in D
                                              THEN [@[d] EXCEPT !.at = "now"]
                                              ELSE @[d]]]
    BY DEF Elapse
<1> DEFINE mine == [d \in Device |-> IF d \in D THEN [db.row[e][d] EXCEPT !.at = "now"]
                                     ELSE db.row[e][d]]
<1>2. db' = [db EXCEPT !.due[e] = due, !.row[e] = mine]
    BY <1>1
<1>3. \A d \in Device : db.row[e][d] \in Rows
    BY DEF TypeOK, Stores
<1>4. \A f \in Event, d \in Device : RowKept(db.row[f][d], db.row[f][d])
    BY DEF RowKept
<1>5. ASSUME NEW r \in Rows, r.at = "later"
      PROVE  /\ [r EXCEPT !.at = "now"] \in Rows /\ RowKept(r, [r EXCEPT !.at = "now"])
             /\ OneShotClosed([r EXCEPT !.at = "now"]) => OneShotClosed(r)
    BY <1>5 DEF Rows, When, RowKept, Settled, Unsettled, OneShotClosed, SentAsBatch
<1>6. /\ mine \in [Device -> Rows]
      /\ \A d \in Device : /\ RowKept(db.row[e][d], mine[d])
                           /\ OneShotClosed(mine[d]) => OneShotClosed(db.row[e][d])
    BY <1>3, <1>4, <1>5
<1>7. due \in When
    BY DEF TypeOK, Stores, When
<1> HIDE DEF mine, due
<1>8. db' \in Stores
    BY <1>2, <1>6, <1>7 DEF TypeOK, Stores
<1>9. /\ db'.journal = db.journal /\ db'.marker = db.marker /\ db'.policy = db.policy
      /\ db'.batchOf = db.batchOf /\ db'.status = db.status
      /\ db'.row = [db.row EXCEPT ![e] = mine]
    BY <1>2 DEF TypeOK, Stores
<1>10. \A f \in Event : db'.row[f] = IF f = e THEN mine ELSE db.row[f]
    BY <1>9 DEF TypeOK, Stores
<1>11. \A f \in Event, d \in Device :
         /\ RowKept(db.row[f][d], db'.row[f][d])
         /\ OneShotClosed(db'.row[f][d]) => OneShotClosed(db.row[f][d])
    <2> SUFFICES ASSUME NEW f \in Event, NEW d \in Device
                 PROVE  /\ RowKept(db.row[f][d], db'.row[f][d])
                        /\ OneShotClosed(db'.row[f][d]) => OneShotClosed(db.row[f][d])
        OBVIOUS
    <2>1. CASE f = e
        <3>1. db'.row[e][d] = mine[d]
            BY <1>10
        <3>2. /\ RowKept(db.row[e][d], db'.row[e][d])
              /\ OneShotClosed(db'.row[e][d]) => OneShotClosed(db.row[e][d])
            BY <1>6, <3>1, Zenon
        <3> QED BY <2>1, <3>2, Zenon
    <2>2. CASE f # e
        <3>1. db'.row[f][d] = db.row[f][d]
            BY <1>10, <2>2
        <3> QED BY <1>4, <3>1
    <2> QED BY <2>1, <2>2
<1> QED BY <1>8, <1>9, <1>11 DEF Calm, Kept

\* What users, devices, sessions and time do leaves the drain alone.
UserEdit ==
    /\ db' \in Stores /\ app' \in Apps /\ app'.rev = app.rev
    /\ Kept(db, db')
    /\ \A f \in Event : db.status[f] # "absent" => db'.status[f] # "absent"
    /\ Quiet /\ UNCHANGED <<drain, io, seen>>

\* Each of these steps is such an edit.
LEMMA UserEffect ==
    ASSUME TypeOK, UserStep
    PROVE  UserEdit
<1>1. CASE FlushCompletions
    <2>1. Calm(db, db') /\ db' \in Stores
        BY <1>1, CancelCalm DEF FlushCompletions
    <2>2. app' \in Apps /\ app'.rev = app.rev
        BY <1>1 DEF FlushCompletions, TypeOK, Apps
    <2> QED BY <1>1, <2>1, <2>2 DEF UserEdit, FlushCompletions, Calm
<1>2. CASE GraceOver
    BY <1>2, CalmRefl DEF UserEdit, GraceOver, TypeOK, Apps, Calm
<1>3. CASE Focus
    <2>1. app' \in Apps /\ app'.rev = app.rev
        BY <1>3, OneLess DEF Focus, TypeOK, Apps
    <2> QED BY <1>3, <2>1, CalmRefl DEF UserEdit, Focus, TypeOK, Calm
<1>4. ASSUME NEW d \in Device, Subscribe(d) PROVE UserEdit
    <2>1. app' \in Apps /\ app'.rev = app.rev
        BY <1>4, OneLess DEF Subscribe, TypeOK, Apps
    <2> QED BY <1>4, <2>1, CalmRefl DEF UserEdit, Subscribe, TypeOK, Calm
<1>5. ASSUME NEW e \in Event, Persist(e) PROVE UserEdit
    BY <1>5, PersistEffect DEF UserEdit
<1>6. ASSUME NEW e \in Event, TryDeliver(e) PROVE UserEdit
    <2>1. Calm(db, db') /\ db' \in Stores
        BY <1>6, CancelCalm DEF TryDeliver
    <2>2. app' \in Apps /\ app'.rev = app.rev
        BY <1>6 DEF TryDeliver, TypeOK, Apps
    <2> QED BY <1>6, <2>1, <2>2 DEF UserEdit, TryDeliver, Calm
<1>7. ASSUME NEW e \in Event, Resolve(e) PROVE UserEdit
    <2>1. Calm(db, db') /\ db' \in Stores
        BY <1>7, CancelCalm DEF Resolve
    <2>2. app' \in Apps /\ app'.rev = app.rev
        BY <1>7, OneLess DEF Resolve, TypeOK, Apps
    <2> QED BY <1>7, <2>1, <2>2 DEF UserEdit, Resolve, Calm
<1>8. ASSUME NEW e \in Event, Elapse(e) PROVE UserEdit
    BY <1>8, ElapseCalm DEF UserEdit, Elapse, TypeOK, Calm
<1>9. ASSUME NEW e \in Event, GrowOld(e) PROVE UserEdit
    <2>1. app' \in Apps /\ app'.rev = app.rev
        BY <1>9, OneLess DEF GrowOld, TypeOK, Apps
    <2>2. db' \in Stores
        BY <1>9 DEF GrowOld, TypeOK, Stores
    <2>3. \A f \in Event, c \in Device : RowKept(db.row[f][c], db.row[f][c])
        BY DEF RowKept
    <2>4. Calm(db, db')
        BY <1>9, <2>3 DEF GrowOld, TypeOK, Stores, Calm, Kept
    <2> QED BY <1>9, <2>1, <2>2, <2>4 DEF UserEdit, GrowOld, Calm
<1> QED BY <1>1, <1>2, <1>3, <1>4, <1>5, <1>6, <1>7, <1>8, <1>9, Zenon DEF UserStep

\* A drain not started and a worker not running are well typed.
LEMMA Constants == NoDrain \in Drains /\ Off \in Workers
<1>1. NoDrain \in Drains
    BY DEF NoDrain, Drains
<1>2. Off \in Workers
    BY OutboxConstants DEF Off, Workers
<1> QED BY <1>1, <1>2

\* A worker goes on with one event that was left, or stops.
LEMMA Next1Type ==
    ASSUME NEW S \in SUBSET Event
    PROVE  /\ Next1(S) \in Workers /\ Next1(S).n = 0
           /\ Next1(S).st \in {"off", "go"}
           /\ Next1(S).st = "off" => Next1(S) = Off
           /\ Next1(S).cur \subseteq S /\ Next1(S).left \subseteq S
           /\ Next1(S).st = "go" => Next1(S).cur # {}
           /\ Next1(S).ask \subseteq Next1(S).cur /\ Next1(S).keep = {}
           /\ Next1(S).writes = {}
<1>1. CASE S = {}
    <2>1. Next1(S) = Off
        BY <1>1 DEF Next1
    <2> QED BY <2>1, Constants DEF Off
<1>2. CASE S # {}
    <2>1. Earliest(S) \in S
        BY <1>2, EarliestIn
    <2>2. PICK e \in S : e = Earliest(S)
        BY <2>1
    <2>3. Next1(S) = [Off EXCEPT !.st = "go", !.cur = {e}, !.ask = {e},
                                 !.left = S \ {e}]
        BY <1>2, <2>2 DEF Next1
    <2>4. Next1(S) = [st |-> "go", cur |-> {e}, ask |-> {e}, keep |-> {},
                      left |-> S \ {e}, n |-> 0, writes |-> {}]
        BY <2>3 DEF Off
    <2>5. e \in Event /\ S \ {e} \in SUBSET Event /\ 0 \in 0 .. Quick + 1
        BY OutboxConstants
    <2>6. Next1(S) \in Workers
        BY <2>4, <2>5 DEF Workers
    <2> QED BY <2>4, <2>6
<1> QED BY <1>1, <1>2

\* The two listings list events.
LEMMA PendingType ==
    ASSUME NEW s \in Stores, NEW near \in SUBSET Event
    PROVE  PendingEvents(s, near) \in SUBSET Event /\ PendingRows(s) \in SUBSET Event
BY DEF PendingEvents, PendingRows

TypeInv ==
    /\ TypeOK
    /\ \A d \in Device : io[d].st \in {"go", "sleep"} => io[d].n <= Quick

\* What users do keeps the types.
LEMMA UserType ==
    ASSUME TypeInv, UserStep PROVE TypeInv'
BY UserEffect DEF TypeInv, TypeOK, UserEdit

\* The start of a drain keeps the types.
LEMMA DrainType ==
    ASSUME TypeInv, Drain PROVE TypeInv'
<1>1. db' \in Stores
    BY ReconcileEffect DEF TypeInv, TypeOK, Drain
<1>2. drain' \in Drains
    BY Constants DEF Drain, Drains
<1> QED BY <1>1, <1>2 DEF Drain, TypeInv, TypeOK

\* What listing does: tables only closed, groups of known events to take.
LEMMA ListEffect ==
    ASSUME TypeInv, List
    PROVE  /\ db' \in Stores /\ Calm(db, db') /\ app' \in Apps
           /\ drain' \in Drains
           /\ app' = [app EXCEPT !.tracked = app'.tracked]
           /\ \E near \in SUBSET Event :
                /\ \A e \in near : db.status[e] # "absent"
                /\ LET due == (PendingEvents(db, near) \cup PendingRows(db)) \ db.old IN
                   \E T \in SUBSET SUBSET due, L \in SUBSET due, A \in SUBSET due :
                      drain' = [drain EXCEPT !.phase = "pick", !.todo = T,
                                             !.later = L, !.again = A]
<1>1. PICK near \in SUBSET {e \in Completion : db.status[e] = "window"} :
        LET due  == (PendingEvents(db, near) \cup PendingRows(db)) \ db.old
            past == Superseded(due \cap Attention)
         IN /\ db' = Terminate(ExpireOld(db), past)
            /\ app' = [app EXCEPT !.tracked = @ \ past]
            /\ drain' = [drain EXCEPT
                           !.phase = "pick",
                           !.todo  = {{e} : e \in (due \cap Attention) \ past},
                           !.later = due \cap Completion,
                           !.again = {e \in due : db.status[e] = "processed"}]
    BY Zenon DEF List
<1>0. near \in SUBSET Event /\ \A e \in near : db.status[e] # "absent"
    BY DEF Completion
<1> DEFINE due == (PendingEvents(db, near) \cup PendingRows(db)) \ db.old
           past == Superseded(due \cap Attention)
           todo == {{e} : e \in (due \cap Attention) \ past}
           later == due \cap Completion
           again == {e \in due : db.status[e] = "processed"}
<1>2. due \in SUBSET Event
    BY <1>0, PendingType DEF TypeInv, TypeOK
<1>3. past \in SUBSET Event
    BY <1>2 DEF Superseded
<1>4. todo \in SUBSET SUBSET due /\ later \in SUBSET due /\ again \in SUBSET due
    OBVIOUS
<1>5. /\ db' = Terminate(ExpireOld(db), past)
      /\ app' = [app EXCEPT !.tracked = @ \ past]
      /\ drain' = [drain EXCEPT !.phase = "pick", !.todo = todo,
                                !.later = later, !.again = again]
    BY <1>1, Zenon
<1> HIDE DEF past, todo, later, again
<1>6. drain' \in Drains
    <2> HIDE DEF due
    <2> QED BY <1>2, <1>4, <1>5 DEF Drains, TypeInv, TypeOK
<1>7. app' \in Apps /\ app' = [app EXCEPT !.tracked = app'.tracked]
    BY <1>5 DEF Apps, TypeInv, TypeOK
<1>8. db' \in Stores /\ Calm(db, db')
    BY <1>3, <1>5, ExpireOldCalm, TerminateCalm, CalmTrans DEF TypeInv, TypeOK
<1> QED BY <1>0, <1>4, <1>5, <1>6, <1>7, <1>8

\* What grouping the completions does.
LEMMA GroupEffect ==
    ASSUME TypeInv, GroupCompletions
    PROVE  /\ db' \in Stores /\ Calm(db, db') /\ app' \in Apps
           /\ drain' \in Drains
           /\ app' = [app EXCEPT !.tracked = app'.tracked]
           /\ \E T \in SUBSET SUBSET drain.later :
                drain' = [drain EXCEPT !.later = {}, !.todo = T]
<1> DEFINE past == Superseded(drain.later)
           rest == drain.later \ past
           todo == {{e \in rest : db.batchOf[e] = B} : B \in {db.batchOf[e] : e \in rest}}
<1>1. /\ db' = Terminate(db, past)
      /\ app' = [app EXCEPT !.tracked = @ \ past]
      /\ drain' = [drain EXCEPT !.later = {}, !.todo = todo]
    BY Zenon DEF GroupCompletions
<1>2. drain.later \in SUBSET Event
    BY DEF TypeInv, TypeOK, Drains
<1>3. past \in SUBSET Event /\ todo \in SUBSET SUBSET drain.later
    BY <1>2 DEF Superseded
<1> HIDE DEF past, todo
<1>4. drain' \in Drains
    BY <1>1, <1>2, <1>3 DEF TypeInv, TypeOK, Drains
<1>5. app' \in Apps /\ app' = [app EXCEPT !.tracked = app'.tracked]
    BY <1>1 DEF Apps, TypeInv, TypeOK
<1>6. db' \in Stores /\ Calm(db, db')
    BY <1>1, <1>3, TerminateCalm DEF TypeInv, TypeOK
<1> QED BY <1>1, <1>3, <1>4, <1>5, <1>6

\* Taking a group keeps the types.
LEMMA ProcessType ==
    ASSUME TypeInv, NEW G \in drain.todo, Process(G)
    PROVE  TypeInv'
<1>1. G \in SUBSET Event
    BY DEF TypeInv, TypeOK, Drains
<1>2. drain' \in Drains
    BY <1>1 DEF Process, TypeInv, TypeOK, Drains
<1> QED BY <1>2 DEF Process, TypeInv, TypeOK

\* What the first look at an event does.
LEMMA TriageEffect ==
    ASSUME TypeInv, Triage, \A e \in drain.fan : db.status[e] # "absent"
    PROVE  /\ db' \in Stores /\ Calm(db, db') /\ app' \in Apps
           /\ drain' \in Drains
           /\ app' = [app EXCEPT !.tracked = app'.tracked]
           /\ \E e \in drain.fan :
                \/ drain' = [drain EXCEPT !.fan = @ \ {e}]
                \/ /\ drain' = [drain EXCEPT !.fan = @ \ {e}, !.rel = @ \cup {e}]
                   /\ e \notin app.recovered
<1>1. PICK e \in drain.fan : e = Earliest(drain.fan)
    BY EarliestIn DEF Triage, TypeInv, TypeOK, Drains
<1> DEFINE drop == e \notin app.relevant
           wait == \/ e \in app.recovered
                   \/ app.focused /\ ~ QuietCompletion(db, e)
           hush == ~ wait /\ QuietCompletion(db, e)
<1>2. /\ db' = IF drop THEN Terminate(db, {e})
                ELSE IF wait THEN SetStatus(db, e, "deferred", "later")
                ELSE IF hush THEN SuppressFocused(db, e) ELSE db
      /\ app' = [app EXCEPT !.tracked = IF drop \/ hush THEN @ \ {e} ELSE @]
      /\ drain' = [drain EXCEPT !.fan = @ \ {e},
                                 !.rel = IF drop \/ wait \/ hush THEN @
                                         ELSE @ \cup {e}]
    BY <1>1, Zenon DEF Triage
<1>3. e \in Event
    BY DEF TypeInv, TypeOK, Drains
<1>4. db' \in Stores /\ Calm(db, db')
    <2>1. "later" \in When
        BY DEF When
    <2>2. CASE drop
        BY <1>2, <1>3, <2>2, TerminateCalm DEF TypeInv, TypeOK
    <2>3. CASE ~ drop /\ wait
        <3>1. db' = SetStatus(db, e, "deferred", "later")
            BY <1>2, <2>3
        <3> QED BY <1>3, <2>1, <3>1, SetStatusCalm DEF TypeInv, TypeOK
    <2>4. CASE ~ drop /\ ~ wait /\ hush
        <3>1. db' = SuppressFocused(db, e)
            BY <1>2, <2>4
        <3> QED BY <1>3, <3>1, SuppressCalm DEF TypeInv, TypeOK
    <2>5. CASE ~ drop /\ ~ wait /\ ~ hush
        <3>1. db' = db
            BY <1>2, <2>5
        <3> QED BY <3>1, CalmRefl DEF TypeInv, TypeOK
    <2> QED BY <2>2, <2>3, <2>4, <2>5
<1>5. app' \in Apps /\ app' = [app EXCEPT !.tracked = app'.tracked]
    BY <1>2 DEF Apps, TypeInv, TypeOK
<1>6. CASE drop \/ wait \/ hush
    <2>1. drain' = [drain EXCEPT !.fan = @ \ {e}]
        BY <1>2, <1>6 DEF TypeInv, TypeOK, Drains
    <2>2. drain' \in Drains
        BY <2>1 DEF TypeInv, TypeOK, Drains
    <2> QED BY <1>4, <1>5, <2>1, <2>2
<1>7. CASE ~ (drop \/ wait \/ hush)
    <2>1. drain' = [drain EXCEPT !.fan = @ \ {e}, !.rel = @ \cup {e}]
        BY <1>2, <1>7
    <2>2. drain' \in Drains
        BY <1>3, <2>1 DEF TypeInv, TypeOK, Drains
    <2> QED BY <1>4, <1>5, <1>7, <2>1, <2>2
<1> QED BY <1>6, <1>7

-----------------------------------------------------------------------------
(* What a drain decides about a row. *)

\* policyForDelivery hands out the revision of the policy or of the row.
LEMMA ForDelivery ==
    ASSUME NEW s \in Stores, NEW e \in Event, NEW d \in Device
    PROVE  LET p == PolicyForDelivery(s, e, d) IN
           /\ p.shot \in Revs \cup {NoShot}
           /\ \/ p.shot = s.row[e][d].shot
              \/ p.shot = NoShot
              \/ p.shot = s.policy[PolicyOf[e]].rev
<1>1. PolicyOf[e] \in Source
    BY StoreConstants
<1>2. s.policy[PolicyOf[e]].rev \in Revs \cup {NoShot}
    BY <1>1 DEF Stores
<1>3. s.row[e][d].shot \in Revs \cup {NoShot}
    BY DEF Stores, Rows
<1> QED BY <1>2, <1>3 DEF PolicyForDelivery

\* A decision about a row that is due, the only rows a drain decides about.
DecidedOver(s, e, d, n) ==
    /\ n \in Rows
    /\ OneShotClosed(s.row[e][d]) => n = s.row[e][d]
    /\ ~ OneShotClosed(s.row[e][d]) =>
         /\ n.shot \in {s.row[e][d].shot, NoShot, s.policy[PolicyOf[e]].rev}
         /\ n.st \in {"pending", "queued", "suppressed"}
         /\ OneShotClosed(n) => n.st = "suppressed"
    /\ Due(n) /\ ~ OneShotClosed(s.row[e][d]) => n.st = "pending"

\* A decision by the policy is DecidedOver.
LEMMA ChosenOver ==
    ASSUME NEW s \in Stores, NEW e \in Event, NEW d \in Device, Due(s.row[e][d])
    PROVE  DecidedOver(s, e, d, Chosen(s, e, d))
<1> DEFINE p == PolicyForDelivery(s, e, d)
           st == IF Wants(p.mode, e, d) THEN "pending" ELSE "suppressed"
<1>1. /\ p.shot \in Revs \cup {NoShot}
      /\ p.shot \in {s.row[e][d].shot, NoShot, s.policy[PolicyOf[e]].rev}
    BY ForDelivery
<1>2. Chosen(s, e, d) = Decided(s, e, d, st, "none", p.shot)
    BY Zenon DEF Chosen
<1>3. st \in {"pending", "suppressed"} /\ "none" \in When
    BY DEF When
<1>4. s.row[e][d].st # "sent"
    BY DEF Due
<1> DEFINE shot == p.shot
<1> HIDE DEF st, shot
<1>5. shot \in Revs \cup {NoShot}
    BY <1>1 DEF shot
<1> HIDE DEF p
<1> DEFINE n == Decided(s, e, d, st, "none", shot)
<1>6. /\ n \in Rows
      /\ OneShotClosed(s.row[e][d]) => n = s.row[e][d]
      /\ ~ OneShotClosed(s.row[e][d]) =>
           /\ n.shot = shot
           /\ n.st \in {st, "suppressed"}
           /\ OneShotClosed(n) => n.st = "suppressed"
           /\ n.st # "none"
    BY <1>3, <1>4, <1>5, DecidedRow
<1>7. n = Chosen(s, e, d)
    BY <1>2 DEF shot
<1> HIDE DEF n
<1> QED BY <1>1, <1>3, <1>6, <1>7 DEF DecidedOver, Due, shot

\* So is the decision to wait for the window to lose focus.
LEMMA QueuedOver ==
    ASSUME NEW s \in Stores, NEW e \in Event, NEW d \in Device, Due(s.row[e][d])
    PROVE  LET n == Decided(s, e, d, "queued", "later", PolicyForDelivery(s, e, d).shot)
           IN  DecidedOver(s, e, d, n)
<1> DEFINE shot == PolicyForDelivery(s, e, d).shot
           n == Decided(s, e, d, "queued", "later", shot)
<1>1. /\ shot \in Revs \cup {NoShot}
      /\ shot \in {s.row[e][d].shot, NoShot, s.policy[PolicyOf[e]].rev}
    BY ForDelivery
<1>2. "later" \in When
    BY DEF When
<1>3. s.row[e][d].st # "sent"
    BY DEF Due
<1> HIDE DEF shot
<1>4. /\ n \in Rows
      /\ OneShotClosed(s.row[e][d]) => n = s.row[e][d]
      /\ ~ OneShotClosed(s.row[e][d]) =>
           /\ n.shot = shot
           /\ n.st \in {"queued", "suppressed"}
           /\ OneShotClosed(n) => n.st = "suppressed"
           /\ n.st = "suppressed" \/ n.at = "later"
    BY <1>1, <1>2, <1>3, DecidedRow
<1> HIDE DEF n
<1>5. DecidedOver(s, e, d, n)
    BY <1>1, <1>4 DEF DecidedOver, Due
<1> QED BY <1>5 DEF n, shot

\* The first decisions: each open row is decided, each lost one expires.
LEMMA DecideEffect ==
    ASSUME TypeInv, DecideRows
    PROVE  /\ db' \in Stores /\ drain' \in Drains
           /\ db'.policy = db.policy /\ db'.batchOf = db.batchOf
           /\ db'.marker = db.marker /\ db'.status = db.status
           /\ \A e \in Event, d \in Device :
                /\ \/ db'.journal[e][d] = db.journal[e][d]
                   \/ db'.journal[e][d] = "done"
                /\ \/ db'.row[e][d] = db.row[e][d]
                   \/ /\ e \in drain.rel /\ Due(db.row[e][d])
                      /\ DecidedOver(db, e, d, db'.row[e][d])
                   \/ /\ db.row[e][d].st # "none" /\ ~ OneShotClosed(db.row[e][d])
                      /\ db'.row[e][d].st = "expired" /\ db'.row[e][d].why = "plain"
                      /\ db'.row[e][d].shot = db.row[e][d].shot
           /\ \E C \in [Device -> SUBSET drain.rel] :
                drain' = [drain EXCEPT
                  !.phase = IF drain.rel = {} THEN "pick" ELSE "spread", !.cand = C]
           /\ drain.phase = "triage" /\ UNCHANGED <<app, io, seen>>
<1> DEFINE open == {p \in drain.rel \X app.devices :
                   /\ Due(db.row[p[1]][p[2]])
                   /\ p[1] \in drain.again => db.row[p[1]][p[2]].st # "none"}
           lost == {p \in drain.rel \X (Device \ app.devices) :
                   db.row[p[1]][p[2]].st
                     \notin {"none", "suppressed", "gone", "expired"}}
           u == Receipts(db, lost, "expired", "none", "plain")
           row == [e \in Event |-> [d \in Device |->
                   IF <<e, d>> \in open THEN Chosen(db, e, d) ELSE u.row[e][d]]]
           cand == [d \in Device |-> {e \in drain.rel : /\ <<e, d>> \in open
                                                        /\ Due(Chosen(db, e, d))}]
<1>1. /\ db' = [u EXCEPT !.row = row]
      /\ drain' = [drain EXCEPT !.phase = IF drain.rel = {} THEN "pick" ELSE "spread",
                                !.cand = cand]
      /\ drain.phase = "triage" /\ UNCHANGED <<app, io, seen>>
    BY Zenon DEF DecideRows, Unavailable
<1>2. drain.rel \subseteq Event /\ app.devices \subseteq Device
    BY DEF TypeInv, TypeOK, Drains, Apps
<1>3. \A e \in Event, d \in Device :
         /\ <<e, d>> \in open => e \in drain.rel /\ Due(db.row[e][d])
         /\ <<e, d>> \in open => <<e, d>> \notin lost
    BY <1>2
<1>4. lost \in SUBSET (Event \X Device)
    BY <1>2
<1>5. cand \in [Device -> SUBSET drain.rel]
    OBVIOUS
<1> HIDE DEF open, lost, cand
<1>6. u \in Stores /\ Receipted(db, u, lost, "expired", "none", "plain")
    BY <1>4, ReceiptsEffect DEF TypeInv, TypeOK
<1> HIDE DEF u
<1>7. \A e \in Event, d \in Device : <<e, d>> \in open => DecidedOver(db, e, d, Chosen(db, e, d))
    BY <1>3, ChosenOver DEF TypeInv, TypeOK
<1>8. row \in [Event -> [Device -> Rows]]
    BY <1>6, <1>7 DEF DecidedOver, Stores
<1>9. \A e \in Event, d \in Device :
         row[e][d] = IF <<e, d>> \in open THEN Chosen(db, e, d) ELSE u.row[e][d]
    OBVIOUS
<1> HIDE DEF row
<1>10. db' \in Stores /\ db'.row = row /\ db'.policy = u.policy /\ db'.status = u.status
       /\ db'.batchOf = u.batchOf /\ db'.marker = u.marker /\ db'.journal = u.journal
    BY <1>1, <1>6, <1>8 DEF Stores
<1>11. drain' \in Drains
    BY <1>1, <1>2, <1>5 DEF TypeInv, TypeOK, Drains
<1>12. ASSUME NEW e \in Event, NEW d \in Device
       PROVE  /\ \/ db'.journal[e][d] = db.journal[e][d]
                 \/ db'.journal[e][d] = "done"
              /\ \/ db'.row[e][d] = db.row[e][d]
                 \/ /\ e \in drain.rel /\ Due(db.row[e][d])
                    /\ DecidedOver(db, e, d, db'.row[e][d])
                 \/ /\ db.row[e][d].st # "none" /\ ~ OneShotClosed(db.row[e][d])
                    /\ db'.row[e][d].st = "expired" /\ db'.row[e][d].why = "plain"
                    /\ db'.row[e][d].shot = db.row[e][d].shot
    <2>1. CASE <<e, d>> \in open
        <3>1. DecidedOver(db, e, d, db'.row[e][d]) /\ e \in drain.rel /\ Due(db.row[e][d])
            BY <1>3, <1>7, <1>9, <1>10, <2>1
        <3>2. db'.journal[e][d] = db.journal[e][d]
            BY <1>3, <1>6, <1>10, <2>1 DEF Receipted, Stored
        <3> QED BY <3>1, <3>2
    <2>2. CASE <<e, d>> \notin open
        <3>1. db'.row[e][d] = u.row[e][d] /\ db'.journal[e][d] = u.journal[e][d]
            BY <1>9, <1>10, <2>2
        <3>2. db.journal[e][d] = "none" \/ db.journal[e][d] # "none"
            OBVIOUS
        <3> QED BY <1>6, <3>1 DEF Receipted, Stored
    <2> QED BY <2>1, <2>2
<1> QED BY <1>1, <1>5, <1>6, <1>10, <1>11, <1>12 DEF Receipted

\* Members of a batch that a device accepted get its receipt.
LEMMA SpreadEffect ==
    ASSUME TypeInv, SpreadBatches
    PROVE  /\ db' \in Stores /\ drain' \in Drains
           /\ \E P \in SUBSET (Event \X Device) :
                /\ Receipted(db, db', P, "sent", "none", "batch")
                /\ \A e \in Event, d \in Device : <<e, d>> \in P =>
                     \E f \in drain.rel, m \in Event :
                        /\ e \in db.batchOf[f]
                        /\ m \in db.batchOf[e] /\ SentAsBatch(db.row[m][d])
           /\ \E F \in SUBSET SUBSET drain.rel, C \in [Device -> SUBSET Event],
                 D \in SUBSET Event :
                /\ \A d \in Device : C[d] \subseteq drain.cand[d]
                /\ drain' = [drain EXCEPT !.phase = "send", !.fans = F,
                                          !.cand = C, !.dead = D]
           /\ drain.phase = "spread" /\ UNCHANGED <<app, io, seen>>
<1> DEFINE batches == {db.batchOf[e] : e \in drain.rel} \ {{}}
           target(e) == {d \in Device : e \in drain.cand[d]}
           took(B, d) == \E m \in B : SentAsBatch(db.row[m][d])
           owed == {p \in (UNION batches) \X Device :
                   /\ took(db.batchOf[p[1]], p[2])
                   /\ db.row[p[1]][p[2]].st \notin {"none", "sent"}}
           fans == {{e \in drain.rel : target(e) = T} :
                        T \in {target(e) : e \in drain.rel} \ {{}}}
           cand == [d \in Device |->
                        {e \in drain.cand[d] : ~ \E B \in batches :
                                                   e \in B /\ took(B, d)}]
           dead == {m \in UNION batches : Terminal(db, m)}
<1>1. /\ db' = Receipts(db, owed, "sent", "none", "batch")
      /\ drain' = [drain EXCEPT !.phase = "send", !.fans = fans,
                                !.cand = cand, !.dead = dead]
      /\ drain.phase = "spread" /\ UNCHANGED <<app, io, seen>>
    BY Zenon DEF SpreadBatches
<1>2. drain.rel \in SUBSET Event /\ drain.cand \in [Device -> SUBSET Event]
    BY DEF TypeInv, TypeOK, Drains
<1>3. \A e \in Event : db.batchOf[e] \in SUBSET Event
    BY DEF TypeInv, TypeOK, Stores
<1>4. UNION batches \in SUBSET Event
    BY <1>2, <1>3
<1>5. \A e \in UNION batches : \E f \in drain.rel : e \in db.batchOf[f]
    OBVIOUS
<1> HIDE DEF batches
<1>6. owed \in SUBSET (Event \X Device)
    BY <1>4
<1>7. ASSUME NEW e \in Event, NEW d \in Device, <<e, d>> \in owed
      PROVE  \E f \in drain.rel, m \in Event :
                        /\ e \in db.batchOf[f]
                        /\ m \in db.batchOf[e] /\ SentAsBatch(db.row[m][d])
    <2>1. e \in UNION batches /\ took(db.batchOf[e], d)
        BY <1>7
    <2> QED BY <1>3, <1>5, <2>1
<1>8. /\ fans \in SUBSET SUBSET drain.rel /\ cand \in [Device -> SUBSET Event]
      /\ dead \in SUBSET Event
    BY <1>2, <1>4
<1>9. \A d \in Device : cand[d] \subseteq drain.cand[d]
    OBVIOUS
<1> HIDE DEF owed, fans, cand, dead
<1>10. db' \in Stores /\ Receipted(db, db', owed, "sent", "none", "batch")
    BY <1>1, <1>6, ReceiptsEffect DEF TypeInv, TypeOK
<1>11. drain' \in Drains
    BY <1>1, <1>2, <1>8 DEF TypeInv, TypeOK, Drains
<1> QED BY <1>1, <1>6, <1>7, <1>8, <1>9, <1>10, <1>11

\* What the start of a group of calls does to batches and workers.
LEMMA StartFanEffect ==
    ASSUME TypeInv, NEW g \in drain.fans, StartFan(g),
           \A e \in g : db.status[e] # "absent"
    PROVE  /\ db' \in Stores /\ drain' \in Drains /\ io' \in [Device -> Workers]
           /\ db'.row = db.row /\ db'.policy = db.policy
           /\ db'.marker = db.marker /\ db'.journal = db.journal
           /\ \A e \in Event : db'.status[e] = "absent" <=> db.status[e] = "absent"
           /\ \E new \in BOOLEAN :
                /\ new => \A e \in g : db.batchOf[e] = {}
                /\ \A e \in Event : db'.batchOf[e] = IF new /\ e \in g THEN g
                                                     ELSE db.batchOf[e]
                /\ drain' = [drain EXCEPT !.fans = @ \ {g}, !.fan = g,
                      !.whole = new \/ {db.batchOf[e] : e \in g} \ {{}} = {g}]
           /\ \A d \in Device :
                LET mine == drain.cand[d] \cap g IN
                io'[d] = IF mine = {} THEN Off
                         ELSE [Off EXCEPT !.st = "go", !.cur = mine, !.ask = mine]
           /\ drain.phase = "send" /\ AllOff /\ UNCHANGED <<app, seen>>
<1> DEFINE batches == {db.batchOf[e] : e \in g} \ {{}}
           new == Cardinality(g) > 1 /\ batches = {}
           whole == new \/ batches = {g}
<1>1. /\ db' = IF new THEN CreateBatch(db, g) ELSE db
      /\ drain' = [drain EXCEPT !.fans = @ \ {g}, !.fan = g, !.whole = whole]
      /\ io' = [d \in Device |->
                   LET mine == drain.cand[d] \cap g
                   IN IF mine = {} THEN Off
                      ELSE [Off EXCEPT !.st = "go", !.cur = mine, !.ask = mine]]
      /\ drain.phase = "send" /\ AllOff /\ UNCHANGED <<app, seen>>
    BY Zenon DEF StartFan
<1>2. g \in SUBSET Event /\ drain.cand \in [Device -> SUBSET Event]
    BY DEF TypeInv, TypeOK, Drains
<1>3. io' \in [Device -> Workers]
    <2>1. ASSUME NEW mine \in SUBSET Event
          PROVE  [Off EXCEPT !.st = "go", !.cur = mine, !.ask = mine] \in Workers
        BY Constants DEF Workers
    <2> QED BY <1>1, <1>2, <2>1, Constants
<1>4. new \in BOOLEAN /\ whole \in BOOLEAN
    OBVIOUS
<1>5. new => \A e \in g : db.batchOf[e] = {}
    OBVIOUS
<1> HIDE DEF new
<1>6. drain' \in Drains
    <2> HIDE DEF whole
    <2> QED BY <1>1, <1>2, <1>4 DEF TypeInv, TypeOK, Drains
<1>7. /\ db' \in Stores
      /\ db'.row = db.row /\ db'.policy = db.policy
      /\ db'.marker = db.marker /\ db'.journal = db.journal
      /\ \A e \in Event : db'.status[e] = "absent" <=> db.status[e] = "absent"
      /\ \A e \in Event : db'.batchOf[e] = IF new /\ e \in g THEN g ELSE db.batchOf[e]
    <2>1. CASE new
        <3>1. db' = CreateBatch(db, g)
            BY <1>1, <2>1
        <3> QED BY <1>2, <2>1, <3>1, CreateBatchEffect DEF TypeInv, TypeOK
    <2>2. CASE ~ new
        BY <1>1, <2>2 DEF TypeInv, TypeOK
    <2> QED BY <2>1, <2>2
<1>8. \A d \in Device :
        LET mine == drain.cand[d] \cap g IN
        io'[d] = IF mine = {} THEN Off
                 ELSE [Off EXCEPT !.st = "go", !.cur = mine, !.ask = mine]
    BY <1>1
<1> QED BY <1>1, <1>3, <1>4, <1>5, <1>6, <1>7, <1>8

\* Looking at one event either only closes rows, or decides its row.
LEMMA LookEffect ==
    ASSUME TypeInv, NEW d \in Device, Look(d)
    PROVE  /\ db' \in Stores /\ app' \in Apps /\ drain' \in Drains
           /\ app' = [app EXCEPT !.tracked = app'.tracked]
           /\ drain' = [drain EXCEPT !.cut = drain'.cut]
           /\ io[d].st = "go" /\ UNCHANGED seen
           /\ db'.policy = db.policy /\ db'.batchOf = db.batchOf
           /\ db'.marker = db.marker
           /\ \A f \in Event : db'.status[f] = "absent" <=> db.status[f] = "absent"
           /\ \E e \in io[d].ask :
                \/ /\ io' = [io EXCEPT ![d].ask = @ \ {e}]
                   /\ \A f \in Event, c \in Device :
                        /\ RowKept(db.row[f][c], db'.row[f][c])
                        /\ OneShotClosed(db'.row[f][c]) => OneShotClosed(db.row[f][c])
                        /\ \/ db'.journal[f][c] = db.journal[f][c]
                           \/ c = d /\ db'.journal[f][c] = "done"
                \/ /\ Due(db.row[e][d])
                   /\ DecidedOver(db, e, d, db'.row[e][d])
                   /\ db'.journal = db.journal
                   /\ \A f \in Event, c \in Device :
                        f # e \/ c # d => db'.row[f][c] = db.row[f][c]
                   /\ \/ io' = [io EXCEPT ![d].ask = @ \ {e}]
                      \/ /\ io' = [io EXCEPT ![d].ask = @ \ {e}, ![d].keep = @ \cup {e}]
                         /\ Due(db'.row[e][d])
<1>1. io[d] \in Workers /\ io[d].ask \in SUBSET Event /\ io[d].ask # {} /\ io[d].st = "go"
    BY DEF TypeInv, TypeOK, Workers, Look
<1>2. PICK e \in io[d].ask : e = Earliest(io[d].ask)
    BY <1>1, EarliestIn
<1>3. e \in Event
    BY <1>1
<1> DEFINE w == io[d]
           row == db.row[e][d]
           wait == app.focused /\ ~ QuietCompletion(db, e)
           next == IF wait THEN Decided(db, e, d, "queued", "later",
                                        PolicyForDelivery(db, e, d).shot)
                   ELSE Chosen(db, e, d)
           late == Due(row) /\ e \in db.old
           drop == Due(row) /\ ~ late /\ e \notin app.relevant
           hush == Due(row) /\ ~ late /\ ~ drop /\ QuietCompletion(db, e)
           turn == Due(row) /\ ~ (late \/ drop \/ hush)
<1>4. /\ db' = IF late THEN Unavailable(db, {<<e, d>>})
                ELSE IF drop THEN Terminate(db, {e})
                ELSE IF hush THEN SuppressFocused(db, e)
                ELSE IF turn THEN [db EXCEPT !.row[e][d] = next] ELSE db
      /\ app' = [app EXCEPT !.tracked = IF drop \/ hush THEN @ \ {e} ELSE @]
      /\ drain' = [drain EXCEPT !.cut = IF drop \/ hush THEN @ \cup {e} ELSE @]
      /\ io' = [io EXCEPT ![d].ask = @ \ {e},
                          ![d].keep = IF turn /\ Due(next) THEN @ \cup {e} ELSE @]
      /\ UNCHANGED seen
    BY <1>2, Zenon DEF Look
<1>5. app' \in Apps /\ app' = [app EXCEPT !.tracked = app'.tracked]
    BY <1>4 DEF TypeInv, TypeOK, Apps
<1>6. drain' \in Drains /\ drain' = [drain EXCEPT !.cut = drain'.cut]
    BY <1>3, <1>4 DEF TypeInv, TypeOK, Drains
<1>7. \A f \in Event, c \in Device : RowKept(db.row[f][c], db.row[f][c])
    BY DEF RowKept
<1>8. ~ turn => io' = [io EXCEPT ![d].ask = @ \ {e}]
    <2> HIDE DEF turn, next
    <2>1. SUFFICES ASSUME ~ turn PROVE io' = [io EXCEPT ![d].ask = @ \ {e}]
        OBVIOUS
    <2>2. io' = [io EXCEPT ![d].ask = @ \ {e}, ![d].keep = @]
        BY <1>4, <2>1
    <2>3. io[d] = [io[d] EXCEPT !.keep = @] /\ io \in [Device -> Workers]
        BY <1>1 DEF TypeInv, TypeOK, Workers
    <2> QED BY <1>1, <2>2, <2>3 DEF Workers
<1> DEFINE Closes ==
             /\ db' \in Stores
             /\ db'.policy = db.policy /\ db'.batchOf = db.batchOf
             /\ db'.marker = db.marker
             /\ \A f \in Event : db'.status[f] = "absent" <=> db.status[f] = "absent"
             /\ \A f \in Event, c \in Device :
                        /\ RowKept(db.row[f][c], db'.row[f][c])
                        /\ OneShotClosed(db'.row[f][c]) => OneShotClosed(db.row[f][c])
                        /\ \/ db'.journal[f][c] = db.journal[f][c]
                           \/ c = d /\ db'.journal[f][c] = "done"
<1>9. CASE late
    <2>1. db' = Receipts(db, {<<e, d>>}, "expired", "none", "plain")
        BY <1>4, <1>9 DEF Unavailable
    <2>2. db' \in Stores /\ Receipted(db, db', {<<e, d>>}, "expired", "none", "plain")
        <3>1. {<<e, d>>} \in SUBSET (Event \X Device)
            BY <1>3
        <3> QED BY <2>1, <3>1, ReceiptsEffect DEF TypeInv, TypeOK
    <2>3. ASSUME NEW f \in Event, NEW c \in Device
          PROVE  /\ RowKept(db.row[f][c], db'.row[f][c])
                 /\ OneShotClosed(db'.row[f][c]) => OneShotClosed(db.row[f][c])
                 /\ \/ db'.journal[f][c] = db.journal[f][c]
                    \/ c = d /\ db'.journal[f][c] = "done"
        <3>1. CASE Stored(db, {<<e, d>>}, "expired", f, c)
            BY <2>2, <3>1 DEF Receipted, Stored, RowKept, Settled, Unsettled,
                              OneShotClosed, SentAsBatch
        <3>2. CASE ~ Stored(db, {<<e, d>>}, "expired", f, c)
            BY <1>7, <2>2, <3>2 DEF Receipted
        <3> QED BY <3>1, <3>2
    <2>4. Closes
        BY <2>2, <2>3 DEF Receipted
    <2> HIDE DEF Closes, late, drop, hush, turn, next
    <2>5. ~ turn
        BY <1>9 DEF turn
    <2> QED BY <1>1, <1>4, <1>5, <1>6, <1>8, <2>4, <2>5 DEF Closes
<1>10. CASE ~ late /\ ~ turn
    <2>1. db' \in Stores /\ Calm(db, db')
        <3>1. CASE drop
            <4>1. db' = Terminate(db, {e})
                BY <1>4, <1>10, <3>1
            <4> QED BY <1>3, <4>1, TerminateCalm DEF TypeInv, TypeOK
        <3>2. CASE ~ drop /\ hush
            <4>1. db' = SuppressFocused(db, e)
                BY <1>4, <1>10, <3>2
            <4> QED BY <1>3, <4>1, SuppressCalm DEF TypeInv, TypeOK
        <3>3. CASE ~ drop /\ ~ hush
            <4>1. db' = db
                BY <1>4, <1>10, <3>3
            <4> QED BY <4>1, CalmRefl DEF TypeInv, TypeOK
        <3> QED BY <3>1, <3>2, <3>3
    <2>2. Closes
        BY <2>1 DEF Calm, Kept
    <2> HIDE DEF Closes, late, drop, hush, turn, next
    <2> QED BY <1>1, <1>4, <1>5, <1>6, <1>8, <1>10, <2>2 DEF Closes
<1>11. CASE turn
    <2>1. Due(row) /\ db' = [db EXCEPT !.row[e][d] = next]
        BY <1>4, <1>11
    <2>2. DecidedOver(db, e, d, next)
        BY <1>3, <2>1, ChosenOver, QueuedOver DEF TypeInv, TypeOK
    <2> HIDE DEF next
    <2>3. next \in Rows
        BY <2>2 DEF DecidedOver
    <2>4. db' \in Stores
        BY <1>3, <2>1, <2>3 DEF TypeInv, TypeOK, Stores
    <2>5. /\ db'.policy = db.policy /\ db'.batchOf = db.batchOf
          /\ db'.marker = db.marker /\ db'.status = db.status
          /\ db'.journal = db.journal
          /\ db'.row = [db.row EXCEPT ![e][d] = next]
        BY <2>1 DEF TypeInv, TypeOK, Stores
    <2>6. \A f \in Event, c \in Device :
            db'.row[f][c] = IF f = e /\ c = d THEN next ELSE db.row[f][c]
        <3>1. db.row \in [Event -> [Device -> Rows]]
            BY DEF TypeInv, TypeOK, Stores
        <3> QED BY <1>3, <2>5, <3>1
    <2>7. db'.row[e][d] = next
        BY <1>3, <2>6
    <2>8. \/ io' = [io EXCEPT ![d].ask = @ \ {e}]
          \/ io' = [io EXCEPT ![d].ask = @ \ {e}, ![d].keep = @ \cup {e}] /\ Due(next)
        <3>1. CASE Due(next)
            BY <1>4, <1>11, <3>1
        <3>2. CASE ~ Due(next)
            <4>2. io' = [io EXCEPT ![d].ask = @ \ {e}, ![d].keep = @]
                BY <1>4, <3>2
            <4>3. io[d] = [io[d] EXCEPT !.keep = @] /\ io \in [Device -> Workers]
                BY <1>1 DEF TypeInv, TypeOK, Workers
            <4> QED BY <1>1, <4>2, <4>3 DEF Workers
        <3> QED BY <3>1, <3>2
    <2>9. /\ Due(db.row[e][d])
          /\ DecidedOver(db, e, d, db'.row[e][d])
          /\ db'.journal = db.journal
          /\ \A f \in Event, c \in Device :
                        f # e \/ c # d => db'.row[f][c] = db.row[f][c]
          /\ \/ io' = [io EXCEPT ![d].ask = @ \ {e}]
             \/ /\ io' = [io EXCEPT ![d].ask = @ \ {e}, ![d].keep = @ \cup {e}]
                /\ Due(db'.row[e][d])
        <3> HIDE DEF late, drop, hush, turn
        <3> QED BY <2>1, <2>2, <2>5, <2>6, <2>7, <2>8
    <2>10. /\ UNCHANGED seen
           /\ \A f \in Event : db'.status[f] = "absent" <=> db.status[f] = "absent"
        BY <1>4, <2>5
    <2> HIDE DEF late, drop, hush, turn
    <2> QED BY <1>1, <1>5, <1>6, <2>4, <2>5, <2>9, <2>10, Zenon
<1> QED BY <1>9, <1>10, <1>11

-----------------------------------------------------------------------------
(* What the steps of a worker do. *)

\* The steps of a worker that leave the tables alone.
CallStep(d) == \/ Launch(d) \/ Retry(d) \/ Accept(d) \/ Pause(d) \/ Gone(d)
               \/ \E last \in SUBSET io[d].cur : Fail(d, last)

\* What a worker writes after a call that was not accepted.
Refusals == {"retry", "dead", "gone", "requeue"}

\* A worker starts a call, waits, or has its answer to write.
CallMade(d) ==
    /\ UNCHANGED <<db, drain, seen>> /\ app' \in Apps
    /\ app'.rev = app.rev /\ app'.recovered = app.recovered
    /\ io[d].st \in {"go", "sleep", "wire"}
    /\ \E w \in Workers :
         /\ io' = [io EXCEPT ![d] = w]
         /\ w.st \in {"go", "sleep"} => w.n <= Quick
         /\ \/ /\ w = [io[d] EXCEPT !.st = "wire", !.n = w.n]
               /\ io[d].st = "go" /\ io[d].keep = io[d].cur
               /\ Cardinality(io[d].cur) > 1 =>
                    drain.whole /\ io[d].cur = drain.fan
            \/ io[d].st = "go" /\ \E S \in SUBSET (io[d].left \cup io[d].keep) :
                                     w = Next1(S)
            \/ io[d].st = "wire" /\ w = [io[d] EXCEPT !.st = "sleep"]
            \/ io[d].st = "sleep" /\ w = [io[d] EXCEPT !.st = "go",
                                            !.ask = io[d].cur, !.keep = {}]
            \/ /\ io[d].st = "wire"
               /\ w = [io[d] EXCEPT !.st = "write", !.writes = w.writes]
               /\ \/ w.writes \subseteq Refusals \X io[d].cur
                  \/ \E B \in SUBSET Event :
                     w.writes = ({"log", "sent"} \X io[d].cur)
                                 \cup ({"mark"} \X (io[d].cur \cap Completion))
                                 \cup ({"batch"} \X B)

\* Each of those steps is CallMade.
LEMMA CallEffect ==
    ASSUME TypeInv, NEW d \in Device, CallStep(d),
           io[d].st # "off" => io[d].cur # {}
    PROVE  CallMade(d)
<1>1. io[d] \in Workers /\ io \in [Device -> Workers]
    BY DEF TypeInv, TypeOK
<1>2. /\ io[d].cur \in SUBSET Event /\ io[d].left \in SUBSET Event
      /\ io[d].keep \in SUBSET Event /\ io[d].n \in 0 .. Quick + 1
    BY <1>1 DEF Workers
<1> DEFINE kinds == {"log", "sent", "mark", "retry", "dead", "gone", "requeue", "batch"}
<1>3. ASSUME NEW W \in SUBSET (kinds \X Event)
      PROVE  [io[d] EXCEPT !.st = "write", !.writes = W] \in Workers
    BY <1>1 DEF Workers
<1>4. app \in Apps
    BY DEF TypeInv, TypeOK
<1>5. CASE Launch(d)
    <2> DEFINE w == io[d]
               send == /\ w.keep = w.cur
                       /\ Cardinality(w.cur) > 1 => drain.whole /\ w.cur = drain.fan
               rest == w.left \cup IF Cardinality(w.cur) > 1 THEN w.keep ELSE {}
    <2>1. /\ io[d].st = "go"
          /\ io' = [io EXCEPT ![d] = IF send THEN [w EXCEPT !.st = "wire", !.n = @ + 1]
                                     ELSE Next1(rest)]
          /\ UNCHANGED <<db, app, drain, seen>>
        BY <1>5, Zenon DEF Launch
    <2>2. CASE send
        <3>1. io[d].n <= Quick
            BY <2>1 DEF TypeInv
        <3>2. PICK n \in 0 .. Quick + 1 : n = io[d].n + 1
            BY <1>2, <3>1, OutboxConstants
        <3> DEFINE v == [io[d] EXCEPT !.st = "wire", !.n = n]
        <3>3. v \in Workers /\ v.st = "wire" /\ v.n = n
            BY <1>1 DEF Workers
        <3>4. io' = [io EXCEPT ![d] = v]
            BY <2>1, <2>2, <3>2
        <3>5. v = [io[d] EXCEPT !.st = "wire", !.n = v.n]
            BY <3>3
        <3> HIDE DEF v
        <3> QED BY <1>4, <2>1, <2>2, <3>3, <3>4, <3>5 DEF CallMade
    <2>3. CASE ~ send
        <3>1. rest \in SUBSET (io[d].left \cup io[d].keep) /\ rest \in SUBSET Event
            BY <1>2
        <3> HIDE DEF rest
        <3>2. Next1(rest) \in Workers /\ Next1(rest).n = 0 /\ 0 <= Quick
            BY <3>1, Next1Type, OutboxConstants
        <3>3. io' = [io EXCEPT ![d] = Next1(rest)]
            BY <2>1, <2>3
        <3> HIDE DEF send
        <3> QED BY <1>4, <2>1, <3>1, <3>2, <3>3 DEF CallMade
    <2> QED BY <2>2, <2>3
<1>6. CASE Retry(d)
    <2> DEFINE v == [io[d] EXCEPT !.st = "go", !.ask = io[d].cur, !.keep = {}]
    <2>1. io[d].st = "sleep" /\ io' = [io EXCEPT ![d] = v] /\ UNCHANGED <<db, app, drain, seen>>
        BY <1>1, <1>6 DEF Retry
    <2>2. v \in Workers /\ v.st = "go" /\ v.n = io[d].n
        BY <1>1, <1>2 DEF Workers
    <2>3. v.n <= Quick
        BY <2>1, <2>2 DEF TypeInv
    <2> HIDE DEF v
    <2> QED BY <1>4, <2>1, <2>2, <2>3 DEF v, CallMade
<1> DEFINE ok(W) == \/ W \subseteq Refusals \X io[d].cur
                    \/ \E B \in SUBSET Event :
                            W = ({"log", "sent"} \X io[d].cur)
                                        \cup ({"mark"} \X (io[d].cur \cap Completion))
                                        \cup ({"batch"} \X B)
<1>7. ASSUME NEW W \in SUBSET (kinds \X Event), ok(W), Answered(d, W), io[d].st = "wire",
             UNCHANGED <<db, drain, seen>>, app' \in Apps,
             app'.rev = app.rev, app'.recovered = app.recovered
      PROVE  CallMade(d)
    <2> DEFINE v == [io[d] EXCEPT !.st = "write", !.writes = W]
    <2>1. v \in Workers /\ v.st = "write" /\ v.writes = W
        BY <1>1, <1>3 DEF Workers
    <2>2. io' = [io EXCEPT ![d] = v]
        BY <1>1, <1>7 DEF Answered
    <2>3. v = [io[d] EXCEPT !.st = "write", !.writes = v.writes] /\ ok(v.writes)
        BY <1>7, <2>1
    <2> HIDE DEF v, kinds
    <2> QED BY <1>7, <2>1, <2>2, <2>3 DEF CallMade
<1>8. CASE Accept(d)
    <2> DEFINE B == IF Cardinality(io[d].cur) > 1 THEN {Earliest(io[d].cur)} ELSE {}
               W == ({"log", "sent"} \X io[d].cur)
                      \cup ({"mark"} \X (io[d].cur \cap Completion))
                      \cup ({"batch"} \X B)
    <2>1. io[d].cur # {} => Earliest(io[d].cur) \in Event
        BY <1>2, EarliestIn
    <2>2. B \in SUBSET Event
        BY <1>2, <2>1, Several
    <2>3. /\ io[d].st = "wire" /\ UNCHANGED <<db, app, drain, seen>>
          /\ Answered(d, ({"log", "sent"} \X io[d].cur)
                      \cup ({"mark"} \X (io[d].cur \cap Completion))
                      \cup IF Cardinality(io[d].cur) > 1
                           THEN {<<"batch", Earliest(io[d].cur)>>} ELSE {})
        BY <1>8 DEF Accept
    <2>4. {"batch"} \X B = IF Cardinality(io[d].cur) > 1
                           THEN {<<"batch", Earliest(io[d].cur)>>} ELSE {}
        OBVIOUS
    <2>5. Answered(d, W)
        BY <2>3, <2>4
    <2> HIDE DEF B
    <2>6. W \in SUBSET (kinds \X Event) /\ ok(W)
        BY <1>2, <2>2
    <2> HIDE DEF W, ok, kinds
    <2> QED BY <1>4, <1>7, <2>3, <2>5, <2>6
<1>9. ASSUME NEW W \in SUBSET (Refusals \X io[d].cur)
      PROVE  W \in SUBSET (kinds \X Event) /\ ok(W)
    BY <1>2 DEF Refusals
<1>10. CASE Pause(d)
    <2>1. io[d].st = "wire" /\ UNCHANGED <<db, app, drain, seen>> /\ io[d].n <= Quick
        BY <1>10 DEF Pause
    <2> DEFINE v == [io[d] EXCEPT !.st = "sleep"]
    <2>2. io' = [io EXCEPT ![d] = v]
        BY <1>1, <1>10 DEF Pause
    <2>3. v \in Workers /\ v.n = io[d].n
        BY <1>1 DEF Workers
    <2> QED BY <1>4, <2>1, <2>2, <2>3 DEF CallMade
<1>12. ASSUME NEW last \in SUBSET io[d].cur, Fail(d, last)
       PROVE  CallMade(d)
    <2> DEFINE W == ({"retry"} \X (io[d].cur \ last)) \cup ({"dead"} \X last)
    <2>1. io[d].st = "wire" /\ UNCHANGED <<db, app, drain, seen>> /\ Answered(d, W)
        BY <1>12 DEF Fail
    <2>2. W \in SUBSET (Refusals \X io[d].cur)
        BY DEF Refusals
    <2> HIDE DEF W, ok, kinds
    <2> QED BY <1>4, <1>7, <1>9, <2>1, <2>2
<1>11. CASE Gone(d)
    <2>1. /\ io[d].st = "wire" /\ UNCHANGED <<db, drain, seen>>
          /\ app' \in Apps /\ app'.rev = app.rev /\ app'.recovered = app.recovered
        <3>1. PICK D \in SUBSET Device :
                app' = [app EXCEPT !.devices = D, !.moves = @ - 1]
            <4>1. app.devices \in SUBSET Device
                BY <1>4 DEF Apps
            <4>2. PICK rotated \in BOOLEAN :
                    app' = [app EXCEPT !.devices = IF rotated THEN @ ELSE @ \ {d},
                                       !.moves = @ - 1]
                BY <1>11 DEF Gone
            <4> QED BY <4>1, <4>2
        <3>2. app.moves - 1 \in 0 .. MaxMoves
            BY <1>4, <1>11, OneLess DEF Gone
        <3>3. app' \in Apps /\ app'.rev = app.rev /\ app'.recovered = app.recovered
            BY <1>4, <3>1, <3>2 DEF Apps
        <3> QED BY <1>11, <3>3 DEF Gone
    <2>2. PICK k \in {"requeue", "gone"} : Answered(d, {k} \X io[d].cur)
        BY <1>11 DEF Gone
    <2> DEFINE W == {k} \X io[d].cur
    <2>3. W \in SUBSET (Refusals \X io[d].cur) /\ Answered(d, W)
        BY <2>2 DEF Refusals
    <2> HIDE DEF W, ok, kinds
    <2> QED BY <1>7, <1>9, <2>1, <2>3
<1> QED BY <1>5, <1>6, <1>8, <1>10, <1>11, <1>12 DEF CallStep

\* A device that is gone has the rows of the call expired.
LEMMA SkipEffect ==
    ASSUME TypeInv, NEW d \in Device, Skip(d)
    PROVE  /\ db' \in Stores
           /\ Receipted(db, db', io[d].cur \X {d}, "expired", "none", "plain")
           /\ io' = [io EXCEPT ![d] = Next1(io[d].left)]
           /\ io[d].st = "go" /\ UNCHANGED <<app, drain, seen>>
<1>1. io[d].cur \X {d} \in SUBSET (Event \X Device)
    BY DEF TypeInv, TypeOK, Workers
<1>2. db' = Receipts(db, io[d].cur \X {d}, "expired", "none", "plain")
    BY DEF Skip, Unavailable
<1>3. db' \in Stores
      /\ Receipted(db, db', io[d].cur \X {d}, "expired", "none", "plain")
    BY <1>1, <1>2, ReceiptsEffect DEF TypeInv, TypeOK
<1> QED BY <1>3 DEF Skip

\* One commit of the answer of a provider.
Requeued(s, t, e, d) ==
    LET r == s.row[e][d]
        n == t.row[e][d] IN
    /\ OneShotClosed(r) => n = r
    /\ ~ OneShotClosed(r) /\ r.st # "sent" =>
         /\ n.shot = r.shot /\ n.st \in {"pending", "suppressed"}
         /\ OneShotClosed(n) => n.st = "suppressed"
    /\ t.journal = s.journal /\ t.marker = s.marker /\ t.policy = s.policy
    /\ t.batchOf = s.batchOf /\ t.status = s.status
    /\ \A f \in Event, c \in Device : f # e \/ c # d => t.row[f][c] = s.row[f][c]

Committed(d, x) ==
    LET e == x[2]
        r == db.row[e][d]
        many == Cardinality(io[d].cur) > 1 IN
    /\ db' \in Stores /\ drain' \in Drains
    /\ io' = [io EXCEPT ![d] = IF io[d].writes # {x}
                               THEN [io[d] EXCEPT !.writes = @ \ {x}]
                               ELSE Next1(io[d].left)]
    /\ io[d].st = "write" /\ \A y \in io[d].writes \ {x} : Before(x, y)
    /\ seen' = IF x[1] = "log" THEN Received(d) ELSE seen
    /\ drain' = [drain EXCEPT !.shots = drain'.shots]
    /\ drain.shots \subseteq drain'.shots
    /\ app' = app
    /\ \A f \in Event : db'.status[f] = "absent" <=> db.status[f] = "absent"
    /\ CASE x[1] = "log" ->
              Journaled(db, db', e, d, IF many THEN "batch" ELSE "single")
         [] x[1] = "sent" ->
              /\ Receipted(db, db', {<<e, d>>}, "sent", "none",
                           IF many THEN "batch" ELSE "plain")
              /\ r.shot # NoShot => r.shot \in drain'.shots
         [] x[1] \in {"mark", "batch"} -> Calm(db, db')
         [] x[1] = "requeue" -> Requeued(db, db', e, d)
         [] x[1] \in {"retry", "dead", "gone"} ->
              \E st \in {"failed", "gone"}, at \in {"later", "none"} :
                 Receipted(db, db', {<<e, d>>}, st, at, "plain")

\* Each commit is Committed, for one of the writes that are left.
LEMMA CommitEffect ==
    ASSUME TypeInv, NEW d \in Device, Commit(d),
           \A x \in io[d].writes : x[1] = "mark" => db.status[x[2]] # "absent"
    PROVE  \E x \in io[d].writes : Committed(d, x)
<1> DEFINE w == io[d]
           many == Cardinality(io[d].cur) > 1
           receipt(e, st, at, why) == Receipts(db, {<<e, d>>}, st, at, why)
           kinds == {"log", "sent", "mark", "retry", "dead", "gone", "requeue", "batch"}
<1>1. PICK x \in io[d].writes :
       LET kind == x[1]
           e == x[2]
           r == db.row[e][d]
       IN
       /\ w.st = "write" /\ \A y \in w.writes \ {x} : Before(x, y)
       /\ db' = CASE kind = "log" -> Journal(db, e, d, IF many THEN "batch"
                                                       ELSE "single")
                  [] kind = "sent" -> receipt(e, "sent", "none",
                                              IF many THEN "batch" ELSE "plain")
                  [] kind = "mark" -> SetStatus(db, e, "processed", "none")
                  [] kind = "retry" -> receipt(e, "failed",
                         IF r.tries < Retries THEN "later" ELSE "none", "plain")
                  [] kind = "dead" -> receipt(e, "failed", "none", "plain")
                  [] kind = "gone" -> receipt(e, "gone", "none", "plain")
                  [] kind = "requeue" -> [db EXCEPT !.row[e][d] =
                         Decided(db, e, d, "pending", "now", r.shot)]
                  [] kind = "batch" -> SetBatch(db, drain.fan, "sent")
       /\ drain' = [drain EXCEPT !.shots = IF kind = "sent"
                                           THEN @ \cup ({r.shot} \ {NoShot})
                                           ELSE @]
       /\ io' = [io EXCEPT ![d] = IF w.writes # {x}
                                  THEN [w EXCEPT !.writes = @ \ {x}]
                                  ELSE Next1(w.left)]
       /\ seen' = IF kind = "log" THEN Received(d) ELSE seen
       /\ UNCHANGED app
    BY Zenon DEF Commit
<1>2. io[d].writes \in SUBSET (kinds \X Event)
    BY DEF TypeInv, TypeOK, Workers
<1>3. x[1] \in kinds /\ x[2] \in Event
    BY <1>2
<1> DEFINE kind == x[1]
           e == x[2]
           r == db.row[e][d]
           more == IF kind = "sent" THEN drain.shots \cup ({r.shot} \ {NoShot})
                   ELSE drain.shots
<1>4. r \in Rows /\ r.shot \in Revs \cup {NoShot}
    BY <1>3 DEF TypeInv, TypeOK, Stores, Rows
<1>5. more \in SUBSET Revs /\ drain.shots \subseteq more
    BY <1>4 DEF TypeInv, TypeOK, Drains
<1>6. /\ drain' \in Drains /\ drain' = [drain EXCEPT !.shots = drain'.shots]
      /\ drain'.shots = more
    <2>1. drain' = [drain EXCEPT !.shots = more]
        BY <1>1
    <2> HIDE DEF more
    <2> QED BY <1>5, <2>1 DEF TypeInv, TypeOK, Drains
<1>7. {<<e, d>>} \in SUBSET (Event \X Device)
    BY <1>3
<1> DEFINE Other ==
             /\ io' = [io EXCEPT ![d] = IF io[d].writes # {x}
                               THEN [io[d] EXCEPT !.writes = @ \ {x}]
                               ELSE Next1(io[d].left)]
             /\ io[d].st = "write" /\ \A y \in io[d].writes \ {x} : Before(x, y)
             /\ seen' = IF x[1] = "log" THEN Received(d) ELSE seen
             /\ drain' \in Drains
             /\ drain' = [drain EXCEPT !.shots = drain'.shots]
             /\ drain.shots \subseteq drain'.shots
             /\ app' = app
<1>8. Other
    BY <1>1, <1>5, <1>6, Zenon
<1> HIDE DEF Other
<1>9. CASE kind = "log"
    <2>1. db' = Journal(db, e, d, IF many THEN "batch" ELSE "single")
        BY <1>1, <1>9
    <2>2. PICK k \in {"single", "batch"} : k = IF many THEN "batch" ELSE "single"
        OBVIOUS
    <2>3. db' \in Stores /\ Journaled(db, db', e, d, k)
        <3>1. db' = Journal(db, e, d, k) /\ db \in Stores /\ e \in Event
            BY <1>3, <2>1, <2>2 DEF TypeInv, TypeOK
        <3> HIDE DEF e
        <3> QED BY <3>1, JournalEffect
    <2>4. \A f \in Event : db'.status[f] = "absent" <=> db.status[f] = "absent"
        BY <2>3 DEF Journaled
    <2> HIDE DEF kind, e, r, many
    <2>5. Committed(d, x)
        BY <1>8, <1>9, <2>2, <2>3, <2>4 DEF Other, Committed, kind, e, r, many
    <2> QED BY <2>5
<1>10. CASE kind = "sent"
    <2>1. db' = Receipts(db, {<<e, d>>}, "sent", "none", IF many THEN "batch" ELSE "plain")
        BY <1>1, <1>10
    <2>2. PICK k \in {"plain", "batch"} : k = IF many THEN "batch" ELSE "plain"
        OBVIOUS
    <2>3. db' \in Stores /\ Receipted(db, db', {<<e, d>>}, "sent", "none", k)
        BY <1>7, <2>1, <2>2, ReceiptsEffect DEF TypeInv, TypeOK
    <2>4. r.shot # NoShot => r.shot \in drain'.shots
        BY <1>6, <1>10
    <2>5. \A f \in Event : db'.status[f] = "absent" <=> db.status[f] = "absent"
        BY <2>3 DEF Receipted
    <2> HIDE DEF kind, e, r, many
    <2>6. Committed(d, x)
        BY <1>8, <1>10, <2>2, <2>3, <2>4, <2>5 DEF Other, Committed, kind, e, r, many
    <2> QED BY <2>6
<1>11. CASE kind \in {"mark", "batch"}
    <2>1. db' \in Stores /\ Calm(db, db')
        <3>1. CASE kind = "mark"
            <4>1. db' = SetStatus(db, e, "processed", "none")
                BY <1>1, <3>1
            <4>2. db.status[e] # "absent" /\ "none" \in When
                BY <3>1 DEF When
            <4> QED BY <1>3, <4>1, <4>2, SetStatusCalm DEF TypeInv, TypeOK
        <3>2. CASE kind = "batch"
            <4>1. db' = SetBatch(db, drain.fan, "sent")
                BY <1>1, <3>2
            <4>2. drain.fan \in SUBSET Event
                BY DEF TypeInv, TypeOK, Drains
            <4> QED BY <4>1, <4>2, SetBatchCalm DEF TypeInv, TypeOK
        <3> QED BY <1>11, <3>1, <3>2
    <2>2. Committed(d, x)
        BY <1>8, <1>11, <2>1 DEF Other, Committed, Calm
    <2> QED BY <2>2
<1>12. CASE kind \in {"retry", "dead", "gone"}
    <2>1. PICK st \in {"failed", "gone"}, at \in {"later", "none"} :
            db' = Receipts(db, {<<e, d>>}, st, at, "plain")
        BY <1>1, <1>12
    <2>2. db' \in Stores /\ Receipted(db, db', {<<e, d>>}, st, at, "plain")
        BY <1>7, <2>1, ReceiptsEffect DEF TypeInv, TypeOK
    <2>3. \A f \in Event : db'.status[f] = "absent" <=> db.status[f] = "absent"
        BY <2>2 DEF Receipted
    <2>4. Committed(d, x)
        BY <1>8, <1>12, <2>2, <2>3 DEF Other, Committed
    <2> QED BY <2>4
<1>13. CASE kind = "requeue"
    <2> DEFINE n == Decided(db, e, d, "pending", "now", r.shot)
    <2>1. db' = [db EXCEPT !.row[e][d] = n]
        BY <1>1, <1>13
    <2>2. /\ n \in Rows
          /\ OneShotClosed(r) => n = r
          /\ ~ OneShotClosed(r) /\ r.st # "sent" =>
               /\ n.shot = r.shot /\ n.st \in {"pending", "suppressed"}
               /\ OneShotClosed(n) => n.st = "suppressed"
        <3>1. "now" \in When
            BY DEF When
        <3> QED BY <1>3, <1>4, <3>1, DecidedRow DEF TypeInv, TypeOK
    <2> HIDE DEF n
    <2>3. db' \in Stores
        BY <1>3, <2>1, <2>2 DEF TypeInv, TypeOK, Stores
    <2>4. /\ db'.policy = db.policy /\ db'.batchOf = db.batchOf
          /\ db'.marker = db.marker /\ db'.status = db.status
          /\ db'.journal = db.journal
          /\ db'.row = [db.row EXCEPT ![e][d] = n]
        BY <2>1 DEF TypeInv, TypeOK, Stores
    <2>5. \A f \in Event, c \in Device :
            db'.row[f][c] = IF f = e /\ c = d THEN n ELSE db.row[f][c]
        <3>1. db.row \in [Event -> [Device -> Rows]]
            BY DEF TypeInv, TypeOK, Stores
        <3> QED BY <1>3, <2>4, <3>1
    <2>6. Requeued(db, db', e, d)
        BY <1>3, <2>2, <2>4, <2>5 DEF Requeued
    <2>7. Committed(d, x)
        BY <1>8, <1>13, <2>3, <2>4, <2>6 DEF Other, Committed
    <2> QED BY <2>7
<1> QED BY <1>3, <1>9, <1>10, <1>11, <1>12, <1>13

-----------------------------------------------------------------------------
(* What the end of a pass, the user's setting and a crash do. *)

\* The end of a pass consumes the one-shots it has had accepted.
LEMMA ConsumeShotsEffect ==
    ASSUME TypeInv, ConsumeShots
    PROVE  /\ db' \in Stores /\ Consumed(db, db', drain.shots)
           /\ drain' \in Drains /\ drain' = [drain EXCEPT !.phase = "settle"]
           /\ drain.phase = "send" /\ AllOff /\ UNCHANGED <<app, io, seen>>
<1>1. drain.shots \in SUBSET Revs
    BY DEF TypeInv, TypeOK, Drains
<1>2. drain' \in Drains
    BY DEF ConsumeShots, TypeInv, TypeOK, Drains
<1> QED BY <1>1, <1>2, ConsumeEffect DEF ConsumeShots, TypeInv, TypeOK

\* reconcilePushNotificationOneShots consumes every marked revision.
LEMMA ReconcileOneShotsEffect ==
    ASSUME NEW s \in Stores
    PROVE  LET R == {m[2] : m \in s.marker} IN
           R \in SUBSET Revs /\ ReconcileOneShots(s) \in Stores
           /\ Consumed(s, ReconcileOneShots(s), R)
<1>1. {m[2] : m \in s.marker} \in SUBSET Revs
    BY DEF Stores
<1> QED BY <1>1, ConsumeEffect DEF ReconcileOneShots

\* Settling changes statuses of known events and batches, no row.
LEMMA SettleEffect ==
    ASSUME TypeInv, Settle, \A e \in drain.rel : db.status[e] # "absent"
    PROVE  /\ db' \in Stores /\ Calm(db, db') /\ db'.row = db.row
           /\ app' \in Apps /\ app' = [app EXCEPT !.tracked = app'.tracked]
           /\ drain' \in Drains
           /\ drain' = [NoDrain EXCEPT !.phase = "pick", !.todo = drain.todo,
                                       !.later = drain.later, !.again = drain.again]
           /\ drain.phase = "settle" /\ UNCHANGED <<io, seen>>
<1> DEFINE open(e) == {d \in Device : Unsettled(db.row[e][d])}
           rest == drain.rel \ drain.cut
           due(e) == IF open(e) = {} THEN "none"
                     ELSE IF \E d \in open(e) : db.row[e][d].at = "now" THEN "now"
                     ELSE "later"
           over(m) == IF m \in drain.rel THEN m \in drain.cut \/ open(m) = {}
                      ELSE m \in drain.dead
           took(B) == db.batch[B] = "sent" \/ \E m \in B, d \in Device :
                                                SentAsBatch(db.row[m][d])
           touched == {B \in {db.batchOf[e] : e \in drain.rel} \ {{}} :
                         db.batch[B] = "ready"}
           status == [e \in Event |-> IF e \notin rest THEN db.status[e]
                         ELSE IF open(e) = {} THEN "processed" ELSE "deferred"]
           when == [e \in Event |-> IF e \in rest THEN due(e) ELSE db.due[e]]
           batch == [B \in SUBSET Event |->
                         IF B \in touched /\ took(B) THEN "sent"
                         ELSE IF B \in touched /\ \A m \in B : over(m)
                         THEN "expired" ELSE db.batch[B]]
           done == {e \in rest : open(e) = {}}
<1>1. /\ db' = [db EXCEPT !.status = status, !.due = when, !.batch = batch]
      /\ app' = [app EXCEPT !.tracked = @ \ done]
      /\ drain' = [NoDrain EXCEPT !.phase = "pick", !.todo = drain.todo,
                                  !.later = drain.later, !.again = drain.again]
      /\ drain.phase = "settle" /\ UNCHANGED <<io, seen>>
    BY Zenon DEF Settle
<1>2. /\ db.status \in StatusTable /\ db.due \in [Event -> When]
      /\ db.batch \in [SUBSET Event -> {"none", "ready", "sent", "expired"}]
    BY DEF TypeInv, TypeOK, Stores, StatusTable
<1> HIDE DEF open, took, over, touched
<1>3. /\ status \in StatusTable
      /\ \A e \in Event : status[e] = "absent" <=> db.status[e] = "absent"
    BY <1>2 DEF StatusTable
<1>4. when \in [Event -> When]
    BY <1>2 DEF When
<1>5. batch \in [SUBSET Event -> {"none", "ready", "sent", "expired"}]
    BY <1>2
<1> HIDE DEF rest, due, status, when, batch, done
<1>6. db' \in Stores
    BY <1>1, <1>3, <1>4, <1>5 DEF TypeInv, TypeOK, Stores, StatusTable
<1>7. /\ db'.row = db.row /\ db'.journal = db.journal /\ db'.marker = db.marker
      /\ db'.policy = db.policy /\ db'.batchOf = db.batchOf /\ db'.status = status
    BY <1>1 DEF TypeInv, TypeOK, Stores
<1>8. Calm(db, db')
    <2>1. \A f \in Event, d \in Device : RowKept(db.row[f][d], db.row[f][d])
        BY DEF RowKept
    <2> QED BY <1>3, <1>7, <2>1 DEF Calm, Kept
<1>9. app' \in Apps /\ app' = [app EXCEPT !.tracked = app'.tracked]
    BY <1>1 DEF TypeInv, TypeOK, Apps
<1>10. drain' \in Drains
    BY <1>1, Constants DEF TypeInv, TypeOK, Drains
<1> QED BY <1>1, <1>6, <1>7, <1>8, <1>9, <1>10

\* What the user's setting of a policy does.
LEMMA SetPolicyEffect ==
    ASSUME TypeInv, NEW s \in Governing, NEW mode \in Modes, SetPolicy(s, mode)
    PROVE  LET rev == app.rev + 1
               mine == {e \in Event : PolicyOf[e] = s}
               granted == ({db.policy[s].rev}
                      \cup {db.row[e][d].shot : e \in mine, d \in Device})
                   \ {NoShot} IN
           /\ db' \in Stores /\ app' \in Apps
           /\ PolicyPut(db, db', s, mode, rev)
           /\ app'.rev = IF mode # "default" THEN rev ELSE app.rev
           /\ app'.recovered = app.recovered
           /\ mode # "default" => rev \in Revs
           /\ granted \subseteq Revs /\ s \in Source
           /\ seen' = IF mode \in {"default", "mute"}
                  THEN [seen EXCEPT !.revoked = @ \cup
                          {t \in mine \X Device \X granted :
                             ~ ClosedInFlight(t[1], t[2])}]
                  ELSE seen
           /\ Quiet /\ UNCHANGED <<drain, io>>
<1> DEFINE rev == app.rev + 1
           mine == {e \in Event : PolicyOf[e] = s}
           granted == ({db.policy[s].rev}
                      \cup {db.row[e][d].shot : e \in mine, d \in Device})
                   \ {NoShot}
<1>1. /\ Quiet /\ app.moves > 0
      /\ mode # "default" => rev \in Revs
      /\ db' = PutPolicy(db, s, mode, rev)
      /\ app' = [app EXCEPT !.moves = @ - 1,
                            !.rev = IF mode # "default" THEN rev ELSE @]
      /\ seen' = IF mode \in {"default", "mute"}
                  THEN [seen EXCEPT !.revoked = @ \cup
                          {t \in mine \X Device \X granted :
                             ~ ClosedInFlight(t[1], t[2])}]
                  ELSE seen
      /\ UNCHANGED <<drain, io>>
    BY DEF SetPolicy
<1>2. s \in Source /\ mode \in {"default", "mute", "notify_once", "notify_completion_once"}
    BY StoreConstants, OutboxConstants DEF Governing
<1>3. app' \in Apps /\ app'.recovered = app.recovered
      /\ app'.rev = IF mode # "default" THEN rev ELSE app.rev
    <2>1. app.moves - 1 \in 0 .. MaxMoves
        BY <1>1, OneLess DEF TypeInv, TypeOK
    <2> QED BY <1>1, <2>1 DEF TypeInv, TypeOK, Apps
<1>4. granted \subseteq Revs
    <2>1. db.policy[s].rev \in Revs \cup {NoShot}
        BY <1>2 DEF TypeInv, TypeOK, Stores
    <2>2. \A e \in Event, d \in Device : db.row[e][d].shot \in Revs \cup {NoShot}
        BY DEF TypeInv, TypeOK, Stores, Rows
    <2> QED BY <2>1, <2>2
<1>5. PICK v \in Revs \cup {NoShot} :
         /\ v = rev \/ mode = "default"
         /\ mode # "default" => v \in Revs
    BY <1>1
<1>6. db' = PutPolicy(db, s, mode, v)
    <2>1. CASE mode = "default"
        BY <1>1, <2>1 DEF PutPolicy
    <2>2. CASE mode # "default"
        <3>1. v = rev
            BY <1>5, <2>2
        <3> QED BY <1>1, <3>1
    <2> QED BY <2>1, <2>2
<1>7. db' \in Stores /\ PolicyPut(db, db', s, mode, v)
    BY <1>2, <1>5, <1>6, PutPolicyEffect DEF TypeInv, TypeOK
<1>8. PolicyPut(db, db', s, mode, rev)
    BY <1>5, <1>7 DEF PolicyPut
<1> HIDE DEF rev, mine, granted
<1> QED BY <1>1, <1>2, <1>3, <1>4, <1>7, <1>8 DEF rev, mine, granted

-----------------------------------------------------------------------------
Row(e, d) == db.row[e][d]
Known(e) == db.status[e] # "absent"

\* The receipts of an event that are still to be written.
Owing == {"log", "sent"} \cup Refusals

\* A worker is calling for e, or has an answer for it in its hands.
Calls(w, e) ==
    \/ w.st = "go" /\ e \in w.keep
    \/ w.st = "wire" /\ e \in w.cur
    \/ w.st = "write" /\ \E k \in Owing : <<k, e>> \in w.writes

\* No call for e on d is under way or will follow from its row.
Over(e, d) ==
    Settled(Row(e, d)) /\ (OneShotClosed(Row(e, d)) \/ ~ Calls(io[d], e))

PhaseInv ==
    /\ drain.phase # "send" => AllOff
    /\ drain.phase \notin {"triage", "spread", "send", "settle"} => drain.rel = {}
    /\ drain.phase \notin {"send", "settle"} => ~ drain.whole /\ drain.shots = {}
    /\ \A d \in Device : drain.cand[d] \subseteq drain.rel
    /\ \A g \in drain.fans : g \subseteq drain.rel
    /\ drain.whole => \A e \in drain.fan : db.batchOf[e] = drain.fan

\* A drain has the event in hand.
InHand(e) ==
    \/ e \in drain.later \/ e \in drain.rel \/ \E G \in drain.todo : e \in G
    \/ drain.phase = "triage" /\ e \in drain.fan

KnownInv == \A e \in Event :
    /\ \A d \in Device : Row(e, d).st # "none" => Known(e)
    /\ InHand(e) => Known(e)

AnswerOk(w) ==
    /\ \A x \in w.writes : x[1] # "batch" => x[2] \in w.cur
    /\ \/ \A x \in w.writes : x[1] \in Refusals
       \/ \A x \in w.writes : x[1] \notin Refusals
    /\ \A e \in Event : <<"log", e>> \in w.writes =>
         \A f \in w.cur : <<"sent", f>> \in w.writes

WorkerOk(w, dr) ==
    /\ w.st = "off" => w = Off
    /\ w.st # "off" => w.cur # {}
    /\ w.cur \subseteq dr.rel /\ w.left \subseteq dr.rel
    /\ w.ask \subseteq w.cur /\ w.keep \subseteq w.cur \ w.ask
    /\ Cardinality(w.cur) > 1 /\ w.st \in {"wire", "sleep", "write"} =>
         dr.whole /\ w.cur = dr.fan
    /\ w.st = "write" => AnswerOk(w)
WorkerInv == \A d \in Device : WorkerOk(io[d], drain)

BatchInv == \A e \in Event : db.batchOf[e] # {} =>
    e \in db.batchOf[e] /\ \A f \in db.batchOf[e] : db.batchOf[f] = db.batchOf[e]

RowInv == \A e \in Event, d \in Device :
    /\ OneShotClosed(Row(e, d)) => Row(e, d).st = "suppressed"
    /\ Row(e, d).st = "none" => Row(e, d).shot = NoShot
    /\ Calls(io[d], e) => \/ Row(e, d).st \in {"pending", "expired"}
                          \/ OneShotClosed(Row(e, d)) /\ io[d].st # "go"

RevInv ==
    /\ \A s \in Source : db.policy[s].rev <= app.rev
    /\ \A e \in Event, d \in Device : Row(e, d).shot <= app.rev
    /\ \A r \in Revs : seen.spent[r] # {} => r <= app.rev

StInv == TypeInv /\ PhaseInv /\ KnownInv /\ WorkerInv /\ BatchInv /\ RowInv /\ RevInv

-----------------------------------------------------------------------------
\* The rows a drain may decide about.
Open(e, d) ==
    /\ Due(Row(e, d)) /\ e \in drain.rel
    /\ drain.phase \in {"triage", "send"} /\ io[d].st \in {"off", "go"}

\* What a step may do to a row, with what the worker then does.
RowMoved(e, d) ==
    LET r == db.row[e][d]
        n == db'.row[e][d] IN
    \/ /\ RowKept(r, n)
       /\ Calls(io'[d], e) => Calls(io[d], e)
       /\ Calls(io'[d], e) /\ io'[d].st = "go" =>
            io[d].st = "go" /\ (OneShotClosed(n) => OneShotClosed(r))
    \/ /\ r.st # "none" /\ n.st # "none" /\ n.shot = r.shot
       /\ OneShotClosed(n) => n.st = "suppressed"
       /\ ~ Calls(io'[d], e)
       /\ Settled(n) \/ ~ Over(e, d)
    \/ /\ Open(e, d) /\ DecidedOver(db, e, d, n)
       /\ Calls(io'[d], e) => n.st = "pending"

\* What follows for the life of a row and of its one-shot.
Traced(e, d) ==
    /\ Over(e, d) => Over(e, d)'
    /\ Row(e, d)'.st = "none" => Row(e, d).st = "none"
    /\ \/ Row(e, d)'.shot = Row(e, d).shot
       \/ Open(e, d) /\ Row(e, d)'.shot \in {NoShot, db.policy[PolicyOf[e]].rev}

\* A row that moves so is traced, and stays what RowInv says.
LEMMA RowTraced ==
    ASSUME StInv, NEW e \in Event, NEW d \in Device, RowMoved(e, d)
    PROVE  /\ Traced(e, d)
           /\ OneShotClosed(Row(e, d)') => Row(e, d)'.st = "suppressed"
           /\ Row(e, d)'.st = "none" => Row(e, d)'.shot = NoShot
           /\ Calls(io'[d], e) => \/ Row(e, d)'.st \in {"pending", "expired"}
                                  \/ OneShotClosed(Row(e, d)') /\ io'[d].st # "go"
<1> DEFINE r == db.row[e][d]
           n == db'.row[e][d]
<1>1. /\ OneShotClosed(r) => r.st = "suppressed"
      /\ r.st = "none" => r.shot = NoShot
      /\ Calls(io[d], e) => \/ r.st \in {"pending", "expired"}
                            \/ OneShotClosed(r) /\ io[d].st # "go"
    BY DEF StInv, RowInv, Row
<1>2. CASE /\ RowKept(r, n)
           /\ Calls(io'[d], e) => Calls(io[d], e)
           /\ Calls(io'[d], e) /\ io'[d].st = "go" =>
                io[d].st = "go" /\ (OneShotClosed(n) => OneShotClosed(r))
    <2>1. /\ n.shot = r.shot /\ (n.st = "none" <=> r.st = "none")
          /\ Settled(r) => Settled(n)
          /\ OneShotClosed(r) => OneShotClosed(n)
          /\ OneShotClosed(n) => n.st = "suppressed"
          /\ r.st \in {"pending", "expired"} =>
               n.st \in {"pending", "expired"} \/ OneShotClosed(n)
        BY <1>1, <1>2 DEF RowKept
    <2>2. ~ (OneShotClosed(r) /\ r.st \in {"pending", "expired"})
        BY <1>1
    <2> HIDE DEF r, n
    <2>3. Calls(io'[d], e) => \/ n.st \in {"pending", "expired"}
                              \/ OneShotClosed(n) /\ io'[d].st # "go"
        BY <1>1, <1>2, <2>1, <2>2
    <2>4. Over(e, d) => Over(e, d)'
        BY <1>2, <2>1 DEF Over, Row, r, n
    <2> QED BY <1>1, <2>1, <2>3, <2>4 DEF Traced, Row, r, n
<1>3. CASE /\ r.st # "none" /\ n.st # "none" /\ n.shot = r.shot
           /\ OneShotClosed(n) => n.st = "suppressed"
           /\ ~ Calls(io'[d], e)
           /\ Settled(n) \/ ~ Over(e, d)
    BY <1>3 DEF Traced, Over, Row
<1>4. CASE /\ Open(e, d) /\ DecidedOver(db, e, d, n)
           /\ Calls(io'[d], e) => n.st = "pending"
    <2>1. ~ Settled(r) /\ ~ OneShotClosed(r)
        BY <1>1, <1>4 DEF Open, Due, Settled, Unsettled, Row
    <2>2. /\ n.shot \in {r.shot, NoShot, db.policy[PolicyOf[e]].rev}
          /\ n.st \in {"pending", "queued", "suppressed"}
          /\ OneShotClosed(n) => n.st = "suppressed"
        BY <1>4, <2>1 DEF DecidedOver
    <2> QED BY <1>4, <2>1, <2>2 DEF Traced, Over, Row
<1> QED BY <1>2, <1>3, <1>4 DEF RowMoved

\* The same for all rows.
LEMMA RowsMove ==
    ASSUME StInv, \A e \in Event, d \in Device : RowMoved(e, d)
    PROVE  RowInv' /\ \A e \in Event, d \in Device : Traced(e, d)
BY RowTraced DEF RowInv, Row

-----------------------------------------------------------------------------
\* Revisions count from NoShot.
LEMMA RevNat ==
    ASSUME TypeInv PROVE app.rev \in Nat /\ NoShot <= app.rev
<1>1. app.rev \in Revs \cup {NoShot}
    BY DEF TypeInv, TypeOK, Apps
<1>2. \A r \in Revs \cup {NoShot} : r \in Nat /\ NoShot <= r
    BY StoreConstants DEF NoShot
<1> QED BY <1>1, <1>2, Zenon

\* No step but the user's brings a new revision.
LEMMA RevFollows ==
    ASSUME StInv, app'.rev = app.rev, seen'.spent = seen.spent,
           \A s \in Source : db'.policy[s].rev \in {db.policy[s].rev, NoShot},
           \A e \in Event, d \in Device : Traced(e, d)
    PROVE  RevInv'
<1>1. app.rev \in Nat /\ NoShot <= app.rev
    BY RevNat DEF StInv
<1>2. \A e \in Event : PolicyOf[e] \in Source
    BY StoreConstants
<1>3. /\ \A s \in Source : db.policy[s].rev <= app.rev
      /\ \A e \in Event, d \in Device : Row(e, d).shot <= app.rev
      /\ \A r \in Revs : seen.spent[r] # {} => r <= app.rev
    BY DEF StInv, RevInv
<1>4. ASSUME NEW e \in Event, NEW d \in Device PROVE Row(e, d)'.shot <= app.rev
    <2>1. \/ Row(e, d)'.shot = Row(e, d).shot
          \/ Row(e, d)'.shot = NoShot
          \/ Row(e, d)'.shot = db.policy[PolicyOf[e]].rev
        BY DEF Traced
    <2> QED BY <1>1, <1>2, <1>3, <2>1
<1>5. \A s \in Source : db'.policy[s].rev <= app.rev
    BY <1>1, <1>3
<1> QED BY <1>3, <1>4, <1>5 DEF RevInv

\* A worker not running meets WorkerOk in any drain.
LEMMA OffOk == \A dr : WorkerOk(Off, dr)
BY DEF WorkerOk, Off

\* A worker that goes on with what was left calls for nothing yet.
LEMMA Next1Ok ==
    ASSUME NEW S \in SUBSET Event, NEW dr, S \subseteq dr.rel
    PROVE  WorkerOk(Next1(S), dr) /\ \A e : ~ Calls(Next1(S), e)
<1>1. WorkerOk(Next1(S), dr)
    BY Next1Type DEF WorkerOk
<1>2. \A e : ~ Calls(Next1(S), e)
    BY Next1Type DEF Calls
<1> QED BY <1>1, <1>2

\* A worker not running calls for nothing.
LEMMA NoCalls ==
    ASSUME NEW w, w.st = "off" PROVE \A e : ~ Calls(w, e)
BY DEF Calls

-----------------------------------------------------------------------------
\* An acceptance of e is being written.
Accepted(w, e) == w.st = "write" /\ <<"sent", e>> \in w.writes

\* A device has the alert, its row does not show it yet, and it will.
Owed(e, d) ==
    Proven(db, e, d) /\ (drain.phase = "boot" \/ Accepted(io[d], e))

\* A restart has not yet decided anything about the rows it found.
Starting ==
    /\ drain.phase \in {"boot", "list", "pick", "triage"} /\ drain.rel = {}
    /\ \A e \in Event : Known(e) => e \in app.recovered

\* A step that neither receives an alert nor accepts, spends or proves one.
Steady ==
    /\ \A e \in Event, d \in Device :
         /\ Traced(e, d)
         /\ Row(e, d)'.st = "sent" => Row(e, d).st = "sent"
         /\ SentAsBatch(Row(e, d)') => SentAsBatch(Row(e, d))
         /\ db'.journal[e][d] \in {db.journal[e][d], "done"}
         /\ Owed(e, d) => Owed(e, d)'
         /\ Accepted(io'[d], e) /\ <<"log", e>> \notin io'[d].writes =>
              /\ Accepted(io[d], e) /\ <<"log", e>> \notin io[d].writes
              /\ io'[d].cur = io[d].cur /\ db'.journal[e][d] = db.journal[e][d]
         /\ Calls(io'[d], e) => Calls(io[d], e) \/ (Open(e, d) /\ drain.phase = "send")
    /\ \A e \in Event : db.batchOf[e] # {} => db'.batchOf[e] = db.batchOf[e]
    /\ db'.marker = db.marker
    /\ \A s \in Source : db'.policy[s].rev \in {db.policy[s].rev, NoShot, app.rev + 1}
    /\ drain.phase = "send" => /\ drain'.phase = "send" /\ drain'.rel = drain.rel
                               /\ drain.shots \subseteq drain'.shots
    /\ Starting => Starting' /\ drain.phase # "boot"
    /\ seen'.got = seen.got /\ seen'.spent = seen.spent

\* What users, devices, sessions and time do is steady.
LEMMA UserSteps ==
    ASSUME StInv, UserStep
    PROVE  StInv' /\ Steady
<1>1. UserEdit /\ TypeInv'
    BY UserEffect, UserType DEF StInv, TypeInv
<1>2. /\ drain' = drain /\ io' = io /\ seen' = seen /\ app'.rev = app.rev
      /\ Kept(db, db') /\ Quiet
      /\ \A f \in Event : Known(f) => Known(f)'
    BY <1>1 DEF UserEdit, Known
<1>3. PhaseInv' /\ WorkerInv' /\ BatchInv'
    BY <1>2 DEF StInv, PhaseInv, AllOff, WorkerInv, BatchInv, Kept
<1>4. KnownInv'
    <2>1. \A e \in Event, d \in Device : Row(e, d)'.st # "none" => Row(e, d).st # "none"
        BY <1>2 DEF Kept, RowKept, Row
    <2>2. \A e \in Event : InHand(e)' => InHand(e)
        BY <1>2 DEF InHand
    <2> QED BY <1>2, <2>1, <2>2 DEF StInv, KnownInv
<1>5. \A e \in Event, d \in Device : RowMoved(e, d)
    <2> SUFFICES ASSUME NEW e \in Event, NEW d \in Device PROVE RowMoved(e, d)
        OBVIOUS
    <2>1. io'[d] = io[d] /\ RowKept(db.row[e][d], db'.row[e][d])
        BY <1>2 DEF Kept
    <2>2. ~ (Calls(io[d], e) /\ io[d].st = "go")
        BY <1>2 DEF Quiet, Busy, StInv, PhaseInv, AllOff
    <2> QED BY <2>1, <2>2 DEF RowMoved
<1>6. RowInv' /\ \A e \in Event, d \in Device : Traced(e, d)
    BY <1>5, RowsMove
<1>7. RevInv'
    BY <1>2 DEF StInv, RevInv, Kept, RowKept, Row
<1>8. Steady
    <2>1. ~ Starting
        BY <1>2 DEF Starting, Quiet
    <2>2. \A e \in Event, d \in Device :
            /\ Row(e, d)'.st = "sent" => Row(e, d).st = "sent"
            /\ SentAsBatch(Row(e, d)') => SentAsBatch(Row(e, d))
        BY <1>2 DEF Kept, RowKept, Row
    <2>3. /\ db'.journal = db.journal /\ db'.batchOf = db.batchOf
          /\ db'.marker = db.marker /\ db'.policy = db.policy
        BY <1>2 DEF Kept
    <2>4. \A e \in Event, d \in Device : Owed(e, d) => Owed(e, d)'
        BY <1>2, <2>3 DEF Owed, Proven
    <2> QED BY <1>2, <1>6, <2>1, <2>2, <2>3, <2>4 DEF Steady
<1> QED BY <1>1, <1>3, <1>4, <1>6, <1>7, <1>8 DEF StInv

\* Steps of a drain without workers that at most close rows.
LEMMA QuietStep ==
    ASSUME StInv, TypeInv', PhaseInv', AllOff, io' = io, seen' = seen,
           Calm(db, db'), app'.rev = app.rev, app'.recovered = app.recovered,
           drain.phase \notin {"boot", "send"},
           Starting => /\ drain'.phase \in {"list", "pick", "triage"}
                       /\ drain'.rel = {},
           \A e \in Event : InHand(e)' => Known(e)
    PROVE  StInv' /\ Steady
<1>1. /\ Kept(db, db')
      /\ db'.journal = db.journal /\ db'.batchOf = db.batchOf
      /\ db'.marker = db.marker /\ db'.policy = db.policy
      /\ \A e \in Event : Known(e)' <=> Known(e)
    BY DEF Calm, Kept, Known
<1>2. \A e \in Event, d \in Device :
        /\ Row(e, d)'.st # "none" => Row(e, d).st # "none"
        /\ Row(e, d)'.shot = Row(e, d).shot
        /\ Row(e, d)'.st = "sent" => Row(e, d).st = "sent"
        /\ SentAsBatch(Row(e, d)') => SentAsBatch(Row(e, d))
    BY <1>1 DEF Kept, RowKept, Row
<1>3. \A d \in Device : io[d].st = "off" /\ io[d] = Off /\ io'[d] = Off
    BY DEF AllOff, StInv, WorkerInv, WorkerOk
<1>4. WorkerInv'
    BY <1>3, OffOk DEF WorkerInv
<1>5. \A e \in Event, d \in Device : ~ Calls(io'[d], e) /\ ~ Accepted(io'[d], e)
                                     /\ ~ Accepted(io[d], e)
    BY <1>3 DEF Calls, Accepted, Off
<1>6. \A e \in Event, d \in Device : RowMoved(e, d)
    BY <1>1, <1>5 DEF RowMoved, Kept
<1>7. RowInv' /\ \A e \in Event, d \in Device : Traced(e, d)
    BY <1>6, RowsMove
<1>8. KnownInv'
    BY <1>1, <1>2 DEF KnownInv, StInv
<1>9. BatchInv'
    BY <1>1 DEF StInv, BatchInv
<1>10. RevInv'
    BY <1>1, <1>2 DEF StInv, RevInv
<1>11. Starting => Starting'
    BY <1>1 DEF Starting
<1>12. \A e \in Event, d \in Device : ~ Owed(e, d)
    BY <1>5 DEF Owed
<1>13. Steady
    BY <1>1, <1>2, <1>5, <1>7, <1>11, <1>12 DEF Steady
<1> QED BY <1>4, <1>7, <1>8, <1>9, <1>10, <1>13 DEF StInv

\* The workers are well typed.
LEMMA WorkersType ==
    ASSUME TypeInv, db' \in Stores, app' \in Apps, drain' \in Drains,
           io' = io, seen' = seen
    PROVE  TypeInv'
BY DEF TypeInv, TypeOK

\* Outside the sending phase no worker runs.
LEMMA AloneOff ==
    ASSUME StInv, drain.phase # "send" PROVE AllOff
BY DEF StInv, PhaseInv

\* What a listing returns has been stored.
LEMMA DueKnown ==
    ASSUME StInv, NEW near \in SUBSET Event,
           \A e \in near : Known(e)
    PROVE  \A e \in PendingEvents(db, near) \cup PendingRows(db) : Known(e)
<1>1. \A e \in Event, d \in Device : Row(e, d).st # "none" => Known(e)
    BY DEF StInv, KnownInv
<1>2. \A e \in Event, d \in Device :
        Unsettled(db.row[e][d]) \/ RowReady(db.row[e][d]) => Known(e)
    BY <1>1 DEF Unsettled, RowReady, Row
<1>3. ASSUME NEW e \in PendingRows(db) PROVE Known(e)
    BY <1>2, <1>3 DEF PendingRows
<1>4. ASSUME NEW e \in PendingEvents(db, near) PROVE Known(e)
    <2>1. \A f \in Event : Live(db, f) \/ db.status[f] \in {"window", "deferred", "batched"}
                             => Known(f)
        BY DEF Live, Known
    <2>2. \/ e \in Event /\ (db.status[e] \in {"window", "deferred", "batched"})
          \/ e \in Event /\ (Live(db, e) \/ \E d \in Device : Unsettled(db.row[e][d]))
          \/ e \in near
        BY <1>4, Zenon DEF PendingEvents
    <2> QED BY <1>2, <2>1, <2>2
<1> QED BY <1>3, <1>4

\* Listing is steady.
LEMMA ListSteps ==
    ASSUME StInv, List
    PROVE  StInv' /\ Steady
<1>1. TypeInv
    BY DEF StInv
<1>2. /\ db' \in Stores /\ Calm(db, db') /\ app' \in Apps /\ drain' \in Drains
      /\ app'.rev = app.rev /\ app'.recovered = app.recovered
      /\ drain.phase = "list" /\ io' = io /\ seen' = seen
    BY <1>1, ListEffect DEF List, TypeInv, TypeOK, Apps
<1>3. AllOff
    BY <1>2, AloneOff
<1>4. PICK near \in SUBSET Event :
        /\ \A e \in near : Known(e)
        /\ LET due == (PendingEvents(db, near) \cup PendingRows(db)) \ db.old IN
           \E T \in SUBSET SUBSET due, L \in SUBSET due, A \in SUBSET due :
                   drain' = [drain EXCEPT !.phase = "pick", !.todo = T,
                                          !.later = L, !.again = A]
    BY <1>1, ListEffect DEF Known
<1>5. PICK due : /\ due = (PendingEvents(db, near) \cup PendingRows(db)) \ db.old
                 /\ \E T \in SUBSET SUBSET due, L \in SUBSET due, A \in SUBSET due :
                      drain' = [drain EXCEPT !.phase = "pick", !.todo = T,
                                          !.later = L, !.again = A]
    BY <1>4
<1>6. \A e \in due : Known(e)
    BY <1>4, <1>5, DueKnown
<1>7. PICK T \in SUBSET SUBSET due, L \in SUBSET due, A \in SUBSET due :
        drain' = [drain EXCEPT !.phase = "pick", !.todo = T, !.later = L, !.again = A]
    BY <1>5
<1>8. /\ drain'.phase = "pick" /\ drain'.todo = T /\ drain'.later = L
      /\ drain'.rel = drain.rel /\ drain'.whole = drain.whole
      /\ drain'.shots = drain.shots /\ drain'.cand = drain.cand
      /\ drain'.fans = drain.fans /\ drain'.fan = drain.fan
    BY <1>1, <1>7 DEF TypeInv, TypeOK, Drains
<1>9. PhaseInv'
    BY <1>2, <1>3, <1>8 DEF StInv, PhaseInv, AllOff
<1>10. \A e \in Event : InHand(e)' => Known(e)
    BY <1>2, <1>6, <1>8 DEF StInv, PhaseInv, InHand
<1>11. TypeInv'
    BY <1>1, <1>2, WorkersType
<1> QED BY <1>2, <1>3, <1>8, <1>9, <1>10, <1>11, QuietStep DEF Starting

\* Grouping the completions is steady.
LEMMA GroupSteps ==
    ASSUME StInv, GroupCompletions
    PROVE  StInv' /\ Steady
<1>1. TypeInv
    BY DEF StInv
<1>2. /\ db' \in Stores /\ Calm(db, db') /\ app' \in Apps /\ drain' \in Drains
      /\ app'.rev = app.rev /\ app'.recovered = app.recovered
      /\ drain.phase = "pick" /\ io' = io /\ seen' = seen
    BY <1>1, GroupEffect DEF GroupCompletions, TypeInv, TypeOK, Apps
<1>3. AllOff
    BY <1>2, AloneOff
<1>4. PICK T \in SUBSET SUBSET drain.later :
        drain' = [drain EXCEPT !.later = {}, !.todo = T]
    BY <1>1, GroupEffect
<1>5. /\ drain'.phase = "pick" /\ drain'.todo = T /\ drain'.later = {}
      /\ drain'.rel = drain.rel /\ drain'.whole = drain.whole
      /\ drain'.shots = drain.shots /\ drain'.cand = drain.cand
      /\ drain'.fans = drain.fans /\ drain'.fan = drain.fan
    BY <1>1, <1>2, <1>4 DEF TypeInv, TypeOK, Drains
<1>6. PhaseInv'
    BY <1>2, <1>3, <1>5 DEF StInv, PhaseInv, AllOff
<1>7. \A e \in Event : InHand(e)' => Known(e)
    <2>1. \A e \in Event : InHand(e)' => InHand(e)
        BY <1>5 DEF InHand
    <2> QED BY <2>1 DEF StInv, KnownInv
<1>8. TypeInv'
    BY <1>1, <1>2, WorkersType
<1> QED BY <1>2, <1>3, <1>5, <1>6, <1>7, <1>8, QuietStep DEF Starting

\* Taking a group is steady.
LEMMA ProcessSteps ==
    ASSUME StInv, NEW G \in drain.todo, Process(G)
    PROVE  StInv' /\ Steady
<1>1. TypeInv /\ TypeInv'
    BY ProcessType DEF StInv
<1>2. /\ Calm(db, db') /\ app' = app /\ drain.phase = "pick" /\ io' = io /\ seen' = seen
    BY CalmRefl DEF Process
<1>3. AllOff
    BY <1>2, AloneOff
<1>4. /\ drain'.phase = "triage" /\ drain'.todo = drain.todo \ {G}
      /\ drain'.later = drain.later /\ drain'.fan = G
      /\ drain'.rel = drain.rel /\ drain'.whole = drain.whole
      /\ drain'.shots = drain.shots /\ drain'.cand = drain.cand
      /\ drain'.fans = drain.fans
    BY <1>1 DEF Process, TypeInv, TypeOK, Drains
<1>5. PhaseInv'
    BY <1>2, <1>3, <1>4 DEF StInv, PhaseInv, AllOff
<1>6. \A e \in Event : InHand(e)' => Known(e)
    <2>1. \A e \in Event : InHand(e)' => InHand(e)
        BY <1>4 DEF InHand
    <2> QED BY <2>1 DEF StInv, KnownInv
<1> QED BY <1>1, <1>2, <1>3, <1>4, <1>5, <1>6, QuietStep DEF Starting

\* The first look at an event is steady.
LEMMA TriageSteps ==
    ASSUME StInv, Triage
    PROVE  StInv' /\ Steady
<1>1. TypeInv /\ drain.phase = "triage" /\ io' = io /\ seen' = seen
    BY DEF StInv, Triage
<1>2. \A e \in drain.fan : db.status[e] # "absent"
    BY <1>1 DEF StInv, KnownInv, InHand, Known, TypeInv, TypeOK, Drains
<1>3. /\ db' \in Stores /\ Calm(db, db') /\ app' \in Apps /\ drain' \in Drains
      /\ app'.rev = app.rev /\ app'.recovered = app.recovered
    BY <1>1, <1>2, TriageEffect DEF TypeInv, TypeOK, Apps
<1>4. AllOff
    BY <1>1, AloneOff
<1>5. PICK e \in drain.fan :
        \/ drain' = [drain EXCEPT !.fan = @ \ {e}]
        \/ /\ drain' = [drain EXCEPT !.fan = @ \ {e}, !.rel = @ \cup {e}]
           /\ e \notin app.recovered
    BY <1>1, <1>2, TriageEffect
<1>6. e \in Event /\ Known(e)
    BY <1>1, <1>2 DEF TypeInv, TypeOK, Drains, Known
<1>7. /\ drain'.phase = "triage" /\ drain'.todo = drain.todo
      /\ drain'.later = drain.later /\ drain'.fan = drain.fan \ {e}
      /\ \/ drain'.rel = drain.rel
         \/ drain'.rel = drain.rel \cup {e} /\ e \notin app.recovered
      /\ drain'.whole = drain.whole
      /\ drain'.shots = drain.shots /\ drain'.cand = drain.cand
      /\ drain'.fans = drain.fans
    BY <1>1, <1>5 DEF TypeInv, TypeOK, Drains
<1>8. PhaseInv'
    BY <1>1, <1>4, <1>7 DEF StInv, PhaseInv, AllOff
<1>9. \A f \in Event : InHand(f)' => Known(f)
    <2>1. \A f \in Event : InHand(f)' => InHand(f)
        BY <1>1, <1>5, <1>7 DEF InHand
    <2> QED BY <2>1 DEF StInv, KnownInv
<1>10. TypeInv'
    BY <1>1, <1>3, WorkersType
<1>11. Starting => drain'.rel = {}
    BY <1>6, <1>7 DEF Starting
<1> QED BY <1>1, <1>3, <1>4, <1>7, <1>8, <1>9, <1>10, <1>11, QuietStep

\* Settling is steady.
LEMMA SettleSteps ==
    ASSUME StInv, Settle
    PROVE  StInv' /\ Steady
<1>1. TypeInv
    BY DEF StInv
<1>2. \A e \in drain.rel : db.status[e] # "absent"
    BY <1>1 DEF StInv, KnownInv, InHand, Known, TypeInv, TypeOK, Drains
<1>3. /\ db' \in Stores /\ Calm(db, db') /\ app' \in Apps /\ drain' \in Drains
      /\ app'.rev = app.rev /\ app'.recovered = app.recovered
      /\ drain.phase = "settle" /\ io' = io /\ seen' = seen
      /\ drain' = [NoDrain EXCEPT !.phase = "pick", !.todo = drain.todo,
                                  !.later = drain.later, !.again = drain.again]
    BY <1>1, <1>2, SettleEffect DEF TypeInv, TypeOK, Apps
<1>4. AllOff
    BY <1>3, AloneOff
<1>5. /\ drain'.phase = "pick" /\ drain'.todo = drain.todo
      /\ drain'.later = drain.later /\ drain'.rel = {} /\ drain'.whole = FALSE
      /\ drain'.shots = {} /\ drain'.fans = {} /\ drain'.fan = {}
      /\ \A d \in Device : drain'.cand[d] = {}
    BY <1>3 DEF NoDrain
<1>6. PhaseInv'
    BY <1>3, <1>4, <1>5 DEF PhaseInv, AllOff
<1>7. \A e \in Event : InHand(e)' => Known(e)
    <2>1. \A e \in Event : InHand(e)' => InHand(e)
        BY <1>5 DEF InHand
    <2> QED BY <2>1 DEF StInv, KnownInv
<1>8. TypeInv'
    BY <1>1, <1>3, WorkersType
<1> QED BY <1>3, <1>4, <1>6, <1>7, <1>8, QuietStep DEF Starting

\* Deciding about rows is steady: only open rows change their one-shot.
LEMMA DecideSteps ==
    ASSUME StInv, DecideRows
    PROVE  StInv' /\ Steady
<1>1. TypeInv
    BY DEF StInv
<1>2. /\ db' \in Stores /\ drain' \in Drains
      /\ db'.policy = db.policy /\ db'.batchOf = db.batchOf
      /\ db'.marker = db.marker /\ db'.status = db.status
      /\ drain.phase = "triage" /\ app' = app /\ io' = io /\ seen' = seen
    BY <1>1, DecideEffect
<1>3. AllOff
    BY <1>2, AloneOff
<1>4. \A d \in Device : io[d] = Off /\ io'[d] = Off
    BY <1>2, <1>3 DEF AllOff, StInv, WorkerInv, WorkerOk
<1>5. \A e \in Event, d \in Device : ~ Calls(io'[d], e) /\ ~ Accepted(io'[d], e)
                                     /\ ~ Accepted(io[d], e)
    BY <1>4 DEF Calls, Accepted, Off
<1>6. ASSUME NEW e \in Event, NEW d \in Device
      PROVE  /\ RowMoved(e, d)
             /\ Row(e, d)'.st = "sent" => Row(e, d).st = "sent"
             /\ SentAsBatch(Row(e, d)') => SentAsBatch(Row(e, d))
             /\ Row(e, d)'.st # "none" => Row(e, d).st # "none" \/ e \in drain.rel
             /\ db'.journal[e][d] \in {db.journal[e][d], "done"}
    <2>1. /\ \/ db'.journal[e][d] = db.journal[e][d]
             \/ db'.journal[e][d] = "done"
          /\ \/ db'.row[e][d] = db.row[e][d]
             \/ /\ e \in drain.rel /\ Due(db.row[e][d])
                /\ DecidedOver(db, e, d, db'.row[e][d])
             \/ /\ db.row[e][d].st # "none" /\ ~ OneShotClosed(db.row[e][d])
                /\ db'.row[e][d].st = "expired" /\ db'.row[e][d].why = "plain"
                /\ db'.row[e][d].shot = db.row[e][d].shot
        BY <1>1, DecideEffect
    <2>2. CASE db'.row[e][d] = db.row[e][d]
        <3>1. RowKept(db.row[e][d], db'.row[e][d])
            BY <2>2 DEF RowKept
        <3> QED BY <1>5, <2>1, <2>2, <3>1 DEF RowMoved, Row
    <2>3. CASE /\ e \in drain.rel /\ Due(db.row[e][d])
               /\ DecidedOver(db, e, d, db'.row[e][d])
        <3>1. Open(e, d)
            BY <1>2, <1>4, <2>3 DEF Open, Row, Off
        <3>2. RowMoved(e, d)
            BY <1>5, <2>3, <3>1 DEF RowMoved
        <3> QED BY <2>1, <2>3, <3>2 DEF DecidedOver, Row, SentAsBatch
    <2>4. CASE /\ db.row[e][d].st # "none" /\ ~ OneShotClosed(db.row[e][d])
               /\ db'.row[e][d].st = "expired" /\ db'.row[e][d].why = "plain"
               /\ db'.row[e][d].shot = db.row[e][d].shot
        <3>1. Settled(db'.row[e][d]) /\ ~ OneShotClosed(db'.row[e][d])
            BY <2>4 DEF Settled, Unsettled, OneShotClosed
        <3>2. RowMoved(e, d)
            BY <1>5, <2>4, <3>1 DEF RowMoved
        <3> QED BY <2>1, <2>4, <3>2 DEF Row, SentAsBatch
    <2> QED BY <2>1, <2>2, <2>3, <2>4
<1>7. RowInv' /\ \A e \in Event, d \in Device : Traced(e, d)
    BY <1>6, RowsMove
<1>8. PICK C \in [Device -> SUBSET drain.rel] :
        drain' = [drain EXCEPT
                   !.phase = IF drain.rel = {} THEN "pick" ELSE "spread", !.cand = C]
    BY <1>1, DecideEffect
<1>9. /\ drain'.phase = IF drain.rel = {} THEN "pick" ELSE "spread"
      /\ drain'.cand = C
      /\ drain'.todo = drain.todo
      /\ drain'.later = drain.later /\ drain'.fan = drain.fan
      /\ drain'.rel = drain.rel /\ drain'.whole = drain.whole
      /\ drain'.shots = drain.shots /\ drain'.fans = drain.fans
    BY <1>1, <1>8 DEF TypeInv, TypeOK, Drains
<1>10. PhaseInv'
    BY <1>2, <1>3, <1>9 DEF StInv, PhaseInv, AllOff
<1>11. KnownInv'
    <2>1. \A e \in Event : InHand(e)' => InHand(e)
        BY <1>9 DEF InHand
    <2>2. \A e \in Event : e \in drain.rel => Known(e)
        BY DEF StInv, KnownInv, InHand
    <2>3. \A e \in Event : Known(e)' <=> Known(e)
        BY <1>2 DEF Known
    <2> QED BY <1>6, <2>1, <2>2, <2>3 DEF StInv, KnownInv
<1>12. WorkerInv' /\ BatchInv'
    BY <1>2, <1>4, OffOk DEF StInv, WorkerInv, BatchInv
<1>13. RevInv'
    BY <1>1, <1>2, <1>7, RevFollows
<1>14. Starting => Starting'
    BY <1>2, <1>9 DEF Starting, Known
<1>15. \A e \in Event, d \in Device : ~ Owed(e, d)
    BY <1>2, <1>5 DEF Owed
<1>16. Steady
    BY <1>2, <1>5, <1>6, <1>7, <1>14, <1>15 DEF Steady
<1>17. TypeInv'
    BY <1>1, <1>2, WorkersType DEF TypeInv, TypeOK
<1> QED BY <1>7, <1>10, <1>11, <1>12, <1>13, <1>16, <1>17 DEF StInv

\* Starting a group of calls is steady.
LEMMA StartFanSteps ==
    ASSUME StInv, NEW g \in drain.fans, StartFan(g)
    PROVE  StInv' /\ Steady
<1>1. TypeInv /\ g \in SUBSET Event /\ g \subseteq drain.rel
    BY DEF StInv, PhaseInv, TypeInv, TypeOK, Drains
<1>2. \A e \in g : db.status[e] # "absent"
    BY <1>1 DEF StInv, KnownInv, InHand, Known
<1>3. /\ db' \in Stores /\ drain' \in Drains /\ io' \in [Device -> Workers]
      /\ db'.row = db.row /\ db'.policy = db.policy
      /\ db'.marker = db.marker /\ db'.journal = db.journal
      /\ \A e \in Event : Known(e)' <=> Known(e)
      /\ \A d \in Device :
           LET mine == drain.cand[d] \cap g IN
           io'[d] = IF mine = {} THEN Off
                    ELSE [Off EXCEPT !.st = "go", !.cur = mine, !.ask = mine]
      /\ drain.phase = "send" /\ AllOff /\ app' = app /\ seen' = seen
    BY <1>1, <1>2, StartFanEffect DEF Known
<1>4. PICK new \in BOOLEAN :
        /\ new => \A e \in g : db.batchOf[e] = {}
        /\ \A e \in Event : db'.batchOf[e] = IF new /\ e \in g THEN g
                                             ELSE db.batchOf[e]
        /\ drain' = [drain EXCEPT !.fans = @ \ {g}, !.fan = g,
              !.whole = new \/ {db.batchOf[e] : e \in g} \ {{}} = {g}]
    BY <1>1, <1>2, StartFanEffect
<1>5. /\ drain'.phase = "send" /\ drain'.cand = drain.cand
      /\ drain'.todo = drain.todo /\ drain'.later = drain.later
      /\ drain'.fan = g /\ drain'.rel = drain.rel
      /\ drain'.whole = (new \/ {db.batchOf[e] : e \in g} \ {{}} = {g})
      /\ drain'.shots = drain.shots /\ drain'.fans = drain.fans \ {g}
    BY <1>1, <1>3, <1>4 DEF TypeInv, TypeOK, Drains
<1>6. \A d \in Device :
        /\ WorkerOk(io'[d], drain')
        /\ io'[d].st \in {"off", "go"} /\ io'[d].keep = {} /\ io'[d].n = 0
    <2> SUFFICES ASSUME NEW d \in Device
                 PROVE  /\ WorkerOk(io'[d], drain')
                        /\ io'[d].st \in {"off", "go"} /\ io'[d].keep = {} /\ io'[d].n = 0
        OBVIOUS
    <2> DEFINE mine == drain.cand[d] \cap g
    <2>1. mine \subseteq drain.rel
        BY DEF StInv, PhaseInv
    <2>2. CASE mine = {}
        <3>1. io'[d] = Off
            BY <1>3, <2>2
        <3> QED BY <3>1, OffOk DEF Off
    <2>3. CASE mine # {}
        <3>1. io'[d] = [Off EXCEPT !.st = "go", !.cur = mine, !.ask = mine]
            BY <1>3, <2>3
        <3> HIDE DEF mine
        <3>2. io'[d] = [st |-> "go", cur |-> mine, ask |-> mine, keep |-> {},
                        left |-> {}, n |-> 0, writes |-> {}]
            BY <3>1 DEF Off
        <3> QED BY <1>5, <2>1, <2>3, <3>2 DEF WorkerOk
    <2> QED BY <2>2, <2>3
<1>7. WorkerInv'
    BY <1>6 DEF WorkerInv
<1>8. TypeInv'
    <2>1. \A d \in Device : io'[d].n <= Quick
        BY <1>6, OutboxConstants
    <2> QED BY <1>1, <1>3, <2>1 DEF TypeInv, TypeOK
<1>9. BatchInv'
    <2>1. ASSUME NEW e \in Event, db'.batchOf[e] # {}
          PROVE  /\ e \in db'.batchOf[e]
                 /\ \A f \in db'.batchOf[e] : db'.batchOf[f] = db'.batchOf[e]
        <3>1. CASE new /\ e \in g
            <4>1. db'.batchOf[e] = g /\ \A f \in g : db'.batchOf[f] = g
                BY <1>1, <1>4, <3>1
            <4> QED BY <3>1, <4>1
        <3>2. CASE ~ (new /\ e \in g)
            <4>1. db'.batchOf[e] = db.batchOf[e]
                BY <1>4, <3>2
            <4>2. /\ e \in db.batchOf[e] /\ db.batchOf[e] \subseteq Event
                  /\ \A f \in db.batchOf[e] : db.batchOf[f] = db.batchOf[e]
                BY <1>1, <2>1, <4>1 DEF StInv, BatchInv, TypeInv, TypeOK, Stores
            <4>3. \A f \in db.batchOf[e] : ~ (new /\ f \in g)
                BY <1>4, <2>1, <4>1, <4>2
            <4> QED BY <1>4, <4>1, <4>2, <4>3
        <3> QED BY <3>1, <3>2
    <2> QED BY <2>1 DEF BatchInv
<1>10. drain'.whole => \A e \in drain'.fan : db'.batchOf[e] = drain'.fan
    <2>1. CASE new
        BY <1>1, <1>4, <1>5, <2>1
    <2>2. CASE ~ new /\ {db.batchOf[e] : e \in g} \ {{}} = {g}
        <3>1. PICK f \in g : db.batchOf[f] = g
            BY <2>2
        <3>2. \A e \in g : db.batchOf[e] = g
            BY <1>1, <3>1 DEF StInv, BatchInv
        <3> QED BY <1>1, <1>4, <1>5, <2>2, <3>2
    <2> QED BY <1>5, <2>1, <2>2
<1>11. PhaseInv'
    BY <1>5, <1>10 DEF StInv, PhaseInv
<1>12. KnownInv'
    <2>1. \A e \in Event : InHand(e)' => InHand(e)
        BY <1>5 DEF InHand
    <2> QED BY <1>3, <2>1 DEF StInv, KnownInv, Row
<1>13. \A e \in Event, d \in Device : /\ ~ Calls(io'[d], e) /\ ~ Accepted(io'[d], e)
                                      /\ ~ Accepted(io[d], e)
    BY <1>3, <1>6 DEF Calls, Accepted, AllOff
<1>14. \A e \in Event, d \in Device : RowMoved(e, d)
    <2>1. \A r : RowKept(r, r)
        BY DEF RowKept
    <2> QED BY <1>3, <1>13, <2>1 DEF RowMoved
<1>15. RowInv' /\ \A e \in Event, d \in Device : Traced(e, d)
    BY <1>14, RowsMove
<1>16. RevInv'
    BY <1>3 DEF StInv, RevInv, Row
<1>17. Steady
    <2>1. \A e \in Event : db.batchOf[e] # {} => db'.batchOf[e] = db.batchOf[e]
        BY <1>4
    <2>2. ~ Starting /\ \A e \in Event, d \in Device : ~ Owed(e, d)
        BY <1>3, <1>13 DEF Starting, Owed
    <2> QED BY <1>3, <1>5, <1>13, <1>15, <2>1, <2>2 DEF Steady, Row
<1> QED BY <1>7, <1>8, <1>9, <1>11, <1>12, <1>15, <1>16, <1>17 DEF StInv

\* What a step of one worker that leaves the tables alone does to it.
WorkerStep(d, w) ==
    /\ WorkerOk(w, drain)
    /\ \A e \in Event : /\ Calls(w, e) => Calls(io[d], e) /\ w.st # "go"
                        /\ Accepted(w, e) => <<"log", e>> \in w.writes

\* What a step without a commit does to its worker.
LEMMA CallWorker ==
    ASSUME StInv, NEW d \in Device, NEW w \in Workers,
           \/ /\ w = [io[d] EXCEPT !.st = "wire", !.n = w.n]
              /\ io[d].st = "go" /\ io[d].keep = io[d].cur
              /\ Cardinality(io[d].cur) > 1 =>
                   drain.whole /\ io[d].cur = drain.fan
           \/ io[d].st = "go" /\ \E S \in SUBSET (io[d].left \cup io[d].keep) :
                                    w = Next1(S)
           \/ io[d].st = "wire" /\ w = [io[d] EXCEPT !.st = "sleep"]
           \/ io[d].st = "sleep" /\ w = [io[d] EXCEPT !.st = "go",
                                           !.ask = io[d].cur, !.keep = {}]
           \/ /\ io[d].st = "wire"
              /\ w = [io[d] EXCEPT !.st = "write", !.writes = w.writes]
              /\ \/ w.writes \subseteq Refusals \X io[d].cur
                 \/ \E B \in SUBSET Event :
                    w.writes = ({"log", "sent"} \X io[d].cur)
                                \cup ({"mark"} \X (io[d].cur \cap Completion))
                                \cup ({"batch"} \X B)
    PROVE  WorkerStep(d, w)
<1>1. io[d] \in Workers /\ WorkerOk(io[d], drain)
    BY DEF StInv, TypeInv, TypeOK, WorkerInv
<1>2. CASE /\ w = [io[d] EXCEPT !.st = "wire", !.n = w.n]
           /\ io[d].st = "go" /\ io[d].keep = io[d].cur
           /\ Cardinality(io[d].cur) > 1 =>
                drain.whole /\ io[d].cur = drain.fan
    <2>1. /\ w.st = "wire" /\ w.cur = io[d].cur /\ w.ask = io[d].ask
          /\ w.keep = io[d].keep /\ w.left = io[d].left
        BY <1>1, <1>2 DEF Workers
    <2>2. WorkerOk(w, drain)
        BY <1>1, <1>2, <2>1 DEF WorkerOk
    <2>3. \A e : Calls(w, e) => Calls(io[d], e)
        BY <1>2, <2>1 DEF Calls
    <2> QED BY <2>1, <2>2, <2>3 DEF WorkerStep, Accepted
<1>3. CASE io[d].st = "go" /\ \E S \in SUBSET (io[d].left \cup io[d].keep) :
                                  w = Next1(S)
    <2>1. PICK S \in SUBSET (io[d].left \cup io[d].keep) : w = Next1(S)
        BY <1>3
    <2>2. S \in SUBSET Event /\ S \subseteq drain.rel
        BY <1>1 DEF WorkerOk, Workers
    <2>3. w.st \in {"off", "go"}
        BY <2>1, <2>2, Next1Type
    <2> QED BY <2>1, <2>2, <2>3, Next1Ok DEF WorkerStep, Accepted
<1>4. CASE io[d].st = "wire" /\ w = [io[d] EXCEPT !.st = "sleep"]
    <2>1. /\ w.st = "sleep" /\ w.cur = io[d].cur /\ w.ask = io[d].ask
          /\ w.keep = io[d].keep /\ w.left = io[d].left
        BY <1>1, <1>4 DEF Workers
    <2>2. WorkerOk(w, drain)
        BY <1>1, <1>4, <2>1 DEF WorkerOk
    <2> QED BY <2>1, <2>2 DEF WorkerStep, Accepted, Calls
<1>5. CASE io[d].st = "sleep" /\ w = [io[d] EXCEPT !.st = "go",
                                        !.ask = io[d].cur, !.keep = {}]
    <2>1. /\ w.st = "go" /\ w.cur = io[d].cur /\ w.ask = io[d].cur
          /\ w.keep = {} /\ w.left = io[d].left
        BY <1>1, <1>5 DEF Workers
    <2>2. WorkerOk(w, drain)
        BY <1>1, <1>5, <2>1 DEF WorkerOk
    <2> QED BY <2>1, <2>2 DEF WorkerStep, Accepted, Calls
<1>6. CASE /\ io[d].st = "wire"
           /\ w = [io[d] EXCEPT !.st = "write", !.writes = w.writes]
           /\ \/ w.writes \subseteq Refusals \X io[d].cur
              \/ \E B \in SUBSET Event :
                 w.writes = ({"log", "sent"} \X io[d].cur)
                             \cup ({"mark"} \X (io[d].cur \cap Completion))
                             \cup ({"batch"} \X B)
    <2>1. /\ w.st = "write" /\ w.cur = io[d].cur /\ w.ask = io[d].ask
          /\ w.keep = io[d].keep /\ w.left = io[d].left
        BY <1>1, <1>6 DEF Workers
    <2> DEFINE Answers == /\ AnswerOk(w)
                          /\ \A e, k : <<k, e>> \in w.writes /\ k \in Owing => e \in w.cur
                          /\ \A e : <<"sent", e>> \in w.writes => <<"log", e>> \in w.writes
    <2>2. ASSUME w.writes \subseteq Refusals \X io[d].cur
          PROVE  Answers
        <3>1. \A x \in w.writes : x[1] \in Refusals /\ x[2] \in w.cur
            BY <2>1, <2>2 DEF Refusals
        <3>2. \A e, k : <<k, e>> \in w.writes => k \in Refusals /\ e \in w.cur
            BY <2>1, <2>2 DEF Refusals
        <3> QED BY <3>1, <3>2 DEF AnswerOk, Refusals
    <2>3. ASSUME NEW B \in SUBSET Event,
                 w.writes = ({"log", "sent"} \X io[d].cur)
                             \cup ({"mark"} \X (io[d].cur \cap Completion))
                             \cup ({"batch"} \X B)
          PROVE  Answers
        <3>1. \A x \in w.writes : x[1] \notin Refusals /\ (x[1] # "batch" => x[2] \in w.cur)
            BY <2>1, <2>3 DEF Refusals
        <3>2. \A e, k : <<k, e>> \in w.writes /\ k \in Owing => e \in w.cur
            BY <2>1, <2>3 DEF Owing, Refusals
        <3>3. \A e : e \in io[d].cur => <<"log", e>> \in w.writes /\ <<"sent", e>> \in w.writes
            BY <2>3
        <3>4. \A e : <<"sent", e>> \in w.writes => e \in io[d].cur
            BY <2>3
        <3>5. \A e \in Event : <<"log", e>> \in w.writes =>
                  \A f \in w.cur : <<"sent", f>> \in w.writes
            BY <2>1, <3>3
        <3> QED BY <3>1, <3>2, <3>3, <3>4, <3>5 DEF AnswerOk
    <2>4. Answers
        BY <1>6, <2>2, <2>3, Zenon
    <2>5. WorkerOk(w, drain)
        BY <1>1, <1>6, <2>1, <2>4 DEF WorkerOk
    <2>6. \A e : Calls(w, e) => Calls(io[d], e)
        BY <1>6, <2>1, <2>4 DEF Calls
    <2> QED BY <2>1, <2>4, <2>5, <2>6 DEF WorkerStep, Accepted
<1> QED BY <1>2, <1>3, <1>4, <1>5, <1>6

\* A step of one worker leaves the others.
LEMMA OneWorker ==
    ASSUME StInv, NEW d \in Device, NEW w, io' = [io EXCEPT ![d] = w]
    PROVE  /\ io'[d] = w /\ \A c \in Device : c # d => io'[c] = io[c]
BY DEF StInv, TypeInv, TypeOK

\* A worker is busy only in the sending phase of a pass.
LEMMA Sending ==
    ASSUME StInv, NEW d \in Device, io[d].st # "off"
    PROVE  drain.phase = "send"
BY DEF StInv, PhaseInv, AllOff

\* Calls, retries and answers are steady: nothing is written yet.
LEMMA CallSteps ==
    ASSUME StInv, NEW d \in Device, CallStep(d)
    PROVE  StInv' /\ Steady
<1>1. TypeInv /\ WorkerOk(io[d], drain)
    BY DEF StInv, WorkerInv
<1>2. CallMade(d)
    <2>1. io[d].st # "off" => io[d].cur # {}
        BY <1>1 DEF WorkerOk
    <2> QED BY <1>1, <2>1, CallEffect
<1>3. /\ db' = db /\ drain' = drain /\ seen' = seen /\ app' \in Apps
      /\ app'.rev = app.rev /\ app'.recovered = app.recovered
      /\ io[d].st \in {"go", "sleep", "wire"}
    BY <1>2 DEF CallMade
<1>4. PICK w \in Workers :
         /\ io' = [io EXCEPT ![d] = w]
         /\ w.st \in {"go", "sleep"} => w.n <= Quick
         /\ WorkerStep(d, w)
    <2>1. PICK w \in Workers :
         /\ io' = [io EXCEPT ![d] = w]
         /\ w.st \in {"go", "sleep"} => w.n <= Quick
         /\ \/ /\ w = [io[d] EXCEPT !.st = "wire", !.n = w.n]
               /\ io[d].st = "go" /\ io[d].keep = io[d].cur
               /\ Cardinality(io[d].cur) > 1 =>
                    drain.whole /\ io[d].cur = drain.fan
            \/ io[d].st = "go" /\ \E S \in SUBSET (io[d].left \cup io[d].keep) :
                                     w = Next1(S)
            \/ io[d].st = "wire" /\ w = [io[d] EXCEPT !.st = "sleep"]
            \/ io[d].st = "sleep" /\ w = [io[d] EXCEPT !.st = "go",
                                            !.ask = io[d].cur, !.keep = {}]
            \/ /\ io[d].st = "wire"
               /\ w = [io[d] EXCEPT !.st = "write", !.writes = w.writes]
               /\ \/ w.writes \subseteq Refusals \X io[d].cur
                  \/ \E B \in SUBSET Event :
                     w.writes = ({"log", "sent"} \X io[d].cur)
                                 \cup ({"mark"} \X (io[d].cur \cap Completion))
                                 \cup ({"batch"} \X B)
        BY <1>2, Zenon DEF CallMade
    <2>2. WorkerStep(d, w)
        BY <2>1, CallWorker
    <2> QED BY <2>1, <2>2
<1>5. io'[d] = w /\ \A c \in Device : c # d => io'[c] = io[c]
    BY <1>4, OneWorker
<1>6. drain.phase = "send"
    BY <1>3, Sending
<1>7. TypeInv'
    BY <1>1, <1>3, <1>4, <1>5 DEF TypeInv, TypeOK
<1>8. PhaseInv' /\ KnownInv' /\ BatchInv' /\ RevInv'
    <2>1. PhaseInv'
        BY <1>3, <1>6 DEF StInv, PhaseInv
    <2>2. KnownInv'
        BY <1>3 DEF StInv, KnownInv, Row, Known, InHand
    <2>3. BatchInv'
        BY <1>3 DEF StInv, BatchInv
    <2>4. RevInv'
        BY <1>3 DEF StInv, RevInv, Row
    <2> QED BY <2>1, <2>2, <2>3, <2>4
<1>9. WorkerInv'
    BY <1>3, <1>4, <1>5 DEF StInv, WorkerInv, WorkerStep
<1>10. ASSUME NEW e \in Event, NEW c \in Device
       PROVE  /\ RowMoved(e, c)
              /\ Calls(io'[c], e) => Calls(io[c], e)
              /\ Accepted(io'[c], e) /\ <<"log", e>> \notin io'[c].writes =>
                   Accepted(io[c], e) /\ io'[c] = io[c]
              /\ Owed(e, c) => Owed(e, c)'
    <2>1. RowKept(db.row[e][c], db'.row[e][c])
        BY <1>3 DEF RowKept
    <2>2. CASE c = d
        <3>1. ~ Owed(e, d)
            BY <1>3, <1>6 DEF Owed, Accepted
        <3> QED BY <1>4, <1>5, <2>1, <2>2, <3>1 DEF RowMoved, WorkerStep
    <2>3. CASE c # d
        <3>1. io'[c] = io[c]
            BY <1>5, <2>3
        <3>2. Owed(e, c) => Owed(e, c)'
            BY <1>3, <3>1 DEF Owed
        <3> QED BY <1>3, <2>1, <3>1, <3>2 DEF RowMoved
    <2> QED BY <2>2, <2>3
<1>11. RowInv' /\ \A e \in Event, c \in Device : Traced(e, c)
    BY <1>10, RowsMove
<1>12. Steady
    <2>1. ~ Starting
        BY <1>6 DEF Starting
    <2> QED BY <1>3, <1>6, <1>10, <1>11, <2>1 DEF Steady, Row
<1> QED BY <1>7, <1>8, <1>9, <1>11, <1>12 DEF StInv

\* The last look at an event is steady.
LEMMA LookSteps ==
    ASSUME StInv, NEW d \in Device, Look(d)
    PROVE  StInv' /\ Steady
<1>1. TypeInv /\ WorkerOk(io[d], drain) /\ io[d] \in Workers
    BY DEF StInv, WorkerInv, TypeInv, TypeOK
<1>2. /\ db' \in Stores /\ app' \in Apps /\ drain' \in Drains
      /\ app'.rev = app.rev /\ app'.recovered = app.recovered
      /\ io[d].st = "go" /\ seen' = seen
      /\ db'.policy = db.policy /\ db'.batchOf = db.batchOf
      /\ db'.marker = db.marker
      /\ \A f \in Event : Known(f)' <=> Known(f)
    BY <1>1, LookEffect DEF Known, TypeInv, TypeOK, Apps
<1>3. PICK e \in io[d].ask :
        \/ /\ io' = [io EXCEPT ![d].ask = @ \ {e}]
           /\ \A f \in Event, c \in Device :
                /\ RowKept(db.row[f][c], db'.row[f][c])
                /\ OneShotClosed(db'.row[f][c]) => OneShotClosed(db.row[f][c])
                /\ \/ db'.journal[f][c] = db.journal[f][c]
                   \/ c = d /\ db'.journal[f][c] = "done"
        \/ /\ Due(db.row[e][d])
           /\ DecidedOver(db, e, d, db'.row[e][d])
           /\ db'.journal = db.journal
           /\ \A f \in Event, c \in Device :
                f # e \/ c # d => db'.row[f][c] = db.row[f][c]
           /\ \/ io' = [io EXCEPT ![d].ask = @ \ {e}]
              \/ /\ io' = [io EXCEPT ![d].ask = @ \ {e}, ![d].keep = @ \cup {e}]
                 /\ Due(db'.row[e][d])
    BY <1>1, LookEffect
<1>4. drain.phase = "send"
    BY <1>2, Sending
<1>5. /\ drain'.phase = drain.phase /\ drain'.cand = drain.cand
      /\ drain'.todo = drain.todo /\ drain'.later = drain.later
      /\ drain'.fan = drain.fan /\ drain'.rel = drain.rel
      /\ drain'.whole = drain.whole
      /\ drain'.shots = drain.shots /\ drain'.fans = drain.fans
    <2>1. drain' = [drain EXCEPT !.cut = drain'.cut]
        BY <1>1, LookEffect
    <2> QED BY <1>1, <2>1 DEF TypeInv, TypeOK, Drains
<1>6. e \in Event /\ e \in drain.rel /\ e \notin io[d].keep
    BY <1>1, <1>3 DEF WorkerOk, Workers
<1> DEFINE Only == \A f \in Event, c \in Device :
                     /\ RowKept(db.row[f][c], db'.row[f][c])
                     /\ OneShotClosed(db'.row[f][c]) => OneShotClosed(db.row[f][c])
                     /\ \/ db'.journal[f][c] = db.journal[f][c]
                        \/ c = d /\ db'.journal[f][c] = "done"
           Turn == /\ Due(db.row[e][d])
                   /\ DecidedOver(db, e, d, db'.row[e][d])
                   /\ db'.journal = db.journal
                   /\ \A f \in Event, c \in Device :
                        f # e \/ c # d => db'.row[f][c] = db.row[f][c]
<1>7. PICK keep \in {io[d].keep, io[d].keep \cup {e}} :
        /\ io' = [io EXCEPT ![d] = [io[d] EXCEPT !.ask = io[d].ask \ {e}, !.keep = keep]]
        /\ \/ Only /\ keep = io[d].keep
           \/ Turn /\ (keep # io[d].keep => Due(db'.row[e][d]))
    <2> HIDE DEF Only, Turn
    <2>1. io \in [Device -> Workers]
        BY <1>1 DEF TypeInv, TypeOK
    <2>2. CASE io' = [io EXCEPT ![d].ask = @ \ {e}] /\ (Only \/ Turn)
        <3>1. io' = [io EXCEPT ![d] = [io[d] EXCEPT !.ask = io[d].ask \ {e},
                                                    !.keep = io[d].keep]]
            BY <1>1, <2>1, <2>2 DEF Workers
        <3> QED BY <2>2, <3>1
    <2>3. CASE /\ io' = [io EXCEPT ![d].ask = @ \ {e}, ![d].keep = @ \cup {e}]
               /\ Turn /\ Due(db'.row[e][d])
        <3>1. io' = [io EXCEPT ![d] = [io[d] EXCEPT !.ask = io[d].ask \ {e},
                                                    !.keep = io[d].keep \cup {e}]]
            BY <1>1, <2>1, <2>3 DEF Workers
        <3> QED BY <2>3, <3>1
    <2> QED BY <1>3, <2>2, <2>3 DEF Only, Turn
<1> DEFINE w == [io[d] EXCEPT !.ask = io[d].ask \ {e}, !.keep = keep]
<1>8. /\ w \in Workers /\ w.st = "go" /\ w.cur = io[d].cur /\ w.left = io[d].left
      /\ w.ask = io[d].ask \ {e} /\ w.keep = keep /\ w.n = io[d].n
    BY <1>1, <1>2, <1>3, <1>6, <1>7 DEF Workers
<1>9. WorkerOk(w, drain')
    BY <1>1, <1>2, <1>3, <1>5, <1>6, <1>7, <1>8 DEF WorkerOk
<1>10. io'[d] = w /\ \A c \in Device : c # d => io'[c] = io[c]
    BY <1>7, OneWorker
<1> HIDE DEF w
<1>11. TypeInv'
    <2>1. io' \in [Device -> Workers]
        BY <1>1, <1>7, <1>8 DEF w, TypeInv, TypeOK
    <2> QED BY <1>1, <1>2, <1>8, <1>10, <2>1 DEF TypeInv, TypeOK
<1>12. PhaseInv' /\ WorkerInv' /\ BatchInv'
    <2>1. PhaseInv'
        BY <1>2, <1>4, <1>5 DEF StInv, PhaseInv
    <2>2. BatchInv'
        BY <1>2 DEF StInv, BatchInv
    <2>3. WorkerInv'
        BY <1>5, <1>9, <1>10 DEF StInv, WorkerInv, WorkerOk
    <2> QED BY <2>1, <2>2, <2>3
<1>13. \A f : Calls(w, f) => Calls(io[d], f) \/ (f = e /\ keep # io[d].keep)
    BY <1>2, <1>8 DEF Calls
<1>14. ASSUME NEW f \in Event, NEW c \in Device
       PROVE  /\ RowMoved(f, c)
              /\ Row(f, c)'.st = "sent" => Row(f, c).st = "sent"
              /\ SentAsBatch(Row(f, c)') => SentAsBatch(Row(f, c))
              /\ Row(f, c)'.st # "none" => Row(f, c).st # "none" \/ f \in drain.rel
              /\ db'.journal[f][c] \in {db.journal[f][c], "done"}
              /\ c # d => db'.journal[f][c] = db.journal[f][c]
              /\ Calls(io'[c], f) => Calls(io[c], f) \/ Open(f, c)
    <2>1. CASE f = e /\ c = d /\ Due(db.row[e][d]) /\ DecidedOver(db, e, d, db'.row[e][d])
                 /\ db'.journal = db.journal
        <3>1. Open(e, d)
            BY <1>2, <1>4, <1>6, <2>1 DEF Open, Row
        <3>2. ~ OneShotClosed(db.row[e][d]) /\ ~ Calls(io[d], e)
            BY <1>2, <1>6, <2>1 DEF StInv, RowInv, Row, Due, Calls
        <3>3. Calls(io'[d], e) => db'.row[e][d].st = "pending"
            BY <1>7, <1>10, <1>13, <2>1, <3>2 DEF DecidedOver
        <3>4. RowMoved(e, d)
            BY <2>1, <3>1, <3>3 DEF RowMoved
        <3>5. db'.row[e][d].st \in {"pending", "queued", "suppressed"}
            BY <2>1, <3>2 DEF DecidedOver
        <3> QED BY <1>6, <2>1, <3>1, <3>4, <3>5 DEF Row, SentAsBatch
    <2>2. CASE /\ RowKept(db.row[f][c], db'.row[f][c])
               /\ OneShotClosed(db'.row[f][c]) => OneShotClosed(db.row[f][c])
               /\ \/ db'.journal[f][c] = db.journal[f][c]
                  \/ c = d /\ db'.journal[f][c] = "done"
               /\ Calls(io'[c], f) => Calls(io[c], f)
        <3>1. io'[c].st = io[c].st
            BY <1>2, <1>8, <1>10
        <3>2. RowMoved(f, c)
            BY <2>2, <3>1 DEF RowMoved
        <3> QED BY <2>2, <3>2 DEF RowKept, Row
    <2>3. RowKept(db.row[f][c], db.row[f][c])
        BY DEF RowKept
    <2>4. CASE f # e \/ c # d
        <3>1. Calls(io'[c], f) => Calls(io[c], f)
            BY <1>10, <1>13, <2>4
        <3>2. \/ /\ RowKept(db.row[f][c], db'.row[f][c])
                 /\ OneShotClosed(db'.row[f][c]) => OneShotClosed(db.row[f][c])
                 /\ \/ db'.journal[f][c] = db.journal[f][c]
                    \/ c = d /\ db'.journal[f][c] = "done"
              \/ db'.row[f][c] = db.row[f][c] /\ db'.journal[f][c] = db.journal[f][c]
            BY <1>3, <2>4
        <3> QED BY <2>2, <2>3, <3>1, <3>2
    <2>5. CASE f = e /\ c = d
        <3>1. keep = io[d].keep => (Calls(io'[d], e) => Calls(io[d], e))
            BY <1>10, <1>13
        <3>2. CASE Only /\ keep = io[d].keep
            BY <2>2, <2>5, <3>1, <3>2
        <3>3. CASE Turn
            BY <2>1, <2>5, <3>3
        <3> QED BY <1>7, <3>2, <3>3
    <2> QED BY <2>4, <2>5
<1>15. RowInv' /\ \A f \in Event, c \in Device : Traced(f, c)
    BY <1>14, RowsMove
<1>16. RevInv'
    BY <1>2, <1>15, RevFollows
<1>17. KnownInv'
    <2>1. \A f \in Event : InHand(f)' => InHand(f)
        BY <1>5 DEF InHand
    <2>2. \A f \in Event : f \in drain.rel => Known(f)
        BY DEF StInv, KnownInv, InHand
    <2> QED BY <1>2, <1>14, <2>1, <2>2 DEF StInv, KnownInv
<1>18. ASSUME NEW f \in Event, NEW c \in Device
       PROVE  /\ Accepted(io'[c], f) => Accepted(io[c], f) /\ io'[c] = io[c] /\ c # d
              /\ Owed(f, c) => Owed(f, c)'
    <2>1. c = d => ~ Accepted(io'[c], f) /\ ~ Accepted(io[c], f)
        BY <1>2, <1>8, <1>10 DEF Accepted
    <2>2. c # d => /\ io'[c] = io[c]
                   /\ \A g \in Event : db'.journal[g][c] = db.journal[g][c]
        BY <1>10, <1>14
    <2>3. Owed(f, c) => Owed(f, c)'
        BY <1>2, <1>4, <2>1, <2>2 DEF Owed, Proven
    <2> QED BY <2>1, <2>2, <2>3
<1>19. Steady
    <2>1. ~ Starting
        BY <1>4 DEF Starting
    <2> QED BY <1>2, <1>4, <1>5, <1>14, <1>15, <1>18, <2>1 DEF Steady
<1> QED BY <1>11, <1>12, <1>15, <1>16, <1>17, <1>19 DEF StInv

\* Skipping a device that is gone is steady.
LEMMA SkipSteps ==
    ASSUME StInv, NEW d \in Device, Skip(d)
    PROVE  StInv' /\ Steady
<1>1. TypeInv /\ WorkerOk(io[d], drain) /\ io[d] \in Workers
    BY DEF StInv, WorkerInv, TypeInv, TypeOK
<1>2. /\ db' \in Stores
      /\ Receipted(db, db', io[d].cur \X {d}, "expired", "none", "plain")
      /\ io' = [io EXCEPT ![d] = Next1(io[d].left)]
      /\ io[d].st = "go" /\ app' = app /\ drain' = drain /\ seen' = seen
    BY <1>1, SkipEffect
<1>3. drain.phase = "send"
    BY <1>2, Sending
<1>4. io[d].left \in SUBSET Event /\ io[d].left \subseteq drain.rel
    BY <1>1 DEF WorkerOk, Workers
<1> DEFINE w == Next1(io[d].left)
<1>5. /\ w \in Workers /\ WorkerOk(w, drain) /\ \A e : ~ Calls(w, e)
      /\ w.st \in {"off", "go"} /\ w.n = 0
    BY <1>4, Next1Ok, Next1Type
<1> HIDE DEF w
<1>6. io'[d] = w /\ \A c \in Device : c # d => io'[c] = io[c]
    BY <1>2, OneWorker DEF w
<1>7. TypeInv'
    <2>1. io' \in [Device -> Workers]
        BY <1>1, <1>2, <1>5 DEF w, TypeInv, TypeOK
    <2>2. \A c \in Device : io'[c].st \in {"go", "sleep"} => io'[c].n <= Quick
        BY <1>1, <1>5, <1>6, OutboxConstants DEF TypeInv
    <2> QED BY <1>1, <1>2, <2>1, <2>2 DEF TypeInv, TypeOK
<1>8. /\ db'.status = db.status /\ db'.policy = db.policy
      /\ db'.batchOf = db.batchOf /\ db'.marker = db.marker
    BY <1>2 DEF Receipted
<1>9. ASSUME NEW e \in Event, NEW c \in Device
      PROVE  \/ /\ db'.row[e][c] = db.row[e][c]
                /\ db'.journal[e][c] = db.journal[e][c]
             \/ /\ c = d /\ db.row[e][c].st # "none"
                /\ db'.row[e][c].st = "expired" /\ db'.row[e][c].why = "plain"
                /\ db'.row[e][c].shot = db.row[e][c].shot
                /\ db'.journal[e][c] \in {db.journal[e][c], "done"}
    <2>1. <<e, c>> \in io[d].cur \X {d} => c = d
        OBVIOUS
    <2> QED BY <1>2, <2>1 DEF Receipted, Stored
<1>10. ASSUME NEW e \in Event, NEW c \in Device
       PROVE  /\ RowMoved(e, c)
              /\ Row(e, c)'.st = "sent" => Row(e, c).st = "sent"
              /\ SentAsBatch(Row(e, c)') => SentAsBatch(Row(e, c))
              /\ Row(e, c)'.st # "none" => Row(e, c).st # "none"
              /\ db'.journal[e][c] \in {db.journal[e][c], "done"}
              /\ c # d => db'.journal[e][c] = db.journal[e][c]
              /\ Calls(io'[c], e) => Calls(io[c], e) /\ c # d
    <2>1. Calls(io'[c], e) => Calls(io[c], e) /\ c # d /\ io'[c] = io[c]
        BY <1>5, <1>6
    <2>2. CASE /\ db'.row[e][c] = db.row[e][c]
               /\ db'.journal[e][c] = db.journal[e][c]
        <3>1. RowKept(db.row[e][c], db'.row[e][c])
            BY <2>2 DEF RowKept
        <3>2. RowMoved(e, c)
            BY <2>1, <2>2, <3>1 DEF RowMoved
        <3> QED BY <2>1, <2>2, <3>2 DEF Row
    <2>3. CASE /\ c = d /\ db.row[e][c].st # "none"
               /\ db'.row[e][c].st = "expired" /\ db'.row[e][c].why = "plain"
               /\ db'.row[e][c].shot = db.row[e][c].shot
               /\ db'.journal[e][c] \in {db.journal[e][c], "done"}
        <3>1. Settled(db'.row[e][c]) /\ ~ OneShotClosed(db'.row[e][c])
            BY <2>3 DEF Settled, Unsettled, OneShotClosed
        <3>2. RowMoved(e, c)
            BY <2>1, <2>3, <3>1 DEF RowMoved
        <3> QED BY <2>1, <2>3, <3>2 DEF Row, SentAsBatch
    <2> QED BY <1>9, <2>2, <2>3
<1>11. RowInv' /\ \A e \in Event, c \in Device : Traced(e, c)
    BY <1>10, RowsMove
<1>12. PhaseInv' /\ BatchInv'
    BY <1>2, <1>3, <1>8 DEF StInv, PhaseInv, BatchInv
<1>13. RevInv'
    BY <1>2, <1>8, <1>11, RevFollows
<1>14. WorkerInv'
    BY <1>2, <1>5, <1>6 DEF StInv, WorkerInv
<1>15. KnownInv'
    BY <1>2, <1>8, <1>10 DEF StInv, KnownInv, InHand, Known
<1>16. ASSUME NEW e \in Event, NEW c \in Device
       PROVE  /\ Accepted(io'[c], e) => Accepted(io[c], e) /\ io'[c] = io[c] /\ c # d
              /\ Owed(e, c) => Owed(e, c)'
    <2>1. c = d => ~ Accepted(io'[c], e) /\ ~ Accepted(io[c], e)
        BY <1>2, <1>5, <1>6 DEF Accepted
    <2>2. c # d => /\ io'[c] = io[c]
                   /\ \A g \in Event : db'.journal[g][c] = db.journal[g][c]
        BY <1>6, <1>10
    <2>3. Owed(e, c) => Owed(e, c)'
        BY <1>2, <1>3, <1>8, <2>1, <2>2 DEF Owed, Proven
    <2> QED BY <2>1, <2>2, <2>3
<1>17. Steady
    <2>1. ~ Starting
        BY <1>3 DEF Starting
    <2> QED BY <1>2, <1>3, <1>8, <1>10, <1>11, <1>16, <2>1 DEF Steady
<1> QED BY <1>7, <1>11, <1>12, <1>13, <1>14, <1>15, <1>17 DEF StInv

\* A user's setting closes rows, and brings at most one new revision.
LEMMA SetPolicySteps ==
    ASSUME StInv, NEW s \in Governing, NEW mode \in Modes, SetPolicy(s, mode)
    PROVE  StInv' /\ Steady
<1>1. TypeInv
    BY DEF StInv
<1> DEFINE rev == app.rev + 1
<1>2. /\ db' \in Stores /\ app' \in Apps
      /\ PolicyPut(db, db', s, mode, rev)
      /\ app'.rev = IF mode # "default" THEN rev ELSE app.rev
      /\ Quiet /\ drain' = drain /\ io' = io
      /\ seen'.got = seen.got /\ seen'.spent = seen.spent
      /\ seen' \in [got : SUBSET (Event \X Device), spent : [Revs -> SUBSET Event],
                    revoked : SUBSET (Event \X Device \X Revs)]
      /\ s \in Source
    <2> DEFINE mine == {e \in Event : PolicyOf[e] = s}
               granted == ({db.policy[s].rev}
                      \cup {db.row[e][d].shot : e \in mine, d \in Device}) \ {NoShot}
               new == {t \in mine \X Device \X granted : ~ ClosedInFlight(t[1], t[2])}
    <2>1. /\ db' \in Stores /\ app' \in Apps
          /\ PolicyPut(db, db', s, mode, rev)
          /\ app'.rev = IF mode # "default" THEN rev ELSE app.rev
          /\ Quiet /\ drain' = drain /\ io' = io /\ s \in Source
          /\ granted \subseteq Revs
          /\ seen' = IF mode \in {"default", "mute"}
                     THEN [seen EXCEPT !.revoked = @ \cup new] ELSE seen
        BY <1>1, SetPolicyEffect
    <2>2. new \subseteq Event \X Device \X Revs
        BY <2>1
    <2> HIDE DEF new, granted
    <2> QED BY <1>1, <2>1, <2>2 DEF TypeInv, TypeOK
<1>3. /\ db'.journal = db.journal /\ db'.batchOf = db.batchOf
      /\ db'.marker = db.marker
      /\ \A e \in Event : Known(e)' <=> Known(e)
      /\ \A e \in Event, d \in Device : RowKept(db.row[e][d], db'.row[e][d])
      /\ \A y \in Source : db'.policy[y].rev \in {db.policy[y].rev, NoShot, rev}
      /\ mode = "default" =>
           \A y \in Source : db'.policy[y].rev \in {db.policy[y].rev, NoShot}
    BY <1>2 DEF PolicyPut, Known
<1>4. TypeInv'
    BY <1>1, <1>2 DEF TypeInv, TypeOK
<1>5. PhaseInv' /\ WorkerInv' /\ BatchInv'
    BY <1>2, <1>3 DEF StInv, PhaseInv, AllOff, WorkerInv, BatchInv
<1>6. \A e \in Event, d \in Device :
        /\ Row(e, d)'.st # "none" => Row(e, d).st # "none"
        /\ Row(e, d)'.shot = Row(e, d).shot
        /\ Row(e, d)'.st = "sent" => Row(e, d).st = "sent"
        /\ SentAsBatch(Row(e, d)') => SentAsBatch(Row(e, d))
    BY <1>3 DEF RowKept, Row
<1>7. KnownInv'
    BY <1>2, <1>3, <1>6 DEF StInv, KnownInv, InHand
<1>8. \A e \in Event, d \in Device : RowMoved(e, d)
    <2> SUFFICES ASSUME NEW e \in Event, NEW d \in Device PROVE RowMoved(e, d)
        OBVIOUS
    <2>1. io'[d] = io[d] /\ RowKept(db.row[e][d], db'.row[e][d])
        BY <1>2, <1>3
    <2>2. ~ (Calls(io[d], e) /\ io[d].st = "go")
        BY <1>2 DEF Quiet, Busy, StInv, PhaseInv, AllOff
    <2> QED BY <2>1, <2>2 DEF RowMoved
<1>9. RowInv' /\ \A e \in Event, d \in Device : Traced(e, d)
    BY <1>8, RowsMove
<1>10. RevInv'
    <2>1. app.rev \in Nat /\ NoShot <= app.rev
        BY <1>1, RevNat
    <2>2. app.rev <= app'.rev /\ (mode # "default" => app'.rev = rev)
        BY <1>2, <2>1
    <2>3. \A y \in Source : db'.policy[y].rev <= app'.rev
        <3>1. \A y \in Source : db.policy[y].rev <= app.rev
                                /\ db.policy[y].rev \in Revs \cup {NoShot}
            BY <1>1 DEF StInv, RevInv, TypeInv, TypeOK, Stores
        <3>2. \A r \in Revs \cup {NoShot} : r \in Nat
            BY StoreConstants DEF NoShot
        <3>3. app'.rev \in Nat
            BY <1>2, <2>1
        <3>4. ASSUME NEW y \in Source PROVE db'.policy[y].rev <= app'.rev
            <4>1. db.policy[y].rev <= app.rev /\ db.policy[y].rev \in Nat
                BY <3>1, <3>2
            <4>2. db.policy[y].rev <= app'.rev /\ NoShot <= app'.rev
                BY <2>1, <2>2, <3>3, <4>1 DEF NoShot
            <4>3. mode # "default" => rev <= app'.rev
                BY <2>2, <3>3
            <4>4. \/ db'.policy[y].rev = db.policy[y].rev
                  \/ db'.policy[y].rev = NoShot
                  \/ db'.policy[y].rev = rev /\ mode # "default"
                BY <1>3
            <4> HIDE DEF rev
            <4> QED BY <4>2, <4>3, <4>4
        <3> QED BY <3>4
    <2>4. \A e \in Event, d \in Device : Row(e, d).shot <= app'.rev
        <3>1. ASSUME NEW e \in Event, NEW d \in Device
              PROVE  Row(e, d).shot <= app.rev /\ Row(e, d).shot \in Revs \cup {NoShot}
            <4>1. Row(e, d) \in Rows
                BY <1>1 DEF TypeInv, TypeOK, Stores, Row
            <4>2. Row(e, d).shot <= app.rev
                BY DEF StInv, RevInv
            <4> QED BY <4>1, <4>2 DEF Rows
        <3>2. \A r \in Revs \cup {NoShot} : r \in Nat
            BY StoreConstants DEF NoShot
        <3>3. app'.rev \in Nat
            BY <1>2, <2>1
        <3> HIDE DEF rev
        <3> QED BY <2>1, <2>2, <3>1, <3>2, <3>3
    <2>5. \A r \in Revs : seen.spent[r] # {} => r <= app'.rev
        <3>1. \A r \in Revs : seen.spent[r] # {} => r <= app.rev
            BY DEF StInv, RevInv
        <3>2. \A r \in Revs : r \in Nat
            BY StoreConstants
        <3>3. app'.rev \in Nat
            BY <1>2, <2>1
        <3> QED BY <2>1, <2>2, <3>1, <3>2, <3>3
    <2> QED BY <1>2, <1>6, <2>3, <2>4, <2>5 DEF RevInv
<1>11. Steady
    <2>1. ~ Starting
        BY <1>2 DEF Starting, Quiet
    <2>2. \A e \in Event, d \in Device : Owed(e, d) => Owed(e, d)'
        BY <1>2, <1>3 DEF Owed, Proven
    <2> QED BY <1>2, <1>3, <1>6, <1>9, <2>1, <2>2 DEF Steady
<1> QED BY <1>4, <1>5, <1>7, <1>9, <1>10, <1>11 DEF StInv

-----------------------------------------------------------------------------
\* What one commit leaves of the worker that makes it.
AfterWrite(d, x) ==
    LET w == io[d]
        n == io'[d] IN
    /\ \A c \in Device : c # d => io'[c] = io[c]
    /\ \A f : Calls(n, f) => Calls(w, f) /\ n.st = "write"
    /\ \A f : Accepted(n, f) =>
         /\ Accepted(w, f) /\ n.cur = w.cur
         /\ <<"log", f>> \in w.writes => <<"log", f>> \in n.writes \/ x = <<"log", f>>
    /\ \A f : Accepted(w, f) => Accepted(n, f) \/ x = <<"sent", f>>
    /\ x[1] \in {"sent"} \cup Refusals => ~ Calls(n, x[2]) /\ ~ Accepted(n, x[2])
    /\ x[1] = "sent" => \A f : <<"log", f>> \notin w.writes
    /\ x[1] \in Refusals => \A f : ~ Accepted(w, f)
    /\ x[1] # "batch" => x[2] \in w.cur
    /\ x[1] \in Owing => Calls(w, x[2])

\* A commit leaves its worker as AfterWrite says.
LEMMA CommitWorker ==
    ASSUME StInv, NEW d \in Device, NEW x \in io[d].writes, Committed(d, x)
    PROVE  /\ AfterWrite(d, x) /\ WorkerInv' /\ PhaseInv' /\ drain.phase = "send"
           /\ drain'.rel = drain.rel /\ drain'.phase = drain.phase
           /\ io' \in [Device -> Workers]
           /\ \A c \in Device : io'[c].st \in {"go", "sleep"} => io'[c].n <= Quick
<1>1. TypeInv /\ WorkerOk(io[d], drain) /\ io[d] \in Workers
    BY DEF StInv, WorkerInv, TypeInv, TypeOK
<1>2. /\ io' = [io EXCEPT ![d] = IF io[d].writes # {x}
                               THEN [io[d] EXCEPT !.writes = @ \ {x}]
                               ELSE Next1(io[d].left)]
      /\ io[d].st = "write" /\ \A y \in io[d].writes \ {x} : Before(x, y)
      /\ drain' = [drain EXCEPT !.shots = drain'.shots] /\ drain' \in Drains
      /\ app' = app
    BY DEF Committed
<1>3. drain.phase = "send"
    BY <1>2, Sending
<1>4. /\ drain'.phase = drain.phase /\ drain'.cand = drain.cand
      /\ drain'.todo = drain.todo /\ drain'.later = drain.later
      /\ drain'.fan = drain.fan /\ drain'.rel = drain.rel
      /\ drain'.whole = drain.whole /\ drain'.fans = drain.fans
    BY <1>1, <1>2 DEF TypeInv, TypeOK, Drains
<1>5. PICK k \in Owing \cup {"mark", "batch"}, e \in Event : x = <<k, e>>
    BY <1>1 DEF Workers, Owing, Refusals
<1>6. e \in Nat
    BY StoreConstants
<1>7. AnswerOk(io[d])
    BY <1>1, <1>2 DEF WorkerOk
<1>8. ASSUME NEW l \in Owing, NEW f \in Event, <<l, f>> \in io[d].writes, <<l, f>> # x
      PROVE  /\ k = "sent" => l # "log"
             /\ k \in {"sent"} \cup Refusals => f # e
    <2>1. Before(x, <<l, f>>)
        BY <1>2, <1>8
    <2>2. f \in Nat
        BY StoreConstants
    <2>3. k = "sent" => l # "log"
        BY <1>5, <2>1 DEF Before, Stage
    <2>4. k = "sent" => l \notin Refusals
        BY <1>5, <1>7, <1>8 DEF AnswerOk, Refusals
    <2>5. k \in Refusals => l \in Refusals
        BY <1>5, <1>7, <1>8 DEF AnswerOk, Refusals
    <2>6. k = "sent" => f # e
        BY <1>5, <1>8, <2>3, <2>4 DEF Owing
    <2>7. k \in Refusals /\ f = e => FALSE
        BY <1>5, <1>6, <2>1, <2>5 DEF Before, Stage, Refusals
    <2> QED BY <2>3, <2>6, <2>7
<1> DEFINE n == IF io[d].writes # {x} THEN [io[d] EXCEPT !.writes = @ \ {x}]
                ELSE Next1(io[d].left)
<1>9. io'[d] = n /\ \A c \in Device : c # d => io'[c] = io[c]
    BY <1>2, OneWorker
<1>10. io[d].left \in SUBSET Event /\ io[d].left \subseteq drain.rel
    BY <1>1 DEF WorkerOk, Workers
<1> DEFINE Good ==
              /\ n \in Workers /\ WorkerOk(n, drain') /\ (n.st = "go" => n.n = 0)
              /\ n.st # "sleep"
              /\ \A f : Calls(n, f) => Calls(io[d], f) /\ n.st = "write"
              /\ \A f : Accepted(n, f) =>
                   /\ Accepted(io[d], f) /\ n.cur = io[d].cur
                   /\ <<"log", f>> \in io[d].writes => <<"log", f>> \in n.writes \/ x = <<"log", f>>
              /\ \A f : Accepted(io[d], f) => Accepted(n, f) \/ x = <<"sent", f>>
              /\ k \in {"sent"} \cup Refusals => ~ Calls(n, e) /\ ~ Accepted(n, e)
<1>11. ASSUME io[d].writes # {x} PROVE Good
    <2>1. /\ n \in Workers /\ n.st = "write" /\ n.cur = io[d].cur
          /\ n.writes = io[d].writes \ {x} /\ n.left = io[d].left
          /\ n.ask = io[d].ask /\ n.keep = io[d].keep
        BY <1>1, <1>2, <1>11 DEF Workers
    <2>2. AnswerOk(n)
        <3>1. ASSUME NEW f \in Event, <<"log", f>> \in n.writes, NEW g \in n.cur
              PROVE  <<"sent", g>> \in n.writes
            <4>1. <<"sent", g>> \in io[d].writes
                BY <1>7, <2>1, <3>1 DEF AnswerOk
            <4>2. "log" \in Owing /\ <<"log", f>> \in io[d].writes /\ <<"log", f>> # x
                BY <2>1, <3>1 DEF Owing
            <4>3. k # "sent"
                BY <1>8, <4>2
            <4> QED BY <1>5, <2>1, <4>1, <4>3
        <3>2. n.writes \subseteq io[d].writes
            BY <2>1
        <3> HIDE DEF n
        <3>3. /\ \A y \in n.writes : y[1] # "batch" => y[2] \in n.cur
              /\ \/ \A y \in n.writes : y[1] \in Refusals
                 \/ \A y \in n.writes : y[1] \notin Refusals
            BY <1>7, <2>1, <3>2 DEF AnswerOk
        <3> QED BY <3>1, <3>3 DEF AnswerOk
    <2> HIDE DEF n
    <2>3. WorkerOk(n, drain')
        BY <1>1, <1>2, <1>4, <2>1, <2>2 DEF WorkerOk
    <2>4. \A f : Calls(n, f) => Calls(io[d], f)
        BY <1>2, <2>1 DEF Calls
    <2>5. k \in {"sent"} \cup Refusals => ~ Calls(n, e) /\ ~ Accepted(n, e)
        <3>1. ASSUME NEW l \in Owing, <<l, e>> \in n.writes
              PROVE  k \notin {"sent"} \cup Refusals
            BY <1>8, <2>1, <3>1
        <3>2. "sent" \in Owing
            BY DEF Owing
        <3> QED BY <2>1, <3>1, <3>2 DEF Calls, Accepted
    <2>6. /\ \A f : Accepted(n, f) =>
               /\ Accepted(io[d], f)
               /\ <<"log", f>> \in io[d].writes => <<"log", f>> \in n.writes \/ x = <<"log", f>>
          /\ \A f : Accepted(io[d], f) => Accepted(n, f) \/ x = <<"sent", f>>
        BY <1>2, <2>1 DEF Accepted
    <2> QED BY <1>2, <2>1, <2>3, <2>4, <2>5, <2>6
<1>12. ASSUME io[d].writes = {x} PROVE Good
    <2>1. n = Next1(io[d].left)
        BY <1>12
    <2> HIDE DEF n
    <2>2. /\ n \in Workers /\ WorkerOk(n, drain') /\ \A f : ~ Calls(n, f)
          /\ n.st \in {"off", "go"} /\ n.n = 0
        BY <1>4, <1>10, <2>1, Next1Ok, Next1Type
    <2>3. \A f : ~ Accepted(n, f)
        BY <2>2 DEF Accepted
    <2>4. \A f : Accepted(io[d], f) => x = <<"sent", f>>
        BY <1>12 DEF Accepted
    <2> QED BY <2>2, <2>3, <2>4
<1>13. Good
    BY <1>11, <1>12
<1> HIDE DEF n
<1>14. /\ k = "sent" => \A f : <<"log", f>> \notin io[d].writes
       /\ k \in Refusals => \A f : ~ Accepted(io[d], f)
       /\ k # "batch" => e \in io[d].cur
       /\ k \in Owing => Calls(io[d], e)
    <2>1. k = "sent" => \A f : <<"log", f>> \notin io[d].writes
        <3>1. ASSUME NEW f, <<"log", f>> \in io[d].writes, k = "sent" PROVE FALSE
            <4>1. f \in Event /\ "log" \in Owing /\ <<"log", f>> # x
                BY <1>1, <1>5, <3>1 DEF Workers, Owing
            <4> QED BY <1>8, <3>1, <4>1
        <3> QED BY <3>1, Zenon
    <2>2. k \in Refusals => \A f : ~ Accepted(io[d], f)
        <3>1. ASSUME NEW f, Accepted(io[d], f), k \in Refusals PROVE FALSE
            <4>1. "sent" \notin Refusals /\ <<"sent", f>> \in io[d].writes
                BY <3>1 DEF Accepted, Refusals
            <4>2. x[1] = k /\ <<"sent", f>>[1] = "sent"
                BY <1>5
            <4> QED BY <1>7, <3>1, <4>1, <4>2 DEF AnswerOk
        <3> QED BY <3>1, Zenon
    <2>3. k # "batch" => e \in io[d].cur
        BY <1>5, <1>7 DEF AnswerOk
    <2>4. k \in Owing => Calls(io[d], e)
        BY <1>2, <1>5 DEF Calls
    <2> QED BY <2>1, <2>2, <2>3, <2>4
<1>15. AfterWrite(d, x)
    BY <1>5, <1>9, <1>13, <1>14 DEF AfterWrite
<1>16. WorkerInv'
    BY <1>4, <1>9, <1>13 DEF StInv, WorkerInv, WorkerOk
<1>17. PhaseInv'
    <2>1. db'.batchOf = db.batchOf
        BY <1>5 DEF Committed, Journaled, Receipted, Calm, Kept, Requeued, Owing, Refusals
    <2> QED BY <1>3, <1>4, <2>1 DEF StInv, PhaseInv
<1>18. io' \in [Device -> Workers]
    BY <1>1, <1>2, <1>13 DEF n, TypeInv, TypeOK
<1>19. \A c \in Device : io'[c].st \in {"go", "sleep"} => io'[c].n <= Quick
    <2>1. \A c \in Device : io[c].st \in {"go", "sleep"} => io[c].n <= Quick
        BY <1>1 DEF TypeInv
    <2>2. 0 <= Quick
        BY OutboxConstants
    <2> QED BY <1>9, <1>13, <2>1, <2>2
<1> QED BY <1>3, <1>4, <1>15, <1>16, <1>17, <1>18, <1>19

\* What one commit does to one row.
CommitRow(d, x, e, c) ==
    /\ RowMoved(e, c)
    /\ Row(e, c)'.shot = Row(e, c).shot
    /\ Row(e, c)'.st = "none" <=> Row(e, c).st = "none"
    /\ x # <<"sent", e>> \/ c # d =>
         /\ Row(e, c)'.st = "sent" => Row(e, c).st = "sent"
         /\ SentAsBatch(Row(e, c)') => SentAsBatch(Row(e, c))
    /\ c # d \/ x[1] \in {"mark", "batch", "requeue"} =>
         db'.journal[e][c] = db.journal[e][c]
    /\ x[1] # "log" => db'.journal[e][c] \in {db.journal[e][c], "done"}

\* A commit leaves each row as CommitRow says.
LEMMA CommitRows ==
    ASSUME StInv, NEW d \in Device, NEW x \in io[d].writes, Committed(d, x),
           NEW e \in Event, NEW c \in Device
    PROVE  CommitRow(d, x, e, c)
<1>1. AfterWrite(d, x) /\ TypeInv /\ io[d].st = "write"
    BY CommitWorker DEF StInv, Committed
<1>2. PICK k \in Owing \cup {"mark", "batch"}, f \in Event : x = <<k, f>>
    <2>1. io[d] \in Workers
        BY <1>1 DEF TypeInv, TypeOK
    <2> QED BY <2>1 DEF Workers, Owing, Refusals
<1> DEFINE r == db.row[e][c]
           n == db'.row[e][c]
<1>3. /\ Calls(io'[c], e) => Calls(io[c], e)
      /\ Calls(io'[c], e) /\ c = d => io'[c].st = "write"
      /\ c # d => io'[c] = io[c]
    BY <1>1 DEF AfterWrite
<1>4. /\ OneShotClosed(r) => r.st = "suppressed"
      /\ Calls(io[c], e) => \/ r.st \in {"pending", "expired"}
                            \/ OneShotClosed(r) /\ io[c].st # "go"
    BY DEF StInv, RowInv, Row
<1>5. ASSUME RowKept(r, n), OneShotClosed(n) => OneShotClosed(r) PROVE RowMoved(e, c)
    BY <1>3, <1>5 DEF RowMoved
<1>6. RowKept(r, r)
    BY DEF RowKept
<1>7. ASSUME n = r PROVE RowMoved(e, c)
    BY <1>5, <1>6, <1>7
<1>8. CASE k \in {"mark", "batch"}
    <2>1. Calm(db, db')
        BY <1>2, <1>8 DEF Committed, Owing, Refusals
    <2>2. RowKept(r, n) /\ (OneShotClosed(n) => OneShotClosed(r)) /\ db'.journal = db.journal
        BY <2>1 DEF Calm, Kept
    <2> HIDE DEF r, n
    <2>3. RowMoved(e, c)
        BY <1>5, <2>2
    <2>4. /\ n.shot = r.shot /\ (n.st = "none" <=> r.st = "none")
          /\ n.st = "sent" => r.st = "sent"
          /\ SentAsBatch(n) => SentAsBatch(r)
        BY <2>2 DEF RowKept
    <2> QED BY <2>2, <2>3, <2>4 DEF r, n, CommitRow, Row
<1>9. CASE k = "log"
    <2>1. Journaled(db, db', f, d, IF Cardinality(io[d].cur) > 1 THEN "batch" ELSE "single")
        BY <1>2, <1>9 DEF Committed
    <2>2. n = r /\ (c # d => db'.journal[e][c] = db.journal[e][c])
        BY <2>1 DEF Journaled
    <2>3. RowMoved(e, c)
        BY <1>7, <2>2
    <2> QED BY <1>2, <1>9, <2>2, <2>3 DEF CommitRow, Row
<1>10. CASE k = "sent"
    <2>1. PICK why \in {"plain", "batch"} :
             Receipted(db, db', {<<f, d>>}, "sent", "none", why)
        BY <1>2, <1>10 DEF Committed
    <2>2. CASE e = f /\ c = d
        <3>1. ~ Calls(io'[c], e) /\ Calls(io[c], e)
            BY <1>1, <1>2, <1>10, <2>2 DEF AfterWrite, Owing
        <3>2. r.st # "none"
            BY <1>4, <3>1
        <3>3. /\ n.st = "sent" /\ n.shot = r.shot /\ n.why \in {"plain", "batch"}
              /\ db'.journal[e][c] \in {db.journal[e][c], "done"}
            BY <2>1, <2>2, <3>2 DEF Receipted, Stored
        <3>4. Settled(n) /\ ~ OneShotClosed(n)
            BY <3>3 DEF Settled, Unsettled, OneShotClosed
        <3>5. RowMoved(e, c)
            BY <3>1, <3>2, <3>3, <3>4 DEF RowMoved
        <3> QED BY <1>2, <1>10, <2>2, <3>2, <3>3, <3>5 DEF CommitRow, Row
    <2>3. CASE ~ (e = f /\ c = d)
        <3>1. <<e, c>> \notin {<<f, d>>}
            BY <2>3
        <3>2. n = r /\ db'.journal[e][c] = db.journal[e][c]
            BY <2>1, <3>1 DEF Receipted, Stored
        <3>3. RowMoved(e, c)
            BY <1>7, <3>2
        <3> QED BY <3>2, <3>3 DEF CommitRow, Row
    <2> QED BY <2>2, <2>3
<1>11. CASE k \in Refusals
    <2>1. ASSUME e = f, c = d, ~ OneShotClosed(r)
          PROVE  ~ Calls(io'[c], e) /\ r.st \in {"pending", "expired"} /\ ~ Over(e, c)
        <3>1. ~ Calls(io'[c], e) /\ Calls(io[c], e)
            BY <1>1, <1>2, <1>11, <2>1 DEF AfterWrite, Owing
        <3> QED BY <1>4, <2>1, <3>1 DEF Over, Row
    <2>2. CASE k = "requeue"
        <3>1. Requeued(db, db', f, d)
            BY <1>2, <2>2 DEF Committed, Refusals
        <3>2. CASE e = f /\ c = d /\ ~ OneShotClosed(r)
            <4>1. /\ n.shot = r.shot /\ n.st \in {"pending", "suppressed"}
                  /\ OneShotClosed(n) => n.st = "suppressed"
                  /\ db'.journal = db.journal
                BY <2>1, <3>1, <3>2 DEF Requeued
            <4>2. RowMoved(e, c)
                BY <2>1, <3>2, <4>1 DEF RowMoved
            <4>3. ~ SentAsBatch(n) /\ n.st # "sent" /\ n.st # "none" /\ r.st # "none"
                BY <2>1, <3>2, <4>1 DEF SentAsBatch
            <4> QED BY <4>1, <4>2, <4>3 DEF CommitRow, Row
        <3>3. CASE ~ (e = f /\ c = d /\ ~ OneShotClosed(r))
            <4>1. n = r /\ db'.journal = db.journal
                BY <3>1, <3>3 DEF Requeued
            <4>2. RowMoved(e, c)
                BY <1>7, <4>1
            <4> QED BY <4>1, <4>2 DEF CommitRow, Row
        <3> QED BY <3>2, <3>3
    <2>3. CASE k # "requeue"
        <3>1. PICK st \in {"failed", "gone"}, at \in {"later", "none"} :
                Receipted(db, db', {<<f, d>>}, st, at, "plain")
            BY <1>2, <1>11, <2>3 DEF Committed, Refusals
        <3>2. CASE e = f /\ c = d /\ ~ OneShotClosed(r)
            <4>1. Stored(db, {<<f, d>>}, st, e, c)
                BY <2>1, <3>2 DEF Stored
            <4>2. /\ n.st = st /\ n.why = "plain" /\ n.shot = r.shot
                  /\ db'.journal[e][c] \in {db.journal[e][c], "done"}
                BY <3>1, <4>1 DEF Receipted
            <4>3. ~ OneShotClosed(n)
                BY <4>2 DEF OneShotClosed
            <4>4. RowMoved(e, c)
                BY <2>1, <3>2, <4>2, <4>3 DEF RowMoved
            <4>5. ~ SentAsBatch(n) /\ n.st # "sent" /\ n.st # "none" /\ r.st # "none"
                BY <2>1, <3>2, <4>2 DEF SentAsBatch
            <4> QED BY <1>2, <1>11, <2>3, <3>2, <4>2, <4>4, <4>5 DEF CommitRow, Row, Refusals
        <3>3. CASE ~ (e = f /\ c = d /\ ~ OneShotClosed(r))
            <4>1. ~ Stored(db, {<<f, d>>}, st, e, c)
                BY <3>3 DEF Stored
            <4>2. n = r /\ db'.journal[e][c] = db.journal[e][c]
                BY <3>1, <4>1 DEF Receipted
            <4>3. RowMoved(e, c)
                BY <1>7, <4>2
            <4> QED BY <4>2, <4>3 DEF CommitRow, Row
        <3> QED BY <3>2, <3>3
    <2> QED BY <2>2, <2>3
<1> QED BY <1>8, <1>9, <1>10, <1>11 DEF Owing

\* Every commit keeps the structure of the drain.
LEMMA CommitStruct ==
    ASSUME StInv, NEW d \in Device, NEW x \in io[d].writes, Committed(d, x)
    PROVE  /\ StInv' /\ AfterWrite(d, x) /\ drain.phase = "send" /\ drain'.phase = "send"
           /\ drain'.rel = drain.rel /\ drain.shots \subseteq drain'.shots
           /\ \A e \in Event, c \in Device : Traced(e, c) /\ CommitRow(d, x, e, c)
           /\ db'.policy = db.policy /\ db'.batchOf = db.batchOf
           /\ x[1] # "sent" => db'.marker = db.marker
           /\ seen' = IF x[1] = "log" THEN Received(d) ELSE seen
           /\ app' = app
<1>1. /\ AfterWrite(d, x) /\ WorkerInv' /\ PhaseInv' /\ drain.phase = "send"
      /\ drain'.rel = drain.rel /\ drain'.phase = drain.phase
      /\ io' \in [Device -> Workers]
      /\ \A c \in Device : io'[c].st \in {"go", "sleep"} => io'[c].n <= Quick
    BY CommitWorker
<1>2. TypeInv /\ io[d] \in Workers
    BY DEF StInv, TypeInv, TypeOK
<1>3. x[1] \in Owing \cup {"mark", "batch"}
    BY <1>2 DEF Workers, Owing, Refusals
<1>4. /\ db' \in Stores /\ drain' \in Drains /\ app' = app
      /\ drain' = [drain EXCEPT !.shots = drain'.shots]
      /\ drain.shots \subseteq drain'.shots
      /\ seen' = IF x[1] = "log" THEN Received(d) ELSE seen
      /\ \A f \in Event : Known(f)' <=> Known(f)
    BY DEF Committed, Known
<1>5. /\ db'.policy = db.policy /\ db'.batchOf = db.batchOf
      /\ x[1] # "sent" => db'.marker = db.marker
    BY <1>3 DEF Committed, Journaled, Receipted, Calm, Kept, Requeued, Owing, Refusals
<1>6. \A e \in Event, c \in Device : CommitRow(d, x, e, c)
    BY CommitRows
<1>7. RowInv' /\ \A e \in Event, c \in Device : Traced(e, c)
    BY <1>6, RowsMove DEF CommitRow
<1>8. /\ io[d].cur \in SUBSET Event /\ drain.rel \in SUBSET Event
      /\ seen \in [got : SUBSET (Event \X Device), spent : [Revs -> SUBSET Event],
                   revoked : SUBSET (Event \X Device \X Revs)]
    BY <1>2 DEF Workers, TypeInv, TypeOK, Drains
<1>9. seen' \in [got : SUBSET (Event \X Device), spent : [Revs -> SUBSET Event],
                 revoked : SUBSET (Event \X Device \X Revs)]
    <2> DEFINE got == seen.got \cup (io[d].cur \X {d})
               spent == [r \in Revs |->
                    IF seen.spent[r] = {} /\ \E e \in io[d].cur : db.row[e][d].shot = r
                    THEN drain.rel ELSE seen.spent[r]]
    <2>1. Received(d) = [seen EXCEPT !.got = got, !.spent = spent]
        BY Zenon DEF Received
    <2>2. got \in SUBSET (Event \X Device)
        BY <1>8
    <2>3. spent \in [Revs -> SUBSET Event]
        BY <1>8
    <2> HIDE DEF got, spent
    <2> QED BY <1>4, <1>8, <2>1, <2>2, <2>3
<1>10. TypeInv'
    BY <1>1, <1>2, <1>4, <1>9 DEF TypeInv, TypeOK
<1>11. KnownInv'
    <2>1. /\ drain'.later = drain.later /\ drain'.todo = drain.todo
          /\ drain'.fan = drain.fan
        BY <1>2, <1>4 DEF TypeInv, TypeOK, Drains
    <2>2. \A e \in Event : InHand(e)' => InHand(e)
        BY <1>1, <2>1 DEF InHand
    <2>3. \A e \in Event, c \in Device : Row(e, c)'.st # "none" => Row(e, c).st # "none"
        BY <1>6 DEF CommitRow
    <2> QED BY <1>4, <2>2, <2>3 DEF StInv, KnownInv
<1>12. BatchInv'
    BY <1>5 DEF StInv, BatchInv
<1>13. RevInv'
    <2>1. ASSUME NEW r \in Revs, seen'.spent[r] # {} PROVE r <= app.rev
        <3>1. CASE seen.spent[r] # {}
            BY <3>1 DEF StInv, RevInv
        <3>2. CASE seen.spent[r] = {}
            <4>1. seen' = Received(d)
                BY <1>4, <2>1, <3>2
            <4>2. \E e \in io[d].cur : db.row[e][d].shot = r
                BY <1>8, <2>1, <3>2, <4>1 DEF Received
            <4> QED BY <1>8, <4>2 DEF StInv, RevInv, Row
        <3> QED BY <3>1, <3>2
    <2>2. \A e \in Event, c \in Device : Row(e, c)'.shot <= app.rev
        BY <1>6 DEF StInv, RevInv, CommitRow
    <2>3. \A s \in Source : db'.policy[s].rev <= app.rev
        BY <1>5 DEF StInv, RevInv
    <2> QED BY <1>4, <2>1, <2>2, <2>3 DEF RevInv
<1> QED BY <1>1, <1>4, <1>5, <1>6, <1>7, <1>10, <1>11, <1>12, <1>13 DEF StInv

\* The answers that are no acceptance of a new alert.
LEMMA CommitSteady ==
    ASSUME StInv, NEW d \in Device, NEW x \in io[d].writes, Committed(d, x),
           x[1] \notin {"log", "sent"}
    PROVE  Steady
<1>1. /\ AfterWrite(d, x) /\ drain.phase = "send" /\ drain'.phase = "send"
      /\ drain'.rel = drain.rel /\ drain.shots \subseteq drain'.shots
      /\ \A e \in Event, c \in Device : Traced(e, c) /\ CommitRow(d, x, e, c)
      /\ db'.policy = db.policy /\ db'.batchOf = db.batchOf
      /\ db'.marker = db.marker /\ seen' = seen /\ app' = app
    BY CommitStruct
<1>2. TypeInv /\ io[d] \in Workers
    BY DEF StInv, TypeInv, TypeOK
<1>3. x[1] \in Refusals \cup {"mark", "batch"}
    BY <1>2 DEF Workers, Refusals
<1>4. \A e : x # <<"log", e>> /\ x # <<"sent", e>>
    <2>1. ASSUME NEW e, x = <<"log", e>> \/ x = <<"sent", e>> PROVE FALSE
        <3>1. <<"log", e>>[1] = "log" /\ <<"sent", e>>[1] = "sent"
            OBVIOUS
        <3> QED BY <2>1, <3>1
    <2> QED BY <2>1, Zenon
<1>5. ~ Starting
    BY <1>1 DEF Starting
<1>6. ASSUME NEW e \in Event, NEW c \in Device
      PROVE  /\ Calls(io'[c], e) => Calls(io[c], e)
             /\ Accepted(io'[c], e) /\ <<"log", e>> \notin io'[c].writes =>
                  /\ Accepted(io[c], e) /\ <<"log", e>> \notin io[c].writes
                  /\ io'[c].cur = io[c].cur /\ db'.journal[e][c] = db.journal[e][c]
             /\ Owed(e, c) => Owed(e, c)'
    <2>1. CASE c # d
        <3>1. io'[c] = io[c] /\ \A g \in Event : db'.journal[g][c] = db.journal[g][c]
            BY <1>1, <2>1 DEF AfterWrite, CommitRow
        <3> QED BY <1>1, <3>1 DEF Owed, Proven
    <2>2. CASE c = d /\ x[1] \in Refusals
        <3>1. \A f : ~ Accepted(io[d], f)
            BY <1>1, <2>2 DEF AfterWrite
        <3>2. /\ Calls(io'[d], e) => Calls(io[d], e)
              /\ Accepted(io'[d], e) => Accepted(io[d], e)
            BY <1>1 DEF AfterWrite
        <3> QED BY <1>1, <2>2, <3>1, <3>2 DEF Owed
    <2>3. CASE c = d /\ x[1] \in {"mark", "batch"}
        <3>1. \A g \in Event : db'.journal[g][c] = db.journal[g][c]
            BY <1>1, <2>3 DEF CommitRow
        <3>2. /\ Calls(io'[d], e) => Calls(io[d], e)
              /\ Accepted(io'[d], e) =>
                   /\ Accepted(io[d], e) /\ io'[d].cur = io[d].cur
                   /\ <<"log", e>> \in io[d].writes => <<"log", e>> \in io'[d].writes
              /\ Accepted(io[d], e) => Accepted(io'[d], e)
            BY <1>1, <1>4 DEF AfterWrite
        <3> QED BY <1>1, <2>3, <3>1, <3>2 DEF Owed, Proven
    <2> QED BY <1>3, <2>1, <2>2, <2>3
<1> QED BY <1>1, <1>4, <1>5, <1>6 DEF Steady, CommitRow

-----------------------------------------------------------------------------
(* The steps that receive, prove or spend alerts. *)

\* What these steps share when no worker runs after them.
Alone ==
    /\ \A d \in Device : io'[d] = Off
    /\ \A e \in Event, d \in Device : Traced(e, d) /\ Row(e, d)'.shot = Row(e, d).shot
    /\ db'.batchOf = db.batchOf /\ seen' = seen
    /\ \A s \in Source : db'.policy[s].rev \in {db.policy[s].rev, NoShot}

\* After these steps the structure holds if they only keep or accept rows.
LEMMA AloneSteps ==
    ASSUME StInv, TypeInv', PhaseInv', \A d \in Device : io'[d] = Off,
           db'.batchOf = db.batchOf, seen' = seen, app'.rev = app.rev,
           \A s \in Source : db'.policy[s].rev \in {db.policy[s].rev, NoShot},
           \A e \in Event : Known(e)' <=> Known(e),
           \A e \in Event : InHand(e)' => Known(e),
           \A e \in Event, d \in Device :
              /\ Row(e, d)'.shot = Row(e, d).shot
              /\ \/ RowKept(db.row[e][d], db'.row[e][d])
                 \/ Row(e, d).st # "none" /\ Row(e, d)'.st = "sent"
                    /\ Row(e, d)'.why \in {"plain", "batch"}
    PROVE  StInv' /\ Alone
<1>1. \A d \in Device : \A e : ~ Calls(io'[d], e)
    BY NoCalls DEF Off
<1>2. ASSUME NEW e \in Event, NEW d \in Device
      PROVE  RowMoved(e, d) /\ (Row(e, d)'.st # "none" => Row(e, d).st # "none")
    <2>1. CASE RowKept(db.row[e][d], db'.row[e][d])
        BY <1>1, <2>1 DEF RowMoved, RowKept, Row
    <2>2. CASE Row(e, d).st # "none" /\ Row(e, d)'.st = "sent"
               /\ Row(e, d)'.why \in {"plain", "batch"}
        <3>1. Settled(Row(e, d)') /\ ~ OneShotClosed(Row(e, d)')
            BY <2>2 DEF Settled, Unsettled, OneShotClosed
        <3> QED BY <1>1, <2>2, <3>1 DEF RowMoved, Row
    <2> QED BY <2>1, <2>2
<1>3. RowInv' /\ \A e \in Event, d \in Device : Traced(e, d)
    BY <1>2, RowsMove
<1>4. RevInv'
    BY <1>3, RevFollows
<1>5. WorkerInv'
    BY OffOk DEF WorkerInv
<1>6. KnownInv'
    BY <1>2 DEF StInv, KnownInv
<1>7. BatchInv'
    BY DEF StInv, BatchInv
<1> QED BY <1>3, <1>4, <1>5, <1>6, <1>7 DEF StInv, Alone

\* A worker not running holds nothing.
LEMMA AllAreOff ==
    ASSUME StInv, AllOff PROVE \A d \in Device : io[d] = Off
BY DEF StInv, WorkerInv, WorkerOk, AllOff

\* The fields of a drain not started.
LEMMA NoDrainFields ==
    /\ NoDrain.todo = {} /\ NoDrain.later = {} /\ NoDrain.rel = {}
    /\ NoDrain.fans = {} /\ NoDrain.fan = {} /\ ~ NoDrain.whole
    /\ NoDrain.shots = {} /\ NoDrain.cand = [d \in Device |-> {}]
    /\ NoDrain.phase = "idle"
    /\ \A p : LET n == [NoDrain EXCEPT !.phase = p] IN
         /\ n.phase = p /\ n.todo = {} /\ n.later = {} /\ n.rel = {}
         /\ n.fans = {} /\ n.fan = {} /\ ~ n.whole
         /\ n.shots = {} /\ n.cand = [d \in Device |-> {}]
BY DEF NoDrain

\* Receipts that a crash lost are made up for.
Reconciled ==
    /\ db'.journal \in [Event -> [Device -> {"none", "done"}]]
    /\ db.marker \subseteq db'.marker
    /\ \A e \in Event, d \in Device :
         MadeUp(db, db', e, d)
    /\ \A m \in db'.marker \ db.marker : \E d \in Device :
         Proven(db, m[1], d) /\ Row(m[1], d).shot = m[2]
    /\ db'.policy = db.policy

\* The start of a drain makes up for receipts that were lost.
LEMMA DrainSteps ==
    ASSUME StInv, Drain
    PROVE  /\ StInv' /\ Alone /\ Reconciled /\ (Starting => Starting')
           /\ drain.phase \in {"boot", "idle"}
<1>1. TypeInv /\ TypeInv' /\ db \in Stores /\ drain.phase \in {"boot", "idle"}
    BY DrainType DEF StInv, TypeInv, TypeOK, Drain
<1>2. db' = Reconcile(db) /\ app' = app /\ io' = io /\ seen' = seen
      /\ drain' = [NoDrain EXCEPT !.phase = "list"]
    BY DEF Drain
<1> DEFINE t == Reconcile(db)
<1>3. /\ t \in Stores
      /\ t.status = db.status /\ t.policy = db.policy /\ t.batchOf = db.batchOf
      /\ db.marker \subseteq t.marker
      /\ \A e \in Event, d \in Device :
           t.journal[e][d] \in {"none", "done"} /\ MadeUp(db, t, e, d)
      /\ \A m \in t.marker \ db.marker : \E d \in Device :
           Proven(db, m[1], d) /\ db.row[m[1]][d].shot = m[2]
    BY <1>1, ReconcileEffect
<1> HIDE DEF t
<1>4. db' = t
    BY <1>2 DEF t
<1>5. /\ drain'.phase = "list" /\ drain'.todo = {} /\ drain'.later = {}
      /\ drain'.rel = {} /\ drain'.fans = {} /\ ~ drain'.whole
      /\ drain'.shots = {} /\ drain'.cand = [d \in Device |-> {}]
    BY <1>2, NoDrainFields
<1>6. AllOff /\ \A d \in Device : io'[d] = Off
    BY <1>1, <1>2, AloneOff, AllAreOff
<1>7. PhaseInv'
    BY <1>2, <1>5, <1>6 DEF PhaseInv, AllOff
<1>8. \A e \in Event : ~ InHand(e)' /\ (Known(e)' <=> Known(e))
    BY <1>3, <1>4, <1>5 DEF InHand, Known
<1>9. \A e \in Event, d \in Device :
        /\ Row(e, d)'.shot = Row(e, d).shot
        /\ \/ RowKept(db.row[e][d], db'.row[e][d])
           \/ Row(e, d).st # "none" /\ Row(e, d)'.st = "sent"
              /\ Row(e, d)'.why \in {"plain", "batch"}
    <2> SUFFICES ASSUME NEW e \in Event, NEW d \in Device
                 PROVE  /\ db'.row[e][d].shot = db.row[e][d].shot
                        /\ \/ RowKept(db.row[e][d], db'.row[e][d])
                           \/ db.row[e][d].st # "none" /\ db'.row[e][d].st = "sent"
                              /\ db'.row[e][d].why \in {"plain", "batch"}
        BY DEF Row
    <2>1. MadeUp(db, db', e, d)
        BY <1>3, <1>4
    <2> QED BY <2>1 DEF MadeUp, RowKept
<1>10. StInv' /\ Alone
    BY <1>1, <1>2, <1>3, <1>4, <1>6, <1>7, <1>8, <1>9, AloneSteps
<1>11. Reconciled
    <2>1. db'.journal \in [Event -> [Device -> {"none", "done"}]]
        <3>1. t.journal \in [Event -> [Device -> {"none", "single", "batch", "done"}]]
            BY <1>3 DEF Stores
        <3>2. \A e \in Event, d \in Device : t.journal[e][d] \in {"none", "done"}
            BY <1>3
        <3>3. \A e \in Event : t.journal[e] \in [Device -> {"none", "done"}]
            BY <3>1, <3>2
        <3> QED BY <1>4, <3>1, <3>3
    <2>2. \A e \in Event, d \in Device : MadeUp(db, db', e, d)
        BY <1>3, <1>4
    <2> QED BY <1>3, <1>4, <2>1, <2>2 DEF Reconciled, Row
<1>12. Starting => Starting'
    BY <1>2, <1>5, <1>8 DEF Starting
<1> QED BY <1>1, <1>10, <1>11, <1>12

\* A device that took a batch is given the receipts of its members.
Shared ==
    /\ \A e \in Event, d \in Device :
         /\ db'.journal[e][d] \in {db.journal[e][d], "done"}
         /\ \/ Row(e, d)' = Row(e, d)
            \/ /\ Row(e, d)'.st = "sent"
               /\ \E f \in Event, m \in Event :
                    /\ e \in db.batchOf[f]
                    /\ m \in db.batchOf[e] /\ SentAsBatch(Row(m, d))
    /\ db'.policy = db.policy
    /\ \A m \in db'.marker \ db.marker : \E d \in Device :
         Row(m[1], d)'.st = "sent" /\ Row(m[1], d).shot = m[2]

\* A batch that was taken spreads to its members.
LEMMA SpreadSteps ==
    ASSUME StInv, SpreadBatches
    PROVE  StInv' /\ Alone /\ Shared /\ drain.phase = "spread"
<1>1. /\ TypeInv /\ db' \in Stores /\ drain' \in Drains /\ drain.phase = "spread"
      /\ app' = app /\ io' = io /\ seen' = seen
    <2>1. TypeInv
        BY DEF StInv
    <2>2. UNCHANGED <<app, io, seen>>
        BY <2>1, SpreadEffect, Zenon
    <2> QED BY <2>1, <2>2, SpreadEffect, Zenon
<1>2. PICK P \in SUBSET (Event \X Device) :
        /\ Receipted(db, db', P, "sent", "none", "batch")
        /\ \A e \in Event, d \in Device : <<e, d>> \in P =>
             \E f \in drain.rel, m \in Event :
                /\ e \in db.batchOf[f]
                /\ m \in db.batchOf[e] /\ SentAsBatch(db.row[m][d])
    BY <1>1, SpreadEffect, Zenon
<1>3. PICK F \in SUBSET SUBSET drain.rel, C \in [Device -> SUBSET Event], D \in SUBSET Event :
        /\ \A d \in Device : C[d] \subseteq drain.cand[d]
        /\ drain' = [drain EXCEPT !.phase = "send", !.fans = F, !.cand = C, !.dead = D]
    BY <1>1, SpreadEffect, Zenon
<1>4. /\ drain'.phase = "send" /\ drain'.todo = drain.todo /\ drain'.later = drain.later
      /\ drain'.rel = drain.rel /\ drain'.fans = F /\ drain'.cand = C
      /\ drain'.whole = drain.whole /\ drain'.shots = drain.shots
    BY <1>1, <1>3 DEF TypeInv, TypeOK, Drains
<1>5. \A d \in Device : io'[d] = Off
    BY <1>1, AloneOff, AllAreOff
<1>6. TypeInv'
    BY <1>1, WorkersType DEF TypeInv, TypeOK
<1>7. PhaseInv'
    <2>1. \A d \in Device : C[d] \subseteq drain.rel
        BY <1>3 DEF StInv, PhaseInv
    <2>2. ~ drain'.whole
        BY <1>1, <1>4 DEF StInv, PhaseInv
    <2> QED BY <1>3, <1>4, <2>1, <2>2 DEF PhaseInv
<1>8. db'.status = db.status /\ db'.policy = db.policy /\ db'.batchOf = db.batchOf
    BY <1>2 DEF Receipted
<1>9. \A e \in Event : (Known(e)' <=> Known(e)) /\ (InHand(e)' => Known(e))
    BY <1>4, <1>8 DEF StInv, KnownInv, InHand, Known
<1>10. \A e \in Event, d \in Device :
         LET r == Row(e, d)
             n == Row(e, d)' IN
         IF Stored(db, P, "sent", e, d)
         THEN /\ n.st = "sent" /\ n.why = "batch" /\ n.shot = r.shot /\ r.st # "none"
              /\ db'.journal[e][d] \in {db.journal[e][d], "done"}
         ELSE n = r /\ db'.journal[e][d] = db.journal[e][d]
    <2> SUFFICES ASSUME NEW e \in Event, NEW d \in Device
                 PROVE  LET r == db.row[e][d]
                            n == db'.row[e][d] IN
                        IF Stored(db, P, "sent", e, d)
                        THEN /\ n.st = "sent" /\ n.why = "batch" /\ n.shot = r.shot /\ r.st # "none"
                             /\ db'.journal[e][d] \in {db.journal[e][d], "done"}
                        ELSE n = r /\ db'.journal[e][d] = db.journal[e][d]
        BY DEF Row
    <2>1. CASE Stored(db, P, "sent", e, d)
        <3>1. db.row[e][d].st # "none"
            BY <2>1 DEF Stored
        <3>2. /\ db'.row[e][d].st = "sent" /\ db'.row[e][d].why = "batch"
              /\ db'.row[e][d].shot = db.row[e][d].shot
              /\ db'.journal[e][d] = IF db.journal[e][d] = "none" THEN "none" ELSE "done"
            BY <1>2, <2>1 DEF Receipted
        <3> QED BY <2>1, <3>1, <3>2
    <2>2. CASE ~ Stored(db, P, "sent", e, d)
        BY <1>2, <2>2 DEF Receipted
    <2> QED BY <2>1, <2>2
<1>11. \A e \in Event, d \in Device :
        /\ Row(e, d)'.shot = Row(e, d).shot
        /\ \/ RowKept(db.row[e][d], db'.row[e][d])
           \/ Row(e, d).st # "none" /\ Row(e, d)'.st = "sent"
              /\ Row(e, d)'.why \in {"plain", "batch"}
    <2> SUFFICES ASSUME NEW e \in Event, NEW d \in Device
                 PROVE  /\ Row(e, d)'.shot = Row(e, d).shot
                        /\ \/ RowKept(db.row[e][d], db'.row[e][d])
                           \/ Row(e, d).st # "none" /\ Row(e, d)'.st = "sent"
                              /\ Row(e, d)'.why \in {"plain", "batch"}
        OBVIOUS
    <2>1. CASE Stored(db, P, "sent", e, d)
        BY <1>10, <2>1
    <2>2. CASE ~ Stored(db, P, "sent", e, d)
        <3>1. Row(e, d)' = Row(e, d)
            BY <1>10, <2>2
        <3> QED BY <3>1 DEF RowKept, Row
    <2> QED BY <2>1, <2>2
<1>12. StInv' /\ Alone
    BY <1>1, <1>5, <1>6, <1>7, <1>8, <1>9, <1>11, AloneSteps
<1>13. Shared
    <2>1. ASSUME NEW e \in Event, NEW d \in Device
          PROVE  /\ db'.journal[e][d] \in {db.journal[e][d], "done"}
                 /\ \/ Row(e, d)' = Row(e, d)
                    \/ /\ Row(e, d)'.st = "sent"
                       /\ \E f \in Event, m \in Event :
                            /\ e \in db.batchOf[f]
                            /\ m \in db.batchOf[e] /\ SentAsBatch(Row(m, d))
        <3>1. CASE Stored(db, P, "sent", e, d)
            <4>1. PICK f \in drain.rel, m \in Event :
                    e \in db.batchOf[f] /\ m \in db.batchOf[e] /\ SentAsBatch(db.row[m][d])
                BY <1>2, <3>1 DEF Stored
            <4>2. f \in Event
                BY <1>1 DEF TypeInv, TypeOK, Drains
            <4> QED BY <1>10, <3>1, <4>1, <4>2 DEF Row
        <3>2. CASE ~ Stored(db, P, "sent", e, d)
            BY <1>10, <3>2
        <3> QED BY <3>1, <3>2
    <2>2. ASSUME NEW m \in db'.marker \ db.marker
          PROVE  \E d \in Device : Row(m[1], d)'.st = "sent" /\ Row(m[1], d).shot = m[2]
        <3>1. PICK e \in Event, v \in Revs : m = <<e, v>>
            BY <1>1 DEF Stores
        <3>2. PICK d \in Device : Stored(db, P, "sent", e, d) /\ db.row[e][d].shot = v
            BY <1>2, <2>2, <3>1 DEF Receipted
        <3> QED BY <1>10, <3>1, <3>2 DEF Row
    <2> QED BY <1>8, <2>1, <2>2 DEF Shared
<1> QED BY <1>1, <1>12, <1>13

\* What the consumption of one-shots shares.
LEMMA ConsumeSteps ==
    ASSUME StInv, NEW R \in SUBSET Revs, Consumed(db, db', R),
           TypeInv', PhaseInv', \A d \in Device : io'[d] = Off,
           seen' = seen, app'.rev = app.rev,
           \A e \in Event : InHand(e)' => Known(e)
    PROVE  /\ StInv' /\ Alone /\ db'.journal = db.journal
           /\ \A e \in Event : Known(e)' <=> Known(e)
           /\ \A e \in Event, d \in Device :
                /\ Row(e, d)'.st = "sent" => Row(e, d).st = "sent"
                /\ SentAsBatch(Row(e, d)') => SentAsBatch(Row(e, d))
<1>1. /\ db'.batchOf = db.batchOf /\ db'.journal = db.journal
      /\ \A s \in Source : db'.policy[s].rev \in {db.policy[s].rev, NoShot}
      /\ \A e \in Event : Known(e)' <=> Known(e)
      /\ \A e \in Event, d \in Device : RowKept(db.row[e][d], db'.row[e][d])
    BY DEF Consumed, Known
<1>2. \A e \in Event, d \in Device :
         /\ Row(e, d)'.shot = Row(e, d).shot
         /\ Row(e, d)'.st = "sent" => Row(e, d).st = "sent"
         /\ SentAsBatch(Row(e, d)') => SentAsBatch(Row(e, d))
    BY <1>1 DEF RowKept, Row
<1>3. StInv' /\ Alone
    BY <1>1, <1>2, AloneSteps
<1> QED BY <1>1, <1>2, <1>3

\* The end of a pass consumes its one-shots.
LEMMA ConsumeShotsSteps ==
    ASSUME StInv, ConsumeShots
    PROVE  /\ StInv' /\ Alone /\ db'.journal = db.journal
           /\ Consumed(db, db', drain.shots) /\ AllOff /\ drain.phase = "send"
           /\ \A e \in Event, d \in Device :
                /\ Row(e, d)'.st = "sent" => Row(e, d).st = "sent"
                /\ SentAsBatch(Row(e, d)') => SentAsBatch(Row(e, d))
<1>1. /\ db' \in Stores /\ Consumed(db, db', drain.shots)
      /\ drain' \in Drains /\ drain' = [drain EXCEPT !.phase = "settle"]
      /\ drain.phase = "send" /\ AllOff /\ app' = app /\ io' = io /\ seen' = seen
    BY ConsumeShotsEffect DEF StInv
<1>2. TypeInv /\ drain.shots \in SUBSET Revs
    BY DEF StInv, TypeInv, TypeOK, Drains
<1>3. /\ drain'.phase = "settle" /\ drain'.todo = drain.todo /\ drain'.later = drain.later
      /\ drain'.rel = drain.rel /\ drain'.fans = drain.fans /\ drain'.cand = drain.cand
      /\ drain'.whole = drain.whole /\ drain'.fan = drain.fan
    BY <1>1, <1>2 DEF TypeInv, TypeOK, Drains
<1>4. TypeInv'
    BY <1>1, <1>2, WorkersType DEF TypeInv, TypeOK
<1>5. PhaseInv'
    <2>1. db'.batchOf = db.batchOf
        BY <1>1 DEF Consumed
    <2> QED BY <1>1, <1>3, <2>1 DEF StInv, PhaseInv, AllOff
<1>6. \A e \in Event : InHand(e)' => Known(e)
    BY <1>3 DEF StInv, KnownInv, InHand
<1>7. \A d \in Device : io'[d] = Off
    BY <1>1, AllAreOff
<1> QED BY <1>1, <1>2, <1>4, <1>5, <1>6, <1>7, ConsumeSteps

\* The end of a drain consumes all marked one-shots.
LEMMA EndDrainSteps ==
    ASSUME StInv, EndDrain
    PROVE  /\ StInv' /\ Alone /\ db'.journal = db.journal
           /\ Consumed(db, db', {m[2] : m \in db.marker}) /\ AllOff
           /\ drain.phase = "pick"
           /\ \A e \in Event, d \in Device :
                /\ Row(e, d)'.st = "sent" => Row(e, d).st = "sent"
                /\ SentAsBatch(Row(e, d)') => SentAsBatch(Row(e, d))
<1> DEFINE R == {m[2] : m \in db.marker}
<1>1. TypeInv /\ db \in Stores
    BY DEF StInv, TypeInv, TypeOK
<1>2. /\ drain.phase = "pick" /\ db' = ReconcileOneShots(db) /\ drain' = NoDrain
      /\ app' = app /\ io' = io /\ seen' = seen
    BY DEF EndDrain
<1>3. R \in SUBSET Revs /\ db' \in Stores /\ Consumed(db, db', R)
    BY <1>1, <1>2, ReconcileOneShotsEffect
<1> HIDE DEF R
<1>4. TypeInv'
    BY <1>1, <1>2, <1>3, Constants, WorkersType DEF TypeInv, TypeOK
<1>5. AllOff /\ \A d \in Device : io'[d] = Off
    BY <1>2, AloneOff, AllAreOff
<1>6. PhaseInv'
    BY <1>2, <1>5, NoDrainFields DEF PhaseInv, AllOff
<1>7. \A e \in Event : ~ InHand(e)'
    BY <1>2, NoDrainFields DEF InHand
<1>8. /\ StInv' /\ Alone /\ db'.journal = db.journal
      /\ \A e \in Event, d \in Device :
           /\ Row(e, d)'.st = "sent" => Row(e, d).st = "sent"
           /\ SentAsBatch(Row(e, d)') => SentAsBatch(Row(e, d))
    BY <1>2, <1>3, <1>4, <1>5, <1>6, <1>7, ConsumeSteps
<1> QED BY <1>2, <1>3, <1>5, <1>8 DEF R

\* A restart consumes all marked one-shots and decides nothing else.
LEMMA CrashSteps ==
    ASSUME StInv, Crash
    PROVE  /\ StInv' /\ Alone /\ db'.journal = db.journal
           /\ Consumed(db, db', {m[2] : m \in db.marker})
           /\ drain.phase # "boot" /\ drain'.phase = "boot" /\ Starting'
           /\ \A e \in Event, d \in Device :
                /\ Row(e, d)'.st = "sent" => Row(e, d).st = "sent"
                /\ SentAsBatch(Row(e, d)') => SentAsBatch(Row(e, d))
<1> DEFINE R == {m[2] : m \in db.marker}
           boot == [NoDrain EXCEPT !.phase = "boot"]
<1>1. TypeInv /\ db \in Stores /\ app \in Apps
    BY DEF StInv, TypeInv, TypeOK
<1>2. /\ drain.phase # "boot" /\ db' = ReconcileOneShots(db) /\ drain' = boot
      /\ io' = [d \in Device |-> Off] /\ seen' = seen /\ app.crashes > 0
    BY DEF Crash
<1>3. PICK kept \in SUBSET app.relevant :
         app' = [app EXCEPT !.relevant = kept, !.pending = {}, !.held = {},
                            !.tracked = {}, !.focused = FALSE,
                            !.recovered = {e \in Event : db.status[e] # "absent"},
                            !.crashes = @ - 1]
    BY Zenon DEF Crash
<1>4. app' \in Apps /\ app'.rev = app.rev /\ app'.recovered = {e \in Event : Known(e)}
    <2> DEFINE found == {e \in Event : db.status[e] # "absent"}
               left == app.crashes - 1
    <2>1. left \in 0 .. MaxCrashes /\ found \in SUBSET Event /\ kept \in SUBSET Event
        BY <1>1, <1>2, OneLess DEF Apps
    <2>2. app' = [app EXCEPT !.relevant = kept, !.pending = {}, !.held = {},
                             !.tracked = {}, !.focused = FALSE,
                             !.recovered = found, !.crashes = left]
        BY <1>3
    <2>3. found = {e \in Event : Known(e)}
        BY DEF Known
    <2> HIDE DEF left, found
    <2>4. app' = [relevant |-> kept, pending |-> {}, held |-> {}, tracked |-> {},
                  recovered |-> found, focused |-> FALSE, devices |-> app.devices,
                  rev |-> app.rev, moves |-> app.moves, crashes |-> left]
        BY <1>1, <2>2 DEF Apps
    <2>5. /\ app.devices \in SUBSET Device /\ app.rev \in Revs \cup {NoShot}
          /\ app.moves \in 0 .. MaxMoves
        BY <1>1 DEF Apps
    <2>6. app' \in Apps
        BY <2>1, <2>4, <2>5 DEF Apps
    <2> QED BY <2>3, <2>4, <2>6
<1>5. R \in SUBSET Revs /\ db' \in Stores /\ Consumed(db, db', R)
    BY <1>1, <1>2, ReconcileOneShotsEffect
<1> HIDE DEF R
<1>6. /\ boot.phase = "boot" /\ boot.todo = {} /\ boot.later = {} /\ boot.rel = {}
      /\ boot.fans = {} /\ ~ boot.whole /\ boot.shots = {}
      /\ boot.cand = [d \in Device |-> {}] /\ boot \in Drains
    <2>1. boot \in Drains
        BY Constants DEF Drains
    <2> QED BY <2>1, NoDrainFields
<1> HIDE DEF boot
<1>7. \A d \in Device : io'[d] = Off
    BY <1>2
<1>8. TypeInv'
    <2>1. io' \in [Device -> Workers]
        BY <1>2, Constants
    <2>2. \A d \in Device : io'[d].st \notin {"go", "sleep"}
        BY <1>7 DEF Off
    <2> QED BY <1>1, <1>2, <1>4, <1>5, <1>6, <2>1, <2>2 DEF TypeInv, TypeOK
<1>9. PhaseInv'
    <2>1. AllOff'
        BY <1>7 DEF AllOff, Off
    <2> QED BY <1>2, <1>6, <2>1 DEF PhaseInv
<1>10. \A e \in Event : ~ InHand(e)'
    BY <1>2, <1>6 DEF InHand
<1>11. /\ StInv' /\ Alone /\ db'.journal = db.journal
       /\ \A e \in Event : Known(e)' <=> Known(e)
       /\ \A e \in Event, d \in Device :
            /\ Row(e, d)'.st = "sent" => Row(e, d).st = "sent"
            /\ SentAsBatch(Row(e, d)') => SentAsBatch(Row(e, d))
    BY <1>2, <1>4, <1>5, <1>7, <1>8, <1>9, <1>10, ConsumeSteps
<1>12. Starting'
    BY <1>2, <1>4, <1>6, <1>11 DEF Starting
<1> QED BY <1>2, <1>5, <1>6, <1>11, <1>12 DEF R

-----------------------------------------------------------------------------
(* What is journaled, and what a row shows, was received; what was received *)
(* is over for its row, or owed to it.                                     *)
Got(e, d) == <<e, d>> \in seen.got
AllGot(S, d) == \A f \in S : Got(f, d)

JournalRow(e, d) ==
    /\ Accepted(io[d], e) /\ <<"log", e>> \notin io[d].writes =>
         /\ db.journal[e][d] = IF Cardinality(io[d].cur) > 1 THEN "batch" ELSE "single"
         /\ AllGot(io[d].cur, d)
    /\ db.journal[e][d] = "single" => Got(e, d)
    /\ db.journal[e][d] = "batch" => db.batchOf[e] # {} /\ AllGot(db.batchOf[e], d)
    /\ Row(e, d).st = "sent" => Got(e, d)
    /\ SentAsBatch(Row(e, d)) => db.batchOf[e] # {} /\ AllGot(db.batchOf[e], d)
    /\ Got(e, d) => Row(e, d).st # "none" /\ (Over(e, d) \/ Owed(e, d))

JournalInv == \A e \in Event, d \in Device : JournalRow(e, d)

\* What the journal proves was received, with all of its batch.
LEMMA ProvenGot ==
    ASSUME StInv, JournalInv, NEW e \in Event, NEW d \in Device, Proven(db, e, d)
    PROVE  /\ Got(e, d)
           /\ \A g \in Event : db.journal[g][d] = "batch" /\ e \in db.batchOf[g] =>
                db.batchOf[e] # {} /\ AllGot(db.batchOf[e], d)
<1>1. ASSUME NEW g \in Event, db.journal[g][d] = "batch", e \in db.batchOf[g]
      PROVE  Got(e, d) /\ db.batchOf[e] # {} /\ AllGot(db.batchOf[e], d)
    <2>1. db.batchOf[g] # {} /\ AllGot(db.batchOf[g], d)
        BY <1>1 DEF JournalInv, JournalRow
    <2>2. db.batchOf[e] = db.batchOf[g]
        BY <1>1, <2>1 DEF StInv, BatchInv
    <2> QED BY <1>1, <2>1, <2>2 DEF AllGot
<1>2. db.journal[e][d] = "single" => Got(e, d)
    BY DEF JournalInv, JournalRow
<1> QED BY <1>1, <1>2 DEF Proven

\* Steady steps keep the journal true.
LEMMA JournalSteady ==
    ASSUME StInv, JournalInv, Steady
    PROVE  JournalInv'
<1> SUFFICES ASSUME NEW e \in Event, NEW d \in Device
             PROVE  JournalRow(e, d)'
    BY DEF JournalInv
<1>1. JournalRow(e, d)
    BY DEF JournalInv
<1>2. /\ Traced(e, d)
      /\ Row(e, d)'.st = "sent" => Row(e, d).st = "sent"
      /\ SentAsBatch(Row(e, d)') => SentAsBatch(Row(e, d))
      /\ db'.journal[e][d] \in {db.journal[e][d], "done"}
      /\ Owed(e, d) => Owed(e, d)'
      /\ Accepted(io'[d], e) /\ <<"log", e>> \notin io'[d].writes =>
           /\ Accepted(io[d], e) /\ <<"log", e>> \notin io[d].writes
           /\ io'[d].cur = io[d].cur /\ db'.journal[e][d] = db.journal[e][d]
      /\ db.batchOf[e] # {} => db'.batchOf[e] = db.batchOf[e]
      /\ seen'.got = seen.got
    BY DEF Steady
<1>4. Accepted(io'[d], e) /\ <<"log", e>> \notin io'[d].writes =>
         /\ db'.journal[e][d] = IF Cardinality(io'[d].cur) > 1 THEN "batch" ELSE "single"
         /\ AllGot(io[d].cur, d)'
    BY <1>1, <1>2 DEF JournalRow, AllGot, Got
<1>5. /\ db'.journal[e][d] = "single" => Got(e, d)'
      /\ Row(e, d)'.st = "sent" => Got(e, d)'
      /\ Got(e, d)' => Row(e, d)'.st # "none" /\ (Over(e, d)' \/ Owed(e, d)')
    BY <1>1, <1>2 DEF JournalRow, Got, Traced
<1>6. /\ db'.journal[e][d] = "batch" => db'.batchOf[e] # {} /\ AllGot(db.batchOf[e], d)'
      /\ SentAsBatch(Row(e, d)') => db'.batchOf[e] # {} /\ AllGot(db.batchOf[e], d)'
    BY <1>1, <1>2 DEF JournalRow, AllGot, Got
<1> QED BY <1>2, <1>4, <1>5, <1>6 DEF JournalRow

\* The obligation of the steps after which no worker runs.
LEMMA JournalAlone ==
    ASSUME StInv, JournalInv, Alone,
           NEW e \in Event, NEW d \in Device,
           \/ db'.journal[e][d] \in {db.journal[e][d], "done"}
           \/ db'.journal[e][d] = "none",
           Row(e, d)'.st = "sent" => Got(e, d),
           SentAsBatch(Row(e, d)') => db.batchOf[e] # {} /\ AllGot(db.batchOf[e], d),
           Owed(e, d) => Over(e, d)' \/ Owed(e, d)'
    PROVE  JournalRow(e, d)'
<1>1. JournalRow(e, d) /\ Traced(e, d) /\ seen' = seen /\ io'[d] = Off
      /\ db'.batchOf = db.batchOf
    BY DEF JournalInv, Alone
<1>2. ~ Accepted(io'[d], e)
    BY <1>1 DEF Accepted, Off
<1>4. /\ db'.journal[e][d] = "single" => Got(e, d)'
      /\ Row(e, d)'.st = "sent" => Got(e, d)'
      /\ Got(e, d)' => Row(e, d)'.st # "none" /\ (Over(e, d)' \/ Owed(e, d)')
    BY <1>1 DEF JournalRow, Got, Traced
<1>5. /\ db'.journal[e][d] = "batch" => db'.batchOf[e] # {} /\ AllGot(db.batchOf[e], d)'
      /\ SentAsBatch(Row(e, d)') => db'.batchOf[e] # {} /\ AllGot(db.batchOf[e], d)'
    BY <1>1 DEF JournalRow, AllGot, Got
<1> QED BY <1>2, <1>4, <1>5 DEF JournalRow

\* Making up for lost receipts keeps the journal true.
LEMMA JournalDrain ==
    ASSUME StInv, JournalInv, Drain
    PROVE  JournalInv'
<1>1. Alone /\ Reconciled
    BY DrainSteps
<1> SUFFICES ASSUME NEW e \in Event, NEW d \in Device
             PROVE  JournalRow(e, d)'
    BY DEF JournalInv
<1>2. MadeUp(db, db', e, d) /\ db'.journal[e][d] \in {"none", "done"}
    BY <1>1 DEF Reconciled
<1>3. JournalRow(e, d)
    BY DEF JournalInv
<1>4. Row(e, d)'.st = "sent" => Got(e, d)
    BY <1>2, <1>3, ProvenGot DEF MadeUp, JournalRow, Row
<1>5. SentAsBatch(Row(e, d)') => db.batchOf[e] # {} /\ AllGot(db.batchOf[e], d)
    <2>1. CASE Row(e, d)' = Row(e, d)
        BY <1>3, <2>1 DEF JournalRow
    <2>2. CASE Row(e, d)' # Row(e, d)
        <3>1. /\ Proven(db, e, d)
              /\ Row(e, d)'.why = "batch" =>
                   \E g \in Event : db.journal[g][d] = "batch" /\ e \in db.batchOf[g]
            BY <1>2, <2>2 DEF MadeUp, Row
        <3> QED BY <3>1, ProvenGot DEF SentAsBatch
    <2> QED BY <2>1, <2>2
<1>6. Owed(e, d) => Over(e, d)'
    <2> SUFFICES ASSUME Owed(e, d) PROVE Over(e, d)'
        OBVIOUS
    <2>1. Proven(db, e, d) /\ Row(e, d).st # "none"
        BY <1>3, ProvenGot DEF Owed, JournalRow
    <2>2. Row(e, d)'.st = "sent"
        BY <1>2, <2>1 DEF MadeUp, Row
    <2>3. Settled(Row(e, d)')
        BY <2>2 DEF Settled, Unsettled
    <2>4. ~ Calls(io'[d], e)
        BY <1>1, NoCalls DEF Alone, Off
    <2> QED BY <2>3, <2>4 DEF Over
<1> QED BY <1>1, <1>2, <1>4, <1>5, <1>6, JournalAlone

\* So does spreading a batch, for the device has every member.
LEMMA JournalSpread ==
    ASSUME StInv, JournalInv, SpreadBatches
    PROVE  /\ JournalInv'
           /\ \A e \in Event, d \in Device : Row(e, d)'.st = "sent" => Got(e, d)
<1>1. Alone /\ Shared /\ drain.phase = "spread"
    BY SpreadSteps
<1>2. ASSUME NEW e \in Event, NEW d \in Device
      PROVE  JournalRow(e, d)' /\ (Row(e, d)'.st = "sent" => Got(e, d))
    <2>1. JournalRow(e, d) /\ db'.journal[e][d] \in {db.journal[e][d], "done"}
        BY <1>1 DEF JournalInv, Shared
    <2>2. Row(e, d)' # Row(e, d) =>
             Got(e, d) /\ db.batchOf[e] # {} /\ AllGot(db.batchOf[e], d)
        <3> SUFFICES ASSUME Row(e, d)' # Row(e, d)
                     PROVE  Got(e, d) /\ db.batchOf[e] # {} /\ AllGot(db.batchOf[e], d)
            OBVIOUS
        <3>1. PICK f \in Event, m \in Event :
                e \in db.batchOf[f] /\ m \in db.batchOf[e] /\ SentAsBatch(Row(m, d))
            BY <1>1 DEF Shared
        <3>2. /\ e \in db.batchOf[e] /\ db.batchOf[m] = db.batchOf[e]
            BY <3>1 DEF StInv, BatchInv
        <3>3. AllGot(db.batchOf[m], d)
            BY <3>1 DEF JournalInv, JournalRow
        <3> QED BY <3>2, <3>3 DEF AllGot
    <2>3. /\ Row(e, d)'.st = "sent" => Got(e, d)
          /\ SentAsBatch(Row(e, d)') => db.batchOf[e] # {} /\ AllGot(db.batchOf[e], d)
        BY <2>1, <2>2 DEF JournalRow
    <2>4. ~ Owed(e, d)
        BY <1>1, AloneOff DEF Owed, Accepted, AllOff
    <2> QED BY <1>1, <2>1, <2>3, <2>4, JournalAlone
<1> QED BY <1>2 DEF JournalInv

\* So do consuming one-shots and a crash.
LEMMA JournalConsume ==
    ASSUME StInv, JournalInv, ConsumeShots \/ EndDrain \/ Crash
    PROVE  JournalInv'
<1>1. /\ Alone /\ db'.journal = db.journal
      /\ \A e \in Event, d \in Device :
           /\ Row(e, d)'.st = "sent" => Row(e, d).st = "sent"
           /\ SentAsBatch(Row(e, d)') => SentAsBatch(Row(e, d))
      /\ drain'.phase = "boot" \/ (AllOff /\ drain.phase # "boot")
    BY ConsumeShotsSteps, EndDrainSteps, CrashSteps
<1> SUFFICES ASSUME NEW e \in Event, NEW d \in Device
             PROVE  JournalRow(e, d)'
    BY DEF JournalInv
<1>2. JournalRow(e, d)
    BY DEF JournalInv
<1>3. Owed(e, d) => Owed(e, d)'
    <2>1. AllOff /\ drain.phase # "boot" => ~ Owed(e, d)
        BY DEF Owed, Accepted, AllOff
    <2>2. Proven(db, e, d) => Proven(db, e, d)'
        BY <1>1 DEF Proven, Alone
    <2> QED BY <1>1, <2>1, <2>2 DEF Owed
<1>4. /\ Row(e, d)'.st = "sent" => Got(e, d)
      /\ SentAsBatch(Row(e, d)') => db.batchOf[e] # {} /\ AllGot(db.batchOf[e], d)
    BY <1>1, <1>2 DEF JournalRow
<1> QED BY <1>1, <1>3, <1>4, JournalAlone

\* What holds of the call whose answer a worker writes.
LEMMA Answering ==
    ASSUME StInv, NEW d \in Device, io[d].st = "write"
    PROVE  /\ io[d].cur \in SUBSET Event /\ io[d].cur \subseteq drain.rel
           /\ AnswerOk(io[d])
           /\ \A f : Accepted(io[d], f) => f \in io[d].cur /\ Calls(io[d], f)
           /\ Cardinality(io[d].cur) > 1 =>
                \A f \in io[d].cur : db.batchOf[f] = io[d].cur
           /\ ~ (Cardinality(io[d].cur) > 1) => \A f \in io[d].cur : io[d].cur = {f}
           /\ \A f \in Event : Calls(io[d], f) => f \in drain.rel
<1>1. io[d] \in Workers /\ WorkerOk(io[d], drain)
    BY DEF StInv, TypeInv, TypeOK, WorkerInv
<1>2. /\ io[d].cur \in SUBSET Event /\ io[d].cur \subseteq drain.rel
      /\ AnswerOk(io[d])
      /\ Cardinality(io[d].cur) > 1 => drain.whole /\ io[d].cur = drain.fan
    BY <1>1 DEF WorkerOk, Workers
<1>3. \A f : Accepted(io[d], f) => f \in io[d].cur /\ Calls(io[d], f)
    <2>1. ASSUME NEW f, Accepted(io[d], f) PROVE f \in io[d].cur /\ Calls(io[d], f)
        <3>1. <<"sent", f>> \in io[d].writes /\ "sent" \in Owing
            BY <2>1 DEF Accepted, Owing
        <3>2. <<"sent", f>>[1] # "batch" /\ <<"sent", f>>[2] = f
            OBVIOUS
        <3>3. f \in io[d].cur
            BY <1>2, <3>1, <3>2 DEF AnswerOk
        <3> QED BY <3>1, <3>3 DEF Calls
    <2> QED BY <2>1, Zenon
<1>4. Cardinality(io[d].cur) > 1 => \A f \in io[d].cur : db.batchOf[f] = io[d].cur
    BY <1>2 DEF StInv, PhaseInv
<1>5. ~ (Cardinality(io[d].cur) > 1) => \A f \in io[d].cur : io[d].cur = {f}
    BY <1>2, Several
<1>6. ASSUME NEW f \in Event, Calls(io[d], f) PROVE f \in drain.rel
    <2>1. PICK k \in Owing : <<k, f>> \in io[d].writes
        BY <1>6 DEF Calls
    <2>2. <<k, f>>[1] # "batch" /\ <<k, f>>[2] = f
        BY DEF Owing, Refusals
    <2> QED BY <1>2, <2>1, <2>2 DEF AnswerOk
<1> QED BY <1>2, <1>3, <1>4, <1>5, <1>6

\* A journaled acceptance is owed to all rows of its call.
LEMMA JournalLog ==
    ASSUME StInv, JournalInv, NEW d \in Device, NEW e \in Event,
           <<"log", e>> \in io[d].writes, Committed(d, <<"log", e>>)
    PROVE  /\ JournalInv'
           /\ \A f \in Event, c \in Device : Owed(f, c) => Owed(f, c)'
           /\ \A f \in io[d].cur : Calls(io[d], f) /\ Owed(f, d)'
<1> DEFINE x == <<"log", e>>
           w == io[d]
           kind == IF Cardinality(io[d].cur) > 1 THEN "batch" ELSE "single"
<1>1. /\ AfterWrite(d, x) /\ drain.phase = "send" /\ drain'.phase = "send"
      /\ \A f \in Event, c \in Device : Traced(f, c) /\ CommitRow(d, x, f, c)
      /\ db'.batchOf = db.batchOf /\ StInv'
      /\ seen' = IF x[1] = "log" THEN Received(d) ELSE seen
    BY CommitStruct
<1>2. w.st = "write" /\ Journaled(db, db', e, d, kind)
    <2>1. x[1] = "log" /\ x[2] = e
        OBVIOUS
    <2> QED BY <2>1 DEF Committed
<1>3. /\ w.cur \in SUBSET Event /\ AnswerOk(w)
      /\ \A f : Accepted(w, f) => f \in w.cur /\ Calls(w, f)
      /\ Cardinality(w.cur) > 1 => \A f \in w.cur : db.batchOf[f] = w.cur
      /\ ~ (Cardinality(w.cur) > 1) => \A f \in w.cur : w.cur = {f}
    BY <1>2, Answering
<1>4. e \in w.cur /\ \A f \in w.cur : Accepted(w, f)
    <2>1. x[1] # "batch" /\ x[2] = e
        OBVIOUS
    <2>2. \A f \in w.cur : <<"sent", f>> \in w.writes
        <3>1. <<"log", e>> \in w.writes
            OBVIOUS
        <3>2. \A g \in Event : <<"log", g>> \in w.writes =>
                \A f \in w.cur : <<"sent", f>> \in w.writes
            BY <1>3, Zenon DEF AnswerOk
        <3> QED BY <3>1, <3>2, Zenon
    <2> QED BY <1>1, <1>2, <2>1, <2>2 DEF AfterWrite, Accepted
<1>5. /\ \A f : Accepted(w, f) => Accepted(io'[d], f)
      /\ \A f : Accepted(io'[d], f) =>
           /\ Accepted(w, f) /\ io'[d].cur = w.cur
           /\ <<"log", f>> \in w.writes => <<"log", f>> \in io'[d].writes \/ f = e
      /\ \A c \in Device : c # d => io'[c] = io[c]
    <2>1. \A f : x # <<"sent", f>> /\ (x = <<"log", f>> => f = e)
        <3> TAKE f
        <3>1. <<"log", e>>[1] = "log" /\ <<"log", e>>[2] = e
              /\ <<"sent", f>>[1] = "sent" /\ <<"log", f>>[2] = f
            OBVIOUS
        <3> QED BY <3>1
    <2> QED BY <1>1, <2>1 DEF AfterWrite
<1>6. ASSUME NEW f \in w.cur PROVE Calls(w, f) /\ Owed(f, d)'
    <2>1. Proven(db, f, d)'
        <3>1. CASE Cardinality(w.cur) > 1
            <4>1. db'.journal[e][d] = "batch" /\ f \in db'.batchOf[e]
                BY <1>1, <1>2, <1>3, <1>4, <3>1 DEF Journaled
            <4> QED BY <4>1 DEF Proven
        <3>2. CASE ~ (Cardinality(w.cur) > 1)
            <4>1. f = e
                BY <1>3, <1>4, <3>2
            <4>2. db'.journal[e][d] = "single"
                BY <1>2, <3>2 DEF Journaled
            <4> QED BY <4>1, <4>2 DEF Proven
        <3> QED BY <3>1, <3>2
    <2> QED BY <1>3, <1>4, <1>5, <2>1 DEF Owed
<1>7. ASSUME NEW f \in Event, NEW c \in Device, Owed(f, c) PROVE Owed(f, c)'
    <2>1. Accepted(io[c], f)
        BY <1>1, <1>7 DEF Owed
    <2>2. CASE c = d
        BY <1>3, <1>6, <2>1, <2>2
    <2>3. CASE c # d
        <3>1. \A g \in Event : db'.journal[g][c] = db.journal[g][c]
            BY <1>2, <2>3 DEF Journaled
        <3> QED BY <1>1, <1>5, <1>7, <2>3, <3>1 DEF Owed, Proven
    <2> QED BY <2>2, <2>3
<1>8. seen'.got = seen.got \cup (w.cur \X {d})
    <2>1. seen' = Received(d)
        BY <1>1
    <2>2. seen \in [got : SUBSET (Event \X Device), spent : [Revs -> SUBSET Event],
                    revoked : SUBSET (Event \X Device \X Revs)]
        BY DEF StInv, TypeInv, TypeOK
    <2> DEFINE got == seen.got \cup (w.cur \X {d})
               spent == [r \in Revs |->
                    IF seen.spent[r] = {} /\ \E g \in io[d].cur : db.row[g][d].shot = r
                    THEN drain.rel ELSE seen.spent[r]]
    <2>3. Received(d) = [seen EXCEPT !.got = got, !.spent = spent]
        BY Zenon DEF Received
    <2> HIDE DEF got, spent
    <2>4. seen'.got = got
        BY <2>1, <2>2, <2>3
    <2> QED BY <2>4 DEF got
<1>9. ASSUME NEW f \in Event, NEW c \in Device PROVE JournalRow(f, c)'
    <2>1. JournalRow(f, c) /\ Traced(f, c) /\ CommitRow(d, x, f, c)
        BY <1>1 DEF JournalInv
    <2>2. /\ \A g \in Event : Got(g, c) => Got(g, c)'
          /\ Got(f, c)' => Got(f, c) \/ (c = d /\ f \in w.cur)
          /\ \A g \in w.cur : Got(g, d)'
        BY <1>8 DEF Got
    <2>3. \A S \in SUBSET Event : AllGot(S, c) => \A g \in S : Got(g, c)'
        BY <2>2 DEF AllGot
    <2>4. db.batchOf[f] \in SUBSET Event
        BY DEF StInv, TypeInv, TypeOK, Stores
    <2>5. /\ db'.journal[f][c] = "single" => Got(f, c)'
          /\ db'.journal[f][c] = "batch" =>
               db'.batchOf[f] # {} /\ \A g \in db'.batchOf[f] : Got(g, c)'
        <3>1. CASE f = e /\ c = d
            <4>1. db'.journal[e][d] = kind
                BY <1>2 DEF Journaled
            <4>2. kind = "batch" => db'.batchOf[e] = w.cur
                BY <1>1, <1>3, <1>4
            <4> HIDE DEF kind
            <4> QED BY <1>4, <2>2, <3>1, <4>1, <4>2
        <3>2. CASE ~ (f = e /\ c = d)
            <4>1. db'.journal[f][c] = db.journal[f][c]
                BY <1>2, <3>2 DEF Journaled
            <4> QED BY <1>1, <2>1, <2>2, <2>3, <2>4, <4>1 DEF JournalRow
        <3> QED BY <3>1, <3>2
    <2>6. /\ Row(f, c)'.st = "sent" => Got(f, c)'
          /\ SentAsBatch(Row(f, c)') => db'.batchOf[f] # {} /\ \A g \in db'.batchOf[f] : Got(g, c)'
        <3>1. /\ Row(f, c)'.st = "sent" => Row(f, c).st = "sent"
              /\ SentAsBatch(Row(f, c)') => SentAsBatch(Row(f, c))
            <4>1. Row(f, c)' = Row(f, c)
                BY <1>2 DEF Journaled, Row
            <4> QED BY <4>1
        <3> QED BY <1>1, <2>1, <2>2, <2>3, <2>4, <3>1 DEF JournalRow
    <2>7. Got(f, c)' => Row(f, c)'.st # "none" /\ (Over(f, c)' \/ Owed(f, c)')
        <3>1. CASE Got(f, c)
            BY <1>7, <2>1, <3>1 DEF JournalRow, Traced
        <3>2. CASE c = d /\ f \in w.cur
            <4>1. Calls(io[d], f) /\ Owed(f, d)'
                BY <1>6, <3>2
            <4>2. Row(f, d).st # "none"
                BY <4>1 DEF StInv, RowInv, OneShotClosed
            <4> QED BY <2>1, <3>2, <4>1, <4>2 DEF Traced
        <3> QED BY <2>2, <3>1, <3>2
    <2>8. Accepted(io'[c], f) /\ <<"log", f>> \notin io'[c].writes =>
            /\ db'.journal[f][c] = IF Cardinality(io'[c].cur) > 1 THEN "batch" ELSE "single"
            /\ \A g \in io'[c].cur : Got(g, c)'
        <3> SUFFICES ASSUME Accepted(io'[c], f), <<"log", f>> \notin io'[c].writes
                     PROVE  /\ db'.journal[f][c] = IF Cardinality(io'[c].cur) > 1
                                                   THEN "batch" ELSE "single"
                            /\ \A g \in io'[c].cur : Got(g, c)'
            OBVIOUS
        <3>1. CASE c = d
            <4>1. io'[d].cur = w.cur /\ \A g \in io'[d].cur : Got(g, d)'
                BY <1>5, <2>2, <3>1
            <4>2. CASE f = e
                BY <1>2, <3>1, <4>1, <4>2 DEF Journaled
            <4>3. CASE f # e
                <5>1. Accepted(w, f) /\ <<"log", f>> \notin w.writes
                    BY <1>5, <3>1, <4>3
                <5>2. db'.journal[f][d] = db.journal[f][d]
                    BY <1>2, <4>3 DEF Journaled
                <5> QED BY <2>1, <3>1, <4>1, <5>1, <5>2 DEF JournalRow
            <4> QED BY <4>2, <4>3
        <3>2. CASE c # d
            <4>1. io'[c] = io[c] /\ db'.journal[f][c] = db.journal[f][c]
                BY <1>2, <1>5, <3>2 DEF Journaled
            <4>2. io[c].cur \in SUBSET Event
                BY DEF StInv, TypeInv, TypeOK, Workers
            <4> QED BY <2>1, <2>3, <4>1, <4>2 DEF JournalRow
        <3> QED BY <3>1, <3>2
    <2> QED BY <2>5, <2>6, <2>7, <2>8 DEF JournalRow, AllGot
<1> QED BY <1>6, <1>7, <1>9 DEF JournalInv

\* A receipt ends what is owed to its row, and no other debt.
LEMMA JournalSent ==
    ASSUME StInv, JournalInv, NEW d \in Device, NEW e \in Event,
           <<"sent", e>> \in io[d].writes, Committed(d, <<"sent", e>>)
    PROVE  /\ JournalInv' /\ Got(e, d) /\ Row(e, d).st # "none"
           /\ \A f \in Event, c \in Device :
                Owed(f, c) => (f = e /\ c = d) \/ Owed(f, c)'
<1> DEFINE x == <<"sent", e>>
           w == io[d]
           kind == IF Cardinality(io[d].cur) > 1 THEN "batch" ELSE "single"
           why == IF Cardinality(io[d].cur) > 1 THEN "batch" ELSE "plain"
<1>1. /\ AfterWrite(d, x) /\ drain.phase = "send" /\ drain'.phase = "send"
      /\ \A f \in Event, c \in Device : Traced(f, c) /\ CommitRow(d, x, f, c)
      /\ db'.batchOf = db.batchOf
      /\ seen' = IF x[1] = "log" THEN Received(d) ELSE seen
    BY CommitStruct
<1>2. /\ w.st = "write" /\ Receipted(db, db', {<<e, d>>}, "sent", "none", why)
      /\ seen' = seen
    <2>1. x[1] = "sent" /\ x[2] = e /\ x[1] # "log"
        OBVIOUS
    <2> QED BY <1>1, <2>1 DEF Committed
<1>3. /\ Cardinality(w.cur) > 1 => \A f \in w.cur : db.batchOf[f] = w.cur
      /\ \A f : Accepted(w, f) => f \in w.cur
    BY <1>2, Answering
<1>4. \A f : /\ <<"log", f>> \notin w.writes /\ x # <<"log", f>>
             /\ f # e => x # <<"sent", f>>
    <2>1. \A f : <<"log", f>> \notin w.writes
        <3>1. x[1] = "sent"
            OBVIOUS
        <3> QED BY <1>1, <3>1, Zenon DEF AfterWrite
    <2>2. ASSUME NEW f PROVE x # <<"log", f>> /\ (f # e => x # <<"sent", f>>)
        <3>1. <<"log", f>>[1] # x[1] /\ <<"sent", f>>[2] = f /\ x[2] = e
            OBVIOUS
        <3> QED BY <3>1
    <2> HIDE DEF x
    <2> QED BY <2>1, <2>2, Zenon
<1>5. ASSUME NEW f \in Event, Accepted(w, f)
      PROVE  db.journal[f][d] = kind /\ AllGot(w.cur, d)
    <2>1. JournalRow(f, d)
        BY DEF JournalInv
    <2> QED BY <1>4, <1>5, <2>1 DEF JournalRow
<1>6. Accepted(w, e) /\ e \in w.cur /\ Got(e, d) /\ Row(e, d).st # "none"
    <2>1. Accepted(w, e) /\ e \in w.cur
        BY <1>2, <1>3 DEF Accepted
    <2>2. Got(e, d)
        BY <1>5, <2>1 DEF AllGot
    <2> QED BY <2>1, <2>2 DEF JournalInv, JournalRow
<1>7. /\ ~ Calls(io'[d], e) /\ ~ Accepted(io'[d], e)
      /\ \A f : Accepted(io'[d], f) => Accepted(w, f) /\ io'[d].cur = w.cur
      /\ \A f : Accepted(w, f) => Accepted(io'[d], f) \/ f = e
      /\ \A c \in Device : c # d => io'[c] = io[c]
    <2>1. x[1] = "sent" /\ x[2] = e
        OBVIOUS
    <2> QED BY <1>1, <1>4, <2>1 DEF AfterWrite
<1>8. /\ Row(e, d)'.st = "sent" /\ Row(e, d)'.at = "none" /\ Row(e, d)'.why = why
      /\ db'.journal[e][d] \in {"none", "done"}
      /\ \A f \in Event, c \in Device : f # e \/ c # d =>
           db'.journal[f][c] = db.journal[f][c]
    <2>1. Stored(db, {<<e, d>>}, "sent", e, d)
        BY <1>6 DEF Stored, Row
    <2>2. \A f \in Event, c \in Device : f # e \/ c # d =>
            ~ Stored(db, {<<e, d>>}, "sent", f, c)
        BY DEF Stored
    <2> HIDE DEF why
    <2>4. \A f \in Event, c \in Device :
            LET r == db.row[f][c]
                n == db'.row[f][c] IN
            IF Stored(db, {<<e, d>>}, "sent", f, c)
            THEN /\ n.st = "sent" /\ n.at = "none" /\ n.why = why /\ n.shot = r.shot
                 /\ db'.journal[f][c] = IF db.journal[f][c] = "none" THEN "none" ELSE "done"
            ELSE n = r /\ db'.journal[f][c] = db.journal[f][c]
        BY <1>2, Zenon DEF Receipted
    <2>3. \A f \in Event, c \in Device :
            IF Stored(db, {<<e, d>>}, "sent", f, c)
            THEN /\ db'.row[f][c].st = "sent" /\ db'.row[f][c].at = "none"
                 /\ db'.row[f][c].why = why
                 /\ db'.journal[f][c] \in {"none", "done"}
            ELSE db'.journal[f][c] = db.journal[f][c]
        BY <2>4
    <2> QED BY <2>1, <2>2, <2>3 DEF Row
<1>9. ASSUME NEW f \in Event, NEW c \in Device, Owed(f, c), ~ (f = e /\ c = d)
      PROVE  Owed(f, c)'
    <2>1. Accepted(io[c], f) /\ Proven(db, f, c)
        BY <1>1, <1>9 DEF Owed
    <2>2. CASE c = d
        <3>1. f # e /\ Accepted(io'[d], f) /\ db'.journal[f][d] = kind
            BY <1>5, <1>7, <1>8, <1>9, <2>1, <2>2
        <3>2. kind = "batch" => f \in db'.batchOf[f]
            BY <1>1, <1>3, <2>1, <2>2
        <3> QED BY <2>2, <3>1, <3>2 DEF Owed, Proven
    <2>3. CASE c # d
        BY <1>1, <1>7, <1>8, <2>1, <2>3 DEF Owed, Proven
    <2> QED BY <2>2, <2>3
<1>10. Over(e, d)'
    BY <1>7, <1>8 DEF Over, Settled, Unsettled, Row
<1>11. ASSUME NEW f \in Event, NEW c \in Device PROVE JournalRow(f, c)'
    <2>1. JournalRow(f, c) /\ Traced(f, c) /\ CommitRow(d, x, f, c)
        BY <1>1 DEF JournalInv
    <2>2. Accepted(io'[c], f) /\ <<"log", f>> \notin io'[c].writes =>
            /\ db'.journal[f][c] = IF Cardinality(io'[c].cur) > 1
                                   THEN "batch" ELSE "single"
            /\ AllGot(io'[c].cur, c)
        <3>1. CASE c = d
            <4>1. Accepted(io'[d], f) => f # e
                BY <1>7
            <4> QED BY <1>5, <1>7, <1>8, <3>1, <4>1
        <3>2. CASE c # d
            BY <1>7, <1>8, <2>1, <3>2 DEF JournalRow
        <3> QED BY <3>1, <3>2
    <2>3. /\ db'.journal[f][c] = "single" => Got(f, c)
          /\ db'.journal[f][c] = "batch" => db.batchOf[f] # {} /\ AllGot(db.batchOf[f], c)
        BY <1>8, <2>1 DEF JournalRow
    <2>4. CASE f = e /\ c = d
        <3>1. SentAsBatch(Row(e, d)') => db.batchOf[e] # {} /\ AllGot(db.batchOf[e], d)
            BY <1>3, <1>5, <1>6, <1>8 DEF SentAsBatch
        <3>2. Row(e, d)'.st # "none"
            BY <1>8
        <3> QED BY <1>1, <1>2, <1>6, <1>10, <2>2, <2>3, <2>4, <3>1, <3>2
                DEF JournalRow, Got, AllGot
    <2>5. CASE ~ (f = e /\ c = d)
        <3>1. x # <<"sent", f>> \/ c # d
            BY <1>4, <2>5
        <3>2. /\ Row(f, c)'.st = "sent" => Got(f, c)
              /\ SentAsBatch(Row(f, c)') => db.batchOf[f] # {} /\ AllGot(db.batchOf[f], c)
            BY <2>1, <3>1 DEF JournalRow, CommitRow
        <3>3. Got(f, c) => Row(f, c)'.st # "none" /\ (Over(f, c)' \/ Owed(f, c)')
            BY <1>9, <2>1, <2>5 DEF JournalRow, CommitRow, Traced
        <3> QED BY <1>1, <1>2, <2>2, <2>3, <3>2, <3>3 DEF JournalRow, Got, AllGot
    <2> QED BY <2>4, <2>5
<1> QED BY <1>6, <1>9, <1>11 DEF JournalInv

-----------------------------------------------------------------------------
(* Every step is steady, or one of those that receive, prove or spend. *)
LoggedBy(d, e) == <<"log", e>> \in io[d].writes /\ Committed(d, <<"log", e>>)
SentBy(d, e) == <<"sent", e>> \in io[d].writes /\ Committed(d, <<"sent", e>>)

\* A commit is steady, or journals or records an acceptance.
LEMMA CommitKinds ==
    ASSUME StInv, NEW d \in Device, Commit(d)
    PROVE  \/ StInv' /\ Steady
           \/ \E e \in Event : LoggedBy(d, e) \/ SentBy(d, e)
<1>1. TypeInv /\ io[d] \in Workers /\ WorkerOk(io[d], drain) /\ io[d].st = "write"
    BY DEF StInv, WorkerInv, TypeInv, TypeOK, Commit
<1>2. \A x \in io[d].writes : x[1] = "mark" => db.status[x[2]] # "absent"
    <2>1. SUFFICES ASSUME NEW x \in io[d].writes, x[1] = "mark"
                   PROVE  db.status[x[2]] # "absent"
        OBVIOUS
    <2>2. x[2] \in io[d].cur /\ io[d].cur \subseteq drain.rel
        BY <1>1, <2>1 DEF WorkerOk, AnswerOk
    <2>3. x[2] \in Event
        BY <1>1, <2>1 DEF Workers
    <2> QED BY <2>2, <2>3 DEF StInv, KnownInv, InHand, Known
<1>3. PICK x \in io[d].writes : Committed(d, x)
    BY <1>1, <1>2, CommitEffect
<1>4. PICK e \in Event : x = <<x[1], e>>
    BY <1>1 DEF Workers
<1>5. CASE x[1] = "log"
    BY <1>3, <1>4, <1>5 DEF LoggedBy
<1>6. CASE x[1] = "sent"
    BY <1>3, <1>4, <1>6 DEF SentBy
<1>7. CASE x[1] \notin {"log", "sent"}
    BY <1>3, <1>7, CommitStruct, CommitSteady
<1> QED BY <1>5, <1>6, <1>7

\* Every step is of one of these kinds.
LEMMA StepKinds ==
    ASSUME StInv, Next
    PROVE  \/ StInv' /\ Steady
           \/ Drain \/ SpreadBatches \/ ConsumeShots \/ EndDrain \/ Crash
           \/ \E d \in Device, e \in Event : LoggedBy(d, e) \/ SentBy(d, e)
<1>1. CASE UserStep
    BY <1>1, UserSteps
<1>2. CASE \E d \in Device : CallStep(d)
    BY <1>2, CallSteps
<1>3. CASE \E d \in Device : Look(d)
    BY <1>3, LookSteps
<1>4. CASE \E d \in Device : Skip(d)
    BY <1>4, SkipSteps
<1>5. CASE \E d \in Device : Commit(d)
    BY <1>5, CommitKinds
<1>6. CASE List \/ GroupCompletions \/ Triage \/ DecideRows \/ Settle
    BY <1>6, ListSteps, GroupSteps, TriageSteps, DecideSteps, SettleSteps
<1>7. CASE \E G \in drain.todo : Process(G)
    BY <1>7, ProcessSteps
<1>8. CASE \E g \in drain.fans : StartFan(g)
    BY <1>8, StartFanSteps
<1>9. CASE \E s \in Governing, mode \in Modes : SetPolicy(s, mode)
    BY <1>9, SetPolicySteps
<1>10. CASE Drain \/ SpreadBatches \/ ConsumeShots \/ EndDrain \/ Crash
    BY <1>10
<1>11. \/ UserStep \/ Crash
       \/ \E d \in Device : CallStep(d)
       \/ \E s \in Governing, mode \in Modes : SetPolicy(s, mode)
       \/ Work
    BY Zenon DEF Next, UserStep, CallStep
<1>12. CASE Work
    <2>1. \/ Drain \/ List \/ GroupCompletions \/ Triage \/ DecideRows \/ SpreadBatches
          \/ ConsumeShots \/ Settle \/ EndDrain
          \/ \E G \in drain.todo : Process(G)
          \/ \E g \in drain.fans : StartFan(g)
          \/ \E d \in Device : \/ Look(d) \/ Skip(d) \/ Commit(d) \/ CallStep(d)
        BY <1>12, Zenon DEF Work, CallStep
    <2> QED BY <2>1, <1>2, <1>3, <1>4, <1>5, <1>6, <1>7, <1>8, <1>10
<1> QED BY <1>1, <1>2, <1>9, <1>10, <1>11, <1>12

\* Nothing changes the structure or the journal when no step is made.
LEMMA StutterKeeps ==
    ASSUME StInv, JournalInv, UNCHANGED vars PROVE StInv' /\ JournalInv'
<1>1. StInv'
    BY DEF vars, StInv, TypeInv, TypeOK, PhaseInv, KnownInv, WorkerInv, WorkerOk,
           BatchInv, RowInv, RevInv, Known, InHand, Row, AllOff, Calls, AnswerOk
<1>2. ASSUME NEW e \in Event, NEW d \in Device PROVE JournalRow(e, d)'
    <2>1. JournalRow(e, d) /\ db' = db /\ io' = io /\ seen' = seen /\ drain' = drain
        BY DEF vars, JournalInv
    <2>2. /\ Over(e, d)' <=> Over(e, d)
          /\ Owed(e, d)' <=> Owed(e, d)
        BY <2>1 DEF Over, Calls, Row, Owed, Proven, Accepted
    <2> QED BY <2>1, <2>2 DEF JournalRow, Row, Got, AllGot
<1> QED BY <1>1, <1>2 DEF JournalInv

\* Every step keeps the structure and the journal.
LEMMA JournalKept ==
    ASSUME StInv, JournalInv, [Next]_vars
    PROVE  StInv' /\ JournalInv'
<1>1. CASE Next
    <2>1. CASE StInv' /\ Steady
        BY <2>1, JournalSteady
    <2>2. CASE Drain
        BY <2>2, DrainSteps, JournalDrain
    <2>3. CASE SpreadBatches
        BY <2>3, SpreadSteps, JournalSpread
    <2>4. CASE ConsumeShots \/ EndDrain \/ Crash
        BY <2>4, ConsumeShotsSteps, EndDrainSteps, CrashSteps, JournalConsume
    <2>5. ASSUME NEW d \in Device, NEW e \in Event, LoggedBy(d, e)
          PROVE  StInv' /\ JournalInv'
        BY <2>5, CommitStruct, JournalLog DEF LoggedBy
    <2>6. ASSUME NEW d \in Device, NEW e \in Event, SentBy(d, e)
          PROVE  StInv' /\ JournalInv'
        BY <2>6, CommitStruct, JournalSent DEF SentBy
    <2> QED BY <1>1, <2>1, <2>2, <2>3, <2>4, <2>5, <2>6, StepKinds
<1>2. CASE UNCHANGED vars
    BY <1>2, StutterKeeps
<1> QED BY <1>1, <1>2

-----------------------------------------------------------------------------
(* A call starts only in Launch, for events that have just qualified. *)
LEMMA SendsFrom ==
    ASSUME StInv, [Next]_vars, NEW e \in Event, NEW d \in Device, Sends(e, d)
    PROVE  io[d].st = "go" /\ e \in io[d].keep /\ db' = db /\ seen' = seen
<1> DEFINE Goal == io[d].st = "go" /\ e \in io[d].keep /\ db' = db /\ seen' = seen
<1>1. /\ io \in [Device -> Workers] /\ io[d].st # "wire" /\ io'[d].st = "wire"
      /\ e \in io'[d].cur
    BY DEF StInv, TypeInv, TypeOK, Sends
<1>2. \A S : Next1(S).st # "wire"
    BY DEF Next1, Off
<1>3. io' # io
    BY <1>1
<1>4. ASSUME NEW c \in Device, Launch(c) PROVE Goal
    BY <1>1, <1>2, <1>4 DEF Launch
<1>0. \A c \in Device : \A W : ~ Answered(c, W)
    <2>1. ASSUME NEW c \in Device, NEW W, Answered(c, W) PROVE FALSE
        <3> DEFINE w == [io EXCEPT ![c].st = "write"]
        <3>1. io' = [w EXCEPT ![c].writes = W]
            BY <2>1, Zenon DEF Answered
        <3>2. w[d].st = "write" \/ w[d] = io[d]
            BY <1>1
        <3>3. w[c] = [io[c] EXCEPT !.st = "write"] /\ DOMAIN w = Device
            BY <1>1
        <3> HIDE DEF w
        <3>4. io'[d] = w[d] \/ io'[d] = [w[d] EXCEPT !.writes = W]
            BY <1>1, <3>1, <3>3
        <3>5. io'[d].st = w[d].st
            BY <1>1, <3>1, <3>2, <3>3, <3>4 DEF Workers
        <3> QED BY <1>1, <3>2, <3>5
    <2> QED BY <2>1, Zenon
<1>5. ASSUME NEW c \in Device, Retry(c) \/ Accept(c) \/ Pause(c) \/ \E S : Fail(c, S)
      PROVE  FALSE
    <2>2. CASE Retry(c)
        BY <1>1, <2>2 DEF Retry
    <2>3. CASE Accept(c)
        BY <1>0, <2>3, Zenon DEF Accept
    <2>4. CASE Pause(c)
        BY <1>1, <2>4 DEF Pause
    <2>5. ASSUME NEW S, Fail(c, S) PROVE FALSE
        BY <1>0, <2>5, Zenon DEF Fail
    <2> QED BY <1>5, <2>2, <2>3, <2>4, <2>5
<1>6. ASSUME NEW c \in Device, Gone(c) PROVE FALSE
    BY <1>6, <1>0, Zenon DEF Gone
<1>7. ASSUME NEW c \in Device, Look(c) PROVE FALSE
    <2>1. PICK a, k : io' = [io EXCEPT ![c].ask = a, ![c].keep = k]
        BY <1>7, Zenon DEF Look
    <2> QED BY <1>1, <2>1
<1>8. ASSUME NEW c \in Device, Skip(c) PROVE FALSE
    BY <1>1, <1>2, <1>8 DEF Skip
<1>9. ASSUME NEW c \in Device, Commit(c) PROVE FALSE
    <2>1. PICK x : io' = [io EXCEPT ![c] = IF io[c].writes # {x}
                                           THEN [io[c] EXCEPT !.writes = @ \ {x}]
                                           ELSE Next1(io[c].left)]
        BY <1>9, Zenon DEF Commit
    <2> QED BY <1>1, <1>2, <2>1
<1>10. ASSUME NEW g \in drain.fans, StartFan(g) PROVE FALSE
    <2> DEFINE mine(c) == drain.cand[c] \cap g
               go(S) == [Off EXCEPT !.st = "go", !.cur = S, !.ask = S]
    <2>1. io' = [c \in Device |-> IF mine(c) = {} THEN Off ELSE go(mine(c))]
        BY <1>10, Zenon DEF StartFan
    <2>2. \A S : go(S).st # "wire"
        BY DEF Off
    <2> HIDE DEF mine, go
    <2>3. Off.st # "wire"
        BY DEF Off
    <2>4. io'[d] = Off \/ io'[d] = go(mine(d))
        BY <2>1
    <2> QED BY <1>1, <2>2, <2>3, <2>4
<1>11. ASSUME Crash PROVE FALSE
    BY <1>1, <1>11 DEF Crash, Off
<1>12. ASSUME UserStep PROVE FALSE
    BY <1>3, <1>12, UserEffect DEF UserEdit, StInv, TypeInv
<1>13. ASSUME Drain \/ List \/ GroupCompletions \/ Triage \/ DecideRows
              \/ SpreadBatches \/ ConsumeShots \/ Settle \/ EndDrain
       PROVE  FALSE
    BY <1>3, <1>13, Zenon DEF Drain, List, GroupCompletions, Triage, DecideRows,
                       SpreadBatches, ConsumeShots, Settle, EndDrain
<1>14. ASSUME NEW G \in drain.todo, Process(G) PROVE FALSE
    BY <1>3, <1>14 DEF Process
<1>15. ASSUME NEW s \in Governing, NEW mode \in Modes, SetPolicy(s, mode) PROVE FALSE
    BY <1>3, <1>15 DEF SetPolicy
<1>16. ASSUME UNCHANGED vars PROVE FALSE
    BY <1>3, <1>16 DEF vars
<1>17. Next
    BY <1>16
<1>18. \/ UserStep \/ Crash
       \/ \E c \in Device : Gone(c)
       \/ \E s \in Governing, mode \in Modes : SetPolicy(s, mode)
       \/ Work
    BY <1>17, Zenon DEF Next, UserStep
<1>19. CASE Work
    BY <1>4, <1>5, <1>7, <1>8, <1>9, <1>10, <1>13, <1>14, <1>19, Zenon DEF Work
<1> QED BY <1>6, <1>11, <1>12, <1>15, <1>18, <1>19

-----------------------------------------------------------------------------
(* What the user has revoked is over, and its revision never comes back. *)
RevokedInv == \A e \in Event, d \in Device, r \in Revs :
    <<e, d, r>> \in seen.revoked =>
      /\ r <= app.rev /\ db.policy[PolicyOf[e]].rev # r
      /\ Row(e, d).shot = r => Over(e, d)

\* Every step traces each row, and a policy gets no old revision back.
LEMMA StepTraced ==
    ASSUME StInv, Next
    PROVE  /\ \A e \in Event, d \in Device : Traced(e, d)
           /\ \A s \in Source :
                db'.policy[s].rev \in {db.policy[s].rev, NoShot, app.rev + 1}
<1>1. CASE Steady
    BY <1>1 DEF Steady
<1>2. CASE Drain \/ SpreadBatches \/ ConsumeShots \/ EndDrain \/ Crash
    <2>1. Alone
        BY <1>2, DrainSteps, SpreadSteps, ConsumeShotsSteps, EndDrainSteps, CrashSteps
    <2> QED BY <2>1 DEF Alone
<1>3. ASSUME NEW d \in Device, NEW e \in Event, LoggedBy(d, e) \/ SentBy(d, e)
      PROVE  /\ \A f \in Event, c \in Device : Traced(f, c)
             /\ db'.policy = db.policy
    BY <1>3, CommitStruct DEF LoggedBy, SentBy
<1> QED BY <1>1, <1>2, <1>3, StepKinds

\* Only the user makes a revision, or revokes one.
LEMMA RevisionKept ==
    ASSUME StInv, Next,
           ~ \E s \in Governing, mode \in Modes : SetPolicy(s, mode)
    PROVE  app'.rev = app.rev /\ seen'.revoked = seen.revoked
<1> DEFINE Goal == app'.rev = app.rev /\ seen'.revoked = seen.revoked
<1>1. TypeInv /\ app \in Apps
    BY DEF StInv, TypeInv, TypeOK
<1>2. CASE UserStep
    BY <1>1, <1>2, UserEffect DEF UserEdit, TypeInv
<1>3. ASSUME app' = app, seen' = seen PROVE Goal
    BY <1>3
<1>4. \A t : [app EXCEPT !.tracked = t].rev = app.rev
    BY <1>1 DEF Apps
<1>5. CASE List \/ GroupCompletions \/ Triage \/ Settle \/ \E d \in Device : Look(d)
    <2>1. seen' = seen /\ \E t : app' = [app EXCEPT !.tracked = t]
        BY <1>5, Zenon DEF List, GroupCompletions, Triage, Settle, Look
    <2> QED BY <1>4, <2>1
<1>6. CASE Drain \/ DecideRows \/ SpreadBatches \/ ConsumeShots \/ EndDrain
           \/ (\E G \in drain.todo : Process(G)) \/ (\E g \in drain.fans : StartFan(g))
           \/ \E d \in Device : Skip(d)
    <2>1. app' = app /\ seen' = seen
        BY <1>6, Zenon DEF Drain, DecideRows, SpreadBatches, ConsumeShots, EndDrain,
                           Process, StartFan, Skip
    <2> QED BY <2>1
<1>7. ASSUME NEW d \in Device, CallStep(d) PROVE Goal
    <2>1. io[d].st # "off" => io[d].cur # {}
        BY DEF StInv, WorkerInv, WorkerOk
    <2>2. CallMade(d)
        BY <1>1, <1>7, <2>1, CallEffect
    <2>3. app'.rev = app.rev /\ seen' = seen
        BY <2>2, Zenon DEF CallMade
    <2> QED BY <2>3
<1>8. ASSUME NEW d \in Device, Commit(d) PROVE Goal
    <2>1. app' = app /\ (seen' = Received(d) \/ seen' = seen)
        BY <1>8, Zenon DEF Commit
    <2>2. Received(d).revoked = seen.revoked
        <3>1. seen \in [got : SUBSET (Event \X Device), spent : [Revs -> SUBSET Event],
                        revoked : SUBSET (Event \X Device \X Revs)]
            BY <1>1 DEF TypeInv, TypeOK
        <3>2. \A a, b : [seen EXCEPT !.got = a, !.spent = b].revoked = seen.revoked
            BY <3>1
        <3>3. \E a, b : Received(d) = [seen EXCEPT !.got = a, !.spent = b]
            BY Zenon DEF Received
        <3> QED BY <3>2, <3>3
    <2> QED BY <2>1, <2>2
<1>9. CASE Crash
    <2>1. seen' = seen
        BY <1>9 DEF Crash
    <2>2. PICK kept \in SUBSET app.relevant :
         app' = [app EXCEPT !.relevant = kept, !.pending = {}, !.held = {},
                            !.tracked = {}, !.focused = FALSE,
                            !.recovered = {e \in Event : db.status[e] # "absent"},
                            !.crashes = @ - 1]
        BY <1>9, Zenon DEF Crash
    <2> DEFINE found == {e \in Event : db.status[e] # "absent"}
    <2> HIDE DEF found
    <2>3. app' = [app EXCEPT !.relevant = kept, !.pending = {}, !.held = {},
                            !.tracked = {}, !.focused = FALSE,
                            !.recovered = found, !.crashes = @ - 1]
        BY <2>2 DEF found
    <2> QED BY <1>1, <2>1, <2>3 DEF Apps
<1>10. \/ UserStep \/ Crash
       \/ \E d \in Device : CallStep(d)
       \/ Work
    BY Zenon DEF Next, UserStep, CallStep
<1>11. CASE Work
    <2>1. \/ Drain \/ List \/ GroupCompletions \/ Triage \/ DecideRows \/ SpreadBatches
          \/ ConsumeShots \/ Settle \/ EndDrain
          \/ \E G \in drain.todo : Process(G)
          \/ \E g \in drain.fans : StartFan(g)
          \/ \E d \in Device : \/ Look(d) \/ Skip(d) \/ Commit(d) \/ CallStep(d)
        BY <1>11, Zenon DEF Work, CallStep
    <2> QED BY <2>1, <1>5, <1>6, <1>7, <1>8
<1> QED BY <1>2, <1>7, <1>9, <1>10, <1>11

\* What was revoked stays over, whatever step is made.
LEMMA RevokedKept ==
    ASSUME StInv, RevokedInv, Next PROVE RevokedInv'
<1>1. /\ \A e \in Event, d \in Device : Traced(e, d)
      /\ \A s \in Source :
           db'.policy[s].rev \in {db.policy[s].rev, NoShot, app.rev + 1}
    BY StepTraced
<1>2. /\ app.rev \in Nat /\ \A r \in Revs : r \in Nat /\ r # NoShot
      /\ \A e \in Event : PolicyOf[e] \in Source
    BY RevNat, StoreConstants DEF StInv, NoShot
<1>3. ASSUME NEW e \in Event, NEW d \in Device, NEW r \in Revs,
             <<e, d, r>> \in seen.revoked
      PROVE  /\ r <= app.rev /\ db'.policy[PolicyOf[e]].rev # r
             /\ Row(e, d)'.shot = r => Over(e, d)'
    <2>1. /\ r <= app.rev /\ db.policy[PolicyOf[e]].rev # r
          /\ Row(e, d).shot = r => Over(e, d)
        BY <1>3 DEF RevokedInv
    <2>2. db'.policy[PolicyOf[e]].rev # r
        BY <1>1, <1>2, <2>1
    <2>3. Row(e, d)'.shot = r => Row(e, d).shot = r
        BY <1>1, <1>2, <2>1 DEF Traced
    <2>4. Over(e, d) => Over(e, d)'
        BY <1>1 DEF Traced
    <2> QED BY <2>1, <2>2, <2>3, <2>4
<1>4. CASE ~ \E s \in Governing, mode \in Modes : SetPolicy(s, mode)
    <2>1. app'.rev = app.rev /\ seen'.revoked = seen.revoked
        BY <1>4, RevisionKept
    <2> QED BY <1>3, <2>1 DEF RevokedInv
<1>5. ASSUME NEW s \in Governing, NEW mode \in Modes, SetPolicy(s, mode)
      PROVE  RevokedInv'
    <2> DEFINE rev == app.rev + 1
               mine == {e \in Event : PolicyOf[e] = s}
               granted == ({db.policy[s].rev}
                  \cup {db.row[e][d].shot : e \in mine, d \in Device}) \ {NoShot}
               new == {t \in mine \X Device \X granted : ~ ClosedInFlight(t[1], t[2])}
    <2>1. /\ PolicyPut(db, db', s, mode, rev)
          /\ app'.rev = IF mode # "default" THEN rev ELSE app.rev
          /\ Quiet /\ drain' = drain /\ io' = io /\ s \in Source
          /\ seen' = IF mode \in {"default", "mute"}
                     THEN [seen EXCEPT !.revoked = @ \cup new] ELSE seen
        BY <1>5, SetPolicyEffect DEF StInv
    <2>2. app.rev <= app'.rev /\ app'.rev \in Nat
        BY <1>2, <2>1
    <2>3. seen'.revoked = IF mode \in {"default", "mute"}
                          THEN seen.revoked \cup new ELSE seen.revoked
        <3>1. seen \in [got : SUBSET (Event \X Device), spent : [Revs -> SUBSET Event],
                        revoked : SUBSET (Event \X Device \X Revs)]
            BY DEF StInv, TypeInv, TypeOK
        <3> HIDE DEF new
        <3> QED BY <2>1, <3>1
    <2>4. ASSUME NEW e \in Event, NEW d \in Device, NEW r \in Revs,
                 <<e, d, r>> \in new, mode \in {"default", "mute"}
          PROVE  /\ r <= app'.rev /\ db'.policy[PolicyOf[e]].rev # r
                 /\ Row(e, d)'.shot = r => Over(e, d)'
        <3>1. PolicyOf[e] = s /\ r \in granted /\ ~ ClosedInFlight(e, d)
            BY <2>4
        <3>2. r <= app.rev
            <4>1. \/ r = db.policy[s].rev
                  \/ \E f \in Event, c \in Device : r = Row(f, c).shot
                BY <3>1 DEF Row
            <4> QED BY <2>1, <4>1 DEF StInv, RevInv
        <3>3. db'.policy[s].rev \in {NoShot, rev}
            BY <2>1 DEF PolicyPut
        <3>4. r <= app'.rev /\ db'.policy[PolicyOf[e]].rev # r
            BY <1>2, <2>2, <3>1, <3>2, <3>3
        <3>5. ASSUME Row(e, d)'.shot = r PROVE Over(e, d)'
            <4>1. RowKept(db.row[e][d], db'.row[e][d])
                BY <2>1 DEF PolicyPut
            <4>2. /\ Row(e, d).shot # NoShot /\ Row(e, d).st # "none"
                  /\ OneShotClosed(Row(e, d)) => Row(e, d).st = "suppressed"
                  /\ Calls(io[d], e) => \/ Row(e, d).st \in {"pending", "expired"}
                                        \/ OneShotClosed(Row(e, d)) /\ io[d].st # "go"
                BY <1>2, <3>5, <4>1 DEF StInv, RowInv, RowKept, Row
            <4>3. CASE Unsettled(Row(e, d))
                <5>1. OneShotClosed(db'.row[e][d]) /\ Settled(db'.row[e][d])
                    BY <2>1, <2>4, <3>1, <4>2, <4>3 DEF PolicyPut, Row
                <5> QED BY <5>1 DEF Over, Row
            <4>4. CASE ~ Unsettled(Row(e, d))
                <5>1. Settled(Row(e, d)) /\ Row(e, d).st # "pending"
                    BY <4>2, <4>4 DEF Settled, Unsettled
                <5>2. Settled(db'.row[e][d])
                    BY <4>1, <5>1 DEF RowKept, Row
                <5>3. OneShotClosed(Row(e, d)) => OneShotClosed(db'.row[e][d])
                    BY <4>1, <4>2 DEF RowKept, Row
                <5>4. ~ OneShotClosed(Row(e, d)) => ~ Calls(io[d], e)
                    <6>1. Calls(io[d], e) => io[d].st = "wire" /\ e \in io[d].cur
                        BY <2>1 DEF Calls, Quiet, Busy, StInv, PhaseInv, AllOff
                    <6> QED BY <3>1, <4>2, <5>1, <6>1 DEF ClosedInFlight, Row
                <5> QED BY <2>1, <5>2, <5>3, <5>4 DEF Over, Row
            <4> QED BY <4>3, <4>4
        <3> QED BY <3>4, <3>5
    <2> HIDE DEF new
    <2> QED BY <1>2, <1>3, <2>2, <2>3, <2>4 DEF RevokedInv
<1> QED BY <1>4, <1>5

-----------------------------------------------------------------------------
(* A revision under which an alert was received is spent: no policy and no *)
(* row of another event still has it, but in the pass that spent it and    *)
(* until a restart has consumed it.                                        *)
SpentRow(e, d) ==
    LET r == Row(e, d).shot IN
    r # NoShot =>
      /\ Got(e, d) => e \in seen.spent[r]
      /\ Calls(io[d], e) /\ seen.spent[r] # {} => e \in seen.spent[r]
SpentInv ==
    /\ \A e \in Event, d \in Device : SpentRow(e, d)
    /\ \A e \in Event, r \in Revs : <<e, r>> \in db.marker => e \in seen.spent[r]

Marked(r) == \E e \in Event : <<e, r>> \in db.marker

Used(r) ==
    /\ \A s \in Source : db.policy[s].rev # r
    /\ \A e \in Event, d \in Device :
         Row(e, d).shot = r /\ ~ Over(e, d) => e \in seen.spent[r]
InPass(r) ==
    /\ drain.phase = "send" /\ seen.spent[r] = drain.rel
    /\ \/ r \in drain.shots /\ Marked(r)
       \/ \E e \in Event, d \in Device : Owed(e, d) /\ Row(e, d).shot = r
Recovering(r) ==
    /\ Starting
    /\ \/ Marked(r)
       \/ /\ drain.phase = "boot"
          /\ \E e \in Event, d \in Device :
               /\ Proven(db, e, d) /\ Row(e, d).shot = r
               /\ Row(e, d).st \notin {"none", "sent"}

OneShotInv == \A r \in Revs :
    seen.spent[r] # {} => Used(r) \/ InPass(r) \/ Recovering(r)

\* A revision is not NoShot.
LEMMA RevsReal == \A r \in Revs : r # NoShot
BY StoreConstants DEF NoShot

\* A row has a revision or NoShot.
LEMMA ShotTyped ==
    ASSUME StInv, NEW e \in Event, NEW d \in Device
    PROVE  Row(e, d).shot \in Revs \cup {NoShot}
BY DEF StInv, TypeInv, TypeOK, Stores, Rows, Row

\* An event with an open row is in the pass.
LEMMA CallsInRel ==
    ASSUME StInv, NEW e \in Event, NEW d \in Device, Calls(io[d], e)
    PROVE  e \in drain.rel /\ drain.phase = "send"
<1>1. WorkerOk(io[d], drain) /\ io[d] \in Workers
    BY DEF StInv, WorkerInv, TypeInv, TypeOK
<1>2. CASE io[d].st \in {"go", "wire"}
    BY <1>1, <1>2 DEF Calls, WorkerOk, StInv, PhaseInv, AllOff
<1>3. CASE io[d].st = "write"
    <2>1. e \in drain.rel
        BY <1>3, Answering
    <2> QED BY <1>3, <2>1 DEF StInv, PhaseInv, AllOff
<1> QED BY <1>2, <1>3 DEF Calls

\* An open row is not over and not owed: its alert was not received.
LEMMA OpenNew ==
    ASSUME StInv, JournalInv, NEW e \in Event, NEW d \in Device, Open(e, d)
    PROVE  ~ Over(e, d) /\ ~ Owed(e, d) /\ ~ Got(e, d)
<1>1. ~ Over(e, d)
    BY DEF Open, Due, Over, Settled, Unsettled
<1>2. ~ Owed(e, d)
    BY DEF Open, Owed, Accepted
<1> QED BY <1>1, <1>2 DEF JournalInv, JournalRow

\* In the pass that spends a revision its rows are open only for its events.
LEMMA OpenSpent ==
    ASSUME StInv, JournalInv, OneShotInv, NEW e \in Event, NEW d \in Device,
           NEW r \in Revs, Open(e, d), drain.phase = "send", seen.spent[r] # {},
           Row(e, d).shot = r \/ db.policy[PolicyOf[e]].rev = r
    PROVE  e \in seen.spent[r]
<1>1. Used(r) \/ InPass(r)
    BY DEF OneShotInv, Recovering, Starting
<1>2. CASE Used(r)
    <2>1. PolicyOf[e] \in Source /\ ~ Over(e, d)
        BY OpenNew, StoreConstants
    <2> QED BY <1>2, <2>1 DEF Used
<1>3. CASE InPass(r)
    BY <1>3 DEF InPass, Open
<1> QED BY <1>1, <1>2, <1>3

\* A used revision stays used: no step gives it to a policy or a row.
LEMMA UsedKept ==
    ASSUME StInv, NEW r \in Revs, seen.spent[r] # {}, Used(r),
           seen'.spent[r] = seen.spent[r],
           \A e \in Event, d \in Device : Traced(e, d),
           \A s \in Source :
              db'.policy[s].rev \in {db.policy[s].rev, NoShot, app.rev + 1}
    PROVE  Used(r)'
<1>1. r <= app.rev /\ app.rev \in Nat /\ r \in Nat /\ r # NoShot
    BY RevNat, RevsReal, StoreConstants DEF StInv, RevInv
<1>2. \A s \in Source : db'.policy[s].rev # r
    BY <1>1 DEF Used
<1>3. ASSUME NEW e \in Event, NEW d \in Device, Row(e, d)'.shot = r, ~ Over(e, d)'
      PROVE  e \in seen.spent[r]
    <2>1. ~ Over(e, d)
        BY <1>3 DEF Traced
    <2>2. Row(e, d).shot = r
        <3>1. PolicyOf[e] \in Source
            BY StoreConstants
        <3> QED BY <1>1, <1>3, <3>1 DEF Traced, Used
    <2> QED BY <2>1, <2>2 DEF Used
<1> QED BY <1>2, <1>3 DEF Used

\* Steady steps give a spent revision to no row of another event.
LEMMA SpentSteady ==
    ASSUME StInv, JournalInv, SpentInv, OneShotInv, StInv', Steady
    PROVE  SpentInv' /\ OneShotInv'
<1>1. /\ db'.marker = db.marker
      /\ seen'.got = seen.got /\ seen'.spent = seen.spent
      /\ Starting => Starting' /\ drain.phase # "boot"
      /\ drain.phase = "send" => /\ drain'.phase = "send" /\ drain'.rel = drain.rel
                                 /\ drain.shots \subseteq drain'.shots
      /\ \A s \in Source : db'.policy[s].rev \in {db.policy[s].rev, NoShot, app.rev + 1}
      /\ \A e \in Event, d \in Device :
           /\ Traced(e, d) /\ (Owed(e, d) => Owed(e, d)')
           /\ Calls(io'[d], e) => Calls(io[d], e) \/ (Open(e, d) /\ drain.phase = "send")
    BY DEF Steady
<1>2. ASSUME NEW e \in Event, NEW d \in Device PROVE SpentRow(e, d)'
    <2> DEFINE r == Row(e, d)'.shot
    <2>1. SUFFICES ASSUME r # NoShot
                   PROVE  /\ Got(e, d) => e \in seen.spent[r]
                          /\ Calls(io'[d], e) /\ seen.spent[r] # {} => e \in seen.spent[r]
        BY <1>1 DEF SpentRow, Got
    <2>2. r \in Revs
        <3>1. db'.row[e][d].shot \in Revs \cup {NoShot}
            BY DEF StInv, TypeInv, TypeOK, Stores, Rows
        <3> QED BY <2>1, <3>1 DEF Row
    <2>3. \/ r = Row(e, d).shot
          \/ Open(e, d) /\ r = db.policy[PolicyOf[e]].rev
        BY <1>1, <2>1 DEF Traced
    <2>4. Got(e, d) => e \in seen.spent[r]
        BY <2>1, <2>3, OpenNew DEF SpentInv, SpentRow
    <2>5. ASSUME Calls(io'[d], e), seen.spent[r] # {} PROVE e \in seen.spent[r]
        <3>1. CASE Open(e, d)
            <4>1. drain.phase = "send"
                BY <1>1, <2>5, CallsInRel
            <4> HIDE DEF r
            <4> QED BY <2>2, <2>3, <2>5, <3>1, <4>1, OpenSpent
        <3>2. CASE ~ Open(e, d)
            BY <1>1, <2>1, <2>3, <2>5, <3>2 DEF SpentInv, SpentRow
        <3> QED BY <3>1, <3>2
    <2> QED BY <2>4, <2>5
<1>3. ASSUME NEW r \in Revs, seen.spent[r] # {}
      PROVE  Used(r)' \/ InPass(r)' \/ Recovering(r)'
    <2>1. CASE Used(r)
        BY <1>1, <1>3, <2>1, UsedKept
    <2>2. CASE InPass(r)
        <3>1. Marked(r) => Marked(r)'
            BY <1>1 DEF Marked
        <3>2. ASSUME NEW e \in Event, NEW d \in Device, Owed(e, d), Row(e, d).shot = r
              PROVE  Owed(e, d)' /\ Row(e, d)'.shot = r
            <4>1. ~ Open(e, d)
                BY <3>2, OpenNew
            <4> QED BY <1>1, <3>2, <4>1 DEF Traced
        <3> QED BY <1>1, <2>2, <3>1, <3>2 DEF InPass
    <2>3. CASE Recovering(r)
        BY <1>1, <2>3 DEF Recovering, Marked
    <2> QED BY <1>3, <2>1, <2>2, <2>3 DEF OneShotInv
<1>4. \A e \in Event, r \in Revs : <<e, r>> \in db'.marker => e \in seen'.spent[r]
    BY <1>1 DEF SpentInv
<1> QED BY <1>1, <1>2, <1>3, <1>4 DEF SpentInv, OneShotInv

\* The obligation of the steps after which no worker runs.
LEMMA SpentAlone ==
    ASSUME StInv, JournalInv, SpentInv, Alone,
           \A e \in Event, r \in Revs : <<e, r>> \in db'.marker =>
              \/ <<e, r>> \in db.marker
              \/ \E d \in Device : Got(e, d) /\ Row(e, d).shot = r
    PROVE  /\ SpentInv'
           /\ \A r \in Revs : seen.spent[r] # {} /\ Used(r) => Used(r)'
<1>1. /\ seen' = seen
      /\ \A e \in Event, d \in Device :
           /\ Traced(e, d) /\ Row(e, d)'.shot = Row(e, d).shot
           /\ ~ Calls(io'[d], e)
      /\ \A s \in Source : db'.policy[s].rev \in {db.policy[s].rev, NoShot}
    BY NoCalls DEF Alone, Off
<1>2. \A e \in Event, d \in Device : SpentRow(e, d)'
    BY <1>1 DEF SpentInv, SpentRow, Got
<1>3. ASSUME NEW e \in Event, NEW r \in Revs, <<e, r>> \in db'.marker
      PROVE  e \in seen'.spent[r]
    <2>1. CASE <<e, r>> \in db.marker
        BY <1>1, <2>1 DEF SpentInv
    <2>2. ASSUME NEW d \in Device, Got(e, d), Row(e, d).shot = r
          PROVE  e \in seen.spent[r]
        BY <2>2, RevsReal DEF SpentInv, SpentRow
    <2> QED BY <1>1, <1>3, <2>1, <2>2
<1>4. \A r \in Revs : seen.spent[r] # {} /\ Used(r) => Used(r)'
    BY <1>1, UsedKept
<1> QED BY <1>2, <1>3, <1>4 DEF SpentInv

\* Consuming a marked revision closes all other rows that have it.
LEMMA ConsumedUsed ==
    ASSUME StInv, SpentInv, Alone, NEW R, Consumed(db, db', R),
           NEW r \in R, r \in Revs, Marked(r)
    PROVE  Used(r)'
<1>1. \A s \in Source : db'.policy[s].rev # r
    BY RevsReal DEF Consumed
<1>2. ASSUME NEW e \in Event, NEW d \in Device, Row(e, d)'.shot = r, ~ Over(e, d)'
      PROVE  e \in seen'.spent[r]
    <2>1. /\ Row(e, d).shot = r /\ seen' = seen /\ ~ Calls(io'[d], e)
          /\ RowKept(db.row[e][d], db'.row[e][d])
        BY <1>2, NoCalls DEF Alone, Off, Consumed
    <2>2. Row(e, d).st # "none"
        BY <2>1, RevsReal DEF StInv, RowInv
    <2>3. ~ Settled(Row(e, d)')
        BY <1>2, <2>1 DEF Over
    <2>4. Unsettled(Row(e, d))
        BY <2>1, <2>2, <2>3 DEF RowKept, Settled, Row
    <2>5. <<e, r>> \in db.marker
        BY <2>1, <2>3, <2>4 DEF Consumed, Marked, Row
    <2> QED BY <2>1, <2>5 DEF SpentInv
<1> QED BY <1>1, <1>2 DEF Used

\* Making up for a receipt marks the revision it spent.
LEMMA SpentDrain ==
    ASSUME StInv, JournalInv, SpentInv, OneShotInv, Drain
    PROVE  SpentInv' /\ OneShotInv'
<1>1. /\ StInv' /\ Alone /\ Reconciled /\ (Starting => Starting')
      /\ drain.phase \in {"boot", "idle"}
    BY DrainSteps
<1>2. \A e \in Event, r \in Revs : <<e, r>> \in db'.marker =>
         \/ <<e, r>> \in db.marker
         \/ \E d \in Device : Got(e, d) /\ Row(e, d).shot = r
    <2>1. ASSUME NEW e \in Event, NEW r \in Revs, <<e, r>> \in db'.marker \ db.marker
          PROVE  \E d \in Device : Got(e, d) /\ Row(e, d).shot = r
        <3>1. PICK d \in Device : Proven(db, e, d) /\ Row(e, d).shot = r
            BY <1>1, <2>1 DEF Reconciled
        <3> QED BY <3>1, ProvenGot
    <2> QED BY <2>1
<1>3. SpentInv' /\ \A r \in Revs : seen.spent[r] # {} /\ Used(r) => Used(r)'
    BY <1>1, <1>2, SpentAlone
<1>4. ASSUME NEW r \in Revs, seen.spent[r] # {}, Recovering(r)
      PROVE  Recovering(r)'
    <2>1. Starting'
        BY <1>1, <1>4 DEF Recovering
    <2>2. CASE Marked(r)
        BY <1>1, <2>1, <2>2 DEF Recovering, Marked, Reconciled
    <2>3. ASSUME NEW e \in Event, NEW d \in Device, Proven(db, e, d),
                 Row(e, d).shot = r, Row(e, d).st \notin {"none", "sent"}
          PROVE  Marked(r)'
        <3>1. MadeUp(db, db', e, d) /\ r # NoShot
            BY <1>1, RevsReal DEF Reconciled
        <3>2. <<e, r>> \in db'.marker
            BY <2>3, <3>1 DEF MadeUp, Row
        <3> QED BY <3>2 DEF Marked
    <2> QED BY <1>4, <2>1, <2>2, <2>3 DEF Recovering
<1>5. \A r \in Revs : ~ InPass(r)
    BY <1>1 DEF InPass
<1>6. seen' = seen
    BY <1>1 DEF Alone
<1> QED BY <1>3, <1>4, <1>5, <1>6 DEF OneShotInv

\* So does spreading a batch.
LEMMA SpentSpread ==
    ASSUME StInv, JournalInv, SpentInv, OneShotInv, SpreadBatches
    PROVE  SpentInv' /\ OneShotInv'
<1>1. /\ StInv' /\ Alone /\ Shared /\ drain.phase = "spread"
      /\ \A e \in Event, d \in Device : Row(e, d)'.st = "sent" => Got(e, d)
    BY SpreadSteps, JournalSpread
<1>2. \A e \in Event, r \in Revs : <<e, r>> \in db'.marker =>
         \/ <<e, r>> \in db.marker
         \/ \E d \in Device : Got(e, d) /\ Row(e, d).shot = r
    <2>1. ASSUME NEW e \in Event, NEW r \in Revs, <<e, r>> \in db'.marker \ db.marker
          PROVE  \E d \in Device : Got(e, d) /\ Row(e, d).shot = r
        <3>1. PICK d \in Device : Row(e, d)'.st = "sent" /\ Row(e, d).shot = r
            BY <1>1, <2>1 DEF Shared
        <3> QED BY <1>1, <3>1
    <2> QED BY <2>1
<1>3. SpentInv' /\ \A r \in Revs : seen.spent[r] # {} /\ Used(r) => Used(r)'
    BY <1>1, <1>2, SpentAlone
<1>4. \A r \in Revs : ~ InPass(r) /\ ~ Recovering(r)
    BY <1>1 DEF InPass, Recovering, Starting
<1>5. seen' = seen
    BY <1>1 DEF Alone
<1> QED BY <1>3, <1>4, <1>5 DEF OneShotInv

\* Consuming a marked revision makes it used; a crash leaves what is owed to
\* the next start.
LEMMA SpentConsume ==
    ASSUME StInv, JournalInv, SpentInv, OneShotInv, ConsumeShots \/ EndDrain \/ Crash
    PROVE  SpentInv' /\ OneShotInv'
<1> DEFINE all == {m[2] : m \in db.marker}
<1>1. /\ Alone /\ db'.journal = db.journal
      /\ \A e \in Event, d \in Device : Row(e, d)'.st = "sent" => Row(e, d).st = "sent"
      /\ \/ Consumed(db, db', drain.shots) /\ AllOff /\ drain.phase = "send"
         \/ Consumed(db, db', all) /\ AllOff /\ drain.phase = "pick"
         \/ /\ Consumed(db, db', all) /\ drain.phase # "boot"
            /\ drain'.phase = "boot" /\ Starting'
    BY ConsumeShotsSteps, EndDrainSteps, CrashSteps
<1>2. seen' = seen /\ db'.batchOf = db.batchOf
    BY <1>1 DEF Alone
<1>3. \A e \in Event, r \in Revs : <<e, r>> \in db'.marker => <<e, r>> \in db.marker
    <2>1. \A R : Consumed(db, db', R) => db'.marker = {m \in db.marker : m[2] \notin R}
        BY Zenon DEF Consumed
    <2>2. \E R : Consumed(db, db', R)
        BY <1>1, Zenon
    <2> QED BY <2>1, <2>2
<1>4. SpentInv' /\ \A r \in Revs : seen.spent[r] # {} /\ Used(r) => Used(r)'
    BY <1>1, <1>3, SpentAlone
<1>5. \A r \in Revs : Marked(r) => r \in all
    <2>1. ASSUME NEW r \in Revs, NEW e \in Event, <<e, r>> \in db.marker
          PROVE  r \in all
        BY <2>1
    <2> QED BY <2>1 DEF Marked
<1> HIDE DEF all
<1>6. AllOff /\ drain.phase # "boot" => \A e \in Event, d \in Device : ~ Owed(e, d)
    BY DEF AllOff, Owed, Accepted
<1>7. ASSUME NEW r \in Revs, seen.spent[r] # {}
      PROVE  Used(r)' \/ Recovering(r)'
    <2>1. CASE Used(r)
        BY <1>4, <1>7, <2>1
    <2>2. CASE InPass(r)
        <3>1. CASE Marked(r) /\ (r \in drain.shots \/ Consumed(db, db', all))
            <4>1. Consumed(db, db', all) \/ Consumed(db, db', drain.shots)
                BY <1>1
            <4>2. CASE Consumed(db, db', all)
                BY <1>1, <1>5, <3>1, <4>2, ConsumedUsed
            <4>3. CASE Consumed(db, db', drain.shots) /\ r \in drain.shots
                BY <1>1, <3>1, <4>3, ConsumedUsed
            <4> QED BY <3>1, <4>1, <4>2, <4>3
        <3>2. ASSUME NEW e \in Event, NEW d \in Device, Owed(e, d), Row(e, d).shot = r
              PROVE  Used(r)' \/ Recovering(r)'
            <4>1. /\ Consumed(db, db', all) /\ drain.phase = "send"
                  /\ drain'.phase = "boot" /\ Starting'
                BY <1>1, <1>6, <2>2, <3>2 DEF InPass
            <4>2. Proven(db, e, d) /\ Accepted(io[d], e)
                BY <3>2, <4>1 DEF Owed
            <4>3. Row(e, d).st \notin {"none", "sent"}
                <5>1. Calls(io[d], e)
                    BY <4>2 DEF Accepted, Calls, Owing
                <5> QED BY <5>1 DEF StInv, RowInv
            <4>4. Proven(db, e, d)' /\ Row(e, d)'.shot = r
                BY <1>1, <1>2, <3>2, <4>2 DEF Proven, Alone
            <4>5. Row(e, d)'.st \notin {"none", "sent"}
                BY <1>1, <4>3 DEF Alone, Traced
            <4> QED BY <4>1, <4>4, <4>5 DEF Recovering
        <3>3. \/ r \in drain.shots /\ Marked(r)
              \/ \E e \in Event, d \in Device : Owed(e, d) /\ Row(e, d).shot = r
            BY <2>2 DEF InPass
        <3> QED BY <3>1, <3>2, <3>3
    <2>3. CASE Recovering(r)
        <3>1. Marked(r) /\ Consumed(db, db', all)
            BY <1>1, <2>3 DEF Recovering, Starting
        <3> QED BY <1>1, <1>5, <3>1, ConsumedUsed
    <2> QED BY <1>7, <2>1, <2>2, <2>3 DEF OneShotInv
<1> QED BY <1>2, <1>4, <1>7 DEF OneShotInv

\* A pass spends the revisions of the alerts it has had accepted.
LEMMA SpentLog ==
    ASSUME StInv, JournalInv, SpentInv, OneShotInv,
           NEW d \in Device, NEW e \in Event, LoggedBy(d, e)
    PROVE  SpentInv' /\ OneShotInv'
<1> DEFINE x == <<"log", e>>
           w == io[d]
<1>1. /\ AfterWrite(d, x) /\ drain.phase = "send" /\ drain'.phase = "send"
      /\ drain'.rel = drain.rel /\ drain.shots \subseteq drain'.shots
      /\ \A f \in Event, c \in Device : Traced(f, c) /\ CommitRow(d, x, f, c)
      /\ db'.policy = db.policy
      /\ x[1] # "sent" => db'.marker = db.marker
      /\ seen' = IF x[1] = "log" THEN Received(d) ELSE seen
    BY CommitStruct DEF LoggedBy
<1>2. db'.marker = db.marker /\ seen' = Received(d) /\ w.st = "write"
    <2>1. x[1] = "log"
        OBVIOUS
    <2> QED BY <1>1, <2>1 DEF LoggedBy, Committed
<1>3. /\ \A f \in Event, c \in Device : Owed(f, c) => Owed(f, c)'
      /\ \A f \in w.cur : Calls(w, f) /\ Owed(f, d)'
    BY JournalLog DEF LoggedBy
<1>4. w.cur \in SUBSET Event /\ w.cur \subseteq drain.rel
    BY <1>2, Answering
<1>5. \A f \in Event, c \in Device :
        /\ Row(f, c)'.shot = Row(f, c).shot
        /\ Calls(io'[c], f) => Calls(io[c], f)
    <2>1. \A c \in Device : c # d => io'[c] = io[c]
        BY <1>1, Zenon DEF AfterWrite
    <2>2. \A f : Calls(io'[d], f) => Calls(io[d], f)
        BY <1>1, Zenon DEF AfterWrite
    <2> QED BY <1>1, <2>1, <2>2 DEF CommitRow
<1>6. /\ seen'.got = seen.got \cup (w.cur \X {d})
      /\ \A r \in Revs : seen'.spent[r] =
           IF seen.spent[r] = {} /\ \E g \in w.cur : Row(g, d).shot = r
           THEN drain.rel ELSE seen.spent[r]
    <2>1. seen \in [got : SUBSET (Event \X Device), spent : [Revs -> SUBSET Event],
                    revoked : SUBSET (Event \X Device \X Revs)]
        BY DEF StInv, TypeInv, TypeOK
    <2> DEFINE got == seen.got \cup (w.cur \X {d})
               spent == [r \in Revs |->
                    IF seen.spent[r] = {} /\ \E g \in io[d].cur : db.row[g][d].shot = r
                    THEN drain.rel ELSE seen.spent[r]]
    <2>2. Received(d) = [seen EXCEPT !.got = got, !.spent = spent]
        BY Zenon DEF Received
    <2>3. \A r \in Revs : spent[r] =
            IF seen.spent[r] = {} /\ \E g \in w.cur : Row(g, d).shot = r
            THEN drain.rel ELSE seen.spent[r]
        BY DEF Row
    <2> HIDE DEF got, spent
    <2>4. seen'.got = got /\ seen'.spent = spent
        BY <1>2, <2>1, <2>2
    <2> QED BY <2>3, <2>4 DEF got
<1>7. \A r \in Revs : seen.spent[r] # {} => seen'.spent[r] = seen.spent[r]
    BY <1>6
<1>8. ASSUME NEW f \in Event, NEW c \in Device PROVE SpentRow(f, c)'
    <2> DEFINE r == Row(f, c).shot
    <2>1. SUFFICES ASSUME r # NoShot
                   PROVE  /\ Got(f, c)' => f \in seen'.spent[r]
                          /\ Calls(io'[c], f) /\ seen'.spent[r] # {} => f \in seen'.spent[r]
        BY <1>5 DEF SpentRow
    <2>2. r \in Revs
        BY <2>1, ShotTyped
    <2>3. /\ Got(f, c) => f \in seen.spent[r]
          /\ Calls(io[c], f) /\ seen.spent[r] # {} => f \in seen.spent[r]
        BY <2>1 DEF SpentInv, SpentRow
    <2>4. ASSUME Got(f, c)' PROVE f \in seen'.spent[r]
        <3>1. CASE Got(f, c)
            BY <1>7, <2>2, <2>3, <3>1
        <3>2. CASE ~ Got(f, c)
            <4>1. f \in w.cur /\ c = d
                BY <1>6, <2>4, <3>2 DEF Got
            <4>2. CASE seen.spent[r] = {}
                <5>1. seen'.spent[r] = drain.rel
                    BY <1>6, <2>2, <4>1, <4>2
                <5> QED BY <1>4, <4>1, <5>1
            <4>3. CASE seen.spent[r] # {}
                BY <1>3, <1>7, <2>2, <2>3, <4>1, <4>3
            <4> QED BY <4>2, <4>3
        <3> QED BY <3>1, <3>2
    <2>5. ASSUME Calls(io'[c], f), seen'.spent[r] # {} PROVE f \in seen'.spent[r]
        <3>1. Calls(io[c], f) /\ f \in drain.rel
            BY <1>5, <2>5, CallsInRel
        <3>2. seen'.spent[r] = seen.spent[r] \/ seen'.spent[r] = drain.rel
            BY <1>6, <2>2
        <3> HIDE DEF r
        <3> QED BY <2>3, <2>5, <3>1, <3>2
    <2> QED BY <2>4, <2>5
<1>9. ASSUME NEW f \in Event, NEW r \in Revs, <<f, r>> \in db'.marker
      PROVE  f \in seen'.spent[r]
    <2>1. f \in seen.spent[r]
        BY <1>2, <1>9 DEF SpentInv
    <2> QED BY <1>7, <2>1
<1>10. ASSUME NEW r \in Revs, seen'.spent[r] # {}
       PROVE  Used(r)' \/ InPass(r)'
    <2>1. CASE seen.spent[r] # {}
        <3>1. seen'.spent[r] = seen.spent[r]
            BY <1>7, <2>1
        <3>2. CASE Used(r)
            <4>1. Used(r)'
                BY <1>1, <2>1, <3>1, <3>2, UsedKept
            <4> QED BY <4>1
        <3>3. CASE InPass(r)
            <4>1. Marked(r) => Marked(r)'
                BY <1>2 DEF Marked
            <4> QED BY <1>1, <1>3, <1>5, <3>1, <3>3, <4>1 DEF InPass
        <3>4. ~ Recovering(r)
            BY <1>1 DEF Recovering, Starting
        <3> QED BY <2>1, <3>2, <3>3, <3>4 DEF OneShotInv
    <2>2. CASE seen.spent[r] = {}
        <3>1. PICK g \in w.cur : Row(g, d).shot = r
            BY <1>6, <1>10, <2>2
        <3>2. seen'.spent[r] = drain.rel
            BY <1>6, <2>2, <3>1
        <3>3. g \in Event /\ Owed(g, d)' /\ Row(g, d)'.shot = r
            BY <1>3, <1>4, <1>5, <3>1
        <3> QED BY <1>1, <3>2, <3>3 DEF InPass
    <2> QED BY <2>1, <2>2
<1> QED BY <1>8, <1>9, <1>10 DEF SpentInv, OneShotInv

\* A receipt marks its revision and hands it to the end of the pass.
LEMMA SpentSent ==
    ASSUME StInv, JournalInv, SpentInv, OneShotInv,
           NEW d \in Device, NEW e \in Event, SentBy(d, e)
    PROVE  SpentInv' /\ OneShotInv'
<1> DEFINE x == <<"sent", e>>
           why == IF Cardinality(io[d].cur) > 1 THEN "batch" ELSE "plain"
<1>1. /\ StInv'
      /\ AfterWrite(d, x) /\ drain.phase = "send" /\ drain'.phase = "send"
      /\ drain'.rel = drain.rel /\ drain.shots \subseteq drain'.shots
      /\ \A f \in Event, c \in Device : Traced(f, c) /\ CommitRow(d, x, f, c)
      /\ db'.policy = db.policy
      /\ seen' = IF x[1] = "log" THEN Received(d) ELSE seen
    BY CommitStruct DEF SentBy
<1>2. /\ Receipted(db, db', {<<e, d>>}, "sent", "none", why)
      /\ Row(e, d).shot # NoShot => Row(e, d).shot \in drain'.shots
      /\ seen' = seen
    <2>1. x[1] = "sent" /\ x[2] = e /\ x[1] # "log"
        OBVIOUS
    <2> QED BY <1>1, <2>1 DEF SentBy, Committed, Row
<1>3. /\ Got(e, d) /\ Row(e, d).st # "none"
      /\ \A f \in Event, c \in Device : Owed(f, c) => (f = e /\ c = d) \/ Owed(f, c)'
    BY JournalSent DEF SentBy
<1>4. \A f \in Event, c \in Device :
        /\ Row(f, c)'.shot = Row(f, c).shot
        /\ Calls(io'[c], f) => Calls(io[c], f)
    <2>1. \A c \in Device : c # d => io'[c] = io[c]
        BY <1>1, Zenon DEF AfterWrite
    <2>2. \A f : Calls(io'[d], f) => Calls(io[d], f)
        BY <1>1, Zenon DEF AfterWrite
    <2> QED BY <1>1, <2>1, <2>2 DEF CommitRow
<1>5. \A f \in Event, c \in Device : SpentRow(f, c)'
    BY <1>2, <1>4 DEF SpentInv, SpentRow, Got
<1>6. /\ db.marker \subseteq db'.marker
      /\ \A f \in Event, r \in Revs : <<f, r>> \in db'.marker <=>
           \/ <<f, r>> \in db.marker
           \/ \E c \in Device : Stored(db, {<<e, d>>}, "sent", f, c) /\ db.row[f][c].shot = r
    <2>1. db.marker \subseteq db'.marker
        BY <1>2, Zenon DEF Receipted
    <2>2. \A f \in Event, r \in Revs :
            <<f, r>> \in db'.marker <=>
              \/ <<f, r>> \in db.marker
              \/ "sent" = "sent" /\ \E c \in Device :
                    /\ Stored(db, {<<e, d>>}, "sent", f, c)
                    /\ db.row[f][c].shot = r
        BY <1>2, Zenon DEF Receipted
    <2> QED BY <2>1, <2>2
<1>7. ASSUME NEW f \in Event, NEW r \in Revs, <<f, r>> \in db'.marker
      PROVE  f \in seen'.spent[r]
    <2>1. CASE <<f, r>> \in db.marker
        BY <1>2, <2>1 DEF SpentInv
    <2>2. ASSUME NEW c \in Device, Stored(db, {<<e, d>>}, "sent", f, c),
                 db.row[f][c].shot = r
          PROVE  f \in seen'.spent[r]
        <3>1. f = e /\ c = d
            BY <2>2 DEF Stored
        <3>2. SpentRow(e, d) /\ r # NoShot /\ Row(e, d).shot = r
            BY <2>2, <3>1, RevsReal DEF SpentInv, Row
        <3> QED BY <1>2, <1>3, <3>1, <3>2 DEF SpentRow
    <2> QED BY <1>6, <1>7, <2>1, <2>2
<1>8. \A r \in Revs : Marked(r) => Marked(r)'
    BY <1>6 DEF Marked
<1>9. ASSUME NEW r \in Revs, seen.spent[r] # {}
      PROVE  Used(r)' \/ InPass(r)'
    <2>1. CASE Used(r)
        BY <1>1, <1>2, <1>9, <2>1, UsedKept
    <2>2. CASE InPass(r)
        <3>1. CASE r \in drain.shots /\ Marked(r)
            BY <1>1, <1>2, <1>8, <2>2, <3>1 DEF InPass
        <3>2. ASSUME NEW f \in Event, NEW c \in Device, Owed(f, c), Row(f, c).shot = r
              PROVE  InPass(r)'
            <4>1. CASE f = e /\ c = d
                <5>1. Stored(db, {<<e, d>>}, "sent", e, d) /\ db.row[e][d].shot = r
                    BY <1>3, <3>2, <4>1 DEF Stored, Row
                <5>2. <<e, r>> \in db'.marker
                    BY <1>6, <5>1
                <5>3. r \in drain'.shots
                    BY <1>2, <3>2, <4>1, RevsReal
                <5> QED BY <1>1, <1>2, <2>2, <5>2, <5>3 DEF InPass, Marked
            <4>2. CASE ~ (f = e /\ c = d)
                BY <1>1, <1>2, <1>3, <1>4, <2>2, <3>2, <4>2 DEF InPass
            <4> QED BY <4>1, <4>2
        <3> QED BY <2>2, <3>1, <3>2 DEF InPass
    <2>3. ~ Recovering(r)
        BY <1>1 DEF Recovering, Starting
    <2> QED BY <1>9, <2>1, <2>2, <2>3 DEF OneShotInv
<1> QED BY <1>2, <1>5, <1>7, <1>9 DEF SpentInv, OneShotInv

-----------------------------------------------------------------------------
(* The inductive invariant. *)
IInv == StInv /\ JournalInv /\ SpentInv /\ OneShotInv /\ RevokedInv

\* Nothing changes the one-shots when no step is made.
LEMMA StutterRest ==
    ASSUME SpentInv, OneShotInv, RevokedInv, UNCHANGED vars
    PROVE  SpentInv' /\ OneShotInv' /\ RevokedInv'
<1>1. db' = db /\ app' = app /\ drain' = drain /\ io' = io /\ seen' = seen
    BY DEF vars
<1>2. \A e \in Event, d \in Device :
         /\ Over(e, d)' <=> Over(e, d)
         /\ Owed(e, d)' <=> Owed(e, d)
         /\ Proven(db, e, d)' <=> Proven(db, e, d)
         /\ SpentRow(e, d)' <=> SpentRow(e, d)
    BY <1>1 DEF Over, Calls, Row, Owed, Proven, Accepted, SpentRow, Got
<1>3. SpentInv'
    BY <1>1, <1>2 DEF SpentInv
<1>4. \A r \in Revs : (Used(r) => Used(r)') /\ (InPass(r) => InPass(r)')
    BY <1>1, <1>2 DEF Used, InPass, Marked, Row
<1>5. Starting => Starting'
    BY <1>1 DEF Starting, Known
<1>6. \A r \in Revs : Recovering(r) => Recovering(r)'
    BY <1>1, <1>2, <1>5 DEF Recovering, Marked, Row
<1>7. OneShotInv'
    BY <1>1, <1>4, <1>6 DEF OneShotInv
<1>8. RevokedInv'
    BY <1>1, <1>2 DEF RevokedInv, Row
<1> QED BY <1>3, <1>7, <1>8

\* Every step keeps the one-shots.
LEMMA SpentKept ==
    ASSUME StInv, JournalInv, SpentInv, OneShotInv, Next
    PROVE  SpentInv' /\ OneShotInv'
<1>1. CASE StInv' /\ Steady
    BY <1>1, SpentSteady
<1>2. CASE Drain \/ SpreadBatches
    BY <1>2, SpentDrain, SpentSpread
<1>3. CASE ConsumeShots \/ EndDrain \/ Crash
    BY <1>3, SpentConsume
<1>4. ASSUME NEW d \in Device, NEW e \in Event, LoggedBy(d, e) \/ SentBy(d, e)
      PROVE  SpentInv' /\ OneShotInv'
    BY <1>4, SpentLog, SpentSent
<1> QED BY <1>1, <1>2, <1>3, <1>4, StepKinds

\* Every step keeps the invariant.
LEMMA IInvKept ==
    ASSUME IInv, [Next]_vars PROVE IInv'
<1>1. StInv' /\ JournalInv'
    BY JournalKept DEF IInv
<1>2. CASE Next
    BY <1>1, <1>2, SpentKept, RevokedKept DEF IInv
<1>3. CASE UNCHANGED vars
    BY <1>1, <1>3, StutterRest DEF IInv
<1> QED BY <1>2, <1>3

\* The empty tables.
LEMMA EmptyTyped ==
    /\ EmptyStore \in Stores /\ EmptyStore.marker = {}
    /\ \A e \in Event : /\ EmptyStore.status[e] = "absent" /\ EmptyStore.batchOf[e] = {}
                        /\ \A d \in Device : /\ EmptyStore.row[e][d] = NoRow
                                             /\ EmptyStore.journal[e][d] = "none"
    /\ \A s \in Source : EmptyStore.policy[s].rev = NoShot
<1>1. NoRow \in Rows
    BY StoreConstants DEF NoRow, Rows, When
<1> QED BY <1>1 DEF EmptyStore, Stores, When

\* The first state has no events, no rows and no calls.
LEMMA InitStruct ==
    ASSUME Init
    PROVE  /\ TypeInv /\ drain = NoDrain /\ io = [d \in Device |-> Off]
           /\ seen = [got |-> {}, spent |-> [r \in Revs |-> {}], revoked |-> {}]
           /\ db.marker = {} /\ \A s \in Source : db.policy[s].rev <= app.rev
           /\ \A e \in Event : /\ db.status[e] = "absent" /\ db.batchOf[e] = {}
                               /\ \A d \in Device : /\ Row(e, d).st = "none"
                                                    /\ Row(e, d).shot = NoShot
                                                    /\ ~ OneShotClosed(Row(e, d))
                                                    /\ db.journal[e][d] = "none"
<1>1. PICK s \in Governing, mode \in Modes \cup {"default"} :
         /\ db = PutPolicy(EmptyStore, s, mode, 1)
         /\ app = [relevant |-> {}, pending |-> {}, held |-> {}, tracked |-> {},
                   recovered |-> {}, focused |-> FALSE, devices |-> Device,
                   rev |-> IF mode = "default" THEN NoShot ELSE 1,
                   moves |-> MaxMoves, crashes |-> MaxCrashes]
    BY DEF Init
<1>2. /\ drain = NoDrain /\ io = [d \in Device |-> Off]
      /\ seen = [got |-> {}, spent |-> [r \in Revs |-> {}], revoked |-> {}]
    BY DEF Init
<1>3. /\ s \in Source /\ 1 \in Revs
      /\ mode \in {"default", "mute", "notify_once", "notify_completion_once"}
    BY StoreConstants, OutboxConstants DEF Governing
<1>4. db \in Stores /\ PolicyPut(EmptyStore, db, s, mode, 1)
    BY <1>1, <1>3, EmptyTyped, PutPolicyEffect
<1>5. app \in Apps /\ app.rev = IF mode = "default" THEN NoShot ELSE 1
    BY <1>1, <1>3, OutboxConstants DEF Apps
<1>6. drain \in Drains /\ io \in [Device -> Workers]
    BY <1>2, Constants
<1>7. seen \in [got : SUBSET (Event \X Device), spent : [Revs -> SUBSET Event],
                revoked : SUBSET (Event \X Device \X Revs)]
    BY <1>2
<1>8. \A d \in Device : io[d].st = "off"
    BY <1>2 DEF Off
<1>9. TypeInv
    BY <1>4, <1>5, <1>6, <1>7, <1>8 DEF TypeInv, TypeOK
<1>10. db.marker = {} /\ \A x \in Source : db.policy[x].rev <= app.rev
    BY <1>4, <1>5, EmptyTyped DEF PolicyPut, NoShot
<1>11. \A e \in Event : db.status[e] = "absent" /\ db.batchOf[e] = {}
    BY <1>4, EmptyTyped DEF PolicyPut, Stores
<1>12. ASSUME NEW e \in Event, NEW d \in Device
       PROVE  /\ Row(e, d).st = "none" /\ Row(e, d).shot = NoShot
              /\ ~ OneShotClosed(Row(e, d)) /\ db.journal[e][d] = "none"
    <2>1. RowKept(NoRow, db.row[e][d]) /\ db.journal[e][d] = "none"
        BY <1>4, EmptyTyped DEF PolicyPut
    <2> QED BY <2>1 DEF RowKept, NoRow, Row, OneShotClosed
<1> QED BY <1>2, <1>9, <1>10, <1>11, <1>12

\* The first state has the invariant.
LEMMA IInvInit ==
    ASSUME Init PROVE IInv
<1>1. /\ TypeInv /\ drain = NoDrain /\ io = [d \in Device |-> Off]
      /\ seen = [got |-> {}, spent |-> [r \in Revs |-> {}], revoked |-> {}]
      /\ db.marker = {} /\ \A s \in Source : db.policy[s].rev <= app.rev
      /\ \A e \in Event : /\ db.status[e] = "absent" /\ db.batchOf[e] = {}
                          /\ \A d \in Device : /\ Row(e, d).st = "none"
                                               /\ Row(e, d).shot = NoShot
                                               /\ ~ OneShotClosed(Row(e, d))
                                               /\ db.journal[e][d] = "none"
    BY InitStruct
<1>2. \A d \in Device : /\ io[d] = Off /\ io[d].st = "off" /\ WorkerOk(io[d], drain)
                        /\ \A e : ~ Calls(io[d], e) /\ ~ Accepted(io[d], e)
    BY <1>1, OffOk DEF Off, Calls, Accepted
<1>3. PhaseInv /\ WorkerInv
    BY <1>1, <1>2, NoDrainFields DEF PhaseInv, WorkerInv, AllOff
<1>4. KnownInv
    BY <1>1, NoDrainFields DEF KnownInv, InHand
<1>5. BatchInv /\ RowInv
    BY <1>1, <1>2 DEF BatchInv, RowInv
<1>6. RevInv
    BY <1>1, RevNat DEF RevInv
<1>7. JournalInv /\ SpentInv /\ OneShotInv /\ RevokedInv
    <2>1. /\ \A e \in Event, d \in Device : ~ Got(e, d)
          /\ \A r \in Revs : seen.spent[r] = {}
        BY <1>1 DEF Got
    <2>2. JournalInv
        BY <1>1, <1>2, <2>1 DEF JournalInv, JournalRow, SentAsBatch
    <2>3. SpentInv /\ OneShotInv
        BY <1>1, <1>2, <2>1 DEF SpentInv, SpentRow, OneShotInv
    <2>4. RevokedInv
        BY <1>1 DEF RevokedInv
    <2> QED BY <2>2, <2>3, <2>4
<1> QED BY <1>1, <1>3, <1>4, <1>5, <1>6, <1>7 DEF IInv, StInv

\* A call starts for a row that is open and owed nothing.
LEMMA SendsOpen ==
    ASSUME IInv, [Next]_vars, NEW e \in Event, NEW d \in Device, Sends(e, d)
    PROVE  /\ db' = db /\ seen' = seen /\ Calls(io[d], e) /\ ~ Over(e, d)
           /\ ~ Owed(e, d)
<1>1. /\ io[d].st = "go" /\ e \in io[d].keep /\ db' = db /\ seen' = seen
    BY SendsFrom DEF IInv
<1>2. Calls(io[d], e) /\ drain.phase = "send"
    BY <1>1 DEF Calls, IInv, StInv, PhaseInv, AllOff
<1>3. ~ Owed(e, d)
    BY <1>1, <1>2 DEF Owed, Accepted
<1>4. ~ Over(e, d)
    BY <1>1, <1>2 DEF IInv, StInv, RowInv, Over, OneShotClosed
<1> QED BY <1>1, <1>2, <1>3, <1>4

-----------------------------------------------------------------------------
\* Structure, journal, one-shots and revocations hold in every reachable state:
\* what a device has received is closed in its row or will be at the next drain,
\* what a pass spent is used up, and what was revoked is over.
THEOREM OutboxInvariant == Spec => []IInv
BY IInvInit, IInvKept, PTL DEF Spec

\* The tables, the coordinator, the drain and the workers hold only the values
\* their types name, and the retries of a call stay within the two delay lists.
THEOREM TypeCorrect == Spec => []TypeOK
<1>1. IInv => TypeOK
    BY DEF IInv, StInv, TypeInv
<1> QED BY <1>1, IInvInit, IInvKept, PTL DEF Spec

\* An alert whose acceptance is journaled is never sent to the same device again
\* (recordPushNotificationDeliveryAttempt, reconcileDeliveredPushNotificationAttempts,
\* the last look of pushDelivery), for any events, devices, retries and crashes.
THEOREM ReceivedIsNotResentAlways == Spec => ReceivedIsNotResent
<1>1. IInv /\ [Next]_vars =>
        [\A e \in Event, d \in Device : Sends(e, d) => <<e, d>> \notin seen.got]_vars
    <2> SUFFICES ASSUME IInv, [Next]_vars, NEW e \in Event, NEW d \in Device, Sends(e, d)
                 PROVE  <<e, d>> \notin seen.got
        OBVIOUS
    <2>1. ~ Over(e, d) /\ ~ Owed(e, d)
        BY SendsOpen
    <2> QED BY <2>1 DEF IInv, JournalInv, JournalRow, Got
<1> QED BY <1>1, IInvInit, IInvKept, PTL DEF Spec, ReceivedIsNotResent

\* A one-shot under which an alert was accepted authorises no call for an event
\* that the pass which spent it did not handle (consumePushNotificationOneShot and
\* its markers, read back after a crash).
THEOREM OneShotIsForOneEventAlways == Spec => OneShotIsForOneEvent
<1>1. IInv /\ [Next]_vars =>
        [\A e \in Event, d \in Device, r \in Revs :
           Sends(e, d) /\ db'.row[e][d].shot = r /\ seen.spent[r] # {}
             => e \in seen.spent[r]]_vars
    <2> SUFFICES ASSUME IInv, [Next]_vars, NEW e \in Event, NEW d \in Device,
                        NEW r \in Revs, Sends(e, d), db'.row[e][d].shot = r,
                        seen.spent[r] # {}
                 PROVE  e \in seen.spent[r]
        OBVIOUS
    <2>1. Calls(io[d], e) /\ Row(e, d).shot = r /\ r # NoShot
        BY SendsOpen, RevsReal DEF Row
    <2> QED BY <2>1 DEF IInv, SpentInv, SpentRow
<1> QED BY <1>1, IInvInit, IInvKept, PTL DEF Spec, OneShotIsForOneEvent

\* A one-shot the user has withdrawn authorises no later call for a row that a
\* termination had not closed under its call (cancelPushNotificationOneShots).
THEOREM RevokedIsNotUsedAlways == Spec => RevokedIsNotUsed
<1>1. IInv /\ [Next]_vars =>
        [\A e \in Event, d \in Device :
           Sends(e, d) => <<e, d, db'.row[e][d].shot>> \notin seen.revoked]_vars
    <2> SUFFICES ASSUME IInv, [Next]_vars, NEW e \in Event, NEW d \in Device,
                        Sends(e, d), <<e, d, db'.row[e][d].shot>> \in seen.revoked
                 PROVE  FALSE
        OBVIOUS
    <2>1. ~ Over(e, d) /\ db' = db
        BY SendsOpen
    <2>2. Row(e, d).shot \in Revs /\ <<e, d, Row(e, d).shot>> \in seen.revoked
        BY <2>1 DEF IInv, StInv, TypeInv, TypeOK, Row
    <2> QED BY <2>1, <2>2 DEF IInv, RevokedInv
<1> QED BY <1>1, IInvInit, IInvKept, PTL DEF Spec, RevokedIsNotUsed
=============================================================================
