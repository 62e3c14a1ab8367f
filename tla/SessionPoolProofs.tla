-------------------------- MODULE SessionPoolProofs --------------------------
(***************************************************************************)
(* Theorems about SessionPool, for every value of its constants: sessions  *)
(* and their chats (OneOwner), and the lease of a CLI update               *)
(* (HolderIsAlone, InstallerWaits).  IInv is inductive; a lemma for each   *)
(* of its parts goes through the actions.                                  *)
(***************************************************************************)
EXTENDS SessionPool, TLAPS

Waits == {"new", "stored", "looking"}
Turns == {"selecting", "queued", "starting", "running"}

\* A session is named by a chat, or, a Routine's, by itself.
Named == \A e \in Requests : /\ claimed[e] \in Chats \cup {None}
                             /\ current[e] \in Chats \cup {None, e}

\* A request that has not created its session yet: nothing is known of it.
Unborn == \A h \in Requests : At(h, Waits) =>
    /\ h \notin pool /\ claimed[h] = None /\ current[h] = None
    /\ req[h].on = h /\ (Kind(h) = "routine" => At(h, {"new"}))
    /\ \A g \in Requests \ {h} : req[g].on # h

\* The session a request was resolved to keeps its chat.
PreparedOn(h) == /\ req[h].on = h /\ Kind(h) = "chat"
                 /\ claimed[h] = Chat(h) /\ current[h] \in {None, Chat(h)}
TurnOn(h) == IF Kind(h) = "routine"
             THEN req[h].on = h /\ claimed[h] = None /\ current[h] \in {None, h}
             ELSE Holds(req[h].on) = Chat(h)
Resolved == \A h \in Requests : /\ At(h, {"preparing"}) => PreparedOn(h)
                                /\ At(h, Turns) => TurnOn(h)

\* What a drain waits for, and what no drain waits for any more.
Drained ==
    /\ ~drain.on => drain = NoDrain
    /\ drain.on => pool = {}
    /\ dying \subseteq drain.left \cup loose
    /\ \A u \in drain.for : update[u] \in {"draining", "ended"}

\* HolderIsAlone and InstallerWaits, from the moment the lease was taken.
Holding(u) == update[u] \in {"draining", "working", "reconciling"} /\ now < promised[u]
Leased == \A u \in Updates :
    /\ lease.by = u => lease.until = promised[u]
    /\ Holding(u) => lease = [by |-> u, until |-> promised[u]] /\ pool = {}
    /\ Installing(u) => dying \subseteq loose

IInv == TypeOK /\ Named /\ Unborn /\ Resolved /\ OneOwner /\ Drained /\ Leased

-----------------------------------------------------------------------------
(* The operators of the model *)

\* The owner of a chat, if there is one, is in the pool.
LEMMA OwnerIsThere ==
    ASSUME NEW c, Owners(c) # {}
    PROVE  Owner(c) \in pool /\ Holds(Owner(c)) = c
BY DEF Owners, Owner

\* A turn starts or waits.
LEMMA EnqueuedIsATurn == ASSUME NEW e PROVE Enqueued(e) \in {"queued", "starting"}
BY DEF Enqueued

\* Nothing is created while a lease is active or a drain waits.
LEMMA CreationIsRefused == ~Refuses => ~LeaseActive /\ ~drain.on
BY DEF Refuses

\* A lease ends within the bound on the clock.
LEMMA ExpiryInTime == TypeOK => Expiry \in 0 .. MaxTime
BY PoolConstants DEF Expiry, TypeOK

-----------------------------------------------------------------------------
(* Types *)

\* The types hold at first.
LEMMA InitTypeOK == Init => TypeOK
<1> SUFFICES ASSUME Init PROVE TypeOK
    OBVIOUS
<1>1. PICK kinds \in Mixes : req = [h \in Requests |->
           [kind |-> kinds[h], at |-> IF kinds[h] = "stored" THEN "stored" ELSE "new",
            on |-> h]]
    BY DEF Init
<1>2. kinds \in [Requests -> Kinds]
    BY PoolConstants
<1>3. req \in [Requests -> [kind : Kinds, at : Where, on : Requests]]
    BY <1>1, <1>2 DEF Where
<1> QED
    BY <1>3, PoolConstants DEF Init, TypeOK, NoLease, NoDrain

\* The effect of a step on the requests.
LEMMA GoesType ==
    ASSUME TypeOK, NEW h \in Requests, NEW at \in Where, NEW e \in Requests, Goes(h, at, e)
    PROVE  /\ req' \in [Requests -> [kind : Kinds, at : Where, on : Requests]]
           /\ req'[h] = [kind |-> req[h].kind, at |-> at, on |-> e]
           /\ \A g \in Requests \ {h} : req'[g] = req[g]
<1>1. req \in [Requests -> [kind : Kinds, at : Where, on : Requests]]
    BY DEF TypeOK
<1>2. DOMAIN req' = Requests /\ req' = [g \in Requests |-> req'[g]]
    BY <1>1 DEF Goes
<1>3. \A g \in Requests \ {h} : req'[g] = req[g]
    BY <1>1 DEF Goes
<1>4. req'[h] = [[req[h] EXCEPT !.at = at] EXCEPT !.on = e]
    BY <1>1 DEF Goes
<1>5. req[h] \in [kind : Kinds, at : Where, on : Requests]
    BY <1>1
<1>6. req'[h] = [kind |-> req[h].kind, at |-> at, on |-> e]
    BY <1>4, <1>5
<1>7. req'[h] \in [kind : Kinds, at : Where, on : Requests]
    BY <1>5, <1>6
<1>8. \A g \in Requests : req'[g] \in [kind : Kinds, at : Where, on : Requests]
    BY <1>1, <1>3, <1>7
<1> QED
    BY <1>2, <1>3, <1>6, <1>8

\* Aborting keeps the types.
LEMMA AbortedType ==
    ASSUME TypeOK, NEW e
    PROVE  Aborted(e) \in [Requests -> [kind : Kinds, at : Where, on : Requests]]
BY DEF TypeOK, Aborted, Where, At

\* The chat of a request.
LEMMA ChatType == ASSUME TypeOK, NEW h \in Requests PROVE Chat(h) \in Chats \cup Requests
BY PoolConstants DEF Chat

\* The types are kept.
LEMMA TypeOKNext == TypeOK /\ [Next]_vars => TypeOK'
<1> SUFFICES ASSUME TypeOK, [Next]_vars PROVE TypeOK'
    OBVIOUS
<1> USE PoolConstants
<1>1. ASSUME NEW h \in Requests, RequestStep(h) PROVE TypeOK'
  <2>0. Chat(h) \in Chats \cup Requests
      BY ChatType
  <2>1. \A c : Owners(c) # {} => Owner(c) \in Requests
      BY OwnerIsThere DEF TypeOK
  <2>2. req' \in [Requests -> [kind : Kinds, at : Where, on : Requests]]
    <3>0. \A e : Enqueued(e) \in Where
        BY EnqueuedIsATurn DEF Where
    <3>1. req[h].on \in Requests
        BY DEF TypeOK
    <3>2. CASE \E at \in Where, e \in Requests : Goes(h, at, e)
        BY <3>2, GoesType
    <3>3. CASE Load(h)
        BY <3>3 DEF TypeOK, Load
    <3>4. RequestStep(h) => Load(h) \/ \E at \in Where, e \in Requests : Goes(h, at, e)
      <4>1. ChatArrives(h) => \E at \in Where, e \in Requests : Goes(h, at, e)
          BY <2>1 DEF ChatArrives, Where
      <4>2. Prepared(h) => \E at \in Where, e \in Requests : Goes(h, at, e)
          BY DEF Prepared, Where
      <4>3. GoalArrives(h) \/ GoalResolves(h) => \E at \in Where, e \in Requests : Goes(h, at, e)
          BY <2>1 DEF GoalArrives, GoalResolves, Where
      <4>4. RoutineStarts(h) => \E at \in Where, e \in Requests : Goes(h, at, e)
          BY DEF RoutineStarts, Where
      <4>5. RestoreTurn(h) => \E at \in Where, e \in Requests : Goes(h, at, e)
          BY <2>1, <3>0 DEF RestoreTurn, Where
      <4>6. Submit(h) \/ SelectionFails(h) \/ Start(h) \/ Launch(h) \/ EndTurn(h)
                => \E at \in Where, e \in Requests : Goes(h, at, e)
          BY <3>0, <3>1 DEF Submit, SelectionFails, Start, Launch, EndTurn, Where
      <4> QED
          BY <4>1, <4>2, <4>3, <4>4, <4>5, <4>6 DEF RequestStep
    <3> QED
        BY <1>1, <3>2, <3>3, <3>4
  <2>3. pool' \subseteq Requests
      BY <1>1 DEF TypeOK, RequestStep, ChatArrives, Prepared, GoalArrives, GoalResolves,
          RoutineStarts, RestoreTurn, Submit, SelectionFails, Start, Load, Launch, EndTurn,
          CreateFor, RunCloses, sessions
  <2>4. claimed' \in [Requests -> Chats \cup Requests \cup {None}]
      BY <1>1, <2>0 DEF TypeOK, RequestStep, ChatArrives, Prepared, GoalArrives, GoalResolves,
          RoutineStarts, RestoreTurn, Submit, SelectionFails, Start, Load, Launch, EndTurn,
          CreateFor, Claimed, sessions
  <2>5. current' \in [Requests -> Chats \cup Requests \cup {None}]
      BY <1>1, <2>0 DEF TypeOK, RequestStep, ChatArrives, Prepared, GoalArrives, GoalResolves,
          RoutineStarts, RestoreTurn, Submit, SelectionFails, Start, Load, Launch, EndTurn,
          sessions
  <2>6. proc' \subseteq Requests /\ susp' \subseteq Requests
      BY <1>1 DEF TypeOK, RequestStep, ChatArrives, Prepared, GoalArrives, GoalResolves,
          RoutineStarts, RestoreTurn, Submit, SelectionFails, Start, Load, Launch, EndTurn,
          sessions
  <2>7. UNCHANGED <<updates, now, mishaps>>
      BY <1>1 DEF RequestStep, ChatArrives, Prepared, GoalArrives, GoalResolves,
          RoutineStarts, RestoreTurn, Submit, SelectionFails, Start, Load, Launch, EndTurn
  <2> QED
      BY <2>2, <2>3, <2>4, <2>5, <2>6, <2>7 DEF TypeOK, updates
<1>2. ASSUME NEW h \in Requests, Close(h) PROVE TypeOK'
    BY <1>2, AbortedType DEF TypeOK, Close, updates
<1>3. ASSUME NEW h \in Requests, StrayExits(h) \/ ProcessExits(h) PROVE TypeOK'
    BY <1>3 DEF TypeOK, StrayExits, ProcessExits, sessions, updates
<1>4. ASSUME NEW u \in Updates, UpdateBegins(u) PROVE TypeOK'
  <2>1. PICK owned \in SUBSET (proc \cap pool) :
            drain' = Drain(u, owned) /\ proc' = proc \ owned /\ dying' = dying \cup owned
      BY <1>4 DEF UpdateBegins
  <2>2. Expiry \in 0 .. MaxTime
      BY ExpiryInTime
  <2>3. drain' \in [on : BOOLEAN, left : SUBSET Requests, for : SUBSET Updates]
      BY <2>1 DEF TypeOK, Drain, NewDrain
  <2> QED
      BY <1>4, <2>1, <2>2, <2>3 DEF TypeOK, UpdateBegins
<1>5. ASSUME NEW u \in Updates, Heartbeat(u) PROVE TypeOK'
    BY <1>5, ExpiryInTime DEF TypeOK, Heartbeat, sessions
<1>6. ASSUME NEW u \in Updates, UpdateRefused(u) \/ Release(u) \/ Reconcile(u) \/ Abandon(u)
      PROVE TypeOK'
    BY <1>6 DEF TypeOK, UpdateRefused, Release, Reconcile, Abandon, NoLease, sessions
<1>7. ASSUME DrainEnds PROVE TypeOK'
    BY <1>7 DEF TypeOK, DrainEnds, NoDrain, sessions
<1>8. ASSUME DrainFails PROVE TypeOK'
    BY <1>8 DEF TypeOK, DrainFails, NoDrain, NoLease, sessions
<1>9. ASSUME Tick PROVE TypeOK'
    BY <1>9 DEF TypeOK, Tick, sessions, updates
<1>10. ASSUME UNCHANGED vars PROVE TypeOK'
    BY <1>10 DEF TypeOK, vars, sessions, updates
<1> QED
    BY <1>1, <1>2, <1>3, <1>4, <1>5, <1>6, <1>7, <1>8, <1>9, <1>10 DEF Next, UpdateStep
-----------------------------------------------------------------------------
(* What the steps of a request do to the sessions and their chats *)

Rests(h) == /\ \E at \in {"refused", "settled", "left"}, e \in pool \cup {h, req[h].on} :
                   Goes(h, at, e)
            /\ pool' \subseteq pool /\ UNCHANGED <<claimed, current>>

Looks(h) == /\ At(h, {"new"}) /\ Kind(h) # "routine" /\ Goes(h, "looking", h)
            /\ UNCHANGED <<pool, claimed, current>>

Joins(h) == /\ At(h, Waits) /\ Kind(h) # "routine"
            /\ \E at \in Turns, e \in pool : Holds(e) = Chat(h) /\ Goes(h, at, e)
            /\ UNCHANGED <<pool, claimed, current>>

Creates(h) == /\ At(h, Waits) /\ Kind(h) # "routine" /\ Owners(Chat(h)) = {}
              /\ CreateFor(h) /\ UNCHANGED current
              /\ \E at \in {"preparing", "starting", "settled"} :
                    Goes(h, at, h) /\ (at = "preparing" => Kind(h) = "chat")

StartsRoutine(h) == /\ At(h, {"new"}) /\ Kind(h) = "routine"
                    /\ Goes(h, "selecting", h)
                    /\ pool' = pool \cup {h} /\ UNCHANGED <<claimed, current>>

Loads(e, c) == current' = [current EXCEPT ![e] = c] \/ UNCHANGED current

Prepares(h) == /\ At(h, {"preparing"}) /\ Goes(h, "selecting", h)
               /\ Loads(h, Chat(h)) /\ UNCHANGED <<pool, claimed>>

Advances(h) == /\ At(h, Turns) /\ \E at \in Turns : Goes(h, at, req[h].on)
               /\ Loads(req[h].on, Chat(h)) /\ UNCHANGED <<pool, claimed>>

\* A step of a request has one of these effects.
LEMMA RequestEffects ==
    ASSUME TypeOK, Unborn, NEW h \in Requests, RequestStep(h)
    PROVE  \/ Rests(h) \/ Looks(h) \/ Joins(h) \/ Creates(h)
           \/ StartsRoutine(h) \/ Prepares(h) \/ Advances(h)
<1>1. CASE ChatArrives(h)
    BY <1>1, OwnerIsThere DEF ChatArrives, Rests, Joins, Creates, At, Waits, Turns
<1>2. CASE Prepared(h)
    BY <1>2 DEF Prepared, Rests, Prepares, Loads
<1>3. CASE GoalArrives(h)
    BY <1>3, OwnerIsThere DEF GoalArrives, Rests, Looks, sessions
<1>4. CASE GoalResolves(h)
  <2>1. Kind(h) # "routine" /\ At(h, Waits)
      BY <1>4 DEF GoalResolves, Unborn, At, Waits
  <2> QED
      BY <1>4, <2>1, OwnerIsThere DEF GoalResolves, Rests, Creates
<1>5. CASE RoutineStarts(h)
    BY <1>5 DEF RoutineStarts, Rests, StartsRoutine
<1>6. CASE RestoreTurn(h)
  <2>1. Kind(h) # "routine" /\ At(h, Waits)
      BY <1>6 DEF RestoreTurn, Unborn, At, Waits
  <2>2. \A e : Enqueued(e) \in Turns
      BY EnqueuedIsATurn DEF Turns
  <2> QED
      BY <1>6, <2>1, <2>2, OwnerIsThere DEF RestoreTurn, Rests, Joins, Creates
<1>7. CASE Submit(h)
    BY <1>7, EnqueuedIsATurn DEF Submit, Advances, Loads, At, Turns, sessions
<1>8. CASE SelectionFails(h)
    BY <1>8 DEF SelectionFails, RunCloses, Rests
<1>9. CASE Start(h)
    BY <1>9 DEF Start, Advances, Loads, At, Turns, sessions
<1>10. CASE Load(h)
  <2>1. Goes(h, "queued", req[h].on)
      BY <1>10 DEF Load, Goes, At, TypeOK
  <2> QED
      BY <1>10, <2>1 DEF Load, Advances, Loads, At, Turns
<1>11. CASE Launch(h)
    BY <1>11 DEF Launch, Advances, Loads, At, Turns
<1>12. CASE EndTurn(h)
    BY <1>12 DEF EndTurn, RunCloses, Rests
<1> QED
    BY <1>1, <1>2, <1>3, <1>4, <1>5, <1>6, <1>7, <1>8, <1>9, <1>10, <1>11, <1>12
       DEF RequestStep

-----------------------------------------------------------------------------
(* The sessions and their chats *)

SessionInv == Named /\ Unborn /\ Resolved /\ OneOwner

\* Whatever else a step does: a user closes a session, an update empties the pool,
\* or sessions and requests stay as they are.
Removes == /\ pool' \subseteq pool /\ UNCHANGED <<claimed, current>>
           /\ \A h \in Requests : \/ req'[h] = req[h]
                                  \/ At(h, Turns) /\ req'[h].kind = req[h].kind
                                     /\ req'[h].on = req[h].on
                                     /\ req'[h].at = "settled"

\* Every other step only removes and ends.
LEMMA OtherEffects ==
    ASSUME TypeOK, [Next]_vars
    PROVE  (\E h \in Requests : RequestStep(h)) \/ Removes
<1>1. ASSUME NEW e \in Requests, Close(e) PROVE Removes
  <2>1. \A h \in Requests : req'[h] = Aborted(e)[h]
      BY <1>1 DEF Close
  <2>2. ASSUME NEW h \in Requests
        PROVE  \/ req'[h] = req[h]
               \/ At(h, Turns) /\ req'[h].kind = req[h].kind /\ req'[h].on = req[h].on
                  /\ req'[h].at = "settled"
    <3>1. req[h] \in [kind : Kinds, at : Where, on : Requests]
        BY DEF TypeOK
    <3> QED
        BY <2>1, <3>1 DEF Aborted, At, Turns
  <2> QED
      BY <1>1, <2>2 DEF Close, Removes
<1>2. ASSUME NEW u \in Updates, UpdateBegins(u) PROVE Removes
    BY <1>2 DEF UpdateBegins, Removes
<1>6. ASSUME NEW e \in Requests, StrayExits(e) PROVE Removes
    BY <1>6 DEF StrayExits, Removes
<1>3. CASE UNCHANGED <<sessions, req>>
    BY <1>3 DEF sessions, Removes
<1>4. \A u \in Updates : UpdateStep(u) => UpdateBegins(u) \/ UNCHANGED <<sessions, req>>
    BY DEF UpdateStep, UpdateRefused, Heartbeat, Release, Reconcile, Abandon
<1>5. (\E h \in Requests : ProcessExits(h)) \/ DrainEnds \/ DrainFails \/ Tick \/ UNCHANGED vars
         => UNCHANGED <<sessions, req>>
    BY DEF ProcessExits, DrainEnds, DrainFails, Tick, vars
<1> QED
    BY <1>1, <1>2, <1>3, <1>4, <1>5, <1>6 DEF Next

\* What a step of request h leaves as it was.
LEMMA Moved ==
    ASSUME TypeOK, NEW h \in Requests, NEW at \in Where, NEW e \in Requests, Goes(h, at, e)
    PROVE  /\ req'[h].kind = req[h].kind /\ req'[h].at = at /\ req'[h].on = e
           /\ \A g \in Requests \ {h} : req'[g] = req[g]
<1>1. /\ req'[h] = [kind |-> req[h].kind, at |-> at, on |-> e]
      /\ \A g \in Requests \ {h} : req'[g] = req[g]
    BY GoesType
<1> QED
    BY <1>1

\* A Routine's chat is named by its session, the others are database sessions.
LEMMA ChatOfTurn ==
    ASSUME NEW h \in Requests PROVE IF Kind(h) = "routine" THEN Chat(h) = h ELSE Chat(h) \in Chats
BY PoolConstants DEF Chat

\* A request that ends keeps it.
LEMMA RestsKeeps ==
    ASSUME TypeOK, SessionInv, NEW h \in Requests, Rests(h) PROVE SessionInv'
<1>1. PICK at \in {"refused", "settled", "left"}, e \in pool \cup {h, req[h].on} : Goes(h, at, e)
    BY DEF Rests
<1>2. e \in Requests /\ at \in Where
    BY <1>1 DEF TypeOK, Where
<1>3. /\ req'[h].kind = req[h].kind /\ req'[h].at = at /\ req'[h].on = e
      /\ \A g \in Requests \ {h} : req'[g] = req[g]
    BY <1>1, <1>2, Moved
<1>4. pool' \subseteq pool /\ UNCHANGED <<claimed, current>>
    BY DEF Rests
<1>5. Named'
    BY <1>4 DEF SessionInv, Named
<1>6. Unborn'
    BY <1>1, <1>3, <1>4 DEF SessionInv, Unborn, At, Kind, Waits
<1>7. Resolved'
    BY <1>1, <1>3, <1>4 DEF SessionInv, Resolved, PreparedOn, TurnOn, Holds, At, Kind, Chat, Turns
<1>8. OneOwner'
    BY <1>4 DEF SessionInv, OneOwner, Holds
<1> QED
    BY <1>5, <1>6, <1>7, <1>8 DEF SessionInv

\* A goal command that reads keeps the invariant.
LEMMA LooksKeeps ==
    ASSUME TypeOK, SessionInv, NEW h \in Requests, Looks(h) PROVE SessionInv'
<1>1. Goes(h, "looking", h) /\ At(h, Waits) /\ Kind(h) # "routine"
    BY DEF Looks, At, Waits
<1>2. /\ req'[h].kind = req[h].kind /\ req'[h].at = "looking" /\ req'[h].on = h
      /\ \A g \in Requests \ {h} : req'[g] = req[g]
    BY <1>1, Moved DEF Where
<1>3. UNCHANGED <<pool, claimed, current>>
    BY DEF Looks
<1>4. Named' /\ OneOwner'
    BY <1>3 DEF SessionInv, Named, OneOwner, Holds
<1>5. Unborn'
    BY <1>1, <1>2, <1>3 DEF SessionInv, Unborn, At, Kind, Waits
<1>6. Resolved'
    BY <1>2, <1>3 DEF SessionInv, Resolved, PreparedOn, TurnOn, Holds, At, Kind, Chat, Turns
<1> QED
    BY <1>4, <1>5, <1>6 DEF SessionInv

\* A request that finds the owner of its chat keeps it.
LEMMA JoinsKeeps ==
    ASSUME TypeOK, SessionInv, NEW h \in Requests, Joins(h) PROVE SessionInv'
<1>1. PICK at \in Turns, e \in pool : Holds(e) = Chat(h) /\ Goes(h, at, e)
    BY DEF Joins
<1>2. e \in Requests /\ at \in Where
    BY <1>1 DEF TypeOK, Where, Turns
<1>3. /\ req'[h].kind = req[h].kind /\ req'[h].at = at /\ req'[h].on = e
      /\ \A g \in Requests \ {h} : req'[g] = req[g]
    BY <1>1, <1>2, Moved
<1>4. UNCHANGED <<pool, claimed, current>> /\ Kind(h) # "routine"
    BY DEF Joins
<1>5. Named' /\ OneOwner'
    BY <1>4 DEF SessionInv, Named, OneOwner, Holds
<1>6. Unborn'
    BY <1>1, <1>3, <1>4 DEF SessionInv, Unborn, At, Kind, Waits, Turns
<1>7. Resolved'
    BY <1>1, <1>3, <1>4 DEF SessionInv, Resolved, PreparedOn, TurnOn, Holds, At, Kind, Chat, Turns
<1> QED
    BY <1>5, <1>6, <1>7 DEF SessionInv

\* A request that creates and claims a session keeps it: nobody owned the chat.
LEMMA CreatesKeeps ==
    ASSUME TypeOK, SessionInv, NEW h \in Requests, Creates(h) PROVE SessionInv'
<1>1. PICK at \in {"preparing", "starting", "settled"} :
          Goes(h, at, h) /\ (at = "preparing" => Kind(h) = "chat")
    BY DEF Creates
<1>2. /\ req'[h].kind = req[h].kind /\ req'[h].at = at /\ req'[h].on = h
      /\ \A g \in Requests \ {h} : req'[g] = req[g]
    BY <1>1, Moved DEF Where
<1>3. /\ pool' = pool \cup {h} /\ UNCHANGED current
      /\ Kind(h) # "routine" /\ Owners(Chat(h)) = {}
    BY DEF Creates, CreateFor
<1>4. /\ claimed'[h] = Chat(h)
      /\ \A e \in Requests \ {h} : claimed'[e] = claimed[e]
    BY DEF Creates, CreateFor, Claimed, TypeOK
<1>5. /\ h \notin pool /\ claimed[h] = None /\ current[h] = None
      /\ \A g \in Requests \ {h} : req[g].on # h
    BY DEF Creates, SessionInv, Unborn
<1>6. Chat(h) \in Chats /\ Chat(h) # None
    BY <1>3, ChatOfTurn, PoolConstants
<1>7. Named'
    BY <1>3, <1>4, <1>6 DEF SessionInv, Named
<1>8. Unborn'
    BY <1>1, <1>2, <1>3, <1>4 DEF SessionInv, Unborn, At, Kind, Waits
<1>9. Resolved'
  <2>1. ASSUME NEW g \in Requests \ {h}
        PROVE  /\ At(g, {"preparing"})' => PreparedOn(g)'
               /\ At(g, Turns)' => TurnOn(g)'
    <3>1. req[g].on \in Requests \ {h}
        BY <1>5 DEF TypeOK
    <3> QED
        BY <1>2, <1>3, <1>4, <3>1 DEF SessionInv, Resolved, PreparedOn, TurnOn, Holds, At, Kind,
           Chat, Turns
  <2>2. /\ At(h, {"preparing"})' => PreparedOn(h)'
        /\ At(h, Turns)' => TurnOn(h)'
      BY <1>1, <1>2, <1>3, <1>4, <1>5 DEF PreparedOn, TurnOn, Holds, At, Kind, Chat, Turns
  <2> QED
      BY <2>1, <2>2 DEF Resolved
<1>10. OneOwner'
  <2>1. Holds(h)' = Chat(h)
      BY <1>3, <1>4, <1>5 DEF Holds
  <2>2. \A e \in pool : Holds(e)' = Holds(e) /\ Holds(e) # Chat(h)
      BY <1>3, <1>4, <1>5 DEF Holds, Owners, TypeOK
  <2> QED
      BY <1>3, <2>1, <2>2 DEF SessionInv, OneOwner
<1> QED
    BY <1>7, <1>8, <1>9, <1>10 DEF SessionInv

\* A Routine's session is nobody's chat yet.
LEMMA StartsRoutineKeeps ==
    ASSUME TypeOK, SessionInv, NEW h \in Requests, StartsRoutine(h) PROVE SessionInv'
<1>1. Goes(h, "selecting", h) /\ At(h, Waits) /\ Kind(h) = "routine"
    BY DEF StartsRoutine, At, Waits
<1>2. /\ req'[h].kind = req[h].kind /\ req'[h].at = "selecting" /\ req'[h].on = h
      /\ \A g \in Requests \ {h} : req'[g] = req[g]
    BY <1>1, Moved DEF Where
<1>3. pool' = pool \cup {h} /\ UNCHANGED <<claimed, current>>
    BY DEF StartsRoutine
<1>4. claimed[h] = None /\ current[h] = None
    BY <1>1 DEF SessionInv, Unborn
<1>5. Named'
    BY <1>3 DEF SessionInv, Named
<1>6. Unborn'
    BY <1>2, <1>3 DEF SessionInv, Unborn, At, Kind, Waits
<1>7. Resolved'
    BY <1>1, <1>2, <1>3, <1>4 DEF SessionInv, Resolved, PreparedOn, TurnOn, Holds, At, Kind, Chat,
       Turns
<1>8. OneOwner'
    BY <1>3, <1>4 DEF SessionInv, OneOwner, Holds
<1> QED
    BY <1>5, <1>6, <1>7, <1>8 DEF SessionInv

\* Restored controls load the chat that was claimed.
LEMMA PreparesKeeps ==
    ASSUME TypeOK, SessionInv, NEW h \in Requests, Prepares(h) PROVE SessionInv'
<1>1. Goes(h, "selecting", h) /\ PreparedOn(h) /\ UNCHANGED <<pool, claimed>>
    BY DEF Prepares, SessionInv, Resolved
<1>2. /\ req'[h].kind = req[h].kind /\ req'[h].at = "selecting" /\ req'[h].on = h
      /\ \A g \in Requests \ {h} : req'[g] = req[g]
    BY <1>1, Moved DEF Where
<1>3. /\ current'[h] \in {None, Chat(h)}
      /\ \A e \in Requests \ {h} : current'[e] = current[e]
    BY <1>1 DEF Prepares, Loads, PreparedOn, TypeOK
<1>4. Chat(h) \in Chats /\ Chat(h) # None
    BY <1>1, ChatOfTurn, PoolConstants DEF PreparedOn
<1>5. Holds(h) = Chat(h) /\ Holds(h)' = Chat(h)
    BY <1>1, <1>3, <1>4 DEF Holds, PreparedOn
<1>6. \A e \in Requests : Holds(e)' = Holds(e)
    BY <1>1, <1>3, <1>5 DEF Holds
<1>7. ~At(h, Waits) /\ Kind(h) = "chat"
    BY <1>1 DEF Prepares, At, Waits, PreparedOn
<1>8. Named'
    BY <1>1, <1>3, <1>4 DEF SessionInv, Named
<1>9. Unborn'
    BY <1>1, <1>2, <1>3, <1>7 DEF SessionInv, Unborn, At, Kind, Waits, PreparedOn
<1>10. Resolved'
  <2>1. ASSUME NEW g \in Requests \ {h}
        PROVE  /\ At(g, {"preparing"})' => PreparedOn(g)'
               /\ At(g, Turns)' => TurnOn(g)'
    <3>1. PICK s \in Requests : s = req[g].on
        BY DEF TypeOK
    <3>2. Holds(s)' = Holds(s) /\ req'[g].on = s
        BY <1>2, <1>6, <3>1
    <3> QED
        BY <1>1, <1>2, <1>3, <3>1, <3>2 DEF SessionInv, Resolved, PreparedOn, TurnOn, Holds, At, Kind,
           Chat, Turns
  <2>2. /\ At(h, {"preparing"})' => PreparedOn(h)'
        /\ At(h, Turns)' => TurnOn(h)'
      BY <1>2, <1>5, <1>7 DEF PreparedOn, TurnOn, Holds, At, Kind, Chat
  <2> QED
      BY <2>1, <2>2 DEF Resolved
<1>11. OneOwner'
    BY <1>1, <1>6 DEF SessionInv, OneOwner, TypeOK
<1> QED
    BY <1>8, <1>9, <1>10, <1>11 DEF SessionInv

\* A turn loads the chat that its session holds already.
LEMMA AdvancesKeeps ==
    ASSUME TypeOK, SessionInv, NEW h \in Requests, Advances(h) PROVE SessionInv'
<1>0. PICK e \in Requests : e = req[h].on
    BY DEF TypeOK
<1>1. PICK at \in Turns : Goes(h, at, e)
    BY <1>0 DEF Advances
<1>2. at \in Where
    BY <1>1 DEF Where, Turns
<1>3. /\ req'[h].kind = req[h].kind /\ req'[h].at = at /\ req'[h].on = e
      /\ \A g \in Requests \ {h} : req'[g] = req[g]
    BY <1>1, <1>2, Moved
<1>4. UNCHANGED <<pool, claimed>> /\ At(h, Turns) /\ TurnOn(h)
    BY DEF Advances, SessionInv, Resolved
<1>5. /\ current'[e] \in {current[e], Chat(h)}
      /\ \A f \in Requests \ {e} : current'[f] = current[f]
    BY <1>0 DEF Advances, Loads, TypeOK
<1>6. Chat(h) # None
    BY ChatOfTurn, PoolConstants
<1>7. ASSUME Kind(h) # "routine"
      PROVE  Chat(h) \in Chats /\ Holds(e) = Chat(h) /\ Holds(e)' = Chat(h)
    BY <1>0, <1>4, <1>5, <1>6, <1>7, ChatOfTurn DEF TurnOn, Holds
<1>8. ASSUME Kind(h) = "routine"
      PROVE  /\ e = h /\ Chat(h) = h /\ claimed[h] = None
             /\ Holds(h) \in {None, h} /\ current'[h] \in {None, h}
    BY <1>0, <1>4, <1>5, <1>8, ChatOfTurn DEF TurnOn, Holds
<1>9. \A f \in Requests \ {e} : Holds(f)' = Holds(f)
    BY <1>4, <1>5 DEF Holds
<1>10. Named'
    BY <1>4, <1>5, <1>7, <1>8 DEF SessionInv, Named
<1>11. Unborn'
    BY <1>0, <1>1, <1>3, <1>4, <1>5 DEF SessionInv, Unborn, At, Kind, Waits, Turns
<1>12. Resolved'
  <2>1. ASSUME NEW g \in Requests \ {h}, At(g, {"preparing"}) PROVE PreparedOn(g)'
    <3>1. PreparedOn(g)
        BY <2>1 DEF SessionInv, Resolved
    <3>2. g = e => current'[g] \in {None, Chat(g)}
      <4>1. ASSUME g = e PROVE Kind(h) # "routine" /\ Holds(e) = Chat(g)
          BY <4>1, <3>1, <1>8 DEF PreparedOn, Holds
      <4> QED
          BY <4>1, <1>5, <1>7, <3>1 DEF PreparedOn
    <3> QED
        BY <1>3, <1>4, <1>5, <3>1, <3>2 DEF PreparedOn, Kind, Chat
  <2>2. ASSUME NEW g \in Requests \ {h}, At(g, Turns), Kind(g) # "routine" PROVE TurnOn(g)'
    <3>1. Holds(req[g].on) = Chat(g) /\ req[g].on \in Requests /\ Chat(g) \in Chats
        BY <2>2, ChatOfTurn DEF SessionInv, Resolved, TurnOn, TypeOK
    <3>2. req[g].on = e => Kind(h) # "routine"
        BY <1>8, <3>1, PoolConstants
    <3>0. PICK s \in Requests : s = req[g].on
        BY <3>1
    <3>3. Holds(s)' = Chat(g)
      <4>1. CASE s = e
          BY <4>1, <3>0, <3>1, <3>2, <1>7
      <4>2. CASE s # e
          BY <4>2, <3>0, <3>1, <1>9
      <4> QED
          BY <4>1, <4>2
    <3>4. req'[g].on = s
        BY <3>0, <1>3
    <3> QED
        BY <1>3, <2>2, <3>3, <3>4 DEF TurnOn, Holds, Kind, Chat
  <2>3. ASSUME NEW g \in Requests \ {h}, At(g, Turns), Kind(g) = "routine" PROVE TurnOn(g)'
    <3>1. req[g].on = g /\ claimed[g] = None /\ current[g] \in {None, g}
        BY <2>3 DEF SessionInv, Resolved, TurnOn
    <3>2. g # e
      <4>1. ASSUME g = e PROVE FALSE
        <5>1. Kind(h) # "routine"
            BY <4>1, <1>8
        <5>2. Holds(g) \in Chats /\ Holds(g) \in {None, g}
            BY <4>1, <5>1, <1>7, <3>1 DEF Holds
        <5> QED
            BY <5>2, PoolConstants
      <4> QED
          BY <4>1
    <3> QED
        BY <1>3, <1>4, <1>5, <2>3, <3>1, <3>2 DEF TurnOn, Kind
  <2>4. TurnOn(h)'
    <3>1. CASE Kind(h) = "routine"
        BY <3>1, <1>3, <1>4, <1>8 DEF TurnOn, Kind
    <3>2. CASE Kind(h) # "routine"
      <4>1. Holds(e)' = Chat(h)
          BY <3>2, <1>7
      <4> QED
          BY <3>2, <4>1, <1>3 DEF TurnOn, Kind, Chat, Holds
    <3> QED
        BY <3>1, <3>2
  <2>5. ~At(h, {"preparing"})'
      BY <1>1, <1>3 DEF At, Turns
  <2> QED
      BY <1>3, <2>1, <2>2, <2>3, <2>4, <2>5 DEF Resolved, At, Kind
<1>13. OneOwner'
  <2>1. ASSUME NEW f \in pool, NEW g \in pool, Holds(f)' = Holds(g)', Holds(f)' # None
        PROVE  f = g
    <3>1. f \in Requests /\ g \in Requests
        BY DEF TypeOK
    <3>2. CASE Kind(h) # "routine"
      <4>1. \A x \in Requests : Holds(x)' = Holds(x)
          BY <3>2, <1>7, <1>9
      <4> QED
          BY <2>1, <3>1, <4>1 DEF SessionInv, OneOwner
    <3>3. CASE Kind(h) = "routine"
      <4>1. Holds(h)' \in {None, h}
          BY <3>3, <1>4, <1>8 DEF Holds
      <4>2. \A x \in Requests \ {h} : Holds(x)' = Holds(x) /\ Holds(x) # h
          BY <3>3, <1>8, <1>9, PoolConstants DEF SessionInv, Named, Holds
      <4> QED
          BY <2>1, <3>1, <4>1, <4>2 DEF SessionInv, OneOwner
    <3> QED
        BY <3>2, <3>3
  <2> QED
      BY <1>4, <2>1 DEF OneOwner
<1> QED
    BY <1>10, <1>11, <1>12, <1>13 DEF SessionInv

\* Closing and suspending keep it.
LEMMA RemovesKeeps == ASSUME TypeOK, SessionInv, Removes PROVE SessionInv'
<1>1. pool' \subseteq pool /\ UNCHANGED <<claimed, current>>
    BY DEF Removes
<1>2. ASSUME NEW h \in Requests
      PROVE  /\ req'[h].kind = req[h].kind /\ req'[h].on = req[h].on
             /\ \/ req'[h].at = req[h].at
                \/ At(h, Turns) /\ req'[h].at = "settled"
    BY DEF Removes
<1>3. Named' /\ OneOwner'
    BY <1>1 DEF SessionInv, Named, OneOwner, Holds
<1>4. Unborn'
    BY <1>1, <1>2 DEF SessionInv, Unborn, At, Kind, Waits, Turns
<1>5. ASSUME NEW h \in Requests
      PROVE  /\ At(h, {"preparing"})' => PreparedOn(h)'
             /\ At(h, Turns)' => TurnOn(h)'
    BY <1>1, <1>2 DEF SessionInv, Resolved, PreparedOn, TurnOn, Holds, At, Kind, Chat, Turns
<1>6. Resolved'
    BY <1>5 DEF Resolved
<1> QED
    BY <1>3, <1>4, <1>6 DEF SessionInv

\* Every step keeps the invariant of the sessions.
LEMMA SessionInvNext == TypeOK /\ SessionInv /\ [Next]_vars => SessionInv'
<1> SUFFICES ASSUME TypeOK, SessionInv, [Next]_vars PROVE SessionInv'
    OBVIOUS
<1>1. ASSUME NEW h \in Requests, RequestStep(h) PROVE SessionInv'
    BY <1>1, RequestEffects, RestsKeeps, LooksKeeps, JoinsKeeps, CreatesKeeps,
       StartsRoutineKeeps, PreparesKeeps, AdvancesKeeps DEF SessionInv
<1> QED
    BY <1>1, OtherEffects, RemovesKeeps

\* It holds at first.
LEMMA InitSessionInv == Init => SessionInv
<1> SUFFICES ASSUME Init PROVE SessionInv
    OBVIOUS
<1>1. PICK kinds \in Mixes : req = [h \in Requests |->
           [kind |-> kinds[h], at |-> IF kinds[h] = "stored" THEN "stored" ELSE "new",
            on |-> h]]
    BY DEF Init
<1>2. pool = {} /\ \A e \in Requests : claimed[e] = None /\ current[e] = None
    BY DEF Init
<1>3. Unborn
    BY <1>1, <1>2 DEF Unborn, At, Kind, Waits
<1>4. Resolved
    BY <1>1 DEF Resolved, At, Turns
<1> QED
    BY <1>2, <1>3, <1>4 DEF SessionInv, Named, OneOwner

-----------------------------------------------------------------------------
(* The drain and the lease *)

UpdateInv == Drained /\ Leased

\* A step of a request creates a session only when there is neither lease nor
\* drain, and leaves them alone.
LEMMA RequestsWait ==
    ASSUME TypeOK, NEW h \in Requests, RequestStep(h)
    PROVE  /\ pool' \subseteq pool \/ (~LeaseActive /\ ~drain.on)
           /\ UNCHANGED <<updates, now>>
BY CreationIsRefused DEF RequestStep, ChatArrives, Prepared, GoalArrives, GoalResolves,
   RoutineStarts, RestoreTurn, Submit, SelectionFails, Start, Load, Launch, EndTurn, CreateFor,
   RunCloses, sessions

\* Who holds the lease holds it within its time.
LEMMA HoldingIsActive ==
    ASSUME TypeOK, Leased, NEW u \in Updates, Holding(u)
    PROVE  LeaseActive /\ lease.by = u /\ lease.until = promised[u] /\ Releases(u)
<1>1. lease.by = u /\ lease.until = promised[u] /\ now < promised[u]
    BY DEF Leased, Holding
<1>2. u # None /\ now \in Nat /\ promised[u] \in Nat
    BY PoolConstants DEF TypeOK
<1>3. LeaseActive
    BY <1>1, <1>2 DEF LeaseActive
<1> QED
    BY <1>1, <1>3 DEF Releases

\* Who installs holds.
LEMMA InstallingHolds == ASSUME NEW u \in Updates, Installing(u) PROVE Holding(u)
BY DEF Installing, Holding

\* A drain that has not begun waits for nothing.
LEMMA DyingWithoutDrain == ASSUME Drained, ~drain.on PROVE dying \subseteq loose
BY DEF Drained, NoDrain

\* Every step keeps the invariant of the drain.
LEMMA DrainedNext == TypeOK /\ Drained /\ [Next]_vars => Drained'
<1> SUFFICES ASSUME TypeOK, Drained, [Next]_vars PROVE Drained'
    OBVIOUS
<1> USE DEF Drained
<1>1. ASSUME NEW h \in Requests, RequestStep(h) PROVE Drained'
    BY <1>1, RequestsWait DEF updates
<1>2. ASSUME NEW h \in Requests, Close(h) PROVE Drained'
    BY <1>2 DEF Close, updates
<1>3. ASSUME NEW h \in Requests, StrayExits(h) \/ ProcessExits(h) PROVE Drained'
    BY <1>3 DEF StrayExits, ProcessExits, sessions, updates
<1>4. ASSUME NEW u \in Updates, UpdateBegins(u) PROVE Drained'
  <2>1. /\ pool' = {} /\ loose' = loose
        /\ update' = [update EXCEPT ![u] = "draining"]
      BY <1>4 DEF UpdateBegins
  <2>0. PICK owned \in SUBSET (proc \cap pool) :
            dying' = dying \cup owned /\ drain' = Drain(u, owned)
      BY <1>4 DEF UpdateBegins
  <2>2. drain'.on /\ dying' \subseteq drain'.left \cup loose
    <3>1. CASE drain.on
        BY <2>0, <2>1, <3>1 DEF Drain, TypeOK
    <3>2. CASE ~drain.on
        BY <2>0, <2>1, <3>2, DyingWithoutDrain DEF Drain, NewDrain
    <3> QED
        BY <3>1, <3>2
  <2>3. \A v \in drain'.for : v \in drain.for \cup {u}
      BY <2>0 DEF Drain, NewDrain, TypeOK
  <2>4. \A v \in drain'.for : update'[v] \in {"draining", "ended"}
      BY <2>1, <2>3 DEF TypeOK
  <2> QED
      BY <2>1, <2>2, <2>4
<1>5. ASSUME NEW u \in Updates,
             UpdateRefused(u) \/ Heartbeat(u) \/ Release(u) \/ Reconcile(u) \/ Abandon(u)
      PROVE  Drained'
  <2>1. UNCHANGED <<pool, dying, drain, loose>>
      BY <1>5 DEF UpdateRefused, Heartbeat, Release, Reconcile, Abandon, sessions
  <2>2. \A v \in drain.for : update'[v] = update[v] \/ update'[v] = "ended"
      BY <1>5 DEF UpdateRefused, Heartbeat, Release, Reconcile, Abandon, TypeOK
  <2> QED
      BY <2>1, <2>2
<1>6. ASSUME DrainEnds PROVE Drained'
    BY <1>6 DEF DrainEnds, NoDrain, sessions
<1>7. ASSUME DrainFails PROVE Drained'
    BY <1>7 DEF DrainFails, NoDrain, sessions
<1>8. CASE Tick \/ UNCHANGED vars
    BY <1>8 DEF Tick, vars, sessions, updates
<1> QED
    BY <1>1, <1>2, <1>3, <1>4, <1>5, <1>6, <1>7, <1>8 DEF Next, UpdateStep

\* Every step keeps the invariant of the lease: nobody takes a lease that is active, and only its holder ends it.
LEMMA LeasedNext == TypeOK /\ UpdateInv /\ [Next]_vars => Leased'
<1> SUFFICES ASSUME TypeOK, Drained, Leased, [Next]_vars, NEW v \in Updates
             PROVE  /\ lease'.by = v => lease'.until = promised'[v]
                    /\ Holding(v)' => lease' = [by |-> v, until |-> promised'[v]] /\ pool' = {}
                    /\ Installing(v)' => dying' \subseteq loose'
    BY DEF UpdateInv, Leased
<1> DEFINE Kept == /\ lease'.by = v => lease'.until = promised'[v]
                   /\ Holding(v)' => lease' = [by |-> v, until |-> promised'[v]] /\ pool' = {}
                   /\ Installing(v)' => dying' \subseteq loose'
<1>0. ASSUME lease' = lease \/ lease'.by = None,
             Holding(v)' => Holding(v), Holding(v)' => pool' = {} /\ lease' = lease,
             promised'[v] = promised[v], dying' \subseteq dying, loose \subseteq loose',
             Installing(v)' => Installing(v)
      PROVE  Kept
    BY <1>0, PoolConstants DEF Leased
<1>1. ASSUME NEW h \in Requests, RequestStep(h) PROVE Kept
  <2>1. UNCHANGED <<updates, now>> /\ (pool' \subseteq pool \/ ~LeaseActive)
      BY <1>1, RequestsWait
  <2>2. Holding(v) => pool' = {}
      BY <2>1, HoldingIsActive DEF Leased
  <2> QED
      BY <2>1, <2>2, <1>0 DEF updates, Holding, Installing
<1>2. ASSUME NEW h \in Requests, Close(h) \/ StrayExits(h) \/ ProcessExits(h) PROVE Kept
  <2>1. UNCHANGED <<lease, update, promised, now>> /\ pool' \subseteq pool
        /\ dying' \subseteq dying /\ loose' = loose
      BY <1>2 DEF Close, StrayExits, ProcessExits, updates, sessions
  <2> QED
      BY <2>1, <1>0 DEF Leased, Holding, Installing
<1>4. ASSUME NEW u \in Updates, UpdateBegins(u) PROVE Kept
  <2>1. ~Holding(v)
      BY <1>4, HoldingIsActive DEF UpdateBegins
  <2>2. CASE v = u
    <3>1. update'[u] = "draining" /\ promised'[u] = Expiry /\ pool' = {}
          /\ lease' = [by |-> u, until |-> Expiry]
        BY <1>4 DEF UpdateBegins, TypeOK
    <3> QED
        BY <2>2, <3>1 DEF Installing
  <2>3. CASE v # u
    <3>1. update'[v] = update[v] /\ promised'[v] = promised[v] /\ now' = now
          /\ lease'.by = u
        BY <1>4, <2>3 DEF UpdateBegins, TypeOK
    <3> QED
        BY <2>1, <2>3, <3>1 DEF Holding, Installing
  <2> QED
      BY <2>2, <2>3
<1>5. ASSUME NEW u \in Updates, Heartbeat(u) PROVE Kept
  <2>1. /\ UNCHANGED <<pool, update, dying, loose, now>>
        /\ LeaseActive /\ lease.by = u /\ update[u] = "working"
        /\ lease' = [lease EXCEPT !.until = Expiry]
        /\ promised' = [promised EXCEPT ![u] = Expiry]
      BY <1>5 DEF Heartbeat, sessions, Releases
  <2>2. lease' = [by |-> u, until |-> Expiry] /\ promised'[u] = Expiry
        /\ (v # u => promised'[v] = promised[v])
      BY <2>1 DEF TypeOK
  <2>3. CASE v = u
    <3>1. Installing(u)
        BY <2>1 DEF Installing, LeaseActive, Leased
    <3>2. pool = {} /\ dying \subseteq loose
        BY <3>1, InstallingHolds DEF Leased
    <3> QED
        BY <2>1, <2>2, <2>3, <3>2
  <2>4. CASE v # u
    <3>1. ~Holding(v)
        BY <2>1, <2>4, HoldingIsActive
    <3> QED
        BY <2>1, <2>2, <2>4, <3>1 DEF Holding, Installing
  <2> QED
      BY <2>3, <2>4
<1>6. ASSUME NEW u \in Updates, Release(u) PROVE Kept
  <2>1. /\ UNCHANGED <<pool, dying, loose, now, promised>>
        /\ update' = [update EXCEPT ![u] = "ended"]
        /\ lease' = IF Releases(u) THEN NoLease ELSE lease
      BY <1>6 DEF Release, sessions
  <2>2. Holding(v)' => Holding(v) /\ v # u
      BY <2>1 DEF Holding, TypeOK
  <2>3. Holding(v)' => lease' = lease
      BY <2>1, <2>2, HoldingIsActive DEF Releases
  <2>4. Installing(v)' => Installing(v)
      BY <2>1 DEF Installing, TypeOK
  <2> QED
      BY <2>1, <2>2, <2>3, <2>4, <1>0 DEF Leased, NoLease
<1>7. ASSUME NEW u \in Updates, UpdateRefused(u) \/ Reconcile(u) \/ Abandon(u) PROVE Kept
  <2>1. UNCHANGED <<pool, dying, loose, now, promised, lease>>
      BY <1>7 DEF UpdateRefused, Reconcile, Abandon, sessions
  <2>2. \/ update'[v] = update[v] \/ update'[v] = "ended"
        \/ update[v] = "working" /\ update'[v] = "reconciling"
      BY <1>7 DEF UpdateRefused, Reconcile, Abandon, TypeOK
  <2>3. (Holding(v)' => Holding(v)) /\ (Installing(v)' => Installing(v))
      BY <2>1, <2>2 DEF Holding, Installing
  <2> QED
      BY <2>1, <2>3, <1>0 DEF Leased
<1>8. ASSUME DrainEnds PROVE Kept
  <2>1. UNCHANGED <<pool, dying, loose, now, promised, lease>>
        /\ drain.left \cap dying = {}
      BY <1>8 DEF DrainEnds, sessions
  <2>2. update'[v] = IF v \in drain.for /\ update[v] = "draining" THEN "working" ELSE update[v]
      BY <1>8 DEF DrainEnds
  <2>3. dying \subseteq loose
      BY <2>1 DEF Drained
  <2>4. Holding(v)' => Holding(v)
      BY <2>1, <2>2 DEF Holding
  <2> QED
      BY <2>1, <2>3, <2>4 DEF Leased
<1>9. ASSUME DrainFails PROVE Kept
  <2>1. UNCHANGED <<pool, dying, now, promised>> /\ loose \subseteq loose'
        /\ lease' = IF \E u \in drain.for : Releases(u) THEN NoLease ELSE lease
      BY <1>9 DEF DrainFails, sessions
  <2>2. update'[v] = IF v \in drain.for /\ update[v] = "draining" THEN "ended" ELSE update[v]
      BY <1>9 DEF DrainFails
  <2>3. (Holding(v)' => Holding(v)) /\ (Installing(v)' => Installing(v))
      BY <2>1, <2>2 DEF Holding, Installing
  <2>4. Holding(v)' => v \notin drain.for
      BY <2>2 DEF Drained, Holding
  <2>5. Holding(v)' => lease' = lease
      BY <2>1, <2>3, <2>4, HoldingIsActive DEF Releases
  <2> QED
      BY <2>1, <2>3, <2>5, <1>0 DEF Leased, NoLease
<1>10. ASSUME Tick PROVE Kept
  <2>1. UNCHANGED <<pool, dying, loose, promised, lease, update>> /\ now' = now + 1
      BY <1>10 DEF Tick, sessions, updates
  <2>2. (Holding(v)' => Holding(v)) /\ (Installing(v)' => Installing(v))
      BY <2>1 DEF Holding, Installing, TypeOK
  <2> QED
      BY <2>1, <2>2, <1>0 DEF Leased
<1>11. ASSUME UNCHANGED vars PROVE Kept
    BY <1>11 DEF Leased, vars, sessions, updates, Holding, Installing
<1> QED
    BY <1>1, <1>2, <1>4, <1>5, <1>6, <1>7, <1>8, <1>9, <1>10, <1>11 DEF Next, UpdateStep

-----------------------------------------------------------------------------
(* The theorems *)

\* IInv is inductive.
LEMMA Inductive == IInv /\ [Next]_vars => IInv'
<1> SUFFICES ASSUME IInv, [Next]_vars PROVE IInv'
    OBVIOUS
<1>1. TypeOK /\ SessionInv /\ UpdateInv
    BY DEF IInv, SessionInv, UpdateInv
<1>2. TypeOK' /\ SessionInv' /\ Drained' /\ Leased'
    BY <1>1, TypeOKNext, SessionInvNext, DrainedNext, LeasedNext DEF UpdateInv
<1> QED
    BY <1>2 DEF IInv, SessionInv

\* IInv holds at first.
LEMMA InitIInv == Init => IInv
<1> SUFFICES ASSUME Init PROVE IInv
    OBVIOUS
<1>1. Drained
    BY DEF Init, Drained, NoDrain
<1>2. Leased
    BY PoolConstants DEF Init, Leased, NoLease, Holding, Installing
<1> QED
    BY <1>1, <1>2, InitTypeOK, InitSessionInv DEF IInv, SessionInv

\* The inductive invariant, which the other theorems follow from.
THEOREM IInvAlways == Spec => []IInv
BY InitIInv, Inductive, PTL DEF Spec

\* The variables keep their types.
THEOREM TypeCorrect == Spec => []TypeOK
<1>1. IInv => TypeOK
    BY DEF IInv
<1> QED
    BY IInvAlways, <1>1, PTL

\* No chat has two sessions in the pool, whoever looks for its owner, awaits and
\* creates one, for any number of messages, goal commands, runs and stored turns.
THEOREM OneOwnerAlways == Spec => []OneOwner
<1>1. IInv => OneOwner
    BY DEF IInv
<1> QED
    BY IInvAlways, <1>1, PTL

\* A client that works within the time it was last given has the lease and an
\* empty pool, for any number of clients and any length of the lease.
THEOREM HolderIsAloneAlways == Spec => []HolderIsAlone
<1>1. IInv => HolderIsAlone
    BY InstallingHolds DEF IInv, Leased, HolderIsAlone
<1> QED
    BY IInvAlways, <1>1, PTL

\* The installer runs only once the processes that the drains were to wait for have
\* gone, but for those that a failed drain left behind.
THEOREM InstallerWaitsAlways == Spec => []InstallerWaits
<1>1. IInv => InstallerWaits
    BY DEF IInv, Leased, InstallerWaits
<1> QED
    BY IInvAlways, <1>1, PTL
=============================================================================
