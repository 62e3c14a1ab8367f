-------------------------- MODULE DelegationsProofs --------------------------
(***************************************************************************)
(* The safety invariants of Delegations hold for all values of its         *)
(* constants.  The inductive invariant IInv adds to them what the lock     *)
(* gives: one call at a time is past it (Shape), what it looked at before  *)
(* a wait still holds after it (InHand), the row, the attempt and the turn *)
(* of a delegation agree (Steps), and the trees of cancelled delegations   *)
(* neither grow nor wake up, but for what was un-archived in them (Cuts).  *)
(***************************************************************************)
EXTENDS Delegations, TLAPS, FiniteSetTheorems

Held(c) == call[c].pc \notin {"idle", "wait"}

ShapeOf(c) ==
    /\ call[c].pc \in {"setup", "stored"} => call[c].op = "delegate"
    /\ call[c].pc \in {"claim", "claimed"} => call[c].op = "resume"
    /\ call[c].pc = "sweep" => call[c].op \in {"cancel", "cancelRun"}
    /\ call[c].op \in {"delegate", "resume"} =>
         /\ call[c].by \in Session /\ call[c].turn # 0
         /\ call[c].by \in Child => filed[call[c].by] # "none"
    /\ call[c].op = "delegate" =>
         (IF call[c].by \in Child THEN row[call[c].by].depth ELSE 0) < MaxDepth
    /\ call[c].op = "resume" => \E d \in Child : call[c].of = {d}
    /\ call[c].pc \in {"setup", "stored"} => \E d \in Child : call[c].of = {d}

Shape ==
    /\ \A c, k \in Call : Held(c) /\ Held(k) => c = k
    /\ \A c \in Call : ShapeOf(c)

StepOf(d) ==
    /\ run[d].ph = "off" => run[d] = NoRun
    /\ run[d].ph # "off" => filed[d] # "none"
    /\ run[d].ph = "start" => row[d].st = "pending"
    /\ run[d].ph \in {"query", "ended"} => row[d].st = "running"
    /\ run[d].ph = "saved" => row[d].st \in {"completed", "failed", "cancelled"}
    /\ run[d].ph = "ended" => run[d].won # "none"
    /\ turn[d] # 0 => run[d].ph = "query"
    /\ row[d].up \in Child => filed[row[d].up] # "none"
    /\ row[d].st = "none" <=> row[d] = NoRow
    /\ filed[d] # "none" => row[d].st # "none"
    /\ filed[d] = "none" => row[d].st \in {"none", "pending"}
    /\ row[d].st # "none" => row[d].up \in Session

Steps ==
    /\ stopping = {d \in Child : run[d].stop}
    /\ \A d \in Child : StepOf(d)
    /\ "routine" \in Roots => (turn["routine"] # 0 => routine = "turn")
    /\ \A d \in cut \cup revived : filed[d] # "none"

InHandOf(c, d) ==
    /\ call[c].op = "resume" => filed[d] # "none" /\ row[d].up = call[c].by
    /\ call[c].pc \in {"setup", "stored"} => filed[d] = "none" /\ run[d].ph = "off"
    /\ call[c].pc = "setup" => row[d] = NoRow /\ Capacity(call[c].by)
    /\ call[c].pc = "stored" =>
         /\ row[d].st = "pending"
         /\ row[d].unattended => \/ call[c].by = "routine"
                                 \/ /\ call[c].by \in Child
                                    /\ row[call[c].by].unattended
    /\ call[c].pc \in {"claim", "claimed"} =>
         run[d].ph = "off" /\ ~ row[d].unattended
    /\ call[c].pc = "claim" => Capacity(call[c].by)
    /\ call[c].pc = "claimed" => row[d].st = "pending" /\ row[d].tries > 0
    /\ call[c].pc = "sweep" => filed[d] # "none"

InHand == \A c \in Call : \A d \in call[c].of : InHandOf(c, d)

(* What a cancel leaves of a delegation, what it leaves when the user has  *)
(* un-archived it meanwhile, and what may become of it later.              *)
Stopped(e) ==
    /\ e \in Active => run[e].stop \/ run[e].ph = "ended"
    /\ ~ Resumable(e)
Passed(e) == Stopped(e) \/ (Resumable(e) /\ e \in revived)
Doomed(e) == Stopped(e) \/ e \in Trees(revived)

CutsOf(c) ==
    /\ \A d \in cut :
         /\ call[c].pc \in {"setup", "stored"} /\ call[c].by \in Tree(d)
              => call[c].by \in Trees(revived)
         /\ call[c].pc \in {"claim", "claimed"}
              => call[c].of \cap Tree(d) \subseteq Trees(revived)
    /\ call[c].pc = "sweep" =>
         \A x \in call[c].of : \A e \in Tree(x) :
             Passed(e) \/ \E y \in call[c].todo : e \in Tree(y)

Cuts ==
    /\ \A d \in cut : \A e \in Tree(d) : Doomed(e)
    /\ \A c \in Call : CutsOf(c)

IInv == /\ TypeOK /\ Shape /\ Steps /\ InHand /\ Cuts
        /\ WithinLimits /\ NoSlotIsLeaked /\ RoutineEndsLast

-----------------------------------------------------------------------------
LEMMA SessionFacts ==
    /\ Session = Roots \cup Child
    /\ "none" \notin Session
    /\ "chat" \notin Child /\ "routine" \notin Child
    /\ IsFiniteSet(Child)
BY DelegationConstants DEF Session

(* The trees depend on the rows only, and shrink when rows lose children.  *)
LEMMA TreeOfKids ==
    ASSUME \A e \in Child : KidsOf(e)' \subseteq KidsOf(e)
    PROVE  \A d \in Child : Tree(d)' \subseteq Tree(d)
<1> SUFFICES ASSUME NEW d \in Child, NEW e \in Tree(d)',
                    NEW S \in SUBSET Child, d \in S, Closed(S)
             PROVE  e \in S
  BY DEF Tree
<1>1. Closed(S)'
  BY DEF Closed
<1> QED
  BY <1>1 DEF Tree

LEMMA TreeSame ==
    ASSUME \A e \in Child : KidsOf(e)' = KidsOf(e)
    PROVE  \A d \in Child : Tree(d)' = Tree(d)
<1> SUFFICES ASSUME NEW d \in Child PROVE Tree(d)' = Tree(d)
  OBVIOUS
<1>1. \A S \in SUBSET Child : Closed(S)' <=> Closed(S)
  BY DEF Closed
<1> QED
  BY <1>1 DEF Tree

LEMMA TreeGrows ==
    ASSUME \A e \in Child : KidsOf(e) \subseteq KidsOf(e)'
    PROVE  \A d \in Child : Tree(d) \subseteq Tree(d)'
<1> SUFFICES ASSUME NEW d \in Child, NEW e \in Tree(d),
                    NEW S \in SUBSET Child, d \in S, Closed(S)'
             PROVE  e \in S
  BY DEF Tree
<1>1. Closed(S)
  BY DEF Closed
<1> QED
  BY <1>1 DEF Tree

(* The trees of some delegations, when no tree moves.                      *)
LEMMA TreesSame ==
    ASSUME \A d \in Child : Tree(d)' = Tree(d), revived \subseteq Child,
           revived \subseteq revived'
    PROVE  Trees(revived) \subseteq Trees(revived)'
BY DEF Trees

LEMMA TreeRoot == \A d \in Child : d \in Tree(d)
BY DEF Tree

LEMMA TreeClosed == \A d \in Child : Closed(Tree(d))
<1> SUFFICES ASSUME NEW d \in Child, NEW e \in Tree(d), NEW k \in KidsOf(e)
             PROVE  k \in Tree(d)
  BY DEF Closed
<1>1. k \in Child
  BY DEF KidsOf
<1>2. ASSUME NEW S \in SUBSET Child, d \in S, Closed(S)
      PROVE  k \in S
  BY <1>2 DEF Tree, Closed
<1> QED
  BY <1>1, <1>2 DEF Tree

LEMMA TreeInTree ==
    ASSUME NEW x \in Child, NEW y \in Tree(x), NEW e \in Tree(y)
    PROVE  e \in Tree(x)
<1>1. y \in Child /\ e \in Child /\ Tree(x) \in SUBSET Child
  BY DEF Tree
<1>2. Closed(Tree(x))
  BY TreeClosed
<1> QED
  BY <1>1, <1>2 DEF Tree

(* The tree of a delegation is itself and the trees of its children.       *)
LEMMA TreeSplit ==
    ASSUME NEW d \in Child, NEW e \in Tree(d)
    PROVE  e = d \/ \E k \in KidsOf(d) : e \in Tree(k)
<1> DEFINE S == {d} \cup {x \in Child : \E k \in KidsOf(d) : x \in Tree(k)}
<1>1. KidsOf(d) \subseteq Child
  BY DEF KidsOf
<1>2. S \in SUBSET Child
  OBVIOUS
<1>3. Closed(S)
  <2> SUFFICES ASSUME NEW x \in S, NEW y \in KidsOf(x) PROVE y \in S
    BY DEF Closed
  <2>1. y \in Child
    BY DEF KidsOf
  <2>2. CASE x = d
    BY <2>1, <2>2, TreeRoot
  <2>3. CASE x # d
    <3>1. PICK k \in KidsOf(d) : x \in Tree(k)
      BY <2>3
    <3>2. y \in Tree(k)
      BY <3>1, <1>1, TreeClosed DEF Closed
    <3> QED
      BY <2>1, <3>2
  <2> QED
    BY <2>2, <2>3
<1>4. e \in S
  BY <1>2, <1>3 DEF Tree
<1> QED
  BY <1>4

LEMMA InitInv == Init => IInv
<1> SUFFICES ASSUME Init PROVE IInv
  OBVIOUS
<1> USE DelegationConstants DEF Init, NoRow, NoRun, NoCall
<1>1. TypeOK
  BY DEF TypeOK, Rows, Runs, Requests, Turns, Session, Over
<1>2. Shape
  BY DEF Shape, ShapeOf, Held
<1>3. Steps
  BY DEF Steps, StepOf, Session
<1>4. InHand /\ Cuts /\ RoutineEndsLast
  BY DEF InHand, InHandOf, Cuts, CutsOf, RoutineEndsLast
<1>5. Active = {}
  BY DEF Active
<1>6. WithinLimits /\ NoSlotIsLeaked
  BY <1>5, FS_EmptySet DEF WithinLimits, NoSlotIsLeaked
<1> QED
  BY <1>1, <1>2, <1>3, <1>4, <1>6 DEF IInv

-----------------------------------------------------------------------------
(* Steps that change nothing but one call.                                 *)
Data == <<row, filed, run, stopping, turn, cut, revived>>

(* What holds whatever the new call r looks like, when the old one had no  *)
(* row in hand.                                                            *)
LEMMA CallChange ==
    ASSUME IInv, UNCHANGED Data, NEW c \in Call, NEW r \in Requests,
           call' = [call EXCEPT ![c] = r],
           call[c].pc \notin {"stored", "claimed"},
           routine' = routine
    PROVE  /\ call' \in [Call -> Requests] /\ call'[c] = r
           /\ \A k \in Call : k # c => call'[k] = call[k]
           /\ Steps' /\ WithinLimits' /\ NoSlotIsLeaked' /\ RoutineEndsLast'
           /\ \A d \in Child : Tree(d)' = Tree(d)
           /\ Trees(revived)' = Trees(revived) /\ revived' = revived
           /\ \A d \in Child : Doomed(d)' <=> Doomed(d)
           /\ \A d \in Child : Passed(d)' <=> Passed(d)
           /\ \A s \in Session : Capacity(s)' <=> Capacity(s)
<1> USE DEF Data
<1>1. call \in [Call -> Requests]
  BY DEF IInv, TypeOK
<1>2. /\ call' \in [Call -> Requests] /\ call'[c] = r
      /\ \A k \in Call : k # c => call'[k] = call[k]
  BY <1>1
<1>3. Steps'
  BY DEF IInv, Steps, StepOf
<1>4. Active' = Active /\ (\A s \in Session : KidsOf(s)' = KidsOf(s))
      /\ Unattended' = Unattended
  BY DEF Active, KidsOf, Unattended
<1>5. WithinLimits' /\ \A s \in Session : Capacity(s)' <=> Capacity(s)
  BY <1>4 DEF IInv, WithinLimits, Capacity
<1>6. NoSlotIsLeaked'
  BY <1>2, <1>4 DEF IInv, NoSlotIsLeaked
<1>7. RoutineEndsLast'
  BY <1>4 DEF IInv, RoutineEndsLast
<1>8. \A d \in Child : Tree(d)' = Tree(d)
  BY <1>4, TreeSame, SessionFacts
<1>9. Trees(revived)' = Trees(revived)
  BY <1>8 DEF Trees, IInv, TypeOK
<1>10. \A d \in Child : Stopped(d)' <=> Stopped(d)
  BY <1>4 DEF Stopped, Resumable
<1>11. \A d \in Child : (Doomed(d)' <=> Doomed(d)) /\ (Passed(d)' <=> Passed(d))
  BY <1>9, <1>10 DEF Doomed, Passed, Resumable
<1> QED
  BY <1>2, <1>3, <1>5, <1>6, <1>7, <1>8, <1>9, <1>11

(* The rest follows from what holds of the new call.                       *)
LEMMA CallStep ==
    ASSUME IInv, UNCHANGED Data, NEW c \in Call, NEW r \in Requests,
           call' = [call EXCEPT ![c] = r],
           call[c].pc \notin {"stored", "claimed"},
           routine' = routine, used' \in [turns : 0 .. MaxTurns,
             cancels : 0 .. MaxCancels, acts : 0 .. MaxActs,
             crashes : 0 .. MaxCrashes],
           r.pc \notin {"idle", "wait"} => \A k \in Call : Held(k) => k = c,
           ShapeOf(c)', \A d \in r.of : InHandOf(c, d)', CutsOf(c)'
    PROVE  IInv'
<1>1. /\ call' \in [Call -> Requests] /\ call'[c] = r
      /\ \A k \in Call : k # c => call'[k] = call[k]
      /\ Steps' /\ WithinLimits' /\ NoSlotIsLeaked' /\ RoutineEndsLast'
  BY CallChange
<1>2. /\ \A d \in Child : Tree(d)' = Tree(d)
      /\ Trees(revived)' = Trees(revived)
      /\ \A d \in Child : Doomed(d)' <=> Doomed(d)
      /\ \A d \in Child : Passed(d)' <=> Passed(d)
      /\ \A s \in Session : Capacity(s)' <=> Capacity(s)
  BY CallChange
<1>3. TypeOK'
  BY <1>1 DEF IInv, TypeOK, Data
<1>4. Shape'
  <2>1. \A k \in Call : k # c => ShapeOf(k)'
    BY <1>1 DEF IInv, Shape, ShapeOf, Data
  <2>2. \A k \in Call : k # c => (Held(k)' <=> Held(k))
    BY <1>1 DEF Held
  <2>3. Held(c)' <=> r.pc \notin {"idle", "wait"}
    BY <1>1 DEF Held
  <2>4. \A k, l \in Call : Held(k)' /\ Held(l)' => k = l
    BY <2>2, <2>3 DEF IInv, Shape
  <2> QED
    BY <2>1, <2>4 DEF Shape
<1>5. InHand'
  <2> SUFFICES ASSUME NEW k \in Call, k # c, NEW d \in call[k].of
               PROVE  InHandOf(k, d)'
    BY <1>1 DEF InHand
  <2>1. InHandOf(k, d) /\ ShapeOf(k) /\ call[k] \in Requests
    BY DEF IInv, InHand, Shape, TypeOK
  <2>2. call[k].pc \in {"setup", "claim"} => call[k].by \in Session
    BY <2>1 DEF ShapeOf
  <2>3. call[k].pc \in {"setup", "claim"}
          => (Capacity(call[k].by)' <=> Capacity(call[k].by))
    BY <1>1, <1>2, <2>2 DEF Capacity
  <2> QED
    BY <1>1, <2>1, <2>3 DEF InHandOf, Data
<1>6. Cuts'
  <2>1. cut \subseteq Child /\ cut' = cut
    BY DEF IInv, TypeOK, Data
  <2>2. \A d \in cut' : \A e \in Tree(d)' : Doomed(e)'
    BY <1>2, <2>1 DEF IInv, Cuts, Tree
  <2>3. ASSUME NEW k \in Call, k # c PROVE CutsOf(k)'
    <3>1. CutsOf(k) /\ call[k] \in Requests /\ call'[k] = call[k]
      BY <1>1, <2>3 DEF IInv, Cuts, TypeOK
    <3>2. call[k].of \subseteq Child /\ call[k].todo \subseteq Child
      BY <3>1 DEF Requests
    <3>3. \A x \in Child : Tree(x) \subseteq Child
      BY DEF Tree
    <3> QED
      BY <1>2, <2>1, <3>1, <3>2, <3>3 DEF CutsOf
  <2> QED
    BY <2>2, <2>3 DEF Cuts
<1> QED
  BY <1>1, <1>3, <1>4, <1>5, <1>6 DEF IInv

LEMMA IdleCall ==
    /\ NoCall \in Requests
    /\ \A c \in Call : call'[c] = NoCall =>
         ShapeOf(c)' /\ CutsOf(c)' /\ \A d \in Child : InHandOf(c, d)'
<1>1. NoCall \in Requests
  BY DelegationConstants DEF NoCall, Requests, Turns, Session
<1>2. ASSUME NEW c \in Call, call'[c] = NoCall
      PROVE  ShapeOf(c)' /\ CutsOf(c)' /\ \A d \in Child : InHandOf(c, d)'
  BY <1>2 DEF NoCall, ShapeOf, CutsOf, InHandOf
<1> QED
  BY <1>1, <1>2

LEMMA CounterType ==
    ASSUME IInv
    PROVE  /\ used \in [turns : 0 .. MaxTurns, cancels : 0 .. MaxCancels,
                        acts : 0 .. MaxActs, crashes : 0 .. MaxCrashes]
           /\ \A c \in Call : call[c] \in Requests
           /\ \A d \in Child : row[d] \in Rows /\ run[d] \in Runs /\ StepOf(d)
           /\ \A x \in Session : turn[x] \in Turns
BY DEF IInv, TypeOK, Steps

LEMMA DelegateInv ==
    ASSUME IInv, NEW c \in Call, NEW p \in Session, Delegate(c, p)
    PROVE  IInv'
<1> DEFINE r == [NoCall EXCEPT !.op = "delegate", !.pc = "wait", !.by = p,
                               !.turn = turn[p]]
<1>1. /\ r \in Requests /\ r.op = "delegate" /\ r.pc = "wait" /\ r.by = p
      /\ r.turn = turn[p] /\ r.of = {}
  BY CounterType, DelegationConstants
     DEF NoCall, Requests, Session
<1>2. /\ call' = [call EXCEPT ![c] = r] /\ call'[c] = r
      /\ call[c].pc = "idle" /\ UNCHANGED <<Data, routine, used>>
  BY DEF Delegate, Data, IInv, TypeOK
<1> HIDE DEF r
<1>3. p \in Child => filed'[p] # "none" /\ row' = row
  BY <1>2, CounterType DEF StepOf, Delegate, Data
<1>4. (IF p \in Child THEN row'[p].depth ELSE 0) < MaxDepth /\ turn[p] # 0
  BY <1>3 DEF Delegate
<1>5. ShapeOf(c)'
  BY <1>1, <1>2, <1>3, <1>4 DEF ShapeOf
<1>6. CutsOf(c)' /\ \A d \in r.of : InHandOf(c, d)'
  BY <1>1, <1>2 DEF CutsOf
<1> QED
  BY <1>1, <1>2, <1>5, <1>6, CallStep, CounterType DEF Data

LEMMA RefuseInv ==
    ASSUME IInv, NEW c \in Call, Refuse(c)
    PROVE  IInv'
<1>1. /\ call' = [call EXCEPT ![c] = NoCall] /\ call'[c] = NoCall
      /\ call[c].pc \notin {"stored", "claimed"}
      /\ UNCHANGED <<Data, routine, used>> /\ NoCall.pc = "idle"
      /\ NoCall.of = {}
  BY DEF Refuse, Data, IInv, TypeOK, NoCall
<1> QED
  BY <1>1, IdleCall, CallStep, CounterType DEF Data

(* A call that gets the lock is the only one to hold it.                   *)
LEMMA AdmitInv ==
    ASSUME IInv, NEW c \in Call, Admit(c)
    PROVE  IInv'
<1> DEFINE p == call[c].by
<1>1. PICK d \in Child : /\ row[d] = NoRow /\ filed[d] = "none"
                         /\ call' = [call EXCEPT ![c].pc = "setup", ![c].of = {d}]
  BY DEF Admit
<1> DEFINE r == [call[c] EXCEPT !.pc = "setup", !.of = {d}]
<1>2. /\ r \in Requests /\ r.op = "delegate" /\ r.pc = "setup" /\ r.by = p
      /\ r.turn = call[c].turn /\ r.of = {d}
  BY CounterType DEF Requests, Admit
<1>3. /\ call' = [call EXCEPT ![c] = r] /\ call'[c] = r
      /\ call[c].pc = "wait" /\ UNCHANGED <<Data, routine, used>>
  BY <1>1 DEF Admit, Data, IInv, TypeOK
<1> HIDE DEF r
<1>4. ShapeOf(c) /\ call[c].op = "delegate" /\ p \in Session
  BY DEF IInv, Shape, ShapeOf, Admit
<1>5. ShapeOf(c)'
  BY <1>2, <1>3, <1>4 DEF ShapeOf, Data
<1>6. Capacity(p)' /\ run[d].ph = "off"
  <2>1. Capacity(p)
    BY DEF Admit
  <2>2. run[d].ph = "off"
    BY <1>1, CounterType DEF StepOf
  <2> QED
    BY <2>1, <2>2, <1>2, <1>3, <1>4, CallChange
<1>7. InHandOf(c, d)'
  BY <1>1, <1>2, <1>3, <1>6 DEF InHandOf, Data, Capacity
<1>8. CutsOf(c)'
  <2>1. SUFFICES ASSUME NEW x \in cut, p \in Tree(x)' PROVE p \in Trees(revived)'
    BY <1>2, <1>3 DEF CutsOf, Data
  <2>2. x \in Child /\ Tree(x)' = Tree(x) /\ Trees(revived)' = Trees(revived)
    BY <1>2, <1>3, CallChange DEF IInv, TypeOK
  <2>3. SUFFICES ASSUME Stopped(p) PROVE FALSE
    BY <2>1, <2>2 DEF IInv, Cuts, Doomed
  <2>4. p \in Child
    BY <2>1, <2>2 DEF Tree
  <2>5. row[p].st = "running" /\ p \notin stopping /\ turn[p] # 0
    BY <1>4, <2>4 DEF Admit, SameTurn, ShapeOf
  <2>6. run[p].ph = "query" /\ ~ run[p].stop
    BY <2>4, <2>5, CounterType DEF StepOf, IInv, Steps, Runs
  <2> QED
    BY <2>3, <2>4, <2>5, <2>6 DEF Stopped, Active
<1>9. \A k \in Call : Held(k) => k = c
  BY DEF Admit, Free, Held
<1> QED
  BY <1>2, <1>3, <1>5, <1>7, <1>8, <1>9, CallStep, CounterType DEF Data

LEMMA ResumeInv ==
    ASSUME IInv, NEW c \in Call, NEW d \in Child, Resume(c, d)
    PROVE  IInv'
<1> DEFINE p == row[d].up
<1> DEFINE r == [NoCall EXCEPT !.op = "resume", !.pc = "wait", !.by = p,
                               !.turn = turn[p], !.of = {d}]
<1>1. filed[d] # "none" /\ row[d].st # "none" /\ p \in Session
  BY CounterType DEF Resume, Resumable, StepOf
<1>2. /\ r \in Requests /\ r.op = "resume" /\ r.pc = "wait" /\ r.by = p
      /\ r.turn = turn[p] /\ r.of = {d}
  BY <1>1, CounterType DEF NoCall, Requests
<1>3. /\ call' = [call EXCEPT ![c] = r] /\ call'[c] = r
      /\ call[c].pc = "idle" /\ UNCHANGED <<Data, routine, used>>
  BY DEF Resume, Data, IInv, TypeOK
<1> HIDE DEF r
<1>4. turn[p] # 0 /\ (p \in Child => filed[p] # "none")
  BY CounterType DEF Resume, StepOf
<1>5. ShapeOf(c)'
  BY <1>1, <1>2, <1>3, <1>4 DEF ShapeOf, Data
<1>6. CutsOf(c)' /\ InHandOf(c, d)'
  BY <1>1, <1>2, <1>3 DEF CutsOf, InHandOf, Data
<1> QED
  BY <1>2, <1>3, <1>5, <1>6, CallStep, CounterType DEF Data

LEMMA AdmitResumeInv ==
    ASSUME IInv, NEW c \in Call, AdmitResume(c)
    PROVE  IInv'
<1> DEFINE p == call[c].by
<1> DEFINE r == [call[c] EXCEPT !.pc = "claim"]
<1>2. /\ r \in Requests /\ r.op = "resume" /\ r.pc = "claim" /\ r.by = p
      /\ r.turn = call[c].turn /\ r.of = call[c].of
  BY CounterType DEF Requests, AdmitResume
<1>3. /\ call' = [call EXCEPT ![c] = r] /\ call'[c] = r
      /\ call[c].pc = "wait" /\ UNCHANGED <<Data, routine, used>>
  BY DEF AdmitResume, Data, IInv, TypeOK
<1> HIDE DEF r
<1>4. ShapeOf(c) /\ call[c].op = "resume" /\ p \in Session
  BY DEF IInv, Shape, ShapeOf, AdmitResume
<1>5. ShapeOf(c)'
  BY <1>2, <1>3, <1>4 DEF ShapeOf, Data
<1>6. Capacity(p)'
  <2>1. Capacity(p)
    BY DEF AdmitResume
  <2> QED
    BY <2>1, <1>2, <1>3, <1>4, CallChange
<1>7. ASSUME NEW d \in r.of PROVE InHandOf(c, d)'
  <2>1. d \in Child /\ InHandOf(c, d) /\ Resumable(d) /\ run[d].ph = "off"
    BY <1>2, CounterType DEF IInv, InHand, Requests, AdmitResume
  <2> QED
    BY <1>2, <1>3, <1>4, <1>6, <2>1 DEF InHandOf, Data, Capacity, Resumable
<1>8. CutsOf(c)'
  <2>1. SUFFICES ASSUME NEW x \in cut, NEW d \in call[c].of, d \in Tree(x)'
                 PROVE  d \in Trees(revived)'
    BY <1>2, <1>3 DEF CutsOf, Data
  <2>2. x \in Child /\ Tree(x)' = Tree(x) /\ Trees(revived)' = Trees(revived)
    BY <1>2, <1>3, CallChange DEF IInv, TypeOK
  <2>3. Resumable(d)
    BY DEF AdmitResume
  <2> QED
    BY <2>1, <2>2, <2>3 DEF IInv, Cuts, Doomed, Stopped
<1>9. \A k \in Call : Held(k) => k = c
  BY DEF AdmitResume, Free, Held
<1> QED
  BY <1>2, <1>3, <1>5, <1>7, <1>8, <1>9, CallStep, CounterType DEF Data

LEMMA CancelInv ==
    ASSUME IInv, NEW c \in Call, NEW d \in Child, Cancel(c, d)
    PROVE  IInv'
<1> DEFINE r == [NoCall EXCEPT !.op = "cancel", !.pc = "wait", !.of = {d}]
<1>1. r \in Requests /\ r.op = "cancel" /\ r.pc = "wait" /\ r.of = {d}
  BY IdleCall DEF NoCall, Requests
<1>2. /\ call' = [call EXCEPT ![c] = r] /\ call'[c] = r
      /\ call[c].pc = "idle" /\ UNCHANGED <<Data, routine>>
  BY DEF Cancel, Data, IInv, TypeOK
<1> HIDE DEF r
<1>3. used' \in [turns : 0 .. MaxTurns, cancels : 0 .. MaxCancels,
                 acts : 0 .. MaxActs, crashes : 0 .. MaxCrashes]
  BY CounterType, DelegationConstants DEF Cancel
<1>4. ShapeOf(c)' /\ CutsOf(c)' /\ InHandOf(c, d)'
  BY <1>1, <1>2 DEF ShapeOf, CutsOf, InHandOf
<1> QED
  BY <1>1, <1>2, <1>3, <1>4, CallStep DEF Data

LEMMA ActionRequiredInv ==
    ASSUME IInv, NEW c \in Call, NEW x \in Session, ActionRequired(c, x)
    PROVE  IInv'
<1> DEFINE r == IF used.acts # 0 THEN call[c]
                ELSE [NoCall EXCEPT !.op = "cancelRun", !.pc = "wait"]
<1>1. used' \in [turns : 0 .. MaxTurns, cancels : 0 .. MaxCancels,
                 acts : 0 .. MaxActs, crashes : 0 .. MaxCrashes]
  BY CounterType, DelegationConstants DEF ActionRequired
<1>2. r \in Requests
  BY CounterType, IdleCall DEF NoCall, Requests
<1>3. /\ call' = [call EXCEPT ![c] = r] /\ call'[c] = r
      /\ call[c].pc = "idle" /\ UNCHANGED <<Data, routine>>
  BY DEF ActionRequired, Data, IInv, TypeOK
<1>4. CASE used.acts # 0
  <2>1. r = call[c] /\ ShapeOf(c) /\ \A d \in r.of : InHandOf(c, d)
    BY <1>4 DEF IInv, Shape, InHand
  <2> HIDE DEF r
  <2>2. ShapeOf(c)' /\ CutsOf(c)' /\ \A d \in r.of : InHandOf(c, d)'
    BY <1>3, <2>1 DEF ShapeOf, CutsOf, InHandOf, Data
  <2> QED
    BY <1>1, <1>2, <1>3, <2>1, <2>2, CallStep DEF Data
<1>5. CASE used.acts = 0
  <2>1. r.op = "cancelRun" /\ r.pc = "wait" /\ r.of = {}
    BY <1>5 DEF NoCall
  <2> HIDE DEF r
  <2>2. ShapeOf(c)' /\ CutsOf(c)'
    BY <1>3, <2>1 DEF ShapeOf, CutsOf
  <2> QED
    BY <1>1, <1>2, <1>3, <2>1, <2>2, CallStep DEF Data
<1> QED
  BY <1>4, <1>5

(* While nobody holds the lock, every row has its session.                 *)
LEMMA FiledWhenFree ==
    ASSUME IInv, Free, NEW d \in Child, row[d] # NoRow
    PROVE  filed[d] # "none"
<1> SUFFICES ASSUME filed[d] = "none" PROVE FALSE
  OBVIOUS
<1>1. row[d].st = "pending" /\ run[d].ph = "off"
  BY CounterType DEF StepOf
<1>2. PICK k \in Call : call[k].pc \in {"stored", "claimed"}
  BY <1>1 DEF IInv, NoSlotIsLeaked, Active
<1> QED
  BY <1>2 DEF Free

LEMMA SweepInv ==
    ASSUME IInv, NEW c \in Call, Sweep(c)
    PROVE  IInv'
<1> DEFINE addressed == IF call[c].op = "cancel" THEN call[c].of ELSE Unattended
<1> DEFINE known == \A d \in addressed : row[d] # NoRow
<1> DEFINE r == IF known THEN [call[c] EXCEPT !.pc = "sweep", !.of = addressed,
                                              !.todo = addressed]
                ELSE NoCall
<1>1. addressed \subseteq Child
  BY CounterType DEF Requests, Unattended
<1>2. /\ call' = [call EXCEPT ![c] = r] /\ call'[c] = r
      /\ call[c].pc = "wait" /\ UNCHANGED <<Data, routine, used>>
  BY DEF Sweep, Data, IInv, TypeOK
<1>3. \A k \in Call : Held(k) => k = c
  BY DEF Sweep, Free, Held
<1>4. CASE ~ known
  <2>1. r = NoCall
    BY <1>4
  <2> HIDE DEF r
  <2> QED
    BY <1>2, <1>3, <2>1, IdleCall, CallStep, CounterType DEF Data, NoCall
<1>5. CASE known
  <2>1. /\ r \in Requests /\ r.op = call[c].op /\ r.pc = "sweep"
        /\ r.of = addressed /\ r.todo = addressed
        /\ r.op \in {"cancel", "cancelRun"}
    BY <1>1, <1>5, CounterType DEF Requests, Sweep
  <2>2. \A d \in addressed : filed[d] # "none"
    BY <1>1, <1>5, FiledWhenFree DEF Sweep
  <2> HIDE DEF r, addressed
  <2>3. ShapeOf(c)'
    BY <1>2, <2>1 DEF ShapeOf
  <2>4. \A d \in r.of : InHandOf(c, d)'
    BY <1>2, <2>1, <2>2 DEF InHandOf, Data
  <2>5. CutsOf(c)'
    BY <1>2, <2>1 DEF CutsOf
  <2> QED
    BY <1>2, <1>3, <2>1, <2>3, <2>4, <2>5, CallStep, CounterType DEF Data
<1> QED
  BY <1>4, <1>5

-----------------------------------------------------------------------------
(* Steps of the attempts and of the sessions around: no call changes, no   *)
(* delegation becomes active, and no lineage moves.                        *)
LEMMA FewerActive ==
    ASSUME TypeOK, WithinLimits, Active' \subseteq Active,
           \A d \in Active' : row'[d].up = row[d].up
    PROVE  /\ WithinLimits'
           /\ \A s \in Session : Capacity(s) => Capacity(s)'
<1>1. Active \subseteq Child /\ IsFiniteSet(Active)
  BY SessionFacts, FS_Subset DEF Active
<1>2. Cardinality(Active') <= Cardinality(Active) /\ Cardinality(Active) \in Nat
      /\ Cardinality(Active') \in Nat
  BY <1>1, FS_Subset, FS_CardinalityType
<1>3. ASSUME NEW s \in Session
      PROVE  /\ Cardinality((Active \cap KidsOf(s))') <= Cardinality(Active \cap KidsOf(s))
             /\ Cardinality(Active \cap KidsOf(s)) \in Nat
             /\ Cardinality((Active \cap KidsOf(s))') \in Nat
  <2>1. (Active \cap KidsOf(s))' \subseteq Active \cap KidsOf(s)
    BY <1>1 DEF KidsOf
  <2>2. IsFiniteSet(Active \cap KidsOf(s))
    BY <1>1, FS_Subset
  <2> QED
    BY <2>1, <2>2, FS_Subset, FS_CardinalityType
<1>4. WithinLimits'
  <2>1. Cardinality(Active)' <= MaxGlobal
    BY <1>2, DelegationConstants DEF WithinLimits
  <2>2. ASSUME NEW s \in Session
        PROVE  Cardinality(Active \cap KidsOf(s))' <= MaxPerParent
    <3>1. Cardinality(Active \cap KidsOf(s)) <= MaxPerParent
      BY DEF WithinLimits
    <3> QED
      BY <1>3, <3>1, DelegationConstants
  <2> QED
    BY <2>1, <2>2 DEF WithinLimits
<1>5. \A s \in Session : Capacity(s) => Capacity(s)'
  BY <1>2, <1>3, DelegationConstants DEF Capacity
<1> QED
  BY <1>4, <1>5

LEMMA QuietStep ==
    ASSUME IInv, call' = call, cut' = cut, revived \subseteq revived', TypeOK', Steps', Active' \subseteq Active,
           \A d \in Child :
               /\ row'[d].up = row[d].up /\ row'[d].depth = row[d].depth
               /\ row'[d].unattended = row[d].unattended
               /\ filed'[d] = "none" <=> filed[d] = "none"
               /\ run[d].ph = "off" =>
                    run'[d].ph = "off" /\ (d \in Active => row'[d] = row[d])
               /\ row[d] = NoRow => row'[d] = NoRow
               /\ PassedOver(d) /\ Passed(d) => Passed(d)',
           NoSlotIsLeaked', RoutineEndsLast'
    PROVE  IInv'
<1>1. WithinLimits' /\ \A s \in Session : Capacity(s) => Capacity(s)'
  BY FewerActive DEF IInv, Active
<1>2. \A d \in Child : Tree(d)' = Tree(d)
  <2>1. \A e \in Child : KidsOf(e)' = KidsOf(e)
    BY DEF KidsOf
  <2> QED
    BY <2>1, TreeSame
<1>3. Shape'
  <2>1. \A c \in Call : Held(c)' <=> Held(c)
    BY DEF Held
  <2>2. ASSUME NEW c \in Call PROVE ShapeOf(c)'
    BY DEF IInv, Shape, ShapeOf
  <2> QED
    BY <2>1, <2>2 DEF IInv, Shape
<1>4. InHand'
  <2> SUFFICES ASSUME NEW c \in Call, NEW d \in call[c].of PROVE InHandOf(c, d)'
    BY DEF InHand
  <2>1. d \in Child /\ InHandOf(c, d) /\ ShapeOf(c)
    BY CounterType DEF IInv, InHand, Shape, Requests
  <2>2. call[c].pc \in {"setup", "claim"} => call[c].by \in Session
    BY <2>1 DEF ShapeOf
  <2>3. call[c].pc \in {"setup", "claim"}
          => (Capacity(call[c].by) => Capacity(call[c].by)')
    BY <1>1, <2>2 DEF Capacity
  <2>4. call[c].pc \in {"stored", "claimed"} => row'[d] = row[d]
    BY <2>1 DEF InHandOf, Active
  <2> QED
    BY <2>1, <2>3, <2>4 DEF InHandOf
<1>5. Cuts'
  <2>1. \A x \in Child : Tree(x) \subseteq Child
    BY DEF Tree
  <2>2. /\ cut \subseteq Child /\ revived' \subseteq Child
        /\ \A c \in Call : call[c] \in Requests
    BY DEF IInv, TypeOK
  <2>3. Trees(revived) \subseteq Trees(revived)'
    BY <1>2, <2>2, TreesSame
  <2>4. \A d \in Child : Passed(d)' => Doomed(d)'
    BY <1>2, <2>2, TreeRoot DEF Passed, Doomed, Trees
  <2>5. ASSUME NEW d \in cut, NEW e \in Tree(d) PROVE Doomed(e)'
    <3>1. Doomed(e) /\ e \in Child /\ PassedOver(e)
      BY <2>1, <2>2 DEF IInv, Cuts, PassedOver, Trees
    <3>2. CASE Stopped(e)
      BY <2>4, <3>1, <3>2 DEF Passed
    <3>3. CASE e \in Trees(revived)
      BY <2>3, <3>3 DEF Doomed
    <3> QED
      BY <3>1, <3>2, <3>3 DEF Doomed
  <2>6. \A d \in cut' : \A e \in Tree(d)' : Doomed(e)'
    BY <1>2, <2>2, <2>5
  <2>7. ASSUME NEW c \in Call PROVE CutsOf(c)'
    <3>1. CutsOf(c) /\ call[c].of \subseteq Child /\ call[c].todo \subseteq Child
      BY <2>2 DEF IInv, Cuts, Requests
    <3>2. ASSUME call[c].pc = "sweep", NEW x \in call[c].of, NEW e \in Tree(x)
          PROVE  Passed(e)' \/ \E y \in call[c].todo : e \in Tree(y)
      <4>1. e \in Child
        BY <2>1, <3>1
      <4>2. CASE \E y \in call[c].todo : e \in Tree(y)
        BY <4>2
      <4>3. CASE ~ \E y \in call[c].todo : e \in Tree(y)
        <5>1. Passed(e)
          BY <3>1, <3>2, <4>3 DEF CutsOf
        <5>2. PassedOver(e)
          BY <3>2, <4>3 DEF PassedOver, Trees
        <5> QED
          BY <4>1, <5>1, <5>2
      <4> QED
        BY <4>2, <4>3
    <3>3. call[c].pc = "sweep" =>
            \A x \in call[c].of : \A e \in Tree(x)' :
                Passed(e)' \/ \E y \in call[c].todo : e \in Tree(y)'
      BY <1>2, <2>1, <3>1, <3>2
    <3>4. \A d \in cut : Tree(d)' = Tree(d)
      BY <1>2, <2>2
    <3> QED
      BY <2>3, <3>1, <3>3, <3>4 DEF CutsOf
  <2> QED
    BY <2>6, <2>7 DEF Cuts
<1> QED
  BY <1>1, <1>3, <1>4, <1>5 DEF IInv

LEMMA StepKept ==
    ASSUME IInv, NEW d \in Child, row'[d] = row[d], run'[d] = run[d],
           turn'[d] = turn[d], filed'[d] = "none" <=> filed[d] = "none",
           \A e \in Child : filed[e] # "none" => filed'[e] # "none"
    PROVE  StepOf(d)'
BY CounterType DEF StepOf

LEMMA MarkInv ==
    ASSUME IInv, NEW d \in Child, Mark(d)
    PROVE  IInv'
<1> USE DEF Mark
<1>1. row \in [Child -> Rows] /\ run \in [Child -> Runs] /\ turn \in [Session -> Turns]
      /\ d \in Session
  BY SessionFacts DEF IInv, TypeOK
<1>2. /\ row'[d] = [row[d] EXCEPT !.st = "running"] /\ row[d].st = "pending"
      /\ run'[d] = [run[d] EXCEPT !.ph = "query"] /\ run[d].ph = "start"
      /\ turn'[d] = row[d].tries
      /\ \A e \in Child : e # d => row'[e] = row[e] /\ run'[e] = run[e]
      /\ \A x \in Session : x # d => turn'[x] = turn[x]
      /\ UNCHANGED <<filed, stopping, call, routine, used, cut, revived>>
  BY <1>1
<1>3. row[d] \in Rows /\ run[d] \in Runs /\ StepOf(d)
  BY CounterType
<1>4. row'[d] \in Rows /\ run'[d] \in Runs
  BY <1>2, <1>3 DEF Rows, Runs, Over
<1>5. row[d].tries \in Turns
  BY <1>3, DelegationConstants DEF Rows, Turns
<1>6. TypeOK'
  BY <1>1, <1>2, <1>4, <1>5 DEF IInv, TypeOK
<1>7. Steps'
  <2>1. /\ row'[d].st = "running" /\ row'[d].up = row[d].up /\ row'[d] # NoRow
        /\ run'[d].ph = "query" /\ run'[d].stop = run[d].stop
    BY <1>2, <1>3 DEF Rows, Runs, NoRow
  <2>2. StepOf(d)'
    BY <1>2, <1>3, <2>1 DEF StepOf
  <2>3. \A e \in Child : e # d => StepOf(e)'
    BY <1>2, StepKept, SessionFacts
  <2>4. stopping' = {e \in Child : run'[e].stop}
    BY <1>2, <2>1 DEF IInv, Steps
  <2>5. "routine" \in Roots => (turn'["routine"] # 0 => routine' = "turn")
    BY <1>2, SessionFacts DEF IInv, Steps
  <2> QED
    BY <1>2, <2>2, <2>3, <2>4, <2>5 DEF IInv, Steps
<1>8. Active' = Active
  BY <1>2, <1>3 DEF Active, Rows
<1>9. \A e \in Child : Passed(e) => Passed(e)'
  BY <1>2, <1>3, <1>8 DEF Passed, Stopped, Resumable, Runs, Rows
<1>10. NoSlotIsLeaked' /\ RoutineEndsLast'
  <2>1. \A e \in Child : run'[e].ph = "off" <=> run[e].ph = "off"
    BY <1>2, <1>3 DEF Runs
  <2>2. Unattended' = Unattended
    BY <1>2, <1>3 DEF Unattended, Rows
  <2>3. RoutineEndsLast'
    BY <1>2, <2>1, <2>2 DEF IInv, RoutineEndsLast, Unattended
  <2>4. NoSlotIsLeaked'
    <3>1. run'[d].ph = "query"
      BY <1>2, <1>3 DEF Runs
    <3> QED
      BY <1>2, <1>8, <3>1 DEF IInv, NoSlotIsLeaked, Active
  <2> QED
    BY <2>3, <2>4
<1>11. row'[d].up = row[d].up /\ row'[d].depth = row[d].depth
       /\ row'[d].unattended = row[d].unattended /\ row[d] # NoRow
       /\ run[d].ph # "off"
  BY <1>2, <1>3 DEF Rows, NoRow
<1> QED
  BY <1>2, <1>6, <1>7, <1>8, <1>9, <1>10, <1>11, QuietStep

LEMMA QueryEndsInv ==
    ASSUME IInv, NEW d \in Child, QueryEnds(d)
    PROVE  IInv'
<1>1. row \in [Child -> Rows] /\ run \in [Child -> Runs] /\ turn \in [Session -> Turns]
      /\ d \in Session
  BY SessionFacts DEF IInv, TypeOK
<1>2. PICK won \in {"finished", "failed", "cancelled"} :
        run' = [run EXCEPT ![d].ph = "ended", ![d].won = won]
  BY <1>1 DEF Runs, QueryEnds
<1>3. /\ run'[d] = [run[d] EXCEPT !.ph = "ended", !.won = won]
      /\ run[d].ph = "query" /\ turn'[d] = 0
      /\ turn' = [turn EXCEPT ![d] = 0]
      /\ \A e \in Child : e # d => run'[e] = run[e]
      /\ \A x \in Session : x # d => turn'[x] = turn[x]
      /\ UNCHANGED <<row, filed, stopping, call, routine, used, cut, revived>>
  BY <1>1, <1>2 DEF QueryEnds
<1>4. row[d] \in Rows /\ run[d] \in Runs /\ StepOf(d)
  BY CounterType
<1>5. /\ run'[d] \in Runs /\ run'[d].ph = "ended" /\ run'[d].won # "none"
      /\ run'[d].stop = run[d].stop
  BY <1>3, <1>4 DEF Runs
<1>6. TypeOK'
  <2>1. 0 \in Turns
    BY IdleCall DEF NoCall, Requests
  <2> QED
    BY <1>1, <1>2, <1>3, <1>5, <2>1 DEF IInv, TypeOK
<1>7. Steps'
  <2>1. StepOf(d)'
    BY <1>3, <1>4, <1>5 DEF StepOf
  <2>2. \A e \in Child : e # d => StepOf(e)'
    BY <1>3, StepKept, SessionFacts
  <2>3. stopping' = {e \in Child : run'[e].stop}
    BY <1>3, <1>5 DEF IInv, Steps
  <2>4. "routine" \in Roots => (turn'["routine"] # 0 => routine' = "turn")
    BY <1>3, SessionFacts DEF IInv, Steps
  <2> QED
    BY <1>3, <2>1, <2>2, <2>3, <2>4 DEF IInv, Steps
<1>8. Active' = Active /\ Unattended' = Unattended
  BY <1>3 DEF Active, Unattended
<1>9. \A e \in Child : Passed(e) => Passed(e)'
  BY <1>3, <1>5, <1>8 DEF Passed, Stopped, Resumable
<1>10. NoSlotIsLeaked' /\ RoutineEndsLast'
  <2>1. NoSlotIsLeaked'
    BY <1>3, <1>5, <1>8 DEF IInv, NoSlotIsLeaked, Active
  <2>2. routine = "over" => d \notin Unattended
    BY <1>3 DEF IInv, RoutineEndsLast
  <2>3. RoutineEndsLast'
    BY <1>3, <1>8, <2>2 DEF IInv, RoutineEndsLast, Unattended
  <2> QED
    BY <2>1, <2>3
<1> QED
  BY <1>3, <1>6, <1>7, <1>8, <1>9, <1>10, QuietStep

LEMMA FinishInv ==
    ASSUME IInv, NEW d \in Child, Finish(d)
    PROVE  IInv'
<1>1. row \in [Child -> Rows] /\ run \in [Child -> Runs] /\ turn \in [Session -> Turns]
      /\ d \in Session
  BY SessionFacts DEF IInv, TypeOK
<1>2. row[d] \in Rows /\ run[d] \in Runs /\ StepOf(d) /\ run[d].ph = "ended"
      /\ run[d].won \in {"finished", "failed", "cancelled"} /\ row[d].st = "running"
  BY CounterType DEF StepOf, Runs, Finish
<1>3. PICK st \in {"completed", "failed", "cancelled"} :
        row' = [row EXCEPT ![d].st = IF d \in Active THEN st ELSE @]
  <2>1. CASE run[d].won = "finished"
    BY <2>1 DEF Finish
  <2>2. CASE run[d].won = "failed"
    BY <2>2 DEF Finish
  <2>3. CASE run[d].won = "cancelled"
    BY <2>3 DEF Finish
  <2> QED
    BY <1>2, <2>1, <2>2, <2>3
<1>4. /\ row'[d] = [row[d] EXCEPT !.st = st]
      /\ run'[d] = [run[d] EXCEPT !.ph = "saved"]
      /\ \A e \in Child : e # d => run'[e] = run[e] /\ row'[e] = row[e]
      /\ UNCHANGED <<filed, stopping, turn, call, routine, used, cut, revived>>
  BY <1>1, <1>2, <1>3 DEF Active, Finish
<1>5. /\ run'[d] \in Runs /\ run'[d].ph = "saved" /\ run'[d].stop = run[d].stop
      /\ run'[d].won = run[d].won
      /\ row'[d] \in Rows /\ row'[d].st = st /\ row'[d].up = row[d].up
      /\ row'[d].depth = row[d].depth /\ row'[d].unattended = row[d].unattended
      /\ row'[d] # NoRow /\ row[d] # NoRow
  BY <1>2, <1>4 DEF Runs, Rows, Over, NoRow
<1>6. TypeOK'
  BY <1>1, <1>3, <1>4, <1>5 DEF IInv, TypeOK, Finish
<1>7. Steps'
  <2>1. StepOf(d)'
    BY <1>2, <1>4, <1>5 DEF StepOf
  <2>2. \A e \in Child : e # d => StepOf(e)'
    BY <1>4, StepKept, SessionFacts
  <2>3. stopping' = {e \in Child : run'[e].stop}
    BY <1>4, <1>5 DEF IInv, Steps
  <2> QED
    BY <1>4, <2>1, <2>2, <2>3 DEF IInv, Steps
<1>8. Active' = Active \ {d} /\ Unattended' = Unattended
  BY <1>4, <1>5 DEF Active, Unattended
<1>9. \A e \in Child : Passed(e) => Passed(e)'
  BY <1>4, <1>5, <1>8 DEF Passed, Stopped, Resumable
<1>10. NoSlotIsLeaked' /\ RoutineEndsLast'
  BY <1>2, <1>4, <1>5, <1>8 DEF IInv, NoSlotIsLeaked, RoutineEndsLast, Active, Unattended
<1> QED
  BY <1>2, <1>4, <1>5, <1>6, <1>7, <1>8, <1>9, <1>10, QuietStep

LEMMA RetireInv ==
    ASSUME IInv, NEW d \in Child, Retire(d)
    PROVE  IInv'
<1> USE DEF Retire
<1>1. row \in [Child -> Rows] /\ run \in [Child -> Runs]
  BY DEF IInv, TypeOK
<1>2. /\ run'[d] = NoRun /\ run[d].ph = "saved"
      /\ \A e \in Child : e # d => run'[e] = run[e]
      /\ UNCHANGED <<row, filed, turn, call, routine, used, cut, revived>>
  BY <1>1
<1>3. row[d] \in Rows /\ run[d] \in Runs /\ StepOf(d)
  BY CounterType
<1>4. NoRun \in Runs /\ NoRun.ph = "off" /\ ~ NoRun.stop
  BY DEF NoRun, Runs
<1>5. TypeOK'
  BY <1>1, <1>2, <1>4 DEF IInv, TypeOK
<1>6. Steps'
  <2>1. StepOf(d)'
    BY <1>2, <1>3, <1>4 DEF StepOf
  <2>2. \A e \in Child : e # d => StepOf(e)'
    BY <1>2, StepKept
  <2>3. stopping' = {e \in Child : run'[e].stop}
    BY <1>2, <1>4 DEF IInv, Steps
  <2> QED
    BY <1>2, <2>1, <2>2, <2>3 DEF IInv, Steps
<1>7. Active' = Active /\ Unattended' = Unattended /\ d \notin Active
  BY <1>2, <1>3 DEF Active, Unattended, StepOf
<1>8. \A e \in Child : Passed(e) => Passed(e)'
  BY <1>2, <1>7 DEF Passed, Stopped, Resumable
<1>9. NoSlotIsLeaked' /\ RoutineEndsLast'
  BY <1>2, <1>4, <1>7 DEF IInv, NoSlotIsLeaked, RoutineEndsLast, Active, Unattended
<1> QED
  BY <1>2, <1>4, <1>5, <1>6, <1>7, <1>8, <1>9, QuietStep

(* The turns of root sessions and the Routine's stages: the delegations    *)
(* themselves do not change.                                               *)
LEMMA RootStep ==
    ASSUME IInv, UNCHANGED <<row, filed, run, stopping, call, cut, revived>>,
           \A d \in Child : turn'[d] = turn[d],
           TypeOK', RoutineEndsLast',
           "routine" \in Roots => (turn'["routine"] # 0 => routine' = "turn")
    PROVE  IInv'
<1>1. Active' = Active
  BY DEF Active
<1>2. \A d \in Child : StepOf(d)'
  BY StepKept
<1>3. Steps'
  BY <1>2 DEF IInv, Steps
<1>4. \A d \in Child : Passed(d) => Passed(d)'
  BY <1>1 DEF Passed, Stopped, Resumable
<1>5. NoSlotIsLeaked'
  BY <1>1 DEF IInv, NoSlotIsLeaked
<1> QED
  BY <1>1, <1>3, <1>4, <1>5, QuietStep

LEMMA RootTurnsInv ==
    ASSUME IInv, TurnStarts \/ TurnEnds \/ RoutineTurnEnds
    PROVE  IInv'
<1>1. /\ turn \in [Session -> Turns] /\ 0 \in Turns /\ 1 \in Turns
      /\ used.turns + 1 \in Turns \/ used.turns >= MaxTurns
      /\ used.turns \in 0 .. MaxTurns
  BY CounterType, DelegationConstants DEF IInv, TypeOK, Turns
<1>2. CASE TurnStarts
  <2>1. /\ turn' = [turn EXCEPT !["chat"] = used.turns + 1]
        /\ used.turns + 1 \in Turns /\ "chat" \in Session /\ "chat" \notin Child
        /\ UNCHANGED <<row, filed, run, stopping, call, routine, cut, revived>>
    BY <1>1, <1>2, SessionFacts, DelegationConstants DEF TurnStarts
  <2>2. used' \in [turns : 0 .. MaxTurns, cancels : 0 .. MaxCancels,
                   acts : 0 .. MaxActs, crashes : 0 .. MaxCrashes]
    BY <1>2, CounterType, DelegationConstants DEF TurnStarts
  <2>3. TypeOK'
    BY <1>1, <2>1, <2>2 DEF IInv, TypeOK
  <2>4. /\ \A d \in Child : turn'[d] = turn[d]
        /\ turn'["routine"] = turn["routine"] \/ "routine" \notin Roots
    BY <1>1, <2>1, SessionFacts
  <2>5. RoutineEndsLast'
    BY <2>1 DEF IInv, RoutineEndsLast, Unattended
  <2> QED
    BY <2>1, <2>3, <2>4, <2>5, RootStep DEF IInv, Steps
<1>3. CASE TurnEnds
  <2>1. /\ turn' = [turn EXCEPT !["chat"] = 0]
        /\ "chat" \in Session /\ "chat" \notin Child
        /\ UNCHANGED <<row, filed, run, stopping, call, routine, used, cut, revived>>
    BY <1>3, SessionFacts DEF TurnEnds
  <2>2. TypeOK'
    BY <1>1, <2>1 DEF IInv, TypeOK
  <2>3. /\ \A d \in Child : turn'[d] = turn[d]
        /\ turn'["routine"] = turn["routine"] \/ "routine" \notin Roots
    BY <1>1, <2>1, SessionFacts
  <2>4. RoutineEndsLast'
    BY <2>1 DEF IInv, RoutineEndsLast, Unattended
  <2> QED
    BY <2>1, <2>2, <2>3, <2>4, RootStep DEF IInv, Steps
<1>4. CASE RoutineTurnEnds
  <2>1. /\ turn' = [turn EXCEPT !["routine"] = 0] /\ routine' = "children"
        /\ "routine" \notin Child
        /\ UNCHANGED <<row, filed, run, stopping, call, used, cut, revived>>
    BY <1>4, SessionFacts DEF RoutineTurnEnds
  <2>2. TypeOK'
    BY <1>1, <2>1 DEF IInv, TypeOK
  <2>3. \A d \in Child : turn'[d] = turn[d]
    BY <1>1, <2>1, SessionFacts
  <2>4. "routine" \in Roots => turn'["routine"] = 0
    BY <1>1, <2>1, SessionFacts
  <2>5. RoutineEndsLast'
    BY <2>1 DEF RoutineEndsLast
  <2> QED
    BY <2>1, <2>2, <2>3, <2>4, <2>5, RootStep
<1> QED
  BY <1>2, <1>3, <1>4

LEMMA RoutineStartsInv ==
    ASSUME IInv, RoutineStarts
    PROVE  IInv'
<1>1. /\ turn \in [Session -> Turns] /\ 1 \in Turns
  BY DelegationConstants DEF IInv, TypeOK, Turns
<1>2. /\ turn' = [turn EXCEPT !["routine"] = 1] /\ routine' = "turn"
      /\ "routine" \notin Child
      /\ UNCHANGED <<row, filed, run, stopping, call, used, cut, revived>>
  BY SessionFacts DEF RoutineStarts
<1>3. TypeOK'
  BY <1>1, <1>2 DEF IInv, TypeOK
<1>4. \A d \in Child : turn'[d] = turn[d]
  BY <1>1, <1>2, SessionFacts
<1>5. RoutineEndsLast'
  BY <1>2 DEF RoutineEndsLast
<1> QED
  BY <1>2, <1>3, <1>4, <1>5, RootStep

LEMMA RoutineEndsInv ==
    ASSUME IInv, RoutineEnds
    PROVE  IInv'
<1>1. /\ routine' = "over" /\ routine = "children"
      /\ \A d \in Unattended : run[d].ph = "off"
      /\ UNCHANGED <<row, filed, run, stopping, turn, call, used, cut, revived>>
  BY DEF RoutineEnds
<1>2. TypeOK' /\ RoutineEndsLast'
  BY <1>1 DEF IInv, TypeOK, RoutineEndsLast, Unattended
<1>3. "routine" \in Roots => turn["routine"] = 0
  BY <1>1 DEF IInv, Steps
<1> QED
  BY <1>1, <1>2, <1>3, RootStep

LEMMA ArchiveInv ==
    ASSUME IInv, NEW d \in Child, Archive(d)
    PROVE  IInv'
<1>1. /\ filed'[d] = "archived" /\ filed[d] = "open"
      /\ \A e \in Child : e # d => filed'[e] = filed[e]
      /\ UNCHANGED <<row, run, stopping, turn, call, routine, used, cut, revived>>
  BY DEF Archive, IInv, TypeOK
<1>2. TypeOK'
  BY <1>1 DEF Archive, IInv, TypeOK
<1>3. \A e \in Child : filed'[e] = "none" <=> filed[e] = "none"
  BY <1>1
<1>4. Steps'
  <2>1. \A e \in Child : StepOf(e)'
    BY <1>1, <1>3, SessionFacts, StepKept
  <2>2. \A e \in (cut \cup revived)' : filed'[e] # "none"
    BY <1>1, <1>3 DEF IInv, Steps, TypeOK
  <2> QED
    BY <1>1, <2>1, <2>2 DEF IInv, Steps
<1>5. Active' = Active /\ Unattended' = Unattended
  BY <1>1 DEF Active, Unattended
<1>6. \A e \in Child : Passed(e) => Passed(e)'
  <2>1. row[d].st = "interrupted" /\ d \notin Active
    BY DEF Archive, Active
  <2> QED
    BY <1>1, <1>5, <2>1 DEF Passed, Stopped, Resumable
<1>7. NoSlotIsLeaked' /\ RoutineEndsLast'
  BY <1>1, <1>5 DEF IInv, NoSlotIsLeaked, RoutineEndsLast
<1> QED
  BY <1>1, <1>2, <1>3, <1>4, <1>5, <1>6, <1>7, QuietStep

LEMMA UnarchiveInv ==
    ASSUME IInv, NEW d \in Child, Unarchive(d)
    PROVE  IInv'
<1>1. /\ filed'[d] = "open" /\ filed[d] = "archived"
      /\ \A e \in Child : e # d => filed'[e] = filed[e]
      /\ revived' = IF PassedOver(d) THEN revived \cup {d} ELSE revived
      /\ UNCHANGED <<row, run, stopping, turn, call, routine, used, cut>>
  BY DEF Unarchive, IInv, TypeOK
<1>2. TypeOK'
  BY <1>1 DEF Unarchive, IInv, TypeOK
<1>3. \A e \in Child : filed'[e] = "none" <=> filed[e] = "none"
  BY <1>1
<1>4. Steps'
  <2>1. \A e \in Child : StepOf(e)'
    BY <1>1, <1>3, SessionFacts, StepKept
  <2>2. \A e \in (cut \cup revived)' : filed'[e] # "none"
    BY <1>1, <1>3 DEF IInv, Steps, TypeOK
  <2> QED
    BY <1>1, <2>1, <2>2 DEF IInv, Steps
<1>5. Active' = Active /\ Unattended' = Unattended
  BY <1>1 DEF Active, Unattended
<1>6. \A e \in Child : PassedOver(e) /\ Passed(e) => Passed(e)'
  <2> SUFFICES ASSUME NEW e \in Child, PassedOver(e), Passed(e) PROVE Passed(e)'
    OBVIOUS
  <2>1. CASE e = d
    <3>1. e \in revived' /\ ~ Resumable(e)
      BY <1>1, <2>1 DEF Resumable
    <3> QED
      BY <1>1, <1>5, <3>1 DEF Passed, Stopped
  <2>2. CASE e # d
    BY <1>1, <1>5, <2>2 DEF Passed, Stopped, Resumable
  <2> QED
    BY <2>1, <2>2
<1>7. NoSlotIsLeaked' /\ RoutineEndsLast'
  BY <1>1, <1>5 DEF IInv, NoSlotIsLeaked, RoutineEndsLast
<1> QED
  BY <1>1, <1>2, <1>3, <1>4, <1>5, <1>6, <1>7, QuietStep

-----------------------------------------------------------------------------
(* Steps of the call that holds the lock: nobody else is past it, so only  *)
(* what it does itself has to be looked at.                                *)
LEMMA HandStep ==
    ASSUME IInv, NEW c \in Call, Held(c), NEW r \in Requests,
           call' = [call EXCEPT ![c] = r], TypeOK', Steps',
           \A d \in Child : filed[d] # "none" =>
               /\ filed'[d] # "none"
               /\ row'[d].up = row[d].up /\ row'[d].depth = row[d].depth,
           ShapeOf(c)', CutsOf(c)', \A d \in r.of : InHandOf(c, d)',
           \A d \in cut' : \A e \in Tree(d)' : Doomed(e)',
           WithinLimits', NoSlotIsLeaked', RoutineEndsLast'
    PROVE  IInv'
<1>1. /\ call'[c] = r /\ \A k \in Call : k # c => call'[k] = call[k]
  BY DEF IInv, TypeOK
<1>2. \A k \in Call : k # c => call[k].pc \in {"idle", "wait"}
  BY DEF IInv, Shape, Held
<1>3. ASSUME NEW k \in Call, k # c PROVE ShapeOf(k)'
  <2>1. ShapeOf(k) /\ call'[k] = call[k] /\ call[k].pc \in {"idle", "wait"}
    BY <1>1, <1>2, <1>3 DEF IInv, Shape
  <2>2. call[k].op \in {"delegate", "resume"} /\ call[k].by \in Child =>
           /\ filed'[call[k].by] # "none"
           /\ row'[call[k].by].depth = row[call[k].by].depth
    BY <2>1 DEF ShapeOf
  <2> QED
    BY <2>1, <2>2 DEF ShapeOf
<1>4. Shape'
  <2>1. \A k, l \in Call : Held(k)' /\ Held(l)' => k = l
    BY <1>1, <1>2 DEF Held
  <2> QED
    BY <1>3, <2>1 DEF Shape
<1>5. InHand'
  <2> SUFFICES ASSUME NEW k \in Call, k # c, NEW d \in call[k].of
               PROVE  InHandOf(k, d)'
    BY <1>1 DEF InHand
  <2>1. /\ InHandOf(k, d) /\ d \in Child
        /\ call'[k] = call[k] /\ call[k].pc \in {"idle", "wait"}
    BY <1>1, <1>2, CounterType DEF IInv, InHand, Requests
  <2> QED
    BY <2>1 DEF InHandOf
<1>6. \A k \in Call : k # c => CutsOf(k)'
  BY <1>1, <1>2 DEF CutsOf
<1> QED
  BY <1>4, <1>5, <1>6 DEF IInv, Cuts

LEMMA AddOne ==
    ASSUME NEW S, NEW x, IsFiniteSet(S)
    PROVE  /\ IsFiniteSet(S \cup {x}) /\ Cardinality(S) \in Nat
           /\ Cardinality(S \cup {x}) \in Nat
           /\ Cardinality(S \cup {x}) <= Cardinality(S) + 1
<1>1. IsFiniteSet(S \cup {x})
  BY FS_AddElement
<1>2. Cardinality(S) \in Nat /\ Cardinality(S \cup {x}) \in Nat
  BY <1>1, FS_CardinalityType
<1>3. Cardinality(S \cup {x}) = Cardinality(S)
        \/ Cardinality(S \cup {x}) = Cardinality(S) + 1
  BY FS_AddElement
<1> QED
  BY <1>1, <1>2, <1>3

(* A delegation that is new to the active ones fits under the caps.        *)
LEMMA OneMoreActive ==
    ASSUME TypeOK, WithinLimits, NEW d \in Child, NEW p \in Session, Capacity(p),
           Active' = Active \cup {d}, row'[d].up = p,
           \A e \in Active : row'[e].up = row[e].up
    PROVE  WithinLimits'
<1>1. Active \subseteq Child /\ IsFiniteSet(Active)
  BY SessionFacts, FS_Subset DEF Active
<1>2. Cardinality(Active') <= Cardinality(Active) + 1 /\ Cardinality(Active) \in Nat
      /\ Cardinality(Active') \in Nat
  BY <1>1, AddOne
<1>3. Cardinality(Active)' <= MaxGlobal
  BY <1>2, DelegationConstants DEF Capacity
<1>4. ASSUME NEW s \in Session
      PROVE  Cardinality(Active \cap KidsOf(s))' <= MaxPerParent
  <2> DEFINE A == Active \cap KidsOf(s)
  <2>1. IsFiniteSet(A)
    BY <1>1, FS_Subset
  <2>2. CASE s = p
    <3>1. A' \subseteq A \cup {d}
      BY <1>1 DEF KidsOf
    <3>2. IsFiniteSet(A \cup {d}) /\ Cardinality(A \cup {d}) <= Cardinality(A) + 1
      BY <2>1, AddOne
    <3>3. Cardinality(A') <= Cardinality(A \cup {d}) /\ Cardinality(A') \in Nat
          /\ Cardinality(A \cup {d}) \in Nat /\ Cardinality(A) \in Nat
      BY <2>1, <3>1, <3>2, FS_Subset, FS_CardinalityType
    <3>4. Cardinality(A) < MaxPerParent
      BY <2>2 DEF Capacity
    <3> QED
      BY <3>2, <3>3, <3>4, DelegationConstants
  <2>3. CASE s # p
    <3>1. A' \subseteq A
      BY <1>1, <2>3 DEF KidsOf
    <3>2. Cardinality(A') <= Cardinality(A) /\ Cardinality(A') \in Nat
          /\ Cardinality(A) \in Nat
      BY <2>1, <3>1, FS_Subset, FS_CardinalityType
    <3>3. Cardinality(A) <= MaxPerParent
      BY DEF WithinLimits
    <3> QED
      BY <3>2, <3>3, DelegationConstants
  <2> QED
    BY <2>2, <2>3
<1> QED
  BY <1>3, <1>4 DEF WithinLimits

LEMMA TreeUp ==
    ASSUME NEW x \in Child, NEW e \in Tree(x), e # x
    PROVE  row[e].up \in Tree(x)
<1> SUFFICES ASSUME row[e].up \notin Tree(x) PROVE FALSE
  OBVIOUS
<1> DEFINE S == Tree(x) \ {e}
<1>1. S \in SUBSET Child /\ x \in S
  BY TreeRoot DEF Tree
<1>2. Closed(S)
  <2> SUFFICES ASSUME NEW y \in S, NEW k \in KidsOf(y) PROVE k \in S
    BY DEF Closed
  <2>1. k \in Tree(x)
    BY TreeClosed DEF Closed
  <2>2. row[k].up = y
    BY DEF KidsOf
  <2> QED
    BY <2>1, <2>2
<1> QED
  BY <1>1, <1>2 DEF Tree

LEMMA TreeKept ==
    ASSUME NEW x \in Child, \A y \in Tree(x) : KidsOf(y)' \subseteq Tree(x)
    PROVE  Tree(x)' \subseteq Tree(x)
<1>1. PICK T \in SUBSET Child : T = Tree(x)
  BY DEF Tree
<1>2. Closed(T)'
  BY <1>1 DEF Closed
<1>3. x \in T
  BY <1>1, TreeRoot
<1> QED
  BY <1>1, <1>2, <1>3 DEF Tree

LEMMA StoreInv ==
    ASSUME IInv, NEW c \in Call, Store(c)
    PROVE  IInv'
<1> DEFINE p == call[c].by
           fresh == [st |-> "pending", up |-> p, tries |-> 1,
                     depth |-> (IF p \in Child THEN row[p].depth ELSE 0) + 1,
                     unattended |-> IF p \in Child THEN row[p].unattended
                                    ELSE p = "routine"]
           r == [call[c] EXCEPT !.pc = "stored"]
<1>1. /\ call[c].pc = "setup" /\ ShapeOf(c) /\ call[c].op = "delegate"
      /\ p \in Session /\ (p \in Child => filed[p] # "none")
      /\ (IF p \in Child THEN row[p].depth ELSE 0) < MaxDepth
      /\ call[c] \in Requests /\ call[c].turn # 0
  BY CounterType DEF Store, IInv, Shape, ShapeOf
<1>2. PICK d \in Child : call[c].of = {d}
  BY <1>1 DEF ShapeOf
<1>3. /\ filed[d] = "none" /\ run[d].ph = "off" /\ row[d] = NoRow /\ Capacity(p)
  BY <1>1, <1>2 DEF IInv, InHand, InHandOf
<1>4. d # p
  BY <1>1, <1>3
<1>5. row' = [e \in Child |-> IF e \in call[c].of THEN fresh ELSE row[e]]
  BY DEF Store
<1>6. /\ r \in Requests /\ r.op = "delegate" /\ r.pc = "stored" /\ r.by = p
      /\ r.turn = call[c].turn /\ r.of = {d} /\ r.todo = call[c].todo
  BY <1>1, <1>2 DEF Requests
<1>7. /\ call' = [call EXCEPT ![c] = r] /\ call'[c] = r
      /\ \A k \in Call : k # c => call'[k] = call[k]
      /\ UNCHANGED <<filed, run, stopping, turn, routine, used, cut, revived>>
  BY DEF Store, IInv, TypeOK
<1>8. fresh \in Rows
  <2>1. (IF p \in Child THEN row[p].depth ELSE 0) + 1 \in 0 .. MaxDepth
    <3>1. p \in Child => row[p].depth \in 0 .. MaxDepth
      BY CounterType DEF Rows
    <3> QED
      BY <1>1, <3>1, DelegationConstants
  <2>2. (IF p \in Child THEN row[p].unattended ELSE p = "routine") \in BOOLEAN
    BY CounterType DEF Rows
  <2>3. 1 \in 0 .. MaxAttempts
    BY DelegationConstants
  <2> QED
    BY <1>1, <2>1, <2>2, <2>3 DEF Rows
<1>9. /\ fresh.st = "pending" /\ fresh.up = p /\ fresh # NoRow
      /\ fresh.unattended => p = "routine" \/ (p \in Child /\ row[p].unattended)
  BY DEF NoRow
<1> HIDE DEF r, fresh
<1>10. row'[d] = fresh /\ \A e \in Child : e # d => row'[e] = row[e]
  BY <1>2, <1>5
<1>11. TypeOK'
  BY <1>5, <1>6, <1>7, <1>8 DEF IInv, TypeOK
<1>12. Steps'
  <2>1. StepOf(d) /\ turn[d] = 0
    BY <1>3, CounterType DEF StepOf
  <2>2. StepOf(d)'
    BY <1>1, <1>3, <1>7, <1>9, <1>10, <2>1 DEF StepOf
  <2>3. \A e \in Child : e # d => StepOf(e)'
    BY <1>7, <1>10, StepKept
  <2> QED
    BY <1>7, <2>2, <2>3 DEF IInv, Steps
<1>13. Active' = Active \cup {d} /\ d \notin Active
  BY <1>3, <1>9, <1>10 DEF Active, NoRow
<1>14. WithinLimits'
  <2>1. \A e \in Active : row'[e].up = row[e].up
    BY <1>10, <1>13 DEF Active
  <2> QED
    BY <1>1, <1>3, <1>9, <1>10, <1>13, <2>1, OneMoreActive DEF IInv
<1>15. NoSlotIsLeaked' /\ RoutineEndsLast'
  <2>1. NoSlotIsLeaked'
    <3> SUFFICES ASSUME NEW e \in Active'
                 PROVE  \/ run[e].ph \in {"start", "query", "ended"}
                        \/ \E k \in Call : /\ e \in call'[k].of
                                           /\ call'[k].pc \in {"stored", "claimed"}
      BY <1>7 DEF NoSlotIsLeaked
    <3>1. CASE e = d
      BY <1>6, <1>7, <3>1
    <3>2. CASE e # d
      <4>1. \/ run[e].ph \in {"start", "query", "ended"}
            \/ \E k \in Call : e \in call[k].of /\ call[k].pc \in {"stored", "claimed"}
        BY <1>13, <3>2 DEF IInv, NoSlotIsLeaked
      <4> QED
        BY <1>1, <1>7, <4>1
    <3> QED
      BY <3>1, <3>2
  <2>2. RoutineEndsLast'
    BY <1>3, <1>7, <1>10 DEF IInv, RoutineEndsLast, Unattended
  <2> QED
    BY <2>1, <2>2
<1>16. Trees(revived) \subseteq Trees(revived)' /\ revived \subseteq Child
  <2>1. \A y \in Child : KidsOf(y) \subseteq KidsOf(y)'
    BY <1>3, <1>10, SessionFacts DEF KidsOf, NoRow
  <2>2. \A y \in Child : Tree(y) \subseteq Tree(y)'
    BY <2>1, TreeGrows
  <2> QED
    BY <1>7, <2>2 DEF Trees, IInv, TypeOK
<1>17. p \in Child /\ p \in Trees(revived) => d \in Trees(revived)'
  <2> SUFFICES ASSUME p \in Child, p \in Trees(revived)
               PROVE  d \in Trees(revived)'
    OBVIOUS
  <2>1. PICK y \in revived : y \in Child /\ p \in Tree(y)'
    <3>1. p \in Trees(revived)' /\ revived' = revived
      BY <1>7, <1>16
    <3> QED
      BY <1>16, <3>1 DEF Trees
  <2>2. ASSUME NEW S \in SUBSET Child, y \in S, Closed(S)'
        PROVE  d \in S
    <3>1. p \in S
      BY <2>1, <2>2 DEF Tree
    <3>2. d \in {k \in Child : row'[k].up = p}
      BY <1>9, <1>10
    <3> QED
      BY <2>2, <3>1, <3>2 DEF Closed, KidsOf
  <2>3. d \in Tree(y)'
    BY <2>1, <2>2 DEF Tree
  <2> QED
    BY <1>7, <2>1, <2>3 DEF Trees
<1>23. ASSUME NEW x \in cut
       PROVE  /\ x \in Child /\ Tree(x)' \subseteq Tree(x) \cup {d}
              /\ p \in Tree(x) => p \in Child /\ p \in Trees(revived)
              /\ p \notin Tree(x) => Tree(x)' \subseteq Tree(x) /\ d \notin Tree(x)
  <2>1. /\ x \in Child /\ filed[x] # "none" /\ Tree(x) \in SUBSET Child
        /\ p \in Tree(x) => p \in Child /\ p \in Trees(revived)
    BY <1>1 DEF IInv, TypeOK, Cuts, CutsOf, Steps, Tree
  <2>2. d \notin Tree(x)
    <3> SUFFICES ASSUME d \in Tree(x) PROVE FALSE
      OBVIOUS
    <3>1. row[d].up \in Tree(x)
      BY <1>3, <2>1, TreeUp
    <3> QED
      BY <1>3, <2>1, <3>1, SessionFacts DEF NoRow, Session
  <2>3. \A y \in Tree(x) : KidsOf(y)' \subseteq IF y = p THEN Tree(x) \cup {d} ELSE Tree(x)
    <3> SUFFICES ASSUME NEW y \in Tree(x), NEW k \in KidsOf(y)', k # d \/ y # p
                 PROVE  k \in Tree(x)
      OBVIOUS
    <3>1. k \in Child /\ row'[k].up = y
      BY DEF KidsOf
    <3>2. k # d
      BY <1>9, <1>10, <3>1
    <3>3. k \in KidsOf(y)
      BY <1>10, <3>1, <3>2 DEF KidsOf
    <3> QED
      BY <2>1, <3>3, TreeClosed DEF Closed
  <2>4. KidsOf(d)' = {}
    <3> SUFFICES ASSUME NEW k \in KidsOf(d)' PROVE FALSE
      OBVIOUS
    <3>1. k \in Child /\ row'[k].up = d
      BY DEF KidsOf
    <3>2. k # d
      BY <1>4, <1>9, <1>10, <3>1
    <3>3. row[k].up = d /\ StepOf(k)
      BY <1>10, <3>1, <3>2, CounterType
    <3> QED
      BY <1>3, <3>3 DEF StepOf
  <2>5. Tree(x)' \subseteq Tree(x) \cup {d}
    <3>1. PICK T \in SUBSET Child : T = Tree(x) \cup {d}
      BY <2>1
    <3>2. Closed(T)'
      BY <2>3, <2>4, <3>1 DEF Closed
    <3> QED
      BY <2>1, <3>1, <3>2, TreeRoot DEF Tree
  <2>6. p \notin Tree(x) => Tree(x)' \subseteq Tree(x)
    BY <2>1, <2>3, TreeKept
  <2> QED
    BY <2>1, <2>2, <2>5, <2>6
<1>24. \A x \in cut' : \A e \in Tree(x)' : Doomed(e)'
  <2> SUFFICES ASSUME NEW x \in cut, NEW e \in Tree(x)' PROVE Doomed(e)'
    BY <1>7
  <2>1. CASE e = d
    BY <1>17, <1>23, <2>1 DEF Doomed
  <2>2. CASE e # d
    <3>1. e \in Child /\ Doomed(e)
      BY <1>23, <2>2 DEF Tree, IInv, Cuts
    <3>2. Stopped(e) => Stopped(e)'
      BY <1>7, <1>10, <1>13, <2>2, <3>1 DEF Stopped, Resumable
    <3> QED
      BY <1>16, <3>1, <3>2 DEF Doomed
  <2> QED
    BY <2>1, <2>2
<1>18. ShapeOf(c)'
  <2>1. p \in Child => row'[p].depth = row[p].depth /\ filed'[p] # "none"
    BY <1>1, <1>4, <1>7, <1>10
  <2> QED
    BY <1>1, <1>6, <1>7, <2>1 DEF ShapeOf
<1>19. InHandOf(c, d)'
  <2>1. fresh.unattended => p = "routine" \/ (p \in Child /\ row'[p].unattended)
    BY <1>4, <1>9, <1>10
  <2> QED
    BY <1>3, <1>6, <1>7, <1>9, <1>10, <2>1 DEF InHandOf
<1>20. CutsOf(c)'
  <2>1. SUFFICES ASSUME NEW x \in cut, p \in Tree(x)' PROVE p \in Trees(revived)'
    BY <1>6, <1>7 DEF CutsOf
  <2> QED
    BY <1>4, <1>16, <1>23, <2>1
<1>21. \A e \in Child : filed[e] # "none" =>
          /\ filed'[e] # "none"
          /\ row'[e].up = row[e].up /\ row'[e].depth = row[e].depth
  BY <1>3, <1>7, <1>10
<1>22. Held(c)
  BY <1>1 DEF Held
<1> QED
  BY <1>6, <1>7, <1>11, <1>12, <1>14, <1>15, <1>24, <1>18, <1>19, <1>20, <1>21,
     <1>22, HandStep

(* A row in the hands of a call at work is in a cancelled tree only below  *)
(* what was un-archived.                                                   *)
LEMMA NotCut ==
    ASSUME IInv, NEW d \in Active, run[d].ph = "off", NEW x \in cut
    PROVE  x \in Child /\ (d \in Tree(x) => d \in Trees(revived))
<1>1. d \in Child /\ StepOf(d) /\ x \in Child
  BY CounterType DEF Active, IInv, TypeOK
<1>2. ~ run[d].stop
  BY <1>1 DEF StepOf, NoRun
<1>3. ~ Stopped(d)
  BY <1>2 DEF Stopped
<1> QED
  BY <1>1, <1>3 DEF IInv, Cuts, Doomed

(* What a row taken back leaves of the trees.                              *)
LEMMA TreesWithout ==
    ASSUME IInv, NEW d \in Child, filed[d] = "none", revived' = revived,
           \A e \in Child : e # d => row'[e] = row[e], row'[d] = NoRow
    PROVE  \A e \in Trees(revived) : e = d \/ e \in Trees(revived)'
<1> SUFFICES ASSUME NEW y \in revived, NEW e \in Tree(y), e # d
             PROVE  e \in Tree(y)'
  BY DEF Trees
<1>1. y \in Child /\ y # d
  BY DEF IInv, TypeOK, Steps
<1>2. SUFFICES ASSUME NEW S \in SUBSET Child, y \in S, Closed(S)' PROVE e \in S
  BY <1>1 DEF Tree
<1>3. KidsOf(d) = {}
  BY CounterType DEF KidsOf, StepOf
<1>4. \A x \in Child : KidsOf(x) \subseteq KidsOf(x)' \cup {d}
  BY DEF KidsOf
<1>5. PICK T \in SUBSET Child : T = S \cup {d}
  BY <1>2
<1>6. Closed(T)
  BY <1>2, <1>3, <1>4, <1>5 DEF Closed
<1> QED
  BY <1>2, <1>5, <1>6 DEF Tree

LEMMA OtherSlots ==
    ASSUME IInv, NEW c \in Call, Held(c), NEW e \in Active, e \notin call[c].of
    PROVE  run[e].ph \in {"start", "query", "ended"}
<1>1. SUFFICES ASSUME NEW k \in Call, e \in call[k].of,
                      call[k].pc \in {"stored", "claimed"}
               PROVE  FALSE
  BY DEF IInv, NoSlotIsLeaked
<1>2. Held(k)
  BY <1>1 DEF Held
<1> QED
  BY <1>1, <1>2 DEF IInv, Shape

LEMMA LaunchInv ==
    ASSUME IInv, NEW c \in Call, Launch(c)
    PROVE  IInv'
<1> DEFINE p == call[c].by
<1>1. /\ call[c].pc = "stored" /\ ShapeOf(c) /\ call[c].op = "delegate"
      /\ p \in Session /\ call[c].turn # 0 /\ Held(c)
  BY DEF Launch, IInv, Shape, ShapeOf, Held
<1>2. PICK d \in Child : call[c].of = {d}
  BY <1>1 DEF ShapeOf
<1>3. /\ filed[d] = "none" /\ run[d].ph = "off" /\ row[d].st = "pending"
      /\ row[d].unattended => p = "routine" \/ (p \in Child /\ row[p].unattended)
      /\ StepOf(d) /\ d \in Active /\ row[d] \in Rows
  BY <1>1, <1>2, CounterType DEF IInv, InHand, InHandOf, Active
<1>4. /\ call' = [call EXCEPT ![c] = NoCall] /\ call'[c] = NoCall
      /\ \A k \in Call : k # c => call'[k] = call[k]
      /\ UNCHANGED <<stopping, turn, routine, used, cut, revived>>
  BY DEF Launch, IInv, TypeOK
<1>5. /\ NoCall \in Requests /\ NoCall.of = {}
      /\ ShapeOf(c)' /\ CutsOf(c)'
  BY <1>4, IdleCall DEF NoCall
<1>6. \A e \in Active : e # d => run[e].ph \in {"start", "query", "ended"}
  BY <1>1, <1>2, OtherSlots
<1>7. CASE SameTurn(c)
  <2>1. /\ row' = row
        /\ filed' = [e \in Child |-> IF e \in call[c].of THEN "open" ELSE filed[e]]
        /\ run' = [e \in Child |-> IF e \in call[c].of THEN Started ELSE run[e]]
    BY <1>7 DEF Launch
  <2>2. /\ filed'[d] = "open" /\ run'[d] = Started
        /\ \A e \in Child : e # d => filed'[e] = filed[e] /\ run'[e] = run[e]
    BY <1>2, <2>1
  <2>3. Started \in Runs /\ Started.ph = "start" /\ ~ Started.stop
    BY DEF Started, NoRun, Runs
  <2>4. TypeOK'
    BY <1>4, <1>5, <2>1, <2>3 DEF IInv, TypeOK
  <2>5. Steps'
    <3>1. StepOf(d)'
      BY <1>3, <1>4, <2>1, <2>2, <2>3 DEF StepOf
    <3>2. \A e \in Child : e # d => StepOf(e)'
      BY <1>4, <2>1, <2>2, StepKept, SessionFacts
    <3>3. stopping' = {e \in Child : run'[e].stop}
      <4>1. ~ run[d].stop
        BY <1>3 DEF StepOf, NoRun
      <4> QED
        BY <1>4, <2>2, <2>3, <4>1 DEF IInv, Steps
    <3>4. \A e \in (cut \cup revived)' : filed'[e] # "none"
      BY <1>4, <2>2 DEF IInv, Steps, TypeOK
    <3> QED
      BY <1>4, <3>1, <3>2, <3>3, <3>4 DEF IInv, Steps
  <2>6. Active' = Active /\ Unattended' = Unattended
        /\ \A s \in Session : KidsOf(s)' = KidsOf(s)
    BY <2>1 DEF Active, Unattended, KidsOf
  <2>7. WithinLimits'
    BY <2>6 DEF IInv, WithinLimits
  <2>8. NoSlotIsLeaked'
    BY <1>6, <2>2, <2>3, <2>6 DEF NoSlotIsLeaked, Active
  <2>9. RoutineEndsLast'
    <3> SUFFICES ASSUME routine = "over", row[d].unattended PROVE FALSE
      BY <1>4, <2>2, <2>6 DEF IInv, RoutineEndsLast, Unattended
    <3>1. turn[p] # 0
      BY <1>1, <1>7 DEF SameTurn
    <3>2. CASE p = "routine"
      <4>1. "routine" \in Roots
        BY <1>1, <3>2, SessionFacts
      <4> QED
        BY <3>1, <3>2, <4>1 DEF IInv, Steps
    <3>3. CASE p \in Child /\ row[p].unattended
      <4>1. run[p].ph = "query"
        BY <3>1, <3>3, CounterType DEF StepOf
      <4> QED
        BY <3>3, <4>1 DEF IInv, RoutineEndsLast, Unattended
    <3> QED
      BY <1>3, <3>2, <3>3
  <2>10. \A x \in cut' : \A e \in Tree(x)' : Doomed(e)'
    <3> SUFFICES ASSUME NEW x \in cut, NEW e \in Tree(x)' PROVE Doomed(e)'
      BY <1>4
    <3>1. x \in Child /\ (d \in Tree(x) => d \in Trees(revived))
      BY <1>3, NotCut
    <3>2. \A y \in Child : Tree(y)' = Tree(y)
      BY <2>6, TreeSame, SessionFacts
    <3>3. Trees(revived)' = Trees(revived)
      BY <1>4, <3>2 DEF Trees, IInv, TypeOK
    <3>4. CASE e \in Trees(revived)
      BY <3>3, <3>4 DEF Doomed
    <3>5. CASE e \notin Trees(revived)
      <4>1. e \in Child /\ e # d /\ Stopped(e)
        BY <3>1, <3>2, <3>5 DEF Tree, IInv, Cuts, Doomed
      <4> QED
        BY <2>1, <2>2, <2>6, <4>1 DEF Doomed, Stopped, Resumable
    <3> QED
      BY <3>4, <3>5
  <2>11. \A e \in Child : filed[e] # "none" =>
          /\ filed'[e] # "none"
          /\ row'[e].up = row[e].up /\ row'[e].depth = row[e].depth
    BY <2>1, <2>2
  <2> QED
    BY <1>1, <1>4, <1>5, <2>4, <2>5, <2>7, <2>8, <2>9, <2>10, <2>11, HandStep
<1>8. CASE ~ SameTurn(c)
  <2>1. /\ UNCHANGED <<filed, run>>
        /\ row' = [e \in Child |-> IF e \in call[c].of THEN NoRow ELSE row[e]]
    BY <1>8 DEF Launch
  <2>2. row'[d] = NoRow /\ \A e \in Child : e # d => row'[e] = row[e]
    BY <1>2, <2>1
  <2>3. /\ NoRow \in Rows /\ NoRow.st = "none" /\ NoRow.up = "none"
        /\ ~ NoRow.unattended
    BY DelegationConstants DEF NoRow, Rows
  <2>4. TypeOK'
    BY <1>4, <1>5, <2>1, <2>3 DEF IInv, TypeOK
  <2>5. Steps'
    <3>1. StepOf(d)'
      BY <1>3, <1>4, <2>1, <2>2, <2>3, SessionFacts DEF StepOf
    <3>2. \A e \in Child : e # d => StepOf(e)'
      BY <1>4, <2>1, <2>2, StepKept, SessionFacts
    <3> QED
      BY <1>4, <2>1, <3>1, <3>2 DEF IInv, Steps
  <2>6. Active' = Active \ {d} /\ Unattended' \subseteq Unattended
    BY <2>2, <2>3 DEF Active, Unattended
  <2>7. WithinLimits'
    BY <2>2, <2>6, FewerActive DEF IInv, Active
  <2>8. NoSlotIsLeaked'
    BY <1>6, <2>1, <2>6 DEF NoSlotIsLeaked
  <2>9. RoutineEndsLast'
    BY <1>4, <2>1, <2>6 DEF IInv, RoutineEndsLast
  <2>10. \A x \in cut' : \A e \in Tree(x)' : Doomed(e)'
    <3> SUFFICES ASSUME NEW x \in cut, NEW e \in Tree(x)' PROVE Doomed(e)'
      BY <1>4
    <3>1. \A y \in Child : KidsOf(y)' \subseteq KidsOf(y)
      BY <2>2, <2>3, SessionFacts DEF KidsOf
    <3>2. x \in Child /\ Tree(x)' \subseteq Tree(x)
      BY <3>1, TreeOfKids DEF IInv, TypeOK
    <3>3. e \in Child /\ Doomed(e)
      BY <3>2 DEF Tree, IInv, Cuts
    <3>4. CASE e = d
      BY <2>2, <2>3, <3>4 DEF Doomed, Stopped, Active, Resumable
    <3>5. CASE e # d /\ e \in Trees(revived)
      BY <1>3, <1>4, <2>2, <3>5, TreesWithout DEF Doomed
    <3>6. CASE e # d /\ Stopped(e)
      BY <2>1, <2>2, <2>6, <3>3, <3>6 DEF Doomed, Stopped, Resumable
    <3> QED
      BY <3>3, <3>4, <3>5, <3>6 DEF Doomed
  <2>11. \A e \in Child : filed[e] # "none" =>
          /\ filed'[e] # "none"
          /\ row'[e].up = row[e].up /\ row'[e].depth = row[e].depth
    BY <1>3, <2>1, <2>2
  <2> QED
    BY <1>1, <1>4, <1>5, <2>4, <2>5, <2>7, <2>8, <2>9, <2>10, <2>11, HandStep
<1> QED
  BY <1>7, <1>8

LEMMA ClaimInv ==
    ASSUME IInv, NEW c \in Call, Claim(c)
    PROVE  IInv'
<1> DEFINE p == call[c].by
           r == [call[c] EXCEPT !.pc = "claimed"]
<1>1. /\ call[c].pc = "claim" /\ ShapeOf(c) /\ call[c].op = "resume"
      /\ p \in Session /\ call[c].turn # 0 /\ Held(c) /\ call[c] \in Requests
      /\ CutsOf(c)
  BY CounterType DEF Claim, IInv, Shape, ShapeOf, Held, Cuts
<1>2. PICK d \in Child : call[c].of = {d}
  BY <1>1 DEF ShapeOf
<1>3. /\ Resumable(d) /\ run[d].ph = "off" /\ ~ row[d].unattended
      /\ row[d].up = p /\ filed[d] # "none" /\ Capacity(p)
      /\ StepOf(d) /\ row[d] \in Rows /\ InHandOf(c, d)
  BY <1>1, <1>2, CounterType DEF IInv, InHand, InHandOf, Claim
<1>4. /\ r \in Requests /\ r.op = "resume" /\ r.pc = "claimed" /\ r.by = p
      /\ r.turn = call[c].turn /\ r.of = {d}
  BY <1>1, <1>2 DEF Requests
<1>5. /\ call' = [call EXCEPT ![c] = r] /\ call'[c] = r
      /\ \A k \in Call : k # c => call'[k] = call[k]
      /\ UNCHANGED <<filed, run, stopping, turn, routine, used, cut, revived>>
  BY DEF Claim, IInv, TypeOK
<1> HIDE DEF r
<1> DEFINE next == [row[d] EXCEPT !.st = "pending", !.tries = @ + 1]
<1>6. row' = [e \in Child |-> IF e \in call[c].of
                              THEN [row[e] EXCEPT !.st = "pending", !.tries = @ + 1]
                              ELSE row[e]]
  BY DEF Claim
<1>7. /\ next \in Rows /\ next.st = "pending" /\ next.tries = row[d].tries + 1
      /\ next.up = p /\ next.depth = row[d].depth /\ ~ next.unattended
  <2>1. row[d].tries + 1 \in 0 .. MaxAttempts /\ row[d].tries + 1 > 0
    BY <1>3, DelegationConstants DEF Rows, Resumable
  <2> QED
    BY <1>3, <2>1 DEF Rows
<1>8. row'[d] = next /\ \A e \in Child : e # d => row'[e] = row[e]
  BY <1>2, <1>6
<1> HIDE DEF next
<1>9. next # NoRow /\ next.tries > 0
  <2>1. row[d].tries \in Nat
    BY <1>3, DelegationConstants DEF Rows
  <2> QED
    BY <1>7, <2>1 DEF NoRow
<1>10. TypeOK'
  <2>1. row' \in [Child -> Rows]
    <3>1. \A e \in Child : row'[e] \in Rows
      BY <1>7, <1>8, CounterType
    <3> QED
      BY <1>6, <3>1
  <2> QED
    BY <1>4, <1>5, <2>1 DEF IInv, TypeOK
<1>11. Steps'
  <2>1. StepOf(d)'
    BY <1>1, <1>3, <1>5, <1>7, <1>8, <1>9 DEF StepOf, Resumable
  <2>2. \A e \in Child : e # d => StepOf(e)'
    BY <1>5, <1>8, StepKept, SessionFacts
  <2> QED
    BY <1>5, <2>1, <2>2 DEF IInv, Steps
<1>12. Active' = Active \cup {d} /\ Unattended' = Unattended
  BY <1>3, <1>7, <1>8 DEF Active, Unattended
<1>13. \A e \in Child : KidsOf(e)' = KidsOf(e)
  BY <1>3, <1>7, <1>8 DEF KidsOf
<1>14. WithinLimits'
  <2>1. \A e \in Active : row'[e].up = row[e].up
    BY <1>3, <1>7, <1>8 DEF Active
  <2> QED
    BY <1>1, <1>3, <1>7, <1>8, <1>12, <2>1, OneMoreActive DEF IInv
<1>15. NoSlotIsLeaked'
  <2> SUFFICES ASSUME NEW e \in Active'
               PROVE  \/ run[e].ph \in {"start", "query", "ended"}
                      \/ \E k \in Call : /\ e \in call'[k].of
                                         /\ call'[k].pc \in {"stored", "claimed"}
    BY <1>5 DEF NoSlotIsLeaked
  <2>1. CASE e = d
    BY <1>4, <1>5, <2>1
  <2>2. CASE e # d
    BY <1>1, <1>2, <1>12, <2>2, OtherSlots
  <2> QED
    BY <2>1, <2>2
<1>16. RoutineEndsLast'
  BY <1>5, <1>12 DEF IInv, RoutineEndsLast
<1>17. /\ \A x \in Child : Tree(x)' = Tree(x)
       /\ Trees(revived)' = Trees(revived)
  <2>1. \A x \in Child : Tree(x)' = Tree(x)
    BY <1>13, TreeSame
  <2> QED
    BY <1>5, <2>1 DEF Trees, IInv, TypeOK
<1>23. \A x \in cut : x \in Child /\ (d \in Tree(x) => d \in Trees(revived))
  BY <1>1, <1>2 DEF IInv, TypeOK, CutsOf
<1>18. \A x \in cut' : \A e \in Tree(x)' : Doomed(e)'
  <2> SUFFICES ASSUME NEW x \in cut, NEW e \in Tree(x)' PROVE Doomed(e)'
    BY <1>5
  <2>1. CASE e \in Trees(revived)
    BY <1>17, <2>1 DEF Doomed
  <2>2. CASE e \notin Trees(revived)
    <3>1. e \in Child /\ e # d /\ Stopped(e)
      BY <1>17, <1>23, <2>2 DEF Tree, IInv, Cuts, Doomed
    <3> QED
      BY <1>5, <1>8, <1>12, <3>1 DEF Doomed, Stopped, Resumable
  <2> QED
    BY <2>1, <2>2
<1>19. ShapeOf(c)'
  BY <1>1, <1>2, <1>4, <1>5 DEF ShapeOf
<1>20. InHandOf(c, d)'
  BY <1>3, <1>4, <1>5, <1>7, <1>8, <1>9 DEF InHandOf
<1>21. CutsOf(c)'
  BY <1>4, <1>5, <1>17, <1>23 DEF CutsOf
<1>22. \A e \in Child : filed[e] # "none" =>
          /\ filed'[e] # "none"
          /\ row'[e].up = row[e].up /\ row'[e].depth = row[e].depth
  BY <1>3, <1>5, <1>7, <1>8
<1> QED
  BY <1>1, <1>4, <1>5, <1>10, <1>11, <1>14, <1>15, <1>16, <1>18, <1>19, <1>20, <1>21,
     <1>22, HandStep

LEMMA LaunchResumeInv ==
    ASSUME IInv, NEW c \in Call, LaunchResume(c)
    PROVE  IInv'
<1>1. /\ call[c].pc = "claimed" /\ ShapeOf(c) /\ call[c].op = "resume"
      /\ Held(c)
  BY DEF LaunchResume, IInv, Shape, ShapeOf, Held
<1>2. PICK d \in Child : call[c].of = {d}
  BY <1>1 DEF ShapeOf
<1>3. /\ run[d].ph = "off" /\ ~ row[d].unattended /\ row[d].st = "pending"
      /\ row[d].tries > 0 /\ filed[d] # "none" /\ row[d] \in Rows
      /\ StepOf(d) /\ d \in Active
  BY <1>1, <1>2, CounterType DEF IInv, InHand, InHandOf, Active
<1>4. /\ call' = [call EXCEPT ![c] = NoCall] /\ call'[c] = NoCall
      /\ \A k \in Call : k # c => call'[k] = call[k]
      /\ UNCHANGED <<filed, stopping, turn, routine, used, cut, revived>>
  BY DEF LaunchResume, IInv, TypeOK
<1>5. /\ NoCall \in Requests /\ NoCall.of = {}
      /\ ShapeOf(c)' /\ CutsOf(c)'
  BY <1>4, IdleCall DEF NoCall
<1>6. \A e \in Active : e # d => run[e].ph \in {"start", "query", "ended"}
  BY <1>1, <1>2, OtherSlots
<1>7. CASE SameTurn(c)
  <2>1. /\ row' = row
        /\ run' = [e \in Child |-> IF e \in call[c].of THEN Started ELSE run[e]]
    BY <1>7 DEF LaunchResume
  <2>2. run'[d] = Started /\ \A e \in Child : e # d => run'[e] = run[e]
    BY <1>2, <2>1
  <2>3. Started \in Runs /\ Started.ph = "start" /\ ~ Started.stop
    BY DEF Started, NoRun, Runs
  <2>4. TypeOK'
    BY <1>4, <1>5, <2>1, <2>3 DEF IInv, TypeOK
  <2>5. Steps'
    <3>1. StepOf(d)'
      BY <1>3, <1>4, <2>1, <2>2, <2>3 DEF StepOf
    <3>2. \A e \in Child : e # d => StepOf(e)'
      BY <1>4, <2>1, <2>2, StepKept, SessionFacts
    <3>3. stopping' = {e \in Child : run'[e].stop}
      <4>1. ~ run[d].stop
        BY <1>3 DEF StepOf, NoRun
      <4> QED
        BY <1>4, <2>2, <2>3, <4>1 DEF IInv, Steps
    <3> QED
      BY <1>4, <3>1, <3>2, <3>3 DEF IInv, Steps
  <2>6. Active' = Active /\ Unattended' = Unattended
        /\ \A s \in Session : KidsOf(s)' = KidsOf(s)
    BY <2>1 DEF Active, Unattended, KidsOf
  <2>7. WithinLimits'
    BY <2>6 DEF IInv, WithinLimits
  <2>8. NoSlotIsLeaked'
    BY <1>6, <2>2, <2>3, <2>6 DEF NoSlotIsLeaked, Active
  <2>9. RoutineEndsLast'
    BY <1>3, <1>4, <2>2, <2>6 DEF IInv, RoutineEndsLast, Unattended
  <2>10. \A x \in cut' : \A e \in Tree(x)' : Doomed(e)'
    <3> SUFFICES ASSUME NEW x \in cut, NEW e \in Tree(x)' PROVE Doomed(e)'
      BY <1>4
    <3>1. x \in Child /\ (d \in Tree(x) => d \in Trees(revived))
      BY <1>3, NotCut
    <3>2. \A y \in Child : Tree(y)' = Tree(y)
      BY <2>6, TreeSame, SessionFacts
    <3>3. Trees(revived)' = Trees(revived)
      BY <1>4, <3>2 DEF Trees, IInv, TypeOK
    <3>4. CASE e \in Trees(revived)
      BY <3>3, <3>4 DEF Doomed
    <3>5. CASE e \notin Trees(revived)
      <4>1. e \in Child /\ e # d /\ Stopped(e)
        BY <3>1, <3>2, <3>5 DEF Tree, IInv, Cuts, Doomed
      <4> QED
        BY <1>4, <2>1, <2>2, <2>6, <4>1 DEF Doomed, Stopped, Resumable
    <3> QED
      BY <3>4, <3>5
  <2> QED
    BY <1>1, <1>4, <1>5, <2>1, <2>4, <2>5, <2>7, <2>8, <2>9, <2>10, HandStep
<1>8. CASE ~ SameTurn(c)
  <2> DEFINE back == [row[d] EXCEPT !.st = "interrupted", !.tries = @ - 1]
  <2>1. /\ run' = run
        /\ row' = [e \in Child |-> IF e \in call[c].of
                     THEN [row[e] EXCEPT !.st = "interrupted", !.tries = @ - 1]
                     ELSE row[e]]
    BY <1>8 DEF LaunchResume
  <2>2. row'[d] = back /\ \A e \in Child : e # d => row'[e] = row[e]
    BY <1>2, <2>1
  <2>3. /\ back \in Rows /\ back.st = "interrupted" /\ back # NoRow
        /\ back.up = row[d].up /\ back.depth = row[d].depth /\ ~ back.unattended
    <3>1. row[d].tries - 1 \in 0 .. MaxAttempts
      BY <1>3, DelegationConstants DEF Rows
    <3> QED
      BY <1>3, <3>1 DEF Rows, Over, NoRow
  <2> HIDE DEF back
  <2>4. TypeOK'
    <3>1. \A e \in Child : row'[e] \in Rows
      BY <2>2, <2>3, CounterType
    <3>2. row' \in [Child -> Rows]
      BY <2>1, <3>1
    <3> QED
      BY <1>4, <1>5, <2>1, <3>2 DEF IInv, TypeOK
  <2>5. Steps'
    <3>1. StepOf(d)'
      BY <1>3, <1>4, <2>1, <2>2, <2>3 DEF StepOf
    <3>2. \A e \in Child : e # d => StepOf(e)'
      BY <1>4, <2>1, <2>2, StepKept, SessionFacts
    <3> QED
      BY <1>4, <2>1, <3>1, <3>2 DEF IInv, Steps
  <2>6. Active' = Active \ {d} /\ Unattended' = Unattended
        /\ \A s \in Child : KidsOf(s)' = KidsOf(s)
    BY <1>3, <2>2, <2>3 DEF Active, Unattended, KidsOf
  <2>7. WithinLimits'
    BY <2>2, <2>6, FewerActive DEF IInv, Active
  <2>8. NoSlotIsLeaked'
    BY <1>6, <2>1, <2>6 DEF NoSlotIsLeaked
  <2>9. RoutineEndsLast'
    BY <1>4, <2>1, <2>6 DEF IInv, RoutineEndsLast
  <2>10. \A x \in cut' : \A e \in Tree(x)' : Doomed(e)'
    <3> SUFFICES ASSUME NEW x \in cut, NEW e \in Tree(x)' PROVE Doomed(e)'
      BY <1>4
    <3>1. x \in Child /\ (d \in Tree(x) => d \in Trees(revived))
      BY <1>3, NotCut
    <3>2. \A y \in Child : Tree(y)' = Tree(y)
      BY <2>6, TreeSame
    <3>3. Trees(revived)' = Trees(revived)
      BY <1>4, <3>2 DEF Trees, IInv, TypeOK
    <3>4. CASE e \in Trees(revived)
      BY <3>3, <3>4 DEF Doomed
    <3>5. CASE e \notin Trees(revived)
      <4>1. e \in Child /\ e # d /\ Stopped(e)
        BY <3>1, <3>2, <3>5 DEF Tree, IInv, Cuts, Doomed
      <4> QED
        BY <1>4, <2>1, <2>2, <2>6, <4>1 DEF Doomed, Stopped, Resumable
    <3> QED
      BY <3>4, <3>5
  <2>11. \A e \in Child : row'[e].up = row[e].up /\ row'[e].depth = row[e].depth
    BY <2>2, <2>3
  <2> QED
    BY <1>1, <1>4, <1>5, <2>4, <2>5, <2>7, <2>8, <2>9, <2>10, <2>11, HandStep
<1> QED
  BY <1>7, <1>8

LEMMA VisitInv ==
    ASSUME IInv, NEW c \in Call, NEW d \in Child, Visit(c, d)
    PROVE  IInv'
<1> DEFINE r == [call[c] EXCEPT !.todo = (@ \ {d}) \cup KidsOf(d)]
           live == d \in Active /\ d \notin stopping
           hit == live /\ run[d].ph # "off"
           away == Resumable(d) \/ (live /\ run[d].ph = "off")
<1>1. /\ call[c].pc = "sweep" /\ d \in call[c].todo /\ ShapeOf(c) /\ Held(c)
      /\ call[c] \in Requests /\ CutsOf(c)
      /\ row[d] \in Rows /\ run[d] \in Runs /\ StepOf(d)
  BY CounterType DEF Visit, IInv, Shape, Held, Cuts
<1>2. \A e \in Active : run[e].ph \in {"start", "query", "ended"}
  <2> SUFFICES ASSUME NEW k \in Call, call[k].pc \in {"stored", "claimed"} PROVE FALSE
    BY DEF IInv, NoSlotIsLeaked
  <2>1. Held(k)
    BY DEF Held
  <2> QED
    BY <1>1, <2>1 DEF IInv, Shape
<1>3. (away <=> Resumable(d)) /\ (hit <=> live)
  BY <1>2
<1>4. /\ r \in Requests /\ r.op = call[c].op /\ r.pc = "sweep"
      /\ r.of = call[c].of /\ r.todo = (call[c].todo \ {d}) \cup KidsOf(d)
      /\ r.by = call[c].by
  BY <1>1 DEF Requests, KidsOf
<1>5. /\ call' = [call EXCEPT ![c] = r]
      /\ row' = [row EXCEPT ![d].st = IF away THEN "cancelled" ELSE @]
      /\ stopping' = IF hit THEN stopping \cup {d} ELSE stopping
      /\ run' = [run EXCEPT ![d].stop = @ \/ hit]
      /\ UNCHANGED <<filed, turn, routine, used, cut, revived>>
  BY DEF Visit
<1> HIDE DEF r, away, hit
<1>6. /\ row \in [Child -> Rows] /\ run \in [Child -> Runs] /\ call \in [Call -> Requests]
  BY DEF IInv, TypeOK
<1>7. call'[c] = r
  BY <1>5, <1>6
<1>8. /\ Resumable(d) => row'[d] = [row[d] EXCEPT !.st = "cancelled"]
      /\ ~ Resumable(d) => row'[d] = row[d]
      /\ \A e \in Child : e # d => row'[e] = row[e]
  <2>1. \A e \in Child : e # d => row'[e] = row[e]
    BY <1>5, <1>6
  <2>2. row'[d] = [row[d] EXCEPT !.st = IF away THEN "cancelled" ELSE @]
    BY <1>5, <1>6
  <2>3. CASE Resumable(d)
    BY <1>3, <2>1, <2>2, <2>3
  <2>4. CASE ~ Resumable(d)
    <3>1. row'[d] = [row[d] EXCEPT !.st = row[d].st]
      BY <1>3, <2>2, <2>4
    <3>2. row'[d] = row[d]
      BY <1>1, <3>1 DEF Rows
    <3> QED
      BY <2>1, <2>4, <3>2
  <2> QED
    BY <2>3, <2>4
<1>9. /\ row'[d] \in Rows /\ row'[d].up = row[d].up /\ row'[d].depth = row[d].depth
      /\ row'[d].unattended = row[d].unattended
      /\ row'[d].st = IF Resumable(d) THEN "cancelled" ELSE row[d].st
  BY <1>1, <1>8 DEF Rows, Over
<1>10. /\ run'[d] = [run[d] EXCEPT !.stop = @ \/ hit]
       /\ \A e \in Child : e # d => run'[e] = run[e]
  BY <1>5, <1>6
<1>11. /\ run'[d] \in Runs /\ run'[d].ph = run[d].ph /\ run'[d].won = run[d].won
       /\ run'[d].stop = (run[d].stop \/ hit)
  <2>1. (run[d].stop \/ hit) \in BOOLEAN
    OBVIOUS
  <2> QED
    BY <1>1, <1>10, <2>1 DEF Runs
<1>12. TypeOK'
  <2>1. row' \in [Child -> Rows]
    BY <1>5, <1>6, <1>9
  <2>2. run' \in [Child -> Runs]
    BY <1>5, <1>6, <1>10, <1>11
  <2>3. call' \in [Call -> Requests]
    BY <1>4, <1>5, <1>6
  <2>4. stopping' \subseteq Child
    BY <1>5 DEF IInv, TypeOK
  <2> QED
    BY <1>5, <2>1, <2>2, <2>3, <2>4 DEF IInv, TypeOK
<1>13. Active' = Active
  BY <1>8, <1>9 DEF Active, Resumable
<1>14. Unattended' = Unattended /\ \A s \in Session : KidsOf(s)' = KidsOf(s)
  BY <1>8, <1>9 DEF Unattended, KidsOf
<1>15. Steps'
  <2>1. StepOf(d)'
    <3>1. hit => run[d].ph # "off"
      BY <1>2, <1>3
    <3>2. run[d].ph = "off" => run'[d] = run[d]
      BY <1>1, <1>11, <3>1, <1>10 DEF Runs
    <3>3. Resumable(d) => /\ row[d].st = "interrupted" /\ run[d].ph = "off"
                          /\ filed[d] # "none"
      BY <1>1 DEF Resumable, StepOf, Runs
    <3>4. CASE Resumable(d)
      <4>1. row'[d] # NoRow
        BY <1>9, <3>4 DEF NoRow
      <4> QED
        BY <1>1, <1>5, <1>9, <3>2, <3>3, <3>4, <4>1 DEF StepOf
    <3>5. CASE ~ Resumable(d)
      BY <1>1, <1>5, <1>8, <1>11, <3>2, <3>5 DEF StepOf
    <3> QED
      BY <3>4, <3>5
  <2>2. \A e \in Child : e # d => StepOf(e)'
    BY <1>5, <1>8, <1>10, StepKept, SessionFacts
  <2>3. stopping' = {e \in Child : run'[e].stop}
    <3>1. stopping = {e \in Child : run[e].stop}
      BY DEF IInv, Steps
    <3>2. CASE hit
      BY <1>5, <1>10, <1>11, <3>1, <3>2
    <3>3. CASE ~ hit
      BY <1>5, <1>10, <1>11, <3>1, <3>3
    <3> QED
      BY <3>2, <3>3
  <2> QED
    BY <1>5, <2>1, <2>2, <2>3 DEF IInv, Steps
<1>16. WithinLimits'
  BY <1>13, <1>14 DEF IInv, WithinLimits
<1>17. NoSlotIsLeaked' /\ RoutineEndsLast'
  <2>1. \A e \in Child : run'[e].ph = run[e].ph
    BY <1>10, <1>11
  <2>2. NoSlotIsLeaked'
    BY <1>2, <1>13, <2>1 DEF NoSlotIsLeaked, Active
  <2>3. RoutineEndsLast'
    BY <1>5, <1>14, <2>1 DEF IInv, RoutineEndsLast, Unattended
  <2> QED
    BY <2>2, <2>3
<1>18. \A e \in Child : Tree(e)' = Tree(e)
  BY <1>14, TreeSame, SessionFacts
<1>19. Stopped(d)'
  <2>1. ~ Resumable(d)'
    BY <1>8, <1>9, <1>5 DEF Resumable
  <2>2. ASSUME d \in Active PROVE run'[d].stop
    <3>1. CASE d \in stopping
      BY <1>11, <3>1 DEF IInv, Steps
    <3>2. CASE d \notin stopping
      BY <1>3, <1>11, <2>2, <3>2
    <3> QED
      BY <3>1, <3>2
  <2> QED
    BY <1>13, <2>1, <2>2 DEF Stopped
<1>20. \A e \in Child : /\ Stopped(e) => Stopped(e)'
                        /\ Passed(e) => Passed(e)'
  <2> SUFFICES ASSUME NEW e \in Child, e # d
               PROVE  /\ Stopped(e) => Stopped(e)'
                      /\ Passed(e) => Passed(e)'
    BY <1>19 DEF Passed
  <2> QED
    BY <1>5, <1>8, <1>10, <1>13 DEF Passed, Stopped, Resumable
<1>26. Trees(revived)' = Trees(revived)
  BY <1>5, <1>18 DEF Trees, IInv, TypeOK
<1>21. \A x \in cut' : \A e \in Tree(x)' : Doomed(e)'
  <2>1. \A x \in cut : x \in Child /\ Tree(x) \subseteq Child
    BY DEF IInv, TypeOK, Tree
  <2> QED
    BY <1>5, <1>18, <1>20, <1>26, <2>1 DEF IInv, Cuts, Doomed
<1>22. CutsOf(c)'
  <2>1. SUFFICES ASSUME NEW x \in call[c].of, NEW e \in Tree(x), ~ Passed(e)'
                 PROVE  \E y \in r.todo : e \in Tree(y)
    <3>1. call[c].of \subseteq Child /\ r.todo \subseteq Child
      BY <1>1, <1>4 DEF Requests
    <3> QED
      BY <1>4, <1>7, <1>18, <2>1, <3>1 DEF CutsOf
  <2>2. x \in Child /\ e \in Child /\ ~ Passed(e)
    BY <1>1, <1>20, <2>1 DEF Requests, Tree
  <2>3. PICK y \in call[c].todo : e \in Tree(y)
    BY <1>1, <2>1, <2>2 DEF CutsOf
  <2>4. CASE y # d
    BY <1>4, <2>3, <2>4
  <2>5. CASE y = d
    <3>1. e # d
      BY <1>19, <2>1 DEF Passed
    <3>2. PICK k \in KidsOf(d) : e \in Tree(k)
      BY <2>3, <2>5, <3>1, TreeSplit
    <3> QED
      BY <1>4, <3>2
  <2> QED
    BY <2>4, <2>5
<1>23. ShapeOf(c)'
  BY <1>1, <1>4, <1>7 DEF ShapeOf
<1>24. \A e \in r.of : InHandOf(c, e)'
  BY <1>1, <1>4, <1>5, <1>7 DEF InHandOf, IInv, InHand, ShapeOf
<1>25. \A e \in Child : filed[e] # "none" =>
          /\ filed'[e] # "none"
          /\ row'[e].up = row[e].up /\ row'[e].depth = row[e].depth
  BY <1>5, <1>8, <1>9
<1> QED
  BY <1>1, <1>4, <1>5, <1>12, <1>15, <1>16, <1>17, <1>21, <1>22, <1>23, <1>24, <1>25,
     HandStep

LEMMA SweptInv ==
    ASSUME IInv, NEW c \in Call, Swept(c)
    PROVE  IInv'
<1>1. /\ call[c].pc = "sweep" /\ call[c].todo = {} /\ Held(c)
      /\ call[c].of \subseteq Child /\ CutsOf(c)
      /\ \A d \in call[c].of : filed[d] # "none"
  BY CounterType DEF Swept, IInv, Held, Cuts, Requests, InHand, InHandOf
<1>2. /\ call' = [call EXCEPT ![c] = NoCall] /\ call'[c] = NoCall
      /\ \A k \in Call : k # c => call'[k] = call[k]
      /\ cut' = cut \cup call[c].of
      /\ revived' = {d \in revived : Resumable(d) \/ d \notin Trees(call[c].of)}
      /\ UNCHANGED <<row, filed, run, stopping, turn, routine, used>>
  BY DEF Swept, IInv, TypeOK
<1>3. /\ NoCall \in Requests /\ NoCall.of = {}
      /\ ShapeOf(c)' /\ CutsOf(c)'
  BY <1>2, IdleCall DEF NoCall
<1>4. TypeOK'
  BY <1>1, <1>2, <1>3 DEF IInv, TypeOK
<1>5. Steps'
  <2>1. \A d \in Child : StepOf(d)'
    BY <1>2, StepKept, SessionFacts
  <2> QED
    BY <1>1, <1>2, <2>1 DEF IInv, Steps
<1>6. Active' = Active /\ Unattended' = Unattended
      /\ \A s \in Session : KidsOf(s)' = KidsOf(s)
  BY <1>2 DEF Active, Unattended, KidsOf
<1>7. WithinLimits' /\ RoutineEndsLast'
  BY <1>2, <1>6 DEF IInv, WithinLimits, RoutineEndsLast
<1>8. NoSlotIsLeaked'
  BY <1>1, <1>2, <1>6 DEF IInv, NoSlotIsLeaked
<1>9. \A d \in Child : Tree(d)' = Tree(d)
  BY <1>6, TreeSame, SessionFacts
<1>10. revived \subseteq Child /\ \A d \in Child : Stopped(d)' <=> Stopped(d)
  BY <1>2, <1>6 DEF Stopped, Resumable, IInv, TypeOK
<1>11. ASSUME NEW o \in call[c].of, NEW e \in Tree(o) PROVE Doomed(e)'
  <2>1. Passed(e) /\ e \in Child
    BY <1>1 DEF CutsOf, Tree
  <2>2. CASE Stopped(e)
    BY <1>10, <2>1, <2>2 DEF Doomed
  <2>3. CASE Resumable(e) /\ e \in revived
    <3>1. e \in revived' /\ e \in Tree(e)'
      BY <1>2, <1>9, <2>1, <2>3, TreeRoot
    <3> QED
      BY <3>1 DEF Doomed, Trees
  <2> QED
    BY <2>1, <2>2, <2>3 DEF Passed
<1>12. ASSUME NEW e \in Trees(revived), ~ Doomed(e)' PROVE FALSE
  <2>1. PICK y \in revived : e \in Tree(y)
    BY DEF Trees
  <2>2. y \in revived' => e \in Trees(revived)'
    BY <1>9, <1>10, <2>1 DEF Trees
  <2>3. y \notin revived'
    BY <1>12, <2>2 DEF Doomed
  <2>4. PICK o \in call[c].of : y \in Tree(o)
    BY <1>2, <2>1, <2>3 DEF Trees
  <2>5. e \in Tree(o)
    BY <1>1, <2>1, <2>4, TreeInTree
  <2> QED
    BY <1>11, <1>12, <2>5
<1>13. \A x \in cut' : \A e \in Tree(x)' : Doomed(e)'
  <2> SUFFICES ASSUME NEW x \in cut', NEW e \in Tree(x)' PROVE Doomed(e)'
    OBVIOUS
  <2>1. x \in Child /\ Tree(x)' = Tree(x) /\ e \in Child
    BY <1>1, <1>2, <1>9 DEF IInv, TypeOK, Tree
  <2>2. CASE x \in call[c].of
    BY <1>11, <2>1, <2>2
  <2>3. CASE x \in cut
    <3>1. Doomed(e)
      BY <2>1, <2>3 DEF IInv, Cuts
    <3> QED
      BY <1>10, <1>12, <2>1, <3>1 DEF Doomed
  <2> QED
    BY <1>2, <2>2, <2>3
<1> QED
  BY <1>1, <1>2, <1>3, <1>4, <1>5, <1>7, <1>8, <1>13, HandStep

LEMMA CrashInv ==
    ASSUME IInv, Crash
    PROVE  IInv'
<1>1. /\ \A d \in Child : row'[d] = IF filed[d] = "none" THEN NoRow
                           ELSE IF d \in Active THEN [row[d] EXCEPT !.st = "interrupted"]
                           ELSE row[d]
      /\ row' = [d \in Child |-> row'[d]]
      /\ run' = [d \in Child |-> NoRun] /\ stopping' = {}
      /\ turn' = [s \in Session |-> 0] /\ call' = [c \in Call |-> NoCall]
      /\ routine' = IF routine = "none" THEN "none" ELSE "over"
      /\ cut' = {} /\ revived' = {} /\ filed' = filed
  BY DEF Crash
<1>2. /\ NoRow \in Rows /\ NoRow.st = "none" /\ NoRow.up = "none"
      /\ NoRun \in Runs /\ NoRun.ph = "off" /\ ~ NoRun.stop
      /\ NoCall \in Requests /\ NoCall.pc = "idle" /\ NoCall.op = "none"
      /\ NoCall.of = {} /\ 0 \in Turns
  BY DelegationConstants, IdleCall DEF NoRow, Rows, NoRun, Runs, NoCall, Requests
<1>3. \A d \in Child : /\ row'[d] \in Rows
                       /\ row'[d].st \notin {"pending", "running"}
                       /\ filed[d] # "none" => /\ row'[d].up = row[d].up
                                               /\ row'[d].st # "none"
                                               /\ row'[d] # NoRow
  <2> SUFFICES ASSUME NEW d \in Child
               PROVE  /\ row'[d] \in Rows
                      /\ row'[d].st \notin {"pending", "running"}
                      /\ filed[d] # "none" => /\ row'[d].up = row[d].up
                                              /\ row'[d].st # "none"
                                              /\ row'[d] # NoRow
    OBVIOUS
  <2>1. row[d] \in Rows /\ StepOf(d)
    BY CounterType
  <2>2. CASE filed[d] = "none"
    BY <1>1, <1>2, <2>2
  <2>3. CASE filed[d] # "none" /\ d \in Active
    <3>1. row'[d] = [row[d] EXCEPT !.st = "interrupted"]
      BY <1>1, <2>3
    <3> QED
      BY <2>1, <3>1 DEF Rows, Over, NoRow
  <2>4. CASE filed[d] # "none" /\ d \notin Active
    BY <1>1, <2>1, <2>4 DEF StepOf, Active
  <2> QED
    BY <2>2, <2>3, <2>4
<1>4. used' \in [turns : 0 .. MaxTurns, cancels : 0 .. MaxCancels,
                 acts : 0 .. MaxActs, crashes : 0 .. MaxCrashes]
  BY CounterType, DelegationConstants DEF Crash
<1>5. TypeOK'
  <2>1. row' \in [Child -> Rows]
    BY <1>1, <1>3
  <2>2. routine' \in {"none", "turn", "children", "over"}
    BY <1>1
  <2> QED
    BY <1>1, <1>2, <1>4, <2>1, <2>2 DEF IInv, TypeOK
<1>6. Shape' /\ InHand' /\ Cuts'
  <2>1. \A c \in Call : call'[c] = NoCall
    BY <1>1
  <2>2. \A c \in Call : ShapeOf(c)' /\ CutsOf(c)' /\ ~ Held(c)'
    BY <1>2, <2>1, IdleCall DEF Held
  <2> QED
    BY <1>1, <1>2, <2>1, <2>2 DEF Shape, InHand, Cuts
<1>7. Steps'
  <2>1. ASSUME NEW d \in Child PROVE StepOf(d)'
    <3>1. /\ run'[d] = NoRun /\ turn'[d] = 0 /\ filed'[d] = filed[d] /\ StepOf(d)
      BY <1>1, CounterType, SessionFacts
    <3>2. CASE filed[d] = "none"
      <4>1. row'[d] = NoRow
        BY <1>1, <3>2
      <4> QED
        BY <1>2, <3>1, <3>2, <4>1, SessionFacts DEF StepOf
    <3>3. CASE filed[d] # "none"
      <4>1. /\ row'[d].up = row[d].up /\ row'[d].st # "none" /\ row'[d] # NoRow
            /\ row'[d].st \notin {"pending", "running"}
        BY <1>3, <3>3
      <4>2. row[d].st # "none"
        BY <3>1, <3>3 DEF StepOf
      <4> QED
        BY <1>1, <1>2, <3>1, <3>3, <4>1, <4>2 DEF StepOf
    <3> QED
      BY <3>2, <3>3
  <2>2. "routine" \in Roots => turn'["routine"] = 0
    BY <1>1, SessionFacts
  <2>3. stopping' = {d \in Child : run'[d].stop}
    BY <1>1, <1>2
  <2> QED
    BY <1>1, <2>1, <2>2, <2>3 DEF Steps
<1>8. Active' = {}
  BY <1>3 DEF Active
<1>9. WithinLimits'
  <2>1. \A s \in Session : (Active \cap KidsOf(s))' = {}
    BY <1>8
  <2> QED
    BY <1>8, <2>1, FS_EmptySet, DelegationConstants DEF WithinLimits
<1>10. NoSlotIsLeaked' /\ RoutineEndsLast'
  BY <1>1, <1>2, <1>8 DEF NoSlotIsLeaked, RoutineEndsLast, Unattended
<1> QED
  BY <1>5, <1>6, <1>7, <1>9, <1>10 DEF IInv

LEMMA StutterInv ==
    ASSUME IInv, UNCHANGED vars
    PROVE  IInv'
<1>1. TypeOK' /\ RoutineEndsLast'
  BY DEF vars, IInv, TypeOK, RoutineEndsLast, Unattended
<1> QED
  BY <1>1, RootStep DEF vars, IInv, Steps

LEMMA NextInv == IInv /\ [Next]_vars => IInv'
<1> SUFFICES ASSUME IInv, [Next]_vars PROVE IInv'
  OBVIOUS
<1>1. ASSUME NEW c \in Call,
             Admit(c) \/ AdmitResume(c) \/ Serve(c) \/ Sweep(c)
      PROVE  IInv'
  BY <1>1, AdmitInv, AdmitResumeInv, SweepInv, StoreInv, LaunchInv, ClaimInv,
     LaunchResumeInv, RefuseInv, SweptInv, VisitInv DEF Serve
<1>2. ASSUME NEW c \in Call, NEW s \in Session,
             Delegate(c, s) \/ ActionRequired(c, s)
      PROVE  IInv'
  BY <1>2, DelegateInv, ActionRequiredInv
<1>3. ASSUME NEW c \in Call, NEW d \in Child, Resume(c, d) \/ Cancel(c, d)
      PROVE  IInv'
  BY <1>3, ResumeInv, CancelInv
<1>4. ASSUME NEW d \in Child, Attempt(d) \/ QueryEnds(d) \/ Archive(d) \/ Unarchive(d)
      PROVE  IInv'
  BY <1>4, MarkInv, FinishInv, RetireInv, QueryEndsInv, ArchiveInv, UnarchiveInv
     DEF Attempt
<1>5. CASE TurnStarts \/ TurnEnds \/ RoutineStarts \/ RoutineTurnEnds \/ RoutineEnds
  BY <1>5, RootTurnsInv, RoutineStartsInv, RoutineEndsInv
<1>6. CASE Crash
  BY <1>6, CrashInv
<1>7. CASE UNCHANGED vars
  BY <1>7, StutterInv
<1> QED
  BY <1>1, <1>2, <1>3, <1>4, <1>5, <1>6, <1>7 DEF Next

-----------------------------------------------------------------------------
(* The inductive invariant holds in every reachable state. *)
THEOREM InvAlways == Spec => []IInv
BY InitInv, NextInv, PTL DEF Spec

(* Rows, attempts, turns and calls keep their types: the attempts of a     *)
(* delegation never exceed their bound, nor the nesting its depth.         *)
THEOREM TypeCorrect == Spec => []TypeOK
<1>1. IInv => TypeOK
  BY DEF IInv
<1> QED
  BY <1>1, InvAlways, PTL

(* The caps of assertActiveCapacity hold over any number of calls, turns   *)
(* and restarts, though they are checked before the provider is awaited.   *)
THEOREM WithinLimitsAlways == Spec => []WithinLimits
<1>1. IInv => WithinLimits
  BY DEF IInv
<1> QED
  BY <1>1, InvAlways, PTL

(* A pending or running row always has an attempt or a call to end it.     *)
THEOREM NoSlotIsLeakedAlways == Spec => []NoSlotIsLeaked
<1>1. IInv => NoSlotIsLeaked
  BY DEF IInv
<1> QED
  BY <1>1, InvAlways, PTL

(* A child whose provider turn runs still counts as active, cancelled or   *)
(* not.                                                                    *)
THEOREM SlotOutlivesTurnAlways == Spec => []SlotOutlivesTurn
<1>1. IInv => SlotOutlivesTurn
  BY CounterType DEF StepOf, SlotOutlivesTurn
<1> QED
  BY <1>1, InvAlways, PTL

(* A Routine run that is over has no child at work, nor gets one later.    *)
THEOREM RoutineEndsLastAlways == Spec => []RoutineEndsLast
<1>1. IInv => RoutineEndsLast
  BY DEF IInv
<1> QED
  BY <1>1, InvAlways, PTL

(* What a cancel has returned for stays stopped: nothing joins the tree    *)
(* and nothing in it is continued, except below a delegation that was      *)
(* archived when the cancel came by and that the user un-archived.         *)
THEOREM CancelReachesTreeAlways == Spec => []CancelReachesTree
<1>1. IInv => CancelReachesTree
  BY DEF IInv, Cuts, Doomed, Stopped, CancelReachesTree
<1> QED
  BY <1>1, InvAlways, PTL
=============================================================================
