------------------------ MODULE SessionTurnsProofs ------------------------
(***************************************************************************)
(* Proofs about SessionTurns, for any requests, turn ids and number of     *)
(* restarts: the inductive invariant Inv, and with it the type invariant   *)
(* and SentOnce; the order of the queued rows; and MoreInv, which says     *)
(* what is stored of a prompt and what is left of one that is over.        *)
(***************************************************************************)
EXTENDS SessionTurns, FiniteSetTheorems, TLAPS
LOCAL ST == INSTANCE SequenceTheorems

-----------------------------------------------------------------------------
(* Facts about sequences used as queues without duplicates: what the       *)
(* operations of SessionTurnQueue (server/sessionTurnQueue.ts) do to the   *)
(* order, the elements and the absence of duplicates of a queue.           *)

\* The elements of a queue of S are in S.
LEMMA QueueElements ==
    ASSUME NEW S, NEW q \in Seq(S)
    PROVE  /\ ToSet(q) \subseteq S
           /\ q = <<>> <=> ToSet(q) = {}
           /\ Len(q) \in Nat /\ DOMAIN q = 1..Len(q)
<1>1. Len(q) \in Nat /\ DOMAIN q = 1..Len(q) /\ \A i \in 1..Len(q) : q[i] \in S
    OBVIOUS
<1>2. ToSet(q) \subseteq S
    BY <1>1 DEF ToSet
<1>3. q = <<>> => ToSet(q) = {}
    BY DEF ToSet
<1>4. ASSUME q # <<>> PROVE ToSet(q) # {}
    <2>1. 1 \in DOMAIN q
        BY <1>1, <1>4
    <2> QED BY <2>1 DEF ToSet
<1> QED BY <1>1, <1>2, <1>3, <1>4

\* shift(): the head leaves, the rest stays without duplicates.
LEMMA ShiftQueue ==
    ASSUME NEW S, NEW q \in Seq(S), q # <<>>, IsInjective(q)
    PROVE  /\ Head(q) \in ToSet(q)
           /\ Tail(q) \in Seq(S)
           /\ IsInjective(Tail(q))
           /\ ToSet(Tail(q)) = ToSet(q) \ {Head(q)}
<1>1. /\ Len(q) \in Nat /\ Len(q) > 0 /\ DOMAIN q = 1..Len(q)
      /\ Head(q) = q[1]
      /\ Tail(q) \in Seq(S) /\ Len(Tail(q)) = Len(q) - 1
      /\ DOMAIN Tail(q) = 1..(Len(q) - 1)
      /\ \A i \in 1..(Len(q) - 1) : Tail(q)[i] = q[i + 1]
    OBVIOUS
<1>2. IsInjective(Tail(q))
    BY <1>1 DEF IsInjective
<1>3. ASSUME NEW x \in ToSet(q) \ {Head(q)} PROVE x \in ToSet(Tail(q))
    <2>1. PICK i \in 1..Len(q) : x = q[i]
        BY <1>1 DEF ToSet
    <2>2. i - 1 \in 1..(Len(q) - 1) /\ (i - 1) + 1 = i
        BY <1>1, <1>3, <2>1
    <2>3. Tail(q)[i - 1] = x
        BY <1>1, <2>1, <2>2
    <2> QED BY <1>1, <2>2, <2>3 DEF ToSet
<1>4. ASSUME NEW x \in ToSet(Tail(q)) PROVE x \in ToSet(q) \ {Head(q)}
    <2>1. PICK i \in 1..(Len(q) - 1) : x = Tail(q)[i]
        BY <1>1 DEF ToSet
    <2>2. x = q[i + 1] /\ i + 1 \in DOMAIN q /\ i + 1 # 1 /\ 1 \in DOMAIN q
        BY <1>1, <2>1
    <2> QED BY <1>1, <2>2 DEF ToSet, IsInjective
<1>5. Head(q) \in ToSet(q)
    BY <1>1 DEF ToSet
<1> QED BY <1>1, <1>2, <1>3, <1>4, <1>5

\* push(): a new element at the end.
LEMMA PushQueue ==
    ASSUME NEW S, NEW q \in Seq(S), NEW e \in S, IsInjective(q), e \notin ToSet(q)
    PROVE  /\ Append(q, e) \in Seq(S)
           /\ Append(q, e) # <<>>
           /\ IsInjective(Append(q, e))
           /\ ToSet(Append(q, e)) = ToSet(q) \cup {e}
<1> DEFINE p == Append(q, e)
<1>1. /\ Len(q) \in Nat /\ DOMAIN q = 1..Len(q)
      /\ p \in Seq(S) /\ Len(p) = Len(q) + 1 /\ DOMAIN p = 1..(Len(q) + 1)
      /\ \A i \in 1..Len(q) : p[i] = q[i]
      /\ p[Len(q) + 1] = e
    OBVIOUS
<1>2. IsInjective(p)
    BY <1>1 DEF IsInjective, ToSet
<1>3. ToSet(p) = ToSet(q) \cup {e}
    BY <1>1 DEF ToSet
<1>4. p # <<>>
    BY <1>1
<1> QED BY <1>1, <1>2, <1>3, <1>4

\* extract(): the element at i leaves, the others keep their order.
LEMMA ExtractFromQueue ==
    ASSUME NEW S, NEW q \in Seq(S), NEW i \in DOMAIN q, IsInjective(q)
    PROVE  /\ RemoveAt(q, i) \in Seq(S)
           /\ IsInjective(RemoveAt(q, i))
           /\ ToSet(RemoveAt(q, i)) = ToSet(q) \ {q[i]}
           /\ q[i] \in ToSet(q) /\ q[i] \in S
<1> DEFINE p == RemoveAt(q, i)
<1>1. Len(q) \in Nat /\ DOMAIN q = 1..Len(q) /\ i \in 1..Len(q)
    OBVIOUS
<1>2. /\ p \in Seq(S) /\ Len(p) = Len(q) - 1 /\ DOMAIN p = 1..(Len(q) - 1)
      /\ \A j \in 1..(Len(q) - 1) : p[j] = IF j < i THEN q[j] ELSE q[j + 1]
    <2> DEFINE a == SubSeq(q, 1, i - 1)  b == SubSeq(q, i + 1, Len(q))
    <2>1. /\ a \in Seq(S) /\ Len(a) = i - 1
          /\ \A j \in 1..(i - 1) : a[j] = q[j]
        BY <1>1
    <2>2. /\ b \in Seq(S) /\ Len(b) = Len(q) - i
          /\ \A j \in 1..(Len(q) - i) : b[j] = q[j + i]
        BY <1>1
    <2>3. p = a \o b
        BY DEF RemoveAt
    <2> HIDE DEF a, b, p
    <2>4. /\ p \in Seq(S) /\ Len(p) = Len(a) + Len(b)
          /\ \A j \in 1..(Len(a) + Len(b)) : p[j] = IF j <= Len(a) THEN a[j] ELSE b[j - Len(a)]
        BY <2>1, <2>2, <2>3, ST!ConcatProperties
    <2>5. Len(p) = Len(q) - 1
        BY <1>1, <2>1, <2>2, <2>4
    <2>6. ASSUME NEW j \in 1..(Len(q) - 1)
          PROVE  p[j] = IF j < i THEN q[j] ELSE q[j + 1]
        <3>1. CASE j < i
            BY <1>1, <2>1, <2>2, <2>4, <3>1
        <3>2. CASE j >= i
            <4>1. p[j] = b[j - (i - 1)]
                BY <1>1, <2>1, <2>2, <2>4, <3>2
            <4>2. j - (i - 1) \in 1..(Len(q) - i) /\ (j - (i - 1)) + i = j + 1
                BY <1>1, <3>2
            <4> QED BY <1>1, <2>2, <4>1, <4>2, <3>2
        <3> QED BY <1>1, <3>1, <3>2
    <2>7. DOMAIN p = 1..Len(p)
        BY <2>4
    <2> QED BY <2>4, <2>5, <2>6, <2>7
<1> HIDE DEF p
<1>3. IsInjective(p)
    <2> SUFFICES ASSUME NEW j \in 1..(Len(q) - 1), NEW k \in 1..(Len(q) - 1), p[j] = p[k]
                 PROVE  j = k
        BY <1>2 DEF IsInjective
    <2>1. \A m, n \in 1..Len(q) : q[m] = q[n] => m = n
        BY <1>1 DEF IsInjective
    <2>2. \A m \in 1..(Len(q) - 1) :
            /\ m < i => m \in 1..Len(q) /\ p[m] = q[m]
            /\ m >= i => m + 1 \in 1..Len(q) /\ p[m] = q[m + 1]
        BY <1>1, <1>2
    <2> QED BY <1>1, <2>1, <2>2
<1>4. ASSUME NEW x \in ToSet(q) \ {q[i]} PROVE x \in ToSet(p)
    <2>1. PICK j \in 1..Len(q) : x = q[j]
        BY <1>1 DEF ToSet
    <2>2. CASE j < i
        BY <1>1, <1>2, <2>1, <2>2 DEF ToSet
    <2>3. CASE j > i
        <3>1. j - 1 \in 1..(Len(q) - 1) /\ (j - 1) + 1 = j /\ ~(j - 1 < i)
            BY <1>1, <2>3
        <3>2. p[j - 1] = x
            BY <1>2, <2>1, <3>1
        <3> QED BY <1>2, <3>1, <3>2 DEF ToSet
    <2> QED BY <1>1, <1>4, <2>1, <2>2, <2>3
<1>5. ASSUME NEW x \in ToSet(p) PROVE x \in ToSet(q) \ {q[i]}
    <2>1. PICK j \in 1..(Len(q) - 1) : x = p[j]
        BY <1>2 DEF ToSet
    <2>2. CASE j < i
        BY <1>1, <1>2, <2>1, <2>2 DEF ToSet, IsInjective
    <2>3. CASE ~(j < i)
        <3>1. x = q[j + 1] /\ j + 1 \in DOMAIN q /\ j + 1 # i
            BY <1>1, <1>2, <2>1, <2>3
        <3> QED BY <1>1, <3>1 DEF ToSet, IsInjective
    <2> QED BY <2>2, <2>3
<1>6. q[i] \in ToSet(q) /\ q[i] \in S
    BY <1>1 DEF ToSet
<1> QED BY <1>2, <1>3, <1>4, <1>5, <1>6 DEF p

\* restore(): an element that is not in the queue comes in at index i.
LEMMA RestoreIntoQueue ==
    ASSUME NEW S, NEW q \in Seq(S), NEW e \in S, NEW i \in 1..(Len(q) + 1),
           IsInjective(q), e \notin ToSet(q)
    PROVE  /\ InsertAt(q, i, e) \in Seq(S)
           /\ InsertAt(q, i, e) # <<>>
           /\ IsInjective(InsertAt(q, i, e))
           /\ ToSet(InsertAt(q, i, e)) = ToSet(q) \cup {e}
<1> DEFINE p == InsertAt(q, i, e)
<1>1. Len(q) \in Nat /\ DOMAIN q = 1..Len(q) /\ i \in 1..(Len(q) + 1)
    OBVIOUS
<1>2. /\ p \in Seq(S) /\ Len(p) = Len(q) + 1 /\ DOMAIN p = 1..(Len(q) + 1)
      /\ \A j \in 1..(Len(q) + 1) :
            p[j] = IF j < i THEN q[j] ELSE IF j = i THEN e ELSE q[j - 1]
    <2> DEFINE a == SubSeq(q, 1, i - 1)  b == SubSeq(q, i, Len(q))  c == a \o <<e>>
    <2>1. /\ a \in Seq(S) /\ Len(a) = i - 1
          /\ \A j \in 1..(i - 1) : a[j] = q[j]
        BY <1>1
    <2>2. /\ b \in Seq(S) /\ Len(b) = Len(q) + 1 - i
          /\ \A j \in 1..(Len(q) + 1 - i) : b[j] = q[j + i - 1]
        <3>1. \A j \in i..Len(q) : q[j] \in S
            BY <1>1
        <3>2. i \in Int /\ Len(q) \in Int /\ Len(q) - i + 1 = Len(q) + 1 - i
            BY <1>1
        <3>3. /\ SubSeq(q, i, Len(q)) \in Seq(S)
              /\ Len(SubSeq(q, i, Len(q))) = IF i <= Len(q) THEN Len(q) - i + 1 ELSE 0
              /\ \A j \in 1..(Len(q) - i + 1) : SubSeq(q, i, Len(q))[j] = q[i + j - 1]
            BY <3>1, <3>2, ST!SubSeqProperties
        <3> QED BY <1>1, <3>2, <3>3
    <2>3. p = c \o b
        BY DEF InsertAt
    <2>4. <<e>> \in Seq(S) /\ Len(<<e>>) = 1 /\ <<e>>[1] = e
        OBVIOUS
    <2> HIDE DEF a, b, p
    <2>5. /\ c \in Seq(S) /\ Len(c) = i
          /\ \A j \in 1..i : c[j] = IF j < i THEN q[j] ELSE e
        <3>1. /\ c \in Seq(S) /\ Len(c) = Len(a) + Len(<<e>>)
              /\ \A j \in 1..(Len(a) + Len(<<e>>)) :
                    c[j] = IF j <= Len(a) THEN a[j] ELSE <<e>>[j - Len(a)]
            BY <2>1, <2>4, ST!ConcatProperties
        <3> QED BY <1>1, <2>1, <2>4, <3>1
    <2> HIDE DEF c
    <2>6. /\ p \in Seq(S) /\ Len(p) = Len(c) + Len(b)
          /\ \A j \in 1..(Len(c) + Len(b)) : p[j] = IF j <= Len(c) THEN c[j] ELSE b[j - Len(c)]
        BY <2>2, <2>3, <2>5, ST!ConcatProperties
    <2>7. Len(p) = Len(q) + 1
        BY <1>1, <2>2, <2>5, <2>6
    <2>8. ASSUME NEW j \in 1..(Len(q) + 1)
          PROVE  p[j] = IF j < i THEN q[j] ELSE IF j = i THEN e ELSE q[j - 1]
        <3>1. CASE j <= i
            BY <1>1, <2>2, <2>5, <2>6, <3>1
        <3>2. CASE j > i
            <4>1. p[j] = b[j - i]
                BY <1>1, <2>2, <2>5, <2>6, <3>2
            <4>2. j - i \in 1..(Len(q) + 1 - i) /\ (j - i) + i - 1 = j - 1
                BY <1>1, <3>2
            <4> QED BY <1>1, <2>2, <4>1, <4>2, <3>2
        <3> QED BY <1>1, <3>1, <3>2
    <2>9. DOMAIN p = 1..Len(p)
        BY <2>6
    <2> QED BY <2>6, <2>7, <2>8, <2>9
<1> HIDE DEF p
<1>3. IsInjective(p)
    <2> SUFFICES ASSUME NEW j \in 1..(Len(q) + 1), NEW k \in 1..(Len(q) + 1), p[j] = p[k]
                 PROVE  j = k
        BY <1>2 DEF IsInjective
    <2>1. \A m \in 1..Len(q) : q[m] # e
        BY <1>1 DEF ToSet
    <2>2. \A m, n \in 1..Len(q) : q[m] = q[n] => m = n
        BY <1>1 DEF IsInjective
    <2>3. \A m \in 1..(Len(q) + 1) :
            /\ m < i => m \in 1..Len(q) /\ p[m] = q[m]
            /\ m = i => p[m] = e
            /\ m > i => m - 1 \in 1..Len(q) /\ p[m] = q[m - 1]
        BY <1>1, <1>2
    <2> QED BY <1>1, <2>1, <2>2, <2>3
<1>4. ASSUME NEW x \in ToSet(q) PROVE x \in ToSet(p)
    <2>1. PICK j \in 1..Len(q) : x = q[j]
        BY <1>1 DEF ToSet
    <2>2. CASE j < i
        BY <1>1, <1>2, <2>1, <2>2 DEF ToSet
    <2>3. CASE j >= i
        <3>1. j + 1 \in 1..(Len(q) + 1) /\ (j + 1) - 1 = j /\ ~(j + 1 < i) /\ j + 1 # i
            BY <1>1, <2>3
        <3>2. p[j + 1] = x
            BY <1>2, <2>1, <3>1
        <3> QED BY <1>2, <3>1, <3>2 DEF ToSet
    <2> QED BY <1>1, <2>2, <2>3
<1>5. e \in ToSet(p)
    BY <1>1, <1>2 DEF ToSet
<1>6. ASSUME NEW x \in ToSet(p) PROVE x \in ToSet(q) \cup {e}
    <2>1. PICK j \in 1..(Len(q) + 1) : x = p[j]
        BY <1>2 DEF ToSet
    <2>2. CASE j < i
        BY <1>1, <1>2, <2>1, <2>2 DEF ToSet
    <2>3. CASE j = i
        BY <1>2, <2>1, <2>3
    <2>4. CASE j > i
        <3>1. x = q[j - 1] /\ j - 1 \in DOMAIN q
            BY <1>1, <1>2, <2>1, <2>4
        <3> QED BY <3>1 DEF ToSet
    <2> QED BY <1>1, <2>2, <2>3, <2>4
<1>7. p # <<>>
    BY <1>1, <1>2
<1> QED BY <1>2, <1>3, <1>4, <1>5, <1>6, <1>7 DEF p

\* promote(): an element of the queue moves to its head.
LEMMA PromoteInQueue ==
    ASSUME NEW S, NEW q \in Seq(S), NEW i \in DOMAIN q, IsInjective(q)
    PROVE  /\ <<q[i]>> \o RemoveAt(q, i) \in Seq(S)
           /\ IsInjective(<<q[i]>> \o RemoveAt(q, i))
           /\ ToSet(<<q[i]>> \o RemoveAt(q, i)) = ToSet(q)
<1> DEFINE e == q[i]  r == RemoveAt(q, i)  p == <<e>> \o r
<1>1. /\ r \in Seq(S) /\ IsInjective(r) /\ ToSet(r) = ToSet(q) \ {e}
      /\ e \in ToSet(q) /\ e \in S
    BY ExtractFromQueue
<1>2. <<e>> \in Seq(S) /\ Len(<<e>>) = 1 /\ <<e>>[1] = e
    BY <1>1
<1> HIDE DEF e, r
<1>3. /\ p \in Seq(S) /\ Len(p) = Len(<<e>>) + Len(r)
      /\ \A j \in 1..(Len(<<e>>) + Len(r)) : p[j] = IF j <= Len(<<e>>) THEN <<e>>[j] ELSE r[j - Len(<<e>>)]
    BY <1>1, <1>2, ST!ConcatProperties
<1> HIDE DEF p
<1>4. /\ Len(r) \in Nat /\ DOMAIN r = 1..Len(r) /\ Len(p) = Len(r) + 1
      /\ DOMAIN p = 1..(Len(r) + 1) /\ p[1] = e
      /\ \A j \in 1..Len(r) : p[j + 1] = r[j] /\ r[j] # e
    <2>1. Len(r) \in Nat /\ DOMAIN r = 1..Len(r)
        BY <1>1
    <2>2. \A j \in 1..Len(r) : r[j] # e
        BY <1>1, <2>1 DEF ToSet
    <2>3. Len(p) = Len(r) + 1 /\ DOMAIN p = 1..(Len(r) + 1) /\ p[1] = e
        BY <1>2, <1>3, <2>1
    <2>4. \A j \in 1..Len(r) : p[j + 1] = r[j]
        BY <1>2, <1>3, <2>1
    <2> QED BY <2>1, <2>2, <2>3, <2>4
<1>5. \A j \in 1..(Len(r) + 1) : j = 1 \/ (j - 1 \in 1..Len(r) /\ p[j] = r[j - 1])
    <2> SUFFICES ASSUME NEW j \in 1..(Len(r) + 1), j # 1
                 PROVE  j - 1 \in 1..Len(r) /\ p[j] = r[j - 1]
        OBVIOUS
    <2>1. j - 1 \in 1..Len(r) /\ (j - 1) + 1 = j
        BY <1>4
    <2> QED BY <1>4, <2>1
<1>6. IsInjective(p)
    <2> SUFFICES ASSUME NEW j \in 1..(Len(r) + 1), NEW k \in 1..(Len(r) + 1), p[j] = p[k]
                 PROVE  j = k
        BY <1>4 DEF IsInjective
    <2>1. \A m, n \in 1..Len(r) : r[m] = r[n] => m = n
        BY <1>1, <1>4 DEF IsInjective
    <2>2. CASE j = 1 \/ k = 1
        BY <1>4, <1>5, <2>2
    <2>3. CASE j # 1 /\ k # 1
        <3>1. j - 1 = k - 1
            BY <1>5, <2>1, <2>3
        <3> QED BY <1>4, <3>1
    <2> QED BY <2>2, <2>3
<1>7. ToSet(p) = ToSet(r) \cup {e}
    <2>1. ASSUME NEW x \in ToSet(p) PROVE x \in ToSet(r) \cup {e}
        <3>1. PICK j \in 1..(Len(r) + 1) : x = p[j]
            BY <1>4 DEF ToSet
        <3>2. x = e \/ \E k \in DOMAIN r : x = r[k]
            BY <1>4, <1>5, <3>1
        <3> QED BY <3>2 DEF ToSet
    <2>2. ASSUME NEW x \in ToSet(r) PROVE x \in ToSet(p)
        BY <1>4 DEF ToSet
    <2>3. e \in ToSet(p)
        BY <1>4 DEF ToSet
    <2> QED BY <2>1, <2>2, <2>3
<1> QED BY <1>1, <1>3, <1>6, <1>7 DEF p, r, e

-----------------------------------------------------------------------------
(* The turn queue.                                                         *)
Open == {"new", "pending"}
Known(t) == AlreadyKnown(t) \/ CancelledMeanwhile(t)

\* The loop head of drainTurnQueue takes at most the first turn of the queue.
LEMMA NextTurnEffect ==
    ASSUME NEW q \in Seq(Requests), NEW signal \in BOOLEAN, IsInjective(q),
           NextTurn(q, signal)
    PROVE  /\ turnQueue' \in Seq(Requests) /\ IsInjective(turnQueue')
           /\ ToSet(turnQueue') \subseteq ToSet(q)
           /\ aborted' \in BOOLEAN
           /\ \/ phase' = "idle" /\ currentTurn' = None
              \/ /\ phase' = "accepting"
                 /\ currentTurn' \in ToSet(q)
                 /\ currentTurn' \notin ToSet(turnQueue')
                 /\ currentTurn' \in Requests
<1>1. CASE q = <<>>
    BY <1>1 DEF NextTurn
<1>2. CASE q # <<>>
    <2>1. /\ Head(q) \in ToSet(q) /\ Tail(q) \in Seq(Requests)
          /\ IsInjective(Tail(q)) /\ ToSet(Tail(q)) = ToSet(q) \ {Head(q)}
        BY <1>2, ShiftQueue
    <2>2. Head(q) \in Requests
        BY <2>1, QueueElements
    <2>3. turnQueue' = Tail(q)
        BY <1>2 DEF NextTurn
    <2>4. CASE suspendingForRestart
        BY <2>1, <2>3, <2>4 DEF NextTurn
    <2>5. CASE ~suspendingForRestart
        BY <1>2, <2>1, <2>2, <2>3, <2>5 DEF NextTurn
    <2> QED BY <2>4, <2>5
<1> QED BY <1>1, <1>2

\* A request that joins the queue may start the drain.
LEMMA EnqueuedEffect ==
    ASSUME NEW q \in Seq(Requests), IsInjective(q), aborted \in BOOLEAN, Enqueued(q)
    PROVE  /\ turnQueue' \in Seq(Requests) /\ IsInjective(turnQueue')
           /\ ToSet(turnQueue') \subseteq ToSet(q)
           /\ aborted' \in BOOLEAN
           /\ \/ phase # "idle" /\ UNCHANGED <<phase, currentTurn>>
              \/ phase = "idle" /\ phase' = "idle" /\ currentTurn' = None
              \/ /\ phase = "idle" /\ phase' = "accepting"
                 /\ currentTurn' \in ToSet(q)
                 /\ currentTurn' \notin ToSet(turnQueue')
                 /\ currentTurn' \in Requests
<1>1. CASE phase = "idle"
    <2>1. NextTurn(q, FALSE)
        BY <1>1 DEF Enqueued
    <2> QED BY <1>1, <2>1, NextTurnEffect
<1>2. CASE phase # "idle"
    BY <1>2 DEF Enqueued
<1> QED BY <1>1, <1>2

\* A step keeps RivalInv when it forgets a turn only because a request of that
\* turn ended: the only other copy of the turn then has no rival left.
LEMMA RivalKept ==
    ASSUME Inv, outcome' \in [Requests -> Outcomes],
           \A r \in Requests : Unsent(r)' => Unsent(r) /\ sent'[TurnOf[r]] = sent[TurnOf[r]],
           \A q \in Requests :
              /\ outcome'[q] \in Open => outcome[q] \in Open
              /\ durableReady'[q] = "yes" => durableReady[q] = "yes"
              /\ durableReady'[q] \in {"new", "persisting"} =>
                    durableReady[q] \in {"new", "persisting"},
           \A t \in Turns : Known(t) => 
              \/ Known(t)'
              \/ \E e \in Requests : /\ TurnOf[e] = t /\ ~Unsent(e)'
                                     /\ outcome'[e] \notin Open \/ durableReady'[e] = "no"
    PROVE  RivalInv'
<1> SUFFICES ASSUME NEW r \in Requests, Unsent(r)',
                    NEW q \in Requests, q # r, TurnOf[q] = TurnOf[r], outcome'[q] \in Open
             PROVE  /\ sent'[TurnOf[r]] = 0
                    /\ durableReady'[q] # "yes"
                    /\ durableReady'[q] \in {"new", "persisting"} => Known(TurnOf[q])'
    <2>1. \A r \in Requests : Unsent(r)' => sent'[TurnOf[r]] = 0
        BY DEF Inv, RivalInv
    <2> QED BY <2>1 DEF RivalInv, NoRival, Known, Open
<1>1. /\ sent[TurnOf[r]] = 0
      /\ durableReady[q] # "yes"
      /\ durableReady[q] \in {"new", "persisting"} => Known(TurnOf[q])
    BY DEF Inv, RivalInv, NoRival, Known, Open
<1>2. ASSUME durableReady'[q] \in {"new", "persisting"} PROVE Known(TurnOf[q])'
    <2>1. TurnOf[q] \in Turns /\ Known(TurnOf[q])
        BY <1>1, <1>2, RequestsAssumption
    <2>2. ASSUME NEW e \in Requests, TurnOf[e] = TurnOf[q], ~Unsent(e)',
                 outcome'[e] \notin Open \/ durableReady'[e] = "no"
          PROVE  FALSE
        <3>1. e # r /\ e # q
            BY <1>2, <2>2
        <3> QED BY <2>2, <3>1, ResendAssumption
    <2> QED BY <2>1, <2>2
<1> QED BY <1>1, <1>2

-----------------------------------------------------------------------------
\* A session manager that has received nothing satisfies the invariant.
LEMMA InitInv == Init => Inv
<1> SUFFICES ASSUME Init PROVE Inv
    OBVIOUS
<1>1. turnQueue \in Seq(Requests) /\ IsInjective(turnQueue) /\ ToSet(turnQueue) = {}
    BY DEF Init, IsInjective, ToSet
<1>2. TypeOK
    <2>1. NoRow \in Row /\ NoSteer \in Steering
        BY DEF NoRow, Row, RowStates, NoSteer, Steering, Stages
    <2>2. pendingRows \in [Turns -> Row] /\ steer \in [Turns -> Steering]
        BY <2>1 DEF Init
    <2>3. 0 \in 0..MaxRestarts
        BY BoundAssumption
    <2> QED BY <1>1, <2>2, <2>3 DEF Init, TypeOK, RowStates, Phases, InTurn, Outcomes
<1>3. QueueInv
    BY <1>1 DEF Init, QueueInv, NoSteer, Claimed
<1>4. RowInv
    BY DEF Init, RowInv, NoRow, Recoverable
<1>5. PhaseInv
    BY DEF Init, PhaseInv
<1>6. RivalInv
    BY DEF Init, RivalInv, Unsent
<1>7. SentOnce
    BY DEF Init, SentOnce
<1> QED BY <1>2, <1>3, <1>4, <1>5, <1>6, <1>7 DEF Inv

\* runQuery: a new request joins the queue; it has no row and no rival yet.
LEMMA RunQueryStep ==
    ASSUME Inv, NEW r \in Requests, RunQuery(r) PROVE Inv'
<1> USE DEF RunQuery, Settle, history, Inv
<1>1. /\ turnQueue \in Seq(Requests) /\ IsInjective(turnQueue)
      /\ outcome[r] = "new" /\ r \notin ToSet(turnQueue)
      /\ aborted \in BOOLEAN
    BY DEF TypeOK, QueueInv
<1> DEFINE q == Append(turnQueue, r)
<1>2. q \in Seq(Requests) /\ IsInjective(q) /\ ToSet(q) = ToSet(turnQueue) \cup {r}
    BY <1>1, PushQueue
<1>3. Enqueued(q)
    OBVIOUS
<1> HIDE DEF q
<1>4. /\ turnQueue' \in Seq(Requests) /\ IsInjective(turnQueue')
      /\ ToSet(turnQueue') \subseteq ToSet(turnQueue) \cup {r}
      /\ aborted' \in BOOLEAN
      /\ \/ phase # "idle" /\ UNCHANGED <<phase, currentTurn>>
         \/ phase = "idle" /\ phase' = "idle" /\ currentTurn' = None
         \/ /\ phase = "idle" /\ phase' = "accepting"
            /\ currentTurn' \in ToSet(turnQueue) \cup {r}
            /\ currentTurn' \notin ToSet(turnQueue')
            /\ currentTurn' \in Requests
    BY <1>1, <1>2, <1>3, EnqueuedEffect
<1>5. TypeOK'
    BY <1>4 DEF TypeOK, Phases, InTurn, Outcomes
<1>6. QueueInv'
    BY <1>1, <1>4, NoneAssumption DEF QueueInv, TypeOK
<1>7. RowInv' /\ SentOnce'
    BY DEF RowInv, SentOnce
<1>8. PhaseInv'
    BY <1>1, <1>4 DEF PhaseInv, QueueInv, TypeOK
<1>9. RivalInv'
    <2>1. \A p \in Requests :
            Unsent(p)' => Unsent(p) /\ sent'[TurnOf[p]] = sent[TurnOf[p]]
        BY <1>1, <1>4 DEF Unsent, TypeOK
    <2>2. \A t \in Turns : Known(t) => Known(t)'
        BY DEF Known, AlreadyKnown, CancelledMeanwhile, Present
    <2>3. \A p \in Requests :
            /\ outcome'[p] \in Open => outcome[p] \in Open
            /\ durableReady'[p] = "yes" => durableReady[p] = "yes"
            /\ durableReady'[p] \in {"new", "persisting"} =>
                  durableReady[p] \in {"new", "persisting"}
        BY <1>1 DEF TypeOK, QueueInv, Open
    <2>4. outcome' \in [Requests -> Outcomes]
        BY <1>5 DEF TypeOK
    <2> HIDE DEF Inv, RunQuery
    <2> QED BY <2>1, <2>2, <2>3, <2>4, RivalKept
<1> QED BY <1>5, <1>6, <1>7, <1>8, <1>9

\* A persistDurableTurn that ends without a row: the request is refused, was
\* cancelled meanwhile, or could not be stored.
LEMMA PersistEndsStep ==
    ASSUME Inv, NEW r \in Requests,
           PersistRefused(r) \/ PersistCancelled(r) \/ PersistFails(r)
    PROVE  Inv'
<1>1. /\ durableReady[r] = "persisting"
      /\ durableReady' \in {[durableReady EXCEPT ![r] = "no"], [durableReady EXCEPT ![r] = "failed"]}
      /\ cancelledDurableTurns' \in {cancelledDurableTurns, cancelledDurableTurns \ {TurnOf[r]}}
      /\ cancelledDurableTurns' # cancelledDurableTurns => durableReady'[r] = "no"
      /\ promoting' = promoting \ {r}
      /\ UNCHANGED <<pendingRows, transcript, durableTurns, turnQueue, currentTurn, phase,
                     aborted, agentSession, steer, suspendingForRestart, outcome, sent,
                     steered, stopped, restarts>>
    BY DEF Inv, TypeOK, PersistRefused, PersistCancelled, PersistFails, durableVars, drainVars,
       history
<1>2. /\ \A q \in Requests \ {r} : durableReady'[q] = durableReady[q]
      /\ durableReady'[r] \in {"no", "failed"}
    BY <1>1 DEF Inv, TypeOK
<1>3. TypeOK'
    BY <1>1 DEF Inv, TypeOK
<1>4. QueueInv'
    BY <1>1, <1>2 DEF Inv, QueueInv
<1>5. RowInv' /\ SentOnce'
    BY <1>1 DEF Inv, RowInv, SentOnce
<1>6. PhaseInv'
    BY <1>1, <1>2 DEF Inv, PhaseInv, QueueInv
<1>7. RivalInv'
    <2>1. ~Unsent(r)' /\ (cancelledDurableTurns' # cancelledDurableTurns => durableReady'[r] = "no")
        BY <1>1, <1>2 DEF Unsent
    <2>2. \A t \in Turns : Known(t) =>
              Known(t)' \/ (t = TurnOf[r] /\ durableReady'[r] = "no")
        BY <1>1 DEF Known, AlreadyKnown, CancelledMeanwhile, Present
    <2>3. \A q \in Requests : Unsent(q)' => Unsent(q) /\ sent'[TurnOf[q]] = sent[TurnOf[q]]
        BY <1>1, <1>2 DEF Unsent
    <2>4. \A q \in Requests :
            /\ outcome'[q] \in Open => outcome[q] \in Open
            /\ durableReady'[q] = "yes" => durableReady[q] = "yes"
            /\ durableReady'[q] \in {"new", "persisting"} =>
                  durableReady[q] \in {"new", "persisting"}
        BY <1>1, <1>2
    <2>5. outcome' \in [Requests -> Outcomes]
        BY <1>3 DEF TypeOK
    <2> QED BY <2>1, <2>2, <2>3, <2>4, <2>5, RivalKept
<1> QED BY <1>3, <1>4, <1>5, <1>6, <1>7 DEF Inv

\* A promotion moves rows; it changes neither their state nor their turn.
LEMMA PromotionKeepsRows ==
    ASSUME NEW rows \in [Turns -> Row], NEW t \in Turns
    PROVE  LET new == promotePendingSessionTurn(rows, t) IN
           /\ new \in [Turns -> Row]
           /\ \A u \in Turns : new[u].state = rows[u].state /\ new[u].request = rows[u].request
<1>1. ASSUME NEW u \in Turns
      PROVE  /\ PromotedRow(rows, t, u) \in Row
             /\ PromotedRow(rows, t, u).state = rows[u].state
             /\ PromotedRow(rows, t, u).request = rows[u].request
    <2>1. rows[u] \in Row /\ rows[u].position + 1 \in Nat
        BY DEF Row
    <2> QED BY <2>1 DEF PromotedRow, Row
<1> QED BY <1>1 DEF promotePendingSessionTurn

\* persistDurableTurn inserts a row: the turn was in neither the table nor the
\* transcript, so it was never sent and no copy of it waits to be sent.
LEMMA PersistInsertedStep ==
    ASSUME Inv, NEW r \in Requests, PersistInserted(r) PROVE Inv'
<1> DEFINE t == TurnOf[r]
<1>1. t \in Turns /\ TypeOK /\ pendingRows \in [Turns -> Row]
    BY RequestsAssumption DEF Inv, TypeOK
<1>2. PICK last \in Nat :
        LET rows == [pendingRows EXCEPT ![t] = NewRow(r, last)] IN
        pendingRows' = IF r \in promoting THEN promotePendingSessionTurn(rows, t) ELSE rows
    <2>1. \A u \in Turns : pendingRows[u].position \in Nat
        BY <1>1 DEF Row
    <2> QED BY <2>1 DEF PersistInserted, Present
<1>3. /\ durableReady[r] = "persisting"
      /\ transcript[t] = 0 /\ pendingRows[t].state = "absent" /\ t \notin cancelledDurableTurns
      /\ durableTurns' = [durableTurns EXCEPT ![t] = "queued"]
      /\ durableReady' = [durableReady EXCEPT ![r] = "yes"]
      /\ promoting' = promoting \ {r}
      /\ UNCHANGED <<transcript, cancelledDurableTurns, turnQueue, currentTurn, phase,
                     aborted, agentSession, steer, suspendingForRestart, outcome, sent,
                     steered, stopped, restarts>>
    BY <1>1 DEF PersistInserted, AlreadyKnown, CancelledMeanwhile, Present, TypeOK, drainVars,
       history
<1> HIDE DEF t
<1>4. /\ pendingRows' \in [Turns -> Row]
      /\ pendingRows'[t].state = "queued" /\ pendingRows'[t].request = r
      /\ \A u \in Turns \ {t} : /\ pendingRows'[u].state = pendingRows[u].state
                                /\ pendingRows'[u].request = pendingRows[u].request
    <2> DEFINE rows == [pendingRows EXCEPT ![t] = NewRow(r, last)]
    <2>1. NewRow(r, last) \in Row /\ NewRow(r, last).state = "queued" /\ NewRow(r, last).request = r
        BY DEF NewRow, Row, RowStates
    <2>2. /\ rows \in [Turns -> Row]
          /\ rows[t] = NewRow(r, last)
          /\ \A u \in Turns \ {t} : rows[u] = pendingRows[u]
        BY <1>1, <2>1
    <2>3. pendingRows' = rows \/ pendingRows' = promotePendingSessionTurn(rows, t)
        BY <1>2
    <2> HIDE DEF rows
    <2> QED BY <1>1, <2>1, <2>2, <2>3, PromotionKeepsRows
<1>5. TypeOK'
    BY <1>1, <1>3, <1>4 DEF TypeOK, RowStates
<1>6. QueueInv'
    <2>1. outcome[r] # "new"
        BY <1>3 DEF Inv, QueueInv
    <2>2. \A p \in Requests : outcome'[p] = "new" => durableReady'[p] = "new"
        BY <1>1, <1>3, <2>1 DEF Inv, QueueInv, TypeOK
    <2>3. QueueInv
        BY DEF Inv
    <2> QED BY <1>3, <2>2, <2>3 DEF QueueInv
<1>7. sent[t] = 0
    <2>1. sent[t] \in Nat
        BY <1>1 DEF TypeOK
    <2>2. ~(sent[t] > 0)
        BY <1>1, <1>3 DEF Inv, RowInv
    <2> QED BY <2>1, <2>2
<1>8. RowInv'
    <2> SUFFICES ASSUME NEW u \in Turns
                 PROVE  /\ pendingRows'[u].state # "absent" =>
                              /\ durableTurns'[u] = pendingRows'[u].state
                              /\ pendingRows'[u].request \in Requests
                              /\ TurnOf[pendingRows'[u].request] = u
                        /\ sent'[u] > 0 => transcript'[u] > 0
                        /\ pendingRows'[u].state \in Recoverable => sent'[u] = 0
        BY DEF RowInv
    <2>1. CASE u = t
        BY <1>1, <1>3, <1>4, <1>7, <2>1 DEF TypeOK, t
    <2>2. CASE u # t
        BY <1>1, <1>3, <1>4, <2>2 DEF Inv, RowInv, TypeOK
    <2> QED BY <2>1, <2>2
<1>9. SentOnce'
    BY <1>3 DEF Inv, SentOnce
<1>10. ASSUME NEW c \in Requests, phase \in {"opening", "dispatching", "running"}, currentTurn = c
       PROVE  TurnOf[c] # t
    BY <1>3, <1>10 DEF Inv, PhaseInv
<1>11. PhaseInv'
    <2>1. phase \notin {"idle", "accepting"} => durableReady'[currentTurn] = "yes"
        BY <1>1, <1>3 DEF Inv, PhaseInv, QueueInv, TypeOK
    <2>2. phase = "dispatching" =>
             pendingRows'[TurnOf[currentTurn]].state \in {"absent", "dispatching"}
        BY <1>4, <1>10, RequestsAssumption DEF Inv, PhaseInv, QueueInv
    <2> QED BY <1>3, <2>1, <2>2 DEF Inv, PhaseInv
<1>12. ASSUME NEW q \in Requests, q # r, TurnOf[q] = t,
              outcome[q] \in Open, outcome[r] \in Open
       PROVE  durableReady[q] # "yes"
    <2> SUFFICES ASSUME durableReady[q] = "yes" PROVE FALSE
        OBVIOUS
    <2>1. outcome[q] = "pending"
        BY <1>12 DEF Inv, QueueInv, Open
    <2>2. Unsent(q)
        BY <1>10, <1>12, <2>1 DEF Unsent
    <2>3. Known(t)
        BY <1>3, <1>12, <2>2 DEF Inv, RivalInv, NoRival, Known, Open, t
    <2> QED BY <1>3, <2>3 DEF Known, AlreadyKnown, CancelledMeanwhile, Present
<1>13. RivalInv'
    <2> SUFFICES ASSUME NEW p \in Requests, Unsent(p)'
                 PROVE  sent'[TurnOf[p]] = 0 /\ NoRival(p)'
        BY DEF RivalInv
    <2>1. outcome[p] = "pending" /\ (p = r \/ Unsent(p))
        BY <1>1, <1>3 DEF Unsent, TypeOK
    <2>2. sent'[TurnOf[p]] = 0
        BY <1>3, <1>7, <2>1 DEF Inv, RivalInv, t
    <2>3. ASSUME NEW q \in Requests, q # p, TurnOf[q] = TurnOf[p], outcome'[q] \in Open
          PROVE  /\ durableReady'[q] # "yes"
                 /\ durableReady'[q] \in {"new", "persisting"} => Known(TurnOf[q])'
        <3>1. TurnOf[q] \in Turns
            BY RequestsAssumption
        <3>2. CASE TurnOf[q] = t
            <4>1. Known(t)'
                BY <1>1, <1>4 DEF Known, AlreadyKnown, Present
            <4>2. durableReady'[q] # "yes"
                <5>1. CASE q = r
                    <6>1. Unsent(p) /\ durableReady[p] = "yes"
                        BY <2>1, <2>3, <5>1 DEF Unsent
                    <6> QED BY <1>3, <1>12, <2>1, <2>3, <5>1, <6>1 DEF Open, t
                <5>2. CASE p = r
                    BY <1>1, <1>3, <1>12, <2>1, <2>3, <5>2, <3>2 DEF Open, TypeOK
                <5>3. CASE q # r /\ p # r
                    BY <2>3, <3>2, <5>3, ResendAssumption DEF t
                <5> QED BY <5>1, <5>2, <5>3
            <4> QED BY <3>2, <4>1, <4>2
        <3>3. CASE TurnOf[q] # t
            <4>1. q # r /\ p # r /\ Unsent(p)
                BY <2>1, <2>3, <3>3 DEF t
            <4>2. /\ durableReady[q] # "yes"
                  /\ durableReady[q] \in {"new", "persisting"} => Known(TurnOf[q])
                BY <1>3, <2>3, <4>1 DEF Inv, RivalInv, NoRival, Known, Open
            <4>3. Known(TurnOf[q]) => Known(TurnOf[q])'
                BY <1>3, <1>4, <3>1, <3>3 DEF Known, AlreadyKnown, CancelledMeanwhile, Present
            <4> QED BY <1>1, <1>3, <4>1, <4>2, <4>3 DEF TypeOK
        <3> QED BY <3>2, <3>3
    <2> QED BY <2>2, <2>3 DEF NoRival, Known, Open
<1> QED BY <1>5, <1>6, <1>8, <1>9, <1>11, <1>13 DEF Inv

\* A steer that loses its target was only being prepared.
LEMMA DropTargetsEffect ==
    ASSUME TypeOK, DropTargets
    PROVE  /\ steer' \in [Turns -> Steering]
           /\ \A u \in Turns :
                 steer'[u].stage \in Claimed => steer'[u] = steer[u]
<1>1. ASSUME NEW u \in Turns
      PROVE  /\ steer'[u] \in Steering
             /\ steer'[u].stage \in Claimed => steer'[u] = steer[u]
    <2>1. steer[u] \in Steering
        BY DEF TypeOK
    <2>2. [steer[u] EXCEPT !.target = None] \in Steering
        BY <2>1 DEF Steering
    <2>3. [steer[u] EXCEPT !.target = None].stage = steer[u].stage
        BY <2>1 DEF Steering
    <2> QED BY <2>1, <2>2, <2>3 DEF DropTargets, Claimed
<1> QED BY <1>1 DEF DropTargets

\* A turn ends: it leaves the drain loop, its row is forgotten or kept, and the
\* next turn starts.
LEMMA EndOfTurn ==
    ASSUME Inv, phase # "idle",
           NEW how \in Outcomes \ Open, Settle(currentTurn, how),
           NextTurn(turnQueue, aborted),
           \/ UNCHANGED <<durableTurns, cancelledDurableTurns, pendingRows>>
           \/ SettleUnlessSuspending(TurnOf[currentTurn]),
           steer' = steer \/ DropTargets,
           agentSession' \in BOOLEAN,
           UNCHANGED <<transcript, durableReady, promoting, suspendingForRestart, history>>
    PROVE  Inv'
<1>0. PICK r \in Requests : r = currentTurn
    BY DEF Inv, QueueInv
<1> DEFINE t == TurnOf[r]
<1>1. /\ r = currentTurn /\ t \in Turns /\ outcome[r] = "pending" /\ r \notin ToSet(turnQueue)
      /\ TypeOK /\ QueueInv /\ turnQueue \in Seq(Requests) /\ IsInjective(turnQueue)
    BY <1>0, RequestsAssumption DEF Inv, QueueInv, TypeOK
<1>2. /\ turnQueue' \in Seq(Requests) /\ IsInjective(turnQueue')
      /\ ToSet(turnQueue') \subseteq ToSet(turnQueue)
      /\ aborted' \in BOOLEAN
      /\ \/ phase' = "idle" /\ currentTurn' = None
         \/ /\ phase' = "accepting"
            /\ currentTurn' \in ToSet(turnQueue)
            /\ currentTurn' \notin ToSet(turnQueue')
            /\ currentTurn' \in Requests
    BY <1>1, NextTurnEffect DEF TypeOK
<1>3. \/ UNCHANGED <<durableTurns, cancelledDurableTurns, pendingRows>>
      \/ /\ durableTurns' = [durableTurns EXCEPT ![t] = "absent"]
         /\ cancelledDurableTurns' = cancelledDurableTurns \ {t}
         /\ pendingRows' = [pendingRows EXCEPT ![t] = NoRow]
    BY <1>0 DEF SettleUnlessSuspending, SettleDurableTurn
<1>4. /\ UNCHANGED <<transcript, durableReady, promoting, suspendingForRestart, sent,
                     steered, stopped, restarts>>
      /\ outcome' = [outcome EXCEPT ![r] = how]
    BY <1>0 DEF history, Settle
<1>5. /\ steer' \in [Turns -> Steering]
      /\ \A u \in Turns : steer'[u].stage \in Claimed => steer'[u] = steer[u]
    <2>1. CASE steer' = steer
        BY <1>1, <2>1 DEF TypeOK
    <2>2. CASE DropTargets
        BY <1>1, <2>2, DropTargetsEffect
    <2> QED BY <2>1, <2>2
<1> HIDE DEF t
<1>6. NoRow \in Row /\ NoRow.state = "absent"
    BY DEF NoRow, Row, RowStates
<1>7. TypeOK'
    <2>1. /\ pendingRows' \in [Turns -> Row]
          /\ durableTurns' \in [Turns -> RowStates]
          /\ cancelledDurableTurns' \subseteq Turns
        <3>1. /\ pendingRows \in [Turns -> Row]
              /\ durableTurns \in [Turns -> RowStates]
              /\ cancelledDurableTurns \subseteq Turns
              /\ "absent" \in RowStates
            BY <1>1 DEF TypeOK, RowStates
        <3> QED BY <1>1, <1>3, <1>6, <3>1
    <2>2. outcome' \in [Requests -> Outcomes]
        BY <1>1, <1>4 DEF TypeOK
    <2>3. currentTurn' \in Requests \cup {None} /\ phase' \in Phases
        BY <1>2 DEF Phases, InTurn
    <2> QED BY <1>1, <1>2, <1>4, <1>5, <2>1, <2>2, <2>3 DEF TypeOK
<1>8. QueueInv'
    <2>1. \A p \in Requests : /\ p # r => outcome'[p] = outcome[p]
                              /\ outcome'[p] = "new" => outcome[p] = "new"
        BY <1>1, <1>4 DEF TypeOK, Open
    <2>2. \A p \in ToSet(turnQueue') : outcome'[p] = "pending" /\ p # currentTurn'
        BY <1>1, <1>2, <2>1, NoneAssumption, QueueElements DEF QueueInv
    <2>3. \A u \in Turns : steer'[u].stage \in Claimed =>
          /\ steer'[u].request \in Requests /\ steer'[u].index > 0
          /\ TurnOf[steer'[u].request] = u
          /\ outcome'[steer'[u].request] = "pending"
          /\ steer'[u].request # currentTurn'
          /\ steer'[u].request \notin ToSet(turnQueue')
        BY <1>1, <1>2, <1>5, <2>1, NoneAssumption DEF QueueInv
    <2>4. IF phase' = "idle" THEN currentTurn' = None
          ELSE currentTurn' \in Requests /\ outcome'[currentTurn'] = "pending"
        BY <1>1, <1>2, <2>1 DEF QueueInv
    <2> QED BY <1>1, <1>2, <1>4, <2>1, <2>2, <2>3, <2>4 DEF QueueInv
<1>9. RowInv'
    BY <1>1, <1>3, <1>4, <1>6 DEF Inv, RowInv, TypeOK, Recoverable
<1>10. SentOnce' /\ PhaseInv'
    BY <1>2, <1>4 DEF Inv, SentOnce, PhaseInv
<1>11. RivalInv'
    <2>1. outcome' \in [Requests -> Outcomes] /\ outcome'[r] = how
        BY <1>1, <1>4, <1>7 DEF TypeOK
    <2>2. \A p \in Requests : Unsent(p)' => Unsent(p) /\ sent'[TurnOf[p]] = sent[TurnOf[p]]
        BY <1>1, <1>4, <2>1 DEF Unsent, TypeOK, Open
    <2>3. \A q \in Requests :
            /\ outcome'[q] \in Open => outcome[q] \in Open
            /\ durableReady'[q] = "yes" => durableReady[q] = "yes"
            /\ durableReady'[q] \in {"new", "persisting"} =>
                  durableReady[q] \in {"new", "persisting"}
        BY <1>1, <1>4, <2>1 DEF TypeOK
    <2>4. ~Unsent(r)' /\ outcome'[r] \notin Open
        BY <2>1 DEF Unsent, Open
    <2>5. \A u \in Turns : Known(u) => Known(u)' \/ u = t
        BY <1>1, <1>3, <1>4 DEF Known, AlreadyKnown, CancelledMeanwhile, Present, TypeOK
    <2>6. \A u \in Turns : Known(u) =>
              \/ Known(u)'
              \/ \E e \in Requests : /\ TurnOf[e] = u /\ ~Unsent(e)'
                                     /\ outcome'[e] \notin Open \/ durableReady'[e] = "no"
        BY <1>1, <2>4, <2>5 DEF t
    <2> QED BY <2>1, <2>2, <2>3, <2>6, RivalKept
<1> QED BY <1>7, <1>8, <1>9, <1>10, <1>11 DEF Inv

\* The five ways in which drainTurnQueue lets a turn go (see EndOfTurn).
LEMMA EndOfTurnStep ==
    ASSUME Inv, DropTurn \/ RejectTurn \/ GateAborted \/ FinishTurn \/ FailTurn PROVE Inv'
<1>1. CASE DropTurn
    <2>1. "dropped" \in Outcomes \ Open
        BY DEF Outcomes, Open
    <2> QED BY <1>1, <2>1, EndOfTurn DEF DropTurn, durableVars, Inv, TypeOK
<1>2. CASE RejectTurn
    <2>1. "failed" \in Outcomes \ Open
        BY DEF Outcomes, Open
    <2> QED BY <1>2, <2>1, EndOfTurn DEF RejectTurn, Inv, TypeOK
<1>3. CASE GateAborted
    <2>1. "stopped" \in Outcomes \ Open
        BY DEF Outcomes, Open
    <2> QED BY <1>3, <2>1, EndOfTurn DEF GateAborted, Inv, TypeOK
<1>4. CASE FinishTurn
    <2>1. "ran" \in Outcomes \ Open
        BY DEF Outcomes, Open
    <2> QED BY <1>4, <2>1, EndOfTurn DEF FinishTurn, Inv, TypeOK
<1>5. CASE FailTurn
    <2>1. (IF aborted THEN "stopped" ELSE "failed") \in Outcomes \ Open
        BY DEF Outcomes, Open
    <2> QED BY <1>5, <2>1, EndOfTurn DEF FailTurn, InTurn
<1> QED BY <1>1, <1>2, <1>3, <1>4, <1>5

-----------------------------------------------------------------------------
\* A step that changes neither requests nor the table nor what was sent.
LEMMA QuietStep ==
    ASSUME Inv, TypeOK', QueueInv',
           PhaseInv',
           \A t \in Turns : Known(t) => Known(t)',
           \A r \in Requests : Unsent(r)' => Unsent(r),
           \A r \in Requests : outcome'[r] \in Open => outcome[r] \in Open,
           UNCHANGED <<durableReady, sent>>,
           RowInv'
    PROVE  Inv'
<1>1. SentOnce'
    BY DEF Inv, SentOnce
<1>2. outcome' \in [Requests -> Outcomes]
    BY DEF TypeOK
<1>3. RivalInv'
    BY <1>2, RivalKept
<1> QED BY <1>1, <1>3 DEF Inv

\* gateOnUsage lets the turn by, at once or after its sleep, and
\* persistUserMessage looks for the user row.
LEMMA GatePassedStep ==
    ASSUME Inv, AcceptTurn \/ GateProceeds \/ GateWakes \/ LookUpUserMessage PROVE Inv'
<1>1. /\ \/ phase = "accepting" /\ phase' = "preparing" /\ durableReady[currentTurn] = "yes"
         \/ phase \in {"preparing", "sleeping"} /\ phase' = "prompting"
         \/ /\ phase = "prompting"
            /\ \/ phase' = "opening" /\ transcript[TurnOf[currentTurn]] > 0
               \/ phase' = "appending"
      /\ UNCHANGED <<pendingRows, transcript, turnQueue, durableReady, durableTurns,
                     cancelledDurableTurns, promoting, currentTurn, aborted, agentSession,
                     steer, suspendingForRestart, outcome, sent, steered, stopped, restarts>>
    BY DEF AcceptTurn, GateProceeds, GateWakes, LookUpUserMessage, UserRowFound, durableVars,
       history
<1>2. TypeOK'
    BY <1>1 DEF Inv, TypeOK, Phases, InTurn
<1>3. QueueInv'
    BY <1>1 DEF Inv, QueueInv
<1>4. PhaseInv'
    BY <1>1 DEF Inv, PhaseInv
<1>5. RowInv'
    BY <1>1 DEF Inv, RowInv
<1>6. \A t \in Turns : Known(t) => Known(t)'
    BY <1>1 DEF Known, AlreadyKnown, CancelledMeanwhile, Present
<1>7. \A r \in Requests : Unsent(r)' => Unsent(r)
    BY <1>1 DEF Unsent
<1> QED BY <1>1, <1>2, <1>3, <1>4, <1>5, <1>6, <1>7, QuietStep

\* The sleeping turn's row changes its state, and is neither added nor removed.
LEMMA GateSleepsStep ==
    ASSUME Inv, GateSleeps \/ GateSkipped PROVE Inv'
<1>0. PICK r \in Requests : r = currentTurn
    BY DEF Inv, QueueInv, GateSleeps, GateSkipped
<1> DEFINE t == TurnOf[r]
<1>1. /\ t \in Turns /\ TypeOK /\ RowInv /\ r = currentTurn
      /\ pendingRows \in [Turns -> Row] /\ durableTurns \in [Turns -> RowStates]
    BY <1>0, RequestsAssumption DEF Inv, TypeOK
<1>2. /\ phase \in {"preparing", "sleeping"} /\ phase' \in {"sleeping", "prompting"}
      /\ UNCHANGED <<transcript, turnQueue, durableReady, cancelledDurableTurns, promoting,
                     currentTurn, aborted, agentSession, steer, suspendingForRestart,
                     outcome, sent, steered, stopped, restarts>>
    BY <1>0 DEF GateSleeps, GateSkipped, history
<1>3. /\ pendingRows' \in [Turns -> Row]
      /\ \A u \in Turns : /\ u # t => pendingRows'[u] = pendingRows[u]
                          /\ pendingRows'[u].request = pendingRows[u].request
      /\ pendingRows'[t].state = IF pendingRows[t].state \in Recoverable
                                 THEN "sleeping" ELSE pendingRows[t].state
    <2>1. pendingRows[t] \in Row
        BY <1>1
    <2>2. CASE GateSleeps
        <3> DEFINE row == [pendingRows[t] EXCEPT !.state =
                              IF pendingRows[t].state \in Recoverable
                              THEN "sleeping" ELSE pendingRows[t].state]
        <3>1. pendingRows' = [pendingRows EXCEPT ![t] = row]
            BY <1>0, <2>2 DEF GateSleeps
        <3>2. /\ row \in Row
              /\ row.request = pendingRows[t].request
              /\ row.state = IF pendingRows[t].state \in Recoverable
                             THEN "sleeping" ELSE pendingRows[t].state
            BY <2>1 DEF Row, RowStates
        <3> HIDE DEF row
        <3> QED BY <1>1, <3>1, <3>2
    <2>3. CASE GateSkipped
        <3>1. pendingRows' = [pendingRows EXCEPT ![t] = ResumedRow(@)]
            BY <1>0, <2>3 DEF GateSkipped
        <3>2. /\ ResumedRow(pendingRows[t]) \in Row
              /\ ResumedRow(pendingRows[t]).request = pendingRows[t].request
              /\ ResumedRow(pendingRows[t]).state = IF pendingRows[t].state \in Recoverable
                                 THEN "sleeping" ELSE pendingRows[t].state
            BY <2>1 DEF ResumedRow, Row, RowStates
        <3> QED BY <1>1, <3>1, <3>2
    <2> QED BY <2>2, <2>3
<1>4. /\ durableTurns' \in [Turns -> RowStates]
      /\ \A u \in Turns : u # t => durableTurns'[u] = durableTurns[u]
      /\ durableTurns[t] \in Recoverable => durableTurns'[t] = "sleeping"
      /\ durableTurns[t] = "dispatching" => durableTurns'[t] = "dispatching"
    <2>1. "sleeping" \in RowStates /\ "dispatching" \notin Recoverable
        BY DEF RowStates, Recoverable
    <2>2. durableTurns' = [durableTurns EXCEPT ![t] = durableTurns'[t]]
        BY <1>0, <1>1 DEF GateSleeps, GateSkipped
    <2>3. /\ durableTurns'[t] \in RowStates
          /\ durableTurns[t] \in Recoverable => durableTurns'[t] = "sleeping"
          /\ durableTurns[t] = "dispatching" => durableTurns'[t] = "dispatching"
        BY <1>0, <1>1, <2>1 DEF GateSleeps, GateSkipped
    <2> QED BY <1>1, <2>2, <2>3
<1> HIDE DEF t
<1>5. TypeOK'
    BY <1>1, <1>2, <1>3, <1>4 DEF TypeOK, Phases, InTurn
<1>6. QueueInv'
    BY <1>1, <1>2 DEF Inv, QueueInv
<1>7. PhaseInv'
    BY <1>2 DEF Inv, PhaseInv
<1>8. RowInv'
    <2>1. \A u \in Turns : u # t =>
             durableTurns'[u] = durableTurns[u] /\ pendingRows'[u] = pendingRows[u]
        BY <1>3, <1>4
    <2>2. pendingRows'[t].state # "absent" => durableTurns'[t] = pendingRows'[t].state
        <3>1. pendingRows[t].state \in RowStates
            BY <1>1 DEF Row
        <3>2. pendingRows[t].state # "absent" => durableTurns[t] = pendingRows[t].state
            BY <1>1 DEF RowInv
        <3>3. CASE pendingRows[t].state \in Recoverable
            BY <1>3, <1>4, <3>2, <3>3 DEF Recoverable
        <3>4. CASE pendingRows[t].state = "dispatching"
            BY <1>3, <1>4, <3>2, <3>4 DEF Recoverable
        <3>5. CASE pendingRows[t].state = "absent"
            BY <1>3, <3>5 DEF Recoverable
        <3> QED BY <3>1, <3>3, <3>4, <3>5 DEF RowStates, Recoverable
    <2>3. /\ pendingRows'[t].state # "absent" => pendingRows[t].state # "absent"
          /\ pendingRows'[t].state \in Recoverable => pendingRows[t].state \in Recoverable
        BY <1>3 DEF Recoverable
    <2>4. /\ pendingRows'[t].state # "absent" =>
                /\ durableTurns'[t] = pendingRows'[t].state
                /\ pendingRows'[t].request \in Requests
                /\ TurnOf[pendingRows'[t].request] = t
          /\ sent'[t] > 0 => transcript'[t] > 0
          /\ pendingRows'[t].state \in Recoverable => sent'[t] = 0
        <3>1. /\ pendingRows[t].state # "absent" =>
                    /\ pendingRows[t].request \in Requests
                    /\ TurnOf[pendingRows[t].request] = t
              /\ sent[t] > 0 => transcript[t] > 0
              /\ pendingRows[t].state \in Recoverable => sent[t] = 0
            BY <1>1 DEF RowInv
        <3>2. pendingRows'[t].request = pendingRows[t].request
            BY <1>1, <1>3
        <3>3. sent' = sent /\ transcript' = transcript
            BY <1>2
        <3> QED BY <2>2, <2>3, <3>1, <3>2, <3>3
    <2>5. ASSUME NEW u \in Turns, u # t
          PROVE  /\ pendingRows'[u].state # "absent" =>
                       /\ durableTurns'[u] = pendingRows'[u].state
                       /\ pendingRows'[u].request \in Requests
                       /\ TurnOf[pendingRows'[u].request] = u
                 /\ sent'[u] > 0 => transcript'[u] > 0
                 /\ pendingRows'[u].state \in Recoverable => sent'[u] = 0
        BY <1>1, <1>2, <2>1, <2>5 DEF RowInv
    <2> QED BY <2>4, <2>5 DEF RowInv
<1>9. \A u \in Turns : Known(u) => Known(u)'
    <2>1. \A u \in Turns : pendingRows[u].state # "absent" => pendingRows'[u].state # "absent"
        BY <1>3
    <2> QED BY <1>2, <2>1 DEF Known, AlreadyKnown, CancelledMeanwhile, Present
<1>10. \A q \in Requests : Unsent(q)' => Unsent(q)
    BY <1>2 DEF Unsent
<1> QED BY <1>2, <1>5, <1>6, <1>7, <1>8, <1>9, <1>10, QuietStep

\* persistUserMessage: from here on the transcript keeps copies of the turn
\* out, which the later steps of the turn rely on.
LEMMA AppendUserMessageStep ==
    ASSUME Inv, AppendUserMessage PROVE Inv'
<1>0. PICK r \in Requests : r = currentTurn
    BY DEF Inv, QueueInv, AppendUserMessage
<1> DEFINE t == TurnOf[r]
<1>1. /\ t \in Turns /\ TypeOK /\ r = currentTurn /\ transcript \in [Turns -> Nat]
      /\ phase = "appending" /\ phase' = "opening"
      /\ transcript' = [transcript EXCEPT ![t] = @ + 1]
      /\ UNCHANGED <<pendingRows, turnQueue, durableReady, durableTurns,
                     cancelledDurableTurns, promoting, currentTurn, aborted, agentSession,
                     steer, suspendingForRestart, outcome, sent, steered, stopped, restarts>>
    BY <1>0, RequestsAssumption DEF Inv, TypeOK, AppendUserMessage, UserRowAppended, history
<1> HIDE DEF t
<1>2. /\ transcript' \in [Turns -> Nat] /\ transcript'[t] > 0
      /\ \A u \in Turns : transcript[u] > 0 => transcript'[u] > 0
    BY <1>1
<1>3. TypeOK'
    BY <1>1, <1>2 DEF TypeOK, Phases, InTurn
<1>4. QueueInv'
    BY <1>1 DEF Inv, QueueInv
<1>5. PhaseInv'
    BY <1>1, <1>2 DEF Inv, PhaseInv, t
<1>6. RowInv'
    BY <1>1, <1>2 DEF Inv, RowInv
<1>7. \A u \in Turns : Known(u) => Known(u)'
    BY <1>1, <1>2 DEF Known, AlreadyKnown, CancelledMeanwhile, Present
<1>8. \A q \in Requests : Unsent(q)' => Unsent(q)
    BY <1>1 DEF Unsent
<1> QED BY <1>1, <1>3, <1>4, <1>5, <1>6, <1>7, <1>8, QuietStep

\* markDurableTurnDispatching: the row leaves the states a restart recovers.
LEMMA MarkDispatchingStep ==
    ASSUME Inv, MarkDispatching PROVE Inv'
<1>0. PICK r \in Requests : r = currentTurn
    BY DEF Inv, QueueInv, MarkDispatching
<1> DEFINE t == TurnOf[r]
<1>1. /\ t \in Turns /\ TypeOK /\ RowInv /\ r = currentTurn
      /\ pendingRows \in [Turns -> Row] /\ durableTurns \in [Turns -> RowStates]
    BY <1>0, RequestsAssumption DEF Inv, TypeOK
<1>2. /\ phase = "opening" /\ phase' = "dispatching" /\ agentSession' = TRUE
      /\ UNCHANGED <<transcript, turnQueue, durableReady, cancelledDurableTurns, promoting,
                     currentTurn, aborted, steer, suspendingForRestart, outcome, sent,
                     steered, stopped, restarts>>
      /\ \/ durableTurns[t] = "absent" /\ UNCHANGED <<durableTurns, pendingRows>>
         \/ /\ durableTurns[t] # "absent" /\ pendingRows[t].state \in Recoverable
            /\ durableTurns' = [durableTurns EXCEPT ![t] = "dispatching"]
            /\ pendingRows' = [pendingRows EXCEPT ![t] = DispatchingRow(@)]
    BY <1>0 DEF MarkDispatching, history
<1> HIDE DEF t
<1>3. /\ pendingRows' \in [Turns -> Row] /\ durableTurns' \in [Turns -> RowStates]
      /\ pendingRows'[t].state \in {"absent", "dispatching"}
      /\ pendingRows'[t].state = "dispatching" => durableTurns'[t] = "dispatching"
      /\ \A u \in Turns :
            /\ u # t => pendingRows'[u] = pendingRows[u] /\ durableTurns'[u] = durableTurns[u]
            /\ pendingRows'[u].request = pendingRows[u].request
            /\ pendingRows'[u].state # "absent" <=> pendingRows[u].state # "absent"
    <2>1. CASE durableTurns[t] = "absent"
        BY <1>1, <1>2, <2>1 DEF RowInv
    <2>2. CASE durableTurns[t] # "absent"
        <3>1. /\ DispatchingRow(pendingRows[t]) \in Row
              /\ DispatchingRow(pendingRows[t]).state = "dispatching"
              /\ DispatchingRow(pendingRows[t]).request = pendingRows[t].request
            BY <1>1 DEF DispatchingRow, Row, RowStates
        <3>2. "dispatching" \in RowStates /\ pendingRows[t].state # "absent"
            BY <1>2, <2>2 DEF RowStates, Recoverable
        <3> QED BY <1>1, <1>2, <2>2, <3>1, <3>2
    <2> QED BY <2>1, <2>2
<1>4. TypeOK'
    BY <1>1, <1>2, <1>3 DEF TypeOK, Phases, InTurn
<1>5. QueueInv'
    BY <1>1, <1>2 DEF Inv, QueueInv
<1>6. PhaseInv'
    BY <1>1, <1>2, <1>3 DEF Inv, PhaseInv, t
<1>7. RowInv'
    BY <1>1, <1>2, <1>3 DEF RowInv, Recoverable
<1>8. \A u \in Turns : Known(u) => Known(u)'
    BY <1>2, <1>3 DEF Known, AlreadyKnown, CancelledMeanwhile, Present
<1>9. \A q \in Requests : Unsent(q)' => Unsent(q)
    BY <1>2 DEF Unsent
<1> QED BY <1>2, <1>4, <1>5, <1>6, <1>7, <1>8, <1>9, QuietStep

\* AgentSession.send: the only step that raises sent; the turn was never sent
\* before, because a request that waits to be sent is Unsent (RivalInv).
LEMMA SendStep ==
    ASSUME Inv, Send PROVE Inv'
<1>0. PICK r \in Requests : r = currentTurn
    BY DEF Inv, QueueInv, Send
<1> DEFINE t == TurnOf[r]
<1>1. /\ t \in Turns /\ TypeOK /\ r = currentTurn /\ sent \in [Turns -> Nat]
      /\ phase = "dispatching" /\ phase' = "running"
      /\ sent' = [sent EXCEPT ![t] = @ + 1]
      /\ UNCHANGED <<pendingRows, transcript, turnQueue, durableReady, durableTurns,
                     cancelledDurableTurns, promoting, currentTurn, aborted, agentSession,
                     steer, suspendingForRestart, outcome, steered, stopped, restarts>>
    BY <1>0, RequestsAssumption DEF Inv, TypeOK, Send, durableVars
<1> HIDE DEF t
\* The dispatched request is accepted and unsent, so it has no rival.
<1>2. Unsent(r)
    BY <1>1 DEF Inv, QueueInv, PhaseInv, Unsent
<1>3. /\ sent[t] = 0 /\ transcript[t] > 0
      /\ pendingRows[t].state \in {"absent", "dispatching"}
      /\ \A q \in Requests : q # r /\ TurnOf[q] = t => ~Unsent(q)
    BY <1>1, <1>2 DEF Inv, RivalInv, NoRival, PhaseInv, Unsent, t
<1>4. /\ sent' \in [Turns -> Nat] /\ sent'[t] = 1
      /\ \A u \in Turns : u # t => sent'[u] = sent[u]
    BY <1>1, <1>3
<1>5. TypeOK'
    BY <1>1, <1>4 DEF TypeOK, Phases, InTurn
<1>6. QueueInv'
    BY <1>1 DEF Inv, QueueInv
<1>7. PhaseInv'
    BY <1>1 DEF Inv, PhaseInv
<1>8. RowInv'
    BY <1>1, <1>3, <1>4 DEF Inv, RowInv, Recoverable
<1>9. SentOnce'
    BY <1>4 DEF Inv, SentOnce
<1>10. RivalInv'
    <2>1. \A q \in Requests : Unsent(q)' => Unsent(q) /\ q # r
        BY <1>1 DEF Unsent, Inv, QueueInv, PhaseInv
    <2>2. \A q \in Requests : Unsent(q)' => sent'[TurnOf[q]] = sent[TurnOf[q]]
        BY <1>3, <1>4, <2>1, RequestsAssumption
    <2>3. \A u \in Turns : Known(u) => Known(u)'
        BY <1>1 DEF Known, AlreadyKnown, CancelledMeanwhile, Present
    <2>4. outcome' \in [Requests -> Outcomes]
        BY <1>5 DEF TypeOK
    <2> QED BY <1>1, <2>1, <2>2, <2>3, <2>4, RivalKept
<1> QED BY <1>5, <1>6, <1>7, <1>8, <1>9, <1>10 DEF Inv

-----------------------------------------------------------------------------
\* Rows that are dropped leave the invariant's claims about the others.
LEMMA ForgetKeepsRows ==
    ASSUME TypeOK, RowInv, NEW T \in SUBSET Turns, ForgetTurns(T)
    PROVE  /\ pendingRows' \in [Turns -> Row] /\ durableTurns' \in [Turns -> RowStates]
           /\ cancelledDurableTurns' \subseteq Turns
           /\ \A t \in Turns \ T : /\ pendingRows'[t] = pendingRows[t]
                                   /\ durableTurns'[t] = durableTurns[t]
           /\ \A t \in T : pendingRows'[t].state = "absent" /\ t \in cancelledDurableTurns'
           /\ cancelledDurableTurns \subseteq cancelledDurableTurns'
<1>1. NoRow \in Row /\ NoRow.state = "absent" /\ "absent" \in RowStates
    BY DEF NoRow, Row, RowStates
<1>2. /\ pendingRows \in [Turns -> Row] /\ durableTurns \in [Turns -> RowStates]
      /\ cancelledDurableTurns \subseteq Turns
    BY DEF TypeOK
<1> QED BY <1>1, <1>2 DEF ForgetTurns

\* cancelQueued removes the first entry of the turn and its row.
LEMMA CancelQueuedStep ==
    ASSUME Inv, NEW t \in Turns, CancelQueued(t) PROVE Inv'
<1>1. PICK i \in DOMAIN turnQueue :
        /\ TurnOf[turnQueue[i]] = t
        /\ outcome' = [outcome EXCEPT ![turnQueue[i]] = "cancelled"]
        /\ turnQueue' = RemoveAt(turnQueue, i)
    BY DEF CancelQueued, IsFirst, Settle
<1>2. /\ TypeOK /\ QueueInv /\ RowInv /\ PhaseInv
      /\ turnQueue \in Seq(Requests) /\ IsInjective(turnQueue)
    BY DEF Inv, TypeOK, QueueInv
<1>3. PICK r \in Requests : r = turnQueue[i] /\ r \in ToSet(turnQueue)
    BY <1>2, ExtractFromQueue
<1>4. /\ turnQueue' \in Seq(Requests) /\ IsInjective(turnQueue')
      /\ ToSet(turnQueue') = ToSet(turnQueue) \ {r}
    BY <1>1, <1>2, <1>3, ExtractFromQueue
<1>5. /\ ForgetTurns({t})
      /\ UNCHANGED <<transcript, durableReady, promoting, currentTurn, phase, aborted,
                     agentSession, steer, suspendingForRestart, sent, steered, stopped, restarts>>
    BY DEF CancelQueued, history
<1>6. /\ TurnOf[r] = t /\ outcome' = [outcome EXCEPT ![r] = "cancelled"]
      /\ outcome \in [Requests -> Outcomes] /\ outcome[r] = "pending"
      /\ currentTurn # r
    BY <1>1, <1>2, <1>3 DEF TypeOK, QueueInv
<1>7. /\ pendingRows' \in [Turns -> Row] /\ durableTurns' \in [Turns -> RowStates]
      /\ cancelledDurableTurns' \subseteq Turns
      /\ \A u \in Turns \ {t} : /\ pendingRows'[u] = pendingRows[u]
                                /\ durableTurns'[u] = durableTurns[u]
      /\ pendingRows'[t].state = "absent" /\ t \in cancelledDurableTurns'
      /\ cancelledDurableTurns \subseteq cancelledDurableTurns'
    <2>1. {t} \in SUBSET Turns
        OBVIOUS
    <2> QED BY <1>2, <1>5, <2>1, ForgetKeepsRows
<1>8. /\ outcome' \in [Requests -> Outcomes] /\ outcome'[r] = "cancelled"
      /\ \A q \in Requests \ {r} : outcome'[q] = outcome[q]
    BY <1>6 DEF Outcomes
<1>9. TypeOK'
    BY <1>2, <1>4, <1>5, <1>7, <1>8 DEF TypeOK
<1>10. QueueInv'
    <2>1. \A q \in ToSet(turnQueue') : q \in Requests \ {r} /\ q \in ToSet(turnQueue)
        BY <1>2, <1>4, QueueElements
    <2>2. \A u \in Turns : steer[u].stage \in Claimed => steer[u].request # r
        BY <1>2, <1>3 DEF QueueInv
    <2> QED BY <1>2, <1>4, <1>5, <1>6, <1>8, <2>1, <2>2 DEF QueueInv
<1>11. RowInv'
    BY <1>2, <1>5, <1>7 DEF RowInv, Recoverable
<1>12. PhaseInv'
    BY <1>2, <1>5, <1>7, RequestsAssumption DEF PhaseInv, QueueInv
<1>13. \A u \in Turns : Known(u) => Known(u)'
    BY <1>5, <1>7 DEF Known, AlreadyKnown, CancelledMeanwhile, Present
<1>14. \A q \in Requests : Unsent(q)' => Unsent(q)
    BY <1>5, <1>8 DEF Unsent
<1>15. \A q \in Requests : outcome'[q] \in Open => outcome[q] \in Open
    BY <1>8 DEF Open
<1> QED BY <1>5, <1>9, <1>10, <1>11, <1>12, <1>13, <1>14, <1>15, QuietStep

\* abort empties the queue and forgets its turns and the running one.
LEMMA AbortStep ==
    ASSUME Inv, Abort PROVE Inv'
<1> DEFINE found == ToSet(turnQueue) \cup ({currentTurn} \ {None})
           T == {TurnOf[r] : r \in found}
<1>1. /\ TypeOK /\ QueueInv /\ RowInv /\ PhaseInv
      /\ turnQueue \in Seq(Requests) /\ ToSet(turnQueue) \subseteq Requests
      /\ outcome \in [Requests -> Outcomes]
    BY QueueElements DEF Inv, TypeOK
<1>2. found \subseteq Requests /\ T \in SUBSET Turns
    BY <1>1, RequestsAssumption DEF TypeOK
<1>3. /\ ForgetTurns(T) /\ turnQueue' = <<>>
      /\ outcome' = [r \in Requests |->
            IF r \in ToSet(turnQueue) THEN "stopped" ELSE outcome[r]]
      /\ DropTargets /\ agentSession' = FALSE /\ aborted' = (phase # "idle")
      /\ stopped' = stopped \cup found
      /\ UNCHANGED <<transcript, durableReady, promoting, currentTurn, phase,
                     suspendingForRestart, sent, steered, restarts>>
    BY DEF Abort, TearDownNativeSessionState
<1>4. /\ pendingRows' \in [Turns -> Row] /\ durableTurns' \in [Turns -> RowStates]
      /\ cancelledDurableTurns' \subseteq Turns
      /\ \A u \in Turns \ T : /\ pendingRows'[u] = pendingRows[u]
                              /\ durableTurns'[u] = durableTurns[u]
      /\ \A u \in T : pendingRows'[u].state = "absent" /\ u \in cancelledDurableTurns'
      /\ cancelledDurableTurns \subseteq cancelledDurableTurns'
    BY <1>1, <1>2, <1>3, ForgetKeepsRows
<1>5. /\ steer' \in [Turns -> Steering]
      /\ \A u \in Turns : steer'[u].stage \in Claimed => steer'[u] = steer[u]
    BY <1>1, <1>3, DropTargetsEffect
<1> HIDE DEF found, T
<1>7. /\ outcome' \in [Requests -> Outcomes]
      /\ \A q \in Requests : /\ q \in ToSet(turnQueue) => outcome'[q] = "stopped"
                             /\ q \notin ToSet(turnQueue) => outcome'[q] = outcome[q]
    BY <1>1, <1>3 DEF Outcomes
<1>8. /\ turnQueue' \in Seq(Requests) /\ IsInjective(turnQueue') /\ ToSet(turnQueue') = {}
    BY <1>3 DEF IsInjective, ToSet
<1>9. TypeOK'
    BY <1>1, <1>2, <1>3, <1>4, <1>5, <1>7, <1>8 DEF TypeOK
<1>10. QueueInv'
    BY <1>1, <1>3, <1>5, <1>7, <1>8 DEF QueueInv
<1>11. RowInv'
    BY <1>1, <1>3, <1>4 DEF RowInv, Recoverable
<1>12. PhaseInv'
    BY <1>1, <1>3, <1>4, RequestsAssumption DEF PhaseInv, QueueInv
<1>13. \A u \in Turns : Known(u) => Known(u)'
    BY <1>3, <1>4 DEF Known, AlreadyKnown, CancelledMeanwhile, Present
<1>14. \A q \in Requests : Unsent(q)' => Unsent(q)
    BY <1>3, <1>7 DEF Unsent
<1>15. \A q \in Requests : outcome'[q] \in Open => outcome[q] \in Open
    BY <1>7 DEF Open
<1> QED BY <1>3, <1>9, <1>10, <1>11, <1>12, <1>13, <1>14, <1>15, QuietStep

\* promoteQueued reorders the queue and the queued rows.
LEMMA PromoteQueuedStep ==
    ASSUME Inv, NEW t \in Turns, PromoteQueued(t) PROVE Inv'
<1>1. PICK i \in DOMAIN turnQueue :
        /\ turnQueue' = <<turnQueue[i]>> \o RemoveAt(turnQueue, i)
        /\ promoting' \in {promoting, promoting \cup {turnQueue[i]}}
    BY DEF PromoteQueued
<1>2. /\ TypeOK /\ QueueInv /\ RowInv /\ PhaseInv
      /\ turnQueue \in Seq(Requests) /\ IsInjective(turnQueue)
      /\ pendingRows \in [Turns -> Row]
    BY DEF Inv, TypeOK, QueueInv
<1>3. turnQueue[i] \in Requests
    BY <1>2, ExtractFromQueue
<1>4. /\ turnQueue' \in Seq(Requests) /\ IsInjective(turnQueue')
      /\ ToSet(turnQueue') = ToSet(turnQueue)
    BY <1>1, <1>2, PromoteInQueue
<1>5. /\ pendingRows' = promotePendingSessionTurn(pendingRows, t) \/ pendingRows' = pendingRows
      /\ UNCHANGED <<transcript, durableReady, durableTurns, cancelledDurableTurns,
                     currentTurn, phase, aborted, agentSession, steer, suspendingForRestart,
                     outcome, sent, steered, stopped, restarts>>
    BY DEF PromoteQueued, history
<1>6. /\ pendingRows' \in [Turns -> Row]
      /\ \A u \in Turns : /\ pendingRows'[u].state = pendingRows[u].state
                          /\ pendingRows'[u].request = pendingRows[u].request
    BY <1>2, <1>5, PromotionKeepsRows
<1>7. promoting' \subseteq Requests
    BY <1>1, <1>2, <1>3 DEF TypeOK
<1>8. TypeOK'
    BY <1>2, <1>4, <1>5, <1>6, <1>7 DEF TypeOK
<1>9. QueueInv'
    BY <1>2, <1>4, <1>5 DEF QueueInv
<1>10. RowInv'
    BY <1>2, <1>5, <1>6 DEF RowInv
<1>11. PhaseInv'
    BY <1>2, <1>5, <1>6, RequestsAssumption DEF PhaseInv, QueueInv
<1>12. \A u \in Turns : Known(u) => Known(u)'
    BY <1>5, <1>6 DEF Known, AlreadyKnown, CancelledMeanwhile, Present
<1>13. \A q \in Requests : Unsent(q)' => Unsent(q)
    BY <1>5 DEF Unsent
<1> QED BY <1>5, <1>8, <1>9, <1>10, <1>11, <1>12, <1>13, QuietStep

\* suspendForRestart only sets its flag and takes the provider away.
LEMMA SuspendStep ==
    ASSUME Inv, SuspendForRestart PROVE Inv'
<1>1. /\ TypeOK /\ QueueInv /\ RowInv /\ PhaseInv
      /\ DropTargets /\ agentSession' = FALSE /\ aborted' \in BOOLEAN
      /\ suspendingForRestart' = TRUE
      /\ UNCHANGED <<pendingRows, transcript, turnQueue, durableReady, durableTurns,
                     cancelledDurableTurns, promoting, currentTurn, phase, outcome, sent,
                     steered, stopped, restarts>>
    BY DEF Inv, SuspendForRestart, TearDownNativeSessionState, durableVars, history
<1>2. /\ steer' \in [Turns -> Steering]
      /\ \A u \in Turns : steer'[u].stage \in Claimed => steer'[u] = steer[u]
    BY <1>1, DropTargetsEffect
<1>3. TypeOK'
    BY <1>1, <1>2 DEF TypeOK
<1>4. QueueInv'
    BY <1>1, <1>2 DEF QueueInv
<1>5. RowInv' /\ PhaseInv'
    BY <1>1 DEF RowInv, PhaseInv
<1>6. \A u \in Turns : Known(u) => Known(u)'
    BY <1>1 DEF Known, AlreadyKnown, CancelledMeanwhile, Present
<1>7. \A q \in Requests : Unsent(q)' => Unsent(q)
    BY <1>1 DEF Unsent
<1> QED BY <1>1, <1>3, <1>4, <1>5, <1>6, <1>7, QuietStep

-----------------------------------------------------------------------------
\* Steps of steerQueued that leave the requests and the queue where they are.
LEMMA SteerOnlyStep ==
    ASSUME Inv, NEW t \in Turns,
           \/ SteerCapture(t) \/ SteerGivesUp(t) \/ ProviderAcceptsSteer(t)
           \/ SteerLooksUp(t)
    PROVE  Inv'
<1>1. /\ TypeOK /\ QueueInv /\ RowInv /\ PhaseInv
      /\ steered' \in {steered, steered \cup {t}}
      /\ UNCHANGED <<pendingRows, transcript, turnQueue, durableReady, durableTurns,
                     cancelledDurableTurns, promoting, currentTurn, phase, aborted,
                     agentSession, suspendingForRestart, outcome, sent, stopped, restarts>>
    BY DEF Inv, SteerCapture, SteerGivesUp, ProviderAcceptsSteer, SteerLooksUp, durableVars,
       drainVars, history
<1>2. PICK s \in Steering : /\ steer' = [steer EXCEPT ![t] = s]
                            /\ s.stage \in Claimed =>
                                  /\ steer[t].stage \in Claimed
                                  /\ s.request = steer[t].request /\ s.index = steer[t].index
    <2>1. steer[t] \in Steering /\ currentTurn \in Requests \cup {None}
        BY <1>1 DEF TypeOK
    <2>2. CASE SteerCapture(t)
        <3> DEFINE s == [NoSteer EXCEPT !.stage = "preparing", !.target = currentTurn]
        <3>1. s \in Steering /\ s.stage = "preparing"
            BY <2>1 DEF NoSteer, Steering, Stages
        <3>2. steer' = [steer EXCEPT ![t] = s]
            BY <2>2 DEF SteerCapture
        <3> QED BY <3>1, <3>2 DEF Claimed
    <2>3. CASE SteerGivesUp(t)
        <3>1. NoSteer \in Steering /\ NoSteer.stage = "none"
            BY DEF NoSteer, Steering, Stages
        <3> QED BY <2>3, <3>1 DEF SteerGivesUp, Claimed
    <2>4. CASE ProviderAcceptsSteer(t)
        <3> DEFINE s == [steer[t] EXCEPT !.stage = "accepted"]
        <3>1. /\ s \in Steering /\ s.stage = "accepted"
              /\ s.request = steer[t].request /\ s.index = steer[t].index
            BY <2>1 DEF Steering, Stages
        <3>2. steer' = [steer EXCEPT ![t] = s] /\ steer[t].stage = "delivering"
            BY <2>4 DEF ProviderAcceptsSteer
        <3> QED BY <3>1, <3>2 DEF Claimed
    <2>5. CASE SteerLooksUp(t)
        <3> DEFINE next == IF UserRowFound(t) THEN "written" ELSE "writing"
                   s == [steer[t] EXCEPT !.stage = next]
        <3>1. next \in Stages
            BY DEF Stages
        <3>2. /\ s \in Steering /\ s.request = steer[t].request /\ s.index = steer[t].index
            BY <2>1, <3>1 DEF Steering
        <3>3. steer' = [steer EXCEPT ![t] = s] /\ steer[t].stage = "accepted"
            BY <2>5 DEF SteerLooksUp
        <3> QED BY <3>2, <3>3 DEF Claimed
    <2> QED BY <2>2, <2>3, <2>4, <2>5
<1>3. /\ steer' \in [Turns -> Steering]
      /\ \A u \in Turns : steer'[u].stage \in Claimed =>
            /\ steer[u].stage \in Claimed
            /\ steer'[u].request = steer[u].request /\ steer'[u].index = steer[u].index
    <2>1. steer \in [Turns -> Steering]
        BY <1>1 DEF TypeOK
    <2>2. steer' \in [Turns -> Steering] /\ steer'[t] = s
        BY <1>2, <2>1
    <2>3. \A u \in Turns : u # t => steer'[u] = steer[u]
        BY <1>2, <2>1
    <2> QED BY <1>2, <2>2, <2>3
<1>4. TypeOK'
    <2>1. steered' \subseteq Turns
        BY <1>1 DEF TypeOK
    <2> QED BY <1>1, <1>3, <2>1 DEF TypeOK
<1>8. QueueInv'
    BY <1>1, <1>3 DEF QueueInv
<1>5. RowInv' /\ PhaseInv'
    BY <1>1 DEF RowInv, PhaseInv
<1>6. \A u \in Turns : Known(u) => Known(u)'
    BY <1>1 DEF Known, AlreadyKnown, CancelledMeanwhile, Present
<1>7. \A q \in Requests : Unsent(q)' => Unsent(q)
    BY <1>1 DEF Unsent
<1> QED BY <1>1, <1>4, <1>5, <1>6, <1>7, <1>8, QuietStep

\* steerQueued extracts the turn: the request moves from the queue to the claim.
LEMMA SteerClaimStep ==
    ASSUME Inv, NEW t \in Turns, SteerClaim(t) PROVE Inv'
<1>1. PICK i \in DOMAIN turnQueue :
        /\ TurnOf[turnQueue[i]] = t
        /\ turnQueue' = RemoveAt(turnQueue, i)
        /\ steer' = [steer EXCEPT ![t].stage = "delivering",
                                  ![t].request = turnQueue[i], ![t].index = i]
    BY DEF SteerClaim, IsFirst, Extracted
<1>2. /\ TypeOK /\ QueueInv /\ RowInv /\ PhaseInv
      /\ turnQueue \in Seq(Requests) /\ IsInjective(turnQueue)
      /\ UNCHANGED <<pendingRows, transcript, durableReady, durableTurns,
                     cancelledDurableTurns, promoting, currentTurn, phase, aborted,
                     agentSession, suspendingForRestart, outcome, sent, steered, stopped, restarts>>
    BY DEF Inv, TypeOK, QueueInv, SteerClaim, durableVars, history
<1>3. PICK r \in Requests : r = turnQueue[i] /\ r \in ToSet(turnQueue)
    BY <1>2, ExtractFromQueue
<1>4. /\ turnQueue' \in Seq(Requests) /\ IsInjective(turnQueue')
      /\ ToSet(turnQueue') = ToSet(turnQueue) \ {r}
    BY <1>1, <1>2, <1>3, ExtractFromQueue
<1>5. /\ steer' \in [Turns -> Steering]
      /\ steer'[t].request = r /\ steer'[t].index > 0
      /\ \A u \in Turns : u # t => steer'[u] = steer[u]
    <2> DEFINE s == [steer[t] EXCEPT !.stage = "delivering", !.request = turnQueue[i], !.index = i]
    <2>1. steer[t] \in Steering /\ i \in Nat /\ i > 0 /\ steer \in [Turns -> Steering]
        BY <1>2, QueueElements DEF TypeOK
    <2>2. s \in Steering /\ s.request = r /\ s.index = i
        BY <1>3, <2>1 DEF Steering, Stages
    <2>3. steer' = [steer EXCEPT ![t] = s]
        BY <1>1, <2>1 DEF Steering
    <2> HIDE DEF s
    <2> QED BY <2>1, <2>2, <2>3
<1>6. TypeOK'
    BY <1>2, <1>4, <1>5 DEF TypeOK
<1>7. QueueInv'
    BY <1>1, <1>2, <1>3, <1>4, <1>5 DEF QueueInv
<1>8. RowInv' /\ PhaseInv'
    BY <1>2 DEF RowInv, PhaseInv
<1>9. \A u \in Turns : Known(u) => Known(u)'
    BY <1>2 DEF Known, AlreadyKnown, CancelledMeanwhile, Present
<1>10. \A q \in Requests : Unsent(q)' => Unsent(q)
    BY <1>2 DEF Unsent
<1> QED BY <1>2, <1>6, <1>7, <1>8, <1>9, <1>10, QuietStep

\* A declined steer returns the request to the queue, which may start a drain.
LEMMA SteerDeclinedStep ==
    ASSUME Inv, NEW t \in Turns, SteerDeclined(t) PROVE Inv'
<1> DEFINE r == steer[t].request
           at == IF steer[t].index <= Len(turnQueue) + 1 THEN steer[t].index ELSE Len(turnQueue) + 1
           q == InsertAt(turnQueue, at, r)
<1>1. /\ TypeOK /\ QueueInv /\ RowInv /\ PhaseInv
      /\ turnQueue \in Seq(Requests) /\ IsInjective(turnQueue) /\ aborted \in BOOLEAN
      /\ steer' = [steer EXCEPT ![t] = NoSteer]
      /\ steer[t].stage = "delivering" /\ Enqueued(q)
      /\ UNCHANGED <<pendingRows, transcript, durableReady, durableTurns,
                     cancelledDurableTurns, promoting, agentSession, suspendingForRestart,
                     outcome, sent, steered, stopped, restarts>>
    BY DEF Inv, TypeOK, QueueInv, SteerDeclined, RestoreToQueue, durableVars, history
<1>2. /\ r \in Requests /\ r \notin ToSet(turnQueue) /\ r # currentTurn
      /\ TurnOf[r] = t /\ outcome[r] = "pending" /\ steer[t].index > 0
    BY <1>1 DEF QueueInv, Claimed
<1>3. at \in 1..(Len(turnQueue) + 1)
    <2>1. steer[t].index \in Nat /\ Len(turnQueue) \in Nat
        BY <1>1 DEF TypeOK, Steering
    <2> QED BY <1>2, <2>1
<1> HIDE DEF at
<1>4. /\ q \in Seq(Requests) /\ IsInjective(q) /\ ToSet(q) = ToSet(turnQueue) \cup {r}
    BY <1>1, <1>2, <1>3, RestoreIntoQueue
<1> HIDE DEF q, r
<1>5. /\ turnQueue' \in Seq(Requests) /\ IsInjective(turnQueue')
      /\ ToSet(turnQueue') \subseteq ToSet(turnQueue) \cup {r}
      /\ aborted' \in BOOLEAN
      /\ \/ phase # "idle" /\ UNCHANGED <<phase, currentTurn>>
         \/ phase = "idle" /\ phase' = "idle" /\ currentTurn' = None
         \/ /\ phase = "idle" /\ phase' = "accepting"
            /\ currentTurn' \in ToSet(turnQueue) \cup {r}
            /\ currentTurn' \notin ToSet(turnQueue')
            /\ currentTurn' \in Requests
    BY <1>1, <1>4, EnqueuedEffect
<1>6. /\ steer' \in [Turns -> Steering] /\ steer'[t].stage = "none"
      /\ \A u \in Turns : u # t => steer'[u] = steer[u]
    <2>1. NoSteer \in Steering /\ NoSteer.stage = "none"
        BY DEF NoSteer, Steering, Stages
    <2> QED BY <1>1, <2>1 DEF TypeOK
<1>7. TypeOK'
    BY <1>1, <1>5, <1>6 DEF TypeOK, Phases, InTurn
<1>8. QueueInv'
    <2>1. \A p \in ToSet(turnQueue') : outcome'[p] = "pending" /\ p # currentTurn'
        BY <1>1, <1>2, <1>5, NoneAssumption DEF QueueInv
    <2>2. \A u \in Turns : steer'[u].stage \in Claimed =>
          /\ u # t /\ steer'[u] = steer[u] /\ steer[u].request # r
        BY <1>1, <1>2, <1>6 DEF QueueInv, Claimed
    <2>3. \A u \in Turns : steer'[u].stage \in Claimed =>
          /\ steer'[u].request \in Requests /\ steer'[u].index > 0
          /\ TurnOf[steer'[u].request] = u
          /\ outcome'[steer'[u].request] = "pending"
          /\ steer'[u].request # currentTurn'
          /\ steer'[u].request \notin ToSet(turnQueue')
        BY <1>1, <1>5, <2>2, NoneAssumption DEF QueueInv
    <2>4. IF phase' = "idle" THEN currentTurn' = None
          ELSE currentTurn' \in Requests /\ outcome'[currentTurn'] = "pending"
        BY <1>1, <1>2, <1>5 DEF QueueInv
    <2> QED BY <1>1, <1>5, <2>1, <2>3, <2>4 DEF QueueInv
<1>9. RowInv' /\ PhaseInv'
    BY <1>1, <1>5 DEF RowInv, PhaseInv
<1>10. \A u \in Turns : Known(u) => Known(u)'
    BY <1>1 DEF Known, AlreadyKnown, CancelledMeanwhile, Present
<1>11. \A p \in Requests : Unsent(p)' => Unsent(p)
    BY <1>1, <1>5 DEF Unsent
<1> QED BY <1>1, <1>7, <1>8, <1>9, <1>10, <1>11, QuietStep

\* An accepted steer writes its user row, or fails to.
LEMMA SteerAppendsStep ==
    ASSUME Inv, NEW t \in Turns, SteerAppends(t) PROVE Inv'
<1>1. /\ TypeOK /\ QueueInv /\ RowInv /\ PhaseInv
      /\ steer \in [Turns -> Steering] /\ transcript \in [Turns -> Nat]
      /\ steer' = [steer EXCEPT ![t].stage = "written"] /\ steer[t].stage = "writing"
      /\ transcript' \in {transcript, [transcript EXCEPT ![t] = @ + 1]}
      /\ UNCHANGED <<pendingRows, turnQueue, durableReady, durableTurns,
                     cancelledDurableTurns, promoting, currentTurn, phase, aborted,
                     agentSession, suspendingForRestart, outcome, sent, steered, stopped,
                     restarts>>
    BY DEF Inv, TypeOK, SteerAppends, UserRowAppended, drainVars, history
<1>2. /\ transcript' \in [Turns -> Nat]
      /\ \A u \in Turns : transcript[u] > 0 => transcript'[u] > 0
    BY <1>1
<1>3. /\ steer' \in [Turns -> Steering]
      /\ \A u \in Turns : steer'[u].stage \in Claimed =>
            /\ steer[u].stage \in Claimed
            /\ steer'[u].request = steer[u].request /\ steer'[u].index = steer[u].index
    <2> DEFINE s == [steer[t] EXCEPT !.stage = "written"]
    <2>1. /\ s \in Steering /\ s.request = steer[t].request /\ s.index = steer[t].index
        BY <1>1 DEF Steering, Stages
    <2>2. steer' = [steer EXCEPT ![t] = s] /\ steer[t].stage \in Claimed
        BY <1>1 DEF Claimed
    <2> HIDE DEF s
    <2>3. steer'[t] = s /\ \A u \in Turns : u # t => steer'[u] = steer[u]
        BY <1>1, <2>2
    <2> QED BY <1>1, <2>1, <2>2, <2>3
<1>4. TypeOK'
    BY <1>1, <1>2, <1>3 DEF TypeOK
<1>5. QueueInv'
    BY <1>1, <1>3 DEF QueueInv
<1>6. RowInv'
    BY <1>1, <1>2 DEF RowInv
<1>7. PhaseInv'
    BY <1>1, <1>2, RequestsAssumption DEF PhaseInv, QueueInv
<1>8. \A u \in Turns : Known(u) => Known(u)'
    BY <1>1, <1>2 DEF Known, AlreadyKnown, CancelledMeanwhile, Present
<1>9. \A q \in Requests : Unsent(q)' => Unsent(q)
    BY <1>1 DEF Unsent
<1> QED BY <1>1, <1>4, <1>5, <1>6, <1>7, <1>8, <1>9, QuietStep

\* An accepted steer settles its turn: its row and its request are gone.
LEMMA SteerSettlesStep ==
    ASSUME Inv, NEW t \in Turns, SteerSettles(t) PROVE Inv'
<1>1. /\ TypeOK /\ QueueInv /\ RowInv /\ PhaseInv
      /\ steer' = [steer EXCEPT ![t] = NoSteer] /\ steer[t].stage = "written"
      /\ steer \in [Turns -> Steering] /\ outcome \in [Requests -> Outcomes]
      /\ transcript' = transcript
      /\ UNCHANGED <<turnQueue, durableReady, promoting, currentTurn, phase, aborted,
                     agentSession, suspendingForRestart, sent, steered, stopped, restarts>>
    BY DEF Inv, TypeOK, SteerSettles, drainVars, history
<1>2. PICK r \in Requests :
        /\ r = steer[t].request /\ r \notin ToSet(turnQueue) /\ r # currentTurn
        /\ TurnOf[r] = t /\ outcome[r] = "pending"
    BY <1>1 DEF QueueInv, Claimed
<1>3. outcome' = [outcome EXCEPT ![r] = "steered"]
    BY <1>1, <1>2 DEF SteerSettles, Settle
<1>4. /\ outcome' \in [Requests -> Outcomes] /\ outcome'[r] = "steered"
      /\ \A q \in Requests : q # r => outcome'[q] = outcome[q]
    BY <1>1, <1>3 DEF Outcomes
<1>6. /\ pendingRows' \in [Turns -> Row] /\ durableTurns' \in [Turns -> RowStates]
      /\ cancelledDurableTurns' \subseteq Turns
      /\ \A u \in Turns : u # t =>
            /\ pendingRows'[u] = pendingRows[u] /\ durableTurns'[u] = durableTurns[u]
            /\ u \in cancelledDurableTurns => u \in cancelledDurableTurns'
      /\ \/ pendingRows'[t].state = "absent"
         \/ pendingRows'[t] = pendingRows[t] /\ durableTurns'[t] = durableTurns[t]
    <2>1. NoRow \in Row /\ NoRow.state = "absent" /\ "absent" \in RowStates
        BY DEF NoRow, Row, RowStates
    <2>2. /\ pendingRows \in [Turns -> Row] /\ durableTurns \in [Turns -> RowStates]
          /\ cancelledDurableTurns \subseteq Turns
        BY <1>1 DEF TypeOK
    <2>3. SettleDurableTurn(t)
        BY DEF SteerSettles
    <2> QED BY <2>1, <2>2, <2>3 DEF SettleDurableTurn
<1>7. /\ steer' \in [Turns -> Steering] /\ steer'[t].stage = "none"
      /\ \A u \in Turns : u # t => steer'[u] = steer[u]
    <2>1. NoSteer \in Steering /\ NoSteer.stage = "none"
        BY DEF NoSteer, Steering, Stages
    <2> QED BY <1>1, <2>1
<1>8. TypeOK'
    BY <1>1, <1>4, <1>6, <1>7 DEF TypeOK
<1>9. QueueInv'
    <2>1. \A p \in ToSet(turnQueue') : p \in Requests /\ outcome'[p] = "pending" /\ p # currentTurn'
        <3>1. ToSet(turnQueue) \subseteq Requests
            BY <1>1, QueueElements DEF TypeOK
        <3> QED BY <1>1, <1>2, <1>4, <3>1 DEF QueueInv
    <2>2. \A u \in Turns : steer'[u].stage \in Claimed =>
          /\ u # t /\ steer'[u] = steer[u] /\ steer[u].request # r
        BY <1>1, <1>2, <1>7 DEF QueueInv, Claimed
    <2>3. \A u \in Turns : steer'[u].stage \in Claimed =>
          /\ steer'[u].request \in Requests /\ steer'[u].index > 0
          /\ TurnOf[steer'[u].request] = u
          /\ outcome'[steer'[u].request] = "pending"
          /\ steer'[u].request # currentTurn'
          /\ steer'[u].request \notin ToSet(turnQueue')
        BY <1>1, <1>4, <2>2 DEF QueueInv
    <2>4. IF phase' = "idle" THEN currentTurn' = None
          ELSE currentTurn' \in Requests /\ outcome'[currentTurn'] = "pending"
        BY <1>1, <1>2, <1>4 DEF QueueInv
    <2>5. \A p \in Requests : outcome'[p] = "new" => durableReady'[p] = "new"
        BY <1>1, <1>4 DEF QueueInv
    <2>6. IsInjective(turnQueue')
        BY <1>1 DEF QueueInv
    <2> QED BY <2>1, <2>3, <2>4, <2>5, <2>6 DEF QueueInv
<1>10. RowInv'
    <2> SUFFICES ASSUME NEW u \in Turns
                 PROVE  /\ pendingRows'[u].state # "absent" =>
                              /\ durableTurns'[u] = pendingRows'[u].state
                              /\ pendingRows'[u].request \in Requests
                              /\ TurnOf[pendingRows'[u].request] = u
                        /\ sent'[u] > 0 => transcript'[u] > 0
                        /\ pendingRows'[u].state \in Recoverable => sent'[u] = 0
        BY DEF RowInv
    <2>1. sent'[u] > 0 => transcript'[u] > 0
        BY <1>1 DEF RowInv
    <2>2. CASE pendingRows'[u].state = "absent"
        BY <2>1, <2>2 DEF Recoverable
    <2>3. CASE pendingRows'[u] = pendingRows[u] /\ durableTurns'[u] = durableTurns[u]
        BY <1>1, <2>1, <2>3 DEF RowInv
    <2> QED BY <1>6, <2>2, <2>3
<1>11. PhaseInv'
    <2>1. phase = "dispatching" =>
             pendingRows'[TurnOf[currentTurn]].state \in {"absent", "dispatching"}
        BY <1>1, <1>6, RequestsAssumption DEF PhaseInv, QueueInv
    <2>2. phase \in {"opening", "dispatching", "running"} => transcript'[TurnOf[currentTurn]] > 0
        BY <1>1, RequestsAssumption DEF PhaseInv, QueueInv
    <2> QED BY <1>1, <2>1, <2>2 DEF PhaseInv
<1>12. SentOnce'
    BY <1>1 DEF Inv, SentOnce
<1>13. RivalInv'
    <2>1. \A p \in Requests : Unsent(p)' => Unsent(p) /\ sent'[TurnOf[p]] = sent[TurnOf[p]]
        BY <1>1, <1>4 DEF Unsent
    <2>2. ~Unsent(r)' /\ outcome'[r] \notin Open
        BY <1>4 DEF Unsent, Open
    <2>3. \A q \in Requests : outcome'[q] \in Open => outcome[q] \in Open
        BY <1>4 DEF Open
    <2>4. \A u \in Turns : Known(u) => Known(u)' \/ u = t
        BY <1>1, <1>6 DEF Known, AlreadyKnown, CancelledMeanwhile, Present
    <2>5. \A u \in Turns : Known(u) =>
              \/ Known(u)'
              \/ \E e \in Requests : /\ TurnOf[e] = u /\ ~Unsent(e)'
                                     /\ outcome'[e] \notin Open \/ durableReady'[e] = "no"
        BY <1>2, <2>2, <2>4
    <2> QED BY <1>1, <1>4, <2>1, <2>3, <2>5, RivalKept
<1> QED BY <1>8, <1>9, <1>10, <1>11, <1>12, <1>13 DEF Inv

-----------------------------------------------------------------------------
\* restoreDurableTurns queues the stored request of every recoverable row, once.
LEMMA RestartEffect ==
    ASSUME Inv, Restart
    PROVE  \E queue \in Seq(Requests) :
             /\ IsInjective(queue)
             /\ ToSet(queue) = {pendingRows[t].request :
                    t \in {u \in Turns : pendingRows[u].state \in Recoverable}}
             /\ turnQueue' = IF queue = <<>> THEN queue ELSE Tail(queue)
             /\ currentTurn' = IF queue = <<>> THEN None ELSE Head(queue)
             /\ phase' = IF queue = <<>> THEN "idle" ELSE "accepting"
             /\ outcome' = [r \in Requests |->
                   IF r \in ToSet(queue) THEN "pending"
                   ELSE IF outcome[r] = "pending" THEN "lost" ELSE outcome[r]]
             /\ durableReady' = [r \in Requests |->
                   IF r \in ToSet(queue) THEN "yes"
                   ELSE IF durableReady[r] = "persisting" THEN "no" ELSE durableReady[r]]
<1> DEFINE R == {t \in Turns : pendingRows[t].state \in Recoverable}
<1>1. PICK order \in SetToSeqs(R) :
          LET queue == [i \in DOMAIN order |-> pendingRows[order[i]].request] IN
          /\ turnQueue' = IF queue = <<>> THEN queue ELSE Tail(queue)
          /\ currentTurn' = IF queue = <<>> THEN None ELSE Head(queue)
          /\ phase' = IF queue = <<>> THEN "idle" ELSE "accepting"
          /\ outcome' = [r \in Requests |->
                IF r \in ToSet(queue) THEN "pending"
                ELSE IF outcome[r] = "pending" THEN "lost" ELSE outcome[r]]
          /\ durableReady' = [r \in Requests |->
                IF r \in ToSet(queue) THEN "yes"
                ELSE IF durableReady[r] = "persisting" THEN "no" ELSE durableReady[r]]
    BY DEF Restart
<1> DEFINE queue == [i \in DOMAIN order |-> pendingRows[order[i]].request]
           n == Cardinality(R)
<1>2. IsFiniteSet(R) /\ n \in Nat
    BY RequestsAssumption, FS_Subset, FS_CardinalityType
<1>3. order \in [1..n -> R] /\ \A i, j \in 1..n : i # j => order[i] # order[j]
    BY <1>1 DEF SetToSeqs
<1>4. \A t \in R : pendingRows[t].request \in Requests /\ TurnOf[pendingRows[t].request] = t
    BY DEF Inv, RowInv, Recoverable
<1> HIDE DEF R, n
<1>5. \A t \in R : \E i \in 1..n : order[i] = t
    <2>1. IsFiniteSet(1..n) /\ Cardinality(1..n) = n
        BY <1>2, FS_Interval
    <2>2. order \in Injection(1..n, R)
        BY <1>3 DEF Injection, IsInjective
    <2>3. order \in Surjection(1..n, R)
        BY <1>2, <2>1, <2>2, FS_Injection DEF n
    <2> QED BY <2>3 DEF Surjection
<1>6. /\ DOMAIN order = 1..n
      /\ \A i \in 1..n : order[i] \in R /\ queue[i] = pendingRows[order[i]].request
    BY <1>3
<1>7. \A i \in 1..n : queue[i] \in Requests /\ TurnOf[queue[i]] = order[i]
    BY <1>4, <1>6
<1>8. DOMAIN queue = 1..n /\ queue = [i \in 1..n |-> queue[i]]
    BY <1>6
<1> HIDE DEF queue
<1>9. queue \in Seq(Requests)
    BY <1>2, <1>7, <1>8
<1>10. IsInjective(queue)
    BY <1>3, <1>7, <1>8 DEF IsInjective
<1>11. ToSet(queue) = {pendingRows[t].request : t \in R}
    BY <1>5, <1>6, <1>8 DEF ToSet
<1> QED BY <1>1, <1>9, <1>10, <1>11 DEF queue, R

\* A restart: what is queued again are the stored requests of turns that were
\* never sent, one per turn.
LEMMA RestartStep ==
    ASSUME Inv, Restart PROVE Inv'
<1> DEFINE R == {t \in Turns : pendingRows[t].state \in Recoverable}
<1>1. /\ TypeOK /\ QueueInv /\ RowInv
      /\ pendingRows \in [Turns -> Row] /\ outcome \in [Requests -> Outcomes]
    BY DEF Inv, TypeOK
<1>2. PICK queue \in Seq(Requests) :
          /\ IsInjective(queue)
          /\ ToSet(queue) = {pendingRows[t].request : t \in R}
          /\ turnQueue' = IF queue = <<>> THEN queue ELSE Tail(queue)
          /\ currentTurn' = IF queue = <<>> THEN None ELSE Head(queue)
          /\ phase' = IF queue = <<>> THEN "idle" ELSE "accepting"
          /\ outcome' = [r \in Requests |->
                IF r \in ToSet(queue) THEN "pending"
                ELSE IF outcome[r] = "pending" THEN "lost" ELSE outcome[r]]
          /\ durableReady' = [r \in Requests |->
                IF r \in ToSet(queue) THEN "yes"
                ELSE IF durableReady[r] = "persisting" THEN "no" ELSE durableReady[r]]
    BY RestartEffect
<1>4. \A t \in R : /\ t \in Turns /\ pendingRows[t].request \in Requests
                   /\ TurnOf[pendingRows[t].request] = t /\ sent[t] = 0
                   /\ pendingRows[t].state # "absent"
    BY <1>1 DEF RowInv, Recoverable
<1> HIDE DEF R
<1>5. /\ queue \in Seq(Requests) /\ IsInjective(queue)
      /\ \A r \in ToSet(queue) : TurnOf[r] \in R /\ pendingRows[TurnOf[r]].request = r
    BY <1>2, <1>4
<1>7. /\ restarts' \in 0..MaxRestarts
      /\ suspendingForRestart' = FALSE /\ aborted' = FALSE /\ agentSession' = FALSE
      /\ cancelledDurableTurns' = {} /\ promoting' = {}
      /\ steer' = [t \in Turns |-> NoSteer]
      /\ pendingRows' = [t \in Turns |-> RestoredRow(pendingRows[t])]
      /\ durableTurns' = [t \in Turns |-> RestoredRow(pendingRows[t]).state]
      /\ UNCHANGED <<transcript, sent, steered, stopped>>
    <2>1. restarts < MaxRestarts /\ restarts' = restarts + 1 /\ restarts \in 0..MaxRestarts
        BY <1>1 DEF Restart, TypeOK
    <2>2. restarts' \in 0..MaxRestarts
        BY <2>1, BoundAssumption
    <2> QED BY <2>2 DEF Restart
<1>8. /\ turnQueue' \in Seq(Requests) /\ IsInjective(turnQueue')
      /\ ToSet(turnQueue') \subseteq ToSet(queue)
      /\ \/ phase' = "idle" /\ currentTurn' = None
         \/ /\ phase' = "accepting" /\ currentTurn' \in ToSet(queue)
            /\ currentTurn' \notin ToSet(turnQueue') /\ currentTurn' \in Requests
    <2>1. CASE queue = <<>>
        BY <1>5, <1>2, <2>1
    <2>2. CASE queue # <<>>
        <3>1. /\ Head(queue) \in ToSet(queue) /\ Tail(queue) \in Seq(Requests)
              /\ IsInjective(Tail(queue)) /\ ToSet(Tail(queue)) = ToSet(queue) \ {Head(queue)}
            BY <1>5, <2>2, ShiftQueue
        <3>2. Head(queue) \in Requests
            BY <1>5, <3>1, QueueElements
        <3> QED BY <1>2, <2>2, <3>1, <3>2
    <2> QED BY <2>1, <2>2
<1>9. ToSet(queue) \subseteq Requests
    BY <1>5, QueueElements
<1>10. \A t \in Turns : /\ pendingRows'[t] \in Row
                        /\ pendingRows'[t].state \in {"absent", "queued", "sleeping"}
                        /\ durableTurns'[t] = pendingRows'[t].state
                        /\ pendingRows'[t].state # "absent" => t \in R /\ pendingRows'[t] = pendingRows[t]
                        /\ t \in R => pendingRows'[t].state # "absent"
    <2>1. NoRow \in Row /\ NoRow.state = "absent"
        BY DEF NoRow, Row, RowStates
    <2>2. \A t \in Turns : t \in R <=> pendingRows[t].state \in Recoverable
        BY DEF R
    <2> QED BY <1>1, <1>7, <2>1, <2>2 DEF RestoredRow, Recoverable
<1>11. /\ outcome' \in [Requests -> Outcomes]
       /\ \A r \in Requests : /\ r \in ToSet(queue) => outcome'[r] = "pending" /\ durableReady'[r] = "yes"
                              /\ outcome'[r] = "pending" => r \in ToSet(queue)
                              /\ outcome'[r] = "new" => outcome[r] = "new" /\ r \notin ToSet(queue)
    BY <1>1, <1>2 DEF Outcomes
<1>12. TypeOK'
    <2>1. durableReady' \in [Requests -> {"new", "persisting", "yes", "no", "failed"}]
        BY <1>1, <1>2 DEF TypeOK
    <2>2. steer' \in [Turns -> Steering]
        BY <1>7 DEF NoSteer, Steering, Stages
    <2>3. pendingRows' \in [Turns -> Row] /\ durableTurns' \in [Turns -> RowStates]
        BY <1>7, <1>10 DEF RowStates
    <2>4. currentTurn' \in Requests \cup {None} /\ phase' \in Phases
        BY <1>8 DEF Phases, InTurn
    <2> QED BY <1>1, <1>7, <1>8, <1>11, <2>1, <2>2, <2>3, <2>4 DEF TypeOK
<1>13. \A r \in Requests : outcome'[r] = "new" => durableReady'[r] = "new"
    BY <1>1, <1>2, <1>11 DEF QueueInv
<1>14. QueueInv'
    <2>1. \A t \in Turns : steer'[t].stage = "none"
        BY <1>7 DEF NoSteer
    <2>2. \A r \in ToSet(turnQueue') : outcome'[r] = "pending" /\ r # currentTurn'
        BY <1>8, <1>9, <1>11, NoneAssumption
    <2>3. IF phase' = "idle" THEN currentTurn' = None
          ELSE currentTurn' \in Requests /\ outcome'[currentTurn'] = "pending"
        BY <1>8, <1>11
    <2> QED BY <1>8, <1>13, <2>1, <2>2, <2>3 DEF QueueInv, Claimed
<1>15. RowInv'
    <2> SUFFICES ASSUME NEW t \in Turns
                 PROVE  /\ pendingRows'[t].state # "absent" =>
                              /\ durableTurns'[t] = pendingRows'[t].state
                              /\ pendingRows'[t].request \in Requests
                              /\ TurnOf[pendingRows'[t].request] = t
                        /\ sent'[t] > 0 => transcript'[t] > 0
                        /\ pendingRows'[t].state \in Recoverable => sent'[t] = 0
        BY DEF RowInv
    <2>1. sent'[t] > 0 => transcript'[t] > 0
        BY <1>1, <1>7 DEF RowInv
    <2>2. CASE pendingRows'[t].state = "absent"
        BY <2>1, <2>2 DEF Recoverable
    <2>3. CASE pendingRows'[t].state # "absent"
        BY <1>4, <1>7, <1>10, <2>1, <2>3
    <2> QED BY <2>2, <2>3
<1>16. PhaseInv' /\ SentOnce'
    BY <1>7, <1>8 DEF Inv, PhaseInv, SentOnce
<1>17. RivalInv'
    <2> SUFFICES ASSUME NEW r \in Requests, Unsent(r)'
                 PROVE  sent'[TurnOf[r]] = 0 /\ NoRival(r)'
        BY DEF RivalInv
    <2>1. r \in ToSet(queue) /\ TurnOf[r] \in R /\ pendingRows[TurnOf[r]].request = r
        BY <1>5, <1>11 DEF Unsent
    <2>2. sent'[TurnOf[r]] = 0
        BY <1>4, <1>7, <2>1
    <2>3. Known(TurnOf[r])'
        BY <1>4, <1>10, <2>1 DEF Known, AlreadyKnown, Present
    <2>4. ASSUME NEW q \in Requests, q # r, TurnOf[q] = TurnOf[r], outcome'[q] \in Open
          PROVE  durableReady'[q] # "yes"
        <3>1. q \notin ToSet(queue)
            BY <1>5, <2>1, <2>4
        <3> QED BY <1>11, <1>13, <2>4, <3>1 DEF Open
    <2> QED BY <2>2, <2>3, <2>4 DEF NoRival, Known, Open
<1> QED BY <1>12, <1>14, <1>15, <1>16, <1>17 DEF Inv

-----------------------------------------------------------------------------
\* The invariant speaks of the specification's variables only.
LEMMA StutterInv == Inv /\ UNCHANGED vars => Inv'
<1> SUFFICES ASSUME Inv, UNCHANGED vars PROVE Inv'
    OBVIOUS
<1> USE DEF vars
<1>1. TypeOK'
    BY DEF Inv, TypeOK
<1>2. QueueInv'
    BY DEF Inv, QueueInv
<1>3. RowInv'
    BY DEF Inv, RowInv
<1>4. PhaseInv' /\ SentOnce'
    BY DEF Inv, PhaseInv, SentOnce
<1>5. RivalInv'
    BY DEF Inv, RivalInv, NoRival, Unsent, AlreadyKnown, CancelledMeanwhile, Present
<1> QED BY <1>1, <1>2, <1>3, <1>4, <1>5 DEF Inv

\* Every step of the queue, of the drain loop, of steering, of the user and of
\* the process keeps the inductive invariant.
LEMMA NextInv == Inv /\ [Next]_vars => Inv'
<1> SUFFICES ASSUME Inv, [Next]_vars PROVE Inv'
    OBVIOUS
<1>1. CASE UNCHANGED vars
    BY <1>1, StutterInv
<1>2. ASSUME NEW r \in Requests, RunQuery(r) \/ PersistDurableTurn(r) \/ PersistFails(r)
      PROVE  Inv'
    BY <1>2, RunQueryStep, PersistEndsStep, PersistInsertedStep DEF PersistDurableTurn
<1>3. CASE DrainStep
    BY <1>3, EndOfTurnStep, GatePassedStep, GateSleepsStep, AppendUserMessageStep,
       MarkDispatchingStep, SendStep DEF DrainStep
<1>4. ASSUME NEW t \in Turns, CancelQueued(t) \/ PromoteQueued(t) PROVE Inv'
    BY <1>4, CancelQueuedStep, PromoteQueuedStep
<1>5. ASSUME NEW t \in Turns, SteerCapture(t) \/ SteerStep(t) PROVE Inv'
    BY <1>5, SteerOnlyStep, SteerClaimStep, SteerAppendsStep, SteerSettlesStep,
       SteerDeclinedStep DEF SteerStep
<1>6. CASE Abort \/ SuspendForRestart \/ Restart
    BY <1>6, AbortStep, SuspendStep, RestartStep
<1> QED BY <1>1, <1>2, <1>3, <1>4, <1>5, <1>6 DEF Next

\* Inv is an invariant of the turn queue, whatever the requests, the turn ids
\* and the number of restarts.
THEOREM InvAlways == Spec => []Inv
<1> QED BY InitInv, NextInv, PTL DEF Spec

\* Every variable keeps its type: the queue holds requests, the rows of
\* session_pending_turns have one of the states the table allows.
THEOREM TypeCorrect == Spec => []TypeOK
<1>1. Inv => TypeOK
    BY DEF Inv
<1> QED BY <1>1, InvAlways, PTL

\* A turn is handed to the provider at most once over restarts, resends, stops,
\* cancellations, promotions and steering (runOneTurn's send after
\* markDurableTurnDispatching, enqueuePendingSessionTurn, restoreDurableTurns).
THEOREM SentOnceAlways == Spec => []SentOnce
<1>1. Inv => SentOnce
    BY DEF Inv
<1> QED BY <1>1, InvAlways, PTL

-----------------------------------------------------------------------------
(* The queued rows of a chat are in one strict order.                      *)


\* Queued rows of a table have positions of their own, from 1 on.
Ordered(rows) ==
    /\ \A t \in Turns : rows[t].state = "queued" => rows[t].position > 0
    /\ \A t, u \in Turns :
          t # u /\ rows[t].state = "queued" /\ rows[u].state = "queued" =>
              rows[t].position # rows[u].position

OrderInv == Inv /\ Ordered(pendingRows)

\* promotePendingSessionTurn: what was ahead moves back by one, and the first
\* position is free.
LEMMA PromotionKeepsOrder ==
    ASSUME NEW rows \in [Turns -> Row], NEW t \in Turns, Ordered(rows)
    PROVE  Ordered(promotePendingSessionTurn(rows, t))
<1> DEFINE new == promotePendingSessionTurn(rows, t)
<1>1. \A u \in Turns : rows[u].position \in Nat /\ rows[u] \in Row
    BY DEF Row
<1>2. CASE rows[t].state # "queued"
    <2>1. \A u \in Turns : new[u] = rows[u]
        BY <1>2 DEF promotePendingSessionTurn, PromotedRow
    <2> QED BY <2>1 DEF Ordered
<1>3. CASE rows[t].state = "queued"
    <2>1. \A u \in Turns :
              /\ new[u].state = rows[u].state
              /\ new[u].position =
                    IF u = t THEN 1
                    ELSE IF rows[u].state = "queued" /\ rows[u].position < rows[t].position
                    THEN rows[u].position + 1 ELSE rows[u].position
        <3> SUFFICES ASSUME NEW u \in Turns
                     PROVE  /\ new[u].state = rows[u].state
                            /\ new[u].position =
                                  IF u = t THEN 1
                                  ELSE IF rows[u].state = "queued" /\ rows[u].position < rows[t].position
                                  THEN rows[u].position + 1 ELSE rows[u].position
            OBVIOUS
        <3>1. rows[u] \in Row
            BY <1>1
        <3> QED BY <1>3, <3>1 DEF promotePendingSessionTurn, PromotedRow, Row
    <2> HIDE DEF new
    <2>2. \A u \in Turns : rows[u].state = "queued" =>
              rows[u].position > 0 /\ (u # t => rows[u].position # rows[t].position)
        BY <1>3 DEF Ordered
    <2> QED BY <1>1, <1>3, <2>1, <2>2 DEF Ordered, new
<1> QED BY <1>2, <1>3

\* persistDurableTurn appends behind the last row, and then may promote it.
LEMMA InsertKeepsOrder ==
    ASSUME OrderInv, NEW r \in Requests, PersistInserted(r)
    PROVE  Ordered(pendingRows')
<1> DEFINE t == TurnOf[r]
<1>1. t \in Turns /\ pendingRows \in [Turns -> Row]
    BY RequestsAssumption DEF OrderInv, Inv, TypeOK
<1>2. PICK last \in {0} \cup {pendingRows[u].position : u \in Present} :
        /\ \A u \in Present : pendingRows[u].position <= last
        /\ LET rows == [pendingRows EXCEPT ![t] = NewRow(r, last)] IN
           pendingRows' = IF r \in promoting THEN promotePendingSessionTurn(rows, t) ELSE rows
    BY DEF PersistInserted
<1> DEFINE rows == [pendingRows EXCEPT ![t] = NewRow(r, last)]
<1>3. last \in Nat /\ \A u \in Turns : pendingRows[u].position \in Nat
    BY <1>1, <1>2 DEF Present, Row
<1>4. rows \in [Turns -> Row]
    BY <1>1, <1>3 DEF NewRow, Row, RowStates
<1>5. /\ rows[t].state = "queued" /\ rows[t].position = last + 1
      /\ \A u \in Turns \ {t} : rows[u] = pendingRows[u]
    BY <1>1 DEF NewRow
<1>6. \A u \in Turns : pendingRows[u].state = "queued" => pendingRows[u].position <= last
    BY <1>2 DEF Present
<1> HIDE DEF rows
<1>7. Ordered(rows)
    BY <1>1, <1>3, <1>5, <1>6 DEF OrderInv, Ordered
<1>8. Ordered(promotePendingSessionTurn(rows, t))
    BY <1>1, <1>4, <1>7, PromotionKeepsOrder
<1> QED BY <1>2, <1>7, <1>8 DEF rows

\* Every other step keeps a queued row as it is, or ends its waiting.
RowsStay == \A t \in Turns :
    pendingRows'[t] = pendingRows[t] \/ pendingRows'[t].state # "queued"

\* Such a step keeps the order.
LEMMA StayingKeepsOrder == OrderInv /\ RowsStay => Ordered(pendingRows')
BY DEF OrderInv, Ordered, RowsStay

\* The steps that write rows, other than by insertion and promotion.
LEMMA WritersStay ==
    ASSUME Inv,
           \/ RejectTurn \/ GateSleeps \/ GateSkipped \/ GateAborted \/ MarkDispatching
           \/ FinishTurn \/ FailTurn \/ Abort \/ Restart
           \/ \E t \in Turns : CancelQueued(t) \/ SteerSettles(t)
    PROVE  RowsStay
<1>1. pendingRows \in [Turns -> Row] /\ NoRow.state # "queued"
    BY DEF Inv, TypeOK, NoRow
<1>2. CASE \/ RejectTurn \/ GateAborted \/ FinishTurn \/ FailTurn
           \/ \E t \in Turns : SteerSettles(t)
    <2>1. pendingRows' = pendingRows \/ \E t : pendingRows' = [pendingRows EXCEPT ![t] = NoRow]
        BY <1>2 DEF RejectTurn, GateAborted, FinishTurn, FailTurn, SteerSettles,
           SettleUnlessSuspending, SettleDurableTurn
    <2> QED BY <1>1, <2>1 DEF RowsStay
<1>3. CASE Abort \/ \E t \in Turns : CancelQueued(t)
    <2>1. \E T : pendingRows' = [t \in Turns |-> IF t \in T THEN NoRow ELSE pendingRows[t]]
        BY <1>3 DEF Abort, CancelQueued, ForgetTurns
    <2> QED BY <1>1, <2>1 DEF RowsStay
<1>4. CASE GateSleeps \/ GateSkipped \/ MarkDispatching
    <2> SUFFICES ASSUME NEW t \in Turns
                 PROVE  pendingRows'[t] = pendingRows[t] \/ pendingRows'[t].state # "queued"
        BY DEF RowsStay
    <2>1. pendingRows[t] \in Row
        BY <1>1
    <2>2. CASE GateSleeps
        BY <1>1, <2>1, <2>2 DEF GateSleeps, Recoverable, Row
    <2>3. CASE GateSkipped
        BY <1>1, <2>1, <2>3 DEF GateSkipped, ResumedRow, Recoverable, Row
    <2>4. CASE MarkDispatching
        BY <1>1, <2>1, <2>4 DEF MarkDispatching, DispatchingRow, Row
    <2> QED BY <1>4, <2>2, <2>3, <2>4
<1>5. CASE Restart
    BY <1>1, <1>5 DEF Restart, RestoredRow, RowsStay
<1> QED BY <1>2, <1>3, <1>4, <1>5

\* The steps that write no row.
LEMMA OthersStay ==
    ASSUME \/ UNCHANGED vars \/ SuspendForRestart
           \/ \E r \in Requests : \/ RunQuery(r) \/ PersistRefused(r)
                                  \/ PersistCancelled(r) \/ PersistFails(r)
           \/ AcceptTurn \/ DropTurn \/ GateProceeds \/ GateWakes
           \/ LookUpUserMessage \/ AppendUserMessage \/ Send
           \/ \E t \in Turns : \/ SteerCapture(t) \/ SteerClaim(t) \/ SteerGivesUp(t)
                               \/ ProviderAcceptsSteer(t) \/ SteerDeclined(t)
                               \/ SteerLooksUp(t) \/ SteerAppends(t)
    PROVE  RowsStay
<1>1. CASE UNCHANGED vars \/ SuspendForRestart
    BY <1>1 DEF vars, SuspendForRestart, durableVars, RowsStay
<1>2. CASE \E r \in Requests : \/ RunQuery(r) \/ PersistRefused(r)
                               \/ PersistCancelled(r) \/ PersistFails(r)
    BY <1>2 DEF RunQuery, PersistRefused, PersistCancelled, PersistFails, durableVars, RowsStay
<1>3. CASE \/ AcceptTurn \/ DropTurn \/ GateProceeds \/ GateWakes
           \/ LookUpUserMessage \/ AppendUserMessage \/ Send
    BY <1>3 DEF AcceptTurn, DropTurn, GateProceeds, GateWakes, LookUpUserMessage,
       AppendUserMessage, Send, durableVars, RowsStay
<1>4. CASE \E t \in Turns : \/ SteerCapture(t) \/ SteerClaim(t) \/ SteerGivesUp(t)
                            \/ ProviderAcceptsSteer(t) \/ SteerDeclined(t)
                            \/ SteerLooksUp(t) \/ SteerAppends(t)
    BY <1>4 DEF SteerCapture, SteerClaim, SteerGivesUp, ProviderAcceptsSteer, SteerDeclined,
       SteerLooksUp, SteerAppends, durableVars, RowsStay
<1> QED BY <1>1, <1>2, <1>3, <1>4

\* Every step keeps the order.
LEMMA NextOrder ==
    ASSUME OrderInv, [Next]_vars PROVE OrderInv'
<1>1. Inv'
    BY NextInv DEF OrderInv
<1>2. CASE \E r \in Requests : PersistInserted(r)
    BY <1>1, <1>2, InsertKeepsOrder DEF OrderInv
<1>3. CASE \E t \in Turns : PromoteQueued(t)
    <2>1. PICK t \in Turns : pendingRows' \in {pendingRows, promotePendingSessionTurn(pendingRows, t)}
        BY <1>3 DEF PromoteQueued
    <2>2. pendingRows \in [Turns -> Row] /\ Ordered(pendingRows)
        BY DEF OrderInv, Inv, TypeOK
    <2>3. Ordered(promotePendingSessionTurn(pendingRows, t))
        BY <2>2, PromotionKeepsOrder
    <2>4. Ordered(pendingRows')
        BY <2>1, <2>2, <2>3
    <2> QED BY <1>1, <2>4 DEF OrderInv
<1>4. CASE ~(\E r \in Requests : PersistInserted(r)) /\ ~(\E t \in Turns : PromoteQueued(t))
    <2> SUFFICES RowsStay
        BY <1>1, StayingKeepsOrder DEF OrderInv
    <2>1. CASE UNCHANGED vars
        BY <2>1, OthersStay
    <2>2. CASE DrainStep
        BY <2>2, WritersStay, OthersStay DEF DrainStep, OrderInv
    <2>3. CASE Abort \/ SuspendForRestart \/ Restart
        BY <2>3, WritersStay, OthersStay DEF OrderInv
    <2>4. CASE \E r \in Requests : RunQuery(r) \/ PersistDurableTurn(r) \/ PersistFails(r)
        BY <1>4, <2>4, OthersStay DEF PersistDurableTurn
    <2>5. CASE \E t \in Turns : \/ CancelQueued(t) \/ PromoteQueued(t)
                                \/ SteerCapture(t) \/ SteerStep(t)
        BY <1>4, <2>5, WritersStay, OthersStay DEF SteerStep, OrderInv
    <2> QED BY <2>1, <2>2, <2>3, <2>4, <2>5 DEF Next
<1> QED BY <1>2, <1>3, <1>4

\* The rows that wait are in one strict order (enqueuePendingSessionTurn,
\* promotePendingSessionTurn), so that a restart restores them in one way.
THEOREM QueuedOrderAlways == Spec => []QueuedOrderIsStrict
<1>1. Init => OrderInv
    BY InitInv DEF Init, OrderInv, Ordered, NoRow
<1>2. OrderInv /\ [Next]_vars => OrderInv'
    BY NextOrder
<1>3. OrderInv => QueuedOrderIsStrict
    BY DEF OrderInv, Ordered, QueuedOrderIsStrict
<1> QED BY <1>1, <1>2, <1>3, PTL DEF Spec

-----------------------------------------------------------------------------
(* What the provider took as steering.                                     *)

\* An instruction that the provider took is recorded as steering.
SteerInv == \A t \in Turns : steer[t].stage \in Claimed \ {"delivering"} => t \in steered

\* Only the provider's acceptance leads to those stages, and it records the turn.
LEMMA SteerInvStep == Inv /\ SteerInv /\ [Next]_vars => SteerInv'
<1> SUFFICES ASSUME Inv, SteerInv, [Next]_vars PROVE SteerInv'
    OBVIOUS
<1>1. /\ TypeOK /\ steer \in [Turns -> Steering]
      /\ NoSteer.stage = "none" /\ "none" \notin Claimed
    BY DEF Inv, TypeOK, NoSteer, Claimed
<1>2. CASE steer' = steer /\ steered' = steered
    BY <1>2 DEF SteerInv
<1>3. CASE (DropTargets \/ steer' = [t \in Turns |-> NoSteer]) /\ steered' = steered
    BY <1>1, <1>3, DropTargetsEffect DEF SteerInv
<1>4. ASSUME NEW t \in Turns, steer' \in [Turns -> Steering], steered \subseteq steered',
             \A u \in Turns : u # t => steer'[u] = steer[u],
             steer'[t].stage \notin Claimed \ {"delivering"} \/ t \in steered'
      PROVE  SteerInv'
    BY <1>4 DEF SteerInv
<1>5. CASE \/ UNCHANGED vars \/ Abort \/ SuspendForRestart \/ Restart
           \/ \E r \in Requests : RunQuery(r) \/ PersistDurableTurn(r) \/ PersistFails(r)
    BY <1>2, <1>3, <1>5 DEF vars, history, Abort, SuspendForRestart, TearDownNativeSessionState,
       Restart, RunQuery, PersistDurableTurn, PersistRefused, PersistCancelled, PersistInserted,
       PersistFails
<1>6. CASE DrainStep
    BY <1>2, <1>3, <1>6 DEF DrainStep, AcceptTurn, DropTurn, RejectTurn, GateProceeds, GateSleeps,
       GateWakes, GateSkipped, GateAborted, LookUpUserMessage, AppendUserMessage,
       MarkDispatching, Send, FinishTurn, FailTurn, history
<1>7. ASSUME NEW t \in Turns, CancelQueued(t) \/ PromoteQueued(t)
      PROVE  SteerInv'
    BY <1>2, <1>7 DEF CancelQueued, PromoteQueued, history
<1>8. ASSUME NEW t \in Turns, SteerCapture(t) \/ SteerStep(t)
      PROVE  SteerInv'
    <2>1. steer' \in [Turns -> Steering]
        <3>1. TypeOK'
            BY <1>8, NextInv DEF Inv, Next
        <3> QED BY <3>1 DEF TypeOK
    <2>2. \A u \in Turns : u # t => steer'[u] = steer[u]
        BY <1>1, <1>8 DEF SteerCapture, SteerStep, SteerClaim, SteerGivesUp, ProviderAcceptsSteer,
           SteerLooksUp, SteerAppends, SteerSettles, SteerDeclined
    <2>3. steered \subseteq steered'
        BY <1>8 DEF SteerCapture, SteerStep, SteerClaim, SteerGivesUp, ProviderAcceptsSteer,
           SteerLooksUp, SteerAppends, SteerSettles, SteerDeclined, history
    <2>4. steer'[t].stage \notin Claimed \ {"delivering"} \/ t \in steered'
        <3>1. steer[t] \in Steering
            BY <1>1
        <3>2. CASE SteerCapture(t) \/ SteerGivesUp(t) \/ SteerSettles(t) \/ SteerDeclined(t)
            <4>1. steer'[t].stage \in {"none", "preparing"}
                BY <1>1, <3>1, <3>2 DEF SteerCapture, SteerGivesUp, SteerSettles, SteerDeclined,
                   NoSteer
            <4> QED BY <4>1 DEF Claimed
        <3>3. CASE SteerClaim(t)
            BY <1>1, <3>1, <3>3 DEF SteerClaim, Steering
        <3>4. CASE ProviderAcceptsSteer(t)
            BY <3>4 DEF ProviderAcceptsSteer
        <3>5. CASE SteerLooksUp(t) \/ SteerAppends(t)
            BY <2>3, <3>5 DEF SteerLooksUp, SteerAppends, SteerInv, Claimed
        <3> QED BY <1>8, <3>2, <3>3, <3>4, <3>5 DEF SteerStep
    <2> QED BY <1>4, <2>1, <2>2, <2>3, <2>4
<1> QED BY <1>5, <1>6, <1>7, <1>8 DEF Next

-----------------------------------------------------------------------------
(* A prompt is shown once.                                                  *)

\* Turn t was not both sent twice and steered.
OneWriter(t) ==
    t \notin steered \/ \A q, r \in Requests : TurnOf[q] = t /\ TurnOf[r] = t => q = r

\* Whoever is about to append a user row, after the wait that follows its
\* lookup, still appends the first one.
ShownInv == \A t \in Turns : OneWriter(t) =>
    /\ transcript[t] <= 1
    /\ phase = "appending" /\ TurnOf[currentTurn] = t => transcript[t] = 0
    /\ steer[t].stage = "writing" => transcript[t] = 0

\* The drain loop and steering do not both write the row of such a turn.
LEMMA WritersApart ==
    ASSUME Inv, SteerInv, NEW t \in Turns, OneWriter(t), steer[t].stage = "writing"
    PROVE  phase = "appending" => TurnOf[currentTurn] # t
<1>1. t \in steered /\ steer[t].stage \in Claimed
    BY DEF SteerInv, Claimed
<1>2. /\ steer[t].request \in Requests /\ TurnOf[steer[t].request] = t
      /\ steer[t].request # currentTurn
      /\ phase # "idle" => currentTurn \in Requests
    BY <1>1 DEF Inv, QueueInv
<1> QED BY <1>1, <1>2 DEF OneWriter

\* A step that writes no user row: who gets ready to write one has found none.
LEMMA NothingShown ==
    ASSUME ShownInv, transcript' = transcript, steered \subseteq steered',
           phase' = "appending" =>
              \/ phase = "appending" /\ currentTurn' = currentTurn
              \/ transcript[TurnOf[currentTurn']] = 0,
           \A u \in Turns : steer'[u].stage = "writing" =>
              steer[u].stage = "writing" \/ transcript[u] = 0
    PROVE  ShownInv'
BY DEF ShownInv, OneWriter

\* The steps of the drain loop: the lookup, the append, and the others.
LEMMA DrainShown ==
    ASSUME Inv, SteerInv, ShownInv, DrainStep PROVE ShownInv'
<1>1. /\ TypeOK /\ transcript \in [Turns -> Nat] /\ steered' = steered
    BY DEF Inv, TypeOK, DrainStep, AcceptTurn, DropTurn, RejectTurn, GateProceeds, GateSleeps,
       GateWakes, GateSkipped, GateAborted, LookUpUserMessage, AppendUserMessage,
       MarkDispatching, Send, FinishTurn, FailTurn, history
<1>2. \A u \in Turns : steer'[u].stage = "writing" => steer[u].stage = "writing"
    <2>1. steer' = steer \/ DropTargets
        BY DEF DrainStep, AcceptTurn, DropTurn, RejectTurn, GateProceeds, GateSleeps,
           GateWakes, GateSkipped, GateAborted, LookUpUserMessage, AppendUserMessage,
           MarkDispatching, Send, FinishTurn, FailTurn
    <2> QED BY <1>1, <2>1, DropTargetsEffect DEF Claimed
<1>3. CASE LookUpUserMessage
    <2>1. /\ transcript' = transcript /\ currentTurn' = currentTurn
          /\ phase' = "appending" => ~(transcript[TurnOf[currentTurn]] > 0)
        BY <1>3 DEF LookUpUserMessage, UserRowFound, durableVars
    <2>2. transcript[TurnOf[currentTurn]] \in Nat
        BY <1>1, <1>3, RequestsAssumption DEF LookUpUserMessage, Inv, QueueInv
    <2> QED BY <1>1, <1>2, <2>1, <2>2, NothingShown
<1>4. CASE AppendUserMessage
    <2>1. PICK t \in Turns :
            /\ t = TurnOf[currentTurn] /\ transcript' = [transcript EXCEPT ![t] = @ + 1]
            /\ phase = "appending" /\ phase' = "opening" /\ steer' = steer
        BY <1>4, RequestsAssumption DEF AppendUserMessage, UserRowAppended, Inv, QueueInv
    <2>2. OneWriter(t) => transcript'[t] = 1 /\ steer[t].stage # "writing"
        BY <1>1, <2>1, WritersApart DEF ShownInv
    <2> QED BY <1>1, <2>1, <2>2 DEF ShownInv, OneWriter
<1>5. CASE ~LookUpUserMessage /\ ~AppendUserMessage
    <2>1. transcript' = transcript
        BY <1>5 DEF DrainStep, AcceptTurn, DropTurn, RejectTurn, GateProceeds, GateSleeps,
           GateWakes, GateSkipped, GateAborted, MarkDispatching, Send, FinishTurn, FailTurn,
           durableVars
    <2>2. phase' # "appending"
        BY <1>5 DEF DrainStep, AcceptTurn, DropTurn, RejectTurn, GateProceeds, GateSleeps,
           GateWakes, GateSkipped, GateAborted, MarkDispatching, Send, FinishTurn, FailTurn,
           NextTurn
    <2> QED BY <1>1, <1>2, <2>1, <2>2, NothingShown
<1> QED BY <1>3, <1>4, <1>5

\* The steps of steering: the lookup, the append, and the others.
LEMMA SteerShown ==
    ASSUME Inv, SteerInv, ShownInv, NEW t \in Turns, SteerCapture(t) \/ SteerStep(t)
    PROVE  ShownInv'
<1>1. /\ steer \in [Turns -> Steering] /\ transcript \in [Turns -> Nat]
      /\ steered \subseteq steered'
    BY DEF Inv, TypeOK, SteerCapture, SteerStep, SteerClaim, SteerGivesUp, ProviderAcceptsSteer,
       SteerLooksUp, SteerAppends, SteerSettles, SteerDeclined, history
<1>2. \A u \in Turns : u # t => steer'[u] = steer[u]
    BY <1>1 DEF SteerCapture, SteerStep, SteerClaim, SteerGivesUp, ProviderAcceptsSteer,
       SteerLooksUp, SteerAppends, SteerSettles, SteerDeclined
<1>3. CASE SteerAppends(t)
    <2>1. /\ steer[t].stage = "writing" /\ steer'[t].stage = "written"
          /\ transcript' \in {transcript, [transcript EXCEPT ![t] = @ + 1]}
          /\ UNCHANGED <<phase, currentTurn, steered>>
        BY <1>1, <1>3 DEF SteerAppends, UserRowAppended, drainVars, history, Steering
    <2>2. OneWriter(t) =>
            transcript'[t] <= 1 /\ ~(phase = "appending" /\ TurnOf[currentTurn] = t)
        BY <1>1, <2>1, WritersApart DEF ShownInv
    <2> QED BY <1>1, <1>2, <2>1, <2>2 DEF ShownInv, OneWriter
<1>4. CASE ~SteerAppends(t)
    <2>1. transcript' = transcript
        BY <1>4 DEF SteerCapture, SteerStep, SteerClaim, SteerGivesUp, ProviderAcceptsSteer,
           SteerLooksUp, SteerSettles, SteerDeclined, durableVars
    <2>2. phase' = "appending" => phase = "appending" /\ currentTurn' = currentTurn
        BY <1>4 DEF SteerCapture, SteerStep, SteerClaim, SteerGivesUp, ProviderAcceptsSteer,
           SteerLooksUp, SteerSettles, SteerDeclined, drainVars, RestoreToQueue, Enqueued,
           NextTurn
    <2>3. steer'[t].stage = "writing" => transcript[t] = 0
        <3>1. CASE SteerLooksUp(t)
            <4>1. steer[t] \in Steering /\ transcript[t] \in Nat
                BY <1>1
            <4>2. UserRowFound(t) => steer'[t].stage = "written"
                BY <1>1, <3>1, <4>1 DEF SteerLooksUp, Steering
            <4> QED BY <4>1, <4>2 DEF UserRowFound
        <3>2. CASE ~SteerLooksUp(t)
            <4>1. steer[t] \in Steering /\ NoSteer.stage = "none"
                BY <1>1 DEF NoSteer
            <4>2. CASE SteerCapture(t)
                BY <1>1, <4>2 DEF SteerCapture, NoSteer
            <4>3. CASE SteerGivesUp(t) \/ SteerSettles(t) \/ SteerDeclined(t)
                BY <1>1, <4>1, <4>3 DEF SteerGivesUp, SteerSettles, SteerDeclined
            <4>4. CASE ProviderAcceptsSteer(t)
                BY <1>1, <4>1, <4>4 DEF ProviderAcceptsSteer, Steering
            <4>5. CASE SteerClaim(t)
                <5>1. PICK i \in DOMAIN turnQueue :
                        steer' = [steer EXCEPT ![t].stage = "delivering",
                                               ![t].request = turnQueue[i], ![t].index = i]
                    BY <4>5 DEF SteerClaim
                <5> QED BY <1>1, <4>1, <5>1 DEF Steering
            <4> QED BY <1>4, <3>2, <4>2, <4>3, <4>4, <4>5 DEF SteerStep
        <3> QED BY <3>1, <3>2
    <2> QED BY <1>1, <1>2, <2>1, <2>2, <2>3, NothingShown
<1> QED BY <1>3, <1>4

\* Every step keeps it.
LEMMA ShownStep == Inv /\ SteerInv /\ ShownInv /\ [Next]_vars => ShownInv'
<1> SUFFICES ASSUME Inv, SteerInv, ShownInv, [Next]_vars PROVE ShownInv'
    OBVIOUS
<1>1. CASE UNCHANGED vars
    BY <1>1, NothingShown DEF vars
<1>2. ASSUME NEW r \in Requests, RunQuery(r) \/ PersistDurableTurn(r) \/ PersistFails(r)
      PROVE  ShownInv'
    <2>1. /\ transcript' = transcript /\ steer' = steer /\ steered' = steered
          /\ phase' = "appending" => phase = "appending" /\ currentTurn' = currentTurn
        BY <1>2 DEF RunQuery, PersistDurableTurn, PersistRefused, PersistCancelled,
           PersistInserted, PersistFails, Enqueued, NextTurn, durableVars, drainVars, history
    <2> QED BY <2>1, NothingShown
<1>3. CASE DrainStep
    BY <1>3, DrainShown
<1>4. ASSUME NEW t \in Turns, CancelQueued(t) \/ PromoteQueued(t) PROVE ShownInv'
    BY <1>4, NothingShown DEF CancelQueued, PromoteQueued, history
<1>5. ASSUME NEW t \in Turns, SteerCapture(t) \/ SteerStep(t) PROVE ShownInv'
    BY <1>5, SteerShown
<1>6. CASE Abort \/ SuspendForRestart
    <2>1. TypeOK /\ DropTargets /\ UNCHANGED <<transcript, steered, phase, currentTurn>>
        BY <1>6 DEF Abort, SuspendForRestart, TearDownNativeSessionState, durableVars, history,
           Inv
    <2>2. \A u \in Turns : steer'[u].stage = "writing" => steer[u].stage = "writing"
        BY <2>1, DropTargetsEffect DEF Claimed
    <2> QED BY <2>1, <2>2, NothingShown
<1>7. CASE Restart
    BY <1>7, NothingShown DEF Restart, NoSteer
<1> QED BY <1>1, <1>2, <1>3, <1>4, <1>5, <1>6, <1>7 DEF Next

\* A prompt shows once in the transcript: persistUserMessage reuses the row an
\* earlier process or a copy left, and no step between its lookup and its insert
\* writes one, unless a resent turn is steered.
THEOREM ShownOnceAlways == Spec => []ShownOnce
<1>1. Init => SteerInv /\ ShownInv
    BY DEF Init, SteerInv, ShownInv, NoSteer, Claimed
<1>2. ShownInv => ShownOnce
    <2> SUFFICES ASSUME ShownInv, NEW r \in Requests,
                        OnlyCopy(r) \/ TurnOf[r] \notin steered
                 PROVE  transcript[TurnOf[r]] <= 1
        BY DEF ShownOnce
    <2>1. TurnOf[r] \in Turns /\ OneWriter(TurnOf[r])
        BY RequestsAssumption DEF OnlyCopy, OneWriter
    <2> QED BY <2>1 DEF ShownInv
<1> QED BY <1>1, <1>2, InitInv, NextInv, SteerInvStep, ShownStep, PTL DEF Spec

-----------------------------------------------------------------------------
(* What a suspended session keeps.                                          *)

\* A row that persistDurableTurn inserts touches the state of no other turn.
LEMMA RowsOfInsert ==
    ASSUME TypeOK, NEW r \in Requests, PersistInserted(r)
    PROVE  /\ pendingRows'[TurnOf[r]].state = "queued"
           /\ \A u \in Turns : u # TurnOf[r] => pendingRows'[u].state = pendingRows[u].state
<1> DEFINE t == TurnOf[r]
<1>1. t \in Turns /\ pendingRows \in [Turns -> Row]
    BY RequestsAssumption DEF TypeOK
<1>2. PICK last \in Nat :
        LET rows == [pendingRows EXCEPT ![t] = NewRow(r, last)] IN
        pendingRows' = IF r \in promoting THEN promotePendingSessionTurn(rows, t) ELSE rows
    <2>1. \A u \in Turns : pendingRows[u].position \in Nat
        BY <1>1 DEF Row
    <2> QED BY <2>1 DEF PersistInserted, Present
<1> DEFINE rows == [pendingRows EXCEPT ![t] = NewRow(r, last)]
<1>3. NewRow(r, last) \in Row /\ NewRow(r, last).state = "queued"
    BY DEF NewRow, Row, RowStates
<1>4. /\ rows \in [Turns -> Row] /\ rows[t] = NewRow(r, last)
      /\ \A u \in Turns : u # t => rows[u] = pendingRows[u]
    BY <1>1, <1>3
<1>5. pendingRows' = rows \/ pendingRows' = promotePendingSessionTurn(rows, t)
    BY <1>2
<1> HIDE DEF rows
<1> QED BY <1>1, <1>3, <1>4, <1>5, PromotionKeepsRows

\* What a step may not take from a turn while Hlid shuts down.
KeptWhileSuspending == suspendingForRestart =>
    \A t \in Turns : pendingRows[t].state \in Recoverable
        /\ t \notin steered /\ t \notin cancelledDurableTurns'
        => pendingRows'[t].state # "absent"

\* While Hlid shuts down only a cancellation or a finished steer deletes a row.
LEMMA SuspendedStep == Inv /\ SteerInv /\ [Next]_vars => KeptWhileSuspending
<1> SUFFICES ASSUME Inv, SteerInv, [Next]_vars, suspendingForRestart,
                    NEW t \in Turns, pendingRows[t].state \in Recoverable,
                    t \notin steered, t \notin cancelledDurableTurns'
             PROVE  pendingRows'[t].state # "absent"
    BY DEF KeptWhileSuspending
<1>1. /\ TypeOK /\ pendingRows \in [Turns -> Row] /\ pendingRows[t] \in Row
      /\ pendingRows[t].state # "absent"
    BY DEF Inv, TypeOK, Recoverable
<1>2. CASE \/ UNCHANGED vars \/ SuspendForRestart
           \/ \E r \in Requests : \/ RunQuery(r) \/ PersistRefused(r)
                                  \/ PersistCancelled(r) \/ PersistFails(r)
    BY <1>1, <1>2 DEF vars, SuspendForRestart, RunQuery, PersistRefused, PersistCancelled,
       PersistFails, durableVars
<1>3. ASSUME NEW r \in Requests, PersistInserted(r)
      PROVE  pendingRows'[t].state # "absent"
    BY <1>1, <1>3, RowsOfInsert
<1>4. CASE DrainStep
    <2>1. pendingRows' = pendingRows \/ GateSleeps \/ GateSkipped \/ MarkDispatching
        BY <1>4 DEF DrainStep, AcceptTurn, DropTurn, RejectTurn, GateProceeds,
           GateWakes, GateAborted, LookUpUserMessage, AppendUserMessage, Send, FinishTurn,
           FailTurn, durableVars, SettleUnlessSuspending
    <2>2. CASE GateSleeps
        BY <1>1, <2>2 DEF GateSleeps, Row
    <2>3. CASE GateSkipped
        BY <1>1, <2>3 DEF GateSkipped, ResumedRow, Row
    <2>4. CASE MarkDispatching
        BY <1>1, <2>4 DEF MarkDispatching, DispatchingRow, Row
    <2> QED BY <1>1, <2>1, <2>2, <2>3, <2>4
<1>5. ASSUME NEW u \in Turns, CancelQueued(u)
      PROVE  pendingRows'[t].state # "absent"
    BY <1>1, <1>5 DEF CancelQueued, ForgetTurns
<1>6. ASSUME NEW u \in Turns, PromoteQueued(u)
      PROVE  pendingRows'[t].state # "absent"
    BY <1>1, <1>6, PromotionKeepsRows DEF PromoteQueued
<1>7. ASSUME NEW u \in Turns, SteerCapture(u) \/ SteerStep(u)
      PROVE  pendingRows'[t].state # "absent"
    <2>1. CASE SteerSettles(u)
        <3>1. u # t
            BY <2>1 DEF SteerSettles, SteerInv, Claimed
        <3> QED BY <1>1, <2>1, <3>1 DEF SteerSettles, SettleDurableTurn
    <2>2. CASE \/ SteerCapture(u) \/ SteerClaim(u) \/ SteerGivesUp(u)
               \/ ProviderAcceptsSteer(u) \/ SteerDeclined(u)
               \/ SteerLooksUp(u) \/ SteerAppends(u)
        BY <1>1, <2>2 DEF SteerCapture, SteerClaim, SteerGivesUp, ProviderAcceptsSteer,
           SteerDeclined, SteerLooksUp, SteerAppends, durableVars
    <2> QED BY <1>7, <2>1, <2>2 DEF SteerStep
<1>8. CASE Abort
    BY <1>1, <1>8 DEF Abort, ForgetTurns
<1>9. CASE Restart
    BY <1>1, <1>9 DEF Restart, RestoredRow
<1> QED BY <1>2, <1>3, <1>4, <1>5, <1>6, <1>7, <1>8, <1>9 DEF Next, PersistDurableTurn

\* Shutting down deletes no row of a turn that waits for its dispatch
\* (suspendForRestart, settleDurableTurn), for any requests and restarts.
THEOREM SuspendDeletesNothingAlways == Spec => SuspendDeletesNothing
<1>1. Init => SteerInv
    BY DEF Init, SteerInv, NoSteer, Claimed
<1>2. Inv /\ SteerInv /\ [Next]_vars => [\A t \in Turns :
    /\ suspendingForRestart
    /\ pendingRows[t].state \in Recoverable
    /\ t \notin steered /\ t \notin cancelledDurableTurns'
    => pendingRows'[t].state # "absent"]_vars
    BY SuspendedStep DEF KeptWhileSuspending
<1> QED BY <1>1, <1>2, InitInv, NextInv, SteerInvStep, PTL DEF Spec, SuspendDeletesNothing

-----------------------------------------------------------------------------
(* What is stored of an accepted prompt, and what is left of one that is over. *)

\* AcceptedTurnIsStored in two halves: what a request can rely on, and its row.
Expected(r) ==
    /\ Unsent(r) /\ ~Dismissed(TurnOf[r]) /\ TurnOf[r] \notin steered
    /\ \A q \in Requests : TurnOf[q] = TurnOf[r] => outcome[q] # "failed"
Stored(r) ==
    \/ pendingRows[TurnOf[r]].state \in Recoverable
    \/ /\ currentTurn = r /\ phase = "dispatching"
       /\ pendingRows[TurnOf[r]].state = "dispatching"

\* The user row of a steered turn is written, and the turn not yet settled.
Recorded(t) == steer[t].stage = "written"

\* What is known of a request whose turn id reached the server once: before it
\* arrives it has no trace; a row of it means that it was accepted and not
\* stopped, and that it is still to be sent; while the row is being written,
\* cancelledDurableTurns knows whether it was given up.
OnlyOf(r) == LET t == TurnOf[r] IN
    /\ outcome[r] = "new" =>
          /\ pendingRows[t].state = "absent" /\ durableTurns[t] = "absent"
          /\ transcript[t] = 0 /\ t \notin cancelledDurableTurns /\ r \notin stopped
    /\ pendingRows[t].state # "absent" =>
          /\ durableReady[r] = "yes" /\ r \notin stopped
          /\ suspendingForRestart \/ t \in steered \/ outcome[r] = "pending"
    /\ durableReady[r] = "persisting" =>
          /\ durableTurns[t] = "absent"
          /\ outcome[r] = "pending" => transcript[t] = 0 \/ Recorded(t)
          /\ outcome[r] = "pending" /\ t \in cancelledDurableTurns => r \in stopped
          /\ outcome[r] # "pending" \/ r \in stopped =>
                t \in cancelledDurableTurns \cup steered
          /\ r \in stopped => t \in cancelledDurableTurns
    /\ durableReady[r] = "no" /\ outcome[r] = "pending" => r \in stopped \/ Recorded(t)
    /\ outcome[r] = "dropped" => r \in stopped
    /\ outcome[r] = "pending" /\ r \in stopped => r = currentTurn /\ aborted

OnlyInv == \A r \in Requests : OnlyCopy(r) => OnlyOf(r)

MoreInv == Inv /\ SteerInv /\ AcceptedTurnIsStored /\ OnlyInv

\* The second half of the invariant, as the steps below establish it.
RestKept == AcceptedTurnIsStored' /\ OnlyInv'

\* AcceptedTurnIsStored says that what is expected is stored.
LEMMA AcceptedMeans ==
    AcceptedTurnIsStored <=> \A r \in Requests : Expected(r) => Stored(r)
BY DEF AcceptedTurnIsStored, Expected, Stored

\* A step keeps AcceptedTurnIsStored when it makes no request unsent, takes back
\* no dismissal and no failure, and keeps the rows it does not account for.
LEMMA AcceptedKept ==
    ASSUME AcceptedTurnIsStored,
           stopped \subseteq stopped', steered \subseteq steered',
           \A q \in Requests : outcome[q] \in {"failed", "cancelled"} => outcome'[q] = outcome[q],
           \A r \in Requests : Expected(r)' => Unsent(r) /\ (Stored(r) => Stored(r)')
    PROVE  AcceptedTurnIsStored'
<1> SUFFICES ASSUME NEW r \in Requests, Expected(r)' PROVE Stored(r)'
    BY DEF AcceptedTurnIsStored, Expected, Stored
<1>1. Expected(r)
    BY DEF Expected, Dismissed
<1> QED BY <1>1, AcceptedMeans

\* What a step leaves alone of a request and its turn.
SameOf(r) == LET t == TurnOf[r] IN
    /\ pendingRows'[t].state = pendingRows[t].state
    /\ durableTurns'[t] = durableTurns[t]
    /\ transcript'[t] = transcript[t]
    /\ t \in cancelledDurableTurns' <=> t \in cancelledDurableTurns
    /\ durableReady'[r] = durableReady[r] /\ outcome'[r] = outcome[r]
    /\ r \in stopped' <=> r \in stopped
    /\ t \in steered => t \in steered'
    /\ Recorded(t) => Recorded(t)'
    /\ suspendingForRestart => suspendingForRestart'
    /\ r = currentTurn /\ aborted => r = currentTurn' /\ aborted'

\* A step that leaves a request alone leaves what is known of it.
LEMMA OnlyFrame ==
    ASSUME NEW r \in Requests, OnlyOf(r), SameOf(r) PROVE OnlyOf(r)'
BY DEF OnlyOf, SameOf

\* Losing its target does not disturb a steer that was delivered.
LEMMA RecordedKept ==
    ASSUME steer' = steer \/ DropTargets
    PROVE  \A u \in Turns : Recorded(u) => Recorded(u)'
<1>1. CASE steer' = steer
    BY <1>1 DEF Recorded
<1>2. CASE DropTargets
    BY <1>2 DEF Recorded, DropTargets
<1> QED BY <1>1, <1>2

\* The turn in the drain loop is not the one that is steered, if it came once.
LEMMA RunningIsNotRecorded ==
    ASSUME Inv, NEW r \in Requests, OnlyCopy(r), r = currentTurn
    PROVE  ~Recorded(TurnOf[r])
<1>1. TurnOf[r] \in Turns
    BY RequestsAssumption
<1> QED BY <1>1 DEF Inv, QueueInv, OnlyCopy, Recorded, Claimed

\* Whoever waits to be sent has no copy in the drain loop.
LEMMA NoRivalInDrain ==
    ASSUME Inv, phase \notin {"idle", "accepting"}, NEW r \in Requests, Unsent(r),
           TurnOf[r] = TurnOf[currentTurn]
    PROVE  r = currentTurn
<1>1. /\ currentTurn \in Requests /\ outcome[currentTurn] = "pending"
      /\ durableReady[currentTurn] = "yes"
    BY DEF Inv, QueueInv, PhaseInv
<1> QED BY <1>1 DEF Inv, RivalInv, NoRival

\* A request joins the queue.
LEMMA RunQueryKept ==
    ASSUME MoreInv, NEW q \in Requests, RunQuery(q) PROVE RestKept
<1>1. /\ TypeOK /\ QueueInv /\ outcome \in [Requests -> Outcomes]
      /\ durableReady \in [Requests -> {"new", "persisting", "yes", "no", "failed"}]
    BY DEF MoreInv, Inv, TypeOK
<1>2. /\ outcome[q] = "new" /\ outcome' = [outcome EXCEPT ![q] = "pending"]
      /\ durableReady' = [durableReady EXCEPT ![q] = "persisting"]
      /\ UNCHANGED <<pendingRows, transcript, durableTurns, cancelledDurableTurns,
                     steer, suspendingForRestart, steered, stopped>>
      /\ phase # "idle" => UNCHANGED <<currentTurn, phase, aborted>>
    BY DEF RunQuery, Settle, history, Enqueued
<1>3. /\ outcome'[q] = "pending" /\ durableReady'[q] = "persisting"
      /\ \A r \in Requests : r # q =>
            outcome'[r] = outcome[r] /\ durableReady'[r] = durableReady[r]
    BY <1>1, <1>2
<1>4. AcceptedTurnIsStored'
    <2>1. \A r \in Requests : Unsent(r)' => Unsent(r) /\ (Stored(r) => Stored(r)')
        BY <1>1, <1>2, <1>3 DEF Unsent, Stored, QueueInv
    <2> QED BY <1>2, <1>3, <2>1, AcceptedKept DEF MoreInv, Expected
<1>5. OnlyInv'
    <2> SUFFICES ASSUME NEW r \in Requests, OnlyCopy(r) PROVE OnlyOf(r)'
        BY DEF OnlyInv, OnlyCopy
    <2>1. OnlyOf(r)
        BY DEF MoreInv, OnlyInv
    <2>2. CASE r = q
        BY <1>2, <1>3, <2>1, <2>2 DEF OnlyOf
    <2>3. CASE r # q
        BY <1>1, <1>2, <1>3, <2>1, <2>3, NoneAssumption, OnlyFrame
           DEF SameOf, QueueInv, Recorded
    <2> QED BY <2>2, <2>3
<1> QED BY <1>4, <1>5 DEF RestKept

\* persistDurableTurn answers, with or without a row.
LEMMA PersistKept ==
    ASSUME MoreInv, NEW q \in Requests, PersistDurableTurn(q) \/ PersistFails(q) PROVE RestKept
<1> DEFINE t == TurnOf[q]
<1>1. /\ TypeOK /\ t \in Turns /\ transcript[t] \in Nat
      /\ durableReady \in [Requests -> {"new", "persisting", "yes", "no", "failed"}]
      /\ durableTurns \in [Turns -> RowStates]
    BY RequestsAssumption DEF MoreInv, Inv, TypeOK
<1>2. /\ durableReady[q] = "persisting"
      /\ UNCHANGED <<transcript, turnQueue, currentTurn, phase, aborted, steer,
                     suspendingForRestart, outcome, steered, stopped>>
      /\ PersistInserted(q) => durableReady'[q] = "yes"
    BY <1>1 DEF PersistDurableTurn, PersistRefused, PersistCancelled, PersistInserted,
       PersistFails, durableVars, drainVars, history
<1>3. /\ \A r \in Requests : r # q => durableReady'[r] = durableReady[r]
      /\ \A u \in Turns : u # t =>
            /\ pendingRows'[u].state = pendingRows[u].state
            /\ durableTurns'[u] = durableTurns[u]
            /\ u \in cancelledDurableTurns' <=> u \in cancelledDurableTurns
    <2>1. CASE PersistRefused(q) \/ PersistCancelled(q) \/ PersistFails(q)
        BY <1>1, <2>1 DEF PersistRefused, PersistCancelled, PersistFails, durableVars
    <2>2. CASE PersistInserted(q)
        BY <1>1, <2>2, RowsOfInsert DEF PersistInserted
    <2> QED BY <2>1, <2>2 DEF PersistDurableTurn
<1>4. \/ /\ PersistInserted(q) /\ durableReady'[q] = "yes" /\ pendingRows'[t].state = "queued"
         /\ t \notin cancelledDurableTurns
      \/ /\ durableReady'[q] \in {"no", "failed"} /\ UNCHANGED <<pendingRows, durableTurns>>
         /\ durableReady'[q] = "failed" \/ AlreadyKnown(t) \/ CancelledMeanwhile(t)
    <2>1. CASE PersistRefused(q) \/ PersistCancelled(q) \/ PersistFails(q)
        BY <1>1, <2>1 DEF PersistRefused, PersistCancelled, PersistFails, durableVars
    <2>2. CASE PersistInserted(q)
        BY <1>1, <2>2, RowsOfInsert DEF PersistInserted, CancelledMeanwhile
    <2> QED BY <2>1, <2>2 DEF PersistDurableTurn
<1> HIDE DEF t
<1>5. AcceptedTurnIsStored'
    <2> SUFFICES ASSUME NEW r \in Requests, Expected(r)' PROVE Stored(r)'
        BY DEF AcceptedTurnIsStored, Expected, Stored
    <2>1. CASE PersistInserted(q) /\ TurnOf[r] = t
        BY <1>2, <1>4, <2>1 DEF Stored, Recoverable
    <2>2. CASE ~(PersistInserted(q) /\ TurnOf[r] = t)
        <3>1. r # q
            BY <1>4, <2>2 DEF Expected, Unsent, t
        <3>2. pendingRows'[TurnOf[r]].state = pendingRows[TurnOf[r]].state
            BY <1>3, <1>4, <2>2, RequestsAssumption
        <3>3. Expected(r)
            BY <1>2, <1>3, <3>1 DEF Expected, Unsent, Dismissed
        <3>4. Stored(r)
            BY <3>3, AcceptedMeans DEF MoreInv
        <3> QED BY <1>2, <3>2, <3>4 DEF Stored
    <2> QED BY <2>1, <2>2
<1>6. OnlyInv'
    <2> SUFFICES ASSUME NEW r \in Requests, OnlyCopy(r) PROVE OnlyOf(r)'
        BY DEF OnlyInv, OnlyCopy
    <2>1. OnlyOf(r)
        BY DEF MoreInv, OnlyInv
    <2>2. CASE r # q
        <3>1. TurnOf[r] # t /\ TurnOf[r] \in Turns
            BY <2>2, RequestsAssumption DEF OnlyCopy, t
        <3> QED BY <1>2, <1>3, <2>1, <2>2, <3>1, OnlyFrame DEF SameOf, Recorded
    <2>3. CASE r = q
        <3>1. outcome[q] # "new"
            BY <1>2 DEF MoreInv, Inv, QueueInv
        <3>2. CASE PersistInserted(q)
            BY <1>2, <1>4, <2>1, <2>3, <3>1, <3>2 DEF OnlyOf, t, PersistInserted, Recorded
        <3>3. CASE ~PersistInserted(q)
            BY <1>1, <1>2, <1>4, <2>1, <2>3, <3>1, <3>3
               DEF OnlyOf, t, AlreadyKnown, CancelledMeanwhile, Present, Recorded
        <3> QED BY <3>2, <3>3
    <2> QED BY <2>2, <2>3
<1> QED BY <1>5, <1>6 DEF RestKept

\* A turn ends: its row is forgotten, unless Hlid is shutting down.
LEMMA EndOfTurnKept ==
    ASSUME MoreInv, DropTurn \/ RejectTurn \/ GateAborted \/ FinishTurn \/ FailTurn PROVE RestKept
<1>0. PICK c \in Requests : c = currentTurn /\ outcome[c] = "pending" /\ phase # "idle"
    BY DEF MoreInv, Inv, QueueInv, DropTurn, RejectTurn, GateAborted, FinishTurn, FailTurn, InTurn
<1> DEFINE t == TurnOf[c]
<1>1. /\ TypeOK /\ t \in Turns
      /\ outcome \in [Requests -> Outcomes] /\ pendingRows \in [Turns -> Row]
      /\ durableTurns \in [Turns -> RowStates]
    BY RequestsAssumption DEF MoreInv, Inv, TypeOK
<1>2. /\ \E how \in Outcomes \ Open :
            /\ outcome' = [outcome EXCEPT ![c] = how]
            /\ how = "dropped" => durableReady[c] = "no"
            /\ phase = "accepting" =>
                  durableReady[c] = "no" \/ (durableReady[c] = "failed" /\ how = "failed")
      /\ UNCHANGED <<transcript, durableReady, suspendingForRestart, steered, stopped>>
      /\ NextTurn(turnQueue, aborted)
    <2>1. CASE DropTurn
        BY <1>0, <2>1 DEF DropTurn, Settle, Outcomes, Open, durableVars, history
    <2>2. CASE RejectTurn
        BY <1>0, <2>2 DEF RejectTurn, Settle, Outcomes, Open, history
    <2>3. CASE GateAborted
        BY <1>0, <2>3 DEF GateAborted, Settle, Outcomes, Open, history
    <2>4. CASE FinishTurn
        BY <1>0, <2>4 DEF FinishTurn, Settle, Outcomes, Open, history
    <2>5. CASE FailTurn
        <3>1. CASE aborted
            BY <1>0, <2>5, <3>1 DEF FailTurn, InTurn, Settle, Outcomes, Open, history
        <3>2. CASE ~aborted
            BY <1>0, <2>5, <3>2 DEF FailTurn, InTurn, Settle, Outcomes, Open, history
        <3> QED BY <3>1, <3>2
    <2> QED BY <2>1, <2>2, <2>3, <2>4, <2>5
<1>3. \/ DropTurn /\ durableReady[c] = "no"
         /\ UNCHANGED <<durableTurns, cancelledDurableTurns, pendingRows>>
      \/ SettleUnlessSuspending(t)
    BY <1>0 DEF DropTurn, RejectTurn, GateAborted, FinishTurn, FailTurn, durableVars
<1>4. \A u \in Turns : u # t =>
        /\ pendingRows'[u] = pendingRows[u] /\ durableTurns'[u] = durableTurns[u]
        /\ u \in cancelledDurableTurns' <=> u \in cancelledDurableTurns
    BY <1>1, <1>3 DEF SettleUnlessSuspending, SettleDurableTurn
<1>5. \/ UNCHANGED pendingRows /\ suspendingForRestart
      \/ UNCHANGED pendingRows /\ durableReady[c] = "no"
      \/ pendingRows'[t].state = "absent"
    <2>1. durableTurns[t] = "absent" => pendingRows[t].state = "absent"
        BY <1>1 DEF MoreInv, Inv, RowInv
    <2>2. NoRow.state = "absent"
        BY DEF NoRow
    <2> QED BY <1>1, <1>3, <2>1, <2>2 DEF SettleUnlessSuspending, SettleDurableTurn
<1>6. PICK how \in Outcomes \ Open :
        /\ outcome'[c] = how /\ \A q \in Requests : q # c => outcome'[q] = outcome[q]
        /\ how = "dropped" => durableReady[c] = "no"
        /\ phase = "accepting" =>
              durableReady[c] = "no" \/ (durableReady[c] = "failed" /\ how = "failed")
    BY <1>1, <1>2
<1> HIDE DEF t
<1>7. durableReady[c] \in {"yes", "no", "failed"}
    BY <1>0, <1>6 DEF MoreInv, Inv, PhaseInv
<1>8. AcceptedTurnIsStored'
    <2>1. ASSUME NEW r \in Requests, Expected(r)'
          PROVE  Unsent(r) /\ (Stored(r) => Stored(r)')
        <3>1. r # c /\ Unsent(r)
            BY <1>0, <1>2, <1>6, <2>1 DEF Expected, Unsent, Open
        <3>2. CASE UNCHANGED pendingRows \/ TurnOf[r] # t
            BY <1>0, <1>4, <3>1, <3>2, RequestsAssumption DEF Stored
        <3>3. CASE TurnOf[r] = t
            <4>1. phase = "accepting"
                BY <1>0, <3>1, <3>3, NoRivalInDrain DEF MoreInv, t
            <4>2. durableReady[c] # "no" => outcome'[c] = "failed"
                BY <1>6, <4>1
            <4>3. durableReady[c] = "no"
                BY <2>1, <3>3, <4>2 DEF Expected, t
            <4>4. UNCHANGED pendingRows
                BY <1>0, <1>3, <4>1, <4>3 DEF DropTurn, RejectTurn, GateAborted, FinishTurn,
                   FailTurn, InTurn, durableVars
            <4> QED BY <3>2, <4>4
        <3> QED BY <3>2, <3>3
    <2>2. \A q \in Requests : outcome[q] \in {"failed", "cancelled"} => outcome'[q] = outcome[q]
        BY <1>0, <1>6
    <2> QED BY <1>2, <2>1, <2>2, AcceptedKept DEF MoreInv
<1>9. OnlyInv'
    <2> SUFFICES ASSUME NEW r \in Requests, OnlyCopy(r) PROVE OnlyOf(r)'
        BY DEF OnlyInv, OnlyCopy
    <2>1. OnlyOf(r)
        BY DEF MoreInv, OnlyInv
    <2>2. CASE r # c
        <3>1. TurnOf[r] # t /\ TurnOf[r] \in Turns
            BY <2>2, RequestsAssumption DEF OnlyCopy, t
        <3>2. Recorded(TurnOf[r]) => Recorded(TurnOf[r])'
            BY <3>1, RecordedKept DEF DropTurn, RejectTurn, GateAborted, FinishTurn, FailTurn
        <3> QED BY <1>0, <1>2, <1>4, <1>6, <2>1, <2>2, <3>1, <3>2, OnlyFrame DEF SameOf
    <2>3. CASE r = c
        <3>1. ~Recorded(t)
            BY <1>0, <2>3, RunningIsNotRecorded DEF MoreInv, t
        <3> QED BY <1>0, <1>2, <1>5, <1>6, <1>7, <2>1, <2>3, <3>1 DEF OnlyOf, Open, t
    <2> QED BY <2>2, <2>3
<1> QED BY <1>8, <1>9 DEF RestKept

\* The turn passes the gate, sleeps, is shown, marked and sent.
LEMMA TurnGoesOnKept ==
    ASSUME MoreInv,
           \/ AcceptTurn \/ GateProceeds \/ GateWakes \/ GateSleeps \/ GateSkipped
           \/ LookUpUserMessage \/ AppendUserMessage \/ MarkDispatching \/ Send
    PROVE  RestKept
<1>0. PICK c \in Requests : c = currentTurn /\ outcome[c] = "pending" /\ phase # "idle"
                            /\ durableReady[c] = "yes"
    BY DEF MoreInv, Inv, QueueInv, PhaseInv, AcceptTurn, GateProceeds, GateWakes, GateSleeps,
       GateSkipped, LookUpUserMessage, AppendUserMessage, MarkDispatching, Send
<1> DEFINE t == TurnOf[c]
<1>1. /\ TypeOK /\ t \in Turns
      /\ pendingRows \in [Turns -> Row] /\ durableTurns \in [Turns -> RowStates]
      /\ pendingRows[t] \in Row
    BY RequestsAssumption DEF MoreInv, Inv, TypeOK
<1>2. UNCHANGED <<durableReady, cancelledDurableTurns, currentTurn, aborted, steer,
                  suspendingForRestart, outcome, steered, stopped>>
    BY DEF AcceptTurn, GateProceeds, GateWakes, GateSleeps, GateSkipped, LookUpUserMessage,
       AppendUserMessage, MarkDispatching, Send, history
<1>3. \A u \in Turns : u # t =>
        /\ pendingRows'[u] = pendingRows[u] /\ durableTurns'[u] = durableTurns[u]
        /\ transcript'[u] = transcript[u]
    <2>1. CASE AcceptTurn \/ GateProceeds \/ GateWakes \/ LookUpUserMessage \/ Send
        BY <2>1 DEF AcceptTurn, GateProceeds, GateWakes, LookUpUserMessage, Send, durableVars
    <2>2. CASE GateSleeps \/ GateSkipped
        BY <1>0, <1>1, <2>2 DEF GateSleeps, GateSkipped
    <2>3. CASE AppendUserMessage
        BY <1>0, <1>1, <2>3 DEF AppendUserMessage, UserRowAppended, TypeOK
    <2>4. CASE MarkDispatching
        BY <1>0, <1>1, <2>4 DEF MarkDispatching
    <2> QED BY <2>1, <2>2, <2>3, <2>4
<1>4. \/ pendingRows'[t] = pendingRows[t] /\ ~MarkDispatching
      \/ pendingRows'[t].state = "sleeping" /\ pendingRows[t].state \in Recoverable
      \/ pendingRows'[t].state = pendingRows[t].state /\ ~MarkDispatching
      \/ MarkDispatching /\ pendingRows[t].state = "absent" /\ pendingRows'[t].state = "absent"
      \/ MarkDispatching /\ pendingRows[t].state # "absent" /\ pendingRows'[t].state = "dispatching"
    <2>1. CASE \/ AcceptTurn \/ GateProceeds \/ GateWakes
               \/ LookUpUserMessage \/ AppendUserMessage \/ Send
        BY <2>1 DEF AcceptTurn, GateProceeds, GateWakes, LookUpUserMessage, AppendUserMessage,
           Send, durableVars, MarkDispatching
    <2>2. CASE GateSleeps
        BY <1>0, <1>1, <2>2 DEF GateSleeps, Row, MarkDispatching
    <2>3. CASE GateSkipped
        BY <1>0, <1>1, <2>3 DEF GateSkipped, ResumedRow, Row, MarkDispatching
    <2>4. CASE MarkDispatching
        <3>1. pendingRows[t].state # "absent" <=> durableTurns[t] # "absent"
            BY <1>0, <1>1, <2>4 DEF MarkDispatching, MoreInv, Inv, RowInv, Recoverable
        <3>2. DispatchingRow(pendingRows[t]).state = "dispatching"
            BY <1>1 DEF DispatchingRow, Row
        <3> QED BY <1>0, <1>1, <2>4, <3>1, <3>2 DEF MarkDispatching
    <2> QED BY <2>1, <2>2, <2>3, <2>4
<1>5. pendingRows'[t].state # "absent" => pendingRows[t].state # "absent"
    BY <1>4 DEF Recoverable
<1>6. /\ phase' = "dispatching" <=> MarkDispatching
      /\ phase = "dispatching" => Send
      /\ Send => phase' = "running"
    BY DEF AcceptTurn, GateProceeds, GateWakes, GateSleeps, GateSkipped, LookUpUserMessage,
       AppendUserMessage, MarkDispatching, Send
<1> HIDE DEF t
<1>7. AcceptedTurnIsStored'
    <2>1. ASSUME NEW r \in Requests, Expected(r)'
          PROVE  Unsent(r) /\ (Stored(r) => Stored(r)')
        <3>1. Unsent(r)
            BY <1>0, <1>2, <1>6, <2>1 DEF Expected, Unsent, AcceptTurn, GateProceeds, GateWakes,
               GateSleeps, GateSkipped, LookUpUserMessage, AppendUserMessage, MarkDispatching,
               Send
        <3>2. CASE TurnOf[r] # t
            BY <1>0, <1>3, <3>1, <3>2, RequestsAssumption DEF Stored, t
        <3>3. CASE TurnOf[r] = t /\ ~MarkDispatching
            <4>1. ~(r = c /\ phase = "dispatching")
                BY <1>0, <1>2, <1>6, <2>1 DEF Expected, Unsent
            <4> QED BY <1>0, <1>4, <3>1, <3>3, <4>1 DEF Stored, Recoverable, t
        <3>4. CASE TurnOf[r] = t /\ MarkDispatching
            <4>1. r = c
                BY <1>0, <3>1, <3>4, NoRivalInDrain DEF MoreInv, MarkDispatching, t
            <4> QED BY <1>0, <1>2, <1>4, <1>6, <3>1, <3>4, <4>1 DEF Stored, Recoverable, t
        <3> QED BY <3>1, <3>2, <3>3, <3>4
    <2> QED BY <1>2, <2>1, AcceptedKept DEF MoreInv
<1>8. OnlyInv'
    <2> SUFFICES ASSUME NEW r \in Requests, OnlyCopy(r) PROVE OnlyOf(r)'
        BY DEF OnlyInv, OnlyCopy
    <2>1. OnlyOf(r)
        BY DEF MoreInv, OnlyInv
    <2>2. CASE r # c
        <3>1. TurnOf[r] # t /\ TurnOf[r] \in Turns
            BY <2>2, RequestsAssumption DEF OnlyCopy, t
        <3> QED BY <1>2, <1>3, <2>1, <3>1, OnlyFrame DEF SameOf, Recorded
    <2>3. CASE r = c
        BY <1>0, <1>2, <1>5, <2>1, <2>3 DEF OnlyOf, Recorded, t
    <2> QED BY <2>2, <2>3
<1> QED BY <1>7, <1>8 DEF RestKept

\* cancelQueued: the request is dismissed, and its row is gone.
LEMMA CancelQueuedKept ==
    ASSUME MoreInv, NEW t \in Turns, CancelQueued(t) PROVE RestKept
<1>1. /\ TypeOK /\ QueueInv /\ turnQueue \in Seq(Requests) /\ IsInjective(turnQueue)
      /\ outcome \in [Requests -> Outcomes]
    BY DEF MoreInv, Inv, TypeOK, QueueInv
<1>2. PICK c \in Requests :
        /\ c \in ToSet(turnQueue) /\ TurnOf[c] = t
        /\ outcome' = [outcome EXCEPT ![c] = "cancelled"]
    BY <1>1, ExtractFromQueue DEF CancelQueued, IsFirst, Settle
<1>3. /\ ForgetTurns({t}) /\ RowInv
      /\ UNCHANGED <<transcript, durableReady, currentTurn, phase, aborted, steer,
                     suspendingForRestart, steered, stopped>>
    BY DEF CancelQueued, history, MoreInv, Inv
<1>4. /\ \A u \in Turns : u # t =>
            /\ pendingRows'[u] = pendingRows[u] /\ durableTurns'[u] = durableTurns[u]
            /\ u \in cancelledDurableTurns' <=> u \in cancelledDurableTurns
      /\ pendingRows'[t].state = "absent" /\ durableTurns'[t] = "absent"
      /\ t \in cancelledDurableTurns'
    BY <1>3 DEF ForgetTurns, NoRow
<1>5. /\ outcome'[c] = "cancelled" /\ outcome[c] = "pending" /\ c # currentTurn
      /\ \A q \in Requests : q # c => outcome'[q] = outcome[q]
    BY <1>1, <1>2 DEF QueueInv
<1>6. AcceptedTurnIsStored'
    <2>1. ASSUME NEW r \in Requests, Expected(r)'
          PROVE  Unsent(r) /\ (Stored(r) => Stored(r)')
        <3>1. TurnOf[r] # t
            BY <1>2, <1>5, <2>1 DEF Expected, Dismissed
        <3> QED BY <1>2, <1>3, <1>4, <1>5, <2>1, <3>1, RequestsAssumption
                DEF Expected, Unsent, Stored
    <2> QED BY <1>3, <1>5, <2>1, AcceptedKept DEF MoreInv
<1>7. OnlyInv'
    <2> SUFFICES ASSUME NEW r \in Requests, OnlyCopy(r) PROVE OnlyOf(r)'
        BY DEF OnlyInv, OnlyCopy
    <2>1. OnlyOf(r)
        BY DEF MoreInv, OnlyInv
    <2>2. CASE r # c
        <3>1. TurnOf[r] # t /\ TurnOf[r] \in Turns
            BY <1>2, <2>2, RequestsAssumption DEF OnlyCopy
        <3> QED BY <1>3, <1>4, <1>5, <2>1, <2>2, <3>1, OnlyFrame DEF SameOf, Recorded
    <2>3. CASE r = c
        BY <1>2, <1>3, <1>4, <1>5, <2>1, <2>3 DEF OnlyOf
    <2> QED BY <2>2, <2>3
<1> QED BY <1>6, <1>7 DEF RestKept

\* abort dismisses what it finds, and forgets the rows of it.
LEMMA AbortKept ==
    ASSUME MoreInv, Abort PROVE RestKept
<1> DEFINE found == ToSet(turnQueue) \cup ({currentTurn} \ {None})
           T == {TurnOf[r] : r \in found}
<1>1. /\ TypeOK /\ QueueInv /\ RowInv /\ ToSet(turnQueue) \subseteq Requests
      /\ found \subseteq Requests /\ T \in SUBSET Turns
    BY QueueElements, RequestsAssumption DEF MoreInv, Inv, TypeOK
<1>2. /\ ForgetTurns(T)
      /\ \A r \in Requests :
            outcome'[r] = IF r \in ToSet(turnQueue) THEN "stopped" ELSE outcome[r]
      /\ stopped' = stopped \cup found /\ aborted' = (phase # "idle")
      /\ UNCHANGED <<transcript, durableReady, currentTurn, phase, suspendingForRestart, steered>>
    BY DEF Abort, TearDownNativeSessionState
<1>3. /\ \A u \in Turns : u \notin T =>
            /\ pendingRows'[u] = pendingRows[u] /\ durableTurns'[u] = durableTurns[u]
            /\ u \in cancelledDurableTurns' <=> u \in cancelledDurableTurns
      /\ \A u \in T : /\ pendingRows'[u].state = "absent" /\ durableTurns'[u] = "absent"
                      /\ u \in cancelledDurableTurns'
    BY <1>1, <1>2 DEF ForgetTurns, NoRow
<1>4. \A r \in found : outcome[r] = "pending" /\ (r \in ToSet(turnQueue) \/ r = currentTurn)
    BY <1>1, NoneAssumption DEF QueueInv
<1>5. currentTurn # None => currentTurn \in found /\ phase # "idle"
    BY <1>1 DEF QueueInv
<1>6. \A r \in Requests : r \in found => TurnOf[r] \in T
    OBVIOUS
<1>7. \A r \in Requests : r \notin found => r \notin ToSet(turnQueue) /\ r # currentTurn
    BY NoneAssumption
<1>8. \A r \in Requests : OnlyCopy(r) /\ r \notin found => TurnOf[r] \notin T
    BY <1>1 DEF OnlyCopy
<1>9. \A u \in T : \E q \in found : TurnOf[q] = u
    OBVIOUS
<1> HIDE DEF found, T
<1>10. AcceptedTurnIsStored'
    <2>1. ASSUME NEW r \in Requests, Expected(r)'
          PROVE  Unsent(r) /\ (Stored(r) => Stored(r)')
        <3>1. TurnOf[r] \notin T
            BY <1>1, <1>2, <1>9, <2>1 DEF Expected, Dismissed
        <3> QED BY <1>1, <1>2, <1>3, <2>1, <3>1, RequestsAssumption DEF Expected, Unsent, Stored
    <2>2. \A q \in Requests : outcome[q] \in {"failed", "cancelled"} => outcome'[q] = outcome[q]
        BY <1>1, <1>2 DEF QueueInv
    <2> QED BY <1>2, <2>1, <2>2, AcceptedKept DEF MoreInv
<1>11. OnlyInv'
    <2> SUFFICES ASSUME NEW r \in Requests, OnlyCopy(r) PROVE OnlyOf(r)'
        BY DEF OnlyInv, OnlyCopy
    <2>1. OnlyOf(r) /\ TurnOf[r] \in Turns
        BY RequestsAssumption DEF MoreInv, OnlyInv
    <2>2. CASE r \notin found
        <3>1. Recorded(TurnOf[r]) => Recorded(TurnOf[r])'
            BY <2>1, RecordedKept DEF Abort, TearDownNativeSessionState
        <3> QED BY <1>2, <1>3, <1>7, <1>8, <2>1, <2>2, <3>1, OnlyFrame DEF SameOf
    <2>3. CASE r \in found
        <3>1. /\ outcome[r] = "pending" /\ r \in stopped'
              /\ pendingRows'[TurnOf[r]].state = "absent"
              /\ durableTurns'[TurnOf[r]] = "absent" /\ TurnOf[r] \in cancelledDurableTurns'
            BY <1>2, <1>3, <1>4, <1>6, <2>3
        <3>2. outcome'[r] = "stopped" \/ (outcome'[r] = "pending" /\ r = currentTurn)
            BY <1>2, <1>4, <2>3
        <3>3. r = currentTurn => aborted'
            BY <1>2, <1>5, NoneAssumption
        <3>4. Recorded(TurnOf[r]) => Recorded(TurnOf[r])'
            BY <2>1, RecordedKept DEF Abort, TearDownNativeSessionState
        <3> QED BY <1>2, <2>1, <3>1, <3>2, <3>3, <3>4 DEF OnlyOf
    <2> QED BY <2>2, <2>3
<1> QED BY <1>10, <1>11 DEF RestKept

\* The steps that keep every row's state, outcome and dismissal: a promotion, a
\* shutdown that begins, and steering up to the provider's answer.
LEMMA QuietKept ==
    ASSUME MoreInv,
           \A u \in Turns : pendingRows'[u].state = pendingRows[u].state,
           UNCHANGED <<durableReady, durableTurns, transcript, cancelledDurableTurns, outcome,
                       stopped>>,
           steered \subseteq steered',
           \A u \in Turns : Recorded(u) => Recorded(u)',
           suspendingForRestart => suspendingForRestart',
           \/ UNCHANGED <<phase, currentTurn>> /\ (currentTurn # None /\ aborted => aborted')
           \/ phase = "idle"
    PROVE  RestKept
<1>1. QueueInv
    BY DEF MoreInv, Inv
<1>2. AcceptedTurnIsStored'
    <2>1. ASSUME NEW r \in Requests, Expected(r)'
          PROVE  Unsent(r) /\ (Stored(r) => Stored(r)')
        <3>1. TurnOf[r] \in Turns
            BY RequestsAssumption
        <3> QED BY <1>1, <2>1, <3>1 DEF Expected, Unsent, Stored, QueueInv
    <2> QED BY <2>1, AcceptedKept DEF MoreInv
<1>3. OnlyInv'
    <2> SUFFICES ASSUME NEW r \in Requests, OnlyCopy(r) PROVE OnlyOf(r)'
        BY DEF OnlyInv, OnlyCopy
    <2>1. OnlyOf(r) /\ TurnOf[r] \in Turns
        BY RequestsAssumption DEF MoreInv, OnlyInv
    <2>2. r = currentTurn /\ aborted => r = currentTurn' /\ aborted'
        BY <1>1, NoneAssumption DEF QueueInv
    <2> QED BY <2>1, <2>2, OnlyFrame DEF SameOf
<1> QED BY <1>2, <1>3 DEF RestKept

\* The steps QuietKept speaks of.
LEMMA QuietStepsKept ==
    ASSUME MoreInv,
           \/ UNCHANGED vars \/ SuspendForRestart
           \/ \E t \in Turns : \/ PromoteQueued(t) \/ SteerCapture(t) \/ SteerClaim(t)
                               \/ SteerGivesUp(t) \/ ProviderAcceptsSteer(t) \/ SteerDeclined(t)
                               \/ SteerLooksUp(t)
    PROVE  RestKept
<1>1. pendingRows \in [Turns -> Row] /\ QueueInv
    BY DEF MoreInv, Inv, TypeOK
<1>2. CASE UNCHANGED vars
    BY <1>2, QuietKept DEF vars, Recorded
<1>3. CASE SuspendForRestart
    <2>1. \A u \in Turns : Recorded(u) => Recorded(u)'
        BY <1>3, RecordedKept DEF SuspendForRestart, TearDownNativeSessionState
    <2> QED BY <1>1, <1>3, <2>1, QuietKept
            DEF SuspendForRestart, TearDownNativeSessionState, QueueInv, durableVars, history
<1>4. ASSUME NEW t \in Turns, PromoteQueued(t) PROVE RestKept
    <2>1. \A u \in Turns : pendingRows'[u].state = pendingRows[u].state
        BY <1>1, <1>4, PromotionKeepsRows DEF PromoteQueued
    <2> QED BY <1>4, <2>1, QuietKept DEF PromoteQueued, history, Recorded
<1>5. ASSUME NEW t \in Turns,
             \/ SteerCapture(t) \/ SteerClaim(t) \/ SteerGivesUp(t)
             \/ ProviderAcceptsSteer(t) \/ SteerLooksUp(t)
      PROVE  RestKept
    <2>1. /\ UNCHANGED <<pendingRows, durableReady, durableTurns, transcript,
                         cancelledDurableTurns, outcome, stopped, suspendingForRestart, phase,
                         currentTurn, aborted>>
          /\ steered \subseteq steered'
        BY <1>5 DEF SteerCapture, SteerClaim, SteerGivesUp, ProviderAcceptsSteer, SteerLooksUp,
           durableVars, drainVars, history
    <2>2. steer[t].stage # "written" /\ \A u \in Turns : u # t => steer'[u] = steer[u]
        BY <1>5 DEF SteerCapture, SteerClaim, SteerGivesUp, ProviderAcceptsSteer, SteerLooksUp,
           MoreInv, Inv, TypeOK
    <2> QED BY <2>1, <2>2, QuietKept DEF Recorded
<1>6. ASSUME NEW t \in Turns, SteerDeclined(t) PROVE RestKept
    <2>1. phase = "idle" \/ UNCHANGED <<currentTurn, phase, aborted>>
        BY <1>6 DEF SteerDeclined, RestoreToQueue, Enqueued
    <2>2. steer[t].stage # "written" /\ \A u \in Turns : u # t => steer'[u] = steer[u]
        BY <1>6 DEF SteerDeclined, MoreInv, Inv, TypeOK
    <2> QED BY <1>6, <2>1, <2>2, QuietKept DEF SteerDeclined, durableVars, history, Recorded
<1> QED BY <1>2, <1>3, <1>4, <1>5, <1>6

\* An accepted steer writes its user row: a copy of it that is still being stored
\* will be refused, and the turn is about to be settled.
LEMMA SteerAppendsKept ==
    ASSUME MoreInv, NEW t \in Turns, SteerAppends(t) PROVE RestKept
<1>1. /\ UNCHANGED <<pendingRows, durableReady, durableTurns, cancelledDurableTurns, outcome,
                     steered, stopped, suspendingForRestart, phase, currentTurn, aborted>>
      /\ \A u \in Turns : u # t => steer'[u] = steer[u] /\ transcript'[u] = transcript[u]
      /\ steer[t].stage = "writing" /\ Recorded(t)'
    BY DEF SteerAppends, UserRowAppended, Recorded, MoreInv, Inv, TypeOK, drainVars, history
<1>2. AcceptedTurnIsStored'
    <2>1. \A r \in Requests : Expected(r)' => Unsent(r) /\ (Stored(r) => Stored(r)')
        BY <1>1 DEF Expected, Unsent, Stored
    <2> QED BY <1>1, <2>1, AcceptedKept DEF MoreInv
<1>3. PICK c \in Requests : TurnOf[c] = t /\ outcome[c] = "pending"
    BY <1>1 DEF MoreInv, Inv, QueueInv, Claimed
<1>4. OnlyInv'
    <2> SUFFICES ASSUME NEW r \in Requests, OnlyCopy(r) PROVE OnlyOf(r)'
        BY DEF OnlyInv, OnlyCopy
    <2>1. OnlyOf(r) /\ TurnOf[r] \in Turns
        BY RequestsAssumption DEF MoreInv, OnlyInv
    <2>2. CASE TurnOf[r] # t
        BY <1>1, <2>1, <2>2, OnlyFrame DEF SameOf, Recorded
    <2>3. CASE TurnOf[r] = t
        <3>1. r = c
            BY <1>3, <2>3 DEF OnlyCopy
        <3> QED BY <1>1, <1>3, <2>1, <2>3, <3>1 DEF OnlyOf
    <2> QED BY <2>2, <2>3
<1> QED BY <1>2, <1>4 DEF RestKept

\* A steer is over: its turn is settled, as steered.
LEMMA SteerSettlesKept ==
    ASSUME MoreInv, NEW t \in Turns, SteerSettles(t) PROVE RestKept
<1>1. /\ TypeOK /\ QueueInv /\ RowInv /\ outcome \in [Requests -> Outcomes]
      /\ pendingRows \in [Turns -> Row] /\ durableTurns \in [Turns -> RowStates]
      /\ transcript \in [Turns -> Nat]
    BY DEF MoreInv, Inv, TypeOK
<1>2. t \in steered
    BY DEF MoreInv, SteerInv, SteerSettles, Claimed
<1>3. PICK c \in Requests :
        /\ c = steer[t].request /\ TurnOf[c] = t /\ outcome[c] = "pending" /\ c # currentTurn
    BY <1>1 DEF QueueInv, SteerSettles, Claimed
<1>4. /\ outcome' = [outcome EXCEPT ![c] = "steered"] /\ SettleDurableTurn(t)
      /\ \A u \in Turns : u # t => transcript'[u] = transcript[u]
      /\ UNCHANGED <<durableReady, currentTurn, phase, aborted, suspendingForRestart, steered,
                     stopped>>
    BY <1>1, <1>3 DEF SteerSettles, Settle, drainVars, history
<1>5. /\ outcome'[c] = "steered" /\ \A q \in Requests : q # c => outcome'[q] = outcome[q]
      /\ \A u \in Turns : u # t =>
            /\ pendingRows'[u] = pendingRows[u] /\ durableTurns'[u] = durableTurns[u]
            /\ u \in cancelledDurableTurns' <=> u \in cancelledDurableTurns
      /\ pendingRows'[t].state = "absent" /\ durableTurns'[t] = "absent"
      /\ durableTurns[t] = "absent" => UNCHANGED cancelledDurableTurns
    <2>1. durableTurns[t] = "absent" => pendingRows[t].state = "absent"
        BY <1>1 DEF RowInv
    <2> QED BY <1>1, <1>4, <2>1 DEF SettleDurableTurn, NoRow
<1>6. AcceptedTurnIsStored'
    <2>1. ASSUME NEW r \in Requests, Expected(r)'
          PROVE  Unsent(r) /\ (Stored(r) => Stored(r)')
        <3>1. TurnOf[r] # t
            BY <1>2, <1>4, <2>1 DEF Expected
        <3> QED BY <1>3, <1>4, <1>5, <2>1, <3>1, RequestsAssumption
                DEF Expected, Unsent, Stored
    <2> QED BY <1>3, <1>4, <1>5, <2>1, AcceptedKept DEF MoreInv
<1>7. OnlyInv'
    <2> SUFFICES ASSUME NEW r \in Requests, OnlyCopy(r) PROVE OnlyOf(r)'
        BY DEF OnlyInv, OnlyCopy
    <2>1. OnlyOf(r)
        BY DEF MoreInv, OnlyInv
    <2>2. CASE r # c
        <3>1. TurnOf[r] # t /\ TurnOf[r] \in Turns
            BY <1>3, <2>2, RequestsAssumption DEF OnlyCopy
        <3>2. Recorded(TurnOf[r]) => Recorded(TurnOf[r])'
            BY <1>1, <3>1 DEF SteerSettles, Recorded, TypeOK
        <3> QED BY <1>4, <1>5, <2>1, <2>2, <3>1, <3>2, OnlyFrame DEF SameOf
    <2>3. CASE r = c
        BY <1>2, <1>3, <1>4, <1>5, <2>1, <2>3 DEF OnlyOf
    <2> QED BY <2>2, <2>3
<1> QED BY <1>6, <1>7 DEF RestKept

\* A restart: whatever is pending afterwards has the row it was restored from.
LEMMA RestartKept ==
    ASSUME MoreInv, Restart PROVE RestKept
<1> DEFINE R == {u \in Turns : pendingRows[u].state \in Recoverable}
<1>1. TypeOK /\ QueueInv /\ RowInv /\ Inv
    BY DEF MoreInv, Inv
<1>2. PICK queue \in Seq(Requests) :
        /\ ToSet(queue) = {pendingRows[t].request : t \in R}
        /\ outcome' = [r \in Requests |->
              IF r \in ToSet(queue) THEN "pending"
              ELSE IF outcome[r] = "pending" THEN "lost" ELSE outcome[r]]
        /\ durableReady' = [r \in Requests |->
              IF r \in ToSet(queue) THEN "yes"
              ELSE IF durableReady[r] = "persisting" THEN "no" ELSE durableReady[r]]
    BY <1>1, RestartEffect
<1>3. \A r \in Requests : r \in ToSet(queue) => pendingRows[TurnOf[r]].state \in Recoverable
    BY <1>1, <1>2 DEF RowInv, Recoverable
<1>4. \A r \in Requests : OnlyCopy(r) /\ pendingRows[TurnOf[r]].state \in Recoverable
                             => r \in ToSet(queue)
    <2> SUFFICES ASSUME NEW r \in Requests, OnlyCopy(r),
                        pendingRows[TurnOf[r]].state \in Recoverable
                 PROVE  r \in ToSet(queue)
        OBVIOUS
    <2>1. TurnOf[r] \in R
        BY RequestsAssumption
    <2>2. pendingRows[TurnOf[r]].request = r
        BY <1>1, <2>1 DEF RowInv, OnlyCopy, Recoverable
    <2> QED BY <1>2, <2>1, <2>2
<1>5. /\ \A u \in Turns :
            /\ pendingRows'[u] = IF pendingRows[u].state \in Recoverable
                                 THEN pendingRows[u] ELSE NoRow
            /\ durableTurns'[u] = pendingRows'[u].state
      /\ cancelledDurableTurns' = {} /\ suspendingForRestart' = FALSE /\ aborted' = FALSE
      /\ UNCHANGED <<transcript, steered, stopped>>
    BY DEF Restart, RestoredRow
<1> HIDE DEF R
<1>6. AcceptedTurnIsStored'
    <2> SUFFICES ASSUME NEW r \in Requests, Unsent(r)'
                 PROVE  pendingRows'[TurnOf[r]].state \in Recoverable
        BY DEF AcceptedTurnIsStored
    <2>1. r \in ToSet(queue) /\ TurnOf[r] \in Turns
        BY <1>2, RequestsAssumption DEF Unsent
    <2> QED BY <1>3, <1>5, <2>1
<1>7. OnlyInv'
    <2> SUFFICES ASSUME NEW r \in Requests, OnlyCopy(r) PROVE OnlyOf(r)'
        BY DEF OnlyInv, OnlyCopy
    <2>1. OnlyOf(r) /\ TurnOf[r] \in Turns
        BY RequestsAssumption DEF MoreInv, OnlyInv
    <2>2. NoRow.state = "absent"
        BY DEF NoRow
    <2>3. CASE r \in ToSet(queue)
        <3>1. /\ outcome'[r] = "pending" /\ durableReady'[r] = "yes"
              /\ pendingRows[TurnOf[r]].state # "absent"
            BY <1>2, <1>3, <2>3 DEF Recoverable
        <3> QED BY <1>5, <2>1, <3>1 DEF OnlyOf
    <2>4. CASE r \notin ToSet(queue)
        <3>1. /\ outcome'[r] # "pending" /\ outcome'[r] \in {outcome[r], "lost"}
              /\ durableReady'[r] # "persisting"
              /\ pendingRows'[TurnOf[r]].state = "absent"
            BY <1>2, <1>4, <1>5, <2>1, <2>2, <2>4
        <3> QED BY <1>5, <2>1, <3>1 DEF OnlyOf
    <2> QED BY <2>3, <2>4
<1> QED BY <1>6, <1>7 DEF RestKept

-----------------------------------------------------------------------------
\* Every step keeps the larger invariant.
LEMMA MoreStep == MoreInv /\ [Next]_vars => MoreInv'
<1> SUFFICES ASSUME MoreInv, [Next]_vars PROVE RestKept
    BY NextInv, SteerInvStep DEF MoreInv, RestKept
<1>1. CASE UNCHANGED vars \/ SuspendForRestart
    BY <1>1, QuietStepsKept
<1>2. ASSUME NEW r \in Requests, RunQuery(r) \/ PersistDurableTurn(r) \/ PersistFails(r)
      PROVE  RestKept
    BY <1>2, RunQueryKept, PersistKept
<1>3. CASE DrainStep
    BY <1>3, EndOfTurnKept, TurnGoesOnKept DEF DrainStep
<1>4. ASSUME NEW t \in Turns, \/ CancelQueued(t) \/ PromoteQueued(t)
                              \/ SteerCapture(t) \/ SteerStep(t)
      PROVE  RestKept
    BY <1>4, CancelQueuedKept, QuietStepsKept, SteerAppendsKept, SteerSettlesKept
       DEF SteerStep
<1>5. CASE Abort \/ Restart
    BY <1>5, AbortKept, RestartKept
<1> QED BY <1>1, <1>2, <1>3, <1>4, <1>5 DEF Next

\* It holds before anything was received.
LEMMA MoreInit == Init => MoreInv
<1> SUFFICES ASSUME Init PROVE MoreInv
    OBVIOUS
<1>1. SteerInv /\ AcceptedTurnIsStored
    BY DEF Init, SteerInv, NoSteer, Claimed, AcceptedTurnIsStored, Unsent
<1>2. OnlyInv
    <2> SUFFICES ASSUME NEW r \in Requests PROVE OnlyOf(r)
        BY DEF OnlyInv
    <2>1. TurnOf[r] \in Turns
        BY RequestsAssumption
    <2> QED BY <2>1 DEF Init, OnlyOf, NoRow
<1> QED BY <1>1, <1>2, InitInv DEF MoreInv

\* An accepted prompt that no provider has seen is in the database, until the
\* user dismisses it, it is steered, or a copy of it fails (persistDurableTurn,
\* settleDurableTurn, restoreDurableTurns).
THEOREM AcceptedTurnIsStoredAlways == Spec => []AcceptedTurnIsStored
<1>1. MoreInv => AcceptedTurnIsStored
    BY DEF MoreInv
<1> QED BY <1>1, MoreInit, MoreStep, PTL DEF Spec

\* The table keeps nothing that no request waits for (settleDurableTurn,
\* cancelledDurableTurns), except while Hlid shuts down.
THEOREM NoLeftoverRowAlways == Spec => []NoLeftoverRow
<1>1. MoreInv => NoLeftoverRow
    <2> SUFFICES ASSUME MoreInv, NEW t \in Present
                 PROVE  \/ suspendingForRestart \/ t \in steered
                        \/ \E r \in Requests :
                              TurnOf[r] = t /\ (outcome[r] = "pending" \/ ~OnlyCopy(r))
        BY DEF NoLeftoverRow
    <2>1. /\ t \in Turns /\ pendingRows[t].state # "absent"
          /\ pendingRows[t].request \in Requests /\ TurnOf[pendingRows[t].request] = t
        BY DEF Present, MoreInv, Inv, RowInv
    <2>2. OnlyCopy(pendingRows[t].request) => OnlyOf(pendingRows[t].request)
        BY <2>1 DEF MoreInv, OnlyInv
    <2> QED BY <2>1, <2>2 DEF OnlyOf
<1> QED BY <1>1, MoreInit, MoreStep, PTL DEF Spec

\* persistDurableTurn refuses only what the user stopped and what came twice.
THEOREM DroppedForCauseAlways == Spec => []DroppedForCause
<1>1. MoreInv => DroppedForCause
    BY DEF MoreInv, OnlyInv, OnlyOf, DroppedForCause
<1> QED BY <1>1, MoreInit, MoreStep, PTL DEF Spec

\* A request that Stop found is never sent afterwards (abort, the signal of the
\* drain, cancelledDurableTurns), for any requests, turn ids and restarts.
THEOREM StoppedIsNeverSentAlways == Spec => StoppedIsNeverSent
<1>1. ASSUME MoreInv, [Next]_vars, NEW r \in stopped, OnlyCopy(r)
      PROVE  sent'[TurnOf[r]] = sent[TurnOf[r]]
    <2>1. /\ sent \in [Turns -> Nat] /\ r \in Requests /\ OnlyOf(r)
        BY <1>1 DEF MoreInv, OnlyInv, Inv, TypeOK
    <2>2. CASE Send
        <3>1. /\ currentTurn \in Requests /\ outcome[currentTurn] = "pending" /\ ~aborted
              /\ sent' = [sent EXCEPT ![TurnOf[currentTurn]] = @ + 1]
            BY <1>1, <2>2 DEF Send, MoreInv, Inv, QueueInv
        <3>2. TurnOf[currentTurn] # TurnOf[r]
            BY <1>1, <2>1, <3>1 DEF OnlyCopy, OnlyOf
        <3> QED BY <2>1, <3>1, <3>2, RequestsAssumption
    <2>3. CASE ~Send
        <3>1. sent' = sent
            <4>1. CASE \/ UNCHANGED vars \/ Abort \/ SuspendForRestart \/ Restart
                       \/ \E q \in Requests :
                             RunQuery(q) \/ PersistDurableTurn(q) \/ PersistFails(q)
                BY <4>1 DEF vars, history, Abort, SuspendForRestart, Restart, RunQuery,
                   PersistDurableTurn, PersistRefused, PersistCancelled, PersistInserted,
                   PersistFails
            <4>2. CASE DrainStep
                BY <2>3, <4>2 DEF DrainStep, AcceptTurn, DropTurn, RejectTurn, GateProceeds,
                   GateSleeps, GateWakes, GateSkipped, GateAborted, LookUpUserMessage,
                   AppendUserMessage, MarkDispatching, FinishTurn, FailTurn, history
            <4>3. CASE \E t \in Turns : \/ CancelQueued(t) \/ PromoteQueued(t)
                                        \/ SteerCapture(t) \/ SteerStep(t)
                BY <4>3 DEF CancelQueued, PromoteQueued, SteerCapture, SteerStep, SteerClaim,
                   SteerGivesUp, ProviderAcceptsSteer, SteerLooksUp, SteerAppends, SteerSettles,
                   SteerDeclined, history
            <4> QED BY <1>1, <4>1, <4>2, <4>3 DEF Next
        <3> QED BY <3>1
    <2> QED BY <2>2, <2>3
<1>2. MoreInv /\ [Next]_vars => [\A r \in stopped :
        OnlyCopy(r) => sent'[TurnOf[r]] = sent[TurnOf[r]]]_vars
    BY <1>1
<1> QED BY <1>2, MoreInit, MoreStep, PTL DEF Spec, StoppedIsNeverSent
=============================================================================
