---------------------------- MODULE PtyPoolProofs ----------------------------
(***************************************************************************)
(* Theorems about PtyPool and RingBuffer, for every value of their         *)
(* constants: what a client that comes back is shown, for any capacity and *)
(* any chunks, and that no process is left without a session to show it.   *)
(***************************************************************************)
EXTENDS PtyPool, TLAPS

-----------------------------------------------------------------------------
(* Remainders *)

\* A remainder is below its divisor.
LEMMA RemainderRange ==
    ASSUME NEW a \in Nat, NEW c \in Nat \ {0} PROVE a % c \in 0 .. c - 1
BY SMT

\* A remainder is known by its quotient.
LEMMA RemainderIsUnique ==
    ASSUME NEW a \in Nat, NEW c \in Nat \ {0}, NEW q \in Nat, NEW r \in 0 .. c - 1,
           a = q * c + r
    PROVE  a % c = r
BY SMT

\* What is below the divisor is its own remainder, one turn on too.
LEMMA SmallRemainder ==
    ASSUME NEW c \in Nat \ {0}, NEW a \in 0 .. c - 1
    PROVE  a % c = a /\ (a + c) % c = a
BY SMT

\* Where a step of less than a turn ends.
LEMMA RemainderAfter ==
    ASSUME NEW c \in Nat \ {0}, NEW a \in Nat, NEW k \in 0 .. c - 1
    PROVE  (a + k) % c = IF (a % c) + k < c THEN (a % c) + k ELSE (a % c) + k - c
<1>1. PICK q \in Nat : a = q * c + (a % c)
  <2>1. a \div c \in Nat /\ a = (a \div c) * c + (a % c)
      BY SMT
  <2> QED
      BY <2>1
<1>2. PICK r \in 0 .. c - 1 : r = a % c
    BY RemainderRange
<1>3. CASE r + k < c
  <2>1. a + k \in Nat /\ a + k = q * c + (r + k) /\ r + k \in 0 .. c - 1
      BY <1>1, <1>2, <1>3
  <2>2. (a + k) % c = r + k
      BY <2>1, RemainderIsUnique
  <2> QED
      BY <1>2, <1>3, <2>2
<1>4. CASE ~(r + k < c)
  <2>1. PICK p \in Nat : p = q + 1
      OBVIOUS
  <2>2. a + k \in Nat /\ a + k = p * c + (r + k - c)
    <3>1. p * c = q * c + c
        BY <2>1
    <3>2. q * c \in Nat /\ a = q * c + r
        BY <1>1, <1>2
    <3> QED
        BY <3>1, <3>2
  <2>4. r + k - c \in 0 .. c - 1
      BY <1>2, <1>4
  <2>3. (a + k) % c = r + k - c
      BY <2>2, <2>4, RemainderIsUnique
  <2> QED
      BY <1>2, <1>4, <2>3
<1> QED
    BY <1>3, <1>4

-----------------------------------------------------------------------------
(* The ring buffer *)

Used(n) == IF n < Cap THEN n ELSE Cap

\* How many bytes were written after the one at i, when the next goes to s.
Behind(i, s) == IF i < s THEN s - 1 - i ELSE s - 1 - i + Cap

\* Of n bytes, each that none of the later ones has overwritten is in its place.
InPlace(b, n, s) == \A i \in 0 .. Cap - 1 :
    Behind(i, s) < n => b.at[i] = n - Behind(i, s)

\* b holds the last of n bytes.
HoldsTail(b, n) ==
    /\ b \in [at : [0 .. Cap - 1 -> Nat], len : Nat]
    /\ n < Cap => b.len = n
    /\ n >= Cap => b.len >= Cap
    /\ InPlace(b, n, b.len % Cap)

\* A new buffer holds nothing.
LEMMA NewHoldsNothing == HoldsTail(NewBuffer, 0)
<1>1. \A i \in 0 .. Cap - 1 : ~(Behind(i, NewBuffer.len % Cap) < 0)
  <2>1. NewBuffer.len = 0 /\ 0 % Cap = 0
      BY SmallRemainder, CapAssumption DEF NewBuffer
  <2> QED
      BY <2>1, CapAssumption DEF Behind
<1>2. InPlace(NewBuffer, 0, NewBuffer.len % Cap)
    BY <1>1 DEF InPlace
<1> QED
    BY <1>2, CapAssumption DEF HoldsTail, NewBuffer, Unwritten

\* A chunk that fits is written behind the newest byte, around the end.
LEMMA SmallChunk ==
    ASSUME NEW b, NEW n \in Nat, NEW k \in Nat \ {0}, HoldsTail(b, n), k < Cap
    PROVE  HoldsTail(Push(b, n + 1, k), n + k)
<1> DEFINE new == Push(b, n + 1, k)
<1> USE CapAssumption
<1>0. /\ b.at \in [0 .. Cap - 1 -> Nat] /\ b.len \in Nat
      /\ n < Cap => b.len = n
      /\ n >= Cap => b.len >= Cap
    BY DEF HoldsTail
<1>1. PICK s \in 0 .. Cap - 1 : s = b.len % Cap
    BY <1>0, RemainderRange
<1>2. PICK z \in 0 .. Cap - 1 : z = IF s + k < Cap THEN s + k ELSE s + k - Cap
    BY <1>1
<1>3. new.len = b.len + k
    BY DEF Push, LenAfter
<1>12. new.len % Cap = z
  <2>1. k \in 0 .. Cap - 1
      OBVIOUS
  <2>2. (b.len + k) % Cap = IF s + k < Cap THEN s + k ELSE s + k - Cap
      BY <1>0, <1>1, <2>1, RemainderAfter
  <2> QED
      BY <1>2, <1>3, <2>2
<1>4. ASSUME NEW i \in 0 .. Cap - 1
      PROVE  (i - s + Cap) % Cap = IF i >= s THEN i - s ELSE i - s + Cap
  <2>1. CASE i >= s
      BY <2>1, <1>1, SmallRemainder
  <2>2. CASE i < s
      BY <2>2, <1>1, SmallRemainder
  <2> QED
      BY <2>1, <2>2, <1>1
<1>5. ASSUME NEW i \in 0 .. Cap - 1
      PROVE  new.at[i] = LET d == IF i >= s THEN i - s ELSE i - s + Cap
                         IN IF d < k THEN n + 1 + d ELSE b.at[i]
  <2>1. new.at[i] = IF (i - s + Cap) % Cap < k THEN n + 1 + k - k + ((i - s + Cap) % Cap)
                    ELSE b.at[i]
      BY <1>1 DEF Push
  <2>2. PICK d \in 0 .. Cap - 1 : d = IF i >= s THEN i - s ELSE i - s + Cap
      BY <1>1
  <2>3. new.at[i] = IF d < k THEN n + 1 + k - k + d ELSE b.at[i]
      BY <2>1, <2>2, <1>4
  <2> QED
      BY <2>2, <2>3
<1>9. /\ new = [at |-> new.at, len |-> new.len]
      /\ new.at = [i \in 0 .. Cap - 1 |-> new.at[i]]
    BY DEF Push
<1> HIDE DEF new
<1>6. ASSUME NEW i \in 0 .. Cap - 1, Behind(i, z) < n + k
      PROVE  new.at[i] = n + k - Behind(i, z)
  <2>1. Behind(i, s) < n => b.at[i] = n - Behind(i, s)
      BY <1>1 DEF HoldsTail, InPlace
  <2>2. PICK d \in 0 .. Cap - 1 : d = IF i >= s THEN i - s ELSE i - s + Cap
      BY <1>1
  <2>3. CASE d < k
    <3>1. Behind(i, z) = k - 1 - d
        BY <1>1, <1>2, <2>2, <2>3 DEF Behind
    <3> QED
        BY <1>5, <2>2, <2>3, <3>1
  <2>4. CASE ~(d < k)
    <3>1. Behind(i, z) = Behind(i, s) + k /\ Behind(i, s) \in Nat
        BY <1>1, <1>2, <2>2, <2>4 DEF Behind
    <3> QED
        BY <1>5, <1>6, <2>1, <2>2, <2>4, <3>1
  <2> QED
      BY <2>3, <2>4
<1>7. new \in [at : [0 .. Cap - 1 -> Nat], len : Nat]
  <2>1. ASSUME NEW i \in 0 .. Cap - 1 PROVE new.at[i] \in Nat
    <3>1. PICK d \in 0 .. Cap - 1 : d = IF i >= s THEN i - s ELSE i - s + Cap
        BY <1>1
    <3>2. b.at[i] \in Nat /\ n + 1 + d \in Nat
        BY <1>0
    <3> QED
        BY <1>5, <3>1, <3>2
  <2>2. new.at \in [0 .. Cap - 1 -> Nat]
      BY <2>1, <1>9
  <2>3. new.len \in Nat
      BY <1>0, <1>3
  <2> QED
      BY <2>2, <2>3, <1>9
<1>8. /\ n + k < Cap => new.len = n + k
      /\ n + k >= Cap => new.len >= Cap
  <2>1. PICK l \in Nat : l = b.len /\ new.len = l + k
      BY <1>0, <1>3
  <2> QED
      BY <1>0, <2>1
<1>10. InPlace(new, n + k, new.len % Cap)
  <2>1. InPlace(new, n + k, z)
      BY <1>2, <1>6 DEF InPlace, Behind
  <2> QED
      BY <2>1, <1>12
<1>11. HoldsTail(new, n + k)
    BY <1>7, <1>8, <1>10 DEF HoldsTail
<1> QED
    BY <1>11 DEF new

\* A chunk that fills the buffer replaces it.
LEMMA BigChunk ==
    ASSUME NEW b, NEW n \in Nat, NEW k \in Nat \ {0}, HoldsTail(b, n), k >= Cap
    PROVE  HoldsTail(Push(b, n + 1, k), n + k)
<1> DEFINE new == Push(b, n + 1, k)
<1> USE CapAssumption
<1>1. new.len = Cap /\ new.len % Cap = 0
  <2>1. (0 + Cap) % Cap = 0
      BY SmallRemainder
  <2> QED
      BY <2>1 DEF Push, LenAfter
<1>2. ASSUME NEW i \in 0 .. Cap - 1 PROVE new.at[i] = n + 1 + k - Cap + i
  <2>1. (i - 0 + Cap) % Cap = i
      BY SmallRemainder
  <2>2. new.at[i] = IF (i - 0 + Cap) % Cap < Cap
                    THEN n + 1 + k - Cap + ((i - 0 + Cap) % Cap) ELSE b.at[i]
      BY DEF Push
  <2> QED
      BY <2>1, <2>2
<1>9. /\ new = [at |-> new.at, len |-> new.len]
      /\ new.at = [i \in 0 .. Cap - 1 |-> new.at[i]]
    BY DEF Push
<1> HIDE DEF new
<1>3. new \in [at : [0 .. Cap - 1 -> Nat], len : Nat]
  <2>1. \A i \in 0 .. Cap - 1 : new.at[i] \in Nat
      BY <1>2
  <2>2. new.at \in [0 .. Cap - 1 -> Nat]
      BY <2>1, <1>9
  <2> QED
      BY <2>2, <1>1, <1>9
<1>4. \A i \in 0 .. Cap - 1 : new.at[i] = n + k - Behind(i, 0)
    BY <1>2 DEF Behind
<1>5. InPlace(new, n + k, new.len % Cap)
  <2>1. InPlace(new, n + k, 0)
      BY <1>4 DEF InPlace, Behind
  <2> QED
      BY <2>1, <1>1
<1>6. /\ n + k < Cap => new.len = n + k
      /\ n + k >= Cap => new.len >= Cap
    BY <1>1
<1>7. HoldsTail(new, n + k)
    BY <1>3, <1>5, <1>6 DEF HoldsTail
<1> QED
    BY <1>7 DEF new

\* RingBuffer.push, for chunks of every size.
LEMMA PushHoldsTail ==
    ASSUME NEW b, NEW n \in Nat, NEW k \in Nat \ {0}, HoldsTail(b, n)
    PROVE  HoldsTail(Push(b, n + 1, k), n + k)
BY SmallChunk, BigChunk, CapAssumption

\* The snapshot of a buffer that holds the tail is the tail, oldest byte first.
LEMMA SnapshotIsTail ==
    ASSUME NEW b, NEW n \in Nat, HoldsTail(b, n)
    PROVE  Snapshot(b) = [i \in 1 .. Used(n) |-> n - Used(n) + i]
<1> USE CapAssumption
<1>0. b.len \in Nat
    BY DEF HoldsTail
<1>1. CASE n < Cap
  <2>1. b.len = n /\ n % Cap = n
      BY <1>1, SmallRemainder DEF HoldsTail
  <2>2. ASSUME NEW i \in 1 .. n PROVE b.at[i - 1] = n - n + i
    <3>1. PICK j \in 0 .. Cap - 1 : j = i - 1
        BY <1>1
    <3>2. Behind(j, n) = n - i /\ n - i < n
        BY <3>1 DEF Behind
    <3>3. b.at[j] = n - (n - i)
        BY <1>1, <2>1, <3>1, <3>2 DEF HoldsTail, InPlace
    <3> QED
        BY <3>1, <3>3
  <2> QED
      BY <1>1, <2>1, <2>2 DEF Snapshot, Used
<1>2. CASE ~(n < Cap)
  <2>1. PICK s \in 0 .. Cap - 1 : s = b.len % Cap
      BY <1>0, RemainderRange
  <2>2. ASSUME NEW i \in 1 .. Cap PROVE b.at[(b.len + i - 1) % Cap] = n - Cap + i
    <3>1. PICK j \in 0 .. Cap - 1 : j = i - 1
        OBVIOUS
    <3>2. PICK z \in 0 .. Cap - 1 : z = IF s + j < Cap THEN s + j ELSE s + j - Cap
        BY <2>1
    <3>3. b.len + i - 1 = b.len + j /\ (b.len + j) % Cap = z
        BY <1>0, <2>1, <3>1, <3>2, RemainderAfter
    <3>4. Behind(z, s) = Cap - 1 - j
        BY <2>1, <3>1, <3>2 DEF Behind
    <3>5. b.at[z] = n - (Cap - 1 - j)
        BY <1>2, <2>1, <3>1, <3>4 DEF HoldsTail, InPlace
    <3> QED
        BY <3>1, <3>3, <3>5
  <2>3. ~(b.len < Cap)
    <3>1. n >= Cap
        BY <1>2
    <3> QED
        BY <1>0, <3>1 DEF HoldsTail
  <2> QED
      BY <1>2, <2>2, <2>3 DEF Snapshot, Used
<1> QED
    BY <1>1, <1>2

-----------------------------------------------------------------------------
(* The pool *)

\* A process that nobody told to end is alive and its session's entry, and an
\* entry belongs to its session.
Shows ==
    /\ \A p \in Procs : /\ worker[p] # "unborn" => session[p] \in Sessions
                        /\ worker[p] = "running" => entries[session[p]] = p /\ alive[p]
                        /\ worker[p] = "unborn" => ~alive[p]
    /\ \A s \in Sessions : entries[s] # None =>
          session[entries[s]] = s /\ worker[entries[s]] # "unborn"
    /\ \A p \in cleaning : session[p] \in Sessions

Buffers == \A p \in Procs : HoldsTail(buffer[p], out[p])

IInv == TypeOK /\ Shows /\ Buffers

\* The pool starts empty.
LEMMA InitIInv == Init => IInv
<1> SUFFICES ASSUME Init PROVE IInv
    OBVIOUS
<1>1. NewBuffer \in [at : [0 .. Cap - 1 -> Nat], len : Nat]
    BY DEF NewBuffer, Unwritten
<1>2. TypeOK
    BY <1>1, PtyConstants DEF Init, TypeOK
<1>3. Shows
    BY DEF Init, Shows
<1>4. Buffers
    BY NewHoldsNothing DEF Init, Buffers
<1> QED
    BY <1>2, <1>3, <1>4 DEF IInv

\* None is the entry of no session that has one.
LEMMA EntryIsAProc ==
    ASSUME TypeOK, NEW s \in Sessions, entries[s] # None PROVE entries[s] \in Procs
BY DEF TypeOK

\* A new worker replaces an entry whose process has exited, if any.
LEMMA SubscribeKeeps ==
    ASSUME IInv, NEW c \in Clients, Subscribe(c) PROVE IInv'
<1> USE DEF IInv
<1>1. PICK s \in Sessions : s = SessionOf[c]
    BY PtyConstants
<1>2. UNCHANGED <<exitMark, buffer, cleaning, out>>
    BY DEF Subscribe
<1>3. CASE Reusable(s)
  <2>1. PICK p \in Procs : p = entries[s]
      BY <1>3, EntryIsAProc DEF Reusable
  <2>2. /\ UNCHANGED <<entries, session, worker, alive>>
        /\ subs' = [subs EXCEPT ![p] = @ \cup {c}]
        /\ idling' = idling \ {handle[p]}
        /\ handle' = [handle EXCEPT ![p] = None]
        /\ client' = [client EXCEPT ![c] = "open"] /\ mapped' = mapped \cup {c}
      BY <1>1, <1>3, <2>1 DEF Subscribe
  <2>3. TypeOK'
      BY <1>2, <2>2 DEF TypeOK
  <2>4. Shows' /\ Buffers'
      BY <1>2, <2>2 DEF Shows, Buffers
  <2> QED
      BY <2>3, <2>4
<1>4. CASE ~Reusable(s)
  <2>1. PICK p \in Procs :
            /\ worker[p] = "unborn"
            /\ entries' = [entries EXCEPT ![s] = p]
            /\ session' = [session EXCEPT ![p] = s]
            /\ worker' = [worker EXCEPT ![p] = "running"]
            /\ alive' = [alive EXCEPT ![p] = TRUE]
            /\ subs' = [subs EXCEPT ![p] = {c}]
            /\ UNCHANGED <<handle, idling>>
            /\ client' = [client EXCEPT ![c] = "open"] /\ mapped' = mapped \cup {c}
      BY <1>1, <1>4 DEF Subscribe
  <2>2. TypeOK'
      BY <1>2, <2>1 DEF TypeOK
  <2>3. /\ worker'[p] = "running" /\ session'[p] = s /\ alive'[p] /\ entries'[s] = p
        /\ \A q \in Procs \ {p} : worker'[q] = worker[q] /\ session'[q] = session[q]
                                  /\ alive'[q] = alive[q]
        /\ \A t \in Sessions \ {s} : entries'[t] = entries[t]
      BY <2>1 DEF TypeOK
  <2>4. ASSUME NEW q \in Procs \ {p}, worker[q] = "running"
        PROVE  session[q] \in Sessions \ {s}
    <3>1. session[q] \in Sessions /\ entries[session[q]] = q /\ alive[q]
        BY <2>4 DEF Shows
    <3>2. q # None
        BY PtyConstants
    <3>3. ASSUME session[q] = s PROVE FALSE
      <4>1. entries[s] = q
          BY <3>1, <3>3
      <4> QED
          BY <1>4, <3>1, <3>2, <4>1 DEF Reusable
    <3> QED
        BY <3>1, <3>3
  <2>5. \A t \in Sessions \ {s} : entries[t] # p
    <3>1. p # None /\ worker[p] = "unborn"
        BY <2>1, PtyConstants
    <3> QED
        BY <3>1 DEF Shows
  <2>6. Shows'
    <3>1. ASSUME NEW q \in Procs
          PROVE  /\ worker'[q] # "unborn" => session'[q] \in Sessions
                 /\ worker'[q] = "running" => entries'[session'[q]] = q /\ alive'[q]
                 /\ worker'[q] = "unborn" => ~alive'[q]
      <4>1. CASE q = p
          BY <4>1, <2>3
      <4>2. CASE q # p
          BY <4>2, <2>3, <2>4 DEF Shows
      <4> QED
          BY <4>1, <4>2
    <3>2. ASSUME NEW t \in Sessions, entries'[t] # None
          PROVE  session'[entries'[t]] = t /\ worker'[entries'[t]] # "unborn"
      <4>1. CASE t = s
          BY <4>1, <2>3
      <4>2. CASE t # s
        <5>1. PICK q \in Procs \ {p} : q = entries[t]
            BY <3>2, <4>2, <2>3, <2>5, EntryIsAProc
        <5> QED
            BY <3>2, <4>2, <5>1, <2>3 DEF Shows
      <4> QED
          BY <4>1, <4>2
    <3>3. \A q \in cleaning : session'[q] \in Sessions
        BY <2>3 DEF Shows, TypeOK
    <3> QED
        BY <1>2, <3>1, <3>2, <3>3 DEF Shows
  <2>7. Buffers'
      BY <1>2 DEF Buffers
  <2> QED
      BY <2>2, <2>6, <2>7
<1> QED
    BY <1>3, <1>4

\* A client that leaves changes subscribers and timers only.
LEMMA UnsubscribeKeeps ==
    ASSUME IInv, NEW c \in Clients, Unsubscribe(c) PROVE IInv'
<1> USE DEF IInv
<1>1. UNCHANGED <<entries, session, worker, alive, exitMark, buffer, cleaning, out>>
    BY DEF Unsubscribe
<1>2. client' \in [Clients -> {"new", "open", "closed"}] /\ mapped' \subseteq Clients
    BY DEF Unsubscribe, TypeOK
<1>3. /\ subs' \in [Procs -> SUBSET Clients] /\ handle' \in [Procs -> Clients \cup {None}]
      /\ idling' \subseteq Clients
  <2>1. PICK p : p = entries[SessionOf[c]]
      OBVIOUS
  <2>2. CASE c \notin mapped \/ p = None
    <3>1. UNCHANGED <<subs, handle, idling>>
        BY <2>1, <2>2 DEF Unsubscribe
    <3> QED
        BY <3>1 DEF TypeOK
  <2>3. CASE ~(c \notin mapped \/ p = None)
    <3>1. p \in Procs
        BY <2>1, <2>3, PtyConstants DEF TypeOK
    <3>2. subs' = [subs EXCEPT ![p] = @ \ {c}]
        BY <2>1, <2>3 DEF Unsubscribe
    <3>3. \/ handle' = [handle EXCEPT ![p] = c] /\ idling' = idling \cup {c}
          \/ UNCHANGED <<handle, idling>>
        BY <2>1, <2>3 DEF Unsubscribe
    <3>4. subs' \in [Procs -> SUBSET Clients]
        BY <3>1, <3>2 DEF TypeOK
    <3>5. handle' \in [Procs -> Clients \cup {None}] /\ idling' \subseteq Clients
        BY <3>1, <3>3 DEF TypeOK
    <3> QED
        BY <3>4, <3>5
  <2> QED
      BY <2>2, <2>3
<1>4. TypeOK'
    BY <1>1, <1>2, <1>3 DEF TypeOK
<1>5. Shows' /\ Buffers'
    BY <1>1 DEF Shows, Buffers
<1> QED
    BY <1>4, <1>5

\* An entry is taken out of the pool: its worker is told to end, or has exited.
LEMMA RemovalKeeps ==
    ASSUME Shows, TypeOK, NEW s \in Sessions, NEW p \in Procs, p = entries[s],
           entries' = [entries EXCEPT ![s] = None],
           worker' \in [Procs -> {"unborn", "running", "told", "gone"}],
           worker'[p] # "running",
           \A q \in Procs : worker'[q] = "unborn" <=> worker[q] = "unborn",
           \A q \in Procs \ {p} : worker'[q] = worker[q],
           UNCHANGED <<session, alive>>, cleaning' \subseteq cleaning
    PROVE  Shows'
<1>1. ASSUME NEW q \in Procs
      PROVE  /\ worker'[q] # "unborn" => session'[q] \in Sessions
             /\ worker'[q] = "running" => entries'[session'[q]] = q /\ alive'[q]
             /\ worker'[q] = "unborn" => ~alive'[q]
  <2>1. CASE q = p
      BY <2>1 DEF Shows
  <2>2. CASE q # p /\ worker[q] = "running"
    <3>1. session[q] \in Sessions \ {s} /\ entries[session[q]] = q
        BY <2>2 DEF Shows
    <3> QED
        BY <2>2, <3>1 DEF Shows, TypeOK
  <2>3. CASE q # p /\ worker[q] # "running"
      BY <2>3 DEF Shows
  <2> QED
      BY <2>1, <2>2, <2>3
<1>2. ASSUME NEW t \in Sessions, entries'[t] # None
      PROVE  session'[entries'[t]] = t /\ worker'[entries'[t]] # "unborn"
  <2>1. t # s /\ entries'[t] = entries[t]
      BY <1>2 DEF TypeOK
  <2>2. PICK q \in Procs : q = entries[t]
      BY <1>2, <2>1, EntryIsAProc
  <2> QED
      BY <1>2, <2>1, <2>2 DEF Shows
<1>3. \A q \in cleaning' : session'[q] \in Sessions
    BY DEF Shows
<1> QED
    BY <1>1, <1>2, <1>3 DEF Shows

\* close tells the worker to end before its entry goes.
LEMMA ClosesKeeps ==
    ASSUME IInv, NEW s \in Sessions, entries[s] # None, NEW pending \in SUBSET Clients,
           Closes(s, pending)
    PROVE  IInv'
<1> USE DEF IInv
<1>1. PICK p \in Procs : p = entries[s]
    BY EntryIsAProc
<1>2. /\ entries' = [entries EXCEPT ![s] = None]
      /\ worker' = [worker EXCEPT ![p] = IF @ = "running" THEN "told" ELSE @]
      /\ idling' = pending \ {handle[p]}
      /\ handle' = [handle EXCEPT ![p] = None]
      /\ mapped' = mapped \ Of(s)
      /\ UNCHANGED <<session, alive, subs, exitMark, buffer, cleaning, client, out>>
    BY <1>1 DEF Closes
<1>3. worker' \in [Procs -> {"unborn", "running", "told", "gone"}]
    BY <1>2 DEF TypeOK
<1>4. TypeOK'
    BY <1>2, <1>3 DEF TypeOK
<1>5. /\ worker'[p] # "running"
      /\ \A q \in Procs : worker'[q] = "unborn" <=> worker[q] = "unborn"
      /\ \A q \in Procs \ {p} : worker'[q] = worker[q]
    BY <1>2 DEF TypeOK
<1>6. Shows'
    BY <1>1, <1>2, <1>3, <1>5, RemovalKeeps
<1>7. Buffers'
    BY <1>2 DEF Buffers
<1> QED
    BY <1>4, <1>6, <1>7

\* An idle timer closes the session, or finds it closed.
LEMMA IdleExpiresKeeps ==
    ASSUME IInv, NEW c \in Clients, IdleExpires(c) PROVE IInv'
<1> USE DEF IInv
<1>1. PICK s \in Sessions : s = SessionOf[c]
    BY PtyConstants
<1>2. CASE entries[s] # None
  <2>1. Closes(s, idling \ {c}) /\ idling \ {c} \in SUBSET Clients
      BY <1>1, <1>2 DEF IdleExpires, TypeOK
  <2> QED
      BY <1>2, <2>1, ClosesKeeps
<1>3. CASE entries[s] = None
  <2>1. /\ idling' = idling \ {c} /\ UNCHANGED <<entries, cleaning, client, mapped, out>>
        /\ UNCHANGED <<session, worker, alive, subs, handle, exitMark, buffer>>
      BY <1>1, <1>3 DEF IdleExpires, entry
  <2>2. TypeOK'
      BY <2>1 DEF TypeOK
  <2>3. Shows' /\ Buffers'
      BY <2>1 DEF Shows, Buffers
  <2> QED
      BY <2>2, <2>3
<1> QED
    BY <1>2, <1>3

\* Output is appended to the buffer of its worker.
LEMMA OutputKeeps ==
    ASSUME IInv, NEW p \in Procs, NEW n \in Nat \ {0}, Output(p, n) PROVE IInv'
<1> USE DEF IInv
<1>1. /\ buffer' = [buffer EXCEPT ![p] = Push(buffer[p], out[p] + 1, n)]
      /\ out' = [out EXCEPT ![p] = out[p] + n]
      /\ UNCHANGED <<entries, session, worker, alive, subs, handle, exitMark, idling,
                     cleaning, client, mapped>>
    BY DEF Output
<1>2. out[p] \in Nat /\ HoldsTail(buffer[p], out[p])
    BY DEF TypeOK, Buffers
<1>3. PICK b : b = Push(buffer[p], out[p] + 1, n)
    OBVIOUS
<1>4. HoldsTail(b, out[p] + n)
    BY <1>2, <1>3, PushHoldsTail
<1>5. b \in [at : [0 .. Cap - 1 -> Nat], len : Nat]
    BY <1>4 DEF HoldsTail
<1>6. buffer' = [buffer EXCEPT ![p] = b]
    BY <1>1, <1>3
<1>7. buffer' \in [Procs -> [at : [0 .. Cap - 1 -> Nat], len : Nat]]
    BY <1>5, <1>6 DEF TypeOK
<1>8. out' \in [Procs -> Nat]
    BY <1>1, <1>2 DEF TypeOK
<1>9. TypeOK'
    BY <1>1, <1>7, <1>8 DEF TypeOK
<1>10. Shows'
    BY <1>1 DEF Shows
<1>11. Buffers'
  <2>1. buffer'[p] = b /\ out'[p] = out[p] + n
      BY <1>1, <1>6 DEF TypeOK
  <2>2. \A q \in Procs \ {p} : buffer'[q] = buffer[q] /\ out'[q] = out[q]
      BY <1>1, <1>6 DEF TypeOK
  <2>3. ASSUME NEW q \in Procs PROVE HoldsTail(buffer'[q], out'[q])
    <3>1. CASE q = p
        BY <3>1, <2>1, <1>4
    <3>2. CASE q # p
        BY <3>2, <2>2 DEF Buffers
    <3> QED
        BY <3>1, <3>2
  <2> QED
      BY <2>3 DEF Buffers
<1> QED
    BY <1>9, <1>10, <1>11

\* A worker that exits leaves an entry that is dead.
LEMMA ExitKeeps ==
    ASSUME IInv, NEW p \in Procs, Exit(p) PROVE IInv'
<1> USE DEF IInv
<1>1. /\ worker[p] \in {"running", "told"}
      /\ worker' = [worker EXCEPT ![p] = "gone"]
      /\ alive' = [alive EXCEPT ![p] = FALSE]
      /\ cleaning' = cleaning \cup {p}
      /\ UNCHANGED <<entries, session, subs, handle, buffer, idling, client, mapped, out>>
    BY DEF Exit
<1>2. PICK s \in Sessions : s = session[p]
    BY <1>1 DEF Shows
<1>3. exitMark' \subseteq Procs
  <2>1. exitMark' = exitMark \cup ({entries[s]} \ {None}) \/ exitMark' = exitMark
      BY <1>2 DEF Exit
  <2>2. {entries[s]} \ {None} \subseteq Procs
      BY EntryIsAProc
  <2> QED
      BY <2>1, <2>2 DEF TypeOK
<1>4. TypeOK'
    BY <1>1, <1>3 DEF TypeOK
<1>5. /\ worker'[p] = "gone" /\ ~alive'[p]
      /\ \A q \in Procs \ {p} : worker'[q] = worker[q] /\ alive'[q] = alive[q]
    BY <1>1 DEF TypeOK
<1>6. Shows'
  <2>1. ASSUME NEW q \in Procs
        PROVE  /\ worker'[q] # "unborn" => session'[q] \in Sessions
               /\ worker'[q] = "running" => entries'[session'[q]] = q /\ alive'[q]
               /\ worker'[q] = "unborn" => ~alive'[q]
    <3>1. CASE q = p
        BY <3>1, <1>1, <1>2, <1>5
    <3>2. CASE q # p
        BY <3>2, <1>1, <1>5 DEF Shows
    <3> QED
        BY <3>1, <3>2
  <2>2. ASSUME NEW t \in Sessions, entries'[t] # None
        PROVE  session'[entries'[t]] = t /\ worker'[entries'[t]] # "unborn"
    <3>1. PICK q \in Procs : q = entries[t]
        BY <1>1, <2>2, EntryIsAProc
    <3> QED
        BY <1>1, <1>5, <2>2, <3>1 DEF Shows
  <2>3. \A q \in cleaning' : session'[q] \in Sessions
      BY <1>1, <1>2 DEF Shows
  <2> QED
      BY <2>1, <2>2, <2>3 DEF Shows
<1>7. Buffers'
    BY <1>1 DEF Buffers
<1> QED
    BY <1>4, <1>6, <1>7

\* A worker that dies without a word leaves its entry in place.
LEMMA VanishKeeps ==
    ASSUME IInv, NEW p \in Procs, Vanish(p) PROVE IInv'
<1> USE DEF IInv
<1>1. /\ worker[p] \in {"running", "told"}
      /\ worker' = [worker EXCEPT ![p] = "gone"]
      /\ UNCHANGED <<entries, session, alive, subs, handle, exitMark, buffer, idling,
                     cleaning, client, mapped, out>>
    BY DEF Vanish
<1>2. TypeOK'
    BY <1>1 DEF TypeOK
<1>3. worker'[p] = "gone" /\ \A q \in Procs \ {p} : worker'[q] = worker[q]
    BY <1>1 DEF TypeOK
<1>4. Shows'
  <2>1. ASSUME NEW q \in Procs
        PROVE  /\ worker'[q] # "unborn" => session'[q] \in Sessions
               /\ worker'[q] = "running" => entries'[session'[q]] = q /\ alive'[q]
               /\ worker'[q] = "unborn" => ~alive'[q]
    <3>1. CASE q = p
        BY <3>1, <1>1, <1>3 DEF Shows
    <3>2. CASE q # p
        BY <3>2, <1>1, <1>3 DEF Shows
    <3> QED
        BY <3>1, <3>2
  <2>2. ASSUME NEW t \in Sessions, entries'[t] # None
        PROVE  session'[entries'[t]] = t /\ worker'[entries'[t]] # "unborn"
    <3>1. PICK q \in Procs : q = entries[t]
        BY <1>1, <2>2, EntryIsAProc
    <3> QED
        BY <1>1, <1>3, <2>2, <3>1 DEF Shows
  <2>3. \A q \in cleaning' : session'[q] \in Sessions
      BY <1>1 DEF Shows
  <2> QED
      BY <2>1, <2>2, <2>3 DEF Shows
<1>5. Buffers'
    BY <1>1 DEF Buffers
<1> QED
    BY <1>2, <1>4, <1>5

\* A clean-up removes only an entry whose process has exited.
LEMMA CleanUpKeeps ==
    ASSUME IInv, NEW p \in Procs, CleanUp(p) PROVE IInv'
<1> USE DEF IInv
<1>1. /\ p \in cleaning /\ cleaning' = cleaning \ {p}
      /\ UNCHANGED <<session, worker, alive, subs, handle, exitMark, buffer>>
      /\ UNCHANGED <<idling, client, out>>
    BY DEF CleanUp, entry
<1>2. PICK s \in Sessions : s = session[p]
    BY <1>1 DEF Shows
<1>3. Buffers'
    BY <1>1 DEF Buffers
<1>4. CASE Cleans(s)
  <2>1. entries' = [entries EXCEPT ![s] = None] /\ mapped' = mapped \ Of(s)
      BY <1>2, <1>4 DEF CleanUp
  <2>2. TypeOK'
      BY <1>1, <2>1 DEF TypeOK
  <2>3. PICK q \in Procs : q = entries[s]
      BY <1>4, EntryIsAProc DEF Cleans
  <2>4. worker'[q] # "running"
      BY <1>1, <1>4, <2>3 DEF Cleans, Shows
  <2>5. worker' \in [Procs -> {"unborn", "running", "told", "gone"}]
      BY <1>1 DEF TypeOK
  <2>6. Shows'
      BY <1>1, <2>1, <2>3, <2>4, <2>5, RemovalKeeps
  <2> QED
      BY <1>3, <2>2, <2>6
<1>5. CASE ~Cleans(s)
  <2>1. UNCHANGED <<entries, mapped>>
      BY <1>2, <1>5 DEF CleanUp
  <2>2. TypeOK'
      BY <1>1, <2>1 DEF TypeOK
  <2>3. Shows'
      BY <1>1, <2>1 DEF Shows
  <2> QED
      BY <1>3, <2>2, <2>3
<1> QED
    BY <1>4, <1>5

\* Every step of the pool keeps the invariant.
LEMMA Inductive == IInv /\ [Next]_vars => IInv'
<1> SUFFICES ASSUME IInv, [Next]_vars PROVE IInv'
    OBVIOUS
<1>1. ASSUME NEW c \in Clients, Subscribe(c) PROVE IInv'
    BY <1>1, SubscribeKeeps
<1>2. ASSUME NEW c \in Clients, Unsubscribe(c) PROVE IInv'
    BY <1>2, UnsubscribeKeeps
<1>3. ASSUME NEW c \in Clients, IdleExpires(c) PROVE IInv'
    BY <1>3, IdleExpiresKeeps
<1>4. ASSUME NEW s \in Sessions, Close(s) PROVE IInv'
  <2>1. entries[s] # None /\ Closes(s, idling) /\ idling \in SUBSET Clients
      BY <1>4 DEF Close, IInv, TypeOK
  <2> QED
      BY <2>1, ClosesKeeps
<1>5. ASSUME NEW p \in Procs, Exit(p) PROVE IInv'
    BY <1>5, ExitKeeps
<1>6. ASSUME NEW p \in Procs, Vanish(p) PROVE IInv'
    BY <1>6, VanishKeeps
<1>7. ASSUME NEW p \in Procs, CleanUp(p) PROVE IInv'
    BY <1>7, CleanUpKeeps
<1>8. ASSUME NEW p \in Procs, NEW n \in 1 .. MaxOut - TotalOut[MaxProcs], Output(p, n)
      PROVE  IInv'
  <2>1. n \in Nat \ {0}
      OBVIOUS
  <2> QED
      BY <1>8, <2>1, OutputKeeps
<1>9. CASE UNCHANGED vars
  <2>1. /\ UNCHANGED <<entries, session, worker, alive, subs, handle, exitMark, buffer>>
        /\ UNCHANGED <<idling, cleaning, client, mapped, out>>
      BY <1>9 DEF vars, entry
  <2>2. TypeOK'
      BY <2>1 DEF IInv, TypeOK
  <2>3. Shows' /\ Buffers'
      BY <2>1 DEF IInv, Shows, Buffers
  <2> QED
      BY <2>2, <2>3 DEF IInv
<1> QED
    BY <1>1, <1>2, <1>3, <1>4, <1>5, <1>6, <1>7, <1>8, <1>9 DEF Next

\* The inductive invariant holds in every reachable state of the pool.
THEOREM IInvAlways == Spec => []IInv
BY InitIInv, Inductive, PTL DEF Spec

\* Type correctness: the variables keep their types for any number of clients,
\* sessions and workers.
THEOREM TypeCorrect == Spec => []TypeOK
<1>1. IInv => TypeOK
    BY DEF IInv
<1> QED
    BY <1>1, IInvAlways, PTL

\* A process that nobody told to end is the one its session shows
\* (ptySessionPoolBase.ts).
THEOREM NoStrayProcessAlways == Spec => []NoStrayProcess
<1>1. IInv => NoStrayProcess
  <2> SUFFICES ASSUME IInv, NEW p \in Procs, worker[p] = "running" PROVE Shown(p)
      BY DEF NoStrayProcess
  <2>1. session[p] \in Sessions /\ entries[session[p]] = p
      BY DEF IInv, Shows
  <2> QED
      BY <2>1 DEF Shown
<1> QED
    BY <1>1, IInvAlways, PTL

\* A client that comes back is shown the last bytes, for any capacity of the
\* buffer, any amount of output and any cut into chunks (ringBuffer.ts).
THEOREM ReplayIsTailAlways == Spec => []ReplayIsTail
<1>1. IInv => ReplayIsTail
  <2> SUFFICES ASSUME IInv, NEW p \in Procs
               PROVE  LET len == IF out[p] < Cap THEN out[p] ELSE Cap IN
                      Snapshot(buffer[p]) = [i \in 1 .. len |-> out[p] - len + i]
      BY DEF ReplayIsTail
  <2>1. out[p] \in Nat /\ HoldsTail(buffer[p], out[p])
      BY DEF IInv, TypeOK, Buffers
  <2>2. Snapshot(buffer[p]) = [i \in 1 .. Used(out[p]) |-> out[p] - Used(out[p]) + i]
      BY <2>1, SnapshotIsTail
  <2> QED
      BY <2>2 DEF Used
<1> QED
    BY <1>1, IInvAlways, PTL
=============================================================================
