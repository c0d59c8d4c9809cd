--------------------------- MODULE Dispatch_proofs ---------------------------
(***************************************************************************)
(* Proofs about the delayed-call queue, for any set of entries and any     *)
(* word size: the list holds each entry at most once and stays ordered by  *)
(* deadline across every wrap of the clock, and no handler runs early.     *)
(***************************************************************************)
EXTENDS Dispatch, SequenceTheorems, TLAPS

(* What InsertAt() of the community modules builds, position by position. *)
LEMMA InsertAtProperties ==
  ASSUME NEW s \in Seq(Entry), NEW e \in Entry, NEW i \in 1 .. Len(s) + 1
  PROVE  /\ InsertAt(s, i, e) \in Seq(Entry)
         /\ Len(InsertAt(s, i, e)) = Len(s) + 1
         /\ \A j \in 1 .. Len(s) + 1 : InsertAt(s, i, e)[j] =
               IF j < i THEN s[j] ELSE IF j = i THEN e ELSE s[j - 1]
<1> DEFINE a == SubSeq(s, 1, i - 1)
           b == SubSeq(s, i, Len(s))
<1>1. a \in Seq(Entry) /\ Len(a) = i - 1 /\ \A j \in 1 .. i - 1 : a[j] = s[j]
  OBVIOUS
<1>2. /\ b \in Seq(Entry) /\ Len(b) = Len(s) - i + 1
      /\ \A j \in 1 .. Len(s) - i + 1 : b[j] = s[i + j - 1]
  OBVIOUS
<1>3. <<e>> \in Seq(Entry) /\ Len(<<e>>) = 1 /\ <<e>>[1] = e
  OBVIOUS
<1> DEFINE c == a \o <<e>>
<1>4. /\ c \in Seq(Entry) /\ Len(c) = i
      /\ \A j \in 1 .. i : c[j] = IF j < i THEN s[j] ELSE e
  <2> HIDE DEF a, b
  <2> QED BY <1>1, <1>3
<1>5. InsertAt(s, i, e) = c \o b
  BY DEF InsertAt
<1> HIDE DEF a, b, c
<1>6. c \o b \in Seq(Entry) /\ Len(c \o b) = Len(s) + 1
  <2>1. c \o b \in Seq(Entry) /\ Len(c \o b) = Len(c) + Len(b)
    BY <1>2, <1>4, ConcatProperties
  <2> QED BY <2>1, <1>2, <1>4, LenProperties
<1>7. \A j \in 1 .. Len(s) + 1 : (c \o b)[j] = IF j <= i THEN c[j] ELSE b[j - i]
  BY <1>2, <1>4
<1>8. \A j \in 1 .. Len(s) + 1 : j > i => b[j - i] = s[j - 1]
  BY <1>2
<1>9. QED
  BY <1>4, <1>5, <1>6, <1>7, <1>8

(* The part of the invariant the induction needs besides LinkedOnce. *)
QueueType == queue \in Seq(Entry)

(* Linking an entry that is in no position leaves every entry linked once. *)
LEMMA EnqueueLinksOnce ==
  ASSUME QueueType, LinkedOnce, NEW e \in Entry, NEW d, Enqueue(e, d)
  PROVE  QueueType' /\ LinkedOnce'
<1>1. CASE e \in inQue
  BY <1>1 DEF Enqueue, QueueType, LinkedOnce, ToSet
<1>2. CASE e \notin inQue
  <2>1. PICK i \in 1 .. Len(queue) + 1 : queue' = InsertAt(queue, i, e)
    BY <1>2 DEF Enqueue
  <2>2. inQue' = inQue \cup {e}
    BY <1>2 DEF Enqueue
  <2> DEFINE r == InsertAt(queue, i, e)
  <2>3. /\ r \in Seq(Entry) /\ Len(r) = Len(queue) + 1
        /\ \A j \in 1 .. Len(queue) + 1 :
              r[j] = IF j < i THEN queue[j] ELSE IF j = i THEN e ELSE queue[j - 1]
    <3>1. queue \in Seq(Entry)
      BY DEF QueueType
    <3>2. /\ InsertAt(queue, i, e) \in Seq(Entry)
          /\ Len(InsertAt(queue, i, e)) = Len(queue) + 1
          /\ \A j \in 1 .. Len(queue) + 1 : InsertAt(queue, i, e)[j] =
                IF j < i THEN queue[j] ELSE IF j = i THEN e ELSE queue[j - 1]
      BY <3>1, InsertAtProperties
    <3> QED BY <3>2
  <2>4. /\ inQue = {queue[j] : j \in 1 .. Len(queue)} /\ queue \in Seq(Entry) /\ Len(queue) \in Nat
        /\ \A j, k \in 1 .. Len(queue) : queue[j] = queue[k] => j = k
        /\ \A j \in 1 .. Len(queue) : queue[j] # e
    BY <1>2 DEF LinkedOnce, QueueType, ToSet
  <2>5. queue' = r
    BY <2>1
  <2> HIDE DEF r
  <2>6. \A j, k \in 1 .. Len(r) : r[j] = r[k] => j = k
    <3> SUFFICES ASSUME NEW j \in 1 .. Len(r), NEW k \in 1 .. Len(r), r[j] = r[k]
                 PROVE  j = k
      OBVIOUS
    <3>1. j \in 1 .. Len(queue) + 1 /\ k \in 1 .. Len(queue) + 1
      BY <2>3
    <3>2. ASSUME NEW m \in 1 .. Len(queue) + 1, m # i
          PROVE  /\ r[m] = queue[IF m < i THEN m ELSE m - 1]
                 /\ (IF m < i THEN m ELSE m - 1) \in 1 .. Len(queue)
      BY <2>3, <2>4, <3>2
    <3>3. CASE j = i \/ k = i
      <4>1. r[i] = e
        BY <2>3, <2>4
      <4>2. \A m \in 1 .. Len(queue) + 1 : m # i => r[m] # e
        BY <2>4, <3>2
      <4> QED BY <3>1, <3>3, <4>1, <4>2
    <3>4. CASE j # i /\ k # i
      BY <2>4, <3>1, <3>2, <3>4
    <3> QED BY <3>3, <3>4
  <2>7. {r[j] : j \in 1 .. Len(r)} = inQue \cup {e}
    <3>1. \A j \in 1 .. Len(r) : r[j] \in inQue \cup {e}
      BY <2>3, <2>4
    <3>2. \E j \in 1 .. Len(r) : r[j] = e
      BY <2>3, <2>4
    <3>3. \A j \in 1 .. Len(queue) : \E k \in 1 .. Len(r) : r[k] = queue[j]
      <4> SUFFICES ASSUME NEW j \in 1 .. Len(queue)
                   PROVE  \E k \in 1 .. Len(r) : r[k] = queue[j]
        OBVIOUS
      <4>1. CASE j < i
        BY <4>1, <2>3, <2>4
      <4>2. CASE j >= i
        <5>1. j + 1 \in 1 .. Len(r) /\ r[j + 1] = queue[j]
          BY <4>2, <2>3, <2>4
        <5> QED BY <5>1
      <4> QED BY <4>1, <4>2, <2>4
    <3>4. \A x \in inQue \cup {e} : \E k \in 1 .. Len(r) : r[k] = x
      <4> SUFFICES ASSUME NEW x \in inQue \cup {e}
                   PROVE  \E k \in 1 .. Len(r) : r[k] = x
        OBVIOUS
      <4>1. CASE x = e
        BY <4>1, <3>2
      <4>2. CASE x \in inQue
        <5>1. PICK j \in 1 .. Len(queue) : queue[j] = x
          BY <4>2, <2>4
        <5> QED BY <5>1, <3>3
      <4> QED BY <4>1, <4>2
    <3> QED BY <3>1, <3>4, Zenon
  <2>8. queue' \in Seq(Entry) /\ DOMAIN queue' = 1 .. Len(queue')
    BY <2>3, <2>5
  <2>9. ToSet(queue') = inQue'
    BY <2>2, <2>5, <2>7, <2>8 DEF ToSet
  <2>10. \A j, k \in 1 .. Len(queue') : queue'[j] = queue'[k] => j = k
    BY <2>5, <2>6
  <2> QED BY <2>8, <2>9, <2>10 DEF QueueType, LinkedOnce
<1> QED BY <1>1, <1>2

(* Unlinking the head in dispatchProcess() takes its flag with it. *)
LEMMA UnlinkLinksOnce ==
  ASSUME QueueType, LinkedOnce, processNext
  PROVE  QueueType' /\ LinkedOnce'
<1>1. /\ queue \in Seq(Entry) /\ queue # <<>> /\ Len(queue) \in Nat
      /\ inQue = {queue[j] : j \in 1 .. Len(queue)}
      /\ \A j, k \in 1 .. Len(queue) : queue[j] = queue[k] => j = k
  BY DEF QueueType, LinkedOnce, processNext, ToSet
<1>2. /\ queue' = Tail(queue) /\ inQue' = inQue \ {queue[1]}
  BY <1>1 DEF processNext
<1>3. /\ queue' \in Seq(Entry) /\ Len(queue') = Len(queue) - 1
      /\ \A j \in 1 .. Len(queue) - 1 : queue'[j] = queue[j + 1]
  BY <1>1, <1>2
<1>4. {queue'[j] : j \in 1 .. Len(queue')} = inQue'
  <2>1. \A j \in 1 .. Len(queue') : queue'[j] \in inQue'
    BY <1>1, <1>2, <1>3
  <2>2. ASSUME NEW x \in inQue'
        PROVE  \E j \in 1 .. Len(queue') : queue'[j] = x
    <3>1. PICK k \in 1 .. Len(queue) : queue[k] = x
      BY <1>1, <1>2
    <3>2. k # 1
      BY <1>2, <3>1
    <3>3. k - 1 \in 1 .. Len(queue') /\ queue'[k - 1] = x
      BY <1>1, <1>3, <3>1, <3>2
    <3> QED BY <3>3
  <2> QED BY <2>1, <2>2
<1>5. \A j, k \in 1 .. Len(queue') : queue'[j] = queue'[k] => j = k
  BY <1>1, <1>3
<1> QED BY <1>3, <1>4, <1>5 DEF QueueType, LinkedOnce, ToSet

-----------------------------------------------------------------------------
(* cmp32() without the modulus: the difference, moved into the signed range. *)
LEMMA CmpCases ==
  ASSUME NEW a \in Time, NEW b \in Time
  PROVE  cmp32(a, b) = IF a >= b THEN IF 2 * (a - b) < Word THEN a - b ELSE a - b - Word
                       ELSE IF 2 * (a - b + Word) < Word THEN a - b + Word ELSE a - b
<1>1. /\ Word \in Nat /\ Word > 0 /\ a \in Int /\ b \in Int
      /\ 0 <= a /\ a < Word /\ 0 <= b /\ b < Word
  BY DispatchAssumption DEF Time
<1>2. (a - b) % Word = IF a >= b THEN a - b ELSE a - b + Word
  <2>1. ASSUME NEW x \in Int, 0 <= x, x < Word PROVE x % Word = x
    BY <1>1, <2>1
  <2>2. ASSUME NEW x \in Int, -Word <= x, x < 0 PROVE x % Word = x + Word
    BY <1>1, <2>2
  <2> QED BY <1>1, <2>1, <2>2
<1> QED BY <1>1, <1>2 DEF cmp32

(* Within half a turn of the counter the signed difference behaves like a
   difference of integers: it changes sign with its arguments ... *)
LEMMA CmpFlip ==
  ASSUME NEW a \in Time, NEW b \in Time
  PROVE  /\ cmp32(a, b) \in Int /\ cmp32(a, a) = 0
         /\ -Word < 2 * cmp32(a, b) => cmp32(b, a) = -cmp32(a, b)
<1>1. /\ Word \in Nat /\ Word > 0 /\ a \in Int /\ b \in Int
      /\ 0 <= a /\ a < Word /\ 0 <= b /\ b < Word
  BY DispatchAssumption DEF Time
<1> QED BY <1>1, CmpCases

(* ... and it adds up. *)
LEMMA CmpAdd ==
  ASSUME NEW a \in Time, NEW b \in Time, NEW c \in Time,
         -Word < 2 * (cmp32(a, b) + cmp32(b, c)),
         2 * (cmp32(a, b) + cmp32(b, c)) < Word
  PROVE  cmp32(a, c) = cmp32(a, b) + cmp32(b, c)
<1>1. /\ Word \in Nat /\ Word > 0 /\ a \in Int /\ b \in Int /\ c \in Int
      /\ 0 <= a /\ a < Word /\ 0 <= b /\ b < Word /\ 0 <= c /\ c < Word
  BY DispatchAssumption DEF Time
<1> QED BY <1>1, CmpCases

(* A deadline set k ahead of the clock is k ahead of it. *)
LEMMA CmpAhead ==
  ASSUME NEW a \in Time, NEW k \in Nat, 2 * k < Word
  PROVE  (a + k) % Word \in Time /\ cmp32((a + k) % Word, a) = k
<1>1. Word \in Nat /\ Word > 0 /\ a \in Int /\ 0 <= a /\ a < Word
  BY DispatchAssumption DEF Time
<1>2. (a + k) % Word = IF a + k < Word THEN a + k ELSE a + k - Word
  <2>1. ASSUME NEW x \in Int, 0 <= x, x < Word PROVE x % Word = x
    BY <1>1, <2>1
  <2>2. ASSUME NEW x \in Int, Word <= x, x < 2 * Word PROVE x % Word = x - Word
    BY <1>1, <2>2
  <2> QED BY <1>1, <2>1, <2>2
<1>3. (a + k) % Word \in Time
  BY <1>1, <1>2 DEF Time
<1> QED BY <1>1, <1>2, <1>3, CmpCases

-----------------------------------------------------------------------------
(* How far ahead of the clock the deadline of a queued entry is. *)
Ahead(e) == cmp32(delayedUntil[e], now)

(* Every queued deadline lies in the window that callers and the period of
   TASK_DISPATCH leave it, and a running pass sampled the clock recently: the
   window is shorter than half a turn of the counter. *)
InWindow ==
  /\ \A e \in inQue : -MaxLate <= Ahead(e) /\ Ahead(e) <= MaxDelay
  /\ procTime # Idle => 0 <= cmp32(now, procTime) /\ cmp32(now, procTime) <= MaxLate

IInv == TypeOK /\ LinkedOnce /\ InWindow /\ OrderedByDeadline

(* The facts about the constants and the types that the steps below need. *)
LEMMA Facts ==
  ASSUME IInv
  PROVE  /\ Word \in Nat /\ MaxDelay \in Nat /\ MaxLate \in Nat
         /\ 2 * (MaxDelay + MaxLate + 1) < Word
         /\ now \in Time /\ \A e \in Entry : delayedUntil[e] \in Time /\ Ahead(e) \in Int
         /\ queue \in Seq(Entry) /\ Len(queue) \in Nat
         /\ inQue = {queue[j] : j \in 1 .. Len(queue)}
         /\ \A j \in 1 .. Len(queue) : queue[j] \in Entry /\ queue[j] \in inQue
         /\ \A j, k \in 1 .. Len(queue) : queue[j] = queue[k] => j = k
         /\ procTime # Idle => procTime \in Time
<1>1. /\ Word \in Nat /\ MaxDelay \in Nat /\ MaxLate \in Nat
      /\ 2 * (MaxDelay + MaxLate + 1) < Word
  BY DispatchAssumption
<1>2. now \in Time /\ \A e \in Entry : delayedUntil[e] \in Time
  BY DEF IInv, TypeOK
<1>3. \A e \in Entry : Ahead(e) \in Int
  BY <1>2, CmpFlip DEF Ahead
<1>4. queue \in Seq(Entry) /\ Len(queue) \in Nat
  BY DEF IInv, TypeOK
<1>5. /\ inQue = {queue[j] : j \in 1 .. Len(queue)}
      /\ \A j, k \in 1 .. Len(queue) : queue[j] = queue[k] => j = k
  BY <1>4 DEF IInv, LinkedOnce, ToSet
<1>6. procTime # Idle => procTime \in Time
  BY DEF IInv, TypeOK
<1> QED BY <1>1, <1>2, <1>3, <1>4, <1>5, <1>6

(* Two deadlines of the window compare like their distances from the clock. *)
LEMMA CompareAhead ==
  ASSUME NEW n \in Time, NEW s \in Time, NEW t \in Time,
         -MaxLate <= cmp32(s, n), cmp32(s, n) <= MaxDelay,
         -MaxLate <= cmp32(t, n), cmp32(t, n) <= MaxDelay
  PROVE  cmp32(s, t) = cmp32(s, n) - cmp32(t, n)
<1>1. /\ Word \in Nat /\ MaxDelay \in Nat /\ MaxLate \in Nat
      /\ 2 * (MaxDelay + MaxLate + 1) < Word
  BY DispatchAssumption
<1>2. cmp32(s, n) \in Int /\ cmp32(t, n) \in Int /\ cmp32(n, t) = -cmp32(t, n)
  BY <1>1, CmpFlip
<1> QED BY <1>1, <1>2, CmpAdd

-----------------------------------------------------------------------------
(* A new deadline is in the window, and the list stays ordered around it. *)
LEMMA EnqueueOrders ==
  ASSUME IInv, NEW e \in Entry, NEW d \in 1 .. MaxDelay, dispatchAdd(e, d)
  PROVE  TypeOK' /\ InWindow' /\ OrderedByDeadline'
<1>1. CASE e \in inQue
  <2>1. UNCHANGED vars
    BY <1>1 DEF dispatchAdd, Enqueue, vars
  <2> QED BY <2>1 DEF vars, IInv, TypeOK, InWindow, Ahead, OrderedByDeadline, cmp32
<1>2. CASE e \notin inQue
  <2> DEFINE t == (now + d) % Word
             dU == [delayedUntil EXCEPT ![e] = t]
  <2>1. PICK i \in 1 .. Len(queue) + 1 : LinksAt(i, t) /\ queue' = InsertAt(queue, i, e)
    BY <1>2 DEF dispatchAdd, Enqueue
  <2>2. /\ inQue' = inQue \cup {e} /\ delayedUntil' = dU
        /\ now' = now /\ procTime' = procTime /\ running' = running
    BY <1>2 DEF dispatchAdd, Enqueue
  <2>3. t \in Time /\ cmp32(t, now) = d /\ d \in Nat /\ 1 <= d /\ d <= MaxDelay
    BY Facts, CmpAhead
  <2>4. /\ InsertAt(queue, i, e) \in Seq(Entry)
        /\ Len(InsertAt(queue, i, e)) = Len(queue) + 1
        /\ \A j \in 1 .. Len(queue) + 1 : InsertAt(queue, i, e)[j] =
              IF j < i THEN queue[j] ELSE IF j = i THEN e ELSE queue[j - 1]
    BY Facts, InsertAtProperties
  <2>5. /\ delayedUntil \in [Entry -> Time] /\ inQue \subseteq Entry
        /\ running \in Entry \cup {NoEntry} /\ procTime \in Time \cup {Idle}
        /\ now \in Time
    BY DEF IInv, TypeOK
  <2>6. /\ dU \in [Entry -> Time] /\ dU[e] = t
        /\ \A f \in inQue : dU[f] = delayedUntil[f]
    BY <1>2, <2>3, <2>5
  <2> HIDE DEF t, dU
  <2>7. TypeOK'
    BY <2>1, <2>2, <2>4, <2>5, <2>6 DEF TypeOK
  <2>8. InWindow'
    <3>1. \A f \in inQue' : -MaxLate <= Ahead(f)' /\ Ahead(f)' <= MaxDelay
      <4> SUFFICES ASSUME NEW f \in inQue'
                   PROVE  -MaxLate <= cmp32(delayedUntil'[f], now')
                          /\ cmp32(delayedUntil'[f], now') <= MaxDelay
        BY DEF Ahead, cmp32
      <4>1. CASE f = e
        BY <4>1, <2>2, <2>3, <2>6, Facts
      <4>2. CASE f # e
        BY <4>2, <2>2, <2>6 DEF IInv, InWindow, Ahead
      <4> QED BY <4>1, <4>2
    <3>2. procTime' # Idle => 0 <= cmp32(now', procTime') /\ cmp32(now', procTime') <= MaxLate
      BY <2>2 DEF IInv, InWindow
    <3> QED BY <3>1, <3>2 DEF InWindow, cmp32
  <2>9. OrderedByDeadline'
    <3> DEFINE r == InsertAt(queue, i, e)
               o(f) == cmp32(dU[f], now)
               at(j) == IF j < i THEN j ELSE j - 1
    <3>1. \A f \in Entry : dU[f] \in Time /\ o(f) \in Int
      BY <2>5, <2>6, CmpFlip
    <3>2. \A f \in inQue \cup {e} : -MaxLate <= o(f) /\ o(f) <= MaxDelay
      BY <2>3, <2>6, Facts DEF IInv, InWindow, Ahead
    <3>3. \A f, g \in inQue \cup {e} : cmp32(dU[f], dU[g]) = o(f) - o(g)
      BY <2>5, <3>1, <3>2, CompareAhead
    <3>4. \A j \in 1 .. Len(queue) : queue[j] \in inQue /\ dU[queue[j]] = delayedUntil[queue[j]]
      BY <2>6, Facts
    <3>5. \A j, k \in 1 .. Len(queue) : j < k => o(queue[j]) <= o(queue[k])
      <4> SUFFICES ASSUME NEW j \in 1 .. Len(queue), NEW k \in 1 .. Len(queue), j < k
                   PROVE  o(queue[j]) <= o(queue[k])
        OBVIOUS
      <4>1. cmp32(dU[queue[j]], dU[queue[k]]) <= 0
        BY <3>4 DEF IInv, OrderedByDeadline
      <4>2. cmp32(dU[queue[j]], dU[queue[k]]) = o(queue[j]) - o(queue[k])
        BY <3>3, <3>4
      <4>3. o(queue[j]) \in Int /\ o(queue[k]) \in Int
        BY <3>1, Facts
      <4> HIDE DEF o
      <4> QED BY <4>1, <4>2, <4>3
    <3>6. \A j \in 1 .. Len(queue) : j < i => o(queue[j]) <= o(e)
      <4> SUFFICES ASSUME NEW j \in 1 .. Len(queue), j < i PROVE o(queue[j]) <= o(e)
        OBVIOUS
      <4>1. j \in 1 .. i - 1
        BY Facts
      <4>2. cmp32(dU[queue[j]], dU[e]) < 0
        BY <2>1, <2>6, <3>4, <4>1 DEF LinksAt
      <4>3. cmp32(dU[queue[j]], dU[e]) = o(queue[j]) - o(e)
        BY <3>3, <3>4
      <4>4. o(queue[j]) \in Int /\ o(e) \in Int
        BY <3>1, Facts
      <4> HIDE DEF o
      <4> QED BY <4>2, <4>3, <4>4
    <3>7. \A j \in 1 .. Len(queue) : j >= i => o(e) <= o(queue[j])
      <4> SUFFICES ASSUME NEW j \in 1 .. Len(queue), j >= i PROVE o(e) <= o(queue[j])
        OBVIOUS
      <4>1. i \in 1 .. Len(queue)
        BY Facts
      <4>2. cmp32(dU[queue[i]], dU[e]) >= 0
        BY <2>1, <2>6, <3>4, <4>1 DEF LinksAt
      <4>3. cmp32(dU[queue[i]], dU[e]) = o(queue[i]) - o(e)
        BY <3>3, <3>4, <4>1
      <4>4. o(queue[i]) \in Int /\ o(e) \in Int /\ o(queue[j]) \in Int
        BY <3>1, <4>1, Facts
      <4>5. o(queue[i]) <= o(queue[j])
        BY <3>5, <4>1, <4>4
      <4> HIDE DEF o
      <4> QED BY <4>2, <4>3, <4>4, <4>5
    <3>8. ASSUME NEW j \in 1 .. Len(queue) + 1
          PROVE  /\ j # i => at(j) \in 1 .. Len(queue) /\ r[j] = queue[at(j)]
                 /\ j = i => r[j] = e
                 /\ r[j] \in inQue \cup {e}
      <4>1. Len(queue) \in Nat /\ i \in Int /\ j \in Int /\ 1 <= i /\ 1 <= j
        BY Facts
      <4>2. j # i => at(j) \in 1 .. Len(queue)
        BY <4>1
      <4>3. r[j] = IF j < i THEN queue[j] ELSE IF j = i THEN e ELSE queue[j - 1]
        BY <2>4
      <4> HIDE DEF r
      <4> QED BY <3>4, <4>2, <4>3
    <3>9. ASSUME NEW j \in 1 .. Len(queue) + 1, NEW k \in 1 .. Len(queue) + 1, j < k
          PROVE  o(r[j]) <= o(r[k])
      <4>1. CASE j = i
        <5>1. at(k) \in 1 .. Len(queue) /\ at(k) >= i /\ r[k] = queue[at(k)] /\ r[j] = e
          BY <3>8, <3>9, <4>1
        <5> HIDE DEF o, at, r
        <5> QED BY <3>7, <5>1
      <4>2. CASE k = i
        <5>1. at(j) \in 1 .. Len(queue) /\ at(j) < i /\ r[j] = queue[at(j)] /\ r[k] = e
          BY <3>8, <3>9, <4>2
        <5> HIDE DEF o, at, r
        <5> QED BY <3>6, <5>1
      <4>3. CASE j # i /\ k # i
        <5>1. /\ at(j) \in 1 .. Len(queue) /\ at(k) \in 1 .. Len(queue) /\ at(j) < at(k)
              /\ r[j] = queue[at(j)] /\ r[k] = queue[at(k)]
          BY <3>8, <3>9, <4>3
        <5> HIDE DEF o, at, r
        <5> QED BY <3>5, <5>1
      <4> QED BY <4>1, <4>2, <4>3
    <3>10. ASSUME NEW j \in 1 .. Len(queue) + 1, NEW k \in 1 .. Len(queue) + 1, j < k
           PROVE  cmp32(dU[r[j]], dU[r[k]]) <= 0
      <4>1. cmp32(dU[r[j]], dU[r[k]]) = o(r[j]) - o(r[k])
        BY <3>3, <3>8
      <4>2. o(r[j]) \in Int /\ o(r[k]) \in Int
        BY <3>1, <3>8, <2>5
      <4>3. o(r[j]) <= o(r[k])
        BY <3>9, <3>10
      <4> HIDE DEF o, r
      <4> QED BY <4>1, <4>2, <4>3
    <3>11. queue' = r /\ Len(r) = Len(queue) + 1
      BY <2>1, <2>4
    <3> HIDE DEF r, o
    <3> QED BY <2>2, <3>10, <3>11 DEF OrderedByDeadline, cmp32
  <2> QED BY <2>7, <2>8, <2>9
<1> QED BY <1>1, <1>2

(* Unlinking the head leaves a shorter list in the same order. *)
LEMMA UnlinkOrders ==
  ASSUME IInv, processNext
  PROVE  TypeOK' /\ InWindow' /\ OrderedByDeadline'
<1>1. /\ queue # <<>> /\ queue' = Tail(queue) /\ running' = Head(queue)
      /\ inQue' \subseteq inQue
      /\ now' = now /\ delayedUntil' = delayedUntil /\ procTime' = procTime
  BY DEF processNext
<1>2. /\ queue' \in Seq(Entry) /\ Len(queue') = Len(queue) - 1 /\ running' \in Entry
      /\ \A j \in 1 .. Len(queue) - 1 : queue'[j] = queue[j + 1]
  <2>1. queue \in Seq(Entry)
    BY Facts
  <2> QED BY <1>1, <2>1
<1>3. TypeOK'
  BY <1>1, <1>2 DEF IInv, TypeOK
<1>4. InWindow'
  BY <1>1 DEF IInv, InWindow, Ahead, cmp32
<1>5. OrderedByDeadline'
  <2> SUFFICES ASSUME NEW j \in 1 .. Len(queue'), NEW k \in 1 .. Len(queue'), j < k
               PROVE  cmp32(delayedUntil'[queue'[j]], delayedUntil'[queue'[k]]) <= 0
    BY DEF OrderedByDeadline, cmp32
  <2>1. /\ j + 1 \in 1 .. Len(queue) /\ k + 1 \in 1 .. Len(queue) /\ j + 1 < k + 1
        /\ queue'[j] = queue[j + 1] /\ queue'[k] = queue[k + 1]
    <3>1. Len(queue) \in Nat /\ Len(queue') = Len(queue) - 1
      BY <1>2, Facts
    <3> QED BY <1>2, <3>1
  <2> QED BY <1>1, <2>1 DEF IInv, OrderedByDeadline
<1> QED BY <1>3, <1>4, <1>5

(* A tick moves every deadline one nearer; its guard keeps the window. *)
LEMMA TickKeepsWindow ==
  ASSUME IInv, Tick
  PROVE  TypeOK' /\ InWindow' /\ OrderedByDeadline'
<1>1. /\ \A e \in inQue : cmp32(now, delayedUntil[e]) < MaxLate
      /\ procTime # Idle => cmp32(now, procTime) < MaxLate
      /\ now' = (now + 1) % Word
      /\ queue' = queue /\ inQue' = inQue /\ delayedUntil' = delayedUntil
      /\ procTime' = procTime /\ running' = running
  BY DEF Tick
<1>2. /\ Word \in Nat /\ MaxDelay \in Nat /\ MaxLate \in Nat
      /\ 2 * (MaxDelay + MaxLate + 1) < Word
      /\ now \in Time /\ 1 \in Nat
  BY Facts
<1>3. now' \in Time /\ cmp32(now', now) = 1 /\ cmp32(now, now') = -1
  <2>1. now' \in Time /\ cmp32(now', now) = 1
    BY <1>1, <1>2, CmpAhead
  <2> QED BY <1>2, <2>1, CmpFlip
<1>4. TypeOK'
  BY <1>1, <1>3 DEF IInv, TypeOK
<1>5. ASSUME NEW e \in inQue
      PROVE  -MaxLate <= cmp32(delayedUntil[e], now') /\ cmp32(delayedUntil[e], now') <= MaxDelay
  <2>1. delayedUntil[e] \in Time
    BY DEF IInv, TypeOK
  <2>2. /\ cmp32(delayedUntil[e], now) \in Int
        /\ -MaxLate <= cmp32(delayedUntil[e], now) /\ cmp32(delayedUntil[e], now) <= MaxDelay
    BY <1>2, <2>1, CmpFlip DEF IInv, InWindow, Ahead
  <2>3. cmp32(now, delayedUntil[e]) = -cmp32(delayedUntil[e], now)
    BY <1>2, <2>1, <2>2, CmpFlip
  <2>4. -MaxLate < cmp32(delayedUntil[e], now)
    BY <1>1, <1>2, <2>2, <2>3
  <2>5. cmp32(delayedUntil[e], now') = cmp32(delayedUntil[e], now) + cmp32(now, now')
    BY <1>2, <1>3, <2>1, <2>2, CmpAdd
  <2> QED BY <1>2, <1>3, <2>2, <2>4, <2>5
<1>6. ASSUME procTime # Idle
      PROVE  0 <= cmp32(now', procTime) /\ cmp32(now', procTime) <= MaxLate
  <2>1. procTime \in Time
    BY <1>6 DEF IInv, TypeOK
  <2>2. /\ cmp32(now, procTime) \in Int
        /\ 0 <= cmp32(now, procTime) /\ cmp32(now, procTime) < MaxLate
    BY <1>1, <1>2, <1>6, <2>1, CmpFlip DEF IInv, InWindow
  <2>3. cmp32(now', procTime) = cmp32(now', now) + cmp32(now, procTime)
    BY <1>2, <1>3, <2>1, <2>2, CmpAdd
  <2> QED BY <1>2, <1>3, <2>2, <2>3
<1>7. InWindow'
  BY <1>1, <1>5, <1>6 DEF InWindow, Ahead, cmp32
<1>8. OrderedByDeadline'
  BY <1>1 DEF IInv, OrderedByDeadline, cmp32
<1> QED BY <1>4, <1>7, <1>8

-----------------------------------------------------------------------------
(* The invariant holds of every behaviour. *)
THEOREM IInvHolds == Spec => []IInv
<1>1. Init => IInv
  BY DispatchAssumption
     DEF Init, IInv, TypeOK, LinkedOnce, InWindow, OrderedByDeadline, ToSet, Time
<1>2. IInv /\ [Next]_vars => IInv'
  <2> SUFFICES ASSUME IInv, [Next]_vars PROVE IInv'
    OBVIOUS
  <2>1. QueueType /\ LinkedOnce
    BY DEF IInv, TypeOK, QueueType
  <2>2. ASSUME NEW e \in Entry, NEW d \in 1 .. MaxDelay, dispatchAdd(e, d)
        PROVE  IInv'
    BY <2>1, <2>2, EnqueueLinksOnce, EnqueueOrders DEF dispatchAdd, IInv
  <2>3. CASE processNext
    BY <2>1, <2>3, UnlinkLinksOnce, UnlinkOrders DEF IInv
  <2>4. CASE Tick
    <3>1. LinkedOnce'
      BY <2>1, <2>4 DEF Tick, LinkedOnce, ToSet
    <3> QED BY <2>4, <3>1, TickKeepsWindow DEF IInv
  <2>5. CASE processStart
    <3>1. procTime' = now /\ UNCHANGED <<now, queue, inQue, delayedUntil, running>>
      BY <2>5 DEF processStart
    <3>2. cmp32(now, now) = 0 /\ MaxLate \in Nat /\ now \in Time
      BY Facts, CmpFlip
    <3> QED BY <3>1, <3>2
            DEF IInv, TypeOK, LinkedOnce, InWindow, Ahead, OrderedByDeadline, ToSet, cmp32
  <2>6. CASE handlerDone \/ processEnd \/ UNCHANGED vars
    <3>1. /\ UNCHANGED <<now, queue, inQue, delayedUntil>>
          /\ procTime' = procTime \/ procTime' = Idle
          /\ running' = running \/ running' = NoEntry
      BY <2>6 DEF handlerDone, processEnd, vars
    <3> QED BY <3>1
            DEF IInv, TypeOK, LinkedOnce, InWindow, Ahead, OrderedByDeadline, ToSet, cmp32
  <2> QED BY <2>2, <2>3, <2>4, <2>5, <2>6 DEF Next
<1> QED BY <1>1, <1>2, PTL DEF Spec

(* The state of the queue is well typed. *)
THEOREM TypeCorrect == Spec => []TypeOK
<1>1. IInv => TypeOK
  BY DEF IInv
<1> QED BY <1>1, IInvHolds, PTL

(* dispatch.c never links one dispatchEntry_t twice, and the inQue flags are
   exactly the linked entries, for every set of entries and every delay. *)
THEOREM LinkedOnceHolds == Spec => []LinkedOnce
<1>1. IInv => LinkedOnce
  BY DEF IInv
<1> QED BY <1>1, IInvHolds, PTL

(* The list stays ordered by deadline across every wrap of the counter, for
   every word size more than twice the longest delay and lateness together. *)
THEOREM OrderTheorem == Spec => []OrderedByDeadline
<1>1. IInv => OrderedByDeadline
  BY DEF IInv
<1> QED BY <1>1, IInvHolds, PTL

(* dispatchProcess() never calls a handler before its deadline. *)
THEOREM NeverEarlyTheorem == Spec => NeverEarly
<1>1. IInv /\ [Next]_vars =>
      [\A e \in Entry : running' = e /\ running # e => cmp32(now, delayedUntil[e]) >= 0]_vars
  <2> SUFFICES ASSUME IInv, [Next]_vars, NEW e \in Entry, running' = e, running # e
               PROVE  cmp32(now, delayedUntil[e]) >= 0
    OBVIOUS
  <2>1. CASE processNext
    <3>1. /\ procTime # Idle /\ queue # <<>> /\ e = Head(queue)
          /\ cmp32(procTime, delayedUntil[e]) >= 0
      BY <2>1 DEF processNext
    <3>2. e \in inQue
      BY <3>1, Facts
    <3>3. /\ delayedUntil[e] \in Time /\ now \in Time /\ procTime \in Time
          /\ Word \in Nat /\ MaxDelay \in Nat /\ MaxLate \in Nat
          /\ 2 * (MaxDelay + MaxLate + 1) < Word
      BY <3>1, <3>2, Facts
    <3>4. /\ cmp32(delayedUntil[e], now) \in Int
          /\ -MaxLate <= cmp32(delayedUntil[e], now) /\ cmp32(delayedUntil[e], now) <= MaxDelay
      BY <3>2, <3>3, CmpFlip DEF IInv, InWindow, Ahead
    <3>5. /\ cmp32(now, procTime) \in Int
          /\ 0 <= cmp32(now, procTime) /\ cmp32(now, procTime) <= MaxLate
      BY <3>1, <3>3, CmpFlip DEF IInv, InWindow
    <3>6. cmp32(now, delayedUntil[e]) = -cmp32(delayedUntil[e], now)
      BY <3>3, <3>4, CmpFlip
    <3>7. cmp32(procTime, now) = -cmp32(now, procTime)
      BY <3>3, <3>5, CmpFlip
    <3>8. cmp32(procTime, delayedUntil[e]) = cmp32(procTime, now) + cmp32(now, delayedUntil[e])
      BY <3>3, <3>4, <3>5, <3>6, <3>7, CmpAdd
    <3> QED BY <3>1, <3>4, <3>5, <3>6, <3>7, <3>8
  <2>2. CASE handlerDone
    BY <2>2, DispatchAssumption DEF handlerDone
  <2>3. CASE (\E f \in Entry, k \in 1 .. MaxDelay : dispatchAdd(f, k))
             \/ processStart \/ processEnd \/ Tick \/ UNCHANGED vars
    BY <2>3 DEF dispatchAdd, processStart, processEnd, Tick, vars
  <2> QED BY <2>1, <2>2, <2>3 DEF Next
<1> QED BY <1>1, IInvHolds, PTL DEF Spec, NeverEarly

=============================================================================
