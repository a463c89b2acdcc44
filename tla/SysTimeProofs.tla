---------------------------- MODULE SysTimeProofs ----------------------------
(* Theorems about SysTime, for every number of timers, every period of the    *)
(* counter and all times, margins and latencies within TimingAssumption.      *)
(*                                                                            *)
(* First the list of relative times as a value: what each operation on it     *)
(* does to the moment each timer is due (AddToListSound, RemoveFromListSound, *)
(* UpdateTimerListSound).  Then ListInv, inductive by itself: the list holds  *)
(* exactly the running timers.  Then FullInv, which adds the clock: counter,  *)
(* since and previous agree, and the compare register is met in time.  Last   *)
(* the refinement: each step ages the timers or takes one of them away.       *)
EXTENDS SysTime, FiniteSetTheorems, SequenceTheorems, TLAPS

-------------------------------------------------------------------------------
(* Numbers.                                                                  *)

\* A set that holds 0, and with a number the next, holds all.  (From one it lacks,
\* take the numbers up to it that it lacks: x |-> x - 1 maps them into fewer.)
LEMMA Induction ==
  ASSUME NEW S, 0 \in S, \A n \in Nat : n \in S => n + 1 \in S
  PROVE  Nat \subseteq S
<1> SUFFICES ASSUME NEW N \in Nat, N \notin S PROVE FALSE
  OBVIOUS
<1> DEFINE W == {x \in 0..N : x \notin S}
           f == [x \in W |-> x - 1]
<1>1. IsFiniteSet(W) /\ N \in W
  <2>1. IsFiniteSet(0..N)
    BY FS_Interval
  <2>2. W \in SUBSET (0..N) /\ N \in W
    OBVIOUS
  <2> HIDE DEF W
  <2> QED BY <2>1, <2>2, FS_Subset
<1>2. \A x \in W : x - 1 \in W \ {N}
  <2>1. ASSUME NEW x \in W PROVE x - 1 \in W \ {N}
    <3>1. x \in Nat /\ x # 0 /\ x <= N
      OBVIOUS
    <3>2. x - 1 \in S => x \in S
      BY <3>1
    <3> QED BY <3>1, <3>2
  <2> QED BY <2>1
<1>3. f \in [W -> W \ {N}]
  BY <1>2
<1>4. IsFiniteSet(W \ {N}) /\ Cardinality(W \ {N}) < Cardinality(W)
  <2> HIDE DEF W
  <2>1. Cardinality(W) \in Nat
    BY <1>1, FS_CardinalityType
  <2>2. IsFiniteSet(W \ {N}) /\ Cardinality(W \ {N}) = Cardinality(W) - 1
    BY <1>1, FS_RemoveElement
  <2> QED BY <2>1, <2>2
<1>5. \A x, y \in W : f[x] = f[y] => x = y
  OBVIOUS
<1> HIDE DEF W, f
<1>6. \E x, y \in W : x # y /\ f[x] = f[y]
  BY <1>1, <1>3, <1>4, FS_PigeonHole
<1> QED BY <1>5, <1>6

-------------------------------------------------------------------------------
(* Sequences.                                                                *)

\* m is l with e behind its first k elements; m is l without its k-th.
Inserted(m, l, k, e) ==
  /\ Len(m) = Len(l) + 1
  /\ \A j \in 1..k : m[j] = l[j]
  /\ m[k + 1] = e
  /\ \A j \in (k + 1)..Len(l) : m[j + 1] = l[j]

Removed(m, l, k) ==
  /\ Len(m) = Len(l) - 1
  /\ \A j \in 1..(k - 1) : m[j] = l[j]
  /\ \A j \in k..(Len(l) - 1) : m[j] = l[j + 1]

LEMMA InsertAtLemma ==
  ASSUME NEW S, NEW l \in Seq(S), NEW k \in 0..Len(l), NEW e \in S
  PROVE  /\ InsertAt(l, k + 1, e) \in Seq(S)
         /\ Inserted(InsertAt(l, k + 1, e), l, k, e)
<1> DEFINE a == SubSeq(l, 1, k)
           b == SubSeq(l, k + 1, Len(l))
           ae == a \o <<e>>
<1>1. Len(l) \in Nat /\ \A j \in 1..Len(l) : l[j] \in S
  BY LenProperties
<1>2. a \in Seq(S) /\ Len(a) = k /\ \A j \in 1..k : a[j] = l[j]
  BY <1>1, SubSeqProperties
<1>3. b \in Seq(S) /\ Len(b) = Len(l) - k /\ \A j \in 1..(Len(l) - k) : b[j] = l[k + j]
  BY <1>1, SubSeqProperties
<1>4. <<e>> \in Seq(S) /\ Len(<<e>>) = 1 /\ <<e>>[1] = e
  OBVIOUS
<1>5. InsertAt(l, k + 1, e) = ae \o b
  <2>1. (k + 1) - 1 = k
    OBVIOUS
  <2> QED BY <2>1 DEF InsertAt
<1> HIDE DEF a, b
<1>6. /\ ae \in Seq(S) /\ Len(ae) = k + 1
      /\ \A j \in 1..(k + 1) : ae[j] = IF j <= k THEN a[j] ELSE e
  BY <1>2, <1>4, ConcatProperties
<1> HIDE DEF ae
<1>7. /\ ae \o b \in Seq(S) /\ Len(ae \o b) = Len(l) + 1
      /\ \A j \in 1..(Len(l) + 1) : (ae \o b)[j] = IF j <= k + 1 THEN ae[j] ELSE b[j - (k + 1)]
  <2>1. Len(ae) + Len(b) = Len(l) + 1
    BY <1>1, <1>3, <1>6
  <2> QED BY <1>3, <1>6, <2>1, ConcatProperties
<1>8. \A j \in 1..k : (ae \o b)[j] = l[j]
  BY <1>1, <1>2, <1>6, <1>7
<1>9. (ae \o b)[k + 1] = e
  BY <1>1, <1>6, <1>7
<1>10. \A j \in (k + 1)..Len(l) : (ae \o b)[j + 1] = l[j]
  <2> SUFFICES ASSUME NEW j \in (k + 1)..Len(l) PROVE (ae \o b)[j + 1] = l[j]
    OBVIOUS
  <2>1. (ae \o b)[j + 1] = b[j - k]
    <3>1. j + 1 \in 1..(Len(l) + 1) /\ ~(j + 1 <= k + 1) /\ (j + 1) - (k + 1) = j - k
      BY <1>1
    <3> QED BY <1>7, <3>1
  <2>2. j - k \in 1..(Len(l) - k) /\ k + (j - k) = j
    BY <1>1
  <2> QED BY <1>3, <2>1, <2>2
<1> QED BY <1>5, <1>7, <1>8, <1>9, <1>10 DEF Inserted

LEMMA RemoveAtLemma ==
  ASSUME NEW S, NEW l \in Seq(S), NEW k \in 1..Len(l)
  PROVE  RemoveAt(l, k) \in Seq(S) /\ Removed(RemoveAt(l, k), l, k)
<1> DEFINE a == SubSeq(l, 1, k - 1)
           b == SubSeq(l, k + 1, Len(l))
<1>1. Len(l) \in Nat /\ \A j \in 1..Len(l) : l[j] \in S
  BY LenProperties
<1>2. a \in Seq(S) /\ Len(a) = k - 1 /\ \A j \in 1..(k - 1) : a[j] = l[j]
  BY <1>1, SubSeqProperties
<1>3. b \in Seq(S) /\ Len(b) = Len(l) - k /\ \A j \in 1..(Len(l) - k) : b[j] = l[k + j]
  BY <1>1, SubSeqProperties
<1>4. RemoveAt(l, k) = a \o b
  BY DEF RemoveAt
<1> HIDE DEF a, b
<1>5. /\ a \o b \in Seq(S) /\ Len(a \o b) = Len(l) - 1
      /\ \A j \in 1..(Len(l) - 1) : (a \o b)[j] = IF j <= k - 1 THEN a[j] ELSE b[j - (k - 1)]
  BY <1>1, <1>2, <1>3, ConcatProperties
<1>6. \A j \in 1..(k - 1) : (a \o b)[j] = l[j]
  BY <1>1, <1>2, <1>5
<1>7. \A j \in k..(Len(l) - 1) : (a \o b)[j] = l[j + 1]
  <2> SUFFICES ASSUME NEW j \in k..(Len(l) - 1) PROVE (a \o b)[j] = l[j + 1]
    OBVIOUS
  <2>1. (a \o b)[j] = b[j - (k - 1)]
    BY <1>1, <1>5
  <2>2. j - (k - 1) \in 1..(Len(l) - k) /\ k + (j - (k - 1)) = j + 1
    BY <1>1
  <2> QED BY <1>3, <2>1, <2>2
<1> QED BY <1>4, <1>5, <1>6, <1>7 DEF Removed

-------------------------------------------------------------------------------
(* Sums along the list.                                                      *)

\* A sequence of numbers has prefix sums.
LEMMA PrefixSums ==
  ASSUME NEW n \in Nat, NEW a \in [1..n -> Nat]
  PROVE  \E f \in [0..n -> Nat] : f[0] = 0 /\ \A j \in 1..n : f[j] = f[j - 1] + a[j]
<1> DEFINE S(k) == \E f \in [0..k -> Nat] :
                        f[0] = 0 /\ \A j \in 1..k : f[j] = f[j - 1] + a[j]
           K == {k \in Nat : k <= n => S(k)}
<1>1. S(0)
  <2> DEFINE f == [j \in 0..0 |-> 0]
  <2>1. f \in [0..0 -> Nat] /\ f[0] = 0 /\ \A j \in 1..0 : f[j] = f[j - 1] + a[j]
    OBVIOUS
  <2> QED BY <2>1
<1>2. ASSUME NEW k \in Nat, k + 1 <= n, S(k) PROVE S(k + 1)
  <2> PICK f \in [0..k -> Nat] : f[0] = 0 /\ \A j \in 1..k : f[j] = f[j - 1] + a[j]
    BY <1>2
  <2> DEFINE g == [j \in 0..(k + 1) |-> IF j <= k THEN f[j] ELSE f[k] + a[k + 1]]
  <2>1. g \in [0..(k + 1) -> Nat]
    <3>1. f[k] \in Nat /\ a[k + 1] \in Nat /\ \A j \in 0..k : f[j] \in Nat
      BY <1>2
    <3> QED BY <3>1
  <2>2. g[0] = 0
    OBVIOUS
  <2>3. ASSUME NEW j \in 1..(k + 1) PROVE g[j] = g[j - 1] + a[j]
    <3>1. CASE j <= k
      BY <3>1
    <3>2. CASE j = k + 1
      BY <3>2
    <3> QED BY <3>1, <3>2
  <2> HIDE DEF g
  <2> QED BY <2>1, <2>2, <2>3
<1> HIDE DEF S
<1>3. 0 \in K
  BY <1>1
<1>4. \A k \in Nat : k \in K => k + 1 \in K
  BY <1>2
<1>5. n \in K
  <2> HIDE DEF K
  <2> QED BY <1>3, <1>4, Induction
<1>6. S(n)
  BY <1>5
<1> QED BY <1>6 DEF S

\* f sums the times of the first n timers of q.
Sums(q, n, f) ==
  /\ f[0] = 0
  /\ \A j \in 1..n : f[j] = f[j - 1] + q.tm[q.list[j]].relativeTimePending

\* TimeTo is the sum that solves its equation.
LEMMA TimeToIs ==
  ASSUME NEW q, NEW n \in Nat, NEW f, NEW i \in 0..n, Sums(q, n, f)
  PROVE  TimeTo(q, i) = f[i]
<1>. USE DEF Sums
<1> DEFINE E(h, j) == IF j = 0 THEN 0 ELSE h[j - 1] + q.tm[q.list[j]].relativeTimePending
           sum == CHOOSE h : h = [j \in 0..i |-> E(h, j)]
           g == [j \in 0..i |-> f[j]]
<1>1. TimeTo(q, i) = sum[i]
  BY DEF TimeTo
<1>2. g = [j \in 0..i |-> E(g, j)]
  <2>1. ASSUME NEW j \in 0..i PROVE g[j] = E(g, j)
    <3>1. CASE j = 0
      BY <3>1
    <3>2. CASE j \in 1..i
      BY <3>2
    <3> QED BY <3>1, <3>2
  <2>2. \A j \in 0..i : g[j] = E(g, j)
    BY <2>1
  <2>3. g = [j \in 0..i |-> g[j]]
    OBVIOUS
  <2> HIDE DEF g, E
  <2> QED BY <2>2, <2>3
<1>3. sum = [j \in 0..i |-> E(sum, j)]
  <2> HIDE DEF g, E
  <2> QED BY <1>2
<1>4. \A j \in 0..i : sum[j] = E(sum, j)
  <2> HIDE DEF E, sum
  <2> QED BY <1>3
<1> HIDE DEF sum, g
<1> DEFINE K == {k \in Nat : k <= i => sum[k] = f[k]}
<1>5. 0 \in K
  BY <1>4
<1>6. ASSUME NEW k \in Nat, k \in K PROVE k + 1 \in K
  <2> SUFFICES ASSUME k + 1 <= i PROVE sum[k + 1] = f[k + 1]
    OBVIOUS
  <2>1. sum[k] = f[k]
    BY <1>6
  <2>2. sum[k + 1] = sum[k] + q.tm[q.list[k + 1]].relativeTimePending
    BY <1>4
  <2>3. f[k + 1] = f[k] + q.tm[q.list[k + 1]].relativeTimePending
    <3>1. k + 1 \in 1..n /\ (k + 1) - 1 = k
      OBVIOUS
    <3> QED BY <3>1
  <2> QED BY <2>1, <2>2, <2>3
<1>7. i \in K
  <2> HIDE DEF K
  <2> QED BY <1>5, <1>6, Induction
<1> QED BY <1>1, <1>7

-------------------------------------------------------------------------------
(* The list of running timers.                                               *)

Queues == [list : Seq(Slots), tm : [Slots -> TimerObjects]]

\* The fields of a timer object that the list does not touch.
Alike(t, u) ==
  /\ t.inUse = u.inUse /\ t.active = u.active /\ t.tmrElapsedFlag = u.tmrElapsedFlag
  /\ t.tmrElapsed = u.tmrElapsed /\ t.type = u.type /\ t.requestedTime = u.requestedTime

\* The times of the list are its prefix sums.
LEMMA TimeToSums ==
  ASSUME NEW q \in Queues
  PROVE  /\ TimeTo(q, 0) = 0
         /\ \A i \in 0..Len(q.list) : TimeTo(q, i) \in Nat
         /\ \A i \in 1..Len(q.list) :
              TimeTo(q, i) = TimeTo(q, i - 1) + q.tm[q.list[i]].relativeTimePending
<1> DEFINE n == Len(q.list)
           a == [i \in 1..n |-> q.tm[q.list[i]].relativeTimePending]
<1>1. n \in Nat /\ \A i \in 1..n : q.list[i] \in Slots
  <2>1. q.list \in Seq(Slots)
    BY DEF Queues
  <2> QED BY <2>1, LenProperties
<1>2. a \in [1..n -> Nat]
  BY <1>1 DEF Queues, TimerObjects
<1>3. PICK f \in [0..n -> Nat] : f[0] = 0 /\ \A j \in 1..n : f[j] = f[j - 1] + a[j]
  <2> HIDE DEF a, n
  <2> QED BY <1>1, <1>2, PrefixSums
<1>4. Sums(q, n, f)
  BY <1>3 DEF Sums
<1> HIDE DEF a, n
<1>5. \A i \in 0..n : TimeTo(q, i) = f[i]
  BY <1>1, <1>4, TimeToIs
<1>6. \A i \in 1..n : i \in 0..n /\ i - 1 \in 0..n
  BY <1>1
<1>7. 0 \in 0..n
  BY <1>1
<1> QED BY <1>3, <1>4, <1>5, <1>6, <1>7 DEF n, Sums

\* They grow along the list.
LEMMA TimeToGrows ==
  ASSUME NEW q \in Queues, NEW i \in 0..Len(q.list), NEW j \in 0..Len(q.list), i <= j
  PROVE  TimeTo(q, i) <= TimeTo(q, j)
<1> DEFINE n == Len(q.list)
           K == {k \in Nat : i <= k /\ k <= n => TimeTo(q, i) <= TimeTo(q, k)}
<1>1. n \in Nat /\ i \in Nat /\ j \in Nat
  <2>1. q.list \in Seq(Slots)
    BY DEF Queues
  <2> QED BY <2>1, LenProperties
<1>2. \A k \in 0..n : TimeTo(q, k) \in Nat
  BY TimeToSums
<1>3. \A k \in 1..n : TimeTo(q, k - 1) <= TimeTo(q, k)
  <2> SUFFICES ASSUME NEW k \in 1..n PROVE TimeTo(q, k - 1) <= TimeTo(q, k)
    OBVIOUS
  <2>1. q.list \in Seq(Slots)
    BY DEF Queues
  <2>2. q.list[k] \in Slots
    BY <2>1, LenProperties
  <2>3. q.tm[q.list[k]].relativeTimePending \in Nat
    BY <2>2 DEF Queues, TimerObjects
  <2>4. TimeTo(q, k) = TimeTo(q, k - 1) + q.tm[q.list[k]].relativeTimePending
    BY TimeToSums
  <2>5. k - 1 \in 0..n
    BY <1>1
  <2>6. TimeTo(q, k - 1) \in Nat
    BY <1>2, <2>5
  <2> QED BY <2>3, <2>4, <2>6
<1> HIDE DEF n
<1>4. 0 \in K
  <2>1. SUFFICES ASSUME i <= 0, 0 <= n PROVE TimeTo(q, i) <= TimeTo(q, 0)
    OBVIOUS
  <2>2. i = 0
    BY <1>1, <2>1
  <2>3. TimeTo(q, 0) \in Nat
    BY <1>1, <1>2
  <2> QED BY <2>2, <2>3
<1>5. ASSUME NEW k \in Nat, k \in K PROVE k + 1 \in K
  <2>1. SUFFICES ASSUME i <= k + 1, k + 1 <= n PROVE TimeTo(q, i) <= TimeTo(q, k + 1)
    OBVIOUS
  <2>2. k \in 0..n /\ k + 1 \in 0..n /\ i \in 0..n
    BY <1>1, <2>1 DEF n
  <2>3. TimeTo(q, i) \in Nat /\ TimeTo(q, k) \in Nat /\ TimeTo(q, k + 1) \in Nat
    BY <1>2, <2>2
  <2>4. CASE i = k + 1
    BY <2>3, <2>4
  <2>5. CASE i <= k
    <3>1. TimeTo(q, i) <= TimeTo(q, k)
      BY <1>5, <2>2, <2>5
    <3>2. k + 1 \in 1..n /\ (k + 1) - 1 = k
      BY <1>1, <2>1
    <3>3. TimeTo(q, k) <= TimeTo(q, k + 1)
      BY <1>3, <3>2
    <3> QED BY <2>3, <3>1, <3>3
  <2> QED BY <1>1, <2>1, <2>4, <2>5
<1>6. j \in K
  <2> HIDE DEF K
  <2> QED BY <1>1, <1>4, <1>5, Induction
<1> QED BY <1>6 DEF n

\* Where the new timer goes: behind all that are due no later.
LEMMA PlaceLemma ==
  ASSUME NEW q \in Queues, NEW time \in Nat
  PROVE  LET k == Cardinality({i \in 1..Len(q.list) : TimeTo(q, i) <= time})
         IN /\ k \in 0..Len(q.list)
            /\ TimeTo(q, k) <= time
            /\ k < Len(q.list) => TimeTo(q, k + 1) > time
<1> DEFINE n == Len(q.list)
           P(k) == k <= n /\ TimeTo(q, k) <= time
           K == {k \in Nat : k <= n => TimeTo(q, k) <= time}
<1>1. n \in Nat
  <2>1. q.list \in Seq(Slots)
    BY DEF Queues
  <2> QED BY <2>1, LenProperties
<1>2. /\ TimeTo(q, 0) = 0
      /\ \A i \in 0..n : TimeTo(q, i) \in Nat
      /\ \A i, j \in 0..n : i <= j => TimeTo(q, i) <= TimeTo(q, j)
  BY TimeToSums, TimeToGrows
<1> HIDE DEF n
<1>3. \E k \in 0..n : TimeTo(q, k) <= time /\ (k < n => TimeTo(q, k + 1) > time)
  <2> SUFFICES ASSUME \A k \in 0..n : TimeTo(q, k) <= time => k < n /\ ~(TimeTo(q, k + 1) > time)
               PROVE  FALSE
    OBVIOUS
  <2>1. 0 \in K
    BY <1>2
  <2>2. ASSUME NEW k \in Nat, k \in K PROVE k + 1 \in K
    <3> SUFFICES ASSUME k + 1 <= n PROVE TimeTo(q, k + 1) <= time
      OBVIOUS
    <3>1. k \in 0..n /\ k + 1 \in 0..n /\ k <= n
      BY <1>1
    <3>2. TimeTo(q, k) <= time
      BY <2>2, <3>1
    <3>3. TimeTo(q, k + 1) \in Nat
      BY <1>2, <3>1
    <3> QED BY <3>1, <3>2, <3>3
  <2>3. n \in K
    <3> HIDE DEF K
    <3> QED BY <1>1, <2>1, <2>2, Induction
  <2>4. n \in 0..n /\ TimeTo(q, n) <= time
    BY <1>1, <2>3
  <2> QED BY <1>1, <2>4
<1>4. PICK k \in 0..n : TimeTo(q, k) <= time /\ (k < n => TimeTo(q, k + 1) > time)
  BY <1>3
<1>5. {i \in 1..n : TimeTo(q, i) <= time} = 1..k
  <2>1. ASSUME NEW i \in 1..n PROVE TimeTo(q, i) <= time <=> i <= k
    <3>1. i \in 0..n /\ k \in 0..n /\ TimeTo(q, i) \in Nat /\ TimeTo(q, k) \in Nat
      BY <1>1, <1>2
    <3>2. CASE i <= k
      <4>1. TimeTo(q, i) <= TimeTo(q, k)
        BY <1>2, <3>1, <3>2
      <4> QED BY <1>4, <3>1, <3>2, <4>1
    <3>3. CASE k < i
      <4>1. k + 1 \in 0..n /\ k + 1 <= i /\ k < n
        BY <1>1, <3>3
      <4>2. TimeTo(q, k + 1) <= TimeTo(q, i) /\ TimeTo(q, k + 1) \in Nat
        BY <1>2, <3>1, <4>1
      <4> QED BY <1>4, <3>1, <3>3, <4>1, <4>2
    <3> QED BY <1>1, <3>2, <3>3
  <2> QED BY <1>1, <2>1
<1>6. Cardinality(1..k) = k
  <2>1. Cardinality(1..k) = IF 1 > k THEN 0 ELSE k - 1 + 1
    BY FS_Interval
  <2> QED BY <2>1
<1> QED BY <1>4, <1>5, <1>6 DEF n

\* An element that is not in the list goes in, the others stay.
LEMMA InsertSound ==
  ASSUME NEW S, NEW l \in Seq(S), NEW k \in 0..Len(l), NEW e \in S,
         IsInjective(l), e \notin Range(l)
  PROVE  /\ IsInjective(InsertAt(l, k + 1, e))
         /\ Range(InsertAt(l, k + 1, e)) = Range(l) \cup {e}
<1> DEFINE m == InsertAt(l, k + 1, e)
           n == Len(l)
           From(j) == IF j <= k THEN j ELSE j - 1
<1>1. n \in Nat /\ k \in 0..n /\ DOMAIN l = 1..n
  BY LenProperties
<1>2. /\ m \in Seq(S) /\ Len(m) = n + 1
      /\ \A j \in 1..k : m[j] = l[j]
      /\ m[k + 1] = e
      /\ \A j \in (k + 1)..n : m[j + 1] = l[j]
  <2>1. m \in Seq(S) /\ Inserted(m, l, k, e)
    BY InsertAtLemma
  <2> QED BY <2>1 DEF Inserted
<1>3. DOMAIN m = 1..(n + 1)
  BY <1>2, LenProperties
<1> HIDE DEF m, n
<1>4. \A j \in 1..(n + 1) : j # k + 1 => From(j) \in 1..n /\ m[j] = l[From(j)]
  <2> SUFFICES ASSUME NEW j \in 1..(n + 1), j # k + 1
               PROVE  From(j) \in 1..n /\ m[j] = l[From(j)]
    OBVIOUS
  <2>1. CASE j <= k
    BY <1>1, <1>2, <2>1
  <2>2. CASE j > k
    <3>1. j - 1 \in (k + 1)..n /\ (j - 1) + 1 = j /\ From(j) = j - 1
      BY <1>1, <2>2
    <3> QED BY <1>1, <1>2, <3>1
  <2> QED BY <1>1, <2>1, <2>2
<1>5. \A j \in 1..n : l[j] # e
  BY <1>1 DEF Range
<1>6. ASSUME NEW a \in 1..(n + 1), NEW b \in 1..(n + 1), m[a] = m[b] PROVE a = b
  <2>1. CASE a # k + 1 /\ b # k + 1
    <3>1. From(a) \in 1..n /\ From(b) \in 1..n /\ l[From(a)] = l[From(b)]
      BY <1>4, <1>6, <2>1
    <3>2. From(a) = From(b)
      <4> HIDE DEF From
      <4> QED BY <1>1, <3>1 DEF IsInjective
    <3> QED BY <1>1, <2>1, <3>2
  <2>2. CASE a = k + 1 /\ b # k + 1
    BY <1>2, <1>4, <1>5, <1>6, <2>2
  <2>3. CASE a # k + 1 /\ b = k + 1
    BY <1>2, <1>4, <1>5, <1>6, <2>3
  <2> QED BY <2>1, <2>2, <2>3
<1>7. IsInjective(m)
  BY <1>3, <1>6 DEF IsInjective
<1>8. Range(m) \subseteq Range(l) \cup {e}
  <2> SUFFICES ASSUME NEW j \in 1..(n + 1) PROVE m[j] \in Range(l) \cup {e}
    BY <1>3 DEF Range
  <2> HIDE DEF From
  <2> QED BY <1>1, <1>2, <1>4 DEF Range
<1>9. e \in Range(m)
  <2>1. k + 1 \in 1..(n + 1)
    BY <1>1
  <2> QED BY <1>2, <1>3, <2>1 DEF Range
<1>10. ASSUME NEW j \in 1..n PROVE l[j] \in Range(m)
  <2>1. CASE j <= k
    <3>1. j \in 1..k /\ j \in 1..(n + 1)
      BY <1>1, <2>1
    <3> QED BY <1>2, <1>3, <3>1 DEF Range
  <2>2. CASE j > k
    <3>1. j \in (k + 1)..n /\ j + 1 \in 1..(n + 1)
      BY <1>1, <2>2
    <3> QED BY <1>2, <1>3, <3>1 DEF Range
  <2> QED BY <1>1, <2>1, <2>2
<1>11. Range(l) \subseteq Range(m)
  BY <1>1, <1>10 DEF Range
<1> QED BY <1>7, <1>8, <1>9, <1>11 DEF m

\* The element at a place goes out, the others stay.
LEMMA RemoveSound ==
  ASSUME NEW S, NEW l \in Seq(S), NEW k \in 1..Len(l), IsInjective(l)
  PROVE  /\ IsInjective(RemoveAt(l, k))
         /\ Range(RemoveAt(l, k)) = Range(l) \ {l[k]}
<1> DEFINE m == RemoveAt(l, k)
           n == Len(l)
           From(j) == IF j < k THEN j ELSE j + 1
<1>1. n \in Nat /\ k \in 1..n /\ DOMAIN l = 1..n
  BY LenProperties
<1>2. /\ m \in Seq(S) /\ Len(m) = n - 1
      /\ \A j \in 1..(k - 1) : m[j] = l[j]
      /\ \A j \in k..(n - 1) : m[j] = l[j + 1]
  <2>1. m \in Seq(S) /\ Removed(m, l, k)
    BY RemoveAtLemma
  <2> QED BY <2>1 DEF Removed
<1>3. DOMAIN m = 1..(n - 1)
  BY <1>2, LenProperties
<1> HIDE DEF m, n
<1>4. \A j \in 1..(n - 1) : From(j) \in 1..n /\ From(j) # k /\ m[j] = l[From(j)]
  <2> SUFFICES ASSUME NEW j \in 1..(n - 1)
               PROVE  From(j) \in 1..n /\ From(j) # k /\ m[j] = l[From(j)]
    OBVIOUS
  <2>1. CASE j < k
    <3>1. j \in 1..(k - 1) /\ From(j) = j
      BY <1>1, <2>1
    <3> QED BY <1>1, <1>2, <2>1, <3>1
  <2>2. CASE j >= k
    <3>1. j \in k..(n - 1) /\ From(j) = j + 1
      BY <1>1, <2>2
    <3> QED BY <1>1, <1>2, <2>2, <3>1
  <2> QED BY <1>1, <2>1, <2>2
<1>5. ASSUME NEW a \in 1..(n - 1), NEW b \in 1..(n - 1), m[a] = m[b] PROVE a = b
  <2>1. From(a) \in 1..n /\ From(b) \in 1..n /\ l[From(a)] = l[From(b)]
    BY <1>4, <1>5
  <2>2. From(a) = From(b)
    <3> HIDE DEF From
    <3> QED BY <1>1, <2>1 DEF IsInjective
  <2> QED BY <1>1, <2>2
<1>6. IsInjective(m)
  BY <1>3, <1>5 DEF IsInjective
<1>7. Range(m) \subseteq Range(l) \ {l[k]}
  <2> SUFFICES ASSUME NEW j \in 1..(n - 1) PROVE m[j] \in Range(l) \ {l[k]}
    BY <1>3 DEF Range
  <2>1. From(j) \in 1..n /\ From(j) # k /\ m[j] = l[From(j)]
    BY <1>4
  <2> HIDE DEF From
  <2>2. l[From(j)] # l[k]
    BY <1>1, <2>1 DEF IsInjective
  <2> QED BY <1>1, <2>1, <2>2 DEF Range
<1>8. ASSUME NEW j \in 1..n, j # k PROVE l[j] \in Range(m)
  <2>1. CASE j < k
    <3>1. j \in 1..(k - 1) /\ j \in 1..(n - 1)
      BY <1>1, <2>1
    <3> QED BY <1>2, <1>3, <3>1 DEF Range
  <2>2. CASE j > k
    <3>1. j - 1 \in k..(n - 1) /\ j - 1 \in 1..(n - 1) /\ (j - 1) + 1 = j
      BY <1>1, <2>2
    <3> QED BY <1>2, <1>3, <3>1 DEF Range
  <2> QED BY <1>1, <1>8, <2>1, <2>2
<1>9. Range(l) \ {l[k]} \subseteq Range(m)
  BY <1>1, <1>8 DEF Range
<1> QED BY <1>6, <1>7, <1>9 DEF m

Pending(q, s) == q.tm[s].relativeTimePending

\* The time until timer s of the list is due.
Due(q, s) == TimeTo(q, CHOOSE j \in 1..Len(q.list) : q.list[j] = s)

LEMMA QueueFacts ==
  ASSUME NEW q \in Queues
  PROVE  /\ q.list \in Seq(Slots) /\ Len(q.list) \in Nat
         /\ DOMAIN q.list = 1..Len(q.list)
         /\ \A i \in 1..Len(q.list) : q.list[i] \in Slots /\ q.list[i] \in Range(q.list)
         /\ Range(q.list) \subseteq Slots
         /\ \A u \in Range(q.list) : \E i \in 1..Len(q.list) : q.list[i] = u
         /\ q.tm \in [Slots -> TimerObjects]
         /\ \A u \in Slots : q.tm[u] \in TimerObjects /\ Pending(q, u) \in Nat
<1>1. q.list \in Seq(Slots) /\ q.tm \in [Slots -> TimerObjects]
  BY DEF Queues
<1>2. /\ Len(q.list) \in Nat /\ DOMAIN q.list = 1..Len(q.list)
      /\ \A i \in 1..Len(q.list) : q.list[i] \in Slots
  BY <1>1, LenProperties
<1>3. \A u \in Slots : q.tm[u] \in TimerObjects /\ Pending(q, u) \in Nat
  BY <1>1 DEF TimerObjects, Pending
<1> QED BY <1>1, <1>2, <1>3 DEF Range

LEMMA DueIs ==
  ASSUME NEW q \in Queues, IsInjective(q.list), NEW i \in 1..Len(q.list)
  PROVE  Due(q, q.list[i]) = TimeTo(q, i)
<1>1. DOMAIN q.list = 1..Len(q.list)
  BY QueueFacts
<1>2. \A j \in 1..Len(q.list) : q.list[j] = q.list[i] => j = i
  BY <1>1 DEF IsInjective
<1>3. (CHOOSE j \in 1..Len(q.list) : q.list[j] = q.list[i]) = i
  BY <1>2
<1> QED BY <1>3 DEF Due

LEMMA DueNat ==
  ASSUME NEW q \in Queues, IsInjective(q.list), NEW u \in Range(q.list)
  PROVE  Due(q, u) \in Nat
<1> PICK i \in 1..Len(q.list) : q.list[i] = u
  BY QueueFacts
<1>1. i \in 0..Len(q.list)
  BY QueueFacts
<1> QED BY <1>1, DueIs, TimeToSums

\* Objects that are not in the list do not count.
LEMMA DueElsewhere ==
  ASSUME NEW q \in Queues, NEW q1 \in Queues, IsInjective(q.list), q1.list = q.list,
         \A u \in Range(q.list) : q1.tm[u] = q.tm[u]
  PROVE  \A u \in Range(q.list) : Due(q1, u) = Due(q, u)
<1> SUFFICES ASSUME NEW u \in Range(q.list) PROVE Due(q1, u) = Due(q, u)
  OBVIOUS
<1> DEFINE n == Len(q.list)
           f == [j \in 0..n |-> TimeTo(q, j)]
<1>1. n \in Nat /\ \A i \in 1..n : q.list[i] \in Range(q.list)
  BY QueueFacts
<1> PICK i \in 1..n : q.list[i] = u
  BY QueueFacts
<1>2. Sums(q1, n, f)
  <2>1. f[0] = 0
    BY <1>1, TimeToSums
  <2>2. ASSUME NEW j \in 1..n PROVE f[j] = f[j - 1] + q1.tm[q1.list[j]].relativeTimePending
    <3>1. TimeTo(q, j) = TimeTo(q, j - 1) + q.tm[q.list[j]].relativeTimePending
      BY TimeToSums
    <3>2. j - 1 \in 0..n /\ j \in 0..n
      BY <1>1
    <3> QED BY <1>1, <3>1, <3>2
  <2> HIDE DEF f
  <2> QED BY <2>1, <2>2 DEF Sums
<1>3. i \in 0..n /\ f[i] = TimeTo(q, i)
  BY <1>1
<1> HIDE DEF f
<1>4. TimeTo(q1, i) = TimeTo(q, i)
  BY <1>1, <1>2, <1>3, TimeToIs
<1> QED BY <1>4, DueIs

\* A timer that is put in is due when its time is up, and nobody else's changes.
LEMMA AddToListSound ==
  ASSUME NEW q \in Queues, IsInjective(q.list), NEW s \in Slots, s \notin Range(q.list)
  PROVE  /\ AddToList(q, s) \in Queues
         /\ IsInjective(AddToList(q, s).list)
         /\ Range(AddToList(q, s).list) = Range(q.list) \cup {s}
         /\ \A u \in Slots : Alike(AddToList(q, s).tm[u], q.tm[u])
         /\ \A u \in Slots \ (Range(q.list) \cup {s}) : AddToList(q, s).tm[u] = q.tm[u]
         /\ Due(AddToList(q, s), s) = Pending(q, s)
         /\ \A u \in Range(q.list) : Due(AddToList(q, s), u) = Due(q, u)
<1> DEFINE n == Len(q.list)
           time == q.tm[s].relativeTimePending
           k == Cardinality({i \in 1..n : TimeTo(q, i) <= time})
           rest == time - TimeTo(q, k)
           tm1 == [q.tm EXCEPT ![s].relativeTimePending = rest]
           tm2 == IF k = n THEN tm1
                  ELSE [tm1 EXCEPT ![q.list[k + 1]].relativeTimePending = @ - rest]
           m == InsertAt(q.list, k + 1, s)
           q1 == [list |-> m, tm |-> tm2]
           f == [j \in 0..(n + 1) |-> IF j <= k THEN TimeTo(q, j)
                                      ELSE IF j = k + 1 THEN time ELSE TimeTo(q, j - 1)]
<1>1. AddToList(q, s) = q1
  BY DEF AddToList
<1>2. /\ q.list \in Seq(Slots) /\ n \in Nat /\ DOMAIN q.list = 1..n
      /\ \A i \in 1..n : q.list[i] \in Slots /\ q.list[i] \in Range(q.list)
      /\ \A u \in Range(q.list) : \E i \in 1..n : q.list[i] = u
      /\ q.tm \in [Slots -> TimerObjects]
      /\ Range(q.list) \subseteq Slots
  BY QueueFacts
<1>3. time \in Nat /\ Pending(q, s) = time /\ \A u \in Slots : q.tm[u].relativeTimePending \in Nat
  BY QueueFacts DEF Pending
<1>4. /\ TimeTo(q, 0) = 0
      /\ \A i \in 0..n : TimeTo(q, i) \in Nat
      /\ \A i \in 1..n : TimeTo(q, i) = TimeTo(q, i - 1) + q.tm[q.list[i]].relativeTimePending
  BY TimeToSums
<1>5. k \in 0..n /\ TimeTo(q, k) <= time /\ (k < n => TimeTo(q, k + 1) > time)
  <2> HIDE DEF time, n
  <2> QED BY <1>3, PlaceLemma DEF n
<1> HIDE DEF n, time, k
<1>6. rest \in Nat
  BY <1>3, <1>4, <1>5
<1>7. k < n => /\ q.list[k + 1] \in Range(q.list) /\ q.list[k + 1] \in Slots /\ q.list[k + 1] # s
               /\ q.tm[q.list[k + 1]].relativeTimePending - rest \in Nat
               /\ q.tm[q.list[k + 1]].relativeTimePending - rest = TimeTo(q, k + 1) - time
  <2> SUFFICES ASSUME k < n
               PROVE  /\ q.list[k + 1] \in Range(q.list)
                      /\ q.list[k + 1] \in Slots /\ q.list[k + 1] # s
                      /\ q.tm[q.list[k + 1]].relativeTimePending - rest \in Nat
                      /\ q.tm[q.list[k + 1]].relativeTimePending - rest = TimeTo(q, k + 1) - time
    OBVIOUS
  <2>1. k + 1 \in 1..n /\ k + 1 \in 0..n /\ (k + 1) - 1 = k
    BY <1>2, <1>5
  <2>2. q.list[k + 1] \in Range(q.list) /\ q.list[k + 1] \in Slots /\ q.list[k + 1] # s
    BY <1>2, <2>1
  <2>3. TimeTo(q, k + 1) = TimeTo(q, k) + q.tm[q.list[k + 1]].relativeTimePending
    BY <1>4, <2>1
  <2>4. TimeTo(q, k + 1) \in Nat /\ TimeTo(q, k) \in Nat
    BY <1>4, <1>5, <2>1
  <2> QED BY <1>3, <1>5, <2>2, <2>3, <2>4
<1>8. tm1 \in [Slots -> TimerObjects] /\ tm1[s].relativeTimePending = rest
      /\ (\A u \in Slots : Alike(tm1[u], q.tm[u]))
      /\ (\A u \in Slots \ {s} : tm1[u] = q.tm[u])
  <2> HIDE DEF rest
  <2>1. q.tm[s] \in TimerObjects
    BY <1>2
  <2> QED BY <1>2, <1>6, <2>1 DEF TimerObjects, Alike
<1> HIDE DEF tm1
<1>9. /\ tm2 \in [Slots -> TimerObjects]
      /\ \A u \in Slots : Alike(tm2[u], q.tm[u])
      /\ tm2[s].relativeTimePending = rest
      /\ \A u \in Slots : u # s /\ ~(k < n /\ u = q.list[k + 1]) => tm2[u] = q.tm[u]
      /\ k < n => tm2[q.list[k + 1]].relativeTimePending = TimeTo(q, k + 1) - time
  <2>1. CASE k = n
    <3>1. tm2 = tm1 /\ ~(k < n)
      BY <1>2, <2>1
    <3> HIDE DEF tm2
    <3> QED BY <1>8, <3>1
  <2>2. CASE k < n
    <3> DEFINE h == q.list[k + 1]
               d == q.tm[h].relativeTimePending - rest
    <3>1. h \in Slots /\ h # s /\ d \in Nat /\ d = TimeTo(q, k + 1) - time
      BY <1>7, <2>2
    <3>2. tm1[h] = q.tm[h] /\ tm1[h] \in TimerObjects
      BY <1>8, <3>1
    <3>3. tm2 = [tm1 EXCEPT ![h].relativeTimePending = d]
      <4>1. k # n /\ tm1[h].relativeTimePending - rest = d
        BY <1>2, <1>5, <2>2, <3>2
      <4>2. tm2 = [tm1 EXCEPT ![h].relativeTimePending = tm1[h].relativeTimePending - rest]
        BY <4>1
      <4> HIDE DEF d, tm2
      <4> QED BY <4>1, <4>2
    <3> HIDE DEF h, d, tm2
    <3>4. tm2 \in [Slots -> TimerObjects] /\ tm2[h].relativeTimePending = d
          /\ (\A u \in Slots : Alike(tm2[u], tm1[u]))
          /\ (\A u \in Slots \ {h} : tm2[u] = tm1[u])
      BY <1>8, <3>1, <3>2, <3>3 DEF TimerObjects, Alike
    <3>5. \A u \in Slots : Alike(tm2[u], q.tm[u])
      BY <1>8, <3>4 DEF Alike
    <3> QED BY <1>8, <2>2, <3>1, <3>4, <3>5 DEF h
  <2>3. k = n \/ k < n
    BY <1>2, <1>5
  <2> QED BY <2>1, <2>2, <2>3
<1> HIDE DEF tm2
<1>10. m \in Seq(Slots) /\ Inserted(m, q.list, k, s) /\ IsInjective(m)
       /\ Range(m) = Range(q.list) \cup {s}
  <2>1. k \in 0..Len(q.list)
    BY <1>5 DEF n
  <2> QED BY <1>2, <2>1, InsertAtLemma, InsertSound
<1> HIDE DEF m
<1>11. q1 \in Queues
  BY <1>9, <1>10 DEF Queues
<1>12. Len(m) = n + 1 /\ m[k + 1] = s
       /\ (\A j \in 1..k : m[j] = q.list[j])
       /\ (\A j \in (k + 1)..n : m[j + 1] = q.list[j])
  BY <1>10 DEF Inserted, n
<1>20. ASSUME NEW i \in 1..n, k < n => k + 1 \in 1..n /\ k + 1 # i
           PROVE  q.list[i] # s /\ ~(k < n /\ q.list[i] = q.list[k + 1]) /\ q.list[i] \in Slots
  <2>1. q.list[i] # s /\ q.list[i] \in Slots
    BY <1>2
  <2>2. ASSUME k < n, q.list[i] = q.list[k + 1] PROVE FALSE
    <3>1. k + 1 \in DOMAIN q.list /\ i \in DOMAIN q.list /\ k + 1 # i
      BY <1>2, <1>20, <2>2
    <3> QED BY <2>2, <3>1 DEF IsInjective
  <2> QED BY <2>1, <2>2
<1>13. ASSUME NEW j \in 1..(n + 1) PROVE f[j] = f[j - 1] + tm2[m[j]].relativeTimePending
  <2> HIDE DEF rest
  <2>1. CASE j <= k
    <3>1. j \in 1..n /\ j \in 0..n /\ j - 1 \in 0..n /\ m[j] = q.list[j] /\ j - 1 <= k
      <4>1. j \in 1..n /\ j \in 1..k /\ j \in 0..n /\ j - 1 \in 0..n /\ j - 1 <= k
        BY <1>2, <1>5, <2>1
      <4>2. m[j] = q.list[j]
        BY <1>12, <4>1
      <4> QED BY <4>1, <4>2
    <3>2. q.list[j] # s /\ ~(k < n /\ q.list[j] = q.list[k + 1]) /\ q.list[j] \in Slots
      <4>1. k < n => k + 1 \in 1..n /\ k + 1 # j
        BY <1>2, <1>5, <2>1
      <4> QED BY <3>1, <4>1, <1>20
    <3>3. tm2[m[j]] = q.tm[q.list[j]]
      BY <1>9, <3>1, <3>2
    <3>4. f[j] = TimeTo(q, j) /\ f[j - 1] = TimeTo(q, j - 1)
      BY <1>2, <2>1, <3>1
    <3> QED BY <1>4, <3>1, <3>3, <3>4
  <2>2. CASE j = k + 1
    <3>1. f[j] = time /\ f[j - 1] = TimeTo(q, k)
      BY <1>2, <1>5, <2>2
    <3>2. tm2[m[j]].relativeTimePending = rest
      BY <1>9, <1>12, <2>2
    <3> QED BY <1>3, <1>4, <1>5, <3>1, <3>2 DEF rest
  <2>3. CASE j = k + 2
    <3>1. k < n /\ k + 1 \in (k + 1)..n /\ k + 1 \in 0..n
      BY <1>2, <1>5, <2>3
    <3>2. m[j] = q.list[k + 1]
      <4>1. (k + 1) + 1 = j
        BY <1>5, <2>3
      <4> QED BY <1>12, <3>1, <4>1
    <3>3. tm2[m[j]].relativeTimePending = TimeTo(q, k + 1) - time
      BY <1>9, <3>1, <3>2
    <3>4. f[j] = TimeTo(q, k + 1) /\ f[j - 1] = time
      BY <1>2, <1>5, <2>3
    <3> QED BY <1>3, <1>4, <3>1, <3>3, <3>4
  <2>4. CASE j > k + 2
    <3>1. j - 1 \in (k + 1)..n /\ j - 1 \in 1..n /\ (j - 1) + 1 = j /\ j - 2 \in 0..n
          /\ (j - 1) - 1 = j - 2 /\ j - 1 \in 0..(n + 1) /\ j \in 0..(n + 1)
          /\ ~(j - 1 <= k + 1) /\ k \in Nat
      BY <1>2, <1>5, <2>4
    <3>2. m[j] = q.list[j - 1]
      BY <1>12, <3>1
    <3>3. q.list[j - 1] # s /\ ~(k < n /\ q.list[j - 1] = q.list[k + 1]) /\ q.list[j - 1] \in Slots
      <4>1. k < n => k + 1 \in 1..n /\ k + 1 # j - 1
        BY <1>2, <1>5, <2>4
      <4> QED BY <3>1, <4>1, <1>20
    <3>4. tm2[m[j]] = q.tm[q.list[j - 1]]
      BY <1>9, <3>2, <3>3
    <3>5. f[j] = TimeTo(q, j - 1) /\ f[j - 1] = TimeTo(q, j - 2)
      BY <2>4, <3>1
    <3>6. TimeTo(q, j - 1) = TimeTo(q, j - 2) + q.tm[q.list[j - 1]].relativeTimePending
      BY <1>4, <3>1
    <3> QED BY <3>4, <3>5, <3>6
  <2> QED BY <1>2, <1>5, <2>1, <2>2, <2>3, <2>4
<1>14. Sums(q1, n + 1, f)
  <2>1. f[0] = 0
    BY <1>2, <1>4, <1>5
  <2> HIDE DEF f
  <2> QED BY <1>13, <2>1 DEF Sums
<1>15. \A j \in 1..(n + 1) : TimeTo(q1, j) = f[j]
  <2> SUFFICES ASSUME NEW j \in 1..(n + 1) PROVE TimeTo(q1, j) = f[j]
    OBVIOUS
  <2>1. j \in 0..(n + 1) /\ n + 1 \in Nat
    BY <1>2
  <2> HIDE DEF f, q1
  <2> QED BY <1>14, <2>1, TimeToIs
<1>16. \A j \in 1..(n + 1) : Due(q1, m[j]) = f[j]
  <2>1. q1.list = m /\ IsInjective(q1.list) /\ Len(q1.list) = n + 1
    BY <1>10, <1>12
  <2> HIDE DEF f, q1
  <2> QED BY <1>11, <1>15, <2>1, DueIs
<1>17. Due(q1, s) = Pending(q, s)
  <2>1. k + 1 \in 1..(n + 1) /\ f[k + 1] = time
    BY <1>2, <1>5
  <2> HIDE DEF f, q1
  <2> QED BY <1>3, <1>12, <1>16, <2>1
<1>18. ASSUME NEW u \in Range(q.list) PROVE Due(q1, u) = Due(q, u)
  <2> PICK i \in 1..n : q.list[i] = u
    BY <1>2
  <2>1. Due(q, u) = TimeTo(q, i)
    BY DueIs DEF n
  <2>2. CASE i <= k
    <3>1. i \in 1..k /\ i \in 1..(n + 1) /\ f[i] = TimeTo(q, i)
      BY <1>2, <1>5, <2>2
    <3> HIDE DEF f, q1
    <3> QED BY <1>12, <1>16, <2>1, <3>1
  <2>3. CASE i > k
    <3>1. i \in (k + 1)..n /\ i + 1 \in 1..(n + 1) /\ f[i + 1] = TimeTo(q, i)
      BY <1>2, <1>5, <2>3
    <3> HIDE DEF f, q1
    <3> QED BY <1>12, <1>16, <2>1, <3>1
  <2> QED BY <1>2, <1>5, <2>2, <2>3
<1>19. \A u \in Slots \ (Range(q.list) \cup {s}) : tm2[u] = q.tm[u]
  BY <1>7, <1>9
<1> QED BY <1>1, <1>9, <1>10, <1>11, <1>17, <1>18, <1>19

\* A timer that leaves does not change when the others are due.
LEMMA RemoveFromListSound ==
  ASSUME NEW q \in Queues, IsInjective(q.list), NEW s \in Slots
  PROVE  /\ RemoveFromList(q, s) \in Queues
         /\ IsInjective(RemoveFromList(q, s).list)
         /\ Range(RemoveFromList(q, s).list) = Range(q.list) \ {s}
         /\ \A u \in Slots : Alike(RemoveFromList(q, s).tm[u], q.tm[u])
         /\ \A u \in Slots \ (Range(q.list) \ {s}) : RemoveFromList(q, s).tm[u] = q.tm[u]
         /\ \A u \in Range(q.list) \ {s} : Due(RemoveFromList(q, s), u) = Due(q, u)
<1>1. CASE s \notin Range(q.list)
  <2>1. RemoveFromList(q, s) = q
    BY <1>1 DEF RemoveFromList
  <2>2. \A u \in Slots : Alike(q.tm[u], q.tm[u])
    BY DEF Alike
  <2> QED BY <1>1, <2>1, <2>2
<1>2. CASE s \in Range(q.list)
  <2> DEFINE n == Len(q.list)
             i == CHOOSE j \in 1..Len(q.list) : q.list[j] = s
             p == q.tm[s].relativeTimePending
             tm1 == IF i = n THEN q.tm
                    ELSE [q.tm EXCEPT ![q.list[i + 1]].relativeTimePending = @ + p]
             m == RemoveAt(q.list, i)
             q1 == [list |-> m, tm |-> tm1]
             f == [j \in 0..(n - 1) |-> IF j < i THEN TimeTo(q, j) ELSE TimeTo(q, j + 1)]
  <2>1. RemoveFromList(q, s) = q1
    BY <1>2 DEF RemoveFromList
  <2>2. /\ q.list \in Seq(Slots) /\ n \in Nat /\ DOMAIN q.list = 1..n
        /\ \A j \in 1..n : q.list[j] \in Slots /\ q.list[j] \in Range(q.list)
        /\ \A u \in Range(q.list) : \E j \in 1..n : q.list[j] = u
        /\ q.tm \in [Slots -> TimerObjects]
        /\ Range(q.list) \subseteq Slots
    BY QueueFacts
  <2>3. i \in 1..n /\ q.list[i] = s
    <3>1. \E j \in 1..Len(q.list) : q.list[j] = s
      BY <1>2, <2>2
    <3> QED BY <3>1
  <2>4. p \in Nat /\ Pending(q, s) = p /\ \A u \in Slots : q.tm[u].relativeTimePending \in Nat
    BY QueueFacts DEF Pending
  <2>5. /\ TimeTo(q, 0) = 0
        /\ \A j \in 0..n : TimeTo(q, j) \in Nat
        /\ \A j \in 1..n : TimeTo(q, j) = TimeTo(q, j - 1) + q.tm[q.list[j]].relativeTimePending
    BY TimeToSums
  <2> HIDE DEF n, i
  <2>6. i < n => /\ i + 1 \in 1..n /\ q.list[i + 1] \in Range(q.list) /\ q.list[i + 1] \in Slots
                 /\ q.list[i + 1] # s
    <3> SUFFICES ASSUME i < n
                 PROVE  /\ i + 1 \in 1..n /\ q.list[i + 1] \in Range(q.list)
                        /\ q.list[i + 1] \in Slots /\ q.list[i + 1] # s
      OBVIOUS
    <3>1. i + 1 \in 1..n /\ i + 1 # i
      BY <2>2, <2>3
    <3> QED BY <2>2, <2>3, <3>1 DEF IsInjective
  <2>7. /\ tm1 \in [Slots -> TimerObjects]
        /\ \A u \in Slots : Alike(tm1[u], q.tm[u])
        /\ \A u \in Slots : ~(i < n /\ u = q.list[i + 1]) => tm1[u] = q.tm[u]
        /\ i < n => tm1[q.list[i + 1]].relativeTimePending =
                      q.tm[q.list[i + 1]].relativeTimePending + p
    <3>1. CASE i = n
      <4>1. tm1 = q.tm /\ ~(i < n)
        BY <2>2, <3>1
      <4>2. \A u \in Slots : Alike(q.tm[u], q.tm[u])
        BY DEF Alike
      <4> HIDE DEF tm1
      <4> QED BY <2>2, <4>1, <4>2
    <3>2. CASE i < n
      <4> DEFINE h == q.list[i + 1]
                 d == q.tm[h].relativeTimePending + p
      <4>1. h \in Slots /\ d \in Nat /\ q.tm[h] \in TimerObjects
        <5>1. h \in Slots
          BY <2>6, <3>2
        <5> HIDE DEF h, p
        <5> QED BY <2>2, <2>4, <5>1
      <4>2. tm1 = [q.tm EXCEPT ![h].relativeTimePending = d]
        <5>1. i # n
          BY <2>2, <2>3, <3>2
        <5> QED BY <5>1
      <4> HIDE DEF h, d, tm1
      <4>3. tm1 \in [Slots -> TimerObjects] /\ tm1[h].relativeTimePending = d
            /\ (\A u \in Slots : Alike(tm1[u], q.tm[u]))
            /\ (\A u \in Slots \ {h} : tm1[u] = q.tm[u])
        BY <2>2, <4>1, <4>2 DEF TimerObjects, Alike
      <4> QED BY <3>2, <4>1, <4>3 DEF h, d
    <3>3. i = n \/ i < n
      BY <2>2, <2>3
    <3> HIDE DEF tm1, p
    <3> QED BY <3>1, <3>2, <3>3
  <2> HIDE DEF tm1
  <2>8. m \in Seq(Slots) /\ Removed(m, q.list, i) /\ IsInjective(m)
        /\ Range(m) = Range(q.list) \ {s}
    <3>1. i \in 1..Len(q.list)
      BY <2>3 DEF n
    <3> QED BY <2>2, <2>3, <3>1, RemoveAtLemma, RemoveSound
  <2> HIDE DEF m
  <2>9. q1 \in Queues
    BY <2>7, <2>8 DEF Queues
  <2>10. Len(m) = n - 1
         /\ (\A j \in 1..(i - 1) : m[j] = q.list[j])
         /\ (\A j \in i..(n - 1) : m[j] = q.list[j + 1])
    BY <2>8 DEF Removed, n
  <2>11. ASSUME NEW j \in 1..(n - 1) PROVE f[j] = f[j - 1] + tm1[m[j]].relativeTimePending
    <3>1. CASE j < i
      <4>1. j \in 1..n /\ j \in 1..(i - 1) /\ j - 1 < i /\ j - 1 \in 0..(n - 1) /\ j \in 0..(n - 1)
        BY <2>2, <2>3, <3>1
      <4>2. m[j] = q.list[j] /\ q.list[j] \in Slots
        BY <2>2, <2>10, <4>1
      <4>3. ~(i < n /\ q.list[j] = q.list[i + 1])
        <5>1. i < n => i + 1 \in 1..n /\ i + 1 # j
          BY <2>2, <2>3, <3>1
        <5> QED BY <2>2, <4>1, <5>1 DEF IsInjective
      <4>4. tm1[m[j]] = q.tm[q.list[j]]
        BY <2>7, <4>2, <4>3
      <4>5. f[j] = TimeTo(q, j) /\ f[j - 1] = TimeTo(q, j - 1)
        BY <3>1, <4>1
      <4> QED BY <2>5, <4>1, <4>4, <4>5
    <3>2. CASE j = i
      <4>1. i < n /\ i \in i..(n - 1) /\ i \in 1..n /\ i + 1 \in 1..n /\ (i + 1) - 1 = i
            /\ i \in 0..(n - 1) /\ i - 1 \in 0..(n - 1) /\ i - 1 < i /\ i - 1 \in 0..n
        <5>0. j <= n - 1 /\ n \in Nat /\ i \in 1..n
          BY <2>2, <2>3
        <5>1. i \in Nat /\ n \in Nat /\ 1 <= i /\ i + 1 <= n
          BY <3>2, <5>0
        <5> QED BY <5>1
      <4>2. m[j] = q.list[i + 1]
        BY <2>10, <3>2, <4>1
      <4>3. tm1[m[j]].relativeTimePending = q.tm[q.list[i + 1]].relativeTimePending + p
        BY <2>7, <4>1, <4>2
      <4>4. f[j] = TimeTo(q, i + 1) /\ f[j - 1] = TimeTo(q, i - 1)
        <5>1. ~(i < i)
          BY <2>3
        <5> QED BY <3>2, <4>1, <5>1
      <4>5. TimeTo(q, i + 1) = TimeTo(q, i) + q.tm[q.list[i + 1]].relativeTimePending
        BY <2>5, <4>1
      <4>6. TimeTo(q, i) = TimeTo(q, i - 1) + p
        BY <2>3, <2>5, <4>1
      <4>7. TimeTo(q, i - 1) \in Nat /\ q.tm[q.list[i + 1]].relativeTimePending \in Nat
        BY <2>2, <2>4, <2>5, <4>1
      <4> HIDE DEF p, f
      <4> QED BY <2>4, <4>3, <4>4, <4>5, <4>6, <4>7
    <3>3. CASE j > i
      <4>1. j \in i..(n - 1) /\ j + 1 \in 1..n /\ (j + 1) - 1 = j /\ (j - 1) + 1 = j
            /\ ~(j < i) /\ ~(j - 1 < i) /\ j \in 0..(n - 1) /\ j - 1 \in 0..(n - 1)
        BY <2>2, <2>3, <3>3
      <4>2. m[j] = q.list[j + 1] /\ q.list[j + 1] \in Slots
        BY <2>2, <2>10, <4>1
      <4>3. ~(i < n /\ q.list[j + 1] = q.list[i + 1])
        <5>1. i < n => i + 1 \in 1..n /\ i + 1 # j + 1
          BY <2>2, <2>3, <3>3
        <5> QED BY <2>2, <4>1, <5>1 DEF IsInjective
      <4>4. tm1[m[j]] = q.tm[q.list[j + 1]]
        BY <2>7, <4>2, <4>3
      <4>5. f[j] = TimeTo(q, j + 1) /\ f[j - 1] = TimeTo(q, j)
        BY <4>1
      <4>6. TimeTo(q, j + 1) = TimeTo(q, j) + q.tm[q.list[j + 1]].relativeTimePending
        BY <2>5, <4>1
      <4> QED BY <4>4, <4>5, <4>6
    <3> QED BY <2>2, <2>3, <3>1, <3>2, <3>3
  <2>12. Sums(q1, n - 1, f)
    <3>1. f[0] = 0
      <4>1. 0 \in 0..(n - 1) /\ 0 < i
        BY <2>2, <2>3
      <4> QED BY <2>5, <4>1
    <3> HIDE DEF f
    <3> QED BY <2>11, <3>1 DEF Sums
  <2>13. \A j \in 1..(n - 1) : TimeTo(q1, j) = f[j]
    <3> SUFFICES ASSUME NEW j \in 1..(n - 1) PROVE TimeTo(q1, j) = f[j]
      OBVIOUS
    <3>1. j \in 0..(n - 1) /\ n - 1 \in Nat
      BY <2>2
    <3> HIDE DEF f, q1
    <3> QED BY <2>12, <3>1, TimeToIs
  <2>14. \A j \in 1..(n - 1) : Due(q1, m[j]) = f[j]
    <3>1. q1.list = m /\ IsInjective(q1.list) /\ Len(q1.list) = n - 1
      BY <2>8, <2>10
    <3> HIDE DEF f, q1
    <3> QED BY <2>9, <2>13, <3>1, DueIs
  <2>15. ASSUME NEW u \in Range(q.list) \ {s} PROVE Due(q1, u) = Due(q, u)
    <3> PICK j \in 1..n : q.list[j] = u
      BY <2>2
    <3>1. Due(q, u) = TimeTo(q, j) /\ j # i
      BY <2>3, DueIs DEF n
    <3>2. CASE j < i
      <4>1. j \in 1..(i - 1) /\ j \in 1..(n - 1) /\ f[j] = TimeTo(q, j)
        BY <2>2, <2>3, <3>2
      <4> HIDE DEF f, q1
      <4> QED BY <2>10, <2>14, <3>1, <4>1
    <3>3. CASE j > i
      <4>1. j - 1 \in i..(n - 1) /\ j - 1 \in 1..(n - 1) /\ j - 1 \in 0..(n - 1)
            /\ (j - 1) + 1 = j /\ ~(j - 1 < i)
        BY <2>2, <2>3, <3>3
      <4>2. f[j - 1] = TimeTo(q, j)
        BY <4>1
      <4>3. m[j - 1] = u
        BY <2>10, <4>1
      <4> HIDE DEF f, q1
      <4> QED BY <2>14, <3>1, <4>1, <4>2, <4>3
    <3> QED BY <2>2, <2>3, <3>1, <3>2, <3>3
  <2>16. \A u \in Slots \ (Range(q.list) \ {s}) : tm1[u] = q.tm[u]
    BY <2>6, <2>7
  <2> QED BY <2>1, <2>7, <2>8, <2>9, <2>15, <2>16
<1> QED BY <1>1, <1>2

LEMMA MinIs ==
  ASSUME NEW a \in Int, NEW b \in Int
  PROVE  Min({a, b}) = IF a <= b THEN a ELSE b
<1> DEFINE m == IF a <= b THEN a ELSE b
<1>1. m \in {a, b} /\ \A y \in {a, b} : m <= y
  OBVIOUS
<1>2. \A x \in {a, b} : (\A y \in {a, b} : x <= y) => x = m
  OBVIOUS
<1> HIDE DEF m
<1>3. Min({a, b}) = m
  BY <1>1, <1>2 DEF Min
<1> QED BY <1>3 DEF m

LEMMA MaxIs ==
  ASSUME NEW a \in Int, NEW b \in Int
  PROVE  Max({a, b}) = IF a >= b THEN a ELSE b
<1> DEFINE m == IF a >= b THEN a ELSE b
<1>1. m \in {a, b} /\ \A y \in {a, b} : m >= y
  OBVIOUS
<1>2. \A x \in {a, b} : (\A y \in {a, b} : x >= y) => x = m
  OBVIOUS
<1> HIDE DEF m
<1>3. Max({a, b}) = m
  BY <1>1, <1>2 DEF Max
<1> QED BY <1>3 DEF m

Less(m, n) == IF m > n THEN m - n ELSE 0

\* Every timer of the list is due earlier by the time that has elapsed.
LEMMA UpdateTimerListSound ==
  ASSUME NEW q \in Queues, IsInjective(q.list), NEW e \in Nat
  PROVE  /\ UpdateTimerList(q, e) \in Queues
         /\ UpdateTimerList(q, e).list = q.list
         /\ \A u \in Slots : Alike(UpdateTimerList(q, e).tm[u], q.tm[u])
         /\ \A u \in Slots \ Range(q.list) : UpdateTimerList(q, e).tm[u] = q.tm[u]
         /\ \A u \in Range(q.list) : Due(UpdateTimerList(q, e), u) = Less(Due(q, u), e)
<1> DEFINE n == Len(q.list)
           P(i) == q.tm[q.list[i]].relativeTimePending
           Taken(i) == Min({P(i), Max({0, e - TimeTo(q, i - 1)})})
           Place(s) == CHOOSE j \in 1..Len(q.list) : q.list[j] = s
           New(s) == IF s \in Range(q.list)
                     THEN [q.tm[s] EXCEPT !.relativeTimePending = @ - Taken(Place(s))]
                     ELSE q.tm[s]
           tm1 == [s \in Slots |-> New(s)]
           q1 == [q EXCEPT !.tm = tm1]
           f == [j \in 0..n |-> Less(TimeTo(q, j), e)]
<1>1. UpdateTimerList(q, e) = q1
  BY DEF UpdateTimerList
<1>2. /\ q.list \in Seq(Slots) /\ n \in Nat /\ DOMAIN q.list = 1..n
      /\ \A j \in 1..n : q.list[j] \in Slots /\ q.list[j] \in Range(q.list)
      /\ \A u \in Range(q.list) : \E j \in 1..n : q.list[j] = u
      /\ q.tm \in [Slots -> TimerObjects]
      /\ Range(q.list) \subseteq Slots
  BY QueueFacts
<1>3. \A u \in Slots : q.tm[u].relativeTimePending \in Nat
  BY QueueFacts DEF Pending
<1>4. /\ TimeTo(q, 0) = 0
      /\ \A j \in 0..n : TimeTo(q, j) \in Nat
      /\ \A j \in 1..n : TimeTo(q, j) = TimeTo(q, j - 1) + P(j)
  BY TimeToSums
<1>5. \A j \in 1..n : Place(q.list[j]) = j
  <2> SUFFICES ASSUME NEW j \in 1..n PROVE Place(q.list[j]) = j
    OBVIOUS
  <2>1. \A k \in 1..n : q.list[k] = q.list[j] => k = j
    BY <1>2 DEF IsInjective
  <2> QED BY <2>1
<1>6. q1.list = q.list /\ q1.tm = tm1
  BY DEF Queues
<1>7. tm1 \in [Slots -> TimerObjects] => q1 \in Queues
  <2> HIDE DEF tm1
  <2> QED BY DEF Queues
<1> HIDE DEF n, q1, Place
<1>8. \A i \in 1..n : P(i) \in Nat /\ TimeTo(q, i - 1) \in Nat
  <2> SUFFICES ASSUME NEW i \in 1..n PROVE P(i) \in Nat /\ TimeTo(q, i - 1) \in Nat
    OBVIOUS
  <2>1. i - 1 \in 0..n
    BY <1>2
  <2> QED BY <1>2, <1>3, <1>4, <2>1
<1>9. \A i \in 1..n : Taken(i) \in 0..P(i)
                      /\ P(i) - Taken(i) = Less(TimeTo(q, i), e) - Less(TimeTo(q, i - 1), e)
  <2> SUFFICES ASSUME NEW i \in 1..n
               PROVE  Taken(i) \in 0..P(i)
                      /\ P(i) - Taken(i) = Less(TimeTo(q, i), e) - Less(TimeTo(q, i - 1), e)
    OBVIOUS
  <2> DEFINE t == TimeTo(q, i - 1)
             p == P(i)
             x == Max({0, e - t})
  <2>1. t \in Nat /\ p \in Nat /\ TimeTo(q, i) = t + p
    BY <1>4, <1>8
  <2> HIDE DEF t, p
  <2>2. x = IF 0 >= e - t THEN 0 ELSE e - t
    BY <2>1, MaxIs
  <2> HIDE DEF x
  <2>3. x \in Int
    BY <2>1, <2>2
  <2>4. Min({p, x}) = IF p <= x THEN p ELSE x
    BY <2>1, <2>3, MinIs
  <2>5. Taken(i) = IF p <= x THEN p ELSE x
    BY <2>4 DEF p, x, t
  <2>6. Taken(i) \in 0..p /\ p - Taken(i) = Less(t + p, e) - Less(t, e)
    <3> HIDE DEF Taken
    <3> QED BY <2>1, <2>2, <2>5 DEF Less
  <2> QED BY <2>1, <2>6 DEF p, t
<1> HIDE DEF Taken
<1>10. ASSUME NEW u \in Slots
       PROVE  New(u) \in TimerObjects /\ Alike(New(u), q.tm[u])
  <2>1. CASE u \notin Range(q.list)
    BY <1>2, <2>1 DEF Alike
  <2>2. CASE u \in Range(q.list)
    <3> PICK i \in 1..n : q.list[i] = u
      BY <1>2, <2>2
    <3> DEFINE d == q.tm[u].relativeTimePending - Taken(i)
    <3>1. Place(u) = i
      BY <1>5
    <3>2. d \in Nat
      BY <1>8, <1>9
    <3>3. New(u) = [q.tm[u] EXCEPT !.relativeTimePending = d]
      BY <2>2, <3>1
    <3>4. q.tm[u] \in TimerObjects
      BY <1>2
    <3> HIDE DEF d, New
    <3> QED BY <3>2, <3>3, <3>4 DEF TimerObjects, Alike
  <2> QED BY <2>1, <2>2
<1>11. tm1 \in [Slots -> TimerObjects]
  <2> HIDE DEF New
  <2> QED BY <1>10
<1>12. q1 \in Queues
  BY <1>7, <1>11
<1>13. \A i \in 1..n : q1.tm[q1.list[i]].relativeTimePending = P(i) - Taken(i)
  <2> SUFFICES ASSUME NEW i \in 1..n
               PROVE  q1.tm[q1.list[i]].relativeTimePending = P(i) - Taken(i)
    OBVIOUS
  <2>1. q.list[i] \in Slots /\ q.list[i] \in Range(q.list) /\ q.tm[q.list[i]] \in TimerObjects
    BY <1>2
  <2>2. q1.tm[q1.list[i]] = New(q.list[i])
    <3> HIDE DEF New
    <3> QED BY <1>6, <2>1
  <2>3. New(q.list[i]) = [q.tm[q.list[i]] EXCEPT !.relativeTimePending = P(i) - Taken(i)]
    BY <1>5, <2>1
  <2> HIDE DEF New
  <2> QED BY <2>1, <2>2, <2>3 DEF TimerObjects
<1>14. Sums(q1, n, f)
  <2>1. f[0] = 0
    BY <1>2, <1>4 DEF Less
  <2>2. ASSUME NEW j \in 1..n PROVE f[j] = f[j - 1] + q1.tm[q1.list[j]].relativeTimePending
    <3>1. j - 1 \in 0..n /\ j \in 0..n
      BY <1>2
    <3>2. f[j] = Less(TimeTo(q, j), e) /\ f[j - 1] = Less(TimeTo(q, j - 1), e)
      BY <3>1
    <3>3. Less(TimeTo(q, j), e) \in Int /\ Less(TimeTo(q, j - 1), e) \in Int
      BY <1>4, <3>1 DEF Less
    <3> HIDE DEF f, P
    <3> QED BY <1>9, <1>13, <3>2, <3>3
  <2> HIDE DEF f
  <2> QED BY <2>1, <2>2 DEF Sums
<1>15. \A j \in 1..n : TimeTo(q1, j) = f[j]
  <2> SUFFICES ASSUME NEW j \in 1..n PROVE TimeTo(q1, j) = f[j]
    OBVIOUS
  <2>1. j \in 0..n /\ n \in Nat
    BY <1>2
  <2> HIDE DEF f
  <2> QED BY <1>14, <2>1, TimeToIs
<1>16. ASSUME NEW u \in Range(q.list) PROVE Due(q1, u) = Less(Due(q, u), e)
  <2> PICK j \in 1..n : q.list[j] = u
    BY <1>2
  <2>1. Due(q, u) = TimeTo(q, j)
    BY DueIs DEF n
  <2>2. j \in 1..Len(q1.list) /\ IsInjective(q1.list) /\ q1.list[j] = u
    BY <1>6 DEF n
  <2>3. Due(q1, u) = TimeTo(q1, j)
    BY <1>12, <2>2, DueIs
  <2>4. f[j] = Less(TimeTo(q, j), e)
    BY <1>2
  <2> HIDE DEF f
  <2> QED BY <1>15, <2>1, <2>3, <2>4
<1>17. \A u \in Slots : tm1[u] = New(u)
  <2> HIDE DEF New
  <2> QED OBVIOUS
<1>18. \A u \in Slots \ Range(q.list) : tm1[u] = q.tm[u]
  BY <1>17
<1>19. \A u \in Slots : Alike(tm1[u], q.tm[u])
  <2> HIDE DEF New, tm1
  <2> QED BY <1>10, <1>17
<1> HIDE DEF tm1
<1> QED BY <1>1, <1>6, <1>12, <1>16, <1>18, <1>19

\* The head of the list is due first.
LEMMA HeadIsFirst ==
  ASSUME NEW q \in Queues, IsInjective(q.list), q.list # <<>>
  PROVE  /\ Head(q.list) \in Range(q.list) /\ Head(q.list) = q.list[1]
         /\ Due(q, Head(q.list)) = Pending(q, Head(q.list))
         /\ \A u \in Range(q.list) : Due(q, u) \in Nat /\ Due(q, Head(q.list)) <= Due(q, u)
<1> DEFINE n == Len(q.list)
<1>1. /\ q.list \in Seq(Slots) /\ n \in Nat
      /\ \A i \in 1..n : q.list[i] \in Slots /\ q.list[i] \in Range(q.list)
      /\ \A u \in Range(q.list) : \E i \in 1..n : q.list[i] = u
  BY QueueFacts
<1>2. 1 \in 1..n /\ Head(q.list) = q.list[1]
  <2>1. n # 0
    BY <1>1, EmptySeq
  <2> QED BY <1>1, <2>1, HeadTailProperties
<1>3. /\ TimeTo(q, 0) = 0
      /\ \A i \in 0..n : TimeTo(q, i) \in Nat
      /\ TimeTo(q, 1) = TimeTo(q, 1 - 1) + q.tm[q.list[1]].relativeTimePending
  BY <1>2, TimeToSums
<1>4. Due(q, q.list[1]) = TimeTo(q, 1) /\ TimeTo(q, 1) = Pending(q, q.list[1])
  <2>1. Due(q, q.list[1]) = TimeTo(q, 1)
    BY <1>2, DueIs
  <2>2. q.tm[q.list[1]].relativeTimePending \in Nat
    BY <1>1, <1>2, QueueFacts DEF Pending
  <2> QED BY <1>3, <2>1, <2>2 DEF Pending
<1>5. ASSUME NEW u \in Range(q.list) PROVE Due(q, u) \in Nat /\ TimeTo(q, 1) <= Due(q, u)
  <2> PICK i \in 1..n : q.list[i] = u
    BY <1>1
  <2>1. Due(q, u) = TimeTo(q, i)
    BY DueIs
  <2>2. i \in 0..n /\ 1 \in 0..n /\ 1 <= i
    BY <1>1, <1>2
  <2>3. TimeTo(q, 1) <= TimeTo(q, i)
    BY <2>2, TimeToGrows
  <2> QED BY <1>3, <2>1, <2>2, <2>3
<1> QED BY <1>1, <1>2, <1>4, <1>5

-------------------------------------------------------------------------------
(* The timer objects.                                                        *)

\* A free object is blank; a timer that is not running waits with the whole of
\* its time; one whose end the interrupt has seen is not yet put back, or is a
\* delay that is over.
ObjectOK(t) ==
  /\ ~t.inUse => t = Free
  /\ t.inUse => t.requestedTime \in Times
  /\ t.tmrElapsed => \/ t.type = "periodic" /\ t.active
                     \/ t.type = "delay" /\ ~t.active
  /\ t.type = "delay" /\ t.tmrElapsedFlag => ~t.active
  /\ t.inUse /\ ~t.active /\ t.type # "delay" => t.relativeTimePending = t.requestedTime

Runs(t) == t.active /\ ~t.tmrElapsed

\* A queue between two calls: the running timers are in its list.
Good(q) ==
  /\ q \in Queues /\ IsInjective(q.list)
  /\ Range(q.list) = {u \in Slots : Runs(q.tm[u])}
  /\ \A u \in Slots : ObjectOK(q.tm[u])
  /\ \A u \in Range(q.list) : Due(q, u) <= SinceMax

\* One into which timer s is about to be put.
Ready(q, s) ==
  /\ q \in Queues /\ IsInjective(q.list)
  /\ s \in Slots /\ Runs(q.tm[s])
  /\ Range(q.list) = {u \in Slots : Runs(q.tm[u])} \ {s}
  /\ \A u \in Slots : ObjectOK(q.tm[u])
  /\ Pending(q, s) <= SinceMax
  /\ \A u \in Range(q.list) : Due(q, u) <= SinceMax

LEMMA AlikeKeeps ==
  ASSUME NEW t, NEW u, Alike(t, u), ObjectOK(u), u.active \/ t = u
  PROVE  ObjectOK(t) /\ (Runs(t) <=> Runs(u))
<1>1. CASE t = u
  BY <1>1
<1>2. CASE u.active
  <2>1. u.inUse
    BY <1>2 DEF ObjectOK, Free
  <2> QED BY <1>2, <2>1 DEF ObjectOK, Alike, Runs
<1> QED BY <1>1, <1>2

LEMMA AddKeeps ==
  ASSUME NEW q, NEW s, Ready(q, s)
  PROVE  Good(AddToList(q, s))
<1> DEFINE q1 == AddToList(q, s)
<1>1. /\ q \in Queues /\ IsInjective(q.list) /\ s \in Slots /\ s \notin Range(q.list)
      /\ Runs(q.tm[s]) /\ Range(q.list) = {u \in Slots : Runs(q.tm[u])} \ {s}
      /\ \A u \in Slots : ObjectOK(q.tm[u])
  BY DEF Ready
<1>2. /\ q1 \in Queues /\ IsInjective(q1.list)
      /\ Range(q1.list) = Range(q.list) \cup {s}
      /\ \A u \in Slots : Alike(q1.tm[u], q.tm[u])
      /\ \A u \in Slots \ (Range(q.list) \cup {s}) : q1.tm[u] = q.tm[u]
      /\ Due(q1, s) = Pending(q, s)
      /\ \A u \in Range(q.list) : Due(q1, u) = Due(q, u)
  BY <1>1, AddToListSound
<1> HIDE DEF q1
<1>3. ASSUME NEW u \in Slots PROVE ObjectOK(q1.tm[u]) /\ (Runs(q1.tm[u]) <=> Runs(q.tm[u]))
  <2>1. q.tm[u].active \/ q1.tm[u] = q.tm[u]
    BY <1>1, <1>2 DEF Runs
  <2> QED BY <1>1, <1>2, <2>1, AlikeKeeps
<1>4. Range(q1.list) = {u \in Slots : Runs(q1.tm[u])}
  BY <1>1, <1>2, <1>3
<1>5. \A u \in Range(q1.list) : Due(q1, u) <= SinceMax
  BY <1>2 DEF Ready
<1> QED BY <1>2, <1>3, <1>4, <1>5 DEF q1, Good

LEMMA UpdateKeeps ==
  ASSUME NEW q, NEW e \in Nat
  PROVE  /\ \A s : Ready(q, s) => Ready(UpdateTimerList(q, e), s)
         /\ Good(q) => Good(UpdateTimerList(q, e))
<1> SUFFICES ASSUME q \in Queues /\ IsInjective(q.list),
                    \A u \in Slots : ObjectOK(q.tm[u]),
                    \A u \in Range(q.list) : u \in Slots /\ q.tm[u].active /\ Due(q, u) <= SinceMax
             PROVE  /\ \A s : Ready(q, s) => Ready(UpdateTimerList(q, e), s)
                    /\ Good(q) => Good(UpdateTimerList(q, e))
  BY DEF Ready, Good, Runs
<1> DEFINE q1 == UpdateTimerList(q, e)
<1>1. /\ q1 \in Queues /\ q1.list = q.list
      /\ \A u \in Slots : Alike(q1.tm[u], q.tm[u])
      /\ \A u \in Slots \ Range(q.list) : q1.tm[u] = q.tm[u]
      /\ \A u \in Range(q.list) : Due(q1, u) = Less(Due(q, u), e)
  BY UpdateTimerListSound
<1> HIDE DEF q1
<1>2. \A u \in Slots : ObjectOK(q1.tm[u]) /\ (Runs(q1.tm[u]) <=> Runs(q.tm[u]))
  <2> SUFFICES ASSUME NEW u \in Slots
               PROVE  ObjectOK(q1.tm[u]) /\ (Runs(q1.tm[u]) <=> Runs(q.tm[u]))
    OBVIOUS
  <2> QED BY <1>1, AlikeKeeps
<1>3. ASSUME NEW u \in Range(q1.list) PROVE Due(q1, u) <= SinceMax
  <2>1. Due(q, u) <= SinceMax /\ Due(q1, u) = Less(Due(q, u), e)
    BY <1>1
  <2>2. Due(q, u) \in Nat
    BY <1>1, DueNat
  <2> QED BY <2>1, <2>2, SinceAssumption DEF Less
<1>4. ASSUME NEW s, Ready(q, s) PROVE Ready(q1, s)
  <2>1. s \in Slots /\ q1.tm[s] = q.tm[s] /\ Pending(q1, s) = Pending(q, s)
    BY <1>1, <1>4 DEF Ready, Pending
  <2>2. Range(q1.list) = {u \in Slots : Runs(q1.tm[u])} \ {s}
    BY <1>1, <1>2, <1>4 DEF Ready
  <2> QED BY <1>1, <1>2, <1>3, <1>4, <2>1, <2>2 DEF Ready
<1>5. ASSUME Good(q) PROVE Good(q1)
  <2>1. Range(q1.list) = {u \in Slots : Runs(q1.tm[u])}
    BY <1>1, <1>2, <1>5 DEF Good
  <2> QED BY <1>1, <1>2, <1>3, <1>5, <2>1 DEF Good
<1> QED BY <1>4, <1>5 DEF q1

\* Timer s has left the list, and its object is changed to t.
LEMMA OutSound ==
  ASSUME NEW q \in Queues, IsInjective(q.list), NEW s \in Slots, NEW t \in TimerObjects
  PROVE  LET q1 == [RemoveFromList(q, s) EXCEPT !.tm[s] = t]
         IN /\ q1 \in Queues /\ IsInjective(q1.list)
            /\ q1.list = RemoveFromList(q, s).list
            /\ Range(q1.list) = Range(q.list) \ {s}
            /\ q1.tm[s] = t
            /\ \A u \in Slots \ {s} : Alike(q1.tm[u], q.tm[u])
            /\ \A u \in Slots \ (Range(q.list) \cup {s}) : q1.tm[u] = q.tm[u]
            /\ \A u \in Range(q.list) \ {s} : Due(q1, u) = Due(q, u)
<1> DEFINE q0 == RemoveFromList(q, s)
           q1 == [q0 EXCEPT !.tm[s] = t]
<1>1. /\ q0 \in Queues /\ IsInjective(q0.list)
      /\ Range(q0.list) = Range(q.list) \ {s}
      /\ \A u \in Slots : Alike(q0.tm[u], q.tm[u])
      /\ \A u \in Slots \ (Range(q.list) \ {s}) : q0.tm[u] = q.tm[u]
      /\ \A u \in Range(q.list) \ {s} : Due(q0, u) = Due(q, u)
  BY RemoveFromListSound
<1> HIDE DEF q0
<1>2. /\ q1 \in Queues /\ q1.list = q0.list /\ q1.tm[s] = t
      /\ \A u \in Slots \ {s} : q1.tm[u] = q0.tm[u]
  BY <1>1 DEF Queues
<1> HIDE DEF q1
<1>3. \A u \in Range(q0.list) : Due(q1, u) = Due(q0, u)
  <2>1. \A u \in Range(q0.list) : q1.tm[u] = q0.tm[u]
    BY <1>1, <1>2, QueueFacts
  <2> QED BY <1>1, <1>2, <2>1, DueElsewhere
<1> QED BY <1>1, <1>2, <1>3 DEF q0, q1

LEMMA OutKeeps ==
  ASSUME NEW q, Good(q), NEW s \in Slots, NEW t \in TimerObjects, ObjectOK(t)
  PROVE  LET q1 == [RemoveFromList(q, s) EXCEPT !.tm[s] = t]
         IN /\ ~Runs(t) => Good(q1)
            /\ Runs(t) /\ t.relativeTimePending <= SinceMax => Ready(q1, s)
<1> DEFINE q1 == [RemoveFromList(q, s) EXCEPT !.tm[s] = t]
<1>1. /\ q \in Queues /\ IsInjective(q.list)
      /\ Range(q.list) = {u \in Slots : Runs(q.tm[u])}
      /\ \A u \in Slots : ObjectOK(q.tm[u])
      /\ \A u \in Range(q.list) : Due(q, u) <= SinceMax
  BY DEF Good
<1>2. /\ q1 \in Queues /\ IsInjective(q1.list)
      /\ Range(q1.list) = Range(q.list) \ {s}
      /\ q1.tm[s] = t
      /\ \A u \in Slots \ {s} : Alike(q1.tm[u], q.tm[u])
      /\ \A u \in Slots \ (Range(q.list) \cup {s}) : q1.tm[u] = q.tm[u]
      /\ \A u \in Range(q.list) \ {s} : Due(q1, u) = Due(q, u)
  BY <1>1, OutSound
<1> HIDE DEF q1
<1>3. \A u \in Slots \ {s} : ObjectOK(q1.tm[u]) /\ (Runs(q1.tm[u]) <=> Runs(q.tm[u]))
  <2> SUFFICES ASSUME NEW u \in Slots \ {s}
               PROVE  ObjectOK(q1.tm[u]) /\ (Runs(q1.tm[u]) <=> Runs(q.tm[u]))
    OBVIOUS
  <2>1. q.tm[u].active \/ q1.tm[u] = q.tm[u]
    BY <1>1, <1>2 DEF Runs
  <2> QED BY <1>1, <1>2, <2>1, AlikeKeeps
<1>4. \A u \in Range(q1.list) : Due(q1, u) <= SinceMax
  BY <1>1, <1>2
<1>5. \A u \in Slots : ObjectOK(q1.tm[u])
  BY <1>2, <1>3
<1>6. Range(q1.list) = {u \in Slots : Runs(q1.tm[u])} \ {s}
  BY <1>1, <1>2, <1>3
<1>7. ~Runs(t) => Good(q1)
  BY <1>2, <1>4, <1>5, <1>6 DEF Good
<1>8. Runs(t) /\ t.relativeTimePending <= SinceMax => Ready(q1, s)
  BY <1>2, <1>4, <1>5, <1>6 DEF Ready, Pending
<1> QED BY <1>7, <1>8 DEF q1

\* The loop of UpdateTime, unrolled.
LEMMA ReinsertedSteps ==
  ASSUME NEW q
  PROVE  \E f : /\ f[0] = q /\ Reinserted(q) = f[NumTimers]
                /\ \A s \in Slots : f[s] = Reinsert(f[s - 1], s)
<1> DEFINE E(h, s) == IF s = 0 THEN q ELSE Reinsert(h[s - 1], s)
           after == CHOOSE h : h = [s \in 0..NumTimers |-> E(h, s)]
           U(k) == \E f : f[0] = q /\ \A s \in 1..k : f[s] = Reinsert(f[s - 1], s)
           K == {k \in Nat : U(k)}
<1>1. Reinserted(q) = after[NumTimers]
  BY DEF Reinserted
<1>2. NumTimers \in Nat
  BY NumbersAssumption
<1>3. 0 \in K
  <2> DEFINE f == [s \in 0..0 |-> q]
  <2>1. f[0] = q /\ \A s \in 1..0 : f[s] = Reinsert(f[s - 1], s)
    OBVIOUS
  <2> HIDE DEF f
  <2> QED BY <2>1
<1>4. ASSUME NEW k \in Nat, k \in K PROVE k + 1 \in K
  <2> PICK f : f[0] = q /\ \A s \in 1..k : f[s] = Reinsert(f[s - 1], s)
    BY <1>4
  <2> DEFINE g == [s \in 0..(k + 1) |-> IF s <= k THEN f[s] ELSE Reinsert(f[k], k + 1)]
  <2>1. g[0] = q
    OBVIOUS
  <2>2. ASSUME NEW s \in 1..(k + 1) PROVE g[s] = Reinsert(g[s - 1], s)
    <3>1. CASE s <= k
      <4>1. s \in 1..k /\ s \in 0..(k + 1) /\ s - 1 \in 0..(k + 1) /\ s - 1 <= k
        BY <3>1
      <4> QED BY <3>1, <4>1
    <3>2. CASE s = k + 1
      <4>1. s \in 0..(k + 1) /\ s - 1 = k /\ s - 1 \in 0..(k + 1) /\ ~(s <= k)
        BY <3>2
      <4>2. g[s] = Reinsert(f[k], k + 1) /\ g[s - 1] = f[k]
        BY <4>1
      <4> HIDE DEF g
      <4> QED BY <3>2, <4>2
    <3> QED BY <3>1, <3>2
  <2> HIDE DEF g
  <2> QED BY <2>1, <2>2
<1>5. U(NumTimers)
  <2>1. NumTimers \in K
    <3> HIDE DEF K
    <3> QED BY <1>2, <1>3, <1>4, Induction
  <2> QED BY <2>1
<1>6. PICK f : f[0] = q /\ \A s \in Slots : f[s] = Reinsert(f[s - 1], s)
  BY <1>5 DEF Slots
<1> DEFINE g == [s \in 0..NumTimers |-> f[s]]
<1>7. g = [s \in 0..NumTimers |-> E(g, s)]
  <2>1. ASSUME NEW s \in 0..NumTimers PROVE g[s] = E(g, s)
    <3>1. CASE s = 0
      BY <1>6, <3>1
    <3>2. CASE s \in Slots
      <4>1. s # 0 /\ s - 1 \in 0..NumTimers
        BY <1>2, <3>2 DEF Slots
      <4> QED BY <1>6, <3>2, <4>1
    <3> QED BY <1>2, <3>1, <3>2 DEF Slots
  <2>2. \A s \in 0..NumTimers : g[s] = E(g, s)
    BY <2>1
  <2>3. g = [s \in 0..NumTimers |-> g[s]]
    OBVIOUS
  <2> HIDE DEF g, E
  <2> QED BY <2>2, <2>3
<1>8. after = [s \in 0..NumTimers |-> E(after, s)]
  <2> HIDE DEF g, E
  <2> QED BY <1>7
<1>9. \A s \in 0..NumTimers : after[s] = E(after, s)
  <2> HIDE DEF E, after
  <2> QED BY <1>8
<1> HIDE DEF after
<1>10. after[0] = q /\ \A s \in Slots : after[s] = Reinsert(after[s - 1], s)
  <2>1. 0 \in 0..NumTimers /\ \A s \in Slots : s \in 0..NumTimers /\ s # 0
    BY <1>2 DEF Slots
  <2> QED BY <1>9, <2>1
<1> QED BY <1>1, <1>10

\* The fields the loop of UpdateTime does not touch.
AlikeBut(t, u) ==
  /\ t.inUse = u.inUse /\ t.active = u.active /\ t.tmrElapsedFlag = u.tmrElapsedFlag
  /\ t.type = u.type

\* The first k timers have been looked at.
Back(q, q1, k) ==
  /\ Good(q1)
  /\ \A u \in Slots : AlikeBut(q1.tm[u], q.tm[u])
  /\ \A u \in Slots : u <= k => ~q1.tm[u].tmrElapsed
  /\ Range(q.list) \subseteq Range(q1.list)
  /\ \A u \in Range(q.list) : Due(q1, u) = Due(q, u)
  /\ \A u \in Range(q1.list) \ Range(q.list) : Due(q1, u) \in Times

LEMMA ReinsertKeeps ==
  ASSUME NEW q, NEW q1, NEW s \in Slots, Back(q, q1, s - 1)
  PROVE  Back(q, Reinsert(q1, s), s)
<1> DEFINE t == q1.tm[s]
<1>1. /\ Good(q1) /\ q1 \in Queues /\ IsInjective(q1.list)
      /\ Range(q1.list) = {u \in Slots : Runs(q1.tm[u])}
      /\ ObjectOK(t) /\ t \in TimerObjects
      /\ s \in Nat /\ \A u \in Slots : u \in Nat
      /\ \A u \in Slots : u <= s - 1 => ~q1.tm[u].tmrElapsed
  BY QueueFacts DEF Back, Good, Slots
<1>2. CASE ~t.tmrElapsed
  <2>1. Reinsert(q1, s) = q1
    BY <1>2 DEF Reinsert
  <2>2. \A u \in Slots : u <= s => ~q1.tm[u].tmrElapsed
    <3> SUFFICES ASSUME NEW u \in Slots, u <= s PROVE ~q1.tm[u].tmrElapsed
      OBVIOUS
    <3>1. u <= s - 1 \/ u = s
      BY <1>1
    <3> QED BY <1>1, <1>2, <3>1
  <2> QED BY <2>1, <2>2 DEF Back
<1>3. CASE t.tmrElapsed
  <2>1. s \notin Range(q1.list) /\ RemoveFromList(q1, s) = q1
    BY <1>1, <1>3 DEF Runs, RemoveFromList
  <2> DEFINE t2 == [t EXCEPT !.tmrElapsed = FALSE]
             q2 == [q1 EXCEPT !.tm[s] = t2]
             t3 == [t2 EXCEPT !.relativeTimePending = t.requestedTime]
             q3 == [q1 EXCEPT !.tm[s] = t3]
  <2>2. t2 \in TimerObjects /\ t2.type = t.type /\ t2.requestedTime = t.requestedTime
        /\ t2.active = t.active /\ AlikeBut(t2, t) /\ ~t2.tmrElapsed
    BY <1>1 DEF TimerObjects, AlikeBut
  <2>3. CASE t.type # "periodic"
    <3>1. Reinsert(q1, s) = q2
      <4>1. [q1 EXCEPT !.tm[s].tmrElapsed = FALSE] = q2
        OBVIOUS
      <4>2. q2.tm[s] = t2
        BY <1>1 DEF Queues
      <4> HIDE DEF q2
      <4> QED BY <1>3, <2>2, <2>3, <4>1, <4>2 DEF Reinsert
    <3>2. ObjectOK(t2) /\ ~Runs(t2)
      BY <1>1, <1>3, <2>3 DEF ObjectOK, Runs, TimerObjects, Free
    <3> HIDE DEF t2
    <3>3. /\ q2 \in Queues /\ IsInjective(q2.list) /\ Good(q2)
          /\ Range(q2.list) = Range(q1.list) \ {s}
          /\ q2.tm[s] = t2
          /\ \A u \in Slots \ {s} : Alike(q2.tm[u], q1.tm[u])
          /\ \A u \in Range(q1.list) \ {s} : Due(q2, u) = Due(q1, u)
      BY <1>1, <2>1, <2>2, <3>2, OutSound, OutKeeps
    <3> HIDE DEF q2
    <3>4. \A u \in Slots : AlikeBut(q2.tm[u], q.tm[u])
      BY <2>2, <3>3 DEF Back, Alike, AlikeBut
    <3>5. \A u \in Slots : u <= s => ~q2.tm[u].tmrElapsed
      <4> SUFFICES ASSUME NEW u \in Slots, u <= s PROVE ~q2.tm[u].tmrElapsed
        OBVIOUS
      <4>1. u <= s - 1 \/ u = s
        BY <1>1
      <4> QED BY <1>1, <2>2, <3>3, <4>1 DEF Alike
    <3> QED BY <2>1, <3>1, <3>3, <3>4, <3>5 DEF Back
  <2>4. CASE t.type = "periodic"
    <3>1. Reinsert(q1, s) = AddToList(q3, s)
      <4>1. [q1 EXCEPT !.tm[s].tmrElapsed = FALSE] = q2
        OBVIOUS
      <4>2. q2.tm[s] = t2
        BY <1>1 DEF Queues
      <4>3. [q2 EXCEPT !.tm[s].relativeTimePending = q2.tm[s].requestedTime] = q3
        <5>1. q2.tm[s].requestedTime = t.requestedTime
          BY <2>2, <4>2
        <5>2. [q2 EXCEPT !.tm[s].relativeTimePending = t.requestedTime] =
                [q2 EXCEPT !.tm = [q2.tm EXCEPT ![s] = t3]]
          BY <4>2
        <5>3. [q2 EXCEPT !.tm = [q2.tm EXCEPT ![s] = t3]] = q3
          BY <1>1 DEF Queues
        <5> QED BY <5>1, <5>2, <5>3
      <4> HIDE DEF q2, q3, t2
      <4> QED BY <1>3, <2>2, <2>4, <4>1, <4>2, <4>3 DEF Reinsert
    <3>2. t.active /\ t.inUse /\ t.requestedTime \in Times /\ t.requestedTime \in Nat
      <4>1. t.active
        BY <1>1, <1>3, <2>4 DEF ObjectOK
      <4>2. t.inUse
        BY <1>1, <4>1 DEF ObjectOK, Free
      <4> QED BY <1>1, <4>1, <4>2, TimesAssumption DEF ObjectOK
    <3>3. t3 \in TimerObjects /\ AlikeBut(t3, t) /\ ~t3.tmrElapsed
          /\ t3.relativeTimePending = t.requestedTime /\ t3.requestedTime = t.requestedTime
      BY <2>2, <3>2 DEF TimerObjects, AlikeBut
    <3>4. ObjectOK(t3) /\ Runs(t3) /\ t3.relativeTimePending <= SinceMax
      <4>1. t.requestedTime <= SinceMax
        BY <3>2, SinceAssumption
      <4> HIDE DEF t3
      <4> QED BY <1>1, <2>4, <3>2, <3>3, <4>1 DEF ObjectOK, Runs, AlikeBut
    <3> HIDE DEF t3
    <3>5. /\ q3 \in Queues /\ IsInjective(q3.list) /\ Ready(q3, s)
          /\ Range(q3.list) = Range(q1.list) \ {s}
          /\ q3.tm[s] = t3
          /\ \A u \in Slots \ {s} : Alike(q3.tm[u], q1.tm[u])
          /\ \A u \in Range(q1.list) \ {s} : Due(q3, u) = Due(q1, u)
      BY <1>1, <2>1, <3>3, <3>4, OutSound, OutKeeps
    <3> HIDE DEF q3
    <3> DEFINE q4 == AddToList(q3, s)
    <3>6. /\ Range(q4.list) = Range(q3.list) \cup {s} /\ Good(q4)
          /\ \A u \in Slots : Alike(q4.tm[u], q3.tm[u])
          /\ Due(q4, s) = Pending(q3, s)
          /\ \A u \in Range(q3.list) : Due(q4, u) = Due(q3, u)
      BY <3>5, AddToListSound, AddKeeps
    <3> HIDE DEF q4
    <3>7. \A u \in Slots : AlikeBut(q4.tm[u], q.tm[u])
      BY <3>3, <3>5, <3>6 DEF Back, Alike, AlikeBut
    <3>8. \A u \in Slots : u <= s => ~q4.tm[u].tmrElapsed
      <4> SUFFICES ASSUME NEW u \in Slots, u <= s PROVE ~q4.tm[u].tmrElapsed
        OBVIOUS
      <4>1. u <= s - 1 \/ u = s
        BY <1>1
      <4> QED BY <1>1, <3>3, <3>5, <3>6, <4>1 DEF Alike
    <3>9. Due(q4, s) \in Times
      BY <3>2, <3>3, <3>5, <3>6 DEF Pending
    <3> QED BY <2>1, <3>1, <3>5, <3>6, <3>7, <3>8, <3>9 DEF Back, q4
  <2> QED BY <2>3, <2>4
<1> QED BY <1>2, <1>3

\* When the interrupt ends, every timer that expired is back or over.
LEMMA ReinsertedKeeps ==
  ASSUME NEW q, Good(q)
  PROVE  Back(q, Reinserted(q), NumTimers)
<1> PICK f : /\ f[0] = q /\ Reinserted(q) = f[NumTimers]
             /\ \A s \in Slots : f[s] = Reinsert(f[s - 1], s)
  BY ReinsertedSteps
<1> DEFINE K == {k \in Nat : k <= NumTimers => Back(q, f[k], k)}
<1>1. NumTimers \in Nat
  BY NumbersAssumption
<1>2. 0 \in K
  <2>1. Back(q, q, 0)
    BY DEF Back, AlikeBut, Slots
  <2> QED BY <2>1
<1>3. ASSUME NEW k \in Nat, k \in K PROVE k + 1 \in K
  <2> SUFFICES ASSUME k + 1 <= NumTimers PROVE Back(q, f[k + 1], k + 1)
    OBVIOUS
  <2>1. k + 1 \in Slots /\ (k + 1) - 1 = k /\ Back(q, f[k], k)
    BY <1>1, <1>3 DEF Slots
  <2>2. f[k + 1] = Reinsert(f[k], k + 1)
    BY <2>1
  <2>3. Back(q, f[k], (k + 1) - 1)
    BY <2>1
  <2> QED BY <2>1, <2>2, <2>3, ReinsertKeeps
<1>4. NumTimers \in K
  <2> HIDE DEF K
  <2> QED BY <1>1, <1>2, <1>3, Induction
<1> QED BY <1>1, <1>4

-------------------------------------------------------------------------------
(* The inductive invariant of the list.                                      *)

\* The timer of a busy-wait is a running or a finished delay, nobody else's; the
\* one a callback waits for is not marked as over.
DelaysSound ==
  /\ \A c \in Contexts : delaying[c] # NoTimer =>
       timers[delaying[c]].inUse /\ timers[delaying[c]].type = "delay"
  /\ delaying["thread"] = delaying["isr"] => delaying["isr"] = NoTimer
  /\ delaying["isr"] # NoTimer =>
       pc = "callback" /\ ~timers[delaying["isr"]].tmrElapsedFlag

NoneElapsed == pc = "thread" => \A u \in Slots : ~timers[u].tmrElapsed

ListInv == TypeOK /\ Good(Queue) /\ NoneElapsed /\ DelaysSound

HwTypeOK ==
  /\ counter \in 0..Period /\ compare \in 0..Period /\ previous \in 0..Period
  /\ irq \in 0..(Latency + 1) /\ since \in 0..SinceMax

LEMMA QueueIs ==
  ASSUME TypeOK
  PROVE  /\ Queue \in Queues /\ Queue.list = tmrActive /\ Queue.tm = timers
         /\ \A u \in Slots : timers[u] \in TimerObjects
BY DEF TypeOK, Queues, Queue

LEMMA NumbersFacts ==
  /\ Period \in Nat /\ Period > 0 /\ Margin \in Nat /\ ReadTime \in Nat /\ ReadTime > 0
  /\ WriteTime \in Nat /\ Latency \in Nat /\ IsrTime \in Nat /\ SinceMax \in Nat
  /\ SinceMax > Period /\ Half \in 0..Period
BY NumbersAssumption, SinceAssumption DEF Half

LEMMA AfterType ==
  ASSUME TypeOK, NEW n \in Nat
  PROVE  After(n) \in 0..Period
BY NumbersFacts DEF TypeOK, After

LEMMA AdvanceType ==
  ASSUME TypeOK, NEW n \in Nat, NEW m \in Nat, Advance(n, m),
         irq # 0 /\ pc = "thread" => irq + n <= Latency + 1
  PROVE  counter' \in 0..Period /\ since' \in 0..SinceMax /\ irq' \in 0..(Latency + 1)
<1>1. counter' \in 0..Period
  BY AfterType DEF Advance
<1>2. since' \in 0..SinceMax
  <2>1. since' = IF m <= SinceMax THEN m ELSE SinceMax
    BY NumbersFacts, MinIs DEF Advance
  <2> QED BY <2>1, NumbersFacts
<1>3. irq' \in 0..(Latency + 1)
  <2>1. irq \in 0..(Latency + 1) /\ Latency \in Nat
    BY NumbersFacts DEF TypeOK
  <2>2. irq' = IF irq # 0 THEN (IF pc = "thread" THEN irq + n ELSE irq)
               ELSE IF Matched(n) THEN 1 ELSE 0
    BY DEF Advance
  <2> QED BY <2>1, <2>2
<1> QED BY <1>1, <1>2, <1>3

\* The time of the head, or half a period.
Next0(q) == IF q.list = <<>> THEN Half
            ELSE Min({Half, q.tm[Head(q.list)].relativeTimePending})

LEMMA Next0Type ==
  ASSUME NEW q \in Queues
  PROVE  Next0(q) \in 0..Half
<1>1. Half \in Nat
  BY NumbersFacts
<1>2. CASE q.list = <<>>
  BY <1>1, <1>2 DEF Next0
<1>3. CASE q.list # <<>>
  <2> DEFINE p == q.tm[Head(q.list)].relativeTimePending
  <2>1. Head(q.list) \in Slots
    BY <1>3, QueueFacts, HeadTailProperties
  <2>2. p \in Nat
    BY <2>1, QueueFacts DEF Pending
  <2> HIDE DEF p
  <2>3. Min({Half, p}) = IF Half <= p THEN Half ELSE p
    BY <1>1, <2>2, MinIs
  <2>4. Next0(q) = Min({Half, p})
    BY <1>3 DEF Next0, p
  <2> QED BY <1>1, <2>2, <2>3, <2>4
<1> QED BY <1>2, <1>3

LEMMA CompareType ==
  ASSUME NEW q \in Queues, NEW base \in 0..Period, NEW now \in 0..Period
  PROVE  CompareValue(q, base, now) \in 0..Period
<1> DEFINE next == base + Next0(q)
           curr == IF now < base THEN Period + now ELSE now
           m == Max({next, curr + Margin})
           raw == m % (Period + 1)
<1>1. next \in Nat /\ curr \in Nat
  BY NumbersFacts, Next0Type
<1>2. CompareValue(q, base, now) = IF raw = 0 THEN 1 ELSE raw
  BY DEF CompareValue, Next0
<1> HIDE DEF next, curr
<1>3. m \in Nat
  <2>1. curr + Margin \in Nat
    BY <1>1, NumbersFacts
  <2>2. m = IF next >= curr + Margin THEN next ELSE curr + Margin
    BY <1>1, <2>1, MaxIs
  <2> QED BY <1>1, <2>1, <2>2
<1> HIDE DEF m
<1>4. raw \in 0..Period
  BY <1>3, NumbersFacts
<1> QED BY <1>2, <1>4, NumbersFacts

LEMMA ElapsedNat ==
  ASSUME TypeOK, NEW now \in 0..Period
  PROVE  GetElapsedCount(now) \in Nat
BY NumbersFacts DEF TypeOK, GetElapsedCount

\* What a call of TimerAdd does to the list.
LEMMA InsertKeeps ==
  ASSUME TypeOK, NEW q, NEW s, Ready(q, s), Insert(q, s)
  PROVE  /\ HwTypeOK' /\ Good(Queue')
         /\ \A u \in Slots : Alike(timers'[u], q.tm[u])
<1>1. q \in Queues /\ IsInjective(q.list) /\ s \in Slots /\ s \notin Range(q.list)
  BY DEF Ready
<1>2. ASSUME NEW q1, Install(q1) PROVE Queue'.list = q1.list /\ Queue'.tm = q1.tm
                                       /\ timers' = q1.tm
  BY <1>2 DEF Install, Queue
<1>3. ASSUME NEW q1, Install(q1), Good(q1) PROVE Good(Queue')
  <2>1. q1 \in Queues /\ q1 = [list |-> q1.list, tm |-> q1.tm]
    BY <1>3 DEF Good, Queues
  <2>2. Queue' = q1
    BY <1>3, <2>1 DEF Install, Queue
  <2> QED BY <1>3, <2>2
<1>4. CASE /\ Install(AddToList(q, s))
           /\ UNCHANGED hwVars
  <2>1. HwTypeOK'
    BY <1>4 DEF hwVars, HwTypeOK, TypeOK
  <2>2. Good(AddToList(q, s)) /\ \A u \in Slots : Alike(AddToList(q, s).tm[u], q.tm[u])
    BY <1>1, AddKeeps, AddToListSound
  <2> QED BY <1>2, <1>3, <1>4, <2>1, <2>2
<1>5. ASSUME InThread, NEW r \in 1..ReadTime,
             LET now == After(r)
                 q1  == AddToList(UpdateTimerList(q, GetElapsedCount(now)), s)
             IN /\ Install(q1)
                /\ IF Head(q1.list) = s
                   THEN \E r2 \in 1..ReadTime, w \in 0..WriteTime :
                          /\ Advance(r + r2 + w, r2 + w)
                          /\ Rearm(q1, now, r, r2, w)
                   ELSE Advance(r, 0) /\ previous' = now /\ UNCHANGED compare
      PROVE  /\ HwTypeOK' /\ Good(Queue')
             /\ \A u \in Slots : Alike(timers'[u], q.tm[u])
  <2> DEFINE now == After(r)
             q0 == UpdateTimerList(q, GetElapsedCount(now))
             q1 == AddToList(q0, s)
  <2>1. now \in 0..Period /\ r \in Nat /\ irq = 0
    BY <1>5, AfterType, NumbersFacts DEF InThread
  <2>2. GetElapsedCount(now) \in Nat
    <3> HIDE DEF now
    <3> QED BY <2>1, ElapsedNat
  <2>3. /\ Ready(q0, s) /\ q0 \in Queues /\ IsInjective(q0.list) /\ s \notin Range(q0.list)
        /\ \A u \in Slots : Alike(q0.tm[u], q.tm[u])
    <3> HIDE DEF now
    <3> QED BY <1>1, <2>2, UpdateKeeps, UpdateTimerListSound
  <2> HIDE DEF q0
  <2>4. Good(q1) /\ q1 \in Queues /\ \A u \in Slots : Alike(q1.tm[u], q0.tm[u])
    BY <1>1, <2>3, AddKeeps, AddToListSound
  <2>5. /\ Install(q1)
        /\ IF Head(q1.list) = s
           THEN \E r2 \in 1..ReadTime, w \in 0..WriteTime :
                  /\ Advance(r + r2 + w, r2 + w)
                  /\ Rearm(q1, now, r, r2, w)
           ELSE Advance(r, 0) /\ previous' = now /\ UNCHANGED compare
    BY <1>5 DEF q0
  <2> HIDE DEF q1
  <2>6. \A u \in Slots : Alike(timers'[u], q.tm[u])
    BY <1>2, <2>3, <2>4, <2>5 DEF Alike
  <2>7. ASSUME NEW r2 \in 1..ReadTime, NEW w \in 0..WriteTime,
               Advance(r + r2 + w, r2 + w), Rearm(q1, now, r, r2, w)
        PROVE  HwTypeOK'
    <3>1. r + r2 + w \in Nat /\ r2 + w \in Nat /\ r + r2 \in Nat
      BY <2>1, NumbersFacts
    <3>2. counter' \in 0..Period /\ since' \in 0..SinceMax /\ irq' \in 0..(Latency + 1)
      BY <2>1, <2>7, <3>1, AdvanceType
    <3>3. After(r + r2) \in 0..Period
      BY <3>1, AfterType
    <3>4. compare' = CompareValue(q1, now, After(r + r2)) /\ previous' = now
      BY <2>7 DEF Rearm
    <3>5. compare' \in 0..Period
      <4> HIDE DEF now
      <4> QED BY <2>1, <2>4, <3>3, <3>4, CompareType
    <3> QED BY <2>1, <3>2, <3>4, <3>5 DEF HwTypeOK
  <2>8. ASSUME Advance(r, 0), previous' = now, UNCHANGED compare PROVE HwTypeOK'
    <3>1. counter' \in 0..Period /\ since' \in 0..SinceMax /\ irq' \in 0..(Latency + 1)
      BY <2>1, <2>8, AdvanceType
    <3> QED BY <2>1, <2>8, <3>1 DEF HwTypeOK, TypeOK
  <2>9. HwTypeOK'
    <3> HIDE DEF now
    <3> QED BY <2>5, <2>7, <2>8
  <2> QED BY <1>3, <2>4, <2>5, <2>6, <2>9
<1> QED BY <1>4, <1>5 DEF Insert

\* The type of the other variables, and the invariants about delays, when the
\* objects of all timers but s keep their marks.
LEMMA TypeFrom ==
  ASSUME HwTypeOK', Good(Queue'),
         pc' \in {"thread", "notify", "callback"},
         notified' \in Slots \cup {NoTimer},
         delaying' \in [Contexts -> Slots \cup {NoTimer}]
  PROVE  TypeOK'
<1>1. Queue' \in Queues /\ Queue'.list = tmrActive' /\ Queue'.tm = timers'
  BY DEF Good, Queue
<1>2. tmrActive' \in Seq(Slots) /\ timers' \in [Slots -> TimerObjects]
  BY <1>1 DEF Queues
<1> QED BY <1>2 DEF TypeOK, HwTypeOK

LEMMA DelaysKeep ==
  ASSUME TypeOK, DelaysSound, NEW s \in Slots,
         timers[s].type # "delay" \/ ~timers[s].inUse,
         \A u \in Slots \ {s} : Alike(timers'[u], timers[u]),
         UNCHANGED delaying,
         delaying["isr"] # NoTimer => pc' = "callback"
  PROVE  DelaysSound'
<1>1. \A c \in Contexts : delaying[c] # NoTimer =>
        /\ delaying[c] \in Slots \ {s}
        /\ timers'[delaying[c]].inUse /\ timers'[delaying[c]].type = "delay"
        /\ timers'[delaying[c]].tmrElapsedFlag = timers[delaying[c]].tmrElapsedFlag
  BY DEF DelaysSound, TypeOK, Alike
<1>2. "isr" \in Contexts
  BY DEF Contexts
<1> QED BY <1>1, <1>2 DEF DelaysSound

\* A timer that does not run is not in the list.
LEMMA NotListed ==
  ASSUME TypeOK, Good(Queue), NEW s \in Slots, ~Runs(timers[s]), NEW t
  PROVE  [RemoveFromList(Queue, s) EXCEPT !.tm[s] = t] = [Queue EXCEPT !.tm[s] = t]
<1>1. s \notin Range(Queue.list)
  BY QueueIs DEF Good
<1> QED BY <1>1 DEF RemoveFromList

\* The changed object of a timer that is put in.
LEMMA ReadyWith ==
  ASSUME TypeOK, Good(Queue), NEW s \in Slots, NEW t,
         t.active, ~t.tmrElapsed, ~t.tmrElapsedFlag, t.inUse, t.requestedTime \in Times,
         t.relativeTimePending \in Times, t \in TimerObjects
  PROVE  LET q1 == [RemoveFromList(Queue, s) EXCEPT !.tm[s] = t]
         IN /\ Ready(q1, s) /\ q1.tm[s] = t
            /\ \A u \in Slots \ {s} : Alike(q1.tm[u], timers[u])
            /\ Range(q1.list) = Range(tmrActive) \ {s}
            /\ \A u \in Range(tmrActive) \ {s} : Due(q1, u) = Due(Queue, u)
<1>1. ObjectOK(t) /\ Runs(t)
  BY DEF ObjectOK, Runs
<1>2. t.relativeTimePending <= SinceMax
  BY SinceAssumption
<1>3. Queue \in Queues /\ IsInjective(Queue.list) /\ Queue.list = tmrActive /\ Queue.tm = timers
  BY QueueIs DEF Good
<1> QED BY <1>1, <1>2, <1>3, OutSound, OutKeeps

LEMMA ReadyKeeps ==
  ASSUME ListInv, NEW s \in Slots, NEW t, NEW q,
         q = [RemoveFromList(Queue, s) EXCEPT !.tm[s] = t],
         t.active, ~t.tmrElapsed, ~t.tmrElapsedFlag, t.inUse, t.requestedTime \in Times,
         t.relativeTimePending \in Times, t \in TimerObjects, Insert(q, s)
  PROVE  /\ HwTypeOK' /\ Good(Queue')
         /\ Alike(timers'[s], t)
         /\ \A u \in Slots \ {s} : Alike(timers'[u], timers[u])
         /\ pc' = pc => NoneElapsed'
<1>1. Ready(q, s) /\ q.tm[s] = t /\ \A u \in Slots \ {s} : Alike(q.tm[u], timers[u])
  BY ReadyWith DEF ListInv
<1>2. HwTypeOK' /\ Good(Queue') /\ \A u \in Slots : Alike(timers'[u], q.tm[u])
  BY <1>1, InsertKeeps DEF ListInv
<1>3. Alike(timers'[s], t) /\ \A u \in Slots \ {s} : Alike(timers'[u], timers[u])
  <2>1. Alike(timers'[s], t)
    BY <1>1, <1>2
  <2>2. \A a, b, c : Alike(a, b) /\ Alike(b, c) => Alike(a, c)
    BY DEF Alike
  <2> QED BY <1>1, <1>2, <2>1, <2>2
<1>4. pc' = pc => NoneElapsed'
  BY <1>3 DEF ListInv, NoneElapsed, Alike
<1> QED BY <1>2, <1>3, <1>4

\* The object that TimerObjectCreate and TimerStart make.
Created(type, time) ==
  [Free EXCEPT !.inUse = TRUE, !.active = TRUE, !.type = type,
               !.requestedTime = time, !.relativeTimePending = time]

LEMMA CreateKeeps ==
  ASSUME ListInv, NEW s \in Slots, NEW type \in Types, NEW time \in Times,
         Create(s, type, time)
  PROVE  /\ HwTypeOK' /\ Good(Queue')
         /\ timers[s] = Free /\ ~Runs(timers[s])
         /\ Alike(timers'[s], Created(type, time))
         /\ \A u \in Slots \ {s} : Alike(timers'[u], timers[u])
         /\ pc' = pc => NoneElapsed'
<1> DEFINE t == Created(type, time)
<1>1. /\ t.active /\ ~t.tmrElapsed /\ ~t.tmrElapsedFlag /\ t.inUse /\ t.requestedTime = time
      /\ t.relativeTimePending = time
      /\ t \in TimerObjects
  BY TimesAssumption DEF Created, Free, TimerObjects, Types
<1>2. timers[s] = Free /\ ~Runs(timers[s])
  BY QueueIs DEF Create, ListInv, Good, ObjectOK, Runs, Free
<1>3. Insert([Queue EXCEPT !.tm[s] = t], s)
  BY DEF Create, Created
<1> HIDE DEF t
<1>4. [Queue EXCEPT !.tm[s] = t] = [RemoveFromList(Queue, s) EXCEPT !.tm[s] = t]
  BY <1>2, NotListed DEF ListInv
<1>5. /\ HwTypeOK' /\ Good(Queue') /\ Alike(timers'[s], t)
      /\ \A u \in Slots \ {s} : Alike(timers'[u], timers[u])
      /\ pc' = pc => NoneElapsed'
  <2> DEFINE q == [Queue EXCEPT !.tm[s] = t]
  <2> HIDE DEF q
  <2>1. q = [RemoveFromList(Queue, s) EXCEPT !.tm[s] = t] /\ Insert(q, s)
    BY <1>3, <1>4 DEF q
  <2> QED BY <1>1, <2>1, ReadyKeeps
<1> QED BY <1>2, <1>5 DEF t

LEMMA CallbackRegisterKeeps ==
  ASSUME ListInv, NEW s \in Slots, NEW type \in Types, NEW time \in Times,
         CallbackRegister(s, type, time)
  PROVE  ListInv'
<1>1. /\ HwTypeOK' /\ Good(Queue')
      /\ timers[s] = Free
      /\ \A u \in Slots \ {s} : Alike(timers'[u], timers[u])
      /\ pc' = pc => NoneElapsed'
  BY CreateKeeps DEF CallbackRegister
<1>2. UNCHANGED <<pc, notified, delaying>>
  BY DEF CallbackRegister
<1>3. TypeOK'
  BY <1>1, <1>2, TypeFrom DEF ListInv, TypeOK
<1>4. DelaysSound'
  <2>1. ~timers[s].inUse
    BY <1>1 DEF Free
  <2>2. delaying["isr"] # NoTimer => pc' = "callback"
    BY <1>2 DEF ListInv, DelaysSound
  <2> QED BY <1>1, <1>2, <2>1, <2>2, DelaysKeep DEF ListInv
<1> QED BY <1>1, <1>2, <1>3, <1>4 DEF ListInv

LEMMA DelayKeeps ==
  ASSUME ListInv, NEW s \in Slots, NEW time \in Times, Delay(s, time)
  PROVE  ListInv'
<1>1. /\ HwTypeOK' /\ Good(Queue')
      /\ timers[s] = Free
      /\ Alike(timers'[s], Created("delay", time))
      /\ \A u \in Slots \ {s} : Alike(timers'[u], timers[u])
      /\ pc' = pc => NoneElapsed'
  BY CreateKeeps DEF Delay, Types
<1> DEFINE c0 == IF InThread THEN "thread" ELSE "isr"
<1>2. UNCHANGED <<pc, notified>> /\ delaying' = [delaying EXCEPT ![c0] = s]
  BY DEF Delay
<1>3. InThread \/ InCallback
  BY DEF Delay, Create, Insert
<1>4. c0 \in Contexts /\ delaying[c0] = NoTimer /\ (c0 = "isr" => pc = "callback")
  BY <1>3 DEF Contexts, InThread, InCallback
<1> HIDE DEF c0
<1>5. delaying' \in [Contexts -> Slots \cup {NoTimer}]
  BY <1>2, <1>4 DEF ListInv, TypeOK
<1>6. TypeOK'
  BY <1>1, <1>2, <1>5, TypeFrom DEF ListInv, TypeOK
<1>7. DelaysSound'
  <2>1. /\ delaying'[c0] = s /\ \A c \in Contexts \ {c0} : delaying'[c] = delaying[c]
    BY <1>2, <1>4 DEF ListInv, TypeOK
  <2>2. /\ timers'[s].inUse /\ timers'[s].type = "delay" /\ ~timers'[s].tmrElapsedFlag
    BY <1>1 DEF Alike, Created, Free
  <2>3. \A c \in Contexts : delaying[c] # NoTimer =>
          /\ delaying[c] \in Slots \ {s}
          /\ timers'[delaying[c]].inUse /\ timers'[delaying[c]].type = "delay"
          /\ timers'[delaying[c]].tmrElapsedFlag = timers[delaying[c]].tmrElapsedFlag
    BY <1>1 DEF ListInv, DelaysSound, TypeOK, Alike, Free
  <2>4. s # NoTimer
    BY DEF Slots, NoTimer
  <2>5. \A c \in Contexts : delaying'[c] # NoTimer =>
          timers'[delaying'[c]].inUse /\ timers'[delaying'[c]].type = "delay"
    BY <2>1, <2>2, <2>3
  <2>6. delaying'["thread"] = delaying'["isr"] => delaying'["isr"] = NoTimer
    BY <1>4, <2>1, <2>3, <2>4 DEF ListInv, DelaysSound, Contexts
  <2>7. delaying'["isr"] # NoTimer =>
          pc' = "callback" /\ ~timers'[delaying'["isr"]].tmrElapsedFlag
    BY <1>2, <1>4, <2>1, <2>2, <2>3 DEF ListInv, DelaysSound, Contexts
  <2> QED BY <2>5, <2>6, <2>7 DEF DelaysSound
<1> QED BY <1>1, <1>2, <1>6, <1>7 DEF ListInv

\* The steps that put a known timer in.
LEMMA StartOrReloadKeeps ==
  ASSUME ListInv, NEW s, s \in Handles, NEW t, NEW q,
         q = [RemoveFromList(Queue, s) EXCEPT !.tm[s] = t],
         t.active, ~t.tmrElapsed, ~t.tmrElapsedFlag, t.inUse, t.requestedTime \in Times,
         t.relativeTimePending \in Times, t \in TimerObjects, Insert(q, s),
         UNCHANGED <<pc, notified, delaying>>
  PROVE  ListInv'
<1>0. s \in Slots /\ timers[s].inUse /\ timers[s].type # "delay"
  BY DEF Handles
<1>1. /\ HwTypeOK' /\ Good(Queue')
      /\ \A u \in Slots \ {s} : Alike(timers'[u], timers[u])
      /\ NoneElapsed'
  BY <1>0, ReadyKeeps
<1>2. TypeOK'
  BY <1>1, TypeFrom DEF ListInv, TypeOK
<1>3. DelaysSound'
  <2>1. delaying["isr"] # NoTimer => pc' = "callback"
    BY DEF ListInv, DelaysSound
  <2> QED BY <1>0, <1>1, <2>1, DelaysKeep DEF ListInv
<1> QED BY <1>1, <1>2, <1>3 DEF ListInv

\* The object that TimerStart makes of a stopped one.
Started(t) ==
  [Clears(t) EXCEPT !.active = TRUE,
     !.relativeTimePending = IF t.relativeTimePending = 0 THEN t.requestedTime
                             ELSE t.relativeTimePending]

LEMMA StartedIs ==
  ASSUME ListInv, NEW s, s \in Handles, ~timers[s].active
  PROVE  LET t == Started(timers[s])
         IN /\ t.active /\ ~t.tmrElapsed /\ ~t.tmrElapsedFlag /\ t.inUse
            /\ t.requestedTime \in Times /\ t.relativeTimePending \in Times
            /\ t \in TimerObjects
            /\ ~Runs(timers[s])
<1> DEFINE o == timers[s]
<1>1. o \in TimerObjects /\ ObjectOK(o) /\ o.inUse /\ o.type # "delay" /\ ~o.active
  BY QueueIs DEF ListInv, Good, Handles
<1> HIDE DEF o
<1>2. o.requestedTime \in Times /\ o.relativeTimePending = o.requestedTime
      /\ o.requestedTime \in Nat /\ o.requestedTime # 0
  BY <1>1, TimesAssumption DEF ObjectOK
<1>3. LET t == Started(o)
      IN /\ t.active /\ ~t.tmrElapsed /\ ~t.tmrElapsedFlag /\ t.inUse
         /\ t.requestedTime \in Times /\ t.relativeTimePending \in Times
         /\ t \in TimerObjects
         /\ ~Runs(o)
  BY <1>1, <1>2 DEF Started, Clears, TimerObjects, Runs
<1> QED BY <1>3 DEF o

LEMMA TimerStartKeeps ==
  ASSUME ListInv, NEW s, TimerStart(s)
  PROVE  ListInv'
<1> DEFINE t == Started(timers[s])
<1>1. s \in Handles /\ ~timers[s].active /\ UNCHANGED <<pc, notified, delaying>> /\ s \in Slots
  BY DEF TimerStart, Handles
<1>2. /\ t.active /\ ~t.tmrElapsed /\ ~t.tmrElapsedFlag /\ t.inUse
      /\ t.requestedTime \in Times /\ t.relativeTimePending \in Times
      /\ t \in TimerObjects /\ ~Runs(timers[s])
  BY <1>1, StartedIs
<1>3. Insert([Queue EXCEPT !.tm[s] = t], s)
  BY <1>1, QueueIs DEF TimerStart, Started, ListInv
<1> HIDE DEF t
<1>4. [Queue EXCEPT !.tm[s] = t] = [RemoveFromList(Queue, s) EXCEPT !.tm[s] = t]
  BY <1>1, <1>2, NotListed DEF ListInv
<1> DEFINE q == [Queue EXCEPT !.tm[s] = t]
<1> HIDE DEF q
<1>5. q = [RemoveFromList(Queue, s) EXCEPT !.tm[s] = t] /\ Insert(q, s)
  BY <1>3, <1>4 DEF q
<1> QED BY <1>1, <1>2, <1>5, StartOrReloadKeeps

\* The object that TimerReload makes.
Reloaded(t, type, time) ==
  [Clears(t) EXCEPT !.active = TRUE, !.type = type, !.requestedTime = time,
                    !.relativeTimePending = time]

LEMMA RemovedObject ==
  ASSUME ListInv, NEW s \in Slots
  PROVE  RemoveFromList(Queue, s).tm[s] = timers[s]
BY QueueIs, RemoveFromListSound DEF ListInv, Good

LEMMA TimerReloadKeeps ==
  ASSUME ListInv, NEW s, NEW type \in Types \ {"delay"}, NEW time \in Times,
         TimerReload(s, type, time)
  PROVE  ListInv'
<1> DEFINE t == Reloaded(timers[s], type, time)
<1>1. s \in Handles /\ UNCHANGED <<pc, notified, delaying>> /\ s \in Slots
  BY DEF TimerReload, Handles
<1>2. timers[s] \in TimerObjects /\ timers[s].inUse
  BY <1>1, QueueIs DEF ListInv, Handles
<1>3. /\ t.active /\ ~t.tmrElapsed /\ ~t.tmrElapsedFlag /\ t.inUse
      /\ t.requestedTime \in Times /\ t.relativeTimePending \in Times
      /\ t \in TimerObjects
  BY <1>2, TimesAssumption DEF Reloaded, Clears, TimerObjects
<1>4. Insert([RemoveFromList(Queue, s) EXCEPT !.tm[s] = t], s)
  BY <1>1, RemovedObject DEF TimerReload, Reloaded
<1> HIDE DEF t
<1> DEFINE q == [RemoveFromList(Queue, s) EXCEPT !.tm[s] = t]
<1> HIDE DEF q
<1>5. q = [RemoveFromList(Queue, s) EXCEPT !.tm[s] = t] /\ Insert(q, s)
  BY <1>4 DEF q
<1> QED BY <1>1, <1>3, <1>5, StartOrReloadKeeps

\* A timer leaves.
LEMMA LeaveKeeps ==
  ASSUME ListInv, NEW s \in Slots, NEW t \in TimerObjects, ObjectOK(t), ~Runs(t),
         Install([RemoveFromList(Queue, s) EXCEPT !.tm[s] = t])
  PROVE  /\ Good(Queue') /\ timers'[s] = t
         /\ \A u \in Slots \ {s} : Alike(timers'[u], timers[u])
         /\ Range(tmrActive') = Range(tmrActive) \ {s}
         /\ \A u \in Range(tmrActive) \ {s} : Due(Queue', u) = Due(Queue, u)
<1> DEFINE q1 == [RemoveFromList(Queue, s) EXCEPT !.tm[s] = t]
<1>1. Queue \in Queues /\ IsInjective(Queue.list) /\ Queue.tm = timers
      /\ Queue.list = tmrActive /\ Good(Queue)
  BY QueueIs DEF ListInv, Good
<1>2. /\ Good(q1) /\ q1 \in Queues /\ q1.tm[s] = t
      /\ \A u \in Slots \ {s} : Alike(q1.tm[u], timers[u])
      /\ Range(q1.list) = Range(tmrActive) \ {s}
      /\ \A u \in Range(tmrActive) \ {s} : Due(q1, u) = Due(Queue, u)
  BY <1>1, OutSound, OutKeeps
<1>3. Install(q1)
  OBVIOUS
<1> HIDE DEF q1
<1>4. q1 = [list |-> q1.list, tm |-> q1.tm]
  BY <1>2 DEF Queues
<1>5. Queue' = q1 /\ timers' = q1.tm /\ tmrActive' = q1.list
  BY <1>3, <1>4 DEF Install, Queue
<1> QED BY <1>2, <1>5

\* The object of a stopped timer.
Stopped(t) ==
  [Clears(t) EXCEPT !.active = FALSE, !.relativeTimePending = t.requestedTime]

LEMMA HwKeeps ==
  ASSUME TypeOK, UNCHANGED hwVars
  PROVE  HwTypeOK'
BY DEF TypeOK, HwTypeOK, hwVars

LEMMA FreeOK == Free \in TimerObjects /\ ObjectOK(Free) /\ ~Runs(Free)
BY DEF Free, TimerObjects, ObjectOK, Runs, Types

LEMMA StopIs ==
  ASSUME ListInv, NEW s, TimerStop(s)
  PROVE  /\ s \in Slots /\ timers[s].type # "delay"
         /\ Stopped(timers[s]) \in TimerObjects /\ ObjectOK(Stopped(timers[s]))
         /\ ~Runs(Stopped(timers[s])) /\ ~Stopped(timers[s]).tmrElapsed
         /\ Install([RemoveFromList(Queue, s) EXCEPT !.tm[s] = Stopped(timers[s])])
<1> DEFINE o == timers[s]
           t == Stopped(o)
<1>1. s \in Slots /\ o.inUse /\ o.type # "delay" /\ o.active
  BY DEF TimerStop, Handles
<1>2. o \in TimerObjects /\ ObjectOK(o)
  BY <1>1, QueueIs DEF ListInv, Good
<1>3. Install([RemoveFromList(Queue, s) EXCEPT !.tm[s] = t])
  BY <1>1, RemovedObject DEF TimerStop, Stopped
<1> HIDE DEF o
<1>4. o.requestedTime \in Times /\ o.requestedTime \in Nat
  BY <1>1, <1>2, TimesAssumption DEF ObjectOK
<1>5. t \in TimerObjects /\ t.inUse /\ ~t.active /\ ~t.tmrElapsed /\ ~t.tmrElapsedFlag
      /\ t.requestedTime = o.requestedTime /\ t.relativeTimePending = o.requestedTime
  BY <1>1, <1>2, <1>4 DEF Stopped, Clears, TimerObjects
<1> HIDE DEF t
<1>6. ObjectOK(t) /\ ~Runs(t)
  BY <1>4, <1>5 DEF ObjectOK, Runs
<1> QED BY <1>1, <1>3, <1>5, <1>6 DEF t, o

\* When a timer that is not a delay has left and its object is not marked, the
\* invariant is kept.
LEMMA LeaveStep ==
  ASSUME ListInv, NEW s \in Slots, NEW t \in TimerObjects, ObjectOK(t), ~Runs(t),
         ~t.tmrElapsed, timers[s].type # "delay" \/ ~timers[s].inUse,
         Install([RemoveFromList(Queue, s) EXCEPT !.tm[s] = t]),
         UNCHANGED <<hwVars, pc, notified, delaying>>
  PROVE  ListInv'
<1>1. /\ Good(Queue') /\ timers'[s] = t
      /\ \A u \in Slots \ {s} : Alike(timers'[u], timers[u])
  BY LeaveKeeps
<1>2. TypeOK'
  BY <1>1, TypeFrom, HwKeeps DEF ListInv, TypeOK
<1>3. NoneElapsed'
  BY <1>1 DEF ListInv, NoneElapsed, Alike
<1>4. DelaysSound'
  <2>1. delaying["isr"] # NoTimer => pc' = "callback"
    BY DEF ListInv, DelaysSound
  <2> QED BY <1>1, <2>1, DelaysKeep DEF ListInv
<1> QED BY <1>1, <1>2, <1>3, <1>4 DEF ListInv

LEMMA TimerStopKeeps ==
  ASSUME ListInv, NEW s, TimerStop(s)
  PROVE  ListInv'
<1>1. UNCHANGED <<hwVars, pc, notified, delaying>>
  BY DEF TimerStop
<1> QED BY <1>1, StopIs, LeaveStep

LEMMA DestroyIs ==
  ASSUME ListInv, NEW s, TimerDestroy(s)
  PROVE  /\ s \in Slots /\ timers[s].type # "delay"
         /\ Install([RemoveFromList(Queue, s) EXCEPT !.tm[s] = Free])
<1>1. s \in Slots /\ timers[s].type # "delay"
  BY DEF TimerDestroy, Handles
<1>2. CASE timers[s].active
  BY <1>1, <1>2 DEF TimerDestroy
<1>3. CASE ~timers[s].active
  <2>1. [RemoveFromList(Queue, s) EXCEPT !.tm[s] = Free] = [Queue EXCEPT !.tm[s] = Free]
    BY <1>1, <1>3, NotListed DEF ListInv, Runs
  <2>2. Install([Queue EXCEPT !.tm[s] = Free])
    BY <1>3 DEF TimerDestroy
  <2> QED BY <1>1, <2>1, <2>2
<1> QED BY <1>2, <1>3

LEMMA TimerDestroyKeeps ==
  ASSUME ListInv, NEW s, TimerDestroy(s)
  PROVE  ListInv'
<1>1. UNCHANGED <<hwVars, pc, notified, delaying>> /\ ~Free.tmrElapsed
  BY DEF TimerDestroy, Free
<1> QED BY <1>1, DestroyIs, FreeOK, LeaveStep

\* A delay that is over has left the list.
LEMMA DelayIs ==
  ASSUME ListInv, NEW c \in Contexts, DelayIsComplete(c)
  PROVE  LET s == delaying[c]
         IN /\ s \in Slots /\ c = "thread" /\ timers[s].type = "delay"
            /\ ~Runs(timers[s])
            /\ Install([RemoveFromList(Queue, s) EXCEPT !.tm[s] = Free])
<1> DEFINE s == delaying[c]
<1>1. s \in Slots /\ timers[s].type = "delay" /\ timers[s].tmrElapsedFlag
  BY DEF DelayIsComplete, ListInv, DelaysSound, TypeOK
<1>2. c = "thread"
  BY DEF DelayIsComplete, ListInv, DelaysSound, Contexts
<1>3. ~Runs(timers[s])
  BY <1>1, QueueIs DEF ListInv, Good, ObjectOK, Runs
<1>4. Install([Queue EXCEPT !.tm[s] = Free])
  BY DEF DelayIsComplete, Install, Queue
<1> HIDE DEF s
<1>5. [RemoveFromList(Queue, s) EXCEPT !.tm[s] = Free] = [Queue EXCEPT !.tm[s] = Free]
  BY <1>1, <1>3, NotListed DEF ListInv
<1> QED BY <1>1, <1>2, <1>3, <1>4, <1>5 DEF s

LEMMA DelayIsCompleteKeeps ==
  ASSUME ListInv, NEW c \in Contexts, DelayIsComplete(c)
  PROVE  ListInv'
<1> DEFINE s == delaying[c]
<1>1. /\ s \in Slots /\ c = "thread"
      /\ Install([RemoveFromList(Queue, s) EXCEPT !.tm[s] = Free])
  BY DelayIs
<1>2. UNCHANGED <<hwVars, pc, notified>> /\ delaying' = [delaying EXCEPT ![c] = NoTimer]
      /\ pc = "thread"
  BY <1>1 DEF DelayIsComplete
<1>3. delaying["isr"] = NoTimer
  BY <1>2 DEF ListInv, DelaysSound
<1> HIDE DEF s
<1>4. /\ Good(Queue') /\ timers'[s] = Free
      /\ \A u \in Slots \ {s} : Alike(timers'[u], timers[u])
  BY <1>1, FreeOK, LeaveKeeps
<1>5. /\ delaying' \in [Contexts -> Slots \cup {NoTimer}]
      /\ \A d \in Contexts : delaying'[d] = NoTimer
  BY <1>1, <1>2, <1>3 DEF ListInv, TypeOK, Contexts
<1>6. TypeOK'
  BY <1>2, <1>4, <1>5, TypeFrom, HwKeeps DEF ListInv, TypeOK
<1>7. NoneElapsed'
  BY <1>2, <1>4 DEF ListInv, NoneElapsed, Alike, Free
<1>8. DelaysSound'
  BY <1>5 DEF DelaysSound, Contexts
<1> QED BY <1>4, <1>6, <1>7, <1>8 DEF ListInv

LEMMA TickKeeps ==
  ASSUME ListInv, Tick
  PROVE  ListInv'
<1>1. UNCHANGED <<compare, previous, timers, tmrActive, pc, notified, delaying>>
      /\ Advance(1, since + 1) /\ irq <= Latency
  BY DEF Tick
<1>2. since + 1 \in Nat /\ (irq # 0 /\ pc = "thread" => irq + 1 <= Latency + 1)
  BY <1>1, NumbersFacts DEF ListInv, TypeOK
<1>3. counter' \in 0..Period /\ since' \in 0..SinceMax /\ irq' \in 0..(Latency + 1)
  BY <1>1, <1>2, AdvanceType DEF ListInv
<1>4. TypeOK'
  BY <1>1, <1>3 DEF ListInv, TypeOK
<1>5. Queue' = Queue
  BY <1>1 DEF Queue
<1>6. NoneElapsed' /\ DelaysSound'
  BY <1>1 DEF ListInv, NoneElapsed, DelaysSound
<1> QED BY <1>4, <1>5, <1>6 DEF ListInv

LEMMA CallbackReturnKeeps ==
  ASSUME ListInv, CallbackReturn
  PROVE  ListInv'
<1>1. UNCHANGED <<hwVars, timers, tmrActive, notified, delaying>> /\ pc' = "notify"
      /\ delaying["isr"] = NoTimer
  BY DEF CallbackReturn, InCallback
<1>2. TypeOK'
  BY <1>1 DEF ListInv, TypeOK, hwVars
<1>3. Queue' = Queue
  BY <1>1 DEF Queue
<1>4. NoneElapsed' /\ DelaysSound'
  BY <1>1 DEF ListInv, NoneElapsed, DelaysSound
<1> QED BY <1>2, <1>3, <1>4 DEF ListInv

LEMMA InterruptKeeps ==
  ASSUME ListInv, Interrupt
  PROVE  ListInv'
<1>1. pc = "thread" /\ UNCHANGED <<notified, delaying>>
  BY DEF Interrupt
<1>2. delaying["isr"] = NoTimer
  BY <1>1 DEF ListInv, DelaysSound
<1> PICK r \in 1..ReadTime :
      LET now == After(r)
      IN IF tmrActive = <<>>
         THEN \E r2 \in 1..ReadTime, w \in 0..WriteTime :
                /\ counter' = After(r + r2 + w) /\ since' = r2 + w /\ irq' = 0
                /\ Rearm(Queue, now, r, r2, w)
                /\ UNCHANGED <<timers, tmrActive, pc>>
         ELSE /\ counter' = now /\ since' = 0 /\ irq' = 0
              /\ previous' = now
              /\ Install(UpdateTimerList(Queue, GetElapsedCount(now)))
              /\ pc' = "notify"
              /\ UNCHANGED compare
  BY DEF Interrupt
<1> DEFINE now == After(r)
<1>3. now \in 0..Period /\ r \in Nat
  BY AfterType, NumbersFacts DEF ListInv
<1>4. CASE tmrActive = <<>>
  <2> PICK r2 \in 1..ReadTime, w \in 0..WriteTime :
         /\ counter' = After(r + r2 + w) /\ since' = r2 + w /\ irq' = 0
         /\ Rearm(Queue, now, r, r2, w)
         /\ UNCHANGED <<timers, tmrActive, pc>>
    BY <1>4
  <2>1. r + r2 + w \in Nat /\ r2 + w \in Nat /\ r + r2 \in Nat
    BY <1>3, NumbersFacts
  <2>2. After(r + r2) \in 0..Period /\ After(r + r2 + w) \in 0..Period
    BY <2>1, AfterType DEF ListInv
  <2>3. compare' = CompareValue(Queue, now, After(r + r2)) /\ previous' = now
    BY DEF Rearm
  <2>4. compare' \in 0..Period
    <3> HIDE DEF now
    <3> QED BY <1>3, <2>2, <2>3, CompareType, QueueIs DEF ListInv
  <2>5. since' \in 0..SinceMax
    BY <2>1, NumbersFacts, TimingAssumption
  <2>6. counter' \in 0..Period /\ irq' \in 0..(Latency + 1) /\ previous' \in 0..Period
    <3> HIDE DEF now
    <3> QED BY <1>3, <2>2, <2>3, NumbersFacts
  <2>7. TypeOK'
    BY <1>1, <2>4, <2>5, <2>6 DEF ListInv, TypeOK
  <2>8. Queue' = Queue
    BY DEF Queue
  <2>9. NoneElapsed' /\ DelaysSound'
    BY <1>1 DEF ListInv, NoneElapsed, DelaysSound
  <2> QED BY <2>7, <2>8, <2>9 DEF ListInv
<1>5. CASE tmrActive # <<>>
  <2> DEFINE q1 == UpdateTimerList(Queue, GetElapsedCount(now))
  <2>1. /\ counter' = now /\ since' = 0 /\ irq' = 0 /\ previous' = now
        /\ Install(q1) /\ pc' = "notify" /\ UNCHANGED compare
    BY <1>5
  <2>2. GetElapsedCount(now) \in Nat
    <3> HIDE DEF now
    <3> QED BY <1>3, ElapsedNat DEF ListInv
  <2>3. /\ q1 \in Queues /\ Good(q1)
        /\ \A u \in Slots : Alike(q1.tm[u], Queue.tm[u])
    <3> HIDE DEF now
    <3>1. Queue \in Queues /\ IsInjective(Queue.list) /\ Good(Queue)
      BY DEF ListInv, Good
    <3>2. Good(q1)
      BY <2>2, <3>1, UpdateKeeps
    <3>3. q1 \in Queues /\ \A u \in Slots : Alike(q1.tm[u], Queue.tm[u])
      BY <2>2, <3>1, UpdateTimerListSound
    <3> QED BY <3>2, <3>3
  <2> HIDE DEF q1
  <2>4. q1 = [list |-> q1.list, tm |-> q1.tm]
    BY <2>3 DEF Queues
  <2>5. Queue' = q1 /\ timers' = q1.tm
    BY <2>1, <2>4 DEF Install, Queue
  <2>6. Good(Queue') /\ \A u \in Slots : Alike(timers'[u], timers[u])
    BY <2>3, <2>5, QueueIs DEF ListInv
  <2>7. HwTypeOK'
    <3> HIDE DEF now
    <3> QED BY <1>3, <2>1, NumbersFacts DEF ListInv, TypeOK, HwTypeOK
  <2>8. TypeOK'
    BY <1>1, <2>1, <2>6, <2>7, TypeFrom DEF ListInv, TypeOK
  <2>9. NoneElapsed'
    BY <2>1 DEF NoneElapsed
  <2>10. DelaysSound'
    BY <1>1, <1>2, <2>6 DEF ListInv, DelaysSound, TypeOK, Alike
  <2> QED BY <2>6, <2>8, <2>9, <2>10 DEF ListInv
<1> QED BY <1>4, <1>5

\* What becomes of the timer that is notified.
NotifiedObject(t) ==
  CASE t.type = "single"   -> Free
    [] t.type = "periodic" -> [t EXCEPT !.tmrElapsed = TRUE]
    [] t.type = "delay"    -> [t EXCEPT !.tmrElapsedFlag = TRUE, !.tmrElapsed = TRUE,
                                        !.active = FALSE]

LEMMA NotifyIs ==
  ASSUME ListInv, ClientNotify
  PROVE  LET s == Head(tmrActive)
             t == NotifiedObject(timers[s])
         IN /\ s \in Slots /\ s \in Range(tmrActive) /\ Due(Queue, s) = 0
            /\ t \in TimerObjects /\ ObjectOK(t) /\ ~Runs(t)
            /\ timers[s].type = "delay" => t.inUse /\ t.type = "delay"
            /\ Install([RemoveFromList(Queue, s) EXCEPT !.tm[s] = t])
<1> DEFINE s == Head(tmrActive)
           o == timers[s]
           t == NotifiedObject(o)
<1>1. tmrActive # <<>> /\ o.relativeTimePending = 0
  BY DEF ClientNotify, HeadIsDue
<1>2. /\ Queue \in Queues /\ IsInjective(Queue.list) /\ Queue.list = tmrActive
      /\ Queue.tm = timers
  BY QueueIs DEF ListInv, Good
<1>3. s \in Range(tmrActive) /\ Due(Queue, s) = 0
  BY <1>1, <1>2, HeadIsFirst DEF Pending
<1>4. s \in Slots /\ Runs(o) /\ ObjectOK(o) /\ o \in TimerObjects
  BY <1>2, <1>3, QueueIs DEF ListInv, Good
<1>5. Install([RemoveFromList(Queue, s) EXCEPT !.tm[s] = t])
  BY DEF ClientNotify, NotifiedObject
<1> HIDE DEF s, o
<1>6. o.type \in {"single", "periodic", "delay"} /\ o.active /\ o.inUse
  BY <1>4 DEF TimerObjects, Types, Runs, ObjectOK, Free
<1>7. t \in TimerObjects /\ ObjectOK(t) /\ ~Runs(t)
      /\ (o.type = "delay" => t.inUse /\ t.type = "delay")
  <2>1. CASE o.type = "single"
    <3>1. t = Free
      BY <2>1 DEF NotifiedObject
    <3> QED BY <2>1, <3>1, FreeOK
  <2>2. CASE o.type = "periodic"
    <3>1. t = [o EXCEPT !.tmrElapsed = TRUE]
      BY <2>2 DEF NotifiedObject
    <3> HIDE DEF t
    <3> QED BY <1>4, <1>6, <2>2, <3>1 DEF TimerObjects, ObjectOK, Runs
  <2>3. CASE o.type = "delay"
    <3>1. t = [o EXCEPT !.tmrElapsedFlag = TRUE, !.tmrElapsed = TRUE, !.active = FALSE]
      BY <2>3 DEF NotifiedObject
    <3> HIDE DEF t
    <3> QED BY <1>4, <1>6, <2>3, <3>1 DEF TimerObjects, ObjectOK, Runs
  <2> QED BY <1>6, <2>1, <2>2, <2>3
<1> QED BY <1>3, <1>4, <1>5, <1>7 DEF s, o, t

LEMMA ClientNotifyKeeps ==
  ASSUME ListInv, ClientNotify
  PROVE  ListInv'
<1> DEFINE s == Head(tmrActive)
           t == NotifiedObject(timers[s])
<1>1. /\ s \in Slots /\ t \in TimerObjects /\ ObjectOK(t) /\ ~Runs(t)
      /\ timers[s].type = "delay" => t.inUse /\ t.type = "delay"
      /\ Install([RemoveFromList(Queue, s) EXCEPT !.tm[s] = t])
  BY NotifyIs
<1>2. /\ pc = "notify" /\ pc' \in {"notify", "callback"} /\ notified' = s
      /\ UNCHANGED <<hwVars, delaying>>
  BY DEF ClientNotify
<1>3. delaying["isr"] = NoTimer
  BY <1>2 DEF ListInv, DelaysSound
<1> HIDE DEF s, t
<1>4. /\ Good(Queue') /\ timers'[s] = t
      /\ \A u \in Slots \ {s} : Alike(timers'[u], timers[u])
  BY <1>1, LeaveKeeps
<1>5. TypeOK'
  BY <1>1, <1>2, <1>4, TypeFrom, HwKeeps DEF ListInv, TypeOK
<1>6. NoneElapsed'
  BY <1>2 DEF NoneElapsed
<1>7. DelaysSound'
  BY <1>1, <1>2, <1>3, <1>4 DEF ListInv, DelaysSound, TypeOK, Alike, Contexts
<1> QED BY <1>4, <1>5, <1>6, <1>7 DEF ListInv

LEMMA InterruptEndKeeps ==
  ASSUME ListInv, InterruptEnd
  PROVE  ListInv'
<1> DEFINE q == Reinserted(Queue)
<1>1. /\ pc = "notify" /\ pc' = "thread" /\ notified' = NoTimer /\ UNCHANGED delaying
      /\ Install(q)
  BY DEF InterruptEnd
<1>2. delaying["isr"] = NoTimer
  BY <1>1 DEF ListInv, DelaysSound
<1>3. Back(Queue, q, NumTimers)
  BY ReinsertedKeeps DEF ListInv
<1> PICK r \in 1..ReadTime, w \in 0..WriteTime :
      /\ Advance(r + w, since + r + w)
      /\ Rearm(q, previous, 0, r, w)
  BY DEF InterruptEnd
<1> HIDE DEF q
<1>4. q \in Queues /\ q = [list |-> q.list, tm |-> q.tm] /\ Good(q)
  BY <1>3 DEF Back, Good, Queues
<1>5. Queue' = q /\ timers' = q.tm
  BY <1>1, <1>4 DEF Install, Queue
<1>6. HwTypeOK'
  <2>1. r \in Nat /\ w \in Nat /\ r + w \in Nat /\ since + r + w \in Nat /\ 0 + r \in Nat
    BY NumbersFacts DEF ListInv, TypeOK
  <2>2. counter' \in 0..Period /\ since' \in 0..SinceMax /\ irq' \in 0..(Latency + 1)
    BY <1>1, <2>1, AdvanceType DEF ListInv
  <2>3. After(0 + r) \in 0..Period
    BY <2>1, AfterType DEF ListInv
  <2>4. compare' = CompareValue(q, previous, After(0 + r)) /\ previous' = previous
    BY DEF Rearm
  <2>5. previous \in 0..Period
    BY DEF ListInv, TypeOK
  <2>6. compare' \in 0..Period
    BY <1>4, <2>3, <2>4, <2>5, CompareType
  <2> QED BY <2>2, <2>4, <2>5, <2>6 DEF HwTypeOK
<1>7. TypeOK'
  BY <1>1, <1>4, <1>5, <1>6, TypeFrom DEF ListInv, TypeOK
<1>8. NoneElapsed'
  <2>1. \A u \in Slots : u <= NumTimers
    BY NumbersAssumption DEF Slots
  <2> QED BY <1>3, <1>5, <2>1 DEF Back, NoneElapsed
<1>9. DelaysSound'
  <2>1. \A u \in Slots : AlikeBut(timers'[u], timers[u])
    BY <1>3, <1>5, QueueIs DEF Back, ListInv
  <2> QED BY <1>1, <1>2, <2>1 DEF ListInv, DelaysSound, TypeOK, AlikeBut, Contexts
<1> QED BY <1>4, <1>5, <1>7, <1>8, <1>9 DEF ListInv

LEMMA InitList == Init => ListInv
<1> SUFFICES ASSUME Init PROVE ListInv
  OBVIOUS
<1> USE DEF Init
<1>1. TypeOK
  BY NumbersFacts, FreeOK, EmptySeq DEF TypeOK, Contexts
<1>2. Range(tmrActive) = {} /\ IsInjective(tmrActive)
  <2>1. DOMAIN <<>> = {}
    OBVIOUS
  <2> QED BY <2>1 DEF Range, IsInjective
<1>3. \A u \in Slots : timers[u] = Free
  OBVIOUS
<1>4. Good(Queue)
  BY <1>1, <1>2, <1>3, QueueIs, FreeOK DEF Good
<1>5. NoneElapsed /\ DelaysSound
  BY <1>3 DEF NoneElapsed, DelaysSound, Free, Contexts
<1> QED BY <1>1, <1>4, <1>5 DEF ListInv

LEMMA NextList == ListInv /\ [Next]_vars => ListInv'
<1> SUFFICES ASSUME ListInv, [Next]_vars PROVE ListInv'
  OBVIOUS
<1>1. ASSUME NEW s \in Slots, NEW type \in Kinds \ {"delay"}, NEW time \in Times,
             CallbackRegister(s, type, time) \/ TimerReload(s, type, time)
      PROVE  ListInv'
  <2>1. type \in Types \ {"delay"}
    BY KindsAssumption
  <2> QED BY <1>1, <2>1, CallbackRegisterKeeps, TimerReloadKeeps
<1>2. ASSUME NEW s \in Slots, NEW time \in Times, Delay(s, time) PROVE ListInv'
  BY <1>2, DelayKeeps
<1>3. ASSUME NEW s \in Slots, Call(s) PROVE ListInv'
  BY <1>1, <1>2, <1>3, TimerStartKeeps, TimerStopKeeps, TimerDestroyKeeps DEF Call
<1>4. CASE UNCHANGED vars
  <2>1. Queue' = Queue
    BY <1>4 DEF vars, Queue
  <2> QED BY <1>4, <2>1 DEF vars, ListInv, TypeOK, NoneElapsed, DelaysSound
<1> QED BY <1>3, <1>4, TickKeeps, DelayIsCompleteKeeps, InterruptKeeps, ClientNotifyKeeps,
           CallbackReturnKeeps, InterruptEndKeeps DEF Next

LEMMA ListInvariant == Spec => []ListInv
BY InitList, NextList, PTL DEF Spec

\* No timer is in the list twice, and in the list are exactly the running timers,
\* whatever the main loop and the callbacks start, stop, reload and destroy, and
\* after every interrupt.
THEOREM ListSoundCorrect == Spec => []ListSound
<1>1. ListInv => ListSound
  BY QueueIs DEF ListInv, ListSound, Good, NoneElapsed, Runs
<1> QED BY <1>1, ListInvariant, PTL

\* A delay that a callback waits for never ends.
THEOREM CallbackDelayHangsCorrect == Spec => CallbackDelayHangs
<1>1. ListInv /\ [Next]_vars =>
        [delaying["isr"] # NoTimer => delaying'["isr"] = delaying["isr"]]_vars
  <2> SUFFICES ASSUME ListInv, Next, delaying["isr"] # NoTimer
               PROVE  delaying'["isr"] = delaying["isr"]
    OBVIOUS
  <2>1. pc = "callback" /\ delaying["isr"] \in Slots /\ "isr" \in Contexts
        /\ delaying \in [Contexts -> Slots \cup {NoTimer}]
    BY DEF ListInv, DelaysSound, TypeOK, Contexts
  <2>2. ASSUME NEW c \in Contexts, DelayIsComplete(c) PROVE FALSE
    BY <2>1, <2>2, DelayIs DEF DelayIsComplete
  <2>3. ASSUME NEW s \in Slots, NEW time \in Times, Delay(s, time) PROVE FALSE
    BY <2>1, <2>3 DEF Delay, Create, Insert, InThread, InCallback
  <2>4. ASSUME NEW s \in Slots, Call(s) PROVE UNCHANGED delaying
    BY <2>3, <2>4 DEF Call, CallbackRegister, TimerReload, TimerStart, TimerStop, TimerDestroy
  <2> QED BY <2>2, <2>4 DEF Next, Tick, Interrupt, ClientNotify, CallbackReturn, InterruptEnd
<1> QED BY <1>1, ListInvariant, PTL DEF Spec, CallbackDelayHangs

-------------------------------------------------------------------------------
(* The counter.                                                              *)

\* Arithmetic on the circle of the counter's values, of which no step makes more
\* than one round.
Wrap(x) == IF x <= Period THEN x ELSE x - (Period + 1)

LEMMA ModIs ==
  ASSUME NEW N \in Nat, N > 0, NEW x \in Int, 0 - N <= x, x < 2 * N
  PROVE  x % N = IF x < 0 THEN x + N ELSE IF x < N THEN x ELSE x - N
<1>1. x % N \in 0..(N - 1) /\ \E k \in Int : x = N * k + (x % N)
  <2>1. x = N * (x \div N) + (x % N) /\ x \div N \in Int /\ x % N \in 0..(N - 1)
    OBVIOUS
  <2> QED BY <2>1
<1> PICK k \in Int : x = N * k + (x % N)
  BY <1>1
<1>2. k \in {-1, 0, 1}
  <2>1. N * k > 0 - 2 * N /\ N * k < 2 * N
    BY <1>1
  <2>2. k > -2 /\ k < 2
    <3>1. ASSUME k >= 2 PROVE FALSE
      <4>1. N * k >= N * 2
        BY <3>1
      <4> QED BY <2>1, <4>1
    <3>2. ASSUME k <= -2 PROVE FALSE
      <4>1. N * k <= N * (-2)
        BY <3>2
      <4> QED BY <2>1, <4>1
    <3> QED BY <3>1, <3>2
  <2> QED BY <2>2
<1>3. CASE k = -1
  BY <1>1, <1>3
<1>4. CASE k = 0
  BY <1>1, <1>4
<1>5. CASE k = 1
  BY <1>1, <1>5
<1> QED BY <1>2, <1>3, <1>4, <1>5

LEMMA Times2 ==
  /\ Period \in Nat /\ Margin \in Nat /\ ReadTime \in Nat /\ ReadTime > 0 /\ WriteTime \in Nat
  /\ Latency \in Nat /\ IsrTime \in Nat /\ SinceMax \in Nat /\ SinceMax > Period
  /\ Half \in Nat /\ Margin >= WriteTime + 2
  /\ Half + Latency + ReadTime <= Period
  /\ IsrTime + Margin + Latency + 2 * ReadTime <= Period
BY NumbersAssumption, SinceAssumption, TimingAssumption DEF Half

LEMMA AfterIs ==
  ASSUME TypeOK, NEW n \in 0..(Period + 1)
  PROVE  After(n) = Wrap(counter + n)
<1>1. counter \in Nat /\ counter <= Period /\ Period \in Nat
  BY NumbersFacts DEF TypeOK
<1> DEFINE N == Period + 1
           x == counter + n
<1>2. /\ N \in Nat /\ N > 0 /\ x \in Int /\ 0 - N <= x /\ x < 2 * N /\ ~(x < 0)
      /\ x <= Period <=> x < N
  BY <1>1
<1>3. After(n) = x % N /\ Wrap(x) = IF x <= Period THEN x ELSE x - N
  BY DEF After, Wrap
<1> HIDE DEF N, x
<1>4. x % N = IF x < N THEN x ELSE x - N
  BY <1>2, ModIs
<1>5. After(n) = Wrap(x)
  BY <1>2, <1>3, <1>4
<1> QED BY <1>5 DEF x

AheadOf(a, b) == ((a - b - 1) % (Period + 1)) + 1

LEMMA AheadIs ==
  ASSUME NEW a \in 0..Period, NEW b \in 0..Period
  PROVE  /\ AheadOf(a, b) = IF a > b THEN a - b ELSE a - b + (Period + 1)
         /\ AheadOf(a, b) \in 1..(Period + 1)
<1>1. a \in Nat /\ a <= Period /\ b \in Nat /\ b <= Period /\ Period \in Nat
  BY NumbersFacts
<1> DEFINE N == Period + 1
           x == a - b - 1
<1>2. N \in Nat /\ N > 0 /\ x \in Int /\ 0 - N <= x /\ x < 2 * N /\ x < N
  BY <1>1
<1>3. AheadOf(a, b) = (x % N) + 1
  BY DEF AheadOf
<1> HIDE DEF N, x
<1>4. x % N = IF x < 0 THEN x + N ELSE x
  BY <1>2, ModIs
<1>5. AheadOf(a, b) = (IF x < 0 THEN x + N ELSE x) + 1
  BY <1>3, <1>4
<1> QED BY <1>1, <1>5 DEF N, x

\* Within a round, the counter meets the compare register when Ahead ticks have
\* passed.
LEMMA MatchedIs ==
  ASSUME TypeOK, NEW n \in 0..(Period + 1)
  PROVE  Matched(n) <=> Ahead <= n
<1>1. counter \in Nat /\ counter <= Period /\ compare \in Nat /\ compare <= Period
      /\ Period \in Nat
  BY NumbersFacts DEF TypeOK
<1>2. /\ Ahead = IF compare > counter THEN compare - counter
                 ELSE compare - counter + (Period + 1)
      /\ Ahead \in 1..(Period + 1)
  BY AheadIs DEF TypeOK, Ahead, AheadOf
<1>3. ASSUME NEW k \in 1..n PROVE After(k) = compare <=> k = Ahead
  <2>1. k \in 0..(Period + 1) /\ k >= 1
    BY <1>1
  <2>2. After(k) = Wrap(counter + k)
    BY <2>1, AfterIs
  <2> QED BY <1>1, <1>2, <2>1, <2>2 DEF Wrap
<1> QED BY <1>1, <1>2, <1>3 DEF Matched

\* While less than a round has passed, the reading tells how much.
LEMMA ElapsedIs ==
  ASSUME TypeOK, counter = Wrap(previous + since), NEW r \in Nat,
         since + r > 0, since + r <= Period + 1
  PROVE  GetElapsedCount(After(r)) = since + r
<1>1. counter \in Nat /\ counter <= Period /\ previous \in Nat /\ previous <= Period
      /\ Period \in Nat /\ since \in Nat
  BY NumbersFacts DEF TypeOK
<1>2. After(r) = Wrap(counter + r)
  BY <1>1, AfterIs
<1> QED BY <1>1, <1>2 DEF Wrap, GetElapsedCount

\* The most ticks the compare register is ahead when it is written, counted from
\* the reading the times of the list count from.
Reach == IF Half >= IsrTime + ReadTime + Margin THEN Half + 1
         ELSE IsrTime + ReadTime + Margin + 1

LEMMA ReachIs ==
  /\ Reach \in Nat /\ Reach + Latency + ReadTime <= Period + 1
  /\ Reach >= Half + 1 /\ Reach >= IsrTime + ReadTime + Margin + 1
BY Times2 DEF Reach

\* The compare value lies c ticks after the base: not before the counter can meet
\* it, and not later than the first timer is due, or the margin allows.
LEMMA CompareIs ==
  ASSUME NEW q \in Queues, NEW base \in 0..Period, NEW x \in 1..(IsrTime + ReadTime)
  PROVE  \E c \in Nat :
           /\ CompareValue(q, base, Wrap(base + x)) = Wrap(base + c)
           /\ c >= x - 1 + Margin /\ c <= Reach
           /\ c <= x + Margin + 1 \/ c <= Next0(q) + 1
<1> DEFINE now == Wrap(base + x)
           next == base + Next0(q)
           curr == IF now < base THEN Period + now ELSE now
           m == Max({next, curr + Margin})
           raw == m % (Period + 1)
<1>1. Next0(q) \in Nat /\ Next0(q) <= Half
  BY Next0Type, Times2
<1>2. base \in Nat /\ base <= Period /\ x \in Nat /\ x >= 1 /\ x <= IsrTime + ReadTime
      /\ x + Margin + 1 <= Reach /\ Reach <= Period /\ Next0(q) + 1 <= Reach
  BY <1>1, Times2, ReachIs
<1>3. curr \in {base + x, base + x - 1}
  BY <1>2, Times2 DEF Wrap
<1>4. CompareValue(q, base, now) = IF raw = 0 THEN 1 ELSE raw
  BY DEF CompareValue, Next0
<1> HIDE DEF curr, now
<1>5. m = IF next >= curr + Margin THEN next ELSE curr + Margin
  <2>1. next \in Int /\ curr + Margin \in Int
    BY <1>1, <1>2, <1>3, Times2
  <2> QED BY <2>1, MaxIs
<1> HIDE DEF m
<1> DEFINE c0 == m - base
<1>6. /\ c0 \in Nat /\ m = base + c0
      /\ c0 >= x - 1 + Margin /\ c0 + 1 <= Reach
      /\ c0 <= x + Margin \/ c0 <= Next0(q)
  <2>1. /\ base \in Nat /\ x \in Nat /\ x >= 1 /\ Margin \in Nat /\ Margin >= 1
        /\ x + Margin + 1 <= Reach /\ Next0(q) + 1 <= Reach /\ Next0(q) \in Nat /\ Reach \in Nat
    BY <1>1, <1>2, Times2, ReachIs
  <2> HIDE DEF raw
  <2>2. CASE curr = base + x
    BY <1>5, <2>1, <2>2
  <2>3. CASE curr = base + x - 1
    BY <1>5, <2>1, <2>3
  <2> QED BY <1>3, <2>2, <2>3
<1> HIDE DEF c0
<1>7. raw = Wrap(base + c0)
  <2>1. Period + 1 \in Nat /\ Period + 1 > 0 /\ m \in Int /\ 0 - (Period + 1) <= m
        /\ m < 2 * (Period + 1) /\ ~(m < 0) /\ Period \in Nat
    <3> HIDE DEF raw
    <3>1. base \in Nat /\ c0 \in Nat /\ base <= Period /\ c0 <= Period /\ m = base + c0
          /\ Period \in Nat
      BY <1>2, <1>6, Times2, ReachIs
    <3> QED BY <3>1
  <2>2. m % (Period + 1) = IF m < Period + 1 THEN m ELSE m - (Period + 1)
    BY <2>1, ModIs
  <2> QED BY <1>6, <2>1, <2>2 DEF Wrap
<1>8. CASE raw # 0
  <2>1. CompareValue(q, base, Wrap(base + x)) = Wrap(base + c0)
    BY <1>4, <1>7, <1>8 DEF now
  <2>2. c0 <= Reach /\ (c0 <= x + Margin + 1 \/ c0 <= Next0(q) + 1)
    BY <1>1, <1>2, <1>6, Times2, ReachIs
  <2> QED BY <1>6, <2>1, <2>2
<1>9. CASE raw = 0
  <2>1. Wrap(base + (c0 + 1)) = 1
    BY <1>2, <1>6, <1>7, <1>9, Times2 DEF Wrap
  <2>2. CompareValue(q, base, Wrap(base + x)) = Wrap(base + (c0 + 1))
    BY <1>4, <1>9, <2>1 DEF now
  <2>3. c0 + 1 \in Nat /\ c0 + 1 >= x - 1 + Margin /\ c0 + 1 <= Reach
        /\ (c0 + 1 <= x + Margin + 1 \/ c0 + 1 <= Next0(q) + 1)
    BY <1>1, <1>2, <1>6, Times2
  <2> QED BY <2>2, <2>3
<1> QED BY <1>8, <1>9

-------------------------------------------------------------------------------
(* The inductive invariant of the clock.                                     *)

\* Unless a callback hangs, the counter is since ticks past previous; an interrupt
\* does not last long; the compare register is met, and the interrupt entered,
\* before the counter has gone round.
ClockInv ==
  /\ delaying["isr"] = NoTimer => counter = Wrap(previous + since) /\ since <= Period
  /\ pc # "thread" /\ delaying["isr"] = NoTimer => since <= IsrTime
  /\ pc = "thread" /\ irq = 0 => since + Ahead <= Reach
  /\ pc = "thread" /\ irq # 0 => since <= Reach + irq - 1

\* The compare register, a ticks ahead, is met as soon as the margin allows, or
\* within half a period and when the first timer of q is due, m ticks after the
\* times of q were updated.
ArmedFor(q, a, m) ==
  \/ a <= Margin + 1
  \/ a <= Half + 1 /\ \A u \in Range(q.list) : a <= Less(Due(q, u), m) + 1

ArmedInv == pc = "thread" /\ irq = 0 => ArmedFor(Queue, Ahead, since)

FullInv == ListInv /\ ClockInv /\ ArmedInv

MaxStep == 2 * ReadTime + WriteTime

\* What n ticks do to the timers: each has n ticks less left, or is set anew.
Aged(n) ==
  /\ counter' = After(n)
  /\ \A u \in Slots :
       \/ Left(u)' = IF Left(u) = -1 THEN -1 ELSE Less(Left(u), n)
       \/ \E time \in Times, k \in 0..(n + IsrTime) : Left(u)' = Less(time, k)

Passes == \E n \in 0..MaxStep : Aged(n)

LEMMA LessNat ==
  ASSUME NEW m \in Nat, NEW n \in Nat
  PROVE  Less(m, n) \in Nat /\ Max({0, m - n}) = Less(m, n)
<1>1. Max({0, m - n}) = IF 0 >= m - n THEN 0 ELSE m - n
  BY MaxIs
<1> QED BY <1>1 DEF Less

LEMMA LessLess ==
  ASSUME NEW m \in Nat, NEW n \in Nat, NEW k \in Nat
  PROVE  Less(Less(m, n), k) = Less(m, n + k)
BY DEF Less

\* Left, in terms of Due.
LeftOf(q, m, u) == IF u \in Range(q.list) THEN Less(Due(q, u), m) ELSE -1

LEMMA LeftIs ==
  ASSUME NEW q \in Queues, IsInjective(q.list), NEW m \in Nat, NEW u
  PROVE  /\ LeftOf(q, m, u) = IF u \notin Range(q.list) THEN -1
                              ELSE LET i == CHOOSE j \in 1..Len(q.list) : q.list[j] = u
                                   IN Max({0, TimeTo(q, i) - m})
         /\ u \in Range(q.list) => LeftOf(q, m, u) \in Nat
<1>1. CASE u \in Range(q.list)
  <2>1. Due(q, u) \in Nat
    BY <1>1, DueNat
  <2>2. Max({0, Due(q, u) - m}) = Less(Due(q, u), m) /\ Less(Due(q, u), m) \in Nat
    BY <2>1, LessNat
  <2> QED BY <1>1, <2>2 DEF LeftOf, Due
<1>2. CASE u \notin Range(q.list)
  BY <1>2 DEF LeftOf
<1> QED BY <1>1, <1>2

LEMMA LeftNow ==
  ASSUME ListInv, NEW u
  PROVE  /\ Left(u) = LeftOf(Queue, since, u)
         /\ u \in Range(tmrActive) => Left(u) \in Nat /\ Due(Queue, u) \in Nat
         /\ u \notin Range(tmrActive) => Left(u) = -1
<1>1. Queue \in Queues /\ IsInjective(Queue.list) /\ Queue.list = tmrActive /\ since \in Nat
  BY QueueIs, NumbersFacts DEF ListInv, Good, TypeOK
<1>2. /\ LeftOf(Queue, since, u) =
           IF u \notin Range(Queue.list) THEN -1
           ELSE LET i == CHOOSE j \in 1..Len(Queue.list) : Queue.list[j] = u
                IN Max({0, TimeTo(Queue, i) - since})
      /\ u \in Range(Queue.list) => LeftOf(Queue, since, u) \in Nat
  BY <1>1, LeftIs
<1>3. Left(u) = LeftOf(Queue, since, u)
  BY <1>1, <1>2 DEF Left
<1>4. u \in Range(tmrActive) => Due(Queue, u) \in Nat
  BY <1>1, DueNat
<1> QED BY <1>1, <1>2, <1>3, <1>4 DEF LeftOf

\* The same of the next state.
LEMMA LeftNext ==
  ASSUME Good(Queue'), since' \in Nat, NEW u
  PROVE  /\ Left(u)' = LeftOf(Queue', since', u)
         /\ u \in Range(tmrActive') => Left(u)' \in Nat /\ Due(Queue', u) \in Nat
         /\ u \notin Range(tmrActive') => Left(u)' = -1
<1> DEFINE q == Queue'
<1>1. q \in Queues /\ IsInjective(q.list) /\ q.list = tmrActive'
  BY DEF Good, Queue
<1>2. Left(u)' = IF u \notin Range(tmrActive') THEN -1
                 ELSE LET i == CHOOSE j \in 1..Len(tmrActive') : tmrActive'[j] = u
                      IN Max({0, TimeTo(Queue', i) - since'})
  BY DEF Left
<1> HIDE DEF q
<1>3. /\ LeftOf(q, since', u) =
           IF u \notin Range(q.list) THEN -1
           ELSE LET i == CHOOSE j \in 1..Len(q.list) : q.list[j] = u
                IN Max({0, TimeTo(q, i) - since'})
      /\ u \in Range(q.list) => LeftOf(q, since', u) \in Nat
  BY <1>1, LeftIs
<1>4. Left(u)' = LeftOf(q, since', u)
  BY <1>1, <1>2, <1>3 DEF q
<1>5. u \in Range(tmrActive') => Due(q, u) \in Nat
  BY <1>1, DueNat
<1> QED BY <1>1, <1>3, <1>4, <1>5 DEF q, LeftOf

\* The register has just been written, x ticks after the base and w before the end
\* of the step.
LEMMA RearmKeeps ==
  ASSUME NEW q, Good(q), Queue' = q, NEW base \in 0..Period,
         NEW x \in 1..(IsrTime + ReadTime), NEW w \in 0..WriteTime,
         compare' = CompareValue(q, base, Wrap(base + x)),
         counter' = Wrap(base + (x + w)), since' = x + w
  PROVE  since' + Ahead' <= Reach /\ ArmedFor(Queue', Ahead', since')
<1>1. q \in Queues /\ IsInjective(q.list)
  BY DEF Good
<1>2. base \in Nat /\ base <= Period /\ x \in Nat /\ x >= 1 /\ x <= IsrTime + ReadTime
      /\ w \in Nat /\ w <= WriteTime
  BY Times2
<1> PICK c \in Nat : /\ compare' = Wrap(base + c)
                     /\ c >= x - 1 + Margin /\ c <= Reach
                     /\ c <= x + Margin + 1 \/ c <= Next0(q) + 1
  BY <1>1, CompareIs
<1>3. c > x + w /\ c <= Period /\ x + w <= Period
  BY <1>2, Times2, ReachIs
<1>4. compare' \in 0..Period /\ counter' \in 0..Period
  BY <1>2, <1>3, Times2 DEF Wrap
<1>5. Ahead' = c - (x + w)
  <2>1. Ahead' = AheadOf(compare', counter')
    BY DEF Ahead, AheadOf
  <2>2. AheadOf(compare', counter') = IF compare' > counter' THEN compare' - counter'
                                      ELSE compare' - counter' + (Period + 1)
    BY <1>4, AheadIs
  <2> QED BY <1>2, <1>3, <2>1, <2>2, Times2 DEF Wrap
<1>6. since' + Ahead' <= Reach
  BY <1>2, <1>5, ReachIs
<1>7. CASE c <= x + Margin + 1
  <2>1. Ahead' <= Margin + 1
    BY <1>2, <1>5, <1>7, Times2
  <2> QED BY <1>6, <2>1 DEF ArmedFor
<1>8. CASE c <= Next0(q) + 1
  <2>1. Next0(q) \in Nat /\ Next0(q) <= Half
    BY <1>1, Next0Type, Times2
  <2>2. ASSUME NEW u \in Range(q.list) PROVE Ahead' <= Less(Due(q, u), since') + 1
    <3>1. q.list # <<>>
      <4>1. DOMAIN <<>> = {}
        OBVIOUS
      <4> QED BY <4>1 DEF Range
    <3> DEFINE p == q.tm[Head(q.list)].relativeTimePending
    <3>2. Due(q, u) \in Nat /\ p <= Due(q, u) /\ p \in Nat
      <4>1. Due(q, u) \in Nat /\ Pending(q, Head(q.list)) <= Due(q, u)
        BY <1>1, <3>1, HeadIsFirst
      <4>2. Head(q.list) \in Slots
        BY <1>1, <3>1, QueueFacts, HeadTailProperties
      <4> QED BY <1>1, <4>1, <4>2, QueueFacts DEF Pending
    <3> HIDE DEF p
    <3>3. Next0(q) <= p
      <4>1. Next0(q) = Min({Half, p})
        BY <3>1 DEF Next0, p
      <4> QED BY <3>2, <4>1, MinIs, Times2
    <3> QED BY <1>2, <1>5, <1>8, <2>1, <3>2, <3>3 DEF Less
  <2>3. Ahead' <= Half + 1
    BY <1>2, <1>5, <1>8, <2>1, Times2
  <2> QED BY <1>6, <2>2, <2>3 DEF ArmedFor
<1> QED BY <1>7, <1>8

-------------------------------------------------------------------------------
(* The steps that put a timer in, and the clock.                             *)

\* What Advance does when no interrupt is waiting.
LEMMA AdvanceIs ==
  ASSUME TypeOK, NEW n \in 1..(Period + 1), NEW m \in Nat, Advance(n, m)
  PROVE  /\ counter' = After(n) /\ After(n) = Wrap(counter + n)
         /\ since' = IF m <= SinceMax THEN m ELSE SinceMax
         /\ irq = 0 => irq' \in {0, 1}
         /\ irq = 0 /\ irq' # 0 => Ahead <= n
         /\ irq = 0 /\ irq' = 0 /\ compare' = compare => Ahead' = Ahead - n
<1>1. n \in 0..(Period + 1)
  BY Times2
<1>2. counter' = After(n) /\ After(n) = Wrap(counter + n)
  BY <1>1, AfterIs DEF Advance
<1>3. since' = IF m <= SinceMax THEN m ELSE SinceMax
  BY MinIs, Times2 DEF Advance
<1>4. irq = 0 => irq' = IF Matched(n) THEN 1 ELSE 0
  BY DEF Advance
<1>5. Matched(n) <=> Ahead <= n
  BY <1>1, MatchedIs
<1>6. ASSUME irq = 0, irq' = 0, compare' = compare PROVE Ahead' = Ahead - n
  <2>1. Ahead > n /\ Ahead \in 1..(Period + 1)
    <3>1. Ahead \in 1..(Period + 1)
      BY AheadIs DEF Ahead, AheadOf, TypeOK
    <3> QED BY <1>1, <1>4, <1>5, <1>6, <3>1, Times2
  <2>2. compare \in 0..Period /\ counter \in 0..Period /\ counter' \in 0..Period
    BY <1>1, <1>2, AfterType DEF TypeOK
  <2>3. /\ Ahead = IF compare > counter THEN compare - counter
                   ELSE compare - counter + (Period + 1)
        /\ Ahead' = IF compare > counter' THEN compare - counter'
                    ELSE compare - counter' + (Period + 1)
    <3>1. Ahead = AheadOf(compare, counter) /\ Ahead' = AheadOf(compare, counter')
      BY <1>6 DEF Ahead, AheadOf
    <3> QED BY <2>2, <3>1, AheadIs
  <2> QED BY <1>1, <1>2, <2>1, <2>2, <2>3, Times2 DEF Wrap
<1> QED BY <1>2, <1>3, <1>4, <1>5, <1>6

\* Two readings.
LEMMA AfterAfter ==
  ASSUME TypeOK, NEW a \in Nat, NEW b \in Nat, a + b <= Period + 1
  PROVE  After(a + b) = Wrap(After(a) + b)
<1>1. After(a) = Wrap(counter + a) /\ After(a + b) = Wrap(counter + (a + b))
  BY AfterIs, Times2
<1>2. counter \in Nat /\ counter <= Period /\ Period \in Nat
  BY Times2 DEF TypeOK
<1> QED BY <1>1, <1>2 DEF Wrap

\* In the main loop nothing hangs, and the counter has not gone round.
LEMMA ThreadFacts ==
  ASSUME FullInv, pc = "thread"
  PROVE  /\ delaying["isr"] = NoTimer
         /\ counter = Wrap(previous + since) /\ since \in Nat
         /\ since + ReadTime <= Period + 1
<1>1. delaying["isr"] = NoTimer /\ TypeOK
  BY DEF FullInv, ListInv, DelaysSound
<1>2. since \in Nat /\ irq \in Nat /\ irq <= Latency + 1
  BY <1>1, Times2 DEF TypeOK
<1>3. Ahead \in Nat /\ Ahead >= 1
  BY <1>1, AheadIs, Times2 DEF Ahead, AheadOf, TypeOK
<1>4. since <= Reach + Latency
  <2>1. CASE irq = 0
    BY <1>2, <1>3, <2>1, ReachIs, Times2 DEF FullInv, ClockInv
  <2>2. CASE irq # 0
    BY <1>2, <2>2, ReachIs, Times2 DEF FullInv, ClockInv
  <2> QED BY <2>1, <2>2
<1> QED BY <1>1, <1>2, <1>4, ReachIs, Times2 DEF FullInv, ClockInv

\* A step in which all listed timers of q but s, and no others, stay, each with n
\* ticks less left, and s is set.
LEMMA AgedWith ==
  ASSUME ListInv, Good(Queue'), since' \in Nat, NEW q, NEW s \in Slots,
         Range(q.list) = Range(tmrActive) \ {s},
         Range(tmrActive') = Range(q.list) \cup {s},
         NEW n \in 0..MaxStep, counter' = After(n),
         \A u \in Range(q.list) :
           Less(Due(Queue', u), since') = Less(Less(Due(Queue, u), since), n),
         NEW time \in Times, NEW k \in 0..(n + IsrTime),
         Less(Due(Queue', s), since') = Less(time, k)
  PROVE  Passes
<1>1. ASSUME NEW u \in Slots
      PROVE  \/ Left(u)' = IF Left(u) = -1 THEN -1 ELSE Less(Left(u), n)
             \/ \E t \in Times, i \in 0..(n + IsrTime) : Left(u)' = Less(t, i)
  <2>1. CASE u = s
    <3>1. Left(u)' = Less(Due(Queue', u), since')
      <4>1. Queue'.list = tmrActive'
        BY DEF Queue
      <4> QED BY <2>1, <4>1, LeftNext DEF LeftOf
    <3> QED BY <2>1, <3>1
  <2>2. CASE u # s /\ u \in Range(tmrActive)
    <3>1. Queue'.list = tmrActive' /\ Queue.list = tmrActive
      BY DEF Queue
    <3>2. Left(u)' = Less(Due(Queue', u), since')
      BY <2>2, <3>1, LeftNext DEF LeftOf
    <3>3. Left(u) = Less(Due(Queue, u), since) /\ Left(u) \in Nat
      BY <2>2, <3>1, LeftNow DEF LeftOf
    <3>4. Left(u) # -1
      BY <3>3
    <3> QED BY <2>2, <3>2, <3>3, <3>4
  <2>3. CASE u # s /\ u \notin Range(tmrActive)
    <3>1. Left(u)' = -1
      BY <2>3, LeftNext
    <3>2. Left(u) = -1
      BY <2>3, LeftNow
    <3> QED BY <3>1, <3>2
  <2> QED BY <2>1, <2>2, <2>3
<1> QED BY <1>1 DEF Aged, Passes

\* What is to be shown of a step that ends in the main loop.
LEMMA ThreadClock ==
  ASSUME pc' = "thread", counter' = Wrap(previous' + since'), since' \in Nat, since' <= Period,
         irq' = 0 => since' + Ahead' <= Reach,
         irq' # 0 => irq' \in Nat /\ since' <= Reach + irq' - 1
  PROVE  ClockInv'
BY DEF ClockInv

\* A timer is put in.
LEMMA InsertClock ==
  ASSUME FullInv, NEW q, NEW s, Ready(q, s), Pending(q, s) \in Times, Insert(q, s),
         Range(q.list) = Range(tmrActive) \ {s},
         \A u \in Range(q.list) : Due(q, u) = Due(Queue, u),
         pc' = pc, delaying'["isr"] = NoTimer => delaying["isr"] = NoTimer
  PROVE  ClockInv' /\ ArmedInv' /\ Passes
<1>1. q \in Queues /\ IsInjective(q.list) /\ s \in Slots /\ s \notin Range(q.list)
      /\ ListInv /\ TypeOK /\ since \in Nat
  BY NumbersFacts DEF Ready, FullInv, ListInv, TypeOK
<1>2. Good(Queue')
  BY <1>1, InsertKeeps
<1>3. \A u \in Range(q.list) : Due(Queue, u) \in Nat
  BY <1>1, LeftNow
<1>4. Pending(q, s) \in Nat
  BY TimesAssumption
<1>5. CASE InCallback /\ Install(AddToList(q, s)) /\ UNCHANGED hwVars
  <2> DEFINE q1 == AddToList(q, s)
  <2>1. /\ q1 \in Queues /\ Range(q1.list) = Range(q.list) \cup {s}
        /\ Due(q1, s) = Pending(q, s)
        /\ \A u \in Range(q.list) : Due(q1, u) = Due(q, u)
    BY <1>1, AddToListSound
  <2>2. Install(q1)
    BY <1>5
  <2> HIDE DEF q1
  <2>3. q1 = [list |-> q1.list, tm |-> q1.tm]
    BY <2>1 DEF Queues
  <2>4. Queue' = q1 /\ tmrActive' = q1.list
    BY <2>2, <2>3 DEF Install, Queue
  <2>5. pc = "callback" /\ delaying["isr"] = NoTimer /\ since <= IsrTime
    BY <1>5 DEF InCallback, FullInv, ClockInv
  <2>6. UNCHANGED <<counter, compare, irq, previous, since>>
    BY <1>5 DEF hwVars
  <2>7. ClockInv' /\ ArmedInv'
    BY <2>5, <2>6 DEF FullInv, ClockInv, ArmedInv
  <2>8. counter' = After(0)
    BY <1>1, <2>6, AfterIs, Times2 DEF Wrap, TypeOK
  <2>9. \A u \in Range(q.list) :
          Less(Due(Queue', u), since') = Less(Less(Due(Queue, u), since), 0)
    BY <1>1, <1>3, <2>1, <2>4, <2>6 DEF Less
  <2>10. Less(Due(Queue', s), since') = Less(Pending(q, s), since)
    BY <2>1, <2>4, <2>6
  <2>11. 0 \in 0..MaxStep /\ since \in 0..(0 + IsrTime)
    BY <1>1, <2>5, Times2 DEF MaxStep
  <2>12. Range(tmrActive') = Range(q.list) \cup {s} /\ since' \in Nat
    BY <1>1, <2>1, <2>4, <2>6
  <2> QED BY <1>1, <1>2, <2>7, <2>8, <2>9, <2>10, <2>11, <2>12, AgedWith
<1>6. ASSUME InThread, NEW r \in 1..ReadTime,
             LET now == After(r)
                 q1  == AddToList(UpdateTimerList(q, GetElapsedCount(now)), s)
             IN /\ Install(q1)
                /\ IF Head(q1.list) = s
                   THEN \E r2 \in 1..ReadTime, w \in 0..WriteTime :
                          /\ Advance(r + r2 + w, r2 + w)
                          /\ Rearm(q1, now, r, r2, w)
                   ELSE Advance(r, 0) /\ previous' = now /\ UNCHANGED compare
      PROVE  ClockInv' /\ ArmedInv' /\ Passes
  <2>0. pc = "thread" /\ irq = 0 /\ r \in Nat /\ r >= 1 /\ r <= ReadTime
    BY <1>6, Times2 DEF InThread
  <2>1. /\ delaying["isr"] = NoTimer /\ counter = Wrap(previous + since)
        /\ since + r > 0 /\ since + r <= Period + 1
    BY <1>1, <2>0, ThreadFacts, Times2
  <2>2. GetElapsedCount(After(r)) = since + r
    BY <1>1, <2>0, <2>1, ElapsedIs
  <2> DEFINE now == After(r)
             e == since + r
             q0 == UpdateTimerList(q, e)
             q1 == AddToList(q0, s)
  <2>3. e \in Nat /\ now \in 0..Period
    BY <1>1, <2>0, AfterType
  <2>4. /\ Install(q1)
        /\ IF Head(q1.list) = s
           THEN \E r2 \in 1..ReadTime, w \in 0..WriteTime :
                  /\ Advance(r + r2 + w, r2 + w)
                  /\ Rearm(q1, now, r, r2, w)
           ELSE Advance(r, 0) /\ previous' = now /\ UNCHANGED compare
    BY <1>6, <2>2
  <2> HIDE DEF now, e
  <2>5. /\ q0 \in Queues /\ q0.list = q.list /\ Ready(q0, s)
        /\ \A u \in Range(q.list) : Due(q0, u) = Less(Due(q, u), e)
        /\ Pending(q0, s) = Pending(q, s)
    BY <1>1, <2>3, UpdateTimerListSound, UpdateKeeps DEF Pending
  <2> HIDE DEF q0
  <2>6. /\ q1 \in Queues /\ IsInjective(q1.list) /\ Good(q1)
        /\ Range(q1.list) = Range(q.list) \cup {s}
        /\ Due(q1, s) = Pending(q, s)
        /\ \A u \in Range(q.list) : Due(q1, u) = Less(Due(Queue, u), e)
    <3>1. IsInjective(q0.list) /\ s \notin Range(q0.list)
      BY <1>1, <2>5
    <3> QED BY <1>1, <2>5, <3>1, AddToListSound, AddKeeps
  <2> HIDE DEF q1
  <2>7. q1 = [list |-> q1.list, tm |-> q1.tm]
    BY <2>6 DEF Queues
  <2>8. Queue' = q1 /\ tmrActive' = q1.list
    BY <2>4, <2>7 DEF Install, Queue
  <2>9. ASSUME NEW d \in Nat, since' = d
        PROVE  /\ \A u \in Range(q.list) :
                    Less(Due(Queue', u), since') = Less(Less(Due(Queue, u), since), r + d)
               /\ Less(Due(Queue', s), since') = Less(Pending(q, s), d)
    <3>1. ASSUME NEW u \in Range(q.list)
          PROVE  Less(Due(Queue', u), since') = Less(Less(Due(Queue, u), since), r + d)
      <4>1. Due(Queue, u) \in Nat /\ Due(Queue', u) = Less(Due(Queue, u), since + r)
        BY <1>3, <2>6, <2>8 DEF e
      <4> HIDE DEF Queue
      <4> QED BY <1>1, <2>0, <2>9, <4>1 DEF Less
    <3> QED BY <2>6, <2>8, <2>9, <3>1
  <2>10. Range(tmrActive') = Range(q.list) \cup {s}
    BY <2>6, <2>8
  <2>11. ASSUME NEW r2 \in 1..ReadTime, NEW w \in 0..WriteTime,
                Advance(r + r2 + w, r2 + w), Rearm(q1, now, r, r2, w)
         PROVE  ClockInv' /\ ArmedInv' /\ Passes
    <3>1. /\ r2 \in Nat /\ r2 >= 1 /\ r2 <= ReadTime /\ w \in Nat /\ w <= WriteTime
          /\ r2 + w \in Nat /\ r + r2 + w = r + (r2 + w)
          /\ r + (r2 + w) <= MaxStep /\ MaxStep <= Period
          /\ r + r2 + w \in 1..(Period + 1) /\ r2 + w <= SinceMax /\ r2 + w <= Reach
          /\ r2 + w <= Period
      BY <2>0, Times2, ReachIs DEF MaxStep
    <3>2. /\ counter' = After(r + r2 + w) /\ since' = r2 + w /\ irq' \in {0, 1}
      BY <1>1, <2>0, <2>11, <3>1, AdvanceIs
    <3>3. compare' = CompareValue(q1, now, After(r + r2)) /\ previous' = now
      BY <2>11 DEF Rearm
    <3>4. After(r + r2) = Wrap(now + r2) /\ counter' = Wrap(now + (r2 + w))
      BY <1>1, <2>0, <3>1, <3>2, AfterAfter, Times2 DEF now
    <3>5. since' + Ahead' <= Reach /\ ArmedFor(Queue', Ahead', since')
      <4>1. r2 \in 1..(IsrTime + ReadTime)
        BY <3>1, Times2
      <4> QED BY <2>3, <2>6, <2>8, <3>2, <3>3, <3>4, <4>1, RearmKeeps
    <3>6. ClockInv' /\ ArmedInv'
      <4>1. pc' = "thread" /\ counter' = Wrap(previous' + since')
        BY <2>0, <3>2, <3>3, <3>4
      <4>2. since' \in Nat /\ since' <= Period /\ since' <= Reach
        BY <3>1, <3>2
      <4>3. irq' # 0 => irq' \in Nat /\ since' <= Reach + irq' - 1
        BY <3>2, <4>2, ReachIs
      <4>4. ClockInv'
        BY <3>5, <4>1, <4>2, <4>3, ThreadClock
      <4> QED BY <3>5, <4>4 DEF ArmedInv
    <3>7. /\ counter' = After(r + (r2 + w)) /\ r + (r2 + w) \in 0..MaxStep /\ since' \in Nat
          /\ r2 + w \in 0..(r + (r2 + w) + IsrTime)
      BY <2>0, <3>1, <3>2, Times2 DEF MaxStep
    <3>8. Passes
      BY <1>1, <1>2, <2>9, <2>10, <3>1, <3>2, <3>7, AgedWith
    <3> QED BY <3>6, <3>8
  <2>12. ASSUME Head(q1.list) # s, Advance(r, 0), previous' = now, UNCHANGED compare
         PROVE  ClockInv' /\ ArmedInv' /\ Passes
    <3>1. r \in 1..(Period + 1) /\ r <= MaxStep /\ r + 0 = r
      BY <2>0, Times2 DEF MaxStep
    <3>2. /\ counter' = now /\ since' = 0 /\ irq' \in {0, 1}
          /\ irq' = 0 => Ahead' = Ahead - r
      BY <1>1, <2>0, <2>12, <3>1, AdvanceIs, Times2 DEF now
    <3>3. counter' = Wrap(previous' + since')
      <4>1. now \in Nat /\ now <= Period
        BY <2>3, Times2
      <4> QED BY <2>12, <3>2, <4>1 DEF Wrap
    <3>4. Ahead \in Nat /\ Ahead >= 1 /\ since + Ahead <= Reach
      <4>1. Ahead \in 1..(Period + 1)
        BY <1>1, AheadIs DEF Ahead, AheadOf, TypeOK
      <4> QED BY <2>0, <4>1, Times2 DEF FullInv, ClockInv
    <3>5. ClockInv'
      <4>1. pc' = "thread" /\ since' \in Nat /\ since' <= Period
        BY <2>0, <3>2, Times2
      <4>2. ASSUME irq' = 0 PROVE since' + Ahead' <= Reach
        <5>1. since' = 0 /\ Ahead' = Ahead - r
          BY <3>2, <4>2
        <5>2. since \in Nat /\ r \in Nat /\ Reach \in Nat
          BY <1>1, <2>0, ReachIs
        <5> QED BY <3>4, <5>1, <5>2
      <4>3. ASSUME irq' # 0 PROVE irq' \in Nat /\ since' <= Reach + irq' - 1
        <5>1. since' = 0 /\ irq' = 1 /\ Reach \in Nat
          BY <3>2, <4>3, ReachIs
        <5> QED BY <5>1
      <4> QED BY <3>3, <4>1, <4>2, <4>3, ThreadClock
    <3>6. ArmedInv'
      <4> SUFFICES ASSUME irq' = 0 PROVE ArmedFor(Queue', Ahead', since')
        BY DEF ArmedInv
      <4>1. Ahead' = Ahead - r
        BY <3>2
      <4>2. ArmedFor(Queue, Ahead, since)
        BY <2>0 DEF FullInv, ArmedInv
      <4>3. CASE Ahead <= Margin + 1
        BY <2>0, <3>4, <4>1, <4>3, Times2 DEF ArmedFor
      <4>4. CASE Ahead <= Half + 1 /\ \A u \in Range(Queue.list) : Ahead <= Less(Due(Queue, u), since) + 1
        <5>1. ASSUME NEW u \in Range(q.list) PROVE Ahead' <= Less(Due(Queue', u), since') + 1
          <6>1. u \in Range(Queue.list) /\ Due(Queue, u) \in Nat
            BY <1>3 DEF Queue
          <6>2. Ahead <= Less(Due(Queue, u), since) + 1
            BY <4>4, <6>1
          <6>3. Due(Queue', u) = Less(Due(Queue, u), since + r)
            BY <2>6, <2>8 DEF e
          <6> HIDE DEF Queue
          <6> QED BY <1>1, <2>0, <3>2, <3>4, <4>1, <6>1, <6>2, <6>3 DEF Less
        <5>2. Ahead' <= Less(Due(Queue', s), since') + 1
          <6>1. q1.list # <<>>
            <7>1. DOMAIN <<>> = {}
              OBVIOUS
            <7> QED BY <2>6, <7>1 DEF Range
          <6> DEFINE h == Head(q1.list)
          <6>2. h \in Range(q1.list) /\ h \in Range(q.list)
            BY <2>6, <2>12, <6>1, HeadIsFirst
          <6>3. Due(q1, h) \in Nat /\ Due(q1, s) \in Nat /\ Due(q1, h) <= Due(q1, s)
            BY <2>6, <6>1, <6>2, HeadIsFirst
          <6>4. Ahead' <= Less(Due(Queue', h), since') + 1
            BY <5>1, <6>2
          <6> HIDE DEF h, Queue
          <6>5. Ahead' \in Int
            BY <2>0, <3>4, <4>1
          <6> QED BY <2>8, <3>2, <6>3, <6>4, <6>5 DEF Less
        <5>3. \A u \in Range(Queue'.list) : Ahead' <= Less(Due(Queue', u), since') + 1
          <6>1. Range(Queue'.list) = Range(q.list) \cup {s}
            BY <2>6, <2>8
          <6> HIDE DEF Queue
          <6> QED BY <5>1, <5>2, <6>1
        <5>4. Ahead' <= Half + 1
          BY <2>0, <3>4, <4>1, <4>4, Times2
        <5> QED BY <5>3, <5>4 DEF ArmedFor
      <4> QED BY <4>2, <4>3, <4>4 DEF ArmedFor
    <3>7. /\ counter' = After(r) /\ r \in 0..MaxStep /\ since' \in Nat
          /\ 0 \in 0..(r + IsrTime)
      BY <2>0, <3>1, <3>2, Times2 DEF MaxStep, now
    <3>8. Passes
      <4>1. /\ \A u \in Range(q.list) :
                 Less(Due(Queue', u), since') = Less(Less(Due(Queue, u), since), r)
            /\ Less(Due(Queue', s), since') = Less(Pending(q, s), 0)
        BY <2>9, <3>1, <3>2
      <4> QED BY <1>1, <1>2, <2>10, <3>7, <4>1, AgedWith
    <3> QED BY <3>5, <3>6, <3>8
  <2> QED BY <2>4, <2>11, <2>12
<1> QED BY <1>5, <1>6 DEF Insert

-------------------------------------------------------------------------------
(* Time passes, and timers leave.                                            *)

\* A step that leaves the clock alone.
LEMMA ClockStays ==
  ASSUME ClockInv, UNCHANGED hwVars, delaying'["isr"] = delaying["isr"],
         pc' = "thread" <=> pc = "thread"
  PROVE  ClockInv'
<1>1. UNCHANGED <<counter, compare, irq, previous, since>>
  BY DEF hwVars
<1>2. Ahead' = Ahead
  BY <1>1 DEF Ahead
<1> QED BY <1>1, <1>2 DEF ClockInv

\* A step in which the list stays and n ticks pass.
LEMMA AgedAlone ==
  ASSUME ListInv, Queue' = Queue, NEW n \in 0..MaxStep, counter' = After(n), since' \in Nat,
         \A u \in Range(tmrActive) :
           Less(Due(Queue, u), since') = Less(Less(Due(Queue, u), since), n)
  PROVE  Passes
<1>1. Good(Queue') /\ tmrActive' = tmrActive
  BY DEF ListInv, Queue
<1>2. ASSUME NEW u \in Slots
      PROVE  Left(u)' = IF Left(u) = -1 THEN -1 ELSE Less(Left(u), n)
  <2>1. CASE u \in Range(tmrActive)
    <3>1. Left(u)' = Less(Due(Queue, u), since')
      BY <1>1, <2>1, LeftNext DEF LeftOf, Queue
    <3>2. Left(u) = Less(Due(Queue, u), since) /\ Left(u) \in Nat
      BY <2>1, LeftNow DEF LeftOf, Queue
    <3>3. Left(u) # -1
      BY <3>2
    <3> QED BY <2>1, <3>1, <3>2, <3>3
  <2>2. CASE u \notin Range(tmrActive)
    <3>1. Left(u)' = -1
      BY <1>1, <2>2, LeftNext
    <3>2. Left(u) = -1
      BY <2>2, LeftNow
    <3> QED BY <3>1, <3>2
  <2> QED BY <2>1, <2>2
<1> QED BY <1>2 DEF Aged, Passes

LEMMA TickClock ==
  ASSUME FullInv, Tick
  PROVE  ClockInv' /\ ArmedInv' /\ Passes
<1>1. /\ ListInv /\ TypeOK /\ since \in Nat /\ irq \in Nat /\ irq <= Latency
      /\ Ahead \in Nat /\ Ahead >= 1
  <2>1. Ahead \in 1..(Period + 1)
    BY AheadIs DEF Ahead, AheadOf, FullInv, ListInv, TypeOK
  <2> QED BY <2>1, Times2 DEF FullInv, ListInv, TypeOK, Tick
<1>2. /\ Advance(1, since + 1) /\ Queue' = Queue
      /\ UNCHANGED <<compare, previous, timers, tmrActive, pc, notified, delaying>>
  BY DEF Tick, Queue
<1>3. /\ counter' = After(1) /\ After(1) = Wrap(counter + 1)
      /\ since' = IF since + 1 <= SinceMax THEN since + 1 ELSE SinceMax
      /\ irq = 0 => irq' \in {0, 1}
      /\ irq = 0 /\ irq' # 0 => Ahead <= 1
      /\ irq = 0 /\ irq' = 0 => Ahead' = Ahead - 1
  <2>1. 1 \in 1..(Period + 1) /\ since + 1 \in Nat
    BY <1>1, Times2
  <2> QED BY <1>1, <1>2, <2>1, AdvanceIs
<1>4. irq # 0 /\ pc = "thread" => irq' = irq + 1
  BY <1>2 DEF Advance
<1>5. since' \in Nat /\ since' <= since + 1 /\ (since + 1 <= Period => since' = since + 1)
  BY <1>1, <1>3, Times2
<1>6. pc = "thread" => since + 1 <= Period /\ delaying["isr"] = NoTimer
                       /\ counter = Wrap(previous + since)
  <2>1. CASE pc = "thread" /\ irq = 0
    <3>1. since + Ahead <= Reach /\ Reach + Latency + ReadTime <= Period + 1
      BY <2>1, ReachIs DEF FullInv, ClockInv
    <3> QED BY <1>1, <2>1, <3>1, ThreadFacts, ReachIs, Times2
  <2>2. CASE pc = "thread" /\ irq # 0
    <3>1. since <= Reach + irq - 1 /\ Reach + Latency + ReadTime <= Period + 1
      BY <2>2, ReachIs DEF FullInv, ClockInv
    <3> QED BY <1>1, <2>2, <3>1, ThreadFacts, ReachIs, Times2
  <2> QED BY <2>1, <2>2
<1>7. pc # "thread" /\ delaying["isr"] = NoTimer =>
        since + 1 <= IsrTime /\ since + 1 <= Period /\ counter = Wrap(previous + since)
  BY <1>1, Times2 DEF Tick, FullInv, ClockInv
<1>8. ASSUME since + 1 <= Period, counter = Wrap(previous + since)
      PROVE  counter' = Wrap(previous' + since') /\ since' = since + 1
  <2>1. previous \in Nat /\ previous <= Period /\ previous' = previous
    BY <1>1, <1>2, Times2 DEF TypeOK
  <2> QED BY <1>1, <1>3, <1>5, <1>8, <2>1, Times2 DEF Wrap
<1>9. ClockInv'
  <2>1. CASE pc = "thread"
    <3>1. /\ pc' = "thread" /\ counter' = Wrap(previous' + since')
          /\ since' = since + 1 /\ since' <= Period
      BY <1>2, <1>6, <1>8, <2>1
    <3>2. irq' = 0 => since' + Ahead' <= Reach
      <4>1. irq' = 0 => irq = 0
        BY <1>1, <1>4, <2>1
      <4>2. irq' = 0 => since + Ahead <= Reach
        BY <2>1, <4>1 DEF FullInv, ClockInv
      <4> QED BY <1>1, <1>3, <3>1, <4>1, <4>2
    <3>3. irq' # 0 => irq' \in Nat /\ since' <= Reach + irq' - 1
      <4>1. CASE irq = 0
        <5>1. since + Ahead <= Reach
          BY <2>1, <4>1 DEF FullInv, ClockInv
        <5>2. irq' # 0 => irq' = 1 /\ Ahead = 1
          BY <1>1, <1>3, <4>1
        <5> QED BY <1>1, <3>1, <5>1, <5>2, ReachIs
      <4>2. CASE irq # 0
        <5>1. since <= Reach + irq - 1 /\ irq' = irq + 1
          BY <1>4, <2>1, <4>2 DEF FullInv, ClockInv
        <5> QED BY <1>1, <3>1, <5>1, ReachIs
      <4> QED BY <4>1, <4>2
    <3>4. since' \in Nat
      BY <1>5
    <3> QED BY <3>1, <3>2, <3>3, <3>4, ThreadClock
  <2>2. CASE pc # "thread"
    <3>1. pc' # "thread" /\ delaying' = delaying
      BY <1>2, <2>2
    <3>2. delaying["isr"] = NoTimer =>
            counter' = Wrap(previous' + since') /\ since' <= Period /\ since' <= IsrTime
      BY <1>7, <1>8, <2>2
    <3>3. ~(pc' = "thread")
      BY <3>1
    <3>4. delaying'["isr"] = NoTimer => delaying["isr"] = NoTimer
      BY <3>1
    <3> QED BY <3>2, <3>3, <3>4 DEF ClockInv
  <2> QED BY <2>1, <2>2
<1>10. ArmedInv'
  <2> SUFFICES ASSUME pc' = "thread", irq' = 0 PROVE ArmedFor(Queue', Ahead', since')
    BY DEF ArmedInv
  <2>1. pc = "thread" /\ irq = 0 /\ Ahead' = Ahead - 1 /\ since' = since + 1
    <3>1. pc = "thread"
      BY <1>2
    <3>2. irq = 0
      BY <1>1, <1>4, <3>1
    <3> QED BY <1>3, <1>6, <1>8, <3>1, <3>2
  <2>2. ArmedFor(Queue, Ahead, since)
    BY <2>1 DEF FullInv, ArmedInv
  <2>3. CASE Ahead <= Margin + 1
    BY <1>1, <2>1, <2>3, Times2 DEF ArmedFor
  <2>4. CASE Ahead <= Half + 1 /\ \A u \in Range(Queue.list) : Ahead <= Less(Due(Queue, u), since) + 1
    <3>1. ASSUME NEW u \in Range(Queue.list) PROVE Ahead' <= Less(Due(Queue, u), since') + 1
      <4>1. Due(Queue, u) \in Nat
        BY <1>1, LeftNow DEF Queue
      <4>2. Ahead <= Less(Due(Queue, u), since) + 1
        BY <2>4
      <4> HIDE DEF Queue
      <4> QED BY <1>1, <2>1, <4>1, <4>2 DEF Less
    <3> QED BY <1>1, <1>2, <2>1, <2>4, <3>1, Times2 DEF ArmedFor
  <2> QED BY <2>2, <2>3, <2>4 DEF ArmedFor
<1>11. Passes
  <2>1. ASSUME NEW u \in Range(tmrActive)
        PROVE  Less(Due(Queue, u), since') = Less(Less(Due(Queue, u), since), 1)
    <3>1. Due(Queue, u) \in Nat /\ Due(Queue, u) <= SinceMax
      BY <1>1, LeftNow DEF ListInv, Good, Queue
    <3> HIDE DEF Queue
    <3> QED BY <1>1, <1>3, <3>1, Times2 DEF Less
  <2>2. 1 \in 0..MaxStep
    BY Times2 DEF MaxStep
  <2> QED BY <1>1, <1>2, <1>3, <1>5, <2>1, <2>2, AgedAlone
<1> QED BY <1>9, <1>10, <1>11

LEMMA CreateClock ==
  ASSUME FullInv, NEW s \in Slots, NEW type \in Types, NEW time \in Times,
         Create(s, type, time), pc' = pc,
         delaying'["isr"] = NoTimer => delaying["isr"] = NoTimer
  PROVE  ClockInv' /\ ArmedInv' /\ Passes
<1> DEFINE t == Created(type, time)
           q == [Queue EXCEPT !.tm[s] = t]
<1>1. /\ t.active /\ ~t.tmrElapsed /\ ~t.tmrElapsedFlag /\ t.inUse /\ t.requestedTime = time
      /\ t.relativeTimePending = time
      /\ t \in TimerObjects
  BY TimesAssumption DEF Created, Free, TimerObjects, Types
<1>2. ListInv /\ TypeOK /\ Good(Queue) /\ ~Runs(timers[s])
  <2>1. ListInv
    BY DEF FullInv
  <2>2. ~Runs(timers[s])
    BY <2>1, CreateKeeps
  <2> QED BY <2>1, <2>2 DEF ListInv
<1>3. Insert(q, s)
  BY DEF Create, Created
<1> HIDE DEF t
<1>4. q = [RemoveFromList(Queue, s) EXCEPT !.tm[s] = t]
  BY <1>2, NotListed
<1> HIDE DEF q
<1>5. /\ Ready(q, s) /\ q.tm[s] = t
      /\ Range(q.list) = Range(tmrActive) \ {s}
      /\ \A u \in Range(tmrActive) \ {s} : Due(q, u) = Due(Queue, u)
  BY <1>1, <1>2, <1>4, ReadyWith
<1>6. Pending(q, s) \in Times
  BY <1>1, <1>5 DEF Pending
<1> QED BY <1>3, <1>5, <1>6, InsertClock

LEMMA CallbackRegisterClock ==
  ASSUME FullInv, NEW s \in Slots, NEW type \in Types, NEW time \in Times,
         CallbackRegister(s, type, time)
  PROVE  ClockInv' /\ ArmedInv' /\ Passes
<1>1. Create(s, type, time) /\ pc' = pc /\ delaying' = delaying
  BY DEF CallbackRegister
<1> QED BY <1>1, CreateClock

LEMMA DelayClock ==
  ASSUME FullInv, NEW s \in Slots, NEW time \in Times, Delay(s, time)
  PROVE  ClockInv' /\ ArmedInv' /\ Passes
<1>1. Create(s, "delay", time) /\ pc' = pc /\ "delay" \in Types
  BY DEF Delay, Types
<1> DEFINE c0 == IF InThread THEN "thread" ELSE "isr"
<1>2. /\ delaying' = [delaying EXCEPT ![c0] = s] /\ c0 \in Contexts
      /\ delaying \in [Contexts -> Slots \cup {NoTimer}] /\ s # NoTimer /\ "isr" \in Contexts
  BY DEF Delay, Contexts, FullInv, ListInv, TypeOK, Slots, NoTimer
<1> HIDE DEF c0
<1>3. delaying'["isr"] = NoTimer => delaying["isr"] = NoTimer
  BY <1>2
<1> QED BY <1>1, <1>3, CreateClock

LEMMA StartOrReloadClock ==
  ASSUME FullInv, NEW s \in Slots, NEW t, NEW q,
         q = [RemoveFromList(Queue, s) EXCEPT !.tm[s] = t],
         t.active, ~t.tmrElapsed, ~t.tmrElapsedFlag, t.inUse, t.requestedTime \in Times,
         t.relativeTimePending \in Times, t \in TimerObjects, Insert(q, s),
         UNCHANGED <<pc, notified, delaying>>
  PROVE  ClockInv' /\ ArmedInv' /\ Passes
<1>1. ListInv /\ TypeOK /\ Good(Queue)
  BY DEF FullInv, ListInv
<1>2. /\ Ready(q, s) /\ q.tm[s] = t
      /\ Range(q.list) = Range(tmrActive) \ {s}
      /\ \A u \in Range(tmrActive) \ {s} : Due(q, u) = Due(Queue, u)
  BY <1>1, ReadyWith
<1>3. Pending(q, s) \in Times
  BY <1>2 DEF Pending
<1> QED BY <1>2, <1>3, InsertClock

LEMMA TimerStartClock ==
  ASSUME FullInv, NEW s, TimerStart(s)
  PROVE  ClockInv' /\ ArmedInv' /\ Passes
<1> DEFINE t == Started(timers[s])
           q == [Queue EXCEPT !.tm[s] = t]
<1>1. s \in Handles /\ ~timers[s].active /\ UNCHANGED <<pc, notified, delaying>> /\ s \in Slots
      /\ ListInv
  BY DEF TimerStart, Handles, FullInv
<1>2. /\ t.active /\ ~t.tmrElapsed /\ ~t.tmrElapsedFlag /\ t.inUse
      /\ t.requestedTime \in Times /\ t.relativeTimePending \in Times
      /\ t \in TimerObjects /\ ~Runs(timers[s])
  BY <1>1, StartedIs
<1>3. Insert(q, s)
  BY <1>1, QueueIs DEF TimerStart, Started, ListInv
<1> HIDE DEF t
<1>4. q = [RemoveFromList(Queue, s) EXCEPT !.tm[s] = t]
  BY <1>1, <1>2, NotListed DEF ListInv
<1> HIDE DEF q
<1> QED BY <1>1, <1>2, <1>3, <1>4, StartOrReloadClock

LEMMA TimerReloadClock ==
  ASSUME FullInv, NEW s, NEW type \in Types \ {"delay"}, NEW time \in Times,
         TimerReload(s, type, time)
  PROVE  ClockInv' /\ ArmedInv' /\ Passes
<1> DEFINE t == Reloaded(timers[s], type, time)
           q == [RemoveFromList(Queue, s) EXCEPT !.tm[s] = t]
<1>1. s \in Handles /\ UNCHANGED <<pc, notified, delaying>> /\ s \in Slots /\ ListInv
  BY DEF TimerReload, Handles, FullInv
<1>2. timers[s] \in TimerObjects /\ timers[s].inUse
  BY <1>1, QueueIs DEF ListInv, Handles
<1>3. /\ t.active /\ ~t.tmrElapsed /\ ~t.tmrElapsedFlag /\ t.inUse
      /\ t.requestedTime \in Times /\ t.relativeTimePending \in Times
      /\ t \in TimerObjects
  BY <1>2, TimesAssumption DEF Reloaded, Clears, TimerObjects
<1>4. Insert(q, s)
  BY <1>1, RemovedObject DEF TimerReload, Reloaded
<1> HIDE DEF t
<1>5. q = [RemoveFromList(Queue, s) EXCEPT !.tm[s] = t]
  OBVIOUS
<1> HIDE DEF q
<1> QED BY <1>1, <1>3, <1>4, <1>5, StartOrReloadClock

\* Timer s leaves the list, or was not in it; nothing else happens to the clock.
LeavesOnly(s) ==
  /\ UNCHANGED <<counter, since>>
  /\ Left(s)' = -1
  /\ \A u \in Slots \ {s} : Left(u)' = Left(u)

LEMMA LeaveClock ==
  ASSUME FullInv, NEW s \in Slots, NEW t \in TimerObjects, ObjectOK(t), ~Runs(t),
         Install([RemoveFromList(Queue, s) EXCEPT !.tm[s] = t]), UNCHANGED hwVars
  PROVE  /\ LeavesOnly(s)
         /\ pc' = pc => ArmedInv'
<1>1. ListInv /\ since \in Nat /\ UNCHANGED <<counter, compare, irq, previous, since>>
  <2>1. UNCHANGED <<counter, compare, irq, previous, since>>
    BY DEF hwVars
  <2>2. ListInv
    BY DEF FullInv
  <2>3. since \in Nat
    BY <2>2, Times2 DEF ListInv, TypeOK
  <2> QED BY <2>1, <2>2, <2>3
<1>2. /\ Good(Queue')
      /\ Range(tmrActive') = Range(tmrActive) \ {s}
      /\ \A u \in Range(tmrActive) \ {s} : Due(Queue', u) = Due(Queue, u)
  BY <1>1, LeaveKeeps
<1>3. Queue.list = tmrActive /\ Queue'.list = tmrActive'
  BY DEF Queue
<1>4. Left(s)' = -1
  BY <1>1, <1>2, LeftNext
<1>5. ASSUME NEW u \in Slots \ {s} PROVE Left(u)' = Left(u)
  <2>1. CASE u \in Range(tmrActive)
    <3>1. Left(u)' = Less(Due(Queue', u), since')
      BY <1>1, <1>2, <1>3, <2>1, LeftNext DEF LeftOf
    <3>2. Left(u) = Less(Due(Queue, u), since)
      BY <1>1, <1>3, <2>1, LeftNow DEF LeftOf
    <3> QED BY <1>1, <1>2, <2>1, <3>1, <3>2
  <2>2. CASE u \notin Range(tmrActive)
    <3>1. Left(u)' = -1
      BY <1>1, <1>2, <2>2, LeftNext
    <3>2. Left(u) = -1
      BY <1>1, <2>2, LeftNow
    <3> QED BY <3>1, <3>2
  <2> QED BY <2>1, <2>2
<1>6. ASSUME pc' = pc PROVE ArmedInv'
  <2> SUFFICES ASSUME pc' = "thread", irq' = 0 PROVE ArmedFor(Queue', Ahead', since')
    BY DEF ArmedInv
  <2>1. ArmedFor(Queue, Ahead, since)
    BY <1>1, <1>6 DEF FullInv, ArmedInv
  <2>2. Ahead' = Ahead /\ since' = since
    BY <1>1 DEF Ahead
  <2>3. \A u \in Range(Queue'.list) : u \in Range(Queue.list) /\ Due(Queue', u) = Due(Queue, u)
    BY <1>2, <1>3
  <2> HIDE DEF Queue
  <2> QED BY <2>1, <2>2, <2>3 DEF ArmedFor
<1> QED BY <1>1, <1>4, <1>5, <1>6 DEF LeavesOnly

\* The loop of the interrupt has the first reading of the counter.
LEMMA InterruptClock ==
  ASSUME FullInv, Interrupt
  PROVE  ClockInv' /\ ArmedInv' /\ Passes
<1>1. pc = "thread" /\ UNCHANGED <<notified, delaying>> /\ ListInv /\ TypeOK /\ Good(Queue)
  BY DEF Interrupt, FullInv, ListInv
<1>2. /\ delaying["isr"] = NoTimer /\ counter = Wrap(previous + since)
      /\ since \in Nat /\ since + ReadTime <= Period + 1
  BY <1>1, ThreadFacts
<1> PICK r \in 1..ReadTime :
      LET now == After(r)
      IN IF tmrActive = <<>>
         THEN \E r2 \in 1..ReadTime, w \in 0..WriteTime :
                /\ counter' = After(r + r2 + w) /\ since' = r2 + w /\ irq' = 0
                /\ Rearm(Queue, now, r, r2, w)
                /\ UNCHANGED <<timers, tmrActive, pc>>
         ELSE /\ counter' = now /\ since' = 0 /\ irq' = 0
              /\ previous' = now
              /\ Install(UpdateTimerList(Queue, GetElapsedCount(now)))
              /\ pc' = "notify"
              /\ UNCHANGED compare
  BY DEF Interrupt
<1> DEFINE now == After(r)
<1>3. now \in 0..Period /\ r \in Nat /\ r >= 1 /\ r <= ReadTime
  BY <1>1, AfterType, Times2
<1>4. CASE tmrActive = <<>>
  <2> PICK r2 \in 1..ReadTime, w \in 0..WriteTime :
         /\ counter' = After(r + r2 + w) /\ since' = r2 + w /\ irq' = 0
         /\ Rearm(Queue, now, r, r2, w)
         /\ UNCHANGED <<timers, tmrActive, pc>>
    BY <1>4
  <2>1. /\ r2 \in Nat /\ r2 >= 1 /\ r2 <= ReadTime /\ w \in Nat /\ w <= WriteTime
        /\ r2 + w \in Nat /\ r + r2 + w = r + (r2 + w) /\ r + (r2 + w) \in 0..MaxStep
        /\ MaxStep <= Period /\ r2 + w <= Period /\ r2 \in 1..(IsrTime + ReadTime)
        /\ r + (r2 + w) <= Period + 1 /\ r + r2 <= Period + 1
    BY <1>3, Times2 DEF MaxStep
  <2>2. compare' = CompareValue(Queue, now, After(r + r2)) /\ previous' = now
    BY DEF Rearm
  <2>3. After(r + r2) = Wrap(now + r2) /\ counter' = Wrap(now + (r2 + w))
    BY <1>1, <1>3, <2>1, AfterAfter
  <2>4. Queue' = Queue
    BY DEF Queue
  <2> HIDE DEF now
  <2>5. since' + Ahead' <= Reach /\ ArmedFor(Queue', Ahead', since')
    BY <1>1, <1>3, <2>1, <2>2, <2>3, <2>4, RearmKeeps
  <2>6. ClockInv'
    <3>1. pc' = "thread" /\ counter' = Wrap(previous' + since')
      BY <1>1, <2>2, <2>3
    <3>2. since' \in Nat /\ since' <= Period
      BY <2>1
    <3> QED BY <2>5, <3>1, <3>2, ThreadClock
  <2>7. ArmedInv'
    BY <2>5 DEF ArmedInv
  <2>8. Passes
    <3>1. \A u \in Range(tmrActive) :
            Less(Due(Queue, u), since') = Less(Less(Due(Queue, u), since), r + (r2 + w))
      <4>1. Range(tmrActive) = {}
        <5>1. DOMAIN <<>> = {}
          OBVIOUS
        <5> QED BY <1>4, <5>1 DEF Range
      <4> QED BY <4>1
    <3>2. counter' = After(r + (r2 + w)) /\ since' \in Nat
      BY <2>1
    <3> QED BY <1>1, <2>1, <2>4, <3>1, <3>2, AgedAlone
  <2> QED BY <2>6, <2>7, <2>8
<1>5. CASE tmrActive # <<>>
  <2>1. GetElapsedCount(now) = since + r
    <3>1. since + r > 0 /\ since + r <= Period + 1
      BY <1>2, <1>3, Times2
    <3> QED BY <1>1, <1>2, <1>3, <3>1, ElapsedIs
  <2> DEFINE e == since + r
             q1 == UpdateTimerList(Queue, e)
  <2>2. /\ counter' = now /\ since' = 0 /\ irq' = 0 /\ previous' = now
        /\ Install(q1) /\ pc' = "notify" /\ UNCHANGED compare
    BY <1>5, <2>1
  <2>3. e \in Nat
    BY <1>2, <1>3
  <2> HIDE DEF e
  <2>4. /\ q1 \in Queues /\ Good(q1) /\ q1.list = Queue.list
        /\ \A u \in Range(Queue.list) : Due(q1, u) = Less(Due(Queue, u), e)
    <3>1. Queue \in Queues /\ IsInjective(Queue.list)
      BY <1>1 DEF Good
    <3>2. Good(q1)
      BY <1>1, <2>3, UpdateKeeps
    <3> QED BY <2>3, <3>1, <3>2, UpdateTimerListSound
  <2> HIDE DEF q1
  <2>5. q1 = [list |-> q1.list, tm |-> q1.tm]
    BY <2>4 DEF Queues
  <2>6. Queue' = q1 /\ tmrActive' = tmrActive /\ Queue.list = tmrActive
    BY <2>2, <2>4, <2>5 DEF Install, Queue
  <2>7. ClockInv'
    <3>1. counter' = Wrap(previous' + since')
      <4>1. now \in Nat /\ now <= Period
        BY <1>3, Times2
      <4> HIDE DEF now
      <4> QED BY <2>2, <4>1 DEF Wrap
    <3>2. since' = 0 /\ 0 <= Period /\ 0 <= IsrTime /\ ~(pc' = "thread")
      BY <2>2, Times2
    <3> QED BY <3>1, <3>2 DEF ClockInv
  <2>8. ArmedInv'
    BY <2>2 DEF ArmedInv
  <2>9. ASSUME NEW u \in Slots
        PROVE  Left(u)' = IF Left(u) = -1 THEN -1 ELSE Less(Left(u), r)
    <3>1. Good(Queue') /\ since' \in Nat /\ since' = 0
      BY <2>2, <2>4, <2>6
    <3>2. CASE u \in Range(tmrActive)
      <4>1. Left(u)' = Less(Due(Queue', u), 0) /\ Due(Queue', u) = Less(Due(Queue, u), e)
        <5>1. Queue'.list = q1.list /\ u \in Range(Queue'.list)
          BY <2>4, <2>6, <3>2
        <5> QED BY <2>4, <2>6, <3>1, <3>2, <5>1, LeftNext DEF LeftOf
      <4>2. Left(u) = Less(Due(Queue, u), since) /\ Left(u) \in Nat /\ Due(Queue, u) \in Nat
        BY <1>1, <2>6, <3>2, LeftNow DEF LeftOf
      <4>3. Left(u) # -1
        BY <4>2
      <4> DEFINE d == Due(Queue, u)
      <4>4. Less(Less(d, e), 0) = Less(Less(d, since), r)
        <5>1. d \in Nat
          BY <4>2
        <5> HIDE DEF d
        <5> QED BY <1>2, <1>3, <5>1 DEF Less, e
      <4> QED BY <4>1, <4>2, <4>3, <4>4
    <3>3. CASE u \notin Range(tmrActive)
      <4>1. Left(u)' = -1
        BY <2>6, <3>1, <3>3, LeftNext
      <4>2. Left(u) = -1
        BY <1>1, <3>3, LeftNow
      <4> QED BY <4>1, <4>2
    <3> QED BY <3>2, <3>3
  <2>10. r \in 0..MaxStep /\ counter' = After(r)
    BY <1>3, <2>2, Times2 DEF MaxStep
  <2>11. Passes
    BY <2>9, <2>10 DEF Aged, Passes
  <2> QED BY <2>7, <2>8, <2>11
<1> QED BY <1>4, <1>5

LEMMA InterruptEndClock ==
  ASSUME FullInv, InterruptEnd
  PROVE  ClockInv' /\ ArmedInv' /\ Passes
<1> DEFINE q == Reinserted(Queue)
<1>1. /\ pc = "notify" /\ pc' = "thread" /\ UNCHANGED delaying /\ Install(q)
      /\ ListInv /\ TypeOK /\ Good(Queue)
  BY DEF InterruptEnd, FullInv, ListInv
<1>2. /\ delaying["isr"] = NoTimer /\ counter = Wrap(previous + since)
      /\ since \in Nat /\ since <= IsrTime /\ previous \in 0..Period /\ irq \in Nat
  <2>1. delaying["isr"] = NoTimer
    BY <1>1 DEF ListInv, DelaysSound
  <2>2. since \in Nat /\ previous \in 0..Period /\ irq \in Nat
    BY <1>1, Times2 DEF TypeOK
  <2> QED BY <1>1, <2>1, <2>2 DEF FullInv, ClockInv
<1>3. Back(Queue, q, NumTimers)
  BY <1>1, ReinsertedKeeps
<1> PICK r \in 1..ReadTime, w \in 0..WriteTime :
      /\ Advance(r + w, since + r + w)
      /\ Rearm(q, previous, 0, r, w)
  BY DEF InterruptEnd
<1> HIDE DEF q
<1>4. q \in Queues /\ q = [list |-> q.list, tm |-> q.tm] /\ Good(q)
  BY <1>3 DEF Back, Good, Queues
<1>5. Queue' = q /\ tmrActive' = q.list /\ Queue.list = tmrActive
  BY <1>1, <1>4 DEF Install, Queue
<1> DEFINE x == since + r
<1>6. /\ r \in Nat /\ r >= 1 /\ r <= ReadTime /\ w \in Nat /\ w <= WriteTime
      /\ x \in Nat /\ x \in 1..(IsrTime + ReadTime) /\ x + w <= Period
      /\ r + w \in 1..(Period + 1) /\ since + r + w = x + w /\ since + (r + w) = x + w
      /\ r + w \in 0..MaxStep /\ r + w \in Nat /\ x + w \in Nat /\ r \in 0..(Period + 1)
      /\ x + w <= SinceMax /\ x + w <= Reach /\ 0 + r = r
      /\ x + w \in 0..((r + w) + IsrTime)
  BY <1>2, Times2, ReachIs DEF MaxStep
<1>7. /\ counter' = After(r + w) /\ After(r + w) = Wrap(counter + (r + w)) /\ since' = x + w
      /\ irq = 0 => irq' \in {0, 1}
  <2> HIDE DEF x
  <2> QED BY <1>1, <1>6, AdvanceIs
<1>8. irq # 0 => irq' = irq
  BY <1>1 DEF Advance
<1>9. counter' = Wrap(previous + (x + w)) /\ After(0 + r) = Wrap(previous + x)
  <2>1. previous \in Nat /\ previous <= Period
    BY <1>2, Times2
  <2>2. After(0 + r) = Wrap(counter + r)
    BY <1>1, <1>6, AfterIs
  <2> QED BY <1>2, <1>6, <1>7, <2>1, <2>2, Times2 DEF Wrap
<1>10. compare' = CompareValue(q, previous, Wrap(previous + x)) /\ previous' = previous
  BY <1>9 DEF Rearm
<1> HIDE DEF x
<1>11. since' + Ahead' <= Reach /\ ArmedFor(Queue', Ahead', since')
  BY <1>2, <1>4, <1>5, <1>6, <1>7, <1>9, <1>10, RearmKeeps
<1>12. ClockInv'
  <2>1. pc' = "thread" /\ counter' = Wrap(previous' + since')
    BY <1>1, <1>7, <1>9, <1>10
  <2>2. since' \in Nat /\ since' <= Period /\ since' <= Reach
    BY <1>6, <1>7
  <2>3. irq' # 0 => irq' \in Nat /\ since' <= Reach + irq' - 1
    <3>1. irq' # 0 => irq' \in Nat /\ irq' >= 1
      BY <1>2, <1>7, <1>8
    <3> QED BY <2>2, <3>1, ReachIs
  <2> QED BY <1>11, <2>1, <2>2, <2>3, ThreadClock
<1>13. ArmedInv'
  BY <1>11 DEF ArmedInv
<1>14. Good(Queue') /\ since' \in Nat
  BY <1>4, <1>5, <1>6, <1>7
<1>15. /\ Range(tmrActive) \subseteq Range(q.list)
       /\ \A u \in Range(tmrActive) : Due(q, u) = Due(Queue, u)
       /\ \A u \in Range(q.list) \ Range(tmrActive) : Due(q, u) \in Times
  BY <1>3, <1>5 DEF Back
<1>16. ASSUME NEW u \in Slots
       PROVE  \/ Left(u)' = IF Left(u) = -1 THEN -1 ELSE Less(Left(u), r + w)
              \/ \E time \in Times, k \in 0..((r + w) + IsrTime) : Left(u)' = Less(time, k)
  <2>1. u \in Range(q.list) => Left(u)' = Less(Due(q, u), x + w)
    BY <1>5, <1>7, <1>14, LeftNext DEF LeftOf
  <2>2. CASE u \in Range(tmrActive)
    <3>1. Left(u) = Less(Due(Queue, u), since) /\ Left(u) \in Nat /\ Due(Queue, u) \in Nat
      BY <1>1, <1>5, <2>2, LeftNow DEF LeftOf
    <3>2. Left(u) # -1
      BY <3>1
    <3>3. Left(u)' = Less(Due(Queue, u), x + w)
      BY <1>15, <2>1, <2>2
    <3>4. Less(Due(Queue, u), x + w) = Less(Less(Due(Queue, u), since), r + w)
      <4>1. since + (r + w) = x + w
        BY <1>6 DEF x
      <4> DEFINE d == Due(Queue, u)
      <4>2. d \in Nat
        BY <3>1
      <4> HIDE DEF d
      <4>3. Less(Less(d, since), r + w) = Less(d, since + (r + w))
        BY <1>2, <1>6, <4>2, LessLess
      <4> QED BY <4>1, <4>3 DEF d
    <3> QED BY <3>1, <3>2, <3>3, <3>4
  <2>3. CASE u \notin Range(tmrActive) /\ u \in Range(q.list)
    <3>1. Due(q, u) \in Times
      BY <1>15, <2>3
    <3> QED BY <1>6, <2>1, <2>3, <3>1
  <2>4. CASE u \notin Range(q.list)
    <3>1. Left(u)' = -1
      BY <1>5, <1>14, <2>4, LeftNext
    <3>2. Left(u) = -1
      BY <1>1, <1>15, <2>4, LeftNow
    <3> QED BY <3>1, <3>2
  <2> QED BY <2>2, <2>3, <2>4
<1>17. Passes
  BY <1>6, <1>7, <1>16 DEF Aged, Passes
<1> QED BY <1>12, <1>13, <1>17

LEMMA TimerStopClock ==
  ASSUME FullInv, NEW s, TimerStop(s)
  PROVE  ClockInv' /\ ArmedInv' /\ s \in Slots /\ LeavesOnly(s)
<1>1. UNCHANGED <<hwVars, pc, notified, delaying>> /\ ListInv /\ ClockInv
  BY DEF TimerStop, FullInv
<1>2. ClockInv'
  BY <1>1, ClockStays
<1> QED BY <1>1, <1>2, StopIs, LeaveClock

LEMMA TimerDestroyClock ==
  ASSUME FullInv, NEW s, TimerDestroy(s)
  PROVE  ClockInv' /\ ArmedInv' /\ s \in Slots /\ LeavesOnly(s)
<1>1. UNCHANGED <<hwVars, pc, notified, delaying>> /\ ListInv /\ ClockInv
  BY DEF TimerDestroy, FullInv
<1>2. ClockInv'
  BY <1>1, ClockStays
<1> QED BY <1>1, <1>2, DestroyIs, FreeOK, LeaveClock

LEMMA DelayIsCompleteClock ==
  ASSUME FullInv, NEW c \in Contexts, DelayIsComplete(c)
  PROVE  ClockInv' /\ ArmedInv' /\ \E s \in Slots : LeavesOnly(s)
<1>1. UNCHANGED <<hwVars, pc, notified>> /\ delaying' = [delaying EXCEPT ![c] = NoTimer]
      /\ ListInv /\ ClockInv
  BY DEF DelayIsComplete, FullInv
<1>2. /\ delaying[c] \in Slots /\ c = "thread"
      /\ Install([RemoveFromList(Queue, delaying[c]) EXCEPT !.tm[delaying[c]] = Free])
  BY <1>1, DelayIs
<1> PICK s \in Slots : s = delaying[c]
  BY <1>2
<1>3. delaying'["isr"] = delaying["isr"]
  BY <1>1, <1>2 DEF ListInv, TypeOK, Contexts
<1>4. ClockInv'
  BY <1>1, <1>3, ClockStays
<1>5. ArmedInv' /\ LeavesOnly(s)
  <2>1. Install([RemoveFromList(Queue, s) EXCEPT !.tm[s] = Free])
    BY <1>2
  <2> QED BY <1>1, <2>1, FreeOK, LeaveClock
<1> QED BY <1>4, <1>5

LEMMA ClientNotifyClock ==
  ASSUME FullInv, ClientNotify
  PROVE  /\ ClockInv' /\ ArmedInv'
         /\ \E s \in Slots : notified' = s /\ Left(s) = 0 /\ LeavesOnly(s)
<1>0. Head(tmrActive) \in Slots
  BY NotifyIs DEF FullInv
<1> PICK s \in Slots : s = Head(tmrActive)
  BY <1>0
<1> PICK t : t = NotifiedObject(timers[s])
  OBVIOUS
<1>1. /\ pc = "notify" /\ pc' \in {"notify", "callback"} /\ notified' = s
      /\ UNCHANGED <<hwVars, delaying>> /\ ListInv /\ ClockInv
  BY DEF ClientNotify, FullInv
<1>2. /\ s \in Range(tmrActive) /\ Due(Queue, s) = 0
      /\ t \in TimerObjects /\ ObjectOK(t) /\ ~Runs(t)
      /\ Install([RemoveFromList(Queue, s) EXCEPT !.tm[s] = t])
  BY <1>1, NotifyIs
<1>3. ClockInv'
  BY <1>1, ClockStays
<1>4. ArmedInv'
  BY <1>1 DEF ArmedInv
<1>5. LeavesOnly(s)
  BY <1>1, <1>2, LeaveClock
<1>6. Left(s) = 0
  <2>1. Left(s) = Less(Due(Queue, s), since)
    BY <1>1, <1>2, LeftNow DEF LeftOf, Queue
  <2>2. since \in Nat
    BY <1>1, Times2 DEF ListInv, TypeOK
  <2> QED BY <1>2, <2>1, <2>2 DEF Less
<1> QED BY <1>1, <1>2, <1>3, <1>4, <1>5, <1>6

LEMMA CallbackReturnClock ==
  ASSUME FullInv, CallbackReturn
  PROVE  ClockInv' /\ ArmedInv'
<1>1. /\ UNCHANGED hwVars /\ delaying' = delaying /\ ClockInv
      /\ pc = "callback" /\ pc' = "notify"
  BY DEF CallbackReturn, InCallback, FullInv
<1>2. ClockInv'
  BY <1>1, ClockStays
<1> QED BY <1>1, <1>2 DEF ArmedInv

\* One call of a client.
LEMMA CallClock ==
  ASSUME FullInv, NEW s \in Slots, Call(s)
  PROVE  /\ ClockInv' /\ ArmedInv' /\ notified' = notified
         /\ Passes \/ LeavesOnly(s)
<1>1. ASSUME NEW type \in Kinds \ {"delay"}, NEW time \in Times,
             CallbackRegister(s, type, time) \/ TimerReload(s, type, time)
      PROVE  ClockInv' /\ ArmedInv' /\ notified' = notified /\ Passes
  <2>1. type \in Types \ {"delay"}
    BY KindsAssumption
  <2> QED BY <1>1, <2>1, CallbackRegisterClock, TimerReloadClock
          DEF CallbackRegister, TimerReload
<1>2. ASSUME NEW time \in Times, Delay(s, time)
      PROVE  ClockInv' /\ ArmedInv' /\ notified' = notified /\ Passes
  BY <1>2, DelayClock DEF Delay
<1>3. ASSUME TimerStart(s)
      PROVE  ClockInv' /\ ArmedInv' /\ notified' = notified /\ Passes
  BY <1>3, TimerStartClock DEF TimerStart
<1>4. ASSUME TimerStop(s)
      PROVE  ClockInv' /\ ArmedInv' /\ notified' = notified /\ LeavesOnly(s)
  BY <1>4, TimerStopClock DEF TimerStop
<1>5. ASSUME TimerDestroy(s)
      PROVE  ClockInv' /\ ArmedInv' /\ notified' = notified /\ LeavesOnly(s)
  BY <1>5, TimerDestroyClock DEF TimerDestroy
<1> QED BY <1>1, <1>2, <1>3, <1>4, <1>5 DEF Call

LEMMA InitFull == Init => FullInv
<1> SUFFICES ASSUME Init PROVE FullInv
  OBVIOUS
<1>1. ListInv
  BY InitList
<1>2. /\ counter = 0 /\ compare = Half /\ irq = 0 /\ previous = 0 /\ since = 0
      /\ pc = "thread" /\ tmrActive = <<>> /\ Queue.list = <<>>
  BY DEF Init, Queue
<1>3. Ahead = IF Half > 0 THEN Half ELSE Period + 1
  <2>1. Half \in 0..Period /\ 0 \in 0..Period
    BY Times2
  <2>2. Ahead = AheadOf(Half, 0)
    BY <1>2 DEF Ahead, AheadOf
  <2>3. AheadOf(Half, 0) = IF Half > 0 THEN Half - 0 ELSE Half - 0 + (Period + 1)
    BY <2>1, AheadIs
  <2> QED BY <2>1, <2>2, <2>3, Times2
<1>4. Half > 0
  <2>1. Period \in Nat /\ Period >= 2
    BY Times2
  <2> QED BY <2>1 DEF Half
<1>5. ClockInv
  <2>1. 0 = Wrap(0 + 0)
    BY Times2 DEF Wrap
  <2> QED BY <1>2, <1>3, <1>4, <2>1, ReachIs, Times2 DEF ClockInv
<1>6. Range(Queue.list) = {}
  <2>1. DOMAIN <<>> = {}
    OBVIOUS
  <2> QED BY <1>2, <2>1 DEF Range
<1>7. ArmedInv
  BY <1>2, <1>3, <1>4, <1>6, Times2 DEF ArmedInv, ArmedFor
<1> QED BY <1>1, <1>5, <1>7 DEF FullInv

LEMMA NextFull == FullInv /\ [Next]_vars => FullInv'
<1> SUFFICES ASSUME FullInv, [Next]_vars PROVE ClockInv' /\ ArmedInv'
  BY NextList DEF FullInv
<1>1. CASE UNCHANGED vars
  <2>1. UNCHANGED <<counter, compare, irq, previous, since, timers, tmrActive, pc, delaying>>
    BY <1>1 DEF vars
  <2>2. Queue' = Queue /\ Ahead' = Ahead
    BY <2>1 DEF Queue, Ahead
  <2>3. ClockInv /\ ArmedInv
    BY DEF FullInv
  <2>4. ClockInv'
    BY <2>1, <2>2, <2>3 DEF ClockInv
  <2>5. ArmedInv'
    <3> SUFFICES ASSUME pc' = "thread", irq' = 0 PROVE ArmedFor(Queue', Ahead', since')
      BY DEF ArmedInv
    <3> QED BY <2>1, <2>2, <2>3 DEF ArmedInv
  <2> QED BY <2>4, <2>5
<1> QED BY <1>1, TickClock, CallClock, DelayIsCompleteClock, InterruptClock, ClientNotifyClock,
           CallbackReturnClock, InterruptEndClock DEF Next

LEMMA FullInvariant == Spec => []FullInv
BY InitFull, NextFull, PTL DEF Spec

\* Outside the interrupt the compare register never lies behind the counter, where
\* it would match only a whole counter period later: it matches when the first
\* timer is due, or as soon as the margin allows, and within half a period.
THEOREM ArmedInTimeCorrect == Spec => []ArmedInTime
<1>1. FullInv => ArmedInTime
  <2> SUFFICES ASSUME FullInv, pc = "thread", irq = 0
               PROVE  LET due == IF tmrActive = <<>> THEN Half
                                 ELSE Min({Half, Left(Head(tmrActive))})
                      IN Ahead <= Max({due, Margin}) + 1
    BY DEF ArmedInTime
  <2> DEFINE due == IF tmrActive = <<>> THEN Half ELSE Min({Half, Left(Head(tmrActive))})
  <2>1. ListInv /\ ArmedFor(Queue, Ahead, since) /\ Queue.list = tmrActive /\ since \in Nat
        /\ Queue \in Queues /\ IsInjective(tmrActive)
    BY Times2 DEF FullInv, ListInv, ArmedInv, Queue, TypeOK, Good
  <2>2. Ahead \in Nat
    <3>1. Ahead \in 1..(Period + 1)
      BY <2>1, AheadIs DEF Ahead, AheadOf, ListInv, TypeOK
    <3> QED BY <3>1, Times2
  <2>3. due \in Int /\ (Ahead <= Margin + 1 \/ Ahead <= due + 1)
    <3>1. CASE tmrActive = <<>>
      BY <2>1, <3>1, Times2 DEF ArmedFor
    <3>2. CASE tmrActive # <<>>
      <4> DEFINE h == Head(tmrActive)
      <4>1. h \in Range(tmrActive)
        BY <2>1, <3>2, HeadIsFirst
      <4>2. Left(h) = Less(Due(Queue, h), since) /\ Left(h) \in Nat
        BY <2>1, <4>1, LeftNow DEF LeftOf
      <4> HIDE DEF h
      <4>3. Ahead <= Margin + 1 \/ (Ahead <= Half + 1 /\ Ahead <= Left(h) + 1)
        BY <2>1, <4>1, <4>2 DEF ArmedFor
      <4>4. Min({Half, Left(h)}) = IF Half <= Left(h) THEN Half ELSE Left(h)
        BY <4>2, Times2, MinIs
      <4>5. due = IF Half <= Left(h) THEN Half ELSE Left(h)
        BY <3>2, <4>4 DEF h
      <4> HIDE DEF due
      <4> QED BY <4>2, <4>3, <4>5, Times2
    <3> QED BY <3>1, <3>2
  <2> HIDE DEF due
  <2>4. Max({due, Margin}) = IF due >= Margin THEN due ELSE Margin
    BY <2>3, Times2, MaxIs
  <2>5. Ahead <= Max({due, Margin}) + 1
    BY <2>2, <2>3, <2>4, Times2
  <2> QED BY <2>5 DEF due
<1> QED BY <1>1, FullInvariant, PTL

-------------------------------------------------------------------------------
(* The refinement.                                                           *)

LEMMA PassesIs ==
  ASSUME Passes, notified' \in {notified, NoTimer}
  PROVE  Service!Pass
<1> PICK n \in 0..MaxStep : Aged(n)
  BY DEF Passes
<1> DEFINE left == [s \in Slots |-> Left(s)]
<1>1. counter' = (counter + n) % (Period + 1)
  BY DEF Aged, After
<1>2. DOMAIN left' = Slots
  OBVIOUS
<1>3. ASSUME NEW u \in Slots
      PROVE  \/ left'[u] = IF left[u] = Service!Off THEN Service!Off
                           ELSE Service!Less(left[u], n)
             \/ \E time \in Times, k \in 0..(n + IsrTime) : left'[u] = Service!Less(time, k)
  BY DEF Aged, Service!Off, Service!Less, Less
<1> QED BY <1>1, <1>2, <1>3 DEF Service!Pass, Service!Nobody, NoTimer, MaxStep

\* A timer leaves the list, at its end or before.
LEMMA LeavesIs ==
  ASSUME FullInv, NEW s \in Slots, LeavesOnly(s)
  PROVE  /\ notified' = notified => Service!Stop(s) \/ UNCHANGED Service!vars
         /\ notified' = s /\ Left(s) = 0 => Service!Expire(s)
<1> DEFINE left == [u \in Slots |-> Left(u)]
<1>1. left' = [left EXCEPT ![s] = -1] /\ counter' = counter
  BY DEF LeavesOnly
<1>2. left[s] = Left(s) /\ (left[s] = -1 => left' = left)
  BY <1>1
<1> QED BY <1>1, <1>2 DEF Service!Stop, Service!Expire, Service!Off, Service!vars

\* The list of relative times and the one compare interrupt are a timer service:
\* the time a timer has left follows the clock tick by tick, whatever is done to
\* the others, and it is notified when none is left and not before.
THEOREM ImplementsServiceCorrect == Spec => ImplementsService
<1>1. Init => Service!Init
  <2> SUFFICES ASSUME Init PROVE Service!Init
    OBVIOUS
  <2>1. ListInv
    BY InitList
  <2>2. Range(tmrActive) = {}
    <3>1. DOMAIN <<>> = {}
      OBVIOUS
    <3> QED BY <3>1 DEF Init, Range
  <2>3. [s \in Slots |-> Left(s)] = [s \in Slots |-> -1]
    BY <2>1, <2>2, LeftNow
  <2> QED BY <2>3 DEF Init, Service!Init, Service!Off, Service!Nobody, NoTimer
<1>2. FullInv /\ [Next]_vars => [Service!Next]_(Service!vars)
  <2> SUFFICES ASSUME FullInv, [Next]_vars PROVE Service!Next \/ UNCHANGED Service!vars
    OBVIOUS
  <2>1. CASE Tick
    <3>1. Service!Pass
      BY <2>1, TickClock, PassesIs DEF Tick
    <3> QED BY <3>1 DEF Service!Next
  <2>2. ASSUME NEW s \in Slots, Call(s) PROVE Service!Next \/ UNCHANGED Service!vars
    BY <2>2, CallClock, PassesIs, LeavesIs DEF Service!Next
  <2>3. ASSUME NEW c \in Contexts, DelayIsComplete(c)
        PROVE  Service!Next \/ UNCHANGED Service!vars
    <3>1. notified' = notified /\ \E s \in Slots : LeavesOnly(s)
      BY <2>3, DelayIsCompleteClock DEF DelayIsComplete
    <3> QED BY <3>1, LeavesIs DEF Service!Next
  <2>4. CASE Interrupt
    <3>1. Service!Pass
      BY <2>4, InterruptClock, PassesIs DEF Interrupt
    <3> QED BY <3>1 DEF Service!Next
  <2>5. CASE ClientNotify
    <3> PICK s \in Slots : notified' = s /\ Left(s) = 0 /\ LeavesOnly(s)
      BY <2>5, ClientNotifyClock
    <3>1. Service!Expire(s)
      BY LeavesIs
    <3> QED BY <3>1 DEF Service!Next
  <2>6. CASE CallbackReturn
    BY <2>6 DEF CallbackReturn, hwVars, Left, Queue, Service!vars
  <2>7. CASE InterruptEnd
    <3>1. Service!Pass
      BY <2>7, InterruptEndClock, PassesIs DEF InterruptEnd
    <3> QED BY <3>1 DEF Service!Next
  <2>8. CASE UNCHANGED vars
    BY <2>8 DEF vars, Left, Queue, Service!vars
  <2> QED BY <2>1, <2>2, <2>3, <2>4, <2>5, <2>6, <2>7, <2>8 DEF Next
<1> QED BY <1>1, <1>2, FullInvariant, PTL DEF Spec, ImplementsService, Service!Spec
==============================================================================
