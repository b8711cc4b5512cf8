--------------------------- MODULE LaneQueueProofs ---------------------------
(***************************************************************************)
(* The safety properties of the lane queue, for any number of lanes and    *)
(* items, any limits and any faults, crashes and restarts:                 *)
(*                                                                         *)
(*   OrderInv     memory and checkpoint hold each lane in enqueue order    *)
(*   SlotInv      every thread holds a slot, and slots are limited         *)
(*   RunInv       what may still be started was not started before         *)
(*   KeptInv      what is owed is on disk, and in memory while up          *)
(*   RoundRobin   passes over a lane and its distance from the cursor      *)
(*   ScalarTypes  the other fields                                         *)
(*                                                                         *)
(* OrderInv and RoundRobin are inductive by themselves; SlotInv needs      *)
(* OrderInv (an item has one place in its line, so a dispatch takes a new  *)
(* slot), and the others need both.  The first part is about sequences:    *)
(* what RunIdsOf, Without and Pick make of a line.                         *)
(***************************************************************************)
EXTENDS LaneQueue, FiniteSetTheorems, SequenceTheorems, WellFoundedInduction, TLAPS

(* A nonempty set of naturals has a least element: < is well-founded. *)
LEMMA LeastNatural ==
    ASSUME NEW T, T \subseteq Nat, T # {}
    PROVE  \E n \in T : \A m \in T : n <= m
<1> DEFINE R == OpToRel(<, Nat)
<1>1. IsWellFoundedOn(R, Nat)
  BY NatLessThanWellFounded, Zenon
<1>2. \A x, y \in Nat : x < y => <<x, y>> \in R
  BY Zenon DEF OpToRel
<1> HIDE DEF R
<1>3. PICK n \in T : \A m \in T : ~(<<m, n>> \in R)
  BY <1>1, WFMin, Zenon
<1>4. \A m \in T : ~(m < n)
  BY <1>2, <1>3
<1> QED BY <1>4

(* Induction over the naturals in a form the provers can use, about a set S and
   not a predicate: otherwise there would be a least k up to n outside S.    *)
LEMMA Induction ==
    ASSUME NEW n \in Nat, NEW S, 0 \in S, \A k \in 0..n : k \in S /\ k < n => k + 1 \in S
    PROVE  n \in S
<1> SUFFICES ASSUME n \notin S PROVE FALSE
  OBVIOUS
<1> DEFINE T == {k \in 0..n : k \notin S}
<1>1. T \subseteq Nat /\ T # {}
  OBVIOUS
<1>2. PICK m \in T : \A k \in T : m <= k
  BY <1>1, LeastNatural
<1>3. m - 1 \in 0..n /\ m - 1 \in S
  BY <1>2
<1> QED BY <1>2, <1>3

(* K lists, for each k up to n, what RunIdsOf keeps of the first k items of s. *)
KeptUpTo(s, n, K) ==
    K = [k \in 0..n |->
            IF k = 0 THEN <<>>
            ELSE IF s[k] \in HasRunId THEN Append(K[k - 1], s[k]) ELSE K[k - 1]]

(* There is such a list: it grows by one entry at a time. *)
LEMMA KeptExists ==
    ASSUME NEW s \in Seq(Items)
    PROVE  \E K : KeptUpTo(s, Len(s), K)
<1> DEFINE S == {n \in Nat : \E K : KeptUpTo(s, n, K)}
<1>1. 0 \in S
  <2>1. KeptUpTo(s, 0, [k \in 0..0 |-> <<>>])
    BY DEF KeptUpTo
  <2> QED BY <2>1
<1>2. ASSUME NEW n \in 0..Len(s), n \in S
      PROVE  n + 1 \in S
  <2>1. PICK K : KeptUpTo(s, n, K)
    BY <1>2
  <2> DEFINE L == [k \in 0..(n + 1) |->
                     IF k = n + 1
                       THEN IF s[n + 1] \in HasRunId THEN Append(K[n], s[n + 1]) ELSE K[n]
                       ELSE K[k]]
  <2>2. KeptUpTo(s, n + 1, L)
    <3>1. ASSUME NEW k \in 0..(n + 1)
          PROVE  L[k] = IF k = 0 THEN <<>>
                        ELSE IF s[k] \in HasRunId THEN Append(L[k - 1], s[k]) ELSE L[k - 1]
      <4>1. CASE k = n + 1
        <5>1. L[k - 1] = K[n] /\ k # 0 BY <1>2, <4>1
        <5> QED BY <4>1, <5>1
      <4>2. CASE k # n + 1
        <5>1. k \in 0..n BY <1>2, <4>2
        <5>2. L[k] = K[k] BY <4>2
        <5>3. k # 0 => L[k - 1] = K[k - 1] BY <1>2, <5>1
        <5> QED BY <2>1, <5>1, <5>2, <5>3 DEF KeptUpTo
      <4> QED BY <4>1, <4>2
    <3> HIDE DEF L
    <3>2. DOMAIN L = 0..(n + 1) /\ L = [k \in 0..(n + 1) |-> L[k]] BY DEF L
    <3> QED BY <3>1, <3>2 DEF KeptUpTo
  <2> QED BY <1>2, <2>2
<1>3. Len(s) \in S
  <2> HIDE DEF S
  <2> QED BY <1>1, <1>2, Induction
<1> QED BY <1>3

(* The items of t are items of s, at growing positions. *)
Subsequence(t, s) ==
    \E f \in [1..Len(t) -> 1..Len(s)] :
        /\ \A a, b \in 1..Len(t) : a < b => f[a] < f[b]
        /\ \A a \in 1..Len(t) : t[a] = s[f[a]]

(* What is kept of the first n items: nothing out of order, and no run_id lost. *)
KeptRight(s, n, t) ==
    /\ t \in Seq(Items)
    /\ \E f \in [1..Len(t) -> 1..n] :
          /\ \A a, b \in 1..Len(t) : a < b => f[a] < f[b]
          /\ \A a \in 1..Len(t) : t[a] = s[f[a]]
    /\ \A k \in 1..n : s[k] \in HasRunId => \E a \in 1..Len(t) : t[a] = s[k]

(* The next item is kept at the end ... *)
LEMMA KeptRightAppend ==
    ASSUME NEW s \in Seq(Items), NEW n \in Nat, n + 1 \in 1..Len(s),
           NEW t, KeptRight(s, n, t)
    PROVE  KeptRight(s, n + 1, Append(t, s[n + 1]))
<1> DEFINE u == Append(t, s[n + 1])
<1>0. t \in Seq(Items) /\ s[n + 1] \in Items
  BY DEF KeptRight
<1>1. /\ u \in Seq(Items) /\ Len(u) = Len(t) + 1 /\ Len(t) \in Nat
      /\ u[Len(t) + 1] = s[n + 1] /\ \A a \in 1..Len(t) : u[a] = t[a]
  BY <1>0
<1> HIDE DEF u
<1>2. PICK f \in [1..Len(t) -> 1..n] :
          /\ \A a, b \in 1..Len(t) : a < b => f[a] < f[b]
          /\ \A a \in 1..Len(t) : t[a] = s[f[a]]
  BY DEF KeptRight
<1> DEFINE g == [a \in 1..Len(u) |-> IF a = Len(t) + 1 THEN n + 1 ELSE f[a]]
<1>3. g \in [1..Len(u) -> 1..(n + 1)]
  BY <1>1, <1>2
<1>4. ASSUME NEW a \in 1..Len(u), NEW b \in 1..Len(u), a < b PROVE g[a] < g[b]
  <2>1. a \in 1..Len(t) /\ g[a] = f[a] /\ f[a] \in 1..n
    BY <1>1, <1>2, <1>4
  <2>2. CASE b = Len(t) + 1
    BY <2>1, <2>2
  <2>3. CASE b # Len(t) + 1
    <3>1. b \in 1..Len(t) /\ g[b] = f[b]
      BY <1>1, <2>3
    <3> QED BY <1>2, <1>4, <2>1, <3>1
  <2> QED BY <2>2, <2>3
<1>5. ASSUME NEW a \in 1..Len(u) PROVE u[a] = s[g[a]]
  BY <1>1, <1>2
<1>6. ASSUME NEW k \in 1..(n + 1), s[k] \in HasRunId PROVE \E a \in 1..Len(u) : u[a] = s[k]
  <2>1. CASE k = n + 1
    BY <1>1, <2>1
  <2>2. CASE k \in 1..n
    <3>1. PICK a \in 1..Len(t) : t[a] = s[k]
      BY <1>6, <2>2 DEF KeptRight
    <3>2. a \in 1..Len(u) /\ u[a] = s[k]
      BY <1>1, <3>1
    <3> QED BY <3>2
  <2> QED BY <2>1, <2>2
<1> HIDE DEF g
<1>7. KeptRight(s, n + 1, u)
  BY <1>1, <1>3, <1>4, <1>5, <1>6 DEF KeptRight
<1> QED BY <1>7 DEF u

(* ... or left out, if it has no run_id. *)
LEMMA KeptRightSkip ==
    ASSUME NEW s \in Seq(Items), NEW n \in Nat, n + 1 \in 1..Len(s),
           NEW t, KeptRight(s, n, t), s[n + 1] \notin HasRunId
    PROVE  KeptRight(s, n + 1, t)
<1>1. PICK f \in [1..Len(t) -> 1..n] :
          /\ \A a, b \in 1..Len(t) : a < b => f[a] < f[b]
          /\ \A a \in 1..Len(t) : t[a] = s[f[a]]
  BY DEF KeptRight
<1>2. f \in [1..Len(t) -> 1..(n + 1)]
  BY <1>1
<1>3. ASSUME NEW k \in 1..(n + 1), s[k] \in HasRunId PROVE \E a \in 1..Len(t) : t[a] = s[k]
  <2>1. k \in 1..n
    BY <1>3
  <2> QED BY <1>3, <2>1 DEF KeptRight
<1> QED BY <1>1, <1>2, <1>3 DEF KeptRight

(* What the checkpoint keeps of a lane: a subsequence with every run_id of it. *)
LEMMA RunIdsOfFacts ==
    ASSUME NEW s \in Seq(Items)
    PROVE  /\ RunIdsOf(s) \in Seq(Items)
           /\ Subsequence(RunIdsOf(s), s)
           /\ ToSet(s) \cap HasRunId \subseteq ToSet(RunIdsOf(s))
<1>1. PICK K : KeptUpTo(s, Len(s), K) /\ RunIdsOf(s) = K[Len(s)]
  BY KeptExists DEF RunIdsOf, KeptUpTo
<1> DEFINE S == {n \in Nat : KeptRight(s, n, K[n])}
<1>2. 0 \in S
  <2>1. K[0] = <<>>
    BY <1>1 DEF KeptUpTo
  <2>2. <<>> \in Seq(Items) /\ Len(<<>>) = 0
    OBVIOUS
  <2>3. KeptRight(s, 0, <<>>)
    <3>1. [a \in 1..Len(<<>>) |-> a] \in [1..Len(<<>>) -> 1..0]
      BY <2>2
    <3>2. \A a \in 1..Len(<<>>) : FALSE
      BY <2>2
    <3> QED BY <2>2, <3>1, <3>2 DEF KeptRight
  <2> QED BY <2>1, <2>3
<1>3. ASSUME NEW n \in 0..Len(s), n \in S, n < Len(s)
      PROVE  n + 1 \in S
  <2>1. n + 1 \in 1..Len(s) /\ n + 1 \in 0..Len(s) /\ n \in Nat /\ KeptRight(s, n, K[n])
    BY <1>3
  <2>a. K[n + 1] = IF s[n + 1] \in HasRunId THEN Append(K[n], s[n + 1]) ELSE K[n]
    <3>1. n + 1 # 0 /\ (n + 1) - 1 = n
      BY <2>1
    <3> QED BY <1>1, <2>1, <3>1 DEF KeptUpTo
  <2>2. CASE s[n + 1] \in HasRunId
    <3>1. K[n + 1] = Append(K[n], s[n + 1])
      BY <2>2, <2>a
    <3>2. KeptRight(s, n + 1, Append(K[n], s[n + 1]))
      BY <2>1, KeptRightAppend
    <3>3. KeptRight(s, n + 1, K[n + 1])
      BY <3>1, <3>2, Zenon
    <3> QED BY <2>1, <3>3
  <2>3. CASE s[n + 1] \notin HasRunId
    <3>1. K[n + 1] = K[n]
      BY <2>3, <2>a
    <3>2. KeptRight(s, n + 1, K[n])
      BY <2>1, <2>3, KeptRightSkip
    <3>3. KeptRight(s, n + 1, K[n + 1])
      BY <3>1, <3>2, Zenon
    <3> QED BY <2>1, <3>3
  <2> QED BY <2>2, <2>3
<1>4. Len(s) \in S
  <2> HIDE DEF S
  <2> QED BY <1>2, <1>3, Induction
<1>5. KeptRight(s, Len(s), RunIdsOf(s))
  BY <1>1, <1>4
<1>6. RunIdsOf(s) \in Seq(Items) /\ Subsequence(RunIdsOf(s), s)
  BY <1>5 DEF KeptRight, Subsequence
<1>7. ASSUME NEW i \in ToSet(s), i \in HasRunId PROVE i \in ToSet(RunIdsOf(s))
  <2>1. PICK k \in 1..Len(s) : s[k] = i
    BY DEF ToSet
  <2>2. PICK a \in 1..Len(RunIdsOf(s)) : RunIdsOf(s)[a] = i
    BY <1>5, <1>7, <2>1 DEF KeptRight
  <2>3. a \in DOMAIN RunIdsOf(s)
    BY <1>6
  <2> QED BY <2>2, <2>3 DEF ToSet
<1> QED BY <1>6, <1>7

(* Concatenation, as the lanes use it. *)
LEMMA ConcatFacts ==
    ASSUME NEW s \in Seq(Items), NEW t \in Seq(Items)
    PROVE  /\ s \o t \in Seq(Items)
           /\ ToSet(s \o t) = ToSet(s) \cup ToSet(t)
<1>1. /\ s \o t \in Seq(Items) /\ Len(s \o t) = Len(s) + Len(t)
      /\ \A a \in 1..Len(s) : (s \o t)[a] = s[a]
      /\ \A a \in 1..Len(t) : (s \o t)[Len(s) + a] = t[a]
  OBVIOUS
<1>2. ToSet(s \o t) \subseteq ToSet(s) \cup ToSet(t)
  <2> SUFFICES ASSUME NEW a \in 1..Len(s \o t)
               PROVE  (s \o t)[a] \in ToSet(s) \cup ToSet(t)
    BY <1>1 DEF ToSet
  <2>1. CASE a \in 1..Len(s)
    BY <1>1, <2>1 DEF ToSet
  <2>2. CASE a \notin 1..Len(s)
    <3>1. a - Len(s) \in 1..Len(t) /\ a = Len(s) + (a - Len(s))
      BY <1>1, <2>2
    <3>2. (s \o t)[a] = t[a - Len(s)]
      BY <1>1, <3>1
    <3> QED BY <3>1, <3>2 DEF ToSet
  <2> QED BY <2>1, <2>2
<1>3. ASSUME NEW a \in 1..Len(s) PROVE s[a] \in ToSet(s \o t)
  <2>1. a \in 1..Len(s \o t)
    BY <1>1
  <2> QED BY <1>1, <2>1 DEF ToSet
<1>4. ASSUME NEW a \in 1..Len(t) PROVE t[a] \in ToSet(s \o t)
  <2>1. Len(s) + a \in DOMAIN (s \o t) /\ (s \o t)[Len(s) + a] = t[a]
    BY <1>1
  <2> QED BY <2>1 DEF ToSet
<1>5. ASSUME NEW x \in ToSet(s) PROVE x \in ToSet(s \o t)
  <2>1. PICK a \in 1..Len(s) : x = s[a]
    BY DEF ToSet
  <2> QED BY <1>3, <2>1
<1>6. ASSUME NEW x \in ToSet(t) PROVE x \in ToSet(s \o t)
  <2>1. PICK a \in 1..Len(t) : x = t[a]
    BY DEF ToSet
  <2> QED BY <1>4, <2>1
<1> QED BY <1>1, <1>2, <1>5, <1>6


(* Taking an item out of a lane leaves the others in their order. *)
LEMMA WithoutFacts ==
    ASSUME NEW s \in Seq(Items), NEW p \in Seq(Items), NEW i
    PROVE  /\ Without(s, i) \in Seq(Items)
           /\ ToSet(Without(s, i)) \subseteq ToSet(s)
           /\ ToSet(s) \ {i} \subseteq ToSet(Without(s, i))
           /\ Subsequence(Without(s, i) \o p, s \o p)
<1>1. CASE i \in ToSet(s)
  <2> DEFINE k == CHOOSE j \in DOMAIN s : s[j] = i
             t == RemoveAt(s, k)
  <2>1. k \in 1..Len(s) /\ s[k] = i
    BY <1>1 DEF ToSet
  <2> HIDE DEF k
  <2>2. /\ t \in Seq(Items) /\ Len(t) = Len(s) - 1 /\ Len(s) \in Nat
        /\ \A a \in 1..Len(t) : t[a] = IF a < k THEN s[a] ELSE s[a + 1]
    <3> DEFINE u == SubSeq(s, 1, k - 1)
               v == SubSeq(s, k + 1, Len(s))
    <3>0. t = u \o v
      BY DEF RemoveAt
    <3>1. /\ u \in Seq(Items) /\ Len(u) = k - 1
          /\ \A a \in 1..(k - 1) : u[a] = s[a]
      BY <2>1
    <3>2. /\ v \in Seq(Items) /\ Len(v) = Len(s) - k
          /\ \A a \in 1..(Len(s) - k) : v[a] = s[k + a]
      BY <2>1
    <3> HIDE DEF u, v, t
    <3>3. t \in Seq(Items) /\ Len(t) = Len(s) - 1 /\ Len(s) \in Nat
      BY <2>1, <3>0, <3>1, <3>2
    <3>4. ASSUME NEW a \in 1..Len(t) PROVE t[a] = IF a < k THEN s[a] ELSE s[a + 1]
      <4>1. CASE a < k
        <5>1. a \in 1..(k - 1)
          BY <2>1, <3>3, <4>1
        <5> QED BY <3>0, <3>1, <3>2, <4>1, <5>1
      <4>2. CASE a >= k
        <5>1. a - (k - 1) \in 1..(Len(s) - k) /\ k + (a - (k - 1)) = a + 1 /\ ~(a < k)
          BY <2>1, <3>3, <4>2
        <5>2. t[a] = v[a - (k - 1)]
          BY <2>1, <3>0, <3>1, <3>2, <3>3, <4>2, <5>1
        <5> QED BY <3>2, <5>1, <5>2
      <4> QED BY <2>1, <3>3, <4>1, <4>2
    <3> QED BY <3>3, <3>4
  <2> HIDE DEF t
  <2>3. Without(s, i) = t
    BY <1>1 DEF Without, t, k
  <2>4. ToSet(t) \subseteq ToSet(s)
    <3> SUFFICES ASSUME NEW a \in 1..Len(t) PROVE t[a] \in ToSet(s)
      BY <2>2 DEF ToSet
    <3>1. a \in DOMAIN s /\ a + 1 \in DOMAIN s
      BY <2>2
    <3>2. t[a] = s[a] \/ t[a] = s[a + 1]
      BY <2>2
    <3> QED BY <3>1, <3>2 DEF ToSet
  <2>5. ToSet(s) \ {i} \subseteq ToSet(t)
    <3> SUFFICES ASSUME NEW a \in 1..Len(s), s[a] # i PROVE s[a] \in ToSet(t)
      BY DEF ToSet
    <3>1. CASE a < k
      <4>1. a \in 1..Len(t) /\ t[a] = s[a]
        BY <2>1, <2>2, <3>1
      <4> QED BY <2>2, <4>1 DEF ToSet
    <3>2. CASE a > k
      <4>1. a - 1 \in 1..Len(t) /\ t[a - 1] = s[a]
        BY <2>1, <2>2, <3>2
      <4> QED BY <2>2, <4>1 DEF ToSet
    <3> QED BY <2>1, <3>1, <3>2
  <2>6. Subsequence(t \o p, s \o p)
    <3>0. t \in Seq(Items)
      BY <2>2
    <3>1. /\ t \o p \in Seq(Items) /\ Len(t \o p) = Len(t) + Len(p) /\ Len(p) \in Nat
          /\ s \o p \in Seq(Items) /\ Len(s \o p) = Len(s) + Len(p)
      BY <3>0
    <3> DEFINE f == [a \in 1..Len(t \o p) |-> IF a < k THEN a ELSE a + 1]
    <3>2. f \in [1..Len(t \o p) -> 1..Len(s \o p)]
      BY <2>1, <2>2, <3>1
    <3>3. \A a, b \in 1..Len(t \o p) : a < b => f[a] < f[b]
      BY <2>1, <3>1
    <3>4. ASSUME NEW a \in 1..Len(t \o p) PROVE (t \o p)[a] = (s \o p)[f[a]]
      <4>1. CASE a \in 1..Len(t)
        <5>1. f[a] = (IF a < k THEN a ELSE a + 1) /\ f[a] \in 1..Len(s)
          BY <2>1, <2>2, <4>1
        <5>2. (t \o p)[a] = t[a] /\ (s \o p)[f[a]] = s[f[a]]
          <6> HIDE DEF f
          <6> QED BY <3>0, <4>1, <5>1
        <5>3. t[a] = s[f[a]]
          BY <2>2, <4>1, <5>1
        <5> QED BY <5>2, <5>3
      <4>2. CASE a \notin 1..Len(t)
        <5>1. a - Len(t) \in 1..Len(p) /\ f[a] = a + 1 /\ (a + 1) - Len(s) = a - Len(t)
          BY <2>1, <2>2, <3>1, <4>2
        <5>2. (t \o p)[a] = p[a - Len(t)]
          BY <2>2, <3>1, <4>2, <5>1
        <5>3. (s \o p)[a + 1] = p[(a + 1) - Len(s)]
          BY <2>2, <3>1, <4>2, <5>1
        <5> QED BY <5>1, <5>2, <5>3
      <4> QED BY <4>1, <4>2
    <3> HIDE DEF f
    <3> QED BY <3>2, <3>3, <3>4 DEF Subsequence
  <2> QED BY <2>2, <2>3, <2>4, <2>5, <2>6
<1>2. CASE i \notin ToSet(s)
  <2>1. Without(s, i) = s
    BY <1>2 DEF Without
  <2>2. s \o p \in Seq(Items)
    OBVIOUS
  <2>3. Subsequence(s \o p, s \o p)
    <3> DEFINE f == [a \in 1..Len(s \o p) |-> a]
    <3>1. f \in [1..Len(s \o p) -> 1..Len(s \o p)]
      OBVIOUS
    <3>2. \A a, b \in 1..Len(s \o p) : a < b => f[a] < f[b]
      OBVIOUS
    <3>3. \A a \in 1..Len(s \o p) : (s \o p)[a] = (s \o p)[f[a]]
      OBVIOUS
    <3> HIDE DEF f
    <3> QED BY <3>1, <3>2, <3>3 DEF Subsequence
  <2> QED BY <2>1, <2>3
<1> QED BY <1>1, <1>2

(* One item more at the end. *)
LEMMA AppendFacts ==
    ASSUME NEW s \in Seq(Items), NEW i \in Items
    PROVE  /\ Append(s, i) \in Seq(Items)
           /\ ToSet(Append(s, i)) = ToSet(s) \cup {i}
<1> DEFINE u == Append(s, i)
<1>1. /\ u \in Seq(Items) /\ Len(u) = Len(s) + 1 /\ Len(s) \in Nat
      /\ \A a \in 1..Len(s) : u[a] = s[a]
      /\ u[Len(s) + 1] = i
  BY AppendProperties
<1> HIDE DEF u
<1>2. ASSUME NEW x \in ToSet(u) PROVE x \in ToSet(s) \cup {i}
  <2>1. PICK a \in 1..Len(u) : x = u[a]
    BY <1>1 DEF ToSet
  <2>2. CASE a = Len(s) + 1
    BY <1>1, <2>1, <2>2
  <2>3. CASE a \in 1..Len(s)
    BY <1>1, <2>1, <2>3 DEF ToSet
  <2> QED BY <1>1, <2>1, <2>2, <2>3
<1>3. ASSUME NEW x \in ToSet(s) PROVE x \in ToSet(u)
  <2>1. PICK a \in 1..Len(s) : x = s[a]
    BY DEF ToSet
  <2>2. a \in DOMAIN u /\ u[a] = x
    BY <1>1, <2>1
  <2> QED BY <2>2 DEF ToSet
<1>4. i \in ToSet(u)
  <2>1. Len(s) + 1 \in DOMAIN u
    BY <1>1
  <2> QED BY <1>1, <2>1 DEF ToSet
<1>5. u \in Seq(Items) /\ ToSet(u) = ToSet(s) \cup {i}
  BY <1>1, <1>2, <1>3, <1>4
<1> QED BY <1>5 DEF u

(* An empty lane. *)
LEMMA EmptyFacts == <<>> \in Seq(Items) /\ ToSet(<<>>) = {}
<1>1. <<>> \in Seq(Items) /\ \A a \in DOMAIN <<>> : FALSE
  OBVIOUS
<1> QED BY <1>1 DEF ToSet

(* popleft. *)
LEMMA PickFacts ==
    ASSUME NEW s \in Seq(Items), s # <<>>
    PROVE  /\ Pick(s)[1] \in Items /\ Pick(s)[2] \in Seq(Items)
           /\ Pick(s)[1] = s[1] /\ Pick(s)[1] \in ToSet(s)
           /\ ToSet(Pick(s)[2]) \subseteq ToSet(s)
           /\ Len(Pick(s)[2]) = Len(s) - 1
           /\ \A a \in 1..Len(Pick(s)[2]) : Pick(s)[2][a] = s[a + 1]
<1>1. Pick(s)[1] = Head(s) /\ Pick(s)[2] = Tail(s)
  BY DEF Pick
<1>2. /\ Head(s) \in Items /\ Tail(s) \in Seq(Items) /\ Head(s) = s[1]
      /\ Len(Tail(s)) = Len(s) - 1 /\ Len(s) \in Nat /\ Len(s) > 0
      /\ \A a \in 1..Len(Tail(s)) : Tail(s)[a] = s[a + 1]
  BY HeadTailProperties, EmptySeq
<1>3. 1 \in DOMAIN s
  BY <1>2
<1>4. ASSUME NEW x \in ToSet(Tail(s)) PROVE x \in ToSet(s)
  <2>1. PICK a \in 1..Len(Tail(s)) : x = Tail(s)[a]
    BY <1>2 DEF ToSet
  <2>2. a + 1 \in DOMAIN s /\ x = s[a + 1]
    BY <1>2, <2>1
  <2> QED BY <2>2 DEF ToSet
<1> QED BY <1>1, <1>2, <1>3, <1>4 DEF ToSet

(* An item that joins the queue of its lane is the last of the line. *)
LEMMA LineAppend ==
    ASSUME NEW s \in Seq(Items), NEW t \in Seq(Items), NEW i \in Items
    PROVE  s \o Append(t, i) = Append(s \o t, i)
<1>1. <<i>> \in Seq(Items)
  OBVIOUS
<1>2. s \o t \in Seq(Items)
  BY ConcatFacts
<1>3. Append(t, i) = t \o <<i>> /\ Append(s \o t, i) = (s \o t) \o <<i>>
  BY <1>2, AppendIsConcat
<1> QED BY <1>1, <1>3, ConcatAssociative

(* Starting the first queued item moves the boundary, not the line. *)
LEMMA LinePick ==
    ASSUME NEW s \in Seq(Items), NEW t \in Seq(Items), t # <<>>
    PROVE  Append(s, Pick(t)[1]) \o Pick(t)[2] = s \o t
<1> DEFINE h == Pick(t)[1]
           r == Pick(t)[2]
<1>1. h \in Items /\ r \in Seq(Items) /\ <<h>> \in Seq(Items)
  BY PickFacts
<1>2. t = <<h>> \o r
  <2>1. <<h>> \o r \in Seq(Items) /\ Len(<<h>> \o r) = Len(t)
    BY <1>1, PickFacts
  <2>2. ASSUME NEW a \in 1..Len(t) PROVE (<<h>> \o r)[a] = t[a]
    <3>1. CASE a = 1
      BY <1>1, <3>1, PickFacts
    <3>2. CASE a # 1
      <4>1. a - 1 \in 1..Len(r) /\ (a - 1) + 1 = a /\ Len(<<h>>) = 1
        BY <3>2, PickFacts
      <4>2. r[a - 1] = t[a]
        BY <4>1, PickFacts
      <4>3. (<<h>> \o r)[a] = r[a - 1]
        BY <1>1, <2>1, <4>1, ConcatProperties
      <4> QED BY <4>2, <4>3
    <3> QED BY <3>1, <3>2
  <2> QED BY <2>1, <2>2, SeqEqual
<1> HIDE DEF h, r
<1>3. Append(s, h) = s \o <<h>>
  BY <1>1, AppendIsConcat
<1>4. (s \o <<h>>) \o r = s \o (<<h>> \o r)
  BY <1>1, ConcatAssociative
<1> QED BY <1>2, <1>3, <1>4 DEF h, r

(* A line of lane l: accepted items of l, each after the ones accepted before it;
   e is the order in which enqueue accepted them.                           *)
InLine(s, l, e) ==
    /\ s \in Seq(Items)
    /\ ToSet(s) \subseteq ToSet(e)
    /\ \A i \in ToSet(s) : LaneOf[i] = l
    /\ \A a, b \in DOMAIN s : a < b =>
          \E x, y \in DOMAIN e : x < y /\ e[x] = s[a] /\ e[y] = s[b]

(* No item is accepted twice (ids are uuids). *)
Once(e) == \A a, b \in DOMAIN e : e[a] = e[b] => a = b

(* A subsequence has no other items. *)
LEMMA SubsequenceItems ==
    ASSUME NEW s \in Seq(Items), NEW t \in Seq(Items), Subsequence(t, s)
    PROVE  ToSet(t) \subseteq ToSet(s)
<1> SUFFICES ASSUME NEW a \in 1..Len(t) PROVE t[a] \in ToSet(s)
  BY DEF ToSet
<1>1. PICK f \in [1..Len(t) -> 1..Len(s)] : t[a] = s[f[a]]
  BY DEF Subsequence
<1>2. f[a] \in DOMAIN s
  BY <1>1
<1> QED BY <1>1, <1>2 DEF ToSet

(* What is left of a line is a line. *)
LEMMA InLineSubsequence ==
    ASSUME NEW s, NEW t \in Seq(Items), NEW l, NEW e,
           InLine(s, l, e), Subsequence(t, s)
    PROVE  InLine(t, l, e)
<1>1. s \in Seq(Items)
  BY DEF InLine
<1>2. ToSet(t) \subseteq ToSet(s)
  BY <1>1, SubsequenceItems
<1>3. PICK f \in [1..Len(t) -> 1..Len(s)] :
          /\ \A a, b \in 1..Len(t) : a < b => f[a] < f[b]
          /\ \A a \in 1..Len(t) : t[a] = s[f[a]]
  BY DEF Subsequence
<1>4. ASSUME NEW a \in DOMAIN t, NEW b \in DOMAIN t, a < b
      PROVE  \E x, y \in DOMAIN e : x < y /\ e[x] = t[a] /\ e[y] = t[b]
  <2>1. a \in 1..Len(t) /\ b \in 1..Len(t)
    OBVIOUS
  <2>2. f[a] \in DOMAIN s /\ f[b] \in DOMAIN s /\ f[a] < f[b]
    BY <1>1, <1>3, <1>4, <2>1
  <2>3. t[a] = s[f[a]] /\ t[b] = s[f[b]]
    BY <1>3, <2>1
  <2> QED BY <2>2, <2>3 DEF InLine
<1> QED BY <1>2, <1>4 DEF InLine

(* An empty line. *)
LEMMA InLineEmpty ==
    ASSUME NEW l, NEW e
    PROVE  InLine(<<>>, l, e)
<1>1. \A a \in DOMAIN <<>> : FALSE
  OBVIOUS
<1> QED BY <1>1, EmptyFacts DEF InLine

(* Accepting an item changes no order, and the item is the latest of all. *)
LEMMA AcceptFacts ==
    ASSUME NEW e \in Seq(Items), NEW i \in Items, i \notin ToSet(e), Once(e),
           NEW s, NEW l, InLine(s, l, e)
    PROVE  /\ Once(Append(e, i))
           /\ InLine(s, l, Append(e, i))
           /\ LaneOf[i] = l => InLine(Append(s, i), l, Append(e, i))
<1> DEFINE g == Append(e, i)
           u == Append(s, i)
<1>0. s \in Seq(Items)
  BY DEF InLine
<1>1. /\ g \in Seq(Items) /\ Len(g) = Len(e) + 1 /\ Len(e) \in Nat
      /\ \A a \in 1..Len(e) : g[a] = e[a]
      /\ g[Len(e) + 1] = i /\ ToSet(g) = ToSet(e) \cup {i}
  BY AppendProperties, AppendFacts
<1>2. /\ u \in Seq(Items) /\ Len(u) = Len(s) + 1 /\ Len(s) \in Nat
      /\ \A a \in 1..Len(s) : u[a] = s[a]
      /\ u[Len(s) + 1] = i /\ ToSet(u) = ToSet(s) \cup {i}
  BY <1>0, AppendProperties, AppendFacts
<1> HIDE DEF g, u
<1>3. \A a \in 1..Len(e) : e[a] \in ToSet(e) /\ e[a] # i
  BY DEF ToSet
<1>4. Once(g)
  <2> SUFFICES ASSUME NEW a \in 1..Len(g), NEW b \in 1..Len(g), g[a] = g[b]
               PROVE  a = b
    BY <1>1 DEF Once
  <2>1. CASE a \in 1..Len(e) /\ b \in 1..Len(e)
    BY <1>1, <2>1 DEF Once
  <2>2. CASE a = Len(e) + 1 \/ b = Len(e) + 1
    BY <1>1, <1>3, <2>2
  <2> QED BY <1>1, <2>1, <2>2
<1>5. ASSUME NEW a \in DOMAIN s, NEW b \in DOMAIN s, a < b
      PROVE  \E x, y \in DOMAIN g : x < y /\ g[x] = s[a] /\ g[y] = s[b]
  <2>1. PICK x \in 1..Len(e), y \in 1..Len(e) : x < y /\ e[x] = s[a] /\ e[y] = s[b]
    BY <1>5 DEF InLine
  <2>2. x \in DOMAIN g /\ y \in DOMAIN g /\ g[x] = e[x] /\ g[y] = e[y]
    BY <1>1
  <2> QED BY <2>1, <2>2
<1>6. InLine(s, l, g)
  BY <1>1, <1>5 DEF InLine
<1>7. ASSUME LaneOf[i] = l PROVE InLine(u, l, g)
  <2>1. ASSUME NEW a \in DOMAIN u, NEW b \in DOMAIN u, a < b
        PROVE  \E x, y \in DOMAIN g : x < y /\ g[x] = u[a] /\ g[y] = u[b]
    <3>1. a \in 1..Len(s) /\ u[a] = s[a] /\ a \in DOMAIN s
      BY <1>0, <1>2, <2>1
    <3>2. CASE b = Len(s) + 1
      <4>1. s[a] \in ToSet(e)
        BY <3>1 DEF InLine, ToSet
      <4>2. PICK x \in 1..Len(e) : e[x] = s[a]
        BY <4>1 DEF ToSet
      <4>3. /\ x \in DOMAIN g /\ Len(e) + 1 \in DOMAIN g /\ x < Len(e) + 1
            /\ g[x] = u[a] /\ g[Len(e) + 1] = u[b]
        BY <1>1, <1>2, <3>1, <3>2, <4>2
      <4> QED BY <4>3
    <3>3. CASE b # Len(s) + 1
      <4>1. b \in DOMAIN s /\ u[b] = s[b]
        BY <1>0, <1>2, <3>3
      <4> QED BY <1>5, <2>1, <3>1, <4>1
    <3> QED BY <3>2, <3>3
  <2> QED BY <1>1, <1>2, <1>7, <2>1 DEF InLine
<1> QED BY <1>4, <1>6, <1>7 DEF g, u

(* An item has one place in its line. *)
LEMMA InLineOnce ==
    ASSUME NEW s, NEW l, NEW e \in Seq(Items), Once(e), InLine(s, l, e),
           NEW a \in DOMAIN s, NEW b \in DOMAIN s, s[a] = s[b]
    PROVE  a = b
<1>0. a \in Int /\ b \in Int
  BY DEF InLine
<1>1. ASSUME NEW c \in DOMAIN s, NEW d \in DOMAIN s, c < d PROVE s[c] # s[d]
  <2>1. PICK x \in DOMAIN e, y \in DOMAIN e : x < y /\ e[x] = s[c] /\ e[y] = s[d]
    BY <1>1 DEF InLine
  <2>2. x \in Int /\ y \in Int
    OBVIOUS
  <2>3. e[x] # e[y]
    BY <2>1, <2>2 DEF Once
  <2> QED BY <2>1, <2>3
<1> QED BY <1>0, <1>1

(* So a started item is not among the queued ones. *)
LEMMA StartedNotQueued ==
    ASSUME NEW s \in Seq(Items), NEW t \in Seq(Items), NEW l,
           NEW e \in Seq(Items), Once(e), InLine(s \o t, l, e)
    PROVE  ToSet(s) \cap ToSet(t) = {}
<1> SUFFICES ASSUME NEW a \in 1..Len(s), NEW b \in 1..Len(t), s[a] = t[b] PROVE FALSE
  BY DEF ToSet
<1>1. /\ s \o t \in Seq(Items) /\ Len(s \o t) = Len(s) + Len(t)
      /\ (s \o t)[a] = s[a] /\ (s \o t)[Len(s) + b] = t[b]
  OBVIOUS
<1>2. a \in DOMAIN (s \o t) /\ Len(s) + b \in DOMAIN (s \o t)
  BY <1>1
<1>3. a = Len(s) + b
  BY <1>1, <1>2, InLineOnce
<1> QED BY <1>3

-----------------------------------------------------------------------------
(* A lane as its items run and wait: the started ones, then the queued ones. *)
Line(l) == active[l] \o pending[l]

(* Inductive: the queue and its checkpoint, of any age, hold accepted items only,
   lane by lane in the order of enqueue.                                    *)
OrderInv ==
    /\ pending \in [Lanes -> Seq(Items)] /\ active \in [Lanes -> Seq(Items)]
    /\ checkpoint \in [Lanes -> Seq(Items)]
    /\ enqueued \in Seq(Items) /\ Once(enqueued)
    /\ \A l \in Lanes : InLine(Line(l), l, enqueued) /\ InLine(checkpoint[l], l, enqueued)

(* _persist_checkpoint_locked writes the run_ids of every line, or nothing. *)
LEMMA PersistOrder ==
    ASSUME Persist, checkpoint \in [Lanes -> Seq(Items)],
           \A l \in Lanes : InLine(Line(l)', l, enqueued'),
           \A l \in Lanes : InLine(checkpoint[l], l, enqueued')
    PROVE  /\ checkpoint' \in [Lanes -> Seq(Items)]
           /\ \A l \in Lanes : InLine(checkpoint'[l], l, enqueued')
<1>1. CASE checkpoint' = Snapshot(active', pending')
  <2>1. checkpoint' = [l \in Lanes |-> RunIdsOf(Line(l)')]
    BY <1>1 DEF Snapshot, Line
  <2>2. ASSUME NEW l \in Lanes
        PROVE  checkpoint'[l] \in Seq(Items) /\ InLine(checkpoint'[l], l, enqueued')
    <3>1. Line(l)' \in Seq(Items) /\ InLine(Line(l)', l, enqueued')
      BY DEF InLine
    <3>2. checkpoint'[l] = RunIdsOf(Line(l)')
      BY <2>1
    <3>3. RunIdsOf(Line(l)') \in Seq(Items) /\ Subsequence(RunIdsOf(Line(l)'), Line(l)')
      BY <3>1, RunIdsOfFacts
    <3>4. InLine(RunIdsOf(Line(l)'), l, enqueued')
      BY <3>1, <3>3, InLineSubsequence
    <3> QED BY <3>2, <3>3, <3>4
  <2>3. checkpoint' = [l \in Lanes |-> checkpoint'[l]]
    BY <2>1
  <2> QED BY <2>2, <2>3
<1>2. CASE UNCHANGED checkpoint
  BY <1>2
<1> QED BY <1>1, <1>2 DEF Persist

(* A step that writes or leaves the checkpoint, accepts nothing and keeps lines
   lines.                                                                   *)
LEMMA OrderStep ==
    ASSUME OrderInv, UNCHANGED enqueued, Persist \/ UNCHANGED checkpoint,
           pending' \in [Lanes -> Seq(Items)], active' \in [Lanes -> Seq(Items)],
           \A l \in Lanes : InLine(Line(l)', l, enqueued)
    PROVE  OrderInv'
<1>1. \A l \in Lanes : InLine(Line(l)', l, enqueued') /\ InLine(checkpoint[l], l, enqueued')
  BY DEF OrderInv
<1>2. checkpoint' \in [Lanes -> Seq(Items)] /\ \A l \in Lanes : InLine(checkpoint'[l], l, enqueued')
  <2>1. CASE Persist
    BY <1>1, <2>1, PersistOrder DEF OrderInv
  <2>2. CASE UNCHANGED checkpoint
    BY <1>1, <2>2 DEF OrderInv
  <2> QED BY <2>1, <2>2
<1> QED BY <1>1, <1>2 DEF OrderInv

(* The line does not change at all. *)
LEMMA OrderSame ==
    ASSUME OrderInv, UNCHANGED <<pending, active, enqueued>>,
           Persist \/ UNCHANGED checkpoint
    PROVE  OrderInv'
<1>1. \A l \in Lanes : Line(l)' = Line(l)
  BY DEF Line
<1>2. \A l \in Lanes : InLine(Line(l)', l, enqueued)
  BY <1>1 DEF OrderInv
<1> QED BY <1>2, OrderStep DEF OrderInv

(* No items: what a dead process has in memory. *)
LEMMA NoItemsFacts ==
    /\ NoItems \in [Lanes -> Seq(Items)]
    /\ \A l \in Lanes : NoItems[l] = <<>>
BY EmptyFacts DEF NoItems

(* The accepted item goes to the end of its line. *)
LEMMA EnqueueOrder ==
    ASSUME OrderInv, NEW i \in Items, Enqueue(i)
    PROVE  OrderInv'
<1> DEFINE m == LaneOf[i]
<1>1. /\ i \notin ToSet(enqueued) /\ enqueued' = Append(enqueued, i)
      /\ pending' = [pending EXCEPT ![m] = Append(@, i)]
      /\ active' = active /\ Persist
  BY DEF Enqueue
<1>2. m \in Lanes
  BY LaneQueueAssumptions
<1>3. pending' \in [Lanes -> Seq(Items)] /\ active' \in [Lanes -> Seq(Items)]
  BY <1>1, <1>2, AppendFacts DEF OrderInv
<1>4. enqueued' \in Seq(Items) /\ Once(enqueued')
  BY <1>1, <1>2, AppendFacts, AcceptFacts DEF OrderInv
<1>5. ASSUME NEW l \in Lanes
      PROVE  InLine(Line(l)', l, enqueued') /\ InLine(checkpoint[l], l, enqueued')
  <2>1. InLine(Line(l), l, enqueued') /\ InLine(checkpoint[l], l, enqueued')
    BY <1>1, AcceptFacts DEF OrderInv
  <2>2. CASE l # m
    <3>1. Line(l)' = Line(l)
      BY <1>1, <2>2 DEF Line, OrderInv
    <3> QED BY <2>1, <3>1
  <2>3. CASE l = m
    <3>1. Line(l)' = active[l] \o Append(pending[l], i)
      BY <1>1, <2>3 DEF Line, OrderInv
    <3>2. Line(l)' = Append(Line(l), i)
      BY <3>1, LineAppend DEF Line, OrderInv
    <3>3. InLine(Append(Line(l), i), l, enqueued')
      BY <1>1, <2>3, AcceptFacts DEF OrderInv
    <3> QED BY <2>1, <3>2, <3>3
  <2> QED BY <2>2, <2>3
<1>6. checkpoint' \in [Lanes -> Seq(Items)] /\ \A l \in Lanes : InLine(checkpoint'[l], l, enqueued')
  BY <1>1, <1>5, PersistOrder DEF OrderInv
<1> QED BY <1>3, <1>4, <1>5, <1>6 DEF OrderInv

(* What a dispatch does to the lane it picks from: the line stays as it is. *)
LEMMA DispatchLine ==
    ASSUME OrderInv, NEW l \in Lanes, Dispatch(l)
    PROVE  /\ pending[l] # <<>> /\ picked' \in Items /\ picked' \in ToSet(pending[l])
           /\ pending' \in [Lanes -> Seq(Items)] /\ active' \in [Lanes -> Seq(Items)]
           /\ \A m \in Lanes : ToSet(pending'[m]) \subseteq ToSet(pending[m])
           /\ \A m \in Lanes : m # l => active'[m] = active[m] /\ pending'[m] = pending[m]
           /\ active'[l] = Append(active[l], picked')
           /\ \A m \in Lanes : Line(m)' = Line(m)
<1>1. /\ picked' = Pick(pending[l])[1]
      /\ pending' = [pending EXCEPT ![l] = Pick(@)[2]]
      /\ active' = [active EXCEPT ![l] = Append(@, picked')]
  BY DEF Dispatch
<1>2. pending[l] # <<>>
  BY DEF Dispatch, NextLane, Dispatchable
<1>3. pending[l] \in Seq(Items) /\ active[l] \in Seq(Items)
  BY DEF OrderInv
<1>4. /\ picked' \in Items /\ picked' \in ToSet(pending[l])
      /\ Pick(pending[l])[2] \in Seq(Items)
      /\ ToSet(Pick(pending[l])[2]) \subseteq ToSet(pending[l])
  BY <1>1, <1>2, <1>3, PickFacts
<1>5. /\ pending' \in [Lanes -> Seq(Items)] /\ pending'[l] = Pick(pending[l])[2]
      /\ active'[l] = Append(active[l], picked')
      /\ \A m \in Lanes : m # l => active'[m] = active[m] /\ pending'[m] = pending[m]
  BY <1>1, <1>4 DEF OrderInv
<1>6. active' \in [Lanes -> Seq(Items)]
  <2>1. Append(active[l], picked') \in Seq(Items)
    BY <1>3, <1>4, AppendFacts
  <2> QED BY <1>1, <2>1 DEF OrderInv
<1>7. ASSUME NEW m \in Lanes
      PROVE  Line(m)' = Line(m) /\ ToSet(pending'[m]) \subseteq ToSet(pending[m])
  <2>1. CASE m = l
    <3>1. Append(active[l], picked') \o pending'[l] = active[l] \o pending[l]
      BY <1>1, <1>2, <1>3, <1>5, LinePick
    <3> QED BY <1>4, <1>5, <2>1, <3>1 DEF Line
  <2>2. CASE m # l
    BY <1>5, <2>2 DEF Line
  <2> QED BY <2>1, <2>2
<1> QED BY <1>2, <1>4, <1>5, <1>6, <1>7

(* So a dispatch keeps the order. *)
LEMMA DispatchOrder ==
    ASSUME OrderInv, NEW l \in Lanes, Dispatch(l)
    PROVE  OrderInv'
<1>1. \A m \in Lanes : InLine(Line(m)', m, enqueued)
  BY DispatchLine DEF OrderInv
<1> QED BY <1>1, DispatchLine, OrderStep DEF Dispatch

(* What _finish_item does to the lane: one started item leaves. *)
LEMMA FinishLine ==
    ASSUME OrderInv, NEW i \in Items, Finish(i)
    PROVE  /\ active' \in [Lanes -> Seq(Items)] /\ pending' = pending
           /\ \A l \in Lanes :
                 /\ ToSet(active'[l]) \subseteq ToSet(active[l])
                 /\ ToSet(active[l]) \ {i} \subseteq ToSet(active'[l])
                 /\ InLine(Line(l)', l, enqueued)
<1> DEFINE m == LaneOf[i]
<1>1. m \in Lanes
  BY LaneQueueAssumptions
<1>2. active' = [active EXCEPT ![m] = Without(@, i)] /\ pending' = pending
  BY DEF Finish, ActiveWithout
<1>3. active[m] \in Seq(Items) /\ pending[m] \in Seq(Items)
  BY <1>1 DEF OrderInv
<1>4. /\ Without(active[m], i) \in Seq(Items)
      /\ ToSet(Without(active[m], i)) \subseteq ToSet(active[m])
      /\ ToSet(active[m]) \ {i} \subseteq ToSet(Without(active[m], i))
      /\ Subsequence(Without(active[m], i) \o pending[m], active[m] \o pending[m])
  BY <1>3, WithoutFacts
<1>5. active' \in [Lanes -> Seq(Items)] /\ active'[m] = Without(active[m], i)
      /\ \A l \in Lanes : l # m => active'[l] = active[l]
  BY <1>1, <1>2, <1>4 DEF OrderInv
<1>6. ASSUME NEW l \in Lanes
      PROVE  /\ ToSet(active'[l]) \subseteq ToSet(active[l])
             /\ ToSet(active[l]) \ {i} \subseteq ToSet(active'[l])
             /\ InLine(Line(l)', l, enqueued)
  <2>0. InLine(Line(l), l, enqueued)
    BY DEF OrderInv
  <2>1. CASE l # m
    <3>1. Line(l)' = Line(l)
      BY <1>2, <1>5, <2>1 DEF Line
    <3> QED BY <1>5, <2>0, <2>1, <3>1
  <2>2. CASE l = m
    <3>1. Line(l)' = Without(active[m], i) \o pending[m]
      BY <1>2, <1>5, <2>2 DEF Line
    <3>2. Line(l)' \in Seq(Items)
      BY <1>3, <1>4, <3>1, ConcatFacts
    <3>3. Subsequence(Line(l)', Line(l))
      BY <1>4, <2>2, <3>1 DEF Line
    <3>4. InLine(Line(l)', l, enqueued)
      BY <2>0, <3>2, <3>3, InLineSubsequence
    <3> QED BY <1>4, <1>5, <2>2, <3>4
  <2> QED BY <2>1, <2>2
<1> QED BY <1>2, <1>5, <1>6

(* What is left after a crash, and in a process that starts empty. *)
LEMMA EmptyOrder ==
    ASSUME OrderInv, UNCHANGED <<enqueued, checkpoint>>,
           pending' = NoItems, active' = NoItems
    PROVE  OrderInv'
<1>1. ASSUME NEW l \in Lanes PROVE InLine(Line(l)', l, enqueued)
  <2>1. Line(l)' = <<>> \o <<>>
    BY NoItemsFacts DEF Line
  <2>2. <<>> \o <<>> = <<>>
    BY EmptyFacts, ConcatEmptySeq
  <2> QED BY <2>1, <2>2, InLineEmpty
<1> QED BY <1>1, NoItemsFacts, OrderStep

(* _restore_checkpoint takes the checkpoint as the line. *)
LEMMA RestartOrder ==
    ASSUME OrderInv, Restart
    PROVE  /\ OrderInv'
           /\ \A l \in Lanes : Line(l)' = checkpoint[l]
<1>1. pending' = checkpoint /\ active' = NoItems /\ UNCHANGED <<enqueued, checkpoint>>
  BY DEF Restart, FreshProcess
<1>2. ASSUME NEW l \in Lanes
      PROVE  Line(l)' = checkpoint[l] /\ InLine(Line(l)', l, enqueued)
  <2>1. Line(l)' = <<>> \o checkpoint[l] /\ checkpoint[l] \in Seq(Items)
    BY <1>1, NoItemsFacts DEF Line, OrderInv
  <2>2. Line(l)' = checkpoint[l]
    BY <2>1, ConcatEmptySeq
  <2> QED BY <2>2 DEF OrderInv
<1>3. OrderInv'
  BY <1>1, <1>2, NoItemsFacts, OrderStep DEF OrderInv
<1> QED BY <1>2, <1>3

(* Empty lanes are in order. *)
LEMMA InitOrder == Init => OrderInv
<1> SUFFICES ASSUME Init PROVE OrderInv
  OBVIOUS
<1>1. pending = NoItems /\ active = NoItems /\ checkpoint = NoItems /\ enqueued = <<>>
  BY DEF Init
<1>2. Once(<<>>)
  BY DEF Once
<1>3. ASSUME NEW l \in Lanes
      PROVE  InLine(Line(l), l, enqueued) /\ InLine(checkpoint[l], l, enqueued)
  <2>1. Line(l) = <<>> \o <<>> /\ checkpoint[l] = <<>>
    BY <1>1, NoItemsFacts DEF Line
  <2>2. <<>> \o <<>> = <<>>
    BY EmptyFacts, ConcatEmptySeq
  <2> QED BY <2>1, <2>2, InLineEmpty
<1> QED BY <1>1, <1>2, <1>3, NoItemsFacts, EmptyFacts DEF OrderInv

(* Only enqueue makes a line longer, and only at its end. *)
LEMMA NextOrder == OrderInv /\ [Next]_vars => OrderInv'
<1> SUFFICES ASSUME OrderInv, [Next]_vars PROVE OrderInv'
  OBVIOUS
<1>1. ASSUME NEW i \in Items, Enqueue(i) PROVE OrderInv'
  BY <1>1, EnqueueOrder
<1>2. ASSUME NEW i \in Items, Finish(i) PROVE OrderInv'
  BY <1>2, FinishLine, OrderStep DEF Finish, OrderInv
<1>3. ASSUME NEW i \in Items, WorkEscapes(i) PROVE OrderInv'
  BY <1>3, OrderSame DEF WorkEscapes, queue, disk, history
<1>4. ASSUME NEW l \in Lanes, NEW n \in 1..MaxLimit, SetLaneConcurrency(l, n)
      PROVE  OrderInv'
  BY <1>4, OrderSame DEF SetLaneConcurrency, queue, disk, history
<1>5. ASSUME NEW l \in Lanes, Dispatch(l) PROVE OrderInv'
  BY <1>5, DispatchOrder
<1>6. CASE StartItem \/ DispatcherEnds \/ EnqueueRefused \/ StartRaises
           \/ ShutdownBegins \/ ShutdownEnds
  BY <1>6, OrderSame
  DEF StartItem, DispatcherEnds, EnqueueRefused, StartRaises, ShutdownBegins,
      ShutdownEnds, queue, disk, history
<1>7. CASE Crash
  BY <1>7, EmptyOrder DEF Crash, disk, history
<1>8. CASE Restart
  BY <1>8, RestartOrder
<1>9. CASE RestartEmpty
  BY <1>9, EmptyOrder DEF RestartEmpty, FreshProcess
<1>10. CASE UNCHANGED vars
  BY <1>10, OrderSame DEF vars, queue, disk, history
<1> QED BY <1>1, <1>2, <1>3, <1>4, <1>5, <1>6, <1>7, <1>8, <1>9, <1>10
        DEF Next, DispatcherStep

(* Started and queued, no item of a lane overtakes another of its lane, whatever is
   enqueued, finished, lost, written, crashed and restored in between.      *)
THEOREM LaneFIFOHolds == Spec => []LaneFIFO
<1>1. OrderInv => LaneFIFO
  BY DEF OrderInv, InLine, LaneFIFO, Before, Line
<1> QED BY <1>1, InitOrder, NextOrder, PTL DEF Spec

-----------------------------------------------------------------------------
(* Inductive: every worker thread, and the item about to get one, holds a slot in
   _active, of which no more are taken than max_total_concurrency allows; a dead
   process has no threads; and a queue that drained stays empty.            *)
SlotInv ==
    /\ working \subseteq ActiveSet
    /\ picked # NoItem => picked \in ActiveSet
    /\ picked \notin working
    /\ dispatcher = "starting" <=> picked # NoItem
    /\ IsFiniteSet(ActiveSet) /\ Cardinality(ActiveSet) <= MaxTotal
    /\ ~up => dispatcher = "none" /\ working = {}
    /\ stopping # "no" => ~accepting
    /\ stopping = "drained" => ~HasPending /\ ~HasActive

(* The slots taken, lane by lane. *)
LEMMA ActiveSetFacts ==
    /\ \A l \in Lanes : ToSet(active[l]) \subseteq ActiveSet
    /\ \A i \in ActiveSet : \E l \in Lanes : i \in ToSet(active[l])
BY DEF ActiveSet

(* An empty table, and no other, takes no slot. *)
LEMMA NoneActive ==
    ASSUME OrderInv, ~HasActive
    PROVE  ActiveSet = {}
<1>1. \A l \in Lanes : active[l] = <<>>
  BY DEF HasActive
<1> QED BY <1>1, ActiveSetFacts, EmptyFacts

(* The slots are the same when the table is. *)
LEMMA SameActive ==
    ASSUME UNCHANGED active
    PROVE  ActiveSet' = ActiveSet /\ (HasActive' <=> HasActive)
BY DEF ActiveSet, HasActive

(* The item of a slot is of the lane that has it, and is not queued. *)
LEMMA ActiveItem ==
    ASSUME OrderInv, NEW i \in ActiveSet
    PROVE  /\ i \in Items /\ i \in ToSet(active[LaneOf[i]])
           /\ i \notin ToSet(pending[LaneOf[i]])
<1>1. PICK l \in Lanes : i \in ToSet(active[l])
  BY ActiveSetFacts
<1>2. active[l] \in Seq(Items) /\ pending[l] \in Seq(Items) /\ InLine(Line(l), l, enqueued)
  BY DEF OrderInv
<1>3. i \in Items
  BY <1>1, <1>2 DEF ToSet
<1>4. i \in ToSet(Line(l))
  BY <1>1, <1>2, ConcatFacts DEF Line
<1>5. LaneOf[i] = l
  BY <1>2, <1>4 DEF InLine
<1>6. ToSet(active[l]) \cap ToSet(pending[l]) = {}
  BY <1>2, StartedNotQueued DEF Line, OrderInv
<1> QED BY <1>1, <1>3, <1>5, <1>6

(* NoItem has no thread. *)
LEMMA NoItemIdle ==
    ASSUME OrderInv, SlotInv
    PROVE  NoItem \notin working
BY ActiveItem, LaneQueueAssumptions DEF SlotInv

(* Steps that leave the queue alone. *)
LEMMA SlotSame ==
    ASSUME SlotInv, UNCHANGED <<pending, active>>,
           UNCHANGED <<dispatcher, picked, working, up>>,
           UNCHANGED <<accepting, stopping>>
    PROVE  SlotInv'
<1>1. ActiveSet' = ActiveSet /\ (HasActive' <=> HasActive) /\ (HasPending' <=> HasPending)
  BY SameActive DEF HasPending
<1> QED BY <1>1 DEF SlotInv

(* A drained queue accepts nothing. *)
LEMMA EnqueueSlot ==
    ASSUME SlotInv, NEW i \in Items, Enqueue(i)
    PROVE  SlotInv'
<1>1. /\ up /\ up' = up /\ accepting /\ accepting' = accepting /\ stopping' = stopping
      /\ active' = active /\ picked' = picked /\ working' = working
      /\ dispatcher' = IF dispatcher = "none" THEN "scanning" ELSE dispatcher
  BY DEF Enqueue, flags, process
<1>2. ActiveSet' = ActiveSet
  BY <1>1, SameActive
<1>3. stopping' = "no"
  BY <1>1 DEF SlotInv
<1> QED BY <1>1, <1>2, <1>3 DEF SlotInv

(* A dispatch takes one slot, and only if there is one left. *)
LEMMA DispatchSlot ==
    ASSUME OrderInv, SlotInv, NEW l \in Lanes, Dispatch(l)
    PROVE  SlotInv'
<1>1. /\ dispatcher = "scanning" /\ dispatcher' = "starting" /\ BelowTotal
      /\ up' = up /\ accepting' = accepting /\ stopping' = stopping /\ working' = working
  BY DEF Dispatch, flags, process
<1>2. picked' \in Items /\ picked' \in ToSet(pending[l]) /\ pending[l] # <<>>
  BY DispatchLine
<1>3. picked' # NoItem
  BY <1>2, LaneQueueAssumptions
<1>4. active[l] \in Seq(Items) /\ active'[l] = Append(active[l], picked')
      /\ \A m \in Lanes : m # l => active'[m] = active[m]
  BY DispatchLine DEF OrderInv
<1>5. ToSet(active'[l]) = ToSet(active[l]) \cup {picked'}
  BY <1>2, <1>4, AppendFacts
<1>6. ActiveSet' = ActiveSet \cup {picked'}
  BY <1>4, <1>5 DEF ActiveSet
<1>7. picked' \notin ActiveSet
  <2>1. LaneOf[picked'] = l
    <3>1. picked' \in ToSet(Line(l))
      BY <1>2, ConcatFacts DEF Line, OrderInv
    <3> QED BY <3>1 DEF OrderInv, InLine
  <2> QED BY <1>2, <2>1, ActiveItem
<1>8. IsFiniteSet(ActiveSet') /\ Cardinality(ActiveSet') <= MaxTotal
  <2>1. IsFiniteSet(ActiveSet) /\ Cardinality(ActiveSet) \in Nat
    BY FS_CardinalityType DEF SlotInv
  <2>2. Cardinality(ActiveSet) < MaxTotal
    BY <1>1 DEF BelowTotal, TotalActive
  <2>3. IsFiniteSet(ActiveSet \cup {picked'})
        /\ Cardinality(ActiveSet \cup {picked'}) = Cardinality(ActiveSet) + 1
    BY <1>7, <2>1, FS_AddElement
  <2> QED BY <1>6, <2>1, <2>2, <2>3, LaneQueueAssumptions
<1>9. stopping # "drained"
  BY <1>2 DEF SlotInv, HasPending
<1> QED BY <1>1, <1>3, <1>6, <1>7, <1>8, <1>9 DEF SlotInv

(* The worker's slot was taken by the dispatch. *)
LEMMA StartItemSlot ==
    ASSUME OrderInv, SlotInv, StartItem
    PROVE  SlotInv'
<1>1. /\ dispatcher = "starting" /\ dispatcher' = "scanning" /\ picked' = NoItem
      /\ working' = working \cup {picked} /\ UNCHANGED <<pending, active>>
      /\ up' = up /\ accepting' = accepting /\ stopping' = stopping
  BY DEF StartItem, queue, flags, process
<1>2. ActiveSet' = ActiveSet /\ (HasActive' <=> HasActive) /\ (HasPending' <=> HasPending)
  BY <1>1, SameActive DEF HasPending
<1>3. picked # NoItem /\ picked \in ActiveSet /\ NoItem \notin working
  BY <1>1, NoItemIdle DEF SlotInv
<1> QED BY <1>1, <1>2, <1>3 DEF SlotInv

(* _finish_item gives back the slot of its own item only. *)
LEMMA FinishSlot ==
    ASSUME OrderInv, SlotInv, NEW i \in Items, Finish(i)
    PROVE  SlotInv'
<1>1. /\ i \in working /\ working' = working \ {i} /\ pending' = pending
      /\ dispatcher' = dispatcher /\ picked' = picked
      /\ up' = up /\ accepting' = accepting /\ stopping' = stopping
  BY DEF Finish, flags, process
<1>2. ActiveSet' \subseteq ActiveSet
  BY FinishLine DEF ActiveSet
<1>3. ActiveSet \ {i} \subseteq ActiveSet'
  BY FinishLine DEF ActiveSet
<1>4. IsFiniteSet(ActiveSet') /\ Cardinality(ActiveSet') <= MaxTotal
  <2>1. IsFiniteSet(ActiveSet) /\ Cardinality(ActiveSet) \in Nat /\ Cardinality(ActiveSet) <= MaxTotal
    BY FS_CardinalityType DEF SlotInv
  <2>2. IsFiniteSet(ActiveSet') /\ Cardinality(ActiveSet') <= Cardinality(ActiveSet)
    BY <1>2, <2>1, FS_Subset
  <2>3. Cardinality(ActiveSet') \in Nat
    BY <2>2, FS_CardinalityType
  <2> QED BY <2>1, <2>2, <2>3, LaneQueueAssumptions
<1>5. stopping # "drained"
  BY <1>1, NoneActive DEF SlotInv
<1>6. picked # i
  BY <1>1 DEF SlotInv
<1> QED BY <1>1, <1>3, <1>4, <1>5, <1>6 DEF SlotInv

(* Steps after which no thread of the process is left, and no slot taken. *)
LEMMA EmptySlot ==
    ASSUME active' = NoItems, working' = {}, picked' = NoItem, dispatcher' = "none",
           stopping' # "no" => ~accepting',
           stopping' = "drained" => ~HasPending'
    PROVE  SlotInv'
<1>1. \A l \in Lanes : ToSet(active'[l]) = {}
  BY NoItemsFacts, EmptyFacts
<1>2. ActiveSet' = {}
  BY <1>1 DEF ActiveSet
<1>3. ~HasActive'
  BY NoItemsFacts DEF HasActive
<1> QED BY <1>2, <1>3, FS_EmptySet, LaneQueueAssumptions DEF SlotInv

(* No slot is taken at the start. *)
LEMMA InitSlot == Init => SlotInv
<1> SUFFICES ASSUME Init PROVE SlotInv
  OBVIOUS
<1>1. /\ active = NoItems /\ working = {} /\ picked = NoItem /\ dispatcher = "none"
      /\ stopping = "no" /\ up
  BY DEF Init
<1>2. \A l \in Lanes : ToSet(active[l]) = {}
  BY <1>1, NoItemsFacts, EmptyFacts
<1>3. ActiveSet = {}
  BY <1>2 DEF ActiveSet
<1> QED BY <1>1, <1>3, FS_EmptySet, LaneQueueAssumptions DEF SlotInv

(* A slot is taken before the thread starts and given back after its work. *)
LEMMA NextSlot == OrderInv /\ SlotInv /\ [Next]_vars => SlotInv'
<1> SUFFICES ASSUME OrderInv, SlotInv, [Next]_vars PROVE SlotInv'
  OBVIOUS
<1>0. ASSUME UNCHANGED <<pending, active>>
      PROVE  ActiveSet' = ActiveSet /\ (HasActive' <=> HasActive) /\ (HasPending' <=> HasPending)
  BY <1>0, SameActive DEF HasPending
<1>1. ASSUME NEW i \in Items, Enqueue(i) PROVE SlotInv'
  BY <1>1, EnqueueSlot
<1>2. ASSUME NEW i \in Items, Finish(i) PROVE SlotInv'
  BY <1>2, FinishSlot
<1>3. ASSUME NEW i \in Items, WorkEscapes(i) PROVE SlotInv'
  BY <1>0, <1>3 DEF WorkEscapes, queue, flags, process, SlotInv
<1>4. ASSUME NEW l \in Lanes, NEW n \in 1..MaxLimit, SetLaneConcurrency(l, n)
      PROVE  SlotInv'
  BY <1>4, SlotSame DEF SetLaneConcurrency, queue, flags, threads, process
<1>5. ASSUME NEW l \in Lanes, Dispatch(l) PROVE SlotInv'
  BY <1>5, DispatchSlot
<1>6. CASE StartItem
  BY <1>6, StartItemSlot
<1>7. CASE DispatcherEnds \/ EnqueueRefused \/ StartRaises
  BY <1>0, <1>7, NoItemIdle
  DEF DispatcherEnds, EnqueueRefused, StartRaises, queue, flags, threads, process, SlotInv
<1>8. CASE ShutdownBegins \/ ShutdownEnds
  BY <1>0, <1>8 DEF ShutdownBegins, ShutdownEnds, queue, threads, process, SlotInv
<1>9. CASE Crash
  <2>1. ~HasPending'
    BY <1>9, NoItemsFacts DEF Crash, HasPending
  <2> QED BY <1>9, <2>1, EmptySlot DEF Crash, flags, SlotInv
<1>10. CASE Restart \/ RestartEmpty
  <2>1. FreshProcess
    BY <1>10 DEF Restart, RestartEmpty
  <2>2. working' = {} /\ picked' = NoItem /\ dispatcher' = "none"
    BY <2>1 DEF FreshProcess, threads, SlotInv
  <2> QED BY <2>1, <2>2, EmptySlot DEF FreshProcess
<1>11. CASE UNCHANGED vars
  BY <1>11, SlotSame DEF vars, queue, flags, threads, process
<1> QED BY <1>1, <1>2, <1>3, <1>4, <1>5, <1>6, <1>7, <1>8, <1>9, <1>10, <1>11
        DEF Next, DispatcherStep

(* There are never more worker threads than max_total_concurrency. *)
THEOREM ThreadsWithinLimitHolds == Spec => []ThreadsWithinLimit
<1>1. SlotInv => ThreadsWithinLimit
  <2> SUFFICES ASSUME SlotInv PROVE Cardinality(working) <= MaxTotal
    BY DEF ThreadsWithinLimit
  <2>1. IsFiniteSet(ActiveSet) /\ working \subseteq ActiveSet
        /\ Cardinality(ActiveSet) <= MaxTotal
    BY DEF SlotInv
  <2>2. IsFiniteSet(working) /\ Cardinality(working) <= Cardinality(ActiveSet)
    BY <2>1, FS_Subset
  <2>3. Cardinality(working) \in Nat /\ Cardinality(ActiveSet) \in Nat
    BY <2>1, <2>2, FS_CardinalityType
  <2> QED BY <2>1, <2>2, <2>3, LaneQueueAssumptions
<1> QED BY <1>1, InitOrder, NextOrder, InitSlot, NextSlot, PTL DEF Spec

(* shutdown that returns because nothing is left leaves no thread behind, and
   nothing begins afterwards.                                               *)
THEOREM DrainedMeansQuietHolds == Spec => []DrainedMeansQuiet
<1>1. OrderInv /\ SlotInv => DrainedMeansQuiet
  <2> SUFFICES ASSUME OrderInv, SlotInv, stopping = "drained"
               PROVE  working = {} /\ picked = NoItem /\ ~HasPending
    BY DEF DrainedMeansQuiet
  <2>1. ActiveSet = {} /\ ~HasPending
    BY NoneActive DEF SlotInv
  <2> QED BY <2>1 DEF SlotInv
<1> QED BY <1>1, InitOrder, NextOrder, InitSlot, NextSlot, PTL DEF Spec

-----------------------------------------------------------------------------
(* Inductive: the real work of an item that may yet be started was not started
   before; a restored item has only the stub of _default_restore_work_factory. *)
RunInv ==
    /\ runs \in [Items -> Nat]
    /\ \A i \in Items :
          /\ runs[i] <= 1
          /\ runs[i] > 0 => i \in ToSet(enqueued)
          /\ i \notin stub /\ (i = picked \/ i \in ToSet(pending[LaneOf[i]])) => runs[i] = 0

(* Steps that start nothing, and after which no other item waits to be started. *)
LEMMA RunSame ==
    ASSUME RunInv, UNCHANGED <<runs, stub>>, ToSet(enqueued) \subseteq ToSet(enqueued'),
           \A i \in Items : i = picked' \/ i \in ToSet(pending'[LaneOf[i]]) =>
                               i = picked \/ i \in ToSet(pending[LaneOf[i]])
    PROVE  RunInv'
BY DEF RunInv

(* The accepted item is new. *)
LEMMA EnqueueRun ==
    ASSUME OrderInv, RunInv, NEW i \in Items, Enqueue(i)
    PROVE  RunInv'
<1>1. /\ i \notin ToSet(enqueued) /\ enqueued' = Append(enqueued, i)
      /\ pending' = [pending EXCEPT ![LaneOf[i]] = Append(@, i)]
      /\ picked' = picked /\ runs' = runs /\ stub' = stub
  BY DEF Enqueue
<1>2. ToSet(enqueued') = ToSet(enqueued) \cup {i}
  BY <1>1, AppendFacts DEF OrderInv
<1>3. LaneOf[i] \in Lanes
  BY LaneQueueAssumptions
<1>4. ASSUME NEW j \in Items, j # i
      PROVE  j \in ToSet(pending'[LaneOf[j]]) => j \in ToSet(pending[LaneOf[j]])
  <2>1. LaneOf[j] \in Lanes
    BY LaneQueueAssumptions
  <2>2. CASE LaneOf[j] = LaneOf[i]
    <3>1. pending'[LaneOf[j]] = Append(pending[LaneOf[j]], i)
      BY <1>1, <2>1, <2>2 DEF OrderInv
    <3> QED BY <1>4, <2>1, <3>1, AppendFacts DEF OrderInv
  <2>3. CASE LaneOf[j] # LaneOf[i]
    <3>1. pending'[LaneOf[j]] = pending[LaneOf[j]]
      BY <1>1, <2>1, <2>3 DEF OrderInv
    <3> QED BY <3>1
  <2> QED BY <2>2, <2>3
<1>5. runs[i] = 0
  BY <1>1 DEF RunInv
<1> QED BY <1>1, <1>2, <1>4, <1>5 DEF RunInv

(* The item picked was queued. *)
LEMMA DispatchRun ==
    ASSUME OrderInv, RunInv, NEW l \in Lanes, Dispatch(l)
    PROVE  RunInv'
<1>1. UNCHANGED <<runs, stub, enqueued>>
  BY DEF Dispatch
<1>2. picked' \in ToSet(pending[l])
  BY DispatchLine
<1>3. picked' \in ToSet(Line(l))
  BY <1>2, ConcatFacts DEF Line, OrderInv
<1>4. LaneOf[picked'] = l
  BY <1>3 DEF OrderInv, InLine
<1>5. \A i \in Items : LaneOf[i] \in Lanes
  BY LaneQueueAssumptions
<1>6. \A i \in Items : i \in ToSet(pending'[LaneOf[i]]) => i \in ToSet(pending[LaneOf[i]])
  BY <1>5, DispatchLine
<1> QED BY <1>1, <1>2, <1>4, <1>6, RunSame

(* The work starts, and its item is neither picked nor queued any more. *)
LEMMA StartItemRun ==
    ASSUME OrderInv, SlotInv, RunInv, StartItem
    PROVE  RunInv'
<1>1. /\ dispatcher = "starting" /\ picked' = NoItem
      /\ runs' = IF picked \in stub THEN runs ELSE [runs EXCEPT ![picked] = @ + 1]
      /\ UNCHANGED <<pending, stub, enqueued>>
  BY DEF StartItem, queue
<1>2. picked \in ActiveSet
  BY <1>1 DEF SlotInv
<1>3. picked \in Items /\ picked \in ToSet(active[LaneOf[picked]])
      /\ picked \notin ToSet(pending[LaneOf[picked]])
  BY <1>2, ActiveItem
<1>4. picked \in ToSet(enqueued)
  <2>1. LaneOf[picked] \in Lanes
    BY <1>3, LaneQueueAssumptions
  <2>2. picked \in ToSet(Line(LaneOf[picked]))
    BY <1>3, <2>1, ConcatFacts DEF Line, OrderInv
  <2> QED BY <2>1, <2>2 DEF OrderInv, InLine
<1>5. NoItem \notin Items
  BY LaneQueueAssumptions
<1>6. CASE picked \in stub
  BY <1>1, <1>5, <1>6 DEF RunInv
<1>7. CASE picked \notin stub
  <2>1. runs[picked] = 0
    BY <1>3, <1>7 DEF RunInv
  <2>2. runs' = [runs EXCEPT ![picked] = 1]
    BY <1>1, <1>3, <1>7, <2>1 DEF RunInv
  <2> QED BY <1>1, <1>3, <1>4, <1>5, <2>2 DEF RunInv
<1> QED BY <1>6, <1>7

(* Everything a restarted process finds is a stub. *)
LEMMA RestartRun ==
    ASSUME SlotInv, RunInv, Restart
    PROVE  RunInv'
<1>1. /\ ~up /\ pending' = checkpoint /\ stub' = Stubbed
      /\ UNCHANGED <<picked, runs, enqueued>>
  BY DEF Restart, FreshProcess, threads
<1>2. picked = NoItem
  BY <1>1 DEF SlotInv
<1>3. \A i \in Items : LaneOf[i] \in Lanes /\ i # NoItem
  BY LaneQueueAssumptions
<1>4. \A i \in Items : i \in ToSet(pending'[LaneOf[i]]) => i \in stub'
  BY <1>1, <1>3 DEF Stubbed
<1> QED BY <1>1, <1>2, <1>3, <1>4 DEF RunInv

(* Steps after which nothing waits. *)
LEMMA EmptyRun ==
    ASSUME RunInv, pending' = NoItems, picked' = NoItem, UNCHANGED <<runs, enqueued>>
    PROVE  RunInv'
<1>1. \A i \in Items : LaneOf[i] \in Lanes /\ i # NoItem
  BY LaneQueueAssumptions
<1>2. \A i \in Items : i \notin ToSet(pending'[LaneOf[i]])
  BY <1>1, NoItemsFacts, EmptyFacts
<1> QED BY <1>1, <1>2 DEF RunInv

(* Nothing was started at the start. *)
LEMMA InitRun == Init => RunInv
BY DEF Init, RunInv

(* Work is started once, right after its dispatch. *)
LEMMA NextRun == OrderInv /\ SlotInv /\ RunInv /\ [Next]_vars => RunInv'
<1> SUFFICES ASSUME OrderInv, SlotInv, RunInv, [Next]_vars PROVE RunInv'
  OBVIOUS
<1>1. ASSUME NEW i \in Items, Enqueue(i) PROVE RunInv'
  BY <1>1, EnqueueRun
<1>2. ASSUME NEW i \in Items, Finish(i) \/ WorkEscapes(i) PROVE RunInv'
  BY <1>2, RunSame DEF Finish, WorkEscapes, queue, history
<1>3. ASSUME NEW l \in Lanes, NEW n \in 1..MaxLimit, SetLaneConcurrency(l, n)
      PROVE  RunInv'
  BY <1>3, RunSame DEF SetLaneConcurrency, queue, threads, history
<1>4. ASSUME NEW l \in Lanes, Dispatch(l) PROVE RunInv'
  BY <1>4, DispatchRun
<1>5. CASE StartItem
  BY <1>5, StartItemRun
<1>6. CASE DispatcherEnds \/ EnqueueRefused \/ ShutdownBegins \/ ShutdownEnds
  BY <1>6, RunSame
  DEF DispatcherEnds, EnqueueRefused, ShutdownBegins, ShutdownEnds, queue, threads, history
<1>7. CASE StartRaises
  <2>1. NoItem \notin Items
    BY LaneQueueAssumptions
  <2> QED BY <1>7, <2>1, RunSame DEF StartRaises, queue, history
<1>8. CASE Crash
  BY <1>8, EmptyRun DEF Crash, history
<1>9. CASE Restart
  BY <1>9, RestartRun
<1>10. CASE RestartEmpty
  <2>1. picked' = NoItem /\ UNCHANGED <<runs, enqueued>>
    BY <1>10 DEF RestartEmpty, FreshProcess, threads, SlotInv
  <2> QED BY <1>10, <2>1, EmptyRun DEF RestartEmpty
<1>11. CASE UNCHANGED vars
  BY <1>11, RunSame DEF vars, queue, threads, history
<1> QED BY <1>1, <1>2, <1>3, <1>4, <1>5, <1>6, <1>7, <1>8, <1>9, <1>10, <1>11
        DEF Next, DispatcherStep

(* The work handed to enqueue is started at most once, over any number of crashes
   and restarts from a checkpoint of any age.                               *)
THEOREM RunsAtMostOnceHolds == Spec => []RunsAtMostOnce
<1>1. RunInv => RunsAtMostOnce
  BY DEF RunInv, RunsAtMostOnce
<1> QED BY <1>1, InitOrder, NextOrder, InitSlot, NextSlot, InitRun, NextRun, PTL DEF Spec

-----------------------------------------------------------------------------
(* The accepted items with a run_id that are not finished. *)
Owed == (ToSet(enqueued) \cap HasRunId) \ finished

(* Inductive: as long as no checkpoint was lost, what is owed is on disk, and in
   the memory of a process that is up.                                      *)
KeptInv ==
    /\ ~lossy => \A i \in Owed : i \in ToSet(checkpoint[LaneOf[i]])
    /\ ~lossy /\ up => \A i \in Owed : i \in ToSet(Line(LaneOf[i]))

(* A checkpoint that was written has what is owed, if memory has it. *)
LEMMA PersistKept ==
    ASSUME OrderInv', Persist,
           ~lossy => \A i \in Owed' : i \in ToSet(Line(LaneOf[i])')
    PROVE  KeptInv'
<1>1. CASE checkpoint' = Snapshot(active', pending') /\ lossy' = lossy
  <2>1. checkpoint' = [l \in Lanes |-> RunIdsOf(Line(l)')]
    BY <1>1 DEF Snapshot, Line
  <2>2. ASSUME ~lossy, NEW i \in Owed' PROVE i \in ToSet(checkpoint'[LaneOf[i]])
    <3>1. i \in HasRunId /\ LaneOf[i] \in Lanes
      BY LaneQueueAssumptions DEF Owed
    <3>2. i \in ToSet(Line(LaneOf[i])')
      BY <2>2
    <3>3. Line(LaneOf[i])' \in Seq(Items)
      BY <3>1 DEF OrderInv, InLine
    <3>4. i \in ToSet(RunIdsOf(Line(LaneOf[i])'))
      BY <3>1, <3>2, <3>3, RunIdsOfFacts
    <3> QED BY <2>1, <3>1, <3>4
  <2> QED BY <1>1, <2>2 DEF KeptInv
<1>2. CASE lossy' = TRUE
  BY <1>2 DEF KeptInv
<1> QED BY <1>1, <1>2 DEF Persist

(* Steps that leave the queue and the disk alone. *)
LEMMA KeptSame ==
    ASSUME KeptInv, UNCHANGED <<pending, active, checkpoint, lossy, enqueued, finished>>,
           up' => up
    PROVE  KeptInv'
<1>1. Owed' = Owed /\ \A l : Line(l)' = Line(l)
  BY DEF Owed, Line
<1> QED BY <1>1 DEF KeptInv

(* The accepted item is in memory before the checkpoint is written. *)
LEMMA EnqueueKept ==
    ASSUME OrderInv, KeptInv, NEW i \in Items, Enqueue(i)
    PROVE  KeptInv'
<1>0. OrderInv'
  BY EnqueueOrder
<1>1. /\ up /\ enqueued' = Append(enqueued, i) /\ finished' = finished
      /\ pending' = [pending EXCEPT ![LaneOf[i]] = Append(@, i)]
      /\ active' = active /\ Persist
  BY DEF Enqueue
<1>2. ToSet(enqueued') = ToSet(enqueued) \cup {i}
  BY <1>1, AppendFacts DEF OrderInv
<1>3. ASSUME ~lossy, NEW j \in Owed' PROVE j \in ToSet(Line(LaneOf[j])')
  <2>0. j \in Items /\ LaneOf[j] \in Lanes
    BY LaneQueueAssumptions DEF Owed
  <2>1. active[LaneOf[j]] \in Seq(Items) /\ pending[LaneOf[j]] \in Seq(Items)
        /\ Line(LaneOf[j]) \in Seq(Items)
    BY <2>0 DEF OrderInv, InLine
  <2>2. CASE LaneOf[j] = LaneOf[i]
    <3>1. Line(LaneOf[j])' = Append(Line(LaneOf[j]), i)
      <4>1. Line(LaneOf[j])' = active[LaneOf[j]] \o Append(pending[LaneOf[j]], i)
        BY <1>1, <2>0, <2>2 DEF Line, OrderInv
      <4> QED BY <2>1, <4>1, LineAppend DEF Line
    <3>2. j # i => j \in ToSet(Line(LaneOf[j]))
      BY <1>1, <1>2, <1>3 DEF Owed, KeptInv
    <3> QED BY <2>1, <3>1, <3>2, AppendFacts
  <2>3. CASE LaneOf[j] # LaneOf[i]
    <3>1. Line(LaneOf[j])' = Line(LaneOf[j])
      BY <1>1, <2>0, <2>3 DEF Line, OrderInv
    <3> QED BY <1>1, <1>2, <1>3, <2>3, <3>1 DEF Owed, KeptInv
  <2> QED BY <2>2, <2>3
<1> QED BY <1>0, <1>1, <1>3, PersistKept

(* Starting an item leaves it in memory. *)
LEMMA DispatchKept ==
    ASSUME OrderInv, SlotInv, KeptInv, NEW l \in Lanes, Dispatch(l)
    PROVE  KeptInv'
<1>0. OrderInv'
  BY DispatchOrder
<1>1. up /\ Persist /\ UNCHANGED <<enqueued, finished>>
  BY DEF Dispatch, SlotInv
<1>2. Owed' = Owed /\ \A m \in Lanes : Line(m)' = Line(m)
  BY <1>1, DispatchLine DEF Owed
<1>3. \A i \in Owed : LaneOf[i] \in Lanes
  BY LaneQueueAssumptions DEF Owed
<1> QED BY <1>0, <1>1, <1>2, <1>3, PersistKept DEF KeptInv

(* Only the finished item leaves memory, and it is owed no more. *)
LEMMA FinishKept ==
    ASSUME OrderInv, SlotInv, KeptInv, NEW i \in Items, Finish(i)
    PROVE  KeptInv'
<1>0. OrderInv'
  BY FinishLine, OrderStep DEF Finish, OrderInv
<1>1. up /\ Persist /\ enqueued' = enqueued /\ finished' = finished \cup {i}
      /\ pending' = pending
  BY DEF Finish, SlotInv
<1>2. ASSUME ~lossy, NEW j \in Owed' PROVE j \in ToSet(Line(LaneOf[j])')
  <2>1. j \in Owed /\ j # i /\ LaneOf[j] \in Lanes
    BY <1>1, LaneQueueAssumptions DEF Owed
  <2>2. j \in ToSet(active[LaneOf[j]]) \cup ToSet(pending[LaneOf[j]])
    BY <1>1, <1>2, <2>1, ConcatFacts DEF KeptInv, Line, OrderInv
  <2>3. j \in ToSet(active'[LaneOf[j]]) \cup ToSet(pending'[LaneOf[j]])
    BY <1>1, <2>1, <2>2, FinishLine
  <2> QED BY <1>0, <2>1, <2>3, ConcatFacts DEF Line, OrderInv
<1> QED BY <1>0, <1>1, <1>2, PersistKept

(* shutdown writes the checkpoint once more. *)
LEMMA ShutdownKept ==
    ASSUME OrderInv, KeptInv, ShutdownEnds
    PROVE  KeptInv'
<1>1. up /\ Persist /\ UNCHANGED <<pending, active, enqueued, finished>>
  BY DEF ShutdownEnds, queue, history
<1>2. OrderInv'
  BY <1>1, OrderSame
<1>3. Owed' = Owed /\ \A l : Line(l)' = Line(l)
  BY <1>1 DEF Owed, Line
<1> QED BY <1>1, <1>2, <1>3, PersistKept DEF KeptInv

(* What the disk has is in memory again. *)
LEMMA RestartKept ==
    ASSUME OrderInv, KeptInv, Restart
    PROVE  KeptInv'
<1>1. UNCHANGED <<checkpoint, lossy, enqueued, finished>>
  BY DEF Restart, FreshProcess
<1>2. Owed' = Owed /\ \A i \in Owed : LaneOf[i] \in Lanes
  BY <1>1, LaneQueueAssumptions DEF Owed
<1>3. \A l \in Lanes : Line(l)' = checkpoint[l]
  BY RestartOrder
<1> QED BY <1>1, <1>2, <1>3 DEF KeptInv

(* Nothing is owed at the start. *)
LEMMA InitKept == Init => KeptInv
BY EmptyFacts DEF Init, KeptInv, Owed

(* Every step that changes a line writes it, or counts as a loss. *)
LEMMA NextKept == OrderInv /\ SlotInv /\ KeptInv /\ [Next]_vars => KeptInv'
<1> SUFFICES ASSUME OrderInv, SlotInv, KeptInv, [Next]_vars PROVE KeptInv'
  OBVIOUS
<1>1. ASSUME NEW i \in Items, Enqueue(i) PROVE KeptInv'
  BY <1>1, EnqueueKept
<1>2. ASSUME NEW i \in Items, Finish(i) PROVE KeptInv'
  BY <1>2, FinishKept
<1>3. ASSUME NEW i \in Items, WorkEscapes(i) PROVE KeptInv'
  BY <1>3, KeptSame DEF WorkEscapes, queue, disk, process, history
<1>4. ASSUME NEW l \in Lanes, NEW n \in 1..MaxLimit, SetLaneConcurrency(l, n)
      PROVE  KeptInv'
  BY <1>4, KeptSame DEF SetLaneConcurrency, queue, disk, process, history
<1>5. ASSUME NEW l \in Lanes, Dispatch(l) PROVE KeptInv'
  BY <1>5, DispatchKept
<1>6. CASE StartItem \/ DispatcherEnds \/ EnqueueRefused \/ StartRaises \/ ShutdownBegins
  BY <1>6, KeptSame
  DEF StartItem, DispatcherEnds, EnqueueRefused, StartRaises, ShutdownBegins,
      queue, disk, process, history
<1>7. CASE ShutdownEnds
  BY <1>7, ShutdownKept
<1>8. CASE Crash
  BY <1>8 DEF Crash, disk, history, KeptInv, Owed
<1>9. CASE Restart
  BY <1>9, RestartKept
<1>10. CASE RestartEmpty
  BY <1>10 DEF RestartEmpty, KeptInv
<1>11. CASE UNCHANGED vars
  BY <1>11, KeptSame DEF vars, queue, disk, process, history
<1> QED BY <1>1, <1>2, <1>3, <1>4, <1>5, <1>6, <1>7, <1>8, <1>9, <1>10, <1>11
        DEF Next, DispatcherStep

(* An accepted item with a run_id survives a crash at any moment, unless a checkpoint
   could not be written or read.                                            *)
THEOREM NothingLostHolds == Spec => []NothingLost
<1>1. KeptInv => NothingLost
  BY DEF KeptInv, Owed, NothingLost
<1> QED BY <1>1, InitOrder, NextOrder, InitSlot, NextSlot, InitKept, NextKept, PTL DEF Spec

-----------------------------------------------------------------------------
(* Inductive: the passes a lane has suffered and the lanes still between the
   cursor and it never add up to more than the other lanes.                 *)
RoundRobin ==
    /\ cursor \in Lanes
    /\ bypassed \in [Lanes -> Nat]
    /\ \A l \in Lanes : bypassed[l] + Offset(l) <= N - 1

(* The distance from one lane forward to another, modulo N. *)
LEMMA CyclicDistance ==
    ASSUME NEW c \in Lanes, NEW l \in Lanes
    PROVE  (IF l >= c THEN l - c ELSE l + N - c) \in 0..(N - 1)
BY LaneQueueAssumptions DEF Lanes

(* The scan of _next_dispatchable_item_locked visits N lanes. *)
LEMMA OffsetInRange ==
    ASSUME cursor \in Lanes, NEW l \in Lanes
    PROVE  Offset(l) \in 0..(N - 1)
BY CyclicDistance DEF Offset

(* A pick of lane l brings every lane behind l at least one step nearer. *)
LEMMA DispatchRoundRobin ==
    ASSUME RoundRobin, NEW l \in Lanes, Dispatch(l)
    PROVE  RoundRobin'
<1>1. cursor' = CursorAfter(l) BY DEF Dispatch
<1>2. cursor' \in Lanes BY <1>1, LaneQueueAssumptions DEF CursorAfter, Lanes
<1>3. bypassed' = [m \in Lanes |->
                     IF m # l /\ Dispatchable(m) THEN bypassed[m] + 1 ELSE 0]
  BY DEF Dispatch
<1>4. bypassed' \in [Lanes -> Nat] BY <1>3 DEF RoundRobin
<1>5. ASSUME NEW m \in Lanes
      PROVE  bypassed'[m] + Offset(m)' <= N - 1
  <2>1. CASE m # l /\ Dispatchable(m)
    <3>1. Offset(l) <= Offset(m) BY <2>1 DEF Dispatch, NextLane
    <3>2. Offset(m)' <= Offset(m) - 1
      BY <1>1, <2>1, <3>1, LaneQueueAssumptions
      DEF Offset, CursorAfter, Lanes, RoundRobin
    <3>3. bypassed'[m] = bypassed[m] + 1 BY <1>3, <2>1
    <3>4. bypassed[m] + Offset(m) <= N - 1 BY DEF RoundRobin
    <3>5. Offset(m) \in Int BY OffsetInRange DEF RoundRobin
    <3>6. Offset(m)' \in Int BY <1>2, LaneQueueAssumptions DEF Offset, Lanes
    <3> QED BY <3>2, <3>3, <3>4, <3>5, <3>6, LaneQueueAssumptions DEF RoundRobin
  <2>2. CASE ~(m # l /\ Dispatchable(m))
    <3>1. bypassed'[m] = 0 BY <1>3, <2>2
    <3>2. Offset(m)' \in 0..(N - 1) BY <1>2, CyclicDistance DEF Offset
    <3> QED BY <3>1, <3>2, LaneQueueAssumptions
  <2> QED BY <2>1, <2>2
<1> QED BY <1>2, <1>4, <1>5 DEF RoundRobin

(* A fresh process starts its scan at the first lane with no debts. *)
LEMMA FreshRoundRobin ==
    ASSUME FreshProcess
    PROVE  RoundRobin'
<1>1. cursor' = 0 /\ bypassed' = [l \in Lanes |-> 0] BY DEF FreshProcess
<1>2. 0 \in Lanes BY LaneQueueAssumptions DEF Lanes
<1>3. ASSUME NEW m \in Lanes PROVE bypassed'[m] + Offset(m)' <= N - 1
  BY <1>1, LaneQueueAssumptions DEF Offset, Lanes
<1> QED BY <1>1, <1>2, <1>3 DEF RoundRobin

(* No lane has been passed over at the start. *)
LEMMA InitRoundRobin == Init => RoundRobin
BY LaneQueueAssumptions DEF Init, RoundRobin, Offset, Lanes

(* A dispatch moves the cursor as far as it adds to bypassed; nothing else
   touches either, but for a restart, which resets both.                   *)
LEMMA NextRoundRobin == RoundRobin /\ [Next]_vars => RoundRobin'
<1> SUFFICES ASSUME RoundRobin, [Next]_vars PROVE RoundRobin'
  OBVIOUS
<1>1. ASSUME cursor' = cursor, bypassed' = bypassed PROVE RoundRobin'
  BY <1>1 DEF RoundRobin, Offset
<1>2. ASSUME NEW i \in Items, Enqueue(i) \/ Finish(i) \/ WorkEscapes(i)
      PROVE  RoundRobin'
  BY <1>1, <1>2 DEF Enqueue, Finish, WorkEscapes, queue, history
<1>3. ASSUME NEW l \in Lanes, NEW n \in 1..MaxLimit, SetLaneConcurrency(l, n)
      PROVE  RoundRobin'
  BY <1>1, <1>3 DEF SetLaneConcurrency, queue, history
<1>4. CASE DispatcherStep
  BY <1>1, <1>4, DispatchRoundRobin
  DEF DispatcherStep, StartItem, DispatcherEnds, queue, history
<1>5. CASE EnqueueRefused \/ StartRaises \/ ShutdownBegins \/ ShutdownEnds \/ Crash
  BY <1>1, <1>5
  DEF EnqueueRefused, StartRaises, ShutdownBegins, ShutdownEnds, Crash, queue, history
<1>6. CASE Restart \/ RestartEmpty
  BY <1>6, FreshRoundRobin DEF Restart, RestartEmpty
<1>7. CASE UNCHANGED vars
  BY <1>1, <1>7 DEF vars, queue, history
<1> QED BY <1>2, <1>3, <1>4, <1>5, <1>6, <1>7 DEF Next

(* _next_dispatchable_item_locked never passes over a lane with work and a free
   slot more than N - 1 times in a row.                                     *)
THEOREM BoundedBypassHolds == Spec => []BoundedBypass
<1>1. RoundRobin => BoundedBypass
  <2> SUFFICES ASSUME RoundRobin, NEW l \in Lanes PROVE bypassed[l] <= N - 1
    BY DEF BoundedBypass
  <2> QED BY OffsetInRange, LaneQueueAssumptions DEF RoundRobin
<1> QED BY <1>1, InitRoundRobin, NextRoundRobin, PTL DEF Spec

(* The scan meets each lane at a distance of its own. *)
LEMMA OffsetInjective ==
    ASSUME cursor \in Lanes, NEW l \in Lanes, NEW m \in Lanes, Offset(l) = Offset(m)
    PROVE  l = m
BY LaneQueueAssumptions DEF Offset, Lanes

(* If some lane has work and a free slot, the scan stops at a lane, and at one only. *)
ScanDecides ==
    (\E l \in Lanes : Dispatchable(l)) =>
        \E l \in Lanes : NextLane(l) /\ \A m \in Lanes : NextLane(m) => m = l

(* The loop of _next_dispatchable_item_locked over N offsets from the cursor misses
   no lane it could serve: while one is dispatchable, what the dispatcher does next
   is determined.                                                           *)
THEOREM ScanDecidesHolds == Spec => []ScanDecides
<1>1. RoundRobin => ScanDecides
  <2> SUFFICES ASSUME RoundRobin, NEW d \in Lanes, Dispatchable(d)
               PROVE  \E l \in Lanes : NextLane(l) /\ \A m \in Lanes : NextLane(m) => m = l
    BY DEF ScanDecides
  <2>0. cursor \in Lanes
    BY DEF RoundRobin
  <2> DEFINE T == {Offset(l) : l \in {m \in Lanes : Dispatchable(m)}}
  <2>1. T \subseteq Nat /\ T # {}
    BY <2>0, OffsetInRange
  <2>2. PICK n \in T : \A k \in T : n <= k
    BY <2>1, LeastNatural
  <2>3. PICK l \in Lanes : Dispatchable(l) /\ n = Offset(l)
    BY <2>2
  <2>4. NextLane(l)
    BY <2>2, <2>3 DEF NextLane
  <2>5. ASSUME NEW m \in Lanes, NextLane(m) PROVE m = l
    <3>1. Offset(m) <= Offset(l) /\ Offset(l) <= Offset(m)
      BY <2>3, <2>4, <2>5 DEF NextLane
    <3>2. Offset(m) \in Nat /\ Offset(l) \in Nat
      BY <2>0, OffsetInRange
    <3>3. Offset(l) = Offset(m)
      BY <3>1, <3>2
    <3> QED BY <2>0, <3>3, OffsetInjective
  <2> QED BY <2>4, <2>5
<1> QED BY <1>1, InitRoundRobin, NextRoundRobin, PTL DEF Spec

-----------------------------------------------------------------------------
(* The fields that are not queues. *)
ScalarTypes ==
    /\ limit \in [Lanes -> 1..MaxLimit]
    /\ {accepting, draining, down, failing, up, lossy} \subseteq BOOLEAN
    /\ dispatcher \in {"none", "scanning", "starting", "ended"}
    /\ stopping \in {"no", "waiting", "timed_out", "drained"}
    /\ picked \in Items \cup {NoItem} /\ working \subseteq Items /\ stub \subseteq Items
    /\ finished \subseteq Items
    /\ crashes \in 0..MaxCrashes /\ faults \in 0..MaxFaults

(* A fault is counted. *)
LEMMA FaultType ==
    ASSUME faults \in 0..MaxFaults, Fault
    PROVE  faults' \in 0..MaxFaults
BY LaneQueueAssumptions DEF Fault

(* What _persist_checkpoint_locked sets. *)
LEMMA PersistType ==
    ASSUME ScalarTypes, Persist
    PROVE  {failing', lossy'} \subseteq BOOLEAN /\ faults' \in 0..MaxFaults
BY FaultType, Zenon DEF Persist, ScalarTypes

(* What a process starts with. *)
LEMMA FreshType ==
    ASSUME ScalarTypes, FreshProcess, {failing', lossy'} \subseteq BOOLEAN,
           faults' \in 0..MaxFaults, stub' \subseteq Items
    PROVE  ScalarTypes'
<1>1. limit' \in [Lanes -> 1..MaxLimit]
  BY LaneQueueAssumptions DEF FreshProcess
<1> QED BY <1>1 DEF FreshProcess, ScalarTypes, threads

(* The fields of a new queue. *)
LEMMA InitScalars == Init => ScalarTypes
<1> SUFFICES ASSUME Init PROVE ScalarTypes
  OBVIOUS
<1>1. limit \in [Lanes -> 1..MaxLimit] /\ crashes \in 0..MaxCrashes /\ faults \in 0..MaxFaults
  BY LaneQueueAssumptions DEF Init
<1> QED BY <1>1 DEF Init, ScalarTypes

(* Every step leaves each field in its range. *)
LEMMA NextScalars == OrderInv /\ SlotInv /\ ScalarTypes /\ [Next]_vars => ScalarTypes'
<1> SUFFICES ASSUME OrderInv, SlotInv, ScalarTypes, [Next]_vars PROVE ScalarTypes'
  OBVIOUS
<1>1. ASSUME NEW i \in Items, Enqueue(i) PROVE ScalarTypes'
  BY <1>1, PersistType DEF Enqueue, flags, process, ScalarTypes
<1>2. ASSUME NEW i \in Items, Finish(i) PROVE ScalarTypes'
  BY <1>2, PersistType DEF Finish, flags, process, ScalarTypes
<1>3. ASSUME NEW i \in Items, WorkEscapes(i) PROVE ScalarTypes'
  BY <1>3, FaultType DEF WorkEscapes, flags, disk, process, history, ScalarTypes
<1>4. ASSUME NEW l \in Lanes, NEW n \in 1..MaxLimit, SetLaneConcurrency(l, n)
      PROVE  ScalarTypes'
  BY <1>4 DEF SetLaneConcurrency, flags, threads, disk, process, history, ScalarTypes
<1>5. ASSUME NEW l \in Lanes, Dispatch(l) PROVE ScalarTypes'
  BY <1>5, PersistType, DispatchLine DEF Dispatch, flags, process, ScalarTypes
<1>6. CASE StartItem
  <2>1. picked \in Items
    BY <1>6 DEF StartItem, SlotInv, ScalarTypes
  <2> QED BY <1>6, <2>1 DEF StartItem, flags, disk, process, ScalarTypes
<1>7. CASE DispatcherEnds \/ EnqueueRefused
  BY <1>7 DEF DispatcherEnds, EnqueueRefused, flags, disk, process, history, ScalarTypes
<1>8. CASE StartRaises
  BY <1>8, FaultType DEF StartRaises, flags, disk, process, history, ScalarTypes
<1>9. CASE ShutdownBegins
  BY <1>9 DEF ShutdownBegins, threads, disk, process, history, ScalarTypes
<1>10. CASE ShutdownEnds
  BY <1>10, PersistType DEF ShutdownEnds, threads, process, history, ScalarTypes
<1>11. CASE Crash
  <2>1. crashes' \in 0..MaxCrashes
    BY <1>11, LaneQueueAssumptions DEF Crash, ScalarTypes
  <2> QED BY <1>11, <2>1 DEF Crash, flags, disk, history, ScalarTypes
<1>12. CASE Restart
  <2>1. stub' \subseteq Items
    BY <1>12 DEF Restart, Stubbed, ToSet, OrderInv
  <2> QED BY <1>12, <2>1, FreshType DEF Restart, ScalarTypes
<1>13. CASE RestartEmpty
  BY <1>13, FreshType, FaultType DEF RestartEmpty, ScalarTypes
<1>14. CASE UNCHANGED vars
  BY <1>14 DEF vars, flags, threads, disk, process, history, ScalarTypes
<1> QED BY <1>1, <1>2, <1>3, <1>4, <1>5, <1>6, <1>7, <1>8, <1>9, <1>10, <1>11,
           <1>12, <1>13, <1>14 DEF Next, DispatcherStep

(* The queue's fields hold what the code puts in them, and every item is in its
   own lane, on disk too.                                                   *)
THEOREM TypeCorrect == Spec => []TypeOK
<1>1. ASSUME OrderInv, NEW l \in Lanes, NEW s \in {pending[l], active[l], checkpoint[l]}
      PROVE  s \in Seq(Items) /\ \A k \in DOMAIN s : LaneOf[s[k]] = l
  <2>1. /\ s \in Seq(Items) /\ active[l] \in Seq(Items) /\ pending[l] \in Seq(Items)
        /\ InLine(Line(l), l, enqueued) /\ InLine(checkpoint[l], l, enqueued)
    BY <1>1 DEF OrderInv
  <2>2. ToSet(s) \subseteq ToSet(Line(l)) \/ s = checkpoint[l]
    BY <2>1, ConcatFacts DEF Line
  <2>3. \A i \in ToSet(s) : LaneOf[i] = l
    BY <2>1, <2>2 DEF InLine
  <2> QED BY <2>1, <2>3 DEF ToSet
<1>2. OrderInv /\ RunInv /\ ScalarTypes /\ RoundRobin => TypeOK
  BY <1>1 DEF OrderInv, RunInv, ScalarTypes, RoundRobin, TypeOK
<1> QED BY <1>2, InitOrder, NextOrder, InitSlot, NextSlot, InitRun, NextRun,
           InitScalars, NextScalars, InitRoundRobin, NextRoundRobin, PTL DEF Spec
=============================================================================
