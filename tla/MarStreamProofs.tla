-------------------------- MODULE MarStreamProofs ---------------------------
(***************************************************************************)
(* Proofs about the archive that is encoded while it is read.              *)
(*                                                                         *)
(* The invariant tells the story of an answer: there is a list of runs     *)
(* that are finished, and what the receiver has is that list and what has  *)
(* been read of the current part.  The lengths of the finished runs add up *)
(* to what the encoder counts; each file that has been sent is found in    *)
(* them, at the sum of the lengths before it; the headers of the central   *)
(* directory follow all files, in order; and the running CRC has seen the  *)
(* runs behind the headers of the chunk.                                   *)
(*                                                                         *)
(* From this the three properties follow.  The bytes that are sent differ  *)
(* from those that were announced by no more than what the files have      *)
(* grown, so that no offset is cut off by the width of its field; and an   *)
(* answer that is as long as it was announced, of files that have not      *)
(* changed, has reached the end record.                                    *)
(*                                                                         *)
(* Sums are recursive functions.  They are shown to be defined by taking a *)
(* least counterexample, and from then on only their equations are used.   *)
(***************************************************************************)
EXTENDS MarStream, FiniteSetTheorems, FunctionTheorems, NaturalsInduction,
        WellFoundedInduction, TLAPS

-----------------------------------------------------------------------------
(* Induction, sums and listings.                                           *)

\* A set of numbers that is not empty has a least one.
LEMMA LeastNumber ==
  ASSUME NEW T \in SUBSET Nat, T # {}
  PROVE  \E x \in T : \A y \in T : x <= y
<1>1. PICK x \in T : \A y \in T : ~(<<y, x>> \in OpToRel(<, Nat))
  BY NatLessThanWellFounded, WFMin, Zenon
<1>2. \A y \in T : ~(y < x)
  BY <1>1 DEF OpToRel
<1> QED BY <1>2

\* Induction up to a bound, for a property that is given as a set.
LEMMA UpTo ==
  ASSUME NEW N \in Nat, NEW T, 0 \in T, \A n \in 1..N : n - 1 \in T => n \in T
  PROVE  0..N \subseteq T
<1> DEFINE U == {n \in Nat : n \in 0..N /\ n \notin T}
<1> SUFFICES ASSUME U # {}
             PROVE  FALSE
  OBVIOUS
<1>1. PICK x \in U : \A y \in U : x <= y
  <2>1. U \in SUBSET Nat
    OBVIOUS
  <2> HIDE DEF U
  <2> QED BY <2>1, LeastNumber
<1>2. x \in 1..N /\ x - 1 \notin U /\ x - 1 \in 0..N
  BY <1>1
<1> QED BY <1>1, <1>2

\* The recursion that SumTo unrolls.
IsSum(f, s, n) == f = [i \in 0 .. n |-> IF i = 0 THEN 0 ELSE f[i - 1] + s[i]]

\* There is such a function.
LEMMA IsSumExists ==
  ASSUME NEW s, NEW n \in Nat
  PROVE  \E f : IsSum(f, s, n)
<1> DEFINE T == {m \in 0..n : \E f : IsSum(f, s, m)}
<1>1. 0 \in T
  <2>1. IsSum([i \in 0..0 |-> 0], s, 0)
    BY DEF IsSum
  <2> QED BY <2>1
<1>2. ASSUME NEW m \in 1..n, m - 1 \in T
      PROVE  m \in T
  <2>1. PICK f : IsSum(f, s, m - 1)
    BY <1>2
  <2> DEFINE g == [i \in 0..m |-> IF i = m THEN f[m - 1] + s[m] ELSE f[i]]
  <2>2. \A i \in 0..(m - 1) : f[i] = IF i = 0 THEN 0 ELSE f[i - 1] + s[i]
    BY <2>1 DEF IsSum
  <2>3. ASSUME NEW i \in 0..m
        PROVE  g[i] = IF i = 0 THEN 0 ELSE g[i - 1] + s[i]
    <3>1. CASE i = m
      <4>1. g[m - 1] = f[m - 1]
        OBVIOUS
      <4> QED BY <3>1, <4>1
    <3>2. CASE i # m
      <4>1. i \in 0..(m - 1) /\ g[i] = f[i] /\ (i # 0 => g[i - 1] = f[i - 1])
        BY <3>2
      <4> QED BY <4>1, <2>2
    <3> QED BY <3>1, <3>2
  <2>4. g = [i \in 0..m |-> g[i]]
    OBVIOUS
  <2> HIDE DEF g
  <2>5. IsSum(g, s, m)
    BY <2>3, <2>4 DEF IsSum
  <2> QED BY <2>5
<1> HIDE DEF T
<1>3. 0..n \subseteq T
  BY <1>1, <1>2, UpTo
<1>4. n \in T
  BY <1>3
<1> QED BY <1>4 DEF T

\* SumTo is the last value of its recursion.
LEMMA SumToIs ==
  ASSUME NEW s, NEW n \in Nat
  PROVE  \E f : IsSum(f, s, n) /\ SumTo(s, n) = f[n]
<1> DEFINE sum == CHOOSE f : IsSum(f, s, n)
<1>1. IsSum(sum, s, n)
  BY IsSumExists
<1>2. SumTo(s, n) = sum[n]
  BY DEF SumTo, IsSum
<1> QED BY <1>1, <1>2

\* The recursions up to two bounds agree as far as both go.
LEMMA SumsAgree ==
  ASSUME NEW s, NEW m \in Nat, NEW n \in Nat,
         NEW f, IsSum(f, s, m), NEW g, IsSum(g, s, n)
  PROVE  \A k \in 0..m : k <= n => f[k] = g[k]
<1> SUFFICES ASSUME NEW k \in 0..m, k <= n
             PROVE  f[k] = g[k]
  OBVIOUS
<1> DEFINE T == {i \in 0..k : f[i] = g[i]}
<1>0. /\ \A i \in 0..m : f[i] = IF i = 0 THEN 0 ELSE f[i - 1] + s[i]
      /\ \A i \in 0..n : g[i] = IF i = 0 THEN 0 ELSE g[i - 1] + s[i]
  BY DEF IsSum
<1>1. 0 \in T
  BY <1>0
<1>2. ASSUME NEW i \in 1..k, i - 1 \in T
      PROVE  i \in T
  <2>1. f[i - 1] = g[i - 1] /\ i \in 0..m /\ i \in 0..n /\ i # 0 /\ i \in 0..k
    BY <1>2
  <2>2. f[i] = f[i - 1] + s[i] /\ g[i] = g[i - 1] + s[i]
    BY <1>0, <2>1
  <2> QED BY <2>1, <2>2
<1> HIDE DEF T
<1>3. 0..k \subseteq T
  BY <1>1, <1>2, UpTo
<1>4. k \in T
  BY <1>3
<1> QED BY <1>4 DEF T

\* Nothing adds up to zero, and one more number is added.
LEMMA SumZero == \A s : SumTo(s, 0) = 0
<1> SUFFICES ASSUME NEW s
             PROVE  SumTo(s, 0) = 0
  OBVIOUS
<1>1. PICK f : IsSum(f, s, 0) /\ SumTo(s, 0) = f[0]
  BY SumToIs
<1> QED BY <1>1 DEF IsSum

\* A further number is added.
LEMMA SumStep ==
  ASSUME NEW s, NEW n \in Nat, n > 0
  PROVE  SumTo(s, n) = SumTo(s, n - 1) + s[n]
<1>0. n - 1 \in Nat
  OBVIOUS
<1>1. PICK f : IsSum(f, s, n) /\ SumTo(s, n) = f[n]
  BY SumToIs
<1>2. PICK g : IsSum(g, s, n - 1) /\ SumTo(s, n - 1) = g[n - 1]
  BY <1>0, SumToIs
<1>3. f[n - 1] = g[n - 1]
  <2> DEFINE k == n - 1
  <2>1. k \in 0..n /\ k \in Nat /\ k <= k
    OBVIOUS
  <2>2. IsSum(f, s, n) /\ IsSum(g, s, k)
    BY <1>1, <1>2
  <2> HIDE DEF k
  <2>3. \A i \in 0..n : i <= k => f[i] = g[i]
    BY <2>1, <2>2, SumsAgree
  <2>4. f[k] = g[k]
    BY <2>1, <2>3
  <2> QED BY <2>4 DEF k
<1>4. f[n] = f[n - 1] + s[n]
  BY <1>1 DEF IsSum
<1> QED BY <1>1, <1>2, <1>3, <1>4

\* A sum depends on the numbers that are summed.
LEMMA SumSame ==
  ASSUME NEW s, NEW t, NEW n \in Nat, \A i \in 1..n : s[i] = t[i]
  PROVE  SumTo(s, n) = SumTo(t, n)
<1> DEFINE T == {m \in 0..n : SumTo(s, m) = SumTo(t, m)}
<1>1. 0 \in T
  BY SumZero
<1>2. ASSUME NEW i \in 1..n, i - 1 \in T
      PROVE  i \in T
  <2>1. SumTo(s, i) = SumTo(s, i - 1) + s[i] /\ SumTo(t, i) = SumTo(t, i - 1) + t[i]
    BY SumStep
  <2>2. SumTo(s, i - 1) = SumTo(t, i - 1) /\ s[i] = t[i]
    BY <1>2
  <2> QED BY <2>1, <2>2
<1> HIDE DEF T
<1>3. 0..n \subseteq T
  BY <1>1, <1>2, UpTo
<1>4. n \in T
  BY <1>3
<1> QED BY <1>4 DEF T

\* Sums of natural numbers are natural numbers, and grow.
LEMMA SumNat ==
  ASSUME NEW s, NEW n \in Nat, \A i \in 1..n : s[i] \in Nat
  PROVE  \A m \in 0..n : SumTo(s, m) \in Nat /\ SumTo(s, m) <= SumTo(s, n)
<1> DEFINE T == {m \in 0..n : SumTo(s, m) \in Nat}
<1>1. 0 \in T
  BY SumZero
<1>2. ASSUME NEW i \in 1..n, i - 1 \in T
      PROVE  i \in T
  <2>1. SumTo(s, i) = SumTo(s, i - 1) + s[i]
    BY SumStep
  <2>2. SumTo(s, i - 1) \in Nat /\ s[i] \in Nat
    BY <1>2
  <2> QED BY <2>1, <2>2
<1> HIDE DEF T
<1>3. 0..n \subseteq T
  BY <1>1, <1>2, UpTo
<1>t. \A m \in 0..n : SumTo(s, m) \in Nat
  BY <1>3 DEF T
<1> SUFFICES ASSUME NEW m \in 0..n
             PROVE  SumTo(s, m) <= SumTo(s, n)
  BY <1>t
<1> DEFINE U == {i \in 0..n : m <= i => SumTo(s, m) <= SumTo(s, i)}
<1>4. 0 \in U
  BY <1>t
<1>5. ASSUME NEW i \in 1..n, i - 1 \in U
      PROVE  i \in U
  <2>1. SumTo(s, i) = SumTo(s, i - 1) + s[i]
    BY SumStep
  <2>2. SumTo(s, i - 1) \in Nat /\ s[i] \in Nat /\ SumTo(s, m) \in Nat /\ SumTo(s, i) \in Nat
    BY <1>t
  <2>3. CASE m <= i - 1
    BY <1>5, <2>1, <2>2, <2>3
  <2>4. CASE ~(m <= i - 1)
    <3>1. m <= i => m = i
      BY <2>4
    <3> QED BY <2>2, <3>1
  <2> QED BY <2>3, <2>4
<1> HIDE DEF U
<1>6. 0..n \subseteq U
  BY <1>4, <1>5, UpTo
<1>7. n \in U /\ m <= n
  BY <1>6
<1> QED BY <1>7 DEF U

\* The sum of sums.
LEMMA SumPlus ==
  ASSUME NEW s, NEW t, NEW u, NEW n \in Nat,
         \A i \in 1..n : s[i] \in Nat /\ t[i] \in Nat /\ u[i] = s[i] + t[i]
  PROVE  SumTo(u, n) = SumTo(s, n) + SumTo(t, n)
<1> DEFINE T == {m \in 0..n : SumTo(u, m) = SumTo(s, m) + SumTo(t, m)}
<1>0. \A m \in 0..n : SumTo(s, m) \in Nat /\ SumTo(t, m) \in Nat
  BY SumNat
<1>1. 0 \in T
  BY SumZero
<1>2. ASSUME NEW i \in 1..n, i - 1 \in T
      PROVE  i \in T
  <2>1. /\ SumTo(s, i) = SumTo(s, i - 1) + s[i] /\ SumTo(t, i) = SumTo(t, i - 1) + t[i]
        /\ SumTo(u, i) = SumTo(u, i - 1) + u[i]
    BY SumStep
  <2>2. SumTo(s, i - 1) \in Nat /\ SumTo(t, i - 1) \in Nat
    BY <1>0
  <2>3. s[i] \in Nat /\ t[i] \in Nat /\ u[i] = s[i] + t[i]
    OBVIOUS
  <2>4. SumTo(u, i - 1) = SumTo(s, i - 1) + SumTo(t, i - 1)
    BY <1>2
  <2>5. \A a, b, c, d \in Nat : (a + b) + (c + d) = (a + c) + (b + d)
    OBVIOUS
  <2>6. SumTo(u, i) = SumTo(s, i) + SumTo(t, i)
    BY <2>1, <2>2, <2>3, <2>4, <2>5
  <2> QED BY <2>6
<1> HIDE DEF T
<1>3. 0..n \subseteq T
  BY <1>1, <1>2, UpTo
<1>4. n \in T
  BY <1>3
<1> QED BY <1>4 DEF T

\* Numbers that are larger by g at most have a sum that is larger by n times g at most.
LEMMA SumBound ==
  ASSUME NEW s, NEW t, NEW g \in Nat, NEW n \in Nat,
         \A i \in 1..n : s[i] \in Nat /\ t[i] \in Nat /\ s[i] <= t[i] + g
  PROVE  SumTo(s, n) <= SumTo(t, n) + g * n
<1> DEFINE T == {m \in 0..n : SumTo(s, m) <= SumTo(t, m) + g * m}
<1>0. \A m \in 0..n : SumTo(s, m) \in Nat /\ SumTo(t, m) \in Nat
  BY SumNat
<1>1. 0 \in T
  BY SumZero
<1>2. ASSUME NEW i \in 1..n, i - 1 \in T
      PROVE  i \in T
  <2>1. SumTo(s, i) = SumTo(s, i - 1) + s[i] /\ SumTo(t, i) = SumTo(t, i - 1) + t[i]
    BY SumStep
  <2>2. SumTo(s, i - 1) \in Nat /\ SumTo(t, i - 1) \in Nat
    BY <1>0
  <2>3. s[i] \in Nat /\ t[i] \in Nat /\ s[i] <= t[i] + g
    OBVIOUS
  <2>4. SumTo(s, i - 1) <= SumTo(t, i - 1) + g * (i - 1)
    BY <1>2
  <2>5. g * i = g * (i - 1) + g /\ g * i \in Int /\ g * (i - 1) \in Int
    OBVIOUS
  <2>6. \A a, b, c, d, x, y \in Int : a <= b + x /\ c <= d + y => a + c <= (b + d) + (x + y)
    OBVIOUS
  <2>7. SumTo(s, i) <= SumTo(t, i) + g * i
    BY <2>1, <2>2, <2>3, <2>4, <2>5, <2>6
  <2> QED BY <2>7
<1> HIDE DEF T
<1>3. 0..n \subseteq T
  BY <1>1, <1>2, UpTo
<1>4. n \in T
  BY <1>3
<1> QED BY <1>4 DEF T

\* q lists the elements of S in increasing order.
IsListing(q, S) ==
  /\ q \in [1..Cardinality(S) -> S]
  /\ \A i, j \in 1..Cardinality(S) : i < j => q[i] < q[j]

\* Every set of numbers can be listed in order: add the largest one to a listing of the
\* others.
LEMMA ListingExists ==
  ASSUME NEW n \in Nat, NEW A \in SUBSET (1..n)
  PROVE  \E q : IsListing(q, A)
<1> DEFINE T == {m \in 0..n : \A S \in SUBSET (1..m) : \E q : IsListing(q, S)}
<1>1. 0 \in T
  <2> SUFFICES ASSUME NEW S \in SUBSET (1..0)
               PROVE  \E q : IsListing(q, S)
    OBVIOUS
  <2>1. S = {}
    OBVIOUS
  <2>2. Cardinality(S) = 0
    BY <2>1, FS_EmptySet
  <2>3. [i \in 1..0 |-> 0] \in [1..0 -> S]
    OBVIOUS
  <2>4. IsListing([i \in 1..0 |-> 0], S)
    BY <2>2, <2>3 DEF IsListing
  <2> QED BY <2>4
<1>2. ASSUME NEW m \in 1..n, m - 1 \in T
      PROVE  m \in T
  <2> SUFFICES ASSUME NEW S \in SUBSET (1..m)
               PROVE  \E q : IsListing(q, S)
    OBVIOUS
  <2>0. m \in Nat /\ IsFiniteSet(S) /\ Cardinality(S) \in Nat
    <3>1. IsFiniteSet(1..m)
      BY FS_Interval
    <3>2. IsFiniteSet(S)
      BY <3>1, FS_Subset
    <3> QED BY <3>2, FS_CardinalityType
  <2>1. CASE m \notin S
    <3>1. S \in SUBSET (1..(m - 1))
      BY <2>0, <2>1
    <3> QED BY <1>2, <3>1
  <2>2. CASE m \in S
    <3> DEFINE R == S \ {m}
               k == Cardinality(S)
    <3>1. R \in SUBSET (1..(m - 1))
      BY <2>0
    <3>2. PICK q : IsListing(q, R)
      BY <1>2, <3>1
    <3>3. Cardinality(R) = k - 1 /\ IsFiniteSet(R)
      BY <2>0, <2>2, FS_RemoveElement
    <3>4. k - 1 \in Nat /\ k \in Nat
      BY <2>0, <3>3, FS_CardinalityType
    <3> HIDE DEF k
    <3>5. q \in [1..(k - 1) -> R] /\ \A i, j \in 1..(k - 1) : i < j => q[i] < q[j]
      BY <3>2, <3>3 DEF IsListing
    <3> DEFINE r == [i \in 1..k |-> IF i < k THEN q[i] ELSE m]
    <3>6. r \in [1..k -> S]
      BY <2>2, <3>4, <3>5
    <3>7. ASSUME NEW i \in 1..k, NEW j \in 1..k, i < j
          PROVE  r[i] < r[j]
      <4>1. i \in 1..(k - 1) /\ r[i] = q[i] /\ q[i] \in 1..(m - 1)
        <5>1. i \in 1..(k - 1) /\ i < k
          BY <3>4, <3>7
        <5>2. q[i] \in R
          BY <3>5, <5>1
        <5> QED BY <3>1, <5>1, <5>2
      <4>2. CASE j < k
        <5>1. j \in 1..(k - 1) /\ r[j] = q[j]
          BY <3>4, <4>2
        <5> QED BY <3>5, <3>7, <4>1, <5>1
      <4>3. CASE j = k
        <5>1. r[j] = m
          BY <3>4, <4>3
        <5> QED BY <2>0, <4>1, <5>1
      <4> QED BY <3>4, <4>2, <4>3
    <3> HIDE DEF r
    <3>8. IsListing(r, S)
      BY <3>6, <3>7 DEF IsListing, k
    <3> QED BY <3>8
  <2> QED BY <2>1, <2>2
<1> HIDE DEF T
<1>3. n \in T
  <2>1. 0..n \subseteq T
    BY <1>1, <1>2, UpTo
  <2> QED BY <2>1
<1> QED BY <1>3 DEF T

\* InOrder is such a listing, and it lists the numbers from a + 1 to a + n as they are.
LEMMA InOrderFacts ==
  ASSUME NEW n \in Nat, NEW S \in SUBSET (1..n)
  PROVE  IsListing(InOrder(S), S)
<1>1. PICK p : IsListing(p, S)
  BY ListingExists
<1>2. /\ p \in [1..Cardinality(S) -> S]
      /\ \A i, j \in DOMAIN p : i < j => p[i] < p[j]
  BY <1>1 DEF IsListing
<1>3. /\ InOrder(S) \in [1..Cardinality(S) -> S]
      /\ \A i, j \in DOMAIN InOrder(S) : i < j => InOrder(S)[i] < InOrder(S)[j]
  BY <1>2 DEF InOrder
<1> QED BY <1>3 DEF IsListing

\* An interval in order is itself.
LEMMA IntervalInOrder ==
  ASSUME NEW a \in Nat, NEW n \in Nat, NEW S, S = (a + 1)..(a + n)
  PROVE  /\ DOMAIN InOrder(S) = 1..n /\ Len(InOrder(S)) = n
         /\ \A i \in 1..n : InOrder(S)[i] = a + i
<1> DEFINE q == InOrder(S)
<1>1. Cardinality(S) = n
  <2>1. a + 1 \in Int /\ a + n \in Int
    OBVIOUS
  <2>2. Cardinality(S) = IF a + 1 > a + n THEN 0 ELSE a + n - (a + 1) + 1
    BY <2>1, FS_Interval
  <2> QED BY <2>2
<1>2. q \in [1..n -> S] /\ \A i, j \in 1..n : i < j => q[i] < q[j]
  <2>1. S \in SUBSET (1..(a + n)) /\ a + n \in Nat
    OBVIOUS
  <2> QED BY <1>1, <2>1, InOrderFacts DEF IsListing
<1> HIDE DEF q
<1>3. \A i \in 1..n : q[i] \in Nat /\ a < q[i] /\ q[i] <= a + n
  BY <1>2
<1> DEFINE T == {i \in 0..n : i > 0 => q[i] >= a + i}
           U == {i \in 0..n : i < n => q[n - i] <= a + (n - i)}
<1>4. 0..n \subseteq T
  <2>1. 0 \in T
    OBVIOUS
  <2>2. ASSUME NEW i \in 1..n, i - 1 \in T
        PROVE  i \in T
    <3>1. CASE i = 1
      BY <1>3, <3>1
    <3>2. CASE i # 1
      <4>1. i - 1 \in 1..n /\ q[i - 1] < q[i] /\ q[i - 1] >= a + (i - 1)
        BY <1>2, <2>2, <3>2
      <4>2. q[i - 1] \in Nat /\ q[i] \in Nat
        BY <1>3, <4>1
      <4> QED BY <4>1, <4>2
    <3> QED BY <3>1, <3>2
  <2> HIDE DEF T
  <2> QED BY <2>1, <2>2, UpTo
<1>5. 0..n \subseteq U
  <2>1. 0 \in U
    BY <1>3
  <2>2. ASSUME NEW i \in 1..n, i - 1 \in U
        PROVE  i \in U
    <3> SUFFICES ASSUME i < n
                 PROVE  q[n - i] <= a + (n - i)
      OBVIOUS
    <3>1. n - i \in 1..n /\ n - (i - 1) \in 1..n /\ n - i < n - (i - 1)
      OBVIOUS
    <3>2. q[n - i] < q[n - (i - 1)]
      BY <1>2, <3>1
    <3>3. q[n - (i - 1)] <= a + (n - (i - 1))
      BY <2>2
    <3>4. q[n - i] \in Nat /\ q[n - (i - 1)] \in Nat
      BY <1>3, <3>1
    <3> QED BY <3>2, <3>3, <3>4
  <2> HIDE DEF U
  <2> QED BY <2>1, <2>2, UpTo
<1>6. ASSUME NEW i \in 1..n
      PROVE  q[i] = a + i
  <2>1. q[i] >= a + i /\ q[i] \in Nat
    BY <1>3, <1>4
  <2>2. n - i \in U /\ n - i < n /\ n - (n - i) = i
    <3>1. n - i \in 0..n /\ n - i < n /\ n - (n - i) = i
      OBVIOUS
    <3> HIDE DEF U
    <3> QED BY <1>5, <3>1
  <2>3. q[i] <= a + i
    BY <2>2
  <2> QED BY <2>1, <2>3
<1>7. q \in Seq(S) /\ Len(q) = n
  BY <1>2
<1> QED BY <1>2, <1>6, <1>7 DEF q

-----------------------------------------------------------------------------
(* Lists of files, and runs of bytes.                                      *)

\* The readers, in the order in which they are read.
Stages ==
  {"wrapper", "chunk", "type", "init", "header", "data", "descriptor", "central", "end",
   "done", "crc"}

\* The stages before the zip, those in which a file is sent, and those after all files.
LeadStages == {"wrapper", "chunk", "type"}
FileStages == {"header", "data", "descriptor"}
TailStages == {"central", "end", "done", "crc"}

\* What the encoder knows of a file, and runs of bytes of parts in P.
Infos == [file : F, name : Nat, size : Nat, offset : Nat,
          crc : [file : 0 .. Len(Files), amount : Nat]]
Runs(P) == [part : P, n : Nat]

\* What the first i files take in the stream, and their headers in the central directory.
LocalSizes(fs) == [i \in DOMAIN fs |-> 46 + fs[i].name + fs[i].crc.amount]
CentralSizes(fs) == [i \in DOMAIN fs |-> 46 + fs[i].name]
LocalLen(fs, i) == SumTo(LocalSizes(fs), i)
CentralLen(fs, i) == SumTo(CentralSizes(fs), i)

\* The bytes of the first k runs of s: those that are part of the zip, and all of them.
ZipBytes(s) == [j \in DOMAIN s |-> IF s[j].part.kind \in LeadStages THEN 0 ELSE s[j].n]
AllBytes(s) == [j \in DOMAIN s |-> s[j].n]
ZipLen(s, k) == SumTo(ZipBytes(s), k)
AllLen(s, k) == SumTo(AllBytes(s), k)

-----------------------------------------------------------------------------
(* The invariant.                                                          *)

\* Each size in a list is one that the file has had on the disk dk; it grows once at most.
SizesOK(dk, fs) ==
  \A i \in 1 .. Len(fs) :
    LET d == dk[fs[i].file]
    IN  fs[i].size <= d.length /\ d.length <= fs[i].size + (IF d.partial THEN 0 ELSE Growth)

\* A list names files of the staging area, each of them once.
ListOK(fs) ==
  /\ fs \in Seq(Infos) /\ Len(fs) <= Len(Files)
  /\ \A i, j \in 1 .. Len(fs) : fs[i].file = fs[j].file => i = j

\* Nothing of the list has been sent yet.
Fresh(fs) == \A i \in 1 .. Len(fs) : fs[i].offset = 0 /\ fs[i].crc = NoCrc

\* The files of the staging area, and the list that is kept for clients.
DiskOK == disk \in [F -> [length : Nat, partial : BOOLEAN, named : BOOLEAN]]
OfferOK == ListOK(offered) /\ Fresh(offered) /\ SizesOK(disk, offered)

\* The state of the encoder is well formed.
EncoderTypes ==
  /\ format \in Formats /\ declared \in Nat /\ stage \in Stages /\ index \in Nat
  /\ start \in Nat /\ written \in Nat /\ ListOK(files)
  /\ cursor = [part |-> cursor.part, pos |-> cursor.pos] /\ cursor.pos \in Nat
  /\ stage \in FileStages \cup {"central"} => index \in 1 .. Len(files)

\* How many files have been sent.
Sent ==
  IF stage \in FileStages THEN index - 1 ELSE IF stage \in TailStages THEN Len(files) ELSE 0

\* What was read of the files that have been sent, and where they start in the zip.
AmountsOK ==
  \A i \in 1 .. Sent : /\ files[i].size <= files[i].crc.amount
                       /\ files[i].crc.amount <= disk[files[i].file].length
OffsetsOK ==
  \A i \in 1 .. Len(files) :
    i <= Sent + 1 => files[i].offset = LocalLen(files, i - 1) % U32

\* The end record of the central directory, when all files of the list have been sent.
EndPart(fs) ==
  MakeEndOfCentralDirectory(Len(fs), CentralLen(fs, Len(fs)), LocalLen(fs, Len(fs)))

\* The part that is being read.
PartOK ==
  LET part == cursor.part
  IN  /\ stage = "wrapper" => part = WrapperHeader(declared - 8) /\ format = "chunk-wrapped"
      /\ stage = "chunk" => part = ChunkHeader
      /\ stage = "type" => part = MessageType
      /\ stage \in {"init", "done"} => part = NoPart
      /\ stage = "header" => part = MakeLocalHeader(files[index])
      /\ stage = "data" => part = Data(files[index].file)
      /\ stage = "descriptor" =>
           /\ part.crc.amount \in Nat
           /\ part = MakeDataDescriptor(Crc(files[index].file, part.crc.amount))
      /\ stage = "central" => part = MakeCentralHeader(files[index])
      /\ stage = "end" => part = EndPart(files)
      /\ stage = "crc" => part = CrcBytes(digest)
      /\ stage \in LeadStages \cup {"crc"} => format \notin Zips
      /\ stage # "data" => cursor.pos <= part.length

\* What was read of the file that is being sent.
DataOK ==
  /\ stage = "data" => cursor.pos <= disk[files[index].file].length
  /\ stage = "descriptor" => /\ files[index].size <= cursor.part.crc.amount
                             /\ cursor.part.crc.amount <= disk[files[index].file].length

\* The parts before the zip, and their bytes.
LeadCount == IF format = "chunk" THEN 2 ELSE IF format = "chunk-wrapped" THEN 3 ELSE 0
LeadPart(j) ==
  IF j = LeadCount THEN MessageType
  ELSE IF j = LeadCount - 1 THEN ChunkHeader ELSE WrapperHeader(declared - 8)
WrapperLen == IF format = "chunk-wrapped" THEN 8 ELSE 0
LeadLen ==
  CASE stage = "wrapper" -> 0
    [] stage = "chunk" -> WrapperLen
    [] stage = "type" -> WrapperLen + 1
    [] OTHER -> IF format \in Zips THEN 0 ELSE WrapperLen + 2

\* The bytes of the zip before the current part.
ZipIs ==
  CASE stage \in LeadStages \cup {"init"} -> 0
    [] stage = "header" -> LocalLen(files, index - 1)
    [] stage = "data" -> LocalLen(files, index - 1) + 30 + files[index].name
    [] stage = "descriptor" ->
         LocalLen(files, index - 1) + 30 + files[index].name + cursor.part.crc.amount
    [] stage = "central" -> LocalLen(files, Len(files)) + CentralLen(files, index - 1)
    [] stage = "end" -> LocalLen(files, Len(files)) + CentralLen(files, Len(files))
    [] stage \in {"done", "crc"} ->
         LocalLen(files, Len(files)) + CentralLen(files, Len(files)) + 22

\* What the encoder counts.
CountsOK ==
  /\ written = ZipIs + (IF stage \in ZipStages THEN cursor.pos ELSE 0)
  /\ stage \in TailStages => start = LocalLen(files, Len(files))

\* From here on fin is the list of the runs that are finished.  First, the runs before the
\* zip come first.
LeadOK(fin) ==
  /\ \A j \in 1 .. Len(fin) :
       IF j <= LeadCount THEN fin[j] = [part |-> LeadPart(j), n |-> LeadPart(j).length]
       ELSE fin[j].part.kind \notin LeadStages
  /\ stage = "wrapper" => Len(fin) = 0
  /\ stage = "chunk" => Len(fin) = LeadCount - 2
  /\ stage = "type" => Len(fin) = LeadCount - 1
  /\ stage = "init" => Len(fin) = LeadCount
  /\ stage \notin LeadStages => Len(fin) >= LeadCount

\* Their bytes are what is counted.
LengthOK(fin) ==
  ZipLen(fin, Len(fin)) = ZipIs /\ AllLen(fin, Len(fin)) = LeadLen + ZipIs

\* The runs of a file in s, from run k on: its header, amount bytes of data, and all of it.
LocalAt(s, k, info) ==
  /\ s[k].part.kind = "local" /\ s[k].part.file = info.file
  /\ s[k].n = s[k].part.length
DataAt(s, k, info, amount) ==
  LocalAt(s, k, info) /\ (amount > 0 => s[k + 1] = [part |-> Data(info.file), n |-> amount])
After(k, amount) == IF amount = 0 THEN k + 1 ELSE k + 2
FileRuns(s, k, info) ==
  LET d == After(k, info.crc.amount)
  IN  /\ DataAt(s, k, info, info.crc.amount) /\ d <= Len(s)
      /\ s[d].part.kind = "descriptor" /\ s[d].n = s[d].part.length /\ s[d].part.crc = info.crc

\* The files that have been sent are all there, and what has been read of the current one is.
FilesOK(fin) ==
  \A i \in 1 .. Sent : \E k \in 1 .. Len(fin) :
    FileRuns(fin, k, files[i]) /\ ZipLen(fin, k - 1) = LocalLen(files, i - 1)
CurrentOK(fin) ==
  stage \in {"data", "descriptor"} =>
    \E k \in 1 .. Len(fin) :
      /\ ZipLen(fin, k - 1) = LocalLen(files, index - 1)
      /\ LocalAt(fin, k, files[index])
      /\ stage = "data" => Len(fin) = k
      /\ stage = "descriptor" =>
           /\ DataAt(fin, k, files[index], cursor.part.crc.amount)
           /\ Len(fin) + 1 = After(k, cursor.part.crc.amount)

\* The headers of the central directory come one after the other, behind base other runs.
HeaderCount ==
  IF stage \notin TailStages THEN 0 ELSE IF stage = "central" THEN index - 1 ELSE Len(files)
Base(fin) == Len(fin) - HeaderCount - (IF stage \in {"done", "crc"} THEN 1 ELSE 0)
CentralRun(info) == [part |-> MakeCentralHeader(info), n |-> 46 + info.name]
CentralOK(fin) ==
  /\ \A k \in 1 .. Base(fin) : fin[k].part.kind \notin {"central", "end", "crc"}
  /\ stage \in TailStages =>
       /\ Base(fin) >= 0 /\ ZipLen(fin, Base(fin)) = LocalLen(files, Len(files))
       /\ \A i \in 1 .. HeaderCount : fin[Base(fin) + i] = CentralRun(files[i])
       /\ stage \in {"done", "crc"} => fin[Len(fin)] = [part |-> EndPart(files), n |-> 22]

\* What has been sent is what is finished, and what has been read of the current part.
Shown(fin) ==
  /\ sent = IF cursor.pos = 0 THEN fin ELSE Append(fin, [part |-> cursor.part, n |-> cursor.pos])
  /\ fin # <<>> => fin[Len(fin)].part # cursor.part

\* The running CRC has seen the message: all that has been sent behind the headers.
Behind(s, l) == [j \in 1 .. (Len(s) - l) |-> s[j + l]]
DigestOK(fin) ==
  format \notin Zips =>
    LET m == IF stage = "crc" THEN fin ELSE sent
        l == LeadCount - 1
    IN  IF stage \in {"wrapper", "chunk"} THEN digest = <<>>
        ELSE digest = Behind(m, l)

\* All that is known of the finished runs.
Story(fin) ==
  /\ LeadOK(fin) /\ LengthOK(fin) /\ FilesOK(fin) /\ CurrentOK(fin) /\ CentralOK(fin)
  /\ Shown(fin) /\ DigestOK(fin)

\* What the encoder is about to do, and what it has done.
EncoderOK ==
  /\ OffsetsOK /\ PartOK /\ CountsOK /\ declared = StreamLen(format, files)
  /\ \E P : \E fin \in Seq(Runs(P)) : Story(fin)

\* What the files on the disk say about it.
FilesAgree == SizesOK(disk, files) /\ AmountsOK /\ DataOK

\* An answer is complete when as much has been sent as was announced, or more.
OutOK ==
  /\ out \in {"none", "open", "complete", "failed"}
  /\ out = "complete" => SentLen >= declared

\* The inductive invariant.
StreamInv ==
  /\ DiskOK /\ OfferOK /\ EncoderTypes /\ OutOK
  /\ files = <<>> => sent = <<>> /\ out = "none"
  /\ files # <<>> => EncoderOK /\ FilesAgree

-----------------------------------------------------------------------------
(* The parts, the lists and the runs.                                      *)

\* The kinds and the lengths of the parts: what the headers announce for a file is what
\* make_file_header produces.
LEMMA PartFacts ==
  /\ \A info : /\ MakeLocalHeader(info).kind = "local"
               /\ MakeLocalHeader(info).file = info.file
               /\ MakeCentralHeader(info).kind = "central"
               /\ MakeCentralHeader(info).file = info.file
               /\ MakeCentralHeader(info).crc = info.crc
               /\ MakeCentralHeader(info).offset = info.offset
               /\ MakeCentralHeader(info).size = info.size % U32
               /\ info.name \in Nat => /\ MakeLocalHeader(info).length = 30 + info.name
                                       /\ MakeCentralHeader(info).length = 46 + info.name
  /\ \A crc : /\ MakeDataDescriptor(crc).kind = "descriptor"
              /\ MakeDataDescriptor(crc).crc = crc /\ MakeDataDescriptor(crc).length = 16
  /\ \A f : Data(f).kind = "data" /\ Data(f).file = f
  /\ \A c, s, o : /\ MakeEndOfCentralDirectory(c, s, o).kind = "end"
                  /\ MakeEndOfCentralDirectory(c, s, o).length = 22
                  /\ MakeEndOfCentralDirectory(c, s, o).count = c % U16
                  /\ MakeEndOfCentralDirectory(c, s, o).size = s % U32
                  /\ MakeEndOfCentralDirectory(c, s, o).offset = o % U32
  /\ \A l : WrapperHeader(l).kind = "wrapper" /\ WrapperHeader(l).length = 8
  /\ ChunkHeader.kind = "chunk" /\ ChunkHeader.length = 1
  /\ MessageType.kind = "type" /\ MessageType.length = 1
  /\ \A d : CrcBytes(d).kind = "crc" /\ CrcBytes(d).length = 2 /\ CrcBytes(d).of = d
  /\ NoPart.kind = "none" /\ NoPart.length = 0
BY DEF MakeLocalHeader, MakeCentralHeader, MakeDataDescriptor, Data, NoPart,
       MakeEndOfCentralDirectory, WrapperHeader, ChunkHeader, MessageType, CrcBytes

\* The fields of a file in a list.
LEMMA InfoFacts ==
  ASSUME NEW fs, ListOK(fs)
  PROVE  /\ fs \in Seq(Infos) /\ Len(fs) \in Nat /\ DOMAIN fs = 1..Len(fs)
         /\ \A i \in 1..Len(fs) : /\ fs[i] \in Infos /\ fs[i].file \in F /\ fs[i].name \in Nat
                                  /\ fs[i].size \in Nat /\ fs[i].offset \in Nat
                                  /\ fs[i].crc.amount \in Nat
<1>1. fs \in Seq(Infos)
  BY DEF ListOK
<1>2. Len(fs) \in Nat /\ DOMAIN fs = 1..Len(fs)
  BY <1>1
<1>3. \A i \in 1..Len(fs) : fs[i] \in Infos
  BY <1>1, <1>2
<1> QED BY <1>1, <1>2, <1>3 DEF Infos

\* The lengths grow by what a file takes.
LEMMA LenFacts ==
  ASSUME NEW fs, ListOK(fs)
  PROVE  /\ LocalLen(fs, 0) = 0 /\ CentralLen(fs, 0) = 0
         /\ \A i \in 0..Len(fs) : LocalLen(fs, i) \in Nat /\ CentralLen(fs, i) \in Nat
         /\ \A i \in 1..Len(fs) :
              /\ LocalLen(fs, i) = LocalLen(fs, i - 1) + (46 + fs[i].name + fs[i].crc.amount)
              /\ CentralLen(fs, i) = CentralLen(fs, i - 1) + (46 + fs[i].name)
         /\ \A i \in 0..Len(fs) : /\ LocalLen(fs, i) <= LocalLen(fs, Len(fs))
                                  /\ CentralLen(fs, i) <= CentralLen(fs, Len(fs))
<1> DEFINE n == Len(fs)
           l == LocalSizes(fs)
           c == CentralSizes(fs)
<1>0. n \in Nat
  BY InfoFacts
<1>1. \A i \in 1..n : /\ l[i] = 46 + fs[i].name + fs[i].crc.amount /\ l[i] \in Nat
                      /\ c[i] = 46 + fs[i].name /\ c[i] \in Nat
  BY InfoFacts DEF LocalSizes, CentralSizes
<1>2. \A i : LocalLen(fs, i) = SumTo(l, i) /\ CentralLen(fs, i) = SumTo(c, i)
  BY DEF LocalLen, CentralLen
<1> HIDE DEF n, l, c
<1>3. \A i \in 0..n : /\ SumTo(l, i) \in Nat /\ SumTo(l, i) <= SumTo(l, n)
                      /\ SumTo(c, i) \in Nat /\ SumTo(c, i) <= SumTo(c, n)
  BY <1>0, <1>1, SumNat
<1>4. ASSUME NEW i \in 1..n
      PROVE  SumTo(l, i) = SumTo(l, i - 1) + l[i] /\ SumTo(c, i) = SumTo(c, i - 1) + c[i]
  <2>1. i \in Nat /\ i > 0
    OBVIOUS
  <2> QED BY <2>1, SumStep
<1>5. SumTo(l, 0) = 0 /\ SumTo(c, 0) = 0
  BY SumZero
<1> QED BY <1>1, <1>2, <1>3, <1>4, <1>5 DEF n

\* The lengths do not depend on the files that follow, nor on the offsets.
LEMMA LenSame ==
  ASSUME NEW fs, ListOK(fs), NEW gs, ListOK(gs), Len(gs) = Len(fs), NEW i \in 0..Len(fs),
         \A j \in 1..i : gs[j].name = fs[j].name
  PROVE  /\ CentralLen(gs, i) = CentralLen(fs, i)
         /\ (\A j \in 1..i : gs[j].crc.amount = fs[j].crc.amount) =>
              LocalLen(gs, i) = LocalLen(fs, i)
<1>0. i \in Nat /\ \A j \in 1..i : j \in 1..Len(fs) /\ j \in DOMAIN fs /\ j \in DOMAIN gs
  BY InfoFacts
<1>1. \A j \in 1..i : CentralSizes(gs)[j] = CentralSizes(fs)[j]
  BY <1>0 DEF CentralSizes
<1>2. CentralLen(gs, i) = CentralLen(fs, i)
  BY <1>0, <1>1, SumSame DEF CentralLen
<1>3. ASSUME \A j \in 1..i : gs[j].crc.amount = fs[j].crc.amount
      PROVE  LocalLen(gs, i) = LocalLen(fs, i)
  <2>1. \A j \in 1..i : LocalSizes(gs)[j] = LocalSizes(fs)[j]
    BY <1>0, <1>3 DEF LocalSizes
  <2> QED BY <1>0, <2>1, SumSame DEF LocalLen
<1> QED BY <1>2, <1>3

\* s starts with the runs of fin.
Extends(s, fin) ==
  /\ Len(s) >= Len(fin) /\ \A j \in 1..Len(fin) : s[j] = fin[j]
  /\ \A k \in 0..Len(fin) : ZipLen(s, k) = ZipLen(fin, k) /\ AllLen(s, k) = AllLen(fin, k)

\* What a run adds to the zip.
InZip(run) == IF run.part.kind \in LeadStages THEN 0 ELSE run.n

\* A list of elements of a set is one of elements of a larger set.
LEMMA WiderSeq ==
  ASSUME NEW A, NEW B, A \subseteq B, NEW s \in Seq(A)
  PROVE  s \in Seq(B)
<1>1. Len(s) \in Nat /\ s \in [1..Len(s) -> A]
  OBVIOUS
<1>2. s \in [1..Len(s) -> B]
  BY <1>1
<1> QED BY <1>1, <1>2

\* The bytes of runs are numbers.
LEMMA RunLens ==
  ASSUME NEW P, NEW s \in Seq(Runs(P))
  PROVE  /\ Len(s) \in Nat /\ DOMAIN s = 1..Len(s)
         /\ \A k \in 0..Len(s) : ZipLen(s, k) \in Nat /\ AllLen(s, k) \in Nat
         /\ ZipLen(s, 0) = 0 /\ AllLen(s, 0) = 0
         /\ \A k \in 1..Len(s) : /\ s[k] \in Runs(P) /\ s[k].n \in Nat
                                 /\ ZipLen(s, k) = ZipLen(s, k - 1) + InZip(s[k])
                                 /\ AllLen(s, k) = AllLen(s, k - 1) + s[k].n
<1> DEFINE n == Len(s)
           z == ZipBytes(s)
           a == AllBytes(s)
<1>0. n \in Nat /\ DOMAIN s = 1..n
  OBVIOUS
<1>1. \A k \in 1..n : s[k] \in Runs(P) /\ s[k].n \in Nat
  <2>1. \A k \in 1..n : s[k] \in Runs(P)
    OBVIOUS
  <2>2. \A r \in Runs(P) : r.n \in Nat
    BY DEF Runs
  <2> QED BY <2>1, <2>2
<1>2. \A k \in 1..n : z[k] = InZip(s[k]) /\ a[k] = s[k].n /\ z[k] \in Nat /\ a[k] \in Nat
  BY <1>0, <1>1 DEF ZipBytes, AllBytes, InZip
<1>3. \A k : ZipLen(s, k) = SumTo(z, k) /\ AllLen(s, k) = SumTo(a, k)
  BY DEF ZipLen, AllLen
<1> HIDE DEF n, z, a
<1>4. \A k \in 0..n : SumTo(z, k) \in Nat /\ SumTo(a, k) \in Nat
  BY <1>0, <1>2, SumNat
<1>5. ASSUME NEW k \in 1..n
      PROVE  SumTo(z, k) = SumTo(z, k - 1) + z[k] /\ SumTo(a, k) = SumTo(a, k - 1) + a[k]
  <2>1. k \in Nat /\ k > 0
    OBVIOUS
  <2> QED BY <2>1, SumStep
<1>6. SumTo(z, 0) = 0 /\ SumTo(a, 0) = 0
  BY SumZero
<1> QED BY <1>0, <1>1, <1>2, <1>3, <1>4, <1>5, <1>6 DEF n

\* One more run.
LEMMA OneMoreRun ==
  ASSUME NEW P, NEW fin \in Seq(Runs(P)), NEW run, run.n \in Nat,
         run = [part |-> run.part, n |-> run.n]
  PROVE  LET s == Append(fin, run)
         IN  /\ s \in Seq(Runs(P \cup {run.part})) /\ Len(s) = Len(fin) + 1
             /\ s[Len(fin) + 1] = run /\ Extends(s, fin)
             /\ ZipLen(s, Len(s)) = ZipLen(fin, Len(fin)) + InZip(run)
             /\ AllLen(s, Len(s)) = AllLen(fin, Len(fin)) + run.n
<1> DEFINE s == Append(fin, run)
           Q == P \cup {run.part}
           n == Len(fin)
<1>0. n \in Nat
  OBVIOUS
<1>1. fin \in Seq(Runs(Q)) /\ run \in Runs(Q)
  <2>1. Runs(P) \subseteq Runs(Q)
    BY DEF Runs
  <2>2. run \in Runs(Q)
    BY DEF Runs
  <2> QED BY <2>1, <2>2, WiderSeq
<1>2. /\ s \in Seq(Runs(Q)) /\ Len(s) = n + 1 /\ s[n + 1] = run
      /\ \A j \in 1..n : s[j] = fin[j]
  <2> HIDE DEF Q
  <2> QED BY <1>1
<1> HIDE DEF s, Q
<1>3. DOMAIN s = 1..(n + 1) /\ DOMAIN fin = 1..n
  BY <1>2
<1> HIDE DEF n
<1>4. ASSUME NEW k \in 0..n
      PROVE  ZipLen(s, k) = ZipLen(fin, k) /\ AllLen(s, k) = AllLen(fin, k)
  <2>1. k \in Nat /\ \A j \in 1..k : j \in DOMAIN s /\ j \in DOMAIN fin /\ s[j] = fin[j]
    BY <1>0, <1>2, <1>3
  <2>2. \A j \in 1..k : ZipBytes(s)[j] = ZipBytes(fin)[j] /\ AllBytes(s)[j] = AllBytes(fin)[j]
    BY <2>1 DEF ZipBytes, AllBytes
  <2> QED BY <2>1, <2>2, SumSame DEF ZipLen, AllLen
<1>5. /\ ZipLen(s, n + 1) = ZipLen(s, n) + InZip(run)
      /\ AllLen(s, n + 1) = AllLen(s, n) + run.n
  <2>1. n + 1 \in 1..Len(s) /\ (n + 1) - 1 = n
    BY <1>0, <1>2
  <2> QED BY <1>2, <2>1, RunLens
<1>6. ZipLen(s, n) = ZipLen(fin, n) /\ AllLen(s, n) = AllLen(fin, n)
  BY <1>0, <1>4
<1>7. Extends(s, fin)
  BY <1>0, <1>2, <1>4 DEF Extends, n
<1> QED BY <1>2, <1>5, <1>6, <1>7 DEF s, Q, n

\* Files that are in fin are in what starts with fin.
LEMMA FileRunsStay ==
  ASSUME NEW P, NEW fin \in Seq(Runs(P)), NEW s, Len(s) \in Nat, Extends(s, fin),
         NEW info, info.crc.amount \in Nat, NEW k \in 1..Len(fin), FileRuns(fin, k, info)
  PROVE  k \in 1..Len(s) /\ FileRuns(s, k, info) /\ ZipLen(s, k - 1) = ZipLen(fin, k - 1)
<1> DEFINE d == After(k, info.crc.amount)
<1>0. Len(fin) \in Nat
  OBVIOUS
<1>1. d \in 1..Len(fin) /\ k + 1 \in 1..Len(fin) /\ d \in Nat
  BY <1>0 DEF FileRuns, After
<1>2. s[k] = fin[k] /\ s[k + 1] = fin[k + 1] /\ s[d] = fin[d] /\ Len(s) >= Len(fin)
  BY <1>1 DEF Extends
<1>3. k - 1 \in 0..Len(fin) /\ k \in 1..Len(s) /\ d <= Len(s)
  BY <1>0, <1>1, <1>2
<1>4. ZipLen(s, k - 1) = ZipLen(fin, k - 1)
  BY <1>3 DEF Extends
<1>5. FileRuns(s, k, info)
  BY <1>2, <1>3 DEF FileRuns, DataAt, LocalAt
<1> QED BY <1>3, <1>4, <1>5

-----------------------------------------------------------------------------
(* Steps that leave the encoder alone.                                     *)

\* What the invariant says of the encoder depends on its own state.
LEMMA EncoderStays ==
  ASSUME UNCHANGED <<encoderVars, format, declared, sent>>
  PROVE  (EncoderTypes => EncoderTypes') /\ (EncoderOK => EncoderOK')
<1>1. /\ files' = files /\ stage' = stage /\ index' = index /\ cursor' = cursor
      /\ start' = start /\ written' = written /\ digest' = digest
      /\ format' = format /\ declared' = declared /\ sent' = sent
  BY DEF encoderVars
<1>2. EncoderTypes => EncoderTypes'
  BY <1>1 DEF EncoderTypes
<1>3. OffsetsOK => OffsetsOK'
  BY <1>1 DEF OffsetsOK, Sent
<1>4. PartOK => PartOK'
  BY <1>1 DEF PartOK
<1>5. CountsOK => CountsOK'
  BY <1>1 DEF CountsOK, ZipIs
<1>6. \A fin : Story(fin) => Story(fin)'
  <2> SUFFICES ASSUME NEW fin, Story(fin)
               PROVE  Story(fin)'
    OBVIOUS
  <2>1. LeadOK(fin)'
    BY <1>1 DEF Story, LeadOK, LeadCount, LeadPart
  <2>2. LengthOK(fin)'
    BY <1>1 DEF Story, LengthOK, ZipIs, LeadLen, WrapperLen
  <2>3. FilesOK(fin)' /\ CurrentOK(fin)'
    BY <1>1 DEF Story, FilesOK, CurrentOK, Sent
  <2>4. CentralOK(fin)'
    BY <1>1 DEF Story, CentralOK, Base, HeaderCount
  <2>5. Shown(fin)' /\ DigestOK(fin)'
    BY <1>1 DEF Story, Shown, DigestOK, LeadCount
  <2> QED BY <2>1, <2>2, <2>3, <2>4, <2>5 DEF Story
<1> QED BY <1>1, <1>2, <1>3, <1>4, <1>5, <1>6 DEF EncoderOK

\* A file stays as long as it is, or grows by what was missing.
Grew(dk, new) ==
  \A f \in F :
    \/ new[f].length = dk[f].length /\ new[f].partial = dk[f].partial
    \/ dk[f].partial /\ ~new[f].partial /\ new[f].length = dk[f].length + Growth

\* Sizes that files have had remain so.
LEMMA SizesStay ==
  ASSUME NEW dk \in [F -> [length : Nat, partial : BOOLEAN, named : BOOLEAN]],
         NEW new \in [F -> [length : Nat, partial : BOOLEAN, named : BOOLEAN]],
         Grew(dk, new), NEW fs, ListOK(fs), SizesOK(dk, fs)
  PROVE  SizesOK(new, fs) /\ \A i \in 1..Len(fs) : dk[fs[i].file].length <= new[fs[i].file].length
<1> SUFFICES ASSUME NEW i \in 1..Len(fs)
             PROVE  LET d == new[fs[i].file]
                    IN  /\ fs[i].size <= d.length
                        /\ d.length <= fs[i].size + (IF d.partial THEN 0 ELSE Growth)
                        /\ dk[fs[i].file].length <= d.length
  BY DEF SizesOK
<1> DEFINE f == fs[i].file
<1>1. f \in F /\ fs[i].size \in Nat /\ Growth \in Nat
  BY InfoFacts, MarStreamAssumption
<1>2. dk[f].length \in Nat /\ new[f].length \in Nat
  BY <1>1
<1>3. /\ fs[i].size <= dk[f].length
      /\ dk[f].length <= fs[i].size + (IF dk[f].partial THEN 0 ELSE Growth)
  BY DEF SizesOK
<1>4. CASE new[f].length = dk[f].length /\ new[f].partial = dk[f].partial
  BY <1>1, <1>2, <1>3, <1>4
<1>5. CASE dk[f].partial /\ ~new[f].partial /\ new[f].length = dk[f].length + Growth
  BY <1>1, <1>2, <1>3, <1>5
<1> QED BY <1>1, <1>4, <1>5 DEF Grew

\* A step that changes files on the disk only.
LEMMA DiskStepKeeps ==
  ASSUME StreamInv, UNCHANGED <<encoderVars, format, declared, sent, out>>,
         DiskOK', Grew(disk, disk'), offered' \in {offered, <<>>}
  PROVE  StreamInv'
<1>1. /\ files' = files /\ stage' = stage /\ index' = index /\ cursor' = cursor
      /\ declared' = declared /\ sent' = sent /\ out' = out
  BY DEF encoderVars
<1>2. EncoderTypes' /\ (files # <<>> => EncoderOK')
  BY EncoderStays DEF StreamInv
<1>3. ListOK(files) /\ (files # <<>> => SizesOK(disk, files))
  BY DEF StreamInv, EncoderTypes, FilesAgree
<1>4. OfferOK'
  <2>1. CASE offered' = offered
    <3>1. ListOK(offered) /\ SizesOK(disk, offered) /\ Fresh(offered)
      BY DEF StreamInv, OfferOK
    <3>2. SizesOK(disk', offered)
      BY <3>1, SizesStay DEF StreamInv, DiskOK
    <3> QED BY <2>1, <3>1, <3>2 DEF OfferOK, ListOK, Fresh, SizesOK
  <2>2. CASE offered' = <<>>
    <3>1. <<>> \in Seq(Infos) /\ Len(<<>>) = 0 /\ Len(Files) \in Nat
      BY MarStreamAssumption
    <3> QED BY <2>2, <3>1 DEF OfferOK, ListOK, Fresh, SizesOK
  <2> QED BY <2>1, <2>2
<1>5. ASSUME files # <<>>
      PROVE  FilesAgree'
  <2>1. SizesOK(disk', files) /\ \A i \in 1..Len(files) :
          disk[files[i].file].length <= disk'[files[i].file].length
    BY <1>3, <1>5, SizesStay DEF StreamInv, DiskOK
  <2>2. AmountsOK /\ DataOK /\ EncoderTypes /\ PartOK
    BY <1>5 DEF StreamInv, FilesAgree, EncoderOK
  <2>3. \A i \in 1..Len(files) : /\ files[i].file \in F /\ files[i].crc.amount \in Nat
                                 /\ disk[files[i].file].length \in Nat
                                 /\ disk'[files[i].file].length \in Nat
    BY <1>3, InfoFacts DEF StreamInv, DiskOK
  <2>4. Sent \in 0..Len(files) /\ Sent' = Sent
    BY <1>1, <1>3, <2>2, InfoFacts DEF Sent, EncoderTypes
  <2>5. AmountsOK'
    <3> SUFFICES ASSUME NEW i \in 1..Sent
                 PROVE  /\ files[i].size <= files[i].crc.amount
                        /\ files[i].crc.amount <= disk'[files[i].file].length
      BY <1>1, <2>4 DEF AmountsOK
    <3>1. i \in 1..Len(files)
      BY <1>3, <2>4, InfoFacts
    <3>2. files[i].size <= files[i].crc.amount /\ files[i].crc.amount <= disk[files[i].file].length
      BY <2>2 DEF AmountsOK
    <3> QED BY <2>1, <2>3, <3>1, <3>2
  <2>6. DataOK'
    <3>1. CASE stage = "data"
      <4>1. index \in 1..Len(files) /\ cursor.pos \in Nat
        BY <2>2, <3>1 DEF EncoderTypes, FileStages
      <4>2. cursor.pos <= disk[files[index].file].length
        BY <2>2, <3>1 DEF DataOK
      <4>3. cursor.pos <= disk'[files[index].file].length
        BY <2>1, <2>3, <4>1, <4>2
      <4> QED BY <1>1, <3>1, <4>3 DEF DataOK
    <3>2. CASE stage = "descriptor"
      <4>1. index \in 1..Len(files) /\ cursor.part.crc.amount \in Nat
        BY <2>2, <3>2 DEF EncoderTypes, FileStages, PartOK
      <4>2. /\ files[index].size <= cursor.part.crc.amount
            /\ cursor.part.crc.amount <= disk[files[index].file].length
        BY <2>2, <3>2 DEF DataOK
      <4>3. cursor.part.crc.amount <= disk'[files[index].file].length
        BY <2>1, <2>3, <4>1, <4>2
      <4> QED BY <1>1, <3>2, <4>2, <4>3 DEF DataOK
    <3> QED BY <1>1, <3>1, <3>2 DEF DataOK
  <2> QED BY <1>1, <2>1, <2>5, <2>6 DEF FilesAgree, SizesOK
<1>6. OutOK'
  BY <1>1 DEF StreamInv, OutOK, SentLen
<1> QED BY <1>1, <1>2, <1>4, <1>5, <1>6 DEF StreamInv

\* Files are removed, and one that was not complete grows.
LEMMA StagingKeeps ==
  ASSUME StreamInv,
         \/ \E f \in F : RemoveFile(f) \/ FileGrows(f)
         \/ \E e \in dirs : RemoveDir(e)
         \/ HandleDelete
  PROVE  StreamInv'
<1>0. DiskOK /\ Growth \in Nat
  BY MarStreamAssumption DEF StreamInv
<1>1. ASSUME NEW f \in F, RemoveFile(f)
      PROVE  StreamInv'
  <2>1. disk' = [disk EXCEPT ![f].named = FALSE] /\ UNCHANGED Elsewhere
    BY <1>1 DEF RemoveFile
  <2>2. DiskOK' /\ Grew(disk, disk')
    BY <1>0, <2>1 DEF DiskOK, Grew
  <2> QED BY <2>1, <2>2, DiskStepKeeps DEF Elsewhere
<1>2. ASSUME NEW f \in F, FileGrows(f)
      PROVE  StreamInv'
  <2>1. /\ disk' = [disk EXCEPT ![f].partial = FALSE, ![f].length = @ + Growth]
        /\ disk[f].partial /\ UNCHANGED Elsewhere
    BY <1>2 DEF FileGrows
  <2>2. DiskOK'
    <3>1. disk[f].length \in Nat /\ disk[f].length + Growth \in Nat
      BY <1>0 DEF DiskOK
    <3>2. disk' = [disk EXCEPT ![f] = [disk[f] EXCEPT !.partial = FALSE,
                                                      !.length = disk[f].length + Growth]]
      BY <1>0, <2>1 DEF DiskOK
    <3>3. [disk[f] EXCEPT !.partial = FALSE, !.length = disk[f].length + Growth]
            \in [length : Nat, partial : BOOLEAN, named : BOOLEAN]
      BY <1>0, <3>1 DEF DiskOK
    <3> QED BY <1>0, <3>2, <3>3 DEF DiskOK
  <2>3. Grew(disk, disk')
    BY <1>0, <2>1 DEF DiskOK, Grew
  <2> QED BY <2>1, <2>2, <2>3, DiskStepKeeps DEF Elsewhere
<1>3. ASSUME NEW e \in dirs, RemoveDir(e)
      PROVE  StreamInv'
  <2>1. disk' = disk /\ UNCHANGED Elsewhere
    BY <1>3 DEF RemoveDir
  <2>2. DiskOK' /\ Grew(disk, disk')
    BY <1>0, <2>1 DEF DiskOK, Grew
  <2> QED BY <2>1, <2>2, DiskStepKeeps DEF Elsewhere
<1>4. CASE HandleDelete
  <2> DEFINE gone == {Files[offered[i].file].entry : i \in DOMAIN offered}
  <2>1. /\ disk' = [f \in F |-> [disk[f] EXCEPT !.named = @ /\ Files[f].entry \notin gone]]
        /\ offered' = <<>> /\ UNCHANGED <<encoderVars, format, declared, sent, out>>
    BY <1>4 DEF HandleDelete
  <2> HIDE DEF gone
  <2>2. \A f \in F : (disk[f].named /\ Files[f].entry \notin gone) \in BOOLEAN
    BY <1>0 DEF DiskOK
  <2>3. DiskOK' /\ Grew(disk, disk')
    BY <1>0, <2>1, <2>2 DEF DiskOK, Grew
  <2> QED BY <2>1, <2>3, DiskStepKeeps
<1> QED BY <1>1, <1>2, <1>3, <1>4

-----------------------------------------------------------------------------
(* Answers begin and end.                                                  *)

\* The list that is made names each file once, with the size it has.
LEMMA GatheredFacts ==
  ASSUME DiskOK
  PROVE  ListOK(Gathered) /\ Fresh(Gathered) /\ SizesOK(disk, Gathered)
<1> DEFINE n == Len(Files)
           S == {f \in F : Gatherable(f)}
           q == InOrder(S)
           k == Cardinality(S)
           g == Gathered
<1>0. n \in Nat /\ Growth \in Nat /\ S \in SUBSET (1..n)
  BY MarStreamAssumption DEF F
<1>1. q \in [1..k -> S] /\ \A i, j \in 1..k : i < j => q[i] < q[j]
  <2> HIDE DEF S, n
  <2> QED BY <1>0, InOrderFacts DEF IsListing
<1>2. k \in Nat /\ k <= n
  <2> HIDE DEF S
  <2>1. IsFiniteSet(1..n) /\ Cardinality(1..n) = n
    <3> HIDE DEF n
    <3> QED BY <1>0, FS_Interval
  <2>2. IsFiniteSet(S) /\ Cardinality(S) <= Cardinality(1..n)
    BY <1>0, <2>1, FS_Subset
  <2>3. Cardinality(S) \in Nat
    BY <2>2, FS_CardinalityType
  <2> QED BY <2>1, <2>2, <2>3
<1>3. g = [i \in 1..k |-> ZipEntryInfo(q[i])]
  BY <1>1 DEF Gathered
<1>4. \A f \in F : /\ ZipEntryInfo(f) \in Infos /\ ZipEntryInfo(f).file = f
                   /\ ZipEntryInfo(f).size = disk[f].length /\ ZipEntryInfo(f).offset = 0
                   /\ ZipEntryInfo(f).crc = NoCrc
  <2> SUFFICES ASSUME NEW f \in F
               PROVE  /\ ZipEntryInfo(f) \in Infos /\ ZipEntryInfo(f).file = f
                      /\ ZipEntryInfo(f).size = disk[f].length /\ ZipEntryInfo(f).offset = 0
                      /\ ZipEntryInfo(f).crc = NoCrc
    OBVIOUS
  <2>1. Files[f].name \in Nat /\ disk[f].length \in Nat
    <3> DEFINE R == [entry : Nat, name : Nat, grows : BOOLEAN]
    <3>1. Files[f] \in R
      <4>1. Files \in Seq(R) /\ f \in 1..Len(Files)
        BY MarStreamAssumption DEF F
      <4> HIDE DEF R
      <4> QED BY <4>1
    <3>2. Files[f].name \in Nat
      BY <3>1
    <3> QED BY <3>2 DEF DiskOK
  <2>2. NoCrc \in [file : 0 .. Len(Files), amount : Nat]
    BY <1>0 DEF NoCrc
  <2> QED BY <2>1, <2>2 DEF ZipEntryInfo, Infos
<1>5. \A i \in 1..k : q[i] \in F /\ q[i] \in Nat
  BY <1>0, <1>1
<1> HIDE DEF g, q, S, k
<1>6. /\ \A i \in 1..k : /\ g[i] = ZipEntryInfo(q[i]) /\ g[i] \in Infos /\ g[i].file = q[i]
                         /\ g[i].size = disk[q[i]].length /\ g[i].offset = 0
                         /\ g[i].crc = NoCrc
  BY <1>3, <1>4, <1>5
<1>7. g \in Seq(Infos) /\ Len(g) = k
  <2>1. g \in [1..k -> Infos]
    BY <1>3, <1>6
  <2> QED BY <1>2, <2>1
<1>8. \A i, j \in 1..k : g[i].file = g[j].file => i = j
  <2> SUFFICES ASSUME NEW i \in 1..k, NEW j \in 1..k, q[i] = q[j], i # j
               PROVE  FALSE
    BY <1>6
  <2>1. i < j \/ j < i
    BY <1>2
  <2> QED BY <1>1, <1>5, <2>1
<1>9. ListOK(g)
  BY <1>2, <1>7, <1>8 DEF ListOK
<1>10. Fresh(g)
  BY <1>6, <1>7 DEF Fresh
<1>11. SizesOK(disk, g)
  <2> SUFFICES ASSUME NEW i \in 1..k
               PROVE  LET d == disk[g[i].file]
                      IN  /\ g[i].size <= d.length
                          /\ d.length <= g[i].size + (IF d.partial THEN 0 ELSE Growth)
    BY <1>7 DEF SizesOK
  <2>1. g[i].file = q[i] /\ g[i].size = disk[q[i]].length /\ disk[q[i]].length \in Nat
    BY <1>5, <1>6 DEF DiskOK
  <2> QED BY <1>0, <2>1
<1> QED BY <1>9, <1>10, <1>11 DEF g

\* So does the list that is offered.
LEMMA OfferFacts ==
  ASSUME DiskOK, OfferOK
  PROVE  ListOK(Offer) /\ Fresh(Offer) /\ SizesOK(disk, Offer)
BY GatheredFacts DEF Offer, OfferOK

\* The length that zip_stream_len computes is what all files take, if their sizes stay.
ZipSizes(fs) == [i \in DOMAIN fs |-> ZipStreamLenForFile(fs[i])]

\* It is a number, and for each file the sum of what the file and its header take.
LEMMA ZipStreamLenFacts ==
  ASSUME NEW fs, ListOK(fs)
  PROVE  /\ ZipStreamLen(fs) = SumTo(ZipSizes(fs), Len(fs)) + 22
         /\ SumTo(ZipSizes(fs), Len(fs)) \in Nat /\ ZipStreamLen(fs) \in Nat
         /\ \A i \in 1..Len(fs) :
              /\ ZipSizes(fs)[i] = (46 + fs[i].name + fs[i].size) + (46 + fs[i].name)
              /\ ZipSizes(fs)[i] \in Nat
<1> DEFINE z == ZipSizes(fs)
           n == Len(fs)
<1>0. n \in Nat /\ DOMAIN fs = 1..n
  BY InfoFacts
<1>1. \A i \in 1..n : /\ z[i] = (46 + fs[i].name + fs[i].size) + (46 + fs[i].name)
                      /\ z[i] \in Nat
  <2> SUFFICES ASSUME NEW i \in 1..n
               PROVE  /\ z[i] = (46 + fs[i].name + fs[i].size) + (46 + fs[i].name)
                      /\ z[i] \in Nat
    OBVIOUS
  <2>1. HeaderSize(fs[i], "local") = 30 + fs[i].name
    BY DEF HeaderSize
  <2>2. HeaderSize(fs[i], "central") = 46 + fs[i].name
    BY DEF HeaderSize
  <2>3. z[i] = 30 + fs[i].name + fs[i].size + 16 + (46 + fs[i].name)
    BY <1>0, <2>1, <2>2 DEF ZipSizes, ZipStreamLenForFile
  <2>4. fs[i].name \in Nat /\ fs[i].size \in Nat
    BY InfoFacts
  <2>5. \A a, b \in Nat : /\ 30 + a + b + 16 + (46 + a) = (46 + a + b) + (46 + a)
                          /\ (46 + a + b) + (46 + a) \in Nat
    OBVIOUS
  <2>6. z[i] = (46 + fs[i].name + fs[i].size) + (46 + fs[i].name)
    BY <2>3, <2>4, <2>5
  <2> QED BY <2>4, <2>5, <2>6
<1>2. z \in Seq(Nat) /\ Len(z) = n
  <2>1. z \in [1..n -> Nat]
    BY <1>0, <1>1 DEF ZipSizes
  <2> HIDE DEF z, n
  <2> QED BY <1>0, <2>1
<1>3. ZipStreamLen(fs) = SumTo(z, n) + 22
  BY <1>2 DEF ZipStreamLen, Sum, ZipSizes
<1> HIDE DEF z, n
<1>4. n \in 0..n /\ \A m \in 0..n : SumTo(z, m) \in Nat
  BY <1>0, <1>1, SumNat
<1>5. SumTo(z, n) \in Nat
  BY <1>4
<1> QED BY <1>1, <1>3, <1>5 DEF z, n

\* The announced lengths of the formats.
LEMMA StreamLenFacts ==
  ASSUME NEW fs, ListOK(fs), NEW fmt \in Formats
  PROVE  /\ StreamLen(fmt, fs) \in Nat
         /\ fmt \in Zips => StreamLen(fmt, fs) = ZipStreamLen(fs)
         /\ fmt = "chunk" => StreamLen(fmt, fs) = ZipStreamLen(fs) + 4
         /\ fmt = "chunk-wrapped" => /\ StreamLen(fmt, fs) = ZipStreamLen(fs) + 12
                                     /\ ChunkLen(fs) = StreamLen(fmt, fs) - 8
<1>1. ZipStreamLen(fs) \in Nat
  BY ZipStreamLenFacts
<1> QED BY <1>1 DEF StreamLen, ChunkLen, MessageLen, Formats, Zips

\* A new answer: nothing has been sent.
LEMMA AnswerKeeps ==
  ASSUME DiskOK, DiskOK', disk' = disk, OfferOK', NEW fmt \in Formats,
         NEW infos, ListOK(infos), Fresh(infos), SizesOK(disk, infos), infos # <<>>,
         Answer(fmt, infos)
  PROVE  StreamInv'
<1>0. /\ files' = infos /\ format' = fmt /\ declared' = StreamLen(fmt, infos)
      /\ stage' = FirstStage(fmt) /\ cursor' = [part |-> FirstPart(fmt, infos), pos |-> 0]
      /\ index' = 0 /\ start' = 0 /\ written' = 0 /\ digest' = <<>> /\ sent' = <<>>
      /\ out' = "open"
  BY DEF Answer
<1>c. cursor'.part = FirstPart(fmt, infos) /\ cursor'.pos = 0
  BY <1>0
<1>1. \/ fmt \in Zips /\ stage' = "init" /\ cursor'.part = NoPart
      \/ fmt = "chunk" /\ stage' = "chunk" /\ cursor'.part = ChunkHeader
      \/ /\ fmt = "chunk-wrapped" /\ stage' = "wrapper"
         /\ cursor'.part = WrapperHeader(StreamLen(fmt, infos) - 8)
  BY <1>0, <1>c, StreamLenFacts DEF Formats, Zips, FirstStage, FirstPart
<1>2. fmt \notin Zips \/ (fmt # "chunk" /\ fmt # "chunk-wrapped")
  BY DEF Zips
<1>3. EncoderTypes'
  <2>1. stage' \in Stages /\ stage' \notin FileStages \cup {"central"}
    BY <1>1 DEF Stages, FileStages
  <2>2. StreamLen(fmt, infos) \in Nat
    BY StreamLenFacts
  <2>3. ListOK(files)'
    BY <1>0 DEF ListOK
  <2> QED BY <1>0, <2>1, <2>2, <2>3 DEF EncoderTypes
<1>4. Sent' = 0 /\ Len(infos) \in Nat /\ LocalLen(infos, 0) = 0
  BY <1>0, <1>1, InfoFacts, LenFacts DEF Sent, FileStages, TailStages
<1>5. OffsetsOK'
  <2> SUFFICES ASSUME NEW i \in 1..Len(infos), i <= 1
               PROVE  infos[i].offset = LocalLen(infos, i - 1) % U32
    BY <1>0, <1>4 DEF OffsetsOK
  <2>1. i = 1 /\ infos[1].offset = 0 /\ i - 1 = 0
    BY <1>4 DEF Fresh
  <2>2. 0 % U32 = 0
    BY MarStreamAssumption
  <2> QED BY <1>4, <2>1, <2>2
<1>6. PartOK'
  BY <1>0, <1>c, <1>1, <1>2, PartFacts DEF PartOK, LeadStages
<1>7. CountsOK'
  BY <1>0, <1>1 DEF CountsOK, ZipIs, LeadStages, TailStages, ZipStages
<1>8. Story(<<>>)'
  <2>0. Len(<<>>) = 0
    OBVIOUS
  <2>a. stage' \in LeadStages \cup {"init"} /\ stage' \notin FileStages \cup TailStages
    BY <1>1 DEF LeadStages, FileStages, TailStages
  <2>1. LeadOK(<<>>)'
    BY <1>0, <1>1, <1>2, <2>0 DEF LeadOK, LeadCount, LeadStages
  <2>2. LengthOK(<<>>)'
    <3>1. ZipLen(<<>>, 0) = 0 /\ AllLen(<<>>, 0) = 0
      BY SumZero DEF ZipLen, AllLen
    <3>2. ZipIs' = 0
      BY <1>1 DEF ZipIs, LeadStages
    <3>3. LeadLen' = 0
      BY <1>0, <1>1 DEF LeadLen, WrapperLen, Zips
    <3> QED BY <2>0, <3>1, <3>2, <3>3 DEF LengthOK
  <2>3. FilesOK(<<>>)' /\ CurrentOK(<<>>)'
    BY <1>4, <2>a DEF FilesOK, CurrentOK, FileStages
  <2>4. CentralOK(<<>>)'
    BY <2>0, <2>a DEF CentralOK, Base, HeaderCount, TailStages
  <2>5. Shown(<<>>)'
    BY <1>0, <1>c DEF Shown
  <2>6. DigestOK(<<>>)'
    BY <1>0, <1>1 DEF DigestOK
  <2> QED BY <2>1, <2>2, <2>3, <2>4, <2>5, <2>6 DEF Story
<1>9. EncoderOK'
  <2>1. <<>> \in Seq(Runs({}))
    OBVIOUS
  <2>2. \E P : \E fin \in Seq(Runs(P)) : Story(fin)'
    BY <1>8, <2>1
  <2> QED BY <1>0, <1>5, <1>6, <1>7, <2>2 DEF EncoderOK
<1>10. FilesAgree'
  BY <1>0, <1>1, <1>4 DEF FilesAgree, SizesOK, AmountsOK, DataOK
<1>11. OutOK'
  BY <1>0 DEF OutOK
<1> QED BY <1>0, <1>3, <1>9, <1>10, <1>11 DEF StreamInv

\* An upload or an export begins.
LEMMA RequestKeeps ==
  ASSUME StreamInv,
         UploadMarEntries \/ \E fmt \in Formats \ {"upload"} : HandleGetMar(fmt)
  PROVE  StreamInv'
<1>0. DiskOK /\ OfferOK /\ ListOK(offered)
  BY DEF StreamInv, OfferOK
<1>1. CASE UploadMarEntries
  <2>1. PICK infos : infos = Gathered
    OBVIOUS
  <2>2. /\ disk' = disk /\ offered' = offered /\ infos # <<>> /\ Answer("upload", infos)
    BY <1>1, <2>1 DEF UploadMarEntries, NextRequest, diskVars
  <2>3. ListOK(infos) /\ Fresh(infos) /\ SizesOK(disk, infos)
    BY <1>0, <2>1, GatheredFacts
  <2>4. DiskOK' /\ OfferOK' /\ "upload" \in Formats
    BY <1>0, <2>2 DEF DiskOK, OfferOK, ListOK, Fresh, SizesOK, Formats
  <2> QED BY <1>0, <2>2, <2>3, <2>4, AnswerKeeps
<1>2. ASSUME NEW fmt \in Formats, HandleGetMar(fmt)
      PROVE  StreamInv'
  <2>1. PICK infos : infos = Offer
    OBVIOUS
  <2>2. /\ disk' = disk /\ offered' = infos /\ infos # <<>> /\ Answer(fmt, infos)
    BY <1>2, <2>1 DEF HandleGetMar, NextRequest, diskVars
  <2>3. ListOK(infos) /\ Fresh(infos) /\ SizesOK(disk, infos)
    BY <1>0, <2>1, OfferFacts
  <2>4. DiskOK' /\ OfferOK'
    BY <1>0, <2>2, <2>3 DEF DiskOK, OfferOK, ListOK, Fresh, SizesOK
  <2> QED BY <1>0, <2>2, <2>3, <2>4, AnswerKeeps
<1> QED BY <1>1, <1>2

\* A request is refused.
LEMMA RefuseKeeps ==
  ASSUME StreamInv, RefuseGetMar
  PROVE  StreamInv'
<1>1. /\ disk' = disk /\ offered' = Offer /\ out' = "none"
      /\ UNCHANGED <<encoderVars, format, declared, sent>>
  BY DEF RefuseGetMar, NextRequest, diskVars
<1>2. PICK infos : infos = Offer
  OBVIOUS
<1>3. ListOK(infos) /\ Fresh(infos) /\ SizesOK(disk, infos)
  BY <1>2, OfferFacts DEF StreamInv
<1>4. DiskOK' /\ OfferOK'
  BY <1>1, <1>2, <1>3 DEF StreamInv, DiskOK, OfferOK, ListOK, Fresh, SizesOK
<1>5. EncoderTypes' /\ (files # <<>> => EncoderOK')
  BY <1>1, EncoderStays DEF StreamInv
<1>6. files # <<>> => FilesAgree'
  BY <1>1 DEF StreamInv, FilesAgree, SizesOK, AmountsOK, DataOK, Sent, encoderVars
<1> QED BY <1>1, <1>4, <1>5, <1>6 DEF StreamInv, OutOK, encoderVars

\* SentLen is the length of all runs.
LEMMA SentLenIs ==
  ASSUME NEW P, sent \in Seq(Runs(P))
  PROVE  SentLen = AllLen(sent, Len(sent)) /\ SentLen \in Nat
<1>1. DOMAIN sent = 1..Len(sent) /\ Len(sent) \in Nat
  OBVIOUS
<1>2. AllBytes(sent) = [k \in 1..Len(sent) |-> sent[k].n] /\ Len(AllBytes(sent)) = Len(sent)
  BY <1>1 DEF AllBytes
<1>3. SentLen = AllLen(sent, Len(sent))
  BY <1>2 DEF SentLen, Sum, AllLen, AllBytes
<1>4. Len(sent) \in 0..Len(sent)
  BY <1>1
<1> QED BY <1>3, <1>4, RunLens

\* What has been sent is a list of runs.
LEMMA SentRuns ==
  ASSUME NEW P, NEW fin \in Seq(Runs(P)), Shown(fin), cursor.pos \in Nat
  PROVE  sent \in Seq(Runs(P \cup {cursor.part}))
<1>1. CASE cursor.pos = 0
  <2>1. Runs(P) \subseteq Runs(P \cup {cursor.part}) /\ sent = fin
    BY <1>1 DEF Runs, Shown
  <2> QED BY <2>1, WiderSeq
<1>2. CASE cursor.pos # 0
  <2> DEFINE run == [part |-> cursor.part, n |-> cursor.pos]
  <2>1. sent = Append(fin, run) /\ run.n \in Nat /\ run.part = cursor.part
    BY <1>2 DEF Shown
  <2>2. run = [part |-> run.part, n |-> run.n]
    OBVIOUS
  <2> HIDE DEF run
  <2> QED BY <2>1, <2>2, OneMoreRun
<1> QED BY <1>1, <1>2

\* An answer ends, because all has been read or because enough has been passed on.
LEMMA EndKeeps ==
  ASSUME StreamInv, AnswerEnds \/ AnswerIsCut
  PROVE  StreamInv'
<1>1. /\ disk' = disk /\ offered' = offered /\ out = "open"
      /\ UNCHANGED <<encoderVars, format, declared, sent>>
  BY DEF AnswerEnds, AnswerIsCut, Ended, diskVars
<1>2. files # <<>>
  BY <1>1 DEF StreamInv
<1>3. PICK P : \E fin \in Seq(Runs(P)) : Story(fin)
  BY <1>2 DEF StreamInv, EncoderOK
<1>4. SentLen \in Nat /\ declared \in Nat
  <2>1. PICK fin \in Seq(Runs(P)) : Story(fin)
    BY <1>3
  <2>2. sent \in Seq(Runs(P \cup {cursor.part}))
    BY <2>1, SentRuns DEF Story, StreamInv, EncoderTypes
  <2> QED BY <2>2, SentLenIs DEF StreamInv, EncoderTypes
<1>5. SentLen' = SentLen
  BY <1>1 DEF SentLen
<1>6. out' = "failed" \/ (out' = "complete" /\ SentLen >= declared)
  BY <1>4 DEF AnswerEnds, AnswerIsCut
<1>7. OutOK'
  BY <1>1, <1>5, <1>6 DEF OutOK
<1>8. DiskOK' /\ OfferOK'
  BY <1>1 DEF StreamInv, DiskOK, OfferOK, ListOK, Fresh, SizesOK
<1>9. EncoderTypes' /\ EncoderOK'
  BY <1>1, <1>2, EncoderStays DEF StreamInv
<1>10. FilesAgree'
  BY <1>1, <1>2 DEF StreamInv, FilesAgree, SizesOK, AmountsOK, DataOK, Sent, encoderVars
<1> QED BY <1>1, <1>2, <1>7, <1>8, <1>9, <1>10 DEF StreamInv, encoderVars

-----------------------------------------------------------------------------
(* Reading.                                                                *)

\* More bytes of a part that is not the last one.
LEMMA ExtendNew ==
  ASSUME NEW P, NEW s \in Seq(Runs(P)), NEW p, NEW n, s # <<>> => s[Len(s)].part # p
  PROVE  Extend(s, p, n) = Append(s, [part |-> p, n |-> n])
BY DEF Extend, Last

\* More bytes of the last part.
LEMMA ExtendLast ==
  ASSUME NEW P, NEW s \in Seq(Runs(P)), NEW p, NEW n \in Nat, NEW m \in Nat
  PROVE  Extend(Append(s, [part |-> p, n |-> m]), p, n) = Append(s, [part |-> p, n |-> m + n])
<1>0. Len(s) \in Nat
  OBVIOUS
<1> DEFINE r == [part |-> p, n |-> m]
           r2 == [part |-> p, n |-> m + n]
           Q == P \cup {p}
           t == Append(s, r)
           u == Append(s, r2)
           l == Len(s) + 1
<1>1. s \in Seq(Runs(Q)) /\ r \in Runs(Q) /\ r2 \in Runs(Q)
  <2>1. Runs(P) \subseteq Runs(Q)
    BY DEF Runs
  <2>2. m + n \in Nat
    OBVIOUS
  <2> QED BY <2>1, <2>2, WiderSeq DEF Runs
<1>2. r.part = p /\ r.n = m /\ [r EXCEPT !.n = m + n] = r2
  OBVIOUS
<1> HIDE DEF r, r2, Q
<1>3. /\ t \in Seq(Runs(Q)) /\ Len(t) = l /\ t[l] = r /\ \A j \in 1..Len(s) : t[j] = s[j]
      /\ u \in Seq(Runs(Q)) /\ Len(u) = l /\ u[l] = r2 /\ \A j \in 1..Len(s) : u[j] = s[j]
  BY <1>1
<1> HIDE DEF t, u
<1>4. t # <<>> /\ Last(t).part = p
  <2>1. t # <<>>
    BY <1>0, <1>3
  <2> QED BY <1>2, <1>3, <2>1 DEF Last
<1>5. Extend(t, p, n) = [t EXCEPT ![Len(t)].n = @ + n]
  BY <1>4 DEF Extend
<1>6. [t EXCEPT ![Len(t)].n = @ + n] = [t EXCEPT ![l] = r2]
  BY <1>0, <1>2, <1>3
<1>7. [t EXCEPT ![l] = r2] = u
  <2>1. DOMAIN t = 1..l /\ DOMAIN u = 1..l /\ t = [j \in 1..l |-> t[j]] /\ u = [j \in 1..l |-> u[j]]
    BY <1>3
  <2>2. \A j \in 1..l : j = l \/ j \in 1..Len(s)
    BY <1>0
  <2>3. \A j \in 1..l : [t EXCEPT ![l] = r2][j] = u[j]
    BY <1>3, <2>1, <2>2
  <2> QED BY <2>1, <2>3
<1> QED BY <1>5, <1>6, <1>7 DEF t, u, r, r2

\* The runs behind the first l, when one is added.
LEMMA BehindFacts ==
  ASSUME NEW P, NEW s \in Seq(Runs(P)), NEW l \in Nat, l <= Len(s)
  PROVE  /\ Behind(s, l) \in Seq(Runs(P)) /\ Len(Behind(s, l)) = Len(s) - l
         /\ \A j \in 1..(Len(s) - l) : Behind(s, l)[j] = s[j + l]
         /\ \A run : Behind(Append(s, run), l) = Append(Behind(s, l), run)
<1> DEFINE b == Behind(s, l)
           n == Len(s) - l
<1>0. Len(s) \in Nat /\ n \in Nat /\ Len(s) = n + l
  OBVIOUS
<1>1. b \in [1..n -> Runs(P)] /\ \A j \in 1..n : b[j] = s[j + l]
  <2>1. \A j \in 1..n : j + l \in 1..Len(s)
    BY <1>0
  <2>2. \A j \in 1..n : s[j + l] \in Runs(P)
    <3> HIDE DEF n
    <3> QED BY <2>1
  <2> QED BY <2>2 DEF Behind
<1>2. b \in Seq(Runs(P)) /\ Len(b) = n
  <2> HIDE DEF b, n
  <2> QED BY <1>0, <1>1
<1>3. ASSUME NEW run
      PROVE  Behind(Append(s, run), l) = Append(b, run)
  <2> DEFINE t == Append(s, run)
             u == Append(b, run)
  <2>1. Len(t) = Len(s) + 1 /\ t[Len(s) + 1] = run /\ \A j \in 1..Len(s) : t[j] = s[j]
    OBVIOUS
  <2>2. /\ u = [j \in 1..(n + 1) |-> u[j]] /\ u[n + 1] = run
        /\ \A j \in 1..n : u[j] = b[j]
    <3> DEFINE A == Runs(P) \cup {run}
    <3>1. b \in Seq(A) /\ run \in A
      <4>1. Runs(P) \subseteq A
        OBVIOUS
      <4> QED BY <1>2, <4>1, WiderSeq
    <3> HIDE DEF b, n, A
    <3>2. Len(u) = n + 1 /\ u \in Seq(A) /\ u[n + 1] = run /\ \A j \in 1..n : u[j] = b[j]
      BY <1>0, <1>2, <3>1
    <3> HIDE DEF u
    <3> QED BY <3>2
  <2> HIDE DEF t, u, b
  <2>3. Behind(t, l) = [j \in 1..(n + 1) |-> t[j + l]]
    <3>1. Len(t) - l = n + 1
      BY <1>0, <2>1
    <3> QED BY <3>1 DEF Behind
  <2>4. \A j \in 1..(n + 1) : t[j + l] = u[j]
    <3> SUFFICES ASSUME NEW j \in 1..(n + 1)
                 PROVE  t[j + l] = u[j]
      OBVIOUS
    <3>1. CASE j = n + 1
      <4>1. j + l = Len(s) + 1
        BY <1>0, <3>1
      <4> QED BY <2>1, <2>2, <3>1, <4>1
    <3>2. CASE j # n + 1
      <4>1. j \in 1..n /\ j + l \in 1..Len(s)
        BY <1>0, <3>2
      <4> QED BY <1>1, <2>1, <2>2, <4>1
    <3> QED BY <3>1, <3>2
  <2>5. Behind(t, l) = [j \in 1..(n + 1) |-> u[j]]
    BY <2>3, <2>4
  <2> QED BY <2>2, <2>5 DEF t, u
<1> QED BY <1>1, <1>2, <1>3

\* The part that is being read has a length, and has not been read beyond it.
LEMMA LengthFacts ==
  ASSUME EncoderTypes, PartOK, DataOK, DiskOK, stage \notin {"init", "done"}
  PROVE  /\ Remaining \in Nat
         /\ stage # "data" => cursor.part.length \in Nat \ {0} /\ cursor.pos <= cursor.part.length
         /\ stage = "data" => /\ index \in 1..Len(files) /\ disk[files[index].file].length \in Nat
                              /\ cursor.part.file = files[index].file
                              /\ cursor.pos <= disk[files[index].file].length
<1>0. cursor.pos \in Nat /\ ListOK(files) /\ stage \in Stages
  BY DEF EncoderTypes
<1>1. stage \in FileStages \cup {"central"} =>
        index \in 1..Len(files) /\ files[index].name \in Nat /\ files[index].file \in F
  BY <1>0, InfoFacts DEF EncoderTypes
<1>2. CASE stage = "data"
  <2>1. index \in 1..Len(files) /\ files[index].file \in F
    BY <1>1, <1>2 DEF FileStages
  <2>2. cursor.part.file = files[index].file
    BY <1>2, PartFacts DEF PartOK
  <2>3. disk[files[index].file].length \in Nat
    BY <2>1 DEF DiskOK
  <2>4. cursor.pos <= disk[files[index].file].length
    BY <1>2 DEF DataOK
  <2> QED BY <1>0, <1>2, <2>1, <2>2, <2>3, <2>4 DEF Remaining
<1>3. CASE stage # "data"
  <2>1. cursor.pos <= cursor.part.length
    BY <1>3 DEF PartOK
  <2>2. cursor.part.length \in Nat \ {0}
    <3>1. CASE stage = "header"
      BY <1>1, <3>1, PartFacts DEF PartOK, FileStages
    <3>2. CASE stage = "central"
      BY <1>1, <3>2, PartFacts DEF PartOK
    <3>3. CASE stage = "descriptor"
      <4>1. cursor.part.length = 16
        <5>1. cursor.part = MakeDataDescriptor(Crc(files[index].file, cursor.part.crc.amount))
          BY <3>3 DEF PartOK
        <5>2. \A crc : MakeDataDescriptor(crc).length = 16
          BY PartFacts
        <5> QED BY <5>1, <5>2, Zenon
      <4> QED BY <4>1
    <3>4. CASE stage = "end"
      BY <3>4, PartFacts DEF PartOK, EndPart
    <3>5. CASE stage \in {"wrapper", "chunk", "type", "crc"}
      BY <3>5, PartFacts DEF PartOK
    <3> QED BY <1>0, <1>3, <3>1, <3>2, <3>3, <3>4, <3>5 DEF Stages
  <2> QED BY <1>0, <1>3, <2>1, <2>2 DEF Remaining
<1> QED BY <1>2, <1>3

\* The facts of the invariant while an answer is open.
LEMMA OpenFacts ==
  ASSUME StreamInv, out = "open"
  PROVE  /\ files # <<>> /\ DiskOK /\ OfferOK /\ EncoderTypes /\ OffsetsOK /\ PartOK /\ CountsOK
         /\ declared = StreamLen(format, files) /\ SizesOK(disk, files) /\ AmountsOK /\ DataOK
         /\ ListOK(files) /\ Len(files) \in Nat \ {0} /\ cursor.pos \in Nat
         /\ \E P : \E fin \in Seq(Runs(P)) : Story(fin)
<1>1. files # <<>> /\ DiskOK /\ OfferOK /\ EncoderTypes /\ EncoderOK /\ FilesAgree
  BY DEF StreamInv
<1>2. ListOK(files) /\ files \in Seq(Infos)
  BY <1>1, InfoFacts DEF EncoderTypes
<1>3. Len(files) \in Nat \ {0}
  BY <1>1, <1>2
<1> QED BY <1>1, <1>2, <1>3 DEF EncoderOK, FilesAgree, EncoderTypes

\* The bytes before the current part are a number.
LEMMA ZipIsNat ==
  ASSUME EncoderTypes, PartOK
  PROVE  ZipIs \in Nat
<1>0. ListOK(files) /\ Len(files) \in Nat /\ stage \in Stages
  BY InfoFacts DEF EncoderTypes
<1>1. \A i \in 0..Len(files) : LocalLen(files, i) \in Nat /\ CentralLen(files, i) \in Nat
  BY <1>0, LenFacts
<1>2. Len(files) \in 0..Len(files)
  BY <1>0
<1>3. CASE stage \in FileStages \cup {"central"}
  <2>1. index \in 1..Len(files) /\ index - 1 \in 0..Len(files)
    BY <1>0, <1>3 DEF EncoderTypes
  <2>2. files[index].name \in Nat
    BY <1>0, <2>1, InfoFacts
  <2>3. stage = "descriptor" => cursor.part.crc.amount \in Nat
    BY DEF PartOK
  <2>4. LocalLen(files, index - 1) \in Nat /\ CentralLen(files, index - 1) \in Nat
        /\ LocalLen(files, Len(files)) \in Nat
    BY <1>1, <1>2, <2>1
  <2>5. CASE stage = "header"
    BY <2>4, <2>5 DEF ZipIs, LeadStages
  <2>6. CASE stage = "data"
    BY <2>2, <2>4, <2>6 DEF ZipIs, LeadStages
  <2>7. CASE stage = "descriptor"
    <3>1. ZipIs = LocalLen(files, index - 1) + 30 + files[index].name + cursor.part.crc.amount
      BY <2>7 DEF ZipIs, LeadStages
    <3>2. \A a, b, c \in Nat : a + 30 + b + c \in Nat
      OBVIOUS
    <3> QED BY <2>2, <2>3, <2>4, <2>7, <3>1, <3>2
  <2>8. CASE stage = "central"
    BY <2>4, <2>8 DEF ZipIs, LeadStages
  <2> QED BY <1>3, <2>5, <2>6, <2>7, <2>8 DEF FileStages
<1>4. CASE stage \in {"end", "done", "crc"}
  BY <1>1, <1>2, <1>4 DEF ZipIs, LeadStages
<1>5. CASE stage \in LeadStages \cup {"init"}
  BY <1>5 DEF ZipIs, LeadStages
<1> QED BY <1>0, <1>3, <1>4, <1>5 DEF Stages, FileStages, LeadStages

\* A read.
LEMMA ReadKeeps ==
  ASSUME StreamInv, NEW size \in BufSizes, Read(size)
  PROVE  StreamInv'
<1> DEFINE n == IF size < Remaining THEN size ELSE Remaining
           part == cursor.part
           pos == cursor.pos
<1>1. /\ out = "open" /\ stage \notin {"init", "done"} /\ n > 0
      /\ cursor' = [cursor EXCEPT !.pos = @ + n]
      /\ written' = (IF stage \in ZipStages THEN written + n ELSE written)
      /\ digest' = (IF format \notin Zips /\ Message(stage) THEN Extend(digest, cursor.part, n)
                    ELSE digest)
      /\ sent' = Extend(sent, cursor.part, n)
      /\ disk' = disk /\ offered' = offered /\ files' = files /\ stage' = stage
      /\ index' = index /\ start' = start /\ format' = format /\ declared' = declared
      /\ out' = out
  BY DEF Read, diskVars
<1>2. /\ files # <<>> /\ DiskOK /\ OfferOK /\ EncoderTypes /\ OffsetsOK /\ PartOK /\ CountsOK
      /\ declared = StreamLen(format, files) /\ SizesOK(disk, files) /\ AmountsOK /\ DataOK
      /\ ListOK(files) /\ Len(files) \in Nat /\ pos \in Nat
  BY <1>1, OpenFacts
<1>3. PICK P : \E fin \in Seq(Runs(P)) : Story(fin)
  BY <1>1, OpenFacts
<1>4. PICK fin \in Seq(Runs(P)) : Story(fin)
  BY <1>3
<1>5. n \in Nat /\ n > 0 /\ n <= Remaining /\ Remaining \in Nat
  BY <1>1, <1>2, LengthFacts, MarStreamAssumption
<1>6. cursor'.part = part /\ cursor'.pos = pos + n /\ cursor' = [part |-> part, pos |-> pos + n]
  BY <1>1, <1>2 DEF EncoderTypes
<1> HIDE DEF n
<1>7. EncoderTypes'
  <2>1. written' \in Nat /\ pos + n \in Nat
    BY <1>1, <1>2, <1>5 DEF EncoderTypes
  <2> QED BY <1>1, <1>2, <1>6, <2>1 DEF EncoderTypes, ListOK
<1>8. OffsetsOK'
  BY <1>1, <1>2 DEF OffsetsOK, Sent
<1>9. stage # "data" => pos + n <= part.length
  BY <1>1, <1>2, <1>5, LengthFacts DEF Remaining
<1>10. stage = "data" => pos + n <= disk[files[index].file].length
  <2> SUFFICES ASSUME stage = "data"
               PROVE  pos + n <= disk[files[index].file].length
    OBVIOUS
  <2>1. /\ disk[files[index].file].length \in Nat /\ cursor.part.file = files[index].file
        /\ pos <= disk[files[index].file].length
    BY <1>2, LengthFacts
  <2>2. Remaining = disk[files[index].file].length - pos
    BY <2>1 DEF Remaining
  <2> QED BY <1>2, <1>5, <2>1, <2>2
<1>11. stage = "crc" => digest' = digest
  BY <1>1 DEF Message, ZipStages
<1>12. PartOK'
  BY <1>1, <1>2, <1>6, <1>9, <1>11 DEF PartOK
<1>13. ZipIs' = ZipIs
  BY <1>1, <1>6 DEF ZipIs
<1>14. CountsOK'
  <2>1. ZipIs \in Nat
    BY <1>2, ZipIsNat
  <2>2. CASE stage \in ZipStages
    <3>1. written = ZipIs + pos /\ written' = written + n
      BY <1>1, <1>2, <2>2 DEF CountsOK
    <3>2. written' = ZipIs + (pos + n)
      BY <1>2, <1>5, <2>1, <3>1
    <3> QED BY <1>1, <1>2, <1>6, <1>13, <2>2, <3>2 DEF CountsOK
  <2>3. CASE stage \notin ZipStages
    BY <1>1, <1>2, <1>13, <2>3 DEF CountsOK
  <2> QED BY <2>2, <2>3
<1>15. sent' = Append(fin, [part |-> part, n |-> pos + n])
  <2>0. Shown(fin)
    BY <1>4 DEF Story
  <2>1. CASE pos = 0
    <3>1. sent = fin /\ (fin # <<>> => fin[Len(fin)].part # part)
      BY <2>0, <2>1 DEF Shown
    <3>2. Extend(fin, part, n) = Append(fin, [part |-> part, n |-> n])
      BY <1>5, <3>1, ExtendNew
    <3>3. pos + n = n
      BY <1>5, <2>1
    <3> QED BY <1>1, <3>1, <3>2, <3>3
  <2>2. CASE pos # 0
    <3>1. sent = Append(fin, [part |-> part, n |-> pos])
      BY <2>0, <2>2 DEF Shown
    <3>2. Extend(sent, part, n) = Append(fin, [part |-> part, n |-> pos + n])
      <4>1. pos \in Nat /\ n \in Nat
        BY <1>2, <1>5
      <4> HIDE DEF part, pos
      <4>2. Extend(Append(fin, [part |-> part, n |-> pos]), part, n)
              = Append(fin, [part |-> part, n |-> pos + n])
        BY <4>1, ExtendLast, Zenon
      <4> QED BY <3>1, <4>2
    <3> QED BY <1>1, <3>2
  <2> QED BY <2>1, <2>2
<1>16. Shown(fin)'
  <2>1. fin # <<>> => fin[Len(fin)].part # part
    BY <1>4 DEF Story, Shown
  <2>2. pos + n # 0
    BY <1>2, <1>5
  <2> QED BY <1>6, <1>15, <2>1, <2>2 DEF Shown
<1>17. DigestOK(fin)'
  <2> SUFFICES ASSUME format \notin Zips
               PROVE  DigestOK(fin)'
    BY <1>1 DEF DigestOK
  <2> DEFINE l == LeadCount - 1
  <2>0. Shown(fin) /\ DigestOK(fin) /\ LeadOK(fin) /\ format \in Formats
    BY <1>2, <1>4 DEF Story, EncoderTypes
  <2>1. CASE stage \in {"wrapper", "chunk"}
    BY <1>1, <2>0, <2>1 DEF DigestOK, Message, ZipStages
  <2>2. CASE stage = "crc"
    BY <1>1, <1>11, <2>0, <2>2 DEF DigestOK, LeadCount
  <2>3. CASE stage \notin {"wrapper", "chunk", "crc"}
    <3>1. l \in Nat /\ l <= Len(fin) /\ LeadCount' = LeadCount
      <4>1. LeadCount \in {2, 3}
        BY <2>0 DEF LeadCount, Formats, Zips
      <4>2. Len(fin) \in Nat /\ (stage = "type" => Len(fin) = LeadCount - 1)
            /\ (stage # "type" => Len(fin) >= LeadCount)
        BY <2>0, <2>3 DEF LeadOK, LeadStages
      <4>3. LeadCount' = LeadCount
        BY <1>1 DEF LeadCount
      <4> QED BY <4>1, <4>2, <4>3
    <3>2. digest = Behind(sent, l)
      BY <2>0, <2>3 DEF DigestOK
    <3>3. digest' = Extend(digest, part, n)
      <4>1. Message(stage)
        BY <1>1, <1>2, <2>3 DEF Message, ZipStages, EncoderTypes, Stages
      <4> QED BY <1>1, <4>1
    <3> HIDE DEF l
    <3>4. /\ Behind(fin, l) \in Seq(Runs(P)) /\ Len(Behind(fin, l)) = Len(fin) - l
          /\ \A j \in 1..(Len(fin) - l) : Behind(fin, l)[j] = fin[j + l]
          /\ \A run : Behind(Append(fin, run), l) = Append(Behind(fin, l), run)
      BY <3>1, BehindFacts
    <3>5. digest' = Append(Behind(fin, l), [part |-> part, n |-> pos + n])
      <4>1. CASE pos = 0
        <5>1. digest = Behind(fin, l) /\ (fin # <<>> => fin[Len(fin)].part # part)
          BY <2>0, <3>2, <4>1 DEF Shown
        <5>2. digest # <<>> => digest[Len(digest)].part # part
          <6> SUFFICES ASSUME digest # <<>>
                       PROVE  digest[Len(digest)].part # part
            OBVIOUS
          <6>1. Len(digest) \in Nat /\ Len(digest) # 0
            BY <3>4, <5>1
          <6>2. Len(digest) = Len(fin) - l /\ Len(fin) \in Nat
            BY <3>4, <5>1
          <6>3. digest[Len(digest)] = fin[Len(fin)] /\ Len(fin) # 0
            <7>1. Len(fin) - l \in 1..(Len(fin) - l) /\ (Len(fin) - l) + l = Len(fin)
                  /\ Len(fin) # 0
              BY <3>1, <6>1, <6>2
            <7> QED BY <3>4, <5>1, <7>1
          <6>4. fin # <<>>
            BY <6>3
          <6> QED BY <5>1, <6>3, <6>4
        <5>3. Extend(digest, part, n) = Append(digest, [part |-> part, n |-> n])
          BY <1>5, <3>4, <5>1, <5>2, ExtendNew
        <5>4. pos + n = n
          BY <1>5, <4>1
        <5> QED BY <3>3, <5>1, <5>3, <5>4
      <4>2. CASE pos # 0
        <5>1. sent = Append(fin, [part |-> part, n |-> pos])
          BY <2>0, <4>2 DEF Shown
        <5>2. digest = Append(Behind(fin, l), [part |-> part, n |-> pos])
          BY <3>2, <3>4, <5>1
        <5>3. Extend(digest, part, n) = Append(Behind(fin, l), [part |-> part, n |-> pos + n])
          <6>1. pos \in Nat /\ n \in Nat /\ Behind(fin, l) \in Seq(Runs(P))
            BY <1>2, <1>5, <3>4
          <6> HIDE DEF part, pos
          <6>2. Extend(Append(Behind(fin, l), [part |-> part, n |-> pos]), part, n)
                  = Append(Behind(fin, l), [part |-> part, n |-> pos + n])
            BY <6>1, ExtendLast, Zenon
          <6> QED BY <5>2, <6>2
        <5> QED BY <3>3, <5>3
      <4> QED BY <4>1, <4>2
    <3>6. digest' = Behind(sent', l)
      BY <1>15, <3>4, <3>5
    <3> QED BY <1>1, <2>3, <3>1, <3>6 DEF DigestOK, l
  <2> QED BY <2>1, <2>2, <2>3
<1>18. Story(fin)'
  <2>1. LeadOK(fin)'
    BY <1>1, <1>4 DEF Story, LeadOK, LeadCount, LeadPart
  <2>2. LengthOK(fin)'
    BY <1>1, <1>4, <1>13 DEF Story, LengthOK, LeadLen, WrapperLen
  <2>3. FilesOK(fin)' /\ CurrentOK(fin)'
    BY <1>1, <1>4, <1>6 DEF Story, FilesOK, CurrentOK, Sent
  <2>4. CentralOK(fin)'
    BY <1>1, <1>4 DEF Story, CentralOK, Base, HeaderCount
  <2> QED BY <1>16, <1>17, <2>1, <2>2, <2>3, <2>4 DEF Story
<1>19. EncoderOK'
  <2>1. \E Q : \E run \in Seq(Runs(Q)) : Story(run)'
    BY <1>4, <1>18
  <2> QED BY <1>1, <1>2, <1>8, <1>12, <1>14, <2>1 DEF EncoderOK
<1>20. FilesAgree'
  <2>1. DataOK'
    BY <1>1, <1>2, <1>6, <1>10 DEF DataOK
  <2> QED BY <1>1, <1>2, <2>1 DEF FilesAgree, SizesOK, AmountsOK, Sent
<1>21. DiskOK' /\ OfferOK' /\ OutOK'
  BY <1>1, <1>2 DEF DiskOK, OfferOK, ListOK, Fresh, SizesOK, OutOK
<1> QED BY <1>1, <1>2, <1>7, <1>19, <1>20, <1>21 DEF StreamInv

-----------------------------------------------------------------------------
(* A part has been read to its end.                                        *)

\* What has been sent: the finished runs, and what has been read of the current part.
LEMMA SentFacts ==
  ASSUME NEW P, NEW fin \in Seq(Runs(P)), Shown(fin), LengthOK(fin), cursor.pos \in Nat
  PROVE  /\ \E Q : sent \in Seq(Runs(Q))
         /\ Len(fin) \in Nat /\ Extends(sent, fin)
         /\ Len(sent) = Len(fin) + (IF cursor.pos = 0 THEN 0 ELSE 1)
         /\ cursor.pos = 0 => sent = fin
         /\ cursor.pos # 0 => sent[Len(fin) + 1] = [part |-> cursor.part, n |-> cursor.pos]
         /\ ZipLen(sent, Len(sent))
              = ZipIs + (IF cursor.part.kind \in LeadStages THEN 0 ELSE cursor.pos)
         /\ AllLen(sent, Len(sent)) = (LeadLen + ZipIs) + cursor.pos
<1> DEFINE pos == cursor.pos
           part == cursor.part
<1>0. Len(fin) \in Nat /\ pos \in Nat
  OBVIOUS
<1>1. ZipLen(fin, Len(fin)) = ZipIs /\ AllLen(fin, Len(fin)) = LeadLen + ZipIs
  BY DEF LengthOK
<1>2. ZipLen(fin, Len(fin)) \in Nat /\ AllLen(fin, Len(fin)) \in Nat
  <2>1. Len(fin) \in 0..Len(fin)
    BY <1>0
  <2> QED BY <2>1, RunLens
<1>3. CASE pos = 0
  <2>1. sent = fin
    BY <1>3 DEF Shown
  <2>2. Extends(fin, fin)
    BY <1>0 DEF Extends
  <2>3. \E Q : sent \in Seq(Runs(Q))
    BY <2>1
  <2>4. ZipIs + (IF part.kind \in LeadStages THEN 0 ELSE pos) = ZipIs
        /\ (LeadLen + ZipIs) + pos = LeadLen + ZipIs
    BY <1>1, <1>2, <1>3
  <2> QED BY <1>0, <1>1, <1>3, <2>1, <2>2, <2>3, <2>4
<1>4. CASE pos # 0
  <2> DEFINE run == [part |-> part, n |-> pos]
  <2>1. sent = Append(fin, run) /\ run.n = pos /\ run.part = part
    BY <1>4 DEF Shown
  <2>2. run = [part |-> run.part, n |-> run.n] /\ run.n \in Nat
    BY <1>0
  <2>3. InZip(run) = IF part.kind \in LeadStages THEN 0 ELSE pos
    BY <2>1 DEF InZip
  <2> HIDE DEF run
  <2>4. /\ sent \in Seq(Runs(P \cup {run.part})) /\ Len(sent) = Len(fin) + 1
        /\ sent[Len(fin) + 1] = run /\ Extends(sent, fin)
        /\ ZipLen(sent, Len(sent)) = ZipLen(fin, Len(fin)) + InZip(run)
        /\ AllLen(sent, Len(sent)) = AllLen(fin, Len(fin)) + run.n
    <3>1. LET s == Append(fin, run)
          IN  /\ s \in Seq(Runs(P \cup {run.part})) /\ Len(s) = Len(fin) + 1
              /\ s[Len(fin) + 1] = run /\ Extends(s, fin)
              /\ ZipLen(s, Len(s)) = ZipLen(fin, Len(fin)) + InZip(run)
              /\ AllLen(s, Len(s)) = AllLen(fin, Len(fin)) + run.n
      BY <2>2, OneMoreRun, Zenon
    <3> QED BY <2>1, <3>1, Zenon
  <2>5. \E Q : sent \in Seq(Runs(Q))
    BY <2>4
  <2>6. /\ ZipLen(sent, Len(sent)) = ZipIs + (IF part.kind \in LeadStages THEN 0 ELSE pos)
        /\ AllLen(sent, Len(sent)) = (LeadLen + ZipIs) + pos
    BY <1>1, <2>1, <2>3, <2>4
  <2>7. sent[Len(fin) + 1] = [part |-> part, n |-> pos]
    BY <2>4 DEF run
  <2> QED BY <1>0, <1>4, <2>4, <2>5, <2>6, <2>7
<1> QED BY <1>3, <1>4

\* What has been sent when a part has ended: one more run, unless the part was empty.
LEMMA PartEnds ==
  ASSUME StreamInv, out = "open", Remaining = 0,
         NEW P, NEW fin \in Seq(Runs(P)), Story(fin)
  PROVE  /\ \E Q : sent \in Seq(Runs(Q))
         /\ Len(fin) \in Nat /\ Extends(sent, fin) /\ cursor.pos \in Nat
         /\ Len(sent) = Len(fin) + (IF cursor.pos = 0 THEN 0 ELSE 1)
         /\ cursor.pos # 0 => sent[Len(fin) + 1] = [part |-> cursor.part, n |-> cursor.pos]
         /\ ZipLen(sent, Len(sent))
              = ZipIs + (IF cursor.part.kind \in LeadStages THEN 0 ELSE cursor.pos)
         /\ AllLen(sent, Len(sent)) = (LeadLen + ZipIs) + cursor.pos
         /\ stage \in {"init", "done"} => cursor.pos = 0
         /\ stage \notin {"init", "done", "data"} =>
              cursor.pos = cursor.part.length /\ cursor.pos # 0
         /\ stage = "data" => cursor.pos = disk[files[index].file].length
<1> DEFINE pos == cursor.pos
           part == cursor.part
<1>0. EncoderTypes /\ PartOK /\ DataOK /\ DiskOK /\ pos \in Nat
  BY OpenFacts
<1>1. Shown(fin) /\ LengthOK(fin) /\ Len(fin) \in Nat
  BY DEF Story
<1>2. /\ stage \in {"init", "done"} => pos = 0
      /\ stage \notin {"init", "done", "data"} =>
           part.length \in Nat \ {0} /\ part.length - pos = 0
      /\ stage = "data" => /\ disk[files[index].file].length \in Nat
                           /\ disk[files[index].file].length - pos = 0
  <2>1. CASE stage \in {"init", "done"}
    BY <1>0, <2>1, PartFacts DEF PartOK
  <2>2. CASE stage = "data"
    <3>1. disk[files[index].file].length \in Nat /\ part.file = files[index].file
      BY <1>0, <2>2, LengthFacts
    <3> QED BY <2>2, <3>1 DEF Remaining
  <2>3. CASE stage \notin {"init", "done", "data"}
    <3>1. part.length \in Nat \ {0}
      BY <1>0, <2>3, LengthFacts
    <3> QED BY <2>3, <3>1 DEF Remaining
  <2> QED BY <2>1, <2>2, <2>3
<1>3. /\ stage \in {"init", "done"} => pos = 0
      /\ stage \notin {"init", "done", "data"} => pos = part.length /\ pos # 0
      /\ stage = "data" => pos = disk[files[index].file].length
  BY <1>0, <1>2
<1> QED BY <1>0, <1>1, <1>3, SentFacts

\* The invariant after a step of the encoder, from what it says of the encoder.
LEMMA Concludes ==
  ASSUME StreamInv, disk' = disk, offered' = offered, files' # <<>>,
         out' \in {"open", "failed"}, EncoderTypes', OffsetsOK', PartOK', CountsOK',
         declared' = StreamLen(format', files'), FilesAgree',
         \E P : \E fin \in Seq(Runs(P)) : Story(fin)'
  PROVE  StreamInv'
<1>1. EncoderOK'
  BY DEF EncoderOK
<1>2. DiskOK' /\ OfferOK' /\ OutOK'
  BY DEF StreamInv, DiskOK, OfferOK, ListOK, Fresh, SizesOK, OutOK
<1> QED BY <1>1, <1>2 DEF StreamInv

\* The files that have been sent are in what starts with fin.
LEMMA FilesStay ==
  ASSUME NEW P, NEW fin \in Seq(Runs(P)), NEW s, Len(s) \in Nat, Extends(s, fin),
         FilesOK(fin), ListOK(files), Sent \in 0..Len(files)
  PROVE  \A i \in 1..Sent : \E k \in 1..Len(s) :
           FileRuns(s, k, files[i]) /\ ZipLen(s, k - 1) = LocalLen(files, i - 1)
<1> SUFFICES ASSUME NEW i \in 1..Sent
             PROVE  \E k \in 1..Len(s) :
                      FileRuns(s, k, files[i]) /\ ZipLen(s, k - 1) = LocalLen(files, i - 1)
  OBVIOUS
<1>1. PICK k \in 1..Len(fin) :
        FileRuns(fin, k, files[i]) /\ ZipLen(fin, k - 1) = LocalLen(files, i - 1)
  BY DEF FilesOK
<1>2. files[i].crc.amount \in Nat
  <2>1. i \in 1..Len(files)
    BY InfoFacts
  <2> QED BY <2>1, InfoFacts
<1>3. k \in 1..Len(s) /\ FileRuns(s, k, files[i]) /\ ZipLen(s, k - 1) = ZipLen(fin, k - 1)
  BY <1>1, <1>2, FileRunsStay
<1> QED BY <1>1, <1>3

\* The number of files that have been sent.
LEMMA SentCount ==
  ASSUME EncoderTypes
  PROVE  Sent \in 0..Len(files) /\ Len(files) \in Nat
<1>1. Len(files) \in Nat
  BY InfoFacts DEF EncoderTypes
<1> QED BY <1>1 DEF Sent, EncoderTypes

\* The runs before the zip, while the zip is being read, and the headers when there are none.
LEMMA ZipRunsStay ==
  ASSUME NEW P, NEW fin \in Seq(Runs(P)), Len(sent) \in Nat, Extends(sent, fin),
         LeadOK(fin), stage \notin LeadStages, LeadCount \in Nat,
         Len(sent) = Len(fin) \/ (/\ Len(sent) = Len(fin) + 1
                                  /\ sent[Len(fin) + 1].part.kind \notin LeadStages)
  PROVE  /\ \A j \in 1 .. Len(sent) :
              IF j <= LeadCount THEN sent[j] = [part |-> LeadPart(j), n |-> LeadPart(j).length]
              ELSE sent[j].part.kind \notin LeadStages
         /\ Len(sent) >= LeadCount
<1>0. Len(fin) \in Nat /\ Len(fin) >= LeadCount
  BY DEF LeadOK
<1>1. ASSUME NEW j \in 1..Len(sent)
      PROVE  IF j <= LeadCount THEN sent[j] = [part |-> LeadPart(j), n |-> LeadPart(j).length]
             ELSE sent[j].part.kind \notin LeadStages
  <2>1. CASE j \in 1..Len(fin)
    BY <2>1 DEF LeadOK, Extends
  <2>2. CASE j \notin 1..Len(fin)
    <3>1. j = Len(fin) + 1 /\ ~(j <= LeadCount) /\ Len(sent) = Len(fin) + 1
      BY <1>0, <2>2
    <3> QED BY <3>1
  <2> QED BY <2>1, <2>2
<1> QED BY <1>0, <1>1

\* What does not change when a reader hands over to the next one.
HandsOver ==
  /\ out = "open" /\ out' = "open" /\ Remaining = 0 /\ UNCHANGED <<Outer, files>>
  /\ cursor' = [part |-> cursor'.part, pos |-> 0]

\* The facts about such a step, and what remains to be shown.
LEMMA HandsOverFacts ==
  ASSUME StreamInv, HandsOver
  PROVE  /\ disk' = disk /\ offered' = offered /\ format' = format /\ declared' = declared
         /\ sent' = sent /\ written' = written /\ digest' = digest /\ files' = files
         /\ cursor'.pos = 0 /\ LeadCount' = LeadCount /\ LeadCount \in {0, 2, 3}
         /\ format \in Formats /\ (format \notin Zips => LeadCount \in {2, 3})
         /\ \A j : LeadPart(j)' = LeadPart(j)
         /\ (/\ EncoderTypes' /\ OffsetsOK' /\ PartOK' /\ CountsOK' /\ AmountsOK' /\ DataOK'
             /\ LeadOK(sent)' /\ LengthOK(sent)' /\ FilesOK(sent)' /\ CurrentOK(sent)'
             /\ CentralOK(sent)' /\ DigestOK(sent)' /\ \E Q : sent \in Seq(Runs(Q))
             /\ (sent # <<>> => sent[Len(sent)].part # cursor'.part))
              => StreamInv'
<1>1. /\ disk' = disk /\ offered' = offered /\ format' = format /\ declared' = declared
      /\ sent' = sent /\ written' = written /\ digest' = digest /\ files' = files
      /\ cursor'.pos = 0
  BY DEF HandsOver, Outer, diskVars
<1>2. LeadCount' = LeadCount /\ \A j : LeadPart(j)' = LeadPart(j)
  BY <1>1 DEF LeadCount, LeadPart
<1>3. /\ format \in Formats /\ files # <<>> /\ declared = StreamLen(format, files)
      /\ SizesOK(disk, files)
  BY OpenFacts DEF HandsOver, EncoderTypes
<1>4. LeadCount \in {0, 2, 3} /\ (format \notin Zips => LeadCount \in {2, 3})
  BY <1>3 DEF LeadCount, Formats, Zips
<1>5. ASSUME EncoderTypes', OffsetsOK', PartOK', CountsOK', AmountsOK', DataOK',
             LeadOK(sent)', LengthOK(sent)', FilesOK(sent)', CurrentOK(sent)',
             CentralOK(sent)', DigestOK(sent)', \E Q : sent \in Seq(Runs(Q)),
             sent # <<>> => sent[Len(sent)].part # cursor'.part
      PROVE  StreamInv'
  <2>1. Shown(sent)'
    BY <1>1, <1>5 DEF Shown
  <2>2. Story(sent)'
    BY <1>5, <2>1 DEF Story
  <2>3. \E Q : \E fin \in Seq(Runs(Q)) : Story(fin)'
    <3>1. PICK Q : sent \in Seq(Runs(Q))
      BY <1>5
    <3>2. PICK s : s = sent
      OBVIOUS
    <3>3. Story(s)'
      <4>1. s = sent'
        BY <1>1, <3>2
      <4> QED BY <2>2, <4>1 DEF Story, LeadOK, LengthOK, FilesOK, CurrentOK, CentralOK, Shown,
                                DigestOK, Base
    <3> QED BY <3>1, <3>2, <3>3
  <2>4. FilesAgree'
    BY <1>1, <1>3, <1>5 DEF FilesAgree, SizesOK
  <2> QED BY <1>1, <1>3, <1>5, <2>3, <2>4, Concludes DEF HandsOver
<1> QED BY <1>1, <1>2, <1>3, <1>4, <1>5, Zenon

\* The headers before the zip end.
LEMMA LeadEndsKeep ==
  ASSUME StreamInv, WrapperEnds \/ ChunkHeaderEnds \/ MessageTypeEnds
  PROVE  StreamInv'
<1>1. /\ HandsOver /\ index' = index /\ start' = start
      /\ \/ stage = "wrapper" /\ stage' = "chunk" /\ cursor'.part = ChunkHeader
         \/ stage = "chunk" /\ stage' = "type" /\ cursor'.part = MessageType
         \/ stage = "type" /\ stage' = "init" /\ cursor'.part = NoPart
  BY DEF WrapperEnds, ChunkHeaderEnds, MessageTypeEnds, Ended, Goto, HandsOver
<1>2. /\ disk' = disk /\ offered' = offered /\ format' = format /\ declared' = declared
      /\ sent' = sent /\ written' = written /\ digest' = digest /\ files' = files
      /\ cursor'.pos = 0 /\ LeadCount' = LeadCount /\ LeadCount \in {0, 2, 3}
      /\ format \in Formats /\ (format \notin Zips => LeadCount \in {2, 3})
      /\ \A j : LeadPart(j)' = LeadPart(j)
  BY <1>1, HandsOverFacts
<1>3. /\ EncoderTypes /\ OffsetsOK /\ PartOK /\ CountsOK /\ AmountsOK /\ DataOK /\ ListOK(files)
      /\ \E P : \E fin \in Seq(Runs(P)) : Story(fin)
  BY <1>1, OpenFacts DEF HandsOver
<1>4. PICK P : \E fin \in Seq(Runs(P)) : Story(fin)
  BY <1>3
<1>5. PICK fin \in Seq(Runs(P)) : Story(fin)
  BY <1>4
<1>6. format \notin Zips /\ LeadCount \in {2, 3} /\ (stage = "wrapper" => LeadCount = 3)
  BY <1>1, <1>2, <1>3 DEF PartOK, LeadStages, LeadCount
<1>7. /\ stage = "wrapper" => /\ cursor.part = WrapperHeader(declared - 8)
                              /\ cursor.part.length = 8 /\ cursor.part.kind = "wrapper"
      /\ stage = "chunk" => /\ cursor.part = ChunkHeader /\ cursor.part.length = 1
                            /\ cursor.part.kind = "chunk"
      /\ stage = "type" => /\ cursor.part = MessageType /\ cursor.part.length = 1
                           /\ cursor.part.kind = "type"
  BY <1>3, PartFacts DEF PartOK
<1>8. stage \notin {"init", "done", "data"} /\ cursor.part.kind \in LeadStages
  BY <1>1, <1>7 DEF LeadStages
<1>9. /\ \E Q : sent \in Seq(Runs(Q))
      /\ Len(fin) \in Nat /\ Extends(sent, fin)
      /\ Len(sent) = Len(fin) + 1
      /\ sent[Len(fin) + 1] = [part |-> cursor.part, n |-> cursor.part.length]
      /\ ZipLen(sent, Len(sent)) = ZipIs + 0
      /\ AllLen(sent, Len(sent)) = (LeadLen + ZipIs) + cursor.part.length
  BY <1>1, <1>5, <1>8, PartEnds DEF HandsOver
<1>10. EncoderTypes'
  <2>1. stage' \in Stages /\ stage' \notin FileStages \cup {"central"}
    BY <1>1 DEF Stages, FileStages
  <2> QED BY <1>1, <1>2, <1>3, <2>1 DEF EncoderTypes, ListOK, HandsOver
<1>11. Sent = 0 /\ Sent' = 0
  BY <1>1 DEF Sent, FileStages, TailStages
<1>12. OffsetsOK' /\ AmountsOK' /\ DataOK'
  BY <1>1, <1>2, <1>3, <1>11 DEF OffsetsOK, AmountsOK, DataOK
<1>13. PartOK'
  BY <1>1, <1>2, <1>6, PartFacts DEF PartOK, LeadStages
<1>14. ZipIs = 0 /\ ZipIs' = 0
  BY <1>1 DEF ZipIs, LeadStages
<1>15. CountsOK'
  BY <1>1, <1>2, <1>3, <1>14 DEF CountsOK, ZipStages, TailStages
<1>16. LeadOK(fin) /\ DigestOK(fin) /\ CentralOK(fin)
  BY <1>5 DEF Story
<1>17. LeadOK(sent)'
  <2>1. /\ stage = "wrapper" => Len(fin) = 0
        /\ stage = "chunk" => Len(fin) = LeadCount - 2
        /\ stage = "type" => Len(fin) = LeadCount - 1
    BY <1>16 DEF LeadOK
  <2>2. /\ cursor.part = LeadPart(Len(fin) + 1) /\ Len(fin) + 1 <= LeadCount
        /\ stage' = "chunk" => Len(sent) = LeadCount - 2
        /\ stage' = "type" => Len(sent) = LeadCount - 1
        /\ stage' = "init" => Len(sent) = LeadCount
    <3>1. CASE stage = "wrapper"
      <4>1. LeadPart(1) = WrapperHeader(declared - 8) /\ Len(fin) + 1 = 1 /\ Len(sent) = 1
            /\ LeadCount = 3
        BY <1>6, <1>9, <2>1, <3>1 DEF LeadPart
      <4> QED BY <1>1, <1>7, <3>1, <4>1
    <3>2. CASE stage = "chunk"
      <4>1. Len(fin) + 1 = LeadCount - 1
        BY <1>6, <2>1, <3>2
      <4>2. LeadPart(LeadCount - 1) = ChunkHeader /\ LeadCount - 1 <= LeadCount
        BY <1>6 DEF LeadPart
      <4> QED BY <1>1, <1>7, <1>9, <3>2, <4>1, <4>2
    <3>3. CASE stage = "type"
      <4>1. Len(fin) + 1 = LeadCount
        BY <1>6, <2>1, <3>3
      <4>2. LeadPart(LeadCount) = MessageType /\ LeadCount <= LeadCount
        BY <1>6 DEF LeadPart
      <4> QED BY <1>1, <1>7, <1>9, <3>3, <4>1, <4>2
    <3> QED BY <1>1, <3>1, <3>2, <3>3
  <2>3. ASSUME NEW j \in 1..Len(sent)
        PROVE  j <= LeadCount /\ sent[j] = [part |-> LeadPart(j), n |-> LeadPart(j).length]
    <3>1. CASE j \in 1..Len(fin)
      <4>1. sent[j] = fin[j] /\ j <= LeadCount
        BY <1>6, <1>9, <2>2, <3>1 DEF Extends
      <4> QED BY <1>16, <3>1, <4>1 DEF LeadOK
    <3>2. CASE j \notin 1..Len(fin)
      <4>1. j = Len(fin) + 1
        BY <1>9, <3>2
      <4> QED BY <1>9, <2>2, <4>1
    <3> QED BY <3>1, <3>2
  <2>4. \A j \in 1..Len(sent) :
          j <= LeadCount /\ sent[j] = [part |-> LeadPart(j), n |-> LeadPart(j).length]
    BY <2>3
  <2> QED BY <1>1, <1>2, <1>6, <2>2, <2>4 DEF LeadOK, LeadStages
<1>18. LengthOK(sent)'
  <2>1. LeadLen' = LeadLen + cursor.part.length /\ LeadLen \in Nat
    <3>1. WrapperLen' = WrapperLen /\ WrapperLen \in {0, 8} /\ (stage = "wrapper" => WrapperLen = 8)
      BY <1>2, <1>3 DEF WrapperLen, PartOK
    <3>2. CASE stage = "wrapper"
      BY <1>1, <1>7, <3>1, <3>2 DEF LeadLen
    <3>3. CASE stage = "chunk"
      BY <1>1, <1>7, <3>1, <3>3 DEF LeadLen
    <3>4. CASE stage = "type"
      BY <1>1, <1>2, <1>6, <1>7, <3>1, <3>4 DEF LeadLen
    <3> QED BY <1>1, <3>2, <3>3, <3>4
  <2>2. ZipLen(sent, Len(sent)) = 0 /\ AllLen(sent, Len(sent)) = LeadLen' + 0
    <3>1. cursor.part.length \in Nat
      BY <1>1, <1>7
    <3> QED BY <1>9, <1>14, <2>1, <3>1
  <2> QED BY <1>2, <1>14, <2>2 DEF LengthOK
<1>19. FilesOK(sent)' /\ CurrentOK(sent)'
  BY <1>1, <1>2, <1>11 DEF FilesOK, CurrentOK
<1>20. CentralOK(sent)'
  <2>1. Base(fin) = Len(fin) /\ Base(sent)' = Len(sent)
    BY <1>1, <1>2, <1>9 DEF Base, HeaderCount, TailStages
  <2>2. \A k \in 1..Len(sent) : sent[k].part.kind \notin {"central", "end", "crc"}
    <3> SUFFICES ASSUME NEW k \in 1..Len(sent)
                 PROVE  sent[k].part.kind \notin {"central", "end", "crc"}
      OBVIOUS
    <3>1. CASE k \in 1..Len(fin)
      BY <1>9, <1>16, <2>1, <3>1 DEF CentralOK, Extends
    <3>2. CASE k \notin 1..Len(fin)
      <4>1. k = Len(fin) + 1
        BY <1>9, <3>2
      <4> QED BY <1>8, <1>9, <4>1 DEF LeadStages
    <3> QED BY <3>1, <3>2
  <2> QED BY <1>1, <1>2, <2>1, <2>2 DEF CentralOK, TailStages
<1>21. DigestOK(sent)'
  <2>1. CASE stage = "wrapper"
    BY <1>1, <1>2, <1>6, <1>16, <2>1 DEF DigestOK
  <2>2. CASE stage = "chunk"
    <3>1. digest = <<>>
      BY <1>6, <1>16, <2>2 DEF DigestOK
    <3>2. Len(sent) - (LeadCount - 1) = 0
      BY <1>6, <1>9, <1>16, <2>2 DEF LeadOK
    <3>3. Behind(sent, LeadCount - 1) = <<>>
      BY <3>2 DEF Behind
    <3> QED BY <1>1, <1>2, <2>2, <3>1, <3>3 DEF DigestOK
  <2>3. CASE stage = "type"
    BY <1>1, <1>2, <1>6, <1>16, <2>3 DEF DigestOK
  <2> QED BY <1>1, <2>1, <2>2, <2>3
<1>22. sent[Len(sent)].part # cursor'.part
  <2>1. sent[Len(sent)].part = cursor.part
    BY <1>9
  <2>2. cursor.part # cursor'.part
    BY <1>1, <1>7, PartFacts
  <2> QED BY <2>1, <2>2
<1> QED BY <1>1, <1>9, <1>10, <1>12, <1>13, <1>15, <1>17, <1>18, <1>19, <1>20, <1>21, <1>22,
           HandsOverFacts

\* A file cannot be opened: the answer fails, and nothing else happens.
LEMMA FailKeeps ==
  ASSUME StreamInv, out = "open", out' = "failed",
         UNCHANGED <<encoderVars, format, declared, sent>>,
         disk' = disk, offered' = offered
  PROVE  StreamInv'
<1>1. EncoderTypes' /\ EncoderOK' /\ files # <<>> /\ FilesAgree
  <2>1. EncoderTypes /\ EncoderOK /\ files # <<>> /\ FilesAgree
    BY DEF StreamInv
  <2> QED BY <2>1, EncoderStays
<1>2. FilesAgree'
  BY <1>1 DEF FilesAgree, SizesOK, AmountsOK, DataOK, Sent, encoderVars
<1>3. DiskOK' /\ OfferOK' /\ OutOK'
  BY DEF StreamInv, DiskOK, OfferOK, ListOK, Fresh, SizesOK, OutOK
<1> QED BY <1>1, <1>2, <1>3 DEF StreamInv, encoderVars

\* The zip begins, a local header ends, or the data of a file does.
LEMMA FileStepKeeps ==
  ASSUME StreamInv, HandsOver, start' = start,
         \/ /\ stage = "init" /\ stage' = "header" /\ index' = 1
            /\ cursor'.part = MakeLocalHeader(files[1])
         \/ /\ stage = "header" /\ stage' = "data" /\ index' = index
            /\ cursor'.part = Data(files[index].file)
         \/ /\ stage = "data" /\ stage' = "descriptor" /\ index' = index
            /\ cursor'.part = MakeDataDescriptor(Crc(files[index].file, cursor.pos))
  PROVE  StreamInv'
<1> DEFINE pos == cursor.pos
<1>2. /\ disk' = disk /\ offered' = offered /\ format' = format /\ declared' = declared
      /\ sent' = sent /\ written' = written /\ digest' = digest /\ files' = files
      /\ cursor'.pos = 0 /\ LeadCount' = LeadCount /\ LeadCount \in {0, 2, 3}
      /\ format \in Formats /\ (format \notin Zips => LeadCount \in {2, 3})
      /\ \A j : LeadPart(j)' = LeadPart(j)
  BY HandsOverFacts
<1>3. /\ EncoderTypes /\ OffsetsOK /\ PartOK /\ CountsOK /\ AmountsOK /\ DataOK /\ ListOK(files)
      /\ SizesOK(disk, files) /\ Len(files) \in Nat \ {0} /\ pos \in Nat
      /\ \E P : \E fin \in Seq(Runs(P)) : Story(fin)
  BY OpenFacts DEF HandsOver
<1>4. PICK P : \E fin \in Seq(Runs(P)) : Story(fin)
  BY <1>3
<1>5. PICK fin \in Seq(Runs(P)) : Story(fin)
  BY <1>4
<1>6. /\ LeadOK(fin) /\ DigestOK(fin) /\ CentralOK(fin) /\ FilesOK(fin) /\ CurrentOK(fin)
      /\ LengthOK(fin) /\ Shown(fin)
  BY <1>5 DEF Story
<1>7. /\ index' \in 1..Len(files) /\ (stage # "init" => index \in 1..Len(files))
      /\ files[index'].name \in Nat
      /\ stage # "init" => files[index].name \in Nat
  <2>1. 1 \in 1..Len(files)
    BY <1>3
  <2>2. stage # "init" => index \in 1..Len(files)
    BY <1>3 DEF EncoderTypes, FileStages
  <2> QED BY <1>3, <2>1, <2>2, InfoFacts
<1>8. /\ stage = "init" => cursor.part.kind = "none"
      /\ stage = "header" => /\ cursor.part = MakeLocalHeader(files[index])
                             /\ cursor.part.kind = "local"
                             /\ cursor.part.length = 30 + files[index].name
                             /\ cursor.part.file = files[index].file
      /\ stage = "data" => cursor.part = Data(files[index].file) /\ cursor.part.kind = "data"
  BY <1>3, <1>7, PartFacts DEF PartOK
<1>9. /\ \E Q : sent \in Seq(Runs(Q))
      /\ Len(fin) \in Nat /\ Extends(sent, fin)
      /\ Len(sent) = Len(fin) + (IF pos = 0 THEN 0 ELSE 1)
      /\ pos # 0 => sent[Len(fin) + 1] = [part |-> cursor.part, n |-> pos]
      /\ ZipLen(sent, Len(sent))
           = ZipIs + (IF cursor.part.kind \in LeadStages THEN 0 ELSE pos)
      /\ AllLen(sent, Len(sent)) = (LeadLen + ZipIs) + pos
      /\ stage \in {"init", "done"} => pos = 0
      /\ stage \notin {"init", "done", "data"} => pos = cursor.part.length /\ pos # 0
      /\ stage = "data" => pos = disk[files[index].file].length
  BY <1>5, PartEnds DEF HandsOver
<1>10. /\ cursor.part.kind \notin LeadStages \cup {"central", "end", "crc"}
       /\ Len(sent) \in Nat
       /\ \/ Len(sent) = Len(fin)
          \/ Len(sent) = Len(fin) + 1 /\ sent[Len(fin) + 1].part = cursor.part
  <2>1. cursor.part.kind \in {"none", "local", "data"}
    BY <1>8
  <2>2. cursor.part.kind \notin LeadStages \cup {"central", "end", "crc"}
    BY <2>1 DEF LeadStages
  <2>3. CASE pos = 0
    <3>1. Len(fin) \in Nat /\ Len(sent) = Len(fin) + 0
      BY <1>9, <2>3
    <3>2. Len(sent) = Len(fin) /\ Len(sent) \in Nat
      BY <3>1
    <3> QED BY <2>2, <3>2
  <2>4. CASE pos # 0
    BY <1>9, <2>2, <2>4
  <2> QED BY <2>3, <2>4
<1>11. EncoderTypes'
  <2>1. stage' \in Stages
    BY DEF Stages
  <2>2. index' \in Nat
    BY <1>3, <1>7
  <2> QED BY <1>2, <1>3, <1>7, <2>1, <2>2 DEF EncoderTypes, ListOK, HandsOver
<1>12. Sent' = Sent /\ Sent \in 0..Len(files) /\ Sent = index' - 1
  <2>1. Sent \in 0..Len(files)
    BY <1>3, SentCount
  <2> QED BY <2>1 DEF Sent, FileStages, TailStages
<1>13. OffsetsOK' /\ AmountsOK'
  BY <1>2, <1>3, <1>12 DEF OffsetsOK, AmountsOK
<1>14. DataOK'
  <2>1. CASE stage' = "header"
    BY <2>1 DEF DataOK
  <2>2. CASE stage' = "data"
    <3>1. disk[files[index].file].length \in Nat
      BY <1>3, <1>7, <2>2, InfoFacts, OpenFacts DEF HandsOver, DiskOK
    <3> QED BY <1>2, <2>2, <3>1 DEF DataOK
  <2>3. CASE stage' = "descriptor"
    <3>1. cursor'.part.crc.amount = pos
      BY <2>3, PartFacts DEF Crc
    <3>2. files[index].size <= pos /\ pos <= disk[files[index].file].length
      BY <1>3, <1>7, <1>9, <2>3 DEF SizesOK
    <3> QED BY <1>2, <2>3, <3>1, <3>2 DEF DataOK
  <2> QED BY <2>1, <2>2, <2>3
<1>15. PartOK'
  <2>1. CASE stage' = "header"
    BY <1>2, <1>7, <2>1, PartFacts DEF PartOK, LeadStages
  <2>2. CASE stage' = "data"
    BY <1>2, <1>7, <2>2, PartFacts DEF PartOK, LeadStages
  <2>3. CASE stage' = "descriptor"
    <3>1. cursor'.part.crc.amount = pos /\ cursor'.part.length = 16
      BY <2>3, PartFacts DEF Crc
    <3> QED BY <1>2, <1>3, <2>3, <3>1 DEF PartOK, LeadStages
  <2> QED BY <2>1, <2>2, <2>3
<1>16. ZipIs \in Nat
  BY <1>3, ZipIsNat
<1>17. LocalLen(files, 0) = 0 /\ LocalLen(files, index' - 1) \in Nat
  <2>1. index' - 1 \in 0..Len(files)
    <3>1. \A i \in 1..Len(files) : i - 1 \in 0..Len(files)
      BY <1>3
    <3> QED BY <1>7, <3>1
  <2> QED BY <1>3, <2>1, LenFacts
<1>18. ZipIs' = ZipIs + pos
  <2>1. CASE stage' = "header"
    BY <1>2, <1>9, <1>17, <2>1 DEF ZipIs, LeadStages
  <2>2. CASE stage' = "data"
    <3>1. ZipIs = LocalLen(files, index - 1)
          /\ ZipIs' = LocalLen(files, index - 1) + 30 + files[index].name
      BY <1>2, <2>2 DEF ZipIs, LeadStages
    <3>2. pos = 30 + files[index].name
      BY <1>8, <1>9, <2>2
    <3>3. \A a, b \in Nat : a + 30 + b = a + (30 + b)
      OBVIOUS
    <3>4. LocalLen(files, index - 1) \in Nat /\ files[index].name \in Nat
      BY <1>7, <1>17, <2>2
    <3> QED BY <3>1, <3>2, <3>3, <3>4
  <2>3. CASE stage' = "descriptor"
    <3>1. cursor'.part.crc.amount = pos
      BY <2>3, PartFacts DEF Crc
    <3>2. /\ ZipIs = LocalLen(files, index - 1) + 30 + files[index].name
          /\ ZipIs' = LocalLen(files, index - 1) + 30 + files[index].name + pos
      BY <1>2, <2>3, <3>1 DEF ZipIs, LeadStages
    <3> QED BY <3>2
  <2> QED BY <2>1, <2>2, <2>3
<1>19. CountsOK'
  <2>1. written = ZipIs + pos
    BY <1>3, <1>9, <1>16 DEF CountsOK, ZipStages
  <2>2. written' = ZipIs' + 0
    BY <1>2, <1>3, <1>16, <1>18, <2>1
  <2> QED BY <1>2, <2>2 DEF CountsOK, ZipStages, TailStages
<1>20. LeadOK(sent)'
  <2>1. stage \notin LeadStages /\ stage' \notin LeadStages \cup {"init"} /\ LeadCount \in Nat
    BY <1>2 DEF LeadStages
  <2>2. /\ \A j \in 1 .. Len(sent) :
             IF j <= LeadCount THEN sent[j] = [part |-> LeadPart(j), n |-> LeadPart(j).length]
             ELSE sent[j].part.kind \notin LeadStages
        /\ Len(sent) >= LeadCount
    BY <1>6, <1>9, <1>10, <2>1, ZipRunsStay
  <2> QED BY <1>2, <2>1, <2>2 DEF LeadOK, LeadStages
<1>21. LengthOK(sent)'
  <2>1. LeadLen' = LeadLen
    BY <1>2 DEF LeadLen, WrapperLen
  <2>2. LeadLen \in Nat
    BY DEF LeadLen, WrapperLen
  <2>3. ZipLen(sent, Len(sent)) = ZipIs' /\ AllLen(sent, Len(sent)) = LeadLen' + ZipIs'
    <3>1. ZipLen(sent, Len(sent)) = ZipIs + pos /\ AllLen(sent, Len(sent)) = (LeadLen + ZipIs) + pos
      BY <1>9, <1>10
    <3>2. (LeadLen + ZipIs) + pos = LeadLen + (ZipIs + pos)
      <4>1. \A a, b, c \in Nat : (a + b) + c = a + (b + c)
        OBVIOUS
      <4> QED BY <1>3, <1>16, <2>2, <4>1
    <3> QED BY <1>18, <2>1, <3>1, <3>2
  <2> QED BY <1>2, <2>3 DEF LengthOK
<1>22. FilesOK(sent)'
  <2>1. \A i \in 1..Sent : \E k \in 1..Len(sent) :
          FileRuns(sent, k, files[i]) /\ ZipLen(sent, k - 1) = LocalLen(files, i - 1)
    BY <1>3, <1>6, <1>9, <1>10, <1>12, FilesStay
  <2> QED BY <1>2, <1>12, <2>1 DEF FilesOK
<1>23. CurrentOK(sent)'
  <2>1. CASE stage' = "header"
    BY <2>1 DEF CurrentOK
  <2>2. CASE stage' = "data"
    <3> DEFINE k == Len(fin) + 1
    <3>1. k \in 1..Len(sent) /\ Len(sent) = k /\ k - 1 = Len(fin) /\ Len(fin) \in 0..Len(fin)
          /\ sent[k] = [part |-> cursor.part, n |-> cursor.part.length]
      BY <1>8, <1>9, <2>2
    <3>2. ZipLen(sent, k - 1) = LocalLen(files, index - 1)
      <4>1. ZipLen(sent, k - 1) = ZipLen(fin, Len(fin))
        BY <1>9, <3>1 DEF Extends
      <4>2. ZipIs = LocalLen(files, index - 1)
        BY <2>2 DEF ZipIs, LeadStages
      <4> QED BY <1>6, <4>1, <4>2 DEF LengthOK
    <3>3. LocalAt(sent, k, files[index])
      BY <1>8, <2>2, <3>1 DEF LocalAt
    <3> HIDE DEF k
    <3> QED BY <1>2, <2>2, <3>1, <3>2, <3>3 DEF CurrentOK
  <2>3. CASE stage' = "descriptor"
    <3>1. PICK k \in 1..Len(fin) : /\ ZipLen(fin, k - 1) = LocalLen(files, index - 1)
                                   /\ LocalAt(fin, k, files[index]) /\ Len(fin) = k
      BY <1>6, <2>3 DEF CurrentOK
    <3>2. /\ k \in 1..Len(sent) /\ ZipLen(sent, k - 1) = LocalLen(files, index - 1)
          /\ sent[k] = fin[k]
      <4>1. k - 1 \in 0..Len(fin) /\ k \in 1..Len(sent)
        BY <1>9, <1>10
      <4> QED BY <1>9, <3>1, <4>1 DEF Extends
    <3>3. LocalAt(sent, k, files[index])
      BY <3>1, <3>2 DEF LocalAt
    <3>4. pos > 0 => sent[k + 1] = [part |-> Data(files[index].file), n |-> pos]
      BY <1>8, <1>9, <2>3, <3>1
    <3>5. DataAt(sent, k, files[index], pos)
      BY <3>3, <3>4 DEF DataAt
    <3>6. Len(sent) + 1 = After(k, pos)
      BY <1>9, <3>1 DEF After
    <3>7. cursor'.part.crc.amount = pos
      BY <2>3, PartFacts DEF Crc
    <3> QED BY <1>2, <2>3, <3>2, <3>3, <3>5, <3>6, <3>7 DEF CurrentOK
  <2> QED BY <2>1, <2>2, <2>3
<1>24. CentralOK(sent)'
  <2>1. Base(fin) = Len(fin) /\ Base(sent)' = Len(sent)
    BY <1>2, <1>9, <1>10 DEF Base, HeaderCount, TailStages
  <2>2. \A k \in 1..Len(sent) : sent[k].part.kind \notin {"central", "end", "crc"}
    <3> SUFFICES ASSUME NEW k \in 1..Len(sent)
                 PROVE  sent[k].part.kind \notin {"central", "end", "crc"}
      OBVIOUS
    <3>1. CASE k \in 1..Len(fin)
      BY <1>6, <1>9, <2>1, <3>1 DEF CentralOK, Extends
    <3>2. CASE k \notin 1..Len(fin)
      <4>1. k = Len(fin) + 1 /\ Len(sent) = Len(fin) + 1
        BY <1>9, <1>10, <3>2
      <4> QED BY <1>9, <1>10, <4>1
    <3> QED BY <3>1, <3>2
  <2> QED BY <1>2, <2>1, <2>2 DEF CentralOK, TailStages
<1>25. DigestOK(sent)'
  BY <1>2, <1>6 DEF DigestOK
<1>26. sent # <<>> => sent[Len(sent)].part # cursor'.part
  <2> SUFFICES ASSUME sent # <<>>
               PROVE  sent[Len(sent)].part # cursor'.part
    OBVIOUS
  <2>1. CASE stage = "init"
    <3>1. Len(fin) = LeadCount /\ sent = fin
      BY <1>6, <1>9, <2>1 DEF LeadOK, Shown
    <3>2. Len(fin) \in 1..Len(fin)
      BY <1>9, <3>1
    <3>3. sent[Len(sent)].part = LeadPart(LeadCount) /\ LeadPart(LeadCount) = MessageType
      BY <1>6, <3>1, <3>2 DEF LeadOK, LeadPart
    <3> QED BY <2>1, <3>3, PartFacts
  <2>2. CASE stage = "header"
    <3>1. sent[Len(sent)].part = cursor.part
      BY <1>8, <1>9, <2>2
    <3> QED BY <1>8, <2>2, <3>1, PartFacts
  <2>3. CASE stage = "data"
    <3>1. sent[Len(sent)].part.kind \in {"data", "local"}
      <4>1. CASE pos = 0
        <5>1. sent = fin /\ fin[Len(fin)].part.kind = "local"
          BY <1>6, <2>3, <4>1 DEF Shown, CurrentOK, LocalAt
        <5> QED BY <5>1
      <4>2. CASE pos # 0
        BY <1>8, <1>9, <2>3, <4>2
      <4> QED BY <4>1, <4>2
    <3>2. cursor'.part.kind = "descriptor"
      BY <2>3, PartFacts
    <3> QED BY <3>1, <3>2
  <2> QED BY <2>1, <2>2, <2>3
<1> QED BY <1>9, <1>11, <1>13, <1>14, <1>15, <1>19, <1>20, <1>21, <1>22, <1>23, <1>24, <1>25,
           <1>26, HandsOverFacts

\* The steps of LocalFileReader, and its creation for the first file.
LEMMA LocalFileKeeps ==
  ASSUME StreamInv, InitEnds \/ HeaderEnds \/ DataEnds
  PROVE  StreamInv'
<1>1. CASE HeaderEnds \/ DataEnds
  <2>1. HandsOver
    BY <1>1 DEF HeaderEnds, DataEnds, HandsOver, Ended, Goto
  <2> QED BY <1>1, <2>1, FileStepKeeps DEF HeaderEnds, DataEnds, Ended, Goto
<1>2. CASE InitEnds
  <2>1. Ended("init") /\ UNCHANGED <<Outer, files, start>> /\ NewLocalFiles(1, files)
    BY <1>2 DEF InitEnds
  <2>2. CASE Goto("header", MakeLocalHeader(files[1])) /\ index' = 1 /\ UNCHANGED out
    <3>1. HandsOver
      BY <2>1, <2>2 DEF HandsOver, Ended, Goto
    <3> QED BY <2>1, <2>2, <3>1, FileStepKeeps DEF Ended, Goto
  <2>3. CASE out' = "failed" /\ UNCHANGED <<stage, cursor, index>>
    BY <2>1, <2>3, FailKeeps DEF Ended, Outer, encoderVars, diskVars
  <2> QED BY <2>1, <2>2, <2>3 DEF NewLocalFiles
<1> QED BY <1>1, <1>2

-----------------------------------------------------------------------------
(* The end of a file: the list is completed.                               *)

\* The list after the data descriptor: the check sum of this file, the offset of the next.
LEMMA CompletedFacts ==
  ASSUME ListOK(files), index \in 1..Len(files), written \in Nat,
         NEW crc \in [file : 0 .. Len(Files), amount : Nat], NEW fs, fs = Completed(crc)
  PROVE  /\ ListOK(fs) /\ Len(fs) = Len(files)
         /\ \A i \in 1..Len(files) :
              /\ fs[i].file = files[i].file /\ fs[i].name = files[i].name
              /\ fs[i].size = files[i].size
              /\ fs[i].crc = IF i = index THEN crc ELSE files[i].crc
              /\ fs[i].offset = IF i = index + 1 THEN written % U32 ELSE files[i].offset
<1> DEFINE n == Len(files)
           a == [files EXCEPT ![index].crc = crc]
<1>0. /\ files \in Seq(Infos) /\ n \in Nat /\ n <= Len(Files) /\ files \in [1..n -> Infos]
      /\ \A i, j \in 1..n : files[i].file = files[j].file => i = j
  BY InfoFacts DEF ListOK
<1>1. written % U32 \in Nat
  BY MarStreamAssumption
<1>2. \A info \in Infos : /\ [info EXCEPT !.crc = crc] \in Infos
                          /\ [info EXCEPT !.offset = written % U32] \in Infos
  BY <1>1 DEF Infos
<1>3. \A info \in Infos :
        /\ [info EXCEPT !.crc = crc].file = info.file /\ [info EXCEPT !.crc = crc].name = info.name
        /\ [info EXCEPT !.crc = crc].size = info.size /\ [info EXCEPT !.crc = crc].crc = crc
        /\ [info EXCEPT !.crc = crc].offset = info.offset
        /\ [info EXCEPT !.offset = written % U32].file = info.file
        /\ [info EXCEPT !.offset = written % U32].name = info.name
        /\ [info EXCEPT !.offset = written % U32].size = info.size
        /\ [info EXCEPT !.offset = written % U32].crc = info.crc
        /\ [info EXCEPT !.offset = written % U32].offset = written % U32
  BY DEF Infos
<1>4. /\ a \in [1..n -> Infos]
      /\ \A i \in 1..n : a[i] = IF i = index THEN [files[i] EXCEPT !.crc = crc] ELSE files[i]
  <2> HIDE DEF n
  <2> QED BY <1>0, <1>2 DEF n
<1>5. /\ fs \in [1..n -> Infos]
      /\ \A i \in 1..n : fs[i] = IF i = index + 1 THEN [a[i] EXCEPT !.offset = written % U32]
                                 ELSE a[i]
  <2>1. fs = IF index < n THEN [a EXCEPT ![index + 1].offset = written % U32] ELSE a
    BY DEF Completed
  <2> HIDE DEF a, n
  <2>2. CASE index < n
    <3>1. index + 1 \in 1..n /\ fs = [a EXCEPT ![index + 1].offset = written % U32]
      BY <1>0, <2>1, <2>2 DEF n
    <3> DEFINE k == index + 1
               e == [a[k] EXCEPT !.offset = written % U32]
    <3>2. k \in 1..n /\ a[k] \in Infos /\ e \in Infos
      BY <1>2, <1>4, <3>1
    <3>3. fs = [a EXCEPT ![k] = e]
      BY <1>4, <3>1
    <3> HIDE DEF k, e
    <3>4. fs \in [1..n -> Infos] /\ \A i \in 1..n : fs[i] = IF i = k THEN e ELSE a[i]
      BY <1>4, <3>2, <3>3
    <3> QED BY <3>4 DEF k, e
  <2>3. CASE ~(index < n)
    <3>1. \A i \in 1..n : i # index + 1
      BY <1>0, <2>3 DEF n
    <3> QED BY <1>4, <2>1, <2>3, <3>1
  <2> QED BY <2>2, <2>3
<1> HIDE DEF a, n
<1>6. fs \in Seq(Infos) /\ Len(fs) = n
  BY <1>0, <1>5
<1>7. ASSUME NEW i \in 1..n
      PROVE  /\ fs[i].file = files[i].file /\ fs[i].name = files[i].name
             /\ fs[i].size = files[i].size
             /\ fs[i].crc = IF i = index THEN crc ELSE files[i].crc
             /\ fs[i].offset = IF i = index + 1 THEN written % U32 ELSE files[i].offset
  <2>1. a[i] \in Infos /\ files[i] \in Infos
    BY <1>0, <1>4
  <2>2. /\ a[i].file = files[i].file /\ a[i].name = files[i].name /\ a[i].size = files[i].size
        /\ a[i].crc = (IF i = index THEN crc ELSE files[i].crc) /\ a[i].offset = files[i].offset
    <3>1. CASE i = index
      <4>1. a[i] = [files[i] EXCEPT !.crc = crc]
        BY <1>4, <3>1
      <4> QED BY <1>3, <2>1, <3>1, <4>1
    <3>2. CASE i # index
      BY <1>4, <3>2
    <3> QED BY <3>1, <3>2
  <2>3. CASE i = index + 1
    <3>1. fs[i] = [a[i] EXCEPT !.offset = written % U32]
      BY <1>5, <2>3
    <3>2. /\ fs[i].file = a[i].file /\ fs[i].name = a[i].name /\ fs[i].size = a[i].size
          /\ fs[i].crc = a[i].crc /\ fs[i].offset = written % U32
      BY <1>3, <2>1, <3>1
    <3> QED BY <2>2, <2>3, <3>2
  <2>4. CASE i # index + 1
    BY <1>5, <2>2, <2>4
  <2> QED BY <2>3, <2>4
<1>8. ListOK(fs)
  BY <1>0, <1>6, <1>7 DEF ListOK
<1> QED BY <1>6, <1>7, <1>8 DEF n

\* The announced length does not depend on what is completed.
LEMMA StreamLenSame ==
  ASSUME NEW fs, ListOK(fs), NEW gs, ListOK(gs), Len(gs) = Len(fs), NEW fmt,
         \A i \in 1..Len(fs) : gs[i].name = fs[i].name /\ gs[i].size = fs[i].size
  PROVE  StreamLen(fmt, gs) = StreamLen(fmt, fs)
<1>1. \A i \in 1..Len(fs) : ZipSizes(gs)[i] = ZipSizes(fs)[i]
  <2> SUFFICES ASSUME NEW i \in 1..Len(fs)
               PROVE  ZipSizes(gs)[i] = ZipSizes(fs)[i]
    OBVIOUS
  <2>1. ZipSizes(fs)[i] = (46 + fs[i].name + fs[i].size) + (46 + fs[i].name)
    BY ZipStreamLenFacts
  <2>2. ZipSizes(gs)[i] = (46 + gs[i].name + gs[i].size) + (46 + gs[i].name)
    BY ZipStreamLenFacts
  <2> QED BY <2>1, <2>2
<1>2. SumTo(ZipSizes(gs), Len(fs)) = SumTo(ZipSizes(fs), Len(fs))
  BY <1>1, InfoFacts, SumSame
<1>3. ZipStreamLen(gs) = ZipStreamLen(fs)
  BY <1>2, ZipStreamLenFacts
<1> QED BY <1>3 DEF StreamLen, ChunkLen, MessageLen

\* The step DescriptorEnds, whatever comes next.
LEMMA DescriptorFacts ==
  ASSUME StreamInv, DescriptorEnds
  PROVE  /\ files' # <<>> /\ ListOK(files)' /\ Len(files') = Len(files) /\ index \in 1..Len(files)
         /\ \A i \in 1..Len(files) :
              /\ files'[i].file = files[i].file /\ files'[i].name = files[i].name
              /\ files'[i].size = files[i].size
              /\ files'[i].crc = IF i = index THEN cursor.part.crc ELSE files[i].crc
              /\ files'[i].offset = IF i = index + 1 THEN written % U32 ELSE files[i].offset
         /\ \A i \in 0..(index - 1) : LocalLen(files', i) = LocalLen(files, i)
         /\ LocalLen(files', index) = written
         /\ declared = StreamLen(format, files') /\ SizesOK(disk, files')
         /\ \A i \in 1..Len(files) :
              i <= index + 1 => files'[i].offset = LocalLen(files', i - 1) % U32
         /\ \A i \in 1..index : /\ files'[i].size <= files'[i].crc.amount
                                /\ files'[i].crc.amount <= disk[files'[i].file].length
<1> DEFINE part == cursor.part
           amount == part.crc.amount
           n == Len(files)
<1>1. /\ out = "open" /\ stage = "descriptor" /\ Remaining = 0 /\ files' = Completed(part.crc)
  BY DEF DescriptorEnds, Ended
<1>2. /\ EncoderTypes /\ OffsetsOK /\ PartOK /\ CountsOK /\ AmountsOK /\ DataOK /\ ListOK(files)
      /\ n \in Nat \ {0} /\ cursor.pos \in Nat /\ DiskOK
      /\ declared = StreamLen(format, files) /\ SizesOK(disk, files)
  BY <1>1, OpenFacts
<1>3. index \in 1..n /\ written \in Nat
  BY <1>1, <1>2 DEF EncoderTypes, FileStages
<1>4. amount \in Nat /\ part = MakeDataDescriptor(Crc(files[index].file, amount))
  BY <1>1, <1>2 DEF PartOK
<1>5. part.crc = Crc(files[index].file, amount) /\ part.length = 16
  <2>1. \A c : MakeDataDescriptor(c).crc = c /\ MakeDataDescriptor(c).length = 16
    BY PartFacts
  <2> QED BY <1>4, <2>1, Zenon
<1>6. part.crc \in [file : 0 .. Len(Files), amount : Nat]
  <2>1. files[index].file \in 0 .. Len(Files)
    <3>1. files[index].file \in F
      BY <1>2, <1>3, InfoFacts
    <3> QED BY <3>1, MarStreamAssumption DEF F
  <2>2. Crc(files[index].file, amount) \in [file : 0 .. Len(Files), amount : Nat]
    BY <1>4, <2>1 DEF Crc
  <2> QED BY <1>5, <2>2
<1>7. PICK fs : fs = Completed(part.crc)
  OBVIOUS
<1>8. /\ ListOK(fs) /\ Len(fs) = n
      /\ \A i \in 1..n :
           /\ fs[i].file = files[i].file /\ fs[i].name = files[i].name
           /\ fs[i].size = files[i].size
           /\ fs[i].crc = IF i = index THEN part.crc ELSE files[i].crc
           /\ fs[i].offset = IF i = index + 1 THEN written % U32 ELSE files[i].offset
  BY <1>2, <1>3, <1>6, <1>7, CompletedFacts
<1>9. \A i \in 0..(index - 1) : LocalLen(fs, i) = LocalLen(files, i)
  <2> SUFFICES ASSUME NEW i \in 0..(index - 1)
               PROVE  LocalLen(fs, i) = LocalLen(files, i)
    OBVIOUS
  <2>1. i \in 0..n /\ \A j \in 1..i : j \in 1..n /\ j # index
    BY <1>2, <1>3
  <2>2. \A j \in 1..i : fs[j].name = files[j].name /\ fs[j].crc.amount = files[j].crc.amount
    BY <1>8, <2>1
  <2> HIDE DEF n
  <2> QED BY <1>2, <1>8, <2>1, <2>2, LenSame DEF n
<1>10. LocalLen(fs, index) = written
  <2>1. cursor.pos = 16
    <3>1. cursor.pos <= 16
      BY <1>1, <1>2, <1>5 DEF PartOK
    <3>2. 16 - cursor.pos = 0
      BY <1>1, <1>5 DEF Remaining
    <3> QED BY <1>2, <3>1, <3>2
  <2>2. ZipIs = LocalLen(files, index - 1) + 30 + files[index].name + amount
    BY <1>1 DEF ZipIs, LeadStages
  <2>3. written = ZipIs + 16
    BY <1>1, <1>2, <2>1 DEF CountsOK, ZipStages
  <2>4. LocalLen(fs, index) = LocalLen(fs, index - 1) + (46 + fs[index].name + fs[index].crc.amount)
    BY <1>3, <1>8, LenFacts
  <2>5. LocalLen(fs, index - 1) = LocalLen(files, index - 1) /\ LocalLen(files, index - 1) \in Nat
    <3>1. index - 1 \in 0..(index - 1) /\ index - 1 \in 0..n
      BY <1>2, <1>3
    <3> QED BY <1>2, <1>9, <3>1, LenFacts
  <2>6. fs[index].name = files[index].name /\ fs[index].crc.amount = amount
        /\ files[index].name \in Nat
    BY <1>2, <1>3, <1>8, InfoFacts
  <2>7. \A x, y, z \in Nat : x + (46 + y + z) = (x + 30 + y + z) + 16
    OBVIOUS
  <2>8. LocalLen(fs, index) = LocalLen(files, index - 1) + (46 + files[index].name + amount)
    BY <2>4, <2>5, <2>6
  <2> QED BY <1>4, <2>2, <2>3, <2>5, <2>6, <2>7, <2>8
<1>11. declared = StreamLen(format, fs)
  <2>1. StreamLen(format, fs) = StreamLen(format, files)
    BY <1>2, <1>8, StreamLenSame
  <2> QED BY <1>2, <2>1
<1>12. SizesOK(disk, fs)
  BY <1>2, <1>8 DEF SizesOK
<1>13. ASSUME NEW i \in 1..n, i <= index + 1
       PROVE  fs[i].offset = LocalLen(fs, i - 1) % U32
  <2>1. CASE i = index + 1
    <3>1. i - 1 = index
      BY <1>3, <2>1
    <3> QED BY <1>8, <1>10, <2>1, <3>1
  <2>2. CASE i # index + 1
    <3>1. i - 1 \in 0..(index - 1) /\ i <= index
      BY <1>2, <1>3, <1>13, <2>2
    <3>2. Sent + 1 = index
      BY <1>1, <1>2, <1>3 DEF Sent, FileStages
    <3>3. files[i].offset = LocalLen(files, i - 1) % U32
      BY <1>2, <3>1, <3>2 DEF OffsetsOK
    <3> QED BY <1>8, <1>9, <2>2, <3>1, <3>3
  <2> QED BY <2>1, <2>2
<1>14. ASSUME NEW i \in 1..index
       PROVE  /\ fs[i].size <= fs[i].crc.amount
              /\ fs[i].crc.amount <= disk[fs[i].file].length
  <2>0. i \in 1..n
    BY <1>2, <1>3
  <2>1. CASE i = index
    <3>1. /\ files[index].size <= amount /\ amount <= disk[files[index].file].length
      BY <1>1, <1>2 DEF DataOK
    <3> QED BY <1>8, <2>0, <2>1, <3>1
  <2>2. CASE i # index
    <3>1. i \in 1..Sent
      BY <1>1, <1>2, <1>3, <2>2 DEF Sent, FileStages
    <3>2. files[i].size <= files[i].crc.amount /\ files[i].crc.amount <= disk[files[i].file].length
      BY <1>2, <3>1 DEF AmountsOK
    <3> QED BY <1>8, <2>0, <2>2, <3>2
  <2> QED BY <2>1, <2>2
<1>15. fs # <<>>
  BY <1>2, <1>8
<1>16. files' = fs
  BY <1>1, <1>7
<1>17. ListOK(files)'
  BY <1>8, <1>16 DEF ListOK
<1> QED BY <1>3, <1>8, <1>9, <1>10, <1>11, <1>12, <1>13, <1>14, <1>15, <1>16, <1>17

\* The runs of a file depend on what it is and on its check sum.
LEMMA FileRunsSame ==
  ASSUME NEW s, NEW k, NEW a, NEW b, a.file = b.file, a.crc = b.crc, FileRuns(s, k, a)
  PROVE  FileRuns(s, k, b)
BY DEF FileRuns, DataAt, LocalAt

\* The next file cannot be opened.
LEMMA DescriptorFailKeeps ==
  ASSUME StreamInv, DescriptorEnds, out' = "failed", UNCHANGED <<stage, cursor, index, start>>
  PROVE  StreamInv'
<1> DEFINE n == Len(files)
<1>1. /\ out = "open" /\ stage = "descriptor" /\ disk' = disk /\ offered' = offered
      /\ format' = format /\ declared' = declared /\ sent' = sent /\ written' = written
      /\ digest' = digest /\ stage' = stage /\ cursor' = cursor /\ index' = index
      /\ start' = start
  BY DEF DescriptorEnds, Ended, Outer, diskVars
<1>2. /\ EncoderTypes /\ PartOK /\ CountsOK /\ AmountsOK /\ DataOK /\ ListOK(files)
      /\ n \in Nat \ {0}
  BY <1>1, OpenFacts
<1>3. PICK P : \E fin \in Seq(Runs(P)) : Story(fin)
  BY <1>1, OpenFacts
<1>4. PICK fin \in Seq(Runs(P)) : Story(fin)
  BY <1>3
<1>5. /\ files' # <<>> /\ ListOK(files)' /\ Len(files') = n /\ index \in 1..n
      /\ \A i \in 1..n :
           /\ files'[i].file = files[i].file /\ files'[i].name = files[i].name
           /\ files'[i].size = files[i].size
           /\ files'[i].crc = IF i = index THEN cursor.part.crc ELSE files[i].crc
      /\ \A i \in 0..(index - 1) : LocalLen(files', i) = LocalLen(files, i)
      /\ declared = StreamLen(format, files') /\ SizesOK(disk, files')
      /\ \A i \in 1..n : i <= index + 1 => files'[i].offset = LocalLen(files', i - 1) % U32
      /\ \A i \in 1..index : /\ files'[i].size <= files'[i].crc.amount
                             /\ files'[i].crc.amount <= disk[files'[i].file].length
  BY DescriptorFacts
<1>6. EncoderTypes'
  BY <1>1, <1>2, <1>5 DEF EncoderTypes
<1>7. Sent' = index - 1 /\ Sent = index - 1 /\ index \in Nat
  BY <1>1, <1>2, <1>5 DEF Sent, FileStages
<1>8. OffsetsOK'
  BY <1>1, <1>2, <1>5, <1>7 DEF OffsetsOK
<1>9. PartOK'
  BY <1>1, <1>2, <1>5 DEF PartOK, LeadStages
<1>10. LocalLen(files', index - 1) = LocalLen(files, index - 1)
  <2>1. index - 1 \in 0..(index - 1)
    BY <1>2, <1>5
  <2> QED BY <1>5, <2>1
<1>11. ZipIs' = ZipIs
  <2>1. /\ ZipIs = LocalLen(files, index - 1) + 30 + files[index].name + cursor.part.crc.amount
        /\ ZipIs' = LocalLen(files', index - 1) + 30 + files'[index].name + cursor.part.crc.amount
    BY <1>1 DEF ZipIs, LeadStages
  <2> QED BY <1>5, <1>10, <2>1
<1>12. CountsOK'
  BY <1>1, <1>2, <1>11 DEF CountsOK, TailStages
<1>13. FilesAgree'
  <2>1. AmountsOK'
    <3>1. \A i \in 1..(index - 1) : i \in 1..index
      BY <1>2, <1>5
    <3> QED BY <1>1, <1>5, <1>7, <3>1 DEF AmountsOK
  <2>2. DataOK'
    BY <1>1, <1>2, <1>5 DEF DataOK
  <2> QED BY <1>1, <1>5, <2>1, <2>2 DEF FilesAgree, SizesOK
<1>14. Story(fin)'
  <2>1. LeadOK(fin)'
    BY <1>1, <1>4 DEF Story, LeadOK, LeadCount, LeadPart
  <2>2. LengthOK(fin)'
    BY <1>1, <1>4, <1>11 DEF Story, LengthOK, LeadLen, WrapperLen
  <2>3. FilesOK(fin)'
    <3> SUFFICES ASSUME NEW i \in 1..(index - 1)
                 PROVE  \E k \in 1..Len(fin) : /\ FileRuns(fin, k, files'[i])
                                               /\ ZipLen(fin, k - 1) = LocalLen(files', i - 1)
      BY <1>7 DEF FilesOK
    <3>1. i \in 1..n /\ i - 1 \in 0..(index - 1) /\ i # index
      BY <1>2, <1>5
    <3>2. PICK k \in 1..Len(fin) :
            FileRuns(fin, k, files[i]) /\ ZipLen(fin, k - 1) = LocalLen(files, i - 1)
      BY <1>4, <1>7 DEF Story, FilesOK
    <3>3. files'[i].file = files[i].file /\ files'[i].crc = files[i].crc
          /\ LocalLen(files', i - 1) = LocalLen(files, i - 1)
      BY <1>5, <3>1
    <3>4. FileRuns(fin, k, files'[i])
      BY <3>2, <3>3, FileRunsSame
    <3> QED BY <3>2, <3>3, <3>4
  <2>4. CurrentOK(fin)'
    <3>1. PICK k \in 1..Len(fin) :
            /\ ZipLen(fin, k - 1) = LocalLen(files, index - 1)
            /\ LocalAt(fin, k, files[index])
            /\ DataAt(fin, k, files[index], cursor.part.crc.amount)
            /\ Len(fin) + 1 = After(k, cursor.part.crc.amount)
      BY <1>1, <1>4 DEF Story, CurrentOK
    <3>2. files'[index].file = files[index].file
      BY <1>5
    <3>3. /\ LocalAt(fin, k, files'[index])
          /\ DataAt(fin, k, files'[index], cursor.part.crc.amount)
      BY <3>1, <3>2 DEF LocalAt, DataAt
    <3> QED BY <1>1, <1>10, <3>1, <3>3 DEF CurrentOK
  <2>5. CentralOK(fin)'
    <3>1. Base(fin)' = Base(fin)
      BY <1>1 DEF Base, HeaderCount, TailStages
    <3> QED BY <1>1, <1>4, <3>1 DEF Story, CentralOK, TailStages
  <2>6. Shown(fin)' /\ DigestOK(fin)'
    BY <1>1, <1>4 DEF Story, Shown, DigestOK, LeadCount
  <2> QED BY <2>1, <2>2, <2>3, <2>4, <2>5, <2>6 DEF Story
<1>15. \E Q : \E s \in Seq(Runs(Q)) : Story(s)'
  BY <1>4, <1>14
<1>16. declared' = StreamLen(format', files')
  BY <1>1, <1>5
<1> QED BY <1>1, <1>5, <1>6, <1>8, <1>9, <1>12, <1>13, <1>15, <1>16, Concludes

\* The next file begins, or the central directory does.
LEMMA DescriptorNextKeeps ==
  ASSUME StreamInv, DescriptorEnds, out' = "open", cursor' = [part |-> cursor'.part, pos |-> 0],
         \/ /\ index < Len(files) /\ stage' = "header" /\ index' = index + 1 /\ start' = start
            /\ cursor'.part = MakeLocalHeader(files'[index + 1])
         \/ /\ index = Len(files) /\ stage' = "central" /\ index' = 1 /\ start' = written
            /\ cursor'.part = MakeCentralHeader(files'[1])
  PROVE  StreamInv'
<1> DEFINE n == Len(files)
<1>1. /\ out = "open" /\ stage = "descriptor" /\ disk' = disk /\ offered' = offered
      /\ format' = format /\ declared' = declared /\ sent' = sent /\ written' = written
      /\ digest' = digest /\ cursor'.pos = 0 /\ Remaining = 0
  BY DEF DescriptorEnds, Ended, Outer, diskVars
<1>2. /\ EncoderTypes /\ PartOK /\ CountsOK /\ AmountsOK /\ DataOK /\ ListOK(files)
      /\ n \in Nat \ {0}
  BY <1>1, OpenFacts
<1>3. PICK P : \E fin \in Seq(Runs(P)) : Story(fin)
  BY <1>1, OpenFacts
<1>4. PICK fin \in Seq(Runs(P)) : Story(fin)
  BY <1>3
<1>5. /\ files' # <<>> /\ ListOK(files)' /\ Len(files') = n /\ index \in 1..n
      /\ \A i \in 1..n :
           /\ files'[i].file = files[i].file /\ files'[i].name = files[i].name
           /\ files'[i].size = files[i].size
           /\ files'[i].crc = IF i = index THEN cursor.part.crc ELSE files[i].crc
      /\ \A i \in 0..(index - 1) : LocalLen(files', i) = LocalLen(files, i)
      /\ LocalLen(files', index) = written
      /\ declared = StreamLen(format, files') /\ SizesOK(disk, files')
      /\ \A i \in 1..n : i <= index + 1 => files'[i].offset = LocalLen(files', i - 1) % U32
      /\ \A i \in 1..index : /\ files'[i].size <= files'[i].crc.amount
                             /\ files'[i].crc.amount <= disk[files'[i].file].length
  BY DescriptorFacts
<1>6. /\ LeadOK(fin) /\ DigestOK(fin) /\ CentralOK(fin) /\ FilesOK(fin) /\ CurrentOK(fin)
      /\ LengthOK(fin) /\ Shown(fin)
  BY <1>4 DEF Story
<1>7. cursor.part.kind = "descriptor" /\ cursor.part.length = 16
      /\ cursor.part.crc.amount \in Nat
  <2>1. /\ cursor.part = MakeDataDescriptor(Crc(files[index].file, cursor.part.crc.amount))
        /\ cursor.part.crc.amount \in Nat
    BY <1>1, <1>2 DEF PartOK
  <2>2. \A c : MakeDataDescriptor(c).kind = "descriptor" /\ MakeDataDescriptor(c).length = 16
    BY PartFacts
  <2> QED BY <2>1, <2>2, Zenon
<1>8. /\ \E Q : sent \in Seq(Runs(Q))
      /\ Len(fin) \in Nat /\ Extends(sent, fin) /\ Len(sent) = Len(fin) + 1
      /\ sent[Len(fin) + 1] = [part |-> cursor.part, n |-> 16]
      /\ ZipLen(sent, Len(sent)) = ZipIs + 16
      /\ AllLen(sent, Len(sent)) = (LeadLen + ZipIs) + 16
  BY <1>1, <1>4, <1>7, PartEnds DEF LeadStages
<1>9. /\ index' \in 1..n /\ index' \in Nat /\ files'[index'].name \in Nat
  <2>1. index' \in 1..n /\ index' \in Nat
    <3>1. CASE index < n /\ index' = index + 1
      BY <1>2, <1>5, <3>1
    <3>2. CASE index' = 1
      BY <1>2, <3>2
    <3> QED BY <3>1, <3>2
  <2>2. \A i \in 1..n : files'[i].name \in Nat
    BY <1>2, <1>5, InfoFacts
  <2> QED BY <2>1, <2>2
<1>10. EncoderTypes'
  <2>1. stage' \in Stages /\ stage' \in FileStages \cup {"central"}
    BY DEF Stages, FileStages
  <2>2. start' \in Nat
    BY <1>2 DEF EncoderTypes
  <2> QED BY <1>1, <1>2, <1>5, <1>9, <2>1, <2>2 DEF EncoderTypes
<1>11. Sent' = index
  <2>1. \A i \in Nat : (i + 1) - 1 = i
    OBVIOUS
  <2>2. index \in Nat
    BY <1>2, <1>5
  <2> QED BY <1>5, <2>1, <2>2 DEF Sent, FileStages, TailStages
<1>12. OffsetsOK'
  BY <1>5, <1>11 DEF OffsetsOK
<1>13. PartOK'
  <2>1. CASE stage' = "header"
    BY <1>1, <1>9, <2>1, PartFacts DEF PartOK, LeadStages
  <2>2. CASE stage' = "central"
    BY <1>1, <1>9, <2>2, PartFacts DEF PartOK, LeadStages
  <2> QED BY <2>1, <2>2
<1>14. ZipIs' = written /\ written \in Nat
  <2>0. written \in Nat
    BY <1>2 DEF EncoderTypes
  <2>1. CASE stage' = "header"
    <3>1. index' - 1 = index
      BY <1>2, <1>5, <2>1
    <3>2. ZipIs' = LocalLen(files', index' - 1)
      BY <2>1 DEF ZipIs, LeadStages
    <3> QED BY <1>5, <2>0, <3>1, <3>2
  <2>2. CASE stage' = "central"
    <3>1. ZipIs' = LocalLen(files', Len(files')) + CentralLen(files', index' - 1)
      BY <2>2 DEF ZipIs, LeadStages
    <3>2. CentralLen(files', 0) = 0
      BY SumZero DEF CentralLen
    <3>3. index' - 1 = 0
      BY <2>2
    <3> QED BY <1>5, <2>0, <2>2, <3>1, <3>2, <3>3
  <2> QED BY <2>1, <2>2
<1>15. CountsOK'
  <2>1. stage' \in TailStages => start' = LocalLen(files', Len(files'))
    BY <1>5 DEF TailStages
  <2>2. written' = ZipIs' + 0
    BY <1>1, <1>14
  <2> QED BY <1>1, <2>1, <2>2 DEF CountsOK
<1>16. written = ZipIs + 16 /\ ZipIs \in Nat
  <2>1. cursor.pos = 16
    <3>1. Remaining = cursor.part.length - cursor.pos /\ cursor.pos \in Nat
      BY <1>1, <1>2 DEF Remaining, EncoderTypes
    <3> QED BY <1>1, <1>7, <3>1
  <2> QED BY <1>1, <1>2, <2>1, ZipIsNat DEF CountsOK, ZipStages
<1>17. FilesAgree'
  <2>1. AmountsOK'
    BY <1>1, <1>5, <1>11 DEF AmountsOK
  <2>2. DataOK'
    BY DEF DataOK
  <2> QED BY <1>1, <1>5, <2>1, <2>2 DEF FilesAgree, SizesOK
<1>18. LeadOK(sent)'
  <2>0. LeadCount' = LeadCount /\ \A j : LeadPart(j)' = LeadPart(j)
    BY <1>1 DEF LeadCount, LeadPart
  <2>1. stage \notin LeadStages /\ stage' \notin LeadStages \cup {"init"} /\ LeadCount \in Nat
    BY <1>1 DEF LeadStages, LeadCount
  <2>2. /\ \A j \in 1 .. Len(sent) :
             IF j <= LeadCount THEN sent[j] = [part |-> LeadPart(j), n |-> LeadPart(j).length]
             ELSE sent[j].part.kind \notin LeadStages
        /\ Len(sent) >= LeadCount
    <3>1. sent[Len(fin) + 1].part.kind \notin LeadStages /\ Len(sent) \in Nat
      BY <1>7, <1>8 DEF LeadStages
    <3> QED BY <1>6, <1>8, <2>1, <3>1, ZipRunsStay
  <2> QED BY <1>1, <2>0, <2>1, <2>2 DEF LeadOK, LeadStages
<1>19. LengthOK(sent)'
  <2>1. LeadLen' = LeadLen
    BY <1>1 DEF LeadLen, WrapperLen
  <2>2. LeadLen \in Nat
    BY DEF LeadLen, WrapperLen
  <2>3. ZipLen(sent, Len(sent)) = ZipIs' /\ AllLen(sent, Len(sent)) = LeadLen' + ZipIs'
    <3>1. (LeadLen + ZipIs) + 16 = LeadLen + (ZipIs + 16)
      <4>1. \A a, b \in Nat : (a + b) + 16 = a + (b + 16)
        OBVIOUS
      <4> QED BY <1>16, <2>2, <4>1
    <3> QED BY <1>8, <1>14, <1>16, <2>1, <3>1
  <2> QED BY <1>1, <2>3 DEF LengthOK
<1>20. FilesOK(sent)'
  <2> SUFFICES ASSUME NEW i \in 1..index
               PROVE  \E k \in 1..Len(sent) : /\ FileRuns(sent, k, files'[i])
                                              /\ ZipLen(sent, k - 1) = LocalLen(files', i - 1)
    BY <1>1, <1>11 DEF FilesOK
  <2>1. i \in 1..n /\ i - 1 \in 0..(index - 1)
    BY <1>2, <1>5
  <2>2. LocalLen(files', i - 1) = LocalLen(files, i - 1) /\ files'[i].file = files[i].file
    BY <1>5, <2>1
  <2>3. CASE i # index
    <3>1. i \in 1..Sent /\ Sent \in 0..n
      BY <1>1, <1>2, <1>5, <2>3 DEF Sent, FileStages
    <3>2. PICK k \in 1..Len(sent) :
            FileRuns(sent, k, files[i]) /\ ZipLen(sent, k - 1) = LocalLen(files, i - 1)
      <4>1. Len(sent) \in Nat
        BY <1>8
      <4>2. \A j \in 1..Sent : \E k \in 1..Len(sent) :
              FileRuns(sent, k, files[j]) /\ ZipLen(sent, k - 1) = LocalLen(files, j - 1)
        BY <1>2, <1>6, <1>8, <3>1, <4>1, FilesStay
      <4> QED BY <3>1, <4>2
    <3>3. files'[i].crc = files[i].crc
      BY <1>5, <2>1, <2>3
    <3>4. FileRuns(sent, k, files'[i])
      BY <2>2, <3>2, <3>3, FileRunsSame
    <3> QED BY <2>2, <3>2, <3>4
  <2>4. CASE i = index
    <3> DEFINE amount == cursor.part.crc.amount
    <3>1. PICK k \in 1..Len(fin) :
            /\ ZipLen(fin, k - 1) = LocalLen(files, index - 1)
            /\ LocalAt(fin, k, files[index]) /\ DataAt(fin, k, files[index], amount)
            /\ Len(fin) + 1 = After(k, amount)
      BY <1>1, <1>6 DEF CurrentOK
    <3>2. /\ k - 1 \in 0..Len(fin) /\ k \in 1..Len(sent)
          /\ amount > 0 => k + 1 \in 1..Len(fin)
      <4>1. k - 1 \in 0..Len(fin) /\ k \in 1..Len(sent)
        BY <1>8
      <4>2. ASSUME amount > 0
            PROVE  k + 1 \in 1..Len(fin)
        <5>1. amount # 0
          BY <1>7, <4>2
        <5>2. Len(fin) + 1 = k + 2
          BY <3>1, <5>1 DEF After
        <5> QED BY <1>8, <5>2
      <4> QED BY <4>1, <4>2
    <3>3. /\ ZipLen(sent, k - 1) = LocalLen(files, index - 1) /\ sent[k] = fin[k]
          /\ amount > 0 => sent[k + 1] = fin[k + 1]
      BY <1>8, <3>1, <3>2 DEF Extends
    <3>4. files'[index].crc = cursor.part.crc
      BY <1>5
    <3>5. LocalAt(sent, k, files'[index])
      BY <2>2, <2>4, <3>1, <3>3 DEF LocalAt
    <3>6. DataAt(sent, k, files'[index], amount)
      BY <2>2, <2>4, <3>1, <3>3, <3>5 DEF DataAt
    <3>7. LET d == After(k, amount)
          IN  d <= Len(sent) /\ sent[d] = [part |-> cursor.part, n |-> 16]
      BY <1>8, <3>1
    <3>8. FileRuns(sent, k, files'[index])
      BY <1>7, <3>4, <3>6, <3>7 DEF FileRuns
    <3> QED BY <2>2, <2>4, <3>2, <3>3, <3>8
  <2> QED BY <2>3, <2>4
<1>21. CurrentOK(sent)'
  BY DEF CurrentOK
<1>22. CentralOK(sent)'
  <2>0. HeaderCount' = 0
    BY <1>2 DEF HeaderCount, TailStages
  <2>1. Base(fin) = Len(fin) /\ Base(sent)' = Len(sent)
    BY <1>1, <1>8, <2>0 DEF Base, HeaderCount, TailStages
  <2>2. \A k \in 1..Len(sent) : sent[k].part.kind \notin {"central", "end", "crc"}
    <3> SUFFICES ASSUME NEW k \in 1..Len(sent)
                 PROVE  sent[k].part.kind \notin {"central", "end", "crc"}
      OBVIOUS
    <3>1. CASE k \in 1..Len(fin)
      BY <1>6, <1>8, <2>1, <3>1 DEF CentralOK, Extends
    <3>2. CASE k \notin 1..Len(fin)
      <4>1. k = Len(fin) + 1
        BY <1>8, <3>2
      <4> QED BY <1>7, <1>8, <4>1
    <3> QED BY <3>1, <3>2
  <2>3. stage' \in TailStages => ZipLen(sent, Len(sent)) = LocalLen(files', Len(files'))
    BY <1>5, <1>8, <1>16 DEF TailStages
  <2>4. Len(sent) >= 0 /\ stage' \notin {"done", "crc"}
    BY <1>8
  <2> QED BY <1>1, <2>0, <2>1, <2>2, <2>3, <2>4 DEF CentralOK
<1>23. DigestOK(sent)'
  BY <1>1, <1>6 DEF DigestOK, LeadCount
<1>24. Shown(sent)'
  <2>1. sent[Len(sent)].part.kind = "descriptor"
    BY <1>7, <1>8
  <2>2. cursor'.part.kind # "descriptor"
    BY PartFacts
  <2> QED BY <1>1, <2>1, <2>2 DEF Shown
<1>25. Story(sent)'
  BY <1>18, <1>19, <1>20, <1>21, <1>22, <1>23, <1>24 DEF Story
<1>26. \E Q : \E s \in Seq(Runs(Q)) : Story(s)'
  <2>1. PICK Q : sent \in Seq(Runs(Q))
    BY <1>8
  <2>2. PICK s : s = sent
    OBVIOUS
  <2>3. Story(s)'
    <3>1. s = sent'
      BY <1>1, <2>2
    <3> QED BY <1>25, <3>1 DEF Story, LeadOK, LengthOK, FilesOK, CurrentOK, CentralOK, Shown,
                              DigestOK, Base
  <2> QED BY <2>1, <2>2, <2>3
<1>27. declared' = StreamLen(format', files')
  BY <1>1, <1>5
<1> QED BY <1>1, <1>5, <1>10, <1>12, <1>13, <1>15, <1>17, <1>26, <1>27, Concludes

\* DescriptorEnds.
LEMMA DescriptorKeeps ==
  ASSUME StreamInv, DescriptorEnds
  PROVE  StreamInv'
<1>1. /\ out = "open" /\ files' = Completed(cursor.part.crc)
      /\ \/ /\ index < Len(files) /\ NewLocalFiles(index + 1, files') /\ start' = start
         \/ /\ index = Len(files) /\ Goto("central", MakeCentralHeader(files'[1]))
            /\ index' = 1 /\ start' = written /\ out' = out
  BY DEF DescriptorEnds, Ended
<1>2. CASE out' = "failed" /\ UNCHANGED <<stage, cursor, index>> /\ start' = start
  BY <1>2, DescriptorFailKeeps
<1>3. CASE index = Len(files) /\ Goto("central", MakeCentralHeader(files'[1]))
           /\ index' = 1 /\ start' = written /\ out' = out
  BY <1>1, <1>3, DescriptorNextKeeps DEF Goto
<1>4. CASE /\ index < Len(files) /\ start' = start /\ index' = index + 1 /\ out' = out
           /\ Goto("header", MakeLocalHeader(files'[index + 1]))
  BY <1>1, <1>4, DescriptorNextKeeps DEF Goto
<1> QED BY <1>1, <1>2, <1>3, <1>4 DEF NewLocalFiles

-----------------------------------------------------------------------------
(* Behind the files.                                                       *)

\* The central directory, the end record and the CRC of a chunk.
LEMMA TailStepKeeps ==
  ASSUME StreamInv, HandsOver, start' = start,
         \/ /\ stage = "central" /\ stage' = "central" /\ index < Len(files)
            /\ index' = index + 1 /\ cursor'.part = MakeCentralHeader(files[index + 1])
         \/ /\ stage = "central" /\ stage' = "end" /\ index = Len(files) /\ index' = index
            /\ cursor'.part = MakeEndOfCentralDirectory(Len(files), written - start, start)
         \/ stage = "end" /\ stage' = "done" /\ index' = index /\ cursor'.part = NoPart
         \/ /\ stage = "done" /\ stage' = "crc" /\ index' = index /\ format \notin Zips
            /\ cursor'.part = CrcBytes(digest)
  PROVE  StreamInv'
<1> DEFINE pos == cursor.pos
           n == Len(files)
<1>2. /\ disk' = disk /\ offered' = offered /\ format' = format /\ declared' = declared
      /\ sent' = sent /\ written' = written /\ digest' = digest /\ files' = files
      /\ cursor'.pos = 0 /\ LeadCount' = LeadCount /\ LeadCount \in {0, 2, 3}
      /\ format \in Formats /\ \A j : LeadPart(j)' = LeadPart(j)
  BY HandsOverFacts
<1>3. /\ EncoderTypes /\ OffsetsOK /\ PartOK /\ CountsOK /\ AmountsOK /\ DataOK /\ ListOK(files)
      /\ n \in Nat \ {0} /\ pos \in Nat
      /\ \E P : \E fin \in Seq(Runs(P)) : Story(fin)
  BY OpenFacts DEF HandsOver
<1>4. PICK P : \E fin \in Seq(Runs(P)) : Story(fin)
  BY <1>3
<1>5. PICK fin \in Seq(Runs(P)) : Story(fin)
  BY <1>4
<1>6. /\ LeadOK(fin) /\ DigestOK(fin) /\ CentralOK(fin) /\ FilesOK(fin)
      /\ LengthOK(fin) /\ Shown(fin)
  BY <1>5 DEF Story
<1>7. /\ stage = "central" => /\ index \in 1..n /\ files[index].name \in Nat
      /\ stage' = "central" => /\ index' \in 1..n /\ files[index'].name \in Nat
  <2>1. stage = "central" => index \in 1..n
    BY <1>3 DEF EncoderTypes
  <2>2. stage' = "central" => index' \in 1..n
    BY <1>3, <2>1
  <2> QED BY <1>3, <2>1, <2>2, InfoFacts
<1>8. /\ stage = "central" => /\ cursor.part = MakeCentralHeader(files[index])
                              /\ cursor.part.kind = "central"
                              /\ cursor.part.length = 46 + files[index].name
                              /\ cursor.part.file = files[index].file
      /\ stage = "end" => /\ cursor.part = EndPart(files) /\ cursor.part.kind = "end"
                          /\ cursor.part.length = 22
      /\ stage = "done" => cursor.part.kind = "none"
  <2>1. CASE stage = "central"
    <3>1. cursor.part = MakeCentralHeader(files[index]) /\ files[index].name \in Nat
      BY <1>3, <1>7, <2>1 DEF PartOK
    <3>2. \A info : /\ MakeCentralHeader(info).kind = "central"
                    /\ MakeCentralHeader(info).file = info.file
                    /\ info.name \in Nat => MakeCentralHeader(info).length = 46 + info.name
      BY PartFacts
    <3>3. /\ cursor.part.kind = "central" /\ cursor.part.length = 46 + files[index].name
          /\ cursor.part.file = files[index].file
      BY <3>1, <3>2
    <3> QED BY <2>1, <3>1, <3>3
  <2>2. CASE stage = "end"
    <3>1. cursor.part = EndPart(files)
      BY <1>3, <2>2 DEF PartOK
    <3>2. EndPart(files).kind = "end" /\ EndPart(files).length = 22
      BY PartFacts DEF EndPart
    <3> QED BY <2>2, <3>1, <3>2
  <2>3. CASE stage = "done"
    BY <1>3, <2>3, PartFacts DEF PartOK
  <2> QED BY <2>1, <2>2, <2>3
<1>9. /\ \E Q : sent \in Seq(Runs(Q))
      /\ Len(fin) \in Nat /\ Extends(sent, fin)
      /\ Len(sent) = Len(fin) + (IF pos = 0 THEN 0 ELSE 1)
      /\ pos # 0 => sent[Len(fin) + 1] = [part |-> cursor.part, n |-> pos]
      /\ ZipLen(sent, Len(sent)) = ZipIs + pos
      /\ AllLen(sent, Len(sent)) = (LeadLen + ZipIs) + pos
      /\ stage \in {"init", "done"} => pos = 0
      /\ stage \notin {"init", "done", "data"} => pos = cursor.part.length /\ pos # 0
  <2>1. cursor.part.kind \notin LeadStages
    BY <1>8 DEF LeadStages
  <2> QED BY <1>5, <2>1, PartEnds DEF HandsOver
<1>10. /\ stage = "done" => sent = fin
       /\ stage # "done" => /\ Len(sent) = Len(fin) + 1
                            /\ sent[Len(fin) + 1] = [part |-> cursor.part, n |-> cursor.part.length]
  BY <1>6, <1>9 DEF Shown
<1>11. Len(sent) \in Nat /\ (Len(sent) = Len(fin) \/ Len(sent) = Len(fin) + 1)
       /\ Len(sent) >= Len(fin)
  BY <1>9, <1>10
<1>12. EncoderTypes'
  <2>1. stage' \in Stages
    BY DEF Stages
  <2>2. index' \in Nat
    BY <1>3 DEF EncoderTypes
  <2>3. stage' \in FileStages \cup {"central"} => index' \in 1..n
    BY <1>7 DEF FileStages
  <2> QED BY <1>2, <1>3, <2>1, <2>2, <2>3 DEF EncoderTypes, ListOK, HandsOver
<1>13. Sent' = n /\ Sent = n
  BY <1>2 DEF Sent, FileStages, TailStages
<1>14. OffsetsOK' /\ AmountsOK' /\ DataOK'
  BY <1>2, <1>3, <1>13 DEF OffsetsOK, AmountsOK, DataOK
<1>15. ZipIs \in Nat
  BY <1>3, ZipIsNat
<1>16. /\ LocalLen(files, n) \in Nat /\ CentralLen(files, n) \in Nat
       /\ stage = "central" => /\ CentralLen(files, index - 1) \in Nat
                               /\ CentralLen(files, index)
                                    = CentralLen(files, index - 1) + (46 + files[index].name)
  <2>1. n \in 0..n /\ (stage = "central" => index - 1 \in 0..n)
    BY <1>3, <1>7
  <2> QED BY <1>3, <1>7, <2>1, LenFacts
<1>17. ZipIs' = ZipIs + pos
  <2>1. CASE stage = "central"
    <3>1. ZipIs = LocalLen(files, n) + CentralLen(files, index - 1)
      BY <2>1 DEF ZipIs, LeadStages
    <3>2. ZipIs' = LocalLen(files, n) + CentralLen(files, index)
      <4>1. CASE stage' = "central"
        <5>1. index' - 1 = index
          BY <1>3, <1>7, <2>1, <4>1
        <5>2. ZipIs' = LocalLen(files, n) + CentralLen(files, index' - 1)
          BY <1>2, <4>1 DEF ZipIs, LeadStages
        <5> QED BY <5>1, <5>2
      <4>2. CASE stage' = "end"
        BY <1>2, <2>1, <4>2 DEF ZipIs, LeadStages
      <4> QED BY <2>1, <4>1, <4>2
    <3>3. pos = 46 + files[index].name
      BY <1>8, <1>9, <2>1
    <3>4. \A a, b, c \in Nat : a + (b + c) = (a + b) + c
      OBVIOUS
    <3>5. 46 + files[index].name \in Nat
      BY <1>7, <2>1
    <3> QED BY <1>16, <2>1, <3>1, <3>2, <3>3, <3>4, <3>5
  <2>2. CASE stage = "end"
    <3>1. ZipIs = LocalLen(files, n) + CentralLen(files, n) /\ pos = 22
          /\ ZipIs' = LocalLen(files, n) + CentralLen(files, n) + 22
      BY <1>2, <1>8, <1>9, <2>2 DEF ZipIs, LeadStages
    <3> QED BY <3>1
  <2>3. CASE stage = "done"
    <3>1. ZipIs' = ZipIs /\ pos = 0
      BY <1>2, <1>9, <2>3 DEF ZipIs, LeadStages
    <3> QED BY <1>15, <3>1
  <2> QED BY <2>1, <2>2, <2>3
<1>18. CountsOK'
  <2>1. written = ZipIs + pos
    BY <1>3, <1>9, <1>15 DEF CountsOK, ZipStages
  <2>2. written' = ZipIs' + 0
    BY <1>2, <1>3, <1>15, <1>17, <2>1
  <2>3. start' = LocalLen(files', Len(files'))
    BY <1>2, <1>3 DEF CountsOK, TailStages
  <2> QED BY <1>2, <2>2, <2>3 DEF CountsOK
<1>19. PartOK'
  <2>1. CASE stage' = "central"
    BY <1>2, <1>7, <2>1, PartFacts DEF PartOK, LeadStages
  <2>2. CASE stage' = "end"
    <3>1. start = LocalLen(files, n)
      BY <1>3, <2>2 DEF CountsOK, TailStages
    <3>2. written = LocalLen(files, n) + CentralLen(files, n)
      <4>1. ZipIs' = LocalLen(files, n) + CentralLen(files, n)
        BY <1>2, <2>2 DEF ZipIs, LeadStages
      <4>2. written = ZipIs + pos
        BY <1>3, <2>2 DEF CountsOK, ZipStages
      <4> QED BY <1>17, <4>1, <4>2
    <3>3. written - start = CentralLen(files, n)
      BY <1>16, <3>1, <3>2
    <3>4. cursor'.part = EndPart(files)
      BY <2>2, <3>1, <3>3 DEF EndPart
    <3>5. cursor'.part = EndPart(files')
      BY <1>2, <3>4
    <3>6. EndPart(files)' = EndPart(files')
      BY DEF EndPart, CentralLen, LocalLen, CentralSizes, LocalSizes, MakeEndOfCentralDirectory
    <3> QED BY <1>2, <2>2, <3>4, <3>5, <3>6, PartFacts DEF PartOK, LeadStages, EndPart
  <2>3. CASE stage' \in {"done", "crc"}
    BY <1>2, <2>3, PartFacts DEF PartOK, LeadStages
  <2> QED BY <2>1, <2>2, <2>3
<1>20. LeadOK(sent)'
  <2>1. stage \notin LeadStages /\ stage' \notin LeadStages \cup {"init"} /\ LeadCount \in Nat
    BY <1>2 DEF LeadStages
  <2>2. /\ \A j \in 1 .. Len(sent) :
             IF j <= LeadCount THEN sent[j] = [part |-> LeadPart(j), n |-> LeadPart(j).length]
             ELSE sent[j].part.kind \notin LeadStages
        /\ Len(sent) >= LeadCount
    <3>1. \/ Len(sent) = Len(fin)
          \/ Len(sent) = Len(fin) + 1 /\ sent[Len(fin) + 1].part.kind \notin LeadStages
      <4>1. stage # "done" => sent[Len(fin) + 1].part.kind \in {"central", "end"}
        BY <1>8, <1>10
      <4> QED BY <1>10, <4>1 DEF LeadStages
    <3> QED BY <1>6, <1>9, <1>11, <2>1, <3>1, ZipRunsStay
  <2> QED BY <1>2, <2>1, <2>2 DEF LeadOK, LeadStages
<1>21. LengthOK(sent)'
  <2>1. LeadLen' = LeadLen
    BY <1>2 DEF LeadLen, WrapperLen
  <2>2. LeadLen \in Nat
    BY DEF LeadLen, WrapperLen
  <2>3. (LeadLen + ZipIs) + pos = LeadLen + (ZipIs + pos)
    <3>1. \A a, b, c \in Nat : (a + b) + c = a + (b + c)
      OBVIOUS
    <3> QED BY <1>3, <1>15, <2>2, <3>1
  <2> QED BY <1>2, <1>9, <1>17, <2>1, <2>3 DEF LengthOK
<1>22. FilesOK(sent)' /\ CurrentOK(sent)'
  <2>1. Sent \in 0..n
    BY <1>3, <1>13
  <2>2. \A i \in 1..Sent : \E k \in 1..Len(sent) :
          FileRuns(sent, k, files[i]) /\ ZipLen(sent, k - 1) = LocalLen(files, i - 1)
    BY <1>3, <1>6, <1>9, <1>11, <2>1, FilesStay
  <2> QED BY <1>2, <1>13, <2>2 DEF FilesOK, CurrentOK
<1>23. CentralOK(sent)'
  <2> DEFINE b == Base(fin)
  <2>1. /\ stage = "central" => HeaderCount = index - 1 /\ HeaderCount' = index
        /\ stage # "central" => HeaderCount = n /\ HeaderCount' = n
    <3>1. CASE stage' = "central"
      BY <1>2, <1>3, <1>7, <3>1 DEF HeaderCount, TailStages
    <3>2. CASE stage' # "central"
      BY <1>2, <1>3, <3>2 DEF HeaderCount, TailStages
    <3> QED BY <3>1, <3>2
  <2>2. HeaderCount \in Nat /\ HeaderCount' \in Nat
    BY <1>3, <1>7, <2>1
  <2>3. /\ stage \in {"central", "end"} => Len(fin) = b + HeaderCount
        /\ stage = "done" => Len(fin) = b + HeaderCount + 1
        /\ b \in Nat /\ b <= Len(fin)
    <3>1. b >= 0 /\ b = Len(fin) - HeaderCount - (IF stage \in {"done", "crc"} THEN 1 ELSE 0)
      BY <1>6 DEF CentralOK, TailStages, Base
    <3> HIDE DEF b
    <3> QED BY <1>9, <2>2, <3>1
  <2>4. Base(sent)' = b
    <3>1. Base(sent)' = Len(sent) - HeaderCount' - (IF stage' \in {"done", "crc"} THEN 1 ELSE 0)
      BY <1>2 DEF Base
    <3> HIDE DEF b
    <3>2. CASE stage = "central"
      <4>1. /\ Len(sent) = Len(fin) + 1 /\ HeaderCount' = HeaderCount + 1
            /\ stage' \notin {"done", "crc"}
        BY <1>3, <1>7, <1>10, <2>1, <3>2
      <4> QED BY <1>9, <2>2, <2>3, <3>1, <3>2, <4>1
    <3>3. CASE stage = "end"
      <4>1. Len(sent) = Len(fin) + 1 /\ HeaderCount' = HeaderCount /\ stage' = "done"
        BY <1>10, <2>1, <3>3
      <4> QED BY <1>9, <2>2, <2>3, <3>1, <3>3, <4>1
    <3>4. CASE stage = "done"
      <4>1. Len(sent) = Len(fin) /\ HeaderCount' = HeaderCount /\ stage' = "crc"
        BY <1>10, <2>1, <3>4
      <4> QED BY <1>9, <2>2, <2>3, <3>1, <3>4, <4>1
    <3> QED BY <3>2, <3>3, <3>4
  <2>5. /\ \A k \in 1..b : fin[k].part.kind \notin {"central", "end", "crc"}
        /\ ZipLen(fin, b) = LocalLen(files, n)
        /\ \A i \in 1..HeaderCount : fin[b + i] = CentralRun(files[i])
        /\ stage = "done" => fin[Len(fin)] = [part |-> EndPart(files), n |-> 22]
    BY <1>6 DEF CentralOK, TailStages
  <2> HIDE DEF b
  <2>6. \A k \in 1..b : sent[k].part.kind \notin {"central", "end", "crc"}
    <3>1. \A k \in 1..b : k \in 1..Len(fin)
      BY <1>9, <2>3
    <3> QED BY <1>9, <2>5, <3>1 DEF Extends
  <2>7. ZipLen(sent, b) = LocalLen(files, n)
    <3>1. b \in 0..Len(fin)
      BY <1>9, <2>3
    <3> QED BY <1>9, <2>5, <3>1 DEF Extends
  <2>8. ASSUME NEW i \in 1..HeaderCount'
        PROVE  sent[b + i] = CentralRun(files[i])
    <3>1. CASE i \in 1..HeaderCount
      <4>1. b + i \in 1..Len(fin)
        BY <1>9, <2>2, <2>3, <3>1
      <4> QED BY <1>9, <2>5, <3>1, <4>1 DEF Extends
    <3>2. CASE i \notin 1..HeaderCount
      <4>1. stage = "central" /\ i = index /\ b + i = Len(fin) + 1
        <5>1. stage = "central"
          BY <2>1, <3>2
        <5>2. i = index
          BY <1>3, <1>7, <2>1, <3>2, <5>1
        <5>3. PICK len \in Nat : len = Len(fin)
          BY <1>9
        <5>4. len = b + HeaderCount /\ HeaderCount = index - 1 /\ index \in Nat
          BY <1>3, <1>7, <2>1, <2>3, <5>1, <5>3
        <5>5. b + index = len + 1
          BY <2>3, <5>4
        <5> QED BY <5>1, <5>2, <5>3, <5>5
      <4>2. sent[b + i] = [part |-> MakeCentralHeader(files[index]), n |-> 46 + files[index].name]
        BY <1>8, <1>10, <4>1
      <4> QED BY <4>1, <4>2 DEF CentralRun
    <3> QED BY <3>1, <3>2
  <2>9. stage' \in {"done", "crc"} => sent[Len(sent)] = [part |-> EndPart(files), n |-> 22]
    <3>1. CASE stage = "end"
      BY <1>8, <1>10, <3>1
    <3>2. CASE stage = "done"
      BY <1>10, <2>5, <3>2
    <3> QED BY <3>1, <3>2
  <2>10. \A i \in 1..HeaderCount' : sent[b + i] = CentralRun(files[i])
    BY <2>8
  <2>11. b >= 0
    BY <2>3
  <2>12. EndPart(files)' = EndPart(files) /\ \A i : CentralRun(files[i])' = CentralRun(files[i])
    BY <1>2
  <2> QED BY <1>2, <2>4, <2>6, <2>7, <2>9, <2>10, <2>11, <2>12 DEF CentralOK
<1>24. DigestOK(sent)'
  BY <1>2, <1>6, <1>10 DEF DigestOK
<1>25. sent # <<>> => sent[Len(sent)].part # cursor'.part
  <2>1. CASE stage \in {"central", "end"}
    <3>0. sent[Len(sent)].part = cursor.part
      BY <1>10, <2>1
    <3>1. CASE stage' = "central"
      <4>1. index + 1 \in 1..n /\ index \in 1..n /\ index # index + 1
        BY <1>3, <1>7, <3>1
      <4>2. files[index].file # files[index + 1].file
        BY <1>3, <4>1 DEF ListOK
      <4>3. cursor'.part.file = files[index + 1].file /\ cursor.part.file = files[index].file
        BY <1>8, <3>1, PartFacts
      <4> QED BY <3>0, <4>2, <4>3
    <3>2. CASE stage' # "central"
      <4>1. cursor'.part.kind \in {"end", "none"} /\ cursor'.part.kind # cursor.part.kind
        BY <1>8, <2>1, <3>2, PartFacts
      <4> QED BY <3>0, <4>1
    <3> QED BY <3>1, <3>2
  <2>2. CASE stage = "done"
    <3>1. sent[Len(sent)].part = EndPart(files)
      BY <1>6, <1>10, <2>2 DEF CentralOK, TailStages
    <3>2. EndPart(files).kind = "end" /\ cursor'.part.kind = "crc"
      BY <2>2, PartFacts DEF EndPart
    <3> QED BY <3>1, <3>2
  <2> QED BY <2>1, <2>2
<1> QED BY <1>9, <1>12, <1>14, <1>18, <1>19, <1>20, <1>21, <1>22, <1>23, <1>24, <1>25,
           HandsOverFacts

\* CentralEnds, EndEnds and MessageEnds.
LEMMA TailKeeps ==
  ASSUME StreamInv, CentralEnds \/ EndEnds \/ MessageEnds
  PROVE  StreamInv'
<1>1. HandsOver /\ start' = start
  BY DEF CentralEnds, EndEnds, MessageEnds, Ended, Goto, HandsOver
<1>2. \/ /\ stage = "central" /\ stage' = "central" /\ index < Len(files)
         /\ index' = index + 1 /\ cursor'.part = MakeCentralHeader(files[index + 1])
      \/ /\ stage = "central" /\ stage' = "end" /\ index = Len(files) /\ index' = index
         /\ cursor'.part = MakeEndOfCentralDirectory(Len(files), written - start, start)
      \/ stage = "end" /\ stage' = "done" /\ index' = index /\ cursor'.part = NoPart
      \/ /\ stage = "done" /\ stage' = "crc" /\ index' = index /\ format \notin Zips
         /\ cursor'.part = CrcBytes(digest)
  BY DEF CentralEnds, EndEnds, MessageEnds, Ended, Goto
<1> QED BY <1>1, <1>2, TailStepKeeps

-----------------------------------------------------------------------------
(* The theorem.                                                            *)

\* Nothing has been sent at first.
LEMMA StreamInit == Init => StreamInv
<1> SUFFICES ASSUME Init
             PROVE  StreamInv
  OBVIOUS
<1>0. Len(Files) \in Nat
  BY MarStreamAssumption
<1>1. DiskOK
  BY MarStreamAssumption DEF Init, DiskOK
<1>2. <<>> \in Seq(Infos) /\ Len(<<>>) = 0
  OBVIOUS
<1>3. ListOK(<<>>) /\ Fresh(<<>>) /\ SizesOK(disk, <<>>)
  BY <1>0, <1>2 DEF ListOK, Fresh, SizesOK
<1>4. OfferOK
  BY <1>3 DEF Init, OfferOK
<1>5. EncoderTypes
  BY <1>3 DEF Init, EncoderTypes, Formats, Stages, FileStages
<1> QED BY <1>1, <1>4, <1>5 DEF Init, StreamInv, OutOK

\* Every step keeps the invariant.
LEMMA StreamNext == StreamInv /\ [Next]_vars => StreamInv'
<1>1. ASSUME StreamInv, Next
      PROVE  StreamInv'
  BY <1>1, RequestKeeps, RefuseKeeps, StagingKeeps, ReadKeeps, LeadEndsKeep, LocalFileKeeps,
     DescriptorKeeps, TailKeeps, EndKeeps DEF Next
<1>2. ASSUME StreamInv, UNCHANGED vars
      PROVE  StreamInv'
  <2>1. UNCHANGED <<encoderVars, format, declared, sent, out>> /\ disk' = disk /\ offered' = offered
    BY <1>2 DEF vars, diskVars
  <2>2. DiskOK' /\ Grew(disk, disk')
    BY <1>2, <2>1 DEF StreamInv, DiskOK, Grew
  <2> QED BY <1>2, <2>1, <2>2, DiskStepKeeps
<1> QED BY <1>1, <1>2

\* The encoder's story holds in every state.
THEOREM StreamInvariance == Spec => []StreamInv
<1>1. Init => StreamInv
  BY StreamInit
<1>2. StreamInv /\ [Next]_vars => StreamInv'
  BY StreamNext
<1> QED BY <1>1, <1>2, PTL DEF Spec

-----------------------------------------------------------------------------
(* Announced lengths and sent lengths.                                     *)

\* The kind of a part tells which reader produces it.
LEMMA PartKind ==
  ASSUME EncoderTypes, PartOK
  PROVE  /\ cursor.part.kind = "central" => stage = "central"
         /\ cursor.part.kind = "end" => stage = "end"
         /\ cursor.part.kind = "crc" => stage = "crc"
         /\ cursor.part.kind = "wrapper" => stage = "wrapper"
<1>1. CASE stage \in {"header", "data", "init", "done", "chunk", "type"}
  BY <1>1, PartFacts DEF PartOK
<1>2. CASE stage = "descriptor"
  <2>1. cursor.part = MakeDataDescriptor(Crc(files[index].file, cursor.part.crc.amount))
    BY <1>2 DEF PartOK
  <2>2. \A c : MakeDataDescriptor(c).kind = "descriptor"
    BY PartFacts
  <2>3. cursor.part.kind = "descriptor"
    BY <2>1, <2>2, Zenon
  <2> QED BY <2>3
<1>3. CASE stage = "central"
  <2>1. cursor.part.kind = "central"
    BY <1>3, PartFacts DEF PartOK
  <2> QED BY <1>3, <2>1
<1>4. CASE stage = "end"
  <2>1. cursor.part.kind = "end"
    BY <1>4, PartFacts DEF PartOK, EndPart
  <2> QED BY <1>4, <2>1
<1>5. CASE stage = "crc"
  <2>1. cursor.part.kind = "crc"
    BY <1>5, PartFacts DEF PartOK
  <2> QED BY <1>5, <2>1
<1>6. CASE stage = "wrapper"
  <2>1. cursor.part.kind = "wrapper"
    BY <1>6, PartFacts DEF PartOK
  <2> QED BY <1>6, <2>1
<1> QED BY <1>1, <1>2, <1>3, <1>4, <1>5, <1>6 DEF EncoderTypes, Stages

\* A product grows with its second factor.
LEMMA TimesGrows ==
  ASSUME NEW g \in Nat, NEW a \in Nat, NEW b \in Nat, a <= b
  PROVE  g * a <= g * b /\ g * a \in Nat /\ g * b \in Nat
<1>1. PICK d \in Nat : b = a + d
  <2>1. b - a \in Nat /\ b = a + (b - a)
    OBVIOUS
  <2> QED BY <2>1
<1>2. g * b = g * a + g * d
  BY <1>1
<1>3. g * a \in Nat /\ g * d \in Nat
  OBVIOUS
<1> QED BY <1>2, <1>3

\* When all files have been sent, what they and their headers take differs from what was
\* announced by no more than what the files have grown.
LEMMA SentBounds ==
  ASSUME StreamInv, files # <<>>, stage \in TailStages
  PROVE  LET all == LocalLen(files, Len(files)) + CentralLen(files, Len(files)) + 22
         IN  /\ all <= ZipStreamLen(files) + Growth * Len(Files)
             /\ Unchanged => all = ZipStreamLen(files)
<1> DEFINE n == Len(files)
           l == LocalSizes(files)
           c == CentralSizes(files)
           z == ZipSizes(files)
           u == [i \in 1..n |-> l[i] + c[i]]
<1>1. /\ ListOK(files) /\ AmountsOK /\ SizesOK(disk, files) /\ DiskOK /\ n \in Nat
      /\ Growth \in Nat /\ n <= Len(Files) /\ Len(Files) \in Nat
  <2>1. ListOK(files) /\ AmountsOK /\ SizesOK(disk, files) /\ DiskOK
    BY DEF StreamInv, EncoderTypes, FilesAgree
  <2>2. Growth \in Nat /\ Len(Files) \in Nat
    BY MarStreamAssumption
  <2>3. n \in Nat /\ n <= Len(Files)
    BY <2>1, InfoFacts DEF ListOK
  <2> QED BY <2>1, <2>2, <2>3
<1>2. Sent = n
  BY DEF Sent, TailStages, FileStages
<1>3. ASSUME NEW i \in 1..n
      PROVE  /\ l[i] \in Nat /\ c[i] \in Nat /\ z[i] \in Nat /\ u[i] = l[i] + c[i] /\ u[i] \in Nat
             /\ u[i] <= z[i] + Growth
             /\ Unchanged => u[i] = z[i]
  <2> DEFINE name == files[i].name
             size == files[i].size
             amount == files[i].crc.amount
             d == disk[files[i].file]
  <2>1. name \in Nat /\ size \in Nat /\ amount \in Nat /\ files[i].file \in F /\ i \in DOMAIN files
    BY <1>1, InfoFacts
  <2>2. d.length \in Nat
    BY <1>1, <2>1 DEF DiskOK
  <2>3. size <= amount /\ amount <= d.length
    BY <1>1, <1>2 DEF AmountsOK
  <2>4. d.length <= size + Growth
    <3>1. d.length <= size + (IF d.partial THEN 0 ELSE Growth)
      BY <1>1 DEF SizesOK
    <3> HIDE DEF d, size
    <3> QED BY <1>1, <2>1, <2>2, <3>1
  <2>5. l[i] = 46 + name + amount /\ c[i] = 46 + name
    BY <2>1 DEF LocalSizes, CentralSizes
  <2>6. z[i] = (46 + name + size) + (46 + name) /\ z[i] \in Nat
    BY <1>1, ZipStreamLenFacts
  <2>7. Unchanged => size = d.length
    BY <2>1 DEF Unchanged
  <2>8. u[i] = l[i] + c[i]
    OBVIOUS
  <2> HIDE DEF l, c, z, u, name, size, amount, d
  <2> QED BY <1>1, <2>1, <2>2, <2>3, <2>4, <2>5, <2>6, <2>7, <2>8
<1> HIDE DEF l, c, z, u
<1>4. SumTo(u, n) = SumTo(l, n) + SumTo(c, n)
  BY <1>1, <1>3, SumPlus
<1>5. SumTo(u, n) <= SumTo(z, n) + Growth * n
  BY <1>1, <1>3, SumBound
<1>6. Unchanged => SumTo(u, n) = SumTo(z, n)
  BY <1>1, <1>3, SumSame
<1>7. /\ ZipStreamLen(files) = SumTo(z, n) + 22 /\ SumTo(z, n) \in Nat
  BY <1>1, ZipStreamLenFacts DEF z
<1>8. /\ LocalLen(files, n) = SumTo(l, n) /\ CentralLen(files, n) = SumTo(c, n)
      /\ LocalLen(files, n) \in Nat /\ CentralLen(files, n) \in Nat
  <2>1. n \in 0..n
    BY <1>1
  <2> QED BY <1>1, <2>1, LenFacts DEF LocalLen, CentralLen, l, c
<1>9. Growth * n <= Growth * Len(Files) /\ Growth * n \in Nat /\ Growth * Len(Files) \in Nat
  BY <1>1, TimesGrows
<1> HIDE DEF n
<1>10. LocalLen(files, n) + CentralLen(files, n) + 22 = SumTo(u, n) + 22
  BY <1>4, <1>8
<1>11. LocalLen(files, n) + CentralLen(files, n) + 22 <= ZipStreamLen(files) + Growth * Len(Files)
  <2>1. SumTo(u, n) \in Nat
    BY <1>4, <1>8
  <2> QED BY <1>5, <1>7, <1>9, <1>10, <2>1
<1>12. Unchanged => LocalLen(files, n) + CentralLen(files, n) + 22 = ZipStreamLen(files)
  BY <1>6, <1>7, <1>10
<1> QED BY <1>11, <1>12 DEF n

\* In width, offsets and sizes are what they stand for.
LEMMA WidthFacts ==
  ASSUME StreamInv, files # <<>>, stage \in TailStages, InWidth
  PROVE  /\ LocalLen(files, Len(files)) \in Nat /\ CentralLen(files, Len(files)) \in Nat
         /\ LocalLen(files, Len(files)) + CentralLen(files, Len(files)) < U32
         /\ LocalLen(files, Len(files)) % U32 = LocalLen(files, Len(files))
         /\ CentralLen(files, Len(files)) % U32 = CentralLen(files, Len(files))
         /\ \A i \in 1..Len(files) : files[i].offset = LocalLen(files, i - 1)
         /\ \A i \in 1..Len(files) : files[i].crc.amount < U32
<1> DEFINE n == Len(files)
           a == LocalLen(files, n)
           b == CentralLen(files, n)
<1>1. /\ ListOK(files) /\ OffsetsOK /\ n \in Nat /\ format \in Formats /\ declared \in Nat
      /\ declared = StreamLen(format, files)
  BY InfoFacts DEF StreamInv, EncoderTypes, EncoderOK
<1>2. U32 \in Nat \ {0} /\ Growth \in Nat /\ Len(Files) \in Nat /\ Growth * Len(Files) \in Nat
  BY MarStreamAssumption
<1>3. /\ a \in Nat /\ b \in Nat
      /\ \A i \in 0..n : LocalLen(files, i) \in Nat /\ LocalLen(files, i) <= a
  <2>1. n \in 0..n
    BY <1>1
  <2> QED BY <1>1, <2>1, LenFacts
<1>4. a + b + 22 <= ZipStreamLen(files) + Growth * Len(Files)
  BY SentBounds
<1>5. ZipStreamLen(files) <= declared /\ ZipStreamLen(files) \in Nat
  <2>1. ZipStreamLen(files) \in Nat
    BY <1>1, ZipStreamLenFacts
  <2> QED BY <1>1, <2>1, StreamLenFacts DEF Formats, Zips
<1>6. declared + Growth * Len(Files) < U32
  BY DEF InWidth
<1> HIDE DEF a, b, n
<1>7. a + b < U32 /\ a < U32 /\ b < U32
  <2>1. PICK g \in Nat : g = Growth * Len(Files)
    BY <1>2
  <2> QED BY <1>1, <1>2, <1>3, <1>4, <1>5, <1>6, <2>1
<1>8. \A x \in Nat : x < U32 => x % U32 = x
  BY <1>2
<1>9. a % U32 = a /\ b % U32 = b
  BY <1>3, <1>7, <1>8
<1>10. ASSUME NEW i \in 1..n
       PROVE  files[i].offset = LocalLen(files, i - 1)
  <2>1. Sent = n /\ i <= n + 1
    BY <1>1 DEF Sent, TailStages, FileStages, n
  <2>2. files[i].offset = LocalLen(files, i - 1) % U32
    BY <1>1, <2>1 DEF OffsetsOK, n
  <2>3. i - 1 \in 0..n
    BY <1>1
  <2>4. LocalLen(files, i - 1) \in Nat /\ LocalLen(files, i - 1) < U32
    BY <1>2, <1>3, <1>7, <2>3
  <2> QED BY <1>8, <2>2, <2>4
<1>11. ASSUME NEW i \in 1..n
       PROVE  files[i].crc.amount < U32
  <2>1. /\ LocalLen(files, i) = LocalLen(files, i - 1) + (46 + files[i].name + files[i].crc.amount)
        /\ files[i].name \in Nat /\ files[i].crc.amount \in Nat
    BY <1>1, LenFacts, InfoFacts DEF n
  <2>2. i \in 0..n /\ i - 1 \in 0..n
    BY <1>1
  <2>3. LocalLen(files, i) <= a /\ LocalLen(files, i - 1) \in Nat /\ LocalLen(files, i) \in Nat
    BY <1>3, <2>2
  <2>4. \A x, y, m, w \in Nat :
          w = x + (46 + m + y) /\ w <= a /\ a < U32 => y < U32
    BY <1>2, <1>3
  <2> QED BY <1>7, <2>1, <2>3, <2>4
<1> QED BY <1>3, <1>7, <1>9, <1>10, <1>11 DEF a, b, n

-----------------------------------------------------------------------------
(* What the receiver can make of it.                                       *)

\* The receiver's positions are the lengths of the zip.
LEMMA PositionIs == \A k : Position(k) = ZipLen(sent, k - 1)
BY DEF Position, Kind, ZipLen, ZipBytes, LeadStages

\* Every file of the list that has been sent is where its entry says.
LEMMA FileIsThere ==
  ASSUME StreamInv, files # <<>>, stage \in TailStages, InWidth, NEW i \in 1..Len(files)
  PROVE  FileAt(MakeCentralHeader(files[i]), files[i].crc.amount)
<1> DEFINE info == files[i]
           amount == info.crc.amount
           entry == MakeCentralHeader(info)
<1>1. EncoderTypes /\ ListOK(files)
  BY DEF StreamInv, EncoderTypes
<1>2. PICK P : \E fin \in Seq(Runs(P)) : Story(fin)
  BY DEF StreamInv, EncoderOK
<1>3. PICK fin \in Seq(Runs(P)) : Story(fin)
  BY <1>2
<1>4. /\ \E Q : sent \in Seq(Runs(Q))
      /\ Extends(sent, fin)
  BY <1>1, <1>3, SentFacts DEF Story, EncoderTypes
<1>5. Sent = Len(files) /\ Sent \in 0..Len(files) /\ Len(sent) \in Nat /\ DOMAIN sent = 1..Len(sent)
  BY <1>1, <1>4, SentCount DEF Sent, TailStages, FileStages
<1>6. PICK k \in 1..Len(sent) :
        FileRuns(sent, k, info) /\ ZipLen(sent, k - 1) = LocalLen(files, i - 1)
  <2>1. \A j \in 1..Sent : \E k \in 1..Len(sent) :
          FileRuns(sent, k, files[j]) /\ ZipLen(sent, k - 1) = LocalLen(files, j - 1)
    BY <1>1, <1>3, <1>4, <1>5, FilesStay DEF Story
  <2> QED BY <1>5, <2>1
<1>7. entry.file = info.file /\ entry.crc = info.crc /\ entry.offset = info.offset
  BY PartFacts
<1>8. Position(k) = info.offset
  BY <1>6, PositionIs, WidthFacts
<1> DEFINE d == IF amount = 0 THEN k + 1 ELSE k + 2
<1>9. /\ sent[k].part.kind = "local" /\ sent[k].part.file = info.file
      /\ sent[k].n = sent[k].part.length
      /\ amount > 0 => sent[k + 1] = [part |-> Data(info.file), n |-> amount]
      /\ sent[d].part.kind = "descriptor" /\ sent[d].n = sent[d].part.length
      /\ sent[d].part.crc = info.crc
  BY <1>6 DEF FileRuns, DataAt, LocalAt, After
<1> HIDE DEF d, entry, amount
<1>10. /\ Kind(k) = "local" /\ sent[k].part.file = entry.file /\ Whole(k)
       /\ Position(k) = entry.offset
       /\ amount > 0 => sent[k + 1] = [part |-> Data(entry.file), n |-> amount]
       /\ Kind(d) = "descriptor" /\ Whole(d) /\ sent[d].part.crc = entry.crc
  BY <1>7, <1>8, <1>9 DEF Kind, Whole
<1>11. FileAt(entry, amount)
  BY <1>5, <1>6, <1>10 DEF FileAt, d
<1> QED BY <1>11 DEF entry, amount

\* An entry of the directory that has been sent belongs to a file of the list.
LEMMA EntryIsListed ==
  ASSUME StreamInv, files # <<>>, NEW k \in DOMAIN sent, Kind(k) = "central"
  PROVE  stage \in TailStages /\ \E i \in 1..Len(files) : sent[k].part = MakeCentralHeader(files[i])
<1>1. EncoderTypes /\ ListOK(files) /\ PartOK /\ Len(files) \in Nat
  BY InfoFacts DEF StreamInv, EncoderTypes, EncoderOK
<1>2. PICK P : \E fin \in Seq(Runs(P)) : Story(fin)
  BY DEF StreamInv, EncoderOK
<1>3. PICK fin \in Seq(Runs(P)) : Story(fin)
  BY <1>2
<1>4. /\ \E Q : sent \in Seq(Runs(Q))
      /\ Extends(sent, fin) /\ Len(fin) \in Nat
      /\ Len(sent) = Len(fin) + (IF cursor.pos = 0 THEN 0 ELSE 1)
      /\ cursor.pos # 0 => sent[Len(fin) + 1] = [part |-> cursor.part, n |-> cursor.pos]
  BY <1>1, <1>3, SentFacts DEF Story, EncoderTypes
<1>5. k \in 1..Len(sent)
  BY <1>4
<1>6. CASE k \in 1..Len(fin)
  <2> DEFINE b == Base(fin)
             h == HeaderCount
  <2>1. sent[k] = fin[k] /\ fin[k].part.kind = "central"
    BY <1>4, <1>6 DEF Extends, Kind
  <2>2. /\ \A j \in 1..b : fin[j].part.kind \notin {"central", "end", "crc"}
        /\ stage \in TailStages =>
             /\ b >= 0 /\ \A i \in 1..h : fin[b + i] = CentralRun(files[i])
             /\ stage \in {"done", "crc"} => fin[Len(fin)] = [part |-> EndPart(files), n |-> 22]
    BY <1>3 DEF Story, CentralOK
  <2>3. b = Len(fin) - h - (IF stage \in {"done", "crc"} THEN 1 ELSE 0)
    BY DEF Base
  <2>4. h \in 0..Len(files)
    BY <1>1 DEF HeaderCount, EncoderTypes
  <2>5. stage \in TailStages
    <3> SUFFICES ASSUME stage \notin TailStages
                 PROVE  FALSE
      OBVIOUS
    <3>1. b = Len(fin)
      BY <1>4, <2>3 DEF HeaderCount, TailStages
    <3> QED BY <1>6, <2>1, <2>2, <3>1
  <2> HIDE DEF b, h
  <2>6. ~(k <= b) /\ b >= 0 /\ b \in Int
    <3>1. b >= 0 /\ b \in Int
      BY <1>4, <2>2, <2>3, <2>4, <2>5
    <3>2. ~(k \in 1..b)
      BY <2>1, <2>2
    <3> QED BY <1>6, <3>1, <3>2
  <2>7. CASE stage \in {"done", "crc"} /\ k = Len(fin)
    <3>1. fin[k].part = EndPart(files) /\ EndPart(files).kind = "end"
      BY <2>2, <2>5, <2>7, PartFacts DEF EndPart
    <3> QED BY <2>1, <3>1
  <2>8. CASE ~(stage \in {"done", "crc"} /\ k = Len(fin))
    <3>1. k - b \in 1..h /\ b + (k - b) = k
      BY <1>4, <1>6, <2>3, <2>4, <2>6, <2>8
    <3>2. fin[k] = CentralRun(files[k - b])
      BY <2>2, <2>5, <3>1
    <3>3. sent[k].part = MakeCentralHeader(files[k - b])
      BY <2>1, <3>2 DEF CentralRun
    <3>4. k - b \in 1..Len(files)
      BY <1>1, <2>4, <3>1
    <3> QED BY <2>5, <3>3, <3>4
  <2> QED BY <2>7, <2>8
<1>7. CASE k \notin 1..Len(fin)
  <2>1. sent[k].part = cursor.part
    BY <1>4, <1>5, <1>7
  <2>2. stage = "central"
    BY <1>1, <2>1, PartKind DEF Kind
  <2>3. cursor.part = MakeCentralHeader(files[index]) /\ index \in 1..Len(files)
    BY <1>1, <2>2 DEF PartOK, EncoderTypes
  <2> QED BY <2>1, <2>2, <2>3 DEF TailStages
<1> QED BY <1>6, <1>7

\* The directory is true, whatever happens to the files while they are sent.
LEMMA DirectoryFollows == StreamInv => DirectoryIsTrue
<1> SUFFICES ASSUME StreamInv, InWidth, NEW k \in DOMAIN sent, Kind(k) = "central"
             PROVE  FileAt(sent[k].part, sent[k].part.crc.amount)
  BY DEF DirectoryIsTrue
<1>1. files # <<>>
  BY DEF StreamInv
<1>2. PICK i \in 1..Len(files) : sent[k].part = MakeCentralHeader(files[i])
  BY <1>1, EntryIsListed
<1>3. stage \in TailStages
  BY <1>1, EntryIsListed
<1>4. sent[k].part.crc = files[i].crc
  BY <1>2, PartFacts
<1> QED BY <1>1, <1>2, <1>3, <1>4, FileIsThere

\* An entry of the central directory gives the place of its file in the stream and the check
\* sum of what was sent of it: a file may grow or lose its name between the list, its header
\* and its directory entry, and each reader may be asked for any number of bytes.
THEOREM StreamDirectoryIsTrue == Spec => []DirectoryIsTrue
BY StreamInvariance, DirectoryFollows, PTL

\* While a file is being sent, less has been sent than was announced.
LEMMA FilesAreShort ==
  ASSUME StreamInv, files # <<>>, stage \in FileStages, Unchanged
  PROVE  ZipIs + cursor.pos < ZipStreamLen(files)
<1> DEFINE n == Len(files)
           l == LocalSizes(files)
           z == ZipSizes(files)
           i == index
           m == index - 1
           name == files[i].name
           size == files[i].size
           pos == cursor.pos
<1>1. /\ ListOK(files) /\ AmountsOK /\ DataOK /\ PartOK /\ EncoderTypes /\ DiskOK /\ n \in Nat
      /\ i \in 1..n /\ pos \in Nat
  BY InfoFacts DEF StreamInv, EncoderTypes, FilesAgree, EncoderOK
<1>2. Sent = m /\ m \in Nat /\ m \in 0..n /\ i \in 0..n
  BY <1>1 DEF Sent
<1>3. /\ name \in Nat /\ size \in Nat /\ size = disk[files[i].file].length
  BY <1>1, InfoFacts DEF Unchanged
<1>4. ASSUME NEW j \in 1..m
      PROVE  l[j] \in Nat /\ z[j] \in Nat /\ l[j] <= z[j] + 0
  <2>1. j \in 1..n /\ j \in DOMAIN files
    BY <1>1, <1>2, InfoFacts
  <2>2. files[j].name \in Nat /\ files[j].size \in Nat /\ files[j].crc.amount \in Nat
    BY <1>1, <2>1, InfoFacts
  <2>3. files[j].crc.amount <= files[j].size
    BY <1>1, <1>2, <2>1 DEF AmountsOK, Unchanged
  <2>4. l[j] = 46 + files[j].name + files[j].crc.amount
    BY <2>1 DEF LocalSizes
  <2>5. z[j] = (46 + files[j].name + files[j].size) + (46 + files[j].name) /\ z[j] \in Nat
    BY <1>1, <2>1, ZipStreamLenFacts
  <2> DEFINE a == files[j].name
             b == files[j].crc.amount
             c == files[j].size
             x == l[j]
             y == z[j]
  <2>6. /\ a \in Nat /\ b \in Nat /\ c \in Nat /\ b <= c /\ x = 46 + a + b
        /\ y = (46 + a + c) + (46 + a) /\ y \in Nat
    BY <2>2, <2>3, <2>4, <2>5
  <2> HIDE DEF a, b, c, x, y
  <2>7. x \in Nat /\ x <= y + 0
    BY <2>6
  <2> QED BY <2>6, <2>7 DEF x, y
<1>5. \A j \in 1..n : z[j] \in Nat
  BY <1>1, ZipStreamLenFacts
<1>6. z[i] = (46 + name + size) + (46 + name)
  BY <1>1, ZipStreamLenFacts
<1>7. ZipStreamLen(files) = SumTo(z, n) + 22
  BY <1>1, ZipStreamLenFacts
<1> HIDE DEF l, z, n
<1>8. SumTo(l, m) <= SumTo(z, m)
  <2>1. SumTo(l, m) <= SumTo(z, m) + 0 * m
    BY <1>2, <1>4, SumBound
  <2>2. SumTo(z, m) \in Nat /\ SumTo(l, m) \in Nat
    <3>1. m \in 0..m
      BY <1>2
    <3> QED BY <1>2, <1>4, <3>1, SumNat
  <2> QED BY <1>2, <2>1, <2>2
<1>9. /\ SumTo(z, i) = SumTo(z, m) + z[i] /\ SumTo(z, i) <= SumTo(z, n)
      /\ SumTo(z, m) \in Nat /\ SumTo(z, i) \in Nat /\ SumTo(z, n) \in Nat
  <2>1. i \in Nat /\ i > 0 /\ n \in 0..n
    BY <1>1
  <2> QED BY <1>1, <1>2, <1>5, <2>1, SumStep, SumNat
<1>10. LocalLen(files, m) = SumTo(l, m) /\ LocalLen(files, m) \in Nat
  BY <1>1, <1>2, LenFacts DEF LocalLen, l, n
<1>11. ZipIs + pos <= LocalLen(files, m) + (46 + name + size)
  <2>1. CASE stage = "header"
    <3>1. ZipIs = LocalLen(files, m)
      BY <2>1 DEF ZipIs, LeadStages
    <3>2. pos <= 30 + name
      BY <1>1, <1>3, <2>1, PartFacts DEF PartOK
    <3> HIDE DEF m, name, size, pos
    <3> QED BY <1>1, <1>3, <1>10, <3>1, <3>2
  <2>2. CASE stage = "data"
    <3>1. ZipIs = LocalLen(files, m) + 30 + name
      BY <2>2 DEF ZipIs, LeadStages
    <3>2. pos <= size
      BY <1>1, <1>3, <2>2 DEF DataOK
    <3> HIDE DEF m, name, size, pos
    <3>3. \A a, b, c, d \in Nat : c <= d => (a + 30 + b) + c <= a + (46 + b + d)
      OBVIOUS
    <3> QED BY <1>1, <1>3, <1>10, <3>1, <3>2, <3>3
  <2>3. CASE stage = "descriptor"
    <3> DEFINE amount == cursor.part.crc.amount
    <3>1. ZipIs = LocalLen(files, m) + 30 + name + amount
      BY <2>3 DEF ZipIs, LeadStages
    <3>2. amount \in Nat /\ cursor.part = MakeDataDescriptor(Crc(files[index].file, amount))
          /\ pos <= cursor.part.length
      BY <1>1, <2>3 DEF PartOK
    <3>3. cursor.part.length = 16
      <4>1. \A c : MakeDataDescriptor(c).length = 16
        BY PartFacts
      <4> QED BY <3>2, <4>1, Zenon
    <3>4. amount <= size
      BY <1>1, <1>3, <2>3 DEF DataOK
    <3> HIDE DEF amount, m, name, size, pos
    <3>5. \A a, b, c, d, e \in Nat :
            c <= d /\ e <= 16 => (a + 30 + b + c) + e <= a + (46 + b + d)
      OBVIOUS
    <3> QED BY <1>1, <1>3, <1>10, <3>1, <3>2, <3>3, <3>4, <3>5
  <2> QED BY <2>1, <2>2, <2>3 DEF FileStages
<1>12. ZipIs \in Nat
  BY <1>1, ZipIsNat
<1> DEFINE x == ZipIs + pos
           w == SumTo(l, m)
           s == SumTo(z, m)
           t == SumTo(z, i)
           u == SumTo(z, n)
           e == z[i]
           v == ZipStreamLen(files)
<1>13. /\ x <= w + (46 + name + size) /\ w <= s /\ t = s + e /\ t <= u /\ v = u + 22
       /\ e = (46 + name + size) + (46 + name) /\ name \in Nat /\ size \in Nat
       /\ x \in Nat /\ w \in Nat /\ s \in Nat /\ t \in Nat /\ u \in Nat
  <2>1. ZipIs + pos \in Nat /\ SumTo(l, m) \in Nat
    BY <1>1, <1>10, <1>12
  <2>2. /\ ZipIs + pos <= SumTo(l, m) + (46 + name + size)
        /\ ZipStreamLen(files) = SumTo(z, n) + 22
    BY <1>7, <1>10, <1>11
  <2>3. /\ SumTo(z, i) = SumTo(z, m) + z[i] /\ SumTo(z, i) <= SumTo(z, n)
        /\ SumTo(l, m) <= SumTo(z, m) /\ z[i] = (46 + name + size) + (46 + name)
    BY <1>6, <1>8, <1>9
  <2> QED BY <1>3, <1>9, <2>1, <2>2, <2>3
<1> HIDE DEF x, w, s, t, u, e, v, name, size
<1>14. x < v
  BY <1>13
<1> QED BY <1>14 DEF x, v

\* What has been sent of an answer that is taken for complete.
LEMMA CompleteFacts ==
  ASSUME StreamInv, out = "complete", Unchanged
  PROVE  /\ files # <<>> /\ SentLen = declared
         /\ \/ stage = "end" /\ cursor.pos = 22
            \/ stage = "done" /\ cursor.pos = 0
            \/ stage = "crc" /\ cursor.pos = 2
<1> DEFINE pos == cursor.pos
           zsl == ZipStreamLen(files)
           n == Len(files)
<1>1. files # <<>> /\ SentLen >= declared
  BY DEF StreamInv, OutOK
<1>2. /\ ListOK(files) /\ EncoderTypes /\ PartOK /\ declared = StreamLen(format, files)
      /\ pos \in Nat /\ n \in Nat \ {0} /\ stage \in Stages /\ format \in Formats
  <2>1. /\ ListOK(files) /\ EncoderTypes /\ PartOK /\ declared = StreamLen(format, files)
        /\ pos \in Nat /\ stage \in Stages /\ format \in Formats
    BY <1>1 DEF StreamInv, EncoderTypes, EncoderOK
  <2>2. files \in Seq(Infos)
    BY <2>1 DEF ListOK
  <2> QED BY <1>1, <2>1, <2>2
<1>3. PICK P : \E fin \in Seq(Runs(P)) : Story(fin)
  BY <1>1 DEF StreamInv, EncoderOK
<1>4. PICK fin \in Seq(Runs(P)) : Story(fin)
  BY <1>3
<1>5. (\E Q : sent \in Seq(Runs(Q))) /\ AllLen(sent, Len(sent)) = (LeadLen + ZipIs) + pos
  BY <1>2, <1>4, SentFacts DEF Story
<1>6. SentLen = (LeadLen + ZipIs) + pos /\ ZipIs \in Nat /\ LeadLen \in Nat
  <2>1. SentLen = AllLen(sent, Len(sent))
    BY <1>5, SentLenIs
  <2>2. LeadLen \in Nat
    BY DEF LeadLen, WrapperLen
  <2> QED BY <1>2, <1>5, <2>1, <2>2, ZipIsNat
<1>7. zsl \in Nat /\ zsl > 0
  <2>1. zsl = SumTo(ZipSizes(files), n) + 22 /\ SumTo(ZipSizes(files), n) \in Nat
    BY <1>2, ZipStreamLenFacts
  <2> QED BY <2>1
<1>8. /\ format \in Zips => declared = zsl
      /\ format \notin Zips => declared = WrapperLen + 4 + zsl
      /\ WrapperLen \in {0, 8}
  <2>1. WrapperLen \in {0, 8}
    BY DEF WrapperLen
  <2>2. CASE format \in Zips
    BY <1>2, <2>1, <2>2, StreamLenFacts
  <2>3. CASE format = "chunk"
    <3>1. declared = zsl + 4 /\ WrapperLen = 0 /\ format \notin Zips
      BY <1>2, <2>3, StreamLenFacts DEF WrapperLen, Zips
    <3> QED BY <1>7, <3>1
  <2>4. CASE format = "chunk-wrapped"
    <3>1. declared = zsl + 12 /\ WrapperLen = 8 /\ format \notin Zips
      BY <1>2, <2>4, StreamLenFacts DEF WrapperLen, Zips
    <3> QED BY <1>7, <3>1
  <2> QED BY <1>2, <2>2, <2>3, <2>4 DEF Formats, Zips
<1>9. LeadLen <= (IF format \in Zips THEN 0 ELSE WrapperLen + 2) /\ (stage \notin LeadStages =>
        LeadLen = (IF format \in Zips THEN 0 ELSE WrapperLen + 2))
  <2>1. stage \in LeadStages => format \notin Zips
    BY <1>2 DEF PartOK
  <2>2. CASE stage = "wrapper"
    BY <1>8, <2>1, <2>2 DEF LeadLen, LeadStages
  <2>3. CASE stage = "chunk"
    BY <1>8, <2>1, <2>3 DEF LeadLen, LeadStages
  <2>4. CASE stage = "type"
    BY <1>8, <2>1, <2>4 DEF LeadLen, LeadStages
  <2>5. CASE stage \notin LeadStages
    BY <1>8, <2>5 DEF LeadLen, LeadStages
  <2> QED BY <2>2, <2>3, <2>4, <2>5 DEF LeadStages
<1> HIDE DEF zsl, n, pos
<1>10. CASE stage \in LeadStages
  <2>1. format \notin Zips /\ ZipIs = 0 /\ pos <= 8
    <3>1. format \notin Zips /\ pos <= cursor.part.length
      BY <1>2, <1>10 DEF PartOK, LeadStages, pos
    <3>2. cursor.part.length \in {1, 8}
      BY <1>2, <1>10, PartFacts DEF PartOK, LeadStages
    <3>3. ZipIs = 0
      BY <1>10 DEF ZipIs, LeadStages
    <3> QED BY <1>2, <3>1, <3>2, <3>3
  <2>2. zsl >= 22
    BY <1>2, ZipStreamLenFacts DEF zsl, n
  <2> QED BY <1>1, <1>2, <1>6, <1>7, <1>8, <1>9, <2>1, <2>2
<1>11. CASE stage = "init"
  <2>1. ZipIs = 0 /\ pos = 0
    BY <1>2, <1>11, PartFacts DEF PartOK, ZipIs, LeadStages, pos
  <2> QED BY <1>1, <1>6, <1>7, <1>8, <1>9, <1>11, <2>1 DEF LeadStages
<1>12. CASE stage \in FileStages
  <2>1. ZipIs + pos < zsl
    BY <1>1, <1>12, FilesAreShort DEF zsl, pos
  <2> QED BY <1>1, <1>2, <1>6, <1>7, <1>8, <1>9, <1>12, <2>1 DEF LeadStages, FileStages
<1>13. CASE stage \in TailStages
  <2> DEFINE a == LocalLen(files, n)
             b == CentralLen(files, n)
  <2>1. a + b + 22 = zsl
    BY <1>1, <1>13, SentBounds DEF zsl, n
  <2>2. a \in Nat /\ b \in Nat
    <3>1. n \in 0..n
      BY <1>2
    <3> QED BY <1>2, <3>1, LenFacts DEF n
  <2>3. LeadLen = IF format \in Zips THEN 0 ELSE WrapperLen + 2
    BY <1>9, <1>13 DEF TailStages, LeadStages
  <2>4. CASE stage = "central"
    <3>1. index \in 1..n /\ index \in 0..n /\ index - 1 \in 0..n
      BY <1>2, <2>4 DEF EncoderTypes, n
    <3>2. ZipIs = a + CentralLen(files, index - 1)
      BY <2>4 DEF ZipIs, LeadStages, n
    <3>3. /\ CentralLen(files, index) = CentralLen(files, index - 1) + (46 + files[index].name)
          /\ CentralLen(files, index) <= b /\ CentralLen(files, index - 1) \in Nat
          /\ CentralLen(files, index) \in Nat /\ files[index].name \in Nat
      BY <1>2, <3>1, LenFacts, InfoFacts DEF n
    <3>4. pos <= 46 + files[index].name
      BY <1>2, <2>4, <3>3, PartFacts DEF PartOK, pos
    <3> HIDE DEF a, b
    <3>5. ZipIs + pos <= a + b
      <4> DEFINE c == CentralLen(files, index - 1)
                 d == CentralLen(files, index)
                 e == files[index].name
      <4>1. /\ ZipIs = a + c /\ d = c + (46 + e) /\ d <= b /\ pos <= 46 + e
            /\ a \in Nat /\ b \in Nat /\ c \in Nat /\ d \in Nat /\ e \in Nat /\ pos \in Nat
        BY <1>2, <2>2, <3>2, <3>3, <3>4 DEF pos
      <4> HIDE DEF c, d, e
      <4> QED BY <4>1
    <3> QED BY <1>1, <1>2, <1>6, <1>7, <1>8, <2>1, <2>2, <2>3, <3>5
  <2>5. CASE stage = "end"
    <3>1. ZipIs = a + b /\ pos <= 22
      BY <1>2, <2>5, PartFacts DEF ZipIs, LeadStages, n, PartOK, EndPart, pos
    <3> HIDE DEF a, b
    <3> QED BY <1>1, <1>2, <1>6, <1>7, <1>8, <2>1, <2>2, <2>3, <2>5, <3>1 DEF pos
  <2>6. CASE stage = "done"
    <3>1. ZipIs = a + b + 22 /\ pos = 0
      BY <1>2, <2>6, PartFacts DEF ZipIs, LeadStages, n, PartOK, pos
    <3> HIDE DEF a, b
    <3> QED BY <1>1, <1>2, <1>6, <1>7, <1>8, <2>1, <2>2, <2>3, <2>6, <3>1 DEF pos
  <2>7. CASE stage = "crc"
    <3>1. ZipIs = a + b + 22 /\ pos <= 2 /\ format \notin Zips
      BY <1>2, <2>7, PartFacts DEF ZipIs, LeadStages, n, PartOK, pos
    <3> HIDE DEF a, b
    <3> QED BY <1>1, <1>2, <1>6, <1>7, <1>8, <2>1, <2>2, <2>3, <2>7, <3>1 DEF pos
  <2> QED BY <1>13, <2>4, <2>5, <2>6, <2>7 DEF TailStages
<1> QED BY <1>2, <1>10, <1>11, <1>12, <1>13 DEF Stages, LeadStages, FileStages, TailStages

\* The runs of an answer that is taken for complete: b others, the headers of the central
\* directory, the end record and, in a chunk, the CRC.
LEMMA CompleteRuns ==
  ASSUME StreamInv, out = "complete", Unchanged
  PROVE  \E b \in Nat :
           LET n == Len(files)
               last == b + n + 1
           IN  /\ DOMAIN sent = 1..Len(sent) /\ Len(sent) \in {last, last + 1}
               /\ \A k \in 1..b : Kind(k) \notin {"central", "end", "crc"}
               /\ \A i \in 1..n : sent[b + i] = CentralRun(files[i])
               /\ sent[last] = [part |-> EndPart(files), n |-> 22]
               /\ Len(sent) = last + 1 => Kind(last + 1) = "crc"
               /\ ZipLen(sent, b) = LocalLen(files, n)
               /\ ZipLen(sent, b + n) = LocalLen(files, n) + CentralLen(files, n)
<1> DEFINE n == Len(files)
           pos == cursor.pos
<1>1. /\ files # <<>>
      /\ \/ stage = "end" /\ pos = 22
         \/ stage = "done" /\ pos = 0
         \/ stage = "crc" /\ pos = 2
  BY CompleteFacts
<1>2. EncoderTypes /\ PartOK /\ ListOK(files) /\ n \in Nat /\ pos \in Nat
  BY <1>1, InfoFacts DEF StreamInv, EncoderTypes, EncoderOK
<1>3. PICK P : \E fin \in Seq(Runs(P)) : Story(fin)
  BY <1>1 DEF StreamInv, EncoderOK
<1>4. PICK fin \in Seq(Runs(P)) : Story(fin)
  BY <1>3
<1>5. /\ \E Q : sent \in Seq(Runs(Q))
      /\ Extends(sent, fin) /\ Len(fin) \in Nat
      /\ Len(sent) = Len(fin) + (IF pos = 0 THEN 0 ELSE 1)
      /\ pos # 0 => sent[Len(fin) + 1] = [part |-> cursor.part, n |-> pos]
  BY <1>2, <1>4, SentFacts DEF Story
<1>6. Len(sent) \in Nat /\ DOMAIN sent = 1..Len(sent)
  BY <1>5
<1> DEFINE b == Base(fin)
<1>7. /\ \A k \in 1..b : fin[k].part.kind \notin {"central", "end", "crc"}
      /\ b >= 0 /\ ZipLen(fin, b) = LocalLen(files, n)
      /\ \A i \in 1..n : fin[b + i] = CentralRun(files[i])
      /\ stage \in {"done", "crc"} => fin[Len(fin)] = [part |-> EndPart(files), n |-> 22]
      /\ b = Len(fin) - n - (IF stage \in {"done", "crc"} THEN 1 ELSE 0)
  <2>1. HeaderCount = n
    BY <1>1 DEF HeaderCount, TailStages
  <2> QED BY <1>1, <1>4, <2>1 DEF Story, CentralOK, TailStages, Base
<1>8. ZipLen(fin, Len(fin)) = ZipIs
  BY <1>4 DEF Story, LengthOK
<1> HIDE DEF b, n
<1>9. /\ b \in Nat
      /\ stage = "end" => Len(fin) = b + n /\ Len(sent) = b + n + 1
      /\ stage = "done" => Len(fin) = b + n + 1 /\ Len(sent) = b + n + 1
      /\ stage = "crc" => Len(fin) = b + n + 1 /\ Len(sent) = b + n + 2
  <2>1. PICK len \in Nat : len = Len(fin)
    BY <1>5
  <2>2. b = len - n - (IF stage \in {"done", "crc"} THEN 1 ELSE 0) /\ b >= 0
    BY <1>7, <2>1
  <2>3. Len(sent) = len + (IF pos = 0 THEN 0 ELSE 1)
    BY <1>5, <2>1
  <2>4. CASE stage = "end"
    <3>0. pos # 0 /\ stage \notin {"done", "crc"}
      BY <1>1, <2>4
    <3>1. b = len - n /\ Len(sent) = len + 1
      <4>1. Len(sent) = len + 1
        BY <2>3, <3>0
      <4>2. b = len - n - 0
        BY <2>2, <3>0
      <4> QED BY <1>2, <2>1, <4>1, <4>2
    <3> QED BY <1>2, <2>1, <2>2, <2>4, <3>1
  <2>5. CASE stage = "done"
    <3>1. b = len - n - 1 /\ Len(sent) = len
      BY <1>1, <2>2, <2>3, <2>5
    <3> QED BY <1>2, <2>1, <2>2, <2>5, <3>1
  <2>6. CASE stage = "crc"
    <3>1. b = len - n - 1 /\ Len(sent) = len + 1
      BY <1>1, <2>2, <2>3, <2>6
    <3> QED BY <1>2, <2>1, <2>2, <2>6, <3>1
  <2> QED BY <1>1, <2>4, <2>5, <2>6
<1>10. /\ b + n \in 0..Len(fin) /\ b \in 0..Len(fin) /\ \A k \in 1..b : k \in 1..Len(fin)
       /\ \A i \in 1..n : b + i \in 1..Len(fin)
  BY <1>1, <1>2, <1>9
<1>11. /\ \A k \in 1..b : Kind(k) \notin {"central", "end", "crc"}
       /\ \A i \in 1..n : sent[b + i] = CentralRun(files[i])
       /\ ZipLen(sent, b) = LocalLen(files, n) /\ ZipLen(sent, b + n) = ZipLen(fin, b + n)
  <2>1. \A k \in 1..Len(fin) : sent[k] = fin[k]
    BY <1>5 DEF Extends
  <2>2. ZipLen(sent, b) = ZipLen(fin, b) /\ ZipLen(sent, b + n) = ZipLen(fin, b + n)
    BY <1>5, <1>10 DEF Extends
  <2> QED BY <1>7, <1>10, <2>1, <2>2 DEF Kind
<1>12. LocalLen(files, n) \in Nat /\ CentralLen(files, n) \in Nat
  <2>1. n \in 0..n
    BY <1>2
  <2> QED BY <1>2, <2>1, LenFacts DEF n
<1>13. CASE stage = "end"
  <2>1. cursor.part = EndPart(files) /\ pos = 22
    BY <1>1, <1>2, <1>13 DEF PartOK
  <2>2. sent[b + n + 1] = [part |-> EndPart(files), n |-> 22]
    BY <1>5, <1>9, <1>13, <2>1
  <2>3. ZipLen(fin, b + n) = LocalLen(files, n) + CentralLen(files, n)
    BY <1>8, <1>9, <1>13 DEF ZipIs, LeadStages, n
  <2>4. Len(sent) # b + n + 1 + 1
    BY <1>2, <1>9, <1>13
  <2> QED BY <1>6, <1>9, <1>11, <1>13, <2>2, <2>3, <2>4 DEF n
<1>14. CASE stage \in {"done", "crc"}
  <2> DEFINE last == b + n + 1
  <2>1. last \in 1..Len(fin) /\ last - 1 = b + n /\ last = Len(fin)
    BY <1>2, <1>9, <1>14
  <2>2. /\ sent[last] = [part |-> EndPart(files), n |-> 22]
        /\ fin[last] = [part |-> EndPart(files), n |-> 22]
    BY <1>5, <1>7, <1>14, <2>1 DEF Extends
  <2>3. ZipLen(fin, last) = ZipLen(fin, last - 1) + 22 /\ ZipLen(fin, last - 1) \in Nat
    <3>1. ZipLen(fin, last) = ZipLen(fin, last - 1) + InZip(fin[last])
      BY <2>1, RunLens
    <3>2. ZipLen(fin, b + n) \in Nat
      BY <1>10, RunLens
    <3>3. InZip(fin[last]) = 22
      <4>1. fin[last].part.kind = "end" /\ fin[last].n = 22
        BY <2>2, PartFacts DEF EndPart
      <4> QED BY <4>1 DEF InZip, LeadStages
    <3> QED BY <2>1, <3>1, <3>2, <3>3
  <2>4. ZipLen(fin, last) = LocalLen(files, n) + CentralLen(files, n) + 22
    BY <1>8, <1>14, <2>1 DEF ZipIs, LeadStages, n
  <2>5. ZipLen(fin, b + n) = LocalLen(files, n) + CentralLen(files, n)
    <3> HIDE DEF last
    <3> QED BY <1>12, <2>1, <2>3, <2>4
  <2>6. Len(sent) = last + 1 => Kind(last + 1) = "crc"
    <3> SUFFICES ASSUME Len(sent) = last + 1
                 PROVE  Kind(last + 1) = "crc"
      OBVIOUS
    <3>1. stage = "crc"
      BY <1>2, <1>9, <1>14
    <3>2. cursor.part.kind = "crc" /\ pos # 0
      BY <1>1, <1>2, <3>1, PartFacts DEF PartOK
    <3> QED BY <1>5, <2>1, <3>2 DEF Kind
  <2>7. Len(sent) \in {last, last + 1}
    BY <1>2, <1>9, <1>14
  <2> QED BY <1>6, <1>9, <1>11, <2>2, <2>5, <2>6, <2>7 DEF n
<1> QED BY <1>1, <1>13, <1>14

\* An answer that is taken for complete can be read from its end.
LEMMA ReadableFollows == StreamInv => AnswerIsReadable
<1> SUFFICES ASSUME StreamInv, out = "complete", Unchanged, InWidth
             PROVE  /\ SentLen = declared
                    /\ \E last \in DOMAIN sent :
                         LET end == sent[last].part
                         IN /\ Kind(last) = "end" /\ Whole(last)
                            /\ \A k \in DOMAIN sent : Kind(k) = "end" => k <= last
                            /\ end.count = Len(files) /\ Len(Directory) = Len(files)
                            /\ Position(Directory[1]) = end.offset
                            /\ Position(last) = end.offset + end.size
                    /\ \A i \in DOMAIN files :
                         LET entry == sent[Directory[i]].part
                         IN /\ Whole(Directory[i])
                            /\ entry.file = files[i].file
                            /\ FileAt(entry, entry.size)
  BY DEF AnswerIsReadable
<1>1. /\ files # <<>> /\ SentLen = declared /\ stage \in TailStages
  BY CompleteFacts DEF TailStages
<1>2. PICK n \in Nat \ {0} : n = Len(files) /\ DOMAIN files = 1..n
  <2>1. ListOK(files)
    BY DEF StreamInv, EncoderTypes
  <2>2. files \in Seq(Infos)
    BY <2>1 DEF ListOK
  <2> QED BY <1>1, <2>2
<1>3. PICK b \in Nat :
        /\ DOMAIN sent = 1..Len(sent) /\ Len(sent) \in {b + n + 1, b + n + 1 + 1}
        /\ \A k \in 1..b : Kind(k) \notin {"central", "end", "crc"}
        /\ \A i \in 1..n : sent[b + i] = CentralRun(files[i])
        /\ sent[b + n + 1] = [part |-> EndPart(files), n |-> 22]
        /\ Len(sent) = b + n + 1 + 1 => Kind(b + n + 1 + 1) = "crc"
        /\ ZipLen(sent, b) = LocalLen(files, n)
        /\ ZipLen(sent, b + n) = LocalLen(files, n) + CentralLen(files, n)
  BY <1>2, CompleteRuns
<1>4. PICK last \in Nat : last = b + n + 1
  OBVIOUS
<1>5. /\ DOMAIN sent = 1..Len(sent) /\ Len(sent) \in {last, last + 1} /\ Len(sent) \in Nat
      /\ Len(sent) = last + 1 => Kind(last + 1) = "crc"
  <2>1. /\ DOMAIN sent = 1..Len(sent) /\ Len(sent) \in {last, last + 1}
        /\ Len(sent) = last + 1 => Kind(last + 1) = "crc"
    BY <1>3, <1>4
  <2>2. PICK len : len = Len(sent)
    OBVIOUS
  <2>3. len \in {last, last + 1}
    BY <2>1, <2>2
  <2>4. len \in Nat
    BY <2>3
  <2> QED BY <2>1, <2>2, <2>4
<1>6. sent[last].part = EndPart(files) /\ sent[last].n = 22
  <2>1. sent[last] = [part |-> EndPart(files), n |-> 22]
    BY <1>3, <1>4
  <2> QED BY <2>1
<1>7. /\ LocalLen(files, n) \in Nat /\ CentralLen(files, n) \in Nat
      /\ LocalLen(files, n) % U32 = LocalLen(files, n)
      /\ CentralLen(files, n) % U32 = CentralLen(files, n)
  BY <1>1, <1>2, WidthFacts
<1>8. n % U16 = n
  <2>1. n < U16
    BY <1>2 DEF InWidth
  <2>2. \A x, y \in Nat : x < y => x % y = x
    OBVIOUS
  <2> QED BY <2>1, <2>2, MarStreamAssumption
<1>9. /\ EndPart(files).kind = "end" /\ EndPart(files).length = 22
      /\ EndPart(files).count = n
      /\ EndPart(files).size = CentralLen(files, n)
      /\ EndPart(files).offset = LocalLen(files, n)
  <2>1. /\ EndPart(files).kind = "end" /\ EndPart(files).length = 22
        /\ EndPart(files).count = n % U16
        /\ EndPart(files).size = CentralLen(files, n) % U32
        /\ EndPart(files).offset = LocalLen(files, n) % U32
    BY <1>2 DEF EndPart, MakeEndOfCentralDirectory
  <2> QED BY <1>7, <1>8, <2>1
<1>10. ASSUME NEW i \in 1..n
       PROVE  /\ sent[b + i].part = MakeCentralHeader(files[i]) /\ Kind(b + i) = "central"
              /\ Whole(b + i)
  <2>1. sent[b + i] = CentralRun(files[i])
    BY <1>3
  <2>2. sent[b + i].part = MakeCentralHeader(files[i]) /\ sent[b + i].n = 46 + files[i].name
    BY <2>1 DEF CentralRun
  <2>3. files[i].name \in Nat
    BY <1>2, InfoFacts DEF StreamInv, EncoderTypes
  <2> QED BY <2>2, <2>3, PartFacts DEF Kind, Whole
<1>11. Kind(last) = "end" /\ Whole(last) /\ last \in 1..Len(sent) /\ last \in DOMAIN sent
  <2>1. PICK len \in Nat : len = Len(sent) /\ len \in {last, last + 1}
    BY <1>5
  <2>2. last \in 1..len
    BY <1>4, <2>1
  <2> QED BY <1>5, <1>6, <1>9, <2>1, <2>2 DEF Kind, Whole
<1>12. \A k \in 1..Len(sent) :
         \/ k \in 1..b \/ k = last \/ k \in (b + 1)..(b + n)
         \/ k = last + 1 /\ Len(sent) = last + 1
  <2>1. \A k, len, c \in Nat : len \in {c, c + 1} /\ k \in 1..len /\ c = b + n + 1 =>
          \/ k \in 1..b \/ k = c \/ k \in (b + 1)..(b + n)
          \/ k = c + 1 /\ len = c + 1
    OBVIOUS
  <2>2. PICK len \in Nat : len = Len(sent) /\ len \in {last, last + 1}
    BY <1>5
  <2> QED BY <1>4, <2>1, <2>2
<1>13. {k \in DOMAIN sent : Kind(k) = "central"} = (b + 1)..(b + n)
  <2>1. ASSUME NEW k \in DOMAIN sent, Kind(k) = "central"
        PROVE  k \in (b + 1)..(b + n)
    <3>1. k \in 1..Len(sent) /\ k \notin 1..b
      BY <1>3, <2>1
    <3>2. k # last /\ ~(k = last + 1 /\ Len(sent) = last + 1)
      BY <1>5, <1>11, <2>1
    <3> QED BY <1>12, <3>1, <3>2
  <2>2. ASSUME NEW k \in (b + 1)..(b + n)
        PROVE  k \in DOMAIN sent /\ Kind(k) = "central"
    <3>1. PICK i \in 1..n : k = b + i
      <4>1. k - b \in 1..n /\ k = b + (k - b)
        OBVIOUS
      <4> QED BY <4>1
    <3>2. k \in 1..last
      BY <1>4
    <3>3. PICK len \in Nat : len = Len(sent) /\ len \in {last, last + 1}
      BY <1>5
    <3>4. k \in 1..len
      BY <3>2, <3>3
    <3> QED BY <1>5, <1>10, <3>1, <3>3, <3>4
  <2> QED BY <2>1, <2>2
<1>14. Len(Directory) = n /\ \A i \in 1..n : Directory[i] = b + i
  <2>1. PICK S : S = {k \in DOMAIN sent : Kind(k) = "central"}
    OBVIOUS
  <2>2. Directory = InOrder(S) /\ S = (b + 1)..(b + n)
    BY <1>13, <2>1 DEF Directory
  <2>3. Len(InOrder(S)) = n /\ \A i \in 1..n : InOrder(S)[i] = b + i
    BY <2>2, IntervalInOrder
  <2> QED BY <2>2, <2>3
<1>15. \A k \in DOMAIN sent : Kind(k) = "end" => k <= last
  <2> SUFFICES ASSUME NEW k \in 1..Len(sent), Kind(k) = "end"
               PROVE  k <= last
    BY <1>5
  <2>1. ~(k = last + 1 /\ Len(sent) = last + 1)
    BY <1>5
  <2>2. k \in 1..b \/ k = last \/ k \in (b + 1)..(b + n)
    BY <1>12, <2>1
  <2> QED BY <1>4, <2>2
<1>16. Position(Directory[1]) = LocalLen(files, n)
  <2>1. Directory[1] = b + 1 /\ (b + 1) - 1 = b
    BY <1>14
  <2> QED BY <1>3, <2>1, PositionIs
<1>17. Position(last) = LocalLen(files, n) + CentralLen(files, n)
  <2>1. last - 1 = b + n
    BY <1>4
  <2> QED BY <1>3, <2>1, PositionIs
<1>18. ASSUME NEW i \in 1..n
       PROVE  LET entry == sent[Directory[i]].part
              IN /\ Whole(Directory[i])
                 /\ entry.file = files[i].file
                 /\ FileAt(entry, entry.size)
  <2>1. sent[Directory[i]].part = MakeCentralHeader(files[i]) /\ Whole(Directory[i])
    BY <1>10, <1>14
  <2>2. FileAt(MakeCentralHeader(files[i]), files[i].crc.amount)
    BY <1>1, <1>2, FileIsThere
  <2>3. files[i].size \in Nat /\ files[i].crc.amount \in Nat /\ files[i].file \in F
    BY <1>2, InfoFacts DEF StreamInv, EncoderTypes
  <2>4. files[i].size = files[i].crc.amount
    <3>1. Sent = n /\ AmountsOK /\ files[i].size = disk[files[i].file].length
      BY <1>1, <1>2 DEF StreamInv, FilesAgree, Unchanged, Sent, TailStages, FileStages
    <3>2. files[i].size <= files[i].crc.amount /\ files[i].crc.amount <= files[i].size
      BY <3>1 DEF AmountsOK
    <3> QED BY <2>3, <3>2
  <2>5. MakeCentralHeader(files[i]).size = files[i].size % U32
        /\ MakeCentralHeader(files[i]).file = files[i].file
    BY PartFacts
  <2>6. files[i].size % U32 = files[i].size
    <3>1. files[i].crc.amount < U32
      BY <1>1, <1>2, WidthFacts
    <3>2. files[i].size < U32
      BY <2>4, <3>1
    <3>3. \A x, y \in Nat : x < y => x % y = x
      OBVIOUS
    <3> QED BY <2>3, <3>2, <3>3, MarStreamAssumption
  <2> QED BY <2>1, <2>2, <2>4, <2>5, <2>6
<1>19. \E k \in DOMAIN sent :
         LET end == sent[k].part
         IN /\ Kind(k) = "end" /\ Whole(k)
            /\ \A j \in DOMAIN sent : Kind(j) = "end" => j <= k
            /\ end.count = Len(files) /\ Len(Directory) = Len(files)
            /\ Position(Directory[1]) = end.offset
            /\ Position(k) = end.offset + end.size
  BY <1>2, <1>6, <1>9, <1>11, <1>14, <1>15, <1>16, <1>17
<1> QED BY <1>1, <1>2, <1>18, <1>19

\* What the receiver takes for complete it can read: the length that was announced before
\* anything was opened is the length of what the readers produce.
THEOREM StreamAnswerIsReadable == Spec => []AnswerIsReadable
BY StreamInvariance, ReadableFollows, PTL

\* A chunk can be taken apart.
LEMMA ChunkFollows == StreamInv => ChunkIsIntact
<1> SUFFICES ASSUME StreamInv, NEW k \in DOMAIN sent
             PROVE  /\ Kind(k) = "crc" =>
                         \E m \in 0 .. k - 1 :
                           /\ \A j \in 1 .. k - 1 : Kind(j) \in {"wrapper", "chunk"} <=> j <= m
                           /\ sent[k].part.of = SubSeq(sent, m + 1, k - 1)
                    /\ Kind(k) = "wrapper" /\ out = "complete" /\ Unchanged /\ InWidth =>
                         sent[k].part.of = SentLen - sent[k].n
  BY DEF ChunkIsIntact
<1> DEFINE pos == cursor.pos
<1>1. files # <<>>
  BY DEF StreamInv
<1>2. EncoderTypes /\ PartOK /\ ListOK(files) /\ pos \in Nat /\ format \in Formats
      /\ declared = StreamLen(format, files)
  BY <1>1 DEF StreamInv, EncoderTypes, EncoderOK
<1>3. PICK P : \E fin \in Seq(Runs(P)) : Story(fin)
  BY <1>1 DEF StreamInv, EncoderOK
<1>4. PICK fin \in Seq(Runs(P)) : Story(fin)
  BY <1>3
<1>5. /\ \E Q : sent \in Seq(Runs(Q))
      /\ Extends(sent, fin) /\ Len(fin) \in Nat
      /\ Len(sent) = Len(fin) + (IF pos = 0 THEN 0 ELSE 1)
      /\ pos # 0 => sent[Len(fin) + 1] = [part |-> cursor.part, n |-> pos]
  BY <1>2, <1>4, SentFacts DEF Story
<1>6. Len(sent) \in Nat /\ k \in 1..Len(sent)
  BY <1>5
<1>7. /\ LeadOK(fin) /\ DigestOK(fin) /\ CentralOK(fin) /\ \A j \in 1..Len(fin) : sent[j] = fin[j]
  BY <1>4, <1>5 DEF Story, Extends
<1>8. /\ \A l : WrapperHeader(l).kind = "wrapper" /\ WrapperHeader(l).length = 8
      /\ ChunkHeader.kind = "chunk" /\ MessageType.kind = "type"
  BY PartFacts
<1>9. ASSUME Kind(k) = "crc"
      PROVE  \E m \in 0 .. k - 1 :
               /\ \A j \in 1 .. k - 1 : Kind(j) \in {"wrapper", "chunk"} <=> j <= m
               /\ sent[k].part.of = SubSeq(sent, m + 1, k - 1)
  <2>1. k \notin 1..Len(fin)
    <3> SUFFICES ASSUME k \in 1..Len(fin)
                 PROVE  FALSE
      OBVIOUS
    <3> DEFINE b == Base(fin)
               h == HeaderCount
    <3>1. fin[k].part.kind = "crc"
      BY <1>7, <1>9 DEF Kind
    <3>2. /\ \A j \in 1..b : fin[j].part.kind \notin {"central", "end", "crc"}
          /\ stage \in TailStages =>
               /\ b >= 0 /\ \A i \in 1..h : fin[b + i] = CentralRun(files[i])
               /\ stage \in {"done", "crc"} => fin[Len(fin)] = [part |-> EndPart(files), n |-> 22]
          /\ b = Len(fin) - h - (IF stage \in {"done", "crc"} THEN 1 ELSE 0)
      BY <1>7 DEF CentralOK, Base
    <3>3. h \in 0..Len(files) /\ Len(files) \in Nat
      BY <1>2, InfoFacts DEF HeaderCount, EncoderTypes
    <3>4. stage \in TailStages
      <4> SUFFICES ASSUME stage \notin TailStages
                   PROVE  FALSE
        OBVIOUS
      <4>1. b = Len(fin)
        BY <1>5, <3>2 DEF HeaderCount, TailStages
      <4> QED BY <3>1, <3>2, <4>1
    <3> HIDE DEF b, h
    <3>5. b \in Nat /\ ~(k \in 1..b)
      BY <1>5, <3>1, <3>2, <3>3, <3>4
    <3>6. CASE stage \in {"done", "crc"} /\ k = Len(fin)
      <4>1. fin[k].part = EndPart(files) /\ EndPart(files).kind = "end"
        BY <3>2, <3>4, <3>6, PartFacts DEF EndPart
      <4> QED BY <3>1, <4>1
    <3>7. CASE ~(stage \in {"done", "crc"} /\ k = Len(fin))
      <4>0. PICK len \in Nat : len = Len(fin)
        BY <1>5
      <4>1. k - b \in 1..h /\ b + (k - b) = k
        <5>1. k \in 1..len /\ h \in Nat /\ b \in Nat /\ k \notin 1..b
          BY <3>3, <3>5, <4>0
        <5>2. CASE stage \in {"done", "crc"}
          <6>1. b = len - h - 1 /\ k # len
            BY <3>2, <3>7, <4>0, <5>2
          <6> QED BY <5>1, <6>1
        <5>3. CASE stage \notin {"done", "crc"}
          <6>1. b = len - h
            BY <3>2, <3>3, <4>0, <5>1, <5>3
          <6> QED BY <5>1, <6>1
        <5> QED BY <5>2, <5>3
      <4>2. fin[k] = CentralRun(files[k - b])
        BY <3>2, <3>4, <4>1
      <4>3. fin[k].part.kind = "central"
        BY <4>2, PartFacts DEF CentralRun
      <4> QED BY <3>1, <4>3
    <3> QED BY <3>6, <3>7
  <2>2. k = Len(fin) + 1 /\ sent[k].part = cursor.part
    BY <1>5, <1>6, <2>1
  <2>3. stage = "crc"
    BY <1>2, <1>9, <2>2, PartKind DEF Kind
  <2>4. cursor.part = CrcBytes(digest) /\ format \notin Zips
    BY <1>2, <2>3 DEF PartOK
  <2>5. LeadCount \in {2, 3} /\ LeadCount <= Len(fin)
    BY <1>2, <1>7, <2>3, <2>4 DEF LeadCount, Formats, Zips, LeadOK, LeadStages
  <2> DEFINE m == LeadCount - 1
  <2>6. m \in Nat /\ m \in 0..(k - 1) /\ m <= Len(fin)
    BY <1>5, <2>2, <2>5
  <2>7. digest = Behind(fin, m)
    BY <1>7, <2>3, <2>4 DEF DigestOK
  <2>8. sent[k].part.of = Behind(fin, m)
    BY <2>2, <2>4, <2>7, PartFacts
  <2>9. ASSUME NEW j \in 1..(k - 1)
        PROVE  Kind(j) \in {"wrapper", "chunk"} <=> j <= m
    <3>0. j \in 1..Len(fin) /\ sent[j] = fin[j] /\ j \in Nat
      BY <1>5, <1>7, <2>2
    <3>a. \/ j <= LeadCount /\ fin[j] = [part |-> LeadPart(j), n |-> LeadPart(j).length]
          \/ ~(j <= LeadCount) /\ fin[j].part.kind \notin LeadStages
      BY <1>7, <3>0 DEF LeadOK
    <3>1. CASE j > LeadCount
      <4>1. fin[j].part.kind \notin LeadStages
        BY <2>5, <3>0, <3>1, <3>a
      <4> QED BY <2>5, <3>0, <3>1, <4>1 DEF Kind, LeadStages
    <3>2. CASE j = LeadCount
      <4>0. fin[j].part = LeadPart(j)
        BY <2>5, <3>0, <3>2, <3>a
      <4>1. fin[j].part = MessageType
        BY <3>2, <4>0 DEF LeadPart
      <4> QED BY <1>8, <2>5, <3>0, <3>2, <4>1 DEF Kind
    <3>3. CASE j < LeadCount
      <4>1. fin[j].part = LeadPart(j)
        BY <2>5, <3>0, <3>3, <3>a
      <4>2. LeadPart(j) \in {ChunkHeader, WrapperHeader(declared - 8)}
        BY <2>5, <3>0, <3>3 DEF LeadPart
      <4>3. Kind(j) \in {"wrapper", "chunk"}
        BY <1>8, <3>0, <4>1, <4>2 DEF Kind
      <4> QED BY <2>5, <3>0, <3>3, <4>3
    <3> QED BY <2>5, <3>0, <3>1, <3>2, <3>3
  <2> HIDE DEF m
  <2>10. SubSeq(sent, m + 1, k - 1) = Behind(fin, m)
    <3>1. PICK len \in Nat : len = Len(fin) /\ k - 1 = len
      BY <1>5, <2>2
    <3>0. PICK Q : sent \in Seq(Runs(Q))
      BY <1>5
    <3>2. SubSeq(sent, m + 1, k - 1) = [i \in 1..(Len(fin) - m) |-> sent[i + (m + 1) - 1]]
      <4>1. m + 1 \in 1..(Len(sent) + 1) /\ len \in m..Len(sent)
        BY <1>5, <2>6, <3>1
      <4> QED BY <2>6, <3>0, <3>1, <4>1
    <3>3. \A i \in 1..(Len(fin) - m) : i + (m + 1) - 1 = i + m /\ i + m \in 1..Len(fin)
      BY <1>5, <2>6
    <3>4. \A i \in 1..(Len(fin) - m) : sent[i + (m + 1) - 1] = fin[i + m]
      BY <1>7, <3>3
    <3> QED BY <3>2, <3>4 DEF Behind
  <2> QED BY <2>6, <2>8, <2>9, <2>10
<1>10. ASSUME Kind(k) = "wrapper", out = "complete", Unchanged, InWidth
       PROVE  sent[k].part.of = SentLen - sent[k].n
  <2>1. SentLen = declared /\ stage \in {"end", "done", "crc"}
    BY <1>10, CompleteFacts
  <2>2. k \in 1..Len(fin)
    <3> SUFFICES ASSUME k \notin 1..Len(fin)
                 PROVE  FALSE
      OBVIOUS
    <3>1. sent[k].part = cursor.part
      BY <1>5, <1>6
    <3> QED BY <1>2, <1>10, <2>1, <3>1, PartKind DEF Kind
  <2>3. fin[k].part.kind = "wrapper" /\ sent[k] = fin[k]
    BY <1>7, <1>10, <2>2 DEF Kind
  <2>4. fin[k] = [part |-> LeadPart(k), n |-> LeadPart(k).length] /\ k <= LeadCount
    BY <1>7, <2>2, <2>3 DEF LeadOK, LeadStages
  <2>5. LeadPart(k) = WrapperHeader(declared - 8) /\ k # LeadCount /\ k # LeadCount - 1
    BY <1>8, <2>3, <2>4 DEF LeadPart
  <2>6. format = "chunk-wrapped"
    BY <1>2, <2>2, <2>4, <2>5 DEF LeadCount, Formats
  <2>7. declared \in Nat /\ declared - 8 \in Nat
    <3>1. declared = ZipStreamLen(files) + 12 /\ ZipStreamLen(files) \in Nat
      BY <1>2, <2>6, StreamLenFacts, ZipStreamLenFacts
    <3> QED BY <3>1
  <2>8. declared < U32
    <3>1. declared + Growth * Len(Files) < U32
      BY <1>10 DEF InWidth
    <3>2. PICK g \in Nat : g = Growth * Len(Files)
      BY MarStreamAssumption
    <3> QED BY <2>7, <3>1, <3>2, MarStreamAssumption
  <2>9. (declared - 8) % U32 = declared - 8
    <3>1. \A x, y \in Nat : x < y => x % y = x
      OBVIOUS
    <3>2. declared - 8 < U32 /\ U32 \in Nat
      BY <2>7, <2>8, MarStreamAssumption
    <3> QED BY <2>7, <3>1, <3>2
  <2>10. sent[k].part.of = (declared - 8) % U32 /\ sent[k].n = 8
    BY <1>8, <2>3, <2>4, <2>5 DEF WrapperHeader
  <2> QED BY <2>1, <2>9, <2>10
<1> QED BY <1>9, <1>10

\* The CRC of a chunk is that of its message, and the length in front of a wrapped chunk is
\* that of the chunk: the readers are nested, and a read may end anywhere between them.
THEOREM StreamChunkIsIntact == Spec => []ChunkIsIntact
BY StreamInvariance, ChunkFollows, PTL
=============================================================================
