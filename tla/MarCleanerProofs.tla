-------------------------- MODULE MarCleanerProofs --------------------------
(***************************************************************************)
(* Proofs about the MAR staging cleaner.                                   *)
(*                                                                         *)
(* The two loops of clean.rs, the sum of the sizes and the marking of the  *)
(* entries, are recursive functions.  They are shown to be defined by      *)
(* induction on their bound, and from then on only their recursion         *)
(* equations are used.                                                     *)
(*                                                                         *)
(* The marked entries are always the oldest ones of the snapshot: the loop *)
(* stops for good once enough is freed, except for entries that expired,   *)
(* and those are older than all others.  The returned space is honest      *)
(* because each removal moves the size of an entry from what is used to    *)
(* what is freed, at most once for each entry.                             *)
(***************************************************************************)
EXTENDS MarCleaner, FiniteSetTheorems, FunctionTheorems, NaturalsInduction,
        WellFoundedInduction, TLAPS

-----------------------------------------------------------------------------
(* Induction and recursion.                                                *)

\* A set of numbers that is not empty has a least one.
LEMMA LeastNumber ==
  ASSUME NEW T \in SUBSET Nat, T # {}
  PROVE  \E x \in T : \A y \in T : x <= y
<1>1. PICK x \in T : \A y \in T : ~(<<y, x>> \in OpToRel(<, Nat))
  BY NatLessThanWellFounded, WFMin, Zenon
<1>2. \A y \in T : ~(y < x)
  BY <1>1 DEF OpToRel
<1> QED BY <1>2

\* Induction up to a bound, for a property that is given as a set.
LEMMA UpTo ==
  ASSUME NEW N \in Nat, NEW T, 0 \in T, \A n \in 1..N : n - 1 \in T => n \in T
  PROVE  0..N \subseteq T
<1> DEFINE U == {n \in Nat : n \in 0..N /\ n \notin T}
<1> SUFFICES ASSUME U # {}
             PROVE  FALSE
  OBVIOUS
<1>1. PICK x \in U : \A y \in U : x <= y
  <2>1. U \in SUBSET Nat
    OBVIOUS
  <2> HIDE DEF U
  <2> QED BY <2>1, LeastNumber
<1>2. x \in 1..N /\ x - 1 \notin U /\ x - 1 \in 0..N
  BY <1>1
<1> QED BY <1>1, <1>2

\* What a recursive function on 0..N with first value a and step function step satisfies.
Iterates(f, N, a, step) ==
  f = [n \in 0..N |-> IF n = 0 THEN a ELSE step[n][f[n - 1]]]

\* The values of such a function have the type of its first value and its steps.
LEMMA IteratesType ==
  ASSUME NEW N \in Nat, NEW D, NEW a \in D, NEW step \in [1..N -> [D -> D]],
         NEW f, Iterates(f, N, a, step)
  PROVE  f \in [0..N -> D]
<1> DEFINE T == {n \in 0..N : f[n] \in D}
<1>a. f[0] = a /\ \A n \in 1..N : f[n] = step[n][f[n - 1]]
  BY DEF Iterates
<1>b. DOMAIN f = 0..N /\ f = [n \in 0..N |-> f[n]]
  BY DEF Iterates
<1>1. 0 \in T
  BY <1>a
<1>2. ASSUME NEW n \in 1..N, n - 1 \in T
      PROVE  n \in T
  <2>1. f[n] = step[n][f[n - 1]] /\ f[n - 1] \in D /\ step[n] \in [D -> D] /\ n \in 0..N
    BY <1>a, <1>2
  <2> QED BY <2>1
<1> HIDE DEF T
<1>3. 0..N \subseteq T
  BY <1>1, <1>2, UpTo
<1> QED BY <1>b, <1>3 DEF T

\* There is such a function.
LEMMA IteratesExists ==
  ASSUME NEW N \in Nat, NEW D, NEW a \in D, NEW step \in [1..N -> [D -> D]]
  PROVE  \E f : Iterates(f, N, a, step)
<1> DEFINE T == {n \in 0..N : \E f : Iterates(f, n, a, step)}
<1>1. 0 \in T
  <2>1. Iterates([n \in 0..0 |-> a], 0, a, step)
    BY DEF Iterates
  <2> QED BY <2>1
<1>2. ASSUME NEW n \in 1..N, n - 1 \in T
      PROVE  n \in T
  <2>1. PICK f : Iterates(f, n - 1, a, step)
    BY <1>2
  <2> DEFINE g == [i \in 0..n |-> IF i = n THEN step[n][f[n - 1]] ELSE f[i]]
  <2>2. \A i \in 0..(n - 1) : f[i] = IF i = 0 THEN a ELSE step[i][f[i - 1]]
    BY <2>1 DEF Iterates
  <2>3. ASSUME NEW i \in 0..n
        PROVE  g[i] = IF i = 0 THEN a ELSE step[i][g[i - 1]]
    <3>1. CASE i = n
      <4>1. g[n - 1] = f[n - 1]
        OBVIOUS
      <4> QED BY <3>1, <4>1
    <3>2. CASE i # n
      <4>1. i \in 0..(n - 1) /\ g[i] = f[i] /\ (i # 0 => g[i - 1] = f[i - 1])
        BY <3>2
      <4> QED BY <4>1, <2>2
    <3> QED BY <3>1, <3>2
  <2>4. g = [i \in 0..n |-> g[i]]
    OBVIOUS
  <2> HIDE DEF g
  <2>5. Iterates(g, n, a, step)
    BY <2>3, <2>4 DEF Iterates
  <2> QED BY <2>5
<1> HIDE DEF T
<1>3. 0..N \subseteq T
  BY <1>1, <1>2, UpTo
<1>4. N \in T
  BY <1>3
<1> QED BY <1>4 DEF T

-----------------------------------------------------------------------------
(* Sums over sets of entries.                                              *)

\* The recursion that SumOver unrolls.
IsSum(f, S, w) ==
  f = [n \in 0..MaxEntries |->
         IF n = 0 THEN 0 ELSE f[n - 1] + (IF n \in S THEN w[n] ELSE 0)]

\* f adds up the numbers w of the entries in S, and total is the sum.
AddsUp(f, S, w, total) ==
  /\ f \in [0..MaxEntries -> Nat] /\ total = f[MaxEntries] /\ f[0] = 0
  /\ \A n \in Entry : f[n] = f[n - 1] + (IF n \in S THEN w[n] ELSE 0)

\* SumOver is the last value of its recursion, and all values are numbers.
LEMMA SumOverFacts ==
  ASSUME NEW S, NEW w \in [Entry -> Nat]
  PROVE  \E f : AddsUp(f, S, w, SumOver(S, w))
<1> DEFINE step == [n \in 1..MaxEntries |->
                      [x \in Nat |-> x + (IF n \in S THEN w[n] ELSE 0)]]
           sum == CHOOSE f : IsSum(f, S, w)
<1>0. MaxEntries \in Nat
  BY CleanerAssumption
<1>1. step \in [1..MaxEntries -> [Nat -> Nat]]
  <2>1. \A n \in 1..MaxEntries, x \in Nat : x + (IF n \in S THEN w[n] ELSE 0) \in Nat
    BY DEF Entry
  <2> QED BY <2>1
<1>2. PICK g : Iterates(g, MaxEntries, 0, step)
  <2> HIDE DEF step
  <2> QED BY <1>0, <1>1, IteratesExists
<1>3. g \in [0..MaxEntries -> Nat]
  <2> HIDE DEF step
  <2> QED BY <1>0, <1>1, <1>2, IteratesType
<1>4. IsSum(g, S, w)
  <2>1. \A n \in 0..MaxEntries :
          g[n] = IF n = 0 THEN 0 ELSE g[n - 1] + (IF n \in S THEN w[n] ELSE 0)
    <3> SUFFICES ASSUME NEW n \in 0..MaxEntries
                 PROVE  g[n] = IF n = 0 THEN 0
                               ELSE g[n - 1] + (IF n \in S THEN w[n] ELSE 0)
      OBVIOUS
    <3>1. g[n] = IF n = 0 THEN 0 ELSE step[n][g[n - 1]]
      <4> HIDE DEF step
      <4> QED BY <1>2 DEF Iterates
    <3>2. n # 0 => n \in 1..MaxEntries /\ g[n - 1] \in Nat
      BY <1>0, <1>3
    <3> QED BY <3>1, <3>2
  <2>2. g = [n \in 0..MaxEntries |-> g[n]]
    BY <1>3
  <2> QED BY <2>1, <2>2 DEF IsSum
<1>5. IsSum(sum, S, w)
  BY <1>4
<1>6. SumOver(S, w) = sum[MaxEntries]
  BY DEF SumOver, IsSum
<1> HIDE DEF sum
<1>7. \A n \in 0..MaxEntries :
        sum[n] = IF n = 0 THEN 0 ELSE sum[n - 1] + (IF n \in S THEN w[n] ELSE 0)
  BY <1>5 DEF IsSum
<1>a. sum = [n \in 0..MaxEntries |-> sum[n]]
  BY <1>5 DEF IsSum
<1>b. sum[0] = 0
  BY <1>0, <1>7
<1>c. ASSUME NEW n \in 1..MaxEntries
      PROVE  sum[n] = sum[n - 1] + (IF n \in S THEN w[n] ELSE 0)
  <2>1. n \in 0..MaxEntries /\ n # 0
    BY <1>0
  <2> QED BY <1>7, <2>1
<1>8. sum \in [0..MaxEntries -> Nat]
  <2> DEFINE T == {n \in 0..MaxEntries : sum[n] \in Nat}
  <2>1. 0 \in T
    BY <1>0, <1>b
  <2>2. ASSUME NEW n \in 1..MaxEntries, n - 1 \in T
        PROVE  n \in T
    <3>1. w[n] \in Nat /\ sum[n - 1] \in Nat /\ n \in 0..MaxEntries
      BY <1>0, <2>2 DEF Entry
    <3>2. sum[n] = sum[n - 1] + (IF n \in S THEN w[n] ELSE 0)
      BY <1>c
    <3>3. sum[n] \in Nat
      <4> DEFINE x == sum[n - 1]
                 y == w[n]
      <4> HIDE DEF x, y
      <4>1. x \in Nat /\ y \in Nat
        BY <3>1 DEF x, y
      <4>2. x + (IF n \in S THEN y ELSE 0) \in Nat
        BY <4>1
      <4> QED BY <3>2, <4>2 DEF x, y
    <3> QED BY <3>1, <3>3
  <2> HIDE DEF T
  <2>3. 0..MaxEntries \subseteq T
    BY <1>0, <2>1, <2>2, UpTo
  <2> QED BY <1>a, <2>3 DEF T
<1>9. sum[0] = 0 /\ \A n \in Entry : sum[n] = sum[n - 1] + (IF n \in S THEN w[n] ELSE 0)
  BY <1>b, <1>c DEF Entry
<1>10. AddsUp(sum, S, w, SumOver(S, w))
  BY <1>6, <1>8, <1>9 DEF AddsUp
<1> QED BY <1>10

\* A sum is a number.
LEMMA SumType ==
  ASSUME NEW S, NEW w \in [Entry -> Nat]
  PROVE  SumOver(S, w) \in Nat
<1>2. PICK f : AddsUp(f, S, w, SumOver(S, w))
  BY SumOverFacts
<1>3. MaxEntries \in 0..MaxEntries
  BY CleanerAssumption
<1> QED BY <1>2, <1>3 DEF AddsUp

\* Nothing adds up to zero.
LEMMA SumEmpty ==
  ASSUME NEW w \in [Entry -> Nat]
  PROVE  SumOver({}, w) = 0
<1>0. MaxEntries \in Nat
  BY CleanerAssumption
<1>a. PICK f : AddsUp(f, {}, w, SumOver({}, w))
  BY SumOverFacts
<1>1. /\ f \in [0..MaxEntries -> Nat] /\ SumOver({}, w) = f[MaxEntries] /\ f[0] = 0
      /\ \A n \in Entry : f[n] = f[n - 1] + 0
  BY <1>a DEF AddsUp
<1> DEFINE T == {n \in 0..MaxEntries : f[n] = 0}
<1>2. 0 \in T
  BY <1>0, <1>1
<1>3. ASSUME NEW n \in 1..MaxEntries, n - 1 \in T
      PROVE  n \in T
  BY <1>0, <1>1, <1>3 DEF Entry
<1> HIDE DEF T
<1>4. 0..MaxEntries \subseteq T
  BY <1>0, <1>2, <1>3, UpTo
<1> QED BY <1>0, <1>1, <1>4 DEF T

\* One more entry adds its own number.
LEMMA SumAdd ==
  ASSUME NEW S, NEW w \in [Entry -> Nat], NEW e \in Entry, e \notin S
  PROVE  SumOver(S \cup {e}, w) = SumOver(S, w) + w[e]
<1>0. MaxEntries \in Nat /\ e \in 1..MaxEntries /\ w[e] \in Nat
  BY CleanerAssumption DEF Entry
<1>a. PICK f : AddsUp(f, S, w, SumOver(S, w))
  BY SumOverFacts
<1>b. PICK g : AddsUp(g, S \cup {e}, w, SumOver(S \cup {e}, w))
  BY SumOverFacts
<1>1. /\ f \in [0..MaxEntries -> Nat] /\ SumOver(S, w) = f[MaxEntries] /\ f[0] = 0
      /\ \A n \in Entry : f[n] = f[n - 1] + (IF n \in S THEN w[n] ELSE 0)
  BY <1>a DEF AddsUp
<1>2. /\ g \in [0..MaxEntries -> Nat] /\ SumOver(S \cup {e}, w) = g[MaxEntries] /\ g[0] = 0
      /\ \A n \in Entry : g[n] = g[n - 1] + (IF n \in S \cup {e} THEN w[n] ELSE 0)
  BY <1>b DEF AddsUp
<1> DEFINE T == {n \in 0..MaxEntries : g[n] = f[n] + (IF n < e THEN 0 ELSE w[e])}
<1>3. 0 \in T
  BY <1>0, <1>1, <1>2
<1>4. ASSUME NEW n \in 1..MaxEntries, n - 1 \in T
      PROVE  n \in T
  <2>a. n \in Entry /\ n \in 0..MaxEntries /\ n - 1 \in 0..MaxEntries
    BY <1>0 DEF Entry
  <2>b. w[n] \in Nat /\ f[n - 1] \in Nat /\ g[n - 1] \in Nat
    BY <1>1, <1>2, <2>a
  <2>c. f[n] = f[n - 1] + (IF n \in S THEN w[n] ELSE 0)
    BY <1>1, <2>a
  <2>d. g[n] = g[n - 1] + (IF n \in S \cup {e} THEN w[n] ELSE 0)
    BY <1>2, <2>a
  <2>1. /\ w[n] \in Nat /\ f[n - 1] \in Nat /\ g[n - 1] \in Nat /\ n \in 0..MaxEntries
        /\ n \in S => f[n] = f[n - 1] + w[n]
        /\ n \notin S => f[n] = f[n - 1]
        /\ n \in S \/ n = e => g[n] = g[n - 1] + w[n]
        /\ n \notin S /\ n # e => g[n] = g[n - 1]
    BY <2>a, <2>b, <2>c, <2>d
  <2>2. g[n - 1] = f[n - 1] + (IF n - 1 < e THEN 0 ELSE w[e])
    BY <1>4
  <2>3. CASE n < e
    BY <2>1, <2>2, <2>3, <1>0
  <2>4. CASE n = e
    BY <2>1, <2>2, <2>4, <1>0
  <2>5. CASE n > e
    <3>1. g[n - 1] = f[n - 1] + w[e] /\ n # e
      BY <2>2, <2>5, <1>0
    <3>2. g[n] = f[n] + w[e]
      <4>1. CASE n \in S
        <5>1. g[n] = g[n - 1] + w[n] /\ f[n] = f[n - 1] + w[n]
          BY <4>1, <2>1
        <5>2. \A x, y, z \in Nat : (x + y) + z = (x + z) + y
          OBVIOUS
        <5>3. (f[n - 1] + w[e]) + w[n] = (f[n - 1] + w[n]) + w[e]
          BY <5>2, <2>b, <1>0
        <5> QED BY <5>1, <5>3, <3>1
      <4>2. CASE n \notin S
        BY <4>2, <2>1, <3>1, <1>0
      <4> QED BY <4>1, <4>2
    <3> QED BY <2>1, <2>5, <3>2, <1>0
  <2> QED BY <2>3, <2>4, <2>5, <1>0
<1> HIDE DEF T
<1>5. 0..MaxEntries \subseteq T
  BY <1>0, <1>3, <1>4, UpTo
<1>6. MaxEntries \in T
  BY <1>0, <1>5
<1> QED BY <1>0, <1>1, <1>2, <1>6 DEF T

-----------------------------------------------------------------------------
(* Sizes.                                                                  *)

\* The size of a set of entries is a size; of the empty set it is zero.
LEMMA TotalType ==
  ASSUME TypeOK
  PROVE  Total({}) = Zero /\ \A S : Total(S) \in DiskSizes
<1> DEFINE b == [e \in Entry |-> size[e].bytes]
           i == [e \in Entry |-> size[e].inodes]
<1>1. b \in [Entry -> Nat] /\ i \in [Entry -> Nat]
  BY DEF TypeOK, DiskSizes
<1>2. \A S : Bytes(S) = SumOver(S, b) /\ Inodes(S) = SumOver(S, i)
  BY DEF Bytes, Inodes
<1> HIDE DEF b, i
<1>3. \A S : SumOver(S, b) \in Nat /\ SumOver(S, i) \in Nat
  BY <1>1, SumType
<1>4. SumOver({}, b) = 0 /\ SumOver({}, i) = 0
  BY <1>1, SumEmpty
<1> QED BY <1>1, <1>2, <1>3, <1>4 DEF Total, Zero, DiskSizes

\* One more entry adds its size.
LEMMA TotalAdd ==
  ASSUME TypeOK, NEW S, NEW e \in Entry, e \notin S
  PROVE  Total(S \cup {e}) = Plus(Total(S), size[e])
<1> DEFINE b == [d \in Entry |-> size[d].bytes]
           i == [d \in Entry |-> size[d].inodes]
<1>1. b \in [Entry -> Nat] /\ i \in [Entry -> Nat]
  BY DEF TypeOK, DiskSizes
<1>2. \A U : Bytes(U) = SumOver(U, b) /\ Inodes(U) = SumOver(U, i)
  BY DEF Bytes, Inodes
<1>3. b[e] = size[e].bytes /\ i[e] = size[e].inodes
  OBVIOUS
<1> HIDE DEF b, i
<1>4. /\ SumOver(S \cup {e}, b) = SumOver(S, b) + b[e]
      /\ SumOver(S \cup {e}, i) = SumOver(S, i) + i[e]
  BY <1>1, SumAdd
<1> QED BY <1>2, <1>3, <1>4 DEF Total, Plus

\* Removing an entry takes its size off.
LEMMA TotalRemove ==
  ASSUME TypeOK, NEW S, NEW e \in Entry, e \in S
  PROVE  Total(S) = Plus(Total(S \ {e}), size[e])
<1>1. S = (S \ {e}) \cup {e} /\ e \notin S \ {e}
  OBVIOUS
<1>2. Total((S \ {e}) \cup {e}) = Plus(Total(S \ {e}), size[e])
  BY <1>1, TotalAdd
<1> QED BY <1>1, <1>2

-----------------------------------------------------------------------------
(* The entries, oldest first.                                              *)

\* q lists the elements of S in increasing order.
IsListing(q, S) ==
  /\ q \in [1..Cardinality(S) -> S]
  /\ \A i, j \in 1..Cardinality(S) : i < j => q[i] < q[j]

\* Every set of entries can be listed in order: add the largest one to a listing of the
\* others.
LEMMA ListingExists ==
  ASSUME NEW n \in Nat, NEW A \in SUBSET (1..n)
  PROVE  \E q : IsListing(q, A)
<1> DEFINE T == {m \in 0..n : \A S \in SUBSET (1..m) : \E q : IsListing(q, S)}
<1>1. 0 \in T
  <2> SUFFICES ASSUME NEW S \in SUBSET (1..0)
               PROVE  \E q : IsListing(q, S)
    OBVIOUS
  <2>1. S = {}
    OBVIOUS
  <2>2. Cardinality(S) = 0
    BY <2>1, FS_EmptySet
  <2>3. [i \in 1..0 |-> 0] \in [1..0 -> S]
    OBVIOUS
  <2>4. IsListing([i \in 1..0 |-> 0], S)
    BY <2>2, <2>3 DEF IsListing
  <2> QED BY <2>4
<1>2. ASSUME NEW m \in 1..n, m - 1 \in T
      PROVE  m \in T
  <2> SUFFICES ASSUME NEW S \in SUBSET (1..m)
               PROVE  \E q : IsListing(q, S)
    OBVIOUS
  <2>0. m \in Nat /\ IsFiniteSet(S) /\ Cardinality(S) \in Nat
    <3>1. IsFiniteSet(1..m)
      BY FS_Interval
    <3>2. IsFiniteSet(S)
      BY <3>1, FS_Subset
    <3> QED BY <3>2, FS_CardinalityType
  <2>1. CASE m \notin S
    <3>1. S \in SUBSET (1..(m - 1))
      BY <2>0, <2>1
    <3> QED BY <1>2, <3>1
  <2>2. CASE m \in S
    <3> DEFINE R == S \ {m}
               k == Cardinality(S)
    <3>1. R \in SUBSET (1..(m - 1))
      BY <2>0
    <3>2. PICK q : IsListing(q, R)
      BY <1>2, <3>1
    <3>3. Cardinality(R) = k - 1 /\ IsFiniteSet(R)
      BY <2>0, <2>2, FS_RemoveElement
    <3>4. k - 1 \in Nat /\ k \in Nat
      BY <2>0, <3>3, FS_CardinalityType
    <3> HIDE DEF k
    <3>5. q \in [1..(k - 1) -> R] /\ \A i, j \in 1..(k - 1) : i < j => q[i] < q[j]
      BY <3>2, <3>3 DEF IsListing
    <3> DEFINE r == [i \in 1..k |-> IF i < k THEN q[i] ELSE m]
    <3>6. r \in [1..k -> S]
      BY <2>2, <3>4, <3>5
    <3>7. ASSUME NEW i \in 1..k, NEW j \in 1..k, i < j
          PROVE  r[i] < r[j]
      <4>1. i \in 1..(k - 1) /\ r[i] = q[i] /\ q[i] \in 1..(m - 1)
        <5>1. i \in 1..(k - 1) /\ i < k
          BY <3>4, <3>7
        <5>2. q[i] \in R
          BY <3>5, <5>1
        <5> QED BY <3>1, <5>1, <5>2
      <4>2. CASE j < k
        <5>1. j \in 1..(k - 1) /\ r[j] = q[j]
          BY <3>4, <4>2
        <5> QED BY <3>5, <3>7, <4>1, <5>1
      <4>3. CASE j = k
        <5>1. r[j] = m
          BY <3>4, <4>3
        <5> QED BY <2>0, <4>1, <5>1
      <4> QED BY <3>4, <4>2, <4>3
    <3> HIDE DEF r
    <3>8. IsListing(r, S)
      BY <3>6, <3>7 DEF IsListing, k
    <3> QED BY <3>8
  <2> QED BY <2>1, <2>2
<1> HIDE DEF T
<1>3. n \in T
  <2>1. 0..n \subseteq T
    BY <1>1, <1>2, UpTo
  <2> QED BY <2>1
<1> QED BY <1>3 DEF T

\* OldestFirst lists every entry once, each one after all the older ones.
LEMMA OldestFirstFacts ==
  ASSUME NEW S \in SUBSET Entry
  PROVE  \E n \in Nat :
           /\ OldestFirst(S) \in [1..n -> S] /\ OldestFirst(S) \in Seq(Entry)
           /\ Len(OldestFirst(S)) = n
           /\ \A i, j \in 1..n : i < j => OldestFirst(S)[i] < OldestFirst(S)[j]
           /\ \A e \in S : \E i \in 1..n : OldestFirst(S)[i] = e
<1> DEFINE q == OldestFirst(S)
           n == Cardinality(S)
<1>0. MaxEntries \in Nat /\ IsFiniteSet(S) /\ n \in Nat /\ S \in SUBSET Nat
  <2>1. MaxEntries \in Nat
    BY CleanerAssumption
  <2>2. IsFiniteSet(Entry)
    BY <2>1, FS_Interval DEF Entry
  <2>3. IsFiniteSet(S)
    BY <2>2, FS_Subset
  <2> QED BY <2>1, <2>3, FS_CardinalityType DEF Entry
<1>1. PICK p : IsListing(p, S)
  BY <1>0, ListingExists DEF Entry
<1>2. IsListing(q, S)
  <2>1. \E o \in [1..Cardinality(S) -> S] :
          \A i, j \in 1..Cardinality(S) : i < j => o[i] < o[j]
    BY <1>1 DEF IsListing
  <2> QED BY <2>1 DEF OldestFirst, IsListing
<1> HIDE DEF q
<1>3. q \in [1..n -> S] /\ \A i, j \in 1..n : i < j => q[i] < q[j]
  BY <1>2 DEF IsListing
<1>4. q \in Injection(1..n, S)
  <2>1. \A i, j \in 1..n : q[i] = q[j] => i = j
    <3> SUFFICES ASSUME NEW i \in 1..n, NEW j \in 1..n, q[i] = q[j], i # j
                 PROVE  FALSE
      OBVIOUS
    <3>1. q[i] \in Nat /\ q[j] \in Nat
      BY <1>0, <1>3
    <3>2. i < j \/ j < i
      BY <1>0
    <3>3. q[i] < q[j] \/ q[j] < q[i]
      BY <1>3, <3>2
    <3> QED BY <3>1, <3>3
  <2> QED BY <1>3, <2>1, Fun_IsInj
<1>5. q \in Surjection(1..n, S)
  <2>1. Cardinality(1..n) = n
    BY <1>0, FS_Interval
  <2> QED BY <1>0, <1>4, <2>1, FS_Injection
<1>6. \A e \in S : \E i \in 1..n : q[i] = e
  BY <1>5 DEF Surjection
<1> HIDE DEF n
<1>7. q \in Seq(Entry) /\ Len(q) = n
  <2>1. q \in [1..n -> Entry]
    BY <1>3
  <2> QED BY <1>0, <2>1
<1> QED BY <1>0, <1>3, <1>6, <1>7 DEF q

-----------------------------------------------------------------------------
(* The loop that marks entries.                                            *)

\* Enough is freed for the quota and the headroom.
Enough(space) == NeedToFree = Zero \/ Exceeds(space, NeedToFree)

\* The values of the loop's accumulator.
Accumulators == [freed : DiskSizes, list : Seq(Entry)]

\* The recursion that MarkedOf unrolls.
IsMarking(f, q) ==
  f = [i \in 0..Len(q) |->
         IF i = 0 THEN [freed |-> Zero, list |-> <<>>] ELSE MarkEntry(f[i - 1], q[i])]

\* f is the run of the loop over q, and list what it marks.
MarksAlong(f, q, list) ==
  /\ f \in [0..Len(q) -> Accumulators] /\ f[0] = [freed |-> Zero, list |-> <<>>]
  /\ \A i \in 1..Len(q) : f[i] = MarkEntry(f[i - 1], q[i])
  /\ list = f[Len(q)].list

\* Zero is a size, and so is a sum of sizes.
LEMMA SizesClosed ==
  Zero \in DiskSizes /\ \A a, b \in DiskSizes : Plus(a, b) \in DiskSizes
BY DEF Zero, Plus, DiskSizes

\* The loop's step keeps the accumulator's type.
LEMMA MarkEntryType ==
  ASSUME TypeOK, NEW acc \in Accumulators, NEW e \in Entry
  PROVE  MarkEntry(acc, e) \in Accumulators
<1>1. size[e] \in DiskSizes /\ acc.freed \in DiskSizes /\ acc.list \in Seq(Entry)
  BY DEF TypeOK, Accumulators
<1>2. Plus(acc.freed, size[e]) \in DiskSizes /\ Append(acc.list, e) \in Seq(Entry)
  BY <1>1, SizesClosed
<1> QED BY <1>2 DEF MarkEntry, Accumulators

\* MarkedOf is what the last value of its recursion has marked.
LEMMA MarkedOfFacts ==
  ASSUME TypeOK, NEW q \in Seq(Entry)
  PROVE  \E f : MarksAlong(f, q, MarkedOf(q))
<1> DEFINE N == Len(q)
           first == [freed |-> Zero, list |-> <<>>]
           step == [i \in 1..N |-> [acc \in Accumulators |-> MarkEntry(acc, q[i])]]
           run == CHOOSE f : IsMarking(f, q)
<1>0. N \in Nat /\ \A i \in 1..N : q[i] \in Entry
  OBVIOUS
<1>1. first \in Accumulators
  BY SizesClosed DEF Accumulators
<1>2. step \in [1..N -> [Accumulators -> Accumulators]]
  BY <1>0, MarkEntryType
<1>3. PICK g : Iterates(g, N, first, step)
  <2> HIDE DEF step, N, first
  <2> QED BY <1>0, <1>1, <1>2, IteratesExists
<1>4. g \in [0..N -> Accumulators]
  <2> HIDE DEF step, N, first
  <2> QED BY <1>0, <1>1, <1>2, <1>3, IteratesType
<1>5. IsMarking(g, q)
  <2>1. ASSUME NEW i \in 0..N
        PROVE  g[i] = IF i = 0 THEN first ELSE MarkEntry(g[i - 1], q[i])
    <3>1. g[i] = IF i = 0 THEN first ELSE step[i][g[i - 1]]
      <4> HIDE DEF step, N, first
      <4> QED BY <1>3 DEF Iterates
    <3>2. i # 0 => i \in 1..N /\ g[i - 1] \in Accumulators
      <4> HIDE DEF N
      <4> QED BY <1>0, <1>4
    <3> HIDE DEF N, first
    <3>3. i # 0 => step[i][g[i - 1]] = MarkEntry(g[i - 1], q[i])
      BY <3>2
    <3> QED BY <3>1, <3>3
  <2>2. g = [i \in 0..N |-> g[i]]
    BY <1>4
  <2>3. g = [i \in 0..N |-> IF i = 0 THEN first ELSE MarkEntry(g[i - 1], q[i])]
    <3> HIDE DEF N, first
    <3> QED BY <2>1, <2>2
  <2> QED BY <2>3 DEF IsMarking
<1>6. IsMarking(run, q)
  BY <1>5
<1>7. MarkedOf(q) = run[N].list
  BY DEF MarkedOf, IsMarking
<1> HIDE DEF run
<1>8. run = [i \in 0..N |-> IF i = 0 THEN first ELSE MarkEntry(run[i - 1], q[i])]
  BY <1>6 DEF IsMarking
<1> HIDE DEF N, first
<1>9. run[0] = first
  BY <1>0, <1>8
<1>10. ASSUME NEW i \in 1..N
       PROVE  run[i] = MarkEntry(run[i - 1], q[i])
  <2>1. i \in 0..N /\ i # 0
    BY <1>0
  <2> QED BY <1>8, <2>1
<1>11. Iterates(run, N, first, step)
  <2> DEFINE T == {i \in 0..N : run[i] \in Accumulators}
  <2>1. 0 \in T
    BY <1>0, <1>1, <1>9
  <2>2. ASSUME NEW i \in 1..N, i - 1 \in T
        PROVE  i \in T
    BY <1>0, <1>10, <2>2, MarkEntryType
  <2>3. 0..N \subseteq T
    <3> HIDE DEF T
    <3> QED BY <1>0, <2>1, <2>2, UpTo
  <2>4. ASSUME NEW i \in 0..N
        PROVE  run[i] = IF i = 0 THEN first ELSE step[i][run[i - 1]]
    <3>1. CASE i = 0
      BY <1>9, <3>1
    <3>2. CASE i # 0
      <4>1. i \in 1..N /\ i - 1 \in 0..N
        BY <1>0, <3>2
      <4>2. run[i - 1] \in Accumulators
        BY <2>3, <4>1
      <4>3. step[i][run[i - 1]] = MarkEntry(run[i - 1], q[i])
        BY <4>1, <4>2
      <4> QED BY <1>10, <3>2, <4>1, <4>3
    <3> QED BY <3>1, <3>2
  <2>5. run = [i \in 0..N |-> run[i]]
    BY <1>8
  <2> HIDE DEF step
  <2> QED BY <2>4, <2>5 DEF Iterates
<1>12. run \in [0..N -> Accumulators]
  <2> HIDE DEF step
  <2> QED BY <1>0, <1>1, <1>2, <1>11, IteratesType
<1>13. MarksAlong(run, q, MarkedOf(q))
  BY <1>7, <1>9, <1>10, <1>12 DEF MarksAlong, N, first
<1> QED BY <1>13

\* The first k entries of the listing q.
Oldest(q, k) == {q[j] : j \in 1..k}

\* After i rounds the loop has marked the k oldest entries.  If it has skipped one, enough
\* is freed and the skipped one has not expired; and each marked one was needed or expired.
LoopInv(q, acc, i, k) ==
  /\ ToSet(acc.list) = Oldest(q, k) /\ acc.freed = Total(Oldest(q, k))
  /\ k < i => Enough(acc.freed) /\ q[k + 1] > expired
  /\ \A j \in 1..k : q[j] <= expired \/ ~Enough(Total(Oldest(q, j - 1)))

\* Appending an element adds it to the set.
LEMMA ToSetAppend ==
  ASSUME NEW D, NEW s \in Seq(D), NEW e \in D
  PROVE  ToSet(Append(s, e)) = ToSet(s) \cup {e}
<1>1. Len(Append(s, e)) = Len(s) + 1 /\ Len(s) \in Nat
  OBVIOUS
<1>2. \A i \in 1..Len(s) : Append(s, e)[i] = s[i]
  OBVIOUS
<1>3. Append(s, e)[Len(s) + 1] = e
  OBVIOUS
<1>4. DOMAIN Append(s, e) = 1..(Len(s) + 1) /\ DOMAIN s = 1..Len(s)
  OBVIOUS
<1>5. \A i \in 1..(Len(s) + 1) : i \in 1..Len(s) \/ i = Len(s) + 1
  BY <1>1
<1>6. 1..Len(s) \subseteq 1..(Len(s) + 1) /\ Len(s) + 1 \in 1..(Len(s) + 1)
  BY <1>1
<1>7. ToSet(Append(s, e)) \subseteq ToSet(s) \cup {e}
  BY <1>2, <1>3, <1>4, <1>5 DEF ToSet
<1>8. ToSet(s) \cup {e} \subseteq ToSet(Append(s, e))
  BY <1>2, <1>3, <1>4, <1>6 DEF ToSet
<1> QED BY <1>7, <1>8

\* The loop has its invariant after every round.
LEMMA LoopIsInvariant ==
  ASSUME TypeOK, NEW n \in Nat, NEW q \in [1..n -> Entry], Len(q) = n,
         \A i, j \in 1..n : i < j => q[i] < q[j],
         NEW f, NEW list, MarksAlong(f, q, list)
  PROVE  \A i \in 0..n : \E k \in 0..i : LoopInv(q, f[i], i, k)
<1> DEFINE T == {i \in 0..n : \E k \in 0..i : LoopInv(q, f[i], i, k)}
<1>0. /\ f \in [0..n -> Accumulators] /\ f[0] = [freed |-> Zero, list |-> <<>>]
      /\ \A i \in 1..n : f[i] = MarkEntry(f[i - 1], q[i])
  BY DEF MarksAlong
<1>a. Entry \subseteq Nat /\ expired \in Nat
  BY CleanerAssumption DEF TypeOK, Entry
<1>1. 0 \in T
  <2>1. Oldest(q, 0) = {}
    BY DEF Oldest
  <2>2. ToSet(f[0].list) = {} /\ f[0].freed = Total({})
    BY <1>0, TotalType DEF ToSet
  <2>3. LoopInv(q, f[0], 0, 0)
    <3>1. ~(0 < 0) /\ \A j \in 1..0 : FALSE
      OBVIOUS
    <3> QED BY <2>1, <2>2, <3>1 DEF LoopInv
  <2> QED BY <2>3
<1>2. ASSUME NEW i \in 1..n, i - 1 \in T
      PROVE  i \in T
  <2>1. PICK k \in 0..(i - 1) : LoopInv(q, f[i - 1], i - 1, k)
    BY <1>2
  <2> DEFINE acc == f[i - 1]
             new == f[i]
             e == q[i]
  <2>2. e \in Entry /\ e \in Nat /\ acc \in Accumulators /\ new = MarkEntry(acc, e)
    <3>1. i - 1 \in 0..n
      OBVIOUS
    <3>2. f[i - 1] \in Accumulators
      BY <1>0, <3>1
    <3>3. f[i] = MarkEntry(f[i - 1], q[i])
      BY <1>0
    <3> QED BY <1>a, <3>2, <3>3
  <2>a. acc.list \in Seq(Entry)
    BY <2>2 DEF Accumulators
  <2>3. /\ ToSet(acc.list) = Oldest(q, k) /\ acc.freed = Total(Oldest(q, k))
        /\ k < i - 1 => Enough(acc.freed) /\ q[k + 1] > expired
        /\ \A j \in 1..k : q[j] <= expired \/ ~Enough(Total(Oldest(q, j - 1)))
    BY <2>1 DEF LoopInv
  <2>4. new = IF ~Enough(acc.freed) \/ e <= expired
                THEN [freed |-> Plus(acc.freed, size[e]), list |-> Append(acc.list, e)]
                ELSE acc
    BY <2>2 DEF MarkEntry, Enough
  <2> HIDE DEF acc, new, e
  <2>5. CASE k < i - 1
    <3>1. Enough(acc.freed) /\ q[k + 1] > expired
      BY <2>3, <2>5
    <3>2. k + 1 \in 1..n /\ k + 1 < i /\ q[k + 1] \in Nat
      <4>1. k + 1 \in 1..n /\ k + 1 < i
        BY <2>5
      <4> QED BY <4>1, <1>a
    <3>3. q[k + 1] < e
      BY <3>2 DEF e
    <3>4. new = acc
      BY <3>1, <3>2, <3>3, <2>2, <2>4, <1>a
    <3>5. LoopInv(q, new, i, k) /\ k \in 0..i
      BY <2>3, <3>1, <3>4 DEF LoopInv
    <3> QED BY <3>5 DEF new
  <2>6. CASE k = i - 1 /\ (~Enough(acc.freed) \/ e <= expired)
    <3>1. new = [freed |-> Plus(acc.freed, size[e]), list |-> Append(acc.list, e)]
      BY <2>4, <2>6
    <3>2. Oldest(q, i) = Oldest(q, k) \cup {e}
      <4>1. 1..i = (1..k) \cup {i}
        BY <2>6
      <4> QED BY <4>1 DEF Oldest, e
    <3>3. e \notin Oldest(q, k)
      <4> SUFFICES ASSUME NEW j \in 1..k, q[j] = e
                   PROVE  FALSE
        BY DEF Oldest
      <4>1. j \in 1..n /\ j < i
        BY <2>6
      <4>2. q[j] < e
        BY <4>1 DEF e
      <4> QED BY <4>2, <2>2
    <3>4. Total(Oldest(q, i)) = Plus(Total(Oldest(q, k)), size[e])
      BY <3>2, <3>3, <2>2, TotalAdd
    <3>5. ToSet(new.list) = Oldest(q, i) /\ new.freed = Total(Oldest(q, i))
      BY <2>2, <2>3, <2>a, <3>1, <3>2, <3>4, ToSetAppend
    <3>6. \A j \in 1..i : q[j] <= expired \/ ~Enough(Total(Oldest(q, j - 1)))
      <4> SUFFICES ASSUME NEW j \in 1..i
                   PROVE  q[j] <= expired \/ ~Enough(Total(Oldest(q, j - 1)))
        OBVIOUS
      <4>1. CASE j \in 1..k
        BY <2>3, <4>1
      <4>2. CASE j = i
        BY <2>3, <2>6, <4>2 DEF e
      <4> QED BY <4>1, <4>2, <2>6
    <3>7. LoopInv(q, new, i, i) /\ i \in 0..i
      BY <3>5, <3>6 DEF LoopInv
    <3> QED BY <3>7 DEF new
  <2>7. CASE k = i - 1 /\ ~(~Enough(acc.freed) \/ e <= expired)
    <3>1. new = acc /\ Enough(acc.freed) /\ e > expired /\ q[k + 1] = e
      BY <2>2, <2>4, <2>7, <1>a DEF e
    <3>2. LoopInv(q, new, i, k) /\ k \in 0..i
      BY <2>3, <3>1 DEF LoopInv
    <3> QED BY <3>2 DEF new
  <2> QED BY <2>5, <2>6, <2>7
<1> HIDE DEF T
<1>3. 0..n \subseteq T
  BY <1>1, <1>2, UpTo
<1> QED BY <1>3 DEF T

-----------------------------------------------------------------------------
(* The inductive invariant.                                                *)

\* V are the oldest entries of S, enough of them, and none without need.
RightVictims(V, S) ==
  /\ V \subseteq S
  /\ \A e \in V : {d \in S : d < e} \subseteq V
  /\ V # S => Enough(Total(V))
  /\ \A e \in V : e <= expired \/ ~Enough(Total({d \in S : d < e}))

\* The entries that the loop marks are the right victims.
LEMMA MarkedAreRight ==
  ASSUME TypeOK
  PROVE  /\ MarkedOf(OldestFirst(snapshot)) \in Seq(Entry)
         /\ RightVictims(ToSet(MarkedOf(OldestFirst(snapshot))), snapshot)
<1> DEFINE q == OldestFirst(snapshot)
           list == MarkedOf(q)
<1>0. snapshot \in SUBSET Entry /\ Entry \subseteq Nat /\ expired \in Nat
  BY CleanerAssumption DEF TypeOK, Entry
<1>1. PICK n \in Nat :
        /\ q \in [1..n -> snapshot] /\ q \in Seq(Entry) /\ Len(q) = n
        /\ \A i, j \in 1..n : i < j => q[i] < q[j]
        /\ \A e \in snapshot : \E i \in 1..n : q[i] = e
  BY <1>0, OldestFirstFacts
<1> HIDE DEF q
<1>2. PICK f : MarksAlong(f, q, list)
  BY <1>1, MarkedOfFacts
<1>a. q \in [1..n -> Entry]
  BY <1>0, <1>1
<1> HIDE DEF list
<1>3. \A i \in 0..n : \E k \in 0..i : LoopInv(q, f[i], i, k)
  BY <1>1, <1>2, <1>a, LoopIsInvariant
<1>4. PICK k \in 0..n : LoopInv(q, f[n], n, k)
  BY <1>3
<1>5. list = f[n].list /\ f[n] \in Accumulators
  BY <1>1, <1>2 DEF MarksAlong
<1>6. list \in Seq(Entry)
  BY <1>5 DEF Accumulators
<1>7. /\ ToSet(list) = Oldest(q, k)
      /\ k < n => Enough(Total(Oldest(q, k)))
      /\ \A j \in 1..k : q[j] <= expired \/ ~Enough(Total(Oldest(q, j - 1)))
  BY <1>4, <1>5 DEF LoopInv
<1>8. ASSUME NEW j \in 1..n
      PROVE  {d \in snapshot : d < q[j]} = Oldest(q, j - 1)
  <2>1. ASSUME NEW d \in snapshot, d < q[j]
        PROVE  d \in Oldest(q, j - 1)
    <3>1. PICK i \in 1..n : q[i] = d
      BY <1>1
    <3>2. q[i] \in Nat /\ q[j] \in Nat
      BY <1>0, <1>a
    <3>3. ~(j < i) /\ i # j
      BY <1>1, <2>1, <3>1, <3>2
    <3>4. i \in 1..(j - 1)
      BY <3>3
    <3> QED BY <3>1, <3>4 DEF Oldest
  <2>2. ASSUME NEW i \in 1..(j - 1)
        PROVE  q[i] \in snapshot /\ q[i] < q[j]
    <3>1. i \in 1..n /\ i < j
      OBVIOUS
    <3> QED BY <1>1, <3>1
  <2> QED BY <2>1, <2>2 DEF Oldest
<1>9. Oldest(q, k) \subseteq snapshot
  BY <1>1 DEF Oldest
<1>10. ASSUME NEW e \in Oldest(q, k)
       PROVE  /\ {d \in snapshot : d < e} \subseteq Oldest(q, k)
              /\ e <= expired \/ ~Enough(Total({d \in snapshot : d < e}))
  <2>1. PICK j \in 1..k : q[j] = e
    BY DEF Oldest
  <2>2. {d \in snapshot : d < e} = Oldest(q, j - 1)
    BY <1>8, <2>1
  <2>3. Oldest(q, j - 1) \subseteq Oldest(q, k)
    <3>1. 1..(j - 1) \subseteq 1..k
      OBVIOUS
    <3> QED BY <3>1 DEF Oldest
  <2> QED BY <1>7, <2>1, <2>2, <2>3
<1>11. ASSUME Oldest(q, k) # snapshot
       PROVE  k < n
  <2> SUFFICES ASSUME k = n
               PROVE  Oldest(q, k) = snapshot
    BY <1>11
  <2> QED BY <1>1, <1>9 DEF Oldest
<1>12. RightVictims(ToSet(list), snapshot)
  BY <1>7, <1>9, <1>10, <1>11 DEF RightVictims
<1> QED BY <1>6, <1>12 DEF list, q

\* What has been removed is counted as freed, and nothing else: the staging area holds no
\* more than what was used and added, and the disk has no less than what was free and added.
SpaceIsAccounted ==
  /\ pc \in {"statvfs", "collect"} => freed = Zero
  /\ pc \in {"mark", "remove", "done"} =>
       AtLeast(Plus(used, added), Plus(Total(entries), freed))
  /\ AtLeast(Plus(disk, added), Plus(available, freed))

\* The inductive invariant of the cleaner.
CleanerInv ==
  /\ TypeOK /\ entries \subseteq 1..newest
  /\ Marked => RightVictims(victims, snapshot)
  /\ SpaceIsAccounted
  /\ pc = "done" =>
       result = SmallerSize(SaturatingSub(maxTotal, SaturatingSub(used, freed)),
                            SaturatingSub(Plus(available, freed), minSpace))

\* The operations on sizes give sizes.
LEMMA SizeOperations ==
  ASSUME NEW a \in DiskSizes, NEW b \in DiskSizes
  PROVE  /\ Plus(a, b) \in DiskSizes /\ SaturatingSub(a, b) \in DiskSizes
         /\ SmallerSize(a, b) \in DiskSizes /\ LargerSize(a, b) \in DiskSizes
<1>1. a.bytes \in Nat /\ a.inodes \in Nat /\ b.bytes \in Nat /\ b.inodes \in Nat
  BY DEF DiskSizes
<1>2. \A m, n \in Nat : Lesser(m, n) \in Nat /\ Greater(m, n) \in Nat /\ Monus(m, n) \in Nat
  BY DEF Lesser, Greater, Monus
<1>3. SaturatingSub(a, b) \in DiskSizes
  BY <1>1, <1>2 DEF DiskSizes, SaturatingSub
<1>4. SmallerSize(a, b) \in DiskSizes /\ LargerSize(a, b) \in DiskSizes
  BY <1>1, <1>2 DEF DiskSizes, SmallerSize, LargerSize
<1> QED BY <1>3, <1>4, SizesClosed

\* The size of a set of entries depends on nothing but their sizes.
LEMMA TotalUnchanged ==
  ASSUME size' = size
  PROVE  Total(entries)' = Total(entries')
BY DEF Total, Bytes, Inodes

\* Whether the victims are right does not depend on what the staging area holds now.
LEMMA RightVictimsUnchanged ==
  ASSUME UNCHANGED <<size, inputVars, available, used>>
  PROVE  RightVictims(victims, snapshot)' <=> RightVictims(victims', snapshot')
BY DEF RightVictims, Enough, NeedToFree, Total, Bytes, Inodes, inputVars

\* The invariant holds at the start.
LEMMA CleanerInit ==
  Init => CleanerInv
<1> SUFFICES ASSUME Init
             PROVE  CleanerInv
  OBVIOUS
<1>0. MaxEntries \in Nat /\ newest \in 0..MaxEntries /\ Zero \in DiskSizes
  BY CleanerAssumption, SizesClosed DEF Init
<1>1. PICK quota \in Quotas, headroom \in Headrooms, required \in Requireds :
        /\ maxTotal = SaturatingSub([bytes |-> quota, inodes |-> Unlimited], required)
        /\ minSpace = Plus(headroom, required)
  BY DEF Init
<1>2. maxTotal \in DiskSizes /\ minSpace \in DiskSizes
  <2>1. [bytes |-> quota, inodes |-> Unlimited] \in DiskSizes
    BY CleanerAssumption DEF DiskSizes
  <2>2. headroom \in DiskSizes /\ required \in DiskSizes
    BY CleanerAssumption
  <2> QED BY <1>1, <2>1, <2>2, SizeOperations
<1>3. size \in [Entry -> DiskSizes] /\ disk \in DiskSizes
  BY CleanerAssumption DEF Init
<1>4. TypeOK /\ entries \subseteq 1..newest
  BY <1>0, <1>2, <1>3 DEF Init, TypeOK, Entry
<1>5. SpaceIsAccounted
  <2>1. disk.bytes \in Nat /\ disk.inodes \in Nat
    BY <1>3 DEF DiskSizes
  <2> QED BY <2>1 DEF Init, SpaceIsAccounted, AtLeast, Plus, Zero
<1>6. ~Marked /\ pc # "done"
  BY DEF Init, Marked
<1> QED BY <1>4, <1>5, <1>6 DEF CleanerInv

\* Reading the free space keeps the invariant.
LEMMA ReadFreeSpaceKeeps ==
  CleanerInv /\ ReadFreeSpace => CleanerInv'
<1> SUFFICES ASSUME CleanerInv, ReadFreeSpace
             PROVE  CleanerInv'
  OBVIOUS
<1> USE DEF ReadFreeSpace, inputVars
<1>1. TypeOK' /\ (entries \subseteq 1..newest)'
  BY SizesClosed DEF CleanerInv, TypeOK
<1>2. SpaceIsAccounted'
  <2>1. freed = Zero /\ freed' = freed /\ disk' = disk /\ added' = added
    BY DEF CleanerInv, SpaceIsAccounted
  <2>2. /\ disk.bytes \in Nat /\ disk.inodes \in Nat
        /\ added.bytes \in Nat /\ added.inodes \in Nat
    BY DEF CleanerInv, TypeOK, DiskSizes
  <2>3. AtLeast(Plus(disk, added), Plus(available', freed))
    BY <2>1, <2>2 DEF AtLeast, Plus, Zero
  <2> QED BY <2>1, <2>3 DEF SpaceIsAccounted
<1>3. ~Marked' /\ pc' # "done"
  BY DEF Marked
<1> QED BY <1>1, <1>2, <1>3 DEF CleanerInv

\* Reading the entries keeps the invariant.
LEMMA CollectKeeps ==
  CleanerInv /\ Collect => CleanerInv'
<1> SUFFICES ASSUME CleanerInv, Collect
             PROVE  CleanerInv'
  OBVIOUS
<1> USE DEF Collect, inputVars
<1>0. TypeOK /\ Total(entries) \in DiskSizes /\ size' = size
  BY TotalType DEF CleanerInv
<1>1. TypeOK' /\ (entries \subseteq 1..newest)'
  BY <1>0 DEF CleanerInv, TypeOK
<1>2. SpaceIsAccounted'
  <2>1. freed = Zero /\ UNCHANGED <<freed, disk, added, available>> /\ pc' = "mark"
    BY DEF CleanerInv, SpaceIsAccounted
  <2>2. Total(entries)' = Total(entries) /\ used' = Total(entries)
    BY <1>0, TotalUnchanged
  <2>3. /\ Total(entries).bytes \in Nat /\ Total(entries).inodes \in Nat
        /\ added.bytes \in Nat /\ added.inodes \in Nat
    BY <1>0 DEF CleanerInv, TypeOK, DiskSizes
  <2>4. AtLeast(Plus(used', added), Plus(Total(entries), freed))
    BY <2>1, <2>2, <2>3 DEF AtLeast, Plus, Zero
  <2>5. AtLeast(Plus(used, added), Plus(Total(entries), freed))'
    BY <2>1, <2>2, <2>4 DEF AtLeast, Plus
  <2>6. AtLeast(Plus(disk, added), Plus(available, freed))'
    BY <2>1 DEF CleanerInv, SpaceIsAccounted, AtLeast, Plus
  <2> QED BY <2>1, <2>5, <2>6 DEF SpaceIsAccounted
<1>3. ~Marked' /\ pc' # "done"
  BY DEF Marked
<1> QED BY <1>1, <1>2, <1>3 DEF CleanerInv

\* Marking keeps the invariant, and marks the right victims.
LEMMA MarkKeeps ==
  CleanerInv /\ Mark => CleanerInv'
<1> SUFFICES ASSUME CleanerInv, Mark
             PROVE  CleanerInv'
  OBVIOUS
<1> USE DEF Mark, inputVars
<1>0. TypeOK /\ size' = size
  BY DEF CleanerInv
<1>1. marked' \in Seq(Entry) /\ RightVictims(ToSet(marked'), snapshot)
  BY <1>0, MarkedAreRight
<1>2. RightVictims(victims, snapshot)'
  <2>1. victims' = ToSet(marked') /\ snapshot' = snapshot
    OBVIOUS
  <2>2. UNCHANGED <<size, inputVars, available, used>>
    OBVIOUS
  <2> QED BY <1>1, <2>1, <2>2, RightVictimsUnchanged
<1>3. victims' \subseteq Entry
  BY <1>0, <1>1 DEF RightVictims, TypeOK
<1>4. TypeOK' /\ (entries \subseteq 1..newest)'
  BY <1>1, <1>3 DEF CleanerInv, TypeOK
<1>5. SpaceIsAccounted'
  <2>1. Total(entries)' = Total(entries)
    BY <1>0, TotalUnchanged
  <2> QED BY <2>1 DEF CleanerInv, SpaceIsAccounted, AtLeast, Plus
<1> QED BY <1>2, <1>4, <1>5 DEF CleanerInv

\* An entry that is removed moves from the staging area to the free space.
LEMMA RemovalBalances ==
  ASSUME TypeOK, NEW e \in entries
  PROVE  \A a, b \in DiskSizes :
           AtLeast(a, Plus(Total(entries), b)) =>
             /\ AtLeast(a, Plus(Total(entries \ {e}), Plus(b, size[e])))
             /\ AtLeast(a, Plus(Total(entries \ {e}), b))
<1> SUFFICES ASSUME NEW a \in DiskSizes, NEW b \in DiskSizes,
                    AtLeast(a, Plus(Total(entries), b))
             PROVE  /\ AtLeast(a, Plus(Total(entries \ {e}), Plus(b, size[e])))
                    /\ AtLeast(a, Plus(Total(entries \ {e}), b))
  OBVIOUS
<1> DEFINE r == Total(entries \ {e})
           x == size[e]
<1>1. Total(entries) = Plus(r, x) /\ r \in DiskSizes /\ x \in DiskSizes
  BY TotalRemove, TotalType DEF TypeOK
<1> HIDE DEF r, x
<1>2. /\ a.bytes \in Nat /\ a.inodes \in Nat /\ b.bytes \in Nat /\ b.inodes \in Nat
      /\ r.bytes \in Nat /\ r.inodes \in Nat /\ x.bytes \in Nat /\ x.inodes \in Nat
  BY <1>1 DEF DiskSizes
<1>3. /\ a.bytes >= (r.bytes + x.bytes) + b.bytes
      /\ a.inodes >= (r.inodes + x.inodes) + b.inodes
  BY <1>1 DEF AtLeast, Plus
<1>4. AtLeast(a, Plus(r, Plus(b, x))) /\ AtLeast(a, Plus(r, b))
  BY <1>2, <1>3 DEF AtLeast, Plus
<1> QED BY <1>4 DEF r, x

\* Adding the same size on both sides keeps the order.
LEMMA PlusKeepsOrder ==
  ASSUME NEW a \in DiskSizes, NEW b \in DiskSizes, NEW c \in DiskSizes, NEW d \in DiskSizes,
         NEW x \in DiskSizes, AtLeast(Plus(a, b), Plus(c, d))
  PROVE  /\ AtLeast(Plus(Plus(a, x), b), Plus(c, Plus(d, x)))
         /\ AtLeast(Plus(Plus(a, x), b), Plus(c, d))
         /\ AtLeast(Plus(a, Plus(b, x)), Plus(Plus(c, x), d))
<1>1. /\ a.bytes \in Nat /\ a.inodes \in Nat /\ b.bytes \in Nat /\ b.inodes \in Nat
      /\ c.bytes \in Nat /\ c.inodes \in Nat /\ d.bytes \in Nat /\ d.inodes \in Nat
      /\ x.bytes \in Nat /\ x.inodes \in Nat
  BY DEF DiskSizes
<1>2. /\ a.bytes + b.bytes >= c.bytes + d.bytes
      /\ a.inodes + b.inodes >= c.inodes + d.inodes
  BY DEF AtLeast, Plus
<1> QED BY <1>1, <1>2 DEF AtLeast, Plus

\* Removing a marked entry, or failing to, keeps the invariant.
LEMMA RemoveMarkedKeeps ==
  CleanerInv /\ RemoveMarked => CleanerInv'
<1> SUFFICES ASSUME CleanerInv, RemoveMarked
             PROVE  CleanerInv'
  OBVIOUS
<1> DEFINE e == Head(marked)
<1>0. /\ TypeOK /\ pc = "remove" /\ UNCHANGED <<size, inputVars, pc, available, snapshot, used>>
      /\ UNCHANGED <<result, added, victims, newest>>
      /\ e \in Entry /\ marked' \in Seq(Entry)
      /\ \/ /\ e \in entries
            /\ entries' = entries \ {e} /\ disk' = Plus(disk, size[e])
            /\ freed' = Plus(freed, size[e])
         \/ UNCHANGED <<entries, disk, freed>>
  BY DEF CleanerInv, TypeOK, RemoveMarked
<1> HIDE DEF e
<1>1. /\ size[e] \in DiskSizes /\ disk \in DiskSizes /\ freed \in DiskSizes
      /\ used \in DiskSizes /\ added \in DiskSizes /\ available \in DiskSizes
      /\ Plus(used, added) \in DiskSizes
  BY <1>0, SizesClosed DEF TypeOK
<1>2. disk' \in DiskSizes /\ freed' \in DiskSizes
  BY <1>0, <1>1, SizesClosed
<1>3. entries' \subseteq Entry /\ entries' \subseteq 1..newest
  BY <1>0 DEF CleanerInv, TypeOK
<1>4. TypeOK' /\ (entries \subseteq 1..newest)'
  BY <1>0, <1>2, <1>3 DEF TypeOK, inputVars
<1>5. RightVictims(victims, snapshot)'
  BY <1>0, RightVictimsUnchanged DEF CleanerInv, Marked
<1>6. SpaceIsAccounted'
  <2>1. /\ AtLeast(Plus(used, added), Plus(Total(entries), freed))
        /\ AtLeast(Plus(disk, added), Plus(available, freed))
    BY <1>0 DEF CleanerInv, SpaceIsAccounted
  <2>2. /\ AtLeast(Plus(used, added), Plus(Total(entries'), freed'))
        /\ AtLeast(Plus(disk', added), Plus(available, freed'))
    <3>1. CASE UNCHANGED <<entries, disk, freed>>
      BY <2>1, <3>1
    <3>2. CASE /\ e \in entries
               /\ entries' = entries \ {e} /\ disk' = Plus(disk, size[e])
               /\ freed' = Plus(freed, size[e])
      <4>1. AtLeast(Plus(used, added), Plus(Total(entries \ {e}), Plus(freed, size[e])))
        BY <1>0, <1>1, <2>1, <3>2, RemovalBalances
      <4>2. AtLeast(Plus(Plus(disk, size[e]), added), Plus(available, Plus(freed, size[e])))
        BY <1>1, <2>1, PlusKeepsOrder
      <4> QED BY <3>2, <4>1, <4>2
    <3> QED BY <1>0, <3>1, <3>2
  <2>3. Total(entries)' = Total(entries')
    BY <1>0, TotalUnchanged
  <2> QED BY <1>0, <2>2, <2>3 DEF SpaceIsAccounted, AtLeast, Plus
<1> QED BY <1>0, <1>4, <1>5, <1>6 DEF CleanerInv

\* Returning the available space keeps the invariant.
LEMMA ReturnKeeps ==
  CleanerInv /\ Return => CleanerInv'
<1> SUFFICES ASSUME CleanerInv, Return
             PROVE  CleanerInv'
  OBVIOUS
<1> USE DEF Return, inputVars
<1>0. TypeOK /\ size' = size
  BY DEF CleanerInv
<1>1. result' \in DiskSizes
  <2>1. /\ maxTotal \in DiskSizes /\ used \in DiskSizes /\ freed \in DiskSizes
        /\ available \in DiskSizes /\ minSpace \in DiskSizes
    BY <1>0 DEF TypeOK
  <2>2. SaturatingSub(used, freed) \in DiskSizes /\ Plus(available, freed) \in DiskSizes
    BY <2>1, SizeOperations
  <2>3. /\ SaturatingSub(maxTotal, SaturatingSub(used, freed)) \in DiskSizes
        /\ SaturatingSub(Plus(available, freed), minSpace) \in DiskSizes
    BY <2>1, <2>2, SizeOperations
  <2>4. result' = SmallerSize(SaturatingSub(maxTotal, SaturatingSub(used, freed)),
                              SaturatingSub(Plus(available, freed), minSpace))
    OBVIOUS
  <2> QED BY <2>3, <2>4, SizeOperations
<1>2. TypeOK' /\ (entries \subseteq 1..newest)'
  BY <1>1 DEF CleanerInv, TypeOK
<1>3. RightVictims(victims, snapshot)'
  <2>1. UNCHANGED <<size, inputVars, available, used>> /\ UNCHANGED <<victims, snapshot>>
    OBVIOUS
  <2> QED BY <2>1, RightVictimsUnchanged DEF CleanerInv, Marked
<1>4. SpaceIsAccounted'
  <2>1. Total(entries)' = Total(entries)
    BY <1>0, TotalUnchanged
  <2> QED BY <2>1 DEF CleanerInv, SpaceIsAccounted, AtLeast, Plus
<1>5. (result = SmallerSize(SaturatingSub(maxTotal, SaturatingSub(used, freed)),
                            SaturatingSub(Plus(available, freed), minSpace)))'
  BY DEF SmallerSize, SaturatingSub, Plus
<1> QED BY <1>2, <1>3, <1>4, <1>5 DEF CleanerInv

\* An entry that another thread deletes keeps the invariant.
LEMMA OtherRemovesKeeps ==
  CleanerInv /\ OtherRemoves => CleanerInv'
<1> SUFFICES ASSUME CleanerInv, OtherRemoves
             PROVE  CleanerInv'
  OBVIOUS
<1>0. /\ TypeOK /\ pc # "done"
      /\ UNCHANGED <<size, inputVars, pc, available, snapshot, used, freed>>
      /\ UNCHANGED <<marked, result, added, victims, newest>>
  BY DEF CleanerInv, OtherRemoves
<1>e. PICK e \in entries : entries' = entries \ {e} /\ disk' = Plus(disk, size[e])
  BY DEF OtherRemoves
<1>1. /\ size[e] \in DiskSizes /\ disk \in DiskSizes /\ freed \in DiskSizes
      /\ used \in DiskSizes /\ added \in DiskSizes /\ available \in DiskSizes
      /\ Plus(used, added) \in DiskSizes /\ disk' \in DiskSizes
  BY <1>0, <1>e, SizesClosed DEF TypeOK
<1>2. TypeOK' /\ (entries \subseteq 1..newest)'
  BY <1>0, <1>1, <1>e DEF CleanerInv, TypeOK, inputVars
<1>3. Marked' => RightVictims(victims, snapshot)'
  BY <1>0, RightVictimsUnchanged DEF CleanerInv, Marked
<1>4. SpaceIsAccounted'
  <2>1. Total(entries)' = Total(entries')
    BY <1>0, TotalUnchanged
  <2>2. pc \in {"mark", "remove", "done"} =>
          AtLeast(Plus(used, added), Plus(Total(entries \ {e}), freed))
    BY <1>0, <1>1, RemovalBalances DEF CleanerInv, SpaceIsAccounted
  <2>3. AtLeast(Plus(Plus(disk, size[e]), added), Plus(available, freed))
    BY <1>1, PlusKeepsOrder DEF CleanerInv, SpaceIsAccounted
  <2>4. pc \in {"statvfs", "collect"} => freed = Zero
    BY DEF CleanerInv, SpaceIsAccounted
  <2> QED BY <1>0, <1>e, <2>1, <2>2, <2>3, <2>4 DEF SpaceIsAccounted, AtLeast, Plus
<1> QED BY <1>0, <1>2, <1>3, <1>4 DEF CleanerInv

\* An entry that another thread completes keeps the invariant.
LEMMA OtherAddsKeeps ==
  CleanerInv /\ OtherAdds => CleanerInv'
<1> SUFFICES ASSUME CleanerInv, OtherAdds
             PROVE  CleanerInv'
  OBVIOUS
<1> DEFINE e == newest + 1
<1>0. /\ TypeOK /\ pc # "done"
      /\ UNCHANGED <<size, inputVars, pc, available, snapshot, used, freed>>
      /\ UNCHANGED <<marked, result, victims>>
      /\ e \in Entry /\ newest' = e /\ entries' = entries \cup {e}
      /\ AtLeast(disk, size[e]) /\ disk' = SaturatingSub(disk, size[e])
      /\ added' = Plus(added, size[e])
  BY DEF CleanerInv, OtherAdds
<1>n. MaxEntries \in Nat /\ newest \in Nat /\ e \in 0..MaxEntries
  BY <1>0, CleanerAssumption DEF TypeOK, Entry
<1>e. e \notin entries /\ entries' \subseteq Entry /\ entries' \subseteq 1..e
  BY <1>0, <1>n DEF CleanerInv, TypeOK
<1> HIDE DEF e
<1>1. /\ size[e] \in DiskSizes /\ disk \in DiskSizes /\ freed \in DiskSizes
      /\ used \in DiskSizes /\ added \in DiskSizes /\ available \in DiskSizes
      /\ disk' \in DiskSizes /\ added' \in DiskSizes /\ Total(entries) \in DiskSizes
  BY <1>0, SizeOperations, TotalType DEF TypeOK
<1>2. TypeOK' /\ (entries \subseteq 1..newest)'
  BY <1>0, <1>1, <1>e, <1>n DEF TypeOK, inputVars
<1>3. Marked' => RightVictims(victims, snapshot)'
  BY <1>0, RightVictimsUnchanged DEF CleanerInv, Marked
<1>4. SpaceIsAccounted'
  <2>1. Total(entries)' = Plus(Total(entries), size[e])
    BY <1>0, <1>e, TotalUnchanged, TotalAdd
  <2>2. pc \in {"mark", "remove", "done"} =>
          AtLeast(Plus(used, added'), Plus(Plus(Total(entries), size[e]), freed))
    BY <1>0, <1>1, PlusKeepsOrder DEF CleanerInv, SpaceIsAccounted
  <2>3. AtLeast(Plus(disk', added'), Plus(available, freed))
    <3>1. /\ size[e].bytes \in Nat /\ disk.bytes \in Nat /\ freed.bytes \in Nat
          /\ added.bytes \in Nat /\ available.bytes \in Nat
          /\ size[e].inodes \in Nat /\ disk.inodes \in Nat /\ freed.inodes \in Nat
          /\ added.inodes \in Nat /\ available.inodes \in Nat
      BY <1>1 DEF DiskSizes
    <3>2. disk.bytes >= size[e].bytes /\ disk.inodes >= size[e].inodes
      BY <1>0 DEF AtLeast
    <3>3. /\ disk'.bytes = disk.bytes - size[e].bytes
          /\ disk'.inodes = disk.inodes - size[e].inodes
      BY <1>0, <3>1, <3>2 DEF SaturatingSub, Monus
    <3>4. /\ added'.bytes = added.bytes + size[e].bytes
          /\ added'.inodes = added.inodes + size[e].inodes
      BY <1>0 DEF Plus
    <3>5. /\ disk.bytes + added.bytes >= available.bytes + freed.bytes
          /\ disk.inodes + added.inodes >= available.inodes + freed.inodes
      BY DEF CleanerInv, SpaceIsAccounted, AtLeast, Plus
    <3>6. /\ disk'.bytes + added'.bytes >= available.bytes + freed.bytes
          /\ disk'.inodes + added'.inodes >= available.inodes + freed.inodes
      BY <3>1, <3>2, <3>3, <3>4, <3>5
    <3> QED BY <3>6 DEF AtLeast, Plus
  <2>4. pc \in {"statvfs", "collect"} => freed = Zero
    BY DEF CleanerInv, SpaceIsAccounted
  <2> QED BY <1>0, <2>1, <2>2, <2>3, <2>4 DEF SpaceIsAccounted, AtLeast, Plus
<1> QED BY <1>0, <1>2, <1>3, <1>4 DEF CleanerInv

\* A step that changes nothing keeps the invariant.
LEMMA CleanerStutters ==
  CleanerInv /\ UNCHANGED vars => CleanerInv'
<1> SUFFICES ASSUME CleanerInv, UNCHANGED vars
             PROVE  CleanerInv'
  OBVIOUS
<1> USE DEF vars, inputVars
<1>1. TypeOK' /\ (entries \subseteq 1..newest)'
  BY DEF CleanerInv, TypeOK
<1>2. Marked' => RightVictims(victims, snapshot)'
  BY RightVictimsUnchanged DEF CleanerInv, Marked
<1>3. SpaceIsAccounted'
  <2>1. Total(entries)' = Total(entries)
    BY TotalUnchanged
  <2> QED BY <2>1 DEF CleanerInv, SpaceIsAccounted, AtLeast, Plus
<1> QED BY <1>1, <1>2, <1>3 DEF CleanerInv, SmallerSize, SaturatingSub, Plus

-----------------------------------------------------------------------------
(* What the invariant implies.                                             *)

\* What has to be freed is the larger of what the quota and what the headroom ask for, for
\* bytes and for inodes: whether one of them is exceeded makes no difference.
LEMMA WhatIsNeeded ==
  ASSUME TypeOK
  PROVE  /\ NeedToFree \in DiskSizes
         /\ NeedToFree.bytes = Greater(Monus(used.bytes, maxTotal.bytes),
                                       Monus(minSpace.bytes, available.bytes))
         /\ NeedToFree.inodes = Greater(Monus(used.inodes, maxTotal.inodes),
                                        Monus(minSpace.inodes, available.inodes))
<1>1. ASSUME NEW a \in DiskSizes, NEW b \in DiskSizes
      PROVE  (IF ~Exceeds(a, b) THEN SaturatingSub(b, a) ELSE Zero) = SaturatingSub(b, a)
  <2>1. a.bytes \in Nat /\ a.inodes \in Nat /\ b.bytes \in Nat /\ b.inodes \in Nat
    BY DEF DiskSizes
  <2>2. CASE Exceeds(a, b)
    <3>1. b.bytes <= a.bytes /\ b.inodes <= a.inodes
      BY <2>1, <2>2 DEF Exceeds, AtLeast
    <3>2. SaturatingSub(b, a) = Zero
      BY <3>1 DEF SaturatingSub, Monus, Zero
    <3> QED BY <2>2, <3>2
  <2> QED BY <2>2
<1>2. /\ maxTotal \in DiskSizes /\ used \in DiskSizes
      /\ available \in DiskSizes /\ minSpace \in DiskSizes
  BY DEF TypeOK
<1>3. NeedToFree = LargerSize(SaturatingSub(used, maxTotal), SaturatingSub(minSpace, available))
  BY <1>1, <1>2 DEF NeedToFree
<1>4. NeedToFree \in DiskSizes
  BY <1>2, <1>3, SizeOperations
<1> QED BY <1>3, <1>4 DEF LargerSize, SaturatingSub

\* Freeing enough brings the staging area below the quota and restores the headroom.
LEMMA EnoughSuffices ==
  ASSUME TypeOK, NEW x \in DiskSizes, Enough(x)
  PROVE  AtLeast(Plus(maxTotal, x), used) /\ AtLeast(Plus(available, x), minSpace)
<1>1. /\ maxTotal.bytes \in Nat /\ maxTotal.inodes \in Nat
      /\ used.bytes \in Nat /\ used.inodes \in Nat
      /\ available.bytes \in Nat /\ available.inodes \in Nat
      /\ minSpace.bytes \in Nat /\ minSpace.inodes \in Nat
      /\ x.bytes \in Nat /\ x.inodes \in Nat
  BY DEF TypeOK, DiskSizes
<1>2. x.bytes >= NeedToFree.bytes /\ x.inodes >= NeedToFree.inodes
  <2>1. CASE NeedToFree = Zero
    BY <1>1, <2>1 DEF Zero
  <2>2. CASE Exceeds(x, NeedToFree)
    BY <2>2 DEF Exceeds, AtLeast
  <2> QED BY <2>1, <2>2 DEF Enough
<1>3. /\ maxTotal.bytes + x.bytes >= used.bytes /\ available.bytes + x.bytes >= minSpace.bytes
      /\ maxTotal.inodes + x.inodes >= used.inodes
      /\ available.inodes + x.inodes >= minSpace.inodes
  BY <1>1, <1>2, WhatIsNeeded DEF Greater, Monus
<1> QED BY <1>3 DEF AtLeast, Plus

\* As long as too little is freed, the quota or the headroom is still reached.
LEMMA TooLittleIsAtLimit ==
  ASSUME TypeOK, NEW x \in DiskSizes, ~Enough(x)
  PROVE  \/ used.bytes >= maxTotal.bytes + x.bytes
         \/ used.inodes >= maxTotal.inodes + x.inodes
         \/ minSpace.bytes >= available.bytes + x.bytes
         \/ minSpace.inodes >= available.inodes + x.inodes
<1>1. /\ maxTotal.bytes \in Nat /\ maxTotal.inodes \in Nat
      /\ used.bytes \in Nat /\ used.inodes \in Nat
      /\ available.bytes \in Nat /\ available.inodes \in Nat
      /\ minSpace.bytes \in Nat /\ minSpace.inodes \in Nat
      /\ x.bytes \in Nat /\ x.inodes \in Nat
  BY DEF TypeOK, DiskSizes
<1>2. NeedToFree \in DiskSizes /\ NeedToFree.bytes \in Nat /\ NeedToFree.inodes \in Nat
  BY WhatIsNeeded DEF DiskSizes
<1>3. /\ NeedToFree.bytes > 0 \/ NeedToFree.inodes > 0
      /\ \/ NeedToFree.bytes > x.bytes \/ NeedToFree.inodes > x.inodes
         \/ NeedToFree.bytes = x.bytes /\ NeedToFree.inodes = x.inodes
  <2>1. NeedToFree # Zero /\ ~Exceeds(x, NeedToFree)
    BY DEF Enough
  <2>2. NeedToFree.bytes # 0 \/ NeedToFree.inodes # 0
    BY <1>2, <2>1 DEF Zero, DiskSizes
  <2>3. ~AtLeast(x, NeedToFree) \/ x = NeedToFree
    BY <2>1 DEF Exceeds
  <2>4. CASE x = NeedToFree
    BY <1>2, <2>2, <2>4
  <2>5. CASE ~AtLeast(x, NeedToFree)
    BY <1>1, <1>2, <2>2, <2>5 DEF AtLeast
  <2> QED BY <2>3, <2>4, <2>5
<1>4. /\ NeedToFree.bytes >= x.bytes /\ NeedToFree.bytes > 0 =>
           \/ used.bytes >= maxTotal.bytes + x.bytes
           \/ minSpace.bytes >= available.bytes + x.bytes
      /\ NeedToFree.inodes >= x.inodes /\ NeedToFree.inodes > 0 =>
           \/ used.inodes >= maxTotal.inodes + x.inodes
           \/ minSpace.inodes >= available.inodes + x.inodes
  BY <1>1, WhatIsNeeded DEF Greater, Monus
<1> QED BY <1>1, <1>2, <1>3, <1>4

\* The numbers of clean_mar_staging in one dimension, bytes or inodes: u used, a added, l
\* left, f freed, k free on the disk, v available, m and h the quota and the headroom, and
\* r the returned number.
Returns(u, a, l, f, k, v, m, h, r) ==
  /\ u \in Nat /\ a \in Nat /\ l \in Nat /\ f \in Nat /\ k \in Nat /\ v \in Nat
  /\ m \in Nat /\ h \in Nat /\ u + a >= l + f /\ k + a >= v + f
  /\ r = Lesser(Monus(m, Monus(u, f)), Monus(v + f, h))

\* A returned number above zero may be used.
LEMMA ReturnedNumberIsHonest ==
  ASSUME NEW u, NEW a, NEW l, NEW f, NEW k, NEW v, NEW m, NEW h, NEW r,
         Returns(u, a, l, f, k, v, m, h, r)
  PROVE  r > 0 => l + r <= m + a /\ h + r <= k + a
<1> SUFFICES ASSUME r > 0
             PROVE  l + r <= m + a /\ h + r <= k + a
  OBVIOUS
<1>0. /\ u \in Nat /\ a \in Nat /\ l \in Nat /\ f \in Nat /\ k \in Nat /\ v \in Nat
      /\ m \in Nat /\ h \in Nat /\ u + a >= l + f /\ k + a >= v + f
      /\ r = Lesser(Monus(m, Monus(u, f)), Monus(v + f, h))
  BY DEF Returns
<1>1. /\ Monus(u, f) \in Nat /\ Monus(m, Monus(u, f)) \in Nat /\ Monus(v + f, h) \in Nat
      /\ r \in Nat
  BY <1>0 DEF Lesser, Monus
<1>2. r <= Monus(m, Monus(u, f)) /\ r <= Monus(v + f, h)
  BY <1>0, <1>1 DEF Lesser
<1>3. r <= m - Monus(u, f) /\ Monus(u, f) >= u - f
  BY <1>0, <1>1, <1>2 DEF Monus
<1>4. l + r <= m + a
  BY <1>0, <1>1, <1>3
<1>5. h + r <= k + a
  BY <1>0, <1>1, <1>2 DEF Monus
<1> QED BY <1>4, <1>5

\* The invariant implies the three properties.
LEMMA CleanerInvImplies ==
  CleanerInv => EvictsOldestFirst /\ EvictsExactlyEnough /\ ResultIsHonest
<1> SUFFICES ASSUME CleanerInv
             PROVE  EvictsOldestFirst /\ EvictsExactlyEnough /\ ResultIsHonest
  OBVIOUS
<1>0. TypeOK /\ \A S : Total(S) \in DiskSizes
  BY TotalType DEF CleanerInv
<1>1. EvictsOldestFirst
  BY DEF CleanerInv, RightVictims, EvictsOldestFirst
<1>2. EvictsEnough
  BY <1>0, EnoughSuffices DEF CleanerInv, RightVictims, EvictsEnough
<1>3. EvictsNoneNeedlessly
  <2> SUFFICES ASSUME Marked, NEW e \in victims, e > expired,
                      NEW older, older = Total({d \in snapshot : d < e})
               PROVE  \/ used.bytes >= maxTotal.bytes + older.bytes
                      \/ used.inodes >= maxTotal.inodes + older.inodes
                      \/ minSpace.bytes >= available.bytes + older.bytes
                      \/ minSpace.inodes >= available.inodes + older.inodes
    BY DEF EvictsNoneNeedlessly, Plus
  <2>1. e \in Nat /\ expired \in Nat
    BY <1>0, CleanerAssumption DEF TypeOK, Entry
  <2>2. ~Enough(older) /\ older \in DiskSizes
    BY <1>0, <2>1 DEF CleanerInv, RightVictims
  <2> QED BY <1>0, <2>2, TooLittleIsAtLimit
<1>4. ResultIsHonest
  <2> SUFFICES ASSUME pc = "done"
               PROVE  ResultIsHonest
    BY DEF ResultIsHonest
  <2> DEFINE left == Total(entries)
  <2>0. left \in DiskSizes
    BY <1>0
  <2>1. /\ AtLeast(Plus(used, added), Plus(left, freed))
        /\ AtLeast(Plus(disk, added), Plus(available, freed))
        /\ result = SmallerSize(SaturatingSub(maxTotal, SaturatingSub(used, freed)),
                                SaturatingSub(Plus(available, freed), minSpace))
    BY DEF CleanerInv, SpaceIsAccounted
  <2> HIDE DEF left
  <2>3. /\ used.bytes \in Nat /\ added.bytes \in Nat /\ left.bytes \in Nat
        /\ freed.bytes \in Nat /\ disk.bytes \in Nat /\ available.bytes \in Nat
        /\ maxTotal.bytes \in Nat /\ minSpace.bytes \in Nat
        /\ used.inodes \in Nat /\ added.inodes \in Nat /\ left.inodes \in Nat
        /\ freed.inodes \in Nat /\ disk.inodes \in Nat /\ available.inodes \in Nat
        /\ maxTotal.inodes \in Nat /\ minSpace.inodes \in Nat
    BY <1>0, <2>0 DEF TypeOK, DiskSizes
  <2>4. result.bytes > 0 => /\ left.bytes + result.bytes <= maxTotal.bytes + added.bytes
                            /\ minSpace.bytes + result.bytes <= disk.bytes + added.bytes
    <3>1. /\ used.bytes + added.bytes >= left.bytes + freed.bytes
          /\ disk.bytes + added.bytes >= available.bytes + freed.bytes
          /\ result.bytes = Lesser(Monus(maxTotal.bytes, Monus(used.bytes, freed.bytes)),
                                   Monus(available.bytes + freed.bytes, minSpace.bytes))
      BY <2>1 DEF AtLeast, Plus, SmallerSize, SaturatingSub
    <3>2. Returns(used.bytes, added.bytes, left.bytes, freed.bytes, disk.bytes, available.bytes,
                  maxTotal.bytes, minSpace.bytes, result.bytes)
      BY <2>3, <3>1 DEF Returns
    <3> QED BY <3>2, ReturnedNumberIsHonest
  <2>5. result.inodes > 0 => /\ left.inodes + result.inodes <= maxTotal.inodes + added.inodes
                             /\ minSpace.inodes + result.inodes <= disk.inodes + added.inodes
    <3>1. /\ used.inodes + added.inodes >= left.inodes + freed.inodes
          /\ disk.inodes + added.inodes >= available.inodes + freed.inodes
          /\ result.inodes = Lesser(Monus(maxTotal.inodes, Monus(used.inodes, freed.inodes)),
                                    Monus(available.inodes + freed.inodes, minSpace.inodes))
      BY <2>1 DEF AtLeast, Plus, SmallerSize, SaturatingSub
    <3>2. Returns(used.inodes, added.inodes, left.inodes, freed.inodes, disk.inodes,
                  available.inodes, maxTotal.inodes, minSpace.inodes, result.inodes)
      BY <2>3, <3>1 DEF Returns
    <3> QED BY <3>2, ReturnedNumberIsHonest
  <2> QED BY <2>4, <2>5 DEF ResultIsHonest, left
<1> QED BY <1>1, <1>2, <1>3, <1>4 DEF EvictsExactlyEnough

-----------------------------------------------------------------------------
(* The theorems.                                                           *)

\* The invariant of one call of clean() holds in every reachable state, whatever other
\* threads add and remove meanwhile.
THEOREM CleanerInvariant == Spec => []CleanerInv
<1>1. CleanerInv /\ [Next]_vars => CleanerInv'
  BY ReadFreeSpaceKeeps, CollectKeeps, MarkKeeps, RemoveMarkedKeeps, ReturnKeeps,
     OtherRemovesKeeps, OtherAddsKeeps, CleanerStutters DEF Next
<1> QED BY <1>1, CleanerInit, PTL DEF Spec

\* Every variable of the cleaner keeps its type, for every set of sizes, quotas, headrooms
\* and free spaces.
THEOREM CleanerTypeOK == Spec => []TypeOK
<1>1. CleanerInv => TypeOK
  BY DEF CleanerInv
<1> QED BY <1>1, CleanerInvariant, PTL

\* mark_entries_for_deletion never evicts an entry before an older one of the snapshot, for
\* any number of entries: an expired entry that follows one that is kept cannot exist.
THEOREM CleanerEvictsOldestFirst == Spec => []EvictsOldestFirst
BY CleanerInvariant, CleanerInvImplies, PTL

\* mark_entries_for_deletion evicts what the quota and the headroom ask for in bytes and in
\* inodes, and no entry that is neither needed for that nor expired, for all sizes.
THEOREM CleanerEvictsExactlyEnough == Spec => []EvictsExactlyEnough
BY CleanerInvariant, CleanerInvImplies, PTL

\* The space that clean() returns may really be used, although removals fail and other
\* threads delete the same entries, for all sizes and any number of entries.
THEOREM CleanerResultIsHonest == Spec => []ResultIsHonest
BY CleanerInvariant, CleanerInvImplies, PTL
=============================================================================
