------------------------- MODULE LogCollectorProofs -------------------------
(***************************************************************************)
(* Proofs about the log collector.                                         *)
(*                                                                         *)
(* The chain of logs is made of links: the staged logs, the one that is    *)
(* being completed and those that wait for recovery each name a successor. *)
(* The proof rests on three facts.  The lines of a log are earlier than    *)
(* those of its successor, and stay so because only the current log grows, *)
(* by lines that are later than all others.  The mtimes of the files are   *)
(* in the order of their lines, so that the links recovery makes from them *)
(* are in order too.  And a CID that a link names has a file, an entry or  *)
(* a reservation, or is known to have none.                                *)
(***************************************************************************)
EXTENDS LogCollector, FiniteSetTheorems, FunctionTheorems, NaturalsInduction,
        WellFoundedInduction, TLAPS

-----------------------------------------------------------------------------
(* Sequences without repetition.                                           *)

\* A set of numbers that is not empty has a least one.
LEMMA LeastNumber ==
  ASSUME NEW T \in SUBSET Nat, T # {}
  PROVE  \E x \in T : \A y \in T : x <= y
<1>1. PICK x \in T : \A y \in T : ~(<<y, x>> \in OpToRel(<, Nat))
  BY NatLessThanWellFounded, WFMin, Zenon
<1>2. \A y \in T : ~(y < x)
  BY <1>1 DEF OpToRel
<1> QED BY <1>2

\* A set of numbers up to n that is not empty has a largest one.
LEMMA LargestNumber ==
  ASSUME NEW n \in Nat, NEW T \in SUBSET (1..n), T # {}
  PROVE  \E x \in T : \A y \in T : y <= x
<1> DEFINE U == {u \in Nat : \E t \in T : u = n - t}
<1>1. U # {} /\ U \in SUBSET Nat
  <2>1. PICK t \in T : TRUE
    OBVIOUS
  <2>2. n - t \in U
    OBVIOUS
  <2> QED BY <2>2
<1>2. PICK u \in U : \A v \in U : u <= v
  BY <1>1, LeastNumber
<1>3. PICK t \in T : u = n - t
  BY <1>2
<1>4. ASSUME NEW y \in T
      PROVE  y <= t
  <2>1. n - y \in U
    OBVIOUS
  <2>2. u <= n - y
    BY <1>2, <2>1
  <2> QED BY <1>3, <2>2
<1> QED BY <1>4

\* q lists the elements of S in the order of s.
IsOrdering(q, S, s) ==
  /\ q \in [1..Cardinality(S) -> S]
  /\ \A i, j \in 1..Cardinality(S) : i < j => Before(s, q[i], q[j])

\* The elements of any finite part of a sequence can be listed in its order.
LEMMA OrderingExists ==
  ASSUME NEW D, NEW s \in Seq(D), NEW A, A \subseteq ToSet(s), IsFiniteSet(A)
  PROVE  \E q : IsOrdering(q, A, s)
<1> DEFINE Parts == {S \in SUBSET A : ~ \E q : IsOrdering(q, S, s)}
           Sizes == {Cardinality(S) : S \in Parts}
<1>0. \A S \in SUBSET A : IsFiniteSet(S) /\ Cardinality(S) \in Nat
  BY FS_Subset, FS_CardinalityType
<1>1. SUFFICES ASSUME Parts # {}
               PROVE  FALSE
  OBVIOUS
<1>2. Sizes # {} /\ Sizes \in SUBSET Nat
  BY <1>0, <1>1
<1>3. PICK n \in Sizes : \A m \in Sizes : n <= m
  BY <1>2, LeastNumber
<1>4. PICK S \in Parts : n = Cardinality(S)
  BY <1>3
<1>5. S \in SUBSET A /\ n \in Nat
  BY <1>4, <1>0
<1>6. S # {}
  <2> SUFFICES ASSUME S = {}
               PROVE  FALSE
    OBVIOUS
  <2>1. Cardinality(S) = 0
    BY FS_EmptySet
  <2>2. [i \in 1..0 |-> 0] \in [1..0 -> S]
    OBVIOUS
  <2>3. IsOrdering([i \in 1..0 |-> 0], S, s)
    BY <2>1, <2>2 DEF IsOrdering
  <2> QED BY <2>3, <1>4
<1> DEFINE P == {i \in 1..Len(s) : s[i] \in S}
<1>7. P # {} /\ P \in SUBSET (1..Len(s))
  BY <1>5, <1>6 DEF ToSet
<1>8. PICK k \in P : \A i \in P : i <= k
  <2>1. Len(s) \in Nat
    OBVIOUS
  <2> HIDE DEF P
  <2> QED BY <1>7, <2>1, LargestNumber
<1> DEFINE c == s[k]
           T == S \ {c}
<1>9. c \in S /\ T \in SUBSET A /\ Cardinality(T) = n - 1 /\ n > 0
  <2>1. c \in S
    BY <1>8
  <2>2. Cardinality(T) = n - 1
    BY <1>0, <1>4, <1>5, <2>1, FS_RemoveElement
  <2>3. Cardinality(T) \in Nat
    BY <1>0, <1>5
  <2> QED BY <2>1, <2>2, <2>3, <1>5
<1>10. T \notin Parts
  <2> SUFFICES ASSUME T \in Parts
               PROVE  FALSE
    OBVIOUS
  <2>1. Cardinality(T) \in Sizes
    OBVIOUS
  <2>2. n <= n - 1
    BY <1>3, <1>9, <2>1
  <2> QED BY <2>2, <1>5
<1>11. PICK q : IsOrdering(q, T, s)
  BY <1>9, <1>10
<1> DEFINE r == [i \in 1..n |-> IF i < n THEN q[i] ELSE c]
<1>12. q \in [1..(n - 1) -> T] /\ \A i, j \in 1..(n - 1) : i < j => Before(s, q[i], q[j])
  BY <1>9, <1>11 DEF IsOrdering
<1>13. r \in [1..n -> S]
  BY <1>5, <1>9, <1>12
<1>14. ASSUME NEW i \in 1..n, NEW j \in 1..n, i < j
       PROVE  Before(s, r[i], r[j])
  <2>1. i \in 1..(n - 1) /\ r[i] = q[i] /\ q[i] \in T
    BY <1>5, <1>12, <1>14
  <2>2. CASE j < n
    <3>1. j \in 1..(n - 1) /\ r[j] = q[j]
      BY <1>5, <2>2
    <3> QED BY <1>12, <1>14, <2>1, <3>1
  <2>3. CASE j = n
    <3>1. r[j] = c
      BY <2>3, <1>5
    <3>2. PICK h \in 1..Len(s) : s[h] = q[i]
      BY <2>1, <1>5 DEF ToSet
    <3>3. h \in P /\ h # k
      BY <2>1, <3>2
    <3>4. h < k /\ h \in DOMAIN s /\ k \in DOMAIN s
      BY <1>8, <3>3
    <3>5. Before(s, q[i], c)
      BY <3>2, <3>4 DEF Before
    <3> QED BY <2>1, <3>1, <3>5
  <2> QED BY <2>2, <2>3, <1>5
<1>15. IsOrdering(r, S, s)
  BY <1>4, <1>13, <1>14 DEF IsOrdering
<1> QED BY <1>4, <1>15

\* An element of a sequence without repetition is before another one or after it, not both.
LEMMA BeforeIsStrict ==
  ASSUME NEW D, NEW s \in Seq(D), IsInjective(s), NEW c, NEW d, Before(s, c, d)
  PROVE  c # d /\ ~Before(s, d, c) /\ c \in ToSet(s) /\ d \in ToSet(s)
<1>1. PICK i, j \in DOMAIN s : i < j /\ s[i] = c /\ s[j] = d
  BY DEF Before
<1>2. DOMAIN s \subseteq Nat
  OBVIOUS
<1>3. c # d
  BY <1>1, <1>2 DEF IsInjective
<1>4. ASSUME Before(s, d, c)
      PROVE  FALSE
  <2>1. PICK k, l \in DOMAIN s : k < l /\ s[k] = d /\ s[l] = c
    BY <1>4 DEF Before
  <2>2. k = j /\ l = i
    BY <1>1, <2>1 DEF IsInjective
  <2> QED BY <1>1, <1>2, <2>1, <2>2
<1> QED BY <1>1, <1>3, <1>4 DEF ToSet

\* InOrder lists every element of S once, in the order of s.
LEMMA InOrderFacts ==
  ASSUME NEW D, NEW s \in Seq(D), IsInjective(s), NEW S, S \subseteq ToSet(s), IsFiniteSet(S)
  PROVE  /\ InOrder(S, s) \in Seq(S) /\ InOrder(S, s) \in Seq(D)
         /\ IsInjective(InOrder(S, s)) /\ ToSet(InOrder(S, s)) = S
         /\ \A c, d : Before(InOrder(S, s), c, d) => Before(s, c, d)
         /\ \A i, j \in 1..Len(InOrder(S, s)) :
              i < j => Before(s, InOrder(S, s)[i], InOrder(S, s)[j])
<1> DEFINE q == InOrder(S, s)
           n == Cardinality(S)
<1>1. IsOrdering(q, S, s)
  <2>1. PICK p : IsOrdering(p, S, s)
    BY OrderingExists
  <2>2. \E o \in [1..n -> S] : \A i, j \in 1..n : i < j => Before(s, o[i], o[j])
    BY <2>1 DEF IsOrdering
  <2> QED BY <2>2 DEF InOrder, IsOrdering
<1>2. n \in Nat
  BY FS_CardinalityType
<1> HIDE DEF q, n
<1>3. q \in [1..n -> S] /\ \A i, j \in 1..n : i < j => Before(s, q[i], q[j])
  BY <1>1 DEF IsOrdering, n
<1>4. q \in Seq(S) /\ Len(q) = n /\ DOMAIN q = 1..n
  BY <1>2, <1>3
<1>5. S \subseteq D
  BY DEF ToSet
<1>6. q \in Seq(D)
  BY <1>4, <1>5
<1>7. \A i, j \in 1..n : q[i] = q[j] => i = j
  <2> SUFFICES ASSUME NEW i \in 1..n, NEW j \in 1..n, q[i] = q[j], i # j
               PROVE  FALSE
    OBVIOUS
  <2>1. CASE i < j
    BY <1>3, <2>1, BeforeIsStrict
  <2>2. CASE j < i
    BY <1>3, <2>2, BeforeIsStrict
  <2> QED BY <2>1, <2>2, <1>2
<1>8. IsInjective(q)
  BY <1>4, <1>7 DEF IsInjective
<1>9. ToSet(q) = S
  <2>1. q \in Injection(1..n, S)
    BY <1>3, <1>7, Fun_IsInj
  <2>2. Cardinality(1..n) = n
    BY <1>2, FS_Interval
  <2>3. q \in Surjection(1..n, S)
    BY <2>1, <2>2, FS_Injection DEF n
  <2>4. \A c \in S : \E i \in 1..n : q[i] = c
    BY <2>3 DEF Surjection
  <2> QED BY <1>3, <1>4, <2>4 DEF ToSet
<1>10. ASSUME NEW c, NEW d, Before(q, c, d)
       PROVE  Before(s, c, d)
  <2>1. PICK i, j \in 1..n : i < j /\ q[i] = c /\ q[j] = d
    BY <1>4, <1>10 DEF Before
  <2> QED BY <1>3, <2>1
<1> QED BY <1>3, <1>4, <1>6, <1>8, <1>9, <1>10 DEF q

\* A listing of log_tmp_path: CIDs, each of them once.
Sound(s) == s \in Seq(Cid) /\ IsInjective(s)

\* Any set of CIDs is finite.
LEMMA CidsAreFinite ==
  ASSUME NEW S, S \subseteq Cid
  PROVE  IsFiniteSet(S)
<1>1. IsFiniteSet(Cid)
  BY LogAssumption, FS_Interval DEF Cid
<1> QED BY <1>1, FS_Subset

\* Removing a file leaves the others, in their order.
LEMMA WithoutFacts ==
  ASSUME NEW s, Sound(s), NEW c
  PROVE  /\ Sound(Without(s, c)) /\ ToSet(Without(s, c)) = ToSet(s) \ {c}
         /\ \A a, b : Before(Without(s, c), a, b) => Before(s, a, b)
<1>1. ToSet(s) \ {c} \subseteq ToSet(s) /\ ToSet(s) \ {c} \subseteq Cid
  BY DEF Sound, ToSet
<1>2. IsFiniteSet(ToSet(s) \ {c})
  BY <1>1, CidsAreFinite
<1> QED BY <1>1, <1>2, InOrderFacts DEF Sound, Without

\* A new file is the last one.
LEMMA AppendFacts ==
  ASSUME NEW s, Sound(s), NEW c \in Cid, c \notin ToSet(s)
  PROVE  /\ Sound(Append(s, c)) /\ ToSet(Append(s, c)) = ToSet(s) \cup {c}
         /\ \A a, b : Before(Append(s, c), a, b) =>
              a \in ToSet(s) /\ (Before(s, a, b) \/ b = c)
<1> DEFINE t == Append(s, c)
<1>1. s \in Seq(Cid) /\ t \in Seq(Cid) /\ Len(t) = Len(s) + 1 /\ Len(s) \in Nat
      /\ DOMAIN t = 1..(Len(s) + 1) /\ DOMAIN s = 1..Len(s)
  BY DEF Sound
<1>2. \A i \in 1..Len(s) : t[i] = s[i]
  BY <1>1
<1>3. t[Len(s) + 1] = c
  BY <1>1
<1> HIDE DEF t
<1>4. \A i \in DOMAIN t : i \in 1..Len(s) \/ i = Len(s) + 1
  BY <1>1
<1>5. ToSet(t) = ToSet(s) \cup {c}
  <2>1. \A i \in 1..Len(s) : i \in DOMAIN t
    BY <1>1
  <2>2. Len(s) + 1 \in DOMAIN t
    BY <1>1
  <2> QED BY <1>1, <1>2, <1>3, <1>4, <2>1, <2>2 DEF ToSet
<1>6. IsInjective(t)
  <2> SUFFICES ASSUME NEW i \in DOMAIN t, NEW j \in DOMAIN t, t[i] = t[j]
               PROVE  i = j
    BY DEF IsInjective
  <2>1. \A k \in 1..Len(s) : t[k] \in ToSet(s)
    BY <1>1, <1>2 DEF ToSet
  <2>2. CASE i \in 1..Len(s) /\ j \in 1..Len(s)
    BY <1>1, <1>2, <2>2 DEF Sound, IsInjective
  <2> QED BY <1>3, <1>4, <2>1, <2>2
<1>7. ASSUME NEW a, NEW b, Before(t, a, b)
      PROVE  a \in ToSet(s) /\ (Before(s, a, b) \/ b = c)
  <2>1. PICK i, j \in DOMAIN t : i < j /\ t[i] = a /\ t[j] = b
    BY <1>7 DEF Before
  <2>2. i \in 1..Len(s) /\ s[i] = a
    BY <1>1, <1>2, <2>1
  <2>3. CASE j \in 1..Len(s)
    BY <1>1, <1>2, <2>1, <2>2, <2>3 DEF Before, ToSet
  <2>4. CASE j = Len(s) + 1
    BY <1>1, <1>3, <2>1, <2>2, <2>4 DEF ToSet
  <2> QED BY <1>4, <2>3, <2>4
<1> QED BY <1>1, <1>5, <1>6, <1>7 DEF Sound, t

\* A file that is written becomes the newest; the others keep their order.
LEMMA TouchFacts ==
  ASSUME NEW s, Sound(s), NEW c \in Cid
  PROVE  /\ Sound(Touch(s, c)) /\ ToSet(Touch(s, c)) = ToSet(s) \cup {c}
         /\ \A a, b : Before(Touch(s, c), a, b) =>
              /\ a \in ToSet(s) /\ a # c
              /\ Before(s, a, b) \/ b = c
<1>1. /\ Sound(Without(s, c)) /\ ToSet(Without(s, c)) = ToSet(s) \ {c}
      /\ \A a, b : Before(Without(s, c), a, b) => Before(s, a, b)
  BY WithoutFacts
<1>2. c \notin ToSet(Without(s, c))
  BY <1>1
<1> QED BY <1>1, <1>2, AppendFacts DEF Touch

-----------------------------------------------------------------------------
(* The invariant.                                                          *)

\* A log is being completed.
Completing == {"flushing", "moving", "moved"}

\* The line received last may still be written.
Undecided ==
  \/ pc \in {"check", "before", "write"}
  \/ pc \in Completing /\ then = "write"

\* Old logs are being recovered.
Recovering ==
  \/ pc = "recovering"
  \/ pc \in Completing /\ then = "recovering"

\* There is no current log.
NoCurrent ==
  \/ Recovering \/ pc = "down"
  \/ pc \in Completing /\ then = "down"

\* Where the owner of the mutex is, and what it holds there.
Control ==
  /\ cur \in IF NoCurrent THEN {NoCid} ELSE Files
  /\ IF pc \in Completing
       THEN /\ closed \in [cid : Cid, next : Cid]
            /\ closed.cid # cur /\ closed.cid # reserved
       ELSE closed = NoLog
  /\ pc \in {"flushing", "moving"} => closed.cid \in Files
  /\ pc = "moved" => closed.cid \notin Files
  /\ pc = "flushing" => then # "recovering"
  /\ poisoned => pc = "free" \/ crashes > 0

\* What recovery still has to do.
Recovery ==
  /\ IF Recovering THEN reserved \in Cid \ sized
                   ELSE reserved = NoCid /\ bogus = <<>> /\ leftover = <<>>
  /\ ToSet(bogus) \cap sized = {} /\ ToSet(bogus) \subseteq abandoned \cup {reserved}
  /\ ToSet(leftover) \subseteq [cid : Files \cap sized, next : Cid]
  /\ \A r \in ToSet(leftover) : r.cid # closed.cid
  /\ \A i, j \in 1..Len(leftover) : i # j => leftover[i].cid # leftover[j].cid

\* The lines of each log, on disk and in memory.
Lines == [c \in Cid |-> LinesIn(c)]

\* The CIDs of the logs that are MAR entries.
StagedCids == {r.cid : r \in staged}

\* Nothing exists for a CID that was not generated yet.
Fresh ==
  \A c \in Cid : c >= nextCid =>
    /\ c \notin Files \cup sized \cup StagedCids /\ c # reserved /\ c # closed.cid
    /\ Lines[c] = {}

\* Only the current log, and one that is about to be flushed, have lines in memory; a file
\* with lines is not empty; a log into which nothing was written has no lines.
Contents ==
  /\ IsInjective(tmp)
  /\ \A c \in Cid : disk[c] # {} => c \in sized
  /\ \A c \in Cid : memory[c] # {} => c = cur \/ (pc = "flushing" /\ c = closed.cid)
  /\ cur # NoCid /\ (written = 0 \/ pc = "flushing") => Lines[cur] = {}

\* A line is in one log.
LinesOnce ==
  /\ \A c, d \in Cid : c # d => Lines[c] \cap Lines[d] = {}
  /\ \A c \in Cid : \A l \in Lines[c] : l <= received /\ (Undecided => l # received)
  /\ Undecided => received > 0

\* A staged log is the file it was made of, and that file is gone.
StagedOnce ==
  /\ \A r \in staged : r.lines = disk[r.cid]
  /\ StagedCids \cap (Files \cup {reserved, closed.cid}) = {}
  /\ \A r, q \in staged : r.cid = q.cid => r = q

\* All lines of L were logged before those of M.
Earlier(L, M) == \A x \in L, y \in M : x < y

\* The mtimes of the files are in the order of their lines; the current log is the newest,
\* and so is one that is about to be flushed, but for the file just opened.
FilesInOrder ==
  /\ \A c, d \in Cid : Before(tmp, c, d) => Earlier(disk[c], disk[d])
  /\ cur # NoCid => \A c \in Files \ {cur} : Earlier(disk[c], Lines[cur])
  /\ pc = "flushing" => \A c \in Files \ {closed.cid} : Earlier(disk[c], Lines[closed.cid])

\* The logs that name a successor, or will name one.
Links ==
  {l \in [cid : Cid, next : Cid] :
     \/ \E r \in staged : r.cid = l.cid /\ r.next = l.next
     \/ l = closed \/ l \in ToSet(leftover)}

\* The lines of a log are earlier than those of its successor.
LinksInOrder == \A l \in Links : Earlier(Lines[l.cid], Lines[l.next])

\* The CIDs that have a log, or are known not to have one.
Known == Files \cup StagedCids \cup {closed.cid, reserved} \cup abandoned

\* No link leads to a CID that nobody answers for.
LinksAreKnown == \A l \in Links : l.next \in Known

\* The lines that are in some log, the line that is up for decision, and all lines there is
\* an account of.
AllLines == UNION {Lines[c] : c \in Cid}
Pending == IF Undecided THEN 1 ELSE 0
Total == Cardinality(AllLines) + reported + dropped + limited + forgotten + Pending

\* Nothing happened that loses lines without a count.
Lossless == crashes = 0 /\ failures = 0 /\ ~poisoned

\* Until something fails every line is counted or in a log that is still there.
Accounts ==
  /\ ~shortage => dropped = 0
  /\ Lossless =>
       /\ received = Total
       /\ \A c \in Cid : Lines[c] # {} =>
            c \in Files \cup StagedCids \/ (pc = "moved" /\ c = closed.cid)

\* The inductive invariant.
LogInv ==
  /\ TypeOK /\ Control /\ Recovery /\ Fresh /\ Contents /\ LinesOnce /\ StagedOnce
  /\ FilesInOrder /\ LinksInOrder /\ LinksAreKnown /\ Accounts

-----------------------------------------------------------------------------
(* Steps that leave the files and the logs alone.                          *)

\* The collector handles a line, or waits for one.
Busy == {"free", "check", "short", "before", "write", "after"}

\* The files, the logs and recovery stay as they are, and there is a current log.
Quiet ==
  /\ UNCHANGED <<fileVars, nextCid, cur, closed, then, recVars, staged, abandoned, crashes>>
  /\ pc \in Busy /\ pc' \in Busy
  /\ written' = 0 => written = 0

\* Such a step keeps everything that is about files and logs.
LEMMA QuietKeeps ==
  ASSUME LogInv, Quiet, poisoned' => pc' = "free" \/ crashes > 0
  PROVE  /\ Control' /\ Recovery' /\ Fresh' /\ Contents' /\ StagedOnce'
         /\ FilesInOrder' /\ LinksInOrder' /\ LinksAreKnown' /\ Lines' = Lines
<1>1. Files' = Files /\ Lines' = Lines /\ StagedCids' = StagedCids /\ Links' = Links
      /\ Known' = Known
  BY DEF Quiet, fileVars, recVars, Files, Lines, LinesIn, StagedCids, Links, Known
<1>2. pc \notin Completing /\ pc' \notin Completing
      /\ ~Recovering /\ ~Recovering' /\ ~NoCurrent /\ ~NoCurrent'
  BY DEF Quiet, Busy, Completing, Recovering, NoCurrent
<1>3. Control'
  <2>1. pc' \notin {"flushing", "moving", "moved"}
    BY <1>2 DEF Completing
  <2> QED BY <1>1, <1>2, <2>1 DEF LogInv, Control, Quiet
<1>4. Recovery'
  BY <1>1, <1>2 DEF LogInv, Recovery, Quiet, fileVars, recVars
<1>5. Fresh'
  BY <1>1 DEF LogInv, Fresh, Quiet, fileVars, recVars
<1>6. Contents'
  BY <1>1 DEF LogInv, Contents, Quiet, Busy, fileVars
<1>7. StagedOnce'
  BY <1>1 DEF LogInv, StagedOnce, Quiet, fileVars, recVars
<1>8. FilesInOrder'
  BY <1>1 DEF LogInv, FilesInOrder, Quiet, Busy, fileVars
<1>9. LinksInOrder' /\ LinksAreKnown'
  BY <1>1 DEF LogInv, LinksInOrder, LinksAreKnown
<1> QED BY <1>1, <1>3, <1>4, <1>5, <1>6, <1>7, <1>8, <1>9

\* Lines stay in one log as long as no line is added, and the last one is not up for
\* decision again.
LEMMA LinesOnceKept ==
  ASSUME LogInv, Lines' = Lines, received' = received, Undecided' => Undecided
  PROVE  LinesOnce'
BY DEF LogInv, LinesOnce

\* Lines are numbers.
LEMMA LinesAreNumbers ==
  ASSUME TypeOK
  PROVE  Lines \in [Cid -> SUBSET Nat] /\ received \in Nat
BY LogAssumption DEF TypeOK, Lines, LinesIn, Line

\* There are finitely many lines.
LEMMA AllLinesFinite ==
  ASSUME TypeOK
  PROVE  IsFiniteSet(AllLines) /\ Cardinality(AllLines) \in Nat
<1>1. AllLines \subseteq 1..MaxLines
  BY DEF AllLines, Lines, LinesIn, TypeOK, Line
<1>2. IsFiniteSet(1..MaxLines)
  BY LogAssumption, FS_Interval
<1> QED BY <1>1, <1>2, FS_Subset, FS_CardinalityType

\* A log is where it should be: in a file, staged, or on its way.
HasPlace(c) == c \in Files \cup StagedCids \/ (pc = "moved" /\ c = closed.cid)

\* The accounts hold if the numbers agree and every log with lines has its place.
LEMMA AccountsMove ==
  ASSUME LogInv, Lines' = Lines, Lossless' => Lossless, ~shortage' => dropped' = 0, TypeOK',
         received' + reported + dropped + limited + forgotten + Pending
           = received + reported' + dropped' + limited' + forgotten' + Pending',
         Lossless => \A c \in Cid : Lines[c] # {} /\ HasPlace(c) =>
                       c \in Files' \cup StagedCids' \/ (pc' = "moved" /\ c = closed'.cid)
  PROVE  Accounts'
<1>1. Lossless' => received' = Total'
  <2> SUFFICES ASSUME Lossless'
               PROVE  received' = Total'
    OBVIOUS
  <2>1. received = Total
    BY DEF LogInv, Accounts
  <2>2. AllLines' = AllLines
    BY DEF AllLines
  <2>3. Cardinality(AllLines) \in Nat
    BY AllLinesFinite DEF LogInv
  <2>4. /\ received \in Nat /\ reported \in Nat /\ dropped \in Nat /\ limited \in Nat
        /\ forgotten \in Nat /\ Pending \in Nat
    BY LogAssumption DEF LogInv, TypeOK, Pending
  <2>5. /\ received' \in Nat /\ reported' \in Nat /\ dropped' \in Nat /\ limited' \in Nat
        /\ forgotten' \in Nat /\ Pending' \in Nat
    BY LogAssumption DEF TypeOK, Pending
  <2> QED BY <2>1, <2>2, <2>3, <2>4, <2>5 DEF Total
<1>2. Lossless' => \A c \in Cid : Lines[c] # {} => HasPlace(c)
  BY DEF LogInv, Accounts, HasPlace
<1> QED BY <1>1, <1>2 DEF Accounts

\* The accounts hold if the numbers agree and the files stay where they are.
LEMMA AccountsKept ==
  ASSUME LogInv, Lines' = Lines, Files' = Files, StagedCids' = StagedCids, pc # "moved",
         Lossless' => Lossless, ~shortage' => dropped' = 0, TypeOK',
         received' + reported + dropped + limited + forgotten + Pending
           = received + reported' + dropped' + limited' + forgotten' + Pending'
  PROVE  Accounts'
<1>1. \A c \in Cid : HasPlace(c) => c \in Files' \cup StagedCids'
  BY DEF HasPlace
<1> QED BY <1>1, AccountsMove

\* The counts are numbers.
LEMMA CountsAreNumbers ==
  ASSUME TypeOK
  PROVE  /\ received \in Nat /\ reported \in Nat /\ dropped \in Nat /\ limited \in Nat
         /\ forgotten \in Nat /\ Pending \in Nat
BY LogAssumption DEF TypeOK, Pending

\* A line that is received is up for decision, and belongs to no log yet.
LEMMA ReceiveKeeps ==
  ASSUME LogInv, Receive
  PROVE  LogInv'
<1>1. Quiet /\ (poisoned' => pc' = "free" \/ crashes > 0)
  BY DEF Receive, Quiet, Busy, logVars, worldVars
<1>2. TypeOK'
  BY LogAssumption DEF LogInv, Receive, TypeOK, fileVars, logVars, limitVars, recVars
<1>3. Lines' = Lines /\ Files' = Files /\ StagedCids' = StagedCids
  BY <1>1, QuietKeeps DEF Receive, Files, StagedCids, fileVars
<1>4. Pending' = 1 /\ Pending = 0
  BY DEF Receive, Pending, Undecided, Completing
<1>5. LinesOnce'
  <2>1. Lines \in [Cid -> SUBSET Nat] /\ received \in Nat /\ received' = received + 1
    BY LinesAreNumbers DEF LogInv, Receive
  <2>2. \A c \in Cid : \A l \in Lines[c] : l <= received
    BY DEF LogInv, LinesOnce
  <2>3. \A c \in Cid : \A l \in Lines'[c] : l <= received' /\ l # received'
    BY <1>3, <2>1, <2>2
  <2> QED BY <1>3, <2>1, <2>3 DEF LogInv, LinesOnce
<1>6. Accounts'
  <2>1. /\ received' = received + 1 /\ reported' = reported /\ dropped' = dropped
        /\ limited' = limited /\ forgotten' = forgotten /\ shortage' = shortage
        /\ (Lossless' => Lossless) /\ pc # "moved"
    BY DEF Receive, limitVars, Lossless
  <2>2. ~shortage => dropped = 0
    BY DEF LogInv, Accounts
  <2>3. received' + reported + dropped + limited + forgotten + Pending
          = received + reported' + dropped' + limited' + forgotten' + Pending'
    BY <2>1, <1>4, CountsAreNumbers DEF LogInv
  <2> QED BY <1>2, <1>3, <2>1, <2>2, <2>3, AccountsKept
<1> QED BY <1>1, <1>2, <1>5, <1>6, QuietKeeps DEF LogInv

\* A step that loses lines because a call fails needs no account of them.
LEMMA FailuresAreNoted ==
  ASSUME LogInv, Fails, shortage' = shortage, dropped' = dropped
  PROVE  failures' \in 0..MaxFailures /\ Accounts'
<1>1. failures' \in 0..MaxFailures /\ failures' > 0
  BY LogAssumption DEF LogInv, TypeOK, Fails
<1>2. ~Lossless'
  BY <1>1 DEF Lossless
<1> QED BY <1>1, <1>2 DEF LogInv, Accounts

\* process_log_record fails, and the line is lost.
LEMMA RecordFailsKeeps ==
  ASSUME LogInv, RecordFails \/ ShortageRotationFails
  PROVE  LogInv'
<1>1. Quiet /\ (poisoned' => pc' = "free" \/ crashes > 0)
  BY DEF RecordFails, ShortageRotationFails, Quiet, Busy, logVars, Fails
<1>2. Accounts' /\ failures' \in 0..MaxFailures
  BY FailuresAreNoted DEF RecordFails, ShortageRotationFails, limitVars
<1>3. TypeOK'
  <2>1. CASE RecordFails
    BY <1>2, <2>1 DEF LogInv, RecordFails, TypeOK, fileVars, logVars, recVars
  <2>2. CASE ShortageRotationFails
    BY <1>2, <2>2 DEF LogInv, ShortageRotationFails, TypeOK, fileVars, logVars, limitVars, recVars
  <2> QED BY <2>1, <2>2
<1>4. LinesOnce'
  <2>1. received' = received /\ ~Undecided'
    BY DEF RecordFails, ShortageRotationFails, Undecided, Completing
  <2> QED BY <1>1, <2>1, QuietKeeps, LinesOnceKept
<1> QED BY <1>1, <1>2, <1>3, <1>4, QuietKeeps DEF LogInv

\* Where the collector goes on after a rotation.
GoesOn(after) ==
  \/ pc \in {"short", "after", "free"} /\ after = "free"
  \/ pc = "before" /\ after = "write"

\* A rotation that is not needed.
NoRotation(after) ==
  /\ GoesOn(after) /\ pc' = after
  /\ UNCHANGED <<fileVars, logVars, hasRotated, then, poisoned, recVars, shortage, dropped,
                 limited, worldVars>>

\* The collector goes on without a rotation.
LEMMA NoRotationKeeps ==
  ASSUME LogInv, NEW after, NoRotation(after)
  PROVE  LogInv'
<1>1. Quiet /\ (poisoned' => pc' = "free" \/ crashes > 0)
  <2>1. Quiet
    BY DEF NoRotation, GoesOn, Quiet, Busy, logVars, worldVars
  <2>2. poisoned' => pc' = "free" \/ crashes > 0
    BY DEF NoRotation, GoesOn, LogInv, Control
  <2> QED BY <2>1, <2>2
<1>2. TypeOK'
  BY DEF LogInv, NoRotation, GoesOn, TypeOK, fileVars, logVars, recVars, worldVars
<1>3. Lines' = Lines /\ Files' = Files /\ StagedCids' = StagedCids
  BY <1>1, QuietKeeps DEF NoRotation, Files, StagedCids, fileVars, worldVars
<1>4. Undecided' <=> Undecided
  BY DEF NoRotation, GoesOn, Undecided, Completing
<1>5. LinesOnce'
  BY <1>3, <1>4, LinesOnceKept DEF NoRotation, worldVars
<1>6. Accounts'
  <2>1. /\ received' = received /\ reported' = reported /\ dropped' = dropped
        /\ limited' = limited /\ forgotten' = forgotten /\ shortage' = shortage
        /\ (Lossless' => Lossless) /\ pc # "moved"
    BY DEF NoRotation, GoesOn, worldVars, Lossless
  <2>2. ~shortage => dropped = 0
    BY DEF LogInv, Accounts
  <2>3. Pending' = Pending
    BY <1>4 DEF Pending
  <2>4. received' + reported + dropped + limited + forgotten + Pending
          = received + reported' + dropped' + limited' + forgotten' + Pending'
    BY <2>1, <2>3
  <2> QED BY <1>2, <1>3, <2>1, <2>2, <2>4, AccountsKept
<1> QED BY <1>1, <1>2, <1>5, <1>6, QuietKeeps DEF LogInv

\* The current log grows old, or nothing happens at all.
LEMMA TickKeeps ==
  ASSUME LogInv, Tick \/ UNCHANGED vars
  PROVE  LogInv'
<1>1. /\ UNCHANGED <<tmp, sized, disk, memory, nextCid, cur, written, closed, shortage, dropped,
                   hasRotated, limited, pc, then, poisoned, bogus, leftover, reserved, received,
                   staged, reported, forgotten, abandoned, crashes, failures>>
      /\ old' \in BOOLEAN
  BY DEF LogInv, TypeOK, Tick, vars, fileVars, logVars, limitVars, ctlVars, recVars, worldVars
<1>2. TypeOK'
  BY <1>1 DEF LogInv, TypeOK
<1>3. Files' = Files /\ Lines' = Lines /\ StagedCids' = StagedCids /\ Links' = Links
      /\ Known' = Known
  BY <1>1 DEF Files, Lines, LinesIn, StagedCids, Links, Known
<1>4. (Undecided' <=> Undecided) /\ (Recovering' <=> Recovering) /\ (NoCurrent' <=> NoCurrent)
  BY <1>1 DEF Undecided, Recovering, NoCurrent
<1>5. Control' /\ Recovery'
  BY <1>1, <1>3, <1>4 DEF LogInv, Control, Recovery
<1>6. Fresh' /\ Contents' /\ LinesOnce' /\ StagedOnce' /\ FilesInOrder'
  BY <1>1, <1>3, <1>4 DEF LogInv, Fresh, Contents, LinesOnce, StagedOnce, FilesInOrder
<1>7. LinksInOrder' /\ LinksAreKnown'
  BY <1>3 DEF LogInv, LinksInOrder, LinksAreKnown
<1>8. Accounts'
  <2>1. (Lossless' <=> Lossless) /\ Total' = Total
    BY <1>1, <1>3, <1>4 DEF Lossless, Total, AllLines, Pending
  <2> QED BY <1>1, <1>3, <2>1 DEF LogInv, Accounts
<1> QED BY <1>2, <1>5, <1>6, <1>7, <1>8 DEF LogInv

-----------------------------------------------------------------------------
(* Steps that write to the current log.                                    *)

\* L is added to the current log, which may be flushed.  L is empty or the line that was
\* received last.
Writing(L) ==
  /\ pc \in {"check", "write"} /\ pc' \in {"short", "after"}
  /\ L \in {{}, {received}}
  /\ \/ memory' = [memory EXCEPT ![cur] = @ \cup L] /\ UNCHANGED <<tmp, sized, disk>>
     \/ /\ disk' = [disk EXCEPT ![cur] = (@ \cup memory[cur]) \cup L]
        /\ memory' = [memory EXCEPT ![cur] = {}]
        /\ sized' = sized \cup {cur} /\ tmp' = Touch(tmp, cur)
  /\ written' \in Nat \ {0}
  /\ UNCHANGED <<nextCid, cur, closed, then, poisoned, recVars, received, staged, abandoned,
                 crashes, failures>>

\* The files are without repetition, and are CIDs.
LEMMA FilesAreCids ==
  ASSUME LogInv
  PROVE  Sound(tmp) /\ Files \subseteq Cid /\ Cid \subseteq Nat \ {0} /\ NoCid \notin Cid
BY LogAssumption DEF LogInv, TypeOK, Contents, Sound, Files, ToSet, Cid, NoCid

\* While the collector is busy there is a current log, nothing is being completed and
\* nothing recovered.
LEMMA BusyFacts ==
  ASSUME LogInv, pc \in Busy
  PROVE  /\ cur \in Files /\ cur \in Cid /\ cur # NoCid
         /\ closed = NoLog /\ closed.cid \notin Cid /\ closed \notin [cid : Cid, next : Cid]
         /\ reserved = NoCid /\ bogus = <<>> /\ leftover = <<>> /\ ToSet(leftover) = {}
<1>1. ~NoCurrent /\ ~Recovering /\ pc \notin Completing
  BY DEF Busy, NoCurrent, Recovering, Completing
<1>2. cur \in Files /\ closed = NoLog
  BY <1>1 DEF LogInv, Control
<1>3. reserved = NoCid /\ bogus = <<>> /\ leftover = <<>>
  BY <1>1 DEF LogInv, Recovery
<1>4. ToSet(leftover) = {}
  BY <1>3 DEF ToSet
<1> QED BY <1>2, <1>3, <1>4, FilesAreCids DEF NoLog

\* What such a step does to the files.
LEMMA WritingFacts ==
  ASSUME LogInv, NEW L, Writing(L)
  PROVE  /\ Sound(tmp') /\ Files' = Files
         /\ \A a, b : Before(tmp', a, b) =>
              \/ disk' = disk /\ Before(tmp, a, b)
              \/ a \in Files \ {cur} /\ (Before(tmp, a, b) \/ b = cur)
         /\ sized \subseteq sized' /\ sized' \subseteq sized \cup {cur}
         /\ disk' \in [Cid -> SUBSET Line] /\ memory' \in [Cid -> SUBSET Line]
         /\ \A c \in Cid \ {cur} : disk'[c] = disk[c] /\ memory'[c] = memory[c]
         /\ Lines' = [Lines EXCEPT ![cur] = @ \cup L]
         /\ disk'[cur] # disk[cur] => cur \in sized'
         /\ disk'[cur] \subseteq Lines'[cur]
<1>1. cur \in Files /\ cur \in Cid
  BY BusyFacts DEF Writing, Busy
<1>2. L \subseteq Line
  BY DEF Writing, LogInv, TypeOK, LinesOnce, Undecided, Line
<1>3. disk \in [Cid -> SUBSET Line] /\ memory \in [Cid -> SUBSET Line]
  BY DEF LogInv, TypeOK
<1>4. CASE memory' = [memory EXCEPT ![cur] = @ \cup L] /\ UNCHANGED <<tmp, sized, disk>>
  <2>1. Lines' = [Lines EXCEPT ![cur] = @ \cup L]
    BY <1>1, <1>3, <1>4 DEF Lines, LinesIn
  <2>2. disk'[cur] \subseteq Lines'[cur]
    BY <1>1, <1>3, <1>4 DEF Lines, LinesIn
  <2>3. Files' = Files /\ Sound(tmp')
    BY <1>4, FilesAreCids DEF Files
  <2> QED BY <1>1, <1>2, <1>3, <1>4, <2>1, <2>2, <2>3
<1>5. CASE /\ disk' = [disk EXCEPT ![cur] = (@ \cup memory[cur]) \cup L]
           /\ memory' = [memory EXCEPT ![cur] = {}]
           /\ sized' = sized \cup {cur} /\ tmp' = Touch(tmp, cur)
  <2>1. Lines' = [Lines EXCEPT ![cur] = @ \cup L]
    BY <1>1, <1>3, <1>5 DEF Lines, LinesIn
  <2>2. disk'[cur] \subseteq Lines'[cur]
    BY <1>1, <1>3, <1>5 DEF Lines, LinesIn
  <2>3. /\ Sound(tmp') /\ Files' = Files \cup {cur}
        /\ \A a, b : Before(tmp', a, b) => a \in Files /\ a # cur /\ (Before(tmp, a, b) \/ b = cur)
    BY <1>1, <1>5, FilesAreCids, TouchFacts DEF Files
  <2>4. Files' = Files
    BY <1>1, <2>3
  <2>5. /\ disk' \in [Cid -> SUBSET Line] /\ memory' \in [Cid -> SUBSET Line]
        /\ \A c \in Cid \ {cur} : disk'[c] = disk[c] /\ memory'[c] = memory[c]
    BY <1>1, <1>2, <1>3, <1>5
  <2> QED BY <1>5, <2>1, <2>2, <2>3, <2>4, <2>5
<1> QED BY <1>4, <1>5 DEF Writing

\* Such a step keeps everything that is about files and logs.
LEMMA WritingKeeps ==
  ASSUME LogInv, NEW L, Writing(L)
  PROVE  /\ Control' /\ Recovery' /\ Fresh' /\ Contents' /\ LinesOnce' /\ StagedOnce'
         /\ FilesInOrder' /\ LinksInOrder' /\ LinksAreKnown'
<1>0. pc \in Busy /\ pc' \in Busy
  BY DEF Writing, Busy
<1>1. /\ cur \in Files /\ cur \in Cid /\ cur # NoCid
      /\ closed = NoLog /\ closed.cid \notin Cid /\ closed \notin [cid : Cid, next : Cid]
      /\ reserved = NoCid /\ bogus = <<>> /\ leftover = <<>> /\ ToSet(leftover) = {}
  BY <1>0, BusyFacts
<1>2. /\ Sound(tmp') /\ Files' = Files
      /\ \A a, b : Before(tmp', a, b) =>
           \/ disk' = disk /\ Before(tmp, a, b)
           \/ a \in Files \ {cur} /\ (Before(tmp, a, b) \/ b = cur)
      /\ sized \subseteq sized' /\ sized' \subseteq sized \cup {cur}
      /\ \A c \in Cid \ {cur} : disk'[c] = disk[c] /\ memory'[c] = memory[c]
      /\ Lines' = [Lines EXCEPT ![cur] = @ \cup L]
      /\ disk'[cur] # disk[cur] => cur \in sized'
      /\ disk'[cur] \subseteq Lines'[cur]
  BY WritingFacts
<1>3. /\ UNCHANGED <<nextCid, cur, closed, then, poisoned, received, staged, abandoned, crashes>>
      /\ UNCHANGED <<bogus, leftover, reserved>>
  BY DEF Writing, recVars
<1>4. StagedCids' = StagedCids /\ Links' = Links
  BY <1>3 DEF StagedCids, Links
<1>5. pc' \notin Completing /\ ~Recovering' /\ ~NoCurrent' /\ ~Recovering /\ ~Undecided'
  BY <1>0 DEF Writing, Busy, Completing, Recovering, NoCurrent, Undecided
<1>6. /\ \A c \in Cid : disk[c] \subseteq Lines[c]
      /\ Lines \in [Cid -> SUBSET Nat] /\ received \in Nat
      /\ Undecided /\ L \in {{}, {received}}
      /\ \A c \in Cid : \A l \in Lines[c] : l < received
  <2>1. Undecided /\ L \in {{}, {received}}
    BY DEF Writing, Undecided
  <2>2. Lines \in [Cid -> SUBSET Nat] /\ received \in Nat
    BY LinesAreNumbers DEF LogInv
  <2>3. \A c \in Cid : \A l \in Lines[c] : l <= received /\ l # received
    BY <2>1 DEF LogInv, LinesOnce
  <2>4. \A c \in Cid : \A l \in Lines[c] : l < received
    BY <2>2, <2>3
  <2>5. \A c \in Cid : disk[c] \subseteq Lines[c]
    BY DEF Lines, LinesIn
  <2> QED BY <2>1, <2>2, <2>4, <2>5
<1>7. /\ \A c \in Cid \ {cur} : Lines'[c] = Lines[c]
      /\ Lines'[cur] = Lines[cur] \cup L
  BY <1>1, <1>2, <1>6
<1>8. Control'
  <2>1. pc' \notin {"flushing", "moving", "moved"}
    BY <1>5 DEF Completing
  <2>2. poisoned => crashes > 0
    BY DEF LogInv, Control, Writing
  <2> QED BY <1>1, <1>2, <1>3, <1>5, <2>1, <2>2 DEF Control
<1>9. Recovery'
  BY <1>1, <1>3, <1>5 DEF Recovery, ToSet
<1>10. Fresh'
  <2>1. nextCid \in Nat /\ Cid \subseteq Nat
    BY LogAssumption DEF LogInv, TypeOK, Cid
  <2>2. cur < nextCid
    BY <1>1, <2>1 DEF LogInv, Fresh
  <2> QED BY <1>2, <1>3, <1>4, <1>7, <2>1, <2>2 DEF LogInv, Fresh
<1>11. Contents'
  BY <1>1, <1>2, <1>3, <1>5 DEF LogInv, Contents, Sound, Writing
<1>12. LinesOnce'
  BY <1>1, <1>3, <1>5, <1>6, <1>7 DEF LogInv, LinesOnce
<1>13. StagedOnce'
  <2>1. \A r \in staged : r.cid \in Cid \ {cur}
    BY <1>1 DEF LogInv, StagedOnce, StagedCids, TypeOK
  <2>2. \A r \in staged' : r.lines = disk'[r.cid]
    BY <1>2, <1>3, <2>1 DEF LogInv, StagedOnce
  <2>3. StagedCids' \cap (Files' \cup {reserved', closed'.cid}) = {}
    BY <1>2, <1>3, <1>4 DEF LogInv, StagedOnce
  <2> QED BY <1>3, <2>2, <2>3 DEF LogInv, StagedOnce
<1>14. FilesInOrder'
  <2>1. \A c \in Files \ {cur} : Earlier(disk[c], Lines[cur] \cup L)
    BY <1>1, <1>6, FilesAreCids DEF LogInv, FilesInOrder, Earlier
  <2>2. cur' # NoCid => \A c \in Files' \ {cur'} : Earlier(disk'[c], Lines'[cur'])
    BY <1>2, <1>3, <1>7, <2>1, FilesAreCids
  <2>3. ASSUME NEW a \in Cid, NEW b \in Cid, Before(tmp', a, b)
        PROVE  Earlier(disk'[a], disk'[b])
    <3>1. CASE disk' = disk /\ Before(tmp, a, b)
      BY <3>1 DEF LogInv, FilesInOrder
    <3>2. CASE a \in Files \ {cur} /\ b = cur
      BY <1>1, <1>2, <1>3, <2>2, <3>2 DEF Earlier
    <3>3. CASE a \in Files \ {cur} /\ Before(tmp, a, b) /\ b # cur
      BY <1>2, <3>3 DEF LogInv, FilesInOrder
    <3> QED BY <1>2, <2>3, <3>1, <3>2, <3>3
  <2> QED BY <1>5, <2>2, <2>3 DEF FilesInOrder, Completing
<1>15. LinksInOrder'
  <2> SUFFICES ASSUME NEW l \in Links
               PROVE  Earlier(Lines'[l.cid], Lines'[l.next])
    BY <1>4 DEF LinksInOrder
  <2>1. l.cid \in Cid /\ l.next \in Cid /\ l.cid # cur
    BY <1>1 DEF Links, LogInv, StagedOnce, StagedCids
  <2>2. Earlier(Lines[l.cid], Lines[l.next])
    BY DEF LogInv, LinksInOrder
  <2>3. CASE l.next = cur
    BY <1>6, <1>7, <2>1, <2>2, <2>3 DEF Earlier
  <2>4. CASE l.next # cur
    BY <1>7, <2>1, <2>2, <2>4
  <2> QED BY <2>3, <2>4
<1>16. LinksAreKnown'
  BY <1>2, <1>3, <1>4 DEF LogInv, LinksAreKnown, Known
<1> QED BY <1>8, <1>9, <1>10, <1>11, <1>12, <1>13, <1>14, <1>15, <1>16

\* HeadroomLimiter::check.
LEMMA CheckHeadroomKeeps ==
  ASSUME LogInv, CheckHeadroom
  PROVE  LogInv'
<1>1. PICK space \in Spaces :
        \/ HeadroomStaysOk(space) \/ HeadroomRecovers(space)
        \/ HeadroomEnters(space) \/ HeadroomStaysShort(space)
  BY DEF CheckHeadroom
<1>2. /\ pc = "check"
      /\ UNCHANGED <<nextCid, cur, old, closed, then, recVars, received, staged, forgotten,
                     abandoned, crashes, failures>>
  BY DEF CheckHeadroom
<1>3. poisoned => crashes > 0
  BY <1>2 DEF LogInv, Control
<1>4. /\ received \in Nat /\ reported \in Nat /\ dropped \in Nat /\ limited \in Nat
      /\ forgotten \in Nat /\ Pending = 1
  BY <1>2, CountsAreNumbers DEF LogInv, Pending, Undecided
<1>5. ~shortage => dropped = 0
  BY DEF LogInv, Accounts
<1>6. UNCHANGED fileVars => Files' = Files /\ StagedCids' = StagedCids
  BY <1>2 DEF Files, StagedCids, fileVars
<1>7. CASE HeadroomStaysOk(space)
  <2>1. Quiet /\ (poisoned' => pc' = "free" \/ crashes > 0)
    BY <1>2, <1>3, <1>7 DEF HeadroomStaysOk, Quiet, Busy
  <2>2. TypeOK'
    BY <1>2, <1>7 DEF LogInv, TypeOK, HeadroomStaysOk, fileVars, limitVars, recVars
  <2>3. Undecided /\ Undecided' /\ Pending' = 1
    BY <1>2, <1>7 DEF Undecided, HeadroomStaysOk, Pending
  <2>4. Accounts'
    <3>1. /\ received' = received /\ reported' = reported /\ dropped' = dropped
          /\ limited' = limited /\ forgotten' = forgotten /\ shortage' = shortage
          /\ (Lossless' => Lossless) /\ pc # "moved" /\ UNCHANGED fileVars
      BY <1>2, <1>7 DEF HeadroomStaysOk, limitVars, Lossless
    <3> QED BY <1>4, <1>5, <1>6, <2>1, <2>2, <2>3, <3>1, QuietKeeps, AccountsKept
  <2> QED BY <1>2, <2>1, <2>2, <2>3, <2>4, QuietKeeps, LinesOnceKept DEF LogInv
<1>8. CASE HeadroomRecovers(space)
  <2>1. Quiet /\ (poisoned' => pc' = "free" \/ crashes > 0)
    BY <1>2, <1>3, <1>8 DEF HeadroomRecovers, Quiet, Busy, LogInv, TypeOK
  <2>2. TypeOK'
    <3>1. /\ UNCHANGED <<fileVars, limited, poisoned>> /\ pc' = "before"
          /\ shortage' = FALSE /\ dropped' = 0 /\ hasRotated' = FALSE
      BY <1>8 DEF HeadroomRecovers
    <3>2. written' \in Nat /\ reported' \in Nat
      BY <1>8 DEF HeadroomRecovers, LogInv, TypeOK
    <3> QED BY <1>2, <3>1, <3>2 DEF LogInv, TypeOK, fileVars, recVars
  <2>3. Undecided /\ Undecided' /\ Pending' = 1
    BY <1>2, <1>8 DEF Undecided, HeadroomRecovers, Pending
  <2>4. Accounts'
    <3>1. /\ received' = received /\ reported' = reported + dropped /\ dropped' = 0
          /\ limited' = limited /\ forgotten' = forgotten
          /\ (Lossless' => Lossless) /\ pc # "moved" /\ UNCHANGED fileVars
      BY <1>2, <1>8 DEF HeadroomRecovers, Lossless
    <3>2. received' + reported + dropped + limited + forgotten + Pending
            = received + reported' + dropped' + limited' + forgotten' + Pending'
      BY <1>4, <2>3, <3>1
    <3> QED BY <1>6, <2>1, <2>2, <3>1, <3>2, QuietKeeps, AccountsKept
  <2> QED BY <1>2, <2>1, <2>2, <2>3, <2>4, QuietKeeps, LinesOnceKept DEF LogInv
<1>9. CASE HeadroomStaysShort(space)
  <2>1. Quiet /\ (poisoned' => pc' = "free" \/ crashes > 0)
    BY <1>2, <1>3, <1>9 DEF HeadroomStaysShort, Quiet, Busy
  <2>2. TypeOK'
    BY <1>2, <1>9 DEF LogInv, TypeOK, HeadroomStaysShort, fileVars, recVars
  <2>3. ~Undecided' /\ Pending' = 0
    BY <1>2, <1>9 DEF Undecided, HeadroomStaysShort, Pending, Completing
  <2>4. Accounts'
    <3>1. /\ received' = received /\ reported' = reported /\ dropped' = dropped + 1
          /\ limited' = limited /\ forgotten' = forgotten /\ shortage' = shortage /\ shortage
          /\ (Lossless' => Lossless) /\ pc # "moved" /\ UNCHANGED fileVars
      BY <1>2, <1>9 DEF HeadroomStaysShort, Lossless
    <3>2. received' + reported + dropped + limited + forgotten + Pending
            = received + reported' + dropped' + limited' + forgotten' + Pending'
      BY <1>4, <2>3, <3>1
    <3> QED BY <1>6, <2>1, <2>2, <3>1, <3>2, QuietKeeps, AccountsKept
  <2> QED BY <1>2, <2>1, <2>2, <2>3, <2>4, QuietKeeps, LinesOnceKept DEF LogInv
<1>10. CASE HeadroomEnters(space) /\ AtLeast(space, MinHeadroom)
  <2>0. /\ poisoned' = TRUE /\ pc' = "free" /\ UNCHANGED <<fileVars, written, limitVars>>
        /\ UNCHANGED reported
    BY <1>10 DEF HeadroomEnters
  <2>1. Quiet /\ (poisoned' => pc' = "free" \/ crashes > 0)
    BY <1>2, <2>0 DEF Quiet, Busy
  <2>2. TypeOK'
    BY <1>2, <2>0 DEF LogInv, TypeOK, fileVars, limitVars, recVars
  <2>3. ~Undecided'
    BY <2>0 DEF Undecided, Completing
  <2>4. Accounts'
    BY <1>5, <2>0 DEF Accounts, Lossless, limitVars
  <2> QED BY <1>2, <2>1, <2>2, <2>3, <2>4, QuietKeeps, LinesOnceKept DEF LogInv
<1>11. CASE HeadroomEnters(space) /\ ~AtLeast(space, MinHeadroom)
  <2>0. /\ ~shortage /\ written' = written + 1
        /\ disk' = [disk EXCEPT ![cur] = @ \cup memory[cur]]
        /\ memory' = [memory EXCEPT ![cur] = {}]
        /\ sized' = sized \cup {cur} /\ tmp' = Touch(tmp, cur)
        /\ shortage' = TRUE /\ dropped' = 1 /\ hasRotated' = FALSE
        /\ pc' = "short" /\ UNCHANGED <<limited, poisoned, reported>>
    BY <1>11 DEF HeadroomEnters
  <2>1. Writing({})
    <3>1. disk' = [disk EXCEPT ![cur] = (@ \cup memory[cur]) \cup {}]
      BY <2>0
    <3>2. written' \in Nat \ {0}
      BY <2>0 DEF LogInv, TypeOK
    <3> QED BY <1>2, <2>0, <3>1, <3>2 DEF Writing
  <2>2. /\ Sound(tmp') /\ Files' = Files /\ sized' \subseteq sized \cup {cur} /\ cur \in Cid
        /\ disk' \in [Cid -> SUBSET Line] /\ memory' \in [Cid -> SUBSET Line]
        /\ Lines' = [Lines EXCEPT ![cur] = @ \cup {}]
    BY <2>1, <1>2, WritingFacts, BusyFacts DEF Busy
  <2>3. TypeOK'
    <3>1. written' \in Nat /\ sized' \subseteq Cid
      BY <2>0, <2>2 DEF LogInv, TypeOK
    <3>2. /\ shortage' = TRUE /\ dropped' = 1 /\ hasRotated' = FALSE
          /\ pc' = "short" /\ UNCHANGED <<limited, poisoned, reported>>
      BY <2>0
    <3> QED BY <1>2, <2>2, <3>1, <3>2 DEF LogInv, TypeOK, recVars, Sound
  <2>4. Lines' = Lines /\ StagedCids' = StagedCids /\ Pending' = 0
    BY <1>2, <2>0, <2>2, LinesAreNumbers DEF LogInv, StagedCids, Pending, Undecided, Completing
  <2>5. Accounts'
    <3>1. received' + reported + dropped + limited + forgotten + Pending
            = received + reported' + dropped' + limited' + forgotten' + Pending'
      BY <1>2, <1>4, <1>5, <2>0, <2>4
    <3>2. Lossless' => Lossless
      BY <1>2, <2>0 DEF Lossless
    <3> QED BY <1>2, <2>0, <2>2, <2>3, <2>4, <3>1, <3>2, AccountsKept
  <2> QED BY <2>1, <2>3, <2>5, WritingKeeps DEF LogInv
<1> QED BY <1>1, <1>7, <1>8, <1>9, <1>10, <1>11

\* run_within_limits, and the write of the line.
LEMMA WriteLineKeeps ==
  ASSUME LogInv, WriteLine
  PROVE  LogInv'
<1>2. /\ pc = "write" /\ pc' = "after"
      /\ UNCHANGED <<nextCid, cur, old, closed, shortage, dropped, hasRotated, then, poisoned,
                     recVars, received, staged, forgotten, abandoned, crashes, failures>>
  BY DEF WriteLine
<1>3. poisoned => crashes > 0
  BY <1>2 DEF LogInv, Control
<1>4. /\ received \in Nat /\ reported \in Nat /\ dropped \in Nat /\ limited \in Nat
      /\ forgotten \in Nat /\ Pending = 1 /\ Pending' = 0 /\ ~Undecided' /\ Undecided
  BY <1>2, CountsAreNumbers DEF LogInv, Pending, Undecided, Completing
<1>5. ~shortage => dropped = 0
  BY DEF LogInv, Accounts
<1>6. StagedCids' = StagedCids /\ (Lossless' => Lossless)
  BY <1>2 DEF StagedCids, Lossless
<1>7. CASE limited' = limited + 1 /\ UNCHANGED <<fileVars, written, reported>>
  <2>1. Quiet /\ (poisoned' => pc' = "free" \/ crashes > 0)
    BY <1>2, <1>3, <1>7 DEF Quiet, Busy
  <2>2. TypeOK'
    <3>1. limited' \in Nat /\ UNCHANGED <<fileVars, written, reported>>
      BY <1>4, <1>7
    <3> QED BY <1>2, <3>1 DEF LogInv, TypeOK, fileVars, recVars
  <2>3. Accounts'
    <3>1. received' + reported + dropped + limited + forgotten + Pending
            = received + reported' + dropped' + limited' + forgotten' + Pending'
      BY <1>2, <1>4, <1>7
    <3>2. Files' = Files
      BY <1>7 DEF Files, fileVars
    <3> QED BY <1>2, <1>5, <1>6, <2>1, <2>2, <3>1, <3>2, QuietKeeps, AccountsKept
  <2> QED BY <1>2, <1>4, <2>1, <2>2, <2>3, QuietKeeps, LinesOnceKept DEF LogInv
<1>8. CASE
        /\ limited' = 0 /\ reported' = reported + limited
        /\ written' = written + (IF limited > 0 THEN 2 ELSE 1)
        /\ \/ /\ memory' = [memory EXCEPT ![cur] = @ \cup {received}]
              /\ UNCHANGED <<tmp, sized, disk>>
           \/ /\ disk' = [disk EXCEPT ![cur] = @ \cup memory[cur] \cup {received}]
              /\ memory' = [memory EXCEPT ![cur] = {}]
              /\ sized' = sized \cup {cur} /\ tmp' = Touch(tmp, cur)
  <2>0. written' \in Nat \ {0} /\ reported' \in Nat
    BY <1>4, <1>8 DEF LogInv, TypeOK
  <2>1. Writing({received})
    BY <1>2, <1>8, <2>0 DEF Writing
  <2>2. /\ Sound(tmp') /\ Files' = Files /\ sized' \subseteq sized \cup {cur}
        /\ disk' \in [Cid -> SUBSET Line] /\ memory' \in [Cid -> SUBSET Line]
        /\ Lines' = [Lines EXCEPT ![cur] = @ \cup {received}] /\ cur \in Cid /\ cur \in Files
    BY <2>1, <1>2, WritingFacts, BusyFacts DEF Busy
  <2>3. TypeOK'
    <3>1. limited' = 0 /\ sized' \subseteq Cid
      BY <1>8, <2>2 DEF LogInv, TypeOK
    <3> QED BY <1>2, <2>0, <2>2, <3>1 DEF LogInv, TypeOK, recVars, Sound
  <2>4. AllLines' = AllLines \cup {received} /\ received \notin AllLines
    <3>1. Lines \in [Cid -> SUBSET Nat]
      BY LinesAreNumbers DEF LogInv
    <3>2. \A c \in Cid : received \notin Lines[c]
      BY <1>4 DEF LogInv, LinesOnce
    <3>3. /\ Lines'[cur] = Lines[cur] \cup {received}
          /\ \A c \in Cid \ {cur} : Lines'[c] = Lines[c]
      BY <2>2, <3>1
    <3> QED BY <2>2, <3>2, <3>3 DEF AllLines
  <2>5. Cardinality(AllLines') = Cardinality(AllLines) + 1 /\ Cardinality(AllLines) \in Nat
    BY <2>4, AllLinesFinite, FS_AddElement DEF LogInv
  <2>6. Accounts'
    <3>1. ASSUME Lossless'
          PROVE  received' = Total'
      <4>1. received = Total
        BY <1>6, <3>1 DEF LogInv, Accounts
      <4> QED BY <1>2, <1>4, <1>8, <2>5, <4>1 DEF Total
    <3>2. Lossless' => \A c \in Cid : Lines'[c] # {} => c \in Files' \cup StagedCids'
      <4>1. Lines \in [Cid -> SUBSET Nat]
        BY LinesAreNumbers DEF LogInv
      <4>2. \A c \in Cid \ {cur} : Lines'[c] = Lines[c]
        BY <2>2, <4>1
      <4> QED BY <1>2, <1>6, <2>2, <4>2 DEF LogInv, Accounts
    <3> QED BY <1>2, <1>5, <3>1, <3>2 DEF Accounts
  <2> QED BY <2>1, <2>3, <2>6, WritingKeeps DEF LogInv
<1> QED BY <1>7, <1>8 DEF WriteLine

-----------------------------------------------------------------------------
(* Rotation and shutdown.                                                  *)

\* rotate_log.
LEMMA OpenNextKeeps ==
  ASSUME LogInv, NEW after, OpenNext(after),
         GoesOn(after),
         poisoned => crashes > 0,
         UNCHANGED <<shortage, dropped, limited, worldVars>>, hasRotated' \in BOOLEAN
  PROVE  LogInv'
<1>1. /\ cur \in Files /\ cur \in Cid /\ cur # NoCid
      /\ closed = NoLog /\ closed.cid \notin Cid /\ closed \notin [cid : Cid, next : Cid]
      /\ reserved = NoCid /\ bogus = <<>> /\ leftover = <<>> /\ ToSet(leftover) = {}
  BY BusyFacts DEF Busy, GoesOn
<1>2. /\ nextCid \in Cid /\ nextCid \in Nat /\ nextCid # NoCid /\ Cid \subseteq Nat
      /\ MaxCids \in Nat /\ nextCid <= MaxCids
  BY LogAssumption DEF LogInv, TypeOK, OpenNext, Cid, NoCid
<1>3. /\ nextCid \notin Files \cup sized \cup StagedCids
      /\ Lines[nextCid] = {}
  BY <1>2 DEF LogInv, Fresh
<1>4. /\ tmp' = Append(tmp, nextCid) /\ closed' = [cid |-> cur, next |-> nextCid]
      /\ cur' = nextCid /\ nextCid' = nextCid + 1 /\ written' = 0 /\ old' = FALSE
      /\ pc' = "flushing" /\ then' = after
      /\ UNCHANGED <<sized, disk, memory, poisoned, bogus, leftover, reserved>>
      /\ UNCHANGED <<received, staged, reported, forgotten, abandoned, crashes, failures>>
  BY DEF OpenNext, recVars, worldVars
<1>5. Lines' = Lines /\ StagedCids' = StagedCids
  BY <1>4 DEF Lines, LinesIn, StagedCids
<1>6. /\ Sound(tmp') /\ Files' = Files \cup {nextCid}
      /\ \A a, b : Before(tmp', a, b) => a \in Files /\ (Before(tmp, a, b) \/ b = nextCid)
  BY <1>2, <1>3, <1>4, FilesAreCids, AppendFacts DEF Files
<1>7. ~NoCurrent' /\ ~Recovering' /\ pc' \in Completing /\ (Undecided' <=> Undecided)
  BY <1>4 DEF GoesOn, NoCurrent, Recovering, Completing, Undecided
<1>8. closed' \in [cid : Cid, next : Cid] /\ closed'.cid = cur /\ closed'.next = nextCid
  BY <1>1, <1>2, <1>4
<1>9. disk[nextCid] = {} /\ \A c \in Cid : disk[c] \subseteq Lines[c]
  BY <1>2, <1>3 DEF Lines, LinesIn
<1>10. TypeOK'
  <2>1. nextCid' \in 1..(MaxCids + 1) /\ closed' \in Log
    BY <1>2, <1>4, <1>8 DEF Log
  <2>2. then' \in {"down", "recovering", "free", "write"}
    BY <1>4 DEF GoesOn
  <2>3. cur' \in Cid \cup {NoCid} /\ tmp' \in Seq(Cid) /\ written' \in Nat
    BY <1>2, <1>4, <1>6 DEF Sound
  <2> QED BY <1>4, <2>1, <2>2, <2>3 DEF LogInv, TypeOK
<1>11. Control'
  <2>1. closed'.cid # cur' /\ closed'.cid # reserved' /\ closed'.cid \in Files'
    BY <1>1, <1>3, <1>4, <1>6, <1>8
  <2>2. cur' \in Files'
    BY <1>4, <1>6
  <2>3. then' # "recovering"
    BY <1>4 DEF GoesOn
  <2> QED BY <1>4, <1>7, <1>8, <2>1, <2>2, <2>3 DEF Control
<1>12. Recovery'
  BY <1>1, <1>4, <1>7 DEF Recovery, ToSet
<1>13. Fresh'
  <2> SUFFICES ASSUME NEW c \in Cid, c >= nextCid'
               PROVE  /\ c \notin Files' \cup sized' \cup StagedCids' /\ c # reserved'
                      /\ c # closed'.cid /\ Lines'[c] = {}
    BY DEF Fresh
  <2>1. c >= nextCid /\ c # nextCid
    BY <1>2, <1>4
  <2>2. c # cur
    BY <1>1, <2>1 DEF LogInv, Fresh
  <2> QED BY <1>4, <1>5, <1>6, <1>8, <2>1, <2>2 DEF LogInv, Fresh
<1>14. Contents'
  BY <1>3, <1>4, <1>5, <1>6, <1>8 DEF LogInv, Contents, Sound, GoesOn
<1>15. LinesOnce'
  BY <1>4, <1>5, <1>7, LinesOnceKept
<1>16. StagedOnce'
  <2>1. StagedCids' \cap (Files' \cup {reserved', closed'.cid}) = {}
    BY <1>1, <1>3, <1>4, <1>5, <1>6, <1>8 DEF LogInv, StagedOnce
  <2> QED BY <1>4, <2>1 DEF LogInv, StagedOnce
<1>17. FilesInOrder'
  <2>1. \A a, b \in Cid : Before(tmp', a, b) => Earlier(disk'[a], disk'[b])
    BY <1>4, <1>6, <1>9 DEF LogInv, FilesInOrder, Earlier
  <2>2. \A c \in Files' \ {cur'} : Earlier(disk'[c], Lines'[cur'])
    BY <1>3, <1>4, <1>5 DEF Earlier
  <2>3. \A c \in Files' \ {closed'.cid} : Earlier(disk'[c], Lines'[closed'.cid])
    BY <1>1, <1>4, <1>5, <1>6, <1>8, <1>9 DEF LogInv, FilesInOrder, Earlier
  <2> QED BY <2>1, <2>2, <2>3 DEF FilesInOrder
<1>18. \A l \in Links' : l \in Links \/ l = closed'
  BY <1>4 DEF Links
<1>19. LinksInOrder'
  <2>1. Earlier(Lines'[closed'.cid], Lines'[closed'.next])
    BY <1>3, <1>5, <1>8 DEF Earlier
  <2> QED BY <1>5, <1>18, <2>1 DEF LogInv, LinksInOrder
<1>20. LinksAreKnown'
  <2>1. \A l \in Links : l.next \in Files \cup StagedCids \cup abandoned
    BY <1>1, FilesAreCids DEF LogInv, LinksAreKnown, Known, Links
  <2> QED BY <1>4, <1>5, <1>6, <1>8, <1>18, <2>1 DEF LinksAreKnown, Known
<1>21. Accounts'
  <2>1. Pending' = Pending
    BY <1>7 DEF Pending
  <2>2. ~shortage' => dropped' = 0
    BY DEF LogInv, Accounts
  <2>3. Lossless' => Lossless
    BY <1>4 DEF Lossless
  <2>4. \A c \in Cid : HasPlace(c) => c \in Files' \cup StagedCids'
    BY <1>5, <1>6 DEF HasPlace, GoesOn
  <2> QED BY <1>4, <1>5, <1>10, <2>1, <2>2, <2>3, <2>4, AccountsMove
<1> QED BY <1>10, <1>11, <1>12, <1>13, <1>14, <1>15, <1>16, <1>17, <1>19, <1>20, <1>21 DEF LogInv

\* All rotations, and the steps at which there might be one and is none.
LEMMA RotationKeeps ==
  ASSUME LogInv,
         RotateInShortage \/ RotateBefore \/ RotateAfter \/ MainRotate \/ MainFlush
  PROVE  LogInv'
<1>1. pc # "free" => (poisoned => crashes > 0)
  BY DEF LogInv, Control
<1>2. CASE RotateInShortage
  <2>1. GoesOn("free") /\ (poisoned => crashes > 0)
    BY <1>1, <1>2 DEF RotateInShortage, GoesOn
  <2>2. CASE ~hasRotated /\ Needed
    <3>1. OpenNext("free") /\ hasRotated' \in BOOLEAN
      BY <1>2, <2>2 DEF RotateInShortage
    <3>2. UNCHANGED <<shortage, dropped, limited, worldVars>>
      BY <1>2 DEF RotateInShortage, worldVars
    <3> QED BY <2>1, <3>1, <3>2, OpenNextKeeps
  <2>3. CASE ~(~hasRotated /\ Needed)
    <3>1. NoRotation("free")
      BY <1>2, <2>1, <2>3 DEF RotateInShortage, NoRotation, worldVars
    <3> QED BY <3>1, NoRotationKeeps
  <2> QED BY <2>2, <2>3
<1>3. ASSUME NEW after, RotateIfNeeded(after), poisoned => crashes > 0, GoesOn(after)
      PROVE  LogInv'
  <2>1. CASE Needed
    <3>1. /\ OpenNext(after) /\ UNCHANGED <<shortage, dropped, limited, worldVars>>
          /\ hasRotated' = hasRotated
      BY <1>3, <2>1 DEF RotateIfNeeded, limitVars
    <3>2. hasRotated' \in BOOLEAN
      BY <3>1 DEF LogInv, TypeOK
    <3> QED BY <1>3, <3>1, <3>2, OpenNextKeeps
  <2>2. CASE ~Needed
    <3>1. NoRotation(after)
      BY <1>3, <2>2 DEF RotateIfNeeded, NoRotation, limitVars
    <3> QED BY <3>1, NoRotationKeeps
  <2> QED BY <2>1, <2>2
<1>4. CASE RotateBefore
  <2>1. RotateIfNeeded("write") /\ GoesOn("write") /\ (poisoned => crashes > 0)
    BY <1>1, <1>4 DEF RotateBefore, GoesOn
  <2> QED BY <1>3, <2>1
<1>5. CASE RotateAfter
  <2>1. RotateIfNeeded("free") /\ GoesOn("free") /\ (poisoned => crashes > 0)
    BY <1>1, <1>5 DEF RotateAfter, GoesOn
  <2> QED BY <1>3, <2>1
<1>6. CASE MainRotate
  <2>1. RotateIfNeeded("free") /\ GoesOn("free") /\ ~poisoned
    BY <1>6 DEF MainRotate, GoesOn
  <2> QED BY <1>3, <2>1
<1>7. CASE MainFlush
  <2>1. /\ OpenNext("free") /\ UNCHANGED <<shortage, dropped, limited, worldVars>>
        /\ hasRotated' = hasRotated /\ GoesOn("free") /\ ~poisoned
    BY <1>7 DEF MainFlush, limitVars, GoesOn
  <2>2. hasRotated' \in BOOLEAN
    BY <2>1 DEF LogInv, TypeOK
  <2> QED BY <2>1, <2>2, OpenNextKeeps
<1> QED BY <1>2, <1>4, <1>5, <1>6, <1>7

\* close_internal, with data in the current log.
LEMMA ShutdownWithDataKeeps ==
  ASSUME LogInv, Shutdown, written > 0
  PROVE  LogInv'
<1>1. /\ cur \in Files /\ cur \in Cid /\ cur # NoCid
      /\ closed = NoLog /\ closed.cid \notin Cid /\ closed \notin [cid : Cid, next : Cid]
      /\ reserved = NoCid /\ bogus = <<>> /\ leftover = <<>> /\ ToSet(leftover) = {}
  BY BusyFacts DEF Busy, Shutdown
<1>2. /\ nextCid \in Cid /\ nextCid \in Nat /\ nextCid # NoCid /\ Cid \subseteq Nat
      /\ MaxCids \in Nat /\ nextCid <= MaxCids
  BY LogAssumption DEF LogInv, TypeOK, Shutdown, Optional, Cid, NoCid
<1>3. /\ nextCid \notin Files \cup sized \cup StagedCids
      /\ Lines[nextCid] = {}
  BY <1>2 DEF LogInv, Fresh
<1>4. /\ closed' = [cid |-> cur, next |-> nextCid] /\ pc = "free" /\ ~poisoned
      /\ cur' = NoCid /\ nextCid' = nextCid + 1 /\ written' = 0 /\ old' = FALSE
      /\ pc' = "flushing" /\ then' = "down" /\ abandoned' = abandoned \cup {nextCid}
      /\ UNCHANGED <<tmp, sized, disk, memory, poisoned, bogus, leftover, reserved>>
      /\ UNCHANGED <<received, staged, reported, forgotten, crashes, failures>>
      /\ UNCHANGED <<shortage, dropped, hasRotated, limited>>
  BY DEF Shutdown, recVars, limitVars
<1>5. Lines' = Lines /\ StagedCids' = StagedCids /\ Files' = Files
  BY <1>4 DEF Lines, LinesIn, StagedCids, Files
<1>7. NoCurrent' /\ ~Recovering' /\ pc' \in Completing /\ ~Undecided' /\ ~Undecided
  BY <1>4 DEF NoCurrent, Recovering, Completing, Undecided
<1>8. closed' \in [cid : Cid, next : Cid] /\ closed'.cid = cur /\ closed'.next = nextCid
  BY <1>1, <1>2, <1>4
<1>10. TypeOK'
  <2>1. nextCid' \in 1..(MaxCids + 1) /\ closed' \in Log
    BY <1>2, <1>4, <1>8 DEF Log
  <2>2. cur' \in Cid \cup {NoCid} /\ written' \in Nat /\ abandoned' \subseteq Cid
    BY <1>2, <1>4 DEF LogInv, TypeOK
  <2> QED BY <1>4, <2>1, <2>2 DEF LogInv, TypeOK
<1>11. Control'
  <2>1. closed'.cid # cur' /\ closed'.cid # reserved' /\ closed'.cid \in Files'
    BY <1>1, <1>4, <1>5, <1>8
  <2> QED BY <1>4, <1>7, <1>8, <2>1 DEF Control
<1>12. Recovery'
  BY <1>1, <1>4, <1>7 DEF Recovery, ToSet
<1>13. Fresh'
  <2> SUFFICES ASSUME NEW c \in Cid, c >= nextCid'
               PROVE  /\ c \notin Files' \cup sized' \cup StagedCids' /\ c # reserved'
                      /\ c # closed'.cid /\ Lines'[c] = {}
    BY DEF Fresh
  <2>1. c >= nextCid /\ c # nextCid
    BY <1>2, <1>4
  <2>2. c # cur
    BY <1>1, <2>1 DEF LogInv, Fresh
  <2> QED BY <1>4, <1>5, <1>8, <2>1, <2>2 DEF LogInv, Fresh
<1>14. Contents'
  BY <1>4, <1>5, <1>8 DEF LogInv, Contents
<1>15. LinesOnce'
  BY <1>4, <1>5, <1>7, LinesOnceKept
<1>16. StagedOnce'
  <2>1. StagedCids' \cap (Files' \cup {reserved', closed'.cid}) = {}
    BY <1>1, <1>4, <1>5, <1>8 DEF LogInv, StagedOnce
  <2> QED BY <1>4, <2>1 DEF LogInv, StagedOnce
<1>17. FilesInOrder'
  <2>1. \A c \in Files' \ {closed'.cid} : Earlier(disk'[c], Lines'[closed'.cid])
    BY <1>1, <1>4, <1>5, <1>8 DEF LogInv, FilesInOrder
  <2> QED BY <1>4, <2>1 DEF LogInv, FilesInOrder
<1>18. \A l \in Links' : l \in Links \/ l = closed'
  BY <1>4 DEF Links
<1>19. LinksInOrder'
  <2>1. Earlier(Lines'[closed'.cid], Lines'[closed'.next])
    BY <1>3, <1>5, <1>8 DEF Earlier
  <2> QED BY <1>5, <1>18, <2>1 DEF LogInv, LinksInOrder
<1>20. LinksAreKnown'
  <2>1. \A l \in Links : l.next \in Files \cup StagedCids \cup abandoned
    BY <1>1, FilesAreCids DEF LogInv, LinksAreKnown, Known, Links
  <2> QED BY <1>4, <1>5, <1>8, <1>18, <2>1 DEF LinksAreKnown, Known
<1>21. Accounts'
  <2>1. Pending' = Pending
    BY <1>7 DEF Pending
  <2>2. ~shortage' => dropped' = 0
    BY <1>4 DEF LogInv, Accounts
  <2>3. (Lossless' => Lossless) /\ pc # "moved"
    BY <1>4 DEF Lossless
  <2> QED BY <1>4, <1>5, <1>10, <2>1, <2>2, <2>3, AccountsKept
<1> QED BY <1>10, <1>11, <1>12, <1>13, <1>14, <1>15, <1>16, <1>17, <1>19, <1>20, <1>21 DEF LogInv

\* close_internal, with a current log that is empty.
LEMMA ShutdownWithoutDataKeeps ==
  ASSUME LogInv, Shutdown, ~(written > 0)
  PROVE  LogInv'
<1>1. /\ cur \in Files /\ cur \in Cid /\ cur # NoCid
      /\ closed = NoLog /\ closed.cid \notin Cid /\ closed \notin [cid : Cid, next : Cid]
      /\ reserved = NoCid /\ bogus = <<>> /\ leftover = <<>> /\ ToSet(leftover) = {}
  BY BusyFacts DEF Busy, Shutdown
<1>2. written = 0 /\ Lines[cur] = {}
  BY <1>1 DEF LogInv, TypeOK, Contents
<1>4. /\ pc = "free" /\ ~poisoned /\ tmp' = Touch(tmp, cur) /\ sized' = sized \cup {cur}
      /\ cur' = NoCid /\ written' = 0 /\ old' = FALSE /\ pc' = "down"
      /\ UNCHANGED <<closed, nextCid, abandoned, then>>
      /\ UNCHANGED <<disk, memory, poisoned, bogus, leftover, reserved>>
      /\ UNCHANGED <<received, staged, reported, forgotten, crashes, failures>>
      /\ UNCHANGED <<shortage, dropped, hasRotated, limited>>
  BY DEF Shutdown, recVars, limitVars
<1>5. Lines' = Lines /\ StagedCids' = StagedCids
  BY <1>4 DEF Lines, LinesIn, StagedCids
<1>6. /\ Sound(tmp') /\ Files' = Files
      /\ \A a, b : Before(tmp', a, b) => a \in Files /\ (Before(tmp, a, b) \/ b = cur)
  <2>1. /\ Sound(tmp') /\ Files' = Files \cup {cur}
        /\ \A a, b : Before(tmp', a, b) => a \in Files /\ a # cur /\ (Before(tmp, a, b) \/ b = cur)
    BY <1>1, <1>4, FilesAreCids, TouchFacts DEF Files
  <2> QED BY <1>1, <2>1
<1>7. NoCurrent' /\ ~Recovering' /\ pc' \notin Completing /\ ~Undecided' /\ ~Undecided
  BY <1>4 DEF NoCurrent, Recovering, Completing, Undecided
<1>8. disk[cur] = {} /\ memory[cur] = {}
  BY <1>1, <1>2 DEF Lines, LinesIn
<1>10. TypeOK'
  <2>1. cur' \in Cid \cup {NoCid} /\ written' \in Nat /\ sized' \subseteq Cid
    BY <1>1, <1>4 DEF LogInv, TypeOK
  <2> QED BY <1>4, <1>6, <2>1 DEF LogInv, TypeOK, Sound
<1>11. Control'
  <2>1. pc' \notin {"flushing", "moving", "moved"}
    BY <1>4
  <2> QED BY <1>1, <1>4, <1>7, <2>1 DEF Control
<1>12. Recovery'
  BY <1>1, <1>4, <1>7 DEF Recovery, ToSet
<1>13. Fresh'
  <2>1. ~(cur >= nextCid)
    BY <1>1 DEF LogInv, Fresh
  <2> QED BY <1>4, <1>5, <1>6, <2>1 DEF LogInv, Fresh
<1>14. Contents'
  BY <1>4, <1>6, <1>8 DEF LogInv, Contents, Sound
<1>15. LinesOnce'
  BY <1>4, <1>5, <1>7, LinesOnceKept
<1>16. StagedOnce'
  BY <1>4, <1>5, <1>6 DEF LogInv, StagedOnce
<1>17. FilesInOrder'
  <2>1. \A a, b \in Cid : Before(tmp', a, b) => Earlier(disk'[a], disk'[b])
    BY <1>4, <1>6, <1>8 DEF LogInv, FilesInOrder, Earlier
  <2> QED BY <1>4, <2>1 DEF FilesInOrder
<1>18. Links' = Links
  BY <1>4 DEF Links
<1>19. LinksInOrder'
  BY <1>5, <1>18 DEF LogInv, LinksInOrder
<1>20. LinksAreKnown'
  BY <1>4, <1>5, <1>6, <1>18 DEF LogInv, LinksAreKnown, Known
<1>21. Accounts'
  <2>1. Pending' = Pending
    BY <1>7 DEF Pending
  <2>2. ~shortage' => dropped' = 0
    BY <1>4 DEF LogInv, Accounts
  <2>3. (Lossless' => Lossless) /\ pc # "moved"
    BY <1>4 DEF Lossless
  <2> QED BY <1>4, <1>5, <1>6, <1>10, <2>1, <2>2, <2>3, AccountsKept
<1> QED BY <1>10, <1>11, <1>12, <1>13, <1>14, <1>15, <1>16, <1>17, <1>19, <1>20, <1>21 DEF LogInv

-----------------------------------------------------------------------------
(* Completion of a log.                                                    *)

\* While a log is being completed it has a CID and a successor, and a file until it is
\* moved.
LEMMA CompletingFacts ==
  ASSUME LogInv, pc \in Completing
  PROVE  /\ closed \in [cid : Cid, next : Cid] /\ closed.cid \in Cid /\ closed.next \in Cid
         /\ closed.cid # cur /\ closed.cid # reserved /\ closed.cid # NoCid
         /\ pc # "moved" => closed.cid \in Files
         /\ pc = "moved" => closed.cid \notin Files
<1>1. closed \in [cid : Cid, next : Cid] /\ closed.cid # cur /\ closed.cid # reserved
  BY DEF LogInv, Control
<1>2. closed.cid \in Cid /\ closed.next \in Cid
  BY <1>1
<1>3. (pc # "moved" => closed.cid \in Files) /\ (pc = "moved" => closed.cid \notin Files)
  BY DEF LogInv, Control, Completing
<1> QED BY <1>1, <1>2, <1>3, FilesAreCids

\* dispatch_on_log_completion, the flush: what it does to the files.
LEMMA FlushFacts ==
  ASSUME LogInv, FlushClosed
  PROVE  /\ Sound(tmp') /\ Files' = Files
         /\ \A a, b : Before(tmp', a, b) =>
              \/ disk' = disk /\ Before(tmp, a, b)
              \/ a \in Files /\ b = cur
              \/ a \in Files \ {closed.cid} /\ (Before(tmp, a, b) \/ b = closed.cid)
         /\ sized \subseteq sized' /\ sized' \subseteq sized \cup {closed.cid}
         /\ disk' \in [Cid -> SUBSET Line] /\ memory' \in [Cid -> SUBSET Line]
         /\ \A c \in Cid \ {closed.cid} : disk'[c] = disk[c] /\ memory'[c] = memory[c]
         /\ memory'[closed.cid] = {}
         /\ disk'[closed.cid] # disk[closed.cid] => closed.cid \in sized'
         /\ disk'[closed.cid] \subseteq Lines[closed.cid]
         /\ \A c \in Cid : Lines'[c] \subseteq Lines[c]
         /\ \A c \in Cid \ {closed.cid} : Lines'[c] = Lines[c]
         /\ failures' = failures => Lines' = Lines
         /\ failures' \in 0..MaxFailures /\ failures' >= failures
<1> DEFINE k == closed.cid
<1>1. k \in Cid /\ k \in Files /\ closed.next \in Cid
  BY CompletingFacts DEF FlushClosed, Completing
<1>2. /\ disk \in [Cid -> SUBSET Line] /\ memory \in [Cid -> SUBSET Line]
      /\ failures \in 0..MaxFailures /\ MaxFailures \in Nat /\ cur \in Cid \cup {NoCid}
  BY LogAssumption DEF LogInv, TypeOK
<1>3. memory' = [memory EXCEPT ![k] = {}]
  BY DEF FlushClosed
<1>4. Sound(tmp) /\ Files \subseteq Cid /\ NoCid \notin Cid
  BY FilesAreCids
<1>5. CASE Fails /\ UNCHANGED <<disk, sized, tmp>>
  <2>1. Files' = Files /\ Sound(tmp')
    BY <1>4, <1>5 DEF Files
  <2>2. failures' = failures + 1 /\ failures' \in 0..MaxFailures
    BY <1>2, <1>5 DEF Fails
  <2>3. \A c \in Cid : Lines'[c] \subseteq Lines[c] /\ disk'[c] \subseteq Lines[c]
    BY <1>1, <1>2, <1>3, <1>5 DEF Lines, LinesIn
  <2>4. /\ \A c \in Cid \ {k} : disk'[c] = disk[c] /\ memory'[c] = memory[c]
        /\ memory'[k] = {} /\ memory' \in [Cid -> SUBSET Line]
    BY <1>1, <1>2, <1>3, <1>5
  <2>5. \A c \in Cid \ {k} : Lines'[c] = Lines[c]
    BY <2>4 DEF Lines, LinesIn
  <2>6. failures' # failures /\ failures' >= failures
    BY <1>2, <2>2
  <2> HIDE DEF k
  <2> QED BY <1>1, <1>2, <1>5, <2>1, <2>2, <2>3, <2>4, <2>5, <2>6 DEF k
<1>6. CASE /\ disk' = [disk EXCEPT ![k] = @ \cup memory[k]]
           /\ sized' = sized \cup {k}
           /\ tmp' \in {Touch(tmp, k)} \cup (IF cur = closed.next
                                             THEN {Touch(Touch(tmp, k), cur)} ELSE {})
           /\ UNCHANGED failures
  <2>1. /\ Sound(Touch(tmp, k)) /\ ToSet(Touch(tmp, k)) = Files
        /\ \A a, b : Before(Touch(tmp, k), a, b) =>
             a \in Files \ {k} /\ (Before(tmp, a, b) \/ b = k)
    <3>1. /\ Sound(Touch(tmp, k)) /\ ToSet(Touch(tmp, k)) = Files \cup {k}
          /\ \A a, b : Before(Touch(tmp, k), a, b) =>
               a \in Files /\ a # k /\ (Before(tmp, a, b) \/ b = k)
      BY <1>1, <1>4, TouchFacts DEF Files
    <3> QED BY <1>1, <3>1
  <2>2. /\ Sound(tmp') /\ Files' = Files
        /\ \A a, b : Before(tmp', a, b) =>
             \/ a \in Files /\ b = cur
             \/ a \in Files \ {k} /\ (Before(tmp, a, b) \/ b = k)
    <3>1. CASE tmp' = Touch(tmp, k)
      BY <2>1, <3>1 DEF Files
    <3>2. CASE cur = closed.next /\ tmp' = Touch(Touch(tmp, k), cur)
      <4>1. cur \in Cid /\ cur \in Files
        BY <1>1, <1>4, <3>2 DEF LogInv, Control
      <4>2. /\ Sound(tmp') /\ Files' = Files \cup {cur}
            /\ \A a, b : Before(tmp', a, b) =>
                 a \in Files /\ a # cur /\ (Before(Touch(tmp, k), a, b) \/ b = cur)
        BY <2>1, <3>2, <4>1, TouchFacts DEF Files
      <4> QED BY <2>1, <4>1, <4>2
    <3> QED BY <1>6, <3>1, <3>2
  <2>3. \A c \in Cid : Lines'[c] = Lines[c] /\ disk'[c] \subseteq Lines[c]
    BY <1>1, <1>2, <1>3, <1>6 DEF Lines, LinesIn
  <2>4. /\ \A c \in Cid \ {k} : disk'[c] = disk[c] /\ memory'[c] = memory[c]
        /\ memory'[k] = {} /\ memory' \in [Cid -> SUBSET Line] /\ disk' \in [Cid -> SUBSET Line]
    BY <1>1, <1>2, <1>3, <1>6
  <2>5. Lines' = Lines
    BY <2>3 DEF Lines
  <2>6. failures' >= failures /\ failures' \in 0..MaxFailures
    BY <1>2, <1>6
  <2> HIDE DEF k
  <2> QED BY <1>1, <1>6, <2>2, <2>3, <2>4, <2>5, <2>6 DEF k
<1> QED BY <1>5, <1>6 DEF FlushClosed

\* The flush keeps the invariant: the lines of the closed log are the latest on disk, those of the
\* file just opened come later, and a flush that fails only loses lines.
LEMMA FlushClosedKeeps ==
  ASSUME LogInv, FlushClosed
  PROVE  LogInv'
<1> DEFINE k == closed.cid
<1>1. /\ closed \in [cid : Cid, next : Cid] /\ k \in Cid /\ k # cur /\ k # reserved
      /\ k \in Files
  BY CompletingFacts DEF FlushClosed, Completing
<1>2. /\ pc = "flushing" /\ pc' = "moving"
      /\ UNCHANGED <<nextCid, cur, written, old, closed, shortage, dropped, hasRotated, limited>>
      /\ UNCHANGED <<then, poisoned, bogus, leftover, reserved, received, staged, reported>>
      /\ UNCHANGED <<forgotten, abandoned, crashes>>
  BY DEF FlushClosed, logVars, limitVars, recVars
<1>3. /\ Sound(tmp') /\ Files' = Files
      /\ \A a, b : Before(tmp', a, b) =>
           \/ disk' = disk /\ Before(tmp, a, b)
           \/ a \in Files /\ b = cur
           \/ a \in Files \ {k} /\ (Before(tmp, a, b) \/ b = k)
      /\ sized \subseteq sized' /\ sized' \subseteq sized \cup {k}
      /\ disk' \in [Cid -> SUBSET Line] /\ memory' \in [Cid -> SUBSET Line]
      /\ \A c \in Cid \ {k} : disk'[c] = disk[c] /\ memory'[c] = memory[c]
      /\ memory'[k] = {}
      /\ disk'[k] # disk[k] => k \in sized'
      /\ disk'[k] \subseteq Lines[k]
      /\ \A c \in Cid : Lines'[c] \subseteq Lines[c]
      /\ \A c \in Cid \ {k} : Lines'[c] = Lines[c]
      /\ failures' = failures => Lines' = Lines
      /\ failures' \in 0..MaxFailures /\ failures' >= failures
  BY FlushFacts
<1>4. StagedCids' = StagedCids /\ Links' = Links /\ Known' = Known
  BY <1>2, <1>3 DEF StagedCids, Links, Known
<1>5. /\ (Undecided' <=> Undecided) /\ (NoCurrent' <=> NoCurrent) /\ ~Recovering /\ ~Recovering'
      /\ pc \in Completing /\ pc' \in Completing
  BY <1>2 DEF Undecided, NoCurrent, Recovering, Completing, LogInv, Control
<1>6. TypeOK'
  <2>1. sized' \subseteq Cid /\ tmp' \in Seq(Cid)
    BY <1>1, <1>3 DEF LogInv, TypeOK, Sound
  <2> QED BY <1>2, <1>3, <2>1 DEF LogInv, TypeOK
<1>7. Control'
  BY <1>2, <1>3, <1>5 DEF LogInv, Control
<1>8. Recovery'
  BY <1>2, <1>3, <1>5 DEF LogInv, Recovery, ToSet
<1>9. Fresh'
  BY <1>1, <1>2, <1>3, <1>4 DEF LogInv, Fresh
<1>10. Contents'
  <2>1. cur # NoCid => cur \in Cid /\ Lines[cur] = {}
    BY <1>2 DEF LogInv, TypeOK, Contents
  <2> QED BY <1>1, <1>2, <1>3, <2>1 DEF LogInv, Contents, Sound
<1>11. LinesOnce'
  BY <1>2, <1>3, <1>5 DEF LogInv, LinesOnce
<1>12. StagedOnce'
  <2>1. \A r \in staged : r.cid \in Cid \ {k}
    BY <1>1 DEF LogInv, StagedOnce, StagedCids, TypeOK
  <2> QED BY <1>2, <1>3, <1>4, <2>1 DEF LogInv, StagedOnce
<1>13. FilesInOrder'
  <2>1. cur # NoCid => cur \in Cid /\ Lines[cur] = {} /\ disk'[cur] = {}
    <3>1. cur # NoCid => cur \in Cid /\ Lines[cur] = {}
      BY <1>2 DEF LogInv, TypeOK, Contents
    <3>2. cur # NoCid => disk[cur] = {}
      BY <3>1 DEF Lines, LinesIn
    <3> QED BY <1>1, <1>3, <3>1, <3>2
  <2>2. ASSUME NEW a \in Cid, NEW b \in Cid, Before(tmp', a, b)
        PROVE  Earlier(disk'[a], disk'[b])
    <3>1. CASE disk' = disk /\ Before(tmp, a, b)
      BY <3>1 DEF LogInv, FilesInOrder
    <3>2. CASE a \in Files /\ b = cur
      BY <2>1, <3>2, FilesAreCids DEF Earlier
    <3>3. CASE a \in Files \ {k} /\ b = k
      <4>1. Earlier(disk[a], Lines[k])
        BY <1>2, <3>3 DEF LogInv, FilesInOrder
      <4> QED BY <1>3, <3>3, <4>1 DEF Earlier
    <3>4. CASE a \in Files \ {k} /\ Before(tmp, a, b) /\ b # k
      BY <1>3, <3>4 DEF LogInv, FilesInOrder
    <3> QED BY <1>3, <2>2, <3>1, <3>2, <3>3, <3>4
  <2>3. cur' # NoCid => Lines'[cur'] = {}
    BY <1>1, <1>2, <1>3, <2>1
  <2> QED BY <1>2, <2>2, <2>3 DEF FilesInOrder, Earlier
<1>14. LinksInOrder'
  <2>1. \A l \in Links : l.cid \in Cid /\ l.next \in Cid
    BY DEF Links
  <2> QED BY <1>3, <1>4, <2>1 DEF LogInv, LinksInOrder, Earlier
<1>15. LinksAreKnown'
  BY <1>4 DEF LogInv, LinksAreKnown
<1>16. Accounts'
  <2>1. Pending' = Pending
    BY <1>5 DEF Pending
  <2>2. ~shortage' => dropped' = 0
    BY <1>2 DEF LogInv, Accounts
  <2>3. CASE failures' = failures
    <3>1. (Lossless' => Lossless) /\ Lines' = Lines
      BY <1>2, <1>3, <2>3 DEF Lossless
    <3> QED BY <1>2, <1>3, <1>4, <1>6, <2>1, <2>2, <3>1, AccountsKept
  <2>4. CASE failures' # failures
    <3>1. failures' # 0
      BY <1>3, <2>4, LogAssumption DEF LogInv, TypeOK
    <3> QED BY <2>2, <3>1 DEF Accounts, Lossless
  <2> QED BY <2>3, <2>4
<1> QED BY <1>6, <1>7, <1>8, <1>9, <1>10, <1>11, <1>12, <1>13, <1>14, <1>15, <1>16 DEF LogInv

\* on_log_completion moves the file.
LEMMA MoveKeeps ==
  ASSUME LogInv, Move
  PROVE  LogInv'
<1> DEFINE k == closed.cid
<1>1. /\ closed \in [cid : Cid, next : Cid] /\ k \in Cid /\ k # cur /\ k # reserved
      /\ k \in Files
  BY CompletingFacts DEF Move, Completing
<1>2. /\ pc = "moving" /\ pc' = "moved"
      /\ UNCHANGED <<sized, disk, memory, nextCid, cur, written, old, closed>>
      /\ UNCHANGED <<shortage, dropped, hasRotated, limited>>
      /\ UNCHANGED <<then, poisoned, bogus, leftover, reserved, received, staged, reported>>
      /\ UNCHANGED <<forgotten, abandoned, crashes, failures>>
  BY DEF Move, logVars, limitVars, recVars, worldVars
<1>3. /\ Sound(tmp') /\ Files' = Files \ {k}
      /\ \A a, b : Before(tmp', a, b) => Before(tmp, a, b)
  BY FilesAreCids, WithoutFacts DEF Move, Files
<1>4. StagedCids' = StagedCids /\ Links' = Links /\ Known' = Known /\ Lines' = Lines
  <2>1. StagedCids' = StagedCids /\ Links' = Links /\ Lines' = Lines
    BY <1>2 DEF StagedCids, Links, Lines, LinesIn
  <2> QED BY <1>1, <1>2, <1>3, <2>1 DEF Known
<1>5. /\ (Undecided' <=> Undecided) /\ (NoCurrent' <=> NoCurrent)
      /\ (Recovering' <=> Recovering) /\ pc \in Completing /\ pc' \in Completing
  BY <1>2 DEF Undecided, NoCurrent, Recovering, Completing
<1>6. TypeOK'
  BY <1>2, <1>3 DEF LogInv, TypeOK, Sound
<1>7. Control'
  <2>1. cur' \in IF NoCurrent' THEN {NoCid} ELSE Files'
    BY <1>1, <1>2, <1>3, <1>5 DEF LogInv, Control
  <2> QED BY <1>1, <1>2, <1>3, <1>5, <2>1 DEF LogInv, Control
<1>8. Recovery'
  <2>1. ToSet(leftover) \subseteq [cid : Files' \cap sized, next : Cid]
    BY <1>3 DEF LogInv, Recovery
  <2> QED BY <1>2, <1>5, <2>1 DEF LogInv, Recovery, ToSet
<1>9. Fresh'
  BY <1>1, <1>2, <1>3, <1>4 DEF LogInv, Fresh
<1>10. Contents'
  BY <1>2, <1>3, <1>4 DEF LogInv, Contents, Sound
<1>11. LinesOnce'
  BY <1>2, <1>4, <1>5, LinesOnceKept
<1>12. StagedOnce'
  BY <1>2, <1>3, <1>4 DEF LogInv, StagedOnce
<1>13. FilesInOrder'
  BY <1>2, <1>3, <1>4 DEF LogInv, FilesInOrder
<1>14. LinksInOrder' /\ LinksAreKnown'
  BY <1>4 DEF LogInv, LinksInOrder, LinksAreKnown
<1>15. Accounts'
  <2>1. Pending' = Pending /\ (Lossless' => Lossless)
    BY <1>2, <1>5 DEF Pending, Lossless
  <2>2. ~shortage' => dropped' = 0
    BY <1>2 DEF LogInv, Accounts
  <2>3. \A c \in Cid : HasPlace(c) =>
          c \in Files' \cup StagedCids' \/ (pc' = "moved" /\ c = closed'.cid)
    BY <1>2, <1>3, <1>4 DEF HasPlace
  <2> QED BY <1>2, <1>4, <1>6, <2>1, <2>2, <2>3, AccountsMove
<1> QED BY <1>6, <1>7, <1>8, <1>9, <1>10, <1>11, <1>12, <1>13, <1>14, <1>15 DEF LogInv

\* The end of a completion, with or without an entry: the collector or the recovery go on.
Ended == pc \in Completing /\ pc' = then /\ closed' = NoLog /\ UNCHANGED then

\* Where such a step leads.
LEMMA EndedFacts ==
  ASSUME LogInv, Ended
  PROVE  /\ pc' \notin Completing /\ closed'.cid = NoCid /\ closed'.cid \notin Cid
         /\ closed' \notin [cid : Cid, next : Cid]
         /\ (NoCurrent' <=> NoCurrent) /\ (Recovering' <=> Recovering)
         /\ (Undecided' <=> Undecided)
         /\ \A c \in Cid : memory[c] # {} /\ pc # "flushing" => c = cur
<1>1. pc' \in {"down", "recovering", "free", "write"}
  BY DEF Ended, LogInv, TypeOK
<1>2. pc' \notin Completing
  BY <1>1 DEF Completing
<1>3. closed'.cid = NoCid /\ closed'.cid \notin Cid /\ closed' \notin [cid : Cid, next : Cid]
  BY FilesAreCids DEF Ended, NoLog
<1>4. (Recovering' <=> Recovering)
  BY <1>2 DEF Ended, Recovering, Completing
<1>5. (NoCurrent' <=> NoCurrent) /\ (Undecided' <=> Undecided)
  BY <1>1, <1>2, <1>4 DEF Ended, NoCurrent, Recovering, Undecided, Completing
<1> QED BY <1>2, <1>3, <1>4, <1>5 DEF LogInv, Contents

\* on_log_completion commits the entry.
LEMMA CommitKeeps ==
  ASSUME LogInv, Commit
  PROVE  LogInv'
<1> DEFINE k == closed.cid
           e == [cid |-> k, next |-> closed.next, lines |-> disk[k]]
<1>1. /\ closed \in [cid : Cid, next : Cid] /\ k \in Cid /\ closed.next \in Cid
      /\ k # cur /\ k # reserved /\ k # NoCid /\ k \notin Files
  BY CompletingFacts DEF Commit, Completing
<1>2. /\ pc = "moved" /\ pc' = then /\ staged' = staged \cup {e} /\ closed' = NoLog
      /\ UNCHANGED <<tmp, sized, disk, memory, nextCid, cur, written, old>>
      /\ UNCHANGED <<shortage, dropped, hasRotated, limited>>
      /\ UNCHANGED <<then, poisoned, bogus, leftover, reserved, received, reported>>
      /\ UNCHANGED <<forgotten, abandoned, crashes, failures>>
  BY DEF Commit, fileVars, limitVars, recVars
<1>3. Ended
  BY <1>2 DEF Ended, Completing
<1>4. /\ pc' \notin Completing /\ closed'.cid = NoCid /\ closed'.cid \notin Cid
      /\ closed' \notin [cid : Cid, next : Cid]
      /\ (NoCurrent' <=> NoCurrent) /\ (Recovering' <=> Recovering)
      /\ (Undecided' <=> Undecided)
      /\ \A c \in Cid : memory[c] # {} => c = cur
  BY <1>2, <1>3, EndedFacts
<1>5. Files' = Files /\ Lines' = Lines /\ StagedCids' = StagedCids \cup {k}
  <2>1. Files' = Files /\ Lines' = Lines
    BY <1>2 DEF Files, Lines, LinesIn
  <2>2. e.cid = k
    OBVIOUS
  <2> HIDE DEF e
  <2>3. StagedCids' = StagedCids \cup {e.cid}
    BY <1>2 DEF StagedCids
  <2> QED BY <2>1, <2>2, <2>3
<1>6. \A l \in Links' : l \in Links
  BY <1>1, <1>2, <1>4 DEF Links
<1>7. TypeOK'
  <2>1. staged' \subseteq [cid : Cid, next : Cid, lines : SUBSET Line]
    BY <1>1, <1>2 DEF LogInv, TypeOK
  <2>2. pc' \in {"down", "recovering", "free", "write"}
    BY <1>2 DEF LogInv, TypeOK
  <2>3. closed' \in Log
    BY <1>2 DEF Log, NoLog
  <2> QED BY <1>2, <2>1, <2>2, <2>3 DEF LogInv, TypeOK
<1>8. Control'
  <2>1. pc' \notin {"flushing", "moving", "moved"}
    BY <1>4 DEF Completing
  <2>2. poisoned => crashes > 0
    BY <1>2 DEF LogInv, Control
  <2> QED BY <1>2, <1>4, <1>5, <2>1, <2>2 DEF LogInv, Control
<1>9. Recovery'
  <2>1. \A r \in ToSet(leftover) : r.cid \in Cid
    BY FilesAreCids DEF LogInv, Recovery
  <2> QED BY <1>2, <1>4, <1>5, <2>1 DEF LogInv, Recovery, ToSet
<1>10. Fresh'
  BY <1>1, <1>2, <1>4, <1>5 DEF LogInv, Fresh
<1>11. Contents'
  BY <1>2, <1>4, <1>5 DEF LogInv, Contents, Completing
<1>12. LinesOnce'
  BY <1>2, <1>4, <1>5, LinesOnceKept
<1>13. StagedOnce'
  <2>1. k \notin StagedCids
    BY DEF LogInv, StagedOnce
  <2>2. \A r \in staged' : r.lines = disk'[r.cid]
    BY <1>2 DEF LogInv, StagedOnce
  <2>3. \A r, q \in staged' : r.cid = q.cid => r = q
    BY <1>2, <2>1 DEF LogInv, StagedOnce, StagedCids
  <2>4. StagedCids' \cap (Files' \cup {reserved', closed'.cid}) = {}
    <3>1. NoCid \notin StagedCids
      BY FilesAreCids DEF StagedCids, LogInv, TypeOK
    <3> QED BY <1>1, <1>2, <1>4, <1>5, <3>1 DEF LogInv, StagedOnce
  <2> QED BY <2>2, <2>3, <2>4 DEF StagedOnce
<1>14. FilesInOrder'
  BY <1>2, <1>4, <1>5 DEF LogInv, FilesInOrder, Completing
<1>15. LinksInOrder'
  BY <1>5, <1>6 DEF LogInv, LinksInOrder
<1>16. LinksAreKnown'
  BY <1>2, <1>5, <1>6 DEF LogInv, LinksAreKnown, Known
<1>17. Accounts'
  <2>1. Pending' = Pending /\ (Lossless' => Lossless)
    BY <1>2, <1>4 DEF Pending, Lossless
  <2>2. ~shortage' => dropped' = 0
    BY <1>2 DEF LogInv, Accounts
  <2>3. \A c \in Cid : HasPlace(c) => c \in Files' \cup StagedCids'
    BY <1>5 DEF HasPlace
  <2> QED BY <1>2, <1>5, <1>7, <2>1, <2>2, <2>3, AccountsMove
<1> QED BY <1>7, <1>8, <1>9, <1>10, <1>11, <1>12, <1>13, <1>14, <1>15, <1>16, <1>17 DEF LogInv

\* on_log_completion fails, and the file may be removed.
LEMMA CompletionFailsKeeps ==
  ASSUME LogInv, CompletionFails
  PROVE  LogInv'
<1> DEFINE k == closed.cid
<1>1. /\ closed \in [cid : Cid, next : Cid] /\ k \in Cid /\ closed.next \in Cid
      /\ k # cur /\ k # reserved /\ k # NoCid
  BY CompletingFacts DEF CompletionFails, Completing
<1>2. /\ pc \in {"moving", "moved"} /\ pc' = then /\ closed' = NoLog /\ Fails
      /\ tmp' \in IF then = "recovering" THEN {tmp} ELSE {tmp, Without(tmp, k)}
      /\ abandoned' = IF k \in ToSet(tmp') THEN abandoned ELSE abandoned \cup {k}
      /\ UNCHANGED <<sized, disk, memory, nextCid, cur, written, old>>
      /\ UNCHANGED <<shortage, dropped, hasRotated, limited>>
      /\ UNCHANGED <<then, poisoned, bogus, leftover, reserved, received, staged, reported>>
      /\ UNCHANGED <<forgotten, crashes>>
  BY DEF CompletionFails, limitVars, recVars
<1>3. Ended
  BY <1>2 DEF Ended, Completing
<1>4. /\ pc' \notin Completing /\ closed'.cid = NoCid /\ closed'.cid \notin Cid
      /\ closed' \notin [cid : Cid, next : Cid]
      /\ (NoCurrent' <=> NoCurrent) /\ (Recovering' <=> Recovering)
      /\ (Undecided' <=> Undecided)
      /\ \A c \in Cid : memory[c] # {} => c = cur
  BY <1>2, <1>3, EndedFacts
<1>5. /\ Sound(tmp') /\ Files \ {k} \subseteq Files' /\ Files' \subseteq Files
      /\ \A a, b : Before(tmp', a, b) => Before(tmp, a, b)
      /\ k \in Files' \/ k \in abandoned'
      /\ abandoned \subseteq abandoned' /\ abandoned' \subseteq abandoned \cup {k}
  <2>1. CASE tmp' = tmp
    BY <1>2, <2>1, FilesAreCids DEF Files
  <2>2. CASE tmp' = Without(tmp, k)
    BY <1>2, <2>2, FilesAreCids, WithoutFacts DEF Files
  <2> QED BY <1>2, <2>1, <2>2
<1>6. Lines' = Lines /\ StagedCids' = StagedCids /\ \A l \in Links' : l \in Links
  <2>1. Lines' = Lines /\ StagedCids' = StagedCids
    BY <1>2 DEF Lines, LinesIn, StagedCids
  <2>2. \A l \in Links' : l \in Links
    BY <1>2, <1>4 DEF Links
  <2> QED BY <2>1, <2>2
<1>7. Accounts' /\ failures' \in 0..MaxFailures
  BY <1>2, FailuresAreNoted
<1>8. TypeOK'
  <2>1. abandoned' \subseteq Cid
    BY <1>1, <1>5 DEF LogInv, TypeOK
  <2>2. pc' \in {"down", "recovering", "free", "write"}
    BY <1>2 DEF LogInv, TypeOK
  <2>3. closed' \in Log
    BY <1>2 DEF Log, NoLog
  <2> QED BY <1>2, <1>5, <1>7, <2>1, <2>2, <2>3 DEF LogInv, TypeOK, Sound
<1>9. Control'
  <2>1. pc' \notin {"flushing", "moving", "moved"}
    BY <1>4 DEF Completing
  <2>2. poisoned => crashes > 0
    BY <1>2 DEF LogInv, Control
  <2>3. cur' \in IF NoCurrent' THEN {NoCid} ELSE Files'
    BY <1>1, <1>2, <1>4, <1>5 DEF LogInv, Control
  <2> QED BY <1>2, <1>4, <2>1, <2>2, <2>3 DEF Control
<1>10. Recovery'
  <2>1. \A r \in ToSet(leftover) : r.cid \in Cid
    BY FilesAreCids DEF LogInv, Recovery
  <2>2. ToSet(leftover) \subseteq [cid : Files' \cap sized, next : Cid]
    BY <1>5 DEF LogInv, Recovery
  <2> QED BY <1>2, <1>4, <1>5, <2>1, <2>2 DEF LogInv, Recovery, ToSet
<1>11. Fresh'
  BY <1>2, <1>4, <1>5, <1>6 DEF LogInv, Fresh
<1>12. Contents'
  BY <1>2, <1>4, <1>5, <1>6 DEF LogInv, Contents, Completing, Sound
<1>13. LinesOnce'
  BY <1>2, <1>4, <1>6, LinesOnceKept
<1>14. StagedOnce'
  <2>1. NoCid \notin StagedCids
    BY FilesAreCids DEF StagedCids, LogInv, TypeOK
  <2>2. StagedCids' \cap (Files' \cup {reserved', closed'.cid}) = {}
    BY <1>2, <1>4, <1>5, <1>6, <2>1 DEF LogInv, StagedOnce
  <2> QED BY <1>2, <2>2 DEF LogInv, StagedOnce
<1>15. FilesInOrder'
  BY <1>2, <1>4, <1>5, <1>6 DEF LogInv, FilesInOrder, Completing
<1>16. LinksInOrder'
  BY <1>6 DEF LogInv, LinksInOrder
<1>17. LinksAreKnown'
  BY <1>2, <1>5, <1>6 DEF LogInv, LinksAreKnown, Known
<1> QED BY <1>7, <1>8, <1>9, <1>10, <1>11, <1>12, <1>13, <1>14, <1>15, <1>16, <1>17 DEF LogInv

-----------------------------------------------------------------------------
(* The end of the process.                                                 *)

\* A crash at any step, or the panic of the main thread.
LEMMA DieKeeps ==
  ASSUME LogInv, Die
  PROVE  LogInv'
<1>1. /\ memory' = [c \in Cid |-> {}]
      /\ cur' = NoCid /\ written' = 0 /\ old' = FALSE /\ closed' = NoLog
      /\ bogus' = <<>> /\ leftover' = <<>> /\ reserved' = NoCid
      /\ abandoned' = abandoned \cup (IF pc = "moved" THEN {closed.cid} ELSE {})
                        \cup ({reserved} \ (Files \cup {NoCid}))
      /\ pc' = "down" /\ crashes' = crashes + 1
      /\ UNCHANGED <<tmp, sized, disk, nextCid, shortage, dropped, hasRotated, limited>>
      /\ UNCHANGED <<then, poisoned, received, staged, reported, forgotten, failures>>
  BY DEF Die, limitVars, Files
<1>2. Files' = Files /\ StagedCids' = StagedCids
  BY <1>1 DEF Files, StagedCids
<1>3. \A c \in Cid : Lines'[c] = disk[c] /\ disk[c] \subseteq Lines[c]
  BY <1>1 DEF Lines, LinesIn
<1>4. closed'.cid \notin Cid /\ closed' \notin [cid : Cid, next : Cid] /\ closed'.cid = NoCid
  BY <1>1, FilesAreCids DEF NoLog
<1>5. \A l \in Links' : l \in Links
  <2>1. ToSet(leftover') = {}
    BY <1>1 DEF ToSet
  <2> QED BY <1>1, <1>4, <2>1 DEF Links
<1>6. NoCurrent' /\ ~Recovering' /\ ~Undecided' /\ pc' \notin Completing
  BY <1>1 DEF NoCurrent, Recovering, Undecided, Completing
<1>7. crashes' > 0 /\ crashes' \in Nat
  BY <1>1 DEF LogInv, TypeOK
<1>8. TypeOK'
  <2>1. pc = "moved" => closed.cid \in Cid
    BY CompletingFacts DEF Completing
  <2>2. abandoned' \subseteq Cid
    BY <1>1, <2>1 DEF LogInv, TypeOK
  <2>3. closed' \in Log /\ memory' \in [Cid -> SUBSET Line] /\ bogus' \in Seq(Cid)
        /\ leftover' \in Seq(Log)
    BY <1>1 DEF Log, NoLog
  <2> QED BY <1>1, <1>7, <2>2, <2>3 DEF LogInv, TypeOK
<1>9. Control'
  <2>1. pc' \notin {"flushing", "moving", "moved"}
    BY <1>1
  <2> QED BY <1>1, <1>6, <1>7, <2>1 DEF Control
<1>10. Recovery'
  BY <1>1, <1>6 DEF Recovery, ToSet
<1>11. Fresh'
  BY <1>1, <1>2, <1>3, <1>4, FilesAreCids DEF LogInv, Fresh
<1>12. Contents'
  BY <1>1 DEF LogInv, Contents
<1>13. LinesOnce'
  BY <1>1, <1>3, <1>6 DEF LogInv, LinesOnce
<1>14. StagedOnce'
  <2>1. NoCid \notin StagedCids
    BY FilesAreCids DEF StagedCids, LogInv, TypeOK
  <2> QED BY <1>1, <1>2, <1>4, <2>1 DEF LogInv, StagedOnce
<1>15. FilesInOrder'
  BY <1>1 DEF LogInv, FilesInOrder
<1>16. LinksInOrder'
  <2>1. \A l \in Links : l.cid \in Cid /\ l.next \in Cid
    BY DEF Links
  <2> QED BY <1>3, <1>5, <2>1 DEF LogInv, LinksInOrder, Earlier
<1>17. LinksAreKnown'
  <2>1. \A l \in Links : l.next \in Cid /\ l.next \in Known
    BY DEF Links, LogInv, LinksAreKnown
  <2>2. closed.cid \in Cid => closed.cid \in Files \/ closed.cid \in abandoned'
    <3>1. closed.cid \in Cid => pc \in Completing
      BY FilesAreCids DEF LogInv, Control, NoLog
    <3> QED BY <1>1, <3>1, CompletingFacts
  <2>3. \A n \in Known : n \in Cid => n \in Known'
    BY <1>1, <1>2, <2>2, FilesAreCids DEF Known
  <2> QED BY <1>5, <2>1, <2>3 DEF LinksAreKnown
<1>18. Accounts'
  <2>1. ~Lossless'
    BY <1>7 DEF Lossless
  <2> QED BY <1>1, <2>1 DEF LogInv, Accounts
<1> QED BY <1>8, <1>9, <1>10, <1>11, <1>12, <1>13, <1>14, <1>15, <1>16, <1>17, <1>18 DEF LogInv

-----------------------------------------------------------------------------
(* Recovery.                                                               *)

\* Without a current log, and with nothing being flushed, all lines are on disk.
LEMMA AllOnDisk ==
  ASSUME LogInv, pc \in {"down", "recovering"}
  PROVE  /\ cur = NoCid /\ closed = NoLog /\ closed.cid = NoCid /\ closed.cid \notin Cid
         /\ closed \notin [cid : Cid, next : Cid]
         /\ \A c \in Cid : memory[c] = {} /\ Lines[c] = disk[c]
         /\ \A c \in Cid \ sized : Lines[c] = {}
         /\ ~Undecided /\ NoCurrent
<1>1. NoCurrent /\ pc \notin Completing /\ ~Undecided
  BY DEF NoCurrent, Recovering, Completing, Undecided
<1>2. cur = NoCid /\ closed = NoLog /\ NoCid \notin Cid
  BY <1>1, FilesAreCids DEF LogInv, Control
<1>3. \A c \in Cid : memory[c] = {}
  BY <1>1, <1>2 DEF LogInv, Contents, Completing
<1>4. \A c \in Cid : Lines[c] = disk[c]
  BY <1>3 DEF Lines, LinesIn
<1>5. \A c \in Cid \ sized : Lines[c] = {}
  BY <1>4 DEF LogInv, Contents
<1> QED BY <1>1, <1>2, <1>3, <1>4, <1>5 DEF NoLog

\* get_recovery: what is kept, and the CID that is used next.
LEMMA StartFacts ==
  ASSUME LogInv, Start
  PROVE  /\ reserved' \in Cid \ sized /\ reserved' \notin StagedCids
         /\ bogus' \in Seq(Cid) /\ ToSet(bogus') = Files \ sized
         /\ leftover' \in Seq([cid : Files \cap sized, next : Cid])
         /\ \A i, j \in 1..Len(leftover') : i # j => leftover'[i].cid # leftover'[j].cid
         /\ \A r \in ToSet(leftover') : Before(tmp, r.cid, r.next) \/ r.next = reserved'
         /\ nextCid' \in 1..(MaxCids + 1) /\ nextCid' >= nextCid /\ ~(reserved' >= nextCid')
         /\ abandoned' = abandoned \cup (Files \ (sized \cup {reserved'}))
<1> DEFINE kept == InOrder(Files \cap sized, tmp)
           last == reserved'
<1>1. /\ bogus' = InOrder(Files \ sized, tmp)
      /\ leftover' = [i \in 1..Len(kept) |->
           [cid |-> kept[i], next |-> IF i = Len(kept) THEN last ELSE kept[i + 1]]]
      /\ last = IF tmp # <<>> /\ Last(tmp) \notin sized THEN Last(tmp) ELSE nextCid
      /\ nextCid' = IF last = nextCid THEN nextCid + 1 ELSE nextCid
      /\ abandoned' = abandoned \cup (Files \ (sized \cup {last}))
      /\ nextCid <= MaxCids
  BY DEF Start, Files
<1>2. Sound(tmp) /\ Files \subseteq Cid /\ Files = ToSet(tmp)
  BY FilesAreCids DEF Files
<1>3. nextCid \in 1..(MaxCids + 1) /\ nextCid \in Cid /\ MaxCids \in Nat /\ Cid = 1..MaxCids
  BY <1>1, LogAssumption DEF LogInv, TypeOK, Cid
<1>4. \A c \in Cid : c >= nextCid => c \notin Files \cup sized \cup StagedCids
  BY DEF LogInv, Fresh
<1>5. tmp # <<>> => Last(tmp) \in Files
  <2>1. tmp \in Seq(Cid)
    BY <1>2 DEF Sound
  <2>2. tmp # <<>> => Len(tmp) \in DOMAIN tmp
    BY <2>1
  <2> QED BY <1>2, <2>2 DEF Last, ToSet
<1>6. last \in Cid \ sized /\ last \notin StagedCids /\ (last # nextCid => last \in Files)
  <2>1. CASE tmp # <<>> /\ Last(tmp) \notin sized
    BY <1>1, <1>2, <1>5, <2>1 DEF LogInv, StagedOnce
  <2>2. CASE ~(tmp # <<>> /\ Last(tmp) \notin sized)
    BY <1>1, <1>3, <1>4, <2>2
  <2> QED BY <2>1, <2>2
<1>7. nextCid' \in 1..(MaxCids + 1) /\ nextCid' >= nextCid /\ ~(last >= nextCid')
  <2>1. CASE last = nextCid
    BY <1>1, <1>3, <2>1
  <2>2. CASE last # nextCid
    BY <1>1, <1>3, <1>4, <1>6, <2>2
  <2> QED BY <2>1, <2>2
<1>8. bogus' \in Seq(Cid) /\ ToSet(bogus') = Files \ sized
  <2>1. Files \ sized \subseteq Files /\ IsFiniteSet(Files \ sized)
    BY <1>2, CidsAreFinite
  <2> QED BY <1>1, <1>2, <2>1, InOrderFacts DEF Sound
<1>9. /\ kept \in Seq(Files \cap sized) /\ IsInjective(kept)
      /\ \A i, j \in 1..Len(kept) : i < j => Before(tmp, kept[i], kept[j])
  <2>1. Files \cap sized \subseteq Files /\ IsFiniteSet(Files \cap sized)
    BY <1>2, CidsAreFinite
  <2> QED BY <1>2, <2>1, InOrderFacts DEF Sound
<1> HIDE DEF kept, last
<1>10. PICK n \in Nat : n = Len(kept) /\ DOMAIN kept = 1..n
                       /\ \A i \in 1..n : kept[i] \in Files \cap sized
  BY <1>9
<1>11. \A i \in 1..n : i # n => i + 1 \in 1..n
  OBVIOUS
<1>12. \A i \in 1..n :
         /\ leftover'[i].cid = kept[i]
         /\ leftover'[i].next = IF i = n THEN last ELSE kept[i + 1]
         /\ leftover'[i] \in [cid : Files \cap sized, next : Cid]
  BY <1>1, <1>2, <1>6, <1>10, <1>11
<1>13. /\ leftover' \in Seq([cid : Files \cap sized, next : Cid])
       /\ Len(leftover') = n /\ DOMAIN leftover' = 1..n
  <2> DEFINE S == [cid : Files \cap sized, next : Cid]
  <2>1. leftover' = [i \in 1..n |-> leftover'[i]] /\ \A i \in 1..n : leftover'[i] \in S
    BY <1>1, <1>10, <1>12
  <2> HIDE DEF S
  <2>2. leftover' \in [1..n -> S]
    BY <2>1
  <2>3. leftover' \in Seq(S) /\ Len(leftover') = n /\ DOMAIN leftover' = 1..n
    BY <2>2
  <2> QED BY <2>3 DEF S
<1>14. \A i, j \in 1..Len(leftover') : i # j => leftover'[i].cid # leftover'[j].cid
  <2>1. \A i, j \in 1..n : i # j => kept[i] # kept[j]
    BY <1>9, <1>10 DEF IsInjective
  <2> QED BY <1>12, <1>13, <2>1
<1>15. ASSUME NEW r \in ToSet(leftover')
       PROVE  Before(tmp, r.cid, r.next) \/ r.next = last
  <2>1. PICK i \in 1..n : r = leftover'[i]
    BY <1>13 DEF ToSet
  <2>2. CASE i = n
    BY <1>12, <2>1, <2>2
  <2>3. CASE i # n
    <3>1. i + 1 \in 1..n /\ i < i + 1
      BY <1>11, <2>3
    <3>2. Before(tmp, kept[i], kept[i + 1])
      BY <1>9, <1>10, <3>1
    <3> QED BY <1>12, <2>1, <2>3, <3>2
  <2> QED BY <2>2, <2>3
<1> QED BY <1>1, <1>6, <1>7, <1>8, <1>13, <1>14, <1>15 DEF last

\* The start of a recovery keeps the invariant: the order of the mtimes is the order of the lines.
LEMMA StartKeeps ==
  ASSUME LogInv, Start
  PROVE  LogInv'
<1>1. /\ pc = "down" /\ pc' = "recovering" /\ poisoned' = FALSE
      /\ shortage' = FALSE /\ dropped' = 0 /\ hasRotated' = FALSE /\ limited' = 0
      /\ forgotten' = forgotten + dropped + limited
      /\ UNCHANGED <<tmp, sized, disk, memory, cur, written, old, closed, then, received, staged>>
      /\ UNCHANGED <<reported, crashes, failures>>
  BY DEF Start, fileVars
<1>2. /\ reserved' \in Cid \ sized /\ reserved' \notin StagedCids
      /\ bogus' \in Seq(Cid) /\ ToSet(bogus') = Files \ sized
      /\ leftover' \in Seq([cid : Files \cap sized, next : Cid])
      /\ \A i, j \in 1..Len(leftover') : i # j => leftover'[i].cid # leftover'[j].cid
      /\ \A r \in ToSet(leftover') : Before(tmp, r.cid, r.next) \/ r.next = reserved'
      /\ nextCid' \in 1..(MaxCids + 1) /\ nextCid' >= nextCid /\ ~(reserved' >= nextCid')
      /\ abandoned' = abandoned \cup (Files \ (sized \cup {reserved'}))
  BY StartFacts
<1>3. /\ cur = NoCid /\ closed = NoLog /\ closed.cid = NoCid /\ closed.cid \notin Cid
      /\ closed \notin [cid : Cid, next : Cid]
      /\ \A c \in Cid : memory[c] = {} /\ Lines[c] = disk[c]
      /\ \A c \in Cid \ sized : Lines[c] = {}
      /\ ~Undecided /\ NoCurrent
  BY <1>1, AllOnDisk
<1>4. reserved = NoCid /\ ToSet(leftover) = {}
  <2>1. ~Recovering
    BY <1>1 DEF Recovering, Completing
  <2> QED BY <2>1 DEF LogInv, Recovery, ToSet
<1>5. Files' = Files /\ Lines' = Lines /\ StagedCids' = StagedCids
  BY <1>1 DEF Files, Lines, LinesIn, StagedCids
<1>6. NoCurrent' /\ Recovering' /\ ~Undecided' /\ pc' \notin Completing
  BY <1>1 DEF NoCurrent, Recovering, Undecided, Completing
<1>7. ToSet(leftover') \subseteq [cid : Files \cap sized, next : Cid] /\ Files \subseteq Cid
  <2> DEFINE S == [cid : Files \cap sized, next : Cid]
  <2>1. leftover' \in Seq(S)
    BY <1>2
  <2> HIDE DEF S
  <2>2. ToSet(leftover') \subseteq S
    BY <2>1 DEF ToSet
  <2> QED BY <2>2, FilesAreCids DEF S
<1>8. TypeOK'
  <2>1. leftover' \in Seq(Log)
    <3>1. [cid : Files \cap sized, next : Cid] \subseteq Log
      BY <1>7 DEF Log
    <3> DEFINE S == [cid : Files \cap sized, next : Cid]
    <3>2. leftover' \in Seq(S) /\ S \subseteq Log
      BY <1>2, <3>1
    <3> HIDE DEF S
    <3> QED BY <3>2
  <2>2. abandoned' \subseteq Cid /\ reserved' \in Cid
    BY <1>2, <1>7 DEF LogInv, TypeOK
  <2>3. forgotten' \in Nat
    BY <1>1, CountsAreNumbers DEF LogInv
  <2> QED BY <1>1, <1>2, <2>1, <2>2, <2>3 DEF LogInv, TypeOK
<1>9. Control'
  <2>1. pc' \notin {"flushing", "moving", "moved"}
    BY <1>1
  <2> QED BY <1>1, <1>3, <1>6, <2>1 DEF Control
<1>10. Recovery'
  BY <1>1, <1>2, <1>3, <1>5, <1>6, <1>7 DEF Recovery
<1>11. Fresh'
  <2>1. nextCid \in Nat /\ nextCid' \in Nat /\ Cid \subseteq Nat
    BY <1>2, LogAssumption DEF LogInv, TypeOK, Cid
  <2>2. \A c \in Cid : c >= nextCid' => c >= nextCid /\ c # reserved'
    BY <1>2, <2>1
  <2> QED BY <1>1, <1>5, <2>2 DEF LogInv, Fresh
<1>12. Contents'
  BY <1>1, <1>3, <1>5 DEF LogInv, Contents
<1>13. LinesOnce'
  BY <1>1, <1>5, <1>6, LinesOnceKept
<1>14. StagedOnce'
  BY <1>1, <1>2, <1>5 DEF LogInv, StagedOnce
<1>15. FilesInOrder'
  BY <1>1, <1>3 DEF LogInv, FilesInOrder
<1>16. \A l \in Links' : l \in Links \/ l \in ToSet(leftover')
  BY <1>1, <1>3 DEF Links
<1>17. LinksInOrder'
  <2>1. ASSUME NEW l \in ToSet(leftover')
        PROVE  Earlier(Lines[l.cid], Lines[l.next])
    <3>1. l.cid \in Cid /\ l.next \in Cid
      BY <1>7
    <3>2. CASE Before(tmp, l.cid, l.next)
      BY <1>3, <3>1, <3>2 DEF LogInv, FilesInOrder
    <3>3. CASE l.next = reserved'
      BY <1>2, <1>3, <3>3 DEF Earlier
    <3> QED BY <1>2, <3>2, <3>3
  <2> QED BY <1>5, <1>16, <2>1 DEF LogInv, LinksInOrder
<1>18. LinksAreKnown'
  <2>1. \A l \in Links : l.next \in Files \cup StagedCids \cup abandoned
    BY <1>3, <1>4, FilesAreCids DEF LogInv, LinksAreKnown, Known, Links
  <2>2. \A l \in ToSet(leftover') : l.next \in Files \cup {reserved'}
    BY <1>2, FilesAreCids, BeforeIsStrict DEF Sound, Files
  <2> QED BY <1>2, <1>5, <1>16, <2>1, <2>2 DEF LinksAreKnown, Known
<1>19. Accounts'
  <2>1. Pending' = 0 /\ Pending = 0
    BY <1>3, <1>6 DEF Pending
  <2>2. Lossless' => Lossless
    BY <1>1 DEF Lossless, LogInv, Control, TypeOK
  <2>3. received' + reported + dropped + limited + forgotten + Pending
          = received + reported' + dropped' + limited' + forgotten' + Pending'
    BY <1>1, <2>1, CountsAreNumbers DEF LogInv
  <2> QED BY <1>1, <1>5, <1>8, <2>2, <2>3, AccountsKept
<1> QED BY <1>8, <1>9, <1>10, <1>11, <1>12, <1>13, <1>14, <1>15, <1>17, <1>18, <1>19 DEF LogInv

\* An empty file is deleted, or cannot be.
LEMMA RemoveBogusKeeps ==
  ASSUME LogInv, RemoveBogus
  PROVE  LogInv'
<1> DEFINE h == Head(bogus)
<1>1. /\ pc = "recovering" /\ bogus # <<>> /\ bogus' = Tail(bogus)
      /\ UNCHANGED <<sized, disk, memory, nextCid, cur, written, old, closed>>
      /\ UNCHANGED <<shortage, dropped, hasRotated, limited>>
      /\ UNCHANGED <<pc, then, poisoned, leftover, reserved, received, staged, reported>>
      /\ UNCHANGED <<forgotten, abandoned, crashes>>
  BY DEF RemoveBogus, logVars, limitVars, ctlVars
<1>2. bogus' \in Seq(Cid) /\ ToSet(bogus') \subseteq ToSet(bogus) /\ h \in ToSet(bogus)
  <2>1. bogus \in Seq(Cid)
    BY DEF LogInv, TypeOK
  <2> QED BY <1>1, <2>1 DEF ToSet
<1> HIDE DEF h
<1>3. h \notin sized /\ h \in abandoned \cup {reserved}
  BY <1>2 DEF LogInv, Recovery
<1>4. /\ Sound(tmp') /\ Files \ {h} \subseteq Files' /\ Files' \subseteq Files
      /\ \A a, b : Before(tmp', a, b) => Before(tmp, a, b)
  <2>1. CASE tmp' = tmp
    BY <2>1, FilesAreCids DEF Files
  <2>2. CASE tmp' = Without(tmp, h)
    BY <2>2, FilesAreCids, WithoutFacts DEF Files
  <2> QED BY <2>1, <2>2 DEF RemoveBogus, h
<1>5. /\ cur = NoCid /\ closed = NoLog
      /\ \A c \in Cid \ sized : Lines[c] = {}
      /\ ~Undecided /\ NoCurrent
  BY <1>1, AllOnDisk
<1>6. Lines' = Lines /\ StagedCids' = StagedCids /\ Links' = Links
  BY <1>1 DEF Lines, LinesIn, StagedCids, Links
<1>7. NoCurrent' /\ Recovering' /\ ~Undecided' /\ pc' \notin Completing
  BY <1>1 DEF NoCurrent, Recovering, Undecided, Completing
<1>8. failures' \in 0..MaxFailures /\ (failures' = failures \/ Fails)
  BY FailuresAreNoted, <1>1 DEF RemoveBogus, LogInv, TypeOK
<1>9. TypeOK'
  BY <1>1, <1>2, <1>4, <1>8 DEF LogInv, TypeOK, Sound
<1>10. Control'
  <2>1. pc' \notin {"flushing", "moving", "moved"}
    BY <1>1
  <2> QED BY <1>1, <1>5, <1>7, <2>1 DEF LogInv, Control
<1>11. Recovery'
  <2>1. ToSet(leftover) \subseteq [cid : Files' \cap sized, next : Cid]
    BY <1>3, <1>4 DEF LogInv, Recovery
  <2>2. Recovering
    BY <1>1 DEF Recovering
  <2>3. ToSet(bogus') \cap sized = {} /\ ToSet(bogus') \subseteq abandoned \cup {reserved}
    BY <1>2 DEF LogInv, Recovery
  <2>4. ToSet(leftover') = ToSet(leftover) /\ Len(leftover') = Len(leftover)
    BY <1>1
  <2> QED BY <1>1, <1>7, <2>1, <2>2, <2>3, <2>4 DEF LogInv, Recovery
<1>12. Fresh'
  BY <1>1, <1>4, <1>6 DEF LogInv, Fresh
<1>13. Contents'
  BY <1>1, <1>4, <1>6 DEF LogInv, Contents, Sound
<1>14. LinesOnce'
  BY <1>1, <1>6, <1>7, LinesOnceKept
<1>15. StagedOnce'
  BY <1>1, <1>4, <1>6 DEF LogInv, StagedOnce
<1>16. FilesInOrder'
  BY <1>1, <1>4, <1>5 DEF LogInv, FilesInOrder
<1>17. LinksInOrder'
  BY <1>6 DEF LogInv, LinksInOrder
<1>18. LinksAreKnown'
  BY <1>1, <1>3, <1>4, <1>6 DEF LogInv, LinksAreKnown, Known
<1>19. Accounts'
  <2>1. CASE failures' = failures
    <3>1. Pending' = Pending /\ (Lossless' => Lossless)
      BY <1>1, <1>5, <1>7, <2>1 DEF Pending, Lossless
    <3>2. ~shortage' => dropped' = 0
      BY <1>1 DEF LogInv, Accounts
    <3>3. \A c \in Cid : Lines[c] # {} /\ HasPlace(c) => c \in Files' \cup StagedCids'
      BY <1>1, <1>3, <1>4, <1>5, <1>6 DEF HasPlace
    <3> QED BY <1>1, <1>6, <1>9, <3>1, <3>2, <3>3, AccountsMove
  <2>2. CASE Fails
    BY <1>1, <2>2, FailuresAreNoted
  <2> QED BY <1>8, <2>1, <2>2
<1> QED BY <1>9, <1>10, <1>11, <1>12, <1>13, <1>14, <1>15, <1>16, <1>17, <1>18, <1>19 DEF LogInv

\* The next file is handed to on_log_completion.
LEMMA RecoverNextKeeps ==
  ASSUME LogInv, RecoverNext
  PROVE  LogInv'
<1> DEFINE h == Head(leftover)
<1>1. /\ pc = "recovering" /\ bogus = <<>> /\ leftover # <<>>
      /\ closed' = h /\ leftover' = Tail(leftover) /\ pc' = "moving" /\ then' = "recovering"
      /\ UNCHANGED <<tmp, sized, disk, memory, nextCid, cur, written, old>>
      /\ UNCHANGED <<shortage, dropped, hasRotated, limited>>
      /\ UNCHANGED <<poisoned, bogus, reserved, received, staged, reported>>
      /\ UNCHANGED <<forgotten, abandoned, crashes, failures>>
  BY DEF RecoverNext, fileVars, limitVars, worldVars
<1>2. leftover \in Seq(Log) /\ Len(leftover) \in Nat /\ Len(leftover) >= 1
  BY <1>1 DEF LogInv, TypeOK
<1>3. /\ h = leftover[1] /\ Len(leftover') = Len(leftover) - 1 /\ leftover' \in Seq(Log)
      /\ \A i \in 1..Len(leftover') : leftover'[i] = leftover[i + 1] /\ i + 1 \in 1..Len(leftover)
  BY <1>1, <1>2
<1> HIDE DEF h
<1>4. h \in ToSet(leftover) /\ ToSet(leftover') \subseteq ToSet(leftover)
  <2>1. 1 \in DOMAIN leftover /\ DOMAIN leftover = 1..Len(leftover)
    BY <1>2
  <2>2. DOMAIN leftover' = 1..Len(leftover')
    BY <1>3
  <2> QED BY <1>3, <2>1, <2>2 DEF ToSet
<1>5. /\ h \in [cid : Files \cap sized, next : Cid] /\ h.cid \in Files \cap sized /\ h.next \in Cid
  <2>1. h \in [cid : Files \cap sized, next : Cid]
    BY <1>4 DEF LogInv, Recovery
  <2> QED BY <2>1
<1>6. /\ \A i, j \in 1..Len(leftover') : i # j => leftover'[i].cid # leftover'[j].cid
      /\ \A r \in ToSet(leftover') : r.cid # h.cid
  <2>1. \A i, j \in 1..Len(leftover) : i # j => leftover[i].cid # leftover[j].cid
    BY DEF LogInv, Recovery
  <2>2. \A i, j \in 1..Len(leftover') : i # j => leftover'[i].cid # leftover'[j].cid
    BY <1>3, <2>1
  <2>3. \A i \in 1..Len(leftover') : leftover'[i].cid # h.cid
    BY <1>2, <1>3, <2>1
  <2> QED BY <1>3, <2>2, <2>3 DEF ToSet
<1>7. /\ cur = NoCid /\ closed = NoLog /\ closed.cid = NoCid /\ closed.cid \notin Cid
      /\ \A c \in Cid : memory[c] = {}
      /\ ~Undecided /\ NoCurrent
  BY <1>1, AllOnDisk
<1>8. Files' = Files /\ Lines' = Lines /\ StagedCids' = StagedCids
  BY <1>1 DEF Files, Lines, LinesIn, StagedCids
<1>9. NoCurrent' /\ Recovering' /\ Recovering /\ ~Undecided' /\ pc' \in Completing
  BY <1>1 DEF NoCurrent, Recovering, Undecided, Completing
<1>10. Files \subseteq Cid /\ NoCid \notin Cid
  BY FilesAreCids
<1>11. reserved \in Cid \ sized
  BY <1>9 DEF LogInv, Recovery
<1>12. TypeOK'
  <2>1. h \in Log
    BY <1>5, <1>10 DEF Log
  <2> QED BY <1>1, <1>3, <2>1 DEF LogInv, TypeOK
<1>13. Control'
  <2>1. closed' \in [cid : Cid, next : Cid]
    BY <1>1, <1>5, <1>10
  <2>2. closed'.cid # cur' /\ closed'.cid # reserved' /\ closed'.cid \in Files'
    BY <1>1, <1>5, <1>7, <1>8, <1>10, <1>11
  <2>3. poisoned => crashes > 0
    BY <1>1 DEF LogInv, Control
  <2> QED BY <1>1, <1>7, <1>9, <2>1, <2>2, <2>3 DEF Control
<1>14. Recovery'
  <2>1. ToSet(leftover') \subseteq [cid : Files' \cap sized', next : Cid]
    BY <1>1, <1>4, <1>8 DEF LogInv, Recovery
  <2>2. ToSet(bogus') = {}
    BY <1>1 DEF ToSet
  <2> QED BY <1>1, <1>6, <1>9, <1>11, <2>1, <2>2 DEF Recovery
<1>15. Fresh'
  BY <1>1, <1>5, <1>8 DEF LogInv, Fresh
<1>16. Contents'
  BY <1>1, <1>7, <1>8 DEF LogInv, Contents
<1>17. LinesOnce'
  BY <1>1, <1>8, <1>9, LinesOnceKept
<1>18. StagedOnce'
  BY <1>1, <1>5, <1>8 DEF LogInv, StagedOnce
<1>19. FilesInOrder'
  BY <1>1, <1>7 DEF LogInv, FilesInOrder
<1>20. \A l \in Links' : l \in Links
  BY <1>1, <1>4 DEF Links
<1>21. LinksInOrder'
  BY <1>8, <1>20 DEF LogInv, LinksInOrder
<1>22. LinksAreKnown'
  <2>1. \A l \in Links : l.next \in Cid /\ l.next \in Known
    BY DEF LogInv, LinksAreKnown, Links
  <2> QED BY <1>1, <1>7, <1>8, <1>20, <2>1 DEF LinksAreKnown, Known
<1>23. Accounts'
  <2>1. Pending' = Pending /\ (Lossless' => Lossless)
    BY <1>1, <1>7, <1>9 DEF Pending, Lossless
  <2>2. (~shortage' => dropped' = 0) /\ pc # "moved"
    BY <1>1 DEF LogInv, Accounts
  <2> QED BY <1>1, <1>8, <1>12, <2>1, <2>2, AccountsKept
<1> QED BY <1>12, <1>13, <1>14, <1>15, <1>16, <1>17, <1>18, <1>19, <1>21, <1>22, <1>23 DEF LogInv

\* The new current log gets the CID that recovery returned.
LEMMA OpenCurrentKeeps ==
  ASSUME LogInv, OpenCurrent
  PROVE  LogInv'
<1>1. /\ pc = "recovering" /\ bogus = <<>> /\ leftover = <<>>
      /\ cur' = reserved /\ reserved' = NoCid /\ tmp' = Touch(tmp, reserved)
      /\ written' = 0 /\ old' = FALSE /\ pc' = "free"
      /\ UNCHANGED <<sized, disk, memory, nextCid, closed>>
      /\ UNCHANGED <<shortage, dropped, hasRotated, limited>>
      /\ UNCHANGED <<then, poisoned, bogus, leftover, received, staged, reported>>
      /\ UNCHANGED <<forgotten, abandoned, crashes, failures>>
  BY DEF OpenCurrent, limitVars, worldVars
<1>2. /\ cur = NoCid /\ closed = NoLog /\ closed.cid = NoCid /\ closed.cid \notin Cid
      /\ \A c \in Cid : memory[c] = {} /\ Lines[c] = disk[c]
      /\ \A c \in Cid \ sized : Lines[c] = {}
      /\ ~Undecided /\ NoCurrent
  BY <1>1, AllOnDisk
<1>3. reserved \in Cid \ sized /\ reserved # NoCid
  <2>1. Recovering
    BY <1>1 DEF Recovering
  <2> QED BY <2>1, FilesAreCids DEF LogInv, Recovery
<1>4. disk[reserved] = {} /\ Lines[reserved] = {}
  BY <1>2, <1>3
<1>5. /\ Sound(tmp') /\ Files' = Files \cup {reserved}
      /\ \A a, b : Before(tmp', a, b) => a \in Files /\ (Before(tmp, a, b) \/ b = reserved)
  <2>1. /\ Sound(tmp') /\ Files' = Files \cup {reserved}
        /\ \A a, b : Before(tmp', a, b) =>
             a \in Files /\ a # reserved /\ (Before(tmp, a, b) \/ b = reserved)
    BY <1>1, <1>3, FilesAreCids, TouchFacts DEF Files
  <2> QED BY <2>1
<1>6. Lines' = Lines /\ StagedCids' = StagedCids /\ Links' = Links
  BY <1>1 DEF Lines, LinesIn, StagedCids, Links
<1>7. ~NoCurrent' /\ ~Recovering' /\ ~Undecided' /\ pc' \notin Completing
  BY <1>1 DEF NoCurrent, Recovering, Undecided, Completing
<1>8. TypeOK'
  BY <1>1, <1>3, <1>5 DEF LogInv, TypeOK, Sound
<1>9. Control'
  <2>1. pc' \notin {"flushing", "moving", "moved"}
    BY <1>1
  <2> QED BY <1>1, <1>2, <1>5, <1>7, <2>1 DEF Control
<1>10. Recovery'
  BY <1>1, <1>7 DEF Recovery, ToSet
<1>11. Fresh'
  BY <1>1, <1>2, <1>5, <1>6, <1>3, FilesAreCids DEF LogInv, Fresh
<1>12. Contents'
  BY <1>1, <1>2, <1>4, <1>5, <1>6 DEF LogInv, Contents, Sound
<1>13. LinesOnce'
  BY <1>1, <1>6, <1>7, LinesOnceKept
<1>14. StagedOnce'
  <2>1. NoCid \notin StagedCids
    BY FilesAreCids DEF StagedCids, LogInv, TypeOK
  <2>2. StagedCids' \cap (Files' \cup {reserved', closed'.cid}) = {}
    BY <1>1, <1>2, <1>5, <1>6, <2>1 DEF LogInv, StagedOnce
  <2> QED BY <1>1, <2>2 DEF LogInv, StagedOnce
<1>15. FilesInOrder'
  <2>1. \A a, b \in Cid : Before(tmp', a, b) => Earlier(disk'[a], disk'[b])
    BY <1>1, <1>4, <1>5 DEF LogInv, FilesInOrder, Earlier
  <2>2. \A c \in Files' \ {cur'} : Earlier(disk'[c], Lines'[cur'])
    BY <1>1, <1>4, <1>6 DEF Earlier
  <2> QED BY <1>1, <2>1, <2>2 DEF FilesInOrder
<1>16. LinksInOrder'
  BY <1>6 DEF LogInv, LinksInOrder
<1>17. LinksAreKnown'
  BY <1>1, <1>5, <1>6 DEF LogInv, LinksAreKnown, Known
<1>18. Accounts'
  <2>1. Pending' = Pending /\ (Lossless' => Lossless)
    BY <1>1, <1>2, <1>7 DEF Pending, Lossless
  <2>2. ~shortage' => dropped' = 0
    BY <1>1 DEF LogInv, Accounts
  <2>3. \A c \in Cid : HasPlace(c) => c \in Files' \cup StagedCids'
    BY <1>1, <1>5, <1>6 DEF HasPlace
  <2> QED BY <1>1, <1>6, <1>8, <2>1, <2>2, <2>3, AccountsMove
<1> QED BY <1>8, <1>9, <1>10, <1>11, <1>12, <1>13, <1>14, <1>15, <1>16, <1>17, <1>18 DEF LogInv

-----------------------------------------------------------------------------
(* The theorems.                                                           *)

\* A daemon that never ran has no files, no logs and no lines.
LEMMA InitHolds == Init => LogInv
<1> SUFFICES ASSUME Init
             PROVE  LogInv
  OBVIOUS
<1>1. /\ tmp = <<>> /\ bogus = <<>> /\ leftover = <<>>
      /\ ToSet(tmp) = {} /\ ToSet(bogus) = {} /\ ToSet(leftover) = {}
  BY DEF Init, ToSet
<1>2. Files = {} /\ StagedCids = {} /\ ~Recovering /\ ~Undecided /\ NoCurrent
  BY <1>1 DEF Init, Files, StagedCids, Recovering, Undecided, NoCurrent, Completing
<1>3. Lines = [c \in Cid |-> {}]
  BY DEF Init, Lines, LinesIn
<1>4. TypeOK
  <2>1. tmp \in Seq(Cid) /\ bogus \in Seq(Cid) /\ leftover \in Seq(Log)
    BY <1>1
  <2>2. closed \in Log
    BY DEF Init, NoLog, Log
  <2>3. nextCid \in 1..(MaxCids + 1) /\ received \in 0..MaxLines /\ failures \in 0..MaxFailures
    BY LogAssumption DEF Init
  <2> QED BY <2>1, <2>2, <2>3 DEF Init, TypeOK
<1>5. Control
  BY <1>2 DEF Init, Control, Completing
<1>6. Recovery
  BY <1>1, <1>2 DEF Init, Recovery
<1>7. Fresh
  <2>1. \A c \in Cid : c # NoCid
    BY DEF Cid, NoCid
  <2> QED BY <1>2, <1>3, <2>1 DEF Init, Fresh, NoLog
<1>8. Contents
  <2>1. IsInjective(tmp)
    BY <1>1 DEF IsInjective
  <2> QED BY <1>3, <2>1 DEF Init, Contents
<1>9. LinesOnce /\ StagedOnce
  BY <1>2, <1>3 DEF Init, LinesOnce, StagedOnce
<1>10. FilesInOrder
  BY <1>2 DEF Init, FilesInOrder, Earlier
<1>11. LinksInOrder /\ LinksAreKnown
  <2>1. closed \notin [cid : Cid, next : Cid]
    BY DEF Init, NoLog, Cid, NoCid
  <2>2. Links = {}
    BY <1>1, <2>1 DEF Init, Links
  <2> QED BY <2>2 DEF LinksInOrder, LinksAreKnown
<1>12. Accounts
  <2>1. AllLines = {}
    BY <1>3 DEF AllLines
  <2>2. Cardinality(AllLines) = 0
    BY <2>1, FS_EmptySet
  <2>3. Total = 0
    BY <1>2, <2>2 DEF Init, Total, Pending
  <2> QED BY <1>3, <2>3 DEF Init, Accounts
<1> QED BY <1>4, <1>5, <1>6, <1>7, <1>8, <1>9, <1>10, <1>11, <1>12 DEF LogInv

\* Every step of the collector, of the main loop and of the outside world keeps the invariant.
LEMMA LogInvStep ==
  ASSUME LogInv, [Next]_vars
  PROVE  LogInv'
<1>1. CASE StartStep
  BY <1>1, StartKeeps, RemoveBogusKeeps, RecoverNextKeeps, OpenCurrentKeeps DEF StartStep
<1>2. CASE CompletionStep
  BY <1>2, FlushClosedKeeps, MoveKeeps, CommitKeeps, CompletionFailsKeeps DEF CompletionStep
<1>3. CASE Receive
  BY <1>3, ReceiveKeeps
<1>4. CASE RecordStep
  BY <1>4, CheckHeadroomKeeps, RotationKeeps, WriteLineKeeps, RecordFailsKeeps DEF RecordStep
<1>5. CASE MainStep
  BY <1>5, RotationKeeps, DieKeeps DEF MainStep, PoisonedExit
<1>6. CASE Tick \/ UNCHANGED vars
  BY <1>6, TickKeeps
<1>7. CASE Shutdown
  BY <1>7, ShutdownWithDataKeeps, ShutdownWithoutDataKeeps
<1>8. CASE Crash
  BY <1>8, DieKeeps DEF Crash
<1> QED BY <1>1, <1>2, <1>3, <1>4, <1>5, <1>6, <1>7, <1>8 DEF Next

\* The invariant holds in every state of the log collector: through rotations, shortages,
\* failing calls, shutdowns, crashes at any step, and the recoveries that follow.
THEOREM LogInvariance == Spec => []LogInv
<1>1. Init => LogInv
  BY InitHolds
<1>2. LogInv /\ [Next]_vars => LogInv'
  BY LogInvStep
<1> QED BY <1>1, <1>2, PTL DEF Spec

\* Every variable of the log collector keeps its type.
THEOREM LogTypes == Spec => []TypeOK
<1>1. LogInv => TypeOK
  BY DEF LogInv
<1> QED BY <1>1, LogInvariance, PTL

\* The lines of the logs are where the properties look for them.
LEMMA WhereLinesAre ==
  ASSUME LogInv
  PROVE  /\ \A c \in Cid : LinesIn(c) = Lines[c]
         /\ Files \subseteq Cid
         /\ \A r \in staged : r.cid \in StagedCids /\ r.cid \in Cid /\ r.next \in Cid
                              /\ r.lines = Lines[r.cid]
<1>1. Files \subseteq Cid /\ NoCid \notin Cid
  BY FilesAreCids
<1>2. \A c \in Cid : LinesIn(c) = Lines[c]
  BY DEF Lines
<1>3. ASSUME NEW r \in staged
      PROVE  /\ r.cid \in StagedCids /\ r.cid \in Cid /\ r.next \in Cid
             /\ r.lines = Lines[r.cid]
  <2>1. r.cid \in StagedCids /\ r.cid \in Cid /\ r.next \in Cid
    BY <1>3 DEF StagedCids, LogInv, TypeOK
  <2>2. r.cid # cur /\ r.cid # closed.cid
    BY <1>1, <2>1 DEF LogInv, Control, StagedOnce
  <2>3. memory[r.cid] = {}
    BY <2>1, <2>2 DEF LogInv, Contents
  <2>4. r.lines = disk[r.cid]
    BY <1>3 DEF LogInv, StagedOnce
  <2> QED BY <1>2, <2>1, <2>3, <2>4 DEF LinesIn
<1> QED BY <1>1, <1>2, <1>3

\* The lines that are not lost are those of the logs that have a place.
LEMMA LinesThatAreLeft ==
  ASSUME LogInv, pc = "free", Lossless
  PROVE  Staged \cup Kept = AllLines
<1>1. /\ \A c \in Cid : LinesIn(c) = Lines[c]
      /\ Files \subseteq Cid
      /\ \A r \in staged : r.cid \in StagedCids /\ r.cid \in Cid /\ r.lines = Lines[r.cid]
  BY WhereLinesAre
<1>2. Staged \subseteq AllLines
  BY <1>1 DEF Staged, AllLines
<1>3. Kept \subseteq AllLines
  BY <1>1 DEF Kept, AllLines
<1>4. ASSUME NEW l \in AllLines
      PROVE  l \in Staged \cup Kept
  <2>1. PICK c \in Cid : l \in Lines[c]
    BY <1>4 DEF AllLines
  <2>2. c \in Files \cup StagedCids
    BY <2>1 DEF LogInv, Accounts
  <2>3. CASE c \in Files
    BY <1>1, <2>1, <2>3 DEF Kept
  <2>4. CASE c \in StagedCids
    <3>1. PICK r \in staged : r.cid = c
      BY <2>4 DEF StagedCids
    <3> QED BY <1>1, <2>1, <3>1 DEF Staged
  <2> QED BY <2>2, <2>3, <2>4
<1> QED BY <1>2, <1>3, <1>4

\* No CID and no line is staged twice, and recovery finds nothing in log_tmp_path that was
\* staged before: rotate_log, recover_old_logs and on_log_completion never disagree about who
\* owns a file, wherever a crash falls.
THEOREM LinesAreStagedOnce == Spec => []NothingTwice
<1>1. ASSUME LogInv
      PROVE  NothingTwice
  <2>1. /\ \A c \in Cid : LinesIn(c) = Lines[c]
        /\ Files \subseteq Cid
        /\ \A r \in staged : r.cid \in StagedCids /\ r.cid \in Cid /\ r.lines = Lines[r.cid]
    BY <1>1, WhereLinesAre
  <2>2. \A c, d \in Cid : c # d => Lines[c] \cap Lines[d] = {}
    BY <1>1 DEF LogInv, LinesOnce
  <2>3. \A r, q \in staged : r # q => r.cid # q.cid
    BY <1>1 DEF LogInv, StagedOnce
  <2>4. \A r \in staged : r.cid \notin Files
    BY <1>1, <2>1 DEF LogInv, StagedOnce
  <2>5. \A r, q \in staged : r # q => r.cid # q.cid /\ r.lines \cap q.lines = {}
    BY <2>1, <2>2, <2>3
  <2>6. \A c, d \in Files : c # d => LinesIn(c) \cap LinesIn(d) = {}
    BY <2>1, <2>2
  <2>7. ASSUME NEW r \in staged
        PROVE  r.lines \cap Kept = {}
    <3>1. \A c \in Files : r.lines \cap LinesIn(c) = {}
      BY <2>1, <2>2, <2>4
    <3> QED BY <3>1 DEF Kept
  <2> QED BY <2>4, <2>5, <2>6, <2>7 DEF NothingTwice
<1> QED BY <1>1, LogInvariance, PTL

\* The chain of logs can be followed: the successor that a staged log names has a log or is
\* known not to have one, and its lines are later, also when recovery rebuilt the chain from
\* the mtimes of the files.
THEOREM ChainCanBeFollowed == Spec => []ChainIsSound
<1>1. ASSUME LogInv
      PROVE  ChainIsSound
  <2>1. \A r \in staged : /\ r.cid \in StagedCids /\ r.cid \in Cid /\ r.next \in Cid
                          /\ r.lines = Lines[r.cid]
    BY <1>1, WhereLinesAre
  <2>2. ASSUME NEW r \in staged
        PROVE  [cid |-> r.cid, next |-> r.next] \in Links
    BY <2>1 DEF Links
  <2>3. ASSUME NEW r \in staged
        PROVE  r.next \in Known /\ Earlier(Lines[r.cid], Lines[r.next])
    BY <1>1, <2>2 DEF LogInv, LinksInOrder, LinksAreKnown
  <2>4. SuccessorExists
    BY <2>3 DEF SuccessorExists, Known, StagedCids
  <2>5. ChainIsOrdered
    BY <2>1, <2>3 DEF ChainIsOrdered, Earlier
  <2> QED BY <2>4, <2>5 DEF ChainIsSound
<1> QED BY <1>1, LogInvariance, PTL

\* Unless the daemon crashed or a system call failed, every line that was received is staged,
\* in a file, or counted: by the headroom limiter or by the rate limiter, in a message of the
\* log or in one to come.
THEOREM EveryLineIsAccountedFor == Spec => []DropsAreCounted
<1>1. ASSUME LogInv
      PROVE  DropsAreCounted
  <2> SUFFICES ASSUME pc = "free", ~poisoned, crashes = 0, failures = 0
               PROVE  received = Cardinality(Staged \cup Kept) + reported + dropped + limited
                                   + forgotten
    BY DEF DropsAreCounted
  <2>1. Lossless
    BY DEF Lossless
  <2>2. Cardinality(Staged \cup Kept) = Cardinality(AllLines)
    BY <1>1, <2>1, LinesThatAreLeft
  <2>3. received = Cardinality(AllLines) + reported + dropped + limited + forgotten + Pending
    BY <1>1, <2>1 DEF LogInv, Accounts, Total
  <2>4. Pending = 0
    BY DEF Pending, Undecided, Completing
  <2>5. Cardinality(AllLines) \in Nat
    BY <1>1, AllLinesFinite DEF LogInv
  <2>6. /\ received \in Nat /\ reported \in Nat /\ dropped \in Nat /\ limited \in Nat
        /\ forgotten \in Nat
    BY <1>1, CountsAreNumbers DEF LogInv
  <2> QED BY <2>2, <2>3, <2>4, <2>5, <2>6
<1> QED BY <1>1, LogInvariance, PTL
====
