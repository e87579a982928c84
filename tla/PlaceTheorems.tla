--------------------------- MODULE PlaceTheorems ----------------------------
(***************************************************************************)
(* Facts about places in a sequence: what is left of it behind a place     *)
(* when it grows and when the place moves on, and when one is erased; the  *)
(* least of a set of places, the functions that are defined place by       *)
(* place, and remainders.                                                  *)
(***************************************************************************)
EXTENDS Integers, SequenceTheorems, FiniteSetTheorems, TLAPS

Behind(s, n) == SubSeq(s, n + 1, Len(s))

\* What is left of s behind n is a sequence of the same kind.
LEMMA BehindType ==
  ASSUME NEW S, NEW s \in Seq(S), NEW m \in Nat, m = Len(s), NEW n \in 0 .. m
  PROVE  Behind(s, n) \in Seq(S) /\ Len(Behind(s, n)) = m - n
<1>1. \A i \in n + 1 .. m : s[i] \in S
  BY ElementOfSeq
<1>2. n + 1 \in Int /\ m \in Int
  OBVIOUS
<1>3. /\ SubSeq(s, n + 1, m) \in Seq(S)
      /\ Len(SubSeq(s, n + 1, m)) = IF n + 1 <= m THEN m - (n + 1) + 1 ELSE 0
  BY <1>1, <1>2, SubSeqProperties
<1>4. (IF n + 1 <= m THEN m - (n + 1) + 1 ELSE 0) = m - n
  OBVIOUS
<1> QED BY <1>3, <1>4 DEF Behind

\* The elements behind n are those of s, n places further.
LEMMA BehindElement ==
  ASSUME NEW S, NEW s \in Seq(S), NEW m \in Nat, m = Len(s), NEW n \in 0 .. m,
         NEW i \in 1 .. m - n
  PROVE  Behind(s, n)[i] = s[n + i]
<1>1. \A k \in n + 1 .. m : s[k] \in S
  BY ElementOfSeq
<1>2. n + 1 \in Int /\ m \in Int
  OBVIOUS
<1>3. \A k \in 1 .. m - (n + 1) + 1 : SubSeq(s, n + 1, m)[k] = s[(n + 1) + k - 1]
  BY <1>1, <1>2, SubSeqProperties
<1>4. i \in 1 .. m - (n + 1) + 1 /\ (n + 1) + i - 1 = n + i
  OBVIOUS
<1> QED BY <1>3, <1>4 DEF Behind

\* Nothing is left behind the last place only.
LEMMA BehindEmpty ==
  ASSUME NEW S, NEW s \in Seq(S), NEW m \in Nat, m = Len(s), NEW n \in 0 .. m
  PROVE  Behind(s, n) = <<>> <=> n = m
<1>1. Behind(s, n) \in Seq(S) /\ Len(Behind(s, n)) = m - n
  BY BehindType
<1>2. Behind(s, n) = <<>> => m - n = 0
  BY <1>1, EmptySeq
<1>3. Behind(s, n) # <<>> => m - n # 0
  BY <1>1, EmptySeq
<1>4. m - n = 0 <=> n = m
  OBVIOUS
<1> QED BY <1>2, <1>3, <1>4

\* What is added to s is added to what is left of it.
LEMMA BehindAppend ==
  ASSUME NEW S, NEW s \in Seq(S), NEW m \in Nat, m = Len(s), NEW n \in 0 .. m,
         NEW x \in S
  PROVE  Behind(Append(s, x), n) = Append(Behind(s, n), x)
<1> DEFINE a == Append(s, x)
           l == Behind(a, n)
           r == Append(Behind(s, n), x)
<1>1. a \in Seq(S) /\ Len(a) = m + 1 /\ a[m + 1] = x /\ \A i \in 1 .. m : a[i] = s[i]
  BY AppendProperties
<1>2. m + 1 \in Nat /\ n \in 0 .. m + 1
  OBVIOUS
<1> HIDE DEF a
<1>3. l \in Seq(S) /\ Len(l) = (m + 1) - n
  BY <1>1, <1>2, BehindType
<1>4. \A i \in 1 .. (m + 1) - n : l[i] = a[n + i]
  BY <1>1, <1>2, BehindElement
<1>5. Behind(s, n) \in Seq(S) /\ Len(Behind(s, n)) = m - n
  BY BehindType
<1>6. \A i \in 1 .. m - n : Behind(s, n)[i] = s[n + i]
  BY BehindElement
<1>7. /\ r \in Seq(S) /\ Len(r) = (m - n) + 1 /\ r[(m - n) + 1] = x
      /\ \A i \in 1 .. m - n : r[i] = Behind(s, n)[i]
  BY <1>5, AppendProperties
<1> HIDE DEF l, r
<1>8. Len(l) = Len(r)
  BY <1>3, <1>7
<1>9. ASSUME NEW i \in 1 .. Len(l) PROVE l[i] = r[i]
  <2>1. i \in 1 .. (m + 1) - n /\ l[i] = a[n + i]
    BY <1>3, <1>4
  <2>2. CASE i = (m - n) + 1
    <3>1. n + i = m + 1
      BY <2>2
    <3> QED BY <2>1, <2>2, <3>1, <1>1, <1>7
  <2>3. CASE i # (m - n) + 1
    <3>1. i \in 1 .. m - n /\ n + i \in 1 .. m
      BY <2>1, <2>3
    <3> QED BY <2>1, <3>1, <1>1, <1>6, <1>7
  <2> QED BY <2>2, <2>3
<1>10. l = r
  BY <1>3, <1>7, <1>8, <1>9, SeqEqual
<1> QED BY <1>10 DEF l, r, a

\* One place further the first of what was left is gone.
LEMMA BehindNext ==
  ASSUME NEW S, NEW s \in Seq(S), NEW m \in Nat, m = Len(s), NEW n \in 0 .. m, n < m
  PROVE  /\ Len(Behind(s, n)) > 0
         /\ Behind(s, n)[1] = s[n + 1]
         /\ Behind(s, n + 1) = Tail(Behind(s, n))
<1>1. n + 1 \in 1 .. m /\ m \in n + 1 .. m
  OBVIOUS
<1>2. Tail(Behind(s, n)) = SubSeq(s, (n + 1) + 1, m)
  BY <1>1, HeadTailOfSubSeq DEF Behind
<1>3. Len(Behind(s, n)) = m - n
  BY BehindType
<1>4. 1 \in 1 .. m - n /\ m - n > 0
  OBVIOUS
<1>5. Behind(s, n)[1] = s[n + 1]
  BY <1>4, BehindElement
<1> QED BY <1>2, <1>3, <1>4, <1>5 DEF Behind

\* Erasing from a sequence moves up what is behind.
LEMMA ErasePlaces ==
  ASSUME NEW S, NEW s \in Seq(S), NEW i \in 1 .. Len(s), NEW t,
         t = SubSeq(s, 1, i - 1) \o SubSeq(s, i + 1, Len(s))
  PROVE  /\ t \in Seq(S) /\ Len(t) = Len(s) - 1
         /\ \A j \in 1 .. Len(s) - 1 : t[j] = IF j < i THEN s[j] ELSE s[j + 1]
<1>1. PICK n \in Nat \ {0} : n = Len(s) /\ i \in 1 .. n
  <2>1. Len(s) \in Nat
    BY LenProperties
  <2> QED BY <2>1
<1> DEFINE a == SubSeq(s, 1, i - 1)
           b == SubSeq(s, i + 1, n)
<1>2. t = a \o b
  BY <1>1
<1>3. \A j \in 1 .. n : s[j] \in S
  BY <1>1, ElementOfSeq
<1>4. /\ a \in Seq(S) /\ Len(a) = i - 1 /\ \A j \in 1 .. i - 1 : a[j] = s[j]
  <2>1. \A j \in 1 .. i - 1 : s[j] \in S
    BY <1>1, <1>3
  <2>2. /\ 1 \in Int /\ i - 1 \in Int /\ (1 <= i - 1 \/ i - 1 = 0) /\ i - 1 - 1 + 1 = i - 1
        /\ \A j \in 1 .. i - 1 : 1 + j - 1 = j
    BY <1>1
  <2> QED BY <2>1, <2>2, SubSeqProperties
<1>5. /\ b \in Seq(S) /\ Len(b) = n - i /\ \A j \in 1 .. n - i : b[j] = s[i + j]
  <2>1. \A j \in i + 1 .. n : s[j] \in S
    BY <1>1, <1>3
  <2>2. /\ i + 1 \in Int /\ n \in Int /\ (i + 1 <= n \/ n - i = 0)
        /\ n - (i + 1) + 1 = n - i
        /\ \A j \in 1 .. n - i : i + 1 + j - 1 = i + j
    BY <1>1
  <2>3. i + 1 <= n \/ n < i + 1
    BY <1>1
  <2> QED BY <2>1, <2>2, <2>3, SubSeqProperties
<1> HIDE DEF a, b
<1>6. /\ a \o b \in Seq(S) /\ Len(a \o b) = (i - 1) + (n - i)
      /\ \A j \in 1 .. (i - 1) + (n - i) :
           (a \o b)[j] = IF j <= i - 1 THEN a[j] ELSE b[j - (i - 1)]
  <2>1. /\ a \o b \in Seq(S) /\ Len(a \o b) = Len(a) + Len(b)
        /\ \A j \in 1 .. Len(a) + Len(b) :
             (a \o b)[j] = IF j <= Len(a) THEN a[j] ELSE b[j - Len(a)]
    <3>1. a \in Seq(S) /\ b \in Seq(S)
      BY <1>4, <1>5
    <3> QED BY <3>1, ConcatProperties
  <2>2. Len(a) = i - 1 /\ Len(b) = n - i
    BY <1>4, <1>5
  <2> QED BY <2>1, <2>2
<1>7. (i - 1) + (n - i) = n - 1
  BY <1>1
<1>8. ASSUME NEW j \in 1 .. n - 1 PROVE (a \o b)[j] = IF j < i THEN s[j] ELSE s[j + 1]
  <2>1. CASE j < i
    <3>1. j <= i - 1 /\ j \in 1 .. i - 1
      BY <1>1, <2>1
    <3> QED BY <1>4, <1>6, <1>7, <2>1, <3>1
  <2>2. CASE ~ (j < i)
    <3>1. ~ (j <= i - 1) /\ j - (i - 1) \in 1 .. n - i /\ i + (j - (i - 1)) = j + 1
      BY <1>1, <2>2
    <3> QED BY <1>5, <1>6, <1>7, <2>2, <3>1
  <2> QED BY <2>1, <2>2
<1> QED BY <1>1, <1>2, <1>6, <1>7, <1>8

\* A set of places in the buffer has a least one: the numbers below all of
\* them are as many as the first that is not.
LEMMA Least ==
  ASSUME NEW N \in Nat, NEW T \in SUBSET (1 .. N), T # {}
  PROVE  \E i \in T : \A j \in T : i <= j
<1> DEFINE A == {n \in 0 .. N : \A j \in T : n < j}
<1>1. A \subseteq 0 .. N /\ 0 \in A /\ N \notin A
  <2>1. \A j \in T : j \in 1 .. N
    OBVIOUS
  <2>2. \A j \in 1 .. N : 0 < j /\ ~ (N < j)
    OBVIOUS
  <2>3. 0 \in 0 .. N /\ \A j \in T : 0 < j
    BY <2>1, <2>2
  <2>4. PICK j \in T : ~ (N < j)
    BY <2>1, <2>2
  <2> QED BY <2>3, <2>4
<1>2. IsFiniteSet(A)
  <2>1. 0 \in Int /\ N \in Int
    OBVIOUS
  <2>2. IsFiniteSet(0 .. N)
    BY <2>1, FS_Interval
  <2> QED BY <1>1, <2>2, FS_Subset
<1>3. \A n \in A : 0 .. n \subseteq A
  OBVIOUS
<1> HIDE DEF A
<1>4. PICK m \in Nat : m = Cardinality(A)
  BY <1>2, FS_CardinalityType
<1>5. m # 0
  BY <1>1, <1>2, <1>4, FS_EmptySet
<1>6. ASSUME NEW n \in A PROVE n <= m - 1
  <2>1. n \in Nat /\ n \in Int /\ 0 \in Int
    BY <1>1
  <2>2. Cardinality(0 .. n) <= m
    BY <1>2, <1>3, <1>4, FS_Subset
  <2>3. Cardinality(0 .. n) = IF 0 > n THEN 0 ELSE n - 0 + 1
    BY <2>1, FS_Interval
  <2>4. n + 1 <= m
    BY <2>1, <2>2, <2>3
  <2> QED BY <2>1, <2>4
<1>7. A = 0 .. m - 1
  <2>1. A \subseteq 0 .. m - 1
    <3>1. \A n \in A : n \in Nat
      BY <1>1
    <3> QED BY <1>6, <3>1
  <2>2. 0 \in Int /\ m - 1 \in Int /\ ~ (0 > m - 1) /\ m - 1 - 0 + 1 = m
    BY <1>5
  <2>3. IsFiniteSet(0 .. m - 1) /\ Cardinality(0 .. m - 1) = m
    BY <2>2, FS_Interval
  <2> QED BY <1>4, <2>1, <2>3, FS_Subset
<1>8. m - 1 \in A /\ m \notin A
  BY <1>5, <1>7
<1>9. m \in 0 .. N
  <2>1. m - 1 \in 0 .. N /\ m - 1 # N
    BY <1>1, <1>8
  <2> QED BY <2>1
<1>10. (\A j \in T : m - 1 < j) /\ \E j \in T : ~ (m < j)
  BY <1>8, <1>9 DEF A
<1>11. \A j \in T : j \in Nat /\ (m - 1 < j => m <= j)
  OBVIOUS
<1>12. m \in T /\ \A j \in T : m <= j
  BY <1>10, <1>11
<1> QED BY <1>12

\* A step for each place.
StepsIn(step, n, X) == step \in [1 .. n -> [X -> X]]

\* A recursive function over the first numbers exists: those for which there is
\* none would have a least one.
LEMMA Recursion ==
  ASSUME NEW N \in Nat, NEW X, NEW b \in X, NEW step, StepsIn(step, N, X)
  PROVE  \E g \in [0 .. N -> X] : g[0] = b /\ \A i \in 1 .. N : g[i] = step[i][g[i - 1]]
<1> DEFINE Step(g, k) == g[0] = b /\ \A i \in 1 .. k : g[i] = step[i][g[i - 1]]
           Fails == {k \in 1 .. N : ~ \E g \in [0 .. k -> X] : Step(g, k)}
<1>1. \E g \in [0 .. 0 -> X] : Step(g, 0)
  <2>1. [i \in 0 .. 0 |-> b] \in [0 .. 0 -> X] /\ Step([i \in 0 .. 0 |-> b], 0)
    OBVIOUS
  <2> QED BY <2>1
<1>2. ASSUME NEW k \in 1 .. N, NEW g \in [0 .. k - 1 -> X], Step(g, k - 1)
      PROVE  \E h \in [0 .. k -> X] : Step(h, k)
  <2> DEFINE h == [i \in 0 .. k |-> IF i = k THEN step[k][g[k - 1]] ELSE g[i]]
  <2>1. \A i \in 0 .. k : i = k \/ i \in 0 .. k - 1
    OBVIOUS
  <2>2. k - 1 \in 0 .. k - 1 /\ k - 1 \in 0 .. k /\ 0 \in 0 .. k /\ 0 # k /\ k \in 0 .. k
    OBVIOUS
  <2>3. step[k][g[k - 1]] \in X
    BY <2>2 DEF StepsIn
  <2>4. h \in [0 .. k -> X]
    BY <2>1, <2>3
  <2>5. h[0] = b
    BY <1>2, <2>2
  <2>6. ASSUME NEW i \in 1 .. k PROVE h[i] = step[i][h[i - 1]]
    <3>1. CASE i = k
      BY <2>2, <3>1
    <3>2. CASE i # k
      <4>1. /\ i \in 1 .. k - 1 /\ i \in 0 .. k /\ i - 1 \in 0 .. k /\ i - 1 # k
        BY <3>2
      <4> QED BY <1>2, <3>2, <4>1
    <3> QED BY <3>1, <3>2
  <2> HIDE DEF h
  <2> QED BY <2>4, <2>5, <2>6
<1>3. Fails = {}
  <2>1. SUFFICES ASSUME Fails # {} PROVE FALSE
    OBVIOUS
  <2>2. Fails \in SUBSET (1 .. N)
    OBVIOUS
  <2> HIDE DEF Fails
  <2>3. PICK k \in Fails : \A j \in Fails : k <= j
    BY <2>1, <2>2, Least
  <2>4. k \in 1 .. N /\ k - 1 \notin Fails
    <3>1. k \in 1 .. N /\ ~ (k <= k - 1)
      BY <2>2
    <3> QED BY <2>3, <3>1
  <2>5. \E g \in [0 .. k - 1 -> X] : Step(g, k - 1)
    <3>1. CASE k = 1
      <4>1. k - 1 = 0
        BY <3>1
      <4> QED BY <1>1, <4>1
    <3>2. CASE k # 1
      <4>1. k - 1 \in 1 .. N
        BY <2>4, <3>2
      <4> QED BY <2>4, <4>1 DEF Fails
    <3> QED BY <3>1, <3>2
  <2>6. \E h \in [0 .. k -> X] : Step(h, k)
    BY <1>2, <2>4, <2>5
  <2> QED BY <2>3, <2>6 DEF Fails
<1>4. \E g \in [0 .. N -> X] : Step(g, N)
  <2>1. CASE N = 0
    BY <1>1, <2>1
  <2>2. CASE N # 0
    <3>1. N \in 1 .. N
      BY <2>2
    <3> QED BY <1>3, <3>1
  <2> QED BY <2>1, <2>2
<1> QED BY <1>4

\* Quotient and remainder.
LEMMA DivMod ==
  \A N \in Nat \ {0}, i \in Nat :
    i = N * (i \div N) + (i % N) /\ i % N \in 0 .. N - 1 /\ i \div N \in Nat
OBVIOUS

\* Numbers less than N apart have remainders of their own.
LEMMA RemaindersApart ==
  ASSUME NEW N \in Nat \ {0}, NEW i \in Nat, NEW j \in Nat, i < j, j - i < N
  PROVE  i % N # j % N
<1>1. /\ i = N * (i \div N) + (i % N) /\ j = N * (j \div N) + (j % N)
      /\ i % N \in Nat /\ i \div N \in Nat /\ j \div N \in Nat
  BY DivMod
<1>2. PICK p \in Nat, q \in Nat : p = i \div N /\ q = j \div N
  BY <1>1
<1>3. SUFFICES ASSUME i % N = j % N PROVE FALSE
  OBVIOUS
<1>4. PICK r \in Nat : i = N * p + r /\ j = N * q + r
  BY <1>1, <1>2, <1>3
<1>5. \A m \in Nat \ {0}, x, y \in Nat : x * m \in Nat /\ (x < y => m * y - m * x >= m)
                                         /\ (y =< x => m * y =< m * x) /\ m * x \in Nat
  OBVIOUS
<1>6. q =< p => N * q =< N * p
  BY <1>5
<1>7. p < q => N * q - N * p >= N
  BY <1>5
<1>8. N * p \in Nat /\ N * q \in Nat
  BY <1>5
<1>9. p < q \/ q =< p
  BY <1>2
<1> QED BY <1>4, <1>6, <1>7, <1>8, <1>9
=============================================================================
