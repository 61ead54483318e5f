----------------------------- MODULE DataLemmas -----------------------------
(***************************************************************************)
(* Facts about data that the proofs of several modules need. Induction is  *)
(* stated for a set instead of a predicate: it follows from the library's  *)
(* theorem that strict inclusion of finite sets is well founded.           *)
(***************************************************************************)
EXTENDS Integers, Sequences, Functions, FiniteSetTheorems, Filter, TLAPS

-----------------------------------------------------------------------------
(* Induction.                                                              *)

\* Among finite sets there is one that includes no other.
LEMMA MinimalSubset ==
  ASSUME NEW S, NEW T, T \subseteq FiniteSubsetsOf(S), T # {}
  PROVE  \E x \in T : \A y \in T : y \subseteq x => y = x
<1> DEFINE R == StrictSubsetOrdering(S)
           F == FiniteSubsetsOf(S)
<1>1. IsWellFoundedOn(R, F)
  BY FS_StrictSubsetOrderingWellFounded
<1>2. \A x, y \in SUBSET S : y \subseteq x /\ y # x => <<y, x>> \in R
  BY DEF StrictSubsetOrdering
<1>3. T \subseteq SUBSET S
  BY DEF FiniteSubsetsOf
<1>4. \E x \in T : \A y \in T : ~(<<y, x>> \in R)
  <2> HIDE DEF R, F
  <2> QED
    BY <1>1, WFMin DEF F
<1> HIDE DEF R
<1> QED
  BY <1>2, <1>3, <1>4, Zenon

\* Every set of naturals that is not empty has a least element.
LEMMA LeastNatural ==
  ASSUME NEW T, T \subseteq Nat, T # {}
  PROVE  \E n \in T : \A m \in T : n <= m
<1> DEFINE I == {1..n : n \in T}
<1>1. I \subseteq FiniteSubsetsOf(Nat) /\ I # {}
  <2>1. \A n \in T : 1..n \in SUBSET Nat /\ IsFiniteSet(1..n)
    BY FS_Interval
  <2> QED
    BY <2>1 DEF FiniteSubsetsOf
<1>2. PICK x \in I : \A y \in I : y \subseteq x => y = x
  <2> HIDE DEF I
  <2> QED
    BY <1>1, MinimalSubset
<1>3. PICK n \in T : x = 1..n
  OBVIOUS
<1>4. ASSUME NEW m \in T, ~(n <= m)
      PROVE  FALSE
  <2>1. m \in Nat /\ n \in Nat /\ m < n
    BY <1>4
  <2>2. 1..m \subseteq 1..n /\ n \in 1..n /\ n \notin 1..m
    BY <2>1
  <2>3. 1..m \in I
    OBVIOUS
  <2> QED
    BY <1>2, <1>3, <2>2, <2>3, Zenon
<1> QED
  BY <1>4

\* Induction over the naturals.
LEMMA SetInduction ==
  ASSUME NEW T, 0 \in T, \A n \in Nat : n \in T => n + 1 \in T
  PROVE  Nat \subseteq T
<1> DEFINE Q == Nat \ T
<1> SUFFICES ASSUME Q # {} PROVE FALSE
  OBVIOUS
<1>1. PICK n \in Q : \A m \in Q : n <= m
  <2>1. Q \subseteq Nat
    OBVIOUS
  <2> HIDE DEF Q
  <2> QED
    BY <2>1, LeastNatural
<1>2. n # 0 /\ n - 1 \in Nat /\ n = (n - 1) + 1
  BY <1>1
<1> QED
  BY <1>1, <1>2

-----------------------------------------------------------------------------
(* Filter.                                                                 *)

\* The elements of g are what Without has kept of the first n elements of s.
Row(s, S, g, i) ==
  IF i = 0 THEN <<>>
  ELSE IF s[i] \in S THEN g[i - 1]
  ELSE Append(g[i - 1], s[i])

Fits(s, S, n, g) == g = [i \in 0..n |-> Row(s, S, g, i)]

\* Such a function exists, so the recursive definition is one.
LEMMA FitExists ==
  ASSUME NEW s, NEW S, NEW n \in Nat
  PROVE  \E g : Fits(s, S, n, g)
<1> DEFINE T == {m \in Nat : \E g : Fits(s, S, m, g)}
<1>1. 0 \in T
  <2>1. Fits(s, S, 0, [i \in 0..0 |-> <<>>])
    BY DEF Fits, Row
  <2> QED
    BY <2>1
<1>2. ASSUME NEW m \in Nat, m \in T
      PROVE  m + 1 \in T
  <2>1. PICK g : Fits(s, S, m, g)
    BY <1>2
  <2> DEFINE last == IF s[m + 1] \in S THEN g[m] ELSE Append(g[m], s[m + 1])
             h == [i \in 0..(m + 1) |-> IF i = m + 1 THEN last ELSE g[i]]
  <2>2. ASSUME NEW i \in 0..(m + 1)
        PROVE  h[i] = Row(s, S, h, i)
    <3>1. CASE i = m + 1
      BY <3>1 DEF Row
    <3>2. CASE i # m + 1
      <4>1. i \in 0..m /\ (i # 0 => i - 1 \in 0..m)
        BY <3>2
      <4>2. h[i] = g[i] /\ (i # 0 => h[i - 1] = g[i - 1])
        BY <3>2, <4>1
      <4>3. g[i] = Row(s, S, g, i)
        BY <2>1, <4>1, Zenon DEF Fits
      <4> HIDE DEF h
      <4> QED
        BY <4>2, <4>3 DEF Row
    <3> QED
      BY <3>1, <3>2
  <2>3. Fits(s, S, m + 1, h)
    <3>1. h = [i \in 0..(m + 1) |-> h[i]]
      OBVIOUS
    <3> HIDE DEF h
    <3> QED
      BY <2>2, <3>1 DEF Fits
  <2> QED
    BY <2>3
<1> HIDE DEF T
<1>3. Nat \subseteq T
  BY <1>1, <1>2, SetInduction
<1> QED
  BY <1>3 DEF T

\* The elements of w are those of the first n elements of s that are not in S,
\* f says where they come from.
IsWithout(s, S, w, n, f) ==
  /\ Len(w) <= n
  /\ f \in [1..Len(w) -> 1..n]
  /\ \A i \in 1..Len(w) : w[i] = s[f[i]] /\ s[f[i]] \notin S
  /\ \A i, j \in 1..Len(w) : i < j => f[i] < f[j]
  /\ \A k \in 1..n : s[k] \notin S => \E i \in 1..Len(w) : f[i] = k

\* One more element of s.
LEMMA WithoutStep ==
  ASSUME NEW T, NEW s \in Seq(T), NEW S, NEW n \in Nat, n < Len(s),
         NEW w \in Seq(T), NEW f, IsWithout(s, S, w, n, f),
         NEW v, v = IF s[n + 1] \in S THEN w ELSE Append(w, s[n + 1])
  PROVE  v \in Seq(T) /\ \E h : IsWithout(s, S, v, n + 1, h)
<1>0. n + 1 \in 1..Len(s) /\ s[n + 1] \in T /\ Len(w) \in Nat
  OBVIOUS
<1>1. CASE s[n + 1] \in S
  <2>1. v = w
    BY <1>1
  <2>2. IsWithout(s, S, w, n + 1, f)
    <3>1. f \in [1..Len(w) -> 1..(n + 1)]
      BY DEF IsWithout
    <3>2. \A k \in 1..(n + 1) : s[k] \notin S => k \in 1..n
      BY <1>1
    <3> QED
      BY <1>0, <3>1, <3>2 DEF IsWithout
  <2> QED
    BY <2>1, <2>2
<1>2. CASE s[n + 1] \notin S
  <2> DEFINE h == [i \in 1..(Len(w) + 1) |->
                     IF i = Len(w) + 1 THEN n + 1 ELSE f[i]]
  <2>1. v = Append(w, s[n + 1]) /\ v \in Seq(T) /\ Len(v) = Len(w) + 1
        /\ \A i \in 1..Len(w) : v[i] = w[i]
        /\ v[Len(w) + 1] = s[n + 1]
    BY <1>0, <1>2
  <2>2. /\ h \in [1..Len(v) -> 1..(n + 1)]
        /\ \A i \in 1..Len(w) : h[i] = f[i] /\ f[i] \in 1..n
        /\ h[Len(w) + 1] = n + 1
    BY <1>0, <2>1 DEF IsWithout
  <2> HIDE DEF h
  <2>3. \A i \in 1..Len(v) : v[i] = s[h[i]] /\ s[h[i]] \notin S
    BY <1>0, <1>2, <2>1, <2>2 DEF IsWithout
  <2>4. \A i, j \in 1..Len(v) : i < j => h[i] < h[j]
    BY <1>0, <2>1, <2>2 DEF IsWithout
  <2>5. \A k \in 1..(n + 1) : s[k] \notin S => \E i \in 1..Len(v) : h[i] = k
    <3> SUFFICES ASSUME NEW k \in 1..(n + 1), s[k] \notin S
                 PROVE  \E i \in 1..Len(v) : h[i] = k
      OBVIOUS
    <3>1. CASE k = n + 1
      BY <3>1, <1>0, <2>1, <2>2
    <3>2. CASE k # n + 1
      BY <3>2, <1>0, <2>1, <2>2 DEF IsWithout
    <3> QED
      BY <3>1, <3>2
  <2>6. Len(v) <= n + 1
    BY <1>0, <2>1 DEF IsWithout
  <2>7. IsWithout(s, S, v, n + 1, h)
    BY <2>2, <2>3, <2>4, <2>5, <2>6 DEF IsWithout
  <2> QED
    BY <2>1, <2>7
<1> QED
  BY <1>1, <1>2

\* What Without returns.
LEMMA WithoutProperties ==
  ASSUME NEW T, NEW s \in Seq(T), NEW S
  PROVE  /\ Without(s, S) \in Seq(T)
         /\ \E f : IsWithout(s, S, Without(s, S), Len(s), f)
<1> DEFINE g == CHOOSE h : Fits(s, S, Len(s), h)
<1>0. Len(s) \in Nat
  OBVIOUS
<1>1. Without(s, S) = g[Len(s)]
  BY DEF Without, Fits, Row
<1>2. Fits(s, S, Len(s), g)
  BY <1>0, FitExists
<1> HIDE DEF g
<1> DEFINE Q == {n \in Nat : n <= Len(s) =>
                   g[n] \in Seq(T) /\ \E f : IsWithout(s, S, g[n], n, f)}
<1>3. 0 \in Q
  <2>1. g[0] = <<>>
    BY <1>0, <1>2 DEF Fits, Row
  <2>2. IsWithout(s, S, <<>>, 0, [i \in 1..0 |-> 0])
    BY DEF IsWithout
  <2>3. \E f : IsWithout(s, S, g[0], 0, f)
    BY <2>1, <2>2
  <2>4. g[0] \in Seq(T)
    BY <2>1
  <2> QED
    BY <2>3, <2>4
<1>4. ASSUME NEW n \in Nat, n \in Q
      PROVE  n + 1 \in Q
  <2> SUFFICES ASSUME n < Len(s)
               PROVE  /\ g[n + 1] \in Seq(T)
                      /\ \E f : IsWithout(s, S, g[n + 1], n + 1, f)
    BY <1>0
  <2>1. g[n] \in Seq(T)
    BY <1>4, <1>0
  <2>2. PICK f : IsWithout(s, S, g[n], n, f)
    BY <1>4, <1>0
  <2>3. g[n + 1] = IF s[n + 1] \in S THEN g[n] ELSE Append(g[n], s[n + 1])
    <3>1. n + 1 \in 0..Len(s) /\ n + 1 # 0 /\ (n + 1) - 1 = n
      BY <1>0
    <3> QED
      BY <1>2, <3>1 DEF Fits, Row
  <2> HIDE DEF Q
  <2> QED
    BY <2>1, <2>2, <2>3, WithoutStep
<1> HIDE DEF Q
<1>5. Nat \subseteq Q
  BY <1>3, <1>4, SetInduction
<1> QED
  BY <1>0, <1>1, <1>5 DEF Q

-----------------------------------------------------------------------------
(* Remainders.                                                             *)

\* A remainder is determined by the multiple it is added to.
LEMMA Remainder ==
  ASSUME NEW n \in Nat \ {0}, NEW a \in Int, NEW r \in 0..(n - 1)
  PROVE  (n * a + r) % n = r
<1> DEFINE x == n * a + r
           b == x \div n
           s == x % n
<1>1. x \in Int /\ b \in Int /\ s \in 0..(n - 1) /\ x = n * b + s
  OBVIOUS
<1>2. n * a + r = n * b + s
  BY <1>1
<1> HIDE DEF b, s
<1>3. CASE a > b
  <2>1. n * (a - b) = s - r
    BY <1>1, <1>2
  <2>2. n * (a - b) >= n
    BY <1>1, <1>3
  <2> QED
    BY <1>1, <2>1, <2>2
<1>4. CASE b > a
  <2>1. n * (b - a) = r - s
    BY <1>1, <1>2
  <2>2. n * (b - a) >= n
    BY <1>1, <1>4
  <2> QED
    BY <1>1, <2>1, <2>2
<1>5. CASE a = b
  <2>1. s = r
    BY <1>1, <1>2, <1>5
  <2> QED
    BY <2>1 DEF s
<1> QED
  BY <1>1, <1>3, <1>4, <1>5

\* Counting around all sub pools also counts around the nodes.
LEMMA AroundNodes ==
  ASSUME NEW n \in Nat \ {0}, NEW m \in Nat \ {0}, NEW x \in Nat
  PROVE  (x % (m * n)) % n = x % n
<1> DEFINE l  == m * n
           q  == x \div l
           r  == x % l
           q2 == r \div n
           r2 == r % n
<1>1. l \in Nat \ {0}
  OBVIOUS
<1>2. q \in Int /\ r \in Nat /\ x = l * q + r
  <2> HIDE DEF l
  <2> QED
    BY <1>1
<1> HIDE DEF q, r
<1>3. q2 \in Int /\ r2 \in 0..(n - 1) /\ r = n * q2 + r2
  <2>1. r \in Nat
    BY <1>2
  <2> QED
    BY <2>1
<1> HIDE DEF q2, r2
<1>4. m * q + q2 \in Int /\ x = n * (m * q + q2) + r2
  BY <1>2, <1>3
<1>5. x % n = r2
  BY <1>3, <1>4, Remainder
<1> QED
  BY <1>5 DEF r2, r, l

\* From any place, one of the next n places belongs to any given node.
LEMMA SomeTurn ==
  ASSUME NEW n \in Nat \ {0}, NEW first \in Nat, NEW j \in 1..n
  PROVE  \E turn \in 1..n : (first + turn) % n = j - 1
<1> DEFINE q == first \div n
           r == first % n
<1>1. q \in Int /\ r \in 0..(n - 1) /\ first = n * q + r
  OBVIOUS
<1> HIDE DEF q, r
<1>2. CASE r < j - 1
  <2>1. (n * q + (j - 1)) % n = j - 1
    BY <1>1, Remainder
  <2>2. j - 1 - r \in 1..n /\ first + (j - 1 - r) = n * q + (j - 1)
    BY <1>1, <1>2
  <2> QED
    BY <2>1, <2>2
<1>3. CASE r >= j - 1
  <2>1. (n * (q + 1) + (j - 1)) % n = j - 1
    BY <1>1, Remainder
  <2>2. n * (q + 1) = n * q + n
    BY <1>1
  <2>3. /\ n + (j - 1) - r \in 1..n
        /\ first + (n + (j - 1) - r) = n * (q + 1) + (j - 1)
    BY <1>1, <1>3, <2>2
  <2> QED
    BY <2>1, <2>3
<1> QED
  BY <1>1, <1>2, <1>3
-----------------------------------------------------------------------------
(* Sums of the values of a function, which are recursive as well.          *)

AnyOf(s) == CHOOSE x \in s : TRUE

\* One turn of the recursion, and the function it defines on the subsets of S.
Plus(f, g, s) == IF s = {} THEN 0 ELSE f[AnyOf(s)] + g[s \ {AnyOf(s)}]
Adds(f, S, g) == g = [s \in SUBSET S |-> Plus(f, g, s)]

\* What is left after one turn is smaller by one.
LEMMA OneLess ==
  ASSUME NEW S, IsFiniteSet(S), NEW s \in SUBSET S, s # {}
  PROVE  /\ AnyOf(s) \in s /\ s \ {AnyOf(s)} \in SUBSET S
         /\ Cardinality(s) \in Nat \ {0}
         /\ Cardinality(s \ {AnyOf(s)}) = Cardinality(s) - 1
<1>1. AnyOf(s) \in s
  BY DEF AnyOf
<1>2. IsFiniteSet(s)
  BY FS_Subset
<1>3. Cardinality(s) \in Nat /\ Cardinality(s) # 0
  BY <1>2, FS_CardinalityType, FS_EmptySet
<1>4. Cardinality(s \ {AnyOf(s)}) = Cardinality(s) - 1
  BY <1>1, <1>2, FS_RemoveElement
<1> QED
  BY <1>1, <1>3, <1>4

\* The function exists.
LEMMA SumExists ==
  ASSUME NEW S, IsFiniteSet(S), NEW f
  PROVE  \E g : Adds(f, S, g)
<1> DEFINE Small(n) == {s \in SUBSET S : Cardinality(s) <= n}
           Fit(n, g) == g = [s \in Small(n) |-> Plus(f, g, s)]
           T == {n \in Nat : \E g : Fit(n, g)}
<1>1. 0 \in T
  <2>1. ASSUME NEW s \in Small(0)
        PROVE  s = {}
    <3>1. s # {} => Cardinality(s) \in Nat \ {0}
      BY OneLess
    <3>2. Cardinality(s) <= 0
      OBVIOUS
    <3> HIDE DEF Small
    <3> QED
      BY <3>1, <3>2
  <2>2. Fit(0, [s \in Small(0) |-> 0])
    <3> HIDE DEF Small
    <3> QED
      BY <2>1 DEF Plus
  <2> QED
    BY <2>2
<1>2. ASSUME NEW n \in Nat, n \in T
      PROVE  n + 1 \in T
  <2>1. PICK g : Fit(n, g)
    BY <1>2
  <2> DEFINE h == [s \in Small(n + 1) |-> Plus(f, g, s)]
  <2>2. ASSUME NEW s \in Small(n + 1)
        PROVE  Plus(f, g, s) = Plus(f, h, s)
    <3>1. CASE s = {}
      BY <3>1 DEF Plus
    <3>2. CASE s # {}
      <4>1. s \ {AnyOf(s)} \in Small(n) /\ s \ {AnyOf(s)} \in Small(n + 1)
        BY <3>2, OneLess
      <4>2. g[s \ {AnyOf(s)}] = h[s \ {AnyOf(s)}]
        <5> HIDE DEF Small
        <5> QED
          BY <2>1, <4>1
      <4> HIDE DEF h
      <4> QED
        BY <3>2, <4>2 DEF Plus
    <3> QED
      BY <3>1, <3>2
  <2>3. Fit(n + 1, h)
    <3> DEFINE h2 == h
    <3>1. h = [s \in Small(n + 1) |-> Plus(f, h2, s)]
      <4> HIDE DEF h2
      <4> HIDE DEF Small
      <4>1. h2 = h
        BY DEF h2
      <4> QED
        BY <2>2, <4>1
    <3> QED
      BY <3>1
  <2>4. n + 1 \in Nat
    OBVIOUS
  <2> HIDE DEF h, Fit
  <2> QED
    BY <2>3, <2>4
<1> HIDE DEF T
<1>3. Cardinality(S) \in T
  <2>1. Nat \subseteq T
    BY <1>1, <1>2, SetInduction
  <2> QED
    BY <2>1, FS_CardinalityType
<1>4. PICK g : Fit(Cardinality(S), g)
  BY <1>3 DEF T
<1>5. Small(Cardinality(S)) = SUBSET S
  BY FS_Subset
<1> QED
  BY <1>4, <1>5 DEF Adds

\* The sum of f is calculated by this function.
LEMMA SumIs ==
  ASSUME NEW S, IsFiniteSet(S), NEW f, DOMAIN f = S
  PROVE  \E g : Adds(f, S, g) /\ SumFunction(f) = g[S]
<1> DEFINE g == CHOOSE h : Adds(f, S, h)
<1>1. SumFunction(f) = g[S]
  BY DEF SumFunction, SumFunctionOnSet, FoldFunctionOnSet, MapThenFoldSet,
         Adds, Plus, AnyOf
<1>2. Adds(f, S, g)
  BY SumExists
<1> QED
  BY <1>1, <1>2

\* Induction over the subsets of a finite set, as the recursion goes.
LEMMA SubsetInduction ==
  ASSUME NEW S, IsFiniteSet(S), NEW T,
         {} \in T,
         \A s \in SUBSET S : s # {} /\ s \ {AnyOf(s)} \in T => s \in T
  PROVE  S \in T
<1> DEFINE C == {n \in Nat : \A s \in SUBSET S : Cardinality(s) = n => s \in T}
<1>1. 0 \in C
  BY OneLess
<1>2. ASSUME NEW n \in Nat, n \in C
      PROVE  n + 1 \in C
  <2>1. ASSUME NEW s \in SUBSET S, Cardinality(s) = n + 1
        PROVE  s \in T
    <3>1. s # {}
      BY <2>1, FS_EmptySet
    <3>2. s \ {AnyOf(s)} \in SUBSET S /\ Cardinality(s \ {AnyOf(s)}) = n
      BY <2>1, <3>1, OneLess
    <3> QED
      BY <1>2, <3>1, <3>2
  <2> QED
    BY <2>1
<1> HIDE DEF C
<1>3. Cardinality(S) \in C
  <2>1. Nat \subseteq C
    BY <1>1, <1>2, SetInduction
  <2> QED
    BY <2>1, FS_CardinalityType
<1> QED
  BY <1>3 DEF C

\* A sum of integers is one.
LEMMA SumInt ==
  ASSUME NEW S, IsFiniteSet(S), NEW f \in [S -> Int]
  PROVE  SumFunction(f) \in Int
<1>1. PICK g : Adds(f, S, g) /\ SumFunction(f) = g[S]
  BY SumIs
<1> DEFINE T == {s \in SUBSET S : g[s] \in Int}
<1>2. {} \in T
  BY <1>1 DEF Adds, Plus
<1>3. ASSUME NEW s \in SUBSET S, s # {}, s \ {AnyOf(s)} \in T
      PROVE  s \in T
  <2>1. g[s] = f[AnyOf(s)] + g[s \ {AnyOf(s)}]
    BY <1>1, <1>3, Zenon DEF Adds, Plus
  <2>2. f[AnyOf(s)] \in Int
    BY <1>3, OneLess
  <2>3. g[s \ {AnyOf(s)}] \in Int
    BY <1>3
  <2> QED
    BY <2>1, <2>2, <2>3
<1> HIDE DEF T
<1>4. S \in T
  BY <1>2, <1>3, SubsetInduction
<1> QED
  BY <1>1, <1>4 DEF T

\* It changes by as much as one of the values.
LEMMA SumChanges ==
  ASSUME NEW S, IsFiniteSet(S), NEW f \in [S -> Int], NEW h \in [S -> Int],
         NEW x \in S, NEW b \in Int,
         \A y \in S : h[y] = IF y = x THEN f[y] + b ELSE f[y]
  PROVE  SumFunction(h) = SumFunction(f) + b
<1>1. PICK g : Adds(f, S, g) /\ SumFunction(f) = g[S]
  BY SumIs
<1>2. PICK k : Adds(h, S, k) /\ SumFunction(h) = k[S]
  BY SumIs
<1> DEFINE T == {s \in SUBSET S : /\ g[s] \in Int
                                  /\ k[s] = g[s] + (IF x \in s THEN b ELSE 0)}
<1>3. {} \in T
  BY <1>1, <1>2 DEF Adds, Plus
<1>4. ASSUME NEW s \in SUBSET S, s # {}, s \ {AnyOf(s)} \in T
      PROVE  s \in T
  <2> DEFINE y == AnyOf(s)
             r == s \ {AnyOf(s)}
  <2>1. g[s] = f[y] + g[r]
    BY <1>1, <1>4, Zenon DEF Adds, Plus
  <2>2. k[s] = h[y] + k[r]
    BY <1>2, <1>4, Zenon DEF Adds, Plus
  <2>3. y \in s
    BY <1>4, OneLess
  <2>4. g[r] \in Int /\ k[r] = g[r] + (IF x \in r THEN b ELSE 0)
    BY <1>4
  <2>5. x \in r <=> x \in s /\ x # y
    OBVIOUS
  <2> HIDE DEF y, r
  <2> QED
    BY <2>1, <2>2, <2>3, <2>4, <2>5
<1> HIDE DEF T
<1>5. S \in T
  BY <1>3, <1>4, SubsetInduction
<1> QED
  BY <1>1, <1>2, <1>5 DEF T

\* With n values of at most b it is at most b * n.
LEMMA SumBounded ==
  ASSUME NEW n \in Nat, NEW f \in [1..n -> Int], NEW b \in Nat,
         \A x \in 1..n : f[x] <= b
  PROVE  SumFunction(f) <= b * n
<1> DEFINE S == 1..n
<1>1. IsFiniteSet(S) /\ Cardinality(S) = n
  BY FS_Interval
<1> HIDE DEF S
<1>2. f \in [S -> Int] /\ \A x \in S : f[x] <= b
  BY DEF S
<1>3. PICK g : Adds(f, S, g) /\ SumFunction(f) = g[S]
  BY <1>1, <1>2, SumIs
<1> DEFINE T == {s \in SUBSET S : g[s] \in Int /\ g[s] <= b * Cardinality(s)}
<1>4. {} \in T
  BY <1>3, FS_EmptySet DEF Adds, Plus
<1>5. ASSUME NEW s \in SUBSET S, s # {}, s \ {AnyOf(s)} \in T
      PROVE  s \in T
  <2> DEFINE m == Cardinality(s)
             y == AnyOf(s)
             r == s \ {AnyOf(s)}
  <2>1. g[s] = f[y] + g[r]
    BY <1>3, <1>5, Zenon DEF Adds, Plus
  <2>2. y \in S /\ m \in Nat /\ Cardinality(r) = m - 1
    BY <1>1, <1>5, OneLess
  <2>3. g[r] \in Int /\ g[r] <= b * (m - 1)
    BY <1>5, <2>2
  <2>4. f[y] \in Int /\ f[y] <= b
    BY <1>2, <2>2
  <2>5. b * (m - 1) + b = b * m
    BY <2>2
  <2>6. b * (m - 1) \in Int /\ b * m \in Int
    BY <2>2
  <2>7. g[s] \in Int /\ g[s] <= b * m
    <3> HIDE DEF m, y, r
    <3> QED
      BY <2>1, <2>3, <2>4, <2>5, <2>6
  <2> QED
    BY <2>7
<1> HIDE DEF T
<1>6. S \in T
  BY <1>1, <1>4, <1>5, SubsetInduction
<1> QED
  BY <1>1, <1>3, <1>6 DEF T

\* A sum of naturals is one.
LEMMA SumNatural ==
  ASSUME NEW S, IsFiniteSet(S), NEW f \in [S -> Int],
         \A x \in S : f[x] >= 0
  PROVE  SumFunction(f) >= 0
<1>1. PICK g : Adds(f, S, g) /\ SumFunction(f) = g[S]
  BY SumIs
<1> DEFINE T == {s \in SUBSET S : g[s] \in Int /\ g[s] >= 0}
<1>2. {} \in T
  BY <1>1 DEF Adds, Plus
<1>3. ASSUME NEW s \in SUBSET S, s # {}, s \ {AnyOf(s)} \in T
      PROVE  s \in T
  <2>1. g[s] = f[AnyOf(s)] + g[s \ {AnyOf(s)}]
    BY <1>1, <1>3, Zenon DEF Adds, Plus
  <2> QED
    BY <1>3, <2>1, OneLess
<1> HIDE DEF T
<1>4. S \in T
  BY <1>2, <1>3, SubsetInduction
<1> QED
  BY <1>1, <1>4 DEF T

-----------------------------------------------------------------------------
(* Sequences that are taken apart from the front.                          *)

LEMMA TakenApart ==
  ASSUME NEW T, NEW x \in T, NEW t \in Seq(T)
  PROVE  /\ <<x>> \o t \in Seq(T)
         /\ <<x>> \o t # <<>>
         /\ Head(<<x>> \o t) = x
         /\ Tail(<<x>> \o t) = t
  OBVIOUS

LEMMA Associative ==
  ASSUME NEW T, NEW s \in Seq(T), NEW t \in Seq(T), NEW u \in Seq(T)
  PROVE  (s \o t) \o u = s \o (t \o u)
  OBVIOUS

LEMMA Neutral ==
  ASSUME NEW T, NEW s \in Seq(T)
  PROVE  s \o <<>> = s /\ <<>> \o s = s
  OBVIOUS
=============================================================================
