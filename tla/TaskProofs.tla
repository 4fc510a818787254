----------------------------- MODULE TaskProofs -----------------------------
(***************************************************************************)
(* What the host evaluates is what the prompt describes: each of the ten   *)
(* families, and compositions of their stages, for every task that can be  *)
(* drawn and every sequence of integers.  Folds are functions over the     *)
(* positions, so that what holds at each position follows from there being *)
(* no least position at which it does not (UpTo).                          *)
(***************************************************************************)
EXTENDS Composition, FiniteSetTheorems, SequenceTheorems, WellFoundedInduction, TLAPS

\* Every set of naturals that is not empty has a least member.
LEMMA Least ==
    ASSUME NEW T, T \subseteq Nat, T # {}
    PROVE  \E m \in T : \A n \in T : m <= n
<1>1. PICK m \in T : \A n \in T : ~(<<n, m>> \in OpToRel(<, Nat))
  BY WFMin, NatLessThanWellFounded
<1>2. \A n \in T : ~(n < m)
  BY <1>1 DEF OpToRel
<1> QED
  BY <1>2

\* What holds at 0 and is passed on below n holds up to n.
LEMMA UpTo ==
    ASSUME NEW n \in Nat, NEW T, 0 \in T, \A k \in 0 .. n - 1 : k \in T => k + 1 \in T
    PROVE  0 .. n \subseteq T
<1> DEFINE Rest == (0 .. n) \ T
<1> SUFFICES ASSUME Rest # {} PROVE FALSE
  OBVIOUS
<1>1. PICK m \in Rest : \A k \in Rest : m <= k
  <2>1. Rest \subseteq Nat
    OBVIOUS
  <2> HIDE DEF Rest
  <2> QED
    BY <2>1, Least
<1>2. m # 0 /\ m - 1 \in 0 .. n - 1
  BY <1>1
<1>3. m - 1 \in T
  BY <1>1, <1>2
<1>4. (m - 1) + 1 \in T
  BY <1>2, <1>3
<1> QED
  BY <1>1, <1>2, <1>4

\* Steps that take a value to a value, and the course of values they determine.
StepsOn(V, base, n, step) == n \in Nat /\ base \in V /\ step \in [1 .. n -> [V -> V]]

\* The values f takes, one step after the other from the base.
IsCourse(f, V, base, n, step) ==
    /\ f \in [0 .. n -> V]
    /\ f[0] = base
    /\ \A k \in 1 .. n : f[k] = step[k][f[k - 1]]

\* Steps that take a value to a value determine a course.
LEMMA CourseExists ==
    ASSUME NEW V, NEW base, NEW n, NEW step, StepsOn(V, base, n, step)
    PROVE  \E f : IsCourse(f, V, base, n, step)
<1> DEFINE T == {m \in 0 .. n : \E f : IsCourse(f, V, base, m, step)}
<1>0. n \in Nat /\ base \in V /\ step \in [1 .. n -> [V -> V]]
  BY DEF StepsOn
<1>1. 0 \in T
  <2> DEFINE g == [k \in 0 .. 0 |-> base]
  <2>1. IsCourse(g, V, base, 0, step)
    BY <1>0 DEF IsCourse
  <2> QED
    BY <1>0, <2>1
<1>2. ASSUME NEW m \in 0 .. n - 1, m \in T PROVE m + 1 \in T
  <2>1. PICK f : IsCourse(f, V, base, m, step)
    BY <1>2
  <2>2. f \in [0 .. m -> V] /\ f[0] = base /\ \A k \in 1 .. m : f[k] = step[k][f[k - 1]]
    BY <2>1 DEF IsCourse
  <2> DEFINE last == step[m + 1][f[m]]
             g == [k \in 0 .. m + 1 |-> IF k <= m THEN f[k] ELSE last]
  <2>3. last \in V
    <3>1. m \in 0 .. m /\ m + 1 \in 1 .. n
      BY <1>0
    <3>2. f[m] \in V
      BY <2>2, <3>1
    <3> QED
      BY <1>0, <3>1, <3>2
  <2> HIDE DEF last
  <2>4. /\ g \in [0 .. m + 1 -> V]
        /\ \A k \in 0 .. m : g[k] = f[k]
        /\ g[m + 1] = last
    BY <1>0, <2>2, <2>3
  <2>5. ASSUME NEW k \in 1 .. m + 1 PROVE g[k] = step[k][g[k - 1]]
    <3>1. CASE k = m + 1
      BY <3>1, <2>4, <1>0 DEF last
    <3>2. CASE k # m + 1
      <4>1. k \in 1 .. m /\ k - 1 \in 0 .. m /\ k \in 0 .. m
        BY <1>0, <3>2
      <4> QED
        BY <4>1, <2>2, <2>4
    <3> QED
      BY <3>1, <3>2
  <2>6. g[0] = base
    BY <1>0, <2>2, <2>4
  <2>7. m + 1 \in 0 .. n
    BY <1>0
  <2> HIDE DEF g
  <2>8. IsCourse(g, V, base, m + 1, step)
    BY <2>4, <2>5, <2>6 DEF IsCourse
  <2> QED
    BY <2>7, <2>8
<1>3. 0 .. n \subseteq T
  BY <1>0, <1>1, <1>2, UpTo
<1> QED
  BY <1>0, <1>3

\* A function whose values lead from V to V stays in V.
LEMMA StaysIn ==
    ASSUME NEW n \in Nat, NEW V, NEW f, f[0] \in V, \A k \in 1 .. n : f[k - 1] \in V => f[k] \in V
    PROVE  \A k \in 0 .. n : f[k] \in V
<1> DEFINE T == {k \in 0 .. n : f[k] \in V}
<1>1. \A k \in 0 .. n - 1 : k \in T => k + 1 \in T
  <2> SUFFICES ASSUME NEW k \in 0 .. n - 1, f[k] \in V PROVE f[k + 1] \in V
    OBVIOUS
  <2>1. k + 1 \in 1 .. n /\ (k + 1) - 1 = k
    OBVIOUS
  <2> QED
    BY <2>1
<1>2. 0 \in T
  OBVIOUS
<1>3. 0 .. n \subseteq T
  <2> HIDE DEF T
  <2> QED
    BY <1>1, <1>2, UpTo
<1> QED
  BY <1>3

-----------------------------------------------------------------------------
\* The sums of the first values.
Sums(s) == CHOOSE f : f = [k \in 0 .. Len(s) |-> IF k = 0 THEN 0 ELSE f[k - 1] + s[k]]

\* Total adds the values one by one, and every sum of first values is an integer.
LEMMA SumsDef ==
    ASSUME NEW s \in Seq(Int)
    PROVE  /\ Total(s) = Sums(s)[Len(s)]
           /\ Sums(s)[0] = 0
           /\ \A k \in 1 .. Len(s) : Sums(s)[k] = Sums(s)[k - 1] + s[k]
           /\ \A k \in 0 .. Len(s) : Sums(s)[k] \in Int
<1> DEFINE n == Len(s)
           step == [k \in 1 .. n |-> [sum \in Int |-> sum + s[k]]]
           next(f) == [k \in 0 .. n |-> IF k = 0 THEN 0 ELSE f[k - 1] + s[k]]
<1>1. n \in Nat /\ \A k \in 1 .. n : s[k] \in Int
  OBVIOUS
<1>2. StepsOn(Int, 0, n, step)
  BY <1>1 DEF StepsOn
<1>3. PICK f : IsCourse(f, Int, 0, n, step)
  <2> HIDE DEF n, step
  <2> QED BY <1>2, CourseExists
<1>4. f \in [0 .. n -> Int] /\ f[0] = 0 /\ \A k \in 1 .. n : f[k] = step[k][f[k - 1]]
  BY <1>3 DEF IsCourse
<1>5. ASSUME NEW k \in 1 .. n PROVE f[k] = f[k - 1] + s[k]
  <2>1. f[k - 1] \in Int
    <3>1. k - 1 \in 0 .. n
      BY <1>1
    <3> HIDE DEF n, step
    <3> QED
      BY <1>4, <3>1, Zenon
  <2>2. step[k][f[k - 1]] = f[k - 1] + s[k]
    BY <2>1
  <2> HIDE DEF step
  <2> QED
    BY <1>4, <2>2
<1>6. f = next(f)
  BY <1>4, <1>5
<1>7. Sums(s) = next(Sums(s))
  BY <1>6 DEF Sums
<1>8. Sums(s)[0] = 0 /\ \A k \in 1 .. n : Sums(s)[k] = Sums(s)[k - 1] + s[k]
  <2>1. 0 \in 0 .. n /\ \A k \in 1 .. n : k \in 0 .. n /\ k # 0
    BY <1>1
  <2>2. ASSUME NEW h, h = next(h)
        PROVE  h[0] = 0 /\ \A k \in 1 .. n : h[k] = h[k - 1] + s[k]
    <3> HIDE DEF n
    <3> QED
      BY <2>1, <2>2, Zenon
  <2> HIDE DEF n, next
  <2> QED
    BY <1>7, <2>2
<1>9. \A k \in 0 .. n : Sums(s)[k] \in Int
  <2>1. ASSUME NEW k \in 1 .. n, Sums(s)[k - 1] \in Int PROVE Sums(s)[k] \in Int
    BY <1>1, <1>8, <2>1
  <2>2. Sums(s)[0] \in Int
    BY <1>8
  <2> HIDE DEF n
  <2> QED
    BY <1>1, <2>1, <2>2, StaysIn
<1>10. Total(s) = Sums(s)[n]
  BY DEF Total, Fold, Sums
<1> QED
  BY <1>8, <1>9, <1>10

\* Sequences that begin alike have the same first sums.
LEMMA SameSums ==
    ASSUME NEW s \in Seq(Int), NEW t \in Seq(Int), NEW m \in Nat, m <= Len(s), m <= Len(t),
           \A k \in 1 .. m : s[k] = t[k]
    PROVE  \A k \in 0 .. m : Sums(s)[k] = Sums(t)[k]
<1> DEFINE T == {k \in 0 .. m : Sums(s)[k] = Sums(t)[k]}
<1>1. 0 \in T
  BY SumsDef
<1>2. ASSUME NEW k \in 0 .. m - 1, k \in T PROVE k + 1 \in T
  <2>1. k + 1 \in 1 .. Len(s) /\ k + 1 \in 1 .. Len(t) /\ k + 1 \in 1 .. m /\ (k + 1) - 1 = k
    OBVIOUS
  <2> QED
    BY <1>2, <2>1, SumsDef
<1>3. 0 .. m \subseteq T
  <2> HIDE DEF T
  <2> QED
    BY <1>1, <1>2, UpTo
<1> QED
  BY <1>3

\* Nothing adds up to zero.
LEMMA TotalEmpty == Total(<<>>) = 0
<1>1. <<>> \in Seq(Int) /\ Len(<<>>) = 0
  OBVIOUS
<1> QED
  BY <1>1, SumsDef

\* A value appended is added.
LEMMA TotalAppend ==
    ASSUME NEW s \in Seq(Int), NEW x \in Int
    PROVE  Total(Append(s, x)) = Total(s) + x
<1> DEFINE t == Append(s, x)
<1>1. t \in Seq(Int) /\ Len(t) = Len(s) + 1 /\ Len(s) \in Nat /\ t[Len(s) + 1] = x
      /\ \A k \in 1 .. Len(s) : s[k] = t[k]
  OBVIOUS
<1> HIDE DEF t
<1>2. Sums(t)[Len(s)] = Sums(s)[Len(s)]
  <2>1. Len(s) <= Len(s) /\ Len(s) <= Len(t) /\ Len(s) \in 0 .. Len(s)
    BY <1>1
  <2>2. \A k \in 0 .. Len(s) : Sums(s)[k] = Sums(t)[k]
    BY <1>1, <2>1, SameSums
  <2> QED
    BY <2>1, <2>2
<1>3. Len(t) \in 1 .. Len(t) /\ Len(t) - 1 = Len(s)
  BY <1>1
<1>4. Sums(t)[Len(t)] = Sums(t)[Len(s)] + x
  BY <1>1, <1>3, SumsDef
<1>5. Total(t) = Sums(t)[Len(t)] /\ Total(s) = Sums(s)[Len(s)]
  BY <1>1, SumsDef
<1> QED
  BY <1>2, <1>4, <1>5 DEF t

\* Integers add up to an integer.
LEMMA TotalIsInt == ASSUME NEW s \in Seq(Int) PROVE Total(s) \in Int
  BY SumsDef

\* A sum of bounded values is bounded by their number.
LEMMA SumsBounded ==
    ASSUME NEW s \in Seq(Int), NEW b \in Nat, \A k \in 1 .. Len(s) : s[k] \in -b .. b
    PROVE  \A k \in 0 .. Len(s) : Sums(s)[k] \in -(k * b) .. k * b
<1> DEFINE T == {k \in 0 .. Len(s) : Sums(s)[k] \in -(k * b) .. k * b}
<1>1. 0 \in T
  BY SumsDef
<1>2. ASSUME NEW k \in 0 .. Len(s) - 1, k \in T PROVE k + 1 \in T
  <2>1. k + 1 \in 1 .. Len(s) /\ (k + 1) - 1 = k
    OBVIOUS
  <2>2. Sums(s)[k + 1] = Sums(s)[k] + s[k + 1] /\ Sums(s)[k] \in Int /\ s[k + 1] \in -b .. b
    BY <2>1, SumsDef
  <2>3. (k + 1) * b = k * b + b /\ k * b \in Int
    OBVIOUS
  <2>4. Sums(s)[k] \in -(k * b) .. k * b
    BY <1>2
  <2>5. Sums(s)[k + 1] \in -((k + 1) * b) .. (k + 1) * b
    BY <2>2, <2>3, <2>4
  <2> QED
    BY <2>1, <2>5
<1>3. 0 .. Len(s) \subseteq T
  <2>1. Len(s) \in Nat
    OBVIOUS
  <2> HIDE DEF T
  <2> QED
    BY <1>1, <1>2, <2>1, UpTo
<1> QED
  BY <1>3

-----------------------------------------------------------------------------
\* S is a set of positions of a sequence of n values.
Positions(S, n) == n \in Nat /\ S \subseteq 1 .. n

\* The number of members of S up to k.
Rank(S, k) == Cardinality({j \in S : j <= k})

\* The rank starts at 0, grows by one at each member of S, and ends at their number.
LEMMA RankDef ==
    ASSUME NEW n, NEW S, Positions(S, n)
    PROVE  /\ Rank(S, 0) = 0
           /\ \A k \in 0 .. n : Rank(S, k) \in Nat
           /\ \A k \in 1 .. n : Rank(S, k) = IF k \in S THEN Rank(S, k - 1) + 1 ELSE Rank(S, k - 1)
           /\ Rank(S, n) = Cardinality(S)
<1> DEFINE upto(k) == {j \in S : j <= k}
<1> n \in Nat /\ S \subseteq 1 .. n
  BY DEF Positions
<1>0. IsFiniteSet(1 .. n) /\ \A j \in S : j \in Int /\ 1 <= j /\ j <= n
  BY FS_Interval
<1>1. \A k \in 0 .. n : IsFiniteSet(upto(k)) /\ Cardinality(upto(k)) \in Nat
  <2>1. ASSUME NEW k \in 0 .. n PROVE IsFiniteSet(upto(k)) /\ Cardinality(upto(k)) \in Nat
    <3>1. upto(k) \subseteq 1 .. n
      OBVIOUS
    <3>2. IsFiniteSet(upto(k))
      <4> HIDE DEF upto
      <4> QED
        BY <1>0, <3>1, FS_Subset
    <3> QED
      BY <3>2, FS_CardinalityType
  <2> QED
    BY <2>1
<1>2. upto(0) = {} /\ upto(n) = S
  <2>1. \A j \in S : ~(j <= 0) /\ j <= n
    BY <1>0
  <2> QED
    BY <2>1, Zenon
<1>3. ASSUME NEW k \in 1 .. n
      PROVE  Rank(S, k) = IF k \in S THEN Rank(S, k - 1) + 1 ELSE Rank(S, k - 1)
  <2>1. k - 1 \in 0 .. n
    OBVIOUS
  <2>2. CASE k \in S
    <3>1. upto(k) = upto(k - 1) \union {k} /\ k \notin upto(k - 1)
      <4>1. \A j \in S : j <= k <=> j <= k - 1 \/ j = k
        BY <1>0
      <4>2. k <= k /\ ~(k <= k - 1)
        OBVIOUS
      <4> QED
        BY <2>2, <4>1, <4>2, Zenon
    <3>2. IsFiniteSet(upto(k - 1))
      BY <1>1, <2>1
    <3>3. Cardinality(upto(k)) = Cardinality(upto(k - 1)) + 1
      <4> HIDE DEF upto
      <4> QED
        BY <3>1, <3>2, FS_AddElement
    <3> QED
      BY <2>2, <3>3 DEF Rank
  <2>3. CASE k \notin S
    <3>1. upto(k) = upto(k - 1)
      <4>1. \A j \in S : j <= k <=> j <= k - 1
        BY <1>0, <2>3
      <4> QED
        BY <4>1, Zenon
    <3> QED
      BY <2>3, <3>1 DEF Rank
  <2> QED
    BY <2>2, <2>3
<1>4. Rank(S, 0) = 0
  BY <1>2, FS_EmptySet DEF Rank
<1>5. \A k \in 0 .. n : Rank(S, k) \in Nat
  BY <1>1 DEF Rank
<1> QED
  BY <1>2, <1>3, <1>4, <1>5 DEF Rank

\* A later position has no lower rank.
LEMMA RankGrows ==
    ASSUME NEW n, NEW S, Positions(S, n), NEW i \in 0 .. n, NEW j \in i .. n
    PROVE  Rank(S, i) <= Rank(S, j)
<1> n \in Nat /\ S \subseteq 1 .. n
  BY DEF Positions
<1> DEFINE upto(m) == {k \in S : k <= m}
<1>1. \A k \in S : k \in Int
  OBVIOUS
<1>2. upto(i) \subseteq upto(j) /\ upto(j) \subseteq 1 .. n
  <2>1. \A k \in S : k <= i => k <= j
    BY <1>1
  <2> QED
    BY <2>1, Zenon
<1>3. IsFiniteSet(1 .. n)
  BY FS_Interval
<1>4. Cardinality(upto(i)) <= Cardinality(upto(j))
  <2> HIDE DEF upto
  <2> QED
    BY <1>2, <1>3, FS_Subset
<1> QED
  BY <1>4 DEF Rank

-----------------------------------------------------------------------------
\* What is kept of the first values.
Kept(s, S) ==
    CHOOSE f : f = [k \in 0 .. Len(Indices(s)) |->
                       IF k = 0 THEN <<>>
                       ELSE IF Indices(s)[k] \in S THEN Append(f[k - 1], s[Indices(s)[k]])
                            ELSE f[k - 1]]

\* Keep reads the positions from left to right and appends those of S.
LEMMA KeptDef ==
    ASSUME NEW A, NEW s \in Seq(A), NEW S
    PROVE  /\ Keep(s, S) = Kept(s, S)[Len(s)]
           /\ Kept(s, S)[0] = <<>>
           /\ \A k \in 1 .. Len(s) : Kept(s, S)[k] =
                 IF k \in S THEN Append(Kept(s, S)[k - 1], s[k]) ELSE Kept(s, S)[k - 1]
           /\ \A k \in 0 .. Len(s) : Kept(s, S)[k] \in Seq(A)
<1> DEFINE n == Len(s)
           step == [k \in 1 .. n |->
                       [kept \in Seq(A) |-> IF k \in S THEN Append(kept, s[k]) ELSE kept]]
           next(f) == [k \in 0 .. Len(Indices(s)) |->
                          IF k = 0 THEN <<>>
                          ELSE IF Indices(s)[k] \in S THEN Append(f[k - 1], s[Indices(s)[k]])
                               ELSE f[k - 1]]
<1>1. n \in Nat /\ \A k \in 1 .. n : s[k] \in A
  OBVIOUS
<1>2. Len(Indices(s)) = n /\ \A k \in 1 .. n : Indices(s)[k] = k
  BY <1>1 DEF Indices
<1>12. ASSUME NEW h
       PROVE  /\ DOMAIN next(h) = 0 .. n
              /\ next(h)[0] = <<>>
              /\ \A k \in 1 .. n :
                    next(h)[k] = IF k \in S THEN Append(h[k - 1], s[k]) ELSE h[k - 1]
  <2>1. next(h) = [k \in 0 .. n |-> IF k = 0 THEN <<>>
                                    ELSE IF Indices(s)[k] \in S
                                         THEN Append(h[k - 1], s[Indices(s)[k]])
                                         ELSE h[k - 1]]
    BY <1>2
  <2>2. ASSUME NEW k \in 1 .. n
        PROVE  next(h)[k] = IF k \in S THEN Append(h[k - 1], s[k]) ELSE h[k - 1]
    <3>1. k \in 0 .. n /\ k # 0
      BY <1>1
    <3> QED
      BY <1>2, <2>1, <3>1, Zenon
  <2>3. DOMAIN next(h) = 0 .. n
    BY <2>1, Zenon
  <2>4. 0 \in 0 .. n
    BY <1>1
  <2>5. next(h)[0] = <<>>
    BY <2>1, <2>4, Zenon
  <2> QED
    BY <2>2, <2>3, <2>5, Zenon
<1>3. StepsOn(Seq(A), <<>>, n, step)
  <2>1. step \in [1 .. n -> [Seq(A) -> Seq(A)]]
    BY <1>1
  <2> QED
    BY <1>1, <2>1 DEF StepsOn
<1>4. PICK f : IsCourse(f, Seq(A), <<>>, n, step)
  <2> HIDE DEF n, step
  <2> QED
    BY <1>3, CourseExists
<1>5. f \in [0 .. n -> Seq(A)] /\ f[0] = <<>> /\ \A k \in 1 .. n : f[k] = step[k][f[k - 1]]
  BY <1>4 DEF IsCourse
<1>6. ASSUME NEW k \in 1 .. n
      PROVE  f[k] = IF k \in S THEN Append(f[k - 1], s[k]) ELSE f[k - 1]
  <2>1. f[k - 1] \in Seq(A)
    <3>1. k - 1 \in 0 .. n
      BY <1>1
    <3> HIDE DEF n, step
    <3> QED
      BY <1>5, <3>1, Zenon
  <2>2. step[k][f[k - 1]] = IF k \in S THEN Append(f[k - 1], s[k]) ELSE f[k - 1]
    BY <2>1
  <2> HIDE DEF step
  <2> QED
    BY <1>5, <2>2
<1>7. f = next(f)
  <2> HIDE DEF n, step
  <2>1. f[0] = next(f)[0] /\ \A k \in 1 .. n : f[k] = next(f)[k]
    <3> HIDE DEF next
    <3> QED
      BY <1>5, <1>6, <1>12, Zenon
  <2>2. \A k \in 0 .. n : k = 0 \/ k \in 1 .. n
    BY <1>1
  <2>3. \A k \in 0 .. n : f[k] = next(f)[k]
    BY <2>1, <2>2, Zenon
  <2>4. DOMAIN f = 0 .. n /\ DOMAIN next(f) = 0 .. n /\ f = [k \in DOMAIN f |-> f[k]]
    BY <1>5, <1>12
  <2> QED
    BY <2>3, <2>4
<1>8. Kept(s, S) = next(Kept(s, S))
  BY <1>7 DEF Kept
<1>9. Kept(s, S)[0] = <<>>
      /\ \A k \in 1 .. n : Kept(s, S)[k] =
            IF k \in S THEN Append(Kept(s, S)[k - 1], s[k]) ELSE Kept(s, S)[k - 1]
  <2> HIDE DEF next
  <2> QED
    BY <1>8, <1>12
<1>10. \A k \in 0 .. n : Kept(s, S)[k] \in Seq(A)
  <2>1. ASSUME NEW k \in 1 .. n, Kept(s, S)[k - 1] \in Seq(A) PROVE Kept(s, S)[k] \in Seq(A)
    <3>1. Append(Kept(s, S)[k - 1], s[k]) \in Seq(A)
      BY <1>1, <2>1
    <3> QED
      BY <1>9, <2>1, <3>1
  <2>2. Kept(s, S)[0] \in Seq(A)
    BY <1>9
  <2> HIDE DEF n
  <2> QED
    BY <1>1, <2>1, <2>2, StaysIn
<1>11. Keep(s, S) = Kept(s, S)[n]
  BY <1>2 DEF Keep, Fold, Kept
<1> QED
  BY <1>9, <1>10, <1>11

\* There are n positions up to n.
LEMMA UpToCardinality ==
    ASSUME NEW n \in Nat
    PROVE  IsFiniteSet(1 .. n) /\ Cardinality(1 .. n) = n
<1>1. IsFiniteSet(1 .. n) /\ Cardinality(1 .. n) = IF 1 > n THEN 0 ELSE n - 1 + 1
  BY FS_Interval
<1> QED
  BY <1>1

\* A set of positions is finite.
LEMMA PositionsFinite ==
    ASSUME NEW n, NEW S, Positions(S, n)
    PROVE  IsFiniteSet(S) /\ Cardinality(S) \in Nat
<1>1. n \in Nat /\ S \subseteq 1 .. n
  BY DEF Positions
<1>2. IsFiniteSet(1 .. n)
  BY <1>1, UpToCardinality
<1>3. IsFiniteSet(S)
  BY <1>1, <1>2, FS_Subset
<1> QED
  BY <1>3, FS_CardinalityType

\* Sequences as functions.
LEMMA SequenceValues ==
    ASSUME NEW A, NEW s \in Seq(A)
    PROVE  Len(s) \in Nat /\ \A i \in 1 .. Len(s) : s[i] \in A
  OBVIOUS

\* A function over the first n positions is a sequence.
LEMMA SequenceOf ==
    ASSUME NEW A, NEW n \in Nat, NEW f, f = [i \in 1 .. n |-> f[i]], \A i \in 1 .. n : f[i] \in A
    PROVE  f \in Seq(A) /\ Len(f) = n
<1>1. f \in [1 .. n -> A]
  OBVIOUS
<1> QED
  BY <1>1

\* What the first m values of a sequence are.
LEMMA PrefixOf ==
    ASSUME NEW A, NEW s \in Seq(A), NEW m \in 0 .. Len(s)
    PROVE  /\ SubSeq(s, 1, m) \in Seq(A) /\ Len(SubSeq(s, 1, m)) = m
           /\ \A k \in 1 .. m : SubSeq(s, 1, m)[k] = s[k]
  OBVIOUS

\* What the values behind the first m are.
LEMMA SuffixOf ==
    ASSUME NEW A, NEW s \in Seq(A), NEW m \in 0 .. Len(s)
    PROVE  /\ SubSeq(s, m + 1, Len(s)) \in Seq(A) /\ Len(SubSeq(s, m + 1, Len(s))) = Len(s) - m
           /\ \A k \in 1 .. Len(s) - m : SubSeq(s, m + 1, Len(s))[k] = s[m + k]
<1> DEFINE n == Len(s)
           t == SubSeq(s, m + 1, n)
<1>1. n \in Nat /\ m \in Nat /\ m <= n
  OBVIOUS
<1>2. \A k \in m + 1 .. n : s[k] \in A
  BY <1>1
<1>3. m + 1 \in Int /\ n \in Int
  BY <1>1
<1> HIDE DEF n
<1>4. /\ t \in Seq(A) /\ Len(t) = (IF m + 1 <= n THEN n - (m + 1) + 1 ELSE 0)
      /\ \A k \in 1 .. n - (m + 1) + 1 : t[k] = s[(m + 1) + k - 1]
  BY <1>2, <1>3, SubSeqProperties
<1> HIDE DEF t
<1>5. Len(t) = n - m
  BY <1>1, <1>4
<1>6. ASSUME NEW k \in 1 .. n - m PROVE t[k] = s[m + k]
  <2>1. k \in 1 .. n - (m + 1) + 1 /\ (m + 1) + k - 1 = m + k
    BY <1>1
  <2> QED
    BY <1>4, <2>1
<1> QED
  BY <1>4, <1>5, <1>6 DEF t, n

\* What a concatenation holds.
LEMMA Joined ==
    ASSUME NEW A, NEW s \in Seq(A), NEW t \in Seq(A)
    PROVE  /\ s \o t \in Seq(A) /\ Len(s \o t) = Len(s) + Len(t)
           /\ \A k \in 1 .. Len(s) : (s \o t)[k] = s[k]
           /\ \A k \in 1 .. Len(t) : (s \o t)[Len(s) + k] = t[k]
  OBVIOUS

\* A concatenation comes apart where it was put together.
LEMMA Apart ==
    ASSUME NEW A, NEW s \in Seq(A), NEW t \in Seq(A)
    PROVE  /\ Len(s \o t) = Len(s) + Len(t)
           /\ SubSeq(s \o t, 1, Len(s)) = s
           /\ SubSeq(s \o t, Len(s) + 1, Len(s) + Len(t)) = t
<1> DEFINE both == s \o t
           m == Len(s)
           n == Len(t)
<1>1. /\ both \in Seq(A) /\ Len(both) = m + n /\ m \in Nat /\ n \in Nat
      /\ \A i \in 1 .. m : both[i] = s[i]
      /\ \A i \in 1 .. n : both[m + i] = t[i]
  OBVIOUS
<1>2. \A i \in 1 .. m + n : both[i] \in A
  BY <1>1
<1> HIDE DEF both
<1>3. SubSeq(both, 1, m) = s
  <2>1. \A i \in 1 .. m : both[i] \in A
    BY <1>1, <1>2
  <2>2. /\ SubSeq(both, 1, m) \in Seq(A)
        /\ Len(SubSeq(both, 1, m)) = m
        /\ \A i \in 1 .. m : SubSeq(both, 1, m)[i] = s[i]
    BY <1>1, <2>1, SubSeqProperties
  <2> QED
    BY <2>2, SeqEqual
<1>4. SubSeq(both, m + 1, m + n) = t
  <2>1. \A i \in m + 1 .. m + n : both[i] \in A
    BY <1>1, <1>2
  <2>2. /\ SubSeq(both, m + 1, m + n) \in Seq(A)
        /\ Len(SubSeq(both, m + 1, m + n)) = n
        /\ \A i \in 1 .. n : SubSeq(both, m + 1, m + n)[i] = t[i]
    BY <1>1, <2>1, SubSeqProperties
  <2> QED
    BY <2>2, SeqEqual
<1> QED
  BY <1>1, <1>3, <1>4 DEF both

\* Each member of S is counted once.
LEMMA RankOf ==
    ASSUME NEW n, NEW S, Positions(S, n)
    PROVE  /\ Cardinality(S) \in Nat
           /\ \A k \in S : Rank(S, k) \in 1 .. Cardinality(S)
           /\ \A i \in 1 .. Cardinality(S) : \E k \in S : Rank(S, k) = i
<1> n \in Nat /\ S \subseteq 1 .. n
  BY DEF Positions
<1>1. Rank(S, n) = Cardinality(S) /\ n \in 0 .. n
  BY RankDef
<1>2. Cardinality(S) \in Nat
  BY <1>1, RankDef
<1>3. ASSUME NEW k \in S PROVE Rank(S, k) \in 1 .. Cardinality(S)
  <2>1. k \in 1 .. n /\ k - 1 \in 0 .. n /\ k \in 0 .. n /\ n \in k .. n
    OBVIOUS
  <2>2. Rank(S, k) = Rank(S, k - 1) + 1 /\ Rank(S, k - 1) \in Nat
    BY <2>1, RankDef
  <2>3. Rank(S, k) <= Rank(S, n)
    BY <2>1, RankGrows
  <2> QED
    BY <1>1, <1>2, <2>2, <2>3
<1>4. ASSUME NEW i \in 1 .. Cardinality(S) PROVE \E k \in S : Rank(S, k) = i
  <2> DEFINE Enough == {k \in 0 .. n : Rank(S, k) >= i}
  <2>1. n \in Enough
    BY <1>1, <1>2
  <2>2. PICK k \in Enough : \A j \in Enough : k <= j
    <3>1. Enough \subseteq Nat /\ Enough # {}
      BY <2>1
    <3> HIDE DEF Enough
    <3> QED
      BY <3>1, Least
  <2>3. k \in 0 .. n /\ Rank(S, k) >= i
    BY <2>2
  <2>4. k # 0
    BY <1>2, <2>3, RankDef
  <2>5. k \in 1 .. n /\ k - 1 \in 0 .. n
    BY <2>3, <2>4
  <2>6. Rank(S, k - 1) < i
    <3>1. k - 1 \notin Enough
      BY <2>2, <2>5
    <3>2. Rank(S, k - 1) \in Nat
      BY <2>5, RankDef
    <3> QED
      BY <1>2, <2>5, <3>1, <3>2
  <2>7. Rank(S, k) = IF k \in S THEN Rank(S, k - 1) + 1 ELSE Rank(S, k - 1)
    BY <2>5, RankDef
  <2>8. Rank(S, k - 1) \in Nat
    BY <2>5, RankDef
  <2> QED
    BY <1>2, <2>3, <2>6, <2>7, <2>8
<1> QED
  BY <1>2, <1>3, <1>4

\* Keep lists the values at the positions in S, from left to right.
LEMMA KeepLists ==
    ASSUME NEW A, NEW s \in Seq(A), NEW S, Positions(S, Len(s))
    PROVE  /\ Keep(s, S) \in Seq(A)
           /\ Len(Keep(s, S)) = Cardinality(S)
           /\ \A k \in S : Keep(s, S)[Rank(S, k)] = s[k]
<1> DEFINE n == Len(s)
           Good(m) == /\ Len(Kept(s, S)[m]) = Rank(S, m)
                      /\ \A k \in S : k <= m => Kept(s, S)[m][Rank(S, k)] = s[k]
           T == {m \in 0 .. n : Good(m)}
<1>1. n \in Nat /\ Positions(S, n) /\ \A k \in S : k \in 1 .. n
  BY DEF Positions
<1>2. 0 \in T
  <2>1. Kept(s, S)[0] = <<>> /\ Rank(S, 0) = 0
    BY <1>1, KeptDef, RankDef
  <2>2. Len(<<>>) = 0 /\ \A k \in S : ~(k <= 0)
    BY <1>1
  <2> QED
    BY <1>1, <2>1, <2>2
<1>3. ASSUME NEW m \in 0 .. n - 1, m \in T PROVE m + 1 \in T
  <2> DEFINE old == Kept(s, S)[m]
             new == Kept(s, S)[m + 1]
  <2>1. m + 1 \in 1 .. n /\ (m + 1) - 1 = m /\ m \in 0 .. n
    BY <1>1
  <2>2. old \in Seq(A) /\ s[m + 1] \in A
    BY <2>1, KeptDef
  <2>3. new = IF m + 1 \in S THEN Append(old, s[m + 1]) ELSE old
    BY <2>1, KeptDef
  <2>4. Rank(S, m + 1) = IF m + 1 \in S THEN Rank(S, m) + 1 ELSE Rank(S, m)
    BY <1>1, <2>1, RankDef
  <2>5. Len(old) = Rank(S, m) /\ \A k \in S : k <= m => old[Rank(S, k)] = s[k]
    BY <1>3
  <2>6. Rank(S, m) \in Nat
    BY <1>1, <2>1, RankDef
  <2>7. \A k \in S : k <= m => Rank(S, k) \in 1 .. Rank(S, m)
    <3>1. ASSUME NEW k \in S, k <= m PROVE Rank(S, k) \in 1 .. Rank(S, m)
      <4>1. k \in 1 .. n /\ k \in 0 .. n /\ k - 1 \in 0 .. n /\ m \in k .. n
        BY <1>1, <2>1, <3>1
      <4>2. Rank(S, k) <= Rank(S, m)
        BY <1>1, <4>1, RankGrows
      <4>3. Rank(S, k) = Rank(S, k - 1) + 1 /\ Rank(S, k - 1) \in Nat
        BY <1>1, <4>1, RankDef
      <4> QED
        BY <2>6, <4>2, <4>3
    <3> QED
      BY <3>1
  <2> HIDE DEF old, new
  <2>8. Len(new) = Rank(S, m + 1)
    BY <2>2, <2>3, <2>4, <2>5
  <2>9. ASSUME NEW k \in S, k <= m + 1 PROVE new[Rank(S, k)] = s[k]
    <3>1. CASE k = m + 1
      BY <2>2, <2>3, <2>4, <2>5, <3>1
    <3>2. CASE k # m + 1
      <4>1. k <= m
        BY <1>1, <2>1, <2>9, <3>2
      <4>2. old[Rank(S, k)] = s[k] /\ Rank(S, k) \in 1 .. Len(old)
        BY <2>5, <2>7, <4>1
      <4> QED
        BY <2>2, <2>3, <4>2
    <3> QED
      BY <3>1, <3>2
  <2> QED
    BY <2>1, <2>8, <2>9 DEF new
<1>4. 0 .. n \subseteq T
  <2> HIDE DEF T, n
  <2> QED
    BY <1>1, <1>2, <1>3, UpTo
<1>5. n \in 0 .. n
  BY <1>1
<1>6. Good(n)
  BY <1>4, <1>5
<1>7. Keep(s, S) = Kept(s, S)[n] /\ Kept(s, S)[n] \in Seq(A) /\ Rank(S, n) = Cardinality(S)
  BY <1>1, <1>5, KeptDef, RankDef
<1>8. \A k \in S : k <= n
  BY <1>1
<1> QED
  BY <1>6, <1>7, <1>8, Zenon

-----------------------------------------------------------------------------
\* What the proofs need of a task.
Parameters(task) ==
    /\ task.modulus \in 2 .. 7 /\ task.residue \in 0 .. task.modulus - 1
    /\ task.threshold \in -20 .. 20

\* What Task::generate can draw is within the ranges of the parameters.
LEMMA TaskParameters ==
    ASSUME NEW task \in Task
    PROVE  /\ Parameters(task)
           /\ task.multiplier \in -3 .. 3 /\ task.offset \in -9 .. 9
           /\ task.width \in 1 .. 6 /\ task.reverse \in BOOLEAN /\ task.kind \in Families
  BY DEF Task, Parameters

\* Its threshold is an integer.
LEMMA TaskThreshold ==
    ASSUME NEW task \in Task
    PROVE  task.threshold \in Int
<1>1. task.threshold \in -20 .. 20
  BY DEF Task
<1>2. \A x : x \in -20 .. 20 => x \in Int
  OBVIOUS
<1> QED
  BY <1>1, <1>2, Zenon

\* Task::prompt, Composition::prompt: the remainder the prompt spells out, for
\* JavaScript's % and a negative number, is rem_euclid.
LEMMA PromptResidueIsRemainder ==
    ASSUME NEW task, Parameters(task), NEW x \in Int
    PROVE  PromptResidue(task, x) = x % task.modulus
<1> DEFINE m == task.modulus
<1>1. m \in 2 .. 7
  BY DEF Parameters
<1>2. ASSUME NEW y \in Int PROVE y % m \in 0 .. m - 1
  BY <1>1
<1>3. CASE x >= 0
  <2>1. x % m \in 0 .. m - 1
    BY <1>2
  <2>2. JsRemainder(x, m) = x % m
    BY <1>3 DEF JsRemainder
  <2>3. ((x % m) + m) % m = x % m
    BY <1>1, <2>1
  <2>4. JsRemainder((x % m) + m, m) = ((x % m) + m) % m
    BY <1>1, <2>1 DEF JsRemainder
  <2> QED
    BY <2>2, <2>3, <2>4 DEF PromptResidue
<1>4. CASE ~(x >= 0)
  <2>1. (-x) % m \in 0 .. m - 1
    BY <1>2
  <2>2. JsRemainder(x, m) = -((-x) % m)
    BY <1>4 DEF JsRemainder
  <2>3. (-((-x) % m) + m) % m = x % m
    <3>1. m = 2 \/ m = 3 \/ m = 4 \/ m = 5 \/ m = 6 \/ m = 7
      BY <1>1
    <3> HIDE DEF m
    <3>2. CASE m = 2 BY <3>2
    <3>3. CASE m = 3 BY <3>3
    <3>4. CASE m = 4 BY <3>4
    <3>5. CASE m = 5 BY <3>5
    <3>6. CASE m = 6 BY <3>6
    <3>7. CASE m = 7 BY <3>7
    <3> QED
      BY <3>1, <3>2, <3>3, <3>4, <3>5, <3>6, <3>7
  <2>4. JsRemainder(-((-x) % m) + m, m) = (-((-x) % m) + m) % m
    BY <1>1, <2>1 DEF JsRemainder
  <2> QED
    BY <2>2, <2>3, <2>4 DEF PromptResidue
<1> QED
  BY <1>3, <1>4

\* A value is selected by the prompt exactly when the host's condition matches it.
LEMMA SelectedIsMatches ==
    ASSUME NEW task, Parameters(task), NEW x \in Int
    PROVE  Selected(task, x) <=> Matches(task, x)
  BY PromptResidueIsRemainder DEF Selected, Matches

\* An integer is transformed to an integer.
LEMMA TransformIsInt ==
    ASSUME NEW task \in Task, NEW x \in Int
    PROVE  Transform(task, x) \in Int
  BY TaskParameters DEF Transform

\* Every value is transformed where it stands.
LEMMA TransformAllDef ==
    ASSUME NEW task \in Task, NEW s \in Seq(Int)
    PROVE  /\ TransformAll(task, s) \in Seq(Int)
           /\ Len(TransformAll(task, s)) = Len(s)
           /\ \A k \in 1 .. Len(s) : TransformAll(task, s)[k] = Transform(task, s[k])
<1>1. \A k \in 1 .. Len(s) : s[k] \in Int
  OBVIOUS
<1>2. \A k \in 1 .. Len(s) : Transform(task, s[k]) \in Int
  BY <1>1, TransformIsInt
<1> QED
  BY <1>2 DEF TransformAll

\* Transforming what is kept lists the transformed values.
LEMMA TransformedLists ==
    ASSUME NEW task \in Task, NEW s \in Seq(Int), NEW S, Positions(S, Len(s))
    PROVE  LET result == TransformAll(task, Keep(s, S))
           IN  /\ result \in Seq(Int)
               /\ Len(result) = Cardinality(S)
               /\ \A k \in S : result[Rank(S, k)] = Transform(task, s[k])
<1> DEFINE kept == Keep(s, S)
<1>1. kept \in Seq(Int) /\ Len(kept) = Cardinality(S) /\ \A k \in S : kept[Rank(S, k)] = s[k]
  BY KeepLists
<1>2. \A k \in S : Rank(S, k) \in 1 .. Len(kept)
  BY <1>1, RankOf
<1> HIDE DEF kept
<1>3. /\ TransformAll(task, kept) \in Seq(Int)
      /\ Len(TransformAll(task, kept)) = Len(kept)
      /\ \A i \in 1 .. Len(kept) : TransformAll(task, kept)[i] = Transform(task, kept[i])
  BY <1>1, TransformAllDef
<1> QED
  BY <1>1, <1>2, <1>3 DEF kept

-----------------------------------------------------------------------------
\* Task::evaluate gives what Task::prompt describes, family by family.
LEMMA UniqueOccurrenceIsAnswer ==
    ASSUME NEW task \in Task, NEW input \in Seq(Int), task.kind = "unique_occurrence"
    PROVE  IsAnswer(task, input, UniqueOccurrence(task, input))
<1> DEFINE n == Len(input)
           others(k) == IF task.reverse THEN k + 1 .. n ELSE 1 .. k - 1
           first == {k \in 1 .. n : \A j \in others(k) : input[j] # input[k]}
           described == {k \in 1 .. n : \A j \in 1 .. n :
                            input[j] = input[k] => IF task.reverse THEN j <= k ELSE j >= k}
           result == TransformAll(task, Keep(input, first))
<1>1. n \in Nat
  OBVIOUS
<1>2. first = described
  <2>1. ASSUME NEW k \in 1 .. n
        PROVE  (\A j \in others(k) : input[j] # input[k])
               <=> (\A j \in 1 .. n :
                        input[j] = input[k] => IF task.reverse THEN j <= k ELSE j >= k)
    <3>1. CASE task.reverse
      <4>1. others(k) = k + 1 .. n
        BY <3>1
      <4>2. \A j : j \in k + 1 .. n <=> j \in 1 .. n /\ ~(j <= k)
        BY <1>1
      <4> HIDE DEF others, n
      <4> QED
        BY <3>1, <4>1, <4>2, Zenon
    <3>2. CASE ~task.reverse
      <4>1. others(k) = 1 .. k - 1
        BY <3>2
      <4>2. \A j : j \in 1 .. k - 1 <=> j \in 1 .. n /\ ~(j >= k)
        BY <1>1
      <4> HIDE DEF others, n
      <4> QED
        BY <3>2, <4>1, <4>2, Zenon
    <3> QED
      BY <3>1, <3>2
  <2> HIDE DEF others
  <2> QED
    BY <2>1, Zenon
<1>3. UniqueOccurrence(task, input) = result
  BY DEF UniqueOccurrence
<1>4. Positions(first, n)
  BY <1>1 DEF Positions
<1> HIDE DEF first
<1>5. /\ Len(result) = Cardinality(first)
      /\ \A k \in first : result[Rank(first, k)] = Transform(task, input[k])
  BY <1>4, TransformedLists
<1> HIDE DEF result, described
<1>6. Lists(result, described, LAMBDA k : Transform(task, input[k]))
  BY <1>2, <1>5 DEF Lists, Rank
<1> QED
  BY <1>3, <1>6 DEF IsAnswer, described

\* stable_partition: the two groups are listed one behind the other.
LEMMA StablePartitionIsAnswer ==
    ASSUME NEW task \in Task, NEW input \in Seq(Int), task.kind = "stable_partition"
    PROVE  IsAnswer(task, input, StablePartition(task, input))
<1> DEFINE n == Len(input)
           A == {k \in 1 .. n : Matches(task, input[k]) # task.reverse}
           B == {k \in 1 .. n : Matches(task, input[k]) = task.reverse}
           a == TransformAll(task, Keep(input, A))
           b == TransformAll(task, Keep(input, B))
           chosen == {k \in 1 .. n : Selected(task, input[k])}
           rest == (1 .. n) \ chosen
           groups == IF task.reverse THEN <<rest, chosen>> ELSE <<chosen, rest>>
           result == a \o b
<1>1. n \in Nat /\ \A k \in 1 .. n : input[k] \in Int
  OBVIOUS
<1>2. StablePartition(task, input) = result
  BY DEF StablePartition, Filter
<1>3. task.reverse \in BOOLEAN /\ \A k \in 1 .. n : Matches(task, input[k]) \in BOOLEAN
  BY TaskParameters DEF Matches
<1>4. A = groups[1] /\ B = groups[2]
  <2>1. \A k \in 1 .. n : Selected(task, input[k]) <=> Matches(task, input[k])
    BY <1>1, TaskParameters, SelectedIsMatches
  <2>2. CASE task.reverse
    <3>1. groups[1] = rest /\ groups[2] = chosen
      BY <2>2
    <3>2. A = rest /\ B = chosen
      BY <1>3, <2>1, <2>2, Zenon
    <3> QED
      BY <3>1, <3>2
  <2>3. CASE ~task.reverse
    <3>1. groups[1] = chosen /\ groups[2] = rest
      BY <2>3
    <3>2. A = chosen /\ B = rest
      BY <1>3, <2>1, <2>3, Zenon
    <3> QED
      BY <3>1, <3>2
  <2> QED
    BY <1>3, <2>2, <2>3
<1>5. Positions(A, n) /\ Positions(B, n)
  BY <1>1 DEF Positions
<1>6. A \union B = 1 .. n /\ A \intersect B = {}
  BY <1>3, Zenon
<1> HIDE DEF A, B
<1>7. /\ a \in Seq(Int) /\ Len(a) = Cardinality(A)
      /\ \A k \in A : a[Rank(A, k)] = Transform(task, input[k])
  BY <1>5, TransformedLists
<1>8. /\ b \in Seq(Int) /\ Len(b) = Cardinality(B)
      /\ \A k \in B : b[Rank(B, k)] = Transform(task, input[k])
  BY <1>5, TransformedLists
<1>9. Cardinality(A) + Cardinality(B) = n
  <2>1. IsFiniteSet(A) /\ IsFiniteSet(B)
    BY <1>5, PositionsFinite
  <2>2. Cardinality(A \intersect B) = 0
    BY <1>6, FS_EmptySet
  <2>3. Cardinality(1 .. n) = n
    BY <1>1, UpToCardinality
  <2>4. Cardinality(A) \in Nat /\ Cardinality(B) \in Nat
    BY <2>1, FS_CardinalityType
  <2>5. Cardinality(1 .. n) = Cardinality(A) + Cardinality(B) - Cardinality(A \intersect B)
    BY <1>6, <2>1, FS_Union
  <2> QED
    BY <2>2, <2>3, <2>4, <2>5
<1> HIDE DEF a, b, n
<1>10. /\ Len(result) = n
       /\ SubSeq(result, 1, Len(a)) = a
       /\ SubSeq(result, Len(a) + 1, n) = b
  <2>1. a \in Seq(Int) /\ b \in Seq(Int)
    BY <1>7, <1>8
  <2>2. /\ Len(result) = Len(a) + Len(b)
        /\ SubSeq(result, 1, Len(a)) = a
        /\ SubSeq(result, Len(a) + 1, Len(a) + Len(b)) = b
    BY <2>1, Apart
  <2>3. Len(a) + Len(b) = n
    BY <1>7, <1>8, <1>9
  <2> QED
    BY <2>2, <2>3
<1>11. /\ Lists(a, A, LAMBDA k : Transform(task, input[k]))
       /\ Lists(b, B, LAMBDA k : Transform(task, input[k]))
  BY <1>7, <1>8 DEF Lists, Rank
<1> HIDE DEF result, groups
<1>12. LET size == Cardinality(groups[1])
       IN  /\ Len(result) = n
           /\ Lists(SubSeq(result, 1, size), groups[1], LAMBDA k : Transform(task, input[k]))
           /\ Lists(SubSeq(result, size + 1, n), groups[2], LAMBDA k : Transform(task, input[k]))
  BY <1>4, <1>7, <1>10, <1>11
<1> HIDE DEF chosen
<1> QED
  BY <1>2, <1>12 DEF IsAnswer, groups, chosen, n

-----------------------------------------------------------------------------
\* When every position is listed, each has its own index as rank.
LEMMA RankOfAll ==
    ASSUME NEW n \in Nat, NEW k \in 0 .. n
    PROVE  Rank(1 .. n, k) = k
<1>1. {j \in 1 .. n : j <= k} = 1 .. k
  OBVIOUS
<1>2. Cardinality(1 .. k) = k
  BY UpToCardinality
<1> QED
  BY <1>1, <1>2 DEF Rank

\* What follows a position adds nothing when it is zero.
LEMMA ZeroTail ==
    ASSUME NEW s \in Seq(Int), NEW m \in 0 .. Len(s), \A k \in m + 1 .. Len(s) : s[k] = 0
    PROVE  Total(s) = Sums(s)[m]
<1> DEFINE n == Len(s)
           T == {k \in 0 .. n : k >= m => Sums(s)[k] = Sums(s)[m]}
<1>1. n \in Nat
  OBVIOUS
<1>2. 0 \in T
  BY <1>1
<1>3. ASSUME NEW k \in 0 .. n - 1, k \in T PROVE k + 1 \in T
  <2>1. k + 1 \in 1 .. n /\ (k + 1) - 1 = k /\ k \in 0 .. n
    BY <1>1
  <2>2. Sums(s)[k + 1] = Sums(s)[k] + s[k + 1] /\ Sums(s)[k] \in Int
    BY <2>1, SumsDef
  <2>3. CASE k >= m
    <3>1. s[k + 1] = 0
      BY <2>1, <2>3
    <3> QED
      BY <1>3, <2>1, <2>2, <2>3, <3>1
  <2>4. CASE ~(k >= m)
    <3>1. k + 1 >= m => k + 1 = m
      BY <2>1, <2>4
    <3> QED
      BY <2>1, <3>1
  <2> QED
    BY <2>3, <2>4
<1>4. 0 .. n \subseteq T
  <2> HIDE DEF T, n
  <2> QED
    BY <1>1, <1>2, <1>3, UpTo
<1>5. n \in 0 .. n /\ n >= m
  BY <1>1
<1>6. Sums(s)[n] = Sums(s)[m]
  BY <1>4, <1>5
<1> QED
  BY <1>6, SumsDef

\* What comes before a position adds nothing when it is zero.
LEMMA ZeroHead ==
    ASSUME NEW s \in Seq(Int), NEW m \in 0 .. Len(s), \A k \in 1 .. m : s[k] = 0
    PROVE  Sums(s)[m] = 0
<1> DEFINE T == {k \in 0 .. m : Sums(s)[k] = 0}
<1>1. 0 \in T
  BY SumsDef
<1>2. ASSUME NEW k \in 0 .. m - 1, k \in T PROVE k + 1 \in T
  <2>1. k + 1 \in 1 .. Len(s) /\ (k + 1) - 1 = k /\ k + 1 \in 1 .. m
    OBVIOUS
  <2>2. Sums(s)[k + 1] = Sums(s)[k] + s[k + 1] /\ s[k + 1] = 0
    BY <2>1, SumsDef
  <2> QED
    BY <1>2, <2>1, <2>2
<1>3. m \in Nat
  OBVIOUS
<1>4. 0 .. m \subseteq T
  <2> HIDE DEF T
  <2> QED
    BY <1>1, <1>2, <1>3, UpTo
<1>5. m \in 0 .. m
  BY <1>3
<1> QED
  BY <1>4, <1>5

\* A window of a sequence and the sequence with zeros outside of it.
LEMMA WindowTotal ==
    ASSUME NEW s \in Seq(Int), NEW a \in 1 .. Len(s), NEW b \in a .. Len(s)
    PROVE  Total(SubSeq(s, a, b)) = Total([k \in 1 .. Len(s) |-> IF k \in a .. b THEN s[k] ELSE 0])
<1> DEFINE n == Len(s)
           w == b - a + 1
           t == [k \in 1 .. n |-> IF k \in a .. b THEN s[k] ELSE 0]
           u == SubSeq(s, a, b)
           T == {i \in 0 .. w : Sums(t)[a - 1 + i] = Sums(u)[i]}
<1>1. n \in Nat /\ w \in Nat /\ \A k \in 1 .. n : s[k] \in Int
  OBVIOUS
<1>2. t \in Seq(Int) /\ Len(t) = n
  BY <1>1
<1>3. \A i \in 1 .. w : t[a - 1 + i] = s[a - 1 + i]
  BY <1>1
<1>4. (\A k \in 1 .. a - 1 : t[k] = 0) /\ (\A k \in b + 1 .. n : t[k] = 0)
  BY <1>1
<1> HIDE DEF t
<1>5. u \in Seq(Int) /\ Len(u) = w /\ \A i \in 1 .. w : u[i] = s[a - 1 + i]
  OBVIOUS
<1> HIDE DEF u
<1>6. 0 \in T
  <2>1. a - 1 \in 0 .. Len(t) /\ a - 1 + 0 = a - 1
    BY <1>1, <1>2
  <2>2. Sums(t)[a - 1] = 0
    BY <1>2, <1>4, <2>1, ZeroHead
  <2>3. Sums(u)[0] = 0
    BY <1>5, SumsDef
  <2> QED
    BY <1>1, <2>1, <2>2, <2>3
<1>7. ASSUME NEW i \in 0 .. w - 1, i \in T PROVE i + 1 \in T
  <2>1. /\ i + 1 \in 1 .. w /\ i + 1 \in 0 .. w /\ (i + 1) - 1 = i
        /\ a - 1 + (i + 1) \in 1 .. n /\ (a - 1 + (i + 1)) - 1 = a - 1 + i
    BY <1>1
  <2>2. Sums(t)[a - 1 + (i + 1)] = Sums(t)[a - 1 + i] + t[a - 1 + (i + 1)]
    BY <1>2, <2>1, SumsDef
  <2>3. Sums(u)[i + 1] = Sums(u)[i] + u[i + 1]
    BY <1>5, <2>1, SumsDef
  <2>4. t[a - 1 + (i + 1)] = u[i + 1]
    BY <1>3, <1>5, <2>1
  <2> QED
    BY <1>7, <2>1, <2>2, <2>3, <2>4
<1>8. 0 .. w \subseteq T
  <2> HIDE DEF T, w
  <2> QED
    BY <1>1, <1>6, <1>7, UpTo
<1>9. w \in 0 .. w /\ a - 1 + w = b
  BY <1>1
<1>10. Sums(t)[b] = Sums(u)[w]
  BY <1>8, <1>9
<1>11. Total(t) = Sums(t)[b]
  <2>1. b \in 0 .. Len(t) /\ \A k \in b + 1 .. Len(t) : t[k] = 0
    BY <1>1, <1>2, <1>4
  <2> QED
    BY <1>2, <2>1, ZeroTail
<1>12. Total(u) = Sums(u)[w]
  BY <1>5, SumsDef
<1> QED
  BY <1>10, <1>11, <1>12 DEF t, u

\* window_sum: the sums listed are those of the windows that reach the threshold.
LEMMA WindowSumIsAnswer ==
    ASSUME NEW task \in Task, NEW input \in Seq(Int), task.kind = "window_sum"
    PROVE  IsAnswer(task, input, WindowSum(task, input))
<1> DEFINE n == Len(input)
           w == task.width
           sums == IF n < w THEN <<>>
                   ELSE [k \in 1 .. n - w + 1 |-> Total(SubSeq(input, k, k + w - 1))]
           window(k) == SumOver(input, k .. k + w - 1, LAMBDA j : input[j])
           S == {k \in 1 .. Len(sums) : sums[k] >= task.threshold}
           described == {k \in 1 .. n - w + 1 : window(k) >= task.threshold}
           result == Keep(sums, S)
<1>1. n \in Nat /\ w \in 1 .. 6 /\ \A k \in 1 .. n : input[k] \in Int
  BY TaskParameters
<1>2. WindowSum(task, input) = result
  BY DEF WindowSum, Filter
<1>3. /\ sums \in Seq(Int)
      /\ 1 .. Len(sums) = 1 .. n - w + 1
      /\ \A k \in 1 .. n - w + 1 : sums[k] = window(k)
  <2>1. CASE n < w
    <3>1. sums = <<>> /\ 1 .. n - w + 1 = {} /\ 1 .. 0 = {}
      <4>1. sums = <<>>
        BY <2>1
      <4> HIDE DEF n, w
      <4>2. 1 .. n - w + 1 = {} /\ 1 .. 0 = {}
        BY <1>1, <2>1
      <4> QED
        BY <4>1, <4>2
    <3>2. Len(<<>>) = 0 /\ <<>> \in Seq(Int)
      OBVIOUS
    <3> HIDE DEF sums, n, w, window
    <3> QED
      BY <3>1, <3>2
  <2>2. CASE ~(n < w)
    <3>1. sums = [k \in 1 .. n - w + 1 |-> Total(SubSeq(input, k, k + w - 1))]
          /\ n - w + 1 \in Nat
      BY <1>1, <2>2
    <3>2. ASSUME NEW k \in 1 .. n - w + 1
          PROVE  /\ Total(SubSeq(input, k, k + w - 1)) \in Int
                 /\ Total(SubSeq(input, k, k + w - 1)) = window(k)
      <4>1. k \in 1 .. n /\ k + w - 1 \in k .. n
        <5> HIDE DEF n, w
        <5> QED
          BY <1>1, <2>2
      <4>2. SubSeq(input, k, k + w - 1) \in Seq(Int)
        BY <1>1, <4>1, SubSeqProperties
      <4>3. Total(SubSeq(input, k, k + w - 1)) = window(k)
        BY <4>1, WindowTotal DEF SumOver
      <4> HIDE DEF window
      <4> QED
        BY <4>2, <4>3, TotalIsInt
    <3> HIDE DEF sums, window
    <3>3. sums \in [1 .. n - w + 1 -> Int]
      BY <3>1, <3>2
    <3>4. sums \in Seq(Int) /\ Len(sums) = n - w + 1
      BY <3>1, <3>3
    <3>5. \A k \in 1 .. n - w + 1 : sums[k] = window(k)
      BY <3>1, <3>2
    <3> QED
      BY <3>4, <3>5
  <2> QED
    BY <1>1, <2>1, <2>2
<1> HIDE DEF sums, window
<1>4. S = described
  BY <1>3, Zenon
<1>5. Positions(S, Len(sums))
  BY <1>3 DEF Positions
<1>6. \A k \in S : sums[k] = window(k)
  BY <1>3
<1> HIDE DEF S
<1>7. Len(result) = Cardinality(S) /\ \A k \in S : result[Rank(S, k)] = sums[k]
  BY <1>3, <1>5, KeepLists
<1> HIDE DEF described, result
<1>8. Lists(result, described, LAMBDA k : window(k))
  BY <1>4, <1>6, <1>7 DEF Lists, Rank
<1> QED
  BY <1>2, <1>8 DEF IsAnswer, described, window

\* The positions one further to the right have the same ranks.
LEMMA RankShift ==
    ASSUME NEW n, NEW S, NEW T, Positions(S, n), Positions(T, n + 1), 1 \notin T,
           \A k \in 1 .. n : k \in S <=> k + 1 \in T
    PROVE  /\ Cardinality(S) = Cardinality(T)
           /\ \A k \in 0 .. n : Rank(T, k + 1) = Rank(S, k)
<1> DEFINE Good == {k \in 0 .. n : Rank(T, k + 1) = Rank(S, k)}
<1>1. n \in Nat
  BY DEF Positions
<1>2. 0 \in Good
  <2>1. 1 \in 1 .. n + 1 /\ 1 - 1 = 0 /\ 0 + 1 = 1
    BY <1>1
  <2>2. Rank(T, 1) = Rank(T, 0)
    BY <2>1, RankDef
  <2>3. Rank(T, 0) = 0 /\ Rank(S, 0) = 0
    BY RankDef
  <2> QED
    BY <1>1, <2>1, <2>2, <2>3
<1>3. ASSUME NEW k \in 0 .. n - 1, k \in Good PROVE k + 1 \in Good
  <2>1. k + 1 \in 1 .. n /\ (k + 1) - 1 = k /\ (k + 1) + 1 \in 1 .. n + 1 /\ (k + 1) + 1 - 1 = k + 1
    BY <1>1
  <2>2. Rank(S, k + 1) = IF k + 1 \in S THEN Rank(S, k) + 1 ELSE Rank(S, k)
    BY <2>1, RankDef
  <2>3. Rank(T, (k + 1) + 1) =
            IF (k + 1) + 1 \in T THEN Rank(T, k + 1) + 1 ELSE Rank(T, k + 1)
    BY <2>1, RankDef
  <2> QED
    BY <1>3, <2>1, <2>2, <2>3
<1>4. 0 .. n \subseteq Good
  <2> HIDE DEF Good
  <2> QED
    BY <1>1, <1>2, <1>3, UpTo
<1>5. n \in 0 .. n
  BY <1>1
<1>6. Rank(T, n + 1) = Rank(S, n)
  BY <1>4, <1>5
<1>7. Rank(T, n + 1) = Cardinality(T) /\ Rank(S, n) = Cardinality(S)
  BY RankDef
<1> QED
  BY <1>4, <1>6, <1>7

\* adjacent_difference: the differences in the range are listed at the later position.
LEMMA AdjacentDifferenceIsAnswer ==
    ASSUME NEW task \in Task, NEW input \in Seq(Int), task.kind = "adjacent_difference"
    PROVE  IsAnswer(task, input, AdjacentDifference(task, input))
<1> DEFINE n == Len(input)
           range == -Limit(task) .. Limit(task)
           d == IF input = <<>> THEN <<>> ELSE [k \in 1 .. n - 1 |-> input[k + 1] - input[k]]
           S == {k \in 1 .. Len(d) : d[k] \in range}
           difference(k) == input[k] - input[k - 1]
           described == {k \in 2 .. n : /\ difference(k) <= 3 * task.width
                                        /\ difference(k) >= -3 * task.width}
           result == TransformAll(task, Keep(d, S))
<1>1. n \in Nat /\ task.width \in 1 .. 6 /\ \A k \in 1 .. n : input[k] \in Int
  BY TaskParameters
<1>2. AdjacentDifference(task, input) = result
  BY DEF AdjacentDifference, DifferencesIn, Filter
<1>3. CASE input = <<>>
  <2>1. d = <<>> /\ n = 0
    BY <1>3
  <2> HIDE DEF d, n
  <2>2. S = {} /\ described = {}
    BY <2>1
  <2>3. d \in Seq(Int) /\ Positions(S, Len(d))
    BY <2>1, <2>2 DEF Positions
  <2> HIDE DEF S, described
  <2>4. Len(result) = Cardinality(S)
    BY <2>3, TransformedLists
  <2>5. Lists(result, described, LAMBDA k : Transform(task, difference(k)))
    BY <2>2, <2>4 DEF Lists
  <2> HIDE DEF result
  <2> QED
    BY <1>2, <2>5 DEF IsAnswer, described, n
<1>4. CASE input # <<>>
  <2>1. d = [k \in 1 .. n - 1 |-> input[k + 1] - input[k]] /\ n - 1 \in Nat
    BY <1>1, <1>4
  <2> HIDE DEF d
  <2>2. ASSUME NEW k \in 1 .. n - 1
        PROVE  /\ d[k] = difference(k + 1) /\ d[k] \in Int
               /\ d[k] \in range <=> /\ difference(k + 1) <= 3 * task.width
                                     /\ difference(k + 1) >= -3 * task.width
    <3>1. k \in 1 .. n /\ k + 1 \in 1 .. n /\ (k + 1) - 1 = k
      BY <1>1
    <3>2. input[k] \in Int /\ input[k + 1] \in Int
      BY <1>1, <3>1
    <3>3. d[k] = input[k + 1] - input[k]
      BY <2>1
    <3>4. -Limit(task) = -3 * task.width /\ Limit(task) = 3 * task.width
      BY <1>1 DEF Limit
    <3> QED
      BY <1>1, <3>1, <3>2, <3>3, <3>4
  <2>3. d \in Seq(Int) /\ Len(d) = n - 1
    <3>1. d \in [1 .. n - 1 -> Int]
      BY <2>1, <2>2
    <3> QED
      BY <2>1, <3>1
  <2>4. Positions(S, n - 1) /\ Positions(described, (n - 1) + 1) /\ 1 \notin described
    BY <1>1, <2>1, <2>3 DEF Positions
  <2>5. \A k \in 1 .. n - 1 : k \in S <=> k + 1 \in described
    BY <1>1, <2>2, <2>3
  <2>6. \A k \in described : k - 1 \in S /\ k - 1 \in 0 .. n - 1 /\ (k - 1) + 1 = k
    <3>1. \A k \in described : k - 1 \in 1 .. n - 1 /\ (k - 1) + 1 = k
      BY <1>1
    <3> HIDE DEF S, described
    <3> QED
      BY <1>1, <2>5, <3>1
  <2>7. \A k \in S : d[k] = difference(k + 1)
    BY <2>2, <2>3
  <2> HIDE DEF S, described
  <2>8. Cardinality(S) = Cardinality(described)
        /\ \A k \in 0 .. n - 1 : Rank(described, k + 1) = Rank(S, k)
    <3> DEFINE m == n - 1
    <3>1. Positions(S, m) /\ Positions(described, m + 1) /\ 1 \notin described
      BY <2>4
    <3>2. \A k \in 1 .. m : k \in S <=> k + 1 \in described
      BY <2>5
    <3> HIDE DEF m
    <3>3. Cardinality(S) = Cardinality(described)
          /\ \A k \in 0 .. m : Rank(described, k + 1) = Rank(S, k)
      BY <3>1, <3>2, RankShift
    <3> QED
      BY <3>3 DEF m
  <2>9. /\ Len(result) = Cardinality(S)
        /\ \A k \in S : result[Rank(S, k)] = Transform(task, d[k])
    BY <2>3, <2>4, TransformedLists
  <2> HIDE DEF result, difference
  <2>10. ASSUME NEW k \in described
         PROVE  result[Rank(described, k)] = Transform(task, difference(k))
    <3>1. Rank(described, k) = Rank(S, k - 1)
      BY <2>6, <2>8
    <3>2. result[Rank(S, k - 1)] = Transform(task, d[k - 1]) /\ d[k - 1] = difference(k)
      BY <2>6, <2>7, <2>9
    <3> QED
      BY <3>1, <3>2
  <2>11. Lists(result, described, LAMBDA k : Transform(task, difference(k)))
    BY <2>8, <2>9, <2>10 DEF Lists, Rank
  <2> QED
    BY <1>2, <2>11 DEF IsAnswer, described, difference
<1> QED
  BY <1>3, <1>4

\* outside_in_pairs: each pair is listed once, the middle value as the flag says.
LEMMA OutsideInPairsIsAnswer ==
    ASSUME NEW task \in Task, NEW input \in Seq(Int), task.kind = "outside_in_pairs"
    PROVE  IsAnswer(task, input, OutsideInPairs(task, input))
<1> DEFINE n == Len(input)
           h == (n + 1) \div 2
           result == OutsideInPairs(task, input)
           outer(k) == IF 2 * k = n + 1
                       THEN IF task.reverse THEN 2 * input[k] ELSE input[k]
                       ELSE input[k] + input[n + 1 - k]
           described == {k \in 1 .. n : 2 * k <= n + 1}
<1>1. n \in Nat /\ h \in Nat /\ task.reverse \in BOOLEAN /\ \A k \in 1 .. n : input[k] \in Int
  BY TaskParameters
<1>2. described = 1 .. h
  BY <1>1
<1>3. ASSUME NEW k \in 1 .. h PROVE result[k] = Transform(task, outer(k))
  <2>1. k \in 1 .. n /\ n - k + 1 \in 1 .. n /\ n + 1 - k = n - k + 1
        /\ (k = n - k + 1 <=> 2 * k = n + 1)
    BY <1>1
  <2>2. input[k] \in Int
    BY <1>1, <2>1
  <2>3. result[k] = Transform(task, IF k = n - k + 1 /\ ~task.reverse THEN input[k]
                                    ELSE input[k] + input[n - k + 1])
    BY DEF OutsideInPairs
  <2>4. (IF k = n - k + 1 /\ ~task.reverse THEN input[k] ELSE input[k] + input[n - k + 1])
        = outer(k)
    BY <1>1, <2>1, <2>2
  <2> QED
    BY <2>3, <2>4
<1>4. Len(result) = h
  BY <1>1 DEF OutsideInPairs
<1> HIDE DEF result, outer, h
<1>5. Cardinality(1 .. h) = h /\ \A k \in 1 .. h : Rank(1 .. h, k) = k
  BY <1>1, UpToCardinality, RankOfAll
<1>6. Lists(result, described, LAMBDA k : Transform(task, outer(k)))
  BY <1>2, <1>3, <1>4, <1>5 DEF Lists, Rank
<1> QED
  BY <1>6 DEF IsAnswer, result, outer

-----------------------------------------------------------------------------
\* Transforming a sequence with a value appended appends the transformed value.
LEMMA TransformAppend ==
    ASSUME NEW task \in Task, NEW s \in Seq(Int), NEW x \in Int
    PROVE  TransformAll(task, Append(s, x)) = Append(TransformAll(task, s), Transform(task, x))
<1> DEFINE t == Append(s, x)
           a == TransformAll(task, t)
           b == Append(TransformAll(task, s), Transform(task, x))
           n == Len(s)
<1>1. t \in Seq(Int) /\ Len(t) = n + 1 /\ n \in Nat /\ t[n + 1] = x
      /\ \A k \in 1 .. n : t[k] = s[k]
  OBVIOUS
<1>2. Transform(task, x) \in Int
  BY TransformIsInt
<1>3. /\ TransformAll(task, s) \in Seq(Int) /\ Len(TransformAll(task, s)) = n
      /\ \A k \in 1 .. n : TransformAll(task, s)[k] = Transform(task, s[k])
  BY TransformAllDef
<1> HIDE DEF t
<1>4. /\ a \in Seq(Int) /\ Len(a) = n + 1
      /\ \A k \in 1 .. n + 1 : a[k] = Transform(task, t[k])
  BY <1>1, TransformAllDef
<1>5. /\ b \in Seq(Int) /\ Len(b) = n + 1 /\ b[n + 1] = Transform(task, x)
      /\ \A k \in 1 .. n : b[k] = Transform(task, s[k])
  BY <1>2, <1>3
<1> HIDE DEF a, b
<1>6. ASSUME NEW k \in 1 .. n + 1 PROVE a[k] = b[k]
  <2>1. CASE k = n + 1
    BY <1>1, <1>4, <1>5, <2>1
  <2>2. CASE k # n + 1
    <3>1. k \in 1 .. n
      BY <1>1, <2>2
    <3> QED
      BY <1>1, <1>4, <1>5, <3>1
  <2> QED
    BY <2>1, <2>2
<1>7. a = b
  BY <1>4, <1>5, <1>6, SeqEqual
<1> QED
  BY <1>7 DEF a, b, t

\* The values at the positions in S, and zeros.
Masked(s, S) == [k \in 1 .. Len(s) |-> IF k \in S THEN s[k] ELSE 0]

\* The masked sequence is as long, and zero outside of S.
LEMMA MaskedDef ==
    ASSUME NEW s \in Seq(Int), NEW S
    PROVE  /\ Masked(s, S) \in Seq(Int)
           /\ Len(Masked(s, S)) = Len(s)
           /\ \A k \in 1 .. Len(s) : Masked(s, S)[k] = IF k \in S THEN s[k] ELSE 0
<1>1. Masked(s, S) \in [1 .. Len(s) -> Int] /\ Len(s) \in Nat
  BY DEF Masked
<1>2. \A k \in 1 .. Len(s) : Masked(s, S)[k] = IF k \in S THEN s[k] ELSE 0
  BY DEF Masked
<1> QED
  BY <1>1, <1>2

\* filter_sum: the sum of what was filtered is the sum over the positions selected.
LEMMA FilterSumIsAnswer ==
    ASSUME NEW task \in Task, NEW input \in Seq(Int), task.kind = "filter_sum"
    PROVE  IsAnswer(task, input, FilterSum(task, input))
<1> DEFINE n == Len(input)
           S == {k \in 1 .. n : Matches(task, input[k])}
           chosen == {k \in 1 .. n : Selected(task, input[k])}
           all == TransformAll(task, input)
           kept(k) == TransformAll(task, Kept(input, S)[k])
           mask == Masked(all, S)
           T == {k \in 0 .. n : Total(kept(k)) = Sums(mask)[k]}
<1>1. n \in Nat /\ \A k \in 1 .. n : input[k] \in Int
  OBVIOUS
<1>2. S = chosen
  <2>1. \A k \in 1 .. n : Selected(task, input[k]) <=> Matches(task, input[k])
    BY <1>1, TaskParameters, SelectedIsMatches
  <2> QED
    BY <2>1, Zenon
<1>3. FilterSum(task, input) = Total(TransformAll(task, Keep(input, S)))
  BY DEF FilterSum, Filter
<1> HIDE DEF S
<1>4. all \in Seq(Int) /\ Len(all) = n /\ \A k \in 1 .. n : all[k] = Transform(task, input[k])
  BY TransformAllDef
<1> HIDE DEF all
<1>5. /\ mask \in Seq(Int) /\ Len(mask) = n
      /\ \A k \in 1 .. n : mask[k] = IF k \in S THEN Transform(task, input[k]) ELSE 0
  <2>1. /\ mask \in Seq(Int) /\ Len(mask) = Len(all)
        /\ \A k \in 1 .. Len(all) : mask[k] = IF k \in S THEN all[k] ELSE 0
    BY <1>4, MaskedDef
  <2> QED
    BY <1>4, <2>1
<1>6. mask = [k \in 1 .. n |-> IF k \in S THEN Transform(task, input[k]) ELSE 0]
  <2>1. mask = [k \in 1 .. Len(all) |-> IF k \in S THEN all[k] ELSE 0]
    BY DEF Masked
  <2> QED
    BY <1>4, <2>1
<1> HIDE DEF mask
<1>7. 0 \in T
  <2>1. Kept(input, S)[0] = <<>>
    BY KeptDef
  <2>2. TransformAll(task, <<>>) = <<>>
    BY DEF TransformAll
  <2>3. Sums(mask)[0] = 0
    BY <1>5, SumsDef
  <2> QED
    BY <1>1, <2>1, <2>2, <2>3, TotalEmpty
<1>8. ASSUME NEW k \in 0 .. n - 1, k \in T PROVE k + 1 \in T
  <2>1. k + 1 \in 1 .. n /\ (k + 1) - 1 = k /\ k \in 0 .. n /\ k + 1 \in 0 .. n
    BY <1>1
  <2>2. Kept(input, S)[k + 1] = IF k + 1 \in S THEN Append(Kept(input, S)[k], input[k + 1])
                                               ELSE Kept(input, S)[k]
    BY <2>1, KeptDef
  <2>3. Sums(mask)[k + 1] = Sums(mask)[k] + mask[k + 1] /\ Sums(mask)[k] \in Int
    BY <1>5, <2>1, SumsDef
  <2>4. Total(kept(k)) = Sums(mask)[k]
    BY <1>8
  <2>5. Kept(input, S)[k] \in Seq(Int) /\ input[k + 1] \in Int
    BY <1>1, <2>1, KeptDef
  <2>6. CASE k + 1 \in S
    <3>1. kept(k + 1) = Append(kept(k), Transform(task, input[k + 1]))
      BY <2>2, <2>5, <2>6, TransformAppend
    <3>2. kept(k) \in Seq(Int) /\ Transform(task, input[k + 1]) \in Int
      BY <2>5, TransformAllDef, TransformIsInt
    <3> HIDE DEF kept
    <3>3. Total(kept(k + 1)) = Total(kept(k)) + Transform(task, input[k + 1])
      BY <3>1, <3>2, TotalAppend
    <3> QED
      BY <1>5, <2>1, <2>3, <2>4, <2>6, <3>3
  <2>7. CASE k + 1 \notin S
    <3>1. kept(k + 1) = kept(k)
      BY <2>2, <2>7
    <3> HIDE DEF kept
    <3> QED
      BY <1>5, <2>1, <2>3, <2>4, <2>7, <3>1
  <2> QED
    BY <2>6, <2>7
<1>9. 0 .. n \subseteq T
  <2> HIDE DEF T, n
  <2> QED
    BY <1>1, <1>7, <1>8, UpTo
<1>10. n \in 0 .. n
  BY <1>1
<1>11. Total(kept(n)) = Sums(mask)[n]
  BY <1>9, <1>10
<1>12. Keep(input, S) = Kept(input, S)[n] /\ Total(mask) = Sums(mask)[n]
  BY <1>5, KeptDef, SumsDef
<1>13. FilterSum(task, input) = SumOver(input, chosen, LAMBDA k : Transform(task, input[k]))
  BY <1>2, <1>3, <1>6, <1>11, <1>12 DEF SumOver
<1> HIDE DEF chosen
<1> QED
  BY <1>13 DEF IsAnswer, chosen

\* The total that follows `totals` when x is read.
NextTotal(task, totals, x) ==
    LET total == IF totals = <<>> THEN 0 ELSE totals[Len(totals)]
    IN  IF Matches(task, x) THEN total + Transform(task, x) ELSE total

\* The totals after each value.
TotalsCourse(task, s) ==
    CHOOSE f : f = [k \in 0 .. Len(s) |->
                       IF k = 0 THEN <<>> ELSE Append(f[k - 1], NextTotal(task, f[k - 1], s[k]))]

\* prefix_total appends one total for each value.
LEMMA TotalsCourseDef ==
    ASSUME NEW task \in Task, NEW s \in Seq(Int)
    PROVE  /\ PrefixTotal(task, s) = TotalsCourse(task, s)[Len(s)]
           /\ TotalsCourse(task, s)[0] = <<>>
           /\ \A k \in 1 .. Len(s) : TotalsCourse(task, s)[k] =
                 Append(TotalsCourse(task, s)[k - 1],
                        NextTotal(task, TotalsCourse(task, s)[k - 1], s[k]))
<1> DEFINE n == Len(s)
           V == Seq(Int)
           step == [k \in 1 .. n |-> [t \in V |-> Append(t, NextTotal(task, t, s[k]))]]
           next(f) == [k \in 0 .. n |-> IF k = 0 THEN <<>>
                                        ELSE Append(f[k - 1], NextTotal(task, f[k - 1], s[k]))]
<1>1. n \in Nat /\ \A k \in 1 .. n : s[k] \in Int
  OBVIOUS
<1>2. ASSUME NEW t \in V, NEW x \in Int PROVE Append(t, NextTotal(task, t, x)) \in V
  <2>1. NextTotal(task, t, x) \in Int
    <3>1. t # <<>> => t[Len(t)] \in Int
      OBVIOUS
    <3>2. Transform(task, x) \in Int
      BY TransformIsInt
    <3> QED
      BY <3>1, <3>2 DEF NextTotal
  <2> QED
    BY <2>1
<1>3. ASSUME NEW h
      PROVE  /\ DOMAIN next(h) = 0 .. n
             /\ next(h)[0] = <<>>
             /\ \A k \in 1 .. n :
                   next(h)[k] = Append(h[k - 1], NextTotal(task, h[k - 1], s[k]))
  <2>1. 0 \in 0 .. n /\ \A k \in 1 .. n : k \in 0 .. n /\ k # 0
    BY <1>1
  <2> QED
    BY <2>1, Zenon
<1>4. StepsOn(V, <<>>, n, step)
  <2>1. step \in [1 .. n -> [V -> V]]
    BY <1>1, <1>2
  <2> QED
    BY <1>1, <2>1 DEF StepsOn
<1>5. PICK f : IsCourse(f, V, <<>>, n, step)
  <2> HIDE DEF n, step, V
  <2> QED
    BY <1>4, CourseExists
<1>6. f \in [0 .. n -> V] /\ f[0] = <<>> /\ \A k \in 1 .. n : f[k] = step[k][f[k - 1]]
  BY <1>5 DEF IsCourse
<1>7. ASSUME NEW k \in 1 .. n PROVE f[k] = Append(f[k - 1], NextTotal(task, f[k - 1], s[k]))
  <2>1. k - 1 \in 0 .. n
    BY <1>1
  <2>2. f[k - 1] \in V
    BY <1>6, <2>1, Zenon
  <2> QED
    BY <1>6, <2>2, Zenon
<1>8. f = next(f)
  <2>1. f[0] = next(f)[0] /\ \A k \in 1 .. n : f[k] = next(f)[k]
    <3> HIDE DEF next
    <3> QED
      BY <1>3, <1>6, <1>7, Zenon
  <2>2. \A k \in 0 .. n : k = 0 \/ k \in 1 .. n
    BY <1>1
  <2>3. \A k \in 0 .. n : f[k] = next(f)[k]
    BY <2>1, <2>2, Zenon
  <2>4. DOMAIN f = 0 .. n /\ DOMAIN next(f) = 0 .. n /\ f = [k \in DOMAIN f |-> f[k]]
    BY <1>3, <1>6
  <2> QED
    BY <2>3, <2>4
<1>9. TotalsCourse(task, s) = next(TotalsCourse(task, s))
  BY <1>8 DEF TotalsCourse
<1>10. PrefixTotal(task, s) = TotalsCourse(task, s)[n]
  BY DEF PrefixTotal, Fold, TotalsCourse, NextTotal
<1> HIDE DEF next
<1> QED
  BY <1>3, <1>9, <1>10

\* prefix_total: each total is the sum over the positions selected so far.
LEMMA PrefixTotalIsAnswer ==
    ASSUME NEW task \in Task, NEW input \in Seq(Int), task.kind = "prefix_total"
    PROVE  /\ IsAnswer(task, input, PrefixTotal(task, input))
           /\ PrefixTotal(task, input) \in Seq(Int)
<1> DEFINE n == Len(input)
           chosen == {k \in 1 .. n : Selected(task, input[k])}
           all == TransformAll(task, input)
           mask == Masked(all, chosen)
           upto(k) == Masked(all, chosen \intersect 1 .. k)
           f == TotalsCourse(task, input)
           T == {k \in 0 .. n : /\ f[k] \in Seq(Int) /\ Len(f[k]) = k
                                /\ \A i \in 1 .. k : f[k][i] = Sums(mask)[i]}
<1>1. n \in Nat /\ \A k \in 1 .. n : input[k] \in Int
  OBVIOUS
<1>2. all \in Seq(Int) /\ Len(all) = n /\ \A k \in 1 .. n : all[k] = Transform(task, input[k])
  BY TransformAllDef
<1> HIDE DEF all
<1>3. /\ mask \in Seq(Int) /\ Len(mask) = n
      /\ \A k \in 1 .. n : mask[k] = IF Matches(task, input[k]) THEN Transform(task, input[k]) ELSE 0
  <2>1. /\ mask \in Seq(Int) /\ Len(mask) = Len(all)
        /\ \A k \in 1 .. Len(all) : mask[k] = IF k \in chosen THEN all[k] ELSE 0
    <3> HIDE DEF chosen
    <3> QED
      BY <1>2, MaskedDef
  <2>2. \A k \in 1 .. n : k \in chosen <=> Matches(task, input[k])
    BY <1>1, TaskParameters, SelectedIsMatches
  <2> HIDE DEF chosen, mask
  <2> QED
    BY <1>2, <2>1, <2>2
<1>4. ASSUME NEW k \in 1 .. n PROVE Total(upto(k)) = Sums(mask)[k]
  <2>1. /\ upto(k) \in Seq(Int) /\ Len(upto(k)) = n
        /\ \A j \in 1 .. n : upto(k)[j] = IF j \in chosen \intersect 1 .. k THEN all[j] ELSE 0
    <3> DEFINE C == chosen \intersect 1 .. k
    <3> HIDE DEF C
    <3>2. all \in Seq(Int) /\ Len(all) = n
      BY <1>2
    <3>1. /\ Masked(all, C) \in Seq(Int) /\ Len(Masked(all, C)) = n
          /\ \A j \in 1 .. n : Masked(all, C)[j] = IF j \in C THEN all[j] ELSE 0
      BY <3>2, MaskedDef
    <3> QED
      BY <3>1 DEF C
  <2>2. \A j \in 1 .. n : mask[j] = IF j \in chosen THEN all[j] ELSE 0
    <3> HIDE DEF chosen
    <3>1. all \in Seq(Int) /\ Len(all) = n
      BY <1>2
    <3> QED
      BY <3>1, MaskedDef
  <2> HIDE DEF chosen, mask, upto
  <2>3. ASSUME NEW j \in 1 .. k PROVE upto(k)[j] = mask[j]
    <3>1. j \in 1 .. n
      BY <1>1
    <3>2. upto(k)[j] = (IF j \in chosen THEN all[j] ELSE 0) /\ mask[j] = IF j \in chosen THEN all[j] ELSE 0
      BY <2>1, <2>2, <3>1
    <3> QED
      BY <3>2
  <2>4. \A j \in k + 1 .. n : upto(k)[j] = 0
    BY <1>1, <2>1
  <2>5. Total(upto(k)) = Sums(upto(k))[k]
    <3>1. k \in 0 .. Len(upto(k)) /\ \A j \in k + 1 .. Len(upto(k)) : upto(k)[j] = 0
      BY <1>1, <2>1, <2>4
    <3> QED
      BY <2>1, <3>1, ZeroTail
  <2>6. k \in Nat /\ k <= Len(upto(k)) /\ k <= Len(mask) /\ k \in 0 .. k
    BY <1>1, <1>3, <2>1
  <2>7. Sums(upto(k))[k] = Sums(mask)[k]
    <3>1. upto(k) \in Seq(Int) /\ mask \in Seq(Int)
      BY <1>3, <2>1
    <3>2. \A j \in 0 .. k : Sums(upto(k))[j] = Sums(mask)[j]
      BY <2>3, <2>6, <3>1, SameSums
    <3> QED
      BY <2>6, <3>2
  <2> QED
    BY <2>5, <2>7
<1>5. ASSUME NEW k \in 1 .. n
      PROVE  Total(upto(k)) =
                SumOver(input, chosen \intersect 1 .. k, LAMBDA j : Transform(task, input[j]))
  <2>1. upto(k) = [j \in 1 .. n |-> IF j \in chosen \intersect 1 .. k
                                     THEN Transform(task, input[j]) ELSE 0]
    <3> HIDE DEF chosen
    <3> QED
      BY <1>2 DEF Masked
  <2> QED
    BY <2>1 DEF SumOver
<1> HIDE DEF chosen, mask, upto
<1>6. f[0] = <<>> /\ PrefixTotal(task, input) = f[n]
      /\ \A k \in 1 .. n : f[k] = Append(f[k - 1], NextTotal(task, f[k - 1], input[k]))
  BY TotalsCourseDef
<1> HIDE DEF f
<1>7. 0 \in T
  <2>1. f[0] \in Seq(Int) /\ Len(f[0]) = 0 /\ \A i \in 1 .. 0 : f[0][i] = Sums(mask)[i]
    BY <1>6
  <2> QED
    BY <1>1, <2>1
<1>8. ASSUME NEW k \in 0 .. n - 1, k \in T PROVE k + 1 \in T
  <2>1. k + 1 \in 1 .. n /\ (k + 1) - 1 = k /\ k \in 0 .. n /\ k + 1 \in 0 .. n
    BY <1>1
  <2>2. /\ f[k] \in Seq(Int) /\ Len(f[k]) = k
        /\ \A i \in 1 .. k : f[k][i] = Sums(mask)[i]
    BY <1>8
  <2>3. Sums(mask)[k + 1] = Sums(mask)[k] + mask[k + 1] /\ Sums(mask)[k] \in Int
        /\ Sums(mask)[0] = 0
    BY <1>3, <2>1, SumsDef
  <2>4. (IF f[k] = <<>> THEN 0 ELSE f[k][Len(f[k])]) = Sums(mask)[k]
    <3>1. CASE k = 0
      BY <2>2, <2>3, <3>1
    <3>2. CASE k # 0
      <4>1. k \in 1 .. k /\ f[k] # <<>>
        BY <2>1, <2>2, <3>2
      <4> QED
        BY <2>2, <4>1
    <3> QED
      BY <3>1, <3>2
  <2>5. NextTotal(task, f[k], input[k + 1]) = Sums(mask)[k + 1]
    <3>1. mask[k + 1] = IF Matches(task, input[k + 1]) THEN Transform(task, input[k + 1]) ELSE 0
      BY <1>3, <2>1
    <3>2. Transform(task, input[k + 1]) \in Int
      BY <1>1, <2>1, TransformIsInt
    <3> QED
      BY <2>3, <2>4, <3>1, <3>2 DEF NextTotal
  <2>6. Sums(mask)[k + 1] \in Int
    BY <1>3, <2>1, SumsDef
  <2>7. f[k + 1] = Append(f[k], Sums(mask)[k + 1])
    BY <1>6, <2>1, <2>5
  <2>8. /\ f[k + 1] \in Seq(Int) /\ Len(f[k + 1]) = k + 1
        /\ f[k + 1][k + 1] = Sums(mask)[k + 1]
        /\ \A i \in 1 .. k : f[k + 1][i] = f[k][i]
    BY <2>2, <2>6, <2>7
  <2>9. \A i \in 1 .. k + 1 : i \in 1 .. k \/ i = k + 1
    BY <2>1
  <2>10. \A i \in 1 .. k + 1 : f[k + 1][i] = Sums(mask)[i]
    BY <2>2, <2>8, <2>9, Zenon
  <2> QED
    BY <2>1, <2>8, <2>10
<1>9. 0 .. n \subseteq T
  <2> HIDE DEF T, n
  <2> QED
    BY <1>1, <1>7, <1>8, UpTo
<1>10. n \in 0 .. n
  BY <1>1
<1>11. f[n] \in Seq(Int) /\ Len(f[n]) = n /\ \A i \in 1 .. n : f[n][i] = Sums(mask)[i]
  BY <1>9, <1>10
<1>12. Cardinality(1 .. n) = n /\ \A k \in 1 .. n : Rank(1 .. n, k) = k
  BY <1>1, UpToCardinality, RankOfAll
<1>13. Lists(f[n], 1 .. n,
             LAMBDA k : SumOver(input, chosen \intersect 1 .. k,
                                LAMBDA j : Transform(task, input[j])))
  BY <1>4, <1>5, <1>11, <1>12 DEF Lists, Rank
<1>14. IsAnswer(task, input, PrefixTotal(task, input))
  BY <1>6, <1>13 DEF IsAnswer, chosen
<1> QED
  BY <1>6, <1>11, <1>14

\* The buckets that follow when x is read.
NextBuckets(task, buckets, x) == [buckets EXCEPT ![(x % task.modulus) + 1] = @ + x]

\* The buckets after each value.
BucketsCourse(task, s) ==
    CHOOSE f : f = [k \in 0 .. Len(s) |->
                       IF k = 0 THEN [j \in 1 .. task.modulus |-> 0]
                       ELSE NextBuckets(task, f[k - 1], s[k])]

\* residue_buckets adds each value to the bucket of its residue.
LEMMA BucketsCourseDef ==
    ASSUME NEW task \in Task, NEW s \in Seq(Int)
    PROVE  /\ ResidueBuckets(task, s) = BucketsCourse(task, s)[Len(s)]
           /\ BucketsCourse(task, s)[0] = [j \in 1 .. task.modulus |-> 0]
           /\ \A k \in 1 .. Len(s) :
                 BucketsCourse(task, s)[k] = NextBuckets(task, BucketsCourse(task, s)[k - 1], s[k])
<1> DEFINE n == Len(s)
           V == [1 .. task.modulus -> Int]
           base == [j \in 1 .. task.modulus |-> 0]
           step == [k \in 1 .. n |-> [b \in V |-> NextBuckets(task, b, s[k])]]
           next(f) == [k \in 0 .. n |-> IF k = 0 THEN base ELSE NextBuckets(task, f[k - 1], s[k])]
<1>1. n \in Nat /\ base \in V /\ \A k \in 1 .. n : s[k] \in Int
  OBVIOUS
<1>2. ASSUME NEW b \in V, NEW x \in Int PROVE NextBuckets(task, b, x) \in V
  <2>1. task.modulus \in 2 .. 7
    BY TaskParameters DEF Parameters
  <2>2. (x % task.modulus) + 1 \in 1 .. task.modulus
    BY <2>1
  <2> QED
    BY <2>2 DEF NextBuckets
<1> HIDE DEF base
<1>3. ASSUME NEW h
      PROVE  /\ DOMAIN next(h) = 0 .. n
             /\ next(h)[0] = base
             /\ \A k \in 1 .. n : next(h)[k] = NextBuckets(task, h[k - 1], s[k])
  <2>1. 0 \in 0 .. n /\ \A k \in 1 .. n : k \in 0 .. n /\ k # 0
    BY <1>1
  <2> QED
    BY <2>1, Zenon
<1>4. StepsOn(V, base, n, step)
  <2>1. step \in [1 .. n -> [V -> V]]
    <3> HIDE DEF V
    <3> QED
      BY <1>1, <1>2
  <2> QED
    BY <1>1, <2>1 DEF StepsOn
<1>5. PICK f : IsCourse(f, V, base, n, step)
  <2> HIDE DEF n, step, V
  <2> QED
    BY <1>4, CourseExists
<1>6. f \in [0 .. n -> V] /\ f[0] = base /\ \A k \in 1 .. n : f[k] = step[k][f[k - 1]]
  BY <1>5 DEF IsCourse
<1>7. ASSUME NEW k \in 1 .. n PROVE f[k] = NextBuckets(task, f[k - 1], s[k])
  <2>1. k - 1 \in 0 .. n
    BY <1>1
  <2>2. f[k - 1] \in V
    BY <1>6, <2>1, Zenon
  <2> QED
    BY <1>6, <2>2, Zenon
<1>8. f = next(f)
  <2>1. f[0] = next(f)[0] /\ \A k \in 1 .. n : f[k] = next(f)[k]
    <3> HIDE DEF next
    <3> QED
      BY <1>3, <1>6, <1>7, Zenon
  <2>2. \A k \in 0 .. n : k = 0 \/ k \in 1 .. n
    BY <1>1
  <2>3. \A k \in 0 .. n : f[k] = next(f)[k]
    BY <2>1, <2>2, Zenon
  <2>4. DOMAIN f = 0 .. n /\ DOMAIN next(f) = 0 .. n /\ f = [k \in DOMAIN f |-> f[k]]
    <3> HIDE DEF next, V
    <3> QED
      BY <1>3, <1>6
  <2> QED
    BY <2>3, <2>4
<1>9. BucketsCourse(task, s) = next(BucketsCourse(task, s))
  BY <1>8 DEF BucketsCourse, base
<1>10. ResidueBuckets(task, s) = BucketsCourse(task, s)[n]
  BY DEF ResidueBuckets, Fold, BucketsCourse, NextBuckets
<1> HIDE DEF next
<1> QED
  BY <1>3, <1>9, <1>10 DEF base

\* residue_buckets: each bucket holds the sum over the positions of its residue.
LEMMA ResidueBucketsIsAnswer ==
    ASSUME NEW task \in Task, NEW input \in Seq(Int), task.kind = "residue_buckets"
    PROVE  /\ IsAnswer(task, input, ResidueBuckets(task, input))
           /\ ResidueBuckets(task, input) \in Seq(Int)
<1> DEFINE n == Len(input)
           m == task.modulus
           S(j) == {k \in 1 .. n : PromptResidue(task, input[k]) = j}
           mask(j) == Masked(input, S(j))
           f == BucketsCourse(task, input)
           T == {k \in 0 .. n : /\ f[k] \in [1 .. m -> Int]
                                /\ \A j \in 0 .. m - 1 : f[k][j + 1] = Sums(mask(j))[k]}
<1>1. n \in Nat /\ m \in 2 .. 7 /\ \A k \in 1 .. n : input[k] \in Int
  BY TaskParameters DEF Parameters
<1>2. ASSUME NEW j \in 0 .. m - 1
      PROVE  /\ mask(j) \in Seq(Int) /\ Len(mask(j)) = n
             /\ \A k \in 1 .. n : mask(j)[k] = IF input[k] % m = j THEN input[k] ELSE 0
  <2>1. \A k \in 1 .. n : k \in S(j) <=> input[k] % m = j
    BY <1>1, TaskParameters, PromptResidueIsRemainder
  <2> HIDE DEF S
  <2>2. /\ mask(j) \in Seq(Int) /\ Len(mask(j)) = n
        /\ \A k \in 1 .. n : mask(j)[k] = IF k \in S(j) THEN input[k] ELSE 0
    BY MaskedDef
  <2> HIDE DEF mask, n, m
  <2> QED
    BY <2>1, <2>2
<1>3. \A j \in 0 .. m - 1 : Total(mask(j)) = SumOver(input, S(j), LAMBDA k : input[k])
  BY DEF SumOver, Masked
<1> HIDE DEF mask, S
<1>4. f[0] = [j \in 1 .. m |-> 0] /\ ResidueBuckets(task, input) = f[n]
      /\ \A k \in 1 .. n : f[k] = NextBuckets(task, f[k - 1], input[k])
  BY BucketsCourseDef
<1> HIDE DEF f
<1>5. 0 \in T
  <2>1. \A j \in 0 .. m - 1 : Sums(mask(j))[0] = 0
    BY <1>2, SumsDef
  <2>2. f[0] \in [1 .. m -> Int]
    BY <1>4
  <2>3. \A j \in 0 .. m - 1 : f[0][j + 1] = 0
    BY <1>1, <1>4
  <2> QED
    BY <1>1, <2>1, <2>2, <2>3
<1>6. ASSUME NEW k \in 0 .. n - 1, k \in T PROVE k + 1 \in T
  <2>1. k + 1 \in 1 .. n /\ (k + 1) - 1 = k /\ k \in 0 .. n /\ k + 1 \in 0 .. n
    BY <1>1
  <2> DEFINE x == input[k + 1]
             r == x % m
  <2>2. x \in Int /\ r \in 0 .. m - 1 /\ r + 1 \in 1 .. m
    <3>1. x \in Int /\ m \in Nat /\ m > 0
      <4>1. x \in Int
        BY <1>1, <2>1
      <4> HIDE DEF x
      <4>2. m \in Nat /\ m > 0
        BY <1>1
      <4> QED
        BY <4>1, <4>2
    <3> HIDE DEF x, m
    <3>2. r \in 0 .. m - 1
      BY <3>1
    <3> HIDE DEF r
    <3> QED
      BY <3>1, <3>2
  <2>3. f[k] \in [1 .. m -> Int] /\ \A j \in 0 .. m - 1 : f[k][j + 1] = Sums(mask(j))[k]
    BY <1>6
  <2>4. f[k + 1] = [f[k] EXCEPT ![r + 1] = @ + x]
    BY <1>4, <2>1 DEF NextBuckets
  <2> HIDE DEF x, r, m
  <2>5. f[k + 1] \in [1 .. m -> Int]
    <3>1. f[k] \in [1 .. m -> Int] /\ r + 1 \in 1 .. m
      BY <2>2, <2>3
    <3>2. f[k][r + 1] \in Int
      BY <3>1, Zenon
    <3>3. f[k][r + 1] + x \in Int
      BY <2>2, <3>2
    <3> QED
      BY <2>4, <3>1, <3>3
  <2>6. ASSUME NEW j \in 0 .. m - 1 PROVE f[k + 1][j + 1] = Sums(mask(j))[k + 1]
    <3>1. Sums(mask(j))[k + 1] = Sums(mask(j))[k] + mask(j)[k + 1] /\ Sums(mask(j))[k] \in Int
      BY <1>2, <2>1, SumsDef
    <3>2. mask(j)[k + 1] = IF r = j THEN x ELSE 0
      BY <1>2, <2>1 DEF x, r
    <3>3. j + 1 \in 1 .. m /\ (j + 1 = r + 1 <=> r = j)
      BY <1>1, <2>2
    <3>4. f[k + 1][j + 1] = IF r = j THEN f[k][j + 1] + x ELSE f[k][j + 1]
      BY <2>3, <2>4, <3>3
    <3>5. f[k][j + 1] = Sums(mask(j))[k]
      BY <2>3
    <3> QED
      BY <2>2, <3>1, <3>2, <3>4, <3>5
  <2> QED
    BY <2>1, <2>5, <2>6
<1>7. 0 .. n \subseteq T
  <2> HIDE DEF T, n
  <2> QED
    BY <1>1, <1>5, <1>6, UpTo
<1>8. n \in 0 .. n
  BY <1>1
<1>9. f[n] \in [1 .. m -> Int] /\ \A j \in 0 .. m - 1 : f[n][j + 1] = Sums(mask(j))[n]
  BY <1>7, <1>8
<1>10. Len(f[n]) = m /\ f[n] \in Seq(Int)
  <2>1. m \in Nat /\ f[n] \in [1 .. m -> Int]
    BY <1>1, <1>9
  <2> DEFINE g == f[n]
  <2> HIDE DEF g, m
  <2>2. g = [j \in 1 .. m |-> g[j]] /\ \A j \in 1 .. m : g[j] \in Int
    BY <2>1 DEF g
  <2>3. g \in Seq(Int) /\ Len(g) = m
    BY <2>1, <2>2, SequenceOf
  <2> QED
    BY <2>3 DEF g
<1>11. \A j \in 0 .. m - 1 : f[n][j + 1] = SumOver(input, S(j), LAMBDA k : input[k])
  <2>1. ASSUME NEW j \in 0 .. m - 1 PROVE Total(mask(j)) = Sums(mask(j))[n]
    BY <1>2, SumsDef
  <2> QED
    BY <1>3, <1>9, <2>1
<1>12. IsAnswer(task, input, ResidueBuckets(task, input))
  BY <1>4, <1>10, <1>11 DEF IsAnswer, S
<1> QED
  BY <1>4, <1>10, <1>12

-----------------------------------------------------------------------------
\* What the loop of longest_run knows after the value at `index`.
NextRun(task, s, run, index) ==
    IF s[index] < task.threshold THEN [run EXCEPT !.current = 0]
    ELSE LET current == run.current + 1 IN
         IF current > run.best \/ (task.reverse /\ current = run.best)
         THEN [start |-> index - current, best |-> current, current |-> current]
         ELSE [run EXCEPT !.current = current]

\* What it knows before the first.
NoRun == [start |-> -1, best |-> 0, current |-> 0]

\* What it knows after each value.
RunCourse(task, s) ==
    CHOOSE f : f = [k \in 0 .. Len(Indices(s)) |->
                       IF k = 0 THEN NoRun ELSE NextRun(task, s, f[k - 1], Indices(s)[k])]

\* longest_run reads the values from left to right.
LEMMA RunCourseDef ==
    ASSUME NEW task, NEW s \in Seq(Int)
    PROVE  /\ LongestRun(task, s) =
                 <<RunCourse(task, s)[Len(s)].start, RunCourse(task, s)[Len(s)].best>>
           /\ RunCourse(task, s)[0] = NoRun
           /\ \A k \in 1 .. Len(s) :
                 RunCourse(task, s)[k] = NextRun(task, s, RunCourse(task, s)[k - 1], k)
           /\ \A k \in 0 .. Len(s) : RunCourse(task, s)[k] \in [start : Int, best : Int, current : Int]
<1> DEFINE n == Len(s)
           V == [start : Int, best : Int, current : Int]
           step == [k \in 1 .. n |-> [run \in V |-> NextRun(task, s, run, k)]]
           next(f) == [k \in 0 .. Len(Indices(s)) |->
                          IF k = 0 THEN NoRun ELSE NextRun(task, s, f[k - 1], Indices(s)[k])]
<1>1. n \in Nat /\ NoRun \in V /\ \A k \in 1 .. n : s[k] \in Int
  BY DEF NoRun
<1>2. Len(Indices(s)) = n /\ \A k \in 1 .. n : Indices(s)[k] = k
  BY <1>1 DEF Indices
<1>3. ASSUME NEW run \in V, NEW k \in 1 .. n PROVE NextRun(task, s, run, k) \in V
  <2>1. run.start \in Int /\ run.best \in Int /\ run.current \in Int
    OBVIOUS
  <2>2. [run EXCEPT !.current = 0] \in V /\ [run EXCEPT !.current = run.current + 1] \in V
    BY <2>1
  <2>3. [start |-> k - (run.current + 1), best |-> run.current + 1, current |-> run.current + 1] \in V
    BY <1>1, <2>1
  <2> QED
    BY <2>2, <2>3 DEF NextRun
<1>4. ASSUME NEW h
      PROVE  /\ DOMAIN next(h) = 0 .. n
             /\ next(h)[0] = NoRun
             /\ \A k \in 1 .. n : next(h)[k] = NextRun(task, s, h[k - 1], k)
  <2>1. 0 \in 0 .. n /\ \A k \in 1 .. n : k \in 0 .. n /\ k # 0
    BY <1>1
  <2> QED
    BY <1>2, <2>1, Zenon
<1>5. StepsOn(V, NoRun, n, step)
  <2>1. step \in [1 .. n -> [V -> V]]
    <3> HIDE DEF V
    <3> QED
      BY <1>1, <1>3
  <2> QED
    BY <1>1, <2>1 DEF StepsOn
<1>6. PICK f : IsCourse(f, V, NoRun, n, step)
  <2> HIDE DEF n, step, V
  <2> QED
    BY <1>5, CourseExists
<1>7. f \in [0 .. n -> V] /\ f[0] = NoRun /\ \A k \in 1 .. n : f[k] = step[k][f[k - 1]]
  BY <1>6 DEF IsCourse
<1>8. ASSUME NEW k \in 1 .. n PROVE f[k] = NextRun(task, s, f[k - 1], k)
  <2>1. k - 1 \in 0 .. n
    BY <1>1
  <2>2. f[k - 1] \in V
    BY <1>7, <2>1, Zenon
  <2> QED
    BY <1>7, <2>2, Zenon
<1>9. f = next(f)
  <2>1. f[0] = next(f)[0] /\ \A k \in 1 .. n : f[k] = next(f)[k]
    <3> HIDE DEF next
    <3> QED
      BY <1>4, <1>7, <1>8, Zenon
  <2>2. \A k \in 0 .. n : k = 0 \/ k \in 1 .. n
    BY <1>1
  <2>3. \A k \in 0 .. n : f[k] = next(f)[k]
    BY <2>1, <2>2, Zenon
  <2>4. DOMAIN f = 0 .. n /\ DOMAIN next(f) = 0 .. n /\ f = [k \in DOMAIN f |-> f[k]]
    <3> HIDE DEF next, V
    <3> QED
      BY <1>4, <1>7
  <2> QED
    BY <2>3, <2>4
<1>10. RunCourse(task, s) = next(RunCourse(task, s))
  BY <1>9 DEF RunCourse
<1>11. LongestRun(task, s) =
           <<RunCourse(task, s)[n].start, RunCourse(task, s)[n].best>>
  BY <1>2 DEF LongestRun, Fold, RunCourse, NextRun, NoRun
<1> DEFINE g == RunCourse(task, s)
<1>12. g[0] = NoRun /\ \A k \in 1 .. n : g[k] = NextRun(task, s, g[k - 1], k)
  <2> HIDE DEF next
  <2> QED
    BY <1>4, <1>10
<1> HIDE DEF g, next, V
<1>13. \A k \in 0 .. n : g[k] \in V
  <2>1. ASSUME NEW k \in 1 .. n, g[k - 1] \in V PROVE g[k] \in V
    BY <1>3, <1>12, <2>1
  <2>2. g[0] \in V
    BY <1>1, <1>12
  <2> HIDE DEF n
  <2> QED
    BY <1>1, <2>1, <2>2, StaysIn
<1> QED
  BY <1>11, <1>12, <1>13 DEF g, V

\* Every value of the window reaches the threshold.
IsClear(task, s, k, length) == \A j \in k .. k + length - 1 : s[j] >= task.threshold

\* What the loop knows after i values: the run that ends there, and the best run.
RunInv(task, s, i, run) ==
    /\ run \in [start : Int, best : Int, current : Int]
    /\ run.current \in 0 .. i
    /\ IsClear(task, s, i - run.current + 1, run.current)
    /\ run.current < i => s[i - run.current] < task.threshold
    /\ run.best \in 0 .. i
    /\ run.best = 0 => run.start = -1
    /\ run.best > 0 => /\ run.start \in 0 .. i - run.best
                       /\ IsClear(task, s, run.start + 1, run.best)
    /\ \A k \in 1 .. i, length \in 1 .. i :
          k + length - 1 <= i /\ IsClear(task, s, k, length) =>
              /\ length <= run.best
              /\ length = run.best =>
                    IF task.reverse THEN k - 1 <= run.start ELSE k - 1 >= run.start

\* A clear window that ends at i + 1 ends a run that the loop has counted.
LEMMA ClearAtEnd ==
    ASSUME NEW task \in Task, NEW s \in Seq(Int), NEW i \in 0 .. Len(s) - 1,
           NEW run, RunInv(task, s, i, run),
           NEW k \in 1 .. i + 1, NEW length \in 1 .. i + 1, k + length - 1 = i + 1,
           IsClear(task, s, k, length)
    PROVE  s[i + 1] >= task.threshold /\ length <= run.current + 1
<1> DEFINE c == run.current
           t == task.threshold
<1>1. i \in Nat /\ c \in 0 .. i /\ (c < i => s[i - c] < t) /\ t \in Int
      /\ \A j \in 1 .. Len(s) : s[j] \in Int
  <2>1. c \in 0 .. i /\ (c < i => s[i - c] < t)
    BY DEF RunInv
  <2>2. t \in Int
    BY TaskThreshold
  <2>3. i \in Nat /\ \A j \in 1 .. Len(s) : s[j] \in Int
    OBVIOUS
  <2> QED
    BY <2>1, <2>2, <2>3
<1>2. \A j \in k .. k + length - 1 : s[j] >= t
  BY DEF IsClear
<1> HIDE DEF c, t
<1>3. s[i + 1] >= t
  BY <1>1, <1>2
<1>4. ASSUME length > c + 1 PROVE FALSE
  <2>1. c < i /\ i - c \in k .. k + length - 1 /\ i - c \in 1 .. Len(s)
    BY <1>1, <1>4
  <2>2. s[i - c] < t /\ s[i - c] >= t /\ s[i - c] \in Int
    BY <1>1, <1>2, <2>1
  <2> QED
    BY <1>1, <2>2
<1> QED
  BY <1>1, <1>3, <1>4 DEF c, t

\* A run that is broken off leaves what is known of the best one.
LEMMA RunCleared ==
    ASSUME NEW run \in [start : Int, best : Int, current : Int]
    PROVE  LET new == [run EXCEPT !.current = 0]
           IN  /\ new \in [start : Int, best : Int, current : Int]
               /\ new.current = 0 /\ new.best = run.best /\ new.start = run.start
  OBVIOUS

\* One value more: the loop still knows the run that ends there and the best one.
LEMMA RunInvStep ==
    ASSUME NEW task \in Task, NEW s \in Seq(Int), NEW i \in 0 .. Len(s) - 1,
           NEW run, RunInv(task, s, i, run)
    PROVE  RunInv(task, s, i + 1, NextRun(task, s, run, i + 1))
<1> DEFINE new == NextRun(task, s, run, i + 1)
           c == run.current
           b == run.best
           a == run.start
           low == s[i + 1] < task.threshold
           Window(k, length) == /\ k \in 1 .. i + 1 /\ length \in 1 .. i + 1
                                /\ k + length - 1 <= i + 1 /\ IsClear(task, s, k, length)
           Good(best, start) ==
               \A k, length : Window(k, length) =>
                   /\ length <= best
                   /\ length = best => IF task.reverse THEN k - 1 <= start ELSE k - 1 >= start
<1>1. /\ i \in Nat /\ i + 1 \in 1 .. Len(s) /\ s[i + 1] \in Int
      /\ task.threshold \in Int /\ task.reverse \in BOOLEAN
  <2>1. i \in Nat /\ i + 1 \in 1 .. Len(s) /\ s[i + 1] \in Int
    OBVIOUS
  <2>2. task.threshold \in Int /\ task.reverse \in BOOLEAN
    BY TaskParameters, TaskThreshold
  <2> QED
    BY <2>1, <2>2
<1>2. /\ run \in [start : Int, best : Int, current : Int]
      /\ c \in 0 .. i /\ b \in 0 .. i /\ a \in Int
      /\ (b = 0 => a = -1) /\ (b > 0 => a \in 0 .. i - b)
  <2>1. /\ run \in [start : Int, best : Int, current : Int]
        /\ c \in 0 .. i /\ b \in 0 .. i
        /\ (b = 0 => a = -1) /\ (b > 0 => a \in 0 .. i - b)
    BY Zenon DEF RunInv
  <2> QED
    BY <2>1
<1>3. IsClear(task, s, i - c + 1, c) /\ (c < i => s[i - c] < task.threshold)
      /\ (b > 0 => IsClear(task, s, a + 1, b))
  BY DEF RunInv
<1>4. ASSUME NEW k, NEW length, Window(k, length), k + length - 1 <= i
      PROVE  /\ length <= b
             /\ length = b => IF task.reverse THEN k - 1 <= a ELSE k - 1 >= a
  <2>1. k \in 1 .. i /\ length \in 1 .. i /\ IsClear(task, s, k, length)
    BY <1>1, <1>4
  <2> QED
    BY <1>4, <2>1 DEF RunInv
<1>5. ASSUME NEW k, NEW length, Window(k, length), ~(k + length - 1 <= i)
      PROVE  ~low /\ length <= c + 1 /\ k + length - 1 = i + 1 /\ k \in Int /\ length \in Int
  <2>1. k + length - 1 = i + 1
    BY <1>1, <1>5
  <2>2. s[i + 1] >= task.threshold /\ length <= c + 1
    BY <1>5, <2>1, ClearAtEnd
  <2> QED
    BY <1>1, <1>5, <2>1, <2>2
<1>6. \A k, length : Window(k, length) => k \in 1 .. i + 1 /\ length \in 1 .. i + 1
  OBVIOUS
<1> HIDE DEF Window
<1>7. CASE low
  <2>1. new = [run EXCEPT !.current = 0]
    BY <1>7 DEF NextRun
  <2>2. new.current = 0 /\ new.best = b /\ new.start = a
        /\ new \in [start : Int, best : Int, current : Int]
    <3>1. run \in [start : Int, best : Int, current : Int]
      BY <1>2, Zenon
    <3> HIDE DEF new
    <3> QED
      BY <2>1, <3>1, RunCleared, Zenon
  <2>3. IsClear(task, s, (i + 1) - 0 + 1, 0)
    BY <1>1 DEF IsClear
  <2>4. Good(b, a)
    BY <1>4, <1>5, <1>7
  <2>5. \A k \in 1 .. i + 1, length \in 1 .. i + 1 :
            k + length - 1 <= i + 1 /\ IsClear(task, s, k, length) =>
                /\ length <= b
                /\ length = b => IF task.reverse THEN k - 1 <= a ELSE k - 1 >= a
    BY <2>4 DEF Window
  <2>6. 0 \in 0 .. i + 1 /\ b \in 0 .. i + 1 /\ (i + 1) - 0 = i + 1
        /\ (b > 0 => a \in 0 .. (i + 1) - b)
    <3> HIDE DEF a, b, c
    <3> QED
      BY <1>1, <1>2
  <2>7. s[(i + 1) - 0] < task.threshold
    BY <1>1, <1>7
  <2> HIDE DEF new, a, b
  <2>8. RunInv(task, s, i + 1, new)
    BY <1>2, <1>3, <2>2, <2>3, <2>5, <2>6, <2>7, Zenon DEF RunInv
  <2> QED
    BY <2>8 DEF new
<1>8. CASE ~low
  <2> DEFINE wins == c + 1 > b \/ (task.reverse /\ c + 1 = b)
  <2>1. new = IF wins THEN [start |-> (i + 1) - (c + 1), best |-> c + 1, current |-> c + 1]
              ELSE [run EXCEPT !.current = c + 1]
    BY <1>8 DEF NextRun
  <2>2. IsClear(task, s, (i + 1) - (c + 1) + 1, c + 1)
    <3>1. \A j \in i - c + 1 .. i - c + 1 + c - 1 : s[j] >= task.threshold
      BY <1>3 DEF IsClear
    <3>2. s[i + 1] >= task.threshold
      BY <1>1, <1>8
    <3>3. \A j \in (i + 1) - (c + 1) + 1 .. (i + 1) - (c + 1) + 1 + (c + 1) - 1 :
              j \in i - c + 1 .. i - c + 1 + c - 1 \/ j = i + 1
      <4> HIDE DEF a, b, c
      <4> QED
        BY <1>1, <1>2
    <3> QED
      BY <3>1, <3>2, <3>3 DEF IsClear
  <2>3. c + 1 < i + 1 => s[(i + 1) - (c + 1)] < task.threshold
    <3>1. (i + 1) - (c + 1) = i - c /\ (c + 1 < i + 1 <=> c < i)
      <4> HIDE DEF a, b, c
      <4> QED
        BY <1>1, <1>2
    <3> QED
      BY <1>3, <3>1
  <2>4. CASE wins
    <3>1. new.current = c + 1 /\ new.best = c + 1 /\ new.start = i - c
          /\ new \in [start : Int, best : Int, current : Int]
      <4>1. new = [start |-> (i + 1) - (c + 1), best |-> c + 1, current |-> c + 1]
        BY <2>1, <2>4
      <4>2. c + 1 \in Int /\ (i + 1) - (c + 1) = i - c /\ i - c \in Int
        <5> HIDE DEF a, b, c
        <5> QED
          BY <1>1, <1>2
      <4> HIDE DEF new, c
      <4> QED
        BY <4>1, <4>2
    <3>2. Good(c + 1, i - c)
      <4> SUFFICES ASSUME NEW k, NEW length, Window(k, length)
                   PROVE  /\ length <= c + 1
                          /\ length = c + 1 => IF task.reverse THEN k - 1 <= i - c
                                                               ELSE k - 1 >= i - c
        OBVIOUS
      <4>1. k \in 1 .. i + 1 /\ length \in 1 .. i + 1
        BY <1>6
      <4>2. CASE k + length - 1 <= i
        <5>1. length <= b /\ (length = b => IF task.reverse THEN k - 1 <= a ELSE k - 1 >= a)
          BY <1>4, <4>2
        <5> HIDE DEF a, b, c
        <5> QED
          BY <1>1, <1>2, <2>4, <4>1, <5>1
      <4>3. CASE ~(k + length - 1 <= i)
        <5>1. length <= c + 1 /\ k + length - 1 = i + 1
          BY <1>5, <4>3
        <5> HIDE DEF a, b, c
        <5> QED
          BY <1>1, <1>2, <4>1, <5>1
      <4> QED
        BY <4>2, <4>3
    <3>3. \A k \in 1 .. i + 1, length \in 1 .. i + 1 :
              k + length - 1 <= i + 1 /\ IsClear(task, s, k, length) =>
                  /\ length <= c + 1
                  /\ length = c + 1 => IF task.reverse THEN k - 1 <= i - c ELSE k - 1 >= i - c
      BY <3>2 DEF Window
    <3>4. c + 1 \in 0 .. i + 1 /\ c + 1 > 0 /\ c + 1 # 0 /\ i - c \in 0 .. (i + 1) - (c + 1)
          /\ i - c = (i + 1) - (c + 1)
      <4> HIDE DEF a, b, c
      <4> QED
        BY <1>1, <1>2
    <3>5. IsClear(task, s, (i - c) + 1, c + 1)
      <4>1. (i + 1) - (c + 1) + 1 = (i - c) + 1
        <5> HIDE DEF a, b, c
        <5> QED
          BY <1>1, <1>2
      <4> QED
        BY <2>2, <4>1
    <3> HIDE DEF new, c
    <3>6. RunInv(task, s, i + 1, new)
      BY <2>2, <2>3, <3>1, <3>3, <3>4, <3>5, Zenon DEF RunInv
    <3> QED
      BY <3>6 DEF new
  <2>5. CASE ~wins
    <3>1. new.current = c + 1 /\ new.best = b /\ new.start = a
          /\ new \in [start : Int, best : Int, current : Int]
      <4>1. new = [run EXCEPT !.current = c + 1]
        BY <2>1, <2>5
      <4>2. c + 1 \in Int
        <5> HIDE DEF a, b, c
        <5> QED
          BY <1>1, <1>2
      <4> HIDE DEF new
      <4> QED
        BY <1>2, <4>1, <4>2
    <3>2. Good(b, a)
      <4> SUFFICES ASSUME NEW k, NEW length, Window(k, length)
                   PROVE  /\ length <= b
                          /\ length = b => IF task.reverse THEN k - 1 <= a ELSE k - 1 >= a
        OBVIOUS
      <4>1. k \in 1 .. i + 1 /\ length \in 1 .. i + 1
        BY <1>6
      <4>2. CASE k + length - 1 <= i
        BY <1>4, <4>2
      <4>3. CASE ~(k + length - 1 <= i)
        <5>1. length <= c + 1 /\ k + length - 1 = i + 1
          BY <1>5, <4>3
        <5> HIDE DEF a, b, c
        <5> QED
          BY <1>1, <1>2, <2>5, <4>1, <5>1
      <4> QED
        BY <4>2, <4>3
    <3>3. \A k \in 1 .. i + 1, length \in 1 .. i + 1 :
              k + length - 1 <= i + 1 /\ IsClear(task, s, k, length) =>
                  /\ length <= b
                  /\ length = b => IF task.reverse THEN k - 1 <= a ELSE k - 1 >= a
      BY <3>2 DEF Window
    <3>4. c + 1 \in 0 .. i + 1 /\ b \in 0 .. i + 1 /\ (b > 0 => a \in 0 .. (i + 1) - b)
      <4> HIDE DEF a, b, c
      <4> QED
        BY <1>1, <1>2
    <3> HIDE DEF new, a, b, c
    <3>5. RunInv(task, s, i + 1, new)
      BY <1>2, <1>3, <2>2, <2>3, <3>1, <3>3, <3>4, Zenon DEF RunInv
    <3> QED
      BY <3>5 DEF new
  <2> QED
    BY <2>4, <2>5
<1> QED
  BY <1>7, <1>8

\* The loop knows the best run of all the values in the end.
LEMMA RunInvAtEnd ==
    ASSUME NEW task \in Task, NEW s \in Seq(Int)
    PROVE  RunInv(task, s, Len(s), RunCourse(task, s)[Len(s)])
<1> DEFINE n == Len(s)
           T == {i \in 0 .. n : RunInv(task, s, i, RunCourse(task, s)[i])}
<1>1. n \in Nat /\ 0 \in 0 .. n /\ n \in 0 .. n
  OBVIOUS
<1>2. 0 \in T
  <2>1. RunCourse(task, s)[0] = NoRun
    BY RunCourseDef
  <2>2. RunInv(task, s, 0, NoRun)
    <3>1. NoRun = [start |-> -1, best |-> 0, current |-> 0]
      BY DEF NoRun
    <3>2. IsClear(task, s, 0 - 0 + 1, 0)
      BY DEF IsClear
    <3>3. \A k \in 1 .. 0 : FALSE
      OBVIOUS
    <3> QED
      BY <3>1, <3>2, <3>3 DEF RunInv
  <2> QED
    BY <1>1, <2>1, <2>2
<1>3. ASSUME NEW i \in 0 .. n - 1, i \in T PROVE i + 1 \in T
  <2>1. i + 1 \in 1 .. n /\ i + 1 \in 0 .. n /\ (i + 1) - 1 = i
    BY <1>1
  <2>2. RunInv(task, s, i, RunCourse(task, s)[i])
    BY <1>3
  <2>3. RunInv(task, s, i + 1, NextRun(task, s, RunCourse(task, s)[i], i + 1))
    BY <2>2, RunInvStep
  <2>4. RunCourse(task, s)[i + 1] = NextRun(task, s, RunCourse(task, s)[i], i + 1)
    BY <2>1, RunCourseDef
  <2> QED
    BY <2>1, <2>3, <2>4
<1>4. 0 .. n \subseteq T
  <2> HIDE DEF T, n
  <2> QED
    BY <1>1, <1>2, <1>3, UpTo
<1> QED
  BY <1>1, <1>4

\* Where the first value below the threshold is, from k on.
End(task, s, k) ==
    CHOOSE e \in {j \in 1 .. Len(s) + 1 : j = Len(s) + 1 \/ s[j] < task.threshold} :
        e >= k /\ \A f \in {j \in 1 .. Len(s) + 1 : j = Len(s) + 1 \/ s[j] < task.threshold} :
            f >= k => e <= f

\* A run ends there: the window up to it is clear, and none from k on is longer.
LEMMA EndOfRun ==
    ASSUME NEW task \in Task, NEW s \in Seq(Int), NEW k \in 1 .. Len(s)
    PROVE  /\ End(task, s, k) \in k .. Len(s) + 1
           /\ IsClear(task, s, k, End(task, s, k) - k)
           /\ \A length \in Nat :
                 k + length - 1 <= Len(s) /\ IsClear(task, s, k, length) =>
                     length <= End(task, s, k) - k
<1> DEFINE n == Len(s)
           t == task.threshold
           low == {j \in 1 .. n + 1 : j = n + 1 \/ s[j] < t}
           after == {j \in low : j >= k}
           e == End(task, s, k)
<1>1. n \in Nat /\ k \in 1 .. n /\ \A j \in 1 .. n : s[j] \in Int
  OBVIOUS
<1>2. t \in Int
  BY TaskThreshold
<1>3. n + 1 \in after /\ after \subseteq Nat
  BY <1>1
<1>4. \E m \in after : \A f \in after : m <= f
  <2> HIDE DEF after
  <2> QED
    BY <1>3, Least
<1>5. \E m \in low : m >= k /\ \A f \in low : f >= k => m <= f
  <2> HIDE DEF low
  <2> QED
    BY <1>4
<1>6. e \in low /\ e >= k /\ \A f \in low : f >= k => e <= f
  <2>1. e = CHOOSE m \in low : m >= k /\ \A f \in low : f >= k => m <= f
    BY DEF End
  <2> HIDE DEF low, e
  <2> QED
    BY <1>5, <2>1
<1>7. e \in k .. n + 1 /\ (e = n + 1 \/ s[e] < t)
  BY <1>1, <1>6
<1>8. ASSUME NEW j \in k .. e - 1 PROVE s[j] >= t
  <2>1. j \in 1 .. n /\ j >= k /\ ~(e <= j)
    BY <1>1, <1>7
  <2>2. j \notin low
    BY <1>6, <2>1
  <2> QED
    BY <1>1, <1>2, <2>1, <2>2
<1> HIDE DEF e, t, n
<1>9. IsClear(task, s, k, e - k)
  <2>1. k + (e - k) - 1 = e - 1
    BY <1>1, <1>7
  <2> QED
    BY <1>8, <2>1 DEF IsClear, t
<1>10. ASSUME NEW length \in Nat, k + length - 1 <= n, IsClear(task, s, k, length)
       PROVE  length <= e - k
  <2> SUFFICES ASSUME ~(length <= e - k) PROVE FALSE
    OBVIOUS
  <2>1. e \in k .. k + length - 1 /\ e \in 1 .. n
    BY <1>1, <1>7, <1>10
  <2>2. s[e] >= t
    BY <1>10, <2>1 DEF IsClear, t
  <2>3. s[e] < t /\ s[e] \in Int
    BY <1>1, <1>7, <2>1
  <2> QED
    BY <1>2, <2>2, <2>3
<1> QED
  BY <1>7, <1>9, <1>10 DEF e, n

\* The run the loop has kept is the longest, and of several the one to prefer.
LEMMA LongestRunIsAnswer ==
    ASSUME NEW task \in Task, NEW s \in Seq(Int)
    PROVE  IsLongestRun(task, s, LongestRun(task, s))
<1> DEFINE n == Len(s)
           run == RunCourse(task, s)[n]
           a == run.start
           b == run.best
           qualifying == {r \in Runs(task, s) : r[2] > 0}
           longest == {r \in qualifying : \A other \in qualifying : other[2] <= r[2]}
           result == LongestRun(task, s)
<1>1. n \in Nat /\ task.reverse \in BOOLEAN
  BY TaskParameters
<1>2. RunInv(task, s, n, run)
  BY RunInvAtEnd
<1>3. result = <<a, b>>
  BY RunCourseDef
<1>4. b \in 0 .. n /\ a \in Int /\ (b = 0 => a = -1)
  <2>1. run \in [start : Int, best : Int, current : Int] /\ b \in 0 .. n /\ (b = 0 => a = -1)
    BY <1>2, Zenon DEF RunInv
  <2> QED
    BY <2>1
<1>5. b > 0 => a \in 0 .. n - b /\ IsClear(task, s, a + 1, b)
  BY <1>2, Zenon DEF RunInv
<1>6. \A k \in 1 .. n, length \in 1 .. n :
          k + length - 1 <= n /\ IsClear(task, s, k, length) =>
              /\ length <= b
              /\ length = b => IF task.reverse THEN k - 1 <= a ELSE k - 1 >= a
  BY <1>2, Zenon DEF RunInv
<1>7. Runs(task, s) = {<<k - 1, End(task, s, k) - k>> : k \in 1 .. n}
  BY DEF Runs, End
<1> HIDE DEF run, n
<1> HIDE DEF a, b
<1>8. ASSUME NEW r \in qualifying
      PROVE  /\ r[2] \in 1 .. n /\ r[1] \in Int
             /\ r[2] <= b
             /\ r[2] = b => IF task.reverse THEN r[1] <= a ELSE r[1] >= a
  <2>1. PICK k \in 1 .. n : r = <<k - 1, End(task, s, k) - k>>
    BY <1>7
  <2> DEFINE length == End(task, s, k) - k
  <2>2. r[1] = k - 1 /\ r[2] = length /\ length > 0
    BY <2>1
  <2>3. End(task, s, k) \in k .. n + 1 /\ IsClear(task, s, k, length)
    BY EndOfRun DEF n
  <2>4. length \in 1 .. n /\ k + length - 1 <= n
    BY <1>1, <2>2, <2>3
  <2> HIDE DEF length
  <2>5. /\ length <= b
        /\ length = b => IF task.reverse THEN k - 1 <= a ELSE k - 1 >= a
    BY <1>6, <2>3, <2>4
  <2>6. k - 1 \in Int
    BY <1>1
  <2> QED
    BY <2>2, <2>4, <2>5, <2>6
<1>9. CASE b = 0
  <2>1. qualifying = {}
    <3>1. ASSUME NEW r \in qualifying PROVE FALSE
      <4>1. r[2] \in 1 .. n /\ r[2] <= b
        BY <1>8
      <4> QED
        BY <1>1, <1>9, <4>1
    <3> QED
      BY <3>1
  <2>2. result = <<-1, 0>>
    BY <1>3, <1>4, <1>9
  <2> HIDE DEF result
  <2> QED
    BY <2>1, <2>2 DEF IsLongestRun, result
<1>10. CASE b # 0
  <2>1. b \in 1 .. n /\ a \in 0 .. n - b /\ a + 1 \in 1 .. n /\ (a + 1) + b - 1 <= n
        /\ IsClear(task, s, a + 1, b)
    BY <1>1, <1>4, <1>5, <1>10
  <2> DEFINE e == End(task, s, a + 1)
  <2>2. e \in a + 1 .. n + 1 /\ IsClear(task, s, a + 1, e - (a + 1)) /\ b <= e - (a + 1)
    BY <2>1, EndOfRun DEF n
  <2>3. e - (a + 1) \in 1 .. n /\ (a + 1) + (e - (a + 1)) - 1 <= n
    BY <1>1, <2>1, <2>2
  <2>4. e - (a + 1) <= b
    BY <1>6, <2>1, <2>2, <2>3
  <2>5. e - (a + 1) = b /\ (a + 1) - 1 = a
    BY <1>1, <2>1, <2>2, <2>3, <2>4
  <2>6. <<a, b>> \in Runs(task, s)
    BY <1>7, <2>1, <2>5
  <2>7. <<a, b>> \in qualifying
    BY <2>1, <2>6
  <2>8. <<a, b>> \in longest
    BY <1>8, <2>7
  <2>9. ASSUME NEW other \in longest
        PROVE  IF task.reverse THEN other[1] <= a ELSE other[1] >= a
    <3>1. other \in qualifying /\ <<a, b>>[2] <= other[2]
      BY <2>7
    <3>2. /\ other[2] \in 1 .. n
          /\ other[2] <= b
          /\ other[2] = b => IF task.reverse THEN other[1] <= a ELSE other[1] >= a
      BY <1>8, <3>1
    <3>3. b <= other[2]
      BY <3>1
    <3>4. other[2] = b
      BY <1>1, <2>1, <3>2, <3>3
    <3> QED
      BY <3>2, <3>4
  <2>10. result[1] = a /\ result \in longest /\ qualifying # {}
    BY <1>3, <2>7, <2>8
  <2>11. \A other \in longest :
            IF task.reverse THEN other[1] <= result[1] ELSE other[1] >= result[1]
    BY <2>9, <2>10
  <2> HIDE DEF result
  <2>12. IsLongestRun(task, s, result)
    BY <2>10, <2>11 DEF IsLongestRun
  <2> QED
    BY <2>12 DEF result
<1> QED
  BY <1>9, <1>10

-----------------------------------------------------------------------------
\* Where the values of V are, and how often they occur.
At(s, V) == {k \in 1 .. Len(s) : s[k] \in V}
Count(s, V) == Cardinality(At(s, V))

\* t is s with x put in at position p.
IsInsertion(s, p, x, t) ==
    /\ Len(t) = Len(s) + 1
    /\ p \in 1 .. Len(s) + 1
    /\ t[p] = x
    /\ \A k \in 1 .. Len(s) : IF k < p THEN t[k] = s[k] ELSE t[k + 1] = s[k]

\* A value put in occurs once more, and every other one as often as before.
LEMMA CountInserted ==
    ASSUME NEW s, Len(s) \in Nat, NEW p, NEW x, NEW t, IsInsertion(s, p, x, t), NEW V
    PROVE  /\ Count(s, V) \in Nat
           /\ Count(t, V) = IF x \in V THEN Count(s, V) + 1 ELSE Count(s, V)
<1> DEFINE n == Len(s)
           S == At(s, V)
           T == At(t, V) \ {p}
           f == [k \in S |-> IF k < p THEN k ELSE k + 1]
<1>1. /\ n \in Nat /\ Len(t) = n + 1 /\ p \in 1 .. n + 1 /\ t[p] = x
      /\ \A k \in 1 .. n : IF k < p THEN t[k] = s[k] ELSE t[k + 1] = s[k]
  BY DEF IsInsertion
<1> HIDE DEF n
<1>2. \A k : k \in S <=> k \in 1 .. n /\ s[k] \in V
  BY DEF At, n
<1>3. \A k : k \in At(t, V) <=> k \in 1 .. n + 1 /\ t[k] \in V
  BY <1>1 DEF At
<1>4. IsFiniteSet(S) /\ Cardinality(S) \in Nat
  <2>1. Positions(S, n)
    BY <1>1, <1>2 DEF Positions
  <2> HIDE DEF S
  <2> QED
    BY <2>1, PositionsFinite
<1> HIDE DEF S
<1>5. \A k \in S : f[k] \in T
  <2>1. ASSUME NEW k \in S PROVE f[k] \in 1 .. n + 1 /\ f[k] # p /\ t[f[k]] \in V
    <3>1. k \in 1 .. n /\ s[k] \in V /\ f[k] = IF k < p THEN k ELSE k + 1
      BY <1>2
    <3>2. t[f[k]] = s[k]
      BY <1>1, <3>1
    <3> QED
      BY <1>1, <3>1, <3>2
  <2> QED
    BY <1>3, <2>1
<1>6. \A j, k \in S : f[j] = f[k] => j = k
  <2> SUFFICES ASSUME NEW j \in S, NEW k \in S, f[j] = f[k] PROVE j = k
    OBVIOUS
  <2>1. j \in 1 .. n /\ k \in 1 .. n /\ f[j] = (IF j < p THEN j ELSE j + 1)
        /\ f[k] = (IF k < p THEN k ELSE k + 1)
    BY <1>2
  <2> QED
    BY <1>1, <2>1
<1>7. \A i \in T : \E k \in S : f[k] = i
  <2> SUFFICES ASSUME NEW i \in T PROVE \E k \in S : f[k] = i
    OBVIOUS
  <2>1. i \in 1 .. n + 1 /\ i # p /\ t[i] \in V
    BY <1>3
  <2>2. CASE i < p
    <3>1. i \in 1 .. n /\ s[i] \in V
      BY <1>1, <2>1, <2>2
    <3>2. i \in S /\ f[i] = i
      BY <1>2, <2>2, <3>1
    <3> QED
      BY <3>2
  <2>3. CASE ~(i < p)
    <3>1. i - 1 \in 1 .. n /\ ~(i - 1 < p) /\ (i - 1) + 1 = i
      BY <1>1, <2>1, <2>3
    <3>2. s[i - 1] \in V
      BY <1>1, <2>1, <3>1
    <3>3. i - 1 \in S /\ f[i - 1] = i
      BY <1>2, <3>1, <3>2
    <3> QED
      BY <3>3
  <2> QED
    BY <2>2, <2>3
<1>8. IsFiniteSet(T) /\ Cardinality(T) = Cardinality(S)
  <2>1. f \in [S -> T]
    <3> HIDE DEF T
    <3> QED
      BY <1>5
  <2> HIDE DEF T, f
  <2>2. f \in Bijection(S, T)
    BY <1>6, <1>7, <2>1 DEF Bijection, Injection, Surjection, IsInjective
  <2>3. ExistsBijection(S, T)
    BY <2>2 DEF ExistsBijection
  <2> QED
    BY <1>4, <2>3, FS_Bijection
<1>9. CASE x \in V
  <2>1. At(t, V) = T \union {p} /\ p \notin T
    <3>1. p \in At(t, V)
      BY <1>1, <1>3, <1>9
    <3> QED
      BY <3>1
  <2>2. Cardinality(T \union {p}) = Cardinality(T) + 1
    <3> HIDE DEF T
    <3> QED
      BY <1>8, <2>1, FS_AddElement
  <2> QED
    BY <1>4, <1>8, <1>9, <2>1, <2>2 DEF Count, S
<1>10. CASE x \notin V
  <2>1. p \notin At(t, V)
    BY <1>1, <1>3, <1>10
  <2>2. At(t, V) = T
    BY <2>1
  <2> QED
    BY <1>4, <1>8, <1>10, <2>2 DEF Count, S
<1> QED
  BY <1>9, <1>10

\* A set of first positions is known by its size.
LEMMA FirstPositions ==
    ASSUME NEW n, NEW S, Positions(S, n), \A j \in S : \A k \in 1 .. j : k \in S
    PROVE  Cardinality(S) \in 0 .. n /\ S = 1 .. Cardinality(S)
<1> DEFINE Out == {k \in 1 .. n + 1 : k \notin S}
<1>1. n \in Nat /\ S \subseteq 1 .. n
  BY DEF Positions
<1>2. Out \subseteq Nat /\ n + 1 \in Out
  BY <1>1
<1>3. PICK m \in Out : \A k \in Out : m <= k
  <2> HIDE DEF Out
  <2> QED
    BY <1>2, Least
<1>4. m \in 1 .. n + 1 /\ m \notin S
  BY <1>3
<1>5. S = 1 .. m - 1
  <2>1. ASSUME NEW k \in S PROVE k \in 1 .. m - 1
    <3>1. k \in 1 .. n /\ ~(m \in 1 .. k)
      BY <1>1, <1>4, <2>1
    <3> QED
      BY <1>1, <1>4, <3>1
  <2>2. ASSUME NEW k \in 1 .. m - 1 PROVE k \in S
    <3>1. k \in 1 .. n + 1 /\ ~(m <= k)
      BY <1>1, <1>4
    <3> QED
      BY <1>3, <3>1
  <2> QED
    BY <2>1, <2>2
<1>6. Cardinality(1 .. m - 1) = m - 1
  <2>1. m - 1 \in Nat
    BY <1>1, <1>4
  <2> QED
    BY <2>1, UpToCardinality
<1> QED
  BY <1>1, <1>4, <1>5, <1>6

-----------------------------------------------------------------------------
\* Every value comes no later than those it has to precede.
InOrder(s, descending) ==
    \A j, k \in 1 .. Len(s) : j < k => IF descending THEN s[j] >= s[k] ELSE s[j] <= s[k]

\* A value is put behind all those of an ordered sequence that may stay ahead.
LEMMA PlacedIsInsertion ==
    ASSUME NEW s \in Seq(Int), NEW x \in Int, NEW descending \in BOOLEAN
    PROVE  /\ Placed(s, x, descending) \in Seq(Int)
           /\ \E p : IsInsertion(s, p, x, Placed(s, x, descending))
           /\ InOrder(s, descending) => InOrder(Placed(s, x, descending), descending)
<1> DEFINE n == Len(s)
           Ahead == {k \in 1 .. n : IF descending THEN s[k] >= x ELSE s[k] <= x}
           a == Cardinality(Ahead)
           t == Placed(s, x, descending)
           front == SubSeq(s, 1, a)
           back == SubSeq(s, a + 1, n)
<1>1. n \in Nat /\ s \in Seq(Int) /\ \A k \in 1 .. n : s[k] \in Int
  OBVIOUS
<1>2. a \in 0 .. n
  <2>1. Ahead \subseteq 1 .. n /\ IsFiniteSet(1 .. n) /\ Cardinality(1 .. n) = n
    BY <1>1, UpToCardinality
  <2> HIDE DEF Ahead
  <2>2. IsFiniteSet(Ahead) /\ Cardinality(Ahead) <= n
    BY <2>1, FS_Subset
  <2>3. Cardinality(Ahead) \in Nat
    BY <2>2, FS_CardinalityType
  <2> QED
    BY <1>1, <2>2, <2>3
<1>3. t = front \o <<x>> \o back
  BY DEF Placed
<1>4. \A k \in 1 .. n : k \in Ahead <=> IF descending THEN s[k] >= x ELSE s[k] <= x
  OBVIOUS
<1>14. Ahead \subseteq 1 .. n
  OBVIOUS
<1> HIDE DEF Ahead
<1>5. /\ front \in Seq(Int) /\ Len(front) = a /\ \A k \in 1 .. a : front[k] = s[k]
  <2> HIDE DEF a, n
  <2>1. s \in Seq(Int) /\ a \in 0 .. Len(s)
    BY <1>2 DEF n
  <2> QED
    BY <2>1, PrefixOf
<1>6. /\ back \in Seq(Int) /\ Len(back) = n - a /\ \A k \in 1 .. n - a : back[k] = s[a + k]
  <2> HIDE DEF a, n
  <2>1. s \in Seq(Int) /\ a \in 0 .. Len(s)
    BY <1>2 DEF n
  <2> QED
    BY <2>1, SuffixOf DEF n
<1> HIDE DEF front, back, a, n, t
<1>7. /\ t \in Seq(Int) /\ Len(t) = n + 1
      /\ \A k \in 1 .. a : t[k] = front[k]
      /\ t[a + 1] = x
      /\ \A k \in 1 .. n - a : t[a + 1 + k] = back[k]
  <2> DEFINE head == front \o <<x>>
  <2>1. /\ head \in Seq(Int) /\ Len(head) = a + 1 /\ head[a + 1] = x
        /\ \A k \in 1 .. a : head[k] = front[k]
    BY <1>2, <1>5
  <2>2. t = head \o back
    BY <1>3
  <2> HIDE DEF head
  <2>3. /\ t \in Seq(Int) /\ Len(t) = Len(head) + Len(back)
        /\ \A k \in 1 .. Len(head) : t[k] = head[k]
        /\ \A k \in 1 .. Len(back) : t[Len(head) + k] = back[k]
    <3>1. back \in Seq(Int) /\ head \in Seq(Int)
      BY <1>6, <2>1
    <3> QED
      BY <2>2, <3>1, Joined
  <2>4. \A k \in 1 .. a + 1 : t[k] = head[k]
    BY <2>1, <2>3
  <2>5. \A k \in 1 .. n - a : t[a + 1 + k] = back[k]
    BY <1>6, <2>1, <2>3
  <2>6. Len(t) = n + 1
    BY <1>1, <1>2, <1>6, <2>1, <2>3
  <2>7. a + 1 \in 1 .. a + 1 /\ \A k \in 1 .. a : k \in 1 .. a + 1
    BY <1>2
  <2> QED
    BY <2>1, <2>3, <2>4, <2>5, <2>6, <2>7, Zenon
<1>8. ASSUME NEW k \in 1 .. n PROVE IF k < a + 1 THEN t[k] = s[k] ELSE t[k + 1] = s[k]
  <2>1. CASE k < a + 1
    <3>1. k \in 1 .. a
      BY <1>1, <1>2, <2>1
    <3> QED
      BY <1>5, <1>7, <2>1, <3>1
  <2>2. CASE ~(k < a + 1)
    <3> DEFINE i == k - a
    <3>1. i \in 1 .. n - a /\ a + 1 + i = k + 1 /\ a + i = k
      BY <1>1, <1>2, <2>2
    <3> HIDE DEF i
    <3>2. back[i] = s[k] /\ t[k + 1] = back[i]
      BY <1>6, <1>7, <3>1
    <3> QED
      BY <2>2, <3>2
  <2> QED
    BY <2>1, <2>2
<1>9. a + 1 \in 1 .. n + 1
  BY <1>1, <1>2
<1>10. IsInsertion(s, a + 1, x, t)
  BY <1>7, <1>8, <1>9 DEF IsInsertion, n
<1>11. ASSUME InOrder(s, descending) PROVE InOrder(t, descending)
  <2>0. \A j, k \in 1 .. n : j < k => IF descending THEN s[j] >= s[k] ELSE s[j] <= s[k]
    BY <1>11 DEF InOrder, n
  <2>1. Ahead = 1 .. a
    <3>1. Positions(Ahead, n)
      BY <1>1, <1>14 DEF Positions
    <3>2. ASSUME NEW j \in Ahead, NEW k \in 1 .. j PROVE k \in Ahead
      <4>1. j \in 1 .. n /\ k \in 1 .. n /\ (k = j \/ k < j)
        BY <1>1, <1>14
      <4>2. s[j] \in Int /\ s[k] \in Int
        BY <1>1, <4>1
      <4> QED
        BY <1>4, <2>0, <4>1, <4>2
    <3> QED
      BY <3>1, <3>2, FirstPositions DEF a
  <2>2. \A k \in 1 .. n : k <= a <=> IF descending THEN s[k] >= x ELSE s[k] <= x
    BY <1>1, <1>2, <1>4, <2>1
  <2>3. ASSUME NEW k \in 1 .. n + 1
        PROVE  \/ k <= a /\ k \in 1 .. n /\ t[k] = s[k]
               \/ k = a + 1 /\ t[k] = x
               \/ k > a + 1 /\ k - 1 \in 1 .. n /\ t[k] = s[k - 1]
    <3>1. CASE k <= a
      BY <1>1, <1>2, <1>8, <3>1
    <3>2. CASE k = a + 1
      BY <1>7, <3>2
    <3>3. CASE k > a + 1
      <4>1. k - 1 \in 1 .. n /\ ~(k - 1 < a + 1) /\ (k - 1) + 1 = k
        BY <1>1, <1>2, <3>3
      <4> QED
        BY <1>8, <3>3, <4>1
    <3> QED
      BY <1>1, <1>2, <3>1, <3>2, <3>3
  <2>4. ASSUME NEW j \in 1 .. n + 1, NEW k \in 1 .. n + 1, j < k
        PROVE  IF descending THEN t[j] >= t[k] ELSE t[j] <= t[k]
    <3>1. CASE k <= a
      <4>1. j <= a
        BY <1>2, <2>4, <3>1
      <4>2. t[j] = s[j] /\ t[k] = s[k] /\ j \in 1 .. n /\ k \in 1 .. n
        BY <1>2, <2>3, <3>1, <4>1
      <4> QED
        BY <2>0, <2>4, <4>2
    <3>2. CASE k = a + 1
      <4>1. j <= a
        BY <1>2, <2>4, <3>2
      <4>2. t[j] = s[j] /\ t[k] = x /\ j \in 1 .. n
        BY <1>2, <2>3, <3>2, <4>1
      <4> QED
        BY <2>2, <4>1, <4>2
    <3>3. CASE k > a + 1
      <4>1. t[k] = s[k - 1] /\ k - 1 \in 1 .. n /\ ~(k - 1 <= a)
        BY <1>2, <2>3, <3>3
      <4>2. s[k - 1] \in Int /\ ~(IF descending THEN s[k - 1] >= x ELSE s[k - 1] <= x)
        BY <1>1, <2>2, <4>1
      <4>3. CASE j <= a
        <5>1. t[j] = s[j] /\ j \in 1 .. n /\ j < k - 1
          BY <1>1, <1>2, <2>3, <3>3, <4>3
        <5> QED
          BY <2>0, <4>1, <5>1
      <4>4. CASE j = a + 1
        <5>1. t[j] = x
          BY <1>7, <4>4
        <5> QED
          BY <4>1, <4>2, <5>1
      <4>5. CASE j > a + 1
        <5>1. t[j] = s[j - 1] /\ j - 1 \in 1 .. n /\ j - 1 < k - 1
          BY <1>1, <1>2, <2>3, <2>4, <4>5
        <5> QED
          BY <2>0, <4>1, <5>1
      <4> QED
        BY <1>1, <1>2, <4>3, <4>4, <4>5
    <3> QED
      BY <1>1, <1>2, <3>1, <3>2, <3>3
  <2> QED
    BY <1>7, <2>4 DEF InOrder
<1> QED
  BY <1>7, <1>10, <1>11 DEF t

-----------------------------------------------------------------------------
\* The first values in order.
SortedCourse(s, descending) ==
    CHOOSE f : f = [k \in 0 .. Len(s) |->
                       IF k = 0 THEN <<>> ELSE Placed(f[k - 1], s[k], descending)]

\* Sorting places one value after the other.
LEMMA SortedCourseDef ==
    ASSUME NEW s \in Seq(Int), NEW descending \in BOOLEAN
    PROVE  /\ Sorted(s, descending) = SortedCourse(s, descending)[Len(s)]
           /\ SortedCourse(s, descending)[0] = <<>>
           /\ \A k \in 1 .. Len(s) : SortedCourse(s, descending)[k] =
                 Placed(SortedCourse(s, descending)[k - 1], s[k], descending)
           /\ \A k \in 0 .. Len(s) : SortedCourse(s, descending)[k] \in Seq(Int)
<1> DEFINE n == Len(s)
           V == Seq(Int)
           step == [k \in 1 .. n |-> [sorted \in V |-> Placed(sorted, s[k], descending)]]
           next(f) == [k \in 0 .. n |->
                          IF k = 0 THEN <<>> ELSE Placed(f[k - 1], s[k], descending)]
<1>1. n \in Nat /\ <<>> \in V /\ \A k \in 1 .. n : s[k] \in Int
  OBVIOUS
<1>2. ASSUME NEW sorted \in V, NEW k \in 1 .. n PROVE Placed(sorted, s[k], descending) \in V
  BY <1>1, PlacedIsInsertion
<1>4. ASSUME NEW h
      PROVE  /\ DOMAIN next(h) = 0 .. n
             /\ next(h)[0] = <<>>
             /\ \A k \in 1 .. n : next(h)[k] = Placed(h[k - 1], s[k], descending)
  <2>1. 0 \in 0 .. n /\ \A k \in 1 .. n : k \in 0 .. n /\ k # 0
    BY <1>1
  <2> QED
    BY <2>1, Zenon
<1>5. StepsOn(V, <<>>, n, step)
  <2>1. step \in [1 .. n -> [V -> V]]
    <3> HIDE DEF V
    <3> QED
      BY <1>2
  <2> HIDE DEF step
  <2> QED
    BY <1>1, <2>1 DEF StepsOn
<1>6. PICK f : IsCourse(f, V, <<>>, n, step)
  <2> HIDE DEF n, step, V
  <2> QED
    BY <1>5, CourseExists
<1>7. f \in [0 .. n -> V] /\ f[0] = <<>> /\ \A k \in 1 .. n : f[k] = step[k][f[k - 1]]
  BY <1>6 DEF IsCourse
<1>8. ASSUME NEW k \in 1 .. n PROVE f[k] = Placed(f[k - 1], s[k], descending)
  <2>1. k - 1 \in 0 .. n
    BY <1>1
  <2>2. f[k - 1] \in V
    BY <1>7, <2>1, Zenon
  <2> QED
    BY <1>7, <2>2, Zenon
<1>9. f = next(f)
  <2>1. f[0] = next(f)[0] /\ \A k \in 1 .. n : f[k] = next(f)[k]
    <3> HIDE DEF next
    <3> QED
      BY <1>4, <1>7, <1>8, Zenon
  <2>2. \A k \in 0 .. n : k = 0 \/ k \in 1 .. n
    BY <1>1
  <2>3. \A k \in 0 .. n : f[k] = next(f)[k]
    BY <2>1, <2>2, Zenon
  <2>4. DOMAIN f = 0 .. n /\ DOMAIN next(f) = 0 .. n /\ f = [k \in DOMAIN f |-> f[k]]
    <3> HIDE DEF next, V
    <3> QED
      BY <1>4, <1>7
  <2> QED
    BY <2>3, <2>4
<1> DEFINE g == SortedCourse(s, descending)
<1>10. g = next(g)
  BY <1>9 DEF SortedCourse
<1>11. Sorted(s, descending) = g[n]
  BY DEF Sorted, Fold, SortedCourse
<1>12. g[0] = <<>> /\ \A k \in 1 .. n : g[k] = Placed(g[k - 1], s[k], descending)
  <2> HIDE DEF next
  <2> QED
    BY <1>4, <1>10
<1> HIDE DEF g, next, V
<1>13. \A k \in 0 .. n : g[k] \in V
  <2>1. ASSUME NEW k \in 1 .. n, g[k - 1] \in V PROVE g[k] \in V
    BY <1>2, <1>12, <2>1
  <2>2. g[0] \in V
    BY <1>1, <1>12
  <2> HIDE DEF n
  <2> QED
    BY <1>1, <2>1, <2>2, StaysIn
<1> QED
  BY <1>11, <1>12, <1>13 DEF g, V

\* A sort leaves the values in order, as many as there were.
LEMMA SortedInOrder ==
    ASSUME NEW s \in Seq(Int), NEW descending \in BOOLEAN
    PROVE  /\ Sorted(s, descending) \in Seq(Int)
           /\ Len(Sorted(s, descending)) = Len(s)
           /\ InOrder(Sorted(s, descending), descending)
<1> DEFINE n == Len(s)
           g == SortedCourse(s, descending)
           T == {k \in 0 .. n : Len(g[k]) = k /\ InOrder(g[k], descending)}
<1>1. n \in Nat /\ 0 \in 0 .. n /\ n \in 0 .. n /\ \A k \in 1 .. n : s[k] \in Int
  OBVIOUS
<1>2. 0 \in T
  <2>1. g[0] = <<>> /\ Len(<<>>) = 0
    BY SortedCourseDef
  <2>2. InOrder(<<>>, descending)
    BY DEF InOrder
  <2> QED
    BY <1>1, <2>1, <2>2
<1>3. ASSUME NEW k \in 0 .. n - 1, k \in T PROVE k + 1 \in T
  <2>1. k + 1 \in 1 .. n /\ k + 1 \in 0 .. n /\ (k + 1) - 1 = k /\ k \in 0 .. n /\ s[k + 1] \in Int
    BY <1>1
  <2>2. g[k] \in Seq(Int) /\ g[k + 1] = Placed(g[k], s[k + 1], descending)
    BY <2>1, SortedCourseDef
  <2>3. Len(g[k]) = k /\ InOrder(g[k], descending)
    BY <1>3
  <2> HIDE DEF g
  <2>4. /\ \E p : IsInsertion(g[k], p, s[k + 1], g[k + 1])
        /\ InOrder(g[k + 1], descending)
    BY <2>1, <2>2, <2>3, PlacedIsInsertion
  <2>5. Len(g[k + 1]) = k + 1
    BY <2>3, <2>4 DEF IsInsertion
  <2> QED
    BY <2>1, <2>4, <2>5
<1>4. 0 .. n \subseteq T
  <2> HIDE DEF T, n
  <2> QED
    BY <1>1, <1>2, <1>3, UpTo
<1>5. Sorted(s, descending) = g[n] /\ g[n] \in Seq(Int)
  BY <1>1, SortedCourseDef
<1> QED
  BY <1>1, <1>4, <1>5

\* A sort keeps every value as often as it is there.
LEMMA SortedCounts ==
    ASSUME NEW s \in Seq(Int), NEW descending \in BOOLEAN, NEW V
    PROVE  Count(Sorted(s, descending), V) = Count(s, V)
<1> DEFINE n == Len(s)
           g == SortedCourse(s, descending)
           S == At(s, V)
           T == {k \in 0 .. n : Count(g[k], V) = Rank(S, k)}
<1>1. n \in Nat /\ 0 \in 0 .. n /\ n \in 0 .. n /\ \A k \in 1 .. n : s[k] \in Int
  OBVIOUS
<1>2. Positions(S, n)
  BY <1>1 DEF Positions, At
<1>3. \A k \in 1 .. n : k \in S <=> s[k] \in V
  BY DEF At
<1> HIDE DEF S
<1>4. 0 \in T
  <2>1. g[0] = <<>> /\ Len(<<>>) = 0
    BY SortedCourseDef
  <2>2. At(<<>>, V) = {}
    BY <2>1 DEF At
  <2>3. Count(g[0], V) = 0
    BY <2>1, <2>2, FS_EmptySet DEF Count
  <2>4. Rank(S, 0) = 0
    BY <1>2, RankDef
  <2> QED
    BY <1>1, <2>3, <2>4
<1>5. ASSUME NEW k \in 0 .. n - 1, k \in T PROVE k + 1 \in T
  <2>1. k + 1 \in 1 .. n /\ k + 1 \in 0 .. n /\ (k + 1) - 1 = k /\ k \in 0 .. n /\ s[k + 1] \in Int
    BY <1>1
  <2>2. g[k] \in Seq(Int) /\ g[k + 1] = Placed(g[k], s[k + 1], descending)
    BY <2>1, SortedCourseDef
  <2>3. Count(g[k], V) = Rank(S, k)
    BY <1>5
  <2> HIDE DEF g
  <2>4. PICK p : IsInsertion(g[k], p, s[k + 1], g[k + 1])
    BY <2>1, <2>2, PlacedIsInsertion
  <2>5. Len(g[k]) \in Nat
    BY <2>2
  <2>6. Count(g[k + 1], V) = IF s[k + 1] \in V THEN Count(g[k], V) + 1 ELSE Count(g[k], V)
    BY <2>4, <2>5, CountInserted
  <2>7. Rank(S, k + 1) = IF k + 1 \in S THEN Rank(S, k) + 1 ELSE Rank(S, k)
    BY <1>2, <2>1, RankDef
  <2> QED
    BY <1>3, <2>1, <2>3, <2>6, <2>7
<1>6. 0 .. n \subseteq T
  <2> HIDE DEF T, n
  <2> QED
    BY <1>1, <1>4, <1>5, UpTo
<1>7. Sorted(s, descending) = g[n]
  BY SortedCourseDef
<1>8. Rank(S, n) = Cardinality(S)
  BY <1>2, RankDef
<1> QED
  BY <1>1, <1>6, <1>7, <1>8 DEF Count, S

\* A sort has the values it was given.
LEMMA SortedHas ==
    ASSUME NEW s \in Seq(Int), NEW descending \in BOOLEAN
    PROVE  /\ \A j \in 1 .. Len(s) : \E i \in 1 .. Len(s) : Sorted(s, descending)[i] = s[j]
           /\ \A i \in 1 .. Len(s) : \E j \in 1 .. Len(s) : Sorted(s, descending)[i] = s[j]
<1> DEFINE t == Sorted(s, descending)
           n == Len(s)
<1>1. t \in Seq(Int) /\ Len(t) = n /\ n \in Nat
  BY SortedInOrder
<1>2. ASSUME NEW V PROVE Count(t, V) = Count(s, V)
  BY SortedCounts
<1> HIDE DEF t
<1>3. ASSUME NEW q, Len(q) \in Nat, NEW x
      PROVE  Count(q, {x}) = 0 <=> ~\E k \in 1 .. Len(q) : q[k] = x
  <2>1. Positions(At(q, {x}), Len(q))
    BY <1>3 DEF Positions, At
  <2>2. IsFiniteSet(At(q, {x}))
    BY <2>1, PositionsFinite
  <2>3. Count(q, {x}) = 0 <=> At(q, {x}) = {}
    BY <2>2, FS_EmptySet DEF Count
  <2>4. At(q, {x}) = {} <=> ~\E k \in 1 .. Len(q) : q[k] = x
    BY DEF At
  <2> QED
    BY <2>3, <2>4
<1>4. ASSUME NEW x PROVE (\E k \in 1 .. n : t[k] = x) <=> (\E k \in 1 .. n : s[k] = x)
  <2>1. Count(t, {x}) = Count(s, {x})
    BY <1>2
  <2>2. Count(t, {x}) = 0 <=> ~\E k \in 1 .. n : t[k] = x
    BY <1>1, <1>3
  <2>3. Count(s, {x}) = 0 <=> ~\E k \in 1 .. n : s[k] = x
    BY <1>1, <1>3
  <2> QED
    BY <2>1, <2>2, <2>3
<1> HIDE DEF n
<1>5. \A j \in 1 .. n : \E i \in 1 .. n : t[i] = s[j]
  BY <1>4
<1>6. \A i \in 1 .. n : \E j \in 1 .. n : t[i] = s[j]
  BY <1>4
<1> QED
  BY <1>5, <1>6 DEF t, n

\* Of the positions that are kept, as many hold a value of V as the kept values do.
LEMMA KeptCounts ==
    ASSUME NEW A, NEW s \in Seq(A), NEW S, Positions(S, Len(s)), NEW V
    PROVE  Count(Keep(s, S), V) = Cardinality({k \in S : s[k] \in V})
<1> DEFINE n == Len(s)
           g == Kept(s, S)
           P == {k \in S : s[k] \in V}
           T == {k \in 0 .. n : Count(g[k], V) = Rank(P, k)}
<1>1. n \in Nat /\ 0 \in 0 .. n /\ n \in 0 .. n /\ \A k \in 1 .. n : s[k] \in A
  OBVIOUS
<1>2. Positions(P, n)
  BY <1>1 DEF Positions
<1>3. \A k : k \in P <=> k \in S /\ s[k] \in V
  OBVIOUS
<1> HIDE DEF P
<1>4. 0 \in T
  <2>1. g[0] = <<>> /\ Len(<<>>) = 0
    BY KeptDef
  <2>2. At(<<>>, V) = {}
    BY <2>1 DEF At
  <2>3. Count(g[0], V) = 0
    BY <2>1, <2>2, FS_EmptySet DEF Count
  <2>4. Rank(P, 0) = 0
    BY <1>2, RankDef
  <2> QED
    BY <1>1, <2>3, <2>4
<1>5. ASSUME NEW k \in 0 .. n - 1, k \in T PROVE k + 1 \in T
  <2>1. k + 1 \in 1 .. n /\ k + 1 \in 0 .. n /\ (k + 1) - 1 = k /\ k \in 0 .. n /\ s[k + 1] \in A
    BY <1>1
  <2>2. g[k] \in Seq(A) /\ g[k + 1] = IF k + 1 \in S THEN Append(g[k], s[k + 1]) ELSE g[k]
    BY <2>1, KeptDef
  <2>3. Count(g[k], V) = Rank(P, k)
    BY <1>5
  <2>4. Rank(P, k + 1) = IF k + 1 \in P THEN Rank(P, k) + 1 ELSE Rank(P, k)
    BY <1>2, <2>1, RankDef
  <2> HIDE DEF g
  <2>5. CASE k + 1 \in S
    <3>1. g[k + 1] = Append(g[k], s[k + 1])
      BY <2>2, <2>5
    <3>2. IsInsertion(g[k], Len(g[k]) + 1, s[k + 1], g[k + 1]) /\ Len(g[k]) \in Nat
      BY <2>1, <2>2, <3>1 DEF IsInsertion
    <3>3. Count(g[k + 1], V) = IF s[k + 1] \in V THEN Count(g[k], V) + 1 ELSE Count(g[k], V)
      BY <3>2, CountInserted
    <3> QED
      BY <1>3, <2>1, <2>3, <2>4, <2>5, <3>3
  <2>6. CASE k + 1 \notin S
    BY <1>3, <2>1, <2>2, <2>3, <2>4, <2>6
  <2> QED
    BY <2>5, <2>6
<1>6. 0 .. n \subseteq T
  <2> HIDE DEF T, n
  <2> QED
    BY <1>1, <1>4, <1>5, UpTo
<1>7. Keep(s, S) = g[n]
  BY KeptDef
<1>8. Rank(P, n) = Cardinality(P)
  BY <1>2, RankDef
<1> QED
  BY <1>1, <1>6, <1>7, <1>8 DEF P

-----------------------------------------------------------------------------
\* The values that come before x.
Before(x, descending) == {y \in Int : IF descending THEN y > x ELSE y < x}

\* The limit cuts the copies off where it cuts the values off.
LEMMA Room ==
    ASSUME NEW w \in Nat, NEW l \in Nat, NEW a \in Nat, NEW c \in Nat, a + c <= l
    PROVE  (IF LesserOf(w, l) <= a THEN 0 ELSE LesserOf(c, LesserOf(w, l) - a))
           = IF w - a <= 0 THEN 0 ELSE LesserOf(c, w - a)
<1>1. CASE w < l
  BY <1>1 DEF LesserOf
<1>2. CASE ~(w < l)
  BY <1>2 DEF LesserOf
<1> QED
  BY <1>1, <1>2

\* Of an ordered sequence's first m values, as many are x as there is room for
\* behind those that come before x.
LEMMA OrderedPrefix ==
    ASSUME NEW s \in Seq(Int), NEW descending \in BOOLEAN, InOrder(s, descending),
           NEW m \in 0 .. Len(s), NEW x \in Int
    PROVE  LET ahead == Count(s, Before(x, descending))
               copies == Count(s, {x})
           IN  /\ ahead \in Nat /\ copies \in Nat /\ ahead + copies <= Len(s)
               /\ Count(SubSeq(s, 1, m), {x}) =
                     IF m <= ahead THEN 0 ELSE LesserOf(copies, m - ahead)
<1> DEFINE n == Len(s)
           B == At(s, Before(x, descending))
           E == At(s, {x})
           a == Cardinality(B)
           c == Cardinality(E)
           u == SubSeq(s, 1, m)
<1>1. n \in Nat /\ m \in Nat /\ m <= n /\ \A k \in 1 .. n : s[k] \in Int
  OBVIOUS
<1>2. \A k : k \in B <=> k \in 1 .. n /\ (IF descending THEN s[k] > x ELSE s[k] < x)
  BY <1>1 DEF At, Before
<1>3. \A k : k \in E <=> k \in 1 .. n /\ s[k] = x
  BY DEF At
<1>4. \A j, k \in 1 .. n : j < k => IF descending THEN s[j] >= s[k] ELSE s[j] <= s[k]
  BY DEF InOrder
<1>5. \A k \in 1 .. m : u[k] = s[k]
  BY <1>1
<1>6. Len(u) = m
  BY <1>1
<1> HIDE DEF n, u, B, E
<1>7. Positions(B, n) /\ Positions(B \union E, n) /\ Positions(E, n)
  BY <1>1, <1>2, <1>3 DEF Positions
<1>8. a \in 0 .. n /\ B = 1 .. a
  <2>1. ASSUME NEW j \in B, NEW k \in 1 .. j PROVE k \in B
    <3>1. j \in 1 .. n /\ k \in 1 .. n /\ (k = j \/ k < j) /\ s[j] \in Int /\ s[k] \in Int
      BY <1>1, <1>2
    <3> QED
      BY <1>2, <1>4, <3>1
  <2> QED
    BY <1>7, <2>1, FirstPositions
<1>9. Cardinality(B \union E) = a + c /\ c \in Nat
  <2>1. IsFiniteSet(B) /\ IsFiniteSet(E) /\ a \in Nat /\ c \in Nat
    BY <1>7, PositionsFinite
  <2>2. B \intersect E = {}
    BY <1>2, <1>3
  <2>3. Cardinality(B \union E) = a + c - Cardinality(B \intersect E)
    BY <2>1, FS_Union
  <2>4. Cardinality(B \intersect E) = 0
    BY <2>2, FS_EmptySet
  <2> HIDE DEF a, c
  <2> QED
    BY <2>1, <2>3, <2>4
<1>10. a + c \in 0 .. n /\ B \union E = 1 .. a + c
  <2>1. \A k : k \in B \union E <=>
            k \in 1 .. n /\ (IF descending THEN s[k] >= x ELSE s[k] <= x)
    BY <1>1, <1>2, <1>3
  <2>2. ASSUME NEW j \in B \union E, NEW k \in 1 .. j PROVE k \in B \union E
    <3>1. j \in 1 .. n /\ k \in 1 .. n /\ (k = j \/ k < j) /\ s[j] \in Int /\ s[k] \in Int
      BY <1>1, <2>1
    <3>2. IF descending THEN s[j] >= x ELSE s[j] <= x
      BY <2>1
    <3>3. k = j \/ (IF descending THEN s[k] >= s[j] ELSE s[k] <= s[j])
      BY <1>4, <3>1
    <3>4. IF descending THEN s[k] >= x ELSE s[k] <= x
      BY <3>1, <3>2, <3>3
    <3> QED
      BY <2>1, <3>1, <3>4
  <2>3. Cardinality(B \union E) \in 0 .. n /\ B \union E = 1 .. Cardinality(B \union E)
    BY <1>7, <2>2, FirstPositions
  <2> QED
    BY <1>9, <2>3
<1> HIDE DEF a, c
<1>11. E = a + 1 .. a + c
  <2>1. B \intersect E = {}
    BY <1>2, <1>3
  <2>2. \A k : k \in E <=> k \in 1 .. a + c /\ k \notin 1 .. a
    BY <1>8, <1>10, <2>1
  <2>3. \A k \in 1 .. a + c : k \notin 1 .. a <=> k \in a + 1 .. a + c
    BY <1>8, <1>9
  <2>4. \A k \in a + 1 .. a + c : k \in 1 .. a + c
    BY <1>8, <1>9
  <2>5. \A k : k \in E <=> k \in a + 1 .. a + c
    BY <2>2, <2>3, <2>4, Zenon
  <2> QED
    BY <2>5
<1>12. At(u, {x}) = a + 1 .. LesserOf(a + c, m)
  <2>1. \A k : k \in At(u, {x}) <=> k \in 1 .. m /\ u[k] = x
    BY <1>6 DEF At
  <2>2. \A k : k \in At(u, {x}) <=> k \in 1 .. m /\ k \in E
    <3>1. \A k \in 1 .. m : k \in 1 .. n
      BY <1>1
    <3> QED
      BY <1>3, <1>5, <2>1, <3>1, Zenon
  <2>3. LesserOf(a + c, m) = IF a + c < m THEN a + c ELSE m
    BY DEF LesserOf
  <2>4. \A k : k \in At(u, {x}) <=> k \in a + 1 .. LesserOf(a + c, m)
    <3>1. \A k : k \in 1 .. m /\ k \in a + 1 .. a + c <=> k \in a + 1 .. LesserOf(a + c, m)
      BY <1>1, <1>8, <1>9, <2>3
    <3> QED
      BY <1>11, <2>2, <3>1, Zenon
  <2> QED
    BY <2>4
<1>13. Cardinality(At(u, {x})) = IF m <= a THEN 0 ELSE LesserOf(c, m - a)
  <2>1. a + 1 \in Int /\ LesserOf(a + c, m) \in Int
    BY <1>1, <1>8, <1>9 DEF LesserOf
  <2>2. Cardinality(At(u, {x})) =
            IF a + 1 > LesserOf(a + c, m) THEN 0 ELSE LesserOf(a + c, m) - (a + 1) + 1
    BY <1>12, <2>1, FS_Interval
  <2> QED
    BY <1>1, <1>8, <1>9, <2>2 DEF LesserOf
<1>14. Count(u, {x}) = Cardinality(At(u, {x})) /\ Count(s, {x}) = c
       /\ Count(s, Before(x, descending)) = a
  BY DEF Count, a, c, B, E
<1>15. a \in Nat /\ c \in Nat /\ a + c <= n
  BY <1>1, <1>8, <1>9, <1>10
<1> QED
  BY <1>13, <1>14, <1>15 DEF u, n

\* The first values of the sort are as many, in the order, and as often each, as
\* the prompt says.
LEMMA SortLimitIsAnswer ==
    ASSUME NEW task \in Task, NEW input \in Seq(Int)
    PROVE  IsSortedAndLimited(task, input, SortLimit(task, input))
<1> DEFINE value(k) == Transform(task, input[k])
           before(x, y) == IF task.reverse THEN x > y ELSE x < y
           kept == {k \in 1 .. Len(input) : input[k] >= task.threshold}
           copies(x) == Cardinality({k \in kept : value(k) = x})
           room(x) == task.width - Cardinality({k \in kept : before(value(k), x)})
           listed(r, x) == Cardinality({i \in 1 .. Len(r) : r[i] = x})
           F == Keep(input, kept)
           t == TransformAll(task, F)
           s == Sorted(t, task.reverse)
           m == LesserOf(task.width, Len(s))
           result == SubSeq(s, 1, m)
<1>1. task.width \in 1 .. 6 /\ task.reverse \in BOOLEAN
  BY TaskParameters
<1>2. \A k \in 1 .. Len(input) : input[k] \in Int /\ value(k) \in Int
  BY TransformIsInt
<1>3. Positions(kept, Len(input)) /\ kept \subseteq 1 .. Len(input)
  BY DEF Positions
<1>4. SortLimit(task, input) = result
  BY DEF SortLimit, Filter
<1> HIDE DEF kept
<1>5. F \in Seq(Int) /\ Len(F) = Cardinality(kept)
  BY <1>3, KeepLists
<1>6. /\ t \in Seq(Int) /\ Len(t) = Len(F)
      /\ \A i \in 1 .. Len(F) : t[i] = Transform(task, F[i])
  <2> HIDE DEF F
  <2> QED
    BY <1>5, TransformAllDef
<1>7. ASSUME NEW V PROVE Count(t, V) = Cardinality({k \in kept : value(k) \in V})
  <2> DEFINE W == {y \in Int : Transform(task, y) \in V}
  <2>1. Count(F, W) = Cardinality({k \in kept : input[k] \in W})
    BY <1>3, KeptCounts
  <2>2. \A i \in 1 .. Len(F) : F[i] \in Int
    <3> HIDE DEF F
    <3> QED
      BY <1>5
  <2>3. At(t, V) = At(F, W)
    <3>1. \A i \in 1 .. Len(F) : t[i] \in V <=> F[i] \in W
      BY <1>6, <2>2
    <3> HIDE DEF t, F, W
    <3> QED
      BY <1>6, <3>1 DEF At
  <2>4. {k \in kept : input[k] \in W} = {k \in kept : value(k) \in V}
    BY <1>2, <1>3
  <2> QED
    BY <2>1, <2>3, <2>4 DEF Count
<1> HIDE DEF t, F
<1>8. /\ s \in Seq(Int) /\ Len(s) = Cardinality(kept)
      /\ InOrder(s, task.reverse)
  BY <1>1, <1>5, <1>6, SortedInOrder
<1>9. ASSUME NEW V PROVE Count(s, V) = Cardinality({k \in kept : value(k) \in V})
  BY <1>1, <1>6, <1>7, SortedCounts
<1> HIDE DEF s
<1>10. Len(s) \in Nat /\ m \in 0 .. Len(s) /\ \A i \in 1 .. Len(s) : s[i] \in Int
  BY <1>1, <1>8 DEF LesserOf
<1>11. Len(result) = m /\ \A i \in 1 .. m : result[i] = s[i]
  <2> HIDE DEF m
  <2> QED
    BY <1>8, <1>10
<1>12. \A i \in 1 .. Len(result) - 1 : ~before(result[i + 1], result[i])
  <2>1. ASSUME NEW i \in 1 .. m - 1 PROVE ~before(s[i + 1], s[i])
    <3>1. i \in 1 .. Len(s) /\ i + 1 \in 1 .. Len(s) /\ i < i + 1
      BY <1>10
    <3>2. IF task.reverse THEN s[i] >= s[i + 1] ELSE s[i] <= s[i + 1]
      BY <1>8, <3>1 DEF InOrder
    <3> QED
      BY <1>10, <3>1, <3>2
  <2>2. \A i \in 1 .. m - 1 : i \in 1 .. m /\ i + 1 \in 1 .. m
    BY <1>10
  <2> HIDE DEF m, result
  <2> QED
    BY <1>11, <2>1, <2>2
<1>13. Len(result) = LesserOf(task.width, Cardinality(kept))
  BY <1>8, <1>11
<1>14. ASSUME NEW x \in {value(k) : k \in kept}
       PROVE  listed(result, x) = IF room(x) <= 0 THEN 0 ELSE LesserOf(copies(x), room(x))
  <2> DEFINE a == Cardinality({k \in kept : before(value(k), x)})
             c == copies(x)
  <2>1. x \in Int
    BY <1>2, <1>3
  <2>2. Count(s, {x}) = c
    <3>1. {k \in kept : value(k) \in {x}} = {k \in kept : value(k) = x}
      OBVIOUS
    <3> QED
      BY <1>9, <3>1
  <2>3. Count(s, Before(x, task.reverse)) = a
    <3>1. {k \in kept : value(k) \in Before(x, task.reverse)}
          = {k \in kept : before(value(k), x)}
      BY <1>2, <1>3 DEF Before
    <3> QED
      BY <1>9, <3>1
  <2> HIDE DEF a, c, m
  <2>4. /\ a \in Nat /\ c \in Nat /\ a + c <= Len(s)
        /\ Count(result, {x}) = IF m <= a THEN 0 ELSE LesserOf(c, m - a)
    BY <1>1, <1>8, <1>10, <2>1, <2>2, <2>3, OrderedPrefix
  <2>5. listed(result, x) = Count(result, {x})
    <3>1. {i \in 1 .. Len(result) : result[i] = x} = At(result, {x})
      BY DEF At
    <3> QED
      BY <3>1 DEF Count
  <2>6. room(x) = task.width - a
    BY DEF a
  <2>7. (IF m <= a THEN 0 ELSE LesserOf(c, m - a))
        = IF task.width - a <= 0 THEN 0 ELSE LesserOf(c, task.width - a)
    <3>1. task.width \in Nat
      BY <1>1
    <3> QED
      BY <1>10, <2>4, <3>1, Room DEF m
  <2> QED
    BY <2>4, <2>5, <2>6, <2>7 DEF c
<1> HIDE DEF result
<1>15. IsSortedAndLimited(task, input, result)
  BY <1>12, <1>13, <1>14 DEF IsSortedAndLimited, kept
<1> QED
  BY <1>4, <1>15

-----------------------------------------------------------------------------
\* Task::evaluate and Task::prompt: for every task and every input, what the host
\* evaluates is what the rules of the prompt describe.
THEOREM EvaluateIsAnswer ==
    ASSUME NEW task \in Task, NEW input \in Seq(Int)
    PROVE  IsAnswer(task, input, Evaluate(task, input))
<1>1. task.kind \in Families
  BY TaskParameters
<1>2. CASE task.kind = "filter_sum"
  BY <1>2, FilterSumIsAnswer DEF Evaluate
<1>3. CASE task.kind = "sort_limit"
  BY <1>3, SortLimitIsAnswer DEF Evaluate, IsAnswer
<1>4. CASE task.kind = "unique_occurrence"
  BY <1>4, UniqueOccurrenceIsAnswer DEF Evaluate
<1>5. CASE task.kind = "residue_buckets"
  BY <1>5, ResidueBucketsIsAnswer DEF Evaluate
<1>6. CASE task.kind = "prefix_total"
  BY <1>6, PrefixTotalIsAnswer DEF Evaluate
<1>7. CASE task.kind = "longest_run"
  BY <1>7, LongestRunIsAnswer DEF Evaluate, IsAnswer
<1>8. CASE task.kind = "adjacent_difference"
  BY <1>8, AdjacentDifferenceIsAnswer DEF Evaluate
<1>9. CASE task.kind = "window_sum"
  BY <1>9, WindowSumIsAnswer DEF Evaluate
<1>10. CASE task.kind = "stable_partition"
  BY <1>10, StablePartitionIsAnswer DEF Evaluate
<1>11. CASE task.kind = "outside_in_pairs"
  BY <1>11, OutsideInPairsIsAnswer DEF Evaluate
<1> QED
  BY <1>1, <1>2, <1>3, <1>4, <1>5, <1>6, <1>7, <1>8, <1>9, <1>10, <1>11 DEF Families

-----------------------------------------------------------------------------
(***************************************************************************)
(* Compositions.                                                           *)
(***************************************************************************)
\* What the proofs need of a composition.
LEMMA CompositionParameters ==
    ASSUME NEW task, IsComposition(task)
    PROVE  /\ Parameters(task) /\ task.threshold \in Int /\ task.kind = "composition"
           /\ task.greater \in BOOLEAN /\ task.both \in BOOLEAN /\ task.sum \in BOOLEAN
           /\ task.negateMiddle \in BOOLEAN /\ task.negateOuter \in BOOLEAN
           /\ task.stages \in Seq(Stage) /\ Len(task.stages) \in 3 .. 6
<1>1. /\ task.modulus \in 2 .. 7 /\ task.residue \in 0 .. 6 /\ task.threshold \in -20 .. 20
      /\ task.kind \in {"composition"}
      /\ task.greater \in BOOLEAN /\ task.both \in BOOLEAN /\ task.sum \in BOOLEAN
      /\ task.negateMiddle \in BOOLEAN /\ task.negateOuter \in BOOLEAN
      /\ task.stages \in Seq(Stage)
  BY DEF IsComposition
<1>2. task.residue < task.modulus /\ Len(task.stages) \in 3 .. 6
  BY DEF IsComposition
<1>3. \A x : x \in -20 .. 20 => x \in Int
  OBVIOUS
<1>4. task.threshold \in Int
  BY <1>1, <1>3, Zenon
<1>5. \A m \in 2 .. 7, r \in 0 .. 6 : r < m => r \in 0 .. m - 1
  OBVIOUS
<1>6. task.residue \in 0 .. task.modulus - 1
  BY <1>1, <1>2, <1>5, Zenon
<1>7. Parameters(task)
  BY <1>1, <1>6, Zenon DEF Parameters
<1>8. task.kind = "composition"
  BY <1>1
<1> HIDE DEF Stage
<1> QED
  BY <1>1, <1>2, <1>4, <1>7, <1>8, Zenon

\* Composition::evaluate, Composition::prompt: each predicate means the same.
LEMMA HoldsIsSatisfies ==
    ASSUME NEW task, IsComposition(task), NEW p \in Predicates, NEW x \in Int
    PROVE  /\ Holds(task, p, x) \in BOOLEAN
           /\ Satisfies(task, p, x) \in BOOLEAN
           /\ Holds(task, p, x) <=> Satisfies(task, p, x)
<1> DEFINE r == Reaches(task, x)
           m == Matches(task, x)
           joined == IF task.both THEN r /\ m ELSE r \/ m
           middle == joined # task.negateMiddle
           outer == middle # task.negateOuter
           bound == IF task.greater THEN ~(x < task.threshold) ELSE ~(x > task.threshold)
           selected == Selected(task, x)
           joined2 == IF task.both THEN bound /\ selected ELSE bound \/ selected
           middle2 == IF task.negateMiddle THEN ~joined2 ELSE joined2
           outer2 == IF task.negateOuter THEN ~middle2 ELSE middle2
<1>1. /\ Parameters(task) /\ task.threshold \in Int
      /\ task.greater \in BOOLEAN /\ task.both \in BOOLEAN
      /\ task.negateMiddle \in BOOLEAN /\ task.negateOuter \in BOOLEAN
  BY CompositionParameters
<1>2. r \in BOOLEAN /\ bound \in BOOLEAN /\ (r <=> bound)
  <2>1. CASE task.greater
    BY <1>1, <2>1 DEF Reaches
  <2>2. CASE ~task.greater
    BY <1>1, <2>2 DEF Reaches
  <2> QED
    BY <2>1, <2>2
<1>3. m \in BOOLEAN /\ selected \in BOOLEAN /\ (m <=> selected)
  BY <1>1, SelectedIsMatches DEF Matches, Selected
<1> HIDE DEF r, m, bound, selected
<1>4. joined \in BOOLEAN /\ joined2 \in BOOLEAN /\ (joined <=> joined2)
  BY <1>1, <1>2, <1>3
<1> HIDE DEF joined, joined2
<1>5. middle \in BOOLEAN /\ middle2 \in BOOLEAN /\ (middle <=> middle2)
  BY <1>1, <1>4, Zenon
<1> HIDE DEF middle, middle2
<1>6. outer \in BOOLEAN /\ outer2 \in BOOLEAN /\ (outer <=> outer2)
  BY <1>1, <1>5, Zenon
<1> HIDE DEF outer, outer2
<1>7. Holds(task, p, x) = <<r, m, joined, middle, outer>>[p + 1]
  BY DEF Holds, r, m, joined, middle, outer
<1>8. Satisfies(task, p, x) = CASE p = 0 -> bound
                                [] p = 1 -> selected
                                [] p = 2 -> joined2
                                [] p = 3 -> middle2
                                [] p = 4 -> outer2
  BY DEF Satisfies, bound, selected, joined2, middle2, outer2
<1>9. p = 0 \/ p = 1 \/ p = 2 \/ p = 3 \/ p = 4
  BY DEF Predicates
<1>10. /\ p = 0 => Holds(task, p, x) = r /\ Satisfies(task, p, x) = bound
       /\ p = 1 => Holds(task, p, x) = m /\ Satisfies(task, p, x) = selected
       /\ p = 2 => Holds(task, p, x) = joined /\ Satisfies(task, p, x) = joined2
       /\ p = 3 => Holds(task, p, x) = middle /\ Satisfies(task, p, x) = middle2
       /\ p = 4 => Holds(task, p, x) = outer /\ Satisfies(task, p, x) = outer2
  BY <1>7, <1>8
<1> QED
  BY <1>2, <1>3, <1>4, <1>5, <1>6, <1>9, <1>10, Zenon

\* The first or the last of equal values, said in two ways.
LEMMA SingledOut ==
    ASSUME NEW s \in Seq(Int), NEW flag \in BOOLEAN
    PROVE  {k \in 1 .. Len(s) :
                \A j \in (IF flag THEN k + 1 .. Len(s) ELSE 1 .. k - 1) : s[j] # s[k]}
           = {k \in 1 .. Len(s) : \A j \in 1 .. Len(s) :
                s[j] = s[k] => IF flag THEN j <= k ELSE j >= k}
<1> DEFINE n == Len(s)
           others(k) == IF flag THEN k + 1 .. n ELSE 1 .. k - 1
<1>1. n \in Nat
  OBVIOUS
<1>2. ASSUME NEW k \in 1 .. n
      PROVE  (\A j \in others(k) : s[j] # s[k])
             <=> (\A j \in 1 .. n : s[j] = s[k] => IF flag THEN j <= k ELSE j >= k)
  <2>1. CASE flag
    <3>1. others(k) = k + 1 .. n
      BY <2>1
    <3>2. \A j : j \in k + 1 .. n <=> j \in 1 .. n /\ ~(j <= k)
      BY <1>1
    <3> HIDE DEF others, n
    <3> QED
      BY <2>1, <3>1, <3>2, Zenon
  <2>2. CASE ~flag
    <3>1. others(k) = 1 .. k - 1
      BY <2>2
    <3>2. \A j : j \in 1 .. k - 1 <=> j \in 1 .. n /\ ~(j >= k)
      BY <1>1
    <3> HIDE DEF others, n
    <3> QED
      BY <2>2, <3>1, <3>2, Zenon
  <2> QED
    BY <2>1, <2>2
<1> HIDE DEF others
<1>3. {k \in 1 .. n : \A j \in others(k) : s[j] # s[k]}
      = {k \in 1 .. n : \A j \in 1 .. n : s[j] = s[k] => IF flag THEN j <= k ELSE j >= k}
  BY <1>2, Zenon
<1> QED
  BY <1>3 DEF others, n

\* The stages that list what they keep.
LEMMA KeepIsListed ==
    ASSUME NEW s \in Seq(Int), NEW S, Positions(S, Len(s))
    PROVE  Keep(s, S) \in Seq(Int) /\ Lists(Keep(s, S), S, LAMBDA k : s[k])
<1>1. /\ Keep(s, S) \in Seq(Int) /\ Len(Keep(s, S)) = Cardinality(S)
      /\ \A k \in S : Keep(s, S)[Rank(S, k)] = s[k]
  BY KeepLists
<1> QED
  BY <1>1, Zenon DEF Lists, Rank

\* When every position is listed, each stays where it is.
LEMMA AllAreListed ==
    ASSUME NEW n \in Nat
    PROVE  /\ Cardinality(1 .. n) = n
           /\ \A k \in 1 .. n : Cardinality({j \in 1 .. n : j <= k}) = k
<1>1. Cardinality(1 .. n) = n /\ \A k \in 1 .. n : Rank(1 .. n, k) = k
  BY UpToCardinality, RankOfAll
<1> QED
  BY <1>1 DEF Rank

\* The sentence for one stage, once it is known to apply.
LEMMA OperateIsDescribed ==
    ASSUME NEW task, IsComposition(task), NEW stage \in Stage, NEW s \in Seq(Int)
    PROVE  LET n == Len(s)
               after == Operate(task, stage, s)
               satisfying == {k \in 1 .. n : Satisfies(task, stage.filter, s[k])}
               occurrences(r, x) == Cardinality({k \in 1 .. Len(r) : r[k] = x})
           IN  /\ after \in Seq(Int)
               /\ stage.operation = "filter" => Lists(after, satisfying, LAMBDA k : s[k])
               /\ stage.operation = "affine" =>
                      Lists(after, 1 .. n, LAMBDA k : stage.multiplier * s[k] + stage.offset)
               /\ stage.operation = "sort" =>
                    /\ Len(after) = n
                    /\ \A k \in 1 .. n - 1 :
                          IF stage.flag THEN after[k] >= after[k + 1]
                                        ELSE after[k] <= after[k + 1]
                    /\ \A k \in 1 .. n : occurrences(after, s[k]) = occurrences(s, s[k])
               /\ stage.operation = "reverse" => Lists(after, 1 .. n, LAMBDA k : s[n + 1 - k])
               /\ stage.operation = "unique" =>
                    Lists(after,
                          {k \in 1 .. n : \A j \in 1 .. n :
                              s[j] = s[k] => IF stage.flag THEN j <= k ELSE j >= k},
                          LAMBDA k : s[k])
               /\ stage.operation = "take" =>
                    Lists(after, {k \in 1 .. n : k <= stage.count}, LAMBDA k : s[k])
<1> DEFINE n == Len(s)
           after == Operate(task, stage, s)
           satisfying == {k \in 1 .. n : Satisfies(task, stage.filter, s[k])}
           first == {k \in 1 .. n : \A j \in 1 .. n :
                              s[j] = s[k] => IF stage.flag THEN j <= k ELSE j >= k}
           occurrences(r, x) == Cardinality({k \in 1 .. Len(r) : r[k] = x})
<1>1. /\ stage.operation \in {"filter", "affine", "sort", "reverse", "unique", "take"}
      /\ stage.filter \in Predicates /\ stage.multiplier \in {-3, -2, -1, 2, 3}
      /\ stage.offset \in {-9, -5, -2, -1, 1, 2, 5, 9}
      /\ stage.flag \in BOOLEAN /\ stage.count \in 1 .. 8
  BY DEF Stage
<1>2. n \in Nat /\ \A k \in 1 .. n : s[k] \in Int
  OBVIOUS
<1>3. stage.multiplier \in Int /\ stage.offset \in Int /\ stage.count \in Nat
  BY <1>1
<1>4. CASE stage.operation = "filter"
  <2> DEFINE S == {k \in 1 .. n : Holds(task, stage.filter, s[k])}
  <2>1. S = satisfying
    <3>1. \A k \in 1 .. n : Holds(task, stage.filter, s[k]) <=> Satisfies(task, stage.filter, s[k])
      BY <1>1, <1>2, HoldsIsSatisfies
    <3> QED
      BY <3>1, Zenon
  <2>2. after = Keep(s, S)
    BY <1>4 DEF Operate, Filter
  <2>3. Positions(S, n)
    BY <1>2 DEF Positions
  <2> HIDE DEF S, satisfying, after
  <2>4. after \in Seq(Int) /\ Lists(after, satisfying, LAMBDA k : s[k])
    BY <2>1, <2>2, <2>3, KeepIsListed
  <2> QED
    BY <1>4, <2>4 DEF satisfying, after
<1>5. CASE stage.operation = "affine"
  <2> DEFINE f == [k \in 1 .. n |-> stage.multiplier * s[k] + stage.offset]
  <2>1. after = f
    BY <1>5 DEF Operate
  <2>2. \A k \in 1 .. n : stage.multiplier * s[k] + stage.offset \in Int
    BY <1>2, <1>3
  <2>3. f \in Seq(Int) /\ Len(f) = n
    BY <1>2, <2>2
  <2>4. \A k \in 1 .. n : f[k] = stage.multiplier * s[k] + stage.offset
    OBVIOUS
  <2>5. Lists(f, 1 .. n, LAMBDA k : stage.multiplier * s[k] + stage.offset)
    <3>1. Cardinality(1 .. n) = n /\ \A k \in 1 .. n : Cardinality({j \in 1 .. n : j <= k}) = k
      BY <1>2, AllAreListed
    <3> HIDE DEF f, n
    <3> QED
      BY <2>3, <2>4, <3>1 DEF Lists
  <2> HIDE DEF after
  <2> QED
    BY <1>5, <2>1, <2>3, <2>5 DEF after
<1>6. CASE stage.operation = "reverse"
  <2> DEFINE f == [k \in 1 .. n |-> s[n - k + 1]]
  <2>1. after = f
    BY <1>6 DEF Operate
  <2>2. \A k \in 1 .. n : n - k + 1 \in 1 .. n /\ n - k + 1 = n + 1 - k
    BY <1>2
  <2>3. f \in Seq(Int) /\ Len(f) = n
    BY <1>2, <2>2
  <2>4. \A k \in 1 .. n : f[k] = s[n + 1 - k]
    BY <2>2
  <2>5. Lists(f, 1 .. n, LAMBDA k : s[n + 1 - k])
    <3>1. Cardinality(1 .. n) = n /\ \A k \in 1 .. n : Cardinality({j \in 1 .. n : j <= k}) = k
      BY <1>2, AllAreListed
    <3> HIDE DEF f, n
    <3> QED
      BY <2>3, <2>4, <3>1 DEF Lists
  <2> HIDE DEF after
  <2> QED
    BY <1>6, <2>1, <2>3, <2>5 DEF after
<1>7. CASE stage.operation = "unique"
  <2> DEFINE S == {k \in 1 .. n :
                      \A j \in (IF stage.flag THEN k + 1 .. n ELSE 1 .. k - 1) : s[j] # s[k]}
  <2>1. S = first
    BY <1>1, SingledOut
  <2>2. after = Keep(s, S)
    BY <1>7 DEF Operate
  <2>3. Positions(S, n)
    BY <1>2 DEF Positions
  <2> HIDE DEF S, first, after
  <2>4. after \in Seq(Int) /\ Lists(after, first, LAMBDA k : s[k])
    BY <2>1, <2>2, <2>3, KeepIsListed
  <2> QED
    BY <1>7, <2>4 DEF first, after
<1>8. CASE stage.operation = "take"
  <2> DEFINE m == LesserOf(stage.count, n)
  <2>1. m \in 0 .. n /\ {k \in 1 .. n : k <= stage.count} = 1 .. m
    BY <1>2, <1>3 DEF LesserOf
  <2>2. after = SubSeq(s, 1, m)
    BY <1>8 DEF Operate
  <2>3. SubSeq(s, 1, m) \in Seq(Int) /\ Len(SubSeq(s, 1, m)) = m
        /\ \A k \in 1 .. m : SubSeq(s, 1, m)[k] = s[k]
    <3> HIDE DEF m
    <3> QED
      BY <1>2, <2>1
  <2>4. Lists(SubSeq(s, 1, m), 1 .. m, LAMBDA k : s[k])
    <3>1. m \in Nat
      BY <1>2, <2>1
    <3> DEFINE u == SubSeq(s, 1, m)
    <3>2. Len(u) = m /\ \A k \in 1 .. m : u[k] = s[k]
      BY <2>3
    <3> HIDE DEF m, u
    <3>3. Cardinality(1 .. m) = m /\ \A k \in 1 .. m : Cardinality({j \in 1 .. m : j <= k}) = k
      BY <3>1, AllAreListed
    <3>4. Lists(u, 1 .. m, LAMBDA k : s[k])
      BY <3>2, <3>3 DEF Lists
    <3> QED
      BY <3>4 DEF u
  <2> HIDE DEF after, m
  <2> QED
    BY <1>8, <2>1, <2>2, <2>3, <2>4 DEF after
<1>9. CASE stage.operation = "sort"
  <2>1. after = Sorted(s, stage.flag)
    BY <1>9 DEF Operate
  <2>2. after \in Seq(Int) /\ Len(after) = n /\ InOrder(after, stage.flag)
    BY <1>1, <2>1, SortedInOrder
  <2>3. ASSUME NEW k \in 1 .. n - 1
        PROVE  IF stage.flag THEN after[k] >= after[k + 1] ELSE after[k] <= after[k + 1]
    <3>1. k \in 1 .. n /\ k + 1 \in 1 .. n /\ k < k + 1
      BY <1>2
    <3> HIDE DEF after
    <3> QED
      BY <2>2, <3>1 DEF InOrder
  <2>4. ASSUME NEW x PROVE occurrences(after, x) = occurrences(s, x)
    <3>1. Count(after, {x}) = Count(s, {x})
      BY <1>1, <2>1, SortedCounts
    <3>2. \A r : {k \in 1 .. Len(r) : r[k] = x} = At(r, {x})
      BY DEF At
    <3> HIDE DEF after
    <3> QED
      BY <3>1, <3>2 DEF Count
  <2> HIDE DEF after, occurrences
  <2> QED
    BY <1>9, <2>2, <2>3, <2>4 DEF after, occurrences
<1> QED
  BY <1>1, <1>4, <1>5, <1>6, <1>7, <1>8, <1>9

\* Stage::apply, Stage::prompt: a stage does what its sentence says.
LEMMA AppliedIsDescribed ==
    ASSUME NEW task, IsComposition(task), NEW stage \in Stage, NEW s \in Seq(Int)
    PROVE  /\ Applied(task, stage, s) \in Seq(Int)
           /\ Described(task, stage, s, Applied(task, stage, s))
<1> DEFINE n == Len(s)
           satisfying(p) == {k \in 1 .. n : Satisfies(task, p, s[k])}
           applies == CASE stage.guard = "always" -> TRUE
                        [] stage.guard = "any" -> satisfying(stage.condition) # {}
                        [] stage.guard = "all" -> satisfying(stage.condition) = 1 .. n
           after == Applied(task, stage, s)
<1>1. /\ stage.operation \in {"filter", "affine", "sort", "reverse", "unique", "take"}
      /\ stage.condition \in Predicates /\ stage.guard \in {"always", "any", "all"}
  BY DEF Stage
<1>2. \A k \in 1 .. n : Holds(task, stage.condition, s[k]) <=> Satisfies(task, stage.condition, s[k])
  BY <1>1, HoldsIsSatisfies
<1>3. /\ applies \in BOOLEAN /\ Enabled(task, stage, s) \in BOOLEAN
      /\ applies <=> Enabled(task, stage, s)
  <2>1. CASE stage.guard = "always"
    BY <2>1 DEF Enabled
  <2>2. CASE stage.guard = "any"
    <3>1. applies = (satisfying(stage.condition) # {})
      BY <2>2
    <3>2. Enabled(task, stage, s) = \E k \in 1 .. n : Holds(task, stage.condition, s[k])
      BY <2>2 DEF Enabled
    <3> HIDE DEF applies
    <3> QED
      BY <1>2, <3>1, <3>2, Zenon
  <2>3. CASE stage.guard = "all"
    <3>1. applies = (satisfying(stage.condition) = 1 .. n)
      BY <2>3
    <3>2. Enabled(task, stage, s) = \A k \in 1 .. n : Holds(task, stage.condition, s[k])
      BY <2>3 DEF Enabled
    <3> HIDE DEF applies
    <3> QED
      BY <1>2, <3>1, <3>2, Zenon
  <2> QED
    BY <1>1, <2>1, <2>2, <2>3
<1> HIDE DEF applies
<1>4. CASE ~applies
  <2>1. after = s
    BY <1>3, <1>4 DEF Applied
  <2>2. Described(task, stage, s, s)
    BY <1>4 DEF Described, applies
  <2> QED
    BY <2>1, <2>2
<1>5. CASE applies
  <2> DEFINE o == Operate(task, stage, s)
  <2>1. after = o
    BY <1>3, <1>5 DEF Applied
  <2>2. /\ o \in Seq(Int)
        /\ stage.operation = "filter" => Lists(o, satisfying(stage.filter), LAMBDA k : s[k])
        /\ stage.operation = "affine" =>
               Lists(o, 1 .. n, LAMBDA k : stage.multiplier * s[k] + stage.offset)
        /\ stage.operation = "sort" =>
             /\ Len(o) = n
             /\ \A k \in 1 .. n - 1 : IF stage.flag THEN o[k] >= o[k + 1] ELSE o[k] <= o[k + 1]
             /\ \A k \in 1 .. n : Cardinality({i \in 1 .. Len(o) : o[i] = s[k]})
                                   = Cardinality({i \in 1 .. Len(s) : s[i] = s[k]})
        /\ stage.operation = "reverse" => Lists(o, 1 .. n, LAMBDA k : s[n + 1 - k])
        /\ stage.operation = "unique" =>
             Lists(o, {k \in 1 .. n : \A j \in 1 .. n :
                          s[j] = s[k] => IF stage.flag THEN j <= k ELSE j >= k},
                   LAMBDA k : s[k])
        /\ stage.operation = "take" => Lists(o, {k \in 1 .. n : k <= stage.count}, LAMBDA k : s[k])
    BY OperateIsDescribed
  <2> HIDE DEF o
  <2>3. CASE stage.operation = "filter"
    <3>1. Lists(o, satisfying(stage.filter), LAMBDA k : s[k])
      BY <2>2, <2>3
    <3>2. Described(task, stage, s, o)
      BY <1>5, <2>3, <3>1 DEF Described, applies
    <3> QED
      BY <2>1, <2>2, <3>2
  <2>4. CASE stage.operation = "affine"
    <3>1. Lists(o, 1 .. n, LAMBDA k : stage.multiplier * s[k] + stage.offset)
      BY <2>2, <2>4
    <3>2. Described(task, stage, s, o)
      BY <1>5, <2>4, <3>1 DEF Described, applies
    <3> QED
      BY <2>1, <2>2, <3>2
  <2>5. CASE stage.operation = "sort"
    <3>1. /\ Len(o) = n
          /\ \A k \in 1 .. n - 1 : IF stage.flag THEN o[k] >= o[k + 1] ELSE o[k] <= o[k + 1]
          /\ \A k \in 1 .. n : Cardinality({i \in 1 .. Len(o) : o[i] = s[k]})
                                = Cardinality({i \in 1 .. Len(s) : s[i] = s[k]})
      BY <2>2, <2>5
    <3>2. Described(task, stage, s, o)
      BY <1>5, <2>5, <3>1 DEF Described, applies
    <3> QED
      BY <2>1, <2>2, <3>2
  <2>6. CASE stage.operation = "reverse"
    <3>1. Lists(o, 1 .. n, LAMBDA k : s[n + 1 - k])
      BY <2>2, <2>6
    <3>2. Described(task, stage, s, o)
      BY <1>5, <2>6, <3>1 DEF Described, applies
    <3> QED
      BY <2>1, <2>2, <3>2
  <2>7. CASE stage.operation = "unique"
    <3>1. Lists(o, {k \in 1 .. n : \A j \in 1 .. n :
                       s[j] = s[k] => IF stage.flag THEN j <= k ELSE j >= k},
                LAMBDA k : s[k])
      BY <2>2, <2>7
    <3>2. Described(task, stage, s, o)
      BY <1>5, <2>7, <3>1 DEF Described, applies
    <3> QED
      BY <2>1, <2>2, <3>2
  <2>8. CASE stage.operation = "take"
    <3>1. Lists(o, {k \in 1 .. n : k <= stage.count}, LAMBDA k : s[k])
      BY <2>2, <2>8
    <3>2. Described(task, stage, s, o)
      BY <1>5, <2>8, <3>1 DEF Described, applies
    <3> QED
      BY <2>1, <2>2, <3>2
  <2> QED
    BY <1>1, <2>3, <2>4, <2>5, <2>6, <2>7, <2>8
<1> QED
  BY <1>4, <1>5

-----------------------------------------------------------------------------
\* The values that each stage leaves.
StageCourse(task, input) ==
    CHOOSE f : f = [k \in 0 .. Len(task.stages) |->
                       IF k = 0 THEN input ELSE Applied(task, task.stages[k], f[k - 1])]

\* A composition applies one stage after the other.
LEMMA StageCourseDef ==
    ASSUME NEW task, IsComposition(task), NEW input \in Seq(Int)
    PROVE  LET f == StageCourse(task, input)
               n == Len(task.stages)
           IN  /\ Composed(task, input) = IF task.sum THEN Total(f[n]) ELSE f[n]
               /\ f[0] = input
               /\ \A k \in 1 .. n : f[k] = Applied(task, task.stages[k], f[k - 1])
               /\ \A k \in 0 .. n : f[k] \in Seq(Int)
<1> DEFINE n == Len(task.stages)
           V == Seq(Int)
           step == [k \in 1 .. n |-> [values \in V |-> Applied(task, task.stages[k], values)]]
           next(f) == [k \in 0 .. n |->
                          IF k = 0 THEN input ELSE Applied(task, task.stages[k], f[k - 1])]
<1>1. n \in Nat /\ input \in V /\ \A k \in 1 .. n : task.stages[k] \in Stage
  <2>1. task.stages \in Seq(Stage)
    BY CompositionParameters
  <2> HIDE DEF Stage
  <2> QED
    BY <2>1
<1>2. ASSUME NEW values \in V, NEW k \in 1 .. n PROVE Applied(task, task.stages[k], values) \in V
  <2> HIDE DEF n
  <2> QED
    BY <1>1, AppliedIsDescribed
<1>4. ASSUME NEW h
      PROVE  /\ DOMAIN next(h) = 0 .. n
             /\ next(h)[0] = input
             /\ \A k \in 1 .. n : next(h)[k] = Applied(task, task.stages[k], h[k - 1])
  <2>1. 0 \in 0 .. n /\ \A k \in 1 .. n : k \in 0 .. n /\ k # 0
    BY <1>1
  <2> QED
    BY <2>1, Zenon
<1>5. StepsOn(V, input, n, step)
  <2>1. step \in [1 .. n -> [V -> V]]
    <3> HIDE DEF V, n
    <3> QED
      BY <1>2
  <2> HIDE DEF step, n
  <2> QED
    BY <1>1, <2>1 DEF StepsOn
<1>6. PICK f : IsCourse(f, V, input, n, step)
  <2> HIDE DEF n, step, V
  <2> QED
    BY <1>5, CourseExists
<1>7. f \in [0 .. n -> V] /\ f[0] = input /\ \A k \in 1 .. n : f[k] = step[k][f[k - 1]]
  BY <1>6 DEF IsCourse
<1>8. ASSUME NEW k \in 1 .. n PROVE f[k] = Applied(task, task.stages[k], f[k - 1])
  <2>1. k - 1 \in 0 .. n
    BY <1>1
  <2>2. f[k - 1] \in V
    BY <1>7, <2>1, Zenon
  <2> QED
    BY <1>7, <2>2, Zenon
<1>9. f = next(f)
  <2>1. f[0] = next(f)[0] /\ \A k \in 1 .. n : f[k] = next(f)[k]
    <3> HIDE DEF next
    <3> QED
      BY <1>4, <1>7, <1>8, Zenon
  <2>2. \A k \in 0 .. n : k = 0 \/ k \in 1 .. n
    BY <1>1
  <2>3. \A k \in 0 .. n : f[k] = next(f)[k]
    BY <2>1, <2>2, Zenon
  <2>4. DOMAIN f = 0 .. n /\ DOMAIN next(f) = 0 .. n /\ f = [k \in DOMAIN f |-> f[k]]
    <3> HIDE DEF next, V
    <3> QED
      BY <1>4, <1>7
  <2> QED
    BY <2>3, <2>4
<1> DEFINE g == StageCourse(task, input)
<1>10. g = next(g)
  BY <1>9 DEF StageCourse
<1>11. Composed(task, input) = IF task.sum THEN Total(g[n]) ELSE g[n]
  BY DEF Composed, Fold, StageCourse
<1>12. g[0] = input /\ \A k \in 1 .. n : g[k] = Applied(task, task.stages[k], g[k - 1])
  <2> HIDE DEF next
  <2> QED
    BY <1>4, <1>10
<1> HIDE DEF g, next, V
<1>13. \A k \in 0 .. n : g[k] \in V
  <2>1. ASSUME NEW k \in 1 .. n, g[k - 1] \in V PROVE g[k] \in V
    BY <1>2, <1>12, <2>1
  <2>2. g[0] \in V
    BY <1>1, <1>12
  <2> HIDE DEF n
  <2> QED
    BY <1>1, <2>1, <2>2, StaysIn
<1> QED
  BY <1>11, <1>12, <1>13 DEF g, V

\* The values before the first stage and after each one, stage by stage.
CoursesCourse(task, input) ==
    CHOOSE f : f = [k \in 0 .. Len(task.stages) |->
                       IF k = 0 THEN <<input>>
                       ELSE Append(f[k - 1],
                                   Applied(task, task.stages[k], f[k - 1][Len(f[k - 1])]))]

\* The course holds the values that each stage leaves.
LEMMA CourseHolds ==
    ASSUME NEW task, IsComposition(task), NEW input \in Seq(Int)
    PROVE  LET n == Len(task.stages) IN
           /\ Len(Course(task, input)) = n + 1
           /\ \A j \in 0 .. n : Course(task, input)[j + 1] = StageCourse(task, input)[j]
<1> DEFINE n == Len(task.stages)
           V == {c \in Seq(Seq(Int)) : Len(c) \in Nat \ {0}}
           step == [k \in 1 .. n |->
                       [c \in V |-> Append(c, Applied(task, task.stages[k], c[Len(c)]))]]
           next(f) == [k \in 0 .. n |->
                          IF k = 0 THEN <<input>>
                          ELSE Append(f[k - 1],
                                      Applied(task, task.stages[k], f[k - 1][Len(f[k - 1])]))]
           g == StageCourse(task, input)
<1>1. n \in Nat /\ \A k \in 1 .. n : task.stages[k] \in Stage
  <2>1. task.stages \in Seq(Stage)
    BY CompositionParameters
  <2> HIDE DEF Stage
  <2> QED
    BY <2>1
<1>21. /\ g[0] = input
       /\ \A k \in 1 .. n : g[k] = Applied(task, task.stages[k], g[k - 1])
       /\ \A k \in 0 .. n : g[k] \in Seq(Int)
  BY StageCourseDef
<1> HIDE DEF g
<1>2. ASSUME NEW c \in V, NEW k \in 1 .. n
      PROVE  Append(c, Applied(task, task.stages[k], c[Len(c)])) \in V
  <2> HIDE DEF n
  <2>1. c \in Seq(Seq(Int)) /\ Len(c) \in 1 .. Len(c)
    OBVIOUS
  <2>2. c[Len(c)] \in Seq(Int)
    <3> DEFINE A == Seq(Int)
    <3>1. c \in Seq(A)
      BY <2>1
    <3> HIDE DEF A
    <3>2. c[Len(c)] \in A
      BY <2>1, <3>1
    <3> QED
      BY <3>2 DEF A
  <2> DEFINE a == Applied(task, task.stages[k], c[Len(c)])
             A == Seq(Int)
  <2>3. a \in A
    BY <1>1, <2>2, AppliedIsDescribed
  <2>4. c \in Seq(A)
    BY <2>1
  <2> HIDE DEF a, A
  <2>5. Append(c, a) \in Seq(A) /\ Len(Append(c, a)) = Len(c) + 1 /\ Len(c) \in Nat
    BY <2>3, <2>4
  <2>6. Len(Append(c, a)) \in Nat \ {0}
    BY <2>5
  <2> QED
    BY <2>5, <2>6 DEF a, A
<1>3. <<input>> \in V
  <2> DEFINE A == Seq(Int)
  <2>1. input \in A
    OBVIOUS
  <2> HIDE DEF A
  <2>2. <<input>> \in Seq(A) /\ Len(<<input>>) = 1
    BY <2>1
  <2> QED
    BY <2>2 DEF A
<1>4. ASSUME NEW h
      PROVE  /\ DOMAIN next(h) = 0 .. n
             /\ next(h)[0] = <<input>>
             /\ \A k \in 1 .. n :
                   next(h)[k] = Append(h[k - 1],
                                       Applied(task, task.stages[k], h[k - 1][Len(h[k - 1])]))
  <2>1. 0 \in 0 .. n /\ \A k \in 1 .. n : k \in 0 .. n /\ k # 0
    BY <1>1
  <2> QED
    BY <2>1, Zenon
<1>5. StepsOn(V, <<input>>, n, step)
  <2>1. step \in [1 .. n -> [V -> V]]
    <3> HIDE DEF V, n
    <3> QED
      BY <1>2
  <2> HIDE DEF step, n, V
  <2> QED
    BY <1>1, <1>3, <2>1 DEF StepsOn
<1>6. PICK f : IsCourse(f, V, <<input>>, n, step)
  <2> HIDE DEF n, step, V
  <2> QED
    BY <1>5, CourseExists
<1>7. f \in [0 .. n -> V] /\ f[0] = <<input>> /\ \A k \in 1 .. n : f[k] = step[k][f[k - 1]]
  BY <1>6 DEF IsCourse
<1>8. ASSUME NEW k \in 1 .. n
      PROVE  f[k] = Append(f[k - 1], Applied(task, task.stages[k], f[k - 1][Len(f[k - 1])]))
  <2>1. k - 1 \in 0 .. n
    BY <1>1
  <2> HIDE DEF V
  <2>2. f[k - 1] \in V
    BY <1>7, <2>1, Zenon
  <2> QED
    BY <1>7, <2>2, Zenon
<1>9. f = next(f)
  <2>1. f[0] = next(f)[0] /\ \A k \in 1 .. n : f[k] = next(f)[k]
    <3> HIDE DEF next, V
    <3> QED
      BY <1>4, <1>7, <1>8, Zenon
  <2>2. \A k \in 0 .. n : k = 0 \/ k \in 1 .. n
    BY <1>1
  <2>3. \A k \in 0 .. n : f[k] = next(f)[k]
    BY <2>1, <2>2, Zenon
  <2>4. DOMAIN f = 0 .. n /\ DOMAIN next(f) = 0 .. n /\ f = [k \in DOMAIN f |-> f[k]]
    <3> HIDE DEF next, V
    <3> QED
      BY <1>4, <1>7
  <2> HIDE DEF V
  <2> QED
    BY <2>3, <2>4
<1> DEFINE cc == CoursesCourse(task, input)
<1>10. cc = next(cc)
  <2> HIDE DEF V
  <2> QED
    BY <1>9 DEF CoursesCourse
<1>11. Course(task, input) = cc[n]
  BY DEF Course, Fold, CoursesCourse
<1>12. cc[0] = <<input>>
       /\ \A k \in 1 .. n :
             cc[k] = Append(cc[k - 1], Applied(task, task.stages[k], cc[k - 1][Len(cc[k - 1])]))
  <2> HIDE DEF next, V
  <2> QED
    BY <1>4, <1>10
<1> HIDE DEF cc, next, V
<1> DEFINE T == {k \in 0 .. n : /\ cc[k] \in Seq(Seq(Int)) /\ Len(cc[k]) = k + 1
                                /\ \A j \in 0 .. k : cc[k][j + 1] = g[j]}
<1>13. 0 \in T
  <2>1. <<input>> \in Seq(Seq(Int)) /\ Len(<<input>>) = 1 /\ <<input>>[1] = input
    BY <1>3 DEF V
  <2>2. \A j \in 0 .. 0 : j = 0
    OBVIOUS
  <2> QED
    <3>1. cc[0] \in Seq(Seq(Int)) /\ Len(cc[0]) = 0 + 1
      BY <1>12, <2>1
    <3>2. cc[0][0 + 1] = g[0]
      BY <1>12, <1>21, <2>1
    <3>3. \A j \in 0 .. 0 : cc[0][j + 1] = g[j]
      BY <2>2, <3>2
    <3>4. 0 \in 0 .. n
      BY <1>1
    <3> HIDE DEF n
    <3> QED
      BY <3>1, <3>3, <3>4
<1>14. ASSUME NEW k \in 0 .. n - 1, k \in T PROVE k + 1 \in T
  <2>1. k + 1 \in 1 .. n /\ k + 1 \in 0 .. n /\ (k + 1) - 1 = k /\ k \in 0 .. n /\ k \in Nat
    BY <1>1
  <2> DEFINE A == Seq(Int)
             c == cc[k]
             d == cc[k + 1]
  <2>2. c \in Seq(A) /\ Len(c) = k + 1 /\ \A j \in 0 .. k : c[j + 1] = g[j]
    BY <1>14
  <2>3. d = Append(c, Applied(task, task.stages[k + 1], c[Len(c)]))
    BY <1>12, <2>1
  <2>4. g[k + 1] = Applied(task, task.stages[k + 1], g[k]) /\ g[k + 1] \in A
    BY <1>21, <2>1
  <2> HIDE DEF A, c, d, n
  <2>5. c[Len(c)] = g[k]
    BY <2>1, <2>2
  <2>6. d = Append(c, g[k + 1])
    BY <2>3, <2>4, <2>5
  <2>7. d \in Seq(A) /\ Len(d) = (k + 1) + 1 /\ d[(k + 1) + 1] = g[k + 1]
        /\ \A i \in 1 .. k + 1 : d[i] = c[i]
    BY <2>1, <2>2, <2>4, <2>6
  <2>8. \A j \in 0 .. k + 1 : d[j + 1] = g[j]
    <3>1. \A j \in 0 .. k + 1 : j = k + 1 \/ (j \in 0 .. k /\ j + 1 \in 1 .. k + 1)
      BY <2>1
    <3> QED
      BY <2>2, <2>7, <3>1
  <2> QED
    BY <2>1, <2>7, <2>8 DEF A, d
<1>15. 0 .. n \subseteq T
  <2> HIDE DEF T, n
  <2> QED
    BY <1>1, <1>13, <1>14, UpTo
<1>16. n \in 0 .. n
  BY <1>1
<1>17. n \in T
  BY <1>15, <1>16
<1> HIDE DEF n
<1> QED
  BY <1>11, <1>17 DEF g, n

\* Composition::evaluate and Composition::prompt: for every composition and every
\* input, each stage does what its sentence says to what the one before left, and
\* the result is what the last one leaves, or its sum.
THEOREM ComposedIsDescribed ==
    ASSUME NEW task, IsComposition(task), NEW input \in Seq(Int)
    PROVE  IsComposed(task, input, Composed(task, input))
<1> DEFINE n == Len(task.stages)
           g == StageCourse(task, input)
           course == Course(task, input)
           final == course[Len(course)]
           result == Composed(task, input)
<1>1. n \in Nat /\ \A k \in 1 .. n : task.stages[k] \in Stage
  <2>1. task.stages \in Seq(Stage)
    BY CompositionParameters
  <2> HIDE DEF Stage
  <2> QED
    BY <2>1
<1>2. /\ result = IF task.sum THEN Total(g[n]) ELSE g[n]
      /\ \A k \in 1 .. n : g[k] = Applied(task, task.stages[k], g[k - 1])
      /\ \A k \in 0 .. n : g[k] \in Seq(Int)
  BY StageCourseDef
<1>3. Len(course) = n + 1 /\ \A j \in 0 .. n : course[j + 1] = g[j]
  BY CourseHolds
<1> HIDE DEF n, g, course, result
<1>4. ASSUME NEW i \in 1 .. n PROVE Described(task, task.stages[i], course[i], course[i + 1])
  <2>1. i - 1 \in 0 .. n /\ i \in 0 .. n /\ (i - 1) + 1 = i
    BY <1>1
  <2>2. course[i] = g[i - 1] /\ course[i + 1] = g[i]
    BY <1>3, <2>1
  <2>3. g[i - 1] \in Seq(Int) /\ g[i] = Applied(task, task.stages[i], g[i - 1])
    BY <1>2, <2>1
  <2>4. Described(task, task.stages[i], g[i - 1], Applied(task, task.stages[i], g[i - 1]))
    BY <1>1, <2>3, AppliedIsDescribed
  <2> QED
    BY <2>2, <2>3, <2>4
<1>5. final = g[n] /\ final \in Seq(Int)
  <2>1. n \in 0 .. n
    BY <1>1
  <2> QED
    BY <1>2, <1>3, <2>1
<1> HIDE DEF final
<1>6. SumOver(final, 1 .. Len(final), LAMBDA k : final[k]) = Total(final)
  <2>1. [k \in 1 .. Len(final) |-> IF k \in 1 .. Len(final) THEN final[k] ELSE 0] = final
    <3>1. [k \in 1 .. Len(final) |-> IF k \in 1 .. Len(final) THEN final[k] ELSE 0]
          = [k \in 1 .. Len(final) |-> final[k]]
      OBVIOUS
    <3>2. final = [k \in 1 .. Len(final) |-> final[k]]
      BY <1>5
    <3> QED
      BY <3>1, <3>2
  <2> QED
    BY <2>1 DEF SumOver
<1>7. result = IF task.sum THEN SumOver(final, 1 .. Len(final), LAMBDA k : final[k]) ELSE final
  BY <1>2, <1>5, <1>6
<1> QED
  BY <1>4, <1>7 DEF IsComposed, n, course, final, result

-----------------------------------------------------------------------------
(***************************************************************************)
(* How large an answer can become: bounds carried through the iterators,   *)
(* as symbols.                                                             *)
(***************************************************************************)
\* At most m values, none further from zero than b.
Within(s, m, b) ==
    /\ s \in Seq(Int) /\ Len(s) <= m
    /\ \A k \in 1 .. Len(s) : s[k] \in -b .. b

\* A filter leaves no more values and no larger ones.
LEMMA KeepIsWithin ==
    ASSUME NEW s, NEW m \in Nat, NEW b \in Nat, Within(s, m, b), NEW S, Positions(S, Len(s))
    PROVE  Within(Keep(s, S), m, b)
<1> DEFINE A == -b .. b
           t == Keep(s, S)
<1>1. s \in Seq(Int) /\ Len(s) <= m /\ \A k \in 1 .. Len(s) : s[k] \in A
  BY DEF Within
<1>2. A \subseteq Int
  OBVIOUS
<1> HIDE DEF A
<1>3. s \in Seq(A)
  <2>1. Len(s) \in Nat /\ s = [k \in 1 .. Len(s) |-> s[k]]
    BY <1>1
  <2> QED
    BY <1>1, <2>1, SequenceOf
<1>4. t \in Seq(A) /\ Len(t) = Cardinality(S)
  BY <1>3, KeepLists
<1>5. t \in Seq(Int)
  BY <1>1, KeepLists
<1>6. \A k \in 1 .. Len(t) : t[k] \in A
  BY <1>4, SequenceValues
<1>7. Cardinality(S) <= Len(s) /\ Cardinality(S) \in Nat /\ Len(s) \in Nat
  <2>1. Len(s) \in Nat /\ S \subseteq 1 .. Len(s)
    BY DEF Positions
  <2>2. IsFiniteSet(1 .. Len(s)) /\ Cardinality(1 .. Len(s)) = Len(s)
    BY <2>1, UpToCardinality
  <2> QED
    BY <2>1, <2>2, FS_Subset, FS_CardinalityType
<1> QED
  BY <1>1, <1>4, <1>5, <1>6, <1>7 DEF Within, A

\* A sum of so many values is within so many times their bound.
LEMMA TotalIsWithin ==
    ASSUME NEW s, NEW m \in Nat, NEW b \in Nat, Within(s, m, b)
    PROVE  Total(s) \in -(m * b) .. m * b
<1> DEFINE n == Len(s)
<1>1. s \in Seq(Int) /\ n <= m /\ n \in Nat /\ \A k \in 1 .. n : s[k] \in -b .. b
  BY DEF Within
<1>2. Total(s) = Sums(s)[n]
  BY <1>1, SumsDef
<1>3. Sums(s)[n] \in -(n * b) .. n * b
  <2>1. n \in 0 .. n
    BY <1>1
  <2> QED
    BY <1>1, <2>1, SumsBounded
<1> HIDE DEF n
<1>4. n * b <= m * b /\ n * b \in Int /\ m * b \in Int
  BY <1>1
<1> QED
  BY <1>2, <1>3, <1>4

\* Transforming makes a value at most three times as large, and nine more.
LEMMA TransformIsWithin ==
    ASSUME NEW task \in Task, NEW b \in Nat, NEW x \in -b .. b
    PROVE  Transform(task, x) \in -(3 * b + 9) .. 3 * b + 9
<1>1. task.multiplier \in -3 .. 3 /\ task.offset \in -9 .. 9
  BY TaskParameters
<1> DEFINE p == task.multiplier
           q == task.offset
<1>2. p \in -3 .. 3 /\ q \in -9 .. 9
  BY <1>1
<1> HIDE DEF p, q
<1>3. p * x + q \in -(3 * b + 9) .. 3 * b + 9
  <2>1. p \in {-3, -2, -1, 0, 1, 2, 3}
    BY <1>2
  <2>2. p * x \in -(3 * b) .. 3 * b
    BY <2>1
  <2> DEFINE y == p * x
  <2>3. y \in -(3 * b) .. 3 * b
    BY <2>2
  <2> HIDE DEF y
  <2>4. y + q \in -(3 * b + 9) .. 3 * b + 9
    BY <1>2, <2>3
  <2> QED
    BY <2>4 DEF y
<1> QED
  BY <1>3 DEF Transform, p, q

LEMMA TransformedIsWithin ==
    ASSUME NEW task \in Task, NEW s, NEW m \in Nat, NEW b \in Nat, Within(s, m, b)
    PROVE  Within(TransformAll(task, s), m, 3 * b + 9)
<1> DEFINE t == TransformAll(task, s)
<1>1. s \in Seq(Int) /\ Len(s) <= m /\ \A k \in 1 .. Len(s) : s[k] \in -b .. b
  BY DEF Within
<1>2. t \in Seq(Int) /\ Len(t) = Len(s) /\ \A k \in 1 .. Len(s) : t[k] = Transform(task, s[k])
  BY <1>1, TransformAllDef
<1> HIDE DEF t
<1>3. \A k \in 1 .. Len(t) : t[k] \in -(3 * b + 9) .. 3 * b + 9
  BY <1>1, <1>2, TransformIsWithin
<1> QED
  BY <1>1, <1>2, <1>3 DEF Within, t

\* A wider bound holds as well.
LEMMA WiderIsWithin ==
    ASSUME NEW s, NEW m \in Nat, NEW b \in Nat, Within(s, m, b),
           NEW n \in Nat, m <= n, NEW c \in Nat, b <= c
    PROVE  Within(s, n, c)
<1>1. s \in Seq(Int) /\ Len(s) <= m /\ \A k \in 1 .. Len(s) : s[k] \in -b .. b
  BY DEF Within
<1>2. Len(s) \in Nat
  BY <1>1
<1>3. \A x \in -b .. b : x \in -c .. c
  OBVIOUS
<1> QED
  BY <1>1, <1>2, <1>3 DEF Within

\* A sort moves the values, and changes none.
LEMMA SortedIsWithin ==
    ASSUME NEW s, NEW m \in Nat, NEW b \in Nat, Within(s, m, b), NEW descending \in BOOLEAN
    PROVE  Within(Sorted(s, descending), m, b)
<1> DEFINE t == Sorted(s, descending)
<1>1. s \in Seq(Int) /\ Len(s) <= m /\ \A k \in 1 .. Len(s) : s[k] \in -b .. b
  BY DEF Within
<1>2. t \in Seq(Int) /\ Len(t) = Len(s)
  BY <1>1, SortedInOrder
<1>3. \A i \in 1 .. Len(s) : \E j \in 1 .. Len(s) : t[i] = s[j]
  BY <1>1, SortedHas
<1> HIDE DEF t
<1>4. \A i \in 1 .. Len(t) : t[i] \in -b .. b
  BY <1>1, <1>2, <1>3, Zenon
<1> QED
  BY <1>1, <1>2, <1>4 DEF Within, t

\* So does a prefix.
LEMMA PrefixIsWithin ==
    ASSUME NEW s, NEW m \in Nat, NEW b \in Nat, Within(s, m, b), NEW k \in 0 .. Len(s)
    PROVE  Within(SubSeq(s, 1, k), m, b)
<1> DEFINE t == SubSeq(s, 1, k)
<1>1. s \in Seq(Int) /\ Len(s) <= m /\ Len(s) \in Nat /\ \A j \in 1 .. Len(s) : s[j] \in -b .. b
  BY DEF Within
<1>2. t \in Seq(Int) /\ Len(t) = k /\ \A j \in 1 .. k : t[j] = s[j]
  BY <1>1, PrefixOf
<1> HIDE DEF t
<1> QED
  BY <1>1, <1>2 DEF Within, t

\* Values of a function over so many positions.
LEMMA FunctionIsWithin ==
    ASSUME NEW n \in Nat, NEW m \in Nat, NEW b \in Nat, n <= m,
           NEW f, f = [i \in 1 .. n |-> f[i]], \A i \in 1 .. n : f[i] \in -b .. b
    PROVE  Within(f, m, b)
<1>1. \A i \in 1 .. n : f[i] \in Int
  OBVIOUS
<1>2. f \in Seq(Int) /\ Len(f) = n
  BY <1>1, SequenceOf
<1> QED
  BY <1>2 DEF Within

\* The sum over some of the positions.
LEMMA SumIsWithin ==
    ASSUME NEW n \in Nat, NEW m \in Nat, NEW b \in Nat, n <= m,
           NEW S, NEW f, \A i \in 1 .. n : f[i] \in -b .. b
    PROVE  Total([i \in 1 .. n |-> IF i \in S THEN f[i] ELSE 0]) \in -(m * b) .. m * b
<1> DEFINE t == [i \in 1 .. n |-> IF i \in S THEN f[i] ELSE 0]
<1>1. t = [i \in 1 .. n |-> t[i]] /\ \A i \in 1 .. n : t[i] \in -b .. b
  OBVIOUS
<1> HIDE DEF t
<1>2. Within(t, m, b)
  BY <1>1, FunctionIsWithin
<1>3. Total(t) \in -(m * b) .. m * b
  BY <1>2, TotalIsWithin
<1> QED
  BY <1>3 DEF t

-----------------------------------------------------------------------------
\* Task::evaluate: what a family answers to an input of at most m values, none
\* further from zero than b.
LEMMA FilterSumIsWithin ==
    ASSUME NEW task \in Task, NEW input, NEW m \in Nat, NEW b \in Nat, Within(input, m, b)
    PROVE  FilterSum(task, input) \in -(m * (3 * b + 9)) .. m * (3 * b + 9)
<1> DEFINE S == {k \in 1 .. Len(input) : Matches(task, input[k])}
           t == Keep(input, S)
           u == TransformAll(task, t)
<1>1. Positions(S, Len(input))
  BY DEF Within, Positions
<1>2. Within(t, m, b)
  <2> HIDE DEF S
  <2> QED
    BY <1>1, KeepIsWithin
<1>3. Within(u, m, 3 * b + 9)
  <2> HIDE DEF t
  <2> QED
    BY <1>2, TransformedIsWithin
<1>4. Total(u) \in -(m * (3 * b + 9)) .. m * (3 * b + 9)
  <2> HIDE DEF u
  <2> QED
    BY <1>3, TotalIsWithin
<1>5. FilterSum(task, input) = Total(u)
  BY DEF FilterSum, Filter
<1> HIDE DEF u
<1> QED
  BY <1>4, <1>5

LEMMA SortLimitIsWithin ==
    ASSUME NEW task \in Task, NEW input, NEW m \in Nat, NEW b \in Nat, Within(input, m, b)
    PROVE  Within(SortLimit(task, input), m, 3 * b + 9)
<1> DEFINE S == {k \in 1 .. Len(input) : input[k] >= task.threshold}
           t == Keep(input, S)
           u == TransformAll(task, t)
           v == Sorted(u, task.reverse)
           count == LesserOf(task.width, Len(v))
<1>1. Positions(S, Len(input))
  BY DEF Within, Positions
<1>2. Within(t, m, b)
  <2> HIDE DEF S
  <2> QED
    BY <1>1, KeepIsWithin
<1>3. Within(u, m, 3 * b + 9)
  <2> HIDE DEF t
  <2> QED
    BY <1>2, TransformedIsWithin
<1>4. Within(v, m, 3 * b + 9)
  <2>1. task.reverse \in BOOLEAN
    BY TaskParameters
  <2> HIDE DEF u
  <2> QED
    BY <1>3, <2>1, SortedIsWithin
<1>5. count \in 0 .. Len(v)
  <2>1. Len(v) \in Nat
    BY <1>4 DEF Within
  <2>2. task.width \in 1 .. 6
    BY TaskParameters
  <2> HIDE DEF v
  <2> QED
    BY <2>1, <2>2 DEF LesserOf
<1>6. SortLimit(task, input) = SubSeq(v, 1, count)
  BY DEF SortLimit, Filter
<1> HIDE DEF v, count
<1> QED
  BY <1>4, <1>5, <1>6, PrefixIsWithin

LEMMA UniqueOccurrenceIsWithin ==
    ASSUME NEW task \in Task, NEW input, NEW m \in Nat, NEW b \in Nat, Within(input, m, b)
    PROVE  Within(UniqueOccurrence(task, input), m, 3 * b + 9)
<1> DEFINE others(k) == IF task.reverse THEN k + 1 .. Len(input) ELSE 1 .. k - 1
           S == {k \in 1 .. Len(input) : \A j \in others(k) : input[j] # input[k]}
           t == Keep(input, S)
           u == TransformAll(task, t)
<1>1. Positions(S, Len(input))
  BY DEF Within, Positions
<1>2. Within(t, m, b)
  <2> HIDE DEF S
  <2> QED
    BY <1>1, KeepIsWithin
<1>3. Within(u, m, 3 * b + 9)
  <2> HIDE DEF t
  <2> QED
    BY <1>2, TransformedIsWithin
<1>4. UniqueOccurrence(task, input) = u
  BY DEF UniqueOccurrence
<1> QED
  BY <1>3, <1>4

LEMMA AdjacentDifferenceIsWithin ==
    ASSUME NEW task \in Task, NEW input, NEW m \in Nat, NEW b \in Nat, Within(input, m, b)
    PROVE  Within(AdjacentDifference(task, input), m, 3 * (2 * b) + 9)
<1> DEFINE d == IF input = <<>> THEN <<>>
                ELSE [k \in 1 .. Len(input) - 1 |-> input[k + 1] - input[k]]
           S == {k \in 1 .. Len(d) : d[k] \in -Limit(task) .. Limit(task)}
           t == Keep(d, S)
           u == TransformAll(task, t)
<1>0. /\ input \in Seq(Int) /\ Len(input) \in 0 .. m
      /\ \A k \in 1 .. Len(input) : input[k] \in -b .. b
  BY DEF Within
<1>1. Within(d, m, 2 * b)
  <2>1. CASE input = <<>>
    BY <2>1 DEF Within
  <2>2. CASE input # <<>>
    <3> DEFINE n == Len(input) - 1
               e == [k \in 1 .. n |-> input[k + 1] - input[k]]
               c == 2 * b
    <3>1. n \in Nat /\ n <= m
      BY <1>0, <2>2
    <3>2. ASSUME NEW k \in 1 .. n PROVE e[k] \in -c .. c
      <4> DEFINE x == input[k]
                 y == input[k + 1]
      <4>1. x \in -b .. b /\ y \in -b .. b
        BY <1>0
      <4>2. e[k] = y - x
        OBVIOUS
      <4> HIDE DEF e, x, y
      <4> QED
        BY <4>1, <4>2
    <3>6. c \in Nat
      OBVIOUS
    <3>3. e = [k \in 1 .. n |-> e[k]]
      OBVIOUS
    <3> HIDE DEF c, e, n
    <3>4. Within(e, m, c)
      BY <3>1, <3>2, <3>3, <3>6, FunctionIsWithin
    <3>5. d = e
      BY <2>2 DEF e, n
    <3> QED
      BY <3>4, <3>5 DEF c
  <2> QED
    BY <2>1, <2>2
<1> HIDE DEF d
<1>2. Positions(S, Len(d))
  BY <1>1 DEF Within, Positions
<1> DEFINE c == 2 * b
<1>6. c \in Nat
  OBVIOUS
<1>3. Within(t, m, c)
  <2> HIDE DEF S
  <2>1. Within(d, m, c)
    BY <1>1
  <2> HIDE DEF c
  <2> QED
    BY <1>2, <1>6, <2>1, KeepIsWithin
<1>4. Within(u, m, 3 * (2 * b) + 9)
  <2> HIDE DEF t, c
  <2>1. Within(u, m, 3 * c + 9)
    BY <1>3, <1>6, TransformedIsWithin
  <2> QED
    BY <2>1 DEF c
<1>5. AdjacentDifference(task, input) = u
  BY DEF AdjacentDifference, DifferencesIn, Filter, d
<1> QED
  BY <1>4, <1>5

LEMMA WindowSumIsWithin ==
    ASSUME NEW task \in Task, NEW input, NEW m \in Nat, NEW b \in Nat, Within(input, m, b)
    PROVE  Within(WindowSum(task, input), m, m * b)
<1> DEFINE w == task.width
           n == Len(input) - w + 1
           e == [k \in 1 .. n |-> Total(SubSeq(input, k, k + w - 1))]
           d == IF Len(input) < w THEN <<>> ELSE e
           S == {k \in 1 .. Len(d) : d[k] >= task.threshold}
<1>0. /\ input \in Seq(Int) /\ Len(input) \in 0 .. m
      /\ \A k \in 1 .. Len(input) : input[k] \in -b .. b
      /\ w \in 1 .. 6
  BY TaskParameters DEF Within
<1>1. Within(d, m, m * b)
  <2>1. CASE Len(input) < w
    BY <2>1 DEF Within
  <2>2. CASE ~(Len(input) < w)
    <3>1. /\ n \in Nat /\ n <= m
          /\ \A k \in 1 .. n : k \in 1 .. Len(input) /\ k + w - 1 \in k .. Len(input)
      <4> HIDE DEF w
      <4> QED
        BY <1>0, <2>2
    <3> DEFINE c == m * b
    <3>2. ASSUME NEW k \in 1 .. n PROVE e[k] \in -c .. c
      <4> DEFINE s == SubSeq(input, k, k + w - 1)
                 last == k + w - 1
      <4>1. /\ k \in 1 .. Len(input) /\ last \in k .. Len(input) /\ last - k + 1 \in 0 .. m
            /\ Len(input) \in Nat
        <5> HIDE DEF w, n
        <5> QED
          BY <1>0, <3>1
      <4> HIDE DEF last, n
      <4>2. \A j \in k .. last : input[j] \in Int /\ j \in 1 .. Len(input)
        BY <1>0, <4>1
      <4>3. s = SubSeq(input, k, last)
        BY DEF last
      <4> HIDE DEF s
      <4>4. /\ s \in Seq(Int) /\ Len(s) = last - k + 1
            /\ \A j \in 1 .. last - k + 1 : s[j] = input[k + j - 1]
        <5>1. k \in Int /\ last \in Int /\ k <= last
          BY <4>1
        <5>2. \A j \in k .. last : input[j] \in Int
          BY <4>2
        <5>3. /\ s \in Seq(Int) /\ Len(s) = (IF k <= last THEN last - k + 1 ELSE 0)
              /\ \A j \in 1 .. last - k + 1 : s[j] = input[k + j - 1]
          BY <4>3, <5>1, <5>2, SubSeqProperties
        <5> QED
          BY <5>1, <5>3
      <4>5. \A j \in 1 .. last - k + 1 : k + j - 1 \in 1 .. Len(input)
        BY <4>1
      <4>6. Within(s, m, b)
        <5>1. Len(s) <= m
          BY <4>1, <4>4
        <5>2. ASSUME NEW j \in 1 .. Len(s) PROVE s[j] \in -b .. b
          BY <1>0, <4>4, <4>5
        <5> QED
          BY <4>4, <5>1, <5>2 DEF Within
      <4>7. Total(s) \in -(m * b) .. m * b
        BY <4>6, TotalIsWithin
      <4>8. e[k] = Total(s)
        BY DEF s, n
      <4> HIDE DEF e
      <4> QED
        BY <4>7, <4>8
    <3>3. e = [k \in 1 .. n |-> e[k]]
      OBVIOUS
    <3>4. c \in Nat
      OBVIOUS
    <3> HIDE DEF c, e, n
    <3>5. Within(e, m, c)
      BY <3>1, <3>2, <3>3, <3>4, FunctionIsWithin
    <3> QED
      BY <2>2, <3>5 DEF c
  <2> QED
    BY <2>1, <2>2
<1>2. Positions(S, Len(d))
  <2> HIDE DEF d
  <2> QED
    BY <1>1 DEF Within, Positions
<1>3. WindowSum(task, input) = Keep(d, S)
  BY DEF WindowSum, Filter
<1> DEFINE c == m * b
<1>4. c \in Nat /\ Within(d, m, c)
  BY <1>1
<1> HIDE DEF c, d, S
<1>5. Within(Keep(d, S), m, c)
  BY <1>2, <1>4, KeepIsWithin
<1> QED
  BY <1>3, <1>5 DEF c

LEMMA StablePartitionIsWithin ==
    ASSUME NEW task \in Task, NEW input, NEW m \in Nat, NEW b \in Nat, Within(input, m, b),
           task.kind = "stable_partition"
    PROVE  Within(StablePartition(task, input), m, 3 * b + 9)
<1> DEFINE n == Len(input)
           S == {k \in 1 .. n : Matches(task, input[k]) # task.reverse}
           R == {k \in 1 .. n : Matches(task, input[k]) = task.reverse}
           t == TransformAll(task, Keep(input, S))
           u == TransformAll(task, Keep(input, R))
<1>0. input \in Seq(Int) /\ n \in 0 .. m
  BY DEF Within
<1>1. Positions(S, n) /\ Positions(R, n)
  BY <1>0 DEF Positions
<1>2. ASSUME NEW Q, Positions(Q, n)
      PROVE  Within(TransformAll(task, Keep(input, Q)), m, 3 * b + 9)
  <2> DEFINE q == Keep(input, Q)
  <2>1. Within(q, m, b)
    BY <1>2, KeepIsWithin
  <2> HIDE DEF q
  <2>2. Within(TransformAll(task, q), m, 3 * b + 9)
    BY <2>1, TransformedIsWithin
  <2> QED
    BY <2>2 DEF q
<1>3. Within(t, m, 3 * b + 9) /\ Within(u, m, 3 * b + 9)
  <2> HIDE DEF S, R
  <2> QED
    BY <1>1, <1>2
<1>4. StablePartition(task, input) = t \o u
  BY DEF StablePartition, Filter
<1>5. Len(t \o u) = n
  <2>1. IsAnswer(task, input, StablePartition(task, input))
    BY <1>0, StablePartitionIsAnswer
  <2>2. Len(StablePartition(task, input)) = n
    BY <2>1 DEF IsAnswer
  <2> HIDE DEF t, u
  <2> QED
    BY <1>4, <2>2
<1> HIDE DEF t, u
<1>6. /\ t \in Seq(Int) /\ Len(t) \in Nat
      /\ \A k \in 1 .. Len(t) : t[k] \in -(3 * b + 9) .. 3 * b + 9
      /\ u \in Seq(Int) /\ Len(u) \in Nat
      /\ \A k \in 1 .. Len(u) : u[k] \in -(3 * b + 9) .. 3 * b + 9
  BY <1>3 DEF Within
<1>7. ASSUME NEW k \in 1 .. Len(t \o u) PROVE (t \o u)[k] \in -(3 * b + 9) .. 3 * b + 9
  <2>1. CASE k \in 1 .. Len(t)
    BY <1>6, <2>1, Joined
  <2>2. CASE k \notin 1 .. Len(t)
    <3>1. Len(t \o u) = Len(t) + Len(u)
      BY <1>6, Joined
    <3>2. k - Len(t) \in 1 .. Len(u) /\ Len(t) + (k - Len(t)) = k
      BY <1>6, <2>2, <3>1
    <3>3. (t \o u)[k] = u[k - Len(t)]
      BY <1>6, <3>2, Joined
    <3> QED
      BY <1>6, <3>2, <3>3
  <2> QED
    BY <2>1, <2>2
<1>8. t \o u \in Seq(Int)
  BY <1>6, Joined
<1> QED
  BY <1>0, <1>4, <1>5, <1>7, <1>8 DEF Within

LEMMA OutsideInPairsIsWithin ==
    ASSUME NEW task \in Task, NEW input, NEW m \in Nat, NEW b \in Nat, Within(input, m, b)
    PROVE  Within(OutsideInPairs(task, input), m, 3 * (2 * b) + 9)
<1> DEFINE n == Len(input)
           opposite(k) == n - k + 1
           pair(k) == IF k = opposite(k) /\ ~task.reverse
                      THEN input[k] ELSE input[k] + input[opposite(k)]
           h == (n + 1) \div 2
           e == [k \in 1 .. h |-> Transform(task, pair(k))]
<1>0. /\ n \in 0 .. m /\ \A k \in 1 .. n : input[k] \in -b .. b
  BY DEF Within
<1>1. h \in Nat /\ h <= m /\ h <= n
  BY <1>0
<1> DEFINE c == 2 * b
           q == 3 * c + 9
<1>5. c \in Nat /\ q \in Nat
  OBVIOUS
<1>2. ASSUME NEW k \in 1 .. h PROVE e[k] \in -q .. q
  <2>1. k \in 1 .. n /\ opposite(k) \in 1 .. n
    BY <1>0, <1>1
  <2>2. pair(k) \in -c .. c
    <3> DEFINE x == input[k]
               y == input[opposite(k)]
    <3>1. x \in -b .. b /\ y \in -b .. b
      BY <1>0, <2>1
    <3> HIDE DEF x, y
    <3>2. x \in -c .. c /\ x + y \in -c .. c
      BY <3>1
    <3> QED
      BY <3>2 DEF x, y
  <2>3. e[k] = Transform(task, pair(k))
    OBVIOUS
  <2> HIDE DEF e, pair, c
  <2>4. Transform(task, pair(k)) \in -q .. q
    BY <1>5, <2>2, TransformIsWithin
  <2> QED
    BY <2>3, <2>4
<1>3. OutsideInPairs(task, input) = e
  BY DEF OutsideInPairs
<1>4. e = [k \in 1 .. h |-> e[k]]
  OBVIOUS
<1> HIDE DEF e, h, q
<1>6. Within(e, m, q)
  BY <1>1, <1>2, <1>4, <1>5, FunctionIsWithin
<1> QED
  BY <1>3, <1>6 DEF q

LEMMA ResidueBucketsIsWithin ==
    ASSUME NEW task \in Task, NEW input, NEW m \in Nat, NEW b \in Nat, Within(input, m, b),
           task.kind = "residue_buckets"
    PROVE  Within(ResidueBuckets(task, input), 7, m * b)
<1> DEFINE n == Len(input)
           r == ResidueBuckets(task, input)
           S(j) == {k \in 1 .. n : PromptResidue(task, input[k]) = j}
<1>0. /\ input \in Seq(Int) /\ n \in Nat /\ n <= m /\ \A k \in 1 .. n : input[k] \in -b .. b
      /\ task.modulus \in 2 .. 7
  BY DEF Within, Task
<1>1. IsAnswer(task, input, r) /\ r \in Seq(Int)
  BY <1>0, ResidueBucketsIsAnswer
<1> HIDE DEF r
<1>2. /\ Len(r) = task.modulus
      /\ \A j \in 0 .. task.modulus - 1 :
            r[j + 1] = Total([k \in 1 .. n |-> IF k \in S(j) THEN input[k] ELSE 0])
  BY <1>1 DEF IsAnswer, SumOver
<1>3. ASSUME NEW i \in 1 .. Len(r) PROVE r[i] \in -(m * b) .. m * b
  <2>1. i - 1 \in 0 .. task.modulus - 1 /\ (i - 1) + 1 = i
    BY <1>0, <1>2
  <2> DEFINE P == S(i - 1)
  <2>2. r[i] = Total([k \in 1 .. n |-> IF k \in P THEN input[k] ELSE 0])
    BY <1>2, <2>1
  <2> HIDE DEF P
  <2>3. Total([k \in 1 .. n |-> IF k \in P THEN input[k] ELSE 0]) \in -(m * b) .. m * b
    BY <1>0, SumIsWithin
  <2> QED
    BY <2>2, <2>3
<1>4. Len(r) <= 7
  BY <1>0, <1>2
<1> QED
  BY <1>1, <1>3, <1>4 DEF Within, r

LEMMA PrefixTotalIsWithin ==
    ASSUME NEW task \in Task, NEW input, NEW m \in Nat, NEW b \in Nat, Within(input, m, b),
           task.kind = "prefix_total"
    PROVE  Within(PrefixTotal(task, input), m, m * (3 * b + 9))
<1> DEFINE n == Len(input)
           r == PrefixTotal(task, input)
           f == [k \in 1 .. n |-> Transform(task, input[k])]
           chosen == {k \in 1 .. n : Selected(task, input[k])}
<1>0. input \in Seq(Int) /\ n \in Nat /\ n <= m /\ \A k \in 1 .. n : input[k] \in -b .. b
  BY DEF Within
<1> DEFINE c == 3 * b + 9
<1>1. c \in Nat /\ \A k \in 1 .. n : f[k] \in -c .. c
  <2> SUFFICES ASSUME NEW k \in 1 .. n PROVE Transform(task, input[k]) \in -(3 * b + 9) .. 3 * b + 9
    OBVIOUS
  <2>1. Transform(task, input[k]) \in -(3 * b + 9) .. 3 * b + 9
    BY <1>0, TransformIsWithin
  <2> QED
    BY <2>1
<1>2. IsAnswer(task, input, r) /\ r \in Seq(Int)
  BY <1>0, PrefixTotalIsAnswer
<1> HIDE DEF r, c
<1>3. /\ Len(r) = Cardinality(1 .. n)
      /\ \A k \in 1 .. n : r[Rank(1 .. n, k)] =
            Total([i \in 1 .. n |-> IF i \in chosen \intersect 1 .. k
                                    THEN Transform(task, input[i]) ELSE 0])
  BY <1>2 DEF IsAnswer, Lists, SumOver, Rank
<1>4. Len(r) = n
  BY <1>0, <1>3, UpToCardinality
<1>5. ASSUME NEW k \in 1 .. n PROVE r[k] \in -(m * c) .. m * c
  <2> DEFINE P == chosen \intersect 1 .. k
  <2>1. Rank(1 .. n, k) = k
    BY <1>0, RankOfAll
  <2>2. r[k] = Total([i \in 1 .. n |-> IF i \in P THEN f[i] ELSE 0])
    <3>1. [i \in 1 .. n |-> IF i \in P THEN f[i] ELSE 0] =
          [i \in 1 .. n |-> IF i \in P THEN Transform(task, input[i]) ELSE 0]
      OBVIOUS
    <3> QED
      BY <1>3, <2>1, <3>1
  <2> HIDE DEF P, f
  <2>3. Total([i \in 1 .. n |-> IF i \in P THEN f[i] ELSE 0]) \in -(m * c) .. m * c
    BY <1>0, <1>1, SumIsWithin
  <2> QED
    BY <2>2, <2>3
<1> QED
  BY <1>0, <1>2, <1>4, <1>5 DEF Within, c, r

LEMMA LongestRunIsWithin ==
    ASSUME NEW task \in Task, NEW input, NEW m \in Nat, NEW b \in Nat, Within(input, m, b)
    PROVE  Within(LongestRun(task, input), 2, m + 1)
<1> DEFINE n == Len(input)
           run == RunCourse(task, input)[n]
           start == run.start
           best == run.best
<1>0. input \in Seq(Int) /\ n \in 0 .. m
  BY DEF Within
<1>1. RunInv(task, input, n, run)
  BY <1>0, RunInvAtEnd
<1>2. best \in 0 .. n /\ (best = 0 => start = -1) /\ (best > 0 => start \in 0 .. n - best)
  BY <1>1, Zenon DEF RunInv
<1>3. LongestRun(task, input) = <<start, best>>
  BY <1>0, RunCourseDef
<1> HIDE DEF n, start, best
<1>4. start \in -(m + 1) .. m + 1 /\ best \in -(m + 1) .. m + 1
  BY <1>0, <1>2
<1>5. Within(<<start, best>>, 2, m + 1)
  BY <1>4 DEF Within
<1> QED
  BY <1>3, <1>5

LEMMA EvaluateIsWithin ==
    ASSUME NEW task \in Task, NEW input, NEW m \in Nat, NEW b \in Nat, Within(input, m, b),
           7 <= m, m <= b, NEW limit \in Nat, m * (3 * b + 9) <= limit
    PROVE  IF task.kind = "filter_sum" THEN Evaluate(task, input) \in -limit .. limit
                                       ELSE Within(Evaluate(task, input), m, limit)
<1> DEFINE c == m * (3 * b + 9)
<1>1. c \in Nat /\ m * b <= c /\ 3 * b + 9 <= c /\ 3 * (2 * b) + 9 <= c /\ m + 1 <= c
  <2> DEFINE d == m - 7
  <2>1. d \in Nat /\ m = d + 7
    OBVIOUS
  <2> DEFINE e == d * b
  <2>2. e \in Nat /\ m * b = e + 7 * b
    BY <2>1
  <2>3. m * (3 * b + 9) = 3 * (m * b) + 9 * m
    OBVIOUS
  <2> DEFINE q == m * b
  <2>4. q \in Nat /\ c = 3 * q + 9 * m /\ q = e + 7 * b
    BY <2>2, <2>3
  <2> HIDE DEF c, d, e, q
  <2> QED
    BY <2>2, <2>4 DEF q
<1>2. task.kind \in Families /\ c <= limit
  BY DEF Task
<1> HIDE DEF c
<1>3. ASSUME NEW s, NEW n \in Nat, n <= m, NEW x \in Nat, x <= c, Within(s, n, x)
      PROVE  Within(s, m, limit)
  <2>1. x <= limit
    BY <1>1, <1>2, <1>3
  <2> QED
    BY <1>3, <2>1, WiderIsWithin
<1>4. /\ m * b \in Nat /\ 3 * b + 9 \in Nat /\ 3 * (2 * b) + 9 \in Nat /\ m + 1 \in Nat
      /\ 7 \in Nat /\ 2 \in Nat /\ 2 <= m
  OBVIOUS
<1> DEFINE r == Evaluate(task, input)
<1>5. CASE task.kind = "filter_sum"
  <2>1. FilterSum(task, input) \in -c .. c
    BY FilterSumIsWithin DEF c
  <2>2. FilterSum(task, input) \in -limit .. limit
    BY <1>1, <1>2, <2>1
  <2> QED
    BY <1>5, <2>2 DEF Evaluate
<1>6. CASE task.kind \in {"sort_limit", "unique_occurrence", "stable_partition"}
  <2>1. Within(r, m, 3 * b + 9)
    BY <1>6, SortLimitIsWithin, UniqueOccurrenceIsWithin, StablePartitionIsWithin DEF Evaluate
  <2> HIDE DEF r
  <2>2. Within(r, m, limit)
    BY <1>1, <1>3, <1>4, <2>1
  <2> QED
    BY <1>6, <2>2 DEF r
<1>7. CASE task.kind \in {"adjacent_difference", "outside_in_pairs"}
  <2>1. Within(r, m, 3 * (2 * b) + 9)
    BY <1>7, AdjacentDifferenceIsWithin, OutsideInPairsIsWithin DEF Evaluate
  <2> HIDE DEF r
  <2>2. Within(r, m, limit)
    BY <1>1, <1>3, <1>4, <2>1
  <2> QED
    BY <1>7, <2>2 DEF r
<1>8. CASE task.kind = "residue_buckets"
  <2>1. Within(r, 7, m * b)
    BY <1>8, ResidueBucketsIsWithin DEF Evaluate
  <2> HIDE DEF r
  <2>2. Within(r, m, limit)
    BY <1>1, <1>3, <1>4, <2>1
  <2> QED
    BY <1>8, <2>2 DEF r
<1>9. CASE task.kind = "prefix_total"
  <2>1. Within(r, m, c)
    BY <1>9, PrefixTotalIsWithin DEF Evaluate, c
  <2> HIDE DEF r
  <2>2. Within(r, m, limit)
    BY <1>1, <1>3, <1>4, <2>1
  <2> QED
    BY <1>9, <2>2 DEF r
<1>10. CASE task.kind = "longest_run"
  <2>1. Within(r, 2, m + 1)
    BY <1>10, LongestRunIsWithin DEF Evaluate
  <2> HIDE DEF r
  <2>2. Within(r, m, limit)
    BY <1>1, <1>3, <1>4, <2>1
  <2> QED
    BY <1>10, <2>2 DEF r
<1>11. CASE task.kind = "window_sum"
  <2>1. Within(r, m, m * b)
    BY <1>11, WindowSumIsWithin DEF Evaluate
  <2> HIDE DEF r
  <2>2. Within(r, m, limit)
    BY <1>1, <1>3, <1>4, <2>1
  <2> QED
    BY <1>11, <2>2 DEF r
<1> QED
  BY <1>2, <1>5, <1>6, <1>7, <1>8, <1>9, <1>10, <1>11 DEF Families

-----------------------------------------------------------------------------
\* Composition::evaluate: a filter leaves a sequence within its bounds, and no
\* stage leaves more than a transformation.
LEMMA AppliedIsWithin ==
    ASSUME NEW task, IsComposition(task), NEW stage \in Stage,
           NEW s, NEW m \in Nat, NEW b \in Nat, Within(s, m, b)
    PROVE  /\ Within(Applied(task, stage, s), m, 3 * b + 9)
           /\ stage.operation = "filter" => Within(Applied(task, stage, s), m, b)
<1> DEFINE n == Len(s)
           o == Operate(task, stage, s)
           c == 3 * b + 9
<1>1. /\ s \in Seq(Int) /\ n \in Nat /\ n <= m /\ \A k \in 1 .. n : s[k] \in -b .. b
  BY DEF Within
<1>2. /\ stage.operation \in {"filter", "affine", "sort", "reverse", "unique", "take"}
      /\ stage.multiplier \in {-3, -2, -1, 2, 3} /\ stage.offset \in -9 .. 9
      /\ stage.flag \in BOOLEAN /\ stage.count \in 1 .. 8
  BY DEF Stage
<1>3. c \in Nat /\ b <= c
  OBVIOUS
<1> HIDE DEF c
<1>4. ASSUME stage.operation = "filter" PROVE Within(o, m, b)
  <2> DEFINE S == {k \in 1 .. n : Holds(task, stage.filter, s[k])}
  <2>1. Positions(S, n)
    BY <1>1 DEF Positions
  <2>2. o = Keep(s, S)
    BY <1>4 DEF Operate, Filter
  <2> HIDE DEF S, o
  <2>3. Within(o, m, b)
    BY <2>1, <2>2, KeepIsWithin
  <2> QED
    BY <2>3
<1>5. ASSUME stage.operation = "affine" PROVE Within(o, m, c)
  <2> DEFINE f == [k \in 1 .. n |-> stage.multiplier * s[k] + stage.offset]
  <2>1. o = f
    BY <1>5 DEF Operate
  <2>2. ASSUME NEW k \in 1 .. n PROVE f[k] \in -c .. c
    <3> DEFINE p == stage.multiplier
               q == stage.offset
               x == s[k]
               y == p * x
    <3>1. x \in -b .. b /\ p \in {-3, -2, -1, 2, 3} /\ q \in -9 .. 9
      BY <1>1, <1>2
    <3>2. f[k] = y + q
      OBVIOUS
    <3> HIDE DEF f, p, q, x
    <3>3. y \in -(3 * b) .. 3 * b
      BY <3>1
    <3> HIDE DEF y
    <3>4. y + q \in -(3 * b + 9) .. 3 * b + 9
      BY <3>1, <3>3
    <3> QED
      BY <3>2, <3>4 DEF c
  <2>3. f = [k \in 1 .. n |-> f[k]]
    OBVIOUS
  <2> HIDE DEF f, n, o
  <2>4. Within(f, m, c)
    BY <1>1, <1>3, <2>2, <2>3, FunctionIsWithin
  <2> QED
    BY <2>1, <2>4
<1>6. ASSUME stage.operation = "sort" PROVE Within(o, m, b)
  <2>1. o = Sorted(s, stage.flag)
    BY <1>6 DEF Operate
  <2> HIDE DEF o
  <2>2. Within(o, m, b)
    BY <1>2, <2>1, SortedIsWithin
  <2> QED
    BY <2>2
<1>7. ASSUME stage.operation = "reverse" PROVE Within(o, m, b)
  <2> DEFINE f == [k \in 1 .. n |-> s[n - k + 1]]
  <2>1. o = f
    BY <1>7 DEF Operate
  <2>2. ASSUME NEW k \in 1 .. n PROVE f[k] \in -b .. b
    <3>1. n - k + 1 \in 1 .. n
      BY <1>1
    <3>2. f[k] = s[n - k + 1]
      OBVIOUS
    <3> QED
      BY <1>1, <3>1, <3>2
  <2>3. f = [k \in 1 .. n |-> f[k]]
    OBVIOUS
  <2> HIDE DEF f, n, o
  <2>4. Within(f, m, b)
    BY <1>1, <2>2, <2>3, FunctionIsWithin
  <2> QED
    BY <2>1, <2>4
<1>8. ASSUME stage.operation = "unique" PROVE Within(o, m, b)
  <2> DEFINE others(k) == IF stage.flag THEN k + 1 .. n ELSE 1 .. k - 1
             S == {k \in 1 .. n : \A j \in others(k) : s[j] # s[k]}
  <2>1. Positions(S, n)
    BY <1>1 DEF Positions
  <2>2. o = Keep(s, S)
    BY <1>8 DEF Operate
  <2> HIDE DEF S, o
  <2>3. Within(o, m, b)
    BY <2>1, <2>2, KeepIsWithin
  <2> QED
    BY <2>3
<1>9. ASSUME stage.operation = "take" PROVE Within(o, m, b)
  <2> DEFINE k == LesserOf(stage.count, n)
  <2>1. o = SubSeq(s, 1, k)
    BY <1>9 DEF Operate
  <2>2. k \in 0 .. n
    <3>1. ASSUME NEW p \in Nat, NEW q \in Nat PROVE LesserOf(p, q) \in 0 .. q
      BY DEF LesserOf
    <3>2. stage.count \in Nat
      BY <1>2
    <3> QED
      BY <1>1, <3>1, <3>2
  <2> HIDE DEF k, o
  <2>3. Within(o, m, b)
    BY <2>1, <2>2, PrefixIsWithin
  <2> QED
    BY <2>3
<1>10. Within(s, m, c)
  BY <1>3, WiderIsWithin
<1> HIDE DEF o
<1>11. Within(o, m, c) /\ (stage.operation = "filter" => Within(o, m, b))
  <2>1. CASE stage.operation = "affine"
    BY <1>5, <2>1
  <2>2. CASE stage.operation # "affine"
    <3>1. Within(o, m, b)
      BY <1>2, <1>4, <1>6, <1>7, <1>8, <1>9, <2>2
    <3>2. Within(o, m, c)
      BY <1>3, <3>1, WiderIsWithin
    <3> QED
      BY <3>1, <3>2
  <2> QED
    BY <2>1, <2>2
<1>12. Applied(task, stage, s) = IF Enabled(task, stage, s) THEN o ELSE s
  BY DEF Applied, o
<1> QED
  BY <1>10, <1>11, <1>12 DEF c

LEMMA StagesOf ==
    ASSUME NEW task, IsComposition(task)
    PROVE  \A k \in 1 .. Len(task.stages) : task.stages[k] \in Stage
<1> DEFINE A == Stage
           s == task.stages
<1>1. s \in Seq(A)
  BY CompositionParameters
<1> HIDE DEF A, s
<1>2. \A k \in 1 .. Len(s) : s[k] \in A
  BY <1>1
<1> QED
  BY <1>2 DEF A, s

\* A composition that starts with at most m values, none further from zero than
\* B[0], and whose bounds leave room for a transformation from one to the next: at
\* least one stage is a filter, so its last bound is the one before its last stage.
LEMMA StagesAreWithin ==
    ASSUME NEW task, IsComposition(task), NEW m \in Nat,
           NEW B \in [0 .. 5 -> Nat], \A i \in 1 .. 5 : 3 * B[i - 1] + 9 <= B[i],
           NEW input, Within(input, m, B[0])
    PROVE  Within(StageCourse(task, input)[Len(task.stages)], m, B[5])
<1> DEFINE n == Len(task.stages)
           g == StageCourse(task, input)
<1>1. n \in {3, 4, 5, 6}
  <2>1. n \in 3 .. 6
    BY CompositionParameters
  <2> HIDE DEF n
  <2> QED
    BY <2>1
<1>2. \A k \in 1 .. n : task.stages[k] \in Stage
  BY StagesOf
<1>3. PICK j \in 1 .. n : task.stages[j].operation = "filter"
  BY DEF IsComposition
<1>4. input \in Seq(Int)
  BY DEF Within
<1>5. /\ g[0] = input
      /\ \A k \in 1 .. n : g[k] = Applied(task, task.stages[k], g[k - 1])
  BY <1>4, StageCourseDef
<1> HIDE DEF n, g
<1> DEFINE reach(k) == IF k < j THEN k ELSE k - 1
           T == {k \in 0 .. n : Within(g[k], m, B[reach(k)])}
<1>6. \A k \in 0 .. n : reach(k) \in 0 .. 5
  <2>1. ASSUME NEW k \in 0 .. n PROVE reach(k) \in 0 .. 5
    <3>1. n <= 6 /\ n \in Nat
      BY <1>1
    <3>2. k \in Nat /\ k <= n /\ j \in Nat /\ 1 <= j /\ j <= n
      BY <3>1
    <3>3. k <= 6 /\ (k < j => k <= 5) /\ (~(k < j) => k >= 1)
      BY <3>1, <3>2
    <3> QED
      BY <3>2, <3>3
  <2> QED
    BY <2>1
<1>7. 0 \in T
  <2>1. reach(0) = 0
    BY <1>1
  <2>2. 0 \in 0 .. n
    BY <1>1
  <2> HIDE DEF reach
  <2> QED
    BY <1>5, <2>1, <2>2
<1>8. ASSUME NEW k \in 0 .. n - 1, k \in T PROVE k + 1 \in T
  <2>1. k \in 0 .. n /\ k + 1 \in 0 .. n /\ k + 1 \in 1 .. n /\ (k + 1) - 1 = k
    BY <1>1
  <2> DEFINE stage == task.stages[k + 1]
             b == B[reach(k)]
             c == B[reach(k + 1)]
  <2>2. b \in Nat /\ c \in Nat
    <3> HIDE DEF reach
    <3> QED
      BY <1>6, <2>1
  <2>3. Within(g[k], m, b) /\ g[k + 1] = Applied(task, stage, g[k]) /\ stage \in Stage
    BY <1>2, <1>5, <1>8, <2>1
  <2>4. CASE k + 1 = j
    <3>1. reach(k + 1) = k /\ reach(k) = k
      BY <1>1, <2>1, <2>4
    <3>2. b = c /\ stage.operation = "filter"
      BY <1>3, <2>4, <3>1
    <3> HIDE DEF b, c, stage
    <3>3. Within(g[k + 1], m, b)
      BY <2>2, <2>3, <3>2, AppliedIsWithin
    <3> QED
      BY <2>1, <3>2, <3>3 DEF c
  <2>5. CASE k + 1 # j
    <3>1. reach(k + 1) = reach(k) + 1
      <4>1. k \in Nat /\ j \in Nat /\ k + 1 # j
        BY <2>1, <2>5
      <4>2. k + 1 < j <=> k < j
        BY <4>1
      <4> QED
        BY <4>1, <4>2
    <3>2. reach(k) \in 0 .. 5 /\ reach(k + 1) \in 0 .. 5
      BY <1>6, <2>1
    <3> HIDE DEF reach
    <3>3. reach(k + 1) \in 1 .. 5 /\ reach(k) = reach(k + 1) - 1
      BY <3>1, <3>2
    <3>4. 3 * b + 9 <= c
      BY <3>3
    <3> HIDE DEF b, c, stage
    <3>5. Within(g[k + 1], m, 3 * b + 9)
      BY <2>2, <2>3, AppliedIsWithin
    <3>6. 3 * b + 9 \in Nat
      BY <2>2
    <3> DEFINE d == 3 * b + 9
    <3> HIDE DEF d
    <3>7. Within(g[k + 1], m, d) /\ d \in Nat /\ d <= c
      BY <3>4, <3>5, <3>6 DEF d
    <3>8. Within(g[k + 1], m, c)
      BY <2>2, <3>7, WiderIsWithin
    <3> QED
      BY <2>1, <3>8 DEF c
  <2> QED
    BY <2>4, <2>5
<1>9. n \in T
  <2>1. n \in Nat /\ n \in 0 .. n
    BY <1>1
  <2> HIDE DEF T
  <2>2. 0 .. n \subseteq T
    BY <1>7, <1>8, <2>1, UpTo
  <2> QED
    BY <2>1, <2>2
<1>10. Within(g[n], m, B[reach(n)])
  BY <1>9
<1>11. reach(n) \in 0 .. 5
  <2>1. n \in 0 .. n
    BY <1>1
  <2> HIDE DEF reach
  <2> QED
    BY <1>6, <2>1
<1>12. \A i \in 0 .. 5 : B[i] \in Nat
  OBVIOUS
<1>13. B[0] <= B[5] /\ B[1] <= B[5] /\ B[2] <= B[5] /\ B[3] <= B[5] /\ B[4] <= B[5]
  <2> DEFINE b0 == B[0]
             b1 == B[1]
             b2 == B[2]
             b3 == B[3]
             b4 == B[4]
             b5 == B[5]
  <2>1. b0 \in Nat /\ b1 \in Nat /\ b2 \in Nat /\ b3 \in Nat /\ b4 \in Nat /\ b5 \in Nat
    BY <1>12
  <2>2. 3 * b0 + 9 <= b1 /\ 3 * b1 + 9 <= b2 /\ 3 * b2 + 9 <= b3 /\ 3 * b3 + 9 <= b4 /\ 3 * b4 + 9 <= b5
    <3>1. \A i \in {1, 2, 3, 4, 5} : 3 * B[i - 1] + 9 <= B[i]
      OBVIOUS
    <3> QED
      BY <3>1
  <2> HIDE DEF b0, b1, b2, b3, b4, b5
  <2>3. b0 <= b5 /\ b1 <= b5 /\ b2 <= b5 /\ b3 <= b5 /\ b4 <= b5
    BY <2>1, <2>2
  <2> QED
    BY <2>3 DEF b0, b1, b2, b3, b4, b5
<1> DEFINE r == reach(n)
<1> HIDE DEF r
<1>14. r \in 0 .. 5 /\ Within(g[n], m, B[r])
  BY <1>10, <1>11 DEF r
<1>15. B[r] \in Nat /\ B[5] \in Nat /\ B[r] <= B[5]
  <2>1. r \in {0, 1, 2, 3, 4, 5}
    BY <1>14
  <2> QED
    BY <1>12, <1>13, <1>14, <2>1
<1>16. Within(g[n], m, B[5])
  BY <1>14, <1>15, WiderIsWithin
<1> QED
  BY <1>16 DEF g, n

\* What a composition answers, as a number or as a sequence.
LEMMA ComposedIsWithin ==
    ASSUME NEW task, IsComposition(task), NEW m \in Nat,
           NEW B \in [0 .. 5 -> Nat], \A i \in 1 .. 5 : 3 * B[i - 1] + 9 <= B[i],
           NEW input, Within(input, m, B[0])
    PROVE  IF task.sum THEN Composed(task, input) \in -(m * B[5]) .. m * B[5]
                       ELSE Within(Composed(task, input), m, B[5])
<1> DEFINE n == Len(task.stages)
           final == StageCourse(task, input)[n]
           b == B[5]
<1>1. Within(final, m, b) /\ b \in Nat
  <2>1. Within(final, m, B[5])
    BY StagesAreWithin, Zenon
  <2>2. B[5] \in Nat
    OBVIOUS
  <2> QED
    BY <2>1, <2>2
<1>2. input \in Seq(Int)
  BY DEF Within
<1>3. Composed(task, input) = IF task.sum THEN Total(final) ELSE final
  BY <1>2, StageCourseDef
<1> HIDE DEF final, b
<1>4. Total(final) \in -(m * b) .. m * b
  BY <1>1, TotalIsWithin
<1> QED
  BY <1>1, <1>3, <1>4 DEF b
=============================================================================
