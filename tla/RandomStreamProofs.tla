-------------------------- MODULE RandomStreamProofs --------------------------
(***************************************************************************)
(* Proofs about the random stream, for words of any number of values,      *)
(* blocks of any number of words and every bound: the 2^64 values of the   *)
(* code among them, which no run can enumerate.                            *)
(***************************************************************************)
EXTENDS RandomStream, Integers, FiniteSetTheorems, TLAPS

\* A number under the divisor is determined by what is left of it.
LEMMA SmallMultiple ==
    ASSUME NEW u \in Nat \ {0}, NEW d \in Int, -u < u * d, u * d < u
    PROVE  d = 0
<1>1. CASE d >= 1
  <2>1. u * d >= u
    BY <1>1
  <2> QED
    BY <2>1
<1>2. CASE d <= -1
  <2>1. u * d <= -u
    BY <1>2
  <2> QED
    BY <2>1
<1> QED
  BY <1>1, <1>2

\* Division with remainder.
LEMMA Division ==
    ASSUME NEW x \in Nat, NEW u \in Nat \ {0}
    PROVE  /\ x \div u \in Nat
           /\ x % u \in 0 .. u - 1
           /\ x = u * (x \div u) + (x % u)
  OBVIOUS

\* Quotient and remainder are the only ones.
LEMMA DivisionIsUnique ==
    ASSUME NEW u \in Nat \ {0}, NEW q \in Nat, NEW r \in 0 .. u - 1
    PROVE  (u * q + r) % u = r /\ (u * q + r) \div u = q
<1> DEFINE x == u * q + r
           d == (x \div u) - q
<1>1. x \in Nat
  OBVIOUS
<1>2. x \div u \in Nat /\ x % u \in 0 .. u - 1 /\ x = u * (x \div u) + (x % u)
  BY <1>1, Division
<1>3. d \in Int /\ u * d = r - (x % u)
  BY <1>2
<1>4. d = 0
  BY <1>2, <1>3, SmallMultiple
<1> QED
  BY <1>2, <1>4

-----------------------------------------------------------------------------
\* The words that are accepted fill the values evenly: rejecting the first
\* Threshold(u) words leaves a multiple of u.
LEMMA AcceptedWords ==
    ASSUME NEW u \in 1 .. WordCount - 1
    PROVE  /\ Threshold(u) \in 0 .. u - 1
           /\ \E k \in Nat \ {0} :
                 /\ WordCount = Threshold(u) + u * k
                 /\ (WordCount - Threshold(u)) \div u = k
<1> DEFINE x == WordCount - u
           k == (x \div u) + 1
<1>1. x \in Nat /\ u \in Nat \ {0} /\ WordCount \in Nat /\ WordCount = x + u
  BY StreamAssumption
<1>2. x \div u \in Nat /\ x % u \in 0 .. u - 1 /\ x = u * (x \div u) + (x % u)
  BY <1>1, Division
<1>3. Threshold(u) = x % u
  BY DEF Threshold
<1>4. k \in Nat \ {0}
  BY <1>2
<1>5. WordCount = Threshold(u) + u * k
  BY <1>1, <1>2, <1>3
<1>6. (u * k + 0) \div u = k
  BY <1>1, <1>4, DivisionIsUnique
<1>7. WordCount - Threshold(u) = u * k + 0
  BY <1>1, <1>2, <1>3, <1>4, <1>5
<1>8. (WordCount - Threshold(u)) \div u = k
  BY <1>6, <1>7
<1> QED
  BY <1>2, <1>3, <1>4, <1>5, <1>8

\* The accepted words of one value are as many as there are multiples of the
\* bound, one in each: the value itself lies under the threshold or above it.
LEMMA WordsOfValue ==
    ASSUME NEW u \in Nat \ {0}, NEW k \in Nat \ {0}, NEW v \in 0 .. u - 1,
           Threshold(u) \in 0 .. u - 1, WordCount = Threshold(u) + u * k
    PROVE  Cardinality(Giving(u, v)) = k
<1> DEFINE t == Threshold(u)
           first == IF v >= t THEN 0 ELSE 1
           f == [q \in 1 .. k |-> u * (q - 1 + first) + v]
<1>1. /\ t \in Nat /\ t < u /\ v \in Nat /\ v < u /\ u \in Nat /\ WordCount = t + u * k
      /\ first \in 0 .. 1
  OBVIOUS
<1>2. \A w : w \in Giving(u, v) <=> w \in 0 .. WordCount - 1 /\ w >= t /\ w % u = v
  BY DEF Giving, Words, Accepts
<1> HIDE DEF t
<1>3. ASSUME NEW q \in 1 .. k PROVE f[q] \in Giving(u, v)
  <2> DEFINE a == q - 1 + first
  <2>1. a \in Nat /\ f[q] = u * a + v
    OBVIOUS
  <2>2. f[q] % u = v
    BY <2>1, DivisionIsUnique
  <2>3. f[q] >= t /\ f[q] \in Nat
    <3>1. CASE v >= t
      <4>1. u * a \in Nat
        BY <2>1
      <4> QED
        BY <1>1, <2>1, <3>1, <4>1
    <3>2. CASE ~(v >= t)
      <4>1. a >= 1 /\ u * a >= u
        BY <3>2
      <4> QED
        BY <1>1, <2>1, <3>2, <4>1
    <3> QED
      BY <3>1, <3>2
  <2>4. f[q] < t + u * k
    <3>1. CASE v >= t
      <4>1. a + 1 <= k
        BY <3>1
      <4>2. u * (a + 1) <= u * k /\ u * (a + 1) = u * a + u
        BY <2>1, <4>1
      <4> QED
        BY <1>1, <2>1, <4>2
    <3>2. CASE ~(v >= t)
      <4>1. a <= k
        BY <3>2
      <4>2. u * a <= u * k
        BY <2>1, <4>1
      <4> QED
        BY <1>1, <2>1, <3>2, <4>2
    <3> QED
      BY <3>1, <3>2
  <2> QED
    BY <1>1, <1>2, <2>2, <2>3, <2>4
<1>4. ASSUME NEW w \in Giving(u, v) PROVE \E q \in 1 .. k : f[q] = w
  <2> DEFINE a == w \div u
  <2>1. w \in Nat /\ w < t + u * k /\ w >= t /\ w % u = v
    BY <1>1, <1>2
  <2>2. a \in Nat /\ w = u * a + v
    BY <2>1, Division
  <2> HIDE DEF a
  <2>3. CASE v >= t
    <3>1. u * a < u * k
      BY <1>1, <2>1, <2>2, <2>3
    <3>2. a < k
      BY <2>2, <3>1
    <3>3. a + 1 \in 1 .. k /\ f[a + 1] = w
      BY <2>2, <2>3, <3>2
    <3> QED
      BY <3>3
  <2>4. CASE ~(v >= t)
    <3>1. a # 0
      BY <1>1, <2>1, <2>2, <2>4
    <3>2. u * a < u * (k + 1) /\ u * (k + 1) = u * k + u
      BY <1>1, <2>1, <2>2
    <3>3. a < k + 1
      BY <2>2, <3>2
    <3>4. a \in 1 .. k /\ f[a] = w
      BY <2>2, <2>4, <3>1, <3>3
    <3> QED
      BY <3>4
  <2> QED
    BY <2>3, <2>4
<1>5. ASSUME NEW p \in 1 .. k, NEW q \in 1 .. k, f[p] = f[q] PROVE p = q
  <2>1. u * (p - 1 + first) + v = u * (q - 1 + first) + v
    BY <1>5
  <2>2. p - 1 + first \in Nat /\ q - 1 + first \in Nat
    OBVIOUS
  <2>3. p - 1 + first = q - 1 + first
    BY <2>1, <2>2, DivisionIsUnique
  <2> QED
    BY <2>3
<1> HIDE DEF f
<1>6. f \in Surjection(1 .. k, Giving(u, v)) /\ f \in Injection(1 .. k, Giving(u, v))
  <2>1. f \in [1 .. k -> Giving(u, v)]
    BY <1>3 DEF f
  <2> QED
    BY <2>1, <1>4, <1>5 DEF Surjection, Injection, IsInjective
<1>7. IsFiniteSet(1 .. k) /\ Cardinality(1 .. k) = k
  <2>1. 1 \in Int /\ k \in Int /\ ~(1 > k) /\ k - 1 + 1 = k
    OBVIOUS
  <2>2. IsFiniteSet(1 .. k) /\ Cardinality(1 .. k) = IF 1 > k THEN 0 ELSE k - 1 + 1
    BY <2>1, FS_Interval
  <2> QED
    BY <2>1, <2>2
<1> QED
  BY <1>6, <1>7, FS_Surjection

-----------------------------------------------------------------------------
\* Where the stream stands in its key stream, and what it was asked for.
StreamInv ==
    /\ counter \in Nat
    /\ cursor \in 1 .. WordsPerBlock
    /\ counter = 0 => cursor = WordsPerBlock
    /\ taken = 0 .. (counter * WordsPerBlock + cursor) - WordsPerBlock - 1
    /\ upper # None => upper \in Uppers /\ limit = upper
    /\ result # None => limit \in Uppers /\ result \in 0 .. limit - 1

\* A new stream has taken nothing.
LEMMA InitStream == Init => StreamInv
<1> SUFFICES ASSUME Init PROVE StreamInv
  OBVIOUS
<1>1. (0 * WordsPerBlock + WordsPerBlock) - WordsPerBlock - 1 = -1
  BY StreamAssumption
<1> QED
  BY <1>1, StreamAssumption DEF Init, StreamInv

\* The next word of the key stream is taken, in this block or in the next one.
LEMMA AdvanceTakesNext ==
    ASSUME StreamInv, Advance
    PROVE  /\ counter' \in Nat /\ cursor' \in 1 .. WordsPerBlock
           /\ counter' = 0 => cursor' = WordsPerBlock
           /\ taken' = 0 .. (counter' * WordsPerBlock + cursor') - WordsPerBlock - 1
<1> DEFINE base == counter * WordsPerBlock
<1>1. /\ base \in Nat /\ counter \in Nat /\ WordsPerBlock \in Nat \ {0}
      /\ cursor \in 1 .. WordsPerBlock
      /\ taken = 0 .. (base + cursor) - WordsPerBlock - 1
      /\ (counter + 1) * WordsPerBlock = base + WordsPerBlock
      /\ (counter - 1) * WordsPerBlock = base - WordsPerBlock
  BY StreamAssumption DEF StreamInv
<1>2. CASE cursor = WordsPerBlock
  <2>1. counter' = counter + 1 /\ cursor' = 1 /\ taken' = taken \union {base}
    BY <1>2 DEF Advance
  <2>2. taken' = 0 .. base
    BY <1>1, <1>2, <2>1
  <2>3. (counter' * WordsPerBlock + cursor') - WordsPerBlock - 1 = base
    BY <1>1, <2>1
  <2> QED
    BY <1>1, <2>1, <2>2, <2>3
<1>3. CASE cursor # WordsPerBlock
  <2>1. /\ counter' = counter /\ cursor' = cursor + 1
        /\ taken' = taken \union {base - WordsPerBlock + cursor}
    BY <1>1, <1>3 DEF Advance
  <2>2. counter # 0 /\ base >= WordsPerBlock
    BY <1>1, <1>3, StreamAssumption DEF StreamInv
  <2>3. taken' = 0 .. base - WordsPerBlock + cursor
    BY <1>1, <2>1, <2>2
  <2>4. (counter' * WordsPerBlock + cursor') - WordsPerBlock - 1 = base - WordsPerBlock + cursor
    BY <1>1, <2>1
  <2> QED
    BY <1>1, <1>3, <2>1, <2>2, <2>3, <2>4
<1> QED
  BY <1>2, <1>3

\* Every call of the stream keeps where it stands and what it was asked for.
LEMMA NextStream == StreamInv /\ [Next]_vars => StreamInv'
<1> SUFFICES ASSUME StreamInv, [Next]_vars PROVE StreamInv'
  OBVIOUS
<1>1. ASSUME NEW bound \in Uppers, BeginBelow(bound) PROVE StreamInv'
  BY <1>1, StreamAssumption DEF BeginBelow, StreamInv
<1>2. ASSUME NEW word \in Words, Draw(word) PROVE StreamInv'
  <2>1. /\ counter' \in Nat /\ cursor' \in 1 .. WordsPerBlock
        /\ counter' = 0 => cursor' = WordsPerBlock
        /\ taken' = 0 .. (counter' * WordsPerBlock + cursor') - WordsPerBlock - 1
    BY <1>2, AdvanceTakesNext DEF Draw
  <2>2. upper \in Uppers /\ limit = upper /\ limit' = limit
    BY <1>2 DEF Draw, StreamInv
  <2>3. word % upper \in 0 .. upper - 1
    <3>1. word \in Nat /\ upper \in Nat \ {0}
      BY <2>2, StreamAssumption DEF Words
    <3> QED
      BY <3>1, Division
  <2>4. \/ result' = word % upper /\ upper' = None
        \/ UNCHANGED <<result, upper>>
    BY <1>2 DEF Draw
  <2>5. upper' # None => upper' \in Uppers /\ limit' = upper'
    BY <2>2, <2>4
  <2>6. result' # None => limit' \in Uppers /\ result' \in 0 .. limit' - 1
    BY <2>2, <2>3, <2>4 DEF StreamInv
  <2> QED
    BY <2>1, <2>5, <2>6 DEF StreamInv
<1>3. CASE UNCHANGED vars
  BY <1>3 DEF vars, StreamInv
<1> QED
  BY <1>1, <1>2, <1>3 DEF Next

\* After every call the invariant holds.
LEMMA StreamInvariant == Spec => []StreamInv
  BY InitStream, NextStream, PTL DEF Spec

\* task.rs:23: whatever is asked for and however much is rejected, the words taken
\* are the first of the key stream, each once, for blocks of any size.
THEOREM StreamEveryWordOnce == Spec => []EveryWordOnce
<1>1. StreamInv => EveryWordOnce
  BY DEF StreamInv, EveryWordOnce
<1> QED
  BY StreamInvariant, <1>1, PTL

\* task.rs:39: no bound prefers a value, for words of any number of values.
THEOREM StreamUnbiased == Spec => []Unbiased
<1>1. StreamInv => Unbiased
  <2> SUFFICES ASSUME StreamInv, upper # None
               PROVE  /\ \A value \in 0 .. upper - 1 :
                            Cardinality(Giving(upper, value))
                              = (WordCount - Threshold(upper)) \div upper
                      /\ 2 * Threshold(upper) < WordCount
    BY DEF Unbiased
  <2>1. upper \in 1 .. WordCount - 1
    BY StreamAssumption DEF StreamInv
  <2>2. Threshold(upper) \in 0 .. upper - 1
    BY <2>1, AcceptedWords
  <2>3. PICK k \in Nat \ {0} : /\ WordCount = Threshold(upper) + upper * k
                               /\ (WordCount - Threshold(upper)) \div upper = k
    BY <2>1, AcceptedWords
  <2>4. upper \in Nat \ {0}
    BY <2>1, StreamAssumption
  <2>5. \A value \in 0 .. upper - 1 : Cardinality(Giving(upper, value)) = k
    BY <2>2, <2>3, <2>4, WordsOfValue
  <2>6. 2 * Threshold(upper) < WordCount
    <3>1. upper * k >= upper
      BY <2>3, <2>4
    <3> QED
      BY <2>2, <2>3, <2>4, <3>1
  <2> QED
    BY <2>3, <2>5, <2>6
<1> QED
  BY StreamInvariant, <1>1, PTL
===============================================================================
