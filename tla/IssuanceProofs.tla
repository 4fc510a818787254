--------------------------- MODULE IssuanceProofs ---------------------------
(***************************************************************************)
(* Proofs about issuing, screened or not: for every task and composition   *)
(* that can be drawn, every stream that stays below the bounds of its      *)
(* draws, every choice of the search and every request.                    *)
(***************************************************************************)
EXTENDS ScreenedIssuance, TaskProofs

\* What the prompt promises of an input.
Value == -MaxInputAbs .. MaxInputAbs
\* An input of at most so many of them.
Input == {c \in Seq(Value) : Len(c) <= MaxInputLen}

\* The values are integers.
LEMMA ValueIsInt == \A x \in Value : x \in Int
  BY DEF Value, MaxInputAbs

\* What the range asks for, without a negative literal.
LEMMA IsWithin ==
    ASSUME NEW x \in Int, x <= MaxInputAbs, 0 <= x + MaxInputAbs PROVE x \in Value
<1>1. MaxInputAbs \in Int
  BY DEF MaxInputAbs
<1> QED
  BY <1>1 DEF Value

\* The same with the bound spelled out.
LEMMA IsValue == ASSUME NEW x \in Int, x <= 10000, 0 <= x + 10000 PROVE x \in Value
<1>1. x <= MaxInputAbs /\ 0 <= x + MaxInputAbs
  BY DEF MaxInputAbs
<1> QED
  BY <1>1, IsWithin

\* An input is a sequence of at most 64 integers.
LEMMA InputIsIntegers == ASSUME NEW c \in Input PROVE c \in Seq(Int) /\ Len(c) \in 0 .. 64
<1>1. c \in Seq(Value) /\ Len(c) <= 64
  BY DEF Input, MaxInputLen
<1>2. Len(c) \in Nat /\ \A k \in 1 .. Len(c) : c[k] \in Value
  BY <1>1
<1>3. \A k \in 1 .. Len(c) : c[k] \in Int
  BY <1>2, ValueIsInt
<1>4. c = [k \in 1 .. Len(c) |-> c[k]]
  BY <1>1
<1>5. c \in Seq(Int)
  <2>1. [k \in 1 .. Len(c) |-> c[k]] \in Seq(Int)
    BY <1>2, <1>3
  <2> QED
    BY <1>4, <2>1
<1>6. Len(c) \in 0 .. 64
  <2>1. \A n \in Nat : n <= 64 => n \in 0 .. 64
    OBVIOUS
  <2> QED
    BY <1>1, <1>2, <2>1, Zenon
<1> QED
  BY <1>5, <1>6

\* A sequence of so many values of the range is an input.
LEMMA FunctionIsInput ==
    ASSUME NEW n \in 0 .. 64, NEW s \in [1 .. n -> Value]
    PROVE  s \in Input /\ Len(s) = n
<1>1. s \in Seq(Value) /\ Len(s) = n
  OBVIOUS
<1> QED
  BY <1>1 DEF Input, MaxInputLen

\* So is one value repeated.
LEMMA ConstantIsInput ==
    ASSUME NEW x \in Value, NEW n \in 0 .. 64
    PROVE  Constantly(x, n) \in Input
<1>1. Constantly(x, n) \in [1 .. n -> Value]
  BY DEF Constantly
<1> QED
  BY <1>1, FunctionIsInput

\* Short inputs, value by value.
LEMMA TupleIsInput ==
    /\ <<>> \in Input
    /\ \A a \in Value : <<a>> \in Input
    /\ \A a, b \in Value : <<a, b>> \in Input
    /\ \A a, b, c \in Value : <<a, b, c>> \in Input
    /\ \A a, b, c, d, e \in Value : <<a, b, c, d, e>> \in Input
    /\ \A a, b, c, d, e, f, g \in Value : <<a, b, c, d, e, f, g>> \in Input
<1> DEFINE V == Value
<1> HIDE DEF V
<1>0. V = Value
  BY DEF V
<1>1. \A s : s \in Seq(V) /\ Len(s) <= 64 => s \in Input
  BY <1>0 DEF Input, MaxInputLen
<1>2. <<>> \in Input
  <2>1. <<>> \in Seq(V) /\ Len(<<>>) <= 64
    OBVIOUS
  <2> QED
    BY <1>1, <2>1
<1>3. ASSUME NEW a \in V PROVE <<a>> \in Input
  <2>1. <<a>> \in Seq(V) /\ Len(<<a>>) <= 64
    OBVIOUS
  <2> QED
    BY <1>1, <2>1
<1>4. ASSUME NEW a \in V, NEW b \in V PROVE <<a, b>> \in Input
  <2>1. <<a, b>> \in Seq(V) /\ Len(<<a, b>>) <= 64
    OBVIOUS
  <2> QED
    BY <1>1, <2>1
<1>5. ASSUME NEW a \in V, NEW b \in V, NEW c \in V PROVE <<a, b, c>> \in Input
  <2>1. <<a, b, c>> \in Seq(V) /\ Len(<<a, b, c>>) <= 64
    OBVIOUS
  <2> QED
    BY <1>1, <2>1
<1>6. ASSUME NEW a \in V, NEW b \in V, NEW c \in V, NEW d \in V, NEW e \in V PROVE <<a, b, c, d, e>> \in Input
  <2>1. <<a, b, c, d, e>> \in Seq(V) /\ Len(<<a, b, c, d, e>>) <= 64
    OBVIOUS
  <2> QED
    BY <1>1, <2>1
<1>7. ASSUME NEW a \in V, NEW b \in V, NEW c \in V, NEW d \in V, NEW e \in V, NEW f \in V, NEW g \in V PROVE <<a, b, c, d, e, f, g>> \in Input
  <2>1. <<a, b, c, d, e, f, g>> \in Seq(V) /\ Len(<<a, b, c, d, e, f, g>>) <= 64
    OBVIOUS
  <2> QED
    BY <1>1, <2>1
<1> QED
  BY <1>0, <1>2, <1>3, <1>4, <1>5, <1>6, <1>7

-----------------------------------------------------------------------------
\* A task that a request was given.
Issuable(t) == IsComposition(t) \/ t \in Task

\* The parameters of a task, and which of the two shapes it has.
LEMMA IssuableParameters ==
    ASSUME NEW t, Issuable(t)
    PROVE  /\ t.threshold \in -20 .. 20 /\ t.modulus \in 2 .. 7 /\ t.residue \in 0 .. t.modulus - 1
           /\ t.kind = "composition" <=> IsComposition(t)
           /\ t.kind # "composition" <=> t \in Task
           /\ t \in Task => t.width \in 1 .. 6
<1>1. Parameters(t)
  BY CompositionParameters, TaskParameters DEF Issuable
<1>2. IsComposition(t) => t.kind = "composition"
  BY CompositionParameters
<1>3. t \in Task => t.kind # "composition" /\ t.width \in 1 .. 6
  <2>1. t \in Task => t.kind \in Families /\ t.width \in 1 .. 6
    BY TaskParameters
  <2> QED
    BY <2>1 DEF Families
<1> QED
  BY <1>1, <1>2, <1>3 DEF Issuable, Parameters

\* cases: the four inputs around the threshold keep the promise of the prompt.
LEMMA ThresholdCasesAreInputs ==
    ASSUME Issuable(task)
    PROVE  ThresholdCases \in Seq(Input) /\ Len(ThresholdCases) = 4
<1> DEFINE t == task.threshold
<1>1. t - 1 \in Value /\ t \in Value /\ t + 1 \in Value /\ 1 \in Value
  <2>1. t \in Int /\ t <= 20 /\ 0 <= t + 20
    BY IssuableParameters
  <2> HIDE DEF t
  <2>2. /\ t - 1 \in Int /\ t - 1 <= 10000 /\ 0 <= (t - 1) + 10000
        /\ t + 1 \in Int /\ t + 1 <= 10000 /\ 0 <= (t + 1) + 10000
        /\ t <= 10000 /\ 0 <= t + 10000 /\ 1 <= 10000 /\ 0 <= 1 + 10000
    BY <2>1
  <2> QED
    BY <2>1, <2>2, IsValue
<1>2. CASE task.kind = "composition"
  <2> DEFINE a == Constantly(t - 1, 7)
             b == Constantly(t, 7)
             c == Constantly(t + 1, 7)
             d == [k \in 1 .. 17 |-> k - 9]
             A == Input
  <2>1. a \in A /\ b \in A /\ c \in A
    BY <1>1, ConstantIsInput
  <2>2. d \in A
    <3>1. d \in [1 .. 17 -> Value]
      BY DEF Value, MaxInputAbs
    <3> HIDE DEF d
    <3> QED
      BY <3>1, FunctionIsInput
  <2>3. ThresholdCases = <<a, b, c, d>>
    BY <1>2 DEF ThresholdCases
  <2> HIDE DEF a, b, c, d, A
  <2>4. <<a, b, c, d>> \in Seq(A) /\ Len(<<a, b, c, d>>) = 4
    BY <2>1, <2>2
  <2> QED
    BY <2>3, <2>4 DEF A
<1>3. CASE task.kind # "composition"
  <2> DEFINE a == <<t, t, t - 1, t, t>>
             b == Constantly(1, task.width - 1)
             c == Constantly(t, task.width)
             d == Constantly(1, task.width + 1)
             A == Input
  <2>1. a \in A
    BY <1>1, TupleIsInput
  <2>2. b \in A /\ c \in A /\ d \in A
    <3>1. task.width - 1 \in 0 .. 64 /\ task.width \in 0 .. 64 /\ task.width + 1 \in 0 .. 64
      BY <1>3, IssuableParameters
    <3> QED
      BY <1>1, <3>1, ConstantIsInput
  <2>3. ThresholdCases = <<a, b, c, d>>
    BY <1>3 DEF ThresholdCases
  <2> HIDE DEF a, b, c, d, A
  <2>4. <<a, b, c, d>> \in Seq(A) /\ Len(<<a, b, c, d>>) = 4
    BY <2>1, <2>2
  <2> QED
    BY <2>3, <2>4 DEF A
<1> QED
  BY <1>2, <1>3

\* cases: so do the sixteen fixed ones,
LEMMA BoundaryCasesAreInputs ==
    ASSUME Issuable(task)
    PROVE  /\ BoundaryCases \in Seq(Input) /\ Len(BoundaryCases) = 16
           /\ BoundaryCases[4] = <<MaxInputAbs>> /\ BoundaryCases[6] = Around(task.threshold)
           /\ BoundaryCases[8] = <<2, 1, 2, -1, 1, 0, -1>>
           /\ BoundaryCases[10] = Constantly(MaxInputAbs, MaxInputLen)
           /\ \A k \in 1 .. 4 : BoundaryCases[12 + k] = ThresholdCases[k]
<1> DEFINE A == Input
           t == task.threshold
           e1 == <<>>
           e2 == <<0>>
           e3 == <<-MaxInputAbs>>
           e4 == <<MaxInputAbs>>
           e5 == <<-MaxInputAbs, MaxInputAbs>>
           e6 == Around(t)
           e7 == <<task.residue - task.modulus, task.residue, task.residue + task.modulus>>
           e8 == <<2, 1, 2, -1, 1, 0, -1>>
           e9 == Constantly(0, MaxInputLen)
           e10 == Constantly(MaxInputAbs, MaxInputLen)
           e11 == Constantly(-MaxInputAbs, MaxInputLen)
           e12 == [k \in 1 .. MaxInputLen |-> IF k % 2 = 1 THEN -MaxInputAbs ELSE MaxInputAbs]
           head == <<e1, e2, e3, e4, e5, e6, e7, e8, e9, e10, e11, e12>>
<1>1. /\ 0 \in Value /\ MaxInputAbs \in Value /\ -MaxInputAbs \in Value
      /\ 2 \in Value /\ 1 \in Value /\ -1 \in Value
  BY DEF Value, MaxInputAbs
<1>2. t - 1 \in Value /\ t \in Value /\ t + 1 \in Value
  <2>1. t \in Int /\ t <= 20 /\ 0 <= t + 20
    BY IssuableParameters
  <2> HIDE DEF t
  <2>2. /\ t - 1 \in Int /\ t - 1 <= 10000 /\ 0 <= (t - 1) + 10000
        /\ t + 1 \in Int /\ t + 1 <= 10000 /\ 0 <= (t + 1) + 10000
        /\ t <= 10000 /\ 0 <= t + 10000 /\ 1 <= 10000 /\ 0 <= 1 + 10000
    BY <2>1
  <2> QED
    BY <2>1, <2>2, IsValue
<1>3. /\ task.residue - task.modulus \in Value /\ task.residue \in Value
      /\ task.residue + task.modulus \in Value
  <2> DEFINE r == task.residue
             m == task.modulus
  <2>1. m \in 2 .. 7 /\ r \in 0 .. m - 1
    BY IssuableParameters
  <2> HIDE DEF r, m
  <2>2. m \in Int /\ m >= 2 /\ m <= 7 /\ r \in Int /\ r >= 0 /\ r <= 6
    BY <2>1
  <2>4. /\ r - m \in Int /\ r - m <= 10000 /\ 0 <= (r - m) + 10000
        /\ r + m \in Int /\ r + m <= 10000 /\ 0 <= (r + m) + 10000
        /\ r <= 10000 /\ 0 <= r + 10000
    BY <2>2
  <2>3. r - m \in Value /\ r \in Value /\ r + m \in Value
    BY <2>2, <2>4, IsValue
  <2> QED
    BY <2>3 DEF r, m
<1>4. e1 \in A /\ e2 \in A /\ e3 \in A /\ e4 \in A /\ e5 \in A
  BY <1>1, TupleIsInput
<1>5. e6 \in A /\ e7 \in A
  BY <1>2, <1>3, TupleIsInput DEF Around
<1>6. e8 \in A
  BY <1>1, TupleIsInput
<1>7. e9 \in A /\ e10 \in A /\ e11 \in A
  <2>1. MaxInputLen \in 0 .. 64
    BY DEF MaxInputLen
  <2> QED
    BY <1>1, <2>1, ConstantIsInput
<1>8. e12 \in A
  <2>1. e12 \in [1 .. 64 -> Value]
    BY <1>1 DEF MaxInputLen
  <2> HIDE DEF e12
  <2> QED
    BY <2>1, FunctionIsInput
<1>9. ThresholdCases \in Seq(A) /\ Len(ThresholdCases) = 4
  BY ThresholdCasesAreInputs
<1>10. BoundaryCases = head \o ThresholdCases
  BY DEF BoundaryCases
<1> HIDE DEF A, e1, e2, e3, e4, e5, e6, e7, e8, e9, e10, e11, e12
<1>11. /\ head \in Seq(A) /\ Len(head) = 12
       /\ head[4] = e4 /\ head[6] = e6 /\ head[8] = e8 /\ head[10] = e10
  BY <1>4, <1>5, <1>6, <1>7, <1>8
<1> DEFINE u == ThresholdCases
<1>12. u \in Seq(A) /\ Len(u) = 4 /\ BoundaryCases = head \o u
  BY <1>9, <1>10
<1> HIDE DEF head, u
<1>13. /\ head \o u \in Seq(A) /\ Len(head \o u) = Len(head) + Len(u)
       /\ \A k \in 1 .. Len(head) : (head \o u)[k] = head[k]
       /\ \A k \in 1 .. Len(u) : (head \o u)[Len(head) + k] = u[k]
  <2>1. head \in Seq(A) /\ u \in Seq(A)
    BY <1>11, <1>12
  <2> QED
    BY <2>1, Joined
<1>14. Len(head \o u) = 16
  BY <1>11, <1>12, <1>13
<1>15. /\ BoundaryCases[4] = e4 /\ BoundaryCases[6] = e6
       /\ BoundaryCases[8] = e8 /\ BoundaryCases[10] = e10
  <2>1. 4 \in 1 .. 12 /\ 6 \in 1 .. 12 /\ 8 \in 1 .. 12 /\ 10 \in 1 .. 12
    OBVIOUS
  <2> QED
    BY <1>11, <1>12, <1>13, <2>1, Zenon
<1>16. \A k \in 1 .. 4 : BoundaryCases[12 + k] = ThresholdCases[k]
  BY <1>11, <1>12, <1>13, Zenon DEF u
<1> QED
  BY <1>12, <1>13, <1>14, <1>15, <1>16, Zenon DEF A, e4, e6, e8, e10

\* cases: and the ones that depend on the kind of the task.
LEMMA KindCasesAreInputs ==
    ASSUME Issuable(task)
    PROVE  KindCases \in Seq(Input) /\ Len(KindCases) \in 0 .. 6
<1> DEFINE A == Input
           t == task.threshold
<1>1. CASE task.kind = "adjacent_difference"
  <2> DEFINE around == Around(Limit(task))
             f == [k \in 1 .. 6 |-> <<0, IF k % 2 = 1 THEN -around[(k + 1) \div 2]
                                         ELSE around[(k + 1) \div 2]>>]
  <2>1. KindCases = f
    BY <1>1 DEF KindCases
  <2>2. task.width \in 1 .. 6
    BY <1>1, IssuableParameters
  <2>3. \A i \in 1 .. 3 : around[i] \in 2 .. 19
    BY <2>2 DEF Around, Limit
  <2>4. ASSUME NEW k \in 1 .. 6 PROVE f[k] \in A
    <3>1. (k + 1) \div 2 \in 1 .. 3
      OBVIOUS
    <3> HIDE DEF around
    <3>2. 0 \in Value /\ \A v \in 2 .. 19 : v \in Value /\ -v \in Value
      <4>1. \A v \in 2 .. 19 : /\ v \in Int /\ v <= 10000 /\ 0 <= v + 10000
                               /\ -v \in Int /\ -v <= 10000 /\ 0 <= (-v) + 10000
        OBVIOUS
      <4>2. 0 \in Int /\ 0 <= 10000 /\ 0 <= 0 + 10000
        OBVIOUS
      <4> QED
        BY <4>1, <4>2, IsValue
    <3>3. /\ 0 \in Value /\ around[(k + 1) \div 2] \in Value /\ -around[(k + 1) \div 2] \in Value
      BY <2>3, <3>1, <3>2, Zenon
    <3> QED
      BY <3>3, TupleIsInput
  <2> HIDE DEF f, A
  <2>5. f = [k \in 1 .. 6 |-> f[k]]
    BY DEF f
  <2>6. f \in Seq(A) /\ Len(f) = 6
    BY <2>4, <2>5
  <2> QED
    BY <2>1, <2>6 DEF A
<1>2. CASE task.kind = "window_sum"
  <2> DEFINE f == [k \in 1 .. 3 |-> <<Around(t)[k]>> \o Constantly(0, task.width - 1)]
  <2>1. KindCases = f
    BY <1>2 DEF KindCases
  <2>2. task.width - 1 \in 0 .. 5
    BY <1>2, IssuableParameters
  <2>3. \A i \in 1 .. 3 : Around(t)[i] \in Value
    <3>1. t \in Int /\ t <= 20 /\ 0 <= t + 20
      BY IssuableParameters
    <3> HIDE DEF t
    <3>3. /\ t - 1 \in Int /\ t - 1 <= 10000 /\ 0 <= (t - 1) + 10000
          /\ t + 1 \in Int /\ t + 1 <= 10000 /\ 0 <= (t + 1) + 10000
          /\ t <= 10000 /\ 0 <= t + 10000
      BY <3>1
    <3>2. t - 1 \in Value /\ t \in Value /\ t + 1 \in Value
      BY <3>1, <3>3, IsValue
    <3> QED
      BY <3>2 DEF Around
  <2>4. ASSUME NEW k \in 1 .. 3 PROVE f[k] \in A
    <3> DEFINE x == Around(t)[k]
               z == Constantly(0, task.width - 1)
               V == Value
    <3>1. x \in V
      BY <2>3
    <3>2. z \in Seq(V) /\ Len(z) = task.width - 1
      <4>1. 0 \in Value
        BY DEF Value, MaxInputAbs
      <4>2. z \in [1 .. task.width - 1 -> Value]
        BY <4>1 DEF Constantly
      <4> HIDE DEF z
      <4> QED
        BY <2>2, <4>2
    <3> HIDE DEF x, z, V
    <3>3. <<x>> \in Seq(V) /\ Len(<<x>>) = 1
      BY <3>1
    <3>4. <<x>> \o z \in Seq(V) /\ Len(<<x>> \o z) = 1 + Len(z)
      BY <3>2, <3>3, Joined
    <3>5. Len(<<x>> \o z) <= 64
      BY <2>2, <3>2, <3>4
    <3>6. f[k] = <<x>> \o z
      BY DEF x, z
    <3> HIDE DEF f
    <3> QED
      BY <3>4, <3>5, <3>6 DEF Input, MaxInputLen, V
  <2> HIDE DEF f, A
  <2>5. f = [k \in 1 .. 3 |-> f[k]]
    BY DEF f
  <2>6. f \in Seq(A) /\ Len(f) = 3
    BY <2>4, <2>5
  <2> QED
    BY <2>1, <2>6 DEF A
<1>3. CASE task.kind \notin {"adjacent_difference", "window_sum"}
  <2>1. KindCases = <<>>
    BY <1>3 DEF KindCases
  <2> HIDE DEF A
  <2>2. <<>> \in Seq(A) /\ Len(<<>>) = 0
    OBVIOUS
  <2> QED
    BY <2>1, <2>2 DEF A
<1> QED
  BY <1>1, <1>2, <1>3

\* Task::test_inputs, Composition::test_inputs: the fixed cases leave room for
\* the random ones and are all inputs the prompt promises.
LEMMA FixedCasesAreInputs ==
    ASSUME Issuable(task)
    PROVE  BoundaryCases \o KindCases \in Seq(Input) /\ Len(BoundaryCases \o KindCases) \in 0 .. 22
<1>1. BoundaryCases \in Seq(Input) /\ Len(BoundaryCases) = 16
  BY BoundaryCasesAreInputs
<1>2. KindCases \in Seq(Input) /\ Len(KindCases) \in 0 .. 6
  BY KindCasesAreInputs
<1> DEFINE A == Input
           s == BoundaryCases
           t == KindCases
<1>3. s \in Seq(A) /\ t \in Seq(A)
  BY <1>1, <1>2
<1>4. Len(s) = 16 /\ Len(t) \in 0 .. 6
  BY <1>1, <1>2
<1> HIDE DEF A, s, t
<1>5. s \o t \in Seq(A) /\ Len(s \o t) = Len(s) + Len(t)
  BY <1>3, Joined
<1>6. Len(s \o t) \in 0 .. 22
  <2>1. \A n \in 0 .. 6 : 16 + n \in 0 .. 22
    OBVIOUS
  <2>2. Len(s \o t) = 16 + Len(t)
    BY <1>4, <1>5, Zenon
  <2> QED
    BY <1>4, <2>1, <2>2, Zenon
<1> QED
  BY <1>5, <1>6 DEF A, s, t

-----------------------------------------------------------------------------
\* RandomStream::between and the holdout stream's: a draw stays in its range.
LEMMA BetweenIsInRange ==
    ASSUME stream \in Streams, NEW use \in DOMAIN DrawnFrom, NEW index \in 0 .. 31,
           NEW k \in 0 .. 64, NEW lower \in Int, NEW upper \in Int,
           upper - lower + 1 \in DrawnFrom[use]
    PROVE  Between(use, index, k, lower, upper) \in lower .. upper
<1> DEFINE d == Draw(stream, use, index, k, upper - lower + 1)
<1>1. d \in 0 .. (upper - lower + 1) - 1
  BY DrawAssumption
<1> HIDE DEF d
<1>2. lower + d \in lower .. upper
  BY <1>1
<1> QED
  BY <1>2 DEF Between, d

\* The ranges that cases draws from.
LEMMA CaseDraws ==
    /\ "length" \in DOMAIN DrawnFrom /\ 65 \in DrawnFrom["length"]
    /\ "value" \in DOMAIN DrawnFrom /\ {20001, 17, 5} = DrawnFrom["value"]
    /\ "remainder" \in DOMAIN DrawnFrom /\ 2 .. 7 = DrawnFrom["remainder"]
    /\ "shuffle" \in DOMAIN DrawnFrom /\ 2 .. 32 = DrawnFrom["shuffle"]
  BY DEF DrawnFrom

\* The values of s in another order.
Rearranges(s, t) ==
    \E p \in [1 .. Len(s) -> 1 .. Len(s)] :
        /\ \A j \in 1 .. Len(s) : \E i \in 1 .. Len(s) : p[i] = j
        /\ t = [i \in 1 .. Len(s) |-> s[p[i]]]

\* The uses that cases has for its draws.
LEMMA UsesAreDrawn ==
    /\ "length" \in DOMAIN DrawnFrom /\ "value" \in DOMAIN DrawnFrom
    /\ "remainder" \in DOMAIN DrawnFrom /\ "shuffle" \in DOMAIN DrawnFrom
  BY DEF DrawnFrom

\* The values in another order are the same values.
LEMMA RearrangedKeeps ==
    ASSUME NEW A, NEW s \in Seq(A), NEW t, Rearranges(s, t)
    PROVE  /\ t \in Seq(A) /\ Len(t) = Len(s)
           /\ \A j \in 1 .. Len(s) : \E i \in 1 .. Len(t) : t[i] = s[j]
           /\ \A i \in 1 .. Len(t) : \E j \in 1 .. Len(s) : t[i] = s[j]
<1> DEFINE n == Len(s)
<1>1. PICK p \in [1 .. n -> 1 .. n] :
           /\ \A j \in 1 .. n : \E i \in 1 .. n : p[i] = j
           /\ t = [i \in 1 .. n |-> s[p[i]]]
  BY DEF Rearranges
<1>2. n \in Nat /\ \A j \in 1 .. n : s[j] \in A
  OBVIOUS
<1>3. \A i \in 1 .. n : p[i] \in 1 .. n /\ t[i] = s[p[i]]
  BY <1>1
<1>4. t \in [1 .. n -> A]
  BY <1>1, <1>2, <1>3
<1>5. t \in Seq(A) /\ Len(t) = n
  <2> HIDE DEF n
  <2> QED
    BY <1>2, <1>4
<1> HIDE DEF n
<1> QED
  BY <1>1, <1>3, <1>5 DEF n

\* An exchange of two values is another order,
LEMMA SwapRearranges ==
    ASSUME NEW A, NEW s \in Seq(A), NEW t, Rearranges(s, t),
           NEW i \in 1 .. Len(s), NEW j \in 1 .. Len(s)
    PROVE  Rearranges(s, Swapped(t, i, j))
<1> DEFINE n == Len(s)
<1>1. PICK p \in [1 .. n -> 1 .. n] :
           /\ \A l \in 1 .. n : \E k \in 1 .. n : p[k] = l
           /\ t = [k \in 1 .. n |-> s[p[k]]]
  BY DEF Rearranges
<1> DEFINE q == [p EXCEPT ![i] = p[j], ![j] = p[i]]
<1> HIDE DEF n
<1>2. i \in 1 .. n /\ j \in 1 .. n
  BY DEF n
<1>3. q \in [1 .. n -> 1 .. n]
  BY <1>1, <1>2
<1>4. \A k \in 1 .. n : q[k] = IF k = j THEN p[i] ELSE IF k = i THEN p[j] ELSE p[k]
  BY <1>1, <1>2
<1>5. ASSUME NEW l \in 1 .. n PROVE \E k \in 1 .. n : q[k] = l
  <2>1. PICK k \in 1 .. n : p[k] = l
    BY <1>1
  <2>2. CASE k = i
    BY <1>2, <1>4, <2>1, <2>2
  <2>3. CASE k = j
    BY <1>2, <1>4, <2>1, <2>3
  <2>4. CASE k # i /\ k # j
    BY <1>4, <2>1, <2>4
  <2> QED
    BY <2>2, <2>3, <2>4
<1>6. Swapped(t, i, j) = [k \in 1 .. n |-> s[q[k]]]
  <2> DEFINE u == Swapped(t, i, j)
  <2>1. DOMAIN u = 1 .. n /\ u = [k \in DOMAIN u |-> u[k]]
    <3>1. DOMAIN t = 1 .. n
      BY <1>1
    <3>2. DOMAIN u = DOMAIN t /\ u = [k \in DOMAIN u |-> u[k]]
      BY Zenon DEF Swapped
    <3> QED
      BY <3>1, <3>2, Zenon
  <2>2. \A k \in 1 .. n : u[k] = IF k = j THEN t[i] ELSE IF k = i THEN t[j] ELSE t[k]
    BY <1>1, <1>2 DEF Swapped
  <2>3. \A k \in 1 .. n : t[k] = s[p[k]]
    BY <1>1
  <2> HIDE DEF u, q
  <2>4. \A k \in 1 .. n : u[k] = s[q[k]]
    BY <1>2, <1>4, <2>2, <2>3
  <2>5. u = [k \in 1 .. n |-> s[q[k]]]
    BY <2>1, <2>4
  <2> QED
    BY <2>5 DEF u
<1> QED
  BY <1>3, <1>5, <1>6 DEF Rearranges, n

\* and so is no exchange at all.
LEMMA NothingRearranged ==
    ASSUME NEW A, NEW s \in Seq(A)
    PROVE  Rearranges(s, s)
<1> DEFINE n == Len(s)
           p == [i \in 1 .. n |-> i]
<1>1. p \in [1 .. n -> 1 .. n] /\ \A j \in 1 .. n : \E i \in 1 .. n : p[i] = j
  OBVIOUS
<1>2. s = [i \in 1 .. n |-> s[p[i]]]
  OBVIOUS
<1> QED
  BY <1>1, <1>2 DEF Rearranges

\* What a shuffle has made after so many exchanges.
Exchanged(use, index, s) ==
    CHOOSE f : f = [k \in 0 .. Len(s) - 1 |->
        IF k = 0 THEN s
        ELSE Swapped(f[k - 1], Len(s) + 1 - k, Between(use, index, Len(s) + 1 - k, 1, Len(s) + 1 - k))]

\* RandomStream::shuffle: whatever is drawn, the values are all kept.
LEMMA ShuffledRearranges ==
    ASSUME NEW A, NEW s \in Seq(A), NEW use, NEW index,
           \A i \in 2 .. Len(s) : Between(use, index, i, 1, i) \in 1 .. i
    PROVE  Rearranges(s, Shuffled(use, index, s))
<1>1. CASE s = <<>>
  BY <1>1, NothingRearranged DEF Shuffled
<1>2. CASE s # <<>>
  <2> DEFINE n == Len(s)
             m == n - 1
             V == {t \in Seq(A) : Rearranges(s, t)}
             other(i) == Between(use, index, i, 1, i)
             step == [k \in 1 .. m |-> [t \in V |-> Swapped(t, n + 1 - k, other(n + 1 - k))]]
             next(f) == [k \in 0 .. m |->
                            IF k = 0 THEN s ELSE Swapped(f[k - 1], n + 1 - k, other(n + 1 - k))]
  <2>1. n \in Nat /\ m \in Nat
    BY <1>2
  <2>2. s \in V
    BY NothingRearranged
  <2>3. ASSUME NEW t \in V, NEW k \in 1 .. m
        PROVE  Swapped(t, n + 1 - k, other(n + 1 - k)) \in V
    <3> DEFINE i == n + 1 - k
               j == other(i)
    <3>1. i \in 2 .. n /\ i \in 1 .. n
      BY <2>1
    <3>2. j \in 1 .. i
      BY <3>1
    <3>3. j \in 1 .. n
      <4> HIDE DEF i, j, n
      <4> QED
        BY <2>1, <3>1, <3>2
    <3>4. Rearranges(s, Swapped(t, i, j))
      <4> HIDE DEF i, j
      <4> QED
        BY <3>1, <3>3, SwapRearranges
    <3>5. Swapped(t, i, j) \in Seq(A)
      <4> HIDE DEF i, j
      <4> QED
        BY <3>4, RearrangedKeeps
    <3> QED
      BY <3>4, <3>5
  <2> HIDE DEF V
  <2>4. StepsOn(V, s, m, step)
    <3>1. step \in [1 .. m -> [V -> V]]
      <4> HIDE DEF n, m, other
      <4> QED
        BY <2>3
    <3> HIDE DEF step
    <3> QED
      BY <2>1, <2>2, <3>1 DEF StepsOn
  <2>5. PICK f : IsCourse(f, V, s, m, step)
    <3> HIDE DEF n, m, step
    <3> QED
      BY <2>4, CourseExists
  <2>6. f \in [0 .. m -> V] /\ f[0] = s /\ \A k \in 1 .. m : f[k] = step[k][f[k - 1]]
    BY <2>5 DEF IsCourse
  <2>7. ASSUME NEW k \in 1 .. m PROVE f[k] = Swapped(f[k - 1], n + 1 - k, other(n + 1 - k))
    <3>1. k - 1 \in 0 .. m
      BY <2>1
    <3> HIDE DEF n, m, other
    <3>2. f[k - 1] \in V
      BY <2>6, <3>1, Zenon
    <3> QED
      BY <2>6, <3>2, Zenon
  <2>8. ASSUME NEW h
        PROVE  /\ DOMAIN next(h) = 0 .. m
               /\ next(h)[0] = s
               /\ \A k \in 1 .. m : next(h)[k] = Swapped(h[k - 1], n + 1 - k, other(n + 1 - k))
    <3>1. 0 \in 0 .. m /\ \A k \in 1 .. m : k \in 0 .. m /\ k # 0
      BY <2>1
    <3> HIDE DEF n, m, other
    <3> QED
      BY <3>1, Zenon
  <2>9. f = next(f)
    <3>1. f[0] = next(f)[0] /\ \A k \in 1 .. m : f[k] = next(f)[k]
      <4> HIDE DEF next, n, m, other
      <4> QED
        BY <2>6, <2>7, <2>8, Zenon
    <3>2. \A k \in 0 .. m : k = 0 \/ k \in 1 .. m
      BY <2>1
    <3> HIDE DEF m, n, other
    <3>3. \A k \in 0 .. m : f[k] = next(f)[k]
      <4> HIDE DEF next
      <4> QED
        BY <3>1, <3>2, Zenon
    <3>4. DOMAIN f = 0 .. m /\ DOMAIN next(f) = 0 .. m /\ f = [k \in DOMAIN f |-> f[k]]
      <4> HIDE DEF next
      <4> QED
        BY <2>6, <2>8
    <3> QED
      BY <3>3, <3>4
  <2> DEFINE g == Exchanged(use, index, s)
  <2>10. g = next(g)
    BY <2>9 DEF Exchanged
  <2>11. g[0] = s /\ \A k \in 1 .. m : g[k] = Swapped(g[k - 1], n + 1 - k, other(n + 1 - k))
    <3> HIDE DEF next, g, n, m, other
    <3> QED
      BY <2>8, <2>10
  <2>12. \A k \in 0 .. m : g[k] \in V
    <3>1. ASSUME NEW k \in 1 .. m, g[k - 1] \in V PROVE g[k] \in V
      <4> HIDE DEF g, n, m, other
      <4> QED
        BY <2>3, <2>11, <3>1
    <3>2. g[0] \in V
      BY <2>2, <2>11
    <3> HIDE DEF m, g
    <3> QED
      BY <2>1, <3>1, <3>2, StaysIn
  <2>13. Shuffled(use, index, s) = g[m]
    <3> DEFINE q == [j \in 1 .. Len(s) - 1 |-> Len(s) + 1 - j]
               prefix == CHOOSE h : h = [k \in 0 .. Len(q) |-> IF k = 0 THEN s ELSE
                             Swapped(h[k - 1], q[k], Between(use, index, q[k], 1, q[k]))]
    <3>1. Shuffled(use, index, s) = prefix[Len(q)]
      BY <1>2 DEF Shuffled, Fold
    <3>2. Len(q) = m /\ \A k \in 1 .. m : q[k] = n + 1 - k
      BY <2>1
    <3>3. \A h : [k \in 0 .. Len(q) |-> IF k = 0 THEN s ELSE
                     Swapped(h[k - 1], q[k], Between(use, index, q[k], 1, q[k]))]
                 = next(h)
      <4>1. \A k \in 0 .. m : k = 0 \/ k \in 1 .. m
        BY <2>1
      <4> HIDE DEF q, m, n
      <4> QED
        BY <3>2, <4>1
    <3>4. prefix = g
      <4> HIDE DEF q
      <4> QED
        BY <3>3 DEF Exchanged
    <3> QED
      BY <3>1, <3>2, <3>4
  <2>14. g[m] \in V
    <3>1. m \in 0 .. m
      BY <2>1
    <3> HIDE DEF g, m
    <3> QED
      BY <2>12, <3>1
  <2> QED
    BY <2>13, <2>14 DEF V
<1> QED
  BY <1>1, <1>2

-----------------------------------------------------------------------------
\* Task::random_input, Composition::random_input: the values of a random case
\* are of the range, also those computed from the parameters of the task.
LEMMA RandomValueIsValue ==
    ASSUME Issuable(task), stream \in Streams, NEW index \in 0 .. 31, NEW k \in 1 .. 64
    PROVE  RandomValue(index, k) \in Value
<1> DEFINE t == task.threshold
           m == task.modulus
           r == task.residue
           between(use, lower, upper) == Between(use, index, k, lower, upper)
<1>1. t \in -20 .. 20 /\ m \in 2 .. 7 /\ r \in 0 .. 6
  <2>1. t \in -20 .. 20 /\ m \in 2 .. 7 /\ r \in 0 .. m - 1
    BY IssuableParameters
  <2> HIDE DEF t, m, r
  <2> QED
    BY <2>1
<1>2. k \in 0 .. 64
  OBVIOUS
<1>3. between("value", -MaxInputAbs, MaxInputAbs) \in -MaxInputAbs .. MaxInputAbs
  <2> DEFINE low == -MaxInputAbs
             high == MaxInputAbs
  <2>1. high \in Int /\ low \in Int /\ high - low + 1 = 20001
    BY DEF MaxInputAbs
  <2> HIDE DEF low, high
  <2>2. high - low + 1 \in DrawnFrom["value"]
    BY <2>1, CaseDraws
  <2>3. Between("value", index, k, low, high) \in low .. high
    <3>1. low \in Int /\ high \in Int
      BY <2>1
    <3> QED
      BY <1>2, <2>2, <3>1, UsesAreDrawn, BetweenIsInRange
  <2> QED
    BY <2>3 DEF low, high
<1>4. between("value", -8, 8) \in -8 .. 8
  <2> DEFINE low == -8
             high == 8
  <2>1. high \in Int /\ low \in Int /\ high - low + 1 = 17
    OBVIOUS
  <2> HIDE DEF low, high
  <2>2. high - low + 1 \in DrawnFrom["value"]
    BY <2>1, CaseDraws
  <2>3. Between("value", index, k, low, high) \in low .. high
    <3>1. low \in Int /\ high \in Int
      BY <2>1
    <3> QED
      BY <1>2, <2>2, <3>1, UsesAreDrawn, BetweenIsInRange
  <2> QED
    BY <2>3 DEF low, high
<1>5. between("value", -2, 2) \in -2 .. 2
  <2> DEFINE low == -2
             high == 2
  <2>1. high \in Int /\ low \in Int /\ high - low + 1 = 5
    OBVIOUS
  <2> HIDE DEF low, high
  <2>2. high - low + 1 \in DrawnFrom["value"]
    BY <2>1, CaseDraws
  <2>3. Between("value", index, k, low, high) \in low .. high
    <3>1. low \in Int /\ high \in Int
      BY <2>1
    <3> QED
      BY <1>2, <2>2, <3>1, UsesAreDrawn, BetweenIsInRange
  <2> QED
    BY <2>3 DEF low, high
<1>6. between("remainder", 0, m - 1) \in 0 .. 6
  <2>1. m - 1 \in Int /\ (m - 1) - 0 + 1 \in 2 .. 7
    <3>1. m \in 2 .. 7
      BY <1>1
    <3> HIDE DEF m
    <3> QED
      BY <3>1
  <2>2. between("remainder", 0, m - 1) \in 0 .. m - 1
    <3>1. 0 \in Int /\ (m - 1) - 0 + 1 \in DrawnFrom["remainder"]
      BY <2>1, CaseDraws
    <3> HIDE DEF m
    <3> QED
      BY <1>2, <2>1, <3>1, UsesAreDrawn, BetweenIsInRange, Zenon
  <2> HIDE DEF between, m
  <2> QED
    BY <1>1, <2>2
<1> DEFINE a == between("value", -MaxInputAbs, MaxInputAbs)
           b == between("value", -8, 8)
           c == between("value", -2, 2)
           d == between("remainder", 0, m - 1)
           e == IF task.kind = "composition" THEN r ELSE d
<1>7. RandomValue(index, k) \in {a, b, t + c, b * m + e}
  <2>1. index % 4 \in {0, 1, 2, 3}
    OBVIOUS
  <2> QED
    BY <2>1 DEF RandomValue
<1>8. e \in 0 .. 6
  BY <1>1, <1>6
<1> HIDE DEF a, b, c, d, e, t, m, r
<1>9. a \in Value
  BY <1>3 DEF a, Value
<1>a1. b \in Int /\ b <= 8 /\ 0 <= b + 8
  BY <1>4 DEF b
<1>a2. c \in Int /\ c <= 2 /\ 0 <= c + 2
  BY <1>5 DEF c
<1>a3. t \in Int /\ t <= 20 /\ 0 <= t + 20
  BY <1>1
<1>a4. b \in Value
  <2>1. b <= 10000 /\ 0 <= b + 10000
    BY <1>a1
  <2> QED
    BY <1>a1, <2>1, IsValue
<1>10. t + c \in Value
  <2>1. t + c \in Int /\ t + c <= 10000 /\ 0 <= (t + c) + 10000
    BY <1>a2, <1>a3
  <2> QED
    BY <2>1, IsValue
<1>11. b * m + e \in Value
  <2>1. m \in {2, 3, 4, 5, 6, 7}
    BY <1>1
  <2>2. b * m \in Int /\ b * m <= 56 /\ 0 <= b * m + 56
    BY <1>a1, <2>1
  <2>3. e \in Int /\ 0 <= e /\ e <= 6
    BY <1>8
  <2> DEFINE p == b * m
  <2> HIDE DEF p
  <2>4. p \in Int /\ p <= 56 /\ 0 <= p + 56
    BY <2>2 DEF p
  <2>5. p + e \in Int /\ p + e <= 10000 /\ 0 <= (p + e) + 10000
    BY <2>3, <2>4
  <2> QED
    BY <2>5, IsValue DEF p
<1> QED
  BY <1>7, <1>9, <1>a4, <1>10, <1>11

\* cases: a random input is as long, and its values as large, as the prompt says.
LEMMA RandomCaseIsInput ==
    ASSUME Issuable(task), stream \in Streams, NEW index \in 0 .. 31
    PROVE  [k \in 1 .. RandomLength(index) |-> RandomValue(index, k)] \in Input
<1> DEFINE n == RandomLength(index)
           f == [k \in 1 .. n |-> RandomValue(index, k)]
<1>1. n \in 0 .. 64
  <2> DEFINE low == 0
             high == 64
  <2>1. low \in Int /\ high \in Int /\ low \in 0 .. 64 /\ high - low + 1 = 65
    OBVIOUS
  <2>2. "length" \in DOMAIN DrawnFrom /\ high - low + 1 \in DrawnFrom["length"]
    BY <2>1, CaseDraws
  <2>3. Between("length", index, low, low, high) \in low .. high
    <3> HIDE DEF low, high
    <3> QED
      BY <2>1, <2>2, BetweenIsInRange
  <2> QED
    BY <2>3 DEF RandomLength, MaxInputLen
<1>2. f \in [1 .. n -> Value]
  <2>1. ASSUME NEW k \in 1 .. n PROVE RandomValue(index, k) \in Value
    <3>1. k \in 1 .. 64
      <4> HIDE DEF n
      <4> QED
        BY <1>1
    <3> QED
      BY <3>1, RandomValueIsValue
  <2> HIDE DEF n
  <2> QED
    BY <2>1
<1> HIDE DEF n, f
<1>3. f \in Input
  BY <1>1, <1>2, FunctionIsInput
<1> QED
  BY <1>3 DEF n, f

-----------------------------------------------------------------------------
\* The ranges that the draws for the pool are from.
LEMMA ExtraDraws ==
    /\ DOMAIN PoolDrawnFrom = {"extraLength", "extra"}
    /\ PoolDrawnFrom["extraLength"] = {11} /\ PoolDrawnFrom["extra"] = {25, 7, 20001, 9}
  BY DEF PoolDrawnFrom

\* The draws that the pool makes at most.
DrawIndices == 0 .. ExtraDrawLimit - 1

\* A draw for the pool stays in its range.
LEMMA ExtraBetween ==
    ASSUME stream \in Streams, NEW use \in DOMAIN PoolDrawnFrom, NEW draw \in DrawIndices,
           NEW k \in 0 .. 12, NEW lower \in Int, NEW upper \in Int,
           upper - lower + 1 \in PoolDrawnFrom[use]
    PROVE  Between(use, draw, k, lower, upper) \in lower .. upper
<1> DEFINE d == Draw(stream, use, draw, k, upper - lower + 1)
<1>1. d \in 0 .. (upper - lower + 1) - 1
  BY PoolDrawAssumption, Zenon DEF DrawIndices
<1> HIDE DEF d
<1>2. lower + d \in lower .. upper
  BY <1>1
<1> QED
  BY <1>2 DEF Between, d

\* input_pool: a value that is drawn is of the range, whatever it is near to.
LEMMA ExtraValueIsValue ==
    ASSUME Issuable(task), stream \in Streams, NEW draw \in DrawIndices, NEW k \in 1 .. 12
    PROVE  ExtraValue(draw, k) \in Value
<1> DEFINE t == task.threshold
           m == task.modulus
           r == task.residue
           value(lower, upper) == Between("extra", draw, k, lower, upper)
           a == value(-12, 12)
           b == value(-3, 3)
           c == value(-MaxInputAbs, MaxInputAbs)
           d == value(-4, 4)
<1>1. t \in -20 .. 20 /\ m \in 2 .. 7 /\ r \in 0 .. 6
  <2>1. t \in -20 .. 20 /\ m \in 2 .. 7 /\ r \in 0 .. m - 1
    BY IssuableParameters
  <2> HIDE DEF t, m, r
  <2> QED
    BY <2>1
<1>2. k \in 0 .. 12
  OBVIOUS
<1>3. ASSUME NEW low \in Int, NEW high \in Int, high - low + 1 \in {25, 7, 20001, 9}
      PROVE  Between("extra", draw, k, low, high) \in low .. high
  <2>1. "extra" \in DOMAIN PoolDrawnFrom /\ high - low + 1 \in PoolDrawnFrom["extra"]
    BY <1>3, ExtraDraws
  <2> QED
    BY <1>2, <2>1, ExtraBetween
<1>4. a \in Int /\ a <= 12 /\ 0 <= a + 12
  <2> DEFINE low == -12
             high == 12
  <2>1. low \in Int /\ high \in Int /\ high - low + 1 \in {25, 7, 20001, 9}
    OBVIOUS
  <2> HIDE DEF low, high
  <2>2. Between("extra", draw, k, low, high) \in low .. high
    BY <1>3, <2>1
  <2> QED
    BY <2>2 DEF low, high
<1>5. b \in Int /\ b <= 3 /\ 0 <= b + 3
  <2> DEFINE low == -3
             high == 3
  <2>1. low \in Int /\ high \in Int /\ high - low + 1 \in {25, 7, 20001, 9}
    OBVIOUS
  <2> HIDE DEF low, high
  <2>2. Between("extra", draw, k, low, high) \in low .. high
    BY <1>3, <2>1
  <2> QED
    BY <2>2 DEF low, high
<1>6. c \in Value
  <2> DEFINE low == -MaxInputAbs
             high == MaxInputAbs
  <2>1. low \in Int /\ high \in Int /\ high - low + 1 \in {25, 7, 20001, 9}
    BY DEF MaxInputAbs
  <2> HIDE DEF low, high
  <2>2. Between("extra", draw, k, low, high) \in low .. high
    BY <1>3, <2>1
  <2> QED
    BY <2>2 DEF low, high, Value
<1>7. d \in Int /\ d <= 4 /\ 0 <= d + 4
  <2> DEFINE low == -4
             high == 4
  <2>1. low \in Int /\ high \in Int /\ high - low + 1 \in {25, 7, 20001, 9}
    OBVIOUS
  <2> HIDE DEF low, high
  <2>2. Between("extra", draw, k, low, high) \in low .. high
    BY <1>3, <2>1
  <2> QED
    BY <2>2 DEF low, high
<1>8. ExtraValue(draw, k) \in {a, t + b, c, d * m + r}
  <2>1. draw \in Nat
    BY DEF DrawIndices, ExtraDrawLimit
  <2>2. draw % 4 \in {0, 1, 2, 3}
    BY <2>1
  <2> QED
    BY <2>2 DEF ExtraValue
<1> HIDE DEF a, b, c, d, t, m, r
<1>9. a \in Value
  <2>1. a <= 10000 /\ 0 <= a + 10000
    BY <1>4
  <2> QED
    BY <1>4, <2>1, IsValue
<1>10. t + b \in Value
  <2>1. t + b \in Int /\ t + b <= 10000 /\ 0 <= (t + b) + 10000
    BY <1>1, <1>5
  <2> QED
    BY <2>1, IsValue
<1>11. d * m + r \in Value
  <2>1. m \in {2, 3, 4, 5, 6, 7}
    BY <1>1
  <2>2. d * m \in Int /\ d * m <= 28 /\ 0 <= d * m + 28
    BY <1>7, <2>1
  <2> DEFINE p == d * m
  <2> HIDE DEF p
  <2>3. p \in Int /\ p <= 28 /\ 0 <= p + 28
    BY <2>2 DEF p
  <2>4. p + r \in Int /\ p + r <= 10000 /\ 0 <= (p + r) + 10000
    BY <1>1, <2>3
  <2> QED
    BY <2>4, IsValue DEF p
<1> QED
  BY <1>6, <1>8, <1>9, <1>10, <1>11

\* A sort leaves values of the range, as many as there were.
LEMMA SortedIsValues ==
    ASSUME NEW s \in Seq(Value), NEW descending \in BOOLEAN
    PROVE  Sorted(s, descending) \in Seq(Value) /\ Len(Sorted(s, descending)) = Len(s)
<1> DEFINE V == Value
           n == Len(s)
           t == Sorted(s, descending)
<1>1. n \in Nat /\ s = [k \in 1 .. n |-> s[k]] /\ \A k \in 1 .. n : s[k] \in V
  OBVIOUS
<1>2. \A k \in 1 .. n : s[k] \in Int
  BY <1>1, ValueIsInt
<1> HIDE DEF V
<1>3. s \in Seq(Int)
  <2> HIDE DEF n
  <2> QED
    BY <1>1, <1>2, SequenceOf
<1>4. t \in Seq(Int) /\ Len(t) = n /\ \A i \in 1 .. n : \E j \in 1 .. n : t[i] = s[j]
  BY <1>3, SortedInOrder, SortedHas
<1> HIDE DEF t
<1>5. \A i \in 1 .. n : t[i] \in V
  BY <1>1, <1>4
<1>6. t = [i \in 1 .. n |-> t[i]]
  BY <1>4
<1>7. t \in Seq(V)
  <2> HIDE DEF n
  <2> QED
    BY <1>1, <1>5, <1>6, SequenceOf
<1> QED
  BY <1>4, <1>7 DEF V, t

\* input_pool: what is drawn is an input, also sorted or with a value repeated.
LEMMA ExtraInputIsInput ==
    ASSUME Issuable(task), stream \in Streams, NEW draw \in DrawIndices
    PROVE  ExtraInput(draw) \in Input
<1> DEFINE V == Value
           n == ExtraLength(draw)
           s == [k \in 1 .. n |-> ExtraValue(draw, k)]
           head == SubSeq(s, 1, n - 1)
           last == <<s[1]>>
<1>1. n \in 2 .. 12
  <2> DEFINE low == 2
             high == 12
             zero == 0
  <2>1. low \in Int /\ high \in Int /\ zero \in 0 .. 12 /\ high - low + 1 \in {11}
    OBVIOUS
  <2>2. "extraLength" \in DOMAIN PoolDrawnFrom /\ high - low + 1 \in PoolDrawnFrom["extraLength"]
    BY <2>1, ExtraDraws
  <2>3. Between("extraLength", draw, zero, low, high) \in low .. high
    <3> HIDE DEF low, high, zero
    <3> QED
      BY <2>1, <2>2, ExtraBetween
  <2> QED
    BY <2>3 DEF ExtraLength
<1>2. ExtraInput(draw) \in {s, Sorted(s, FALSE), Sorted(s, TRUE), head \o last}
  BY DEF ExtraInput
<1>3. ASSUME NEW k \in 1 .. n PROVE s[k] \in V
  <2>1. k \in 1 .. 12
    <3> HIDE DEF n
    <3> QED
      BY <1>1
  <2> QED
    BY <2>1, ExtraValueIsValue
<1>4. s = [k \in 1 .. n |-> s[k]]
  OBVIOUS
<1> HIDE DEF s, n, V
<1>5. s \in Seq(V) /\ Len(s) = n /\ n \in Nat
  BY <1>1, <1>3, <1>4, SequenceOf
<1>6. \A d \in BOOLEAN : Sorted(s, d) \in Seq(V) /\ Len(Sorted(s, d)) = n
  BY <1>5, SortedIsValues DEF V
<1>7. head \o last \in Seq(V) /\ Len(head \o last) = n
  <2>1. n - 1 \in 0 .. Len(s) /\ 1 \in 1 .. n
    BY <1>1, <1>5
  <2>2. head \in Seq(V) /\ Len(head) = n - 1
    BY <1>5, <2>1, PrefixOf
  <2>3. last \in Seq(V) /\ Len(last) = 1
    BY <1>3, <2>1
  <2> HIDE DEF head, last
  <2>4. head \o last \in Seq(V) /\ Len(head \o last) = Len(head) + Len(last)
    BY <2>2, <2>3, Joined
  <2> QED
    BY <1>5, <2>2, <2>3, <2>4
<1>8. ASSUME NEW q \in Seq(V), Len(q) = n PROVE q \in Input
  <2>1. Len(q) <= 64
    BY <1>1, <1>8
  <2> QED
    BY <2>1 DEF Input, MaxInputLen, V
<1> QED
  BY <1>2, <1>5, <1>6, <1>7, <1>8

-----------------------------------------------------------------------------
\* Inputs, no more of them than the pool has room for.
Pools == {p \in Seq(Input) : Len(p) \in 0 .. PoolLimit}

\* insert_unique: with one input more offered it is still a pool.
LEMMA InsertKeepsPool ==
    ASSUME NEW inputs \in Pools, NEW x \in Input
    PROVE  InsertUnique(inputs, x) \in Pools
<1> DEFINE A == Input
           n == Len(inputs)
           limit == PoolLimit
<1>1. inputs \in Seq(A) /\ n \in 0 .. limit /\ limit \in Nat
  BY DEF Pools, PoolLimit
<1>2. x \in A
  OBVIOUS
<1> HIDE DEF A, limit
<1>3. Append(inputs, x) \in Seq(A) /\ Len(Append(inputs, x)) = n + 1
  BY <1>1, <1>2
<1>4. n < limit => n + 1 \in 0 .. limit
  <2> HIDE DEF n
  <2> QED
    BY <1>1
<1>5. \A p \in Seq(A) : Len(p) \in 0 .. limit => p \in Pools
  BY DEF Pools, A, limit
<1>6. CASE n < limit /\ ~Contains(inputs, x)
  <2>1. InsertUnique(inputs, x) = Append(inputs, x)
    BY <1>6 DEF InsertUnique, limit
  <2> QED
    BY <1>3, <1>4, <1>5, <1>6, <2>1
<1>7. CASE ~(n < limit /\ ~Contains(inputs, x))
  <2>1. InsertUnique(inputs, x) = inputs
    BY <1>7, Zenon DEF InsertUnique, limit
  <2> QED
    BY <2>1
<1> QED
  BY <1>6, <1>7

\* What the pool is after so many offered inputs.
Offered(s) ==
    CHOOSE f : f = [k \in 0 .. Len(s) |-> IF k = 0 THEN <<>> ELSE InsertUnique(f[k - 1], s[k])]

\* input_pool: whatever inputs are offered to begin with, they make a pool.
LEMMA PoolHolds ==
    ASSUME NEW s \in Seq(Input)
    PROVE  Fold(InsertUnique, <<>>, s) \in Pools
<1> DEFINE n == Len(s)
           A == Input
           V == Pools
           step == [k \in 1 .. n |-> [inputs \in V |-> InsertUnique(inputs, s[k])]]
           next(f) == [k \in 0 .. n |-> IF k = 0 THEN <<>> ELSE InsertUnique(f[k - 1], s[k])]
<1>1. n \in Nat /\ \A k \in 1 .. n : s[k] \in A
  OBVIOUS
<1>a. <<>> \in V
  <2>1. <<>> \in Seq(Input) /\ Len(<<>>) = 0 /\ 0 \in 0 .. PoolLimit
    BY DEF PoolLimit
  <2> QED
    BY <2>1 DEF Pools
<1>2. ASSUME NEW inputs \in V, NEW x \in A PROVE InsertUnique(inputs, x) \in V
  BY InsertKeepsPool
<1> HIDE DEF V, A
<1>3. StepsOn(V, <<>>, n, step)
  <2>1. step \in [1 .. n -> [V -> V]]
    BY <1>1, <1>2
  <2> HIDE DEF step
  <2> QED
    BY <1>1, <1>a, <2>1 DEF StepsOn
<1>4. PICK f : IsCourse(f, V, <<>>, n, step)
  <2> HIDE DEF n, step
  <2> QED
    BY <1>3, CourseExists
<1>5. f \in [0 .. n -> V] /\ f[0] = <<>> /\ \A k \in 1 .. n : f[k] = step[k][f[k - 1]]
  BY <1>4 DEF IsCourse
<1>6. ASSUME NEW k \in 1 .. n PROVE f[k] = InsertUnique(f[k - 1], s[k])
  <2>1. k - 1 \in 0 .. n
    BY <1>1
  <2>2. f[k - 1] \in V
    BY <1>5, <2>1, Zenon
  <2> QED
    BY <1>5, <2>2, Zenon
<1>7. ASSUME NEW h
      PROVE  /\ DOMAIN next(h) = 0 .. n
             /\ next(h)[0] = <<>>
             /\ \A k \in 1 .. n : next(h)[k] = InsertUnique(h[k - 1], s[k])
  <2>1. 0 \in 0 .. n /\ \A k \in 1 .. n : k \in 0 .. n /\ k # 0
    BY <1>1
  <2> QED
    BY <2>1, Zenon
<1>8. f = next(f)
  <2>1. f[0] = next(f)[0] /\ \A k \in 1 .. n : f[k] = next(f)[k]
    <3> HIDE DEF next
    <3> QED
      BY <1>5, <1>6, <1>7, Zenon
  <2>2. \A k \in 0 .. n : k = 0 \/ k \in 1 .. n
    BY <1>1
  <2>3. \A k \in 0 .. n : f[k] = next(f)[k]
    <3> HIDE DEF next
    <3> QED
      BY <2>1, <2>2, Zenon
  <2>4. DOMAIN f = 0 .. n /\ DOMAIN next(f) = 0 .. n /\ f = [k \in DOMAIN f |-> f[k]]
    <3> HIDE DEF next
    <3> QED
      BY <1>5, <1>7
  <2> QED
    BY <2>3, <2>4
<1> DEFINE g == Offered(s)
<1>9. g = next(g)
  BY <1>8 DEF Offered
<1>10. Fold(InsertUnique, <<>>, s) = g[n]
  BY DEF Fold, Offered
<1>11. g[0] = <<>> /\ \A k \in 1 .. n : g[k] = InsertUnique(g[k - 1], s[k])
  <2> HIDE DEF next
  <2> QED
    BY <1>7, <1>9
<1> HIDE DEF g, next
<1>12. \A k \in 1 .. n : g[k - 1] \in V => g[k] \in V
  BY <1>1, <1>2, <1>11
<1>13. \A k \in 0 .. n : g[k] \in V
  <2>1. g[0] \in V
    BY <1>a, <1>11
  <2> HIDE DEF n
  <2> QED
    BY <1>1, <1>12, <2>1, StaysIn
<1>14. n \in 0 .. n
  BY <1>1
<1> QED
  BY <1>10, <1>13, <1>14 DEF V

\* The inputs of a composition and the singletons are what the pool starts from.
LEMMA StartedPool ==
    ASSUME cases \in Seq(Input)
    PROVE  Fold(InsertUnique, <<>>, cases \o [k \in 1 .. 49 |-> <<k - 25>>]) \in Pools
<1> DEFINE A == Input
           singles == [k \in 1 .. 49 |-> <<k - 25>>]
           c == cases
<1>1. ASSUME NEW k \in 1 .. 49 PROVE singles[k] \in A
  <2> DEFINE x == k - 25
  <2>1. x \in Int /\ x <= 10000 /\ 0 <= x + 10000
    OBVIOUS
  <2> HIDE DEF x
  <2>2. <<x>> \in A
    BY <2>1, IsValue, TupleIsInput
  <2> QED
    BY <2>2 DEF x
<1>2. singles = [k \in 1 .. 49 |-> singles[k]] /\ c \in Seq(A)
  OBVIOUS
<1> HIDE DEF singles, A, c
<1>3. singles \in Seq(A)
  BY <1>1, <1>2
<1>4. c \o singles \in Seq(A)
  BY <1>2, <1>3, Joined
<1>5. Fold(InsertUnique, <<>>, c \o singles) \in Pools
  <2> USE DEF A
  <2> QED
    BY <1>4, PoolHolds
<1> QED
  BY <1>5 DEF c, singles

\* The suite the search selects is 24 inputs of the pool.
LEMMA SuiteIsInputs ==
    ASSUME pool \in Pools, NEW picked \in Selections(Len(Others))
    PROVE  /\ Mandatory \o Keep(Others, picked) \in Seq(Input)
           /\ Len(Mandatory \o Keep(Others, picked)) = 24
<1> DEFINE A == Input
<1>1. MaxInputAbs \in Value /\ -MaxInputAbs \in Value
  BY DEF Value, MaxInputAbs
<1>5. Others \in Seq(A) /\ Len(Others) \in 0 .. PoolLimit
  <2> DEFINE p == pool
             S == {k \in 1 .. Len(p) : ~Contains(Mandatory, p[k])}
  <2>1. Others = Keep(p, S)
    BY DEF Others, Filter
  <2>2. Len(p) \in Nat /\ Positions(S, Len(p)) /\ p \in Seq(A) /\ Len(p) \in 0 .. PoolLimit
    BY DEF Positions, Pools
  <2> HIDE DEF A, p, S
  <2>3. Others \in Seq(A) /\ Len(Others) = Cardinality(S)
    BY <2>1, <2>2, KeepLists
  <2>4. Cardinality(S) \in Nat /\ Cardinality(S) <= Len(p)
    <3>1. S \subseteq 1 .. Len(p)
      BY <2>2 DEF Positions
    <3>2. IsFiniteSet(1 .. Len(p)) /\ Cardinality(1 .. Len(p)) = Len(p)
      BY <2>2, UpToCardinality
    <3> QED
      BY <2>2, <3>1, <3>2, FS_Subset, PositionsFinite
  <2> DEFINE c == Cardinality(S)
             l == Len(p)
             limit == PoolLimit
  <2>5. c \in Nat /\ limit \in Nat /\ l \in 0 .. limit /\ c <= l
    BY <2>2, <2>4 DEF PoolLimit
  <2> HIDE DEF c, l, limit
  <2>6. c \in 0 .. limit
    BY <2>5
  <2> QED
    BY <2>3, <2>6, Zenon DEF c, limit
<1>6. picked \subseteq 1 .. Len(Others) /\ Cardinality(picked) = 24 - Len(Mandatory)
  BY <1>5, SelectionsAssumption DEF SearchCases
<1>7. Mandatory \in Seq(A) /\ Len(Mandatory) = 4
  <2> DEFINE a == <<>>
             b == <<-MaxInputAbs>>
             c == <<MaxInputAbs>>
             d == [k \in 1 .. MaxInputLen |-> IF k % 2 = 1 THEN -MaxInputAbs ELSE MaxInputAbs]
  <2>1. a \in A /\ b \in A /\ c \in A
    BY <1>1, TupleIsInput
  <2>2. d \in A
    <3>1. d \in [1 .. 64 -> Value]
      BY <1>1 DEF MaxInputLen
    <3> HIDE DEF d
    <3> QED
      BY <3>1, FunctionIsInput
  <2>3. Mandatory = <<a, b, c, d>>
    BY DEF Mandatory
  <2> HIDE DEF a, b, c, d, A
  <2>4. <<a, b, c, d>> \in Seq(A) /\ Len(<<a, b, c, d>>) = 4
    BY <2>1, <2>2
  <2> QED
    BY <2>3, <2>4
<1>8. Keep(Others, picked) \in Seq(A) /\ Len(Keep(Others, picked)) = 20
  <2> DEFINE o == Others
  <2>1. o \in Seq(A) /\ Positions(picked, Len(o)) /\ Cardinality(picked) = 20
    <3>1. Cardinality(picked) = 20
      BY <1>6, <1>7
    <3> QED
      BY <1>5, <1>6, <3>1 DEF Positions
  <2> HIDE DEF A, o
  <2>2. Keep(o, picked) \in Seq(A) /\ Len(Keep(o, picked)) = Cardinality(picked)
    <3>1. o \in Seq(A) /\ Positions(picked, Len(o))
      BY <2>1
    <3> QED
      BY <3>1, KeepLists
  <2> QED
    BY <2>1, <2>2 DEF o
<1> DEFINE m == Mandatory
           q == Keep(Others, picked)
<1>9. m \in Seq(A) /\ q \in Seq(A) /\ Len(m) = 4 /\ Len(q) = 20
  BY <1>7, <1>8
<1> HIDE DEF A, m, q
<1>10. m \o q \in Seq(A) /\ Len(m \o q) = Len(m) + Len(q)
  <2>1. m \in Seq(A) /\ q \in Seq(A)
    BY <1>9
  <2> QED
    BY <2>1, Joined, Zenon
<1>11. Len(m \o q) = 24
  BY <1>9, <1>10
<1> QED
  BY <1>10, <1>11 DEF A, m, q

-----------------------------------------------------------------------------
\* A draw for a holdout stays in its range.
LEMMA HoldoutBetween ==
    ASSUME stream \in Streams, NEW use \in DOMAIN HoldoutDrawnFrom, NEW index \in 0 .. 7,
           NEW k \in 0 .. 64, NEW lower \in Int, NEW upper \in Int,
           upper - lower + 1 \in HoldoutDrawnFrom[use]
    PROVE  Between(use, index, k, lower, upper) \in lower .. upper
<1> DEFINE d == Draw(stream, use, index, k, upper - lower + 1)
<1>1. d \in 0 .. (upper - lower + 1) - 1
  BY HoldoutDrawAssumption
<1> HIDE DEF d
<1>2. lower + d \in lower .. upper
  BY <1>1
<1> QED
  BY <1>2 DEF Between, d

\* The ranges that a holdout draws from.
LEMMA HoldoutDraws ==
    /\ DOMAIN HoldoutDrawnFrom = {"holdoutLength", "sign", "categories", "category", "drawn",
                                  "prefix", "repeat", "repeated", "arrange", "all"}
    /\ HoldoutDrawnFrom["holdoutLength"] = {7, 4, 12, 15, 1}
    /\ HoldoutDrawnFrom["sign"] = {2}
    /\ HoldoutDrawnFrom["categories"] = 2 .. 6
    /\ HoldoutDrawnFrom["category"] = {8}
    /\ HoldoutDrawnFrom["drawn"] = {8, 7, 9, 240, 3840, 256, 20001}
    /\ HoldoutDrawnFrom["prefix"] = 2 .. 8
    /\ HoldoutDrawnFrom["repeat"] = {4}
    /\ HoldoutDrawnFrom["repeated"] = {8}
    /\ HoldoutDrawnFrom["arrange"] = 2 .. 64
    /\ HoldoutDrawnFrom["all"] = 2 .. 32
  BY DEF HoldoutDrawnFrom

\* A shuffle draws for each position up to the length.
LEMMA HoldoutShuffle ==
    ASSUME stream \in Streams, NEW use \in DOMAIN HoldoutDrawnFrom, NEW index \in 0 .. 7,
           NEW n \in 0 .. 64, 2 .. n \subseteq HoldoutDrawnFrom[use]
    PROVE  \A i \in 2 .. n : Between(use, index, i, 1, i) \in 1 .. i
<1> TAKE i \in 2 .. n
<1>1. i \in 0 .. 64 /\ i \in Int /\ 1 \in Int /\ i - 1 + 1 = i
  OBVIOUS
<1>2. i - 1 + 1 \in HoldoutDrawnFrom[use]
  BY <1>1, Zenon
<1> QED
  BY <1>1, <1>2, HoldoutBetween

\* A sign that is drawn is 1 or -1.
LEMMA SignIsUnit ==
    ASSUME stream \in Streams, NEW index \in 0 .. 7, NEW k \in 0 .. 64
    PROVE  Sign(index, k) \in {-1, 1}
  BY DEF Sign

\* How many values a category is drawn out of.
CategorySizes == {8, 7, 9, 240, 3840, 256, 20001}

\* A draw of a category stays in the range of that category.
LEMMA DrawnIsInRange ==
    ASSUME stream \in Streams, NEW index \in 0 .. 7, NEW k \in 0 .. 64,
           NEW low \in Int, NEW high \in Int,
           high - low + 1 \in CategorySizes
    PROVE  Between("drawn", index, k, low, high) \in low .. high
<1>1. high - low + 1 \in HoldoutDrawnFrom["drawn"] /\ "drawn" \in DOMAIN HoldoutDrawnFrom
  BY HoldoutDraws DEF CategorySizes
<1> QED
  BY <1>1, HoldoutBetween

\* The last category of the scale is large, on both sides of zero.
LEMMA IsLargeIs ==
    /\ \A x \in 9745 .. 10000 : IsLarge(x) /\ x \in Value /\ x > 0
    /\ \A x \in 9745 .. 10000 : IsLarge(-x) /\ -x \in Value /\ ~(-x > 0)
<1> DEFINE low == -(MaxInputAbs - 256)
           high == MaxInputAbs - 256
<1>1. low \in Int /\ high \in Int /\ low = -9744 /\ high = 9744
  BY DEF MaxInputAbs
<1>2. \A x : IsLarge(x) <=> x \notin low .. high
  BY Zenon DEF IsLarge
<1>6. low \in Int /\ high \in Int
  BY <1>1
<1> HIDE DEF low, high
<1>3. ASSUME NEW x \in Int, x >= 9745, x <= 10000
      PROVE  IsLarge(x) /\ x \in Value /\ x > 0
  <2>1. ~(x <= high)
    BY <1>1, <1>3
  <2>2. x <= MaxInputAbs /\ 0 <= x + MaxInputAbs /\ x > 0
    BY <1>3 DEF MaxInputAbs
  <2>3. \A y : y \in low .. high => y <= high
    BY <1>6
  <2>4. x \in Value
    BY <2>2, IsWithin
  <2> QED
    BY <1>2, <2>1, <2>2, <2>3, <2>4
<1>4. ASSUME NEW x \in Int, x <= -9745, 0 <= x + 10000
      PROVE  IsLarge(x) /\ x \in Value /\ ~(x > 0)
  <2>1. ~(low <= x)
    BY <1>1, <1>4
  <2>2. x <= MaxInputAbs /\ 0 <= x + MaxInputAbs /\ ~(x > 0)
    BY <1>4 DEF MaxInputAbs
  <2>3. \A y : y \in low .. high => low <= y
    BY <1>6
  <2>4. x \in Value
    BY <2>2, IsWithin
  <2> QED
    BY <1>2, <2>1, <2>2, <2>3, <2>4
<1>5. ASSUME NEW x \in 9745 .. 10000
      PROVE  /\ x \in Int /\ x >= 9745 /\ x <= 10000
             /\ -x \in Int /\ -x <= -9745 /\ 0 <= (-x) + 10000
  OBVIOUS
<1> QED
  BY <1>3, <1>4, <1>5

\* The category of a value: a small one and a large one have opposite signs.
LEMMA DrawnShows ==
    ASSUME IsComposition(task), stream \in Streams, NEW index \in 0 .. 7, NEW k \in 1 .. 64
    PROVE  /\ Drawn(0, index, k) = 0
           /\ IsSmall(Drawn(1, index, k)) /\ (Drawn(1, index, k) > 0 <=> Sign(index, 0) = 1)
           /\ IsNear(task, Drawn(2, index, k))
           /\ OnResidue(task, Drawn(3, index, k))
           /\ IsMedium(Drawn(4, index, k))
           /\ IsBroad(Drawn(5, index, k))
           /\ IsLarge(Drawn(6, index, k)) /\ (Drawn(6, index, k) > 0 <=> Sign(index, 0) # 1)
           /\ \A category \in 0 .. 7 : Drawn(category, index, k) \in Value
<1> DEFINE t == task.threshold
           m == task.modulus
           r == task.residue
           value(lower, upper) == Between("drawn", index, k, lower, upper)
           a == value(1, 8)
           b == value(-3, 3)
           c == value(-4, 4)
           d == value(16, 255)
           e == value(256, 4095)
           f == value(MaxInputAbs - 255, MaxInputAbs)
           g == value(-MaxInputAbs, MaxInputAbs)
           u == Sign(index, 0)
           v == Sign(index, k)
<1>1. t \in -20 .. 20 /\ m \in 2 .. 7 /\ r \in 0 .. 6
  <2>1. t \in -20 .. 20 /\ m \in 2 .. 7 /\ r \in 0 .. m - 1
    BY IssuableParameters DEF Issuable
  <2> HIDE DEF t, m, r
  <2> QED
    BY <2>1
<1>2. k \in 0 .. 64 /\ 0 \in 0 .. 64
  OBVIOUS
<1>3. u \in {-1, 1} /\ v \in {-1, 1}
  BY <1>2, SignIsUnit
<1>a. a \in 1 .. 8
  <2> DEFINE low == 1
             high == 8
  <2>1. low \in Int /\ high \in Int /\ high - low + 1 \in CategorySizes
    BY DEF CategorySizes
  <2> HIDE DEF low, high
  <2>2. Between("drawn", index, k, low, high) \in low .. high
    BY <1>2, <2>1, DrawnIsInRange, Zenon
  <2> QED
    BY <2>2, Zenon DEF low, high
<1>b. b \in -3 .. 3
  <2> DEFINE low == -3
             high == 3
  <2>1. low \in Int /\ high \in Int /\ high - low + 1 \in CategorySizes
    BY DEF CategorySizes
  <2> HIDE DEF low, high
  <2>2. Between("drawn", index, k, low, high) \in low .. high
    BY <1>2, <2>1, DrawnIsInRange, Zenon
  <2> QED
    BY <2>2, Zenon DEF low, high
<1>c. c \in -4 .. 4
  <2> DEFINE low == -4
             high == 4
  <2>1. low \in Int /\ high \in Int /\ high - low + 1 \in CategorySizes
    BY DEF CategorySizes
  <2> HIDE DEF low, high
  <2>2. Between("drawn", index, k, low, high) \in low .. high
    BY <1>2, <2>1, DrawnIsInRange, Zenon
  <2> QED
    BY <2>2, Zenon DEF low, high
<1>d. d \in 16 .. 255
  <2> DEFINE low == 16
             high == 255
  <2>1. low \in Int /\ high \in Int /\ high - low + 1 \in CategorySizes
    BY DEF CategorySizes
  <2> HIDE DEF low, high
  <2>2. Between("drawn", index, k, low, high) \in low .. high
    BY <1>2, <2>1, DrawnIsInRange, Zenon
  <2> QED
    BY <2>2, Zenon DEF low, high
<1>e. e \in 256 .. 4095
  <2> DEFINE low == 256
             high == 4095
  <2>1. low \in Int /\ high \in Int /\ high - low + 1 \in CategorySizes
    BY DEF CategorySizes
  <2> HIDE DEF low, high
  <2>2. Between("drawn", index, k, low, high) \in low .. high
    BY <1>2, <2>1, DrawnIsInRange, Zenon
  <2> QED
    BY <2>2 DEF low, high
<1>f. f \in MaxInputAbs - 255 .. MaxInputAbs
  <2> DEFINE low == MaxInputAbs - 255
             high == MaxInputAbs
  <2>1. low \in Int /\ high \in Int /\ high - low + 1 \in CategorySizes
    BY DEF MaxInputAbs, CategorySizes
  <2> HIDE DEF low, high
  <2>2. Between("drawn", index, k, low, high) \in low .. high
    BY <1>2, <2>1, DrawnIsInRange, Zenon
  <2> QED
    BY <2>2 DEF low, high
<1>g. g \in -MaxInputAbs .. MaxInputAbs
  <2> DEFINE low == -MaxInputAbs
             high == MaxInputAbs
  <2>1. low \in Int /\ high \in Int /\ high - low + 1 \in CategorySizes
    BY DEF MaxInputAbs, CategorySizes
  <2> HIDE DEF low, high
  <2>2. Between("drawn", index, k, low, high) \in low .. high
    BY <1>2, <2>1, DrawnIsInRange, Zenon
  <2> QED
    BY <2>2 DEF low, high
<1>6. /\ Drawn(0, index, k) = 0 /\ Drawn(1, index, k) = u * a /\ Drawn(2, index, k) = t + b
      /\ Drawn(3, index, k) = c * m + r /\ Drawn(4, index, k) = v * d /\ Drawn(5, index, k) = v * e
      /\ Drawn(6, index, k) = -(u * f) /\ Drawn(7, index, k) = g
  <2>1. Drawn(0, index, k) = 0
    BY DEF Drawn, value
  <2>2. Drawn(1, index, k) = u * a
    BY DEF Drawn, value
  <2>3. Drawn(2, index, k) = t + b
    BY DEF Drawn, value
  <2>4. Drawn(3, index, k) = c * m + r
    BY DEF Drawn, value
  <2>5. Drawn(4, index, k) = v * d
    BY DEF Drawn, value
  <2>6. Drawn(5, index, k) = v * e
    BY DEF Drawn, value
  <2>7. Drawn(6, index, k) = -(u * f)
    BY DEF Drawn, value
  <2>8. Drawn(7, index, k) = g
    BY DEF Drawn, value
  <2> HIDE DEF a, b, c, d, e, f, g, t, m, r, u, v
  <2> QED
    BY <2>1, <2>2, <2>3, <2>4, <2>5, <2>6, <2>7, <2>8
<1> HIDE DEF a, b, c, d, e, f, g, t, m, r, u, v
<1>7. IsSmall(u * a) /\ (u * a > 0 <=> u = 1) /\ u * a \in Value
  <2>1. u * a = (IF u = 1 THEN a ELSE -a) /\ (u = 1 \/ u = -1)
    BY <1>3, <1>a
  <2>2. a \in Int /\ 0 < a /\ a <= 8
    BY <1>a
  <2>3. IsSmall(a) /\ IsSmall(-a) /\ a > 0 /\ ~(-a > 0)
    BY <2>2 DEF IsSmall
  <2>4. a <= 10000 /\ 0 <= a + 10000 /\ -a \in Int /\ -a <= 10000 /\ 0 <= (-a) + 10000
    BY <2>2
  <2>5. a \in Value /\ -a \in Value
    BY <2>2, <2>4, IsValue
  <2> QED
    BY <2>1, <2>3, <2>5
<1>8. (t + b) - t \in -3 .. 3 /\ t + b \in Value
  <2>1. t \in Int /\ t <= 20 /\ 0 <= t + 20 /\ b \in Int /\ b <= 3 /\ 0 <= b + 3
    BY <1>1, <1>b
  <2>2. t + b \in Int /\ t + b <= 10000 /\ 0 <= (t + b) + 10000 /\ (t + b) - t = b
    BY <2>1
  <2>3. t + b \in Value
    BY <2>2, IsValue
  <2> QED
    BY <1>b, <2>2, <2>3
<1>9. c * m + r \in Value
  <2>1. m \in {2, 3, 4, 5, 6, 7}
    BY <1>1
  <2>2. c \in Int /\ c <= 4 /\ 0 <= c + 4
    BY <1>c
  <2> DEFINE p == c * m
  <2>3. p \in Int /\ p <= 28 /\ 0 <= p + 28
    BY <2>1, <2>2
  <2>4. r \in Int /\ 0 <= r /\ r <= 6
    BY <1>1
  <2> HIDE DEF p
  <2>5. p + r \in Int /\ p + r <= 10000 /\ 0 <= (p + r) + 10000
    BY <2>3, <2>4
  <2> QED
    BY <2>5, IsValue DEF p
<1>10. IsMedium(v * d) /\ v * d \in Value
  <2>1. v * d \in {d, -d}
    BY <1>3, <1>d
  <2>2. IsMedium(d) /\ IsMedium(-d)
    <3> DEFINE up == 16 .. 255
               down == -255 .. -16
    <3>1. d \in up /\ -d \in down
      BY <1>d
    <3> HIDE DEF up, down
    <3>2. d \in up \union down /\ -d \in up \union down
      BY <3>1
    <3> QED
      BY <3>2, Zenon DEF IsMedium, up, down
  <2>3. /\ d \in Int /\ d <= 10000 /\ 0 <= d + 10000
        /\ -d \in Int /\ -d <= 10000 /\ 0 <= (-d) + 10000
    BY <1>d
  <2>4. d \in Value /\ -d \in Value
    BY <2>3, IsValue
  <2> QED
    BY <2>1, <2>2, <2>4, Zenon
<1>11. IsBroad(v * e) /\ v * e \in Value
  <2>1. v * e \in {e, -e}
    BY <1>3, <1>e
  <2>2. IsBroad(e) /\ IsBroad(-e)
    <3> DEFINE up == 256 .. 4095
               down == -4095 .. -256
    <3>1. e \in up /\ -e \in down
      BY <1>e
    <3> HIDE DEF up, down
    <3>2. e \in up \union down /\ -e \in up \union down
      BY <3>1
    <3>3. \A x : IsBroad(x) <=> x \in up \union down
      BY SMT DEF IsBroad, up, down
    <3> QED
      BY <3>2, <3>3
  <2>3. /\ e \in Int /\ e <= 10000 /\ 0 <= e + 10000
        /\ -e \in Int /\ -e <= 10000 /\ 0 <= (-e) + 10000
    BY <1>e
  <2>4. e \in Value /\ -e \in Value
    BY <2>3, IsValue
  <2> QED
    BY <2>1, <2>2, <2>4, Zenon
<1>12. IsLarge(-(u * f)) /\ (-(u * f) > 0 <=> u # 1) /\ -(u * f) \in Value
  <2>1. f \in 9745 .. 10000 /\ f \in Int
    BY <1>f DEF MaxInputAbs
  <2>2. (u = 1 /\ -(u * f) = -f) \/ (u # 1 /\ -(u * f) = f)
    BY <1>3, <2>1
  <2>3. /\ IsLarge(f) /\ f \in Value /\ f > 0
        /\ IsLarge(-f) /\ -f \in Value /\ ~(-f > 0)
    BY <2>1, IsLargeIs
  <2> QED
    BY <2>2, <2>3
<1>13. 0 \in Value /\ g \in Value
  <2>1. 0 \in Int /\ 0 <= 10000 /\ 0 <= 0 + 10000
    OBVIOUS
  <2> QED
    BY <1>g, <2>1, IsValue DEF Value
<1>14. \A category \in 0 .. 7 : Drawn(category, index, k) \in Value
  <2>1. \A category \in 0 .. 7 : category \in {0, 1, 2, 3, 4, 5, 6, 7}
    OBVIOUS
  <2> QED
    BY <1>6, <1>7, <1>8, <1>9, <1>10, <1>11, <1>12, <1>13, <2>1
<1>15. IsSmall(Drawn(1, index, k)) /\ (Drawn(1, index, k) > 0 <=> u = 1)
  BY <1>6, <1>7
<1>17. IsNear(task, Drawn(2, index, k))
  BY <1>6, <1>8 DEF IsNear, t
<1>18. IsMedium(Drawn(4, index, k))
  BY <1>6, <1>10
<1>19. IsBroad(Drawn(5, index, k))
  BY <1>6, <1>11
<1>20. IsLarge(Drawn(6, index, k)) /\ (Drawn(6, index, k) > 0 <=> u # 1)
  BY <1>6, <1>12
<1>16. OnResidue(task, Drawn(3, index, k))
  BY <1>c, <1>6 DEF OnResidue, m, r
<1> QED
  BY <1>6, <1>14, <1>15, <1>16, <1>17, <1>18, <1>19, <1>20 DEF u

-----------------------------------------------------------------------------
\* The values at the positions every category comes at.
Firsts(s) == {s[k] : k \in 1 .. LesserOf(Len(s), CategoryCount)}

\* What IsMixed asks for, of a set of values and the length of the input.
Mixes(W, n) ==
    /\ \E x, y \in W : IsSmall(x) /\ IsLarge(y) /\ Opposite(x, y)
    /\ n >= CategoryCount =>
          /\ 0 \in W
          /\ \E x \in W : IsNear(task, x)
          /\ \E x \in W : OnResidue(task, x)
          /\ \E x \in W : IsMedium(x)
          /\ \E x \in W : IsBroad(x)

\* An input that holds such values is mixed, whatever else it holds.
LEMMA MixedWith ==
    ASSUME NEW W, NEW s, Mixes(W, Len(s)), \A x \in W : \E k \in 1 .. Len(s) : s[k] = x
    PROVE  IsMixed(task, s)
<1>1. \E j, k \in 1 .. Len(s) : IsSmall(s[j]) /\ IsLarge(s[k]) /\ Opposite(s[j], s[k])
  <2>1. PICK x \in W, y \in W : IsSmall(x) /\ IsLarge(y) /\ Opposite(x, y)
    BY DEF Mixes
  <2>2. PICK j \in 1 .. Len(s) : s[j] = x
    BY <2>1
  <2>3. PICK k \in 1 .. Len(s) : s[k] = y
    BY <2>1
  <2>4. IsSmall(s[j]) /\ IsLarge(s[k]) /\ Opposite(s[j], s[k])
    BY <2>1, <2>2, <2>3, Zenon
  <2> QED
    BY <2>4, Zenon
<1>2. ASSUME Len(s) >= CategoryCount PROVE ShowsEveryScale(task, s)
  <2>1. \E k \in 1 .. Len(s) : s[k] = 0
    BY <1>2 DEF Mixes
  <2>2. \E k \in 1 .. Len(s) : IsNear(task, s[k])
    <3>1. PICK x \in W : IsNear(task, x)
      BY <1>2 DEF Mixes
    <3>2. PICK k \in 1 .. Len(s) : s[k] = x
      BY <3>1
    <3> QED
      BY <3>1, <3>2, Zenon
  <2>3. \E k \in 1 .. Len(s) : OnResidue(task, s[k])
    <3>1. PICK x \in W : OnResidue(task, x)
      BY <1>2 DEF Mixes
    <3>2. PICK k \in 1 .. Len(s) : s[k] = x
      BY <3>1
    <3> QED
      BY <3>1, <3>2, Zenon
  <2>4. \E k \in 1 .. Len(s) : IsMedium(s[k])
    <3>1. PICK x \in W : IsMedium(x)
      BY <1>2 DEF Mixes
    <3>2. PICK k \in 1 .. Len(s) : s[k] = x
      BY <3>1
    <3> QED
      BY <3>1, <3>2, Zenon
  <2>5. \E k \in 1 .. Len(s) : IsBroad(s[k])
    <3>1. PICK x \in W : IsBroad(x)
      BY <1>2 DEF Mixes
    <3>2. PICK k \in 1 .. Len(s) : s[k] = x
      BY <3>1
    <3> QED
      BY <3>1, <3>2, Zenon
  <2> QED
    BY <2>1, <2>2, <2>3, <2>4, <2>5 DEF ShowsEveryScale
<1> QED
  BY <1>1, <1>2 DEF IsMixed

\* The values as they are first drawn, before anything is rearranged.
LEMMA ValuesShow ==
    ASSUME IsComposition(task), stream \in Streams, NEW index \in 0 .. 7, NEW length \in 2 .. 64
    PROVE  /\ Values(index, length) \in Seq(Value)
           /\ Len(Values(index, length)) = length
           /\ Mixes(Firsts(Values(index, length)), length)
<1> DEFINE six == <<0, 4, 5, 2, 3, 7>>
           tail == Shuffled("categories", index, six)
           categories == <<1, 6>> \o tail
           category(k) == IF k <= CategoryCount THEN categories[k]
                          ELSE Between("category", index, k, 0, CategoryCount - 1)
           v == Values(index, length)
           C == 0 .. 7
<1>1. six \in Seq(C) /\ Len(six) = 6
  OBVIOUS
<1>2. tail \in Seq(C) /\ Len(tail) = 6 /\ \A j \in 1 .. 6 : \E i \in 1 .. 6 : tail[i] = six[j]
  <2> HIDE DEF six
  <2>1. \A i \in 2 .. Len(six) : Between("categories", index, i, 1, i) \in 1 .. i
    <3>1. "categories" \in DOMAIN HoldoutDrawnFrom /\ 2 .. 6 \subseteq HoldoutDrawnFrom["categories"]
      BY HoldoutDraws
    <3>2. 6 \in 0 .. 64
      OBVIOUS
    <3> QED
      BY <1>1, <3>1, <3>2, HoldoutShuffle
  <2> HIDE DEF C
  <2>2. Rearranges(six, tail)
    BY <1>1, <2>1, ShuffledRearranges
  <2> HIDE DEF tail
  <2>3. six \in Seq(C)
    BY <1>1
  <2>4. /\ tail \in Seq(C) /\ Len(tail) = Len(six)
        /\ \A j \in 1 .. Len(six) : \E i \in 1 .. Len(tail) : tail[i] = six[j]
    BY <2>2, <2>3, RearrangedKeeps
  <2> QED
    BY <1>1, <2>4
<1> HIDE DEF tail
<1>3. /\ categories \in Seq(C) /\ Len(categories) = 8 /\ categories[1] = 1 /\ categories[2] = 6
      /\ \A i \in 1 .. 6 : categories[2 + i] = tail[i]
  <2> DEFINE two == <<1, 6>>
  <2>1. two \in Seq(C) /\ Len(two) = 2 /\ two[1] = 1 /\ two[2] = 6
    OBVIOUS
  <2> HIDE DEF two, C
  <2>2. tail \in Seq(C) /\ two \in Seq(C)
    BY <1>2, <2>1
  <2>3. /\ two \o tail \in Seq(C) /\ Len(two \o tail) = Len(two) + Len(tail)
        /\ \A k \in 1 .. Len(two) : (two \o tail)[k] = two[k]
        /\ \A k \in 1 .. Len(tail) : (two \o tail)[Len(two) + k] = tail[k]
    BY <2>2, Joined
  <2>4. 1 \in 1 .. 2 /\ 2 \in 1 .. 2
    OBVIOUS
  <2>5. /\ two \o tail \in Seq(C) /\ Len(two \o tail) = 8
        /\ (two \o tail)[1] = 1 /\ (two \o tail)[2] = 6
        /\ \A i \in 1 .. 6 : (two \o tail)[2 + i] = tail[i]
    <3> DEFINE u == two \o tail
    <3>1. Len(two) = 2 /\ Len(tail) = 6 /\ two[1] = 1 /\ two[2] = 6
      BY <1>2, <2>1
    <3>2. u \in Seq(C) /\ Len(u) = 8 /\ (\A k \in 1 .. 2 : u[k] = two[k]) /\ \A k \in 1 .. 6 : u[2 + k] = tail[k]
      BY <2>3, <3>1
    <3> HIDE DEF u
    <3>3. u[1] = 1 /\ u[2] = 6
      BY <2>4, <3>1, <3>2
    <3> QED
      BY <3>2, <3>3 DEF u
  <2> QED
    BY <2>5 DEF two
<1> HIDE DEF categories
<1>4. ASSUME NEW k \in 1 .. length PROVE k \in 1 .. 64 /\ category(k) \in C
  <2>1. k \in 1 .. 64 /\ k \in 0 .. 64
    OBVIOUS
  <2>2. CASE k <= 8
    <3>1. k \in 1 .. 8
      BY <2>1, <2>2
    <3>2. categories[k] \in C
      <4> HIDE DEF C
      <4>1. Len(categories) = 8 /\ categories \in Seq(C)
        BY <1>3
      <4>2. k \in 1 .. Len(categories)
        BY <3>1, <4>1, Zenon
      <4>3. \A i \in 1 .. Len(categories) : categories[i] \in C
        BY <4>1, SequenceValues
      <4> QED
        BY <4>2, <4>3, Zenon
    <3> QED
      BY <2>1, <2>2, <3>2 DEF CategoryCount, LengthStrata
  <2>3. CASE ~(k <= 8)
    <3> DEFINE high == CategoryCount - 1
               low == 0
    <3>1. low \in Int /\ high \in Int /\ high = 7 /\ high - low + 1 = 8
      BY DEF CategoryCount
    <3>2. "category" \in DOMAIN HoldoutDrawnFrom /\ 8 \in HoldoutDrawnFrom["category"]
      BY HoldoutDraws
    <3>3. Between("category", index, k, low, high) \in low .. high
      <4> HIDE DEF low, high
      <4>1. high - low + 1 \in HoldoutDrawnFrom["category"]
        BY <3>1, <3>2
      <4> QED
        BY <2>1, <3>1, <3>2, <4>1, HoldoutBetween
    <3>4. category(k) = Between("category", index, k, low, high)
      BY <2>3 DEF CategoryCount
    <3> QED
      BY <2>1, <3>1, <3>3, <3>4
  <2> QED
    BY <2>2, <2>3
<1>5. v = [k \in 1 .. length |-> Drawn(category(k), index, k)]
  BY DEF Values, categories, tail
<1> HIDE DEF C
<1>6. \A k \in 1 .. length : v[k] = Drawn(category(k), index, k) /\ v[k] \in Value
  <2>1. ASSUME NEW k \in 1 .. length PROVE Drawn(category(k), index, k) \in Value
    <3>1. k \in 1 .. 64 /\ category(k) \in 0 .. 7
      BY <1>4 DEF C
    <3> HIDE DEF category
    <3> QED
      BY <3>1, DrawnShows
  <2> HIDE DEF category, v
  <2> QED
    BY <1>5, <2>1
<1>7. v \in Seq(Value) /\ Len(v) = length
  <2> HIDE DEF category, v
  <2> QED
    BY <1>5, <1>6
<1>8. \A k \in 1 .. 8 : k <= length => k \in 1 .. length /\ v[k] = Drawn(categories[k], index, k) /\ v[k] \in Firsts(v)
  <2> TAKE k \in 1 .. 8
  <2> HAVE k <= length
  <2>1. k \in 1 .. length
    OBVIOUS
  <2>2. category(k) = categories[k]
    BY DEF CategoryCount
  <2>3. v[k] = Drawn(categories[k], index, k)
    <3> HIDE DEF category, v
    <3> QED
      BY <1>6, <2>1, <2>2
  <2>4. k \in 1 .. LesserOf(Len(v), CategoryCount)
    <3> HIDE DEF v
    <3> QED
      BY <1>7, <2>1 DEF LesserOf, CategoryCount
  <2> HIDE DEF v
  <2> QED
    BY <2>1, <2>3, <2>4 DEF Firsts
<1> DEFINE W == Firsts(v)
<1> HIDE DEF v, W
<1>9. \E x, y \in W : IsSmall(x) /\ IsLarge(y) /\ Opposite(x, y)
  <2>1. 1 \in 1 .. 8 /\ 2 \in 1 .. 8 /\ 1 <= length /\ 2 <= length
    OBVIOUS
  <2>2. /\ v[1] = Drawn(1, index, 1) /\ v[1] \in W
        /\ v[2] = Drawn(6, index, 2) /\ v[2] \in W
    BY <1>3, <1>8, <2>1 DEF W
  <2>3. 1 \in 1 .. 64 /\ 2 \in 1 .. 64
    OBVIOUS
  <2>4. /\ IsSmall(v[1]) /\ (v[1] > 0 <=> Sign(index, 0) = 1)
        /\ IsLarge(v[2]) /\ (v[2] > 0 <=> Sign(index, 0) # 1)
    <3>1. /\ IsSmall(Drawn(1, index, 1)) /\ (Drawn(1, index, 1) > 0 <=> Sign(index, 0) = 1)
          /\ IsLarge(Drawn(6, index, 2)) /\ (Drawn(6, index, 2) > 0 <=> Sign(index, 0) # 1)
      BY <2>3, DrawnShows
    <3> QED
      BY <2>2, <3>1
  <2>5. Opposite(v[1], v[2])
    BY <2>4 DEF Opposite
  <2> QED
    BY <2>2, <2>4, <2>5
<1>10. ASSUME length >= 8, NEW j \in 1 .. 6
       PROVE  \E k \in 1 .. 64 : Drawn(six[j], index, k) \in W
  <2>1. PICK i \in 1 .. 6 : tail[i] = six[j]
    BY <1>2
  <2>2. 2 + i \in 1 .. 8 /\ 2 + i <= length /\ 2 + i \in 1 .. 64
    BY <1>10
  <2>3. categories[2 + i] = six[j]
    BY <1>3, <2>1
  <2>4. v[2 + i] = Drawn(six[j], index, 2 + i) /\ v[2 + i] \in W
    BY <1>8, <2>2, <2>3 DEF W
  <2> QED
    BY <2>2, <2>4
<1>11. ASSUME length >= CategoryCount
       PROVE  /\ 0 \in W
              /\ \E x \in W : IsNear(task, x)
              /\ \E x \in W : OnResidue(task, x)
              /\ \E x \in W : IsMedium(x)
              /\ \E x \in W : IsBroad(x)
  <2>1. /\ six[1] = 0 /\ six[2] = 4 /\ six[3] = 5 /\ six[4] = 2 /\ six[5] = 3 /\ six[6] = 7
        /\ 1 \in 1 .. 6 /\ 2 \in 1 .. 6 /\ 3 \in 1 .. 6 /\ 4 \in 1 .. 6 /\ 5 \in 1 .. 6
    OBVIOUS
  <2>2. length >= 8
    BY <1>11 DEF CategoryCount
  <2>3. 0 \in W
    <3>1. PICK k \in 1 .. 64 : Drawn(0, index, k) \in W
      BY <1>10, <2>1, <2>2
    <3> QED
      BY <3>1, DrawnShows
  <2>4. \E x \in W : IsNear(task, x)
    <3>1. PICK k \in 1 .. 64 : Drawn(2, index, k) \in W
      BY <1>10, <2>1, <2>2
    <3>2. IsNear(task, Drawn(2, index, k))
      BY DrawnShows
    <3> QED
      BY <3>1, <3>2, Zenon
  <2>5. \E x \in W : OnResidue(task, x)
    <3>1. PICK k \in 1 .. 64 : Drawn(3, index, k) \in W
      BY <1>10, <2>1, <2>2
    <3>2. OnResidue(task, Drawn(3, index, k))
      BY DrawnShows
    <3> QED
      BY <3>1, <3>2, Zenon
  <2>6. \E x \in W : IsMedium(x)
    <3>1. PICK k \in 1 .. 64 : Drawn(4, index, k) \in W
      BY <1>10, <2>1, <2>2
    <3>2. IsMedium(Drawn(4, index, k))
      BY DrawnShows
    <3> QED
      BY <3>1, <3>2, Zenon
  <2>7. \E x \in W : IsBroad(x)
    <3>1. PICK k \in 1 .. 64 : Drawn(5, index, k) \in W
      BY <1>10, <2>1, <2>2
    <3>2. IsBroad(Drawn(5, index, k))
      BY DrawnShows
    <3> QED
      BY <3>1, <3>2, Zenon
  <2> QED
    BY <2>3, <2>4, <2>5, <2>6, <2>7
<1>12. Mixes(W, length)
  BY <1>9, <1>11 DEF Mixes
<1> QED
  BY <1>7, <1>12 DEF v, W

\* What the later steps do to an input: it stays one, of the same length, and
\* shows the values every category came with.
KeepsShown(s, t) ==
    /\ t \in Seq(Value) /\ Len(t) = Len(s)
    /\ \A x \in Firsts(s) : \E k \in 1 .. LesserOf(Len(t), CategoryCount) : t[k] = x

\* The prefix that is shuffled is 2 to 8 values long, 8 when the input is long enough.
LEMMA PrefixLength ==
    ASSUME NEW n \in 2 .. 64
    PROVE  /\ LesserOf(n, CategoryCount) \in 2 .. 8 /\ LesserOf(n, CategoryCount) <= n
           /\ n >= 8 => LesserOf(n, CategoryCount) = 8
  BY DEF LesserOf, CategoryCount

\* Shuffling the prefix keeps the values every category came with,
LEMMA PrefixShuffleKeeps ==
    ASSUME stream \in Streams, NEW index \in 0 .. 7, NEW s \in Seq(Value), Len(s) \in 2 .. 64
    PROVE  KeepsShown(s, ShuffledPrefix(index, s))
<1> DEFINE V == Value
           l == Len(s)
           n == LesserOf(l, CategoryCount)
           head == SubSeq(s, 1, n)
           h == Shuffled("prefix", index, head)
           tail == SubSeq(s, n + 1, l)
<1>1. n \in 2 .. 8 /\ n <= l /\ l \in 2 .. 64
  BY PrefixLength
<1> HIDE DEF V, n
<1>2. head \in Seq(V) /\ Len(head) = n /\ \A k \in 1 .. n : head[k] = s[k]
  BY <1>1 DEF V
<1>3. tail \in Seq(V) /\ Len(tail) = l - n
  BY <1>1 DEF V
<1>4. h \in Seq(V) /\ Len(h) = n /\ \A j \in 1 .. n : \E i \in 1 .. n : h[i] = s[j]
  <2> HIDE DEF head
  <2>1. \A i \in 2 .. Len(head) : Between("prefix", index, i, 1, i) \in 1 .. i
    <3>1. "prefix" \in DOMAIN HoldoutDrawnFrom /\ 2 .. n \subseteq HoldoutDrawnFrom["prefix"]
      BY <1>1, HoldoutDraws
    <3>2. n \in 0 .. 64
      BY <1>1
    <3> QED
      BY <1>2, <3>1, <3>2, HoldoutShuffle
  <2>2. Rearranges(head, h)
    BY <1>2, <2>1, ShuffledRearranges
  <2> HIDE DEF h
  <2>3. /\ h \in Seq(V) /\ Len(h) = Len(head)
        /\ \A j \in 1 .. Len(head) : \E i \in 1 .. Len(h) : h[i] = head[j]
    <3>1. head \in Seq(V)
      BY <1>2
    <3> HIDE DEF l, tail
    <3> QED
      BY <2>2, <3>1, RearrangedKeeps
  <2> QED
    BY <1>2, <2>3
<1>5. ShuffledPrefix(index, s) = h \o tail
  BY DEF ShuffledPrefix, n
<1> HIDE DEF h, tail, head
<1> DEFINE t == h \o tail
<1>6. t \in Seq(V) /\ Len(t) = n + (l - n) /\ \A k \in 1 .. n : t[k] = h[k]
  <2>1. h \in Seq(V) /\ tail \in Seq(V)
    BY <1>3, <1>4
  <2>2. t \in Seq(V) /\ Len(t) = Len(h) + Len(tail) /\ \A k \in 1 .. Len(h) : t[k] = h[k]
    BY <2>1, Joined
  <2> QED
    BY <1>3, <1>4, <2>2
<1> HIDE DEF t
<1>7. Len(t) = l
  <2> HIDE DEF l
  <2> QED
    BY <1>1, <1>6
<1>8. \A x \in Firsts(s) : \E k \in 1 .. n : t[k] = x
  <2> TAKE x \in Firsts(s)
  <2>1. PICK j \in 1 .. n : s[j] = x
    BY DEF Firsts, n
  <2>2. PICK i \in 1 .. n : h[i] = s[j]
    BY <1>4, <2>1
  <2>3. t[i] = x
    BY <1>6, <2>1, <2>2
  <2> QED
    BY <2>3
<1>9. LesserOf(Len(t), CategoryCount) = n
  BY <1>7 DEF n
<1> QED
  BY <1>5, <1>6, <1>7, <1>8, <1>9 DEF KeepsShown, t, V

\* and so does repeating values behind it.
LEMMA DuplicatesKeep ==
    ASSUME stream \in Streams, NEW index \in 0 .. 7, NEW s \in Seq(Value), Len(s) \in 2 .. 64
    PROVE  KeepsShown(s, WithDuplicates(index, s))
<1> DEFINE V == Value
           n == Len(s)
           t == WithDuplicates(index, s)
<1>1. n \in 2 .. 64 /\ \A k \in 1 .. n : s[k] \in V
  OBVIOUS
<1>2. t = [k \in 1 .. n |-> IF k > CategoryCount THEN Repeated(index, s, k) ELSE s[k]]
  BY DEF WithDuplicates
<1>3. ASSUME NEW k \in 1 .. n, k > CategoryCount PROVE Repeated(index, s, k) \in V
  <2> DEFINE low == 1
             high == CategoryCount
             j == Between("repeated", index, k, low, high)
  <2>1. low \in Int /\ high \in Int /\ high = 8 /\ high - low + 1 = 8
    BY DEF CategoryCount
  <2>0. k \in 0 .. 64 /\ k \in Int
    <3> HIDE DEF n
    <3> QED
      BY <1>1
  <2>2. "repeated" \in DOMAIN HoldoutDrawnFrom /\ 8 \in HoldoutDrawnFrom["repeated"]
    BY HoldoutDraws
  <2>3. j \in low .. high
    <3> HIDE DEF low, high
    <3>1. high - low + 1 \in HoldoutDrawnFrom["repeated"]
      BY <2>1, <2>2
    <3> QED
      BY <2>0, <2>1, <2>2, <3>1, HoldoutBetween
  <2>4. Repeated(index, s, k) = s[j] \/ Repeated(index, s, k) = s[k]
    BY DEF Repeated
  <2> HIDE DEF j
  <2>5. j \in 1 .. n
    <3> HIDE DEF n, low, high
    <3> QED
      BY <1>1, <1>3, <2>0, <2>1, <2>3 DEF CategoryCount
  <2> QED
    BY <1>1, <2>4, <2>5
<1>4. \A k \in 1 .. n : t[k] \in V
  <2> HIDE DEF V, t
  <2> QED
    BY <1>1, <1>2, <1>3
<1>5. t \in Seq(V) /\ Len(t) = n
  <2>1. t = [k \in 1 .. n |-> t[k]]
    <3> HIDE DEF n
    <3> QED
      BY <1>2
  <2>2. n \in Nat
    OBVIOUS
  <2> HIDE DEF V, t, n
  <2> QED
    BY <1>4, <2>1, <2>2, SequenceOf
<1>6. ASSUME NEW x \in Firsts(s) PROVE \E k \in 1 .. LesserOf(n, CategoryCount) : t[k] = x
  <2> DEFINE m == LesserOf(n, CategoryCount)
  <2>1. PICK k \in 1 .. m : s[k] = x
    BY DEF Firsts
  <2>2. m \in 2 .. 8 /\ m <= n
    BY <1>1, PrefixLength
  <2> HIDE DEF m, n, t
  <2>3. k \in 1 .. n /\ ~(k > CategoryCount)
    BY <1>1, <2>2 DEF CategoryCount
  <2>4. t[k] = s[k]
    BY <1>2, <2>3
  <2> QED
    BY <2>1, <2>4 DEF m
<1> HIDE DEF t
<1> QED
  BY <1>5, <1>6 DEF KeepsShown, t

\* The last step of an input: it may be sorted, shuffled, or repeat its first
\* value at the end, where no category is shown.
LEMMA ArrangedKeeps ==
    ASSUME stream \in Streams, NEW index \in 0 .. 7, NEW s \in Seq(Value), Len(s) \in 2 .. 64,
           index \in {4, 7} => Len(s) > CategoryCount
    PROVE  /\ Arranged(index, s) \in Seq(Value) /\ Len(Arranged(index, s)) = Len(s)
           /\ \A x \in Firsts(s) : \E k \in 1 .. Len(s) : Arranged(index, s)[k] = x
<1> DEFINE V == Value
           n == Len(s)
           m == LesserOf(n, CategoryCount)
<1>1. n \in 2 .. 64 /\ \A k \in 1 .. n : s[k] \in V
  OBVIOUS
<1>2. m \in 2 .. 8 /\ m <= n
  BY <1>1, PrefixLength
<1>3. \A x \in Firsts(s) : \E k \in 1 .. m : k \in 1 .. n /\ s[k] = x
  <2>1. Firsts(s) = {s[k] : k \in 1 .. m}
    BY DEF Firsts
  <2> HIDE DEF m, n
  <2>2. \A k \in 1 .. m : k \in 1 .. n
    BY <1>1, <1>2
  <2> QED
    BY <2>1, <2>2
<1> HIDE DEF V
<1>4. CASE index \in {2, 3}
  <2> DEFINE d == index = 3
             t == Sorted(s, d)
  <2>1. Arranged(index, s) = t
    BY <1>4 DEF Arranged
  <2>2. s \in Seq(Int) /\ d \in BOOLEAN
    <3>1. \A k \in 1 .. n : s[k] \in Int
      BY <1>1, ValueIsInt DEF V
    <3>2. s = [k \in 1 .. n |-> s[k]] /\ n \in Nat
      OBVIOUS
    <3> HIDE DEF n
    <3> QED
      BY <3>1, <3>2, SequenceOf
  <2> HIDE DEF d
  <2>3. /\ t \in Seq(Int) /\ Len(t) = n
        /\ \A j \in 1 .. n : \E i \in 1 .. n : t[i] = s[j]
        /\ \A i \in 1 .. n : \E j \in 1 .. n : t[i] = s[j]
    BY <2>2, SortedInOrder, SortedHas
  <2> HIDE DEF t
  <2>4. t \in Seq(V) /\ Len(t) = n
    <3>1. \A i \in 1 .. n : t[i] \in V
      BY <1>1, <2>3
    <3>2. t = [i \in 1 .. n |-> t[i]] /\ n \in Nat
      BY <2>3
    <3> HIDE DEF n
    <3> QED
      BY <3>1, <3>2, SequenceOf
  <2>5. \A x \in Firsts(s) : \E k \in 1 .. n : t[k] = x
    <3> HIDE DEF n, m
    <3>1. \A x \in Firsts(s) : \E k \in 1 .. n : s[k] = x
      BY <1>3, Zenon
    <3> TAKE x \in Firsts(s)
    <3>2. PICK j \in 1 .. n : s[j] = x
      BY <3>1
    <3>3. PICK i \in 1 .. n : t[i] = s[j]
      BY <2>3
    <3> QED
      BY <3>2, <3>3
  <2> QED
    BY <2>1, <2>4, <2>5 DEF V
<1>5. CASE index \in {4, 7}
  <2> DEFINE head == SubSeq(s, 1, n - 1)
             last == <<s[1]>>
             t == head \o last
  <2>1. Arranged(index, s) = t
    BY <1>5 DEF Arranged
  <2>2. n > 8 /\ m = 8
    <3>1. n > 8
      BY <1>5 DEF CategoryCount
    <3>2. n >= 8
      BY <1>1, <3>1
    <3> HIDE DEF n
    <3>3. m = 8
      BY <1>1, <3>2, PrefixLength
    <3> QED
      BY <3>1, <3>3
  <2>3. head \in Seq(V) /\ Len(head) = n - 1 /\ \A k \in 1 .. n - 1 : head[k] = s[k]
    <3>1. s \in Seq(V)
      BY DEF V
    <3>2. n - 1 \in 0 .. n
      <4> HIDE DEF n
      <4> QED
        BY <1>1
    <3> QED
      BY <3>1, <3>2, PrefixOf
  <2>4. last \in Seq(V) /\ Len(last) = 1
    <3>1. s[1] \in V
      BY <1>1
    <3> QED
      BY <3>1
  <2>5. head \in Seq(V) /\ last \in Seq(V)
    BY <2>3, <2>4
  <2> HIDE DEF head, last
  <2>6. t \in Seq(V) /\ Len(t) = Len(head) + Len(last) /\ \A k \in 1 .. Len(head) : t[k] = head[k]
    BY <2>5, Joined
  <2> HIDE DEF t, n, m
  <2>7. Len(t) = n /\ \A k \in 1 .. 8 : k \in 1 .. n /\ t[k] = s[k]
    <3>1. n \in Int /\ n >= 9 /\ Len(head) = n - 1 /\ Len(last) = 1
      BY <1>1, <2>2, <2>3, <2>4
    <3>2. Len(t) = n
      <4>1. \A x \in Int : (x - 1) + 1 = x
        OBVIOUS
      <4> QED
        BY <2>6, <3>1, <4>1
    <3>3. \A k \in 1 .. 8 : k \in 1 .. n /\ k \in 1 .. n - 1
      BY <3>1
    <3> QED
      BY <2>3, <2>6, <3>1, <3>2, <3>3
  <2>8. \A x \in Firsts(s) : \E k \in 1 .. n : t[k] = x
    BY <1>3, <2>2, <2>7
  <2> QED
    BY <2>1, <2>6, <2>7, <2>8 DEF V, n
<1>6. CASE index \in {0, 1, 5, 6}
  <2> DEFINE t == Shuffled("arrange", index, s)
  <2>1. Arranged(index, s) = t
    BY <1>6 DEF Arranged
  <2>2. \A i \in 2 .. Len(s) : Between("arrange", index, i, 1, i) \in 1 .. i
    <3>1. "arrange" \in DOMAIN HoldoutDrawnFrom /\ 2 .. n \subseteq HoldoutDrawnFrom["arrange"]
      <4> HIDE DEF n
      <4> QED
        BY <1>1, HoldoutDraws
    <3>2. n \in 0 .. 64
      <4> HIDE DEF n
      <4> QED
        BY <1>1
    <3> QED
      BY <3>1, <3>2, HoldoutShuffle
  <2>3. s \in Seq(V)
    BY DEF V
  <2>4. Rearranges(s, t)
    BY <2>2, <2>3, ShuffledRearranges
  <2> HIDE DEF t
  <2>5. t \in Seq(V) /\ Len(t) = Len(s) /\ \A j \in 1 .. Len(s) : \E i \in 1 .. Len(t) : t[i] = s[j]
    BY <2>3, <2>4, RearrangedKeeps
  <2>6. \A x \in Firsts(s) : \E k \in 1 .. n : t[k] = x
    <3>1. \A j \in 1 .. n : \E i \in 1 .. n : t[i] = s[j]
      BY <2>5
    <3> HIDE DEF n, m
    <3> QED
      BY <1>3, <3>1
  <2> QED
    BY <2>1, <2>5, <2>6 DEF V
<1> QED
  BY <1>4, <1>5, <1>6

\* holdout_inputs: "Long inputs contain every category"; each holdout is an input
\* of its stratum and mixes the scales, whatever is drawn for it.
LEMMA HoldoutMixes ==
    ASSUME IsComposition(task), stream \in Streams, NEW index \in 0 .. 7
    PROVE  /\ Holdout(index) \in Input
           /\ Len(Holdout(index)) \in LengthStrata[index + 1][1] .. LengthStrata[index + 1][2]
           /\ IsMixed(task, Holdout(index))
<1> DEFINE stratum == LengthStrata[index + 1]
           length == Between("holdoutLength", index, 0, stratum[1], stratum[2])
           v == Values(index, length)
           p == ShuffledPrefix(index, v)
           d == IF index \in {1, 4, 7} THEN WithDuplicates(index, p) ELSE p
           t == Arranged(index, d)
<1>1. Holdout(index) = t
  BY DEF Holdout
<1>2. /\ stratum[1] \in 2 .. 64 /\ stratum[2] \in 2 .. 64
      /\ stratum[2] - stratum[1] + 1 \in {7, 4, 12, 15, 1}
      /\ index \in {4, 7} => stratum[1] > 8
  <2>1. index \in {0, 1, 2, 3, 4, 5, 6, 7}
    OBVIOUS
  <2> QED
    BY <2>1 DEF LengthStrata
<1>3. length \in stratum[1] .. stratum[2]
  <2> HIDE DEF stratum
  <2>1. "holdoutLength" \in DOMAIN HoldoutDrawnFrom
    BY HoldoutDraws
  <2>2. stratum[2] - stratum[1] + 1 \in HoldoutDrawnFrom["holdoutLength"]
    BY <1>2, HoldoutDraws
  <2>3. stratum[1] \in Int /\ stratum[2] \in Int /\ 0 \in 0 .. 64
    BY <1>2
  <2> QED
    BY <2>1, <2>2, <2>3, HoldoutBetween
<1> DEFINE a == stratum[1]
           b == stratum[2]
<1>4. length \in 2 .. 64 /\ length \in a .. b /\ (index \in {4, 7} => length > CategoryCount)
  <2>1. CategoryCount = 8
    BY DEF CategoryCount
  <2>2. a \in 2 .. 64 /\ b \in 2 .. 64 /\ length \in a .. b /\ (index \in {4, 7} => a > 8)
    BY <1>2, <1>3
  <2> HIDE DEF a, b, length
  <2> QED
    BY <2>1, <2>2
<1> HIDE DEF length, a, b
<1>5. v \in Seq(Value) /\ Len(v) = length /\ Mixes(Firsts(v), length)
  BY <1>4, ValuesShow
<1> HIDE DEF v
<1>6. KeepsShown(v, p)
  BY <1>4, <1>5, PrefixShuffleKeeps
<1>7. p \in Seq(Value) /\ Len(p) = length /\ \A x \in Firsts(v) : x \in Firsts(p)
  BY <1>5, <1>6 DEF KeepsShown, Firsts
<1> HIDE DEF p
<1>8. d \in Seq(Value) /\ Len(d) = length /\ \A x \in Firsts(p) : x \in Firsts(d)
  <2>1. CASE index \in {1, 4, 7}
    <3> DEFINE w == WithDuplicates(index, p)
    <3>1. d = w
      BY <2>1
    <3>2. KeepsShown(p, w)
      BY <1>4, <1>7, DuplicatesKeep
    <3> HIDE DEF w, d
    <3>3. w \in Seq(Value) /\ Len(w) = length /\ \A x \in Firsts(p) : x \in Firsts(w)
      BY <1>7, <3>2 DEF KeepsShown, Firsts
    <3> QED
      BY <3>1, <3>3
  <2>2. CASE index \notin {1, 4, 7}
    BY <1>7, <2>2
  <2> QED
    BY <2>1, <2>2
<1> HIDE DEF d
<1>9. /\ t \in Seq(Value) /\ Len(t) = length
      /\ \A x \in Firsts(d) : \E k \in 1 .. length : t[k] = x
  <2>1. Len(d) \in 2 .. 64 /\ (index \in {4, 7} => Len(d) > CategoryCount)
    BY <1>4, <1>8
  <2>2. /\ t \in Seq(Value) /\ Len(t) = Len(d)
        /\ \A x \in Firsts(d) : \E k \in 1 .. Len(d) : t[k] = x
    BY <1>8, <2>1, ArrangedKeeps
  <2> QED
    BY <1>8, <2>2
<1> HIDE DEF t
<1>10. t \in Input
  BY <1>4, <1>9 DEF Input, MaxInputLen
<1>11. IsMixed(task, t)
  <2>1. \A x \in Firsts(v) : \E k \in 1 .. Len(t) : t[k] = x
    BY <1>7, <1>8, <1>9
  <2>2. Mixes(Firsts(v), Len(t))
    BY <1>5, <1>9
  <2> QED
    BY <2>1, <2>2, MixedWith
<1> QED
  BY <1>1, <1>4, <1>9, <1>10, <1>11 DEF a, b

-----------------------------------------------------------------------------
\* What the holdouts guarantee, and that the suite is still there.
SuiteKept ==
    /\ \A k \in 1 .. 24 : Contains(cases, suite[k])
    /\ \A k \in 1 .. 8 : \E i \in 1 .. Len(cases) :
          Len(cases[i]) \in LengthStrata[k][1] .. LengthStrata[k][2] /\ IsMixed(task, cases[i])
    /\ \E i, j \in 1 .. Len(cases) :
          /\ i # j
          /\ Len(cases[i]) \in 64 .. 64 /\ IsMixed(task, cases[i])
          /\ Len(cases[j]) \in 64 .. 64 /\ IsMixed(task, cases[j])

\* The challenge expires after it was issued.
Dated == expires = request.now + ChallengeTtl
\* Engine::issue has a task and has answered nothing yet.
Started == answer = None /\ Dated /\ Issuable(task)

\* What holds in each phase of issuing.
Phases ==
    \/ pc = "validate" /\ answer = None /\ suite = <<>>
    \/ pc = "generate" /\ answer = None /\ suite = <<>> /\ Dated
    \/ pc = "fixed" /\ Started /\ suite = <<>>
    \/ pc = "random" /\ Started /\ suite = <<>> /\ cases \in Seq(Input) /\ Len(cases) \in 0 .. 32
    \/ /\ pc = "pool" /\ Started /\ IsComposition(task) /\ suite = <<>>
       /\ pool \in Pools /\ draws \in 0 .. ExtraDrawLimit
    \/ /\ pc = "holdout" /\ Started /\ IsComposition(task)
       /\ suite = cases /\ cases \in Seq(Input) /\ Len(cases) = 24
    \/ /\ pc = "judge" /\ Started /\ cases \in Seq(Input) /\ Len(cases) = 32
       /\ suite = <<>> \/ SuiteKept
    \/ /\ pc = "done" /\ Issued /\ Dated /\ Issuable(task)
       /\ cases \in Seq(Input) /\ Len(cases) = 32
       /\ expected = [k \in 1 .. 32 |-> Expected(cases[k])]
       /\ suite = <<>> \/ SuiteKept
    \/ pc = "done" /\ ~Issued

\* The inductive invariant.
IssuanceInv == request \in Requests /\ stream \in Streams /\ Phases

\* It holds at first.
LEMMA IssuanceStarts == ASSUME ScreenedInit PROVE IssuanceInv
  BY DEF ScreenedInit, Init, IssuanceInv, Phases

\* ValidationRequest: a request that is refused issues nothing.
LEMMA ValidateRequestKeeps ==
    ASSUME IssuanceInv, ValidateRequest, UNCHANGED suite PROVE IssuanceInv'
<1>1. answer = None /\ suite = <<>> /\ pc = "validate"
  BY DEF IssuanceInv, Phases, ValidateRequest
<1>2. request' = request /\ stream' = stream
  BY DEF ValidateRequest, Fail
<1>3. CASE /\ pc' = "generate" /\ answer' = answer
           /\ CheckedExpiry(request.now).error = None
           /\ expires' = CheckedExpiry(request.now).expires
  <2>1. expires' = request.now + ChallengeTtl
    <3>1. CASE request.now + ChallengeTtl > MaxTime
      <4>1. None = "TimeOverflow" /\ expires' = None
        BY <1>3, <3>1 DEF CheckedExpiry
      <4> QED
        BY <4>1, IssuanceAssumption
    <3>2. CASE ~(request.now + ChallengeTtl > MaxTime)
      BY <1>3, <3>2 DEF CheckedExpiry
    <3> QED
      BY <3>1, <3>2
  <2> QED
    BY <1>1, <1>2, <1>3, <2>1 DEF IssuanceInv, Phases, Dated
<1>4. CASE pc' = "done" /\ answer' \in {"InvalidScope", "ContextFactorTooLarge", "TimeOverflow"}
  <2>1. ~Issued'
    BY <1>4 DEF Issued
  <2> QED
    BY <1>2, <1>4, <2>1 DEF IssuanceInv, Phases
<1>5. CheckedExpiry(request.now).error \in {None, "TimeOverflow"}
  BY DEF CheckedExpiry
<1> QED
  BY <1>3, <1>4, <1>5 DEF ValidateRequest, Fail

\* An error issues nothing.
LEMMA FailKeeps ==
    ASSUME IssuanceInv, pc = "generate", NEW error, error # "Ok", Fail(error)
    PROVE  IssuanceInv'
  BY DEF IssuanceInv, Phases, Fail, Issued

\* Task::generate and Composition::generate give a task that can be issued.
LEMMA GenerateKeeps ==
    ASSUME IssuanceInv, Generate, UNCHANGED suite PROVE IssuanceInv'
<1>1. answer = None /\ suite = <<>> /\ Dated
  BY DEF IssuanceInv, Phases, Generate
<1>2. Issuable(task)'
  BY IssuanceAssumption DEF Generate, Issuable
<1> QED
  BY <1>1, <1>2 DEF IssuanceInv, Phases, Generate, Started, Dated

\* The fixed inputs keep the promise, and leave room for the random ones.
LEMMA FixedCasesKeeps ==
    ASSUME IssuanceInv, FixedCases, UNCHANGED suite PROVE IssuanceInv'
<1>1. Started /\ suite = <<>>
  BY DEF IssuanceInv, Phases, FixedCases
<1>2. cases' = BoundaryCases \o KindCases /\ pc' = "random" /\ UNCHANGED <<request, answer, expires, task, stream>>
  BY DEF FixedCases
<1>3. BoundaryCases \o KindCases \in Seq(Input) /\ Len(BoundaryCases \o KindCases) \in 0 .. 22
  BY <1>1, FixedCasesAreInputs DEF Started
<1>4. \A n \in 0 .. 22 : n \in 0 .. 32
  OBVIOUS
<1>5. cases' \in Seq(Input) /\ Len(cases') \in 0 .. 32
  BY <1>2, <1>3, <1>4, Zenon
<1> QED
  BY <1>1, <1>2, <1>5 DEF IssuanceInv, Phases, Started, Dated

\* A random input keeps it, and there are never more than 32.
LEMMA RandomCaseKeeps ==
    ASSUME IssuanceInv, RandomCase, UNCHANGED suite PROVE IssuanceInv'
<1> DEFINE index == Len(cases)
           c == [k \in 1 .. RandomLength(index) |-> RandomValue(index, k)]
<1>1. Started /\ suite = <<>> /\ cases \in Seq(Input) /\ Len(cases) \in 0 .. 32
  BY DEF IssuanceInv, Phases, RandomCase
<1>2. /\ Len(cases) < 32 /\ cases' = Append(cases, c)
      /\ UNCHANGED <<pc, request, answer, expires, task, stream>> /\ pc = "random"
  BY DEF RandomCase, HiddenTestCount
<1>3. index \in 0 .. 31
  <2>1. \A n \in 0 .. 32 : n < 32 => n \in 0 .. 31
    OBVIOUS
  <2> QED
    BY <1>1, <1>2, <2>1, Zenon
<1>4. c \in Input
  <2>1. Issuable(task) /\ stream \in Streams
    BY <1>1 DEF Started, IssuanceInv
  <2> HIDE DEF index
  <2> QED
    BY <1>3, <2>1, RandomCaseIsInput
<1> HIDE DEF c
<1>5. cases' \in Seq(Input) /\ Len(cases') = Len(cases) + 1
  BY <1>1, <1>2, <1>4
<1>6. Len(cases') \in 0 .. 32
  <2>1. \A n \in 0 .. 31 : n + 1 \in 0 .. 32
    OBVIOUS
  <2> QED
    BY <1>3, <1>5, <2>1, Zenon
<1> QED
  BY <1>1, <1>2, <1>5, <1>6 DEF IssuanceInv, Phases, Started, Dated

\* What the shuffle finds, and that it rearranges it.
LEMMA ShuffleRearranges ==
    ASSUME IssuanceInv, Shuffle
    PROVE  Len(cases) = 32 /\ Rearranges(cases, cases')
<1>1. Started /\ cases \in Seq(Input) /\ Len(cases) \in 0 .. 32 /\ stream \in Streams
  BY DEF IssuanceInv, Phases, Shuffle
<1>2. /\ Len(cases) >= 32 /\ cases' = Shuffled("shuffle", 0, cases) /\ pc' = "judge"
      /\ UNCHANGED <<request, answer, expires, task, stream>>
  BY DEF Shuffle, HiddenTestCount
<1>3. Len(cases) = 32
  <2>1. \A n \in 0 .. 32 : n >= 32 => n = 32
    OBVIOUS
  <2> QED
    BY <1>1, <1>2, <2>1, Zenon
<1>4. ASSUME NEW i \in 2 .. 32 PROVE Between("shuffle", 0, i, 1, i) \in 1 .. i
  <2> DEFINE low == 1
             zero == 0
  <2>1. "shuffle" \in DOMAIN DrawnFrom /\ i - low + 1 \in DrawnFrom["shuffle"]
    BY CaseDraws
  <2>2. i \in 0 .. 64 /\ i \in Int /\ low \in Int /\ zero \in 0 .. 31
    OBVIOUS
  <2>3. Between("shuffle", zero, i, low, i) \in low .. i
    <3> HIDE DEF low, zero
    <3> QED
      BY <1>1, <2>1, <2>2, BetweenIsInRange
  <2> QED
    BY <2>3
<1>5. Rearranges(cases, cases')
  <2> DEFINE s == cases
             A == Input
  <2>1. s \in Seq(A) /\ \A i \in 2 .. Len(s) : Between("shuffle", 0, i, 1, i) \in 1 .. i
    BY <1>1, <1>3, <1>4
  <2> HIDE DEF s, A
  <2>2. Rearranges(s, Shuffled("shuffle", 0, s))
    BY <2>1, ShuffledRearranges
  <2> QED
    BY <1>2, <2>2 DEF s
<1> QED
  BY <1>3, <1>5

\* The shuffle loses none of the 32.
LEMMA ShuffleKeeps ==
    ASSUME IssuanceInv, Shuffle, UNCHANGED suite PROVE IssuanceInv'
<1>1. Started /\ suite = <<>> /\ cases \in Seq(Input)
  BY DEF IssuanceInv, Phases, Shuffle
<1>2. pc' = "judge" /\ UNCHANGED <<request, answer, expires, task, stream>>
  BY DEF Shuffle
<1>3. Len(cases) = 32 /\ Rearranges(cases, cases')
  BY ShuffleRearranges
<1>4. cases' \in Seq(Input) /\ Len(cases') = 32
  <2> DEFINE s == cases
             t == cases'
             A == Input
  <2>1. s \in Seq(A) /\ Rearranges(s, t) /\ Len(s) = 32
    BY <1>1, <1>3
  <2> HIDE DEF s, t, A
  <2>2. t \in Seq(A) /\ Len(t) = 32
    BY <2>1, RearrangedKeeps
  <2> QED
    BY <2>2 DEF t, A
<1> QED
  BY <1>1, <1>2, <1>4 DEF IssuanceInv, Phases, Started, Dated

\* Judging answers every input that was put together.
LEMMA JudgeKeeps ==
    ASSUME IssuanceInv, Judge, UNCHANGED suite PROVE IssuanceInv'
<1>1. /\ Started /\ cases \in Seq(Input) /\ Len(cases) = 32
      /\ suite = <<>> \/ SuiteKept
  BY DEF IssuanceInv, Phases, Judge
<1>2. /\ expected' = [k \in 1 .. Len(cases) |-> Expected(cases[k])] /\ answer' = "Ok" /\ pc' = "done"
      /\ UNCHANGED <<request, expires, task, stream, cases>>
  BY DEF Judge
<1>3. expected' = [k \in 1 .. 32 |-> Expected(cases[k])]'
  BY <1>1, <1>2 DEF Expected
<1>4. Issued' /\ Dated' /\ Issuable(task)'
  BY <1>1, <1>2 DEF Issued, Dated, Started
<1>5. suite' = <<>> \/ SuiteKept'
  BY <1>1, <1>2 DEF SuiteKept
<1> QED
  BY <1>1, <1>2, <1>3, <1>4, <1>5 DEF IssuanceInv, Phases

\* The inputs of a composition become the first of a pool.
LEMMA StartPoolKeeps == ASSUME IssuanceInv, StartPool PROVE IssuanceInv'
<1>1. Started /\ cases \in Seq(Input) /\ suite = <<>>
  BY DEF IssuanceInv, Phases, StartPool
<1>2. IsComposition(task)
  BY <1>1, IssuableParameters DEF Started, StartPool
<1>3. pool' \in Pools
  BY <1>1, StartedPool DEF StartPool
<1>4. draws' \in 0 .. ExtraDrawLimit
  BY DEF StartPool, ExtraDrawLimit
<1>5. pc' = "pool" /\ UNCHANGED <<request, answer, expires, task, stream, suite>>
  BY DEF StartPool
<1> QED
  BY <1>1, <1>2, <1>3, <1>4, <1>5 DEF IssuanceInv, Phases, Started, Dated

\* One input more is drawn for it.
LEMMA ExtraDrawKeeps == ASSUME IssuanceInv, ExtraDraw PROVE IssuanceInv'
<1> DEFINE limit == ExtraDrawLimit
<1>1. /\ Started /\ IsComposition(task) /\ suite = <<>> /\ stream \in Streams
      /\ pool \in Pools /\ draws \in 0 .. limit /\ pc = "pool"
  BY DEF IssuanceInv, Phases, ExtraDraw
<1>2. /\ draws # limit /\ pool' = InsertUnique(pool, ExtraInput(draws)) /\ draws' = draws + 1
      /\ UNCHANGED <<pc, request, answer, expires, task, stream, suite>>
  BY DEF ExtraDraw, PoolFull, vars
<1>3. limit \in Nat
  BY DEF ExtraDrawLimit
<1>4. draws \in 0 .. limit - 1 /\ draws' \in 0 .. limit
  <2> HIDE DEF limit
  <2> QED
    BY <1>1, <1>2, <1>3
<1>5. ExtraInput(draws) \in Input
  BY <1>1, <1>4, ExtraInputIsInput DEF DrawIndices, Started
<1>6. pool' \in Pools
  BY <1>1, <1>2, <1>5, InsertKeepsPool
<1> QED
  BY <1>1, <1>2, <1>4, <1>6 DEF IssuanceInv, Phases, Started, Dated

\* The search leaves 24 inputs of the pool.
LEMMA ScreenKeeps == ASSUME IssuanceInv, Screen PROVE IssuanceInv'
<1>1. Started /\ IsComposition(task) /\ pool \in Pools
  BY DEF IssuanceInv, Phases, Screen
<1>2. PICK picked \in Selections(Len(Others)) : cases' = Mandatory \o Keep(Others, picked)
  BY DEF Screen
<1>3. cases' \in Seq(Input) /\ Len(cases') = 24
  BY <1>1, <1>2, SuiteIsInputs
<1>4. suite' = cases' /\ pc' = "holdout" /\ UNCHANGED <<request, answer, expires, task, stream>>
  BY DEF Screen
<1> QED
  BY <1>1, <1>3, <1>4 DEF IssuanceInv, Phases, Started, Dated

\* A holdout is appended, and the eighth makes the cases complete.
LEMMA AppendHoldoutKeeps == ASSUME IssuanceInv, AppendHoldout PROVE IssuanceInv'
<1> DEFINE A == Input
           s == cases
           h == [k \in 1 .. HoldoutCaseCount |-> Holdout(k - 1)]
           q == s \o h
           t == Shuffled("all", 0, q)
<1>1. /\ Started /\ IsComposition(task) /\ suite = s /\ s \in Seq(A) /\ Len(s) = 24
      /\ stream \in Streams
  BY DEF IssuanceInv, Phases, AppendHoldout
<1>2. cases' = t /\ pc' = "judge" /\ UNCHANGED <<request, answer, expires, task, stream, suite>>
  BY DEF AppendHoldout, screening
<1>3. ASSUME NEW k \in 1 .. 8
      PROVE  /\ h[k] \in A /\ IsMixed(task, h[k])
             /\ Len(h[k]) \in LengthStrata[k][1] .. LengthStrata[k][2]
  <2>1. HoldoutCaseCount = 8
    BY DEF HoldoutCaseCount, LengthStrata
  <2>2. h[k] = Holdout(k - 1)
    BY <2>1
  <2>3. k - 1 \in 0 .. 7 /\ (k - 1) + 1 = k
    OBVIOUS
  <2> QED
    BY <1>1, <2>2, <2>3, HoldoutMixes
<1>4. h \in Seq(A) /\ Len(h) = 8
  <2>1. h = [k \in 1 .. 8 |-> h[k]]
    BY DEF HoldoutCaseCount, LengthStrata
  <2>2. 8 \in Nat
    OBVIOUS
  <2> HIDE DEF h, A
  <2> QED
    BY <1>3, <2>1, <2>2, SequenceOf
<1> HIDE DEF A, s, h
<1>5. /\ q \in Seq(A) /\ Len(q) = 32
      /\ \A k \in 1 .. 24 : k \in 1 .. 32 /\ q[k] = s[k]
      /\ \A k \in 1 .. 8 : 24 + k \in 1 .. 32 /\ q[24 + k] = h[k]
  <2>1. s \in Seq(A) /\ h \in Seq(A) /\ Len(s) = 24 /\ Len(h) = 8
    BY <1>1, <1>4
  <2>2. /\ q \in Seq(A) /\ Len(q) = Len(s) + Len(h)
        /\ \A k \in 1 .. Len(s) : q[k] = s[k]
        /\ \A k \in 1 .. Len(h) : q[Len(s) + k] = h[k]
    <3>1. s \in Seq(A) /\ h \in Seq(A)
      BY <2>1
    <3> QED
      BY <3>1, Joined
  <2> HIDE DEF q
  <2> QED
    BY <2>1, <2>2
<1> HIDE DEF q
<1>6. Rearranges(q, t)
  <2>1. \A i \in 2 .. Len(q) : Between("all", 0, i, 1, i) \in 1 .. i
    <3> DEFINE n == 32
               zero == 0
    <3>1. "all" \in DOMAIN HoldoutDrawnFrom /\ 2 .. n \subseteq HoldoutDrawnFrom["all"]
      BY HoldoutDraws
    <3>2. n \in 0 .. 64 /\ zero \in 0 .. 7
      OBVIOUS
    <3>3. \A i \in 2 .. n : Between("all", zero, i, 1, i) \in 1 .. i
      <4> HIDE DEF n, zero
      <4> QED
        BY <1>1, <3>1, <3>2, HoldoutShuffle
    <3> QED
      BY <1>5, <3>3
  <2> QED
    BY <1>5, <2>1, ShuffledRearranges
<1> HIDE DEF t
<1> DEFINE n == Len(q)
<1> HIDE DEF n
<1>7. PICK p \in [1 .. n -> 1 .. n] :
         /\ \A j \in 1 .. n : \E i \in 1 .. n : p[i] = j
         /\ t = [i \in 1 .. n |-> q[p[i]]]
  BY <1>6 DEF Rearranges, n
<1>8. t \in Seq(A) /\ Len(t) = 32
  <2>1. q \in Seq(A) /\ Len(q) = 32
    BY <1>5
  <2> QED
    BY <1>6, <2>1, RearrangedKeeps
<1>9. \A j \in 1 .. 32 : \E i \in 1 .. 32 : p[i] = j /\ t[i] = q[j]
  <2>1. n = 32
    BY <1>5 DEF n
  <2>2. \A j \in 1 .. n : \E i \in 1 .. n : p[i] = j /\ t[i] = q[j]
    BY <1>7
  <2> QED
    BY <2>1, <2>2
<1>10. \A k \in 1 .. 24 : \E i \in 1 .. 32 : t[i] = s[k]
  <2> TAKE k \in 1 .. 24
  <2>1. PICK i \in 1 .. 32 : t[i] = q[k]
    BY <1>5, <1>9
  <2> QED
    BY <1>5, <2>1
<1>11. \A k \in 1 .. 8 : \E i \in 1 .. 32 : p[i] = 24 + k /\ t[i] = h[k]
  <2> TAKE k \in 1 .. 8
  <2>1. PICK i \in 1 .. 32 : p[i] = 24 + k /\ t[i] = q[24 + k]
    BY <1>5, <1>9
  <2> QED
    BY <1>5, <2>1
<1>12. \A k \in 1 .. 8 : \E i \in 1 .. 32 :
           IsMixed(task, t[i]) /\ Len(t[i]) \in LengthStrata[k][1] .. LengthStrata[k][2]
  <2> TAKE k \in 1 .. 8
  <2>1. PICK i \in 1 .. 32 : t[i] = h[k]
    BY <1>11
  <2> QED
    BY <1>3, <2>1
<1>13. \E i, j \in 1 .. 32 :
          /\ i # j
          /\ Len(t[i]) \in 64 .. 64 /\ IsMixed(task, t[i])
          /\ Len(t[j]) \in 64 .. 64 /\ IsMixed(task, t[j])
  <2>1. 7 \in 1 .. 8 /\ 8 \in 1 .. 8
    OBVIOUS
  <2>2. PICK i \in 1 .. 32 : p[i] = 24 + 7 /\ t[i] = h[7]
    BY <1>11, <2>1
  <2>3. PICK j \in 1 .. 32 : p[j] = 24 + 8 /\ t[j] = h[8]
    BY <1>11, <2>1
  <2>4. /\ LengthStrata[7][1] = 64 /\ LengthStrata[7][2] = 64
        /\ LengthStrata[8][1] = 64 /\ LengthStrata[8][2] = 64
    BY DEF LengthStrata
  <2>5. Len(t[i]) \in 64 .. 64 /\ IsMixed(task, t[i])
    BY <1>3, <2>1, <2>2, <2>4
  <2>6. Len(t[j]) \in 64 .. 64 /\ IsMixed(task, t[j])
    BY <1>3, <2>1, <2>3, <2>4
  <2>7. i # j
    BY <2>2, <2>3
  <2> QED
    BY <2>5, <2>6, <2>7
<1>15. SuiteKept'
  <2>1. cases' = t /\ suite' = s /\ Len(t) = 32 /\ task' = task
    BY <1>1, <1>2, <1>8
  <2>2. \A k \in 1 .. 24 : Contains(cases', suite'[k])
    BY <1>10, <2>1 DEF Contains
  <2>3. \A k \in 1 .. 8 : \E i \in 1 .. Len(cases') :
            Len(cases'[i]) \in LengthStrata[k][1] .. LengthStrata[k][2] /\ IsMixed(task', cases'[i])
    BY <1>12, <2>1
  <2>4. \E i, j \in 1 .. Len(cases') :
          /\ i # j
          /\ Len(cases'[i]) \in 64 .. 64 /\ IsMixed(task', cases'[i])
          /\ Len(cases'[j]) \in 64 .. 64 /\ IsMixed(task', cases'[j])
    BY <1>13, <2>1
  <2> QED
    BY <2>2, <2>3, <2>4 DEF SuiteKept
<1> QED
  BY <1>1, <1>2, <1>8, <1>15 DEF IssuanceInv, Phases, Started, Dated, A

\* A stuttering step changes nothing.
LEMMA IssuanceStutters ==
    ASSUME IssuanceInv, UNCHANGED allVars PROVE IssuanceInv'
<1>1. UNCHANGED <<pc, request, answer, expires, task, stream, cases, expected, pool, draws, suite>>
  BY DEF allVars, vars, screening
<1>2. \A c : Expected(c)' = Expected(c)
  BY <1>1 DEF Expected
<1>3. (expected = [k \in 1 .. 32 |-> Expected(cases[k])])'
      <=> expected = [k \in 1 .. 32 |-> Expected(cases[k])]
  BY <1>1, <1>2, Zenon
<1> QED
  BY <1>1, <1>3 DEF IssuanceInv, Phases, Started, Dated, Issued, SuiteKept

\* Every challenge that is issued was put together within the contract.
THEOREM IssuanceInvariant == ScreenedSpec => []IssuanceInv
<1>1. ScreenedInit => IssuanceInv
  BY IssuanceStarts
<1>2. IssuanceInv /\ [ScreenedNext]_allVars => IssuanceInv'
  <2> SUFFICES ASSUME IssuanceInv, [ScreenedNext]_allVars PROVE IssuanceInv'
    OBVIOUS
  <2>1. CASE ValidateRequest /\ UNCHANGED screening
    BY <2>1, ValidateRequestKeeps DEF screening
  <2>2. CASE NoRandomness /\ UNCHANGED screening
    BY <2>2, FailKeeps DEF NoRandomness
  <2>3. CASE Generate /\ UNCHANGED screening
    BY <2>3, GenerateKeeps DEF screening
  <2>4. CASE FixedCases /\ UNCHANGED screening
    BY <2>4, FixedCasesKeeps DEF screening
  <2>5. CASE RandomCase /\ UNCHANGED screening
    BY <2>5, RandomCaseKeeps DEF screening
  <2>6. CASE Shuffle /\ UNCHANGED screening
    BY <2>6, ShuffleKeeps DEF screening
  <2>7. CASE Judge /\ UNCHANGED screening
    BY <2>7, JudgeKeeps DEF screening
  <2>8. CASE NoCandidateLeft
    BY <2>8, FailKeeps DEF NoCandidateLeft
  <2>9. CASE Screen
    BY <2>9, ScreenKeeps
  <2>10. CASE AppendHoldout
    BY <2>10, AppendHoldoutKeeps
  <2>11. CASE UNCHANGED allVars
    BY <2>11, IssuanceStutters
  <2>12. CASE StartPool
    BY <2>12, StartPoolKeeps
  <2>13. CASE ExtraDraw
    BY <2>13, ExtraDrawKeeps
  <2> QED
    BY <2>1, <2>2, <2>3, <2>4, <2>5, <2>6, <2>7, <2>8, <2>9, <2>10, <2>11, <2>12, <2>13
       DEF ScreenedNext, Next
<1> QED
  BY <1>1, <1>2, PTL DEF ScreenedSpec

\* What the invariant says of a challenge that was issued.
LEMMA WhenIssued ==
    ASSUME IssuanceInv, Issued
    PROVE  /\ request \in Requests /\ Dated /\ Issuable(task)
           /\ cases \in Seq(Input) /\ Len(cases) = 32
           /\ expected = [k \in 1 .. 32 |-> Expected(cases[k])]
           /\ suite = <<>> \/ SuiteKept
<1>1. answer # None
  BY IssuanceAssumption DEF Issued
<1> QED
  BY <1>1 DEF IssuanceInv, Phases, Started, Issued

\* design.md "Wire framing": whatever is drawn, a challenge fits the request, its
\* inputs keep the promise of the prompt, and it expires after it was issued.
THEOREM FitsTheRequestHolds == ScreenedSpec => []FitsTheRequest
<1>1. IssuanceInv => FitsTheRequest
  <2> SUFFICES ASSUME IssuanceInv, Issued
               PROVE  /\ Len(cases) = HiddenTestCount /\ Len(expected) = HiddenTestCount
                      /\ \A i \in 1 .. Len(cases) :
                            /\ Len(cases[i]) <= MaxInputLen
                            /\ \A k \in 1 .. Len(cases[i]) :
                                  cases[i][k] \in -MaxInputAbs .. MaxInputAbs
                      /\ expires > request.now
    BY DEF FitsTheRequest
  <2>1. /\ request \in Requests /\ Dated /\ cases \in Seq(Input) /\ Len(cases) = 32
        /\ expected = [k \in 1 .. 32 |-> Expected(cases[k])]
    BY WhenIssued
  <2>2. ASSUME NEW i \in 1 .. Len(cases)
        PROVE  /\ Len(cases[i]) <= MaxInputLen
               /\ \A k \in 1 .. Len(cases[i]) : cases[i][k] \in -MaxInputAbs .. MaxInputAbs
    <3> DEFINE c == cases[i]
    <3>1. c \in Input
      BY <2>1, SequenceValues
    <3> HIDE DEF c
    <3>2. c \in Seq(Value) /\ Len(c) <= MaxInputLen
      BY <3>1 DEF Input
    <3>3. \A k \in 1 .. Len(c) : c[k] \in Value
      BY <3>2, SequenceValues
    <3> QED
      BY <3>2, <3>3 DEF c, Value
  <2>3. Len(expected) = 32
    <3> DEFINE e(k) == Expected(cases[k])
    <3> HIDE DEF e
    <3>1. expected = [k \in 1 .. 32 |-> e(k)]
      BY <2>1 DEF e
    <3> QED
      BY <3>1
  <2>4. expires > request.now
    <3> DEFINE now == request.now
    <3>1. now \in 0 .. MaxTime
      BY <2>1, IssuanceAssumption
    <3>2. expires = now + 180
      BY <2>1 DEF Dated, ChallengeTtl
    <3> HIDE DEF now
    <3>3. now \in Int
      BY <3>1
    <3>4. expires > now
      BY <3>2, <3>3
    <3> QED
      BY <3>4 DEF now
  <2> QED
    BY <2>1, <2>2, <2>3, <2>4 DEF HiddenTestCount
<1> QED
  BY <1>1, IssuanceInvariant, PTL

\* A solver that follows the prompt is judged right on every hidden input, for
\* every task and composition that can be drawn and whatever the inputs are.
THEOREM PromptIsKeptHolds == ScreenedSpec => []PromptIsKept
<1>1. IssuanceInv => PromptIsKept
  <2> SUFFICES ASSUME IssuanceInv, Issued, NEW i \in 1 .. Len(cases)
               PROVE  IF task.kind = "composition" THEN IsComposed(task, cases[i], expected[i])
                                                   ELSE IsAnswer(task, cases[i], expected[i])
    BY DEF PromptIsKept
  <2>1. /\ Issuable(task) /\ cases \in Seq(Input) /\ Len(cases) = 32
        /\ expected = [k \in 1 .. 32 |-> Expected(cases[k])]
    BY WhenIssued
  <2>2. cases[i] \in Seq(Int)
    <3>1. cases[i] \in Input
      BY <2>1, SequenceValues
    <3> QED
      BY <3>1, InputIsIntegers
  <2>3. expected[i] = Expected(cases[i])
    <3> DEFINE e(k) == Expected(cases[k])
    <3> HIDE DEF e
    <3>1. expected = [k \in 1 .. 32 |-> e(k)] /\ i \in 1 .. 32
      BY <2>1 DEF e
    <3>2. expected[i] = e(i)
      BY <3>1
    <3> QED
      BY <3>2 DEF e
  <2>4. CASE task.kind = "composition"
    <3>1. IsComposition(task)
      BY <2>1, <2>4, IssuableParameters
    <3>2. IsComposed(task, cases[i], Composed(task, cases[i]))
      BY <2>2, <3>1, ComposedIsDescribed
    <3> QED
      BY <2>3, <2>4, <3>2 DEF Expected
  <2>5. CASE task.kind # "composition"
    <3>1. task \in Task
      BY <2>1, <2>5, IssuableParameters
    <3>2. IsAnswer(task, cases[i], Evaluate(task, cases[i]))
      BY <2>2, <3>1, EvaluateIsAnswer
    <3> QED
      BY <2>3, <2>5, <3>2 DEF Expected
  <2> QED
    BY <2>4, <2>5
<1> QED
  BY <1>1, IssuanceInvariant, PTL

\* screening.rs:239 "Long inputs contain every category": whatever is drawn,
\* repeated, sorted and shuffled, a screened challenge has the whole suite of the
\* search and, in each band of length, an input that mixes the scales.
THEOREM HoldoutsAreMixedHolds == ScreenedSpec => []HoldoutsAreMixed
<1>1. IssuanceInv => HoldoutsAreMixed
  <2> DEFINE withLength(band) ==
                {i \in 1 .. Len(cases) : Len(cases[i]) \in band[1] .. band[2] /\ IsMixed(task, cases[i])}
             full == withLength(<<64, 64>>)
  <2> SUFFICES ASSUME IssuanceInv, Issued, suite # <<>>
               PROVE  /\ \A k \in 1 .. SearchCases : Contains(cases, suite[k])
                      /\ \A k \in 1 .. HoldoutCaseCount : withLength(LengthStrata[k]) # {}
                      /\ Cardinality(full) >= 2
    BY DEF HoldoutsAreMixed
  <2>1. SuiteKept /\ Len(cases) = 32
    BY WhenIssued
  <2>2. SearchCases = 24 /\ HoldoutCaseCount = 8
    BY DEF SearchCases, HoldoutCaseCount, LengthStrata
  <2>3. \A k \in 1 .. SearchCases : Contains(cases, suite[k])
    BY <2>1, <2>2 DEF SuiteKept
  <2>4. \A k \in 1 .. HoldoutCaseCount : withLength(LengthStrata[k]) # {}
    <3> TAKE k \in 1 .. HoldoutCaseCount
    <3>1. \E i \in 1 .. Len(cases) :
             Len(cases[i]) \in LengthStrata[k][1] .. LengthStrata[k][2] /\ IsMixed(task, cases[i])
      BY <2>1, <2>2 DEF SuiteKept
    <3> QED
      BY <3>1, Zenon
  <2>5. Cardinality(full) >= 2
    <3>1. PICK i, j \in 1 .. Len(cases) :
             /\ i # j
             /\ Len(cases[i]) \in 64 .. 64 /\ IsMixed(task, cases[i])
             /\ Len(cases[j]) \in 64 .. 64 /\ IsMixed(task, cases[j])
      BY <2>1 DEF SuiteKept
    <3>2. {i, j} \subseteq full
      BY <3>1
    <3>3. full \subseteq 1 .. 32
      BY <2>1
    <3> HIDE DEF full
    <3>4. IsFiniteSet(full)
      <4>1. 32 \in Nat
        OBVIOUS
      <4> QED
        BY <3>3, <4>1, UpToCardinality, FS_Subset
    <3>5. Cardinality({i, j}) <= Cardinality(full) /\ Cardinality(full) \in Nat
      BY <3>2, <3>4, FS_Subset, FS_CardinalityType
    <3>6. Cardinality({i, j}) = 2
      <4>1. IsFiniteSet({i}) /\ Cardinality({i}) = 1
        BY FS_Singleton
      <4>2. {i, j} = {i} \union {j} /\ j \notin {i}
        BY <3>1
      <4> QED
        BY <4>1, <4>2, FS_AddElement
    <3> QED
      BY <3>5, <3>6
  <2> QED
    BY <2>3, <2>4, <2>5
<1> QED
  BY <1>1, IssuanceInvariant, PTL

-----------------------------------------------------------------------------
\* The bounds of an input of a challenge.
LEMMA InputBounds ==
    ASSUME NEW c \in Input
    PROVE  Within(c, MaxInputLen, MaxInputAbs)
<1>1. c \in Seq(Int)
  BY InputIsIntegers
<1>2. c \in Seq(Value) /\ Len(c) <= MaxInputLen
  BY DEF Input
<1>3. \A k \in 1 .. Len(c) : c[k] \in Value
  BY <1>2, SequenceValues, Zenon
<1> QED
  BY <1>1, <1>2, <1>3, Zenon DEF Within, Value

\* The limits by name: as numerals they are out of Zenon's reach.
TaskLimit == 2000000
CompositionLimit == 155589696

LEMMA ExactIsWithin ==
    ASSUME NEW x
    PROVE  LET limit == IF task.kind = "composition" THEN CompositionLimit ELSE TaskLimit
           IN  Exact(x) <=> x \in -limit .. limit
  BY SMT DEF Exact, CompositionLimit, TaskLimit

\* What a task can reach.
LEMMA TaskReaches ==
    /\ MaxInputLen \in Nat /\ MaxInputAbs \in Nat /\ 7 <= MaxInputLen /\ MaxInputLen <= MaxInputAbs
    /\ TaskLimit \in Nat /\ MaxInputLen * (3 * MaxInputAbs + 9) <= TaskLimit
  BY SMT DEF MaxInputLen, MaxInputAbs, TaskLimit

\* What each transformation of a composition can reach.
Reached == [i \in 0 .. 5 |-> <<10000, 30009, 90036, 270117, 810360, 2431089>>[i + 1]]

LEMMA CompositionReaches ==
    /\ Reached \in [0 .. 5 -> Nat] /\ Reached[0] = MaxInputAbs
    /\ \A i \in 1 .. 5 : 3 * Reached[i - 1] + 9 <= Reached[i]
    /\ Reached[5] \in Nat /\ Reached[5] <= CompositionLimit
    /\ CompositionLimit \in Nat /\ MaxInputLen * Reached[5] = CompositionLimit
<1>1. /\ Reached[0] = 10000 /\ Reached[1] = 30009 /\ Reached[2] = 90036
      /\ Reached[3] = 270117 /\ Reached[4] = 810360 /\ Reached[5] = 2431089
  BY SMT DEF Reached
<1>2. \A i \in 0 .. 5 : i \in {0, 1, 2, 3, 4, 5}
  BY SMT
<1>3. Reached = [i \in 0 .. 5 |-> Reached[i]]
  BY SMT DEF Reached
<1>4. \A i \in 0 .. 5 : Reached[i] \in Nat
  BY <1>1, <1>2, SMT
<1>5. Reached \in [0 .. 5 -> Nat]
  BY <1>3, <1>4, SMT
<1>6. \A i \in 1 .. 5 : 3 * Reached[i - 1] + 9 <= Reached[i]
  <2>1. \A i \in 1 .. 5 : i \in {1, 2, 3, 4, 5}
    BY SMT
  <2> QED
    BY <1>1, <2>1, SMT
<1>7. MaxInputAbs = 10000 /\ MaxInputLen = 64 /\ CompositionLimit = 155589696
  BY SMT DEF MaxInputAbs, MaxInputLen, CompositionLimit
<1> QED
  BY <1>1, <1>5, <1>6, <1>7, SMT

\* design.md "Outputs remain exactly representable": whatever is drawn, no hidden
\* case makes a right program produce more than 64 values, or a number further
\* from zero than two millions, or than 155589696 for a composition.
THEOREM OutputsAreExactHolds == ScreenedSpec => []OutputsAreExact
<1>1. IssuanceInv => OutputsAreExact
  <2> DEFINE limit == IF task.kind = "composition" THEN CompositionLimit ELSE TaskLimit
  <2>1. ASSUME IssuanceInv, Issued, NEW i \in 1 .. Len(cases)
        PROVE  IF YieldsNumber THEN Exact(expected[i])
               ELSE /\ Len(expected[i]) <= MaxInputLen
                    /\ \A k \in 1 .. Len(expected[i]) : Exact(expected[i][k])
    <3> DEFINE m == MaxInputLen
               r == expected[i]
    <3>1. /\ Issuable(task) /\ cases \in Seq(Input) /\ Len(cases) = 32
          /\ expected = [k \in 1 .. 32 |-> Expected(cases[k])]
      BY <2>1, WhenIssued
    <3>2. Within(cases[i], m, MaxInputAbs)
      <4>1. cases[i] \in Input
        BY <3>1, SequenceValues
      <4> QED
        BY <4>1, InputBounds
    <3>3. r = Expected(cases[i])
      <4> DEFINE x(k) == Expected(cases[k])
      <4> HIDE DEF x
      <4>1. expected = [k \in 1 .. 32 |-> x(k)] /\ i \in 1 .. 32
        BY <3>1 DEF x
      <4>2. expected[i] = x(i)
        BY <4>1
      <4> QED
        BY <4>2 DEF x
    <3>6. \A x : Exact(x) <=> x \in -limit .. limit
      BY ExactIsWithin
    <3> HIDE DEF limit, m, r
    <3>4. CASE task.kind = "composition"
      <4> DEFINE b == Reached[5]
      <4>1. IsComposition(task)
        BY <3>1, <3>4, IssuableParameters
      <4>2. /\ m \in Nat /\ b \in Nat /\ b <= limit /\ m * b = limit
        BY <3>4, TaskReaches, CompositionReaches, SMT DEF limit, m
      <4>3. Within(cases[i], m, Reached[0])
        BY <3>2, CompositionReaches, Zenon
      <4>4. IF task.sum THEN Composed(task, cases[i]) \in -(m * b) .. m * b
                        ELSE Within(Composed(task, cases[i]), m, b)
        BY <4>1, <4>2, <4>3, CompositionReaches, ComposedIsWithin
      <4>5. r = Composed(task, cases[i]) /\ YieldsNumber = task.sum
        BY <3>3, <3>4 DEF Expected, YieldsNumber
      <4> HIDE DEF b
      <4>6. IF YieldsNumber THEN r \in -limit .. limit ELSE Within(r, m, b)
        BY <4>2, <4>4, <4>5, Zenon
      <4>7. Within(r, m, b) => Within(r, m, limit)
        <5>1. m <= m /\ limit \in Nat
          BY <4>2
        <5> QED
          BY <4>2, <5>1, WiderIsWithin
      <4> QED
        BY <4>6, <4>7, <3>6, Zenon DEF Within, m, r
    <3>5. CASE task.kind # "composition"
      <4>1. task \in Task
        BY <3>1, <3>5, IssuableParameters
      <4>2. limit \in Nat /\ m * (3 * MaxInputAbs + 9) <= limit
        BY <3>5, TaskReaches, SMT DEF limit, m
      <4>3. m \in Nat /\ MaxInputAbs \in Nat /\ 7 <= m /\ m <= MaxInputAbs
        BY TaskReaches DEF m
      <4>4. IF task.kind = "filter_sum" THEN Evaluate(task, cases[i]) \in -limit .. limit
                                        ELSE Within(Evaluate(task, cases[i]), m, limit)
        BY <3>2, <4>1, <4>2, <4>3, EvaluateIsWithin
      <4>5. r = Evaluate(task, cases[i]) /\ YieldsNumber = (task.kind = "filter_sum")
        BY <3>3, <3>5 DEF Expected, YieldsNumber
      <4>6. IF YieldsNumber THEN r \in -limit .. limit ELSE Within(r, m, limit)
        BY <4>4, <4>5, Zenon
      <4> QED
        BY <4>6, <3>6, Zenon DEF Within, m, r
    <3> QED
      BY <3>4, <3>5
  <2>2. ASSUME IssuanceInv, Issued PROVE Len(expected) = Len(cases)
    <3> DEFINE x(k) == Expected(cases[k])
    <3>1. Len(cases) = 32 /\ expected = [k \in 1 .. 32 |-> x(k)]
      BY <2>2, WhenIssued
    <3> HIDE DEF x
    <3> QED
      BY <3>1
  <2>3. ASSUME IssuanceInv, Issued
        PROVE  \A i \in 1 .. Len(expected) :
                  IF YieldsNumber THEN Exact(expected[i])
                  ELSE /\ Len(expected[i]) <= MaxInputLen
                       /\ \A k \in 1 .. Len(expected[i]) : Exact(expected[i][k])
    BY <2>1, <2>2, <2>3, Zenon
  <2> QED
    BY <2>3, Zenon DEF OutputsAreExact
<1> QED
  BY <1>1, IssuanceInvariant, PTL

-----------------------------------------------------------------------------
\* The tasks a mistaken solver solves: a bound one higher, the other order, a
\* limit or width one larger.
Stricter(t) == [t EXCEPT !.threshold = @ + 1]
OtherWay(t) == [t EXCEPT !.reverse = ~@]
Wider(t) == [t EXCEPT !.width = @ + 1]

\* A task that transforms as t does, with any order, threshold and width.
Resembles(u, t) ==
    /\ u.multiplier = t.multiplier /\ u.offset = t.offset /\ u.kind = t.kind
    /\ u.threshold \in Int /\ u.width \in Nat \ {0} /\ u.reverse \in BOOLEAN

\* The parameters of the task itself, and of the mistaken ones, which need not
\* be tasks that can be drawn.
LEMMA MistakenTasks ==
    ASSUME NEW t \in Task
    PROVE  /\ t.multiplier \in -3 .. 3 /\ t.multiplier # 0 /\ t.offset \in Int
           /\ t.threshold \in -20 .. 20 /\ t.width \in 1 .. 6
           /\ Resembles(t, t)
           /\ /\ Resembles(Stricter(t), t)
              /\ Stricter(t).threshold = t.threshold + 1
              /\ Stricter(t).width = t.width /\ Stricter(t).reverse = t.reverse
           /\ /\ Resembles(OtherWay(t), t) /\ OtherWay(t) \in Task
              /\ OtherWay(t).threshold = t.threshold
              /\ OtherWay(t).width = t.width /\ OtherWay(t).reverse = ~t.reverse
           /\ /\ Resembles(Wider(t), t)
              /\ Wider(t).threshold = t.threshold
              /\ Wider(t).width = t.width + 1 /\ Wider(t).reverse = t.reverse
<1> DEFINE R == [kind : Families, modulus : 2 .. 7, residue : 0 .. 6,
                 multiplier : {-3, -2, -1, 1, 2, 3}, offset : -9 .. 9,
                 threshold : -20 .. 20, width : 1 .. 6, reverse : BOOLEAN]
<1>1. t \in R /\ t.residue < t.modulus
  BY DEF Task
<1>2. /\ t.multiplier \in {-3, -2, -1, 1, 2, 3} /\ t.offset \in -9 .. 9
      /\ t.threshold \in -20 .. 20 /\ t.width \in 1 .. 6 /\ t.reverse \in BOOLEAN
  BY <1>1
<1>3. /\ t.multiplier \in -3 .. 3 /\ t.multiplier # 0 /\ t.offset \in Int
      /\ t.threshold \in Int /\ t.width \in Nat \ {0}
      /\ t.threshold + 1 \in Int /\ t.width + 1 \in Nat \ {0}
  BY <1>2
<1>4. /\ Stricter(t).kind = t.kind /\ Stricter(t).multiplier = t.multiplier
      /\ Stricter(t).offset = t.offset /\ Stricter(t).threshold = t.threshold + 1
      /\ Stricter(t).width = t.width /\ Stricter(t).reverse = t.reverse
  BY <1>1 DEF Stricter
<1>5. /\ OtherWay(t) \in R /\ OtherWay(t).kind = t.kind /\ OtherWay(t).multiplier = t.multiplier
      /\ OtherWay(t).offset = t.offset /\ OtherWay(t).threshold = t.threshold
      /\ OtherWay(t).width = t.width /\ OtherWay(t).reverse = ~t.reverse
      /\ OtherWay(t).residue = t.residue /\ OtherWay(t).modulus = t.modulus
  BY <1>1 DEF OtherWay
<1>6. /\ Wider(t).kind = t.kind /\ Wider(t).multiplier = t.multiplier
      /\ Wider(t).offset = t.offset /\ Wider(t).threshold = t.threshold
      /\ Wider(t).width = t.width + 1 /\ Wider(t).reverse = t.reverse
  BY <1>1 DEF Wider
<1>7. OtherWay(t) \in Task
  BY <1>1, <1>5 DEF Task
<1>8. Resembles(t, t) /\ Resembles(Stricter(t), t) /\ Resembles(Wider(t), t)
  BY <1>2, <1>3, <1>4, <1>6 DEF Resembles
<1>9. Resembles(OtherWay(t), t)
  <2>1. OtherWay(t).reverse \in BOOLEAN
    BY <1>5
  <2> QED
    BY <1>3, <1>5, <2>1, Zenon DEF Resembles
<1> QED
  BY <1>2, <1>3, <1>4, <1>5, <1>6, <1>7, <1>8, <1>9

\* They transform alike.
LEMMA TransformsAlike ==
    ASSUME NEW t \in Task, NEW u, Resembles(u, t)
    PROVE  \A s : TransformAll(u, s) = TransformAll(t, s)
<1>1. \A x : Transform(u, x) = Transform(t, x)
  BY DEF Transform, Resembles
<1> QED
  BY <1>1, Zenon DEF TransformAll

\* Different values are transformed to different values.
LEMMA TransformIsInjective ==
    ASSUME NEW t \in Task, NEW x \in Int, NEW y \in Int, x # y
    PROVE  Transform(t, x) # Transform(t, y)
<1> DEFINE m == t.multiplier
           b == t.offset
<1>1. m \in {-3, -2, -1, 1, 2, 3} /\ b \in Int
  BY DEF Task
<1>2. Transform(t, x) = m * x + b /\ Transform(t, y) = m * y + b
  BY DEF Transform
<1> HIDE DEF m, b
<1> QED
  BY <1>1, <1>2

\* A value repeated, as a sequence.
LEMMA ConstantlyDef ==
    ASSUME NEW x \in Int, NEW n \in Nat
    PROVE  /\ Constantly(x, n) \in Seq(Int) /\ Len(Constantly(x, n)) = n
           /\ \A k \in 1 .. n : Constantly(x, n)[k] = x
  BY DEF Constantly

\* What sort_limit sorts, and how much of it is left.
LEMMA SortLimitDef ==
    ASSUME NEW t \in Task, NEW u, Resembles(u, t), NEW c \in Seq(Int)
    PROVE  LET S == {k \in 1 .. Len(c) : c[k] >= u.threshold}
               kept == TransformAll(t, Keep(c, S))
               sorted == Sorted(kept, u.reverse)
           IN  /\ Positions(S, Len(c))
               /\ kept \in Seq(Int) /\ Len(kept) = Cardinality(S)
               /\ SortLimit(u, c) = SubSeq(sorted, 1, LesserOf(u.width, Cardinality(S)))
               /\ Len(SortLimit(u, c)) = LesserOf(u.width, Cardinality(S))
<1> DEFINE S == {k \in 1 .. Len(c) : c[k] >= u.threshold}
           kept == TransformAll(t, Keep(c, S))
           sorted == Sorted(kept, u.reverse)
           m == LesserOf(u.width, Cardinality(S))
<1>1. Positions(S, Len(c))
  BY DEF Positions
<1>2. kept \in Seq(Int) /\ Len(kept) = Cardinality(S)
  <2> HIDE DEF S
  <2> QED
    BY <1>1, TransformedLists
<1>3. u.width \in Nat /\ u.reverse \in BOOLEAN
  BY DEF Resembles
<1>4. Cardinality(S) \in Nat
  <2> HIDE DEF S
  <2> QED
    BY <1>1, RankOf
<1>5. Filter(c, LAMBDA x : x >= u.threshold) = Keep(c, S)
  BY Zenon DEF Filter
<1>6. TransformAll(u, Keep(c, S)) = kept
  BY TransformsAlike
<1> HIDE DEF S, kept
<1>7. sorted \in Seq(Int) /\ Len(sorted) = Cardinality(S)
  BY <1>2, <1>3, SortedInOrder
<1>8. SortLimit(u, c) = SubSeq(sorted, 1, m)
  BY <1>5, <1>6, <1>7, Zenon DEF SortLimit
<1> HIDE DEF sorted
<1>9. m \in 0 .. Len(sorted)
  BY <1>3, <1>4, <1>7 DEF LesserOf
<1>10. Len(SubSeq(sorted, 1, m)) = m
  <2> HIDE DEF m
  <2> QED
    BY <1>7, <1>9, PrefixOf
<1> QED
  BY <1>1, <1>2, <1>8, <1>10 DEF S, kept, sorted

\* As many values at the threshold as the limit or the width says.
AtThreshold(t) == Constantly(t.threshold, t.width)

\* sort_limit: a strict bound leaves none of them.
LEMMA SortLimitStricter ==
    ASSUME NEW t \in Task
    PROVE  SortLimit(Stricter(t), AtThreshold(t)) # SortLimit(t, AtThreshold(t))
<1> DEFINE c == AtThreshold(t)
           w == t.width
           S == {k \in 1 .. Len(c) : c[k] >= t.threshold}
           R == {k \in 1 .. Len(c) : c[k] >= Stricter(t).threshold}
<1>1. /\ t.threshold \in Int /\ w \in Nat /\ w > 0 /\ Stricter(t).threshold = t.threshold + 1
      /\ Stricter(t).width = w /\ Resembles(t, t) /\ Resembles(Stricter(t), t)
  BY MistakenTasks
<1>2. c \in Seq(Int) /\ Len(c) = w /\ \A k \in 1 .. w : c[k] = t.threshold
  BY <1>1, ConstantlyDef DEF AtThreshold
<1>3. S = 1 .. w /\ R = {}
  <2> HIDE DEF c, w
  <2> QED
    BY <1>1, <1>2
<1> HIDE DEF c
<1>4. Len(SortLimit(t, c)) = LesserOf(w, Cardinality(S))
  BY <1>1, <1>2, SortLimitDef
<1>5. Len(SortLimit(Stricter(t), c)) = LesserOf(w, Cardinality(R))
  BY <1>1, <1>2, SortLimitDef
<1> HIDE DEF S, R, w
<1>6. Cardinality(S) = w /\ Cardinality(R) = 0
  BY <1>1, <1>3, UpToCardinality, FS_EmptySet
<1>7. Len(SortLimit(t, c)) = w /\ Len(SortLimit(Stricter(t), c)) = 0
  BY <1>1, <1>4, <1>5, <1>6 DEF LesserOf
<1> QED
  BY <1>1, <1>7 DEF c

\* sort_limit: a limit that is one too large leaves one more of 64 large values.
LEMMA SortLimitWider ==
    ASSUME NEW t \in Task
    PROVE  LET c == Constantly(MaxInputAbs, MaxInputLen)
           IN  SortLimit(Wider(t), c) # SortLimit(t, c)
<1> DEFINE c == Constantly(MaxInputAbs, MaxInputLen)
           w == t.width
           n == MaxInputLen
           S == {k \in 1 .. Len(c) : c[k] >= t.threshold}
<1>1. /\ t.threshold \in -20 .. 20 /\ w \in 1 .. 6 /\ Wider(t).threshold = t.threshold
      /\ Wider(t).width = w + 1 /\ Resembles(t, t) /\ Resembles(Wider(t), t)
  BY MistakenTasks
<1>2. n \in Nat /\ n > 6 /\ MaxInputAbs \in Int /\ MaxInputAbs >= t.threshold
  BY <1>1, SMT DEF MaxInputAbs, MaxInputLen
<1> HIDE DEF n
<1>3. c \in Seq(Int) /\ Len(c) = n /\ \A k \in 1 .. n : c[k] = MaxInputAbs
  BY <1>2, ConstantlyDef DEF n
<1> HIDE DEF c
<1>4. S = 1 .. n
  BY <1>2, <1>3
<1>5. Len(SortLimit(t, c)) = LesserOf(w, Cardinality(S))
  BY <1>1, <1>3, SortLimitDef
<1>6. Len(SortLimit(Wider(t), c)) = LesserOf(w + 1, Cardinality(S))
  <2> DEFINE u == Wider(t)
             R == {k \in 1 .. Len(c) : c[k] >= u.threshold}
  <2>1. R = S
    BY <1>1, Zenon
  <2>2. u.width = w + 1 /\ Resembles(u, t) /\ c \in Seq(Int)
    BY <1>1, <1>3, Zenon
  <2> HIDE DEF u, S, w
  <2>3. Len(SortLimit(u, c)) = LesserOf(u.width, Cardinality(R))
    BY <2>2, SortLimitDef
  <2> HIDE DEF R
  <2> QED
    BY <2>1, <2>2, <2>3 DEF u
<1> HIDE DEF S, w
<1>7. Cardinality(S) = n
  BY <1>2, <1>4, UpToCardinality
<1>8. Len(SortLimit(t, c)) = w /\ Len(SortLimit(Wider(t), c)) = w + 1
  BY <1>1, <1>2, <1>5, <1>6, <1>7 DEF LesserOf
<1> QED
  BY <1>1, <1>8 DEF c, n

\* A sorted sequence of one value or more begins with the least or the greatest.
LEMMA SortedBegins ==
    ASSUME NEW s \in Seq(Int), NEW descending \in BOOLEAN, NEW j \in 1 .. Len(s)
    PROVE  /\ Sorted(s, descending) \in Seq(Int) /\ Len(Sorted(s, descending)) = Len(s)
           /\ Sorted(s, descending)[1] \in Int
           /\ IF descending THEN Sorted(s, descending)[1] >= s[j] ELSE Sorted(s, descending)[1] <= s[j]
<1> DEFINE t == Sorted(s, descending)
<1>1. t \in Seq(Int) /\ Len(t) = Len(s) /\ InOrder(t, descending)
  BY SortedInOrder
<1>2. PICK i \in 1 .. Len(s) : t[i] = s[j]
  BY SortedHas
<1> HIDE DEF t
<1>3. Len(s) \in Nat /\ 1 \in 1 .. Len(t) /\ t[1] \in Int /\ t[i] \in Int /\ i \in 1 .. Len(t)
  BY <1>1
<1>4. i = 1 \/ 1 < i
  BY <1>1
<1>5. IF descending THEN t[1] >= t[i] ELSE t[1] <= t[i]
  <2>1. CASE i = 1
    BY <2>1, <1>3
  <2>2. CASE 1 < i
    BY <2>2, <1>1, <1>3, Zenon DEF InOrder
  <2> QED
    BY <1>4, <2>1, <2>2
<1> QED
  BY <1>1, <1>2, <1>3, <1>5 DEF t

\* sort_limit: of two different values the other order has another one first.
LEMMA SortLimitOtherWay ==
    ASSUME NEW t \in Task
    PROVE  SortLimit(OtherWay(t), Around(t.threshold)) # SortLimit(t, Around(t.threshold))
<1> DEFINE c == Around(t.threshold)
           w == t.width
           x == t.threshold
           S == {k \in 1 .. Len(c) : c[k] >= x}
           kept == TransformAll(t, Keep(c, S))
           up == Sorted(kept, FALSE)
           down == Sorted(kept, TRUE)
           m == LesserOf(w, Cardinality(S))
<1>1. /\ x \in Int /\ w \in 1 .. 6 /\ OtherWay(t).threshold = x /\ OtherWay(t).width = w
      /\ OtherWay(t).reverse = ~t.reverse /\ Resembles(t, t) /\ Resembles(OtherWay(t), t)
      /\ t.reverse \in BOOLEAN
  <2>1. t.reverse \in BOOLEAN
    BY TaskParameters
  <2> QED
    BY <2>1, MistakenTasks
<1>2. c \in Seq(Int) /\ Len(c) = 3 /\ c[1] = x - 1 /\ c[2] = x /\ c[3] = x + 1
  <2> HIDE DEF x
  <2>1. x - 1 \in Int /\ x + 1 \in Int
    BY <1>1
  <2> QED
    BY <1>1, <2>1 DEF Around, x
<1> HIDE DEF c, x, w
<1>3. S = {2, 3}
  <2>1. \A k \in 1 .. 3 : k = 1 \/ k = 2 \/ k = 3
    OBVIOUS
  <2>2. ~(c[1] >= x) /\ c[2] >= x /\ c[3] >= x
    BY <1>1, <1>2
  <2>3. 2 \in 1 .. 3 /\ 3 \in 1 .. 3
    OBVIOUS
  <2> QED
    BY <1>2, <2>1, <2>2, <2>3, Zenon
<1>4. /\ Positions(S, Len(c)) /\ kept \in Seq(Int) /\ Len(kept) = Cardinality(S)
      /\ SortLimit(t, c) = SubSeq(Sorted(kept, t.reverse), 1, m)
  BY <1>1, <1>2, SortLimitDef DEF x, w
<1>5. SortLimit(OtherWay(t), c) = SubSeq(Sorted(kept, OtherWay(t).reverse), 1, m)
  <2> DEFINE u == OtherWay(t)
             R == {k \in 1 .. Len(c) : c[k] >= u.threshold}
  <2>1. R = S
    BY <1>1, Zenon
  <2>2. u.width = w /\ Resembles(u, t) /\ c \in Seq(Int)
    BY <1>1, <1>2, Zenon
  <2> HIDE DEF u, S, w, kept
  <2>3. SortLimit(u, c) = SubSeq(Sorted(TransformAll(t, Keep(c, R)), u.reverse), 1,
                                 LesserOf(u.width, Cardinality(R)))
    BY <2>2, SortLimitDef
  <2> HIDE DEF R
  <2> QED
    BY <2>1, <2>2, <2>3, Zenon DEF u, kept
<1>6. /\ \A k \in S : kept[Rank(S, k)] = Transform(t, c[k])
      /\ \A k \in S : Rank(S, k) \in 1 .. Cardinality(S)
      /\ Cardinality(S) \in Nat
  <2> HIDE DEF S
  <2> QED
    BY <1>2, <1>4, TransformedLists, RankOf
<1> DEFINE p == Rank(S, 2)
           q == Rank(S, 3)
<1>7. /\ p \in 1 .. Len(kept) /\ q \in 1 .. Len(kept)
      /\ kept[p] # kept[q] /\ kept[p] \in Int /\ kept[q] \in Int
  <2>1. 2 \in S /\ 3 \in S
    BY <1>3
  <2> HIDE DEF S, kept
  <2>2. kept[p] = Transform(t, c[2]) /\ kept[q] = Transform(t, c[3])
    BY <1>6, <2>1
  <2>3. c[2] \in Int /\ c[3] \in Int /\ c[2] # c[3]
    BY <1>1, <1>2
  <2> QED
    BY <1>4, <1>6, <2>1, <2>2, <2>3, TransformIsInjective, TransformIsInt
<1> HIDE DEF S, kept, p, q
<1>8. /\ up[1] \in Int /\ down[1] \in Int
      /\ up[1] <= kept[p] /\ up[1] <= kept[q] /\ down[1] >= kept[p] /\ down[1] >= kept[q]
      /\ up \in Seq(Int) /\ down \in Seq(Int) /\ Len(up) = Len(kept) /\ Len(down) = Len(kept)
  BY <1>4, <1>7, SortedBegins
<1>9. up[1] # down[1]
  <2> HIDE DEF up, down
  <2> QED
    BY <1>7, <1>8
<1>10. m \in 1 .. Len(kept)
  <2>1. Cardinality(S) >= 1
    BY <1>4, <1>6, <1>7
  <2> QED
    BY <1>1, <1>4, <1>6, <2>1 DEF LesserOf
<1>11. SubSeq(up, 1, m)[1] = up[1] /\ SubSeq(down, 1, m)[1] = down[1]
  <2> HIDE DEF up, down, m
  <2>1. m \in 0 .. Len(up) /\ m \in 0 .. Len(down) /\ 1 \in 1 .. m
    BY <1>8, <1>10
  <2> QED
    BY <1>8, <2>1, PrefixOf
<1>12. SubSeq(up, 1, m) # SubSeq(down, 1, m)
  BY <1>9, <1>11
<1> HIDE DEF m
<1>13. CASE t.reverse = TRUE
  <2>1. OtherWay(t).reverse = FALSE
    BY <1>1, <1>13
  <2> QED
    BY <1>4, <1>5, <1>12, <1>13, <2>1 DEF c
<1>14. CASE t.reverse = FALSE
  <2>1. OtherWay(t).reverse = TRUE
    BY <1>1, <1>14
  <2> QED
    BY <1>4, <1>5, <1>12, <1>14, <2>1 DEF c
<1> QED
  BY <1>1, <1>13, <1>14

\* Values that come again later show which copy is kept.
Recurring == <<2, 1, 2, -1, 1, 0, -1>>

\* unique_occurrence: the third value kept is another one.
LEMMA UniqueOccurrenceOtherWay ==
    ASSUME NEW t \in Task
    PROVE  UniqueOccurrence(OtherWay(t), Recurring) # UniqueOccurrence(t, Recurring)
<1> DEFINE c == Recurring
           others(reverse, k) == IF reverse THEN k + 1 .. Len(c) ELSE 1 .. k - 1
           kept(reverse) == {k \in 1 .. Len(c) : \A j \in others(reverse, k) : c[j] # c[k]}
           result(S) == TransformAll(t, Keep(c, S))
           first == {1, 2, 4, 6}
           last == {3, 5, 6, 7}
<1>1. /\ c \in Seq(Int) /\ Len(c) = 7
      /\ c[1] = 2 /\ c[2] = 1 /\ c[3] = 2 /\ c[4] = -1 /\ c[5] = 1 /\ c[6] = 0 /\ c[7] = -1
  BY DEF Recurring
<1> HIDE DEF c
<1>2. \A k : k \in 1 .. 7 <=> k \in {1, 2, 3, 4, 5, 6, 7}
  OBVIOUS
<1>3. kept(FALSE) = first
  <2>1. \A k \in 1 .. 7 : k \in kept(FALSE) <=> k \in first
    <3>1. \A k \in 1 .. 7 : k \in kept(FALSE) <=> \A j \in 1 .. 7 : j < k => c[j] # c[k]
      BY <1>1
    <3> HIDE DEF kept
    <3>2. \A k \in 1 .. 7 : (\A j \in 1 .. 7 : j < k => c[j] # c[k]) <=> k \in first
      BY <1>1
    <3> QED
      BY <3>1, <3>2
  <2>2. kept(FALSE) \subseteq 1 .. 7 /\ first \subseteq 1 .. 7
    BY <1>1
  <2> HIDE DEF kept, first
  <2> QED
    BY <2>1, <2>2
<1>4. kept(TRUE) = last
  <2>1. \A k \in 1 .. 7 : k \in kept(TRUE) <=> k \in last
    <3>1. \A k \in 1 .. 7 : k \in kept(TRUE) <=> \A j \in 1 .. 7 : j > k => c[j] # c[k]
      BY <1>1
    <3> HIDE DEF kept
    <3>2. \A k \in 1 .. 7 : (\A j \in 1 .. 7 : j > k => c[j] # c[k]) <=> k \in last
      BY <1>1
    <3> QED
      BY <3>1, <3>2
  <2>2. kept(TRUE) \subseteq 1 .. 7 /\ last \subseteq 1 .. 7
    BY <1>1
  <2> HIDE DEF kept, last
  <2> QED
    BY <2>1, <2>2
<1>5. ASSUME NEW u, Resembles(u, t) PROVE UniqueOccurrence(u, c) = result(kept(u.reverse))
  <2>1. UniqueOccurrence(u, c) = TransformAll(u, Keep(c, kept(u.reverse)))
    BY Zenon DEF UniqueOccurrence
  <2> HIDE DEF kept
  <2> QED
    BY <1>5, <2>1, TransformsAlike
<1> HIDE DEF kept
<1>6. Positions(first, 7) /\ Positions(last, 7) /\ 4 \in first /\ 6 \in last
  BY DEF Positions
<1>7. Rank(first, 4) = 3 /\ Rank(last, 6) = 3
  <2>1. ASSUME NEW S, Positions(S, 7)
        PROVE  /\ Rank(S, 0) = 0
               /\ Rank(S, 1) = IF 1 \in S THEN Rank(S, 0) + 1 ELSE Rank(S, 0)
               /\ Rank(S, 2) = IF 2 \in S THEN Rank(S, 1) + 1 ELSE Rank(S, 1)
               /\ Rank(S, 3) = IF 3 \in S THEN Rank(S, 2) + 1 ELSE Rank(S, 2)
               /\ Rank(S, 4) = IF 4 \in S THEN Rank(S, 3) + 1 ELSE Rank(S, 3)
               /\ Rank(S, 5) = IF 5 \in S THEN Rank(S, 4) + 1 ELSE Rank(S, 4)
               /\ Rank(S, 6) = IF 6 \in S THEN Rank(S, 5) + 1 ELSE Rank(S, 5)
    <3>1. Rank(S, 0) = 0 /\ \A k \in 1 .. 7 : Rank(S, k) = IF k \in S THEN Rank(S, k - 1) + 1 ELSE Rank(S, k - 1)
      BY <2>1, RankDef
    <3> QED
      BY <3>1
  <2>2. Rank(first, 4) = 3
    BY <1>6, <2>1
  <2>3. Rank(last, 6) = 3
    BY <1>6, <2>1
  <2> QED
    BY <2>2, <2>3
<1> HIDE DEF first, last
<1>8. result(first)[3] = Transform(t, -1) /\ result(last)[3] = Transform(t, 0)
  <2>1. ASSUME NEW S, Positions(S, 7), NEW k \in S
        PROVE  result(S)[Rank(S, k)] = Transform(t, c[k])
    <3>1. c \in Seq(Int) /\ Len(c) = 7
      BY <1>1
    <3> QED
      BY <2>1, <3>1, TransformedLists
  <2> HIDE DEF result
  <2>2. result(first)[3] = Transform(t, c[4])
    BY <1>6, <1>7, <2>1
  <2>3. result(last)[3] = Transform(t, c[6])
    BY <1>6, <1>7, <2>1
  <2> QED
    BY <1>1, <2>2, <2>3
<1>9. Transform(t, -1) # Transform(t, 0)
  BY TransformIsInjective
<1>10. result(first) # result(last)
  BY <1>8, <1>9
<1>11. /\ t.reverse \in BOOLEAN /\ OtherWay(t).reverse = ~t.reverse
       /\ Resembles(t, t) /\ Resembles(OtherWay(t), t)
  BY TaskParameters, MistakenTasks
<1> HIDE DEF result
<1>12. UniqueOccurrence(t, c) = result(kept(t.reverse))
  BY <1>5, <1>11
<1>13. UniqueOccurrence(OtherWay(t), c) = result(kept(OtherWay(t).reverse))
  BY <1>5, <1>11
<1>14. CASE t.reverse = TRUE
  <2>1. OtherWay(t).reverse = FALSE
    BY <1>11, <1>14
  <2> QED
    BY <1>3, <1>4, <1>10, <1>12, <1>13, <1>14, <2>1 DEF c
<1>15. CASE t.reverse = FALSE
  <2>1. OtherWay(t).reverse = TRUE
    BY <1>11, <1>15
  <2> QED
    BY <1>3, <1>4, <1>10, <1>12, <1>13, <1>15, <2>1 DEF c
<1> QED
  BY <1>11, <1>14, <1>15

\* longest_run: values at the threshold are a run, unless the bound is strict.
LEMMA LongestRunStricter ==
    ASSUME NEW t \in Task
    PROVE  LongestRun(Stricter(t), AtThreshold(t)) # LongestRun(t, AtThreshold(t))
<1> DEFINE c == AtThreshold(t)
           w == t.width
           u == Stricter(t)
           right == RunCourse(t, c)[Len(c)]
           wrong == RunCourse(u, c)
<1>1. /\ t.threshold \in Int /\ w \in Nat /\ w > 0 /\ u.threshold = t.threshold + 1
  BY MistakenTasks
<1>2. c \in Seq(Int) /\ Len(c) = w /\ \A k \in 1 .. w : c[k] = t.threshold
  BY <1>1, ConstantlyDef DEF AtThreshold
<1> HIDE DEF c
<1>3. right.best \in Nat /\ right.best > 0
  <2>1. IsClear(t, c, 1, w)
    BY <1>1, <1>2 DEF IsClear
  <2>2. RunInv(t, c, w, right)
    BY <1>2, RunInvAtEnd
  <2> HIDE DEF right, w
  <2>3. 1 \in 1 .. w /\ w \in 1 .. w /\ 1 + w - 1 <= w
    BY <1>1
  <2>4. w <= right.best /\ right.best \in 0 .. w
    BY <2>1, <2>2, <2>3, Zenon DEF RunInv
  <2> QED
    BY <1>1, <2>4
<1>4. wrong[w].best = 0
  <2> DEFINE V == {run \in [start : Int, best : Int, current : Int] : run.best = 0}
  <2> HIDE DEF u
  <2>1. wrong[0] = NoRun /\ \A k \in 1 .. w : wrong[k] = NextRun(u, c, wrong[k - 1], k)
    BY <1>2, RunCourseDef
  <2>2. wrong[0] \in V
    BY <2>1 DEF NoRun
  <2>3. ASSUME NEW k \in 1 .. w, wrong[k - 1] \in V PROVE wrong[k] \in V
    <3>1. c[k] < u.threshold
      BY <1>1, <1>2
    <3>2. wrong[k] = [wrong[k - 1] EXCEPT !.current = 0]
      BY <2>1, <3>1 DEF NextRun
    <3> HIDE DEF wrong
    <3> QED
      BY <2>3, <3>2
  <2> HIDE DEF wrong, V, w
  <2>4. \A k \in 0 .. w : wrong[k] \in V
    BY <1>1, <2>2, <2>3, StaysIn
  <2> QED
    BY <1>1, <2>4 DEF V
<1>5. LongestRun(t, c)[2] = right.best
  BY <1>2, RunCourseDef
<1>6. LongestRun(u, c)[2] = wrong[w].best
  <2> HIDE DEF u, right
  <2> QED
    BY <1>2, RunCourseDef
<1> QED
  BY <1>3, <1>4, <1>5, <1>6 DEF c

\* Two runs of the same length show which of them is preferred.
TwoRuns(x) == <<x, x, x - 1, x, x>>

\* longest_run: the direction decides which one.
LEMMA TwoRunsStart ==
    ASSUME NEW t \in Task
    PROVE  LongestRun(t, TwoRuns(t.threshold))[1] = IF t.reverse THEN 3 ELSE 0
<1> DEFINE x == t.threshold
           c == TwoRuns(x)
           run == RunCourse(t, c)[5]
           a == run.start
           b == run.best
<1>1. x \in Int
  BY TaskThreshold
<1>2. /\ c \in Seq(Int) /\ Len(c) = 5
      /\ c[1] = x /\ c[2] = x /\ c[3] = x - 1 /\ c[4] = x /\ c[5] = x
  <2> HIDE DEF x
  <2> QED
    BY <1>1 DEF TwoRuns
<1> HIDE DEF c, x
<1>3. RunInv(t, c, 5, run)
  BY <1>2, RunInvAtEnd
<1>4. LongestRun(t, c)[1] = a
  <2>1. c \in Seq(Int) /\ Len(c) = 5
    BY <1>2
  <2>2. LongestRun(t, c) = <<run.start, run.best>>
    BY <2>1, RunCourseDef
  <2> HIDE DEF run
  <2> QED
    BY <2>2
<1> HIDE DEF run
<1>5. /\ b \in 0 .. 5
      /\ b > 0 => a \in 0 .. 5 - b /\ IsClear(t, c, a + 1, b)
  BY <1>3, Zenon DEF RunInv
<1>6. \A k \in 1 .. 5, length \in 1 .. 5 :
          k + length - 1 <= 5 /\ IsClear(t, c, k, length) =>
              /\ length <= b
              /\ length = b => IF t.reverse THEN k - 1 <= a ELSE k - 1 >= a
  BY <1>3, Zenon DEF RunInv
<1> HIDE DEF a, b
<1>7. IsClear(t, c, 1, 2) /\ IsClear(t, c, 4, 2)
  BY <1>1, <1>2 DEF IsClear, x
<1>8. /\ 2 <= b
      /\ 2 = b => IF t.reverse THEN 0 <= a /\ 3 <= a ELSE 0 >= a /\ 3 >= a
  BY <1>6, <1>7
<1>9. a \in 0 .. 5 - b /\ \A j \in a + 1 .. a + 1 + b - 1 : c[j] >= x
  BY <1>5, <1>8 DEF IsClear, x
<1>10. 3 \notin a + 1 .. a + b
  BY <1>1, <1>2, <1>5, <1>9
<1>11. b = 2
  BY <1>5, <1>8, <1>9, <1>10
<1>12. IF t.reverse THEN a = 3 ELSE a = 0
  BY <1>8, <1>9, <1>11
<1> QED
  BY <1>4, <1>12 DEF c, x

\* longest_run: the other direction prefers the other one.
LEMMA LongestRunOtherWay ==
    ASSUME NEW t \in Task
    PROVE  LongestRun(OtherWay(t), TwoRuns(t.threshold)) # LongestRun(t, TwoRuns(t.threshold))
<1> DEFINE u == OtherWay(t)
           c == TwoRuns(t.threshold)
<1>1. u \in Task /\ u.threshold = t.threshold /\ u.reverse = ~t.reverse
  BY MistakenTasks
<1>2. LongestRun(t, c)[1] = IF t.reverse THEN 3 ELSE 0
  BY TwoRunsStart
<1> HIDE DEF u
<1>3. LongestRun(u, c)[1] = IF u.reverse THEN 3 ELSE 0
  BY <1>1, TwoRunsStart
<1> HIDE DEF c
<1>4. LongestRun(u, c)[1] # LongestRun(t, c)[1]
  <2>1. t.reverse \in BOOLEAN
    BY TaskParameters
  <2>2. CASE t.reverse = TRUE
    <3>1. u.reverse = FALSE
      BY <1>1, <2>2
    <3> QED
      BY <1>2, <1>3, <2>2, <3>1
  <2>3. CASE t.reverse = FALSE
    <3>1. u.reverse = TRUE
      BY <1>1, <2>3
    <3> QED
      BY <1>2, <1>3, <2>3, <3>1
  <2> QED
    BY <2>1, <2>2, <2>3
<1> QED
  BY <1>4 DEF u, c

\* adjacent_difference: a pair has one difference, which the range keeps or not.
LEMMA DifferenceOfPair ==
    ASSUME NEW t \in Task, NEW u, Resembles(u, t), NEW x \in Int, NEW range
    PROVE  Len(DifferencesIn(u, <<0, x>>, range)) = IF x \in range THEN 1 ELSE 0
<1> DEFINE c == <<0, x>>
           d == [k \in 1 .. Len(c) - 1 |-> c[k + 1] - c[k]]
           S == {k \in 1 .. Len(d) : d[k] \in range}
<1>1. c # <<>> /\ Len(c) = 2 /\ c[1] = 0 /\ c[2] = x
  OBVIOUS
<1>2. d \in Seq(Int) /\ Len(d) = 1 /\ d[1] = x
  <2> HIDE DEF c
  <2> QED
    BY <1>1
<1>3. DifferencesIn(u, c, range) = TransformAll(u, Keep(d, S))
  <2>1. Filter(d, LAMBDA y : y \in range) = Keep(d, S)
    BY Zenon DEF Filter
  <2> HIDE DEF S, c
  <2>2. d = IF c = <<>> THEN <<>> ELSE [k \in 1 .. Len(c) - 1 |-> c[k + 1] - c[k]]
    BY <1>1, Zenon
  <2> HIDE DEF d
  <2> QED
    BY <2>1, <2>2, Zenon DEF DifferencesIn
<1> HIDE DEF c, d
<1>4. S = IF x \in range THEN 1 .. 1 ELSE {}
  BY <1>2
<1>5. Positions(S, Len(d))
  BY <1>2 DEF Positions
<1> HIDE DEF S
<1>6. Len(TransformAll(u, Keep(d, S))) = Cardinality(S)
  <2>1. Len(TransformAll(t, Keep(d, S))) = Cardinality(S)
    BY <1>2, <1>5, TransformedLists
  <2>2. TransformAll(u, Keep(d, S)) = TransformAll(t, Keep(d, S))
    BY TransformsAlike
  <2> QED
    BY <2>1, <2>2, Zenon
<1>7. Cardinality(1 .. 1) = 1 /\ Cardinality({}) = 0
  BY UpToCardinality, FS_EmptySet
<1> QED
  BY <1>3, <1>4, <1>6, <1>7 DEF c

\* The pairs on either limit and beyond it show what a mistaken range keeps.
LEMMA AdjacentDifferenceMistakes ==
    ASSUME NEW t \in Task
    PROVE  LET limit == Limit(t) IN
           /\ DifferencesIn(t, <<0, -limit>>, 1 - limit .. limit)
                # AdjacentDifference(t, <<0, -limit>>)
           /\ DifferencesIn(t, <<0, limit>>, -limit .. limit - 1)
                # AdjacentDifference(t, <<0, limit>>)
           /\ AdjacentDifference(Wider(t), <<0, limit + 1>>)
                # AdjacentDifference(t, <<0, limit + 1>>)
<1> DEFINE l == Limit(t)
           u == Wider(t)
<1>1. /\ Resembles(t, t) /\ Resembles(u, t)
      /\ t.width \in 1 .. 6 /\ u.width = t.width + 1
  BY MistakenTasks
<1>2. l \in Int /\ l > 0 /\ Limit(u) = l + 3
  <2> HIDE DEF u
  <2> QED
    BY <1>1 DEF Limit
<1>3. /\ AdjacentDifference(t, <<0, -l>>) = DifferencesIn(t, <<0, -l>>, -l .. l)
      /\ AdjacentDifference(t, <<0, l>>) = DifferencesIn(t, <<0, l>>, -l .. l)
      /\ AdjacentDifference(t, <<0, l + 1>>) = DifferencesIn(t, <<0, l + 1>>, -l .. l)
      /\ AdjacentDifference(u, <<0, l + 1>>) = DifferencesIn(u, <<0, l + 1>>, -Limit(u) .. Limit(u))
  BY Zenon DEF AdjacentDifference
<1> HIDE DEF l, u
<1>4. /\ -l \in -l .. l /\ -l \notin 1 - l .. l /\ -l \in Int
      /\ l \in -l .. l /\ l \notin -l .. l - 1
      /\ l + 1 \notin -l .. l /\ l + 1 \in -(l + 3) .. l + 3 /\ l + 1 \in Int
  BY <1>2
<1>5. /\ Len(DifferencesIn(t, <<0, -l>>, -l .. l)) = 1
      /\ Len(DifferencesIn(t, <<0, -l>>, 1 - l .. l)) = 0
      /\ Len(DifferencesIn(t, <<0, l>>, -l .. l)) = 1
      /\ Len(DifferencesIn(t, <<0, l>>, -l .. l - 1)) = 0
      /\ Len(DifferencesIn(t, <<0, l + 1>>, -l .. l)) = 0
      /\ Len(DifferencesIn(u, <<0, l + 1>>, -Limit(u) .. Limit(u))) = 1
  <2>1. ASSUME NEW x \in Int, NEW range
        PROVE  /\ Len(DifferencesIn(t, <<0, x>>, range)) = IF x \in range THEN 1 ELSE 0
               /\ Len(DifferencesIn(u, <<0, x>>, range)) = IF x \in range THEN 1 ELSE 0
    BY <1>1, DifferenceOfPair
  <2>2. l \in Int /\ -Limit(u) .. Limit(u) = -(l + 3) .. l + 3
    BY <1>2, Zenon
  <2> QED
    BY <1>4, <2>1, <2>2, Zenon
<1>6. DifferencesIn(t, <<0, -l>>, 1 - l .. l) # AdjacentDifference(t, <<0, -l>>)
  BY <1>3, <1>5
<1>7. DifferencesIn(t, <<0, l>>, -l .. l - 1) # AdjacentDifference(t, <<0, l>>)
  BY <1>3, <1>5
<1>8. AdjacentDifference(u, <<0, l + 1>>) # AdjacentDifference(t, <<0, l + 1>>)
  BY <1>3, <1>5
<1> QED
  BY <1>6, <1>7, <1>8 DEF l, u

\* window_sum: an input as long as the window has one sum, a shorter one none.
LEMMA OneWindow ==
    ASSUME NEW u, u.threshold \in Int, u.width \in Nat \ {0},
           NEW c \in Seq(Int), Len(c) <= u.width
    PROVE  Len(WindowSum(u, c)) =
               IF Len(c) = u.width /\ Total(c) >= u.threshold THEN 1 ELSE 0
<1> DEFINE w == u.width
           sums == IF Len(c) < w THEN <<>>
                   ELSE [k \in 1 .. Len(c) - w + 1 |-> Total(SubSeq(c, k, k + w - 1))]
           S == {k \in 1 .. Len(sums) : sums[k] >= u.threshold}
<1>1. WindowSum(u, c) = Keep(sums, S)
  <2>1. Filter(sums, LAMBDA sum : sum >= u.threshold) = Keep(sums, S)
    BY Zenon DEF Filter
  <2> HIDE DEF S
  <2>2. sums = IF Len(c) < u.width THEN <<>>
               ELSE [k \in 1 .. Len(c) - u.width + 1 |-> Total(SubSeq(c, k, k + u.width - 1))]
    BY Zenon
  <2> HIDE DEF sums
  <2> QED
    BY <2>1, <2>2, Zenon DEF WindowSum
<1>2. Total(c) \in Int /\ SubSeq(c, 1, Len(c)) = c
  BY TotalIsInt
<1>3. CASE Len(c) < w
  <2>1. sums = <<>> /\ sums \in Seq(Int) /\ Len(sums) = 0
    BY <1>3
  <2> HIDE DEF sums
  <2>2. S = {} /\ Positions(S, Len(sums))
    BY <2>1 DEF Positions
  <2> HIDE DEF S
  <2>3. Len(Keep(sums, S)) = Cardinality(S)
    <3>1. sums \in Seq(Int) /\ Positions(S, Len(sums))
      BY <2>1, <2>2, Zenon
    <3> QED
      BY <3>1, KeepLists
  <2>4. Cardinality(S) = 0
    BY <2>2, FS_EmptySet, Zenon
  <2>5. Len(c) # u.width
    BY <1>3
  <2> QED
    BY <1>1, <2>3, <2>4, <2>5, Zenon
<1>4. CASE Len(c) = w
  <2>1. sums = [k \in 1 .. 1 |-> Total(SubSeq(c, k, k + w - 1))]
    <3>1. ~(Len(c) < w) /\ Len(c) - w + 1 = 1
      BY <1>4
    <3> QED
      BY <3>1, Zenon
  <2>2. Total(SubSeq(c, 1, 1 + w - 1)) = Total(c)
    <3>1. 1 + w - 1 = Len(c)
      BY <1>4
    <3> QED
      BY <1>2, <3>1, Zenon
  <2>3. sums = [k \in 1 .. 1 |-> sums[k]] /\ sums[1] = Total(c)
    <3> HIDE DEF w, sums
    <3> QED
      BY <2>1, <2>2
  <2> HIDE DEF sums, w
  <2>4. sums \in Seq(Int) /\ Len(sums) = 1
    <3>1. \A k \in 1 .. 1 : sums[k] \in Int
      BY <1>2, <2>3
    <3> QED
      BY <2>3, <3>1, SequenceOf
  <2>5. S = (IF Total(c) >= u.threshold THEN 1 .. 1 ELSE {}) /\ Positions(S, Len(sums))
    BY <2>3, <2>4 DEF Positions
  <2> HIDE DEF S
  <2>6. Len(Keep(sums, S)) = Cardinality(S)
    <3>1. sums \in Seq(Int) /\ Positions(S, Len(sums))
      BY <2>4, <2>5, Zenon
    <3> QED
      BY <3>1, KeepLists
  <2>7. Cardinality(1 .. 1) = 1 /\ Cardinality({}) = 0
    BY UpToCardinality, FS_EmptySet
  <2> QED
    BY <1>1, <1>4, <2>5, <2>6, <2>7 DEF w
<1>5. Len(c) < w \/ Len(c) = w
  OBVIOUS
<1> QED
  BY <1>3, <1>4, <1>5

\* A window that sums to the threshold is missed by a strict bound or a wider window.
WindowWitness(t) == <<t.threshold>> \o Constantly(0, t.width - 1)

\* window_sum: neither has a sum for it.
LEMMA WindowSumMistakes ==
    ASSUME NEW t \in Task
    PROVE  /\ WindowSum(Stricter(t), WindowWitness(t)) # WindowSum(t, WindowWitness(t))
           /\ WindowSum(Wider(t), WindowWitness(t)) # WindowSum(t, WindowWitness(t))
<1> DEFINE c == WindowWitness(t)
           z == Constantly(0, t.width - 1)
           head == <<t.threshold>>
<1>1. /\ t.threshold \in Int /\ t.width \in Nat \ {0} /\ t.width - 1 \in Nat
      /\ Stricter(t).threshold = t.threshold + 1 /\ Stricter(t).width = t.width
      /\ Wider(t).threshold = t.threshold /\ Wider(t).width = t.width + 1
  BY MistakenTasks
<1>2. z \in Seq(Int) /\ Len(z) = t.width - 1 /\ \A k \in 1 .. t.width - 1 : z[k] = 0
  <2> DEFINE n == t.width - 1
             zero == 0
  <2>1. n \in Nat /\ zero \in Int
    BY <1>1
  <2> HIDE DEF n, zero
  <2>2. /\ Constantly(zero, n) \in Seq(Int) /\ Len(Constantly(zero, n)) = n
        /\ \A k \in 1 .. n : Constantly(zero, n)[k] = zero
    BY <2>1, ConstantlyDef
  <2> QED
    BY <2>2 DEF n, zero
<1>3. head \in Seq(Int) /\ Len(head) = 1 /\ head[1] = t.threshold
  BY <1>1
<1>4. c = head \o z
  BY DEF WindowWitness
<1> HIDE DEF c, head, z
<1>5. /\ c \in Seq(Int) /\ Len(c) = Len(head) + Len(z)
      /\ \A k \in 1 .. Len(head) : c[k] = head[k]
      /\ \A k \in 1 .. Len(z) : c[Len(head) + k] = z[k]
  <2>1. head \in Seq(Int) /\ z \in Seq(Int)
    BY <1>2, <1>3
  <2> QED
    BY <1>4, <2>1, Joined
<1>6. Len(c) = t.width /\ c[1] = t.threshold
  BY <1>1, <1>2, <1>3, <1>5
<1>7. ASSUME NEW k \in 2 .. Len(c) PROVE c[k] = 0
  <2>1. k - 1 \in 1 .. Len(z) /\ 1 + (k - 1) = k
    BY <1>1, <1>2, <1>6
  <2>2. c[1 + (k - 1)] = z[k - 1]
    BY <1>3, <1>5, <2>1
  <2> QED
    BY <1>2, <2>1, <2>2
<1>8. Total(c) = t.threshold
  <2>1. 1 \in 0 .. Len(c) /\ 1 \in 1 .. Len(c) /\ \A k \in 1 + 1 .. Len(c) : c[k] = 0
    BY <1>1, <1>6, <1>7
  <2>2. Total(c) = Sums(c)[1]
    BY <1>5, <2>1, ZeroTail
  <2>3. Sums(c)[0] = 0 /\ Sums(c)[1] = Sums(c)[1 - 1] + c[1]
    BY <1>5, <2>1, SumsDef
  <2> QED
    BY <1>1, <1>6, <2>2, <2>3
<1>9. Len(WindowSum(t, c)) = 1
  BY <1>1, <1>5, <1>6, <1>8, OneWindow
<1>10. Len(WindowSum(Stricter(t), c)) = 0
  <2> DEFINE u == Stricter(t)
  <2>1. /\ u.threshold = t.threshold + 1 /\ u.width = t.width /\ u.threshold \in Int
        /\ u.width \in Nat \ {0} /\ Len(c) <= u.width
    BY <1>1, <1>6
  <2> HIDE DEF u
  <2>2. Len(WindowSum(u, c)) = IF Len(c) = u.width /\ Total(c) >= u.threshold THEN 1 ELSE 0
    BY <1>5, <2>1, OneWindow
  <2> QED
    BY <1>1, <1>8, <2>1, <2>2 DEF u
<1>11. Len(WindowSum(Wider(t), c)) = 0
  <2> DEFINE u == Wider(t)
  <2>1. /\ u.threshold = t.threshold /\ u.width = t.width + 1 /\ u.threshold \in Int
        /\ u.width \in Nat \ {0} /\ Len(c) <= u.width
    BY <1>1, <1>6
  <2> HIDE DEF u
  <2>2. Len(WindowSum(u, c)) = IF Len(c) = u.width /\ Total(c) >= u.threshold THEN 1 ELSE 0
    BY <1>5, <2>1, OneWindow
  <2> QED
    BY <1>1, <1>6, <2>1, <2>2 DEF u
<1> QED
  BY <1>9, <1>10, <1>11 DEF c

\* outside_in_pairs: a single value shows whether the middle is added to itself.
LEMMA OutsideInPairsOtherWay ==
    ASSUME NEW t \in Task
    PROVE  OutsideInPairs(OtherWay(t), <<MaxInputAbs>>) # OutsideInPairs(t, <<MaxInputAbs>>)
<1> DEFINE x == MaxInputAbs
           c == <<x>>
<1>1. x \in Int /\ x # x + x
  BY SMT DEF MaxInputAbs
<1> HIDE DEF x
<1>2. Len(c) = 1 /\ c[1] = x
  OBVIOUS
<1> HIDE DEF c
<1>3. ASSUME NEW u, Resembles(u, t)
      PROVE  OutsideInPairs(u, c)[1] = IF u.reverse THEN Transform(t, x + x) ELSE Transform(t, x)
  <2>1. (Len(c) + 1) \div 2 = 1 /\ Len(c) - 1 + 1 = 1 /\ 1 \in 1 .. 1
    BY <1>2
  <2>2. OutsideInPairs(u, c)[1] =
            Transform(u, IF 1 = Len(c) - 1 + 1 /\ ~u.reverse THEN c[1] ELSE c[1] + c[Len(c) - 1 + 1])
    BY <2>1, Zenon DEF OutsideInPairs
  <2>3. OutsideInPairs(u, c)[1] = Transform(u, IF ~u.reverse THEN x ELSE x + x)
    BY <1>2, <2>1, <2>2, Zenon
  <2>4. \A y : Transform(u, y) = Transform(t, y)
    BY <1>3 DEF Transform, Resembles
  <2> QED
    BY <2>3, <2>4, Zenon
<1>4. Transform(t, x) # Transform(t, x + x)
  <2>1. x + x \in Int
    BY <1>1
  <2> QED
    BY <1>1, <2>1, TransformIsInjective
<1>5. /\ t.reverse \in BOOLEAN /\ OtherWay(t).reverse = ~t.reverse
      /\ Resembles(t, t) /\ Resembles(OtherWay(t), t)
  BY TaskParameters, MistakenTasks
<1>6. /\ OutsideInPairs(t, c)[1] = IF t.reverse THEN Transform(t, x + x) ELSE Transform(t, x)
      /\ OutsideInPairs(OtherWay(t), c)[1] =
            IF OtherWay(t).reverse THEN Transform(t, x + x) ELSE Transform(t, x)
  BY <1>3, <1>5, Zenon
<1>7. CASE t.reverse = TRUE
  <2>1. OtherWay(t).reverse = FALSE
    BY <1>5, <1>7
  <2> QED
    BY <1>4, <1>6, <1>7, <2>1 DEF c, x
<1>8. CASE t.reverse = FALSE
  <2>1. OtherWay(t).reverse = TRUE
    BY <1>5, <1>8
  <2> QED
    BY <1>4, <1>6, <1>8, <2>1 DEF c, x
<1> QED
  BY <1>5, <1>7, <1>8

\* The inputs that Task::test_inputs does not draw.
Fixed == BoundaryCases \o KindCases
IsFixed(input) == \E k \in 1 .. Len(Fixed) : Fixed[k] = input

\* The differences on and beyond the limits are added to a task about them.
LEMMA DifferenceCases ==
    ASSUME task.kind = "adjacent_difference"
    PROVE  /\ Len(KindCases) = 6
           /\ KindCases[3] = <<0, -Limit(task)>> /\ KindCases[4] = <<0, Limit(task)>>
           /\ KindCases[6] = <<0, Limit(task) + 1>>
<1> DEFINE l == Limit(task)
           f == [k \in 1 .. 6 |-> <<0, IF k % 2 = 1 THEN -Around(l)[(k + 1) \div 2]
                                       ELSE Around(l)[(k + 1) \div 2]>>]
<1>1. KindCases = f
  BY DEF KindCases
<1> HIDE DEF l
<1>2. Around(l)[2] = l /\ Around(l)[3] = l + 1
  BY DEF Around
<1>3. f[3] = <<0, -Around(l)[2]>> /\ f[4] = <<0, Around(l)[2]>> /\ f[6] = <<0, Around(l)[3]>>
  <2>1. /\ 3 \in 1 .. 6 /\ 3 % 2 = 1 /\ (3 + 1) \div 2 = 2
        /\ 4 \in 1 .. 6 /\ 4 % 2 # 1 /\ (4 + 1) \div 2 = 2
        /\ 6 \in 1 .. 6 /\ 6 % 2 # 1 /\ (6 + 1) \div 2 = 3
    OBVIOUS
  <2> QED
    BY <2>1, Zenon
<1>4. Len(f) = 6
  OBVIOUS
<1> HIDE DEF f
<1> QED
  BY <1>1, <1>2, <1>3, <1>4, Zenon DEF l

\* A window that sums to the threshold is added to a task about windows.
LEMMA WindowCases ==
    ASSUME task.kind = "window_sum"
    PROVE  Len(KindCases) = 3 /\ KindCases[2] = WindowWitness(task)
<1> DEFINE t == task.threshold
           f == [k \in 1 .. 3 |-> <<Around(t)[k]>> \o Constantly(0, task.width - 1)]
<1>1. KindCases = f
  BY DEF KindCases
<1>2. Around(t)[2] = t
  BY DEF Around
<1>3. Len(f) = 3
  OBVIOUS
<1>4. f[2] = <<Around(t)[2]>> \o Constantly(0, task.width - 1)
  <2>1. 2 \in 1 .. 3
    OBVIOUS
  <2> QED
    BY <2>1, Zenon
<1> HIDE DEF f
<1> QED
  BY <1>1, <1>2, <1>3, <1>4, Zenon DEF WindowWitness

\* The fixed inputs hold the boundary cases and the ones for the kind.
LEMMA FixedHolds ==
    ASSUME task \in Task
    PROVE  /\ \A k \in 1 .. 16 : IsFixed(BoundaryCases[k])
           /\ \A k \in 1 .. Len(KindCases) : IsFixed(KindCases[k])
<1> DEFINE A == Input
           s == BoundaryCases
           t == KindCases
<1>1. Issuable(task)
  BY DEF Issuable
<1>2. s \in Seq(A) /\ Len(s) = 16
  BY <1>1, BoundaryCasesAreInputs
<1>3. t \in Seq(A) /\ Len(t) \in Nat
  <2>1. \A n \in 0 .. 6 : n \in Nat
    OBVIOUS
  <2> QED
    BY <1>1, <2>1, KindCasesAreInputs
<1>4. Fixed = s \o t
  BY DEF Fixed
<1> HIDE DEF A, s, t
<1>5. /\ Len(s \o t) = Len(s) + Len(t)
      /\ \A k \in 1 .. Len(s) : (s \o t)[k] = s[k]
      /\ \A k \in 1 .. Len(t) : (s \o t)[Len(s) + k] = t[k]
  <2>1. s \in Seq(A) /\ t \in Seq(A)
    BY <1>2, <1>3
  <2> QED
    BY <2>1, Joined
<1> DEFINE n == Len(t)
<1> HIDE DEF n
<1>6. Len(Fixed) = 16 + n /\ n \in Nat
  BY <1>2, <1>3, <1>4, <1>5 DEF n
<1>7. ASSUME NEW k \in 1 .. 16 PROVE IsFixed(s[k])
  <2>1. k \in 1 .. Len(Fixed)
    BY <1>6
  <2>2. Fixed[k] = s[k]
    BY <1>2, <1>4, <1>5, Zenon
  <2> QED
    BY <2>1, <2>2, Zenon DEF IsFixed
<1>8. ASSUME NEW k \in 1 .. n PROVE IsFixed(t[k])
  <2>1. 16 + k \in 1 .. Len(Fixed)
    BY <1>6
  <2>2. Fixed[16 + k] = t[k]
    BY <1>2, <1>4, <1>5, <1>8, Zenon DEF n
  <2> QED
    BY <2>1, <2>2, Zenon DEF IsFixed
<1> QED
  BY <1>7, <1>8, Zenon DEF s, t, n

\* The inputs that show a mistake are among them.
LEMMA FixedHas ==
    ASSUME task \in Task
    PROVE  /\ IsFixed(<<MaxInputAbs>>) /\ IsFixed(Around(task.threshold)) /\ IsFixed(Recurring)
           /\ IsFixed(Constantly(MaxInputAbs, MaxInputLen))
           /\ IsFixed(TwoRuns(task.threshold)) /\ IsFixed(AtThreshold(task))
           /\ task.kind = "adjacent_difference" =>
                /\ IsFixed(<<0, -Limit(task)>>) /\ IsFixed(<<0, Limit(task)>>)
                /\ IsFixed(<<0, Limit(task) + 1>>)
           /\ task.kind = "window_sum" => IsFixed(WindowWitness(task))
<1>1. Issuable(task) /\ task.kind # "composition"
  BY IssuableParameters DEF Issuable
<1>2. /\ BoundaryCases[4] = <<MaxInputAbs>> /\ BoundaryCases[6] = Around(task.threshold)
      /\ BoundaryCases[8] = Recurring
      /\ BoundaryCases[10] = Constantly(MaxInputAbs, MaxInputLen)
      /\ BoundaryCases[13] = ThresholdCases[1] /\ BoundaryCases[15] = ThresholdCases[3]
  <2>1. /\ BoundaryCases[4] = <<MaxInputAbs>> /\ BoundaryCases[6] = Around(task.threshold)
        /\ BoundaryCases[8] = Recurring
        /\ BoundaryCases[10] = Constantly(MaxInputAbs, MaxInputLen)
    BY <1>1, BoundaryCasesAreInputs, Zenon DEF Recurring
  <2>2. \A k \in 1 .. 4 : BoundaryCases[12 + k] = ThresholdCases[k]
    BY <1>1, BoundaryCasesAreInputs, Zenon
  <2>3. 1 \in 1 .. 4 /\ 12 + 1 = 13 /\ 3 \in 1 .. 4 /\ 12 + 3 = 15
    OBVIOUS
  <2>4. BoundaryCases[13] = ThresholdCases[1]
    BY <2>2, <2>3, Zenon
  <2>5. BoundaryCases[15] = ThresholdCases[3]
    BY <2>2, <2>3, Zenon
  <2> QED
    BY <2>1, <2>4, <2>5, Zenon
<1>3. ThresholdCases[1] = TwoRuns(task.threshold) /\ ThresholdCases[3] = AtThreshold(task)
  <2> DEFINE a == TwoRuns(task.threshold)
             b == Constantly(1, task.width - 1)
             c == AtThreshold(task)
             d == Constantly(1, task.width + 1)
  <2>1. ThresholdCases = <<a, b, c, d>>
    BY <1>1, Zenon DEF ThresholdCases, TwoRuns, AtThreshold
  <2> HIDE DEF a, b, c, d
  <2>2. ThresholdCases[1] = a /\ ThresholdCases[3] = c
    BY <2>1
  <2> QED
    BY <2>2 DEF a, c
<1>4. /\ IsFixed(BoundaryCases[4]) /\ IsFixed(BoundaryCases[6]) /\ IsFixed(BoundaryCases[8])
      /\ IsFixed(BoundaryCases[10]) /\ IsFixed(BoundaryCases[13]) /\ IsFixed(BoundaryCases[15])
  <2>1. /\ 4 \in 1 .. 16 /\ 6 \in 1 .. 16 /\ 8 \in 1 .. 16
        /\ 10 \in 1 .. 16 /\ 13 \in 1 .. 16 /\ 15 \in 1 .. 16
    OBVIOUS
  <2> QED
    BY <2>1, FixedHolds, Zenon
<1>5. ASSUME task.kind = "adjacent_difference"
      PROVE  /\ IsFixed(<<0, -Limit(task)>>) /\ IsFixed(<<0, Limit(task)>>)
             /\ IsFixed(<<0, Limit(task) + 1>>)
  <2>1. 3 \in 1 .. 6 /\ 4 \in 1 .. 6 /\ 6 \in 1 .. 6
    OBVIOUS
  <2>2. IsFixed(KindCases[3]) /\ IsFixed(KindCases[4]) /\ IsFixed(KindCases[6])
    BY <1>5, <2>1, FixedHolds, DifferenceCases, Zenon
  <2> QED
    BY <1>5, <2>2, DifferenceCases, Zenon
<1>6. ASSUME task.kind = "window_sum" PROVE IsFixed(WindowWitness(task))
  <2>1. 2 \in 1 .. 3
    OBVIOUS
  <2>2. IsFixed(KindCases[2])
    BY <1>6, <2>1, FixedHolds, WindowCases, Zenon
  <2> QED
    BY <1>6, <2>2, WindowCases, Zenon
<1> QED
  BY <1>2, <1>3, <1>4, <1>5, <1>6, Zenon

\* Each mistake gives one of the fixed inputs another answer.
LEMMA FixedShowMistakes ==
    ASSUME task \in Task, NEW mistake \in Mistakes
    PROVE  \E k \in 1 .. Len(Fixed) : Mistaken(mistake, Fixed[k]) # Evaluate(task, Fixed[k])
<1>1. SUFFICES \E input : IsFixed(input) /\ Mistaken(mistake, input) # Evaluate(task, input)
  BY Zenon DEF IsFixed
<1>2. /\ Stricter(task).kind = task.kind /\ OtherWay(task).kind = task.kind /\ Wider(task).kind = task.kind
  BY MistakenTasks DEF Resembles
<1>3. /\ mistake = "strict" => \A input : Mistaken(mistake, input) = Evaluate(Stricter(task), input)
      /\ mistake = "otherWay" => \A input : Mistaken(mistake, input) = Evaluate(OtherWay(task), input)
      /\ mistake = "wider" => \A input : Mistaken(mistake, input) = Evaluate(Wider(task), input)
      /\ mistake = "strictLower" => \A input :
            Mistaken(mistake, input) = DifferencesIn(task, input, 1 - Limit(task) .. Limit(task))
      /\ mistake = "strictUpper" => \A input :
            Mistaken(mistake, input) = DifferencesIn(task, input, -Limit(task) .. Limit(task) - 1)
  BY DEF Mistaken, Stricter, OtherWay, Wider
<1>4. \/ task.kind = "sort_limit" /\ mistake \in {"strict", "otherWay", "wider"}
      \/ task.kind = "unique_occurrence" /\ mistake = "otherWay"
      \/ task.kind = "longest_run" /\ mistake \in {"strict", "otherWay"}
      \/ task.kind = "adjacent_difference" /\ mistake \in {"strictLower", "strictUpper", "wider"}
      \/ task.kind = "window_sum" /\ mistake \in {"strict", "wider"}
      \/ task.kind = "outside_in_pairs" /\ mistake = "otherWay"
  BY DEF Mistakes
<1>5. ASSUME NEW t
      PROVE  /\ t.kind = "sort_limit" => \A input : Evaluate(t, input) = SortLimit(t, input)
             /\ t.kind = "unique_occurrence" => \A input : Evaluate(t, input) = UniqueOccurrence(t, input)
             /\ t.kind = "longest_run" => \A input : Evaluate(t, input) = LongestRun(t, input)
             /\ t.kind = "adjacent_difference" => \A input : Evaluate(t, input) = AdjacentDifference(t, input)
             /\ t.kind = "window_sum" => \A input : Evaluate(t, input) = WindowSum(t, input)
             /\ t.kind = "outside_in_pairs" => \A input : Evaluate(t, input) = OutsideInPairs(t, input)
  BY DEF Evaluate
<1>6. CASE task.kind = "sort_limit" /\ mistake = "strict"
  <2>1. Evaluate(task, AtThreshold(task)) = SortLimit(task, AtThreshold(task))
    BY <1>5, <1>6
  <2>2. Mistaken(mistake, AtThreshold(task))
          = SortLimit(Stricter(task), AtThreshold(task))
    BY <1>2, <1>3, <1>5, <1>6, Zenon
  <2> QED
    BY <1>6, <2>1, <2>2, FixedHas, SortLimitStricter, Zenon
<1>7. CASE task.kind = "sort_limit" /\ mistake = "otherWay"
  <2>1. Evaluate(task, Around(task.threshold)) = SortLimit(task, Around(task.threshold))
    BY <1>5, <1>7
  <2>2. Mistaken(mistake, Around(task.threshold))
          = SortLimit(OtherWay(task), Around(task.threshold))
    BY <1>2, <1>3, <1>5, <1>7, Zenon
  <2> QED
    BY <1>7, <2>1, <2>2, FixedHas, SortLimitOtherWay, Zenon
<1>8. CASE task.kind = "sort_limit" /\ mistake = "wider"
  <2>1. Evaluate(task, Constantly(MaxInputAbs, MaxInputLen)) = SortLimit(task, Constantly(MaxInputAbs, MaxInputLen))
    BY <1>5, <1>8
  <2>2. Mistaken(mistake, Constantly(MaxInputAbs, MaxInputLen))
          = SortLimit(Wider(task), Constantly(MaxInputAbs, MaxInputLen))
    BY <1>2, <1>3, <1>5, <1>8, Zenon
  <2> QED
    BY <1>8, <2>1, <2>2, FixedHas, SortLimitWider, Zenon
<1>9. CASE task.kind = "unique_occurrence" /\ mistake = "otherWay"
  <2>1. Evaluate(task, Recurring) = UniqueOccurrence(task, Recurring)
    BY <1>5, <1>9
  <2>2. Mistaken(mistake, Recurring)
          = UniqueOccurrence(OtherWay(task), Recurring)
    BY <1>2, <1>3, <1>5, <1>9, Zenon
  <2> QED
    BY <1>9, <2>1, <2>2, FixedHas, UniqueOccurrenceOtherWay, Zenon
<1>10. CASE task.kind = "longest_run" /\ mistake = "strict"
  <2>1. Evaluate(task, AtThreshold(task)) = LongestRun(task, AtThreshold(task))
    BY <1>5, <1>10
  <2>2. Mistaken(mistake, AtThreshold(task))
          = LongestRun(Stricter(task), AtThreshold(task))
    BY <1>2, <1>3, <1>5, <1>10, Zenon
  <2> QED
    BY <1>10, <2>1, <2>2, FixedHas, LongestRunStricter, Zenon
<1>11. CASE task.kind = "longest_run" /\ mistake = "otherWay"
  <2>1. Evaluate(task, TwoRuns(task.threshold)) = LongestRun(task, TwoRuns(task.threshold))
    BY <1>5, <1>11
  <2>2. Mistaken(mistake, TwoRuns(task.threshold))
          = LongestRun(OtherWay(task), TwoRuns(task.threshold))
    BY <1>2, <1>3, <1>5, <1>11, Zenon
  <2> QED
    BY <1>11, <2>1, <2>2, FixedHas, LongestRunOtherWay, Zenon
<1>12. CASE task.kind = "adjacent_difference" /\ mistake = "strictLower"
  <2>1. Evaluate(task, <<0, -Limit(task)>>) = AdjacentDifference(task, <<0, -Limit(task)>>)
    BY <1>5, <1>12
  <2>2. Mistaken(mistake, <<0, -Limit(task)>>)
          = DifferencesIn(task, <<0, -Limit(task)>>, 1 - Limit(task) .. Limit(task))
    BY <1>2, <1>3, <1>5, <1>12, Zenon
  <2> QED
    BY <1>12, <2>1, <2>2, FixedHas, AdjacentDifferenceMistakes, Zenon
<1>13. CASE task.kind = "adjacent_difference" /\ mistake = "strictUpper"
  <2>1. Evaluate(task, <<0, Limit(task)>>) = AdjacentDifference(task, <<0, Limit(task)>>)
    BY <1>5, <1>13
  <2>2. Mistaken(mistake, <<0, Limit(task)>>)
          = DifferencesIn(task, <<0, Limit(task)>>, -Limit(task) .. Limit(task) - 1)
    BY <1>2, <1>3, <1>5, <1>13, Zenon
  <2> QED
    BY <1>13, <2>1, <2>2, FixedHas, AdjacentDifferenceMistakes, Zenon
<1>14. CASE task.kind = "adjacent_difference" /\ mistake = "wider"
  <2>1. Evaluate(task, <<0, Limit(task) + 1>>) = AdjacentDifference(task, <<0, Limit(task) + 1>>)
    BY <1>5, <1>14
  <2>2. Mistaken(mistake, <<0, Limit(task) + 1>>)
          = AdjacentDifference(Wider(task), <<0, Limit(task) + 1>>)
    BY <1>2, <1>3, <1>5, <1>14, Zenon
  <2> QED
    BY <1>14, <2>1, <2>2, FixedHas, AdjacentDifferenceMistakes, Zenon
<1>15. CASE task.kind = "window_sum" /\ mistake = "strict"
  <2>1. Evaluate(task, WindowWitness(task)) = WindowSum(task, WindowWitness(task))
    BY <1>5, <1>15
  <2>2. Mistaken(mistake, WindowWitness(task))
          = WindowSum(Stricter(task), WindowWitness(task))
    BY <1>2, <1>3, <1>5, <1>15, Zenon
  <2> QED
    BY <1>15, <2>1, <2>2, FixedHas, WindowSumMistakes, Zenon
<1>16. CASE task.kind = "window_sum" /\ mistake = "wider"
  <2>1. Evaluate(task, WindowWitness(task)) = WindowSum(task, WindowWitness(task))
    BY <1>5, <1>16
  <2>2. Mistaken(mistake, WindowWitness(task))
          = WindowSum(Wider(task), WindowWitness(task))
    BY <1>2, <1>3, <1>5, <1>16, Zenon
  <2> QED
    BY <1>16, <2>1, <2>2, FixedHas, WindowSumMistakes, Zenon
<1>17. CASE task.kind = "outside_in_pairs" /\ mistake = "otherWay"
  <2>1. Evaluate(task, <<MaxInputAbs>>) = OutsideInPairs(task, <<MaxInputAbs>>)
    BY <1>5, <1>17
  <2>2. Mistaken(mistake, <<MaxInputAbs>>)
          = OutsideInPairs(OtherWay(task), <<MaxInputAbs>>)
    BY <1>2, <1>3, <1>5, <1>17, Zenon
  <2> QED
    BY <1>17, <2>1, <2>2, FixedHas, OutsideInPairsOtherWay, Zenon
<1> QED
  BY <1>4, <1>6, <1>7, <1>8, <1>9, <1>10, <1>11, <1>12, <1>13, <1>14, <1>15, <1>16, <1>17, Zenon

-----------------------------------------------------------------------------
\* None of the fixed inputs is lost on the way to a task's challenge: not to the
\* random ones that come after them, and not to the shuffle.
FixedKept ==
    (pc \in {"random", "judge"} \/ Issued) /\ task.kind # "composition" =>
        \A k \in 1 .. Len(Fixed) : Contains(cases, Fixed[k])

\* They depend on the task alone.
LEMMA FixedStays == ASSUME UNCHANGED task PROVE UNCHANGED Fixed
  BY DEF Fixed, BoundaryCases, ThresholdCases, KindCases

\* A step that drops no input of the suite drops no fixed one.
LEMMA FixedStayKept ==
    ASSUME FixedKept, pc \in {"random", "judge"} \/ Issued, UNCHANGED task,
           \A x : Contains(cases, x) => Contains(cases, x)'
    PROVE  FixedKept'
<1> SUFFICES ASSUME task.kind # "composition", NEW k \in 1 .. Len(Fixed)
             PROVE  Contains(cases, Fixed[k])'
  BY FixedStays, Zenon DEF FixedKept
<1>1. Contains(cases, Fixed[k])
  BY DEF FixedKept
<1>2. Fixed[k]' = Fixed[k]
  BY FixedStays
<1> QED
  BY <1>1, <1>2

\* A request that fails is not issued.
LEMMA FailingKeepsFixed ==
    ASSUME NEW error, error # "Ok", Fail(error)
    PROVE  FixedKept'
<1>1. pc' = "done" /\ ~Issued'
  BY DEF Fail, Issued
<1> QED
  BY <1>1 DEF FixedKept

\* Task::test_inputs: whatever is drawn, from the moment the fixed inputs of a task
\* are made they are all in the suite, until its challenge is issued.
THEOREM FixedAreKept == ScreenedSpec => [](IssuanceInv /\ FixedKept)
<1>1. ScreenedInit => FixedKept
  <2>1. ScreenedInit => pc = "validate" /\ ~Issued
    BY IssuanceAssumption DEF ScreenedInit, Init, Issued
  <2> QED
    BY <2>1 DEF FixedKept
<1>2. IssuanceInv /\ FixedKept /\ [ScreenedNext]_allVars => FixedKept'
  <2> SUFFICES ASSUME IssuanceInv, FixedKept, [ScreenedNext]_allVars PROVE FixedKept'
    OBVIOUS
  <2>1. CASE ValidateRequest /\ UNCHANGED screening
    <3>1. CASE \E error : error # "Ok" /\ Fail(error)
      BY <3>1, FailingKeepsFixed
    <3>2. CASE pc' = "generate" /\ answer' = answer
      <4>1. answer = None
        BY <2>1 DEF IssuanceInv, Phases, ValidateRequest
      <4>2. ~Issued'
        BY <3>2, <4>1, IssuanceAssumption DEF Issued
      <4> QED
        BY <3>2, <4>2 DEF FixedKept
    <3>3. CheckedExpiry(request.now).error \in {None, "TimeOverflow"}
      BY DEF CheckedExpiry
    <3>4. None # "Ok"
      BY IssuanceAssumption
    <3> QED
      BY <2>1, <3>1, <3>2, <3>3, <3>4 DEF ValidateRequest
  <2>2. CASE NoRandomness /\ UNCHANGED screening
    BY <2>2, FailingKeepsFixed DEF NoRandomness
  <2>3. CASE Generate /\ UNCHANGED screening
    <3>1. answer = None /\ pc' = "fixed" /\ answer' = answer
      BY <2>3 DEF IssuanceInv, Phases, Generate
    <3>2. ~Issued'
      BY <3>1, IssuanceAssumption DEF Issued
    <3> QED
      BY <3>1, <3>2 DEF FixedKept
  <2>4. CASE FixedCases /\ UNCHANGED screening
    <3>1. cases' = Fixed /\ task' = task
      BY <2>4 DEF FixedCases, Fixed
    <3>2. Fixed' = Fixed
      BY <3>1, FixedStays
    <3>3. \A k \in 1 .. Len(Fixed') : Contains(cases', Fixed'[k])
      BY <3>1, <3>2, Zenon DEF Contains
    <3> QED
      BY <3>3 DEF FixedKept
  <2>5. CASE RandomCase /\ UNCHANGED screening
    <3> DEFINE index == Len(cases)
               c == [k \in 1 .. RandomLength(index) |-> RandomValue(index, k)]
    <3>1. pc = "random" /\ cases' = Append(cases, c) /\ task' = task
      BY <2>5 DEF RandomCase
    <3> HIDE DEF c
    <3>2. cases \in Seq(Input)
      BY <2>5 DEF IssuanceInv, Phases, RandomCase
    <3>3. ASSUME NEW x, Contains(cases, x) PROVE Contains(cases', x)
      <4>1. PICK k \in 1 .. Len(cases) : cases[k] = x
        BY <3>3 DEF Contains
      <4>2. k \in 1 .. Len(cases') /\ cases'[k] = cases[k]
        BY <3>1, <3>2
      <4> QED
        BY <4>1, <4>2, Zenon DEF Contains
    <3>4. \A x : Contains(cases, x) => Contains(cases, x)'
      BY <3>3 DEF Contains
    <3> QED
      BY <3>1, <3>4, FixedStayKept
  <2>6. CASE Shuffle /\ UNCHANGED screening
    <3>1. pc = "random" /\ task' = task /\ cases \in Seq(Input)
      BY <2>6 DEF IssuanceInv, Phases, Shuffle
    <3>2. Rearranges(cases, cases')
      BY <2>6, ShuffleRearranges
    <3>3. \A j \in 1 .. Len(cases) : \E i \in 1 .. Len(cases') : cases'[i] = cases[j]
      BY <3>1, <3>2, RearrangedKeeps
    <3>4. \A x : Contains(cases, x) => Contains(cases, x)'
      BY <3>3 DEF Contains
    <3> QED
      BY <3>1, <3>4, FixedStayKept
  <2>7. CASE Judge /\ UNCHANGED screening
    <3>1. pc = "judge" /\ task' = task /\ cases' = cases
      BY <2>7 DEF Judge
    <3>2. \A x : Contains(cases, x) => Contains(cases, x)'
      BY <3>1 DEF Contains
    <3> QED
      BY <3>1, <3>2, FixedStayKept
  <2>8. CASE NoCandidateLeft
    BY <2>8, FailingKeepsFixed DEF NoCandidateLeft
  <2>9. CASE Screen
    <3>1. answer' = answer /\ pc' = "holdout"
      BY <2>9 DEF Screen
    <3>2. answer # "Ok"
      BY <2>9, IssuanceAssumption DEF IssuanceInv, Phases, Started, Screen
    <3> QED
      BY <3>1, <3>2 DEF FixedKept, Issued
  <2>10. CASE AppendHoldout
    <3>1. task.kind = "composition" /\ task' = task
      <4>1. IsComposition(task)
        BY <2>10 DEF IssuanceInv, Phases, AppendHoldout
      <4> QED
        BY <2>10, <4>1, CompositionParameters DEF AppendHoldout
    <3> QED
      BY <3>1 DEF FixedKept
  <2>11. CASE UNCHANGED allVars
    <3>1. UNCHANGED <<pc, answer, task, cases>>
      BY <2>11 DEF allVars, vars
    <3>2. Fixed' = Fixed
      BY <3>1, FixedStays
    <3> QED
      BY <3>1, <3>2, Zenon DEF FixedKept, Issued, Contains
  <2>12. CASE StartPool
    BY <2>12 DEF StartPool, FixedKept, IssuanceInv, Phases, Started
  <2>13. CASE ExtraDraw
    <3>1. pc = "pool" /\ UNCHANGED <<pc, answer>>
      BY <2>13 DEF ExtraDraw, vars
    <3>2. answer # "Ok"
      BY <2>13, <3>1, IssuanceAssumption DEF IssuanceInv, Phases, Started
    <3> QED
      BY <3>1, <3>2 DEF FixedKept, Issued
  <2> QED
    BY <2>1, <2>2, <2>3, <2>4, <2>5, <2>6, <2>7, <2>8, <2>9, <2>10, <2>11, <2>12, <2>13
       DEF ScreenedNext, Next
<1> QED
  BY <1>1, <1>2, IssuanceInvariant, PTL DEF ScreenedSpec

\* task.rs "Exercise each signed boundary and its neighbours": for every task that
\* can be drawn, and whatever the random inputs are, each of the mistakes gives
\* some hidden input of the challenge another answer than the one expected.
THEOREM MistakesFailHolds == ScreenedSpec => []MistakesFail
<1>1. IssuanceInv /\ FixedKept => MistakesFail
  <2> SUFFICES ASSUME IssuanceInv, FixedKept, Issued, NEW mistake \in Mistakes
               PROVE  \E i \in 1 .. Len(cases) : Mistaken(mistake, cases[i]) # expected[i]
    BY DEF MistakesFail
  <2>1. /\ Issuable(task) /\ Len(cases) = 32
        /\ expected = [k \in 1 .. 32 |-> Expected(cases[k])]
    BY WhenIssued
  <2>2. task.kind # "composition"
    BY DEF Mistakes
  <2>3. task \in Task
    BY <2>1, <2>2, IssuableParameters
  <2>4. PICK k \in 1 .. Len(Fixed) : Mistaken(mistake, Fixed[k]) # Evaluate(task, Fixed[k])
    BY <2>3, FixedShowMistakes
  <2>5. PICK i \in 1 .. Len(cases) : cases[i] = Fixed[k]
    BY <2>2, Zenon DEF FixedKept, Contains
  <2>6. expected[i] = Evaluate(task, cases[i])
    <3> DEFINE e(j) == Expected(cases[j])
    <3> HIDE DEF e
    <3>1. expected = [j \in 1 .. 32 |-> e(j)] /\ i \in 1 .. 32
      BY <2>1 DEF e
    <3>2. expected[i] = e(i)
      BY <3>1
    <3> QED
      BY <2>2, <3>2 DEF e, Expected
  <2> QED
    BY <2>4, <2>5, <2>6, Zenon
<1> QED
  BY <1>1, FixedAreKept, PTL
=============================================================================
