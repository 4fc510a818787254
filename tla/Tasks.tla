-------------------------------- MODULE Tasks --------------------------------
(***************************************************************************)
(* The ten task families of crates/coggate-core/src/task.rs: what the host *)
(* evaluates (Evaluate) and what the prompt asks for (IsAnswer).  A solver *)
(* sees only the prompt, so the two have to agree on every input.          *)
(*                                                                         *)
(* Evaluate follows the iterators of the code; IsAnswer says of a result   *)
(* that it is the one the prompt describes, without computing it.          *)
(***************************************************************************)
EXTENDS Integers, Sequences, FiniteSets

Families == {"filter_sum", "sort_limit", "unique_occurrence", "residue_buckets",
             "prefix_total", "longest_run", "adjacent_difference", "window_sum",
             "stable_partition", "outside_in_pairs"}

\* What Task::generate can draw.
Task == {task \in [kind : Families, modulus : 2 .. 7, residue : 0 .. 6,
                   multiplier : {-3, -2, -1, 1, 2, 3}, offset : -9 .. 9,
                   threshold : -20 .. 20, width : 1 .. 6, reverse : BOOLEAN] :
            task.residue < task.modulus}

Transform(task, x) == task.multiplier * x + task.offset
Matches(task, x) == x % task.modulus = task.residue    \* rem_euclid

\* An iterator fold, by recursion on the position.
Fold(Op(_, _), base, s) ==
    LET prefix[k \in 0 .. Len(s)] == IF k = 0 THEN base ELSE Op(prefix[k - 1], s[k])
    IN  prefix[Len(s)]

Total(s) == Fold(LAMBDA sum, x : sum + x, 0, s)
Indices(s) == [k \in 1 .. Len(s) |-> k]
TransformAll(task, s) == [k \in 1 .. Len(s) |-> Transform(task, s[k])]
LesserOf(m, n) == IF m < n THEN m ELSE n

\* A filter, as a fold: the values at the positions in S, from left to right.
Keep(s, S) ==
    Fold(LAMBDA kept, k : IF k \in S THEN Append(kept, s[k]) ELSE kept, <<>>, Indices(s))

Filter(s, Test(_)) == Keep(s, {k \in 1 .. Len(s) : Test(s[k])})

\* The sort, as an insertion sort: a value goes behind all those it does not have
\* to precede.
Placed(sorted, x, descending) ==
    LET ahead == Cardinality({k \in 1 .. Len(sorted) :
                                 IF descending THEN sorted[k] >= x ELSE sorted[k] <= x})
    IN  SubSeq(sorted, 1, ahead) \o <<x>> \o SubSeq(sorted, ahead + 1, Len(sorted))

Sorted(s, descending) ==
    Fold(LAMBDA sorted, x : Placed(sorted, x, descending), <<>>, s)

-----------------------------------------------------------------------------
(***************************************************************************)
(* Task::evaluate                                                          *)
(***************************************************************************)
FilterSum(task, input) ==
    Total(TransformAll(task, Filter(input, LAMBDA x : Matches(task, x))))

SortLimit(task, input) ==
    LET kept == TransformAll(task, Filter(input, LAMBDA x : x >= task.threshold))
        sorted == Sorted(kept, task.reverse)
    IN  SubSeq(sorted, 1, LesserOf(task.width, Len(sorted)))

UniqueOccurrence(task, input) ==
    LET others(k) == IF task.reverse THEN k + 1 .. Len(input) ELSE 1 .. k - 1
        first == {k \in 1 .. Len(input) : \A j \in others(k) : input[j] # input[k]}
    IN  TransformAll(task, Keep(input, first))

ResidueBuckets(task, input) ==
    Fold(LAMBDA buckets, x : [buckets EXCEPT ![(x % task.modulus) + 1] = @ + x],
         [j \in 1 .. task.modulus |-> 0], input)

PrefixTotal(task, input) ==
    LET step(totals, x) ==
            LET total == IF totals = <<>> THEN 0 ELSE totals[Len(totals)]
            IN  Append(totals, IF Matches(task, x) THEN total + Transform(task, x) ELSE total)
    IN  Fold(step, <<>>, input)

\* Mutated form: the later of two runs of equal length always wins.
LongestRunLatest(task, input) ==
    LET step(run, index) ==
            IF input[index] < task.threshold THEN [run EXCEPT !.current = 0]
            ELSE LET current == run.current + 1 IN
                 IF current >= run.best
                 THEN [start |-> index - current, best |-> current, current |-> current]
                 ELSE [run EXCEPT !.current = current]
        final == Fold(step, [start |-> -1, best |-> 0, current |-> 0], Indices(input))
    IN  <<final.start, final.best>>

\* The best run is replaced while the current one still grows.
LongestRun(task, input) ==
    LET step(run, index) ==
            IF input[index] < task.threshold THEN [run EXCEPT !.current = 0]
            ELSE LET current == run.current + 1 IN
                 IF current > run.best \/ (task.reverse /\ current = run.best)
                 THEN [start |-> index - current, best |-> current, current |-> current]
                 ELSE [run EXCEPT !.current = current]
        final == Fold(step, [start |-> -1, best |-> 0, current |-> 0], Indices(input))
    IN  <<final.start, final.best>>

\* The differences of neighbours that lie in the given range.
DifferencesIn(task, input, range) ==
    LET differences == IF input = <<>> THEN <<>>
                       ELSE [k \in 1 .. Len(input) - 1 |-> input[k + 1] - input[k]]
    IN  TransformAll(task, Filter(differences, LAMBDA x : x \in range))

Limit(task) == 3 * task.width

AdjacentDifference(task, input) ==
    DifferencesIn(task, input, -Limit(task) .. Limit(task))

WindowSum(task, input) ==
    LET sums == IF Len(input) < task.width THEN <<>>
                ELSE [k \in 1 .. Len(input) - task.width + 1 |->
                         Total(SubSeq(input, k, k + task.width - 1))]
    IN  Filter(sums, LAMBDA sum : sum >= task.threshold)

\* Mutated form: the second group is not filtered.
StablePartitionRepeating(task, input) ==
    TransformAll(task, Filter(input, LAMBDA x : Matches(task, x) # task.reverse) \o input)

StablePartition(task, input) ==
    LET first == Filter(input, LAMBDA x : Matches(task, x) # task.reverse)
        second == Filter(input, LAMBDA x : Matches(task, x) = task.reverse)
    IN  TransformAll(task, first) \o TransformAll(task, second)

OutsideInPairs(task, input) ==
    LET opposite(k) == Len(input) - k + 1
        pair(k) == IF k = opposite(k) /\ ~task.reverse
                   THEN input[k] ELSE input[k] + input[opposite(k)]
    IN  [k \in 1 .. (Len(input) + 1) \div 2 |-> Transform(task, pair(k))]

Evaluate(task, input) ==
    CASE task.kind = "filter_sum" -> FilterSum(task, input)
      [] task.kind = "sort_limit" -> SortLimit(task, input)
      [] task.kind = "unique_occurrence" -> UniqueOccurrence(task, input)
      [] task.kind = "residue_buckets" -> ResidueBuckets(task, input)
      [] task.kind = "prefix_total" -> PrefixTotal(task, input)
      [] task.kind = "longest_run" -> LongestRun(task, input)
      [] task.kind = "adjacent_difference" -> AdjacentDifference(task, input)
      [] task.kind = "window_sum" -> WindowSum(task, input)
      [] task.kind = "stable_partition" -> StablePartition(task, input)
      [] task.kind = "outside_in_pairs" -> OutsideInPairs(task, input)

-----------------------------------------------------------------------------
(***************************************************************************)
(* Task::prompt: the answer its rules describe.                            *)
(***************************************************************************)
\* JavaScript's x % m takes the sign of x.
JsRemainder(x, m) == IF x >= 0 THEN x % m ELSE -((-x) % m)
PromptResidue(task, x) == JsRemainder(JsRemainder(x, task.modulus) + task.modulus, task.modulus)
Selected(task, x) == PromptResidue(task, x) = task.residue

\* The sum of value(k) over the positions in S.
SumOver(input, S, value(_)) == Total([k \in 1 .. Len(input) |-> IF k \in S THEN value(k) ELSE 0])

\* The result lists value(k) for the positions k in S, from left to right.
Lists(result, S, value(_)) ==
    /\ Len(result) = Cardinality(S)
    /\ \A k \in S : result[Cardinality({j \in S : j <= k})] = value(k)

\* A run that starts at zero-based index `start` and cannot be made longer.
Runs(task, input) ==
    LET low == {k \in 1 .. Len(input) + 1 : k = Len(input) + 1 \/ input[k] < task.threshold}
    IN  {<<k - 1, (CHOOSE e \in low : e >= k /\ \A f \in low : f >= k => e <= f) - k>> :
            k \in 1 .. Len(input)}

IsLongestRun(task, input, result) ==
    LET qualifying == {run \in Runs(task, input) : run[2] > 0}
        longest == {run \in qualifying : \A other \in qualifying : other[2] <= run[2]}
    IN  IF qualifying = {} THEN result = <<-1, 0>>
        ELSE /\ result \in longest
             /\ \A other \in longest :
                   IF task.reverse THEN other[1] <= result[1] ELSE other[1] >= result[1]

\* Of each value, as many copies as the limit leaves room for after all the
\* values that come before it.
IsSortedAndLimited(task, input, result) ==
    LET value(k) == Transform(task, input[k])
        before(x, y) == IF task.reverse THEN x > y ELSE x < y
        kept == {k \in 1 .. Len(input) : input[k] >= task.threshold}
        copies(x) == Cardinality({k \in kept : value(k) = x})
        room(x) == task.width - Cardinality({k \in kept : before(value(k), x)})
        listed(x) == Cardinality({i \in 1 .. Len(result) : result[i] = x})
    IN  /\ \A i \in 1 .. Len(result) - 1 : ~before(result[i + 1], result[i])
        /\ Len(result) = LesserOf(task.width, Cardinality(kept))
        /\ \A x \in {value(k) : k \in kept} :
              listed(x) = IF room(x) <= 0 THEN 0 ELSE LesserOf(copies(x), room(x))

IsAnswer(task, input, result) ==
    LET n == Len(input)
        in(k) == Transform(task, input[k])
        chosen == {k \in 1 .. n : Selected(task, input[k])}
        rest == (1 .. n) \ chosen
        difference(k) == input[k] - input[k - 1]
        window(k) == SumOver(input, k .. k + task.width - 1, LAMBDA j : input[j])
        groups == IF task.reverse THEN <<rest, chosen>> ELSE <<chosen, rest>>
        size == Cardinality(groups[1])
        outer(k) == IF 2 * k = n + 1
                    THEN IF task.reverse THEN 2 * input[k] ELSE input[k]
                    ELSE input[k] + input[n + 1 - k]
    IN CASE task.kind = "filter_sum" -> result = SumOver(input, chosen, in)
         [] task.kind = "sort_limit" -> IsSortedAndLimited(task, input, result)
         [] task.kind = "unique_occurrence" ->
              Lists(result,
                    {k \in 1 .. n : \A j \in 1 .. n :
                        input[j] = input[k] => IF task.reverse THEN j <= k ELSE j >= k},
                    in)
         [] task.kind = "residue_buckets" ->
              /\ Len(result) = task.modulus
              /\ \A j \in 0 .. task.modulus - 1 :
                    result[j + 1] =
                        SumOver(input, {k \in 1 .. n : PromptResidue(task, input[k]) = j},
                                LAMBDA k : input[k])
         [] task.kind = "prefix_total" ->
              Lists(result, 1 .. n, LAMBDA k : SumOver(input, chosen \intersect 1 .. k, in))
         [] task.kind = "longest_run" -> IsLongestRun(task, input, result)
         [] task.kind = "adjacent_difference" ->
              Lists(result,
                    {k \in 2 .. n : /\ difference(k) <= 3 * task.width
                                    /\ difference(k) >= -3 * task.width},
                    LAMBDA k : Transform(task, difference(k)))
         [] task.kind = "window_sum" ->
              Lists(result, {k \in 1 .. n - task.width + 1 : window(k) >= task.threshold}, window)
         [] task.kind = "stable_partition" ->
              /\ Len(result) = n
              /\ Lists(SubSeq(result, 1, size), groups[1], in)
              /\ Lists(SubSeq(result, size + 1, n), groups[2], in)
         [] task.kind = "outside_in_pairs" ->
              Lists(result, {k \in 1 .. n : 2 * k <= n + 1},
                    LAMBDA k : Transform(task, outer(k)))
=============================================================================
