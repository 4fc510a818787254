----------------------------- MODULE Composition -----------------------------
(***************************************************************************)
(* The composition experiment of crates/coggate-core/src/composition.rs:   *)
(* three to six stages change a sequence one after the other, some only if *)
(* a predicate holds for any, or for all, of its current values.  Applied  *)
(* is what the host does in a stage, Described what the prompt says of it. *)
(***************************************************************************)
EXTENDS Tasks

Predicates == 0 .. 4     \* two of the value, and three definitions over these

\* One operation and the condition it stands under.  An operation reads only
\* the fields it needs: `flag` is `descending` of a sort and `last` of a unique.
Stage == [operation : {"filter", "affine", "sort", "reverse", "unique", "take"},
          filter : Predicates, multiplier : {-3, -2, -1, 2, 3},
          offset : {-9, -5, -2, -1, 1, 2, 5, 9}, flag : BOOLEAN, count : 1 .. 8,
          guard : {"always", "any", "all"}, condition : Predicates]

\* What Composition::generate can draw: a transformation and the deepest filter
\* are always among the operations, and the third stage always has a condition.
IsComposition(task) ==
    /\ task \in [kind : {"composition"}, modulus : 2 .. 7, residue : 0 .. 6, threshold : -20 .. 20,
                greater : BOOLEAN, both : BOOLEAN, negateMiddle : BOOLEAN, negateOuter : BOOLEAN,
                stages : Seq(Stage), sum : BOOLEAN]
    /\ task.residue < task.modulus
    /\ Len(task.stages) \in 3 .. 6
    /\ \E i, j \in 1 .. Len(task.stages) :
          /\ task.stages[i].operation = "affine"
          /\ task.stages[j].operation = "filter" /\ task.stages[j].filter = 4
    /\ task.stages[3].guard # "always" /\ task.stages[3].condition = 4

-----------------------------------------------------------------------------
(***************************************************************************)
(* Composition::evaluate                                                   *)
(***************************************************************************)
Reaches(task, x) == IF task.greater THEN x >= task.threshold ELSE x <= task.threshold

Holds(task, predicate, x) ==
    LET joined == IF task.both THEN Reaches(task, x) /\ Matches(task, x)
                               ELSE Reaches(task, x) \/ Matches(task, x)
        middle == joined # task.negateMiddle
    IN  <<Reaches(task, x), Matches(task, x), joined, middle, middle # task.negateOuter>>
            [predicate + 1]

\* Stage::apply, first the guard on the values it finds, then the operation.
Enabled(task, stage, values) ==
    CASE stage.guard = "always" -> TRUE
      [] stage.guard = "any" ->
           \E k \in 1 .. Len(values) : Holds(task, stage.condition, values[k])
      [] stage.guard = "all" ->
           \A k \in 1 .. Len(values) : Holds(task, stage.condition, values[k])

Operate(task, stage, values) ==
    LET n == Len(values)
        others(k) == IF stage.flag THEN k + 1 .. n ELSE 1 .. k - 1
        first == {k \in 1 .. n : \A j \in others(k) : values[j] # values[k]}
    IN CASE stage.operation = "filter" ->
              Filter(values, LAMBDA x : Holds(task, stage.filter, x))
         [] stage.operation = "affine" ->
              [k \in 1 .. n |-> stage.multiplier * values[k] + stage.offset]
         [] stage.operation = "sort" ->
              Sorted(values, stage.flag)
         [] stage.operation = "reverse" -> [k \in 1 .. n |-> values[n - k + 1]]
         [] stage.operation = "unique" -> Keep(values, first)
         [] stage.operation = "take" -> SubSeq(values, 1, LesserOf(stage.count, n))

Applied(task, stage, values) ==
    IF Enabled(task, stage, values) THEN Operate(task, stage, values) ELSE values

\* The values before the first stage and after each one.
Course(task, input) ==
    Fold(LAMBDA course, stage : Append(course, Applied(task, stage, course[Len(course)])),
         <<input>>, task.stages)

Composed(task, input) ==
    LET final == Fold(LAMBDA values, stage : Applied(task, stage, values), input, task.stages)
    IN  IF task.sum THEN Total(final) ELSE final

-----------------------------------------------------------------------------
(***************************************************************************)
(* Composition::prompt: what its sentences say of a predicate, of a stage  *)
(* and of the result.                                                      *)
(***************************************************************************)
Satisfies(task, predicate, x) ==
    LET bound == IF task.greater THEN ~(x < task.threshold) ELSE ~(x > task.threshold)
        selected == Selected(task, x)
        joined == IF task.both THEN bound /\ selected ELSE bound \/ selected
        middle == IF task.negateMiddle THEN ~joined ELSE joined
    IN  CASE predicate = 0 -> bound
          [] predicate = 1 -> selected
          [] predicate = 2 -> joined
          [] predicate = 3 -> middle
          [] predicate = 4 -> IF task.negateOuter THEN ~middle ELSE middle

Described(task, stage, before, after) ==
    LET n == Len(before)
        satisfying(p) == {k \in 1 .. n : Satisfies(task, p, before[k])}
        asIs(k) == before[k]
        occurrences(s, x) == Cardinality({k \in 1 .. Len(s) : s[k] = x})
        applies == CASE stage.guard = "always" -> TRUE
                     [] stage.guard = "any" -> satisfying(stage.condition) # {}
                     [] stage.guard = "all" -> satisfying(stage.condition) = 1 .. n
    IN CASE ~applies -> after = before
         [] applies /\ stage.operation = "filter" -> Lists(after, satisfying(stage.filter), asIs)
         [] applies /\ stage.operation = "affine" ->
              Lists(after, 1 .. n, LAMBDA k : stage.multiplier * before[k] + stage.offset)
         [] applies /\ stage.operation = "sort" ->
              /\ Len(after) = n
              /\ \A k \in 1 .. n - 1 :
                    IF stage.flag THEN after[k] >= after[k + 1] ELSE after[k] <= after[k + 1]
              /\ \A k \in 1 .. n : occurrences(after, before[k]) = occurrences(before, before[k])
         [] applies /\ stage.operation = "reverse" ->
              Lists(after, 1 .. n, LAMBDA k : before[n + 1 - k])
         [] applies /\ stage.operation = "unique" ->
              Lists(after,
                    {k \in 1 .. n : \A j \in 1 .. n :
                        before[j] = before[k] => IF stage.flag THEN j <= k ELSE j >= k},
                    asIs)
         [] applies /\ stage.operation = "take" ->
              Lists(after, {k \in 1 .. n : k <= stage.count}, asIs)

\* Every stage does what its sentence says to what the one before left.
IsComposed(task, input, result) ==
    LET course == Course(task, input)
        final == course[Len(course)]
    IN  /\ \A i \in 1 .. Len(task.stages) :
              Described(task, task.stages[i], course[i], course[i + 1])
        /\ result = IF task.sum THEN SumOver(final, 1 .. Len(final), LAMBDA k : final[k])
                                ELSE final
=============================================================================
