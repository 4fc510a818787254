----------------------------- MODULE MCIssuance -----------------------------
(***************************************************************************)
(* Requests at each limit, and tasks of every family with the ends and the *)
(* middle of the parameters it uses; the two families with boundary cases  *)
(* of their own with every width and every third threshold.  Compositions  *)
(* of three stages, with each operation in each place, each condition and  *)
(* each reading of the predicates, and one that reaches the largest sum.   *)
(***************************************************************************)
EXTENDS ScreenedIssuance

MCMaxTime == 10000

\* One end of each range, the other, the two in turn, or values in between.
MCDraw(s, use, index, k, n) ==
    LET j == k + index \div 4 IN
    CASE s = "low" -> 0
      [] s = "high" -> n - 1
      [] s = "alternate" -> IF j % 2 = 1 THEN 0 ELSE n - 1
      [] s = "mixed" -> (j * j + 3 * j) % n

\* The first of the pool, or the last ones.
MCSelections(n) == IF n < 20 THEN {} ELSE {1 .. 20, n - 19 .. n}

MCRequests ==
    [scope : {128}, factor : {1024}, now : {MCMaxTime - 180}]
    \union [scope : {0, 1, 129}, factor : {0, 1025}, now : {MCMaxTime - 179}]

Residues == {<<2, 0>>, <<3, 2>>, <<7, 6>>}

Variants(kinds, residues, multipliers, thresholds, widths, ways) ==
    {[kind |-> kind, modulus |-> r[1], residue |-> r[2], multiplier |-> a, offset |-> -9,
      threshold |-> t, width |-> w, reverse |-> v] :
        kind \in kinds, r \in residues, a \in multipliers, t \in thresholds, w \in widths,
        v \in ways}

Idle == [operation |-> "reverse", filter |-> 0, multiplier |-> 2, offset |-> -1, flag |-> FALSE,
         count |-> 1, guard |-> "always", condition |-> 0]

Operations ==
    LET ways(name) == {[Idle EXCEPT !.operation = name, !.flag = v] : v \in BOOLEAN}
    IN  ways("sort") \union ways("unique") \union
        {Idle,
         [Idle EXCEPT !.operation = "take", !.count = 3],
         [Idle EXCEPT !.operation = "filter", !.filter = 2],
         [Idle EXCEPT !.operation = "affine", !.multiplier = -3]}

Guarded(stage, guard, condition) == [stage EXCEPT !.guard = guard, !.condition = condition]

\* The transformation, the deepest filter and one more, in the three orders of a rotation.
Pipelines ==
    LET transform == [Idle EXCEPT !.operation = "affine", !.multiplier = -1, !.offset = 2]
        narrow == [Idle EXCEPT !.operation = "filter", !.filter = 4]
        guards == {<<"any", 2, "all">>, <<"all", 3, "any">>, <<"always", 0, "any">>}
    IN UNION {
        { << Guarded(op, g[1], g[2]), transform, Guarded(narrow, g[3], 4) >>,
          << transform, Guarded(narrow, g[1], g[2]), Guarded(op, g[3], 4) >>,
          << narrow, Guarded(op, g[1], g[2]), Guarded(transform, g[3], 4) >> } :
        op \in Operations, g \in guards}

Compose(pipelines, modulus, residue, threshold, greater, both, middle, outer, sum) ==
    {[kind |-> "composition", modulus |-> modulus, residue |-> residue, threshold |-> threshold,
      greater |-> greater, both |-> both, negateMiddle |-> middle, negateOuter |-> outer,
      stages |-> p, sum |-> sum] : p \in pipelines}

MCCompositions ==
    LET tripled == [Idle EXCEPT !.operation = "affine", !.multiplier = 3, !.offset = 9]
        narrow == [Idle EXCEPT !.operation = "filter", !.filter = 4]
    IN Compose(Pipelines, 3, 2, 0, TRUE, TRUE, TRUE, TRUE, FALSE)
       \union Compose(Pipelines, 7, 0, -20, FALSE, FALSE, TRUE, FALSE, TRUE)
       \union Compose(Pipelines, 2, 1, 20, FALSE, TRUE, FALSE, TRUE, FALSE)
       \union Compose({<<tripled, tripled, Guarded(narrow, "any", 4), tripled, tripled, tripled>>},
                      7, 6, -20, TRUE, FALSE, FALSE, FALSE, TRUE)

MCTasks ==
    MCCompositions
    \union Variants({"filter_sum", "residue_buckets", "prefix_total", "stable_partition"},
             Residues, {-3, 1}, {0}, {3}, BOOLEAN)
    \union Variants({"sort_limit", "unique_occurrence", "longest_run", "outside_in_pairs"},
                    {<<7, 3>>}, {-3, 1}, {-20, 0, 20}, {1, 2, 6}, BOOLEAN)
    \union Variants({"adjacent_difference", "window_sum"}, {<<5, 4>>}, {3},
                    {3 * k : k \in -6 .. 6}, 1 .. 6, {FALSE})
=============================================================================
