-------------------------- MODULE ScreenedIssuance --------------------------
(***************************************************************************)
(* Engine::issue_screened_composition of crates/coggate-core/src/          *)
(* composition/screening.rs, around the search that Screening describes:   *)
(* the hidden inputs of a composition become the first of a pool, a suite  *)
(* is chosen from it, and eight holdouts are drawn and shuffled in.  Which *)
(* inputs the search takes beyond the boundaries is left open.             *)
(***************************************************************************)
EXTENDS Issuance

CONSTANT Selections(_)  \* the sets of positions the search may take, of so many

VARIABLES
    pool,   \* what the search may choose from, while it is put together
    draws,  \* how many inputs were drawn to fill it up
    suite   \* the inputs the search chose, <<>> without one

screening == <<pool, draws, suite>>
allVars == <<vars, screening>>

ScreenedInit == Init /\ pool = <<>> /\ draws = 0 /\ suite = <<>>

SearchCases == 24
PoolLimit == 128
ExtraDrawLimit == 192

NoCandidateLeft == pc = "generate" /\ Fail("GenerationExhausted") /\ UNCHANGED screening

-----------------------------------------------------------------------------
(***************************************************************************)
(* input_pool and the suite.                                               *)
(***************************************************************************)
Contains(s, x) == \E k \in 1 .. Len(s) : s[k] = x

InsertUnique(inputs, input) ==
    IF Len(inputs) < PoolLimit /\ ~Contains(inputs, input) THEN Append(inputs, input) ELSE inputs

\* The hidden inputs a composition has anyway, and the singletons.
StartPool ==
    /\ pc = "judge" /\ task.kind = "composition" /\ suite = <<>>
    /\ pool' = Fold(InsertUnique, <<>>, cases \o [k \in 1 .. 49 |-> <<k - 25>>])
    /\ draws' = 0
    /\ pc' = "pool"
    /\ UNCHANGED <<request, answer, expires, task, stream, cases, expected, suite>>

\* Out of how many values the draws that fill the pool up are.
PoolDrawnFrom == [extraLength |-> {11}, extra |-> {25, 7, 20001, 9}]

ASSUME PoolDrawAssumption ==
    \A s \in Streams, index \in 0 .. ExtraDrawLimit - 1, k \in 0 .. 12 :
        \A use \in DOMAIN PoolDrawnFrom : \A n \in PoolDrawnFrom[use] :
            Draw(s, use, index, k, n) \in 0 .. n - 1

ExtraLength(draw) == Between("extraLength", draw, 0, 2, 12)

ExtraValue(draw, k) ==
    LET value(lower, upper) == Between("extra", draw, k, lower, upper) IN
    CASE draw % 4 = 0 -> value(-12, 12)
      [] draw % 4 = 1 -> task.threshold + value(-3, 3)
      [] draw % 4 = 2 -> value(-MaxInputAbs, MaxInputAbs)
      [] draw % 4 = 3 -> value(-4, 4) * task.modulus + task.residue

\* The extra input of this zero-based draw; some are sorted or repeat a value.
ExtraInput(draw) ==
    LET length == ExtraLength(draw)
        input == [k \in 1 .. length |-> ExtraValue(draw, k)]
    IN  CASE draw % 5 = 0 -> Sorted(input, FALSE)
          [] draw % 5 = 1 -> Sorted(input, TRUE)
          [] draw % 5 = 2 -> SubSeq(input, 1, length - 1) \o <<input[1]>>
          [] OTHER -> input

PoolFull == draws = ExtraDrawLimit \/ Len(pool) = PoolLimit

ExtraDraw ==
    /\ pc = "pool" /\ ~PoolFull
    /\ pool' = InsertUnique(pool, ExtraInput(draws))
    /\ draws' = draws + 1
    /\ UNCHANGED <<vars, suite>>

Mandatory ==
    << <<>>, <<-MaxInputAbs>>, <<MaxInputAbs>>,
       [k \in 1 .. MaxInputLen |-> IF k % 2 = 1 THEN -MaxInputAbs ELSE MaxInputAbs] >>

Others == Filter(pool, LAMBDA input : ~Contains(Mandatory, input))

\* The search takes as many of the others as complete its cases.
ASSUME SelectionsAssumption ==
    \A n \in 0 .. PoolLimit : \A picked \in Selections(n) :
        picked \subseteq 1 .. n /\ Cardinality(picked) = SearchCases - Len(Mandatory)

Screen ==
    /\ pc = "pool" /\ PoolFull
    /\ \E picked \in Selections(Len(Others)) : cases' = Mandatory \o Keep(Others, picked)
    /\ suite' = cases'
    /\ pool' = <<>> /\ draws' = 0
    /\ pc' = "holdout"
    /\ UNCHANGED <<request, answer, expires, task, stream, expected>>

-----------------------------------------------------------------------------
(***************************************************************************)
(* holdout_inputs: every input mixes the scales.                           *)
(***************************************************************************)
LengthStrata ==
    << <<2, 8>>, <<9, 12>>, <<13, 24>>, <<25, 36>>, <<37, 48>>, <<49, 63>>, <<64, 64>>, <<64, 64>> >>

HoldoutCaseCount == Len(LengthStrata)
CategoryCount == 8

\* Out of how many values the draws of the holdout stream are.
HoldoutDrawnFrom ==
    [holdoutLength |-> {7, 4, 12, 15, 1}, sign |-> {2}, categories |-> 2 .. 6, category |-> {8},
     drawn |-> {8, 7, 9, 240, 3840, 256, 20001}, prefix |-> 2 .. 8, repeat |-> {4},
     repeated |-> {8}, arrange |-> 2 .. 64, all |-> 2 .. 32]

ASSUME HoldoutDrawAssumption ==
    \A s \in Streams, index \in 0 .. 7, k \in 0 .. 64 :
        \A use \in DOMAIN HoldoutDrawnFrom : \A n \in HoldoutDrawnFrom[use] :
            Draw(s, use, index, k, n) \in 0 .. n - 1

\* if random.below(2) == 0 { -1 } else { 1 }
Sign(index, k) == IF Between("sign", index, k, 0, 1) = 0 THEN -1 ELSE 1

\* One value of a category; the small ones have the sign of their input.
Drawn(category, index, k) ==
    LET value(lower, upper) == Between("drawn", index, k, lower, upper) IN
    CASE category = 0 -> 0
      [] category = 1 -> Sign(index, 0) * value(1, 8)
      [] category = 2 -> task.threshold + value(-3, 3)
      [] category = 3 -> value(-4, 4) * task.modulus + task.residue
      [] category = 4 -> Sign(index, k) * value(16, 255)
      [] category = 5 -> Sign(index, k) * value(256, 4095)
      [] category = 6 -> -Sign(index, 0) * value(MaxInputAbs - 255, MaxInputAbs)
      [] category = 7 -> value(-MaxInputAbs, MaxInputAbs)

\* Every category comes once, the two opposite ones first; then any comes.
Values(index, length) ==
    LET categories == <<1, 6>> \o Shuffled("categories", index, <<0, 4, 5, 2, 3, 7>>)
        category(k) == IF k <= CategoryCount THEN categories[k]
                       ELSE Between("category", index, k, 0, CategoryCount - 1)
    IN  [k \in 1 .. length |-> Drawn(category(k), index, k)]

ShuffledPrefix(index, input) ==
    LET n == LesserOf(Len(input), CategoryCount)
    IN  Shuffled("prefix", index, SubSeq(input, 1, n)) \o SubSeq(input, n + 1, Len(input))

Repeated(index, input, k) ==
    IF Between("repeat", index, k, 0, 3) = 0
    THEN input[Between("repeated", index, k, 1, CategoryCount)] ELSE input[k]

\* Mutated form: a duplicate may take the place of any value.
WithDuplicatesAnywhere(index, input) == [k \in 1 .. Len(input) |-> Repeated(index, input, k)]

\* Only positions beyond the prefix may repeat a value of it.
WithDuplicates(index, input) ==
    [k \in 1 .. Len(input) |-> IF k > CategoryCount THEN Repeated(index, input, k) ELSE input[k]]

Arranged(index, input) ==
    CASE index \in {2, 3} -> Sorted(input, index = 3)
      [] index \in {4, 7} -> SubSeq(input, 1, Len(input) - 1) \o <<input[1]>>
      [] index \in {0, 1, 5, 6} -> Shuffled("arrange", index, input)

\* The holdout with this zero-based index.
Holdout(index) ==
    LET stratum == LengthStrata[index + 1]
        length == Between("holdoutLength", index, 0, stratum[1], stratum[2])
        drawn == ShuffledPrefix(index, Values(index, length))
    IN  Arranged(index, IF index \in {1, 4, 7} THEN WithDuplicates(index, drawn) ELSE drawn)

\* append_holdout
AppendHoldout ==
    /\ pc = "holdout"
    /\ cases' = Shuffled("all", 0, cases \o [k \in 1 .. HoldoutCaseCount |-> Holdout(k - 1)])
    /\ pc' = "judge"
    /\ UNCHANGED <<request, answer, expires, task, stream, expected, screening>>

ScreenedNext ==
    \/ Next /\ UNCHANGED screening
    \/ NoCandidateLeft
    \/ StartPool
    \/ ExtraDraw
    \/ Screen
    \/ AppendHoldout

ScreenedSpec == ScreenedInit /\ [][ScreenedNext]_allVars

-----------------------------------------------------------------------------
(***************************************************************************)
(* Properties.                                                             *)
(***************************************************************************)
IsSmall(x) == x \in -8 .. 8 /\ x # 0
IsLarge(x) == x \notin -(MaxInputAbs - 256) .. MaxInputAbs - 256
Opposite(x, y) == (x > 0) # (y > 0)
IsNear(t, x) == x - t.threshold \in -3 .. 3
OnResidue(t, x) == \E m \in -4 .. 4 : x = m * t.modulus + t.residue
IsMedium(x) == x \in (16 .. 255) \union (-255 .. -16)
IsBroad(x) == x \in (256 .. 4095) \union (-4095 .. -256)

\* The scales an input of enough values shows, for the composition t.
ShowsEveryScale(t, input) ==
    /\ \E k \in 1 .. Len(input) : input[k] = 0
    /\ \E k \in 1 .. Len(input) : IsNear(t, input[k])
    /\ \E k \in 1 .. Len(input) : OnResidue(t, input[k])
    /\ \E k \in 1 .. Len(input) : IsMedium(input[k])
    /\ \E k \in 1 .. Len(input) : IsBroad(input[k])

IsMixed(t, input) ==
    /\ \E j, k \in 1 .. Len(input) :
          IsSmall(input[j]) /\ IsLarge(input[k]) /\ Opposite(input[j], input[k])
    /\ Len(input) >= CategoryCount => ShowsEveryScale(t, input)

\* screening.rs:239 "Long inputs contain every category [...].  Short inputs retain
\* both a small and a large value with opposite signs": whatever is drawn,
\* repeated, sorted and shuffled, a screened challenge has the whole suite of the
\* search and, in each of the eight bands of length, such an input.
HoldoutsAreMixed ==
    (Issued /\ suite # <<>>) =>
        LET withLength(band) ==
                {i \in 1 .. Len(cases) : Len(cases[i]) \in band[1] .. band[2] /\ IsMixed(task, cases[i])}
        IN  /\ \A k \in 1 .. SearchCases : Contains(cases, suite[k])
            /\ \A k \in 1 .. HoldoutCaseCount : withLength(LengthStrata[k]) # {}
            /\ Cardinality(withLength(<<64, 64>>)) >= 2
=============================================================================
