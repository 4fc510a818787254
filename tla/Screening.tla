------------------------------ MODULE Screening ------------------------------
(***************************************************************************)
(* Quality screening of crates/coggate-core/src/composition/screening.rs:  *)
(* candidates are generated until one differs, within a pool of inputs,    *)
(* from every rival program, and the judged inputs are chosen so that they *)
(* show it.                                                                *)
(*                                                                         *)
(* The rivals are numbered in the order of the code.  The first always     *)
(* answers as the first input of the pool is answered, the second returns  *)
(* no values; of the others (shortcuts, deleted stages, dropped or         *)
(* misplaced conditions) only the inputs they differ on matter.  Counters  *)
(* kept for the evaluator are left out.                                    *)
(***************************************************************************)
EXTENDS CandidateLoop, Naturals, Sequences, FiniteSets

CONSTANTS
    Empty,          \* the input without values
    Boundaries,     \* the inputs every suite has to contain
    Draws,          \* the sequences of inputs input_pool may draw
    Nothing,        \* the output without values, or their sum
    RivalCounts,    \* how many rivals a candidate may have
    PoolLimit,      \* POOL_LIMIT
    SearchCases     \* SEARCH_CASE_COUNT

PoolInputs == UNION {{draws[k] : k \in DOMAIN draws} : draws \in Draws}

ASSUME ScreeningAssumption ==
    /\ IsFiniteSet(Boundaries) /\ Empty \in Boundaries
    /\ Cardinality(Boundaries) <= SearchCases
    /\ Draws \subseteq Seq(PoolInputs) \ {<<>>}
    /\ Nothing \in Outputs
    /\ RivalCounts \subseteq Nat \ {0, 1}
    /\ PoolLimit \in Nat \ {0}
    /\ SearchCases \in Nat

VARIABLES
    rest,       \* inputs still to be offered to the pool
    pool,       \* the input pool
    output,     \* the answers of the candidate to the pool
    rivals,     \* how many rivals the candidate has
    differs,    \* history: for each screened rival, the positions where it answers otherwise
    masks,      \* for each position, the requirements it witnesses
    selected    \* the positions chosen

locals == <<rest, pool, output, rivals, differs, masks, selected>>
screeningVars == <<loop, locals>>

Positions == 1 .. Len(pool)

NoPool ==
    /\ rest = <<>> /\ pool = <<>> /\ output = <<>> /\ rivals = 0
    /\ differs = <<>> /\ masks = <<>> /\ selected = {}

ScreeningInit == BeginLoop /\ NoPool

GenerateScreened ==
    /\ NextCandidate("pool")
    /\ \E draws \in Draws : rest' = draws
    /\ \E n \in RivalCounts : rivals' = n
    /\ UNCHANGED <<pool, output, differs, masks, selected>>

\* The candidate is dropped; the next one starts from nothing.
Reject ==
    /\ Goto("generate")
    /\ rest' = <<>> /\ pool' = <<>> /\ output' = <<>> /\ rivals' = 0
    /\ differs' = <<>> /\ masks' = <<>> /\ selected' = {}

InsertUnique(input) ==
    IF Len(pool) < PoolLimit /\ \A k \in Positions : pool[k] # input
    THEN Append(pool, input) ELSE pool

InsertNext ==
    /\ pc = "pool" /\ rest # <<>>
    /\ pool' = InsertUnique(Head(rest))
    /\ rest' = Tail(rest)
    /\ UNCHANGED <<loop, output, rivals, differs, masks, selected>>

\* The candidate answers the pool.  No stage makes values out of none.
EvaluatePool ==
    /\ pc = "pool" /\ rest = <<>>
    /\ output' \in [Positions -> Outputs]
    /\ \A k \in Positions : pool[k] = Empty => output'[k] = Nothing
    /\ masks' = [k \in Positions |-> {}]
    /\ Goto("screen")
    /\ UNCHANGED <<rest, pool, rivals, differs, selected>>

\* Mutated form: the program that returns nothing is not among the rivals.
DifferencesOfOthers(rival) ==
    CASE rival = 1 -> {{k \in Positions : output[k] # output[1]}}
      [] OTHER -> SUBSET {k \in Positions : pool[k] # Empty}

\* Where a rival may answer otherwise than the candidate.  The empty input is
\* answered with nothing by every other rival too.
Differences(rival) ==
    CASE rival = 1 -> {{k \in Positions : output[k] # output[1]}}
      [] rival = 2 -> {{k \in Positions : output[k] # Nothing}}
      [] OTHER -> SUBSET {k \in Positions : pool[k] # Empty}

\* add_requirement, and the rejection of a candidate that gets no witness.
AddRequirement(difference) ==
    IF difference = {} THEN Reject
    ELSE /\ masks' = [k \in Positions |-> IF k \in difference
                                          THEN masks[k] \union {Len(differs) + 1} ELSE masks[k]]
         /\ differs' = Append(differs, difference)
         /\ UNCHANGED <<loop, rest, pool, output, rivals, selected>>

ScreenRival ==
    /\ pc = "screen" /\ Len(differs) < rivals
    /\ \E difference \in Differences(Len(differs) + 1) : AddRequirement(difference)

Covered(positions) == UNION {masks[k] : k \in positions}
Required == 1 .. rivals
Gain(k) == Cardinality(masks[k] \ Covered(selected))
Unused == Positions \ selected

TakeBoundaries ==
    /\ pc = "screen" /\ Len(differs) = rivals
    /\ IF Boundaries \subseteq {pool[k] : k \in Positions}
       THEN /\ selected' = {k \in Positions : pool[k] \in Boundaries}
            /\ Goto("select")
            /\ UNCHANGED <<rest, pool, output, rivals, differs, masks>>
       ELSE Reject

\* The unused position that adds most, the first of several.
IsBest(k) ==
    /\ k \in Unused
    /\ Gain(k) > 0
    /\ \A j \in Unused : Gain(j) < Gain(k) \/ (Gain(j) = Gain(k) /\ k <= j)

HasRoom == Cardinality(selected) < SearchCases

SelectNext ==
    /\ pc = "select" /\ Covered(selected) # Required
    /\ HasRoom
    /\ \E k \in Positions : IsBest(k) /\ selected' = selected \union {k}
    /\ UNCHANGED <<loop, rest, pool, output, rivals, differs, masks>>

\* No room for another input, or none that adds anything.
RejectUncovered ==
    /\ pc = "select" /\ Covered(selected) # Required
    /\ ~(HasRoom /\ \E k \in Positions : IsBest(k))
    /\ Reject

\* The first unused positions, up to the number of cases.
IsFilling(positions) ==
    /\ selected \subseteq positions
    /\ Cardinality(positions) = SearchCases
    /\ \A k \in positions \ selected, j \in Unused : j < k => j \in positions

\* Mutated form: the suite is filled whether or not it covers.
ConcludeUncovered ==
    /\ pc = "select"
    /\ \E positions \in SUBSET Positions :
          IsFilling(positions) /\ selected' = positions
    /\ Goto("holdout")
    /\ UNCHANGED <<rest, pool, output, rivals, differs, masks>>

Conclude ==
    /\ pc = "select" /\ Covered(selected) = Required
    /\ \/ /\ \E positions \in SUBSET Positions :
                IsFilling(positions) /\ selected' = positions
          /\ Goto("holdout")
          /\ UNCHANGED <<rest, pool, output, rivals, differs, masks>>
       \/ Cardinality(Positions) < SearchCases /\ Reject

\* The holdout inputs are drawn now, and chosen by nothing the search found.
AppendHoldout ==
    /\ pc = "holdout"
    /\ Return("Suite")
    /\ UNCHANGED locals

ScreeningExhausted == Exhausted /\ UNCHANGED locals

ScreeningNext ==
    \/ GenerateScreened \/ InsertNext \/ EvaluatePool \/ ScreenRival \/ TakeBoundaries
    \/ SelectNext \/ RejectUncovered \/ Conclude \/ AppendHoldout \/ ScreeningExhausted

-----------------------------------------------------------------------------
(***************************************************************************)
(* Properties.                                                             *)
(***************************************************************************)
\* docs/shortcut-hardening.md:53 "The selected cases, rather than just the larger
\* probe pool, must reject every screened shortcut and mutation": whatever was
\* taken in which order, an accepted suite has SearchCases different inputs, the
\* boundaries among them, and for every rival one it answers otherwise.
SuiteDiscriminates ==
    answer = "Suite" =>
        /\ Cardinality({pool[k] : k \in selected}) = SearchCases
        /\ Boundaries \subseteq {pool[k] : k \in selected}
        /\ Len(differs) = rivals
        /\ \A rival \in Required : selected \intersect differs[rival] # {}

\* docs/shortcut-hardening.md:36 "It looks for inputs that distinguish the
\* reference behavior from: A constant output [...]": no constant program passes an
\* accepted suite.  The screen for constants compares with the first input of the
\* pool only, which need not be selected; that the suite is not constant follows
\* from the empty input being in it and from the rival that returns nothing.
SuiteIsNotConstant ==
    answer = "Suite" => \E j, k \in selected : output[j] # output[k]
=============================================================================
