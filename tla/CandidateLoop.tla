---------------------------- MODULE CandidateLoop ----------------------------
(***************************************************************************)
(* What the two searching generators of the composition experiment share,  *)
(* find_screened of composition/screening.rs and find_candidate of         *)
(* composition/order_synthesis.rs: a candidate is generated, examined and  *)
(* returned or dropped, until a budget of candidates is used up.  Counters *)
(* kept for the evaluator are left out.                                    *)
(***************************************************************************)
EXTENDS Naturals

CONSTANTS
    Outputs,        \* what a program may answer
    Budget,         \* CANDIDATE_LIMIT
    None

ASSUME LoopAssumption == Budget \in Nat /\ None \notin {"Suite", "Cases", "GenerationExhausted"}

VARIABLES
    pc,         \* where the generation is
    candidates, \* candidates generated so far
    answer      \* what it returned, or None: "Suite" and "Cases" are Ok

loop == <<pc, candidates, answer>>

BeginLoop == pc = "generate" /\ candidates = 0 /\ answer = None

\* Mutated form: the candidates are not counted.
NextCandidateUncounted(label) ==
    /\ pc = "generate" /\ candidates < Budget
    /\ pc' = label
    /\ UNCHANGED <<candidates, answer>>

\* A candidate is generated and examined from `label` on.
NextCandidate(label) ==
    /\ pc = "generate" /\ candidates < Budget
    /\ candidates' = candidates + 1
    /\ pc' = label
    /\ UNCHANGED answer

Goto(label) == pc' = label /\ UNCHANGED <<candidates, answer>>

Return(result) == pc' = "done" /\ answer' = result /\ UNCHANGED candidates

Exhausted ==
    /\ pc = "generate" /\ candidates = Budget
    /\ Return("GenerationExhausted")
=============================================================================
