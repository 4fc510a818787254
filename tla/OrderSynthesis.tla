--------------------------- MODULE OrderSynthesis ---------------------------
(***************************************************************************)
(* Order synthesis of crates/coggate-core/src/composition/                 *)
(* order_synthesis.rs: a hidden order of operation cards is published by   *)
(* examples alone, and judged on inputs drawn after that.                  *)
(*                                                                         *)
(* A candidate gives what each order of its cards answers on each input,   *)
(* and which order is the hidden one.  Two orders may answer alike, on     *)
(* some inputs or on all.  Counters kept for the evaluator are left out.   *)
(***************************************************************************)
EXTENDS CandidateLoop, Naturals, FiniteSets

CONSTANTS
    Orders,         \* the permutations of the cards
    Inputs,
    Candidates,     \* what the generator may give
    PublicProbes,   \* PUBLIC_PROBE_LIMIT
    CaseCount,      \* HIDDEN_TEST_COUNT
    PrivateDraws    \* PRIVATE_DRAW_LIMIT

ASSUME OrderAssumption ==
    /\ IsFiniteSet(Orders)
    /\ Candidates \subseteq [meaning : [Orders -> [Inputs -> Outputs]], hidden : Orders]
    /\ PublicProbes \in Nat
    /\ CaseCount \in Nat
    /\ PrivateDraws \in Nat /\ CaseCount <= PrivateDraws
    /\ None \notin Candidates

VARIABLES
    candidate,  \* the candidate in hand, or None
    survivors,  \* the orders that agree with it on every probe
    shown,      \* the inputs of the public examples
    probes,     \* probes taken for it
    seen,       \* history: the inputs probed
    cases,      \* the private inputs
    draws       \* private inputs drawn

search == <<candidate, survivors, shown, probes, seen>>
private == <<cases, draws>>
orderVars == <<loop, search, private>>

Reference(input) == candidate.meaning[candidate.hidden][input]

\* The orders that answer these inputs as the hidden one does.
Agreeing(inputs) ==
    {order \in Orders : \A x \in inputs : candidate.meaning[order][x] = Reference(x)}

\* distinct_outputs
Distinct(inputs) == \E x, y \in inputs : Reference(x) # Reference(y)

NoCandidate ==
    /\ candidate = None /\ survivors = {} /\ shown = {} /\ probes = 0 /\ seen = {}

OrderInit ==
    /\ BeginLoop
    /\ NoCandidate
    /\ cases = {} /\ draws = 0

GenerateOrdered ==
    /\ NextCandidate("probe")
    /\ \E c \in Candidates : candidate' = c
    /\ survivors' = Orders /\ shown' = {} /\ probes' = 0 /\ seen' = {}
    /\ UNCHANGED private

\* Mutated form: only what excludes an order is shown.
IsExampleByOrder(input, left) == shown = {} \/ left # survivors

\* A probe becomes an example if it is the first, if it excludes an order, or
\* if it is the first to show a second output.
IsExample(input, left) ==
    \/ shown = {}
    \/ left # survivors
    \/ ~Distinct(shown) /\ \A x \in shown : Reference(x) # Reference(input)

\* Mutated form: a constant task is published as well.
IsUniqueOrder(left, examples) == Cardinality(left) = 1

IsUnique(left, examples) == Cardinality(left) = 1 /\ Distinct(examples)

Probe(input) ==
    LET left == {order \in survivors : candidate.meaning[order][input] = Reference(input)}
        examples == IF IsExample(input, left) THEN shown \union {input} ELSE shown
    IN
    /\ pc = "probe" /\ probes < PublicProbes
    /\ probes' = probes + 1
    /\ seen' = seen \union {input}
    /\ survivors' = left
    /\ shown' = examples
    /\ Goto(IF IsUnique(left, examples) THEN "private" ELSE "probe")
    /\ UNCHANGED <<candidate, private>>

\* The probes are used up: ambiguous, or constant.
RejectCandidate ==
    /\ pc = "probe" /\ probes = PublicProbes
    /\ Goto("generate")
    /\ candidate' = None /\ survivors' = {} /\ shown' = {} /\ probes' = 0 /\ seen' = {}
    /\ UNCHANGED private

OrderExhausted == Exhausted /\ UNCHANGED <<search, private>>

\* Mutated form: a private input may be one of the examples.
IsPrivateToItself(input) == input \notin cases

IsPrivate(input) == input \notin cases \union shown

Full == Cardinality(cases) = CaseCount

\* The first CaseCount draws are the fixed inputs of the task, all of them made;
\* further ones are made until there are enough cases.
DrawPrivate(input) ==
    /\ pc = "private" /\ draws < PrivateDraws
    /\ draws < CaseCount \/ ~Full
    /\ draws' = draws + 1
    /\ cases' = IF ~Full /\ IsPrivate(input) THEN cases \union {input} ELSE cases
    /\ UNCHANGED <<loop, search>>

ReturnCases ==
    /\ pc = "private" /\ draws >= CaseCount
    /\ Full \/ draws = PrivateDraws
    /\ Return(IF Full THEN "Cases" ELSE "GenerationExhausted")
    /\ UNCHANGED <<search, private>>

OrderNext ==
    \/ GenerateOrdered
    \/ \E x \in Inputs : Probe(x) \/ DrawPrivate(x)
    \/ RejectCandidate
    \/ OrderExhausted
    \/ ReturnCases

-----------------------------------------------------------------------------
(***************************************************************************)
(* Properties.                                                             *)
(***************************************************************************)
\* order_synthesis.rs:217: the probes that are not shown say nothing more.  At
\* every point the orders left are those that agree with the examples alone, and
\* the examples show two outputs exactly if the probes did.
ExamplesSayAll ==
    candidate # None =>
        /\ shown \subseteq seen
        /\ survivors = Agreeing(seen)
        /\ survivors = Agreeing(shown)
        /\ Distinct(seen) <=> Distinct(shown)

\* order_synthesis.rs:328, in the prompt, "Exactly one permutation of the
\* distinct card identifiers agrees with every public example": a challenge that
\* is issued can be solved from its examples, whatever the private cases are,
\* and no constant program agrees with them.
ExamplesIdentifyTheOrder ==
    answer = "Cases" => Agreeing(shown) = {candidate.hidden} /\ Distinct(shown)

\* order_synthesis.rs:247 private_cases: the challenge is judged on CaseCount
\* inputs, and a program that repeats the examples has none of them.
PrivateCasesAreUnseen ==
    answer = "Cases" => Cardinality(cases) = CaseCount /\ cases \intersect shown = {}
=============================================================================
