------------------------------ MODULE Issuance ------------------------------
(***************************************************************************)
(* Engine::issue of crates/coggate-core/src/lib.rs: a request is           *)
(* validated, a task is drawn, its hidden inputs are put together          *)
(* (Task::test_inputs), shuffled, and paired with what the task evaluates  *)
(* to.  Engine::issue_composition does the same with a composition for a   *)
(* task.  The private stream is keyed by HMAC; here it may be any that     *)
(* stays below the bound of every draw.                                    *)
(***************************************************************************)
EXTENDS Composition

CONSTANTS
    Requests,       \* records of the scope's bytes, the factor's bytes, the clock
    SampledTasks,   \* the tasks Task::generate and Composition::generate may draw
    Streams,        \* the private test streams
    Draw(_, _, _, _, _),    \* what a stream gives for a use, in the input with an
                            \* index, at a position, out of so many values
    MaxTime,        \* u64::MAX
    None

MaxScopeBytes == 128
MaxFactorBytes == 1024
ChallengeTtl == 180
MaxInputLen == 64
MaxInputAbs == 10000
HiddenTestCount == 32

ASSUME IssuanceAssumption ==
    /\ Requests \subseteq [scope : Nat, factor : Nat, now : 0 .. MaxTime]
    /\ \A t \in SampledTasks : IsComposition(t) \/ t \in Task
    /\ MaxTime \in Nat
    /\ None \notin {"Ok", "TimeOverflow"}

\* Out of how many values the draws of each use are.
DrawnFrom == [length |-> {65}, value |-> {20001, 17, 5}, remainder |-> 2 .. 7, shuffle |-> 2 .. 32]

\* RandomStream::below
ASSUME DrawAssumption ==
    \A s \in Streams, index \in 0 .. 31, k \in 0 .. 64 :
        \A use \in DOMAIN DrawnFrom : \A n \in DrawnFrom[use] :
            Draw(s, use, index, k, n) \in 0 .. n - 1

VARIABLES
    pc,         \* "validate", "generate", "fixed", "random", "pool", "holdout", "judge" or "done"
    request,
    answer,     \* "Ok" or an Error, or None
    expires,    \* expires_at of the challenge
    task,
    stream,     \* what the private test stream draws
    cases,      \* the hidden inputs
    expected    \* what each of them has to give

vars == <<pc, request, answer, expires, task, stream, cases, expected>>

\* RandomStream::between
Between(use, index, k, lower, upper) == lower + Draw(stream, use, index, k, upper - lower + 1)

Init ==
    /\ pc = "validate"
    /\ request \in Requests
    /\ answer = None
    /\ expires = None
    /\ task = None
    /\ stream \in Streams
    /\ cases = <<>>
    /\ expected = <<>>

Fail(error) ==
    /\ pc' = "done"
    /\ answer' = error
    /\ UNCHANGED <<request, expires, task, stream, cases, expected>>

\* now.checked_add(CHALLENGE_TTL_SECS)
CheckedExpiry(now) ==
    IF now + ChallengeTtl > MaxTime THEN [error |-> "TimeOverflow", expires |-> None]
    ELSE [error |-> None, expires |-> now + ChallengeTtl]

ValidateRequest ==
    LET checked == CheckedExpiry(request.now) IN
    /\ pc = "validate"
    /\ \/ request.scope \notin 1 .. MaxScopeBytes /\ Fail("InvalidScope")
       \/ /\ request.scope \in 1 .. MaxScopeBytes
          /\ request.factor > MaxFactorBytes
          /\ Fail("ContextFactorTooLarge")
       \/ /\ request.scope \in 1 .. MaxScopeBytes
          /\ request.factor <= MaxFactorBytes
          /\ \/ checked.error # None /\ Fail(checked.error)
             \/ /\ checked.error = None
                /\ expires' = checked.expires
                /\ pc' = "generate"
                /\ UNCHANGED <<request, answer, task, stream, cases, expected>>

NoRandomness == pc = "generate" /\ Fail("RandomnessUnavailable")

Generate ==
    /\ pc = "generate"
    /\ task' \in SampledTasks
    /\ pc' = "fixed"
    /\ UNCHANGED <<request, answer, expires, stream, cases, expected>>

(***************************************************************************)
(* Task::test_inputs and Composition::test_inputs                          *)
(***************************************************************************)
Constantly(x, n) == [k \in 1 .. n |-> x]

Around(x) == <<x - 1, x, x + 1>>

\* The four boundary cases that differ between a task and a composition.
ThresholdCases ==
    IF task.kind = "composition"
    THEN << Constantly(task.threshold - 1, 7), Constantly(task.threshold, 7),
            Constantly(task.threshold + 1, 7), [k \in 1 .. 17 |-> k - 9] >>
    ELSE << <<task.threshold, task.threshold, task.threshold - 1, task.threshold, task.threshold>>,
            Constantly(1, task.width - 1),
            Constantly(task.threshold, task.width),
            Constantly(1, task.width + 1) >>

BoundaryCases ==
    << <<>>, <<0>>, <<-MaxInputAbs>>, <<MaxInputAbs>>, <<-MaxInputAbs, MaxInputAbs>>,
       Around(task.threshold),
       <<task.residue - task.modulus, task.residue, task.residue + task.modulus>>,
       <<2, 1, 2, -1, 1, 0, -1>>,
       Constantly(0, MaxInputLen),
       Constantly(MaxInputAbs, MaxInputLen),
       Constantly(-MaxInputAbs, MaxInputLen),
       [k \in 1 .. MaxInputLen |-> IF k % 2 = 1 THEN -MaxInputAbs ELSE MaxInputAbs] >>
    \o ThresholdCases

\* Mutated form: no case is added for the kind of the task.
NoKindCases == <<>>

KindCases ==
    CASE task.kind = "adjacent_difference" ->
           LET around == Around(Limit(task))
           IN  [k \in 1 .. 6 |-> <<0, IF k % 2 = 1 THEN -around[(k + 1) \div 2]
                                      ELSE around[(k + 1) \div 2]>>]
      [] task.kind = "window_sum" ->
           [k \in 1 .. 3 |-> <<Around(task.threshold)[k]>> \o Constantly(0, task.width - 1)]
      [] OTHER -> <<>>

FixedCases ==
    /\ pc = "fixed"
    /\ cases' = BoundaryCases \o KindCases
    /\ pc' = "random"
    /\ UNCHANGED <<request, answer, expires, task, stream, expected>>

\* The k-th value of the random case with this zero-based index.
RandomValue(index, k) ==
    CASE index % 4 = 0 -> Between("value", index, k, -MaxInputAbs, MaxInputAbs)
      [] index % 4 = 1 -> Between("value", index, k, -8, 8)
      [] index % 4 = 2 -> task.threshold + Between("value", index, k, -2, 2)
      [] index % 4 = 3 ->
           Between("value", index, k, -8, 8) * task.modulus
           + IF task.kind = "composition" THEN task.residue
                                          ELSE Between("remainder", index, k, 0, task.modulus - 1)

RandomLength(index) == Between("length", index, 0, 0, MaxInputLen)

\* Mutated form: one case more than was asked for.
RandomCaseTooMany ==
    /\ pc = "random"
    /\ Len(cases) <= HiddenTestCount
    /\ LET index == Len(cases) IN
       cases' = Append(cases, [k \in 1 .. RandomLength(index) |-> RandomValue(index, k)])
    /\ UNCHANGED <<pc, request, answer, expires, task, stream, expected>>

RandomCase ==
    /\ pc = "random"
    /\ Len(cases) < HiddenTestCount
    /\ LET index == Len(cases) IN
       cases' = Append(cases, [k \in 1 .. RandomLength(index) |-> RandomValue(index, k)])
    /\ UNCHANGED <<pc, request, answer, expires, task, stream, expected>>

Swapped(s, i, j) == [s EXCEPT ![i] = s[j], ![j] = s[i]]

\* From the last value to the second, each changes place with one up to itself.
Shuffled(use, index, s) ==
    IF s = <<>> THEN s ELSE
    Fold(LAMBDA t, i : Swapped(t, i, Between(use, index, i, 1, i)),
         s, [j \in 1 .. Len(s) - 1 |-> Len(s) + 1 - j])

Shuffle ==
    /\ pc = "random"
    /\ Len(cases) >= HiddenTestCount
    /\ cases' = Shuffled("shuffle", 0, cases)
    /\ pc' = "judge"
    /\ UNCHANGED <<request, answer, expires, task, stream, expected>>

Expected(input) ==
    IF task.kind = "composition" THEN Composed(task, input) ELSE Evaluate(task, input)

Judge ==
    /\ pc = "judge"
    /\ expected' = [k \in 1 .. Len(cases) |-> Expected(cases[k])]
    /\ answer' = "Ok"
    /\ pc' = "done"
    /\ UNCHANGED <<request, expires, task, stream, cases>>

Next ==
    \/ ValidateRequest \/ NoRandomness \/ Generate
    \/ FixedCases \/ RandomCase \/ Shuffle \/ Judge

Spec == Init /\ [][Next]_vars

-----------------------------------------------------------------------------
(***************************************************************************)
(* Properties.                                                             *)
(***************************************************************************)
Issued == answer = "Ok"

\* design.md "Wire framing": a request carries at most 32 cases, and the prompt
\* promises inputs of up to 64 integers from -10000 to 10000.  Whatever cases a
\* family or the screening adds and however the draws fall out, a challenge has
\* exactly that many, an expectation for each, no input outside the contract,
\* and expires after it was issued.
FitsTheRequest ==
    Issued =>
        /\ Len(cases) = HiddenTestCount /\ Len(expected) = HiddenTestCount
        /\ \A i \in 1 .. Len(cases) :
              /\ Len(cases[i]) <= MaxInputLen
              /\ \A k \in 1 .. Len(cases[i]) : cases[i][k] \in -MaxInputAbs .. MaxInputAbs
        /\ expires > request.now

\* A solver that follows the prompt is judged right: on every hidden input the
\* value the host expects is the one the rules of the prompt describe.
PromptIsKept ==
    Issued => \A i \in 1 .. Len(cases) :
        IF task.kind = "composition" THEN IsComposed(task, cases[i], expected[i])
                                     ELSE IsAnswer(task, cases[i], expected[i])

\* design.md "Outputs remain exactly representable": no hidden case makes a
\* right program produce a number JavaScript cannot hold or an array too long.
\* The limits are what three times 64 values, and five transformations of 64
\* values each, can reach.
Exact(x) ==
    LET limit == IF task.kind = "composition" THEN 155589696 ELSE 2000000
    IN  x \in -limit .. limit

YieldsNumber == IF task.kind = "composition" THEN task.sum ELSE task.kind = "filter_sum"

OutputsAreExact ==
    Issued => \A i \in 1 .. Len(expected) :
        IF YieldsNumber THEN Exact(expected[i])
        ELSE /\ Len(expected[i]) <= MaxInputLen
             /\ \A k \in 1 .. Len(expected[i]) : Exact(expected[i][k])

\* The plausible mistakes of a solver: a strict bound where the prompt says "at
\* least" or "at most", the other order or tie, a limit or width one too large.
Mistakes ==
    CASE task.kind = "sort_limit" -> {"strict", "otherWay", "wider"}
      [] task.kind = "unique_occurrence" -> {"otherWay"}
      [] task.kind = "longest_run" -> {"strict", "otherWay"}
      [] task.kind = "adjacent_difference" -> {"strictLower", "strictUpper", "wider"}
      [] task.kind = "window_sum" -> {"strict", "wider"}
      [] task.kind = "outside_in_pairs" -> {"otherWay"}
      [] OTHER -> {}

Mistaken(mistake, input) ==
    CASE mistake = "strict" -> Evaluate([task EXCEPT !.threshold = @ + 1], input)
      [] mistake = "otherWay" -> Evaluate([task EXCEPT !.reverse = ~@], input)
      [] mistake = "wider" -> Evaluate([task EXCEPT !.width = @ + 1], input)
      [] mistake = "strictLower" -> DifferencesIn(task, input, 1 - Limit(task) .. Limit(task))
      [] mistake = "strictUpper" -> DifferencesIn(task, input, -Limit(task) .. Limit(task) - 1)

\* task.rs "Exercise each signed boundary and its neighbours": whatever the
\* random cases are, each of these mistakes fails a hidden case of the challenge.
MistakesFail ==
    Issued => \A mistake \in Mistakes : \E i \in 1 .. Len(cases) :
        Mistaken(mistake, cases[i]) # expected[i]
=============================================================================
