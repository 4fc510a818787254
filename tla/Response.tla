------------------------------- MODULE Response -------------------------------
(***************************************************************************)
(* The worker's response and what decode_response of                       *)
(* crates/coggate/src/runtime.rs makes of it, in closed form.  A response  *)
(* is what its bytes say, not the bytes: a frame of the wire format is one *)
(* element, classified by what the parent's parser can tell apart.         *)
(***************************************************************************)
EXTENDS Integers, Sequences

CONSTANTS
    CaseCount,  \* challenge.cases().len()
    MaxCases,   \* MAX_CASES
    Cut         \* the bytes end before the count

ASSUME ResponseAssumption ==
    /\ CaseCount \in Nat \ {0}
    /\ MaxCases \in Nat
    /\ CaseCount <= MaxCases
    /\ Cut \notin Nat

Results == {"right", "wrong", "garbled"}            \* status 0: the JSON against expected()
Marks == {"wrong", "rejected", "exhausted"}         \* recorded; decoding goes on
ItemClasses == Results \union {"rejected", "exhausted", "failed", "oversized", "cut"}
Verdicts == {"Passed", "WrongAnswer", "InvalidSubmission", "ResourceLimit", "WorkerFailure"}

\* Items the response claims but does not hold are cut as well.
ItemAt(response, k) == IF k <= Len(response.items) THEN response.items[k] ELSE "cut"

GoodHeader(response) ==
    /\ response.magic
    /\ response.count # Cut
    /\ response.count \in 1 .. MaxCases

\* Decoding ends at this item: it is broken, or it answers a case there is not.
Stops(response, k) ==
    \/ ItemAt(response, k) \notin Marks \union {"right"}
    \/ ItemAt(response, k) \in Results /\ k > CaseCount

StopVerdict(response, k) ==
    CASE ItemAt(response, k) = "oversized" -> "ResourceLimit"
      [] ItemAt(response, k) = "garbled" /\ k <= CaseCount -> "InvalidSubmission"
      [] OTHER -> "WorkerFailure"

MarkVerdict(item) ==
    CASE item = "wrong" -> "WrongAnswer"
      [] item = "rejected" -> "InvalidSubmission"
      [] OTHER -> "ResourceLimit"

StopsOf(response) == {k \in 1 .. response.count : Stops(response, k)}
MarksOf(response) == {k \in 1 .. response.count : ItemAt(response, k) \in Marks}

Least(S) == CHOOSE k \in S : \A j \in S : k <= j
Greatest(S) == CHOOSE k \in S : \A j \in S : j <= k

\* The first item that stops decoding decides; then bytes left over; then the
\* last recorded mark; then the number of cases answered.
VerdictOf(response) ==
    IF ~GoodHeader(response) THEN "WorkerFailure"
    ELSE IF StopsOf(response) # {} THEN StopVerdict(response, Least(StopsOf(response)))
    ELSE IF Len(response.items) > response.count THEN "WorkerFailure"
    ELSE IF MarksOf(response) # {}
         THEN MarkVerdict(ItemAt(response, Greatest(MarksOf(response))))
    ELSE IF response.count # CaseCount THEN "WorkerFailure"
    ELSE "Passed"

\* Every case answered, each as expected, and nothing else.
CompleteAndRight(response) ==
    /\ GoodHeader(response)
    /\ response.count = CaseCount
    /\ Len(response.items) = CaseCount
    /\ \A k \in 1 .. CaseCount : response.items[k] = "right"
=============================================================================
