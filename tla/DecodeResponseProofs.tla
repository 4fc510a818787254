------------------------- MODULE DecodeResponseProofs -------------------------
(***************************************************************************)
(* Proofs about decode_response: what it answers for responses of any      *)
(* number of items, any number of cases and any limit.                     *)
(***************************************************************************)
EXTENDS DecodeResponse, TLAPS

USE ResponseAssumption, DecodeAssumption

\* What a response decode_response receives is made of.
LEMMA ResponseTypes ==
    ASSUME NEW r \in Responses
    PROVE  /\ r.magic \in BOOLEAN
           /\ r.count \in Nat \union {Cut}
           /\ Len(r.items) \in Nat
           /\ \A k \in 1 .. Len(r.items) : r.items[k] \in ItemClasses
  BY DEF Responses

\* The class of the item the loop looks at, or "end" past the last one.
LEMMA ItemAtType ==
    ASSUME NEW r \in Responses, NEW k \in Nat \ {0}
    PROVE  ItemAt(r, k) \in ItemClasses
  BY ResponseTypes DEF ItemAt, ItemClasses

\* The verdict recorded for a failed item: not Passed, and one of the enum.
LEMMA MarkVerdicts ==
    ASSUME NEW item \in Marks
    PROVE  MarkVerdict(item) \in Verdicts \ {"Passed"}
  BY DEF Marks, MarkVerdict, Verdicts

\* The verdict of a return inside the loop is never Passed.
LEMMA StopVerdicts ==
    ASSUME NEW r, NEW k
    PROVE  StopVerdict(r, k) \in Verdicts \ {"Passed"}
  BY DEF StopVerdict, Verdicts

\* The least and the greatest element of a set of integers are the ones a
\* witness shows to be.
LEMMA LeastIs ==
    ASSUME NEW S \in SUBSET Int, NEW k \in S, \A j \in S : k <= j
    PROVE  Least(S) = k
<1>1. Least(S) \in S /\ \A j \in S : Least(S) <= j
  BY Zenon DEF Least
<1>2. k \in Int /\ Least(S) \in Int /\ Least(S) <= k /\ k <= Least(S)
  BY <1>1
<1> QED
  BY <1>2

\* A number that bounds a set from above and belongs to it is its greatest element.
LEMMA GreatestIs ==
    ASSUME NEW S \in SUBSET Int, NEW k \in S, \A j \in S : j <= k
    PROVE  Greatest(S) = k
<1>1. Greatest(S) \in S /\ \A j \in S : j <= Greatest(S)
  BY Zenon DEF Greatest
<1>2. k \in Int /\ Greatest(S) \in Int /\ Greatest(S) <= k /\ k <= Greatest(S)
  BY <1>1
<1> QED
  BY <1>2

\* The closed form is one of the verdicts, and passes what is complete and
\* right and nothing else.
LEMMA VerdictOfPasses ==
    ASSUME NEW r \in Responses
    PROVE  /\ VerdictOf(r) \in Verdicts
           /\ VerdictOf(r) = "Passed" <=> CompleteAndRight(r)
<1>1. CASE ~GoodHeader(r)
  BY <1>1 DEF VerdictOf, CompleteAndRight, Verdicts
<1>2. CASE GoodHeader(r) /\ StopsOf(r) # {}
  <2>1. VerdictOf(r) \in Verdicts \ {"Passed"}
    BY <1>2, StopVerdicts DEF VerdictOf
  <2>2. ~CompleteAndRight(r)
    <3>1. PICK k \in 1 .. r.count : Stops(r, k)
      BY <1>2 DEF StopsOf
    <3>2. CompleteAndRight(r) => k \in 1 .. CaseCount /\ ItemAt(r, k) = "right"
      BY <3>1, ResponseTypes DEF CompleteAndRight, ItemAt
    <3> QED
      BY <3>1, <3>2 DEF Stops, Results, Marks
  <2> QED
    BY <2>1, <2>2
<1>3. CASE GoodHeader(r) /\ StopsOf(r) = {} /\ Len(r.items) > r.count
  <2>1. VerdictOf(r) = "WorkerFailure"
    BY <1>3 DEF VerdictOf
  <2> QED
    BY <1>3, <2>1, ResponseTypes DEF CompleteAndRight, Verdicts
<1>4. CASE GoodHeader(r) /\ StopsOf(r) = {} /\ ~(Len(r.items) > r.count) /\ MarksOf(r) # {}
  <2>1. VerdictOf(r) \in Verdicts \ {"Passed"}
    BY <1>4 DEF VerdictOf, MarkVerdict, Verdicts
  <2>2. PICK k \in 1 .. r.count : ItemAt(r, k) \in Marks
    BY <1>4 DEF MarksOf
  <2>3. ~CompleteAndRight(r)
    BY <2>2, ResponseTypes DEF CompleteAndRight, ItemAt, Marks
  <2> QED
    BY <2>1, <2>3
<1>5. CASE GoodHeader(r) /\ StopsOf(r) = {} /\ ~(Len(r.items) > r.count) /\ MarksOf(r) = {}
  <2>1. VerdictOf(r) = IF r.count # CaseCount THEN "WorkerFailure" ELSE "Passed"
    BY <1>5 DEF VerdictOf
  <2>2. ASSUME r.count = CaseCount PROVE CompleteAndRight(r)
    <3>1. ASSUME NEW k \in 1 .. CaseCount PROVE k <= Len(r.items) /\ r.items[k] = "right"
      <4>1. ItemAt(r, k) \in ItemClasses
        BY ItemAtType
      <4>2. ItemAt(r, k) \in Marks \union {"right"} /\ ItemAt(r, k) \notin Marks
        BY <1>5, <2>2, <4>1 DEF StopsOf, MarksOf, Stops
      <4> QED
        BY <4>2, ResponseTypes DEF ItemAt, Marks
    <3>2. CaseCount <= Len(r.items)
      BY <3>1
    <3> QED
      BY <1>5, <2>2, <3>1, <3>2, ResponseTypes DEF CompleteAndRight
  <2> QED
    BY <2>1, <2>2 DEF CompleteAndRight, Verdicts
<1> QED
  BY <1>1, <1>2, <1>3, <1>4, <1>5

-----------------------------------------------------------------------------
\* Before the first item the loop knows nothing yet.
LEMMA InitLoop == Init => LoopInv
  BY DEF Init, LoopInv, Verdicts

\* A header that is refused ends the loop before it starts.
LEMMA HeaderStep ==
    ASSUME LoopInv, ReadHeader
    PROVE  LoopInv'
<1>1. response' = response /\ at' = at /\ response \in Responses /\ at = 0 /\ verdict = "Passed"
  BY DEF LoopInv, ReadHeader
<1>2. CASE GoodHeader(response)
  <2>1. pc' = "items" /\ verdict' = "Passed"
    BY <1>1, <1>2 DEF ReadHeader
  <2>2. response.count \in 1 .. MaxCases
    BY <1>2 DEF GoodHeader
  <2> QED
    BY <1>1, <1>2, <2>1, <2>2 DEF LoopInv, Verdicts
<1>3. CASE ~GoodHeader(response)
  <2>1. pc' = "returned" /\ verdict' = "WorkerFailure"
    BY <1>3 DEF ReadHeader, Return
  <2>2. VerdictOf(response) = "WorkerFailure"
    BY <1>3 DEF VerdictOf
  <2>3. ~CompleteAndRight(response)
    BY <1>3 DEF CompleteAndRight
  <2> QED
    BY <1>1, <2>1, <2>2, <2>3 DEF LoopInv, Verdicts
<1> QED
  BY <1>2, <1>3

\* What the loop knows while it reads items.
LEMMA InLoop ==
    ASSUME LoopInv, pc = "items"
    PROVE  /\ response \in Responses
           /\ GoodHeader(response)
           /\ response.count \in Nat
           /\ at \in 0 .. response.count
           /\ \A k \in 1 .. at : ~Stops(response, k)
  BY DEF LoopInv, GoodHeader

\* The first item that stops the loop is the least of all that would.
LEMMA StopStep ==
    ASSUME LoopInv, ReadItem, Stops(response, at + 1)
    PROVE  LoopInv'
<1>1. /\ response' = response /\ at' = at + 1 /\ pc = "items" /\ at < response.count
      /\ pc' = "returned" /\ verdict' = StopVerdict(response, at + 1)
  BY DEF ReadItem, Return
<1>2. /\ response \in Responses /\ GoodHeader(response) /\ response.count \in Nat
      /\ at \in Nat /\ \A k \in 1 .. at : ~Stops(response, k)
  BY <1>1, InLoop
<1>3. at + 1 \in StopsOf(response) /\ StopsOf(response) \subseteq Int
  BY <1>1, <1>2 DEF StopsOf
<1>4. \A j \in StopsOf(response) : at + 1 <= j
  BY <1>2 DEF StopsOf
<1>5. Least(StopsOf(response)) = at + 1
  BY <1>3, <1>4, LeastIs
<1>6. verdict' = VerdictOf(response)
  BY <1>1, <1>2, <1>3, <1>5 DEF VerdictOf
<1> QED
  BY <1>1, <1>2, <1>6, VerdictOfPasses DEF LoopInv

\* An item that is read leaves its mark, or leaves the verdict as it was.
LEMMA RecordStep ==
    ASSUME LoopInv, ReadItem, ~Stops(response, at + 1)
    PROVE  LoopInv'
<1>1. /\ response' = response /\ at' = at + 1 /\ pc = "items" /\ at < response.count
      /\ pc' = "items" /\ Record(ItemAt(response, at + 1))
  BY DEF ReadItem
<1>2. /\ response \in Responses /\ GoodHeader(response) /\ response.count \in Nat
      /\ at \in Nat /\ \A k \in 1 .. at : ~Stops(response, k)
  BY <1>1, InLoop
<1>3. \A k \in 1 .. at + 1 : ~Stops(response, k)
  BY <1>2
<1>4. CASE ItemAt(response, at + 1) = "right"
  <2>1. verdict' = verdict
    BY <1>1, <1>4 DEF Record
  <2>2. \/ /\ verdict = "Passed"
           /\ \A k \in 1 .. at + 1 : ItemAt(response, k) = "right"
        \/ \E k \in 1 .. at + 1 :
              /\ ItemAt(response, k) \in Marks
              /\ \A j \in k + 1 .. at + 1 : ItemAt(response, j) = "right"
              /\ verdict = MarkVerdict(ItemAt(response, k))
    BY <1>1, <1>2, <1>4 DEF LoopInv
  <2> QED
    BY <1>1, <1>2, <1>3, <2>1, <2>2 DEF LoopInv
<1>5. CASE ItemAt(response, at + 1) # "right"
  <2>1. ItemAt(response, at + 1) \in Marks
    BY <1>5 DEF Stops
  <2>2. verdict' = MarkVerdict(ItemAt(response, at + 1))
    BY <1>1, <1>5 DEF Record
  <2>3. \E k \in 1 .. at + 1 :
              /\ ItemAt(response, k) \in Marks
              /\ \A j \in k + 1 .. at + 1 : ItemAt(response, j) = "right"
              /\ verdict' = MarkVerdict(ItemAt(response, k))
    <3>1. at + 1 \in 1 .. at + 1 /\ \A j \in (at + 1) + 1 .. at + 1 : FALSE
      BY <1>2
    <3> QED
      BY <2>1, <2>2, <3>1
  <2>4. verdict' \in Verdicts
    BY <2>1, <2>2, MarkVerdicts
  <2> QED
    BY <1>1, <1>2, <1>3, <2>3, <2>4 DEF LoopInv
<1> QED
  BY <1>4, <1>5

\* After the last item, the last mark is the greatest of all.
LEMMA FinishStep ==
    ASSUME LoopInv, Finish
    PROVE  LoopInv'
<1>1. /\ response' = response /\ at' = at /\ pc = "items" /\ at = response.count
      /\ pc' = "returned"
  BY DEF Finish, Return
<1>2. /\ response \in Responses /\ GoodHeader(response) /\ response.count \in Nat
      /\ at \in Nat /\ \A k \in 1 .. at : ~Stops(response, k)
  BY <1>1, InLoop
<1>3. StopsOf(response) = {}
  BY <1>1, <1>2 DEF StopsOf
<1>4. verdict' = VerdictOf(response)
  <2>1. CASE Len(response.items) > response.count
    BY <1>2, <1>3, <2>1 DEF Finish, Return, VerdictOf
  <2>2. CASE /\ ~(Len(response.items) > response.count)
             /\ verdict = "Passed"
             /\ \A k \in 1 .. at : ItemAt(response, k) = "right"
    <3>1. MarksOf(response) = {}
      BY <1>1, <2>2 DEF MarksOf, Marks
    <3> QED
      BY <1>2, <1>3, <2>2, <3>1 DEF Finish, Return, VerdictOf
  <2>3. CASE /\ ~(Len(response.items) > response.count)
             /\ \E k \in 1 .. at :
                   /\ ItemAt(response, k) \in Marks
                   /\ \A j \in k + 1 .. at : ItemAt(response, j) = "right"
                   /\ verdict = MarkVerdict(ItemAt(response, k))
    <3>1. PICK k \in 1 .. at :
                   /\ ItemAt(response, k) \in Marks
                   /\ \A j \in k + 1 .. at : ItemAt(response, j) = "right"
                   /\ verdict = MarkVerdict(ItemAt(response, k))
      BY <2>3
    <3>2. k \in MarksOf(response) /\ MarksOf(response) \subseteq Int
      BY <1>1, <3>1 DEF MarksOf
    <3>3. ASSUME NEW j \in MarksOf(response) PROVE j <= k
      <4>1. j \in 1 .. at /\ ItemAt(response, j) # "right"
        BY <1>1 DEF MarksOf, Marks
      <4> QED
        BY <1>2, <3>1, <4>1
    <3>4. Greatest(MarksOf(response)) = k
      BY <3>2, <3>3, GreatestIs
    <3>5. verdict # "Passed"
      BY <3>1, MarkVerdicts
    <3>6. verdict' = verdict
      BY <2>3, <3>5 DEF Finish, Return
    <3> QED
      BY <1>2, <1>3, <2>3, <3>1, <3>2, <3>4, <3>6 DEF VerdictOf
  <2> QED
    BY <1>1, <2>1, <2>2, <2>3 DEF LoopInv
<1> QED
  BY <1>1, <1>2, <1>4, VerdictOfPasses DEF LoopInv

\* The loop invariant holds in every behaviour.
THEOREM DecodeInvariant == Spec => []LoopInv
<1>1. LoopInv /\ [Next]_vars => LoopInv'
  <2> SUFFICES ASSUME LoopInv, [Next]_vars PROVE LoopInv'
    OBVIOUS
  <2>1. CASE ReadHeader
    BY <2>1, HeaderStep
  <2>2. CASE ReadItem
    BY <2>2, StopStep, RecordStep
  <2>3. CASE Finish
    BY <2>3, FinishStep
  <2>4. CASE UNCHANGED vars
    BY <2>4 DEF vars, LoopInv
  <2> QED
    BY <2>1, <2>2, <2>3, <2>4 DEF Next
<1> QED
  BY InitLoop, <1>1, PTL DEF Spec

\* The loop returns the closed form, for every response.
THEOREM DecodeReturnsVerdictOf == Spec => []ReturnsVerdictOf
<1>1. LoopInv => ReturnsVerdictOf
  BY DEF LoopInv, ReturnsVerdictOf
<1> QED
  BY DecodeInvariant, <1>1, PTL

\* design.md:113: whatever bytes the worker sends, they pass only if every case
\* is answered as expected and nothing else is there.
THEOREM DecodePassedIsComplete == Spec => []PassedIsComplete
<1>1. LoopInv => PassedIsComplete
  BY DEF LoopInv, PassedIsComplete
<1> QED
  BY DecodeInvariant, <1>1, PTL
=============================================================================
