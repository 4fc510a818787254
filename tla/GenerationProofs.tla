--------------------------- MODULE GenerationProofs ---------------------------
(***************************************************************************)
(* Proofs about the two searching generators, for every generator of       *)
(* inputs and candidates, every number of rivals, every set of orders,     *)
(* inputs and outputs, and every limit.                                    *)
(***************************************************************************)
EXTENDS Generation, FiniteSetTheorems, TLAPS

\* The steps of the loop are abbreviations here: every proof looks through them.
USE DEF loop, BeginLoop, NextCandidate, Goto, Return, Exhausted

(***************************************************************************)
(* The screening.                                                          *)
(***************************************************************************)
\* The pool holds inputs, each of them once.
PoolInv ==
    /\ rest \in Seq(PoolInputs)
    /\ pool \in Seq(PoolInputs)
    /\ \A j, k \in Positions : pool[j] = pool[k] => j = k

\* The masks say what the rivals screened so far were found to answer otherwise.
MasksInv ==
    /\ rivals \in RivalCounts
    /\ differs \in Seq(SUBSET Positions)
    /\ Len(differs) <= rivals
    /\ masks = [k \in Positions |-> {r \in 1 .. Len(differs) : k \in differs[r]}]
    /\ Len(differs) >= 2 => differs[2] = {k \in Positions : output[k] # Nothing}
    /\ \A k \in Positions : pool[k] = Empty => output[k] = Nothing

\* The selection starts from the boundaries, when all rivals have been screened.
SelectionInv ==
    /\ Len(differs) = rivals
    /\ selected \subseteq Positions
    /\ Boundaries \subseteq {pool[k] : k \in selected}

\* What a suite is returned with.
IsSuite ==
    /\ MasksInv /\ SelectionInv
    /\ Covered(selected) = Required
    /\ Cardinality(selected) = SearchCases

ScreeningInv ==
    /\ pc \in {"generate", "pool", "screen", "select", "holdout", "done"}
    /\ PoolInv
    /\ pc # "done" => answer = None
    /\ pc = "generate" => pool = <<>> /\ differs = <<>>
    /\ pc = "pool" => differs = <<>> /\ rivals \in RivalCounts
    /\ pc = "screen" => MasksInv
    /\ pc = "select" => MasksInv /\ SelectionInv
    /\ pc = "holdout" => IsSuite
    /\ answer = "Suite" => IsSuite

-----------------------------------------------------------------------------
\* A generation begins without a candidate.
LEMMA InitScreening ==
    ASSUME ScreeningInit
    PROVE  ScreeningInv
  BY LoopAssumption, ScreeningAssumption DEF ScreeningInit, NoPool, ScreeningInv, PoolInv, Positions

\* The next candidate starts from nothing, whatever the rejected one left.
LEMMA RejectResets ==
    ASSUME ScreeningInv, pc # "done", Reject
    PROVE  ScreeningInv'
  BY LoopAssumption, ScreeningAssumption DEF Reject, ScreeningInv, PoolInv, Positions

\* A step that leaves the pool, the rivals and the masks leaves what is known of them.
LEMMA UnchangedMasks ==
    ASSUME UNCHANGED <<pool, output, rivals, differs, masks>>
    PROVE  /\ MasksInv' <=> MasksInv
           /\ Required' = Required /\ Positions' = Positions
  BY DEF MasksInv, Positions, Required

\* Adding an input that is not there keeps every input of the pool single.
LEMMA AppendKeepsSingle ==
    ASSUME NEW S, NEW s \in Seq(S), NEW x \in S,
           \A k \in 1 .. Len(s) : s[k] # x,
           \A j, k \in 1 .. Len(s) : s[j] = s[k] => j = k
    PROVE  /\ Append(s, x) \in Seq(S)
           /\ \A j, k \in 1 .. Len(Append(s, x)) :
                 Append(s, x)[j] = Append(s, x)[k] => j = k
<1>1. /\ Append(s, x) \in Seq(S)
      /\ Len(s) \in Nat /\ Len(Append(s, x)) = Len(s) + 1
  OBVIOUS
<1>2. /\ Append(s, x)[Len(s) + 1] = x
      /\ \A k \in 1 .. Len(s) : Append(s, x)[k] = s[k]
  OBVIOUS
<1>3. \A k \in 1 .. Len(s) + 1 : k = Len(s) + 1 \/ k \in 1 .. Len(s)
  BY <1>1
<1>4. ASSUME NEW j \in 1 .. Len(s) + 1, NEW k \in 1 .. Len(s) + 1,
             Append(s, x)[j] = Append(s, x)[k]
      PROVE  j = k
  <2>1. CASE j = Len(s) + 1 /\ k = Len(s) + 1
    BY <2>1
  <2>2. CASE j = Len(s) + 1 /\ k \in 1 .. Len(s)
    BY <1>2, <1>4, <2>2
  <2>3. CASE j \in 1 .. Len(s) /\ k = Len(s) + 1
    BY <1>2, <1>4, <2>3
  <2>4. CASE j \in 1 .. Len(s) /\ k \in 1 .. Len(s)
    BY <1>2, <1>4, <2>4
  <2> QED
    BY <1>3, <2>1, <2>2, <2>3, <2>4
<1> QED
  BY <1>1, <1>4

\* insert_unique, as the pool is filled.
LEMMA InsertKeepsPool ==
    ASSUME PoolInv, rest # <<>>, pool' = InsertUnique(Head(rest)), rest' = Tail(rest)
    PROVE  PoolInv'
<1>1. /\ rest \in Seq(PoolInputs) /\ pool \in Seq(PoolInputs)
      /\ \A j, k \in 1 .. Len(pool) : pool[j] = pool[k] => j = k
  BY DEF PoolInv, Positions
<1>2. Head(rest) \in PoolInputs /\ rest' \in Seq(PoolInputs)
  BY <1>1
<1>3. CASE pool' = pool
  BY <1>1, <1>2, <1>3 DEF PoolInv, Positions
<1>4. CASE pool' = Append(pool, Head(rest)) /\ \A k \in Positions : pool[k] # Head(rest)
  <2> DEFINE input == Head(rest)
             longer == Append(pool, input)
  <2>1. /\ pool \in Seq(PoolInputs) /\ input \in PoolInputs
        /\ \A k \in 1 .. Len(pool) : pool[k] # input
        /\ \A j, k \in 1 .. Len(pool) : pool[j] = pool[k] => j = k
    BY <1>1, <1>2, <1>4 DEF Positions
  <2> HIDE DEF input
  <2>2. /\ longer \in Seq(PoolInputs)
        /\ \A j, k \in 1 .. Len(longer) : longer[j] = longer[k] => j = k
    BY <2>1, AppendKeepsSingle
  <2>3. pool' = longer
    BY <1>4 DEF input
  <2> HIDE DEF longer
  <2> QED
    BY <1>2, <2>2, <2>3 DEF PoolInv, Positions
<1> QED
  BY <1>3, <1>4 DEF InsertUnique

\* A rival that differs somewhere gets a number of its own in the masks.
LEMMA RequirementKeepsMasks ==
    ASSUME MasksInv, PoolInv, Len(differs) < rivals,
           NEW difference \in Differences(Len(differs) + 1), difference # {},
           AddRequirement(difference)
    PROVE  MasksInv'
<1> DEFINE n == Len(differs)
<1>1. /\ differs \in Seq(SUBSET Positions) /\ n \in Nat /\ rivals \in RivalCounts
      /\ rivals \in Nat
      /\ pool \in Seq(PoolInputs)
  BY LoopAssumption, ScreeningAssumption DEF MasksInv, PoolInv
<1>2. /\ UNCHANGED <<pool, output, rivals>>
      /\ differs' = Append(differs, difference)
      /\ masks' = [k \in Positions |-> IF k \in difference THEN masks[k] \union {n + 1}
                                                           ELSE masks[k]]
  BY DEF AddRequirement
<1>3. difference \in SUBSET Positions
  BY DEF Differences
<1>4. /\ Positions' = Positions
      /\ differs' \in Seq(SUBSET Positions) /\ Len(differs') = n + 1
      /\ differs'[n + 1] = difference
      /\ \A r \in 1 .. n : differs'[r] = differs[r]
  BY <1>1, <1>2, <1>3 DEF Positions
<1>5. masks' = [k \in Positions |-> {r \in 1 .. n + 1 : k \in differs'[r]}]
  <2>1. ASSUME NEW k \in Positions
        PROVE  masks'[k] = {r \in 1 .. n + 1 : k \in differs'[r]}
    <3>1. masks[k] = {r \in 1 .. n : k \in differs[r]}
      BY DEF MasksInv
    <3>2. masks'[k] = IF k \in difference THEN masks[k] \union {n + 1} ELSE masks[k]
      BY <1>2
    <3> QED
      BY <3>1, <3>2, <1>1, <1>4
  <2> QED
    BY <2>1, <1>2
<1>6. ASSUME n + 1 >= 2 PROVE differs'[2] = {k \in Positions : output[k] # Nothing}
  <2>1. CASE n = 1
    BY <2>1, <1>4 DEF Differences
  <2>2. CASE n >= 2
    BY <2>2, <1>4 DEF MasksInv
  <2>3. n = 1 \/ n >= 2
    <3>1. n \in Nat /\ n + 1 >= 2
      BY <1>1, <1>6
    <3> HIDE DEF n
    <3> QED
      BY <3>1
  <2> QED
    BY <2>1, <2>2, <2>3
<1>7. /\ rivals' \in RivalCounts
      /\ Len(differs') <= rivals'
      /\ \A k \in Positions : pool'[k] = Empty => output'[k] = Nothing
  BY <1>1, <1>2, <1>4 DEF MasksInv
<1> QED
  BY <1>2, <1>4, <1>5, <1>6, <1>7 DEF MasksInv

\* What a selection of positions witnesses are requirements; so a rival that is
\* covered is answered otherwise at a position that was selected.
LEMMA CoveredIsWitnessed ==
    ASSUME MasksInv, NEW positions \in SUBSET Positions, NEW r \in Covered(positions)
    PROVE  \E k \in positions : k \in differs[r]
<1>1. PICK k \in positions : r \in masks[k]
  BY DEF Covered
<1>2. masks[k] = {q \in 1 .. Len(differs) : k \in differs[q]}
  BY DEF MasksInv
<1> QED
  BY <1>1, <1>2

\* Different positions hold different inputs, so as many are judged as were chosen.
LEMMA SelectedAreDifferent ==
    ASSUME PoolInv, selected \subseteq Positions
    PROVE  Cardinality({pool[k] : k \in selected}) = Cardinality(selected)
<1> DEFINE inputs == {pool[k] : k \in selected}
           at == [k \in selected |-> pool[k]]
<1>1. IsFiniteSet(selected)
  <2>1. Len(pool) \in Nat
    BY DEF PoolInv
  <2>2. IsFiniteSet(1 .. Len(pool))
    BY <2>1, FS_Interval
  <2> QED
    BY <2>2, FS_Subset DEF Positions
<1>2. at \in Surjection(selected, inputs)
  BY DEF Surjection
<1>3. at \in Injection(selected, inputs)
  <2>1. \A j, k \in selected : at[j] = at[k] => j = k
    BY DEF PoolInv
  <2> QED
    BY <2>1 DEF Injection, IsInjective
<1> QED
  BY <1>1, <1>2, <1>3, FS_Surjection

\* Every step of the screening keeps what is known at its point.
LEMMA NextScreening ==
    ASSUME ScreeningInv, [ScreeningNext]_screeningVars
    PROVE  ScreeningInv'
<1> USE LoopAssumption, ScreeningAssumption
<1>1. CASE GenerateScreened
  BY <1>1 DEF GenerateScreened, ScreeningInv, PoolInv, Positions
<1>2. CASE InsertNext
  <2>1. PoolInv'
    BY <1>2, InsertKeepsPool DEF InsertNext, ScreeningInv
  <2> QED
    BY <1>2, <2>1 DEF InsertNext, ScreeningInv
<1>3. CASE EvaluatePool
  <2>1. PoolInv' /\ pc' = "screen" /\ answer' = None
    BY <1>3 DEF EvaluatePool, ScreeningInv, PoolInv, Positions
  <2>2. MasksInv'
    <3>1. /\ rivals' \in RivalCounts /\ rivals' \in Nat
          /\ differs' = <<>> /\ Positions' = Positions
          /\ masks' = [k \in Positions |-> {}]
          /\ \A k \in Positions : pool'[k] = Empty => output'[k] = Nothing
      BY <1>3 DEF EvaluatePool, ScreeningInv, Positions
    <3>2. differs' \in Seq(SUBSET Positions) /\ Len(differs') = 0
      BY <3>1
    <3>3. masks' = [k \in Positions |-> {r \in 1 .. Len(differs') : k \in differs'[r]}]
      BY <3>1, <3>2
    <3> QED
      BY <3>1, <3>2, <3>3 DEF MasksInv
  <2> QED
    BY <2>1, <2>2 DEF ScreeningInv
<1>4. CASE ScreenRival
  <2>1. /\ pc = "screen" /\ Len(differs) < rivals
        /\ MasksInv /\ PoolInv /\ answer = None
    BY <1>4 DEF ScreenRival, ScreeningInv
  <2>2. PICK difference \in Differences(Len(differs) + 1) : AddRequirement(difference)
    BY <1>4 DEF ScreenRival
  <2>3. CASE difference = {}
    BY <2>1, <2>2, <2>3, RejectResets DEF AddRequirement
  <2>4. CASE difference # {}
    <3>1. MasksInv'
      BY <2>1, <2>2, <2>4, RequirementKeepsMasks
    <3>2. UNCHANGED <<pc, answer, rest, pool>>
      BY <2>2, <2>4 DEF AddRequirement
    <3> QED
      BY <2>1, <3>1, <3>2 DEF ScreeningInv, PoolInv, Positions
  <2> QED
    BY <2>3, <2>4
<1>5. CASE TakeBoundaries
  <2>1. pc = "screen" /\ Len(differs) = rivals /\ MasksInv
    BY <1>5 DEF TakeBoundaries, ScreeningInv
  <2>2. CASE Reject
    BY <2>1, <2>2, RejectResets
  <2>3. CASE /\ Boundaries \subseteq {pool[k] : k \in Positions}
             /\ selected' = {k \in Positions : pool[k] \in Boundaries}
             /\ pc' = "select"
             /\ UNCHANGED <<candidates, answer, rest, pool, output, rivals, differs, masks>>
    <3>1. MasksInv'
      BY <2>1, <2>3, UnchangedMasks
    <3>2. SelectionInv'
      BY <2>1, <2>3 DEF SelectionInv, Positions
    <3> QED
      BY <2>1, <2>3, <3>1, <3>2 DEF ScreeningInv, PoolInv, Positions
  <2> QED
    BY <1>5, <2>2, <2>3 DEF TakeBoundaries
<1>6. CASE SelectNext
  <2>1. /\ pc = "select" /\ pc' = "select" /\ MasksInv /\ SelectionInv
        /\ selected \subseteq selected' /\ selected' \subseteq Positions
        /\ UNCHANGED <<answer, rest, pool, output, rivals, differs, masks>>
    BY <1>6 DEF SelectNext, ScreeningInv, SelectionInv
  <2>2. MasksInv'
    BY <2>1, UnchangedMasks
  <2>3. SelectionInv'
    BY <2>1 DEF SelectionInv, Positions
  <2> QED
    BY <2>1, <2>2, <2>3 DEF ScreeningInv, PoolInv, Positions
<1>7. CASE RejectUncovered
  BY <1>7, RejectResets DEF RejectUncovered
<1>8. CASE Conclude
  <2>1. pc = "select" /\ MasksInv /\ SelectionInv /\ Covered(selected) = Required
    BY <1>8 DEF Conclude, ScreeningInv
  <2>2. CASE Reject
    BY <2>1, <2>2, RejectResets
  <2>3. ASSUME NEW positions \in SUBSET Positions, IsFilling(positions),
               selected' = positions, pc' = "holdout",
               UNCHANGED <<candidates, answer, rest, pool, output, rivals, differs, masks>>
        PROVE  ScreeningInv'
    <3>1. MasksInv' /\ Required' = Required /\ Positions' = Positions
      BY <2>1, <2>3, UnchangedMasks
    <3>2. SelectionInv'
      BY <2>1, <2>3 DEF SelectionInv, Positions, IsFilling
    <3>3. Covered(selected)' = Required'
      <4>1. Covered(selected)' = Covered(positions)
        BY <2>3 DEF Covered
      <4>2. Covered(selected) \subseteq Covered(positions)
        BY <2>3 DEF Covered, IsFilling
      <4>3. Covered(positions) \subseteq Required
        BY <2>1 DEF Covered, Required, MasksInv, SelectionInv
      <4> QED
        BY <2>1, <3>1, <4>1, <4>2, <4>3
    <3>4. Cardinality(selected') = SearchCases
      BY <2>3 DEF IsFilling
    <3> QED
      BY <2>1, <2>3, <3>1, <3>2, <3>3, <3>4 DEF ScreeningInv, IsSuite, PoolInv, Positions
  <2> QED
    BY <1>8, <2>2, <2>3 DEF Conclude
<1>9. CASE AppendHoldout
  <2>1. IsSuite' <=> IsSuite
    BY <1>9, UnchangedMasks
    DEF AppendHoldout, IsSuite, SelectionInv, Covered, locals, Positions
  <2> QED
    BY <1>9, <2>1 DEF AppendHoldout, ScreeningInv, PoolInv, Positions, locals
<1>10. CASE ScreeningExhausted
  BY <1>10 DEF ScreeningExhausted, ScreeningInv, PoolInv, Positions, locals
<1>11. CASE UNCHANGED screeningVars
  <2>1. IsSuite' <=> IsSuite
    BY <1>11, UnchangedMasks DEF screeningVars, IsSuite, SelectionInv, Covered, locals, Positions
  <2>2. MasksInv' <=> MasksInv
    BY <1>11, UnchangedMasks DEF screeningVars, locals
  <2> QED
    BY <1>11, <2>1, <2>2 DEF screeningVars, locals, ScreeningInv, PoolInv, Positions, SelectionInv
<1> QED
  BY <1>1, <1>2, <1>3, <1>4, <1>5, <1>6, <1>7, <1>8, <1>9, <1>10, <1>11 DEF ScreeningNext

-----------------------------------------------------------------------------
(***************************************************************************)
(* The order synthesis.                                                    *)
(***************************************************************************)
\* What the search knows of its candidate: the examples stand for all probes,
\* an example is there as soon as a probe was taken, and nothing else was probed.
SearchInv ==
    /\ candidate # None => candidate \in Candidates
    /\ pc \in {"probe", "private"} => candidate # None
    /\ seen # {} => shown # {}
    /\ ExamplesSayAll

\* What the return of a challenge rests on.
Identified == candidate # None /\ Cardinality(survivors) = 1 /\ Distinct(shown)

OrderInv ==
    /\ pc \in {"generate", "probe", "private", "done"}
    /\ SearchInv
    /\ pc # "done" => answer = None
    /\ pc \in {"generate", "probe"} => cases = {}
    /\ pc = "private" => Identified
    /\ cases \intersect shown = {}
    /\ answer = "Cases" => Identified /\ Full

-----------------------------------------------------------------------------
\* A probe that is not shown excludes no order and shows no new output.
LEMMA ProbeKeepsExamples ==
    ASSUME SearchInv, NEW x \in Inputs, Probe(x)
    PROVE  SearchInv'
<1> DEFINE left == {order \in survivors : candidate.meaning[order][x] = Reference(x)}
<1>1. /\ candidate # None /\ candidate \in Candidates /\ UNCHANGED candidate
      /\ seen' = seen \union {x}
      /\ survivors' = left
      /\ shown' = IF IsExample(x, left) THEN shown \union {x} ELSE shown
  BY DEF Probe, SearchInv
<1>2. /\ shown \subseteq seen
      /\ survivors = Agreeing(seen) /\ survivors = Agreeing(shown)
      /\ Distinct(seen) <=> Distinct(shown)
      /\ seen # {} => shown # {}
  BY <1>1 DEF SearchInv, ExamplesSayAll
<1>3. \A y : Reference(y)' = Reference(y)
  BY <1>1 DEF Reference
<1>4. survivors' = Agreeing(seen')
  BY <1>1, <1>2 DEF Agreeing
<1>5. survivors' = Agreeing(shown')
  <2>1. CASE IsExample(x, left)
    BY <2>1, <1>1, <1>2 DEF Agreeing
  <2>2. CASE ~IsExample(x, left)
    BY <2>2, <1>1, <1>2 DEF IsExample
  <2> QED
    BY <2>1, <2>2
<1>6. Distinct(shown') => Distinct(seen')
  BY <1>1, <1>2 DEF Distinct
<1>7. ASSUME Distinct(seen') PROVE Distinct(shown')
  <2>1. CASE Distinct(seen)
    BY <2>1, <1>1, <1>2 DEF Distinct
  <2>2. CASE ~Distinct(seen)
    <3>1. PICK y \in seen : Reference(y) # Reference(x)
      BY <2>2, <1>1, <1>7 DEF Distinct
    <3>2. PICK z \in shown : Reference(z) = Reference(y)
      BY <3>1, <2>2, <1>2 DEF Distinct
    <3>3. CASE IsExample(x, left)
      BY <3>1, <3>2, <3>3, <1>1 DEF Distinct
    <3>4. CASE ~IsExample(x, left)
      <4>1. PICK w \in shown : Reference(w) = Reference(x)
        BY <3>2, <3>4, <2>2, <1>2 DEF IsExample
      <4> QED
        BY <4>1, <3>1, <2>2, <1>2 DEF Distinct
    <3> QED
      BY <3>3, <3>4
  <2> QED
    BY <2>1, <2>2
<1>8. /\ shown' \subseteq seen'
      /\ seen' # {} => shown' # {}
  BY <1>1, <1>2 DEF IsExample
<1>9. ExamplesSayAll'
  <2>1. /\ Distinct(seen)' <=> Distinct(seen')
        /\ Distinct(shown)' <=> Distinct(shown')
    BY <1>3 DEF Distinct
  <2>2. /\ Agreeing(seen)' = Agreeing(seen')
        /\ Agreeing(shown)' = Agreeing(shown')
    BY <1>1 DEF Agreeing, Reference
  <2> QED
    BY <2>1, <2>2, <1>4, <1>5, <1>6, <1>7, <1>8 DEF ExamplesSayAll
<1> QED
  BY <1>1, <1>8, <1>9 DEF SearchInv

\* What does not touch the search leaves what it knows.
LEMMA UnchangedSearch ==
    ASSUME SearchInv, UNCHANGED search, pc' \in {"probe", "private"} => candidate # None
    PROVE  SearchInv'
  BY DEF SearchInv, search, ExamplesSayAll, Agreeing, Distinct, Reference

\* A search begins with every order and without a probe.
LEMMA FreshSearch ==
    ASSUME candidate' \in Candidates, survivors' = Orders, shown' = {}, seen' = {}
    PROVE  SearchInv'
<1>1. candidate' # None
  BY OrderAssumption
<1>2. Agreeing({})' = Orders
  BY DEF Agreeing
<1>3. Agreeing(seen)' = Orders /\ Agreeing(shown)' = Orders
  BY DEF Agreeing
<1>4. ~Distinct(seen)' /\ ~Distinct(shown)'
  BY DEF Distinct
<1> QED
  BY <1>1, <1>3, <1>4 DEF SearchInv, ExamplesSayAll

\* A generation begins without a candidate.
LEMMA InitOrder ==
    ASSUME OrderInit
    PROVE  OrderInv
<1>1. SearchInv
  BY DEF OrderInit, NoCandidate, SearchInv, ExamplesSayAll
<1> QED
  BY <1>1, LoopAssumption DEF OrderInit, NoCandidate, OrderInv

\* Every step of the generation keeps what is known at its point.
LEMMA NextOrder ==
    ASSUME OrderInv, [OrderNext]_orderVars
    PROVE  OrderInv'
<1> USE LoopAssumption, OrderAssumption
<1>1. CASE GenerateOrdered
  <2>1. SearchInv'
    BY <1>1, FreshSearch DEF GenerateOrdered
  <2> QED
    BY <1>1, <2>1 DEF GenerateOrdered, private, OrderInv
<1>2. ASSUME NEW x \in Inputs, Probe(x) PROVE OrderInv'
  <2>1. SearchInv'
    BY <1>2, ProbeKeepsExamples DEF OrderInv
  <2>2. pc' \in {"probe", "private"} /\ answer' = None /\ cases' = {}
    BY <1>2 DEF Probe, private, OrderInv
  <2>3. candidate' # None /\ UNCHANGED candidate
    BY <1>2 DEF Probe, OrderInv, SearchInv
  <2>4. ASSUME pc' = "private" PROVE Identified'
    <3>1. Cardinality(survivors') = 1 /\ Distinct(shown')
      BY <1>2, <2>4 DEF Probe, IsUnique
    <3>2. Distinct(shown)'
      BY <3>1, <2>3 DEF Distinct, Reference
    <3> QED
      BY <3>1, <3>2, <2>3 DEF Identified
  <2> QED
    BY <2>1, <2>2, <2>4 DEF OrderInv
<1>3. ASSUME NEW x \in Inputs, DrawPrivate(x) PROVE OrderInv'
  <2>1. UNCHANGED <<pc, answer, search>> /\ pc = "private" /\ answer = None
    BY <1>3 DEF DrawPrivate, OrderInv
  <2>2. SearchInv'
    BY <2>1, UnchangedSearch DEF OrderInv, SearchInv
  <2>3. cases' \intersect shown' = {}
    BY <1>3, <2>1 DEF DrawPrivate, IsPrivate, OrderInv, search
  <2>4. Identified'
    BY <2>1 DEF OrderInv, Identified, Distinct, Reference, search
  <2> QED
    BY <2>1, <2>2, <2>3, <2>4 DEF OrderInv
<1>4. CASE RejectCandidate
  <2>1. SearchInv'
    BY <1>4 DEF RejectCandidate, SearchInv, ExamplesSayAll
  <2> QED
    BY <1>4, <2>1 DEF RejectCandidate, OrderInv, private
<1>5. CASE OrderExhausted
  <2>1. SearchInv'
    BY <1>5, UnchangedSearch DEF OrderExhausted, OrderInv
  <2> QED
    BY <1>5, <2>1 DEF OrderExhausted, OrderInv, search, private
<1>6. CASE ReturnCases
  <2>1. UNCHANGED <<search, private>> /\ pc = "private" /\ pc' = "done"
    BY <1>6 DEF ReturnCases
  <2>2. SearchInv'
    BY <2>1, UnchangedSearch DEF OrderInv
  <2>3. answer' = "Cases" => Full'
    BY <1>6, <2>1 DEF ReturnCases, Full, private
  <2>4. Identified'
    BY <2>1 DEF OrderInv, Identified, Distinct, Reference, search
  <2> QED
    BY <2>1, <2>2, <2>3, <2>4 DEF OrderInv, search, private
<1>7. CASE UNCHANGED orderVars
  <2>1. SearchInv'
    BY <1>7, UnchangedSearch DEF orderVars, OrderInv, SearchInv
  <2>2. Identified' <=> Identified
    BY <1>7 DEF orderVars, search, Identified, Distinct, Reference
  <2> QED
    BY <1>7, <2>1, <2>2 DEF orderVars, search, private, OrderInv, Full
<1> QED
  BY <1>1, <1>2, <1>3, <1>4, <1>5, <1>6, <1>7 DEF OrderNext

\* The hidden order agrees with itself, so it is the one that is left.
LEMMA OneLeftIsHidden ==
    ASSUME candidate \in Candidates, Cardinality(Agreeing(shown)) = 1
    PROVE  Agreeing(shown) = {candidate.hidden}
<1>1. candidate.hidden \in Agreeing(shown)
  BY OrderAssumption DEF Agreeing, Reference
<1>2. IsFiniteSet(Agreeing(shown))
  BY FS_Subset, OrderAssumption DEF Agreeing
<1>3. PICK order : Agreeing(shown) = {order}
  BY <1>2, FS_Singleton
<1> QED
  BY <1>1, <1>3

-----------------------------------------------------------------------------
(***************************************************************************)
(* Either generator, run to its end.                                       *)
(***************************************************************************)
\* A run is of one kind from its start: the other generator's state is untouched,
\* and it answers as its own kind does.
GenerationInv ==
    /\ method \in {"screened", "order"}
    /\ method = "screened" => ScreeningInv /\ answer # "Cases" /\ candidate = None
    /\ method = "order" => OrderInv /\ answer # "Suite"

\* At every point of a generation the invariant of its kind holds.
THEOREM GenerationInvariant == Spec => []GenerationInv
<1> USE LoopAssumption
<1>1. Init => GenerationInv
  <2> SUFFICES ASSUME Init PROVE GenerationInv
    OBVIOUS
  <2>1. ScreeningInv /\ OrderInv
    BY InitScreening, InitOrder DEF Init
  <2>2. answer = None /\ candidate = None /\ method \in {"screened", "order"}
    BY DEF Init, ScreeningInit, OrderInit, NoCandidate
  <2> QED
    BY <2>1, <2>2 DEF GenerationInv
<1>2. GenerationInv /\ [Next]_vars => GenerationInv'
  <2> SUFFICES ASSUME GenerationInv, [Next]_vars PROVE GenerationInv'
    OBVIOUS
  <2>1. CASE method = "screened" /\ ScreeningNext /\ UNCHANGED <<method, search, private>>
    <3>1. ScreeningInv'
      BY <2>1, NextScreening DEF GenerationInv
    <3>2. answer' # "Cases"
      BY <2>1 DEF GenerationInv, ScreeningNext, GenerateScreened, InsertNext, EvaluatePool,
         ScreenRival, AddRequirement, TakeBoundaries, SelectNext, RejectUncovered, Conclude,
         AppendHoldout, ScreeningExhausted, Reject
    <3> QED
      BY <2>1, <3>1, <3>2 DEF GenerationInv, search
  <2>2. CASE method = "order" /\ OrderNext /\ UNCHANGED <<method, locals>>
    <3>1. OrderInv'
      BY <2>2, NextOrder DEF GenerationInv
    <3>2. answer' # "Suite"
      BY <2>2 DEF GenerationInv, OrderNext, GenerateOrdered, Probe, DrawPrivate,
         RejectCandidate, OrderExhausted, ReturnCases
    <3> QED
      BY <2>2, <3>1, <3>2 DEF GenerationInv
  <2>3. CASE UNCHANGED vars
    <3>1. method = "screened" => ScreeningInv'
      BY <2>3, NextScreening DEF vars, GenerationInv
    <3>2. method = "order" => OrderInv'
      BY <2>3, NextOrder DEF vars, GenerationInv, orderVars, screeningVars
    <3> QED
      BY <2>3, <3>1, <3>2 DEF vars, GenerationInv, orderVars, screeningVars, search
  <2> QED
    BY <2>1, <2>2, <2>3 DEF Next
<1> QED
  BY <1>1, <1>2, PTL DEF Spec

\* docs/shortcut-hardening.md:53: whatever is drawn and however the rivals answer,
\* an accepted suite has all its inputs and tells the candidate from every rival.
THEOREM ScreeningSuiteDiscriminates == Spec => []SuiteDiscriminates
<1>1. GenerationInv => SuiteDiscriminates
  <2> SUFFICES ASSUME GenerationInv, answer = "Suite" PROVE SuiteDiscriminates
    BY DEF SuiteDiscriminates
  <2>1. PoolInv /\ IsSuite
    BY DEF GenerationInv, ScreeningInv
  <2>2. /\ MasksInv /\ SelectionInv
        /\ Covered(selected) = Required /\ Cardinality(selected) = SearchCases
    BY <2>1 DEF IsSuite
  <2>3. Cardinality({pool[k] : k \in selected}) = SearchCases
    BY <2>1, <2>2, SelectedAreDifferent DEF SelectionInv
  <2>4. ASSUME NEW rival \in Required PROVE selected \intersect differs[rival] # {}
    BY <2>2, CoveredIsWitnessed DEF SelectionInv
  <2> QED
    BY <2>2, <2>3, <2>4 DEF SuiteDiscriminates, SelectionInv
<1>2. Spec => []GenerationInv
  BY GenerationInvariant
<1> QED
  BY <1>1, <1>2, PTL

\* docs/shortcut-hardening.md:36: no accepted suite is answered by a constant.
THEOREM ScreeningSuiteIsNotConstant == Spec => []SuiteIsNotConstant
<1>1. GenerationInv => SuiteIsNotConstant
  <2> SUFFICES ASSUME GenerationInv, answer = "Suite"
               PROVE  \E j, k \in selected : output[j] # output[k]
    BY DEF SuiteIsNotConstant
  <2>1. MasksInv /\ SelectionInv /\ Covered(selected) = Required
    BY DEF GenerationInv, ScreeningInv, IsSuite
  <2>2. 2 \in Required /\ Len(differs) >= 2
    BY <2>1, ScreeningAssumption DEF MasksInv, SelectionInv, Required
  <2>3. PICK k \in selected : k \in differs[2]
    BY <2>1, <2>2, CoveredIsWitnessed DEF SelectionInv
  <2>4. PICK j \in selected : pool[j] = Empty
    BY <2>1, ScreeningAssumption DEF SelectionInv
  <2>5. output[k] # Nothing /\ output[j] = Nothing
    BY <2>1, <2>2, <2>3, <2>4 DEF MasksInv, SelectionInv
  <2> QED
    BY <2>3, <2>4, <2>5
<1>2. Spec => []GenerationInv
  BY GenerationInvariant
<1> QED
  BY <1>1, <1>2, PTL

\* order_synthesis.rs:217: leaving out a probe that neither excludes an order nor
\* shows a new output loses nothing, for any family of orders whatever.
THEOREM OrderExamplesSayAll == Spec => []ExamplesSayAll
<1>1. GenerationInv => ExamplesSayAll
  BY DEF GenerationInv, OrderInv, SearchInv, ExamplesSayAll
<1>2. Spec => []GenerationInv
  BY GenerationInvariant
<1> QED
  BY <1>1, <1>2, PTL

\* order_synthesis.rs:328, the sentence of the prompt: the examples of a challenge
\* that is issued determine its order and are not constant.
THEOREM OrderIsIdentified == Spec => []ExamplesIdentifyTheOrder
<1>1. GenerationInv => ExamplesIdentifyTheOrder
  <2> SUFFICES ASSUME GenerationInv, answer = "Cases"
               PROVE  Agreeing(shown) = {candidate.hidden} /\ Distinct(shown)
    BY DEF ExamplesIdentifyTheOrder
  <2>1. Identified /\ candidate \in Candidates /\ survivors = Agreeing(shown)
    BY DEF GenerationInv, OrderInv, Identified, SearchInv, ExamplesSayAll
  <2> QED
    BY <2>1, OneLeftIsHidden DEF Identified
<1>2. Spec => []GenerationInv
  BY GenerationInvariant
<1> QED
  BY <1>1, <1>2, PTL

\* order_synthesis.rs:247: no private case repeats an example, and none is missing.
THEOREM OrderCasesAreUnseen == Spec => []PrivateCasesAreUnseen
<1>1. GenerationInv => PrivateCasesAreUnseen
  BY DEF GenerationInv, OrderInv, PrivateCasesAreUnseen, Full
<1>2. Spec => []GenerationInv
  BY GenerationInvariant
<1> QED
  BY <1>1, <1>2, PTL
=============================================================================
