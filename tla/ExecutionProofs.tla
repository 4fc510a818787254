---------------------------- MODULE ExecutionProofs ----------------------------
(***************************************************************************)
(* Proofs about one execution, for any number of cases, any capacity of    *)
(* the pipes and any worker, with every fault and deadline allowed.        *)
(***************************************************************************)
EXTENDS Execution, SequenceTheorems, TLAPS

USE ResponseAssumption, ExecutionAssumption

\* The closed form passes only what is complete and right.
LEMMA PassesOnlyComplete ==
    ASSUME NEW r, Len(r.items) \in Nat, VerdictOf(r) = "Passed"
    PROVE  CompleteAndRight(r)
<1>1. /\ GoodHeader(r) /\ StopsOf(r) = {} /\ ~(Len(r.items) > r.count)
      /\ MarksOf(r) = {} /\ r.count = CaseCount
  BY DEF VerdictOf, StopVerdict, MarkVerdict
<1>2. ASSUME NEW k \in 1 .. CaseCount PROVE k <= Len(r.items) /\ r.items[k] = "right"
  <2>1. ItemAt(r, k) \in Marks \union {"right"} /\ ItemAt(r, k) \notin Marks
    BY <1>1 DEF StopsOf, MarksOf, Stops
  <2> QED
    BY <2>1 DEF ItemAt, Marks
<1>3. CaseCount <= Len(r.items)
  BY <1>2
<1> QED
  BY <1>1, <1>2, <1>3 DEF CompleteAndRight

\* decode_response answers with a verdict, whatever it is given.
LEMMA VerdictOfType == ASSUME NEW r PROVE VerdictOf(r) \in Verdicts
  BY DEF VerdictOf, StopVerdict, MarkVerdict, Verdicts

\* What the reader collected is a response.
LEMMA CollectedItems ==
    ASSUME output \in Seq(FrameTypes)
    PROVE  Len(Collected.items) \in Nat
<1>1. CASE output = <<>> \/ output[1].count = BadHeader
  BY <1>1 DEF Collected
<1>2. CASE ~(output = <<>> \/ output[1].count = BadHeader)
  <2>1. Len(output) - 1 \in Nat
    BY <1>2
  <2>2. Collected.items = [k \in 1 .. Len(output) - 1 |-> output[k + 1].item]
    BY <1>2 DEF Collected
  <2> QED
    BY <2>1, <2>2
<1> QED
  BY <1>1, <1>2

\* execute_reserved begins with no process, no thread and empty pipes.
LEMMA InitExecution == Init => ExecutionInv
  BY DEF Init, ExecutionInv, Progress, RefundsOnlyUnstarted, PassedIsEarned, Alive, Verdicts

\* A frame that is emitted is one, and a worker that emits was running.
LEMMA EmitKeeps ==
    ASSUME NEW frame \in FrameTypes, outPipe \in Seq(FrameTypes), Alive, Emit(frame)
    PROVE  /\ outPipe' \in Seq(FrameTypes)
           /\ child' \in {"running", "crashed"}
           /\ reaped' = reaped
  BY DEF Emit, process, Alive

\* The kinds of frame a pipe can carry, in either direction.
LEMMA FrameForms ==
    /\ \A n \in 0 .. MaxCases : Header(n) \in FrameTypes
    /\ \A class \in ItemClasses \union {"flood"} : Item(class) \in FrameTypes
  BY DEF Header, Item, FrameTypes

\* Steps of the worker change nothing the parent relies on once it has ended:
\* until then no result is there, and afterwards it makes no step.
LEMMA WorkerSide ==
    ASSUME ExecutionInv, Alive, UNCHANGED <<parent, sending, receiving, reaped>>,
           outPipe' \in Seq(FrameTypes), child' # "none"
    PROVE  ExecutionInv'
<1>1. main \notin {"start", "abandon", "joinWriter", "joinReader", "judge", "done"}
  BY DEF ExecutionInv, Progress, Alive
<1>2. /\ result = None /\ result' = None /\ main' = main /\ writer' = writer
      /\ reader' = reader /\ output' = output
  BY <1>1 DEF ExecutionInv, parent, sending, receiving
<1> QED
  BY <1>1, <1>2
  DEF ExecutionInv, Progress, RefundsOnlyUnstarted, PassedIsEarned, Alive, Verdicts

\* A step of the worker, of the kernel that ends it, or of what took it over
\* disturbs nothing the parent knows.
LEMMA WorkerStep ==
    ASSUME ExecutionInv, Worker \/ Signal \/ TakenOver
    PROVE  ExecutionInv'
<1> USE DEF ExecutionInv
<1> SUFFICES /\ Alive
             /\ UNCHANGED <<parent, sending, receiving, reaped>>
             /\ outPipe' \in Seq(FrameTypes)
             /\ child' # "none"
  BY WorkerSide
<1>1. CASE Isolate
  BY <1>1 DEF Isolate, Step, Alive, process
<1>2. CASE ReadRequest
  BY <1>2 DEF ReadRequest, Step, Alive, process
<1>3. CASE WriteHeader
  <2>1. PICK n \in 0 .. MaxCases : Emit(Header(n))
    BY <1>3 DEF WriteHeader
  <2> QED
    BY <1>3, <2>1, FrameForms, EmitKeeps DEF WriteHeader, Step
<1>4. CASE RefuseItem
  <2>1. Item("failed") \in FrameTypes
    BY FrameForms DEF ItemClasses
  <2> QED
    BY <1>4, <2>1, EmitKeeps DEF RefuseItem, Step
<1>5. CASE ReadInput
  BY <1>5 DEF ReadInput, Step, Alive, process
<1>6. ASSUME NEW item \in OwnItems, ExecuteCase(item)
      PROVE  /\ Alive
             /\ UNCHANGED <<parent, sending, receiving, reaped>>
             /\ outPipe' \in Seq(FrameTypes)
             /\ child' # "none"
  <2>1. Item(item) \in FrameTypes
    BY FrameForms DEF OwnItems, ItemClasses, Results
  <2> QED
    BY <1>6, <2>1, EmitKeeps DEF ExecuteCase, Step
<1>7. CASE Exit
  BY <1>7 DEF Exit, Alive
<1>8. CASE Signal
  BY <1>8 DEF Signal, Alive
<1>9. CASE TakenOver
  <2>1. CASE \E count \in Headers \union {BadHeader} : Emit(Header(count))
    <3>1. PICK n \in 0 .. MaxCases : Emit(Header(n))
      BY <2>1 DEF Headers, BadHeader
    <3> QED
      BY <1>9, <3>1, FrameForms, EmitKeeps DEF TakenOver
  <2>2. CASE \E item \in RogueItems : Emit(Item(item))
    <3>1. PICK item \in RogueItems : Emit(Item(item))
      BY <2>2
    <3>2. Item(item) \in FrameTypes
      BY FrameForms DEF RogueItems, ItemClasses, Results
    <3> QED
      BY <1>9, <3>1, <3>2, EmitKeeps DEF TakenOver
  <2>3. CASE UNCHANGED <<process, outPipe>>
    BY <1>9, <2>3 DEF TakenOver, process, Alive
  <2>4. CASE child' \in {"success", "failure"} /\ UNCHANGED <<reaped, outPipe>>
    BY <1>9, <2>4 DEF TakenOver
  <2> QED
    BY <1>9, <2>1, <2>2, <2>3, <2>4 DEF TakenOver
<1> QED
  BY <1>1, <1>2, <1>3, <1>4, <1>5, <1>6, <1>7, <1>8, <1>9 DEF Worker

\* The writer touches only the request; it ends once, and not after it has ended.
LEMMA WriterStep ==
    ASSUME ExecutionInv, Writer
    PROVE  ExecutionInv'
<1>1. /\ writer = "writing" /\ UNCHANGED <<parent, process, receiving, outPipe>>
      /\ writer' \in {"writing", "written", "broken"}
  BY DEF Writer, WriteFrame, FinishWriting
<1>2. main \notin {"start", "startWriter", "joinReader", "judge", "done"} /\ result = None
  BY <1>1 DEF ExecutionInv, Progress
<1> QED
  BY <1>1, <1>2 DEF ExecutionInv, Progress, RefundsOnlyUnstarted, PassedIsEarned, Alive,
                    Verdicts, parent, process, receiving

\* The reader moves frames from the pipe to what it has collected.
LEMMA ReaderStep ==
    ASSUME ExecutionInv, Reader \/ ReadFails
    PROVE  ExecutionInv'
<1>1. /\ reader = "reading" /\ UNCHANGED <<parent, process, sending>>
      /\ reader' \in {"reading", "read", "failed"}
  BY DEF Reader, ReadFrame, FinishReading, ReadFails
<1>2. output' \in Seq(FrameTypes) /\ outPipe' \in Seq(FrameTypes)
  <2>1. CASE ReadFrame
    <3>1. outPipe # <<>> /\ outPipe \in Seq(FrameTypes) /\ output \in Seq(FrameTypes)
      BY <2>1 DEF ReadFrame, ExecutionInv
    <3>2. Head(outPipe) \in FrameTypes /\ Tail(outPipe) \in Seq(FrameTypes)
      BY <3>1
    <3>3. Append(output, Head(outPipe)) \in Seq(FrameTypes)
      BY <3>1, <3>2
    <3> QED
      BY <2>1, <3>2, <3>3 DEF ReadFrame
  <2>2. CASE FinishReading \/ ReadFails
    BY <2>2 DEF FinishReading, ReadFails, ExecutionInv
  <2> QED
    BY <2>1, <2>2 DEF Reader
<1>3. main \notin {"start", "startWriter", "startReader", "abandon", "judge", "done"}
      /\ result = None
  BY <1>1 DEF ExecutionInv, Progress
<1> QED
  BY <1>1, <1>2, <1>3 DEF ExecutionInv, Progress, RefundsOnlyUnstarted, PassedIsEarned,
                          Alive, Verdicts, parent, process, sending

\* What the judgement passes has passed every test before the decoding.
LEMMA JudgeStep ==
    ASSUME ExecutionInv, Judge
    PROVE  ExecutionInv'
<1>1. /\ main = "judge" /\ main' = "done" /\ result' = Judgement
      /\ UNCHANGED <<timeout, late, process, sending, receiving, outPipe>>
  BY DEF Judge, Return
<1>2. Judgement \in Verdicts
  BY VerdictOfType DEF Judgement, Verdicts
<1>3. Collected' = Collected
  BY <1>1 DEF Collected, receiving
<1>4. ASSUME Judgement = "Passed"
      PROVE  /\ child = "success" /\ ~timeout /\ writer = "written"
             /\ VerdictOf(Collected) = "Passed"
  BY <1>4 DEF Judgement
<1>5. Judgement = "Passed" => CompleteAndRight(Collected)
  BY <1>4, CollectedItems, PassesOnlyComplete DEF ExecutionInv
<1>6. PassedIsEarned'
  BY <1>1, <1>3, <1>4, <1>5 DEF PassedIsEarned, process, sending, CompleteAndRight, GoodHeader
<1>7. RefundsOnlyUnstarted'
  BY <1>1, <1>2 DEF RefundsOnlyUnstarted, Verdicts
<1>8. Progress' /\ output' \in Seq(FrameTypes) /\ outPipe' \in Seq(FrameTypes)
  BY <1>1 DEF ExecutionInv, Progress, Alive, process, sending, receiving
<1> QED
  BY <1>1, <1>6, <1>7, <1>8 DEF ExecutionInv

\* The other steps of the calling thread, and what may go wrong for it.
LEMMA MainStep ==
    ASSUME ExecutionInv, Main \/ MainFault
    PROVE  ExecutionInv'
<1> USE DEF ExecutionInv, Progress, RefundsOnlyUnstarted, PassedIsEarned, Alive, Verdicts,
            process, sending, receiving
<1>1. CASE RefuseToStart
  BY <1>1 DEF RefuseToStart, Return
<1>2. CASE SpawnWorker
  BY <1>2 DEF SpawnWorker
<1>3. CASE StartWriter
  BY <1>3 DEF StartWriter
<1>4. CASE NoWriter
  BY <1>4 DEF NoWriter, KillAndWait, Return
<1>5. CASE StartReader
  BY <1>5 DEF StartReader
<1>6. CASE NoReader
  BY <1>6 DEF NoReader, KillAndWait
<1>7. CASE JoinAbandonedWriter
  BY <1>7 DEF JoinAbandonedWriter, Return
<1>8. CASE ReapEnded
  BY <1>8 DEF ReapEnded
<1>9. CASE GiveUp
  BY <1>9 DEF GiveUp
<1>10. CASE KillWorker
  BY <1>10 DEF KillWorker, KillAndWait
<1>11. CASE JoinWriter
  BY <1>11 DEF JoinWriter
<1>12. CASE JoinReader
  BY <1>12 DEF JoinReader
<1>13. CASE Judge
  BY <1>13, JudgeStep
<1>14. CASE WaitFails
  BY <1>14 DEF WaitFails
<1> QED
  BY <1>1, <1>2, <1>3, <1>4, <1>5, <1>6, <1>7, <1>8, <1>9, <1>10, <1>11, <1>12, <1>13, <1>14
  DEF Main, MainFault

\* What each point of the execution knows holds in every behaviour.
THEOREM ExecutionInvariant == Spec => []ExecutionInv
<1>1. ExecutionInv /\ [Next]_vars => ExecutionInv'
  <2> SUFFICES ASSUME ExecutionInv, [Next]_vars PROVE ExecutionInv'
    OBVIOUS
  <2>1. CASE TimePasses
    BY <2>1 DEF TimePasses, ExecutionInv, Progress, RefundsOnlyUnstarted, PassedIsEarned,
                Alive, Collected, parent, process, sending, receiving
  <2>2. CASE UNCHANGED vars
    BY <2>2 DEF vars, ExecutionInv, Progress, RefundsOnlyUnstarted, PassedIsEarned,
                Alive, Collected, parent, process, sending, receiving
  <2> QED
    BY <2>1, <2>2, MainStep, WriterStep, ReaderStep, WorkerStep DEF Next
<1> QED
  BY InitExecution, <1>1, PTL DEF Spec

\* Whoever runs in the worker, a passed execution is one that ended well, was
\* sent the whole request and answered every case as expected.
THEOREM ExecutionPassedIsEarned == Spec => []PassedIsEarned
<1>1. ExecutionInv => PassedIsEarned
  BY DEF ExecutionInv
<1> QED
  BY ExecutionInvariant, <1>1, PTL

\* The verdicts the Gate refunds are returned only when no worker was started.
THEOREM ExecutionRefundsOnlyUnstarted == Spec => []RefundsOnlyUnstarted
<1>1. ExecutionInv => RefundsOnlyUnstarted
  BY DEF ExecutionInv
<1> QED
  BY ExecutionInvariant, <1>1, PTL

\* Every return leaves no process unwaited for, and neither of the threads.
THEOREM ExecutionNothingLeftBehind == Spec => []NothingLeftBehind
<1>1. ExecutionInv => NothingLeftBehind
  BY DEF ExecutionInv, Progress, NothingLeftBehind
<1> QED
  BY ExecutionInvariant, <1>1, PTL

-----------------------------------------------------------------------------
(***************************************************************************)
(* A worker that follows worker.c: nothing of what it answers is lost.     *)
(***************************************************************************)
\* Appending to the second of two sequences appends to them together.
LEMMA AppendToConcat ==
    ASSUME NEW S, NEW s \in Seq(S), NEW t \in Seq(S), NEW e \in S
    PROVE  s \o Append(t, e) = Append(s \o t, e)
<1>1. /\ Append(t, e) \in Seq(S) /\ Len(Append(t, e)) = Len(t) + 1
      /\ s \o t \in Seq(S) /\ Len(s \o t) = Len(s) + Len(t)
  BY ConcatProperties
<1>2. /\ s \o Append(t, e) \in Seq(S) /\ Append(s \o t, e) \in Seq(S)
      /\ Len(s \o Append(t, e)) = Len(s) + Len(t) + 1
      /\ Len(Append(s \o t, e)) = Len(s) + Len(t) + 1
  BY <1>1, ConcatProperties
<1>3. ASSUME NEW i \in 1 .. Len(s) + Len(t) + 1
      PROVE  (s \o Append(t, e))[i] = Append(s \o t, e)[i]
  <2>0. i \in 1 .. Len(s) + Len(Append(t, e))
    BY <1>1
  <2>1. (s \o Append(t, e))[i] = IF i <= Len(s) THEN s[i] ELSE Append(t, e)[i - Len(s)]
    BY <1>1, <2>0, ConcatProperties
  <2>2. i <= Len(s) + Len(t) =>
            (s \o t)[i] = IF i <= Len(s) THEN s[i] ELSE t[i - Len(s)]
    BY ConcatProperties
  <2> QED
    BY <1>1, <2>1, <2>2
<1> QED
  BY <1>2, <1>3, SeqEqual

\* The next frame read moves from the front of the pipe to the end of the output.
LEMMA MoveHead ==
    ASSUME NEW S, NEW s \in Seq(S), NEW t \in Seq(S), t # <<>>
    PROVE  Append(s, Head(t)) \o Tail(t) = s \o t
<1>1. Head(t) \in S /\ Tail(t) \in Seq(S) /\ Len(Tail(t)) = Len(t) - 1
      /\ Head(t) = t[1] /\ Len(t) \in Nat \ {0}
      /\ \A i \in 1 .. Len(t) - 1 : Tail(t)[i] = t[i + 1]
  BY HeadTailProperties, EmptySeq
<1>2. /\ Append(s, Head(t)) \in Seq(S) /\ Len(Append(s, Head(t))) = Len(s) + 1
      /\ \A i \in 1 .. Len(s) : Append(s, Head(t))[i] = s[i]
      /\ Append(s, Head(t))[Len(s) + 1] = t[1]
  BY <1>1
<1>3. /\ Append(s, Head(t)) \o Tail(t) \in Seq(S) /\ s \o t \in Seq(S)
      /\ Len(Append(s, Head(t)) \o Tail(t)) = Len(s) + Len(t)
      /\ Len(s \o t) = Len(s) + Len(t)
  BY <1>1, <1>2, ConcatProperties
<1>4. ASSUME NEW i \in 1 .. Len(s) + Len(t)
      PROVE  (Append(s, Head(t)) \o Tail(t))[i] = (s \o t)[i]
  <2>1. (s \o t)[i] = IF i <= Len(s) THEN s[i] ELSE t[i - Len(s)]
    BY ConcatProperties
  <2>2. (Append(s, Head(t)) \o Tail(t))[i] =
            IF i <= Len(s) + 1 THEN Append(s, Head(t))[i] ELSE Tail(t)[i - (Len(s) + 1)]
    BY <1>1, <1>2, ConcatProperties
  <2>3. CASE i <= Len(s)
    BY <1>2, <2>1, <2>2, <2>3
  <2>4. CASE i = Len(s) + 1
    BY <1>2, <2>1, <2>2, <2>4
  <2>5. CASE i > Len(s) + 1
    <3>1. i - (Len(s) + 1) \in 1 .. Len(t) - 1 /\ (i - (Len(s) + 1)) + 1 = i - Len(s)
      BY <2>5, <1>1
    <3> QED
      BY <1>1, <2>1, <2>2, <2>5, <3>1
  <2> QED
    BY <2>3, <2>4, <2>5
<1> QED
  BY <1>3, <1>4, SeqEqual

\* The report grows by the item of each further answer.
LEMMA ReportGrows ==
    ASSUME answered \in Seq(OwnItems), NEW item \in OwnItems,
           answered' = Append(answered, item)
    PROVE  OwnReport' = Append(OwnReport, Item(item))
<1> DEFINE items == [k \in 1 .. Len(answered) |-> Item(answered[k])]
           longer == [k \in 1 .. Len(answered') |-> Item(answered'[k])]
           Items == {Header(CaseCount), Item(item)} \union {Item(answered[k]) : k \in 1 .. Len(answered)}
<1>1. Len(answered) \in Nat /\ Len(answered') = Len(answered) + 1
      /\ answered'[Len(answered) + 1] = item
      /\ \A k \in 1 .. Len(answered) : answered'[k] = answered[k]
  OBVIOUS
<1>2. items \in Seq(Items) /\ <<Header(CaseCount)>> \in Seq(Items)
  BY <1>1
<1>3. longer = Append(items, Item(item))
  BY <1>1, <1>2
<1>4. OwnReport = <<Header(CaseCount)>> \o items
  BY DEF OwnReport
<1>5. OwnReport' = <<Header(CaseCount)>> \o longer
  BY DEF OwnReport, Header, Item
<1> HIDE DEF items, longer, Items
<1>6. Item(item) \in Items
  BY DEF Items
<1> QED
  BY <1>2, <1>3, <1>4, <1>5, <1>6, AppendToConcat

\* The frames worker.c writes.
LEMMA OwnFrameForms ==
    /\ OwnFrames \subseteq FrameTypes
    /\ Header(CaseCount) \in OwnFrames /\ Header(1) \in OwnFrames
    /\ \A item \in OwnItems \union {"failed"} : Item(item) \in OwnFrames
<1>1. CaseCount \in 0 .. MaxCases /\ 1 \in 0 .. MaxCases
  OBVIOUS
<1>2. /\ Header(CaseCount) \in FrameTypes /\ Header(1) \in FrameTypes
      /\ Header(CaseCount).item = "header" /\ Header(1).item = "header"
  BY <1>1, FrameForms DEF Header
<1>3. ASSUME NEW item \in OwnItems \union {"failed"} PROVE Item(item) \in OwnFrames
  <2>1. item \in ItemClasses
    BY DEF OwnItems, ItemClasses, Results
  <2>2. Item(item) \in FrameTypes /\ Item(item).item = item
    BY <2>1, FrameForms DEF Item
  <2>3. item # "flood"
    BY DEF OwnItems
  <2> QED
    BY <2>2, <2>3 DEF OwnFrames
<1> QED
  BY <1>2, <1>3 DEF OwnFrames

\* A frame emitted is the last one written, unless the write ended the worker.
LEMMA EmitReport ==
    ASSUME output \in Seq(FrameTypes), outPipe \in Seq(OwnFrames), Alive,
           NEW frame \in OwnFrames, Emit(frame), UNCHANGED output
    PROVE  /\ outPipe' \in Seq(OwnFrames)
           /\ child' \in {"running", "crashed"} /\ reaped' = reaped
           /\ child' = "running" => Written' = Append(Written, frame)
<1>1. CASE outPipe' = Append(outPipe, frame) /\ UNCHANGED process
  <2>1. frame \in FrameTypes /\ outPipe \in Seq(FrameTypes)
    BY OwnFrameForms, SeqMonotonic
  <2>2. output \o Append(outPipe, frame) = Append(output \o outPipe, frame)
    BY <2>1, AppendToConcat
  <2> QED
    BY <1>1, <2>2 DEF Written, process, Alive
<1>2. CASE child' = "crashed" /\ UNCHANGED <<reaped, outPipe>>
  BY <1>2
<1> QED
  BY <1>1, <1>2 DEF Emit

\* While nothing is answered the report is the header alone.
LEMMA ReportBegins ==
    ASSUME answered = <<>>
    PROVE  OwnReport = <<Header(CaseCount)>>
<1>1. [k \in 1 .. Len(answered) |-> Item(answered[k])] = <<>>
  OBVIOUS
<1>2. <<Header(CaseCount)>> \in Seq({Header(CaseCount)})
  OBVIOUS
<1> QED
  BY <1>1, <1>2, ConcatEmptySeq DEF OwnReport

\* What a worker's step has to keep.
HonestStep ==
    /\ UNCHANGED <<parent, sending, receiving>>
    /\ stage' # "rogue"
    /\ answered' \in Seq(OwnItems)
    /\ outPipe' \in Seq(OwnFrames)
    /\ child' \in {"running", "success", "failure", "limit", "crashed"}
    /\ child' \in {"running", "success"} => ReportSoFar'
    /\ child' = "success" => stage' = "eof" /\ writer = "written"

\* Then it keeps the invariant, since the parent has not seen it end.
LEMMA HonestKept ==
    ASSUME ExecutionInv, HonestInv, ~Rogue, Alive, HonestStep
    PROVE  HonestInv'
<1>1. main # "done" /\ main' = main /\ writer' = writer /\ reader' = reader
  BY DEF HonestStep, parent, sending, receiving, ExecutionInv, Progress
<1>2. NoFalseAlarm'
  BY <1>1 DEF NoFalseAlarm
<1>3. reader # "read" /\ writer # "broken"
  BY DEF HonestInv, Alive
<1>4. Intact' => child' \in {"running", "success"}
  BY DEF HonestStep, Intact
<1> QED
  BY <1>1, <1>2, <1>3, <1>4 DEF HonestInv, HonestStep, Alive

\* Each step of worker.c, and each way it may be ended.
LEMMA HonestWorkerStep ==
    ASSUME ExecutionInv, HonestInv, ~Rogue, Worker \/ Signal
    PROVE  HonestInv'
<1>0. /\ answered \in Seq(OwnItems) /\ outPipe \in Seq(OwnFrames)
      /\ output \in Seq(FrameTypes) /\ stage # "rogue"
      /\ Alive => child = "running" /\ ReportSoFar
  BY DEF HonestInv, ExecutionInv, Alive, Intact
<1> SUFFICES Alive /\ HonestStep
  BY HonestKept
<1>1. CASE Isolate
  BY <1>0, <1>1 DEF Isolate, Step, Alive, process, HonestStep, ReportSoFar, Written, OwnReport,
                    parent, sending, receiving
<1>2. CASE ReadRequest
  BY <1>0, <1>2 DEF ReadRequest, Step, Alive, process, HonestStep, ReportSoFar, Written,
                    parent, sending, receiving
<1>3. CASE WriteHeader
  <2>1. Written = <<>> /\ answered = <<>> /\ answered' = answered /\ Alive
        /\ UNCHANGED <<parent, sending, receiving, output>>
    BY <1>0, <1>3 DEF WriteHeader, Step, ReportSoFar, receiving
  <2>2. CASE Step("respond", "input") /\ Emit(Header(CaseCount))
    <3>1. /\ outPipe' \in Seq(OwnFrames) /\ child' \in {"running", "crashed"}
          /\ child' = "running" => Written' = Append(<<>>, Header(CaseCount))
      BY <1>0, <2>1, <2>2, EmitReport, OwnFrameForms
    <3>2. OwnReport' = <<Header(CaseCount)>>
      BY <2>1, ReportBegins DEF OwnReport, Item, Header
    <3>3. child' = "running" => Written' = OwnReport'
      BY <3>1, <3>2
    <3> QED
      BY <1>0, <2>1, <2>2, <3>1, <3>3 DEF HonestStep, ReportSoFar, Step
  <2>3. CASE Step("refuseHeader", "refuseItem") /\ Emit(Header(1))
    <3>1. /\ outPipe' \in Seq(OwnFrames) /\ child' \in {"running", "crashed"}
      BY <1>0, <2>1, <2>3, EmitReport, OwnFrameForms
    <3> QED
      BY <1>0, <2>1, <2>3, <3>1 DEF HonestStep, ReportSoFar, Step
  <2> QED
    BY <1>3, <2>2, <2>3 DEF WriteHeader
<1>4. CASE RefuseItem
  <2>1. /\ Alive /\ UNCHANGED <<parent, sending, receiving, output, answered>>
        /\ stage' = "fail" /\ Emit(Item("failed"))
    BY <1>4 DEF RefuseItem, Step, receiving
  <2>2. /\ outPipe' \in Seq(OwnFrames) /\ child' \in {"running", "crashed"}
    BY <1>0, <2>1, EmitReport, OwnFrameForms
  <2> QED
    BY <1>0, <2>1, <2>2 DEF HonestStep, ReportSoFar
<1>5. CASE ReadInput
  <2>1. /\ Alive /\ UNCHANGED <<parent, sending, receiving, output, outPipe, child, answered>>
        /\ stage = "input" /\ stage' \in {"execute", "fail"}
    BY <1>5 DEF ReadInput, Step, receiving, process
  <2>2. Written' = Written /\ OwnReport' = OwnReport
    BY <2>1 DEF Written, OwnReport, Item, Header
  <2> QED
    BY <1>0, <2>1, <2>2 DEF HonestStep, ReportSoFar, Alive
<1>6. ASSUME NEW item \in OwnItems, ExecuteCase(item)
      PROVE  Alive /\ HonestStep
  <2>1. /\ Alive /\ UNCHANGED <<parent, sending, receiving, output>>
        /\ stage = "execute" /\ stage' \in {"eof", "input"}
        /\ Emit(Item(item)) /\ answered' = Append(answered, item)
    BY <1>6 DEF ExecuteCase, Step, receiving
  <2>2. /\ outPipe' \in Seq(OwnFrames) /\ child' \in {"running", "crashed"}
        /\ child' = "running" => Written' = Append(Written, Item(item))
    BY <1>0, <2>1, EmitReport, OwnFrameForms
  <2>3. Written = OwnReport /\ OwnReport' = Append(OwnReport, Item(item))
    BY <1>0, <2>1, ReportGrows DEF ReportSoFar
  <2>4. answered' \in Seq(OwnItems)
    BY <1>0, <2>1
  <2> QED
    BY <2>1, <2>2, <2>3, <2>4 DEF HonestStep, ReportSoFar
<1>7. CASE Exit
  <2>1. /\ Alive /\ UNCHANGED <<parent, sending, receiving, output, outPipe, stage, answered>>
        /\ child' \in {"success", "failure"}
        /\ child' = "success" => stage = "eof" /\ writer \in {"written", "broken"}
    BY <1>7 DEF Exit, receiving, worker, EndOfInput
  <2>2. Written' = Written /\ OwnReport' = OwnReport /\ writer # "broken"
    BY <2>1 DEF Written, OwnReport, Item, Header, HonestInv
  <2> QED
    BY <1>0, <2>1, <2>2 DEF HonestStep, ReportSoFar
<1>8. CASE Signal
  <2>1. /\ Alive /\ UNCHANGED <<parent, sending, receiving, outPipe, stage, answered>>
        /\ child' \in {"limit", "crashed"}
    BY <1>8 DEF Signal, worker
  <2> QED
    BY <1>0, <2>1 DEF HonestStep
<1> QED
  BY <1>1, <1>2, <1>3, <1>4, <1>5, <1>6, <1>7, <1>8 DEF Worker

\* The writer is not cut short while the worker lives.
LEMMA HonestWriterStep ==
    ASSUME ExecutionInv, HonestInv, Writer
    PROVE  HonestInv'
<1>1. /\ writer = "writing" /\ UNCHANGED <<parent, process, receiving, outPipe, worker>>
      /\ writer' \in {"writing", "written", "broken"}
      /\ Alive => writer' # "broken"
  BY DEF Writer, WriteFrame, FinishWriting
<1>2. main # "done" /\ main' = main
  BY <1>1 DEF ExecutionInv, Progress, parent
<1>3. NoFalseAlarm'
  BY <1>2 DEF NoFalseAlarm
<1>4. Written' = Written /\ OwnReport' = OwnReport
  BY <1>1 DEF Written, OwnReport, Item, Header, receiving, worker
<1> QED
  BY <1>1, <1>3, <1>4
  DEF HonestInv, ReportSoFar, Intact, Alive, process, receiving, worker

\* What the reader takes from the pipe it keeps, and it stops when the worker
\* has ended and the pipe is empty.
LEMMA HonestReaderStep ==
    ASSUME ExecutionInv, HonestInv, ~Rogue, Reader \/ ReadFails
    PROVE  HonestInv'
<1>1. /\ reader = "reading" /\ UNCHANGED <<parent, process, sending, worker>>
  BY DEF Reader, ReadFrame, FinishReading, ReadFails
<1>2. main # "done" /\ main' = main
  BY <1>1 DEF ExecutionInv, Progress, parent
<1>3. NoFalseAlarm'
  BY <1>2 DEF NoFalseAlarm
<1>4. /\ outPipe' \in Seq(OwnFrames) /\ Written' = Written
      /\ reader' = "read" => outPipe' = <<>> /\ ~Alive'
  <2>1. CASE ReadFrame
    <3>1. outPipe \in Seq(OwnFrames) /\ outPipe # <<>> /\ output \in Seq(FrameTypes)
      BY <2>1 DEF ReadFrame, HonestInv, ExecutionInv
    <3>2. Head(outPipe) \in OwnFrames /\ Tail(outPipe) \in Seq(OwnFrames)
      BY <3>1
    <3>3. reader' = "reading"
      BY <2>1, <3>2 DEF ReadFrame, OwnFrames
    <3>4. outPipe \in Seq(FrameTypes)
      BY <3>1, OwnFrameForms, SeqMonotonic
    <3>5. Append(output, Head(outPipe)) \o Tail(outPipe) = output \o outPipe
      BY <3>1, <3>4, MoveHead
    <3> QED
      BY <2>1, <3>2, <3>3, <3>5 DEF ReadFrame, Written
  <2>2. CASE FinishReading \/ ReadFails
    BY <2>2 DEF FinishReading, ReadFails, Written, HonestInv, Alive, process
  <2> QED
    BY <2>1, <2>2 DEF Reader
<1>5. OwnReport' = OwnReport
  BY <1>1 DEF OwnReport, Item, Header, worker
<1> QED
  BY <1>1, <1>3, <1>4, <1>5
  DEF HonestInv, ReportSoFar, Intact, Alive, process, sending, worker

\* The whole report, once read, is judged as the answers are.
LEMMA ReportIsJudged ==
    ASSUME HonestInv, ExecutionInv, ~Rogue, child = "success", ~timeout, reader = "read"
    PROVE  Judgement = VerdictOf([magic |-> TRUE, count |-> CaseCount, items |-> answered])
<1>1. /\ stage = "eof" /\ writer = "written" /\ outPipe = <<>>
      /\ answered \in Seq(OwnItems) /\ Written = OwnReport
  BY DEF HonestInv, Intact, ReportSoFar
<1>2. output = OwnReport
  BY <1>1, ConcatEmptySeq DEF Written, ExecutionInv
<1> DEFINE items == [k \in 1 .. Len(answered) |-> Item(answered[k])]
           Frame == {Header(CaseCount)} \union {Item(item) : item \in OwnItems}
<1>3. /\ Len(answered) \in Nat
      /\ items \in Seq(Frame) /\ Len(items) = Len(answered)
      /\ <<Header(CaseCount)>> \in Seq(Frame) /\ Len(<<Header(CaseCount)>>) = 1
  BY <1>1
<1>4. /\ Len(output) = 1 + Len(answered)
      /\ output[1] = Header(CaseCount)
      /\ \A k \in 1 .. Len(answered) : output[k + 1] = Item(answered[k])
  <2>1. /\ Len(OwnReport) = 1 + Len(items)
        /\ \A k \in 1 .. 1 + Len(items) :
               OwnReport[k] = IF k <= 1 THEN <<Header(CaseCount)>>[k] ELSE items[k - 1]
    BY <1>3, ConcatProperties DEF OwnReport
  <2>2. OwnReport[1] = Header(CaseCount)
    <3>1. 1 \in 1 .. 1 + Len(items)
      BY <1>3
    <3>2. OwnReport[1] = IF 1 <= 1 THEN <<Header(CaseCount)>>[1] ELSE items[1 - 1]
      <4> HIDE DEF items
      <4> QED
        BY <2>1, <3>1, Zenon
    <3> QED
      BY <3>2
  <2>3. ASSUME NEW k \in 1 .. Len(answered)
        PROVE  OwnReport[k + 1] = Item(answered[k])
    <3>1. k + 1 \in 1 .. 1 + Len(items) /\ ~(k + 1 <= 1) /\ (k + 1) - 1 = k
      BY <1>3
    <3>2. OwnReport[k + 1] = items[k]
      BY <2>1, <3>1
    <3> QED
      BY <3>2
  <2> QED
    BY <1>2, <1>3, <2>1, <2>2, <2>3
<1>5. ~TooLong
  <2>1. ASSUME NEW k \in 1 .. Len(output) PROVE output[k].item # "flood"
    <3>1. CASE k = 1
      BY <1>4, <3>1 DEF Header
    <3>2. CASE k # 1
      <4>1. k - 1 \in 1 .. Len(answered) /\ (k - 1) + 1 = k
        BY <1>3, <1>4, <3>2
      <4>2. output[k] = Item(answered[k - 1]) /\ answered[k - 1] \in OwnItems
        BY <1>1, <1>4, <4>1
      <4> QED
        BY <4>2 DEF Item, OwnItems
    <3> QED
      BY <3>1, <3>2
  <2> QED
    BY <2>1 DEF TooLong
<1>6. /\ output # <<>> /\ output[1].count = CaseCount /\ CaseCount # BadHeader
  BY <1>3, <1>4 DEF Header, BadHeader
<1>7. [k \in 1 .. Len(output) - 1 |-> output[k + 1].item] = answered
  <2>1. Len(output) - 1 = Len(answered)
    BY <1>3, <1>4
  <2>2. ASSUME NEW k \in 1 .. Len(answered) PROVE output[k + 1].item = answered[k]
    <3>1. output[k + 1] = Item(answered[k])
      BY <1>4
    <3> QED
      BY <3>1 DEF Item
  <2>3. answered = [k \in 1 .. Len(answered) |-> answered[k]]
    BY <1>1
  <2> QED
    BY <2>1, <2>2, <2>3
<1>8. Collected = [magic |-> TRUE, count |-> CaseCount, items |-> answered]
  BY <1>6, <1>7 DEF Collected
<1> QED
  BY <1>1, <1>5, <1>8 DEF Judgement

\* The parent ends the worker only as out of time, and judges once.
LEMMA HonestMainStep ==
    ASSUME ExecutionInv, HonestInv, ~Rogue, Main \/ MainFault
    PROVE  HonestInv'
<1>1. UNCHANGED <<output, outPipe, worker>> /\ main # "done"
  BY DEF Main, MainFault, RefuseToStart, SpawnWorker, StartWriter, NoWriter, StartReader, NoReader,
         JoinAbandonedWriter, ReapEnded, GiveUp, WaitFails, KillWorker, JoinWriter, JoinReader,
         Judge, receiving
<1>2. Written' = Written /\ OwnReport' = OwnReport
  BY <1>1 DEF Written, OwnReport, Item, Header, worker
<1>3. /\ Alive' => Alive \/ (child = "none" /\ writer = "none" /\ reader = "none")
      /\ child' \in {child, "running", "limit"}
      /\ child' = "running" => child \in {"none", "running"}
      /\ writer' # writer => writer' = "writing" /\ writer = "none"
      /\ reader' # reader => reader' = "reading"
      /\ reader = "read" => ~Alive'
  <2> USE DEF Alive, process, sending, receiving
  <2>1. reader = "read" => ~Alive
    BY DEF HonestInv
  <2>2. CASE SpawnWorker
    <3>1. child = "none" /\ writer = "none" /\ reader = "none"
      BY <2>2 DEF SpawnWorker, ExecutionInv, Progress
    <3> QED
      BY <2>2, <3>1 DEF SpawnWorker
  <2>3. CASE NoWriter \/ NoReader \/ KillWorker
    BY <2>1, <2>3 DEF NoWriter, NoReader, KillWorker, KillAndWait
  <2>4. CASE StartWriter
    <3>1. writer = "none"
      BY <2>4 DEF StartWriter, ExecutionInv, Progress
    <3> QED
      BY <2>1, <2>4, <3>1 DEF StartWriter
  <2>5. CASE StartReader
    BY <2>1, <2>5 DEF StartReader
  <2>6. CASE ~(SpawnWorker \/ NoWriter \/ NoReader \/ KillWorker \/ StartWriter \/ StartReader)
    <3>1. UNCHANGED <<child, writer, reader>>
      BY <2>6 DEF Main, MainFault, RefuseToStart, JoinAbandonedWriter, ReapEnded, GiveUp,
                  WaitFails, JoinWriter, JoinReader, Judge
    <3> QED
      BY <2>1, <3>1
  <2> QED
    BY <2>2, <2>3, <2>4, <2>5, <2>6
<1>4. NoFalseAlarm'
  <2>1. CASE Judge
    <3>1. /\ result' = Judgement
          /\ UNCHANGED <<timeout, process, sending, receiving, worker>>
      BY <2>1 DEF Judge, Return
    <3> QED
      BY <3>1, ReportIsJudged DEF NoFalseAlarm, process, receiving, worker
  <2>2. CASE RefuseToStart \/ NoWriter \/ JoinAbandonedWriter
    <3>1. reader' = "none"
      BY <2>2 DEF RefuseToStart, NoWriter, JoinAbandonedWriter, receiving, ExecutionInv, Progress
    <3> QED
      BY <3>1 DEF NoFalseAlarm
  <2>3. CASE ~(Judge \/ RefuseToStart \/ NoWriter \/ JoinAbandonedWriter)
    <3>1. main' # "done"
      BY <2>3 DEF Main, MainFault, SpawnWorker, StartWriter, StartReader, NoReader,
         ReapEnded, GiveUp, WaitFails, KillWorker, JoinWriter, JoinReader
    <3> QED
      BY <3>1 DEF NoFalseAlarm
  <2> QED
    BY <2>1, <2>2, <2>3
<1> QED
  BY <1>1, <1>2, <1>3, <1>4
  DEF HonestInv, ReportSoFar, Intact, Alive, worker

\* Whatever the end of the process and the two threads race, the worker's own
\* report is what is judged.
THEOREM ExecutionNoFalseAlarm == Spec => []NoFalseAlarm
<1>1. Init => HonestInv
  BY DEF Init, HonestInv, ReportSoFar, Written, Intact, Alive, NoFalseAlarm
<1>2. ExecutionInv /\ HonestInv /\ [Next]_vars => HonestInv'
  <2> SUFFICES ASSUME ExecutionInv, HonestInv, [Next]_vars, ~Rogue PROVE HonestInv'
    BY DEF HonestInv
  <2>1. CASE TimePasses
    BY <2>1 DEF TimePasses, HonestInv, ReportSoFar, Written, OwnReport, Item, Header, Intact,
                Alive, NoFalseAlarm, parent, process, sending, receiving, worker
  <2>2. CASE UNCHANGED vars
    BY <2>2 DEF vars, HonestInv, ReportSoFar, Written, OwnReport, Item, Header, Intact,
                Alive, NoFalseAlarm, parent, process, sending, receiving, worker
  <2>3. ~TakenOver
    BY DEF TakenOver
  <2> QED
    BY <2>1, <2>2, <2>3, HonestMainStep, HonestWriterStep, HonestReaderStep, HonestWorkerStep
    DEF Next
<1>3. HonestInv => NoFalseAlarm
  BY DEF HonestInv, NoFalseAlarm
<1> QED
  BY <1>1, <1>2, <1>3, ExecutionInvariant, PTL DEF Spec
=============================================================================
