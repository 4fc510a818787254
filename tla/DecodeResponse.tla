---------------------------- MODULE DecodeResponse ----------------------------
(***************************************************************************)
(* The loop of decode_response in crates/coggate/src/runtime.rs: it reads  *)
(* the header, then one item after the other, keeping the last verdict it  *)
(* recorded, and returns at the first item it cannot use.                  *)
(***************************************************************************)
EXTENDS Response

CONSTANT
    MaxItems    \* bound of the model: the items of a response

ASSUME DecodeAssumption == MaxItems \in Nat

Responses ==
    [magic : BOOLEAN, count : 0 .. MaxItems \union {Cut},
     items : {items \in UNION {[1 .. n -> ItemClasses] : n \in 0 .. MaxItems} :
                 \A k \in 1 .. Len(items) - 1 : items[k] # "cut"}]

VARIABLES
    response,   \* the bytes the reader collected
    at,         \* items read so far, the loop's i
    verdict,    \* the loop's verdict, and at the end the answer
    pc

vars == <<response, at, verdict, pc>>

Init ==
    /\ response \in Responses
    /\ at = 0
    /\ verdict = "Passed"
    /\ pc = "header"

Return(result) ==
    /\ verdict' = result
    /\ pc' = "returned"

ReadHeader ==
    /\ pc = "header"
    /\ \/ ~GoodHeader(response) /\ Return("WorkerFailure")
       \/ GoodHeader(response) /\ pc' = "items" /\ UNCHANGED verdict
    /\ UNCHANGED <<response, at>>

Record(item) ==
    verdict' = IF item = "right" THEN verdict ELSE MarkVerdict(item)

\* Mutated form: the first error status ends decoding.
ReadItemEagerly ==
    LET item == ItemAt(response, at + 1) IN
    /\ pc = "items"
    /\ at < response.count
    /\ at' = at + 1
    /\ \/ /\ Stops(response, at + 1)
          /\ Return(StopVerdict(response, at + 1))
       \/ /\ ~Stops(response, at + 1)
          /\ item \in Marks
          /\ Return(MarkVerdict(item))
       \/ /\ item = "right" /\ ~Stops(response, at + 1)
          /\ UNCHANGED <<verdict, pc>>
    /\ UNCHANGED response

ReadItem ==
    LET item == ItemAt(response, at + 1) IN
    /\ pc = "items"
    /\ at < response.count
    /\ at' = at + 1
    /\ \/ /\ Stops(response, at + 1)
          /\ Return(StopVerdict(response, at + 1))
       \/ /\ ~Stops(response, at + 1)
          /\ Record(item)
          /\ UNCHANGED pc
    /\ UNCHANGED response

\* Mutated form: bytes after the last item are not looked at.
FinishAtCount ==
    /\ pc = "items"
    /\ at = response.count
    /\ Return(IF verdict = "Passed" /\ response.count # CaseCount
              THEN "WorkerFailure" ELSE verdict)
    /\ UNCHANGED <<response, at>>

Finish ==
    /\ pc = "items"
    /\ at = response.count
    /\ Return(IF \/ Len(response.items) > response.count
                 \/ verdict = "Passed" /\ response.count # CaseCount
              THEN "WorkerFailure" ELSE verdict)
    /\ UNCHANGED <<response, at>>

Next == ReadHeader \/ ReadItem \/ Finish

Spec == Init /\ [][Next]_vars

-----------------------------------------------------------------------------
\* What holds before each item: the items read so far neither stop the loop nor
\* are forgotten, and the verdict is that of the last mark among them.
LoopInv ==
    /\ response \in Responses
    /\ at \in Nat
    /\ verdict \in Verdicts
    /\ pc \in {"header", "items", "returned"}
    /\ pc = "header" => at = 0 /\ verdict = "Passed"
    /\ pc = "items" =>
          /\ GoodHeader(response)
          /\ at <= response.count
          /\ \A k \in 1 .. at : ~Stops(response, k)
          /\ \/ /\ verdict = "Passed"
                /\ \A k \in 1 .. at : ItemAt(response, k) = "right"
             \/ \E k \in 1 .. at :
                   /\ ItemAt(response, k) \in Marks
                   /\ \A j \in k + 1 .. at : ItemAt(response, j) = "right"
                   /\ verdict = MarkVerdict(ItemAt(response, k))
    /\ pc = "returned" =>
          /\ verdict = VerdictOf(response)
          /\ verdict = "Passed" <=> CompleteAndRight(response)

\* The loop computes the closed form the model of the execution uses: which of
\* several errors is reported, for every response.
ReturnsVerdictOf == pc = "returned" => verdict = VerdictOf(response)

\* design.md:113 "invalid framing, extra/truncated data, wrong count, error
\* status or mismatch cannot be accepted": only a response that answers every
\* case as expected and holds nothing else passes, and every such response does.
PassedIsComplete ==
    pc = "returned" => (verdict = "Passed" <=> CompleteAndRight(response))
=============================================================================
