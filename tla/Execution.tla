------------------------------- MODULE Execution -------------------------------
(***************************************************************************)
(* Runtime::execute_reserved of crates/coggate/src/runtime.rs and the      *)
(* worker of crates/coggate-worker/native/worker.c: one execution, with    *)
(* the calling thread, its writer and reader threads, the worker process   *)
(* and the two bounded pipes between them.                                 *)
(*                                                                         *)
(* The request is CaseCount + 1 frames (the source, then each input), all  *)
(* alike but for their order.  The response is a header followed by items. *)
(* A frame enters a pipe as a whole.  The worker may hang at any point; a  *)
(* Rogue one is taken over by what it runs and writes what it likes.       *)
(***************************************************************************)
EXTENDS Response

CONSTANTS
    PipeCapacity,   \* frames a pipe holds before its writer blocks
    Deadline,       \* the 500 ms may pass before the worker is done
    Faults,         \* threads, isolation, reads and waits may fail; signals hit the worker
    Rogue,          \* the worker need not follow worker.c
    None

ASSUME ExecutionAssumption ==
    /\ PipeCapacity \in Nat \ {0}
    /\ Deadline \in BOOLEAN
    /\ Faults \in BOOLEAN
    /\ Rogue \in BOOLEAN
    /\ None \notin Verdicts \union {"Unsupported", "InternalError"}

VARIABLES
    main,       \* where execute_reserved is
    result,     \* what it returned, or None
    timeout,    \* it gave up on the worker
    late,       \* 500 ms have passed since the start
    child,      \* the worker process, as the kernel sees it
    reaped,     \* it was waited for
    writer,     \* the thread writing the request
    unsent,     \* frames it has not written yet
    inPipe,     \* frames in the worker's standard input
    reader,     \* the thread collecting the response
    output,     \* the frames it has
    outPipe,    \* frames in the worker's standard output
    stage,      \* where the worker is
    answered    \* history: the items of worker.c's own response

parent == <<main, result, timeout>>
process == <<child, reaped>>
sending == <<writer, unsent>>
receiving == <<reader, output>>
worker == <<stage, answered>>
vars == <<parent, late, process, sending, inPipe, receiving, outPipe, worker>>

Frames == CaseCount + 1
Headers == 1 .. MaxCases
BadHeader == 0                  \* a wrong magic, no count or one out of range
RogueItems == ItemClasses \union {"flood"}     \* flood: more than MAX_RESPONSE bytes
FrameTypes == [item : ItemClasses \union {"header", "flood"}, count : 0 .. MaxCases]
Header(count) == [item |-> "header", count |-> count]
Item(class) == [item |-> class, count |-> 0]
OwnItems == {"right", "wrong", "garbled", "rejected", "exhausted", "failed"}
Alive == child = "running"
Closed == reader # "reading"    \* nobody reads the worker's output

Init ==
    /\ main = "start" /\ result = None /\ timeout = FALSE /\ late = FALSE
    /\ child = "none" /\ reaped = FALSE
    /\ writer = "none" /\ unsent = Frames /\ inPipe = 0
    /\ reader = "none" /\ output = <<>> /\ outPipe = <<>>
    /\ stage = "isolate" /\ answered = <<>>

Return(verdict) == main' = "done" /\ result' = verdict

-----------------------------------------------------------------------------
(***************************************************************************)
(* The calling thread.                                                     *)
(***************************************************************************)
\* The platform, the source, its encoding or the spawn itself is refused.
RefuseToStart ==
    /\ main = "start"
    /\ \E verdict \in {"Unsupported", "InvalidSubmission", "InternalError"} : Return(verdict)
    /\ UNCHANGED <<timeout, late, process, sending, inPipe, receiving, outPipe, worker>>

SpawnWorker ==
    /\ main = "start"
    /\ main' = "startWriter"
    /\ child' = "running"
    /\ UNCHANGED <<result, timeout, late, reaped, sending, inPipe, receiving, outPipe, worker>>

\* child.kill(), then child.wait().
KillAndWait ==
    /\ child' = IF Alive THEN "limit" ELSE child
    /\ reaped' = TRUE

StartWriter ==
    /\ main = "startWriter"
    /\ writer' = "writing"
    /\ main' = "startReader"
    /\ UNCHANGED <<result, timeout, late, process, unsent, inPipe, receiving, outPipe, worker>>

\* Mutated form: a thread that cannot be started is no fault of the submission.
NoWriterRefunded ==
    /\ main = "startWriter"
    /\ Faults
    /\ KillAndWait
    /\ Return("InternalError")
    /\ UNCHANGED <<timeout, late, sending, inPipe, receiving, outPipe, worker>>

NoWriter ==
    /\ main = "startWriter"
    /\ Faults
    /\ KillAndWait
    /\ Return("WorkerFailure")
    /\ UNCHANGED <<timeout, late, sending, inPipe, receiving, outPipe, worker>>

\* Mutated form: the request is written out before the response is read.
StartReaderAfterWriting ==
    /\ main = "startReader"
    /\ writer # "writing"
    /\ reader' = "reading"
    /\ main' = "poll"
    /\ UNCHANGED <<result, timeout, late, process, sending, inPipe, output, outPipe, worker>>

StartReader ==
    /\ main = "startReader"
    /\ reader' = "reading"
    /\ main' = "poll"
    /\ UNCHANGED <<result, timeout, late, process, sending, inPipe, output, outPipe, worker>>

\* Mutated form: the writer is left to itself.
NoReaderUnjoined ==
    /\ main = "startReader"
    /\ Faults
    /\ KillAndWait
    /\ Return("WorkerFailure")
    /\ UNCHANGED <<timeout, late, sending, inPipe, receiving, outPipe, worker>>

NoReader ==
    /\ main = "startReader"
    /\ Faults
    /\ KillAndWait
    /\ main' = "abandon"
    /\ UNCHANGED <<result, timeout, late, sending, inPipe, receiving, outPipe, worker>>

JoinAbandonedWriter ==
    /\ main = "abandon"
    /\ writer # "writing"
    /\ Return("WorkerFailure")
    /\ UNCHANGED <<timeout, late, process, sending, inPipe, receiving, outPipe, worker>>

\* try_wait finds that the worker has ended.
ReapEnded ==
    /\ main = "poll"
    /\ ~Alive
    /\ reaped' = TRUE
    /\ main' = "joinWriter"
    /\ UNCHANGED <<result, timeout, late, child, sending, inPipe, receiving, outPipe, worker>>

\* Mutated form: the deadline is left to the worker's own timers.
GiveUpNever ==
    /\ main = "poll"
    /\ late /\ ~Alive
    /\ main' = "kill"
    /\ UNCHANGED <<result, timeout, late, process, sending, inPipe, receiving, outPipe, worker>>

\* try_wait finds it running after the deadline.  The worker may still end by
\* itself before the kill.
GiveUp ==
    /\ main = "poll"
    /\ Alive /\ late
    /\ main' = "kill"
    /\ UNCHANGED <<result, timeout, late, process, sending, inPipe, receiving, outPipe, worker>>

WaitFails ==
    /\ main = "poll"
    /\ Faults
    /\ main' = "kill"
    /\ UNCHANGED <<result, timeout, late, process, sending, inPipe, receiving, outPipe, worker>>

KillWorker ==
    /\ main = "kill"
    /\ KillAndWait
    /\ timeout' = TRUE
    /\ main' = "joinWriter"
    /\ UNCHANGED <<result, late, sending, inPipe, receiving, outPipe, worker>>

JoinWriter ==
    /\ main = "joinWriter"
    /\ writer # "writing"
    /\ main' = "joinReader"
    /\ UNCHANGED <<result, timeout, late, process, sending, inPipe, receiving, outPipe, worker>>

JoinReader ==
    /\ main = "joinReader"
    /\ reader # "reading"
    /\ main' = "judge"
    /\ UNCHANGED <<result, timeout, late, process, sending, inPipe, receiving, outPipe, worker>>

\* The collected frames as the parser sees them.
Collected ==
    IF output = <<>> \/ output[1].count = BadHeader
    THEN [magic |-> FALSE, count |-> Cut, items |-> <<>>]
    ELSE [magic |-> TRUE, count |-> output[1].count,
          items |-> [k \in 1 .. Len(output) - 1 |-> output[k + 1].item]]

TooLong == \E k \in 1 .. Len(output) : output[k].item = "flood"

\* Mutated form: the exit status of the worker is not looked at.
JudgementOfOutput ==
    IF timeout THEN "ResourceLimit"
    ELSE IF reader = "failed" THEN "WorkerFailure"
    ELSE IF TooLong THEN "ResourceLimit"
    ELSE IF writer # "written" THEN "WorkerFailure"
    ELSE VerdictOf(Collected)

Judgement ==
    IF timeout THEN "ResourceLimit"
    ELSE IF reader = "failed" THEN "WorkerFailure"
    ELSE IF TooLong THEN "ResourceLimit"
    ELSE IF child = "limit" THEN "ResourceLimit"
    ELSE IF child # "success" THEN "WorkerFailure"
    ELSE IF writer # "written" THEN "WorkerFailure"
    ELSE VerdictOf(Collected)

Judge ==
    /\ main = "judge"
    /\ Return(Judgement)
    /\ UNCHANGED <<timeout, late, process, sending, inPipe, receiving, outPipe, worker>>

\* What the calling thread does by itself, and what may go wrong for it.
Main ==
    \/ RefuseToStart \/ SpawnWorker \/ StartWriter \/ StartReader \/ JoinAbandonedWriter
    \/ ReapEnded \/ GiveUp \/ KillWorker \/ JoinWriter \/ JoinReader \/ Judge
MainFault == NoWriter \/ NoReader \/ WaitFails

-----------------------------------------------------------------------------
(***************************************************************************)
(* The writer thread: write_all, then its end of the pipe is closed.       *)
(***************************************************************************)
WriteFrame ==
    /\ writer = "writing"
    /\ unsent > 0
    /\ Alive
    /\ inPipe < PipeCapacity
    /\ inPipe' = inPipe + 1
    /\ unsent' = unsent - 1
    /\ UNCHANGED <<parent, late, process, writer, receiving, outPipe, worker>>

FinishWriting ==
    /\ writer = "writing"
    /\ \/ unsent = 0 /\ writer' = "written"
       \/ unsent > 0 /\ ~Alive /\ writer' = "broken"
    /\ UNCHANGED <<parent, late, process, unsent, inPipe, receiving, outPipe, worker>>

Writer == WriteFrame \/ FinishWriting

(***************************************************************************)
(* The reader thread: read_to_end of at most MAX_RESPONSE + 1 bytes.       *)
(***************************************************************************)
ReadFrame ==
    /\ reader = "reading"
    /\ outPipe # <<>>
    /\ output' = Append(output, Head(outPipe))
    /\ outPipe' = Tail(outPipe)
    /\ reader' = IF Head(outPipe).item = "flood" THEN "read" ELSE "reading"
    /\ UNCHANGED <<parent, late, process, sending, inPipe, worker>>

\* Mutated form: it stops when the worker is gone, whatever the pipe still holds.
FinishReadingEarly ==
    /\ reader = "reading"
    /\ ~Alive
    /\ reader' = "read"
    /\ UNCHANGED <<parent, late, process, sending, inPipe, output, outPipe, worker>>

FinishReading ==
    /\ reader = "reading"
    /\ outPipe = <<>> /\ ~Alive
    /\ reader' = "read"
    /\ UNCHANGED <<parent, late, process, sending, inPipe, output, outPipe, worker>>

ReadFails ==
    /\ reader = "reading"
    /\ Faults
    /\ reader' = "failed"
    /\ UNCHANGED <<parent, late, process, sending, inPipe, output, outPipe, worker>>

Reader == ReadFrame \/ FinishReading

-----------------------------------------------------------------------------
(***************************************************************************)
(* The worker process.                                                     *)
(***************************************************************************)
Step(from, to) == Alive /\ stage = from /\ stage' = to

\* A write to standard output: it blocks while the pipe is full, and SIGPIPE
\* ends a worker whose reader is gone.  Until the reader thread runs the parent
\* itself holds the other end.
Emit(frame) ==
    \/ /\ ~(Closed /\ reader # "none")
       /\ Len(outPipe) < PipeCapacity
       /\ outPipe' = Append(outPipe, frame)
       /\ UNCHANGED process
    \/ /\ Closed /\ reader # "none"
       /\ child' = "crashed"
       /\ UNCHANGED <<reaped, outPipe>>

Isolate ==
    /\ \/ Step("isolate", "request")
       \/ Faults /\ Step("isolate", "refuseHeader")
    /\ UNCHANGED <<parent, late, process, sending, inPipe, receiving, outPipe, answered>>

\* The writer's end of the pipe is closed.
EndOfInput == inPipe = 0 /\ writer \in {"written", "broken"}

\* The frame with the source; bytecode or a short request is refused.
ReadRequest ==
    /\ \/ inPipe > 0 /\ inPipe' = inPipe - 1 /\ Step("request", "respond")
       \/ inPipe > 0 /\ inPipe' = inPipe - 1 /\ Faults /\ Step("request", "refuseHeader")
       \/ EndOfInput /\ UNCHANGED inPipe /\ Step("request", "refuseHeader")
    /\ UNCHANGED <<parent, late, process, sending, receiving, outPipe, answered>>

WriteHeader ==
    /\ \/ Step("respond", "input") /\ Emit(Header(CaseCount))
       \/ Step("refuseHeader", "refuseItem") /\ Emit(Header(1))
    /\ UNCHANGED <<parent, late, sending, inPipe, receiving, answered>>

RefuseItem ==
    /\ Step("refuseItem", "fail")
    /\ Emit(Item("failed"))
    /\ UNCHANGED <<parent, late, sending, inPipe, receiving, answered>>

ReadInput ==
    /\ \/ inPipe > 0 /\ inPipe' = inPipe - 1 /\ Step("input", "execute")
       \/ EndOfInput /\ UNCHANGED inPipe /\ Step("input", "fail")
    /\ UNCHANGED <<parent, late, process, sending, receiving, outPipe, answered>>

\* execute_case: it evaluates, judges nothing, and writes one item.
ExecuteCase(item) ==
    /\ Step("execute", IF Len(answered) + 1 = CaseCount THEN "eof" ELSE "input")
    /\ Emit(Item(item))
    /\ answered' = Append(answered, item)
    /\ UNCHANGED <<parent, late, sending, inPipe, receiving>>

\* The end of the request is required before the worker reports success.
Exit ==
    /\ Alive
    /\ \/ stage = "eof" /\ EndOfInput /\ child' = "success"
       \/ stage = "eof" /\ inPipe > 0 /\ child' = "failure"
       \/ stage = "fail" /\ child' = "failure"
    /\ UNCHANGED <<parent, late, reaped, sending, inPipe, receiving, outPipe, worker>>

Worker ==
    \/ Isolate \/ ReadRequest \/ WriteHeader \/ RefuseItem \/ ReadInput
    \/ \E item \in OwnItems : ExecuteCase(item)
    \/ Exit

(***************************************************************************)
(* What else may happen to the worker: its timers and limits, a crash, or  *)
(* being taken over.                                                       *)
(***************************************************************************)
Signal ==
    /\ Faults
    /\ Alive
    /\ \E end \in {"limit", "crashed"} : child' = end
    /\ UNCHANGED <<parent, late, reaped, sending, inPipe, receiving, outPipe, worker>>

Written == output \o outPipe

TakenOver ==
    /\ Rogue
    /\ Alive
    /\ \/ /\ inPipe > 0
          /\ inPipe' = inPipe - 1
          /\ UNCHANGED <<process, outPipe>>
       \/ /\ Written = <<>>
          /\ \E count \in Headers \union {BadHeader} : Emit(Header(count))
          /\ UNCHANGED inPipe
       \/ /\ Len(Written) \in 1 .. MaxCases + 1
          /\ \A k \in 1 .. Len(Written) : Written[k].item \notin {"cut", "flood"}
          /\ \E item \in RogueItems : Emit(Item(item))
          /\ UNCHANGED inPipe
       \/ /\ child' \in {"success", "failure"}
          /\ UNCHANGED <<reaped, inPipe, outPipe>>
    /\ stage' = "rogue"
    /\ UNCHANGED <<parent, late, sending, receiving, answered>>

TimePasses ==
    /\ Deadline
    /\ Alive
    /\ ~late
    /\ late' = TRUE
    /\ UNCHANGED <<parent, process, sending, inPipe, receiving, outPipe, worker>>

Next ==
    \/ Main \/ MainFault \/ Writer \/ Reader \/ ReadFails
    \/ Worker \/ Signal \/ TakenOver \/ TimePasses

Spec == Init /\ [][Next]_vars

\* The parent's threads are scheduled.  Nothing is assumed of the worker, of the
\* deadline or of a fault: a call that waits is not saved by something failing.
ThreadSpec == Spec /\ WF_vars(Main) /\ WF_vars(Writer) /\ WF_vars(Reader)

-----------------------------------------------------------------------------
(***************************************************************************)
(* Properties.                                                             *)
(***************************************************************************)
\* design.md:113 "An exit failure, invalid framing, extra/truncated data, wrong
\* count, error status or mismatch cannot be accepted": whoever runs in the
\* worker, and however its end, the deadline and the two threads race, a passed
\* execution is one whose worker ended by itself and successfully before it was
\* given up, was sent the whole request and answered every case as expected.
PassedIsEarned ==
    result = "Passed" =>
        /\ child = "success"
        /\ ~timeout
        /\ writer = "written"
        /\ CompleteAndRight(Collected)

\* runtime.rs:22 "The attempt is spent; only failures before execution are
\* refunded": the verdicts the Gate refunds are returned only when no worker
\* was started.
RefundsOnlyUnstarted ==
    result \in {"InternalError", "Unsupported"} => child = "none"

\* Every return leaves no process unwaited for, and neither of the threads.
NothingLeftBehind ==
    main = "done" =>
        /\ child # "none" => ~Alive /\ reaped
        /\ writer # "writing"
        /\ reader # "reading"

\* A worker that did its work is judged by its answers: neither the end of the
\* process, nor the order in which the threads see it, loses a frame of the
\* request or of the response.  (Without a thread that reads, or when reading
\* fails, there is nothing to judge, however well the worker did.)
NoFalseAlarm ==
    ~Rogue /\ main = "done" /\ child = "success" /\ ~timeout /\ reader = "read" =>
        result = VerdictOf([magic |-> TRUE, count |-> CaseCount, items |-> answered])

\* runtime.rs:133: once the deadline passes the call returns, even if the worker
\* hangs at any point, reading or writing nothing, with either pipe full.
CallReturns == WF_vars(TimePasses) => <>(main = "done")

\* runtime.rs:106-123: parent and worker never wait for each other on full pipes,
\* so a worker that always goes on ends the call and not the deadline.
PipesNeverBlock == WF_vars(Worker) => <>(main = "done")

(***************************************************************************)
(* The safety of an execution in inductive form: what each point of        *)
(* execute_reserved knows of the process and of its two threads.           *)
(***************************************************************************)
Progress ==
    /\ main \in {"start", "startWriter"} => writer = "none"
    /\ main \in {"start", "startWriter", "startReader", "abandon"} => reader = "none"
    /\ main = "start" => child = "none"
    /\ main \in {"abandon", "joinWriter", "joinReader", "judge", "done"} =>
          ~Alive /\ (child # "none" => reaped)
    /\ main \in {"joinReader", "judge", "done"} => writer # "writing"
    /\ main \in {"judge", "done"} => reader # "reading"

ExecutionInv ==
    /\ output \in Seq(FrameTypes)
    /\ outPipe \in Seq(FrameTypes)
    /\ Progress
    /\ result # None => main = "done"
    /\ RefundsOnlyUnstarted
    /\ PassedIsEarned

(***************************************************************************)
(* What is known of a worker that follows worker.c: until it is ended from *)
(* outside, the frames it has written and the parent has not lost are the  *)
(* header and its answers, and it reports success when it has them all.    *)
(***************************************************************************)
OwnFrames == {frame \in FrameTypes : frame.item # "flood"}
OwnReport == <<Header(CaseCount)>> \o [k \in 1 .. Len(answered) |-> Item(answered[k])]
Intact == child \in {"none", "running", "success"}

ReportSoFar ==
    /\ stage \in {"isolate", "request", "respond", "refuseHeader"} =>
          Written = <<>> /\ answered = <<>>
    /\ stage \in {"input", "execute", "eof"} => Written = OwnReport

HonestInv ==
    ~Rogue =>
        /\ stage # "rogue"
        /\ answered \in Seq(OwnItems)
        /\ outPipe \in Seq(OwnFrames)
        /\ Intact => ReportSoFar
        /\ Alive => writer # "broken"
        /\ child = "success" => stage = "eof" /\ writer = "written"
        /\ reader = "read" => outPipe = <<>> /\ ~Alive
        /\ NoFalseAlarm
=============================================================================
