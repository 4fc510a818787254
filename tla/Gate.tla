-------------------------------- MODULE Gate --------------------------------
(***************************************************************************)
(* Gate::issue and Gate::verify of crates/coggate/src/lib.rs, called by    *)
(* many threads at once, composed with the InMemoryStore, the permits of   *)
(* the Runtime and the wall clock.                                         *)
(*                                                                         *)
(* A call is a sequence of steps: each call of the store, each reading of  *)
(* the clock and the start and end of a worker is a step of its own, since *)
(* other threads and the clock move in between.  The permit counter is the *)
(* semaphore ReservePermit implements.  What a worker does is left open:   *)
(* it ends with any verdict a started worker can give.                     *)
(***************************************************************************)
EXTENDS InMemoryStore

CONSTANTS
    Threads,        \* concurrent callers of one Gate
    MaxParallel,    \* Runtime::max_parallel
    Ttl,            \* CHALLENGE_TTL_SECS
    MaxClock,       \* bound of the model: the clock stops here
    ClockStepsBack, \* the host may set its clock back, even before the epoch
    Builds          \* the targets it is built for: cfg!(target_os), "linux" or "other"

ASSUME GateAssumption ==
    /\ IsFiniteSet(Threads)
    /\ MaxParallel \in Nat
    /\ Ttl \in Nat \ {0}
    /\ MaxClock \in Nat \ {0}
    /\ ClockStepsBack \in BOOLEAN
    /\ Builds \subseteq {"linux", "other"}
    /\ 0 .. MaxClock + Ttl \subseteq Times

VARIABLES
    clock,      \* the wall clock in seconds; 0 stands for before the epoch
    build,      \* the target of this build, which never changes
    permits,    \* the threads that hold a Permit
    \* the locals of each thread's call
    pc,         \* where it is; "idle" between calls
    scope, id, source,  \* its arguments
    stamp,      \* the last value of unix_now
    token,      \* the token of its Claim
    verdict,    \* what execute_reserved returned
    \* what callers and the operating system saw
    answer,     \* <<thread, result>> if the last step returned to a caller, or None
    started,    \* history: tokens for which a worker process was started
    lateWork,   \* history: tokens whose execution ended after expiry, with no step back since
    lost        \* history: tokens whose completion found no clock

arguments == <<scope, id, source>>
history == <<started, lateWork, lost>>
host == <<clock, build>>
vars == <<storeVars, host, permits, pc, arguments, stamp, token, verdict, answer, history>>

Sources == {"program", "unrunnable", "oversized"}   \* unrunnable: empty or with a NUL
WorkerVerdicts == {"Passed", "WrongAnswer", "InvalidSubmission", "ResourceLimit", "WorkerFailure"}
Verdicts == WorkerVerdicts \union {"InternalError", "Unsupported", "Busy"}
Answers == Verdicts \union Replies \union {"Core", "Clock"}

\* No answer is mistaken for none.
ASSUME AnswerAssumption == None \notin Threads \X Answers

Init ==
    /\ StoreInit
    /\ clock = 1
    /\ build \in Builds
    /\ permits = {}
    /\ pc = [t \in Threads |-> "idle"]
    /\ scope = [t \in Threads |-> None]
    /\ id = [t \in Threads |-> None]
    /\ source = [t \in Threads |-> None]
    /\ stamp = [t \in Threads |-> 0]
    /\ token = [t \in Threads |-> None]
    /\ verdict = [t \in Threads |-> None]
    /\ answer = None
    /\ started = {}
    /\ lateWork = {}
    /\ lost = {}

\* The call goes on.
Goto(t, label) ==
    /\ pc' = [pc EXCEPT ![t] = label]
    /\ answer' = None

\* The call returns: its locals end, and its permit if it still has one.
Return(t, result) ==
    /\ pc' = [pc EXCEPT ![t] = "idle"]
    /\ scope' = [scope EXCEPT ![t] = None]
    /\ id' = [id EXCEPT ![t] = None]
    /\ source' = [source EXCEPT ![t] = None]
    /\ stamp' = [stamp EXCEPT ![t] = 0]
    /\ token' = [token EXCEPT ![t] = None]
    /\ verdict' = [verdict EXCEPT ![t] = None]
    /\ answer' = <<t, result>>
    /\ permits' = permits \ {t}

\* unix_now: fails before the epoch.
ReadClock(t) == clock # 0 /\ stamp' = [stamp EXCEPT ![t] = clock]

-----------------------------------------------------------------------------
(***************************************************************************)
(* Gate::issue                                                             *)
(***************************************************************************)
IssueRefused(t) ==
    /\ pc[t] = "idle"
    /\ \/ clock = 0 /\ Return(t, "Clock")
       \/ clock # 0 /\ Return(t, "Core")
    /\ UNCHANGED <<storeVars, host, history>>

\* The engine derives an id nobody has, and the clock value is kept.
BeginIssue(t, newScope, newId) ==
    /\ pc[t] = "idle"
    /\ newId \notin inserted
    /\ \A u \in Threads : pc[u] = "insert" => id[u] # newId
    /\ ReadClock(t)
    /\ scope' = [scope EXCEPT ![t] = newScope]
    /\ id' = [id EXCEPT ![t] = newId]
    /\ Goto(t, "insert")
    /\ UNCHANGED <<storeVars, host, permits, source, token, verdict, history>>

InsertChallenge(t) ==
    /\ pc[t] = "insert"
    /\ Insert(id[t], scope[t], stamp[t] + Ttl, stamp[t])
    /\ Return(t, reply')
    /\ UNCHANGED <<host, history>>

(***************************************************************************)
(* Gate::verify, up to the claim                                           *)
(***************************************************************************)
VerifyRefused(t, reqScope, reqId, reqSource) ==
    LET lookup == ValidateLookup(reqScope, reqId) IN
    /\ pc[t] = "idle"
    /\ \/ lookup # "Ok" /\ Return(t, lookup)
       \/ lookup = "Ok" /\ reqSource = "oversized" /\ Return(t, "InvalidSubmission")
    /\ UNCHANGED <<storeVars, host, history>>

BeginVerify(t, reqScope, reqId, reqSource) ==
    /\ pc[t] = "idle"
    /\ ValidateLookup(reqScope, reqId) = "Ok"
    /\ reqSource # "oversized"
    /\ scope' = [scope EXCEPT ![t] = reqScope]
    /\ id' = [id EXCEPT ![t] = reqId]
    /\ source' = [source EXCEPT ![t] = reqSource]
    /\ Goto(t, "reserve")
    /\ UNCHANGED <<storeVars, host, permits, stamp, token, verdict, history>>

\* Mutated form: the limit is not looked at.
ReserveUnbounded(t) ==
    /\ pc[t] = "reserve"
    /\ permits' = permits \union {t}
    /\ Goto(t, "claimClock")
    /\ UNCHANGED <<storeVars, host, arguments, stamp, token, verdict, history>>

ReserveGranted(t) ==
    /\ pc[t] = "reserve"
    /\ Cardinality(permits) < MaxParallel
    /\ permits' = permits \union {t}
    /\ Goto(t, "claimClock")
    /\ UNCHANGED <<storeVars, host, arguments, stamp, token, verdict, history>>

\* Mutated form: a full pool is polled until it has room.
ReserveWaiting(t) ==
    /\ pc[t] = "reserve"
    /\ Cardinality(permits) >= MaxParallel
    /\ Goto(t, "reserve")
    /\ UNCHANGED <<storeVars, host, permits, arguments, stamp, token, verdict, history>>

ReserveBusy(t) ==
    /\ pc[t] = "reserve"
    /\ Cardinality(permits) >= MaxParallel
    /\ Return(t, "Busy")
    /\ UNCHANGED <<storeVars, host, history>>

ReadClaimClock(t) ==
    /\ pc[t] = "claimClock"
    /\ \/ /\ ReadClock(t)
          /\ Goto(t, "claim")
          /\ UNCHANGED <<permits, arguments, token, verdict>>
       \/ clock = 0 /\ Return(t, "Clock")
    /\ UNCHANGED <<storeVars, host, history>>

ClaimChallenge(t, newToken) ==
    /\ pc[t] = "claim"
    /\ Claim(scope[t], id[t], stamp[t], newToken)
    /\ \/ /\ reply' = "Ok"
          /\ token' = [token EXCEPT ![t] = newToken]
          /\ Goto(t, "execute")
          /\ UNCHANGED <<permits, arguments, stamp, verdict>>
       \/ reply' # "Ok" /\ Return(t, reply')
    /\ UNCHANGED <<host, history>>

ClaimFails(t) ==
    /\ pc[t] = "claim"
    /\ ClaimWithoutEntropy(scope[t], id[t])
    /\ Return(t, reply')
    /\ UNCHANGED <<host, history>>

(***************************************************************************)
(* Runtime::execute_reserved: the permit is dropped when it returns.       *)
(***************************************************************************)
ExpiryOf(t) == entries[id[t]].expires

\* The execution is over with this verdict, however it ended.
ExecutionEnds(t, result) ==
    /\ verdict' = [verdict EXCEPT ![t] = result]
    /\ permits' = permits \ {t}
    /\ lateWork' = IF entries[id[t]] = Absent \/ clock >= ExpiryOf(t)
                   THEN lateWork \union {token[t]} ELSE lateWork
    /\ Goto(t, "completeClock")

\* It returns before any worker exists: the platform, the source, an encoding
\* that does not fit, or a process that cannot be spawned.
NoWorker(t) ==
    /\ pc[t] = "execute"
    /\ ExecutionEnds(t, IF build # "linux" THEN "Unsupported"
                        ELSE IF source[t] = "unrunnable" THEN "InvalidSubmission"
                        ELSE "InternalError")
    /\ UNCHANGED <<storeVars, host, arguments, stamp, token, started, lost>>

StartWorker(t) ==
    /\ pc[t] = "execute"
    /\ build = "linux"
    /\ source[t] # "unrunnable"
    /\ started' = started \union {token[t]}
    /\ Goto(t, "running")
    /\ UNCHANGED <<storeVars, host, permits, arguments, stamp, token, verdict,
                   lateWork, lost>>

FinishWorker(t, result) ==
    /\ pc[t] = "running"
    /\ ExecutionEnds(t, result)
    /\ UNCHANGED <<storeVars, host, arguments, stamp, token, started, lost>>

(***************************************************************************)
(* Gate::verify, after the execution                                       *)
(***************************************************************************)
\* Mutated form: completion is judged at the time of the claim.
KeepClaimClock(t) ==
    /\ pc[t] = "completeClock"
    /\ Goto(t, "complete")
    /\ UNCHANGED <<storeVars, host, permits, arguments, stamp, token, verdict, history>>

\* Mutated form: a clock that cannot be read ends the call quietly.
ReadCompletionClockSilently(t) ==
    /\ pc[t] = "completeClock"
    /\ Return(t, "Clock")
    /\ UNCHANGED <<storeVars, host, history>>

ReadCompletionClock(t) ==
    /\ pc[t] = "completeClock"
    /\ \/ /\ ReadClock(t)
          /\ Goto(t, "complete")
          /\ UNCHANGED <<permits, arguments, token, verdict, lost>>
       \/ /\ clock = 0
          /\ lost' = lost \union {token[t]}
          /\ Return(t, "Clock")
    /\ UNCHANGED <<storeVars, host, started, lateWork>>

\* Mutated form: a worker that failed is not charged.
CompletionRefundingFailures(result) ==
    CASE result = "Passed" -> "Passed"
      [] result \in {"InternalError", "Unsupported", "Busy", "WorkerFailure"} -> "InternalError"
      [] OTHER -> "Rejected"

CompletionOf(result) ==
    CASE result = "Passed" -> "Passed"
      [] result \in {"InternalError", "Unsupported", "Busy"} -> "InternalError"
      [] OTHER -> "Rejected"

\* Mutated form: the store's refusal is ignored.
VerdictRegardless(t, stored) == verdict[t]

ResultOf(t, stored) == IF stored = "Ok" THEN verdict[t] ELSE stored

\* Mutated form: nothing is completed when nothing was executed.
CompleteExecuted(t) ==
    /\ pc[t] = "complete"
    /\ \/ /\ verdict[t] \in WorkerVerdicts
          /\ Complete(token[t], CompletionOf(verdict[t]), stamp[t])
          /\ Return(t, ResultOf(t, reply'))
       \/ /\ verdict[t] \notin WorkerVerdicts
          /\ Return(t, verdict[t])
          /\ UNCHANGED storeVars
    /\ UNCHANGED <<host, history>>

CompleteClaim(t) ==
    /\ pc[t] = "complete"
    /\ Complete(token[t], CompletionOf(verdict[t]), stamp[t])
    /\ Return(t, ResultOf(t, reply'))
    /\ UNCHANGED <<host, history>>

-----------------------------------------------------------------------------
Tick ==
    /\ clock < MaxClock
    /\ clock' = clock + 1
    /\ answer' = None
    /\ UNCHANGED <<storeVars, build, permits, pc, arguments, stamp, token, verdict, history>>

StepBack ==
    /\ ClockStepsBack
    /\ clock > 0
    /\ clock' = clock - 1
    /\ lateWork' = {}
    /\ answer' = None
    /\ UNCHANGED <<storeVars, build, permits, pc, arguments, stamp, token, verdict, started, lost>>

Begin(t) ==
    \/ IssueRefused(t)
    \/ \E s \in Scopes, c \in Ids : BeginIssue(t, s, c)
    \/ \E s \in Scopes \union {MalformedScope}, c \in Ids \union {UnknownId, MalformedId},
          text \in Sources :
          \/ VerifyRefused(t, s, c, text)
          \/ BeginVerify(t, s, c, text)

Continue(t) ==
    \/ InsertChallenge(t)
    \/ ReserveGranted(t)
    \/ ReserveBusy(t)
    \/ ReadClaimClock(t)
    \/ \E newToken \in Tokens : ClaimChallenge(t, newToken)
    \/ ClaimFails(t)
    \/ NoWorker(t)
    \/ StartWorker(t)
    \/ \E result \in WorkerVerdicts : FinishWorker(t, result)
    \/ ReadCompletionClock(t)
    \/ CompleteClaim(t)

Next ==
    \/ \E t \in Threads : Begin(t) \/ Continue(t)
    \/ Tick
    \/ StepBack

Spec == Init /\ [][Next]_vars

\* A thread inside a call is scheduled, and a worker is ended by its deadline
\* at the latest.  Nobody has to make another call, and the clock may stand.
FairSpec == Spec /\ \A t \in Threads : WF_vars(Continue(t))

-----------------------------------------------------------------------------
(***************************************************************************)
(* Properties.                                                             *)
(***************************************************************************)
Labels == {"idle", "insert", "reserve", "claimClock", "claim", "execute", "running",
           "completeClock", "complete"}

\* design.md lifecycle rule 3 "While claimed: reject concurrent submissions":
\* no two executions of one challenge overlap, from claim to worker exit, even
\* when the first outlives the expiry of the challenge.
OneExecutionPerChallenge ==
    \A t, u \in Threads :
        /\ pc[t] \in {"execute", "running"}
        /\ pc[u] \in {"execute", "running"}
        /\ id[t] = id[u]
        => t = u

\* design.md:68 "There are at most two chargeable execution attempts per
\* challenge": whatever is refunded, at most MaxAttempts worker processes are
\* ever started for one challenge, because what a worker does is never refunded.
ExecutionBudget ==
    \A c \in Ids : Cardinality({k \in started : claimOf[k] = c}) <= MaxAttempts

\* The early returns of verify drop the permit and the later ones have given it
\* back: permits are exactly the calls between reserve and the end of their
\* execution, and never more than MaxParallel.
PermitsMatchWork ==
    /\ permits = {t \in Threads : pc[t] \in {"claimClock", "claim", "execute", "running"}}
    /\ Cardinality(permits) <= MaxParallel

\* A lease in the store belongs to a call still on its way to complete it; the
\* one way to leave a lease behind is a completion that cannot read the clock.
NoOrphanedLease ==
    \A c \in Resident(entries) :
        \/ entries[c].lease \in lost \union {None}
        \/ \E t \in Threads : token[t] = entries[c].lease /\ id[t] = c

\* lib.rs:80 "Completing an expired challenge must never produce an accepted
\* result": a caller hears Passed only when the store has just accepted its claim.
PassedMeansAccepted ==
    [][\A t \in Threads :
          answer' = <<t, "Passed">> => outcome'[token[t]] = "Passed"]_vars

\* lib.rs:82: unless the clock steps back in between, an execution that ended
\* after its challenge expired is not accepted, not even when the challenge was
\* evicted meanwhile: its result is judged by a later reading.
LateWorkIsNotAccepted == \A k \in lateWork : outcome[k] # "Passed"

\* The Gate drives the store only through the calls of trait StateStore, with
\* arguments they accept, so what holds of every behaviour of the store holds here.
UsesStore == StoreSpec

\* Seen from the Gate, with leases, clock readings and evictions crossing each
\* other, every challenge still lives the lifecycle of the contract.
KeepsLifecycle == ImplementsLifecycle

\* Every call returns.
CallsReturn == \A t \in Threads : pc[t] # "idle" ~> pc[t] = "idle"

OnLease(k) == \E c \in Resident(entries) : entries[c].lease = k

\* No challenge stays claimed: every lease is given up, so a refunded or merely
\* rejected challenge can be claimed again.
LeasesEnd == \A k \in Tokens : OnLease(k) ~> ~OnLease(k)

(***************************************************************************)
(* The inductive invariant: how the calls on their way and the store fit   *)
(* together, for the safety properties above to follow.                    *)
(***************************************************************************)
\* Between a granted claim and its completion a call has a claim in hand.
Holds(t) == pc[t] \in {"execute", "running", "completeClock", "complete"}

\* A challenge enters the map once, and its counter and expiry are numbers.
StoreKeepsShape ==
    /\ entries = [c \in Ids |-> entries[c]]
    /\ claimOf \in [Tokens -> Ids \union {None}]
    /\ outcome = [k \in Tokens |-> outcome[k]]
    /\ \A c \in Resident(entries) :
          /\ c \in inserted
          /\ entries[c].attempts \in 0 .. MaxAttempts
          /\ entries[c].expires \in Times

\* Tokens that were never granted have no past.
TokensAreFresh ==
    /\ started \union lateWork \subseteq {k \in Tokens : claimOf[k] # None}
    /\ \A k \in Tokens :
          IF claimOf[k] = None THEN outcome[k] = "Pending" ELSE claimOf[k] \in inserted

\* A call that holds a claim is the one that was granted it, it has not been
\* decided, and the entry is still leased to it or gone.
ClaimsInHand ==
    \A t \in Threads :
        IF Holds(t)
        THEN /\ id[t] \in Ids
             /\ claimOf[token[t]] = id[t]
             /\ outcome[token[t]] = "Pending"
             /\ id[t] \in Resident(entries) => entries[id[t]].lease = token[t]
        ELSE token[t] = None

\* At most one call is between the claim and the completion of a challenge.
OneHolderPerChallenge ==
    \A t, u \in Threads : Holds(t) /\ Holds(u) /\ id[t] = id[u] => t = u

\* A worker was started for whatever is not refunded.
RefundedIsUnstarted ==
    \A t \in Threads :
        \/ pc[t] = "execute"
        \/ pc[t] \in {"completeClock", "complete"} /\ CompletionOf(verdict[t]) = "InternalError"
        => token[t] \notin started

\* Work is late from the end of its execution on.
LateStaysLate ==
    \A t \in Threads :
        /\ pc[t] \in {"execute", "running"} => token[t] \notin lateWork
        /\ pc[t] = "completeClock" /\ token[t] \in lateWork /\ id[t] \in Resident(entries)
              => clock >= ExpiryOf(t)
        /\ pc[t] = "complete" /\ token[t] \in lateWork /\ id[t] \in Resident(entries)
              => stamp[t] >= ExpiryOf(t)

\* The claims of a challenge that started a worker or still may.
Charged(c) ==
    {k \in Tokens : claimOf[k] = c /\ (k \in started \/ \E t \in Threads : Holds(t) /\ token[t] = k)}

\* They are covered by the counter of the entry, as long as there is one.
BudgetIsCounted ==
    \A c \in Ids :
        /\ IsFiniteSet(Charged(c))
        /\ Cardinality(Charged(c)) <= IF c \in Resident(entries)
                                      THEN entries[c].attempts ELSE MaxAttempts

GateInv ==
    /\ StoreKeepsShape
    /\ TokensAreFresh
    /\ ClaimsInHand
    /\ OneHolderPerChallenge
    /\ RefundedIsUnstarted
    /\ LateStaysLate
    /\ LateWorkIsNotAccepted
    /\ NoOrphanedLease
    /\ BudgetIsCounted

(***************************************************************************)
(* What the documents say and the code does not do.                        *)
(***************************************************************************)

\* design.md:65 "Failure before starting a worker or unsupported platform:
\* refund the attempt": an attempt is spent only if a worker was started for it.
SpentMeansStarted == \A k \in Tokens : outcome[k] = "Rejected" => k \in started
=============================================================================
