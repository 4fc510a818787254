---------------------------- MODULE ReservePermit ----------------------------
(***************************************************************************)
(* Runtime::reserve and Permit::drop of crates/coggate/src/runtime.rs: the *)
(* lock-free counter of running executions.  Every access to the shared    *)
(* atomic is one action; what a thread read is kept in `seen`, as the      *)
(* local `active` of the code, and may be out of date when it is used.     *)
(* All accesses are to one atomic location, so the orderings AcqRel and    *)
(* Acquire leave no outcome that interleaving does not already give.       *)
(***************************************************************************)
EXTENDS Naturals, FiniteSets

CONSTANTS
    Threads,        \* concurrent callers of the runtime
    MaxParallel     \* Runtime::max_parallel

ASSUME PermitAssumption ==
    /\ IsFiniteSet(Threads)
    /\ MaxParallel \in Nat

VARIABLES
    active,     \* Runtime::active, the shared counter
    pc,         \* pc[t]: "idle", "loop" (inside reserve) or "holding"
    seen        \* seen[t]: the counter as this call last read it

vars == <<active, pc, seen>>

Init ==
    /\ active = 0
    /\ pc = [t \in Threads |-> "idle"]
    /\ seen = [t \in Threads |-> 0]

\* The call begins with a load.
Load(t) ==
    /\ pc[t] = "idle"
    /\ pc' = [pc EXCEPT ![t] = "loop"]
    /\ seen' = [seen EXCEPT ![t] = active]
    /\ UNCHANGED active

\* The value read leaves no room: the call returns None.
GiveUp(t) ==
    /\ pc[t] = "loop"
    /\ seen[t] >= MaxParallel
    /\ pc' = [pc EXCEPT ![t] = "idle"]
    /\ UNCHANGED <<active, seen>>

\* Mutated form: a plain store of active + 1, which loses concurrent updates.
StoreIncremented(t) ==
    /\ pc[t] = "loop"
    /\ seen[t] < MaxParallel
    /\ active' = seen[t] + 1
    /\ pc' = [pc EXCEPT ![t] = "holding"]
    /\ UNCHANGED seen

\* Mutated form: fetch_add after the test, without comparing again.
AddUnchecked(t) ==
    /\ pc[t] = "loop"
    /\ seen[t] < MaxParallel
    /\ active' = active + 1
    /\ pc' = [pc EXCEPT ![t] = "holding"]
    /\ UNCHANGED seen

\* compare_exchange_weak finds the value it read: the permit is taken.
ExchangeSucceeds(t) ==
    /\ pc[t] = "loop"
    /\ seen[t] < MaxParallel
    /\ active = seen[t]
    /\ active' = active + 1
    /\ pc' = [pc EXCEPT ![t] = "holding"]
    /\ UNCHANGED seen

\* It finds another value, or fails spuriously, and returns the current one.
ExchangeFails(t) ==
    /\ pc[t] = "loop"
    /\ seen[t] < MaxParallel
    /\ seen' = [seen EXCEPT ![t] = active]
    /\ UNCHANGED <<active, pc>>

\* Permit::drop.
DropPermit(t) ==
    /\ pc[t] = "holding"
    /\ active' = active - 1
    /\ pc' = [pc EXCEPT ![t] = "idle"]
    /\ UNCHANGED seen

Next ==
    \E t \in Threads :
        \/ Load(t)
        \/ GiveUp(t)
        \/ ExchangeSucceeds(t)
        \/ ExchangeFails(t)
        \/ DropPermit(t)

Spec == Init /\ [][Next]_vars

-----------------------------------------------------------------------------
Holders == {t \in Threads : pc[t] = "holding"}

\* Every variable has its type, and what a call has read never exceeds the limit.
TypeOK ==
    /\ active \in 0 .. MaxParallel
    /\ pc \in [Threads -> {"idle", "loop", "holding"}]
    /\ seen \in [Threads -> 0 .. MaxParallel]

\* The counter is the number of permits out: under every interleaving of loads,
\* failed exchanges and drops no permit is lost (a capacity leak that would turn
\* every later call into Busy) and none is counted twice.
NoPermitLost == active = Cardinality(Holders)

(***************************************************************************)
(* The compare-and-exchange loop implements the semaphore.  A call is      *)
(* refused at the moment it reads a full counter, not when it returns.     *)
(***************************************************************************)
Status(t) ==
    IF pc[t] = "holding" THEN "holding"
    ELSE IF pc[t] = "loop" /\ seen[t] >= MaxParallel THEN "refused"
    ELSE "idle"

Permits == INSTANCE WorkerPermits WITH status <- [t \in Threads |-> Status(t)]

\* lib.rs:62 "Capacity is reserved before claiming; busy requests do not spend
\* tries": a call is answered Busy only if all permits were out at some moment
\* of that very call, and never more than MaxParallel executions run.
ImplementsPermits == Permits!Spec
=============================================================================
