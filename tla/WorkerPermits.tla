---------------------------- MODULE WorkerPermits ----------------------------
(***************************************************************************)
(* What Runtime::reserve and Permit promise: a counting semaphore.  A call *)
(* gets a permit at a moment when fewer than MaxParallel are out, or is    *)
(* refused at a moment when all of them are.                               *)
(***************************************************************************)
EXTENDS Naturals, FiniteSets

CONSTANTS Threads, MaxParallel

VARIABLE status     \* status[t]: "idle", "refused" or "holding"

HoldersOf(s) == {t \in Threads : s[t] = "holding"}

Init == status = [t \in Threads |-> "idle"]

Acquire(t) ==
    /\ status[t] = "idle"
    /\ Cardinality(HoldersOf(status)) < MaxParallel
    /\ status' = [status EXCEPT ![t] = "holding"]

Refuse(t) ==
    /\ status[t] = "idle"
    /\ Cardinality(HoldersOf(status)) = MaxParallel
    /\ status' = [status EXCEPT ![t] = "refused"]

Return(t) ==
    /\ status[t] = "refused"
    /\ status' = [status EXCEPT ![t] = "idle"]

Release(t) ==
    /\ status[t] = "holding"
    /\ status' = [status EXCEPT ![t] = "idle"]

Next == \E t \in Threads : Acquire(t) \/ Refuse(t) \/ Return(t) \/ Release(t)

Spec == Init /\ [][Next]_status
=============================================================================
