---------------------------- MODULE InMemoryStore ----------------------------
(***************************************************************************)
(* InMemoryStore of crates/coggate/src/store.rs: the bounded map of        *)
(* challenge entries behind one mutex.  Each call of the StateStore trait  *)
(* is one action, because its whole body runs under the lock; what callers *)
(* interleave is the calls, and the clock value `now` that each of them    *)
(* read before it took the lock, which is why `now` is unconstrained here. *)
(* The answer of the last call is kept in `reply`.                         *)
(*                                                                         *)
(* Lock poisoning is left out: it takes a panic under the lock, and the    *)
(* only expression there that can panic is the refund `attempts -= 1`,     *)
(* which AttemptBudget shows never starts from zero.                       *)
(***************************************************************************)
EXTENDS Naturals, FiniteSets

CONSTANTS
    Ids,            \* well-formed challenge ids the engine may issue
    UnknownId,      \* a well-formed id nobody issued
    MalformedId,    \* not 64 lowercase hexadecimal digits
    Scopes,         \* scopes of 1 to 128 bytes
    MalformedScope, \* empty or too long
    Tokens,         \* 128-bit random lease tokens; a draw is always fresh
    None,           \* Option::None
    Absent,         \* the map has no entry under this id
    Times,          \* clock readings, in seconds
    MaxAttempts,    \* coggate_core::MAX_ATTEMPTS
    Capacity        \* InMemoryStore::capacity

Entries == [scope : Scopes, expires : Times, attempts : 0 .. MaxAttempts,
            lease : Tokens \union {None}, consumed : BOOLEAN]

ASSUME StoreAssumption ==
    /\ IsFiniteSet(Ids)
    /\ UnknownId \notin Ids
    /\ MalformedId \notin Ids \union {UnknownId}
    /\ MalformedScope \notin Scopes
    /\ None \notin Tokens \union Ids
    /\ Absent \notin Entries
    /\ Times \subseteq Nat
    /\ MaxAttempts \in Nat \ {0}
    /\ Capacity \in Nat

VARIABLES
    entries,    \* entries[c]: the Entry stored under id c, or Absent
    reply,      \* the answer of the last call
    claimOf,    \* claimOf[t]: the challenge of the Claim that carries token t
    outcome,    \* history: how the claim with token t ended
    charged,    \* history: charged[c] counts finished, unrefunded attempts
    inserted    \* history: ids that were ever inserted

storeVars == <<entries, reply, claimOf, outcome, charged, inserted>>

Completions == {"Passed", "Rejected", "InternalError"}
Outcomes == Completions \union {"Pending", "Expired"}
Refusals == {"InvalidId", "InvalidScope", "NotFound", "WrongScope", "Expired", "InFlight",
             "Exhausted", "StaleClaim", "Capacity", "Internal"}     \* StoreError
Replies == Refusals \union {"Ok"}

Resident(store) == {c \in Ids : store[c] # Absent}
Granted == {t \in Tokens : claimOf[t] # None}

StoreInit ==
    /\ entries = [c \in Ids |-> Absent]
    /\ reply = "Ok"
    /\ claimOf = [t \in Tokens |-> None]
    /\ outcome = [t \in Tokens |-> "Pending"]
    /\ charged = [c \in Ids |-> 0]
    /\ inserted = {}

(***************************************************************************)
(* insert: every call that presents a live challenge first prunes the map, *)
(* even when it is then refused.                                           *)
(***************************************************************************)
\* Mutated form: a consumed tombstone is dropped to make room.
RetainedWithoutTombstones(now) ==
    [c \in Ids |-> IF entries[c] # Absent /\ entries[c].expires > now
                      /\ ~entries[c].consumed
                   THEN entries[c] ELSE Absent]

Retained(now) ==
    [c \in Ids |-> IF entries[c] # Absent /\ entries[c].expires > now
                   THEN entries[c] ELSE Absent]

\* Mutated form: the capacity test is off by one.
InsertAnswerOverCapacity(c, expires, now) ==
    IF expires <= now THEN "Expired"
    ELSE IF Retained(now)[c] # Absent THEN "Internal"
    ELSE IF Cardinality(Resident(Retained(now))) > Capacity THEN "Capacity"
    ELSE "Ok"

\* Mutated form: an entry under the same id is not looked for.
InsertAnswerOverwriting(c, expires, now) ==
    IF expires <= now THEN "Expired"
    ELSE IF Cardinality(Resident(Retained(now)) \ {c}) >= Capacity THEN "Capacity"
    ELSE "Ok"

InsertAnswer(c, expires, now) ==
    IF expires <= now THEN "Expired"
    ELSE IF Retained(now)[c] # Absent THEN "Internal"
    ELSE IF Cardinality(Resident(Retained(now))) >= Capacity THEN "Capacity"
    ELSE "Ok"

NewEntry(scope, expires) ==
    [scope |-> scope, expires |-> expires, attempts |-> 0, lease |-> None,
     consumed |-> FALSE]

\* An assumption on the callers, which insert does not check: an id is never
\* derived twice (a fresh nonce under HMAC-SHA-256) and the Gate inserts what it
\* issued once.  A second insert can only present what the map still holds.
Presentable(c, scope, expires) ==
    \/ c \notin inserted
    \/ entries[c] # Absent /\ entries[c].scope = scope /\ entries[c].expires = expires

Insert(c, scope, expires, now) ==
    LET answer == InsertAnswer(c, expires, now) IN
    /\ Presentable(c, scope, expires)
    /\ reply' = answer
    /\ \/ /\ answer = "Expired"
          /\ UNCHANGED <<entries, inserted>>
       \/ /\ answer \in {"Internal", "Capacity"}
          /\ entries' = Retained(now)
          /\ UNCHANGED inserted
       \/ /\ answer = "Ok"
          /\ entries' = [Retained(now) EXCEPT ![c] = NewEntry(scope, expires)]
          /\ inserted' = inserted \union {c}
    /\ UNCHANGED <<claimOf, outcome, charged>>

(***************************************************************************)
(* claim: the first refusal that applies, in the order of the code.        *)
(***************************************************************************)
ValidateLookup(scope, id) ==
    IF scope = MalformedScope THEN "InvalidScope"
    ELSE IF id = MalformedId THEN "InvalidId"
    ELSE "Ok"

\* Mutated form: a lease that is already out does not refuse the claim.
ClaimAnswerStealing(scope, id, now) ==
    IF ValidateLookup(scope, id) # "Ok" THEN ValidateLookup(scope, id)
    ELSE IF id \notin Resident(entries) THEN "NotFound"
    ELSE IF entries[id].scope # scope THEN "WrongScope"
    ELSE IF entries[id].expires <= now THEN "Expired"
    ELSE IF entries[id].consumed \/ entries[id].attempts >= MaxAttempts THEN "Exhausted"
    ELSE "Ok"

ClaimAnswer(scope, id, now) ==
    IF ValidateLookup(scope, id) # "Ok" THEN ValidateLookup(scope, id)
    ELSE IF id \notin Resident(entries) THEN "NotFound"
    ELSE IF entries[id].scope # scope THEN "WrongScope"
    ELSE IF entries[id].expires <= now THEN "Expired"
    ELSE IF entries[id].consumed \/ entries[id].attempts >= MaxAttempts THEN "Exhausted"
    ELSE IF entries[id].lease # None THEN "InFlight"
    ELSE "Ok"

\* The entry once an attempt is consumed for this token.
LeasedTo(entry, token) ==
    [scope |-> entry.scope, expires |-> entry.expires,
     attempts |-> entry.attempts + 1, lease |-> token, consumed |-> entry.consumed]

\* Mutated form: the attempt is counted before the lease is looked at.
ClaimCountingFirst(scope, id, now, token) ==
    /\ claimOf[token] = None
    /\ reply' = ClaimAnswer(scope, id, now)
    /\ \/ /\ ClaimAnswer(scope, id, now) = "Ok"
          /\ entries' = [entries EXCEPT ![id] = LeasedTo(entries[id], token)]
          /\ claimOf' = [claimOf EXCEPT ![token] = id]
       \/ /\ ClaimAnswer(scope, id, now) = "InFlight"
          /\ entries' = [entries EXCEPT ![id].attempts = @ + 1]
          /\ UNCHANGED claimOf
       \/ /\ ClaimAnswer(scope, id, now) \notin {"Ok", "InFlight"}
          /\ UNCHANGED <<entries, claimOf>>
    /\ UNCHANGED <<outcome, charged, inserted>>

Claim(scope, id, now, token) ==
    /\ claimOf[token] = None
    /\ reply' = ClaimAnswer(scope, id, now)
    /\ \/ /\ ClaimAnswer(scope, id, now) = "Ok"
          /\ entries' = [entries EXCEPT ![id] = LeasedTo(entries[id], token)]
          /\ claimOf' = [claimOf EXCEPT ![token] = id]
       \/ /\ ClaimAnswer(scope, id, now) # "Ok"
          /\ UNCHANGED <<entries, claimOf>>
    /\ UNCHANGED <<outcome, charged, inserted>>

\* The operating system gives no random bytes for the token.
ClaimWithoutEntropy(scope, id) ==
    /\ reply' = IF ValidateLookup(scope, id) # "Ok"
                THEN ValidateLookup(scope, id) ELSE "Internal"
    /\ UNCHANGED <<entries, claimOf, outcome, charged, inserted>>

(***************************************************************************)
(* complete: a caller may present any claim it was granted, at any time    *)
(* and more than once.                                                     *)
(***************************************************************************)
\* Mutated form: any lease will do.
CompleteAnswerAnyLease(token, now) ==
    LET c == claimOf[token] IN
    IF entries[c] = Absent THEN "NotFound"
    ELSE IF entries[c].lease = None THEN "StaleClaim"
    ELSE IF entries[c].expires <= now THEN "Expired"
    ELSE "Ok"

CompleteAnswer(token, now) ==
    LET c == claimOf[token] IN
    IF entries[c] = Absent THEN "NotFound"
    ELSE IF entries[c].lease # token THEN "StaleClaim"
    ELSE IF entries[c].expires <= now THEN "Expired"
    ELSE "Ok"

\* Mutated form: a rejected attempt is refunded as well.
AttemptsAfterRefundingAll(attempts, result) ==
    IF result \in {"InternalError", "Rejected"} THEN attempts - 1 ELSE attempts

AttemptsAfter(attempts, result) ==
    IF result = "InternalError" THEN attempts - 1 ELSE attempts

\* Mutated form: only expiry marks the entry consumed.
ConsumesOnlyLate(result) == result = "Expired"

Consumes(result) == result \in {"Passed", "Expired"}

\* The entry once the lease is given up with this result.
Released(entry, result) ==
    [scope |-> entry.scope, expires |-> entry.expires,
     attempts |-> AttemptsAfter(entry.attempts, result),
     lease |-> None,
     consumed |-> entry.consumed \/ Consumes(result)]

Complete(token, completion, now) ==
    LET c == claimOf[token]
        answer == CompleteAnswer(token, now)
        result == IF answer = "Expired" THEN "Expired" ELSE completion
    IN
    /\ c # None
    /\ reply' = answer
    /\ \/ /\ answer \in {"NotFound", "StaleClaim"}
          /\ UNCHANGED <<entries, outcome, charged>>
       \/ /\ answer \in {"Expired", "Ok"}
          /\ entries' = [entries EXCEPT ![c] = Released(entries[c], result)]
          /\ outcome' = [outcome EXCEPT ![token] = result]
          /\ charged' = [charged EXCEPT ![c] = IF result = "InternalError" THEN @ ELSE @ + 1]
    /\ UNCHANGED <<claimOf, inserted>>

StoreNext ==
    \/ \E c \in Ids, scope \in Scopes, expires, now \in Times :
          Insert(c, scope, expires, now)
    \/ \E scope \in Scopes \union {MalformedScope},
          id \in Ids \union {UnknownId, MalformedId} :
          \/ \E now \in Times, token \in Tokens : Claim(scope, id, now, token)
          \/ ClaimWithoutEntropy(scope, id)
    \/ \E token \in Tokens, completion \in Completions, now \in Times :
          Complete(token, completion, now)

StoreSpec == StoreInit /\ [][StoreNext]_storeVars

-----------------------------------------------------------------------------
(***************************************************************************)
(* Properties.                                                             *)
(***************************************************************************)

\* The state has the types of the code's Entry, Claim and StoreError.
TypeOK ==
    /\ entries \in [Ids -> Entries \union {Absent}]
    /\ reply \in Replies
    /\ claimOf \in [Tokens -> Ids \union {None}]
    /\ outcome \in [Tokens -> Outcomes]
    /\ charged \in [Ids -> 0 .. MaxAttempts]
    /\ inserted \subseteq Ids

Leased(c) == IF entries[c].lease = None THEN 0 ELSE 1

\* store.rs:49 "Claim consumes one attempt; InternalError refunds it, Rejected
\* spends it": over every interleaving of calls, the counter of an entry is the
\* number of its finished, unrefunded attempts plus the one in flight.  With
\* TypeOK it follows that an attempt is refunded only from a positive counter
\* (u8 `attempts -= 1` never underflows) and that at most MaxAttempts are spent.
AttemptBudget ==
    \A c \in Resident(entries) : entries[c].attempts = charged[c] + Leased(c)

\* store.rs:52 "There is no automatic lease stealing": as long as its entry is
\* in the map, a claim that has not completed holds the lease, whatever other
\* callers do meanwhile; and a lease is never held by anything else.
NoLeaseStealing ==
    \A c \in Resident(entries), t \in Tokens :
        entries[c].lease = t <=> claimOf[t] = c /\ outcome[t] = "Pending"

Accepted(t) == outcome[t] = "Passed"

\* store.rs:50 "Passed permanently consumes the challenge": however completions
\* are delayed, repeated or reordered, one challenge accepts one claim.
OnePass ==
    \A t, u \in Tokens :
        Accepted(t) /\ Accepted(u) /\ claimOf[t] = claimOf[u] => t = u

\* The map never holds more entries than its capacity, whatever has expired.
Bounded == Cardinality(Resident(entries)) <= Capacity

\* The clocks of the inserts this step may be.
InsertClocks ==
    {now \in Times : \E c \in Ids, scope \in Scopes, expires \in Times :
        Insert(c, scope, expires, now)}

\* A claim on this challenge is granted or ends.
MovesClaim(c) ==
    \E t \in Tokens :
        claimOf'[t] = c /\ (claimOf'[t] # claimOf[t] \/ outcome'[t] # outcome[t])

\* store.rs:88-89 "Never overwrite a live challenge, including a consumed
\* tombstone": whatever clock each caller came with, an entry, its counter, its
\* lease and its tombstone are changed by the claims on it, which never remove
\* it, and otherwise only by its removal, in an insert by whose own clock it has
\* expired.  And only entries live by that clock can refuse an insert the room.
InsertsSpareTheLive ==
    [][/\ \A c \in Resident(entries) : entries'[c] # entries[c] =>
             IF MovesClaim(c) THEN entries'[c] # Absent
             ELSE /\ entries'[c] = Absent
                  /\ InsertClocks # {}
                  /\ \A now \in InsertClocks : entries[c].expires <= now
       /\ reply' = "Capacity" =>
             /\ Cardinality(Resident(entries')) >= Capacity
             /\ \A c \in Resident(entries'), now \in InsertClocks : entries'[c].expires > now]_storeVars

\* The late completion of the claim that holds the lease: it stays charged.
EndsLate(c) ==
    /\ entries[c].lease # None
    /\ outcome'[entries[c].lease] = "Expired"
    /\ entries'[c].lease = None /\ entries'[c].consumed
    /\ entries'[c].attempts = entries[c].attempts

\* A call that is refused leaves each entry as it was, or evicts it: no attempt
\* is lost to a claim that was not granted, no lease to a stale completion.  The
\* one refusal that does more is that of a completion that comes too late.
RefusalsAreHarmless ==
    [][reply' \in Refusals =>
          \A c \in Ids :
             \/ entries'[c] \in {entries[c], Absent}
             \/ reply' = "Expired" /\ EndsLate(c)]_storeVars

(***************************************************************************)
(* The inductive invariant: what else has to hold for the above to follow  *)
(* from one step to the next.                                              *)
(***************************************************************************)
ConsumedIsIdle ==
    \A c \in Resident(entries) : entries[c].consumed => entries[c].lease = None

AcceptedIsClosed ==
    \A t \in Tokens : Accepted(t) =>
        \A c \in Resident(entries) : claimOf[t] = c => entries[c].consumed

UnissuedIsUntouched ==
    \A c \in Ids \ inserted :
        /\ entries[c] = Absent
        /\ charged[c] = 0
        /\ \A t \in Tokens : claimOf[t] # c

UngrantedIsPending ==
    \A t \in Tokens : claimOf[t] = None => outcome[t] = "Pending"

\* The safety of the store in inductive form: the budget, the lease and the
\* single pass hold together with what each needs from the others.
IndInv ==
    /\ TypeOK
    /\ AttemptBudget
    /\ NoLeaseStealing
    /\ OnePass
    /\ ConsumedIsIdle
    /\ AcceptedIsClosed
    /\ UnissuedIsUntouched
    /\ UngrantedIsPending

(***************************************************************************)
(* The store implements the lifecycle.  An entry that is gone or consumed  *)
(* is closed; the lease of an open entry is its holder.                    *)
(***************************************************************************)
Open(c) == entries[c] # Absent /\ ~entries[c].consumed

PhaseOf(c) ==
    IF c \notin inserted THEN "unissued"
    ELSE IF Open(c) THEN "open" ELSE "closed"

HolderOf(c) == IF Open(c) THEN entries[c].lease ELSE None

AcceptedOn(c) == {t \in Tokens : claimOf[t] = c /\ Accepted(t)}

WinnerOf(c) ==
    IF AcceptedOn(c) = {} THEN None ELSE CHOOSE t \in AcceptedOn(c) : TRUE

Lifecycle == INSTANCE ChallengeLifecycle WITH
    Challenges <- Ids,
    NoToken <- None,
    phase <- [c \in Ids |-> PhaseOf(c)],
    holder <- [c \in Ids |-> HolderOf(c)],
    winner <- [c \in Ids |-> WinnerOf(c)],
    granted <- Granted

\* The detailed store implements the contract of trait StateStore.
ImplementsLifecycle == Lifecycle!Spec
=============================================================================
