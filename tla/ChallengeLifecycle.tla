------------------------- MODULE ChallengeLifecycle -------------------------
(***************************************************************************)
(* What a StateStore promises (crates/coggate/src/store.rs, the contract   *)
(* on trait StateStore, and the lifecycle rules of docs/design.md), with   *)
(* no map, no lock, no clock and no token comparison.  A challenge is      *)
(* issued once, leased to one claim at a time, charged at most MaxAttempts *)
(* times, accepted at most once, and once closed it never opens again.     *)
(* InMemoryStore and the Gate are shown to implement this module.          *)
(***************************************************************************)
EXTENDS Naturals

CONSTANTS
    Challenges,     \* identities of challenges
    Tokens,         \* lease tokens, one for each successful claim
    NoToken,        \* no lease is held: not a token
    MaxAttempts     \* PrivateChallenge::max_attempts, at least one

VARIABLES
    phase,      \* phase[c]: "unissued", "open" or "closed"
    holder,     \* holder[c]: the token whose execution of c is in flight
    charged,    \* charged[c]: attempts that were finished and not refunded
    winner,     \* winner[c]: the token whose completion was accepted
    granted     \* tokens handed out so far

vars == <<phase, holder, charged, winner, granted>>

Init ==
    /\ phase = [c \in Challenges |-> "unissued"]
    /\ holder = [c \in Challenges |-> NoToken]
    /\ charged = [c \in Challenges |-> 0]
    /\ winner = [c \in Challenges |-> NoToken]
    /\ granted = {}

\* The challenges of S are dropped by the store: nothing can complete there.
Retire(S) ==
    /\ \A c \in S : phase[c] # "unissued"
    /\ phase' = [c \in Challenges |-> IF c \in S THEN "closed" ELSE phase[c]]
    /\ holder' = [c \in Challenges |-> IF c \in S THEN NoToken ELSE holder[c]]
    /\ UNCHANGED <<charged, winner, granted>>

\* A new challenge opens; making room may retire the challenges of S.
Issue(new, S) ==
    /\ phase[new] = "unissued"
    /\ \A c \in S : phase[c] # "unissued"
    /\ phase' = [c \in Challenges |-> IF c = new THEN "open"
                                      ELSE IF c \in S THEN "closed"
                                      ELSE phase[c]]
    /\ holder' = [c \in Challenges |-> IF c \in S THEN NoToken ELSE holder[c]]
    /\ UNCHANGED <<charged, winner, granted>>

Claim(c, t) ==
    /\ phase[c] = "open"
    /\ holder[c] = NoToken
    /\ charged[c] < MaxAttempts
    /\ t \notin granted
    /\ holder' = [holder EXCEPT ![c] = t]
    /\ granted' = granted \union {t}
    /\ UNCHANGED <<phase, charged, winner>>

\* The holder of the lease finishes, and gives the lease up in every case.
Finish(c, t) ==
    /\ phase[c] = "open"
    /\ holder[c] = t
    /\ holder' = [holder EXCEPT ![c] = NoToken]
    /\ UNCHANGED granted

Accept(c, t) ==
    /\ Finish(c, t)
    /\ phase' = [phase EXCEPT ![c] = "closed"]
    /\ charged' = [charged EXCEPT ![c] = @ + 1]
    /\ winner' = [winner EXCEPT ![c] = t]

Spend(c, t) ==
    /\ Finish(c, t)
    /\ charged' = [charged EXCEPT ![c] = @ + 1]
    /\ UNCHANGED <<phase, winner>>

Refund(c, t) ==
    /\ Finish(c, t)
    /\ UNCHANGED <<phase, charged, winner>>

\* The result arrives after expiry: spent, never accepted, and closed.
Lapse(c, t) ==
    /\ Finish(c, t)
    /\ phase' = [phase EXCEPT ![c] = "closed"]
    /\ charged' = [charged EXCEPT ![c] = @ + 1]
    /\ UNCHANGED winner

Next ==
    \/ \E S \in SUBSET Challenges : Retire(S)
    \/ \E c \in Challenges, S \in SUBSET Challenges : Issue(c, S)
    \/ \E c \in Challenges, t \in Tokens :
          \/ Claim(c, t)
          \/ Accept(c, t)
          \/ Spend(c, t)
          \/ Refund(c, t)
          \/ Lapse(c, t)

Spec == Init /\ [][Next]_vars
=============================================================================
