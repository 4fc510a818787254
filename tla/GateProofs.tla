----------------------------- MODULE GateProofs -----------------------------
(***************************************************************************)
(* Proofs about the store and about the Gate that calls it: the store for  *)
(* every set of ids, tokens and clock readings, every capacity and every   *)
(* attempt budget; the Gate for every number of callers besides, and for   *)
(* clocks that step back as well as clocks that do not.                    *)
(***************************************************************************)
EXTENDS Gate, FiniteSetTheorems, TLAPS

(***************************************************************************)
(* InMemoryStore.                                                          *)
(***************************************************************************)
\* What pruning does: an entry stays as it is or leaves.
LEMMA RetainedEntries ==
    ASSUME NEW now
    PROVE  /\ Retained(now) = [c \in Ids |-> Retained(now)[c]]
           /\ \A c \in Ids : Retained(now)[c] \in {entries[c], Absent}
           /\ Resident(Retained(now)) \subseteq Resident(entries)
  BY DEF Retained, Resident

\* An entry that is in the map is a record with its fields.
LEMMA ResidentEntry ==
    ASSUME TypeOK, NEW c \in Resident(entries)
    PROVE  /\ c \in Ids
           /\ entries[c] \in Entries
           /\ entries[c] # Absent
  BY DEF TypeOK, Resident

\* What insert stores is an entry, and not the mark of an absent one.
LEMMA NewEntryIsEntry ==
    ASSUME NEW owner \in Scopes, NEW expires \in Times
    PROVE  NewEntry(owner, expires) \in Entries /\ NewEntry(owner, expires) # Absent
<1>1. NewEntry(owner, expires) \in Entries
  BY StoreAssumption DEF NewEntry, Entries
<1> QED
  BY <1>1, StoreAssumption

\* An insert that is accepted presents an id that was never inserted before.
LEMMA AcceptedInsertIsNew ==
    ASSUME TypeOK, NEW c \in Ids, NEW owner, NEW expires \in Times, NEW now \in Times,
           Presentable(c, owner, expires), InsertAnswer(c, expires, now) = "Ok"
    PROVE  /\ c \notin inserted
           /\ Retained(now)[c] = Absent
<1>1. ~(expires <= now) /\ Retained(now)[c] = Absent
  BY DEF InsertAnswer
<1>2. expires > now
  BY <1>1, StoreAssumption
<1>3. ~(entries[c] # Absent /\ entries[c].expires = expires)
  BY <1>1, <1>2 DEF Retained
<1> QED
  BY <1>1, <1>3 DEF Presentable

\* The initial state satisfies the invariant.
LEMMA StoreInitInv == StoreInit => IndInv
<1> SUFFICES ASSUME StoreInit PROVE IndInv
  OBVIOUS
<1>1. TypeOK
  BY StoreAssumption DEF StoreInit, TypeOK, Replies, Refusals, Outcomes, Completions
<1>2. Resident(entries) = {}
  BY DEF StoreInit, Resident
<1>3. AttemptBudget /\ NoLeaseStealing /\ ConsumedIsIdle
  BY <1>2 DEF AttemptBudget, NoLeaseStealing, ConsumedIsIdle
<1>4. \A t \in Tokens : outcome[t] = "Pending" /\ claimOf[t] = None
  BY DEF StoreInit
<1>5. OnePass /\ AcceptedIsClosed /\ UngrantedIsPending
  BY <1>4 DEF OnePass, Accepted, AcceptedIsClosed, UngrantedIsPending
<1>6. UnissuedIsUntouched
  BY <1>4, StoreAssumption DEF StoreInit, UnissuedIsUntouched
<1> QED
  BY <1>1, <1>3, <1>5, <1>6 DEF IndInv

\* Insert keeps the invariant.
LEMMA InsertInv ==
    ASSUME IndInv, NEW c \in Ids, NEW owner \in Scopes, NEW expires \in Times,
           NEW now \in Times, Insert(c, owner, expires, now)
    PROVE  IndInv'
<1> DEFINE heard == InsertAnswer(c, expires, now)
<1>a. UNCHANGED <<claimOf, outcome, charged>> /\ TypeOK
  BY DEF Insert, IndInv
<1>b. reply' \in Replies
  BY DEF Insert, InsertAnswer, Replies, Refusals
<1>1. CASE UNCHANGED <<entries, inserted>>
  BY <1>a, <1>b, <1>1 DEF IndInv, TypeOK, AttemptBudget, NoLeaseStealing, OnePass,
     Accepted, ConsumedIsIdle, AcceptedIsClosed, UnissuedIsUntouched,
     UngrantedIsPending, Resident, Leased
<1>2. CASE entries' = Retained(now) /\ UNCHANGED inserted
  <2>1. /\ \A d \in Ids : entries'[d] \in {entries[d], Absent}
        /\ Resident(entries') \subseteq Resident(entries)
    BY <1>2, RetainedEntries
  <2>2. entries' \in [Ids -> Entries \union {Absent}]
    BY <1>a, <1>2, <2>1, RetainedEntries DEF TypeOK
  <2>3. \A d \in Resident(entries') : d \in Resident(entries) /\ entries'[d] = entries[d]
    BY <2>1 DEF Resident
  <2>4. TypeOK'
    BY <1>a, <1>b, <1>2, <2>2 DEF TypeOK
  <2>5. AttemptBudget' /\ NoLeaseStealing' /\ ConsumedIsIdle' /\ AcceptedIsClosed'
    BY <1>a, <2>3 DEF IndInv, AttemptBudget, NoLeaseStealing, ConsumedIsIdle,
       AcceptedIsClosed, Accepted, Leased
  <2>6. OnePass' /\ UnissuedIsUntouched' /\ UngrantedIsPending'
    BY <1>a, <1>2, <2>1 DEF IndInv, OnePass, Accepted, UnissuedIsUntouched, UngrantedIsPending
  <2> QED
    BY <2>4, <2>5, <2>6 DEF IndInv
<1>3. CASE /\ heard = "Ok"
           /\ entries' = [Retained(now) EXCEPT ![c] = NewEntry(owner, expires)]
           /\ inserted' = inserted \union {c}
  <2>1. c \notin inserted
    BY <1>a, <1>3, AcceptedInsertIsNew DEF Insert
  <2>2. charged[c] = 0 /\ \A t \in Tokens : claimOf[t] # c
    BY <2>1 DEF IndInv, UnissuedIsUntouched
  <2>3. /\ entries'[c] = NewEntry(owner, expires)
        /\ \A d \in Ids \ {c} : entries'[d] \in {entries[d], Absent}
        /\ entries' = [d \in Ids |-> entries'[d]]
    BY <1>3, RetainedEntries
  <2>4. NewEntry(owner, expires) \in Entries
    BY NewEntryIsEntry
  <2>5. TypeOK'
    BY <1>a, <1>b, <1>3, <2>3, <2>4 DEF TypeOK
  <2>6. \A d \in Resident(entries') \ {c} : d \in Resident(entries) /\ entries'[d] = entries[d]
    BY <2>3 DEF Resident
  <2>7. /\ entries'[c].attempts = 0
        /\ entries'[c].lease = None
        /\ ~entries'[c].consumed
    BY <2>3 DEF NewEntry
  <2>8. AttemptBudget'
    BY <1>a, <2>2, <2>6, <2>7 DEF IndInv, AttemptBudget, Leased
  <2>9. NoLeaseStealing'
    BY <1>a, <2>2, <2>6, <2>7, StoreAssumption DEF IndInv, NoLeaseStealing
  <2>10. ConsumedIsIdle' /\ AcceptedIsClosed'
    BY <1>a, <2>2, <2>6, <2>7 DEF IndInv, ConsumedIsIdle, AcceptedIsClosed, Accepted
  <2>11. OnePass' /\ UnissuedIsUntouched' /\ UngrantedIsPending'
    BY <1>a, <1>3, <2>3 DEF IndInv, OnePass, Accepted, UnissuedIsUntouched, UngrantedIsPending
  <2> QED
    BY <2>5, <2>8, <2>9, <2>10, <2>11 DEF IndInv
<1> QED
  BY <1>1, <1>2, <1>3 DEF Insert

\* What a granted claim finds and leaves.
Grants(key, ticket) ==
    /\ key \in Resident(entries)
    /\ ~entries[key].consumed
    /\ entries[key].attempts < MaxAttempts
    /\ entries[key].lease = None
    /\ claimOf[ticket] = None /\ outcome[ticket] = "Pending"
    /\ claimOf' = [claimOf EXCEPT ![ticket] = key]
    /\ UNCHANGED <<outcome, charged, inserted>>
    /\ entries' \in [Ids -> Entries \union {Absent}]
    /\ entries'[key] \in Entries
    /\ entries'[key].attempts = entries[key].attempts + 1
    /\ entries'[key] = LeasedTo(entries[key], ticket)
    /\ ~entries'[key].consumed
    /\ entries'[key].expires = entries[key].expires
    /\ \A d \in Ids \ {key} : entries'[d] = entries[d]
    /\ Resident(entries') = Resident(entries)

\* What a granted claim found, and what it leaves.
LEMMA ClaimEffect ==
    ASSUME IndInv, NEW owner, NEW key \in Ids \union {UnknownId, MalformedId},
           NEW now, NEW ticket \in Tokens,
           Claim(owner, key, now, ticket), ClaimAnswer(owner, key, now) = "Ok"
    PROVE  Grants(key, ticket)
<1>1. /\ key \in Resident(entries)
      /\ ~(entries[key].consumed \/ entries[key].attempts >= MaxAttempts)
      /\ entries[key].lease = None
  BY DEF ClaimAnswer
<1>2. key \in Ids /\ entries[key] \in Entries /\ entries[key] # Absent
  BY <1>1, ResidentEntry DEF IndInv
<1>3. entries[key].attempts < MaxAttempts
  BY <1>1, <1>2, StoreAssumption DEF Entries
<1>4. claimOf[ticket] = None /\ outcome[ticket] = "Pending"
  BY DEF Claim, IndInv, UngrantedIsPending
<1>5. entries' = [entries EXCEPT ![key] = LeasedTo(entries[key], ticket)]
  BY DEF Claim
<1>6. /\ entries'[key] = LeasedTo(entries[key], ticket)
      /\ entries'[key] \in Entries
      /\ entries'[key].attempts = entries[key].attempts + 1
      /\ entries'[key].lease = ticket
      /\ ~entries'[key].consumed
      /\ entries'[key].expires = entries[key].expires
  <2>1. entries'[key] = LeasedTo(entries[key], ticket)
    BY <1>2, <1>5 DEF IndInv, TypeOK
  <2>2. entries[key].attempts + 1 \in 0 .. MaxAttempts
    BY <1>2, <1>3, StoreAssumption DEF Entries
  <2> QED
    BY <1>1, <1>2, <2>1, <2>2 DEF Entries, LeasedTo
<1>7. \A d \in Ids \ {key} : entries'[d] = entries[d]
  BY <1>5 DEF IndInv, TypeOK
<1>8. entries' \in [Ids -> Entries \union {Absent}]
  BY <1>2, <1>5, <1>6, <1>7 DEF IndInv, TypeOK
<1>9. Resident(entries') = Resident(entries)
  BY <1>1, <1>2, <1>6, <1>7, StoreAssumption DEF Resident
<1> QED
  BY <1>1, <1>3, <1>4, <1>6, <1>7, <1>8, <1>9 DEF Claim, Grants

\* Claim keeps the invariant.
LEMMA ClaimInv ==
    ASSUME IndInv, NEW owner \in Scopes \union {MalformedScope},
           NEW key \in Ids \union {UnknownId, MalformedId},
           NEW now \in Times, NEW ticket \in Tokens, Claim(owner, key, now, ticket)
    PROVE  IndInv'
<1>1. TypeOK /\ reply' \in Replies
  BY DEF IndInv, Claim, ClaimAnswer, ValidateLookup, Replies, Refusals
<1>2. CASE ClaimAnswer(owner, key, now) # "Ok"
  BY <1>1, <1>2 DEF Claim, IndInv, TypeOK, AttemptBudget, NoLeaseStealing, OnePass,
     Accepted, ConsumedIsIdle, AcceptedIsClosed, UnissuedIsUntouched,
     UngrantedIsPending, Resident, Leased
<1>3. CASE ClaimAnswer(owner, key, now) = "Ok"
  <2>0. Grants(key, ticket)
    BY <1>3, ClaimEffect
  <2>1. /\ key \in Resident(entries)
        /\ ~entries[key].consumed
        /\ entries[key].attempts < MaxAttempts
        /\ entries[key].lease = None
        /\ claimOf[ticket] = None /\ outcome[ticket] = "Pending"
        /\ claimOf' = [claimOf EXCEPT ![ticket] = key]
        /\ UNCHANGED <<outcome, charged, inserted>>
    BY <2>0 DEF Grants
  <2>2. key \in Ids /\ entries[key] \in Entries /\ entries[key] # Absent
    BY <1>1, <2>1, ResidentEntry
  <2>3. /\ entries' \in [Ids -> Entries \union {Absent}]
        /\ entries'[key] \in Entries
        /\ entries'[key].attempts = entries[key].attempts + 1
        /\ entries'[key].lease = ticket
        /\ ~entries'[key].consumed
    <3>1. /\ entries' \in [Ids -> Entries \union {Absent}]
          /\ entries'[key] \in Entries
          /\ entries'[key] = LeasedTo(entries[key], ticket)
          /\ ~entries'[key].consumed
      BY <2>0 DEF Grants
    <3> QED
      BY <3>1 DEF LeasedTo
  <2>4. \A d \in Ids \ {key} : entries'[d] = entries[d]
    BY <2>0 DEF Grants
  <2>5. Resident(entries') = Resident(entries)
    BY <2>0 DEF Grants
  <2>6. TypeOK'
    BY <1>1, <2>1, <2>2, <2>3 DEF TypeOK
  <2>7. AttemptBudget'
    <3>1. Leased(key) = 0 /\ Leased(key)' = 1
      BY <2>1, <2>3, StoreAssumption DEF Leased
    <3>2. entries'[key].attempts = charged'[key] + Leased(key)'
      BY <1>1, <2>1, <2>2, <2>3, <3>1 DEF IndInv, AttemptBudget, TypeOK, Entries
    <3> QED
      BY <2>1, <2>4, <2>5, <3>2 DEF IndInv, AttemptBudget, Leased, Resident
  <2>8. NoLeaseStealing'
    <3>1. \A t \in Tokens \ {ticket} : claimOf'[t] = claimOf[t]
      BY <1>1, <2>1 DEF TypeOK
    <3>2. claimOf'[ticket] = key
      BY <1>1, <2>1 DEF TypeOK
    <3>3. \A t \in Tokens \ {ticket} : ~(claimOf[t] = key /\ outcome[t] = "Pending")
      BY <2>1, StoreAssumption DEF IndInv, NoLeaseStealing
    <3>4. \A d \in Resident(entries) \ {key} : entries[d].lease # ticket
      BY <2>1, StoreAssumption DEF IndInv, NoLeaseStealing, Resident
    <3>5. \A t \in Tokens : entries'[key].lease = t
                            <=> claimOf'[t] = key /\ outcome'[t] = "Pending"
      BY <2>1, <2>3, <3>1, <3>2, <3>3
    <3>6. \A d \in Resident(entries) \ {key}, t \in Tokens :
             entries'[d].lease = t <=> claimOf'[t] = d /\ outcome'[t] = "Pending"
      <4> TAKE d \in Resident(entries) \ {key}, t \in Tokens
      <4>1. entries'[d] = entries[d]
        BY <2>4 DEF Resident
      <4>2. CASE t = ticket
        BY <2>1, <3>2, <3>4, <4>1, <4>2
      <4>3. CASE t # ticket
        BY <2>1, <3>1, <4>1, <4>3 DEF IndInv, NoLeaseStealing
      <4> QED
        BY <4>2, <4>3
    <3> QED
      BY <2>5, <3>5, <3>6 DEF NoLeaseStealing
  <2>9. OnePass' /\ UngrantedIsPending'
    BY <1>1, <2>1 DEF IndInv, OnePass, UngrantedIsPending, Accepted, TypeOK
  <2>10. ConsumedIsIdle'
    BY <2>1, <2>3, <2>4, <2>5 DEF IndInv, ConsumedIsIdle, Resident
  <2>11. AcceptedIsClosed'
    BY <1>1, <2>1, <2>3, <2>4, <2>5 DEF IndInv, AcceptedIsClosed, Resident, Accepted, TypeOK
  <2>12. UnissuedIsUntouched'
    BY <1>1, <2>1, <2>2, <2>4 DEF IndInv, UnissuedIsUntouched, TypeOK
  <2> QED
    BY <2>6, <2>7, <2>8, <2>9, <2>10, <2>11, <2>12 DEF IndInv
<1> QED
  BY <1>2, <1>3

\* What a completion that is not refused found, and what it leaves.
LEMMA CompleteEffect ==
    ASSUME IndInv, NEW ticket \in Tokens, NEW completion \in Completions, NEW now \in Times,
           Complete(ticket, completion, now), CompleteAnswer(ticket, now) \in {"Expired", "Ok"}
    PROVE  \E c \in Resident(entries), result \in Outcomes \ {"Pending"} :
               /\ claimOf[ticket] = c
               /\ outcome[ticket] = "Pending"
               /\ entries[c].lease = ticket
               /\ ~entries[c].consumed
               /\ result = (IF CompleteAnswer(ticket, now) = "Expired"
                             THEN "Expired" ELSE completion)
               /\ outcome' = [outcome EXCEPT ![ticket] = result]
               /\ charged' \in [Ids -> 0 .. MaxAttempts]
               /\ charged'[c] = (IF result = "InternalError"
                                 THEN charged[c] ELSE charged[c] + 1)
               /\ UNCHANGED <<claimOf, inserted>>
               /\ entries' \in [Ids -> Entries \union {Absent}]
               /\ entries'[c] \in Entries
               /\ entries'[c].attempts = charged'[c]
               /\ entries'[c].lease = None
               /\ entries'[c].consumed <=> Consumes(result)
               /\ entries'[c].expires = entries[c].expires
               /\ \A d \in Ids \ {c} : entries'[d] = entries[d] /\ charged'[d] = charged[d]
               /\ Resident(entries') = Resident(entries)
<1> DEFINE c == claimOf[ticket]
           result == IF CompleteAnswer(ticket, now) = "Expired" THEN "Expired" ELSE completion
<1>1. c \in Resident(entries) /\ entries[c].lease = ticket
  BY StoreAssumption DEF IndInv, TypeOK, Complete, CompleteAnswer, Resident
<1>2. outcome[ticket] = "Pending"
  BY <1>1 DEF IndInv, NoLeaseStealing
<1>3. ~entries[c].consumed
  BY <1>1, StoreAssumption DEF IndInv, ConsumedIsIdle
<1>4. result \in Outcomes \ {"Pending"}
  BY DEF Outcomes, Completions
<1>5. ~(CompleteAnswer(ticket, now) \in {"NotFound", "StaleClaim"})
  OBVIOUS
<1>6. /\ entries' = [entries EXCEPT ![c] = Released(entries[c], result)]
      /\ outcome' = [outcome EXCEPT ![ticket] = result]
      /\ charged' = [charged EXCEPT ![c] = IF result = "InternalError" THEN @ ELSE @ + 1]
      /\ UNCHANGED <<claimOf, inserted>>
  BY <1>5 DEF Complete
<1> HIDE DEF c, result
<1>7. c \in Ids /\ entries[c] \in Entries /\ entries[c] # Absent
  BY <1>1, ResidentEntry DEF IndInv
<1>8. /\ entries[c].attempts = charged[c] + 1
      /\ charged[c] \in 0 .. MaxAttempts
      /\ entries[c].attempts \in 0 .. MaxAttempts
  <2>1. Leased(c) = 1
    BY <1>1, StoreAssumption DEF Leased
  <2> QED
    BY <1>1, <1>7, <2>1 DEF IndInv, AttemptBudget, TypeOK, Entries
<1>9. /\ entries'[c] = Released(entries[c], result)
      /\ entries'[c].attempts = AttemptsAfter(entries[c].attempts, result)
      /\ entries'[c].lease = None
      /\ entries'[c].consumed <=> Consumes(result)
      /\ entries'[c].expires = entries[c].expires
  BY <1>3, <1>6, <1>7 DEF IndInv, TypeOK, Released
<1>10. charged'[c] = (IF result = "InternalError" THEN charged[c] ELSE charged[c] + 1)
  BY <1>6, <1>7 DEF IndInv, TypeOK
<1>11. /\ entries'[c].attempts = charged'[c]
       /\ charged'[c] \in 0 .. MaxAttempts
  BY <1>8, <1>9, <1>10, StoreAssumption DEF AttemptsAfter
<1>12. entries'[c] \in Entries
  BY <1>7, <1>9, <1>11 DEF Entries, Consumes, Released
<1>13. \A d \in Ids \ {c} : entries'[d] = entries[d] /\ charged'[d] = charged[d]
  BY <1>6 DEF IndInv, TypeOK
<1>14. /\ entries' \in [Ids -> Entries \union {Absent}]
       /\ charged' \in [Ids -> 0 .. MaxAttempts]
  BY <1>6, <1>7, <1>11, <1>12, <1>13 DEF IndInv, TypeOK
<1>15. Resident(entries') = Resident(entries)
  BY <1>1, <1>7, <1>12, <1>13, StoreAssumption DEF Resident
<1>16. claimOf[ticket] = c
  BY DEF c
<1>17. result = IF CompleteAnswer(ticket, now) = "Expired" THEN "Expired" ELSE completion
  BY DEF result
<1> QED
  BY <1>1, <1>2, <1>3, <1>4, <1>6, <1>9, <1>10, <1>11, <1>12, <1>13, <1>14, <1>15, <1>16, <1>17

\* Complete keeps the invariant.
LEMMA CompleteInv ==
    ASSUME IndInv, NEW ticket \in Tokens, NEW completion \in Completions,
           NEW now \in Times, Complete(ticket, completion, now)
    PROVE  IndInv'
<1>1. TypeOK /\ reply' \in Replies
  BY DEF IndInv, Complete, CompleteAnswer, Replies, Refusals
<1>2. CASE CompleteAnswer(ticket, now) \in {"NotFound", "StaleClaim"}
  BY <1>1, <1>2 DEF Complete, IndInv, TypeOK, AttemptBudget, NoLeaseStealing, OnePass,
     Accepted, ConsumedIsIdle, AcceptedIsClosed, UnissuedIsUntouched,
     UngrantedIsPending, Resident, Leased
<1>3. CASE CompleteAnswer(ticket, now) \in {"Expired", "Ok"}
  <2>1. PICK c \in Resident(entries), result \in Outcomes \ {"Pending"} :
            /\ claimOf[ticket] = c
            /\ outcome[ticket] = "Pending"
            /\ entries[c].lease = ticket
            /\ ~entries[c].consumed
            /\ outcome' = [outcome EXCEPT ![ticket] = result]
            /\ charged' \in [Ids -> 0 .. MaxAttempts]
            /\ UNCHANGED <<claimOf, inserted>>
            /\ entries' \in [Ids -> Entries \union {Absent}]
            /\ entries'[c].attempts = charged'[c]
            /\ entries'[c].lease = None
            /\ entries'[c].consumed <=> Consumes(result)
            /\ \A d \in Ids \ {c} : entries'[d] = entries[d] /\ charged'[d] = charged[d]
            /\ Resident(entries') = Resident(entries)
    BY <1>3, CompleteEffect
  <2>2. c \in Ids
    BY <1>1, ResidentEntry
  <2>3. /\ outcome'[ticket] = result
        /\ \A t \in Tokens \ {ticket} : outcome'[t] = outcome[t]
        /\ outcome' \in [Tokens -> Outcomes]
    BY <1>1, <2>1 DEF TypeOK
  <2>4. TypeOK'
    BY <1>1, <2>1, <2>3 DEF TypeOK
  <2>5. AttemptBudget'
    <3>1. Leased(c)' = 0
      BY <2>1 DEF Leased
    <3>2. entries'[c].attempts = charged'[c] + Leased(c)'
      BY <2>1, <2>2, <3>1, StoreAssumption
    <3> QED
      BY <2>1, <3>2 DEF IndInv, AttemptBudget, Leased, Resident
  <2>6. NoLeaseStealing'
    <3>1. \A t \in Tokens : entries'[c].lease = t
                            <=> claimOf'[t] = c /\ outcome'[t] = "Pending"
      BY <2>1, <2>3, StoreAssumption DEF IndInv, NoLeaseStealing
    <3>2. \A d \in Resident(entries) \ {c}, t \in Tokens :
             entries'[d].lease = t <=> claimOf'[t] = d /\ outcome'[t] = "Pending"
      <4> TAKE d \in Resident(entries) \ {c}, t \in Tokens
      <4>1. entries'[d] = entries[d] /\ claimOf'[t] = claimOf[t]
        BY <2>1 DEF Resident
      <4>2. entries[d].lease = t <=> claimOf[t] = d /\ outcome[t] = "Pending"
        BY DEF IndInv, NoLeaseStealing
      <4> QED
        BY <2>1, <2>3, <4>1, <4>2
    <3> QED
      BY <2>1, <3>1, <3>2 DEF NoLeaseStealing
  <2>7. \A t \in Tokens : Accepted(t) => claimOf[t] # c
    BY <2>1 DEF IndInv, AcceptedIsClosed
  <2>8. OnePass'
    BY <2>1, <2>3, <2>7 DEF IndInv, OnePass, Accepted
  <2>9. ConsumedIsIdle'
    BY <2>1 DEF IndInv, ConsumedIsIdle, Resident
  <2>10. AcceptedIsClosed'
    BY <2>1, <2>3, <2>7 DEF IndInv, AcceptedIsClosed, Resident, Accepted, Consumes
  <2>11. UnissuedIsUntouched' /\ UngrantedIsPending'
    BY <2>1, <2>2, <2>3, StoreAssumption
       DEF IndInv, UnissuedIsUntouched, UngrantedIsPending, Resident
  <2> QED
    BY <2>4, <2>5, <2>6, <2>8, <2>9, <2>10, <2>11 DEF IndInv
<1> QED
  BY <1>2, <1>3 DEF Complete, CompleteAnswer

\* Every step keeps the invariant.
LEMMA StoreNextInv == IndInv /\ [StoreNext]_storeVars => IndInv'
<1> SUFFICES ASSUME IndInv, [StoreNext]_storeVars PROVE IndInv'
  OBVIOUS
<1>1. ASSUME NEW c \in Ids, NEW owner \in Scopes, NEW expires \in Times, NEW now \in Times,
             Insert(c, owner, expires, now)
      PROVE  IndInv'
  BY <1>1, InsertInv
<1>2. ASSUME NEW owner \in Scopes \union {MalformedScope},
             NEW key \in Ids \union {UnknownId, MalformedId},
             NEW now \in Times, NEW ticket \in Tokens, Claim(owner, key, now, ticket)
      PROVE  IndInv'
  BY <1>2, ClaimInv
<1>3. ASSUME NEW owner, NEW key, ClaimWithoutEntropy(owner, key)
      PROVE  IndInv'
  BY <1>3 DEF ClaimWithoutEntropy, ValidateLookup, Replies, Refusals, IndInv, TypeOK,
     AttemptBudget, NoLeaseStealing, OnePass, Accepted, ConsumedIsIdle, AcceptedIsClosed,
     UnissuedIsUntouched, UngrantedIsPending, Resident, Leased
<1>4. ASSUME NEW ticket \in Tokens, NEW completion \in Completions, NEW now \in Times,
             Complete(ticket, completion, now)
      PROVE  IndInv'
  BY <1>4, CompleteInv
<1>5. CASE UNCHANGED storeVars
  BY <1>5 DEF storeVars, IndInv, TypeOK, AttemptBudget, NoLeaseStealing, OnePass, Accepted,
     ConsumedIsIdle, AcceptedIsClosed, UnissuedIsUntouched, UngrantedIsPending,
     Resident, Leased
<1> QED
  BY <1>1, <1>2, <1>3, <1>4, <1>5 DEF StoreNext

\* The inductive invariant of insert, claim and complete holds in every behaviour.
THEOREM StoreInvariant == StoreSpec => []IndInv
BY StoreInitInv, StoreNextInv, PTL DEF StoreSpec

\* Every variable keeps its type.
THEOREM StoreTypeOK == StoreSpec => []TypeOK
<1>1. IndInv => TypeOK
  BY DEF IndInv
<1> QED
  BY <1>1, StoreInvariant, PTL

\* The counter of an entry is what was charged plus what is in flight.
THEOREM StoreAttemptBudget == StoreSpec => []AttemptBudget
<1>1. IndInv => AttemptBudget
  BY DEF IndInv
<1> QED
  BY <1>1, StoreInvariant, PTL

\* A lease is held by exactly the unfinished claim of its challenge.
THEOREM StoreNoLeaseStealing == StoreSpec => []NoLeaseStealing
<1>1. IndInv => NoLeaseStealing
  BY DEF IndInv
<1> QED
  BY <1>1, StoreInvariant, PTL

\* One challenge accepts at most one claim.
THEOREM StoreOnePass == StoreSpec => []OnePass
<1>1. IndInv => OnePass
  BY DEF IndInv
<1> QED
  BY <1>1, StoreInvariant, PTL

-----------------------------------------------------------------------------
(***************************************************************************)
(* Capacity and eviction.                                                  *)
(***************************************************************************)

\* One call of insert never takes the map over its capacity.
LEMMA InsertBounded ==
    ASSUME IndInv, Bounded, NEW c \in Ids, NEW owner \in Scopes, NEW expires \in Times,
           NEW now \in Times, Insert(c, owner, expires, now)
    PROVE  Bounded'
<1> DEFINE kept == Resident(Retained(now))
<1>1. /\ IsFiniteSet(Resident(entries))
      /\ IsFiniteSet(kept)
      /\ Cardinality(kept) <= Cardinality(Resident(entries))
  <2>1. Resident(entries) \subseteq Ids /\ kept \subseteq Resident(entries)
    BY RetainedEntries DEF Resident
  <2> QED
    BY <2>1, FS_Subset, StoreAssumption
<1>2. /\ Cardinality(kept) \in Nat
      /\ Cardinality(Resident(entries)) \in Nat
  BY <1>1, FS_CardinalityType
<1>3. CASE UNCHANGED entries
  BY <1>3 DEF Bounded, Resident
<1>4. CASE entries' = Retained(now)
  BY <1>1, <1>2, <1>4, StoreAssumption DEF Bounded
<1>5. CASE /\ InsertAnswer(c, expires, now) = "Ok"
           /\ entries' = [Retained(now) EXCEPT ![c] = NewEntry(owner, expires)]
  <2>1. c \notin kept /\ Cardinality(kept) < Capacity
    <3>1. Retained(now)[c] = Absent /\ ~(Cardinality(kept) >= Capacity)
      BY <1>5 DEF InsertAnswer
    <3>2. c \notin kept
      BY <3>1 DEF Resident
    <3> QED
      BY <1>2, <3>1, <3>2, StoreAssumption
  <2>2. NewEntry(owner, expires) # Absent
    BY NewEntryIsEntry
  <2>3. Resident(entries') = kept \union {c}
    BY <1>5, <2>2, RetainedEntries DEF Resident
  <2>4. Cardinality(kept \union {c}) = Cardinality(kept) + 1
    BY <1>1, <2>1, FS_AddElement
  <2> QED
    BY <1>2, <2>1, <2>3, <2>4, StoreAssumption DEF Bounded
<1> QED
  BY <1>3, <1>4, <1>5 DEF Insert

\* Claims and completions store no entry, drop none and move no expiry.
LEMMA OthersKeepResidents ==
    ASSUME IndInv, [StoreNext]_storeVars,
           ~(\E c \in Ids, owner \in Scopes, expires, now \in Times :
                Insert(c, owner, expires, now))
    PROVE  /\ Resident(entries') = Resident(entries)
           /\ \A c \in Resident(entries) : entries'[c].expires = entries[c].expires
<1> DEFINE Kept == /\ Resident(entries') = Resident(entries)
                   /\ \A c \in Resident(entries) : entries'[c].expires = entries[c].expires
<1>1. CASE UNCHANGED entries
  BY <1>1
<1>2. ASSUME NEW owner \in Scopes \union {MalformedScope},
             NEW key \in Ids \union {UnknownId, MalformedId},
             NEW now \in Times, NEW ticket \in Tokens, Claim(owner, key, now, ticket)
      PROVE  Kept
  <2>1. CASE ClaimAnswer(owner, key, now) # "Ok"
    BY <1>1, <1>2, <2>1 DEF Claim
  <2>2. CASE ClaimAnswer(owner, key, now) = "Ok"
    BY <1>2, <2>2, ClaimEffect DEF Resident, Grants
  <2> QED
    BY <2>1, <2>2
<1>3. ASSUME NEW ticket \in Tokens, NEW completion \in Completions, NEW now \in Times,
             Complete(ticket, completion, now)
      PROVE  Kept
  <2>1. CASE CompleteAnswer(ticket, now) \in {"Expired", "Ok"}
    <3>1. \E c \in Resident(entries) :
              /\ entries'[c].expires = entries[c].expires
              /\ \A d \in Ids \ {c} : entries'[d] = entries[d]
              /\ Resident(entries') = Resident(entries)
      BY <1>3, <2>1, CompleteEffect
    <3> QED
      BY <3>1 DEF Resident
  <2> QED
    BY <1>1, <1>3, <2>1 DEF Complete
<1>4. ASSUME NEW owner, NEW key, ClaimWithoutEntropy(owner, key)
      PROVE  UNCHANGED entries
  BY <1>4 DEF ClaimWithoutEntropy
<1> QED
  BY <1>1, <1>2, <1>3, <1>4 DEF StoreNext, storeVars

\* The map never holds more entries than its capacity.
THEOREM StoreBounded == StoreSpec => []Bounded
<1>1. StoreInit => Bounded
  <2> SUFFICES ASSUME StoreInit PROVE Bounded
    OBVIOUS
  <2>1. Resident(entries) = {}
    BY DEF StoreInit, Resident
  <2> QED
    BY <2>1, FS_EmptySet, StoreAssumption DEF Bounded
<1>2. IndInv /\ Bounded /\ [StoreNext]_storeVars => Bounded'
  BY InsertBounded, OthersKeepResidents DEF Bounded
<1> QED
  BY <1>1, <1>2, StoreInvariant, PTL DEF StoreSpec

\* An insert touches no claim, removes what has expired by its own clock and
\* changes no other entry; it finds no room only among entries live by that clock.
LEMMA InsertSpares ==
    ASSUME IndInv, NEW d \in Ids, NEW owner \in Scopes, NEW expires \in Times,
           NEW now \in Times, Insert(d, owner, expires, now)
    PROVE  /\ \A c \in Ids : ~MovesClaim(c)
           /\ \A c \in Resident(entries) :
                 entries'[c] # entries[c] => entries'[c] = Absent /\ entries[c].expires <= now
           /\ reply' = "Capacity" =>
                 /\ Cardinality(Resident(entries')) >= Capacity
                 /\ \A c \in Resident(entries') : entries'[c].expires > now
<1>1. \A c \in Ids : ~MovesClaim(c)
  BY DEF Insert, MovesClaim
<1>2. ASSUME NEW c \in Resident(entries), Retained(now)[c] # entries[c]
      PROVE  Retained(now)[c] = Absent /\ entries[c].expires <= now
  <2>1. c \in Ids /\ entries[c] # Absent /\ entries[c].expires \in Nat /\ now \in Nat
    BY ResidentEntry, StoreAssumption DEF IndInv, Entries
  <2>2. Retained(now)[c] = IF entries[c].expires > now THEN entries[c] ELSE Absent
    BY <2>1 DEF Retained
  <2> QED
    BY <1>2, <2>1, <2>2
<1>3. ASSUME NEW c \in Resident(entries), entries'[c] # entries[c]
      PROVE  entries'[c] = Absent /\ entries[c].expires <= now
  <2>1. c \in Ids /\ c \in inserted
    BY DEF Resident, IndInv, UnissuedIsUntouched
  <2>2. CASE entries' = Retained(now)
    BY <1>2, <1>3, <2>2
  <2>3. CASE /\ InsertAnswer(d, expires, now) = "Ok"
             /\ entries' = [Retained(now) EXCEPT ![d] = NewEntry(owner, expires)]
    <3>1. d \notin inserted
      BY <2>3, AcceptedInsertIsNew DEF Insert, IndInv
    <3>2. entries'[c] = Retained(now)[c]
      BY <2>1, <2>3, <3>1, RetainedEntries
    <3> QED
      BY <1>2, <1>3, <3>2
  <2> QED
    BY <1>3, <2>2, <2>3 DEF Insert
<1>4. ASSUME reply' = "Capacity"
      PROVE  /\ Cardinality(Resident(entries')) >= Capacity
             /\ \A c \in Resident(entries') : entries'[c].expires > now
  <2>1. InsertAnswer(d, expires, now) = "Capacity" /\ entries' = Retained(now)
    BY <1>4 DEF Insert
  <2>2. Cardinality(Resident(Retained(now))) >= Capacity
    BY <2>1 DEF InsertAnswer
  <2> QED
    BY <2>1, <2>2 DEF Resident, Retained
<1> QED
  BY <1>1, <1>3, <1>4

\* Every other call that changes an entry grants a claim or ends one, removes no
\* entry, and is never refused for want of room.
LEMMA OthersMoveClaims ==
    ASSUME IndInv, StoreNext, InsertClocks = {}
    PROVE  /\ reply' # "Capacity"
           /\ \A c \in Resident(entries) :
                 entries'[c] # entries[c] => MovesClaim(c) /\ entries'[c] # Absent
<1> DEFINE Moves == /\ reply' # "Capacity"
                    /\ \A c \in Resident(entries) :
                          entries'[c] # entries[c] => MovesClaim(c) /\ entries'[c] # Absent
<1>1. ~(\E c \in Ids, owner \in Scopes, expires, now \in Times : Insert(c, owner, expires, now))
  BY DEF InsertClocks
<1>2. Resident(entries') = Resident(entries)
  BY <1>1, OthersKeepResidents
<1>3. \A c \in Resident(entries) : entries'[c] # Absent
  BY <1>2 DEF Resident
<1>4. ASSUME NEW owner \in Scopes \union {MalformedScope},
             NEW key \in Ids \union {UnknownId, MalformedId},
             NEW now \in Times, NEW ticket \in Tokens, Claim(owner, key, now, ticket)
      PROVE  Moves
  <2>1. reply' # "Capacity"
    BY <1>4 DEF Claim, ClaimAnswer, ValidateLookup
  <2>2. CASE ClaimAnswer(owner, key, now) # "Ok"
    BY <1>4, <2>1, <2>2 DEF Claim
  <2>3. CASE ClaimAnswer(owner, key, now) = "Ok"
    <3>1. Grants(key, ticket)
      BY <1>4, <2>3, ClaimEffect
    <3>2. claimOf'[ticket] = key /\ key \in Ids /\ claimOf[ticket] = None
      BY <3>1 DEF Grants, Resident, IndInv, TypeOK
    <3>3. MovesClaim(key)
      BY <3>2, StoreAssumption DEF MovesClaim
    <3>4. \A c \in Resident(entries) : entries'[c] # entries[c] => c = key
      BY <3>1 DEF Grants, Resident
    <3> QED
      BY <1>3, <2>1, <3>3, <3>4
  <2> QED
    BY <2>2, <2>3
<1>5. ASSUME NEW owner, NEW key, ClaimWithoutEntropy(owner, key) PROVE Moves
  BY <1>5 DEF ClaimWithoutEntropy, ValidateLookup
<1>6. ASSUME NEW ticket \in Tokens, NEW completion \in Completions, NEW now \in Times,
             Complete(ticket, completion, now)
      PROVE  Moves
  <2>1. reply' # "Capacity"
    BY <1>6 DEF Complete, CompleteAnswer
  <2>2. CASE CompleteAnswer(ticket, now) \in {"Expired", "Ok"}
    <3>1. PICK d \in Resident(entries), result \in Outcomes \ {"Pending"} :
              /\ claimOf[ticket] = d /\ UNCHANGED claimOf
              /\ outcome[ticket] = "Pending" /\ outcome' = [outcome EXCEPT ![ticket] = result]
              /\ \A c \in Ids \ {d} : entries'[c] = entries[c]
      BY <1>6, <2>2, CompleteEffect
    <3>2. outcome'[ticket] # outcome[ticket]
      BY <3>1 DEF IndInv, TypeOK
    <3>3. MovesClaim(d)
      BY <3>1, <3>2 DEF MovesClaim
    <3>4. \A c \in Resident(entries) : entries'[c] # entries[c] => c = d
      BY <3>1 DEF Resident
    <3> QED
      BY <1>3, <2>1, <3>3, <3>4
  <2>3. CASE CompleteAnswer(ticket, now) \notin {"Expired", "Ok"}
    BY <1>6, <2>1, <2>3 DEF Complete
  <2> QED
    BY <2>2, <2>3
<1> QED
  BY <1>1, <1>4, <1>5, <1>6 DEF StoreNext

\* Whatever clock a caller comes with, no entry that is live by it is lost,
\* overwritten or counted as room, and no claim removes an entry.
THEOREM StoreInsertsSpareTheLive == StoreSpec => InsertsSpareTheLive
<1> DEFINE Spares ==
      /\ \A c \in Resident(entries) : entries'[c] # entries[c] =>
            IF MovesClaim(c) THEN entries'[c] # Absent
            ELSE /\ entries'[c] = Absent
                 /\ InsertClocks # {}
                 /\ \A now \in InsertClocks : entries[c].expires <= now
      /\ reply' = "Capacity" =>
            /\ Cardinality(Resident(entries')) >= Capacity
            /\ \A c \in Resident(entries'), now \in InsertClocks : entries'[c].expires > now
<1>1. ASSUME IndInv, StoreNext PROVE Spares
  <2>1. CASE InsertClocks = {}
    BY <1>1, <2>1, OthersMoveClaims
  <2>2. CASE InsertClocks # {}
    <3>1. ASSUME NEW now \in InsertClocks
          PROVE  /\ \A c \in Ids : ~MovesClaim(c)
                 /\ \A c \in Resident(entries) :
                       entries'[c] # entries[c] =>
                          entries'[c] = Absent /\ entries[c].expires <= now
                 /\ reply' = "Capacity" =>
                       /\ Cardinality(Resident(entries')) >= Capacity
                       /\ \A c \in Resident(entries') : entries'[c].expires > now
      BY <1>1, <3>1, InsertSpares DEF InsertClocks
    <3> QED
      BY <2>2, <3>1 DEF Resident
  <2> QED
    BY <2>1, <2>2
<1>2. IndInv /\ [StoreNext]_storeVars => [Spares]_storeVars
  BY <1>1
<1> QED
  BY <1>2, StoreInvariant, PTL DEF StoreSpec, InsertsSpareTheLive

\* A refused claim leaves the map as it is, a refused insert has only pruned it,
\* and a completion that is refused as too late has ended its claim.
LEMMA RefusalStep ==
    ASSUME IndInv, StoreNext, reply' \in Refusals, NEW c \in Ids
    PROVE  \/ entries'[c] \in {entries[c], Absent}
           \/ reply' = "Expired" /\ EndsLate(c)
<1> DEFINE Harmless == \/ entries'[c] \in {entries[c], Absent}
                       \/ reply' = "Expired" /\ EndsLate(c)
<1>1. ASSUME NEW d, NEW owner, NEW expires, NEW now, Insert(d, owner, expires, now)
      PROVE  Harmless
  <2>1. reply' # "Ok" /\ reply' = InsertAnswer(d, expires, now)
    BY <1>1 DEF Insert, Refusals
  <2>2. entries' = entries \/ entries' = Retained(now)
    BY <1>1, <2>1 DEF Insert
  <2> QED
    BY <2>2 DEF Retained
<1>2. ASSUME NEW owner, NEW key, NEW now, NEW ticket, Claim(owner, key, now, ticket)
      PROVE  entries'[c] = entries[c]
  BY <1>2 DEF Claim, Refusals
<1>3. ASSUME NEW owner, NEW key, ClaimWithoutEntropy(owner, key) PROVE entries'[c] = entries[c]
  BY <1>3 DEF ClaimWithoutEntropy
<1>4. ASSUME NEW ticket \in Tokens, NEW completion \in Completions, NEW now \in Times,
             Complete(ticket, completion, now)
      PROVE  Harmless
  <2> DEFINE k == claimOf[ticket]
  <2>1. reply' = CompleteAnswer(ticket, now) /\ reply' # "Ok"
    BY <1>4 DEF Complete, Refusals
  <2>2. CASE reply' # "Expired"
    BY <1>4, <2>1, <2>2 DEF Complete, CompleteAnswer
  <2>3. CASE reply' = "Expired"
    <3>1. /\ entries' = [entries EXCEPT ![k] = Released(entries[k], "Expired")]
          /\ outcome' = [outcome EXCEPT ![ticket] = "Expired"]
      BY <1>4, <2>1, <2>3 DEF Complete
    <3>2. k \in Resident(entries) /\ entries[k].lease = ticket /\ entries[k] \in Entries
      <4>1. k # None /\ entries[k] # Absent /\ entries[k].lease = ticket
        BY <1>4, <2>1, <2>3 DEF Complete, CompleteAnswer
      <4>2. k \in Resident(entries)
        BY <4>1 DEF Resident, IndInv, TypeOK
      <4> QED
        BY <4>1, <4>2, ResidentEntry DEF IndInv
    <3>3. CASE c # k
      BY <3>1, <3>3 DEF IndInv, TypeOK
    <3>4. CASE c = k
      <4>1. entries'[c] = Released(entries[c], "Expired")
        BY <3>1, <3>4 DEF IndInv, TypeOK
      <4>2. entries'[c].lease = None /\ entries'[c].attempts = entries[c].attempts
        BY <4>1 DEF Released, AttemptsAfter
      <4>5. entries'[c].consumed
        <5>1. CompleteAnswer(ticket, now) = "Expired"
          BY <2>1, <2>3
        <5>2. entries'[k].consumed <=> Consumes("Expired")
          BY <1>4, <5>1, CompleteEffect
        <5> QED
          BY <3>4, <5>2 DEF Consumes
      <4>3. outcome'[entries[c].lease] = "Expired"
        BY <3>1, <3>2, <3>4 DEF IndInv, TypeOK
      <4>4. entries[c].lease # None
        BY <3>2, <3>4, StoreAssumption
      <4> QED
        BY <2>3, <4>2, <4>3, <4>4, <4>5 DEF EndsLate
    <3> QED
      BY <3>3, <3>4
  <2> QED
    BY <2>2, <2>3
<1> QED
  BY <1>1, <1>2, <1>3, <1>4 DEF StoreNext

\* No refused call gives or takes an attempt, a lease or an acceptance.
THEOREM StoreRefusalsAreHarmless == StoreSpec => RefusalsAreHarmless
<1>1. IndInv /\ [StoreNext]_storeVars
      => [reply' \in Refusals =>
             \A c \in Ids : \/ entries'[c] \in {entries[c], Absent}
                            \/ reply' = "Expired" /\ EndsLate(c)]_storeVars
  BY RefusalStep
<1> QED
  BY <1>1, StoreInvariant, PTL DEF StoreSpec, RefusalsAreHarmless

-----------------------------------------------------------------------------
(***************************************************************************)
(* The store implements ChallengeLifecycle.  Each call is one step of the  *)
(* lifecycle, or none.                                                     *)
(***************************************************************************)

\* What the lifecycle sees does not change when these parts do not change.
LEMMA SameViewSameWinner ==
    ASSUME NEW c, UNCHANGED outcome, \A t \in Tokens : claimOf'[t] = c <=> claimOf[t] = c
    PROVE  WinnerOf(c)' = WinnerOf(c)
<1>1. AcceptedOn(c)' = AcceptedOn(c)
  BY DEF AcceptedOn, Accepted
<1> QED
  BY <1>1 DEF WinnerOf

\* A challenge whose entry and claims a step leaves alone looks the same in the
\* lifecycle before and after.
LEMMA SameEntrySameView ==
    ASSUME NEW c, entries'[c] = entries[c], c \in inserted' <=> c \in inserted
    PROVE  PhaseOf(c)' = PhaseOf(c) /\ HolderOf(c)' = HolderOf(c)
  BY DEF PhaseOf, HolderOf, Open

\* The empty store is the lifecycle before anything was issued.
LEMMA InitRefines == StoreInit => Lifecycle!Init
<1> SUFFICES ASSUME StoreInit PROVE Lifecycle!Init
  OBVIOUS
<1>1. \A c \in Ids : PhaseOf(c) = "unissued" /\ HolderOf(c) = None
  BY DEF StoreInit, PhaseOf, HolderOf, Open
<1>2. \A c \in Ids : WinnerOf(c) = None
  BY DEF StoreInit, WinnerOf, AcceptedOn, Accepted
<1>3. Granted = {}
  BY DEF StoreInit, Granted
<1> QED
  BY <1>1, <1>2, <1>3 DEF StoreInit, Lifecycle!Init

\* A resident entry was inserted, so its challenge is not unissued.
LEMMA ResidentIsIssued ==
    ASSUME IndInv, NEW c \in Resident(entries)
    PROVE  c \in inserted /\ PhaseOf(c) # "unissued"
  BY DEF IndInv, UnissuedIsUntouched, Resident, PhaseOf

\* Insert issues a challenge, and retires those it prunes.
LEMMA InsertRefines ==
    ASSUME IndInv, NEW c \in Ids, NEW owner \in Scopes, NEW expires \in Times,
           NEW now \in Times, Insert(c, owner, expires, now)
    PROVE  Lifecycle!Next \/ UNCHANGED Lifecycle!vars
<1> DEFINE S == Resident(entries) \ Resident(Retained(now))
<1>1. UNCHANGED <<claimOf, outcome, charged>>
  BY DEF Insert
<1>2. \A d \in Ids : WinnerOf(d)' = WinnerOf(d)
  BY <1>1, SameViewSameWinner
<1>3. Granted' = Granted
  BY <1>1 DEF Granted
<1>4. /\ S \in SUBSET Ids
      /\ \A d \in S : PhaseOf(d) # "unissued" /\ d \in inserted /\ Retained(now)[d] = Absent
  BY ResidentIsIssued DEF Resident
<1>5. \A d \in Ids \ S : Retained(now)[d] = entries[d]
  BY RetainedEntries DEF Resident
<1>6. CASE UNCHANGED <<entries, inserted>>
  <2>1. \A d \in Ids : PhaseOf(d)' = PhaseOf(d) /\ HolderOf(d)' = HolderOf(d)
    BY <1>6, SameEntrySameView
  <2> QED
    BY <1>1, <1>2, <1>3, <2>1 DEF Lifecycle!vars
<1>7. CASE entries' = Retained(now) /\ UNCHANGED inserted
  <2>1. \A d \in S : PhaseOf(d)' = "closed" /\ HolderOf(d)' = None
    BY <1>4, <1>7 DEF PhaseOf, HolderOf, Open
  <2>2. \A d \in Ids \ S : PhaseOf(d)' = PhaseOf(d) /\ HolderOf(d)' = HolderOf(d)
    BY <1>5, <1>7, SameEntrySameView
  <2>3. Lifecycle!Retire(S)
    BY <1>1, <1>2, <1>3, <1>4, <2>1, <2>2 DEF Lifecycle!Retire
  <2> QED
    BY <1>4, <2>3 DEF Lifecycle!Next
<1>8. CASE /\ InsertAnswer(c, expires, now) = "Ok"
           /\ entries' = [Retained(now) EXCEPT ![c] = NewEntry(owner, expires)]
           /\ inserted' = inserted \union {c}
  <2>1. c \notin inserted /\ PhaseOf(c) = "unissued" /\ c \notin S
    BY <1>4, <1>8, AcceptedInsertIsNew DEF Insert, IndInv, PhaseOf
  <2>2. /\ entries'[c] = NewEntry(owner, expires)
        /\ \A d \in Ids \ {c} : entries'[d] = Retained(now)[d]
    BY <1>8, RetainedEntries
  <2>3. \A d \in S : PhaseOf(d)' = "closed" /\ HolderOf(d)' = None
    BY <1>4, <1>8, <2>1, <2>2 DEF PhaseOf, HolderOf, Open
  <2>4. \A d \in Ids \ (S \union {c}) : PhaseOf(d)' = PhaseOf(d) /\ HolderOf(d)' = HolderOf(d)
    BY <1>5, <1>8, <2>2, SameEntrySameView
  <2>5. PhaseOf(c)' = "open" /\ HolderOf(c)' = None
    <3>1. NewEntry(owner, expires) # Absent
      BY NewEntryIsEntry
    <3>2. ~entries'[c].consumed /\ entries'[c].lease = None
      BY <2>2 DEF NewEntry
    <3> QED
      BY <1>8, <2>2, <3>1, <3>2 DEF PhaseOf, HolderOf, Open
  <2>6. HolderOf(c) = None
    BY <2>1 DEF HolderOf, Open, IndInv, UnissuedIsUntouched
  <2>7. Lifecycle!Issue(c, S)
    BY <1>1, <1>2, <1>3, <1>4, <2>1, <2>3, <2>4, <2>5, <2>6 DEF Lifecycle!Issue
  <2> QED
    BY <1>4, <2>7 DEF Lifecycle!Next
<1> QED
  BY <1>6, <1>7, <1>8 DEF Insert

\* A granted claim is a Claim of the lifecycle; a refused one changes nothing.
LEMMA ClaimRefines ==
    ASSUME IndInv, NEW owner \in Scopes \union {MalformedScope},
           NEW key \in Ids \union {UnknownId, MalformedId},
           NEW now \in Times, NEW ticket \in Tokens, Claim(owner, key, now, ticket)
    PROVE  Lifecycle!Next \/ UNCHANGED Lifecycle!vars
<1>1. CASE ClaimAnswer(owner, key, now) # "Ok"
  <2>1. UNCHANGED <<entries, claimOf, outcome, charged, inserted>>
    BY <1>1 DEF Claim
  <2>2. \A d \in Ids : PhaseOf(d)' = PhaseOf(d) /\ HolderOf(d)' = HolderOf(d)
    BY <2>1, SameEntrySameView
  <2>3. \A d \in Ids : WinnerOf(d)' = WinnerOf(d)
    BY <2>1, SameViewSameWinner
  <2>4. Granted' = Granted
    BY <2>1 DEF Granted
  <2> QED
    BY <2>1, <2>2, <2>3, <2>4 DEF Lifecycle!vars
<1>2. CASE ClaimAnswer(owner, key, now) = "Ok"
  <2>0. Grants(key, ticket)
    BY <1>2, ClaimEffect
  <2>1. /\ key \in Resident(entries)
        /\ ~entries[key].consumed
        /\ entries[key].lease = None
        /\ claimOf[ticket] = None /\ outcome[ticket] = "Pending"
        /\ claimOf' = [claimOf EXCEPT ![ticket] = key]
        /\ UNCHANGED <<outcome, charged, inserted>>
        /\ ~entries'[key].consumed
    BY <2>0 DEF Grants
  <2>2. entries[key].attempts < MaxAttempts
    BY <2>0 DEF Grants
  <2>3. /\ entries'[key] \in Entries
        /\ entries'[key] = LeasedTo(entries[key], ticket)
        /\ \A d \in Ids \ {key} : entries'[d] = entries[d]
    BY <2>0 DEF Grants
  <2>4. key \in Ids /\ entries[key] # Absent /\ entries[key] \in Entries /\ key \in inserted
    BY <2>1, ResidentEntry, ResidentIsIssued DEF IndInv
  <2>5. entries'[key].lease = ticket /\ entries'[key] # Absent
    BY <2>3, StoreAssumption DEF LeasedTo
  <2>6. charged[key] < MaxAttempts
    <3>1. entries[key].attempts = charged[key] + Leased(key)
      BY <2>1 DEF IndInv, AttemptBudget
    <3>2. Leased(key) = 0
      BY <2>1 DEF Leased
    <3>3. charged[key] \in 0 .. MaxAttempts
      BY <2>4 DEF IndInv, TypeOK
    <3> QED
      BY <2>2, <3>1, <3>2, <3>3, StoreAssumption
  <2>7. /\ PhaseOf(key) = "open" /\ PhaseOf(key)' = "open"
        /\ HolderOf(key) = None /\ HolderOf(key)' = ticket
    BY <2>1, <2>4, <2>5 DEF PhaseOf, HolderOf, Open
  <2>8. \A d \in Ids \ {key} : PhaseOf(d)' = PhaseOf(d) /\ HolderOf(d)' = HolderOf(d)
    BY <2>1, <2>3, SameEntrySameView
  <2>9. \A d \in Ids : WinnerOf(d)' = WinnerOf(d)
    <3> TAKE d \in Ids
    <3>1. AcceptedOn(d)' = AcceptedOn(d)
      BY <2>1 DEF AcceptedOn, Accepted, IndInv, TypeOK
    <3> QED
      BY <3>1 DEF WinnerOf
  <2>10. ticket \notin Granted /\ Granted' = Granted \union {ticket}
    BY <2>1, <2>4, StoreAssumption DEF Granted, IndInv, TypeOK
  <2>11. Lifecycle!Claim(key, ticket)
    BY <2>1, <2>4, <2>6, <2>7, <2>8, <2>9, <2>10 DEF Lifecycle!Claim
  <2> QED
    BY <2>4, <2>11 DEF Lifecycle!Next
<1> QED
  BY <1>1, <1>2

\* A completion accepts, spends, refunds or lapses, or changes nothing.
LEMMA CompleteRefines ==
    ASSUME IndInv, NEW ticket \in Tokens, NEW completion \in Completions,
           NEW now \in Times, Complete(ticket, completion, now)
    PROVE  Lifecycle!Next \/ UNCHANGED Lifecycle!vars
<1>1. CASE CompleteAnswer(ticket, now) \in {"NotFound", "StaleClaim"}
  <2>1. UNCHANGED <<entries, claimOf, outcome, charged, inserted>>
    BY <1>1 DEF Complete
  <2>2. \A d \in Ids : PhaseOf(d)' = PhaseOf(d) /\ HolderOf(d)' = HolderOf(d)
    BY <2>1, SameEntrySameView
  <2>3. \A d \in Ids : WinnerOf(d)' = WinnerOf(d)
    BY <2>1, SameViewSameWinner
  <2>4. Granted' = Granted
    BY <2>1 DEF Granted
  <2> QED
    BY <2>1, <2>2, <2>3, <2>4 DEF Lifecycle!vars
<1>2. CASE CompleteAnswer(ticket, now) \in {"Expired", "Ok"}
  <2>1. PICK c \in Resident(entries), result \in Outcomes \ {"Pending"} :
            /\ claimOf[ticket] = c
            /\ entries[c].lease = ticket
            /\ ~entries[c].consumed
            /\ outcome' = [outcome EXCEPT ![ticket] = result]
            /\ charged' \in [Ids -> 0 .. MaxAttempts]
            /\ charged'[c] = (IF result = "InternalError"
                              THEN charged[c] ELSE charged[c] + 1)
            /\ UNCHANGED <<claimOf, inserted>>
            /\ entries'[c] \in Entries
            /\ entries'[c].lease = None
            /\ entries'[c].consumed <=> Consumes(result)
            /\ \A d \in Ids \ {c} : entries'[d] = entries[d] /\ charged'[d] = charged[d]
    BY <1>2, CompleteEffect, SMTT(30)
  <2>2. c \in Ids /\ entries[c] # Absent /\ c \in inserted /\ entries'[c] # Absent
    BY <2>1, ResidentEntry, ResidentIsIssued, StoreAssumption DEF IndInv
  <2>3. /\ PhaseOf(c) = "open" /\ HolderOf(c) = ticket
        /\ PhaseOf(c)' = (IF Consumes(result) THEN "closed" ELSE "open")
        /\ HolderOf(c)' = None
    BY <2>1, <2>2 DEF PhaseOf, HolderOf, Open
  <2>4. \A d \in Ids \ {c} : PhaseOf(d)' = PhaseOf(d) /\ HolderOf(d)' = HolderOf(d)
    BY <2>1, SameEntrySameView
  <2>5. \A d \in Ids \ {c} : AcceptedOn(d)' = AcceptedOn(d)
    BY <2>1 DEF AcceptedOn, Accepted, IndInv, TypeOK
  <2>6. \A d \in Ids \ {c} : WinnerOf(d)' = WinnerOf(d)
    <3> TAKE d \in Ids \ {c}
    <3>1. AcceptedOn(d)' = AcceptedOn(d)
      BY <2>5
    <3> QED
      BY <3>1 DEF WinnerOf
  <2>7. AcceptedOn(c) = {}
    BY <2>1 DEF AcceptedOn, IndInv, AcceptedIsClosed
  <2>8. AcceptedOn(c)' = IF result = "Passed" THEN {ticket} ELSE {}
    BY <2>1, <2>7 DEF AcceptedOn, Accepted, IndInv, TypeOK
  <2>9. WinnerOf(c) = None /\ WinnerOf(c)' = (IF result = "Passed" THEN ticket ELSE None)
    BY <2>7, <2>8 DEF WinnerOf
  <2>10. Granted' = Granted
    BY <2>1 DEF Granted
  <2>11. charged = [d \in Ids |-> charged[d]] /\ charged' = [d \in Ids |-> charged'[d]]
    BY <2>1 DEF IndInv, TypeOK
  <2>12. Lifecycle!Finish(c, ticket)
    BY <2>2, <2>3, <2>4, <2>10 DEF Lifecycle!Finish
  <2>13. \A d \in Ids : PhaseOf(d)' = IF d = c /\ Consumes(result) THEN "closed" ELSE PhaseOf(d)
    BY <2>3, <2>4
  <2>14. \A d \in Ids : WinnerOf(d)' = IF d = c /\ result = "Passed" THEN ticket ELSE WinnerOf(d)
    BY <2>6, <2>9
  <2>15. result # "InternalError" => charged' = [charged EXCEPT ![c] = @ + 1]
    BY <2>1, <2>2, <2>11
  <2>16. CASE result = "Passed"
    <3>1. Lifecycle!Accept(c, ticket)
      BY <2>12, <2>13, <2>14, <2>15, <2>16 DEF Lifecycle!Accept, Consumes
    <3> QED
      BY <2>2, <3>1 DEF Lifecycle!Next
  <2>17. CASE result = "Rejected"
    <3>1. Lifecycle!Spend(c, ticket)
      BY <2>12, <2>13, <2>14, <2>15, <2>17 DEF Lifecycle!Spend, Consumes
    <3> QED
      BY <2>2, <3>1 DEF Lifecycle!Next
  <2>18. CASE result = "InternalError"
    <3>1. charged' = charged
      BY <2>1, <2>2, <2>11, <2>18
    <3>2. Lifecycle!Refund(c, ticket)
      BY <2>12, <2>13, <2>14, <2>18, <3>1 DEF Lifecycle!Refund, Consumes
    <3> QED
      BY <2>2, <3>2 DEF Lifecycle!Next
  <2>19. CASE result = "Expired"
    <3>1. Consumes(result) /\ result # "Passed" /\ result # "InternalError"
      BY <2>19 DEF Consumes
    <3>2. /\ \A d \in Ids : WinnerOf(d)' = WinnerOf(d)
          /\ \A d \in Ids : PhaseOf(d)' = IF d = c THEN "closed" ELSE PhaseOf(d)
          /\ charged' = [charged EXCEPT ![c] = @ + 1]
      BY <2>13, <2>14, <2>15, <3>1
    <3>3. Lifecycle!Lapse(c, ticket)
      BY <2>12, <3>2 DEF Lifecycle!Lapse
    <3> QED
      BY <2>2, <3>3 DEF Lifecycle!Next
  <2>20. result \in {"Passed", "Rejected", "InternalError", "Expired"}
    BY <2>1 DEF Outcomes, Completions
  <2> QED
    BY <2>16, <2>17, <2>18, <2>19, <2>20
<1> QED
  BY <1>1, <1>2 DEF Complete, CompleteAnswer

\* Every behaviour of the store is a behaviour of the lifecycle.
THEOREM StoreImplementsLifecycle == StoreSpec => ImplementsLifecycle
<1>1. IndInv /\ [StoreNext]_storeVars => [Lifecycle!Next]_Lifecycle!vars
  <2> SUFFICES ASSUME IndInv, [StoreNext]_storeVars PROVE Lifecycle!Next \/ UNCHANGED Lifecycle!vars
    OBVIOUS
  <2>1. ASSUME UNCHANGED <<entries, claimOf, outcome, charged, inserted>>
        PROVE  UNCHANGED Lifecycle!vars
    <3>1. \A d \in Ids : PhaseOf(d)' = PhaseOf(d) /\ HolderOf(d)' = HolderOf(d)
      BY <2>1, SameEntrySameView
    <3>2. \A d \in Ids : WinnerOf(d)' = WinnerOf(d)
      BY <2>1, SameViewSameWinner
    <3>3. Granted' = Granted
      BY <2>1 DEF Granted
    <3> QED
      BY <2>1, <3>1, <3>2, <3>3 DEF Lifecycle!vars
  <2>2. ASSUME NEW owner, NEW key, ClaimWithoutEntropy(owner, key)
        PROVE  UNCHANGED Lifecycle!vars
    BY <2>1, <2>2 DEF ClaimWithoutEntropy
  <2> QED
    BY <2>1, <2>2, InsertRefines, ClaimRefines, CompleteRefines DEF StoreNext, storeVars
<1> QED
  BY <1>1, InitRefines, StoreInvariant, PTL DEF StoreSpec, ImplementsLifecycle, Lifecycle!Spec

-----------------------------------------------------------------------------
(***************************************************************************)
(* Gate.                                                                   *)
(***************************************************************************)
\* The arguments each call of the store is made with.
CallsAreTyped ==
    /\ clock \in 0 .. MaxClock
    /\ stamp \in [Threads -> 0 .. MaxClock]
    /\ pc \in [Threads -> Labels]
    /\ scope = [t \in Threads |-> scope[t]]
    /\ id = [t \in Threads |-> id[t]]
    /\ token = [t \in Threads |-> token[t]]
    /\ verdict = [t \in Threads |-> verdict[t]]
    /\ \A t \in Threads :
          /\ pc[t] = "insert" => scope[t] \in Scopes /\ id[t] \in Ids
          /\ pc[t] \in {"reserve", "claimClock", "claim"} =>
                /\ scope[t] \in Scopes \union {MalformedScope}
                /\ id[t] \in Ids \union {UnknownId, MalformedId}
          /\ pc[t] \in {"execute", "running", "completeClock", "complete"} =>
                token[t] \in Tokens

\* Before the first call no thread holds an argument.
LEMMA InitTyped == Init => CallsAreTyped
  BY GateAssumption DEF Init, CallsAreTyped, Labels

\* A call that returns leaves only idle locals behind.
LEMMA ReturnTyped ==
    ASSUME CallsAreTyped, NEW t \in Threads, NEW result, Return(t, result),
           clock' \in 0 .. MaxClock
    PROVE  CallsAreTyped'
<1>1. /\ stamp' \in [Threads -> 0 .. MaxClock]
      /\ pc' \in [Threads -> Labels]
  BY GateAssumption DEF CallsAreTyped, Return, Labels
<1>2. /\ scope' = [u \in Threads |-> scope'[u]]
      /\ id' = [u \in Threads |-> id'[u]]
      /\ token' = [u \in Threads |-> token'[u]]
      /\ verdict' = [u \in Threads |-> verdict'[u]]
  BY DEF CallsAreTyped, Return
<1>3. ASSUME NEW u \in Threads
      PROVE  /\ pc'[u] = "insert" => scope'[u] \in Scopes /\ id'[u] \in Ids
             /\ pc'[u] \in {"reserve", "claimClock", "claim"} =>
                   /\ scope'[u] \in Scopes \union {MalformedScope}
                   /\ id'[u] \in Ids \union {UnknownId, MalformedId}
             /\ pc'[u] \in {"execute", "running", "completeClock", "complete"} =>
                   token'[u] \in Tokens
  <2>1. CASE u = t
    <3>1. pc'[u] = "idle"
      BY <2>1 DEF CallsAreTyped, Return
    <3> QED
      BY <3>1
  <2>2. CASE u # t
    <3>1. /\ pc'[u] = pc[u] /\ scope'[u] = scope[u]
          /\ id'[u] = id[u] /\ token'[u] = token[u]
      BY <2>2 DEF CallsAreTyped, Return
    <3> QED
      BY <3>1 DEF CallsAreTyped
  <2> QED
    BY <2>1, <2>2
<1> QED
  BY <1>1, <1>2, <1>3 DEF CallsAreTyped

\* Every step of issue and verify keeps the arguments of every call typed.
LEMMA NextTyped == CallsAreTyped /\ [Next]_vars => CallsAreTyped'
<1> USE DEF host
<1> SUFFICES ASSUME CallsAreTyped, [Next]_vars PROVE CallsAreTyped'
  OBVIOUS
<1> USE GateAssumption
<1>1. ASSUME NEW t \in Threads, IssueRefused(t) PROVE CallsAreTyped'
  BY <1>1, ReturnTyped DEF IssueRefused, CallsAreTyped
<1>2. ASSUME NEW t \in Threads, NEW s \in Scopes, NEW c \in Ids, BeginIssue(t, s, c)
      PROVE  CallsAreTyped'
  BY <1>2 DEF BeginIssue, ReadClock, Goto, CallsAreTyped, Labels
<1>3. ASSUME NEW t \in Threads, NEW s, NEW c, NEW text, VerifyRefused(t, s, c, text)
      PROVE  CallsAreTyped'
  BY <1>3, ReturnTyped DEF VerifyRefused, CallsAreTyped
<1>4. ASSUME NEW t \in Threads, NEW s \in Scopes \union {MalformedScope},
             NEW c \in Ids \union {UnknownId, MalformedId}, NEW text,
             BeginVerify(t, s, c, text)
      PROVE  CallsAreTyped'
  BY <1>4 DEF BeginVerify, Goto, CallsAreTyped, Labels, arguments
<1>5. ASSUME NEW t \in Threads, InsertChallenge(t) PROVE CallsAreTyped'
  BY <1>5, ReturnTyped DEF InsertChallenge, CallsAreTyped
<1>6. ASSUME NEW t \in Threads, ReserveGranted(t) PROVE CallsAreTyped'
  BY <1>6 DEF ReserveGranted, Goto, CallsAreTyped, Labels, arguments
<1>7. ASSUME NEW t \in Threads, ReserveBusy(t) PROVE CallsAreTyped'
  BY <1>7, ReturnTyped DEF ReserveBusy, CallsAreTyped
<1>8. ASSUME NEW t \in Threads, ReadClaimClock(t) PROVE CallsAreTyped'
  <2>1. CASE clock = 0 /\ Return(t, "Clock")
    BY <1>8, <2>1, ReturnTyped DEF ReadClaimClock, CallsAreTyped
  <2>2. CASE ReadClock(t) /\ Goto(t, "claim") /\ UNCHANGED <<permits, arguments, token, verdict>>
    BY <1>8, <2>2 DEF ReadClaimClock, ReadClock, Goto, CallsAreTyped, Labels, arguments
  <2> QED
    BY <1>8, <2>1, <2>2 DEF ReadClaimClock
<1>9. ASSUME NEW t \in Threads, NEW k \in Tokens, ClaimChallenge(t, k) PROVE CallsAreTyped'
  <2>1. CASE Return(t, reply')
    BY <1>9, <2>1, ReturnTyped DEF ClaimChallenge, CallsAreTyped
  <2>2. CASE /\ token' = [token EXCEPT ![t] = k]
             /\ Goto(t, "execute")
             /\ UNCHANGED <<permits, arguments, stamp, verdict>>
    BY <1>9, <2>2 DEF ClaimChallenge, Goto, CallsAreTyped, Labels, arguments
  <2> QED
    BY <1>9, <2>1, <2>2 DEF ClaimChallenge
<1>10. ASSUME NEW t \in Threads, ClaimFails(t) PROVE CallsAreTyped'
  BY <1>10, ReturnTyped DEF ClaimFails, CallsAreTyped
<1>11. ASSUME NEW t \in Threads, NoWorker(t) PROVE CallsAreTyped'
  BY <1>11 DEF NoWorker, ExecutionEnds, Goto, CallsAreTyped, Labels, arguments
<1>12. ASSUME NEW t \in Threads, StartWorker(t) PROVE CallsAreTyped'
  BY <1>12 DEF StartWorker, Goto, CallsAreTyped, Labels, arguments
<1>13. ASSUME NEW t \in Threads, NEW result, FinishWorker(t, result) PROVE CallsAreTyped'
  BY <1>13 DEF FinishWorker, ExecutionEnds, Goto, CallsAreTyped, Labels, arguments
<1>14. ASSUME NEW t \in Threads, ReadCompletionClock(t) PROVE CallsAreTyped'
  <2>1. CASE Return(t, "Clock")
    BY <1>14, <2>1, ReturnTyped DEF ReadCompletionClock, CallsAreTyped
  <2>2. CASE /\ ReadClock(t) /\ Goto(t, "complete")
             /\ UNCHANGED <<permits, arguments, token, verdict, lost>>
    BY <1>14, <2>2 DEF ReadCompletionClock, ReadClock, Goto, CallsAreTyped, Labels, arguments
  <2> QED
    BY <1>14, <2>1, <2>2 DEF ReadCompletionClock
<1>15. ASSUME NEW t \in Threads, CompleteClaim(t) PROVE CallsAreTyped'
  BY <1>15, ReturnTyped DEF CompleteClaim, CallsAreTyped
<1>16. CASE Tick \/ StepBack
  BY <1>16 DEF Tick, StepBack, CallsAreTyped, arguments
<1>17. CASE UNCHANGED vars
  BY <1>17 DEF vars, CallsAreTyped, arguments
<1> QED
  BY <1>1, <1>2, <1>3, <1>4, <1>5, <1>6, <1>7, <1>8, <1>9, <1>10, <1>11, <1>12, <1>13,
     <1>14, <1>15, <1>16, <1>17 DEF Next, Begin, Continue

-----------------------------------------------------------------------------
\* What the calls leave for the store are instants and completions it knows.
LEMMA StoreArguments ==
    /\ 0 .. MaxClock \subseteq Times
    /\ \A now \in 0 .. MaxClock : now + Ttl \in Times
    /\ \A result : CompletionOf(result) \in Completions
  BY GateAssumption DEF CompletionOf, Completions

\* A step of the Gate is one call of the store, with arguments it accepts, or
\* leaves the store alone.
LEMMA StepUsesStore ==
    ASSUME CallsAreTyped, [Next]_vars
    PROVE  [StoreNext]_storeVars
<1> USE DEF CallsAreTyped
<1>1. ASSUME NEW t \in Threads, InsertChallenge(t) PROVE StoreNext
  <2>1. /\ id[t] \in Ids /\ scope[t] \in Scopes
        /\ stamp[t] \in Times /\ stamp[t] + Ttl \in Times
        /\ Insert(id[t], scope[t], stamp[t] + Ttl, stamp[t])
    BY <1>1, StoreArguments DEF InsertChallenge
  <2> QED
    BY <2>1 DEF StoreNext
<1>2. ASSUME NEW t \in Threads, NEW k \in Tokens, ClaimChallenge(t, k) PROVE StoreNext
  <2>1. /\ id[t] \in Ids \union {UnknownId, MalformedId}
        /\ scope[t] \in Scopes \union {MalformedScope}
        /\ stamp[t] \in Times
        /\ Claim(scope[t], id[t], stamp[t], k)
    BY <1>2, StoreArguments DEF ClaimChallenge
  <2> QED
    BY <2>1 DEF StoreNext
<1>3. ASSUME NEW t \in Threads, ClaimFails(t) PROVE StoreNext
  <2>1. /\ id[t] \in Ids \union {UnknownId, MalformedId}
        /\ scope[t] \in Scopes \union {MalformedScope}
        /\ ClaimWithoutEntropy(scope[t], id[t])
    BY <1>3 DEF ClaimFails
  <2> QED
    BY <2>1 DEF StoreNext
<1>4. ASSUME NEW t \in Threads, CompleteClaim(t) PROVE StoreNext
  <2>1. /\ token[t] \in Tokens
        /\ stamp[t] \in Times
        /\ CompletionOf(verdict[t]) \in Completions
        /\ Complete(token[t], CompletionOf(verdict[t]), stamp[t])
    BY <1>4, StoreArguments DEF CompleteClaim
  <2> QED
    BY <2>1 DEF StoreNext
<1>5. ASSUME NEW t \in Threads, Begin(t) PROVE UNCHANGED storeVars
  BY <1>5 DEF Begin, IssueRefused, BeginIssue, VerifyRefused, BeginVerify
<1>6. ASSUME NEW t \in Threads,
             \/ ReserveGranted(t) \/ ReserveBusy(t) \/ ReadClaimClock(t) \/ NoWorker(t)
             \/ StartWorker(t) \/ (\E result \in WorkerVerdicts : FinishWorker(t, result))
             \/ ReadCompletionClock(t)
      PROVE  UNCHANGED storeVars
  BY <1>6 DEF ReserveGranted, ReserveBusy, ReadClaimClock, NoWorker, StartWorker,
              FinishWorker, ReadCompletionClock
<1>7. CASE Tick \/ StepBack
  BY <1>7 DEF Tick, StepBack, storeVars
<1>8. CASE UNCHANGED vars
  BY <1>8 DEF vars, storeVars
<1> HIDE DEF CallsAreTyped
<1> QED
  BY <1>1, <1>2, <1>3, <1>4, <1>5, <1>6, <1>7, <1>8
  DEF Next, Continue, storeVars

\* The Gate calls the store only as trait StateStore allows, in every behaviour:
\* the steps of the composition are, seen from the store, calls of its own or
\* nothing, so the theorems about the store hold of the store inside the Gate.
THEOREM GateUsesStore == Spec => UsesStore
<1>1. Init => StoreInit
  BY DEF Init
<1>2. Init => CallsAreTyped
  BY InitTyped
<1>3. CallsAreTyped /\ [Next]_vars => CallsAreTyped'
  BY NextTyped
<1>4. CallsAreTyped /\ [Next]_vars => [StoreNext]_storeVars
  BY StepUsesStore
<1> QED
  BY <1>1, <1>2, <1>3, <1>4, PTL DEF Spec, UsesStore, StoreSpec

\* Seen from the Gate, with leases, clock readings and evictions of any number
\* of callers crossing each other, every challenge lives the lifecycle of the
\* contract: the refinement of the store carries over to the composition.
THEOREM GateKeepsLifecycle == Spec => KeepsLifecycle
BY GateUsesStore, StoreImplementsLifecycle DEF KeepsLifecycle, UsesStore

\* What the store promises its callers, the Gate's concurrent calls get: one
\* accepted submission per challenge, no stolen lease, an exact attempt counter
\* and a bounded map; and whatever clock each of them has read, none loses a
\* challenge that is live by it, nor an attempt to a call that is refused.
THEOREM GateStoreIsSafe ==
    Spec => /\ [](OnePass /\ NoLeaseStealing /\ AttemptBudget /\ Bounded)
            /\ InsertsSpareTheLive
            /\ RefusalsAreHarmless
<1>1. StoreSpec => [](OnePass /\ NoLeaseStealing /\ AttemptBudget /\ Bounded)
  BY StoreOnePass, StoreNoLeaseStealing, StoreAttemptBudget, StoreBounded, PTL
<1> QED
  BY <1>1, GateUsesStore, StoreInsertsSpareTheLive, StoreRefusalsAreHarmless DEF UsesStore

-----------------------------------------------------------------------------
(***************************************************************************)
(* Who holds a permit.                                                     *)
(***************************************************************************)
\* The calls between reserve and the end of their execution.
Working == {t \in Threads : pc[t] \in {"claimClock", "claim", "execute", "running"}}

\* A call that returns gives its permit back, whether it still had one or not.
LEMMA ReturnPermits ==
    ASSUME CallsAreTyped, permits = Working, NEW t \in Threads, NEW result, Return(t, result)
    PROVE  permits' = Working' /\ permits' \subseteq permits
  BY DEF CallsAreTyped, Return, Working

\* Permits and work begin and end together, in every step of every call.
LEMMA NextWorking ==
    ASSUME CallsAreTyped, permits = Working, [Next]_vars
    PROVE  /\ permits' = Working'
           /\ \/ permits' \subseteq permits
              \/ Cardinality(permits) < MaxParallel /\ \E t \in Threads : permits' = permits \union {t}
<1>1. ASSUME NEW t \in Threads, NEW result, Return(t, result)
      PROVE  permits' = Working' /\ permits' \subseteq permits
  BY <1>1, ReturnPermits
<1>2. ASSUME NEW t \in Threads,
             \/ IssueRefused(t)
             \/ (\E s, c, text : VerifyRefused(t, s, c, text))
             \/ InsertChallenge(t)
             \/ ReserveBusy(t)
             \/ ClaimFails(t)
             \/ CompleteClaim(t)
      PROVE  \E result : Return(t, result)
  BY <1>2 DEF IssueRefused, VerifyRefused, InsertChallenge, ReserveBusy, ClaimFails,
              CompleteClaim
<1>3. ASSUME NEW t \in Threads,
             \/ (\E s, c : BeginIssue(t, s, c))
             \/ (\E s, c, text : BeginVerify(t, s, c, text))
      PROVE  permits' = Working' /\ permits' = permits
  BY <1>3 DEF BeginIssue, BeginVerify, Goto, CallsAreTyped, Working
<1>4. ASSUME NEW t \in Threads, ReserveGranted(t)
      PROVE  /\ permits' = Working'
             /\ Cardinality(permits) < MaxParallel /\ permits' = permits \union {t}
  BY <1>4 DEF ReserveGranted, Goto, CallsAreTyped, Working
<1>5. ASSUME NEW t \in Threads, ReadClaimClock(t)
      PROVE  permits' = Working' /\ permits' \subseteq permits
  BY <1>5, <1>1 DEF ReadClaimClock, Goto, CallsAreTyped, Working
<1>6. ASSUME NEW t \in Threads, NEW k, ClaimChallenge(t, k)
      PROVE  permits' = Working' /\ permits' \subseteq permits
  <2>1. CASE Return(t, reply')
    BY <2>1, <1>1
  <2>2. CASE Goto(t, "execute") /\ UNCHANGED permits
    BY <1>6, <2>2 DEF ClaimChallenge, Goto, CallsAreTyped, Working
  <2> QED
    BY <1>6, <2>1, <2>2 DEF ClaimChallenge
<1>7. ASSUME NEW t \in Threads, NoWorker(t) \/ (\E result : FinishWorker(t, result))
      PROVE  permits' = Working' /\ permits' \subseteq permits
  BY <1>7 DEF NoWorker, FinishWorker, ExecutionEnds, Goto, CallsAreTyped, Working
<1>8. ASSUME NEW t \in Threads, StartWorker(t) PROVE permits' = Working' /\ permits' = permits
  BY <1>8 DEF StartWorker, Goto, CallsAreTyped, Working
<1>9. ASSUME NEW t \in Threads, ReadCompletionClock(t)
      PROVE  permits' = Working' /\ permits' \subseteq permits
  <2>1. CASE Return(t, "Clock")
    BY <2>1, <1>1
  <2>2. CASE Goto(t, "complete") /\ UNCHANGED permits
    BY <1>9, <2>2 DEF ReadCompletionClock, Goto, CallsAreTyped, Working
  <2> QED
    BY <1>9, <2>1, <2>2 DEF ReadCompletionClock
<1>10. CASE Tick \/ StepBack \/ UNCHANGED vars
  BY <1>10 DEF Tick, StepBack, vars, Working
<1>11. ASSUME NEW t \in Threads, Begin(t)
       PROVE  permits' = Working' /\ permits' \subseteq permits
  BY <1>11, <1>1, <1>2, <1>3 DEF Begin
<1> QED
  BY <1>1, <1>2, <1>4, <1>5, <1>6, <1>7, <1>8, <1>9, <1>10, <1>11 DEF Next, Continue

\* One more permit is handed out only below the limit.
LEMMA NextPermits ==
    ASSUME CallsAreTyped, CallsAreTyped', PermitsMatchWork, [Next]_vars
    PROVE  PermitsMatchWork'
<1>1. /\ permits = Working
      /\ Cardinality(permits) <= MaxParallel
      /\ IsFiniteSet(permits)
  BY GateAssumption, FS_Subset DEF PermitsMatchWork, Working
<1>2. /\ permits' = Working'
      /\ \/ permits' \subseteq permits
         \/ Cardinality(permits) < MaxParallel /\ \E t \in Threads : permits' = permits \union {t}
  BY <1>1, NextWorking
<1>3. Cardinality(permits) \in Nat /\ MaxParallel \in Nat
  BY <1>1, FS_CardinalityType, GateAssumption
<1>4. CASE permits' \subseteq permits
  <2>1. Cardinality(permits') <= Cardinality(permits) /\ IsFiniteSet(permits')
    BY <1>1, <1>4, FS_Subset
  <2>2. Cardinality(permits') \in Nat
    BY <2>1, FS_CardinalityType
  <2> QED
    BY <1>1, <1>2, <1>3, <2>1, <2>2 DEF PermitsMatchWork, Working
<1>5. CASE Cardinality(permits) < MaxParallel /\ \E t \in Threads : permits' = permits \union {t}
  <2>1. PICK t \in Threads : permits' = permits \union {t}
    BY <1>5
  <2>2. Cardinality(permits') \in {Cardinality(permits), Cardinality(permits) + 1}
    BY <1>1, <2>1, FS_AddElement
  <2> QED
    BY <1>2, <1>3, <1>5, <2>2 DEF PermitsMatchWork, Working
<1> QED
  BY <1>2, <1>4, <1>5

\* For any number of callers the permits are exactly the calls between reserve
\* and the end of their execution, and never more than max_parallel: no early
\* return of verify keeps a permit, and none gives one back twice.
THEOREM PermitsMatch == Spec => []PermitsMatchWork
<1>1. Init => PermitsMatchWork
  BY FS_EmptySet, GateAssumption DEF Init, PermitsMatchWork
<1> QED
  BY <1>1, InitTyped, NextTyped, NextPermits, PTL DEF Spec

-----------------------------------------------------------------------------
(***************************************************************************)
(* What one call of the store does, as far as the Gate relies on it.       *)
(***************************************************************************)
\* Entries stay as they are, leave, or enter under an id nobody had before.
EntriesKept ==
    /\ UNCHANGED <<claimOf, outcome>>
    /\ inserted \subseteq inserted'
    /\ entries' = [c \in Ids |-> entries'[c]]
    /\ \A c \in Ids :
          \/ entries'[c] \in {entries[c], Absent}
          \/ /\ c \in inserted' \ inserted
             /\ entries'[c].attempts = 0
             /\ entries'[c].lease = None
             /\ entries'[c].expires \in Times

\* An insert evicts, refuses or adds a fresh challenge; a challenge that was
\* inserted before is never put back with its attempts forgotten.
LEMMA InsertEffect ==
    ASSUME StoreKeepsShape, NEW c \in Ids, NEW s, NEW now \in 0 .. MaxClock,
           Insert(c, s, now + Ttl, now)
    PROVE  EntriesKept
<1> USE StoreAssumption, GateAssumption
<1>1. now + Ttl \in Times /\ ~(now + Ttl <= now)
  OBVIOUS
<1>2. \A d \in Ids : Retained(now)[d] \in {entries[d], Absent}
  BY DEF Retained
<1>3. CASE InsertAnswer(c, now + Ttl, now) \in {"Expired", "Internal", "Capacity"}
  <2>1. entries' = entries \/ entries' = Retained(now)
    BY <1>3 DEF Insert
  <2>2. entries' = [d \in Ids |-> entries'[d]]
    BY <2>1 DEF Retained, StoreKeepsShape
  <2>3. UNCHANGED <<claimOf, outcome, inserted>>
    BY <1>3 DEF Insert
  <2> QED
    BY <1>2, <2>1, <2>2, <2>3 DEF EntriesKept
<1>4. CASE InsertAnswer(c, now + Ttl, now) = "Ok"
  <2>1. Retained(now)[c] = Absent
    BY <1>1, <1>4 DEF InsertAnswer
  <2>2. c \notin inserted
    <3>1. CASE entries[c] # Absent /\ entries[c].expires = now + Ttl
      BY <1>1, <2>1, <3>1 DEF Retained
    <3> QED
      BY <3>1 DEF Insert, Presentable
  <2>3. /\ entries' = [Retained(now) EXCEPT ![c] = NewEntry(s, now + Ttl)]
        /\ inserted' = inserted \union {c}
        /\ UNCHANGED <<claimOf, outcome>>
    BY <1>4 DEF Insert
  <2>4. \A d \in Ids : entries'[d] = IF d = c THEN NewEntry(s, now + Ttl)
                                     ELSE Retained(now)[d]
    BY <2>3 DEF Retained
  <2>5. entries' = [d \in Ids |-> entries'[d]]
    BY <2>3 DEF Retained
  <2> QED
    BY <1>1, <1>2, <2>2, <2>3, <2>4, <2>5 DEF EntriesKept, NewEntry
<1>5. InsertAnswer(c, now + Ttl, now) \in {"Expired", "Internal", "Capacity", "Ok"}
  BY DEF InsertAnswer
<1> QED
  BY <1>3, <1>4, <1>5

\* A claim is granted only on an idle entry with attempts left, to a token
\* nobody had, and changes that entry alone; a refused one changes nothing.
LEMMA GateClaimEffect ==
    ASSUME NEW s, NEW c, NEW now, NEW k, Claim(s, c, now, k)
    PROVE  /\ claimOf[k] = None
           /\ UNCHANGED <<outcome, inserted>>
           /\ reply' # "Ok" => UNCHANGED <<entries, claimOf>>
           /\ reply' = "Ok" =>
                 /\ c \in Resident(entries)
                 /\ entries[c].lease = None
                 /\ ~(entries[c].attempts >= MaxAttempts)
                 /\ entries' = [entries EXCEPT ![c] = LeasedTo(entries[c], k)]
                 /\ claimOf' = [claimOf EXCEPT ![k] = c]
           /\ reply' # "Passed"
<1>1. reply' = ClaimAnswer(s, c, now)
  BY DEF Claim
<1>2. ASSUME reply' = "Ok"
      PROVE  /\ c \in Resident(entries)
             /\ entries[c].lease = None
             /\ ~(entries[c].attempts >= MaxAttempts)
  BY <1>1, <1>2 DEF ClaimAnswer
<1>3. reply' # "Passed"
  BY <1>1 DEF ClaimAnswer, ValidateLookup
<1> QED
  BY <1>1, <1>2, <1>3 DEF Claim

\* A completion is refused, and changes nothing, unless its token holds the
\* lease; then it gives up the lease, and counts as expired from the expiry on.
LEMMA GateCompleteEffect ==
    ASSUME NEW k, NEW completion, NEW now, Complete(k, completion, now)
    PROVE  /\ UNCHANGED <<claimOf, inserted>>
           /\ \/ /\ reply' \in {"NotFound", "StaleClaim"}
                 /\ entries[claimOf[k]] = Absent \/ entries[claimOf[k]].lease # k
                 /\ UNCHANGED <<entries, outcome>>
              \/ /\ entries[claimOf[k]] # Absent
                 /\ entries[claimOf[k]].lease = k
                 /\ \E result \in {completion, "Expired"} :
                       /\ entries[claimOf[k]].expires <= now => result = "Expired"
                       /\ reply' = "Ok" => result = completion
                       /\ reply' \in {"Ok", "Expired"}
                       /\ entries' = [entries EXCEPT ![claimOf[k]] =
                                         Released(entries[claimOf[k]], result)]
                       /\ outcome' = [outcome EXCEPT ![k] = result]
<1> DEFINE response == CompleteAnswer(k, now)
           ended == IF response = "Expired" THEN "Expired" ELSE completion
<1>1. reply' = response /\ UNCHANGED <<claimOf, inserted>>
  BY DEF Complete
<1>2. CASE response \in {"NotFound", "StaleClaim"}
  BY <1>1, <1>2 DEF Complete, CompleteAnswer
<1>3. CASE response \in {"Expired", "Ok"}
  <2>1. /\ entries' = [entries EXCEPT ![claimOf[k]] = Released(entries[claimOf[k]], ended)]
        /\ outcome' = [outcome EXCEPT ![k] = ended]
    BY <1>3 DEF Complete
  <2>2. /\ entries[claimOf[k]] # Absent
        /\ entries[claimOf[k]].lease = k
        /\ entries[claimOf[k]].expires <= now => response = "Expired"
    BY <1>3 DEF CompleteAnswer
  <2> QED
    BY <1>1, <1>3, <2>1, <2>2
<1>4. response \in {"NotFound", "StaleClaim", "Expired", "Ok"}
  BY DEF CompleteAnswer
<1> QED
  BY <1>2, <1>3, <1>4

\* Only an accepted completion is answered with the verdict of the worker.
LEMMA StoreAnswers ==
    /\ \A c, s, expires, now : Insert(c, s, expires, now) => reply' # "Passed"
    /\ \A s, c : ClaimWithoutEntropy(s, c) =>
          reply' # "Passed" /\ UNCHANGED <<entries, claimOf, outcome, charged, inserted>>
    /\ \A s, c : ValidateLookup(s, c) # "Passed"
<1>1. ASSUME NEW c, NEW s, NEW expires, NEW now, Insert(c, s, expires, now)
      PROVE  reply' # "Passed"
  <2>1. reply' = InsertAnswer(c, expires, now)
    BY <1>1 DEF Insert
  <2> QED
    BY <2>1 DEF InsertAnswer
<1> QED
  BY <1>1 DEF ClaimWithoutEntropy, ValidateLookup

-----------------------------------------------------------------------------
(***************************************************************************)
(* The inductive invariant of the calls and the store.                     *)
(***************************************************************************)
\* The calls of the other threads are where they were.
OthersStay(t) ==
    \A u \in Threads \ {t} :
        /\ pc'[u] = pc[u] /\ id'[u] = id[u] /\ token'[u] = token[u]
        /\ verdict'[u] = verdict[u] /\ stamp'[u] = stamp[u]

\* A call that returns touches no other call, and holds nothing any more.
LEMMA ReturnEffect ==
    ASSUME CallsAreTyped, NEW t \in Threads, NEW result, Return(t, result)
    PROVE  OthersStay(t) /\ pc'[t] = "idle" /\ token'[t] = None
  BY DEF CallsAreTyped, Return, OthersStay

\* Steps before a claim and calls that end without one: whatever they insert or
\* evict, the calls that hold a claim are not disturbed.
LEMMA QuietStep ==
    ASSUME CallsAreTyped, GateInv, NEW t \in Threads, OthersStay(t),
           ~Holds(t), ~Holds(t)', token'[t] = None, EntriesKept, UNCHANGED <<clock, history>>
    PROVE  GateInv'
<1> USE DEF GateInv, history
<1> USE StoreAssumption, GateAssumption
<1>1. \A u \in Threads : Holds(u)' => u # t /\ Holds(u)
  BY DEF OthersStay, Holds
<1>2. /\ UNCHANGED <<claimOf, outcome, started, lateWork, lost, clock>>
      /\ inserted \subseteq inserted'
      /\ \A c \in Ids : c \in inserted => entries'[c] \in {entries[c], Absent}
  BY DEF EntriesKept
<1>3. \A u \in Threads : Holds(u) => id[u] \in Ids /\ id[u] \in inserted /\ token[u] \in Tokens
  BY DEF ClaimsInHand, TokensAreFresh, Holds, CallsAreTyped
<1>4. StoreKeepsShape'
  BY <1>2 DEF StoreKeepsShape, EntriesKept, Resident
<1>5. TokensAreFresh'
  BY <1>2 DEF TokensAreFresh
<1>6. ClaimsInHand'
  <2> SUFFICES ASSUME NEW u \in Threads
      PROVE  IF Holds(u)'
             THEN /\ id'[u] \in Ids
                  /\ claimOf'[token'[u]] = id'[u]
                  /\ outcome'[token'[u]] = "Pending"
                  /\ id'[u] \in Resident(entries)' => entries'[id'[u]].lease = token'[u]
             ELSE token'[u] = None
    BY DEF ClaimsInHand
  <2>1. CASE u = t
    BY <2>1
  <2>2. CASE u # t
    BY <1>2, <1>3, <2>2 DEF OthersStay, ClaimsInHand, Holds, Resident
  <2> QED
    BY <2>1, <2>2
<1>7. OneHolderPerChallenge'
  BY <1>1 DEF OneHolderPerChallenge, OthersStay
<1>8. RefundedIsUnstarted'
  BY <1>1, <1>2 DEF RefundedIsUnstarted, OthersStay, Holds
<1>9. LateStaysLate'
  <2> SUFFICES ASSUME NEW u \in Threads, Holds(u)'
      PROVE  /\ pc'[u] \in {"execute", "running"} => token'[u] \notin lateWork'
             /\ pc'[u] = "completeClock" /\ token'[u] \in lateWork' /\ id'[u] \in Resident(entries)'
                   => clock' >= entries'[id'[u]].expires
             /\ pc'[u] = "complete" /\ token'[u] \in lateWork' /\ id'[u] \in Resident(entries)'
                   => stamp'[u] >= entries'[id'[u]].expires
    BY DEF LateStaysLate, Holds, ExpiryOf
  <2>1. /\ u # t /\ Holds(u)
        /\ pc'[u] = pc[u] /\ id'[u] = id[u] /\ token'[u] = token[u] /\ stamp'[u] = stamp[u]
    BY <1>1 DEF OthersStay
  <2>2. id[u] \in Resident(entries)' =>
            id[u] \in Resident(entries) /\ entries'[id[u]] = entries[id[u]]
    BY <1>2, <1>3, <2>1 DEF Resident
  <2> QED
    BY <1>2, <2>1, <2>2 DEF LateStaysLate, ExpiryOf
<1>10. LateWorkIsNotAccepted'
  BY <1>2 DEF LateWorkIsNotAccepted
<1>11. NoOrphanedLease'
  <2> SUFFICES ASSUME NEW c \in Ids, entries'[c] # Absent, entries'[c].lease \notin lost' \union {None}
      PROVE  \E u \in Threads : token'[u] = entries'[c].lease /\ id'[u] = c
    BY DEF NoOrphanedLease, Resident
  <2>1. entries'[c] = entries[c]
    BY DEF EntriesKept
  <2>2. PICK u \in Threads : token[u] = entries[c].lease /\ id[u] = c
    BY <1>2, <2>1 DEF NoOrphanedLease, Resident
  <2>3. u # t
    BY <2>1, <2>2 DEF ClaimsInHand
  <2> QED
    BY <2>1, <2>2, <2>3 DEF OthersStay
<1>12. BudgetIsCounted'
  <2> SUFFICES ASSUME NEW c \in Ids
      PROVE  /\ IsFiniteSet(Charged(c)')
             /\ Cardinality(Charged(c)') <= IF c \in Resident(entries)'
                                            THEN entries'[c].attempts ELSE MaxAttempts
    BY DEF BudgetIsCounted
  <2>1. Charged(c)' \subseteq Charged(c)
    BY <1>1, <1>2 DEF Charged, OthersStay
  <2>2. /\ IsFiniteSet(Charged(c)') /\ Cardinality(Charged(c)') <= Cardinality(Charged(c))
        /\ Cardinality(Charged(c)) \in Nat /\ Cardinality(Charged(c)') \in Nat
    BY <2>1, FS_Subset, FS_CardinalityType DEF BudgetIsCounted
  <2>3. CASE c \in inserted
    <3>1. CASE entries'[c] = entries[c]
      <4>1. c \in Resident(entries) => entries[c].attempts \in 0 .. MaxAttempts
        BY DEF StoreKeepsShape
      <4> QED
        BY <2>2, <3>1, <4>1 DEF BudgetIsCounted, Resident
    <3>2. CASE entries'[c] # entries[c]
      <4>1. entries'[c] = Absent /\ entries[c] # Absent
        BY <1>2, <2>3, <3>2
      <4>2. entries[c].attempts \in 0 .. MaxAttempts
        BY <4>1 DEF StoreKeepsShape, Resident
      <4> QED
        BY <2>2, <4>1, <4>2 DEF BudgetIsCounted, Resident
    <3> QED
      BY <3>1, <3>2
  <2>4. CASE c \notin inserted
    <3>1. Charged(c) = {}
      BY <2>4 DEF Charged, TokensAreFresh
    <3>2. Cardinality(Charged(c)') = 0
      BY <2>1, <3>1, FS_EmptySet
    <3>3. c \in Resident(entries)' => entries'[c].attempts \in 0 .. MaxAttempts
      BY <1>4 DEF StoreKeepsShape
    <3> QED
      BY <2>2, <3>2, <3>3
  <2> QED
    BY <2>3, <2>4
<1> QED
  BY <1>4, <1>5, <1>6, <1>7, <1>8, <1>9, <1>10, <1>11, <1>12

\* A granted claim takes one attempt of an entry nobody holds, and is charged
\* to its challenge at once, before it is known whether a worker starts.
LEMMA ClaimStep ==
    ASSUME CallsAreTyped, CallsAreTyped', GateInv, NEW t \in Threads, NEW k \in Tokens,
           ClaimChallenge(t, k), reply' = "Ok"
    PROVE  GateInv'
<1> USE DEF GateInv, history, host
<1> USE StoreAssumption, GateAssumption
<1> DEFINE c == id[t]
<1>1. /\ claimOf[k] = None
      /\ c \in Ids /\ entries[c] # Absent /\ entries[c].lease = None
      /\ ~(entries[c].attempts >= MaxAttempts)
      /\ entries' = [entries EXCEPT ![c] = LeasedTo(entries[c], k)]
      /\ claimOf' = [claimOf EXCEPT ![k] = c]
      /\ UNCHANGED <<outcome, inserted, clock, started, lateWork, lost>>
  BY GateClaimEffect DEF ClaimChallenge, Resident
<1>3. pc[t] = "claim" /\ ~Holds(t) /\ token[t] = None
  BY DEF ClaimChallenge, Holds, ClaimsInHand
<1>4. /\ pc' = [pc EXCEPT ![t] = "execute"]
      /\ token' = [token EXCEPT ![t] = k]
      /\ UNCHANGED <<id, stamp, verdict>>
  BY DEF ClaimChallenge, Goto, arguments
<1>5. /\ OthersStay(t)
      /\ pc'[t] = "execute" /\ token'[t] = k /\ id'[t] = c
  BY <1>4 DEF CallsAreTyped, OthersStay
<1>6. entries' = [d \in Ids |-> entries'[d]]
  BY <1>1 DEF StoreKeepsShape
<1>7. /\ entries'[c].lease = k
      /\ entries'[c].attempts = entries[c].attempts + 1
      /\ entries'[c].expires = entries[c].expires
      /\ \A d \in Ids \ {c} : entries'[d] = entries[d]
  BY <1>1 DEF StoreKeepsShape, LeasedTo
<1>8. /\ claimOf'[k] = c
      /\ \A j \in Tokens \ {k} : claimOf'[j] = claimOf[j]
  BY <1>1 DEF StoreKeepsShape
<1>9. \A u \in Threads \ {t} : Holds(u) =>
          id[u] # c /\ token[u] \in Tokens \ {k} /\ id[u] \in Ids
  BY <1>1 DEF ClaimsInHand, Holds, CallsAreTyped, Resident
<1>10. /\ entries[c].attempts \in 0 .. MaxAttempts
       /\ entries[c].expires \in Times
       /\ c \in inserted
  BY <1>1 DEF StoreKeepsShape, Resident
<1>11. StoreKeepsShape'
  <2>1. claimOf' \in [Tokens -> Ids \union {None}]
    BY <1>1 DEF StoreKeepsShape
  <2>2. outcome' = [j \in Tokens |-> outcome'[j]]
    BY <1>1 DEF StoreKeepsShape
  <2>3. ASSUME NEW d \in Ids, entries'[d] # Absent
        PROVE  /\ d \in inserted'
               /\ entries'[d].attempts \in 0 .. MaxAttempts
               /\ entries'[d].expires \in Times
    <3>1. CASE d = c
      BY <1>1, <1>7, <1>10, <3>1
    <3>2. CASE d # c
      BY <1>1, <1>7, <2>3, <3>2 DEF StoreKeepsShape, Resident
    <3> QED
      BY <3>1, <3>2
  <2> QED
    BY <1>6, <2>1, <2>2, <2>3 DEF StoreKeepsShape, Resident
<1>12. TokensAreFresh'
  BY <1>1, <1>8, <1>10 DEF TokensAreFresh
<1>13. ClaimsInHand'
  <2> SUFFICES ASSUME NEW u \in Threads
      PROVE  IF Holds(u)'
             THEN /\ id'[u] \in Ids
                  /\ claimOf'[token'[u]] = id'[u]
                  /\ outcome'[token'[u]] = "Pending"
                  /\ id'[u] \in Resident(entries)' => entries'[id'[u]].lease = token'[u]
             ELSE token'[u] = None
    BY DEF ClaimsInHand
  <2>1. CASE u = t
    BY <1>1, <1>5, <1>7, <1>8, <2>1 DEF Holds, TokensAreFresh
  <2>2. CASE u # t
    BY <1>1, <1>5, <1>7, <1>8, <1>9, <2>2 DEF OthersStay, Holds, ClaimsInHand, Resident
  <2> QED
    BY <2>1, <2>2
<1>14. OneHolderPerChallenge'
  BY <1>5, <1>9 DEF OneHolderPerChallenge, OthersStay, Holds
<1>15. RefundedIsUnstarted'
  BY <1>1, <1>5 DEF RefundedIsUnstarted, OthersStay, TokensAreFresh
<1>16. LateStaysLate'
  <2> SUFFICES ASSUME NEW u \in Threads
      PROVE  /\ pc'[u] \in {"execute", "running"} => token'[u] \notin lateWork'
             /\ pc'[u] = "completeClock" /\ token'[u] \in lateWork' /\ id'[u] \in Resident(entries)'
                   => clock' >= entries'[id'[u]].expires
             /\ pc'[u] = "complete" /\ token'[u] \in lateWork' /\ id'[u] \in Resident(entries)'
                   => stamp'[u] >= entries'[id'[u]].expires
    BY DEF LateStaysLate, ExpiryOf
  <2>1. CASE u = t
    BY <1>1, <1>5, <2>1 DEF TokensAreFresh
  <2>2. CASE u # t
    BY <1>1, <1>5, <1>7, <1>9, <2>2 DEF LateStaysLate, OthersStay, Holds, ExpiryOf, Resident
  <2> QED
    BY <2>1, <2>2
<1>17. LateWorkIsNotAccepted'
  BY <1>1 DEF LateWorkIsNotAccepted
<1>18. NoOrphanedLease'
  <2> SUFFICES ASSUME NEW d \in Ids, entries'[d] # Absent, entries'[d].lease \notin lost' \union {None}
      PROVE  \E u \in Threads : token'[u] = entries'[d].lease /\ id'[u] = d
    BY DEF NoOrphanedLease, Resident
  <2>1. CASE d = c
    BY <1>5, <1>7, <2>1
  <2>2. CASE d # c
    <3>1. entries'[d] = entries[d]
      BY <1>7, <2>2
    <3>2. PICK u \in Threads : token[u] = entries[d].lease /\ id[u] = d
      BY <1>1, <3>1 DEF NoOrphanedLease, Resident
    <3> QED
      BY <1>5, <2>2, <3>1, <3>2 DEF OthersStay
  <2> QED
    BY <2>1, <2>2
<1>19. BudgetIsCounted'
  <2> SUFFICES ASSUME NEW d \in Ids
      PROVE  /\ IsFiniteSet(Charged(d)')
             /\ Cardinality(Charged(d)') <= IF d \in Resident(entries)'
                                            THEN entries'[d].attempts ELSE MaxAttempts
    BY DEF BudgetIsCounted
  <2>1. /\ IsFiniteSet(Charged(d)) /\ Cardinality(Charged(d)) \in Nat
        /\ d \in Resident(entries) => Cardinality(Charged(d)) <= entries[d].attempts
        /\ d \notin Resident(entries) => Cardinality(Charged(d)) <= MaxAttempts
    BY FS_CardinalityType DEF BudgetIsCounted
  <2>2. CASE d = c
    <3>1. Charged(d)' \subseteq Charged(d) \union {k}
      BY <1>1, <1>5, <1>8, <2>2 DEF Charged, OthersStay, Holds
    <3>2. /\ IsFiniteSet(Charged(d) \union {k})
          /\ Cardinality(Charged(d) \union {k}) \in {Cardinality(Charged(d)), Cardinality(Charged(d)) + 1}
      BY <2>1, FS_AddElement
    <3>3. /\ IsFiniteSet(Charged(d)')
          /\ Cardinality(Charged(d)') <= Cardinality(Charged(d) \union {k})
      BY <3>1, <3>2, FS_Subset
    <3>4. Cardinality(Charged(d)') \in Nat /\ Cardinality(Charged(d) \union {k}) \in Nat
      BY <3>2, <3>3, FS_CardinalityType
    <3>5. Cardinality(Charged(d)) <= entries[c].attempts
      BY <1>1, <2>1, <2>2 DEF Resident
    <3>6. Cardinality(Charged(d)') <= entries[c].attempts + 1 /\ entries[c].attempts + 1 <= MaxAttempts
      BY <1>1, <1>10, <2>1, <3>2, <3>3, <3>4, <3>5
    <3> QED
      BY <1>7, <1>10, <2>2, <3>3, <3>4, <3>6
  <2>3. CASE d # c
    <3>1. Charged(d)' \subseteq Charged(d)
      BY <1>1, <1>5, <1>8, <2>3 DEF Charged, OthersStay, Holds
    <3>2. /\ IsFiniteSet(Charged(d)') /\ Cardinality(Charged(d)') <= Cardinality(Charged(d))
          /\ Cardinality(Charged(d)') \in Nat
      BY <2>1, <3>1, FS_Subset, FS_CardinalityType
    <3>3. d \in Resident(entries) => entries[d].attempts \in 0 .. MaxAttempts
      BY DEF StoreKeepsShape
    <3> QED
      BY <1>7, <2>1, <2>3, <3>2, <3>3 DEF Resident
  <2> QED
    BY <2>2, <2>3
<1> QED
  BY <1>11, <1>12, <1>13, <1>14, <1>15, <1>16, <1>17, <1>18, <1>19

\* The claims in hand are of different challenges, hence different tokens.
LEMMA HoldersDiffer ==
    ASSUME CallsAreTyped, GateInv, NEW t \in Threads, Holds(t)
    PROVE  /\ token[t] \in Tokens /\ id[t] \in Ids
           /\ \A u \in Threads \ {t} : Holds(u) =>
                 token[u] # token[t] /\ id[u] # id[t] /\ token[u] \in Tokens
  BY DEF CallsAreTyped, GateInv, ClaimsInHand, OneHolderPerChallenge, Holds

\* From the claim to the completion a call moves alone: it marks its own token
\* only, and the store waits for its completion.
LEMMA WorkStep ==
    ASSUME CallsAreTyped, GateInv, NEW t \in Threads, Holds(t), Holds(t)', OthersStay(t),
           UNCHANGED <<entries, claimOf, outcome, inserted, clock, id, token, lost>>,
           started' \in {started, started \union {token[t]}},
           lateWork' \in {lateWork, lateWork \union {token[t]}},
           \/ pc'[t] = "execute"
           \/ pc'[t] \in {"completeClock", "complete"} /\ CompletionOf(verdict'[t]) = "InternalError"
           => token[t] \notin started',
           pc'[t] \in {"execute", "running"} => token[t] \notin lateWork',
           pc'[t] = "completeClock" /\ token[t] \in lateWork' /\ id[t] \in Resident(entries)
               => clock >= ExpiryOf(t),
           pc'[t] = "complete" /\ token[t] \in lateWork' /\ id[t] \in Resident(entries)
               => stamp'[t] >= ExpiryOf(t)
    PROVE  GateInv'
<1> USE DEF GateInv
<1>1. /\ token[t] \in Tokens /\ id[t] \in Ids
      /\ \A u \in Threads \ {t} : Holds(u) =>
            token[u] # token[t] /\ id[u] # id[t] /\ token[u] \in Tokens
  BY HoldersDiffer
<1>2. /\ \A u \in Threads : Holds(u)' <=> Holds(u)
      /\ entries' = entries /\ claimOf' = claimOf /\ outcome' = outcome
      /\ inserted' = inserted /\ clock' = clock /\ id' = id /\ token' = token /\ lost' = lost
  BY DEF OthersStay, Holds
<1>3. StoreKeepsShape'
  BY <1>2 DEF StoreKeepsShape, Resident
<1>4. TokensAreFresh'
  <2>1. claimOf[token[t]] # None
    BY <1>1, StoreAssumption, GateAssumption DEF ClaimsInHand
  <2> QED
    BY <1>1, <1>2, <2>1 DEF TokensAreFresh
<1>5. ClaimsInHand'
  BY <1>2 DEF ClaimsInHand, Resident
<1>6. OneHolderPerChallenge'
  BY <1>2 DEF OneHolderPerChallenge
<1>7. RefundedIsUnstarted'
  <2> SUFFICES ASSUME NEW u \in Threads,
                      \/ pc'[u] = "execute"
                      \/ /\ pc'[u] \in {"completeClock", "complete"}
                         /\ CompletionOf(verdict'[u]) = "InternalError"
      PROVE  token'[u] \notin started'
    BY DEF RefundedIsUnstarted, CompletionOf
  <2>1. CASE u = t
    BY <1>2, <2>1
  <2>2. CASE u # t
    <3>1. pc'[u] = pc[u] /\ verdict'[u] = verdict[u] /\ Holds(u)
      BY <2>2 DEF OthersStay, Holds
    <3>2. token[u] \notin started
      BY <3>1 DEF RefundedIsUnstarted
    <3> QED
      BY <1>1, <1>2, <2>2, <3>1, <3>2
  <2> QED
    BY <2>1, <2>2
<1>8. LateStaysLate'
  <2> SUFFICES ASSUME NEW u \in Threads
      PROVE  /\ pc'[u] \in {"execute", "running"} => token'[u] \notin lateWork'
             /\ pc'[u] = "completeClock" /\ token'[u] \in lateWork' /\ id'[u] \in Resident(entries)'
                   => clock' >= entries'[id'[u]].expires
             /\ pc'[u] = "complete" /\ token'[u] \in lateWork' /\ id'[u] \in Resident(entries)'
                   => stamp'[u] >= entries'[id'[u]].expires
    BY DEF LateStaysLate, ExpiryOf
  <2>1. CASE u = t
    BY <1>2, <2>1 DEF ExpiryOf, Resident
  <2>2. CASE u # t
    BY <1>1, <1>2, <2>2 DEF LateStaysLate, OthersStay, Holds, ExpiryOf, Resident
  <2> QED
    BY <2>1, <2>2
<1>9. LateWorkIsNotAccepted'
  <2>1. outcome[token[t]] = "Pending"
    BY DEF ClaimsInHand
  <2> QED
    BY <1>2, <2>1 DEF LateWorkIsNotAccepted
<1>10. NoOrphanedLease'
  BY <1>2 DEF NoOrphanedLease, Resident
<1>11. BudgetIsCounted'
  <2>1. ASSUME NEW c \in Ids PROVE Charged(c)' = Charged(c)
    <3>1. \A k \in Tokens :
              /\ (\E u \in Threads : Holds(u)' /\ token'[u] = k)
                    <=> (\E u \in Threads : Holds(u) /\ token[u] = k)
              /\ k \in started => k \in started'
              /\ k \in started' => k \in started \/ k = token[t]
      BY <1>2
    <3> QED
      BY <1>2, <3>1 DEF Charged
  <2> QED
    BY <1>2, <2>1 DEF BudgetIsCounted, Resident
<1> QED
  BY <1>3, <1>4, <1>5, <1>6, <1>7, <1>8, <1>9, <1>10, <1>11

\* The steps of execute_reserved are such steps.
LEMMA ExecutionStep ==
    ASSUME CallsAreTyped, CallsAreTyped', GateInv, NEW t \in Threads,
           \/ NoWorker(t) \/ StartWorker(t)
           \/ \E result \in WorkerVerdicts : FinishWorker(t, result)
    PROVE  GateInv'
<1> USE DEF CallsAreTyped
<1>1. /\ Holds(t)
      /\ pc[t] \in {"execute", "running"}
      /\ UNCHANGED <<entries, claimOf, outcome, inserted, clock, id, token, lost, stamp>>
  BY DEF NoWorker, StartWorker, FinishWorker, Holds, storeVars, host, arguments
<1>2. token[t] \notin lateWork
  BY <1>1 DEF GateInv, LateStaysLate
<1>3. ASSUME NEW result, ExecutionEnds(t, result)
      PROVE  /\ OthersStay(t)
             /\ pc'[t] = "completeClock" /\ verdict'[t] = result
             /\ lateWork' \in {lateWork, lateWork \union {token[t]}}
             /\ token[t] \in lateWork' => entries[id[t]] = Absent \/ clock >= ExpiryOf(t)
  BY <1>1, <1>2, <1>3 DEF ExecutionEnds, Goto, OthersStay
<1>4. CASE NoWorker(t)
  <2>1. PICK result : ExecutionEnds(t, result)
    BY <1>4 DEF NoWorker
  <2>2. pc[t] = "execute" /\ started' = started /\ token[t] \notin started
    BY <1>4 DEF NoWorker, GateInv, RefundedIsUnstarted
  <2>3. Holds(t)'
    BY <1>3, <2>1 DEF Holds
  <2> QED
    BY <1>1, <1>3, <2>1, <2>2, <2>3, WorkStep DEF Resident
<1>5. CASE StartWorker(t)
  <2>1. /\ started' = started \union {token[t]} /\ lateWork' = lateWork
        /\ OthersStay(t) /\ pc'[t] = "running"
    BY <1>1, <1>5 DEF StartWorker, Goto, OthersStay
  <2>2. Holds(t)'
    BY <2>1 DEF Holds
  <2> QED
    BY <1>1, <1>2, <2>1, <2>2, WorkStep
<1>6. CASE \E result \in WorkerVerdicts : FinishWorker(t, result)
  <2>1. PICK result \in WorkerVerdicts : FinishWorker(t, result)
    BY <1>6
  <2>2. ExecutionEnds(t, result) /\ started' = started
    BY <2>1 DEF FinishWorker
  <2>3. CompletionOf(result) # "InternalError"
    BY DEF WorkerVerdicts, CompletionOf
  <2>4. Holds(t)'
    BY <1>3, <2>2 DEF Holds
  <2> QED
    BY <1>1, <1>3, <2>2, <2>3, <2>4, WorkStep DEF Resident
<1> QED
  BY <1>4, <1>5, <1>6

\* A call that ends while it holds a claim leaves the store alone, its lease in
\* it, and the token among the lost ones.
LEMMA LostStep ==
    ASSUME CallsAreTyped, GateInv, NEW t \in Threads, Holds(t), Return(t, "Clock"),
           UNCHANGED <<entries, claimOf, outcome, inserted, clock, started, lateWork>>,
           lost' = lost \union {token[t]}
    PROVE  GateInv'
<1> USE DEF GateInv
<1>1. OthersStay(t) /\ pc'[t] = "idle" /\ token'[t] = None /\ ~Holds(t)'
  BY ReturnEffect DEF Holds
<1>2. \A u \in Threads : Holds(u)' => u # t /\ Holds(u)
  BY <1>1 DEF OthersStay, Holds
<1>3. StoreKeepsShape' /\ TokensAreFresh' /\ LateWorkIsNotAccepted'
  BY DEF StoreKeepsShape, TokensAreFresh, LateWorkIsNotAccepted, Resident
<1>4. ClaimsInHand'
  BY <1>1, <1>2 DEF ClaimsInHand, OthersStay, Holds, Resident
<1>5. OneHolderPerChallenge'
  BY <1>1, <1>2 DEF OneHolderPerChallenge, OthersStay
<1>6. RefundedIsUnstarted'
  BY <1>1, <1>2 DEF RefundedIsUnstarted, OthersStay, Holds
<1>7. LateStaysLate'
  BY <1>1, <1>2 DEF LateStaysLate, OthersStay, Holds, ExpiryOf, Resident
<1>8. NoOrphanedLease'
  <2> SUFFICES ASSUME NEW c \in Ids, entries[c] # Absent,
                      entries[c].lease \notin lost \union {token[t], None}
      PROVE  \E u \in Threads : token'[u] = entries[c].lease /\ id'[u] = c
    BY DEF NoOrphanedLease, Resident
  <2>1. PICK u \in Threads : token[u] = entries[c].lease /\ id[u] = c
    BY DEF NoOrphanedLease, Resident
  <2> QED
    BY <1>1, <2>1 DEF OthersStay
<1>9. BudgetIsCounted'
  <2>1. ASSUME NEW c \in Ids
        PROVE  /\ IsFiniteSet(Charged(c)')
               /\ Cardinality(Charged(c)') \in Nat /\ Cardinality(Charged(c)) \in Nat
               /\ Cardinality(Charged(c)') <= Cardinality(Charged(c))
    <3>1. Charged(c)' \subseteq Charged(c)
      BY <1>1, <1>2 DEF Charged, OthersStay
    <3> QED
      BY <3>1, FS_Subset, FS_CardinalityType DEF BudgetIsCounted
  <2>2. \A c \in Resident(entries) : entries[c].attempts \in 0 .. MaxAttempts
    BY DEF StoreKeepsShape
  <2> QED
    BY <2>1, <2>2, StoreAssumption, GateAssumption DEF BudgetIsCounted, Resident
<1> QED
  BY <1>3, <1>4, <1>5, <1>6, <1>7, <1>8, <1>9

\* The clock of the completion is read after the end of the execution.
LEMMA CompletionClockStep ==
    ASSUME CallsAreTyped, GateInv, NEW t \in Threads, ReadCompletionClock(t)
    PROVE  GateInv'
<1>1. /\ pc[t] = "completeClock" /\ Holds(t)
      /\ UNCHANGED <<entries, claimOf, outcome, inserted, clock, started, lateWork>>
  BY DEF ReadCompletionClock, Holds, storeVars, host
<1>2. CASE Return(t, "Clock") /\ lost' = lost \union {token[t]}
  BY <1>1, <1>2, LostStep
<1>3. CASE ReadClock(t) /\ Goto(t, "complete") /\ UNCHANGED <<permits, arguments, token, verdict, lost>>
  <2>1. /\ OthersStay(t)
        /\ pc'[t] = "complete" /\ stamp'[t] = clock /\ verdict'[t] = verdict[t]
        /\ UNCHANGED <<id, token, lost>>
    BY <1>3 DEF ReadClock, Goto, OthersStay, CallsAreTyped, arguments
  <2>2. Holds(t)'
    BY <2>1 DEF Holds
  <2>3. CompletionOf(verdict[t]) = "InternalError" => token[t] \notin started
    BY <1>1 DEF GateInv, RefundedIsUnstarted
  <2>4. token[t] \in lateWork /\ id[t] \in Resident(entries) => clock >= ExpiryOf(t)
    BY <1>1 DEF GateInv, LateStaysLate
  <2> QED
    BY <1>1, <2>1, <2>2, <2>3, <2>4, WorkStep
<1> QED
  BY <1>2, <1>3 DEF ReadCompletionClock

\* A clock that moves forward keeps late work late; one that steps back makes
\* the gate forget what was late, and nothing else.
LEMMA ClockStep ==
    ASSUME CallsAreTyped, CallsAreTyped', GateInv, Tick \/ StepBack \/ UNCHANGED vars
    PROVE  GateInv'
<1> USE DEF GateInv
<1>1. /\ UNCHANGED <<entries, claimOf, outcome, inserted, pc, id, stamp, token, verdict, started, lost>>
      /\ \/ clock' >= clock /\ lateWork' = lateWork
         \/ lateWork' = {}
  BY GateAssumption DEF Tick, StepBack, vars, storeVars, arguments, history, host, CallsAreTyped
<1>2. /\ StoreKeepsShape' /\ TokensAreFresh' /\ ClaimsInHand' /\ OneHolderPerChallenge'
      /\ RefundedIsUnstarted' /\ LateWorkIsNotAccepted' /\ NoOrphanedLease'
  BY <1>1 DEF StoreKeepsShape, TokensAreFresh, ClaimsInHand, OneHolderPerChallenge, Holds,
              RefundedIsUnstarted, LateWorkIsNotAccepted, NoOrphanedLease, Resident
<1>3. BudgetIsCounted'
  <2>1. \A c \in Ids : Charged(c)' = Charged(c)
    BY <1>1 DEF Charged, Holds
  <2> QED
    BY <1>1, <2>1 DEF BudgetIsCounted, Resident
<1>4. LateStaysLate'
  <2>1. CASE lateWork' = {}
    BY <2>1 DEF LateStaysLate
  <2>2. CASE clock' >= clock /\ lateWork' = lateWork
    <3>1. ASSUME NEW u \in Threads, id[u] \in Resident(entries), clock >= ExpiryOf(u)
          PROVE  clock' >= ExpiryOf(u)
      <4>1. ExpiryOf(u) \in Int /\ clock \in Int /\ clock' \in Int
        BY <3>1, StoreAssumption, GateAssumption DEF StoreKeepsShape, ExpiryOf, CallsAreTyped
      <4> QED
        BY <2>2, <3>1, <4>1
    <3> QED
      BY <1>1, <2>2, <3>1 DEF LateStaysLate, ExpiryOf, Resident
  <2> QED
    BY <1>1, <2>1, <2>2
<1> QED
  BY <1>2, <1>3, <1>4

\* A completion gives up the lease of its own claim, and refunds the attempt
\* only of a claim that started no worker.
LEMMA CompleteStep ==
    ASSUME CallsAreTyped, GateInv, NEW t \in Threads, CompleteClaim(t)
    PROVE  GateInv'
<1> USE DEF GateInv
<1> USE StoreAssumption, GateAssumption
<1>0. Holds(t)
  BY DEF CompleteClaim, Holds
<1> PICK c \in Ids : c = id[t]
  BY <1>0, HoldersDiffer
<1> PICK k \in Tokens : k = token[t]
  BY <1>0, HoldersDiffer
<1>1. /\ pc[t] = "complete" /\ Holds(t) /\ c = id[t] /\ k = token[t]
      /\ UNCHANGED <<clock, started, lateWork, lost>>
      /\ Complete(k, CompletionOf(verdict[t]), stamp[t])
      /\ Return(t, ResultOf(t, reply'))
  BY DEF CompleteClaim, Holds, host, history
<1>2. /\ k \in Tokens /\ c \in Ids /\ claimOf[k] = c /\ outcome[k] = "Pending"
      /\ stamp[t] \in Nat
      /\ \A u \in Threads \ {t} : Holds(u) =>
            token[u] # k /\ id[u] # c /\ token[u] \in Tokens
  BY <1>1, HoldersDiffer DEF ClaimsInHand, CallsAreTyped
<1>3. OthersStay(t) /\ pc'[t] = "idle" /\ token'[t] = None /\ ~Holds(t)'
  BY <1>1, ReturnEffect DEF Holds
<1>4. \A u \in Threads : Holds(u)' => u # t /\ Holds(u)
  BY <1>3 DEF OthersStay, Holds
<1>5. claimOf' = claimOf /\ inserted' = inserted
  BY <1>1, GateCompleteEffect
<1>6. \A d \in Ids \ {c} : entries'[d] = entries[d]
  BY <1>1, <1>2, GateCompleteEffect DEF StoreKeepsShape
<1>7. entries' = [d \in Ids |-> entries'[d]]
  BY <1>1, <1>2, GateCompleteEffect DEF StoreKeepsShape
<1>8. /\ outcome' = [j \in Tokens |-> outcome'[j]]
      /\ \A j \in Tokens \ {k} : outcome'[j] = outcome[j]
  BY <1>1, <1>2, GateCompleteEffect DEF StoreKeepsShape
<1>9. entries[c] = Absent => entries'[c] = Absent
  BY <1>1, <1>2, GateCompleteEffect
<1>10. entries[c] # Absent =>
           \E result \in {CompletionOf(verdict[t]), "Expired"} :
               /\ entries[c].expires <= stamp[t] => result = "Expired"
               /\ entries'[c] = Released(entries[c], result)
               /\ outcome'[k] = result
  <2> SUFFICES ASSUME entries[c] # Absent
      PROVE  \E result \in {CompletionOf(verdict[t]), "Expired"} :
               /\ entries[c].expires <= stamp[t] => result = "Expired"
               /\ entries'[c] = Released(entries[c], result)
               /\ outcome'[k] = result
    OBVIOUS
  <2>1. entries[c].lease = k
    BY <1>1 DEF ClaimsInHand, Resident
  <2>2. PICK result \in {CompletionOf(verdict[t]), "Expired"} :
            /\ entries[c].expires <= stamp[t] => result = "Expired"
            /\ entries' = [entries EXCEPT ![c] = Released(entries[c], result)]
            /\ outcome' = [outcome EXCEPT ![k] = result]
    BY <1>1, <1>2, <2>1, GateCompleteEffect
  <2> QED
    BY <2>2 DEF StoreKeepsShape
<1>11. entries[c] = Absent => outcome'[k] = "Pending"
  BY <1>1, <1>2, GateCompleteEffect
<1>12. \A d \in Ids : Charged(d)' \subseteq Charged(d)
  BY <1>1, <1>3, <1>4, <1>5 DEF Charged, OthersStay
<1>13. \A d \in Ids :
           /\ IsFiniteSet(Charged(d)) /\ IsFiniteSet(Charged(d)')
           /\ Cardinality(Charged(d)) \in Nat /\ Cardinality(Charged(d)') \in Nat
           /\ Cardinality(Charged(d)') <= Cardinality(Charged(d))
  BY <1>12, FS_Subset, FS_CardinalityType DEF BudgetIsCounted
<1>14. entries[c] # Absent =>
           /\ entries'[c].lease = None
           /\ entries'[c].expires = entries[c].expires
           /\ entries'[c].attempts \in 0 .. MaxAttempts
           /\ Cardinality(Charged(c)') <= entries'[c].attempts
  <2> SUFFICES ASSUME entries[c] # Absent
      PROVE  /\ entries'[c].lease = None
             /\ entries'[c].expires = entries[c].expires
             /\ entries'[c].attempts \in 0 .. MaxAttempts
             /\ Cardinality(Charged(c)') <= entries'[c].attempts
    OBVIOUS
  <2>1. PICK result \in {CompletionOf(verdict[t]), "Expired"} :
            entries'[c] = Released(entries[c], result)
    BY <1>10
  <2>2. /\ entries'[c].lease = None
        /\ entries'[c].expires = entries[c].expires
        /\ entries'[c].attempts = IF result = "InternalError" THEN entries[c].attempts - 1
                                                              ELSE entries[c].attempts
    BY <2>1 DEF Released, AttemptsAfter
  <2>3. /\ entries[c].attempts \in 0 .. MaxAttempts
        /\ Cardinality(Charged(c)) <= entries[c].attempts
    BY <1>2 DEF StoreKeepsShape, BudgetIsCounted, Resident
  <2>4. CASE result # "InternalError"
    BY <1>2, <1>13, <2>2, <2>3, <2>4
  <2>5. CASE result = "InternalError"
    <3>1. k \notin started
      BY <1>1, <2>1, <2>5 DEF RefundedIsUnstarted
    <3>2. k \in Charged(c)
      BY <1>1, <1>2 DEF Charged
    <3>3. k \notin Charged(c)'
      BY <1>1, <1>2, <1>3, <1>4, <3>1 DEF Charged, OthersStay
    <3>4. Charged(c)' \subseteq Charged(c) \ {k}
      BY <1>2, <1>12, <3>3
    <3>5. /\ IsFiniteSet(Charged(c) \ {k})
          /\ Cardinality(Charged(c) \ {k}) = Cardinality(Charged(c)) - 1
      BY <1>2, <1>13, <3>2, FS_RemoveElement
    <3>6. Cardinality(Charged(c)') <= Cardinality(Charged(c) \ {k})
      BY <3>4, <3>5, FS_Subset
    <3>7. Cardinality(Charged(c)') \in Nat /\ Cardinality(Charged(c)) \in Nat
      BY <1>2, <1>13
    <3> QED
      BY <2>2, <2>3, <2>5, <3>5, <3>6, <3>7
  <2> QED
    BY <2>4, <2>5
<1>15. StoreKeepsShape'
  <2>1. ASSUME NEW d \in Ids, entries'[d] # Absent
        PROVE  /\ d \in inserted'
               /\ entries'[d].attempts \in 0 .. MaxAttempts
               /\ entries'[d].expires \in Times
    <3>1. CASE d = c
      BY <1>5, <1>9, <1>14, <2>1, <3>1 DEF StoreKeepsShape, Resident
    <3>2. CASE d # c
      BY <1>5, <1>6, <2>1, <3>2 DEF StoreKeepsShape, Resident
    <3> QED
      BY <3>1, <3>2
  <2> QED
    BY <1>5, <1>7, <1>8, <2>1 DEF StoreKeepsShape, Resident
<1>16. TokensAreFresh'
  <2>1. claimOf[k] # None
    BY <1>2
  <2> QED
    BY <1>1, <1>5, <1>8, <2>1 DEF TokensAreFresh
<1>17. ClaimsInHand'
  <2> SUFFICES ASSUME NEW u \in Threads
      PROVE  IF Holds(u)'
             THEN /\ id'[u] \in Ids
                  /\ claimOf'[token'[u]] = id'[u]
                  /\ outcome'[token'[u]] = "Pending"
                  /\ id'[u] \in Resident(entries)' => entries'[id'[u]].lease = token'[u]
             ELSE token'[u] = None
    BY DEF ClaimsInHand
  <2>1. CASE u = t
    BY <1>3, <2>1
  <2>2. CASE u # t
    BY <1>2, <1>3, <1>5, <1>6, <1>8, <2>2 DEF OthersStay, ClaimsInHand, Holds, Resident
  <2> QED
    BY <2>1, <2>2
<1>18. OneHolderPerChallenge'
  BY <1>3, <1>4 DEF OneHolderPerChallenge, OthersStay
<1>19. RefundedIsUnstarted'
  BY <1>1, <1>3, <1>4 DEF RefundedIsUnstarted, OthersStay, Holds
<1>20. LateStaysLate'
  <2> SUFFICES ASSUME NEW u \in Threads, Holds(u)'
      PROVE  /\ pc'[u] \in {"execute", "running"} => token'[u] \notin lateWork'
             /\ pc'[u] = "completeClock" /\ token'[u] \in lateWork' /\ id'[u] \in Resident(entries)'
                   => clock' >= entries'[id'[u]].expires
             /\ pc'[u] = "complete" /\ token'[u] \in lateWork' /\ id'[u] \in Resident(entries)'
                   => stamp'[u] >= entries'[id'[u]].expires
    BY DEF LateStaysLate, Holds, ExpiryOf
  <2>1. /\ u # t /\ Holds(u) /\ id[u] # c /\ id[u] \in Ids
        /\ pc'[u] = pc[u] /\ id'[u] = id[u] /\ token'[u] = token[u] /\ stamp'[u] = stamp[u]
    BY <1>2, <1>3, <1>4 DEF OthersStay, ClaimsInHand
  <2> QED
    BY <1>1, <1>6, <2>1 DEF LateStaysLate, ExpiryOf, Resident
<1>21. LateWorkIsNotAccepted'
  <2>1. ASSUME k \in lateWork PROVE outcome'[k] # "Passed"
    <3>1. CASE entries[c] = Absent
      BY <1>11, <3>1
    <3>2. CASE entries[c] # Absent
      <4>1. stamp[t] >= entries[c].expires /\ entries[c].expires \in Nat
        BY <1>1, <1>2, <2>1, <3>2 DEF LateStaysLate, ExpiryOf, StoreKeepsShape, Resident
      <4> QED
        BY <1>2, <1>10, <3>2, <4>1
    <3> QED
      BY <3>1, <3>2
  <2> QED
    BY <1>1, <1>8, <2>1 DEF LateWorkIsNotAccepted, TokensAreFresh
<1>22. NoOrphanedLease'
  <2> SUFFICES ASSUME NEW d \in Ids, entries'[d] # Absent, entries'[d].lease \notin lost' \union {None}
      PROVE  \E u \in Threads : token'[u] = entries'[d].lease /\ id'[u] = d
    BY DEF NoOrphanedLease, Resident
  <2>1. d # c
    BY <1>9, <1>14
  <2>2. PICK u \in Threads : token[u] = entries[d].lease /\ id[u] = d
    BY <1>1, <1>6, <2>1 DEF NoOrphanedLease, Resident
  <2> QED
    BY <1>3, <1>6, <2>1, <2>2 DEF OthersStay
<1>23. BudgetIsCounted'
  <2> SUFFICES ASSUME NEW d \in Ids
      PROVE  /\ IsFiniteSet(Charged(d)')
             /\ Cardinality(Charged(d)') <= IF d \in Resident(entries)'
                                            THEN entries'[d].attempts ELSE MaxAttempts
    BY DEF BudgetIsCounted
  <2>1. d \in Resident(entries) => entries[d].attempts \in 0 .. MaxAttempts
    BY DEF StoreKeepsShape
  <2>2. CASE d = c /\ entries[c] # Absent
    BY <1>2, <1>13, <1>14, <2>2 DEF Resident
  <2>3. CASE d = c /\ entries[c] = Absent
    BY <1>2, <1>9, <1>13, <2>3 DEF BudgetIsCounted, Resident
  <2>4. CASE d # c
    BY <1>6, <1>13, <2>1, <2>4 DEF BudgetIsCounted, Resident
  <2> QED
    BY <2>2, <2>3, <2>4
<1> QED
  BY <1>15, <1>16, <1>17, <1>18, <1>19, <1>20, <1>21, <1>22, <1>23

\* Before the first call the store is empty and nobody holds anything.
LEMMA GateInitInv == Init => GateInv
<1> SUFFICES ASSUME Init PROVE GateInv
  OBVIOUS
<1> USE StoreAssumption, GateAssumption DEF Init, StoreInit
<1>1. /\ StoreKeepsShape /\ TokensAreFresh /\ ClaimsInHand /\ OneHolderPerChallenge
      /\ RefundedIsUnstarted /\ LateStaysLate /\ LateWorkIsNotAccepted /\ NoOrphanedLease
  BY DEF StoreKeepsShape, TokensAreFresh, ClaimsInHand, OneHolderPerChallenge, Holds,
         RefundedIsUnstarted, LateStaysLate, LateWorkIsNotAccepted, NoOrphanedLease, Resident
<1>2. \A c \in Ids : Charged(c) = {}
  BY DEF Charged, Holds
<1>3. BudgetIsCounted
  <2>1. IsFiniteSet({}) /\ Cardinality({}) = 0
    BY FS_EmptySet
  <2>2. Resident(entries) = {} /\ 0 <= MaxAttempts
    BY DEF Resident
  <2> QED
    BY <1>2, <2>1, <2>2 DEF BudgetIsCounted
<1> QED
  BY <1>1, <1>3 DEF GateInv

\* Every step of every call keeps the invariant.
LEMMA GateNextInv ==
    ASSUME CallsAreTyped, CallsAreTyped', GateInv, [Next]_vars
    PROVE  GateInv'
<1>1. ASSUME UNCHANGED <<entries, claimOf, outcome, inserted>> PROVE EntriesKept
  BY <1>1 DEF EntriesKept, GateInv, StoreKeepsShape
<1>2. ASSUME NEW t \in Threads, NEW result, Return(t, result), ~Holds(t),
             EntriesKept, UNCHANGED <<clock, history>>
      PROVE  GateInv'
  <2>1. OthersStay(t) /\ ~Holds(t)' /\ token'[t] = None
    BY <1>2, ReturnEffect DEF Holds
  <2> QED
    BY <1>2, <2>1, QuietStep
<1>3. ASSUME NEW t \in Threads, NEW label, Goto(t, label), ~Holds(t),
             label \in {"insert", "reserve", "claimClock", "claim"},
             UNCHANGED <<storeVars, host, token, verdict, history>>,
             \A u \in Threads \ {t} : id'[u] = id[u] /\ stamp'[u] = stamp[u]
      PROVE  GateInv'
  <2>1. OthersStay(t) /\ ~Holds(t)' /\ token'[t] = None
    BY <1>3 DEF Goto, OthersStay, Holds, CallsAreTyped, GateInv, ClaimsInHand
  <2>2. EntriesKept /\ UNCHANGED <<clock, history>>
    BY <1>1, <1>3 DEF storeVars, host
  <2> QED
    BY <1>3, <2>1, <2>2, QuietStep
<1>4. ASSUME NEW t \in Threads, Begin(t) PROVE GateInv'
  <2>1. ~Holds(t) /\ UNCHANGED <<storeVars, host, history>>
    BY <1>4 DEF Begin, IssueRefused, BeginIssue, VerifyRefused, BeginVerify, Holds
  <2>2. EntriesKept /\ UNCHANGED <<clock, history>>
    BY <1>1, <2>1 DEF storeVars, host
  <2>3. CASE \E result : Return(t, result)
    BY <1>2, <2>1, <2>2, <2>3
  <2>4. ASSUME NEW s, NEW c, BeginIssue(t, s, c) PROVE GateInv'
    <3>1. /\ Goto(t, "insert") /\ UNCHANGED <<token, verdict>>
          /\ \A u \in Threads \ {t} : id'[u] = id[u] /\ stamp'[u] = stamp[u]
      BY <2>4 DEF BeginIssue, ReadClock, CallsAreTyped
    <3> QED
      BY <1>3, <2>1, <3>1
  <2>5. ASSUME NEW s, NEW c, NEW text, BeginVerify(t, s, c, text) PROVE GateInv'
    <3>1. /\ Goto(t, "reserve") /\ UNCHANGED <<token, verdict>>
          /\ \A u \in Threads \ {t} : id'[u] = id[u] /\ stamp'[u] = stamp[u]
      BY <2>5 DEF BeginVerify, CallsAreTyped
    <3> QED
      BY <1>3, <2>1, <3>1
  <2> QED
    BY <1>4, <2>3, <2>4, <2>5 DEF Begin, IssueRefused, VerifyRefused
<1>5. ASSUME NEW t \in Threads, InsertChallenge(t) PROVE GateInv'
  <2>1. /\ pc[t] = "insert" /\ id[t] \in Ids /\ stamp[t] \in 0 .. MaxClock
        /\ Insert(id[t], scope[t], stamp[t] + Ttl, stamp[t])
        /\ Return(t, reply') /\ UNCHANGED <<clock, history>>
    BY <1>5 DEF InsertChallenge, CallsAreTyped, host
  <2>2. EntriesKept
    BY <2>1, InsertEffect DEF GateInv
  <2>3. ~Holds(t)
    BY <2>1 DEF Holds
  <2> QED
    BY <1>2, <2>1, <2>2, <2>3
<1>6. ASSUME NEW t \in Threads, ReserveGranted(t) \/ ReserveBusy(t) \/ ReadClaimClock(t)
      PROVE  GateInv'
  <2>1. ~Holds(t) /\ UNCHANGED <<storeVars, host, history>>
    BY <1>6 DEF ReserveGranted, ReserveBusy, ReadClaimClock, Holds
  <2>2. EntriesKept /\ UNCHANGED <<clock, history>>
    BY <1>1, <2>1 DEF storeVars, host
  <2>3. CASE \E result : Return(t, result)
    BY <1>2, <2>1, <2>2, <2>3
  <2>4. CASE ReserveGranted(t)
    BY <1>3, <2>1, <2>4 DEF ReserveGranted, arguments
  <2>5. CASE ReadClock(t) /\ Goto(t, "claim") /\ UNCHANGED <<permits, arguments, token, verdict>>
    <3>1. \A u \in Threads \ {t} : id'[u] = id[u] /\ stamp'[u] = stamp[u]
      BY <2>5 DEF ReadClock, arguments, CallsAreTyped
    <3> QED
      BY <1>3, <2>1, <2>5, <3>1
  <2> QED
    BY <1>6, <2>3, <2>4, <2>5 DEF ReserveBusy, ReadClaimClock
<1>7. ASSUME NEW t \in Threads, NEW k \in Tokens, ClaimChallenge(t, k) PROVE GateInv'
  <2>1. CASE reply' = "Ok"
    BY <1>7, <2>1, ClaimStep
  <2>2. CASE reply' # "Ok"
    <3>1. UNCHANGED <<entries, claimOf, outcome, inserted>>
      BY <1>7, <2>2, GateClaimEffect DEF ClaimChallenge
    <3>2. ~Holds(t) /\ Return(t, reply') /\ UNCHANGED <<clock, history>>
      BY <1>7, <2>2 DEF ClaimChallenge, Holds, host
    <3> QED
      BY <1>1, <1>2, <3>1, <3>2
  <2> QED
    BY <2>1, <2>2
<1>8. ASSUME NEW t \in Threads, ClaimFails(t) PROVE GateInv'
  <2>1. /\ ~Holds(t) /\ Return(t, reply') /\ UNCHANGED <<clock, history>>
        /\ UNCHANGED <<entries, claimOf, outcome, inserted>>
    BY <1>8, StoreAnswers DEF ClaimFails, Holds, host
  <2> QED
    BY <1>1, <1>2, <2>1
<1>9. ASSUME NEW t \in Threads,
             \/ NoWorker(t) \/ StartWorker(t)
             \/ \E result \in WorkerVerdicts : FinishWorker(t, result)
      PROVE  GateInv'
  BY <1>9, ExecutionStep
<1>10. ASSUME NEW t \in Threads, ReadCompletionClock(t) PROVE GateInv'
  BY <1>10, CompletionClockStep
<1>11. ASSUME NEW t \in Threads, CompleteClaim(t) PROVE GateInv'
  BY <1>11, CompleteStep
<1>12. CASE Tick \/ StepBack \/ UNCHANGED vars
  BY <1>12, ClockStep
<1> QED
  BY <1>4, <1>5, <1>6, <1>7, <1>8, <1>9, <1>10, <1>11, <1>12 DEF Next, Continue

\* The invariant holds in every state the Gate can be in.
LEMMA Invariant == Spec => [](CallsAreTyped /\ GateInv)
<1>1. CallsAreTyped /\ GateInv /\ [Next]_vars => CallsAreTyped' /\ GateInv'
  BY NextTyped, GateNextInv
<1> QED
  BY <1>1, InitTyped, GateInitInv, PTL DEF Spec

\* While one call executes a challenge no other does, for any number of callers
\* and whatever is evicted, expired or refunded meanwhile.
THEOREM OneExecution == Spec => []OneExecutionPerChallenge
<1>1. GateInv => OneExecutionPerChallenge
  BY DEF GateInv, OneHolderPerChallenge, OneExecutionPerChallenge, Holds
<1> QED
  BY <1>1, Invariant, PTL

\* No more worker processes are ever started for a challenge than it has
\* attempts, whatever is refunded: a refund is only given where none started.
THEOREM Budget == Spec => []ExecutionBudget
<1>1. ASSUME GateInv PROVE ExecutionBudget
  <2> SUFFICES ASSUME NEW c \in Ids
      PROVE  Cardinality({k \in started : claimOf[k] = c}) <= MaxAttempts
    BY DEF ExecutionBudget
  <2>1. {k \in started : claimOf[k] = c} \subseteq Charged(c)
    BY <1>1 DEF GateInv, TokensAreFresh, Charged
  <2>2. IsFiniteSet(Charged(c)) /\ Cardinality(Charged(c)) <= MaxAttempts
    <3>1. c \in Resident(entries) => entries[c].attempts \in 0 .. MaxAttempts
      BY <1>1 DEF GateInv, StoreKeepsShape
    <3> QED
      BY <1>1, <3>1, FS_CardinalityType, StoreAssumption, GateAssumption DEF GateInv, BudgetIsCounted
  <2>3. Cardinality({k \in started : claimOf[k] = c}) <= Cardinality(Charged(c))
    BY <2>1, <2>2, FS_Subset
  <2>4. /\ Cardinality({k \in started : claimOf[k] = c}) \in Nat
        /\ Cardinality(Charged(c)) \in Nat
    BY <2>1, <2>2, FS_Subset, FS_CardinalityType
  <2> QED
    BY <2>2, <2>3, <2>4, StoreAssumption, GateAssumption
<1> QED
  BY <1>1, Invariant, PTL

\* Work that ended after its challenge expired is never accepted, whichever of
\* expiry, eviction and completion comes first.
THEOREM LateWork == Spec => []LateWorkIsNotAccepted
<1>1. GateInv => LateWorkIsNotAccepted
  BY DEF GateInv
<1> QED
  BY <1>1, Invariant, PTL

\* Every lease in the store has a call on its way to give it up, or was lost by
\* a completion that could not read the clock.
THEOREM NoOrphan == Spec => []NoOrphanedLease
<1>1. GateInv => NoOrphanedLease
  BY DEF GateInv
<1> QED
  BY <1>1, Invariant, PTL

-----------------------------------------------------------------------------
\* Only a completion the store accepted is answered with Passed.
LEMMA PassedStep ==
    ASSUME CallsAreTyped, GateInv, [Next]_vars, ~UNCHANGED vars, NEW t \in Threads,
           answer' = <<t, "Passed">>
    PROVE  outcome'[token[t]] = "Passed"
<1>1. answer' # None
  BY AnswerAssumption DEF Answers, Verdicts, WorkerVerdicts
<1>2. ASSUME NEW u \in Threads, NEW result, Return(u, result) PROVE u = t /\ result = "Passed"
  BY <1>2 DEF Return
<1>3. ASSUME NEW u \in Threads, CompleteClaim(u) PROVE outcome'[token[t]] = "Passed"
  <2>1. u = t /\ ResultOf(t, reply') = "Passed" /\ Holds(t)
    BY <1>2, <1>3 DEF CompleteClaim, Holds
  <2>2. Complete(token[t], CompletionOf(verdict[t]), stamp[t])
    BY <1>3, <2>1 DEF CompleteClaim
  <2>3. reply' \in {"Ok", "NotFound", "StaleClaim", "Expired"}
    BY <2>2, GateCompleteEffect
  <2>4. reply' = "Ok" /\ CompletionOf(verdict[t]) = "Passed"
    BY <2>1, <2>3 DEF ResultOf, CompletionOf
  <2>5. outcome' = [outcome EXCEPT ![token[t]] = "Passed"]
    BY <2>2, <2>4, GateCompleteEffect
  <2> QED
    BY <2>1, <2>5, HoldersDiffer DEF GateInv, StoreKeepsShape
<1>4. ASSUME NEW u \in Threads, InsertChallenge(u) \/ ClaimFails(u) PROVE FALSE
  BY <1>2, <1>4, StoreAnswers DEF InsertChallenge, ClaimFails
<1>5. ASSUME NEW u \in Threads, NEW k \in Tokens, ClaimChallenge(u, k) PROVE FALSE
  <2>1. reply' # "Passed"
    BY <1>5, GateClaimEffect DEF ClaimChallenge
  <2> QED
    BY <1>1, <1>2, <1>5, <2>1 DEF ClaimChallenge, Goto
<1>6. ASSUME NEW u \in Threads, Begin(u) PROVE FALSE
  <2>1. ASSUME NEW s, NEW c, NEW text, VerifyRefused(u, s, c, text) PROVE FALSE
    BY <1>2, <2>1, StoreAnswers DEF VerifyRefused
  <2> QED
    BY <1>1, <1>2, <1>6, <2>1 DEF Begin, IssueRefused, BeginIssue, BeginVerify, Goto
<1>7. ASSUME NEW u \in Threads,
             \/ ReserveGranted(u) \/ ReserveBusy(u) \/ ReadClaimClock(u)
             \/ StartWorker(u) \/ ReadCompletionClock(u)
      PROVE  FALSE
  BY <1>1, <1>2, <1>7 DEF ReserveGranted, ReserveBusy, ReadClaimClock, StartWorker,
                          ReadCompletionClock, Goto
<1>8. ASSUME NEW u \in Threads, NoWorker(u) \/ (\E result : FinishWorker(u, result)) PROVE FALSE
  BY <1>1, <1>8 DEF NoWorker, FinishWorker, ExecutionEnds, Goto
<1>9. CASE Tick \/ StepBack
  BY <1>1, <1>9 DEF Tick, StepBack
<1> QED
  BY <1>3, <1>4, <1>5, <1>6, <1>7, <1>8, <1>9 DEF Next, Continue

\* For every caller and every moment, "Passed" is heard only when the store has
\* just accepted the claim of that very call.
THEOREM PassedIsAccepted == Spec => PassedMeansAccepted
<1>1. ASSUME CallsAreTyped, GateInv, [Next]_vars
      PROVE  [\A t \in Threads : answer' = <<t, "Passed">> => outcome'[token[t]] = "Passed"]_vars
  BY <1>1, PassedStep
<1> QED
  BY <1>1, Invariant, PTL DEF Spec, PassedMeansAccepted
=============================================================================
