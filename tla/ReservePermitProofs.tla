------------------------- MODULE ReservePermitProofs -------------------------
(***************************************************************************)
(* Proofs about ReservePermit, for every set of callers and every limit.   *)
(***************************************************************************)
EXTENDS ReservePermit, FiniteSetTheorems, TLAPS

IndInv == TypeOK /\ NoPermitLost

\* The holders of permits are finitely many.
LEMMA HoldersFinite == IsFiniteSet(Holders) /\ Cardinality(Holders) \in Nat
<1>1. Holders \subseteq Threads
  BY DEF Holders
<1> QED
  BY <1>1, FS_Subset, FS_CardinalityType, PermitAssumption

\* A thread that takes a permit raises the number of holders by one.
LEMMA TakePermit ==
    ASSUME TypeOK, NEW t \in Threads, pc[t] # "holding", pc' = [pc EXCEPT ![t] = "holding"]
    PROVE  Cardinality(Holders') = Cardinality(Holders) + 1
<1>1. Holders' = Holders \union {t} /\ t \notin Holders
  BY DEF Holders, TypeOK
<1> QED
  BY <1>1, HoldersFinite, FS_AddElement

\* A thread that drops its permit lowers it by one.
LEMMA GivePermit ==
    ASSUME TypeOK, NEW t \in Threads, pc[t] = "holding", pc' = [pc EXCEPT ![t] = "idle"]
    PROVE  Cardinality(Holders') = Cardinality(Holders) - 1
<1>1. Holders' = Holders \ {t} /\ t \in Holders
  BY DEF Holders, TypeOK
<1> QED
  BY <1>1, HoldersFinite, FS_RemoveElement

\* Other moves of the program counter leave the holders alone.
LEMMA KeepPermits ==
    ASSUME TypeOK, NEW t \in Threads, pc[t] # "holding", NEW next \in {"idle", "loop"},
           pc' = [pc EXCEPT ![t] = next]
    PROVE  Holders' = Holders
  BY DEF Holders, TypeOK

\* The instance counts as this module does.
LEMMA SameCardinality == ASSUME NEW S PROVE Permits!Cardinality(S) = Cardinality(S)
  BY DEF Permits!Cardinality, Cardinality

\* With no permit out the counter is zero.
LEMMA InitInv == Init => IndInv
<1> SUFFICES ASSUME Init PROVE IndInv
  OBVIOUS
<1>1. TypeOK
  BY PermitAssumption DEF Init, TypeOK
<1>2. Holders = {}
  BY DEF Init, Holders
<1> QED
  BY <1>1, <1>2, FS_EmptySet DEF Init, IndInv, NoPermitLost

\* Every step of the loop, and every drop of a permit, keeps the counter exact.
LEMMA NextInv == IndInv /\ [Next]_vars => IndInv'
<1> SUFFICES ASSUME IndInv, [Next]_vars PROVE IndInv'
  OBVIOUS
<1> USE PermitAssumption DEF IndInv
<1>1. ASSUME NEW t \in Threads, Load(t) PROVE IndInv'
  <2>1. TypeOK'
    BY <1>1 DEF Load, TypeOK
  <2> QED
    BY <1>1, <2>1, KeepPermits DEF Load, NoPermitLost
<1>2. ASSUME NEW t \in Threads, GiveUp(t) PROVE IndInv'
  <2>1. TypeOK'
    BY <1>2 DEF GiveUp, TypeOK
  <2> QED
    BY <1>2, <2>1, KeepPermits DEF GiveUp, NoPermitLost
<1>3. ASSUME NEW t \in Threads, ExchangeSucceeds(t) PROVE IndInv'
  <2>1. TypeOK'
    BY <1>3 DEF ExchangeSucceeds, TypeOK
  <2> QED
    BY <1>3, <2>1, TakePermit DEF ExchangeSucceeds, NoPermitLost
<1>4. ASSUME NEW t \in Threads, ExchangeFails(t) PROVE IndInv'
  <2>1. TypeOK'
    BY <1>4 DEF ExchangeFails, TypeOK
  <2> QED
    BY <1>4, <2>1 DEF ExchangeFails, NoPermitLost, Holders
<1>5. ASSUME NEW t \in Threads, DropPermit(t) PROVE IndInv'
  <2>1. Cardinality(Holders') = active'
    BY <1>5, GivePermit DEF DropPermit, NoPermitLost
  <2>2. active # 0
    <3>1. t \in Holders /\ IsFiniteSet(Holders)
      BY <1>5, HoldersFinite DEF DropPermit, Holders
    <3> QED
      BY <3>1, FS_EmptySet DEF NoPermitLost
  <2>3. TypeOK'
    BY <1>5, <2>2 DEF DropPermit, TypeOK
  <2> QED
    BY <2>1, <2>3 DEF NoPermitLost
<1>6. CASE UNCHANGED vars
  BY <1>6 DEF vars, TypeOK, NoPermitLost, Holders
<1> QED
  BY <1>1, <1>2, <1>3, <1>4, <1>5, <1>6 DEF Next

\* The counter equals the number of permits out, and never passes the limit.
THEOREM PermitInvariant == Spec => [](TypeOK /\ NoPermitLost)
<1>1. IndInv => TypeOK /\ NoPermitLost
  BY DEF IndInv
<1> QED
  BY <1>1, InitInv, NextInv, PTL DEF Spec

\* The loop implements the semaphore.
THEOREM ReserveImplementsPermits == Spec => ImplementsPermits
<1>1. Init => Permits!Init
  BY DEF Init, Permits!Init, Status
<1>2. TypeOK /\ NoPermitLost /\ [Next]_vars
      => [Permits!Next]_([t \in Threads |-> Status(t)])
  <2> SUFFICES ASSUME TypeOK, NoPermitLost, [Next]_vars
               PROVE  Permits!Next \/ UNCHANGED [t \in Threads |-> Status(t)]
    OBVIOUS
  <2> USE PermitAssumption
  <2>1. Permits!HoldersOf([t \in Threads |-> Status(t)]) = Holders
    BY DEF Permits!HoldersOf, Holders, Status
  <2>2. ASSUME NEW t \in Threads, Load(t) \/ ExchangeFails(t)
        PROVE  Permits!Next \/ UNCHANGED [u \in Threads |-> Status(u)]
    <3>1. /\ Status(t) = "idle"
          /\ Status(t)' = (IF active = MaxParallel THEN "refused" ELSE "idle")
          /\ \A u \in Threads \ {t} : Status(u)' = Status(u)
      BY <2>2 DEF Load, ExchangeFails, Status, TypeOK
    <3>2. CASE active = MaxParallel
      <4>1. [u \in Threads |-> Status(u)]' =
              [[u \in Threads |-> Status(u)] EXCEPT ![t] = "refused"]
        BY <3>1, <3>2
      <4>2. Cardinality(Permits!HoldersOf([u \in Threads |-> Status(u)])) = MaxParallel
        BY <2>1, <3>2 DEF NoPermitLost
      <4>3. Permits!Refuse(t)
        BY <3>1, <4>1, <4>2, SameCardinality DEF Permits!Refuse
      <4> QED
        BY <4>3 DEF Permits!Next
    <3>3. CASE active # MaxParallel
      BY <3>1, <3>3
    <3> QED
      BY <3>2, <3>3
  <2>3. ASSUME NEW t \in Threads, GiveUp(t)
        PROVE  Permits!Return(t)
    BY <2>3 DEF GiveUp, Permits!Return, Status, TypeOK
  <2>4. ASSUME NEW t \in Threads, ExchangeSucceeds(t)
        PROVE  Permits!Acquire(t)
    <3>1. /\ Status(t) = "idle"
          /\ Status(t)' = "holding"
          /\ \A u \in Threads \ {t} : Status(u)' = Status(u)
          /\ active < MaxParallel
      BY <2>4 DEF ExchangeSucceeds, Status, TypeOK
    <3>2. [u \in Threads |-> Status(u)]' =
            [[u \in Threads |-> Status(u)] EXCEPT ![t] = "holding"]
      BY <3>1
    <3>3. Cardinality(Permits!HoldersOf([u \in Threads |-> Status(u)])) < MaxParallel
      BY <2>1, <3>1 DEF NoPermitLost
    <3> QED
      BY <3>1, <3>2, <3>3, SameCardinality DEF Permits!Acquire
  <2>5. ASSUME NEW t \in Threads, DropPermit(t)
        PROVE  Permits!Release(t)
    BY <2>5 DEF DropPermit, Permits!Release, Status, TypeOK
  <2>6. CASE UNCHANGED vars
    BY <2>6 DEF vars, Status
  <2> QED
    BY <2>2, <2>3, <2>4, <2>5, <2>6 DEF Next, Permits!Next
<1> QED
  BY <1>1, <1>2, PermitInvariant, PTL DEF Spec, ImplementsPermits, Permits!Spec
=============================================================================
