--------------------------- MODULE OwnershipProofs ----------------------------
(***************************************************************************)
(* The reference counting discipline of Ownership is safe for any finite   *)
(* set of variables and any set of objects.                                *)
(***************************************************************************)
EXTENDS Ownership, FiniteSetTheorems, TLAPS

(***************************************************************************)
(* Giving variable v a new owner changes how many variables own q by what  *)
(* v gains and by what it loses.                                           *)
(***************************************************************************)
Holding(f, q) == {v \in Variable : f[v] = q}

LEMMA HoldingFinite ==
  ASSUME NEW f, NEW q
  PROVE  IsFiniteSet(Holding(f, q)) /\ Cardinality(Holding(f, q)) \in Nat
  <1>1. Holding(f, q) \in SUBSET Variable
    BY DEF Holding
  <1>2. IsFiniteSet(Holding(f, q))
    BY <1>1, VariablesFinite, FS_Subset
  <1> QED
    BY <1>2, FS_CardinalityType

LEMMA HoldingChange ==
  ASSUME NEW f, NEW v \in Variable, NEW n, NEW q,
         f = [w \in Variable |-> f[w]]
  PROVE  Cardinality(Holding([f EXCEPT ![v] = n], q)) =
           Cardinality(Holding(f, q)) + (IF n = q THEN 1 ELSE 0)
                                      - (IF f[v] = q THEN 1 ELSE 0)
  <1> DEFINE H == Holding(f, q)
             G == Holding([f EXCEPT ![v] = n], q)
  <1>0. IsFiniteSet(H) /\ Cardinality(H) \in Nat
    BY HoldingFinite
  <1>1. v \in H <=> f[v] = q
    BY DEF Holding
  <1>2. CASE n = q
    <2>1. G = H \cup {v}
      BY <1>2 DEF Holding
    <2>2. Cardinality(G) = IF v \in H THEN Cardinality(H) ELSE Cardinality(H) + 1
      BY <2>1, <1>0, FS_AddElement
    <2> QED
      BY <2>2, <1>0, <1>1, <1>2
  <1>3. CASE n # q
    <2>1. G = H \ {v}
      BY <1>3 DEF Holding
    <2>2. Cardinality(G) = IF v \in H THEN Cardinality(H) - 1 ELSE Cardinality(H)
      BY <2>1, <1>0, FS_RemoveElement
    <2> QED
      BY <2>2, <1>0, <1>1, <1>3
  <1> QED
    BY <1>2, <1>3

LEMMA OwnerChange ==
  ASSUME TypeOK, NEW v \in Variable, NEW n \in Object \cup {NoObject},
         owner' = [owner EXCEPT ![v] = n], NEW q \in Object
  PROVE  Cardinality(Owners(q)') =
           Cardinality(Owners(q)) + (IF n = q THEN 1 ELSE 0)
                                  - (IF owner[v] = q THEN 1 ELSE 0)
  <1>1. owner = [w \in Variable |-> owner[w]]
    BY DEF TypeOK
  <1>2. Cardinality(Holding([owner EXCEPT ![v] = n], q)) =
           Cardinality(Holding(owner, q)) + (IF n = q THEN 1 ELSE 0)
                                          - (IF owner[v] = q THEN 1 ELSE 0)
    BY <1>1, HoldingChange
  <1>3. Owners(q)' = Holding([owner EXCEPT ![v] = n], q) /\ Owners(q) = Holding(owner, q)
    BY DEF Owners, Holding
  <1> QED
    BY <1>2, <1>3

LEMMA OwnersIsHolding == \A o : Owners(o) = Holding(owner, o)
  BY DEF Owners, Holding

------------------------------------------------------------------------------
(***************************************************************************)
(* Every variable of the discipline keeps its type: in particular a        *)
(* counter never goes below zero, so ReferenceCounter never wraps around.  *)
(* That needs CountIsExact, which makes the invariant inductive.           *)
(***************************************************************************)
IInv == TypeOK /\ CountIsExact /\ OnlyLiveIsCounted

LEMMA InitIInv == Init => IInv
  <1> SUFFICES ASSUME Init PROVE IInv
    OBVIOUS
  <1>1. \A o \in Object : IsFiniteSet(Owners(o)) /\ Cardinality(Owners(o)) \in Nat
    BY HoldingFinite, OwnersIsHolding
  <1>2. TypeOK
    BY <1>1 DEF Init, TypeOK, Status
  <1>3. CountIsExact
    BY <1>1 DEF Init, CountIsExact
  <1>4. OnlyLiveIsCounted
    BY FS_EmptySet DEF Init, OnlyLiveIsCounted
  <1> QED
    BY <1>2, <1>3, <1>4 DEF IInv

(***************************************************************************)
(* What a variable owns is counted at least once.                          *)
(***************************************************************************)
LEMMA OwnedIsCounted ==
  ASSUME TypeOK, CountIsExact, NEW v \in Variable, owner[v] # NoObject
  PROVE  owner[v] \in Object /\ count[owner[v]] > 0
  <1>1. owner[v] \in Object
    BY DEF TypeOK
  <1>2. Owners(owner[v]) # {}
    BY DEF Owners
  <1>3. /\ IsFiniteSet(Owners(owner[v]))
        /\ Cardinality(Owners(owner[v])) \in Nat
    BY HoldingFinite, OwnersIsHolding
  <1>4. Cardinality(Owners(owner[v])) # 0
    BY <1>2, <1>3, FS_EmptySet
  <1> QED
    BY <1>1, <1>3, <1>4 DEF TypeOK, CountIsExact

LEMMA NextIInv == IInv /\ [Next]_vars => IInv'
  <1> SUFFICES ASSUME IInv, [Next]_vars PROVE IInv'
    OBVIOUS
  <1> USE DEF IInv
  <1>0. \A o \in Object : Cardinality(Owners(o)) \in Nat
    BY HoldingFinite, OwnersIsHolding
  <1>1. ASSUME NEW o \in Object, Create(o) PROVE IInv'
    <2>1. TypeOK'
      BY <1>1 DEF Create, TypeOK, Status
    <2>2. CountIsExact'
      BY <1>1 DEF Create, CountIsExact, Owners
    <2>3. OnlyLiveIsCounted'
      BY <1>1 DEF Create, OnlyLiveIsCounted, TypeOK
    <2> QED
      BY <2>1, <2>2, <2>3
  <1>2. ASSUME NEW o \in Object, Retain(o) PROVE IInv'
    <2>1. TypeOK'
      BY <1>2 DEF Retain, TypeOK
    <2>2. CountIsExact'
      <3>1. \A q \in Object : Owners(q)' = Owners(q)
        BY <1>2 DEF Retain, Owners
      <3> QED
        BY <1>2, <1>0, <3>1 DEF Retain, CountIsExact, TypeOK
    <2>3. OnlyLiveIsCounted'
      BY <1>2 DEF Retain, OnlyLiveIsCounted, TypeOK
    <2> QED
      BY <2>1, <2>2, <2>3
  <1>3. ASSUME NEW v \in Variable, Release(v) PROVE IInv'
    <2>1. owner[v] \in Object /\ count[owner[v]] > 0
      BY <1>3, OwnedIsCounted DEF Release
    <2>2. TypeOK'
      BY <1>3, <2>1 DEF Release, TypeOK, Status
    <2>3. ASSUME NEW q \in Object
          PROVE  Cardinality(Owners(q)') =
                   Cardinality(Owners(q)) - (IF owner[v] = q THEN 1 ELSE 0)
      <3>1. Cardinality(Owners(q)') =
              Cardinality(Owners(q)) + (IF NoObject = q THEN 1 ELSE 0)
                                     - (IF owner[v] = q THEN 1 ELSE 0)
        BY <1>3, OwnerChange DEF Release
      <3>2. NoObject # q
        BY NoObjectIsNone
      <3> QED
        BY <3>1, <3>2, <1>0, OwnersIsHolding
    <2>4. CountIsExact'
      BY <1>3, <1>0, <2>1, <2>3 DEF Release, CountIsExact, TypeOK
    <2>5. OnlyLiveIsCounted'
      BY <1>3, <2>1 DEF Release, OnlyLiveIsCounted, TypeOK
    <2> QED
      BY <2>2, <2>4, <2>5
  <1>4. ASSUME NEW v \in Variable, Abandon(v) PROVE IInv'
    <2>1. owner[v] \in Object
      BY <1>4 DEF Abandon, TypeOK
    <2>2. TypeOK'
      BY <1>4, <2>1 DEF Abandon, TypeOK
    <2>3. ASSUME NEW q \in Object
          PROVE  Cardinality(Owners(q)') =
                   Cardinality(Owners(q)) - (IF owner[v] = q THEN 1 ELSE 0)
      <3>1. Cardinality(Owners(q)') =
              Cardinality(Owners(q)) + (IF NoObject = q THEN 1 ELSE 0)
                                     - (IF owner[v] = q THEN 1 ELSE 0)
        BY <1>4, OwnerChange DEF Abandon
      <3>2. NoObject # q
        BY NoObjectIsNone
      <3> QED
        BY <3>1, <3>2, <1>0, OwnersIsHolding
    <2>4. CountIsExact'
      BY <1>4, <1>0, <2>1, <2>3 DEF Abandon, CountIsExact, TypeOK
    <2>5. OnlyLiveIsCounted'
      BY <1>4 DEF Abandon, OnlyLiveIsCounted
    <2> QED
      BY <2>2, <2>4, <2>5
  <1>5. ASSUME NEW v \in Variable, NEW o \in Object, Store(v, o) PROVE IInv'
    <2>1. TypeOK'
      <3>1. \A q \in Object :
              pending[q] + (IF owner[v] = q THEN 1 ELSE 0) - (IF q = o THEN 1 ELSE 0) \in Nat
        BY <1>5 DEF Store, TypeOK
      <3> QED
        BY <1>5, <3>1 DEF Store, TypeOK
    <2>2. ASSUME NEW q \in Object
          PROVE  Cardinality(Owners(q)') =
                   Cardinality(Owners(q)) + (IF o = q THEN 1 ELSE 0)
                                          - (IF owner[v] = q THEN 1 ELSE 0)
      BY <1>5, OwnerChange DEF Store
    <2>3. CountIsExact'
      BY <1>5, <1>0, <2>2 DEF Store, CountIsExact, TypeOK
    <2>4. OnlyLiveIsCounted'
      BY <1>5 DEF Store, OnlyLiveIsCounted
    <2> QED
      BY <2>1, <2>3, <2>4
  <1>6. CASE UNCHANGED vars
    BY <1>6 DEF vars, TypeOK, CountIsExact, OnlyLiveIsCounted, Owners
  <1> QED
    BY <1>1, <1>2, <1>3, <1>4, <1>5, <1>6 DEF Next

THEOREM Inductive == Spec => []IInv
  BY InitIInv, NextIInv, PTL DEF Spec

(***************************************************************************)
(* TypeOK always holds: the counter of ReferenceCounter.shtk, which would  *)
(* wrap around if it were decremented at zero, never is.                   *)
(***************************************************************************)
THEOREM TypeCorrect == Spec => []TypeOK
  <1>1. IInv => TypeOK
    BY DEF IInv
  <1> QED
    BY <1>1, Inductive, PTL

(***************************************************************************)
(* The counter is exactly the number of references, owned and pending.     *)
(***************************************************************************)
THEOREM CountsReferences == Spec => []CountIsExact
  <1>1. IInv => CountIsExact
    BY DEF IInv
  <1> QED
    BY <1>1, Inductive, PTL

(***************************************************************************)
(* No use after free: whatever the variables own is live.                  *)
(***************************************************************************)
THEOREM NoUseAfterFree == Spec => []OwnedIsLive
  <1>1. IInv => OwnedIsLive
    <2> SUFFICES ASSUME IInv, NEW v \in Variable, owner[v] # NoObject
                 PROVE  status[owner[v]] = "live"
      BY DEF OwnedIsLive
    <2>1. owner[v] \in Object /\ count[owner[v]] > 0
      BY OwnedIsCounted DEF IInv
    <2> QED
      BY <2>1 DEF IInv, OnlyLiveIsCounted, TypeOK
  <1> QED
    BY <1>1, Inductive, PTL

(***************************************************************************)
(* No double free and no resurrection: an object that is freed stays so.   *)
(***************************************************************************)
THEOREM FreedStaysFreed == Spec => FreedForGood
  <1> DEFINE Good == \A o \in Object : status[o] = "freed" => status'[o] = "freed"
  <1>1. IInv /\ [Next]_vars => [Good]_vars
    <2> SUFFICES ASSUME IInv, Next PROVE Good
      BY DEF vars
    <2>1. ASSUME NEW o \in Object, Create(o) \/ Retain(o) PROVE Good
      BY <2>1 DEF Create, Retain, IInv, TypeOK
    <2>2. ASSUME NEW v \in Variable, Release(v) \/ Abandon(v) PROVE Good
      BY <2>2 DEF Release, Abandon, IInv, TypeOK
    <2>3. ASSUME NEW v \in Variable, NEW o \in Object, Store(v, o) PROVE Good
      BY <2>3 DEF Store
    <2> QED
      BY <2>1, <2>2, <2>3 DEF Next
  <1> QED
    BY <1>1, Inductive, PTL DEF Spec, FreedForGood

==============================================================================
