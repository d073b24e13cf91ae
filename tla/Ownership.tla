------------------------------ MODULE Ownership ------------------------------
(***************************************************************************)
(* What reference counting promises, with no program in sight.             *)
(*                                                                         *)
(* stdlib/ReferenceCounter.shtk keeps one counter per shared object and    *)
(* leaves it to the hooks the compiler inserts (__beforeCopy__ and         *)
(* __deconstructor__) to call it at the right moments.  The design is that *)
(* the counter equals the number of variables that own the object; a value *)
(* that is only passing through (a call's result) is not counted.          *)
(*                                                                         *)
(* A reference that has been retained but is not yet (or never again) in   *)
(* an owning variable is pending.  FunctionBody shows that the code the    *)
(* compiler generates takes only these steps; OwnershipProofs proves what  *)
(* the steps guarantee for any number of variables and objects.            *)
(***************************************************************************)
EXTENDS Integers, FiniteSets

CONSTANTS
    Variable,    \* the storage that may own a reference
    Object,      \* the counted objects
    NoObject     \* what a variable that owns nothing owns

ASSUME VariablesFinite == IsFiniteSet(Variable)
ASSUME NoObjectIsNone == NoObject \notin Object

VARIABLES
    owner,       \* owner[v]: the object v owns a counted reference to
    pending,     \* pending[o]: retained references that no variable owns
    count,       \* count[o]: the value of o's ReferenceCounter
    status       \* status[o]: "unborn", "live" or "freed"

vars == <<owner, pending, count, status>>

Status == {"unborn", "live", "freed"}

TypeOK ==
    /\ owner \in [Variable -> Object \cup {NoObject}]
    /\ pending \in [Object -> Nat]
    /\ count \in [Object -> Nat]
    /\ status \in [Object -> Status]

Owners(o) == {v \in Variable : owner[v] = o}

(***************************************************************************)
(* A function starts with whatever its caller and the globals own.         *)
(***************************************************************************)
Init ==
    /\ owner \in [Variable -> Object \cup {NoObject}]
    /\ pending = [o \in Object |-> 0]
    /\ count = [o \in Object |-> Cardinality(Owners(o))]
    /\ status = [o \in Object |-> IF Owners(o) = {} THEN "unborn" ELSE "live"]

\* createCounter: a new object, owned by nobody, counted zero times.
Create(o) ==
    /\ status[o] = "unborn"
    /\ status' = [status EXCEPT ![o] = "live"]
    /\ UNCHANGED <<owner, pending, count>>

\* __beforeCopy__ on a live object: one more reference, still on its way.
Retain(o) ==
    /\ status[o] = "live"
    /\ count' = [count EXCEPT ![o] = @ + 1]
    /\ pending' = [pending EXCEPT ![o] = @ + 1]
    /\ UNCHANGED <<owner, status>>

\* Mutant: what the variable owned before is forgotten altogether.
Store_DropOld(v, o) ==
    /\ pending[o] > 0
    /\ owner' = [owner EXCEPT ![v] = o]
    /\ pending' = [pending EXCEPT ![o] = @ - 1]
    /\ UNCHANGED <<count, status>>

\* The copy itself: a retained reference arrives in a variable, and what the
\* variable still owned is lost.
Store(v, o) ==
    /\ pending[o] > 0
    /\ owner' = [owner EXCEPT ![v] = o]
    /\ pending' = [q \in Object |->
                     pending[q] + (IF owner[v] = q THEN 1 ELSE 0)
                                - (IF q = o THEN 1 ELSE 0)]
    /\ UNCHANGED <<count, status>>

\* Mutant: isZero compares the counter before it was decremented to one.
Release_Early(v) ==
    /\ owner[v] # NoObject
    /\ owner' = [owner EXCEPT ![v] = NoObject]
    /\ count' = [count EXCEPT ![owner[v]] = @ - 1]
    /\ status' = IF count[owner[v]] <= 2
                   THEN [status EXCEPT ![owner[v]] = "freed"]
                   ELSE status
    /\ UNCHANGED pending

\* __deconstructor__ on an owning variable; the last one frees the object.
Release(v) ==
    /\ owner[v] # NoObject
    /\ owner' = [owner EXCEPT ![v] = NoObject]
    /\ count' = [count EXCEPT ![owner[v]] = @ - 1]
    /\ status' = IF count[owner[v]] = 1
                   THEN [status EXCEPT ![owner[v]] = "freed"]
                   ELSE status
    /\ UNCHANGED pending

\* An owning variable forgets its reference without releasing it: a leak,
\* which is safe.
Abandon(v) ==
    /\ owner[v] # NoObject
    /\ owner' = [owner EXCEPT ![v] = NoObject]
    /\ pending' = [pending EXCEPT ![owner[v]] = @ + 1]
    /\ UNCHANGED <<count, status>>

Next ==
    \/ \E o \in Object : Create(o) \/ Retain(o)
    \/ \E v \in Variable : Release(v) \/ Abandon(v)
    \/ \E v \in Variable, o \in Object : Store(v, o)

Spec == Init /\ [][Next]_vars

------------------------------------------------------------------------------

(***************************************************************************)
(* The counter says how many references there are.                         *)
(***************************************************************************)
CountIsExact ==
    \A o \in Object : count[o] = Cardinality(Owners(o)) + pending[o]

(***************************************************************************)
(* Only a live object is counted.                                          *)
(***************************************************************************)
OnlyLiveIsCounted ==
    \A o \in Object : status[o] # "live" => count[o] = 0

(***************************************************************************)
(* No variable owns an object that has been freed or that does not exist:  *)
(* the absence of a use after free.                                        *)
(***************************************************************************)
OwnedIsLive ==
    \A v \in Variable : owner[v] # NoObject => status[owner[v]] = "live"

(***************************************************************************)
(* An object is freed at most once and never comes back.                   *)
(***************************************************************************)
FreedForGood ==
    [][\A o \in Object : status[o] = "freed" => status'[o] = "freed"]_vars

==============================================================================
