------------------------------ MODULE ListBuffer ------------------------------
(***************************************************************************)
(* stdlib/List.shtk over the block of heap memory it owns, for elements    *)
(* without resource management hooks.  One action is one method with every *)
(* method it calls: expand, _incrementLength, _validateIndex, setItem and  *)
(* the memcpy of RawPointerUtils.shtk, which is the C library's.           *)
(*                                                                         *)
(* The list has been created by list(items, length), so its pointer is not *)
(* null; malloc and realloc succeed.                                       *)
(***************************************************************************)
EXTENDS Integers, Sequences

CONSTANTS
    Value,         \* what a list can hold
    Array,         \* the arrays a list is made from and extended with
    MaxLength,     \* bound: operations that grow a list stop here
    OverlapSafe    \* does memcpy cope with overlapping blocks?

ASSUME ArraysAreSequences == Array \subseteq Seq(Value)
ASSUME OverlapSafeIsFlag == OverlapSafe \in BOOLEAN

VARIABLES
    block,         \* the memory _ptr points to, a function of its slots
    capacity,      \* _capacity
    length,        \* _length
    out,           \* the elements the last method returned, none for none()
    panicked,      \* a method called panic, which ends the program
    access         \* history: the slots the last method read or wrote

vars == <<block, capacity, length, out, panicked, access>>

Junk == "junk"     \* memory that was never written

Slots(n) == 0..(n - 1)
Contents == Value \cup {Junk}

\* realloc: the old contents, then memory that was never written.
realloc(n) ==
    [i \in Slots(n) |-> IF i \in DOMAIN block THEN block[i] ELSE Junk]

(***************************************************************************)
(* memcpy of n elements inside one block.  The C library promises nothing  *)
(* when the two ranges overlap: copying towards the overlap one element at *)
(* a time smears one element over the range (the ranges here are one slot  *)
(* apart).                                                                 *)
(***************************************************************************)
moved(m, dest, src, n) ==
    [i \in DOMAIN m |-> IF i - dest \in Slots(n) THEN m[i - dest + src] ELSE m[i]]

smeared(m, dest, src, n) ==
    [i \in DOMAIN m |-> IF i - dest \in Slots(n)
                          THEN m[IF dest > src THEN src ELSE src + n - 1] ELSE m[i]]

memcpy(m, dest, src, n) ==
    {moved(m, dest, src, n)} \cup (IF OverlapSafe THEN {} ELSE {smeared(m, dest, src, n)})

\* memcpy of a sequence that lies elsewhere.
memcpyFrom(m, dest, s) ==
    [i \in DOMAIN m |-> IF i - dest \in Slots(Len(s)) THEN s[i - dest + 1] ELSE m[i]]

Range(lo, n) == {lo + i : i \in Slots(n)}

------------------------------------------------------------------------------

\* list(items, length): allocateHeap takes 2 * length + 1 slots.
Init ==
    \E s \in Array :
      /\ capacity = 2 * Len(s) + 1
      /\ block = memcpyFrom([i \in Slots(2 * Len(s) + 1) |-> Junk], 0, s)
      /\ length = Len(s)
      /\ out = <<>>
      /\ panicked = FALSE
      /\ access = {}

Returns(value) == ~panicked /\ out' = value /\ UNCHANGED panicked

Panic ==
    /\ ~panicked /\ panicked' = TRUE
    /\ out' = <<>> /\ access' = {}
    /\ UNCHANGED <<block, capacity, length>>

\* A method that only reads.
Reads(slots, value) ==
    Returns(value) /\ access' = slots /\ UNCHANGED <<block, capacity, length>>

Valid(i) == i < length

_incrementLength ==
    /\ capacity' = IF length = capacity THEN length * 2 ELSE capacity
    /\ length' = length + 1

append(x) ==
    /\ length < MaxLength
    /\ _incrementLength
    /\ block' = [realloc(capacity') EXCEPT ![length] = x]
    /\ access' = {length}
    /\ Returns(<<>>)

\* Mutant: the copy starts one slot beyond the end.
appendArray_OneFurther(a) ==
    LET newLength == length + Len(a)
        room == IF newLength >= capacity THEN newLength * 2 ELSE capacity
    IN  /\ newLength <= MaxLength
        /\ capacity' = room
        /\ block' = memcpyFrom(realloc(room), length + 1, a)
        /\ length' = newLength
        /\ access' = Range(length, Len(a))
        /\ Returns(<<>>)

appendArray(a) ==
    LET newLength == length + Len(a)
        room == IF newLength >= capacity THEN newLength * 2 ELSE capacity
    IN  /\ newLength <= MaxLength
        /\ capacity' = room
        /\ block' = memcpyFrom(realloc(room), length, a)
        /\ length' = newLength
        /\ access' = Range(length, Len(a))
        /\ Returns(<<>>)

\* The tail moves down over the removed element.
remove(i) ==
    /\ \/ ~Valid(i) /\ Panic
       \/ /\ Valid(i)
          /\ length' = length - 1
          /\ block' \in memcpy(block, i, i + 1, length - 1 - i)
          /\ access' = Range(i, length - i)
          /\ Returns(<<block[i]>>)
          /\ UNCHANGED capacity

swapRemove(i) ==
    /\ \/ ~Valid(i) /\ Panic
       \/ /\ Valid(i)
          /\ block' = [block EXCEPT ![i] = block[length - 1]]
          /\ length' = length - 1
          /\ access' = {i, length - 1}
          /\ Returns(<<block[i]>>)
          /\ UNCHANGED capacity

setItem(i, x) ==
    /\ \/ ~Valid(i) /\ Panic
       \/ /\ Valid(i)
          /\ block' = [block EXCEPT ![i] = x]
          /\ access' = {i}
          /\ Returns(<<>>)
          /\ UNCHANGED <<capacity, length>>

\* Mutant: the tail that moves is counted with the new length.
insert_OneMore(i, x) ==
    /\ length < MaxLength
    /\ \/ ~Valid(i) /\ Panic
       \/ /\ Valid(i)
          /\ _incrementLength
          /\ \E m \in memcpy(realloc(capacity'), i + 1, i, length' - i) :
               block' = [m EXCEPT ![i] = x]
          /\ access' = Range(i, length' - i + 1)
          /\ Returns(<<>>)

\* The tail moves up to make room; an index equal to the length is refused.
insert(i, x) ==
    /\ length < MaxLength
    /\ \/ ~Valid(i) /\ Panic
       \/ /\ Valid(i)
          /\ _incrementLength
          /\ \E m \in memcpy(realloc(capacity'), i + 1, i, length' - i - 1) :
               block' = [m EXCEPT ![i] = x]
          /\ access' = Range(i, length' - i)
          /\ Returns(<<>>)

pop ==
    /\ \/ length = 0 /\ Reads({}, <<>>)
       \/ /\ length > 0
          /\ length' = length - 1
          /\ access' = {length - 1}
          /\ Returns(<<block[length - 1]>>)
          /\ UNCHANGED <<block, capacity>>

clear ==
    /\ length' = 0
    /\ access' = {} /\ Returns(<<>>)
    /\ UNCHANGED <<block, capacity>>

get(i) ==
    /\ IF i < length THEN Reads({i}, <<block[i]>>) ELSE Reads({}, <<>>)

last ==
    /\ IF length <= 0 THEN Reads({}, <<>>) ELSE Reads({length - 1}, <<block[length - 1]>>)

subscriptItem(i) ==
    /\ IF Valid(i) THEN Reads({i}, <<block[i]>>) ELSE Panic

\* A range makes a new list; only its elements matter here.
subscriptRange(i, j) ==
    /\ IF i > j \/ j > length
         THEN Panic
         ELSE Reads(Range(i, j - i), [k \in 1..(j - i) |-> block[i + k - 1]])

\* array::reverseInPlace swaps the slots pairwise from both ends.
reverse ==
    /\ block' = [i \in DOMAIN block |->
                   IF i \in Slots(length) THEN block[length - 1 - i] ELSE block[i]]
    /\ access' = Slots(length)
    /\ Returns(<<>>)
    /\ UNCHANGED <<capacity, length>>

Next ==
    \/ \E x \in Value : append(x)
    \/ \E a \in Array : appendArray(a)
    \/ \E i \in 0..length :
         \/ remove(i) \/ swapRemove(i) \/ subscriptItem(i) \/ get(i)
         \/ \E x \in Value : setItem(i, x) \/ insert(i, x)
         \/ \E j \in 0..(length + 1) : subscriptRange(i, j)
    \/ pop \/ clear \/ last \/ reverse

Spec == Init /\ [][Next]_vars

------------------------------------------------------------------------------

TypeOK ==
    /\ capacity \in Nat
    /\ length \in Nat
    /\ block \in [Slots(capacity) -> Contents]
    /\ access \subseteq Int
    /\ panicked \in BOOLEAN

(***************************************************************************)
(* The list fits its block, and a block is never empty: doubling a full    *)
(* block (expand(length * 2)) always makes room.                           *)
(***************************************************************************)
Fits == capacity > 0 /\ length <= capacity

(***************************************************************************)
(* No method reads or writes outside the block the list owns.              *)
(***************************************************************************)
InBounds == access \subseteq Slots(capacity)

(***************************************************************************)
(* Every element of the list was written: no junk from malloc or realloc   *)
(* becomes part of it.                                                     *)
(***************************************************************************)
Initialised == \A i \in Slots(length) : block[i] \in Value

items == [i \in 1..length |-> block[i - 1]]

(***************************************************************************)
(* The methods do to the memory what ListSpec says they do to a sequence.  *)
(***************************************************************************)
Abstract == INSTANCE ListSpec
ImplementsListSpec == Abstract!Spec

==============================================================================
