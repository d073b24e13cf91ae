--------------------------- MODULE ListBufferProofs ---------------------------
(***************************************************************************)
(* Whatever the elements, the arrays and the growth of a list: its methods *)
(* stay inside its block of memory and never make junk part of the list.   *)
(*                                                                         *)
(* The four invariants need each other: the slots a method touches lie in  *)
(* the block because the list fits it, an element is a value because the   *)
(* slots below the length were written, and the list keeps fitting because *)
(* a block that is never empty makes room when it is doubled.              *)
(*                                                                         *)
(* And what the methods do to the block is what ListSpec says they do to a *)
(* sequence, for a memcpy that copes with overlapping ranges; remove and   *)
(* insert are the only methods that need it to.                            *)
(***************************************************************************)
EXTENDS ListBuffer, TLAPS

IInv == TypeOK /\ Fits /\ Initialised /\ InBounds

(***************************************************************************)
(* The slots of a shorter stretch of memory lie in a longer one.           *)
(***************************************************************************)
LEMMA SlotsNest ==
    ASSUME NEW m \in Nat, NEW n \in Nat, m <= n
    PROVE  Slots(m) \subseteq Slots(n) /\ Slots(m) \subseteq Int
BY DEF Slots

(***************************************************************************)
(* realloc to a larger block keeps what the old one held.                  *)
(***************************************************************************)
LEMMA ReallocKeeps ==
    ASSUME TypeOK, NEW n \in Nat, capacity <= n
    PROVE  /\ realloc(n) \in [Slots(n) -> Contents]
           /\ \A i \in Slots(capacity) : realloc(n)[i] = block[i]
BY DEF TypeOK, realloc, Slots, Contents

(***************************************************************************)
(* Copying a sequence of values writes values where it writes at all.      *)
(***************************************************************************)
LEMMA CopyIn ==
    ASSUME NEW c \in Nat, NEW m \in [Slots(c) -> Contents],
           NEW dest \in Nat, NEW s \in Seq(Value)
    PROVE  /\ memcpyFrom(m, dest, s) \in [Slots(c) -> Contents]
           /\ \A i \in Slots(c) :
                \/ memcpyFrom(m, dest, s)[i] \in Value
                \/ /\ i - dest \notin Slots(Len(s))
                   /\ memcpyFrom(m, dest, s)[i] = m[i]
<1>1. \A i \in Slots(c) : i - dest \in Slots(Len(s)) => s[i - dest + 1] \in Value
  BY DEF Slots
<1>2. \A i \in Slots(c) : memcpyFrom(m, dest, s)[i] =
        IF i - dest \in Slots(Len(s)) THEN s[i - dest + 1] ELSE m[i]
  BY DEF memcpyFrom
<1>3. memcpyFrom(m, dest, s) \in [Slots(c) -> Contents]
  BY <1>1 DEF memcpyFrom, Contents
<1> QED
  BY <1>1, <1>2, <1>3

(***************************************************************************)
(* Moving values inside a block puts values in the destination and leaves  *)
(* the other slots alone, overlapping or not.                              *)
(***************************************************************************)
LEMMA MoveWithin ==
    ASSUME NEW c \in Nat, NEW m \in [Slots(c) -> Contents],
           NEW dest \in Nat, NEW src \in Nat, NEW n \in Nat,
           src + n <= c, \A i \in Slots(n) : m[src + i] \in Value,
           NEW r \in memcpy(m, dest, src, n)
    PROVE  /\ r \in [Slots(c) -> Contents]
           /\ \A i \in Slots(c) : IF i - dest \in Slots(n) THEN r[i] \in Value
                                                          ELSE r[i] = m[i]
<1>1. r = moved(m, dest, src, n) \/ r = smeared(m, dest, src, n)
  BY DEF memcpy
<1>2. CASE r = moved(m, dest, src, n)
  <2>1. \A i \in Slots(c) : i - dest \in Slots(n) => m[i - dest + src] \in Value
    <3> TAKE i \in Slots(c)
    <3> HAVE i - dest \in Slots(n)
    <3>1. m[src + (i - dest)] \in Value
      OBVIOUS
    <3>2. src + (i - dest) = i - dest + src
      BY DEF Slots
    <3> QED BY <3>1, <3>2
  <2> QED
    BY <1>2, <2>1 DEF moved, Contents
<1>3. CASE r = smeared(m, dest, src, n)
  <2>1. n > 0 => m[src] \in Value /\ m[src + n - 1] \in Value
    <3> HAVE n > 0
    <3>1. 0 \in Slots(n) /\ n - 1 \in Slots(n)
      BY DEF Slots
    <3>2. m[src + 0] \in Value /\ m[src + (n - 1)] \in Value
      BY <3>1
    <3>3. src + 0 = src /\ src + (n - 1) = src + n - 1
      OBVIOUS
    <3> QED BY <3>2, <3>3
  <2>2. \A i \in Slots(c) : i - dest \in Slots(n) => n > 0
    BY DEF Slots
  <2> QED
    BY <1>3, <2>1, <2>2 DEF smeared, Contents
<1> QED
  BY <1>1, <1>2, <1>3

------------------------------------------------------------------------------

LEMMA InitIInv == Init => IInv
<1> SUFFICES ASSUME NEW s \in Array,
                    capacity = 2 * Len(s) + 1,
                    block = memcpyFrom([i \in Slots(2 * Len(s) + 1) |-> Junk], 0, s),
                    length = Len(s), panicked = FALSE, access = {}
             PROVE  IInv
  BY DEF Init
<1>1. s \in Seq(Value) /\ Len(s) \in Nat
  BY ArraysAreSequences
<1>2. capacity \in Nat /\ capacity > 0 /\ length < capacity /\ length \in Nat
  BY <1>1
<1>3. [i \in Slots(capacity) |-> Junk] \in [Slots(capacity) -> Contents]
  BY DEF Contents
<1>4. /\ block \in [Slots(capacity) -> Contents]
      /\ \A i \in Slots(capacity) :
           block[i] \in Value \/ i - 0 \notin Slots(length)
  BY <1>1, <1>2, <1>3, CopyIn
<1>5. \A i \in Slots(length) : i \in Slots(capacity) /\ i - 0 \in Slots(length)
  BY <1>2 DEF Slots
<1>6. Initialised
  BY <1>4, <1>5 DEF Initialised
<1>7. TypeOK
  BY <1>2, <1>4 DEF TypeOK
<1> QED
  BY <1>2, <1>6, <1>7 DEF IInv, Fits, InBounds

(***************************************************************************)
(* A step that leaves the memory alone and touches slots of the list.      *)
(***************************************************************************)
LEMMA ReadsOnly ==
    ASSUME IInv, access' \subseteq Slots(length), panicked' \in BOOLEAN,
           UNCHANGED <<block, capacity, length>>
    PROVE  IInv'
<1>1. Slots(length) \subseteq Slots(capacity) /\ Slots(length) \subseteq Int
  BY SlotsNest DEF IInv, TypeOK, Fits
<1> QED
  BY <1>1 DEF IInv, TypeOK, Fits, Initialised, InBounds

(***************************************************************************)
(* A step that shrinks the list, touching only its old slots.              *)
(***************************************************************************)
LEMMA Shrinks ==
    ASSUME IInv, length' \in Nat, length' <= length, capacity' = capacity,
           block' \in [Slots(capacity) -> Contents],
           \A i \in Slots(length') : block'[i] \in Value,
           access' \subseteq Slots(length), panicked' \in BOOLEAN
    PROVE  IInv'
<1>1. Slots(length) \subseteq Slots(capacity) /\ Slots(length) \subseteq Int
  BY SlotsNest DEF IInv, TypeOK, Fits
<1> QED
  BY <1>1 DEF IInv, TypeOK, Fits, Initialised, InBounds

(***************************************************************************)
(* A step that moves to a block at least as large, in which the list fits. *)
(***************************************************************************)
LEMMA Grows ==
    ASSUME IInv, length' \in Nat, capacity' \in Nat, capacity' > 0,
           length' <= capacity',
           block' \in [Slots(capacity') -> Contents],
           \A i \in Slots(length') : block'[i] \in Value,
           access' \subseteq Slots(length'), panicked' \in BOOLEAN
    PROVE  IInv'
<1>1. Slots(length') \subseteq Slots(capacity') /\ Slots(length') \subseteq Int
  BY SlotsNest
<1> QED
  BY <1>1 DEF IInv, TypeOK, Fits, Initialised, InBounds

(***************************************************************************)
(* _incrementLength leaves room for one more element.                      *)
(***************************************************************************)
LEMMA OneMoreFits ==
    ASSUME IInv, _incrementLength
    PROVE  /\ capacity' \in Nat /\ capacity' > 0 /\ capacity <= capacity'
           /\ length' = length + 1 /\ length' <= capacity'
BY DEF IInv, TypeOK, Fits, _incrementLength

LEMMA AppendPreserves ==
    ASSUME IInv, NEW x \in Value, append(x)
    PROVE  IInv'
<1>1. /\ capacity' \in Nat /\ capacity' > 0 /\ capacity <= capacity'
      /\ length' = length + 1 /\ length' <= capacity' /\ length \in Nat
  BY OneMoreFits DEF append, IInv, TypeOK
<1>2. /\ realloc(capacity') \in [Slots(capacity') -> Contents]
      /\ \A i \in Slots(capacity) : realloc(capacity')[i] = block[i]
  BY <1>1, ReallocKeeps DEF IInv
<1>3. block' = [realloc(capacity') EXCEPT ![length] = x]
  BY DEF append
<1>4. block' \in [Slots(capacity') -> Contents]
  BY <1>2, <1>3 DEF Contents
<1>5. \A i \in Slots(length') : block'[i] \in Value
  <2> TAKE i \in Slots(length')
  <2>1. i \in Slots(capacity')
    BY <1>1, SlotsNest
  <2>2. i = length \/ i \in Slots(length)
    BY <1>1 DEF Slots
  <2>3. Slots(length) \subseteq Slots(capacity)
    BY SlotsNest DEF IInv, TypeOK, Fits
  <2> QED
    BY <2>1, <2>2, <2>3, <1>2, <1>3 DEF IInv, Initialised
<1>6. access' \subseteq Slots(length') /\ panicked' \in BOOLEAN
  BY <1>1 DEF append, Returns, Slots, IInv, TypeOK
<1> QED
  BY <1>1, <1>4, <1>5, <1>6, Grows

LEMMA AppendArrayPreserves ==
    ASSUME IInv, NEW a \in Array, appendArray(a)
    PROVE  IInv'
<1>1. a \in Seq(Value) /\ Len(a) \in Nat /\ length \in Nat
  BY ArraysAreSequences DEF IInv, TypeOK
<1>2. /\ length' = length + Len(a)
      /\ capacity' = IF length' >= capacity THEN length' * 2 ELSE capacity
      /\ block' = memcpyFrom(realloc(capacity'), length, a)
      /\ access' = Range(length, Len(a))
      /\ panicked' \in BOOLEAN
  BY DEF appendArray, Returns, IInv, TypeOK
<1>3. /\ capacity' \in Nat /\ capacity' > 0 /\ capacity <= capacity'
      /\ length' \in Nat /\ length' <= capacity'
  BY <1>1, <1>2 DEF IInv, TypeOK, Fits
<1>4. /\ realloc(capacity') \in [Slots(capacity') -> Contents]
      /\ \A i \in Slots(capacity) : realloc(capacity')[i] = block[i]
  BY <1>3, ReallocKeeps DEF IInv
<1>5. /\ block' \in [Slots(capacity') -> Contents]
      /\ \A i \in Slots(capacity') :
           \/ block'[i] \in Value
           \/ i - length \notin Slots(Len(a)) /\ block'[i] = realloc(capacity')[i]
  BY <1>1, <1>2, <1>3, <1>4, CopyIn
<1>6. \A i \in Slots(length') : block'[i] \in Value
  <2> TAKE i \in Slots(length')
  <2>1. /\ i \in Slots(capacity')
        /\ i - length \in Slots(Len(a)) \/ (i \in Slots(length) /\ i \in Slots(capacity))
    BY <1>1, <1>2, <1>3 DEF Slots, IInv, TypeOK, Fits
  <2> QED
    BY <2>1, <1>4, <1>5 DEF IInv, Initialised
<1>7. access' \subseteq Slots(length')
  BY <1>1, <1>2 DEF Range, Slots
<1> QED
  BY <1>2, <1>3, <1>5, <1>6, <1>7, Grows

LEMMA PanicPreserves == ASSUME IInv, Panic PROVE IInv'
<1>1. access' \subseteq Slots(length) /\ panicked' \in BOOLEAN
  BY DEF Panic
<1> QED
  BY <1>1, ReadsOnly DEF Panic

LEMMA RemovePreserves ==
    ASSUME IInv, NEW i \in Nat, remove(i)
    PROVE  IInv'
<1>1. CASE ~Valid(i) /\ Panic
  BY <1>1, PanicPreserves
<1>2. CASE Valid(i) /\ ~(~Valid(i) /\ Panic)
  <2>1. /\ i < length /\ length \in Nat /\ capacity \in Nat /\ length <= capacity
        /\ block \in [Slots(capacity) -> Contents]
    BY <1>2 DEF Valid, IInv, TypeOK, Fits
  <2>2. /\ length' = length - 1 /\ capacity' = capacity
        /\ block' \in memcpy(block, i, i + 1, length - 1 - i)
        /\ access' = Range(i, length - i)
        /\ panicked' \in BOOLEAN
    BY <1>2 DEF remove, Returns, IInv, TypeOK
  <2> DEFINE n == length - 1 - i
  <2>3. n \in Nat /\ i + 1 \in Nat /\ (i + 1) + n <= capacity
    BY <2>1
  <2>4. \A k \in Slots(n) : block[(i + 1) + k] \in Value
    <3> TAKE k \in Slots(n)
    <3>1. (i + 1) + k \in Slots(length)
      BY <2>1 DEF Slots
    <3> QED
      BY <3>1 DEF IInv, Initialised
  <2>5. /\ block' \in [Slots(capacity) -> Contents]
        /\ \A k \in Slots(capacity) : IF k - i \in Slots(n) THEN block'[k] \in Value
                                                          ELSE block'[k] = block[k]
    <3> HIDE DEF n
    <3>1. block' \in memcpy(block, i, i + 1, n)
      BY <2>2 DEF n
    <3> QED
      BY <3>1, <2>1, <2>3, <2>4, MoveWithin
  <2>6. \A k \in Slots(length') : block'[k] \in Value
    <3> TAKE k \in Slots(length')
    <3>1. k \in Slots(capacity) /\ k \in Slots(length)
      BY <2>1, <2>2 DEF Slots
    <3> QED
      BY <3>1, <2>5 DEF IInv, Initialised
  <2>7. access' \subseteq Slots(length)
    BY <2>1, <2>2 DEF Range, Slots
  <2>8. length' \in Nat /\ length' <= length
    BY <2>1, <2>2
  <2> QED
    BY <2>2, <2>5, <2>6, <2>7, <2>8, Shrinks
<1> QED
  BY <1>1, <1>2 DEF remove

LEMMA SwapRemovePreserves ==
    ASSUME IInv, NEW i \in Nat, swapRemove(i)
    PROVE  IInv'
<1>1. CASE ~Valid(i) /\ Panic
  BY <1>1, PanicPreserves
<1>2. CASE Valid(i) /\ ~(~Valid(i) /\ Panic)
  <2>1. /\ i < length /\ length \in Nat /\ capacity \in Nat /\ length <= capacity
        /\ block \in [Slots(capacity) -> Contents]
    BY <1>2 DEF Valid, IInv, TypeOK, Fits
  <2>2. /\ length' = length - 1 /\ capacity' = capacity
        /\ block' = [block EXCEPT ![i] = block[length - 1]]
        /\ access' = {i, length - 1}
        /\ panicked' \in BOOLEAN
    BY <1>2 DEF swapRemove, Returns, IInv, TypeOK
  <2>3. i \in Slots(length) /\ length - 1 \in Slots(length)
    BY <2>1 DEF Slots
  <2>4. block[length - 1] \in Value
    BY <2>3 DEF IInv, Initialised
  <2>5. block' \in [Slots(capacity) -> Contents]
    BY <2>1, <2>2, <2>4 DEF Contents
  <2>6. \A k \in Slots(length') : block'[k] \in Value
    <3> TAKE k \in Slots(length')
    <3>1. k \in Slots(capacity) /\ k \in Slots(length)
      BY <2>1, <2>2 DEF Slots
    <3> QED
      BY <3>1, <2>1, <2>2, <2>4 DEF IInv, Initialised
  <2>7. length' \in Nat /\ length' <= length /\ access' \subseteq Slots(length)
    BY <2>1, <2>2, <2>3
  <2> QED
    BY <2>2, <2>5, <2>6, <2>7, Shrinks
<1> QED
  BY <1>1, <1>2 DEF swapRemove

LEMMA SetItemPreserves ==
    ASSUME IInv, NEW i \in Nat, NEW x \in Value, setItem(i, x)
    PROVE  IInv'
<1>1. CASE ~Valid(i) /\ Panic
  BY <1>1, PanicPreserves
<1>2. CASE Valid(i) /\ ~(~Valid(i) /\ Panic)
  <2>1. /\ length \in Nat /\ capacity \in Nat /\ length <= capacity
        /\ block \in [Slots(capacity) -> Contents] /\ i \in Slots(length)
    BY <1>2 DEF Valid, IInv, TypeOK, Fits, Slots
  <2>2. /\ length' = length /\ capacity' = capacity
        /\ block' = [block EXCEPT ![i] = x]
        /\ access' = {i} /\ panicked' \in BOOLEAN
    BY <1>2 DEF setItem, Returns, IInv, TypeOK
  <2>3. block' \in [Slots(capacity) -> Contents]
    BY <2>1, <2>2 DEF Contents
  <2>4. \A k \in Slots(length') : block'[k] \in Value
    BY <2>1, <2>2, SlotsNest DEF IInv, Initialised
  <2> QED
    BY <2>1, <2>2, <2>3, <2>4, Shrinks
<1> QED
  BY <1>1, <1>2 DEF setItem

LEMMA InsertPreserves ==
    ASSUME IInv, NEW i \in Nat, NEW x \in Value, insert(i, x)
    PROVE  IInv'
<1>1. CASE ~Valid(i) /\ Panic
  BY <1>1, PanicPreserves
<1>2. CASE Valid(i) /\ ~(~Valid(i) /\ Panic)
  <2>1. /\ i < length /\ length \in Nat /\ capacity \in Nat /\ length <= capacity
        /\ capacity' \in Nat /\ capacity' > 0 /\ capacity <= capacity'
        /\ length' = length + 1 /\ length' <= capacity'
    BY <1>2, OneMoreFits DEF insert, Valid, IInv, TypeOK, Fits
  <2> DEFINE m == realloc(capacity')
             n == length' - i - 1
  <2>2. /\ m \in [Slots(capacity') -> Contents]
        /\ \A k \in Slots(capacity) : m[k] = block[k]
    BY <2>1, ReallocKeeps DEF IInv
  <2>3. PICK r \in memcpy(m, i + 1, i, n) : block' = [r EXCEPT ![i] = x]
    BY <1>2 DEF insert
  <2>4. n \in Nat /\ i + 1 \in Nat /\ i + n <= capacity'
    BY <2>1
  <2>5. \A k \in Slots(n) : m[i + k] \in Value
    <3> TAKE k \in Slots(n)
    <3>1. i + k \in Slots(length) /\ i + k \in Slots(capacity)
      BY <2>1 DEF Slots
    <3> QED
      BY <3>1, <2>2 DEF IInv, Initialised
  <2>6. /\ r \in [Slots(capacity') -> Contents]
        /\ \A k \in Slots(capacity') : IF k - (i + 1) \in Slots(n) THEN r[k] \in Value
                                                                 ELSE r[k] = m[k]
    <3> HIDE DEF m, n
    <3> QED
      BY <2>1, <2>2, <2>3, <2>4, <2>5, MoveWithin
  <2>7. block' \in [Slots(capacity') -> Contents]
    BY <2>3, <2>6 DEF Contents
  <2>8. \A k \in Slots(length') : block'[k] \in Value
    <3> TAKE k \in Slots(length')
    <3>1. k \in Slots(capacity')
      BY <2>1, SlotsNest
    <3>2. \/ k = i
          \/ k - (i + 1) \in Slots(n)
          \/ k - (i + 1) \notin Slots(n) /\ k \in Slots(length) /\ k \in Slots(capacity)
      BY <2>1 DEF Slots
    <3> QED
      BY <3>1, <3>2, <2>2, <2>3, <2>6 DEF IInv, Initialised
  <2>9. access' \subseteq Slots(length') /\ panicked' \in BOOLEAN
    BY <1>2, <2>1 DEF insert, Returns, Range, Slots, IInv, TypeOK
  <2> QED
    BY <2>1, <2>7, <2>8, <2>9, Grows
<1> QED
  BY <1>1, <1>2 DEF insert

LEMMA PopPreserves == ASSUME IInv, pop PROVE IInv'
<1>1. CASE length = 0 /\ Reads({}, <<>>)
  <2>1. access' \subseteq Slots(length) /\ panicked' \in BOOLEAN
    BY <1>1 DEF Reads, Returns, IInv, TypeOK
  <2> QED
    BY <1>1, <2>1, ReadsOnly DEF Reads
<1>2. CASE length > 0 /\ ~(length = 0 /\ Reads({}, <<>>))
  <2>1. /\ length' = length - 1 /\ capacity' = capacity /\ block' = block
        /\ access' = {length - 1} /\ panicked' \in BOOLEAN
    BY <1>2 DEF pop, Returns, IInv, TypeOK
  <2>2. length' \in Nat /\ length' <= length /\ length - 1 \in Slots(length)
    BY <1>2, <2>1 DEF IInv, TypeOK, Slots
  <2>3. Slots(length') \subseteq Slots(length)
    BY <2>2, SlotsNest DEF IInv, TypeOK
  <2>4. block' \in [Slots(capacity) -> Contents] /\ \A k \in Slots(length') : block'[k] \in Value
    BY <2>1, <2>3 DEF IInv, TypeOK, Initialised
  <2> QED
    BY <2>1, <2>2, <2>4, Shrinks
<1> QED
  BY <1>1, <1>2 DEF pop

LEMMA ClearPreserves == ASSUME IInv, clear PROVE IInv'
<1>1. /\ length' = 0 /\ capacity' = capacity /\ block' = block
      /\ access' = {} /\ panicked' \in BOOLEAN
  BY DEF clear, Returns, IInv, TypeOK
<1>2. Slots(length') = {}
  BY <1>1 DEF Slots
<1> QED
  BY <1>1, <1>2, Shrinks DEF IInv, TypeOK

LEMMA ReversePreserves == ASSUME IInv, reverse PROVE IInv'
<1>1. /\ length \in Nat /\ capacity \in Nat /\ length <= capacity
      /\ block \in [Slots(capacity) -> Contents]
  BY DEF IInv, TypeOK, Fits
<1>2. /\ length' = length /\ capacity' = capacity
      /\ block' = [i \in Slots(capacity) |->
                     IF i \in Slots(length) THEN block[length - 1 - i] ELSE block[i]]
      /\ access' = Slots(length) /\ panicked' \in BOOLEAN
  BY <1>1 DEF reverse, Returns, IInv, TypeOK
<1>3. \A i \in Slots(length) : length - 1 - i \in Slots(length)
  BY <1>1 DEF Slots
<1>4. \A i \in Slots(length) : block[length - 1 - i] \in Value
  BY <1>3 DEF IInv, Initialised
<1>5. block' \in [Slots(capacity) -> Contents]
  BY <1>1, <1>2, <1>4 DEF Contents
<1>6. \A i \in Slots(length') : block'[i] \in Value
  BY <1>1, <1>2, <1>4, SlotsNest
<1> QED
  BY <1>1, <1>2, <1>5, <1>6, Shrinks

(***************************************************************************)
(* The methods that only read.                                             *)
(***************************************************************************)
LEMMA QueriesPreserve ==
    ASSUME IInv, NEW i \in Nat, NEW j \in Nat,
           get(i) \/ last \/ subscriptItem(i) \/ subscriptRange(i, j)
    PROVE  IInv'
<1>1. ASSUME NEW S, NEW v, S \subseteq Slots(length), Reads(S, v) PROVE IInv'
  <2>1. access' \subseteq Slots(length) /\ panicked' \in BOOLEAN
    BY <1>1 DEF Reads, Returns, IInv, TypeOK
  <2> QED
    BY <1>1, <2>1, ReadsOnly DEF Reads
<1>2. length \in Nat
  BY DEF IInv, TypeOK
<1>3. CASE get(i)
  <2>1. i < length => {i} \subseteq Slots(length)
    BY <1>2 DEF Slots
  <2> QED
    BY <1>1, <1>3, <2>1 DEF get
<1>4. CASE last
  <2>1. ~(length <= 0) => {length - 1} \subseteq Slots(length)
    BY <1>2 DEF Slots
  <2> QED
    BY <1>1, <1>4, <2>1 DEF last
<1>5. CASE subscriptItem(i)
  <2>1. Valid(i) => {i} \subseteq Slots(length)
    BY <1>2 DEF Valid, Slots
  <2> QED
    BY <1>1, <1>5, <2>1, PanicPreserves DEF subscriptItem
<1>6. CASE subscriptRange(i, j)
  <2>1. ~(i > j \/ j > length) => Range(i, j - i) \subseteq Slots(length)
    BY <1>2 DEF Range, Slots
  <2> QED
    BY <1>1, <1>6, <2>1, PanicPreserves DEF subscriptRange
<1> QED
  BY <1>3, <1>4, <1>5, <1>6

------------------------------------------------------------------------------

LEMMA NextIInv == IInv /\ [Next]_vars => IInv'
<1> SUFFICES ASSUME IInv, [Next]_vars PROVE IInv'
  OBVIOUS
<1>1. \A i \in 0..length : i \in Nat
  BY DEF IInv, TypeOK
<1>2. \A j \in 0..(length + 1) : j \in Nat
  BY DEF IInv, TypeOK
<1>3. ASSUME NEW x \in Value, append(x) PROVE IInv'
  BY <1>3, AppendPreserves
<1>4. ASSUME NEW a \in Array, appendArray(a) PROVE IInv'
  BY <1>4, AppendArrayPreserves
<1>5. ASSUME NEW i \in 0..length, remove(i) \/ swapRemove(i) PROVE IInv'
  BY <1>1, <1>5, RemovePreserves, SwapRemovePreserves
<1>6. ASSUME NEW i \in 0..length, NEW x \in Value, setItem(i, x) \/ insert(i, x)
      PROVE  IInv'
  BY <1>1, <1>6, SetItemPreserves, InsertPreserves
<1>7. ASSUME NEW i \in 0..length, subscriptItem(i) \/ get(i) PROVE IInv'
  BY <1>1, <1>7, QueriesPreserve
<1>8. ASSUME NEW i \in 0..length, NEW j \in 0..(length + 1), subscriptRange(i, j)
      PROVE  IInv'
  BY <1>1, <1>2, <1>8, QueriesPreserve
<1>9. CASE last
  BY <1>9, QueriesPreserve
<1>10. CASE pop \/ clear \/ reverse
  BY <1>10, PopPreserves, ClearPreserves, ReversePreserves
<1>11. CASE UNCHANGED vars
  BY <1>11 DEF vars, IInv, TypeOK, Fits, Initialised, InBounds
<1> QED
  BY <1>3, <1>4, <1>5, <1>6, <1>7, <1>8, <1>9, <1>10, <1>11 DEF Next

THEOREM Inductive == Spec => []IInv
BY InitIInv, NextIInv, PTL DEF Spec

(***************************************************************************)
(* The fields of a list always describe a block of memory.                 *)
(***************************************************************************)
THEOREM TypeCorrect == Spec => []TypeOK
BY Inductive, PTL DEF IInv

(***************************************************************************)
(* A list always fits its block, which is never empty.                     *)
(***************************************************************************)
THEOREM ListFits == Spec => []Fits
BY Inductive, PTL DEF IInv

(***************************************************************************)
(* No method of a list touches memory outside its block, whether or not    *)
(* memcpy copes with overlapping ranges.                                   *)
(***************************************************************************)
THEOREM StaysInBounds == Spec => []InBounds
BY Inductive, PTL DEF IInv

(***************************************************************************)
(* No element of a list is memory that was never written.                  *)
(***************************************************************************)
THEOREM NoJunk == Spec => []Initialised
BY Inductive, PTL DEF IInv

------------------------------------------------------------------------------
(***************************************************************************)
(* The block implements the sequence of ListSpec.  A list's elements are   *)
(* the sequence that has its length and, slot by slot, its contents.       *)
(***************************************************************************)
itemsOf(b, n) == [k \in 1..n |-> b[k - 1]]

LEMMA ItemsIsItemsOf == items = itemsOf(block, length) /\ items' = itemsOf(block', length')
BY DEF items, itemsOf

LEMMA ItemsOfSequence ==
    ASSUME NEW b, NEW n \in Nat, \A i \in Slots(n) : b[i] \in Value
    PROVE  /\ itemsOf(b, n) \in Seq(Value) /\ Len(itemsOf(b, n)) = n
           /\ \A k \in 1..n : itemsOf(b, n)[k] = b[k - 1]
<1>1. \A k \in 1..n : k - 1 \in Slots(n)
  BY DEF Slots
<1> QED
  BY <1>1 DEF itemsOf

\* Two sequences with the same elements are equal.
LEMMA SameSequence ==
    ASSUME NEW s \in Seq(Value), NEW t \in Seq(Value), Len(s) = Len(t),
           \A k \in 1..Len(s) : s[k] = t[k]
    PROVE  s = t
OBVIOUS

\* What the elements are before and after a step.
LEMMA Items ==
    ASSUME IInv
    PROVE  /\ items \in Seq(Value) /\ Len(items) = length /\ length \in Nat
           /\ \A k \in 1..length : items[k] = block[k - 1]
BY ItemsIsItemsOf, ItemsOfSequence DEF IInv, TypeOK, Initialised

LEMMA ItemsNext ==
    ASSUME IInv', NEW s \in Seq(Value), Len(s) = length',
           \A k \in 1..Len(s) : s[k] = block'[k - 1]
    PROVE  items' = s
<1>1. length' \in Nat /\ \A i \in Slots(length') : block'[i] \in Value
  BY DEF IInv, TypeOK, Initialised
<1>2. /\ items' \in Seq(Value) /\ Len(items') = length'
      /\ \A k \in 1..length' : items'[k] = block'[k - 1]
  BY <1>1, ItemsIsItemsOf, ItemsOfSequence
<1> QED
  BY <1>2, SameSequence

LEMMA SameItems ==
    ASSUME UNCHANGED <<block, length>>
    PROVE  items' = items
BY ItemsIsItemsOf

(***************************************************************************)
(* What the operations on sequences return, element by element.            *)
(***************************************************************************)
LEMMA Stretch ==
    ASSUME NEW s \in Seq(Value), NEW m \in Nat \ {0}, NEW n \in Nat, m <= n + 1, n <= Len(s)
    PROVE  /\ SubSeq(s, m, n) \in Seq(Value) /\ Len(SubSeq(s, m, n)) = n - m + 1
           /\ \A k \in 1..(n - m + 1) : SubSeq(s, m, n)[k] = s[k + m - 1]
OBVIOUS

LEMMA RemovedSequence ==
    ASSUME NEW s \in Seq(Value), NEW n \in Nat, n = Len(s), NEW i \in 1..n
    PROVE  /\ Abstract!RemoveAt(s, i) \in Seq(Value)
           /\ Len(Abstract!RemoveAt(s, i)) = n - 1
           /\ \A k \in 1..(n - 1) :
                Abstract!RemoveAt(s, i)[k] = IF k < i THEN s[k] ELSE s[k + 1]
<1> DEFINE l == SubSeq(s, 1, i - 1)
           r == SubSeq(s, i + 1, n)
           c == l \o r
<1>1. l \in Seq(Value) /\ r \in Seq(Value) /\ Len(l) = i - 1 /\ Len(r) = n - i
  BY Stretch
<1>2. \A k \in 1..(i - 1) : l[k] = s[k]
  BY Stretch
<1>3. \A k \in 1..(n - i) : r[k] = s[k + i]
  BY Stretch
<1>4. Abstract!RemoveAt(s, i) = c
  BY DEF Abstract!RemoveAt
<1> HIDE DEF l, r
<1>5. c \in Seq(Value)
  BY <1>1
<1>6. Len(c) = n - 1
  BY <1>1, SMTT(30)
<1>7. ASSUME NEW k \in 1..(n - 1), k < i PROVE c[k] = s[k]
  <2>1. c[k] = l[k]
    BY <1>1, <1>7
  <2> HIDE DEF c
  <2> QED
    BY <1>2, <1>7, <2>1
<1>8. ASSUME NEW k \in 1..(n - 1), k >= i PROVE c[k] = s[k + 1]
  <2>1. c[k] = r[k - (i - 1)]
    BY <1>1, <1>8
  <2>2. k - (i - 1) \in 1..(n - i) /\ (k - (i - 1)) + i = k + 1
    BY <1>8
  <2>3. r[k - (i - 1)] = s[(k - (i - 1)) + i]
    BY <1>3, <2>2
  <2> HIDE DEF c
  <2> QED
    BY <2>1, <2>2, <2>3
<1> HIDE DEF c
<1> QED
  BY <1>4, <1>5, <1>6, <1>7, <1>8

LEMMA InsertedSequence ==
    ASSUME NEW s \in Seq(Value), NEW i \in 1..Len(s), NEW x \in Value
    PROVE  /\ Abstract!InsertAt(s, i, x) \in Seq(Value)
           /\ Len(Abstract!InsertAt(s, i, x)) = Len(s) + 1
           /\ \A k \in 1..(Len(s) + 1) :
                Abstract!InsertAt(s, i, x)[k] = IF k < i THEN s[k] ELSE IF k = i THEN x ELSE s[k - 1]
<1> PICK n \in Nat : n = Len(s)
  OBVIOUS
<1> DEFINE l == SubSeq(s, 1, i - 1)
           r == SubSeq(s, i, n)
           m == l \o <<x>>
           c == m \o r
<1>1. l \in Seq(Value) /\ r \in Seq(Value) /\ Len(l) = i - 1 /\ Len(r) = n - i + 1
  BY Stretch
<1>2. \A k \in 1..(i - 1) : l[k] = s[k]
  BY Stretch
<1>3. \A k \in 1..(n - i + 1) : r[k] = s[k + i - 1]
  BY Stretch
<1>4. Abstract!InsertAt(s, i, x) = c
  BY DEF Abstract!InsertAt
<1> HIDE DEF l, r
<1>5. m \in Seq(Value)
  BY <1>1
<1>10. Len(m) = i /\ m[i] = x
  BY <1>1
<1>11. r \in Seq(Value)
  BY <1>1
<1>6. ASSUME NEW k \in 1..n, k < i PROVE m[k] = l[k]
  BY <1>1, <1>6
<1> HIDE DEF m
<1>7. c \in Seq(Value)
  BY <1>5, <1>11
<1>8. Len(c) = n + 1
  <2>1. Len(c) = Len(m) + Len(r)
    BY <1>5, <1>11
  <2> HIDE DEF c
  <2> QED
    BY <1>1, <1>10, <2>1
<1>9. ASSUME NEW k \in 1..(n + 1)
      PROVE  c[k] = IF k < i THEN s[k] ELSE IF k = i THEN x ELSE s[k - 1]
  <2>1. k <= i => c[k] = m[k]
    BY <1>1, <1>5, <1>10
  <2>2. k > i => c[k] = r[k - i]
    BY <1>1, <1>5, <1>10
  <2> HIDE DEF c
  <2>3. CASE k < i
    BY <1>2, <1>6, <2>1, <2>3
  <2>4. CASE k = i
    BY <1>10, <2>1, <2>4
  <2>5. CASE k > i
    <3>1. k - i \in 1..(n - i + 1) /\ (k - i) + i - 1 = k - 1
      BY <2>5
    <3>2. r[k - i] = s[(k - i) + i - 1]
      BY <1>3, <3>1
    <3> QED
      BY <2>2, <2>5, <3>1, <3>2
  <2> QED
    BY <2>3, <2>4, <2>5
<1> HIDE DEF c
<1> QED
  BY <1>4, <1>7, <1>8, <1>9

LEMMA FrontSequence ==
    ASSUME NEW s \in Seq(Value), Len(s) > 0
    PROVE  /\ Abstract!Front(s) \in Seq(Value) /\ Len(Abstract!Front(s)) = Len(s) - 1
           /\ \A k \in 1..(Len(s) - 1) : Abstract!Front(s)[k] = s[k]
           /\ Abstract!Last(s) = s[Len(s)] /\ s[Len(s)] \in Value
<1> DEFINE n == Len(s) - 1
           f == SubSeq(s, 1, n)
<1>1. n \in Nat /\ n + 1 = Len(s) /\ s[Len(s)] \in Value /\ \A k \in 1..n : s[k] \in Value
  OBVIOUS
<1> HIDE DEF n
<1>2. f \in Seq(Value) /\ Len(f) = n /\ \A k \in 1..n : f[k] = s[k]
  BY <1>1
<1> HIDE DEF f
<1>3. Abstract!Front(s) = f /\ Abstract!Last(s) = s[Len(s)] /\ n = Len(s) - 1
  BY DEF Abstract!Front, Abstract!Last, f, n
<1> QED
  BY <1>1, <1>2, <1>3

LEMMA ReplacedSequence ==
    ASSUME NEW s \in Seq(Value), NEW i \in 1..Len(s), NEW x \in Value
    PROVE  /\ Abstract!ReplaceAt(s, i, x) \in Seq(Value)
           /\ Len(Abstract!ReplaceAt(s, i, x)) = Len(s)
           /\ \A k \in 1..Len(s) : Abstract!ReplaceAt(s, i, x)[k] = IF k = i THEN x ELSE s[k]
BY DEF Abstract!ReplaceAt

LEMMA ReversedSequence ==
    ASSUME NEW s \in Seq(Value)
    PROVE  /\ Abstract!Reverse(s) \in Seq(Value)
           /\ Len(Abstract!Reverse(s)) = Len(s)
           /\ \A k \in 1..Len(s) : Abstract!Reverse(s)[k] = s[Len(s) - k + 1]
BY DEF Abstract!Reverse

------------------------------------------------------------------------------
(***************************************************************************)
(* Every method does to the elements what ListSpec says, and returns what  *)
(* ListSpec says: one lemma per method.                                    *)
(***************************************************************************)
LEMMA AppendRefines ==
    ASSUME IInv, IInv', NEW x \in Value, append(x)
    PROVE  Abstract!append(x)
<1>1. /\ items \in Seq(Value) /\ Len(items) = length /\ length \in Nat
      /\ \A k \in 1..length : items[k] = block[k - 1]
  BY Items
<1>2. /\ capacity' \in Nat /\ capacity <= capacity' /\ length' = length + 1
      /\ length' <= capacity' /\ length <= capacity /\ capacity \in Nat
  BY OneMoreFits DEF append, IInv, TypeOK, Fits
<1>3. /\ realloc(capacity') \in [Slots(capacity') -> Contents]
      /\ \A i \in Slots(capacity) : realloc(capacity')[i] = block[i]
      /\ block' = [realloc(capacity') EXCEPT ![length] = x]
  BY <1>2, ReallocKeeps DEF append, IInv
<1> DEFINE s == Append(items, x)
<1>4. s \in Seq(Value) /\ Len(s) = length + 1
  BY <1>1
<1>5. s[length + 1] = x /\ \A k \in 1..length : s[k] = items[k]
  BY <1>1
<1> HIDE DEF s
<1>6. ASSUME NEW k \in 1..(length + 1) PROVE s[k] = block'[k - 1]
  <2>1. length \in Slots(capacity') /\ k - 1 \in Slots(capacity')
    <3>1. ASSUME NEW n \in Nat, length + 1 <= n PROVE length \in Slots(n) /\ k - 1 \in Slots(n)
      BY <1>1, <3>1 DEF Slots
    <3> QED
      BY <1>2, <3>1
  <2>2. CASE k = length + 1
    BY <1>1, <1>3, <1>5, <2>1, <2>2
  <2>3. CASE k # length + 1
    <3>1. k \in 1..length /\ k - 1 \in Slots(capacity) /\ k - 1 # length
      BY <1>1, <1>2, <2>3 DEF Slots
    <3> QED
      BY <1>1, <1>3, <1>5, <2>1, <3>1
  <2> QED
    BY <2>2, <2>3
<1>7. items' = s
  BY <1>2, <1>4, <1>6, ItemsNext
<1> QED
  BY <1>7 DEF s, append, Returns, Abstract!append, Abstract!Returns

LEMMA AppendArrayRefines ==
    ASSUME IInv, IInv', NEW a \in Array, appendArray(a)
    PROVE  Abstract!appendArray(a)
<1>1. /\ items \in Seq(Value) /\ Len(items) = length /\ length \in Nat
      /\ \A k \in 1..length : items[k] = block[k - 1]
  BY Items
<1>2. a \in Seq(Value) /\ Len(a) \in Nat
  BY ArraysAreSequences
<1> DEFINE newLength == length + Len(a)
           room == IF newLength >= capacity THEN newLength * 2 ELSE capacity
<1>3. /\ room \in Nat /\ capacity <= room /\ newLength <= room /\ length <= capacity /\ capacity \in Nat
      /\ length' = newLength /\ block' = memcpyFrom(realloc(room), length, a)
  BY <1>1, <1>2 DEF appendArray, IInv, TypeOK, Fits
<1> HIDE DEF room
<1>4. /\ realloc(room) \in [Slots(room) -> Contents]
      /\ \A i \in Slots(capacity) : realloc(room)[i] = block[i]
  BY <1>3, ReallocKeeps DEF IInv
<1>5. \A i \in Slots(room) :
        block'[i] = IF i - length \in Slots(Len(a)) THEN a[i - length + 1] ELSE realloc(room)[i]
  BY <1>3, <1>4 DEF memcpyFrom
<1> DEFINE s == items \o a
<1>6. s \in Seq(Value)
  BY <1>1, <1>2
<1>7. Len(s) = newLength
  BY <1>1, <1>2
<1>8. ASSUME NEW k \in 1..newLength PROVE s[k] = block'[k - 1]
  <2>1. CASE k <= length
    <3>1. k \in 1..length /\ k - 1 \in Slots(room) /\ k - 1 \in Slots(capacity)
          /\ (k - 1) - length \notin Slots(Len(a))
      BY <1>1, <1>2, <1>3, <2>1 DEF Slots
    <3>2. s[k] = items[k]
      BY <1>1, <1>2, <3>1
    <3> QED
      BY <1>1, <1>4, <1>5, <3>1, <3>2
  <2>2. CASE k > length
    <3>1. k - 1 \in Slots(room) /\ (k - 1) - length \in Slots(Len(a)) /\ (k - 1) - length + 1 = k - length
      BY <1>1, <1>2, <1>3, <2>2 DEF Slots
    <3>2. s[k] = a[k - length]
      BY <1>1, <1>2, <2>2
    <3> QED
      BY <1>5, <3>1, <3>2
  <2> QED
    BY <1>1, <2>1, <2>2
<1> HIDE DEF s
<1>9. items' = s
  BY <1>3, <1>6, <1>7, <1>8, ItemsNext
<1> QED
  BY <1>9 DEF s, appendArray, Returns, Abstract!appendArray, Abstract!Returns

\* A step that leaves the elements alone and returns what the sequence holds.
LEMMA PanicRefines == ASSUME Panic PROVE Abstract!Panic
BY SameItems DEF Panic, Abstract!Panic

LEMMA ReadsRefines ==
    ASSUME NEW S, NEW v, Reads(S, v)
    PROVE  UNCHANGED items /\ Abstract!Returns(v)
BY SameItems DEF Reads, Returns, Abstract!Returns

LEMMA SetItemRefines ==
    ASSUME IInv, IInv', NEW i \in 0..length, NEW x \in Value, setItem(i, x)
    PROVE  Abstract!setItem(i, x)
<1>1. /\ items \in Seq(Value) /\ Len(items) = length /\ length \in Nat
      /\ \A k \in 1..length : items[k] = block[k - 1]
  BY Items
<1>2. CASE ~Valid(i) /\ Panic
  BY <1>1, <1>2, PanicRefines DEF Valid, Abstract!setItem, Abstract!Checked
<1>3. CASE Valid(i)
  <2>1. /\ i < length /\ length' = length /\ block' = [block EXCEPT ![i] = x]
        /\ block \in [Slots(capacity) -> Contents] /\ length <= capacity /\ capacity \in Nat
    BY <1>3 DEF setItem, Valid, IInv, TypeOK, Fits
  <2> DEFINE s == Abstract!ReplaceAt(items, i + 1, x)
  <2>2. i + 1 \in 1..Len(items)
    BY <1>1, <2>1
  <2>3. /\ s \in Seq(Value) /\ Len(s) = length
        /\ \A k \in 1..length : s[k] = IF k = i + 1 THEN x ELSE items[k]
    <3>1. items \in Seq(Value) /\ Len(items) = length
      BY <1>1
    <3>2. /\ s \in Seq(Value) /\ Len(s) = Len(items)
          /\ \A k \in 1..Len(items) : s[k] = IF k = i + 1 THEN x ELSE items[k]
      BY <2>2, <3>1, ReplacedSequence, ZenonT(30)
    <3> QED
      BY <3>1, <3>2
  <2> HIDE DEF s
  <2>4. ASSUME NEW k \in 1..length PROVE s[k] = block'[k - 1]
    <3>1. k - 1 \in Slots(capacity) /\ (k = i + 1 <=> k - 1 = i)
      BY <1>1, <2>1 DEF Slots
    <3> QED
      BY <1>1, <2>1, <2>3, <3>1
  <2>5. items' = s
    BY <2>1, <2>3, <2>4, ItemsNext
  <2> QED
    BY <1>1, <1>3, <2>1, <2>5 DEF s, setItem, Returns, Abstract!setItem, Abstract!Checked, Abstract!Returns
<1> QED
  BY <1>2, <1>3 DEF setItem

LEMMA SwapRemoveRefines ==
    ASSUME IInv, IInv', NEW i \in 0..length, swapRemove(i)
    PROVE  Abstract!swapRemove(i)
<1>1. /\ items \in Seq(Value) /\ Len(items) = length /\ length \in Nat
      /\ \A k \in 1..length : items[k] = block[k - 1]
  BY Items
<1>2. CASE ~Valid(i) /\ Panic
  BY <1>1, <1>2, PanicRefines DEF Valid, Abstract!swapRemove, Abstract!Checked
<1>3. CASE Valid(i)
  <2>1. /\ i < length /\ length' = length - 1 /\ block' = [block EXCEPT ![i] = block[length - 1]]
        /\ block \in [Slots(capacity) -> Contents] /\ length <= capacity /\ capacity \in Nat
        /\ out' = <<block[i]>>
    BY <1>3 DEF swapRemove, Valid, IInv, TypeOK, Fits, Returns
  <2> DEFINE final == items[length]
             r == Abstract!ReplaceAt(items, i + 1, final)
             s == Abstract!Front(r)
  <2>2. i + 1 \in 1..Len(items) /\ length \in 1..length /\ final \in Value
    BY <1>1, <2>1
  <2> HIDE DEF final
  <2>3. /\ r \in Seq(Value) /\ Len(r) = length
        /\ \A k \in 1..length : r[k] = IF k = i + 1 THEN final ELSE items[k]
    <3>1. items \in Seq(Value) /\ Len(items) = length
      BY <1>1
    <3>2. /\ r \in Seq(Value) /\ Len(r) = Len(items)
          /\ \A k \in 1..Len(items) : r[k] = IF k = i + 1 THEN final ELSE items[k]
      BY <2>2, <3>1, ReplacedSequence, ZenonT(30)
    <3> QED
      BY <3>1, <3>2
  <2> HIDE DEF r
  <2>4. /\ s \in Seq(Value) /\ Len(s) = length - 1
        /\ \A k \in 1..(length - 1) : s[k] = r[k]
    <3>1. length \in Nat /\ length > 0
      BY <1>1, <2>2
    <3> QED
      BY <2>3, <3>1, FrontSequence
  <2> HIDE DEF s
  <2>5. ASSUME NEW k \in 1..(length - 1) PROVE s[k] = block'[k - 1]
    <3>1. /\ k - 1 \in Slots(capacity) /\ (k = i + 1 <=> k - 1 = i) /\ k \in 1..length
          /\ i \in Slots(capacity)
      BY <1>1, <2>1 DEF Slots
    <3>2. block'[k - 1] = IF k = i + 1 THEN block[length - 1] ELSE block[k - 1]
      BY <2>1, <3>1
    <3>3. final = block[length - 1]
      BY <1>1, <2>2 DEF final
    <3> QED
      BY <1>1, <2>3, <2>4, <3>1, <3>2, <3>3
  <2>6. items' = s
    BY <2>1, <2>4, <2>5, ItemsNext
  <2>7. items[i + 1] = block[i]
    BY <1>1, <2>1, <2>2
  <2>8. Abstract!Last(items) = items[length]
    BY <1>1 DEF Abstract!Last
  <2> QED
    BY <1>1, <1>3, <2>1, <2>6, <2>7, <2>8
       DEF final, r, s, swapRemove, Returns, Abstract!swapRemove, Abstract!Checked, Abstract!Returns
<1> QED
  BY <1>2, <1>3 DEF swapRemove

LEMMA PopRefines == ASSUME IInv, IInv', pop PROVE Abstract!pop
<1>1. /\ items \in Seq(Value) /\ Len(items) = length /\ length \in Nat
      /\ \A k \in 1..length : items[k] = block[k - 1]
  BY Items
<1>2. CASE length = 0
  <2>1. Reads({}, <<>>) /\ items = <<>>
    BY <1>1, <1>2 DEF pop
  <2> QED
    BY <2>1, ReadsRefines DEF Abstract!pop
<1>3. CASE length > 0
  <2>1. /\ length' = length - 1 /\ block' = block
        /\ out' = <<block[length - 1]>> /\ ~panicked /\ panicked' = panicked
    BY <1>3 DEF pop, Returns
  <2>2. items # <<>> /\ length \in 1..length
    BY <1>1, <1>3
  <2>3. /\ Abstract!Front(items) \in Seq(Value) /\ Len(Abstract!Front(items)) = length - 1
        /\ \A k \in 1..(length - 1) : Abstract!Front(items)[k] = items[k]
        /\ Abstract!Last(items) = items[length]
    BY <1>1, <1>3, FrontSequence
  <2>4. ASSUME NEW k \in 1..(length - 1) PROVE Abstract!Front(items)[k] = block'[k - 1]
    BY <1>1, <2>1, <2>3
  <2>5. items' = Abstract!Front(items)
    BY <2>1, <2>3, <2>4, ItemsNext
  <2> QED
    BY <1>1, <2>1, <2>2, <2>3, <2>5 DEF Abstract!pop, Abstract!Returns
<1>4. length \in Nat
  BY <1>1
<1> QED
  BY <1>2, <1>3, <1>4

LEMMA ClearRefines == ASSUME IInv, IInv', clear PROVE Abstract!clear
<1>1. length' = 0
  BY DEF clear
<1>2. <<>> \in Seq(Value) /\ Len(<<>>) = 0 /\ \A k \in 1..Len(<<>>) : <<>>[k] = block'[k - 1]
  OBVIOUS
<1>3. items' = <<>>
  BY <1>1, <1>2, ItemsNext
<1> QED
  BY <1>3 DEF clear, Returns, Abstract!clear, Abstract!Returns

LEMMA ReverseRefines == ASSUME IInv, IInv', reverse PROVE Abstract!reverse
<1>1. /\ items \in Seq(Value) /\ Len(items) = length /\ length \in Nat
      /\ \A k \in 1..length : items[k] = block[k - 1]
  BY Items
<1>2. /\ length' = length /\ capacity \in Nat /\ length <= capacity
      /\ block \in [Slots(capacity) -> Contents]
      /\ block' = [i \in DOMAIN block |-> IF i \in Slots(length) THEN block[length - 1 - i] ELSE block[i]]
  BY DEF reverse, IInv, TypeOK, Fits
<1> DEFINE s == Abstract!Reverse(items)
<1>3. s \in Seq(Value) /\ Len(s) = length /\ \A k \in 1..length : s[k] = items[length - k + 1]
  BY <1>1, ReversedSequence
<1> HIDE DEF s
<1>4. ASSUME NEW k \in 1..length PROVE s[k] = block'[k - 1]
  <2>1. k - 1 \in Slots(capacity) /\ k - 1 \in Slots(length)
    BY <1>1, <1>2 DEF Slots
  <2>2. block'[k - 1] = block[length - 1 - (k - 1)]
    BY <1>2, <2>1
  <2>3. length - k + 1 \in 1..length /\ (length - k + 1) - 1 = length - 1 - (k - 1)
    BY <1>1
  <2> QED
    BY <1>1, <1>3, <2>2, <2>3
<1>5. items' = s
  BY <1>2, <1>3, <1>4, ItemsNext
<1> QED
  BY <1>5 DEF s, reverse, Returns, Abstract!reverse, Abstract!Returns

(***************************************************************************)
(* The two methods that move the tail inside the block do what ListSpec    *)
(* says when memcpy copies as if through a second buffer.                  *)
(***************************************************************************)
LEMMA RemoveRefines ==
    ASSUME OverlapSafe, IInv, IInv', NEW i \in 0..length, remove(i)
    PROVE  Abstract!remove(i)
<1>1. /\ items \in Seq(Value) /\ Len(items) = length /\ length \in Nat
      /\ \A k \in 1..length : items[k] = block[k - 1]
  BY Items
<1>2. CASE ~Valid(i) /\ Panic
  BY <1>1, <1>2, PanicRefines DEF Valid, Abstract!remove, Abstract!Checked
<1>3. CASE Valid(i)
  <2>1. /\ i < length /\ length' = length - 1
        /\ block' = moved(block, i, i + 1, length - 1 - i)
        /\ block \in [Slots(capacity) -> Contents] /\ length <= capacity /\ capacity \in Nat
    BY <1>3 DEF remove, memcpy, Valid, IInv, TypeOK, Fits
  <2> DEFINE s == Abstract!RemoveAt(items, i + 1)
  <2>2. i + 1 \in 1..length
    BY <1>1, <2>1
  <2>3. /\ s \in Seq(Value) /\ Len(s) = length - 1
        /\ \A k \in 1..(length - 1) : s[k] = IF k < i + 1 THEN items[k] ELSE items[k + 1]
    <3>1. items \in Seq(Value) /\ Len(items) = length /\ length \in Nat
      BY <1>1
    <3> QED
      BY <2>2, <3>1, RemovedSequence
  <2> HIDE DEF s
  <2>4. ASSUME NEW k \in 1..(length - 1) PROVE s[k] = block'[k - 1]
    <3>1. k - 1 \in Slots(capacity) /\ k \in 1..length /\ k + 1 \in 1..length /\ (k + 1) - 1 = k
      BY <1>1, <2>1 DEF Slots
    <3>2. block'[k - 1] = IF (k - 1) - i \in Slots(length - 1 - i)
                            THEN block[(k - 1) - i + (i + 1)] ELSE block[k - 1]
      BY <2>1, <3>1 DEF moved
    <3>3. ((k - 1) - i \in Slots(length - 1 - i)) <=> ~(k < i + 1)
      BY <1>1, <2>1 DEF Slots
    <3>4. (k - 1) - i + (i + 1) = k
      OBVIOUS
    <3>5. block'[k - 1] = IF k < i + 1 THEN block[k - 1] ELSE block[k]
      BY <3>2, <3>3, <3>4
    <3>6. items[k] = block[k - 1] /\ items[k + 1] = block[k]
      BY <1>1, <3>1
    <3> QED
      BY <2>3, <3>5, <3>6
  <2>5. items' = s
    BY <2>1, <2>3, <2>4, ItemsNext
  <2>6. items[i + 1] = block[i]
    BY <1>1, <2>1, <2>2
  <2> QED
    BY <1>1, <1>3, <2>1, <2>5, <2>6
       DEF s, remove, Returns, Abstract!remove, Abstract!Checked, Abstract!Returns
<1> QED
  BY <1>2, <1>3 DEF remove

LEMMA InsertRefines ==
    ASSUME OverlapSafe, IInv, IInv', NEW i \in 0..length, NEW x \in Value, insert(i, x)
    PROVE  Abstract!insert(i, x)
<1>1. /\ items \in Seq(Value) /\ Len(items) = length /\ length \in Nat
      /\ \A k \in 1..length : items[k] = block[k - 1]
  BY Items
<1>2. CASE ~Valid(i) /\ Panic
  BY <1>1, <1>2, PanicRefines DEF Valid, Abstract!insert, Abstract!Checked
<1>3. CASE Valid(i)
  <2>1. i < length /\ _incrementLength
    BY <1>3 DEF insert, Valid, Panic
  <2>2. /\ capacity' \in Nat /\ capacity <= capacity' /\ length' = length + 1
        /\ length' <= capacity' /\ length <= capacity /\ capacity \in Nat
    BY <2>1, OneMoreFits DEF IInv, TypeOK, Fits
  <2> DEFINE old == realloc(capacity')
  <2>3. /\ old \in [Slots(capacity') -> Contents]
        /\ \A k \in Slots(capacity) : old[k] = block[k]
    BY <2>2, ReallocKeeps DEF IInv
  <2>4. block' = [moved(old, i + 1, i, length' - i - 1) EXCEPT ![i] = x]
    BY <1>3 DEF insert, memcpy, Valid
  <2> HIDE DEF old
  <2> DEFINE s == Abstract!InsertAt(items, i + 1, x)
  <2>5. i + 1 \in 1..length
    BY <1>1, <2>1
  <2>6. /\ s \in Seq(Value) /\ Len(s) = length + 1
        /\ \A k \in 1..(length + 1) :
             s[k] = IF k < i + 1 THEN items[k] ELSE IF k = i + 1 THEN x ELSE items[k - 1]
    <3>1. items \in Seq(Value) /\ Len(items) = length /\ length \in Nat
      BY <1>1
    <3>2. /\ s \in Seq(Value) /\ Len(s) = Len(items) + 1
          /\ \A k \in 1..(Len(items) + 1) :
               s[k] = IF k < i + 1 THEN items[k] ELSE IF k = i + 1 THEN x ELSE items[k - 1]
      BY <2>5, <3>1, InsertedSequence, ZenonT(30)
    <3> QED
      BY <3>1, <3>2
  <2> HIDE DEF s
  <2>7. ASSUME NEW k \in 1..(length + 1) PROVE s[k] = block'[k - 1]
    <3> DEFINE b == moved(old, i + 1, i, length' - i - 1)
    <3>1. k - 1 \in Slots(capacity') /\ i \in Slots(capacity')
      <4>1. ASSUME NEW n \in Nat, length + 1 <= n PROVE k - 1 \in Slots(n) /\ i \in Slots(n)
        BY <1>1, <2>1, <4>1 DEF Slots
      <4> QED
        BY <2>2, <4>1
    <3>2. b[k - 1] = IF (k - 1) - (i + 1) \in Slots(length' - i - 1)
                       THEN old[(k - 1) - (i + 1) + i] ELSE old[k - 1]
      BY <2>3, <3>1 DEF moved
    <3>3. block'[k - 1] = IF k - 1 = i THEN x ELSE b[k - 1]
      <4>1. DOMAIN b = Slots(capacity')
        BY <2>3 DEF moved
      <4> HIDE DEF b
      <4> QED
        BY <2>4, <3>1, <4>1 DEF b
    <3> HIDE DEF b
    <3>4. CASE k < i + 1
      <4>1. /\ k - 1 # i /\ (k - 1) - (i + 1) \notin Slots(length' - i - 1)
            /\ k \in 1..length /\ k - 1 \in Slots(capacity)
        BY <1>1, <2>1, <2>2, <3>4 DEF Slots
      <4> QED
        BY <1>1, <2>3, <2>6, <3>2, <3>3, <3>4, <4>1
    <3>5. CASE k = i + 1
      BY <2>6, <3>3, <3>5
    <3>6. CASE k > i + 1
      <4>1. /\ k - 1 # i /\ k - 1 \in 1..length /\ k - 2 \in Slots(capacity)
            /\ (k - 1) - (i + 1) + i = k - 2 /\ (k - 1) - 1 = k - 2
        BY <1>1, <2>1, <2>2, <3>6 DEF Slots
      <4>2. (k - 1) - (i + 1) \in Slots(length' - i - 1)
        <5>1. ASSUME NEW n, n = length + 1 PROVE (k - 1) - (i + 1) \in Slots(n - i - 1)
          BY <1>1, <3>6, <5>1 DEF Slots
        <5> QED
          BY <2>2, <5>1
      <4>3. block'[k - 1] = old[k - 2]
        BY <3>2, <3>3, <4>1, <4>2
      <4>4. items[k - 1] = block[k - 2]
        BY <1>1, <4>1
      <4> QED
        BY <2>3, <2>6, <3>6, <4>1, <4>3, <4>4
    <3> QED
      BY <3>4, <3>5, <3>6
  <2>8. items' = s
    BY <2>2, <2>6, <2>7, ItemsNext
  <2> QED
    BY <1>1, <1>3, <2>1, <2>8
       DEF s, insert, Returns, Abstract!insert, Abstract!Checked, Abstract!Returns
<1> QED
  BY <1>2, <1>3 DEF insert

(***************************************************************************)
(* What the methods that only read return.                                 *)
(***************************************************************************)
LEMMA GetRefines == ASSUME IInv, NEW i \in 0..length, get(i) PROVE Abstract!get(i)
<1>1. /\ Len(items) = length /\ length \in Nat
      /\ \A k \in 1..length : items[k] = block[k - 1]
  BY Items
<1>2. i < length => items[i + 1] = block[i]
  <2>1. i < length => i + 1 \in 1..length /\ (i + 1) - 1 = i
    BY <1>1
  <2> QED
    BY <1>1, <2>1
<1> QED
  BY <1>1, <1>2, ReadsRefines DEF get, Abstract!get

LEMMA SubscriptItemRefines ==
    ASSUME IInv, NEW i \in 0..length, subscriptItem(i)
    PROVE  Abstract!subscriptItem(i)
<1>1. /\ Len(items) = length /\ length \in Nat
      /\ \A k \in 1..length : items[k] = block[k - 1]
  BY Items
<1>2. i < length => items[i + 1] = block[i]
  <2>1. i < length => i + 1 \in 1..length /\ (i + 1) - 1 = i
    BY <1>1
  <2> QED
    BY <1>1, <2>1
<1> QED
  BY <1>1, <1>2, ReadsRefines, PanicRefines
     DEF subscriptItem, Valid, Abstract!subscriptItem, Abstract!Checked

LEMMA LastRefines == ASSUME IInv, last PROVE Abstract!last
<1>1. /\ items \in Seq(Value) /\ Len(items) = length /\ length \in Nat
      /\ \A k \in 1..length : items[k] = block[k - 1]
  BY Items
<1>2. length <= 0 <=> items = <<>>
  BY <1>1
<1>3. ~(length <= 0) => Abstract!Last(items) = block[length - 1]
  <2>1. ~(length <= 0) => length \in 1..length
    BY <1>1
  <2> QED
    BY <1>1, <2>1 DEF Abstract!Last
<1> QED
  BY <1>2, <1>3, ReadsRefines DEF last, Abstract!last

LEMMA SubscriptRangeRefines ==
    ASSUME IInv, NEW i \in 0..length, NEW j \in 0..(length + 1), subscriptRange(i, j)
    PROVE  Abstract!subscriptRange(i, j)
<1>1. /\ items \in Seq(Value) /\ Len(items) = length /\ length \in Nat
      /\ \A k \in 1..length : items[k] = block[k - 1]
  BY Items
<1>2. CASE i > j \/ j > length
  BY <1>1, <1>2, PanicRefines DEF subscriptRange, Abstract!subscriptRange
<1>3. CASE ~(i > j \/ j > length)
  <2> DEFINE v == [k \in 1..(j - i) |-> block[i + k - 1]]
             w == SubSeq(items, i + 1, j)
  <2>1. w \in Seq(Value) /\ Len(w) = j - i
    <3>1. i + 1 \in Nat \ {0} /\ j \in Nat /\ i + 1 <= j + 1 /\ j <= Len(items) /\ j - (i + 1) + 1 = j - i
      BY <1>1, <1>3
    <3> QED
      BY <1>1, <3>1, Stretch
  <2>2. ASSUME NEW k \in 1..(j - i) PROVE w[k] = block[i + k - 1]
    <3>1. k + (i + 1) - 1 = i + k /\ i + k \in 1..length
      BY <1>1, <1>3
    <3>2. w[k] = items[k + (i + 1) - 1]
      BY <1>1, <1>3
    <3> QED
      BY <1>1, <3>1, <3>2
  <2>3. v = w
    <3>1. v \in Seq(Value) /\ Len(v) = j - i
      <4>1. \A k \in 1..(j - i) : i + k - 1 \in Slots(length)
        BY <1>1, <1>3 DEF Slots
      <4>2. \A k \in 1..(j - i) : block[i + k - 1] \in Value
        BY <4>1 DEF IInv, Initialised
      <4>3. j - i \in Nat
        BY <1>1, <1>3
      <4> QED
        BY <4>2, <4>3
    <3>2. \A k \in 1..Len(v) : v[k] = w[k]
      BY <2>2, <3>1
    <3> HIDE DEF v, w
    <3> QED
      BY <2>1, <3>1, <3>2, SameSequence
  <2>4. Reads(Range(i, j - i), v)
    BY <1>3 DEF subscriptRange
  <2> HIDE DEF v
  <2> QED
    BY <1>1, <1>3, <2>3, <2>4, ReadsRefines DEF Abstract!subscriptRange
<1> QED
  BY <1>2, <1>3

------------------------------------------------------------------------------

LEMMA InitRefines == Init => Abstract!Init
<1> SUFFICES ASSUME Init PROVE Abstract!Init
  OBVIOUS
<1>1. PICK s \in Array :
        /\ block = memcpyFrom([i \in Slots(2 * Len(s) + 1) |-> Junk], 0, s)
        /\ length = Len(s) /\ out = <<>> /\ panicked = FALSE
  BY DEF Init
<1>2. s \in Seq(Value) /\ Len(s) \in Nat
  BY ArraysAreSequences
<1>3. /\ items \in Seq(Value) /\ Len(items) = length
      /\ \A k \in 1..length : items[k] = block[k - 1]
  BY InitIInv, Items
<1>4. ASSUME NEW k \in 1..Len(s) PROVE items[k] = s[k]
  <2>1. k - 1 \in Slots(2 * Len(s) + 1) /\ (k - 1) - 0 \in Slots(Len(s)) /\ (k - 1) - 0 + 1 = k
    BY <1>2 DEF Slots
  <2>2. block[k - 1] = s[k]
    BY <1>1, <2>1 DEF memcpyFrom
  <2> QED
    BY <1>1, <1>3, <2>2
<1>5. items = s
  BY <1>1, <1>2, <1>3, <1>4, SameSequence
<1> QED
  BY <1>1, <1>5 DEF Abstract!Init

\* The methods that copy inside the block.
TailMoves == \E i \in 0..length : remove(i) \/ \E x \in Value : insert(i, x)

LEMMA TailMovesRefine == OverlapSafe /\ IInv /\ IInv' /\ TailMoves => Abstract!Next
<1> SUFFICES ASSUME OverlapSafe, IInv, IInv', TailMoves PROVE Abstract!Next
  OBVIOUS
<1>1. Abstract!Index = 0..length
  BY Items DEF Abstract!Index
<1>2. ASSUME NEW i \in 0..length, remove(i) PROVE Abstract!Next
  BY <1>1, <1>2, RemoveRefines DEF Abstract!Next
<1>3. ASSUME NEW i \in 0..length, NEW x \in Value, insert(i, x) PROVE Abstract!Next
  BY <1>1, <1>3, InsertRefines DEF Abstract!Next
<1> QED
  BY <1>2, <1>3 DEF TailMoves

LEMMA StepRefines ==
    IInv /\ IInv' /\ [Next]_vars =>
      Abstract!Next \/ UNCHANGED <<items, out, panicked>> \/ TailMoves
<1> SUFFICES ASSUME IInv, IInv', [Next]_vars
             PROVE  Abstract!Next \/ UNCHANGED <<items, out, panicked>> \/ TailMoves
  OBVIOUS
<1>1. Abstract!Index = 0..length /\ Len(items) = length
  BY Items DEF Abstract!Index
<1>2. ASSUME NEW x \in Value, append(x) PROVE Abstract!Next
  BY <1>2, AppendRefines DEF Abstract!Next
<1>3. ASSUME NEW a \in Array, appendArray(a) PROVE Abstract!Next
  BY <1>3, AppendArrayRefines DEF Abstract!Next
<1>4. ASSUME NEW i \in 0..length, swapRemove(i) PROVE Abstract!Next
  BY <1>1, <1>4, SwapRemoveRefines DEF Abstract!Next
<1>5. ASSUME NEW i \in 0..length, subscriptItem(i) PROVE Abstract!Next
  BY <1>1, <1>5, SubscriptItemRefines DEF Abstract!Next
<1>6. ASSUME NEW i \in 0..length, get(i) PROVE Abstract!Next
  BY <1>1, <1>6, GetRefines DEF Abstract!Next
<1>7. ASSUME NEW i \in 0..length, NEW x \in Value, setItem(i, x) PROVE Abstract!Next
  BY <1>1, <1>7, SetItemRefines DEF Abstract!Next
<1>8. ASSUME NEW i \in 0..length, NEW j \in 0..(length + 1), subscriptRange(i, j)
      PROVE  Abstract!Next
  BY <1>1, <1>8, SubscriptRangeRefines DEF Abstract!Next
<1>9. CASE pop \/ clear \/ last \/ reverse
  BY <1>9, PopRefines, ClearRefines, LastRefines, ReverseRefines DEF Abstract!Next
<1>10. CASE UNCHANGED vars
  BY <1>10, SameItems DEF vars
<1> QED
  BY <1>2, <1>3, <1>4, <1>5, <1>6, <1>7, <1>8, <1>9, <1>10 DEF Next, TailMoves

(***************************************************************************)
(* Where memcpy copes with overlapping ranges, a list is the sequence      *)
(* ListSpec describes: every method changes and returns what its namesake  *)
(* there does.                                                             *)
(***************************************************************************)
THEOREM ListIsSequence == OverlapSafe => (Spec => ImplementsListSpec)
<1>1. ASSUME OverlapSafe
      PROVE  IInv /\ IInv' /\ [Next]_vars => [Abstract!Next]_(Abstract!vars)
  BY <1>1, StepRefines, TailMovesRefine DEF Abstract!vars
<1>2. ASSUME OverlapSafe PROVE Spec => Abstract!Spec
  BY <1>1, <1>2, Inductive, InitRefines, PTL DEF Spec, Abstract!Spec
<1> QED
  BY <1>2 DEF ImplementsListSpec

(***************************************************************************)
(* Whatever memcpy does with overlapping ranges, only a remove or an       *)
(* insert can do what the sequence does not: every other method follows    *)
(* ListSpec, also on a list that a bad copy has spoiled.                   *)
(***************************************************************************)
THEOREM OnlyTailMovesDeviate ==
    Spec => [][Abstract!Next \/ UNCHANGED <<items, out, panicked>> \/ TailMoves]_vars
BY Inductive, StepRefines, PTL DEF Spec

==============================================================================
