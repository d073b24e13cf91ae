-------------------------------- MODULE Arrays --------------------------------
(***************************************************************************)
(* stdlib/ArrayUtils.shtk and ArrayReverse.shtk, which ListUtils.shtk and  *)
(* List.shtk call on the block of a list.  An array is a sequence of       *)
(* numbers; an index counts from 0 and is a ulong, so 0 - 1 is UMax.  What *)
(* is read behind the end is none of the array: that is Outside.           *)
(***************************************************************************)
EXTENDS Integers, SequencesExt, FiniteSetsExt

CONSTANT UMax            \* the largest ulong

ASSUME ULongIsAnEvenRange == UMax \in Nat /\ UMax % 2 = 1

plus(a, b)  == (a + b) % (UMax + 1)
minus(a, b) == (a - b) % (UMax + 1)

some(x) == <<"some", x>>
none    == <<"none">>
Outside == -1
gone    == <<Outside>>       \* an array of which nothing can be said any more

swap(a, i, j) == [a EXCEPT ![i + 1] = a[j + 1], ![j + 1] = a[i + 1]]

\* do i = i + 1 while a[i] < pivot, and its mirror image.
RECURSIVE up(_, _, _), down(_, _, _)
up(a, i, pivot) ==
  LET k == plus(i, 1) IN
  CASE k >= Len(a) -> Outside [] k < Len(a) /\ a[k + 1] < pivot -> up(a, k, pivot) [] OTHER -> k
down(a, i, pivot) ==
  LET k == minus(i, 1) IN
  CASE k >= Len(a) -> Outside [] k < Len(a) /\ pivot < a[k + 1] -> down(a, k, pivot) [] OTHER -> k

RECURSIVE parted(_, _, _, _)
parted(a, left, right, pivot) ==
  LET l == up(a, left, pivot)  r == down(a, right, pivot)
  IN  CASE Outside \in {l, r} -> [array |-> gone, at |-> 0]
        [] Outside \notin {l, r} /\ l >= r -> [array |-> a, at |-> r]
        [] OTHER -> parted(swap(a, l, r), l, r, pivot)
_quickSortPartition(a, lo, hi) ==
  LET middle == plus(hi, lo) \div 2
  IN  IF middle >= Len(a) THEN [array |-> gone, at |-> 0]
      ELSE parted(a, minus(lo, 1), plus(hi, 1), a[middle + 1])

RECURSIVE _quickSort(_, _, _)
_quickSort(a, lo, hi) ==
  IF a = gone \/ ~(lo < hi) THEN a
  ELSE LET p == _quickSortPartition(a, lo, hi)
       IN  _quickSort(_quickSort(p.array, lo, p.at), p.at + 1, hi)

sortInPlace(a) == _quickSort(a, 0, minus(Len(a), 1))

placesOf(a, x)  == {i \in 0 .. Len(a) - 1 : a[i + 1] = x}
search(a, x)    == IF placesOf(a, x) = {} THEN none ELSE some(Min(placesOf(a, x)))
countOf(a, x)   == Cardinality(placesOf(a, x))
reverseInPlace(a) ==
  FoldLeft(LAMBDA b, i : swap(b, i - 1, Len(a) - i), a, [i \in 1 .. Len(a) \div 2 |-> i])

RECURSIVE between(_, _, _, _)
between(a, x, left, right) ==
  LET mid == plus(left, right) \div 2
  IN  CASE left > right                     -> none
        [] left <= right /\ mid >= Len(a)   -> some(Outside)
        [] OTHER -> CASE a[mid + 1] = x -> some(mid)
                      [] a[mid + 1] < x -> between(a, x, plus(mid, 1), right)
                      [] OTHER          -> between(a, x, left, minus(mid, 1))
binarySearch(a, x) == between(a, x, 0, minus(Len(a), 1))
------------------------------------------------------------------------------
ordered(a)      == \A j, k \in DOMAIN a : j < k => a[j] <= a[k]
sameItems(a, b) == Len(a) = Len(b) /\ \A x \in ToSet(a) : countOf(a, x) = countOf(b, x)

\* What a call of an array method is to answer; the array of a binary search is ordered.
arrayAnswerIsRight(method, a, x, answer) ==
  CASE method = "sort"    -> sameItems(a, answer) /\ ordered(answer)
    [] method = "reverse" -> Len(answer) = Len(a) /\ \A k \in DOMAIN a : answer[k] = a[Len(a) + 1 - k]
    [] method = "count"   -> answer = Len(SelectSeq(a, LAMBDA y : y = x))
    [] method = "search"  -> \/ answer = none /\ x \notin ToSet(a)
                             \/ answer # none /\ answer[2] < Len(a) /\ a[answer[2] + 1] = x
                                              /\ \A k \in 1 .. answer[2] : a[k] # x
    [] method = "binarySearch" -> \/ answer = none /\ x \notin ToSet(a)
                                  \/ answer # none /\ answer[2] \in 0 .. Len(a) - 1 /\ a[answer[2] + 1] = x

\* ArrayUtils.shtk:41, :57: n - 1 of an empty array, and mid - 1 of an item below all others, are UMax.
wrapsBelowZero(method, a, x) ==
  \/ method = "sort" /\ a = <<>>
  \/ method = "binarySearch" /\ \A k \in DOMAIN a : x < a[k]
===============================================================================
