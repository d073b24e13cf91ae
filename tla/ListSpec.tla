------------------------------- MODULE ListSpec -------------------------------
(***************************************************************************)
(* What the List of the standard library promises (docs/LanguageGuide.md,  *)
(* "List"): a resizable sequence with checked indices.  Indices are those  *)
(* of the language, from 0.                                                *)
(***************************************************************************)
EXTENDS Integers, Sequences, SequencesExt

CONSTANTS
    Value,       \* what a list can hold
    Array        \* the arrays that can be appended

VARIABLES
    items,       \* the list
    out,         \* the elements the last operation returned, none for none()
    panicked     \* an operation gave up, which ends the program

vars == <<items, out, panicked>>

Index == 0..Len(items)

Init == items \in Array /\ out = <<>> /\ panicked = FALSE

Returns(value) == ~panicked /\ out' = value /\ UNCHANGED panicked

Panic == ~panicked /\ panicked' = TRUE /\ out' = <<>> /\ UNCHANGED items

Checked(i, op) == IF i < Len(items) THEN op ELSE Panic

append(x)      == items' = Append(items, x) /\ Returns(<<>>)
appendArray(a) == items' = items \o a /\ Returns(<<>>)
clear          == items' = <<>> /\ Returns(<<>>)
reverse        == items' = Reverse(items) /\ Returns(<<>>)

remove(i) ==
    Checked(i, items' = RemoveAt(items, i + 1) /\ Returns(<<items[i + 1]>>))

swapRemove(i) ==
    Checked(i, /\ items' = Front(ReplaceAt(items, i + 1, Last(items)))
               /\ Returns(<<items[i + 1]>>))

setItem(i, x) ==
    Checked(i, items' = ReplaceAt(items, i + 1, x) /\ Returns(<<>>))

insert(i, x) ==
    Checked(i, items' = InsertAt(items, i + 1, x) /\ Returns(<<>>))

subscriptItem(i) ==
    Checked(i, UNCHANGED items /\ Returns(<<items[i + 1]>>))

get(i) ==
    UNCHANGED items /\ Returns(IF i < Len(items) THEN <<items[i + 1]>> ELSE <<>>)

last ==
    UNCHANGED items /\ Returns(IF items = <<>> THEN <<>> ELSE <<Last(items)>>)

pop ==
    IF items = <<>> THEN UNCHANGED items /\ Returns(<<>>)
                    ELSE items' = Front(items) /\ Returns(<<Last(items)>>)

subscriptRange(i, j) ==
    IF i > j \/ j > Len(items) THEN Panic
                              ELSE UNCHANGED items /\ Returns(SubSeq(items, i + 1, j))

Next ==
    \/ \E x \in Value : append(x)
    \/ \E a \in Array : appendArray(a)
    \/ \E i \in Index : \/ remove(i) \/ swapRemove(i) \/ subscriptItem(i) \/ get(i)
                        \/ \E x \in Value : setItem(i, x) \/ insert(i, x)
                        \/ \E j \in 0..(Len(items) + 1) : subscriptRange(i, j)
    \/ clear \/ reverse \/ last \/ pop

Spec == Init /\ [][Next]_vars

==============================================================================
