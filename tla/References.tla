------------------------------ MODULE References ------------------------------
(***************************************************************************)
(* What docs/LanguageGuide.md:1680 promises of the collections of the      *)
(* standard library: they "are copied by reference".  A variable is a name *)
(* of a list, and what is done to the list through one of its names, all   *)
(* of them show.                                                           *)
(***************************************************************************)
EXTENDS Naturals, Sequences

CONSTANTS Variable, Object, NoObject, Value

VARIABLES
    name,        \* name[v]: the list v stands for, NoObject for none
    text         \* text[v]: the elements v shows

vars == <<name, text>>

bind(v, o, s) == name' = [name EXCEPT ![v] = o] /\ text' = [text EXCEPT ![v] = s]

\* list(items), or another variable's clone.
New(v, o, s) == (\A w \in Variable : name[w] # o) /\ bind(v, o, s)
Assign(v, w) == name[w] # NoObject /\ bind(v, name[w], text[w])
Leave(v)     == bind(v, NoObject, <<>>)

change(v, s) ==
    /\ name[v] # NoObject
    /\ text' = [w \in Variable |-> IF name[w] = name[v] THEN s ELSE text[w]]
    /\ UNCHANGED name
AppendTo(v, s)   == change(v, text[v] \o s)
SetItem(v, i, x) == i \in DOMAIN text[v] /\ change(v, [text[v] EXCEPT ![i] = x])
Pop(v)           == text[v] # <<>> /\ change(v, SubSeq(text[v], 1, Len(text[v]) - 1))
Clear(v)         == change(v, <<>>)

\* Starts: the lists that are made of an array.
Next(Starts) ==
    \E v \in Variable :
      \/ \E o \in Object : (\E s \in Starts : New(v, o, s)) \/ (\E w \in Variable : New(v, o, text[w]))
      \/ \E w \in Variable : Assign(v, w)
      \/ Leave(v) \/ Pop(v) \/ Clear(v)
      \/ \E s \in Starts : AppendTo(v, s)
      \/ \E x \in Value : AppendTo(v, <<x>>) \/ \E i \in DOMAIN text[v] : SetItem(v, i, x)
===============================================================================
