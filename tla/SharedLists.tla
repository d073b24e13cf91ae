------------------------------ MODULE SharedLists -----------------------------
(***************************************************************************)
(* Several List values over one heap (stdlib/List.shtk).  A List is a      *)
(* record of a counter, the address of a block, a capacity and a length.   *)
(* Copying it copies the record and retains the counter, so copies share   *)
(* the block and each has an address, a capacity and a length of its own.  *)
(*                                                                         *)
(* A statement is a row of the steps of Ownership, in the order in which   *)
(* FunctionBuilder::unitCopy emits them; a method changes the record it is *)
(* called on, and the block.  Elements have no hooks here.  malloc hands   *)
(* out addresses in order and none twice: what would happen at an address  *)
(* that was freed is undefined, and ends the run in phase "wild".  A list  *)
(* that changes its address, capacity or length while another variable     *)
(* shares it leaves that one with stale fields: the run ends in "strayed". *)
(***************************************************************************)
EXTENDS Ownership, SequencesExt

CONSTANTS
    Value,
    Arrays,          \* the arrays lists are made of and appended
    MaxBlocks,       \* bound on the blocks that are ever allocated
    MaxSlots         \* bound on the capacity a list grows to

ASSUME ListBounds == MaxBlocks \in Nat /\ MaxSlots \in Nat
ASSUME ArraysAreLists == \A a \in Arrays : a \in Seq(Range(a))

VARIABLES
    fields,          \* fields[v]: ptr, capacity and length of v
    heap,            \* the blocks: whether live, and their slots
    doing,           \* the steps the statement has still to take
    phase            \* "running", or what ended the run: "panic", "wild", "strayed"

listVars == <<fields, heap, doing, phase>>

Junk      == 0                                  \* what no program wrote
record(p, c, n) == [ptr |-> p, capacity |-> c, length |-> n]
NoList    == record(0, 0, 0)                    \* null, as createLocal leaves it
block(slots) == [live |-> TRUE, slots |-> slots]
freed        == [live |-> FALSE, slots |-> <<>>]
ofSize(s, n) == [k \in 1 .. n |-> IF k <= Len(s) THEN s[k] ELSE Junk]
isLive(h, p) == p \in DOMAIN h /\ h[p].live

SharedInit ==
    /\ owner = [v \in Variable |-> NoObject] /\ Init
    /\ fields = [v \in Variable |-> NoList]
    /\ heap = <<>> /\ doing = <<>> /\ phase = "running"

------------------------------------------------------------------------------
(***************************************************************************)
(* The methods, on a state of a call: the heap, the list it is called on,  *)
(* and how it went.  realloc may move a block or not.                      *)
(***************************************************************************)
ended(s, how) == [s EXCEPT !.went = how]

expand(s, capacity) ==
    LET grown == block(ofSize(s.heap[s.list.ptr].slots, capacity))
        at(p) == [s.list EXCEPT !.ptr = p, !.capacity = capacity]
    IN  IF ~isLive(s.heap, s.list.ptr) THEN {ended(s, "wild")}
        ELSE IF capacity = 0 THEN {ended(s, "panic"), [s EXCEPT !.heap[s.list.ptr] = grown]}
        ELSE {[s EXCEPT !.heap[s.list.ptr] = grown, !.list = at(s.list.ptr)],
              [s EXCEPT !.heap = Append([s.heap EXCEPT ![s.list.ptr] = freed], grown), !.list = at(Len(s.heap) + 1)]}

\* Some elements to places from offset on, counted from 0.
memcpyOffset(s, items, offset) ==
    IF s.went # "running" THEN s
    ELSE IF items # <<>> /\ ~(isLive(s.heap, s.list.ptr) /\ offset + Len(items) <= Len(s.heap[s.list.ptr].slots))
    THEN ended(s, "wild")
    ELSE [s EXCEPT !.heap[s.list.ptr].slots =
            [k \in DOMAIN @ |-> IF k \in offset + 1 .. offset + Len(items) THEN items[k - offset] ELSE @[k]]]

withLength(s, n) == IF s.went = "running" THEN [s EXCEPT !.list.length = n] ELSE s

setItem(s, index, x) ==
    IF s.went # "running" THEN s
    ELSE IF index >= s.list.length THEN ended(s, "panic") ELSE memcpyOffset(s, <<x>>, index)

\* Mutant: the block grows one element too late.
_incrementLength_Late(s) ==
    {withLength(t, t.list.length + 1) :
       t \in IF s.list.length = s.list.capacity + 1 THEN expand(s, s.list.length * 2) ELSE {s}}

_incrementLength(s) ==
    {withLength(t, t.list.length + 1) :
       t \in IF s.list.length = s.list.capacity THEN expand(s, s.list.length * 2) ELSE {s}}

append(s, x) == {setItem(t, t.list.length - 1, x) : t \in _incrementLength(s)}

appendArray(s, items) ==
    LET newLength == s.list.length + Len(items)
    IN  {withLength(memcpyOffset(t, items, s.list.length), newLength) :
           t \in IF newLength >= s.list.capacity THEN expand(s, newLength * 2) ELSE {s}}

pop(s) ==
    IF s.list.length = 0 THEN s
    ELSE IF ~isLive(s.heap, s.list.ptr) \/ s.list.length > Len(s.heap[s.list.ptr].slots) THEN ended(s, "wild")
    ELSE withLength(s, s.list.length - 1)

clear(s) == withLength(s, 0)

------------------------------------------------------------------------------
\* The rest of a statement that copies a list of counter o to v.
assigning(v, o, list_) ==
    <<<<"retain", o>>>> \o (IF owner[v] # NoObject THEN <<<<"release", v>>>> ELSE <<>>) \o <<<<"store", v, o, list_>>>>

ready == phase = "running" /\ doing = <<>>

\* list and fromPreAllocated: a block of that many slots with these elements.
make(v, items, capacity) ==
    /\ Len(heap) < MaxBlocks
    /\ \E o \in Object :
         /\ Create(o)
         /\ heap' = Append(heap, block(ofSize(items, capacity)))
         /\ doing' = assigning(v, o, record(Len(heap) + 1, capacity, Len(items)))
    /\ UNCHANGED <<fields, phase>>

List(v)            == ready /\ \E a \in Arrays : make(v, a, Len(a) * 2 + 1)
FromPreAllocated(v) == ready /\ \E a \in Arrays : make(v, a, Len(a))
Copy(v)            ==
    /\ ready
    /\ \E w \in Variable : owner[w] # NoObject /\ doing' = assigning(v, owner[w], fields[w])
    /\ UNCHANGED <<vars, fields, heap, phase>>

fits(h, list_) == list_.length = 0 \/ (isLive(h, list_.ptr) /\ list_.length <= Len(h[list_.ptr].slots))
contents(h, list_) == IF list_.length = 0 THEN <<>> ELSE SubSeq(h[list_.ptr].slots, 1, list_.length)

\* Mutant: a clone takes the block of the list it was made from.
cloneOf_Shares(v, w) ==
    /\ Len(heap) < MaxBlocks
    /\ \E o \in Object : Create(o) /\ doing' = assigning(v, o, fields[w])
    /\ UNCHANGED <<fields, heap, phase>>

cloneOf(v, w) == make(v, contents(heap, fields[w]), fields[w].length * 2 + 1)

Clone(v) ==
    /\ ready
    /\ \E w \in Variable :
         /\ owner[w] # NoObject
         /\ IF fits(heap, fields[w]) THEN cloneOf(v, w)
            ELSE phase' = "wild" /\ UNCHANGED <<vars, fields, heap, doing>>
Leave(v) ==
    /\ ready /\ owner[v] # NoObject
    /\ doing' = <<<<"release", v>>>>
    /\ UNCHANGED <<vars, fields, heap, phase>>

\* The steps of a statement.  The last holder of a counter frees the block it
\* knows of (List.__deconstructor__ behind the counter's).
next(op) == phase = "running" /\ doing # <<>> /\ Head(doing)[1] = op /\ doing' = Tail(doing)
RetainStep ==
    /\ next("retain")
    /\ IF status[Head(doing)[2]] = "live" THEN Retain(Head(doing)[2]) /\ UNCHANGED phase
       ELSE phase' = "wild" /\ UNCHANGED vars
    /\ UNCHANGED <<fields, heap>>
ReleaseStep ==
    /\ next("release")
    /\ LET v == Head(doing)[2]  p == fields[v].ptr
           frees == status[owner[v]] = "live" /\ count[owner[v]] = 1
       IN  /\ Release(v)
           /\ fields' = [fields EXCEPT ![v] = NoList]
           /\ IF frees /\ ~isLive(heap, p) THEN phase' = "wild" /\ UNCHANGED heap
              ELSE heap' = (IF frees THEN [heap EXCEPT ![p] = freed] ELSE heap) /\ UNCHANGED phase
StoreStep ==
    /\ next("store") /\ Store(Head(doing)[2], Head(doing)[3])
    /\ fields' = [fields EXCEPT ![Head(doing)[2]] = Head(doing)[4]]
    /\ UNCHANGED <<heap, phase>>

\* A method called on v may end in any of these states.
called(v, outcomes) ==
    /\ ready /\ owner[v] # NoObject
    /\ \E t \in outcomes :
         /\ Len(t.heap) <= MaxBlocks /\ t.list.capacity <= MaxSlots
         /\ heap' = t.heap
         /\ fields' = [fields EXCEPT ![v] = t.list]
         /\ phase' = IF t.went = "running" /\ t.list # fields[v] /\ Cardinality(Owners(owner[v])) > 1
                     THEN "strayed" ELSE t.went
    /\ UNCHANGED <<vars, doing>>
here(v) == [heap |-> heap, list |-> fields[v], went |-> "running"]

AppendItem(v)  == \E x \in Value : called(v, append(here(v), x))
AppendItems(v) == \E a \in Arrays : called(v, appendArray(here(v), a))
SetItem(v)     == \E x \in Value, index \in 0 .. fields[v].length : called(v, {setItem(here(v), index, x)})
Pop(v)         == called(v, {pop(here(v))})
Clear(v)       == called(v, {clear(here(v))})

SharedNext ==
    \/ RetainStep \/ ReleaseStep \/ StoreStep
    \/ \E v \in Variable :
         \/ List(v) \/ FromPreAllocated(v) \/ Copy(v) \/ Clone(v) \/ Leave(v)
         \/ AppendItem(v) \/ AppendItems(v) \/ SetItem(v) \/ Pop(v) \/ Clear(v)
SharedSpec == SharedInit /\ [][SharedNext]_<<vars, listVars>>

------------------------------------------------------------------------------
\* A list with no room at all doubles its capacity to nothing (List.shtk:80).
roomless == \E v \in Variable : owner[v] # NoObject /\ fields[v].capacity = 0

\* Every variable's block is live.  LanguageGuide.md:1680 does not except methods that make a list grow, but
\* a copy of one that strayed may be left with the address of a block that realloc has freed.
CopiesStayLive == \A v \in Variable : owner[v] # NoObject => isLive(heap, fields[v].ptr)

\* While no list changes its address, capacity or length with another variable sharing it, no method reads
\* or writes outside a live block, no block is freed twice, every block is some variable's and every
\* variable's is live: the copies (List.shtk:74), the growth of appendArray at equality and the counters
\* agree on who holds what.  A list made with no room at all is left out.
SharedSafely ==
    ~roomless =>
      /\ phase # "wild"
      /\ doing = <<>> /\ phase = "running" =>
           /\ CopiesStayLive
           /\ \A p \in DOMAIN heap : heap[p].live =>
                \E v \in Variable : owner[v] # NoObject /\ fields[v].ptr = p /\ Len(heap[p].slots) = fields[v].capacity

\* A statement takes effect where it begins: what it is going to store is already v's.
stores(v)  == {k \in DOMAIN doing : doing[k][1] = "store" /\ doing[k][2] = v}
nameOf(v)  == IF stores(v) = {} THEN owner[v] ELSE doing[CHOOSE k \in stores(v) : TRUE][3]
listOf(v)  == IF stores(v) = {} THEN fields[v] ELSE doing[CHOOSE k \in stores(v) : TRUE][4]
Reference  == INSTANCE References WITH
                name <- [v \in Variable |-> nameOf(v)],
                text <- [v \in Variable |-> IF fits(heap, listOf(v)) THEN contents(heap, listOf(v)) ELSE <<Junk>>]

\* Lists are copied by reference (LanguageGuide.md:1680): every statement does to what the variables show
\* what it would do to names of one list, through assignments, clones, scopes and growth that moves blocks;
\* but for lists that stray.
CopiedByReference ==
    [][phase' = "running" => Reference!Next(Arrays) \/ UNCHANGED Reference!vars]_<<vars, listVars>>
===============================================================================
