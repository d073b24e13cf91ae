--------------------------- MODULE FunctionBodyProofs ---------------------------
(***************************************************************************)
(* The hooks that the compiler inserts, for bodies of any length, any      *)
(* locals and any number of objects: what they compile to takes only steps *)
(* of Ownership, so nothing is used after it was freed, and what survives  *)
(* a return is alive.                                                      *)
(*                                                                         *)
(* What has to be known of a table is local: around each entry stand the   *)
(* others of the statement that emitted it (Fits), and a statement's       *)
(* entries fit wherever they are appended, since jumps lead to labels      *)
(* only, and labels stand between statements.  While a table runs, a       *)
(* variable owns what it holds, but between its __deconstructor__ and the  *)
(* copy that overwrites it, and in the row of hooks of a return.           *)
(***************************************************************************)
EXTENDS FunctionBody, FiniteSetTheorems, WellFoundedInduction, TLAPS

Counted == INSTANCE OwnershipProofs

Entries ==
    {Call, Ret} \cup {NullInit(s) : s \in Local}
    \cup [op : {"label", "goto", "ifFalseGoto"}, label : Nat]
    \cup [op : {"beforeCopy", "deconstruct"}, unit : Unit, sweep : BOOLEAN]
    \cup [op : {"copy"}, dest : Unit, src : Unit, counted : BOOLEAN]

\* The units that assignments with hooks overwrite and read, and the locals
\* that a return destroys.
Overwritten == {u \in Unit : u.var \in Variable /\ u # Whole("p")}
Copied      == {u \in Unit : u.var \in Variable \cup {"callee"} /\ u # Whole("self")}
Swept       == Local \ {"self"}

\* Entries i, i + 1, ... of c destroy variables of S and then return.
SweepsOnly(c, i, S) ==
    \E k \in DOMAIN c :
       /\ i <= k /\ c[k].op = "ret"
       /\ \A j \in i .. k - 1 : c[j].op = "deconstruct" /\ c[j].sweep /\ c[j].unit.var \in S

\* What a call returned is still there: at most a null initialisation came since.
Called(c, i) ==
    \/ i - 1 \in DOMAIN c /\ c[i - 1].op = "call"
    \/ i - 2 \in DOMAIN c /\ c[i - 1].op = "nullInit" /\ c[i - 2].op = "call"

\* The copies of unitCopy: what they read was retained, what they overwrite destroyed.
Arrives(c, i) ==
    /\ c[i].counted /\ c[i].dest \in Overwritten /\ c[i].src \in Copied
    /\ \/ /\ c[i].dest = Whole("self") /\ i - 1 \in DOMAIN c
          /\ c[i - 1].op = "beforeCopy" /\ c[i - 1].unit = c[i].src
       \/ /\ i - 1 \in DOMAIN c /\ i - 2 \in DOMAIN c
          /\ c[i - 1].op = "deconstruct" /\ ~c[i - 1].sweep /\ c[i - 1].unit = c[i].dest
          /\ c[i - 2].op = "beforeCopy" /\ c[i - 2].unit = c[i].src

Returns(c, i) ==
    /\ SweepsOnly(c, i + 1, Swept)
    /\ IF c[i].counted
         THEN i - 1 \in DOMAIN c /\ c[i - 1].op = "beforeCopy" /\ c[i - 1].unit = c[i].src
         ELSE \/ c[i].src.var \in {"p", "self"}
              \/ c[i].src.var = "callee" /\ Called(c, i)

Fits(c, i) ==
    /\ c[i].op = "beforeCopy" =>
         c[i].unit \in Copied /\ (c[i].unit.var = "callee" => Called(c, i))
    /\ c[i].op = "deconstruct" =>
         IF c[i].sweep
           THEN c[i].unit.var \in Swept /\ SweepsOnly(c, i + 1, Swept \ {c[i].unit.var})
           ELSE /\ c[i].unit \in Overwritten /\ i + 1 \in DOMAIN c
                /\ c[i + 1].op = "copy" /\ c[i + 1].dest = c[i].unit
    /\ c[i].op = "copy" => IF c[i].dest.var = "return" THEN Returns(c, i) ELSE Arrives(c, i)

WellFormed(c) == c \in Seq(Entries) /\ \A i \in DOMAIN c : Fits(c, i)

(***************************************************************************)
(* Labels: every jump leads to a label that was emitted, or that an open   *)
(* block will emit when it is closed.                                      *)
(***************************************************************************)
Kinds == {"function", "if", "else", "while", "do", "loop", "forEach"}

Blocks ==
    [kind : Kinds, inLoop : BOOLEAN, breakLabel : Nat, continueLabel : Nat, exits : Seq(Nat)]

Exits(b) ==
    Len(b.exits) = CASE b.kind = "function" -> 0
                     [] b.kind = "else"     -> 1
                     [] b.kind = "forEach"  -> 3
                     [] OTHER               -> 2

Promised(b) ==
    CASE b.kind = "function"       -> {}
      [] b.kind \in {"if", "else"} -> {b.exits[1]}
      [] b.kind = "forEach"        -> {b.exits[1], b.exits[3]}
      [] OTHER                     -> {b.exits[2]}

Emitted(c) == {c[i].label : i \in {j \in DOMAIN c : c[j].op = "label"}}
Coming(c, blocks) == Emitted(c) \cup UNION {Promised(blocks[k]) : k \in DOMAIN blocks}

\* The labels that a block may jump to.
Leads(b, ls) ==
    /\ b.inLoop => b.breakLabel \in ls /\ b.continueLabel \in ls
    /\ b.kind \in {"while", "do", "loop"} => b.exits[1] \in ls
    /\ b.kind = "forEach" => b.exits[2] \in ls

JumpsInto(c, ls) == \A i \in DOMAIN c : c[i].op \in {"goto", "ifFalseGoto"} => c[i].label \in ls

Code ==
    /\ isVoid \in BOOLEAN /\ symbols \subseteq Local /\ labels \in Nat
    /\ WellFormed(icode)
    /\ open \in Seq(Blocks) /\ open # <<>>
    /\ \A k \in DOMAIN open : /\ open[k].kind = "function" <=> k = 1
                              /\ Exits(open[k])
                              /\ Leads(open[k], Coming(icode, open))
    /\ JumpsInto(icode, Coming(icode, open))

(***************************************************************************)
(* The run.                                                                *)
(***************************************************************************)
\* At entry i the reference that the copy at i or behind it stores was retained.
Underway(c, i) ==
    (c[i].op = "copy" /\ c[i].counted) \/ (c[i].op = "deconstruct" /\ ~c[i].sweep)
Carried(c, i) == IF c[i].op = "copy" THEN c[i].src.var ELSE c[i + 1].src.var

\* v may hold an object it does not own.
Excused(v) ==
    \/ Entry.op = "copy" /\ Entry.dest.var = v
    \/ v \in Swept /\ SweepsOnly(icode, pc, Swept \ {v})

Owned(v) == IF held[v] \in Object THEN owner[v] = held[v] ELSE owner[v] = NoObject
Unowned(o) == \A v \in Variable : owner[v] # o

\* No hook that is still to come takes the last reference of o.
Kept(o) ==
    /\ status[o] = "live"
    /\ pending[o] > 0 \/ Unowned(o) \/ \E v \in Variable \ Swept : owner[v] = o

Attached ==
    \A v \in Variable : Owned(v) \/ (Excused(v) /\ owner[v] = NoObject)
Retained ==
    Underway(icode, pc) =>
      LET o == held[Carried(icode, pc)] IN o \in Object => pending[o] > 0
Fresh ==
    Called(icode, pc) /\ Entry.op \in {"nullInit", "beforeCopy", "copy"} =>
      LET o == held["callee"] IN o \in Object /\ status[o] = "live" /\ Unowned(o)
Result ==
    LET o == held["return"]
    IN  o \in Object => SweepsOnly(icode, pc, Swept) /\ Kept(o)

Runs ==
    /\ pc \in DOMAIN icode /\ icode[Len(icode)].op = "ret"
    /\ JumpsInto(icode, Emitted(icode))
    /\ Attached /\ Retained /\ Fresh /\ Result

Before ==
    /\ pc = 1 /\ held["return"] \notin Object
    /\ \A v \in Variable : Owned(v)

\* No counter is about to wrap around.
NeverFull == \A o \in Object : count[o] + 1 < CountModulus

BodyInv ==
    /\ Counted!IInv
    /\ held \in [Storage -> Object \cup {Null, Garbage}]
    /\ Code
    /\ phase = "generate" => Before
    /\ phase = "run" => Runs
    /\ NoUseAfterFree /\ SurvivorsAlive

------------------------------------------------------------------------------
(***************************************************************************)
(* FlattenSeq, which is defined by a recursive function: that the function *)
(* exists, and what it makes of rows of one entry at most.                 *)
(***************************************************************************)
LEMMA Smallest ==
  ASSUME NEW T, T \subseteq Nat, T # {}
  PROVE  \E n \in T : \A m \in T : n <= m
<1> DEFINE R == OpToRel(<, Nat)
<1>1. IsWellFoundedOn(R, Nat)
  BY NatLessThanWellFounded
<1>2. \A x, y \in Nat : x < y => <<x, y>> \in R
  BY DEF OpToRel
<1> HIDE DEF R
<1>3. \E x \in T : \A y \in T : ~ (<<y, x>> \in R)
  BY <1>1, WFMin
<1>4. PICK x \in T : \A y \in T : ~ (y < x)
  BY <1>2, <1>3
<1>5. \A y \in T : y \in Nat /\ x \in Nat
  OBVIOUS
<1>6. \A y \in T : x <= y
  BY <1>4, <1>5
<1> QED
  BY <1>6

\* The function by which FlattenSeq is defined exists.
Joined(f, s, m) == f = [i \in 1 .. m |-> IF i = 1 THEN s[i] ELSE f[i - 1] \o s[i]]

LEMMA JoinedNext ==
  ASSUME NEW s, NEW f, NEW m \in Nat, m > 0, Joined(f, s, m)
  PROVE  \E g : Joined(g, s, m + 1)
<1> DEFINE last == f[m] \o s[m + 1]
           g == [i \in 1 .. m + 1 |-> IF i = m + 1 THEN last ELSE f[i]]
<1> HIDE DEF last
<1>1. DOMAIN g = 1 .. m + 1 /\ g = [i \in 1 .. m + 1 |-> g[i]]
  OBVIOUS
<1>2. g[m + 1] = last /\ \A i \in 1 .. m : g[i] = f[i]
  OBVIOUS
<1>3. \A i \in 1 .. m : f[i] = IF i = 1 THEN s[i] ELSE f[i - 1] \o s[i]
  BY DEF Joined
<1> HIDE DEF g
<1>4. \A i \in 1 .. m + 1 : g[i] = IF i = 1 THEN s[i] ELSE g[i - 1] \o s[i]
  <2> TAKE i \in 1 .. m + 1
  <2>1. CASE i = m + 1
    <3>1. i # 1 /\ i - 1 = m /\ m \in 1 .. m
      BY <2>1
    <3> QED
      BY <1>2, <2>1, <3>1 DEF last
  <2>2. CASE i \in 1 .. m
    <3>1. i # 1 => i - 1 \in 1 .. m
      BY <2>2
    <3> QED
      BY <1>2, <1>3, <2>2, <3>1
  <2> QED
    BY <2>1, <2>2
<1>5. g = [i \in 1 .. m + 1 |-> IF i = 1 THEN s[i] ELSE g[i - 1] \o s[i]]
  BY <1>1, <1>4
<1> QED
  BY <1>5 DEF Joined

LEMMA JoinedExists ==
  ASSUME NEW s, NEW n \in Nat, n > 0
  PROVE  \E f : Joined(f, s, n)
<1> DEFINE Bad == {m \in Nat : m > 0 /\ ~ \E f : Joined(f, s, m)}
<1> SUFFICES ASSUME n \in Bad PROVE FALSE
  OBVIOUS
<1>1. PICK m \in Bad : \A k \in Bad : m <= k
  <2>1. Bad \subseteq Nat /\ Bad # {}
    OBVIOUS
  <2> HIDE DEF Bad
  <2> QED
    BY <2>1, Smallest
<1>2. m \in Nat /\ m > 0 /\ ~ \E f : Joined(f, s, m)
  OBVIOUS
<1>3. CASE m = 1
  <2>1. Joined([i \in 1 .. 1 |-> s[i]], s, 1)
    BY DEF Joined
  <2> QED
    BY <1>2, <1>3, <2>1
<1>4. CASE m # 1
  <2>1. m - 1 \in Nat /\ m - 1 > 0 /\ ~ (m <= m - 1) /\ (m - 1) + 1 = m
    BY <1>2, <1>4
  <2>2. \E f : Joined(f, s, m - 1)
    BY <1>1, <2>1
  <2> QED
    BY <1>2, <2>1, <2>2, JoinedNext
<1> QED
  BY <1>3, <1>4

LEMMA Flattened ==
  ASSUME NEW s, Len(s) \in Nat, Len(s) > 0
  PROVE  \E f : Joined(f, s, Len(s)) /\ FlattenSeq(s) = f[Len(s)]
<1> DEFINE f == CHOOSE f : f = [i \in 1 .. Len(s) |-> IF i = 1 THEN s[i] ELSE f[i - 1] \o s[i]]
<1>1. FlattenSeq(s) = f[Len(s)]
  BY DEF FlattenSeq
<1>2. Joined(f, s, Len(s))
  BY JoinedExists DEF Joined
<1> QED
  BY <1>1, <1>2

\* One after the other the entries of rows that hold one at most.
LEMMA FlattenRows ==
  ASSUME NEW T, NEW s \in Seq(Seq(T)), 
         \A i \in 1 .. Len(s) : s[i] = <<>> \/ \E x \in T : s[i] = <<x>>,
         \A i, k \in 1 .. Len(s) : s[i] # <<>> /\ s[i] = s[k] => i = k
  PROVE  LET r == FlattenSeq(s)
         IN  /\ r \in Seq(T)
             /\ \A j \in 1 .. Len(r) : \E i \in 1 .. Len(s) : s[i] = <<r[j]>>
             /\ \A j, k \in 1 .. Len(r) : r[j] = r[k] => j = k
<1> DEFINE n == Len(s)
<1>1. n \in Nat
  OBVIOUS
<1>2. CASE n = 0
  <2>1. s = <<>> /\ FlattenSeq(s) = <<>>
    BY <1>2 DEF FlattenSeq
  <2>2. PICK r : r = FlattenSeq(s)
    OBVIOUS
  <2>3. r \in Seq(T) /\ Len(r) = 0
    BY <2>1, <2>2
  <2>4. 1 .. Len(r) = {}
    BY <2>3
  <2> QED
    BY <2>2, <2>3, <2>4
<1>3. CASE n > 0
  <2> HIDE DEF n
  <2>1. PICK f : Joined(f, s, n) /\ FlattenSeq(s) = f[n]
    BY <1>1, <1>3, Flattened DEF n
  <2> DEFINE Good(m) == /\ f[m] \in Seq(T)
                        /\ \A j \in 1 .. Len(f[m]) : \E i \in 1 .. m : s[i] = <<f[m][j]>>
                        /\ \A j, k \in 1 .. Len(f[m]) : f[m][j] = f[m][k] => j = k
             Bad == {m \in 1 .. n : ~ Good(m)}
  <2>2. f[1] = s[1] /\ \A m \in 2 .. n : f[m] = f[m - 1] \o s[m]
    <3>1. \A i \in 1 .. n : f[i] = IF i = 1 THEN s[i] ELSE f[i - 1] \o s[i]
      BY <2>1 DEF Joined
    <3>2. 1 \in 1 .. n /\ \A m \in 2 .. n : m \in 1 .. n /\ m # 1
      BY <1>1, <1>3
    <3> QED
      BY <3>1, <3>2
  <2>3. s[1] \in Seq(T) /\ (s[1] = <<>> \/ \E x \in T : s[1] = <<x>>)
    BY <1>1, <1>3 DEF n
  <2>4. Good(1)
    <3>1. CASE s[1] = <<>>
      BY <2>2, <3>1
    <3>2. CASE \E x \in T : s[1] = <<x>>
      BY <2>2, <3>2
    <3> QED
      BY <2>3, <3>1, <3>2
  <2>5. ASSUME NEW m \in 2 .. n, Good(m - 1)
        PROVE  Good(m)
    <3> DEFINE r == f[m - 1]
    <3>1. m - 1 \in 1 .. n /\ 1 .. m - 1 \subseteq 1 .. n /\ 1 .. m - 1 \subseteq 1 .. m /\ m \in 1 .. m /\ m \notin 1 .. m - 1 /\ m \in 1 .. n
      BY <1>1
    <3>2. /\ r \in Seq(T)
          /\ \A j \in 1 .. Len(r) : \E i \in 1 .. m - 1 : s[i] = <<r[j]>>
          /\ \A j, k \in 1 .. Len(r) : r[j] = r[k] => j = k
      BY <2>5
    <3>3. f[m] = r \o s[m] /\ (s[m] = <<>> \/ \E x \in T : s[m] = <<x>>)
      BY <2>2, <3>1 DEF n
    <3>4. CASE s[m] = <<>>
      <4>1. f[m] = r
        BY <3>2, <3>3, <3>4
      <4> QED
        BY <3>1, <3>2, <4>1
    <3>5. CASE \E x \in T : s[m] = <<x>>
      <4>1. PICK x \in T : s[m] = <<x>>
        BY <3>5
      <4>2. f[m] = Append(r, x)
        BY <3>2, <3>3, <4>1
      <4> HIDE DEF r
      <4> DEFINE q == Append(r, x)
      <4>3. q \in Seq(T) /\ Len(q) = Len(r) + 1 /\ Len(r) \in Nat /\ q[Len(r) + 1] = x
            /\ \A j \in 1 .. Len(r) : q[j] = r[j]
        BY <3>2
      <4> HIDE DEF q
      <4>4. \A j \in 1 .. Len(q) : j = Len(r) + 1 \/ j \in 1 .. Len(r)
        BY <4>3
      <4>5. \A j \in 1 .. Len(q) : \E i \in 1 .. m : s[i] = <<q[j]>>
        BY <3>1, <3>2, <4>1, <4>3, <4>4
      <4>6. \A j \in 1 .. Len(r) : r[j] # x
        <5> SUFFICES ASSUME NEW j \in 1 .. Len(r), r[j] = x PROVE FALSE
          OBVIOUS
        <5>1. PICK i \in 1 .. m - 1 : s[i] = <<x>>
          BY <3>2
        <5>2. s[i] = s[m] /\ s[i] # <<>>
          BY <4>1, <5>1
        <5>3. i \in 1 .. n /\ m \in 1 .. n
          BY <3>1
        <5> QED
          BY <3>1, <5>2, <5>3 DEF n
      <4>7. \A j, k \in 1 .. Len(q) : q[j] = q[k] => j = k
        BY <3>2, <4>3, <4>4, <4>6
      <4> QED
        BY <4>2, <4>3, <4>5, <4>7 DEF q
    <3> QED
      BY <3>3, <3>4, <3>5
  <2>6. Bad = {}
    <3> SUFFICES ASSUME Bad # {} PROVE FALSE
      OBVIOUS
    <3>1. PICK m \in Bad : \A k \in Bad : m <= k
      <4>0. 1 .. n \subseteq Nat
        BY <1>1
      <4> HIDE DEF Good
      <4>1. Bad \subseteq Nat /\ Bad # {}
        BY <4>0
      <4> HIDE DEF Bad
      <4> QED
        BY <4>1, Smallest
    <3>2. m \in 1 .. n /\ ~ Good(m)
      OBVIOUS
    <3> HIDE DEF Good
    <3>3. m # 1 
      BY <2>4, <3>2
    <3>4. m \in 2 .. n /\ m - 1 \in 1 .. n /\ ~ (m <= m - 1)
      BY <1>1, <3>2, <3>3
    <3>5. Good(m - 1)
      BY <3>1, <3>4
    <3> QED
      BY <2>5, <3>2, <3>4, <3>5
  <2>7. Good(n)
    <3> HIDE DEF Good
    <3>1. n \in 1 .. n
      BY <1>1, <1>3
    <3> QED
      BY <2>6, <3>1
  <2> QED
    BY <2>1, <2>7 DEF n
<1>4. n = 0 \/ n > 0
  BY <1>1
<1> QED
  BY <1>2, <1>3, <1>4

------------------------------------------------------------------------------
(***************************************************************************)
(* What fits stays fitting wherever its row is appended.                   *)
(***************************************************************************)
LEMMA EntryFields ==
    \A e \in Entries :
        /\ e.op \in {"call", "ret", "nullInit", "label", "goto", "ifFalseGoto",
                      "beforeCopy", "deconstruct", "copy"}
        /\ e.op = "nullInit" => e.unit.var \in Local
        /\ e.op \in {"label", "goto", "ifFalseGoto"} => e.label \in Nat
        /\ e.op \in {"beforeCopy", "deconstruct"} => e.unit \in Unit /\ e.sweep \in BOOLEAN
        /\ e.op = "copy" => e.dest \in Unit /\ e.src \in Unit /\ e.counted \in BOOLEAN
BY DEF Entries, Call, Ret, NullInit, Whole

\* c stands in d, n entries further down.
Within(c, d, n) == \A i \in DOMAIN c : i + n \in DOMAIN d /\ d[i + n] = c[i]

LEMMA SweepsWithin ==
    ASSUME NEW c \in Seq(Entries), NEW d \in Seq(Entries), NEW n \in Nat, Within(c, d, n),
           NEW i \in Nat, i >= 1, NEW S, SweepsOnly(c, i, S)
    PROVE  SweepsOnly(d, i + n, S)
<1>1. PICK k \in DOMAIN c :
        /\ i <= k /\ c[k].op = "ret"
        /\ \A j \in i .. k - 1 : c[j].op = "deconstruct" /\ c[j].sweep /\ c[j].unit.var \in S
  BY DEF SweepsOnly
<1>2. DOMAIN c = 1 .. Len(c) /\ Len(c) \in Nat /\ DOMAIN d = 1 .. Len(d) /\ Len(d) \in Nat
  OBVIOUS
<1>3. k + n \in DOMAIN d /\ i + n <= k + n /\ d[k + n].op = "ret"
  BY <1>1, <1>2 DEF Within
<1>4. ASSUME NEW j \in i + n .. k + n - 1
      PROVE  d[j].op = "deconstruct" /\ d[j].sweep /\ d[j].unit.var \in S
  <2>1. j - n \in i .. k - 1 /\ j - n \in DOMAIN c /\ (j - n) + n = j
    BY <1>1, <1>2
  <2>2. d[j] = c[j - n]
    BY <2>1 DEF Within
  <2> QED
    BY <1>1, <2>1, <2>2
<1> QED
  BY <1>3, <1>4 DEF SweepsOnly

LEMMA CalledWithin ==
    ASSUME NEW c \in Seq(Entries), NEW d \in Seq(Entries), NEW n \in Nat, Within(c, d, n),
           NEW i \in DOMAIN c, Called(c, i)
    PROVE  Called(d, i + n)
<1>1. i \in Nat /\ (i + n) - 1 = (i - 1) + n /\ (i + n) - 2 = (i - 2) + n
  OBVIOUS
<1>2. i - 2 \in DOMAIN c => i - 1 \in DOMAIN c
  OBVIOUS
<1> QED
  BY <1>1, <1>2 DEF Within, Called

LEMMA FitsWithin ==
    ASSUME NEW c \in Seq(Entries), NEW d \in Seq(Entries), NEW n \in Nat, Within(c, d, n),
           NEW i \in DOMAIN c, Fits(c, i)
    PROVE  Fits(d, i + n)
<1>1. /\ i \in Nat /\ i >= 1 /\ d[i + n] = c[i]
      /\ (i + n) - 1 = (i - 1) + n /\ (i + n) - 2 = (i - 2) + n /\ (i + n) + 1 = (i + 1) + n
  BY DEF Within
<1>2. \A k \in DOMAIN c : k + n \in DOMAIN d /\ d[k + n] = c[k]
  BY DEF Within
<1>3. Called(c, i) => Called(d, i + n)
  BY CalledWithin
<1>4. \A S : SweepsOnly(c, i + 1, S) => SweepsOnly(d, (i + 1) + n, S)
  BY <1>1, SweepsWithin, SMTT(30)
<1>5. Arrives(c, i) => Arrives(d, i + n)
  BY <1>1, <1>2 DEF Arrives
<1>6. ASSUME Returns(c, i) PROVE Returns(d, i + n)
  <2>1. SweepsOnly(d, (i + n) + 1, Swept)
    BY <1>1, <1>4, <1>6 DEF Returns
  <2>2. PICK k : k = i + n
    OBVIOUS
  <2>3. d[k] = c[i] /\ k - 1 = (i - 1) + n
    BY <1>1, <2>2
  <2>4. IF d[k].counted
          THEN k - 1 \in DOMAIN d /\ d[k - 1].op = "beforeCopy" /\ d[k - 1].unit = d[k].src
          ELSE d[k].src.var \in {"p", "self"} \/ (d[k].src.var = "callee" /\ Called(d, k))
    BY <1>2, <1>3, <1>6, <2>2, <2>3 DEF Returns
  <2> QED
    BY <2>1, <2>2, <2>4 DEF Returns
<1>7. PICK e, k : e = c[i] /\ k = i + n /\ d[k] = e
  BY <1>1
<1>8. e.op = "beforeCopy" =>
        e.unit \in Copied /\ (e.unit.var = "callee" => Called(d, k))
  BY <1>3, <1>7 DEF Fits
<1>9. e.op = "deconstruct" =>
        IF e.sweep
          THEN e.unit.var \in Swept /\ SweepsOnly(d, k + 1, Swept \ {e.unit.var})
          ELSE /\ e.unit \in Overwritten /\ k + 1 \in DOMAIN d
               /\ d[k + 1].op = "copy" /\ d[k + 1].dest = e.unit
  <2>1. k + 1 = (i + 1) + n
    BY <1>1, <1>7
  <2> QED
    BY <1>2, <1>4, <1>7, <2>1 DEF Fits
<1>10. e.op = "copy" => IF e.dest.var = "return" THEN Returns(d, k) ELSE Arrives(d, k)
  BY <1>5, <1>6, <1>7 DEF Fits
<1> QED
  BY <1>7, <1>8, <1>9, <1>10 DEF Fits

LEMMA Joins ==
    ASSUME NEW a \in Seq(Entries), NEW b \in Seq(Entries)
    PROVE  /\ a \o b \in Seq(Entries) /\ Len(a \o b) = Len(a) + Len(b)
           /\ Len(a) \in Nat /\ Len(b) \in Nat /\ DOMAIN (a \o b) = 1 .. Len(a) + Len(b)
           /\ Within(a, a \o b, 0) /\ Within(b, a \o b, Len(a))
           /\ \A i \in DOMAIN (a \o b) : i \in DOMAIN a \/ (i - Len(a) \in DOMAIN b /\ (i - Len(a)) + Len(a) = i)
<1> DEFINE c == a \o b
<1>1. /\ c \in Seq(Entries) /\ Len(c) = Len(a) + Len(b) /\ Len(a) \in Nat /\ Len(b) \in Nat
      /\ DOMAIN c = 1 .. Len(a) + Len(b) /\ DOMAIN a = 1 .. Len(a) /\ DOMAIN b = 1 .. Len(b)
  OBVIOUS
<1>2. \A i \in 1 .. Len(a) : c[i] = a[i]
  OBVIOUS
<1>3. \A i \in 1 .. Len(b) : c[i + Len(a)] = b[i]
  OBVIOUS
<1> HIDE DEF c
<1>4. Within(a, c, 0)
  BY <1>1, <1>2 DEF Within
<1>5. Within(b, c, Len(a))
  BY <1>1, <1>3 DEF Within
<1>6. \A i \in DOMAIN c : i \in DOMAIN a \/ (i - Len(a) \in DOMAIN b /\ (i - Len(a)) + Len(a) = i)
  BY <1>1
<1> QED
  BY <1>1, <1>4, <1>5, <1>6 DEF c

LEMMA Follows ==
    ASSUME NEW a, NEW b, WellFormed(a), WellFormed(b)
    PROVE  WellFormed(a \o b)
<1>1. a \in Seq(Entries) /\ b \in Seq(Entries)
  BY DEF WellFormed
<1> DEFINE c == a \o b
<1>2. /\ c \in Seq(Entries) /\ Len(a) \in Nat /\ Within(a, c, 0) /\ Within(b, c, Len(a))
      /\ \A i \in DOMAIN c : i \in DOMAIN a \/ (i - Len(a) \in DOMAIN b /\ (i - Len(a)) + Len(a) = i)
  BY <1>1, Joins
<1> HIDE DEF c
<1>3. ASSUME NEW i \in DOMAIN c PROVE Fits(c, i)
  <2>1. CASE i \in DOMAIN a
    <3>1. i + 0 = i /\ Fits(a, i)
      BY <1>1, <2>1 DEF WellFormed
    <3>2. Fits(c, i + 0)
      BY <1>1, <1>2, <2>1, <3>1, FitsWithin
    <3> QED
      BY <3>1, <3>2
  <2>2. CASE i - Len(a) \in DOMAIN b /\ (i - Len(a)) + Len(a) = i
    <3>1. PICK k \in DOMAIN b : k = i - Len(a) /\ k + Len(a) = i
      BY <2>2
    <3>2. Fits(c, k + Len(a))
      BY <1>1, <1>2, <3>1, FitsWithin DEF WellFormed
    <3> QED
      BY <3>1, <3>2
  <2> QED
    BY <1>2, <2>1, <2>2
<1> QED
  BY <1>2, <1>3 DEF WellFormed, c

\* Entries that touch no reference fit anywhere.
LEMMA PlainFits ==
    /\ WellFormed(<<>>)
    /\ \A e \in Entries : e.op \notin {"beforeCopy", "deconstruct", "copy"} => WellFormed(<<e>>)
<1>1. WellFormed(<<>>)
  BY DEF WellFormed
<1>2. ASSUME NEW e \in Entries, e.op \notin {"beforeCopy", "deconstruct", "copy"}
      PROVE  WellFormed(<<e>>)
  BY <1>2 DEF WellFormed, Fits
<1> QED
  BY <1>1, <1>2

------------------------------------------------------------------------------
(***************************************************************************)
(* The rows that statements emit.                                          *)
(***************************************************************************)
hookOn(u, hook, sweep) == [op |-> hook, unit |-> u, sweep |-> sweep]
copyOf(d, s, counted)  == [op |-> "copy", dest |-> d, src |-> s, counted |-> counted]

LEMMA Alike ==
    ASSUME NEW T, NEW a \in Seq(T), NEW b \in Seq(T), Len(a) = Len(b),
           \A i \in 1 .. Len(a) : a[i] = b[i]
    PROVE  a = b
OBVIOUS

LEMMA Behind ==
    ASSUME NEW T, NEW a \in Seq(T), NEW z \in T, NEW c, c = a \o <<z>>
    PROVE  /\ c \in Seq(T) /\ Len(a) \in Nat /\ Len(c) = Len(a) + 1 /\ c[Len(a) + 1] = z
           /\ \A i \in 1 .. Len(a) : c[i] = a[i]
<1>1. c = Append(a, z)
  OBVIOUS
<1> QED
  BY <1>1

LEMMA Pair ==
    ASSUME NEW T, NEW x \in T, NEW z \in T
    PROVE  <<x>> \o <<z>> = <<x, z>>
<1> DEFINE a == <<x>>
           d == <<x, z>>
<1>1. a \in Seq(T) /\ Len(a) = 1 /\ a[1] = x
  OBVIOUS
<1>2. d \in Seq(T) /\ Len(d) = 2 /\ d[1] = x /\ d[2] = z
  OBVIOUS
<1> HIDE DEF a, d
<1>3. PICK c : c = a \o <<z>>
  OBVIOUS
<1>4. c \in Seq(T) /\ Len(c) = 2 /\ c[1] = x /\ c[2] = z
  BY <1>1, <1>3, Behind
<1>5. \A i \in 1 .. 2 : i = 1 \/ i = 2
  OBVIOUS
<1>6. c = d
  BY <1>2, <1>4, <1>5, Alike
<1> QED
  BY <1>3, <1>6 DEF a, d

LEMMA Triple ==
    ASSUME NEW T, NEW x \in T, NEW y \in T, NEW z \in T
    PROVE  <<x>> \o <<y>> \o <<z>> = <<x, y, z>>
<1> DEFINE a == <<x, y>>
           d == <<x, y, z>>
<1>1. a \in Seq(T) /\ Len(a) = 2 /\ a[1] = x /\ a[2] = y
  OBVIOUS
<1>2. d \in Seq(T) /\ Len(d) = 3 /\ d[1] = x /\ d[2] = y /\ d[3] = z
  OBVIOUS
<1>3. <<x>> \o <<y>> = a
  BY Pair
<1> HIDE DEF a, d
<1>4. PICK c : c = a \o <<z>>
  OBVIOUS
<1>5. c \in Seq(T) /\ Len(c) = 3 /\ c[1] = x /\ c[2] = y /\ c[3] = z
  BY <1>1, <1>4, Behind
<1>6. \A i \in 1 .. 3 : i = 1 \/ i = 2 \/ i = 3
  OBVIOUS
<1>7. c = d
  BY <1>2, <1>5, <1>6, Alike
<1> QED
  BY <1>3, <1>4, <1>7 DEF d

LEMMA HookEntries ==
    ASSUME NEW u \in Unit, NEW hook \in {"beforeCopy", "deconstruct"}, NEW x \in BOOLEAN
    PROVE  /\ hookOn(u, hook, x) \in Entries /\ hookOn(u, hook, x).op = hook
           /\ hookOn(u, hook, x).unit = u /\ hookOn(u, hook, x).sweep = x
BY DEF hookOn, Entries

LEMMA CopyEntries ==
    ASSUME NEW d \in Unit, NEW s \in Unit, NEW x \in BOOLEAN
    PROVE  /\ copyOf(d, s, x) \in Entries /\ copyOf(d, s, x).op = "copy"
           /\ copyOf(d, s, x).dest = d /\ copyOf(d, s, x).src = s /\ copyOf(d, s, x).counted = x
BY DEF copyOf, Entries

\* unitCopy to a variable.
LEMMA CopyRow ==
    ASSUME NEW d \in Overwritten, NEW s \in Copied
    PROVE  unitCopy(d, s) =
             IF d = Whole("self")
               THEN <<hookOn(s, "beforeCopy", FALSE), copyOf(d, s, TRUE)>>
               ELSE <<hookOn(s, "beforeCopy", FALSE), hookOn(d, "deconstruct", FALSE), copyOf(d, s, TRUE)>>
<1>1. isLocalOrGlobalAndNotParam(d) /\ retains(d, s) /\ s # Whole("self")
  BY DEF isLocalOrGlobalAndNotParam, isLocalOrGlobal, retains, Overwritten, Copied
<1>2. callResourceMgmtHook(s, "beforeCopy", FALSE) = <<hookOn(s, "beforeCopy", FALSE)>>
  BY <1>1 DEF callResourceMgmtHook, shouldCallResourceMgmtHook, hookOn
<1>3. CopyEntry(d, s, retains(d, s) /\ shouldCallResourceMgmtHook(s)) = <<copyOf(d, s, TRUE)>>
  BY <1>1 DEF CopyEntry, shouldCallResourceMgmtHook, copyOf
<1>4. callResourceMgmtHook(d, "deconstruct", FALSE) =
        IF d = Whole("self") THEN <<>> ELSE <<hookOn(d, "deconstruct", FALSE)>>
  BY DEF callResourceMgmtHook, shouldCallResourceMgmtHook, hookOn
<1>5. /\ hookOn(s, "beforeCopy", FALSE) \in Entries /\ hookOn(d, "deconstruct", FALSE) \in Entries
      /\ copyOf(d, s, TRUE) \in Entries
  BY HookEntries, CopyEntries DEF Overwritten, Copied
<1> DEFINE x == hookOn(s, "beforeCopy", FALSE)
           y == hookOn(d, "deconstruct", FALSE)
           z == copyOf(d, s, TRUE)
<1>6. unitCopy(d, s) = IF d = Whole("self") THEN <<x>> \o <<>> \o <<z>> ELSE <<x>> \o <<y>> \o <<z>>
  BY <1>1, <1>2, <1>3, <1>4 DEF unitCopy
<1>7. x \in Entries /\ y \in Entries /\ z \in Entries
  BY <1>5
<1> HIDE DEF x, y, z
<1>8. <<x>> \o <<>> = <<x>>
  OBVIOUS
<1>9. <<x>> \o <<z>> = <<x, z>>
  BY <1>7, Pair
<1>10. <<x>> \o <<y>> \o <<z>> = <<x, y, z>>
  BY <1>7, Triple
<1> QED
  BY <1>6, <1>8, <1>9, <1>10 DEF x, y, z

\* A row that ends with a call, or with the null initialisation of a local behind it.
Calls(p) ==
    \/ Len(p) > 0 /\ p[Len(p)].op = "call"
    \/ Len(p) > 1 /\ p[Len(p)].op = "nullInit" /\ p[Len(p) - 1].op = "call"

LEMMA CallAlone == Calls(<<Call>>)
<1>1. PICK e : e = Call
  OBVIOUS
<1>2. e.op = "call"
  BY <1>1 DEF Call
<1>3. Calls(<<e>>)
  BY <1>2 DEF Calls
<1> QED
  BY <1>1, <1>3

LEMMA CalledBehind ==
    ASSUME NEW p \in Seq(Entries), NEW u \in Seq(Entries), Calls(p)
    PROVE  Called(p \o u, Len(p) + 1)
<1> DEFINE c == p \o u
<1>1. /\ Len(p) \in Nat /\ Within(p, c, 0) /\ DOMAIN p = 1 .. Len(p)
  BY Joins
<1> HIDE DEF c
<1>2. \A i \in 1 .. Len(p) : i \in DOMAIN c /\ c[i] = p[i]
  BY <1>1 DEF Within
<1>3. (Len(p) + 1) - 1 = Len(p) /\ (Len(p) + 1) - 2 = Len(p) - 1
  BY <1>1
<1>4. CASE Len(p) > 0 /\ p[Len(p)].op = "call"
  <2>1. Len(p) \in 1 .. Len(p)
    BY <1>1, <1>4
  <2> QED
    BY <1>2, <1>3, <1>4, <2>1 DEF Called, c
<1>5. CASE Len(p) > 1 /\ p[Len(p)].op = "nullInit" /\ p[Len(p) - 1].op = "call"
  <2>1. Len(p) \in 1 .. Len(p) /\ Len(p) - 1 \in 1 .. Len(p)
    BY <1>1, <1>5
  <2> QED
    BY <1>2, <1>3, <1>5, <2>1 DEF Called, c
<1> QED
  BY <1>4, <1>5 DEF Calls

LEMMA CopyFits ==
    ASSUME NEW p, WellFormed(p), NEW d \in Overwritten, NEW s \in Copied,
           s.var = "callee" => Calls(p)
    PROVE  WellFormed(p \o unitCopy(d, s))
<1> DEFINE B == hookOn(s, "beforeCopy", FALSE)
           D == hookOn(d, "deconstruct", FALSE)
           C == copyOf(d, s, TRUE)
           u == unitCopy(d, s)
           c == p \o u
<1>1. p \in Seq(Entries) /\ s \in Unit /\ d \in Unit /\ d.var # "return"
  BY LocalOrderIsLocal DEF WellFormed, Overwritten, Copied, Variable
<1>2. B \in Entries /\ B.op = "beforeCopy" /\ B.unit = s
  BY <1>1, HookEntries
<1>3. D \in Entries /\ D.op = "deconstruct" /\ D.unit = d /\ D.sweep = FALSE
  BY <1>1, HookEntries
<1>4. C \in Entries /\ C.op = "copy" /\ C.dest = d /\ C.src = s /\ C.counted = TRUE
  BY <1>1, CopyEntries, ZenonT(30)
<1>5. u = IF d = Whole("self") THEN <<B, C>> ELSE <<B, D, C>>
  BY CopyRow
<1> HIDE DEF B, D, C
<1>6. /\ p \in Seq(Entries) /\ s \in Unit /\ d \in Unit /\ d.var # "return"
      /\ B \in Entries /\ B.op = "beforeCopy" /\ B.unit = s
      /\ D \in Entries /\ D.op = "deconstruct" /\ D.unit = d /\ D.sweep = FALSE
      /\ C \in Entries /\ C.op = "copy" /\ C.dest = d /\ C.src = s /\ C.counted = TRUE
  BY <1>1, <1>2, <1>3, <1>4
<1>7. /\ u \in Seq(Entries)
      /\ d = Whole("self") => Len(u) = 2 /\ u[1] = B /\ u[2] = C
      /\ d # Whole("self") => Len(u) = 3 /\ u[1] = B /\ u[2] = D /\ u[3] = C
  BY <1>6, <1>5
<1> HIDE DEF u
<1>8. /\ c \in Seq(Entries) /\ Len(p) \in Nat /\ Len(u) \in Nat /\ DOMAIN c = 1 .. Len(p) + Len(u)
      /\ Within(p, c, 0) /\ Within(u, c, Len(p))
  BY <1>6, <1>7, Joins
<1>9. s.var = "callee" => Called(c, Len(p) + 1)
  BY <1>6, <1>7, CalledBehind
<1> HIDE DEF c
<1>10. PICK n \in Nat : n = Len(p)
  BY <1>8
<1>11. /\ d = Whole("self") => DOMAIN c = 1 .. n + 2 /\ c[n + 1] = B /\ c[n + 2] = C
       /\ d # Whole("self") => DOMAIN c = 1 .. n + 3 /\ c[n + 1] = B /\ c[n + 2] = D /\ c[n + 3] = C
  <2>1. \A i \in 1 .. Len(u) : c[i + n] = u[i]
    BY <1>7, <1>8, <1>10 DEF Within
  <2>2. n + 1 = 1 + n /\ n + 2 = 2 + n /\ n + 3 = 3 + n
    BY <1>10
  <2>3. CASE d = Whole("self")
    <3>1. 1 \in DOMAIN u /\ 2 \in DOMAIN u /\ Len(u) = 2 /\ u[1] = B /\ u[2] = C
      BY <1>7, <2>3
    <3>2. c[n + 1] = B /\ c[n + 2] = C
      BY <2>1, <2>2, <3>1
    <3> QED
      BY <1>8, <1>10, <2>3, <3>1, <3>2
  <2>4. CASE d # Whole("self")
    <3>1. /\ 1 \in DOMAIN u /\ 2 \in DOMAIN u /\ 3 \in DOMAIN u /\ Len(u) = 3
          /\ u[1] = B /\ u[2] = D /\ u[3] = C
      BY <1>7, <2>4
    <3>2. c[n + 1] = B /\ c[n + 2] = D /\ c[n + 3] = C
      BY <2>1, <2>2, <3>1
    <3> QED
      BY <1>8, <1>10, <2>4, <3>1, <3>2
  <2> QED
    BY <2>3, <2>4
<1>12. ASSUME NEW i \in 1 .. n PROVE Fits(c, i)
  <2>1. i \in DOMAIN p /\ Fits(p, i) /\ i + 0 = i
    BY <1>6, <1>10 DEF WellFormed
  <2>2. Fits(c, i + 0)
    BY <1>6, <1>8, <2>1, FitsWithin
  <2> QED
    BY <2>1, <2>2
<1>13. Fits(c, n + 1)
  BY <1>6, <1>9, <1>10, <1>11 DEF Fits
<1>14. CASE d = Whole("self")
  <2>1. Arrives(c, n + 2)
    <3>1. (n + 2) - 1 = n + 1 /\ n + 1 \in DOMAIN c
      BY <1>11, <1>14
    <3> QED
      BY <1>6, <1>11, <1>14, <3>1 DEF Arrives
  <2>2. Fits(c, n + 2)
    BY <1>6, <1>11, <1>14, <2>1 DEF Fits
  <2>3. \A i \in DOMAIN c : i \in 1 .. n \/ i = n + 1 \/ i = n + 2
    BY <1>11, <1>14
  <2>4. \A i \in DOMAIN c : Fits(c, i)
    BY <1>12, <1>13, <2>2, <2>3
  <2>5. WellFormed(c)
    BY <1>8, <2>4 DEF WellFormed
  <2> QED
    BY <2>5 DEF c, u
<1>15. CASE d # Whole("self")
  <2>1. Arrives(c, n + 3)
    <3>1. (n + 3) - 1 = n + 2 /\ (n + 3) - 2 = n + 1 /\ n + 1 \in DOMAIN c /\ n + 2 \in DOMAIN c
      BY <1>11, <1>15
    <3> QED
      BY <1>6, <1>11, <1>15, <3>1 DEF Arrives
  <2>2. Fits(c, n + 3)
    BY <1>6, <1>11, <1>15, <2>1 DEF Fits
  <2>3. Fits(c, n + 2)
    <3>1. (n + 2) + 1 = n + 3 /\ n + 3 \in DOMAIN c
      BY <1>11, <1>15
    <3> QED
      BY <1>6, <1>11, <1>15, <3>1 DEF Fits
  <2>4. \A i \in DOMAIN c : i \in 1 .. n \/ i = n + 1 \/ i = n + 2 \/ i = n + 3
    BY <1>11, <1>15
  <2>5. \A i \in DOMAIN c : Fits(c, i)
    BY <1>12, <1>13, <2>2, <2>3, <2>4
  <2>6. WellFormed(c)
    BY <1>8, <2>5 DEF WellFormed
  <2> QED
    BY <2>6 DEF c, u
<1> QED
  BY <1>14, <1>15

\* The hooks on the locals that are in the symbol table when a return is compiled.
SweepEntries == {hookOn(Whole(v), "deconstruct", TRUE) : v \in Swept}

LEMMA SweepEntryFields ==
    \A e \in SweepEntries : /\ e \in Entries /\ e.op = "deconstruct" /\ e.sweep
                            /\ e.unit.var \in Swept
                            /\ \A f \in SweepEntries : f.unit.var = e.unit.var => f = e
<1>1. ASSUME NEW e \in SweepEntries
      PROVE  /\ e.unit.var \in Swept /\ e = hookOn(Whole(e.unit.var), "deconstruct", TRUE)
             /\ e \in Entries /\ e.op = "deconstruct" /\ e.sweep
  <2>1. PICK v \in Swept : e = hookOn(Whole(v), "deconstruct", TRUE)
    BY DEF SweepEntries
  <2>2. Whole(v) \in Unit /\ Whole(v).var = v
    BY DEF Whole, Unit, Storage, Variable, Swept
  <2>3. e \in Entries /\ e.op = "deconstruct" /\ e.unit = Whole(v) /\ e.sweep = TRUE
    BY <2>1, <2>2, HookEntries
  <2> QED
    BY <2>1, <2>2, <2>3
<1> QED
  BY <1>1

LEMMA SweepRow ==
    ASSUME symbols \subseteq Local
    PROVE  \E r \in Seq(SweepEntries) :
              /\ callDeconstructorOnDeclaredSymbols = r
              /\ \A j, k \in 1 .. Len(r) : r[j] = r[k] => j = k
              /\ \A j \in 1 .. Len(r) : r[j].unit.var \in symbols
<1> DEFINE row(v) == IF v \in symbols THEN callResourceMgmtHook(Whole(v), "deconstruct", TRUE) ELSE <<>>
           s == [i \in DOMAIN LocalOrder |-> row(LocalOrder[i])]
           T == {x \in SweepEntries : x.unit.var \in symbols}
<1>1. /\ LocalOrder \in Seq(Local)
      /\ \A i, k \in DOMAIN LocalOrder : LocalOrder[i] = LocalOrder[k] => i = k
  BY LocalOrderIsLocal DEF IsInjective
<1>2. ASSUME NEW v \in Local
      PROVE  row(v) = <<>> \/ (v \in Swept \cap symbols /\ row(v) = <<hookOn(Whole(v), "deconstruct", TRUE)>>)
  <2>1. Whole(v) # Whole("self") <=> v # "self"
    BY DEF Whole
  <2>2. callResourceMgmtHook(Whole(v), "deconstruct", TRUE) =
          IF v # "self" THEN <<hookOn(Whole(v), "deconstruct", TRUE)>> ELSE <<>>
    BY <2>1 DEF callResourceMgmtHook, shouldCallResourceMgmtHook, hookOn
  <2> QED
    BY <2>2 DEF Swept
<1> HIDE DEF row, T
<1>3. ASSUME NEW v \in Local, row(v) # <<>>
      PROVE  \E x \in T : row(v) = <<x>> /\ x.unit.var = v
  <2>1. v \in Swept \cap symbols /\ row(v) = <<hookOn(Whole(v), "deconstruct", TRUE)>>
    BY <1>2, <1>3
  <2>2. Whole(v) \in Unit /\ Whole(v).var = v
    BY DEF Whole, Unit, Storage, Variable
  <2>3. hookOn(Whole(v), "deconstruct", TRUE).unit = Whole(v)
    BY <2>2, HookEntries
  <2> QED
    BY <2>1, <2>2, <2>3 DEF SweepEntries, T
<1>4. \A v \in Local : row(v) \in Seq(T)
  <2> TAKE v \in Local
  <2>1. CASE row(v) = <<>>
    BY <2>1
  <2>2. CASE row(v) # <<>>
    <3>1. PICK x \in T : row(v) = <<x>>
      BY <1>3, <2>2
    <3> QED
      BY <3>1
  <2> QED
    BY <2>1, <2>2
<1>5. s \in Seq(Seq(T)) /\ Len(s) = Len(LocalOrder)
      /\ \A i \in 1 .. Len(s) : i \in DOMAIN LocalOrder /\ s[i] = row(LocalOrder[i]) /\ LocalOrder[i] \in Local
  BY <1>1, <1>4
<1>6. FlattenSeq(s) = callDeconstructorOnDeclaredSymbols
  BY DEF callDeconstructorOnDeclaredSymbols, row
<1> HIDE DEF s
<1>7. \A i \in 1 .. Len(s) : s[i] = <<>> \/ \E x \in T : s[i] = <<x>>
  BY <1>3, <1>5
<1>8. ASSUME NEW i \in 1 .. Len(s), NEW k \in 1 .. Len(s), s[i] # <<>>, s[i] = s[k]
      PROVE  i = k
  <2>1. PICK x \in T : s[i] = <<x>> /\ x.unit.var = LocalOrder[i]
    BY <1>3, <1>5, <1>8
  <2>2. PICK y \in T : s[k] = <<y>> /\ y.unit.var = LocalOrder[k]
    BY <1>3, <1>5, <1>8
  <2>3. x = y
    <3>1. <<x>>[1] = <<y>>[1]
      BY <1>8, <2>1, <2>2
    <3> QED
      BY <3>1
  <2> QED
    BY <1>1, <1>5, <2>1, <2>2, <2>3
<1>9. PICK r : r = FlattenSeq(s)
  OBVIOUS
<1>10. r \in Seq(T) /\ \A j, k \in 1 .. Len(r) : r[j] = r[k] => j = k
  BY <1>5, <1>7, <1>8, <1>9, FlattenRows
<1>11. /\ r \in Seq(SweepEntries)
       /\ \A j \in 1 .. Len(r) : r[j].unit.var \in symbols
  BY <1>10 DEF T
<1>12. /\ callDeconstructorOnDeclaredSymbols = r
       /\ \A j, k \in 1 .. Len(r) : r[j] = r[k] => j = k
       /\ \A j \in 1 .. Len(r) : r[j].unit.var \in symbols
  BY <1>6, <1>9, <1>10, <1>11
<1> QED
  BY <1>11, <1>12

LEMMA SweepFits ==
    ASSUME NEW r \in Seq(SweepEntries), \A j, k \in 1 .. Len(r) : r[j] = r[k] => j = k,
           NEW c, c = r \o <<Ret>>
    PROVE  /\ WellFormed(c) /\ SweepsOnly(c, 1, Swept) /\ JumpsInto(c, {})
           /\ Len(c) > 0 /\ c[Len(c)] = Ret
<1>1. r \in Seq(Entries) /\ Ret \in Entries /\ Ret.op = "ret"
  BY SweepEntryFields DEF Entries, Ret
<1>2. PICK n \in Nat : n = Len(r)
  OBVIOUS
<1>3. /\ c \in Seq(Entries) /\ Len(c) = n + 1 /\ c[n + 1] = Ret
      /\ \A i \in 1 .. n : c[i] = r[i] /\ r[i] \in SweepEntries
  BY <1>1, <1>2, Behind
<1>4. DOMAIN c = 1 .. n + 1
  BY <1>3
<1>5. \A i \in 1 .. n : c[i] \in SweepEntries /\ c[i].op = "deconstruct" /\ c[i].sweep /\ c[i].unit.var \in Swept
  BY <1>3, SweepEntryFields
<1>6. n + 1 \in DOMAIN c /\ 1 <= n + 1 /\ c[n + 1].op = "ret" /\ (n + 1) - 1 = n
  BY <1>1, <1>3, <1>4
<1>7. SweepsOnly(c, 1, Swept)
  BY <1>5, <1>6 DEF SweepsOnly
<1>8. ASSUME NEW i \in 1 .. n PROVE Fits(c, i)
  <2>1. i + 1 <= n + 1
    OBVIOUS
  <2>2. ASSUME NEW j \in i + 1 .. n
        PROVE  c[j].op = "deconstruct" /\ c[j].sweep /\ c[j].unit.var \in Swept \ {c[i].unit.var}
    <3>1. j \in 1 .. n /\ j # i
      OBVIOUS
    <3>2. c[j] # c[i]
      BY <1>2, <1>3, <3>1
    <3> QED
      BY <1>5, <3>1, <3>2, SweepEntryFields
  <2>3. SweepsOnly(c, i + 1, Swept \ {c[i].unit.var})
    BY <1>6, <2>1, <2>2 DEF SweepsOnly
  <2> QED
    BY <1>5, <2>3 DEF Fits
<1>9. Fits(c, n + 1)
  BY <1>1, <1>3 DEF Fits
<1>10. \A i \in DOMAIN c : i \in 1 .. n \/ i = n + 1
  BY <1>4
<1>11. WellFormed(c)
  BY <1>3, <1>8, <1>9, <1>10 DEF WellFormed
<1>12. JumpsInto(c, {})
  BY <1>1, <1>3, <1>5, <1>10 DEF JumpsInto
<1> QED
  BY <1>1, <1>2, <1>3, <1>7, <1>11, <1>12

\* unitCopy to the return value.
LEMMA ReturnRow ==
    ASSUME NEW v \in Variable \cup {"callee"}
    PROVE  LET x == hookOn(Whole(v), "beforeCopy", FALSE)
               y == copyOf(Whole("return"), Whole(v), TRUE)
               z == copyOf(Whole("return"), Whole(v), FALSE)
           IN  unitCopy(Whole("return"), Whole(v)) =
                 IF v \in Variable \ {"p", "self"} THEN <<x, y>> ELSE <<z>>
<1> DEFINE s == Whole(v)
           d == Whole("return")
           x == hookOn(s, "beforeCopy", FALSE)
           y == copyOf(d, s, TRUE)
           z == copyOf(d, s, FALSE)
<1>1. /\ s \in Unit /\ s.var = v /\ d \in Unit /\ d.var = "return"
      /\ s = Whole("p") <=> v = "p"
      /\ s = Whole("self") <=> v = "self"
  BY DEF Whole, Unit, Storage, Variable
<1>2. "return" \notin Variable /\ "callee" \notin Variable
  BY LocalOrderIsLocal DEF Variable
<1>3. /\ ~ isLocalOrGlobalAndNotParam(d)
      /\ retains(d, s) <=> v \in Variable \ {"p"}
      /\ shouldCallResourceMgmtHook(s) <=> v # "self"
  BY <1>1, <1>2 DEF isLocalOrGlobalAndNotParam, isLocalOrGlobal, retains, shouldCallResourceMgmtHook
<1>4. x \in Entries /\ y \in Entries /\ z \in Entries
  BY <1>1, HookEntries, CopyEntries
<1>5. callResourceMgmtHook(s, "beforeCopy", FALSE) = IF v # "self" THEN <<x>> ELSE <<>>
  BY <1>3 DEF callResourceMgmtHook, hookOn
<1>6. CopyEntry(d, s, retains(d, s) /\ shouldCallResourceMgmtHook(s)) =
        IF v \in Variable \ {"p", "self"} THEN <<y>> ELSE <<z>>
  <2>1. PICK b \in BOOLEAN : b = (retains(d, s) /\ shouldCallResourceMgmtHook(s))
    BY DEF retains, shouldCallResourceMgmtHook
  <2>2. b = IF v \in Variable \ {"p", "self"} THEN TRUE ELSE FALSE
    BY <1>3, <2>1
  <2> QED
    BY <2>1, <2>2 DEF CopyEntry, copyOf
<1>7. unitCopy(d, s) =
        IF v \in Variable \ {"p", "self"} THEN <<x>> \o <<>> \o <<y>> ELSE <<>> \o <<>> \o <<z>>
  BY <1>3, <1>5, <1>6 DEF unitCopy
<1> HIDE DEF x, y, z, s, d
<1>8. <<x>> \o <<>> = <<x>> /\ <<>> \o <<>> = <<>>
  OBVIOUS
<1>9. <<x>> \o <<y>> = <<x, y>>
  BY <1>4, Pair
<1>10. <<>> \o <<z>> = <<z>>
  OBVIOUS
<1>11. unitCopy(d, s) = IF v \in Variable \ {"p", "self"} THEN <<x, y>> ELSE <<z>>
  BY <1>7, <1>8, <1>9, <1>10
<1> QED
  BY <1>11 DEF x, y, z, s, d

LEMMA ReturnFits ==
    ASSUME NEW p, WellFormed(p), NEW v \in Variable \cup {"callee"}, v = "callee" => Calls(p),
           NEW w, WellFormed(w), SweepsOnly(w, 1, Swept)
    PROVE  WellFormed(p \o unitCopy(Whole("return"), Whole(v)) \o w)
<1> DEFINE s == Whole(v)
           d == Whole("return")
           B == hookOn(s, "beforeCopy", FALSE)
           C == copyOf(d, s, TRUE)
           N == copyOf(d, s, FALSE)
           u == unitCopy(d, s)
           q == p \o u
           c == q \o w
           owns == v \in Variable \ {"p", "self"}
<1>1. /\ p \in Seq(Entries) /\ w \in Seq(Entries)
      /\ s \in Unit /\ s.var = v /\ d \in Unit /\ d.var = "return"
      /\ s = Whole("self") <=> v = "self"
  BY DEF WellFormed, Whole, Unit, Storage, Variable
<1>2. B \in Entries /\ B.op = "beforeCopy" /\ B.unit = s
  BY <1>1, HookEntries
<1>3. C \in Entries /\ C.op = "copy" /\ C.dest = d /\ C.src = s /\ C.counted = TRUE
  BY <1>1, CopyEntries
<1>4. N \in Entries /\ N.op = "copy" /\ N.dest = d /\ N.src = s /\ N.counted = FALSE
  BY <1>1, CopyEntries, ZenonT(30)
<1>5. u = IF owns THEN <<B, C>> ELSE <<N>>
  BY ReturnRow
<1>6. owns => s \in Copied /\ v # "callee"
  BY <1>1, LocalOrderIsLocal DEF Copied, Variable
<1> HIDE DEF B, C, N, s, d
<1>7. /\ u \in Seq(Entries)
      /\ owns => Len(u) = 2 /\ u[1] = B /\ u[2] = C
      /\ ~ owns => Len(u) = 1 /\ u[1] = N
  BY <1>2, <1>3, <1>4, <1>5
<1>8. ~ owns => v \in {"p", "self", "callee"}
  OBVIOUS
<1> HIDE DEF u, owns
<1>9. /\ q \in Seq(Entries) /\ Len(p) \in Nat /\ Len(u) \in Nat /\ Len(q) = Len(p) + Len(u)
      /\ DOMAIN q = 1 .. Len(p) + Len(u)
      /\ Within(p, q, 0) /\ Within(u, q, Len(p))
  BY <1>1, <1>7, Joins
<1>10. v = "callee" => Called(q, Len(p) + 1)
  BY <1>1, <1>7, CalledBehind
<1> HIDE DEF q
<1>11. /\ c \in Seq(Entries) /\ Len(w) \in Nat
       /\ DOMAIN c = 1 .. Len(q) + Len(w)
       /\ Within(q, c, 0) /\ Within(w, c, Len(q))
       /\ \A i \in DOMAIN c : i \in DOMAIN q \/ (i - Len(q) \in DOMAIN w /\ (i - Len(q)) + Len(q) = i)
  BY <1>1, <1>9, Joins
<1> HIDE DEF c
<1>12. PICK n \in Nat : n = Len(p)
  BY <1>9
<1>13. \A i \in 1 .. Len(u) : q[i + n] = u[i]
  <2>1. \A i \in 1 .. Len(u) : i \in DOMAIN u
    BY <1>7
  <2>2. \A i \in DOMAIN u : q[i + n] = u[i]
    BY <1>9, <1>12 DEF Within
  <2> QED
    BY <2>1, <2>2
<1>14. ASSUME NEW i \in 1 .. n PROVE Fits(c, i)
  <2>1. i \in DOMAIN p /\ Fits(p, i) /\ i + 0 = i /\ i \in DOMAIN q
    BY <1>1, <1>9, <1>12 DEF WellFormed
  <2>2. Fits(q, i + 0)
    BY <1>1, <1>9, <2>1, FitsWithin
  <2>3. Fits(c, i + 0)
    BY <1>9, <1>11, <2>1, <2>2, FitsWithin
  <2> QED
    BY <2>1, <2>3
<1>15. ASSUME NEW i \in DOMAIN c, i - Len(q) \in DOMAIN w, (i - Len(q)) + Len(q) = i
       PROVE  Fits(c, i)
  <2>1. PICK k \in DOMAIN w : k = i - Len(q) /\ k + Len(q) = i
    BY <1>15
  <2>2. Len(q) \in Nat
    BY <1>9
  <2>3. Fits(c, k + Len(q))
    BY <1>1, <1>11, <2>1, <2>2, FitsWithin DEF WellFormed
  <2> QED
    BY <2>1, <2>3
<1>16. \A j \in DOMAIN q : j \in DOMAIN c /\ c[j] = q[j]
  <2>1. \A j \in DOMAIN q : j + 0 = j
    BY <1>9
  <2> QED
    BY <1>11, <2>1 DEF Within
<1>17. SweepsOnly(c, Len(q) + 1, Swept)
  <2>1. SweepsOnly(c, 1 + Len(q), Swept)
    BY <1>1, <1>9, <1>11, SweepsWithin
  <2>2. Len(q) \in Nat
    BY <1>9
  <2> QED
    BY <2>1, <2>2
<1>18. CASE owns
  <2>1. Len(q) = n + 2 /\ q[n + 1] = B /\ q[n + 2] = C /\ DOMAIN q = 1 .. n + 2
    <3>1. n + 1 = 1 + n /\ n + 2 = 2 + n
      BY <1>12
    <3>2. Len(u) = 2 /\ u[1] = B /\ u[2] = C
      BY <1>7, <1>18
    <3>3. Len(q) = n + 2 /\ DOMAIN q = 1 .. n + 2
      BY <1>9, <1>12, <3>2
    <3>4. 1 \in 1 .. Len(u) /\ 2 \in 1 .. Len(u)
      BY <3>2
    <3>5. q[1 + n] = B /\ q[2 + n] = C
      BY <1>13, <3>2, <3>4
    <3> QED
      BY <3>1, <3>3, <3>5
  <2>2. n + 1 \in DOMAIN q /\ n + 2 \in DOMAIN q /\ (n + 2) - 1 = n + 1
    BY <2>1
  <2>3. c[n + 1] = B /\ c[n + 2] = C /\ n + 1 \in DOMAIN c
    BY <1>16, <2>1, <2>2
  <2>4. Fits(c, n + 1)
    BY <1>1, <1>2, <1>6, <1>18, <2>3 DEF Fits
  <2>5. Returns(c, n + 2)
    BY <1>2, <1>3, <1>17, <2>1, <2>2, <2>3 DEF Returns
  <2>6. Fits(c, n + 2)
    BY <1>1, <1>3, <2>3, <2>5 DEF Fits
  <2>7. \A i \in DOMAIN q : i \in 1 .. n \/ i = n + 1 \/ i = n + 2
    BY <2>1
  <2>8. \A i \in DOMAIN c : Fits(c, i)
    BY <1>11, <1>14, <1>15, <2>4, <2>6, <2>7
  <2>9. WellFormed(c)
    BY <1>11, <2>8 DEF WellFormed
  <2> QED
    BY <2>9 DEF c, q, u, s, d
<1>19. CASE ~ owns
  <2>1. Len(q) = n + 1 /\ q[n + 1] = N /\ DOMAIN q = 1 .. n + 1
    <3>1. n + 1 = 1 + n
      BY <1>12
    <3>2. Len(u) = 1 /\ u[1] = N
      BY <1>7, <1>19
    <3>3. Len(q) = n + 1 /\ DOMAIN q = 1 .. n + 1
      BY <1>9, <1>12, <3>2
    <3>4. 1 \in 1 .. Len(u)
      BY <3>2
    <3>5. q[1 + n] = N
      BY <1>13, <3>2, <3>4
    <3> QED
      BY <3>1, <3>3, <3>5
  <2>2. n + 1 \in DOMAIN q /\ (n + 1) + 0 = n + 1
    BY <2>1
  <2>3. c[n + 1] = N
    BY <1>16, <2>1, <2>2
  <2>4. v = "callee" => Called(c, n + 1)
    <3>1. v = "callee" => Called(c, (n + 1) + 0)
      BY <1>9, <1>10, <1>11, <1>12, <2>2, CalledWithin
    <3> QED
      BY <2>2, <3>1
  <2>5. Returns(c, n + 1)
    BY <1>1, <1>4, <1>17, <1>19, <1>8, <2>1, <2>3, <2>4 DEF Returns
  <2>6. Fits(c, n + 1)
    BY <1>1, <1>4, <2>3, <2>5 DEF Fits
  <2>7. \A i \in DOMAIN q : i \in 1 .. n \/ i = n + 1
    BY <2>1
  <2>8. \A i \in DOMAIN c : Fits(c, i)
    BY <1>11, <1>14, <1>15, <2>6, <2>7
  <2>9. WellFormed(c)
    BY <1>11, <2>8 DEF WellFormed
  <2> QED
    BY <2>9 DEF c, q, u, s, d
<1> QED
  BY <1>18, <1>19

------------------------------------------------------------------------------
(***************************************************************************)
(* Compilation keeps the table well formed, and its labels coming.         *)
(***************************************************************************)
LEMMA EmittedJoins ==
    ASSUME NEW a \in Seq(Entries), NEW b \in Seq(Entries)
    PROVE  Emitted(a \o b) = Emitted(a) \cup Emitted(b)
<1> DEFINE c == a \o b
<1>1. /\ c \in Seq(Entries) /\ Within(a, c, 0) /\ Within(b, c, Len(a)) /\ Len(a) \in Nat
      /\ \A i \in DOMAIN c : i \in DOMAIN a \/ (i - Len(a) \in DOMAIN b /\ (i - Len(a)) + Len(a) = i)
  BY Joins
<1> HIDE DEF c
<1>2. \A i \in DOMAIN a : i \in DOMAIN c /\ c[i] = a[i]
  <2>1. \A i \in DOMAIN a : i + 0 = i
    OBVIOUS
  <2> QED
    BY <1>1, <2>1 DEF Within
<1>3. \A i \in DOMAIN b : i + Len(a) \in DOMAIN c /\ c[i + Len(a)] = b[i]
  BY <1>1 DEF Within
<1>4. Emitted(a) \subseteq Emitted(c)
  BY <1>2 DEF Emitted
<1>5. Emitted(b) \subseteq Emitted(c)
  BY <1>3 DEF Emitted
<1>6. ASSUME NEW l \in Emitted(c) PROVE l \in Emitted(a) \/ l \in Emitted(b)
  <2>1. PICK i \in DOMAIN c : c[i].op = "label" /\ l = c[i].label
    BY DEF Emitted
  <2>2. CASE i \in DOMAIN a
    BY <1>2, <2>1, <2>2 DEF Emitted
  <2>3. CASE i - Len(a) \in DOMAIN b /\ (i - Len(a)) + Len(a) = i
    <3>1. PICK k \in DOMAIN b : k + Len(a) = i
      BY <2>3
    <3> QED
      BY <1>3, <2>1, <3>1 DEF Emitted
  <2> QED
    BY <1>1, <2>2, <2>3
<1> QED
  BY <1>4, <1>5, <1>6 DEF c

LEMMA JumpsJoin ==
    ASSUME NEW a \in Seq(Entries), NEW b \in Seq(Entries), NEW ls, JumpsInto(a, ls), JumpsInto(b, ls)
    PROVE  JumpsInto(a \o b, ls)
<1> DEFINE c == a \o b
<1>1. /\ Within(a, c, 0) /\ Within(b, c, Len(a))
      /\ \A i \in DOMAIN c : i \in DOMAIN a \/ (i - Len(a) \in DOMAIN b /\ (i - Len(a)) + Len(a) = i)
  BY Joins
<1> HIDE DEF c
<1>2. ASSUME NEW i \in DOMAIN c, c[i].op \in {"goto", "ifFalseGoto"} PROVE c[i].label \in ls
  <2>1. CASE i \in DOMAIN a
    <3>1. i + 0 = i /\ c[i + 0] = a[i]
      BY <1>1, <2>1 DEF Within
    <3> QED
      BY <1>2, <2>1, <3>1 DEF JumpsInto
  <2>2. CASE i - Len(a) \in DOMAIN b /\ (i - Len(a)) + Len(a) = i
    <3>1. PICK k \in DOMAIN b : k + Len(a) = i
      BY <2>2
    <3>2. c[i] = b[k]
      BY <1>1, <3>1 DEF Within
    <3> QED
      BY <1>2, <3>2 DEF JumpsInto
  <2> QED
    BY <1>1, <2>1, <2>2
<1> QED
  BY <1>2 DEF JumpsInto, c

LEMMA Further ==
    ASSUME NEW ls, NEW more, ls \subseteq more
    PROVE  /\ \A c : JumpsInto(c, ls) => JumpsInto(c, more)
           /\ \A b : Leads(b, ls) => Leads(b, more)
BY DEF JumpsInto, Leads

\* What every statement shows of the row it emits and the blocks it leaves open.
LEMMA CodeGrows ==
    ASSUME Code, NEW row, WellFormed(row), icode' = icode \o row,
           isVoid' = isVoid, symbols' \subseteq Local, labels' \in Nat,
           open' \in Seq(Blocks), open' # <<>>,
           Coming(icode, open) \subseteq Coming(icode', open'),
           \A k \in DOMAIN open' :
              /\ open'[k].kind = "function" <=> k = 1
              /\ Exits(open'[k])
              /\ Leads(open'[k], Coming(icode', open')) \/ (k \in DOMAIN open /\ open'[k] = open[k]),
           JumpsInto(row, Coming(icode', open'))
    PROVE  Code'
<1> DEFINE ls == Coming(icode, open)
           more == Coming(icode', open')
<1>1. /\ WellFormed(icode) /\ isVoid \in BOOLEAN /\ JumpsInto(icode, ls)
      /\ \A k \in DOMAIN open : Leads(open[k], ls)
  BY DEF Code
<1>2. WellFormed(icode')
  BY <1>1, Follows
<1> HIDE DEF ls, more
<1>3. ls \subseteq more /\ JumpsInto(row, more)
  BY DEF ls, more
<1>4. JumpsInto(icode', more)
  <2>1. JumpsInto(icode, more)
    BY <1>1, <1>3, Further
  <2> QED
    BY <1>1, <1>3, <2>1, JumpsJoin DEF WellFormed
<1>5. \A k \in DOMAIN open' : Leads(open'[k], more)
  <2> TAKE k \in DOMAIN open'
  <2>1. CASE k \in DOMAIN open /\ open'[k] = open[k]
    BY <1>1, <1>3, <2>1, Further
  <2> QED
    BY <2>1 DEF more
<1> QED
  BY <1>1, <1>2, <1>4, <1>5 DEF Code, more

\* A row without labels or jumps, and the same blocks.
LEMMA PlainRow ==
    ASSUME Code, NEW row, WellFormed(row), icode' = icode \o row, isVoid' = isVoid,
           symbols' \subseteq Local, labels' = labels, open' = open,
           JumpsInto(row, Coming(icode, open))
    PROVE  Code'
<1>1. icode \in Seq(Entries) /\ row \in Seq(Entries)
  BY DEF Code, WellFormed
<1>2. Coming(icode, open) \subseteq Coming(icode', open')
  BY <1>1, EmittedJoins DEF Coming
<1>3. JumpsInto(row, Coming(icode', open'))
  BY <1>2, Further
<1>4. \A k \in DOMAIN open' :
         /\ open'[k].kind = "function" <=> k = 1
         /\ Exits(open'[k])
         /\ k \in DOMAIN open /\ open'[k] = open[k]
  BY DEF Code
<1>5. labels' \in Nat /\ open' \in Seq(Blocks) /\ open' # <<>>
  BY DEF Code
<1> QED
  BY <1>2, <1>3, <1>4, <1>5, CodeGrows

\* What an expression emits before its value is copied.
LEMMA EvaluateFits ==
    ASSUME NEW src
    PROVE  /\ WellFormed(Evaluate(src)) /\ JumpsInto(Evaluate(src), {})
           /\ src = Whole("callee") => Evaluate(src) = <<Call>>
<1>1. Call \in Entries /\ Call.op = "call"
  BY DEF Entries, Call
<1>2. WellFormed(<<Call>>) /\ WellFormed(<<>>)
  BY <1>1, PlainFits
<1>3. JumpsInto(<<Call>>, {}) /\ JumpsInto(<<>>, {})
  BY <1>1 DEF JumpsInto
<1> QED
  BY <1>2, <1>3 DEF Evaluate

LEMMA NullInitFits ==
    ASSUME NEW s \in Local
    PROVE  /\ NullInit(s) \in Entries /\ NullInit(s).op = "nullInit" 
           /\ WellFormed(<<NullInit(s)>>) /\ JumpsInto(<<NullInit(s)>>, {})
           /\ Whole(s) \in Overwritten
<1>1. NullInit(s) \in Entries /\ NullInit(s).op = "nullInit"
  BY DEF Entries, NullInit
<1>2. WellFormed(<<NullInit(s)>>)
  BY <1>1, PlainFits
<1>3. JumpsInto(<<NullInit(s)>>, {})
  BY <1>1 DEF JumpsInto
<1>4. Whole(s) \in Overwritten
  BY LocalOrderIsLocal DEF Overwritten, Whole, Unit, Storage, Variable
<1> QED
  BY <1>1, <1>2, <1>3, <1>4

LEMMA CopyStraight ==
    ASSUME NEW d \in Overwritten, NEW s \in Copied
    PROVE  unitCopy(d, s) \in Seq(Entries) /\ JumpsInto(unitCopy(d, s), {})
<1> DEFINE x == hookOn(s, "beforeCopy", FALSE)
           y == hookOn(d, "deconstruct", FALSE)
           z == copyOf(d, s, TRUE)
<1>1. s \in Unit /\ d \in Unit
  BY DEF Overwritten, Copied
<1>2. x \in Entries /\ x.op = "beforeCopy"
  BY <1>1, HookEntries
<1>3. y \in Entries /\ y.op = "deconstruct"
  BY <1>1, HookEntries
<1>4. z \in Entries /\ z.op = "copy"
  BY <1>1, CopyEntries
<1>5. unitCopy(d, s) = IF d = Whole("self") THEN <<x, z>> ELSE <<x, y, z>>
  BY CopyRow
<1> HIDE DEF x, y, z
<1>6. <<x, z>> \in Seq(Entries) /\ JumpsInto(<<x, z>>, {})
  BY <1>2, <1>4 DEF JumpsInto
<1>7. <<x, y, z>> \in Seq(Entries) /\ JumpsInto(<<x, y, z>>, {})
  BY <1>2, <1>3, <1>4 DEF JumpsInto
<1> QED
  BY <1>5, <1>6, <1>7

LEMMA ReturnStraight ==
    ASSUME NEW v \in Variable \cup {"callee"}
    PROVE  unitCopy(Whole("return"), Whole(v)) \in Seq(Entries)
           /\ JumpsInto(unitCopy(Whole("return"), Whole(v)), {})
<1> DEFINE x == hookOn(Whole(v), "beforeCopy", FALSE)
           y == copyOf(Whole("return"), Whole(v), TRUE)
           z == copyOf(Whole("return"), Whole(v), FALSE)
           u == unitCopy(Whole("return"), Whole(v))
<1>1. Whole(v) \in Unit /\ Whole("return") \in Unit
  BY DEF Whole, Unit, Storage, Variable
<1>2. x \in Entries /\ x.op = "beforeCopy"
  BY <1>1, HookEntries
<1>3. y \in Entries /\ y.op = "copy"
  BY <1>1, CopyEntries, ZenonT(30)
<1>4. z \in Entries /\ z.op = "copy"
  BY <1>1, CopyEntries, ZenonT(30)
<1>5. u = <<x, y>> \/ u = <<z>>
  BY ReturnRow
<1> HIDE DEF x, y, z, u
<1>6. <<x, y>> \in Seq(Entries) /\ JumpsInto(<<x, y>>, {})
  BY <1>2, <1>3 DEF JumpsInto
<1>7. <<z>> \in Seq(Entries) /\ JumpsInto(<<z>>, {})
  BY <1>4 DEF JumpsInto
<1>8. u \in Seq(Entries) /\ JumpsInto(u, {})
  BY <1>5, <1>6, <1>7
<1> QED
  BY <1>8 DEF u

\* What an assignment or an initialiser may read.
LEMMA Reads ==
    ASSUME symbols \subseteq Local, Whole("self") \notin Readable, NEW src \in Readable,
           CanRead(src) \/ \E s \in Local : src = Whole(s)
    PROVE  src \in Copied /\ (src.var = "callee" => src = Whole("callee"))
<1>1. src \in Copied
  BY SourceNamesVariables DEF Copied
<1>2. ASSUME src.var = "callee" PROVE src = Whole("callee")
  <2>1. "callee" \notin symbols \cup {"p", "g"}
    BY LocalOrderIsLocal
  <2>2. ~ \E s \in Local : src = Whole(s)
    BY <1>2, LocalOrderIsLocal DEF Whole
  <2> QED
    BY <1>2, <2>1, <2>2 DEF CanRead, Known
<1> QED
  BY <1>1, <1>2

LEMMA InitialisedRow ==
    ASSUME NEW s \in Local, NEW src \in Copied, src.var = "callee" => src = Whole("callee"),
           NEW row, row = <<NullInit(s)>> \o Evaluate(src) \o unitCopy(Whole(s), src)
    PROVE  WellFormed(row) /\ JumpsInto(row, {})
<1> DEFINE a == <<NullInit(s)>>
           e == Evaluate(src)
           u == unitCopy(Whole(s), src)
<1>1. a \in Seq(Entries) /\ WellFormed(a) /\ JumpsInto(a, {}) /\ NullInit(s) \in Entries /\ Whole(s) \in Overwritten
  BY NullInitFits
<1>2. WellFormed(e) /\ JumpsInto(e, {}) /\ (src.var = "callee" => e = <<Call>>)
  BY EvaluateFits
<1>3. e \in Seq(Entries)
  BY <1>2 DEF WellFormed
<1>4. WellFormed(a \o e)
  BY <1>1, <1>2, Follows
<1>5. src.var = "callee" => Calls(a \o e)
  <2>1. Call \in Entries /\ Call.op = "call"
    BY DEF Entries, Call
  <2>2. <<NullInit(s)>> \o <<Call>> = <<NullInit(s), Call>>
    BY <1>1, <2>1, Pair
  <2>3. Calls(<<NullInit(s), Call>>)
    BY <2>1 DEF Calls
  <2> QED
    BY <1>2, <2>2, <2>3
<1>6. u \in Seq(Entries) /\ JumpsInto(u, {})
  BY <1>1, CopyStraight
<1> HIDE DEF a, e
<1>7. PICK p : p = a \o e
  OBVIOUS
<1>8. WellFormed(p \o u)
  BY <1>1, <1>4, <1>5, <1>7, CopyFits
<1>9. p \in Seq(Entries) /\ JumpsInto(p, {})
  BY <1>1, <1>2, <1>3, <1>7, JumpsJoin
<1> HIDE DEF u
<1>10. JumpsInto(p \o u, {})
  BY <1>6, <1>9, JumpsJoin
<1> QED
  BY <1>7, <1>8, <1>10 DEF a, e, u

LEMMA WalrusRow ==
    ASSUME NEW s \in Local, NEW src \in Copied, src.var = "callee" => src = Whole("callee"),
           NEW row, row = Evaluate(src) \o <<NullInit(s)>> \o unitCopy(Whole(s), src)
    PROVE  WellFormed(row) /\ JumpsInto(row, {})
<1> DEFINE a == <<NullInit(s)>>
           e == Evaluate(src)
           u == unitCopy(Whole(s), src)
<1>1. a \in Seq(Entries) /\ WellFormed(a) /\ JumpsInto(a, {}) /\ NullInit(s) \in Entries
      /\ NullInit(s).op = "nullInit" /\ Whole(s) \in Overwritten
  BY NullInitFits
<1>2. WellFormed(e) /\ JumpsInto(e, {}) /\ (src.var = "callee" => e = <<Call>>)
  BY EvaluateFits
<1>3. e \in Seq(Entries)
  BY <1>2 DEF WellFormed
<1>4. WellFormed(e \o a)
  BY <1>1, <1>2, Follows
<1>5. src.var = "callee" => Calls(e \o a)
  <2>1. Call \in Entries /\ Call.op = "call"
    BY DEF Entries, Call
  <2>2. <<Call>> \o <<NullInit(s)>> = <<Call, NullInit(s)>>
    BY <1>1, <2>1, Pair
  <2>3. Calls(<<Call, NullInit(s)>>)
    BY <1>1, <2>1 DEF Calls
  <2> QED
    BY <1>2, <2>2, <2>3
<1>6. u \in Seq(Entries) /\ JumpsInto(u, {})
  BY <1>1, CopyStraight
<1> HIDE DEF a, e
<1>7. PICK p : p = e \o a
  OBVIOUS
<1>8. WellFormed(p \o u)
  BY <1>1, <1>4, <1>5, <1>7, CopyFits
<1>9. p \in Seq(Entries) /\ JumpsInto(p, {})
  BY <1>1, <1>2, <1>3, <1>7, JumpsJoin
<1> HIDE DEF u
<1>10. JumpsInto(p \o u, {})
  BY <1>6, <1>9, JumpsJoin
<1> QED
  BY <1>7, <1>8, <1>10 DEF a, e, u

LEMMA AssignmentRow ==
    ASSUME NEW dst \in Overwritten, NEW src \in Copied, src.var = "callee" => src = Whole("callee"),
           NEW row, row = Evaluate(src) \o unitCopy(dst, src)
    PROVE  WellFormed(row) /\ JumpsInto(row, {})
<1>1. PICK e : e = Evaluate(src)
  OBVIOUS
<1>2. WellFormed(e) /\ JumpsInto(e, {}) /\ (src.var = "callee" => e = <<Call>>)
  BY <1>1, EvaluateFits
<1>3. e \in Seq(Entries)
  BY <1>2 DEF WellFormed
<1>4. src.var = "callee" => Calls(e)
  BY <1>2, CallAlone
<1>5. WellFormed(e \o unitCopy(dst, src))
  BY <1>2, <1>4, CopyFits
<1>6. unitCopy(dst, src) \in Seq(Entries) /\ JumpsInto(unitCopy(dst, src), {})
  BY CopyStraight
<1>7. JumpsInto(e \o unitCopy(dst, src), {})
  BY <1>2, <1>3, <1>6, JumpsJoin
<1> QED
  BY <1>1, <1>5, <1>7

LEMMA ReturnsRow ==
    ASSUME symbols \subseteq Local, NEW v \in Variable \cup {"callee"}, NEW row,
           row = (IF isVoid THEN <<>> ELSE Evaluate(Whole(v)) \o unitCopy(Whole("return"), Whole(v)))
                    \o createReturnAndCallDeconstructors
    PROVE  WellFormed(row) /\ JumpsInto(row, {}) 
<1>1. PICK r \in Seq(SweepEntries) : /\ callDeconstructorOnDeclaredSymbols = r
                                     /\ \A j, k \in 1 .. Len(r) : r[j] = r[k] => j = k
  BY SweepRow
<1>2. PICK w : w = r \o <<Ret>>
  OBVIOUS
<1>3. createReturnAndCallDeconstructors = w
  BY <1>1, <1>2 DEF createReturnAndCallDeconstructors
<1>4. WellFormed(w) /\ SweepsOnly(w, 1, Swept) /\ JumpsInto(w, {})
  BY <1>1, <1>2, SweepFits
<1>5. w \in Seq(Entries)
  BY <1>4 DEF WellFormed
<1>6. CASE isVoid
  <2>1. row = w
    BY <1>3, <1>5, <1>6
  <2> QED
    BY <1>4, <2>1
<1>7. CASE ~ isVoid
  <2>1. PICK e : e = Evaluate(Whole(v))
    OBVIOUS
  <2>2. WellFormed(e) /\ JumpsInto(e, {}) /\ (v = "callee" => e = <<Call>>)
    BY <2>1, EvaluateFits
  <2>3. e \in Seq(Entries)
    BY <2>2 DEF WellFormed
  <2>4. v = "callee" => Calls(e)
    BY <2>2, CallAlone
  <2>5. PICK u : u = unitCopy(Whole("return"), Whole(v))
    OBVIOUS
  <2>6. row = e \o u \o w
    BY <1>3, <1>7, <2>1, <2>5
  <2>7. WellFormed(row)
    BY <1>4, <2>2, <2>4, <2>5, <2>6, ReturnFits
  <2>8. u \in Seq(Entries) /\ JumpsInto(u, {})
    BY <2>5, ReturnStraight
  <2>9. e \o u \in Seq(Entries) /\ JumpsInto(e \o u, {})
    BY <2>2, <2>3, <2>8, JumpsJoin
  <2>10. JumpsInto(row, {})
    BY <1>4, <1>5, <2>6, <2>9, JumpsJoin
  <2> QED
    BY <2>7, <2>10
<1> QED
  BY <1>6, <1>7

\* What is still to come once a row was appended and blocks were opened or closed.
LEMMA ComingCovers ==
    ASSUME NEW a \in Seq(Entries), NEW row \in Seq(Entries), NEW blocks, NEW more,
           \A k \in DOMAIN blocks :
              \/ Promised(blocks[k]) \subseteq Emitted(row)
              \/ \E j \in DOMAIN more : Promised(blocks[k]) \subseteq Promised(more[j])
    PROVE  /\ Coming(a, blocks) \subseteq Coming(a \o row, more)
           /\ Emitted(row) \subseteq Coming(a \o row, more)
           /\ \A k \in DOMAIN more : Promised(more[k]) \subseteq Coming(a \o row, more)
<1>1. Emitted(a \o row) = Emitted(a) \cup Emitted(row)
  BY EmittedJoins
<1>2. PICK c : c = a \o row
  OBVIOUS
<1>3. Emitted(a) \subseteq Coming(c, more) /\ Emitted(row) \subseteq Coming(c, more)
  BY <1>1, <1>2 DEF Coming
<1>4. \A k \in DOMAIN more : Promised(more[k]) \subseteq Coming(c, more)
  BY DEF Coming
<1>5. ASSUME NEW l \in Coming(a, blocks) PROVE l \in Coming(c, more)
  <2>1. CASE l \in Emitted(a)
    BY <1>3, <2>1
  <2>2. CASE l \in UNION {Promised(blocks[k]) : k \in DOMAIN blocks}
    <3>1. PICK k \in DOMAIN blocks : l \in Promised(blocks[k])
      BY <2>2
    <3> QED
      BY <1>3, <1>4, <3>1
  <2> QED
    BY <2>1, <2>2 DEF Coming
<1> QED
  BY <1>2, <1>3, <1>4, <1>5

LEMMA FrontFacts ==
    ASSUME NEW T, NEW s \in Seq(T), s # <<>>
    PROVE  LET f == Front(s)
           IN  /\ Last(s) = s[Len(s)] /\ Len(s) \in DOMAIN s
               /\ f \in Seq(T) /\ Len(f) = Len(s) - 1 /\ Len(s) - 1 \in Nat
               /\ \A i \in 1 .. Len(s) - 1 : i \in DOMAIN s /\ f[i] = s[i]
               /\ \A i \in DOMAIN s : i \in 1 .. Len(s) - 1 \/ i = Len(s)
<1>1. Len(s) \in Nat /\ Len(s) > 0 /\ DOMAIN s = 1 .. Len(s)
  OBVIOUS
<1>2. PICK f : f = SubSeq(s, 1, Len(s) - 1)
  OBVIOUS
<1>3. f \in Seq(T) /\ Len(f) = Len(s) - 1 /\ \A i \in 1 .. Len(s) - 1 : f[i] = s[i]
  BY <1>1, <1>2
<1> QED
  BY <1>1, <1>2, <1>3 DEF Front, Last

\* One block more than before.
LEMMA Entered ==
    ASSUME Code, NEW row, WellFormed(row), icode' = icode \o row, isVoid' = isVoid,
           symbols' \subseteq Local, labels' \in Nat,
           NEW b \in Blocks, open' = Append(open, b), b.kind # "function", Exits(b),
           Leads(b, Coming(icode', open')),
           JumpsInto(row, Coming(icode', open'))
    PROVE  Code'
<1>1. icode \in Seq(Entries) /\ row \in Seq(Entries) /\ open \in Seq(Blocks) /\ open # <<>>
  BY DEF Code, WellFormed
<1>2. /\ open' \in Seq(Blocks) /\ Len(open) \in Nat /\ Len(open) > 0
      /\ DOMAIN open = 1 .. Len(open) /\ DOMAIN open' = 1 .. Len(open) + 1
      /\ open'[Len(open) + 1] = b /\ \A k \in 1 .. Len(open) : open'[k] = open[k]
  BY <1>1
<1>3. open' # <<>>
  BY <1>2
<1>4. Coming(icode, open) \subseteq Coming(icode', open')
  <2>1. \A k \in DOMAIN open : k \in DOMAIN open' /\ Promised(open[k]) \subseteq Promised(open'[k])
    BY <1>2
  <2> QED
    BY <1>1, <2>1, ComingCovers
<1>5. ASSUME NEW k \in DOMAIN open'
      PROVE  /\ open'[k].kind = "function" <=> k = 1
             /\ Exits(open'[k])
             /\ Leads(open'[k], Coming(icode', open')) \/ (k \in DOMAIN open /\ open'[k] = open[k])
  <2>1. CASE k = Len(open) + 1
    BY <1>2, <2>1
  <2>2. CASE k \in 1 .. Len(open)
    BY <1>2, <2>2 DEF Code
  <2> QED
    BY <1>2, <2>1, <2>2
<1> QED
  BY <1>2, <1>3, <1>4, <1>5, CodeGrows

\* The rows in front of the statements of a loop: only jumps to its end.
LEMMA Places ==
    ASSUME Code, NEW row, WellFormed(row), icode' = icode \o row,
           NEW b \in Blocks, open' = Append(open, b)
    PROVE  /\ Emitted(row) \subseteq Coming(icode', open')
           /\ Promised(b) \subseteq Coming(icode', open')
           /\ Coming(icode, open) \subseteq Coming(icode', open')
<1>1. icode \in Seq(Entries) /\ row \in Seq(Entries) /\ open \in Seq(Blocks)
  BY DEF Code, WellFormed
<1>2. /\ Len(open) \in Nat /\ DOMAIN open = 1 .. Len(open) /\ DOMAIN open' = 1 .. Len(open) + 1
      /\ open'[Len(open) + 1] = b /\ \A k \in 1 .. Len(open) : open'[k] = open[k]
  BY <1>1
<1>3. /\ \A k \in DOMAIN open : k \in DOMAIN open' /\ Promised(open[k]) \subseteq Promised(open'[k])
      /\ Len(open) + 1 \in DOMAIN open'
  BY <1>2
<1> QED
  BY <1>1, <1>2, <1>3, ComingCovers

LEMMA LabelEntries ==
    ASSUME NEW l \in Nat
    PROVE  /\ CreateLabel(l) \in Entries /\ CreateLabel(l).op = "label" /\ CreateLabel(l).label = l
           /\ Goto(l) \in Entries /\ Goto(l).op = "goto" /\ Goto(l).label = l
           /\ IfFalseGoto(l) \in Entries /\ IfFalseGoto(l).op = "ifFalseGoto" /\ IfFalseGoto(l).label = l
<1>1. CreateLabel(l) \in Entries /\ CreateLabel(l).op = "label" /\ CreateLabel(l).label = l
  BY DEF Entries, CreateLabel
<1>2. Goto(l) \in Entries /\ Goto(l).op = "goto" /\ Goto(l).label = l
  BY DEF Entries, Goto
<1>3. IfFalseGoto(l) \in Entries /\ IfFalseGoto(l).op = "ifFalseGoto" /\ IfFalseGoto(l).label = l
  BY DEF Entries, IfFalseGoto
<1> QED
  BY <1>1, <1>2, <1>3

\* The block in which a statement stands.
LEMMA TopBlock ==
    ASSUME Code
    PROVE  /\ Top = open[Len(open)] /\ Len(open) \in DOMAIN open /\ Top \in Blocks
           /\ Exits(Top) /\ Leads(Top, Coming(icode, open))
           /\ Promised(Top) \subseteq Coming(icode, open)
           /\ Len(open) \in Nat /\ Len(open) > 0
           /\ Top.kind = "function" <=> Len(open) = 1
<1>1. open \in Seq(Blocks) /\ open # <<>>
  BY DEF Code
<1>2. Top = open[Len(open)] /\ Len(open) \in DOMAIN open /\ Top \in Blocks /\ Len(open) \in Nat /\ Len(open) > 0
  BY <1>1 DEF Top, Last
<1>3. PICK k : k = Len(open)
  OBVIOUS
<1>4. k \in DOMAIN open /\ Top = open[k]
  BY <1>2, <1>3
<1>5. Exits(Top) /\ Leads(Top, Coming(icode, open)) /\ (Top.kind = "function" <=> k = 1)
  BY <1>4 DEF Code
<1>6. Promised(Top) \subseteq Coming(icode, open)
  BY <1>4 DEF Coming
<1> QED
  BY <1>2, <1>3, <1>5, <1>6

\* Rows of entries that touch no reference.
LEMMA PlainRows ==
    ASSUME NEW c \in Seq(Entries),
           \A i \in DOMAIN c : c[i].op \in {"label", "goto", "ifFalseGoto", "call", "nullInit"}
    PROVE  /\ WellFormed(c)
           /\ \A i \in DOMAIN c : c[i].op = "label" => c[i].label \in Emitted(c)
           /\ \A ls : (\A i \in DOMAIN c : c[i].op \in {"goto", "ifFalseGoto"} => c[i].label \in ls)
                      => JumpsInto(c, ls)
BY DEF WellFormed, Fits, Emitted, JumpsInto

LEMMA IfCode ==
    ASSUME Code, ifStatement
    PROVE  Code'
<1> DEFINE row == <<IfFalseGoto(labels + 2)>>
           b == Block("if", Top.inLoop, Top.breakLabel, Top.continueLabel, <<labels + 2, labels + 1>>)
<1>1. labels \in Nat /\ labels + 1 \in Nat /\ labels + 2 \in Nat /\ icode \in Seq(Entries)
  BY DEF Code, WellFormed
<1>2. /\ icode' = icode \o row /\ isVoid' = isVoid /\ symbols' = symbols
      /\ open' = Append(open, b) /\ labels' = labels + 2
  BY DEF ifStatement, Emit, EnterBlock
<1>3. Top \in Blocks /\ Leads(Top, Coming(icode, open))
  BY TopBlock
<1>4. /\ b \in Blocks /\ b.kind = "if" /\ b.exits = <<labels + 2, labels + 1>>
      /\ b.inLoop = Top.inLoop /\ b.breakLabel = Top.breakLabel /\ b.continueLabel = Top.continueLabel
  BY <1>1, <1>3 DEF Block, Blocks, Kinds
<1> HIDE DEF b
<1>5. Exits(b) /\ Promised(b) = {labels + 2}
  BY <1>4 DEF Exits, Promised
<1>6. IfFalseGoto(labels + 2) \in Entries /\ IfFalseGoto(labels + 2).op = "ifFalseGoto"
      /\ IfFalseGoto(labels + 2).label = labels + 2
  BY <1>1, LabelEntries
<1>7. WellFormed(row) /\ \A ls : labels + 2 \in ls => JumpsInto(row, ls)
  <2>1. PICK x : x = IfFalseGoto(labels + 2)
    OBVIOUS
  <2>2. <<x>> \in Seq(Entries) /\ \A i \in DOMAIN <<x>> : <<x>>[i] = x
    BY <1>6, <2>1
  <2> QED
    BY <1>6, <2>1, <2>2, PlainRows
<1> HIDE DEF row
<1>8. /\ labels + 2 \in Coming(icode', open')
      /\ Coming(icode, open) \subseteq Coming(icode', open')
  BY <1>2, <1>4, <1>5, <1>7, Places
<1>9. Leads(b, Coming(icode', open'))
  BY <1>3, <1>4, <1>8 DEF Leads
<1> QED
  BY <1>1, <1>2, <1>4, <1>5, <1>7, <1>8, <1>9, Entered DEF Code

LEMMA LoopCode ==
    ASSUME Code, NEW kind \in {"while", "do", "loop"}, loopStatement(kind)
    PROVE  Code'
<1> DEFINE head == <<CreateLabel(labels + 1)>>
           test == IF kind = "while" THEN <<IfFalseGoto(labels + 2)>> ELSE <<>>
           row == head \o test
           b == Block(kind, TRUE, labels + 2, labels + 1, <<labels + 1, labels + 2>>)
<1>1. labels \in Nat /\ labels + 1 \in Nat /\ labels + 2 \in Nat /\ icode \in Seq(Entries)
  BY DEF Code, WellFormed
<1>2. /\ icode' = icode \o row /\ isVoid' = isVoid /\ symbols' = symbols
      /\ open' = Append(open, b) /\ labels' = labels + 2
  BY DEF loopStatement, Emit, EnterBlock
<1>3. /\ b \in Blocks /\ b.kind = kind /\ b.exits = <<labels + 1, labels + 2>>
      /\ b.inLoop = TRUE /\ b.breakLabel = labels + 2 /\ b.continueLabel = labels + 1
  BY <1>1 DEF Block, Blocks, Kinds
<1> HIDE DEF b
<1>4. Exits(b) /\ Promised(b) = {labels + 2} /\ b.exits[1] = labels + 1
  BY <1>3 DEF Exits, Promised
<1>5. head \in Seq(Entries) /\ WellFormed(head) /\ labels + 1 \in Emitted(head) /\ JumpsInto(head, {})
  <2>1. PICK x : x = CreateLabel(labels + 1)
    OBVIOUS
  <2>2. x \in Entries /\ x.op = "label" /\ x.label = labels + 1
    BY <1>1, <2>1, LabelEntries
  <2>3. <<x>> \in Seq(Entries) /\ 1 \in DOMAIN <<x>> /\ \A i \in DOMAIN <<x>> : <<x>>[i] = x
    BY <2>2
  <2> QED
    BY <2>1, <2>2, <2>3, PlainRows
<1>6. test \in Seq(Entries) /\ WellFormed(test) /\ JumpsInto(test, {labels + 2})
  <2>1. PICK x : x = IfFalseGoto(labels + 2)
    OBVIOUS
  <2>2. x \in Entries /\ x.op = "ifFalseGoto" /\ x.label = labels + 2
    BY <1>1, <2>1, LabelEntries
  <2>3. <<x>> \in Seq(Entries) /\ \A i \in DOMAIN <<x>> : <<x>>[i] = x
    BY <2>2
  <2>4. WellFormed(<<x>>) /\ JumpsInto(<<x>>, {labels + 2})
    BY <2>2, <2>3, PlainRows
  <2>5. WellFormed(<<>>) /\ JumpsInto(<<>>, {labels + 2}) /\ <<>> \in Seq(Entries)
    BY PlainFits DEF JumpsInto
  <2> QED
    BY <2>1, <2>3, <2>4, <2>5
<1> HIDE DEF head, test
<1>7. WellFormed(row) /\ labels + 1 \in Emitted(row)
  BY <1>5, <1>6, Follows, EmittedJoins
<1>8. JumpsInto(row, {labels + 2})
  <2>1. JumpsInto(head, {labels + 2})
    BY <1>5, Further
  <2> QED
    BY <1>5, <1>6, <2>1, JumpsJoin
<1> HIDE DEF row
<1>9. /\ labels + 2 \in Coming(icode', open') /\ labels + 1 \in Coming(icode', open')
  BY <1>2, <1>3, <1>4, <1>7, Places
<1>10. JumpsInto(row, Coming(icode', open'))
  BY <1>8, <1>9, Further
<1>11. Leads(b, Coming(icode', open'))
  BY <1>3, <1>4, <1>9 DEF Leads
<1>12. b.kind # "function"
  BY <1>3
<1> QED
  BY <1>1, <1>2, <1>3, <1>4, <1>7, <1>10, <1>11, <1>12, Entered DEF Code

LEMMA ElseCode ==
    ASSUME Code, elseStatement
    PROVE  Code'
<1> DEFINE row == <<Goto(Top.exits[2]), CreateLabel(Top.exits[1])>>
           b == [Top EXCEPT !.kind = "else", !.exits = <<Top.exits[2]>>]
           front == Front(open)
<1>1. /\ Top = open[Len(open)] /\ Top \in Blocks /\ Exits(Top) /\ Leads(Top, Coming(icode, open))
      /\ Top.kind = "if" /\ Len(open) \in Nat /\ Len(open) > 0 /\ Len(open) # 1
      /\ Len(open) \in DOMAIN open
  BY TopBlock DEF elseStatement
<1>2. /\ icode \in Seq(Entries) /\ open \in Seq(Blocks) /\ open # <<>>
      /\ isVoid' = isVoid /\ symbols' = symbols /\ labels' = labels /\ icode' = icode \o row
      /\ open' = Append(front, b) /\ symbols \subseteq Local /\ labels \in Nat
  BY DEF Code, WellFormed, elseStatement, Emit
<1>3. Top.exits \in Seq(Nat) /\ Len(Top.exits) = 2 /\ Top.exits[1] \in Nat /\ Top.exits[2] \in Nat
  <2>1. Top.exits \in Seq(Nat) /\ Len(Top.exits) = 2
    BY <1>1 DEF Blocks, Exits
  <2> QED
    BY <2>1
<1>4. /\ b \in Blocks /\ b.kind = "else" /\ b.exits = <<Top.exits[2]>>
      /\ b.inLoop = Top.inLoop /\ b.breakLabel = Top.breakLabel /\ b.continueLabel = Top.continueLabel
  <2>1. <<Top.exits[2]>> \in Seq(Nat)
    BY <1>3
  <2> QED
    BY <1>1, <2>1 DEF Blocks, Kinds
<1> HIDE DEF b
<1>5. Exits(b) /\ Promised(b) = {Top.exits[2]} /\ Promised(Top) = {Top.exits[1]}
  BY <1>1, <1>4 DEF Exits, Promised
<1>6. /\ row \in Seq(Entries) /\ WellFormed(row) /\ Top.exits[1] \in Emitted(row)
      /\ \A ls : Top.exits[2] \in ls => JumpsInto(row, ls)
  <2>1. PICK x, y : x = Goto(Top.exits[2]) /\ y = CreateLabel(Top.exits[1])
    OBVIOUS
  <2>2. x \in Entries /\ x.op = "goto" /\ x.label = Top.exits[2]
    BY <1>3, <2>1, LabelEntries
  <2>3. y \in Entries /\ y.op = "label" /\ y.label = Top.exits[1]
    BY <1>3, <2>1, LabelEntries
  <2>4. PICK c : c = <<x, y>>
    OBVIOUS
  <2>5. c \in Seq(Entries) /\ 2 \in DOMAIN c /\ c[2] = y /\ \A i \in DOMAIN c : c[i] = x \/ c[i] = y
    BY <2>2, <2>3, <2>4
  <2>6. WellFormed(c) /\ Top.exits[1] \in Emitted(c) /\ \A ls : Top.exits[2] \in ls => JumpsInto(c, ls)
    BY <2>2, <2>3, <2>5, PlainRows
  <2> QED
    BY <2>1, <2>4, <2>5, <2>6
<1> HIDE DEF row
<1>7. /\ front \in Seq(Blocks) /\ Len(front) = Len(open) - 1
      /\ \A k \in 1 .. Len(open) - 1 : k \in DOMAIN open /\ front[k] = open[k]
      /\ \A k \in DOMAIN open : k \in 1 .. Len(open) - 1 \/ k = Len(open)
  BY <1>2, FrontFacts
<1> HIDE DEF front
<1>8. /\ open' \in Seq(Blocks) /\ DOMAIN open' = 1 .. Len(open) /\ open'[Len(open)] = b
      /\ \A k \in 1 .. Len(open) - 1 : open'[k] = open[k]
  BY <1>1, <1>2, <1>4, <1>7
<1>9. open' # <<>>
  BY <1>1, <1>8
<1>10. /\ Coming(icode, open) \subseteq Coming(icode', open')
       /\ Promised(b) \subseteq Coming(icode', open')
  <2>1. Len(open) \in DOMAIN open' /\ \A k \in 1 .. Len(open) - 1 : k \in DOMAIN open'
    BY <1>1, <1>8
  <2>2. ASSUME NEW k \in DOMAIN open
        PROVE  \/ Promised(open[k]) \subseteq Emitted(row)
               \/ \E j \in DOMAIN open' : Promised(open[k]) \subseteq Promised(open'[j])
    BY <1>1, <1>5, <1>6, <1>7, <1>8, <2>1
  <2> QED
    BY <1>2, <1>6, <1>8, <2>1, <2>2, ComingCovers
<1>11. JumpsInto(row, Coming(icode', open'))
  BY <1>5, <1>6, <1>10
<1>12. Leads(b, Coming(icode', open'))
  BY <1>1, <1>4, <1>10 DEF Leads
<1>13. ASSUME NEW k \in DOMAIN open'
       PROVE  /\ open'[k].kind = "function" <=> k = 1
              /\ Exits(open'[k])
              /\ Leads(open'[k], Coming(icode', open')) \/ (k \in DOMAIN open /\ open'[k] = open[k])
  <2>1. CASE k = Len(open)
    BY <1>1, <1>4, <1>5, <1>8, <1>12, <2>1
  <2>2. CASE k \in 1 .. Len(open) - 1
    BY <1>7, <1>8, <2>2 DEF Code
  <2> QED
    BY <1>1, <1>8, <2>1, <2>2
<1> QED
  BY <1>2, <1>6, <1>8, <1>9, <1>10, <1>11, <1>13, CodeGrows

LEMMA ForEachCode ==
    ASSUME Code, NEW s \in Local, forEachLoop(s), ~ Reject
    PROVE  Code'
<1> DEFINE l1 == labels + 1
           l2 == labels + 2
           l3 == labels + 3
           head == <<NullInit(s), CreateLabel(l1), IfFalseGoto(l2), Call>>
           u == unitCopy(Whole(s), Whole("callee"))
           row == head \o u
           b == Block("forEach", TRUE, l2, l3, <<l3, l1, l2>>)
<1>1. labels \in Nat /\ l1 \in Nat /\ l2 \in Nat /\ l3 \in Nat /\ icode \in Seq(Entries)
  BY DEF Code, WellFormed
<1>2. /\ icode' = icode \o row /\ isVoid' = isVoid /\ symbols' = symbols \cup {s}
      /\ open' = Append(open, b) /\ labels' = l3
  BY DEF forEachLoop, Emit, EnterBlock, createLocal, Reject, genVars
<1> HIDE DEF l1, l2, l3
<1>3. /\ b \in Blocks /\ b.kind = "forEach" /\ b.exits = <<l3, l1, l2>>
      /\ b.inLoop = TRUE /\ b.breakLabel = l2 /\ b.continueLabel = l3
  BY <1>1 DEF Block, Blocks, Kinds
<1> HIDE DEF b
<1>4. Exits(b) /\ Promised(b) = {l3, l2} /\ b.exits[2] = l1
  BY <1>3 DEF Exits, Promised
<1>5. NullInit(s) \in Entries /\ NullInit(s).op = "nullInit" /\ Whole(s) \in Overwritten
  BY NullInitFits
<1>6. Call \in Entries /\ Call.op = "call"
  BY DEF Entries, Call
<1>7. /\ head \in Seq(Entries) /\ WellFormed(head) /\ l1 \in Emitted(head) /\ JumpsInto(head, {l2})
      /\ Calls(head)
  <2>1. PICK x, y : x = CreateLabel(l1) /\ y = IfFalseGoto(l2)
    OBVIOUS
  <2>2. x \in Entries /\ x.op = "label" /\ x.label = l1
    BY <1>1, <2>1, LabelEntries
  <2>3. y \in Entries /\ y.op = "ifFalseGoto" /\ y.label = l2
    BY <1>1, <2>1, LabelEntries
  <2>4. PICK m, z : m = NullInit(s) /\ z = Call
    OBVIOUS
  <2>5. PICK c : c = <<m, x, y, z>>
    OBVIOUS
  <2>6. /\ c \in Seq(Entries) /\ Len(c) = 4 /\ c[4] = z /\ 2 \in DOMAIN c /\ c[2] = x
        /\ \A i \in DOMAIN c : c[i] = m \/ c[i] = x \/ c[i] = y \/ c[i] = z
    BY <1>5, <1>6, <2>2, <2>3, <2>4, <2>5
  <2>7. /\ WellFormed(c) /\ l1 \in Emitted(c) /\ JumpsInto(c, {l2})
    BY <1>5, <1>6, <2>2, <2>3, <2>4, <2>6, PlainRows
  <2>8. Calls(c)
    BY <1>6, <2>4, <2>6 DEF Calls
  <2> QED
    BY <2>1, <2>4, <2>5, <2>6, <2>7, <2>8
<1>8. Whole("callee") \in Copied
  BY DEF Copied, Whole, Unit, Storage
<1> HIDE DEF head
<1>9. WellFormed(row)
  BY <1>5, <1>7, <1>8, CopyFits
<1>10. u \in Seq(Entries) /\ JumpsInto(u, {})
  BY <1>5, <1>8, CopyStraight
<1> HIDE DEF u
<1>11. l1 \in Emitted(row)
  BY <1>7, <1>10, EmittedJoins
<1>12. JumpsInto(row, {l2})
  <2>1. JumpsInto(u, {l2})
    BY <1>10, Further
  <2> QED
    BY <1>7, <1>10, <2>1, JumpsJoin
<1> HIDE DEF row
<1>13. {l1, l2, l3} \subseteq Coming(icode', open')
  BY <1>2, <1>3, <1>4, <1>9, <1>11, Places, SMTT(30)
<1>14. JumpsInto(row, Coming(icode', open'))
  BY <1>12, <1>13, Further
<1>15. Leads(b, Coming(icode', open'))
  BY <1>3, <1>4, <1>13 DEF Leads
<1>16. b.kind # "function"
  BY <1>3
<1>17. symbols' \subseteq Local /\ labels' \in Nat
  BY <1>1, <1>2 DEF Code
<1> QED
  BY <1>1, <1>2, <1>3, <1>4, <1>9, <1>14, <1>15, <1>16, <1>17, Entered

\* What closing a block emits: the labels it promised, and jumps back.
LEMMA ClosingRow ==
    ASSUME NEW b \in Blocks, Exits(b), b.kind # "function"
    PROVE  /\ Closing(b) \in Seq(Entries) /\ WellFormed(Closing(b))
           /\ Promised(b) \subseteq Emitted(Closing(b))
           /\ \A ls : Leads(b, ls) /\ Promised(b) \subseteq ls => JumpsInto(Closing(b), ls)
<1>1. b.exits \in Seq(Nat) /\ b.kind \in Kinds
  BY DEF Blocks
<1>2. CASE b.kind \in {"if", "else"}
  <2>1. Len(b.exits) \in {1, 2}
    BY <1>2 DEF Exits
  <2>2. b.exits[1] \in Nat
    BY <1>1, <2>1
  <2>3. PICK x : x = CreateLabel(b.exits[1])
    OBVIOUS
  <2>4. x \in Entries /\ x.op = "label" /\ x.label = b.exits[1]
    BY <2>2, <2>3, LabelEntries
  <2>5. PICK c : c = <<x>>
    OBVIOUS
  <2>6. c \in Seq(Entries) /\ 1 \in DOMAIN c /\ c[1] = x /\ \A i \in DOMAIN c : c[i] = x
    BY <2>4, <2>5
  <2>7. /\ WellFormed(c) /\ b.exits[1] \in Emitted(c) /\ \A ls : JumpsInto(c, ls)
    BY <2>4, <2>6, PlainRows
  <2>8. Closing(b) = c
    BY <1>2, <2>3, <2>5 DEF Closing
  <2>9. Promised(b) = {b.exits[1]}
    BY <1>2 DEF Promised
  <2> QED
    BY <2>6, <2>7, <2>8, <2>9
<1>3. CASE b.kind = "forEach"
  <2>1. Len(b.exits) = 3
    BY <1>3 DEF Exits
  <2>2. b.exits[1] \in Nat /\ b.exits[2] \in Nat /\ b.exits[3] \in Nat
    BY <1>1, <2>1
  <2>3. PICK x, y, z : x = CreateLabel(b.exits[1]) /\ y = Goto(b.exits[2]) /\ z = CreateLabel(b.exits[3])
    OBVIOUS
  <2>4. x \in Entries /\ x.op = "label" /\ x.label = b.exits[1]
    BY <2>2, <2>3, LabelEntries
  <2>5. y \in Entries /\ y.op = "goto" /\ y.label = b.exits[2]
    BY <2>2, <2>3, LabelEntries
  <2>6. z \in Entries /\ z.op = "label" /\ z.label = b.exits[3]
    BY <2>2, <2>3, LabelEntries
  <2>7. PICK c : c = <<x, y, z>>
    OBVIOUS
  <2>8. /\ c \in Seq(Entries) /\ 1 \in DOMAIN c /\ c[1] = x /\ 3 \in DOMAIN c /\ c[3] = z
        /\ \A i \in DOMAIN c : c[i] = x \/ c[i] = y \/ c[i] = z
    BY <2>4, <2>5, <2>6, <2>7
  <2>9. /\ WellFormed(c) /\ b.exits[1] \in Emitted(c) /\ b.exits[3] \in Emitted(c)
        /\ \A ls : b.exits[2] \in ls => JumpsInto(c, ls)
    BY <2>4, <2>5, <2>6, <2>8, PlainRows
  <2>10. Closing(b) = c
    BY <1>3, <2>3, <2>7 DEF Closing
  <2>11. Promised(b) = {b.exits[1], b.exits[3]}
    BY <1>3 DEF Promised
  <2>12. \A ls : Leads(b, ls) => b.exits[2] \in ls
    BY <1>3 DEF Leads
  <2> QED
    BY <2>8, <2>9, <2>10, <2>11, <2>12
<1>4. CASE b.kind = "do"
  <2>1. Len(b.exits) = 2
    BY <1>4 DEF Exits
  <2>2. b.exits[1] \in Nat /\ b.exits[2] \in Nat
    BY <1>1, <2>1
  <2>3. PICK x, y, z : x = IfFalseGoto(b.exits[2]) /\ y = Goto(b.exits[1]) /\ z = CreateLabel(b.exits[2])
    OBVIOUS
  <2>4. x \in Entries /\ x.op = "ifFalseGoto" /\ x.label = b.exits[2]
    BY <2>2, <2>3, LabelEntries
  <2>5. y \in Entries /\ y.op = "goto" /\ y.label = b.exits[1]
    BY <2>2, <2>3, LabelEntries
  <2>6. z \in Entries /\ z.op = "label" /\ z.label = b.exits[2]
    BY <2>2, <2>3, LabelEntries
  <2>7. PICK c : c = <<x, y, z>>
    OBVIOUS
  <2>8. /\ c \in Seq(Entries) /\ 3 \in DOMAIN c /\ c[3] = z
        /\ \A i \in DOMAIN c : c[i] = x \/ c[i] = y \/ c[i] = z
    BY <2>4, <2>5, <2>6, <2>7
  <2>9. /\ WellFormed(c) /\ b.exits[2] \in Emitted(c)
        /\ \A ls : b.exits[1] \in ls /\ b.exits[2] \in ls => JumpsInto(c, ls)
    BY <2>4, <2>5, <2>6, <2>8, PlainRows
  <2>10. Closing(b) = c
    BY <1>4, <2>3, <2>7 DEF Closing
  <2>11. Promised(b) = {b.exits[2]}
    BY <1>4 DEF Promised
  <2>12. \A ls : Leads(b, ls) => b.exits[1] \in ls
    BY <1>4 DEF Leads
  <2> QED
    BY <2>8, <2>9, <2>10, <2>11, <2>12
<1>5. CASE b.kind \in {"while", "loop"}
  <2>1. Len(b.exits) = 2
    BY <1>5 DEF Exits
  <2>2. b.exits[1] \in Nat /\ b.exits[2] \in Nat
    BY <1>1, <2>1
  <2>3. PICK y, z : y = Goto(b.exits[1]) /\ z = CreateLabel(b.exits[2])
    OBVIOUS
  <2>5. y \in Entries /\ y.op = "goto" /\ y.label = b.exits[1]
    BY <2>2, <2>3, LabelEntries
  <2>6. z \in Entries /\ z.op = "label" /\ z.label = b.exits[2]
    BY <2>2, <2>3, LabelEntries
  <2>7. PICK c : c = <<y, z>>
    OBVIOUS
  <2>8. /\ c \in Seq(Entries) /\ 2 \in DOMAIN c /\ c[2] = z
        /\ \A i \in DOMAIN c : c[i] = y \/ c[i] = z
    BY <2>5, <2>6, <2>7
  <2>9. /\ WellFormed(c) /\ b.exits[2] \in Emitted(c)
        /\ \A ls : b.exits[1] \in ls => JumpsInto(c, ls)
    BY <2>5, <2>6, <2>8, PlainRows
  <2>10. Closing(b) = c
    BY <1>5, <2>3, <2>7 DEF Closing
  <2>11. Promised(b) = {b.exits[2]}
    BY <1>5 DEF Promised
  <2>12. \A ls : Leads(b, ls) => b.exits[1] \in ls
    BY <1>5 DEF Leads
  <2> QED
    BY <2>8, <2>9, <2>10, <2>11, <2>12
<1> QED
  BY <1>1, <1>2, <1>3, <1>4, <1>5 DEF Kinds

LEMMA CloseCode ==
    ASSUME Code, closeBlock
    PROVE  Code'
<1> DEFINE row == Closing(Top)
           front == Front(open)
<1>1. /\ Top = open[Len(open)] /\ Top \in Blocks /\ Exits(Top) /\ Leads(Top, Coming(icode, open))
      /\ Top.kind # "function" /\ Promised(Top) \subseteq Coming(icode, open)
      /\ Len(open) \in Nat /\ Len(open) > 1
  BY TopBlock DEF closeBlock
<1>2. /\ icode \in Seq(Entries) /\ open \in Seq(Blocks) /\ open # <<>>
      /\ isVoid' = isVoid /\ symbols' = symbols /\ labels' = labels /\ icode' = icode \o row
      /\ open' = front /\ symbols \subseteq Local /\ labels \in Nat
  BY DEF Code, WellFormed, closeBlock
<1>3. /\ row \in Seq(Entries) /\ WellFormed(row) /\ Promised(Top) \subseteq Emitted(row)
      /\ \A ls : Leads(Top, ls) /\ Promised(Top) \subseteq ls => JumpsInto(row, ls)
  BY <1>1, ClosingRow
<1>4. /\ front \in Seq(Blocks) /\ Len(front) = Len(open) - 1
      /\ \A k \in 1 .. Len(open) - 1 : k \in DOMAIN open /\ front[k] = open[k]
      /\ \A k \in DOMAIN open : k \in 1 .. Len(open) - 1 \/ k = Len(open)
  BY <1>2, FrontFacts
<1> HIDE DEF row, front
<1>5. /\ open' \in Seq(Blocks) /\ open' # <<>> /\ DOMAIN open' = 1 .. Len(open) - 1
  BY <1>1, <1>2, <1>4
<1>6. Coming(icode, open) \subseteq Coming(icode', open')
  <2>1. ASSUME NEW k \in DOMAIN open
        PROVE  \/ Promised(open[k]) \subseteq Emitted(row)
               \/ \E j \in DOMAIN open' : Promised(open[k]) \subseteq Promised(open'[j])
    BY <1>1, <1>2, <1>3, <1>4, <1>5
  <2> QED
    BY <1>2, <1>3, <2>1, ComingCovers
<1>7. JumpsInto(row, Coming(icode', open'))
  <2>1. Leads(Top, Coming(icode', open')) /\ Promised(Top) \subseteq Coming(icode', open')
    BY <1>1, <1>6, Further
  <2> QED
    BY <1>3, <2>1
<1>8. ASSUME NEW k \in DOMAIN open'
      PROVE  /\ open'[k].kind = "function" <=> k = 1
             /\ Exits(open'[k])
             /\ k \in DOMAIN open /\ open'[k] = open[k]
  BY <1>2, <1>4, <1>5 DEF Code
<1> QED
  BY <1>2, <1>3, <1>5, <1>6, <1>7, <1>8, CodeGrows

\* The statements that open and close no block.
LEMMA LocalCode ==
    ASSUME Code, Whole("self") \notin Readable, NEW s \in Local, local(s), ~ Reject
    PROVE  Code'
<1>1. /\ isVoid' = isVoid /\ labels' = labels /\ open' = open /\ symbols' = symbols \cup {s}
      /\ symbols \subseteq Local
  BY DEF local, Emit, createLocal, Reject, genVars, Code
<1>2. CASE Emit(<<NullInit(s)>>)
  <2>1. WellFormed(<<NullInit(s)>>) /\ JumpsInto(<<NullInit(s)>>, {})
    BY NullInitFits
  <2>2. JumpsInto(<<NullInit(s)>>, Coming(icode, open))
    BY <2>1, Further
  <2> QED
    BY <1>1, <1>2, <2>1, <2>2, PlainRow DEF Emit
<1>3. ASSUME NEW src \in Wholes, src = Whole(s) \/ CanRead(src),
             Emit(<<NullInit(s)>> \o Evaluate(src) \o unitCopy(Whole(s), src))
      PROVE  Code'
  <2>1. src \in Copied /\ (src.var = "callee" => src = Whole("callee"))
    BY <1>1, <1>3, Reads DEF Wholes
  <2>2. PICK row : row = <<NullInit(s)>> \o Evaluate(src) \o unitCopy(Whole(s), src)
    OBVIOUS
  <2>3. WellFormed(row) /\ JumpsInto(row, {})
    BY <2>1, <2>2, InitialisedRow
  <2>4. JumpsInto(row, Coming(icode, open))
    BY <2>3, Further
  <2>5. icode' = icode \o row
    BY <1>3, <2>2 DEF Emit
  <2> QED
    BY <1>1, <2>3, <2>4, <2>5, PlainRow
<1> QED
  BY <1>1, <1>2, <1>3 DEF local, Reject, genVars

LEMMA WalrusCode ==
    ASSUME Code, Whole("self") \notin Readable, NEW s \in Local, NEW src \in Wholes,
           walrusLocal(s, src), ~ Reject
    PROVE  Code'
<1>1. /\ isVoid' = isVoid /\ labels' = labels /\ open' = open /\ symbols' = symbols \cup {s}
      /\ symbols \subseteq Local /\ CanRead(src)
      /\ icode' = icode \o (Evaluate(src) \o <<NullInit(s)>> \o unitCopy(Whole(s), src))
  BY DEF walrusLocal, Emit, createLocal, Reject, genVars, Code
<1>2. src \in Copied /\ (src.var = "callee" => src = Whole("callee"))
  BY <1>1, Reads DEF Wholes
<1>3. PICK row : row = Evaluate(src) \o <<NullInit(s)>> \o unitCopy(Whole(s), src)
  OBVIOUS
<1>4. WellFormed(row) /\ JumpsInto(row, {})
  BY <1>2, <1>3, WalrusRow
<1>5. JumpsInto(row, Coming(icode, open))
  BY <1>4, Further
<1> QED
  BY <1>1, <1>3, <1>4, <1>5, PlainRow

LEMMA AssignmentCode ==
    ASSUME Code, Whole("self") \notin Readable, Whole("p") \notin Targets,
           NEW dst \in Targets, NEW src \in Readable, assignment(dst, src), ~ Reject
    PROVE  Code'
<1>1. /\ isVoid' = isVoid /\ labels' = labels /\ open' = open /\ symbols' = symbols
      /\ symbols \subseteq Local /\ CanRead(src)
      /\ icode' = icode \o (Evaluate(src) \o unitCopy(dst, src))
  BY DEF assignment, Emit, Reject, genVars, Code
<1>2. src \in Copied /\ (src.var = "callee" => src = Whole("callee"))
  BY <1>1, Reads
<1>3. dst \in Overwritten
  BY SourceNamesVariables DEF Overwritten
<1>4. PICK row : row = Evaluate(src) \o unitCopy(dst, src)
  OBVIOUS
<1>5. WellFormed(row) /\ JumpsInto(row, {})
  BY <1>2, <1>3, <1>4, AssignmentRow
<1>6. JumpsInto(row, Coming(icode, open))
  BY <1>5, Further
<1> QED
  BY <1>1, <1>4, <1>5, <1>6, PlainRow

LEMMA ReturnCode ==
    ASSUME Code, NEW v \in Variable \cup {"callee"}, functionReturn(Whole(v)), ~ Reject
    PROVE  Code'
<1>1. /\ isVoid' = isVoid /\ labels' = labels /\ open' = open /\ symbols' = symbols
      /\ symbols \subseteq Local
      /\ icode' = icode \o ((IF isVoid THEN <<>>
                               ELSE Evaluate(Whole(v)) \o unitCopy(Whole("return"), Whole(v)))
                             \o createReturnAndCallDeconstructors)
  BY DEF functionReturn, Emit, Reject, genVars, Code
<1>2. PICK row : row = (IF isVoid THEN <<>> ELSE Evaluate(Whole(v)) \o unitCopy(Whole("return"), Whole(v)))
                         \o createReturnAndCallDeconstructors
  OBVIOUS
<1>3. WellFormed(row) /\ JumpsInto(row, {})
  BY <1>1, <1>2, ReturnsRow
<1>4. JumpsInto(row, Coming(icode, open))
  BY <1>3, Further
<1> QED
  BY <1>1, <1>2, <1>3, <1>4, PlainRow

LEMMA BreakCode ==
    ASSUME Code, breakStatement \/ continueStatement, ~ Reject
    PROVE  Code'
<1>1. PICK l : /\ l = Top.breakLabel \/ l = Top.continueLabel
               /\ breakOrContinue(l)
  BY DEF breakStatement, continueStatement
<1>2. /\ isVoid' = isVoid /\ labels' = labels /\ open' = open /\ symbols' = symbols
      /\ symbols \subseteq Local /\ Top.inLoop /\ icode' = icode \o <<Goto(l)>>
  BY <1>1 DEF breakOrContinue, Emit, Reject, genVars, Code
<1>3. Top \in Blocks /\ Leads(Top, Coming(icode, open))
  BY TopBlock
<1>4. l \in Nat /\ l \in Coming(icode, open)
  BY <1>1, <1>2, <1>3 DEF Blocks, Leads
<1>5. PICK x : x = Goto(l)
  OBVIOUS
<1>6. x \in Entries /\ x.op = "goto" /\ x.label = l
  BY <1>4, <1>5, LabelEntries
<1>7. <<x>> \in Seq(Entries) /\ \A i \in DOMAIN <<x>> : <<x>>[i] = x
  BY <1>6
<1>8. WellFormed(<<x>>) /\ JumpsInto(<<x>>, Coming(icode, open))
  BY <1>4, <1>6, <1>7, PlainRows
<1> QED
  BY <1>2, <1>5, <1>8, PlainRow

------------------------------------------------------------------------------
(***************************************************************************)
(* The discipline, with the variables of the function.                     *)
(***************************************************************************)
LEMMA FiniteVariables ==
    /\ IsFiniteSet(Variable) /\ NoObject \notin Object
    /\ \A S : Counted!Cardinality(S) = Cardinality(S) /\ (Counted!IsFiniteSet(S) <=> IsFiniteSet(S))
<1>1. IsFiniteSet(Local)
  <2>1. LocalOrder \in Seq(Local) /\ Local = {LocalOrder[i] : i \in DOMAIN LocalOrder}
    BY LocalOrderIsLocal DEF ToSet
  <2>2. PICK n \in Nat : DOMAIN LocalOrder = 1 .. n
    BY <2>1
  <2>3. IsFiniteSet(1 .. n)
    BY <2>2, FS_Interval
  <2>4. LocalOrder \in Surjection(1 .. n, Local)
    BY <2>1, <2>2 DEF Surjection
  <2> QED
    BY <2>3, <2>4, FS_Surjection
<1>2. IsFiniteSet(Local \cup {"p"})
  BY <1>1, FS_AddElement
<1>3. IsFiniteSet((Local \cup {"p"}) \cup {"g"})
  BY <1>2, FS_AddElement
<1>4. Variable = (Local \cup {"p"}) \cup {"g"}
  BY DEF Variable
<1>5. NoObject \notin Object
  BY ObjectsAreNoWords DEF NoObject
<1>6. \A S : Counted!Cardinality(S) = Cardinality(S)
  BY DEF Counted!Cardinality, Cardinality
<1>7. \A S : Counted!IsFiniteSet(S) <=> IsFiniteSet(S)
  BY DEF Counted!IsFiniteSet, IsFiniteSet
<1> QED
  BY <1>3, <1>4, <1>5, <1>6, <1>7

LEMMA CountedStep ==
    ASSUME Counted!IInv, [Discipline!Next]_(Discipline!vars)
    PROVE  Counted!IInv'
<1>1. [Counted!Next]_(Counted!vars)
  BY DEF Discipline!Next, Discipline!vars, Discipline!Create, Discipline!Retain, Discipline!Release,
         Discipline!Abandon, Discipline!Store,
         Counted!Next, Counted!vars, Counted!Create, Counted!Retain, Counted!Release,
         Counted!Abandon, Counted!Store
<1> QED
  BY <1>1, FiniteVariables, Counted!NextIInv

\* What a variable owns, or what is pending, is live and counted.
ReferredIsLive ==
    /\ \A v \in Variable : owner[v] # NoObject =>
         owner[v] \in Object /\ status[owner[v]] = "live" /\ count[owner[v]] > 0
    /\ \A o \in Object : pending[o] > 0 => status[o] = "live" /\ count[o] > 0

LEMMA CountedIsLive ==
    ASSUME Counted!IInv
    PROVE  /\ owner \in [Variable -> Object \cup {NoObject}] /\ pending \in [Object -> Nat]
           /\ count \in [Object -> Nat] /\ status \in [Object -> {"unborn", "live", "freed"}]
           /\ ReferredIsLive
<1>1. Counted!TypeOK /\ Counted!CountIsExact /\ Counted!OnlyLiveIsCounted
  BY DEF Counted!IInv
<1>2. /\ owner \in [Variable -> Object \cup {NoObject}] /\ pending \in [Object -> Nat]
      /\ count \in [Object -> Nat] /\ status \in [Object -> {"unborn", "live", "freed"}]
  BY <1>1 DEF Counted!TypeOK, Counted!Status
<1>3. ASSUME NEW v \in Variable, owner[v] # NoObject
      PROVE  owner[v] \in Object /\ count[owner[v]] > 0
  BY <1>1, <1>3, FiniteVariables, Counted!OwnedIsCounted
<1>4. ASSUME NEW o \in Object, pending[o] > 0 PROVE count[o] > 0
  <2>1. Counted!Owners(o) = Counted!Holding(owner, o)
    BY FiniteVariables, Counted!OwnersIsHolding
  <2>2. Cardinality(Counted!Owners(o)) \in Nat
    BY <2>1, FiniteVariables, Counted!HoldingFinite
  <2> QED
    BY <1>1, <1>2, <1>4, <2>2, FiniteVariables DEF Counted!CountIsExact
<1>5. \A o \in Object : count[o] > 0 => status[o] = "live"
  BY <1>1, <1>2 DEF Counted!OnlyLiveIsCounted
<1> QED
  BY <1>2, <1>3, <1>4, <1>5 DEF ReferredIsLive

LEMMA LiveNext == Counted!IInv' => ReferredIsLive'
<1>1. Counted!IInv => ReferredIsLive
  BY CountedIsLive
<1> QED
  BY <1>1, PTL

------------------------------------------------------------------------------
(***************************************************************************)
(* What stands around the entry that is executed.                          *)
(***************************************************************************)
LEMMA StartOfTable ==
    ASSUME NEW c, WellFormed(c), 1 \in DOMAIN c
    PROVE  ~ Underway(c, 1) /\ ~ Called(c, 1)
<1>1. 0 \notin DOMAIN c /\ 1 - 1 = 0 /\ 2 - 1 = 1 /\ 2 - 2 = 0 /\ 1 + 1 = 2 /\ (0 - 1) \notin DOMAIN c /\ 1 - 2 = 0 - 1
  BY DEF WellFormed
<1>2. ~ Called(c, 1)
  BY <1>1 DEF Called
<1>3. Fits(c, 1) /\ (2 \in DOMAIN c => Fits(c, 2))
  BY DEF WellFormed
<1>4. ~ (c[1].op = "copy" /\ c[1].counted)
  <2> SUFFICES ASSUME c[1].op = "copy", c[1].counted PROVE FALSE
    OBVIOUS
  <2>1. Returns(c, 1) \/ Arrives(c, 1)
    BY <1>3 DEF Fits
  <2> QED
    BY <1>1, <2>1 DEF Returns, Arrives
<1>5. ~ (c[1].op = "deconstruct" /\ ~ c[1].sweep)
  <2> SUFFICES ASSUME c[1].op = "deconstruct", ~ c[1].sweep PROVE FALSE
    OBVIOUS
  <2>1. c[1].unit \in Overwritten /\ 2 \in DOMAIN c /\ c[2].op = "copy" /\ c[2].dest = c[1].unit
    BY <1>1, <1>3 DEF Fits
  <2>2. c[2].dest.var # "return"
    BY <2>1, LocalOrderIsLocal DEF Overwritten, Variable
  <2>3. Arrives(c, 2)
    BY <1>3, <2>1, <2>2 DEF Fits
  <2> QED
    BY <1>1, <2>3 DEF Arrives
<1> QED
  BY <1>2, <1>4, <1>5 DEF Underway

LEMMA UnderwayBefore ==
    ASSUME NEW c, WellFormed(c), NEW i \in DOMAIN c, i + 1 \in DOMAIN c, Underway(c, i + 1)
    PROVE  \/ c[i].op = "beforeCopy" /\ c[i].unit.var = Carried(c, i + 1)
           \/ c[i].op = "deconstruct" /\ ~ c[i].sweep /\ Carried(c, i) = Carried(c, i + 1)
<1>1. PICK k : k = i + 1
  OBVIOUS
<1>2. k \in DOMAIN c /\ k - 1 = i /\ (k + 1) - 1 = k /\ (k + 1) - 2 = i /\ Fits(c, k) /\ Underway(c, k)
      /\ (k + 1 \in DOMAIN c => Fits(c, k + 1))
  BY <1>1 DEF WellFormed
<1>3. CASE c[k].op = "copy" /\ c[k].counted
  <2>1. Returns(c, k) \/ Arrives(c, k)
    BY <1>2, <1>3 DEF Fits
  <2>2. Carried(c, k) = c[k].src.var
    BY <1>3 DEF Carried
  <2>3. \/ c[i].op = "beforeCopy" /\ c[i].unit = c[k].src
        \/ c[i].op = "deconstruct" /\ ~ c[i].sweep
    BY <1>2, <1>3, <2>1 DEF Returns, Arrives
  <2>4. c[i].op = "deconstruct" => Carried(c, i) = c[k].src.var
    BY <1>1 DEF Carried
  <2> QED
    BY <1>1, <2>2, <2>3, <2>4
<1>4. CASE c[k].op = "deconstruct" /\ ~ c[k].sweep
  <2>1. c[k].unit \in Overwritten /\ k + 1 \in DOMAIN c /\ c[k + 1].op = "copy" /\ c[k + 1].dest = c[k].unit
    BY <1>2, <1>4 DEF Fits
  <2>2. c[k + 1].dest.var # "return"
    BY <2>1, LocalOrderIsLocal DEF Overwritten, Variable
  <2>3. Arrives(c, k + 1)
    BY <1>2, <2>1, <2>2 DEF Fits
  <2>4. c[i].op = "beforeCopy" /\ c[i].unit = c[k + 1].src
    BY <1>2, <1>4, <2>3 DEF Arrives
  <2>5. Carried(c, k) = c[k + 1].src.var
    BY <1>4 DEF Carried
  <2> QED
    BY <1>1, <2>4, <2>5
<1> QED
  BY <1>2, <1>3, <1>4 DEF Underway

LEMMA CalledBefore ==
    ASSUME NEW c, WellFormed(c), NEW i \in DOMAIN c, Called(c, i + 1)
    PROVE  c[i].op = "call" \/ (c[i].op = "nullInit" /\ Called(c, i))
<1>1. (i + 1) - 1 = i /\ (i + 1) - 2 = i - 1
  BY DEF WellFormed
<1> QED
  BY <1>1 DEF Called

LEMMA SweepsHere ==
    ASSUME NEW c, WellFormed(c), NEW i \in DOMAIN c, NEW S, SweepsOnly(c, i, S)
    PROVE  \/ c[i].op = "ret"
           \/ c[i].op = "deconstruct" /\ c[i].sweep /\ c[i].unit.var \in S /\ SweepsOnly(c, i + 1, S)
<1>1. PICK k \in DOMAIN c :
        /\ i <= k /\ c[k].op = "ret"
        /\ \A j \in i .. k - 1 : c[j].op = "deconstruct" /\ c[j].sweep /\ c[j].unit.var \in S
  BY DEF SweepsOnly
<1>2. i \in Nat /\ k \in Nat
  BY DEF WellFormed
<1>3. CASE i = k
  BY <1>1, <1>3
<1>4. CASE i # k
  <2>1. i + 1 <= k /\ i \in i .. k - 1 /\ \A j \in i + 1 .. k - 1 : j \in i .. k - 1
    BY <1>1, <1>2, <1>4
  <2>2. SweepsOnly(c, i + 1, S)
    BY <1>1, <2>1 DEF SweepsOnly
  <2> QED
    BY <1>1, <2>1, <2>2
<1> QED
  BY <1>3, <1>4

LEMMA SweepsMore ==
    ASSUME NEW c, NEW i, NEW S, NEW T, S \subseteq T, SweepsOnly(c, i, S)
    PROVE  SweepsOnly(c, i, T)
BY DEF SweepsOnly

LEMMA Here ==
    ASSUME BodyInv, phase = "run"
    PROVE  /\ WellFormed(icode) /\ icode \in Seq(Entries) /\ pc \in DOMAIN icode /\ pc \in Nat
           /\ Entry \in Entries /\ Fits(icode, pc)
           /\ Entry.op # "ret" => pc + 1 \in DOMAIN icode
           /\ Entry.op \notin {"deconstruct", "ret"} =>
                /\ held["return"] \notin Object
                /\ \A v \in Variable : Owned(v) \/ (Entry.op = "copy" /\ Entry.dest.var = v)
<1>1. /\ WellFormed(icode) /\ icode \in Seq(Entries) /\ pc \in DOMAIN icode /\ icode[Len(icode)].op = "ret"
      /\ Attached /\ Result
  BY DEF BodyInv, Code, Runs, WellFormed
<1>2. Entry \in Entries /\ Fits(icode, pc) /\ pc \in Nat
  BY <1>1 DEF WellFormed, Entry
<1>3. Entry.op # "ret" => pc + 1 \in DOMAIN icode
  <2>1. Len(icode) \in Nat /\ DOMAIN icode = 1 .. Len(icode)
    BY <1>1
  <2>2. Entry.op # "ret" => pc # Len(icode)
    BY <1>1 DEF Entry
  <2> QED
    BY <1>1, <2>1, <2>2
<1>4. ASSUME Entry.op \notin {"deconstruct", "ret"}
      PROVE  /\ held["return"] \notin Object
             /\ \A v \in Variable : Owned(v) \/ (Entry.op = "copy" /\ Entry.dest.var = v)
  <2>1. \A S : ~ SweepsOnly(icode, pc, S)
    BY <1>1, <1>4, SweepsHere DEF Entry
  <2> QED
    BY <1>1, <2>1 DEF Attached, Excused, Result
<1> QED
  BY <1>1, <1>2, <1>3, <1>4

\* What has to be shown of an entry that is executed and does not end the run.
LEMMA Goes ==
    ASSUME BodyInv, phase = "run", phase' = phase, UNCHANGED genVars, pc' \in DOMAIN icode,
           [Discipline!Next]_(Discipline!vars),
           held' \in [Storage -> Object \cup {Null, Garbage}],
           Attached', Retained', Fresh', Result'
    PROVE  BodyInv'
<1>1. icode' = icode /\ open' = open /\ isVoid' = isVoid /\ symbols' = symbols /\ labels' = labels
  BY DEF genVars
<1>2. Code'
  BY <1>1 DEF BodyInv, Code
<1>3. Counted!IInv'
  BY CountedStep DEF BodyInv
<1>4. Runs'
  BY <1>1 DEF BodyInv, Runs
<1> QED
  BY <1>2, <1>3, <1>4 DEF BodyInv, NoUseAfterFree, SurvivorsAlive

\* And of one that ends it.
LEMMA Ends ==
    ASSUME BodyInv, NEW how, Stop(how), how \notin {"generate", "run", "useAfterFree"},
           how = "returned" =>
             \A s \in {"p", "g", "return"} : held[s] \in Object => status[held[s]] = "live"
    PROVE  BodyInv' /\ [Discipline!Next]_(Discipline!vars)
<1>1. /\ phase' = how /\ icode' = icode /\ open' = open /\ isVoid' = isVoid /\ symbols' = symbols
      /\ labels' = labels /\ held' = held /\ count' = count /\ status' = status
      /\ owner' = owner /\ pending' = pending
  BY DEF Stop, genVars, heapVars
<1>2. UNCHANGED Discipline!vars
  BY <1>1 DEF Discipline!vars
<1>3. Code'
  BY <1>1 DEF BodyInv, Code
<1>4. Counted!IInv'
  BY <1>2, CountedStep DEF BodyInv
<1>5. NoUseAfterFree' /\ SurvivorsAlive'
  BY <1>1 DEF NoUseAfterFree, SurvivorsAlive
<1> QED
  BY <1>1, <1>2, <1>3, <1>4, <1>5 DEF BodyInv

------------------------------------------------------------------------------
(***************************************************************************)
(* Each entry takes a step of the discipline and keeps the invariant.      *)
(***************************************************************************)
LEMMA StorageNames ==
    /\ "p" \in Variable \ Swept /\ "g" \in Variable \ Swept /\ Local \subseteq Variable
    /\ Variable \subseteq Storage /\ "callee" \in Storage /\ "return" \in Storage
    /\ "callee" \notin Variable /\ "return" \notin Variable
    /\ NoObject \notin Object /\ Null \notin Object /\ Garbage \notin Object
BY LocalOrderIsLocal, ObjectsAreNoWords DEF Variable, Storage, Swept, NoObject, Null, Garbage

LEMMA RunNullInit ==
    ASSUME BodyInv, ExecNullInit
    PROVE  BodyInv' /\ [Discipline!Next]_(Discipline!vars)
<1> DEFINE v == Entry.unit.var
<1>1. /\ phase = "run" /\ Entry.op = "nullInit" /\ phase' = phase /\ UNCHANGED genVars /\ pc' = pc + 1
      /\ held' = [held EXCEPT ![v] = Null] /\ pending' = Forget(v)
      /\ owner' = [owner EXCEPT ![v] = NoObject] /\ count' = count /\ status' = status
  BY DEF ExecNullInit, Running, Entry, Step
<1>2. /\ WellFormed(icode) /\ pc \in DOMAIN icode /\ pc + 1 \in DOMAIN icode /\ Entry \in Entries
      /\ held["return"] \notin Object /\ \A w \in Variable : Owned(w)
  BY <1>1, Here
<1>3. v \in Local /\ v \in Variable /\ v \in Storage
  BY <1>1, <1>2, EntryFields, StorageNames
<1>4. /\ owner \in [Variable -> Object \cup {NoObject}] /\ pending \in [Object -> Nat]
      /\ held \in [Storage -> Object \cup {Null, Garbage}]
  BY CountedIsLive DEF BodyInv, ReferredIsLive
<1> HIDE DEF v
<1>5. [Discipline!Next]_(Discipline!vars)
  <2>1. CASE owner[v] = NoObject
    <3>1. owner' = owner
      BY <1>1, <1>3, <1>4, <2>1
    <3>2. \A q \in Object : pending[q] + (IF owner[v] = q THEN 1 ELSE 0) = pending[q]
      BY <1>4, <2>1, StorageNames
    <3>3. pending' = pending
      BY <1>1, <1>4, <3>2 DEF Forget
    <3> QED
      BY <1>1, <3>1, <3>3 DEF Discipline!vars
  <2>2. CASE owner[v] # NoObject
    <3>1. owner[v] \in Object
      BY <1>3, <1>4, <2>2
    <3>2. \A q \in Object : pending[q] + (IF owner[v] = q THEN 1 ELSE 0) =
                              IF q = owner[v] THEN pending[q] + 1 ELSE pending[q]
      BY <1>4
    <3>3. pending' = [pending EXCEPT ![owner[v]] = @ + 1]
      BY <1>1, <1>4, <3>1, <3>2 DEF Forget
    <3>4. Discipline!Abandon(v)
      BY <1>1, <2>2, <3>3 DEF Discipline!Abandon
    <3> QED
      BY <1>3, <3>4 DEF Discipline!Next
  <2> QED
    BY <2>1, <2>2
<1>6. icode' = icode /\ Entry' = icode[pc + 1]
  BY <1>1 DEF genVars, Entry
<1>7. Attached'
  <2>1. ASSUME NEW w \in Variable
        PROVE  IF held'[w] \in Object THEN owner'[w] = held'[w] ELSE owner'[w] = NoObject
    <3>1. CASE w = v
      BY <1>1, <1>3, <1>4, <3>1, StorageNames
    <3>2. CASE w # v
      BY <1>1, <1>2, <1>3, <1>4, <3>2, StorageNames DEF Owned
    <3> QED
      BY <3>1, <3>2
  <2> QED
    BY <2>1 DEF Attached, Owned
<1>8. Retained'
  <2>1. ~ Underway(icode, pc + 1)
    BY <1>1, <1>2, UnderwayBefore DEF Entry
  <2> QED
    BY <1>1, <1>6, <2>1 DEF Retained
<1>9. Fresh'
  <2> SUFFICES ASSUME Called(icode, pc + 1)
               PROVE  LET o == held'["callee"]
                      IN  o \in Object /\ status'[o] = "live" /\ \A w \in Variable : owner'[w] # o
    BY <1>1, <1>6 DEF Fresh, Unowned
  <2>1. Called(icode, pc)
    BY <1>1, <1>2, CalledBefore DEF Entry
  <2>2. LET o == held["callee"] IN o \in Object /\ status[o] = "live" /\ Unowned(o)
    BY <1>1, <2>1 DEF BodyInv, Runs, Fresh
  <2>3. held'["callee"] = held["callee"]
    BY <1>1, <1>3, <1>4, StorageNames
  <2>4. \A w \in Variable : owner'[w] = owner[w] \/ owner'[w] = NoObject
    BY <1>1, <1>4
  <2> QED
    BY <1>1, <2>2, <2>3, <2>4, StorageNames DEF Unowned
<1>10. Result'
  <2>1. held'["return"] = held["return"]
    BY <1>1, <1>3, <1>4, StorageNames
  <2> QED
    BY <1>2, <2>1 DEF Result
<1>11. held' \in [Storage -> Object \cup {Null, Garbage}]
  BY <1>1, <1>4
<1> QED
  BY <1>1, <1>2, <1>5, <1>7, <1>8, <1>9, <1>10, <1>11, Goes

LEMMA RunBeforeCopy ==
    ASSUME BodyInv, NeverFull, ExecBeforeCopy
    PROVE  BodyInv' /\ [Discipline!Next]_(Discipline!vars)
<1> DEFINE v == Entry.unit.var
           o == held[v]
<1>1. phase = "run" /\ Entry.op = "beforeCopy"
  BY DEF ExecBeforeCopy, Running, Entry
<1>2. /\ WellFormed(icode) /\ pc \in DOMAIN icode /\ pc + 1 \in DOMAIN icode /\ Entry \in Entries
      /\ Fits(icode, pc)
      /\ held["return"] \notin Object /\ \A w \in Variable : Owned(w)
  BY <1>1, Here
<1>3. /\ owner \in [Variable -> Object \cup {NoObject}] /\ pending \in [Object -> Nat]
      /\ count \in [Object -> Nat] /\ held \in [Storage -> Object \cup {Null, Garbage}]
      /\ \A w \in Variable : owner[w] # NoObject => status[owner[w]] = "live"
  BY CountedIsLive DEF BodyInv, ReferredIsLive
<1>4. v \in Variable \cup {"callee"} /\ v \in Storage /\ (v = "callee" => Called(icode, pc))
  BY <1>1, <1>2, StorageNames DEF Fits, Copied, Entry
<1> HIDE DEF v
<1>5. o \in Object => status[o] = "live"
  <2>1. CASE v \in Variable
    BY <1>2, <1>3, <2>1, StorageNames DEF Owned
  <2>2. CASE v = "callee"
    BY <1>1, <1>4, <2>2 DEF BodyInv, Runs, Fresh
  <2> QED
    BY <1>4, <2>1, <2>2
<1>6. ASSUME Step, held' = held, owner' = owner, status' = status,
             [Discipline!Next]_(Discipline!vars),
             o \in Object => pending'[o] > 0
      PROVE  BodyInv'
  <2>1. /\ icode' = icode /\ Entry' = icode[pc + 1] /\ pc' = pc + 1 /\ phase' = phase /\ UNCHANGED genVars
    BY <1>6 DEF genVars, Entry, Step
  <2>2. Attached'
    BY <1>2, <1>6 DEF Attached, Owned
  <2>3. Retained'
    <3>1. Underway(icode, pc + 1) => v = Carried(icode, pc + 1)
      BY <1>1, <1>2, UnderwayBefore DEF Entry, v
    <3> QED
      BY <1>6, <2>1, <3>1 DEF Retained
  <2>4. Fresh'
    <3>1. ~ Called(icode, pc + 1)
      BY <1>1, <1>2, CalledBefore DEF Entry
    <3> QED
      BY <2>1, <3>1 DEF Fresh
  <2>5. Result'
    BY <1>2, <1>6 DEF Result
  <2>6. held' \in [Storage -> Object \cup {Null, Garbage}]
    BY <1>3, <1>6
  <2> QED
    BY <1>1, <1>2, <1>6, <2>1, <2>2, <2>3, <2>4, <2>5, <2>6, Goes
<1>7. CASE o = Null /\ Step /\ UNCHANGED heapVars
  <2>1. UNCHANGED Discipline!vars
    BY <1>7 DEF heapVars, Discipline!vars
  <2> QED
    BY <1>6, <1>7, <2>1, StorageNames DEF heapVars
<1>8. CASE Stop("uninitialisedUse")
  BY <1>8, Ends
<1>9. CASE /\ o \in Object /\ status[o] = "live"
           /\ count' = [count EXCEPT ![o] = (@ + 1) % CountModulus]
           /\ pending' = [pending EXCEPT ![o] = @ + 1]
           /\ Step /\ UNCHANGED <<held, status, owner>>
  <2>1. (count[o] + 1) % CountModulus = count[o] + 1
    BY <1>3, <1>9, CounterHasWidth DEF NeverFull
  <2>2. Discipline!Retain(o)
    BY <1>9, <2>1 DEF Discipline!Retain
  <2>3. [Discipline!Next]_(Discipline!vars)
    BY <1>9, <2>2 DEF Discipline!Next
  <2>4. pending'[o] > 0
    BY <1>3, <1>9
  <2> QED
    BY <1>6, <1>9, <2>3, <2>4
<1> QED
  BY <1>5, <1>7, <1>8, <1>9 DEF ExecBeforeCopy, v

LEMMA RunDeconstruct ==
    ASSUME BodyInv, NeverFull, ExecDeconstruct
    PROVE  BodyInv' /\ [Discipline!Next]_(Discipline!vars)
<1> DEFINE v == Entry.unit.var
           o == held[v]
           left == (count[o] + CountModulus - 1) % CountModulus
<1>1. phase = "run" /\ Entry.op = "deconstruct"
  BY DEF ExecDeconstruct, Running, Entry
<1>2. /\ WellFormed(icode) /\ pc \in DOMAIN icode /\ pc + 1 \in DOMAIN icode /\ Entry \in Entries
      /\ Fits(icode, pc)
  BY <1>1, Here
<1>3. /\ owner \in [Variable -> Object \cup {NoObject}] /\ pending \in [Object -> Nat]
      /\ count \in [Object -> Nat] /\ status \in [Object -> {"unborn", "live", "freed"}]
      /\ held \in [Storage -> Object \cup {Null, Garbage}]
      /\ \A w \in Variable : owner[w] # NoObject => 
           owner[w] \in Object /\ status[owner[w]] = "live" /\ count[owner[w]] > 0
  BY CountedIsLive DEF BodyInv, ReferredIsLive
<1>4. /\ v \in Variable /\ v \in Storage
      /\ IF Entry.sweep
           THEN v \in Swept /\ SweepsOnly(icode, pc + 1, Swept \ {v})
           ELSE icode[pc + 1].op = "copy" /\ icode[pc + 1].dest.var = v
  BY <1>1, <1>2, StorageNames DEF Fits, Overwritten, Swept, Entry
<1>5. Attached /\ Retained /\ Result
  BY <1>1 DEF BodyInv, Runs
<1> HIDE DEF v
<1>6. ASSUME NEW S, SweepsOnly(icode, pc, S)
      PROVE  Entry.sweep /\ v \in S /\ SweepsOnly(icode, pc + 1, S)
  BY <1>1, <1>2, <1>6, SweepsHere DEF Entry, v
<1>7. Owned(v)
  <2>1. ~ Excused(v)
    BY <1>1, <1>6 DEF Excused
  <2> QED
    BY <1>4, <1>5, <2>1 DEF Attached
<1>8. o \in Object => owner[v] = o /\ status[o] = "live" /\ count[o] > 0
  BY <1>3, <1>4, <1>7, StorageNames DEF Owned
<1>9. ASSUME Step, held' = held, pending' = pending,
             owner' = owner \/ owner' = [owner EXCEPT ![v] = NoObject],
             [Discipline!Next]_(Discipline!vars),
             \A q \in Object : status[q] = "live" /\ q # o => status'[q] = "live"
      PROVE  BodyInv'
  <2>1. /\ icode' = icode /\ Entry' = icode[pc + 1] /\ pc' = pc + 1 /\ phase' = phase /\ UNCHANGED genVars
    BY <1>9 DEF genVars, Entry, Step
  <2>2. \A w \in Variable : w # v => owner'[w] = owner[w]
    BY <1>3, <1>9
  <2>3. Attached'
    <3>1. ASSUME NEW w \in Variable
          PROVE  Owned(w)' \/ (Excused(w)' /\ owner'[w] = NoObject)
      <4>1. CASE w # v
        <5>1. Owned(w) => Owned(w)'
          BY <1>9, <2>2, <4>1 DEF Owned
        <5>2. Excused(w) => Excused(w)'
          BY <1>1, <1>6, <2>1 DEF Excused
        <5> QED
          BY <1>5, <2>2, <4>1, <5>1, <5>2 DEF Attached
      <4>2. CASE w = v /\ owner' = owner
        BY <1>7, <1>9, <4>2 DEF Owned
      <4>3. CASE w = v /\ owner' # owner
        <5>1. owner'[w] = NoObject
          BY <1>3, <1>4, <1>9, <4>3
        <5>2. Excused(w)'
          BY <1>4, <2>1, <4>3 DEF Excused
        <5> QED
          BY <5>1, <5>2
      <4> QED
        BY <4>1, <4>2, <4>3
    <3> QED
      BY <3>1 DEF Attached
  <2>4. Retained'
    <3> SUFFICES ASSUME Underway(icode, pc + 1)
                 PROVE  LET r == held[Carried(icode, pc + 1)] IN r \in Object => pending[r] > 0
      BY <1>9, <2>1 DEF Retained
    <3>1. ~ Entry.sweep /\ Carried(icode, pc) = Carried(icode, pc + 1)
      BY <1>1, <1>2, UnderwayBefore DEF Entry
    <3>2. Underway(icode, pc)
      BY <1>1, <3>1 DEF Underway, Entry
    <3> QED
      BY <1>5, <3>1, <3>2 DEF Retained
  <2>5. Fresh'
    <3>1. ~ Called(icode, pc + 1)
      BY <1>1, <1>2, CalledBefore DEF Entry
    <3> QED
      BY <2>1, <3>1 DEF Fresh
  <2>6. Result'
    <3>1. PICK r : r = held["return"]
      OBVIOUS
    <3> SUFFICES ASSUME r \in Object PROVE SweepsOnly(icode, pc + 1, Swept) /\ Kept(r)'
      BY <1>9, <2>1, <3>1 DEF Result
    <3>2. SweepsOnly(icode, pc, Swept) /\ Kept(r)
      BY <1>5, <3>1 DEF Result
    <3>3. SweepsOnly(icode, pc + 1, Swept) /\ v \in Swept
      BY <1>6, <3>2
    <3>4. pending[r] > 0 => pending'[r] > 0
      BY <1>9
    <3>5. Unowned(r) => Unowned(r)' /\ r # o
      <4>1. \A w \in Variable : owner'[w] = owner[w] \/ owner'[w] = NoObject
        BY <1>3, <1>9
      <4>2. r # NoObject
        BY StorageNames
      <4> QED
        BY <1>4, <1>8, <4>1, <4>2 DEF Unowned
    <3>6. (\E w \in Variable \ Swept : owner[w] = r) => \E w \in Variable \ Swept : owner'[w] = r
      BY <2>2, <3>3
    <3>7. status'[r] = "live"
      <4>1. Counted!IInv'
        BY <1>9, CountedStep DEF BodyInv
      <4>2. /\ \A w \in Variable : owner'[w] # NoObject => status'[owner'[w]] = "live"
            /\ \A q \in Object : pending'[q] > 0 => status'[q] = "live"
        BY <4>1, LiveNext DEF ReferredIsLive
      <4>3. r # NoObject
        BY StorageNames
      <4> QED
        BY <1>9, <3>2, <3>4, <3>5, <3>6, <4>2, <4>3 DEF Kept
    <3> QED
      BY <3>2, <3>3, <3>4, <3>5, <3>6, <3>7 DEF Kept
  <2>7. held' \in [Storage -> Object \cup {Null, Garbage}]
    BY <1>3, <1>9
  <2> QED
    BY <1>1, <1>2, <1>9, <2>1, <2>3, <2>4, <2>5, <2>6, <2>7, Goes
<1>10. CASE o = Null /\ Step /\ UNCHANGED heapVars
  <2>1. UNCHANGED Discipline!vars
    BY <1>10 DEF heapVars, Discipline!vars
  <2> QED
    BY <1>9, <1>10, <2>1 DEF heapVars
<1>11. ASSUME Stop(IF Entry.sweep THEN "uninitialisedSweep" ELSE "uninitialisedUse")
       PROVE  BodyInv' /\ [Discipline!Next]_(Discipline!vars)
  <2>1. PICK how : how = (IF Entry.sweep THEN "uninitialisedSweep" ELSE "uninitialisedUse")
    OBVIOUS
  <2>2. how \notin {"generate", "run", "useAfterFree", "returned"}
    BY <2>1
  <2> QED
    BY <1>11, <2>1, <2>2, Ends
<1>12. CASE /\ o \in Object /\ status[o] = "live"
            /\ count' = [count EXCEPT ![o] = left]
            /\ status' = IF left = 0 THEN [status EXCEPT ![o] = "freed"] ELSE status
            /\ owner' = [owner EXCEPT ![v] = NoObject]
            /\ Step /\ UNCHANGED <<held, pending>>
  <2>1. left = count[o] - 1 /\ (left = 0 <=> count[o] = 1)
    <3>1. \A n, m \in Nat : n > 0 /\ n + 1 < m => (n + m - 1) % m = n - 1
      OBVIOUS
    <3>2. PICK n : n = count[o]
      OBVIOUS
    <3>3. n \in Nat /\ n > 0 /\ CountModulus \in Nat /\ n + 1 < CountModulus
      BY <1>3, <1>8, <1>12, <3>2, CounterHasWidth DEF NeverFull
    <3>4. left = n - 1
      BY <3>1, <3>2, <3>3
    <3> QED
      BY <3>2, <3>3, <3>4
  <2> HIDE DEF left
  <2>2. Discipline!Release(v)
    BY <1>3, <1>8, <1>12, <2>1, StorageNames DEF Discipline!Release
  <2>3. [Discipline!Next]_(Discipline!vars)
    BY <1>4, <2>2 DEF Discipline!Next
  <2>4. \A q \in Object : status[q] = "live" /\ q # o => status'[q] = "live"
    BY <1>3, <1>12
  <2> QED
    BY <1>9, <1>12, <2>3, <2>4
<1> QED
  BY <1>8, <1>10, <1>11, <1>12 DEF ExecDeconstruct, v

\* The copy into the return value.
LEMMA RunReturnCopy ==
    ASSUME BodyInv, ExecCopy, Entry.dest.var = "return"
    PROVE  BodyInv' /\ [Discipline!Next]_(Discipline!vars)
<1> DEFINE o == held[Entry.src.var]
<1>1. /\ phase = "run" /\ Entry.op = "copy" /\ phase' = phase /\ UNCHANGED genVars /\ pc' = pc + 1
      /\ held' = [held EXCEPT !["return"] = o]
      /\ owner' = owner /\ pending' = pending /\ count' = count /\ status' = status
  BY StorageNames DEF ExecCopy, Running, Entry, Step
<1>2. /\ WellFormed(icode) /\ pc \in DOMAIN icode /\ pc + 1 \in DOMAIN icode /\ Entry \in Entries
      /\ Fits(icode, pc)
      /\ \A w \in Variable : Owned(w) \/ w = "return"
  BY <1>1, Here
<1>3. \A w \in Variable : Owned(w)
  BY <1>2, StorageNames
<1>4. /\ held \in [Storage -> Object \cup {Null, Garbage}]
      /\ \A w \in Variable : owner[w] # NoObject => status[owner[w]] = "live"
      /\ \A q \in Object : pending[q] > 0 => status[q] = "live"
  BY CountedIsLive DEF BodyInv, ReferredIsLive
<1>5. Returns(icode, pc)
  BY <1>1, <1>2 DEF Fits, Entry
<1>6. SweepsOnly(icode, pc + 1, Swept)
  BY <1>5 DEF Returns
<1>7. Entry.src.var \in Storage
  BY <1>1, <1>2, EntryFields DEF Unit
<1>8. [Discipline!Next]_(Discipline!vars)
  BY <1>1 DEF Discipline!vars
<1>9. icode' = icode /\ Entry' = icode[pc + 1]
  BY <1>1 DEF genVars, Entry
<1>10. Entry'.op = "ret" \/ (Entry'.op = "deconstruct" /\ Entry'.sweep)
  BY <1>2, <1>6, <1>9, SweepsHere
<1>11. Attached'
  <2>1. \A w \in Variable : held'[w] = held[w]
    BY <1>1, <1>4, StorageNames
  <2> QED
    BY <1>1, <1>3, <2>1 DEF Attached, Owned
<1>12. Retained'
  BY <1>1, <1>9, <1>10 DEF Retained, Underway
<1>13. Fresh'
  BY <1>10 DEF Fresh
<1>14. o \in Object => Kept(o)
  <2> SUFFICES ASSUME o \in Object PROVE Kept(o)
    OBVIOUS
  <2>1. CASE Entry.counted
    <3>1. Underway(icode, pc) /\ Carried(icode, pc) = Entry.src.var
      BY <1>1, <2>1 DEF Underway, Carried, Entry
    <3>2. pending[o] > 0
      BY <1>1, <3>1 DEF BodyInv, Runs, Retained
    <3> QED
      BY <1>4, <3>2 DEF Kept
  <2>2. CASE ~ Entry.counted /\ Entry.src.var \in {"p", "self"}
    <3>1. Entry.src.var \in Variable \ Swept
      BY <1>7, <2>2, StorageNames DEF Storage, Swept
    <3>2. owner[Entry.src.var] = o /\ o # NoObject
      BY <1>3, <3>1, StorageNames DEF Owned
    <3> QED
      BY <1>4, <3>1, <3>2 DEF Kept
  <2>3. CASE Entry.src.var = "callee" /\ Called(icode, pc)
    <3>1. status[o] = "live" /\ Unowned(o)
      BY <1>1, <2>3 DEF BodyInv, Runs, Fresh
    <3> QED
      BY <3>1 DEF Kept
  <2> QED
    BY <1>5, <2>1, <2>2, <2>3 DEF Returns, Entry
<1>15. Result'
  <2>1. PICK r : r = o
    OBVIOUS
  <2>2. held'["return"] = r
    BY <1>1, <1>4, <2>1, StorageNames
  <2>3. r \in Object => Kept(r)'
    BY <1>1, <1>14, <2>1 DEF Kept, Unowned
  <2> QED
    BY <1>1, <1>6, <1>9, <2>2, <2>3 DEF Result
<1>16. held' \in [Storage -> Object \cup {Null, Garbage}]
  BY <1>1, <1>4, <1>7
<1> QED
  BY <1>1, <1>2, <1>8, <1>11, <1>12, <1>13, <1>15, <1>16, Goes

\* The copy into a variable.
LEMMA RunCopy ==
    ASSUME BodyInv, ExecCopy, Entry.dest.var # "return"
    PROVE  BodyInv' /\ [Discipline!Next]_(Discipline!vars)
<1> DEFINE d == Entry.dest.var
           o == held[Entry.src.var]
<1>1. phase = "run" /\ Entry.op = "copy" /\ phase' = phase /\ UNCHANGED genVars /\ pc' = pc + 1
  BY DEF ExecCopy, Running, Entry, Step
<1>2. /\ WellFormed(icode) /\ pc \in DOMAIN icode /\ pc + 1 \in DOMAIN icode /\ Entry \in Entries
      /\ Fits(icode, pc) /\ held["return"] \notin Object
      /\ \A w \in Variable : Owned(w) \/ w = d
  BY <1>1, Here
<1>3. Arrives(icode, pc)
  BY <1>1, <1>2 DEF Fits, Entry
<1>4. Entry.counted /\ d \in Variable /\ d \in Storage /\ Entry.src.var \in Storage
  <2>1. Entry.counted /\ Entry.dest \in Overwritten
    BY <1>3 DEF Arrives, Entry
  <2>2. Entry.src \in Unit
    BY <1>1, <1>2, EntryFields
  <2> QED
    BY <2>1, <2>2, StorageNames DEF Overwritten, Unit
<1>5. /\ owner \in [Variable -> Object \cup {NoObject}] /\ pending \in [Object -> Nat]
      /\ held \in [Storage -> Object \cup {Null, Garbage}]
  BY CountedIsLive DEF BodyInv, ReferredIsLive
<1>6. o \in Object => pending[o] > 0
  <2>1. Underway(icode, pc) /\ Carried(icode, pc) = Entry.src.var
    BY <1>1, <1>4 DEF Underway, Carried, Entry
  <2> QED
    BY <1>1, <2>1 DEF BodyInv, Runs, Retained
<1> DEFINE arrives == Entry.counted /\ o \in Object /\ d \in Variable
           new == IF o \in Object THEN o ELSE NoObject
<1>7. /\ held' = [held EXCEPT ![d] = o]
      /\ owner' = [owner EXCEPT ![d] = IF arrives THEN o ELSE NoObject]
      /\ pending' = [q \in Object |-> Forget(d)[q] - (IF arrives /\ q = o THEN 1 ELSE 0)]
      /\ count' = count /\ status' = status
  BY <1>4 DEF ExecCopy
<1>8. /\ owner' = [owner EXCEPT ![d] = new]
      /\ pending' = [q \in Object |-> pending[q] + (IF owner[d] = q THEN 1 ELSE 0)
                                        - (IF o \in Object /\ q = o THEN 1 ELSE 0)]
  <2>1. arrives <=> o \in Object
    BY <1>4
  <2>2. \A q \in Object : Forget(d)[q] = pending[q] + (IF owner[d] = q THEN 1 ELSE 0)
    BY DEF Forget
  <2>3. (IF arrives THEN o ELSE NoObject) = new
    BY <2>1
  <2>4. owner' = [owner EXCEPT ![d] = new]
    BY <1>7, <2>3
  <2>5. \A q \in Object :
          (IF arrives /\ q = o THEN 1 ELSE 0) = (IF o \in Object /\ q = o THEN 1 ELSE 0)
    BY <2>1
  <2>6. pending' = [q \in Object |-> Forget(d)[q] - (IF arrives /\ q = o THEN 1 ELSE 0)]
    BY <1>7
  <2> HIDE DEF arrives, d, o, new
  <2>7. \A q \in Object :
          Forget(d)[q] - (IF arrives /\ q = o THEN 1 ELSE 0) =
            pending[q] + (IF owner[d] = q THEN 1 ELSE 0) - (IF o \in Object /\ q = o THEN 1 ELSE 0)
    <3> TAKE q \in Object
    <3>1. PICK n, more, less :
            /\ n = pending[q] /\ more = (IF owner[d] = q THEN 1 ELSE 0)
            /\ less = (IF o \in Object /\ q = o THEN 1 ELSE 0)
      OBVIOUS
    <3>2. n \in Nat /\ more \in {0, 1} /\ less \in {0, 1}
      BY <1>5, <3>1
    <3>3. Forget(d)[q] = n + more /\ (IF arrives /\ q = o THEN 1 ELSE 0) = less
      BY <2>2, <2>5, <3>1
    <3>4. (n + more) - less = n + more - less
      BY <3>2
    <3> QED
      BY <3>1, <3>3, <3>4
  <2> QED
    BY <2>4, <2>6, <2>7
<1> HIDE DEF arrives, d
<1>9. [Discipline!Next]_(Discipline!vars)
  <2>1. CASE o \in Object
    <3>1. Discipline!Store(d, o)
      BY <1>6, <1>7, <1>8, <2>1 DEF Discipline!Store
    <3> QED
      BY <1>4, <2>1, <3>1 DEF Discipline!Next
  <2>2. CASE o \notin Object /\ owner[d] = NoObject
    <3>1. owner' = owner
      BY <1>4, <1>5, <1>8, <2>2
    <3>2. \A q \in Object : pending[q] + (IF owner[d] = q THEN 1 ELSE 0) - 0 = pending[q]
      BY <1>5, <2>2, StorageNames
    <3>3. pending' = pending
      BY <1>5, <1>8, <2>2, <3>2
    <3> QED
      BY <1>7, <3>1, <3>3 DEF Discipline!vars
  <2>3. CASE o \notin Object /\ owner[d] # NoObject
    <3>1. owner[d] \in Object
      BY <1>4, <1>5, <2>3
    <3>2. \A q \in Object : pending[q] + (IF owner[d] = q THEN 1 ELSE 0) - 0 =
                              IF q = owner[d] THEN pending[q] + 1 ELSE pending[q]
      BY <1>5
    <3>3. pending' = [pending EXCEPT ![owner[d]] = @ + 1]
      BY <1>5, <1>8, <2>3, <3>1, <3>2
    <3>4. owner' = [owner EXCEPT ![d] = NoObject]
      BY <1>8, <2>3
    <3>5. Discipline!Abandon(d)
      BY <1>7, <2>3, <3>3, <3>4 DEF Discipline!Abandon
    <3> QED
      BY <1>4, <3>5 DEF Discipline!Next
  <2> QED
    BY <2>1, <2>2, <2>3
<1>10. icode' = icode /\ Entry' = icode[pc + 1]
  BY <1>1 DEF genVars, Entry
<1>11. Attached'
  <2>1. ASSUME NEW w \in Variable
        PROVE  IF held'[w] \in Object THEN owner'[w] = held'[w] ELSE owner'[w] = NoObject
    <3>1. CASE w = d
      BY <1>4, <1>5, <1>7, <1>8, <3>1
    <3>2. CASE w # d
      BY <1>2, <1>4, <1>5, <1>7, <1>8, <3>2, StorageNames DEF Owned
    <3> QED
      BY <3>1, <3>2
  <2> QED
    BY <2>1 DEF Attached, Owned
<1>12. Retained'
  <2>1. ~ Underway(icode, pc + 1)
    BY <1>1, <1>2, UnderwayBefore DEF Entry
  <2> QED
    BY <1>1, <1>10, <2>1 DEF Retained
<1>13. Fresh'
  <2>1. ~ Called(icode, pc + 1)
    BY <1>1, <1>2, CalledBefore DEF Entry
  <2> QED
    BY <1>1, <1>10, <2>1 DEF Fresh
<1>14. Result'
  <2>1. held'["return"] = held["return"]
    BY <1>4, <1>5, <1>7, StorageNames
  <2> QED
    BY <1>2, <2>1 DEF Result
<1>15. held' \in [Storage -> Object \cup {Null, Garbage}]
  BY <1>4, <1>5, <1>7
<1> QED
  BY <1>1, <1>2, <1>9, <1>11, <1>12, <1>13, <1>14, <1>15, Goes

LEMMA RunCall ==
    ASSUME BodyInv, ExecCall
    PROVE  BodyInv' /\ [Discipline!Next]_(Discipline!vars)
<1>1. phase = "run" /\ Entry.op = "call"
  BY DEF ExecCall, Running, Entry
<1>2. /\ WellFormed(icode) /\ pc \in DOMAIN icode /\ pc + 1 \in DOMAIN icode /\ Entry \in Entries
      /\ held["return"] \notin Object /\ \A w \in Variable : Owned(w)
  BY <1>1, Here
<1>3. /\ held \in [Storage -> Object \cup {Null, Garbage}]
      /\ status \in [Object -> {"unborn", "live", "freed"}]
      /\ \A w \in Variable : owner[w] # NoObject => status[owner[w]] = "live"
  BY CountedIsLive DEF BodyInv, ReferredIsLive
<1>4. CASE Stop("panicked")
  BY <1>4, Ends
<1>5. ASSUME NEW o \in Object, status[o] = "unborn", status' = [status EXCEPT ![o] = "live"],
             held' = [held EXCEPT !["callee"] = o], Step, UNCHANGED <<count, owner, pending>>
      PROVE  BodyInv' /\ [Discipline!Next]_(Discipline!vars)
  <2>1. /\ icode' = icode /\ Entry' = icode[pc + 1] /\ pc' = pc + 1 /\ phase' = phase /\ UNCHANGED genVars
    BY <1>5 DEF genVars, Entry, Step
  <2>2. [Discipline!Next]_(Discipline!vars)
    <3>1. Discipline!Create(o)
      BY <1>5 DEF Discipline!Create
    <3> QED
      BY <3>1 DEF Discipline!Next
  <2>3. Attached'
    <3>1. \A w \in Variable : held'[w] = held[w]
      BY <1>3, <1>5, StorageNames
    <3> QED
      BY <1>2, <1>5, <3>1 DEF Attached, Owned
  <2>4. Retained'
    <3>1. ~ Underway(icode, pc + 1)
      BY <1>1, <1>2, UnderwayBefore DEF Entry
    <3> QED
      BY <2>1, <3>1 DEF Retained
  <2>5. Fresh'
    <3>1. held'["callee"] = o /\ status'[o] = "live"
      BY <1>3, <1>5, StorageNames
    <3>2. Unowned(o)'
      BY <1>3, <1>5, StorageNames DEF Unowned
    <3> QED
      BY <1>5, <3>1, <3>2 DEF Fresh
  <2>6. Result'
    <3>1. held'["return"] = held["return"]
      BY <1>3, <1>5, StorageNames
    <3> QED
      BY <1>2, <3>1 DEF Result
  <2>7. held' \in [Storage -> Object \cup {Null, Garbage}]
    BY <1>3, <1>5
  <2> QED
    BY <1>1, <1>2, <2>1, <2>2, <2>3, <2>4, <2>5, <2>6, <2>7, Goes
<1> QED
  BY <1>4, <1>5 DEF ExecCall

LEMMA RunJump ==
    ASSUME BodyInv, ExecJump
    PROVE  BodyInv' /\ [Discipline!Next]_(Discipline!vars)
<1>1. phase = "run" /\ Entry.op \in {"label", "goto", "ifFalseGoto"}
  BY DEF ExecJump, Running, Entry
<1>2. /\ WellFormed(icode) /\ icode \in Seq(Entries) /\ pc \in DOMAIN icode /\ pc + 1 \in DOMAIN icode
      /\ Entry \in Entries /\ held["return"] \notin Object /\ \A w \in Variable : Owned(w)
  BY <1>1, Here
<1>3. JumpsInto(icode, Emitted(icode)) /\ held \in [Storage -> Object \cup {Null, Garbage}]
  BY <1>1 DEF BodyInv, Runs
<1>4. /\ phase' = phase /\ UNCHANGED genVars /\ icode' = icode
      /\ held' = held /\ owner' = owner /\ pending' = pending /\ count' = count /\ status' = status
  BY DEF ExecJump, JumpTo, Step, genVars, heapVars
<1>5. /\ pc' \in DOMAIN icode /\ ~ Underway(icode, pc')
      /\ ~ Called(icode, pc') \/ icode[pc'].op = "label"
  <2>1. CASE pc' = pc + 1
    <3>1. ~ Underway(icode, pc + 1) /\ ~ Called(icode, pc + 1)
      BY <1>1, <1>2, UnderwayBefore, CalledBefore DEF Entry
    <3> QED
      BY <1>2, <2>1, <3>1
  <2>2. CASE Entry.op \in {"goto", "ifFalseGoto"} /\ JumpTo(Entry.label)
    <3>1. PICK l : l = Entry.label
      OBVIOUS
    <3>2. l \in Emitted(icode)
      BY <1>2, <1>3, <2>2, <3>1 DEF JumpsInto, Entry
    <3>3. PICK i \in DOMAIN icode : icode[i].op = "label" /\ icode[i].label = l
      BY <3>2 DEF Emitted
    <3>4. icode[i] \in Entries
      BY <1>2
    <3>5. icode[i] = CreateLabel(l)
      BY <3>3, <3>4 DEF Entries, Call, Ret, NullInit, CreateLabel
    <3>6. pc' = CHOOSE k \in DOMAIN icode : icode[k] = CreateLabel(l)
      BY <2>2, <3>1 DEF JumpTo
    <3>7. pc' \in DOMAIN icode /\ icode[pc'] = CreateLabel(l)
      BY <3>5, <3>6
    <3>8. icode[pc'].op = "label"
      BY <3>7 DEF CreateLabel
    <3> QED
      BY <3>7, <3>8 DEF Underway
  <2>3. pc' = pc + 1 \/ (Entry.op \in {"goto", "ifFalseGoto"} /\ JumpTo(Entry.label))
    BY DEF ExecJump, Running, Step, Entry
  <2> QED
    BY <2>1, <2>2, <2>3
<1>6. Entry' = icode[pc']
  BY <1>4 DEF Entry
<1>7. Attached'
  BY <1>2, <1>4 DEF Attached, Owned
<1>8. Retained'
  BY <1>4, <1>5 DEF Retained
<1>9. Fresh'
  BY <1>4, <1>5, <1>6 DEF Fresh
<1>10. Result'
  BY <1>2, <1>4 DEF Result
<1>11. [Discipline!Next]_(Discipline!vars)
  BY <1>4 DEF Discipline!vars
<1> QED
  BY <1>1, <1>3, <1>4, <1>5, <1>7, <1>8, <1>9, <1>10, <1>11, Goes

LEMMA RunRet ==
    ASSUME BodyInv, ExecRet
    PROVE  BodyInv' /\ [Discipline!Next]_(Discipline!vars)
<1>1. phase = "run" /\ Entry.op = "ret" /\ Stop("returned")
  BY DEF ExecRet, Running, Entry
<1>2. Attached /\ Result
  BY <1>1 DEF BodyInv, Runs
<1>3. \A v \in Variable : owner[v] # NoObject => status[owner[v]] = "live"
  BY CountedIsLive DEF BodyInv, ReferredIsLive
<1>4. ASSUME NEW v \in Variable \ Swept, held[v] \in Object
      PROVE  status[held[v]] = "live"
  <2>1. ~ Excused(v)
    BY <1>1, <1>4 DEF Excused
  <2>2. owner[v] = held[v]
    BY <1>2, <1>4, <2>1 DEF Attached, Owned
  <2> QED
    BY <1>3, <1>4, <2>2, StorageNames
<1>5. held["return"] \in Object => status[held["return"]] = "live"
  BY <1>2 DEF Result, Kept
<1> QED
  BY <1>1, <1>4, <1>5, StorageNames, Ends

LEMMA RunStep ==
    ASSUME BodyInv, NeverFull, Execute
    PROVE  BodyInv' /\ [Discipline!Next]_(Discipline!vars)
<1>1. ExecCopy => BodyInv' /\ [Discipline!Next]_(Discipline!vars)
  BY RunReturnCopy, RunCopy
<1> QED
  BY <1>1, RunNullInit, RunBeforeCopy, RunDeconstruct, RunCall, RunJump, RunRet DEF Execute

------------------------------------------------------------------------------
(***************************************************************************)
(* What the generator does leaves the variables of the function alone.     *)
(***************************************************************************)
LEMMA Compiles ==
    ASSUME BodyInv, phase = "generate", phase' = phase, pc' = pc, UNCHANGED heapVars, Code'
    PROVE  BodyInv' /\ [Discipline!Next]_(Discipline!vars)
<1>1. held' = held /\ count' = count /\ status' = status /\ owner' = owner /\ pending' = pending
  BY DEF heapVars
<1>2. [Discipline!Next]_(Discipline!vars)
  BY <1>1 DEF Discipline!vars
<1>3. Counted!IInv'
  BY <1>2, CountedStep DEF BodyInv
<1>4. Before'
  BY <1>1 DEF BodyInv, Before, Owned
<1> QED
  BY <1>1, <1>2, <1>3, <1>4 DEF BodyInv, NoUseAfterFree, SurvivorsAlive

LEMMA Rejected ==
    ASSUME BodyInv, Reject
    PROVE  BodyInv' /\ [Discipline!Next]_(Discipline!vars)
<1>1. Stop("rejected")
  BY DEF Reject, Stop
<1> QED
  BY <1>1, Ends

\* The end of the body: the table is complete.
LEMMA Terminated ==
    ASSUME BodyInv, terminateFunction, ~ Reject
    PROVE  BodyInv' /\ [Discipline!Next]_(Discipline!vars)
<1>1. /\ phase = "generate" /\ phase' = "run" /\ pc' = pc /\ open' = open /\ symbols' = symbols
      /\ labels' = labels /\ isVoid' = isVoid /\ Len(open) = 1
      /\ held' = held /\ count' = count /\ status' = status /\ owner' = owner /\ pending' = pending
  BY DEF terminateFunction, Reject, genVars, heapVars
<1>2. Code /\ Before /\ pc = 1
  BY <1>1 DEF BodyInv, Before
<1>3. \A c : Coming(c, open) = Emitted(c)
  <2>1. open \in Seq(Blocks) /\ DOMAIN open = {1}
    BY <1>1, <1>2 DEF Code
  <2>2. open[1].kind = "function"
    BY <1>2, <2>1 DEF Code
  <2>3. Promised(open[1]) = {}
    BY <2>2 DEF Promised
  <2> QED
    BY <2>1, <2>3 DEF Coming
<1>4. [Discipline!Next]_(Discipline!vars)
  BY <1>1 DEF Discipline!vars
<1>5. Counted!IInv'
  BY <1>4, CountedStep DEF BodyInv
<1>6. ASSUME Code', Len(icode') \in Nat, Len(icode') > 0, icode'[Len(icode')].op = "ret"
      PROVE  BodyInv' /\ [Discipline!Next]_(Discipline!vars)
  <2>1. PICK c : c = icode'
    OBVIOUS
  <2>2. WellFormed(c) /\ JumpsInto(c, Emitted(c)) /\ c \in Seq(Entries) /\ Len(c) \in Nat /\ Len(c) > 0
    BY <1>1, <1>3, <1>6, <2>1 DEF Code, WellFormed
  <2>3. 1 \in DOMAIN c
    BY <2>2
  <2>4. ~ Underway(c, 1) /\ ~ Called(c, 1)
    BY <2>2, <2>3, StartOfTable
  <2>5. Attached' /\ Retained' /\ Fresh' /\ Result'
    BY <1>1, <1>2, <2>1, <2>4 DEF Before, Attached, Owned, Retained, Fresh, Result
  <2>6. Runs'
    BY <1>1, <1>2, <1>6, <2>1, <2>2, <2>3, <2>5 DEF Runs
  <2> QED
    BY <1>1, <1>4, <1>5, <1>6, <2>6 DEF BodyInv, NoUseAfterFree, SurvivorsAlive
<1>7. CASE doesFunctionTerminate
  <2>1. icode' = icode
    BY <1>7 DEF terminateFunction, Reject, genVars
  <2>2. Code'
    BY <1>1, <1>2, <2>1 DEF Code
  <2>3. icode \in Seq(Entries) /\ icode # <<>> /\ icode[Len(icode)].op = "ret"
    BY <1>2, <1>7 DEF Code, WellFormed, doesFunctionTerminate, Last
  <2>4. Len(icode) \in Nat /\ Len(icode) > 0
    BY <2>3
  <2> QED
    BY <1>6, <2>1, <2>2, <2>3, <2>4
<1>8. CASE ~ doesFunctionTerminate
  <2>1. icode' = icode \o createReturnAndCallDeconstructors
    BY <1>8 DEF terminateFunction, Reject, genVars
  <2>2. symbols \subseteq Local
    BY <1>2 DEF Code
  <2>3. PICK r \in Seq(SweepEntries) : /\ callDeconstructorOnDeclaredSymbols = r
                                       /\ \A j, k \in 1 .. Len(r) : r[j] = r[k] => j = k
    BY <2>2, SweepRow
  <2>4. PICK row : row = r \o <<Ret>>
    OBVIOUS
  <2>5. WellFormed(row) /\ JumpsInto(row, {}) /\ Len(row) > 0 /\ row[Len(row)] = Ret
    BY <2>3, <2>4, SweepFits
  <2>6. icode' = icode \o row
    BY <2>1, <2>3, <2>4 DEF createReturnAndCallDeconstructors
  <2>7. JumpsInto(row, Coming(icode, open))
    BY <2>5, Further
  <2>8. Code'
    BY <1>1, <1>2, <2>2, <2>5, <2>6, <2>7, PlainRow
  <2>9. icode \in Seq(Entries) /\ row \in Seq(Entries)
    BY <1>2, <2>5 DEF Code, WellFormed
  <2>10. Len(icode') = Len(icode) + Len(row) /\ Len(icode) \in Nat /\ Len(row) \in Nat
    BY <2>6, <2>9, Joins
  <2>11. icode'[Len(icode) + Len(row)] = row[Len(row)]
    BY <2>5, <2>6, <2>9, <2>10
  <2>12. Ret.op = "ret"
    BY DEF Ret
  <2> QED
    BY <1>6, <2>5, <2>8, <2>10, <2>11, <2>12
<1> QED
  BY <1>7, <1>8

LEMMA CompileStep ==
    ASSUME BodyInv, Compile, Whole("self") \notin Readable, Whole("p") \notin Targets
    PROVE  BodyInv' /\ [Discipline!Next]_(Discipline!vars)
<1>1. CASE Reject
  BY <1>1, Rejected
<1>2. ASSUME phase = "generate", phase' = phase, pc' = pc, UNCHANGED heapVars, Code'
      PROVE  BodyInv' /\ [Discipline!Next]_(Discipline!vars)
  BY <1>2, Compiles
<1> SUFFICES ASSUME ~ Reject
             PROVE  BodyInv' /\ [Discipline!Next]_(Discipline!vars)
  BY <1>1
<1>3. Code
  BY DEF BodyInv
<1>4. ASSUME NEW entries, NEW form, Writing(form), Emit(entries)
      PROVE  phase = "generate" /\ phase' = phase /\ pc' = pc /\ UNCHANGED heapVars
  BY <1>4 DEF Writing, Emit
<1>5. ASSUME NEW s \in Local, local(s)
      PROVE  BodyInv' /\ [Discipline!Next]_(Discipline!vars)
  <2>1. Code'
    BY <1>3, <1>5, LocalCode
  <2> QED
    BY <1>2, <1>4, <1>5, <2>1 DEF local
<1>6. ASSUME NEW s \in Local, forEachLoop(s)
      PROVE  BodyInv' /\ [Discipline!Next]_(Discipline!vars)
  <2>1. Code'
    BY <1>3, <1>6, ForEachCode
  <2> QED
    BY <1>2, <1>4, <1>6, <2>1 DEF forEachLoop
<1>7. ASSUME NEW s \in Local, NEW src \in Wholes, walrusLocal(s, src)
      PROVE  BodyInv' /\ [Discipline!Next]_(Discipline!vars)
  <2>1. Code'
    BY <1>3, <1>7, WalrusCode
  <2> QED
    BY <1>2, <1>4, <1>7, <2>1 DEF walrusLocal
<1>8. ASSUME NEW dst \in Targets, NEW src \in Readable, assignment(dst, src)
      PROVE  BodyInv' /\ [Discipline!Next]_(Discipline!vars)
  <2>1. Code'
    BY <1>3, <1>8, AssignmentCode
  <2> QED
    BY <1>2, <1>4, <1>8, <2>1 DEF assignment
<1>9. ASSUME NEW v \in Variable \cup {"callee"}, functionReturn(Whole(v))
      PROVE  BodyInv' /\ [Discipline!Next]_(Discipline!vars)
  <2>1. Code'
    BY <1>3, <1>9, ReturnCode
  <2> QED
    BY <1>2, <1>4, <1>9, <2>1 DEF functionReturn
<1>10. CASE breakStatement \/ continueStatement
  <2>1. Code'
    BY <1>3, <1>10, BreakCode
  <2> QED
    BY <1>2, <1>4, <1>10, <2>1 DEF breakStatement, continueStatement, breakOrContinue
<1>11. CASE ifStatement
  <2>1. Code'
    BY <1>3, <1>11, IfCode
  <2> QED
    BY <1>2, <1>4, <1>11, <2>1 DEF ifStatement
<1>12. CASE elseStatement
  <2>1. Code'
    BY <1>3, <1>12, ElseCode
  <2> QED
    BY <1>2, <1>4, <1>12, <2>1 DEF elseStatement
<1>13. ASSUME NEW kind \in {"while", "do", "loop"}, loopStatement(kind)
       PROVE  BodyInv' /\ [Discipline!Next]_(Discipline!vars)
  <2>1. Code'
    BY <1>3, <1>13, LoopCode
  <2> QED
    BY <1>2, <1>4, <1>13, <2>1 DEF loopStatement
<1>14. CASE closeBlock
  <2>1. Code'
    BY <1>3, <1>14, CloseCode
  <2> QED
    BY <1>2, <1>14, <2>1 DEF closeBlock
<1>15. CASE terminateFunction
  BY <1>15, Terminated
<1> QED
  BY <1>5, <1>6, <1>7, <1>8, <1>9, <1>10, <1>11, <1>12, <1>13, <1>14, <1>15 DEF Compile

------------------------------------------------------------------------------
(***************************************************************************)
(* The invariant, and what follows from it.                                *)
(***************************************************************************)
LEMMA Starts ==
    ASSUME Init
    PROVE  BodyInv /\ Discipline!Init
<1>1. PICK o \in Object, g \in {TRUE, FALSE} :
        /\ held = [s \in Storage |-> CASE s = "p" -> o
                                       [] s = "g" -> IF g THEN o ELSE Null
                                       [] OTHER -> Garbage]
        /\ owner = [v \in Variable |-> IF held[v] = o THEN o ELSE NoObject]
        /\ status = [q \in Object |-> IF q = o THEN "live" ELSE "unborn"]
        /\ count = [q \in Object |-> Cardinality({v \in Variable : owner[v] = q})]
  BY DEF Init
<1>2. "p" \in Variable /\ held["p"] = o
  BY <1>1, StorageNames
<1>3. held \in [Storage -> Object \cup {Null, Garbage}] /\ held["return"] \notin Object
  <2>1. "return" # "p" /\ "return" # "g"
    OBVIOUS
  <2> QED
    BY <1>1, <2>1, StorageNames
<1>4. owner \in [Variable -> Object \cup {NoObject}] /\ owner["p"] = o
  BY <1>1, <1>2
<1>5. \A q \in Object : {v \in Variable : owner[v] = q} = {} <=> q # o
  BY <1>1, <1>2, <1>4, StorageNames
<1>6. Discipline!Init
  <2>1. pending = [q \in Object |-> 0]
    BY DEF Init
  <2>2. \A q \in Object : Discipline!Owners(q) = {v \in Variable : owner[v] = q}
    BY DEF Discipline!Owners
  <2>3. status = [q \in Object |-> IF Discipline!Owners(q) = {} THEN "unborn" ELSE "live"]
    BY <1>1, <1>5, <2>2, ZenonT(30)
  <2>4. count = [q \in Object |-> Discipline!Cardinality(Discipline!Owners(q))]
    <3>1. \A S : Discipline!Cardinality(S) = Cardinality(S)
      BY DEF Discipline!Cardinality, Cardinality
    <3> QED
      BY <1>1, <2>2, <3>1
  <2> QED
    BY <1>4, <2>1, <2>3, <2>4 DEF Discipline!Init
<1>7. Counted!IInv
  <2>1. Counted!Init
    BY <1>6 DEF Discipline!Init, Counted!Init, Discipline!Owners, Counted!Owners,
                Discipline!Cardinality, Counted!Cardinality
  <2> QED
    BY <2>1, FiniteVariables, Counted!InitIInv
<1>8. Before
  <2>1. \A v \in Variable : v \in Storage /\ (held[v] \in Object => held[v] = o)
    BY <1>1, StorageNames
  <2>2. \A v \in Variable : Owned(v)
    BY <1>1, <2>1 DEF Owned
  <2> QED
    BY <1>3, <2>2 DEF Before, Init
<1>9. Code
  <2>1. FunctionBlock \in Blocks /\ FunctionBlock.kind = "function" /\ Exits(FunctionBlock)
    BY DEF FunctionBlock, Block, Blocks, Kinds, Exits
  <2>2. \A ls : Leads(FunctionBlock, ls)
    BY DEF FunctionBlock, Block, Leads
  <2>3. open \in Seq(Blocks) /\ open # <<>> /\ \A k \in DOMAIN open : k = 1 /\ open[k] = FunctionBlock
    BY <2>1 DEF Init
  <2>4. WellFormed(icode) /\ JumpsInto(icode, Coming(icode, open))
    BY DEF Init, WellFormed, JumpsInto
  <2>5. isVoid \in BOOLEAN /\ symbols \subseteq Local /\ labels \in Nat
    BY DEF Init
  <2> QED
    BY <2>1, <2>2, <2>3, <2>4, <2>5 DEF Code
<1> QED
  BY <1>3, <1>6, <1>7, <1>8, <1>9 DEF BodyInv, Init, NoUseAfterFree, SurvivorsAlive

LEMMA BodyStep ==
    ASSUME Whole("self") \notin Readable, Whole("p") \notin Targets
    PROVE  BodyInv /\ NeverFull /\ [Next]_vars => BodyInv' /\ [Discipline!Next]_(Discipline!vars)
<1> SUFFICES ASSUME BodyInv, NeverFull, [Next]_vars
             PROVE  BodyInv' /\ [Discipline!Next]_(Discipline!vars)
  OBVIOUS
<1>1. CASE Compile
  BY <1>1, CompileStep
<1>2. CASE Execute
  BY <1>2, RunStep
<1>3. CASE UNCHANGED vars
  <2>1. /\ phase' = phase /\ pc' = pc /\ UNCHANGED genVars
        /\ held' = held /\ count' = count /\ status' = status /\ owner' = owner /\ pending' = pending
    BY <1>3 DEF vars, heapVars
  <2>2. [Discipline!Next]_(Discipline!vars)
    BY <2>1 DEF Discipline!vars
  <2>3. Counted!IInv'
    BY <2>2, CountedStep DEF BodyInv
  <2>4. /\ icode' = icode /\ open' = open /\ isVoid' = isVoid /\ symbols' = symbols /\ labels' = labels
        /\ Entry' = Entry
    BY <2>1 DEF genVars, Entry
  <2>5. Code'
    BY <2>4 DEF BodyInv, Code
  <2>6. phase = "generate" => Before'
    BY <2>1 DEF BodyInv, Before, Owned
  <2>7. phase = "run" => Runs'
    BY <2>1, <2>4 DEF BodyInv, Runs, Attached, Retained, Fresh, Result, Owned, Excused, Kept, Unowned
  <2> QED
    BY <2>1, <2>2, <2>3, <2>5, <2>6, <2>7 DEF BodyInv, NoUseAfterFree, SurvivorsAlive
<1> QED
  BY <1>1, <1>2, <1>3 DEF Next

(***************************************************************************)
(* The invariant holds of every body, but of those in which an assignment  *)
(* overwrites the whole of the parameter p, whose old value is dropped     *)
(* without its __deconstructor__, or copies the whole of a variable named  *)
(* self, which is not retained although what receives it is destroyed: TLC *)
(* finds runs of both that leave the discipline (README, finding 2).  That *)
(* no counter is about to wrap around is asked of the run, since a loop    *)
(* that leaks one reference per round lasts as long as it likes.           *)
(***************************************************************************)
THEOREM BodyInvariant ==
    ASSUME Whole("self") \notin Readable, Whole("p") \notin Targets
    PROVE  Spec /\ []NeverFull => []BodyInv
<1>1. Init => BodyInv
  BY Starts
<1>2. BodyInv /\ NeverFull /\ [Next]_vars => BodyInv'
  BY BodyStep
<1> QED
  BY <1>1, <1>2, PTL DEF Spec

(***************************************************************************)
(* Every hook, copy and call of every compiled body, whatever its loops    *)
(* and branches, is a step of Ownership or changes nothing there.          *)
(***************************************************************************)
THEOREM TakesStepsOfDiscipline ==
    ASSUME Whole("self") \notin Readable, Whole("p") \notin Targets
    PROVE  Spec /\ []NeverFull => FollowsDiscipline
<1>1. Init => Discipline!Init
  BY Starts
<1>2. BodyInv /\ NeverFull /\ [Next]_vars => [Discipline!Next]_(Discipline!vars)
  BY BodyStep
<1>3. Spec /\ []NeverFull => []BodyInv
  BY BodyInvariant
<1> QED
  BY <1>1, <1>2, <1>3, PTL DEF Spec, FollowsDiscipline, Discipline!Spec

(***************************************************************************)
(* No hook runs on an object that was freed.                               *)
(***************************************************************************)
THEOREM NothingUsedAfterFree ==
    ASSUME Whole("self") \notin Readable, Whole("p") \notin Targets
    PROVE  Spec /\ []NeverFull => []NoUseAfterFree
<1>1. BodyInv => NoUseAfterFree
  BY DEF BodyInv
<1> QED
  BY <1>1, BodyInvariant, PTL

(***************************************************************************)
(* What the caller sees after a return, its variable, the global and the   *)
(* returned value, is alive.                                               *)
(***************************************************************************)
THEOREM SurvivorsLive ==
    ASSUME Whole("self") \notin Readable, Whole("p") \notin Targets
    PROVE  Spec /\ []NeverFull => []SurvivorsAlive
<1>1. BodyInv => SurvivorsAlive
  BY DEF BodyInv
<1> QED
  BY <1>1, BodyInvariant, PTL

================================================================================
