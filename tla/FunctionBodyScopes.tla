--------------------------- MODULE FunctionBodyScopes ---------------------------
(***************************************************************************)
(* The scope check of the compiler is a dominance check: whatever branches *)
(* a body takes, what the source names was initialised before it is read.  *)
(*                                                                         *)
(* A table flows from a set of variables A to a set B if its entries can   *)
(* be given sets of initialised variables, from A before the first to B    *)
(* behind the last, such that each entry reads only what its own set has,  *)
(* passes on no more than it got and initialises, and jumps only where no  *)
(* more than its own set is needed.  Statements flow from the variables in *)
(* scope before them to those in scope behind them; a label needs what was *)
(* in scope where its block began.                                         *)
(***************************************************************************)
EXTENDS FunctionBodyProofs

Named == Variable \cup {"callee"}

\* What entry e reads, or has hooks called on; a return destroys locals that
\* are not in scope unless all are declared in the outermost block (flat).
Reading(e, flat) ==
    IF e.op = "copy" THEN {e.src.var}
    ELSE IF e.op = "beforeCopy" \/ (e.op = "deconstruct" /\ (flat \/ ~ e.sweep)) THEN {e.unit.var}
    ELSE {}

Initialises(e) ==
    IF e.op = "nullInit" THEN {e.unit.var} ELSE IF e.op = "call" THEN {"callee"} ELSE {}

\* needs[l] is what the code behind label l relies on.
Passes(e, before, after, needs, flat) ==
    /\ Reading(e, flat) \subseteq before
    /\ e.op \notin {"goto", "ret"} => after \subseteq before \cup Initialises(e)
    /\ e.op \in {"goto", "ifFalseGoto"} => needs[e.label] \subseteq before
    /\ e.op = "label" => before \subseteq needs[e.label]

\* At[i] is initialised before entry i of c.
FlowsBy(At, c, needs, flat) ==
    /\ At \in [1 .. Len(c) + 1 -> SUBSET Named]
    /\ \A i \in DOMAIN c : Passes(c[i], At[i], At[i + 1], needs, flat)

Flows(c, A, B, needs, flat) ==
    \E At : FlowsBy(At, c, needs, flat) /\ At[1] \subseteq A /\ B \subseteq At[Len(c) + 1]

------------------------------------------------------------------------------
(***************************************************************************)
(* Flows of rows.                                                          *)
(***************************************************************************)
LEMMA FlowStill ==
    ASSUME NEW c \in Seq(Entries), NEW A \in SUBSET Named, NEW needs, NEW flat,
           \A i \in DOMAIN c : Passes(c[i], A, A, needs, flat)
    PROVE  Flows(c, A, A, needs, flat)
<1> DEFINE At == [i \in 1 .. Len(c) + 1 |-> A]
<1>1. Len(c) \in Nat /\ DOMAIN c = 1 .. Len(c)
  OBVIOUS
<1>2. 1 \in 1 .. Len(c) + 1 /\ Len(c) + 1 \in 1 .. Len(c) + 1
      /\ \A i \in DOMAIN c : i \in 1 .. Len(c) + 1 /\ i + 1 \in 1 .. Len(c) + 1
  BY <1>1
<1>3. At \in [1 .. Len(c) + 1 -> SUBSET Named] /\ At[1] = A /\ At[Len(c) + 1] = A
      /\ \A i \in DOMAIN c : At[i] = A /\ At[i + 1] = A
  BY <1>2
<1> HIDE DEF At
<1>4. FlowsBy(At, c, needs, flat)
  BY <1>3 DEF FlowsBy
<1> QED
  BY <1>3, <1>4 DEF Flows

LEMMA FlowOne ==
    ASSUME NEW e \in Entries, NEW A \in SUBSET Named, NEW B \in SUBSET Named, NEW needs, NEW flat,
           Passes(e, A, B, needs, flat)
    PROVE  Flows(<<e>>, A, B, needs, flat)
<1> DEFINE At == [i \in 1 .. 2 |-> IF i = 1 THEN A ELSE B]
<1>1. PICK c : c = <<e>>
  OBVIOUS
<1>2. Len(c) = 1 /\ DOMAIN c = {1} /\ c[1] = e
  BY <1>1
<1>3. At \in [1 .. 2 -> SUBSET Named] /\ At[1] = A /\ At[2] = B
  OBVIOUS
<1> HIDE DEF At
<1>4. FlowsBy(At, c, needs, flat)
  BY <1>2, <1>3 DEF FlowsBy
<1> QED
  BY <1>1, <1>2, <1>3, <1>4 DEF Flows

LEMMA FlowJoin ==
    ASSUME NEW a \in Seq(Entries), NEW b \in Seq(Entries), NEW A, NEW B, NEW C, NEW needs, NEW flat,
           Flows(a, A, B, needs, flat), Flows(b, B, C, needs, flat)
    PROVE  Flows(a \o b, A, C, needs, flat)
<1>1. PICK P : FlowsBy(P, a, needs, flat) /\ P[1] \subseteq A /\ B \subseteq P[Len(a) + 1]
  BY DEF Flows
<1>2. PICK Q : FlowsBy(Q, b, needs, flat) /\ Q[1] \subseteq B /\ C \subseteq Q[Len(b) + 1]
  BY DEF Flows
<1>3. PICK c : c = a \o b
  OBVIOUS
<1>4. PICK m \in Nat, n \in Nat : m = Len(a) /\ n = Len(b)
  OBVIOUS
<1>5. /\ c \in Seq(Entries) /\ Len(c) = m + n /\ DOMAIN c = 1 .. m + n
      /\ DOMAIN a = 1 .. m /\ DOMAIN b = 1 .. n
      /\ \A i \in 1 .. m : c[i] = a[i]
      /\ \A i \in 1 .. n : c[i + m] = b[i]
  BY <1>3, <1>4
<1> DEFINE At == [i \in 1 .. m + n + 1 |-> IF i <= m THEN P[i] ELSE Q[i - m]]
<1>6. /\ P \in [1 .. m + 1 -> SUBSET Named] /\ Q \in [1 .. n + 1 -> SUBSET Named]
      /\ \A i \in 1 .. m : Passes(a[i], P[i], P[i + 1], needs, flat)
      /\ \A i \in 1 .. n : Passes(b[i], Q[i], Q[i + 1], needs, flat)
  BY <1>1, <1>2, <1>4, <1>5 DEF FlowsBy
<1>7. \A i \in 1 .. m : At[i] = P[i] /\ i \in 1 .. m + 1
  OBVIOUS
<1>8. \A i \in 1 .. n + 1 : At[i + m] = Q[i]
  <2> TAKE i \in 1 .. n + 1
  <2>1. i + m \in 1 .. m + n + 1 /\ ~ (i + m <= m) /\ (i + m) - m = i
    OBVIOUS
  <2> QED
    BY <2>1
<1>9. At \in [1 .. m + n + 1 -> SUBSET Named]
  <2>1. ASSUME NEW i \in 1 .. m + n + 1
        PROVE  (IF i <= m THEN P[i] ELSE Q[i - m]) \in SUBSET Named
    <3>1. CASE i <= m
      <4>1. i \in 1 .. m + 1
        BY <3>1
      <4> QED
        BY <1>6, <3>1, <4>1
    <3>2. CASE ~ (i <= m)
      <4>1. i - m \in 1 .. n + 1
        BY <3>2
      <4> QED
        BY <1>6, <3>2, <4>1
    <3> QED
      BY <3>1, <3>2
  <2> QED
    BY <2>1
<1> HIDE DEF At
<1>10. Q[1] \subseteq P[m + 1] /\ At[m + 1] = Q[1]
  <2>1. 1 \in 1 .. n + 1 /\ 1 + m = m + 1
    OBVIOUS
  <2> QED
    BY <1>1, <1>2, <1>4, <1>8, <2>1
<1>11. ASSUME NEW i \in 1 .. m PROVE Passes(c[i], At[i], At[i + 1], needs, flat)
  <2>1. At[i] = P[i] /\ At[i + 1] \subseteq P[i + 1]
    <3>1. CASE i = m
      BY <1>7, <1>10, <3>1
    <3>2. CASE i # m
      <4>1. i + 1 \in 1 .. m
        BY <3>2
      <4> QED
        BY <1>7, <4>1
    <3> QED
      BY <3>1, <3>2
  <2>2. Passes(a[i], P[i], P[i + 1], needs, flat) /\ c[i] = a[i]
    BY <1>5, <1>6
  <2> QED
    BY <2>1, <2>2 DEF Passes
<1>12. ASSUME NEW i \in 1 .. n PROVE Passes(c[i + m], At[i + m], At[(i + m) + 1], needs, flat)
  <2>1. i \in 1 .. n + 1 /\ i + 1 \in 1 .. n + 1 /\ (i + m) + 1 = (i + 1) + m
    OBVIOUS
  <2>2. At[i + m] = Q[i] /\ At[(i + m) + 1] = Q[i + 1]
    BY <1>8, <2>1
  <2> QED
    BY <1>5, <1>6, <2>2
<1>13. \A i \in DOMAIN c : Passes(c[i], At[i], At[i + 1], needs, flat)
  <2> TAKE i \in DOMAIN c
  <2>1. CASE i \in 1 .. m
    BY <1>11, <2>1
  <2>2. CASE i \notin 1 .. m
    <3>1. i - m \in 1 .. n /\ (i - m) + m = i
      BY <1>5, <2>2
    <3> QED
      BY <1>12, <3>1
  <2> QED
    BY <2>1, <2>2
<1>14. FlowsBy(At, c, needs, flat)
  BY <1>5, <1>9, <1>13 DEF FlowsBy
<1>15. At[1] \subseteq A
  <2>1. CASE m = 0
    BY <1>1, <1>2, <1>4, <1>10, <2>1
  <2>2. CASE m # 0
    <3>1. 1 \in 1 .. m
      BY <2>2
    <3> QED
      BY <1>1, <1>7, <3>1
  <2> QED
    BY <2>1, <2>2
<1>16. C \subseteq At[Len(c) + 1]
  <2>1. n + 1 \in 1 .. n + 1 /\ (n + 1) + m = Len(c) + 1
    BY <1>5
  <2> QED
    BY <1>2, <1>4, <1>8, <2>1
<1> QED
  BY <1>3, <1>14, <1>15, <1>16 DEF Flows

LEMMA FlowWeaken ==
    ASSUME NEW c, NEW A, NEW B, NEW C, NEW D, NEW needs, NEW flat,
           Flows(c, B, C, needs, flat), B \subseteq A, D \subseteq C
    PROVE  Flows(c, A, D, needs, flat)
BY DEF Flows

\* Labels that c does not have may need something else.
LEMMA FlowRelabel ==
    ASSUME NEW c \in Seq(Entries), NEW A, NEW B, NEW needs, NEW more, NEW flat, NEW less,
           Flows(c, A, B, needs, flat), less => flat, flat \in BOOLEAN, less \in BOOLEAN,
           \A i \in DOMAIN c : c[i].op \in {"label", "goto", "ifFalseGoto"} =>
                                 more[c[i].label] = needs[c[i].label]
    PROVE  Flows(c, A, B, more, less)
<1>1. PICK At : FlowsBy(At, c, needs, flat) /\ At[1] \subseteq A /\ B \subseteq At[Len(c) + 1]
  BY DEF Flows
<1>2. ASSUME NEW i \in DOMAIN c PROVE Passes(c[i], At[i], At[i + 1], more, less)
  <2>1. Passes(c[i], At[i], At[i + 1], needs, flat)
    BY <1>1 DEF FlowsBy
  <2>2. Reading(c[i], less) \subseteq Reading(c[i], flat)
    BY DEF Reading
  <2> QED
    BY <2>1, <2>2 DEF Passes
<1> QED
  BY <1>1, <1>2 DEF Flows, FlowsBy

------------------------------------------------------------------------------
(***************************************************************************)
(* Flows of what statements emit: rows without labels and jumps.           *)
(***************************************************************************)
Branches == {"label", "goto", "ifFalseGoto"}

Straight(c, A, B, needs, flat) ==
    /\ c \in Seq(Entries) /\ \A i \in DOMAIN c : c[i].op \notin Branches
    /\ Flows(c, A, B, needs, flat)

LEMMA StraightJoin ==
    ASSUME NEW a, NEW b, NEW A, NEW B, NEW C, NEW needs, NEW flat,
           Straight(a, A, B, needs, flat), Straight(b, B, C, needs, flat)
    PROVE  Straight(a \o b, A, C, needs, flat)
<1>1. PICK c : c = a \o b
  OBVIOUS
<1>2. a \in Seq(Entries) /\ b \in Seq(Entries) /\ Flows(c, A, C, needs, flat)
  BY <1>1, FlowJoin DEF Straight
<1>3. /\ c \in Seq(Entries) /\ Within(a, c, 0) /\ Within(b, c, Len(a))
      /\ \A i \in DOMAIN c : i \in DOMAIN a \/ (i - Len(a) \in DOMAIN b /\ (i - Len(a)) + Len(a) = i)
  BY <1>1, <1>2, Joins
<1>4. ASSUME NEW i \in DOMAIN c PROVE c[i].op \notin Branches
  <2>1. CASE i \in DOMAIN a
    <3>1. i + 0 = i /\ c[i + 0] = a[i]
      BY <1>3, <2>1 DEF Within
    <3> QED
      BY <2>1, <3>1 DEF Straight
  <2>2. CASE i - Len(a) \in DOMAIN b /\ (i - Len(a)) + Len(a) = i
    <3>1. PICK k \in DOMAIN b : k + Len(a) = i
      BY <2>2
    <3>2. c[i] = b[k]
      BY <1>3, <3>1 DEF Within
    <3> QED
      BY <3>2 DEF Straight
  <2> QED
    BY <1>3, <2>1, <2>2
<1> QED
  BY <1>1, <1>2, <1>3, <1>4 DEF Straight

LEMMA CopyFlows ==
    ASSUME NEW d \in Overwritten, NEW s \in Copied, NEW A \in SUBSET Named, d.var \in A, s.var \in A,
           NEW needs, NEW flat
    PROVE  Straight(unitCopy(d, s), A, A, needs, flat)
<1> DEFINE x == hookOn(s, "beforeCopy", FALSE)
           y == hookOn(d, "deconstruct", FALSE)
           z == copyOf(d, s, TRUE)
<1>1. s \in Unit /\ d \in Unit
  BY DEF Overwritten, Copied
<1>2. x \in Entries /\ x.op = "beforeCopy" /\ x.unit = s
  BY <1>1, HookEntries
<1>3. y \in Entries /\ y.op = "deconstruct" /\ y.unit = d
  BY <1>1, HookEntries
<1>4. z \in Entries /\ z.op = "copy" /\ z.src = s
  BY <1>1, CopyEntries
<1>5. unitCopy(d, s) = IF d = Whole("self") THEN <<x, z>> ELSE <<x, y, z>>
  BY CopyRow
<1> HIDE DEF x, y, z
<1>0. Passes(x, A, A, needs, flat) /\ Passes(y, A, A, needs, flat) /\ Passes(z, A, A, needs, flat)
  BY <1>2, <1>3, <1>4 DEF Passes, Reading
<1>6. PICK c : c = <<x, z>>
  OBVIOUS
<1>7. c \in Seq(Entries) /\ \A i \in DOMAIN c : c[i] = x \/ c[i] = z
  BY <1>2, <1>4, <1>6
<1>8. Straight(c, A, A, needs, flat)
  BY <1>0, <1>2, <1>4, <1>7, FlowStill DEF Straight, Branches
<1>9. PICK q : q = <<x, y, z>>
  OBVIOUS
<1>10. q \in Seq(Entries) /\ \A i \in DOMAIN q : q[i] = x \/ q[i] = y \/ q[i] = z
  BY <1>2, <1>3, <1>4, <1>9
<1>11. Straight(q, A, A, needs, flat)
  BY <1>0, <1>2, <1>3, <1>4, <1>10, FlowStill DEF Straight, Branches
<1> QED
  BY <1>5, <1>6, <1>8, <1>9, <1>11

LEMMA ReturnFlows ==
    ASSUME NEW v \in Variable \cup {"callee"}, NEW A \in SUBSET Named, v \in A, NEW needs, NEW flat
    PROVE  Straight(unitCopy(Whole("return"), Whole(v)), A, A, needs, flat)
<1> DEFINE x == hookOn(Whole(v), "beforeCopy", FALSE)
           y == copyOf(Whole("return"), Whole(v), TRUE)
           z == copyOf(Whole("return"), Whole(v), FALSE)
<1>1. Whole(v) \in Unit /\ Whole("return") \in Unit /\ Whole(v).var = v
  BY DEF Whole, Unit, Storage, Variable
<1>2. x \in Entries /\ x.op = "beforeCopy" /\ x.unit.var = v
  BY <1>1, HookEntries
<1>3. y \in Entries /\ y.op = "copy" /\ y.src.var = v
  BY <1>1, CopyEntries, ZenonT(30)
<1>4. z \in Entries /\ z.op = "copy" /\ z.src.var = v
  BY <1>1, CopyEntries, ZenonT(30)
<1>5. PICK u : u = unitCopy(Whole("return"), Whole(v))
  OBVIOUS
<1>6. u = <<x, y>> \/ u = <<z>>
  BY <1>5, ReturnRow
<1> HIDE DEF x, y, z
<1>0. Passes(x, A, A, needs, flat) /\ Passes(y, A, A, needs, flat) /\ Passes(z, A, A, needs, flat)
  BY <1>2, <1>3, <1>4 DEF Passes, Reading
<1>7. u \in Seq(Entries) /\ \A i \in DOMAIN u : u[i] = x \/ u[i] = y \/ u[i] = z
  <2>1. CASE u = <<x, y>>
    BY <1>2, <1>3, <2>1
  <2>2. CASE u = <<z>>
    BY <1>4, <2>2
  <2> QED
    BY <1>6, <2>1, <2>2
<1>8. Straight(u, A, A, needs, flat)
  BY <1>0, <1>2, <1>3, <1>4, <1>7, FlowStill DEF Straight, Branches
<1> QED
  BY <1>5, <1>8

LEMMA NullInitFlows ==
    ASSUME NEW s \in Local, NEW A \in SUBSET Named, NEW needs, NEW flat
    PROVE  Straight(<<NullInit(s)>>, A, A \cup {s}, needs, flat)
<1>1. PICK e : e = NullInit(s)
  OBVIOUS
<1>2. e \in Entries /\ e.op = "nullInit" /\ e.unit.var = s
  BY <1>1, NullInitFits DEF NullInit, Whole
<1>3. A \cup {s} \in SUBSET Named
  BY DEF Named, Variable
<1>4. Passes(e, A, A \cup {s}, needs, flat)
  BY <1>2 DEF Passes, Reading, Initialises
<1> QED
  BY <1>1, <1>2, <1>3, <1>4, FlowOne DEF Straight, Branches

LEMMA EvaluateFlows ==
    ASSUME NEW src, src.var \in Named, NEW A \in SUBSET Named, src = Whole("callee") \/ src.var \in A,
           NEW needs, NEW flat
    PROVE  Straight(Evaluate(src), A, A \cup {src.var}, needs, flat)
<1>1. A \cup {src.var} \in SUBSET Named
  OBVIOUS
<1>2. CASE src = Whole("callee")
  <2>1. PICK e : e = Call
    OBVIOUS
  <2>2. e \in Entries /\ e.op = "call" /\ src.var = "callee"
    BY <1>2, <2>1 DEF Entries, Call, Whole
  <2>3. Passes(e, A, A \cup {src.var}, needs, flat)
    BY <2>2 DEF Passes, Reading, Initialises
  <2>4. Evaluate(src) = <<e>>
    BY <1>2, <2>1 DEF Evaluate
  <2> QED
    BY <1>1, <2>2, <2>3, <2>4, FlowOne DEF Straight, Branches
<1>3. CASE src # Whole("callee")
  <2>1. PICK c : c = Evaluate(src)
    OBVIOUS
  <2>2. c = <<>> /\ c \in Seq(Entries) /\ DOMAIN c = {}
    BY <1>3, <2>1 DEF Evaluate
  <2>3. A \cup {src.var} = A
    BY <1>3
  <2>4. Flows(c, A, A, needs, flat)
    BY <2>2, FlowStill
  <2> QED
    BY <2>1, <2>2, <2>3, <2>4 DEF Straight
<1> QED
  BY <1>2, <1>3

LEMMA SweepFlows ==
    ASSUME symbols \subseteq Local, NEW A \in SUBSET Named, NEW needs, NEW flat, flat => symbols \subseteq A
    PROVE  Straight(createReturnAndCallDeconstructors, A, A, needs, flat)
<1>1. PICK r \in Seq(SweepEntries) : /\ callDeconstructorOnDeclaredSymbols = r
                                     /\ \A j \in 1 .. Len(r) : r[j].unit.var \in symbols
  BY SweepRow
<1>2. PICK w, e : w = r \o <<e>> /\ e = Ret
  OBVIOUS
<1>3. e \in Entries /\ e.op = "ret"
  BY <1>2 DEF Entries, Ret
<1>4. r \in Seq(Entries)
  BY <1>1, SweepEntryFields
<1>5. /\ w \in Seq(Entries) /\ Len(w) = Len(r) + 1 /\ w[Len(r) + 1] = e
      /\ \A i \in 1 .. Len(r) : w[i] = r[i]
  BY <1>2, <1>3, <1>4, Behind
<1>6. ASSUME NEW i \in DOMAIN w
      PROVE  Passes(w[i], A, A, needs, flat) /\ w[i].op \notin Branches
  <2>1. CASE i \in 1 .. Len(r)
    <3>1. w[i] = r[i] /\ r[i] \in SweepEntries /\ r[i].unit.var \in symbols
      BY <1>1, <1>5, <2>1
    <3>2. r[i] \in Entries /\ r[i].op = "deconstruct" /\ r[i].sweep
      BY <3>1, SweepEntryFields
    <3>3. Reading(r[i], flat) \subseteq A
      BY <3>1, <3>2 DEF Reading
    <3> QED
      BY <3>1, <3>2, <3>3 DEF Passes, Branches
  <2>2. CASE i \notin 1 .. Len(r)
    <3>1. i = Len(r) + 1
      BY <1>5, <2>2
    <3> QED
      BY <1>3, <1>5, <3>1 DEF Passes, Reading, Branches
  <2> QED
    BY <2>1, <2>2
<1>7. createReturnAndCallDeconstructors = w
  BY <1>1, <1>2 DEF createReturnAndCallDeconstructors
<1> QED
  BY <1>5, <1>6, <1>7, FlowStill DEF Straight

\* Labels and jumps that all need the same.
LEMMA BranchFlows ==
    ASSUME NEW c \in Seq(Entries), NEW A \in SUBSET Named, NEW needs, NEW flat,
           \A i \in DOMAIN c : \/ c[i].op = "label" /\ A \subseteq needs[c[i].label]
                               \/ c[i].op \in {"goto", "ifFalseGoto"} /\ needs[c[i].label] \subseteq A
    PROVE  Flows(c, A, A, needs, flat)
<1>1. \A i \in DOMAIN c : Passes(c[i], A, A, needs, flat)
  BY DEF Passes, Reading
<1> QED
  BY <1>1, FlowStill

------------------------------------------------------------------------------
(***************************************************************************)
(* Scopes: the names of the first k scopes that are open, and the labels   *)
(* of the blocks.  Block k begins in the scopes 1 .. k and has scope k + 1.*)
(***************************************************************************)
Visible(k) ==
    {v \in Variable : Known(v) /\ (v \in DOMAIN symbolScope => \E j \in 1 .. k : symbolScope[v] = scopeStack[j])}

InView == Visible(Len(open) + 1)

Scopes ==
    /\ scopeCounter \in Nat /\ scopeStack \in Seq(Nat) /\ Len(scopeStack) = Len(open) + 1
    /\ scopeStack[1] = 0 /\ scopeStack[2] = 1
    /\ \A i, j \in 1 .. Len(scopeStack) : scopeStack[i] = scopeStack[j] => i = j
    /\ \A i \in 1 .. Len(scopeStack) : scopeStack[i] <= scopeCounter
    /\ DOMAIN symbolScope = symbols \cup {"p"} /\ symbolScope["p"] = 0
    /\ \A v \in DOMAIN symbolScope : symbolScope[v] \in Nat /\ symbolScope[v] <= scopeCounter

LabelsUpTo(c, n) == \A i \in DOMAIN c : c[i].op \in Branches => c[i].label <= n

BlockUpTo(b, n) ==
    (\A i \in DOMAIN b.exits : b.exits[i] <= n) /\ b.breakLabel <= n /\ b.continueLabel <= n

\* The code behind the labels of block b needs what was in view where b began.
Expects(b, view, needs) ==
    /\ \A i \in DOMAIN b.exits : needs[b.exits[i]] = view
    /\ b.inLoop => needs[b.breakLabel] \subseteq view /\ needs[b.continueLabel] \subseteq view

Planned(needs) ==
    /\ needs \in [Nat -> SUBSET Named]
    /\ Flows(icode, {"p", "g"}, InView, needs, Flat)
    /\ \A k \in DOMAIN open : Expects(open[k], Visible(k), needs)

Generated ==
    /\ Scopes
    /\ LabelsUpTo(icode, labels) /\ \A k \in DOMAIN open : BlockUpTo(open[k], labels)
    /\ \E needs : Planned(needs)

LEMMA InViewIsReadable ==
    ASSUME Scopes, Code
    PROVE  /\ InView = {v \in Variable : Known(v) /\ InScope(v)}
           /\ Flat => symbols \subseteq InView
           /\ InView \in SUBSET Named
           /\ \A k, m : m \in Nat /\ k \in 1 .. m => Visible(k) \subseteq Visible(m)
<1>1. ToSet(scopeStack) = {scopeStack[j] : j \in 1 .. Len(open) + 1}
  BY DEF ToSet, Scopes
<1>2. InView = {v \in Variable : Known(v) /\ InScope(v)}
  BY <1>1 DEF InView, Visible, InScope
<1>3. ASSUME Flat PROVE symbols \subseteq InView
  <2>1. Len(open) \in Nat /\ Len(open) >= 1 /\ symbols \subseteq Local
    BY DEF Code
  <2>2. 2 \in 1 .. Len(open) + 1
    BY <2>1
  <2>3. \A v \in symbols : v \in Variable /\ Known(v) /\ symbolScope[v] = scopeStack[2]
    BY <1>3, <2>1 DEF Flat, Scopes, Known, Variable
  <2> QED
    BY <2>2, <2>3 DEF InView, Visible
<1>4. InView \in SUBSET Named
  BY DEF InView, Visible, Named
<1>5. \A k, m : m \in Nat /\ k \in 1 .. m => Visible(k) \subseteq Visible(m)
  <2> SUFFICES ASSUME NEW m \in Nat, NEW k \in 1 .. m PROVE Visible(k) \subseteq Visible(m)
    OBVIOUS
  <2>1. 1 .. k \subseteq 1 .. m
    OBVIOUS
  <2> QED
    BY <2>1 DEF Visible
<1> QED
  BY <1>2, <1>3, <1>4, <1>5

\* A declaration comes into view in the innermost scope, and only there.
LEMMA Declares ==
    ASSUME Scopes, NEW s \in Local, s \notin symbols, createLocal(s),
           NEW n \in Nat, n = Len(scopeStack), \A j \in 1 .. n : scopeStack'[j] = scopeStack[j]
    PROVE  /\ \A k \in 1 .. n - 1 : Visible(k)' = Visible(k)
           /\ Visible(n)' = Visible(n) \cup {s}
           /\ DOMAIN symbolScope' = symbols' \cup {"p"} /\ symbolScope'["p"] = 0
           /\ \A v \in DOMAIN symbolScope' : symbolScope'[v] \in Nat /\ symbolScope'[v] <= scopeCounter
           /\ Flat' => Flat /\ Last(scopeStack) = 1
<1>1. n >= 1
  BY DEF Scopes
<1>0. PICK t : t = Last(scopeStack)
  OBVIOUS
<1>2. t = scopeStack[n] /\ n \in 1 .. n /\ t \in Nat /\ t <= scopeCounter
  BY <1>0, <1>1 DEF Scopes, Last
<1>3. s \in Variable /\ s # "p"
  BY LocalOrderIsLocal DEF Variable
<1>4. symbols' = symbols \cup {s} /\ symbolScope' = [v \in DOMAIN symbolScope \cup {s} |-> IF v = s THEN t ELSE symbolScope[v]]
  BY <1>0 DEF createLocal
<1>5. /\ DOMAIN symbolScope' = symbols \cup {"p", s} /\ symbolScope'[s] = t
      /\ \A v \in DOMAIN symbolScope : symbolScope'[v] = symbolScope[v]
  <2>1. DOMAIN symbolScope' = DOMAIN symbolScope \cup {s}
    BY <1>4
  <2>2. s \notin DOMAIN symbolScope
    BY <1>3 DEF Scopes
  <2>3. \A v \in DOMAIN symbolScope \cup {s} :
           symbolScope'[v] = IF v = s THEN t ELSE symbolScope[v]
    BY <1>4
  <2> QED
    BY <2>1, <2>2, <2>3 DEF Scopes
<1>6. ASSUME NEW k \in 1 .. n - 1
      PROVE  Visible(k)' = Visible(k)
  <2>1. \A j \in 1 .. k : j \in 1 .. n /\ scopeStack'[j] = scopeStack[j] /\ scopeStack[j] # t
    BY <1>1, <1>2 DEF Scopes
  <2>2. ASSUME NEW v \in Variable
        PROVE  v \in Visible(k)' <=> v \in Visible(k)
    <3>1. CASE v = s
      <4>1. v \notin Visible(k)
        BY <1>3, <3>1, LocalOrderIsLocal DEF Visible, Known
      <4> QED
        BY <1>5, <2>1, <3>1, <4>1 DEF Visible
    <3>2. CASE v # s
      <4>1. Known(v)' <=> Known(v)
        BY <1>4, <3>2 DEF Known
      <4>2. v \in DOMAIN symbolScope' <=> v \in DOMAIN symbolScope
        BY <1>5, <3>2 DEF Scopes
      <4> QED
        BY <1>5, <2>1, <4>1, <4>2 DEF Visible
    <3> QED
      BY <3>1, <3>2
  <2> QED
    BY <2>2 DEF Visible
<1>7. Visible(n)' = Visible(n) \cup {s}
  <2>1. ASSUME NEW v \in Variable
        PROVE  v \in Visible(n)' <=> v \in Visible(n) \cup {s}
    <3>1. CASE v = s
      BY <1>1, <1>2, <1>4, <1>5, <3>1 DEF Visible, Known
    <3>2. CASE v # s
      <4>1. Known(v)' <=> Known(v)
        BY <1>4, <3>2 DEF Known
      <4>2. v \in DOMAIN symbolScope' <=> v \in DOMAIN symbolScope
        BY <1>5, <3>2 DEF Scopes
      <4> QED
        BY <1>1, <1>5, <3>2, <4>1, <4>2 DEF Visible
    <3> QED
      BY <3>1, <3>2
  <2> QED
    BY <1>3, <2>1 DEF Visible
<1>8. \A v \in DOMAIN symbolScope' : symbolScope'[v] \in Nat /\ symbolScope'[v] <= scopeCounter
  BY <1>2, <1>5 DEF Scopes
<1>9. symbolScope'["p"] = 0
  BY <1>5 DEF Scopes
<1>10. Flat' => Flat /\ t = 1
  BY <1>4, <1>5 DEF Flat, Scopes
<1> QED
  BY <1>0, <1>1, <1>4, <1>5, <1>6, <1>7, <1>8, <1>9, <1>10

\* A new scope is empty.
LEMMA Opens ==
    ASSUME Scopes, scopeStack' = Append(scopeStack, scopeCounter + 1), NEW n \in Nat, n = Len(scopeStack),
           \A v \in DOMAIN symbolScope' : symbolScope'[v] <= scopeCounter /\ symbolScope'[v] \in Nat
    PROVE  /\ \A j \in 1 .. n : scopeStack'[j] = scopeStack[j]
           /\ scopeStack' \in Seq(Nat) /\ Len(scopeStack') = n + 1
           /\ scopeStack'[n + 1] = scopeCounter + 1
           /\ Visible(n + 1)' = Visible(n)'
<1>1. n \in Nat
  OBVIOUS
<1>2. /\ \A j \in 1 .. n : scopeStack'[j] = scopeStack[j]
      /\ scopeStack' \in Seq(Nat) /\ Len(scopeStack') = n + 1 /\ scopeStack'[n + 1] = scopeCounter + 1
  BY <1>1 DEF Scopes
<1>3. \A j \in 1 .. n + 1 : j \in 1 .. n \/ j = n + 1
  BY <1>1
<1>4. 1 .. n \subseteq 1 .. n + 1
  BY <1>1
<1>5. \A v \in DOMAIN symbolScope' : symbolScope'[v] # scopeStack'[n + 1]
  BY <1>2 DEF Scopes
<1>6. Visible(n + 1)' = Visible(n)'
  BY <1>3, <1>4, <1>5 DEF Visible
<1> QED
  BY <1>1, <1>2, <1>6

------------------------------------------------------------------------------
(***************************************************************************)
(* Statements without blocks flow from the names in view before them to    *)
(* those in view behind them.                                              *)
(***************************************************************************)
LEMMA StraightWeaken ==
    ASSUME NEW c, NEW A, NEW B, NEW D, NEW needs, NEW flat, Straight(c, A, B, needs, flat), D \subseteq B
    PROVE  Straight(c, A, D, needs, flat)
BY FlowWeaken DEF Straight

LEMMA InitialisedFlows ==
    ASSUME NEW s \in Local, NEW src \in Copied, NEW A \in SUBSET Named, NEW needs, NEW flat,
           src = Whole("callee") \/ src.var \in A \cup {s}
    PROVE  /\ Straight(<<NullInit(s)>>, A, A \cup {s}, needs, flat)
           /\ Straight(<<NullInit(s)>> \o Evaluate(src) \o unitCopy(Whole(s), src), A, A \cup {s}, needs, flat)
<1>1. PICK a, e, u : a = <<NullInit(s)>> /\ e = Evaluate(src) /\ u = unitCopy(Whole(s), src)
  OBVIOUS
<1>2. PICK B, C : B = A \cup {s} /\ C = B \cup {src.var}
  OBVIOUS
<1>3. src.var \in Named /\ s \in Named /\ Whole(s).var = s /\ Whole(s) \in Overwritten
  BY NullInitFits DEF Copied, Named, Variable, Whole
<1>4. B \in SUBSET Named /\ C \in SUBSET Named /\ s \in C /\ src.var \in C /\ B \subseteq C
  BY <1>2, <1>3
<1>5. Straight(a, A, B, needs, flat)
  BY <1>1, <1>2, NullInitFlows
<1>6. Straight(e, B, C, needs, flat)
  BY <1>1, <1>2, <1>3, <1>4, EvaluateFlows
<1>7. Straight(u, C, C, needs, flat)
  BY <1>1, <1>3, <1>4, CopyFlows
<1>8. Straight(a \o e \o u, A, C, needs, flat)
  BY <1>5, <1>6, <1>7, StraightJoin
<1> QED
  BY <1>1, <1>2, <1>4, <1>5, <1>8, StraightWeaken

LEMMA WalrusFlows ==
    ASSUME NEW s \in Local, NEW src \in Copied, NEW A \in SUBSET Named, NEW needs, NEW flat,
           src = Whole("callee") \/ src.var \in A
    PROVE  Straight(Evaluate(src) \o <<NullInit(s)>> \o unitCopy(Whole(s), src), A, A \cup {s}, needs, flat)
<1>1. PICK a, e, u : a = <<NullInit(s)>> /\ e = Evaluate(src) /\ u = unitCopy(Whole(s), src)
  OBVIOUS
<1>2. PICK B, C, D : B = A \cup {src.var} /\ C = B \cup {s} /\ D = A \cup {s}
  OBVIOUS
<1>3. src.var \in Named /\ s \in Named /\ Whole(s).var = s /\ Whole(s) \in Overwritten
  BY NullInitFits DEF Copied, Named, Variable, Whole
<1>4. B \in SUBSET Named /\ C \in SUBSET Named /\ s \in C /\ src.var \in C /\ D \subseteq C
  BY <1>2, <1>3
<1>5. Straight(e, A, B, needs, flat)
  BY <1>1, <1>2, <1>3, EvaluateFlows
<1>6. Straight(a, B, C, needs, flat)
  BY <1>1, <1>2, <1>4, NullInitFlows
<1>7. Straight(u, C, C, needs, flat)
  BY <1>1, <1>3, <1>4, CopyFlows
<1>8. Straight(e \o a \o u, A, C, needs, flat)
  BY <1>5, <1>6, <1>7, StraightJoin
<1> QED
  BY <1>1, <1>2, <1>4, <1>8, StraightWeaken

LEMMA AssignmentFlows ==
    ASSUME NEW dst \in Overwritten, NEW src \in Copied, NEW A \in SUBSET Named, NEW needs, NEW flat,
           src = Whole("callee") \/ src.var \in A, dst.var \in A
    PROVE  Straight(Evaluate(src) \o unitCopy(dst, src), A, A, needs, flat)
<1>1. PICK e, u : e = Evaluate(src) /\ u = unitCopy(dst, src)
  OBVIOUS
<1>2. PICK B : B = A \cup {src.var}
  OBVIOUS
<1>3. src.var \in Named
  BY DEF Copied, Named
<1>4. B \in SUBSET Named /\ dst.var \in B /\ src.var \in B /\ A \subseteq B
  BY <1>2, <1>3
<1>5. Straight(e, A, B, needs, flat)
  BY <1>1, <1>2, <1>3, EvaluateFlows
<1>6. Straight(u, B, B, needs, flat)
  BY <1>1, <1>4, CopyFlows
<1>7. Straight(e \o u, A, B, needs, flat)
  BY <1>5, <1>6, StraightJoin
<1> QED
  BY <1>1, <1>4, <1>7, StraightWeaken

LEMMA ReturnsFlows ==
    ASSUME symbols \subseteq Local, NEW v \in Variable \cup {"callee"}, NEW A \in SUBSET Named,
           NEW needs, NEW flat, isVoid \/ v = "callee" \/ v \in A, flat => symbols \subseteq A,
           NEW row, row = (IF isVoid THEN <<>> ELSE Evaluate(Whole(v)) \o unitCopy(Whole("return"), Whole(v)))
                             \o createReturnAndCallDeconstructors
    PROVE  Straight(row, A, A, needs, flat)
<1>1. PICK w : w = createReturnAndCallDeconstructors
  OBVIOUS
<1>2. CASE isVoid
  <2>1. Straight(w, A, A, needs, flat)
    BY <1>1, SweepFlows
  <2>2. w \in Seq(Entries)
    BY <2>1 DEF Straight
  <2>3. row = w
    BY <1>1, <1>2, <2>2
  <2> QED
    BY <2>1, <2>3
<1>3. CASE ~ isVoid
  <2>1. PICK e, u : e = Evaluate(Whole(v)) /\ u = unitCopy(Whole("return"), Whole(v))
    OBVIOUS
  <2>2. PICK B : B = A \cup {v}
    OBVIOUS
  <2>3. Whole(v).var = v /\ v \in Named /\ (v = "callee" => Whole(v) = Whole("callee"))
    BY DEF Whole, Named
  <2>4. B \in SUBSET Named /\ v \in B /\ A \subseteq B /\ (flat => symbols \subseteq B)
    BY <2>2, <2>3
  <2>5. Straight(e, A, B, needs, flat)
    BY <1>3, <2>1, <2>2, <2>3, EvaluateFlows
  <2>6. Straight(u, B, B, needs, flat)
    BY <2>1, <2>4, ReturnFlows
  <2>7. Straight(w, B, B, needs, flat)
    BY <1>1, <2>4, SweepFlows
  <2>8. Straight(e \o u \o w, A, B, needs, flat)
    BY <2>5, <2>6, <2>7, StraightJoin
  <2> QED
    BY <1>1, <1>3, <2>1, <2>4, <2>8, StraightWeaken
<1> QED
  BY <1>2, <1>3

LEMMA LabelsJoin ==
    ASSUME NEW a \in Seq(Entries), NEW b \in Seq(Entries), NEW n \in Nat, NEW m \in Nat, m <= n,
           LabelsUpTo(a, m), LabelsUpTo(b, n)
    PROVE  LabelsUpTo(a \o b, n)
<1>1. PICK c : c = a \o b
  OBVIOUS
<1>2. /\ c \in Seq(Entries) /\ Within(a, c, 0) /\ Within(b, c, Len(a))
      /\ \A i \in DOMAIN c : i \in DOMAIN a \/ (i - Len(a) \in DOMAIN b /\ (i - Len(a)) + Len(a) = i)
  BY <1>1, Joins
<1>3. ASSUME NEW i \in DOMAIN c, c[i].op \in Branches PROVE c[i].label <= n
  <2>1. CASE i \in DOMAIN a
    <3>1. i + 0 = i /\ c[i + 0] = a[i]
      BY <1>2, <2>1 DEF Within
    <3>2. a[i].label <= m /\ a[i].label \in Nat
      BY <1>3, <2>1, <3>1, EntryFields DEF LabelsUpTo, Branches
    <3> QED
      BY <3>1, <3>2
  <2>2. CASE i - Len(a) \in DOMAIN b /\ (i - Len(a)) + Len(a) = i
    <3>1. PICK k \in DOMAIN b : k + Len(a) = i
      BY <2>2
    <3>2. c[i] = b[k]
      BY <1>2, <3>1 DEF Within
    <3> QED
      BY <1>3, <3>2 DEF LabelsUpTo
  <2> QED
    BY <1>2, <2>1, <2>2
<1> QED
  BY <1>1, <1>3 DEF LabelsUpTo

\* A plan goes on where a statement was appended.
LEMMA PlanExtends ==
    ASSUME Code, Generated, NEW needs, Planned(needs), NEW row \in Seq(Entries), icode' = icode \o row,
           NEW more, \A l \in Nat : l <= labels => more[l] = needs[l],
           Flat' => Flat, Flows(row, InView, InView', more, Flat')
    PROVE  Flows(icode', {"p", "g"}, InView', more, Flat')
<1>1. icode \in Seq(Entries) /\ Flat \in BOOLEAN /\ Flat' \in BOOLEAN
  BY DEF Code, WellFormed, Flat
<1>2. Flows(icode, {"p", "g"}, InView, needs, Flat)
  BY DEF Planned
<1>3. \A i \in DOMAIN icode : icode[i].op \in {"label", "goto", "ifFalseGoto"} =>
                                more[icode[i].label] = needs[icode[i].label]
  <2>1. \A i \in DOMAIN icode : icode[i] \in Entries
    BY <1>1
  <2> QED
    BY <2>1, EntryFields DEF Generated, LabelsUpTo, Branches
<1>4. Flows(icode, {"p", "g"}, InView, more, Flat')
  BY <1>1, <1>2, <1>3, FlowRelabel
<1> QED
  BY <1>1, <1>4, FlowJoin

LEMMA StraightOn ==
    ASSUME Code, Generated, NEW row, icode' = icode \o row, open' = open, labels' = labels,
           Scopes', \A k \in DOMAIN open : Visible(k)' = Visible(k), Flat' => Flat,
           \A needs : Straight(row, InView, InView', needs, Flat')
    PROVE  Generated'
<1>1. PICK needs : Planned(needs)
  BY DEF Generated
<1>2. Straight(row, InView, InView', needs, Flat')
  OBVIOUS
<1>3. row \in Seq(Entries) /\ \A i \in DOMAIN row : row[i].op \notin Branches
  BY <1>2 DEF Straight
<1>4. icode \in Seq(Entries) /\ labels \in Nat
  BY DEF Code, WellFormed
<1>5. LabelsUpTo(row, labels)
  BY <1>3 DEF LabelsUpTo
<1>6. LabelsUpTo(icode', labels)
  BY <1>3, <1>4, <1>5, LabelsJoin DEF Generated
<1>7. Flows(icode', {"p", "g"}, InView', needs, Flat')
  BY <1>1, <1>2, <1>3, PlanExtends DEF Straight
<1>8. Planned(needs)'
  BY <1>1, <1>7 DEF Planned
<1> QED
  BY <1>6, <1>8 DEF Generated

------------------------------------------------------------------------------
(***************************************************************************)
(* Scopes through the steps of the compiler.                               *)
(***************************************************************************)
LEMMA InViewAt ==
    ASSUME NEW n \in Nat
    PROVE  /\ n = Len(open) + 1 => InView = Visible(n)
           /\ n = Len(open)' + 1 => InView' = Visible(n)'
BY DEF InView, Visible

LEMMA ScopesStay ==
    ASSUME Scopes, UNCHANGED <<symbols, symbolScope, scopeCounter, scopeStack, open>>
    PROVE  Scopes' /\ InView' = InView /\ (Flat' => Flat) /\ \A k : Visible(k)' = Visible(k)
<1>1. \A k : Visible(k)' = Visible(k)
  BY DEF Visible, Known
<1>2. InView' = InView
  BY DEF InView, Visible, Known
<1>3. Scopes'
  BY DEF Scopes
<1>4. Flat' => Flat
  BY DEF Flat
<1> QED
  BY <1>1, <1>2, <1>3, <1>4

LEMMA ScopesDeclare ==
    ASSUME Scopes, Len(open) \in Nat, NEW s \in Local, s \notin symbols, createLocal(s),
           UNCHANGED <<scopeCounter, scopeStack, open>>
    PROVE  /\ Scopes' /\ InView' = InView \cup {s} /\ (Flat' => Flat)
           /\ \A k \in 1 .. Len(open) : Visible(k)' = Visible(k)
<1>1. PICK n \in Nat : n = Len(open) + 1
  OBVIOUS
<1>2. n = Len(scopeStack) /\ n = Len(open') + 1 /\ \A j \in 1 .. n : scopeStack'[j] = scopeStack[j]
  BY <1>1 DEF Scopes
<1>3. /\ \A k \in 1 .. n - 1 : Visible(k)' = Visible(k)
      /\ Visible(n)' = Visible(n) \cup {s}
      /\ DOMAIN symbolScope' = symbols' \cup {"p"} /\ symbolScope'["p"] = 0
      /\ \A v \in DOMAIN symbolScope' : symbolScope'[v] \in Nat /\ symbolScope'[v] <= scopeCounter
      /\ Flat' => Flat
  BY <1>2, Declares
<1>4. Scopes'
  BY <1>3 DEF Scopes
<1>5. InView = Visible(n) /\ InView' = Visible(n)'
  BY <1>1, <1>2, InViewAt
<1> QED
  BY <1>1, <1>3, <1>4, <1>5

LEMMA ScopesEnter ==
    ASSUME Scopes, NEW n \in Nat, n = Len(open) + 1, n > 1, Len(open') = n,
           scopeCounter' = scopeCounter + 1, scopeStack' = Append(scopeStack, scopeCounter + 1),
           DOMAIN symbolScope' = symbols' \cup {"p"}, symbolScope'["p"] = 0,
           \A v \in DOMAIN symbolScope' : symbolScope'[v] <= scopeCounter /\ symbolScope'[v] \in Nat
    PROVE  Scopes' /\ InView' = Visible(n)'
<1>1. n = Len(scopeStack) /\ scopeCounter \in Nat /\ scopeStack \in Seq(Nat)
  BY DEF Scopes
<1>2. /\ \A j \in 1 .. n : scopeStack'[j] = scopeStack[j]
      /\ scopeStack' \in Seq(Nat) /\ Len(scopeStack') = n + 1
      /\ scopeStack'[n + 1] = scopeCounter + 1
      /\ Visible(n + 1)' = Visible(n)'
  BY <1>1, Opens
<1>3. InView' = Visible(n + 1)'
  BY InViewAt
<1>4. \A j \in 1 .. n + 1 : j \in 1 .. n \/ j = n + 1
  OBVIOUS
<1>5. \A i \in 1 .. n : scopeStack[i] \in Nat /\ scopeStack[i] <= scopeCounter /\ scopeStack'[i] = scopeStack[i]
  BY <1>1, <1>2 DEF Scopes
<1>6. \A i, j \in 1 .. n : scopeStack[i] = scopeStack[j] => i = j
  BY <1>1 DEF Scopes
<1>7. scopeStack'[1] = 0 /\ scopeStack'[2] = 1
  <2>1. 1 \in 1 .. n /\ 2 \in 1 .. n
    OBVIOUS
  <2> QED
    BY <1>2, <2>1 DEF Scopes
<1>8. \A i, j \in 1 .. n + 1 : scopeStack'[i] = scopeStack'[j] => i = j
  BY <1>1, <1>2, <1>4, <1>5, <1>6
<1>9. \A i \in 1 .. n + 1 : scopeStack'[i] <= scopeCounter'
  BY <1>1, <1>2, <1>4, <1>5
<1>10. \A v \in DOMAIN symbolScope' : symbolScope'[v] \in Nat /\ symbolScope'[v] <= scopeCounter'
  BY <1>1
<1> QED
  BY <1>1, <1>2, <1>3, <1>7, <1>8, <1>9, <1>10 DEF Scopes

LEMMA ScopesLeave ==
    ASSUME Scopes, NEW n \in Nat, n = Len(open), n > 1, scopeStack' = Front(scopeStack), Len(open') = n - 1,
           UNCHANGED <<symbols, symbolScope, scopeCounter>>
    PROVE  /\ Scopes' /\ InView' = Visible(n) /\ (Flat' => Flat) /\ Visible(n) \subseteq InView
           /\ \A k \in 1 .. n : Visible(k)' = Visible(k)
<1>1. scopeStack \in Seq(Nat) /\ Len(scopeStack) = n + 1 /\ scopeStack # <<>>
  BY DEF Scopes
<1>0. PICK f : f = Front(scopeStack)
  OBVIOUS
<1>2. /\ scopeStack' \in Seq(Nat) /\ Len(scopeStack') = n
      /\ \A j \in 1 .. n : scopeStack'[j] = scopeStack[j]
  <2>1. f \in Seq(Nat) /\ Len(f) = Len(scopeStack) - 1 /\ \A j \in 1 .. Len(scopeStack) - 1 : f[j] = scopeStack[j]
    BY <1>0, <1>1, FrontFacts
  <2> QED
    BY <1>0, <1>1, <2>1
<1>3. ASSUME NEW k \in 1 .. n PROVE Visible(k)' = Visible(k)
  <2>1. \A j \in 1 .. k : scopeStack'[j] = scopeStack[j]
    BY <1>2
  <2> QED
    BY <2>1 DEF Visible, Known
<1>4. 1 .. n \subseteq 1 .. n + 1 /\ n \in 1 .. n /\ 1 \in 1 .. n /\ 2 \in 1 .. n
  OBVIOUS
<1>5. Scopes'
  <2>1. /\ scopeStack[1] = 0 /\ scopeStack[2] = 1 /\ scopeCounter \in Nat
        /\ \A i, j \in 1 .. n + 1 : scopeStack[i] = scopeStack[j] => i = j
        /\ \A i \in 1 .. n + 1 : scopeStack[i] <= scopeCounter
    BY <1>1 DEF Scopes
  <2>2. /\ scopeStack'[1] = 0 /\ scopeStack'[2] = 1
        /\ \A i, j \in 1 .. n : scopeStack'[i] = scopeStack'[j] => i = j
        /\ \A i \in 1 .. n : scopeStack'[i] <= scopeCounter
    BY <1>2, <1>4, <2>1
  <2>3. /\ DOMAIN symbolScope' = symbols' \cup {"p"} /\ symbolScope'["p"] = 0
        /\ \A v \in DOMAIN symbolScope' : symbolScope'[v] \in Nat /\ symbolScope'[v] <= scopeCounter
    BY DEF Scopes
  <2> QED
    BY <1>2, <2>1, <2>2, <2>3 DEF Scopes
<1>6. InView' = Visible(n)'
  BY InViewAt
<1>7. Visible(n) \subseteq InView
  BY <1>4 DEF InView, Visible
<1>8. Flat' => Flat
  BY DEF Flat
<1> QED
  BY <1>3, <1>4, <1>5, <1>6, <1>7, <1>8

LEMMA ScopesSwitch ==
    ASSUME Scopes, NEW n \in Nat, n = Len(open), n > 1, Len(open') = n,
           scopeStack' = Append(Front(scopeStack), scopeCounter + 1), scopeCounter' = scopeCounter + 1,
           UNCHANGED <<symbols, symbolScope>>
    PROVE  /\ Scopes' /\ InView' = Visible(n) /\ (Flat' => Flat) /\ Visible(n) \subseteq InView
           /\ \A k \in 1 .. n : Visible(k)' = Visible(k)
<1>1. /\ scopeStack \in Seq(Nat) /\ Len(scopeStack) = n + 1 /\ scopeStack # <<>> /\ scopeCounter \in Nat
      /\ \A i \in 1 .. n + 1 : scopeStack[i] \in Nat /\ scopeStack[i] <= scopeCounter
      /\ \A i, j \in 1 .. n + 1 : scopeStack[i] = scopeStack[j] => i = j
      /\ scopeStack[1] = 0 /\ scopeStack[2] = 1
  BY DEF Scopes
<1>2. PICK f : f = Front(scopeStack)
  OBVIOUS
<1>3. f \in Seq(Nat) /\ Len(f) = n /\ \A j \in 1 .. n : f[j] = scopeStack[j]
  <2>1. f \in Seq(Nat) /\ Len(f) = Len(scopeStack) - 1 /\ \A j \in 1 .. Len(scopeStack) - 1 : f[j] = scopeStack[j]
    BY <1>1, <1>2, FrontFacts
  <2> QED
    BY <1>1, <2>1
<1>4. /\ scopeStack' \in Seq(Nat) /\ Len(scopeStack') = n + 1 /\ scopeStack'[n + 1] = scopeCounter + 1
      /\ \A j \in 1 .. n : scopeStack'[j] = scopeStack[j]
  BY <1>1, <1>2, <1>3
<1>5. ASSUME NEW k \in 1 .. n PROVE Visible(k)' = Visible(k)
  <2>1. \A j \in 1 .. k : scopeStack'[j] = scopeStack[j]
    BY <1>4
  <2> QED
    BY <2>1 DEF Visible, Known
<1>6. /\ 1 .. n \subseteq 1 .. n + 1 /\ n \in 1 .. n /\ 1 \in 1 .. n /\ 2 \in 1 .. n
      /\ \A j \in 1 .. n + 1 : j \in 1 .. n \/ j = n + 1
  OBVIOUS
<1>7. /\ \A i \in 1 .. n + 1 : scopeStack'[i] <= scopeCounter'
      /\ \A i, j \in 1 .. n + 1 : scopeStack'[i] = scopeStack'[j] => i = j
      /\ scopeStack'[1] = 0 /\ scopeStack'[2] = 1
  BY <1>1, <1>4, <1>6, SMTT(30)
<1>8. /\ DOMAIN symbolScope' = symbols' \cup {"p"} /\ symbolScope'["p"] = 0
      /\ \A v \in DOMAIN symbolScope' : symbolScope'[v] \in Nat /\ symbolScope'[v] <= scopeCounter
  BY DEF Scopes
<1>9. Scopes'
  BY <1>1, <1>4, <1>7, <1>8, SMTT(30) DEF Scopes
<1>10. InView' = Visible(n)'
  <2>1. InView' = Visible(n + 1)'
    BY InViewAt
  <2>2. \A v \in DOMAIN symbolScope' : symbolScope'[v] # scopeStack'[n + 1]
    BY <1>1, <1>4, <1>8
  <2>3. Visible(n + 1)' = Visible(n)'
    BY <1>6, <2>2 DEF Visible
  <2> QED
    BY <2>1, <2>3
<1>11. Visible(n) \subseteq InView
  BY <1>6 DEF InView, Visible
<1>12. Flat' => Flat
  BY DEF Flat
<1> QED
  BY <1>5, <1>6, <1>9, <1>10, <1>11, <1>12

------------------------------------------------------------------------------
(***************************************************************************)
(* Every statement keeps the plan.                                         *)
(***************************************************************************)
LEMMA ReadableInView ==
    ASSUME Scopes, Code, NEW u, u.var \in Variable \cup {"callee"}, u.var = "callee" => u = Whole("callee"),
           CanRead(u)
    PROVE  u = Whole("callee") \/ u.var \in InView
<1>1. InView = {v \in Variable : Known(v) /\ InScope(v)}
  BY InViewIsReadable
<1> QED
  BY <1>1 DEF CanRead

LEMMA LocalPlan ==
    ASSUME Code, Generated, Whole("self") \notin Readable, NEW s \in Local, local(s), ~ Reject
    PROVE  Generated'
<1>1. /\ s \notin symbols /\ createLocal(s) /\ symbols \subseteq Local /\ Len(open) \in Nat
      /\ UNCHANGED <<scopeCounter, scopeStack, open, labels>>
  BY TopBlock DEF local, Code
<1>2. Scopes
  BY DEF Generated
<1>3. /\ Scopes' /\ InView' = InView \cup {s} /\ (Flat' => Flat)
      /\ \A k \in DOMAIN open : Visible(k)' = Visible(k)
  <2>1. DOMAIN open = 1 .. Len(open)
    BY DEF Code
  <2> QED
    BY <1>1, <1>2, <2>1, ScopesDeclare
<1>4. InView \in SUBSET Named
  BY <1>2, InViewIsReadable
<1>5. CASE Emit(<<NullInit(s)>>)
  <2>1. PICK row : row = <<NullInit(s)>>
    OBVIOUS
  <2>2. \A needs : Straight(row, InView, InView', needs, Flat')
    BY <1>3, <1>4, <2>1, NullInitFlows
  <2>3. icode' = icode \o row
    BY <1>5, <2>1 DEF Emit
  <2> QED
    BY <1>1, <1>3, <2>2, <2>3, StraightOn
<1>6. ASSUME NEW src \in Wholes, src = Whole(s) \/ CanRead(src),
             Emit(<<NullInit(s)>> \o Evaluate(src) \o unitCopy(Whole(s), src))
      PROVE  Generated'
  <2>1. src \in Copied /\ (src.var = "callee" => src = Whole("callee"))
    BY <1>1, <1>6, Reads DEF Wholes
  <2>2. src = Whole("callee") \/ src.var \in InView \cup {s}
    <3>1. CASE src = Whole(s)
      BY <3>1 DEF Whole
    <3>2. CASE CanRead(src)
      BY <1>2, <2>1, <3>2, ReadableInView DEF Copied
    <3> QED
      BY <1>6, <3>1, <3>2
  <2>3. PICK row : row = <<NullInit(s)>> \o Evaluate(src) \o unitCopy(Whole(s), src)
    OBVIOUS
  <2>4. \A needs : Straight(row, InView, InView', needs, Flat')
    BY <1>3, <1>4, <2>1, <2>2, <2>3, InitialisedFlows
  <2>5. icode' = icode \o row
    BY <1>6, <2>3 DEF Emit
  <2> QED
    BY <1>1, <1>3, <2>4, <2>5, StraightOn
<1> QED
  BY <1>1, <1>5, <1>6 DEF local, Reject, genVars

LEMMA WalrusPlan ==
    ASSUME Code, Generated, Whole("self") \notin Readable, NEW s \in Local, NEW src \in Wholes,
           walrusLocal(s, src), ~ Reject
    PROVE  Generated'
<1>1. /\ s \notin symbols /\ createLocal(s) /\ symbols \subseteq Local /\ Len(open) \in Nat
      /\ UNCHANGED <<scopeCounter, scopeStack, open, labels>> /\ CanRead(src)
  BY TopBlock DEF walrusLocal, Code
<1>2. icode' = icode \o (Evaluate(src) \o <<NullInit(s)>> \o unitCopy(Whole(s), src))
  BY DEF walrusLocal, Emit, Reject, genVars
<1>3. Scopes
  BY DEF Generated
<1>4. /\ Scopes' /\ InView' = InView \cup {s} /\ (Flat' => Flat)
      /\ \A k \in DOMAIN open : Visible(k)' = Visible(k)
  <2>1. DOMAIN open = 1 .. Len(open)
    BY DEF Code
  <2> QED
    BY <1>1, <1>3, <2>1, ScopesDeclare
<1>5. InView \in SUBSET Named
  BY <1>3, InViewIsReadable
<1>6. src \in Copied /\ (src.var = "callee" => src = Whole("callee"))
  BY <1>1, Reads DEF Wholes
<1>7. src = Whole("callee") \/ src.var \in InView
  BY <1>1, <1>3, <1>6, ReadableInView DEF Copied
<1>8. PICK row : row = Evaluate(src) \o <<NullInit(s)>> \o unitCopy(Whole(s), src)
  OBVIOUS
<1>9. \A needs : Straight(row, InView, InView', needs, Flat')
  BY <1>4, <1>5, <1>6, <1>7, <1>8, WalrusFlows
<1>10. icode' = icode \o row
  BY <1>2, <1>8
<1> QED
  BY <1>1, <1>4, <1>9, <1>10, StraightOn

LEMMA AssignmentPlan ==
    ASSUME Code, Generated, Whole("self") \notin Readable, Whole("p") \notin Targets,
           NEW dst \in Targets, NEW src \in Readable, assignment(dst, src), ~ Reject
    PROVE  Generated'
<1>1. /\ symbols \subseteq Local /\ CanRead(dst) /\ CanRead(src)
      /\ UNCHANGED <<symbols, symbolScope, scopeCounter, scopeStack, open, labels>>
  BY DEF assignment, Code
<1>2. icode' = icode \o (Evaluate(src) \o unitCopy(dst, src))
  BY DEF assignment, Emit, Reject, genVars
<1>3. Scopes
  BY DEF Generated
<1>4. Scopes' /\ InView' = InView /\ (Flat' => Flat) /\ \A k \in DOMAIN open : Visible(k)' = Visible(k)
  BY <1>1, <1>3, ScopesStay
<1>5. InView \in SUBSET Named
  BY <1>3, InViewIsReadable
<1>6. src \in Copied /\ (src.var = "callee" => src = Whole("callee"))
  BY <1>1, Reads
<1>7. src = Whole("callee") \/ src.var \in InView
  BY <1>1, <1>3, <1>6, ReadableInView DEF Copied
<1>8. dst \in Overwritten /\ dst.var \in Variable /\ "callee" \notin Variable
  BY SourceNamesVariables, LocalOrderIsLocal DEF Overwritten, Variable
<1>9. dst.var \in InView
  BY <1>1, <1>3, <1>8, ReadableInView DEF Whole
<1>10. PICK row : row = Evaluate(src) \o unitCopy(dst, src)
  OBVIOUS
<1>11. \A needs : Straight(row, InView, InView', needs, Flat')
  BY <1>4, <1>5, <1>6, <1>7, <1>8, <1>9, <1>10, AssignmentFlows
<1>12. icode' = icode \o row
  BY <1>2, <1>10
<1> QED
  BY <1>1, <1>4, <1>11, <1>12, StraightOn

LEMMA ReturnPlan ==
    ASSUME Code, Generated, NEW v \in Variable \cup {"callee"}, functionReturn(Whole(v)), ~ Reject
    PROVE  Generated'
<1>1. /\ symbols \subseteq Local
      /\ isVoid \/ CanRead(Whole(v))
      /\ UNCHANGED <<symbols, symbolScope, scopeCounter, scopeStack, open, labels>>
  BY DEF functionReturn, Code
<1>2. PICK row : row = (IF isVoid THEN <<>> ELSE Evaluate(Whole(v)) \o unitCopy(Whole("return"), Whole(v)))
                         \o createReturnAndCallDeconstructors
  OBVIOUS
<1>3. icode' = icode \o row
  BY <1>2 DEF functionReturn, Emit, Reject, genVars
<1>4. Scopes
  BY DEF Generated
<1>5. Scopes' /\ InView' = InView /\ (Flat' => Flat) /\ \A k \in DOMAIN open : Visible(k)' = Visible(k)
  BY <1>1, <1>4, ScopesStay
<1>6. InView \in SUBSET Named /\ (Flat' => symbols \subseteq InView)
  BY <1>4, <1>5, InViewIsReadable
<1>7. isVoid \/ v = "callee" \/ v \in InView
  <2>1. PICK u : u = Whole(v)
    OBVIOUS
  <2>2. u.var = v /\ (v = "callee" => u = Whole("callee"))
    BY <2>1 DEF Whole
  <2>3. CASE CanRead(u)
    BY <1>4, <2>1, <2>2, <2>3, ReadableInView DEF Whole
  <2> QED
    BY <1>1, <2>1, <2>3
<1>8. \A needs : Straight(row, InView, InView', needs, Flat')
  BY <1>1, <1>2, <1>5, <1>6, <1>7, ReturnsFlows
<1> QED
  BY <1>1, <1>3, <1>5, <1>8, StraightOn

\* A new block: its own labels need what is in view where it begins, and the
\* labels of the loop around it need less.
LEMMA EnterPlan ==
    ASSUME Code, Generated, NEW row \in Seq(Entries), icode' = icode \o row, NEW b \in Blocks,
           open' = Append(open, b), Scopes', Flat' => Flat, \A k \in DOMAIN open : Visible(k)' = Visible(k),
           labels' \in Nat, labels <= labels', LabelsUpTo(row, labels'),
           \A i \in DOMAIN b.exits : labels < b.exits[i] /\ b.exits[i] <= labels',
           \/ b.breakLabel \in labels + 1 .. labels' /\ b.continueLabel \in labels + 1 .. labels'
           \/ /\ b.inLoop = Top.inLoop
              /\ b.breakLabel = Top.breakLabel /\ b.continueLabel = Top.continueLabel,
           NEW V \in SUBSET Named, InView' = V, \A n : n = Len(open) + 1 => Visible(n)' = V,
           \A needs : (\A l \in labels + 1 .. labels' : needs[l] = V) => Flows(row, InView, V, needs, Flat')
    PROVE  Generated'
<1>1. PICK needs : Planned(needs)
  BY DEF Generated
<1>2. labels \in Nat /\ icode \in Seq(Entries) /\ open \in Seq(Blocks) /\ needs \in [Nat -> SUBSET Named]
  BY <1>1 DEF Code, WellFormed, Planned
<1>3. PICK n \in Nat : n = Len(open)
  BY <1>2
<1>4. /\ n > 0 /\ Top = open[n] /\ n \in DOMAIN open /\ Top \in Blocks /\ DOMAIN open = 1 .. n
      /\ DOMAIN open' = 1 .. n + 1 /\ open'[n + 1] = b /\ \A k \in 1 .. n : open'[k] = open[k]
  BY <1>2, <1>3, TopBlock
<1>5. PICK more : more = [l \in Nat |-> IF l <= labels THEN needs[l] ELSE V]
  OBVIOUS
<1>6. /\ more \in [Nat -> SUBSET Named]
      /\ \A l \in Nat : l <= labels => more[l] = needs[l]
      /\ \A l \in Nat : labels < l => more[l] = V
  BY <1>2, <1>5
<1>7. Flows(row, InView, V, more, Flat')
  <2>1. \A l \in labels + 1 .. labels' : more[l] = V
    BY <1>2, <1>6
  <2> QED
    BY <2>1
<1>8. Flows(icode', {"p", "g"}, InView', more, Flat')
  BY <1>1, <1>6, <1>7, PlanExtends
<1>9. Visible(n)' = Visible(n) /\ Visible(n + 1)' = V /\ Visible(n)' \subseteq Visible(n + 1)'
  <2>1. 1 .. n \subseteq 1 .. n + 1
    BY <1>3
  <2>2. Visible(n)' \subseteq Visible(n + 1)'
    BY <2>1 DEF Visible
  <2> QED
    BY <1>3, <1>4, <2>2
<1>10. \A k \in 1 .. n : BlockUpTo(open[k], labels) /\ Expects(open[k], Visible(k), needs) /\ open[k] \in Blocks
  <2>1. \A k \in 1 .. n : BlockUpTo(open[k], labels)
    BY <1>4 DEF Generated
  <2>2. \A k \in 1 .. n : Expects(open[k], Visible(k), needs)
    BY <1>1, <1>4 DEF Planned
  <2>3. \A k \in 1 .. n : open[k] \in Blocks
    BY <1>2, <1>4
  <2> QED
    BY <2>1, <2>2, <2>3
<1>11. Expects(b, V, more)
  <2>1. \A i \in DOMAIN b.exits : more[b.exits[i]] = V
    <3>1. \A i \in DOMAIN b.exits : b.exits[i] \in Nat
      BY DEF Blocks
    <3> QED
      BY <1>6, <3>1
  <2>2. ASSUME b.inLoop PROVE more[b.breakLabel] \subseteq V /\ more[b.continueLabel] \subseteq V
    <3>1. b.breakLabel \in Nat /\ b.continueLabel \in Nat
      BY DEF Blocks
    <3>2. CASE b.breakLabel \in labels + 1 .. labels' /\ b.continueLabel \in labels + 1 .. labels'
      <4>1. labels < b.breakLabel /\ labels < b.continueLabel
        BY <1>2, <3>2
      <4>2. more[b.breakLabel] = V /\ more[b.continueLabel] = V
        BY <1>6, <3>1, <4>1
      <4> QED
        BY <4>2
    <3>3. CASE b.inLoop = Top.inLoop /\ b.breakLabel = Top.breakLabel /\ b.continueLabel = Top.continueLabel
      <4>1. Top.breakLabel <= labels /\ Top.continueLabel <= labels
        BY <1>4, <1>10 DEF BlockUpTo
      <4>2. needs[Top.breakLabel] \subseteq Visible(n) /\ needs[Top.continueLabel] \subseteq Visible(n)
        BY <1>4, <1>10, <2>2, <3>3 DEF Expects
      <4> QED
        BY <1>6, <1>9, <3>1, <3>3, <4>1, <4>2, SMTT(30)
    <3> QED
      BY <3>2, <3>3
  <2> QED
    BY <2>1, <2>2 DEF Expects
<1>12. ASSUME NEW k \in 1 .. n PROVE Expects(open[k], Visible(k), more)
  <2>1. BlockUpTo(open[k], labels) /\ Expects(open[k], Visible(k), needs) /\ open[k] \in Blocks
    BY <1>10
  <2>2. \A i \in DOMAIN open[k].exits : open[k].exits[i] \in Nat
    BY <2>1, SMTT(30) DEF Blocks
  <2>3. open[k].breakLabel \in Nat /\ open[k].continueLabel \in Nat
    BY <2>1 DEF Blocks
  <2> QED
    BY <1>6, <2>1, <2>2, <2>3 DEF Expects, BlockUpTo
<1>13. \A k \in DOMAIN open' : Expects(open'[k], Visible(k)', more)
  <2> TAKE k \in DOMAIN open'
  <2>1. CASE k \in 1 .. n
    BY <1>4, <1>12, <2>1
  <2>2. CASE k = n + 1
    BY <1>4, <1>9, <1>11, <2>2
  <2> QED
    BY <1>3, <1>4, <2>1, <2>2
<1>14. Planned(more)'
  BY <1>6, <1>8, <1>13 DEF Planned
<1>15. \A k \in DOMAIN open' : BlockUpTo(open'[k], labels')
  <2>1. ASSUME NEW k \in 1 .. n PROVE BlockUpTo(open[k], labels')
    <3>1. open[k] \in Blocks /\ BlockUpTo(open[k], labels)
      BY <1>10
    <3>2. /\ open[k].breakLabel \in Nat /\ open[k].continueLabel \in Nat
          /\ \A i \in DOMAIN open[k].exits : open[k].exits[i] \in Nat
      BY <3>1, SMTT(30) DEF Blocks
    <3> QED
      BY <1>2, <3>1, <3>2, SMTT(30) DEF BlockUpTo
  <2>2. BlockUpTo(b, labels')
    <3>1. b.breakLabel \in Nat /\ b.continueLabel \in Nat
      BY DEF Blocks
    <3>2. CASE b.breakLabel \in labels + 1 .. labels' /\ b.continueLabel \in labels + 1 .. labels'
      BY <3>2 DEF BlockUpTo
    <3>3. CASE b.inLoop = Top.inLoop /\ b.breakLabel = Top.breakLabel /\ b.continueLabel = Top.continueLabel
      BY <1>2, <1>4, <1>10, <3>1, <3>3 DEF BlockUpTo
    <3> QED
      BY <3>2, <3>3
  <2> TAKE k \in DOMAIN open'
  <2> QED
    BY <1>3, <1>4, <2>1, <2>2
<1>16. LabelsUpTo(icode', labels')
  BY <1>2, LabelsJoin DEF Generated
<1> QED
  BY <1>14, <1>15, <1>16 DEF Generated

\* A block that declares nothing.
LEMMA ScopesEntered ==
    ASSUME Code, Scopes, NEW b \in Blocks, open' = Append(open, b),
           scopeCounter' = scopeCounter + 1, scopeStack' = Append(scopeStack, scopeCounter + 1),
           symbols' = symbols, symbolScope' = symbolScope
    PROVE  /\ Scopes' /\ InView' = InView /\ InView \in SUBSET Named /\ (Flat' => Flat)
           /\ \A m : m = Len(open) + 1 => Visible(m)' = InView
           /\ \A k \in DOMAIN open : Visible(k)' = Visible(k)
<1>1. PICK n \in Nat : n = Len(open) + 1 /\ n > 1
  BY TopBlock
<1>2. /\ n = Len(scopeStack) /\ Len(open') = n /\ DOMAIN open = 1 .. n - 1 /\ n \in 1 .. n
      /\ scopeCounter \in Nat /\ scopeStack \in Seq(Nat)
  BY <1>1 DEF Scopes, Code
<1>3. Scopes' /\ InView' = Visible(n)'
  <2>1. /\ DOMAIN symbolScope' = symbols' \cup {"p"} /\ symbolScope'["p"] = 0
        /\ \A v \in DOMAIN symbolScope' : symbolScope'[v] <= scopeCounter /\ symbolScope'[v] \in Nat
    BY DEF Scopes
  <2> QED
    BY <1>1, <1>2, <2>1, ScopesEnter
<1>4. ASSUME NEW k \in 1 .. n PROVE Visible(k)' = Visible(k)
  <2>1. \A j \in 1 .. k : scopeStack'[j] = scopeStack[j]
    BY <1>2
  <2> QED
    BY <2>1 DEF Visible, Known
<1>5. InView = Visible(n) /\ InView \in SUBSET Named
  BY <1>1, InViewAt, InViewIsReadable
<1>6. Flat' => Flat
  BY DEF Flat
<1>7. \A k \in DOMAIN open : Visible(k)' = Visible(k)
  BY <1>1, <1>2, <1>4
<1> QED
  BY <1>1, <1>2, <1>3, <1>4, <1>5, <1>6, <1>7

LEMMA IfPlan ==
    ASSUME Code, Generated, ifStatement
    PROVE  Generated'
<1>1. PICK e, b : /\ e = IfFalseGoto(labels + 2)
                  /\ b = Block("if", Top.inLoop, Top.breakLabel, Top.continueLabel, <<labels + 2, labels + 1>>)
  OBVIOUS
<1>2. labels \in Nat /\ labels + 2 \in Nat /\ Top \in Blocks /\ Scopes
  BY TopBlock DEF Code, Generated
<1>3. e \in Entries /\ e.op = "ifFalseGoto" /\ e.label = labels + 2
  BY <1>1, <1>2, LabelEntries
<1>4. /\ icode' = icode \o <<e>> /\ labels' = labels + 2 /\ open' = Append(open, b)
      /\ scopeCounter' = scopeCounter + 1 /\ scopeStack' = Append(scopeStack, scopeCounter + 1)
      /\ symbols' = symbols /\ symbolScope' = symbolScope
  BY <1>1 DEF ifStatement, Emit, EnterBlock
<1>5. /\ b \in Blocks /\ b.inLoop = Top.inLoop /\ b.breakLabel = Top.breakLabel
      /\ b.continueLabel = Top.continueLabel
      /\ \A i \in DOMAIN b.exits : labels < b.exits[i] /\ b.exits[i] <= labels + 2
  BY <1>1, <1>2 DEF Block, Blocks, Kinds
<1>6. /\ Scopes' /\ InView' = InView /\ InView \in SUBSET Named /\ (Flat' => Flat)
      /\ \A m : m = Len(open) + 1 => Visible(m)' = InView
      /\ \A k \in DOMAIN open : Visible(k)' = Visible(k)
  BY <1>2, <1>4, <1>5, ScopesEntered
<1>7. PICK row : row = <<e>>
  OBVIOUS
<1>8. row \in Seq(Entries) /\ DOMAIN row = {1} /\ row[1] = e
  BY <1>3, <1>7
<1>9. LabelsUpTo(row, labels')
  BY <1>2, <1>3, <1>4, <1>8 DEF LabelsUpTo
<1>10. \A needs : (\A l \in labels + 1 .. labels' : needs[l] = InView) => Flows(row, InView, InView, needs, Flat')
  <2> TAKE needs
  <2> HAVE \A l \in labels + 1 .. labels' : needs[l] = InView
  <2>1. needs[labels + 2] = InView
    BY <1>2, <1>4
  <2> QED
    BY <1>3, <1>6, <1>8, <2>1, BranchFlows
<1>11. labels' \in Nat /\ labels <= labels' /\ icode' = icode \o row
       /\ \A i \in DOMAIN b.exits : labels < b.exits[i] /\ b.exits[i] <= labels'
  BY <1>2, <1>4, <1>5, <1>7
<1> QED
  BY <1>4, <1>5, <1>6, <1>8, <1>9, <1>10, <1>11, EnterPlan

LEMMA LoopPlan ==
    ASSUME Code, Generated, NEW kind \in {"while", "do", "loop"}, loopStatement(kind)
    PROVE  Generated'
<1>1. PICK e, t, b : /\ e = CreateLabel(labels + 1) /\ t = IfFalseGoto(labels + 2)
                     /\ b = Block(kind, TRUE, labels + 2, labels + 1, <<labels + 1, labels + 2>>)
  OBVIOUS
<1>2. labels \in Nat /\ labels + 1 \in Nat /\ labels + 2 \in Nat /\ Scopes
  BY DEF Code, Generated
<1>3. /\ e \in Entries /\ e.op = "label" /\ e.label = labels + 1
      /\ t \in Entries /\ t.op = "ifFalseGoto" /\ t.label = labels + 2
  BY <1>1, <1>2, LabelEntries
<1>4. PICK row : row = <<e>> \o (IF kind = "while" THEN <<t>> ELSE <<>>)
  OBVIOUS
<1>5. /\ icode' = icode \o row /\ labels' = labels + 2 /\ open' = Append(open, b)
      /\ scopeCounter' = scopeCounter + 1 /\ scopeStack' = Append(scopeStack, scopeCounter + 1)
      /\ symbols' = symbols /\ symbolScope' = symbolScope
  BY <1>1, <1>4 DEF loopStatement, Emit, EnterBlock
<1>6. /\ b \in Blocks /\ b.breakLabel = labels + 2 /\ b.continueLabel = labels + 1
      /\ \A i \in DOMAIN b.exits : labels < b.exits[i] /\ b.exits[i] <= labels + 2
  BY <1>1, <1>2 DEF Block, Blocks, Kinds
<1>7. /\ Scopes' /\ InView' = InView /\ InView \in SUBSET Named /\ (Flat' => Flat)
      /\ \A m : m = Len(open) + 1 => Visible(m)' = InView
      /\ \A k \in DOMAIN open : Visible(k)' = Visible(k)
  BY <1>2, <1>5, <1>6, ScopesEntered
<1>8. row \in Seq(Entries) /\ \A i \in DOMAIN row : row[i] = e \/ row[i] = t
  <2>1. CASE kind = "while"
    <3>1. row = <<e, t>>
      BY <1>3, <1>4, <2>1, Pair
    <3> QED
      BY <1>3, <3>1
  <2>2. CASE kind # "while"
    <3>1. row = <<e>>
      BY <1>4, <2>2
    <3> QED
      BY <1>3, <3>1
  <2> QED
    BY <2>1, <2>2
<1>9. LabelsUpTo(row, labels')
  <2>1. e.label <= labels' /\ t.label <= labels'
    BY <1>2, <1>3, <1>5
  <2> QED
    BY <1>8, <2>1 DEF LabelsUpTo
<1>10. \A needs : (\A l \in labels + 1 .. labels' : needs[l] = InView) => Flows(row, InView, InView, needs, Flat')
  <2> TAKE needs
  <2> HAVE \A l \in labels + 1 .. labels' : needs[l] = InView
  <2>1. needs[labels + 1] = InView /\ needs[labels + 2] = InView
    BY <1>2, <1>5
  <2> QED
    BY <1>3, <1>7, <1>8, <2>1, BranchFlows
<1>11. labels' \in Nat /\ labels <= labels'
       /\ \A i \in DOMAIN b.exits : labels < b.exits[i] /\ b.exits[i] <= labels'
  BY <1>2, <1>5, <1>6
<1>12. b.breakLabel \in labels + 1 .. labels' /\ b.continueLabel \in labels + 1 .. labels'
  BY <1>2, <1>5, <1>6
<1> QED
  BY <1>5, <1>6, <1>7, <1>8, <1>9, <1>10, <1>11, <1>12, EnterPlan

\* A block before which a local is declared, in the scope around it.
LEMMA ScopesDeclareEnter ==
    ASSUME Code, Scopes, NEW s \in Local, s \notin symbols, createLocal(s), NEW b \in Blocks,
           open' = Append(open, b), scopeCounter' = scopeCounter + 1,
           scopeStack' = Append(scopeStack, scopeCounter + 1)
    PROVE  /\ Scopes' /\ InView' = InView \cup {s} /\ InView \in SUBSET Named /\ (Flat' => Flat)
           /\ \A m : m = Len(open) + 1 => Visible(m)' = InView \cup {s}
           /\ \A k \in DOMAIN open : Visible(k)' = Visible(k)
<1>1. PICK n \in Nat : n = Len(open) + 1 /\ n > 1
  BY TopBlock
<1>2. /\ n = Len(scopeStack) /\ Len(open') = n /\ DOMAIN open = 1 .. n - 1
      /\ scopeCounter \in Nat /\ scopeStack \in Seq(Nat) /\ symbols \subseteq Local
  BY <1>1 DEF Scopes, Code
<1>3. \A j \in 1 .. n : scopeStack'[j] = scopeStack[j]
  BY <1>2
<1>4. /\ \A k \in 1 .. n - 1 : Visible(k)' = Visible(k)
      /\ Visible(n)' = Visible(n) \cup {s}
      /\ DOMAIN symbolScope' = symbols' \cup {"p"} /\ symbolScope'["p"] = 0
      /\ \A v \in DOMAIN symbolScope' : symbolScope'[v] \in Nat /\ symbolScope'[v] <= scopeCounter
      /\ Flat' => Flat
  BY <1>2, <1>3, Declares
<1>5. Scopes' /\ InView' = Visible(n)'
  BY <1>1, <1>2, <1>4, ScopesEnter
<1>6. InView = Visible(n) /\ InView \in SUBSET Named
  BY <1>1, InViewAt, InViewIsReadable
<1> QED
  BY <1>1, <1>2, <1>4, <1>5, <1>6

LEMMA RoundFlows ==
    ASSUME NEW s \in Local, NEW A \in SUBSET Named, NEW l \in Nat, NEW r \in Nat, NEW needs, NEW flat,
           needs[l] = A \cup {s}, needs[r] = A \cup {s}
    PROVE  Flows(<<NullInit(s), CreateLabel(l), IfFalseGoto(r), Call>> \o unitCopy(Whole(s), Whole("callee")),
                 A, A \cup {s}, needs, flat)
<1>1. PICK m, x, y, z : m = NullInit(s) /\ x = CreateLabel(l) /\ y = IfFalseGoto(r) /\ z = Call
  OBVIOUS
<1>2. /\ m \in Entries /\ m.op = "nullInit" /\ m.unit.var = s
      /\ x \in Entries /\ x.op = "label" /\ x.label = l
      /\ y \in Entries /\ y.op = "ifFalseGoto" /\ y.label = r
  BY <1>1, NullInitFits, LabelEntries DEF NullInit, Whole
<1>3. z \in Entries /\ z.op = "call"
  BY <1>1 DEF Entries, Call
<1>4. PICK V, W : V = A \cup {s} /\ W = V \cup {"callee"}
  OBVIOUS
<1>5. V \in SUBSET Named /\ W \in SUBSET Named /\ s \in W /\ "callee" \in W /\ V \subseteq W
  BY <1>4 DEF Named, Variable
<1>6. /\ Passes(m, A, V, needs, flat) /\ Passes(x, V, V, needs, flat)
      /\ Passes(y, V, V, needs, flat) /\ Passes(z, V, W, needs, flat)
  BY <1>2, <1>3, <1>4 DEF Passes, Reading, Initialises
<1>7. PICK c : c = <<m, x, y, z>>
  OBVIOUS
<1>8. /\ c \in Seq(Entries) /\ Len(c) = 4 /\ DOMAIN c = {1, 2, 3, 4}
      /\ c[1] = m /\ c[2] = x /\ c[3] = y /\ c[4] = z
  BY <1>2, <1>3, <1>7
<1> DEFINE At == [i \in 1 .. 5 |-> IF i = 1 THEN A ELSE IF i = 5 THEN W ELSE V]
<1>9. /\ At \in [1 .. 5 -> SUBSET Named]
      /\ At[1] = A /\ At[2] = V /\ At[3] = V /\ At[4] = V /\ At[5] = W
  BY <1>5
<1> HIDE DEF At
<1>10. FlowsBy(At, c, needs, flat)
  BY <1>6, <1>8, <1>9 DEF FlowsBy
<1>11. Flows(c, A, W, needs, flat)
  BY <1>8, <1>9, <1>10 DEF Flows
<1>12. PICK u : u = unitCopy(Whole(s), Whole("callee"))
  OBVIOUS
<1>13. Whole("callee") \in Copied /\ Whole("callee").var = "callee" /\ Whole(s) \in Overwritten /\ Whole(s).var = s
  BY NullInitFits DEF Copied, Whole, Unit, Storage
<1>14. Straight(u, W, W, needs, flat)
  BY <1>5, <1>12, <1>13, CopyFlows
<1>15. u \in Seq(Entries) /\ Flows(u, W, W, needs, flat)
  BY <1>14 DEF Straight
<1>16. Flows(c \o u, A, W, needs, flat)
  BY <1>8, <1>11, <1>15, FlowJoin
<1>17. Flows(c \o u, A, V, needs, flat)
  BY <1>5, <1>16, FlowWeaken
<1> QED
  BY <1>1, <1>4, <1>7, <1>12, <1>17

LEMMA ForEachPlan ==
    ASSUME Code, Generated, NEW s \in Local, forEachLoop(s), ~ Reject
    PROVE  Generated'
<1>1. PICK h, u, b : /\ h = <<NullInit(s), CreateLabel(labels + 1), IfFalseGoto(labels + 2), Call>>
                     /\ u = unitCopy(Whole(s), Whole("callee"))
                     /\ b = Block("forEach", TRUE, labels + 2, labels + 3, <<labels + 3, labels + 1, labels + 2>>)
  OBVIOUS
<1>2. labels \in Nat /\ labels + 1 \in Nat /\ labels + 2 \in Nat /\ labels + 3 \in Nat /\ Scopes
  BY DEF Code, Generated
<1>3. PICK row : row = h \o u
  OBVIOUS
<1>4. /\ icode' = icode \o row /\ labels' = labels + 3 /\ open' = Append(open, b) /\ createLocal(s)
      /\ scopeCounter' = scopeCounter + 1 /\ scopeStack' = Append(scopeStack, scopeCounter + 1)
      /\ s \notin symbols
  BY <1>1, <1>3 DEF forEachLoop, Emit, EnterBlock, Reject, genVars
<1>5. /\ b \in Blocks /\ b.breakLabel = labels + 2 /\ b.continueLabel = labels + 3
      /\ \A i \in DOMAIN b.exits : labels < b.exits[i] /\ b.exits[i] <= labels + 3
  BY <1>1, <1>2 DEF Block, Blocks, Kinds
<1>6. PICK V : V = InView \cup {s}
  OBVIOUS
<1>7. /\ Scopes' /\ InView' = V /\ InView \in SUBSET Named /\ (Flat' => Flat)
      /\ \A m : m = Len(open) + 1 => Visible(m)' = V
      /\ \A k \in DOMAIN open : Visible(k)' = Visible(k)
  BY <1>2, <1>4, <1>5, <1>6, ScopesDeclareEnter
<1>8. V \in SUBSET Named
  BY <1>6, <1>7 DEF Named, Variable
<1>9. PICK m, x, y, z : m = NullInit(s) /\ x = CreateLabel(labels + 1) /\ y = IfFalseGoto(labels + 2) /\ z = Call
  OBVIOUS
<1>10. /\ m \in Entries /\ m.op = "nullInit" /\ x \in Entries /\ x.label = labels + 1
       /\ y \in Entries /\ y.label = labels + 2
  BY <1>2, <1>9, NullInitFits, LabelEntries DEF NullInit
<1>11. z \in Entries /\ z.op = "call"
  BY <1>9 DEF Entries, Call
<1>12. h \in Seq(Entries) /\ \A i \in DOMAIN h : h[i] = m \/ h[i] = x \/ h[i] = y \/ h[i] = z
  <2>1. h = <<m, x, y, z>>
    BY <1>1, <1>9
  <2> QED
    BY <1>10, <1>11, <2>1
<1>13. LabelsUpTo(h, labels')
  <2>1. x.label <= labels' /\ y.label <= labels'
    BY <1>2, <1>4, <1>10
  <2> QED
    BY <1>10, <1>11, <1>12, <2>1 DEF LabelsUpTo, Branches
<1>14. u \in Seq(Entries) /\ LabelsUpTo(u, labels')
  <2>1. Whole("callee") \in Copied /\ Whole(s) \in Overwritten /\ Whole("callee").var \in Named /\ Whole(s).var \in Named
    BY NullInitFits DEF Copied, Whole, Unit, Storage, Named, Variable
  <2>2. \A needs : Straight(u, Named, Named, needs, FALSE)
    BY <1>1, <2>1, CopyFlows
  <2> QED
    BY <2>2 DEF Straight, LabelsUpTo
<1>15. row \in Seq(Entries) /\ LabelsUpTo(row, labels')
  <2>1. labels' \in Nat
    BY <1>2, <1>4
  <2>2. h \o u \in Seq(Entries)
    BY <1>12, <1>14, Joins
  <2> QED
    BY <1>3, <1>12, <1>13, <1>14, <2>1, <2>2, LabelsJoin
<1>16. \A needs : (\A l \in labels + 1 .. labels' : needs[l] = V) => Flows(row, InView, V, needs, Flat')
  <2> TAKE needs
  <2> HAVE \A l \in labels + 1 .. labels' : needs[l] = V
  <2>1. PICK A \in SUBSET Named, l \in Nat, r \in Nat : A = InView /\ l = labels + 1 /\ r = labels + 2
    BY <1>2, <1>7
  <2>2. needs[l] = A \cup {s} /\ needs[r] = A \cup {s}
    BY <1>2, <1>4, <1>6, <2>1
  <2>3. h = <<NullInit(s), CreateLabel(l), IfFalseGoto(r), Call>>
    BY <1>1, <2>1
  <2>4. Flows(h \o u, A, A \cup {s}, needs, Flat')
    BY <1>1, <2>2, <2>3, RoundFlows
  <2> QED
    BY <1>3, <1>6, <2>1, <2>4
<1>17. labels' \in Nat /\ labels <= labels'
       /\ \A i \in DOMAIN b.exits : labels < b.exits[i] /\ b.exits[i] <= labels'
  BY <1>2, <1>4, <1>5
<1>18. b.breakLabel \in labels + 1 .. labels' /\ b.continueLabel \in labels + 1 .. labels'
  BY <1>2, <1>4, <1>5
<1> QED
  BY <1>4, <1>5, <1>7, <1>8, <1>15, <1>16, <1>17, <1>18, EnterPlan

\* Labels and jumps of the blocks that are open, when no block is entered.
LEMMA BranchPlan ==
    ASSUME Code, Generated, NEW row \in Seq(Entries), icode' = icode \o row, labels' = labels,
           Scopes', Flat' => Flat, InView' \subseteq InView, InView' \in SUBSET Named,
           \A i \in DOMAIN row : row[i].op \in Branches /\ row[i].label <= labels,
           \A needs : Planned(needs) =>
             /\ \A i \in DOMAIN row : IF row[i].op = "label" THEN InView' \subseteq needs[row[i].label]
                                      ELSE needs[row[i].label] \subseteq InView'
             /\ \A k \in DOMAIN open' : Expects(open'[k], Visible(k)', needs),
           \A k \in DOMAIN open' : BlockUpTo(open'[k], labels)
    PROVE  Generated'
<1>1. PICK needs : Planned(needs)
  BY DEF Generated
<1>2. labels \in Nat /\ icode \in Seq(Entries) /\ needs \in [Nat -> SUBSET Named]
  BY <1>1 DEF Code, WellFormed, Planned
<1>3. PICK V : V = InView'
  OBVIOUS
<1>4. Flows(row, V, V, needs, Flat')
  BY <1>1, <1>3, BranchFlows DEF Branches
<1>5. Flows(row, InView, V, needs, Flat')
  BY <1>3, <1>4, FlowWeaken
<1>6. Flows(icode', {"p", "g"}, InView', needs, Flat')
  BY <1>1, <1>3, <1>5, PlanExtends
<1>7. Planned(needs)'
  BY <1>1, <1>2, <1>6 DEF Planned
<1>8. LabelsUpTo(row, labels)
  BY DEF LabelsUpTo
<1>9. LabelsUpTo(icode', labels)
  BY <1>2, <1>8, LabelsJoin DEF Generated
<1> QED
  BY <1>7, <1>9 DEF Generated

\* What the plan says of the innermost block.
LEMMA TopPlan ==
    ASSUME Code, Generated, NEW n \in Nat, n = Len(open)
    PROVE  /\ BlockUpTo(Top, labels) /\ n > 0 /\ Visible(n) \subseteq InView /\ Visible(n) \in SUBSET Named
           /\ \A needs : Planned(needs) => Expects(Top, Visible(n), needs)
<1>1. Top = open[n] /\ n \in DOMAIN open /\ n > 0
  BY TopBlock
<1>2. BlockUpTo(Top, labels)
  BY <1>1 DEF Generated
<1>3. \A needs : Planned(needs) => Expects(Top, Visible(n), needs)
  BY <1>1 DEF Planned
<1>4. 1 .. n \subseteq 1 .. n + 1
  OBVIOUS
<1>5. Visible(n) \subseteq InView
  BY <1>4 DEF InView, Visible
<1>6. Visible(n) \in SUBSET Named
  BY DEF Visible, Named
<1> QED
  BY <1>1, <1>2, <1>3, <1>5, <1>6

LEMMA BreakPlan ==
    ASSUME Code, Generated, breakStatement \/ continueStatement, ~ Reject
    PROVE  Generated'
<1>1. PICK l : /\ l = Top.breakLabel \/ l = Top.continueLabel
               /\ breakOrContinue(l)
  BY DEF breakStatement, continueStatement
<1>2. /\ UNCHANGED <<symbols, symbolScope, scopeCounter, scopeStack, open, labels>>
      /\ Top.inLoop /\ icode' = icode \o <<Goto(l)>>
  BY <1>1 DEF breakOrContinue, Emit, Reject, genVars
<1>3. PICK n \in Nat : n = Len(open)
  BY TopBlock
<1>4. Scopes /\ Top \in Blocks /\ l \in Nat
  BY <1>1, TopBlock DEF Generated, Blocks
<1>5. Scopes' /\ InView' = InView /\ (Flat' => Flat) /\ \A k : Visible(k)' = Visible(k)
  BY <1>2, <1>4, ScopesStay
<1>6. InView \in SUBSET Named
  BY <1>4, InViewIsReadable
<1>7. PICK e, row : e = Goto(l) /\ row = <<e>>
  OBVIOUS
<1>8. e \in Entries /\ e.op = "goto" /\ e.label = l
  BY <1>4, <1>7, LabelEntries
<1>9. row \in Seq(Entries) /\ \A i \in DOMAIN row : row[i] = e
  BY <1>7, <1>8
<1>10. l <= labels
  BY <1>1, <1>3, TopPlan DEF BlockUpTo
<1>11. \A needs : Planned(needs) => needs[l] \subseteq InView
  BY <1>1, <1>2, <1>3, TopPlan DEF Expects
<1>12. \A k \in DOMAIN open' : BlockUpTo(open'[k], labels)
  BY <1>2 DEF Generated
<1>13. ASSUME NEW needs, Planned(needs)
       PROVE  /\ \A i \in DOMAIN row : IF row[i].op = "label" THEN InView' \subseteq needs[row[i].label]
                                       ELSE needs[row[i].label] \subseteq InView'
              /\ \A k \in DOMAIN open' : Expects(open'[k], Visible(k)', needs)
  <2>1. \A i \in DOMAIN row : IF row[i].op = "label" THEN InView' \subseteq needs[row[i].label]
                              ELSE needs[row[i].label] \subseteq InView'
    BY <1>5, <1>8, <1>9, <1>11, <1>13
  <2>2. \A k \in DOMAIN open' : Expects(open'[k], Visible(k)', needs)
    BY <1>2, <1>5, <1>13 DEF Planned
  <2> QED
    BY <2>1, <2>2
<1>14. \A i \in DOMAIN row : row[i].op \in Branches /\ row[i].label <= labels
  BY <1>8, <1>9, <1>10 DEF Branches
<1>15. icode' = icode \o row /\ labels' = labels
  BY <1>2, <1>7
<1> QED
  BY <1>5, <1>6, <1>9, <1>12, <1>13, <1>14, <1>15, BranchPlan

LEMMA ElsePlan ==
    ASSUME Code, Generated, elseStatement
    PROVE  Generated'
<1>1. PICK n \in Nat : n = Len(open)
  BY TopBlock
<1>2. /\ Top = open[n] /\ Top \in Blocks /\ Exits(Top) /\ Top.kind = "if" /\ n > 1
      /\ open \in Seq(Blocks) /\ open # <<>> /\ Scopes /\ DOMAIN open = 1 .. n
  BY <1>1, TopBlock DEF elseStatement, Code, Generated
<1>3. PICK b, x, y : /\ b = [Top EXCEPT !.kind = "else", !.exits = <<Top.exits[2]>>]
                     /\ x = Goto(Top.exits[2]) /\ y = CreateLabel(Top.exits[1])
  OBVIOUS
<1>4. Top.exits \in Seq(Nat) /\ Len(Top.exits) = 2
  BY <1>2 DEF Blocks, Exits
<1>5. /\ 1 \in DOMAIN Top.exits /\ 2 \in DOMAIN Top.exits /\ Top.exits[1] \in Nat /\ Top.exits[2] \in Nat
  <2>1. PICK e : e = Top.exits
    OBVIOUS
  <2>2. e \in Seq(Nat) /\ Len(e) = 2
    BY <1>4, <2>1
  <2>3. DOMAIN e = 1 .. 2
    BY <2>2
  <2>4. 1 \in DOMAIN e /\ 2 \in DOMAIN e
    BY <2>3
  <2>5. \A i \in DOMAIN e : e[i] \in Nat
    BY <2>2
  <2> QED
    BY <2>1, <2>4, <2>5
<1>6. PICK row : row = <<x, y>>
  OBVIOUS
<1>7. /\ icode' = icode \o row /\ labels' = labels /\ open' = Append(Front(open), b)
      /\ scopeCounter' = scopeCounter + 1 /\ scopeStack' = Append(Front(scopeStack), scopeCounter + 1)
      /\ UNCHANGED <<symbols, symbolScope>>
  BY <1>3, <1>6 DEF elseStatement, Emit
<1>8. /\ b \in Blocks /\ b.exits = <<Top.exits[2]>>
      /\ b.inLoop = Top.inLoop /\ b.breakLabel = Top.breakLabel /\ b.continueLabel = Top.continueLabel
  <2>1. <<Top.exits[2]>> \in Seq(Nat)
    BY <1>5
  <2> QED
    BY <1>2, <1>3, <2>1 DEF Blocks, Kinds
<1>9. DOMAIN b.exits = {1} /\ b.exits[1] = Top.exits[2]
  BY <1>8
<1>10. PICK front : front = Front(open)
  OBVIOUS
<1>11. /\ front \in Seq(Blocks) /\ Len(front) = n - 1
       /\ \A k \in 1 .. n - 1 : k \in DOMAIN open /\ front[k] = open[k]
  BY <1>1, <1>2, <1>10, FrontFacts
<1>12. /\ Len(open') = n /\ DOMAIN open' = 1 .. n /\ open'[n] = b
       /\ \A k \in 1 .. n - 1 : open'[k] = open[k]
  <2>1. PICK c : c = Append(front, b)
    OBVIOUS
  <2>2. /\ Len(c) = n /\ DOMAIN c = 1 .. n /\ c[n] = b
        /\ \A k \in 1 .. n - 1 : c[k] = front[k]
    BY <1>2, <1>8, <1>11, <2>1
  <2> QED
    BY <1>7, <1>10, <1>11, <2>1, <2>2
<1>13. /\ Scopes' /\ InView' = Visible(n) /\ (Flat' => Flat) /\ Visible(n) \subseteq InView
       /\ \A k \in 1 .. n : Visible(k)' = Visible(k)
  BY <1>1, <1>2, <1>7, <1>12, ScopesSwitch
<1>14. /\ x \in Entries /\ x.op = "goto" /\ x.label = Top.exits[2]
       /\ y \in Entries /\ y.op = "label" /\ y.label = Top.exits[1]
  BY <1>3, <1>5, LabelEntries
<1>15. row \in Seq(Entries) /\ \A i \in DOMAIN row : row[i] = x \/ row[i] = y
  BY <1>6, <1>14
<1>16. BlockUpTo(Top, labels) /\ Visible(n) \in SUBSET Named
  BY <1>1, TopPlan
<1>17. \A i \in DOMAIN row : row[i].op \in Branches /\ row[i].label <= labels
  BY <1>5, <1>14, <1>15, <1>16 DEF Branches, BlockUpTo
<1>18. ASSUME NEW needs, Planned(needs)
       PROVE  /\ \A i \in DOMAIN row : IF row[i].op = "label" THEN InView' \subseteq needs[row[i].label]
                                       ELSE needs[row[i].label] \subseteq InView'
              /\ \A k \in DOMAIN open' : Expects(open'[k], Visible(k)', needs)
  <2>1. Expects(Top, Visible(n), needs)
    BY <1>1, <1>18, TopPlan
  <2>2. \A i \in DOMAIN row : IF row[i].op = "label" THEN InView' \subseteq needs[row[i].label]
                              ELSE needs[row[i].label] \subseteq InView'
    BY <1>5, <1>13, <1>14, <1>15, <2>1 DEF Expects
  <2>3. Expects(b, Visible(n)', needs)
    <3>1. n \in 1 .. n
      BY <1>2
    <3> QED
      BY <1>5, <1>8, <1>9, <1>13, <2>1, <3>1 DEF Expects
  <2>4. ASSUME NEW k \in 1 .. n - 1 PROVE Expects(open[k], Visible(k)', needs)
    BY <1>2, <1>11, <1>13, <1>18 DEF Planned
  <2> QED
    BY <1>12, <2>2, <2>3, <2>4
<1>19. \A k \in DOMAIN open' : BlockUpTo(open'[k], labels)
  <2>1. BlockUpTo(b, labels)
    BY <1>5, <1>8, <1>9, <1>16 DEF BlockUpTo
  <2>2. \A k \in 1 .. n - 1 : BlockUpTo(open[k], labels)
    BY <1>11 DEF Generated
  <2> QED
    BY <1>12, <2>1, <2>2
<1>20. InView' \subseteq InView /\ InView' \in SUBSET Named
  BY <1>13, <1>16
<1> QED
  BY <1>7, <1>13, <1>15, <1>17, <1>18, <1>19, <1>20, BranchPlan

\* What closing a block emits, entry by entry: its own labels.
LEMMA ClosingBranches ==
    ASSUME NEW b \in Blocks, Exits(b), b.kind # "function"
    PROVE  \A i \in DOMAIN Closing(b) :
             LET e == Closing(b)[i] IN e.op \in Branches /\ \E j \in DOMAIN b.exits : e.label = b.exits[j]
<1>1. PICK c, x : c = Closing(b) /\ x = b.exits
  OBVIOUS
<1>2. x \in Seq(Nat) /\ b.kind \in Kinds
  BY <1>1 DEF Blocks
<1> DEFINE Own(e) == e.op \in Branches /\ \E j \in DOMAIN x : e.label = x[j]
<1>3. \A l \in Nat, j \in DOMAIN x : l = x[j] => Own(CreateLabel(l)) /\ Own(Goto(l)) /\ Own(IfFalseGoto(l))
  BY LabelEntries DEF Branches
<1>4. \A j \in DOMAIN x : x[j] \in Nat
  BY <1>2
<1>5. \A j \in DOMAIN x : Own(CreateLabel(x[j])) /\ Own(Goto(x[j])) /\ Own(IfFalseGoto(x[j]))
  BY <1>3, <1>4
<1> HIDE DEF Own
<1>6. \A i \in DOMAIN c : Own(c[i])
  <2>1. CASE b.kind \in {"if", "else"}
    <3>1. Len(x) \in {1, 2}
      BY <1>1, <2>1 DEF Exits
    <3>2. 1 \in DOMAIN x
      BY <1>2, <3>1
    <3>3. PICK e : e = CreateLabel(x[1])
      OBVIOUS
    <3>4. c = <<e>>
      BY <1>1, <2>1, <3>3 DEF Closing
    <3>5. \A i \in DOMAIN c : c[i] = e
      BY <3>4
    <3> QED
      BY <1>5, <3>2, <3>3, <3>5
  <2>2. CASE b.kind = "forEach"
    <3>1. Len(x) = 3
      BY <1>1, <2>2 DEF Exits
    <3>2. 1 \in DOMAIN x /\ 2 \in DOMAIN x /\ 3 \in DOMAIN x
      BY <1>2, <3>1
    <3>3. PICK d, e, f : d = CreateLabel(x[1]) /\ e = Goto(x[2]) /\ f = CreateLabel(x[3])
      OBVIOUS
    <3>4. c = <<d, e, f>>
      BY <1>1, <2>2, <3>3 DEF Closing
    <3>5. \A i \in DOMAIN c : c[i] = d \/ c[i] = e \/ c[i] = f
      BY <3>4
    <3> QED
      BY <1>5, <3>2, <3>3, <3>5
  <2>3. CASE b.kind = "do"
    <3>1. Len(x) = 2
      BY <1>1, <2>3 DEF Exits
    <3>2. 1 \in DOMAIN x /\ 2 \in DOMAIN x
      BY <1>2, <3>1
    <3>3. PICK d, e, f : d = IfFalseGoto(x[2]) /\ e = Goto(x[1]) /\ f = CreateLabel(x[2])
      OBVIOUS
    <3>4. c = <<d, e, f>>
      BY <1>1, <2>3, <3>3 DEF Closing
    <3>5. \A i \in DOMAIN c : c[i] = d \/ c[i] = e \/ c[i] = f
      BY <3>4
    <3> QED
      BY <1>5, <3>2, <3>3, <3>5
  <2>4. CASE b.kind \in {"while", "loop"}
    <3>1. Len(x) = 2
      BY <1>1, <2>4 DEF Exits
    <3>2. 1 \in DOMAIN x /\ 2 \in DOMAIN x
      BY <1>2, <3>1
    <3>3. PICK e, f : e = Goto(x[1]) /\ f = CreateLabel(x[2])
      OBVIOUS
    <3>4. c = <<e, f>>
      BY <1>1, <2>4, <3>3 DEF Closing
    <3>5. \A i \in DOMAIN c : c[i] = e \/ c[i] = f
      BY <3>4
    <3> QED
      BY <1>5, <3>2, <3>3, <3>5
  <2> QED
    BY <1>2, <2>1, <2>2, <2>3, <2>4 DEF Kinds
<1> QED
  BY <1>1, <1>6 DEF Own

LEMMA ClosePlan ==
    ASSUME Code, Generated, closeBlock
    PROVE  Generated'
<1>1. PICK n \in Nat : n = Len(open)
  BY TopBlock
<1>2. /\ Top = open[n] /\ Top \in Blocks /\ Exits(Top) /\ Top.kind # "function" /\ n > 1
      /\ open \in Seq(Blocks) /\ open # <<>> /\ Scopes /\ DOMAIN open = 1 .. n
  BY <1>1, TopBlock DEF closeBlock, Code, Generated
<1>3. PICK row, front : row = Closing(Top) /\ front = Front(open)
  OBVIOUS
<1>4. /\ icode' = icode \o row /\ labels' = labels /\ open' = front /\ scopeStack' = Front(scopeStack)
      /\ UNCHANGED <<symbols, symbolScope, scopeCounter>>
  BY <1>3 DEF closeBlock
<1>5. /\ row \in Seq(Entries)
      /\ \A i \in DOMAIN row : row[i].op \in Branches /\ \E j \in DOMAIN Top.exits : row[i].label = Top.exits[j]
  BY <1>2, <1>3, ClosingRow, ClosingBranches
<1>6. /\ Len(front) = n - 1 /\ front \in Seq(Blocks)
      /\ \A k \in 1 .. n - 1 : k \in DOMAIN open /\ front[k] = open[k]
  BY <1>1, <1>2, <1>3, FrontFacts
<1>7. Len(open') = n - 1 /\ DOMAIN open' = 1 .. n - 1
  BY <1>2, <1>4, <1>6
<1>8. /\ Scopes' /\ InView' = Visible(n) /\ (Flat' => Flat) /\ Visible(n) \subseteq InView
      /\ \A k \in 1 .. n : Visible(k)' = Visible(k)
  BY <1>1, <1>2, <1>4, <1>7, ScopesLeave
<1>9. BlockUpTo(Top, labels) /\ Visible(n) \in SUBSET Named
  BY <1>1, TopPlan
<1>10. \A i \in DOMAIN row : row[i].op \in Branches /\ row[i].label <= labels
  BY <1>5, <1>9 DEF BlockUpTo
<1>11. ASSUME NEW needs, Planned(needs)
       PROVE  /\ \A i \in DOMAIN row : IF row[i].op = "label" THEN InView' \subseteq needs[row[i].label]
                                       ELSE needs[row[i].label] \subseteq InView'
              /\ \A k \in DOMAIN open' : Expects(open'[k], Visible(k)', needs)
  <2>1. Expects(Top, Visible(n), needs)
    BY <1>1, <1>11, TopPlan
  <2>2. \A i \in DOMAIN row : needs[row[i].label] = InView'
    BY <1>5, <1>8, <2>1 DEF Expects
  <2>3. ASSUME NEW k \in 1 .. n - 1 PROVE Expects(open[k], Visible(k)', needs)
    <3>1. k \in 1 .. n /\ k \in DOMAIN open
      BY <1>2, <1>6
    <3> QED
      BY <1>8, <1>11, <3>1 DEF Planned
  <2> QED
    BY <1>4, <1>6, <1>7, <2>2, <2>3
<1>12. \A k \in DOMAIN open' : BlockUpTo(open'[k], labels)
  BY <1>4, <1>6, <1>7 DEF Generated
<1>13. InView' \subseteq InView /\ InView' \in SUBSET Named
  BY <1>8, <1>9
<1> QED
  BY <1>4, <1>5, <1>8, <1>10, <1>11, <1>12, <1>13, BranchPlan

------------------------------------------------------------------------------
(***************************************************************************)
(* The run of a finished table: what flows to the entry that is executed   *)
(* is initialised.                                                         *)
(***************************************************************************)
Ruled ==
    /\ pc \in DOMAIN icode /\ icode[Len(icode)].op = "ret" /\ JumpsInto(icode, Emitted(icode))
    /\ \E At, needs : FlowsBy(At, icode, needs, Flat) /\ \A v \in At[pc] : held[v] # Garbage

ScopeInv ==
    /\ held \in [Storage -> Object \cup {Null, Garbage}]
    /\ Code
    /\ phase = "generate" => Generated /\ pc = 1 /\ held["p"] # Garbage /\ held["g"] # Garbage
    /\ phase = "run" => Ruled
    /\ NoHookOnGarbageIfFlat

LEMMA SweepCode ==
    ASSUME Code, NEW row, row = createReturnAndCallDeconstructors, icode' = icode \o row,
           UNCHANGED <<isVoid, symbols, labels, open>>
    PROVE  Code' /\ row \in Seq(Entries) /\ row # <<>> /\ row[Len(row)].op = "ret"
<1>1. symbols \subseteq Local
  BY DEF Code
<1>2. PICK r \in Seq(SweepEntries) : /\ callDeconstructorOnDeclaredSymbols = r
                                     /\ \A j, k \in 1 .. Len(r) : r[j] = r[k] => j = k
  BY <1>1, SweepRow
<1>3. row = r \o <<Ret>>
  BY <1>2 DEF createReturnAndCallDeconstructors
<1>4. WellFormed(row) /\ JumpsInto(row, {}) /\ Len(row) > 0 /\ row[Len(row)] = Ret
  BY <1>2, <1>3, SweepFits
<1>5. JumpsInto(row, Coming(icode, open))
  BY <1>4, Further
<1>6. Code'
  BY <1>1, <1>4, <1>5, PlainRow
<1>7. row \in Seq(Entries) /\ row # <<>>
  BY <1>4 DEF WellFormed
<1> QED
  BY <1>4, <1>6, <1>7 DEF Ret

LEMMA TerminateRules ==
    ASSUME ScopeInv, terminateFunction, ~ Reject
    PROVE  ScopeInv'
<1>1. /\ phase = "generate" /\ phase' = "run" /\ pc' = pc /\ Len(open) = 1 /\ held' = held
      /\ UNCHANGED <<isVoid, symbols, labels, open, symbolScope>>
  BY DEF terminateFunction, Reject, genVars, heapVars
<1>2. Code /\ Generated /\ Scopes /\ pc = 1 /\ held["p"] # Garbage /\ held["g"] # Garbage
  BY <1>1 DEF ScopeInv, Generated
<1>3. \A c : Coming(c, open) = Emitted(c)
  <2>1. open \in Seq(Blocks) /\ DOMAIN open = {1}
    BY <1>1, <1>2 DEF Code
  <2>2. open[1].kind = "function"
    BY <1>2, <2>1 DEF Code
  <2>3. Promised(open[1]) = {}
    BY <2>2 DEF Promised
  <2> QED
    BY <2>1, <2>3 DEF Coming
<1>4. PICK flat : flat = Flat /\ flat = Flat'
  BY <1>1 DEF Flat
<1>5. PICK needs : Flows(icode, {"p", "g"}, InView, needs, flat)
  BY <1>2, <1>4 DEF Generated, Planned
<1>6. icode \in Seq(Entries) /\ symbols \subseteq Local /\ InView \in SUBSET Named
  BY <1>2, InViewIsReadable DEF Code, WellFormed
<1>7. ASSUME Code', NEW c, c = icode', Flows(c, {"p", "g"}, InView, needs, flat), c # <<>>, c[Len(c)].op = "ret"
      PROVE  ScopeInv'
  <2>1. PICK At : FlowsBy(At, c, needs, flat) /\ At[1] \subseteq {"p", "g"}
    BY <1>7 DEF Flows
  <2>2. c \in Seq(Entries) /\ JumpsInto(c, Emitted(c))
    BY <1>1, <1>3, <1>7 DEF Code, WellFormed
  <2>3. 1 \in DOMAIN c
    BY <1>7, <2>2
  <2>4. \A v \in At[1] : held'[v] # Garbage
    BY <1>1, <1>2, <2>1
  <2>5. Ruled'
    BY <1>1, <1>2, <1>4, <1>7, <2>1, <2>2, <2>3, <2>4 DEF Ruled
  <2> QED
    BY <1>1, <1>7, <2>5 DEF ScopeInv, NoHookOnGarbageIfFlat, NamedIsInitialised, NoHookOnGarbage
<1>8. CASE doesFunctionTerminate
  <2>1. icode' = icode
    BY <1>8 DEF terminateFunction, Reject, genVars
  <2>2. Code'
    BY <1>1, <1>2, <2>1 DEF Code
  <2>3. icode # <<>> /\ icode[Len(icode)].op = "ret"
    BY <1>8 DEF doesFunctionTerminate, Last
  <2> QED
    BY <1>5, <1>7, <2>1, <2>2, <2>3
<1>9. CASE ~ doesFunctionTerminate
  <2>1. PICK row, c : row = createReturnAndCallDeconstructors /\ c = icode \o row
    OBVIOUS
  <2>2. icode' = c
    BY <1>9, <2>1 DEF terminateFunction, Reject, genVars
  <2>3. Code' /\ row \in Seq(Entries) /\ row # <<>> /\ row[Len(row)].op = "ret"
    BY <1>1, <1>2, <2>1, <2>2, SweepCode
  <2>4. flat => symbols \subseteq InView
    BY <1>2, <1>4, InViewIsReadable
  <2>5. Straight(row, InView, InView, needs, flat)
    BY <1>6, <2>1, <2>4, SweepFlows
  <2>6. Flows(c, {"p", "g"}, InView, needs, flat)
    BY <1>5, <1>6, <2>1, <2>3, <2>5, FlowJoin DEF Straight
  <2>7. /\ Len(row) \in Nat /\ Len(row) > 0 /\ Len(icode) \in Nat /\ Len(c) = Len(icode) + Len(row)
        /\ c[Len(icode) + Len(row)] = row[Len(row)]
    BY <1>6, <2>1, <2>3
  <2>8. c # <<>> /\ c[Len(c)].op = "ret"
    BY <2>3, <2>7
  <2> QED
    BY <1>7, <2>2, <2>3, <2>6, <2>8
<1> QED
  BY <1>8, <1>9

LEMMA ScopeCompile ==
    ASSUME ScopeInv, Compile, Whole("self") \notin Readable, Whole("p") \notin Targets
    PROVE  ScopeInv'
<1>1. CASE Reject
  <2>1. phase' = "rejected" /\ held' = held /\ UNCHANGED genVars
    BY <1>1 DEF Reject, heapVars
  <2>2. Code'
    BY <2>1 DEF ScopeInv, Code, genVars
  <2> QED
    BY <2>1, <2>2 DEF ScopeInv, NoHookOnGarbageIfFlat, NamedIsInitialised, NoHookOnGarbage
<1> SUFFICES ASSUME ~ Reject
             PROVE  ScopeInv'
  BY <1>1
<1>2. ASSUME phase = "generate", phase' = phase, pc' = pc, UNCHANGED heapVars, Code', Code /\ Generated => Generated'
      PROVE  ScopeInv'
  <2>1. held' = held /\ Generated'
    BY <1>2 DEF ScopeInv, heapVars
  <2> QED
    BY <1>2, <2>1 DEF ScopeInv, NoHookOnGarbageIfFlat, NamedIsInitialised, NoHookOnGarbage
<1>3. Code
  BY DEF ScopeInv
<1>4. ASSUME NEW entries, NEW form, Writing(form), Emit(entries)
      PROVE  phase = "generate" /\ phase' = phase /\ pc' = pc /\ UNCHANGED heapVars
  BY <1>4 DEF Writing, Emit
<1>5. ASSUME NEW s \in Local, local(s) PROVE ScopeInv'
  <2>1. Code' /\ (Code /\ Generated => Generated')
    BY <1>3, <1>5, LocalCode, LocalPlan
  <2> QED
    BY <1>2, <1>4, <1>5, <2>1 DEF local
<1>6. ASSUME NEW s \in Local, forEachLoop(s) PROVE ScopeInv'
  <2>1. Code' /\ (Code /\ Generated => Generated')
    BY <1>3, <1>6, ForEachCode, ForEachPlan
  <2> QED
    BY <1>2, <1>4, <1>6, <2>1 DEF forEachLoop
<1>7. ASSUME NEW s \in Local, NEW src \in Wholes, walrusLocal(s, src) PROVE ScopeInv'
  <2>1. Code' /\ (Code /\ Generated => Generated')
    BY <1>3, <1>7, WalrusCode, WalrusPlan
  <2> QED
    BY <1>2, <1>4, <1>7, <2>1 DEF walrusLocal
<1>8. ASSUME NEW dst \in Targets, NEW src \in Readable, assignment(dst, src) PROVE ScopeInv'
  <2>1. Code' /\ (Code /\ Generated => Generated')
    BY <1>3, <1>8, AssignmentCode, AssignmentPlan
  <2> QED
    BY <1>2, <1>4, <1>8, <2>1 DEF assignment
<1>9. ASSUME NEW v \in Variable \cup {"callee"}, functionReturn(Whole(v)) PROVE ScopeInv'
  <2>1. Code' /\ (Code /\ Generated => Generated')
    BY <1>3, <1>9, ReturnCode, ReturnPlan
  <2> QED
    BY <1>2, <1>4, <1>9, <2>1 DEF functionReturn
<1>10. CASE breakStatement \/ continueStatement
  <2>1. Code' /\ (Code /\ Generated => Generated')
    BY <1>3, <1>10, BreakCode, BreakPlan
  <2> QED
    BY <1>2, <1>4, <1>10, <2>1 DEF breakStatement, continueStatement, breakOrContinue
<1>11. CASE ifStatement
  <2>1. Code' /\ (Code /\ Generated => Generated')
    BY <1>3, <1>11, IfCode, IfPlan
  <2> QED
    BY <1>2, <1>4, <1>11, <2>1 DEF ifStatement
<1>12. CASE elseStatement
  <2>1. Code' /\ (Code /\ Generated => Generated')
    BY <1>3, <1>12, ElseCode, ElsePlan
  <2> QED
    BY <1>2, <1>4, <1>12, <2>1 DEF elseStatement
<1>13. ASSUME NEW kind \in {"while", "do", "loop"}, loopStatement(kind) PROVE ScopeInv'
  <2>1. Code' /\ (Code /\ Generated => Generated')
    BY <1>3, <1>13, LoopCode, LoopPlan
  <2> QED
    BY <1>2, <1>4, <1>13, <2>1 DEF loopStatement
<1>14. CASE closeBlock
  <2>1. Code' /\ (Code /\ Generated => Generated')
    BY <1>3, <1>14, CloseCode, ClosePlan
  <2> QED
    BY <1>2, <1>14, <2>1 DEF closeBlock
<1>15. CASE terminateFunction
  BY <1>15, TerminateRules
<1> QED
  BY <1>5, <1>6, <1>7, <1>8, <1>9, <1>10, <1>11, <1>12, <1>13, <1>14, <1>15 DEF Compile

\* Whatever an entry does, it leaves initialised what flows to the next.
LEMMA RulesOn ==
    ASSUME ScopeInv, phase = "run", phase' = phase, UNCHANGED genVars,
           held' \in [Storage -> Object \cup {Null, Garbage}],
           \/ /\ Entry.op \notin {"goto", "ret"} /\ pc' = pc + 1
              /\ \A A : (\A v \in A : held[v] # Garbage) =>
                          \A v \in A \cup Initialises(Entry) : v \in Named => held'[v] # Garbage
           \/ Entry.op \in {"goto", "ifFalseGoto"} /\ JumpTo(Entry.label) /\ held' = held
    PROVE  ScopeInv'
<1>0. PICK flat : flat = Flat /\ flat = Flat'
  BY DEF genVars, Flat
<1>1. PICK At, needs : FlowsBy(At, icode, needs, flat) /\ \A v \in At[pc] : held[v] # Garbage
  BY <1>0 DEF ScopeInv, Ruled
<1>2. /\ icode \in Seq(Entries) /\ pc \in DOMAIN icode /\ icode[Len(icode)].op = "ret"
      /\ JumpsInto(icode, Emitted(icode))
  BY DEF ScopeInv, Ruled, Code, WellFormed
<1>3. /\ At \in [1 .. Len(icode) + 1 -> SUBSET Named]
      /\ \A i \in DOMAIN icode : Passes(icode[i], At[i], At[i + 1], needs, flat)
  BY <1>1 DEF FlowsBy
<1>4. Passes(Entry, At[pc], At[pc + 1], needs, flat) /\ Entry \in Entries
  BY <1>2, <1>3 DEF Entry
<1>5. icode' = icode /\ Code'
  BY DEF ScopeInv, genVars, Code
<1>6. pc' \in DOMAIN icode /\ \A v \in At[pc'] : held'[v] # Garbage
  <2>1. CASE /\ Entry.op \notin {"goto", "ret"} /\ pc' = pc + 1
             /\ \A A : (\A v \in A : held[v] # Garbage) =>
                         \A v \in A \cup Initialises(Entry) : v \in Named => held'[v] # Garbage
    <3>1. At[pc + 1] \subseteq At[pc] \cup Initialises(Entry)
      BY <1>4, <2>1 DEF Passes
    <3>2. pc # Len(icode)
      BY <1>2, <2>1 DEF Entry
    <3>3. pc + 1 \in DOMAIN icode /\ pc + 1 \in 1 .. Len(icode) + 1
      BY <1>2, <3>2
    <3>4. At[pc + 1] \subseteq Named
      BY <1>3, <3>3
    <3>5. \A v \in At[pc] \cup Initialises(Entry) : v \in Named => held'[v] # Garbage
      BY <1>1, <2>1
    <3> QED
      BY <2>1, <3>1, <3>3, <3>4, <3>5
  <2>2. CASE Entry.op \in {"goto", "ifFalseGoto"} /\ JumpTo(Entry.label) /\ held' = held
    <3>1. PICK l : l = Entry.label
      OBVIOUS
    <3>2. l \in Emitted(icode) /\ needs[l] \subseteq At[pc]
      BY <1>2, <1>4, <2>2, <3>1 DEF JumpsInto, Entry, Passes
    <3>3. PICK i \in DOMAIN icode : icode[i].op = "label" /\ icode[i].label = l
      BY <3>2 DEF Emitted
    <3>4. icode[i] \in Entries
      BY <1>2
    <3>5. icode[i] = CreateLabel(l)
      BY <3>3, <3>4 DEF Entries, Call, Ret, NullInit, CreateLabel
    <3>6. pc' = CHOOSE k \in DOMAIN icode : icode[k] = CreateLabel(l)
      BY <2>2, <3>1 DEF JumpTo
    <3>7. pc' \in DOMAIN icode /\ icode[pc'] = CreateLabel(l)
      BY <3>5, <3>6
    <3>8. icode[pc'].op = "label" /\ icode[pc'].label = l
      BY <3>7 DEF CreateLabel
    <3>9. At[pc'] \subseteq needs[l]
      BY <1>3, <3>7, <3>8 DEF Passes
    <3> QED
      BY <1>1, <2>2, <3>2, <3>7, <3>9
  <2> QED
    BY <2>1, <2>2
<1>7. Ruled'
  BY <1>0, <1>1, <1>2, <1>5, <1>6 DEF Ruled
<1> QED
  BY <1>5, <1>7 DEF ScopeInv, NoHookOnGarbageIfFlat, NamedIsInitialised, NoHookOnGarbage

LEMMA RulesEnd ==
    ASSUME ScopeInv, NEW how, Stop(how), how \notin {"generate", "run", "uninitialisedUse"},
           how = "uninitialisedSweep" => ~ Flat
    PROVE  ScopeInv'
<1>1. phase' = how /\ held' = held /\ UNCHANGED genVars
  BY DEF Stop, heapVars
<1>2. (Flat' <=> Flat) /\ Code'
  BY <1>1 DEF ScopeInv, genVars, Flat, Code
<1> QED
  BY <1>1, <1>2 DEF ScopeInv, NoHookOnGarbageIfFlat, NamedIsInitialised, NoHookOnGarbage

LEMMA ScopeRun ==
    ASSUME ScopeInv, Execute
    PROVE  ScopeInv'
<1>1. phase = "run"
  BY DEF Execute, ExecNullInit, ExecBeforeCopy, ExecDeconstruct, ExecCopy, ExecCall, ExecJump, ExecRet, Running
<1>2. /\ held \in [Storage -> Object \cup {Null, Garbage}] /\ Named \subseteq Storage
      /\ Null # Garbage /\ Garbage \notin Object
  BY StorageNames DEF ScopeInv, Named, Null, Garbage
<1>3. PICK A : Reading(Entry, Flat) \subseteq A /\ \A v \in A : held[v] # Garbage
  BY <1>1 DEF ScopeInv, Ruled, FlowsBy, Passes, Entry
<1>4. Entry \in Entries
  BY <1>1 DEF ScopeInv, Ruled, Code, WellFormed, Entry
<1>5. ASSUME Entry.op \notin {"goto", "ret"}, Step, held' = held, Initialises(Entry) = {}
      PROVE  ScopeInv'
  BY <1>1, <1>2, <1>5, RulesOn DEF Step
<1>6. CASE ExecNullInit
  <2>1. PICK w : w = Entry.unit.var
    OBVIOUS
  <2>2. Entry.op = "nullInit" /\ Step /\ held' = [held EXCEPT ![w] = Null]
    BY <1>6, <2>1 DEF ExecNullInit, Running, Entry
  <2>3. w \in Storage /\ Initialises(Entry) = {w}
    BY <1>4, <2>1, <2>2, EntryFields, StorageNames DEF Initialises
  <2>4. \A v \in Storage : held'[v] = IF v = w THEN Null ELSE held[v]
    BY <1>2, <2>2
  <2>5. \A B : (\A v \in B : held[v] # Garbage) =>
                 \A v \in B \cup Initialises(Entry) : v \in Named => held'[v] # Garbage
    BY <1>2, <2>3, <2>4
  <2>6. held' \in [Storage -> Object \cup {Null, Garbage}]
    BY <1>2, <2>2
  <2> QED
    BY <1>1, <2>2, <2>5, <2>6, RulesOn DEF Step
<1>7. CASE ExecBeforeCopy
  <2>1. Entry.op = "beforeCopy" /\ Entry.unit.var \in A
    BY <1>3, <1>7 DEF ExecBeforeCopy, Running, Entry, Reading
  <2>2. Initialises(Entry) = {}
    BY <2>1 DEF Initialises
  <2>3. held[Entry.unit.var] # Garbage
    BY <1>3, <2>1
  <2>4. (Step /\ held' = held) \/ Stop("useAfterFree")
    BY <1>7, <2>3 DEF ExecBeforeCopy, heapVars
  <2>5. CASE Stop("useAfterFree")
    BY <2>5, RulesEnd
  <2> QED
    BY <1>5, <2>1, <2>2, <2>4, <2>5
<1>8. CASE ExecDeconstruct
  <2>1. Entry.op = "deconstruct" /\ Initialises(Entry) = {}
    BY <1>8 DEF ExecDeconstruct, Running, Entry, Initialises
  <2>2. \/ Step /\ held' = held
        \/ Stop("useAfterFree")
        \/ held[Entry.unit.var] = Garbage /\ Stop(IF Entry.sweep THEN "uninitialisedSweep" ELSE "uninitialisedUse")
    BY <1>8 DEF ExecDeconstruct, heapVars
  <2>3. CASE Step /\ held' = held
    BY <1>5, <2>1, <2>3
  <2>4. CASE Stop("useAfterFree")
    BY <2>4, RulesEnd
  <2>5. CASE held[Entry.unit.var] = Garbage /\ Stop(IF Entry.sweep THEN "uninitialisedSweep" ELSE "uninitialisedUse")
    <3>1. ~ Flat /\ Entry.sweep
      BY <1>3, <2>1, <2>5 DEF Reading
    <3>2. Stop("uninitialisedSweep")
      BY <2>5, <3>1
    <3> QED
      BY <3>1, <3>2, RulesEnd
  <2> QED
    BY <2>2, <2>3, <2>4, <2>5
<1>9. CASE ExecCopy
  <2>1. PICK d, s : d = Entry.dest.var /\ s = Entry.src.var
    OBVIOUS
  <2>2. Entry.op = "copy" /\ Step /\ held' = [held EXCEPT ![d] = held[s]]
    BY <1>9, <2>1 DEF ExecCopy, Running, Entry
  <2>3. d \in Storage /\ s \in Storage /\ Initialises(Entry) = {}
    BY <1>4, <2>1, <2>2, EntryFields DEF Initialises, Unit
  <2>4. held[s] # Garbage
    BY <1>3, <2>1, <2>2 DEF Reading
  <2>5. \A v \in Storage : held'[v] = IF v = d THEN held[s] ELSE held[v]
    BY <1>2, <2>2
  <2>6. \A B : (\A v \in B : held[v] # Garbage) =>
                 \A v \in B \cup Initialises(Entry) : v \in Named => held'[v] # Garbage
    BY <1>2, <2>3, <2>4, <2>5
  <2>7. held' \in [Storage -> Object \cup {Null, Garbage}]
    BY <1>2, <2>2, <2>3
  <2> QED
    BY <1>1, <2>2, <2>6, <2>7, RulesOn DEF Step
<1>10. CASE ExecCall
  <2>1. Entry.op = "call" /\ Initialises(Entry) = {"callee"}
    BY <1>10 DEF ExecCall, Running, Entry, Initialises
  <2>2. CASE Stop("panicked")
    BY <2>2, RulesEnd
  <2>3. CASE \E o \in Object : held' = [held EXCEPT !["callee"] = o] /\ Step
    <3>1. PICK o \in Object : held' = [held EXCEPT !["callee"] = o] /\ Step
      BY <2>3
    <3>2. \A v \in Storage : held'[v] = IF v = "callee" THEN o ELSE held[v]
      BY <1>2, <3>1
    <3>3. \A B : (\A v \in B : held[v] # Garbage) =>
                   \A v \in B \cup Initialises(Entry) : v \in Named => held'[v] # Garbage
      BY <1>2, <2>1, <3>2
    <3>4. held' \in [Storage -> Object \cup {Null, Garbage}]
      BY <1>2, <3>1
    <3> QED
      BY <1>1, <2>1, <3>1, <3>3, <3>4, RulesOn DEF Step
  <2> QED
    BY <1>10, <2>2, <2>3 DEF ExecCall
<1>11. CASE ExecJump
  <2>1. \/ Entry.op \in {"label", "ifFalseGoto"} /\ Step /\ held' = held
        \/ Entry.op \in {"goto", "ifFalseGoto"} /\ JumpTo(Entry.label)
    BY <1>11 DEF ExecJump, Running, Entry, heapVars
  <2>2. CASE Entry.op \in {"label", "ifFalseGoto"} /\ Step /\ held' = held
    BY <1>5, <2>2 DEF Initialises
  <2>3. CASE Entry.op \in {"goto", "ifFalseGoto"} /\ JumpTo(Entry.label)
    <3>1. phase' = phase /\ UNCHANGED genVars /\ held' = held
      BY <2>3 DEF JumpTo, heapVars
    <3> QED
      BY <1>1, <1>2, <2>3, <3>1, RulesOn
  <2> QED
    BY <2>1, <2>2, <2>3
<1>12. CASE ExecRet
  BY <1>12, RulesEnd DEF ExecRet
<1> QED
  BY <1>6, <1>7, <1>8, <1>9, <1>10, <1>11, <1>12 DEF Execute

LEMMA ScopeStart == Init => ScopeInv
<1> SUFFICES ASSUME Init PROVE ScopeInv
  OBVIOUS
<1>1. Code /\ held \in [Storage -> Object \cup {Null, Garbage}] /\ phase = "generate" /\ pc = 1
  BY Starts DEF BodyInv, Init
<1>2. held["p"] # Garbage /\ held["g"] # Garbage
  <2>1. PICK o \in Object, g \in {TRUE, FALSE} :
          held = [s \in Storage |-> CASE s = "p" -> o
                                      [] s = "g" -> IF g THEN o ELSE Null
                                      [] OTHER -> Garbage]
    BY DEF Init
  <2>2. "p" \in Storage /\ "g" \in Storage /\ Garbage \notin Object /\ Null # Garbage
    BY StorageNames DEF Null, Garbage
  <2>3. held["p"] = o /\ held["g"] = (IF g THEN o ELSE Null)
    BY <2>1, <2>2
  <2> QED
    BY <2>2, <2>3
<1>3. /\ icode = <<>> /\ symbols = {} /\ scopeCounter = 1 /\ scopeStack = <<0, 1>> /\ labels = 0
      /\ symbolScope = [s \in {"p"} |-> 0] /\ open = <<FunctionBlock>>
  BY DEF Init
<1>4. Len(open) = 1 /\ DOMAIN open = {1} /\ open[1] = FunctionBlock
  BY <1>3
<1>5. /\ scopeStack \in Seq(Nat) /\ Len(scopeStack) = 2 /\ scopeStack[1] = 0 /\ scopeStack[2] = 1
  BY <1>3
<1>6. Scopes
  <2>1. \A i \in 1 .. 2 : i = 1 \/ i = 2
    OBVIOUS
  <2> QED
    BY <1>3, <1>4, <1>5, <2>1 DEF Scopes
<1>7. InView \subseteq {"p", "g"} /\ InView \in SUBSET Named
  BY <1>3 DEF InView, Visible, Known, Named
<1>8. PICK needs : needs = [l \in Nat |-> {}]
  OBVIOUS
<1>9. needs \in [Nat -> SUBSET Named]
  BY <1>8
<1>10. Flows(icode, {"p", "g"}, InView, needs, Flat)
  <2>0. PICK c, V : c = icode /\ V = InView
    OBVIOUS
  <2>1. c \in Seq(Entries) /\ DOMAIN c = {} /\ V \in SUBSET Named
    BY <1>3, <1>7, <2>0
  <2>2. Flows(c, V, V, needs, Flat)
    BY <2>1, FlowStill
  <2> QED
    BY <1>7, <2>0, <2>2, FlowWeaken
<1>11. Expects(FunctionBlock, Visible(1), needs) /\ BlockUpTo(FunctionBlock, labels)
  BY <1>3 DEF FunctionBlock, Block, Expects, BlockUpTo
<1>12. Planned(needs)
  BY <1>4, <1>9, <1>10, <1>11 DEF Planned
<1>13. LabelsUpTo(icode, labels)
  BY <1>3 DEF LabelsUpTo
<1>14. Generated
  BY <1>4, <1>6, <1>11, <1>12, <1>13 DEF Generated
<1> QED
  BY <1>1, <1>2, <1>14 DEF ScopeInv, NoHookOnGarbageIfFlat, NamedIsInitialised, NoHookOnGarbage

(***************************************************************************)
(* The invariant of the scopes: while the body is compiled, a flow of what *)
(* is initialised can be given for its table; while the table runs, what   *)
(* flows to the entry that is executed is initialised.                     *)
(***************************************************************************)
THEOREM ScopeInvariant ==
    ASSUME Whole("self") \notin Readable, Whole("p") \notin Targets
    PROVE  Spec => []ScopeInv
<1>1. Init => ScopeInv
  BY ScopeStart
<1>2. ScopeInv /\ [Next]_vars => ScopeInv'
  <2> SUFFICES ASSUME ScopeInv, [Next]_vars PROVE ScopeInv'
    OBVIOUS
  <2>1. CASE Compile
    BY <2>1, ScopeCompile
  <2>2. CASE Execute
    BY <2>2, ScopeRun
  <2>3. CASE UNCHANGED vars
    <3>1. phase' = phase /\ pc' = pc /\ held' = held /\ UNCHANGED genVars
      BY <2>3 DEF vars, heapVars
    <3>0. PICK flat : flat = Flat /\ flat = Flat'
      BY <3>1 DEF genVars, Flat
    <3>2. Code' /\ icode' = icode
      BY <3>1 DEF ScopeInv, Code, genVars
    <3>3. phase = "generate" => Generated'
      <4>1. ASSUME Generated PROVE Generated'
        <5>1. UNCHANGED <<symbols, symbolScope, scopeCounter, scopeStack, open, labels>> /\ Scopes
          BY <3>1, <4>1 DEF genVars, Generated
        <5>2. Scopes' /\ InView' = InView /\ \A k : Visible(k)' = Visible(k)
          BY <5>1, ScopesStay
        <5>3. \A needs : Planned(needs) => Planned(needs)'
          BY <3>0, <3>2, <5>1, <5>2 DEF Planned
        <5> QED
          BY <3>2, <4>1, <5>1, <5>2, <5>3 DEF Generated
      <4> QED
        BY <4>1 DEF ScopeInv
    <3>4. phase = "run" => Ruled'
      BY <3>0, <3>1, <3>2 DEF ScopeInv, Ruled
    <3> QED
      BY <3>0, <3>1, <3>2, <3>3, <3>4 DEF ScopeInv, NoHookOnGarbageIfFlat, NamedIsInitialised, NoHookOnGarbage
  <2> QED
    BY <2>1, <2>2, <2>3 DEF Next
<1> QED
  BY <1>1, <1>2, PTL DEF Spec

(***************************************************************************)
(* Whatever branches a body takes: a hook or a copy that its source names  *)
(* finds its variables initialised, so the scope check is enough; and when *)
(* every declaration stands in the outermost block, so does each hook of   *)
(* the row before a return.  Unlike the theorems on the discipline this    *)
(* one asks nothing of the counters.                                       *)
(***************************************************************************)
THEOREM ScopeCheckSuffices ==
    ASSUME Whole("self") \notin Readable, Whole("p") \notin Targets
    PROVE  Spec => []NoHookOnGarbageIfFlat
<1>1. ScopeInv => NoHookOnGarbageIfFlat
  BY DEF ScopeInv
<1> QED
  BY <1>1, ScopeInvariant, PTL
==============================================================================
