--------------------------- MODULE FunctionBodyLosses ---------------------------
(***************************************************************************)
(* No reference is lost where every declaration stands in the outermost    *)
(* block: what was retained is in a variable that destroys it, or on its   *)
(* way there, or in the return value.                                      *)
(*                                                                         *)
(* A reference can only be lost where its variable is overwritten without  *)
(* its __deconstructor__: by a null initialisation, or by the copy into a  *)
(* variable self, which is constructed and not assigned.  So it has to be  *)
(* shown that what is filled is never renewed again: in the order of the   *)
(* table because a name is declared once and before it is filled (Tidy),   *)
(* and on the way back of a loop because no declaration stands between a   *)
(* label and a jump to it (Clear).                                         *)
(***************************************************************************)
EXTENDS FunctionBodyScopes

\* The entry drops what v held.
Renews(e, v) ==
    \/ e.op = "nullInit" /\ e.unit.var = v
    \/ v = "self" /\ e.op = "copy" /\ e.dest = Whole("self")
Renewing(e) == e.op = "nullInit" \/ (e.op = "copy" /\ e.dest = Whole("self"))

Fills(e, v) == e.op = "copy" /\ e.dest.var = v
Jumps(e)    == e.op \in {"goto", "ifFalseGoto"}

\* Where the locals of A were declared before table c, and those of B are
\* behind it: what c renews is new, what it fills is not renewed further
\* down; what it retains is copied, and only a function that is not void
\* copies to its return value.
Tidy(c, A, B, void) ==
    /\ A \subseteq B
    /\ \A i \in DOMAIN c, v \in Local : Renews(c[i], v) => v \notin A
    /\ \A i \in DOMAIN c, v \in Local : Fills(c[i], v) => v \in B
    /\ \A i, j \in DOMAIN c, v \in Local : Fills(c[i], v) /\ Renews(c[j], v) => j <= i
    /\ \A i \in DOMAIN c : c[i].op = "beforeCopy" => i + 1 \in DOMAIN c /\ Underway(c, i + 1)
    /\ \A i \in DOMAIN c : Fills(c[i], "return") => ~ void

Still(c) == \A i \in DOMAIN c : ~ Renewing(c[i])

\* Nothing behind a label of ls is renewed; nothing between a label and a
\* jump back to it is.
Quiet(c, ls) ==
    \A i, j \in DOMAIN c : c[i].op = "label" /\ c[i].label \in ls /\ i <= j => ~ Renewing(c[j])
Clear(c) ==
    \A i, j, k \in DOMAIN c :
        c[i].op = "label" /\ Jumps(c[k]) /\ c[k].label = c[i].label /\ i <= j /\ j <= k => ~ Renewing(c[j])

------------------------------------------------------------------------------
(***************************************************************************)
(* Tables one behind the other.                                            *)
(***************************************************************************)
\* c is a with b behind its n entries.
Parts(a, b, c, n) ==
    /\ \A i \in DOMAIN a : i \in Nat /\ i <= n /\ i \in DOMAIN c /\ c[i] = a[i]
    /\ \A i \in DOMAIN b : i \in Nat /\ i > 0 /\ i + n \in DOMAIN c /\ c[i + n] = b[i]
    /\ \A i \in DOMAIN c : i \in DOMAIN a \/ \E k \in DOMAIN b : i = k + n

LEMMA Parted ==
    ASSUME NEW a \in Seq(Entries), NEW b \in Seq(Entries)
    PROVE  \E n \in Nat : Parts(a, b, a \o b, n)
<1>0. PICK c : c = a \o b
  OBVIOUS
<1>1. PICK n \in Nat : n = Len(a) /\ c = a \o b
  BY <1>0
<1>2. /\ Within(a, c, 0) /\ Within(b, c, n)
      /\ \A i \in DOMAIN c : i \in DOMAIN a \/ (i - n \in DOMAIN b /\ (i - n) + n = i)
  BY <1>1, Joins
<1>3. \A i \in DOMAIN a : i \in Nat /\ i <= n /\ i + 0 = i
  BY <1>1
<1>4. \A i \in DOMAIN b : i \in Nat /\ i > 0
  OBVIOUS
<1>5. \A i \in DOMAIN a : i \in DOMAIN c /\ c[i] = a[i]
  BY <1>2, <1>3 DEF Within
<1>6. \A i \in DOMAIN b : i + n \in DOMAIN c /\ c[i + n] = b[i]
  BY <1>2 DEF Within
<1>7. Parts(a, b, c, n)
  BY <1>2, <1>3, <1>4, <1>5, <1>6 DEF Parts
<1> QED
  BY <1>1, <1>7

LEMMA TidyJoin ==
    ASSUME NEW a \in Seq(Entries), NEW b \in Seq(Entries), NEW A, NEW B, NEW C, NEW void,
           Tidy(a, A, B, void), Tidy(b, B, C, void)
    PROVE  Tidy(a \o b, A, C, void)
<1>1. PICK c : c = a \o b
  OBVIOUS
<1>0. PICK n \in Nat : Parts(a, b, c, n)
  BY <1>1, Parted
<1>2. /\ n \in Nat
      /\ \A i \in DOMAIN a : i \in Nat /\ i <= n /\ i \in DOMAIN c /\ c[i] = a[i]
      /\ \A i \in DOMAIN b : i \in Nat /\ i > 0 /\ i + n \in DOMAIN c /\ c[i + n] = b[i]
      /\ \A i \in DOMAIN c : i \in DOMAIN a \/ \E k \in DOMAIN b : i = k + n
  BY <1>0 DEF Parts
<1>3. ASSUME NEW i \in DOMAIN c, NEW v \in Local PROVE Renews(c[i], v) => v \notin A
  BY <1>2 DEF Tidy
<1>4. ASSUME NEW i \in DOMAIN c, NEW v \in Local PROVE Fills(c[i], v) => v \in C
  BY <1>2 DEF Tidy
<1>5. ASSUME NEW i \in DOMAIN c, NEW j \in DOMAIN c, NEW v \in Local, Fills(c[i], v), Renews(c[j], v)
      PROVE  j <= i
  <2>1. CASE i \in DOMAIN a /\ j \in DOMAIN a
    BY <1>2, <1>5, <2>1 DEF Tidy
  <2>2. CASE i \in DOMAIN a /\ \E k \in DOMAIN b : j = k + n
    BY <1>2, <1>5, <2>2 DEF Tidy
  <2>3. CASE (\E k \in DOMAIN b : i = k + n) /\ j \in DOMAIN a
    BY <1>2, <2>3
  <2>4. CASE (\E k \in DOMAIN b : i = k + n) /\ \E k \in DOMAIN b : j = k + n
    <3>1. PICK k \in DOMAIN b, m \in DOMAIN b : i = k + n /\ j = m + n
      BY <2>4
    <3>2. Fills(b[k], v) /\ Renews(b[m], v)
      BY <1>2, <1>5, <3>1
    <3>3. m <= k
      BY <3>2 DEF Tidy
    <3> QED
      BY <1>2, <3>1, <3>3
  <2> QED
    BY <1>2, <2>1, <2>2, <2>3, <2>4
<1>6. ASSUME NEW i \in DOMAIN c, c[i].op = "beforeCopy" PROVE i + 1 \in DOMAIN c /\ Underway(c, i + 1)
  <2>1. CASE i \in DOMAIN a
    BY <1>2, <1>6, <2>1 DEF Tidy, Underway
  <2>2. CASE \E k \in DOMAIN b : i = k + n
    <3>1. PICK k \in DOMAIN b : i = k + n
      BY <2>2
    <3>2. b[k].op = "beforeCopy"
      BY <1>2, <1>6, <3>1
    <3>3. k + 1 \in DOMAIN b /\ Underway(b, k + 1)
      BY <3>2 DEF Tidy
    <3>4. i + 1 = (k + 1) + n
      BY <1>2, <3>1
    <3> QED
      BY <1>2, <3>3, <3>4 DEF Underway
  <2> QED
    BY <1>2, <2>1, <2>2
<1>7. ASSUME NEW i \in DOMAIN c, Fills(c[i], "return") PROVE ~ void
  BY <1>2, <1>7 DEF Tidy
<1>8. A \subseteq C
  BY DEF Tidy
<1> QED
  BY <1>1, <1>3, <1>4, <1>5, <1>6, <1>7, <1>8 DEF Tidy

LEMMA TidyWeaken ==
    ASSUME NEW c, NEW A, NEW B, NEW C, NEW void, Tidy(c, A, B, void), B \subseteq C
    PROVE  Tidy(c, A, C, void)
BY DEF Tidy

\* Entries that neither renew nor fill nor retain.
LEMMA TidyPlain ==
    ASSUME NEW c, \A i \in DOMAIN c : c[i].op \notin {"nullInit", "copy", "beforeCopy"}, NEW A, NEW void
    PROVE  Tidy(c, A, A, void) /\ Still(c)
BY DEF Tidy, Still, Renews, Renewing, Fills

LEMMA StillJoin ==
    ASSUME NEW a \in Seq(Entries), NEW b \in Seq(Entries), Still(a), Still(b)
    PROVE  Still(a \o b)
<1>1. PICK c : c = a \o b
  OBVIOUS
<1>0. PICK n \in Nat : Parts(a, b, c, n)
  BY <1>1, Parted
<1>2. /\ n \in Nat
      /\ \A i \in DOMAIN a : i \in Nat /\ i <= n /\ i \in DOMAIN c /\ c[i] = a[i]
      /\ \A i \in DOMAIN b : i \in Nat /\ i > 0 /\ i + n \in DOMAIN c /\ c[i + n] = b[i]
      /\ \A i \in DOMAIN c : i \in DOMAIN a \/ \E k \in DOMAIN b : i = k + n
  BY <1>0 DEF Parts
<1> QED
  BY <1>1, <1>2 DEF Still

LEMMA StillOn ==
    ASSUME NEW a \in Seq(Entries), NEW b \in Seq(Entries), NEW ls, Clear(a), Quiet(a, ls), Still(b),
           \A i \in DOMAIN b : Jumps(b[i]) => b[i].label \in ls
    PROVE  Clear(a \o b) /\ Quiet(a \o b, ls)
<1>1. PICK c : c = a \o b
  OBVIOUS
<1>0. PICK n \in Nat : Parts(a, b, c, n)
  BY <1>1, Parted
<1>2. /\ n \in Nat
      /\ \A i \in DOMAIN a : i \in Nat /\ i <= n /\ i \in DOMAIN c /\ c[i] = a[i]
      /\ \A i \in DOMAIN b : i \in Nat /\ i > 0 /\ i + n \in DOMAIN c /\ c[i + n] = b[i]
      /\ \A i \in DOMAIN c : i \in DOMAIN a \/ \E k \in DOMAIN b : i = k + n
  BY <1>0 DEF Parts
<1>3. \A j \in DOMAIN c : Renewing(c[j]) => j \in DOMAIN a
  BY <1>2 DEF Still
<1>4. \A i \in DOMAIN c, j \in DOMAIN a : i <= j => i \in DOMAIN a
  BY <1>2
<1>5. Quiet(c, ls)
  BY <1>2, <1>3, <1>4 DEF Quiet
<1>6. ASSUME NEW i \in DOMAIN c, NEW j \in DOMAIN c, NEW k \in DOMAIN c,
             c[i].op = "label", Jumps(c[k]), c[k].label = c[i].label, i <= j, j <= k, Renewing(c[j])
      PROVE  FALSE
  <2>1. i \in DOMAIN a /\ j \in DOMAIN a
    BY <1>3, <1>4, <1>6
  <2>2. CASE k \in DOMAIN a
    BY <1>2, <1>6, <2>1, <2>2 DEF Clear
  <2>3. CASE \E m \in DOMAIN b : k = m + n
    <3>1. c[k].label \in ls
      BY <1>2, <1>6, <2>3
    <3> QED
      BY <1>5, <1>6, <3>1 DEF Quiet
  <2> QED
    BY <1>2, <2>2, <2>3
<1> QED
  BY <1>1, <1>5, <1>6 DEF Clear

LEMMA DeclareOn ==
    ASSUME NEW a \in Seq(Entries), NEW b \in Seq(Entries), Clear(a), \A i \in DOMAIN b : ~ Jumps(b[i])
    PROVE  Clear(a \o b)
<1>1. PICK c : c = a \o b
  OBVIOUS
<1>0. PICK n \in Nat : Parts(a, b, c, n)
  BY <1>1, Parted
<1>2. /\ n \in Nat
      /\ \A i \in DOMAIN a : i \in Nat /\ i <= n /\ i \in DOMAIN c /\ c[i] = a[i]
      /\ \A i \in DOMAIN b : i \in Nat /\ i > 0 /\ i + n \in DOMAIN c /\ c[i + n] = b[i]
      /\ \A i \in DOMAIN c : i \in DOMAIN a \/ \E k \in DOMAIN b : i = k + n
  BY <1>0 DEF Parts
<1>3. \A k \in DOMAIN c : Jumps(c[k]) => k \in DOMAIN a
  BY <1>2
<1>4. \A i \in DOMAIN c, j \in DOMAIN a : i <= j => i \in DOMAIN a
  BY <1>2
<1>5. \A i \in DOMAIN a : c[i] = a[i]
  BY <1>2
<1> QED
  BY <1>1, <1>3, <1>4, <1>5 DEF Clear

\* A round of a for loop: its labels are new, and what it declares stands before them.
LEMMA RoundOn ==
    ASSUME NEW a \in Seq(Entries), NEW b \in Seq(Entries), NEW n \in Nat, Clear(a), LabelsUpTo(a, n),
           \A i \in DOMAIN b : b[i].op \in Branches => b[i].label > n /\ i # 1,
           \A i \in DOMAIN b : Renewing(b[i]) => i = 1,
           NEW ls, \A l \in ls : l \in Nat /\ l > n
    PROVE  Clear(a \o b) /\ Quiet(a \o b, ls)
<1>1. PICK c : c = a \o b
  OBVIOUS
<1>0. PICK m \in Nat : Parts(a, b, c, m)
  BY <1>1, Parted
<1>2. /\ m \in Nat
      /\ \A i \in DOMAIN a : i \in Nat /\ i <= m /\ i \in DOMAIN c /\ c[i] = a[i]
      /\ \A i \in DOMAIN b : i \in Nat /\ i > 0 /\ i + m \in DOMAIN c /\ c[i + m] = b[i]
      /\ \A i \in DOMAIN c : i \in DOMAIN a \/ \E k \in DOMAIN b : i = k + m
  BY <1>0 DEF Parts
<1>3. \A i \in DOMAIN a : c[i].op \in Branches => c[i].label \in Nat /\ c[i].label <= n
  BY <1>2, EntryFields DEF LabelsUpTo, Branches
<1>4. \A i \in DOMAIN b : c[i + m].op \in Branches =>
                            c[i + m].label \in Nat /\ c[i + m].label > n /\ i > 1
  BY <1>2, EntryFields DEF Branches
<1>5. \A i \in DOMAIN b : Renewing(c[i + m]) => i = 1
  BY <1>2
<1>6. ASSUME NEW i \in DOMAIN b, c[i + m].op = "label", NEW j \in DOMAIN c, i + m <= j
      PROVE  ~ Renewing(c[j])
  <2>1. i > 1
    BY <1>4, <1>6 DEF Branches
  <2>2. PICK k \in DOMAIN b : j = k + m
    BY <1>2, <1>6, SMTT(30)
  <2>3. k > 1
    BY <1>2, <1>6, <2>1, <2>2
  <2> QED
    BY <1>5, <2>2, <2>3
<1>7. Quiet(c, ls)
  <2> SUFFICES ASSUME NEW i \in DOMAIN c, NEW j \in DOMAIN c, c[i].op = "label", c[i].label \in ls, i <= j
               PROVE  ~ Renewing(c[j])
    BY DEF Quiet
  <2>1. i \notin DOMAIN a
    BY <1>3 DEF Branches
  <2>2. PICK k \in DOMAIN b : i = k + m
    BY <1>2, <2>1
  <2> QED
    BY <1>6, <2>2
<1>8. Clear(c)
  <2> SUFFICES ASSUME NEW i \in DOMAIN c, NEW j \in DOMAIN c, NEW k \in DOMAIN c,
                      c[i].op = "label", Jumps(c[k]), c[k].label = c[i].label, i <= j, j <= k
               PROVE  ~ Renewing(c[j])
    BY DEF Clear
  <2>1. CASE i \in DOMAIN a
    <3>1. c[i].label \in Nat /\ c[i].label <= n
      BY <1>3, <2>1 DEF Branches
    <3>2. c[k].op \in Branches
      BY DEF Jumps, Branches
    <3>3. k \in DOMAIN a
      BY <1>2, <1>4, <3>1, <3>2
    <3>4. j \in DOMAIN a
      BY <1>2, <3>3
    <3> QED
      BY <1>2, <2>1, <3>3, <3>4 DEF Clear
  <2>2. CASE \E q \in DOMAIN b : i = q + m
    BY <1>6, <2>2
  <2> QED
    BY <1>2, <2>1, <2>2
<1> QED
  BY <1>1, <1>7, <1>8

------------------------------------------------------------------------------
(***************************************************************************)
(* The rows of statements.                                                 *)
(***************************************************************************)
LEMMA NullInitTidy ==
    ASSUME NEW s \in Local, NEW A, s \notin A, NEW void
    PROVE  <<NullInit(s)>> \in Seq(Entries) /\ Tidy(<<NullInit(s)>>, A, A, void)
<1>1. PICK e, c : e = NullInit(s) /\ c = <<e>>
  OBVIOUS
<1>2. e \in Entries /\ e.op = "nullInit" /\ e.unit.var = s
  BY <1>1, NullInitFits DEF NullInit, Whole
<1>3. c \in Seq(Entries) /\ DOMAIN c = {1} /\ c[1] = e
  BY <1>1, <1>2
<1>4. Tidy(c, A, A, void)
  BY <1>2, <1>3 DEF Tidy, Renews, Fills
<1> QED
  BY <1>1, <1>3, <1>4

LEMMA EvaluateTidy ==
    ASSUME NEW src, NEW A, NEW void
    PROVE  /\ Evaluate(src) \in Seq(Entries) /\ Tidy(Evaluate(src), A, A, void) /\ Still(Evaluate(src))
           /\ \A i \in DOMAIN Evaluate(src) : Evaluate(src)[i].op \notin Branches
<1>1. PICK e, c : e = Call /\ c = Evaluate(src)
  OBVIOUS
<1>2. e \in Entries /\ e.op = "call"
  BY <1>1 DEF Entries, Call
<1>3. c = <<>> \/ c = <<e>>
  BY <1>1 DEF Evaluate
<1>4. c \in Seq(Entries) /\ \A i \in DOMAIN c : c[i].op = "call"
  <2>1. CASE c = <<>>
    BY <2>1
  <2>2. CASE c = <<e>>
    BY <1>2, <2>2
  <2> QED
    BY <1>3, <2>1, <2>2
<1> QED
  BY <1>1, <1>4, TidyPlain DEF Branches

LEMMA SweepTidy ==
    ASSUME symbols \subseteq Local, NEW A, NEW void, NEW row, row = createReturnAndCallDeconstructors
    PROVE  /\ row \in Seq(Entries) /\ Tidy(row, A, A, void) /\ Still(row)
           /\ \A i \in DOMAIN row : row[i].op \notin Branches
<1>1. PICK r \in Seq(SweepEntries) : callDeconstructorOnDeclaredSymbols = r
  BY SweepRow
<1>2. PICK e : e = Ret /\ row = r \o <<e>>
  BY <1>1 DEF createReturnAndCallDeconstructors
<1>3. e \in Entries /\ e.op = "ret"
  BY <1>2 DEF Entries, Ret
<1>4. \A i \in DOMAIN r : r[i] \in Entries /\ r[i].op = "deconstruct"
  <2> TAKE i \in DOMAIN r
  <2>1. r[i] \in SweepEntries
    OBVIOUS
  <2> QED
    BY <2>1, SweepEntryFields
<1>5. r \in Seq(Entries) /\ Len(r) \in Nat /\ DOMAIN r = 1 .. Len(r)
  BY <1>4
<1>6. /\ row \in Seq(Entries) /\ Len(row) = Len(r) + 1 /\ row[Len(r) + 1] = e
      /\ \A i \in 1 .. Len(r) : row[i] = r[i]
  BY <1>2, <1>3, <1>5, Behind
<1>7. \A i \in DOMAIN row : row[i].op \in {"deconstruct", "ret"}
  <2> TAKE i \in DOMAIN row
  <2>1. i \in 1 .. Len(r) \/ i = Len(r) + 1
    BY <1>5, <1>6
  <2> QED
    BY <1>3, <1>4, <1>5, <1>6, <2>1
<1> QED
  BY <1>6, <1>7, TidyPlain DEF Branches

LEMMA CopyTidy ==
    ASSUME NEW d \in Overwritten, NEW s \in Copied, NEW A, NEW B, A \subseteq B,
           d.var \in Local => d.var \in B, d = Whole("self") => "self" \notin A, NEW void
    PROVE  /\ unitCopy(d, s) \in Seq(Entries) /\ Tidy(unitCopy(d, s), A, B, void)
           /\ d # Whole("self") => Still(unitCopy(d, s))
           /\ \A i \in DOMAIN unitCopy(d, s) : unitCopy(d, s)[i].op \notin Branches
<1> DEFINE x == hookOn(s, "beforeCopy", FALSE)
           y == hookOn(d, "deconstruct", FALSE)
           z == copyOf(d, s, TRUE)
<1>1. s \in Unit /\ d \in Unit /\ d.var # "return"
  BY LocalOrderIsLocal DEF Overwritten, Copied, Variable
<1>2. x \in Entries /\ x.op = "beforeCopy"
  BY <1>1, HookEntries
<1>3. y \in Entries /\ y.op = "deconstruct" /\ ~ y.sweep
  BY <1>1, HookEntries
<1>4. z \in Entries /\ z.op = "copy" /\ z.dest = d /\ z.counted
  <2>1. ASSUME NEW t \in BOOLEAN
        PROVE  copyOf(d, s, t) \in Entries /\ copyOf(d, s, t).op = "copy"
               /\ copyOf(d, s, t).dest = d /\ copyOf(d, s, t).counted = t
    BY <1>1, CopyEntries
  <2>2. TRUE \in BOOLEAN
    OBVIOUS
  <2> QED
    BY <2>1, <2>2, Zenon
<1>5. unitCopy(d, s) = IF d = Whole("self") THEN <<x, z>> ELSE <<x, y, z>>
  BY CopyRow
<1>6. Whole("self").var = "self"
  BY DEF Whole
<1> HIDE DEF x, y, z
<1>7. PICK c : c = unitCopy(d, s)
  OBVIOUS
<1>8. CASE d = Whole("self")
  <2>1. c = <<x, z>>
    BY <1>5, <1>7, <1>8
  <2>2. c \in Seq(Entries) /\ DOMAIN c = {1, 2} /\ c[1] = x /\ c[2] = z
    BY <1>2, <1>4, <2>1
  <2>3. \A i \in DOMAIN c, v \in Local : (Renews(c[i], v) => v = "self" /\ i = 2) /\ (Fills(c[i], v) => v = "self")
    BY <1>2, <1>4, <1>6, <1>8, <2>2 DEF Renews, Fills
  <2>4. \A i \in DOMAIN c : (c[i].op = "beforeCopy" => i = 1) /\ ~ Fills(c[i], "return")
    BY <1>1, <1>2, <1>4, <2>2 DEF Fills
  <2>5. 1 + 1 \in DOMAIN c /\ Underway(c, 1 + 1)
    BY <1>4, <2>2 DEF Underway
  <2>6. \A i, j \in DOMAIN c, v \in Local : Fills(c[i], v) /\ Renews(c[j], v) => j <= i
    BY <1>2, <1>4, <2>2, <2>3 DEF Fills
  <2>7. Tidy(c, A, B, void)
    BY <1>6, <1>8, <2>3, <2>4, <2>5, <2>6 DEF Tidy
  <2>8. \A i \in DOMAIN c : c[i].op \notin Branches
    BY <1>2, <1>4, <2>2 DEF Branches
  <2> QED
    BY <1>7, <1>8, <2>2, <2>7, <2>8
<1>9. CASE d # Whole("self")
  <2>1. c = <<x, y, z>>
    BY <1>5, <1>7, <1>9
  <2>2. c \in Seq(Entries) /\ DOMAIN c = {1, 2, 3} /\ c[1] = x /\ c[2] = y /\ c[3] = z
    BY <1>2, <1>3, <1>4, <2>1
  <2>3. \A i \in DOMAIN c, v \in Local : ~ Renews(c[i], v) /\ (Fills(c[i], v) => v = d.var)
    BY <1>2, <1>3, <1>4, <1>9, <2>2 DEF Renews, Fills
  <2>4. \A i \in DOMAIN c : (c[i].op = "beforeCopy" => i = 1) /\ ~ Fills(c[i], "return")
    BY <1>1, <1>2, <1>3, <1>4, <2>2 DEF Fills
  <2>5. 1 + 1 \in DOMAIN c /\ Underway(c, 1 + 1)
    BY <1>3, <2>2 DEF Underway
  <2>6. Tidy(c, A, B, void)
    BY <2>3, <2>4, <2>5 DEF Tidy
  <2>7. Still(c)
    BY <1>2, <1>3, <1>4, <1>9, <2>2 DEF Still, Renewing
  <2>8. \A i \in DOMAIN c : c[i].op \notin Branches
    BY <1>2, <1>3, <1>4, <2>2 DEF Branches
  <2> QED
    BY <1>7, <2>2, <2>6, <2>7, <2>8
<1> QED
  BY <1>8, <1>9

LEMMA ReturnTidy ==
    ASSUME NEW v \in Variable \cup {"callee"}, NEW A, NEW u, u = unitCopy(Whole("return"), Whole(v))
    PROVE  /\ u \in Seq(Entries) /\ Tidy(u, A, A, FALSE) /\ Still(u)
           /\ \A i \in DOMAIN u : u[i].op \notin Branches
<1> DEFINE x == hookOn(Whole(v), "beforeCopy", FALSE)
           y == copyOf(Whole("return"), Whole(v), TRUE)
           z == copyOf(Whole("return"), Whole(v), FALSE)
<1>1. Whole(v) \in Unit /\ Whole("return") \in Unit
  BY DEF Whole, Unit, Storage, Variable
<1>2. x \in Entries /\ x.op = "beforeCopy"
  BY <1>1, HookEntries
<1>3. y \in Entries /\ y.op = "copy" /\ y.dest = Whole("return") /\ y.counted
  BY <1>1, CopyEntries, ZenonT(30)
<1>4. z \in Entries /\ z.op = "copy" /\ z.dest = Whole("return")
  BY <1>1, CopyEntries, ZenonT(30)
<1>5. u = <<x, y>> \/ u = <<z>>
  BY ReturnRow
<1>6. Whole("return").var = "return" /\ "return" \notin Local /\ Whole("return") # Whole("self")
  BY LocalOrderIsLocal DEF Whole
<1> HIDE DEF x, y, z
<1>7. u \in Seq(Entries) /\ (\A i \in DOMAIN u : u[i] = x \/ u[i] = y \/ u[i] = z)
  <2>1. CASE u = <<x, y>>
    BY <1>2, <1>3, <2>1, SMTT(30)
  <2>2. CASE u = <<z>>
    <3>1. <<z>> \in Seq(Entries)
      BY <1>4
    <3>2. DOMAIN u = {1} /\ u[1] = z
      BY <2>2
    <3> QED
      BY <2>2, <3>1, <3>2
  <2> QED
    BY <1>5, <2>1, <2>2
<1>8. \A i \in DOMAIN u : u[i].op = "beforeCopy" => i + 1 \in DOMAIN u /\ Underway(u, i + 1)
  <2>1. CASE u = <<x, y>>
    <3>1. DOMAIN u = {1, 2} /\ u[1] = x /\ u[2] = y
      BY <2>1
    <3> QED
      BY <1>2, <1>3, <3>1 DEF Underway
  <2>2. CASE u = <<z>>
    <3>1. DOMAIN u = {1} /\ u[1] = z
      BY <2>2
    <3> QED
      BY <1>4, <3>1
  <2> QED
    BY <1>5, <2>1, <2>2
<1>9. \A i \in DOMAIN u : ~ Renewing(u[i]) /\ \A w \in Local : ~ Renews(u[i], w) /\ ~ Fills(u[i], w)
  BY <1>2, <1>3, <1>4, <1>6, <1>7 DEF Renewing, Renews, Fills
<1>10. \A i \in DOMAIN u : u[i].op \notin Branches
  BY <1>2, <1>3, <1>4, <1>7 DEF Branches
<1> QED
  BY <1>7, <1>8, <1>9, <1>10 DEF Tidy, Still

\* A row without labels and jumps.
Neat(c, A, B, void) ==
    c \in Seq(Entries) /\ Tidy(c, A, B, void) /\ \A i \in DOMAIN c : c[i].op \notin Branches

LEMMA NeatJoin ==
    ASSUME NEW a, NEW b, NEW A, NEW B, NEW C, NEW void, Neat(a, A, B, void), Neat(b, B, C, void)
    PROVE  Neat(a \o b, A, C, void)
<1>1. PICK c : c = a \o b
  OBVIOUS
<1>2. a \in Seq(Entries) /\ b \in Seq(Entries) /\ Tidy(a, A, B, void) /\ Tidy(b, B, C, void)
  BY DEF Neat
<1>3. Tidy(c, A, C, void) /\ c \in Seq(Entries)
  BY <1>1, <1>2, TidyJoin, Joins
<1>4. PICK n \in Nat : Parts(a, b, c, n)
  BY <1>1, <1>2, Parted
<1>5. \A i \in DOMAIN c : c[i].op \notin Branches
  BY <1>4 DEF Parts, Neat
<1> QED
  BY <1>1, <1>3, <1>5 DEF Neat

LEMMA DeclaredTidy ==
    ASSUME NEW s \in Local, NEW src \in Copied, NEW A, s \notin A, NEW void
    PROVE  /\ Neat(<<NullInit(s)>>, A, A \cup {s}, void)
           /\ Neat(<<NullInit(s)>> \o Evaluate(src) \o unitCopy(Whole(s), src), A, A \cup {s}, void)
           /\ Neat(Evaluate(src) \o <<NullInit(s)>> \o unitCopy(Whole(s), src), A, A \cup {s}, void)
<1>1. PICK a, e, u, B : a = <<NullInit(s)>> /\ e = Evaluate(src) /\ u = unitCopy(Whole(s), src) /\ B = A \cup {s}
  OBVIOUS
<1>2. Neat(a, A, A, void)
  <2>1. a \in Seq(Entries) /\ Tidy(a, A, A, void)
    BY <1>1, NullInitTidy
  <2>2. \A i \in DOMAIN a : a[i] = NullInit(s)
    BY <1>1
  <2>3. \A i \in DOMAIN a : a[i].op \notin Branches
    BY <2>2 DEF NullInit, Branches
  <2> QED
    BY <2>1, <2>3 DEF Neat
<1>3. Neat(e, A, A, void)
  BY <1>1, EvaluateTidy DEF Neat
<1>4. Whole(s) \in Overwritten /\ Whole(s).var = s /\ (Whole(s) = Whole("self") => s = "self")
  BY NullInitFits DEF Whole
<1>5. Neat(u, A, B, void)
  <2>1. PICK d : d = Whole(s)
    OBVIOUS
  <2>2. A \subseteq B /\ d \in Overwritten /\ (d.var \in Local => d.var \in B) /\ (d = Whole("self") => "self" \notin A)
    BY <1>1, <1>4, <2>1
  <2>3. /\ unitCopy(d, src) \in Seq(Entries) /\ Tidy(unitCopy(d, src), A, B, void)
        /\ \A i \in DOMAIN unitCopy(d, src) : unitCopy(d, src)[i].op \notin Branches
    BY <2>2, CopyTidy
  <2> QED
    BY <1>1, <2>1, <2>3 DEF Neat
<1>6. Neat(a, A, B, void)
  BY <1>1, <1>2, TidyWeaken DEF Neat
<1>7. Neat(a \o e, A, A, void) /\ Neat(e \o a, A, A, void)
  BY <1>2, <1>3, NeatJoin
<1>8. Neat(a \o e \o u, A, B, void) /\ Neat(e \o a \o u, A, B, void)
  BY <1>5, <1>7, NeatJoin
<1> QED
  BY <1>1, <1>6, <1>8

LEMMA AssignedTidy ==
    ASSUME NEW dst \in Overwritten, dst # Whole("self"), NEW src \in Copied, NEW A,
           dst.var \in Local => dst.var \in A, NEW void
    PROVE  LET row == Evaluate(src) \o unitCopy(dst, src) IN Neat(row, A, A, void) /\ Still(row)
<1>1. PICK e, u : e = Evaluate(src) /\ u = unitCopy(dst, src)
  OBVIOUS
<1>2. Neat(e, A, A, void) /\ Still(e)
  BY <1>1, EvaluateTidy DEF Neat
<1>3. Neat(u, A, A, void) /\ Still(u)
  BY <1>1, CopyTidy DEF Neat
<1>4. Neat(e \o u, A, A, void) /\ Still(e \o u)
  BY <1>2, <1>3, NeatJoin, StillJoin DEF Neat
<1> QED
  BY <1>1, <1>4

LEMMA ReturnedTidy ==
    ASSUME symbols \subseteq Local, NEW v \in Variable \cup {"callee"}, NEW A, NEW row,
           row = (IF isVoid THEN <<>> ELSE Evaluate(Whole(v)) \o unitCopy(Whole("return"), Whole(v)))
                    \o createReturnAndCallDeconstructors
    PROVE  Neat(row, A, A, isVoid) /\ Still(row)
<1>1. PICK e, u, w : /\ e = Evaluate(Whole(v)) /\ u = unitCopy(Whole("return"), Whole(v))
                     /\ w = createReturnAndCallDeconstructors
  OBVIOUS
<1>2. Neat(w, A, A, isVoid) /\ Still(w)
  BY <1>1, SweepTidy DEF Neat
<1>3. CASE isVoid
  <2>1. w \in Seq(Entries)
    BY <1>2 DEF Neat
  <2>2. row = w
    BY <1>1, <1>3, <2>1
  <2> QED
    BY <1>2, <2>2
<1>4. CASE ~ isVoid
  <2>1. Neat(e, A, A, isVoid) /\ Still(e)
    BY <1>1, EvaluateTidy DEF Neat
  <2>2. u \in Seq(Entries) /\ Tidy(u, A, A, FALSE) /\ Still(u) /\ \A i \in DOMAIN u : u[i].op \notin Branches
    BY <1>1, ReturnTidy
  <2>3. Tidy(u, A, A, isVoid)
    BY <1>4, <2>2 DEF Tidy
  <2>4. Neat(u, A, A, isVoid)
    BY <2>2, <2>3 DEF Neat
  <2>5. Neat(e \o u, A, A, isVoid) /\ Still(e \o u)
    BY <2>1, <2>2, <2>4, NeatJoin, StillJoin DEF Neat
  <2>6. Neat(e \o u \o w, A, A, isVoid) /\ Still(e \o u \o w)
    BY <1>2, <2>5, NeatJoin, StillJoin DEF Neat
  <2>7. row = e \o u \o w
    BY <1>1, <1>4
  <2> QED
    BY <2>6, <2>7
<1> QED
  BY <1>3, <1>4

\* What a for loop over s emits, with its own label and that behind it.
Round(s, l, r) == <<NullInit(s), CreateLabel(l), IfFalseGoto(r), Call>> \o unitCopy(Whole(s), Whole("callee"))

\* Only the first entry of the row renews, and it is no label or jump.
Turning(row, s, A, void, l, r) ==
    /\ row \in Seq(Entries) /\ Tidy(row, A, A \cup {s}, void)
    /\ \A i \in DOMAIN row : Renewing(row[i]) => i = 1
    /\ \A i \in DOMAIN row : row[i].op \in Branches => i # 1 /\ (row[i].label = l \/ row[i].label = r)

LEMMA RoundTidy ==
    ASSUME NEW s \in Local, s # "self", NEW A, s \notin A, NEW void, NEW l \in Nat, NEW r \in Nat, NEW row,
           row = Round(s, l, r)
    PROVE  Turning(row, s, A, void, l, r)
<1>1. PICK m, x, y, z : m = NullInit(s) /\ x = CreateLabel(l) /\ y = IfFalseGoto(r) /\ z = Call
  OBVIOUS
<1>2. /\ m \in Entries /\ m.op = "nullInit" /\ m.unit.var = s
      /\ x \in Entries /\ x.op = "label" /\ x.label = l
      /\ y \in Entries /\ y.op = "ifFalseGoto" /\ y.label = r
  BY <1>1, NullInitFits, LabelEntries DEF NullInit, Whole
<1>3. z \in Entries /\ z.op = "call"
  BY <1>1 DEF Entries, Call
<1>4. PICK h, u, B : h = <<m, x, y, z>> /\ u = unitCopy(Whole(s), Whole("callee")) /\ B = A \cup {s}
  OBVIOUS
<1>5. /\ h \in Seq(Entries) /\ DOMAIN h = {1, 2, 3, 4}
      /\ h[1] = m /\ h[2] = x /\ h[3] = y /\ h[4] = z
  BY <1>2, <1>3, <1>4
<1>6. \A i \in DOMAIN h, v \in Local : (Renews(h[i], v) => v = s) /\ ~ Fills(h[i], v)
  BY <1>2, <1>3, <1>5 DEF Renews, Fills
<1>7. \A i \in DOMAIN h : h[i].op # "beforeCopy" /\ ~ Fills(h[i], "return")
  BY <1>2, <1>3, <1>5 DEF Fills
<1>8. Tidy(h, A, A, void)
  BY <1>6, <1>7 DEF Tidy
<1>9. /\ Whole("callee") \in Copied /\ Whole(s) \in Overwritten /\ Whole(s).var = s /\ Whole(s) # Whole("self")
  BY NullInitFits DEF Copied, Whole, Unit, Storage
<1>10. Neat(u, A, B, void) /\ Still(u)
  BY <1>4, <1>9, CopyTidy DEF Neat
<1>11. u \in Seq(Entries) /\ Tidy(u, A, B, void) /\ \A i \in DOMAIN u : u[i].op \notin Branches
  BY <1>10 DEF Neat
<1>12. PICK c : c = h \o u
  OBVIOUS
<1>13. c \in Seq(Entries) /\ Tidy(c, A, B, void)
  BY <1>5, <1>8, <1>11, <1>12, TidyJoin, Joins
<1>14. PICK n \in Nat : Parts(h, u, c, n)
  BY <1>5, <1>11, <1>12, Parted
<1>15. \A i \in DOMAIN c : i \in DOMAIN h \/ (~ Renewing(c[i]) /\ c[i].op \notin Branches)
  BY <1>10, <1>11, <1>14 DEF Parts, Still
<1>16. \A i \in DOMAIN h : c[i] = h[i]
  BY <1>14 DEF Parts
<1>17. \A i \in DOMAIN h : (Renewing(h[i]) => i = 1) /\ (h[i].op \in Branches => i # 1 /\ (h[i].label = l \/ h[i].label = r))
  BY <1>2, <1>3, <1>5 DEF Renewing, Branches
<1>18. row = c
  BY <1>1, <1>4, <1>12 DEF Round
<1> QED
  BY <1>4, <1>13, <1>15, <1>16, <1>17, <1>18 DEF Turning

------------------------------------------------------------------------------
(***************************************************************************)
(* The table while it is written: it is tidy, and when every declaration   *)
(* stands in the outermost block, nothing is renewed behind a label that   *)
(* an open block may still jump to.                                        *)
(***************************************************************************)
LabelsOf(b) ==
    {b.exits[i] : i \in DOMAIN b.exits} \cup (IF b.inLoop THEN {b.breakLabel, b.continueLabel} ELSE {})
Labelled == UNION {LabelsOf(open[k]) : k \in DOMAIN open}

Settled ==
    /\ ~ open[1].inLoop
    /\ Tidy(icode, {}, symbols, isVoid)
    /\ Flat => Clear(icode) /\ Quiet(icode, Labelled)

\* A row that renews nothing; ls holds the labels of the open blocks, and new ones.
LEMMA SettledOn ==
    ASSUME Code, Generated, Settled, NEW row \in Seq(Entries), icode' = icode \o row, isVoid' = isVoid,
           Tidy(row, symbols, symbols', isVoid), Still(row), ~ open'[1].inLoop, Flat' => Flat,
           NEW ls, \A l \in ls : l \in Labelled \/ (l \in Nat /\ l > labels),
           \A k \in DOMAIN open' : LabelsOf(open'[k]) \subseteq ls,
           \A i \in DOMAIN row : Jumps(row[i]) => row[i].label \in ls
    PROVE  Settled'
<1>1. icode \in Seq(Entries) /\ labels \in Nat
  BY DEF Code, WellFormed
<1>2. Tidy(icode', {}, symbols', isVoid')
  BY <1>1, TidyJoin DEF Settled
<1>3. ASSUME Flat' PROVE Clear(icode') /\ Quiet(icode', Labelled')
  <2>1. Clear(icode) /\ Quiet(icode, Labelled)
    BY <1>3 DEF Settled
  <2>2. \A i \in DOMAIN icode : icode[i].op = "label" => icode[i].label \in Nat /\ icode[i].label <= labels
    <3>1. \A i \in DOMAIN icode : icode[i] \in Entries
      BY <1>1
    <3> QED
      BY <3>1, EntryFields DEF Generated, LabelsUpTo, Branches
  <2>3. Quiet(icode, ls)
    <3> SUFFICES ASSUME NEW i \in DOMAIN icode, NEW j \in DOMAIN icode,
                        icode[i].op = "label", icode[i].label \in ls, i <= j
                 PROVE  ~ Renewing(icode[j])
      BY DEF Quiet
    <3>1. icode[i].label \in Labelled
      BY <1>1, <2>2
    <3> QED
      BY <2>1, <3>1 DEF Quiet
  <2>4. Clear(icode') /\ Quiet(icode', ls)
    BY <1>1, <2>1, <2>3, StillOn
  <2>5. Labelled' \subseteq ls
    BY DEF Labelled
  <2> QED
    BY <2>4, <2>5 DEF Quiet
<1> QED
  BY <1>2, <1>3 DEF Settled

\* Where the innermost scope is that of the function, no block is open in it.
LEMMA OnlyBlock ==
    ASSUME Code, Scopes, ~ open[1].inLoop, Last(scopeStack) = 1
    PROVE  Len(open) = 1 /\ Labelled = {}
<1>1. PICK n \in Nat : n = Len(scopeStack)
  BY DEF Scopes
<1>2. /\ open \in Seq(Blocks) /\ open # <<>> /\ Len(open) \in Nat /\ n = Len(open) + 1 /\ n > 1
      /\ scopeStack[2] = 1 /\ scopeStack[n] = 1
      /\ \A i, j \in 1 .. n : scopeStack[i] = scopeStack[j] => i = j
  BY <1>1, TopBlock DEF Code, Scopes, Last
<1>3. 2 \in 1 .. n /\ n \in 1 .. n
  BY <1>2
<1>4. n = 2
  BY <1>2, <1>3
<1>5. Len(open) = 1 /\ 1 \in DOMAIN open /\ DOMAIN open = {1}
  <2>1. PICK c, m : c = open /\ m = Len(open)
    OBVIOUS
  <2>2. c \in Seq(Blocks) /\ Len(c) = 1
    <3>1. c \in Seq(Blocks) /\ m \in Nat /\ 2 = m + 1
      BY <1>2, <1>4, <2>1
    <3>2. m = 1
      BY <3>1
    <3> QED
      BY <2>1, <3>1, <3>2
  <2>3. DOMAIN c = 1 .. 1
    BY <2>2
  <2>4. \A i : i \in 1 .. 1 <=> i = 1
    OBVIOUS
  <2>5. DOMAIN c = {1}
    BY <2>3, <2>4
  <2> QED
    BY <2>1, <2>2, <2>5
<1>6. open[1] \in Blocks /\ open[1].kind = "function" /\ Exits(open[1])
  <2>1. PICK b, k : k = 1 /\ b = open[k]
    OBVIOUS
  <2>2. k \in DOMAIN open
    BY <1>5, <2>1
  <2>3. (b.kind = "function" <=> k = 1) /\ Exits(b)
    BY <2>1, <2>2 DEF Code
  <2>4. b \in Blocks
    BY <1>2, <2>1, <2>2
  <2> QED
    BY <2>1, <2>3, <2>4
<1>7. Len(open[1].exits) = 0 /\ open[1].exits \in Seq(Nat)
  BY <1>6 DEF Exits, Blocks
<1>8. DOMAIN open[1].exits = {}
  <2>1. PICK e : e = open[1].exits
    OBVIOUS
  <2>2. e \in Seq(Nat) /\ Len(e) = 0
    BY <1>7, <2>1
  <2>3. DOMAIN e = {}
    BY <2>2
  <2> QED
    BY <2>1, <2>3
<1>9. LabelsOf(open[1]) = {}
  BY <1>8 DEF LabelsOf
<1> QED
  BY <1>5, <1>9 DEF Labelled

LEMMA SettledDeclaring ==
    ASSUME Code, Generated, Settled, NEW s \in Local, s \notin symbols, createLocal(s),
           NEW row, Neat(row, symbols, symbols \cup {s}, isVoid), icode' = icode \o row,
           UNCHANGED <<isVoid, scopeStack, open>>
    PROVE  Settled'
<1>1. icode \in Seq(Entries) /\ Scopes /\ symbols' = symbols \cup {s} /\ ~ open[1].inLoop
  BY DEF Code, WellFormed, Generated, createLocal, Settled
<1>2. row \in Seq(Entries) /\ Tidy(row, symbols, symbols', isVoid) /\ \A i \in DOMAIN row : ~ Jumps(row[i])
  BY <1>1 DEF Neat, Jumps, Branches
<1>3. Tidy(icode', {}, symbols', isVoid')
  BY <1>1, <1>2, TidyJoin DEF Settled
<1>4. ASSUME Flat' PROVE Clear(icode') /\ Quiet(icode', Labelled')
  <2>1. PICK n \in Nat : n = Len(scopeStack)
    BY <1>1 DEF Scopes
  <2>2. Flat' => Flat /\ Last(scopeStack) = 1
    BY <1>1, <2>1, Declares
  <2>3. Labelled' = {}
    <3>1. Labelled = {}
      BY <1>1, <1>4, <2>2, OnlyBlock
    <3> QED
      BY <3>1 DEF Labelled
  <2>4. Clear(icode')
    BY <1>1, <1>2, <1>4, <2>2, DeclareOn DEF Settled
  <2> QED
    BY <2>3, <2>4 DEF Quiet
<1> QED
  BY <1>1, <1>3, <1>4 DEF Settled

LEMMA LocalSettled ==
    ASSUME Code, Generated, Settled, Whole("self") \notin Readable, NEW s \in Local, local(s), ~ Reject
    PROVE  Settled'
<1>1. /\ s \notin symbols /\ createLocal(s) /\ symbols \subseteq Local
      /\ UNCHANGED <<scopeStack, open>>
  BY DEF local, Code
<1>2. ASSUME NEW row, Emit(row), Neat(row, symbols, symbols \cup {s}, isVoid)
      PROVE  Settled'
  BY <1>1, <1>2, SettledDeclaring DEF Emit
<1>3. Whole("callee") \in Copied
  BY LocalOrderIsLocal DEF Copied, Whole, Unit, Storage
<1>4. CASE Emit(<<NullInit(s)>>)
  BY <1>1, <1>2, <1>3, <1>4, DeclaredTidy
<1>5. ASSUME NEW src \in Wholes, src = Whole(s) \/ CanRead(src),
             Emit(<<NullInit(s)>> \o Evaluate(src) \o unitCopy(Whole(s), src))
      PROVE  Settled'
  <2>1. src \in Copied
    BY <1>1, <1>5, Reads DEF Wholes
  <2> QED
    BY <1>1, <1>2, <1>5, <2>1, DeclaredTidy
<1> QED
  BY <1>1, <1>4, <1>5 DEF local, Reject, genVars

LEMMA WalrusSettled ==
    ASSUME Code, Generated, Settled, Whole("self") \notin Readable, NEW s \in Local, NEW src \in Wholes,
           walrusLocal(s, src), ~ Reject
    PROVE  Settled'
<1>1. /\ s \notin symbols /\ createLocal(s) /\ symbols \subseteq Local /\ CanRead(src)
      /\ UNCHANGED <<isVoid, scopeStack, open>>
      /\ icode' = icode \o (Evaluate(src) \o <<NullInit(s)>> \o unitCopy(Whole(s), src))
  BY DEF walrusLocal, Code, Emit, Reject, genVars
<1>2. src \in Copied
  BY <1>1, Reads DEF Wholes
<1>3. PICK row : row = Evaluate(src) \o <<NullInit(s)>> \o unitCopy(Whole(s), src)
  OBVIOUS
<1>4. Neat(row, symbols, symbols \cup {s}, isVoid)
  BY <1>1, <1>2, <1>3, DeclaredTidy
<1> QED
  BY <1>1, <1>3, <1>4, SettledDeclaring

\* Statements that leave the blocks as they are, and declare nothing.
LEMMA SettledInside ==
    ASSUME Code, Generated, Settled, NEW row \in Seq(Entries), icode' = icode \o row,
           UNCHANGED <<isVoid, symbols, symbolScope, open>>,
           Tidy(row, symbols, symbols, isVoid), Still(row),
           \A i \in DOMAIN row : Jumps(row[i]) => row[i].label \in Labelled
    PROVE  Settled'
<1>1. \A k \in DOMAIN open' : LabelsOf(open'[k]) \subseteq Labelled
  BY DEF Labelled
<1>2. (Flat' => Flat) /\ ~ open'[1].inLoop /\ Tidy(row, symbols, symbols', isVoid)
  BY DEF Flat, Settled
<1> QED
  BY <1>1, <1>2, SettledOn

LEMMA AssignmentSettled ==
    ASSUME Code, Generated, Settled, Whole("self") \notin Readable, Whole("self") \notin Targets,
           Whole("p") \notin Targets, NEW dst \in Targets, NEW src \in Readable, assignment(dst, src), ~ Reject
    PROVE  Settled'
<1>1. /\ symbols \subseteq Local /\ CanRead(dst) /\ CanRead(src)
      /\ UNCHANGED <<isVoid, symbols, symbolScope, open>>
  BY DEF assignment, Code, Emit, Reject, genVars
<1>2. PICK row : row = Evaluate(src) \o unitCopy(dst, src)
  OBVIOUS
<1>3. icode' = icode \o row
  BY <1>2 DEF assignment, Emit, Reject, genVars
<1>4. src \in Copied
  BY <1>1, Reads
<1>5. dst \in Overwritten /\ dst # Whole("self") /\ (dst.var \in Local => dst.var \in symbols)
  <2>1. dst \in Unit /\ dst.var \in Variable
    BY SourceNamesVariables
  <2>2. dst # Whole("callee") /\ "p" \notin Local /\ "g" \notin Local
    BY <2>1, LocalOrderIsLocal DEF Whole, Variable
  <2> QED
    BY <1>1, <2>1, <2>2 DEF Overwritten, CanRead, Known
<1>6. Neat(row, symbols, symbols, isVoid) /\ Still(row)
  BY <1>2, <1>4, <1>5, AssignedTidy
<1> QED
  BY <1>1, <1>3, <1>6, SettledInside DEF Neat, Jumps, Branches

LEMMA ReturnSettled ==
    ASSUME Code, Generated, Settled, NEW v \in Variable \cup {"callee"}, functionReturn(Whole(v)), ~ Reject
    PROVE  Settled'
<1>1. symbols \subseteq Local /\ UNCHANGED <<isVoid, symbols, symbolScope, open>>
  BY DEF functionReturn, Code, Emit, Reject, genVars
<1>2. PICK row : row = (IF isVoid THEN <<>> ELSE Evaluate(Whole(v)) \o unitCopy(Whole("return"), Whole(v)))
                         \o createReturnAndCallDeconstructors
  OBVIOUS
<1>3. icode' = icode \o row
  BY <1>2 DEF functionReturn, Emit, Reject, genVars
<1>4. Neat(row, symbols, symbols, isVoid) /\ Still(row)
  BY <1>1, <1>2, ReturnedTidy
<1> QED
  BY <1>1, <1>3, <1>4, SettledInside DEF Neat, Jumps, Branches

LEMMA LabelledTop ==
    ASSUME Code, NEW n \in Nat, n = Len(open)
    PROVE  /\ LabelsOf(Top) \subseteq Labelled
           /\ \A k \in 1 .. n : LabelsOf(open[k]) \subseteq Labelled
<1>1. Top = open[n] /\ n \in DOMAIN open /\ DOMAIN open = 1 .. n
  BY TopBlock DEF Code
<1> QED
  BY <1>1 DEF Labelled

LEMMA BreakSettled ==
    ASSUME Code, Generated, Settled, breakStatement \/ continueStatement, ~ Reject
    PROVE  Settled'
<1>1. PICK l : (l = Top.breakLabel \/ l = Top.continueLabel) /\ breakOrContinue(l)
  BY DEF breakStatement, continueStatement
<1>2. PICK e, row : e = Goto(l) /\ row = <<e>>
  OBVIOUS
<1>3. /\ UNCHANGED <<isVoid, symbols, symbolScope, open>> /\ Top.inLoop /\ icode' = icode \o row
  BY <1>1, <1>2 DEF breakOrContinue, Emit, Reject, genVars
<1>4. PICK n \in Nat : n = Len(open)
  BY TopBlock
<1>5. l \in Labelled /\ l \in Nat
  <2>1. l \in LabelsOf(Top)
    BY <1>1, <1>3 DEF LabelsOf
  <2>2. Top \in Blocks
    BY TopBlock
  <2> QED
    BY <1>1, <1>4, <2>1, <2>2, LabelledTop DEF Blocks
<1>6. e \in Entries /\ e.op = "goto" /\ e.label = l
  BY <1>2, <1>5, LabelEntries
<1>7. row \in Seq(Entries) /\ \A i \in DOMAIN row : row[i] = e
  BY <1>2, <1>6
<1>8. Tidy(row, symbols, symbols, isVoid) /\ Still(row)
  BY <1>6, <1>7, TidyPlain
<1> QED
  BY <1>3, <1>5, <1>6, <1>7, <1>8, SettledInside

\* A block that is opened, and declares nothing.
LEMMA EnterSettled ==
    ASSUME Code, Generated, Settled, NEW row \in Seq(Entries), icode' = icode \o row,
           UNCHANGED <<isVoid, symbols, symbolScope>>, NEW b \in Blocks, open' = Append(open, b),
           \A i \in DOMAIN row : row[i].op \in Branches /\ row[i].label \in Nat /\ row[i].label > labels,
           \A l \in LabelsOf(b) : l \in Labelled \/ (l \in Nat /\ l > labels)
    PROVE  Settled'
<1>1. PICK n \in Nat : n = Len(open) /\ n > 0
  BY TopBlock
<1>2. PICK ls : ls = Labelled \cup {l \in Nat : l > labels}
  OBVIOUS
<1>3. /\ DOMAIN open' = 1 .. n + 1 /\ open'[n + 1] = b /\ open \in Seq(Blocks)
      /\ \A k \in 1 .. n : open'[k] = open[k]
  BY <1>1 DEF Code
<1>4. \A k \in DOMAIN open' : LabelsOf(open'[k]) \subseteq ls
  <2> TAKE k \in DOMAIN open'
  <2>1. CASE k = n + 1
    BY <1>2, <1>3, <2>1
  <2>2. CASE k # n + 1
    <3>1. k \in 1 .. n
      BY <1>3, <2>2
    <3> QED
      BY <1>1, <1>2, <1>3, <3>1, LabelledTop
  <2> QED
    BY <2>1, <2>2
<1>5. ~ open'[1].inLoop
  <2>1. 1 \in 1 .. n
    BY <1>1
  <2> QED
    BY <1>3, <2>1 DEF Settled
<1>6. Tidy(row, symbols, symbols, isVoid) /\ Still(row)
  BY TidyPlain DEF Branches
<1>7. Flat' => Flat
  BY DEF Flat
<1>8. \A l \in ls : l \in Labelled \/ (l \in Nat /\ l > labels)
  BY <1>2
<1>9. \A i \in DOMAIN row : Jumps(row[i]) => row[i].label \in ls
  BY <1>2
<1> QED
  BY <1>4, <1>5, <1>6, <1>7, <1>8, <1>9, SettledOn

LEMMA IfSettled ==
    ASSUME Code, Generated, Settled, ifStatement
    PROVE  Settled'
<1>1. PICK e, b : /\ e = IfFalseGoto(labels + 2)
                  /\ b = Block("if", Top.inLoop, Top.breakLabel, Top.continueLabel, <<labels + 2, labels + 1>>)
  OBVIOUS
<1>2. labels \in Nat /\ labels + 1 \in Nat /\ labels + 2 \in Nat /\ Top \in Blocks
  BY TopBlock DEF Code
<1>3. e \in Entries /\ e.op = "ifFalseGoto" /\ e.label = labels + 2
  BY <1>1, <1>2, LabelEntries
<1>4. PICK row : row = <<e>>
  OBVIOUS
<1>5. icode' = icode \o row /\ UNCHANGED <<isVoid, symbols, symbolScope>> /\ open' = Append(open, b)
  BY <1>1, <1>4 DEF ifStatement, Emit, EnterBlock
<1>6. b \in Blocks /\ b.inLoop = Top.inLoop /\ b.breakLabel = Top.breakLabel
      /\ b.continueLabel = Top.continueLabel /\ b.exits = <<labels + 2, labels + 1>>
  BY <1>1, <1>2 DEF Block, Blocks, Kinds
<1>7. row \in Seq(Entries) /\ \A i \in DOMAIN row : row[i] = e
  BY <1>3, <1>4
<1>8. \A i \in DOMAIN row : row[i].op \in Branches /\ row[i].label \in Nat /\ row[i].label > labels
  BY <1>2, <1>3, <1>7 DEF Branches
<1>9. \A l \in LabelsOf(b) : l \in Labelled \/ (l \in Nat /\ l > labels)
  <2>1. \A i \in DOMAIN b.exits : b.exits[i] \in {labels + 2, labels + 1}
    BY <1>6
  <2>2. b.inLoop => {b.breakLabel, b.continueLabel} \subseteq LabelsOf(Top)
    BY <1>6 DEF LabelsOf
  <2>3. LabelsOf(Top) \subseteq Labelled
    BY TopBlock, LabelledTop
  <2> QED
    BY <1>2, <2>1, <2>2, <2>3 DEF LabelsOf
<1> QED
  BY <1>5, <1>6, <1>7, <1>8, <1>9, EnterSettled

LEMMA LoopSettled ==
    ASSUME Code, Generated, Settled, NEW kind \in {"while", "do", "loop"}, loopStatement(kind)
    PROVE  Settled'
<1>1. PICK e, t, b : /\ e = CreateLabel(labels + 1) /\ t = IfFalseGoto(labels + 2)
                     /\ b = Block(kind, TRUE, labels + 2, labels + 1, <<labels + 1, labels + 2>>)
  OBVIOUS
<1>2. labels \in Nat /\ labels + 1 \in Nat /\ labels + 2 \in Nat
  BY DEF Code
<1>3. /\ e \in Entries /\ e.op = "label" /\ e.label = labels + 1
      /\ t \in Entries /\ t.op = "ifFalseGoto" /\ t.label = labels + 2
  BY <1>1, <1>2, LabelEntries
<1>4. PICK row : row = <<e>> \o (IF kind = "while" THEN <<t>> ELSE <<>>)
  OBVIOUS
<1>5. icode' = icode \o row /\ UNCHANGED <<isVoid, symbols, symbolScope>> /\ open' = Append(open, b)
  BY <1>1, <1>4 DEF loopStatement, Emit, EnterBlock
<1>6. /\ b \in Blocks /\ b.breakLabel = labels + 2 /\ b.continueLabel = labels + 1
      /\ b.exits = <<labels + 1, labels + 2>>
  BY <1>1, <1>2 DEF Block, Blocks, Kinds
<1>7. row \in Seq(Entries) /\ \A i \in DOMAIN row : row[i] = e \/ row[i] = t
  <2>1. CASE kind = "while"
    <3>1. row = <<e, t>>
      BY <1>3, <1>4, <2>1, Pair
    <3>2. PICK x, y, c : x = e /\ y = t /\ c = <<x, y>>
      OBVIOUS
    <3>3. x \in Entries /\ y \in Entries
      BY <1>3, <3>2
    <3>4. c \in Seq(Entries)
      <4> HIDE DEF Entries
      <4> QED
        BY <3>2, <3>3
    <3>5. \A i \in DOMAIN c : c[i] = x \/ c[i] = y
      BY <3>2
    <3> QED
      BY <3>1, <3>2, <3>4, <3>5
  <2>2. CASE kind # "while"
    <3>1. <<e>> \in Seq(Entries)
      BY <1>3
    <3>2. row = <<e>>
      BY <1>4, <2>2, <3>1
    <3>3. DOMAIN row = {1} /\ row[1] = e
      BY <3>2
    <3> QED
      BY <3>1, <3>2, <3>3
  <2> QED
    BY <2>1, <2>2
<1>8. \A i \in DOMAIN row : row[i].op \in Branches /\ row[i].label \in Nat /\ row[i].label > labels
  BY <1>2, <1>3, <1>7 DEF Branches
<1>9. \A l \in LabelsOf(b) : l \in Labelled \/ (l \in Nat /\ l > labels)
  <2>1. \A i \in DOMAIN b.exits : b.exits[i] \in {labels + 2, labels + 1}
    BY <1>6
  <2> QED
    BY <1>2, <1>6, <2>1 DEF LabelsOf
<1> QED
  BY <1>5, <1>6, <1>7, <1>8, <1>9, EnterSettled

\* Closing a block, or the last statement of it: no new labels, no declaration.
LEMMA BranchSettled ==
    ASSUME Code, Generated, Settled, NEW row \in Seq(Entries), icode' = icode \o row,
           UNCHANGED <<isVoid, symbols, symbolScope>>, ~ open'[1].inLoop,
           \A k \in DOMAIN open' : LabelsOf(open'[k]) \subseteq Labelled,
           \A i \in DOMAIN row : row[i].op \in Branches /\ row[i].label \in Labelled
    PROVE  Settled'
<1>1. Tidy(row, symbols, symbols, isVoid) /\ Still(row)
  BY TidyPlain DEF Branches
<1>2. Flat' => Flat
  BY DEF Flat
<1> QED
  BY <1>1, <1>2, SettledOn

LEMMA ElseSettled ==
    ASSUME Code, Generated, Settled, elseStatement
    PROVE  Settled'
<1>1. PICK n \in Nat : n = Len(open)
  BY TopBlock
<1>2. /\ Top \in Blocks /\ Exits(Top) /\ Top.kind = "if" /\ n > 1
      /\ open \in Seq(Blocks) /\ open # <<>> /\ DOMAIN open = 1 .. n
  BY <1>1, TopBlock DEF elseStatement, Code
<1>3. PICK b, e, x, y : /\ b = [Top EXCEPT !.kind = "else", !.exits = <<Top.exits[2]>>]
                        /\ e = Top.exits /\ x = Goto(Top.exits[2]) /\ y = CreateLabel(Top.exits[1])
  OBVIOUS
<1>4. 1 \in DOMAIN e /\ 2 \in DOMAIN e /\ e[1] \in Nat /\ e[2] \in Nat
  <2>1. e \in Seq(Nat) /\ Len(e) = 2
    BY <1>2, <1>3 DEF Blocks, Exits
  <2>2. DOMAIN e = 1 .. 2
    BY <2>1
  <2>3. 1 \in DOMAIN e /\ 2 \in DOMAIN e
    BY <2>2
  <2>4. ASSUME NEW i \in DOMAIN e PROVE e[i] \in Nat
    BY <2>1, SMTT(30)
  <2> QED
    BY <2>3, <2>4
<1>5. PICK row : row = <<x, y>>
  OBVIOUS
<1>6. icode' = icode \o row /\ open' = Append(Front(open), b) /\ UNCHANGED <<isVoid, symbols, symbolScope>>
  BY <1>3, <1>5 DEF elseStatement, Emit
<1>7. /\ b \in Blocks /\ b.exits = <<e[2]>> /\ b.inLoop = Top.inLoop
      /\ b.breakLabel = Top.breakLabel /\ b.continueLabel = Top.continueLabel
  <2>1. <<Top.exits[2]>> \in Seq(Nat)
    BY <1>3, <1>4
  <2> QED
    BY <1>2, <1>3, <2>1 DEF Blocks, Kinds
<1>8. {e[1], e[2]} \subseteq LabelsOf(Top) /\ LabelsOf(b) \subseteq LabelsOf(Top)
  <2>1. DOMAIN b.exits = {1} /\ b.exits[1] = e[2]
    BY <1>7
  <2> QED
    BY <1>3, <1>4, <1>7, <2>1 DEF LabelsOf
<1>9. LabelsOf(Top) \subseteq Labelled /\ \A k \in 1 .. n : LabelsOf(open[k]) \subseteq Labelled
  BY <1>1, LabelledTop
<1>10. PICK front : front = Front(open)
  OBVIOUS
<1>11. /\ front \in Seq(Blocks) /\ Len(front) = n - 1
       /\ \A k \in 1 .. n - 1 : k \in DOMAIN open /\ front[k] = open[k]
  BY <1>1, <1>2, <1>10, FrontFacts
<1>12. DOMAIN open' = 1 .. n /\ open'[n] = b /\ \A k \in 1 .. n - 1 : open'[k] = open[k]
  <2>1. PICK c : c = Append(front, b)
    OBVIOUS
  <2>2. DOMAIN c = 1 .. n /\ c[n] = b /\ \A k \in 1 .. n - 1 : c[k] = front[k]
    BY <1>2, <1>7, <1>11, <2>1
  <2> QED
    BY <1>6, <1>10, <1>11, <2>1, <2>2
<1>13. ~ open'[1].inLoop
  <2>1. 1 \in 1 .. n - 1
    BY <1>2
  <2> QED
    BY <1>12, <2>1 DEF Settled
<1>14. \A k \in DOMAIN open' : LabelsOf(open'[k]) \subseteq Labelled
  <2>1. \A k \in 1 .. n : k = n \/ k \in 1 .. n - 1
    OBVIOUS
  <2> QED
    BY <1>8, <1>9, <1>12, <2>1
<1>15. /\ x \in Entries /\ x.op = "goto" /\ x.label = e[2]
       /\ y \in Entries /\ y.op = "label" /\ y.label = e[1]
  BY <1>3, <1>4, LabelEntries
<1>16. row \in Seq(Entries) /\ \A i \in DOMAIN row : row[i] = x \/ row[i] = y
  BY <1>5, <1>15
<1>17. \A i \in DOMAIN row : row[i].op \in Branches /\ row[i].label \in Labelled
  BY <1>8, <1>9, <1>15, <1>16 DEF Branches
<1> QED
  BY <1>6, <1>13, <1>14, <1>16, <1>17, BranchSettled

LEMMA CloseSettled ==
    ASSUME Code, Generated, Settled, closeBlock
    PROVE  Settled'
<1>1. PICK n \in Nat : n = Len(open)
  BY TopBlock
<1>2. /\ Top \in Blocks /\ Exits(Top) /\ Top.kind # "function" /\ n > 1
      /\ open \in Seq(Blocks) /\ open # <<>> /\ DOMAIN open = 1 .. n
  BY <1>1, TopBlock DEF closeBlock, Code
<1>3. PICK row, front : row = Closing(Top) /\ front = Front(open)
  OBVIOUS
<1>4. icode' = icode \o row /\ open' = front /\ UNCHANGED <<isVoid, symbols, symbolScope>>
  BY <1>3 DEF closeBlock
<1>5. /\ row \in Seq(Entries)
      /\ \A i \in DOMAIN row : row[i].op \in Branches /\ \E j \in DOMAIN Top.exits : row[i].label = Top.exits[j]
  BY <1>2, <1>3, ClosingRow, ClosingBranches
<1>6. LabelsOf(Top) \subseteq Labelled /\ \A k \in 1 .. n : LabelsOf(open[k]) \subseteq Labelled
  BY <1>1, LabelledTop
<1>7. \A i \in DOMAIN row : row[i].op \in Branches /\ row[i].label \in Labelled
  BY <1>5, <1>6 DEF LabelsOf
<1>8. /\ Len(front) = n - 1 /\ front \in Seq(Blocks)
      /\ \A k \in 1 .. n - 1 : k \in DOMAIN open /\ front[k] = open[k]
  BY <1>1, <1>2, <1>3, FrontFacts
<1>9. DOMAIN open' = 1 .. n - 1 /\ 1 \in 1 .. n - 1
  BY <1>2, <1>4, <1>8
<1>10. ~ open'[1].inLoop
  BY <1>4, <1>8, <1>9 DEF Settled
<1>11. \A k \in DOMAIN open' : LabelsOf(open'[k]) \subseteq Labelled
  <2>1. \A k \in 1 .. n - 1 : k \in 1 .. n
    BY <1>1
  <2> QED
    BY <1>4, <1>6, <1>8, <1>9, <2>1
<1> QED
  BY <1>4, <1>5, <1>7, <1>10, <1>11, BranchSettled

LEMMA ForEachSettled ==
    ASSUME Code, Generated, Settled, NEW s \in Local, s # "self", forEachLoop(s), ~ Reject
    PROVE  Settled'
<1>1. PICK row, b : /\ row = Round(s, labels + 1, labels + 2)
                    /\ b = Block("forEach", TRUE, labels + 2, labels + 3, <<labels + 3, labels + 1, labels + 2>>)
  OBVIOUS
<1>2. labels \in Nat /\ labels + 1 \in Nat /\ labels + 2 \in Nat /\ labels + 3 \in Nat /\ Scopes
  BY DEF Code, Generated
<1>3. /\ icode' = icode \o row /\ open' = Append(open, b) /\ createLocal(s) /\ isVoid' = isVoid
      /\ scopeStack' = Append(scopeStack, scopeCounter + 1) /\ scopeCounter' = scopeCounter + 1
      /\ s \notin symbols /\ symbols' = symbols \cup {s}
  BY <1>1 DEF forEachLoop, Emit, EnterBlock, Reject, genVars, createLocal, Round
<1>4. /\ b \in Blocks /\ b.breakLabel = labels + 2 /\ b.continueLabel = labels + 3
      /\ b.exits = <<labels + 3, labels + 1, labels + 2>>
  BY <1>1, <1>2 DEF Block, Blocks, Kinds
<1>5. icode \in Seq(Entries) /\ LabelsUpTo(icode, labels) /\ open \in Seq(Blocks) /\ ~ open[1].inLoop
  BY DEF Code, WellFormed, Generated, Settled
<1>6. PICK n \in Nat : n = Len(open) /\ n > 0
  BY TopBlock
<1>7. /\ DOMAIN open' = 1 .. n + 1 /\ open'[n + 1] = b
      /\ \A k \in 1 .. n : open'[k] = open[k]
  BY <1>3, <1>4, <1>5, <1>6
<1>8. ~ open'[1].inLoop
  <2>1. 1 \in 1 .. n
    BY <1>6
  <2> QED
    BY <1>5, <1>7, <2>1
<1>9. PICK l \in Nat, r \in Nat : l = labels + 1 /\ r = labels + 2
  BY <1>2
<1>10. /\ row \in Seq(Entries) /\ Tidy(row, symbols, symbols \cup {s}, isVoid)
       /\ \A i \in DOMAIN row : Renewing(row[i]) => i = 1
       /\ \A i \in DOMAIN row : row[i].op \in Branches => i # 1 /\ (row[i].label = l \/ row[i].label = r)
  <2>1. row = Round(s, l, r)
    BY <1>1, <1>9
  <2>2. PICK A, void : A = symbols /\ void = isVoid
    OBVIOUS
  <2>3. s \notin A
    BY <1>3, <2>2
  <2>4. Turning(row, s, A, void, l, r)
    BY <2>1, <2>3, RoundTidy
  <2> QED
    BY <2>2, <2>4 DEF Turning
<1>11. Tidy(icode', {}, symbols', isVoid')
  BY <1>3, <1>5, <1>10, TidyJoin DEF Settled
<1>12. ASSUME Flat' PROVE Clear(icode') /\ Quiet(icode', Labelled')
  <2>1. PICK m \in Nat : m = Len(scopeStack)
    BY <1>2 DEF Scopes
  <2>2. Flat /\ Last(scopeStack) = 1
    <3>1. scopeStack \in Seq(Nat) /\ scopeCounter \in Nat
      BY <1>2 DEF Scopes
    <3>2. \A j \in 1 .. m : scopeStack'[j] = scopeStack[j]
      BY <1>3, <2>1, <3>1
    <3> QED
      BY <1>2, <1>3, <1>12, <2>1, <3>2, Declares
  <2>3. Clear(icode)
    BY <2>2 DEF Settled
  <2>4. PICK ls : ls = {q \in Nat : q > labels}
    OBVIOUS
  <2>5. \A i \in DOMAIN row : row[i].op \in Branches => row[i].label > labels /\ i # 1
    BY <1>2, <1>9, <1>10
  <2>6. Clear(icode \o row) /\ Quiet(icode \o row, ls)
    <3>1. \A q \in ls : q \in Nat /\ q > labels
      BY <2>4
    <3>2. row \in Seq(Entries) /\ \A i \in DOMAIN row : Renewing(row[i]) => i = 1
      BY <1>10
    <3>3. icode \in Seq(Entries) /\ LabelsUpTo(icode, labels) /\ labels \in Nat
      BY <1>2, <1>5
    <3> QED
      BY <2>3, <2>5, <3>1, <3>2, <3>3, RoundOn
  <2>7. Len(open) = 1 /\ Labelled = {}
    BY <1>2, <1>5, <2>2, OnlyBlock
  <2>8. LabelsOf(b) \subseteq ls
    <3>1. \A i \in DOMAIN b.exits : b.exits[i] \in {labels + 1, labels + 2, labels + 3}
      BY <1>4
    <3> QED
      BY <1>2, <1>4, <2>4, <3>1 DEF LabelsOf
  <2>9. \A k \in DOMAIN open' : LabelsOf(open'[k]) \subseteq ls
    <3>1. n = 1 /\ 1 \in DOMAIN open
      BY <1>6, <2>7, TopBlock
    <3>2. LabelsOf(open[1]) = {}
      BY <2>7, <3>1 DEF Labelled
    <3>3. \A k \in 1 .. n + 1 : k = n + 1 \/ k = 1
      BY <3>1
    <3>4. open'[1] = open[1]
      BY <1>7, <3>1
    <3> QED
      BY <1>7, <2>8, <3>2, <3>3, <3>4
  <2>10. Labelled' \subseteq ls
    BY <2>9 DEF Labelled
  <2> QED
    BY <1>3, <2>6, <2>10 DEF Quiet
<1> QED
  BY <1>8, <1>11, <1>12 DEF Settled

------------------------------------------------------------------------------
(***************************************************************************)
(* The run: what is pending is on its way to the copy that follows, or is  *)
(* the return value's.                                                     *)
(***************************************************************************)
\* What v owns is not dropped further down.
Spared ==
    \A v \in Local : owner[v] # NoObject =>
        \A j \in DOMAIN icode : pc <= j => ~ Renews(icode[j], v)

OnTheWay(o)  == Underway(icode, pc) /\ held[Carried(icode, pc)] = o
Delivered(o) == ~ isVoid /\ held["return"] = o
Balanced ==
    \A o \in Object :
        pending[o] <= (IF OnTheWay(o) THEN 1 ELSE 0) + (IF Delivered(o) THEN 1 ELSE 0)

\* What an assignment overwrites was destroyed.
Emptied ==
    Entry.op = "copy" /\ Entry.dest.var \in Variable /\ Entry.dest # Whole("self") =>
        owner[Entry.dest.var] = NoObject

Accounted == Spared /\ Balanced /\ Emptied

LossInv ==
    /\ phase = "generate" =>
         /\ Settled
         /\ \A o \in Object : pending[o] = 0
         /\ \A v \in Local : owner[v] = NoObject
    /\ phase = "run" => /\ Tidy(icode, {}, symbols, isVoid)
                        /\ Flat => Clear(icode) /\ Accounted
    /\ NothingLostIfFlat

\* Where nothing is on its way, nothing is lost.
LEMMA BalancedIsEnough ==
    ASSUME BodyInv, phase = "run", Balanced
    PROVE  NothingLost
<1>1. WellFormed(icode) /\ pc \in DOMAIN icode /\ pc \in Nat /\ icode \in Seq(Entries)
  BY Here
<1>2. CASE Underway(icode, pc)
  <2>1. pc # 1
    BY <1>1, <1>2, StartOfTable
  <2>2. PICK i : i = pc - 1
    OBVIOUS
  <2>3. i \in DOMAIN icode /\ i + 1 = pc /\ pc > 1
    BY <1>1, <2>1, <2>2
  <2>4. icode[i].op \in {"beforeCopy", "deconstruct"}
    BY <1>1, <1>2, <2>3, UnderwayBefore
  <2> QED
    BY <2>2, <2>3, <2>4 DEF NothingLost, Copying
<1>3. CASE ~ Underway(icode, pc)
  <2>1. \A o \in Object : pending[o] <= IF Delivered(o) THEN 1 ELSE 0
    BY <1>3 DEF Balanced, OnTheWay
  <2> QED
    BY <2>1 DEF NothingLost, Delivered
<1> QED
  BY <1>2, <1>3

LEMMA BalancedNext == BodyInv' /\ (phase = "run")' /\ Balanced' => NothingLost'
<1>1. BodyInv /\ phase = "run" /\ Balanced => NothingLost
  BY BalancedIsEnough
<1> QED
  BY <1>1, PTL

LEMMA LossOn ==
    ASSUME LossInv, phase = "run", phase' = phase, UNCHANGED genVars, BodyInv', Flat => Accounted'
    PROVE  LossInv'
<1>1. icode' = icode /\ symbols' = symbols /\ isVoid' = isVoid /\ (Flat' <=> Flat)
  BY DEF genVars, Flat
<1>2. Tidy(icode', {}, symbols', isVoid') /\ (Flat' => Clear(icode') /\ Accounted')
  BY <1>1 DEF LossInv
<1>3. Flat' => NothingLost'
  BY <1>2, BalancedNext DEF Accounted
<1> QED
  BY <1>2, <1>3 DEF LossInv, NothingLostIfFlat

LEMMA LossEnd ==
    ASSUME LossInv, phase = "run", NEW how, Stop(how), how \notin {"generate", "run"},
           Flat => ~ Underway(icode, pc)
    PROVE  LossInv'
<1>1. phase' = how /\ pending' = pending /\ held' = held /\ isVoid' = isVoid /\ (Flat' <=> Flat)
  BY DEF Stop, genVars, heapVars, Flat
<1>2. ASSUME Flat PROVE \A o \in Object : pending[o] <= IF ~ isVoid /\ held["return"] = o THEN 1 ELSE 0
  <2>1. Balanced /\ ~ Underway(icode, pc)
    BY <1>2 DEF LossInv, Accounted
  <2> QED
    BY <2>1 DEF Balanced, OnTheWay, Delivered
<1> QED
  BY <1>1, <1>2 DEF LossInv, NothingLostIfFlat, NothingLost

LEMMA SparedOn ==
    ASSUME Spared, NEW A, NEW B, NEW void, Tidy(icode, A, B, void), pc \in DOMAIN icode, pc \in Nat,
           icode \in Seq(Entries), pc' = pc + 1, icode' = icode,
           \A v \in Local : owner'[v] # NoObject => owner[v] # NoObject \/ Fills(Entry, v)
    PROVE  Spared'
<1> SUFFICES ASSUME NEW v \in Local, owner'[v] # NoObject, NEW j \in DOMAIN icode, pc + 1 <= j
             PROVE  ~ Renews(icode[j], v)
  BY DEF Spared
<1>1. j \in Nat
  OBVIOUS
<1>2. CASE owner[v] # NoObject
  BY <1>1, <1>2 DEF Spared
<1>3. CASE Fills(icode[pc], v)
  <2>1. Renews(icode[j], v) => j <= pc
    BY <1>3 DEF Tidy
  <2> QED
    BY <1>1, <2>1
<1> QED
  BY <1>2, <1>3 DEF Entry

LEMMA EmptiedOn ==
    ASSUME WellFormed(icode), pc + 1 \in DOMAIN icode, pc \in Nat, pc' = pc + 1, icode' = icode,
           Entry.op = "deconstruct" => owner'[Entry.unit.var] = NoObject
    PROVE  Emptied'
<1>1. PICK i : i = pc + 1
  OBVIOUS
<1>2. i \in DOMAIN icode /\ i - 1 = pc /\ Fits(icode, i) /\ Entry' = icode[i]
  BY <1>1 DEF WellFormed, Entry
<1> SUFFICES ASSUME icode[i].op = "copy", icode[i].dest.var \in Variable, icode[i].dest # Whole("self")
             PROVE  owner'[icode[i].dest.var] = NoObject
  BY <1>2 DEF Emptied
<1>3. Arrives(icode, i)
  BY <1>2, StorageNames DEF Fits
<1>4. Entry.op = "deconstruct" /\ Entry.unit = icode[i].dest
  BY <1>2, <1>3 DEF Arrives, Entry
<1> QED
  BY <1>4

\* What the steps of the run rest on.
LEMMA Ready ==
    ASSUME BodyInv, LossInv, phase = "run"
    PROVE  /\ WellFormed(icode) /\ icode \in Seq(Entries) /\ pc \in DOMAIN icode /\ pc \in Nat
           /\ Entry \in Entries /\ Fits(icode, pc) /\ (Entry.op # "ret" => pc + 1 \in DOMAIN icode)
           /\ Tidy(icode, {}, symbols, isVoid) /\ (Flat => Clear(icode) /\ Accounted)
           /\ owner \in [Variable -> Object \cup {NoObject}] /\ pending \in [Object -> Nat]
           /\ held \in [Storage -> Object \cup {Null, Garbage}]
BY Here, CountedIsLive DEF LossInv, BodyInv

\* An entry behind which nothing is on its way, and that moves no reference.
LEMMA NothingMoves ==
    ASSUME BodyInv, LossInv, phase = "run", Flat, ~ Underway(icode, pc), UNCHANGED genVars,
           pending' = pending, held'["return"] = held["return"]
    PROVE  Balanced'
<1>1. icode' = icode /\ isVoid' = isVoid /\ pending \in [Object -> Nat] /\ Balanced
  BY Ready DEF genVars, Accounted
<1>2. \A o \in Object : pending[o] <= IF Delivered(o) THEN 1 ELSE 0
  BY <1>1 DEF Balanced, OnTheWay
<1>3. \A o \in Object : (Delivered(o)' <=> Delivered(o))
  BY <1>1 DEF Delivered
<1> SUFFICES ASSUME NEW o \in Object
             PROVE  pending[o] <= (IF OnTheWay(o)' THEN 1 ELSE 0) + (IF Delivered(o)' THEN 1 ELSE 0)
  BY DEF Balanced
<1>4. PICK more : more = IF OnTheWay(o)' THEN 1 ELSE 0
  OBVIOUS
<1>5. more \in {0, 1}
  BY <1>4
<1> QED
  BY <1>1, <1>2, <1>3, <1>4, <1>5

LEMMA NullInitLoses ==
    ASSUME BodyInv, LossInv, BodyInv', ExecNullInit
    PROVE  LossInv'
<1>1. PICK v : v = Entry.unit.var
  OBVIOUS
<1>2. /\ phase = "run" /\ Entry.op = "nullInit" /\ phase' = phase /\ UNCHANGED genVars /\ pc' = pc + 1
      /\ held' = [held EXCEPT ![v] = Null] /\ pending' = Forget(v)
      /\ owner' = [owner EXCEPT ![v] = NoObject]
  BY <1>1 DEF ExecNullInit, Running, Entry, Step
<1>3. /\ WellFormed(icode) /\ icode \in Seq(Entries) /\ pc \in DOMAIN icode /\ pc \in Nat
      /\ Entry \in Entries /\ pc + 1 \in DOMAIN icode /\ Tidy(icode, {}, symbols, isVoid)
      /\ owner \in [Variable -> Object \cup {NoObject}] /\ pending \in [Object -> Nat]
      /\ held \in [Storage -> Object \cup {Null, Garbage}]
  BY <1>2, Ready
<1>4. v \in Local /\ v \in Variable /\ v # "return" /\ "return" \in Storage /\ icode' = icode
  BY <1>1, <1>2, <1>3, EntryFields, StorageNames DEF genVars
<1>5. ASSUME Flat PROVE Accounted'
  <2>1. Accounted
    BY <1>2, <1>5, Ready
  <2>2. owner[v] = NoObject
    <3>1. Renews(icode[pc], v)
      BY <1>1, <1>2 DEF Renews, Entry
    <3> QED
      BY <1>3, <1>4, <2>1, <3>1 DEF Accounted, Spared
  <2>3. pending' = pending
    <3>1. \A q \in Object : pending[q] + (IF owner[v] = q THEN 1 ELSE 0) = pending[q]
      BY <1>3, <2>2, StorageNames
    <3> QED
      BY <1>2, <1>3, <3>1 DEF Forget
  <2>4. owner' = owner
    BY <1>2, <1>3, <1>4, <2>2
  <2>5. Spared'
    BY <1>2, <1>3, <1>4, <2>1, <2>4, SparedOn DEF Accounted
  <2>6. Balanced'
    <3>1. ~ Underway(icode, pc)
      BY <1>2 DEF Underway, Entry
    <3>2. held'["return"] = held["return"]
      BY <1>2, <1>3, <1>4
    <3> QED
      BY <1>2, <1>5, <2>3, <3>1, <3>2, NothingMoves
  <2>7. Emptied'
    BY <1>2, <1>3, <1>4, EmptiedOn
  <2> QED
    BY <2>5, <2>6, <2>7 DEF Accounted
<1> QED
  BY <1>2, <1>5, LossOn

LEMMA BeforeCopyLoses ==
    ASSUME BodyInv, LossInv, BodyInv', ScopeInv', ExecBeforeCopy
    PROVE  LossInv'
<1>1. PICK o : o = held[Entry.unit.var]
  OBVIOUS
<1>2. phase = "run" /\ Entry.op = "beforeCopy"
  BY DEF ExecBeforeCopy, Running, Entry
<1>3. /\ WellFormed(icode) /\ icode \in Seq(Entries) /\ pc \in DOMAIN icode /\ pc \in Nat
      /\ pc + 1 \in DOMAIN icode /\ Tidy(icode, {}, symbols, isVoid)
      /\ pending \in [Object -> Nat]
  BY <1>2, Ready
<1>4. ~ Underway(icode, pc) /\ Underway(icode, pc + 1) /\ Carried(icode, pc + 1) = Entry.unit.var
  <2>1. ~ Underway(icode, pc)
    BY <1>2 DEF Underway, Entry
  <2>2. Underway(icode, pc + 1)
    BY <1>2, <1>3 DEF Tidy, Entry
  <2> QED
    BY <1>2, <1>3, <2>1, <2>2, UnderwayBefore DEF Entry
<1>5. ASSUME Step, held' = held, owner' = owner, Flat => Balanced'
      PROVE  LossInv'
  <2>1. phase' = phase /\ UNCHANGED genVars /\ pc' = pc + 1 /\ icode' = icode
    BY <1>5 DEF Step, genVars
  <2>2. ASSUME Flat PROVE Accounted'
    <3>1. Spared
      BY <1>2, <2>2, Ready DEF Accounted
    <3>2. Spared'
      BY <1>3, <1>5, <2>1, <3>1, SparedOn
    <3>3. Emptied'
      BY <1>2, <1>3, <2>1, EmptiedOn
    <3> QED
      BY <1>5, <2>2, <3>2, <3>3 DEF Accounted
  <2> QED
    BY <1>2, <2>1, <2>2, LossOn
<1>6. CASE o = Null /\ Step /\ UNCHANGED heapVars
  <2>1. UNCHANGED genVars /\ pending' = pending /\ held' = held /\ owner' = owner
    BY <1>6 DEF Step, heapVars
  <2>2. Flat => Balanced'
    BY <1>2, <1>4, <2>1, NothingMoves
  <2> QED
    BY <1>5, <1>6, <2>1, <2>2
<1>7. CASE o = Garbage /\ Stop("uninitialisedUse")
  BY <1>7 DEF Stop, ScopeInv, NoHookOnGarbageIfFlat, NamedIsInitialised
<1>8. CASE Stop("useAfterFree")
  BY <1>8 DEF Stop, BodyInv, NoUseAfterFree
<1>9. CASE /\ o \in Object /\ pending' = [pending EXCEPT ![o] = @ + 1]
           /\ Step /\ UNCHANGED <<held, status, owner>>
  <2>1. icode' = icode /\ pc' = pc + 1 /\ isVoid' = isVoid /\ held' = held
    BY <1>9 DEF Step, genVars
  <2>2. ASSUME Flat PROVE Balanced'
    <3> SUFFICES ASSUME NEW q \in Object
                 PROVE  pending'[q] <= (IF OnTheWay(q)' THEN 1 ELSE 0) + (IF Delivered(q)' THEN 1 ELSE 0)
      BY DEF Balanced
    <3>1. (Delivered(q)' <=> Delivered(q)) /\ (OnTheWay(q)' <=> q = o)
      BY <1>1, <1>4, <2>1 DEF Delivered, OnTheWay
    <3>2. pending[q] <= IF Delivered(q) THEN 1 ELSE 0
      BY <1>2, <1>4, <2>2, Ready DEF Accounted, Balanced, OnTheWay
    <3>3. pending'[q] = IF q = o THEN pending[q] + 1 ELSE pending[q]
      BY <1>3, <1>9
    <3>4. PICK b : b = IF Delivered(q) THEN 1 ELSE 0
      OBVIOUS
    <3>5. b \in {0, 1} /\ pending[q] <= b /\ pending[q] \in Nat
      BY <1>3, <3>2, <3>4
    <3> QED
      BY <3>1, <3>3, <3>4, <3>5
  <2> QED
    BY <1>5, <1>9, <2>2
<1> QED
  BY <1>1, <1>6, <1>7, <1>8, <1>9 DEF ExecBeforeCopy

LEMMA DeconstructLoses ==
    ASSUME BodyInv, LossInv, BodyInv', ScopeInv', ExecDeconstruct
    PROVE  LossInv'
<1>1. PICK v : v = Entry.unit.var
  OBVIOUS
<1>2. phase = "run" /\ Entry.op = "deconstruct"
  BY DEF ExecDeconstruct, Running, Entry
<1>3. /\ WellFormed(icode) /\ icode \in Seq(Entries) /\ pc \in DOMAIN icode /\ pc \in Nat
      /\ Fits(icode, pc) /\ pc + 1 \in DOMAIN icode /\ Tidy(icode, {}, symbols, isVoid)
      /\ owner \in [Variable -> Object \cup {NoObject}] /\ pending \in [Object -> Nat]
  BY <1>2, Ready
<1>4. v \in Variable
  BY <1>1, <1>2, <1>3, StorageNames DEF Fits, Overwritten, Swept, Entry
<1>5. ~ Entry.sweep => /\ Underway(icode, pc) /\ Underway(icode, pc + 1)
                       /\ Carried(icode, pc) = Carried(icode, pc + 1)
  <2> SUFFICES ASSUME ~ Entry.sweep
               PROVE  /\ Underway(icode, pc) /\ Underway(icode, pc + 1)
                      /\ Carried(icode, pc) = Carried(icode, pc + 1)
    OBVIOUS
  <2>1. icode[pc].unit \in Overwritten /\ icode[pc + 1].op = "copy" /\ icode[pc + 1].dest = icode[pc].unit
    BY <1>2, <1>3 DEF Fits, Entry
  <2>2. icode[pc + 1].dest.var # "return"
    BY <2>1, StorageNames DEF Overwritten
  <2>3. Arrives(icode, pc + 1)
    BY <1>3, <2>1, <2>2 DEF WellFormed, Fits
  <2>4. Underway(icode, pc + 1) /\ Underway(icode, pc)
    BY <1>2, <2>1, <2>3 DEF Arrives, Underway, Entry
  <2> QED
    BY <1>2, <1>3, <2>4, UnderwayBefore DEF Entry
<1>6. ASSUME Step, held' = held, pending' = pending, owner' = owner \/ owner' = [owner EXCEPT ![v] = NoObject],
             Flat => owner'[v] = NoObject
      PROVE  LossInv'
  <2>1. phase' = phase /\ UNCHANGED genVars /\ pc' = pc + 1 /\ icode' = icode /\ isVoid' = isVoid
    BY <1>6 DEF Step, genVars
  <2>2. ASSUME Flat PROVE Accounted'
    <3>1. Spared /\ Balanced
      BY <1>2, <2>2, Ready DEF Accounted
    <3>2. Spared'
      <4>1. \A w \in Local : owner'[w] # NoObject => owner[w] # NoObject
        BY <1>3, <1>6, StorageNames
      <4> QED
        BY <1>3, <2>1, <3>1, <4>1, SparedOn
    <3>3. Emptied'
      BY <1>1, <1>3, <1>6, <2>1, <2>2, EmptiedOn
    <3>4. Balanced'
      <4>1. CASE Entry.sweep
        <5>1. ~ Underway(icode, pc)
          BY <1>2, <4>1 DEF Underway, Entry
        <5> QED
          BY <1>2, <1>6, <2>1, <2>2, <5>1, NothingMoves
      <4>2. CASE ~ Entry.sweep
        <5>1. \A o \in Object : (OnTheWay(o)' <=> OnTheWay(o)) /\ (Delivered(o)' <=> Delivered(o))
          BY <1>5, <1>6, <2>1, <4>2 DEF OnTheWay, Delivered
        <5> QED
          BY <1>6, <3>1, <5>1 DEF Balanced
      <4> QED
        BY <4>1, <4>2
    <3> QED
      BY <3>2, <3>3, <3>4 DEF Accounted
  <2> QED
    BY <1>2, <2>1, <2>2, LossOn
<1>7. CASE held[v] = Null /\ Step /\ UNCHANGED heapVars
  <2>1. held' = held /\ pending' = pending /\ owner' = owner
    BY <1>7 DEF heapVars
  <2>2. Owned(v)
    <3>1. Owned(v) \/ (Excused(v) /\ owner[v] = NoObject)
      BY <1>2, <1>4 DEF BodyInv, Runs, Attached
    <3> QED
      BY <1>7, <3>1, StorageNames DEF Owned
  <2>3. owner[v] = NoObject
    BY <1>7, <2>2, StorageNames DEF Owned
  <2> QED
    BY <1>6, <1>7, <2>1, <2>3
<1>8. CASE held[v] = Garbage /\ Stop(IF Entry.sweep THEN "uninitialisedSweep" ELSE "uninitialisedUse")
  <2>1. PICK how : how = (IF Entry.sweep THEN "uninitialisedSweep" ELSE "uninitialisedUse")
    OBVIOUS
  <2>2. how \in {"uninitialisedSweep", "uninitialisedUse"} /\ Stop(how)
    BY <1>8, <2>1
  <2>3. phase' = how /\ (Flat' <=> Flat)
    BY <2>2 DEF Stop, genVars, Flat
  <2>4. ~ Flat
    BY <2>2, <2>3 DEF ScopeInv, NoHookOnGarbageIfFlat, NamedIsInitialised, NoHookOnGarbage
  <2> QED
    BY <1>2, <2>2, <2>4, LossEnd
<1>9. CASE Stop("useAfterFree")
  BY <1>9 DEF Stop, BodyInv, NoUseAfterFree
<1>10. CASE owner' = [owner EXCEPT ![v] = NoObject] /\ Step /\ UNCHANGED <<held, pending>>
  BY <1>3, <1>4, <1>6, <1>10
<1> QED
  BY <1>1, <1>7, <1>8, <1>9, <1>10 DEF ExecDeconstruct

LEMMA ReturnCopyLoses ==
    ASSUME BodyInv, LossInv, BodyInv', ExecCopy, Entry.dest.var = "return"
    PROVE  LossInv'
<1>1. PICK o : o = held[Entry.src.var]
  OBVIOUS
<1>2. /\ phase = "run" /\ Entry.op = "copy" /\ phase' = phase /\ UNCHANGED genVars /\ pc' = pc + 1
      /\ held' = [held EXCEPT !["return"] = o] /\ owner' = owner /\ pending' = pending
  BY <1>1, StorageNames DEF ExecCopy, Running, Entry, Step
<1>3. /\ WellFormed(icode) /\ icode \in Seq(Entries) /\ pc \in DOMAIN icode /\ pc \in Nat
      /\ pc + 1 \in DOMAIN icode /\ Tidy(icode, {}, symbols, isVoid)
      /\ held \in [Storage -> Object \cup {Null, Garbage}] /\ pending \in [Object -> Nat]
      /\ held["return"] \notin Object
  BY <1>2, Ready, Here
<1>4. ~ isVoid /\ icode' = icode /\ isVoid' = isVoid
  BY <1>2, <1>3 DEF Tidy, Fills, Entry, genVars
<1>5. ASSUME Flat PROVE Accounted'
  <2>1. Spared /\ Balanced
    BY <1>2, <1>5, Ready DEF Accounted
  <2>2. Spared'
    BY <1>2, <1>3, <1>4, <2>1, SparedOn
  <2>3. Emptied'
    BY <1>2, <1>3, <1>4, EmptiedOn
  <2>4. held'["return"] = o
    BY <1>2, <1>3, StorageNames
  <2>5. ASSUME NEW q \in Object
        PROVE  pending[q] <= (IF OnTheWay(q)' THEN 1 ELSE 0) + (IF Delivered(q)' THEN 1 ELSE 0)
    <3>1. pending[q] <= IF OnTheWay(q) THEN 1 ELSE 0
      BY <1>3, <2>1 DEF Balanced, Delivered
    <3>2. OnTheWay(q) => q = o
      BY <1>1, <1>2 DEF OnTheWay, Carried, Entry
    <3>3. Delivered(q)' <=> q = o
      BY <1>4, <2>4 DEF Delivered
    <3>4. PICK b : b = IF OnTheWay(q)' THEN 1 ELSE 0
      OBVIOUS
    <3>5. b \in {0, 1}
      BY <3>4
    <3> QED
      BY <1>3, <3>1, <3>2, <3>3, <3>4, <3>5
  <2>6. Balanced'
    BY <1>2, <2>5 DEF Balanced
  <2> QED
    BY <2>2, <2>3, <2>6 DEF Accounted
<1> QED
  BY <1>2, <1>5, LossOn

LEMMA CopyLoses ==
    ASSUME BodyInv, LossInv, BodyInv', ExecCopy, Entry.dest.var # "return"
    PROVE  LossInv'
<1>1. PICK d, o : d = Entry.dest.var /\ o = held[Entry.src.var]
  OBVIOUS
<1>2. phase = "run" /\ Entry.op = "copy" /\ phase' = phase /\ UNCHANGED genVars /\ pc' = pc + 1
  BY DEF ExecCopy, Running, Entry, Step
<1>3. /\ WellFormed(icode) /\ icode \in Seq(Entries) /\ pc \in DOMAIN icode /\ pc \in Nat
      /\ pc + 1 \in DOMAIN icode /\ Tidy(icode, {}, symbols, isVoid) /\ Fits(icode, pc)
      /\ held \in [Storage -> Object \cup {Null, Garbage}] /\ pending \in [Object -> Nat]
      /\ owner \in [Variable -> Object \cup {NoObject}]
      /\ held["return"] \notin Object
  BY <1>2, Ready, Here
<1>4. Entry.counted /\ d \in Variable /\ d # "return" /\ "return" \in Storage
  <2>1. Arrives(icode, pc)
    BY <1>2, <1>3 DEF Fits, Entry
  <2> QED
    BY <1>1, <2>1, StorageNames DEF Arrives, Entry, Overwritten
<1>5. PICK new : new = IF o \in Object THEN o ELSE NoObject
  OBVIOUS
<1>6. /\ held' = [held EXCEPT ![d] = o]
      /\ owner' = [owner EXCEPT ![d] = new]
      /\ pending' = [q \in Object |-> Forget(d)[q] - (IF o \in Object /\ q = o THEN 1 ELSE 0)]
  BY <1>1, <1>4, <1>5 DEF ExecCopy
<1>7. icode' = icode /\ isVoid' = isVoid
  BY <1>2 DEF genVars
<1>8. ASSUME Flat PROVE Accounted'
  <2>1. Spared /\ Balanced /\ Emptied
    BY <1>2, <1>8, Ready DEF Accounted
  <2>2. owner[d] = NoObject
    <3>1. CASE Entry.dest # Whole("self")
      BY <1>1, <1>2, <1>4, <2>1, <3>1 DEF Emptied
    <3>2. CASE Entry.dest = Whole("self")
      <4>1. d = "self" /\ "self" \in Local
        BY <1>1, <1>4, <3>2 DEF Whole, Variable
      <4>2. Renews(icode[pc], "self")
        BY <1>2, <3>2 DEF Renews, Entry
      <4> QED
        BY <1>3, <2>1, <4>1, <4>2 DEF Spared
    <3> QED
      BY <3>1, <3>2
  <2>3. Spared'
    <3>1. \A v \in Local : owner'[v] # NoObject => owner[v] # NoObject \/ Fills(Entry, v)
      <4> TAKE v \in Local
      <4>1. CASE v = d
        BY <1>1, <1>2, <4>1 DEF Fills
      <4>2. CASE v # d
        BY <1>3, <1>6, <4>2, StorageNames
      <4> QED
        BY <4>1, <4>2
    <3> QED
      BY <1>2, <1>3, <1>7, <2>1, <3>1, SparedOn
  <2>4. Emptied'
    BY <1>2, <1>3, <1>7, EmptiedOn
  <2>5. ASSUME NEW q \in Object
        PROVE  pending'[q] <= (IF OnTheWay(q)' THEN 1 ELSE 0) + (IF Delivered(q)' THEN 1 ELSE 0)
    <3>1. pending[q] <= IF OnTheWay(q) THEN 1 ELSE 0
      BY <1>3, <2>1, SMTT(30) DEF Balanced, Delivered
    <3>2. OnTheWay(q) => q = o
      BY <1>1, <1>2 DEF OnTheWay, Carried, Entry
    <3>3. pending'[q] = pending[q] - (IF q = o THEN 1 ELSE 0)
      <4>1. Forget(d)[q] = pending[q]
        BY <1>3, <2>2, StorageNames DEF Forget
      <4>2. pending'[q] = Forget(d)[q] - (IF o \in Object /\ q = o THEN 1 ELSE 0)
        BY <1>6
      <4> QED
        BY <4>1, <4>2
    <3>4. pending'[q] <= 0
      BY <1>3, <3>1, <3>2, <3>3
    <3>5. PICK b, c : b = (IF OnTheWay(q)' THEN 1 ELSE 0) /\ c = (IF Delivered(q)' THEN 1 ELSE 0)
      OBVIOUS
    <3>6. b \in {0, 1} /\ c \in {0, 1} /\ pending'[q] \in Int
      BY <1>3, <3>3, <3>5
    <3>7. pending'[q] <= b + c
      BY <3>4, <3>6
    <3> QED
      BY <3>5, <3>7
  <2>6. Balanced'
    BY <2>5 DEF Balanced
  <2> QED
    BY <2>3, <2>4, <2>6 DEF Accounted
<1> QED
  BY <1>2, <1>8, LossOn

LEMMA CallLoses ==
    ASSUME BodyInv, LossInv, BodyInv', ExecCall
    PROVE  LossInv'
<1>1. phase = "run" /\ Entry.op = "call"
  BY DEF ExecCall, Running, Entry
<1>2. /\ WellFormed(icode) /\ icode \in Seq(Entries) /\ pc \in DOMAIN icode /\ pc \in Nat
      /\ pc + 1 \in DOMAIN icode /\ Tidy(icode, {}, symbols, isVoid)
      /\ held \in [Storage -> Object \cup {Null, Garbage}]
  BY <1>1, Ready
<1>3. ~ Underway(icode, pc)
  BY <1>1 DEF Underway, Entry
<1>4. CASE Stop("panicked")
  BY <1>1, <1>3, <1>4, LossEnd
<1>5. ASSUME NEW o \in Object, held' = [held EXCEPT !["callee"] = o], Step, UNCHANGED <<count, owner, pending>>
      PROVE  LossInv'
  <2>1. phase' = phase /\ UNCHANGED genVars /\ pc' = pc + 1 /\ icode' = icode
    BY <1>5 DEF Step, genVars
  <2>2. ASSUME Flat PROVE Accounted'
    <3>1. Spared
      BY <1>1, <2>2, Ready DEF Accounted
    <3>2. Spared'
      BY <1>2, <1>5, <2>1, <3>1, SparedOn
    <3>3. Emptied'
      BY <1>1, <1>2, <2>1, EmptiedOn
    <3>4. held'["return"] = held["return"]
      BY <1>2, <1>5, StorageNames
    <3>5. Balanced'
      BY <1>1, <1>3, <1>5, <2>1, <2>2, <3>4, NothingMoves
    <3> QED
      BY <3>2, <3>3, <3>5 DEF Accounted
  <2> QED
    BY <1>1, <2>1, <2>2, LossOn
<1> QED
  BY <1>4, <1>5 DEF ExecCall

LEMMA JumpLoses ==
    ASSUME BodyInv, LossInv, BodyInv', ExecJump
    PROVE  LossInv'
<1>1. phase = "run" /\ Entry.op \in {"label", "goto", "ifFalseGoto"}
  BY DEF ExecJump, Running, Entry
<1>2. /\ WellFormed(icode) /\ icode \in Seq(Entries) /\ pc \in DOMAIN icode /\ pc \in Nat
      /\ Entry \in Entries /\ pc + 1 \in DOMAIN icode /\ Tidy(icode, {}, symbols, isVoid)
  BY <1>1, Ready
<1>3. JumpsInto(icode, Emitted(icode))
  BY <1>1 DEF BodyInv, Runs
<1>4. /\ phase' = phase /\ UNCHANGED genVars /\ icode' = icode
      /\ held' = held /\ owner' = owner /\ pending' = pending
  BY DEF ExecJump, JumpTo, Step, genVars, heapVars
<1>5. ~ Underway(icode, pc)
  BY <1>1 DEF Underway, Entry
<1>6. ASSUME Flat PROVE Accounted'
  <2>1. Clear(icode) /\ Spared
    BY <1>1, <1>6, Ready DEF Accounted
  <2>2. Balanced'
    BY <1>1, <1>4, <1>5, <1>6, NothingMoves
  <2>3. CASE pc' = pc + 1
    <3>1. Spared'
      BY <1>2, <1>4, <2>1, <2>3, SparedOn
    <3>2. Emptied'
      BY <1>1, <1>2, <1>4, <2>3, EmptiedOn
    <3> QED
      BY <2>2, <3>1, <3>2 DEF Accounted
  <2>4. CASE Entry.op \in {"goto", "ifFalseGoto"} /\ JumpTo(Entry.label)
    <3>1. PICK l : l = Entry.label
      OBVIOUS
    <3>2. l \in Emitted(icode)
      BY <1>2, <1>3, <2>4, <3>1 DEF JumpsInto, Entry
    <3>3. PICK i \in DOMAIN icode : icode[i].op = "label" /\ icode[i].label = l
      BY <3>2 DEF Emitted
    <3>4. icode[i] \in Entries
      BY <1>2
    <3>5. icode[i] = CreateLabel(l)
      BY <3>3, <3>4 DEF Entries, Call, Ret, NullInit, CreateLabel
    <3>6. pc' = CHOOSE k \in DOMAIN icode : icode[k] = CreateLabel(l)
      BY <2>4, <3>1 DEF JumpTo
    <3>7. pc' \in DOMAIN icode /\ icode[pc'] = CreateLabel(l)
      BY <3>5, <3>6
    <3>8. icode[pc'].op = "label" /\ icode[pc'].label = l
      BY <3>7 DEF CreateLabel
    <3>9. Emptied'
      BY <1>4, <3>8 DEF Emptied, Entry
    <3>10. Spared'
      <4> SUFFICES ASSUME NEW v \in Local, owner[v] # NoObject, NEW j \in DOMAIN icode, pc' <= j
                   PROVE  ~ Renews(icode[j], v)
        BY <1>4 DEF Spared
      <4>1. CASE pc <= j
        BY <2>1, <4>1 DEF Spared
      <4>2. CASE ~ pc <= j
        <5>1. j <= pc
          BY <1>2, <4>2
        <5>2. Jumps(icode[pc]) /\ icode[pc].label = icode[pc'].label
          BY <2>4, <3>1, <3>8 DEF Jumps, Entry
        <5>3. ~ Renewing(icode[j])
          BY <1>2, <2>1, <3>7, <3>8, <5>1, <5>2 DEF Clear
        <5> QED
          BY <5>3 DEF Renewing, Renews
      <4> QED
        BY <4>1, <4>2
    <3> QED
      BY <2>2, <3>9, <3>10 DEF Accounted
  <2>5. pc' = pc + 1 \/ (Entry.op \in {"goto", "ifFalseGoto"} /\ JumpTo(Entry.label))
    BY DEF ExecJump, Running, Step, Entry
  <2> QED
    BY <2>3, <2>4, <2>5
<1> QED
  BY <1>1, <1>4, <1>6, LossOn

LEMMA RetLoses ==
    ASSUME BodyInv, LossInv, ExecRet
    PROVE  LossInv'
<1>1. phase = "run" /\ Entry.op = "ret" /\ Stop("returned")
  BY DEF ExecRet, Running, Entry
<1>2. ~ Underway(icode, pc)
  BY <1>1 DEF Underway, Entry
<1> QED
  BY <1>1, <1>2, LossEnd

LEMMA RunLoses ==
    ASSUME BodyInv, LossInv, BodyInv', ScopeInv', Execute
    PROVE  LossInv'
<1>1. ExecCopy => LossInv'
  BY CopyLoses, ReturnCopyLoses
<1> QED
  BY <1>1, NullInitLoses, BeforeCopyLoses, DeconstructLoses, CallLoses, JumpLoses, RetLoses DEF Execute

------------------------------------------------------------------------------
(***************************************************************************)
(* The generator, and the start of a run.                                  *)
(***************************************************************************)
LEMMA NothingYet ==
    ASSUME phase' = "generate" \/ phase' = "rejected", Settled' \/ phase' = "rejected",
           \A o \in Object : pending'[o] = 0, \A v \in Local : owner'[v] = NoObject
    PROVE  LossInv'
<1>1. NothingLost'
  BY DEF NothingLost
<1> QED
  BY <1>1 DEF LossInv, NothingLostIfFlat

LEMMA TerminateLoses ==
    ASSUME ScopeInv, BodyInv, LossInv, BodyInv', terminateFunction, ~ Reject
    PROVE  LossInv'
<1>1. /\ phase = "generate" /\ phase' = "run" /\ pc' = pc /\ symbols' = symbols /\ isVoid' = isVoid
      /\ held' = held /\ owner' = owner /\ pending' = pending /\ (Flat' <=> Flat)
  BY DEF terminateFunction, Reject, genVars, heapVars, Flat
<1>2. /\ Code /\ pc = 1 /\ Settled
      /\ \A o \in Object : pending[o] = 0
      /\ \A v \in Local : owner[v] = NoObject
  BY <1>1 DEF ScopeInv, LossInv
<1>3. icode \in Seq(Entries) /\ symbols \subseteq Local
  BY <1>2 DEF Code, WellFormed
<1>4. Tidy(icode', {}, symbols, isVoid) /\ (Flat => Clear(icode'))
  <2>1. CASE doesFunctionTerminate
    <3>1. icode' = icode
      BY <2>1 DEF terminateFunction, Reject, genVars
    <3> QED
      BY <1>2, <3>1 DEF Settled
  <2>2. CASE ~ doesFunctionTerminate
    <3>1. PICK row, A, void, c : /\ row = createReturnAndCallDeconstructors
                                 /\ A = symbols /\ void = isVoid /\ c = icode
      OBVIOUS
    <3>2. icode' = c \o row
      BY <2>2, <3>1 DEF terminateFunction, Reject, genVars
    <3>3. /\ row \in Seq(Entries) /\ Tidy(row, A, A, void) /\ Still(row)
          /\ \A i \in DOMAIN row : row[i].op \notin Branches
      BY <1>3, <3>1, SweepTidy
    <3>4. c \in Seq(Entries) /\ Tidy(c, {}, A, void) /\ (Flat => Clear(c))
      BY <1>2, <1>3, <3>1 DEF Settled
    <3>5. Tidy(c \o row, {}, A, void)
      BY <3>3, <3>4, TidyJoin
    <3>6. Flat => Clear(c \o row)
      <4>1. \A i \in DOMAIN row : ~ Jumps(row[i])
        BY <3>3 DEF Jumps, Branches
      <4> QED
        BY <3>3, <3>4, <4>1, DeclareOn
    <3> QED
      BY <3>1, <3>2, <3>5, <3>6
  <2> QED
    BY <2>1, <2>2
<1>5. Spared' /\ Balanced'
  <2>1. Spared'
    BY <1>1, <1>2 DEF Spared
  <2>2. \A o \in Object : pending'[o] <= (IF OnTheWay(o)' THEN 1 ELSE 0) + (IF Delivered(o)' THEN 1 ELSE 0)
    <3> TAKE o \in Object
    <3>1. PICK b, c : b = (IF OnTheWay(o)' THEN 1 ELSE 0) /\ c = (IF Delivered(o)' THEN 1 ELSE 0)
      OBVIOUS
    <3>2. b \in {0, 1} /\ c \in {0, 1} /\ pending'[o] = 0
      BY <1>1, <1>2, <3>1
    <3> QED
      BY <3>1, <3>2
  <2> QED
    BY <2>1, <2>2 DEF Balanced
<1>6. Emptied'
  <2>1. PICK c, e : c = icode' /\ e = c[1]
    OBVIOUS
  <2>2. c \in Seq(Entries) /\ 1 \in DOMAIN c /\ Fits(c, 1) /\ Entry' = e
    BY <1>1, <1>2, <2>1 DEF BodyInv, Runs, Code, WellFormed, Entry
  <2>3. ~ Arrives(c, 1)
    <3>1. 1 - 1 \notin DOMAIN c
      BY <2>2
    <3> QED
      BY <3>1 DEF Arrives
  <2>4. e.op = "copy" => e.dest.var = "return"
    BY <2>1, <2>2, <2>3 DEF Fits
  <2> QED
    BY <2>2, <2>4, StorageNames DEF Emptied
<1>7. Flat' => NothingLost'
  BY <1>1, <1>5, BalancedNext
<1> QED
  BY <1>1, <1>4, <1>5, <1>6, <1>7 DEF LossInv, Accounted, NothingLostIfFlat

LEMMA CompileLoses ==
    ASSUME ScopeInv, BodyInv, LossInv, BodyInv', Compile,
           Whole("self") \notin Readable, Whole("self") \notin Targets, Whole("p") \notin Targets,
           "self" \in Local => "forEach" \notin Forms
    PROVE  LossInv'
<1>0. phase = "generate"
  BY DEF Compile, local, forEachLoop, walrusLocal, assignment, functionReturn, breakStatement, continueStatement,
         breakOrContinue, ifStatement, elseStatement, loopStatement, closeBlock, terminateFunction, Writing
<1>1. /\ Code /\ Generated /\ Settled
      /\ \A o \in Object : pending[o] = 0
      /\ \A v \in Local : owner[v] = NoObject
  BY <1>0 DEF LossInv, ScopeInv
<1>2. CASE Reject
  BY <1>1, <1>2, NothingYet DEF Reject, heapVars
<1> SUFFICES ASSUME ~ Reject
             PROVE  LossInv'
  BY <1>2
<1>3. ASSUME phase' = phase, UNCHANGED heapVars, Settled'
      PROVE  LossInv'
  BY <1>0, <1>1, <1>3, NothingYet DEF heapVars
<1>4. ASSUME NEW entries, NEW form, Writing(form), Emit(entries)
      PROVE  phase' = phase /\ UNCHANGED heapVars
  BY <1>4 DEF Emit
<1>5. ASSUME NEW s \in Local, local(s) PROVE LossInv'
  BY <1>1, <1>3, <1>4, <1>5, LocalSettled DEF local
<1>6. ASSUME NEW s \in Local, forEachLoop(s) PROVE LossInv'
  <2>1. s # "self"
    BY <1>6 DEF forEachLoop, Writing
  <2>2. Settled'
    BY <1>1, <1>6, <2>1, ForEachSettled
  <2> QED
    BY <1>3, <1>4, <1>6, <2>2 DEF forEachLoop
<1>7. ASSUME NEW s \in Local, NEW src \in Wholes, walrusLocal(s, src) PROVE LossInv'
  BY <1>1, <1>3, <1>4, <1>7, WalrusSettled DEF walrusLocal
<1>8. ASSUME NEW dst \in Targets, NEW src \in Readable, assignment(dst, src) PROVE LossInv'
  BY <1>1, <1>3, <1>4, <1>8, AssignmentSettled DEF assignment
<1>9. ASSUME NEW v \in Variable \cup {"callee"}, functionReturn(Whole(v)) PROVE LossInv'
  BY <1>1, <1>3, <1>4, <1>9, ReturnSettled DEF functionReturn
<1>10. CASE breakStatement \/ continueStatement
  BY <1>1, <1>3, <1>4, <1>10, BreakSettled DEF breakStatement, continueStatement, breakOrContinue
<1>11. CASE ifStatement
  BY <1>1, <1>3, <1>4, <1>11, IfSettled DEF ifStatement
<1>12. CASE elseStatement
  BY <1>1, <1>3, <1>4, <1>12, ElseSettled DEF elseStatement
<1>13. ASSUME NEW kind \in {"while", "do", "loop"}, loopStatement(kind) PROVE LossInv'
  BY <1>1, <1>3, <1>4, <1>13, LoopSettled DEF loopStatement
<1>14. CASE closeBlock
  BY <1>1, <1>3, <1>14, CloseSettled DEF closeBlock
<1>15. CASE terminateFunction
  BY <1>15, TerminateLoses
<1> QED
  BY <1>5, <1>6, <1>7, <1>8, <1>9, <1>10, <1>11, <1>12, <1>13, <1>14, <1>15 DEF Compile

LEMMA LossStart == Init => LossInv
<1> SUFFICES ASSUME Init PROVE LossInv
  OBVIOUS
<1>1. /\ phase = "generate" /\ icode = <<>> /\ symbols = {} /\ open = <<FunctionBlock>>
      /\ pending = [q \in Object |-> 0]
  BY DEF Init
<1>2. \A v \in Local : owner[v] = NoObject
  <2>1. PICK o \in Object, g \in {TRUE, FALSE} :
          /\ held = [s \in Storage |-> CASE s = "p" -> o
                                         [] s = "g" -> IF g THEN o ELSE Null
                                         [] OTHER -> Garbage]
          /\ owner = [v \in Variable |-> IF held[v] = o THEN o ELSE NoObject]
    BY DEF Init
  <2> TAKE v \in Local
  <2>2. v \in Storage /\ v \in Variable /\ v # "p" /\ v # "g" /\ Garbage \notin Object
    BY StorageNames, LocalOrderIsLocal
  <2>3. held[v] = Garbage
    BY <2>1, <2>2
  <2> QED
    BY <2>1, <2>2, <2>3
<1>3. DOMAIN icode = {}
  BY <1>1
<1>4. ~ open[1].inLoop
  BY <1>1 DEF FunctionBlock, Block
<1>5. Settled
  BY <1>1, <1>3, <1>4 DEF Settled, Tidy, Clear, Quiet
<1> QED
  BY <1>1, <1>2, <1>5 DEF LossInv, NothingLostIfFlat, NothingLost

LEMMA LossStep ==
    ASSUME Whole("self") \notin Readable, Whole("self") \notin Targets, Whole("p") \notin Targets,
           "self" \in Local => "forEach" \notin Forms
    PROVE  LossInv /\ ScopeInv /\ ScopeInv' /\ BodyInv /\ BodyInv' /\ [Next]_vars => LossInv'
<1> SUFFICES ASSUME LossInv, ScopeInv, ScopeInv', BodyInv, BodyInv', [Next]_vars
             PROVE  LossInv'
  OBVIOUS
<1>1. CASE Compile
  BY <1>1, CompileLoses
<1>2. CASE Execute
  BY <1>2, RunLoses
<1>3. CASE UNCHANGED vars
  <2>1. phase' = phase /\ pc' = pc /\ UNCHANGED genVars /\ held' = held /\ owner' = owner /\ pending' = pending
    BY <1>3 DEF vars, heapVars
  <2>2. /\ icode' = icode /\ symbols' = symbols /\ isVoid' = isVoid /\ open' = open /\ (Flat' <=> Flat)
    BY <2>1 DEF genVars, Flat
  <2>3. Settled => Settled'
    BY <2>2 DEF Settled, Labelled
  <2>4. Accounted => Accounted'
    BY <2>1, <2>2 DEF Accounted, Spared, Balanced, OnTheWay, Delivered, Emptied, Entry
  <2>5. NothingLostIfFlat => NothingLostIfFlat'
    BY <2>1, <2>2 DEF NothingLostIfFlat, NothingLost, Copying
  <2> QED
    BY <2>1, <2>2, <2>3, <2>4, <2>5 DEF LossInv
<1> QED
  BY <1>1, <1>2, <1>3 DEF Next

------------------------------------------------------------------------------
(***************************************************************************)
(* When every declaration stands in the outermost block, no reference is   *)
(* lost, whatever loops and branches stand around the assignments and      *)
(* whatever returns leave them; the item of a for loop, which every round  *)
(* overwrites, included.  The code makes an exception of a whole self: its *)
(* old value is not destroyed, so nothing may be assigned to it, by name   *)
(* or by a for loop.                                                       *)
(***************************************************************************)
THEOREM FlatBodiesLoseNothing ==
    ASSUME Whole("self") \notin Readable, Whole("self") \notin Targets, Whole("p") \notin Targets,
           "self" \in Local => "forEach" \notin Forms
    PROVE  Spec /\ []NeverFull => []NothingLostIfFlat
<1>1. Init => LossInv
  BY LossStart
<1>2. LossInv /\ ScopeInv /\ ScopeInv' /\ BodyInv /\ BodyInv' /\ [Next]_vars => LossInv'
  BY LossStep
<1>3. Spec => []ScopeInv
  BY ScopeInvariant
<1>4. Spec /\ []NeverFull => []BodyInv
  BY BodyInvariant
<1>5. LossInv => NothingLostIfFlat
  BY DEF LossInv
<1> QED
  BY <1>1, <1>2, <1>3, <1>4, <1>5, PTL DEF Spec

\* Without branches and loops the outermost block is the only one.
OneBlock ==
    /\ open = <<FunctionBlock>> /\ scopeStack = <<0, 1>>
    /\ symbols \subseteq DOMAIN symbolScope /\ Flat

LEMMA OneBlockStep ==
    ASSUME Forms \cap {"if", "while", "do", "loop", "forEach"} = {}, OneBlock, [Next]_vars
    PROVE  OneBlock'
<1>1. CASE UNCHANGED <<open, scopeStack, symbols, symbolScope>>
  BY <1>1 DEF OneBlock, Flat
<1>2. ASSUME NEW s \in Local, createLocal(s), UNCHANGED <<open, scopeStack>>
      PROVE  OneBlock'
  <2>1. Last(scopeStack) = 1
    <3>1. PICK c : c = scopeStack
      OBVIOUS
    <3>2. c = <<0, 1>>
      BY <3>1 DEF OneBlock
    <3>3. c[Len(c)] = 1
      BY <3>2
    <3> QED
      BY <3>1, <3>3 DEF Last
  <2>2. symbolScope' = [v \in DOMAIN symbolScope \cup {s} |-> IF v = s THEN 1 ELSE symbolScope[v]]
    BY <1>2, <2>1 DEF createLocal
  <2>3. \A v \in symbols' : v \in DOMAIN symbolScope' /\ symbolScope'[v] = 1
    BY <1>2, <2>2 DEF createLocal, OneBlock, Flat
  <2> QED
    BY <1>2, <2>3 DEF OneBlock, Flat
<1>3. ASSUME Reject PROVE OneBlock'
  BY <1>1, <1>3 DEF Reject, genVars
<1>4. ASSUME Compile PROVE OneBlock'
  <2>1. ASSUME NEW s \in Local, local(s) PROVE OneBlock'
    BY <1>2, <1>3, <2>1 DEF local
  <2>2. ASSUME NEW s \in Local, NEW src \in Wholes, walrusLocal(s, src) PROVE OneBlock'
    BY <1>2, <1>3, <2>2 DEF walrusLocal
  <2>3. ASSUME NEW dst \in Targets, NEW src \in Readable, assignment(dst, src) PROVE OneBlock'
    BY <1>1, <1>3, <2>3 DEF assignment
  <2>4. ASSUME NEW v \in Variable \cup {"callee"}, functionReturn(Whole(v)) PROVE OneBlock'
    BY <1>1, <1>3, <2>4 DEF functionReturn
  <2>5. ASSUME breakStatement \/ continueStatement PROVE OneBlock'
    BY <1>1, <1>3, <2>5 DEF breakStatement, continueStatement, breakOrContinue
  <2>6. /\ \A s \in Local : ~ forEachLoop(s)
        /\ ~ ifStatement /\ ~ elseStatement
        /\ \A kind \in {"while", "do", "loop"} : ~ loopStatement(kind)
    BY DEF forEachLoop, ifStatement, elseStatement, loopStatement, Writing
  <2>7. ~ closeBlock
    <3>1. PICK b : b = FunctionBlock
      OBVIOUS
    <3>2. open = <<b>>
      BY <3>1 DEF OneBlock
    <3> QED
      BY <3>2 DEF closeBlock
  <2>8. ASSUME terminateFunction PROVE OneBlock'
    BY <1>1, <1>3, <2>8 DEF terminateFunction
  <2> QED
    BY <1>4, <2>1, <2>2, <2>3, <2>4, <2>5, <2>6, <2>7, <2>8 DEF Compile
<1>5. ASSUME Execute PROVE OneBlock'
  <2>1. UNCHANGED genVars
    BY <1>5 DEF Execute, ExecNullInit, ExecBeforeCopy, ExecDeconstruct, ExecCopy, ExecCall, ExecJump, ExecRet,
                Step, Stop, JumpTo
  <2> QED
    BY <1>1, <2>1 DEF genVars
<1>6. CASE UNCHANGED vars
  BY <1>1, <1>6 DEF vars, genVars
<1> QED
  BY <1>4, <1>5, <1>6 DEF Next

(***************************************************************************)
(* In a body without branches and loops no reference is lost at all: what  *)
(* unitCopy retains reaches its variable or is the return value, and what  *)
(* it overwrites was destroyed.                                            *)
(***************************************************************************)
THEOREM StraightBodiesLoseNothing ==
    ASSUME Whole("self") \notin Readable, Whole("self") \notin Targets, Whole("p") \notin Targets,
           Forms \cap {"if", "while", "do", "loop", "forEach"} = {}
    PROVE  Spec /\ []NeverFull => []NothingLost
<1>1. Init => OneBlock
  BY DEF Init, OneBlock, Flat
<1>2. OneBlock /\ [Next]_vars => OneBlock'
  BY OneBlockStep
<1>3. OneBlock /\ NothingLostIfFlat => NothingLost
  BY DEF OneBlock, NothingLostIfFlat
<1>4. "self" \in Local => "forEach" \notin Forms
  OBVIOUS
<1>5. Spec /\ []NeverFull => []NothingLostIfFlat
  BY <1>4, FlatBodiesLoseNothing
<1> QED
  BY <1>1, <1>2, <1>3, <1>5, PTL DEF Spec
==============================================================================
