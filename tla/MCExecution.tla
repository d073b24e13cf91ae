----------------------------- MODULE MCExecution -----------------------------
(***************************************************************************)
(* Function bodies for Execution.  A token is the path to the node, so no  *)
(* two nodes share one.  All bodies are without dead code unless said:     *)
(* break, continue and return only stand at the end of a block.  The body  *)
(* of an infinite loop begins with an ordinary statement: a loop that does *)
(* nothing has nothing to be compared.                                     *)
(***************************************************************************)
EXTENDS Execution

LeafAt(n) == [op |-> "leaf", tok |-> n]
At(op, n) == [op |-> op, tok |-> n]

\* The conditions over at most 2^d leaves.
RECURSIVE Conditions(_, _)
Conditions(d, n) ==
  IF d = 0 THEN {LeafAt(n)}
  ELSE LET L == Conditions(d - 1, Append(n, 1))
           R == Conditions(d - 1, Append(n, 2))
       IN  {LeafAt(n)} \cup {[op |-> "not", tok |-> n, of |-> c] : c \in L}
           \cup {[op |-> o, tok |-> n, l |-> l, r |-> r] : o \in {"and", "or"}, l \in L, r \in R}

Act(n)   == At("act", n)
Jumps(n, loop) == {At("return", n)} \cup IF loop THEN {At("break", n), At("continue", n)} ELSE {}

\* Statements that hold bodies, given the bodies for inside and outside a loop.
Simple(n) == {Act(n), [op |-> "value", tok |-> n, cond |-> LeafAt(Append(n, 0))],
              [op |-> "try", tok |-> n, cond |-> LeafAt(Append(n, 0))]}
Ifs(n, B(_)) ==
  LET arm(i) == {[tok |-> Append(n, i), cond |-> LeafAt(n \o <<i, 0>>), body |-> b] : b \in B(Append(n, i))}
  IN  {[op |-> "if", tok |-> n, arms |-> <<a>>, otherwise |-> <<>>] : a \in arm(1)}
      \cup {[op |-> "if", tok |-> n, arms |-> <<a>>, otherwise |-> b] : a \in arm(1), b \in B(Append(n, 3))}
Elifs(n, B(_)) ==
  LET arm(i) == {[tok |-> Append(n, i), cond |-> LeafAt(n \o <<i, 0>>), body |-> b] : b \in B(Append(n, i))}
  IN  {[op |-> "if", tok |-> n, arms |-> <<a, b>>, otherwise |-> <<>>] : a \in arm(1), b \in arm(2)}
      \cup {[op |-> "if", tok |-> n, arms |-> <<a, b>>, otherwise |-> c] : a \in arm(1), b \in arm(2), c \in B(Append(n, 3))}
Loop(op, n, b) == [op |-> op, tok |-> n, cond |-> LeafAt(Append(n, 0)), body |-> b]
Loops(n, B(_)) ==
  {Loop(op, n, b) : op \in {"while", "for", "for_each"}, b \in B(Append(n, 1))}
  \cup {[op |-> "loop", tok |-> n, body |-> <<Act(Append(n, 2))>> \o b] : b \in B(Append(n, 1))}

\* A do loop's continue skips its condition (see the run do_continue) and its
\* condition stands behind its body, so its bodies have no continue of their
\* own and do not end with a jump.
RECURSIVE Continues(_)
Continues(b) ==
  \E i \in 1..Len(b) :
    \/ b[i].op = "continue"
    \/ b[i].op = "if" /\ (Continues(b[i].otherwise) \/ \E k \in 1..Len(b[i].arms) : Continues(b[i].arms[k].body))
Dos(n, B(_)) == {Loop("do", n, b) : b \in {c \in B(Append(n, 1)) :
                                             ~Continues(c) /\ (c = <<>> \/ c[Len(c)].op \notin {"break", "return"})}}

\* Level 0: blocks of an ordinary statement, a jump, or one and the other.
Flat(n, loop) == {<<>>, <<Act(n)>>} \cup {<<j>> : j \in Jumps(n, loop)}
                 \cup {<<Act(Append(n, 1)), j>> : j \in Jumps(Append(n, 2), loop)}
FlatIn(n) == Flat(n, TRUE)
FlatOut(n) == Flat(n, FALSE)

\* Level 1: one compound statement between two ordinary ones.
Compound(n, loop) == (IF loop THEN Ifs(n, FlatIn) ELSE Ifs(n, FlatOut) \cup Elifs(n, FlatOut))
                     \cup Loops(n, FlatIn) \cup Dos(n, FlatIn) \cup (Simple(n) \ {Act(n)})
Middle(n, loop) == {<<s, Act(Append(n, 2))>> : s \in Compound(Append(n, 1), loop)}
                   \cup {<<s>> : s \in Compound(Append(n, 1), loop)}
MiddleIn(n) == Middle(n, TRUE)

\* Every condition of depth 2 in each place that has one, and every condition
\* of depth 3 in an if.
IfElse(c) == <<[op |-> "if", tok |-> <<1>>, otherwise |-> <<Act(<<4>>)>>,
                arms |-> <<[tok |-> <<2>>, cond |-> c, body |-> <<Act(<<3>>)>>]>>]>>
ConditionPrograms ==
  {IfElse(c) : c \in Conditions(3, <<0>>)}
  \cup {<<[op |-> op, tok |-> <<1>>, cond |-> c, body |-> <<Act(<<3>>)>>], Act(<<5>>)>> :
          op \in {"value", "while", "do", "for"}, c \in Conditions(2, <<0>>)}

\* A compound statement with another one (of each kind) behind it, and
\* compound statements in loops.
OneAct(n) == {<<Act(n)>>}
OfEachKind(n) == Ifs(n, OneAct) \cup Loops(n, OneAct) \cup Dos(n, OneAct) \cup Simple(n)
RowPrograms == {<<s, t>> : s \in Compound(<<1>>, FALSE), t \in OfEachKind(<<2>>)}
NestedPrograms ==
  {<<s, Act(<<2>>)>> : s \in Loops(<<1>>, MiddleIn) \cup Dos(<<1>>, MiddleIn)}
AllPrograms == ConditionPrograms \cup RowPrograms \cup NestedPrograms

\* do { if c continue  act } while d
DoContinue ==
  {<<Loop("do", <<1>>, <<[op |-> "if", tok |-> <<2>>, otherwise |-> <<>>,
       arms |-> <<[tok |-> <<3>>, cond |-> LeafAt(<<4>>), body |-> <<At("continue", <<5>>)>>]>>],
     Act(<<6>>)>>)>>}

\* while c { break  act }
DeadPrograms == {<<Loop("while", <<1>>, <<At("break", <<2>>), Act(<<3>>)>>), Act(<<4>>)>>}
=============================================================================
