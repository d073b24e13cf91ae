------------------------------- MODULE CodeGen -------------------------------
(***************************************************************************)
(* How the generator flattens the control flow of a function body into the *)
(* icode table: conditional expressions (Generator/Expression.cpp) and the *)
(* statements that branch (Generator/Statement.cpp).                       *)
(*                                                                         *)
(* A node of the syntax tree is a record; tok is its token, of which only  *)
(* the identity matters (createLabel names a label after the token's line  *)
(* and column).  Conditions:                                               *)
(*    [op |-> "leaf", tok]               a comparison or a truth value     *)
(*    [op |-> "not", tok, of]  and  [op |-> "and" / "or", tok, l, r]       *)
(* Statements (a block is a sequence of them):                             *)
(*    act, break, continue, return       [op, tok]                         *)
(*    value, try                         [op, tok, cond]                   *)
(*    if                                 [op, tok, arms, otherwise]        *)
(*    while, do, for, for_each           [op, tok, cond, body]             *)
(*    loop                               [op, tok, body]                   *)
(* act is any statement without control flow of its own.                   *)
(***************************************************************************)
EXTENDS Naturals, Sequences, SequencesExt, Icode

(* FunctionBuilder::createLabel, insertLabel, createBranch, callFunction.    *)
Label(tok, sign, prefix) == <<prefix, sign, tok>>
insertLabel(l)           == <<Entry("CREATE_LABEL", l)>>
createBranch(op, l)      == <<Entry(op, l)>>
Call(tok, what)          == <<Entry("CALL", <<what, tok>>)>>
Compare(tok)             == <<Entry("CMP", tok)>>

-----------------------------------------------------------------------------
(* Conditional expressions.  The code of e ends in one of three ways: it     *)
(* jumps to trueLabel, jumps to falseLabel, or falls through; falling        *)
(* through means true if trueFall and false otherwise, and then the other    *)
(* label is the only one of the two that is jumped to.                       *)
\* Mutant: the jump over the true side is taken when the flag is set.
createJumps_Inverted(T, F, trueFall) ==
  IF trueFall THEN createBranch("IF_TRUE_GOTO", F) ELSE createBranch("IF_FALSE_GOTO", T)

createJumps(T, F, trueFall) ==
  IF trueFall THEN createBranch("IF_FALSE_GOTO", F) ELSE createBranch("IF_TRUE_GOTO", T)

\* truthyOperator (compared with 0) and the plain case of relationalExpression.
Leaf(e, T, F, trueFall) == Compare(e.tok) \o createJumps(T, F, trueFall)

RECURSIVE conditionalExpression(_, _, _, _)

conditionalAndOperator(e, T, F, trueFall) ==
  LET newTrue  == Label(e.tok, TRUE, "and")
      newFalse == Label(e.tok, FALSE, "and")
  IN  conditionalExpression(e.l, newTrue, IF trueFall THEN F ELSE newFalse, TRUE)
      \o conditionalExpression(e.r, T, F, trueFall)
      \o IF trueFall THEN <<>> ELSE insertLabel(newFalse)

conditionalOrOperator(e, T, F, trueFall) ==
  LET newTrue  == Label(e.tok, TRUE, "or")
      newFalse == Label(e.tok, FALSE, "or")
  IN  conditionalExpression(e.l, IF trueFall THEN newTrue ELSE T, newFalse, FALSE)
      \o conditionalExpression(e.r, T, F, trueFall)
      \o IF trueFall THEN insertLabel(newTrue) ELSE <<>>

conditionalTerm(e, T, F, trueFall) == conditionalExpression(e.of, F, T, ~trueFall)

conditionalExpression(e, T, F, trueFall) ==
  CASE e.op = "leaf" -> Leaf(e, T, F, trueFall)
    [] e.op = "not"  -> conditionalTerm(e, T, F, trueFall)
    [] e.op = "and"  -> conditionalAndOperator(e, T, F, trueFall)
    [] e.op = "or"   -> conditionalOrOperator(e, T, F, trueFall)

\* A condition used as a value: 1 or 0 is copied to a temporary.
expressionWithHint(s) ==
  LET F   == Label(s.tok, FALSE, "condn_exp")
      end == Label(s.tok, FALSE, "condn_exp_end")
  IN  conditionalExpression(s.cond, Label(s.tok, TRUE, "condn_exp"), F, TRUE)
      \o Call(s.tok, "one") \o createBranch("GOTO", end)
      \o insertLabel(F) \o Call(s.tok, "zero") \o insertLabel(end)

\* The ? operator: go on with the unwrapped value, or return the error.
questionMarkOperator(s) ==
  LET T == Label(s.tok, TRUE, "question_op")
  IN  Call(s.tok, "questionMarkContinue")
      \o Leaf(s.cond, T, Label(s.tok, FALSE, "question_op"), FALSE)
      \o Call(s.tok, "questionMarkError") \o <<Entry("RET", <<>>)>>
      \o insertLabel(T) \o Call(s.tok, "questionMarkUnwrap")
-----------------------------------------------------------------------------
(* Statements.  L holds the labels of the innermost loop: stop is the        *)
(* breakLabel, again the continueLabel; there are none outside a loop.       *)
NoLoop == [loop |-> FALSE]
In(stop, again) == [loop |-> TRUE, stop |-> stop, again |-> again]

RECURSIVE block(_, _)

\* Mutant: the end of the chain has its label only behind an else.
ifStatement_NoEndAfterElif(s, L) ==
  LET n     == Len(s.arms)
      end   == Label(s.tok, FALSE, "ifend")
      chain == s.otherwise # <<>>
      arm(i) ==
        LET F == Label(s.arms[i].tok, FALSE, "if")
        IN  conditionalExpression(s.arms[i].cond, Label(s.arms[i].tok, TRUE, "if"), F, TRUE)
            \o block(s.arms[i].body, L)
            \o (IF i # n \/ s.otherwise # <<>> THEN createBranch("GOTO", end) ELSE <<>>)
            \o insertLabel(F)
  IN  FlattenSeq([i \in 1..n |-> arm(i)]) \o block(s.otherwise, L)
      \o IF chain THEN insertLabel(end) ELSE <<>>

\* One label after every arm, and one at the end of the chain.
ifStatement(s, L) ==
  LET n     == Len(s.arms)
      end   == Label(s.tok, FALSE, "ifend")
      chain == n > 1 \/ s.otherwise # <<>>
      arm(i) ==
        LET F == Label(s.arms[i].tok, FALSE, "if")
        IN  conditionalExpression(s.arms[i].cond, Label(s.arms[i].tok, TRUE, "if"), F, TRUE)
            \o block(s.arms[i].body, L)
            \o (IF i # n \/ s.otherwise # <<>> THEN createBranch("GOTO", end) ELSE <<>>)
            \o insertLabel(F)
  IN  FlattenSeq([i \in 1..n |-> arm(i)]) \o block(s.otherwise, L)
      \o IF chain THEN insertLabel(end) ELSE <<>>

\* Mutant: the rounds after the first skip the condition.
whileLoop_TestedOnce(s) ==
  LET loopLabel == Label(s.tok, TRUE, "while") breakLabel == Label(s.tok, FALSE, "while")
  IN  conditionalExpression(s.cond, loopLabel, breakLabel, TRUE)
      \o insertLabel(loopLabel)
      \o block(s.body, In(breakLabel, loopLabel))
      \o createBranch("GOTO", loopLabel) \o insertLabel(breakLabel)

whileLoop(s) ==
  LET loopLabel == Label(s.tok, TRUE, "while") breakLabel == Label(s.tok, FALSE, "while")
  IN  insertLabel(loopLabel)
      \o conditionalExpression(s.cond, loopLabel, breakLabel, TRUE)
      \o block(s.body, In(breakLabel, loopLabel))
      \o createBranch("GOTO", loopLabel) \o insertLabel(breakLabel)

\* continue goes to the head of the body, not to the condition behind it.
doWhileLoop(s) ==
  LET loopLabel == Label(s.tok, TRUE, "do") breakLabel == Label(s.tok, FALSE, "do")
  IN  insertLabel(loopLabel)
      \o block(s.body, In(breakLabel, loopLabel))
      \o conditionalExpression(s.cond, loopLabel, breakLabel, TRUE)
      \o createBranch("GOTO", loopLabel) \o insertLabel(breakLabel)

forLoop(s) ==
  LET loopLabel     == Label(s.tok, TRUE, "for")
      breakLabel    == Label(s.tok, FALSE, "for")
      continueLabel == Label(s.tok, TRUE, "for_cont")
  IN  Call(s.tok, "init") \o insertLabel(loopLabel)
      \o conditionalExpression(s.cond, loopLabel, breakLabel, TRUE)
      \o block(s.body, In(breakLabel, continueLabel))
      \o insertLabel(continueLabel) \o Call(s.tok, "update")
      \o createBranch("GOTO", loopLabel) \o insertLabel(breakLabel)

forEachLoop(s) ==
  LET loopLabel     == Label(s.tok, TRUE, "for_each")
      breakLabel    == Label(s.tok, FALSE, "for_each")
      continueLabel == Label(s.tok, TRUE, "for_each_cont")
  IN  Call(s.tok, "generator") \o insertLabel(loopLabel) \o Call(s.tok, "length")
      \o Leaf(s.cond, loopLabel, breakLabel, TRUE)
      \o Call(s.tok, "item") \o block(s.body, In(breakLabel, continueLabel))
      \o insertLabel(continueLabel) \o Call(s.tok, "count")
      \o createBranch("GOTO", loopLabel) \o insertLabel(breakLabel)

infiniteLoop(s) ==
  LET loopLabel == Label(s.tok, TRUE, "loop") breakLabel == Label(s.tok, FALSE, "loop")
  IN  insertLabel(loopLabel) \o block(s.body, In(breakLabel, loopLabel))
      \o createBranch("GOTO", loopLabel) \o insertLabel(breakLabel)

\* Outside a loop both are compile errors, so L has the labels here.
continueStatement(L) == createBranch("GOTO", L.again)
breakStatement(L)    == createBranch("GOTO", L.stop)

statement(s, L) ==
  CASE s.op = "act"      -> Call(s.tok, "act")
    [] s.op = "value"    -> expressionWithHint(s)
    [] s.op = "try"      -> questionMarkOperator(s)
    [] s.op = "if"       -> ifStatement(s, L)
    [] s.op = "while"    -> whileLoop(s)
    [] s.op = "do"       -> doWhileLoop(s)
    [] s.op = "for"      -> forLoop(s)
    [] s.op = "for_each" -> forEachLoop(s)
    [] s.op = "loop"     -> infiniteLoop(s)
    [] s.op = "break"    -> breakStatement(L)
    [] s.op = "continue" -> continueStatement(L)
    [] s.op = "return"   -> <<Entry("RET", <<>>)>>

block(stmts, L) == FlattenSeq([i \in 1..Len(stmts) |-> statement(stmts[i], L)])

\* doesFunctionTerminate looks at the last entry only; a function that
\* returns nothing gets its return appended (terminateFunction).
terminateFunction(table) ==
  IF table # <<>> /\ table[Len(table)].op = "RET" THEN table
  ELSE Append(table, Entry("RET", <<>>))

\* The icode table of a function that returns nothing.
functionCode(body) == terminateFunction(block(body, NoLoop))
=============================================================================
