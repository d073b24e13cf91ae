---------------------------- MODULE SourceMeaning ----------------------------
(***************************************************************************)
(* What a function body means, read off the source alone: the reference    *)
(* the translated code is compared with.  Written from the language guide's *)
(* description of the statements (short-circuit conditions, continue skips *)
(* the rest of one round, a do loop checks its condition AFTER the body)   *)
(* over the syntax trees of CodeGen; no label or jump appears in it.        *)
(*                                                                         *)
(* The state of a running body is what is left to do: a stack of tasks.    *)
(* A task is a statement, a question [op |-> "ask", of, yes, no] (a        *)
(* condition with the tasks to go on with), or the end of a loop's round   *)
(* [op |-> "round", again].                                                *)
(***************************************************************************)
EXTENDS Naturals, Sequences, SequencesExt

Ask(c, yes, no) == [op |-> "ask", of |-> c, yes |-> yes, no |-> no]
Round(again)    == [op |-> "round", again |-> again]
\* Something a run shows: part `what` of the statement at a token.
Show(tok, what) == [op |-> "show", tok |-> tok, what |-> what]

\* What is left after leaving the innermost loop's body, and its round.
RoundAt(todo) == SelectInSeq(todo, LAMBDA t : t.op = "round")
Outside(todo) == SubSeq(todo, RoundAt(todo) + 1, Len(todo))
Again(todo)   == todo[RoundAt(todo)].again \o Outside(todo)

\* An if is a chain of questions.
RECURSIVE Arms(_, _)
Arms(arms, otherwise) ==
  IF arms = <<>> THEN otherwise
  ELSE <<Ask(Head(arms).cond, Head(arms).body, Arms(Tail(arms), otherwise))>>

\* for and for_each once the first part is done.
Rest(s) == [s EXCEPT !.op = IF s.op = "for" THEN "for_rest" ELSE "for_each_rest"]

\* Unfold the task at the top until it is something to show, a leaf to
\* ask, or nothing.
RECURSIVE Reduce(_)
Reduce(todo) ==
  IF todo = <<>> THEN <<>> ELSE
  LET t == Head(todo)  rest == Tail(todo)  Do(tasks) == Reduce(tasks \o rest) IN
  CASE t.op = "show" -> todo
    [] t.op = "ask" ->
         (CASE t.of.op = "leaf" -> todo
            [] t.of.op = "not"  -> Do(<<Ask(t.of.of, t.no, t.yes)>>)
            [] t.of.op = "and"  -> Do(<<Ask(t.of.l, <<Ask(t.of.r, t.yes, t.no)>>, t.no)>>)
            [] t.of.op = "or"   -> Do(<<Ask(t.of.l, t.yes, <<Ask(t.of.r, t.yes, t.no)>>)>>))
    [] t.op = "act"      -> Do(<<Show(t.tok, "act")>>)
    [] t.op = "return"   -> <<>>
    [] t.op = "break"    -> Reduce(Outside(rest))
    [] t.op \in {"continue", "round"} -> Reduce(Again(todo))
    [] t.op = "value"    -> Do(<<Ask(t.cond, <<Show(t.tok, "one")>>, <<Show(t.tok, "zero")>>)>>)
    [] t.op = "try"      -> Do(<<Show(t.tok, "questionMarkContinue"),
                                 Ask(t.cond, <<Show(t.tok, "questionMarkUnwrap")>>,
                                     <<Show(t.tok, "questionMarkError"), [op |-> "return"]>>)>>)
    [] t.op = "if"       -> Do(Arms(t.arms, t.otherwise))
    [] t.op = "while"    -> Do(<<Ask(t.cond, Append(t.body, Round(<<t>>)), <<>>)>>)
    [] t.op = "do"       -> Do(Append(t.body, Round(<<Ask(t.cond, <<t>>, <<>>)>>)))
    [] t.op = "loop"     -> Do(Append(t.body, Round(<<t>>)))
    [] t.op = "for"      -> Do(<<Show(t.tok, "init"), Rest(t)>>)
    [] t.op = "for_rest" -> Do(<<Ask(t.cond, Append(t.body, Round(<<Show(t.tok, "update"), t>>)), <<>>)>>)
    [] t.op = "for_each" -> Do(<<Show(t.tok, "generator"), Rest(t)>>)
    [] t.op = "for_each_rest" ->
         Do(<<Show(t.tok, "length"),
              Ask(t.cond, <<Show(t.tok, "item")>> \o t.body
                          \o <<Round(<<Show(t.tok, "count"), t>>)>>, <<>>)>>)

\* The state of a body that has not started, and after showing its next part
\* or learning the value of its next leaf (a part that is not next changes
\* nothing).
IsNext(todo, op)  == todo # <<>> /\ Head(todo).op = op
Begin(body)       == Reduce(body)
Shown(todo)       == IF IsNext(todo, "show") THEN Reduce(Tail(todo)) ELSE todo
Answered(todo, v) == IF IsNext(todo, "ask")
                     THEN Reduce((IF v THEN Head(todo).yes ELSE Head(todo).no) \o Tail(todo))
                     ELSE todo
=============================================================================
