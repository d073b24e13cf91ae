------------------------------- MODULE FrontEnd ------------------------------
(***************************************************************************)
(* The scanner and the parser behind it (parser::generateAST over a Lexer, *)
(* compiler/src/Parser/Parser.cpp).  A run starts with a file to be        *)
(* scanned, or with the queue of tokens some file is scanned to: a         *)
(* sentence of the grammar, or the beginning of one.                       *)
(***************************************************************************)
EXTENDS Lexer, Parser

CONSTANTS Sentences,    \* token types without END_OF_FILE; a name of Names stands for that identifier
          Names,        \* identifiers told apart from the others
          Beyond        \* token types that may lie in memory behind the queue

VARIABLES grammatical,  \* the queue is a whole sentence of the grammar
          ast           \* what the parser made of it

frontEndVars == <<file, lineNo, i, startIndex, tokenQueue, status, grammatical, ast>>

unparsed == [ok |-> FALSE, ast |-> Node("UNPARSED", 0, <<>>)]
typesIn(ts) == [k \in DOMAIN ts |-> ts[k].type]
queueOf(s)  ==
  [k \in 1 .. Len(s) + 1 |->
     LET t == IF k <= Len(s) THEN s[k] ELSE "END_OF_FILE"
     IN  [type |-> IF t \in Names THEN "IDENTIFIER" ELSE t, string |-> <<t>>, line |-> 1, from |-> k, to |-> k]]

given ==
  /\ file = <<>> /\ lineNo = 1 /\ i = 1 /\ startIndex = 0 /\ status = "done"
  /\ \E s \in Sentences :
       \/ tokenQueue = queueOf(s) /\ grammatical = TRUE
       \/ grammatical = FALSE /\ \E n \in 0 .. Len(s) - 1 : tokenQueue = queueOf(SubSeq(s, 1, n))

FrontEndInit ==
  /\ ast = unparsed
  /\ given \/ (Init /\ grammatical = FALSE)

scan == Next /\ UNCHANGED <<grammatical, ast>>

parse ==
  /\ status = "done" /\ ast = unparsed
  /\ \E b \in Beyond : ast' = generateAST(typesIn(tokenQueue), b)
  /\ UNCHANGED <<vars, grammatical>>

FrontEndNext == scan \/ parse
FrontEndSpec == FrontEndInit /\ [][FrontEndNext]_frontEndVars
------------------------------------------------------------------------------
parsed   == ast # unparsed
accepted == parsed /\ ast.ok

RECURSIVE nodesOf(_)
nodesOf(n) == {n} \cup UNION {nodesOf(n.children[k]) : k \in DOMAIN n.children}

\* The tokens a tree shows, in some order: leaves, and the nodes that stand
\* for a name or an operator themselves.  A method call's object and a
\* duplicated node keep a token that is not theirs.
showsItsToken == {"IDENTIFIER", "LITERAL", "STR_LITERAL", "MODULE", "OPERATOR", "UNARY_OPR", "ASSIGN_OPERATOR",
                  "FUNCCALL", "GENERIC_FUNCCALL", "METHODCALL", "CAST", "PTR_CAST", "PTR_ARRAY_CAST", "SIZEOF",
                  "ADDR", "ENUM", "BREAK", "CONTINUE", "STRUCT_FIELD", "POINTER_STAR", "EMPTY_SUBSCRIPT"}
RECURSIVE shown(_)
shown(n) ==
  (IF n.type \in showsItsToken THEN <<n.tok>> ELSE <<>>)
  \o FoldLeft(LAMBDA s, child : s \o shown(child), <<>>, n.children)

contentTypes == literals \cup {"IDENTIFIER", "STR_LITERAL", "sizeof", "addr", "break", "continue"}
                \cup assignmentOperators

\* A sentence of the grammar of compiler/src/Parser/README.md is accepted.
AcceptsGrammar == parsed /\ grammatical => ast.ok

\* So it is unless a parenthesis directly follows an opening bracket
\* somewhere, which the look-ahead for a generic call may mistake for its own
\* (Lexer::matchedBracketPeek).
AcceptsWithoutOpenPair ==
  parsed /\ grammatical =>
    \/ ast.ok
    \/ \E k \in 1 .. Len(tokenQueue) - 1 : tokenQueue[k].type = "[" /\ tokenQueue[k + 1].type = "("

\* In every tree, an operator binds no looser than the one above it, and of
\* equals the left one is the inner one; the operand to the left of it stands
\* to the left of it in the text (baseExpression, insertNodeBeginning).
BindsAsPrecedenceSays ==
  accepted => \A n \in nodesOf(ast.ast) :
    (n.type = "EXPRESSION" /\ Len(n.children) = 3) =>
      LET binds(m)  == getPrecedence(tokenQueue[m.children[2].tok].type)
          isTree(m) == m.type = "EXPRESSION" /\ Len(m.children) = 3
          l == n.children[1]  r == n.children[3]
      IN  /\ isTree(l) => binds(l) >= binds(n)
          /\ isTree(r) => binds(r) > binds(n)
          /\ \A p \in ToSet(shown(l)) : p < n.children[2].tok
          /\ \A p \in ToSet(shown(r)) : p > n.children[2].tok

\* Every name, literal and operator of an accepted file is in its tree, once:
\* none is lost or doubled where nodes are adopted and duplicated
\* (insertNode, insertNodeBeginning, duplicateNode).
EveryNameHasItsPlace ==
  accepted =>
    LET s == shown(ast.ast)
    IN  /\ Cardinality(ToSet(s)) = Len(s)
        /\ \A k \in DOMAIN tokenQueue : tokenQueue[k].type \in contentTypes => k \in ToSet(s)

\* Some look-ahead reaches behind the end of the queue when a file ends too
\* early; whatever it reads there, the file is refused or accepted alike
\* (Lexer::doublePeekToken).
NothingBehindTheQueue ==
  parsed => \A b \in Beyond : generateAST(typesIn(tokenQueue), b) = ast
==============================================================================
