-------------------------------- MODULE Parser -------------------------------
(***************************************************************************)
(* The recursive descent parser (compiler/src/Parser, Node/Node.cpp) as    *)
(* operators on a parser state: the queue of token types, the place of the *)
(* symbol, the children of the node under construction, and whether a      *)
(* parse error was thrown.  A production maps the state before it to the   *)
(* state behind it; after an error nothing changes any more.  A node keeps *)
(* the place of its token.  Operators and keywords are written as in the   *)
(* source, the backquote as "bt".  Reading behind the end of the queue     *)
(* finds what memory holds there: some token types, then END_OF_FILE.      *)
(***************************************************************************)
EXTENDS Integers, Sequences, FiniteSets, SequencesExt

Node(type, tok, children) == [type |-> type, tok |-> tok, children |-> children]

ParserContext(queue, beyond) ==
  [queue |-> queue, beyond |-> beyond, at |-> 1, children |-> <<>>, ok |-> TRUE]

TypeAt(c, n) ==
  LET k == n - Len(c.queue)
  IN  CASE k <= 0               -> c.queue[n]
        [] k > Len(c.beyond)    -> "END_OF_FILE"
        [] OTHER                -> c.beyond[k]

\* ParserContext: looking at the symbol and ahead.
symbol(c)    == IF c.ok THEN TypeAt(c, c.at) ELSE "ERROR"
accept(c, T) == symbol(c) \in T
peek(c, t)   == c.ok /\ TypeAt(c, c.at + 1) = t
dpeek(c, t)  == c.ok /\ TypeAt(c, c.at + 2) = t

\* Lexer::matchedBracketPeek: the first token that is no bracket and is met
\* with as many brackets closed as opened.
RECURSIVE afterBrackets(_, _, _)
afterBrackets(c, n, depth) ==
  CASE TypeAt(c, n) = "END_OF_FILE" -> "END_OF_FILE"
    [] TypeAt(c, n) = "["           -> afterBrackets(c, n + 1, depth + 1)
    [] TypeAt(c, n) = "]"           -> afterBrackets(c, n + 1, depth - 1)
    [] depth = 0 /\ TypeAt(c, n) \notin {"[", "]", "END_OF_FILE"} -> TypeAt(c, n)
    [] OTHER                        -> afterBrackets(c, n + 1, depth)
matchedBracketPeek(c, t) == c.ok /\ afterBrackets(c, c.at + 1, 0) = t

\* ParserContext: moving on and building nodes.
Failed(c)    == [c EXCEPT !.ok = FALSE]
expect(c, T) == IF accept(c, T) THEN c ELSE Failed(c)
consume(c)   == IF c.ok THEN [c EXCEPT !.at = @ + 1] ELSE c
skip(c, t)   == consume(expect(c, {t}))
skipIf(c, t) == IF accept(c, {t}) THEN consume(c) ELSE c

addNode(c, type) ==
  IF c.ok THEN consume([c EXCEPT !.children = Append(@, Node(type, c.at, <<>>))]) ELSE c
named(c, type) == addNode(expect(c, {"IDENTIFIER"}), type)

\* pushNode, a new node made current, its content, popNode: inner starts
\* without children, and close hangs what it came to under the outer node.
inner(c) == [c EXCEPT !.children = <<>>]
close(c, type, tok, d) ==
  IF d.ok THEN [d EXCEPT !.children = Append(c.children, Node(type, tok, @))] ELSE d

insertNodeBeginning(c, type) ==
  IF c.ok THEN [c EXCEPT !.children = <<Node(type, Last(@).tok, @)>>] ELSE c
duplicateNode(c, type) ==
  IF c.ok THEN consume([c EXCEPT !.children = <<Node(type, c.at, @)>>]) ELSE c

\* Token::getPrecedence
getPrecedence(t) ==
  CASE t \in {"*", "/", "%", "in"}    -> 10
    [] t \in {"+", "-"}               -> 9
    [] t \in {">>", "<<"}             -> 8
    [] t = "&"                        -> 7
    [] t = "^"                        -> 6
    [] t = "|"                        -> 5
    [] t \in {"<", "<=", ">", ">="}   -> 4
    [] t \in {"==", "!="}             -> 3
    [] t = "and"                      -> 2
    [] t = "or"                       -> 1
    [] OTHER                          -> 0

literals == {"INT_LITERAL", "CHAR_LITERAL", "FLOAT_LITERAL", "HEX_LITERAL", "BIN_LITERAL"}
termStart == literals \cup {"IDENTIFIER", "~", "(", "-", "!", "sizeof", "make", "addr", "[", "STR_LITERAL"}
assignmentOperators == {"+=", "-=", "/=", "*=", "|=", "&=", "^=", "=", "<-"}
------------------------------------------------------------------------------
\* The productions that contain each other, by their names: produce, at the
\* end, knows them all.
RECURSIVE produce(_, _), genericParamList(_)
expression(c)     == produce("expression", c)
term(c)           == produce("term", c)
typeDefinition(c) == produce("typeDefinition", c)
block(c)          == produce("block", c)

\* Type names: Parser/Expression.cpp, typeDefinition and what it calls.
genericParamList(c) ==
  LET d == consume(c)
      e == close(d, "GENERIC_TYPE_PARAM", d.at, typeDefinition(inner(d)))
  IN  IF accept(e, {","}) THEN genericParamList(e) ELSE e
genericParams(c) == skip(genericParamList(expect(c, {"["})), "]")

RECURSIVE dimensions(_)
dimensions(c) ==
  IF ~accept(c, {"["}) THEN c
  ELSE dimensions(close(c, "SUBSCRIPT", c.at,
         skip(addNode(expect(consume(inner(c)), {"INT_LITERAL"}), "LITERAL"), "]")))

typeModifier(c) ==
  LET d == IF accept(c, {"["}) /\ ~peek(c, "INT_LITERAL") THEN genericParams(c) ELSE c
  IN  CASE accept(d, {"*"})  -> addNode(d, "POINTER_STAR")
        [] accept(d, {"[]"}) -> addNode(d, "EMPTY_SUBSCRIPT")
        [] OTHER             -> dimensions(d)

RECURSIVE moduleQualident(_)
moduleQualident(c) == IF peek(c, "::") THEN moduleQualident(consume(named(c, "MODULE"))) ELSE c

typeDefinitionOf(c) == typeModifier(named(moduleQualident(c), "IDENTIFIER"))

\* Names with fields and subscripts.
RECURSIVE subscripts(_)
subscripts(c) ==
  IF ~accept(c, {"["}) THEN c
  ELSE subscripts(close(c, "SUBSCRIPT", c.at, skip(expression(consume(inner(c))), "]")))
identifierWithSubscript(c) == subscripts(addNode(c, "IDENTIFIER"))

RECURSIVE fields(_)
fields(c) ==
  IF accept(c, {"."}) /\ ~peek(c, "[") /\ ~dpeek(c, "(")
  THEN fields(identifierWithSubscript(expect(addNode(c, "STRUCT_FIELD"), {"IDENTIFIER"})))
  ELSE c
identifierWithQualidentAndSubscript(c) == fields(identifierWithSubscript(c))

\* Expressions behind commas.
RECURSIVE moreExpressions(_)
moreExpressions(c) == IF accept(c, {","}) THEN moreExpressions(expression(consume(c))) ELSE c

actualParameterList(c) ==
  LET d == skip(c, "(")
  IN  skip(IF accept(d, {")"}) THEN d ELSE moreExpressions(expression(d)), ")")

functionCall(c) == close(c, "FUNCCALL", c.at, actualParameterList(consume(inner(c))))
genericFunctionCall(c) ==
  close(c, "GENERIC_FUNCCALL", c.at, actualParameterList(genericParams(consume(inner(c)))))

\* The node under construction, of the given type, becomes its own child.
\* Mutant: the question mark takes the place of what it follows.
questionMark_Replaces(c, type) == insertNodeBeginning(duplicateNode([c EXCEPT !.children = <<>>], type), "QUESTION_OPR")

questionMark(c, type) == insertNodeBeginning(duplicateNode(c, type), "QUESTION_OPR")

RECURSIVE methodCall(_)
methodCall(c) ==
  IF accept(c, {"?"}) THEN methodCall(questionMark(c, "TERM"))
  ELSE IF ~accept(c, {"."}) \/ ~dpeek(c, "(") THEN c
  ELSE LET object == duplicateNode(expect(consume(c), {"IDENTIFIER"}), "TERM")
           d == actualParameterList(object)
       IN  methodCall(close(inner(c), "METHODCALL", object.at - 1, d))

sizeofBuiltIn(c) ==
  close(c, "SIZEOF", c.at, skip(typeDefinition(skip(consume(inner(c)), "(")), ")"))
addrBuiltIn(c) ==
  close(c, "ADDR", c.at, skip(term(skip(consume(inner(c)), "(")), ")"))
makeBuiltIn(c) ==
  LET d == skip(consume(inner(c)), "(")
      type == close(d, "MAKE", d.at, typeDefinition(inner(d)))
  IN  close(c, "MAKE", c.at, skip(moreExpressions(type), ")"))

initializerList(c) ==
  close(c, "INITLIST", c.at, skip(moreExpressions(expression(skip(inner(c), "["))), "]"))

RECURSIVE stringParts(_)
stringParts(c) ==
  LET d == addNode(c, "STR_LITERAL") IN IF accept(d, {"STR_LITERAL"}) THEN stringParts(d) ELSE d
multiLineStringLiteral(c) == close(c, "MULTILINE_STR_LITERAL", c.at, stringParts(inner(c)))

literal(c) ==
  LET d == IF accept(c, {"-", "+"}) THEN addNode(c, "UNARY_OPR") ELSE c
  IN  addNode(expect(d, literals), "LITERAL")

\* term: a question mark behind it applies to the innermost node still open.
questioned(c, type) == IF accept(c, {"?"}) THEN questionMark(c, type) ELSE c

prefixed(c, type, marks) ==       \* T`x, T*`x, T[]`x, -x
  close(c, type, c.at, questioned(term([inner(c) EXCEPT !.at = @ + marks]), type))

\* Mutant: no look behind the brackets, so a generic call is a subscripted name.
identifierTerm_NoLookAhead(c) ==
  CASE peek(c, "(")  -> methodCall(functionCall(c))
    [] peek(c, "::") -> term(moduleQualident(c))
    [] OTHER         -> methodCall(identifierWithQualidentAndSubscript(c))

identifierTerm(c) ==
  CASE peek(c, "(")               -> methodCall(functionCall(c))
    [] ~peek(c, "(") /\ matchedBracketPeek(c, "(")
                                  -> methodCall(genericFunctionCall(c))
    [] ~matchedBracketPeek(c, "(") /\ peek(c, "::") -> term(moduleQualident(c))
    [] OTHER                      -> methodCall(identifierWithQualidentAndSubscript(c))

castType(c) ==
  IF ~accept(c, {"IDENTIFIER"}) \/ matchedBracketPeek(c, "(") THEN "NONE"
  ELSE CASE peek(c, "bt")   -> "CAST"
         [] peek(c, "*bt")  -> "PTR_CAST"
         [] peek(c, "[]bt") -> "PTR_ARRAY_CAST"
         [] OTHER           -> "NONE"

termOf(c) ==
  LET d == inner(expect(c, termStart))
      plain ==
        CASE accept(d, {"sizeof"})      -> sizeofBuiltIn(d)
          [] accept(d, {"addr"})        -> addrBuiltIn(d)
          [] accept(d, {"make"})        -> makeBuiltIn(d)
          [] accept(d, {"IDENTIFIER"})  -> identifierTerm(d)
          [] accept(d, {"("})           -> skip(expression(consume(d)), ")")
          [] accept(d, {"["})           -> methodCall(initializerList(d))
          [] accept(d, {"STR_LITERAL"}) -> methodCall(multiLineStringLiteral(d))
          [] OTHER                      -> literal(d)
  IN  close(c, "TERM", c.at,
        CASE castType(d) # "NONE"        -> prefixed(d, castType(d), 2)
          [] accept(d, {"~", "-", "!"})  -> prefixed(d, "UNARY_OPR", 1)
          [] OTHER                       -> questioned(plain, "TERM"))

\* Precedence climbing.
RECURSIVE baseExpression(_, _), operators(_, _)
\* Mutant: of equal operators the right one binds first.
operators_RightAssociative(c, minPrecedence) ==
  LET precedence == getPrecedence(symbol(c))
  IN  IF precedence < minPrecedence THEN c
      ELSE operators(baseExpression(addNode(insertNodeBeginning(c, "EXPRESSION"), "OPERATOR"), precedence),
                     minPrecedence)

operators(c, minPrecedence) ==
  LET precedence == getPrecedence(symbol(c))
  IN  IF precedence < minPrecedence THEN c
      ELSE operators(baseExpression(addNode(insertNodeBeginning(c, "EXPRESSION"), "OPERATOR"), precedence + 1),
                     minPrecedence)
baseExpression(c, minPrecedence) ==
  close(c, "EXPRESSION", c.at, operators(term(inner(c)), minPrecedence))

expressionOf(c) == baseExpression(expect(c, termStart), 1)
------------------------------------------------------------------------------
\* Declarations: Parser/Declaration.cpp.
identifierDecleration(c) == typeDefinition(skip(addNode(c, "IDENTIFIER"), ":"))

initializer(c, operators_) == expression(addNode(expect(c, operators_), "ASSIGN_OPERATOR"))

identifierDeclarationOptionalInit(c) ==
  LET d == identifierDecleration(expect(c, {"IDENTIFIER"}))
  IN  IF accept(d, {"=", "<-"}) THEN initializer(d, {"=", "<-"}) ELSE d

RECURSIVE identifierDeclareListOptionalInit(_, _)
identifierDeclareListOptionalInit(c, initAllowed) ==
  LET d == expect(consume(inner(c)), {"IDENTIFIER"})
      e == close(c, "VAR", c.at, IF initAllowed THEN identifierDeclarationOptionalInit(d) ELSE identifierDecleration(d))
  IN  IF accept(e, {","}) THEN identifierDeclareListOptionalInit(e, initAllowed) ELSE e

RECURSIVE identifierDeclareListRequiredInit(_)
identifierDeclareListRequiredInit(c) ==
  LET e == close(c, "CONST", c.at,
             initializer(identifierDecleration(expect(consume(inner(c)), {"IDENTIFIER"})), {"=", "<-"}))
  IN  IF accept(e, {","}) THEN identifierDeclareListRequiredInit(e) ELSE e

walrusDeclaration(c) ==
  close(c, IF accept(c, {"const"}) THEN "WALRUS_CONST" ELSE "WALRUS_VAR", c.at,
        expression(skip(named(consume(inner(c)), "IDENTIFIER"), ":=")))

RECURSIVE moreNames(_)
moreNames(c) == IF accept(c, {","}) THEN moreNames(named(consume(c), "IDENTIFIER")) ELSE c
names(c) == moreNames(named(c, "IDENTIFIER"))

destructureList(c) == close(c, "DESTRUCTURE_LIST", c.at, skip(names(skip(inner(c), "[")), "]"))

destructureDeclaration(c) ==
  close(c, IF accept(c, {"const"}) THEN "DESTRUCTURE_CONST" ELSE "DESTRUCTURE_VAR", c.at,
        expression(skip(destructureList(consume(inner(c))), ":=")))
------------------------------------------------------------------------------
\* Statements: Parser/Statement.cpp, Print.cpp.
assignmentOperatorAndExpression(c) == initializer(c, assignmentOperators)

assignmentOrMethodCall(c) ==
  LET target == identifierWithQualidentAndSubscript(expect(inner(c), {"IDENTIFIER"}))
  IN  IF accept(target, {"."}) THEN close(c, "TERM", c.at, methodCall(target))
      ELSE close(c, "ASSIGNMENT", c.at,
                 assignmentOperatorAndExpression(close(inner(c), "TERM", c.at, target)))

destructuredAssignment(c) ==
  LET d == skipIf(inner(c), ".")
  IN  close(c, "DESTRUCTURED_ASSIGNMENT", d.at, assignmentOperatorAndExpression(initializerList(d)))

ifStatement(c) ==
  LET d == inner(c)
      e == close(d, "IF", d.at, block(expression(consume(d))))
  IN  close(c, "IF", c.at,
            IF accept(e, {"else"}) THEN close(e, "ELSE", e.at, block(consume(inner(e)))) ELSE e)

whileLoop(c)    == close(c, "WHILE", c.at, block(expression(consume(inner(c)))))
doWhileLoop(c)  == close(c, "DO_WHILE", c.at, expression(skip(block(consume(inner(c))), "while")))
infiniteLoop(c) == close(c, "LOOP", c.at, block(consume(inner(c))))

forLoop(c) ==
  LET d == skipIf(consume(inner(c)), "(")
      start == CASE accept(d, {"var"}) /\ dpeek(d, ":=")  -> walrusDeclaration(d)
                 [] accept(d, {"var"}) /\ ~dpeek(d, ":=") -> identifierDeclareListOptionalInit(d, TRUE)
                 [] OTHER                                 -> assignmentOrMethodCall(d)
      condition == skip(expression(skip(start, ";")), ";")
      next == assignmentOrMethodCall(expect(condition, {"IDENTIFIER"}))
  IN  close(c, "FOR", c.at, block(skipIf(next, ")")))

forEachLoop(c) ==
  LET d == consume(inner(c))
      names_ == IF accept(d, {"["}) THEN destructureList(d) ELSE named(d, "IDENTIFIER")
  IN  close(c, "FOR_EACH", c.at, block(expression(skip(names_, "in"))))

returnExpression(c) ==
  LET d == consume(inner(c))
  IN  close(c, "RETURN", c.at, IF accept(d, {"void"}) THEN consume(d) ELSE expression(d))

RECURSIVE printed(_)
printed(c) ==
  CASE accept(c, {")", "ERROR"}) -> c
    [] accept(c, {","})          -> printed(addNode(c, "SPACE"))
    [] accept(c, {";"})          -> printed(consume(c))
    [] OTHER                     -> printed(expression(c))
print(c) ==
  close(c, IF accept(c, {"println"}) THEN "PRINTLN" ELSE "PRINT", c.at,
        skip(printed(skip(consume(inner(c)), "(")), ")"))

declaration(c) ==
  CASE dpeek(c, ":=")                  -> walrusDeclaration(c)
    [] ~dpeek(c, ":=") /\ peek(c, "[") -> destructureDeclaration(c)
    [] OTHER -> IF accept(c, {"var"}) THEN identifierDeclareListOptionalInit(c, TRUE)
                ELSE identifierDeclareListRequiredInit(c)

statement(c) ==
  CASE accept(c, {"IDENTIFIER"}) ->
         IF peek(c, "(") \/ peek(c, "::") \/ matchedBracketPeek(c, "(") THEN term(c)
         ELSE assignmentOrMethodCall(c)
    [] accept(c, {"var", "const"})     -> declaration(c)
    [] accept(c, {"[", "."})           -> destructuredAssignment(c)
    [] accept(c, {"if"})               -> ifStatement(c)
    [] accept(c, {"while"})            -> whileLoop(c)
    [] accept(c, {"do"})               -> doWhileLoop(c)
    [] accept(c, {"for"})              -> IF peek(c, "[") \/ dpeek(c, "in") THEN forEachLoop(c) ELSE forLoop(c)
    [] accept(c, {"loop"})             -> infiniteLoop(c)
    [] accept(c, {"break"})            -> addNode(c, "BREAK")
    [] accept(c, {"continue"})         -> addNode(c, "CONTINUE")
    [] accept(c, {"print", "println"}) -> print(c)
    [] accept(c, {"return"})           -> returnExpression(c)
    [] OTHER                           -> c

statementStart == {"}", "var", "const", "if", "while", "do", "for", "loop", "break", "continue",
                   "IDENTIFIER", "return", "print", "println", "[", "."}

RECURSIVE statements(_)
statements(c) ==
  IF accept(c, {"}", "ERROR"}) THEN c ELSE statements(statement(expect(c, statementStart)))

blockOf(c) ==
  LET d == inner(c)
  IN  close(c, "BLOCK", c.at,
            IF accept(d, {"{"}) THEN skip(statements(consume(d)), "}")
            ELSE statement(expect(d, statementStart)))
------------------------------------------------------------------------------
\* Functions: Parser/Function.cpp.
RECURSIVE formalParameterList(_)
formalParameterList(c) ==
  LET d == consume(c)
      isMut == accept(d, {"mut"})
      e == close(d, IF isMut THEN "MUT_PARAM" ELSE "PARAM", d.at,
                 identifierDecleration(expect(skipIf(inner(d), "mut"), {"IDENTIFIER"})))
  IN  IF accept(e, {","}) THEN formalParameterList(e) ELSE e

\* Mutant: without parameters, whatever follows the parenthesis is skipped.
functionDecleration_AnyToken(c) ==
  LET d == expect(named(c, "IDENTIFIER"), {"("})
      e == IF peek(d, "IDENTIFIER") \/ peek(d, "mut") THEN skip(formalParameterList(d), ")") ELSE consume(consume(d))
  IN  IF accept(e, {"->"}) THEN typeDefinition(expect(consume(e), {"IDENTIFIER"})) ELSE e

functionDecleration(c) ==
  LET d == expect(named(c, "IDENTIFIER"), {"("})
      e == skip(IF peek(d, "IDENTIFIER") \/ peek(d, "mut") THEN formalParameterList(d) ELSE consume(d), ")")
  IN  IF accept(e, {"->"}) THEN typeDefinition(expect(consume(e), {"IDENTIFIER"})) ELSE e

functionDefinition(c) == close(c, "FUNCTION", c.at, block(functionDecleration(consume(inner(c)))))

externFunctionDefinition(c) ==
  LET d == functionDecleration(consume(inner(c)))
  IN  close(c, "EXTERN_FUNCTION", c.at, IF accept(d, {"STR_LITERAL"}) THEN addNode(d, "MODULE") ELSE d)

functionDefinitionExternC(c) ==
  LET d == expect(consume(c), {"fn"})
  IN  close(d, "FUNCTION_EXTERN_C", d.at, block(functionDecleration(consume(inner(d)))))

\* Files: Parser/Module.cpp, Generic.cpp, Use.cpp, Enum.cpp, Define.cpp, Structure.cpp.
generic(c) == close(c, "GENERIC", c.at, names(consume(inner(c))))

use(c) ==
  close(c, "USE", c.at,
        named(skip(addNode(expect(consume(inner(c)), {"STR_LITERAL"}), "MODULE"), "as"), "IDENTIFIER"))

from(c) ==
  LET d == expect(consume(inner(c)), {"IDENTIFIER", "STR_LITERAL"})
      e == expect(addNode(d, IF accept(d, {"IDENTIFIER"}) THEN "IDENTIFIER" ELSE "MODULE"), {"use"})
  IN  close(c, "FROM", c.at, close(e, "USE", e.at, names(consume(inner(e)))))

enumList(c) ==
  LET d == expect(consume(c), {"IDENTIFIER"})
  IN  close(d, "ENUM", d.at, skip(names(skip(consume(inner(d)), "{")), "}"))

def(c) ==
  LET d == named(consume(inner(c)), "IDENTIFIER")
  IN  close(c, "DEF", c.at, IF accept(d, {"STR_LITERAL"}) THEN addNode(d, "STR_LITERAL") ELSE literal(d))

RECURSIVE structFields(_)
structFields(c) == IF accept(c, {"var"}) THEN structFields(identifierDeclareListOptionalInit(c, FALSE)) ELSE c
structDefinition(c) ==
  LET d == expect(consume(inner(c)), {"IDENTIFIER"})
  IN  close(c, "STRUCT", c.at, close(d, "IDENTIFIER", d.at, skip(structFields(skip(consume(inner(d)), "{")), "}")))

RECURSIVE uses(_), froms(_), declarations(_)
uses(c)  == IF accept(c, {"use"}) THEN uses(use(c)) ELSE c
froms(c) == IF accept(c, {"from"}) THEN froms(from(c)) ELSE c

declarations(c) ==
  LET more(d) == IF d.ok THEN declarations(d) ELSE d
  IN  CASE accept(c, {"def"})     -> more(def(c))
        [] accept(c, {"enum"})    -> more(enumList(c))
        [] accept(c, {"var"})     -> more(identifierDeclareListOptionalInit(c, FALSE))
        [] accept(c, {"struct"})  -> more(structDefinition(c))
        [] accept(c, {"fn"})      -> more(functionDefinition(c))
        [] accept(c, {"extfn"})   -> more(externFunctionDefinition(c))
        [] accept(c, {"externC"}) -> more(functionDefinitionExternC(c))
        [] OTHER                  -> expect(c, {"END_OF_FILE"})

programModule(c) == declarations(froms(uses(IF accept(c, {"generic"}) THEN generic(c) ELSE c)))

produce(rule, c) ==
  CASE rule = "expression"     -> expressionOf(c)
    [] rule = "term"           -> termOf(c)
    [] rule = "typeDefinition" -> typeDefinitionOf(c)
    [] rule = "block"          -> blockOf(c)
    [] rule = "module"         -> programModule(c)

\* generateAST: the tree of a queue, or that it was refused.
outcome(c) == [ok |-> c.ok, ast |-> IF c.ok THEN Node("PROGRAM", 0, c.children) ELSE Node("NONE", 0, <<>>)]
generateAST(queue, beyond) == outcome(produce("module", ParserContext(queue, beyond)))
==============================================================================
