----------------------------- MODULE Instantiator ----------------------------
(***************************************************************************)
(* The instance of a generic module (compiler/src/Generator/Monomorphizer/ *)
(* Instantiator.cpp): its tree with the generic identifiers replaced by    *)
(* the types it is instantiated with, one identifier after the other.      *)
(* Nodes carry the text of their token here.  Where the code stops with an *)
(* error, a node ERROR stands in the tree.                                 *)
(***************************************************************************)
EXTENDS FrontEnd

CONSTANT Arguments      \* types: records [moduleName, alias, dtypeName, modifiers], the last as tokens

VARIABLES types,        \* the arguments of the instance
          instance      \* its tree

TextNode(type, text_, children) == [type |-> type, text |-> text_, children |-> children]

RECURSIVE withText(_, _)
withText(n, queue) ==
  TextNode(n.type, IF n.tok \in DOMAIN queue THEN queue[n.tok].string ELSE <<>>,
           [k \in DOMAIN n.children |-> withText(n.children[k], queue)])

isNthChild(n, T, k) == k \in DOMAIN n.children /\ n.children[k].type \in T

\* The first child from place k on that is not of a type in T.
RECURSIVE past(_, _, _)
past(n, T, k) == IF isNthChild(n, T, k) THEN past(n, T, k + 1) ELSE k

withChild(n, k, child) == [n EXCEPT !.children[k] = child]

\* One type modifier at most; only stars, then empty subscripts, then one
\* subscript are looked for.
validateTypeNode(n) ==
  LET type    == past(n, {"MODULE"}, past(n, {"PARAM", "MUT_PARAM"}, 2))
      stars   == IF isNthChild(n, {"IDENTIFIER"}, type) THEN type + 1 ELSE type
      empties == past(n, {"POINTER_STAR"}, stars)
      arrays  == past(n, {"EMPTY_SUBSCRIPT"}, empties)
      count   == (arrays - stars) + (IF isNthChild(n, {"SUBSCRIPT"}, arrays) THEN 1 ELSE 0)
  IN  IF count > 1 THEN TextNode("ERROR", <<>>, <<>>) ELSE n

\* ctx: the generic identifier and the type node that replaces it.
RECURSIVE monomorphizeTypeNode(_, _)
monomorphizeTypeNode(ctx, n) ==
  LET first == IF n.type \in {"GENERIC_TYPE_PARAM", "MAKE", "SIZEOF"} THEN 1 ELSE 2
      at    == past(n, {"MODULE"}, past(n, {"PARAM", "MUT_PARAM"}, first))
      after == past(n, {"GENERIC_TYPE_PARAM"}, at + 1)
  IN  IF at > Len(n.children) THEN n
      ELSE IF n.children[at].text = ctx.genericIdentifier
      THEN validateTypeNode([n EXCEPT !.children =
             SubSeq(@, 1, at - 1) \o ctx.instTypeNode.children \o SubSeq(@, at + 1, Len(@))])
      ELSE [n EXCEPT !.children = [k \in DOMAIN @ |->
             IF k \in at + 1 .. after - 1 THEN validateTypeNode(monomorphizeTypeNode(ctx, @[k])) ELSE @[k]]]

\* A cast to the identifier becomes one to alias::name.
castTypes == {"CAST", "PTR_CAST", "PTR_ARRAY_CAST"}
cast(ctx, n) ==
  IF n.children[1].text # ctx.genericIdentifier THEN n
  ELSE TextNode("TERM", n.children[1].text,
         <<TextNode("MODULE", ctx.alias, <<>>), withChild(n, 1, [n.children[1] EXCEPT !.text = ctx.dtypeName])>>)

RECURSIVE monomorphizeExpression(_, _)
monomorphizeExpression(ctx, n) ==
  LET each(m) == [m EXCEPT !.children = [k \in DOMAIN @ |-> monomorphizeExpression(ctx, @[k])]]
      typesAt(m, K) == [m EXCEPT !.children = [k \in DOMAIN @ |->
                        IF k \in K THEN monomorphizeTypeNode(ctx, @[k]) ELSE monomorphizeExpression(ctx, @[k])]]
  IN  CASE n.type = "SIZEOF" -> monomorphizeTypeNode(ctx, n)
        [] n.type = "MAKE" -> typesAt(n, {1})
        [] n.type = "GENERIC_FUNCCALL" ->
             typesAt(n, {k \in DOMAIN n.children : n.children[k].type = "GENERIC_TYPE_PARAM"})
        [] n.type \notin {"SIZEOF", "MAKE", "GENERIC_FUNCCALL"} /\ isNthChild(n, castTypes, 1) -> each(cast(ctx, n))
        [] OTHER -> each(n)

\* Statements: the types they declare, then every expression in them.  Of an
\* if, the children of its arms are taken for statements; a for each has no
\* case of its own.
RECURSIVE monomorphizeStatement(_, _)
monomorphizeBlock(ctx, n) == [n EXCEPT !.children = [k \in DOMAIN @ |-> monomorphizeStatement(ctx, @[k])]]

monomorphizeStatement(ctx, n) ==
  LET bodyAt(k) == withChild(n, k, monomorphizeBlock(ctx, n.children[k]))
      typed ==
        CASE n.type \in {"VAR", "CONST"} -> monomorphizeTypeNode(ctx, n)
          [] n.type = "FOR" ->
               LET start == n.children[1]
               IN  [n EXCEPT !.children[1] = IF start.type = "VAR" THEN monomorphizeTypeNode(ctx, start) ELSE start,
                             !.children[4] = monomorphizeBlock(ctx, @)]
          [] n.type = "IF" -> [n EXCEPT !.children = [k \in DOMAIN @ |-> monomorphizeBlock(ctx, @[k])]]
          [] n.type = "WHILE" -> bodyAt(2)
          [] n.type \in {"DO_WHILE", "LOOP"} -> bodyAt(1)
          [] OTHER -> n
  IN  monomorphizeExpression(ctx, typed)

\* The parameters end at the first child that is none; an extfn with neither a
\* result nor the name of its library has no such child, and what is read
\* behind its children is undefined: a node UNDEFINED stands for whatever
\* comes of it.
monomorphizeFunction(ctx, n) ==
  LET result == monomorphizeTypeNode(ctx, n)
      params == past(result, {"PARAM", "MUT_PARAM"}, 2)
  IN  IF result.type = "ERROR" THEN result
      ELSE IF params > Len(result.children) THEN TextNode("UNDEFINED", <<>>, <<>>)
      ELSE [result EXCEPT !.children = [k \in DOMAIN @ |->
             CASE k \in 2 .. params - 1 -> monomorphizeTypeNode(ctx, @[k])
               [] k = Len(@)            -> monomorphizeBlock(ctx, @[k])
               [] OTHER                 -> @[k]]]

monomorphizeTypeNodes(ctx, n) ==
  CASE n.type = "STRUCT" ->
         [n EXCEPT !.children[1].children = [k \in DOMAIN @ |-> monomorphizeTypeNode(ctx, @[k])]]
    [] n.type \in {"FUNCTION", "EXTERN_FUNCTION"} -> monomorphizeFunction(ctx, n)
    [] n.type = "VAR" -> monomorphizeTypeNode(ctx, n)
    [] OTHER -> n

\* prependUseNodesInPlace: types are named through an alias of their module,
\* without type parameters, and each module is used once.
aliased(typeNode, type) ==
  [typeNode EXCEPT !.children =
     <<TextNode("MODULE", type.alias, <<>>)>> \o SelectSeq(@, LAMBDA m : m.type \notin {"MODULE", "GENERIC_TYPE_PARAM"})]

\* Mutant: one use for every argument, however many come from one module.
prependedUses_Each(types_) ==
  LET useNode(type) == TextNode("USE", <<"use">>, <<TextNode("STR_LITERAL", type.moduleName, <<>>),
                                                  TextNode("IDENTIFIER", type.alias, <<>>)>>)
  IN  Reverse([k \in DOMAIN types_ |-> useNode(types_[k])])

prependedUses(types_) ==
  LET fresh == SelectSeq([k \in DOMAIN types_ |-> k],
                         LAMBDA k : \A m \in 1 .. k - 1 : types_[m].moduleName # types_[k].moduleName)
      useNode(type) == TextNode("USE", <<"use">>, <<TextNode("STR_LITERAL", type.moduleName, <<>>),
                                                  TextNode("IDENTIFIER", type.alias, <<>>)>>)
  IN  Reverse([k \in DOMAIN fresh |-> useNode(types_[fresh[k]])])

identifiersOf(ast_) == [k \in DOMAIN ast_.children[1].children |-> ast_.children[1].children[k].text]

\* The node a type was written as.
typeNodeOf(type) ==
  LET tokens == type.dtypeName \o type.modifiers
      queue == queueOf(tokens)
  IN  withText(Node("TYPE", 0, typeDefinition(ParserContext(typesIn(queue), <<>>)).children), queue)

\* monomorphizer::Context, one for each argument.
contextOf(identifier, type) ==
  [genericIdentifier |-> identifier, instTypeNode |-> aliased(typeNodeOf(type), type),
   alias |-> type.alias, dtypeName |-> type.dtypeName]

inContexts(ast_, contexts) ==
  FoldLeft(LAMBDA n, ctx : [n EXCEPT !.children = [m \in DOMAIN @ |-> monomorphizeTypeNodes(ctx, @[m])]],
           ast_, contexts)

instantiateAST(ast_, types_) ==
  inContexts([ast_ EXCEPT !.children = prependedUses(types_) \o @],
             [k \in DOMAIN types_ |-> contextOf(identifiersOf(ast_)[k], types_[k])])
------------------------------------------------------------------------------
instantiatorVars == <<frontEndVars, types, instance>>
none == TextNode("NONE", <<>>, <<>>)

isGenericModule(ast_) == isNthChild(ast_, {"GENERIC"}, 1)

InstantiatorInit == FrontEndInit /\ types = <<>> /\ instance = none

read == FrontEndNext /\ UNCHANGED <<types, instance>>

\* An argument with the name of its identifier is left out: the compiler never
\* comes to an end with a cast to it.
instantiate ==
  /\ accepted /\ grammatical /\ isGenericModule(ast.ast) /\ instance = none
  /\ \E ts \in [DOMAIN ast.ast.children[1].children -> Arguments] :
       /\ \A k \in DOMAIN ts : ts[k].dtypeName # identifiersOf(withText(ast.ast, tokenQueue))[k]
       /\ types' = ts
       /\ instance' = instantiateAST(withText(ast.ast, tokenQueue), ts)
  /\ UNCHANGED frontEndVars

InstantiatorNext == read \/ instantiate
InstantiatorSpec == InstantiatorInit /\ [][InstantiatorNext]_instantiatorVars
------------------------------------------------------------------------------
(***************************************************************************)
(* What the guide promises (docs/LanguageGuide.md, "Generics"): the        *)
(* compiler substitutes the type for the identifier in the file.           *)
(***************************************************************************)
instantiated == instance # none

RECURSIVE textNodesOf(_)
textNodesOf(n) == {n} \cup UNION {textNodesOf(n.children[k]) : k \in DOMAIN n.children}
isRefused(n) == \E m \in textNodesOf(n) : m.type = "ERROR"
\* An extfn whose instance is undefined.
isUndefined(n) == \E m \in textNodesOf(n) : m.type = "UNDEFINED"

identifiers == identifiersOf(withText(ast.ast, tokenQueue))
headerEnd   == 2 * Len(identifiers)
wordsOf(q)  == [k \in DOMAIN q |-> q[k].string[1]]

\* The text of the file with every identifier replaced, behind the header.
substituted ==
  LET words == SubSeq(wordsOf(tokenQueue), 1, Len(tokenQueue) - 1)
      meant(w) == LET ks == {k \in DOMAIN identifiers : identifiers[k] = <<w>>}
                  IN  IF ks = {} THEN <<w>>
                      ELSE LET type == types[CHOOSE k \in ks : TRUE]
                           IN  type.alias \o <<"::">> \o type.dtypeName \o type.modifiers
  IN  SubSeq(words, 1, headerEnd)
      \o FoldLeft(LAMBDA s, w : s \o meant(w), <<>>, SubSeq(words, headerEnd + 1, Len(words)))

\* A tree without the texts that are only the places its nodes begin at.
RECURSIVE bare(_)
bare(n) == TextNode(n.type, IF n.type \in showsItsToken THEN n.text ELSE <<>>,
                    [k \in DOMAIN n.children |-> bare(n.children[k])])

\* Where the compiler deviates: a cast drops the modifiers of the argument; an
\* argument that is an array passes as one that is none; an argument that is
\* named like a later identifier is replaced a second time; and an externC
\* function is copied as it is.
outOfTheOrdinary ==
  LET modified == {k \in DOMAIN types : types[k].modifiers # <<>>}
      arrays   == {k \in modified : types[k].modifiers[1] # "*"}
      followed(K, W) == \E k \in K, n \in 1 .. Len(tokenQueue) - 1 :
                          n > headerEnd /\ tokenQueue[n].string = identifiers[k] /\ tokenQueue[n + 1].type \in W
  IN  \/ followed(modified, {"bt", "*bt", "[]bt"})
      \/ followed(arrays, {"*", "[]"})
      \/ \E k, m \in DOMAIN types : k < m /\ types[k].dtypeName = identifiers[m]
      \/ \E d \in ToSet(ast.ast.children) : d.type = "FUNCTION_EXTERN_C"

\* A declaration inside a branch of an if, or in the body of a for each.
RECURSIVE declaresBelow(_, _)
declaresBelow(n, inside) ==
  \/ inside /\ n.type \in {"VAR", "CONST"}
  \/ \E k \in DOMAIN n.children : declaresBelow(n.children[k], inside \/ n.type \in {"IF", "FOR_EACH"})

usesAreRight ==
  LET uses_ == SubSeq(instance.children, 1, Len(instance.children) - Len(ast.ast.children))
      modules == {types[k].moduleName : k \in DOMAIN types}
  IN  /\ Len(uses_) = Cardinality(modules)
      /\ {u.children[1].text : u \in ToSet(uses_)} = modules
      /\ \A u \in ToSet(uses_) : \E k \in DOMAIN types :
           u.children[1].text = types[k].moduleName /\ u.children[2].text = types[k].alias

\* The instance is what the queue was parsed to, behind its uses.
isTreeOf(queue, meant) ==
  LET own == SubSeq(instance.children, Len(instance.children) - Len(ast.ast.children) + 1, Len(instance.children))
  IN  /\ isRefused(instance) <=> ~meant.ok
      /\ meant.ok => /\ bare(TextNode("PROGRAM", <<>>, own)) = bare(withText(meant.ast, queue))
                     /\ usesAreRight

\* The instance of a generic file is the tree of the file's text with the type
\* written in place of the identifier, behind one use of every module an
\* argument comes from; it is refused exactly if that text is none of the
\* language (instantiateAST).  Branches and for each bodies that declare
\* variables, instances that are undefined, and the cases of outOfTheOrdinary,
\* aside.
InstanceIsSubstitution ==
  instantiated /\ ~declaresBelow(ast.ast, FALSE) /\ ~outOfTheOrdinary /\ ~isUndefined(instance) =>
    isTreeOf(queueOf(substituted), generateAST(typesIn(queueOf(substituted)), <<>>))

\* No declaration of an instance names the type it was to be replaced by
\* (monomorphizeStatement), wherever it stands.
DeclarationsAreInstantiated ==
  instantiated => \A n \in textNodesOf(instance) :
    n.type \in {"VAR", "CONST"} =>
      \A k \in DOMAIN n.children : n.children[k].type = "IDENTIFIER" => n.children[k].text \notin ToSet(identifiers)
==============================================================================
