----------------------------- MODULE MCFrontEnd ------------------------------
(***************************************************************************)
(* Files over small alphabets, and sentences of the grammar of             *)
(* compiler/src/Parser/README.md.                                          *)
(***************************************************************************)
EXTENDS Instantiator

MCAlphabets ==
  {[chars |-> {"d", "o", "0", "1", ".", "#", " "}, width |-> 4, lines |-> 1],
   [chars |-> {"0", "1", "9", "b", "x", "a"}, width |-> 4, lines |-> 1],
   [chars |-> {"\"", "\\", "'", "n", "#", " "}, width |-> 5, lines |-> 1],
   [chars |-> {"d", " "} \cup {p[1] : p \in Punctuators}, width |-> 2, lines |-> 1],
   [chars |-> {"[", "]", "bt", "*", "=", ".", "d", "1", " "}, width |-> 3, lines |-> 1],
   [chars |-> {"<", ">", "=", "-", "d", " "}, width |-> 3, lines |-> 1],
   [chars |-> {"d", "\"", "#", "\t", " "}, width |-> 2, lines |-> 2]}
MCKeywords == {<<"d", "o">>}
MCBeyond == {<<>>, <<"IDENTIFIER">>, <<"(", ")">>, <<":=", "IDENTIFIER">>, <<"in", "IDENTIFIER", "break">>, <<"break">>}

\* Sets of sentences, put one behind the other.
A ** B == {a \o b : a \in A, b \in B}
T(t) == {<<t>>}
Id == T("IDENTIFIER")
Num == T("INT_LITERAL")
In(open, X, shut) == T(open) ** X ** T(shut)

TypeNames ==
  Id \cup (Id ** T("::") ** Id) \cup (Id ** T("*")) \cup (Id ** T("[]"))
     \cup (Id ** In("[", Num, "]")) \cup (Id ** In("[", Num, "]") ** In("[", Num, "]"))
     \cup (Id ** In("[", Id \cup (Id ** T(",") ** Id ** T("*")), "]"))

\* The terms that contain expressions of X.
TermsOver(X) ==
  (Id ** In("(", X, ")")) \cup (Id ** In("[", Id, "]") ** In("(", X, ")"))
  \cup (Id ** T("bt") ** X) \cup (Id ** T("*bt") ** X) \cup (Id ** T("[]bt") ** X)
  \cup (Id ** T("::") ** Id ** In("(", X, ")"))
  \cup (Id ** In("[", X, "]")) \cup (Id ** T(".") ** Id ** In("[", X, "]") ** T(".") ** Id)
  \cup (Id ** T(".") ** Id ** In("(", X ** T(",") ** X, ")")) \cup (Id ** In("(", X, ")") ** T(".") ** Id ** {<<"(", ")">>})
  \cup (Id ** T("?") ** T(".") ** Id ** In("(", X, ")") ** T("?"))
  \cup In("(", X, ")") \cup (In("(", X, ")") ** T("?")) \cup (T("!") ** X) \cup (T("-") ** X)
  \cup In("[", X ** T(",") ** X, "]")

Terms0 == Id \cup Num
Terms1 == TermsOver(Terms0) \cup (T("STR_LITERAL") ** T("STR_LITERAL"))
          \cup {<<"sizeof", "(">>} ** TypeNames ** T(")") \cup {<<"make", "(">>} ** TypeNames ** {<<",", "INT_LITERAL", ")">>}
          \cup {<<"addr", "(">>} ** Id ** T(")")
Terms2 == TermsOver(Id ** In("[", Id, "]") \cup In("(", Id ** T("+") ** Num, ")") \cup Id ** {<<"(", ")">>})

Ops == {"*", "+", "<<", "&", "^", "|", "<", "==", "and", "or", "in"}
Chains ==
  {<<"IDENTIFIER", o, "IDENTIFIER", p, "INT_LITERAL", q, "IDENTIFIER">> :
     o \in Ops, p \in Ops, q \in {"*", "+", "==", "or"}}
  \cup (Id ** T("+") ** In("(", Id ** T("-") ** Id, ")") ** T("*") ** Id ** In("[", Id ** T("%") ** Num, "]") ** T("-") ** Id)

Call == Id ** {<<"(", ")">>}
Assign(X) == (Id \cup Id ** In("[", Id, "]") \cup Id ** T(".") ** Id) ** T("=") ** X
Small == Call \cup T("break") \cup T("return") ** (Id \cup T("void"))
Blocks == In("{", {<<>>} \cup Small \cup Small ** Small, "}") \cup Call

Statements ==
  Assign(Terms1) \cup (Id ** In("[", Id, "]") ** T("=") ** Terms2) \cup (T("return") ** Chains)
  \cup (T("var") ** Id ** T(":") ** TypeNames ** ({<<>>} \cup T("=") ** Id))
  \cup (T("const") ** Id ** T(":") ** Id ** T("=") ** Num ** {<<>>, <<",", "IDENTIFIER", ":", "IDENTIFIER", "<-", "INT_LITERAL">>})
  \cup ({<<"var">>, <<"const">>} ** Id ** T(":=") ** Terms1)
  \cup ({<<"var">>, <<"const">>} ** In("[", Id ** T(",") ** Id, "]") ** T(":=") ** Id)
  \cup ({<<>>, <<".">>} ** In("[", Id ** T(",") ** Id, "]") ** T("=") ** Call)
  \cup (T("if") ** Id ** Blocks) \cup (T("if") ** Id ** Blocks ** T("else") ** Blocks)
  \cup (T("if") ** Id ** Call ** T("else") ** T("if") ** Id ** Call ** T("else") ** Blocks)
  \cup (T("while") ** Id ** Blocks) \cup (T("do") ** Blocks ** T("while") ** Id) \cup (T("loop") ** Blocks)
  \cup (T("for") ** (Id \cup In("[", Id ** T(",") ** Id, "]")) ** T("in") ** Id ** Blocks)
  \cup (T("for") ** {<<"var", "IDENTIFIER", ":=", "INT_LITERAL">>, <<"var", "IDENTIFIER", ":", "IDENTIFIER">>, <<"IDENTIFIER", "=", "INT_LITERAL">>}
         ** T(";") ** Id ** T(";") ** Id ** T("+=") ** Num ** Blocks)
  \cup (T("for") ** In("(", Id ** T("=") ** Num ** T(";") ** Id ** T("<") ** Num ** T(";") ** Id ** T("=") ** Id, ")") ** Blocks)
  \cup ({<<"print">>, <<"println">>} ** In("(", {<<>>} \cup Id \cup Id ** {<<",">>, <<";">>} ** Id, ")"))
  \cup (Id ** T(".") ** Id ** {<<"(", ")">>} ** {<<>>, <<"?">>}) \cup (Id ** In("[", TypeNames, "]") ** {<<"(", ")">>})
  \cup (Id ** T("::") ** Call) \cup T("continue")

Body(X) == {<<"fn", "IDENTIFIER", "(", ")", "{">>} ** X ** T("}")
Firsts == Small \cup Assign(Id ** T(".") ** Id) \cup (T("if") ** Id ** Blocks) \cup (T("var") ** Id ** T(":=") ** Id ** T("?"))
Seconds == Assign(Id) \cup (T(".") ** In("[", Id ** T(",") ** Id, "]") ** T("=") ** Call) \cup (T("while") ** Id ** Call)
Params == {<<>>, <<"IDENTIFIER", ":", "IDENTIFIER">>, <<"mut", "IDENTIFIER", ":", "IDENTIFIER", "[]", ",", "IDENTIFIER", ":", "IDENTIFIER", "*">>}
Head1 == Id ** In("(", Params, ")") ** {<<>>, <<"->", "IDENTIFIER", "::", "IDENTIFIER", "*">>}
Declarations ==
  (T("fn") ** Head1 ** Blocks) \cup (T("extfn") ** Head1 ** {<<>>, <<"STR_LITERAL">>}) \cup ({<<"externC", "fn">>} ** Head1 ** Call)
  \cup (T("enum") ** Id ** In("{", Id ** {<<>>, <<",", "IDENTIFIER">>}, "}"))
  \cup (T("def") ** Id ** (Num \cup T("STR_LITERAL") \cup T("-") ** Num))
  \cup (T("var") ** Id ** T(":") ** TypeNames)
  \cup (T("struct") ** Id ** In("{", {<<>>} \cup {<<"var", "IDENTIFIER", ":">>} ** TypeNames ** {<<>>, <<",", "IDENTIFIER", ":", "IDENTIFIER">>}, "}"))
Opening ==
  {<<>>, <<"generic", "T">>, <<"generic", "T", ",", "U">>}
  ** {<<>>, <<"use", "STR_LITERAL", "as", "IDENTIFIER">>}
  ** {<<>>, <<"from", "STR_LITERAL", "use", "IDENTIFIER", ",", "IDENTIFIER">>, <<"from", "IDENTIFIER", "use", "IDENTIFIER">>}

\* Generic files.
MCNames == {"T", "U", "int", "Pair", "m", "a_m", "builtin", "a_builtin"}
Argument(module, alias, name, modifiers) ==
  [moduleName |-> <<module>>, alias |-> <<alias>>, dtypeName |-> <<name>>, modifiers |-> modifiers]
MCArguments ==
  {Argument("builtin", "a_builtin", "int", w) : w \in {<<>>, <<"*">>, <<"[]">>, <<"[", "INT_LITERAL", "]">>}}
  \cup {Argument("m", "a_m", "Pair", <<>>), Argument("m", "a_m", "U", <<>>)}

Parametric == {<<"T">>, <<"T", "*">>, <<"T", "[]">>, <<"T", "[", "INT_LITERAL", "]">>, <<"U">>,
               <<"IDENTIFIER", "[", "T", "]">>, <<"IDENTIFIER", "[", "T", ",", "U", "]", "*">>,
               <<"IDENTIFIER", "::", "IDENTIFIER", "[", "IDENTIFIER", "[", "T", "]", "]">>, <<"IDENTIFIER", "::", "IDENTIFIER">>}
ParametricTerms ==
  (T("sizeof") ** In("(", Parametric, ")")) \cup (T("make") ** In("(", Parametric ** {<<",", "T", "bt", "IDENTIFIER">>}, ")"))
  \cup (T("T") ** {<<"bt">>, <<"*bt">>, <<"[]bt">>} ** (Id \cup In("(", Id ** {<<"+", "U", "bt", "IDENTIFIER">>}, ")")))
  \cup (Id ** In("[", Parametric, "]") ** In("(", {<<"T", "bt", "IDENTIFIER">>}, ")"))
Declaring == T("var") ** Id ** T(":") ** Parametric
Evaluating == Id ** T("=") ** {<<"T", "bt", "IDENTIFIER">>, <<"sizeof", "(", "U", ")">>}
Nested(X) ==
  (T("while") ** Id ** In("{", X, "}")) \cup (T("loop") ** In("{", X, "}")) \cup (T("do") ** In("{", X, "}") ** {<<"while", "T", "bt", "IDENTIFIER">>})
  \cup (T("if") ** Id ** In("{", X, "}") ** T("else") ** In("{", X, "}")) \cup (T("for") ** Id ** T("in") ** Id ** In("{", X, "}"))
  \cup (T("for") ** {<<"var", "IDENTIFIER", ":", "T", "=", "U", "bt", "IDENTIFIER">>, <<"var", "IDENTIFIER", ":=", "T", "bt", "IDENTIFIER">>}
          ** {<<";", "IDENTIFIER", ";", "IDENTIFIER", "=", "IDENTIFIER">>} ** In("{", X, "}"))
GenericStatements ==
  Declaring ** {<<>>, <<"=", "T", "bt", "IDENTIFIER">>} \cup Id ** T("=") ** ParametricTerms
  \cup Nested({<<"var", "IDENTIFIER", ":", "T">>, <<"IDENTIFIER", "=", "T", "bt", "IDENTIFIER">>})
  \cup {<<"while", "IDENTIFIER">>} ** In("{", Nested({<<"const", "IDENTIFIER", ":", "U", "*", "=", "IDENTIFIER">>}), "}")
GenericFiles ==
  {<<"generic", "T", ",", "U">>} **
    ( (Body(GenericStatements)) \cup Declaring \cup (T("struct") ** Id ** In("{", Declaring ** {<<",", "IDENTIFIER", ":", "U", "*">>}, "}"))
      \cup (T("fn") ** Id ** In("(", {<<"IDENTIFIER", ":">>} ** Parametric ** {<<",", "mut", "IDENTIFIER", ":", "U", "[]">>}, ")")
              ** ({<<>>} \cup T("->") ** Parametric) ** {<<"{", "return", "T", "bt", "IDENTIFIER", "}">>})
      \cup (T("extfn") ** Id ** In("(", {<<>>} \cup {<<"IDENTIFIER", ":">>} ** Parametric, ")")
              ** ({<<>>} \cup T("->") ** Parametric) ** {<<>>, <<"STR_LITERAL">>})
      \cup {<<"externC", "fn", "IDENTIFIER", "(", "IDENTIFIER", ":", "T", ")", "->", "T", "{", "return", "IDENTIFIER", "}">>} )

MCSentences == GenericFiles \cup Body(Statements) \cup Body(Firsts ** Seconds) \cup Declarations
               \cup Opening \cup Opening ** {<<"def", "IDENTIFIER", "INT_LITERAL">>}
==============================================================================
