------------------------------ MODULE MCDataFlow ------------------------------
(* A world with a variable of every kind, functions of every kind of        *)
(* parameter, and the bodies one statement, or two that belong together,    *)
(* make of them.                                                            *)
EXTENDS DataFlow

int == Plain("int")
P   == Plain("P")
MCStructs ==
  <<<<"P", <<<<"y", int>>, <<"x", int>>>>>>,
    <<"S", <<<<"p", Pointer("int")>>, <<"n", int>>, <<"at", P>>, <<"c", Plain("char")>>>>>>>>
MCEnumTypes  == {"Color"}
MCEnumValues == [RED |-> <<"Color", 0>>, BLUE |-> <<"Color", 1>>]
MCAlphabet   == <<"a", "ap", "aq", "at", "c", "ch", "col", "d", "g", "ga", "gp", "i", "k", "ka", "kp", "l", "mi", "mm", "n",
                  "p", "pp", "ps", "pt", "q", "s", "st", "u", "v", "w", "x", "y", "z">>
MCTexts      == [ab |-> <<97, 98, 0>>, abcd |-> <<97, 98, 99, 100, 0>>, empty |-> <<0>>]

param(name, w, mut) == [name |-> name, written |-> w, mut |-> mut]
function(ps, w)     == [params |-> ps, returns |-> w]
void == Plain("void")
MCFunctions ==
  [value    |-> function(<<param("n", int, FALSE)>>, int),
   half     |-> function(<<param("n", Plain("double"), FALSE), param("c", Plain("char"), FALSE)>>, Plain("double")),
   bump     |-> function(<<param("n", int, TRUE)>>, int),
   add2     |-> function(<<param("n", int, FALSE), param("v", int, FALSE)>>, int),
   pairOf   |-> function(<<param("v", Array("int", <<2>>), FALSE)>>, Array("int", <<2>>)),
   rows     |-> function(<<param("v", Array("int", <<2, 2>>), FALSE)>>, void),
   change   |-> function(<<param("v", Array("int", <<2>>), TRUE)>>, void),
   all      |-> function(<<param("v", ArrayPointer("int"), FALSE)>>, void),
   look     |-> function(<<param("p", Pointer("int"), FALSE)>>, Pointer("int")),
   redirect |-> function(<<param("p", Pointer("int"), TRUE)>>, void),
   named    |-> function(<<param("s", Array("char", <<4>>), FALSE)>>, void),
   texts    |-> function(<<param("s", ArrayPointer("char"), FALSE)>>, void),
   make     |-> function(<<>>, P),
   moveIt   |-> function(<<param("at", P, FALSE), param("pp", Pointer("P"), FALSE)>>, P),
   paint    |-> function(<<param("col", Plain("Color"), FALSE)>>, Plain("Color"))]

variable(w, kind) == [written |-> w, kind |-> kind]
MCVariables ==
  [i |-> variable(int, "var"), l |-> variable(Plain("long"), "var"), k |-> variable(int, "const"),
   ch |-> variable(Plain("char"), "var"), d |-> variable(Plain("double"), "var"), col |-> variable(Plain("Color"), "var"),
   a |-> variable(Array("int", <<2>>), "var"), ka |-> variable(Array("int", <<2>>), "const"),
   mm |-> variable(Array("int", <<2, 2>>), "var"), s |-> variable(Array("char", <<4>>), "var"),
   pt |-> variable(P, "var"), kp |-> variable(P, "const"), ps |-> variable(Array("P", <<2>>), "var"),
   q |-> variable(Pointer("int"), "var"), aq |-> variable(ArrayPointer("int"), "var"), pp |-> variable(Pointer("P"), "var"),
   st |-> variable(Plain("S"), "var"), ap |-> variable(Array("int", <<2>>), "param"), mi |-> variable(int, "mut"),
   g |-> variable(int, "global"), ga |-> variable(Array("int", <<2>>), "global"), gp |-> variable(Pointer("int"), "global"), x |-> variable(int, "var"), y |-> variable(int, "var")]
seeds ==
  [i |-> 0, l |-> 20, k |-> -1, ch |-> 64, d |-> 3, col |-> 0, a |-> 4, ka |-> 6, mm |-> 8, s |-> 100, pt |-> 12, kp |-> 14,
   ps |-> 16, q |-> 0, aq |-> 0, pp |-> 0, st |-> 22, ap |-> 26, mi |-> 28, g |-> 29, ga |-> 32, gp |-> 0, x |-> 30, y |-> 31]
pointees == [gp |-> "ints", q |-> "ints", aq |-> "ints", pp |-> "points", st |-> "ints"]
filled(name, w, seed) ==
  build(w, LAMBDA s, n: CASE isPointerW(s)        -> <<"ptr", pointees[name], 0>>
                          [] s = Plain("double") -> <<"flt", seed + n>>
                          [] OTHER               -> <<"int", seed + n>>)
MCInitialMemory ==
  [name \in DOMAIN MCVariables |-> filled(name, MCVariables[name].written, seeds[name])]
  @@ ("ints"   :> filled("", Array("int", <<2>>), 40)) @@ ("other ints"   :> filled("", Array("int", <<2>>), 50))
  @@ ("points" :> filled("", Array("P", <<2>>), 60))   @@ ("other points" :> filled("", Array("P", <<2>>), 70))
  @@ ("chars"  :> filled("", Array("char", <<2>>), 80))
MCElsewhere == [int |-> "other ints", P |-> "other points", char |-> "chars"]
------------------------------------------------------------------------------
v(name)       == Name(name)
dot(e1, field) == partOf(e1, <<"field", field>>)
sub(e1, e2)   == partOf(e1, <<"at", e2>>)
num(n)        == <<"int", n>>
list(es)      == <<"list", es>>
fn(f, es)     == <<"call", f, es>>
plusOf(e1, e2) == <<"add", e1, e2>>

Places ==
  {v(name) : name \in DOMAIN MCVariables}
  \cup {sub(v("a"), num(1)), sub(v("a"), v("i")), sub(v("ka"), v("i")), sub(v("mm"), v("i")), sub(sub(v("mm"), v("i")), num(0)),
        sub(v("s"), num(1)), dot(v("pt"), "x"), dot(v("kp"), "x"), sub(v("aq"), v("i")), dot(v("pp"), "x"),
        sub(v("ps"), num(1)), dot(sub(v("ps"), v("i")), "x"), dot(v("st"), "n"), dot(v("st"), "p"), dot(v("st"), "at"),
        dot(dot(v("st"), "at"), "x"), sub(v("ap"), num(0)), sub(v("a"), sub(v("a"), num(0)))}
Values ==
  {num(7), <<"char", 65>>, <<"text", "empty">>, list(<<<<"text", "ab">>, <<"text", "abcd">>>>), list(<<<<"text", "abcd">>, <<"text", "ab">>>>),
   plusOf(<<"char", 65>>, v("ch")), plusOf(v("x"), fn("bump", <<v("x")>>)), fn("rows", <<v("mm")>>), <<"cast", "int", fn("rows", <<v("mm")>>)>>,
   list(<<v("x"), fn("bump", <<v("x")>>)>>), fn("add2", <<v("x"), fn("bump", <<v("x")>>)>>), list(<<v("q"), num(7)>>),
   list(<<fn("make", <<>>), v("pt")>>), <<"ptrcast", Pointer("P"), v("ps")>>, <<"cast", "Color", num(1)>>, <<"addr", dot(v("st"), "p")>>,
   <<"float", 2>>, <<"text", "ab">>, <<"text", "abcd">>, v("RED"),
   list(<<num(1), num(2)>>), list(<<v("x"), v("y")>>), list(<<list(<<num(1), num(2)>>), list(<<num(3), num(4)>>)>>),
   list(<<v("a"), v("ka")>>), list(<<v("pt"), v("kp")>>), list(<<v("q"), v("k")>>), list(<<sub(v("a"), num(1)), sub(v("a"), num(0))>>),
   plusOf(v("i"), v("k")), plusOf(v("l"), num(1)), plusOf(num(1), v("ch")), plusOf(v("d"), v("d")), plusOf(sub(v("a"), v("i")), dot(v("pp"), "x")),
   <<"minus", v("i")>>, <<"minus", v("q")>>, <<"cast", "double", v("i")>>, <<"cast", "int", v("d")>>, <<"cast", "char", num(321)>>,
   <<"cast", "long", v("q")>>, <<"cast", "int", v("k")>>, <<"cast", "int", v("RED")>>, <<"cast", "Color", v("i")>>,
   <<"addr", v("q")>>, <<"addr", sub(v("a"), v("i"))>>, <<"ptrcast", Pointer("int"), v("a")>>, <<"ptrcast", ArrayPointer("int"), v("q")>>,
   <<"ptrcast", Pointer("int"), num(0)>>,
   fn("value", <<v("x")>>), fn("bump", <<v("x")>>), fn("make", <<>>), fn("look", <<v("i")>>), fn("pairOf", <<v("ka")>>),
   fn("paint", <<v("BLUE")>>), fn("add2", <<fn("add2", <<num(1), v("i")>>), fn("value", <<v("q")>>)>>)}
Expressions == Places \cup Values

Types == {int, Plain("long"), Plain("char"), Plain("Color"), P, Plain("S"), Pointer("int"), ArrayPointer("int"), Pointer("P"),
          Array("int", <<2>>), Array("char", <<4>>), Array("P", <<2>>), Array("int", <<2, 2>>), Array("char", <<2, 5>>)}
assignTo(lhs, op, rhs) == <<"assign", lhs, op, rhs>>

Assignments == {assignTo(lhs, op, rhs) : lhs \in Places, op \in {"=", "<-", "+="}, rhs \in Expressions}
Locals      == {<<"local", kind, "z", w, op, rhs>> : kind \in {"var", "const"}, w \in Types, op \in {"=", "<-"}, rhs \in Expressions}
Walruses    == {<<"walrus", kind, "z", rhs>> : kind \in {"var", "const"}, rhs \in Expressions}
Calls       == UNION {{<<"expression", fn(f, <<rhs>>)>> : rhs \in Expressions} :
                        f \in {f \in DOMAIN MCFunctions : Len(MCFunctions[f].params) = 1}}
               \cup {<<"expression", fn("moveIt", <<e1, e2>>)>> : e1, e2 \in {v("pt"), v("kp"), v("pp"), sub(v("ps"), v("i")), fn("make", <<>>)}}
               \cup {<<"expression", fn("half", <<e1, e2>>)>> : e1, e2 \in {v("d"), v("ch"), v("i"), num(2), <<"char", 65>>, <<"float", 1>>}}
sources     == {list(<<num(1), num(2)>>), list(<<v("y"), v("x")>>), list(<<plusOf(v("y"), num(1)), plusOf(v("x"), num(1))>>),
                v("a"), v("ka"), v("mm"), v("pt"), v("kp"), v("ps"), v("pp"), v("q"), v("st"), dot(v("st"), "at"), sub(v("ps"), v("i")),
                fn("make", <<>>), fn("pairOf", <<v("a")>>), list(<<v("pt"), v("kp")>>)}
Unpackings  == {<<"unpack", es, rhs>> : rhs \in sources,
                  es \in {<<v("x"), v("y")>>, <<v("y"), v("x")>>, <<v("x")>>, <<v("i"), v("x")>>, <<v("k"), v("x")>>, <<sub(v("a"), num(0)), sub(v("a"), num(1))>>,
                          <<dot(v("pt"), "x"), dot(v("pt"), "y")>>, <<v("pt"), v("q")>>}}
               \cup {<<"unpackLocal", kind, names, rhs>> : kind \in {"var", "const"}, rhs \in sources,
                       names \in {<<"u", "v">>, <<"u", "v", "w", "z">>, <<"u">>}}
Loops       == {<<"each", names, call1>> : names \in {<<"z">>, <<"u", "v">>},
                  call1 \in {fn("value", <<v("i")>>), fn("make", <<>>), fn("pairOf", <<v("a")>>), fn("look", <<v("i")>>)}}
Returns     == {<<w, <<<<"return", e1>>>>>> : w \in Types, e1 \in Expressions}

Pointings   == {assignTo(v("q"), "<-", e1) : e1 \in Expressions} \cup {<<"expression", fn("redirect", <<v("q")>>)>>}
Later ==
  {<<one, assignTo(v("q"), "=", num(9))>> : one \in Pointings}
  \cup {<<<<"local", kind, "z", Pointer("int"), "<-", e1>>, assignTo(v("z"), "=", num(9))>> : kind \in {"var", "const"}, e1 \in Expressions}
  \cup {<<assignTo(v("pp"), "<-", e1), assignTo(dot(v("pp"), "x"), "=", num(9))>> : e1 \in Expressions}
  \cup {<<assignTo(v("aq"), "<-", e1), assignTo(sub(v("aq"), v("i")), "=", num(9))>> : e1 \in Expressions}
  \cup {<<assignTo(dot(v("st"), "p"), "<-", e1), assignTo(dot(v("st"), "p"), "=", num(9))>> : e1 \in Expressions}
  \cup {<<<<"walrus", "var", "z", <<"text", one>>>>, assignTo(v("z"), "=", <<"text", two>>)>> : one, two \in {"ab", "abcd"}}
  \cup {<<<<"walrus", "var", "z", v("pt")>>, assignTo(dot(v("z"), "x"), "=", num(9))>>,
        <<<<"walrus", "const", "z", v("pt")>>, assignTo(dot(v("z"), "x"), "=", num(9))>>}

body(w, statements) == [returns |-> w, statements |-> statements]
MCPrograms ==
  {body(void, <<one>>) : one \in Assignments \cup Locals \cup Walruses \cup Calls \cup Unpackings \cup Loops}
  \cup {body(void, two) : two \in Later} \cup {body(r[1], r[2]) : r \in Returns}
==============================================================================
