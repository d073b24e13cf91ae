---------------------------- MODULE MCFunctionBody ----------------------------
(***************************************************************************)
(* Small instances of FunctionBody.                                        *)
(***************************************************************************)
EXTENDS FunctionBody

CONSTANTS o1, o2, o3

MCObject == {o1, o2, o3}
Alike == Permutations(MCObject)

OneLocal      == {"x"}
OneLocalOrder == <<"x">>
ThreeLocals     == {"self", "x", "y"}
ThreeLocalOrder == <<"self", "x", "y">>

Straight == {"local", "assign", "return"}
Branching == {"local", "walrus", "assign", "return", "if", "while", "do", "loop", "forEach", "break"}

\* Whole variables, and the counted field of some.
Copies == {Whole(s) : s \in {"x", "y", "p", "callee"}} \cup {Field("self"), Field("g")}
Stores == {Whole("x"), Whole("g"), Field("self"), Field("p")}

FewCopies == {Whole("x"), Whole("callee")}
FewStores == {Whole("x"), Whole("g")}

ParamStores == {Whole("p"), Whole("x")}

==============================================================================
