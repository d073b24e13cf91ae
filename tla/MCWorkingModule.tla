--------------------------- MODULE MCWorkingModule ---------------------------
(* A file, two modules m and n (n behind an alias of m), a generic module g *)
(* with a structure and a function of which the file also imports one, and  *)
(* a second generic module h.                                               *)
EXTENDS WorkingModule

MCRoot == "file"
MCAliases == [file |-> [m |-> "m"], m |-> [n |-> "n"], n |-> [z \in {} |-> "n"], g |-> [z \in {} |-> "n"], h |-> [z \in {} |-> "n"]]
MCGenericAliases == [g |-> "g", h |-> "h"]
MCGenericUses == [List |-> "g", list |-> "g"]
MCGenericsOf == [g |-> {"List", "list", "pop"}, h |-> {"List"}]
MCTypeOf == [x |-> "m", y |-> "n"]
MCParameterOf == [f |-> "m", list |-> "", pop |-> "g", __deconstructor__ |-> ""]
MCHooked == {"n"}

type(path, name, params) == [path |-> path, name |-> name, parameters |-> params]
noType == type(<<>>, "int", <<>>)
node(t, name, path, of, terms) == [type |-> t, name |-> name, path |-> path, of |-> of, terms |-> terms]

plainTypes == {noType, type(<<"m">>, "T", <<>>), type(<<"m", "n">>, "T", <<>>), type(<<"g">>, "T", <<>>)}
types == plainTypes \cup {type(p, "List", <<t>>) : p \in {<<>>, <<"g">>, <<"m">>}, t \in plainTypes}
           \cup {type(p, "List", <<noType>>) : p \in {<<"g", "h">>, <<"g", "h", "g">>}}

leaves == {node("IDENTIFIER", v, <<>>, noType, <<>>) : v \in {"x", "y"}}
            \cup {node("SIZEOF", "", <<>>, t, <<>>) : t \in types}
\* The terms made from some terms.
over(ts) ==
  LET calls == {node("FUNCCALL", n, <<>>, noType, <<t>>) : n \in {"f", "list"}, t \in ts}
                 \cup {node("GENERIC_FUNCCALL", n, <<>>, type(<<>>, "", <<type(p, "List", <<noType>>)>>), <<t>>) :
                         n \in {"list", "pop"}, p \in {<<>>, <<"g">>}, t \in ts}
      methods == {node("METHODCALL", "f", <<>>, noType, <<v, t>>) :
                    v \in {leaf \in leaves : leaf.type # "SIZEOF"}, t \in ts}
      casts == {node(k, "T", <<>>, noType, <<t>>) : k \in {"CAST", "PTR_CAST"}, t \in ts}
  IN  calls \cup casts
      \cup methods
      \cup {node("MODULE", "", p, noType, <<t>>) : p \in {<<"m">>, <<"m", "n">>, <<"g">>, <<"g", "m">>, <<"n">>},
                                    t \in calls \cup methods \cup {c \in casts : c.type = "CAST"}}
      \cup {node("METHODCALL", "__deconstructor__", <<>>, noType, <<t>>) :
              t \in {u \in ts : u.type \in {"IDENTIFIER", "FUNCCALL"}}}
      \cup {node("MAKE", "", <<>>, ty, <<t>>) : ty \in types, t \in ts}
      \cup {node("EXPRESSION", "__add", <<>>, noType, <<v, t>>) : v \in {leaf \in leaves : leaf.type # "SIZEOF"}, t \in ts}

simple == over(leaves)
few == {t \in over({leaf \in leaves : leaf.name = "x"}) : t.type # "MAKE" \/ t.of.path = <<"g">>}
nested == over({t \in few : t.type # "MODULE" \/ t.path # <<"n">>})
MCBodies == {<<t>> : t \in nested} \cup {<<t, u>> : t \in simple, u \in {v \in few : v.type \in {"FUNCCALL", "MODULE"}}}
==============================================================================
