------------------------------- MODULE MCNames -------------------------------
(* Two complete modules, and files of up to three declarations that use and *)
(* re-use a handful of names in every way the language has.                  *)
EXTENDS Names

named(name, type) == [name |-> name, type |-> type]
written(alias, name, modifier, dims) == [alias |-> alias, name |-> name, modifier |-> modifier, dimensions |-> dims]
plain(name) == written("", name, "", <<>>)
void == plain("")

MCRootName == "main.shtk"
MCMangled  == [n \in {"main.shtk", "lib/a.shtk", "lib/b.shtk"} |->
                 CASE n = "main.shtk" -> "main_shtk" [] n = "lib/a.shtk" -> "lib_a_shtk" [] OTHER -> "lib_b_shtk"]

type(dtype, name, size, module) ==
  [dtype |-> dtype, dtypeName |-> name, dtypeSize |-> size, size |-> size, offset |-> 0, moduleName |-> module,
   pointer |-> FALSE, dimensions |-> <<>>, incomplete |-> FALSE]
function(module, key, parameters, symbols) ==
  [functionReturnType |-> type("VOID", "void", 0, module), moduleName |-> module, absoluteName |-> key,
   parameters |-> parameters, symbols |-> symbols]

a == "lib/a.shtk"
b == "lib/b.shtk"
aT == type("STRUCT", "T", 8, a)
moduleA ==
  [emptyModule(a) EXCEPT
     !.structures = [T |-> [moduleName |-> a, size |-> 8, fieldNames |-> <<"p", "q">>,
                            structFields |-> [p |-> type("I32", "int", 4, a),
                                              q |-> [type("I32", "int", 4, a) EXCEPT !.offset = 4]],
                            deconstructor |-> "_fn_lib_a_shtk___deconstructor__"]],
     !.functions = [k \in {"_fn_lib_a_shtk_f", "_fn_lib_a_shtk___deconstructor__", "_fn_lib_a_shtk_g"} |->
                      IF k = "_fn_lib_a_shtk___deconstructor__" THEN function(a, k, <<"self">>, [self |-> aT])
                      ELSE function(a, k, <<>>, <<>>)],
     !.externFunctions = [g |-> function(a, "g", <<>>, <<>>)],
     !.definedEnumsTypes = [E |-> a],
     !.enums = [RED |-> [enumType |-> "E", value |-> 0, moduleName |-> a]],
     !.stringDefines = ("s" :> "_str_lib_a_shtk_1"),
     !.stringsData = ("_str_lib_a_shtk_1" :> "abc"),
     !.stringsDataCharCounts = ("_str_lib_a_shtk_1" :> 4),
     !.uses = <<b>>, !.aliases = [sub |-> b]]
moduleB ==
  [emptyModule(b) EXCEPT
     !.functions = ("_fn_lib_b_shtk_f" :> function(b, "_fn_lib_b_shtk_f", <<>>, <<>>)),
     !.intDefines = Put(@, "x", 7), !.floatDefines = Put(@, "RED", "half")]
MCLibrary == (a :> moduleA) @@ (b :> moduleB)

fn(kind, name, parameters) ==
  [kind |-> kind, name |-> name, returns |-> void, parameters |-> parameters, text |-> "", module |-> ""]
declarations ==
  {[kind |-> "int", name |-> "x", value |-> 1, negative |-> neg] : neg \in BOOLEAN}
  \cup {[kind |-> "float", name |-> "x", value |-> "half"], [kind |-> "int", name |-> "T", value |-> 1, negative |-> FALSE]}
  \cup {[kind |-> "string", name |-> "s", value |-> t] : t \in {"abc", "xyz"}}
  \cup {[kind |-> "string", name |-> "x", value |-> "xyz"]}
  \cup {[kind |-> "enum", name |-> "E", members |-> ms] : ms \in {<<"RED", "x">>, <<"RED", "RED">>}}
  \cup {[kind |-> "enum", name |-> "T", members |-> <<"x">>]}
  \cup {[kind |-> "var", name |-> "x", type |-> t] : t \in {plain("T"), plain("E"), plain("int")}}
  \cup {[kind |-> "var", name |-> "y", type |-> written("m", "T", "[n]", <<2, 3>>)]}
  \cup {[kind |-> "struct", name |-> "T", fields |-> fs] :
          fs \in {<<named("p", written("", "T", "*", <<>>)), named("q", written("", "U", "[]", <<>>))>>,
                  <<named("p", plain("byte")), named("p", plain("int"))>>,
                  <<named("p", plain("U")), named("q", written("", "long", "[n]", <<2>>)), named("r", plain("E"))>>}}
  \cup {[kind |-> "struct", name |-> "U", fields |-> fs] :
          fs \in {<<named("p", plain("int")), named("q", plain("int"))>>,
                  <<named("p", plain("T")), named("q", written("m", "T", "*", <<>>)), named("r", plain("bool"))>>}}
  \cup {fn("fn", "f", <<>>), [fn("fn", "f", <<named("x", plain("T"))>>) EXCEPT !.text = "abc"],
        [fn("fn", "main", <<>>) EXCEPT !.text = "xyz", !.returns = plain("int")],
        fn("fn", "T", <<named("p", plain("int")), named("q", plain("E"))>>),
        fn("fn", "__deconstructor__", <<named("self", plain("T"))>>),
        fn("fn", "__deconstructor__", <<named("self", plain("int"))>>),
        fn("fn", "__deconstructor__", <<named("self", plain("T")), named("p", plain("int"))>>),
        fn("externC", "f", <<>>), fn("externC", "main", <<>>), fn("extern", "f", <<>>), fn("extern", "g", <<>>),
        [fn("externModule", "f", <<>>) EXCEPT !.module = b]}
  \cup {[kind |-> "use", name |-> "", path |-> p, alias |-> l] : p \in {a, b}, l \in {"m"}}
  \cup {[kind |-> "from", name |-> n, path |-> a] : n \in {"f", "g", "T", "E", "RED", "s", "sub", "x"}}
  \cup {[kind |-> "from", name |-> n, path |-> b] : n \in {"f", "x", "RED"}}
  \cup {[kind |-> "fromAlias", name |-> n, alias |-> "m"] : n \in {"f", "T", "sub", "x"}}

MCPrograms == {<<d>> : d \in declarations} \cup {<<d, e>> : d, e \in declarations}
                \cup {<<d, e, c>> : d, e, c \in declarations}
==============================================================================
