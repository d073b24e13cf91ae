--------------------------- MODULE MCModuleLoader ---------------------------
(***************************************************************************)
(* Programs for ModuleLoader: every way three plain files with one         *)
(* function name can use, import from and call each other, cycles          *)
(* included; and two plain and two generic files that instantiate each     *)
(* other with their own types, another file's type, int and their own      *)
(* parameter.  A generic file makes no instance with the type it declares  *)
(* itself: such a chain of instances has no end (see the README).          *)
(***************************************************************************)
EXTENDS ModuleLoader

\* Sequences of at most n different elements of S.
UpTo(S, n) == {q \in UNION {[1..k -> S] : k \in 0..n} : IsInjective(q)}

Uses(f)     == [op |-> "use", of |-> Name(f)]
From(f)     == [op |-> "from", of |-> Name(f), sym |-> "s"]
Fn          == [op |-> "fn", sym |-> "s"]
Calls(f)    == [op |-> "call", of |-> Name(f), sym |-> "s"]
Make(f, ty) == [op |-> "make", of |-> Name(f), ty |-> ty]

Declared(isGen, items) == [generic |-> isGen, items |-> items]
Empty == Declared(FALSE, <<>>)

\* The function before the imports or after them.
FirstOrLast(imports) == {<<Fn>> \o imports, imports \o <<Fn>>}

\* main imports a, then perhaps b or a again, and calls a file it uses.
Main ==
  {Declared(FALSE, i \o c) :
     i \in UNION {FirstOrLast(<<k>> \o l) : k \in {Uses("a"), From("a")},
                   l \in UpTo({Uses("a"), Uses("b"), From("a"), From("b")}, 1)},
     c \in UpTo({Calls("a"), Calls("b")}, 1)}

\* Any other file imports one file or both, and may have no function.
Other(p, q) ==
  LET used   == {<<Uses(p)>>, <<Uses(q)>>, <<Uses(p), From(q)>>}
      others == {<<>>, <<From(p)>>, <<From(q)>>}
  IN  {Declared(FALSE, i) : i \in UNION {FirstOrLast(k) \cup {k} : k \in used \cup others}}
      \cup
      {Declared(FALSE, i \o <<c>>) : i \in UNION {FirstOrLast(k) \cup {k} : k \in used},
                                     c \in {Calls(p), Calls(q)}}

PlainPrograms ==
  [main : Main, a : Other("main", "b"), b : Other("main", "a"), g : {Empty}, h : {Empty}]

Plain(contents)   == {Declared(FALSE, i) : i \in contents}
Generic(contents) == {Declared(TRUE, i) : i \in contents}

GenericPrograms ==
  [main : Plain({<<Uses("g")>> \o i :
                 i \in UpTo({Uses("a"), Make("g", "own"), Make("g", "int"), Make("g", "a")}, 2)}),
   a : Plain({<<>>, <<Uses("main"), Uses("g"), Make("g", "main")>>,
              <<Uses("g"), Make("g", "own")>>, <<Uses("g"), Make("g", "int")>>}),
   b : {Empty},
   g : Generic(UpTo({Uses("a"), Uses("h"), Make("h", "param"), Make("h", "int"),
                     Make("g", "param")}, 2)),
   h : Generic(UpTo({Uses("a"), Uses("g"), Make("g", "param")}, 2))]

\* A generic file that is imported from, with a symbol it has or has not, or
\* imports itself; that is called as if it were a module; and a plain file
\* that is instantiated as if it were generic.
GenericFrom ==
  [main : Plain({<<From("g")>> \o i : i \in UpTo({Uses("g"), Fn, Make("g", "own"), Calls("g")}, 2)}
                \cup {<<Uses("b")>> \o i \o <<Calls("b")>> : i \in UpTo({Fn}, 1)}
                \cup {<<Uses("a"), Make("a", "int")>>}),
   a : Plain({<<>>, <<Fn>>}),
   b : Plain({<<>>, <<From("g")>>, <<From("a")>>, <<From("g"), From("a")>>}),
   g : Generic(UpTo({Fn, From("a")}, 2)),
   h : {Empty}]

MCFile     == {"main", "a", "b", "g", "h"}
MCPrograms == PlainPrograms \cup GenericPrograms \cup GenericFrom
=============================================================================
