-------------------------------- MODULE Names --------------------------------
(***************************************************************************)
(* The symbol tables of one module (ModuleDescription) and how a file      *)
(* fills them: generateModule (Generator/IRGenerator.cpp) registers the    *)
(* names of all structures, then generates the declarations in order, then *)
(* the bodies; ModuleBuilder files what is declared and imported, Finder   *)
(* and typeDescriptionFromNode look it up again.  The modules imported     *)
(* from are complete.  Source positions are the places of declarations.    *)
(***************************************************************************)
EXTENDS Integers, Sequences, FiniteSets, SequencesExt, TLC, DataTypes

CONSTANTS RootName,       \* the name of the module under generation
          MangledModule,  \* mangleModuleName: a module's name without '/' and '.'
          Library,        \* the complete modules, by name
          Programs        \* the files: sequences of declarations

VARIABLES program,        \* the file
          pass,           \* the loop of generateModule it is in
          next,           \* the declaration that loop has come to
          root,           \* rootModule
          compileError    \* the message compilation stopped with, or "none"

vars == <<program, pass, next, root, compileError>>

Has(f, k)    == k \in DOMAIN f
Put(f, k, v) == (k :> v) @@ f
------------------------------------------------------------------------------
\* Builder/NameMangle.cpp
nameMangle(name, module) ==
  IF name = "main" THEN "main" ELSE "_fn_" \o MangledModule[module] \o "_" \o name
\* Mutant: the module's name is left out of a text's key.
lineColNameMangle_NoModule(place, module) == "_str_lib_a_shtk_" \o ToString(place)
lineColNameMangle(place, module) == "_str_" \o MangledModule[module] \o "_" \o ToString(place)

\* ModuleDescription::ModuleDescription
emptyModule(name) ==
  [name |-> name, structures |-> <<>>, functions |-> <<>>, externFunctions |-> <<>>, definedEnumsTypes |-> <<>>,
   enums |-> <<>>, globals |-> <<>>, intDefines |-> [false |-> 0, true |-> 1, NULL |-> 0],
   floatDefines |-> [nan |-> "nan", infinity |-> "infinity"], stringDefines |-> <<>>, incompleteTypes |-> <<>>,
   incompleteFunctions |-> <<>>, aliases |-> <<>>, uses |-> <<>>, definedFunctions |-> <<>>,
   stringsData |-> <<>>, stringsDataCharCounts |-> <<>>]

symbolExists(m, name) ==
  \/ stringToDataType(name) # "STRUCT"
  \/ \E table \in {DOMAIN m.structures, DOMAIN m.functions, DOMAIN m.definedEnumsTypes, DOMAIN m.enums,
                   DOMAIN m.globals, DOMAIN m.intDefines, DOMAIN m.floatDefines, DOMAIN m.stringDefines,
                   DOMAIN m.externFunctions} : name \in table
------------------------------------------------------------------------------
\* What a compilation stops with: the first message of a sequence that is
\* not empty.  A map's at() that finds nothing ends it too.
When(condition, message) == IF condition THEN message ELSE ""
firstOf(messages) ==
  IF \E k \in DOMAIN messages : messages[k] # "" THEN messages[SelectInSeq(messages, LAMBDA s : s # "")] ELSE ""
exists    == "Symbol already exists"
exception == "std::out_of_range"

moduleAt(path) == IF path = RootName THEN root ELSE Library[path]

\* TypeDescription, of its properties whether it is a pointer and whether
\* its structure was unknown when it was made.
constructType(dtype, name, size, module, incomplete) ==
  [dtype |-> dtype, dtypeName |-> name, dtypeSize |-> size, size |-> size, offset |-> 0, moduleName |-> module,
   pointer |-> FALSE, dimensions |-> <<>>, incomplete |-> incomplete]

createVoidTypeDescription == constructType("VOID", "void", 0, RootName, FALSE)

tokenToDataType(m, name) == IF Has(m.definedEnumsTypes, name) THEN "ENUM" ELSE stringToDataType(name)

\* ModuleBuilder::getTypeInformation and createTypeDescription in the
\* working module m.
typeExists(m, name) ==
  tokenToDataType(m, name) # "STRUCT" \/ Has(m.structures, name) \/ Has(m.incompleteTypes, name)
createTypeDescription(m, name) ==
  LET dtype == tokenToDataType(m, name)
      size  == getDataTypeSize(dtype)
  IN  CASE dtype = "ENUM"     -> constructType(dtype, name, size, m.definedEnumsTypes[name], FALSE)
        [] dtype \notin {"ENUM", "STRUCT"} -> constructType(dtype, name, size, m.name, FALSE)
        [] dtype = "STRUCT" /\ Has(m.structures, name) ->
             constructType(dtype, name, m.structures[name].size, m.structures[name].moduleName, FALSE)
        [] OTHER -> constructType(dtype, name, 0, m.incompleteTypes[name], TRUE)

\* typeDescriptionFromNode: a written type is a name, the alias before it,
\* a star or an empty subscript, and dimensions.  No name means void.
RECURSIVE product(_)
product(s) == IF s = <<>> THEN 1 ELSE Head(s) * product(Tail(s))

addTypeModifiers(type, node) ==
  CASE node.modifier = "*"   -> [type EXCEPT !.pointer = TRUE]
    [] node.modifier = "[]"  -> [type EXCEPT !.pointer = TRUE, !.dimensions = <<1>>]
    [] node.modifier = "[n]" -> [type EXCEPT !.size = @ * product(node.dimensions), !.dimensions = node.dimensions]
    [] OTHER                 -> type

workingModuleOf(alias) == IF alias = "" THEN root ELSE moduleAt(root.aliases[alias])
typeDescriptionFromNode(node) ==
  IF node.name = "" THEN createVoidTypeDescription
  ELSE addTypeModifiers(createTypeDescription(workingModuleOf(node.alias), node.name), node)

typeError(node) ==
  CASE node.name = ""                                        -> ""
    [] node.alias # "" /\ ~Has(root.aliases, node.alias)     -> "Use does not exist"
    [] node.name # "" /\ (node.alias = "" \/ Has(root.aliases, node.alias)) ->
         LET m == workingModuleOf(node.alias)
         IN  IF ~typeExists(m, node.name) THEN "Type does not exist"
             ELSE When(createTypeDescription(m, node.name).incomplete /\ node.modifier \notin {"*", "[]"},
                       "Incomplete type can only be a pointer")
typeErrors(named) == firstOf([k \in DOMAIN named |-> typeError(named[k].type)])
------------------------------------------------------------------------------
Init ==
  /\ program \in Programs
  /\ pass = "types" /\ next = 1
  /\ root = emptyModule(RootName)
  /\ compileError = "none"

\* generateIncompleteType over the file: ModuleBuilder::registerIncompleteType.
GenerateIncompleteTypes ==
  /\ pass = "types"
  /\ root' = [root EXCEPT !.incompleteTypes =
                [n \in {program[k].name : k \in {j \in DOMAIN program : program[j].kind = "struct"}} |-> RootName]]
  /\ pass' = "symbols"
  /\ UNCHANGED <<program, next, compileError>>

current == program[next]
At(p, kinds) == pass = p /\ compileError = "none" /\ next <= Len(program) /\ current.kind \in kinds
Declared(error, tables) ==
  /\ UNCHANGED <<program, pass>>
  /\ IF error # ""
       THEN compileError' = error /\ UNCHANGED <<next, root>>
       ELSE root' = tables /\ next' = next + 1 /\ UNCHANGED compileError

\* createDefineFromNode: a minus makes a second token of the value.
CreateIntDefine ==
  /\ At("symbols", {"int"})
  /\ Declared(When(symbolExists(root, current.name), exists),
              [root EXCEPT !.intDefines =
                 Put(@, current.name, IF current.negative THEN -1 * current.value ELSE current.value)])

CreateFloatDefine ==
  /\ At("symbols", {"float"})
  /\ Declared(When(symbolExists(root, current.name), exists),
              [root EXCEPT !.floatDefines = Put(@, current.name, current.value)])

\* ModuleBuilder::createMultilineStringData: a text already kept by some
\* module is not kept again, whatever its key there.
keepers(text) ==
  {m \in {root} \cup {Library[l] : l \in DOMAIN Library} : \E k \in DOMAIN m.stringsData : m.stringsData[k] = text}
keysOf(m, text) == {k \in DOMAIN m.stringsData : m.stringsData[k] = text}
stringKey(text, place) ==
  IF keepers(text) = {} THEN lineColNameMangle(place, RootName)
  ELSE CHOOSE k \in keysOf(CHOOSE m \in keepers(text) : TRUE, text) : TRUE
withString(text, place) ==
  LET key == stringKey(text, place)
      new == [root EXCEPT !.stringsDataCharCounts = Put(@, key, Len(text) + 1)]
  IN  IF keepers(text) = {} THEN [new EXCEPT !.stringsData = Put(@, key, text)] ELSE new

CreateStringDefine ==
  /\ At("symbols", {"string"})
  /\ Declared(When(symbolExists(root, current.name), exists),
              [withString(current.value, next) EXCEPT !.stringDefines =
                 Put(@, current.name, stringKey(current.value, next))])

\* Mutant: the members are not looked for before they are filed.
CreateEnum_Unchecked ==
  /\ At("symbols", {"enum"})
  /\ Declared(When(symbolExists(root, current.name), exists),
              [root EXCEPT !.definedEnumsTypes = Put(@, current.name, RootName),
                           !.enums = [n \in ToSet(current.members) |->
                                        [enumType |-> current.name, value |-> 0, moduleName |-> RootName]] @@ @])

\* createEnumType, then the members one after the other.
CreateEnum ==
  LET typed == [root EXCEPT !.definedEnumsTypes = Put(@, current.name, RootName)]
      taken == \E k \in DOMAIN current.members :
                 \/ symbolExists(typed, current.members[k])
                 \/ \E j \in 1 .. k - 1 : current.members[j] = current.members[k]
  IN  /\ At("symbols", {"enum"})
      /\ Declared(When(symbolExists(root, current.name) \/ taken, exists),
                  [typed EXCEPT !.enums =
                     [n \in ToSet(current.members) |->
                        [enumType |-> current.name, value |-> SelectInSeq(current.members, LAMBDA x : x = n) - 1,
                         moduleName |-> RootName]] @@ @])

CreateGlobal ==
  LET key == nameMangle(current.name, RootName)
  IN  /\ At("symbols", {"var"})
      /\ Declared(firstOf(<<typeError(current.type),
                            When(symbolExists(root, key) \/ symbolExists(root, current.name), exists)>>),
                  [root EXCEPT !.globals = Put(@, key, typeDescriptionFromNode(current.type))])

\* Mutant: a pointer is as wide as what it points to.
fieldWidth_Pointee(type) == type.size

\* ModuleBuilder::createStruct: fields one behind the other, a pointer as
\* wide as AUTO_INT.
fieldWidth(type) == IF type.pointer THEN getDataTypeSize("AUTO_INT") ELSE type.size
structOf(fields) ==
  LET withField(s, f) ==
        LET type == typeDescriptionFromNode(f.type)
        IN  [s EXCEPT !.structFields = Put(@, f.name, [type EXCEPT !.offset = s.size]),
                      !.fieldNames = Append(@, f.name), !.size = @ + fieldWidth(type)]
  IN  FoldLeft(withField, [moduleName |-> RootName, size |-> 0, structFields |-> <<>>, fieldNames |-> <<>>,
                           deconstructor |-> ""], fields)

CreateStruct ==
  /\ At("symbols", {"struct"})
  /\ Declared(firstOf(<<typeErrors(current.fields), When(symbolExists(root, current.name), exists),
                        When(\E j, k \in DOMAIN current.fields :
                               j < k /\ current.fields[j].name = current.fields[k].name, "Field already exists")>>),
              [root EXCEPT !.structures = Put(@, current.name, structOf(current.fields))])

\* createFunctionFromNode: the types, then the name, then the parameters.
functionOf(d, module, absoluteName) ==
  [functionReturnType |-> typeDescriptionFromNode(d.returns), moduleName |-> module, absoluteName |-> absoluteName,
   parameters |-> [k \in DOMAIN d.parameters |-> d.parameters[k].name],
   symbols |-> FoldLeft(LAMBDA s, p : Put(s, p.name, typeDescriptionFromNode(p.type)), <<>>, d.parameters)]
getParamTypePos(f, k) == f.symbols[f.parameters[k]]
functionError(d, names) ==
  firstOf(<<typeError(d.returns), typeErrors(d.parameters),
            When(\E n \in names : symbolExists(root, n), exists),
            When(\E k \in DOMAIN d.parameters : symbolExists(root, d.parameters[k].name), exists)>>)

isValidDeconstructor(f) ==
  /\ f.functionReturnType.dtype = "VOID"
  /\ Len(f.parameters) = 1
  /\ getParamTypePos(f, 1).moduleName = RootName

CreateFunction ==
  LET key      == nameMangle(current.name, RootName)
      function == functionOf(current, RootName, key)
      filed    == [root EXCEPT !.functions = Put(@, key, function), !.definedFunctions = Append(@, key)]
      isHook   == current.name = "__deconstructor__"
      error    == functionError(current, {key, current.name})
  IN  /\ At("symbols", {"fn"})
      /\ IF error # "" \/ ~isHook THEN Declared(error, filed)
         ELSE IF ~isValidDeconstructor(function) THEN Declared("Invalid deconstructor function", root)
         ELSE LET struct == getParamTypePos(function, 1).dtypeName
              IN  Declared(When(~Has(root.structures, struct), exception),
                           [filed EXCEPT !.structures[struct].deconstructor = key])

CreateFunctionExternC ==
  /\ At("symbols", {"externC"})
  /\ Declared(functionError(current, {current.name}),
              [root EXCEPT !.functions = Put(@, current.name, functionOf(current, RootName, current.name)),
                           !.definedFunctions = Append(@, current.name)])

CreateExternFunction ==
  /\ At("symbols", {"extern"})
  /\ Declared(functionError(current, {current.name}),
              [root EXCEPT !.externFunctions = Put(@, current.name, functionOf(current, RootName, current.name))])

CreateExternFunctionModule ==
  LET key == nameMangle(current.name, current.module)
  IN  /\ At("symbols", {"externModule"})
      /\ Declared(functionError(current, {nameMangle(current.name, RootName), current.name}),
                  [root EXCEPT !.externFunctions = Put(@, key, functionOf(current, current.module, key)),
                               !.incompleteFunctions = Put(@, current.name, current.module)])
------------------------------------------------------------------------------
\* ModuleBuilder::createUse, createDirectFrom and createAliasFrom.
CreateUse ==
  /\ At("symbols", {"use"})
  /\ Declared(firstOf(<<When(Contains(root.uses, current.path), "Duplicate imports"),
                        When(Has(root.aliases, current.alias), exists)>>),
              [root EXCEPT !.uses = Append(@, current.path), !.aliases = Put(@, current.alias, current.path)])

\* Mutant: a module's own functions are tried before those it declares extern.
importable_OwnFirst(m, n) ==
  LET tables == <<"structures", "functions", "externFunctions", "intDefines", "floatDefines", "stringDefines",
                  "definedEnumsTypes", "enums", "aliases">>
      k == SelectInSeq(tables, LAMBDA t : Has(m[t], IF t = "functions" THEN nameMangle(n, m.name) ELSE n))
  IN  IF k = 0 THEN "none" ELSE tables[k]

\* ModuleBuilder::createFrom: the first table that has the name.
importable(m, n) ==
  CASE Has(m.structures, n)                          -> "structures"
    [] ~Has(m.structures, n) /\ Has(m.externFunctions, n) -> "externFunctions"
    [] OTHER -> LET tables == <<"functions", "intDefines", "floatDefines", "stringDefines", "definedEnumsTypes",
                                "enums", "aliases">>
                    key(t) == IF t = "functions" THEN nameMangle(n, m.name) ELSE n
                    k      == SelectInSeq(tables, LAMBDA t : Has(m[t], key(t)))
                IN  IF k = 0 THEN "none" ELSE tables[k]

withImport(tables, m, n) ==
  LET t == importable(m, n)
  IN  CASE t = "functions" -> [tables EXCEPT !.externFunctions = Put(@, n, m.functions[nameMangle(n, m.name)])]
        [] t = "stringDefines" ->
             [tables EXCEPT !.stringDefines = Put(@, n, m.stringDefines[n]),
                            !.stringsDataCharCounts = Put(@, m.stringDefines[n],
                                                          m.stringsDataCharCounts[m.stringDefines[n]])]
        [] t = "aliases"   -> [tables EXCEPT !.uses = Append(@, m.aliases[n]), !.aliases = Put(@, n, m.aliases[n])]
        [] t = "none"      -> tables
        [] OTHER           -> [tables EXCEPT ![t] = Put(@, n, m[t][n])]

fromError(m, n) ==
  firstOf(<<When(symbolExists(root, n), exists),
            When(importable(m, n) = "aliases" /\ Has(root.aliases, n), "Alias already exists"),
            When(importable(m, n) = "none", "Symbol does not exist")>>)

CreateDirectFrom ==
  LET used == IF Contains(root.uses, current.path) THEN root ELSE [root EXCEPT !.uses = Append(@, current.path)]
  IN  /\ At("symbols", {"from"})
      /\ Declared(fromError(moduleAt(current.path), current.name),
                  withImport(used, moduleAt(current.path), current.name))

CreateAliasFrom ==
  /\ At("symbols", {"fromAlias"})
  /\ IF ~Has(root.aliases, current.alias) THEN Declared("Use does not exist", root)
     ELSE LET m == moduleAt(root.aliases[current.alias])
          IN  Declared(fromError(m, current.name), withImport(root, m, current.name))

\* Behind the last declaration the bodies follow; of a body, the text of
\* the string literal in it.
StartBodies ==
  /\ pass = "symbols" /\ next > Len(program)
  /\ pass' = "bodies" /\ next' = 1
  /\ UNCHANGED <<program, root, compileError>>

GenerateFunction ==
  /\ At("bodies", {"fn", "externC"})
  /\ Declared("", IF current.text = "" THEN root ELSE withString(current.text, next))

SkipDeclaration ==
  /\ pass = "bodies" /\ next <= Len(program) /\ current.kind \notin {"fn", "externC"}
  /\ next' = next + 1
  /\ UNCHANGED <<program, pass, root, compileError>>

CreateSymbol ==
  \/ CreateIntDefine  \/ CreateFloatDefine  \/ CreateStringDefine    \/ CreateEnum
  \/ CreateGlobal     \/ CreateStruct       \/ CreateFunction        \/ CreateFunctionExternC
  \/ CreateExternFunction                   \/ CreateExternFunctionModule
  \/ CreateUse        \/ CreateDirectFrom   \/ CreateAliasFrom

Next == GenerateIncompleteTypes \/ CreateSymbol \/ StartBodies \/ GenerateFunction \/ SkipDeclaration
Spec == Init /\ [][Next]_vars
------------------------------------------------------------------------------
\* Finder: what a name stands for while m is the working module.  A meaning
\* names the table it was found in and what lies there.
nothing == <<"nothing">>
found(table, name, m) ==
  IF Has(m[table], name) THEN <<table, m[table][name]>>
  ELSE IF Has(root[table], name) THEN <<table, root[table][name]>> ELSE nothing

\* Finder::getUnitFromToken without the locals of a function.
valueOf(m, name) ==
  LET global   == nameMangle(name, RootName)
      meanings == <<IF Has(root.globals, global) THEN <<"globals", root.globals[global]>> ELSE nothing,
                    found("enums", name, m), found("intDefines", name, m), found("floatDefines", name, m),
                    found("stringDefines", name, m)>>
      k == SelectInSeq(meanings, LAMBDA x : x # nothing)
  IN  IF k = 0 THEN nothing ELSE meanings[k]

\* Finder::getFunction.
getFunction(m, name) ==
  LET own  == nameMangle(name, m.name)
      ours == nameMangle(name, RootName)
  IN  IF Has(m.incompleteFunctions, name)
        THEN <<"function", m.externFunctions[nameMangle(name, m.incompleteFunctions[name])]>>
      ELSE IF Has(m.externFunctions, name) THEN <<"function", m.externFunctions[name]>>
      ELSE IF Has(m.functions, own)        THEN <<"function", m.functions[own]>>
      ELSE IF Has(m.functions, name)       THEN <<"function", m.functions[name]>>
      ELSE IF Has(root.functions, ours)    THEN <<"function", root.functions[ours]>>
      ELSE IF Has(root.externFunctions, name) THEN <<"function", root.externFunctions[name]>>
      ELSE nothing

typeOf(m, name) ==
  CASE Has(m.definedEnumsTypes, name) -> <<"enum", m.definedEnumsTypes[name]>>
    [] ~Has(m.definedEnumsTypes, name) /\ Has(m.structures, name) -> <<"struct", m.structures[name]>>
    [] OTHER -> nothing

meaning(sort, m, name) ==
  CASE sort = "value" -> valueOf(m, name) [] sort = "type" -> typeOf(m, name) [] OTHER -> getFunction(m, name)
sorts == {"value", "type", "function"}
------------------------------------------------------------------------------
\* Every declaration the file has so far been read up to.
read     == IF pass = "bodies" THEN DOMAIN program ELSE 1 .. next - 1
imports  == {k \in read : program[k].kind \in {"from", "fromAlias"}}
sourceOf(d) == IF d.kind = "from" THEN d.path ELSE root.aliases[d.alias]
ownNames == {program[k].name : k \in DOMAIN program}
              \cup UNION {ToSet(program[k].members) : k \in {j \in DOMAIN program : program[j].kind = "enum"}}
identity(m) == IF m[1] = "struct" THEN <<"struct", [m[2] EXCEPT !.deconstructor = ""]>> ELSE m

\* The places a function called n was filed in by declarations of the file.
functionsCalled(n) ==
  {t \in {"functions", "externFunctions", "incompleteFunctions"} :
     Has(root[t], IF t = "functions" THEN nameMangle(n, RootName) ELSE n)}
conflict(n) == Cardinality(functionsCalled(n)) > 1

\* The tables have the shape every look-up relies on: a function is listed
\* once for every key it is filed under, a symbol table lists exactly the
\* parameters, an alias is of a module used, an error ends the symbols.
TypeOK ==
  /\ pass \in {"types", "symbols", "bodies"} /\ next \in 1 .. Len(program) + 1
  /\ compileError # "none" => pass = "symbols"
  /\ ToSet(root.definedFunctions) = DOMAIN root.functions /\ IsInjective(root.definedFunctions)
  /\ \A table \in {root.functions, root.externFunctions} :
       \A k \in DOMAIN table : ToSet(table[k].parameters) = DOMAIN table[k].symbols
  /\ \A a \in DOMAIN root.aliases : Contains(root.uses, root.aliases[a])
  /\ \A n \in DOMAIN root.incompleteFunctions :
       Has(root.externFunctions, nameMangle(n, root.incompleteFunctions[n]))

\* What a name stands for in the file is settled by the first declaration
\* that gives it a meaning: no later one that is accepted changes it, though
\* the tables are looked up in an order that is not the order of the file
\* (Finder::getUnitFromToken, tokenToDataType, getFunction).  Functions in
\* conflict are NameConflictIsReported's.
MeaningStands ==
  [][\A sort \in sorts, n \in ownNames :
       LET before == identity(meaning(sort, root, n))
       IN  \/ before = nothing
           \/ identity(meaning(sort, root, n)') = before
           \/ sort = "function" /\ conflict(n)']_vars

\* A name imported with from means in the file what it means behind `::` of
\* the module it comes from (ModuleBuilder::createFrom tries the tables of
\* that module in an order of its own).
ImportsMeanTheSame ==
  \A k \in imports :
    LET m == moduleAt(sourceOf(program[k]))
        n == program[k].name
    IN  \/ \E sort \in sorts :
             meaning(sort, m, n) # nothing /\ meaning(sort, root, n) = meaning(sort, m, n)
        \/ Has(m.aliases, n) /\ Has(root.aliases, n) /\ root.aliases[n] = m.aliases[n]
        \/ conflict(n)

\* No two fields of a structure share a byte and all of them lie within its
\* size, counting a structure held by value with the size it really has
\* (ModuleBuilder::createStruct adds up sizes noted when the types were made).
bytesOf(type) ==
  IF type.pointer THEN 8
  ELSE product(type.dimensions) *
       (IF type.dtype = "STRUCT" THEN moduleAt(type.moduleName).structures[type.dtypeName].size
                                 ELSE getDataTypeSize(type.dtype))
FieldsHaveRoom ==
  \A n \in DOMAIN root.structures :
    LET s == root.structures[n]
        place(f) == s.structFields[f].offset .. s.structFields[f].offset + bytesOf(s.structFields[f]) - 1
    IN  /\ \A f \in DOMAIN s.structFields : place(f) \subseteq 0 .. s.size - 1
        /\ \A f, g \in DOMAIN s.structFields : f # g => place(f) \cap place(g) = {}

\* A key stands for one text in the whole program, some module has that text,
\* and every module that mentions the key knows its length
\* (createMultilineStringData shares texts between modules).
OneTextPerKey ==
  LET modules == {root} \cup Range(Library)
      texts(k) == {m.stringsData[k] : m \in {m \in modules : Has(m.stringsData, k)}}
  IN  /\ \A m \in modules : \A k \in DOMAIN m.stringsDataCharCounts :
           \E t \in texts(k) : texts(k) = {t} /\ m.stringsDataCharCounts[k] = Len(t) + 1
      /\ \A n \in DOMAIN root.stringDefines : Has(root.stringsDataCharCounts, root.stringDefines[n])

\* LanguageGuide.md:311: array pointers "are indexable using the [n] syntax".
\* The distance between two elements is the size noted in the pointer's type
\* (FunctionBuilder::getIndexedElement), so it has to be the structure's.
ElementWidthIsSize ==
  pass = "bodies" =>
    \A n \in DOMAIN root.structures : \A f \in DOMAIN root.structures[n].structFields :
      LET type == root.structures[n].structFields[f]
      IN  type.pointer /\ type.dimensions # <<>> /\ type.dtype = "STRUCT" =>
            type.size = moduleAt(type.moduleName).structures[type.dtypeName].size

\* LanguageGuide.md:2130: of two files with a function of the same name
\* "there would be a name conflict".  A function the file declares and one
\* it imports under the same name are such a conflict.
NameConflictIsReported == \A n \in ownNames : ~conflict(n)
==============================================================================
