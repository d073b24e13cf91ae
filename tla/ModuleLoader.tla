---------------------------- MODULE ModuleLoader ----------------------------
(***************************************************************************)
(* How the compiler loads a program that consists of several files: the    *)
(* recursion of Generator/Use.cpp, Generator/Generic.cpp and               *)
(* Generator/IRGenerator.cpp over the use and from declarations, generic   *)
(* files and their instances, on top of the symbol tables of               *)
(* Builder/ModuleBuilder.cpp and the stack of Console/Console.cpp.         *)
(*                                                                         *)
(* A file is a sequence of declarations and, after them, of what its       *)
(* function bodies mention (generateModule visits the declarations first   *)
(* and then the bodies, in the order of the file):                         *)
(*    [op |-> "use", of |-> name]               use "file" as alias        *)
(*    [op |-> "from", of |-> name, sym |-> s]   from "file" use s          *)
(*    [op |-> "fn", sym |-> s]                  fn s                       *)
(*    [op |-> "call", of |-> name, sym |-> s]   alias::s()                 *)
(*    [op |-> "make", of |-> name, ty |-> type] a mention of alias::G[type] *)
(* and may be generic.  An alias is as good as the name it stands for.     *)
(* Every file declares one type, which the first pass of generateModule    *)
(* registers before anything else.  A type argument is "int", "own",       *)
(* "param" (a generic file's parameter) or a file, for that file's type.   *)
(*                                                                         *)
(* A module has a name: <<file>>, or <<generic file>> followed by what     *)
(* identifies the argument for an instance of a generic file.              *)
(***************************************************************************)
EXTENDS Naturals, Sequences, SequencesExt, FiniteSets

CONSTANTS
  File,            \* all files
  Root,            \* the file given on the command line
  Programs         \* each program: what every file contains

Name(file) == <<file>>
Names      == {Name(f) : f \in File}

\* The declarations and mentions a file may contain.
Items ==
  [op : {"use"}, of : Names] \cup [op : {"from", "call"}, of : Names, sym : STRING]
  \cup [op : {"fn"}, sym : STRING]
  \cup [op : {"make"}, of : Names, ty : File \cup {"int", "own", "param"}]

ASSUME FilesAreNames ==
  LET others == {"int", "own", "param"}
  IN  File \cup others \subseteq STRING /\ File \cap others = {}

\* The root is not generic, a parameter is mentioned in generic files only, and
\* the type that a generic file declares only through an instance of it.
ASSUME ProgramsAreTyped ==
  /\ Root \in File
  /\ \A p \in Programs :
       /\ ~p[Root].generic
       /\ \A f \in File :
            /\ p[f].generic \in BOOLEAN
            /\ p[f].items \in Seq(Items)
            /\ \A i \in 1..Len(p[f].items) :
                 p[f].items[i].op = "make" =>
                   /\ p[f].items[i].ty = "param" => p[f].generic
                   /\ p[f].items[i].ty \in File => ~p[p[f].items[i].ty].generic

VARIABLES
  program,
  phase,           \* "load", "done" or "error"
  modulesMap,      \* module name -> its tables
  genericsMap,     \* generic files that were parsed
  frames,          \* the active calls of generateModule, innermost last
  fileStack,       \* Console's stack of open files
  reads,           \* history: how often each file was parsed
  finished,        \* history: modules whose generateModule returned
  links            \* history: what each call of another module's function got

vars == <<program, phase, modulesMap, genericsMap, frames, fileStack, reads, finished, links>>

\* ModuleDescription: functions of its own, imported functions with the
\* module they come from, names of used modules, aliases.
EmptyModule == [functions |-> {}, imported |-> [s \in {} |-> <<>>], uses |-> {}, aliases |-> {}]

\* TypeDescription: what tells the type apart, and its moduleName.
Type(str, mod) == [str |-> str, mod |-> mod]
NoType == Type(<<>>, <<>>)

\* A call of generateModule: arg is the instance's argument, generics the
\* generic files this context may instantiate (its Monomorphizer).
Frame(name, file, arg) == [name |-> name, file |-> file, arg |-> arg, next |-> 1, generics |-> {}]

Init ==
  /\ program \in Programs
  /\ phase = "load"
  /\ modulesMap = [n \in {Name(Root)} |-> EmptyModule]
  /\ genericsMap = {}
  /\ frames = <<Frame(Name(Root), Root, NoType)>>
  /\ fileStack = <<Root>>
  /\ reads = [f \in File |-> IF f = Root THEN 1 ELSE 0]
  /\ finished = {}
  /\ links = {}
-----------------------------------------------------------------------------
Top == Last(frames)
Me  == modulesMap[Top.name]

(* An instance begins with a use of the module its argument comes from      *)
(* (prependUseNode).                                                        *)
Agenda(fr) ==
  (IF fr.arg = NoType THEN <<>> ELSE <<[op |-> "use", of |-> fr.arg.mod]>>)
  \o program[fr.file].items

Item   == Agenda(Top)[Top.next]
At(op) == phase = "load" /\ Top.next <= Len(Agenda(Top)) /\ Item.op = op

\* Mutant: a module exists once it is complete.
moduleExists_Complete(n) == n \in finished

moduleExists(n) == n \in DOMAIN modulesMap
isGeneric(n)    == Len(n) = 1 /\ program[n[1]].generic

Declares(f, s) == \E i \in 1..Len(program[f].items) :
                    program[f].items[i].op = "fn" /\ program[f].items[i].sym = s

\* The frames once the innermost has become fr, or has called another.
GoesOn(fr)       == Append(Front(frames), [fr EXCEPT !.next = @ + 1])
Waits(fr, inner) == Front(frames) \o <<fr, inner>>

With(tables, n, t) == [k \in DOMAIN tables \cup {n} |-> IF k = n THEN t ELSE tables[k]]

compileError ==
  /\ phase' = "error"
  /\ UNCHANGED <<program, modulesMap, genericsMap, frames, fileStack, reads, finished, links>>

(* generateIROrMonomorphizedASTFromName: a generic file is parsed and       *)
(* indexed, unless it was before ...                                        *)
index(f) ==
  /\ genericsMap' = genericsMap \cup {f}
  /\ reads' = IF f \in genericsMap THEN reads ELSE [reads EXCEPT ![f] = @ + 1]
  /\ frames' = GoesOn([Top EXCEPT !.generics = @ \cup {f}])
  /\ UNCHANGED fileStack

(* ... and any other is parsed and registered, and then generated.          *)
generate(f, caller, tables) ==
  /\ modulesMap' = With(tables, Name(f), EmptyModule)
  /\ frames' = Waits(caller, Frame(Name(f), f, NoType))
  /\ fileStack' = Append(fileStack, f)
  /\ reads' = [reads EXCEPT ![f] = @ + 1]
  /\ UNCHANGED genericsMap

\* createUse registers the alias first and loads then.
createUse ==
  LET n    == Item.of
      used == With(modulesMap, Top.name, [Me EXCEPT !.uses = @ \cup {n}, !.aliases = @ \cup {n}])
  IN  /\ At("use")
      /\ \/ n \in Me.uses /\ compileError                   \* Duplicate imports
         \/ /\ n \notin Me.uses
            /\ \/ /\ moduleExists(n)
                  /\ modulesMap' = used /\ frames' = GoesOn(Top)
                  /\ UNCHANGED <<genericsMap, fileStack, reads>>
               \/ isGeneric(n) /\ modulesMap' = used /\ index(n[1])
               \/ /\ ~moduleExists(n) /\ ~isGeneric(n)
                  /\ generate(n[1], [Top EXCEPT !.next = @ + 1], used)
            /\ UNCHANGED <<program, phase, finished, links>>

\* Mutant: what a module has imported cannot be imported from it.
Exported_OwnOnly(n) == [s \in modulesMap[n].functions |-> n]

\* What a module offers (createFrom), with the module that has it.
Exported(n) ==
  LET t == modulesMap[n]
  IN  [s \in t.functions \cup DOMAIN t.imported |->
         IF s \in DOMAIN t.imported THEN t.imported[s] ELSE n]

\* createDirectFrom loads first.  A function of the importing module does not
\* stand in the way of an imported one: functions are filed under a mangled name.
createDirectFrom ==
  LET n == Item.of  s == Item.sym
  IN  /\ At("from")
      /\ \/ isGeneric(n) /\ ~Declares(n[1], s) /\ compileError
         \/ /\ isGeneric(n) /\ Declares(n[1], s) /\ index(n[1])
            /\ UNCHANGED <<program, phase, modulesMap, finished, links>>
         \/ /\ ~moduleExists(n) /\ ~isGeneric(n) /\ generate(n[1], Top, modulesMap)
            /\ UNCHANGED <<program, phase, finished, links>>
         \/ /\ moduleExists(n) /\ (s \in DOMAIN Me.imported \/ s \notin DOMAIN Exported(n))
            /\ compileError
         \/ /\ moduleExists(n) /\ s \notin DOMAIN Me.imported /\ s \in DOMAIN Exported(n)
            /\ modulesMap' = With(modulesMap, Top.name,
                 [Me EXCEPT !.uses = @ \cup {n}, !.imported = With(@, s, Exported(n)[s])])
            /\ frames' = GoesOn(Top)
            /\ UNCHANGED <<program, phase, genericsMap, fileStack, reads, finished, links>>

createFunction ==
  /\ At("fn")
  /\ \/ Item.sym \in DOMAIN Exported(Top.name) /\ compileError
     \/ /\ Item.sym \notin DOMAIN Exported(Top.name)
        /\ modulesMap' = With(modulesMap, Top.name, [Me EXCEPT !.functions = @ \cup {Item.sym}])
        /\ frames' = GoesOn(Top)
        /\ UNCHANGED <<program, phase, genericsMap, fileStack, reads, finished, links>>

TypeOf(ty) ==
  CASE ty = "own"   -> Type(Top.name, Top.name)
    [] ty = "int"   -> Type(<<"int">>, Top.name)
    [] ty = "param" -> Top.arg
    [] OTHER        -> Type(Name(ty), Name(ty))

\* Mutant: a caller that finds its instance there asks for it again.
makeInstance_Again ==
  LET g == Item.of[1]  arg == TypeOf(Item.ty)  n == <<g>> \o arg.str
  IN  /\ At("make")
      /\ \/ /\ \/ g \notin Top.generics
               \/ Item.ty \in File /\ Name(Item.ty) \notin Me.aliases
            /\ compileError
         \/ /\ g \in Top.generics /\ (Item.ty \in File => Name(Item.ty) \in Me.aliases)
            /\ \/ moduleExists(n) /\ UNCHANGED <<frames, modulesMap, fileStack>>
               \/ /\ ~moduleExists(n)
                  /\ modulesMap' = With(modulesMap, n, EmptyModule)
                  /\ frames' = Waits(Top, Frame(n, g, arg))
                  /\ fileStack' = Append(fileStack, g)
            /\ UNCHANGED <<program, phase, genericsMap, reads, finished, links>>

\* generateIRUsingMonomorphizer: an instance is named after its argument and
\* generated once; the file is on the console's stack but not read again.
makeInstance ==
  LET g == Item.of[1]  arg == TypeOf(Item.ty)  n == <<g>> \o arg.str
  IN  /\ At("make")
      /\ \/ /\ \/ g \notin Top.generics
               \/ Item.ty \in File /\ Name(Item.ty) \notin Me.aliases
            /\ compileError
         \/ /\ g \in Top.generics /\ (Item.ty \in File => Name(Item.ty) \in Me.aliases)
            /\ \/ moduleExists(n) /\ frames' = GoesOn(Top) /\ UNCHANGED <<modulesMap, fileStack>>
               \/ /\ ~moduleExists(n)
                  /\ modulesMap' = With(modulesMap, n, EmptyModule)
                  /\ frames' = Waits(Top, Frame(n, g, arg))
                  /\ fileStack' = Append(fileStack, g)
            /\ UNCHANGED <<program, phase, genericsMap, reads, finished, links>>

\* Mutant: the calling module is searched first.
Found_CallerFirst(n, s) ==
  IF s \in DOMAIN Exported(Top.name) THEN {Exported(Top.name)[s]}
  ELSE {Exported(k)[s] : k \in {k \in {n} : s \in DOMAIN Exported(k)}}

\* Finder::getFunction: the aliased module, and then the calling one; there a
\* function of its own comes before an imported one.
Found(n, s) ==
  IF s \in DOMAIN Exported(n) THEN {Exported(n)[s]}
  ELSE IF s \in Me.functions THEN {Top.name}
  ELSE {Me.imported[k] : k \in {s} \cap DOMAIN Me.imported}

\* A generic file has no function that could be called without an instance
\* (functionCallWithHint; a call whose type is known beforehand is left out).
functionCall ==
  LET n == Item.of  s == Item.sym
  IN  /\ At("call")
      /\ \/ (n \notin Me.aliases \/ isGeneric(n)) /\ compileError
         \/ n \in Me.aliases /\ ~isGeneric(n) /\ Found(n, s) = {} /\ compileError
         \/ /\ n \in Me.aliases /\ ~isGeneric(n)
            /\ \E got \in Found(n, s) :
                 links' = links \cup {[by |-> Top.name, of |-> n, sym |-> s, got |-> got,
                                       whole |-> n \in finished]}
            /\ frames' = GoesOn(Top)
            /\ UNCHANGED <<program, phase, modulesMap, genericsMap, fileStack, reads, finished>>

\* Mutants of returnModule: the last mention is not visited; the console
\* keeps the file of an instance.
returnModule_Early ==
  /\ phase = "load" /\ Top.next >= Len(Agenda(Top))
  /\ finished' = finished \cup {Top.name}
  /\ frames' = Front(frames) /\ fileStack' = Front(fileStack)
  /\ phase' = IF Len(frames) = 1 THEN "done" ELSE phase
  /\ UNCHANGED <<program, modulesMap, genericsMap, reads, links>>
returnModule_KeepsFile ==
  /\ phase = "load" /\ Top.next > Len(Agenda(Top))
  /\ finished' = finished \cup {Top.name}
  /\ frames' = Front(frames)
  /\ fileStack' = IF Top.arg = NoType THEN Front(fileStack) ELSE fileStack
  /\ phase' = IF Len(frames) = 1 THEN "done" ELSE phase
  /\ UNCHANGED <<program, modulesMap, genericsMap, reads, links>>

\* generateModule returns and its caller pops the console.
returnModule ==
  /\ phase = "load" /\ Top.next > Len(Agenda(Top))
  /\ finished' = finished \cup {Top.name}
  /\ frames' = Front(frames) /\ fileStack' = Front(fileStack)
  /\ phase' = IF Len(frames) = 1 THEN "done" ELSE phase
  /\ UNCHANGED <<program, modulesMap, genericsMap, reads, links>>

Next == createUse \/ createDirectFrom \/ createFunction \/ makeInstance \/ functionCall
        \/ returnModule

Spec     == Init /\ [][Next]_vars
FairSpec == Spec /\ WF_vars(Next)
-----------------------------------------------------------------------------
Active(n) == \E i \in 1..Len(frames) : frames[i].name = n

TypeOK ==
  /\ phase \in {"load", "done", "error"}
  /\ (Active(Name(Root)) \/ phase = "done")
  /\ \A i \in 1..Len(frames) : frames[i].name \in DOMAIN modulesMap
  /\ finished \subseteq DOMAIN modulesMap
  /\ genericsMap \subseteq File

\* However the files use each other, a module is generated once, and a file
\* is read once: the stream of a file stays open and would give nothing the
\* second time.
GeneratedOnce ==
  /\ \A i, j \in 1..Len(frames) : frames[i].name = frames[j].name => i = j
  /\ \A i \in 1..Len(frames) : frames[i].name \notin finished
  /\ \A f \in File : reads[f] <= 1

\* The console's stack, which names the file of an error and the way to it,
\* is the stack of the modules under generation.
ConsoleFollows ==
  /\ Len(fileStack) = Len(frames)
  /\ \A i \in 1..Len(frames) : fileStack[i] = frames[i].file

\* Where a file imports a function from, directly or through other files, and
\* which of them declare it: what the sources say, whatever the order of
\* loading.  Through a generic file nothing is imported, and none of its
\* functions can be.
Sources(f, s) ==
  LET froms(x)  == {i.of[1] : i \in {i \in ToSet(program[x].items) : i.op = "from" /\ i.sym = s}}
      closed(S) == \A x \in S : ~program[x].generic => froms(x) \subseteq S
  IN  {h \in File : /\ ~program[h].generic /\ Declares(h, s)
                    /\ \A S \in SUBSET File : f \in S /\ closed(S) => h \in S}

\* Declarations of the innermost module that come before the one it is at; a
\* function is imported by a from that names no generic file.
Before      == {Agenda(Top)[i] : i \in 1..(Top.next - 1)}
Loads(of)   == {i \in Before : i.op \in {"use", "from"} /\ i.of = of}
Aliased(of) == {i \in Before : i.op = "use" /\ i.of = of}
Imported(s) == {i \in Before : i.op = "from" /\ i.sym = s /\ ~isGeneric(i.of)}
Defined(s)  == {i \in Before : i.op = "fn" /\ i.sym = s}

\* What is wrong with the declaration or mention at hand.
Cause ==
  CASE Item.op = "use"  -> Loads(Item.of) # {}
    [] Item.op = "from" -> \/ Imported(Item.sym) # {}
                           \/ isGeneric(Item.of) /\ ~Declares(Item.of[1], Item.sym)
                           \/ /\ ~isGeneric(Item.of)
                              /\ Active(Item.of) \/ Sources(Item.of[1], Item.sym) = {}
    [] Item.op = "fn"   -> Imported(Item.sym) \cup Defined(Item.sym) # {}
    [] Item.op = "make" -> \/ ~isGeneric(Item.of) \/ Loads(Item.of) = {}
                           \/ Item.ty \in File /\ Aliased(Name(Item.ty)) = {}
    [] Item.op = "call" -> \/ Aliased(Item.of) = {} \/ isGeneric(Item.of)
                           \/ Active(Item.of) \/ Sources(Item.of[1], Item.sym) = {}

\* A program is refused only for what is wrong in its text, or because a
\* cycle of files asks for something of a file that is not through yet.
FailsForCause == phase = "error" => Cause

\* A call alias::s of a module that is through gets the s of that module, or
\* what it imported as s, even if the calling module has another s.
CallsTheNamedModule ==
  \A l \in links : l.whole /\ Sources(l.of[1], l.sym) # {} =>
    l.got[1] \in Sources(l.of[1], l.sym)

\* The same without exception: a module that declares s in the end is the
\* one whose s is called.
QualifiedCall ==
  phase = "done" =>
    \A l \in links : l.sym \in modulesMap[l.of].functions => l.got = l.of

\* The instance that a mention in module n asks for, by the text alone: the
\* parameter of n, when n is an instance, is what follows its first component.
Instance(n, item) ==
  <<item.of[1]>> \o (CASE item.ty = "int"   -> <<"int">>
                       [] item.ty = "own"   -> n
                       [] item.ty = "param" -> Tail(n)
                       [] OTHER             -> <<item.ty>>)

\* When everything is loaded, every module was generated to its end, and so
\* was whatever it uses and every instance it mentions.
LoadedIsClosed ==
  phase = "done" =>
    /\ finished = DOMAIN modulesMap
    /\ \A n \in finished :
         /\ modulesMap[n].uses \subseteq finished \cup {Name(g) : g \in genericsMap}
         /\ \A item \in ToSet(program[n[1]].items) :
              /\ item.op = "fn" => item.sym \in modulesMap[n].functions
              /\ item.op = "make" => Instance(n, item) \in finished

\* Loading ends, whatever cycles of files and of instances there are, as long
\* as no instance asks for one of a type that it declares itself.
LoadingEnds == <>(phase # "load")
=============================================================================
