# Verification of the ShnooTalk compiler

ShnooTalk is an ahead-of-time compiled language. Its compiler (`src/compiler/src`, C++) parses
`.shtk` files, generates an intermediate code ("icode") for every module, and translates that icode to
LLVM. A standard library (`src/stdlib/stdlib`) written in the language itself supplies containers,
strings and reference counting; the compiler takes part in memory management by inserting calls of
two hooks, `__beforeCopy__` and `__deconstructor__`, into the code it generates.

This directory holds TLA+ models of the parts whose correctness depends on the order of things, the
TLC configurations that check them, and proofs (TLAPS) of what holds for every size of the model.

Paths below are relative to `src/compiler/src`, or to `src/stdlib/stdlib` for `.shtk` files.

## 1. The system

The compiler is a single sequential process. Nothing in it runs concurrently and nothing is persisted
between runs, so there are no hazards of threads, messages or crashes. What makes it hard is
*protocol*: tables and queues that one phase fills and another one reads, code emitted in one place
and executed in an order decided in another, recursion between modules, and resource management code
that must be balanced on every path.

```
 driver (main.cpp)
   |  use M / from M use x                       Console: stack of open modules
   v
 Lexer -> Parser -> syntax tree (Node) -> IRGenerator <-> IRBuilder/ModuleBuilder/FunctionBuilder
             ^                               |    ^               symbol tables, hooks, icode tables
             |  generic M[T]                 |    |
          Monomorphizer <--------------------+    |
                                             v
                              ModuleDescription, FunctionDescription.icodeTable
                                             |
                                             v
                                    Translator -> LLVM -> program  <- standard library
```

### 1.1 Inventory

| Component | State it keeps | Operations | Interacts with | What is hard; what makes it correct |
|---|---|---|---|---|
| Resource management hooks: `Builder/FunctionBuilder.cpp` (`unitCopy`, `createLocal`, `callResourceMgmtHook`, `createReturnAndCallDeconstructors`), `Generator/{Local,Assignment,ScopeTracker,UnitFromIdentifier}.cpp` | symbols of the function; scope stack and counter; icode table | declare, assign, return, enter and leave a block | called from every statement; the emitted calls run in the hooks of `ReferenceCounter.shtk`, `List.shtk`, ... | The order retain - release - copy, which units get a hook, which locals a return destroys. Correct: no use after free, nothing survives dangling, no hook on uninitialised memory. |
| Statements and conditions: `Generator/{Statement,Expression,IRGenerator}.cpp` | the break and continue labels of the enclosing loop | one function per statement; short-circuit code for `and`, `or`, `not` | writes compares, labels and jumps to the icode table | Jump targets, inverted conditions, labels named after tokens. Correct: the code does what the source says, in the same order. |
| Translator, control flow: `Translator/{Branch,GenerateFunction,BranchContext,CompareOperator}.cpp` | blocks; label map; FIFO of flags; queue of jumps; "was the previous entry a jump" | one step per icode entry; a second pass for queued jumps | reads icode tables; calls LLVM | Flags and jumps meet only by their order in two queues; blocks must end with exactly one terminator. |
| Intermediate representation: `IntermediateRepresentation/*` | tables | look-ups | everything | Data. |
| Module loading: `Generator/{Use,IRGenerator,GeneratorContext}.cpp`, `Builder/{IRBuilder,ModuleBuilder}.cpp` | `modulesMap`, aliases, symbol tables of half generated modules | `use`, `from`, the three passes over a module | Console, Parser, Monomorphizer; calls itself | Cycles of `use`; what is already declared when a cycle closes; each module generated once. |
| Console and module search: `Console/*` | stack of (name, stream); streams by absolute path | push, pop, compile error | module loading | The stack follows the recursion; a stream that is read twice. |
| Lexer: `Lexer/Lexer.cpp`, `Token/*` | line, column, half built token, token queue | next line, classify a character, peek | Parser | Boundaries of tokens, strings and comments; peeking at the end. |
| Parser: `Parser/*`, `Node/*` | the current token; the stack of nodes | recursive descent | Lexer, Console | Lookahead over brackets; every name of the source ends up once in the tree. |
| Declarations and symbol tables: `Builder/{ModuleBuilder,Finder,NameMangle}.cpp`, `Generator/{Define,Enum,Function,Global,Structure,Module}.cpp` | maps of structs, enums, functions, defines, globals, aliases | create, find, import | all generators | Mangled against plain names; order of declarations. |
| Generics: `Generator/Monomorphizer/*`, `Generator/Generic.cpp` | generic syntax trees, memo of instances | instantiate, rewrite types, add `use` nodes | module loading | Memo keyed by names; recursion over growing types. |
| Types and conversions: `Builder/{TypeCheck,TypeDescriptionUtil,UnitBuilder,OperandBuilder}.cpp`, ... | none | pure functions | FunctionBuilder | One description serves for width, constness and kind of address, and is rewritten on the way. |
| Validator: `Builder/Validator/*` | none | assertions on entries | FunctionBuilder | A program that is accepted meets none of them. |
| Translator, data: the other files of `Translator/*` | LLVM values | one LLVM instruction per entry | LLVM | LLVM's semantics. |
| PrettyPrint, driver, Utils | none that matters | output, files | - | wording and I/O |
| `ReferenceCounter.shtk` | one counter per object | create, `__beforeCopy__`, `__deconstructor__`, `isZero` | the compiler's hooks | The counter is exactly the number of references. |
| `List.shtk`, `RawPointerUtils.shtk`, `ArrayReverse.shtk` | block, capacity, length, a ReferenceCounter | 17 methods | libc `malloc`, `realloc`, `memcpy` | Growth at the boundary, overlapping copies, shared blocks. |
| `Dict.shtk` and pairs | a list of pairs | insert, remove, look up | List | One pair per key, whatever the order of calls; `swapRemove` reorders. Correct: a function of its keys. |
| `String.shtk`, `Char.shtk` | a list of characters and a terminator | search, cut, replace, compare, parse | List, libc | Lengths one off from the list's, and loops that run to differences of unsigned numbers. Correct: what the words mean of texts. |
| `ArrayUtils.shtk`, `ArrayReverse.shtk`, `ListUtils.shtk` | an array and its length | sort, search, count, reverse | List | Indices that go below zero. Correct: sorted permutation, first or any place of an item. |
| `Optional`/`Result`/`Error` | an item and a flag | unwrap, propagate with `?` | the generator's question mark | flags tested before values |
| wrappers of the C library; `Math`; test runner | - | I/O; single expressions; a script | - | - |

`PROJECT.json` lists the same components with their files, and every hazard at its line.

## 2. The modules

| Module | Models | Size of its world |
|---|---|---|
| `Ownership` | the abstract discipline of counted references | any variables, any objects |
| `OwnershipProofs` | its invariants, proved | |
| `References` | what the guide promises of collections: variables are names of one list | |
| `SharedLists` | several lists over one heap, on the steps of `Ownership`; implements `References` | any variables, up to `MaxBlocks` blocks |
| `SharedListsProofs` | that they keep to the discipline, their memory safety, and that they implement `References`, proved | |
| `Arrays`, `Strings` | the methods of those names, each beside what it means of sequences and texts | |
| `Collections` | the methods of a Dict beside what they mean of a function; references alone, shared lists, or one call of an array, a string or a dict | any set of calls |
| `FunctionBody` | one function: compiled statement by statement with hooks, then executed; refines `Ownership` | bodies up to `MaxStatements` |
| `FunctionBodyProofs` | that bodies of any length keep to the discipline, and what follows, proved | |
| `FunctionBodyScopes` | that what a body names is initialised on every path to it, proved | |
| `FunctionBodyLosses` | that a body whose declarations stand at the top level loses no reference, proved | |
| `ListSpec` | what a List promises: a sequence with checked indices | |
| `ListBuffer` | `List.shtk` over its heap block; refines `ListSpec` | lists up to `MaxLength` |
| `ListBufferProofs` | memory safety of the list, and that it implements `ListSpec`, proved | |
| `Icode` | the icode entries that control flow uses | |
| `Translator` | the two passes from an icode table to basic blocks | any set of tables |
| `TranslatorProofs` | every block ends with its only terminator, every branch has its flag, proved | |
| `CodeGen` | how statements and conditions are flattened to icode | syntax trees |
| `SourceMeaning` | what those syntax trees mean, from the language guide; refers to no code | |
| `Execution` | `CodeGen`, then `Translator` step by step, then the blocks executed next to `SourceMeaning` | any set of programs |
| `ModuleLoader` | the recursion of the generator over files, `use`, `from` and instances of generic files, with the Console's stack | any set of programs |
| `ModuleLoaderProofs` | once-only generation, the Console's stack, complete loading, causes of refusal and the function a call gets, proved | |
| `Lexer` | the scanner of a line, character by character, and the queue of tokens with its peeks | files over small alphabets |
| `Parser` | every production, on a stack of nodes | any queue of tokens |
| `FrontEnd` | scanner, then parser; what both must not lose | files and sentences |
| `Instantiator` | the tree of a generic file with types written in; extends `FrontEnd` | generic files and arguments |
| `Names` | the tables of a module, filled declaration by declaration, with imports and look-ups | files of declarations |
| `WorkingModule` | the module in which each name of an expression is looked up | bodies of terms |
| `DataTypes`, `Types` | data types, type descriptions, operands and units; when two types are one | |
| `Validator` | what is asserted of every icode entry | |
| `Units` | expressions and statements over values, to icode; extends the three above | any set of programs |
| `Memory` | bytes, objects, and what an unknown callee does to them; no code of the compiler | |
| `DataMeaning` | what those statements mean, from the language guide, and the shapes of source (its slips) that are known to be compiled wrongly | |
| `DataFlow` | `Units`, then the icode run over `Memory`, one action per opcode, against `DataMeaning` | any set of programs |
| `MC*` | the small instances | |

Operators named `X_Y`, marked "Mutant", stand beside the definition `X` they alter: what `X` would be
after a plausible mistake in the code. They take no part in any specification; each property is
checked to fail when one of them takes the place of its original.

### 2.1 Ownership and FunctionBody

*Correspondence.* In `Ownership` a variable owns an object or nothing; `count` is
`ReferenceCounter._count`; `pending` counts references that `__beforeCopy__` has added but no variable
holds. `Create` is `createCounter`, `Retain` is `__beforeCopy__`, `Store` is the copy inside
`unitCopy`, `Release` is `__deconstructor__` followed by the `isZero` test of the owner, `Abandon` is
a pointer overwritten by the null initialisation of `createLocal`.

`FunctionBody` has two halves. The first compiles: every action is a whole statement handler of the
generator (`local`, `walrusLocal`, `assignment`, `functionReturn`, `ifStatement`, `loopStatement`,
`forEachLoop`, `breakStatement`, ..., `terminateFunction`), with its checks (scope, redeclaration,
break outside a loop) and with the icode it appends, hooks included. The second executes that icode,
one entry per action, with nondeterministic conditions. All variables have one struct type with one
counted field; hooks on the whole struct and on the field act on the same reference.
`ScopeTracker`'s counter, stack and map are modelled as they are. A hook on memory that was never
written, or on a freed object, ends the run in a phase of its own, since the C++ and LLVM semantics of
it are undefined.

*Runs.* The language lets bodies be arbitrarily long; the runs take every body of at most
`MaxStatements` (4) statements of the listed forms over one or two locals, a `mut` parameter, a
global and a call's result, three symmetric objects (when they run out `malloc` panics, as
`RawPointerUtils.shtk` does), and an 8-valued counter, which no such body can overflow. Four
statements are enough for a declaration, an assignment of it, a second assignment over it and a
return, and for a loop around a branch around a jump; every hook decision depends on two units only.

| Run | Shows |
|---|---|
| `body_straight` | without branches, locals named `self` (constructors, whose `self` the hooks skip while its fields are not skipped) included: no use after free, survivors alive, no reference lost, and every hook, copy and call is a step of `Ownership` |
| `body_branch` | with branches and loops, declarations anywhere: names written in the source are initialised when reached, nothing is used after it was freed; with the declarations at the top level, hooks meet initialised memory only and no reference is lost, whatever loops and returns it passes |
| `body_sweep` (violation) | the sweep of a return also destroys locals whose declaration was skipped |

`NoHookOnGarbageIfFlat` and `NothingLostIfFlat` speak of bodies whose declarations stand at the top level
(`Flat`). Without `Flat` the first is what `body_sweep` refutes; the second fails as well, because a
local declared in a loop body is not destroyed at the end of a round (`block` in
`Generator/Statement.cpp` emits no hook) and the next round's null initialisation overwrites it: a leak.
`body_straight` and `body_branch` do not assign to whole parameters and copy no whole `self` (finding 2), and
`body_straight` does not assign to a whole `self` a second time, which leaks by design of the hooks.
These runs do not check deadlock: a function that returned, was rejected or stopped has no next step.
`Ownership` alone is part of the run `collections` (2.9).

### 2.2 ListSpec and ListBuffer

*Correspondence.* `block` is the memory behind `_ptr`, as a function of its slots, with `Junk` where
nothing was written; `capacity` and `length` are the fields of those names; `access` records the slots
the last method touched and `out` what it returned. One action is one method with all it calls
(`remove` includes the index check, the copy of the removed element and the `memcpy`). `memcpy` is the
C library's: for ranges that overlap, what it leaves is undefined, and unless `OverlapSafe` the model also takes
the outcome of a copy that smears one element over the range. The sharing of one block by several
lists is in `SharedLists` (2.9).

*Runs.* Lists grow to five elements from arrays of 0 to 3; the first block has `2n+1` slots, so `append`
and `appendArray` both meet exactly full, one short and overfull blocks. Two values are enough
to tell any two positions apart that a wrong index could confuse.

| Run | Shows |
|---|---|
| `list_buffer` | all methods stay inside the block, never return junk, and do what `ListSpec` does |

The run takes a `memcpy` that copes with overlap (`OverlapSafe`), as the C libraries in use mostly do;
C does not promise it, and a smearing copy would make `remove` and `insert` lose elements. What is proved of memory holds for both.
A list that panicked has no next step, hence no deadlock check.

### 2.3 Icode, Translator, CodeGen, SourceMeaning, Execution

*Correspondence.* `Translator` has the fields of `BranchContext` under their names, `blocks` for the
LLVM blocks and `cur` for the builder's insertion point. An action of the first pass translates one
entry and ends like the loop of `translateFunctionIcode` (`Advance`); an action of the second pass
inserts one queued jump. `.at()` on a missing label throws: the model has no step.

`CodeGen` contains the functions of `Expression.cpp` and `Statement.cpp` as operators from syntax tree
to icode, in the order in which the C++ functions emit. Its operators are recursive over trees, so
nothing is proved in or above this module. `Execution` takes a body through `functionCode`, translates it with
`Translator`'s own actions, then executes the blocks with every outcome of every compare, in step with
`SourceMeaning`: a stack machine over the syntax tree that knows neither labels nor jumps and follows
the language guide (`docs/LanguageGuide.md`).

*Runs.* `translator` takes all icode tables of six entries over seven kinds of entry with two labels.
Both passes treat an entry by its opcode and the entry before it; six entries hold a compare, a
jump, two labels, and two more to put between or behind them.
`execution` takes all conditions with up to eight leaves (depth 3) in an `if` and up to four leaves in
the other places; the code for `and`, `or`, `not` depends on a node and its children's labels only, so
depth three meets every nesting of two operators below a third. It also takes every compound statement
followed by one of each kind, and nests of two levels with every jump at the end of a block. Labels are
passed down one level only, which is why two levels meet every combination.

| Run | Shows |
|---|---|
| `translator` | clean tables (no dead code, compares paired) become blocks with exactly one terminator, and every conditional jump gets the flag of its own compare |
| `execution` | short-circuit code asks and branches as the source says, every statement does what the source says, the generator's tables are clean, the translation finishes and the code never circles without doing anything |

`execution` contains no dead code and no `continue` of a `do` loop (findings 3 and 4). `translator` does not check deadlock: a translation that finished, or met a missing label, stops.

*Fairness.* `execution` and `module_loader` assume `WF_vars(Next)`: one sequential process that keeps
stepping, the compiler and then, in `execution`, the compiled program. Which way a condition goes stays open. Every
other run checks safety properties only.

### 2.4 ModuleLoader

*Correspondence.* `frames` is the C++ call stack of `generateModule`, one frame per active
`GeneratorContext`, with the position in the syntax tree (`next`) and the generic files this context
knows (its `Monomorphizer`). `modulesMap` and `genericsMap` are the maps of those names; of a module's tables the
model keeps its functions, the functions it imported, its `uses` and its aliases. `fileStack` is the Console's
stack. An action is one visit of `generateSymbol` or of a mention in a body: `createUse` registers the
alias and then loads, `createDirectFrom` loads and then imports, and both register a module before
they generate it. A failed check throws, which ends the run in phase `"error"`. `makeInstance` names an
instance after its argument; an instance begins with the `use` that `prependUseNode` adds. `functionCall` looks a
name up as `Finder::getFunction` does, with its fallback to the calling module.
`reads`, `finished` and `links` are history. Aliases are identified with the file they stand for.

*Runs.* The programs are all combinations of three plain files with one function name: `main` imports
twice at most and calls once, the others use or import from one file or both, declare the
function before, behind or not at all, and call once. Three files hold a cycle, a cycle that
`main` is not part of, and a chain of two imports. A second family has two plain and two generic files that
instantiate each other with `int`, the type of a file, their own type (plain files) or their parameter. No
generic file of the runs makes an instance with a type that it declares itself: such a program asks for
`G[T]`, `G[G[T]@T]` and so on, and nothing in the compiler ends it. A program that was loaded or refused has no next step, hence no deadlock check.

| Run | Shows |
|---|---|
| `module_loader` | every file is read and every module generated once, whatever the cycles; the Console's stack follows the recursion; a program is refused only for a cause in its text or a cycle; calls of complete modules get the function they name; everything used or mentioned is complete in the end; loading ends |

`FailsForCause` and `CallsTheNamedModule` compare the tables, built up in whatever order the recursion
takes, with what the text of the files says (`Sources`, the files a name can come from, is the least set closed under the
`from` declarations of plain files).

### 2.5 Lexer, Parser, FrontEnd, Instantiator

*Correspondence.* `Lexer` has the fields of the class (`i`, `startIndex`, `tokenQueue`, the status); one step is
one round of the loop of `consumeLine`. A character is itself, a token the stretch of the line it was cut
from. `Parser` is one operator per production of `Parser/*.cpp`, on the state of `ParserContext`: the
current token, the stack of nodes, the flags; `collapse`, `adopt`, `duplicate` and `insertNodeBeginning` are
the operations of those names. A read behind the end of the queue (`doublePeekToken`) gives whatever memory
holds there (`Beyond`). `FrontEnd` puts one behind the other. `Instantiator` is the rewriting of a generic tree, in place,
one identifier after the other.

*Runs.* `front_end` takes all lines of up to five characters over seven alphabets, each made
of the characters that meet in one part of the scanner (words, dots and comments; digits and prefixes; quotes and backslashes;
all punctuation; brackets and backquotes; shifts, comparisons and arrows; two lines with a tab). The classification looks at the half built token, the next character and the one before it,
so four or five characters meet every pair of states and its neighbours. It also takes sentences of the grammar
(`Parser/README.md`): every statement with every kind of term and block below it, chains of three operators, every
declaration and header; each in full and cut off at every place, with six continuations behind the end.
Generic files hold every statement and declaration that can mention a type, extern functions included, with one argument of each kind for two identifiers.

| Run | Shows |
|---|---|
| `front_end` | tokens are the longest matches among the words and operators of the documents, literals mean their text, sentences are accepted, trees bind as the precedences say and contain every name once, nothing behind the end of the queue changes an answer, and an instance is the tree of its text with the types written in |

What `LexesAsMeant` compares with is read from the documents and shares no table with the scanner: the literals of the guide, and every
operator the guide or `Parser/README.md` lists (`documentedOperators`). For floats the two contradict each other: `.234` is "invalid" in
`LanguageGuide.md:176` and a `floatLiteral` in `Parser/README.md:39`; the guide is taken.

The properties name where the code deviates (4, "Front end"), and speak of all other inputs. No deadlock check: a file that is read stops.

### 2.6 Names

*Correspondence.* `root` is the `ModuleDescription` under construction with its maps under their names, the `Library` holds
complete modules. The passes are those of `generateModule`: `registerTypes`, one action per kind of
declaration (`define`, `enumeration`, `global`, `structure`, `function`, `externC`, `use`, `from`), then the bodies. What a name means is
asked of operators translated from `Finder` and `typeDescriptionFromNode`.

*Runs.* `names` takes every row of up to three declarations over forty forms that share a handful of names: three declarations are a meaning, a second one
that may displace it and one that uses it. Two library modules have a function, a
structure, an enum, defines and an alias that collide with them.

| Run | Shows |
|---|---|
| `names` | the first declaration that gives a name a meaning settles it; what is imported means what it means at its source; fields do not overlap; a key of a string literal stands for one text |

### 2.7 WorkingModule

*Correspondence.* `ctx` has the working module and stack of `IRBuilder`, the working generic module of the `Monomorphizer`, and
a log of look-ups. A term is generated by the operator of its function in `Generator/Expression.cpp`, with every push, set, reset and pop where the code has it.

*Runs.* `working_module` takes bodies of one term of depth three or two of depth two, over two modules (one behind the other), two generic
modules, an imported generic, and types behind up to three generic aliases. A term moves the module for its own types and parameters only, so depth three meets each term inside each other.

| Run | Shows |
|---|---|
| `working_module` | each name is looked up in the module its place says, and statements leave the file as the working module, but for terms of the kinds named in `misleads` |

### 2.8 DataFlow and the modules below it

*Correspondence.* `Units` translates the expression and statement handlers that work on values, with
`FunctionBuilder`'s operations (`unitCopy`, `getStructField`, `getIndexedElement`, `passParameter`, `unitListCopy`, ...), `OperandBuilder`,
`UnitBuilder`, `TypeCheck` and `PassParamCheck`: from a tree to entries, with the type descriptions changed on the
way as the code changes them. Every entry is put to `Validator`. `DataFlow` runs the entries over `Memory`, one action per opcode, and decides from an
operand's kind whether it is an address, a value or the address of an address, as
`Translator/GetAndSetLLVM.cpp` does. Integers are unbounded but for bytes, which wrap. A call does to its
parameters what any function of that signature may (`callee`), and remembers what it saw.

`DataMeaning` says from the tree alone which bytes of which object change; its types are those that are
written, and neither `TypeDescription` nor operand occurs in it.

*Runs.* `data_flow` takes 20739 bodies: every assignment (`=`, `<-`, `+=`) of about eighty expressions to about forty places, every local
declaration of fourteen types by any of them, every call with any of them, destructuring, `for` with destructuring, returns, and the pairs of
statements in which the second shows what the first left (a pointer that is then written through, a text made
longer). Twenty-four variables give a local, constant, parameter, `mut` parameter and global of each shape: numbers,
characters, an enum, arrays, arrays of arrays, structures, arrays of structures, the three kinds of pointers, a structure that holds one. Each handler decides by the shape of at most two units.

| Run | Shows |
|---|---|
| `data_flow` | a compiled body leaves every byte as the source says and lets callees see what it passes; what is `const` keeps its bytes; no internal error answers a body |

Every shape of source that fails is an operator of the second half of `DataMeaning` with the line that makes it fail; what is said is said of
all bodies without a slip, which are most of those that compile (2171 of 2667). A slip is told by the source alone, so that
it excuses nothing else. No deadlock check: a body that was refused or run stops.

### 2.9 References, SharedLists, Arrays, Strings, Collections

*Correspondence.* In `SharedLists` a variable has the fields of `struct List`: `fields[v]` is its address, capacity and
length, and its counter is the object that `Ownership`'s `owner[v]` names. A statement is a row of steps in
`doing`: the retain, release and store that `unitCopy` emits, taken one after the other. A method
(`append`, `appendArray`, `setItem`, `pop`, `clear`) is one action on the record it was called on and on the
heap; `expand` may move the block or not, as `realloc` may. Blocks get fresh addresses, and a read or write
outside a live block ends the run in phase `"wild"`. When a list changes its own address, capacity or length while
another variable shares its counter, that variable keeps the old ones: the run goes to `"strayed"` and ends there.

`References` is the promise of `LanguageGuide.md:1680`, collections "are copied by reference", over names
and texts alone; `CopiedByReference` maps a list to the elements it shows.

`Arrays`, `Strings` and the first half of `Collections` translate the methods of arrays, strings and dicts to operators. An index is a `ulong` that wraps around at `UMax`, a
String is its characters with the `'\0'` behind them, reading a list behind its end panics. What stands behind them in each module
says what a method means, of texts, sequences and functions, with no index arithmetic of the code.

*Runs.* `collections` starts in one of three ways. (a) `Ownership` alone: three variables, two objects, up to
three pending references; two objects tell confusion of objects, three owners tell counters apart from "shared or
not". (b) Three variables over two counters and three blocks with four slots at most, arrays of
no and of two elements: a list is full, grows, moves, is shared by two others, cloned, and let go in any
order. (c) One call: every text of up to three or four characters over two letters (seven kinds of characters for the
classifying methods) against every other, arrays of up to five places over three items, every row of up to
four calls of a Dict over three keys. A pattern of up to three in a text of up to four can overlap itself, stand at either
end, and be longer; `UMax` is 65535, far above any length that occurs, as 2^64 - 1 is.

| Run | Shows |
|---|---|
| `collections` | counts are exact and nothing owned is freed; a list that does not stray stays inside its block, frees it once and behaves as one list with several names; methods answer what they mean |

`AnswersAsMeant` leaves out the calls of `stringSlip` and `wrapsBelowZero` (findings 21 to 23). Runs stop when a question is answered, a
list strayed or panicked, or every object is freed, hence no deadlock check.

## 3. What is proved

Each proof module proves, for every value of the constants, an inductive invariant (`Inductive`) and
from it the properties the runs check on small instances.

* **OwnershipProofs** (assumes: finitely many variables, and `NoObject` is no object).
  `CountIsExact` alone is not inductive: freeing happens when the counter *was* one, so `Release`
  needs `OnlyLiveIsCounted` to see that nobody else owns the object, and `OnlyLiveIsCounted` needs
  exact counts to see that a freed one is not owned. Together with the types they are inductive. The
  proof moves one variable between the sets `Owners(o)` and uses the cardinality theorems for one
  element more or less. `OwnedIsLive` (no use after free) follows, since an owner counts at least one.
  `FreedForGood` is a property of each step. Since `FunctionBodyProofs` shows that compiled
  code only takes steps of `Ownership`, this is the reason why it is safe.
* **FunctionBodyProofs** (assumes of the constants: locals in an order, without the names `p`, `g`, `callee` and `return`;
  no assignment to the whole of `p`, no copy of the whole of `self`, both of which do break the discipline (finding 2).
  Assumes of the run: `NeverFull`, no counter is one step from its modulus, since a loop that leaks a reference per round
  can go on for as long as it likes). `FollowsDiscipline`, `NoUseAfterFree` and `SurvivorsAlive` for bodies
  of any length, with all statements, any nesting of blocks and any outcome of conditions. The invariant has three parts.
  *Of the table* it says what is local: around each entry stand the others of the statement that emitted it (`Fits`: a copy
  behind its `__beforeCopy__` and `__deconstructor__`, a sweep that goes on to its `ret`); the lemmas about
  `unitCopy` and the sweep, which is a `FlattenSeq`, show it of each statement's row, and `Follows` that rows stay well
  formed wherever they are appended. *Of the labels*: every jump has its label in the table or in what an open block will emit when it closes, so that
  jumps lead to labels, which stand between statements. *Of the run*: every variable owns what it holds, except the target between
  its `__deconstructor__` and its copy, and the locals a sweep has passed; what is on its way to a variable is pending; what was
  called is live and not owned; what is to be returned is kept by something the sweep does not touch. `NoUseAfterFree` alone is far from
  inductive: it holds because the operand of each hook is owned or pending, and because `Ownership`'s own
  invariant, which is taken from `OwnershipProofs`, makes what is owned live. The hypotheses hold of `body_straight`,
  whose constants exclude the two units and whose bodies are too short to reach a count of 7.
* **FunctionBodyScopes** (assumes of the constants what `FunctionBodyProofs` does, and nothing of the counters).
  `ScopeCheckSuffices` proves `NoHookOnGarbageIfFlat`: whatever branches a body of any length takes, each hook and copy that the source names
  meets initialised memory, and each hook at all when the declarations stand at the top level. The compiler never looks at paths: it
  only checks that a name is in scope where it is written. The invariant says why that is enough. A table *flows* (`Flows`) if each of its
  entries can be given a set of variables that are initialised before it, such that an entry reads only from its own set, hands on what it
  got and what it initialises, and jumps to labels that need no more than it has: a dominance argument without paths. While
  the body is compiled the table flows from the parameters to what is in scope (`Planned`), and a label needs what was in scope where its block began,
  so that closing a block, which forgets the block's own variables, meets every jump to its end. Scopes are numbered, never reused
  and kept in a stack (`Scopes`), without which a name of a closed block could be in scope again. While the body runs, what
  flows to `pc` holds no garbage (`Ruled`). The sweep of a return asks for every local, and only a body
  without nested declarations has them all in scope; that is the gap `body_sweep` shows.
* **FunctionBodyLosses** (assumes what `FunctionBodyProofs` does, `NeverFull` included, and that nothing is assigned to the whole of `self`,
  neither by name nor as the item of a for loop: `unitCopy` does not destroy what `self` held, so a second value leaks by design).
  `FlatBodiesLoseNothing` proves `NothingLostIfFlat` for bodies of any length with any loops, branches and returns. A
  reference is lost where its variable is overwritten without its `__deconstructor__`: by a null initialisation or by the
  copy into a `self`. That *renews* the variable, and the theorem says that no variable is renewed after it was
  filled. In the order of the table this is so because a name is declared once, before anything can name it (`Tidy`, `Settled`). On the
  way back of a loop it is so because no entry that renews stands between a label and a jump to it (`Clear`), which is where `Flat`
  is used: the declaration of a for loop's item is emitted before the loop's label, and all others stand outside. While the body
  runs, a variable that an entry still ahead renews owns nothing (`Spared`), what an assignment overwrites was destroyed (`Emptied`),
  and of each object at most two references are pending, one on its way to the copy that follows and one that is returned (`Balanced`); it uses the invariants of
  `FunctionBodyProofs` and `FunctionBodyScopes`. `StraightBodiesLoseNothing` draws the conclusion that `body_straight` checks:
  without blocks every body is flat, and `NothingLost` holds as it stands.
* **ListBufferProofs** (assumes: the appended arrays are sequences of values). Types, `Fits`,
  `InBounds` and `Initialised` (every element was written; the run leaves this to `ImplementsListSpec`) together, for any length and either kind of `memcpy`: even the smearing copy stays
  inside the block and leaves values, no junk. `ListIsSequence` proves `ImplementsListSpec` where memcpy copes with
  overlap (`OverlapSafe`, as in the run): one lemma per method says that the block's first `length` slots change as the
  sequence of `ListSpec` does; the loops of the code are folded into one assignment in the model, so no induction is
  needed. `OnlyTailMovesDeviate` drops `OverlapSafe`: every step but a `remove` or an `insert` is still one of `ListSpec`.
* **SharedListsProofs** (assumes, besides what `OwnershipProofs` does: the arrays that lists are made of are sequences). Any number of variables, lists,
  counters and blocks. `SharedSafely` speaks of a moment between two statements and of phase `"running"`; neither it nor the
  discipline's invariant is inductive in the middle of a statement, where `__beforeCopy__` has counted a reference that no
  variable holds yet. The invariant therefore says which rows of steps `doing` may hold (`Statement`), which reference is
  pending in each, and that *the variables together with the row* hold only live counters and blocks, one block to a counter
  and one counter to a block, and all live blocks (`Memory`). A method that moves a block keeps `Memory` only
  if no other variable holds its counter; otherwise the list strays, which ends the run. A list with capacity 0 is the one way to
  phase `"wild"` (finding 20). `KeepsToDiscipline` is the refinement of `Ownership`, step by step, and brings
  `CountIsExact` and `OwnedIsLive` to shared lists.
  `SharedByReference` is the refinement of `References`: what each method does to the elements its own list shows;
  that the variables sharing the counter show the same, because a list that went on with another address, capacity or length
  would have strayed; that all others show what they did, since `Memory` gives them other blocks; and that the
  steps inside a statement show nothing before the `store`.
* **TranslatorProofs** (assumes: tables are sequences of entries). For every icode table without
  dead code every block ends with its only terminator. The invariant says of each block, in each
  phase, whether it is still open (the current one), sealed, or waits for exactly one queued jump that
  points at it, and that no two queued jumps point at one block; `NoDeadCode` is what
  makes the entry after a jump a label or another (skipped) goto. That the generator's tables are
  free of dead code is what `execution` checks (`CleanTables`). `EveryBranchHasItsFlag`: the queue of flags and the queue of jumps
  meet only by their order, so the invariant (`Flags`) has an increasing map from the flags left to the conditional jumps left,
  onto them, whose block ends with the compare that made the flag; between a compare and its jump there is one
  flag more (`Awaited`). It needs the first invariant, which keeps a block that waits for its jump from being written to.
* **ModuleLoaderProofs** (assumes: programs are typed as the parser and the type checker leave them, the root is not
  generic, type parameters occur in generic files only). `GeneratedOnce`, `ConsoleFollows` and
  `TypeOK` for any files, any cycles and any chain of instances, also one without end. `GeneratedOnce`
  is not inductive: that a module about to be entered is not among the frames needs every frame to be
  registered; that its file was not read needs the names of plain files, generic files and
  instances kept apart (`Named`); and the `use` prepended to an instance loads nothing only
  because its argument's module is registered (`Framed`). The step proof has one lemma per action over three kinds
  of steps: go on, enter, leave.
  `LoadedIsClosed`, `FailsForCause` and `CallsTheNamedModule` follow from a second invariant (`Told`): a
  frame's tables hold what the items before its position declare and nothing else (`Accounts`), what any module offers has
  a source in its text (`Offers`), and a finished module has done every item (`Through`). `FailsForCause` is itself a part of it, since
  the cause is one of the step that fails. It needs the first invariant: a module that is entered has no
  tables yet, and the frame below waits behind the item that entered it.
  The attempt showed two faults of the model, which TLC confirmed on programs the runs did not have: a call through the alias of a
  generic file is an error (`Expression.cpp`), and an import from a generic file gives nothing of
  what that file imports. The run has such programs now.

Model-checked only: everything about `Execution`, the front end, `Names`, `WorkingModule` and `DataFlow`; `AnswersAsMeant`; liveness.
Recursive definitions over syntax trees (`CodeGen`, `SourceMeaning`, `Parser`, `Instantiator`, `WorkingModule`, `Units`, `DataMeaning`) are out of the prover's reach, and
so is liveness under fairness.

## 4. Findings

`body_sweep` is a violation run; `PROJECT.json` quotes the sentence it contradicts. The others are stated as
properties or exceptions of the modules, and have no run of their own.

**Functions and hooks**

1. A return destroys locals that were declared in blocks that were never entered (`body_sweep`; `NoHookOnGarbage`).
2. Assigning to a whole `mut` parameter copies without the hooks (`FunctionBuilder.cpp:208`; `SurvivorsAlive` with `ParamStores`).
   Copying the whole of a variable named `self` does not retain what the target will release (`:729`; `SurvivorsAlive` fails
   with `Whole("self")` in `Readable`: after `g = self` twice the global dangles); as a constructor's return value it balances.
3. `continue` in a `do` loop starts the next round without testing the condition (`Statement.cpp:74`, against
   `LanguageGuide.md:904`; `InStep`).
4. A statement behind `break` or `continue` gives its LLVM block two terminators, and the jump of the
   dead code replaces the `break` (`Branch.cpp:28`; `OneTerminator`).

**Modules and names**

5. In a cycle of files, `alias::f()` calls the `f` of the calling file when the file behind the alias has not
   declared its functions yet (`Finder.cpp:214`, against `LanguageGuide.md:2130`; `QualifiedCall`).
6. A generic module that instantiates itself with its own type is instantiated without end (`Generic.cpp:50`).
7. `from "f" use x` before `use "f" as a` is refused as a duplicate import, the other order is not; an instance whose argument
   comes from a module that the generic file uses itself is refused for the same reason. `FailsForCause` accepts both as causes.
8. Of a function the file declares and one it imports, both are kept, and which one is called depends on the
   kind (`ModuleBuilder.cpp:417`, against `LanguageGuide.md:2130`; `NameConflictIsReported`).
9. An array pointer to a structure that is not complete has elements of width 0, so `p[1]` is `p[0]`
   (`ModuleBuilder.cpp:85`, `FunctionBuilder.cpp:423`, against `LanguageGuide.md:311`; `ElementWidthIsSize`).
10. The working module is left behind, or not set back for parameters, by the five terms that `misleads` in
    `WorkingModule` names; `TypeDescriptionFromNode.cpp:69` and `:109` make the next plain call of a file fail (`RefusedOnItsOwn`).
    Of two aliases in front of a generic structure the last one counts, and only the third is refused (`:66`); the counter also counts
    the parameters of a function, so that `fn f(a: int) -> g::List[int]` is refused, and `fn f() -> g::List[int]` is not.
11. `fn __deconstructor__(self: int)` passes the check of deconstructors and ends in an exception (`ModuleBuilder.cpp:244`);
    two parameters may have one name; `mangleModuleName` maps `a/b` and `a_b` to one name.

**Front end**

12. `%=`, `<<=` and `>>=` (`LanguageGuide.md:497`), `||` and `&&` (`Parser/README.md:23`) are cut in two, since the scanner has no such
    operators (`Lexer.cpp:110`-`201`; `unknownOperators`). A float that begins with its dot is cut behind the dot, as the guide has it
    and against `Parser/README.md:39` and `floatRegex` (`Lexer.cpp:7`), which such a text never reaches (`:331`).
    A word that touches a `#` is lost (`Lexer.cpp:309`); a keyword before a dot becomes an identifier (`:280`); a string whose last
    character is an escaped backslash does not end (`:220`); `'\''` is refused; decimal integers with a leading zero are read as octal (`Token.cpp:129`).
13. `a[i] = b[(j + 1)]` is refused, since `matchedBracketPeek` takes the parenthesis for a generic call's (`Lexer.cpp:394`,
    against `Parser/README.md:114`; `AcceptsGrammar`).
14. Declarations in the arms of an `if` and in a `for each` are not instantiated (`Instantiator.cpp:181`, against
    `LanguageGuide.md:2409`; `DeclarationsAreInstantiated`); an `externC` function is not instantiated at all (`:237`);
    the loop over the parameters of an `extfn` without result and library name reads behind its children (`:225`; `isUndefined`);
    a cast drops the modifiers of the argument (`:113`); an argument named like a
    later identifier is substituted twice (`:106`).

**Values**

15. A cast to its own type returns a `mut` unit of a constant, so a constant can be modified (`FunctionBuilder.cpp:49`, against
    `LanguageGuide.md:435`; `CastToItsOwnType`).
16. `z := "ab"` and then `z = "abcd"` write behind `z` (`Local.cpp:38`); a list is as wide as its first text (`TypeCheck.cpp:46`).
17. A value is read after a call to its right has changed it (`FunctionBuilder.cpp:249`); a list is copied into a target
    that it reads (`:181`); an array made of an array pointer gets one element (`Assignment.cpp:38`).
18. The other slips in `DataMeaning` and the three causes in `NoInternalError`, each at its line.

**Standard library**

19. `List.remove` and `List.insert` use `memcpy` on overlapping ranges (2.2).
20. A list that grows while another variable shares it leaves that variable with the address of a block that
    `realloc` may have freed (`List.shtk:74`, against `LanguageGuide.md:1680`; `CopiesStayLive` without the condition on `phase`).
    A list with no room at all doubles its capacity to nothing (`:81`), and `append` on a list of elements with
    hooks calls `__deconstructor__` on a slot that was never written (`:190`).
21. Sorting an empty array reads far outside it, since `n - 1` wraps around (`ArrayUtils.shtk:42`); so does `binarySearch` for an
    item below all others (`:57`, `:68`).
22. `x in s` panics when `x` is longer than `s` (`String.shtk:241`), and `replace` of an empty text never ends (`:306`).
23. `""`, `"-"` and `"."` are numbers (`String.shtk:112`, `:126`); the terminator can be read and overwritten as the character
    behind the last (`:46`, `:51`).
24. `input` drops the last character it read, and on an empty line makes a list of length 0, whose text has the length 2^64 - 1
    (`Input.shtk:38`).

## 5. Not modelled, and why

*I/O and wording*: the driver, the search for module files and the streams of the `Console` (a file under two names shares one
stream, `Console.cpp:105`), pretty printing, the test runner, the wrappers of libc, `Math`, which is libm.

*Values*: operators on numbers other than addition and the unary minus, conversions between widths other than to and
from bytes, comparisons (`Execution` leaves their outcome open, so that neither signedness nor negative truth values are told apart),
format strings and `print`. Their code is a table from operator and type to an LLVM instruction, whose meaning is LLVM's.

*Elements with hooks*: lists and local arrays of managed elements, `make`, stores through a field of a parameter
(`FunctionBody`). What a slot holds before it is written is up to `malloc`, so that most methods of such lists have no
defined outcome to check.

*Modules*: `from` an alias, and imports of symbols other than functions and types in `ModuleLoader` (`Names` has them, for two
complete modules). Text coercion of generic calls in `Units`.

*Faults*: the compiler is one process that keeps nothing between runs and talks to nobody; there are no
crashes, messages or timeouts to model.

## 6. Plan

Done, in the order in which it matters to users of the language: resource management, its heaviest client, control flow
from the source to the blocks, programs of several files, the front end, symbol tables, values and
types down to bytes, and the collections of the standard library.

Left: the other operators on values with their signedness, in `Units` and `DataMeaning`; lists of elements with hooks, once
the slots of a fresh block are given a meaning.

Next theorem: that the lexer loses no character.

## 7. Running

`tlc -config X.cfg M` for each run of `PROJECT.json`; `tlapm M.tla` for `OwnershipProofs`,
`ListBufferProofs`, `TranslatorProofs`, `ModuleLoaderProofs`, `SharedListsProofs`, `FunctionBodyProofs`, `FunctionBodyScopes` and `FunctionBodyLosses`. The longest run takes two to three minutes on two cores.
