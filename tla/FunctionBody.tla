----------------------------- MODULE FunctionBody -----------------------------
(***************************************************************************)
(* One ShnooTalk function: its body is compiled statement by statement     *)
(* (Generator/Statement.cpp, Local.cpp, Assignment.cpp, Expression.cpp on  *)
(* top of Builder/FunctionBuilder.cpp) and the generated icode is then     *)
(* executed.                                                               *)
(*                                                                         *)
(* Every variable has the same struct type R, whose one field is a counted *)
(* pointer with the hooks of stdlib/ReferenceCounter.shtk.  The module     *)
(* follows the hook calls the compiler inserts around copies and returns,  *)
(* so the data of R is one object identity per variable, and conditions    *)
(* are nondeterministic at run time.                                       *)
(***************************************************************************)
EXTENDS Integers, Sequences, FiniteSets, SequencesExt, TLC

CONSTANTS
    Local,           \* names a declaration may use; "self" may be one
    LocalOrder,      \* those names in the order of std::map
    Object,          \* objects the heap can hold; when they run out, malloc fails
    CountModulus,    \* 2^w, the width of ReferenceCounter._count
    MaxStatements,   \* bound on the statements of the body
    Forms,           \* the statement forms a body is written with
    Targets,         \* the units its assignments overwrite
    Readable         \* the units its assignments and initialisers copy

ASSUME LocalOrderIsLocal ==
    /\ LocalOrder \in Seq(Local) /\ IsInjective(LocalOrder) /\ ToSet(LocalOrder) = Local
    /\ {"p", "g", "callee", "return"} \cap Local = {}
ASSUME ObjectsAreNoWords == {"nothing", "null", "garbage"} \cap Object = {}
ASSUME CounterHasWidth == CountModulus \in Nat \ {0}

VARIABLES
    phase,           \* "generate", then "run", then how it ended
    isVoid,          \* the function's return type is void
    icode,           \* FunctionDescription.icodeTable
    symbols,         \* locals in FunctionDescription.symbols
    scopeCounter, scopeStack, symbolScope,    \* ScopeTracker
    open,            \* enclosing blocks, innermost last
    labels,          \* labels created so far
    budget,          \* statements that may still be written
    pc,              \* next icode entry to execute
    held,            \* held[v]: what the memory of v contains
    count,           \* count[o]: ReferenceCounter._count of o
    status,          \* status[o]: "unborn", "live" or "freed"
    owner, pending   \* history variables of the discipline in Ownership

genVars == <<isVoid, icode, symbols, scopeCounter, scopeStack, symbolScope,
             open, labels, budget>>
heapVars == <<held, count, status, owner, pending>>
vars == <<phase, pc, genVars, heapVars>>

NoObject == "nothing"
Null     == "null"          \* a pointer that was null-initialised
Garbage  == "garbage"       \* stack memory nothing was written to yet

\* "p" is a mut parameter and aliases the caller's variable, "g" is a global.
Variable == Local \cup {"p", "g"}
\* "callee" is the return value of the last call, "return" this function's.
Storage == Variable \cup {"callee", "return"}

(***************************************************************************)
(* Units: a whole variable, or its counted field.                          *)
(***************************************************************************)
Whole(s) == [var |-> s, field |-> FALSE]
Field(s) == [var |-> s, field |-> TRUE]
Unit     == [var : Storage, field : BOOLEAN]

ASSUME SourceNamesVariables ==
    /\ \A u \in Targets : u \in Unit /\ u.var \in Variable
    /\ \A u \in Readable : u \in Unit /\ u.var \in Variable \cup {"callee"}

isLocalOrGlobal(u) == u.var \in Variable

\* A field of a parameter is IS_LOCAL but not IS_PARAM (getStructFieldFromString).
isLocalOrGlobalAndNotParam(u) == isLocalOrGlobal(u) /\ u # Whole("p")

\* A field is not named "self", whatever it is a field of.
shouldCallResourceMgmtHook(u) == u # Whole("self")

(***************************************************************************)
(* icode entries.                                                          *)
(***************************************************************************)
NullInit(s)    == [op |-> "nullInit", unit |-> Whole(s)]
Call           == [op |-> "call"]
CreateLabel(l) == [op |-> "label", label |-> l]
Goto(l)        == [op |-> "goto", label |-> l]
IfFalseGoto(l) == [op |-> "ifFalseGoto", label |-> l]
Ret            == [op |-> "ret"]

callResourceMgmtHook(u, hook, sweep) ==
    IF shouldCallResourceMgmtHook(u)
    THEN <<[op |-> hook, unit |-> u, sweep |-> sweep]>>
    ELSE <<>>

\* Mutant: the value a return copies is not retained.
retains_NotOnReturn(dest, src) == isLocalOrGlobalAndNotParam(dest)

retains(dest, src) ==
    \/ isLocalOrGlobalAndNotParam(dest)
    \/ (dest.var = "return" /\ isLocalOrGlobalAndNotParam(src))

CopyEntry(dest, src, counted) ==
    <<[op |-> "copy", dest |-> dest, src |-> src, counted |-> counted]>>

\* Mutant: the old value is destroyed before the new one is retained.
unitCopy_DestroyFirst(dest, src) ==
    (IF isLocalOrGlobalAndNotParam(dest)
       THEN callResourceMgmtHook(dest, "deconstruct", FALSE) ELSE <<>>)
    \o (IF retains(dest, src) THEN callResourceMgmtHook(src, "beforeCopy", FALSE) ELSE <<>>)
    \o CopyEntry(dest, src, retains(dest, src) /\ shouldCallResourceMgmtHook(src))

\* Mutant: the old value is not destroyed.
unitCopy_KeepOld(dest, src) ==
    (IF retains(dest, src) THEN callResourceMgmtHook(src, "beforeCopy", FALSE) ELSE <<>>)
    \o CopyEntry(dest, src, retains(dest, src) /\ shouldCallResourceMgmtHook(src))

\* Mutant: a call's result is moved, not retained.
unitCopy_MoveResult(dest, src) ==
    (IF isLocalOrGlobalAndNotParam(dest)
       THEN callResourceMgmtHook(dest, "deconstruct", FALSE) ELSE <<>>)
    \o CopyEntry(dest, src, FALSE)

unitCopy(dest, src) ==
    (IF retains(dest, src) THEN callResourceMgmtHook(src, "beforeCopy", FALSE) ELSE <<>>)
    \o (IF isLocalOrGlobalAndNotParam(dest)
          THEN callResourceMgmtHook(dest, "deconstruct", FALSE) ELSE <<>>)
    \o CopyEntry(dest, src, retains(dest, src) /\ shouldCallResourceMgmtHook(src))

\* Mutant: the locals declared further down are destroyed too.
callDeconstructorOnDeclaredSymbols_All ==
    FlattenSeq([i \in DOMAIN LocalOrder |->
                  callResourceMgmtHook(Whole(LocalOrder[i]), "deconstruct", TRUE)])

callDeconstructorOnDeclaredSymbols ==
    FlattenSeq([i \in DOMAIN LocalOrder |->
                  IF LocalOrder[i] \in symbols
                    THEN callResourceMgmtHook(Whole(LocalOrder[i]), "deconstruct", TRUE)
                    ELSE <<>>])

createReturnAndCallDeconstructors == callDeconstructorOnDeclaredSymbols \o <<Ret>>

(***************************************************************************)
(* Blocks.  A block knows the labels break and continue go to, inherited   *)
(* through if blocks, and what closing it emits.                           *)
(***************************************************************************)
Block(kind, inLoop, breakLabel, continueLabel, exits) ==
    [kind |-> kind, inLoop |-> inLoop, breakLabel |-> breakLabel,
     continueLabel |-> continueLabel, exits |-> exits]

FunctionBlock == Block("function", FALSE, 0, 0, <<>>)

Init ==
    /\ phase = "generate"
    /\ isVoid \in BOOLEAN
    /\ icode = <<>>
    /\ symbols = {}
    /\ scopeCounter = 1 /\ scopeStack = <<0, 1>>
    /\ symbolScope = [s \in {"p"} |-> 0]
    /\ open = <<FunctionBlock>>
    /\ labels = 0
    /\ budget = MaxStatements
    /\ pc = 1
    /\ \E o \in Object, g \in {TRUE, FALSE} :
         /\ held = [s \in Storage |-> CASE s = "p" -> o
                                        [] s = "g" -> IF g THEN o ELSE Null
                                        [] OTHER -> Garbage]
         /\ owner = [v \in Variable |-> IF held[v] = o THEN o ELSE NoObject]
         /\ status = [q \in Object |-> IF q = o THEN "live" ELSE "unborn"]
         /\ count = [q \in Object |-> Cardinality({v \in Variable : owner[v] = q})]
    /\ pending = [q \in Object |-> 0]

------------------------------------------------------------------------------
(***************************************************************************)
(* Compilation.  Each action is one statement of the source; one that the  *)
(* generator refuses (Console::compileErrorOnToken) ends the compilation.  *)
(***************************************************************************)
Top == Last(open)

Known(s)   == s \in symbols \cup {"p", "g"}
InScope(s) == s \in DOMAIN symbolScope => symbolScope[s] \in ToSet(scopeStack)
CanRead(u) == u = Whole("callee") \/ (Known(u.var) /\ InScope(u.var))

Evaluate(src) == IF src = Whole("callee") THEN <<Call>> ELSE <<>>

Wholes == {u \in Readable : ~u.field}

Writing(form) == phase = "generate" /\ budget > 0 /\ form \in Forms

Emit(entries) ==
    /\ icode' = icode \o entries
    /\ budget' = budget - 1
    /\ UNCHANGED <<phase, pc, isVoid, heapVars>>

Reject ==
    /\ phase' = "rejected"
    /\ UNCHANGED <<pc, genVars, heapVars>>

\* ScopeTracker::putInCurrentScope and FunctionBuilder::createLocal.
createLocal(s) ==
    /\ symbols' = symbols \cup {s}
    /\ symbolScope' = [v \in DOMAIN symbolScope \cup {s} |->
                        IF v = s THEN Last(scopeStack) ELSE symbolScope[v]]

\* var s: R   and   var s: R = src: the local exists before src is evaluated.
local(s) ==
    /\ Writing("local")
    /\ \/ s \in symbols /\ Reject
       \/ /\ s \notin symbols
          /\ createLocal(s)
          /\ UNCHANGED <<scopeCounter, scopeStack, open, labels>>
          /\ \/ Emit(<<NullInit(s)>>)
             \/ \E src \in Wholes :
                  /\ src = Whole(s) \/ CanRead(src)
                  /\ Emit(<<NullInit(s)>> \o Evaluate(src) \o unitCopy(Whole(s), src))

\* var s := src: src is evaluated before the local exists.
walrusLocal(s, src) ==
    /\ Writing("walrus")
    /\ \/ (~CanRead(src) \/ s \in symbols) /\ Reject
       \/ /\ CanRead(src) /\ s \notin symbols
          /\ createLocal(s)
          /\ Emit(Evaluate(src) \o <<NullInit(s)>> \o unitCopy(Whole(s), src))
          /\ UNCHANGED <<scopeCounter, scopeStack, open, labels>>

assignment(dst, src) ==
    /\ Writing("assign")
    /\ \/ ~(CanRead(dst) /\ CanRead(src)) /\ Reject
       \/ /\ CanRead(dst) /\ CanRead(src)
          /\ Emit(Evaluate(src) \o unitCopy(dst, src))
          /\ UNCHANGED <<symbols, symbolScope, scopeCounter, scopeStack, open, labels>>

functionReturn(src) ==
    /\ Writing("return")
    /\ isVoid => src = Whole("callee")
    /\ \/ ~isVoid /\ ~CanRead(src) /\ Reject
       \/ /\ isVoid \/ CanRead(src)
          /\ Emit((IF isVoid THEN <<>> ELSE Evaluate(src) \o unitCopy(Whole("return"), src))
                     \o createReturnAndCallDeconstructors)
          /\ UNCHANGED <<symbols, symbolScope, scopeCounter, scopeStack, open, labels>>

\* break and continue outside a loop are refused.
breakOrContinue(label) ==
    /\ Writing("break")
    /\ \/ ~Top.inLoop /\ Reject
       \/ /\ Top.inLoop
          /\ Emit(<<Goto(label)>>)
          /\ UNCHANGED <<symbols, symbolScope, scopeCounter, scopeStack, open, labels>>

breakStatement    == breakOrContinue(Top.breakLabel)
continueStatement == breakOrContinue(Top.continueLabel)

\* ScopeTracker::createScope and exitScope around the statements of a block.
EnterBlock(b) ==
    /\ open' = Append(open, b)
    /\ scopeCounter' = scopeCounter + 1
    /\ scopeStack' = Append(scopeStack, scopeCounter + 1)

ifStatement ==
    LET endLabel   == labels + 1
        falseLabel == labels + 2
    IN  /\ Writing("if")
        /\ Emit(<<IfFalseGoto(falseLabel)>>)
        /\ EnterBlock(Block("if", Top.inLoop, Top.breakLabel, Top.continueLabel,
                            <<falseLabel, endLabel>>))
        /\ labels' = labels + 2
        /\ UNCHANGED <<symbols, symbolScope>>

\* The next child of an if node: the previous block jumps to the chain's end.
elseStatement ==
    LET endLabel == Top.exits[2]
    IN  /\ Writing("if") /\ Top.kind = "if"
        /\ Emit(<<Goto(endLabel), CreateLabel(Top.exits[1])>>)
        /\ open' = Append(Front(open), [Top EXCEPT !.kind = "else", !.exits = <<endLabel>>])
        /\ scopeCounter' = scopeCounter + 1
        /\ scopeStack' = Append(Front(scopeStack), scopeCounter + 1)
        /\ UNCHANGED <<symbols, symbolScope, labels>>

\* while (condition tested first), do (tested last) and loop (never tested).
loopStatement(kind) ==
    LET loopLabel  == labels + 1
        breakLabel == labels + 2
    IN  /\ Writing(kind)
        /\ Emit(<<CreateLabel(loopLabel)>>
                \o (IF kind = "while" THEN <<IfFalseGoto(breakLabel)>> ELSE <<>>))
        /\ EnterBlock(Block(kind, TRUE, breakLabel, loopLabel, <<loopLabel, breakLabel>>))
        /\ labels' = labels + 2
        /\ UNCHANGED <<symbols, symbolScope>>

\* Mutant: the item of a for loop is initialised again in each round.
forEachLoop_EachRound(s) ==
    LET loopLabel     == labels + 1
        breakLabel    == labels + 2
        continueLabel == labels + 3
    IN  /\ Writing("forEach")
        /\ \/ s \in symbols /\ Reject
           \/ /\ s \notin symbols
              /\ createLocal(s)
              /\ Emit(<<CreateLabel(loopLabel), NullInit(s), IfFalseGoto(breakLabel), Call>>
                       \o unitCopy(Whole(s), Whole("callee")))
              /\ EnterBlock(Block("forEach", TRUE, breakLabel, continueLabel,
                                  <<continueLabel, loopLabel, breakLabel>>))
              /\ labels' = labels + 3

\* for s in ...: the item is a local of the enclosing block, overwritten by
\* the result of __subscriptItem__ at the top of every round.
forEachLoop(s) ==
    LET loopLabel     == labels + 1
        breakLabel    == labels + 2
        continueLabel == labels + 3
    IN  /\ Writing("forEach")
        /\ \/ s \in symbols /\ Reject
           \/ /\ s \notin symbols
              /\ createLocal(s)
              /\ Emit(<<NullInit(s), CreateLabel(loopLabel), IfFalseGoto(breakLabel), Call>>
                       \o unitCopy(Whole(s), Whole("callee")))
              /\ EnterBlock(Block("forEach", TRUE, breakLabel, continueLabel,
                                  <<continueLabel, loopLabel, breakLabel>>))
              /\ labels' = labels + 3

Closing(b) ==
    CASE b.kind = "if"      -> <<CreateLabel(b.exits[1])>>
      [] b.kind = "else"    -> <<CreateLabel(b.exits[1])>>
      [] b.kind = "forEach" -> <<CreateLabel(b.exits[1]), Goto(b.exits[2]),
                                 CreateLabel(b.exits[3])>>
      [] b.kind = "do"      -> <<IfFalseGoto(b.exits[2]), Goto(b.exits[1]),
                                 CreateLabel(b.exits[2])>>
      [] OTHER              -> <<Goto(b.exits[1]), CreateLabel(b.exits[2])>>

closeBlock ==
    /\ phase = "generate" /\ Len(open) > 1
    /\ icode' = icode \o Closing(Top)
    /\ open' = Front(open)
    /\ scopeStack' = Front(scopeStack)
    /\ UNCHANGED <<phase, pc, isVoid, symbols, symbolScope, scopeCounter, labels,
                   budget, heapVars>>

doesFunctionTerminate == icode # <<>> /\ Last(icode).op = "ret"

\* The end of the body: a void function gets its return, another must have one.
terminateFunction ==
    /\ phase = "generate" /\ Len(open) = 1
    /\ \/ ~doesFunctionTerminate /\ ~isVoid /\ Reject
       \/ /\ doesFunctionTerminate \/ isVoid
          /\ phase' = "run"
          /\ icode' = IF doesFunctionTerminate THEN icode
                      ELSE icode \o createReturnAndCallDeconstructors
          /\ UNCHANGED <<pc, isVoid, symbols, scopeCounter, scopeStack, symbolScope,
                         open, labels, budget, heapVars>>

Compile ==
    \/ \E s \in Local : local(s) \/ forEachLoop(s)
    \/ \E s \in Local, src \in Wholes : walrusLocal(s, src)
    \/ \E dst \in Targets, src \in Readable :
         (src = Whole("callee") \/ src.field = dst.field) /\ assignment(dst, src)
    \/ \E v \in Variable \cup {"callee"} : functionReturn(Whole(v))
    \/ breakStatement \/ continueStatement
    \/ ifStatement \/ elseStatement
    \/ \E kind \in {"while", "do", "loop"} : loopStatement(kind)
    \/ closeBlock
    \/ terminateFunction

------------------------------------------------------------------------------
(***************************************************************************)
(* Execution of the icode.  A hook on memory that holds no value, or on an *)
(* object that is already freed, is undefined behaviour and ends the run.  *)
(***************************************************************************)
Running(op) == phase = "run" /\ icode[pc].op = op
Entry == icode[pc]

Step == pc' = pc + 1 /\ UNCHANGED <<phase, genVars>>

Stop(how) == phase' = how /\ UNCHANGED <<pc, genVars, heapVars>>

\* What v owned, if anything, is no longer owned by any variable.
Forget(v) ==
    [q \in Object |-> pending[q] + (IF owner[v] = q THEN 1 ELSE 0)]

\* ensurePointersNullInitializer at the declaration.
ExecNullInit ==
    LET v == Entry.unit.var
    IN  /\ Running("nullInit")
        /\ held' = [held EXCEPT ![v] = Null]
        /\ pending' = Forget(v)
        /\ owner' = [owner EXCEPT ![v] = NoObject]
        /\ Step /\ UNCHANGED <<count, status>>

\* ReferenceCounter.__beforeCopy__
ExecBeforeCopy ==
    LET o == held[Entry.unit.var]
    IN  /\ Running("beforeCopy")
        /\ \/ o = Null /\ Step /\ UNCHANGED heapVars
           \/ o = Garbage /\ Stop("uninitialisedUse")
           \/ o \in Object /\ status[o] = "freed" /\ Stop("useAfterFree")
           \/ /\ o \in Object /\ status[o] = "live"
              /\ count' = [count EXCEPT ![o] = (@ + 1) % CountModulus]
              /\ pending' = [pending EXCEPT ![o] = @ + 1]
              /\ Step /\ UNCHANGED <<held, status, owner>>

\* ReferenceCounter.__deconstructor__ and, as in List, isZero.
ExecDeconstruct ==
    LET v == Entry.unit.var
        o == held[v]
        left == (count[o] + CountModulus - 1) % CountModulus
    IN  /\ Running("deconstruct")
        /\ \/ o = Null /\ Step /\ UNCHANGED heapVars
           \/ /\ o = Garbage
              /\ Stop(IF Entry.sweep THEN "uninitialisedSweep" ELSE "uninitialisedUse")
           \/ o \in Object /\ status[o] = "freed" /\ Stop("useAfterFree")
           \/ /\ o \in Object /\ status[o] = "live"
              /\ count' = [count EXCEPT ![o] = left]
              /\ status' = IF left = 0 THEN [status EXCEPT ![o] = "freed"] ELSE status
              /\ owner' = [owner EXCEPT ![v] = NoObject]
              /\ Step /\ UNCHANGED <<held, pending>>

ExecCopy ==
    LET d == Entry.dest.var
        o == held[Entry.src.var]
        arrives == Entry.counted /\ o \in Object /\ d \in Variable
    IN  /\ Running("copy")
        /\ held' = [held EXCEPT ![d] = o]
        /\ IF d \in Variable
             THEN /\ owner' = [owner EXCEPT ![d] = IF arrives THEN o ELSE NoObject]
                  /\ pending' = [q \in Object |-> Forget(d)[q]
                                     - (IF arrives /\ q = o THEN 1 ELSE 0)]
             ELSE UNCHANGED <<owner, pending>>
        /\ Step /\ UNCHANGED <<count, status>>

\* A call returns a new object, counted zero times (createCounter); when the
\* heap is exhausted malloc panics (RawPointerUtils.shtk).
ExecCall ==
    /\ Running("call")
    /\ \/ /\ \A o \in Object : status[o] # "unborn"
          /\ Stop("panicked")
       \/ \E o \in Object :
            /\ status[o] = "unborn"
            /\ status' = [status EXCEPT ![o] = "live"]
            /\ held' = [held EXCEPT !["callee"] = o]
            /\ Step /\ UNCHANGED <<count, owner, pending>>

JumpTo(l) ==
    /\ pc' = CHOOSE i \in DOMAIN icode : icode[i] = CreateLabel(l)
    /\ UNCHANGED <<phase, genVars, heapVars>>

ExecJump ==
    \/ Running("label") /\ Step /\ UNCHANGED heapVars
    \/ Running("goto") /\ JumpTo(Entry.label)
    \/ Running("ifFalseGoto") /\ JumpTo(Entry.label)
    \/ Running("ifFalseGoto") /\ Step /\ UNCHANGED heapVars

ExecRet == Running("ret") /\ Stop("returned")

Execute ==
    \/ ExecNullInit \/ ExecBeforeCopy \/ ExecDeconstruct \/ ExecCopy
    \/ ExecCall \/ ExecJump \/ ExecRet

Next == Compile \/ Execute

Spec == Init /\ [][Next]_vars

------------------------------------------------------------------------------

TypeOK ==
    /\ phase \in {"generate", "rejected", "run", "returned", "panicked",
                  "useAfterFree", "uninitialisedUse", "uninitialisedSweep"}
    /\ symbols \subseteq Local
    /\ phase = "run" => pc \in DOMAIN icode
    /\ held \in [Storage -> Object \cup {Null, Garbage}]
    /\ count \in [Object -> 0..(CountModulus - 1)]
    /\ status \in [Object -> {"unborn", "live", "freed"}]
    /\ owner \in [Variable -> Object \cup {NoObject}]
    /\ pending \in [Object -> Nat]

(***************************************************************************)
(* The hooks the compiler inserts never touch an object that was freed:    *)
(* no ordering of beforeCopy, deconstruct and copy, no self assignment and *)
(* no return drops a reference somebody still uses.                        *)
(***************************************************************************)
NoUseAfterFree == phase # "useAfterFree"

(***************************************************************************)
(* When the function has returned, the caller's variable, the global and   *)
(* the returned value are not dangling.                                    *)
(***************************************************************************)
SurvivorsAlive ==
    phase = "returned" =>
        \A s \in {"p", "g", "return"} :
            held[s] \in Object => status[held[s]] = "live"

(***************************************************************************)
(* The scope check of UnitFromIdentifier.cpp is enough for every name the  *)
(* source mentions: a statement that reads or overwrites a local runs only *)
(* after that local's null initialisation, whatever the branches taken.    *)
(***************************************************************************)
NamedIsInitialised == phase # "uninitialisedUse"

(***************************************************************************)
(* No hook at all runs on a variable whose declaration has not run.        *)
(***************************************************************************)
NoHookOnGarbage == phase \notin {"uninitialisedUse", "uninitialisedSweep"}

\* Every declaration stands in the outermost block of the function.
Flat == \A s \in symbols : symbolScope[s] = 1

(***************************************************************************)
(* What the source mentions is always initialised; and when no declaration *)
(* stands in a branch or a loop, a return in the middle of a body destroys *)
(* exactly the locals declared before it.                                  *)
(***************************************************************************)
NoHookOnGarbageIfFlat == NamedIsInitialised /\ (Flat => NoHookOnGarbage)

Copying == phase = "run" /\ pc > 1 /\ icode[pc - 1].op \in {"beforeCopy", "deconstruct"}

(***************************************************************************)
(* A reference that was retained reaches its variable, and leaves it only  *)
(* through __deconstructor__; the one exception the code makes on purpose  *)
(* is the copy into the return value.  Outside a copy nothing is pending.  *)
(***************************************************************************)
NothingLost ==
    \/ Copying
    \/ \A o \in Object :
         pending[o] <= IF ~isVoid /\ held["return"] = o THEN 1 ELSE 0

(***************************************************************************)
(* Nor do branches and loops lose a reference when the declarations stand  *)
(* at the top level: a null initialisation then finds its variable empty,  *)
(* and every round of a for loop destroys the item of the round before.    *)
(***************************************************************************)
NothingLostIfFlat == Flat => NothingLost

(***************************************************************************)
(* Every step of the compiled function, hook by hook, is a step of the     *)
(* reference counting discipline.                                          *)
(***************************************************************************)
Discipline == INSTANCE Ownership
FollowsDiscipline == Discipline!Spec

==============================================================================
