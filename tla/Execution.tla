------------------------------ MODULE Execution ------------------------------
(***************************************************************************)
(* A function body on its way through the compiler, and then running: the  *)
(* icode table CodeGen makes of it is translated to LLVM blocks by         *)
(* Translator, step by step, and the blocks are executed with every        *)
(* outcome of every comparison, next to the meaning of the source          *)
(* (SourceMeaning), which must show and ask the same things in the same    *)
(* order.                                                                  *)
(***************************************************************************)
EXTENDS CodeGen, SourceMeaning

CONSTANT Programs        \* the function bodies

VARIABLES
  body,                                      \* the source
  phase, icodeTable, pc, size, blocks, cur, labelToBasicBlockMap,
  prevInstructionGotoOrRet, branchFlags, backpatchQueue,   \* Translator
  at,                    \* the running code: block and instruction
  flag,                  \* the last compare that ran, and its outcome
  todo                   \* what the source still has to do

T == INSTANCE Translator WITH Tables <- {functionCode(p) : p \in Programs}

lowering == <<phase, icodeTable, pc, size, blocks, cur, labelToBasicBlockMap,
              prevInstructionGotoOrRet, branchFlags, backpatchQueue>>
run      == <<at, flag, todo>>
vars     == <<body, lowering, run>>

Init ==
  /\ body \in Programs
  /\ T!Start(functionCode(body))
  /\ at = [block |-> 1, instr |-> 1]
  /\ flag = [tok |-> <<>>, is |-> FALSE]     \* none yet
  /\ todo = Begin(body)

\* LLVM's semantics of the finished function.
Running == phase = "finished"
Code    == blocks[at.block]
Here    == Code[at.instr]
Inside  == at.instr <= Len(Code)
On(op)  == Running /\ Inside /\ Here.op = op

Advance == at' = [at EXCEPT !.instr = @ + 1]
GoTo(b) == at' = [block |-> b, instr |-> 1]

Translate == T!Next /\ UNCHANGED <<body, run>>

DoCall ==
  /\ On("CALL") /\ Advance /\ todo' = Shown(todo)
  /\ UNCHANGED <<body, lowering, flag>>

DoCompare ==
  /\ On("CMP") /\ Advance
  /\ \E v \in BOOLEAN : /\ flag' = [tok |-> Here.arg, is |-> v]
                        /\ todo' = Answered(todo, v)
  /\ UNCHANGED <<body, lowering>>

DoBr ==
  /\ On("br") /\ GoTo(Here.to)
  /\ UNCHANGED <<body, lowering, flag, todo>>

\* A jump that got another compare's flag could go either way.
DoCondBr ==
  /\ On("condbr")
  /\ \E v \in BOOLEAN : /\ Here.flag = flag.tok => v = flag.is
                        /\ GoTo(IF v THEN Here.yes ELSE Here.no)
  /\ UNCHANGED <<body, lowering, flag, todo>>

\* Back in the caller.
Returned == On("ret") /\ UNCHANGED vars

Next == Translate \/ DoCall \/ DoCompare \/ DoBr \/ DoCondBr \/ Returned

Spec     == Init /\ [][Next]_vars
FairSpec == Spec /\ WF_vars(Next)
-----------------------------------------------------------------------------
TypeOK ==
  /\ phase \in {"translate", "backpatch", "finished"} /\ cur \in 1..size
  /\ at.block \in 1..size /\ at.instr \in 1..(Len(Code) + 1)
  /\ flag.is \in BOOLEAN

\* The next thing the code shows, asks or does last is what the source says:
\* conditions short-circuit, every leaf and statement comes in its turn, and
\* the function returns exactly when nothing is left to do.
InStep ==
  Running /\ Inside =>
    CASE Here.op = "CALL" -> IsNext(todo, "show")
                             /\ Here.arg = <<Head(todo).what, Head(todo).tok>>
      [] Here.op = "CMP"  -> IsNext(todo, "ask")
                             /\ Here.arg = Head(todo).of.tok
      [] Here.op = "ret"  -> todo = <<>>
      [] OTHER            -> TRUE

\* The generator hands over tables without dead code, with their compares
\* paired, with one place for every label and a place for every jump's.
CleanTables ==
  /\ T!NoDeadCode(icodeTable)
  /\ T!ComparesArePaired(icodeTable)
  /\ \A i, j \in 1..Len(icodeTable) :
       icodeTable[i].op = "CREATE_LABEL" /\ icodeTable[i] = icodeTable[j] => i = j
  /\ T!TargetsOf(icodeTable) \subseteq T!LabelsOf(icodeTable)

OneTerminator == T!OneTerminator

\* The code never runs in circles without doing anything: from wherever it
\* stands it comes to a call, a comparison or its return.
Visible == Running /\ Inside /\ Here.op \in {"CALL", "CMP", "ret"}
KeepsActing == []<>Visible
=============================================================================
