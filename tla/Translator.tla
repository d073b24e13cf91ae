----------------------------- MODULE Translator -----------------------------
(***************************************************************************)
(* The control flow half of the back end: how Translator/Branch.cpp and    *)
(* Translator/GenerateFunction.cpp turn the flat icode table of one        *)
(* function (compares, labels, conditional and unconditional jumps, calls, *)
(* returns) into LLVM basic blocks.                                        *)
(*                                                                         *)
(* The translation has two passes.  The first walks over the table and     *)
(* appends instructions to the block the builder points at; a jump may     *)
(* lead to a label that has no block yet, so it is only queued, together   *)
(* with the place where it belongs.  The second pass takes the queue in    *)
(* order and inserts the jumps.  A compare does not store its result       *)
(* anywhere: it is pushed on a FIFO of flags, and the second pass gives    *)
(* each conditional jump the flag at the front.                            *)
(*                                                                         *)
(* Instructions other than jumps and compares only matter here as something *)
(* that stands in a block; an operand is kept where a property needs it.   *)
(***************************************************************************)
EXTENDS Naturals, Sequences, Icode

CONSTANT Tables      \* the icode tables to translate

ASSUME TablesAssumption ==
  \A t \in Tables : /\ t \in Seq({t[i] : i \in DOMAIN t})
                    /\ \A i \in 1..Len(t) : t[i].op \in Opcodes

VARIABLES
  phase,                      \* "translate", "backpatch", "finished"
  icodeTable,                 \* functionDesc.icodeTable
  pc,                         \* the entry (then: the queued jump) that comes next
  size,                       \* number of basic blocks of the LLVM function
  blocks,                     \* what each block holds so far
  cur,                        \* builder->GetInsertBlock()
  labelToBasicBlockMap,       \* BranchContext, the fields of the same names
  prevInstructionGotoOrRet,
  branchFlags,
  backpatchQueue              \* with each jump: insertionPoints, fallBlocks

tvars == <<phase, icodeTable, pc, size, blocks, cur, labelToBasicBlockMap,
           prevInstructionGotoOrRet, branchFlags, backpatchQueue>>

(* LLVM instructions.  A terminator ends its block. *)
Terminators == {"br", "condbr", "ret"}
Do(e)             == [op |-> e.op, arg |-> e.arg]
Ret               == [op |-> "ret"]
Br(b)             == [op |-> "br", to |-> b]
CondBr(f, yes, no) == [op |-> "condbr", flag |-> f, yes |-> yes, no |-> no]

-----------------------------------------------------------------------------
(* generateFunction: a fresh BranchContext and the block "entry".  clear()  *)
(* does not touch branchFlags; it is empty because the second pass of the   *)
(* function before has used up every flag.                                  *)
Start(table) ==
  /\ phase = "translate" /\ icodeTable = table /\ pc = 1
  /\ size = 1 /\ blocks = [b \in 1..1 |-> <<>>] /\ cur = 1
  /\ labelToBasicBlockMap = [l \in {} |-> 1]
  /\ prevInstructionGotoOrRet = FALSE
  /\ branchFlags = <<>> /\ backpatchQueue = <<>>

Init == \E table \in Tables : Start(table)

\* The blocks with i appended to block b.
With(b, i) == [blocks EXCEPT ![b] = Append(@, i)]

\* BasicBlock::Create: one more, empty, block.
Grow(bs) == [b \in 1..(size + 1) |-> IF b = size + 1 THEN <<>> ELSE bs[b]]

Here == icodeTable[pc]

(* What every entry of the table ends with (translateFunctionIcode). *)
Advance ==
  /\ phase = "translate" /\ pc <= Len(icodeTable)
  /\ pc' = pc + 1
  /\ prevInstructionGotoOrRet' = (Here.op \in {"GOTO", "RET"})
  /\ UNCHANGED <<phase, icodeTable>>

\* Mutant: the newest flag goes to the front.
ordinary_Stack ==
  /\ Advance /\ Here.op \in Plain
  /\ blocks' = With(cur, Do(Here))
  /\ branchFlags' = IF Here.op = "CMP" THEN <<Here.arg>> \o branchFlags ELSE branchFlags
  /\ UNCHANGED <<size, cur, labelToBasicBlockMap, backpatchQueue>>

ordinary ==
  /\ Advance /\ Here.op \in Plain
  /\ blocks' = With(cur, Do(Here))
  /\ branchFlags' = IF Here.op = "CMP" THEN Append(branchFlags, Here.arg) ELSE branchFlags
  /\ UNCHANGED <<size, cur, labelToBasicBlockMap, backpatchQueue>>

ret ==
  /\ Advance /\ Here.op = "RET"
  /\ blocks' = With(cur, Ret)
  /\ UNCHANGED <<size, cur, labelToBasicBlockMap, branchFlags, backpatchQueue>>

\* Mutants of createLabel: one that gives every block a branch into the new
\* one, and one that creates the block without adding it to the function.
createLabel_AlwaysFalls ==
  /\ Advance /\ Here.op = "CREATE_LABEL"
  /\ size' = size + 1 /\ cur' = size + 1
  /\ blocks' = Grow(With(cur, Br(size + 1)))
  /\ labelToBasicBlockMap' = [l \in DOMAIN labelToBasicBlockMap \cup {Here.arg} |->
                                IF l = Here.arg THEN size + 1 ELSE labelToBasicBlockMap[l]]
  /\ UNCHANGED <<branchFlags, backpatchQueue>>

\* The block so far falls into the new one, unless it already jumps or returns.
createLabel ==
  /\ Advance /\ Here.op = "CREATE_LABEL"
  /\ size' = size + 1 /\ cur' = size + 1
  /\ blocks' = Grow(IF prevInstructionGotoOrRet THEN blocks ELSE With(cur, Br(size + 1)))
  /\ labelToBasicBlockMap' = [l \in DOMAIN labelToBasicBlockMap \cup {Here.arg} |->
                                IF l = Here.arg THEN size + 1 ELSE labelToBasicBlockMap[l]]
  /\ UNCHANGED <<branchFlags, backpatchQueue>>

\* The insertion point is the end of the current block: whatever is appended
\* to that block before the second pass will stand before the jump.
Queued(fall) == Append(backpatchQueue, [op |-> Here.op, arg |-> Here.arg,
                                        point |-> cur, fall |-> fall])

createGotoBackpatch ==
  /\ Advance /\ Here.op \in Jump
  /\ \/ prevInstructionGotoOrRet
        /\ UNCHANGED <<size, cur, blocks, backpatchQueue>>
     \/ ~prevInstructionGotoOrRet /\ Here.op = "GOTO"
        /\ backpatchQueue' = Queued(0)
        /\ UNCHANGED <<size, cur, blocks>>
     \/ ~prevInstructionGotoOrRet /\ Here.op \in Conditional
        /\ size' = size + 1 /\ cur' = size + 1
        /\ blocks' = Grow(blocks)
        /\ backpatchQueue' = Queued(size + 1)
  /\ UNCHANGED <<labelToBasicBlockMap, branchFlags>>

translated ==
  /\ phase = "translate" /\ pc = Len(icodeTable) + 1
  /\ phase' = "backpatch" /\ pc' = 1
  /\ UNCHANGED <<icodeTable, size, blocks, cur, labelToBasicBlockMap,
                 prevInstructionGotoOrRet, branchFlags, backpatchQueue>>

(* createBranch of Branch.cpp: the LLVM terminator of a queued jump. *)
Branch(j, flag, to) ==
  CASE j.op = "GOTO"          -> Br(to)
    [] j.op = "IF_TRUE_GOTO"  -> CondBr(flag, to, j.fall)
    [] j.op = "IF_FALSE_GOTO" -> CondBr(flag, j.fall, to)

\* labelToBasicBlockMap.at throws for a label without a block: no step then.
processGotoBackpatch ==
  /\ phase = "backpatch" /\ pc <= Len(backpatchQueue)
  /\ LET j    == backpatchQueue[pc]
         cond == j.op \in Conditional
     IN  /\ j.arg \in DOMAIN labelToBasicBlockMap
         /\ cond => branchFlags # <<>>
         /\ blocks' = With(j.point, Branch(j, IF cond THEN Head(branchFlags) ELSE 0,
                                           labelToBasicBlockMap[j.arg]))
         /\ branchFlags' = IF cond THEN Tail(branchFlags) ELSE branchFlags
  /\ pc' = pc + 1
  /\ UNCHANGED <<phase, icodeTable, size, cur, labelToBasicBlockMap,
                 prevInstructionGotoOrRet, backpatchQueue>>

finish ==
  /\ phase = "backpatch" /\ pc = Len(backpatchQueue) + 1
  /\ phase' = "finished"
  /\ UNCHANGED <<icodeTable, pc, size, blocks, cur, labelToBasicBlockMap,
                 prevInstructionGotoOrRet, branchFlags, backpatchQueue>>

Next == \/ ordinary \/ ret \/ createLabel \/ createGotoBackpatch \/ translated
        \/ processGotoBackpatch \/ finish

Spec == Init /\ [][Next]_tvars
-----------------------------------------------------------------------------
(* What the generator has to hand over for the translation to be right.     *)

\* Behind a jump or a return, up to the next label, there are only gotos
\* (which the translator skips), and the function ends with a return.
NoDeadCode(table) ==
  /\ Len(table) > 0 /\ table[Len(table)].op = "RET"
  /\ \A i \in 1..(Len(table) - 1) :
       table[i].op \in {"GOTO", "RET"} => table[i + 1].op \in {"CREATE_LABEL", "GOTO"}

\* A conditional jump stands right behind a compare, and every compare is
\* there for the jump behind it.
ComparesArePaired(table) ==
  \A i \in 1..Len(table) :
    /\ table[i].op \in Conditional => i > 1 /\ table[i - 1].op = "CMP"
    /\ table[i].op = "CMP" => i < Len(table) /\ table[i + 1].op \in Conditional

LabelsOf(table) == {table[i].arg : i \in {k \in 1..Len(table) : table[k].op = "CREATE_LABEL"}}
TargetsOf(table) == {table[i].arg : i \in {k \in 1..Len(table) : table[k].op \in Jump}}
-----------------------------------------------------------------------------
TypeOK ==
  /\ phase \in {"translate", "backpatch", "finished"}
  /\ pc \in Nat /\ size \in Nat \ {0} /\ cur \in 1..size
  /\ DOMAIN blocks = 1..size
  /\ prevInstructionGotoOrRet \in BOOLEAN
  /\ \A l \in DOMAIN labelToBasicBlockMap : labelToBasicBlockMap[l] \in 1..size
  /\ \A q \in 1..Len(backpatchQueue) : backpatchQueue[q].point \in 1..size

\* A block that is sealed ends with its only terminator.
Sealed(code) == /\ Len(code) > 0 /\ code[Len(code)].op \in Terminators
                /\ \A i \in 1..(Len(code) - 1) : code[i].op \notin Terminators

\* LLVM accepts the function only if every block ends with a terminator and
\* holds no other: createLabel and createGotoBackpatch track the last
\* instruction for this ("Make sure old block has a terminator", "To prevent
\* duplicate block terminators"), the result of verifyFunction is ignored.
OneTerminator == phase = "finished" => \A b \in 1..size : Sealed(blocks[b])

\* The same for tables without dead code.
OneTerminatorIfClean == NoDeadCode(icodeTable) => OneTerminator

\* The FIFO hands each conditional jump the flag of the compare that stands
\* right before it in its block, and none is left over for the next function
\* (BranchContext::clear does not empty the FIFO).
OwnFlag ==
  /\ phase = "finished" => branchFlags = <<>>
  /\ \A b \in 1..size : \A i \in 1..Len(blocks[b]) :
       blocks[b][i].op = "condbr" =>
         /\ i > 1 /\ blocks[b][i - 1].op = "CMP"
         /\ blocks[b][i].flag = blocks[b][i - 1].arg

\* The same for tables without dead code whose compares are paired.
OwnFlagIfClean == NoDeadCode(icodeTable) /\ ComparesArePaired(icodeTable) => OwnFlag
=============================================================================
