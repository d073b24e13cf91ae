--------------------------- MODULE TranslatorProofs ---------------------------
(***************************************************************************)
(* Translator.tla, for every set of icode tables: a table without dead     *)
(* code is translated to blocks that each end with their only terminator.  *)
(*                                                                         *)
(* The argument: while the table is read, only the block the builder       *)
(* points at is open, and that only if the last entry was no goto and no   *)
(* return.  Every other block is closed: either it ends with its           *)
(* terminator already and no queued jump belongs to it, or it has no       *)
(* terminator and exactly one queued jump belongs to it.  In a table       *)
(* without dead code nothing is ever appended to a closed block, so the    *)
(* second pass closes each of the latter with its jump.                    *)
(*                                                                         *)
(* And, where compares are paired with jumps, each conditional branch      *)
(* tests the compare right before it: the flags in their queue are at all  *)
(* times those of the conditional jumps that are still queued, in the same *)
(* order, except that the flag of a compare is there one entry before its  *)
(* jump is.                                                                *)
(***************************************************************************)
EXTENDS Translator, TLAPS

Args == UNION {{t[i].arg : i \in 1..Len(t)} : t \in Tables}

Instructions ==
  [op : Plain, arg : Args] \cup [op : {"ret"}] \cup [op : {"br"}, to : Nat]
  \cup [op : {"condbr"}, flag : Args, yes : Nat, no : Nat]

Queue == [op : Jump, arg : Args, point : Nat, fall : Nat]

Types ==
  /\ phase \in {"translate", "backpatch", "finished"}
  /\ icodeTable \in Tables
  /\ pc \in Nat \ {0} /\ size \in Nat \ {0} /\ cur \in 1..size
  /\ blocks \in [1..size -> Seq(Instructions)]
  /\ prevInstructionGotoOrRet \in BOOLEAN
  /\ \A l \in DOMAIN labelToBasicBlockMap : labelToBasicBlockMap[l] \in 1..size
  /\ branchFlags \in Seq(Args)
  /\ backpatchQueue \in Seq(Queue)
  /\ \A q \in 1..Len(backpatchQueue) : backpatchQueue[q].point \in 1..size

\* The flag says what the entry before was.
Position ==
  phase = "translate" =>
    /\ pc <= Len(icodeTable) + 1
    /\ prevInstructionGotoOrRet <=> pc > 1 /\ icodeTable[pc - 1].op \in {"GOTO", "RET"}

NoTerminator(code) == \A i \in 1..Len(code) : code[i].op \notin Terminators

Nothing(b, from) == \A q \in from..Len(backpatchQueue) : backpatchQueue[q].point # b
OneJump(b, from) == \E q \in from..Len(backpatchQueue) :
                      /\ backpatchQueue[q].point = b
                      /\ \A r \in from..Len(backpatchQueue) : backpatchQueue[r].point = b => r = q

Open(b)         == NoTerminator(blocks[b]) /\ Nothing(b, 1)
Closed(b, from) == \/ Sealed(blocks[b]) /\ Nothing(b, from)
                   \/ NoTerminator(blocks[b]) /\ OneJump(b, from)

Reading  == phase = "translate" =>
              \A b \in 1..size : IF b = cur /\ ~prevInstructionGotoOrRet THEN Open(b) ELSE Closed(b, 1)
Patching == phase = "backpatch" => \A b \in 1..size : Closed(b, pc)
Blocks   == NoDeadCode(icodeTable) => Reading /\ Patching /\ OneTerminator

IInv == Types /\ Position /\ Blocks
-----------------------------------------------------------------------------
(* Tables.                                                                  *)

\* An entry of a table has an opcode and an argument.
LEMMA EntryType ==
  ASSUME NEW t \in Tables, NEW i \in 1..Len(t)
  PROVE  Len(t) \in Nat /\ t[i].op \in Opcodes /\ t[i].arg \in Args
<1>1. Len(t) \in Nat
  BY TablesAssumption
<1>4. t[i].op \in Opcodes
  BY TablesAssumption, Zenon
<1>2. t[i].arg \in {t[k].arg : k \in 1..Len(t)}
  OBVIOUS
<1>3. t[i].arg \in Args
  BY <1>2, Zenon DEF Args
<1> QED BY <1>1, <1>3, <1>4

\* A table has a length.
LEMMA TableLength ==
  ASSUME NEW t \in Tables
  PROVE  Len(t) \in Nat
  BY TablesAssumption

(* Blocks.                                                                  *)

\* An instruction that is no terminator leaves a block without one.
LEMMA AppendPlain ==
  ASSUME NEW code \in Seq(Instructions), NEW i \in Instructions,
         NoTerminator(code), i.op \notin Terminators
  PROVE  Append(code, i) \in Seq(Instructions) /\ NoTerminator(Append(code, i))
<1>1. Append(code, i) \in Seq(Instructions) /\ Len(Append(code, i)) = Len(code) + 1
  OBVIOUS
<1>2. ASSUME NEW k \in 1..(Len(code) + 1)
      PROVE  Append(code, i)[k].op \notin Terminators
  BY DEF NoTerminator
<1> QED BY <1>1, <1>2 DEF NoTerminator

\* A terminator seals a block that had none.
LEMMA AppendTerminator ==
  ASSUME NEW code \in Seq(Instructions), NEW i \in Instructions,
         NoTerminator(code), i.op \in Terminators
  PROVE  Append(code, i) \in Seq(Instructions) /\ Sealed(Append(code, i))
<1>1. Append(code, i) \in Seq(Instructions) /\ Len(Append(code, i)) = Len(code) + 1
  OBVIOUS
<1>2. Append(code, i)[Len(code) + 1] = i
  OBVIOUS
<1>3. ASSUME NEW k \in 1..Len(code)
      PROVE  Append(code, i)[k].op \notin Terminators
  BY DEF NoTerminator
<1> QED BY <1>1, <1>2, <1>3 DEF Sealed

\* A new block is empty.
LEMMA EmptyBlock == <<>> \in Seq(Instructions) /\ NoTerminator(<<>>)
  BY DEF NoTerminator

\* What With does to the blocks.
LEMMA WithBlocks ==
  ASSUME NEW b \in 1..size, NEW i \in Instructions, size \in Nat,
         blocks \in [1..size -> Seq(Instructions)]
  PROVE  /\ With(b, i) \in [1..size -> Seq(Instructions)]
         /\ With(b, i)[b] = Append(blocks[b], i)
         /\ \A c \in 1..size : c # b => With(b, i)[c] = blocks[c]
<1>1. Append(blocks[b], i) \in Seq(Instructions)
  OBVIOUS
<1> QED BY <1>1 DEF With

\* What Grow does to them.
LEMMA GrowBlocks ==
  ASSUME size \in Nat, NEW bs \in [1..size -> Seq(Instructions)]
  PROVE  /\ Grow(bs) \in [1..(size + 1) -> Seq(Instructions)]
         /\ Grow(bs)[size + 1] = <<>>
         /\ \A c \in 1..size : Grow(bs)[c] = bs[c]
  BY EmptyBlock DEF Grow

\* The instructions the translator makes are instructions.
LEMMA MadeInstructions ==
  /\ Ret \in Instructions /\ Ret.op \in Terminators
  /\ \A b \in Nat : Br(b) \in Instructions /\ Br(b).op \in Terminators
  BY DEF Ret, Br, Instructions, Terminators

\* The terminator of a queued jump.
LEMMA BranchType ==
  ASSUME NEW j \in Queue, NEW flag, NEW to \in Nat, j.op \in Conditional => flag \in Args
  PROVE  Branch(j, flag, to) \in Instructions /\ Branch(j, flag, to).op \in Terminators
<1>1. CASE j.op = "GOTO"
  BY <1>1 DEF Branch, Br, Instructions, Terminators
<1>2. CASE j.op = "IF_TRUE_GOTO"
  BY <1>2 DEF Branch, CondBr, Instructions, Terminators, Queue, Conditional
<1>3. CASE j.op = "IF_FALSE_GOTO"
  BY <1>3 DEF Branch, CondBr, Instructions, Terminators, Queue, Conditional
<1> QED BY <1>1, <1>2, <1>3 DEF Queue, Jump, Conditional
-----------------------------------------------------------------------------
(* Types and position.                                                      *)

\* The first state.
LEMMA InitInv == Init => IInv
<1> SUFFICES ASSUME Init PROVE IInv
  OBVIOUS
<1>1. PICK t \in Tables : Start(t)
  BY DEF Init
<1>2. Types
  <2>1. blocks \in [1..size -> Seq(Instructions)]
    BY <1>1, EmptyBlock DEF Start
  <2>2. branchFlags \in Seq(Args) /\ backpatchQueue \in Seq(Queue) /\ Len(backpatchQueue) = 0
    BY <1>1 DEF Start
  <2>3. \A l \in DOMAIN labelToBasicBlockMap : labelToBasicBlockMap[l] \in 1..size
    BY <1>1 DEF Start
  <2>4. pc \in Nat \ {0} /\ size \in Nat \ {0} /\ cur \in 1..size
    BY <1>1 DEF Start
  <2>6. phase = "translate" /\ icodeTable \in Tables /\ prevInstructionGotoOrRet \in BOOLEAN
    BY <1>1, Zenon DEF Start
  <2>5. \A q \in 1..Len(backpatchQueue) : backpatchQueue[q].point \in 1..size
    BY <2>2
  <2> QED BY <2>1, <2>2, <2>3, <2>4, <2>5, <2>6 DEF Types
<1>3. Position
  BY <1>1, TableLength DEF Start, Position
<1>4. Blocks
  BY <1>1, EmptyBlock DEF Start, Blocks, Reading, Patching, OneTerminator, Open, Nothing
<1> QED BY <1>2, <1>3, <1>4 DEF IInv

\* What every step over an entry may use.
LEMMA AtEntry ==
  ASSUME IInv, Advance
  PROVE  /\ phase = "translate" /\ phase' = "translate" /\ icodeTable' = icodeTable
         /\ pc \in 1..Len(icodeTable) /\ pc' \in Nat \ {0}
         /\ Len(icodeTable) \in Nat
         /\ Here.op \in Opcodes /\ Here.arg \in Args
         /\ Here.op \in {"GOTO", "RET"} => prevInstructionGotoOrRet' = TRUE
         /\ Here.op \notin {"GOTO", "RET"} => prevInstructionGotoOrRet' = FALSE
         /\ Position'
         /\ Patching' /\ OneTerminator'
<1>1. /\ phase = "translate" /\ phase' = "translate" /\ icodeTable' = icodeTable
      /\ pc \in 1..Len(icodeTable) /\ pc' = pc + 1
      /\ Len(icodeTable) \in Nat
      /\ prevInstructionGotoOrRet' = (Here.op \in {"GOTO", "RET"})
  BY TableLength DEF IInv, Types, Advance
<1>2. Here.op \in Opcodes /\ Here.arg \in Args
  BY <1>1, EntryType DEF IInv, Types, Here
<1>3. Position'
  <2>1. pc' > 1 /\ pc' - 1 = pc /\ pc' <= Len(icodeTable') + 1
    BY <1>1
  <2>2. prevInstructionGotoOrRet' <=> icodeTable'[pc' - 1].op \in {"GOTO", "RET"}
    BY <1>1, <2>1 DEF Here
  <2> QED BY <2>1, <2>2 DEF Position
<1>4. Patching' /\ OneTerminator'
  BY <1>1 DEF Patching, OneTerminator
<1>6. pc' \in Nat \ {0}
  BY <1>1
<1>5. /\ Here.op \in {"GOTO", "RET"} => prevInstructionGotoOrRet' = TRUE
      /\ Here.op \notin {"GOTO", "RET"} => prevInstructionGotoOrRet' = FALSE
  <2>1. ASSUME Here.op \in {"GOTO", "RET"} PROVE (Here.op \in {"GOTO", "RET"}) = TRUE
    BY <2>1
  <2>2. ASSUME Here.op \notin {"GOTO", "RET"} PROVE (Here.op \in {"GOTO", "RET"}) = FALSE
    BY <2>2
  <2> QED BY <1>1, <2>1, <2>2
<1> QED BY <1>1, <1>2, <1>3, <1>4, <1>5, <1>6

\* Behind a goto or a return, a table without dead code has a label or a goto.
LEMMA NotDead ==
  ASSUME IInv, Advance, NoDeadCode(icodeTable), prevInstructionGotoOrRet
  PROVE  Here.op \in {"CREATE_LABEL", "GOTO"}
<1>1. pc > 1 /\ icodeTable[pc - 1].op \in {"GOTO", "RET"} /\ pc \in 1..Len(icodeTable)
      /\ Len(icodeTable) \in Nat
  BY AtEntry DEF IInv, Position
<1>2. pc - 1 \in 1..(Len(icodeTable) - 1) /\ (pc - 1) + 1 = pc
  BY <1>1
<1> QED BY <1>1, <1>2 DEF NoDeadCode, Here
-----------------------------------------------------------------------------
(* One lemma per action.                                                    *)

\* A block nothing was appended to, and no jump was queued for, stays closed.
LEMMA StaysClosed ==
  ASSUME NEW b, Closed(b, 1), blocks'[b] = blocks[b], backpatchQueue' = backpatchQueue
  PROVE  Closed(b, 1)'
  BY DEF Closed, Nothing, OneJump

\* A call or a compare goes into the open block.
LEMMA OrdinaryInv == ASSUME IInv, ordinary PROVE IInv'
<1>1. Types /\ Blocks
  BY DEF IInv
<1>2. Advance /\ Here.op \in Plain
  BY DEF ordinary
<1>3. /\ phase = "translate" /\ phase' = "translate" /\ icodeTable' = icodeTable
      /\ pc' \in Nat \ {0} /\ Here.arg \in Args /\ prevInstructionGotoOrRet' = FALSE
      /\ Position' /\ Patching' /\ OneTerminator'
  BY <1>2, AtEntry DEF Plain
<1>4. size' = size /\ cur' = cur /\ backpatchQueue' = backpatchQueue
      /\ labelToBasicBlockMap' = labelToBasicBlockMap
  BY DEF ordinary
<1>5. Do(Here) \in Instructions /\ Do(Here).op \notin Terminators
  BY <1>2, <1>3 DEF Do, Instructions, Plain, Terminators
<1>6. /\ blocks' \in [1..size -> Seq(Instructions)]
      /\ blocks'[cur] = Append(blocks[cur], Do(Here))
      /\ \A c \in 1..size : c # cur => blocks'[c] = blocks[c]
  BY <1>1, <1>5, WithBlocks DEF ordinary, Types
<1>7. branchFlags' \in Seq(Args)
  BY <1>1, <1>3 DEF ordinary, Types
<1>8. Types'
  BY <1>1, <1>3, <1>4, <1>6, <1>7 DEF Types
<1>9. ASSUME NoDeadCode(icodeTable) PROVE Reading'
  <2>1. ~prevInstructionGotoOrRet
    BY <1>2, <1>9, NotDead DEF Plain
  <2>2. Reading /\ Open(cur) /\ cur \in 1..size
    BY <1>1, <1>3, <1>9, <2>1 DEF Blocks, Reading, Types
  <2>3. NoTerminator(blocks'[cur])
    BY <1>1, <1>5, <1>6, <2>2, AppendPlain DEF Open, Types
  <2>4. ASSUME NEW b \in 1..size, b = cur PROVE Open(b)'
    BY <1>4, <2>2, <2>3, <2>4 DEF Open, Nothing
  <2>5. ASSUME NEW b \in 1..size, b # cur PROVE Closed(b, 1)'
    BY <1>3, <1>4, <1>6, <2>2, <2>5, StaysClosed DEF Reading
  <2> QED BY <1>3, <1>4, <2>4, <2>5 DEF Reading
<1> QED BY <1>3, <1>8, <1>9 DEF Blocks, IInv

\* A return seals the open block.
LEMMA RetInv == ASSUME IInv, ret PROVE IInv'
<1>1. Types /\ Blocks
  BY DEF IInv
<1>2. Advance /\ Here.op = "RET"
  BY DEF ret
<1>3. /\ phase = "translate" /\ phase' = "translate" /\ icodeTable' = icodeTable
      /\ pc' \in Nat \ {0} /\ prevInstructionGotoOrRet' = TRUE
      /\ Position' /\ Patching' /\ OneTerminator'
  BY <1>2, AtEntry
<1>4. /\ size' = size /\ cur' = cur /\ backpatchQueue' = backpatchQueue
      /\ labelToBasicBlockMap' = labelToBasicBlockMap /\ branchFlags' = branchFlags
  BY DEF ret
<1>5. Ret \in Instructions /\ Ret.op \in Terminators
  BY MadeInstructions
<1>6. /\ blocks' \in [1..size -> Seq(Instructions)]
      /\ blocks'[cur] = Append(blocks[cur], Ret)
      /\ \A c \in 1..size : c # cur => blocks'[c] = blocks[c]
  BY <1>1, <1>5, WithBlocks DEF ret, Types
<1>7. Types'
  BY <1>1, <1>3, <1>4, <1>6 DEF Types
<1>8. ASSUME NoDeadCode(icodeTable) PROVE Reading'
  <2>1. ~prevInstructionGotoOrRet
    BY <1>2, <1>8, NotDead
  <2>2. Reading /\ Open(cur) /\ cur \in 1..size
    BY <1>1, <1>3, <1>8, <2>1 DEF Blocks, Reading, Types
  <2>3. Sealed(blocks'[cur])
    BY <1>1, <1>5, <1>6, <2>2, AppendTerminator DEF Open, Types
  <2>4. ASSUME NEW b \in 1..size, b = cur PROVE Closed(b, 1)'
    BY <1>4, <2>2, <2>3, <2>4 DEF Open, Closed, Nothing
  <2>5. ASSUME NEW b \in 1..size, b # cur PROVE Closed(b, 1)'
    BY <1>3, <1>4, <1>6, <2>2, <2>5, StaysClosed DEF Reading
  <2> QED BY <1>3, <1>4, <2>4, <2>5 DEF Reading
<1> QED BY <1>3, <1>7, <1>8 DEF Blocks, IInv

\* A label closes the block before it, and opens a new one.
LEMMA CreateLabelInv == ASSUME IInv, createLabel PROVE IInv'
<1>1. Types /\ Blocks /\ size \in Nat
  BY DEF IInv, Types
<1>2. Advance /\ Here.op = "CREATE_LABEL"
  BY DEF createLabel
<1>3. /\ phase = "translate" /\ phase' = "translate" /\ icodeTable' = icodeTable
      /\ pc' \in Nat \ {0} /\ prevInstructionGotoOrRet' = FALSE
      /\ Position' /\ Patching' /\ OneTerminator'
  BY <1>2, AtEntry
<1> DEFINE bs == IF prevInstructionGotoOrRet THEN blocks ELSE With(cur, Br(size + 1))
<1>4. /\ blocks' = Grow(bs) /\ size' = size + 1 /\ cur' = size + 1
      /\ backpatchQueue' = backpatchQueue /\ branchFlags' = branchFlags
  BY DEF createLabel
<1>5. Br(size + 1) \in Instructions /\ Br(size + 1).op \in Terminators
  BY <1>1, MadeInstructions
<1>6. /\ bs \in [1..size -> Seq(Instructions)]
      /\ \A c \in 1..size : c # cur \/ prevInstructionGotoOrRet => bs[c] = blocks[c]
      /\ ~prevInstructionGotoOrRet => bs[cur] = Append(blocks[cur], Br(size + 1))
  BY <1>1, <1>5, WithBlocks DEF Types
<1> HIDE DEF bs
<1>7. /\ blocks' \in [1..(size + 1) -> Seq(Instructions)]
      /\ blocks'[size + 1] = <<>>
      /\ \A c \in 1..size : blocks'[c] = bs[c]
  BY <1>1, <1>4, <1>6, GrowBlocks
<1>8. \A l \in DOMAIN labelToBasicBlockMap' : labelToBasicBlockMap'[l] \in 1..(size + 1)
  BY <1>1 DEF createLabel, Types
<1>9. Types'
  <2>1. \A q \in 1..Len(backpatchQueue') : backpatchQueue'[q].point \in 1..size'
    BY <1>1, <1>4 DEF Types
  <2>2. size' \in Nat \ {0} /\ cur' \in 1..size'
    BY <1>1, <1>4
  <2>3. blocks' \in [1..size' -> Seq(Instructions)]
        /\ \A l \in DOMAIN labelToBasicBlockMap' : labelToBasicBlockMap'[l] \in 1..size'
    BY <1>4, <1>7, <1>8
  <2> QED BY <1>1, <1>3, <1>4, <2>1, <2>2, <2>3 DEF Types
<1>10. ASSUME NoDeadCode(icodeTable) PROVE Reading'
  <2>1. Reading
    BY <1>1, <1>10 DEF Blocks
  <2>2. ASSUME NEW b, b = size + 1 PROVE Open(b)'
    <3>1. NoTerminator(blocks'[b])
      BY <1>7, <2>2, EmptyBlock
    <3>2. \A q \in 1..Len(backpatchQueue) : backpatchQueue[q].point # b
      BY <1>1, <2>2 DEF Types
    <3> QED BY <1>4, <3>1, <3>2 DEF Open, Nothing
  <2>3. ASSUME NEW b \in 1..size PROVE Closed(b, 1)'
    <3>1. CASE b = cur /\ ~prevInstructionGotoOrRet
      <4>1. Open(b)
        BY <1>3, <2>1, <3>1 DEF Reading
      <4>2. blocks'[b] = Append(blocks[b], Br(size + 1)) /\ blocks[b] \in Seq(Instructions)
        BY <1>1, <1>6, <1>7, <3>1 DEF Types
      <4>3. Sealed(blocks'[b])
        BY <1>5, <4>1, <4>2, AppendTerminator DEF Open
      <4> QED BY <1>4, <4>1, <4>3 DEF Open, Closed, Nothing
    <3>2. CASE ~(b = cur /\ ~prevInstructionGotoOrRet)
      <4>1. Closed(b, 1) /\ blocks'[b] = blocks[b]
        BY <1>3, <1>6, <1>7, <2>1, <3>2 DEF Reading
      <4> QED BY <1>4, <4>1, StaysClosed
    <3> QED BY <3>1, <3>2
  <2>4. \A b \in 1..size' : b \in 1..size \/ b = size + 1
    BY <1>1, <1>4
  <2>5. \A b \in 1..size : b # cur'
    BY <1>1, <1>4
  <2> QED BY <1>3, <1>4, <2>2, <2>3, <2>4, <2>5 DEF Reading
<1> QED BY <1>3, <1>9, <1>10 DEF Blocks, IInv

\* A jump closes the open block with a place in the queue; a conditional one
\* opens the block the code falls into.
LEMMA CreateGotoBackpatchInv == ASSUME IInv, createGotoBackpatch PROVE IInv'
<1>1. Types /\ Blocks /\ size \in Nat /\ cur \in 1..size
  BY DEF IInv, Types
<1>2. Advance /\ Here.op \in Jump
  BY DEF createGotoBackpatch
<1>3. /\ phase = "translate" /\ phase' = "translate" /\ icodeTable' = icodeTable
      /\ pc' \in Nat \ {0} /\ Here.arg \in Args
      /\ Here.op = "GOTO" => prevInstructionGotoOrRet' = TRUE
      /\ Here.op \in Conditional => prevInstructionGotoOrRet' = FALSE
      /\ prevInstructionGotoOrRet' \in BOOLEAN
      /\ Position' /\ Patching' /\ OneTerminator'
  BY <1>2, AtEntry DEF Jump, Conditional
<1>4. labelToBasicBlockMap' = labelToBasicBlockMap /\ branchFlags' = branchFlags
  BY DEF createGotoBackpatch
<1>5. SUFFICES Types' /\ (NoDeadCode(icodeTable) => Reading')
  BY <1>3 DEF Blocks, IInv
<1>6. CASE prevInstructionGotoOrRet
  <2>1. UNCHANGED <<size, cur, blocks, backpatchQueue>>
    BY <1>6 DEF createGotoBackpatch
  <2>2. Types'
    BY <1>1, <1>3, <1>4, <2>1 DEF Types
  <2>3. ASSUME NoDeadCode(icodeTable) PROVE Reading'
    <3>1. prevInstructionGotoOrRet' = TRUE
      BY <1>2, <1>3, <1>6, <2>3, NotDead DEF Jump, Conditional
    <3>2. ASSUME NEW b \in 1..size PROVE Closed(b, 1)'
      BY <1>1, <1>3, <1>6, <2>1, <2>3, StaysClosed DEF Blocks, Reading
    <3> QED BY <2>1, <3>1, <3>2 DEF Reading
  <2> QED BY <2>2, <2>3
<1> DEFINE Added(fall) == [op |-> Here.op, arg |-> Here.arg, point |-> cur, fall |-> fall]
<1>7. ASSUME NEW fall \in Nat, backpatchQueue' = Append(backpatchQueue, Added(fall))
      PROVE  /\ backpatchQueue' \in Seq(Queue)
             /\ Len(backpatchQueue') = Len(backpatchQueue) + 1
             /\ \A q \in 1..Len(backpatchQueue) : backpatchQueue'[q] = backpatchQueue[q]
             /\ backpatchQueue'[Len(backpatchQueue) + 1].point = cur
             /\ Len(backpatchQueue) \in Nat
  <2>1. Added(fall) \in Queue /\ backpatchQueue \in Seq(Queue)
    BY <1>1, <1>2, <1>3 DEF Queue, Types
  <2> QED BY <1>7, <2>1
<1>8. ASSUME NEW fall \in Nat, backpatchQueue' = Append(backpatchQueue, Added(fall)),
             NEW b \in 1..size, b # cur, blocks'[b] = blocks[b], Closed(b, 1)
      PROVE  Closed(b, 1)'
  <2>1. CASE Nothing(b, 1) /\ Sealed(blocks[b])
    BY <1>7, <1>8, <2>1 DEF Closed, Nothing
  <2>2. CASE NoTerminator(blocks[b]) /\ OneJump(b, 1)
    <3>1. PICK q \in 1..Len(backpatchQueue) :
            /\ backpatchQueue[q].point = b
            /\ \A r \in 1..Len(backpatchQueue) : backpatchQueue[r].point = b => r = q
      BY <2>2 DEF OneJump
    <3>2. q \in 1..Len(backpatchQueue') /\ backpatchQueue'[q].point = b
      BY <1>7, <1>8, <3>1
    <3>3. ASSUME NEW r \in 1..Len(backpatchQueue'), backpatchQueue'[r].point = b PROVE r = q
      <4>1. /\ Len(backpatchQueue) \in Nat /\ Len(backpatchQueue') = Len(backpatchQueue) + 1
            /\ backpatchQueue'[Len(backpatchQueue) + 1].point = cur
        BY <1>7, <1>8
      <4>2. r # Len(backpatchQueue) + 1
        BY <1>8, <3>3, <4>1
      <4>3. r \in 1..Len(backpatchQueue)
        BY <4>1, <4>2
      <4>4. backpatchQueue'[r] = backpatchQueue[r]
        BY <1>7, <1>8, <4>3
      <4> QED BY <3>1, <3>3, <4>3, <4>4
    <3>4. OneJump(b, 1)'
      BY <3>2, <3>3 DEF OneJump
    <3> QED BY <1>8, <2>2, <3>4 DEF Closed
  <2> QED BY <1>8, <2>1, <2>2 DEF Closed
<1>9. ASSUME NEW fall \in Nat, backpatchQueue' = Append(backpatchQueue, Added(fall)),
             Open(cur), NEW b, b = cur, blocks'[b] = blocks[b]
      PROVE  Closed(b, 1)'
  <2>1. NoTerminator(blocks'[b])
    BY <1>9 DEF Open
  <2>2. OneJump(b, 1)'
    <3>1. Len(backpatchQueue) + 1 \in 1..Len(backpatchQueue')
          /\ backpatchQueue'[Len(backpatchQueue) + 1].point = b
      BY <1>7, <1>9
    <3>2. ASSUME NEW r \in 1..Len(backpatchQueue'), backpatchQueue'[r].point = b
          PROVE  r = Len(backpatchQueue) + 1
      BY <1>7, <1>9, <3>2 DEF Open, Nothing
    <3> QED BY <3>1, <3>2 DEF OneJump
  <2> QED BY <2>1, <2>2 DEF Closed
<1> HIDE DEF Added
<1>10. CASE ~prevInstructionGotoOrRet /\ Here.op = "GOTO"
  <2>1. backpatchQueue' = Append(backpatchQueue, Added(0)) /\ UNCHANGED <<size, cur, blocks>>
    BY <1>2, <1>10 DEF createGotoBackpatch, Queued, Conditional, Added
  <2>2. Types'
    <3>1. \A q \in 1..Len(backpatchQueue') : backpatchQueue'[q].point \in 1..size'
      BY <1>1, <1>7, <2>1 DEF Types
    <3> QED BY <1>1, <1>3, <1>4, <1>7, <2>1, <3>1 DEF Types
  <2>3. ASSUME NoDeadCode(icodeTable) PROVE Reading'
    <3>1. Reading /\ Open(cur)
      BY <1>1, <1>3, <1>10, <2>3 DEF Blocks, Reading
    <3>2. ASSUME NEW b \in 1..size PROVE Closed(b, 1)'
      BY <1>1, <1>3, <1>8, <1>9, <2>1, <3>1 DEF Reading
    <3> QED BY <1>3, <1>10, <2>1, <3>2 DEF Reading
  <2> QED BY <2>2, <2>3
<1>11. CASE ~prevInstructionGotoOrRet /\ Here.op \in Conditional
  <2>1. /\ backpatchQueue' = Append(backpatchQueue, Added(size + 1)) /\ size + 1 \in Nat
        /\ size' = size + 1 /\ cur' = size + 1 /\ blocks' = Grow(blocks)
    BY <1>1, <1>11 DEF createGotoBackpatch, Queued, Conditional, Added
  <2>2. /\ blocks' \in [1..(size + 1) -> Seq(Instructions)]
        /\ blocks'[size + 1] = <<>>
        /\ \A c \in 1..size : blocks'[c] = blocks[c]
    BY <1>1, <2>1, GrowBlocks DEF Types
  <2>3. \A q \in 1..Len(backpatchQueue') : backpatchQueue'[q].point \in 1..size
    BY <1>1, <1>7, <2>1, SMTT(30) DEF Types
  <2>4. Types'
    <3>1. \A q \in 1..Len(backpatchQueue') : backpatchQueue'[q].point \in 1..size'
      BY <1>1, <2>1, <2>3
    <3>2. \A l \in DOMAIN labelToBasicBlockMap' : labelToBasicBlockMap'[l] \in 1..size'
      BY <1>1, <1>4, <2>1 DEF Types
    <3>3. size' \in Nat \ {0} /\ cur' \in 1..size' /\ blocks' \in [1..size' -> Seq(Instructions)]
      BY <1>1, <2>1, <2>2
    <3> QED BY <1>1, <1>3, <1>4, <1>7, <2>1, <3>1, <3>2, <3>3 DEF Types
  <2>5. ASSUME NoDeadCode(icodeTable) PROVE Reading'
    <3>1. Reading /\ Open(cur)
      BY <1>1, <1>3, <1>11, <2>5 DEF Blocks, Reading
    <3>2. ASSUME NEW b \in 1..size PROVE Closed(b, 1)'
      BY <1>1, <1>3, <1>8, <1>9, <2>1, <2>2, <3>1 DEF Reading
    <3>3. ASSUME NEW b, b = size + 1 PROVE Open(b)'
      <4>1. NoTerminator(blocks'[b])
        BY <2>2, <3>3, EmptyBlock
      <4>2. \A q \in 1..Len(backpatchQueue') : backpatchQueue'[q].point # b
        BY <1>1, <2>3, <3>3
      <4> QED BY <4>1, <4>2 DEF Open, Nothing
    <3>4. prevInstructionGotoOrRet' = FALSE
      BY <1>3, <1>11
    <3>5. \A b \in 1..size' : b \in 1..size \/ b = size + 1
      BY <1>1, <2>1
    <3>6. \A b \in 1..size : b # cur'
      BY <1>1, <2>1
    <3> QED BY <2>1, <3>2, <3>3, <3>4, <3>5, <3>6 DEF Reading
  <2> QED BY <2>4, <2>5
<1> QED BY <1>2, <1>6, <1>10, <1>11 DEF Jump

\* After the last entry, a return, every block is closed.
LEMMA TranslatedInv == ASSUME IInv, translated PROVE IInv'
<1>1. Types /\ Position /\ Blocks
  BY DEF IInv
<1>2. /\ phase = "translate" /\ phase' = "backpatch" /\ pc = Len(icodeTable) + 1 /\ pc' = 1
      /\ UNCHANGED <<icodeTable, size, blocks, cur, labelToBasicBlockMap,
                     prevInstructionGotoOrRet, branchFlags, backpatchQueue>>
  BY DEF translated
<1>3. Types' /\ Position' /\ Reading' /\ OneTerminator'
  BY <1>1, <1>2 DEF Types, Position, Reading, OneTerminator
<1>4. ASSUME NoDeadCode(icodeTable) PROVE Patching'
  <2>1. Len(icodeTable) \in Nat
    BY <1>1, TableLength DEF Types
  <2>2. pc - 1 = Len(icodeTable) /\ pc > 1
    BY <1>2, <1>4, <2>1 DEF NoDeadCode
  <2>3. prevInstructionGotoOrRet
    BY <1>1, <1>2, <1>4, <2>2 DEF Position, NoDeadCode
  <2>4. \A b \in 1..size : Closed(b, 1)
    BY <1>1, <1>2, <1>4, <2>3 DEF Blocks, Reading
  <2> QED BY <1>2, <2>4 DEF Patching, Closed, Nothing, OneJump
<1> QED BY <1>2, <1>3, <1>4 DEF Blocks, IInv

\* The queued jump seals the one block that waits for it.
LEMMA ProcessInv == ASSUME IInv, processGotoBackpatch PROVE IInv'
<1>1. Types /\ Blocks
  BY DEF IInv
<1> DEFINE j    == backpatchQueue[pc]
           cond == j.op \in Conditional
           to   == labelToBasicBlockMap[j.arg]
           flag == IF cond THEN Head(branchFlags) ELSE 0
<1>2. /\ phase = "backpatch" /\ phase' = "backpatch" /\ pc' = pc + 1
      /\ pc \in 1..Len(backpatchQueue) /\ Len(backpatchQueue) \in Nat
      /\ UNCHANGED <<icodeTable, size, cur, labelToBasicBlockMap,
                     prevInstructionGotoOrRet, backpatchQueue>>
      /\ j.arg \in DOMAIN labelToBasicBlockMap
      /\ cond => branchFlags # <<>>
      /\ blocks' = With(j.point, Branch(j, flag, to))
      /\ branchFlags' = IF cond THEN Tail(branchFlags) ELSE branchFlags
  BY <1>1 DEF processGotoBackpatch, Types
<1>3. j \in Queue /\ j.point \in 1..size /\ to \in Nat /\ size \in Nat
  BY <1>1, <1>2 DEF Types
<1>4. (cond => flag \in Args) /\ branchFlags' \in Seq(Args)
  BY <1>1, <1>2 DEF Types
<1> HIDE DEF j, cond, to, flag
<1>5. j.op \in Conditional => flag \in Args
  BY <1>4 DEF cond
<1>6. Branch(j, flag, to) \in Instructions /\ Branch(j, flag, to).op \in Terminators
  BY <1>3, <1>5, BranchType
<1>7. /\ blocks' \in [1..size -> Seq(Instructions)]
      /\ blocks'[j.point] = Append(blocks[j.point], Branch(j, flag, to))
      /\ \A c \in 1..size : c # j.point => blocks'[c] = blocks[c]
  <2>1. blocks \in [1..size -> Seq(Instructions)]
    BY <1>1 DEF Types
  <2> QED BY <1>2, <1>3, <1>6, <2>1, WithBlocks
<1>8. Types'
  BY <1>1, <1>2, <1>4, <1>7, SMTT(30) DEF Types
<1>9. Position' /\ Reading' /\ OneTerminator'
  BY <1>2 DEF Position, Reading, OneTerminator
<1>10. ASSUME NoDeadCode(icodeTable), NEW b \in 1..size, NEW n, n = pc + 1 PROVE Closed(b, n)'
  <2>1. Closed(b, pc)
    BY <1>1, <1>2, <1>10 DEF Blocks, Patching
  <2>2. CASE b = j.point
    <3>1. NoTerminator(blocks[b]) /\ OneJump(b, pc)
      BY <1>2, <2>1, <2>2 DEF Closed, Nothing, j
    <3>2. Sealed(blocks'[b])
      BY <1>1, <1>6, <1>7, <2>2, <3>1, AppendTerminator DEF Types
    <3>3. \A q \in n..Len(backpatchQueue) : backpatchQueue[q].point # b
      BY <1>2, <1>10, <2>2, <3>1 DEF OneJump, j
    <3> QED BY <1>2, <3>2, <3>3 DEF Closed, Nothing
  <2>3. CASE b # j.point
    <3>1. blocks'[b] = blocks[b]
      BY <1>7, <2>3
    <3>2. CASE Sealed(blocks[b]) /\ Nothing(b, pc)
      BY <1>2, <1>10, <3>1, <3>2 DEF Closed, Nothing
    <3>3. CASE NoTerminator(blocks[b]) /\ OneJump(b, pc)
      <4>1. PICK q \in pc..Len(backpatchQueue) :
              /\ backpatchQueue[q].point = b
              /\ \A r \in pc..Len(backpatchQueue) : backpatchQueue[r].point = b => r = q
        BY <3>3 DEF OneJump
      <4>2. q \in n..Len(backpatchQueue)
        BY <1>2, <1>10, <2>3, <4>1 DEF j
      <4>3. \A r \in n..Len(backpatchQueue) : backpatchQueue[r].point = b => r = q
        BY <1>2, <1>10, <4>1
      <4>4. OneJump(b, n)'
        BY <1>2, <4>1, <4>2, <4>3 DEF OneJump
      <4> QED BY <3>1, <3>3, <4>4 DEF Closed
    <3> QED BY <2>1, <3>2, <3>3 DEF Closed
  <2> QED BY <2>2, <2>3
<1>11. NoDeadCode(icodeTable) => Patching'
  BY <1>2, <1>10 DEF Patching
<1> QED BY <1>2, <1>8, <1>9, <1>11 DEF Blocks, IInv

\* Nothing is queued any more, so every block is sealed.
LEMMA FinishInv == ASSUME IInv, finish PROVE IInv'
<1>1. Types /\ Blocks
  BY DEF IInv
<1>2. /\ phase = "backpatch" /\ phase' = "finished" /\ pc = Len(backpatchQueue) + 1
      /\ UNCHANGED <<icodeTable, pc, size, blocks, cur, labelToBasicBlockMap,
                     prevInstructionGotoOrRet, branchFlags, backpatchQueue>>
  BY DEF finish
<1>3. Types' /\ Position' /\ Reading' /\ Patching'
  BY <1>1, <1>2 DEF Types, Position, Reading, Patching
<1>4. ASSUME NoDeadCode(icodeTable) PROVE OneTerminator'
  <2>1. \A b \in 1..size : Closed(b, pc)
    BY <1>1, <1>2, <1>4 DEF Blocks, Patching
  <2>2. \A b \in 1..size : Sealed(blocks[b])
    BY <1>1, <1>2, <2>1 DEF Closed, OneJump, Types
  <2> QED BY <1>2, <2>2 DEF OneTerminator
<1> QED BY <1>2, <1>3, <1>4 DEF Blocks, IInv
-----------------------------------------------------------------------------
\* Every reachable state satisfies the invariant.
THEOREM Inductive == Spec => []IInv
<1>1. Init => IInv
  BY InitInv
<1>2. IInv /\ [Next]_tvars => IInv'
  <2> SUFFICES ASSUME IInv, [Next]_tvars PROVE IInv'
    OBVIOUS
  <2>1. CASE Next
    BY <2>1, OrdinaryInv, RetInv, CreateLabelInv, CreateGotoBackpatchInv, TranslatedInv,
       ProcessInv, FinishInv DEF Next
  <2>2. CASE UNCHANGED tvars
    <3>1. Types' /\ Position'
      BY <2>2 DEF tvars, IInv, Types, Position
    <3>2. \A b, n : (Closed(b, n) => Closed(b, n)') /\ (Open(b) => Open(b)')
      BY <2>2 DEF tvars, Open, Closed, Nothing, OneJump
    <3>3. Blocks'
      BY <2>2, <3>2 DEF tvars, IInv, Blocks, Reading, Patching, OneTerminator
    <3> QED BY <3>1, <3>3 DEF IInv
  <2> QED BY <2>1, <2>2
<1> QED BY <1>1, <1>2, PTL DEF Spec

\* createLabel and createGotoBackpatch keep LLVM's rule for every function
\* without dead code: each block ends with its only terminator.
THEOREM EveryBlockIsSealed == Spec => []OneTerminatorIfClean
<1>1. IInv => OneTerminatorIfClean
  BY DEF IInv, Blocks, OneTerminatorIfClean
<1> QED BY <1>1, Inductive, PTL

\* The blocks, the flags and the queue always have their types.
THEOREM TypeCorrect == Spec => []TypeOK
<1>1. IInv => TypeOK
  BY DEF IInv, Types, TypeOK
<1> QED BY <1>1, Inductive, PTL
-----------------------------------------------------------------------------
(* The flags.  The conditional jumps of the queue that still wait are fed,  *)
(* in order, by the flags that are left: the i-th flag belongs to the       *)
(* at[i]-th jump of the queue, whose block ends with the compare that the    *)
(* flag stands for.                                                         *)

\* Block b ends with the compare whose flag is f.
EndsWith(b, f) == /\ Len(blocks[b]) > 0
                  /\ blocks[b][Len(blocks[b])].op = "CMP"
                  /\ blocks[b][Len(blocks[b])].arg = f

Feeds(at, from, n) ==
  /\ at \in [1..n -> from..Len(backpatchQueue)]
  /\ \A i, k \in 1..n : i < k => at[i] < at[k]
  /\ \A i \in 1..n : /\ backpatchQueue[at[i]].op \in Conditional
                     /\ EndsWith(backpatchQueue[at[i]].point, branchFlags[i])
  /\ \A q \in from..Len(backpatchQueue) :
       backpatchQueue[q].op \in Conditional => \E i \in 1..n : at[i] = q

Fed(from, n) == \E at \in [1..n -> from..Len(backpatchQueue)] : Feeds(at, from, n)

\* The entry before was a compare: its jump comes next.
Awaited == pc > 1 /\ icodeTable[pc - 1].op = "CMP"

ReadingFlags ==
  phase = "translate" =>
    IF Awaited THEN /\ Len(branchFlags) > 0
                    /\ EndsWith(cur, branchFlags[Len(branchFlags)])
                    /\ Fed(1, Len(branchFlags) - 1)
               ELSE Fed(1, Len(branchFlags))
PatchingFlags == phase = "backpatch" => Fed(pc, Len(branchFlags))

Matched(code) == \A i \in 1..Len(code) :
  code[i].op = "condbr" => i > 1 /\ code[i - 1].op = "CMP" /\ code[i].flag = code[i - 1].arg

Flags == /\ ReadingFlags /\ PatchingFlags
         /\ phase = "finished" => branchFlags = <<>>
         /\ \A b \in 1..size : Matched(blocks[b])

CleanTable == NoDeadCode(icodeTable) /\ ComparesArePaired(icodeTable)

FlagInv == IInv /\ (CleanTable => Flags)

\* Flags and jumps stay matched while neither they nor the blocks of the jumps change.
LEMMA FedStays ==
  ASSUME NEW from, NEW n, Fed(from, n), backpatchQueue' = backpatchQueue,
         \A i \in 1..n : branchFlags'[i] = branchFlags[i],
         \A q \in from..Len(backpatchQueue) :
           blocks'[backpatchQueue[q].point] = blocks[backpatchQueue[q].point]
  PROVE  Fed(from, n)'
<1>1. PICK at \in [1..n -> from..Len(backpatchQueue)] : Feeds(at, from, n)
  BY DEF Fed
<1>2. \A i \in 1..n : EndsWith(backpatchQueue[at[i]].point, branchFlags[i])'
  BY <1>1 DEF Feeds, EndsWith
<1>3. Feeds(at, from, n)'
  BY <1>1, <1>2 DEF Feeds
<1> QED BY <1>1, <1>3 DEF Fed

\* A jump that joins the queue changes no jump before it.
LEMMA QueueGrows ==
  ASSUME NEW e \in Queue, backpatchQueue \in Seq(Queue), backpatchQueue' = Append(backpatchQueue, e)
  PROVE  /\ Len(backpatchQueue) \in Nat /\ Len(backpatchQueue') = Len(backpatchQueue) + 1
         /\ \A q \in 1..Len(backpatchQueue) : backpatchQueue'[q] = backpatchQueue[q]
         /\ backpatchQueue'[Len(backpatchQueue) + 1] = e
  OBVIOUS

\* A goto takes no flag.
LEMMA FedGoto ==
  ASSUME NEW n \in Nat, NEW e \in Queue, Fed(1, n), backpatchQueue \in Seq(Queue),
         backpatchQueue' = Append(backpatchQueue, e), e.op \notin Conditional,
         branchFlags' = branchFlags, blocks' = blocks
  PROVE  Fed(1, n)'
<1>1. PICK at \in [1..n -> 1..Len(backpatchQueue)] : Feeds(at, 1, n)
  BY DEF Fed
<1>2. /\ Len(backpatchQueue) \in Nat /\ Len(backpatchQueue') = Len(backpatchQueue) + 1
      /\ \A q \in 1..Len(backpatchQueue) : backpatchQueue'[q] = backpatchQueue[q]
      /\ backpatchQueue'[Len(backpatchQueue) + 1] = e
  BY QueueGrows
<1>3. at \in [1..n -> 1..Len(backpatchQueue')]
  BY <1>1, <1>2
<1>4. \A i \in 1..n : /\ backpatchQueue'[at[i]].op \in Conditional
                      /\ EndsWith(backpatchQueue[at[i]].point, branchFlags[i])'
                      /\ backpatchQueue'[at[i]] = backpatchQueue[at[i]]
  BY <1>1, <1>2 DEF Feeds, EndsWith
<1>5. ASSUME NEW q \in 1..Len(backpatchQueue'), backpatchQueue'[q].op \in Conditional
      PROVE  \E i \in 1..n : at[i] = q
  <2>1. q \in 1..Len(backpatchQueue)
    BY <1>2, <1>5
  <2> QED BY <1>1, <1>2, <1>5, <2>1 DEF Feeds
<1>6. Feeds(at, 1, n)'
  BY <1>1, <1>3, <1>4, <1>5 DEF Feeds, EndsWith
<1> QED BY <1>3, <1>6 DEF Fed

\* A conditional jump takes the flag that is next.
LEMMA FedJump ==
  ASSUME NEW n \in Nat, NEW e \in Queue, Fed(1, n), backpatchQueue \in Seq(Queue),
         backpatchQueue' = Append(backpatchQueue, e), e.op \in Conditional,
         branchFlags' = branchFlags,
         \A q \in 1..Len(backpatchQueue) :
           blocks'[backpatchQueue[q].point] = blocks[backpatchQueue[q].point],
         blocks'[e.point] = blocks[e.point], EndsWith(e.point, branchFlags[n + 1])
  PROVE  Fed(1, n + 1)'
<1>1. PICK at \in [1..n -> 1..Len(backpatchQueue)] : Feeds(at, 1, n)
  BY DEF Fed
<1>2. /\ Len(backpatchQueue) \in Nat /\ Len(backpatchQueue') = Len(backpatchQueue) + 1
      /\ \A q \in 1..Len(backpatchQueue) : backpatchQueue'[q] = backpatchQueue[q]
      /\ backpatchQueue'[Len(backpatchQueue) + 1] = e
  BY QueueGrows
<1>0. \A i \in 1..(n + 1) : i \in 1..n \/ i = n + 1
  OBVIOUS
<1>3. PICK new \in [1..(n + 1) -> 1..Len(backpatchQueue')] :
        /\ new[n + 1] = Len(backpatchQueue) + 1
        /\ \A i \in 1..n : new[i] = at[i] /\ at[i] \in 1..Len(backpatchQueue)
  <2> DEFINE w == [i \in 1..(n + 1) |-> IF i = n + 1 THEN Len(backpatchQueue) + 1 ELSE at[i]]
  <2>1. w \in [1..(n + 1) -> 1..Len(backpatchQueue')]
    BY <1>0, <1>1, <1>2
  <2>2. w[n + 1] = Len(backpatchQueue) + 1 /\ \A i \in 1..n : w[i] = at[i] /\ at[i] \in 1..Len(backpatchQueue)
    BY <1>1, <1>2
  <2> QED BY <2>1, <2>2
<1>4. \A i, k \in 1..(n + 1) : i < k => new[i] < new[k]
  <2>1. ASSUME NEW i \in 1..(n + 1), NEW k \in 1..(n + 1), i < k PROVE new[i] < new[k]
    <3>1. i \in 1..n
      BY <2>1
    <3>2. CASE k \in 1..n
      BY <1>1, <1>3, <2>1, <3>1, <3>2 DEF Feeds
    <3>3. CASE k = n + 1
      BY <1>2, <1>3, <3>1, <3>3
    <3> QED BY <1>0, <3>2, <3>3
  <2> QED BY <2>1
<1>5. ASSUME NEW i \in 1..(n + 1)
      PROVE  backpatchQueue'[new[i]].op \in Conditional
             /\ EndsWith(backpatchQueue[new[i]].point, branchFlags[i])'
  <2>1. CASE i \in 1..n
    <3>1. backpatchQueue[at[i]].op \in Conditional /\ EndsWith(backpatchQueue[at[i]].point, branchFlags[i])
      BY <1>1, <2>1 DEF Feeds
    <3>2. backpatchQueue'[new[i]] = backpatchQueue[at[i]]
      BY <1>2, <1>3, <2>1
    <3>3. blocks'[backpatchQueue[at[i]].point] = blocks[backpatchQueue[at[i]].point]
      BY <1>3, <2>1
    <3> QED BY <3>1, <3>2, <3>3 DEF EndsWith
  <2>2. CASE i = n + 1
    <3>1. backpatchQueue'[new[i]] = e
      BY <1>2, <1>3, <2>2
    <3> QED BY <2>2, <3>1 DEF EndsWith
  <2> QED BY <1>0, <2>1, <2>2
<1>6. ASSUME NEW q \in 1..Len(backpatchQueue'), backpatchQueue'[q].op \in Conditional
      PROVE  \E i \in 1..(n + 1) : new[i] = q
  <2>1. CASE q = Len(backpatchQueue) + 1
    BY <1>3, <2>1
  <2>2. CASE q # Len(backpatchQueue) + 1
    <3>1. q \in 1..Len(backpatchQueue)
      BY <1>2, <2>2
    <3>2. PICK i \in 1..n : at[i] = q
      BY <1>1, <1>2, <1>6, <3>1 DEF Feeds
    <3> QED BY <1>3, <3>2
  <2> QED BY <2>1, <2>2
<1>7. Feeds(new, 1, n + 1)'
  BY <1>3, <1>4, <1>5, <1>6 DEF Feeds
<1> QED BY <1>3, <1>7 DEF Fed

\* A block stays matched when something other than a conditional branch is
\* appended, or a conditional branch on the flag of the compare it ends with.
LEMMA AppendMatched ==
  ASSUME NEW code \in Seq(Instructions), NEW i \in Instructions, Matched(code),
         i.op = "condbr" => /\ Len(code) > 0 /\ code[Len(code)].op = "CMP"
                            /\ code[Len(code)].arg = i.flag
  PROVE  Matched(Append(code, i))
<1>1. Len(code) \in Nat /\ Len(Append(code, i)) = Len(code) + 1
      /\ Append(code, i)[Len(code) + 1] = i
      /\ \A k \in 1..Len(code) : Append(code, i)[k] = code[k]
  OBVIOUS
<1> DEFINE new == Append(code, i)
<1> HIDE DEF new
<1>2. ASSUME NEW k \in 1..Len(new), new[k].op = "condbr"
      PROVE  k > 1 /\ new[k - 1].op = "CMP" /\ new[k].flag = new[k - 1].arg
  <2>1. CASE k = Len(code) + 1
    <3>1. Len(code) > 0 /\ code[Len(code)].op = "CMP" /\ code[Len(code)].arg = i.flag
      BY <1>1, <1>2, <2>1 DEF new
    <3>2. k - 1 = Len(code) /\ Len(code) \in 1..Len(code) /\ new[k] = i
      BY <1>1, <2>1, <3>1 DEF new
    <3>3. new[k - 1] = code[Len(code)]
      BY <1>1, <3>2 DEF new
    <3> QED BY <1>1, <2>1, <3>1, <3>2, <3>3
  <2>2. CASE k # Len(code) + 1
    <3>1. k \in 1..Len(code) /\ new[k] = code[k]
      BY <1>1, <2>2 DEF new
    <3>2. k > 1 /\ code[k - 1].op = "CMP" /\ code[k].flag = code[k - 1].arg
      BY <1>2, <3>1 DEF Matched
    <3>3. k - 1 \in 1..Len(code)
      BY <1>1, <3>1, <3>2
    <3>4. new[k - 1] = code[k - 1]
      BY <1>1, <3>3 DEF new
    <3> QED BY <3>1, <3>2, <3>4
  <2> QED BY <2>1, <2>2
<1> QED BY <1>2 DEF new, Matched

\* Appending to one block keeps every block matched if the one stays so.
LEMMA AllMatched ==
  ASSUME NEW b \in 1..size, NEW i \in Instructions, size \in Nat,
         blocks \in [1..size -> Seq(Instructions)],
         \A c \in 1..size : Matched(blocks[c]),
         i.op = "condbr" => EndsWith(b, i.flag)
  PROVE  \A c \in 1..size : Matched(With(b, i)[c])
<1>1. Matched(Append(blocks[b], i))
  BY AppendMatched DEF EndsWith
<1> QED BY <1>1, WithBlocks

\* A queued jump is gone from the queue: the flags left feed the jumps left.
LEMMA FedNext ==
  ASSUME NEW n \in Nat, NEW from \in Nat \ {0}, from <= Len(backpatchQueue),
         backpatchQueue \in Seq(Queue), Fed(from, n), backpatchQueue' = backpatchQueue,
         NEW m \in Nat,
         m = (IF backpatchQueue[from].op \in Conditional THEN n - 1 ELSE n),
         \A i \in 1..m : branchFlags'[i] = branchFlags[i + n - m],
         \A q \in (from + 1)..Len(backpatchQueue) :
           blocks'[backpatchQueue[q].point] = blocks[backpatchQueue[q].point]
  PROVE  Fed(from + 1, m)'
<1>1. PICK at \in [1..n -> from..Len(backpatchQueue)] : Feeds(at, from, n)
  BY DEF Fed
<1>2. Len(backpatchQueue) \in Nat
  OBVIOUS
<1>3. ASSUME backpatchQueue[from].op \in Conditional PROVE n >= 1 /\ at[1] = from
  <2>1. PICK i \in 1..n : at[i] = from
    BY <1>1, <1>2, <1>3 DEF Feeds
  <2>2. i = 1 \/ 1 < i
    OBVIOUS
  <2>3. 1 < i => at[1] < at[i] /\ at[1] \in from..Len(backpatchQueue)
    BY <1>1 DEF Feeds
  <2> QED BY <1>2, <2>1, <2>2, <2>3
<1>4. ASSUME NEW i \in 1..m
      PROVE  /\ i + n - m \in 1..n
             /\ at[i + n - m] \in (from + 1)..Len(backpatchQueue)
  <2>1. CASE backpatchQueue[from].op \in Conditional
    <3>1. n >= 1 /\ at[1] = from /\ m = n - 1
      BY <1>3, <2>1
    <3>2. i + n - m = i + 1 /\ 1 \in 1..n /\ i + 1 \in 1..n /\ 1 < i + 1
      BY <3>1
    <3>3. at[1] < at[i + 1] /\ at[i + 1] \in from..Len(backpatchQueue)
      BY <1>1, <3>2 DEF Feeds
    <3> QED BY <1>2, <3>1, <3>2, <3>3
  <2>2. CASE backpatchQueue[from].op \notin Conditional
    <3>1. m = n /\ i + n - m = i /\ i \in 1..n
      BY <2>2
    <3>2. at[i] \in from..Len(backpatchQueue) /\ backpatchQueue[at[i]].op \in Conditional
      BY <1>1, <3>1 DEF Feeds
    <3>3. at[i] # from
      BY <2>2, <3>2
    <3> QED BY <1>2, <3>1, <3>2, <3>3
  <2> QED BY <2>1, <2>2
<1>5. PICK new \in [1..m -> (from + 1)..Len(backpatchQueue)] : \A i \in 1..m : new[i] = at[i + n - m]
  <2> DEFINE w == [i \in 1..m |-> at[i + n - m]]
  <2>1. w \in [1..m -> (from + 1)..Len(backpatchQueue)] /\ \A i \in 1..m : w[i] = at[i + n - m]
    BY <1>4
  <2> QED BY <2>1
<1>6. ASSUME NEW i \in 1..m, NEW k \in 1..m, i < k PROVE new[i] < new[k]
  <2>1. i + n - m \in 1..n /\ k + n - m \in 1..n /\ i + n - m < k + n - m
    BY <1>4, <1>6
  <2>2. at[i + n - m] < at[k + n - m]
    BY <1>1, <2>1 DEF Feeds
  <2> QED BY <1>5, <2>2
<1>7. ASSUME NEW i \in 1..m
      PROVE  backpatchQueue[new[i]].op \in Conditional /\ EndsWith(backpatchQueue[new[i]].point, branchFlags[i])'
  <2>1. /\ backpatchQueue[new[i]].op \in Conditional
        /\ EndsWith(backpatchQueue[new[i]].point, branchFlags[i + n - m])
    BY <1>1, <1>4, <1>5 DEF Feeds
  <2>2. blocks'[backpatchQueue[new[i]].point] = blocks[backpatchQueue[new[i]].point]
    BY <1>5
  <2>3. branchFlags'[i] = branchFlags[i + n - m]
    OBVIOUS
  <2> QED BY <2>1, <2>2, <2>3 DEF EndsWith
<1>8. ASSUME NEW q \in (from + 1)..Len(backpatchQueue), backpatchQueue[q].op \in Conditional
      PROVE  \E i \in 1..m : new[i] = q
  <2>1. q \in from..Len(backpatchQueue) /\ q # from
    BY <1>2
  <2>2. PICK k \in 1..n : at[k] = q
    BY <1>1, <1>8, <2>1 DEF Feeds
  <2>3. k - (n - m) \in 1..m
    <3>1. CASE backpatchQueue[from].op \in Conditional
      BY <1>3, <2>1, <2>2, <3>1
    <3>2. CASE backpatchQueue[from].op \notin Conditional
      BY <3>2
    <3> QED BY <3>1, <3>2
  <2>4. (k - (n - m)) + n - m = k
    OBVIOUS
  <2> QED BY <1>5, <2>2, <2>3, <2>4
<1>9. Feeds(new, from + 1, m)'
  BY <1>5, <1>6, <1>7, <1>8 DEF Feeds
<1> QED BY <1>5, <1>9 DEF Fed
-----------------------------------------------------------------------------
(* One lemma per action, for a table whose compares are paired.             *)

\* Of a clean table, the entry behind a compare is a conditional jump, and
\* the entry before a conditional jump is a compare.
LEMMA Paired ==
  ASSUME IInv, Advance, CleanTable
  PROVE  /\ Awaited <=> Here.op \in Conditional
         /\ Awaited' <=> Here.op = "CMP"
<1>1. pc \in 1..Len(icodeTable) /\ Len(icodeTable) \in Nat /\ pc' = pc + 1 /\ icodeTable' = icodeTable
  BY AtEntry DEF Advance
<1>2. /\ Here.op \in Conditional => pc > 1 /\ icodeTable[pc - 1].op = "CMP"
      /\ pc > 1 => (icodeTable[pc - 1].op = "CMP" => icodeTable[(pc - 1) + 1].op \in Conditional)
  <2>1. pc > 1 => pc - 1 \in 1..Len(icodeTable)
    BY <1>1
  <2> QED BY <1>1, <2>1 DEF CleanTable, ComparesArePaired, Here
<1>3. (pc - 1) + 1 = pc /\ pc' - 1 = pc /\ pc' > 1
  BY <1>1
<1> QED BY <1>1, <1>2, <1>3 DEF Awaited, Here

\* Nothing waits for the open block.
LEMMA NothingWaits ==
  ASSUME IInv, NoDeadCode(icodeTable), phase = "translate", ~prevInstructionGotoOrRet
  PROVE  \A q \in 1..Len(backpatchQueue) : backpatchQueue[q].point # cur /\ backpatchQueue[q].point \in 1..size
<1>1. Types /\ Blocks
  BY DEF IInv
<1>2. Open(cur)
  BY <1>1 DEF Types, Blocks, Reading
<1> QED BY <1>1, <1>2 DEF Types, Open, Nothing

\* A call moves nothing; a compare adds the flag that its jump takes next.
LEMMA OrdinaryFlags == ASSUME IInv, CleanTable, Flags, ordinary PROVE Flags'
<1>1. Types /\ Advance /\ Here.op \in Plain
  BY DEF IInv, ordinary
<1>2. /\ phase = "translate" /\ phase' = "translate" /\ Here.arg \in Args
      /\ ~Awaited /\ (Awaited' <=> Here.op = "CMP")
      /\ ~prevInstructionGotoOrRet
  <2>1. NoDeadCode(icodeTable)
    BY DEF CleanTable
  <2>2. Here.op \notin Conditional /\ Here.op \notin {"CREATE_LABEL", "GOTO"}
    BY <1>1 DEF Plain, Conditional
  <2> QED BY <1>1, <2>1, <2>2, AtEntry, Paired, NotDead
<1>3. Fed(1, Len(branchFlags)) /\ Len(branchFlags) \in Nat
  BY <1>1, <1>2 DEF Flags, ReadingFlags, Types
<1>4. Do(Here) \in Instructions /\ Do(Here).op = Here.op /\ Do(Here).arg = Here.arg /\ Here.op # "condbr"
  BY <1>1, <1>2 DEF Do, Instructions, Plain
<1>5. /\ size' = size /\ cur' = cur /\ backpatchQueue' = backpatchQueue
      /\ blocks' = With(cur, Do(Here))
      /\ branchFlags' = IF Here.op = "CMP" THEN Append(branchFlags, Here.arg) ELSE branchFlags
  BY DEF ordinary
<1>6. /\ blocks'[cur] = Append(blocks[cur], Do(Here)) /\ blocks[cur] \in Seq(Instructions)
      /\ \A c \in 1..size : c # cur => blocks'[c] = blocks[c]
  BY <1>1, <1>4, <1>5, WithBlocks DEF Types
<1>7. \A b \in 1..size' : Matched(blocks'[b])
  BY <1>1, <1>4, <1>5, AllMatched DEF Flags, Types
<1>8. \A q \in 1..Len(backpatchQueue) : blocks'[backpatchQueue[q].point] = blocks[backpatchQueue[q].point]
  BY <1>2, <1>6, NothingWaits DEF CleanTable
<1>9. ReadingFlags'
  <2>1. CASE Here.op = "CMP"
    <3>1. /\ Len(branchFlags') = Len(branchFlags) + 1 /\ branchFlags'[Len(branchFlags')] = Here.arg
          /\ \A i \in 1..Len(branchFlags) : branchFlags'[i] = branchFlags[i]
      BY <1>1, <1>2, <1>5, <2>1 DEF Types
    <3>2. ASSUME NEW n, n = Len(branchFlags') - 1 PROVE Fed(1, n)'
      <4>1. n = Len(branchFlags)
        BY <1>3, <3>1, <3>2
      <4> QED BY <1>3, <1>5, <1>8, <3>1, <4>1, FedStays
    <3>3. Len(branchFlags') > 0 /\ blocks'[cur][Len(blocks'[cur])] = Do(Here) /\ Len(blocks'[cur]) > 0
      BY <1>3, <1>4, <1>6, <3>1
    <3>4. EndsWith(cur, branchFlags[Len(branchFlags)])'
      BY <1>4, <1>5, <2>1, <3>1, <3>3 DEF EndsWith
    <3> QED BY <1>2, <2>1, <3>2, <3>3, <3>4 DEF ReadingFlags
  <2>2. CASE Here.op # "CMP"
    <3>1. ASSUME NEW n, n = Len(branchFlags') PROVE Fed(1, n)'
      BY <1>3, <1>5, <1>8, <2>2, <3>1, FedStays
    <3> QED BY <1>2, <2>2, <3>1 DEF ReadingFlags
  <2> QED BY <2>1, <2>2
<1> QED BY <1>2, <1>7, <1>9 DEF Flags, PatchingFlags

\* A step that queues nothing, compares nothing and appends to no block that a
\* jump waits for: a return, a label, a jump behind a jump.
LEMMA QuietFlags ==
  ASSUME IInv, CleanTable, Flags, Advance, Here.op \notin Conditional, Here.op # "CMP",
         branchFlags' = branchFlags, backpatchQueue' = backpatchQueue,
         \A q \in 1..Len(backpatchQueue) :
           blocks'[backpatchQueue[q].point] = blocks[backpatchQueue[q].point]
  PROVE  ReadingFlags' /\ PatchingFlags' /\ phase' = "translate"
<1>1. /\ phase = "translate" /\ phase' = "translate" /\ ~Awaited /\ ~Awaited'
      /\ Len(branchFlags) \in Nat
  <2>1. phase = "translate" /\ phase' = "translate"
    BY AtEntry
  <2>2. Awaited <=> Here.op \in Conditional
    BY Paired
  <2>3. Awaited' <=> Here.op = "CMP"
    BY Paired
  <2>4. Len(branchFlags) \in Nat
    BY DEF IInv, Types
  <2> QED BY <2>1, <2>2, <2>3, <2>4
<1>2. ASSUME NEW n, n = Len(branchFlags) PROVE Fed(1, n)'
  <2>1. Fed(1, n)
    BY <1>1, <1>2 DEF Flags, ReadingFlags
  <2> QED BY <2>1, FedStays
<1>3. \A n : n = Len(branchFlags') => Fed(1, n)'
  BY <1>2
<1> QED BY <1>1, <1>3 DEF ReadingFlags, PatchingFlags

\* A return ends the open block.
LEMMA RetFlags == ASSUME IInv, CleanTable, Flags, ret PROVE Flags'
<1>1. Types /\ Advance /\ Here.op = "RET" /\ NoDeadCode(icodeTable)
  BY DEF IInv, ret, CleanTable
<1>2. phase = "translate" /\ ~prevInstructionGotoOrRet
  BY <1>1, AtEntry, NotDead
<1>3. /\ size' = size /\ backpatchQueue' = backpatchQueue /\ branchFlags' = branchFlags
      /\ blocks' = With(cur, Ret)
  BY DEF ret
<1>4. Ret \in Instructions /\ Ret.op # "condbr"
  BY MadeInstructions DEF Ret
<1>5. \A c \in 1..size : c # cur => blocks'[c] = blocks[c]
  BY <1>1, <1>3, <1>4, WithBlocks DEF Types
<1>6. \A b \in 1..size' : Matched(blocks'[b])
  BY <1>1, <1>3, <1>4, AllMatched DEF Flags, Types
<1>7. ReadingFlags' /\ PatchingFlags' /\ phase' = "translate"
  BY <1>1, <1>2, <1>3, <1>5, NothingWaits, QuietFlags DEF Conditional
<1> QED BY <1>6, <1>7 DEF Flags

\* A label opens a block that nothing waits for; what ends the block before
\* is no conditional branch.
LEMMA CreateLabelFlags == ASSUME IInv, CleanTable, Flags, createLabel PROVE Flags'
<1>1. Types /\ Advance /\ Here.op = "CREATE_LABEL" /\ NoDeadCode(icodeTable) /\ size \in Nat
  BY DEF IInv, createLabel, CleanTable, Types
<1>2. phase = "translate"
  BY <1>1, AtEntry
<1> DEFINE bs == IF prevInstructionGotoOrRet THEN blocks ELSE With(cur, Br(size + 1))
<1>3. /\ size' = size + 1 /\ backpatchQueue' = backpatchQueue /\ branchFlags' = branchFlags
      /\ blocks' = Grow(bs)
  BY DEF createLabel
<1>4. Br(size + 1) \in Instructions /\ Br(size + 1).op # "condbr"
  BY <1>1, MadeInstructions DEF Br
<1>5. /\ bs \in [1..size -> Seq(Instructions)]
      /\ \A c \in 1..size : c # cur \/ prevInstructionGotoOrRet => bs[c] = blocks[c]
      /\ \A b \in 1..size : Matched(bs[b])
  BY <1>1, <1>4, WithBlocks, AllMatched DEF Types, Flags
<1> HIDE DEF bs
<1>6. blocks'[size + 1] = <<>> /\ \A c \in 1..size : blocks'[c] = bs[c]
  BY <1>1, <1>3, <1>5, GrowBlocks
<1>7. \A b \in 1..size' : Matched(blocks'[b])
  <2>1. Matched(<<>>)
    BY DEF Matched
  <2>2. \A b \in 1..size' : b \in 1..size \/ b = size + 1
    BY <1>1, <1>3
  <2> QED BY <1>5, <1>6, <2>1, <2>2
<1>8. \A q \in 1..Len(backpatchQueue) : blocks'[backpatchQueue[q].point] = blocks[backpatchQueue[q].point]
  <2>1. \A q \in 1..Len(backpatchQueue) : backpatchQueue[q].point \in 1..size
    BY <1>1 DEF Types
  <2>2. prevInstructionGotoOrRet \/ \A q \in 1..Len(backpatchQueue) : backpatchQueue[q].point # cur
    BY <1>1, <1>2, NothingWaits
  <2> QED BY <1>5, <1>6, <2>1, <2>2
<1>9. ReadingFlags' /\ PatchingFlags' /\ phase' = "translate"
  BY <1>1, <1>3, <1>8, QuietFlags DEF Conditional
<1> QED BY <1>7, <1>9 DEF Flags

\* A conditional jump takes the flag of the compare its block ends with.
LEMMA CreateGotoBackpatchFlags ==
  ASSUME IInv, CleanTable, Flags, createGotoBackpatch PROVE Flags'
<1>1. /\ Types /\ Advance /\ Here.op \in Jump /\ NoDeadCode(icodeTable)
      /\ size \in Nat /\ cur \in 1..size /\ backpatchQueue \in Seq(Queue) /\ Len(branchFlags) \in Nat
  BY DEF IInv, createGotoBackpatch, CleanTable, Types
<1>2. phase = "translate" /\ phase' = "translate" /\ Here.arg \in Args /\ branchFlags' = branchFlags
  BY <1>1, AtEntry DEF createGotoBackpatch
<1> DEFINE Added(fall) == [op |-> Here.op, arg |-> Here.arg, point |-> cur, fall |-> fall]
<1>3. \A fall \in Nat : /\ Added(fall) \in Queue /\ Added(fall).op = Here.op
                        /\ Added(fall).point = cur /\ Queued(fall) = Append(backpatchQueue, Added(fall))
  BY <1>1, <1>2 DEF Queue, Queued
<1>4. \A q \in 1..Len(backpatchQueue) : backpatchQueue[q].point \in 1..size
  BY <1>1 DEF Types
<1> HIDE DEF Added
<1>5. CASE prevInstructionGotoOrRet
  <2>1. UNCHANGED <<size, blocks, backpatchQueue>>
    BY <1>5 DEF createGotoBackpatch
  <2>2. Here.op = "GOTO"
    BY <1>1, <1>5, NotDead DEF Jump, Conditional
  <2>3. ReadingFlags' /\ PatchingFlags' /\ phase' = "translate"
    BY <1>1, <1>2, <2>1, <2>2, QuietFlags DEF Conditional
  <2> QED BY <2>1, <2>3 DEF Flags
<1>6. CASE ~prevInstructionGotoOrRet /\ Here.op = "GOTO"
  <2>1. backpatchQueue' = Append(backpatchQueue, Added(0)) /\ UNCHANGED <<size, blocks>>
    BY <1>3, <1>6 DEF createGotoBackpatch, Conditional
  <2>2. ~Awaited /\ ~Awaited' /\ Here.op \notin Conditional
    BY <1>1, <1>6, Paired DEF Conditional
  <2>3. Fed(1, Len(branchFlags))
    BY <1>2, <2>2 DEF Flags, ReadingFlags
  <2>4. ASSUME NEW n, n = Len(branchFlags') PROVE Fed(1, n)'
    BY <1>1, <1>2, <1>3, <2>1, <2>2, <2>3, <2>4, FedGoto
  <2> QED BY <1>2, <2>1, <2>2, <2>4 DEF Flags, ReadingFlags, PatchingFlags
<1>7. CASE ~prevInstructionGotoOrRet /\ Here.op \in Conditional
  <2>1. /\ backpatchQueue' = Append(backpatchQueue, Added(size + 1)) /\ size + 1 \in Nat
        /\ size' = size + 1 /\ blocks' = Grow(blocks)
    BY <1>1, <1>3, <1>7 DEF createGotoBackpatch, Conditional
  <2>2. blocks'[size + 1] = <<>> /\ \A c \in 1..size : blocks'[c] = blocks[c]
    BY <1>1, <2>1, GrowBlocks DEF Types
  <2>3. Awaited /\ ~Awaited'
    BY <1>1, <1>7, Paired DEF Conditional
  <2>4. /\ Len(branchFlags) > 0 /\ EndsWith(cur, branchFlags[Len(branchFlags)])
        /\ Fed(1, Len(branchFlags) - 1)
    BY <1>2, <2>3 DEF Flags, ReadingFlags
  <2>5. ASSUME NEW n, n = Len(branchFlags') PROVE Fed(1, n)'
    <3>1. PICK k \in Nat : k = n - 1 /\ k = Len(branchFlags) - 1 /\ k + 1 = n /\ k + 1 = Len(branchFlags)
      BY <1>1, <1>2, <2>4, <2>5
    <3>2. Fed(1, k) /\ EndsWith(cur, branchFlags[k + 1])
      BY <2>4, <3>1
    <3>3. Fed(1, k + 1)'
      <4>1. PICK e \in Queue : e = Added(size + 1) /\ e.op = Here.op /\ e.point = cur
        BY <1>3, <2>1
      <4> QED BY <1>1, <1>2, <1>4, <1>7, <2>1, <2>2, <3>2, <4>1, FedJump
    <3> QED BY <3>1, <3>3
  <2>6. \A b \in 1..size' : Matched(blocks'[b])
    <3>1. Matched(<<>>)
      BY DEF Matched
    <3>2. \A b \in 1..size' : b \in 1..size \/ b = size + 1
      BY <1>1, <2>1
    <3> QED BY <2>2, <3>1, <3>2 DEF Flags
  <2> QED BY <1>2, <2>3, <2>5, <2>6 DEF Flags, ReadingFlags, PatchingFlags
<1> QED BY <1>1, <1>5, <1>6, <1>7 DEF Jump

\* The last entry is a return: no flag waits for its jump to be queued.
LEMMA TranslatedFlags == ASSUME IInv, CleanTable, Flags, translated PROVE Flags'
<1>1. Types /\ Len(icodeTable) \in Nat /\ NoDeadCode(icodeTable)
  BY TableLength DEF IInv, Types, CleanTable
<1>2. /\ phase = "translate" /\ phase' = "backpatch" /\ pc = Len(icodeTable) + 1 /\ pc' = 1
      /\ UNCHANGED <<icodeTable, size, blocks, branchFlags, backpatchQueue>>
  BY DEF translated
<1>3. ~Awaited
  <2>1. pc - 1 = Len(icodeTable) /\ icodeTable[Len(icodeTable)].op = "RET"
    BY <1>1, <1>2 DEF NoDeadCode
  <2> QED BY <2>1 DEF Awaited
<1>4. ASSUME NEW n, n = Len(branchFlags) PROVE Fed(1, n)'
  <2>1. Fed(1, n)
    BY <1>2, <1>3, <1>4 DEF Flags, ReadingFlags
  <2> QED BY <1>2, <2>1, FedStays
<1>5. PatchingFlags'
  BY <1>2, <1>4 DEF PatchingFlags
<1> QED BY <1>2, <1>5 DEF Flags, ReadingFlags

\* A queued jump gets the flag of the compare that its block ends with.
LEMMA ProcessFlags == ASSUME IInv, CleanTable, Flags, processGotoBackpatch PROVE Flags'
<1>1. /\ Types /\ Blocks /\ NoDeadCode(icodeTable) /\ branchFlags \in Seq(Args)
      /\ backpatchQueue \in Seq(Queue) /\ size \in Nat
  BY DEF IInv, CleanTable, Types
<1> DEFINE j    == backpatchQueue[pc]
           cond == j.op \in Conditional
           to   == labelToBasicBlockMap[j.arg]
           flag == IF cond THEN Head(branchFlags) ELSE 0
<1>2. /\ phase = "backpatch" /\ phase' = "backpatch" /\ pc' = pc + 1
      /\ pc \in 1..Len(backpatchQueue) /\ Len(backpatchQueue) \in Nat
      /\ UNCHANGED <<icodeTable, size, backpatchQueue>>
      /\ j.arg \in DOMAIN labelToBasicBlockMap
      /\ cond => branchFlags # <<>>
      /\ blocks' = With(j.point, Branch(j, flag, to))
      /\ branchFlags' = IF cond THEN Tail(branchFlags) ELSE branchFlags
  BY <1>1 DEF processGotoBackpatch, Types
<1>3. j \in Queue /\ j.point \in 1..size /\ to \in Nat
  BY <1>1, <1>2 DEF Types
<1>4. PICK n \in Nat : n = Len(branchFlags)
  BY <1>1
<1>5. Fed(pc, n)
  BY <1>2, <1>4 DEF Flags, PatchingFlags
<1>6. PICK m \in Nat : /\ m = (IF cond THEN n - 1 ELSE n) /\ m = Len(branchFlags')
                       /\ \A i \in 1..m : branchFlags'[i] = branchFlags[i + n - m]
                       /\ cond => flag = branchFlags[1] /\ flag \in Args
  <2>1. CASE cond
    <3>1. /\ Len(branchFlags) >= 1 /\ Len(Tail(branchFlags)) = Len(branchFlags) - 1
          /\ \A i \in 1..(Len(branchFlags) - 1) : Tail(branchFlags)[i] = branchFlags[i + 1]
          /\ Head(branchFlags) = branchFlags[1] /\ branchFlags[1] \in Args
      BY <1>1, <1>2, <2>1
    <3>2. /\ n - 1 \in Nat /\ n - 1 = Len(branchFlags')
          /\ \A i \in 1..(n - 1) : i + n - (n - 1) = i + 1 /\ branchFlags'[i] = branchFlags[i + 1]
      BY <1>2, <1>4, <2>1, <3>1
    <3> QED BY <2>1, <3>1, <3>2
  <2>2. CASE ~cond
    <3>1. n = Len(branchFlags') /\ \A i \in 1..n : i + n - n = i /\ branchFlags'[i] = branchFlags[i]
      BY <1>2, <1>4, <2>2
    <3> QED BY <2>2, <3>1
  <2> QED BY <2>1, <2>2
<1>7. cond => EndsWith(j.point, flag)
  <2> SUFFICES ASSUME cond PROVE EndsWith(j.point, flag)
    OBVIOUS
  <2>1. PICK at \in [1..n -> pc..Len(backpatchQueue)] : Feeds(at, pc, n)
    BY <1>5 DEF Fed
  <2>2. PICK i \in 1..n : at[i] = pc
    BY <1>2, <2>1 DEF Feeds
  <2>3. 1 < i => at[1] < at[i] /\ at[1] \in pc..Len(backpatchQueue)
    BY <2>1 DEF Feeds
  <2>4. i = 1
    BY <1>2, <2>2, <2>3
  <2>5. EndsWith(j.point, branchFlags[1])
    BY <2>1, <2>2, <2>4 DEF Feeds
  <2> QED BY <1>6, <2>5
<1>8. /\ Branch(j, flag, to) \in Instructions
      /\ Branch(j, flag, to).op = "condbr" => cond /\ Branch(j, flag, to).flag = flag
  <2> HIDE DEF j, to, flag
  <2>1. Branch(j, flag, to) \in Instructions
    BY <1>3, <1>6, BranchType
  <2>2. j.op = "GOTO" => Branch(j, flag, to).op = "br"
    BY DEF Branch, Br
  <2>3. j.op = "IF_TRUE_GOTO" => Branch(j, flag, to).flag = flag
    BY DEF Branch, CondBr
  <2>4. j.op = "IF_FALSE_GOTO" => Branch(j, flag, to).flag = flag
    BY DEF Branch, CondBr
  <2>5. j.op \in Jump
    BY <1>3 DEF Queue
  <2> QED BY <2>1, <2>2, <2>3, <2>4, <2>5 DEF Jump, Conditional
<1>9. \A b \in 1..size' : Matched(blocks'[b])
  <2> HIDE DEF j, cond, to, flag
  <2>1. Branch(j, flag, to).op = "condbr" => EndsWith(j.point, Branch(j, flag, to).flag)
    BY <1>7, <1>8
  <2>2. blocks \in [1..size -> Seq(Instructions)] /\ \A b \in 1..size : Matched(blocks[b])
    BY <1>1 DEF Types, Flags
  <2> QED BY <1>1, <1>2, <1>3, <1>8, <2>1, <2>2, AllMatched
<1>10. \A q \in (pc + 1)..Len(backpatchQueue) :
         blocks'[backpatchQueue[q].point] = blocks[backpatchQueue[q].point]
  <2>1. Closed(j.point, pc)
    BY <1>1, <1>2, <1>3 DEF Blocks, Patching
  <2>2. OneJump(j.point, pc)
    BY <1>2, <2>1 DEF Closed, Nothing
  <2>3. ASSUME NEW q \in (pc + 1)..Len(backpatchQueue) PROVE backpatchQueue[q].point # j.point
    BY <1>2, <2>2 DEF OneJump
  <2>4. \A q \in (pc + 1)..Len(backpatchQueue) : backpatchQueue[q].point \in 1..size
    BY <1>1, <1>2 DEF Types
  <2> HIDE DEF j, cond, to, flag
  <2>5. \A c \in 1..size : c # j.point => blocks'[c] = blocks[c]
    <3> DEFINE i == Branch(j, flag, to)
    <3>1. /\ blocks' = With(j.point, i) /\ i \in Instructions /\ j.point \in 1..size
          /\ size \in Nat /\ blocks \in [1..size -> Seq(Instructions)]
      BY <1>1, <1>2, <1>3, <1>8 DEF Types
    <3> HIDE DEF i
    <3> QED BY <3>1, WithBlocks
  <2>6. ASSUME NEW q \in (pc + 1)..Len(backpatchQueue)
        PROVE  blocks'[backpatchQueue[q].point] = blocks[backpatchQueue[q].point]
    <3>1. backpatchQueue[q].point \in 1..size /\ backpatchQueue[q].point # j.point
      BY <2>3, <2>4
    <3> QED BY <2>5, <3>1
  <2> QED BY <2>6
<1>11. ASSUME NEW from, from = pc', NEW k, k = Len(branchFlags') PROVE Fed(from, k)'
  <2>1. PICK p \in Nat \ {0} : p = pc /\ from = p + 1
    BY <1>2, <1>11
  <2>2. Fed(p, n) /\ p <= Len(backpatchQueue) /\ backpatchQueue' = backpatchQueue
    BY <1>2, <1>5, <2>1
  <2>3. Fed(p + 1, m)'
    BY <1>1, <1>6, <1>10, <2>1, <2>2, FedNext
  <2> QED BY <1>6, <1>11, <2>1, <2>3
<1>12. PatchingFlags'
  BY <1>11 DEF PatchingFlags
<1> QED BY <1>2, <1>9, <1>12 DEF Flags, ReadingFlags

\* No jump is left, so no flag is.
LEMMA FinishFlags == ASSUME IInv, CleanTable, Flags, finish PROVE Flags'
<1>1. branchFlags \in Seq(Args) /\ Len(backpatchQueue) \in Nat
  BY DEF IInv, Types
<1>2. /\ phase = "backpatch" /\ phase' = "finished" /\ pc = Len(backpatchQueue) + 1
      /\ UNCHANGED <<icodeTable, size, blocks, branchFlags, backpatchQueue>>
  BY DEF finish
<1>3. Fed(pc, Len(branchFlags))
  BY <1>2 DEF Flags, PatchingFlags
<1>4. PICK at \in [1..Len(branchFlags) -> pc..Len(backpatchQueue)] : TRUE
  BY <1>3 DEF Fed
<1>5. Len(branchFlags) = 0
  BY <1>1, <1>2, <1>4
<1>6. branchFlags = <<>>
  BY <1>1, <1>5
<1> QED BY <1>2, <1>6 DEF Flags, ReadingFlags, PatchingFlags

\* The invariant of the flags, for every set of tables.
THEOREM FlagsInductive == Spec => []FlagInv
<1>1. Init => FlagInv
  <2> SUFFICES ASSUME Init PROVE FlagInv
    OBVIOUS
  <2>1. /\ phase = "translate" /\ pc = 1 /\ branchFlags = <<>> /\ backpatchQueue = <<>>
        /\ size = 1 /\ blocks[1] = <<>>
    BY DEF Init, Start
  <2>2. ~Awaited /\ Len(branchFlags) = 0
    BY <2>1 DEF Awaited
  <2>3. Fed(1, 0)
    <3>1. PICK at : at = [i \in 1..0 |-> 1]
      OBVIOUS
    <3>2. at \in [1..0 -> 1..Len(backpatchQueue)]
      BY <3>1
    <3>3. Feeds(at, 1, 0)
      BY <2>1, <3>2 DEF Feeds
    <3> QED BY <3>2, <3>3 DEF Fed
  <2>4. \A b \in 1..size : Matched(blocks[b])
    <3>1. Matched(<<>>)
      BY DEF Matched
    <3> QED BY <2>1, <3>1
  <2> QED BY <2>1, <2>2, <2>3, <2>4, InitInv DEF FlagInv, Flags, ReadingFlags, PatchingFlags
<1>2. FlagInv /\ IInv' /\ [Next]_tvars => FlagInv'
  <2> SUFFICES ASSUME FlagInv, IInv', [Next]_tvars, CleanTable' PROVE Flags'
    BY DEF FlagInv
  <2>1. CASE Next
    <3>1. icodeTable' = icodeTable
      BY <2>1 DEF Next, ordinary, ret, createLabel, createGotoBackpatch, translated,
         processGotoBackpatch, finish, Advance
    <3>2. IInv /\ CleanTable /\ Flags
      BY <3>1 DEF CleanTable, FlagInv
    <3> QED BY <2>1, <3>2, OrdinaryFlags, RetFlags, CreateLabelFlags, CreateGotoBackpatchFlags,
            TranslatedFlags, ProcessFlags, FinishFlags DEF Next
  <2>2. CASE UNCHANGED tvars
    <3>1. Flags
      BY <2>2 DEF CleanTable, FlagInv, tvars
    <3>2. ASSUME NEW from, NEW n, Fed(from, n) PROVE Fed(from, n)'
      BY <2>2, <3>2, FedStays DEF tvars
    <3>3. Awaited' <=> Awaited
      BY <2>2 DEF tvars, Awaited
    <3>4. \A b, f : EndsWith(b, f) => EndsWith(b, f)'
      BY <2>2 DEF tvars, EndsWith
    <3> QED BY <2>2, <3>1, <3>2, <3>3, <3>4 DEF tvars, Flags, ReadingFlags, PatchingFlags
  <2> QED BY <2>1, <2>2
<1>3. Spec => []IInv
  BY Inductive
<1> QED BY <1>1, <1>2, <1>3, PTL DEF Spec

\* In every function without dead code whose compares are paired, each
\* conditional branch tests the compare right before it, whatever lies between
\* the two in the table's order of jumps, and no flag is left for the next function.
THEOREM EveryBranchHasItsFlag == Spec => []OwnFlagIfClean
<1>1. FlagInv => OwnFlagIfClean
  BY DEF FlagInv, CleanTable, Flags, Matched, OwnFlag, OwnFlagIfClean
<1> QED BY <1>1, FlagsInductive, PTL
=============================================================================
