------------------------------ MODULE Validator ------------------------------
(***************************************************************************)
(* Builder/Validator: what FunctionBuilder::pushEntry asserts of every     *)
(* entry of the intermediate code before it is appended.  An entry that    *)
(* does not hold is an internal error of the compiler.                     *)
(***************************************************************************)
EXTENDS Types

none(op)                == op.operandType = "NONE"
nonVoidBaseDataType(op) == op.dtype \notin {"STRUCT", "VOID"}
nonVoidDataType(op)     == op.dtype # "VOID"
operandsOf(e)           == {e.op1, e.op2, e.op3}
oneOperand(e)           == ~none(e.op1) /\ none(e.op2) /\ none(e.op3)
twoOperand(e)           == ~none(e.op1) /\ ~none(e.op2) /\ none(e.op3)
threeOperand(e)         == \A op \in operandsOf(e) : ~none(op)
allOperandNonPointer(e) == isNotPointer(e.op1) /\ isNotPointer(e.op2) /\ (none(e.op3) \/ isNotPointer(e.op3))
allOperandEqualDataType(e)      == e.op1.dtype = e.op2.dtype /\ (none(e.op3) \/ e.op2.dtype = e.op3.dtype)
allOperandNonVoidBaseDataType(e) == nonVoidBaseDataType(e.op1) /\ \A op \in operandsOf(e) : none(op) \/ nonVoidBaseDataType(op)
allOperandNonVoidDataType(e)     == nonVoidDataType(e.op1) /\ \A op \in operandsOf(e) : none(op) \/ nonVoidDataType(op)

\* OperandValidator.cpp.  Only names and texts carry a name.
validOperand(op) ==
  CASE op.operandType \in {"TEMP", "BYTES", "LITERAL"}                 -> nonVoidBaseDataType(op) /\ op.name = ""
    [] op.operandType \in {"TEMP_PTR", "TEMP_PTR_PTR", "RET_VALUE", "RET_PTR", "CALLEE_RET_VAL", "CALLEE_RET_PTR"}
                                                                       -> op.name = ""
    [] op.operandType \in {"VAR", "GBL_VAR", "PTR"}                    -> op.name # ""
    [] op.operandType = "STR_DATA"                                     -> op.dtype = "UI8" /\ op.name # ""
    [] op.operandType \in {"LABEL", "MODULE"}                          -> op.dtype = "VOID" /\ op.name # ""
    [] op.operandType = "NONE"                                         -> op.dtype = "VOID" /\ op.name = ""
------------------------------------------------------------------------------
\* EntryValidator.cpp, a predicate for every group of opcodes.
equal(e)         == twoOperand(e) /\ isNotPointer(e.op1) /\ isNotPointer(e.op2) /\ allOperandNonVoidBaseDataType(e)
pointerAssign(e) == twoOperand(e) /\ isUserPointer(e.op1) /\ allOperandNonVoidDataType(e)
binaryOperater(e) ==
  /\ threeOperand(e) /\ e.op1.operandType = "TEMP" /\ allOperandNonPointer(e)
  /\ allOperandEqualDataType(e) /\ allOperandNonVoidBaseDataType(e)
unaryOrCastOperator(e) == twoOperand(e) /\ allOperandNonPointer(e) /\ allOperandNonVoidBaseDataType(e)
addrEntry(e)     == twoOperand(e) /\ e.op1.dtype \in Integer /\ isPointer(e.op2)
pointerCastEntry(e) ==
  /\ twoOperand(e) /\ e.op1.operandType = "TEMP_PTR" /\ allOperandNonVoidDataType(e)
  /\ isValidForPointerAssignment(e.op2) \/ (isNotPointer(e.op2) /\ e.op2.dtype \in Integer)
createPointerEntry(e) ==
  /\ twoOperand(e) /\ isPointer(e.op1) /\ e.op2.operandType \notin {"MODULE", "LABEL"}
  /\ nonVoidDataType(e.op1) /\ nonVoidDataType(e.op2)
allocArrayPointer(e) == twoOperand(e) /\ isPointer(e.op1) /\ e.op2.operandType = "BYTES" /\ allOperandNonVoidDataType(e)
addrAdd(e) ==
  /\ threeOperand(e) /\ e.op1.operandType \in {"TEMP_PTR", "TEMP_PTR_PTR"} /\ isPointer(e.op2)
  /\ e.op3.operandType \in {"TEMP_PTR", "BYTES"} /\ e.op3.dtype \in {"VOID", "AUTO_INT"}
  /\ nonVoidDataType(e.op1) /\ nonVoidDataType(e.op2)
addrMul(e) ==
  /\ threeOperand(e) /\ e.op1.operandType = "TEMP_PTR" /\ e.op1.dtype = "VOID"
  /\ isNotPointer(e.op2) /\ e.op2.dtype \in Integer
  /\ e.op3.operandType = "BYTES" /\ e.op3.dtype = "AUTO_INT"
readEntry(e)  == twoOperand(e) /\ isNotPointer(e.op1) /\ isPointer(e.op2) /\ allOperandNonVoidBaseDataType(e)
writeEntry(e) == twoOperand(e) /\ isPointer(e.op1) /\ isNotPointer(e.op2) /\ allOperandNonVoidBaseDataType(e)
toCallee(e)   == threeOperand(e) /\ e.op2.operandType = "VAR" /\ e.op3.operandType = "MODULE"
pass(e)       == toCallee(e) /\ isNotPointer(e.op1) /\ nonVoidBaseDataType(e.op1)
passAddress(e) == toCallee(e) /\ (isPointer(e.op1) \/ e.op1.operandType = "STR_DATA") /\ nonVoidDataType(e.op1)
passPointer(e) == toCallee(e) /\ isUserPointer(e.op1) /\ nonVoidDataType(e.op1)
call(e)       == toCallee(e) /\ e.op1.operandType \in {"CALLEE_RET_VAL", "CALLEE_RET_PTR"}
memoryCopy(e) ==
  /\ threeOperand(e) /\ isPointer(e.op1) /\ isPointer(e.op2)
  /\ e.op3.operandType = "LITERAL" /\ e.op3.dtype = "AUTO_INT"
  /\ nonVoidDataType(e.op1) /\ nonVoidDataType(e.op2)

validateEntry(e) ==
  /\ \A op \in operandsOf(e) : validOperand(op)
  /\ CASE e.opcode = "EQUAL"                  -> equal(e)
       [] e.opcode = "PTR_ASSIGN"             -> pointerAssign(e)
       [] e.opcode = "ADD"                    -> binaryOperater(e)
       [] e.opcode \in {"UNARY_MINUS", "CAST"} -> unaryOrCastOperator(e)
       [] e.opcode = "ADDR"                   -> addrEntry(e)
       [] e.opcode = "PTR_CAST"               -> pointerCastEntry(e)
       [] e.opcode = "CREATE_PTR"             -> createPointerEntry(e)
       [] e.opcode = "ALLOC_ARRAY_PTR"        -> allocArrayPointer(e)
       [] e.opcode = "ADDR_ADD"               -> addrAdd(e)
       [] e.opcode = "ADDR_MUL"               -> addrMul(e)
       [] e.opcode = "READ"                   -> readEntry(e)
       [] e.opcode = "WRITE"                  -> writeEntry(e)
       [] e.opcode = "PASS"                   -> pass(e)
       [] e.opcode = "PASS_PTR"               -> passAddress(e)
       [] e.opcode = "PASS_PTR_PTR"           -> passPointer(e)
       [] e.opcode = "CALL"                   -> call(e)
       [] e.opcode = "MEMCPY"                 -> memoryCopy(e)
       [] e.opcode = "RET"                    -> \A op \in operandsOf(e) : none(op)
==============================================================================
