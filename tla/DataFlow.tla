------------------------------- MODULE DataFlow -------------------------------
(***************************************************************************)
(* A function body of values, pointers, arrays and structures, compiled by *)
(* Units, and the code run the way the translator has it run: an action    *)
(* for every opcode (Translator/{ReadWriteCopy, FunctionCall,              *)
(* GetAndSetLLVM, CastOperator, ...}.cpp).  What the body left in memory   *)
(* is held against what it means (DataMeaning).  Pointers of the machine   *)
(* have no type.                                                           *)
(***************************************************************************)
EXTENDS Units, DataMeaning

CONSTANTS Programs,        \* [returns, statements]
          InitialMemory    \* the bytes of Variables and of what their pointers point to

VARIABLES
  program,
  icode,    \* functionDesc.icodeTable
  pc,
  regs,     \* operandValueMap, by operandId
  params,   \* ctx.params, by function
  m,        \* memory, as a callee sees it; there is none before the code
  status    \* "source" | "running" | "done" | "refused" | "internal" | "wild"

vars == <<program, icode, pc, regs, params, m, status>>

ReturnTo(p) == IF p.returns = Plain("void") THEN <<>> ELSE "ret" :> [k \in 1..sizeOfW(p.returns) |-> Junk]
InMemory(p) ==
  [mem  |-> InitialMemory @@ ReturnTo(p) @@ [t \in DOMAIN Texts |-> [k \in 1..Len(Texts[t]) + 1 |->
              <<<<"int", IF k > Len(Texts[t]) THEN 0 ELSE Texts[t][k]>>, 1, 1>>]],
   env  |-> [x \in DOMAIN Variables |-> Variables[x].written] @@ ("ret" :> p.returns),
   seen |-> <<>>, calls |-> 0, wild |-> FALSE, val |-> <<>>]

Init ==
  /\ program \in Programs
  /\ icode = <<>> /\ pc = 1 /\ regs = <<>>
  /\ params = [f \in DOMAIN Functions |-> <<>>]
  /\ m = <<>>
  /\ status = "source"

\* setupFunctionStack: an object for every symbol that is no parameter.
allocaSize(type) ==
  IF isPassedByReference(type) \/ isPointerType(type) THEN 8
  ELSE IF isStructOrArray(type) THEN type.size ELSE getDataTypeSize(type.dtype)
stackOf(symbols) == [x \in DOMAIN symbols |-> [k \in 1..allocaSize(symbols[x]) |-> Junk]]
afterCompilation(c) ==
  /\ icode' = c.icode
  /\ status' = CASE c.error = "none" -> "running" [] c.error = "internal" -> "internal" [] OTHER -> "refused"
  /\ m' = [InMemory(program) EXCEPT !.mem = @ @@ stackOf(c.symbols)]
Compile ==
  /\ status = "source"
  /\ afterCompilation(generateFunction(TypeWritten(program.returns), program.statements))
  /\ UNCHANGED <<program, pc, regs, params>>
------------------------------------------------------------------------------
\* Where a value cannot be had: the translator stops, or the machine is outside all objects.
Internal == <<"internal">>
Wild     == <<"wild">>

load(address, n)  == IF inside(m.mem, address, n) THEN decode(bytesAt(m.mem, address, n)) ELSE Wild
reach(address, n) == IF inside(m.mem, address, n) THEN address ELSE Wild

getLLVMPointerToPointer(op) ==
  CASE op.operandType = "PTR"          -> <<"ptr", op.name, 0>>
    [] op.operandType = "RET_PTR"      -> <<"ptr", "ret", 0>>
    [] op.operandType = "TEMP_PTR_PTR" -> regs[op.operandId]
    [] OTHER                           -> Internal
getLLVMPointer(op) ==
  CASE op.operandType \in {"VAR", "GBL_VAR", "STR_DATA"}    -> <<"ptr", op.name, 0>>
    [] op.operandType \in {"PTR", "TEMP_PTR_PTR"}           -> load(getLLVMPointerToPointer(op), 8)
    [] op.operandType = "RET_VALUE"                         -> <<"ptr", "ret", 0>>
    [] op.operandType \in {"TEMP_PTR", "CALLEE_RET_VAL"}    -> regs[op.operandId]
    [] op.operandType = "CALLEE_RET_PTR"                    -> load(regs[op.operandId], 8)
    [] OTHER                                                -> Internal
getLLVMConstant(op) == <<IF op.dtype \in Float THEN "flt" ELSE "int", op.val>>
getLLVMValue(op) ==
  CASE op.operandType \in {"LITERAL", "BYTES"}                   -> getLLVMConstant(op)
    [] op.operandType \in {"VAR", "GBL_VAR", "CALLEE_RET_VAL"}   -> load(getLLVMPointer(op), getDataTypeSize(op.dtype))
    [] op.operandType \in {"PTR", "CALLEE_RET_PTR", "TEMP_PTR_PTR"} -> getLLVMPointer(op)
    [] op.operandType \in {"TEMP_PTR", "TEMP"}                   -> regs[op.operandId]
    [] OTHER                                                     -> Internal

e == icode[pc]
at(opcodes) == status = "running" /\ e.opcode \in opcodes
\* The step that needs these values.
stepWith(values, newRegs, newM) ==
  /\ IF {Internal, Wild} \cap values = {}
     THEN regs' = newRegs /\ m' = newM /\ pc' = pc + 1 /\ status' = status
     ELSE /\ status' = IF Internal \in values THEN "internal" ELSE "wild"
          /\ UNCHANGED <<regs, m, pc>>
  /\ UNCHANGED <<program, icode>>
setRegister(op, value, values) == stepWith(values \cup {value}, (op.operandId :> value) @@ regs, m)
storeTo(address, dtype, value, values) ==
  stepWith(values \cup {value, reach(address, getDataTypeSize(dtype))}, regs,
           [m EXCEPT !.mem = overwrite(@, address, bytesOf(getDataTypeSize(dtype), value))])
setLLVMValue(op, value, values) ==
  CASE op.operandType \in {"TEMP", "TEMP_PTR", "TEMP_PTR_PTR", "CALLEE_RET_VAL", "CALLEE_RET_PTR"} -> setRegister(op, value, values)
    [] op.operandType \in {"VAR", "GBL_VAR", "RET_VALUE"} -> storeTo(getLLVMPointer(op), op.dtype, value, values)
    [] OTHER -> stepWith({Internal}, regs, m)
gives(value) == setLLVMValue(e.op1, value, {}) /\ UNCHANGED params
------------------------------------------------------------------------------
wrapped(dtype, value) == IF dtype = "UI8" THEN ofOneByte(value) ELSE value
\* The result of two values, if both are there.
ofBoth(v1, v2, Result(_, _)) == IF {v1, v2} \cap {Internal, Wild} = {} THEN Result(v1, v2)
                                ELSE IF Internal \in {v1, v2} THEN Internal ELSE Wild
product(v1, v2) == IF v1[1] = "int" /\ v2[1] = "int" THEN <<"int", v1[2] * v2[2]>> ELSE Torn
castOf(value, to, from) ==
  CASE to \in Float /\ value[1] = "int"                          -> <<"flt", value[2]>>
    [] to \in Integer /\ value[1] = "flt"                        -> wrapped(to, <<"int", value[2]>>)
    [] value[1] = "ptr" /\ getDataTypeSize(to) < 8               -> Torn
    [] OTHER                                                     -> wrapped(to, value)

Copy            == at({"EQUAL"}) /\ gives(getLLVMValue(e.op2))
PointerAssign   ==
  /\ at({"PTR_ASSIGN"})
  /\ IF getLLVMPointerToPointer(e.op1) = Internal THEN stepWith({Internal}, regs, m)
     ELSE storeTo(getLLVMPointerToPointer(e.op1), "I64", getLLVMPointer(e.op2), {})
  /\ UNCHANGED params
BinaryOperator  ==
  at({"ADD"}) /\ gives(ofBoth(getLLVMValue(e.op2), getLLVMValue(e.op3), LAMBDA v1, v2: wrapped(e.op1.dtype, plus(v1, v2))))
UnaryMinus      ==
  at({"UNARY_MINUS"}) /\ gives(ofBoth(getLLVMValue(e.op2), Null, LAMBDA v1, v2: wrapped(e.op1.dtype, negated(v1))))
CastOperator    == at({"CAST"}) /\ gives(castOf(getLLVMValue(e.op2), e.op1.dtype, e.op2.dtype))
PointerCast     == at({"PTR_CAST"}) /\ gives(IF e.op2.operandType \in {"TEMP", "LITERAL"} THEN getLLVMValue(e.op2)
                                             ELSE getLLVMPointer(e.op2))
AddrOperator    == at({"ADDR"}) /\ gives(getLLVMPointer(e.op2))
CreatePointer   ==
  at({"CREATE_PTR"}) /\ setRegister(e.op1, getLLVMPointer(e.op2), {}) /\ UNCHANGED params
AddressAdd      == at({"ADDR_ADD"}) /\ gives(ofBoth(getLLVMValue(e.op2), getLLVMValue(e.op3), plus))
AddressMultiply == at({"ADDR_MUL"}) /\ gives(ofBoth(getLLVMValue(e.op2), getLLVMValue(e.op3), product))
Read            == at({"READ"}) /\ gives(load(getLLVMPointer(e.op2), getDataTypeSize(e.op2.dtype)))
Write           == at({"WRITE"}) /\ storeTo(getLLVMPointer(e.op1), e.op2.dtype, getLLVMValue(e.op2), {}) /\ UNCHANGED params
MemCopy         ==
  /\ at({"MEMCPY"})
  /\ LET dest == getLLVMPointer(e.op1)
         src  == getLLVMPointer(e.op2)
     IN stepWith({dest, src, reach(dest, e.op3.val), reach(src, e.op3.val)}, regs,
                 [m EXCEPT !.mem = overwrite(@, dest, bytesAt(@, src, e.op3.val))])
  /\ UNCHANGED params

\* An object of the stack that has no name, told by the operand it is for.
stackAlloc(object, bytes, newM) ==
  stepWith({}, (e.op1.operandId :> <<"ptr", object, 0>>) @@ regs, [newM EXCEPT !.mem = (object :> bytes) @@ @])
AllocArrayPointer ==
  /\ at({"ALLOC_ARRAY_PTR"})
  /\ stackAlloc("t" \o ToString(e.op1.operandId), [k \in 1..e.op2.val |-> Junk], m)
  /\ UNCHANGED params

pushParam(value) ==
  /\ stepWith({value}, regs, m)
  /\ params' = [params EXCEPT ![e.op2.name] = Append(@, value)]
Pass               == at({"PASS"}) /\ pushParam(getLLVMValue(e.op1))
PassPointer        == at({"PASS_PTR"}) /\ pushParam(getLLVMPointer(e.op1))
PassPointerPointer == at({"PASS_PTR_PTR"}) /\ pushParam(getLLVMPointerToPointer(e.op1))
Call ==
  /\ at({"CALL"})
  /\ LET f == e.op2.name
     IN /\ stackAlloc("t" \o ToString(e.op1.operandId), returned(m, f), callee(m, f, params[f]))
        /\ params' = [params EXCEPT ![f] = <<>>]
Ret ==
  /\ at({"RET"})
  /\ status' = "done"
  /\ UNCHANGED <<program, icode, pc, regs, params, m>>

Next ==
  \/ Compile \/ Copy \/ PointerAssign \/ BinaryOperator \/ UnaryMinus \/ CastOperator \/ PointerCast \/ AddrOperator
  \/ CreatePointer \/ AllocArrayPointer \/ AddressAdd \/ AddressMultiply \/ Read \/ Write \/ MemCopy
  \/ Pass \/ PassPointer \/ PassPointerPointer \/ Call \/ Ret
Spec == Init /\ [][Next]_vars
------------------------------------------------------------------------------
(***************************************************************************)
(* Slips are left out: what is said is said of all other programs.         *)
(***************************************************************************)
Meant == FoldLeft(meaningOf, InMemory(program), program.statements)
hasASlip(start, types) ==
  \/ CastToItsOwnType(program, start, types) \/ NestedListPassed(program, types) \/ ShortTextPassed(program)
  \/ ReadBehindACall(program, start) \/ ListOfItsTarget(program) \/ CopyOfUnknownLength(program, start, types)
  \/ FieldsOfAnArray(program, types) \/ LaterTextIsLonger(program) \/ TextForAShorterOne(program)
  \/ GlobalPointer(program)
agreesWith(meant) ==
  /\ status = "done" /\ ~m.wild
  /\ \A x \in DOMAIN m.mem \cap DOMAIN meant.mem : m.mem[x] = meant.mem[x]
  /\ m.seen = meant.seen

\* A body that is compiled leaves every byte of every object as the source says, lets the functions it
\* calls see what the source passes them, and stays inside the objects unless the source itself leaves
\* them: through copies, conversions, offsets, destructuring and pointers, each of which takes several
\* entries of FunctionBuilder and ReadWriteCopy that must agree on a size, an offset and a level of address.
DoesWhatItSays ==
  status \in {"done", "wild"} =>
    hasASlip(m, typesIn(program, m)) \/ LET meant == Meant IN meant.wild \/ agreesWith(meant)

\* What is declared const, and what a parameter without mut gives, keeps its bytes whatever the body does,
\* also through a pointer it makes and a function it calls (LanguageGuide.md:435): the five places that ask
\* for IS_MUT leave no way round, but for the cast to the own type.
ConstStays ==
  [][(status = "running" /\ \E x \in DOMAIN Variables : Variables[x].kind \in {"const", "param"} /\ m'.mem[x] # m.mem[x])
       => CastToItsOwnType(program, m, typesIn(program, m))]_vars

\* What the type checks of the generator let through, the validator lets through, and the translator has a
\* value for: no body is answered with an internal error of the compiler (EntryValidator.cpp, ReadWriteCopy.cpp).
NoInternalError ==
  status = "internal" =>
    \/ ComputedPassedAsPointer(program) \/ OperandOfNoType(program)
    \/ FieldsOfAnArray(program, typesIn(program, m))
==============================================================================
