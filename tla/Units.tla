-------------------------------- MODULE Units --------------------------------
(***************************************************************************)
(* From expressions and statements over values to intermediate code:       *)
(* Generator/{Expression, Assignment, Local, UnitFromIdentifier,           *)
(* PassParamCheck}.cpp and the half of Builder/FunctionBuilder.cpp they    *)
(* call.  Conditions and loops are the matter of CodeGen, resource         *)
(* management hooks that of FunctionBody: no type here has any, and what   *)
(* is left of callResourceMgmtHook is its walk over the fields.            *)
(*                                                                         *)
(* An operator takes the context of the compiler and returns the next one: *)
(* the code so far, the symbols of the working function, the error it      *)
(* stopped with, and in op, unit and units what the C++ function returns.  *)
(*                                                                         *)
(* The tree of a program, as the parser leaves it:                         *)
(*   <<"int", n>> <<"char", n>> <<"float", n>> <<"text", name>>            *)
(*   <<"name", x, path>>, a path of <<"field", f>> and <<"at", e>>         *)
(*   <<"list", es>> <<"add", e, e>> <<"minus", e>> <<"addr", e>>           *)
(*   <<"cast", type, e>> <<"ptrcast", written type, e>> <<"call", f, es>>  *)
(***************************************************************************)
EXTENDS Validator

\* The properties a declaration gives a variable, by its kind.
kindProperties ==
  [var |-> {"IS_LOCAL", "IS_MUT"}, const |-> {"IS_LOCAL"}, global |-> {"IS_GLOBAL", "IS_MUT"},
   param |-> {"IS_LOCAL", "IS_PARAM"}, mut |-> {"IS_LOCAL", "IS_PARAM", "IS_MUT"}]
declaredType(written, kind) == [TypeWritten(written) EXCEPT !.properties = @ \cup kindProperties[kind]]
theSymbols ==
  [x \in {x \in DOMAIN Variables : Variables[x].kind # "global"} |-> declaredType(Variables[x].written, Variables[x].kind)]
Globals ==
  [x \in {x \in DOMAIN Variables : Variables[x].kind = "global"} |-> declaredType(Variables[x].written, "global")]

Literal(dtype, value) == [NoOperand EXCEPT !.operandType = "LITERAL", !.dtype = dtype, !.val = value]
Bytes(n)              == [NoOperand EXCEPT !.operandType = "BYTES", !.dtype = "AUTO_INT", !.val = n]
Named(operandType, dtype, name) == [NoOperand EXCEPT !.operandType = operandType, !.dtype = dtype, !.name = name]

IntUnit(n)   == UnitOf(typeDescriptionFromDataType("AUTO_INT"), Literal("AUTO_INT", n))
CharUnit(n)  == UnitOf(typeDescriptionFromDataType("AUTO_INT"), Literal("UI8", n))
FloatUnit(n) == UnitOf(typeDescriptionFromDataType("AUTO_FLOAT"), Literal("AUTO_FLOAT", n))
EnumUnit(x)  == UnitOf([typeDescriptionFromDataType("ENUM") EXCEPT !.dtypeName = EnumValues[x][1]],
                       Literal("ENUM", EnumValues[x][2]))
TextUnit(t)  ==
  UnitOf(setProperty(createArrayTypeDescription(typeDescriptionFromDataType("UI8"), <<Len(Texts[t])>>, "STRING_LTRL_DIM"),
                     "IS_STRING_LTRL"),
         [Named("STR_DATA", "UI8", t) EXCEPT !.val = Len(Texts[t])])
unitFromTypeDescription(type, name) ==
  UnitOf(type, Named(CASE checkProperty(type, "IS_GLOBAL") -> "GBL_VAR"
                       [] isPointerType(type)              -> "PTR"
                       [] OTHER                            -> "VAR", type.dtype, name))
unitFromUnitList(list) ==
  LET first == list[1].type
  IN clearProperties(UnitOfList(
       prependDimension(first, Len(list), IF checkProperty(first, "IS_STRING_LTRL") THEN "STRING_LTRL_DIM" ELSE "FIXED_DIM"),
       list))

FormalUnit(f, i) ==
  LET param == Functions[f].params[i]
  IN unitFromTypeDescription(declaredType(param.written, IF param.mut THEN "mut" ELSE "param"), param.name)
ReturnType(f) == TypeWritten(Functions[f].returns)
------------------------------------------------------------------------------
EmptyContext(symbols, returnType) ==
  [icode |-> <<>>, ids |-> 0, symbols |-> symbols, returnType |-> returnType, error |-> "none",
   op |-> NoOperand, unit |-> UnitOf(voidType, NoOperand), units |-> <<>>]
going(c)          == c.error = "none"
stop(c, error)    == IF going(c) THEN [c EXCEPT !.error = error] ELSE c
\* console.compileErrorOnToken, when the condition holds.
refuseIf(c, condition, why) == IF going(c) /\ condition THEN [c EXCEPT !.error = why] ELSE c
giveOp(c, op)     == [c EXCEPT !.op = op]
giveUnit(c, unit) == [c EXCEPT !.unit = unit]

\* OperandBuilder: an operand of this kind with an id of its own.
create(c, operandType, dtype) ==
  [c EXCEPT !.ids = @ + 1, !.op = [NoOperand EXCEPT !.operandType = operandType, !.dtype = dtype, !.operandId = c.ids + 1]]

RECURSIVE perform(_, _)
\* What is asked for from many places is asked for by perform.
pushEntry(c, opcode, op1, op2, op3) == perform(c, <<"entry", [opcode |-> opcode, op1 |-> op1, op2 |-> op2, op3 |-> op3]>>)
createPointer(c, unit)              == perform(c, <<"pointer", unit>>)
getStructFieldFromString(c, field, unit) == perform(c, <<"field", field, unit>>)
createLocal(c, name, type)          == perform(c, <<"new", name, type>>)
unitCopy(c, dest, src)              == perform(c, <<"copy", dest, src>>)
evaluate(c, e, typeHint)            == perform(c, <<"evaluate", e, typeHint>>)
entryPushed(c, entry) ==
  IF ~going(c) THEN c
  ELSE IF validateEntry(entry) THEN [c EXCEPT !.icode = Append(@, entry)]
  ELSE [c EXCEPT !.error = "internal"]
\* An entry whose result is the operand just created.
pushInto(c, opcode, op2, op3) == pushEntry(c, opcode, c.op, op2, op3)

autoCast(c, op, dtype) ==
  IF op.dtype = dtype THEN giveOp(c, op) ELSE pushInto(create(c, "TEMP", dtype), "CAST", op, NoOperand)
ensureNotPointer(c, op) ==
  IF ~isPointer(op) THEN giveOp(c, op) ELSE pushInto(create(c, "TEMP", op.dtype), "READ", op, NoOperand)
castIt(c, dtype)      == autoCast(c, c.op, dtype)
valueAs(c, op, dtype) == castIt(ensureNotPointer(c, op), dtype)

storeIt(c, dest)          == pushEntry(c, IF isPointer(dest) THEN "WRITE" ELSE "EQUAL", dest, c.op, NoOperand)
operandCopy(c, dest, src) == storeIt(valueAs(c, src, dest.dtype), dest)
memCopyIt(c, to, numBytes) == pushEntry(c, "MEMCPY", to, c.op, Literal("AUTO_INT", numBytes))

createPointerDest(c, type) ==
  create(c, "TEMP_PTR", IF isStruct(type) THEN getFirstFieldDataType(structOf(type)) ELSE type.dtype)
pointerCreated(c, unit) ==
  IF isPointer(unit.op) /\ ~isStruct(unit.type) THEN giveOp(c, unit.op)
  ELSE pushInto(createPointerDest(c, unit.type), "CREATE_PTR", unit.op, NoOperand)
unitOfIt(c, type)  == giveUnit(c, UnitOf(type, c.op))
cleanOfIt(c, type) == giveUnit(c, clearProperties(UnitOf(type, c.op)))
createTempArray(c, type, n) ==
  cleanOfIt(pushInto(createPointerDest(c, type), "ALLOC_ARRAY_PTR", Bytes(type.dtypeSize * n), NoOperand),
            becomeArrayPointer(type))

addressAddOperator(c, kind, op2, op3) == pushInto(create(c, kind, op2.dtype), "ADDR_ADD", op2, op3)
multiplyIt(c, op3) == pushInto(create(c, "TEMP_PTR", "VOID"), "ADDR_MUL", c.op, op3)
addressMultiplyOperator(c, op2, op3) == multiplyIt(ensureNotPointer(c, op2), op3)
------------------------------------------------------------------------------
\* Fields and elements.
addOffset(c, kind, offset) == addressAddOperator(c, kind, c.op, Bytes(offset))
fieldOfIt(c, type)         == giveUnit(c, UnitOf(type, [c.op EXCEPT !.dtype = type.dtype]))
fieldOf(c, type, unit)     ==
  fieldOfIt(addOffset(createPointer(c, unit), IF isPointerType(type) THEN "TEMP_PTR_PTR" ELSE "TEMP_PTR", type.offset), type)
\* Mutant: a field of a structure that is immutable can be modified.
structFieldOf_Mutable(c, field, unit) ==
  fieldOf(c, [structOf(unit.type).structFields[field] EXCEPT
                !.properties = @ \cup {"IS_MUT"} \cup (unit.type.properties \cap {"IS_LOCAL", "IS_GLOBAL"})], unit)
structFieldOf(c, field, unit) ==
  fieldOf(c, [structOf(unit.type).structFields[field] EXCEPT
                !.properties = @ \cup (unit.type.properties \cap {"IS_MUT", "IS_LOCAL", "IS_GLOBAL"})], unit)

RECURSIVE addSubscripts(_, _, _, _, _)
\* The loop of getIndexedElement from the k-th index on, at the element c.op.
addIt(c, element) == addressAddOperator(c, "TEMP_PTR", element, c.op)
addSubscripts(c, unit, indices, k, width) ==
  IF k > Len(indices) THEN unitOfIt(c, [unit.type EXCEPT !.dimensions = SubSeq(@, k, Len(@))])
  ELSE addSubscripts(addIt(addressMultiplyOperator(c, indices[k].op, Bytes(width)), c.op),
                     [unit EXCEPT !.type.size = width], indices, k + 1,
                     IF k < Len(unit.type.dimensions) THEN width \div unit.type.dimensions[k + 1] ELSE width)
getIndexedElement(c, unit, indices) ==
  addSubscripts(createPointer(c, unit), unit, indices, 1, unit.type.size \div numElements(unit.type))

\* n units, one after the other, each left in unit by Make.
giveUnits(c, n, Make(_, _)) ==
  LET next(before, made) == [made EXCEPT !.units = Append(before.units, made.unit)]
  IN FoldLeft(LAMBDA before, k: IF going(before) THEN next(before, Make(before, k)) ELSE before,
              [c EXCEPT !.units = <<>>], [k \in 1..n |-> k])

destructureArray(c, unit) ==
  giveUnits(c, numElements(unit.type), LAMBDA before, k: getIndexedElement(before, unit, <<IntUnit(k - 1)>>))
destructureStruct(c, unit) ==
  giveUnits(c, Len(getFieldNames(unit.type)), LAMBDA before, k: getStructFieldFromString(before, getFieldNames(unit.type)[k], unit))
destructureUnit(c, unit) ==
  CASE ~going(c)          -> c
    [] isList(unit)       -> [c EXCEPT !.units = unit.list]
    [] isArray(unit.type) -> destructureArray(c, unit)
    [] OTHER              -> destructureStruct(c, unit)
\* destructureStructMapped: the units in the order of the map, then the field of that name.
destructureStructMapped(c, unit) ==
  LET fields == mapKeys(DOMAIN structOf(unit.type).structFields)
  IN giveUnits(c, Len(fields), LAMBDA before, k: getStructFieldFromString(before, fields[k], unit))
mapped(c, unit, field) ==
  LET fields == mapKeys(DOMAIN structOf(unit.type).structFields)
  IN c.units[CHOOSE k \in DOMAIN fields : fields[k] = field]
------------------------------------------------------------------------------
\* Copies.
RECURSIVE callResourceMgmtHook(_, _)
callResourceMgmtHook(c, unit) ==
  IF ~isStruct(unit.type) \/ isUserPointer(unit.op) \/ isArray(unit.type) THEN c
  ELSE FoldLeft(LAMBDA before, field:
                  LET hook(at) == callResourceMgmtHook(at, at.unit) IN hook(getStructFieldFromString(before, field, unit)),
                c, getFieldNames(unit.type))

RECURSIVE copyUnits(_, _, _, _)
copyUnit(c, to, unit) ==
  IF isStructOrArray(unit.type) THEN memCopyIt(createPointer(c, unit), to, unit.type.size) ELSE operandCopy(c, to, unit.op)
\* The loop of unitListCopy, at the element c.op of dest.
copyUnits(c, dest, units, k) ==
  LET update == dest.type.dtypeSize * IF isArray(units[k].type) THEN Last(dest.type.dimensions) ELSE 1
  IN IF ~going(c) THEN c
     ELSE IF k = Len(units) THEN copyUnit(c, c.op, units[k])
     ELSE copyUnits(addressAddOperator(copyUnit(c, c.op, units[k]), "TEMP_PTR", c.op, Bytes(update)), dest, units, k + 1)
unitListCopy(c, dest, src) == copyUnits(createPointer(c, dest), dest, flatten(src.list), 1)

copyFrom(c, src, numBytes)  == memCopyIt(createPointer(c, src), c.op, numBytes)
copyBytes(c, dest, src)     == copyFrom(createPointer(c, dest), src, src.type.size)
hookIf(c, condition, unit)  == IF condition THEN callResourceMgmtHook(c, unit) ELSE c
\* Mutant: what is copied of an array is the size of one element.
copyHooked_OneElement(c, dest, src) ==
  CASE isList(src)                -> unitListCopy(c, dest, src)
    [] isStructOrArray(dest.type) -> copyFrom(createPointer(c, dest), src, src.type.dtypeSize)
    [] OTHER                      -> operandCopy(c, dest.op, src.op)
copyHooked(c, dest, src) ==
  CASE isList(src)                -> unitListCopy(c, dest, src)
    [] isStructOrArray(dest.type) -> copyBytes(c, dest, src)
    [] OTHER                      -> operandCopy(c, dest.op, src.op)
unitCopied(c, dest, src) ==
  copyHooked(
    hookIf(hookIf(c, \/ isLocalOrGlobalAndNotParam(dest)
                     \/ dest.op.operandType = "RET_VALUE" /\ isLocalOrGlobalAndNotParam(src), src),
           isLocalOrGlobalAndNotParam(dest), dest),
    dest, src)
unitPointerAssign(c, to, src) == pushEntry(c, "PTR_ASSIGN", to.op, src.op, NoOperand)

\* Operators.
addInto(c, dtype, left)  == pushInto(create(c, "TEMP", dtype), "ADD", left, c.op)
\* Mutant: the right operand keeps the type it has.
addWith_AsItIs(c, dtype, right) == addInto(ensureNotPointer(c, right), dtype, c.op)
addWith(c, dtype, right) == addInto(valueAs(c, right, dtype), dtype, c.op)
binaryOperator(c, LHS, RHS) == cleanOfIt(addWith(ensureNotPointer(c, LHS.op), LHS.type.dtype, RHS.op), LHS.type)
minusIt(c, dtype)        == pushInto(create(c, "TEMP", dtype), "UNARY_MINUS", c.op, NoOperand)
unaryOperator(c, unit)   == cleanOfIt(minusIt(ensureNotPointer(c, unit.op), unit.type.dtype), unit.type)
castOperator(c, unit, dtype) == unitOfIt(valueAs(c, unit.op, dtype), typeDescriptionFromDataType(dtype))
addrOperator(c, unit) ==
  unitOfIt(pushInto(create(c, "TEMP", "AUTO_INT"), "ADDR", unit.op, NoOperand), typeDescriptionFromDataType("AUTO_INT"))
pointerCastOperator(c, unit, type) ==
  cleanOfIt(pushInto(create(c, "TEMP_PTR", type.dtype), "PTR_CAST", unit.op, NoOperand), type)
------------------------------------------------------------------------------
\* Locals.
RECURSIVE containsPointer(_)
containsPointer(type) ==
  \/ isPointerType(type)
  \/ isStruct(type) /\ \E field \in Range(getFieldNames(type)) : containsPointer(structOf(type).structFields[field])

RECURSIVE ensurePointersNullInitializer(_, _)
ensurePointersNullInitializer(c, local) ==
  LET assign(null) == unitPointerAssign(null, local, null.unit)
      each(at)     == ensurePointersNullInitializer(at, at.unit)
  IN CASE ~containsPointer(local.type) -> c
       [] isUserPointer(local.op)      -> assign(pointerCastOperator(c, IntUnit(0), local.type))
       [] isArray(local.type)          ->
            FoldLeft(LAMBDA before, k: each(getIndexedElement(before, local, <<IntUnit(k - 1)>>)),
                     c, [k \in 1..numElements(local.type) |-> k])
       [] OTHER                        ->
            FoldLeft(LAMBDA before, field: each(getStructFieldFromString(before, field, local)),
                     c, getFieldNames(local.type))

localCreated(c, name, type) ==
  LET local == [type EXCEPT !.properties = (@ \cup {"IS_LOCAL"}) \ {"IS_PARAM", "IS_GLOBAL"}]
      unit  == unitFromTypeDescription(local, name)
      made  == [c EXCEPT !.symbols = (name :> local) @@ @]
  IN IF ~going(c) THEN c
     ELSE IF name \in DOMAIN c.symbols THEN stop(c, "Symbol already defined")
     ELSE giveUnit(ensurePointersNullInitializer(made, unit), unit)
------------------------------------------------------------------------------
\* Calls.
\* Mutant: an immutable value may be passed where a pointer is expected.
passParamCheck_PointerToConst(c, formal, actual) ==
  LET mutable(unit) == isMutable(unit.type)
  IN refuseIf(c, \/ ~isSameType(formal, actual)
                 \/ isUserPointer(formal.op) /\ actual.op.operandType = "LITERAL"
                 \/ /\ mutable(formal)
                    /\ \/ isUserPointer(formal.op) /\ ~isUserPointer(actual.op)
                       \/ ~mutable(actual),
              "Cannot pass parameter")
passParamCheck(c, formal, actual) ==
  LET mutable(unit) == isMutable(unit.type)
  IN refuseIf(c, \/ ~isSameType(formal, actual)
                 \/ isUserPointer(formal.op) /\ actual.op.operandType = "LITERAL"
                 \/ /\ mutable(formal)
                    /\ \/ isUserPointer(formal.op) /\ ~isUserPointer(actual.op)
                       \/ ~mutable(actual)
                 \/ /\ ~mutable(formal)
                    /\ isUserPointer(formal.op) /\ ~mutable(actual) /\ isValue(actual),
              "Cannot pass parameter")
createPointerForPassAddress(c, actual, formal) ==
  LET filled(array) == giveOp(unitCopy(array, array.unit, actual), array.op)
  IN IF isList(actual) THEN filled(createTempArray(c, formal.type, numElements(actual.type)))
     ELSE createPointer(c, actual)

passParameter(c, f, formal, actual) ==
  LET mutable == isMutable(formal.type)
      pointer == isPointerType(formal.type)
      passed(opcode, at) ==
        pushEntry(at, opcode, at.op, Named("VAR", ReturnType(f).dtype, f), Named("MODULE", "VOID", "module"))
  IN IF ~going(c) THEN c
     ELSE IF mutable /\ pointer THEN passed("PASS_PTR_PTR", giveOp(c, actual.op))
     ELSE IF mutable \/ pointer \/ isStructOrArray(formal.type)
     THEN passed("PASS_PTR", createPointerForPassAddress(c, actual, formal))
     ELSE passed("PASS", valueAs(c, actual.op, formal.type.dtype))

callFunction(c, f) ==
  unitOfIt(pushInto(create(c, IF isPointerType(ReturnType(f)) THEN "CALLEE_RET_PTR" ELSE "CALLEE_RET_VAL", ReturnType(f).dtype),
                    "CALL", Named("VAR", ReturnType(f).dtype, f), Named("MODULE", "VOID", "module")),
           ReturnType(f))
createCallFunction(c, f, actuals) ==
  LET checked(before, formal, actual) == passParameter(passParamCheck(before, formal, actual), f, formal, actual)
  IN IF ~going(c) THEN c
     ELSE IF Len(actuals) # Len(Functions[f].params) THEN stop(c, "Number of parameters don't match")
     ELSE callFunction(FoldLeft(LAMBDA before, i: checked(before, FormalUnit(f, i), actuals[i]), c, [i \in DOMAIN actuals |-> i]), f)
------------------------------------------------------------------------------
(***************************************************************************)
(* Expressions.  evaluate leaves the unit of an expression in c.unit;      *)
(* typeHint is the type it is wanted for, which only lists look at.        *)
(***************************************************************************)
expression(c, e) == evaluate(c, e, voidType)

getUnitFromToken(c, name) ==
  CASE name \in DOMAIN c.symbols  -> giveUnit(c, unitFromTypeDescription(c.symbols[name], name))
    [] name \in DOMAIN Globals    -> giveUnit(c, unitFromTypeDescription(Globals[name], name))
    [] name \in DOMAIN EnumValues -> giveUnit(c, EnumUnit(name))
    [] OTHER                      -> stop(c, "Symbol does not exist")

structField(c, field, unit) ==
  IF ~isStruct(unit.type) \/ isArray(unit.type) THEN stop(c, "Cannot get struct field")
  ELSE IF field \notin DOMAIN structOf(unit.type).structFields THEN stop(c, "Struct field does not exist")
  ELSE getStructFieldFromString(c, field, unit)

\* subscript: all the indices that follow one another.
subscript(c, indices, unit) ==
  LET index(before, e) == expression(before, e)
      wrong(at)        == refuseIf(at, at.unit.type.dtype \notin Integer \/ isArray(at.unit.type), "Index must be an integer")
      element(at)      == IF going(at) THEN getIndexedElement(at, unit, at.units) ELSE at
  IN IF ~isArray(unit.type) THEN stop(c, "Cannot index a non array")
     ELSE IF Len(indices) > Len(unit.type.dimensions) THEN stop(c, "Too many subscripts")
     ELSE element(giveUnits(c, Len(indices), LAMBDA before, k: wrong(index(before, indices[k]))))

RECURSIVE follow(_, _)
\* The loop of getUnitFromIdentifier: what follows the name, at the unit so far.
follow(c, path) ==
  LET firstField == SelectInSeq(path, LAMBDA step: step[1] = "field")
      run        == IF firstField = 0 THEN Len(path) ELSE firstField - 1
  IN IF path = <<>> \/ ~going(c) THEN c
     ELSE IF run = 0 THEN follow(structField(c, path[1][2], c.unit), Tail(path))
     ELSE follow(subscript(c, [k \in 1..run |-> path[k][2]], c.unit), SubSeq(path, run + 1, Len(path)))

cast(c, name) ==
  LET dtype == IF name \in EnumTypes THEN "ENUM" ELSE stringToDataType(name)
  IN IF ~going(c) THEN c
     ELSE IF dtype = "STRUCT" \/ isStructOrArray(c.unit.type) THEN stop(c, "Cannot cast")
     ELSE castOperator(c, c.unit, dtype)
pointerCast(c, written) ==
  IF ~going(c) THEN c
  ELSE IF ~isValidForPointerAssignment(c.unit.op) /\ c.unit.type.dtype \notin Integer
  THEN stop(c, "Invalid expression for pointer cast")
  ELSE pointerCastOperator(c, c.unit, TypeWritten(written))
minus(c) ==
  IF ~going(c) THEN c
  ELSE IF isStructOrArray(c.unit.type) \/ c.unit.type.dtype = "ENUM" THEN stop(c, "Unary operator not allowed")
  ELSE unaryOperator(c, c.unit)
addr(c) ==
  IF ~going(c) THEN c
  ELSE IF ~isPointer(c.unit.op) THEN stop(c, "Cannot apply addr operator to non pointer")
  ELSE addrOperator(c, c.unit)

initializerList(c, es, typeHint) ==
  LET same(before, at) == refuseIf(at, before.units # <<>> /\ ~isSameType(Last(before.units), at.unit), "type error")
      listOf(at)       == IF going(at) THEN giveUnit(at, unitFromUnitList(at.units)) ELSE at
  IN listOf(giveUnits(c, Len(es), LAMBDA before, k: same(before, evaluate(before, es[k], getElementType(typeHint)))))

\* ordinaryExpressionWithHint: LHS is there, now RHS; no structure has an operator of its own.
sum(c, LHS) ==
  IF ~going(c) THEN c
  ELSE IF isStructOrArray(LHS.type) \/ ~isSameType(LHS, c.unit) THEN stop(c, "Operator not allowed")
  ELSE binaryOperator(c, LHS, c.unit)
add(c, e) == IF going(c) THEN sum(evaluate(c, e, c.unit.type), c.unit) ELSE c

functionCall(c, f, es) ==
  LET hint(k)  == IF k <= Len(Functions[f].params) THEN FormalUnit(f, k).type ELSE voidType
      call1(at) == createCallFunction(at, f, at.units)
  IN call1(giveUnits(c, Len(es), LAMBDA before, k: evaluate(before, es[k], hint(k))))

evaluated(c, e, typeHint) ==
  CASE ~going(c)          -> c
    [] e[1] = "int"       -> giveUnit(c, IntUnit(e[2]))
    [] e[1] = "char"      -> giveUnit(c, CharUnit(e[2]))
    [] e[1] = "float"     -> giveUnit(c, FloatUnit(e[2]))
    [] e[1] = "text"      -> giveUnit(c, TextUnit(e[2]))
    [] e[1] = "name"      -> follow(getUnitFromToken(c, e[2]), e[3])
    [] e[1] = "list"      -> initializerList(c, e[2], typeHint)
    [] e[1] = "add"       -> add(expression(c, e[2]), e[3])
    [] e[1] = "minus"     -> minus(expression(c, e[2]))
    [] e[1] = "addr"      -> addr(expression(c, e[2]))
    [] e[1] = "cast"      -> cast(expression(c, e[3]), e[2])
    [] e[1] = "ptrcast"   -> pointerCast(expression(c, e[3]), e[2])
    [] e[1] = "call"      -> functionCall(c, e[2], e[3])
------------------------------------------------------------------------------
(***************************************************************************)
(* Statements.                                                             *)
(*   <<"assign", lhs, operator, rhs>>   <<"unpack", lhss, rhs>>            *)
(*   <<"local", kind, name, written, operator, rhs>>                       *)
(*   <<"walrus", kind, name, rhs>>      <<"unpackLocal", kind, names, rhs>> *)
(*   <<"each", names, call>>            <<"return", e>>  <<"expression", e>> *)
(***************************************************************************)
\* Mutant: nothing is asked of the right hand side of "<-" but that it is in memory.
assignmentFromTree_ArrowFromConst(c, assignment, operator, LHS, RHS) ==
  IF ~going(c) THEN c
  ELSE IF LHS.op.operandType = "LITERAL" \/ ~isSameType(LHS, RHS) \/ (assignment /\ ~isMutable(LHS.type))
  THEN stop(c, "Cannot assign")
  ELSE IF operator = "="
  THEN IF (isUserPointer(LHS.op) /\ ~assignment) \/ (isArray(LHS.type) /\ isUserPointer(RHS.op))
       THEN stop(c, "Pointer where a value is due")
       ELSE unitCopy(c, LHS, RHS)
  ELSE IF operator = "<-"
  THEN IF ~isUserPointer(LHS.op) \/ ~isValidForPointerAssignment(RHS.op)
       THEN stop(c, "Invalid pointer assignment")
       ELSE unitPointerAssign(c, LHS, RHS)
  ELSE stop(c, "Cannot assign")
assignmentFromTree(c, assignment, operator, LHS, RHS) ==
  LET copyIt(at) == unitCopy(at, LHS, at.unit)
  IN IF ~going(c) THEN c
     ELSE IF \/ LHS.op.operandType = "LITERAL"
             \/ (~isStruct(LHS.type) \/ operator \in {"=", "<-"}) /\ ~isSameType(LHS, RHS)
             \/ assignment /\ ~isMutable(LHS.type)
             \/ isArray(LHS.type) /\ operator \notin {"=", "<-"}
     THEN stop(c, "Cannot assign")
     ELSE IF operator = "="
     THEN IF (isUserPointer(LHS.op) /\ ~assignment) \/ (isArray(LHS.type) /\ isUserPointer(RHS.op))
          THEN stop(c, "Pointer where a value is due")
          ELSE unitCopy(c, LHS, RHS)
     ELSE IF operator = "<-"
     THEN IF ~isUserPointer(LHS.op) \/ ~isValidForPointerAssignment(RHS.op) \/ (~isMutable(RHS.type) /\ isValue(RHS))
          THEN stop(c, "Invalid pointer assignment")
          ELSE unitPointerAssign(c, LHS, RHS)
     ELSE IF isStruct(LHS.type) THEN stop(c, "No such operator")
     ELSE copyIt(binaryOperator(c, LHS, RHS))

assignRight(c, assignment, operator, LHS) == assignmentFromTree(c, assignment, operator, LHS, c.unit)
assign(c, operator, rhs) == IF going(c) THEN assignRight(evaluate(c, rhs, c.unit.type), TRUE, operator, c.unit) ELSE c

onlyNames(es) == \A i \in DOMAIN es : es[i][1] = "name" /\ es[i][3] = <<>>
namesIn(es)   == [i \in DOMAIN es |-> es[i][2]]
each(c, n, Do(_, _)) == FoldLeft(Do, c, [k \in 1..n |-> k])

orderedUnpack(c, left) ==
  IF ~going(c) THEN c
  ELSE IF Len(left) # Len(c.units) THEN stop(c, "Number of assignments do not match")
  ELSE each(c, Len(left), LAMBDA at, k: assignmentFromTree(at, TRUE, "=", left[k], c.units[k]))
namedUnpack(c, left, names, from) ==
  IF ~going(c) THEN c
  ELSE each(c, Len(left), LAMBDA at, k: assignmentFromTree(at, TRUE, "=", left[k], mapped(c, from, names[k])))
unpackInto(c, es, left, from) ==
  IF ~going(c) THEN c
  ELSE IF ~isStructOrArrayAndNotPointer(from.type) THEN stop(c, "Cannot destructure")
  ELSE IF onlyNames(es) /\ isAllNamesStructFields(namesIn(es), from.type)
  THEN namedUnpack(destructureStructMapped(c, from), left, namesIn(es), from)
  ELSE orderedUnpack(destructureUnit(c, from), left)
unpackRight(c, es, left)   == unpackInto(c, es, left, c.unit)
destructuredAssignment(c, es, rhs) == IF going(c) THEN unpackRight(expression(c, rhs), es, c.unit.list) ELSE c

localType(kind, type) == IF kind = "var" THEN setProperty(type, "IS_MUT") ELSE type
initialise(c, operator, rhs) == IF going(c) THEN assignRight(evaluate(c, rhs, c.unit.type), FALSE, operator, c.unit) ELSE c

copyToIt(c, RHS) == IF going(c) THEN unitCopy(c, c.unit, RHS) ELSE c
\* Mutant: the literal keeps the type it has until it meets another.
createWalrusLocal_NoDecay(c, kind, name, RHS) ==
  IF ~going(c) THEN c
  ELSE IF RHS.type.dtype = "VOID" THEN stop(c, "Cannot assign a void type")
  ELSE copyToIt(createLocal(c, name, localType(kind, [RHS.type EXCEPT !.properties = @ \ {"IS_PTR", "IS_MUT"}])), RHS)
createWalrusLocal(c, kind, name, RHS) ==
  IF ~going(c) THEN c
  ELSE IF RHS.type.dtype = "VOID" THEN stop(c, "Cannot assign a void type")
  ELSE copyToIt(createLocal(c, name, decayAutoType(localType(kind, [RHS.type EXCEPT !.properties = @ \ {"IS_PTR", "IS_MUT"}]))), RHS)
walrus(c, kind, name) == createWalrusLocal(c, kind, name, c.unit)

orderedLocals(c, kind, names) ==
  IF ~going(c) THEN c
  ELSE IF Len(names) # Len(c.units) THEN stop(c, "Number of locals do not match")
  ELSE each(c, Len(names), LAMBDA at, k: createWalrusLocal(at, kind, names[k], c.units[k]))
namedLocals(c, kind, names, from) ==
  IF ~going(c) THEN c ELSE each(c, Len(names), LAMBDA at, k: createWalrusLocal(at, kind, names[k], mapped(c, from, names[k])))
destructureLocal(c, kind, names) ==
  IF ~going(c) THEN c
  ELSE IF ~isStructOrArrayAndNotPointer(c.unit.type) THEN stop(c, "Cannot destructure")
  ELSE IF isAllNamesStructFields(names, c.unit.type)
  THEN namedLocals(destructureStructMapped(c, c.unit), kind, names, c.unit)
  ELSE orderedLocals(destructureUnit(c, c.unit), kind, names)

\* The items of a for each loop, and the copy of the next item into them.
itemTypes(names, type) ==
  CASE isAllNamesStructFields(names, type) ->
         LET fields == mapKeys(DOMAIN structOf(type).structFields)
         IN [k \in DOMAIN fields |-> [name |-> fields[k], type |-> structOf(type).structFields[fields[k]]]]
    [] isArray(type) -> [k \in 1..numElements(type) |-> [name |-> names[k], type |-> getElementType(type)]]
    [] OTHER         -> [k \in DOMAIN getFieldNames(type) |->
                           [name |-> names[k], type |-> structOf(type).structFields[getFieldNames(type)[k]]]]
forEachLoopInitItem(c, names, type) ==
  LET n == IF isArray(type) THEN numElements(type) ELSE Len(getFieldNames(type))
  IN IF Len(names) = 1 THEN giveUnits(c, 1, LAMBDA at, k: createLocal(at, names[1], setProperty(type, "IS_MUT")))
     ELSE IF ~isStructOrArrayAndNotPointer(type) THEN stop(c, "Cannot destructure")
     ELSE IF Len(names) # n
     THEN stop(c, IF isAllNamesStructFields(names, type) THEN "internal" ELSE "Number of for each locals do not match")
     ELSE giveUnits(c, n, LAMBDA at, k: createLocal(at, itemTypes(names, type)[k].name, itemTypes(names, type)[k].type))
nextItems(c, items) == IF going(c) THEN each(c, Len(items), LAMBDA at, k: unitCopy(at, items[k], c.units[k])) ELSE c
forEachLoopNextItem(c, items) ==
  IF ~going(c) THEN c
  ELSE IF Len(items) = 1 THEN unitCopy(c, items[1], c.unit)
  ELSE nextItems(destructureUnit(c, c.unit), items)
eachItem(c, call1) == IF going(c) THEN forEachLoopNextItem(expression(c, call1), c.units) ELSE c

functionReturnUnit(c) ==
  UnitOf(c.returnType, [NoOperand EXCEPT !.operandType = IF isPointerType(c.returnType) THEN "RET_PTR" ELSE "RET_VALUE",
                                         !.dtype = c.returnType.dtype])
createReturnValue(c, to, RHS) ==
  IF ~going(c) THEN c
  ELSE IF ~isSameType(to, RHS) THEN stop(c, "type error")
  ELSE IF ~isUserPointer(to.op) THEN unitCopy(c, to, RHS)
  ELSE IF ~isValidForPointerAssignment(RHS.op) \/ (~isMutable(RHS.type) /\ isValue(RHS))
  THEN stop(c, "Invalid expression for pointer return")
  ELSE unitPointerAssign(c, to, RHS)
returnIt(c) == createReturnValue(c, functionReturnUnit(c), c.unit)
createReturnAndCallDeconstructors(c) ==
  LET names == SelectSeq(mapKeys(DOMAIN c.symbols), LAMBDA name: ~checkProperty(c.symbols[name], "IS_PARAM"))
  IN IF ~going(c) THEN c
     ELSE pushEntry(FoldLeft(LAMBDA at, name: callResourceMgmtHook(at, unitFromTypeDescription(c.symbols[name], name)), c, names),
                    "RET", NoOperand, NoOperand, NoOperand)

statement(c, s) ==
  CASE s[1] = "assign"      -> assign(expression(c, s[2]), s[3], s[4])
    [] s[1] = "unpack"      -> destructuredAssignment(expression(c, <<"list", s[2]>>), s[2], s[3])
    [] s[1] = "local"       -> initialise(createLocal(c, s[3], localType(s[2], TypeWritten(s[4]))), s[5], s[6])
    [] s[1] = "walrus"      -> walrus(expression(c, s[4]), s[2], s[3])
    [] s[1] = "unpackLocal" -> destructureLocal(expression(c, s[4]), s[2], s[3])
    [] s[1] = "each"        -> eachItem(forEachLoopInitItem(c, s[2], ReturnType(s[3][2])), s[3])
    [] s[1] = "return"      -> createReturnAndCallDeconstructors(returnIt(evaluate(c, s[2], c.returnType)))
    [] s[1] = "expression"  -> expression(c, s[2])

\* block, then terminateFunction.
terminateFunction(c) ==
  IF c.icode # <<>> /\ Last(c.icode).opcode = "RET" THEN c
  ELSE IF c.returnType.dtype = "VOID" THEN createReturnAndCallDeconstructors(c)
  ELSE stop(c, "Missing return for function")
statementOf(c, s) == perform(c, <<"statement", s>>)
perform(c, step) ==
  CASE step[1] = "entry"     -> entryPushed(c, step[2])
    [] step[1] = "copy"      -> unitCopied(c, step[2], step[3])
    [] step[1] = "evaluate"  -> evaluated(c, step[2], step[3])
    [] step[1] = "pointer"   -> pointerCreated(c, step[2])
    [] step[1] = "field"     -> structFieldOf(c, step[2], step[3])
    [] step[1] = "new"       -> localCreated(c, step[2], step[3])
    [] step[1] = "statement" -> statement(c, step[2])
    [] step[1] = "body"      -> terminateFunction(FoldLeft(statementOf, c, step[2]))

generateFunction(returnType, statements) == perform(EmptyContext(theSymbols, returnType), <<"body", statements>>)
==============================================================================
