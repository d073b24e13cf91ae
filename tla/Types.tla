-------------------------------- MODULE Types --------------------------------
(***************************************************************************)
(* What the compiler knows of an expression: its TypeDescription, the      *)
(* Operand of the intermediate code that holds it, and the two together,   *)
(* a Unit (Builder/Unit.cpp); when two types are the same                  *)
(* (Builder/TypeCheck.cpp) and how one is made of another                  *)
(* (TypeDescriptionUtil.cpp, TypeDescriptionFromNode.cpp).  All types are  *)
(* of one module: what they are in several is the matter of Names.         *)
(***************************************************************************)
EXTENDS Integers, Sequences, SequencesExt, FiniteSets, TLC, DataTypes

CONSTANTS Structs,    \* the structures of the module, in the order of the file: <<name, fields>>
          EnumTypes,  \* its enumerations
          EnumValues, \* <<enumeration, value>> of the names that are values of one
          Functions,  \* the functions: [params: sequence of [name, written, mut], returns: written type]
          Texts,      \* the characters of each text, as numbers, up to the nul behind them
          Variables,  \* what the working function starts with, by name: [written, kind]
          Alphabet    \* all names, in the order a std::map keeps them

\* A type as it is written: a name, and what follows it.
Plain(name)       == [name |-> name, modifier |-> "none", subscripts |-> <<>>]
Pointer(name)     == [name |-> name, modifier |-> "POINTER_STAR", subscripts |-> <<>>]
ArrayPointer(name) == [name |-> name, modifier |-> "EMPTY_SUBSCRIPT", subscripts |-> <<>>]
Array(name, dims) == [name |-> name, modifier |-> "SUBSCRIPT", subscripts |-> dims]
------------------------------------------------------------------------------
\* TypeDescription, its properties as the set of those that are set.
constructType(dtype, dtypeName, dtypeSize) ==
  [dtype |-> dtype, dtypeName |-> dtypeName, dtypeSize |-> dtypeSize, size |-> dtypeSize, offset |-> 0,
   dimensions |-> <<>>, dimTypes |-> <<>>, properties |-> {}]
typeDescriptionFromDataType(dtype) == constructType(dtype, dtype, getDataTypeSize(dtype))
voidType == constructType("VOID", "void", 0)

setProperty(type, p)   == [type EXCEPT !.properties = @ \cup {p}]
clearProperty(type, p) == [type EXCEPT !.properties = @ \ {p}]
checkProperty(type, p) == p \in type.properties

becomePointer(type)      == setProperty(type, "IS_PTR")
becomeArrayPointer(type) ==
  [setProperty(type, "IS_PTR") EXCEPT !.dimensions = <<1>>, !.dimTypes = <<"ALLOC_FLEXIBLE_DIM">>]
decayAutoType(type) ==
  LET decayed(dtype) == [type EXCEPT !.dtype = dtype, !.dtypeName = dtype, !.dtypeSize = getDataTypeSize(dtype),
                                     !.size = (@ \div type.dtypeSize) * getDataTypeSize(dtype)]
  IN CASE type.dtype = "AUTO_INT"   -> decayed("I32")
       [] type.dtype = "AUTO_FLOAT" -> decayed("F64")
       [] OTHER                     -> type

isStruct(type)        == type.dtype = "STRUCT"
isArray(type)         == type.dimensions # <<>>
isPointerType(type)   == checkProperty(type, "IS_PTR")
isMutable(type)       == checkProperty(type, "IS_MUT")
isStructOrArray(type) == isStruct(type) \/ isArray(type)
isStructOrArrayAndNotPointer(type) == isStructOrArray(type) /\ ~isPointerType(type)
isArrayWithFixedDim(type) == isArray(type) /\ Last(type.dimTypes) # "ALLOC_FLEXIBLE_DIM"
isPassedByReference(type) ==
  /\ checkProperty(type, "IS_PARAM")
  /\ isMutable(type) \/ isStructOrArrayAndNotPointer(type)
numElements(type) == type.dimensions[1]
------------------------------------------------------------------------------
\* TypeDescriptionUtil.cpp
RECURSIVE Product(_)
Product(dims) == IF dims = <<>> THEN 1 ELSE Head(dims) * Product(Tail(dims))
createArrayTypeDescription(type, dims, dimType) ==
  [type EXCEPT !.size = @ * Product(dims), !.dimensions = @ \o dims, !.dimTypes = @ \o [i \in DOMAIN dims |-> dimType]]
prependDimension(type, dim, dimType) ==
  [type EXCEPT !.size = @ * dim, !.dimensions = <<dim>> \o @, !.dimTypes = <<dimType>> \o @]
getBaseType(type) == [clearProperty(type, "IS_PTR") EXCEPT !.dimensions = <<>>, !.dimTypes = <<>>]
getElementType(type) ==
  IF ~isArrayWithFixedDim(type) THEN getBaseType(type)
  ELSE [type EXCEPT !.size = @ \div numElements(type), !.dimensions = Tail(@), !.dimTypes = Tail(@)]

\* ModuleBuilder::createTypeDescription, then addTypeModifiers.
typeDescriptionFromNode(structures, written) ==
  LET dtype == IF written.name \in EnumTypes THEN "ENUM" ELSE stringToDataType(written.name)
      size  == IF dtype = "STRUCT" THEN structures[written.name].size ELSE getDataTypeSize(dtype)
      type  == constructType(dtype, written.name, size)
  IN CASE written.modifier = "POINTER_STAR"    -> becomePointer(type)
       [] written.modifier = "EMPTY_SUBSCRIPT" -> becomeArrayPointer(type)
       [] written.modifier = "SUBSCRIPT"       -> createArrayTypeDescription(type, written.subscripts, "FIXED_DIM")
       [] OTHER                                -> type

\* ModuleBuilder::createStruct: fields one behind the other, a pointer takes eight bytes.
addField(struct, name, type) ==
  [size         |-> struct.size + IF isPointerType(type) THEN getDataTypeSize("AUTO_INT") ELSE type.size,
   fieldNames   |-> Append(struct.fieldNames, name),
   structFields |-> (name :> [type EXCEPT !.offset = struct.size]) @@ struct.structFields]
RECURSIVE addFields(_, _, _), createStructs(_, _)
addFields(struct, structures, fields) ==
  IF fields = <<>> THEN struct
  ELSE addFields(addField(struct, Head(fields)[1], typeDescriptionFromNode(structures, Head(fields)[2])), structures, Tail(fields))
createStructs(structures, declared) ==
  LET struct(fields) == addFields([size |-> 0, fieldNames |-> <<>>, structFields |-> <<>>], structures, fields)
  IN IF declared = <<>> THEN structures
     ELSE createStructs(structures @@ (Head(declared)[1] :> struct(Head(declared)[2])), Tail(declared))
theStructures == createStructs(<<>>, Structs)

TypeWritten(written)  == typeDescriptionFromNode(theStructures, written)
structOf(type)        == theStructures[type.dtypeName]
getFieldNames(type)   == structOf(type).fieldNames
mapKeys(names)        == SelectSeq(Alphabet, LAMBDA name: name \in names)
getFirstFieldDataType(struct) ==
  IF DOMAIN struct.structFields = {} THEN "STRUCT" ELSE struct.structFields[mapKeys(DOMAIN struct.structFields)[1]].dtype
isAllNamesStructFields(names, type) == isStruct(type) /\ Range(names) \subseteq DOMAIN structOf(type).structFields
------------------------------------------------------------------------------
\* Operand.cpp.  val is a literal, a number of bytes, or how long a text is.
NoOperand == [operandType |-> "NONE", dtype |-> "VOID", name |-> "", operandId |-> 0, val |-> 0]

isPointer(op)     == op.operandType \in {"PTR", "TEMP_PTR", "RET_PTR", "CALLEE_RET_PTR", "TEMP_PTR_PTR"}
isNotPointer(op)  == op.operandType \in {"TEMP", "LITERAL", "VAR", "GBL_VAR", "CALLEE_RET_VAL", "RET_VALUE"}
isUserPointer(op) == op.operandType \in {"PTR", "TEMP_PTR_PTR", "RET_PTR"}
isValidForPointerAssignment(op) ==
  op.operandType \in {"VAR", "GBL_VAR", "TEMP_PTR", "PTR", "CALLEE_RET_PTR", "RET_PTR", "TEMP_PTR_PTR"}

\* Unit.cpp
UnitOf(type, op)         == [type |-> type, op |-> op, list |-> <<>>]
UnitOfList(type, list)   == [type |-> type, op |-> NoOperand, list |-> list]
clearProperties(unit)    == [unit EXCEPT !.type.properties = @ \cap {"IS_PTR"}]
isList(unit)             == unit.list # <<>>
isStringLtrl(unit)       == checkProperty(unit.type, "IS_STRING_LTRL")
isLocalOrGlobal(unit)    == unit.type.properties \cap {"IS_LOCAL", "IS_GLOBAL"} # {}
isLocalOrGlobalAndNotParam(unit) == isLocalOrGlobal(unit) /\ ~checkProperty(unit.type, "IS_PARAM")
isValue(unit)            == ~isUserPointer(unit.op) /\ isLocalOrGlobal(unit)

RECURSIVE flatten(_)
flatten(units) ==
  IF units = <<>> THEN <<>>
  ELSE (IF isList(Head(units)) THEN flatten(Head(units).list) ELSE <<Head(units)>>) \o flatten(Tail(units))
------------------------------------------------------------------------------
\* TypeCheck.cpp.  A text fits where there is room for it.
\* Mutant: a text that is longer fits as well.
isSameDim_AnyText(type1, type2) ==
  /\ Len(type1.dimensions) = Len(type2.dimensions)
  /\ \/ isPointerType(type1) \/ isPointerType(type2)
     \/ \A i \in DOMAIN type1.dimensions :
          \/ "STRING_LTRL_DIM" \in {type1.dimTypes[i], type2.dimTypes[i]}
          \/ type1.dimensions[i] = type2.dimensions[i]
isSameDim(type1, type2) ==
  /\ Len(type1.dimensions) = Len(type2.dimensions)
  /\ \/ isPointerType(type1) \/ isPointerType(type2)
     \/ \A i \in DOMAIN type1.dimensions :
          LET dim1 == type1.dimensions[i]
              dim2 == type2.dimensions[i]
          IN CASE type1.dimTypes[i] = "STRING_LTRL_DIM" -> dim1 <= dim2
               [] type2.dimTypes[i] = "STRING_LTRL_DIM" -> dim2 <= dim1
               [] OTHER                                 -> dim1 = dim2

isSameTypeDescription(type1, type2) ==
  /\ IF {type1.dtype, type2.dtype} \subseteq Primitive THEN dataTypeIsEqual(type1.dtype, type2.dtype)
                                                       ELSE type1.dtypeName = type2.dtypeName
  /\ isSameDim(type1, type2)
isSameType(unit1, unit2) ==
  \/ isStringLtrl(unit1) /\ isStringLtrl(unit2)
  \/ isSameTypeDescription(unit1.type, unit2.type)
==============================================================================
