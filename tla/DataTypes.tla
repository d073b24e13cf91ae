------------------------------ MODULE DataTypes ------------------------------
(***************************************************************************)
(* The data types of the intermediate representation                       *)
(* (IntermediateRepresentation/DataType.cpp): the names a source file      *)
(* gives them, how many bytes a value takes, and which of them are one     *)
(* type.  AUTO_INT and AUTO_FLOAT are what a literal has until it meets a  *)
(* type.                                                                   *)
(***************************************************************************)
EXTENDS Naturals

dataTypeNames ==
  [byte |-> "I8", ubyte |-> "UI8", short |-> "I16", ushort |-> "UI16", int |-> "I32", uint |-> "UI32",
   long |-> "I64", ulong |-> "UI64", float |-> "F32", double |-> "F64", char |-> "UI8", bool |-> "I8",
   autoInt |-> "AUTO_INT", autoFloat |-> "AUTO_FLOAT", enum |-> "ENUM", struct |-> "STRUCT", void |-> "VOID"]
stringToDataType(name) == IF name \in DOMAIN dataTypeNames THEN dataTypeNames[name] ELSE "STRUCT"

getDataTypeSize(dtype) ==
  CASE dtype \in {"I8", "UI8"}                                    -> 1
    [] dtype \in {"I16", "UI16"}                                  -> 2
    [] dtype \in {"I32", "UI32", "F32", "ENUM"}                   -> 4
    [] dtype \in {"I64", "UI64", "F64", "AUTO_INT", "AUTO_FLOAT"} -> 8
    [] OTHER                                                      -> 0

Signed   == {"I8", "I16", "I32", "I64", "AUTO_INT"}
Unsigned == {"UI8", "UI16", "UI32", "UI64", "ENUM"}
Integer  == Signed \cup Unsigned
Float    == {"F32", "F64", "AUTO_FLOAT"}
\* isPrimitive: the types no declaration makes.
Primitive == (Integer \ {"ENUM"}) \cup Float \cup {"VOID"}

dataTypeIsEqual(dtype1, dtype2) ==
  \/ dtype1 = dtype2
  \/ /\ "AUTO_INT" \in {dtype1, dtype2}
     /\ {dtype1, dtype2} \subseteq Integer
  \/ /\ "AUTO_FLOAT" \in {dtype1, dtype2}
     /\ {dtype1, dtype2} \subseteq Float
==============================================================================
