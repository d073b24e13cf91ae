-------------------------------- MODULE Icode --------------------------------
(***************************************************************************)
(* The part of the intermediate representation that control flow uses      *)
(* (IntermediateRepresentation/Entry.hpp, Instructions.hpp): what the      *)
(* generator writes to a function's icodeTable and the translator reads.   *)
(* CALL stands for every instruction that neither branches nor compares.   *)
(***************************************************************************)
Conditional == {"IF_TRUE_GOTO", "IF_FALSE_GOTO"}
Jump        == Conditional \cup {"GOTO"}
Plain       == {"CALL", "CMP"}
Opcodes     == Jump \cup Plain \cup {"CREATE_LABEL", "RET"}

\* An entry; arg is the label of a jump or CREATE_LABEL, what a call does,
\* or the token of a compare.
Entry(op, arg) == [op |-> op, arg |-> arg]
=============================================================================
