----------------------------- MODULE MCListBuffer -----------------------------
(***************************************************************************)
(* Lists of up to MaxLength elements of two kinds.  They start with up to  *)
(* two elements, so that the block (2 n + 1 slots) fills up and grows.     *)
(***************************************************************************)
EXTENDS ListBuffer, TLC

CONSTANTS a, b

MCValue == {a, b}
MCArray == {<<>>, <<a>>, <<a, b>>, <<b, a>>, <<b, b, a>>}

==============================================================================
