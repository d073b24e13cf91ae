----------------------------- MODULE MCTranslator -----------------------------
(***************************************************************************)
(* Every icode table of a given length in which each jump's label exists:  *)
(* two labels are enough for jumps that go back, forth and across each     *)
(* other.                                                                  *)
(***************************************************************************)
EXTENDS Translator, TLC

CONSTANT Length

Shapes == {<<"CMP", "">>, <<"RET", "">>, <<"CREATE_LABEL", "a">>, <<"CREATE_LABEL", "b">>,
           <<"GOTO", "a">>, <<"IF_TRUE_GOTO", "a">>, <<"IF_FALSE_GOTO", "b">>}

\* A compare is known by its position.
TableOf(shape) ==
  [i \in 1..Length |-> Entry(shape[i][1], IF shape[i][1] = "CMP" THEN ToString(i) ELSE shape[i][2])]

MCTables == {TableOf(s) : s \in {h \in [1..Length -> Shapes] :
                                   TargetsOf(TableOf(h)) \subseteq LabelsOf(TableOf(h))}}
=============================================================================
