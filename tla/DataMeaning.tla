----------------------------- MODULE DataMeaning -----------------------------
(***************************************************************************)
(* What a statement means, said of the source alone                        *)
(* (docs/LanguageGuide.md: variables, pointers, arrays, structures,        *)
(* destructuring, functions): which bytes of which object change, and to   *)
(* what.  A name of a pointer stands for what it points to, except to the  *)
(* left of "<-" and where a function takes it by "mut".  Nothing here      *)
(* looks at a TypeDescription, a Unit or the intermediate code.            *)
(*                                                                         *)
(* m is the memory of Memory, with the types of the names in env and the   *)
(* bytes an expression leaves in val.                                      *)
(***************************************************************************)
EXTENDS Memory

give(m, val)            == [m EXCEPT !.val = val]
declared(m, name, w, bytes) == [m EXCEPT !.env = (name :> w) @@ @, !.mem = (name :> bytes) @@ @]
Name(x)                 == <<"name", x, <<>>>>
\* Something that has no name of its own, under a name of its own, left in val.
temporary(m, w, bytes)  ==
  LET x == "m" \o ToString(Cardinality(DOMAIN m.mem))
  IN give(declared(m, x, w, [k \in DOMAIN bytes |-> IF bytes[k] = Keep THEN Junk ELSE bytes[k]]), <<"ptr", x, 0>>)
------------------------------------------------------------------------------
(***************************************************************************)
(* A place is an address and the type of what is there; the type of what   *)
(* an array pointer points to is that of an array of unknown length.       *)
(***************************************************************************)
Elements(name) == [name |-> name, modifier |-> "elements", subscripts |-> <<>>]
Place(address, w) == [address |-> address, w |-> w]

RECURSIVE answer(_, _)
\* What is asked of a memory from many places, or needs one of the others: the type of an expression, its
\* bytes as a w, its address, the place it names, and what a call, a statement, an assignment to p and a
\* new local leave.
typeIs(m, e)          == answer(m, <<"type", e>>)
mean(m, e, w)         == answer(m, <<"bytes", e, w>>)
addressOf(m, e, w)    == answer(m, <<"address", e, w>>)
cellOf(m, e)          == answer(m, <<"cell", e>>)
callOf(m, f, es)      == answer(m, <<"call", f, es>>)
meaningOf(m, s)       == answer(m, <<"statement", s>>)
become(m, p, e)       == answer(m, <<"become", p, e>>)
newLocal(m, name, w)  == answer(m, <<"new", name, w>>)
numberOf(m, e)        == LET value == decode(mean(m, e, Plain("long")).val) IN IF value[1] = "int" THEN value[2] ELSE 0
\* What a pointer points to.
follows(m, p) ==
  IF ~isPointerW(p.w) THEN p
  ELSE Place(pointerAt(m, p.address), IF p.w.modifier = "POINTER_STAR" THEN pointeeW(p.w) ELSE Elements(p.w.name))
further(address, n) == plus(address, <<"int", n>>)
offsetOfW(w, name) ==
  sizeOfAll(SubSeq(partsOfW(w), 1, SelectInSeq(fieldsOfW(w), LAMBDA field: field[1] = name) - 1))
fieldW(w, name) == SelectSeq(fieldsOfW(w), LAMBDA field: field[1] = name)[1][2]
stepTo(m, p, step) ==
  LET element(w) == Place(further(p.address, numberOf(m, step[2]) * sizeOfW(w)), w)
  IN CASE step[1] = "field"         -> Place(further(p.address, offsetOfW(p.w, step[2])), fieldW(p.w, step[2]))
       [] p.w.modifier = "elements" -> element(pointeeW(p.w))
       [] OTHER                     -> element(elementW(p.w))
\* The place a name with its path denotes, and the one it stands for.
cellMeant(m, e) == FoldLeft(LAMBDA p, step: stepTo(m, follows(m, p), step), Place(<<"ptr", e[2], 0>>, m.env[e[2]]), e[3])
placeOf(m, e)   == follows(m, cellOf(m, e))

isPlace(m, e) == e[1] = "name" /\ e[2] \in DOMAIN m.env
typeMeant(m, e) ==
  CASE e[1] \in {"int", "char"} -> Plain("int")
    [] e[1] = "addr"    -> Plain("long")
    [] e[1] = "float"   -> Plain("double")
    [] e[1] = "text"    -> Array("char", <<Len(Texts[e[2]])>>)
    [] e[1] = "name"    -> IF isPlace(m, e) THEN placeOf(m, e).w ELSE Plain(EnumValues[e[2]][1])
    [] e[1] = "list"    -> LET w == typeIs(m, e[2][1]) IN Array(w.name, <<Len(e[2])>> \o w.subscripts)
    [] e[1] \in {"add", "minus"} -> typeIs(m, e[2])
    [] e[1] = "cast"    -> Plain(e[2])
    [] e[1] = "ptrcast" -> follows(m, Place(Null, e[2])).w
    [] e[1] = "call"    -> follows(m, Place(Null, Functions[e[2]].returns)).w
------------------------------------------------------------------------------
(***************************************************************************)
(* Values.  mean leaves the bytes of e where a w is wanted in val; what a  *)
(* text does not reach stays as it is.                                     *)
(***************************************************************************)
\* No text reaches behind the array it is wanted for.
fitting(bytes, w) == IF isArrayW(w) /\ Len(bytes) > sizeOfW(w) THEN SubSeq(bytes, 1, sizeOfW(w)) ELSE bytes
padded(bytes, w) == bytes \o [k \in 1..(sizeOfW(w) - Len(bytes)) |-> Keep]
converted(name, value) ==
  CASE value[1] = "int" /\ name = "double" -> <<"flt", value[2]>>
    [] value[1] = "flt" /\ name # "double" -> <<"int", value[2]>>
    [] name = "char"                       -> ofOneByte(value)
    [] OTHER                               -> value
scalar(m, e) == LET r == mean(m, e, typeIs(m, e)) IN give(r, decode(r.val))

ofPlace(m, p, w) ==
  IF ~inside(m.mem, p.address, sizeOfW(p.w)) THEN [m EXCEPT !.wild = TRUE, !.val = build(w, LAMBDA s, k: Torn)]
  ELSE IF isScalarW(p.w) THEN give(m, encode(w, decode(bytesAt(m.mem, p.address, sizeOfW(p.w)))))
  ELSE give(m, bytesAt(m.mem, p.address, sizeOfW(p.w)))

\* Where an argument, or what is right of "<-", is; what is nowhere gets a place of its own.
addressMeant(m, e, w) ==
  CASE isPlace(m, e)    -> give(m, placeOf(m, e).address)
    [] e[1] = "ptrcast" -> addressOf(m, e[3], w)
    [] e[1] = "call" /\ isPointerW(Functions[e[2]].returns) -> LET r == callOf(m, e[2], e[3]) IN give(r, decode(r.val))
    [] e[1] = "text"    -> give(m, <<"ptr", e[2], 0>>)
    [] e[1] = "int"     -> give(m, <<"int", e[2]>>)
    [] OTHER            -> LET want == CASE ~isPointerW(w)    -> w
                                         [] e[1] = "list"     -> Array(w.name, <<Len(e[2])>>)
                                         [] OTHER             -> typeIs(m, e)
                               r    == mean(m, e, want)
                           IN temporary(r, want, r.val)
argument(m, e, param) ==
  CASE isPointerW(param.written) /\ param.mut -> give(m, cellOf(m, e).address)
    [] isScalarW(param.written) /\ ~param.mut -> LET r == mean(m, e, param.written) IN give(r, decode(r.val))
    [] OTHER                                  -> addressOf(m, e, param.written)
callMeant(m, f, es) ==
  LET next(args, at) == <<at, Append(args, at.val)>>
      got == FoldLeft(LAMBDA before, i: next(before[2], argument(before[1], es[i], Functions[f].params[i])),
                      <<m, <<>>>>, [i \in DOMAIN es |-> i])
  IN give(callee(got[1], f, got[2]), returned(got[1], f))

bytesMeant(m, e, w) ==
  CASE e[1] \in {"int", "char"} -> give(m, encode(w, <<"int", e[2]>>))
    [] e[1] = "float"   -> give(m, encode(w, <<"flt", e[2]>>))
    [] e[1] = "text"    -> give(m, fitting([k \in DOMAIN Texts[e[2]] |-> <<<<"int", Texts[e[2]][k]>>, 1, 1>>], w))
    [] e[1] = "name"    -> IF isPlace(m, e) THEN ofPlace(m, placeOf(m, e), w)
                           ELSE give(m, encode(w, <<"int", EnumValues[e[2]][2]>>))
    [] e[1] = "list"    -> FoldLeft(LAMBDA before, one: LET at == mean(before, one, elementW(w))
                                                        IN give(at, before.val \o padded(at.val, elementW(w))),
                                    give(m, <<>>), e[2])
    [] e[1] = "add"     -> LET left  == scalar(m, e[2])
                               right == scalar(left, e[3])
                           IN give(right, encode(w, plus(left.val, right.val)))
    [] e[1] = "minus"   -> LET r == scalar(m, e[2]) IN give(r, encode(w, negated(r.val)))
    [] e[1] = "addr"    -> give(m, encode(w, placeOf(m, e[2]).address))
    [] e[1] = "cast"    -> LET r == scalar(m, e[3]) IN give(r, encode(w, converted(e[2], r.val)))
    [] e[1] = "ptrcast" -> LET r == addressOf(m, e[3], e[2]) IN ofPlace(r, Place(r.val, typeIs(r, e)), w)
    [] e[1] = "call"    -> LET r == callOf(m, e[2], e[3])
                           IN CASE isPointerW(Functions[e[2]].returns) -> ofPlace(r, Place(decode(r.val), typeIs(r, e)), w)
                                [] isScalarW(Functions[e[2]].returns)  -> give(r, encode(w, decode(r.val)))
                                [] OTHER                               -> r
------------------------------------------------------------------------------
(***************************************************************************)
(* Statements.  Pointers of a new local are null; assignments that come of *)
(* one destructuring are made one after the other, from left to right.     *)
(***************************************************************************)
becomeMeant(m, p, e) ==
  LET r == mean(m, e, IF p.w.modifier = "elements" THEN typeIs(m, e) ELSE p.w) IN putBytes(r, p.address, r.val)
arrow(m, cell, e) == LET r == addressOf(m, e, cell.w) IN putBytes(r, cell.address, encode(cell.w, r.val))
localMeant(m, name, w)  == declared(m, name, w, build(w, LAMBDA s, k: IF isPointerW(s) THEN Null ELSE Torn))
assigned(m, lhs, operator, rhs) ==
  CASE operator = "="  -> become(m, placeOf(m, lhs), rhs)
    [] operator = "<-" -> arrow(m, cellOf(m, lhs), rhs)
    [] operator = "+=" -> become(m, placeOf(m, lhs), <<"add", lhs, rhs>>)
\* An address is a whole number like any other where no type is given.
typeOfNew(m, e) == IF e[1] = "addr" THEN Plain("int") ELSE typeIs(m, e)
newFrom(m, name, e) == LET w == typeOfNew(m, e) IN become(newLocal(m, name, w), Place(<<"ptr", name, 0>>, w), e)

\* The parts of what is destructured, as expressions: what has no place of its own is computed before.
held(m, e) ==
  IF isPlace(m, e) \/ e[1] \in {"int", "char", "float", "text", "list", "name"} THEN <<m, e>>
  ELSE LET w == typeIs(m, e)
           r == mean(m, e, w)
           t == temporary(r, w, r.val)
       IN <<t, Name(t.val[2])>>
heldAll(m, es) ==
  FoldLeft(LAMBDA before, e: LET one == held(before[1], e) IN <<one[1], Append(before[2], one[2])>>, <<m, <<>>>>, es)
partOf(e, step) == [e EXCEPT ![3] = Append(@, step)]
partsOf(w, e) ==
  CASE e[1] = "list" -> e[2]
    [] isArrayW(w)   -> [k \in 1..w.subscripts[1] |-> partOf(e, <<"at", <<"int", k - 1>>>>)]
    [] OTHER         -> [k \in DOMAIN fieldsOfW(w) |-> partOf(e, <<"field", fieldsOfW(w)[k][1]>>)]
byName(names, w) == isStructW(w) /\ Range(names) \subseteq {fieldsOfW(w)[k][1] : k \in DOMAIN fieldsOfW(w)}
\* names is empty where what is left of it is not all names.
unpackWith(m, w, e, names, Do(_, _, _)) ==
  LET parts == IF names # <<>> /\ byName(names, w) THEN [k \in DOMAIN names |-> partOf(e, <<"field", names[k]>>)]
               ELSE partsOf(w, e)
  IN FoldLeft(LAMBDA before, k: Do(before, k, parts[k]), m, [k \in DOMAIN parts |-> k])
unpackFrom(m, rhs, names, Do(_, _, _)) ==
  LET w     == typeIs(m, rhs)
      items == heldAll(m, rhs[2])
      whole == held(m, rhs)
  IN IF rhs[1] = "list" THEN unpackWith(items[1], w, <<"list", items[2]>>, names, Do)
     ELSE unpackWith(whole[1], w, whole[2], names, Do)
namesOnly(es) == IF \A k \in DOMAIN es : es[k][1] = "name" /\ es[k][3] = <<>> THEN [k \in DOMAIN es |-> es[k][2]] ELSE <<>>

itemsOf(m, names, w) ==
  CASE Len(names) = 1   -> newLocal(m, names[1], w)
    [] byName(names, w) -> FoldLeft(LAMBDA before, x: newLocal(before, x, fieldW(w, x)), m, names)
    [] isArrayW(w)      -> FoldLeft(LAMBDA before, x: newLocal(before, x, elementW(w)), m, names)
    [] OTHER            -> FoldLeft(LAMBDA before, k: newLocal(before, names[k], fieldsOfW(w)[k][2]),
                                    m, [k \in DOMAIN names |-> k])
nextOf(m, names, call1) ==
  IF Len(names) = 1 THEN become(m, placeOf(m, Name(names[1])), call1)
  ELSE unpackFrom(m, call1, names, LAMBDA before, k, part: become(before, placeOf(before, Name(names[k])), part))

statementMeant(m, s) ==
  CASE s[1] = "assign"      -> assigned(m, s[2], s[3], s[4])
    [] s[1] = "local"       -> assigned(newLocal(m, s[3], s[4]), Name(s[3]), s[5], s[6])
    [] s[1] = "walrus"      -> newFrom(m, s[3], s[4])
    [] s[1] = "unpack"      -> unpackFrom(m, s[3], namesOnly(s[2]),
                                          LAMBDA before, k, part: become(before, placeOf(before, s[2][k]), part))
    [] s[1] = "unpackLocal" -> unpackFrom(m, s[4], s[3], LAMBDA before, k, part: newFrom(before, s[3][k], part))
    [] s[1] = "each"        -> nextOf(itemsOf(m, s[2], Functions[s[3][2]].returns), s[2], s[3])
    [] s[1] = "return"      -> IF isPointerW(m.env.ret) THEN arrow(m, cellOf(m, Name("ret")), s[2])
                               ELSE become(m, placeOf(m, Name("ret")), s[2])
    [] s[1] = "expression"  -> mean(m, s[2], typeIs(m, s[2]))

answer(m, question) ==
  CASE question[1] = "type"      -> typeMeant(m, question[2])
    [] question[1] = "bytes"     -> bytesMeant(m, question[2], question[3])
    [] question[1] = "address"   -> addressMeant(m, question[2], question[3])
    [] question[1] = "cell"      -> cellMeant(m, question[2])
    [] question[1] = "call"      -> callMeant(m, question[2], question[3])
    [] question[1] = "statement" -> statementMeant(m, question[2])
    [] question[1] = "become"    -> becomeMeant(m, question[2], question[3])
    [] question[1] = "new"       -> localMeant(m, question[2], question[3])
--------------------------------------------------------------------------------
(***************************************************************************)
(* The shapes of source the compiler is known to get wrong, each at the    *)
(* line that makes it so, and told by the source alone: what DataFlow says *)
(* of all programs, it says of those that have none of them.               *)
(*                                                                         *)
(* p is a program, m the memory it starts in, and types what typeIs says   *)
(* of its expressions there.                                               *)
(***************************************************************************)
RECURSIVE within(_)
\* An expression and all that are part of it.
within(e) ==
  LET inner == CASE e[1] = "name"              -> {e[3][k][2] : k \in {k \in DOMAIN e[3] : e[3][k][1] = "at"}}
                 [] e[1] = "list"              -> Range(e[2])
                 [] e[1] = "call"              -> Range(e[3])
                 [] e[1] = "add"               -> {e[2], e[3]}
                 [] e[1] \in {"minus", "addr"} -> {e[2]}
                 [] e[1] \in {"cast", "ptrcast"} -> {e[3]}
                 [] OTHER                      -> {}
  IN {e} \cup UNION {within(one) : one \in inner}
right(s) == s[Len(s)]
expressionsOf(s) ==
  {right(s)} \cup CASE s[1] = "assign" -> {s[2]} \cup (IF s[3] = "+=" THEN {<<"add", s[2], s[4]>>} ELSE {})
                    [] s[1] = "unpack" -> Range(s[2])
                    [] OTHER           -> {}
statementsOf(p)   == Range(p.statements)
allExpressions(p) == UNION {within(e) : e \in UNION {expressionsOf(s) : s \in statementsOf(p)}}

typesIn(p, m)     == [e \in allExpressions(p) |-> typeIs(m, e)]

\* Some call has an argument such that Of(argument, parameter).
somethingPassed(p, Of(_, _)) ==
  \E e \in allExpressions(p) :
    e[1] = "call" /\ \E k \in DOMAIN e[3] : Of(e[3][k], Functions[e[2]].params[k])
------------------------------------------------------------------------------
\* FunctionBuilder.cpp:49: a cast to the type a variable has is the variable, and can be pointed to.
CastToItsOwnType(p, m, types) ==
  \E e \in allExpressions(p) : e[1] = "cast" /\ isPlace(m, e[3]) /\ types[e[3]] = Plain(e[2])

\* FunctionBuilder.cpp:614: what is allocated for a list that is passed has room for as many
\* scalars as the list has elements.
NestedListPassed(p, types) ==
  somethingPassed(p, LAMBDA arg, param: arg[1] = "list" /\ Len(types[arg].subscripts) > 1)

\* TypeCheck.cpp:17: a text that is shorter than the array it is passed for is the same type.
ShortTextPassed(p) ==
  somethingPassed(p, LAMBDA arg, param:
    arg[1] = "text" /\ isArrayW(param.written) /\ Len(Texts[arg[2]]) < param.written.subscripts[1])

\* FunctionBuilder.cpp:249, :190, :632: the place an operand, an element or an argument stands for is
\* read when the operands to the right of it have been computed, and what they call may change it.
changes(e) ==
  \E one \in within(e) :
    one[1] = "call" /\ \E k \in DOMAIN one[3] :
      Functions[one[2]].params[k].mut \/ isPointerW(Functions[one[2]].params[k].written)
operandsIn(e) ==
  CASE e[1] = "add"             -> <<e[2], e[3]>>
    [] e[1] \in {"list", "call"} -> right(e)
    [] OTHER                    -> <<>>
ReadBehindACall(p, m) ==
  \E e \in allExpressions(p) : \E k1, k2 \in DOMAIN operandsIn(e) :
    k1 < k2 /\ isPlace(m, operandsIn(e)[k1]) /\ changes(operandsIn(e)[k2])

\* FunctionBuilder.cpp:181: the elements of a list are copied one by one to where others are still to be read.
ListOfItsTarget(p) ==
  \E s \in statementsOf(p) :
    /\ s[1] = "assign" /\ right(s)[1] = "list"
    /\ \E e \in within(right(s)) : e[1] = "name" /\ e[2] = s[2][2]

\* Assignment.cpp:38, Expression.cpp:172: of what an array pointer points to, one element is copied to an array.
CopyOfUnknownLength(p, m, types) ==
  \E s \in statementsOf(p) :
    /\ s[1] = "return" \/ (s[1] \in {"assign", "local"} /\ s[Len(s) - 1] = "=")
    /\ right(s)[1] \in {"name", "ptrcast", "call"}
    /\ isPlace(m, right(s)) \/ right(s)[1] # "name"
    /\ types[right(s)].modifier = "elements"

\* Finder.cpp:309: an array of a structure is destructured by the names of its fields.
FieldsOfAnArray(p, types) ==
  \E s \in statementsOf(p) :
    /\ s[1] \in {"unpack", "unpackLocal"}
    /\ LET names == IF s[1] = "unpack" THEN namesOnly(s[2]) ELSE s[3]
           w     == types[right(s)]
       IN isArrayW(w) /\ names # <<>> /\ byName(names, Plain(w.name))

\* TypeCheck.cpp:46: all texts of a list are the same type, and the list is as wide as its first.
LaterTextIsLonger(p) ==
  \E e \in allExpressions(p) :
    /\ e[1] = "list" /\ \A k \in DOMAIN e[2] : e[2][k][1] = "text"
    /\ \E k \in DOMAIN e[2] : Len(Texts[e[2][k][2]]) > Len(Texts[e[2][1][2]])

\* Local.cpp:38: a variable made of a text is a text itself, and takes any other, also one it has no room for.
TextForAShorterOne(p) ==
  \E k \in DOMAIN p.statements \ {1} :
    /\ right(p.statements[k])[1] = "text" /\ right(p.statements[k - 1])[1] = "text"
    /\ p.statements[k - 1][1] = "walrus"
    /\ Len(Texts[right(p.statements[k])[2]]) > Len(Texts[right(p.statements[k - 1])[2]])

\* OperandBuilder.cpp:163: a global pointer is a GBL_VAR like any other global.
GlobalPointer(p) ==
  \E e \in allExpressions(p) :
    e[1] = "name" /\ \E x \in DOMAIN Variables :
      e[2] = x /\ Variables[x].kind = "global" /\ isPointerW(Variables[x].written)

\* PassParamCheck.cpp:14: of what is in no memory, only a literal is refused where a pointer is due.
ComputedPassedAsPointer(p) ==
  somethingPassed(p, LAMBDA arg, param: isPointerW(param.written) /\ arg[1] \in {"add", "minus", "addr", "cast"})

\* Expression.cpp:20, :86, :168: a call that gives nothing is an operand; a character is a UI8 of type AUTO_INT.
OperandOfNoType(p) ==
  \E e \in allExpressions(p) \cup {<<"minus", right(s)>> : s \in {s \in statementsOf(p) : s[1] = "return"}} :
    \/ e[1] \in {"minus", "cast"} /\ right(e)[1] = "call" /\ Functions[right(e)[2]].returns = Plain("void")
    \/ e[1] = "add" /\ e[2][1] = "char"
==============================================================================
