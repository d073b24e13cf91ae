-------------------------------- MODULE Memory --------------------------------
(***************************************************************************)
(* The memory a compiled function works on, and what the functions it      *)
(* calls do to it.  Both are no code of the compiler: the memory is that   *)
(* of the machine, and a callee is any function of the signature it is     *)
(* called with.                                                            *)
(*                                                                         *)
(* An object is a sequence of bytes.  A byte is <<value, k, n>>, the k-th  *)
(* of the n bytes of a value; a value is <<"int", n>>, <<"flt", n>>,       *)
(* <<"ptr", object, offset>>, or <<"torn">>, what is read of bytes that do *)
(* not belong together or were never written.                              *)
(***************************************************************************)
EXTENDS Types

CONSTANT Elsewhere   \* by the name of a type: the object a callee's pointers to it point to

Torn == <<"torn">>
Null == <<"int", 0>>
Junk == <<Torn, 1, 1>>
Keep == <<>>    \* this byte stays what it is

\* A character is a number of one byte; the other types hold all numbers here.
ofOneByte(value)   == IF value[1] = "int" THEN <<"int", value[2] % 256>> ELSE value
plus(v1, v2) ==
  CASE v1[1] = "ptr" /\ v2[1] = "int"         -> [v1 EXCEPT ![3] = @ + v2[2]]
    [] v1[1] = "int" /\ v2[1] = "ptr"         -> [v2 EXCEPT ![3] = @ + v1[2]]
    [] v1[1] = v2[1] /\ v1[1] \in {"int", "flt"} -> <<v1[1], v1[2] + v2[2]>>
    [] OTHER                                  -> Torn
negated(value) == IF value[1] \in {"int", "flt"} THEN <<value[1], -value[2]>> ELSE Torn

\* An address does not fit less than eight bytes.
bytesOf(n, value)  ==
  [k \in 1..n |-> IF value = Torn \/ (value[1] = "ptr" /\ n < 8) THEN Junk ELSE <<value, k, n>>]
decode(bytes)      ==
  IF bytes # <<>> /\ \A k \in DOMAIN bytes : bytes[k] = <<bytes[1][1], k, Len(bytes)>> THEN bytes[1][1] ELSE Torn

inside(mem, address, n) ==
  /\ address[1] = "ptr"
  /\ address[2] \in DOMAIN mem
  /\ address[3] >= 0 /\ address[3] + n <= Len(mem[address[2]])
bytesAt(mem, address, n) == SubSeq(mem[address[2]], address[3] + 1, address[3] + n)
overwrite(mem, address, bytes) ==
  LET new(k, old) == IF k \in DOMAIN bytes /\ bytes[k] # Keep THEN bytes[k] ELSE old
  IN [mem EXCEPT ![address[2]] = [k \in DOMAIN @ |-> new(k - address[3], @[k])]]
------------------------------------------------------------------------------
\* Layout: fields in the order of their declaration, one behind the other.
isPointerW(w) == w.modifier \in {"POINTER_STAR", "EMPTY_SUBSCRIPT"}
isArrayW(w)   == w.modifier = "SUBSCRIPT"
isStructW(w)  == w.modifier = "none" /\ \E i \in DOMAIN Structs : Structs[i][1] = w.name
isScalarW(w)  == ~isPointerW(w) /\ ~isArrayW(w) /\ ~isStructW(w)
fieldsOfW(w)  == Structs[CHOOSE i \in DOMAIN Structs : Structs[i][1] = w.name][2]
elementW(w)   == IF Len(w.subscripts) = 1 THEN Plain(w.name) ELSE Array(w.name, Tail(w.subscripts))
pointeeW(w)   == Plain(w.name)

\* The types of the elements or the fields of a value, in the order they lie in.
partsOfW(w)   == IF isArrayW(w) THEN [k \in 1..w.subscripts[1] |-> elementW(w)]
                 ELSE [k \in DOMAIN fieldsOfW(w) |-> fieldsOfW(w)[k][2]]

RECURSIVE sizeOfW(_), sizeOfAll(_), scalarsOf(_)
sizeOfAll(ws) == IF ws = <<>> THEN 0 ELSE sizeOfW(Head(ws)) + sizeOfAll(Tail(ws))
sizeOfW(w) ==
  CASE isPointerW(w)               -> 8
    [] isArrayW(w) \/ isStructW(w) -> sizeOfAll(partsOfW(w))
    [] OTHER                       -> IF w.name \in EnumTypes THEN 4 ELSE getDataTypeSize(stringToDataType(w.name))
\* The scalars and pointers a value is made of.
scalarsOf(w) ==
  IF isArrayW(w) \/ isStructW(w) THEN FlattenSeq([k \in DOMAIN partsOfW(w) |-> scalarsOf(partsOfW(w)[k])]) ELSE <<w>>
encode(w, value) == bytesOf(sizeOfW(w), IF w = Plain("char") THEN ofOneByte(value) ELSE value)
\* The bytes of a value, every scalar of it made by Of.
build(w, Of(_, _)) ==
  LET parts == scalarsOf(w) IN FlattenSeq([k \in DOMAIN parts |-> encode(parts[k], Of(parts[k], k))])
\* New values for all a type is made of, told apart by their numbers.
fresh(w, seed) ==
  build(w, LAMBDA s, k: CASE isPointerW(s)          -> <<"ptr", Elsewhere[s.name], 0>>
                          [] s = Plain("double") -> <<"flt", seed + k>>
                          [] OTHER               -> <<"int", seed + k>>)
------------------------------------------------------------------------------
(***************************************************************************)
(* A callee reads all it is given, then changes all it may: what it gets   *)
(* by "mut", and what the pointers it gets point to.  It gets a scalar as  *)
(* a value and anything else as an address, and a pointer by "mut" as the  *)
(* address of the pointer.  m has the memory, in seen what callees read,   *)
(* in calls how many there were, and in wild whether anything was read or  *)
(* written outside an object.                                              *)
(***************************************************************************)
sawBytes(m, address, n) ==
  IF inside(m.mem, address, n) THEN [m EXCEPT !.seen = Append(@, bytesAt(m.mem, address, n))] ELSE [m EXCEPT !.wild = TRUE]
putBytes(m, address, bytes) ==
  IF inside(m.mem, address, Len(bytes)) THEN [m EXCEPT !.mem = overwrite(@, address, bytes)] ELSE [m EXCEPT !.wild = TRUE]
toTheEnd(m, address) == IF inside(m.mem, address, 0) THEN Len(m.mem[address[2]]) - address[3] ELSE 0
pointerAt(m, address) == IF inside(m.mem, address, 8) THEN decode(bytesAt(m.mem, address, 8)) ELSE Torn

readBy(m, param, arg) ==
  LET w == param.written
  IN CASE isPointerW(w) /\ param.mut        -> sawBytes(m, pointerAt(m, arg), sizeOfW(pointeeW(w)))
       [] w.modifier = "EMPTY_SUBSCRIPT"    -> sawBytes(m, arg, toTheEnd(m, arg))
       [] isPointerW(w)                     -> sawBytes(m, arg, sizeOfW(pointeeW(w)))
       [] param.mut \/ ~isScalarW(w)        -> sawBytes(m, arg, sizeOfW(w))
       [] OTHER                             -> [m EXCEPT !.seen = Append(@, encode(w, arg))]
\* The places a callee may change for one parameter, one after the other.
changeable(m, param, arg) ==
  LET w == param.written
  IN CASE isPointerW(w) /\ param.mut -> <<<<pointerAt(m, arg), pointeeW(w)>>, <<arg, w>>>>
       [] isPointerW(w)              -> <<<<arg, pointeeW(w)>>>>
       [] param.mut                  -> <<<<arg, w>>>>
       [] OTHER                      -> <<>>
changedBy(m, param, arg, seed) ==
  FoldLeft(LAMBDA before, at: putBytes(before, at[1], fresh(at[2], seed)), m, changeable(m, param, arg))
seedOf(m, i) == 100 + 40 * m.calls + 10 * i
callee(m, f, args) ==
  LET params == Functions[f].params
      all    == [i \in DOMAIN params |-> i]
      read   == FoldLeft(LAMBDA before, i: readBy(before, params[i], args[i]), m, all)
      left   == FoldLeft(LAMBDA before, i: changedBy(before, params[i], args[i], seedOf(m, i)), read, all)
  IN [left EXCEPT !.calls = @ + 1]
returned(m, f) == fresh(Functions[f].returns, seedOf(m, 0))
==============================================================================
