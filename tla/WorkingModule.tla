---------------------------- MODULE WorkingModule ----------------------------
(***************************************************************************)
(* Where the names of a function body are looked up.  IRBuilder keeps a    *)
(* working module and a stack of earlier ones, the Monomorphizer a working *)
(* generic module; every term of Generator/Expression.cpp, and every type  *)
(* in it, moves them and has to put them back.  A body is a sequence of    *)
(* terms; generating one writes down each look-up with the module it was   *)
(* made in.  A term whose error is reported leaves the rest undone.        *)
(***************************************************************************)
EXTENDS Integers, Sequences, SequencesExt, FiniteSets

CONSTANTS Root,           \* the module under generation
          Aliases,        \* for every module, the modules behind its aliases
          GenericAliases, \* aliases of the Monomorphizer: the generic modules behind them
          GenericUses,    \* names imported from generic modules, with those modules
          GenericsOf,     \* for every generic module, its generic structures and functions
          TypeOf,         \* for every variable, the module of its type
          ParameterOf,    \* for every function, the module of its parameters' type, "" if void
          Hooked,         \* the modules whose type has a deconstructor
          Bodies          \* the function bodies

VARIABLES body, at, ctx

vars == <<body, at, ctx>>

context == [ir |-> Root, stack |-> <<>>, mm |-> "", log |-> <<>>, error |-> "none"]
------------------------------------------------------------------------------
\* IRBuilder and Monomorphizer: the primitive moves.  After an error nothing
\* moves any more.  Popping an empty stack is undefined.
Move(s, t)  == IF s.error = "none" THEN t ELSE s
fail(s, e)  == Move(s, [s EXCEPT !.error = e])
setWorkingModule(s, m) == Move(s, [s EXCEPT !.ir = m])
resetWorkingModule(s)  == setWorkingModule(s, Root)
pushWorkingModule(s)   == Move(s, [s EXCEPT !.stack = Append(@, s.ir)])
popWorkingModule(s)    ==
  IF s.stack = <<>> THEN fail(s, "undefined") ELSE Move(s, [s EXCEPT !.ir = Last(s.stack), !.stack = Front(@)])
setGeneric(s, g) == Move(s, [s EXCEPT !.mm = g])
look(s, sort, name) == Move(s, [s EXCEPT !.log = Append(@, <<sort, name, s.ir>>)])

\* Monomorphizer::genericExists and getGenericModuleFromToken.
genericExists(s, name) == IF s.mm = "" THEN name \in DOMAIN GenericUses ELSE name \in GenericsOf[s.mm]
genericModule(s, name) == IF s.mm = "" THEN GenericUses[name] ELSE s.mm

\* setWorkingModuleFromNode: one alias after the other.
RECURSIVE setWorkingModuleFromNode(_, _, _)
setWorkingModuleFromNode(s, path, genericModuleSet) ==
  IF path = <<>> \/ s.error # "none" THEN s
  ELSE LET alias == Head(path)
       IN  IF genericModuleSet THEN fail(s, "Invalid namespace access from generic")
           ELSE IF alias \in DOMAIN GenericAliases
             THEN setWorkingModuleFromNode(setGeneric(s, GenericAliases[alias]), Tail(path), TRUE)
           ELSE IF alias \in DOMAIN Aliases[s.ir]
             THEN setWorkingModuleFromNode(setWorkingModule(s, Aliases[s.ir][alias]), Tail(path), FALSE)
           ELSE fail(s, "Use does not exist")

\* instantiateGenericAndGetType and instantiateGenericAndGetFunction: the
\* name is looked up in the instance, which is named here as its module is.
instantiate(s, sort, module, name) ==
  popWorkingModule(look(setWorkingModule(pushWorkingModule(s), module), sort, name))

\* typeDescriptionFromNode and getMonomorphizedTypeDescriptionFromNode: two
\* modules are pushed for a generic type and one is popped.
\* Every alias sets the generic module; the third is refused.
inType(s, path) ==
  FoldLeft(LAMBDA u, k : IF k > 2 THEN fail(u, "Invalid namespace access from generic")
                         ELSE IF path[k] \in DOMAIN GenericAliases THEN setGeneric(u, GenericAliases[path[k]])
                         ELSE fail(u, "Use does not exist or not a generic module"),
           s, [k \in DOMAIN path |-> k])
RECURSIVE typeDescriptionFromNode(_, _)
typeDescriptionFromNode(s, type) ==
  LET s1     == resetWorkingModule(pushWorkingModule(s))
      plain  == look(setWorkingModuleFromNode(s1, type.path, FALSE), "type", type.name)
      s2     == inType(setGeneric(resetWorkingModule(pushWorkingModule(s1)), ""), type.path)
      module == genericModule(s2, type.name)
      s3     == FoldLeft(typeDescriptionFromNode, s2, type.parameters)
  IN  IF s.error # "none" THEN s
      ELSE IF type.parameters = <<>> THEN popWorkingModule(plain)
      ELSE IF s2.error # "none" THEN s2
      ELSE IF ~genericExists(s2, type.name) THEN fail(s2, "Generic does not exist")
      ELSE popWorkingModule(instantiate(s3, "type", module, type.name))

\* The module of a written type, and of the type of a term.
moduleOfType(type) ==
  IF type.parameters = <<>> THEN setWorkingModuleFromNode(context, type.path, FALSE).ir
  ELSE genericModule(inType(context, type.path), type.name)
RECURSIVE moduleOfTerm(_)
moduleOfTerm(t) ==
  CASE t.type = "IDENTIFIER" -> TypeOf[t.name]
    [] t.type = "MAKE"       -> moduleOfType(t.of)
    [] t.type = "MODULE"     -> moduleOfTerm(t.terms[1])
    [] OTHER                 -> Root
------------------------------------------------------------------------------
\* termWithHint; the hint is the module of the expected type, "" for none.
RECURSIVE termWithHint(_, _, _)
term(s, t) == termWithHint(s, t, "")

\* appendActualParamInPlace, for each of the parameters.
parameters(s, ts, hint) == FoldLeft(LAMBDA u, t : termWithHint(u, t, hint), s, ts)

cast(s, t) == look(term(s, t.terms[1]), "type", t.name)

pointerCast(s, t) ==
  popWorkingModule(term(resetWorkingModule(look(pushWorkingModule(s), "type", t.name)), t.terms[1]))

\* Mutant: the module before the term is not put back.
switchModuleAndCallTerm_NoPop(s, t, hint) ==
  setGeneric(termWithHint(setWorkingModuleFromNode(setGeneric(resetWorkingModule(pushWorkingModule(s)), ""),
                                                   t.path, FALSE), t.terms[1], hint), "")

switchModuleAndCallTerm(s, t, hint) ==
  LET s1 == setWorkingModuleFromNode(setGeneric(resetWorkingModule(pushWorkingModule(s)), ""), t.path, FALSE)
  IN  setGeneric(popWorkingModule(termWithHint(s1, t.terms[1], hint)), "")

methodCall(s, t) ==
  LET object == t.terms[1]
      module == moduleOfTerm(object)
      s1     == setWorkingModule(term(pushWorkingModule(s), object), module)
      s2     == resetWorkingModule(look(s1, "function", t.name))
  IN  IF t.name = "__deconstructor__" /\ module \notin Hooked THEN s1
      ELSE popWorkingModule(parameters(s2, Tail(t.terms), ParameterOf[t.name]))

\* Mutant: the parameters are generated in the module of the function.
functionCall_NoReset(s, t) ==
  popWorkingModule(parameters(look(pushWorkingModule(s), "function", t.name), t.terms, ParameterOf[t.name]))

functionCall(s, t) ==
  LET s1 == resetWorkingModule(look(pushWorkingModule(s), "function", t.name))
  IN  popWorkingModule(parameters(s1, t.terms, ParameterOf[t.name]))

functionCallWithHint(s, t, hint) ==
  IF hint # "" /\ genericExists(s, t.name)
    THEN popWorkingModule(functionCall(setWorkingModule(pushWorkingModule(s), hint), t))
  ELSE IF s.mm # "" THEN fail(s, "Function does not exist")
  ELSE functionCall(s, t)

genericFunctionCall(s, t) ==
  LET module == genericModule(s, t.name)
      s1     == FoldLeft(typeDescriptionFromNode, s, t.of.parameters)
  IN  IF s.error # "none" THEN s
      ELSE IF ~genericExists(s, t.name) THEN fail(s, "Generic does not exist")
      ELSE parameters(instantiate(s1, "function", module, t.name), t.terms, ParameterOf[t.name])

make(s, t) ==
  LET s1 == parameters(typeDescriptionFromNode(s, t.of), t.terms, "")
  IN  popWorkingModule(look(setWorkingModule(pushWorkingModule(s1), moduleOfType(t.of)), "function", "make"))

\* An operator with a structure on its left: createOperatorFunctionCall.
customOperator(s, t) ==
  LET module == moduleOfTerm(t.terms[1])
      s1     == termWithHint(term(s, t.terms[1]), t.terms[2], module)
  IN  popWorkingModule(look(setWorkingModule(pushWorkingModule(s1), module), "function", t.name))

termWithHint(s, t, hint) ==
  IF s.error # "none" THEN s
  ELSE CASE t.type = "IDENTIFIER"       -> look(s, "value", t.name)
         [] t.type = "CAST"             -> cast(s, t)
         [] t.type = "PTR_CAST"         -> pointerCast(s, t)
         [] t.type = "METHODCALL"       -> methodCall(s, t)
         [] t.type = "FUNCCALL"         -> functionCallWithHint(s, t, hint)
         [] t.type = "GENERIC_FUNCCALL" -> genericFunctionCall(s, t)
         [] t.type = "MODULE"           -> switchModuleAndCallTerm(s, t, hint)
         [] t.type = "SIZEOF"           -> typeDescriptionFromNode(s, t.of)
         [] t.type = "MAKE"             -> make(s, t)
         [] t.type = "EXPRESSION"       -> customOperator(s, t)
------------------------------------------------------------------------------
Init == body \in Bodies /\ at = 1 /\ ctx = context

\* The block of a function: one term after the other.
GenerateStatement ==
  /\ at <= Len(body) /\ ctx.error = "none"
  /\ ctx' = term(ctx, body[at])
  /\ at' = at + 1
  /\ UNCHANGED body

Next == GenerateStatement
Spec == Init /\ [][Next]_vars
------------------------------------------------------------------------------
\* What the text of a term says of its names: one behind `::` belongs to the
\* module named there, a method, an operator and a constructor to the module
\* of the type they work on, any other name to the file itself.
behind(path) == setWorkingModuleFromNode(context, path, FALSE)
RECURSIVE meantByType(_), meant(_, _, _)
meantByType(type) ==
  FlattenSeq([k \in DOMAIN type.parameters |-> meantByType(type.parameters[k])])
    \o <<<<"type", type.name, moduleOfType(type)>>>>
meant(t, q, hint) ==
  LET each(ts, h) == FlattenSeq([k \in DOMAIN ts |-> meant(ts[k], context, h)])
      first == t.terms[1]
  IN  CASE t.type = "IDENTIFIER" -> <<<<"value", t.name, q.ir>>>>
        [] t.type = "CAST"       -> meant(first, context, "") \o <<<<"type", t.name, q.ir>>>>
        [] t.type = "PTR_CAST"   -> <<<<"type", t.name, q.ir>>>> \o meant(first, context, "")
        [] t.type = "METHODCALL" -> meant(first, q, "") \o <<<<"function", t.name, moduleOfTerm(first)>>>>
                                      \o each(Tail(t.terms), ParameterOf[t.name])
        [] t.type = "FUNCCALL"   -> <<<<"function", t.name, IF hint # "" /\ genericExists(q, t.name) THEN hint
                                                            ELSE q.ir>>>> \o each(t.terms, ParameterOf[t.name])
        [] t.type = "GENERIC_FUNCCALL" ->
             FlattenSeq([k \in DOMAIN t.of.parameters |-> meantByType(t.of.parameters[k])])
               \o <<<<"function", t.name, genericModule(q, t.name)>>>> \o each(t.terms, ParameterOf[t.name])
        [] t.type = "MODULE"     -> meant(first, behind(t.path), hint)
        [] t.type = "SIZEOF"     -> meantByType(t.of)
        [] t.type = "MAKE"       -> meantByType(t.of) \o each(t.terms, "")
                                      \o <<<<"function", "make", moduleOfType(t.of)>>>>
        [] t.type = "EXPRESSION" -> meant(first, context, "") \o meant(t.terms[2], context, moduleOfTerm(first))
                                      \o <<<<"function", t.name, moduleOfTerm(first)>>>>

\* The ways to lose the module this code is known to have.
RECURSIVE subterms(_), typesIn(_)
subterms(t) == {t} \cup UNION {subterms(t.terms[k]) : k \in DOMAIN t.terms}
typesIn(type) == {type} \cup UNION {typesIn(type.parameters[k]) : k \in DOMAIN type.parameters}

explicitHook(t) ==        \* methodCall returns before it pops
  t.type = "METHODCALL" /\ t.name = "__deconstructor__" /\ moduleOfTerm(t.terms[1]) \notin Hooked
genericBehindModule(t) == \* genericFunctionCall does not reset the module for its types and parameters
  t.type = "MODULE" /\ behind(t.path).mm = "" /\ \E u \in subterms(t.terms[1]) : u.type = "GENERIC_FUNCCALL"
callInGeneric(t) ==       \* nor the generic module for its parameters
  t.type = "MODULE" /\ behind(t.path).mm # "" /\
    \E u \in subterms(t.terms[1]) \ {t.terms[1]} : u.type \in {"FUNCCALL", "GENERIC_FUNCCALL"}
qualifiedCast(t) ==       \* cast does not reset the module for what it casts
  t.type = "MODULE" /\ t.terms[1].type = "CAST"
qualifiedType(t) ==       \* a type behind a generic module's alias leaves that module set
  \E type \in typesIn(t.of) : behind(type.path).mm # ""

typeBehindModule(t) ==    \* typeDescriptionFromNode returns before it pops, for a generic type
  t.type = "MODULE" /\ \E u \in subterms(t) :
    IF u.type = "GENERIC_FUNCCALL" THEN \E k \in DOMAIN u.of.parameters : u.of.parameters[k].parameters # <<>>
    ELSE u.of.parameters # <<>>

losesFile(t)    == explicitHook(t) \/ typeBehindModule(t)
misleads(t)     == losesFile(t) \/ genericBehindModule(t) \/ callInGeneric(t) \/ qualifiedCast(t) \/ qualifiedType(t)
generated       == SubSeq(body, 1, at - 1)
without(Bad(_)) == \A k \in DOMAIN generated : \A u \in subterms(generated[k]) : ~Bad(u)

\* The stack is never popped when it is empty, whatever the body: what is
\* pushed too often (types) hides no pop too many.
TypeOK ==
  /\ at \in 1 .. Len(body) + 1
  /\ ctx.ir \in DOMAIN Aliases /\ ctx.mm \in DOMAIN GenericsOf \cup {""}
  /\ ctx.error # "undefined"

\* Behind a statement the file's own names are looked up in the file again.
\* Types leave modules behind on the stack, so a term pops what another term
\* pushed: this holds only because all that is left behind is the file itself.
BackInTheFile ==
  ctx.error = "none" =>
    /\ without(losesFile) => ctx.ir = Root /\ ToSet(ctx.stack) \subseteq {Root}
    /\ without(qualifiedType) => ctx.mm = ""

\* Every name is looked up, first of all, in the module its text names, in
\* any nesting of calls, methods, generics, constructors, casts and types.
LookedUpWhereWritten ==
  without(misleads) /\ ctx.error = "none" =>
    ctx.log = FlattenSeq([k \in DOMAIN generated |-> meant(generated[k], context, "")])

\* LanguageGuide.md:2130 has aliases and `::` for names of other files.  Using
\* them in a statement takes nothing from the next one: what is refused
\* behind an accepted statement is refused on its own.
RefusedOnItsOwn ==
  ctx.error # "none" => term(context, generated[at - 1]).error # "none"
==============================================================================
