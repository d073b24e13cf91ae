------------------------ MODULE ModuleLoaderProofs ------------------------
(***************************************************************************)
(* ModuleLoader.tla, for all programs: every file is read once, every      *)
(* module is generated once, and the console's stack is the stack of the   *)
(* modules under generation, whatever cycles of files and instances there  *)
(* are, and also when loading never ends.  What is loaded is complete, a   *)
(* program is refused only for a cause in its text or a cycle, and a call  *)
(* of a complete module gets the function that module has or imported.     *)
(*                                                                         *)
(* The argument: a step of the loader goes on in the innermost frame,      *)
(* enters a module that is not in modulesMap and puts it there, or leaves  *)
(* the innermost one.  That no frame is entered twice needs that all       *)
(* frames are in modulesMap; that no file is read twice needs to tell the  *)
(* names of plain files, of generic files (which never come into           *)
(* modulesMap) and of instances (which are longer) apart, and that what an *)
(* instance is made for exists, so that its own use of it loads nothing.   *)
(*                                                                         *)
(* That the tables tell the text is a second invariant (Told), on top of   *)
(* the first: each frame's tables hold exactly what the items before its   *)
(* position declare (Accounts), each module's tables only what its text    *)
(* has a source for (Offers), and all items of a finished module are done  *)
(* (Through).  An item that waits for another file is not done before that *)
(* file is registered, so a cause found in the tables is one in the text.  *)
(***************************************************************************)
EXTENDS ModuleLoader, SequenceTheorems, TLAPS

GenericFiles == {f \in File : program[f].generic}

Arguments == [str : Seq(STRING), mod : Seq(STRING)]

FrameType == [name : Seq(STRING), file : File, arg : Arguments, next : Nat \ {0},
              generics : SUBSET GenericFiles]

IsTables(t) == t = [functions |-> t.functions, imported |-> t.imported,
                    uses |-> t.uses, aliases |-> t.aliases]

Types ==
  /\ phase \in {"load", "done", "error"}
  /\ program \in Programs
  /\ frames \in Seq(FrameType)
  /\ fileStack \in Seq(File)
  /\ finished \subseteq DOMAIN modulesMap
  /\ genericsMap \subseteq GenericFiles
  /\ reads \in [File -> Nat]

\* The outermost frame is the root's, and loading goes on as long as there is one.
Rooted == IF frames = <<>> THEN phase = "done" ELSE frames[1].name = Name(Root)

(* A module is named after its file, and after its argument if the file is  *)
(* generic; the name of a generic file alone is no module.                  *)
Named ==
  \A n \in DOMAIN modulesMap :
    /\ n \in Seq(STRING) /\ Len(n) > 0 /\ n[1] \in File
    /\ Len(n) = 1 => n[1] \notin GenericFiles
    /\ IsTables(modulesMap[n])
    /\ \A k \in modulesMap[n].aliases : k \in DOMAIN modulesMap \/ \E g \in GenericFiles : k = Name(g)

HasArgument(fr) ==
  IF fr.file \in GenericFiles THEN fr.arg.str # <<>> /\ fr.arg.mod \in DOMAIN modulesMap
                              ELSE fr.arg = NoType

Framed ==
  \A i \in 1..Len(frames) :
    /\ frames[i].name \in DOMAIN modulesMap /\ frames[i].name \notin finished
    /\ HasArgument(frames[i])
    /\ \A j \in 1..Len(frames) : frames[i].name = frames[j].name => i = j

Read ==
  \A f \in File :
    /\ reads[f] <= 1
    /\ reads[f] = 1 => f \in genericsMap \/ Name(f) \in DOMAIN modulesMap

IInv == Types /\ Rooted /\ Named /\ Framed /\ Read /\ ConsoleFollows
-----------------------------------------------------------------------------
(* The stack of frames.                                                     *)

Frameful == frames \in Seq(FrameType) /\ frames # <<>>

Continues(fr) == fr \in FrameType /\ fr.name = Top.name /\ fr.file = Top.file /\ fr.arg = Top.arg

LEMMA TopFrame ==
  ASSUME Frameful
  PROVE  /\ Len(frames) \in Nat \ {0} /\ Top = frames[Len(frames)] /\ Top \in FrameType
         /\ Front(frames) \in Seq(FrameType) /\ Len(Front(frames)) = Len(frames) - 1
         /\ \A i \in 1..(Len(frames) - 1) : Front(frames)[i] = frames[i]
<1>1. Len(frames) \in Nat \ {0} /\ \A i \in 1..Len(frames) : frames[i] \in FrameType
  BY DEF Frameful
<1>2. Top = frames[Len(frames)] /\ Top \in FrameType
  BY <1>1 DEF Top, Last
<1> DEFINE n == Len(frames) - 1
<1>3. n \in Int /\ 1 \in Int /\ \A i \in 1..n : frames[i] \in FrameType
  BY <1>1
<1> HIDE DEF n
<1>4. /\ SubSeq(frames, 1, n) \in Seq(FrameType)
      /\ Len(SubSeq(frames, 1, n)) = IF 1 <= n THEN n - 1 + 1 ELSE 0
      /\ \A i \in 1..(n - 1 + 1) : SubSeq(frames, 1, n)[i] = frames[1 + i - 1]
  BY <1>3, SubSeqProperties
<1>5. n = Len(frames) - 1 /\ Front(frames) = SubSeq(frames, 1, n)
  BY DEF Front, n
<1>6. /\ Front(frames) \in Seq(FrameType) /\ Len(Front(frames)) = n
      /\ \A i \in 1..n : Front(frames)[i] = frames[i]
  BY <1>1, <1>4, <1>5
<1> QED
  BY <1>1, <1>2, <1>5, <1>6

LEMMA GoesOnFrames ==
  ASSUME Frameful, NEW fr, Continues(fr)
  PROVE  LET next == [fr EXCEPT !.next = @ + 1]
         IN  /\ next \in FrameType
             /\ GoesOn(fr) \in Seq(FrameType) /\ Len(GoesOn(fr)) = Len(frames)
             /\ \A i \in 1..Len(frames) :
                  GoesOn(fr)[i] = IF i = Len(frames) THEN next ELSE frames[i]
<1> DEFINE next == [fr EXCEPT !.next = @ + 1]
<1>1. next \in FrameType
  BY DEF Continues, FrameType
<1>2. /\ Len(frames) \in Nat \ {0}
      /\ Front(frames) \in Seq(FrameType) /\ Len(Front(frames)) = Len(frames) - 1
      /\ \A i \in 1..(Len(frames) - 1) : Front(frames)[i] = frames[i]
  BY TopFrame
<1> HIDE DEF next
<1>3. /\ Append(Front(frames), next) \in Seq(FrameType)
      /\ Len(Append(Front(frames), next)) = Len(frames)
      /\ \A i \in 1..Len(frames) :
           Append(Front(frames), next)[i] = IF i = Len(frames) THEN next ELSE frames[i]
  BY <1>1, <1>2
<1> QED
  BY <1>1, <1>3 DEF GoesOn, next

LEMMA GoesOnShape ==
  ASSUME Frameful, NEW fr, Continues(fr)
  PROVE  /\ GoesOn(fr) \in Seq(FrameType) /\ Len(GoesOn(fr)) = Len(frames)
         /\ \A i \in 1..Len(frames) : /\ GoesOn(fr)[i].name = frames[i].name
                                      /\ GoesOn(fr)[i].file = frames[i].file
                                      /\ GoesOn(fr)[i].arg = frames[i].arg
<1>1. PICK next : next = [fr EXCEPT !.next = @ + 1]
  OBVIOUS
<1>2. next.name = fr.name /\ next.file = fr.file /\ next.arg = fr.arg
  BY <1>1 DEF Continues, FrameType
<1>3. Len(frames) \in Nat \ {0} /\ Top = frames[Len(frames)]
  BY TopFrame
<1>4. /\ GoesOn(fr) \in Seq(FrameType) /\ Len(GoesOn(fr)) = Len(frames)
      /\ \A i \in 1..Len(frames) : GoesOn(fr)[i] = IF i = Len(frames) THEN next ELSE frames[i]
  BY <1>1, GoesOnFrames
<1> QED
  BY <1>2, <1>3, <1>4 DEF Continues

LEMMA WaitsFrames ==
  ASSUME Frameful, NEW fr, Continues(fr), NEW inner \in FrameType
  PROVE  /\ Waits(fr, inner) \in Seq(FrameType) /\ Len(Waits(fr, inner)) = Len(frames) + 1
         /\ \A i \in 1..(Len(frames) + 1) :
              Waits(fr, inner)[i] = IF i < Len(frames) THEN frames[i]
                                    ELSE IF i = Len(frames) THEN fr ELSE inner
<1>1. /\ Len(frames) \in Nat \ {0} /\ Top = frames[Len(frames)]
      /\ Front(frames) \in Seq(FrameType) /\ Len(Front(frames)) = Len(frames) - 1
      /\ \A i \in 1..(Len(frames) - 1) : Front(frames)[i] = frames[i]
  BY TopFrame
<1>2. <<fr, inner>> \in Seq(FrameType) /\ Len(<<fr, inner>>) = 2
      /\ <<fr, inner>>[1] = fr /\ <<fr, inner>>[2] = inner
  BY DEF Continues
<1>3. /\ Front(frames) \o <<fr, inner>> \in Seq(FrameType)
      /\ Len(Front(frames) \o <<fr, inner>>) = Len(frames) + 1
      /\ \A i \in 1..(Len(frames) + 1) :
           (Front(frames) \o <<fr, inner>>)[i] =
             IF i <= Len(frames) - 1 THEN Front(frames)[i] ELSE <<fr, inner>>[i - (Len(frames) - 1)]
  BY <1>1, <1>2, ConcatProperties
<1>4. \A i \in 1..(Len(frames) + 1) :
        Waits(fr, inner)[i] = IF i < Len(frames) THEN frames[i]
                              ELSE IF i = Len(frames) THEN fr ELSE inner
  BY <1>1, <1>2, <1>3 DEF Waits
<1> QED
  BY <1>3, <1>4 DEF Waits

LEMMA WaitsShape ==
  ASSUME Frameful, NEW fr, Continues(fr), NEW inner \in FrameType
  PROVE  /\ Waits(fr, inner) \in Seq(FrameType) /\ Len(Waits(fr, inner)) = Len(frames) + 1
         /\ \A i \in 1..Len(frames) : /\ Waits(fr, inner)[i].name = frames[i].name
                                      /\ Waits(fr, inner)[i].file = frames[i].file
                                      /\ Waits(fr, inner)[i].arg = frames[i].arg
         /\ Waits(fr, inner)[Len(frames) + 1] = inner
<1>1. Len(frames) \in Nat \ {0} /\ Top = frames[Len(frames)]
  BY TopFrame
<1>2. PICK w : w = Waits(fr, inner)
  OBVIOUS
<1>3. /\ w \in Seq(FrameType) /\ Len(w) = Len(frames) + 1
      /\ \A i \in 1..(Len(frames) + 1) : w[i] = IF i < Len(frames) THEN frames[i]
                                              ELSE IF i = Len(frames) THEN fr ELSE inner
  BY <1>2, WaitsFrames
<1>4. w[Len(frames) + 1] = inner
  BY <1>1, <1>3
<1>5. \A i \in 1..Len(frames) : w[i] = IF i = Len(frames) THEN fr ELSE frames[i]
  BY <1>1, <1>3
<1>6. \A i \in 1..Len(frames) : /\ w[i].name = frames[i].name
                               /\ w[i].file = frames[i].file
                               /\ w[i].arg = frames[i].arg
  BY <1>1, <1>5 DEF Continues
<1> QED
  BY <1>2, <1>3, <1>4, <1>6
-----------------------------------------------------------------------------
(* The three kinds of steps.                                                *)

LEMMA GoingOn ==
  ASSUME IInv, Frameful, NEW fr, Continues(fr), frames' = GoesOn(fr),
         UNCHANGED <<program, phase, finished, fileStack>>,
         DOMAIN modulesMap \subseteq DOMAIN modulesMap',
         genericsMap' \subseteq GenericFiles, reads' \in [File -> Nat], Named', Read'
  PROVE  IInv'
<1>1. /\ frames' \in Seq(FrameType) /\ Len(frames') = Len(frames)
      /\ \A i \in 1..Len(frames) : /\ frames'[i].name = frames[i].name
                                   /\ frames'[i].file = frames[i].file
                                   /\ frames'[i].arg = frames[i].arg
  BY GoesOnShape
<1>2. GenericFiles' = GenericFiles /\ FrameType' = FrameType
  BY DEF GenericFiles, FrameType
<1>3. Len(frames) \in Nat \ {0} /\ frames' # <<>>
  BY <1>1, TopFrame
<1>4. Types'
  BY <1>1, <1>2 DEF IInv, Types
<1>5. Rooted'
  BY <1>1, <1>3 DEF IInv, Rooted, Frameful
<1>6. Framed'
  BY <1>1, <1>2 DEF IInv, Framed, HasArgument
<1>7. ConsoleFollows'
  BY <1>1 DEF IInv, ConsoleFollows
<1> QED
  BY <1>4, <1>5, <1>6, <1>7 DEF IInv

LEMMA Entering ==
  ASSUME IInv, Frameful, NEW caller, Continues(caller),
         NEW n \in Seq(STRING), NEW f \in File, NEW arg \in Arguments,
         frames' = Waits(caller, Frame(n, f, arg)), fileStack' = Append(fileStack, f),
         n \notin DOMAIN modulesMap, n \in DOMAIN modulesMap',
         DOMAIN modulesMap \subseteq DOMAIN modulesMap',
         IF f \in GenericFiles THEN arg.str # <<>> /\ arg.mod \in DOMAIN modulesMap ELSE arg = NoType,
         UNCHANGED <<program, phase, finished, genericsMap>>,
         reads' \in [File -> Nat], Named', Read'
  PROVE  IInv'
<1> DEFINE inner == Frame(n, f, arg)
<1>1. inner \in FrameType /\ inner.name = n /\ inner.file = f /\ inner.arg = arg
  BY DEF Frame, FrameType
<1> HIDE DEF inner
<1>2. /\ frames' \in Seq(FrameType) /\ Len(frames') = Len(frames) + 1
      /\ \A i \in 1..Len(frames) : /\ frames'[i].name = frames[i].name
                                   /\ frames'[i].file = frames[i].file
                                   /\ frames'[i].arg = frames[i].arg
      /\ frames'[Len(frames) + 1] = inner
  BY <1>1, WaitsShape DEF inner
<1>3. GenericFiles' = GenericFiles /\ FrameType' = FrameType
  BY DEF GenericFiles, FrameType
<1>4. Len(frames) \in Nat \ {0} /\ frames' # <<>>
  BY <1>2, TopFrame
<1>5. Types'
  BY <1>2, <1>3 DEF IInv, Types
<1>6. Rooted'
  BY <1>2, <1>4 DEF IInv, Rooted, Frameful
<1>7. n \notin finished /\ \A i \in 1..Len(frames) : frames[i].name # n
  BY DEF IInv, Types, Framed
<1>8. \A i \in 1..Len(frames) : /\ frames'[i].name \in DOMAIN modulesMap' \ finished'
                               /\ HasArgument(frames[i])' /\ frames'[i].name # n
  BY <1>2, <1>3, <1>7 DEF IInv, Framed, HasArgument
<1>9. \A i \in {Len(frames) + 1} : /\ frames'[i].name = n /\ n \in DOMAIN modulesMap' \ finished'
                                  /\ HasArgument(frames[i])'
  BY <1>1, <1>2, <1>3, <1>7 DEF HasArgument
<1>10. \A i, j \in 1..(Len(frames) + 1) : frames'[i].name = frames'[j].name => i = j
  BY <1>2, <1>4, <1>8, <1>9 DEF IInv, Framed
<1>11. Framed'
  BY <1>2, <1>4, <1>8, <1>9, <1>10 DEF Framed
<1>12. ConsoleFollows'
  BY <1>1, <1>2, <1>4 DEF IInv, ConsoleFollows, Types
<1> QED
  BY <1>5, <1>6, <1>11, <1>12 DEF IInv

LEMMA Leaving ==
  ASSUME IInv, returnModule
  PROVE  IInv'
<1>1. Frameful
  BY DEF IInv, Types, Rooted, returnModule, Frameful
<1>2. /\ Len(frames) \in Nat \ {0} /\ Top = frames[Len(frames)] /\ Top \in FrameType
      /\ Front(frames) \in Seq(FrameType) /\ Len(Front(frames)) = Len(frames) - 1
      /\ \A i \in 1..(Len(frames) - 1) : Front(frames)[i] = frames[i]
  BY <1>1, TopFrame
<1>3. GenericFiles' = GenericFiles /\ FrameType' = FrameType
  BY DEF GenericFiles, FrameType, returnModule
<1>4. /\ fileStack \in Seq(File) /\ Len(fileStack) = Len(frames)
      /\ \A i \in 1..Len(fileStack) : fileStack[i] \in File
  BY DEF IInv, Types, ConsoleFollows
<1>5. /\ Front(fileStack) \in Seq(File) /\ Len(Front(fileStack)) = Len(frames) - 1
      /\ \A i \in 1..(Len(frames) - 1) : Front(fileStack)[i] = fileStack[i]
  BY <1>2, <1>4, SubSeqProperties DEF Front
<1>6. Types'
  BY <1>2, <1>3, <1>5 DEF IInv, Types, Framed, returnModule
<1>7. Rooted'
  BY <1>2 DEF IInv, Rooted, returnModule
<1>8. Framed'
  BY <1>2, <1>3 DEF IInv, Framed, HasArgument, returnModule
<1>9. Named' /\ Read'
  BY <1>3 DEF IInv, Named, Read, returnModule
<1>10. ConsoleFollows'
  BY <1>2, <1>5 DEF IInv, ConsoleFollows, returnModule
<1> QED
  BY <1>6, <1>7, <1>8, <1>9, <1>10 DEF IInv
-----------------------------------------------------------------------------
(* The tables and the files that were read.                                 *)

LEMMA Loading ==
  ASSUME IInv, phase = "load"
  PROVE  /\ Frameful /\ Top \in FrameType /\ Continues(Top)
         /\ Top.name \in DOMAIN modulesMap /\ HasArgument(Top)
         /\ IsTables(Me) /\ \A k \in Me.aliases : k \in DOMAIN modulesMap \/ \E g \in GenericFiles : k = Name(g)
         /\ GenericFiles \subseteq File
<1>1. Frameful
  BY DEF IInv, Types, Rooted, Frameful
<1>2. Len(frames) \in Nat \ {0} /\ Top = frames[Len(frames)] /\ Top \in FrameType
  BY <1>1, TopFrame
<1>3. Top.name \in DOMAIN modulesMap /\ HasArgument(Top)
  BY <1>2 DEF IInv, Framed
<1> QED
  BY <1>1, <1>2, <1>3 DEF IInv, Named, Me, Continues, GenericFiles

LEMMA Retabled ==
  ASSUME IInv, phase = "load", NEW t, IsTables(t),
         \A k \in t.aliases : k \in DOMAIN modulesMap \/ \E g \in GenericFiles : k = Name(g),
         modulesMap' = With(modulesMap, Top.name, t), program' = program
  PROVE  Named' /\ DOMAIN modulesMap' = DOMAIN modulesMap
<1>1. Top.name \in DOMAIN modulesMap
  BY Loading
<1>2. /\ DOMAIN modulesMap' = DOMAIN modulesMap
      /\ \A k \in DOMAIN modulesMap : modulesMap'[k] = IF k = Top.name THEN t ELSE modulesMap[k]
  BY <1>1 DEF With
<1>3. GenericFiles' = GenericFiles
  BY DEF GenericFiles
<1> QED
  BY <1>2, <1>3 DEF IInv, Named, IsTables

LEMMA Registered ==
  ASSUME IInv, NEW tables, NEW n \in Seq(STRING),
         Len(n) > 0, n[1] \in File, Len(n) = 1 => n[1] \notin GenericFiles,
         DOMAIN tables = DOMAIN modulesMap,
         \A m \in DOMAIN tables :
           /\ IsTables(tables[m])
           /\ \A k \in tables[m].aliases : \/ k \in DOMAIN modulesMap \/ k = n
                                           \/ \E g \in GenericFiles : k = Name(g),
         modulesMap' = With(tables, n, EmptyModule), program' = program
  PROVE  Named' /\ DOMAIN modulesMap' = DOMAIN modulesMap \cup {n}
<1>1. /\ DOMAIN modulesMap' = DOMAIN modulesMap \cup {n}
      /\ \A k \in DOMAIN modulesMap' : modulesMap'[k] = IF k = n THEN EmptyModule ELSE tables[k]
  BY DEF With
<1>2. GenericFiles' = GenericFiles
  BY DEF GenericFiles
<1>3. IsTables(EmptyModule) /\ EmptyModule.aliases = {}
  BY DEF IsTables, EmptyModule
<1>4. ASSUME NEW m \in DOMAIN modulesMap'
      PROVE  /\ IsTables(modulesMap'[m])
             /\ \A k \in modulesMap'[m].aliases :
                  k \in DOMAIN modulesMap' \/ \E g \in GenericFiles : k = Name(g)
  <2>1. CASE m = n
    BY <1>1, <1>3, <2>1
  <2>2. CASE m # n
    BY <1>1, <2>2
  <2> QED
    BY <2>1, <2>2
<1>5. \A m \in DOMAIN modulesMap' : /\ m \in Seq(STRING) /\ Len(m) > 0 /\ m[1] \in File
                                    /\ Len(m) = 1 => m[1] \notin GenericFiles
  BY <1>1 DEF IInv, Named
<1> QED
  BY <1>1, <1>2, <1>4, <1>5 DEF Named, IsTables

LEMMA ReadOnce ==
  ASSUME IInv, NEW f \in File, f \notin genericsMap, Name(f) \notin DOMAIN modulesMap,
         reads' = [reads EXCEPT ![f] = @ + 1],
         genericsMap \subseteq genericsMap', DOMAIN modulesMap \subseteq DOMAIN modulesMap',
         f \in genericsMap' \/ Name(f) \in DOMAIN modulesMap'
  PROVE  Read' /\ reads' \in [File -> Nat]
<1>1. reads[f] = 0
  BY DEF IInv, Types, Read
<1> QED
  BY <1>1 DEF IInv, Types, Read

LEMMA ReadNothing ==
  ASSUME IInv, reads' = reads,
         genericsMap \subseteq genericsMap', DOMAIN modulesMap \subseteq DOMAIN modulesMap'
  PROVE  Read' /\ reads' \in [File -> Nat]
BY DEF IInv, Types, Read

LEMMA Failing ==
  ASSUME IInv, phase = "load", compileError
  PROVE  IInv'
<1> USE DEF compileError
<1>1. GenericFiles' = GenericFiles /\ FrameType' = FrameType
  BY DEF GenericFiles, FrameType
<1>2. Types' /\ Rooted'
  BY <1>1 DEF IInv, Types, Rooted
<1>3. Named' /\ Framed' /\ Read' /\ ConsoleFollows'
  BY <1>1 DEF IInv, Named, Framed, HasArgument, Read, ConsoleFollows
<1> QED
  BY <1>2, <1>3 DEF IInv
-----------------------------------------------------------------------------
(* What stands at the place where a frame is.                               *)

LEMMA ItemOfFile ==
  ASSUME IInv, phase = "load", Top.next <= Len(Agenda(Top))
  PROVE  \/ Item.op = "use" /\ Item.of \in DOMAIN modulesMap
         \/ /\ Item \in Items
            /\ Item.op = "make" =>
                 /\ Item.ty = "param" => Top.file \in GenericFiles
                 /\ Item.ty \in File => Item.ty \notin GenericFiles
<1>1. Top \in FrameType /\ HasArgument(Top)
  BY Loading
<1> DEFINE items == program[Top.file].items
<1>2. /\ items \in Seq(Items)
      /\ \A i \in 1..Len(items) :
           items[i].op = "make" =>
             /\ items[i].ty = "param" => Top.file \in GenericFiles
             /\ items[i].ty \in File => items[i].ty \notin GenericFiles
  BY <1>1, ProgramsAreTyped DEF IInv, Types, GenericFiles, FrameType
<1> HIDE DEF items
<1>3. Top.next \in Nat \ {0} /\ Len(items) \in Nat /\ \A i \in 1..Len(items) : items[i] \in Items
  BY <1>1, <1>2 DEF FrameType
<1>4. CASE Top.arg = NoType
  <2>1. Agenda(Top) = items
    BY <1>2, <1>4, ConcatEmptySeq DEF Agenda, items
  <2> QED
    BY <1>2, <1>3, <2>1 DEF Item
<1>5. CASE Top.arg # NoType
  <2> DEFINE first == [op |-> "use", of |-> Top.arg.mod]
             All == Items \cup {first}
  <2>1. first.op = "use" /\ first.of = Top.arg.mod /\ Top.arg.mod \in DOMAIN modulesMap
    BY <1>1, <1>5 DEF HasArgument
  <2> HIDE DEF first
  <2>2. <<first>> \in Seq(All) /\ items \in Seq(All) /\ Len(<<first>>) = 1 /\ <<first>>[1] = first
    BY <1>2, <1>3
  <2>3. /\ Len(<<first>> \o items) = 1 + Len(items)
        /\ \A i \in 1..(1 + Len(items)) :
             (<<first>> \o items)[i] = IF i <= 1 THEN <<first>>[i] ELSE items[i - 1]
    BY <2>2, ConcatProperties
  <2>4. Agenda(Top) = <<first>> \o items
    BY <1>5 DEF Agenda, items, first
  <2>5. Top.next \in 1..(1 + Len(items)) /\ Item = (<<first>> \o items)[Top.next]
    BY <1>3, <2>3, <2>4 DEF Item
  <2>6. CASE Top.next = 1
    BY <2>1, <2>2, <2>3, <2>5, <2>6
  <2>7. CASE Top.next # 1
    <3>1. Item = items[Top.next - 1] /\ Top.next - 1 \in 1..Len(items)
      BY <1>3, <2>3, <2>5, <2>7
    <3> QED
      BY <1>2, <1>3, <3>1
  <2> QED
    BY <2>6, <2>7
<1> QED
  BY <1>4, <1>5

\* A name that is loaded and is not there yet is the name of a file.
LEMMA FileName ==
  ASSUME NEW f \in File
  PROVE  /\ Name(f) \in Seq(STRING) /\ Len(Name(f)) = 1 /\ Name(f)[1] = f
         /\ isGeneric(Name(f)) <=> program[f].generic
BY FilesAreNames DEF Name, isGeneric

LEMMA UsedName ==
  ASSUME IInv, At("use")
  PROVE  /\ moduleExists(Item.of) => ~isGeneric(Item.of)
         /\ ~moduleExists(Item.of) => \E f \in File : Item.of = Name(f)
<1>1. Item.of \in DOMAIN modulesMap \/ \E f \in File : Item.of = Name(f)
  BY ItemOfFile DEF At, Items, Names
<1>2. Item.of \in DOMAIN modulesMap => ~isGeneric(Item.of)
  BY DEF IInv, Named, isGeneric, GenericFiles
<1> QED
  BY <1>1, <1>2 DEF moduleExists
-----------------------------------------------------------------------------
(* One lemma for each action.                                               *)

\* Parsing a generic file, for use and from.
LEMMA Indexing ==
  ASSUME IInv, phase = "load", NEW f \in File, f \in GenericFiles, index(f),
         UNCHANGED <<program, phase, finished>>,
         Named', DOMAIN modulesMap' = DOMAIN modulesMap
  PROVE  IInv'
<1>1. Frameful /\ Top \in FrameType /\ Continues(Top)
  BY Loading
<1>2. PICK fr : fr = [Top EXCEPT !.generics = @ \cup {f}]
  OBVIOUS
<1>3. Continues(fr) /\ frames' = GoesOn(fr)
  BY <1>1, <1>2 DEF index, Continues, FrameType
<1>4. genericsMap' = genericsMap \cup {f} /\ genericsMap' \subseteq GenericFiles
  BY DEF index, IInv, Types
<1>5. Name(f) \notin DOMAIN modulesMap
  BY FileName DEF IInv, Named
<1>6. Read' /\ reads' \in [File -> Nat]
  <2>1. CASE f \in genericsMap
    BY <2>1, <1>4, ReadNothing DEF index
  <2>2. CASE f \notin genericsMap
    BY <2>2, <1>4, <1>5, ReadOnce DEF index
  <2> QED
    BY <2>1, <2>2
<1> QED
  BY <1>1, <1>3, <1>4, <1>6, GoingOn DEF index

\* Parsing and generating a plain file, for use and from.
LEMMA Generating ==
  ASSUME IInv, phase = "load", NEW f \in File, f \notin GenericFiles,
         Name(f) \notin DOMAIN modulesMap,
         NEW caller, Continues(caller), NEW tables, DOMAIN tables = DOMAIN modulesMap,
         \A m \in DOMAIN tables :
           /\ IsTables(tables[m])
           /\ \A k \in tables[m].aliases : \/ k \in DOMAIN modulesMap \/ k = Name(f)
                                           \/ \E g \in GenericFiles : k = Name(g),
         generate(f, caller, tables), UNCHANGED <<program, phase, finished>>
  PROVE  IInv'
<1>1. Frameful
  BY Loading
<1>2. PICK n : n = Name(f)
  OBVIOUS
<1>3. n \in Seq(STRING) /\ Len(n) = 1 /\ n[1] = f
  BY <1>2, FileName
<1>4. /\ modulesMap' = With(tables, n, EmptyModule)
      /\ Len(n) > 0 /\ n[1] \in File /\ (Len(n) = 1 => n[1] \notin GenericFiles)
      /\ \A m \in DOMAIN tables :
           /\ IsTables(tables[m])
           /\ \A k \in tables[m].aliases : \/ k \in DOMAIN modulesMap \/ k = n
                                           \/ \E g \in GenericFiles : k = Name(g)
  BY <1>2, <1>3 DEF generate
<1>5. Named' /\ DOMAIN modulesMap' = DOMAIN modulesMap \cup {n}
  BY <1>3, <1>4, Registered
<1>6. f \notin genericsMap
  BY DEF IInv, Types
<1>7. Read' /\ reads' \in [File -> Nat]
  BY <1>2, <1>5, <1>6, ReadOnce DEF generate
<1>8. NoType \in Arguments
  BY DEF NoType, Type, Arguments
<1> QED
  BY <1>1, <1>2, <1>3, <1>5, <1>7, <1>8, Entering DEF generate

LEMMA Using ==
  ASSUME IInv, createUse
  PROVE  IInv'
<1>1. At("use") /\ phase = "load"
  BY DEF createUse, At
<1>2. PICK n : n = Item.of
  OBVIOUS
<1>3. PICK t : t = [Me EXCEPT !.uses = @ \cup {n}, !.aliases = @ \cup {n}]
  OBVIOUS
<1>4. /\ Frameful /\ Top \in FrameType /\ Continues(Top) /\ IsTables(Me)
      /\ Top.name \in DOMAIN modulesMap
      /\ \A k \in Me.aliases : k \in DOMAIN modulesMap \/ \E g \in GenericFiles : k = Name(g)
  BY <1>1, Loading
<1>5. IsTables(t) /\ t.aliases = Me.aliases \cup {n}
  BY <1>3, <1>4 DEF IsTables
<1>6. /\ moduleExists(n) => ~isGeneric(n)
      /\ ~moduleExists(n) => \E f \in File : n = Name(f)
  BY <1>1, <1>2, UsedName
<1>7. CASE compileError
  BY <1>1, <1>7, Failing
<1>8. CASE /\ moduleExists(n) /\ modulesMap' = With(modulesMap, Top.name, t)
           /\ frames' = GoesOn(Top)
           /\ UNCHANGED <<genericsMap, fileStack, reads, program, phase, finished>>
  <2>1. Named' /\ DOMAIN modulesMap' = DOMAIN modulesMap
    BY <1>1, <1>4, <1>5, <1>8, Retabled DEF moduleExists
  <2>2. Read' /\ reads' \in [File -> Nat]
    BY <1>8, <2>1, ReadNothing
  <2>3. PICK fr : fr = Top
    OBVIOUS
  <2>4. genericsMap' \subseteq GenericFiles
    BY <1>8 DEF IInv, Types
  <2> QED
    BY <1>4, <1>8, <2>1, <2>2, <2>3, <2>4, GoingOn
<1>9. CASE /\ isGeneric(n) /\ modulesMap' = With(modulesMap, Top.name, t) /\ index(n[1])
           /\ UNCHANGED <<program, phase, finished>>
  <2>1. PICK f \in File : n = Name(f)
    BY <1>6, <1>9
  <2>2. n[1] = f /\ f \in GenericFiles
    BY <1>9, <2>1, FileName DEF GenericFiles
  <2>3. Named' /\ DOMAIN modulesMap' = DOMAIN modulesMap
    BY <1>1, <1>4, <1>5, <1>9, <2>1, <2>2, Retabled
  <2> QED
    BY <1>1, <1>9, <2>2, <2>3, Indexing
<1>10. CASE /\ ~moduleExists(n) /\ ~isGeneric(n)
            /\ generate(n[1], [Top EXCEPT !.next = @ + 1], With(modulesMap, Top.name, t))
            /\ UNCHANGED <<program, phase, finished>>
  <2>1. PICK f \in File : n = Name(f)
    BY <1>6, <1>10
  <2>2. n[1] = f /\ f \notin GenericFiles /\ Name(f) \notin DOMAIN modulesMap
    BY <1>10, <2>1, FileName DEF GenericFiles, moduleExists
  <2>3. PICK caller : caller = [Top EXCEPT !.next = @ + 1]
    OBVIOUS
  <2>4. Continues(caller)
    BY <1>4, <2>3 DEF Continues, FrameType
  <2>5. PICK tables : tables = With(modulesMap, Top.name, t)
    OBVIOUS
  <2>6. /\ DOMAIN tables = DOMAIN modulesMap
        /\ \A m \in DOMAIN tables : tables[m] = IF m = Top.name THEN t ELSE modulesMap[m]
    BY <1>4, <2>5 DEF With
  <2>7. ASSUME NEW m \in DOMAIN tables
        PROVE  /\ IsTables(tables[m])
               /\ \A k \in tables[m].aliases : \/ k \in DOMAIN modulesMap \/ k = Name(f)
                                               \/ \E g \in GenericFiles : k = Name(g)
    BY <1>4, <1>5, <2>1, <2>6 DEF IInv, Named
  <2>8. generate(f, caller, tables)
    BY <1>10, <2>2, <2>3, <2>5
  <2> QED
    BY <1>1, <1>10, <2>2, <2>4, <2>6, <2>7, <2>8, Generating
<1> QED
  BY <1>2, <1>3, <1>7, <1>8, <1>9, <1>10 DEF createUse

LEMMA Importing ==
  ASSUME IInv, createDirectFrom
  PROVE  IInv'
<1>1. At("from") /\ phase = "load"
  BY DEF createDirectFrom, At
<1>2. PICK n : n = Item.of
  OBVIOUS
<1>3. PICK f \in File : n = Name(f)
  BY <1>1, <1>2, ItemOfFile DEF At, Items, Names
<1>4. n[1] = f /\ (isGeneric(n) <=> f \in GenericFiles)
  BY <1>3, FileName DEF GenericFiles
<1>5. Frameful /\ Continues(Top) /\ IsTables(Me)
  BY <1>1, Loading
<1>6. CASE compileError
  BY <1>1, <1>6, Failing
<1>7. CASE isGeneric(n) /\ index(f) /\ UNCHANGED <<program, phase, modulesMap, finished>>
  <2>1. Named'
    BY <1>7 DEF IInv, Named, GenericFiles, IsTables
  <2> QED
    BY <1>1, <1>4, <1>7, <2>1, Indexing
<1>8. CASE /\ ~moduleExists(n) /\ ~isGeneric(n) /\ generate(f, Top, modulesMap)
           /\ UNCHANGED <<program, phase, finished>>
  <2>1. PICK caller, tables : caller = Top /\ tables = modulesMap
    OBVIOUS
  <2>2. \A m \in DOMAIN tables :
          /\ IsTables(tables[m])
          /\ \A k \in tables[m].aliases : \/ k \in DOMAIN modulesMap \/ k = Name(f)
                                          \/ \E g \in GenericFiles : k = Name(g)
    BY <2>1 DEF IInv, Named
  <2>3. Continues(caller) /\ generate(f, caller, tables) /\ DOMAIN tables = DOMAIN modulesMap
    BY <1>5, <1>8, <2>1
  <2> QED
    BY <1>1, <1>3, <1>4, <1>8, <2>2, <2>3, Generating DEF moduleExists
<1>9. CASE /\ \E imports : modulesMap' = With(modulesMap, Top.name,
                             [Me EXCEPT !.uses = @ \cup {n}, !.imported = imports])
           /\ frames' = GoesOn(Top)
           /\ UNCHANGED <<program, phase, genericsMap, fileStack, reads, finished>>
  <2>1. PICK t : /\ modulesMap' = With(modulesMap, Top.name, t)
                 /\ \E imports : t = [Me EXCEPT !.uses = @ \cup {n}, !.imported = imports]
    BY <1>9
  <2>2. IsTables(t) /\ t.aliases = Me.aliases
    BY <1>5, <2>1 DEF IsTables
  <2>3. Named' /\ DOMAIN modulesMap' = DOMAIN modulesMap
    BY <1>1, <1>9, <2>1, <2>2, Retabled, Loading
  <2>4. Read' /\ reads' \in [File -> Nat]
    BY <1>9, <2>3, ReadNothing
  <2>5. PICK fr : fr = Top
    OBVIOUS
  <2>6. genericsMap' \subseteq GenericFiles
    BY <1>9 DEF IInv, Types
  <2> QED
    BY <1>5, <1>9, <2>3, <2>4, <2>5, <2>6, GoingOn
<1> QED
  BY <1>2, <1>4, <1>6, <1>7, <1>8, <1>9 DEF createDirectFrom

LEMMA Declaring ==
  ASSUME IInv, createFunction
  PROVE  IInv'
<1>1. phase = "load"
  BY DEF createFunction, At
<1>2. /\ Frameful /\ Continues(Top) /\ IsTables(Me)
      /\ \A k \in Me.aliases : k \in DOMAIN modulesMap \/ \E g \in GenericFiles : k = Name(g)
  BY <1>1, Loading
<1>3. CASE compileError
  BY <1>1, <1>3, Failing
<1>4. CASE /\ modulesMap' = With(modulesMap, Top.name, [Me EXCEPT !.functions = @ \cup {Item.sym}])
           /\ frames' = GoesOn(Top)
           /\ UNCHANGED <<program, phase, genericsMap, fileStack, reads, finished>>
  <2>1. PICK t : t = [Me EXCEPT !.functions = @ \cup {Item.sym}]
    OBVIOUS
  <2>2. IsTables(t) /\ t.aliases = Me.aliases
    BY <1>2, <2>1 DEF IsTables
  <2>3. Named' /\ DOMAIN modulesMap' = DOMAIN modulesMap
    BY <1>1, <1>2, <1>4, <2>1, <2>2, Retabled
  <2>4. Read' /\ reads' \in [File -> Nat]
    BY <1>4, <2>3, ReadNothing
  <2>5. PICK fr : fr = Top
    OBVIOUS
  <2>6. genericsMap' \subseteq GenericFiles
    BY <1>4 DEF IInv, Types
  <2> QED
    BY <1>2, <1>4, <2>3, <2>4, <2>5, <2>6, GoingOn
<1> QED
  BY <1>3, <1>4 DEF createFunction

\* A step that only moves on.
LEMMA Passing ==
  ASSUME IInv, phase = "load", frames' = GoesOn(Top),
         UNCHANGED <<program, phase, modulesMap, genericsMap, fileStack, reads, finished>>
  PROVE  IInv'
<1>1. Frameful /\ Continues(Top)
  BY Loading
<1>2. Named' /\ genericsMap' \subseteq GenericFiles
  BY DEF IInv, Types, Named, GenericFiles, IsTables
<1>3. Read' /\ reads' \in [File -> Nat]
  BY ReadNothing
<1>4. PICK fr : fr = Top
  OBVIOUS
<1> QED
  BY <1>1, <1>2, <1>3, <1>4, GoingOn

LEMMA Calling ==
  ASSUME IInv, functionCall
  PROVE  IInv'
BY Failing, Passing DEF functionCall, At

\* The argument of an instance exists, and has a name that is not empty.
LEMMA Argument ==
  ASSUME IInv, At("make"), Item.ty \in File => Name(Item.ty) \in Me.aliases
  PROVE  LET arg == TypeOf(Item.ty)
         IN  arg \in Arguments /\ arg.str # <<>> /\ arg.mod \in DOMAIN modulesMap
<1>1. /\ Top \in FrameType /\ HasArgument(Top) /\ Top.name \in DOMAIN modulesMap
      /\ \A k \in Me.aliases : k \in DOMAIN modulesMap \/ \E g \in GenericFiles : k = Name(g)
      /\ GenericFiles \subseteq File
  BY Loading DEF At
<1>2. Item \in Items /\ Item.op = "make"
  BY ItemOfFile DEF At
<1>3. /\ Item.ty \in File \cup {"int", "own", "param"}
      /\ Item.ty = "param" => Top.file \in GenericFiles
      /\ Item.ty \in File => Item.ty \notin GenericFiles
  BY <1>2, ItemOfFile DEF At, Items
<1>4. Top.name \in Seq(STRING) /\ Top.name # <<>>
  BY <1>1 DEF IInv, Named
<1>5. CASE Item.ty = "own"
  BY <1>1, <1>4, <1>5 DEF TypeOf, Type, Arguments
<1>6. CASE Item.ty = "int"
  <2>1. \A x \in STRING : <<x>> \in Seq(STRING) /\ <<x>> # <<>>
    OBVIOUS
  <2>2. "int" \in STRING
    BY FilesAreNames
  <2>3. TypeOf(Item.ty) = Type(<<"int">>, Top.name)
    BY <1>6 DEF TypeOf
  <2> QED
    BY <1>1, <1>4, <2>1, <2>2, <2>3 DEF Type, Arguments
<1>7. CASE Item.ty = "param"
  BY <1>1, <1>3, <1>7 DEF TypeOf, FrameType, HasArgument
<1>8. CASE Item.ty \in File
  <2>1. Name(Item.ty) \in DOMAIN modulesMap
    <3>1. ASSUME NEW g \in GenericFiles, Name(Item.ty) = Name(g)
          PROVE  FALSE
      BY <1>1, <1>3, <1>8, <3>1, FileName
    <3> QED
      BY <1>1, <1>8, <3>1
  <2>2. Name(Item.ty) \in Seq(STRING) /\ Name(Item.ty) # <<>>
    BY <1>8, FileName
  <2>3. TypeOf(Item.ty) = Type(Name(Item.ty), Name(Item.ty))
    BY <1>8, FilesAreNames DEF TypeOf
  <2> QED
    BY <2>1, <2>2, <2>3 DEF Type, Arguments
<1> QED
  BY <1>3, <1>5, <1>6, <1>7, <1>8

LEMMA Instantiating ==
  ASSUME IInv, makeInstance
  PROVE  IInv'
<1>1. At("make") /\ phase = "load"
  BY DEF makeInstance, At
<1>2. PICK g, arg, n : g = Item.of[1] /\ arg = TypeOf(Item.ty) /\ n = <<g>> \o arg.str
  OBVIOUS
<1>3. CASE compileError
  BY <1>1, <1>3, Failing
<1>4. CASE /\ frames' = GoesOn(Top)
           /\ UNCHANGED <<program, phase, modulesMap, genericsMap, fileStack, reads, finished>>
  BY <1>1, <1>4, Passing
<1>5. CASE /\ g \in Top.generics /\ (Item.ty \in File => Name(Item.ty) \in Me.aliases)
           /\ ~moduleExists(n)
           /\ modulesMap' = With(modulesMap, n, EmptyModule)
           /\ frames' = Waits(Top, Frame(n, g, arg))
           /\ fileStack' = Append(fileStack, g)
           /\ UNCHANGED <<program, phase, genericsMap, reads, finished>>
  <2>1. Frameful /\ Top \in FrameType /\ Continues(Top) /\ GenericFiles \subseteq File
    BY <1>1, Loading
  <2>2. g \in GenericFiles /\ g \in File /\ g \in STRING
    BY <1>5, <2>1, FilesAreNames DEF FrameType
  <2>3. arg \in Arguments /\ arg.str # <<>> /\ arg.mod \in DOMAIN modulesMap
    BY <1>1, <1>2, <1>5, Argument
  <2>4. /\ <<g>> \in Seq(STRING) /\ arg.str \in Seq(STRING)
        /\ Len(<<g>>) = 1 /\ Len(arg.str) \in Nat /\ Len(arg.str) > 0
    BY <2>2, <2>3 DEF Arguments
  <2>5. n \in Seq(STRING) /\ Len(n) > 0 /\ Len(n) # 1 /\ n[1] = g
    BY <1>2, <2>4, ConcatProperties
  <2>6. PICK tables, caller : tables = modulesMap /\ caller = Top
    OBVIOUS
  <2>7. \A m \in DOMAIN tables :
          /\ IsTables(tables[m])
          /\ \A k \in tables[m].aliases : \/ k \in DOMAIN modulesMap \/ k = n
                                          \/ \E h \in GenericFiles : k = Name(h)
    BY <2>6 DEF IInv, Named
  <2>8. Named' /\ DOMAIN modulesMap' = DOMAIN modulesMap \cup {n}
    <3>1. Len(n) > 0 /\ n[1] \in File /\ (Len(n) = 1 => n[1] \notin GenericFiles)
      BY <2>2, <2>5
    <3>2. /\ DOMAIN tables = DOMAIN modulesMap
          /\ modulesMap' = With(tables, n, EmptyModule) /\ program' = program
      BY <1>5, <2>6
    <3> QED
      BY <2>5, <2>7, <3>1, <3>2, Registered
  <2>9. Read' /\ reads' \in [File -> Nat]
    BY <1>5, <2>8, ReadNothing
  <2> QED
    BY <1>5, <2>1, <2>2, <2>3, <2>5, <2>6, <2>8, <2>9, Entering DEF moduleExists
<1> QED
  BY <1>2, <1>3, <1>4, <1>5 DEF makeInstance
-----------------------------------------------------------------------------
LEMMA Initially ==
  ASSUME Init
  PROVE  IInv
<1>1. PICK n : n = Name(Root)
  OBVIOUS
<1>2. Root \in File /\ Root \notin GenericFiles
  BY ProgramsAreTyped DEF Init, GenericFiles
<1>3. n \in Seq(STRING) /\ Len(n) = 1 /\ n[1] = Root
  BY <1>1, <1>2, FileName
<1>4. DOMAIN modulesMap = {n} /\ modulesMap[n] = EmptyModule
  BY <1>1 DEF Init
<1>5. PICK fr : fr = Frame(n, Root, NoType)
  OBVIOUS
<1>6. fr \in FrameType /\ fr.name = n /\ fr.file = Root /\ fr.arg = NoType
  BY <1>2, <1>3, <1>5 DEF Frame, FrameType, NoType, Type, Arguments
<1>7. frames \in Seq(FrameType) /\ Len(frames) = 1 /\ frames[1] = fr /\ frames # <<>>
  BY <1>1, <1>5, <1>6 DEF Init
<1>8. fileStack \in Seq(File) /\ Len(fileStack) = 1 /\ fileStack[1] = Root
  BY <1>2 DEF Init
<1>9. Types
  BY <1>2, <1>7, <1>8 DEF Types, Init
<1>10. Rooted /\ Framed /\ ConsoleFollows
  BY <1>1, <1>2, <1>4, <1>6, <1>7, <1>8 DEF Rooted, Framed, HasArgument, ConsoleFollows, Init
<1>11. Named
  BY <1>2, <1>3, <1>4 DEF Named, IsTables, EmptyModule
<1>12. Read
  BY <1>1, <1>2, <1>4 DEF Read, Init
<1> QED
  BY <1>9, <1>10, <1>11, <1>12 DEF IInv

\* The inductive invariant holds in every state of the loader.
THEOREM Inductive == Spec => []IInv
<1>1. Init => IInv
  BY Initially
<1>2. IInv /\ [Next]_vars => IInv'
  <2> SUFFICES ASSUME IInv, [Next]_vars
               PROVE  IInv'
    OBVIOUS
  <2>1. CASE Next
    BY <2>1, Using, Importing, Declaring, Instantiating, Calling, Leaving DEF Next
  <2>2. CASE UNCHANGED vars
    BY <2>2 DEF vars, IInv, Types, FrameType, GenericFiles, Rooted, Named, IsTables, Framed,
                HasArgument, Read, ConsoleFollows
  <2> QED
    BY <2>1, <2>2
<1> QED
  BY <1>1, <1>2, PTL DEF Spec

\* However the files and instances ask for each other, generateModule is never
\* entered again for a module that it is at or that it has finished, and no
\* file is read a second time.
THEOREM GeneratesOnce == Spec => []GeneratedOnce
<1>1. IInv => GeneratedOnce
  BY DEF IInv, Types, Framed, Read, GeneratedOnce
<1> QED
  BY <1>1, Inductive, PTL

\* The console's stack always names the files of the modules that are being
\* generated, from the root to the innermost.
THEOREM StackFollows == Spec => []ConsoleFollows
<1>1. IInv => ConsoleFollows
  BY DEF IInv
<1> QED
  BY <1>1, Inductive, PTL

\* The loader's tables stay consistent: what is generated is registered, and
\* the root is under generation until everything is done.
THEOREM TypeCorrect == Spec => []TypeOK
<1>1. IInv => TypeOK
  <2> SUFFICES ASSUME IInv
               PROVE  TypeOK
    OBVIOUS
  <2>1. frames = <<>> \/ (1 \in 1..Len(frames) /\ frames[1].name = Name(Root))
    BY DEF IInv, Types, Rooted
  <2>2. Active(Name(Root)) \/ phase = "done"
    BY <2>1 DEF IInv, Rooted, Active
  <2> QED
    BY <2>2 DEF IInv, Types, Framed, TypeOK, GenericFiles
<1> QED
  BY <1>1, Inductive, PTL

-----------------------------------------------------------------------------
(* What the tables say about the text.  A declaration or mention that a     *)
(* module is past has left what it stands for in the tables: an alias, a    *)
(* function, what was imported, an instance.                                *)
Done(m, item) ==
  /\ item.op = "use" => item.of \in modulesMap[m].aliases
  /\ item.op = "from" /\ ~isGeneric(item.of) => item.sym \in DOMAIN modulesMap[m].imported
  /\ item.op = "fn" => item.sym \in modulesMap[m].functions
  /\ item.op = "make" => Instance(m, item) \in DOMAIN modulesMap

Loader(item)   == item.op \in {"use", "from"}
Importer(item) == item.op = "from" /\ ~isGeneric(item.of)

Past(fr) == {Agenda(fr)[i] : i \in 1..(fr.next - 1)}

\* An active module has what its past left, and nothing that its past has not.
Accounted(fr) ==
  /\ fr.file = fr.name[1]
  /\ fr.arg # NoType => fr.arg.str = Tail(fr.name)
  /\ \A item \in Past(fr) :
       /\ Done(fr.name, item)
       /\ Loader(item) /\ isGeneric(item.of) => item.of[1] \in fr.generics
  /\ \A k \in modulesMap[fr.name].uses : \E item \in Past(fr) : Loader(item) /\ item.of = k
  /\ \A s \in DOMAIN modulesMap[fr.name].imported :
       \E item \in Past(fr) : Importer(item) /\ item.sym = s
  /\ \A s \in modulesMap[fr.name].functions :
       \E item \in Past(fr) : item.op = "fn" /\ item.sym = s

Accounts == \A i \in 1..Len(frames) : Accounted(frames[i])

\* What any module offers has a source in the text, and what it uses is there.
Sourced(m) ==
  /\ \A s \in modulesMap[m].functions : Declares(m[1], s)
  /\ \A s \in DOMAIN modulesMap[m].imported :
       \E item \in ToSet(program[m[1]].items) :
         Importer(item) /\ item.sym = s /\ modulesMap[m].imported[s][1] \in Sources(item.of[1], s)
  /\ modulesMap[m].uses \subseteq DOMAIN modulesMap \cup {Name(g) : g \in genericsMap}

Offers == \A m \in DOMAIN modulesMap : Sourced(m)

\* A module that is through is past everything in its file; there are no
\* modules but those and the active ones.
Through ==
  /\ \A n \in finished : \A item \in ToSet(program[n[1]].items) : Done(n, item)
  /\ DOMAIN modulesMap = finished \cup {frames[i].name : i \in 1..Len(frames)}
  /\ phase = "done" => frames = <<>>

Telling == Accounts /\ Offers /\ Through

Told == IInv /\ Telling /\ FailsForCause /\ CallsTheNamedModule

-----------------------------------------------------------------------------
(* The text: what a frame has to do, and where a function comes from.       *)

LEMMA SameText ==
  ASSUME program' = program
  PROVE  /\ \A f, s : Sources(f, s)' = Sources(f, s) /\ (Declares(f, s)' <=> Declares(f, s))
         /\ \A n : isGeneric(n)' <=> isGeneric(n)
         /\ \A fr : Agenda(fr)' = Agenda(fr) /\ Past(fr)' = Past(fr)
         /\ \A item : Importer(item)' <=> Importer(item)
<1>1. \A f, s : Sources(f, s)' = Sources(f, s) /\ (Declares(f, s)' <=> Declares(f, s))
  BY DEF Sources, Declares
<1>2. \A n : isGeneric(n)' <=> isGeneric(n)
  BY DEF isGeneric
<1>3. \A fr : Agenda(fr)' = Agenda(fr) /\ Past(fr)' = Past(fr)
  BY DEF Agenda, Past
<1>4. \A item : Importer(item)' <=> Importer(item)
  BY DEF Importer, isGeneric
<1> QED
  BY <1>1, <1>2, <1>3, <1>4

LEMMA FileText ==
  ASSUME program \in Programs, NEW f \in File
  PROVE  /\ program[f].items \in Seq(Items) /\ program[f].generic \in BOOLEAN
         /\ \A item \in ToSet(program[f].items) :
              /\ item \in Items
              /\ item.op = "make" => /\ item.ty = "param" => f \in GenericFiles
                                     /\ item.ty \in File => item.ty \notin GenericFiles
BY ProgramsAreTyped DEF ToSet, GenericFiles

LEMMA ItemOf ==
  ASSUME NEW item \in Items, item.op \in {"use", "from", "call", "make"}
  PROVE  /\ \E k \in File : item.of = Name(k) /\ item.of[1] = k
         /\ isGeneric(item.of) <=> item.of[1] \in GenericFiles
<1>1. item.of \in Names
  BY DEF Items
<1>2. PICK k \in File : item.of = Name(k)
  BY <1>1 DEF Names
<1> QED
  BY <1>2, FileName DEF GenericFiles

LEMMA AgendaItems ==
  ASSUME program \in Programs, NEW fr \in FrameType
  PROVE  /\ Len(Agenda(fr)) \in Nat
         /\ \A item \in ToSet(program[fr.file].items) : \E j \in 1..Len(Agenda(fr)) : Agenda(fr)[j] = item
         /\ \A j \in 1..Len(Agenda(fr)) :
              \/ Agenda(fr)[j] \in ToSet(program[fr.file].items)
              \/ fr.arg # NoType /\ Agenda(fr)[j] = [op |-> "use", of |-> fr.arg.mod]
<1> DEFINE items == program[fr.file].items
           first == [op |-> "use", of |-> fr.arg.mod]
           All == Items \cup {first}
<1>1. items \in Seq(Items) /\ Len(items) \in Nat /\ DOMAIN items = 1..Len(items)
  BY FileText DEF FrameType
<1>2. ToSet(items) = {items[i] : i \in 1..Len(items)}
  BY <1>1 DEF ToSet
<1>3. CASE fr.arg = NoType
  <2>1. Agenda(fr) = items
    BY <1>1, <1>3, ConcatEmptySeq DEF Agenda, items
  <2> QED
    BY <1>1, <1>2, <2>1
<1>4. CASE fr.arg # NoType
  <2> HIDE DEF first, items
  <2>1. items \in Seq(All) /\ <<first>> \in Seq(All) /\ Len(<<first>>) = 1 /\ <<first>>[1] = first
    BY <1>1
  <2>2. /\ Len(<<first>> \o items) = 1 + Len(items)
        /\ \A i \in 1..(1 + Len(items)) :
             (<<first>> \o items)[i] = IF i <= 1 THEN <<first>>[i] ELSE items[i - 1]
    BY <2>1, ConcatProperties
  <2>3. PICK agenda : agenda = <<first>> \o items
    OBVIOUS
  <2>4. /\ Len(agenda) = 1 + Len(items)
        /\ \A i \in 1..(1 + Len(items)) : agenda[i] = IF i = 1 THEN first ELSE items[i - 1]
    BY <1>1, <2>1, <2>2, <2>3
  <2>5. \A i \in 1..Len(items) : i + 1 \in 1..Len(agenda) /\ agenda[i + 1] = items[i]
    BY <1>1, <2>4
  <2>6. \A j \in 1..Len(agenda) : agenda[j] = first \/ \E i \in 1..Len(items) : agenda[j] = items[i]
    BY <1>1, <2>4
  <2>7. Agenda(fr) = agenda
    BY <1>4, <2>3 DEF Agenda, items, first
  <2>8. Len(agenda) \in Nat
    BY <1>1, <2>4
  <2>9. \A item \in ToSet(items) : \E j \in 1..Len(agenda) : agenda[j] = item
    BY <1>2, <2>5
  <2>10. \A j \in 1..Len(agenda) : agenda[j] \in ToSet(items) \/ (fr.arg # NoType /\ agenda[j] = first)
    BY <1>2, <1>4, <2>6
  <2> QED
    BY <2>7, <2>8, <2>9, <2>10 DEF items, first
<1> QED
  BY <1>3, <1>4

LEMMA PastGrows ==
  ASSUME NEW fr \in FrameType
  PROVE  Past([fr EXCEPT !.next = @ + 1]) = Past(fr) \cup {Agenda(fr)[fr.next]}
<1>1. PICK next : next = [fr EXCEPT !.next = @ + 1]
  OBVIOUS
<1>2. /\ fr.next \in Nat \ {0} /\ next.next = fr.next + 1
      /\ next.file = fr.file /\ next.arg = fr.arg
  BY <1>1 DEF FrameType
<1>3. Agenda(next) = Agenda(fr)
  BY <1>2 DEF Agenda
<1>4. 1..(next.next - 1) = 1..(fr.next - 1) \cup {fr.next}
  BY <1>2
<1> QED
  BY <1>1, <1>3, <1>4 DEF Past

LEMMA SourceHere ==
  ASSUME NEW f \in File, f \notin GenericFiles, NEW s, Declares(f, s)
  PROVE  f \in Sources(f, s)
BY DEF Sources, GenericFiles

LEMMA SourceThere ==
  ASSUME NEW f \in File, f \notin GenericFiles, NEW s,
         NEW item \in ToSet(program[f].items), item.op = "from", item.sym = s
  PROVE  Sources(item.of[1], s) \subseteq Sources(f, s)
<1> DEFINE froms(x)  == {i.of[1] : i \in {i \in ToSet(program[x].items) : i.op = "from" /\ i.sym = s}}
           closed(S) == \A x \in S : ~program[x].generic => froms(x) \subseteq S
<1>1. item.of[1] \in froms(f) /\ ~program[f].generic
  BY DEF GenericFiles
<1> SUFFICES ASSUME NEW h \in Sources(item.of[1], s)
             PROVE  h \in Sources(f, s)
  OBVIOUS
<1>2. /\ h \in File /\ ~program[h].generic /\ Declares(h, s)
      /\ \A S \in SUBSET File : item.of[1] \in S /\ closed(S) => h \in S
  BY DEF Sources
<1> HIDE DEF froms
<1>3. ASSUME NEW S \in SUBSET File, f \in S, closed(S)
      PROVE  h \in S
  BY <1>1, <1>2, <1>3
<1> QED
  BY <1>2, <1>3 DEF Sources, froms

\* A file that does not declare s, and imports it from generic files at most.
LEMMA SourceNowhere ==
  ASSUME NEW f \in File, NEW s, ~Declares(f, s), program \in Programs,
         \A item \in ToSet(program[f].items) : Importer(item) => item.sym # s
  PROVE  Sources(f, s) = {}
<1> DEFINE froms(x) == {i.of[1] : i \in {i \in ToSet(program[x].items) : i.op = "from" /\ i.sym = s}}
           S == {f} \cup GenericFiles
<1>1. froms(f) \subseteq GenericFiles
  <2> SUFFICES ASSUME NEW item \in ToSet(program[f].items), item.op = "from", item.sym = s
               PROVE  item.of[1] \in GenericFiles
    OBVIOUS
  <2>1. isGeneric(item.of) /\ item \in Items
    BY FileText DEF Importer
  <2> QED
    BY <2>1, ItemOf
<1>2. S \in SUBSET File /\ f \in S /\ \A x \in S : ~program[x].generic => froms(x) \subseteq S
  BY <1>1 DEF GenericFiles
<1> SUFFICES ASSUME NEW h \in Sources(f, s)
             PROVE  FALSE
  OBVIOUS
<1>3. /\ h \in File /\ ~program[h].generic /\ Declares(h, s)
      /\ \A T \in SUBSET File :
           f \in T /\ (\A x \in T : ~program[x].generic => froms(x) \subseteq T) => h \in T
  BY DEF Sources
<1> HIDE DEF froms, S
<1>4. h \in S
  BY <1>2, <1>3
<1> QED
  BY <1>3, <1>4 DEF S, GenericFiles

LEMMA PlainName ==
  ASSUME IInv, NEW k \in File, Name(k) \in DOMAIN modulesMap
  PROVE  k \notin GenericFiles /\ Name(k)[1] = k
BY FileName DEF IInv, Named

\* What a plain module offers as s is a source of s for its file.
LEMMA OfferedIsSource ==
  ASSUME IInv, Offers, NEW k \in File, Name(k) \in DOMAIN modulesMap,
         NEW s \in DOMAIN Exported(Name(k))
  PROVE  Exported(Name(k))[s][1] \in Sources(k, s)
<1>1. PICK n : n = Name(k)
  OBVIOUS
<1>2. PICK t : t = modulesMap[n]
  OBVIOUS
<1>3. k \notin GenericFiles /\ n[1] = k /\ Sourced(n) /\ n \in DOMAIN modulesMap
  BY <1>1, PlainName DEF Offers
<1>4. /\ s \in t.functions \cup DOMAIN t.imported
      /\ Exported(n)[s] = IF s \in DOMAIN t.imported THEN t.imported[s] ELSE n
  BY <1>1, <1>2 DEF Exported
<1>5. CASE s \in DOMAIN t.imported
  <2>1. PICK item \in ToSet(program[k].items) :
          Importer(item) /\ item.sym = s /\ t.imported[s][1] \in Sources(item.of[1], s)
    BY <1>2, <1>3, <1>5 DEF Sourced
  <2>2. Sources(item.of[1], s) \subseteq Sources(k, s)
    BY <1>3, <2>1, SourceThere DEF Importer
  <2> QED
    BY <1>1, <1>4, <1>5, <2>1, <2>2
<1>6. CASE s \notin DOMAIN t.imported
  <2>1. Declares(k, s) /\ Exported(n)[s] = n
    BY <1>2, <1>3, <1>4, <1>6 DEF Sourced
  <2> QED
    BY <1>1, <1>3, <2>1, SourceHere
<1> QED
  BY <1>5, <1>6

\* What a plain module that is through does not offer has no source.
LEMMA NotOfferedIsNowhere ==
  ASSUME IInv, Through, NEW k \in File, Name(k) \in finished, NEW s, s \notin DOMAIN Exported(Name(k))
  PROVE  Sources(k, s) = {}
<1>1. PICK n : n = Name(k)
  OBVIOUS
<1>2. n[1] = k /\ n \in DOMAIN modulesMap /\ program \in Programs
  BY <1>1, FileName DEF IInv, Types
<1>3. s \notin modulesMap[n].functions /\ s \notin DOMAIN modulesMap[n].imported
  BY <1>1 DEF Exported
<1>4. \A item \in ToSet(program[k].items) : Done(n, item)
  BY <1>1, <1>2 DEF Through
<1>5. \A item \in ToSet(program[k].items) : Importer(item) => item.sym # s
  BY <1>3, <1>4 DEF Done, Importer
<1>6. ~Declares(k, s)
  <2> SUFFICES ASSUME Declares(k, s)
               PROVE  FALSE
    OBVIOUS
  <2>1. program[k].items \in Seq(Items)
    BY <1>2, FileText
  <2>2. PICK item \in ToSet(program[k].items) : item.op = "fn" /\ item.sym = s
    BY <2>1 DEF Declares, ToSet
  <2> QED
    BY <1>3, <1>4, <2>2 DEF Done
<1> QED
  BY <1>2, <1>5, <1>6, SourceNowhere
-----------------------------------------------------------------------------
(* Steps that leave a module's tables alone, or add to them.                *)

Grows ==
  /\ program' = program /\ genericsMap \subseteq genericsMap'
  /\ DOMAIN modulesMap \subseteq DOMAIN modulesMap'

LEMMA StaysDone ==
  ASSUME Grows, NEW m, modulesMap'[m] = modulesMap[m], NEW item, Done(m, item)
  PROVE  Done(m, item)'
BY SameText DEF Grows, Done, Instance

LEMMA StaysSourced ==
  ASSUME Grows, NEW m, modulesMap'[m] = modulesMap[m], Sourced(m)
  PROVE  Sourced(m)'
<1>1. \A s \in modulesMap'[m].functions : Declares(m[1], s)'
  BY SameText DEF Grows, Sourced
<1>2. ASSUME NEW s \in DOMAIN modulesMap'[m].imported
      PROVE  \E item \in ToSet(program'[m[1]].items) :
               Importer(item)' /\ item.sym = s /\ modulesMap'[m].imported[s][1] \in Sources(item.of[1], s)'
  BY SameText DEF Grows, Sourced
<1>3. modulesMap'[m].uses \subseteq DOMAIN modulesMap' \cup {Name(g) : g \in genericsMap'}
  BY DEF Grows, Sourced
<1> QED
  BY <1>1, <1>2, <1>3 DEF Sourced

LEMMA StaysAccounted ==
  ASSUME Grows, NEW fr, modulesMap'[fr.name] = modulesMap[fr.name], Accounted(fr)
  PROVE  Accounted(fr)'
<1>1. Past(fr)' = Past(fr) /\ program' = program
  BY SameText DEF Grows
<1>2. \A item \in Past(fr) : /\ Done(fr.name, item)'
                             /\ (Loader(item) /\ isGeneric(item.of))' => item.of[1] \in fr.generics
  BY <1>1, SameText, StaysDone DEF Accounted, Loader
<1>3. \A s \in DOMAIN modulesMap'[fr.name].imported :
        \E item \in Past(fr) : Importer(item)' /\ item.sym = s
  BY <1>1, SameText DEF Accounted
<1> QED
  BY <1>1, <1>2, <1>3 DEF Accounted, Loader

\* A module that was registered just now.
LEMMA NewSourced ==
  ASSUME NEW n, modulesMap'[n] = EmptyModule
  PROVE  Sourced(n)'
BY DEF Sourced, EmptyModule

LEMMA NewAccounted ==
  ASSUME NEW n, modulesMap'[n] = EmptyModule, NEW arg, arg # NoType => arg.str = Tail(n)
  PROVE  Accounted(Frame(n, n[1], arg))'
<1>1. PICK fr : fr = Frame(n, n[1], arg)
  OBVIOUS
<1>2. fr.name = n /\ fr.file = n[1] /\ fr.arg = arg /\ fr.next = 1
  BY <1>1 DEF Frame
<1>3. Past(fr)' = {}
  BY <1>2 DEF Past
<1>4. Accounted(fr)'
  BY <1>2, <1>3 DEF Accounted, EmptyModule
<1> QED
  BY <1>1, <1>4

\* The innermost module has dealt with what it was at.
LEMMA MovesOn ==
  ASSUME Grows, Top \in FrameType, Accounted(Top),
         NEW fr, Continues(fr), fr.next = Top.next, Top.generics \subseteq fr.generics,
         NEW me, me = Top.name, NEW item, item = Item, NEW t, modulesMap'[me] = t,
         Me.aliases \subseteq t.aliases, Me.functions \subseteq t.functions,
         DOMAIN Me.imported \subseteq DOMAIN t.imported,
         \A k \in t.uses : k \in Me.uses \/ (Loader(item) /\ item.of = k),
         \A s \in DOMAIN t.imported : s \in DOMAIN Me.imported \/ (Importer(item) /\ item.sym = s),
         \A s \in t.functions : s \in Me.functions \/ (item.op = "fn" /\ item.sym = s),
         Done(me, item)', Loader(item) /\ isGeneric(item.of) => item.of[1] \in fr.generics,
         NEW next, next = [fr EXCEPT !.next = @ + 1]
  PROVE  Accounted(next)'
<1>1. /\ fr \in FrameType /\ fr.name = me /\ fr.file = Top.file /\ fr.arg = Top.arg
      /\ next.name = me /\ next.file = fr.file /\ next.arg = fr.arg /\ next.generics = fr.generics
  BY DEF Continues, FrameType
<1>2. Past(fr) = Past(Top) /\ Agenda(fr)[fr.next] = item
  <2>1. Agenda(fr) = Agenda(Top)
    BY <1>1 DEF Agenda
  <2>2. Past(fr) = Past(Top)
    BY <2>1 DEF Past
  <2>3. Agenda(fr)[fr.next] = item
    BY <2>1 DEF Item
  <2> QED
    BY <2>2, <2>3
<1>3. Past(next)' = Past(Top) \cup {item}
  BY <1>1, <1>2, PastGrows, SameText DEF Grows
<1>4. ASSUME NEW i \in Past(Top)
      PROVE  Done(me, i)'
  <2>1. Done(me, i)
    BY DEF Accounted
  <2> QED
    BY <2>1, SameText DEF Grows, Done, Instance, Me
<1>5. \A i \in Past(Top) : Loader(i) /\ isGeneric(i.of) => i.of[1] \in fr.generics
  BY DEF Accounted
<1>6. \A i \in Past(Top) \cup {item} :
        Done(me, i)' /\ ((Loader(i) /\ isGeneric(i.of))' => i.of[1] \in fr.generics)
  BY <1>4, <1>5, SameText DEF Grows, Loader
<1>7. \A k \in t.uses : \E i \in Past(Top) \cup {item} : Loader(i) /\ i.of = k
  BY DEF Accounted, Me
<1>8. \A s \in DOMAIN t.imported : \E i \in Past(Top) \cup {item} : Importer(i)' /\ i.sym = s
  BY SameText DEF Accounted, Me, Grows
<1>9. \A s \in t.functions : \E i \in Past(Top) \cup {item} : i.op = "fn" /\ i.sym = s
  BY DEF Accounted, Me
<1>10. next.file = next.name[1] /\ (next.arg # NoType => next.arg.str = Tail(next.name))
  BY <1>1 DEF Accounted
<1> QED
  BY <1>1, <1>3, <1>6, <1>7, <1>8, <1>9, <1>10 DEF Accounted, Loader

LEMMA OthersStay ==
  ASSUME IInv, Accounts, Offers, Through, phase = "load", Grows, finished' = finished,
         \A m \in DOMAIN modulesMap : m # Top.name => modulesMap'[m] = modulesMap[m]
  PROVE  /\ \A m \in DOMAIN modulesMap : m # Top.name => Sourced(m)'
         /\ \A n \in finished : \A item \in ToSet(program'[n[1]].items) : Done(n, item)'
<1>1. Len(frames) \in Nat \ {0} /\ Top = frames[Len(frames)]
  BY Loading, TopFrame
<1>2. Top.name \notin finished /\ finished \subseteq DOMAIN modulesMap
  BY <1>1 DEF IInv, Types, Framed
<1>3. \A m \in DOMAIN modulesMap : m # Top.name => Sourced(m)'
  BY StaysSourced DEF Offers
<1>4. ASSUME NEW n \in finished, NEW item \in ToSet(program[n[1]].items)
      PROVE  Done(n, item)'
  BY <1>2, StaysDone DEF Through
<1> QED
  BY <1>3, <1>4 DEF Grows

LEMMA TellingOn ==
  ASSUME IInv, Accounts, Offers, Through, phase = "load", Grows, finished' = finished,
         NEW fr, Continues(fr), frames' = GoesOn(fr), phase' = phase,
         DOMAIN modulesMap' = DOMAIN modulesMap,
         NEW me, me = Top.name, NEW next, next = [fr EXCEPT !.next = @ + 1],
         \A m \in DOMAIN modulesMap : m # me => modulesMap'[m] = modulesMap[m],
         Accounted(next)', Sourced(me)'
  PROVE  Accounts' /\ Offers' /\ Through'
<1>1. /\ Frameful /\ Len(frames) \in Nat \ {0} /\ Top = frames[Len(frames)] /\ Top.name \in DOMAIN modulesMap
  BY Loading, TopFrame
<1>2. /\ Len(frames') = Len(frames)
      /\ \A i \in 1..Len(frames) : frames'[i] = IF i = Len(frames) THEN next ELSE frames[i]
  BY <1>1, GoesOnFrames
<1>3. next.name = me
  BY DEF Continues, FrameType
<1>4. ASSUME NEW i \in 1..Len(frames), NEW other, other = frames[i], i # Len(frames)
      PROVE  Accounted(other)'
  <2>1. Accounted(other) /\ other.name \in DOMAIN modulesMap /\ other.name # me
    BY <1>1, <1>4 DEF IInv, Framed, Accounts
  <2> QED
    BY <2>1, StaysAccounted
<1>5. ASSUME NEW i \in 1..Len(frames)
      PROVE  \E other : other = frames'[i] /\ Accounted(other)'
  <2>1. CASE i = Len(frames)
    BY <1>2, <2>1
  <2>2. CASE i # Len(frames)
    BY <1>2, <1>4, <2>2
  <2> QED
    BY <2>1, <2>2
<1>6. Accounts'
  BY <1>2, <1>5 DEF Accounts
<1>7. Offers'
  BY OthersStay DEF Offers
<1>8. {frames'[i].name : i \in 1..Len(frames')} = {frames[i].name : i \in 1..Len(frames)}
  <2>1. \A i \in 1..Len(frames) : frames'[i].name = frames[i].name
    BY <1>1, <1>2, <1>3
  <2>2. 1..Len(frames') = 1..Len(frames)
    BY <1>2
  <2> QED
    BY <2>1, <2>2
<1>9. Through'
  BY <1>8, OthersStay DEF Through, Grows
<1> QED
  BY <1>6, <1>7, <1>9

LEMMA TellingIn ==
  ASSUME IInv, Accounts, Offers, Through, phase = "load", Grows, finished' = finished,
         NEW fr, Continues(fr), NEW n \in Seq(STRING), NEW inner \in FrameType, inner.name = n,
         frames' = Waits(fr, inner), phase' = phase,
         n \notin DOMAIN modulesMap, DOMAIN modulesMap' = DOMAIN modulesMap \cup {n},
         NEW me, me = Top.name,
         \A m \in DOMAIN modulesMap : m # me => modulesMap'[m] = modulesMap[m],
         Accounted(fr)', Sourced(me)', Accounted(inner)', Sourced(n)'
  PROVE  Accounts' /\ Offers' /\ Through'
<1>1. /\ Frameful /\ Len(frames) \in Nat \ {0} /\ Top = frames[Len(frames)] /\ Top.name \in DOMAIN modulesMap
  BY Loading, TopFrame
<1>2. /\ Len(frames') = Len(frames) + 1
      /\ \A i \in 1..(Len(frames) + 1) :
           frames'[i] = IF i < Len(frames) THEN frames[i] ELSE IF i = Len(frames) THEN fr ELSE inner
  BY <1>1, WaitsFrames
<1>3. fr.name = me
  BY DEF Continues
<1>4. ASSUME NEW i \in 1..Len(frames), NEW other, other = frames[i], i # Len(frames)
      PROVE  Accounted(other)'
  <2>1. Accounted(other) /\ other.name \in DOMAIN modulesMap /\ other.name # me
    BY <1>1, <1>4 DEF IInv, Framed, Accounts
  <2> QED
    BY <2>1, StaysAccounted
<1>5. ASSUME NEW i \in 1..(Len(frames) + 1)
      PROVE  \E other : other = frames'[i] /\ Accounted(other)'
  <2>1. CASE i = Len(frames)
    BY <1>1, <1>2, <2>1
  <2>2. CASE i < Len(frames)
    <3>1. i \in 1..Len(frames) /\ frames'[i] = frames[i]
      BY <1>1, <1>2, <2>2
    <3> QED
      BY <1>4, <2>2, <3>1
  <2>3. CASE i = Len(frames) + 1
    BY <1>1, <1>2, <2>3
  <2> QED
    BY <1>1, <2>1, <2>2, <2>3
<1>6. Accounts'
  BY <1>2, <1>5 DEF Accounts
<1>7. Offers'
  BY OthersStay DEF Offers
<1>8. {frames'[i].name : i \in 1..Len(frames')} = {frames[i].name : i \in 1..Len(frames)} \cup {n}
  <2>1. \A i \in 1..Len(frames) : i \in 1..(Len(frames) + 1) /\ frames'[i].name = frames[i].name
    BY <1>1, <1>2, <1>3
  <2>2. \A i \in {Len(frames) + 1} : frames'[i].name = n
    BY <1>1, <1>2
  <2>3. 1..Len(frames') = 1..Len(frames) \cup {Len(frames) + 1}
    BY <1>1, <1>2
  <2>4. {frames'[i].name : i \in 1..Len(frames')} =
          {frames'[i].name : i \in 1..Len(frames)} \cup {frames'[i].name : i \in {Len(frames) + 1}}
    BY <2>3
  <2>5. {frames'[i].name : i \in 1..Len(frames)} = {frames[i].name : i \in 1..Len(frames)}
    BY <2>1
  <2> QED
    BY <2>2, <2>4, <2>5
<1>9. Through'
  BY <1>8, OthersStay DEF Through, Grows
<1> QED
  BY <1>6, <1>7, <1>9

-----------------------------------------------------------------------------
(* One lemma for each action.                                               *)

\* Where a step with a frame begins.
LEMMA Beginning ==
  ASSUME IInv, Telling, phase = "load"
  PROVE  /\ Top \in FrameType /\ Continues(Top) /\ Top.name \in DOMAIN modulesMap /\ program \in Programs
         /\ IsTables(Me) /\ Accounted(Top) /\ Sourced(Top.name)
         /\ Top.file = Top.name[1] /\ Top.file \in File /\ Top.name \notin finished
<1>1. Frameful /\ Top \in FrameType /\ Continues(Top) /\ Top.name \in DOMAIN modulesMap /\ IsTables(Me)
  BY Loading
<1>2. Len(frames) \in 1..Len(frames) /\ Top = frames[Len(frames)]
  BY <1>1, TopFrame
<1>3. Accounted(Top) /\ Sourced(Top.name)
  BY <1>1, <1>2 DEF Telling, Accounts, Offers
<1>4. Top.file = Top.name[1] /\ Top.file \in File
  BY <1>1, <1>3 DEF Accounted, FrameType
<1>5. Top.name \notin finished /\ program \in Programs
  BY <1>2 DEF IInv, Framed, Types
<1> QED
  BY <1>1, <1>3, <1>4, <1>5

LEMMA Retabling ==
  ASSUME NEW me \in DOMAIN modulesMap, NEW t, modulesMap' = With(modulesMap, me, t)
  PROVE  /\ DOMAIN modulesMap' = DOMAIN modulesMap /\ modulesMap'[me] = t
         /\ \A m \in DOMAIN modulesMap : m # me => modulesMap'[m] = modulesMap[m]
BY DEF With

LEMMA Registering ==
  ASSUME NEW n, n \notin DOMAIN modulesMap, modulesMap' = With(modulesMap, n, EmptyModule)
  PROVE  /\ DOMAIN modulesMap' = DOMAIN modulesMap \cup {n} /\ modulesMap'[n] = EmptyModule
         /\ \A m \in DOMAIN modulesMap : modulesMap'[m] = modulesMap[m]
BY DEF With

LEMMA RetabledAndRegistering ==
  ASSUME NEW me \in DOMAIN modulesMap, NEW t, NEW n, n \notin DOMAIN modulesMap,
         modulesMap' = With(With(modulesMap, me, t), n, EmptyModule)
  PROVE  /\ DOMAIN modulesMap' = DOMAIN modulesMap \cup {n} /\ modulesMap'[n] = EmptyModule
         /\ modulesMap'[me] = t
         /\ \A m \in DOMAIN modulesMap : m # me => modulesMap'[m] = modulesMap[m]
BY DEF With

LEMMA Resourced ==
  ASSUME Grows, NEW m, Sourced(m), NEW t, modulesMap'[m] = t,
         \A s \in t.functions : s \in modulesMap[m].functions \/ Declares(m[1], s),
         \A s \in DOMAIN t.imported :
           \/ s \in DOMAIN modulesMap[m].imported /\ t.imported[s] = modulesMap[m].imported[s]
           \/ \E item \in ToSet(program[m[1]].items) :
                Importer(item) /\ item.sym = s /\ t.imported[s][1] \in Sources(item.of[1], s),
         \A k \in t.uses : \/ k \in modulesMap[m].uses \/ k \in DOMAIN modulesMap'
                           \/ \E g \in genericsMap' : k = Name(g)
  PROVE  Sourced(m)'
<1>1. \A s \in t.functions : Declares(m[1], s)'
  BY SameText DEF Grows, Sourced
<1>2. ASSUME NEW s \in DOMAIN t.imported
      PROVE  \E item \in ToSet(program'[m[1]].items) :
               Importer(item)' /\ item.sym = s /\ t.imported[s][1] \in Sources(item.of[1], s)'
  <2>1. PICK item \in ToSet(program[m[1]].items) :
          Importer(item) /\ item.sym = s /\ t.imported[s][1] \in Sources(item.of[1], s)
    BY DEF Sourced
  <2> QED
    BY <2>1, SameText DEF Grows
<1>3. t.uses \subseteq DOMAIN modulesMap' \cup {Name(g) : g \in genericsMap'}
  BY DEF Grows, Sourced
<1> QED
  BY <1>1, <1>2, <1>3 DEF Sourced

Stands ==
  /\ UNCHANGED <<program, modulesMap, genericsMap, frames, finished>>
  /\ phase' \in {phase, "error"}

LEMMA Standing ==
  ASSUME Telling, Stands
  PROVE  Telling'
<1> USE DEF Stands
<1>1. Grows
  BY DEF Grows
<1>2. Accounts'
  <2>1. ASSUME NEW i \in 1..Len(frames), NEW fr, fr = frames[i]
        PROVE  Accounted(fr)'
    BY <1>1, <2>1, StaysAccounted DEF Telling, Accounts
  <2> QED
    BY <2>1 DEF Accounts
<1>3. Offers'
  BY <1>1, StaysSourced DEF Telling, Offers
<1>4. Through'
  <2>1. \A n \in finished : \A item \in ToSet(program[n[1]].items) : Done(n, item)'
    BY <1>1, StaysDone DEF Telling, Through
  <2> QED
    BY <2>1 DEF Telling, Through
<1> QED
  BY <1>2, <1>3, <1>4 DEF Telling

LEMMA Unmoved ==
  ASSUME Telling, compileError
  PROVE  Telling'
BY Standing DEF Stands, compileError

LEMMA TextItem ==
  ASSUME IInv, phase = "load", Top.next <= Len(Agenda(Top)), Item.op # "use"
  PROVE  /\ Item \in ToSet(program[Top.file].items) /\ Item \in Items
         /\ Item.op = "make" => /\ Item.ty = "param" => Top.file \in GenericFiles
                                /\ Item.ty \in File => Item.ty \notin GenericFiles
<1>1. Top \in FrameType /\ program \in Programs
  BY Loading DEF IInv, Types
<1>2. Top.next \in 1..Len(Agenda(Top)) /\ Top.file \in File
  BY <1>1, AgendaItems DEF FrameType
<1>3. PICK item : item = Item
  OBVIOUS
<1>4. item \in ToSet(program[Top.file].items) \/ item = [op |-> "use", of |-> Top.arg.mod]
  BY <1>1, <1>2, <1>3, AgendaItems DEF Item
<1>5. item \in ToSet(program[Top.file].items)
  BY <1>3, <1>4
<1>6. /\ item \in Items
      /\ item.op = "make" => /\ item.ty = "param" => Top.file \in GenericFiles
                             /\ item.ty \in File => item.ty \notin GenericFiles
  BY <1>1, <1>2, <1>5, FileText
<1> QED
  BY <1>3, <1>5, <1>6

\* What the innermost module uses, its past has a declaration for.
LEMMA UsedBefore ==
  ASSUME Accounted(Top), NEW k \in Me.uses
  PROVE  Loads(k) # {}
BY DEF Accounted, Me, Loads, Loader, Before, Past

LEMMA TellingUse ==
  ASSUME IInv, Telling, createUse
  PROVE  Telling' /\ (phase' = "error" => compileError /\ Cause)
<1>1. At("use") /\ phase = "load" /\ Item.op = "use"
  BY DEF createUse, At
<1>2. PICK me, item, n : me = Top.name /\ item = Item /\ n = Item.of
  OBVIOUS
<1>3. PICK t : t = [Me EXCEPT !.uses = @ \cup {n}, !.aliases = @ \cup {n}]
  OBVIOUS
<1>4. /\ Top \in FrameType /\ Continues(Top) /\ me \in DOMAIN modulesMap /\ program \in Programs
      /\ IsTables(Me) /\ Accounted(Top) /\ Sourced(me) /\ Me = modulesMap[me]
  BY <1>1, <1>2, Beginning DEF Me
<1>5. /\ t.uses = Me.uses \cup {n} /\ t.aliases = Me.aliases \cup {n}
      /\ t.functions = Me.functions /\ t.imported = Me.imported
  BY <1>3, <1>4 DEF IsTables
<1>6. item.op = "use" /\ item.of = n /\ Loader(item)
  BY <1>1, <1>2 DEF Loader
<1>7. /\ moduleExists(n) => ~isGeneric(n)
      /\ ~moduleExists(n) => \E f \in File : n = Name(f)
  BY <1>1, <1>2, UsedName
<1>8. CASE n \in Me.uses /\ compileError
  <2>1. Loads(n) # {}
    BY <1>4, <1>8, UsedBefore
  <2>2. Cause
    BY <1>1, <1>2, <2>1 DEF Cause
  <2> QED
    BY <1>8, <2>2, Unmoved
\* The innermost module goes on, or has gone on when it waits.
<1>9. ASSUME Grows, modulesMap'[me] = t, n \in DOMAIN modulesMap' \/ \E g \in genericsMap' : n = Name(g),
             NEW fr, Continues(fr), fr.next = Top.next, Top.generics \subseteq fr.generics,
             isGeneric(n) => n[1] \in fr.generics,
             NEW next, next = [fr EXCEPT !.next = @ + 1]
      PROVE  Accounted(next)' /\ Sourced(me)'
  <2>1. Done(me, item)'
    BY <1>5, <1>6, <1>9 DEF Done
  <2>2. Accounted(next)'
    BY <1>2, <1>4, <1>5, <1>6, <1>9, <2>1, MovesOn
  <2>3. Sourced(me)'
    BY <1>4, <1>5, <1>9, Resourced
  <2> QED
    BY <2>2, <2>3
<1>10. CASE /\ moduleExists(n) /\ modulesMap' = With(modulesMap, me, t)
            /\ frames' = GoesOn(Top)
            /\ UNCHANGED <<genericsMap, fileStack, reads, program, phase, finished>>
  <2>1. /\ DOMAIN modulesMap' = DOMAIN modulesMap /\ modulesMap'[me] = t
        /\ \A m \in DOMAIN modulesMap : m # me => modulesMap'[m] = modulesMap[m]
    BY <1>4, <1>10, Retabling
  <2>2. Grows
    BY <1>10, <2>1 DEF Grows
  <2>3. PICK fr, next : fr = Top /\ next = [fr EXCEPT !.next = @ + 1]
    OBVIOUS
  <2>4. Accounted(next)' /\ Sourced(me)'
    BY <1>4, <1>7, <1>9, <1>10, <2>1, <2>2, <2>3 DEF moduleExists
  <2> QED
    BY <1>1, <1>2, <1>4, <1>10, <2>1, <2>2, <2>3, <2>4, TellingOn DEF Telling
<1>11. CASE /\ isGeneric(n) /\ modulesMap' = With(modulesMap, me, t) /\ index(n[1])
            /\ UNCHANGED <<program, phase, finished>>
  <2>1. PICK f \in File : n = Name(f) /\ n[1] = f
    BY <1>7, <1>11, FileName
  <2>2. /\ DOMAIN modulesMap' = DOMAIN modulesMap /\ modulesMap'[me] = t
        /\ \A m \in DOMAIN modulesMap : m # me => modulesMap'[m] = modulesMap[m]
    BY <1>4, <1>11, Retabling
  <2>3. Grows /\ f \in genericsMap' /\ frames' = GoesOn([Top EXCEPT !.generics = @ \cup {f}])
    BY <1>11, <2>1, <2>2 DEF Grows, index
  <2>4. PICK fr : fr = [Top EXCEPT !.generics = @ \cup {f}]
    OBVIOUS
  <2>5. PICK next : next = [fr EXCEPT !.next = @ + 1]
    OBVIOUS
  <2>6. f \in GenericFiles
    BY <1>11, <2>1 DEF isGeneric, GenericFiles
  <2>7. Continues(fr) /\ fr.next = Top.next /\ Top.generics \subseteq fr.generics /\ f \in fr.generics
    BY <1>4, <2>4, <2>6 DEF Continues, FrameType
  <2>8. Accounted(next)' /\ Sourced(me)'
    BY <1>9, <2>1, <2>2, <2>3, <2>5, <2>7
  <2> QED
    BY <1>1, <1>2, <1>11, <2>2, <2>3, <2>4, <2>5, <2>7, <2>8, TellingOn DEF Telling
<1>12. CASE /\ ~moduleExists(n) /\ ~isGeneric(n)
            /\ generate(n[1], [Top EXCEPT !.next = @ + 1], With(modulesMap, me, t))
            /\ UNCHANGED <<program, phase, finished>>
  <2>1. PICK f \in File : n = Name(f) /\ n[1] = f
    BY <1>7, <1>12, FileName
  <2>2. PICK caller, inner : caller = [Top EXCEPT !.next = @ + 1] /\ inner = Frame(n, f, NoType)
    OBVIOUS
  <2>3. /\ modulesMap' = With(With(modulesMap, me, t), n, EmptyModule)
        /\ frames' = Waits(caller, inner) /\ genericsMap' = genericsMap
    BY <1>12, <2>1, <2>2 DEF generate
  <2>4. /\ DOMAIN modulesMap' = DOMAIN modulesMap \cup {n} /\ modulesMap'[n] = EmptyModule
        /\ modulesMap'[me] = t /\ \A m \in DOMAIN modulesMap : m # me => modulesMap'[m] = modulesMap[m]
    BY <1>4, <1>12, <2>3, RetabledAndRegistering DEF moduleExists
  <2>5. Grows
    BY <1>12, <2>3, <2>4 DEF Grows
  <2>6. PICK fr : fr = Top
    OBVIOUS
  <2>7. Accounted(caller)' /\ Sourced(me)'
    BY <1>4, <1>9, <1>12, <2>2, <2>4, <2>5, <2>6
  <2>8. Continues(caller)
    BY <1>4, <2>2 DEF Continues, FrameType
  <2>9. n \in Seq(STRING)
    BY <2>1, FileName
  <2>10. NoType \in Arguments
    BY DEF NoType, Type, Arguments
  <2>11. inner \in FrameType /\ inner.name = n
    BY <2>1, <2>2, <2>9, <2>10 DEF Frame, FrameType
  <2>12. Accounted(inner)' /\ Sourced(n)'
    BY <2>1, <2>2, <2>4, NewAccounted, NewSourced
  <2> QED
    BY <1>1, <1>2, <1>12, <2>3, <2>4, <2>5, <2>7, <2>8, <2>9, <2>11, <2>12, TellingIn DEF Telling, moduleExists
<1> QED
  BY <1>1, <1>2, <1>3, <1>8, <1>10, <1>11, <1>12 DEF createUse

LEMMA ImportedBefore ==
  ASSUME Accounted(Top), NEW s \in DOMAIN Me.imported
  PROVE  Imported(s) # {}
BY DEF Accounted, Me, Imported, Importer, Before, Past

LEMMA DefinedBefore ==
  ASSUME Accounted(Top), NEW s \in Me.functions
  PROVE  Defined(s) # {}
BY DEF Accounted, Me, Defined, Before, Past

\* A module that is there and is not active is through.
LEMMA ActiveOrThrough ==
  ASSUME Telling, NEW n \in DOMAIN modulesMap
  PROVE  Active(n) \/ n \in finished
BY DEF Telling, Through, Active

LEMMA TellingFrom ==
  ASSUME IInv, Telling, createDirectFrom
  PROVE  Telling' /\ (phase' = "error" => compileError /\ Cause)
<1>1. At("from") /\ phase = "load" /\ Item.op = "from" /\ Top.next <= Len(Agenda(Top))
  BY DEF createDirectFrom, At
<1>2. PICK me, item, n, s : me = Top.name /\ item = Item /\ n = Item.of /\ s = Item.sym
  OBVIOUS
<1>3. /\ Top \in FrameType /\ Continues(Top) /\ me \in DOMAIN modulesMap /\ program \in Programs
      /\ IsTables(Me) /\ Accounted(Top) /\ Sourced(me) /\ Me = modulesMap[me]
      /\ Top.file = me[1]
  BY <1>1, <1>2, Beginning DEF Me
<1>4. /\ item.op = "from" /\ item.of = n /\ item.sym = s
      /\ item \in ToSet(program[me[1]].items) /\ item \in Items
  BY <1>1, <1>2, <1>3, TextItem
<1>5. PICK f \in File : n = Name(f) /\ n[1] = f
  BY <1>4, ItemOf
<1>6. isGeneric(n) => n \notin DOMAIN modulesMap
  BY <1>5, PlainName, FileName DEF GenericFiles
<1>7. CASE isGeneric(n) /\ ~Declares(n[1], s) /\ compileError
  BY <1>1, <1>2, <1>7, Unmoved DEF Cause
<1>8. CASE moduleExists(n) /\ (s \in DOMAIN Me.imported \/ s \notin DOMAIN Exported(n)) /\ compileError
  <2>1. n \in DOMAIN modulesMap /\ ~isGeneric(n)
    BY <1>6, <1>8 DEF moduleExists
  <2>2. ASSUME s \notin DOMAIN Exported(n), n \in finished
        PROVE  Sources(f, s) = {}
    BY <1>5, <2>2, NotOfferedIsNowhere DEF Telling
  <2>3. \/ Imported(s) # {} \/ Active(n) \/ Sources(f, s) = {}
    BY <1>3, <1>8, <2>1, <2>2, ImportedBefore, ActiveOrThrough
  <2>4. Cause
    BY <1>1, <1>2, <1>5, <2>1, <2>3 DEF Cause
  <2> QED
    BY <1>8, <2>4, Unmoved
<1>9. CASE /\ isGeneric(n) /\ Declares(n[1], s) /\ index(n[1])
           /\ UNCHANGED <<program, phase, modulesMap, finished>>
  <2>1. Grows /\ frames' = GoesOn([Top EXCEPT !.generics = @ \cup {f}])
    BY <1>5, <1>9 DEF Grows, index
  <2>2. PICK fr : fr = [Top EXCEPT !.generics = @ \cup {f}]
    OBVIOUS
  <2>3. PICK next : next = [fr EXCEPT !.next = @ + 1]
    OBVIOUS
  <2>4. f \in GenericFiles
    BY <1>5, <1>9 DEF isGeneric, GenericFiles
  <2>5. Continues(fr) /\ fr.next = Top.next /\ Top.generics \subseteq fr.generics /\ f \in fr.generics
    BY <1>3, <2>2, <2>4 DEF Continues, FrameType
  <2>6. Done(me, item)'
    BY <1>4, <1>9, <2>1, SameText DEF Done, Grows
  <2>7. Accounted(next)'
    BY <1>2, <1>3, <1>4, <1>5, <1>9, <2>1, <2>3, <2>5, <2>6, MovesOn
  <2>8. Sourced(me)'
    BY <1>3, <1>9, <2>1, StaysSourced
  <2> QED
    BY <1>1, <1>2, <1>9, <2>1, <2>2, <2>3, <2>5, <2>7, <2>8, TellingOn DEF Telling
<1>10. CASE /\ ~moduleExists(n) /\ ~isGeneric(n) /\ generate(n[1], Top, modulesMap)
            /\ UNCHANGED <<program, phase, finished>>
  <2>1. PICK fr, inner : fr = Top /\ inner = Frame(n, f, NoType)
    OBVIOUS
  <2>2. /\ modulesMap' = With(modulesMap, n, EmptyModule)
        /\ frames' = Waits(fr, inner) /\ genericsMap' = genericsMap
    BY <1>5, <1>10, <2>1 DEF generate
  <2>3. /\ DOMAIN modulesMap' = DOMAIN modulesMap \cup {n} /\ modulesMap'[n] = EmptyModule
        /\ \A m \in DOMAIN modulesMap : modulesMap'[m] = modulesMap[m]
    BY <1>10, <2>2, Registering DEF moduleExists
  <2>4. Grows
    BY <1>10, <2>2, <2>3 DEF Grows
  <2>5. Accounted(fr)' /\ Sourced(me)'
    BY <1>2, <1>3, <2>1, <2>3, <2>4, StaysAccounted, StaysSourced
  <2>6. n \in Seq(STRING)
    BY <1>5, FileName
  <2>7. NoType \in Arguments
    BY DEF NoType, Type, Arguments
  <2>8. inner \in FrameType /\ inner.name = n
    BY <2>1, <2>6, <2>7 DEF Frame, FrameType
  <2>9. Accounted(inner)' /\ Sourced(n)'
    BY <1>5, <2>1, <2>3, NewAccounted, NewSourced
  <2> QED
    BY <1>1, <1>2, <1>3, <1>10, <2>1, <2>2, <2>3, <2>4, <2>5, <2>6, <2>8, <2>9, TellingIn
       DEF Telling, moduleExists
<1>11. CASE /\ moduleExists(n) /\ s \in DOMAIN Exported(n)
            /\ modulesMap' = With(modulesMap, me,
                 [Me EXCEPT !.uses = @ \cup {n}, !.imported = With(@, s, Exported(n)[s])])
            /\ frames' = GoesOn(Top)
            /\ UNCHANGED <<program, phase, genericsMap, fileStack, reads, finished>>
  <2>1. PICK target : target = Exported(n)[s]
    OBVIOUS
  <2>2. PICK t : t = [Me EXCEPT !.uses = @ \cup {n}, !.imported = With(@, s, target)]
    OBVIOUS
  <2>3. /\ t.uses = Me.uses \cup {n} /\ t.aliases = Me.aliases /\ t.functions = Me.functions
        /\ t.imported = With(Me.imported, s, target)
    BY <1>3, <2>2 DEF IsTables
  <2>4. /\ DOMAIN t.imported = DOMAIN Me.imported \cup {s} /\ t.imported[s] = target
        /\ \A k \in DOMAIN Me.imported : k # s => t.imported[k] = Me.imported[k]
    BY <2>3 DEF With
  <2>5. /\ DOMAIN modulesMap' = DOMAIN modulesMap /\ modulesMap'[me] = t
        /\ \A m \in DOMAIN modulesMap : m # me => modulesMap'[m] = modulesMap[m]
    BY <1>3, <1>11, <2>1, <2>2, Retabling
  <2>6. Grows
    BY <1>11, <2>5 DEF Grows
  <2>7. n \in DOMAIN modulesMap /\ ~isGeneric(n) /\ target[1] \in Sources(f, s) /\ Importer(item)
    BY <1>4, <1>5, <1>6, <1>11, <2>1, OfferedIsSource DEF moduleExists, Telling, Importer
  <2>8. PICK fr, next : fr = Top /\ next = [fr EXCEPT !.next = @ + 1]
    OBVIOUS
  <2>9. Done(me, item)'
    BY <1>4, <2>4, <2>5 DEF Done
  <2>10. \A k \in t.uses : k \in Me.uses \/ (Loader(item) /\ item.of = k)
    BY <1>4, <2>3 DEF Loader
  <2>11. \A k \in DOMAIN t.imported : k \in DOMAIN Me.imported \/ (Importer(item) /\ item.sym = k)
    BY <1>4, <2>4, <2>7
  <2>12. Accounted(next)'
    BY <1>2, <1>3, <1>4, <2>3, <2>4, <2>5, <2>6, <2>7, <2>8, <2>9, <2>10, <2>11, MovesOn
  <2>13. Sourced(me)'
    BY <1>3, <1>4, <1>5, <2>3, <2>4, <2>5, <2>6, <2>7, Resourced
  <2> QED
    BY <1>1, <1>2, <1>3, <1>11, <2>5, <2>6, <2>8, <2>12, <2>13, TellingOn DEF Telling
<1> QED
  BY <1>1, <1>2, <1>7, <1>8, <1>9, <1>10, <1>11 DEF createDirectFrom

LEMMA TellingFunction ==
  ASSUME IInv, Telling, createFunction
  PROVE  Telling' /\ (phase' = "error" => compileError /\ Cause)
<1>1. phase = "load" /\ Item.op = "fn" /\ Top.next <= Len(Agenda(Top))
  BY DEF createFunction, At
<1>2. PICK me, item, s : me = Top.name /\ item = Item /\ s = Item.sym
  OBVIOUS
<1>3. /\ Top \in FrameType /\ Continues(Top) /\ me \in DOMAIN modulesMap /\ program \in Programs
      /\ IsTables(Me) /\ Accounted(Top) /\ Sourced(me) /\ Me = modulesMap[me]
      /\ Top.file = me[1] /\ Top.file \in File
  BY <1>1, <1>2, Beginning DEF Me
<1>4. item.op = "fn" /\ item.sym = s /\ item \in ToSet(program[me[1]].items)
  BY <1>1, <1>2, <1>3, TextItem
<1>5. CASE s \in DOMAIN Exported(me) /\ compileError
  <2>1. s \in Me.functions \/ s \in DOMAIN Me.imported
    BY <1>3, <1>5 DEF Exported
  <2>2. s \in Me.functions => Defined(s) # {}
    BY <1>3, DefinedBefore
  <2>3. Imported(s) \cup Defined(s) # {}
    BY <1>3, <2>1, <2>2, ImportedBefore
  <2>4. Cause
    BY <1>1, <1>2, <2>3 DEF Cause
  <2> QED
    BY <1>5, <2>4, Unmoved
<1>6. CASE /\ modulesMap' = With(modulesMap, me, [Me EXCEPT !.functions = @ \cup {s}])
           /\ frames' = GoesOn(Top)
           /\ UNCHANGED <<program, phase, genericsMap, fileStack, reads, finished>>
  <2>1. PICK t : t = [Me EXCEPT !.functions = @ \cup {s}]
    OBVIOUS
  <2>2. /\ t.uses = Me.uses /\ t.aliases = Me.aliases /\ t.functions = Me.functions \cup {s}
        /\ t.imported = Me.imported
    BY <1>3, <2>1 DEF IsTables
  <2>3. /\ DOMAIN modulesMap' = DOMAIN modulesMap /\ modulesMap'[me] = t
        /\ \A m \in DOMAIN modulesMap : m # me => modulesMap'[m] = modulesMap[m]
    BY <1>3, <1>6, <2>1, Retabling
  <2>4. Grows
    BY <1>6, <2>3 DEF Grows
  <2>5. PICK fr, next : fr = Top /\ next = [fr EXCEPT !.next = @ + 1]
    OBVIOUS
  <2>6. Done(me, item)' /\ ~Loader(item)
    BY <1>4, <2>2, <2>3 DEF Done, Loader
  <2>7. Accounted(next)'
    BY <1>2, <1>3, <1>4, <2>2, <2>3, <2>4, <2>5, <2>6, MovesOn
  <2>8. Declares(me[1], s)
    <3>1. program[me[1]].items \in Seq(Items)
      BY <1>3, FileText
    <3> QED
      BY <1>4, <3>1 DEF Declares, ToSet
  <2>9. Sourced(me)'
    BY <1>3, <2>2, <2>3, <2>4, <2>8, Resourced
  <2> QED
    BY <1>1, <1>2, <1>3, <1>6, <2>3, <2>4, <2>5, <2>7, <2>9, TellingOn DEF Telling
<1> QED
  BY <1>1, <1>2, <1>5, <1>6 DEF createFunction

\* The instance that is made is the one that the text asks for.
LEMMA InstanceOfText ==
  ASSUME IInv, Telling, At("make")
  PROVE  <<Item.of[1]>> \o TypeOf(Item.ty).str = Instance(Top.name, Item)
<1>1. phase = "load" /\ Top.next <= Len(Agenda(Top)) /\ Item.op = "make"
  BY DEF At
<1>2. Accounted(Top) /\ HasArgument(Top)
  BY <1>1, Beginning, Loading
<1>3. PICK ty : ty = Item.ty
  OBVIOUS
<1>4. ty \in File \cup {"int", "own", "param"} /\ (ty = "param" => Top.file \in GenericFiles)
  BY <1>1, <1>3, TextItem DEF Items
<1>5. TypeOf(ty).str = CASE ty = "int"   -> <<"int">>
                         [] ty = "own"   -> Top.name
                         [] ty = "param" -> Tail(Top.name)
                         [] OTHER        -> <<ty>>
  <2>1. CASE ty = "own"
    BY <2>1 DEF TypeOf, Type
  <2>2. CASE ty = "int"
    BY <2>2 DEF TypeOf, Type
  <2>3. CASE ty = "param"
    <3>1. Top.arg # NoType
      BY <1>2, <1>4, <2>3 DEF HasArgument, NoType, Type
    <3> QED
      BY <1>2, <2>3, <3>1 DEF TypeOf, Accounted
  <2>4. CASE ty \in File
    BY <2>4, FilesAreNames DEF TypeOf, Type, Name
  <2> QED
    BY <1>4, <2>1, <2>2, <2>3, <2>4
<1> QED
  BY <1>3, <1>5 DEF Instance

LEMMA TellingMake ==
  ASSUME IInv, Telling, makeInstance
  PROVE  Telling' /\ (phase' = "error" => compileError /\ Cause)
<1>1. At("make") /\ phase = "load" /\ Item.op = "make" /\ Top.next <= Len(Agenda(Top))
  BY DEF makeInstance, At
<1>2. PICK me, item, g, arg, n : /\ me = Top.name /\ item = Item /\ g = Item.of[1]
                                 /\ arg = TypeOf(Item.ty) /\ n = <<g>> \o arg.str
  OBVIOUS
<1>3. /\ Top \in FrameType /\ Continues(Top) /\ me \in DOMAIN modulesMap /\ program \in Programs
      /\ Accounted(Top) /\ Sourced(me) /\ Me = modulesMap[me] /\ Top.generics \subseteq GenericFiles
  BY <1>1, <1>2, Beginning DEF Me, FrameType
<1>4. item.op = "make" /\ item \in Items /\ n = Instance(me, item)
  BY <1>1, <1>2, TextItem, InstanceOfText
<1>5. CASE /\ g \notin Top.generics \/ (Item.ty \in File /\ Name(Item.ty) \notin Me.aliases)
           /\ compileError
  <2>1. ASSUME g \notin Top.generics, isGeneric(Item.of)
        PROVE  Loads(Item.of) = {}
    BY <1>2, <1>3, <2>1 DEF Accounted, Loads, Loader, Before, Past
  <2>2. ASSUME Name(Item.ty) \notin Me.aliases
        PROVE  Aliased(Name(Item.ty)) = {}
    BY <1>2, <1>3, <2>2 DEF Accounted, Done, Aliased, Before, Past
  <2>3. Cause
    BY <1>1, <1>5, <2>1, <2>2 DEF Cause
  <2> QED
    BY <1>5, <2>3, Unmoved
<1>6. CASE /\ moduleExists(n) /\ frames' = GoesOn(Top)
           /\ UNCHANGED <<modulesMap, fileStack, program, phase, genericsMap, reads, finished>>
  <2>1. Grows /\ n \in DOMAIN modulesMap
    BY <1>6 DEF Grows, moduleExists
  <2>2. PICK fr, next : fr = Top /\ next = [fr EXCEPT !.next = @ + 1]
    OBVIOUS
  <2>3. Done(me, item)' /\ ~Loader(item)
    BY <1>4, <1>6, <2>1 DEF Done, Loader, Instance
  <2>4. Accounted(next)'
    BY <1>2, <1>3, <1>4, <1>6, <2>1, <2>2, <2>3, MovesOn
  <2>5. Sourced(me)'
    BY <1>3, <1>6, <2>1, StaysSourced
  <2> QED
    BY <1>1, <1>2, <1>3, <1>6, <2>1, <2>2, <2>4, <2>5, TellingOn DEF Telling
<1>7. CASE /\ g \in Top.generics /\ (Item.ty \in File => Name(Item.ty) \in Me.aliases)
           /\ ~moduleExists(n)
           /\ modulesMap' = With(modulesMap, n, EmptyModule)
           /\ frames' = Waits(Top, Frame(n, g, arg))
           /\ UNCHANGED <<program, phase, genericsMap, reads, finished>>
  <2>1. PICK fr, inner : fr = Top /\ inner = Frame(n, g, arg)
    OBVIOUS
  <2>2. /\ DOMAIN modulesMap' = DOMAIN modulesMap \cup {n} /\ modulesMap'[n] = EmptyModule
        /\ \A m \in DOMAIN modulesMap : modulesMap'[m] = modulesMap[m]
    BY <1>7, Registering DEF moduleExists
  <2>3. Grows
    BY <1>7, <2>2 DEF Grows
  <2>4. Accounted(fr)' /\ Sourced(me)'
    BY <1>2, <1>3, <2>1, <2>2, <2>3, StaysAccounted, StaysSourced
  <2>5. arg \in Arguments /\ g \in File /\ g \in STRING
    BY <1>1, <1>2, <1>3, <1>7, Argument, FilesAreNames DEF GenericFiles
  <2>6. <<g>> \in Seq(STRING) /\ arg.str \in Seq(STRING) /\ Len(<<g>>) = 1 /\ <<g>>[1] = g
    BY <2>5 DEF Arguments
  <2>7. /\ n \in Seq(STRING) /\ Len(n) = 1 + Len(arg.str) /\ Len(arg.str) \in Nat
        /\ \A i \in 1..Len(n) : n[i] = IF i <= 1 THEN <<g>>[i] ELSE arg.str[i - 1]
    BY <1>2, <2>6, ConcatProperties
  <2>8. n[1] = g
    BY <2>6, <2>7
  <2>9. Tail(n) = arg.str
    <3>1. /\ Tail(n) \in Seq(STRING) /\ Len(Tail(n)) = Len(arg.str)
          /\ \A i \in 1..Len(arg.str) : Tail(n)[i] = n[i + 1]
      BY <2>7
    <3>2. \A i \in 1..Len(arg.str) : Tail(n)[i] = arg.str[i]
      <4> SUFFICES ASSUME NEW i \in 1..Len(arg.str)
                   PROVE  Tail(n)[i] = arg.str[i]
        OBVIOUS
      <4>1. i + 1 \in 1..Len(n) /\ i + 1 > 1 /\ (i + 1) - 1 = i
        BY <2>7
      <4> QED
        BY <2>7, <3>1, <4>1
    <3> QED
      BY <2>6, <3>1, <3>2, SeqEqual
  <2>10. inner \in FrameType /\ inner.name = n
    BY <2>1, <2>5, <2>7 DEF Frame, FrameType
  <2>11. Accounted(inner)' /\ Sourced(n)'
    BY <2>1, <2>2, <2>8, <2>9, NewAccounted, NewSourced
  <2> QED
    BY <1>1, <1>2, <1>3, <1>7, <2>1, <2>2, <2>3, <2>4, <2>7, <2>10, <2>11, TellingIn
       DEF Telling, moduleExists
<1> QED
  BY <1>1, <1>2, <1>5, <1>6, <1>7 DEF makeInstance

\* A call of a complete module, and the claim about all calls before it.
LEMMA TellingCall ==
  ASSUME IInv, Telling, functionCall
  PROVE  /\ Telling' /\ (phase' = "error" => compileError /\ Cause)
         /\ CallsTheNamedModule => CallsTheNamedModule'
<1>1. phase = "load" /\ Item.op = "call" /\ Top.next <= Len(Agenda(Top))
  BY DEF functionCall, At
<1>2. PICK me, item, n, s : me = Top.name /\ item = Item /\ n = Item.of /\ s = Item.sym
  OBVIOUS
<1>3. /\ Top \in FrameType /\ Continues(Top) /\ me \in DOMAIN modulesMap /\ program \in Programs
      /\ Accounted(Top) /\ Sourced(me) /\ Me = modulesMap[me]
  BY <1>1, <1>2, Beginning DEF Me
<1>4. item.op = "call" /\ item.of = n /\ item.sym = s /\ item \in Items
  BY <1>1, <1>2, TextItem
<1>5. PICK f \in File : n = Name(f) /\ n[1] = f
  BY <1>4, ItemOf
<1>6. ASSUME n \in Me.aliases, ~isGeneric(n)
      PROVE  n \in DOMAIN modulesMap
  BY <1>1, <1>6, Loading, FileName DEF GenericFiles
<1>7. ASSUME s \notin DOMAIN Exported(n), n \in finished
      PROVE  Sources(f, s) = {}
  BY <1>5, <1>7, NotOfferedIsNowhere DEF Telling
<1>8. ASSUME compileError
      PROVE  Telling' /\ (CallsTheNamedModule => CallsTheNamedModule')
  BY <1>8, Unmoved, SameText DEF compileError, CallsTheNamedModule
<1>9. CASE (n \notin Me.aliases \/ isGeneric(n)) /\ compileError
  <2>1. n \notin Me.aliases => Aliased(n) = {}
    BY <1>2, <1>3 DEF Accounted, Done, Aliased, Before, Past
  <2>2. Cause
    BY <1>1, <1>2, <1>9, <2>1 DEF Cause
  <2> QED
    BY <1>8, <1>9, <2>2
<1>10. CASE n \in Me.aliases /\ ~isGeneric(n) /\ Found(n, s) = {} /\ compileError
  <2>1. s \notin DOMAIN Exported(n)
    BY <1>10 DEF Found
  <2>2. Active(n) \/ Sources(f, s) = {}
    BY <1>6, <1>7, <1>10, <2>1, ActiveOrThrough
  <2>3. Cause
    BY <1>1, <1>2, <1>5, <2>2 DEF Cause
  <2> QED
    BY <1>8, <1>10, <2>3
<1>11. CASE /\ n \in Me.aliases /\ ~isGeneric(n)
            /\ \E got \in Found(n, s) :
                 links' = links \cup {[by |-> me, of |-> n, sym |-> s, got |-> got,
                                       whole |-> n \in finished]}
            /\ frames' = GoesOn(Top)
            /\ UNCHANGED <<program, phase, modulesMap, genericsMap, fileStack, reads, finished>>
  <2>1. Grows
    BY <1>11 DEF Grows
  <2>2. PICK fr, next : fr = Top /\ next = [fr EXCEPT !.next = @ + 1]
    OBVIOUS
  <2>3. Done(me, item)' /\ ~Loader(item)
    BY <1>4 DEF Done, Loader
  <2>4. Accounted(next)'
    BY <1>2, <1>3, <1>4, <1>11, <2>1, <2>2, <2>3, MovesOn
  <2>5. Sourced(me)'
    BY <1>3, <1>11, <2>1, StaysSourced
  <2>6. Telling'
    BY <1>1, <1>2, <1>3, <1>11, <2>1, <2>2, <2>4, <2>5, TellingOn DEF Telling
  <2>7. PICK got \in Found(n, s) :
          links' = links \cup {[by |-> me, of |-> n, sym |-> s, got |-> got, whole |-> n \in finished]}
    BY <1>11
  <2>8. n \in finished /\ Sources(f, s) # {} => got[1] \in Sources(f, s)
    <3> SUFFICES ASSUME n \in finished, Sources(f, s) # {}
                 PROVE  got[1] \in Sources(f, s)
      OBVIOUS
    <3>1. s \in DOMAIN Exported(n)
      BY <1>7
    <3>2. got = Exported(n)[s]
      BY <2>7, <3>1 DEF Found
    <3> QED
      BY <1>5, <1>6, <1>11, <3>1, <3>2, OfferedIsSource DEF Telling
  <2>9. CallsTheNamedModule => CallsTheNamedModule'
    <3> SUFFICES ASSUME CallsTheNamedModule, NEW l \in links', l.whole, Sources(l.of[1], l.sym) # {}
                 PROVE  l.got[1] \in Sources(l.of[1], l.sym)
      BY <1>11, SameText DEF CallsTheNamedModule
    <3>1. CASE l \in links
      BY <3>1 DEF CallsTheNamedModule
    <3>2. CASE l = [by |-> me, of |-> n, sym |-> s, got |-> got, whole |-> n \in finished]
      <4>1. l.of = n /\ l.sym = s /\ l.got = got /\ (l.whole <=> n \in finished)
        BY <3>2
      <4> QED
        BY <1>5, <2>8, <4>1
    <3> QED
      BY <2>7, <3>1, <3>2
  <2> QED
    BY <1>1, <1>11, <2>6, <2>9
<1> QED
  BY <1>2, <1>9, <1>10, <1>11 DEF functionCall

LEMMA TellingReturn ==
  ASSUME IInv, Telling, returnModule
  PROVE  Telling' /\ phase' # "error"
<1>1. phase = "load" /\ Top.next > Len(Agenda(Top))
  BY DEF returnModule
<1>2. PICK me : me = Top.name
  OBVIOUS
<1>3. /\ Top \in FrameType /\ me \in DOMAIN modulesMap /\ program \in Programs
      /\ Accounted(Top) /\ Top.file = me[1]
  BY <1>1, <1>2, Beginning
<1>4. Frameful
  BY <1>1, Loading
<1>5. /\ Len(frames) \in Nat \ {0} /\ Top = frames[Len(frames)]
      /\ Front(frames) \in Seq(FrameType) /\ Len(Front(frames)) = Len(frames) - 1
      /\ \A i \in 1..(Len(frames) - 1) : Front(frames)[i] = frames[i]
  BY <1>4, TopFrame
<1>6. Grows /\ frames' = Front(frames) /\ finished' = finished \cup {me} /\ modulesMap' = modulesMap
  BY <1>2 DEF Grows, returnModule
<1>7. Accounts'
  <2>1. ASSUME NEW i \in 1..(Len(frames) - 1)
        PROVE  \E fr : fr = frames'[i] /\ Accounted(fr)'
    <3>1. i \in 1..Len(frames) /\ frames'[i] = frames[i]
      BY <1>5, <1>6
    <3>2. PICK fr : fr = frames[i]
      OBVIOUS
    <3>3. Accounted(fr)
      BY <3>1, <3>2 DEF Telling, Accounts
    <3> QED
      BY <1>6, <3>1, <3>2, <3>3, StaysAccounted
  <2> QED
    BY <1>5, <1>6, <2>1 DEF Accounts
<1>8. Offers'
  BY <1>6, StaysSourced DEF Telling, Offers
<1>9. \A item \in ToSet(program[me[1]].items) : Done(me, item)'
  <2> SUFFICES ASSUME NEW item \in ToSet(program[me[1]].items)
               PROVE  Done(me, item)'
    OBVIOUS
  <2>1. PICK j \in 1..Len(Agenda(Top)) : Agenda(Top)[j] = item
    BY <1>3, AgendaItems
  <2>2. j \in 1..(Top.next - 1)
    BY <1>1, <1>3, AgendaItems DEF FrameType
  <2>3. Done(me, item)
    BY <1>2, <1>3, <2>1, <2>2 DEF Accounted, Past
  <2> QED
    BY <1>6, <2>3, StaysDone
<1>10. \A n \in finished : \A item \in ToSet(program[n[1]].items) : Done(n, item)'
  BY <1>6, StaysDone DEF Telling, Through
<1>11. DOMAIN modulesMap' = finished' \cup {frames'[i].name : i \in 1..Len(frames')}
  <2>1. DOMAIN modulesMap = finished \cup {frames[i].name : i \in 1..Len(frames)}
    BY DEF Telling, Through
  <2>2. 1..Len(frames) = 1..(Len(frames) - 1) \cup {Len(frames)}
    BY <1>5
  <2>3. {frames[i].name : i \in 1..Len(frames)} = {frames[i].name : i \in 1..(Len(frames) - 1)} \cup {me}
    BY <1>2, <1>5, <2>2
  <2>4. {frames[i].name : i \in 1..(Len(frames) - 1)} = {frames'[i].name : i \in 1..Len(frames')}
    <3>1. 1..Len(frames') = 1..(Len(frames) - 1)
      BY <1>5, <1>6
    <3>2. \A i \in 1..(Len(frames) - 1) : frames'[i] = frames[i]
      BY <1>5, <1>6
    <3> QED
      BY <3>1, <3>2
  <2> QED
    BY <1>6, <2>1, <2>3, <2>4
<1>12. phase' = "done" => frames' = <<>>
  <2>1. CASE Len(frames) = 1
    BY <1>5, <1>6, <2>1, EmptySeq
  <2>2. CASE Len(frames) # 1
    BY <1>1, <2>2 DEF returnModule
  <2> QED
    BY <2>1, <2>2
<1>13. Through'
  BY <1>6, <1>9, <1>10, <1>11, <1>12 DEF Through, Grows
<1>14. phase' # "error"
  BY <1>1 DEF returnModule
<1> QED
  BY <1>7, <1>8, <1>13, <1>14 DEF Telling

-----------------------------------------------------------------------------
LEMMA ToldInitially ==
  ASSUME Init
  PROVE  Telling /\ FailsForCause /\ CallsTheNamedModule
<1>1. PICK n, fr : n = Name(Root) /\ fr = Frame(n, Root, NoType)
  OBVIOUS
<1>2. n[1] = Root
  BY <1>1, FileName, ProgramsAreTyped
<1>3. fr.name = n /\ fr.file = Root /\ fr.arg = NoType /\ fr.next = 1
  BY <1>1 DEF Frame
<1>4. DOMAIN modulesMap = {n} /\ modulesMap[n] = EmptyModule
  BY <1>1 DEF Init
<1>5. frames = <<fr>> /\ Len(frames) = 1 /\ frames[1] = fr
  BY <1>1 DEF Init
<1>6. Past(fr) = {}
  BY <1>3 DEF Past
<1>7. Accounts
  BY <1>2, <1>3, <1>4, <1>5, <1>6 DEF Accounts, Accounted, EmptyModule
<1>8. Offers
  BY <1>4 DEF Offers, Sourced, EmptyModule
<1>9. Through
  BY <1>3, <1>4, <1>5 DEF Through, Init
<1> QED
  BY <1>7, <1>8, <1>9 DEF Telling, FailsForCause, CallsTheNamedModule, Init

\* A cause stays one, in the state in which the program is refused.
LEMMA CauseStays ==
  ASSUME Stands, Cause
  PROVE  Cause'
<1> USE DEF Stands
<1>1. Top' = Top
  BY DEF Top, Last
<1>2. Item' = Item /\ Before' = Before
  BY <1>1, SameText DEF Item, Before
<1>3. /\ \A of : Loads(of)' = Loads(of) /\ Aliased(of)' = Aliased(of) /\ (Active(of)' <=> Active(of))
      /\ \A s : Imported(s)' = Imported(s) /\ Defined(s)' = Defined(s)
  BY <1>2, SameText DEF Loads, Aliased, Imported, Defined, Active
<1> QED
  BY <1>2, <1>3, SameText DEF Cause

\* The tables tell the text: the loader's invariant and what its history shows.
THEOREM TablesTellText == Spec => []Told
<1>1. Init => Told
  BY Initially, ToldInitially DEF Told
<1>2. Told /\ IInv' /\ [Next]_vars => Told'
  <2> SUFFICES ASSUME Told, IInv', [Next]_vars
               PROVE  Told'
    OBVIOUS
  <2> USE DEF Told
  <2>1. ASSUME Telling', phase' = "error" => compileError /\ Cause,
               CallsTheNamedModule => CallsTheNamedModule'
        PROVE  Told'
    BY <2>1, CauseStays DEF FailsForCause, Stands, compileError
  <2>2. ASSUME program' = program, links' = links
        PROVE  CallsTheNamedModule => CallsTheNamedModule'
    BY <2>2, SameText DEF CallsTheNamedModule
  <2>3. CASE createUse
    <3>1. program' = program /\ links' = links
      BY <2>3 DEF createUse, compileError
    <3> QED
      BY <2>1, <2>2, <2>3, <3>1, TellingUse
  <2>4. CASE createDirectFrom
    <3>1. program' = program /\ links' = links
      BY <2>4 DEF createDirectFrom, compileError
    <3> QED
      BY <2>1, <2>2, <2>4, <3>1, TellingFrom
  <2>5. CASE createFunction
    <3>1. program' = program /\ links' = links
      BY <2>5 DEF createFunction, compileError
    <3> QED
      BY <2>1, <2>2, <2>5, <3>1, TellingFunction
  <2>6. CASE makeInstance
    <3>1. program' = program /\ links' = links
      BY <2>6 DEF makeInstance, compileError
    <3> QED
      BY <2>1, <2>2, <2>6, <3>1, TellingMake
  <2>7. CASE functionCall
    BY <2>1, <2>7, TellingCall
  <2>8. CASE returnModule
    <3>1. program' = program /\ links' = links
      BY <2>8 DEF returnModule
    <3> QED
      BY <2>1, <2>2, <2>8, <3>1, TellingReturn
  <2>9. CASE UNCHANGED vars
    <3>1. Stands /\ phase' = phase /\ program' = program /\ links' = links
      BY <2>9 DEF vars, Stands
    <3>2. Telling'
      BY <3>1, Standing
    <3>3. CallsTheNamedModule'
      BY <2>2, <3>1
    <3>4. FailsForCause'
      BY <3>1, CauseStays DEF FailsForCause
    <3> QED
      BY <3>2, <3>3, <3>4
  <2> QED
    BY <2>3, <2>4, <2>5, <2>6, <2>7, <2>8, <2>9 DEF Next
<1>3. Told => IInv
  BY DEF Told
<1> QED
  BY <1>1, <1>2, Inductive, PTL DEF Spec

\* When loading ends without an error, every module that anything uses, and
\* every instance that anything mentions, was generated to its end.
THEOREM LoadingIsComplete == Spec => []LoadedIsClosed
<1>1. Told => LoadedIsClosed
  <2> SUFFICES ASSUME Told, phase = "done"
               PROVE  LoadedIsClosed
    BY DEF LoadedIsClosed
  <2>1. frames = <<>> /\ Len(frames) = 0
    BY DEF Told, Telling, Through
  <2>2. finished = DOMAIN modulesMap
    BY <2>1 DEF Told, Telling, Through
  <2>3. \A n \in finished : modulesMap[n].uses \subseteq finished \cup {Name(g) : g \in genericsMap}
    BY <2>2 DEF Told, Telling, Offers, Sourced
  <2>4. ASSUME NEW n \in finished, NEW item \in ToSet(program[n[1]].items)
        PROVE  /\ item.op = "fn" => item.sym \in modulesMap[n].functions
               /\ item.op = "make" => Instance(n, item) \in finished
    BY <2>2 DEF Told, Telling, Through, Done
  <2> QED
    BY <2>2, <2>3, <2>4 DEF LoadedIsClosed
<1> QED
  BY <1>1, TablesTellText, PTL

\* The compiler refuses a program only where its text is wrong, or where a
\* cycle of files asks for something of a file that is not through yet.
THEOREM RefusedForCause == Spec => []FailsForCause
<1>1. Told => FailsForCause
  BY DEF Told
<1> QED
  BY <1>1, TablesTellText, PTL

\* A call of a module that is through gets the function of that module, or
\* what it imported under the name, whatever the calling module has.
THEOREM NamedModuleIsCalled == Spec => []CallsTheNamedModule
<1>1. Told => CallsTheNamedModule
  BY DEF Told
<1> QED
  BY <1>1, TablesTellText, PTL

================================================================================
