--------------------------- MODULE ProgramProofs ---------------------------
(***************************************************************************)
(* Theorems about Program, for all command lines, worlds and disks.  The   *)
(* proofs of the components give what each one keeps; here it is shown     *)
(* that main, which lets one after the other take its steps, keeps it all. *)
(***************************************************************************)
EXTENDS Program, TLAPS

CP == INSTANCE CommandLineProofs

IP == INSTANCE ImportsProofs

OP == INSTANCE OutputFileProofs

\* The invariants of the components; and nothing is opened before the command
\* line is read, whose global namespace is that of both files.
IInv ==
  /\ CP!IInv /\ CP!Meant /\ IP!IInv /\ IP!RegisterInv /\ OP!IInv
  /\ global = app.global
  /\ phase # "done" => step = "load"

-----------------------------------------------------------------------------
\* The instances in Program and those here are of the same modules.
LEMMA SameCommandLine ==
  /\ C!WellFormed <=> CP!WellFormed
  /\ C!Init <=> CP!Init
  /\ C!Next <=> CP!Next
  /\ \A l : C!ArgvOf(l) = CP!ArgvOf(l)
  /\ C!ReadsWithinArgv <=> CP!ReadsWithinArgv
  /\ C!Defaults = CP!Defaults
  /\ C!ReadAsUsage <=> CP!ReadAsUsage
  /\ C!vars = CP!vars
<1>1. C!Field = CP!Field /\ C!Options = CP!Options /\ C!Text = CP!Text
  BY DEF C!Field, CP!Field, C!Options, CP!Options, C!Text, CP!Text
<1>2. C!Defaults = CP!Defaults /\ C!Blank = CP!Blank
  BY DEF C!Defaults, CP!Defaults, C!Blank, CP!Blank
<1>3. \A e : C!Complete(e) <=> CP!Complete(e)
  BY <1>1 DEF C!Complete, CP!Complete
<1>4. \A l : C!ArgvOf(l) = CP!ArgvOf(l)
  BY DEF C!ArgvOf, CP!ArgvOf, C!Arguments, CP!Arguments, C!FlattenSeq, CP!FlattenSeq
<1>5. C!WellFormed <=> CP!WellFormed
  BY <1>1, <1>3, Zenon DEF C!WellFormed, CP!WellFormed
<1>6. C!Init <=> CP!Init
  BY <1>2, <1>4 DEF C!Init, CP!Init
<1>7. \A k : C!Arg(k) = CP!Arg(k)
  BY DEF C!Arg, CP!Arg
<1>8. /\ \A x : C!TakeOption(x) <=> CP!TakeOption(x)
      /\ C!TakeNs <=> CP!TakeNs
      /\ C!TakeFilename <=> CP!TakeFilename
  BY <1>1, <1>7, Zenon DEF C!TakeOption, CP!TakeOption, C!TakeNs, CP!TakeNs, C!TakeFilename, CP!TakeFilename,
                    C!Mapped, CP!Mapped
<1>9. C!NameClass <=> CP!NameClass
  BY <1>1, <1>2 DEF C!NameClass, CP!NameClass, C!Identifier, CP!Identifier, C!Stem, CP!Stem,
                    C!SelectLastInSeq, CP!SelectLastInSeq, C!Special, CP!Special, C!Max, CP!Max
<1>10. C!Next <=> CP!Next
  BY <1>1, <1>8, <1>9 DEF C!Next, CP!Next
<1>11. C!ReadsWithinArgv <=> CP!ReadsWithinArgv
  BY DEF C!ReadsWithinArgv, CP!ReadsWithinArgv
<1>12. C!ReadAsUsage <=> CP!ReadAsUsage
  <2>1. \A x, default : C!LastValue(x, default) = CP!LastValue(x, default)
    BY DEF C!LastValue, CP!LastValue, C!SelectLastInSeq, CP!SelectLastInSeq, C!Max, CP!Max
  <2>2. /\ \A name : C!Identifier(name) = CP!Identifier(name)
        /\ \A name : C!Stem(name) = CP!Stem(name)
        /\ \A x, values : C!OptionAs(x, values) = CP!OptionAs(x, values)
    BY <1>1, <1>2 DEF C!Identifier, CP!Identifier, C!Stem, CP!Stem, C!Special, CP!Special,
                      C!SelectLastInSeq, CP!SelectLastInSeq, C!Max, CP!Max, C!OptionAs, CP!OptionAs
  <2> QED
    BY <1>1, <1>2, <2>1, <2>2, Zenon DEF C!ReadAsUsage, CP!ReadAsUsage
<1>13. C!vars = CP!vars
  BY DEF C!vars, CP!vars
<1> QED
  BY <1>2, <1>4, <1>5, <1>6, <1>10, <1>11, <1>12, <1>13

LEMMA SameImports ==
  /\ I!WellFormed <=> IP!WellFormed
  /\ I!Init <=> IP!Init
  /\ I!Next <=> IP!Next
  /\ I!TypeOK <=> IP!TypeOK
  /\ I!NeverBelowStart <=> IP!NeverBelowStart
  /\ I!EveryImportRegisters <=> IP!EveryImportRegisters
<1>1. /\ \A d : I!Front(d) = IP!Front(d)
      /\ I!SchemaElements = IP!SchemaElements
      /\ \A w : I!Schemas(w) = IP!Schemas(w)
      /\ \A s : I!Values(s) = IP!Values(s)
  BY DEF I!Front, IP!Front, I!ImportElements, IP!ImportElements, I!SchemaElements, IP!SchemaElements,
         I!Schemas, IP!Schemas, I!Values, IP!Values
<1>2. I!WellFormed <=> IP!WellFormed
  BY <1>1, Zenon DEF I!WellFormed, IP!WellFormed
<1>3. I!Init <=> IP!Init
  BY <1>1 DEF I!Init, IP!Init, I!Frame, IP!Frame
<1>4. /\ I!Top = IP!Top /\ I!Document = IP!Document /\ I!Current = IP!Current
      /\ I!AtSchema <=> IP!AtSchema
      /\ I!AtReturn <=> IP!AtReturn
      /\ \A d : I!Parent(d) = IP!Parent(d) /\ I!ChangedTo(d) = IP!ChangedTo(d)
      /\ \A f, t : I!Frame(f, t) = IP!Frame(f, t)
  BY <1>1 DEF I!Top, IP!Top, I!Document, IP!Document, I!Current, IP!Current, I!AtSchema, IP!AtSchema,
              I!AtReturn, IP!AtReturn, I!Parent, IP!Parent, I!ChangedTo, IP!ChangedTo, I!Frame, IP!Frame
<1>5. \A d, p : I!Resolve(d, p) = IP!Resolve(d, p)
  BY DEF I!Resolve, IP!Resolve, I!FoldLeft, IP!FoldLeft, I!MapThenFoldSet, IP!MapThenFoldSet,
         I!Max, IP!Max, I!Parent, IP!Parent, I!Front, IP!Front
<1>6. I!Import <=> IP!Import
  BY <1>4, <1>5, Zenon DEF I!Import, IP!Import, I!EnterImportOf, IP!EnterImportOf, I!LoadedFrom, IP!LoadedFrom
<1>7. I!Register <=> IP!Register
  BY <1>4, Zenon DEF I!Register, IP!Register, I!Matches, IP!Matches
<1>8. I!ReturnToImport <=> IP!ReturnToImport
  BY <1>1, <1>4, Zenon DEF I!ReturnToImport, IP!ReturnToImport
<1>9. I!Finish <=> IP!Finish
  BY <1>4 DEF I!Finish, IP!Finish
<1>10. I!Next <=> IP!Next
  BY <1>6, <1>7, <1>8, <1>9 DEF I!Next, IP!Next
<1>11. I!TypeOK <=> IP!TypeOK
  BY <1>1, Zenon DEF I!TypeOK, IP!TypeOK
<1>12. \A d : I!AllImports(d) = IP!AllImports(d)
  BY <1>1 DEF I!AllImports, IP!AllImports
<1>13. I!Located(world) <=> IP!Located(world)
  <2>1. I!ImportsOf(world) = IP!ImportsOf(world)
    BY <1>12 DEF I!ImportsOf, IP!ImportsOf
  <2> QED
    BY <2>1, Zenon DEF I!Located, IP!Located
<1>14. I!NeverBelowStart <=> IP!NeverBelowStart
  BY <1>13, Zenon DEF I!NeverBelowStart, IP!NeverBelowStart, I!IsPrefix, IP!IsPrefix
<1>15. I!EveryImportRegisters <=> IP!EveryImportRegisters
  <2>1. I!Shallow(world) <=> IP!Shallow(world)
    BY <1>12, Zenon DEF I!Shallow, IP!Shallow
  <2>2. \A s : I!ImportsNaming(s) = IP!ImportsNaming(s)
    BY Zenon DEF I!ImportsNaming, IP!ImportsNaming
  <2>3. \A n : I!Least(n) = IP!Least(n)
    BY DEF I!Least, IP!Least
  <2>4. \A s : I!Cardinality(I!ImportsNaming(s)) = IP!Cardinality(IP!ImportsNaming(s))
    BY <2>2, Zenon DEF I!Cardinality, IP!Cardinality
  <2> QED
    BY <1>1, <1>13, <2>1, <2>3, <2>4, Zenon DEF I!EveryImportRegisters, IP!EveryImportRegisters
<1> QED
  BY <1>2, <1>3, <1>10, <1>11, <1>14, <1>15

LEMMA SameOutput ==
  /\ O!Init <=> OP!Init
  /\ O!Next <=> OP!Next
  /\ O!TypeOK <=> OP!TypeOK
  /\ O!BlocksMatchScopes <=> OP!BlocksMatchScopes
  /\ O!SuccessIsComplete <=> OP!SuccessIsComplete
  /\ O!HeaderNeverUnclosed <=> OP!HeaderNeverUnclosed
  /\ O!NoStaleImplementation <=> OP!NoStaleImplementation
<1>1. /\ O!Files = OP!Files /\ O!env = OP!env /\ O!Inner = OP!Inner /\ O!Destroyed = OP!Destroyed
      /\ O!Closes <=> OP!Closes
      /\ \A s : O!WithoutLast(s) = OP!WithoutLast(s)
      /\ \A ns : O!NSFile(ns) = OP!NSFile(ns)
  BY Zenon DEF O!Files, OP!Files, O!env, OP!env, O!Inner, OP!Inner, O!Destroyed, OP!Destroyed, O!Closes, OP!Closes,
         O!WithoutLast, OP!WithoutLast, O!NSFile, OP!NSFile
<1>2. O!Init <=> OP!Init
  BY <1>1 DEF O!Init, OP!Init
<1>3. O!LoadFails \/ O!Load <=> OP!LoadFails \/ OP!Load
  BY <1>1, Zenon DEF O!env, OP!env, O!LoadFails, OP!LoadFails, O!Load, OP!Load
<1>4. O!Open \/ O!OpenFails <=> OP!Open \/ OP!OpenFails
  BY <1>1, Zenon DEF O!env, OP!env, O!Open, OP!Open, O!OpenFails, OP!OpenFails
<1>5. \A ns : O!StartTurn(ns) <=> OP!StartTurn(ns)
  BY <1>1, Zenon DEF O!env, OP!env, O!StartTurn, OP!StartTurn
<1>6. O!WriteClass \/ O!EndTurn \/ O!EndScope <=> OP!WriteClass \/ OP!EndTurn \/ OP!EndScope
  BY <1>1, Zenon DEF O!env, OP!env, O!WriteClass, OP!WriteClass, O!EndTurn, OP!EndTurn, O!EndScope, OP!EndScope,
                     O!Begin, OP!Begin
<1>7. O!Close \/ O!ReturnFromInterface \/ O!ReturnFromImplementation
        <=> OP!Close \/ OP!ReturnFromInterface \/ OP!ReturnFromImplementation
  BY <1>1, Zenon DEF O!env, OP!env, O!Close, OP!Close, O!ReturnFromInterface, OP!ReturnFromInterface,
                     O!ReturnFromImplementation, OP!ReturnFromImplementation
<1>8. O!Next <=> OP!Next
  BY <1>3, <1>4, <1>5, <1>6, <1>7 DEF O!Next, OP!Next
<1>9. /\ O!TypeOK <=> OP!TypeOK
      /\ O!BlocksMatchScopes <=> OP!BlocksMatchScopes
      /\ O!SuccessIsComplete <=> OP!SuccessIsComplete
      /\ O!HeaderNeverUnclosed <=> OP!HeaderNeverUnclosed
      /\ O!NoStaleImplementation <=> OP!NoStaleImplementation
  BY <1>1, Zenon DEF O!TypeOK, OP!TypeOK, O!BlocksMatchScopes, OP!BlocksMatchScopes, O!Cardinality, OP!Cardinality,
     O!SuccessIsComplete, OP!SuccessIsComplete,
     O!HeaderNeverUnclosed, OP!HeaderNeverUnclosed, O!NoStaleImplementation, OP!NoStaleImplementation
<1> QED
  BY <1>2, <1>8, <1>9

-----------------------------------------------------------------------------
\* Before main the components are in their initial states.
LEMMA InitIInv == Init => IInv
<1> SUFFICES ASSUME Init PROVE IInv
  OBVIOUS
<1>1. C!Init /\ I!Init /\ O!Init /\ global = NoName
  BY DEF Init
<1>2. CP!IInv /\ CP!Meant
  BY <1>1, SameCommandLine, LineAssumption, CP!InitIInv, CP!InitMeant
<1>3. IP!IInv /\ IP!RegisterInv
  BY <1>1, SameImports, WorldAssumption, IP!InitIInv, IP!InitRegister
<1>4. OP!IInv
  BY <1>1, SameOutput, BoundAssumption, OP!InitIInv
<1>5. app.global = NoName /\ step = "load"
  BY <1>1 DEF C!Init, C!Defaults, C!Blank, NoName, O!Init
<1> QED
  BY <1>1, <1>2, <1>3, <1>4, <1>5 DEF IInv

\* Each step of main is one of a component, the others stand still.
LEMMA NextIInv == IInv /\ [Next]_vars => IInv'
<1> SUFFICES ASSUME IInv, [Next]_vars PROVE IInv'
  OBVIOUS
<1> USE SameCommandLine, SameImports, SameOutput, LineAssumption, WorldAssumption, BoundAssumption
<1>1. /\ UNCHANGED options => UNCHANGED CP!vars
      /\ UNCHANGED parsing => UNCHANGED IP!vars
      /\ UNCHANGED <<global, output>> => UNCHANGED OP!vars
  BY DEF options, parsing, output, CP!vars, IP!vars, OP!vars
<1>2. /\ UNCHANGED options => CP!IInv' /\ CP!Meant'
      /\ UNCHANGED parsing => IP!IInv' /\ IP!RegisterInv'
      /\ UNCHANGED <<global, output>> => OP!IInv'
  BY <1>1, CP!NextIInv, CP!NextMeant, IP!NextIInv, IP!NextRegister, OP!NextIInv DEF IInv
<1>3. CASE Construct
  <2>1. C!Next /\ global' = app'.global /\ UNCHANGED parsing /\ UNCHANGED output
    BY <1>3 DEF Construct
  <2>2. CP!IInv' /\ CP!Meant' /\ phase = "loop"
    <3>1. CP!IInv' /\ CP!Meant'
      BY <2>1, CP!NextIInv, CP!NextMeant DEF IInv
    <3>2. phase = "loop"
      BY <2>1 DEF C!Next, C!TakeOption, C!TakeNs, C!TakeFilename, C!NameClass
    <3> QED
      BY <3>1, <3>2
  <2>3. global' \in Globals
    <3>1. (CP!GlobalTaken /\ args = CP!ArgvOf(line) /\ line \in Lines)'
      BY <2>2 DEF CP!IInv
    <3>2. CASE app'.global = NoName
      BY <2>1, <3>2, GlobalsAssumption
    <3>3. CASE app'.global # NoName
      <4>1. PICK k \in 1..(Len(args') - 1) : args'[k] = <<"-namespace">> /\ app'.global = args'[k + 1]
        BY <3>1, <3>3 DEF CP!GlobalTaken, CP!Blank, NoName
      <4>2. args' = C!ArgvOf(line') /\ line' \in Lines
        BY <3>1
      <4> QED
        BY <2>1, <4>1, <4>2, GlobalsAssumption
    <3> QED
      BY <3>2, <3>3
  <2>4. OP!IInv' /\ step' = "load"
    <3>1. step = "load"
      BY <2>2 DEF IInv
    <3> QED
      BY <2>1, <2>3, <3>1, OP!GlobalIsFree DEF IInv, output
  <2> QED
    BY <1>2, <2>1, <2>2, <2>4 DEF IInv
<1>4. CASE Parse
  <2>1. I!Next /\ UNCHANGED options /\ UNCHANGED <<global, output>> /\ phase = "done"
    BY <1>4 DEF Parse
  <2>2. IP!IInv' /\ IP!RegisterInv'
    BY <2>1, IP!NextIInv, IP!NextRegister DEF IInv
  <2> QED
    BY <1>2, <2>1, <2>2 DEF IInv, options
<1>5. CASE Run
  <2>1. O!Next /\ UNCHANGED options /\ UNCHANGED parsing /\ phase = "done"
    BY <1>5 DEF Run
  <2>2. OP!IInv'
    BY <2>1, OP!NextIInv DEF IInv
  <2>3. global' = global
    BY <2>1 DEF O!Next, O!env, O!LoadFails, O!Load, O!Open, O!OpenFails, O!StartTurn, O!WriteClass,
                O!EndTurn, O!EndScope, O!Close, O!ReturnFromInterface, O!ReturnFromImplementation
  <2> QED
    BY <1>2, <2>1, <2>2, <2>3 DEF IInv, options
<1>6. CASE UNCHANGED vars
  BY <1>2, <1>6 DEF IInv, vars, options, output
<1> QED
  BY <1>3, <1>4, <1>5, <1>6 DEF Next

\* The invariants of the components hold together in every run of main.
THEOREM Invariance == Spec => []IInv
  BY InitIInv, NextIInv, PTL DEF Spec

\* The constructor of Application never reads past argv, whatever the command
\* line; the cursors of every activation of ParseElements are within its
\* document, and at most two blocks are begun.
THEOREM TypeCorrect == Spec => []TypeOK
<1>1. IInv => TypeOK
  <2> SUFFICES ASSUME IInv PROVE TypeOK
    OBVIOUS
  <2>1. C!ReadsWithinArgv /\ DOMAIN app = DOMAIN C!Defaults /\ phase \in {"loop", "done", "usage"}
    BY SameCommandLine, LineAssumption, CP!NeverPastArgv DEF IInv, CP!IInv
  <2>2. I!TypeOK
    BY SameImports, WorldAssumption, IP!CursorsInside DEF IInv
  <2>3. O!TypeOK
    BY SameOutput DEF IInv, OP!IInv
  <2> QED
    BY <2>1, <2>2, <2>3 DEF TypeOK
<1> QED
  BY <1>1, Invariance, PTL

\* A line of complete options and file names is read as the usage says, however
\* long it is and whatever its values look like.
THEOREM OptionsReadAsUsage == Spec => OptionsAsUsage
<1>1. IInv /\ [Next]_vars => [C!ReadAsUsage]_(C!vars)
  <2> SUFFICES ASSUME IInv, [Next]_vars, ~UNCHANGED C!vars PROVE C!ReadAsUsage
    OBVIOUS
  <2>1. ~UNCHANGED options
    BY DEF options, C!vars
  <2>2. C!Next
    BY <2>1 DEF Next, Construct, Parse, Run, vars
  <2> QED
    BY <2>2, SameCommandLine, LineAssumption, CP!LineAsMeant DEF IInv
<1> QED
  BY <1>1, Invariance, PTL DEF Spec, OptionsAsUsage, C!OptionsAsUsage

\* Between the imports of the first document, and once all are read, the
\* working directory of the process is the first one or one above it, however
\* deep documents import each other and whichever chdir fails.
THEOREM ImportsLeaveStart == Spec => []NeverBelowStart
<1>1. IInv => NeverBelowStart
  BY SameImports, WorldAssumption, IP!StartIsBelow DEF IInv, NeverBelowStart
<1> QED
  BY <1>1, Invariance, PTL

\* The registry gets every schema of the first document once, and one of an
\* imported document once for every import that names its file and namespace,
\* however many imports and schemas there are and however they repeat.
THEOREM EveryImportCounts == Spec => []EveryImportRegisters
<1>1. IInv => EveryImportRegisters
  BY SameImports, WorldAssumption, IP!EveryRegistered DEF IInv, EveryImportRegisters
<1> QED
  BY <1>1, Invariance, PTL

\* The blocks that the text of a file leaves open are those of the NSFile
\* objects alive, in their order, for any number of turns and classes.
THEOREM BlocksMatch == Spec => []BlocksMatchScopes
<1>1. IInv => BlocksMatchScopes
  BY SameOutput, OP!ScopesMatch DEF IInv, BlocksMatchScopes
<1> QED
  BY <1>1, Invariance, PTL

\* Success means two complete files, and nothing written after fclose, when
\* there is no global namespace; and every header is closed with its blocks.
THEOREM SuccessMeansComplete == Spec => []SuccessIsComplete
<1>1. IInv => SuccessIsComplete
  BY SameOutput, OP!SuccessMeansComplete DEF IInv, SuccessIsComplete
<1> QED
  BY <1>1, Invariance, PTL

\* An old implementation stays beside a new header only where unlink failed.
THEOREM FailureLeavesNoPair == Spec => []NoStaleImplementation
<1>1. IInv => NoStaleImplementation
  BY SameOutput, OP!FailureLeavesNoPair DEF IInv, NoStaleImplementation
<1> QED
  BY <1>1, Invariance, PTL
=============================================================================
