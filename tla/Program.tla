------------------------------- MODULE Program -------------------------------
(***************************************************************************)
(* main: the constructor of Application reads the command line             *)
(* (CommandLine), the schema is loaded, the constructor of Xsd follows its *)
(* imports (Imports), and the two files are written (OutputFile), in the   *)
(* global namespace of the command line and where the imports have left    *)
(* the working directory.                                                  *)
(***************************************************************************)
EXTENDS Naturals, Sequences

CONSTANTS Lines, NoArg,           \* of the command line
          Worlds, NoNs, Many,     \* of the imports
          Blocks, Globals,        \* of the output files, Globals the values that
          MaxTurns,               \* -namespace and the empty name have in Lines
          Cases                   \* [lines, worlds, disks] that occur together, a
                                  \* disk being <<writable, deletable, disk>>

VARIABLES line, args, i, app, phase,
          world, cwd, stack, registered, done,
          global, writable, deletable, disk, step, file, nsfiles, text, turns, late

options == <<line, args, i, app, phase>>
parsing == <<world, cwd, stack, registered, done>>
output  == <<writable, deletable, disk, step, file, nsfiles, text, turns, late>>

NoName == << >>

C == INSTANCE CommandLine

I == INSTANCE Imports

O == INSTANCE OutputFile

ASSUME BoundAssumption == MaxTurns \in Nat

ASSUME WorldAssumption == I!WellFormed

ASSUME LineAssumption == C!WellFormed

ASSUME GlobalsAssumption ==
  /\ NoName \in Globals
  /\ \A l \in Lines : \A k \in 1..(Len(C!ArgvOf(l)) - 1) :
       C!ArgvOf(l)[k] = <<"-namespace">> => C!ArgvOf(l)[k + 1] \in Globals

Init ==
  /\ I!Init
  /\ \E c \in Cases :
       /\ world \in c.worlds /\ line \in c.lines
       /\ \E d \in c.disks : writable = d[1] /\ deletable = d[2] /\ disk = d[3]
  /\ C!Init /\ O!Init
  /\ global = NoName

\* Application app(argc, argv), its namespace kept for all that follows.
Construct == C!Next /\ global' = app'.global /\ UNCHANGED <<parsing, output>>

\* Xsd xsd(app, doc), once doc is loaded.
Parse == phase = "done" /\ step = "open" /\ ~done /\ I!Next /\ UNCHANGED <<options, global, output>>

\* doc.Load before, and CreateInterface and CreateImplementation after it.
Run == phase = "done" /\ (step = "open" => done) /\ O!Next /\ UNCHANGED <<options, parsing>>

Next == Construct \/ Parse \/ Run

vars == <<options, parsing, global, output>>

\* main is one thread, and a turn of CreateInterface or CreateImplementation
\* ends with the types of its namespace.
Spec ==
  /\ Init /\ [][Next]_vars
  /\ WF_vars(Next)
  /\ WF_vars(O!EndTurn /\ UNCHANGED <<options, parsing>>)

-----------------------------------------------------------------------------
\* The constructor of Application never reads past argv: its loop ends right
\* behind the last argument, and argv[argc] becomes no value, also where an
\* option lacks its values or a value looks like an option.
TypeOK ==
  /\ C!ReadsWithinArgv
  /\ DOMAIN app = DOMAIN C!Defaults
  /\ phase \in {"loop", "done", "usage"}
  /\ I!TypeOK
  /\ O!TypeOK

\* Properties of the components, for every command line and every world.
OptionsAsUsage        == C!OptionsAsUsage
NeverBelowStart       == I!NeverBelowStart
EveryImportRegisters  == I!EveryImportRegisters
BlocksMatchScopes     == O!BlocksMatchScopes
NoStaleImplementation == O!NoStaleImplementation

\* A run that reports success leaves both files complete and wrote nothing
\* after fclose, when the last -namespace with a value is none; a header is
\* closed with its blocks in every run.
SuccessIsComplete == O!SuccessIsComplete /\ O!HeaderNeverUnclosed

\* main ends, with the usage or with an exit status, whatever the arguments,
\* when no .xsd file imports and no file imports itself.
Termination ==
  I!ImportedByWsdl(world) => <>(phase = "usage" \/ step \in {"failed", "succeeded"})
=============================================================================
