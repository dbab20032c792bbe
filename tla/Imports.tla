------------------------------ MODULE Imports ------------------------------
(***************************************************************************)
(* How class Xsd follows imports: the recursive ParseElements(doc,         *)
(* targetNs), with the C++ call stack made explicit, and the working       *)
(* directory it moves while it loads an imported document.  To register a  *)
(* schema is one step here; module Registry takes it apart.                *)
(*                                                                         *)
(* A directory is the sequence of its names from the root, a file its      *)
(* directory with its own name appended.  A document is [kind, schemas]:   *)
(* an .xsd file has kind "schema" and is its one schema, a WSDL has those  *)
(* in its types.  A schema is [ns, imports], an import [ns, dir, name] with *)
(* the two halves of its schemaLocation.                                   *)
(***************************************************************************)
EXTENDS Naturals, Sequences, FiniteSets, SequencesExt

CONSTANTS Worlds,    \* [start, main, dirs, files]: the working directory and
                     \* the document main loads, and what the disk holds
          NoNs,      \* no namespace attribute
          Many       \* bound: registrations are counted up to Many

ImportElements == [ns : STRING, dir : Seq(STRING), name : STRING]

SchemaElements == [ns : STRING, imports : Seq(ImportElements)]

\* What Worlds must be.
WellFormed ==
  /\ Many \in Nat \ {0} /\ NoNs \in STRING
  /\ \A w \in Worlds : /\ w.start \in w.dirs
                       /\ w.dirs \subseteq Seq(STRING)
                       /\ \A f \in DOMAIN w.files : w.files[f].schemas \in Seq(SchemaElements)
                       /\ \A d \in w.dirs : d # << >> => Front(d) \in w.dirs
                       /\ \A f \in DOMAIN w.files : Front(f) \in w.dirs
                       /\ w.main \in DOMAIN w.files /\ << >> \notin DOMAIN w.files

VARIABLES
  world,        \* only read
  cwd,          \* the working directory
  stack,        \* the activations of ParseElements
  registered,   \* how often each schema was registered
  done

vars == <<world, cwd, stack, registered, done>>

-----------------------------------------------------------------------------
Schemas(w) == UNION {{<<f, i>> : i \in DOMAIN w.files[f].schemas} : f \in DOMAIN w.files}

\* An activation: its document, << >> if it could not be loaded, the target
\* namespace, the cursors of the loops over schemas and imports, and the
\* directory `current` of the import under way.
Frame(file, target) ==
  [file |-> file, target |-> target, schema |-> 1, import |-> 1, current |-> << >>]

Top == stack[Len(stack)]

Document == world.files[Top.file]

\* The schema the loops are at, if there is one left.
AtSchema == stack # << >> /\ Top.file # << >> /\ Top.schema <= Len(Document.schemas)

Current == Document.schemas[Top.schema]

AtReturn == stack # << >> /\ (Top.file # << >> => Top.schema > Len(Document.schemas))

\* Utility::Path(d).GetPath() of a directory without a final slash.
Parent(d) == IF d = << >> THEN d ELSE Front(d)

Resolve(d, path) ==
  FoldLeft(LAMBDA at, name : IF name = ".." THEN Parent(at) ELSE Append(at, name), d, path)

\* chdir, whose result is not looked at.
ChangedTo(d) == IF d \in world.dirs THEN d ELSE cwd

LoadedFrom(d, name) == IF Append(d, name) \in DOMAIN world.files THEN Append(d, name) ELSE << >>

Init ==
  /\ world \in Worlds
  /\ cwd = world.start
  /\ stack = <<Frame(world.main, NoNs)>>
  /\ registered = [s \in Schemas(world) |-> 0]
  /\ done = FALSE

\* The directory of the location is entered, if it has one, and the file is
\* loaded from there or not at all.
EnterImportOf(i) ==
  LET there == IF i.dir # << >> THEN ChangedTo(Resolve(cwd, i.dir)) ELSE cwd IN
  /\ cwd' = there
  /\ stack' = Append([stack EXCEPT ![Len(stack)].current = cwd],
                     Frame(LoadedFrom(there, i.name), i.ns))

Import ==
  /\ AtSchema
  /\ Top.import <= Len(Current.imports)
  /\ EnterImportOf(Current.imports[Top.import])
  /\ UNCHANGED <<world, registered, done>>

\* Broken: without a target nothing matches.
MatchesExactly(ns, target) == ns = target

Matches(ns, target) == ns = target \/ target = NoNs

\* ParseTypes and ParseElements of the schema, after its imports.
Register ==
  /\ AtSchema
  /\ Top.import > Len(Current.imports)
  /\ LET s == <<Top.file, Top.schema>> IN
       registered' = IF Matches(Current.ns, Top.target) /\ registered[s] < Many
                     THEN [registered EXCEPT ![s] = @ + 1] ELSE registered
  /\ stack' = [stack EXCEPT ![Len(stack)] = [Top EXCEPT !.schema = @ + 1, !.import = 1]]
  /\ UNCHANGED <<world, cwd, done>>

\* Broken: the working directory stays; no loop advances.
ReturnStaying ==
  /\ AtReturn /\ Len(stack) > 1
  /\ LET caller == stack[Len(stack) - 1]
         doc    == world.files[caller.file]
         i      == doc.schemas[caller.schema].imports[caller.import]
     IN /\ cwd' = cwd
        /\ stack' = [Front(stack) EXCEPT
                       ![Len(stack) - 1].import = IF doc.kind = "schema" THEN @ ELSE @ + 1]
  /\ UNCHANGED <<world, registered, done>>

ReturnAgain ==
  /\ AtReturn /\ Len(stack) > 1
  /\ LET caller == stack[Len(stack) - 1]
         i      == world.files[caller.file].schemas[caller.schema].imports[caller.import]
     IN /\ cwd' = IF i.dir # << >> THEN ChangedTo(Parent(caller.current)) ELSE cwd
        /\ stack' = Front(stack)
  /\ UNCHANGED <<world, registered, done>>

\* Back in the loop that imports: `current` is made the working directory by
\* its GetPath, and the loop of a WSDL advances, that of an .xsd file does not.
ReturnToImport ==
  /\ AtReturn /\ Len(stack) > 1
  /\ LET caller == stack[Len(stack) - 1]
         doc    == world.files[caller.file]
         i      == doc.schemas[caller.schema].imports[caller.import]
     IN /\ cwd' = IF i.dir # << >> THEN ChangedTo(Parent(caller.current)) ELSE cwd
        /\ stack' = [Front(stack) EXCEPT
                       ![Len(stack) - 1].import = IF doc.kind = "schema" THEN @ ELSE @ + 1]
  /\ UNCHANGED <<world, registered, done>>

Finish ==
  /\ AtReturn /\ Len(stack) = 1
  /\ stack' = << >>
  /\ done' = TRUE
  /\ UNCHANGED <<world, cwd, registered>>

Next == Import \/ Register \/ ReturnToImport \/ Finish

\* The parser is one thread of straight-line code.
Spec == Init /\ [][Next]_vars /\ WF_vars(Next)

-----------------------------------------------------------------------------
Values(s) == {s[i] : i \in DOMAIN s}

AllImports(d) == UNION {Values(s.imports) : s \in Values(d.schemas)}

ImportsOf(w) == UNION {AllImports(d) : d \in {w.files[f] : f \in DOMAIN w.files}}

\* No .xsd file imports anything: all imports are those of WSDL files.
ImportedByWsdl(w) ==
  \A f \in DOMAIN w.files : w.files[f].kind = "schema" => AllImports(w.files[f]) = {}

Located(w) == \E i \in ImportsOf(w) : i.dir # << >>

\* Files that main imports import nothing themselves.
Shallow(w) == \A f \in DOMAIN w.files \ {w.main} : AllImports(w.files[f]) = {}

Least(n) == IF n < Many THEN n ELSE Many

-----------------------------------------------------------------------------
\* The cursors of every activation are within its document, and every file
\* it came from is on the disk.
TypeOK ==
  /\ world.main \in DOMAIN world.files
  /\ cwd \in world.dirs
  /\ \A f \in Values(stack) :
       /\ f.file = << >> \/ f.file \in DOMAIN world.files
       /\ f.file # << >> =>
            LET schemas == world.files[f.file].schemas IN
            /\ f.schema \in 1..(Len(schemas) + 1)
            /\ f.schema <= Len(schemas) => f.import \in 1..(Len(schemas[f.schema].imports) + 1)
  /\ registered \in [Schemas(world) -> 0..Many]
  /\ done \in BOOLEAN

\* Between the imports of the first document the working directory is the one
\* the program started in or one above it, never one an import led to; and
\* without a directory in a schemaLocation it does not move.
NeverBelowStart ==
  Len(stack) <= 1 => IsPrefix(cwd, world.start) /\ (~Located(world) => cwd = world.start)

\* The imports of the first document that name the file of s and its namespace,
\* or none: k and j are the numbers of an import's schema and of itself.
ImportsNaming(s) ==
  LET main == world.files[world.main].schemas
      ns   == world.files[s[1]].schemas[s[2]].ns
  IN UNION {{<<k, j>> : j \in {l \in DOMAIN main[k].imports :
                                 /\ Append(world.start, main[k].imports[l].name) = s[1]
                                 /\ main[k].imports[l].ns \in {ns, NoNs}}} : k \in DOMAIN main}

\* The registry gets each schema of the first document once, and each one of
\* an imported document once for every import that names its file and its
\* namespace, or no namespace: nothing imported is lost, and what two imports
\* name is registered twice.  This is for files beside each other.
EveryImportRegisters ==
  done /\ Shallow(world) /\ ~Located(world) =>
    \A s \in Schemas(world) :
      registered[s] = Least((IF s[1] = world.main THEN 1 ELSE 0) + Cardinality(ImportsNaming(s)))

\* The parse ends when only WSDL files import and no file imports itself,
\* directly or through others.
Termination == ImportedByWsdl(world) => <>done

\* README.md: the generator converts a .xsd file to C++ classes.  The parse
\* of an .xsd file would end.
SchemaParseEnds == <>done

\* application.cc: "-todir <dir> Create files in <dir>".  A relative <dir>,
\* as the default is, would mean where the program was started.
WorkingDirectoryKept == done => cwd = world.start
=============================================================================
