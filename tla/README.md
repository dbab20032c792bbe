# A verification of xsd2cc

`xsd2cc` reads an XML Schema (or a WSDL with schemas in its `types`) and writes a C++
header and implementation with one class per complexType. Each class can read itself from
an XML node (`FromXml`) and write itself as text (`ToString`). The program is one thread
and keeps no state between runs. Its hard parts are a recursion that writes shared maps at
different moments, a fix-point over the type graph, C++ scopes whose destructors write text,
a working directory that moves, cursors that const queries move about, names that mean what
the node they stand at says they mean, and the life cycle of the objects it generates.

The project models these parts in TLA+, checks them with TLC on small instances, and proves
with TLAPS what is central for every value of the constants: the fix-point for every schema, the
registry for every document, a whole run of `main` for every command line, every set of files
and every disk, and the readers: the resolution of names for schemas of any size and depth, the
queries for every WSDL, the tokenizer for every text.

## 1. The system

| Component | State | Operations | Works with |
|---|---|---|---|
| Command line (`application.cc:30-71`) | options, file and class name | constructor of `Application` | read by all others |
| `main` and output files (`xsd2cc.cc`, `xsd.h:36-64`) | `NSFile` objects, open `FILE` | `Load`, `myfopen`, `Begin`, destructor, close | runs the others in order |
| Imports (`xsd.cc:442-514`) | C++ stack, working directory, `import_` | `ParseElements(doc, ns)` | `XmlDocument`, registry |
| Registry (`xsd.cc:516-612`) | `complexType_`, `complexType_Map_`, `simpleType_`, `parent_` | `ParseTypes`, `ParseElements`, `ParseComplexType` | constructs `ComplexType` while it fills the maps |
| Generation (`xsd.cc:614-761`, `complex_type.cc:164-253`) | static `b_generated_`, `repeat`, `gen` | `CreateInterface`, `CreateImplementation`, `OkToGenerate` | reads the registry, writes the files |
| Type resolution (`type_base.cc`, `element.cc`, `attribute.cc`, `simple_type.cc`) | type, namespace, C++ type of one object | `SetType`, `SetCType`, constructors | registry, namespace maps |
| XML cursor (`xml_node.cc`) | mutable `current_`, `lookup_name_` | search, `++`, content, properties, namespace maps | everything that reads XML |
| Tokenizer and names (`parse.cc`, `split.h`, `xsd.cc:803-851`) | a cursor in a string | `getword` and its kin, `Split`, `NamespaceFromHref` | names of types, classes and namespaces |
| WSDL queries (`xsd.cc:45-440`) | locals of one call | `GetPorts` ... `GetMessageParameters`, `GetElement` | not called by `main` |
| Utility (`utility.cc`) | none | UTF-8, numbers, paths | texts of documents |
| Generated class (`complex_type.cc:446-1198`) | members, attributes, `_is_set_` flags, `is_setted_`, mixed content, base | constructor, `clear`, `FromXml`, `ToString`, `IsSet`, setters | used by the program the code is generated for |

Nothing runs concurrently and nothing is persisted but the output, so there are no hazards
of interleaving or of recovery. What is hard to test is the order of things: of types in
lists, of assignments around a recursive call, of destructors and `fclose`, of calls on an
object or a cursor; and what a name means at the node it stands at. `PROJECT.json` lists 40
hazards, each at its line with the properties about it.

What makes each part correct:

- **Command line**: options in any order are read as the usage says, and nothing past `argv`.
- **Imports**: the parse ends; everything imported is registered under the namespace asked
  for; the working directory is the caller's again.
- **Registry**: maps, lists and parents describe the tree of the document.
- **Generation**: a class comes after the classes of its members and its base; nothing that
  can be written is left out; the loop ends; header and implementation agree.
- **Output files**: each class stands in the block of its namespace, and a run that
  succeeds leaves two complete files.
- **Type resolution**: a qualified name means what XML says it means, in the header and in
  the implementation alike; an anonymous type is found where it was registered.
- **Cursor, tokenizer**: a loop visits each child once, whatever is asked in between; no
  character is lost.
- **Queries**: each names the node the document says, and the walk of
  `GetMessageParameters` ends.
- **Generated class**: `FromXml` and `ToString` are inverse; the latest parse wins; `clear`
  makes the object new.

## 2. Modules

```
 Schema  <-- EmissionOrder            what the generator promises (abstract)
   ^  ^          ^
   |  '---- Generation <-- MCGeneration, GenerationProofs
   '------- Registry   <-- MCRegistry,   RegistryProofs

 CommandLine   Imports   OutputFile       CommandLineProofs  ImportsProofs  OutputFileProofs
      '-----------+----------'                    '----------------+---------------'
               Program <-- MCProgram (MCWorlds)               ProgramProofs

 XmlNode <-- XmlCursor -->  ChildSequence  (abstract)      Tokenizer <-- Names
    ^                                                          |
    '-- SchemaLookup <-- WsdlQueries <-- Concatenation --> TextCoding
             ^---------- TypeResolution                        |
                  all readers side by side: Reading <-- MCReading, ReadingProofs
                                            (MCNames, MCDocuments, MCSchemas, MCTexts)

 GeneratedClass <-- MCGeneratedClass           SequenceFacts: lemmas all proofs share
```

A module `MCx` gives x its constants for TLC, a module `xProofs` holds the theorems about x.

`Program` composes what one run of `main` goes through: `CommandLine` reads `argv`, its
`-namespace` becomes the global namespace of `OutputFile`, and `Imports` runs between the
load of the document and the first file that is opened. The rest of the composition is by
hand-over. `Imports` decides which schemas are registered, and how often: its `Register` step
is one complete run of `Registry`. `Registry` ends with maps which its operator `AsSchema`
turns into a value of `Schema`; `HandsOverWellFormed`, proved in `RegistryProofs`, is exactly
the assumption `SchemaAssumption` that `Generation` and its proofs make. `Generation` decides which class is
written when, `OutputFile` what happens to the file and its namespace blocks around any such
sequence. `TypeResolution` says how the names that `Registry` and `Generation` take as resolved
are resolved.

### Schema, EmissionOrder, Generation

A schema is the parsed registry as a value: `types` (the lists in the order of the loops),
`members` (the complex types a type's elements resolve to), `item` (for a SOAP array), `base`
and `parent`. `OkToGenerate(s, G, t)` is the C++ method, `G` the keys of `b_generated_`: local
names, without a namespace. It does not look at the base, and neither does the model's.

The state of `Generation` is the locals of the loops. An action is one list entry or the end
of a sweep:

| Action | Code |
|---|---|
| `Skip` | parent not empty, or `IsGenerated` (`xsd.cc:681-688`) |
| `Emit` | `OkToGenerate`, then `CreateInterface`, `SetGenerated`, `gen = true` (689-698) |
| `Postpone` | `repeat = true` (699-701) |
| `NextPass`, `FinishInterface` | `while (repeat && gen)` and its resets (670-671, 707) |
| `Implement`, `FinishImplementation` | `CreateImplementation`'s loop (742-757) |

`pass` is a history variable that counts sweeps. `EmissionOrder` is the promise: at any time
any class that is ready may be written, and writing stops only when none is. `Generation`
implements it with `stopped <- phase # "interface"`.

### Registry

The recursion `ParseTypes` / `ParseElements` / `ParseComplexType` with its stack in a
variable; a frame holds the node, its name, the enclosing class and the loop cursors. Entering
an element lists its name, leaving it assigns map and parent, as `xsd.cc:553-556` does around
the recursive call. A `ComplexType` is constructed on entry, and its constructor walks the
chain of parents: on a cyclic chain it never returns, which the guard `ChainReturns` says.
Elements outside `sequence` and `all` are not read, as in the code. What a document may be is
`IsTree`: every node stands in one place, and none in itself at any depth.

### CommandLine, Imports, OutputFile, Program

`CommandLine` has one action per branch of the loop over `argv`: an option with one value, `-ns`
with two, and everything else, an option that lacks its values included, as the file name. A
line is what the caller means, a sequence of options and file names; `argv` is the texts
it stands for, among them values that look like options.

`Imports` is the recursion of `ParseElements(doc, targetNs)`. A frame holds a document (none,
if it could not be loaded), the target namespace and the cursors. `Import` changes the
directory, loads and calls; `ReturnToImport` restores the directory as the code does, to
`Path(getcwd())`'s `GetPath()`, and advances the cursor only in the loop for WSDL, as the code
does. Registrations are counted up to `Many`.

In `OutputFile` an `NSFile` is `[ns, start]`, and `text` is what the written text leaves open.
`StartTurn`, `WriteClass`, `EndTurn` stand for one iteration of a loop over namespaces. `disk`
follows each file from absent or old to complete or unclosed; opening, deleting and loading
may fail.

### XmlNode, ChildSequence, XmlCursor

A document is a tree of numbered nodes with names, attributes, prefixes declared and blank
texts. `XmlNode` holds the methods of the class as operators on a node: search among the
children, next of a name, content, property, and `GetNsMap`, which stops at the first node
whose declarations run out. `XmlCursor` is one object in the loop
`while (n) { ...; ++n; }`, with `current_` and `lookup_name_` as its state and each query that
moves them as an action of the loop's body. It implements `ChildSequence`: the children with
the name, numbered in document order, and the one the loop is at, which only `++` moves and
only to the next.

### Tokenizer, Names

`Tokenizer` is class `Parse`: a text, the separators and break characters it was set up
with, and the cursor; the actions are its public methods, in any order. It follows the
cursor one past the end of the text, where the code leaves it, and what `strlen` reads there
is a choice. `Names` has `Split` and `NamespaceFromHref`, which are calls of `getword` on
a `Parse` set up in two ways. A URI is its scheme, its host and its path, the last with the slash
it begins with, so that what `NamespaceFromHref` leaves out is there to be left out; a URI
without `://` is all host.

### SchemaLookup, WsdlQueries, TypeResolution

`SchemaLookup` finds types and schemas as `GetSchema`, `FindComplexType`, `FindSimpleType` and
`GetParent` do: by local name in the first list that fits. `WsdlQueries` has the queries that
are answered at once as operators, and `GetMessageParameters` as a state machine that goes
through the parts, looks an element up (`GetElement`, with its recursion into imports) and
follows `ref` and `type` from node to node. `TypeResolution` makes one object after the other,
an `Element`, `Attribute`, `SimpleType` or `ComplexType`, at every node where the generator
makes one, a `ComplexType` at the node the registry holds, the extension where there is one; the
object has namespace, type, class of builtin and C++ type. What a schema must be
for that is its `WellFormed`: a tree whose roots, and nothing else, are `schema` elements with a
target namespace that is not XML Schema's own, none of which imports its own namespace, and the
maps of the registry as `Registry` fills them for distinct names (`ClassesKnown`).

### TextCoding

A text on its way from the document through `FromUtf8` into a string of bytes and through
`ToString` into the next document. `Concatenation`, which `WsdlQueries` uses too, appends the
parts of a sequence of sequences, as `FlattenSeq` of `SequencesExt` does. The modules that
`Reading` takes in as instances stay away from `SequencesExt` itself: with each instance the
provers would be given once more all that it extends.

### GeneratedClass

The format strings of `reset_members`, `clear_members`, `from_xml`, `to_string` and
`CreateImplementation` are read as the class they write. A class is a value with its base,
its members (kind, vector, optional, default, simpleType or not), attributes and whether it is
mixed; an object has the members, flags and attributes of its class and of its base, at every
depth. `FromXml` returns `[ok, obj]` and stops in the middle where the code returns false.
`Text` is what `ToString` with a name writes, as the document a parser reads from it. Numbers
are read with `atoi` and `atof` and written through `long`, booleans are read as `true`, `yes`
or not zero and written as a number. `garbage` is what a variable the constructor leaves alone
holds; one bit for all of them, varied for the classes that leave something uninitialised.

The methods of a class are not virtual and hide those of its base. `ToString` of a class with
a base lets the base write itself, `partid` 1 and 2, around the members: an element within
the element, named after the class (`Element`). `FromXml` of the base is called on the outer
element and its result dropped.

The setters are one action per kind of member (`SetMember`, `SetAttribute`, `SetMixed`,
`SetVector`, `SetChild`), `SetNodeState` sets `is_setted_`, `ChangeChild` reaches a child
through its reference, past the flags of its parent, and `ChangeBase` is the inherited
setters.

`FromXml(string)` returns before it touches the object when the text is not XML; that is a
stuttering step.

## 3. What the runs check

| Run | States | Shows |
|---|---|---|
| `generation` | 57 000 | `MembersFirst`: a class comes after its members' classes. `NeededFirst`: after its base where the order of registration has them so. `LeastFixpoint`: exactly the derivable names are written, whatever the list order. `WholeWhenOrderable`: for a schema that can be ordered, without homonyms, header and implementation agree. `SweepsBounded`. `AbstractSpec`: refinement of `EmissionOrder`, its fairness included. `Termination`. |
| `generation_recursive` | violation | A recursive type has methods but no class. |
| `generation_homonyms` | violation | Of two types with one local name in two namespaces only one is written. |
| `registry` | 76 000 | `ParentsRegistered`: at every moment a parent is a listed class. `TreeMirrored`: with distinct names list, map and parents are the tree. `HandsOverWellFormed`. `Termination`: with distinct names. |
| `registry_homonyms` | violation | An anonymous type takes the map entry of a global one. |
| `program` | 784 000 | `OptionsAsUsage`: options are read as the usage says, each by its last value. `NeverBelowStart`: the working directory is the starting one or above it, and unchanged without directories in locations. `EveryImportRegisters`: nothing imported is lost; what is imported twice is registered twice. `BlocksMatchScopes`: open blocks are the begun scopes, in order. `SuccessIsComplete`: without a global namespace a run that succeeds leaves two complete files, and a header is closed in any run. `NoStaleImplementation`. `Termination`: `main` ends, when only WSDL files import. |
| `imports_schema` | violation | An `.xsd` file with an import is parsed forever. |
| `imports_directory` | violation | After an import from a directory the program is in the parent of its directory. |
| `output_file_global` | violation | With `-namespace` the `.cc` file ends inside the namespace. |
| `reading` | 211 000 | The readers, side by side; see below. |
| `text_coding_declared` | violation | What `ToString` writes of an accented letter is not the UTF-8 its head declares. |
| `generated_class` | 3 400 | `RoundTrip`: a complete object survives `ToString` and `FromXml`. `LatestWins`: what a document says is in the object afterwards, whatever was there before, failed parses included. `ClearForgets`: `clear` gives a new object. `ParseNeverUnsets`. |

The violation runs each show a disagreement with a line of the repository's documentation,
quoted under `findings`.

`reading` is a union: `reader` says which module a behaviour belongs to, and the others stay
idle. It shows

- of a `Parse`: `CallsAsDescribed` (what `getword` returns with separators, with break
  characters and with quotes, and that no call loses a character), `MeasuresAgree` (the
  lengths announced are those of what is returned next), `NamesRead` (`Split` finds prefix and
  local part; which URIs get one C++ namespace);
- of a loop: `LoopVisitsChildren`, the refinement of `ChildSequence` with its fairness;
- of WSDL queries: `OperationsAnswered`, `ElementsOfTheirNamespace`, `ParametersUnwrapped`,
  and `WalkEnds` for documents without circles of references;
- of types: `ResolvesAsDeclared`, `AnonymousIsOwn`, `MembersTyped` (through a simpleType, and
  in header and implementation alike) and `RefsNeverMistaken`;
- of texts: `TextsSurvive`, exactly the texts without characters U+0080 to U+07FF.

**Which namespaces meet.** `NamespaceFromHref` drops the scheme, the first label of the host and
the slash behind it, turns the other labels around with an underscore behind each, and makes an
underscore of every sign of the path (`xsd.cc:809-838`). No document of the repository promises
that two XML namespaces stay apart, so there is no finding; `NamespacesApart` says exactly which
do. Of URIs with a scheme and as many labels in their hosts, those that agree from the second
label on, dots and colons aside, and behind the host, signs aside: so `http://a.b/x` and
`https://z.b/x`, `http://a.b` and `http://a.b/`, `http://a.b/x-y` and `http://a.b/x/y` share one.
Of URIs without a scheme, those that agree but for signs. Left aside are hosts of which one has
more labels, for these meet too: a label can stand in the host or in the path, and `http://a.b.c/`
and `http://x.c/b/` are both `c_b_`. The option `-ns` is what keeps them apart.

**Bounds, and why they are enough.**

- `generation`: three types. Every graph over three types has every shape the sweep can meet
  (chain, cycle, self-loop, shared member, a type listed before or after its member); a second
  namespace gives homonyms, a fourth name a builtin array item, nesting goes two deep, and a
  document imported twice lists its types twice. The proofs drop the bounds.
- `registry`: three complexType nodes in every tree and every naming with three names, so nested
  and repeated names, cycles of parents and collisions with simpleTypes, local and global, all
  occur.
- `program`: command lines of up to two elements, so that an option repeats, precedes or follows
  the file or lacks its values, of an empty class name, and of two options before a file; with each of them every
  combination of files that exist, can be written and can be deleted. And WSDL documents with
  two schemas and up to two imports in the first, two levels of recursion, present and missing
  directories and files, `..`, with one line and one disk each (`Cases`): neither part reads
  more of the other than `-namespace` and the end of the parse. `Many = 2` tells once from
  twice. Three turns of the loop over namespaces, so an empty, a written and a further one
  (`MaxTurns`); two blocks and the empty name.
- `reading`: all texts of up to four characters over the alphabet each setup tells apart
  (`MaxText`), the cursor followed one past the end (`MaxPast`) and lengths of two read there
  (`MaxJunk`); all trees of up to five nodes; documents with two schemas that may import each
  other or one that is not there, seven lists of parts, paths of six names (`MaxPath`); two
  portTypes with up to two operations; pairs of schemas that declare prefixes at the root, at
  the schema, at both or apart, with types nested two deep; texts of three characters out of
  seven, among them the three bytes of one character as characters of their own.
- `generated_class`: one class for each shape of member, one with a base, two items in a vector
  (`MaxItems`), nesting of one level, and for each class complete and incomplete documents.

**What the properties assume.** `Complete`, the precondition of `RoundTrip`, says that everything
required is given at each depth and names what the code cannot carry: a required child with
nothing set is not written, mixed content is written after the members and read only before
them, and an optional string attribute that is empty is not written, so its default comes back.
A double loses its fraction. For a class with a base `RoundTrip` is about what stands inside the
element that the base writes; a document with that element is refused by `FromXml` of the
class itself, or read without what it holds, and an object with only its base set is
written as empty after a parse, since `IsSet` does not look at the base.
`ClearForgets` leaves out mixed classes and simpleType members, which `clear` does not reset.
`SuccessIsComplete` takes it that writes to an open file succeed; the code does not look.
`ResolvesAsDeclared` and its kin are about nodes where a single element on the way to the root
declares prefixes: with more `GetNsMap` stops early. `ElementsOfTheirNamespace` says what an
import of another schema of the same document does: its elements hide those of the importing
schema.

**Fairness.** Every module is one thread of straight-line code, so weak fairness of `Next` is
what the machine gives: a step that can be taken is taken. `Program` adds weak fairness of
`EndTurn`, as a namespace has finitely many types and its turn ends; `Generation` shows the
loops inside do. A loop over a cursor advances it in each turn, whatever else its body does, so
`XmlCursor` asks weak fairness of `Increment`; the calls of a `Parse` and the objects of
`TypeResolution` have no fairness and no liveness. Runs that reach an end state switch the
deadlock check off, because the program really stops there; `generated_class` never stops and
has it on.

## 4. What is proved

| Theorem | Statement |
|---|---|
| `GenerationProofs` | |
| `TypeCorrect` | `SafeSpec => []TypeOK` |
| `WritesLeastFixpoint` | `SafeSpec => []LeastFixpoint` |
| `MembersComeFirst` | `SafeSpec => []MembersFirst` |
| `NeededComeFirst` | `SafeSpec => []NeededFirst` |
| `SweepsAreBounded` | `SafeSpec => []SweepsBounded` |
| `ImplementsEmissionOrder` | `SafeSpec => Abstract!SafeSpec` |
| `OrderableIsWhole` | `SafeSpec => []WholeWhenOrderable` |
| `RegistryProofs` | |
| `TypeCorrect` | `Spec => []TypeOK` |
| `NestedInListed` | `Spec => []ParentsRegistered` |
| `MirrorsTree` | `Spec => []TreeMirrored` |
| `HandsOver` | `Spec => []HandsOverWellFormed` |
| `ProgramProofs` | |
| `TypeCorrect` | `Spec => []TypeOK` |
| `OptionsReadAsUsage` | `Spec => OptionsAsUsage`, an action property |
| `ImportsLeaveStart` | `Spec => []NeverBelowStart` |
| `EveryImportCounts` | `Spec => []EveryImportRegisters` |
| `BlocksMatch` | `Spec => []BlocksMatchScopes` |
| `SuccessMeansComplete` | `Spec => []SuccessIsComplete` |
| `FailureLeavesNoPair` | `Spec => []NoStaleImplementation` |
| `ReadingProofs` | |
| `LoopKeepsOrder` | `Spec => L!Sequence!SafeSpec` |
| `ReadsAsDeclared` | `Spec => []ResolvesAsDeclared` |
| `MembersAsTyped` | `Spec => []MembersTyped` |
| `RefersToItsOwn` | `Spec => []RefsNeverMistaken` |
| `FindsItsOwnClass` | `Spec => []AnonymousIsOwn` |
| `FindsTheirElements` | `Spec => ElementsOfTheirNamespace`, an action property |
| `ReturnsParameters` | `Spec => []ParametersUnwrapped` |
| `AnswersForOperations` | `Spec => []OperationsAnswered` |
| `ReturnsAllThereIs` | `Spec => CallsAsDescribed`, an action property |
| `AnnouncesLengths` | `Spec => []MeasuresAgree` |
| `TellsNamesApart` | `Spec => []NamesRead` |
| `WritesWhatItRead` | `Spec => []TextsSurvive` |

### From which assumptions

The constants are arbitrary but for these, which TLC evaluates in the runs:

- `NameAssumption`, `SchemaAssumption` (`Schema`): the absent values are not names, and schemas
  are well formed. `HandsOver` discharges the second for what the parser makes of any document.
- `DocumentAssumption` (`Registry`): a document is a tree.
- `LineAssumption` (`Program`): a command line is a sequence of options with their values and
  file names, any texts among the values; of a line with an option short of values, which
  `ReadsWithinArgv` is about and `OptionsAsUsage` is not, any sequence of texts. `GlobalsAssumption`: the global namespace is a value of
  `-namespace` or empty. `BoundAssumption`: `MaxTurns` is a number.
- `WorldAssumption` (`Program`): every file is in a directory, every directory in its parent, and
  the two halves of a location are texts. Cycles of imports are allowed.
- `LoopAssumption` (`Reading`): documents are trees.
- `WsdlsAssumption`: so are WSDL documents; their nodes are numbered in the order of the document,
  and they have one `types` element.
- `SchemasAssumption`: schemas are what is said under `TypeResolution`. Its last part,
  `ClassesKnown`, is what `MirrorsTree` proves of the registry for distinct names; what happens to
  others is the subject of `registry_homonyms` and `generation_homonyms`.
- `SessionsAssumption`: the characters of a text, its separators and quotes are not the 0 that ends
  it. `HrefsAssumption`: a URI is a scheme, a host and a path, texts; with a scheme, the host is made of
  labels without underscore or slash, none empty, and a path begins with a slash.
- `TextsAssumption`: a text is a sequence of code points up to U+FFFF.

### Along which arguments

**Generation.** `LeastFixpoint` is not inductive: in the middle of a sweep nothing says why a type
that is still unwritten may be given up at its end. `IInv` adds four facts. `NamesOfHeader`:
`b_generated_` is the names in the header. `OnlyDerivable`: it is within every closed set, which
`Emit` keeps because `OkToGenerate` is monotone (`OkMonotone`). `Postponed`: each type this sweep
has passed and left unwritten set `repeat`, and was not ready unless something has been written
since (`gen`). `NoneReady`: once the loop is left no type is ready; this follows from `Postponed`
where `repeat /\ gen` is false. A closed set within every closed set is the least one. The
refinement needs the same invariant: `Emit` is `Write`, `FinishInterface` is `Stop`, whose guard is
`NoneReady`, and every other step stutters. `OrderableIsWhole` takes the unwritten top-level types
of an orderable schema: one of them has no member among them, so it was ready, against
`NoneReady`; a nested type is defined with its outermost class because parent chains end.
`NeededFirst` is about what `OkToGenerate` does not wait for. It holds because classes in order are
all written in the first sweep, in their order (`FirstSweep`): such a class is ready when the sweep
comes to it.

**Registry.** `TreeMirrored` speaks of the end only. The invariant says at every moment what each
activation on the C++ stack stands for (`FrameInv`: the node it is at, and that an element's
activation was called by that of the node it stands in), which part of the document the loops have
passed (`Passed`: by the cursor of an activation, or because its node is finished), and that lists,
map and parents hold exactly that part (`Recorded`, `ListedOnce`). A node has at most one
activation and is finished only after it (`OpenOnce`), or the recursion would assign twice; that,
and that `Recorded` is not undone by a later assignment, needs distinct names, and so these parts
are conditional on `UniqueNames`, while `TypeOK`, `StackInv`, `ParentsRegistered` and `MapInv` hold
for all. At the end every node is finished, because the tree is well founded: the topmost node that
is not would stand in one that is, and so be an element the loops have passed. That parent chains
end, which the generator relies on, follows the same way.

**Program.** Each component has an invariant, proved in the component's module from
`WellFormed`, with the three facts `InitIInv`, `NextIInv` and what it implies. `ProgramProofs`
lets one component step while the others stand still; its own invariant adds that the global
namespace of `OutputFile` is the option, and that nothing is opened before the command line is
read. The lemmas `Same...` say that the instances in `Program` and those of the proofs are of the
same modules.

- `CommandLine`. `Meant`: while the line is complete the loop stands at the first argument of an
  element, after the arguments of those before it (`Partial`, the running concatenations), and
  each option has the last of its values among them (`HasRead`). Without the first half a value
  that looks like an option would be taken for one. `argv` is a concatenation of sequences; the
  facts about it are proved by the least number for which they fail.
- `Imports`. `CallInv`: cursors are within their documents, callers wait at an import.
  `DirectoryInv`: the directory the first activation will be back in is the start or above it, and
  below an import without a directory, after which the code restores nothing, the working directory
  is the caller's or above it. `EveryImportRegisters` needs three more
  facts (`RegisterInv`). `CalleeInv`: only the first document waits, and the file above it is what
  the import it waits at names. `BlockInv`: an import that the parser never gets past, that of an
  `.xsd` file or of the document by itself, is not passed, so with one the parse is never done.
  `TimesInv`: without one the stack has at most two activations, and a schema has been registered
  once for each import naming it that is past, once more if the import under way has, and once
  for itself. A return moves one import into the first number out of the second; the sets are
  counted with the cardinality of the naming imports that are past.
- `OutputFile`. `ScopesInv`: which `NSFile` objects exist at each step, at most the global one and
  that of the turn, and that the text has open the blocks those have begun. `DiskInv`: what each file is
  at each step, so that the header is complete before the implementation is begun.

**Reading.** `XmlNode` finds nodes by walks over `next` and `up`. The walk to the least position that
fits exists by the least number for which it fails, in both directions: among siblings for the loop
(`WalkFinds`, `WalkOn`), towards the root for namespace maps and inherited properties
(`ClimbExists`, `PathUp`). `LoopKeepsOrder` maps a query in the body to a stutter, as it leaves
`current_` on the node or lets `++` search on from it, and `++` to the step to the next child.
`ReadsAsDeclared`: where one element alone declares prefixes, `GetNsMap` is that element's
declarations for every node below it (`OneDeclares`), so what `SetType` looks up is what XML says.
`MembersAsTyped` applies it at the node of the simpleType that a member's type names.

- References (`RefersToItsOwn`): `GetElement` searches the children of the root, and what it finds
  is the global element meant (`GlobalFound`); an import is followed only out of the document.
- Anonymous classes (`FindsItsOwnClass`): a class's own name and that of the class around it are all
  the registry keeps. As no two classes have one key, following the map of parents name by name
  goes through the classes above a node in the tree (`ClassesAbove`, `ParentsOfClass`). Were the path
  of one wrong, that of a class above it would be: the one with the least number settles it.
- Queries (`QueryInv`): what the walk has seen of the parts is described by where the cursor stands.
  A loop that ends at a hit returns the first child that fits (`LoopStops`), and two nested ones the
  first in the document, because nodes are numbered in its order (`OpAnswered`). A loop that
  collects visits all (`LoopVisitsAll`).
- `Tokenizer`: a scan stops at the least position with a character of a set (`Scan`, `WordCut`); with
  quotes, where a function defined from the end of the text backwards stops (`DescentExists`,
  `QuotedCut`). Each call cuts a stretch into what is skipped, returned and the ending (`Passes`,
  `Lossless`); lengths are those of the same stretches (`WordMeasured`, `RestMeasured`).
- `Names`: `Split` is two calls of `getword`, each a stretch between colons. `NamespaceFromHref`
  turns labels around and joins them with underscores, so labels are stripped from the right, one
  underscore at a time, by induction on the labels that are left (`HostsApart`); the same induction
  shows that hosts that agree behind their first labels give one name (`HostsMeet`).
- `TextCoding`: `FromUtf8` folds each pair of bytes into one and leaves the others (`PairsFolded`), so
  a text with a pair comes back shorter, and without one as it was.

### What the proofs found about the model

Assumptions had been silent, as the runs' constants satisfied them; the properties and the
assumptions on constants now say them.

- `OptionsAsUsage` as it was stated fails for an empty class name, which the code treats as none;
  the run now has such lines. The empty file name, which stands for a document that could not be
  loaded, must not be a file.
- `MembersTyped` is about simpleTypes that restrict a builtin; one that is a list or a union has no
  base to name.
- `RefsNeverMistaken`: in an imported document an unprefixed type is resolved in that document's own
  target namespace, whatever the root declares; an element referred to may declare prefixes of its
  own; a reference may lead nowhere; and a schema that imports its own namespace makes `GetElement`
  recurse without end.
- `AnonymousIsOwn` relied on the registry's contents, and on an element with a class of its own not
  naming another. An anonymous type that extends another is entered under its extension.
- `OperationsAnswered` needs nodes numbered in document order: "the first" of two nested loops is
  the first in the document only so.
- `NamesRead` needs names without blanks, and hosts without underscores, with which
  `NamespaceFromHref` joins labels, and as many labels in one host as in the other.

### What is only model-checked

- All liveness: `Termination` and `WalkEnds`, and the fairness in `AbstractSpec` and
  `LoopVisitsChildren`. The prover has no rule for it, and ENABLED is beyond it.
- `GeneratedClass`: its operators recurse over nested objects and are RECURSIVE, over which no
  theorem can be stated.
- Of `Reading`, `TypeOK`: the theorems about it have invariants of their own, each with what it
  needs of the types.

## 5. What is not modelled

- The `Show` functions of `xsd.cc` and `complex_type.cc`, which print what the modelled queries
  return, and documentation, enumeration and occurrence, which resolve nothing.
- The wrapping of a C++ type in `const`, `&` or a list, and text that is written around the
  classes: licence headers, `#include`, typedefs of simpleTypes and arrays, comments, logging.
- Members of type byte; prefix and namespace declaration of a written element; escapes, which
  neither `ToString` nor `FromXml` has.
- Buffers of fixed size for generated text (`complex_type.cc:1062`).
- Failures to write to an open file.
- `ToUtf8`, `ToLower`, `bigint2string` and the conversions of words to numbers, which nothing
  calls.
- Cycles of imports between WSDL files: the stack grows without bound. Absolute locations and
  URLs are like missing directories.
- libxml2: a document is the tree that it hands over.

## 6. Plan

Done, in this order: `Schema`, `EmissionOrder`, `Generation` and its proofs, `Registry`,
`OutputFile`, `GeneratedClass`, `Imports`; then `TypeResolution` with `SchemaLookup` and
`XmlNode`, base classes in `Schema` and in `GeneratedClass`, `XmlCursor` with `ChildSequence`,
`Tokenizer` and `Names`, `CommandLine`, `WsdlQueries`, `TextCoding`, and the composition `Program`.

Proved: every invariant and every action property that the runs check of `Generation`,
`Registry`, `Program` and `Reading`, but for the `TypeOK` of the last, and the safety part of both
refinements.

Left: the properties of `GeneratedClass`, which would need its objects as functions over a set of
paths instead of records in records; and, in the model, homonyms in the maps that `TypeResolution`
reads.

## 7. Running it

    tlc -config Generation.cfg MCGeneration      # and so on, one .cfg per run
    tlapm GenerationProofs.tla                   # and so on, one module of proofs each

`PROJECT.json` maps every definition to the lines it models, and names for each property a broken
variant of a definition (`Broken` in the modules) that makes TLC find the property violated.
