----------------------------- MODULE OutputFile -----------------------------
(***************************************************************************)
(* The two output files of a run: main loads the schema, CreateInterface   *)
(* and CreateImplementation each open a file, write classes inside         *)
(* namespace blocks and close it.  A block is an NSFile on the C++ stack:  *)
(* Begin writes its opening line once, the destructor its closing brace,   *)
(* and neither writes anything for an empty name.  Which class is written  *)
(* when is module Generation's: here the turn of a namespace writes any    *)
(* number of classes.                                                      *)
(***************************************************************************)
EXTENDS Naturals, Sequences, FiniteSets

CONSTANTS Blocks,     \* C++ names of the schema's namespaces
          NoName,     \* the empty name
          Globals,    \* the values of -namespace, NoName for none
          MaxTurns    \* bound: namespace turns in one file

VARIABLES
  global,     \* Application::Namespace()
  writable,   \* whether fopen can write each file
  deletable,  \* whether unlink can delete each file
  disk,       \* what stands in the output directory under each name
  step,       \* where main is
  file,       \* the file main is at
  nsfiles,    \* the NSFile objects alive, outermost first
  text,       \* the names of the blocks the written text leaves open
  turns,      \* namespace turns begun in this file
  late        \* something was written to the FILE after fclose

vars == <<global, writable, deletable, disk, step, file, nsfiles, text, turns, late>>

env == <<global, writable, deletable>>

Files == {"h", "cc"}

-----------------------------------------------------------------------------
NSFile(ns) == [ns |-> ns, start |-> FALSE]

Inner == nsfiles[Len(nsfiles)]

\* NSFile::Begin of the innermost object.
Begin ==
  /\ nsfiles' = [nsfiles EXCEPT ![Len(nsfiles)].start = TRUE]
  /\ text' = IF ~Inner.start /\ Inner.ns # NoName THEN Append(text, Inner.ns) ELSE text

\* NSFile::~NSFile of the innermost object, its brace closing the innermost
\* open block.
Closes == Inner.start /\ Inner.ns # NoName

Destroyed == SubSeq(nsfiles, 1, Len(nsfiles) - 1)

WithoutLast(s) == SubSeq(s, 1, Len(s) - 1)

Init ==
  /\ global \in Globals
  /\ writable \in [Files -> BOOLEAN] /\ deletable \in [Files -> BOOLEAN]
  /\ disk \in [Files -> {"absent", "old"}]
  /\ step = "load" /\ file = "h"
  /\ nsfiles = << >> /\ text = << >> /\ turns = 0
  /\ late = FALSE

LoadFails ==
  /\ step = "load"
  /\ step' = "failed"
  /\ UNCHANGED <<env, disk, file, nsfiles, text, turns, late>>

Load ==
  /\ step = "load"
  /\ step' = "open"
  /\ UNCHANGED <<env, disk, file, nsfiles, text, turns, late>>

\* myfopen: unlink, whose result is not looked at, then fopen.  In both
\* functions the global NSFile begins at once.
Open ==
  /\ step = "open" /\ writable[file]
  /\ disk' = [disk EXCEPT ![file] = "begun"]
  /\ step' = "write"
  /\ nsfiles' = <<[NSFile(global) EXCEPT !.start = TRUE]>>
  /\ text' = IF global # NoName THEN <<global>> ELSE << >>
  /\ turns' = 0
  /\ UNCHANGED <<env, file, late>>

\* Broken: the file is not deleted first.
OpenFailsKeeping ==
  /\ step = "open" /\ ~writable[file]
  /\ step' = "failed"
  /\ UNCHANGED <<env, disk, file, nsfiles, text, turns, late>>

OpenFails ==
  /\ step = "open" /\ ~writable[file]
  /\ disk' = [disk EXCEPT ![file] = IF deletable[file] THEN "absent" ELSE @]
  /\ step' = "failed"
  /\ UNCHANGED <<env, file, nsfiles, text, turns, late>>

\* The body of a loop over namespaces declares an NSFile; that of the
\* implementation begins at once, those of the interface with a class.
StartTurn(ns) ==
  /\ step = "write" /\ Len(nsfiles) = 1 /\ turns < MaxTurns
  /\ nsfiles' = Append(nsfiles, [NSFile(ns) EXCEPT !.start = (file = "cc")])
  /\ text' = IF file = "cc" /\ ns # NoName THEN Append(text, ns) ELSE text
  /\ turns' = turns + 1
  /\ UNCHANGED <<env, disk, step, file, late>>

\* Broken: the block is opened once more for every class.
WriteClassReopening ==
  /\ step = "write" /\ Len(nsfiles) = 2
  /\ nsfiles' = [nsfiles EXCEPT ![Len(nsfiles)].start = TRUE]
  /\ text' = IF Inner.ns # NoName THEN Append(text, Inner.ns) ELSE text
  /\ UNCHANGED <<env, disk, step, file, turns, late>>

\* A simpleType or a class of the turn's namespace.
WriteClass ==
  /\ step = "write" /\ Len(nsfiles) = 2
  /\ Begin
  /\ UNCHANGED <<env, disk, step, file, turns, late>>

EndTurn ==
  /\ step = "write" /\ Len(nsfiles) = 2
  /\ text' = IF Closes THEN WithoutLast(text) ELSE text
  /\ nsfiles' = Destroyed
  /\ UNCHANGED <<env, disk, step, file, turns, late>>

\* Broken: the destructor writes no brace.
EndScopeSilently ==
  /\ step = "write" /\ Len(nsfiles) = 1 /\ file = "h"
  /\ nsfiles' = Destroyed
  /\ UNCHANGED <<env, disk, step, file, text, turns, late>>

\* The inner scope of CreateInterface ends before fclose.
EndScope ==
  /\ step = "write" /\ Len(nsfiles) = 1 /\ file = "h"
  /\ text' = IF Closes THEN WithoutLast(text) ELSE text
  /\ nsfiles' = Destroyed
  /\ UNCHANGED <<env, disk, step, file, turns, late>>

Close ==
  /\ step = "write" /\ Len(nsfiles) = (IF file = "h" THEN 0 ELSE 1)
  /\ disk' = [disk EXCEPT ![file] = IF text = << >> THEN "complete" ELSE "unclosed"]
  /\ step' = "closed"
  /\ UNCHANGED <<env, file, nsfiles, text, turns, late>>

\* CreateInterface returns, and main calls CreateImplementation.
ReturnFromInterface ==
  /\ step = "closed" /\ file = "h"
  /\ file' = "cc"
  /\ step' = "open"
  /\ UNCHANGED <<env, disk, nsfiles, text, turns, late>>

\* CreateImplementation returns: its global NSFile is destroyed, after
\* fclose, and main ends.
ReturnFromImplementation ==
  /\ step = "closed" /\ file = "cc"
  /\ late' = Closes
  /\ nsfiles' = Destroyed
  /\ step' = "succeeded"
  /\ UNCHANGED <<env, disk, file, text, turns>>

Next ==
  \/ LoadFails \/ Load \/ Open \/ OpenFails
  \/ (\E ns \in Blocks \cup {NoName} : StartTurn(ns))
  \/ WriteClass \/ EndTurn \/ EndScope \/ Close
  \/ ReturnFromInterface \/ ReturnFromImplementation

SafeSpec == Init /\ [][Next]_vars

\* main is one thread; a turn ends, as a namespace has finitely many types.
Spec == SafeSpec /\ WF_vars(Next) /\ WF_vars(EndTurn)

-----------------------------------------------------------------------------
\* At most two NSFile objects are alive, and every open block has a name.
TypeOK ==
  /\ global \in Globals
  /\ writable \in [Files -> BOOLEAN] /\ deletable \in [Files -> BOOLEAN]
  /\ disk \in [Files -> {"absent", "old", "begun", "complete", "unclosed"}]
  /\ step \in {"load", "open", "write", "closed", "failed", "succeeded"}
  /\ file \in Files
  /\ nsfiles \in Seq([ns : Blocks \cup {NoName, global}, start : BOOLEAN])
  /\ Len(nsfiles) <= 2
  /\ text \in Seq(Blocks \cup {global})
  /\ turns \in 0..MaxTurns
  /\ late \in BOOLEAN

\* While a file is written, the blocks its text leaves open are those of the
\* NSFile objects alive that have begun, in the order of their nesting, so
\* each class stands in the block of its namespace and nothing else.
BlocksMatchScopes ==
  step = "write"
    => LET Begun == {k \in DOMAIN nsfiles : nsfiles[k].start /\ nsfiles[k].ns # NoName}
       IN /\ Len(text) = Cardinality(Begun)
          /\ \A k \in Begun : text[Cardinality(Begun \cap 1..k)] = nsfiles[k].ns

\* A run that reports success leaves both files complete, every block closed,
\* and wrote nothing after fclose, when no global namespace is asked for.
SuccessIsComplete ==
  step = "succeeded" /\ global = NoName
    => ~late /\ \A f \in Files : disk[f] = "complete"

\* A header is always closed with its blocks, global namespace or not.
HeaderNeverUnclosed == disk["h"] # "unclosed"

\* A failed run never leaves an old implementation beside a new header that
\* could be mistaken for its pair, unless the old file could not be deleted.
NoStaleImplementation ==
  step = "failed" /\ disk["h"] = "complete" /\ disk["cc"] = "old" => ~deletable["cc"]

\* main ends.
Termination == <>(step \in {"failed", "succeeded"})

\* application.cc: "-namespace <ns> Define a global namespace".  A successful
\* run would have closed that namespace in both files.
GlobalNamespaceClosed == step = "succeeded" => \A f \in Files : disk[f] = "complete"
=============================================================================
