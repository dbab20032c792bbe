------------------------------ MODULE Generation ------------------------------
(***************************************************************************)
(* The two passes of the code generator over the registry of types, one    *)
(* list entry at a time: Xsd::CreateInterface writes the class definitions *)
(* to the .h file, sweeping the types again and again until a sweep writes *)
(* nothing or postpones nothing; Xsd::CreateImplementation then writes the *)
(* methods of every registered type to the .cc file.  Opening, namespace   *)
(* blocks and closing of the two files are module OutputFile's.            *)
(***************************************************************************)
EXTENDS Schema, FiniteSets

CONSTANT Schemas

ASSUME SchemaAssumption == \A s \in Schemas : WellFormed(s)

VARIABLES
  schema,      \* complexType_, complexType_Map_ and parent_: only read
  phase,       \* "interface", "implementation", then "done"
  pos,         \* the list entry the nested for loops have reached
  repeat, gen, \* the locals of the do-while loop
  generated,   \* ComplexType::b_generated_: local names, of any namespace
  header,      \* the top-level classes defined in the .h file, in order
  body,        \* the types whose methods are in the .cc file, in order
  pass         \* history: how many sweeps the do-while loop has begun

vars == <<schema, phase, pos, repeat, gen, generated, header, body, pass>>

-----------------------------------------------------------------------------
IsGenerated(t) == t.name \in generated

SetGenerated(t) == generated' = generated \cup {t.name}

AtEntry(p) == phase = p /\ pos <= Len(schema.types)

AtEnd(p) == phase = p /\ pos > Len(schema.types)

\* Broken: the list has been filled at its front.
CurrentFromEnd == schema.types[Len(schema.types) + 1 - pos]

Current == schema.types[pos]

Init ==
  /\ schema \in Schemas
  /\ phase = "interface" /\ pos = 1 /\ pass = 1
  /\ repeat = FALSE /\ gen = FALSE
  /\ generated = {}
  /\ header = << >> /\ body = << >>

\* Broken: the iterator is advanced only past nested types.
SkipInPlace ==
  /\ AtEntry("interface")
  /\ schema.parent[Current] # NoParent \/ IsGenerated(Current)
  /\ pos' = IF IsGenerated(Current) THEN pos ELSE pos + 1
  /\ UNCHANGED <<schema, phase, repeat, gen, generated, header, body, pass>>

\* A class nested in another one is written with it, and a local name that
\* is written already is not written again.
Skip ==
  /\ AtEntry("interface")
  /\ schema.parent[Current] # NoParent \/ IsGenerated(Current)
  /\ pos' = pos + 1
  /\ UNCHANGED <<schema, phase, repeat, gen, generated, header, body, pass>>

\* Broken variants of Emit: nested classes are written at the top level too;
\* a class is written each time it is listed; gen is not set.
EmitNested ==
  /\ AtEntry("interface")
  /\ ~IsGenerated(Current)
  /\ OkToGenerate(schema, generated, Current)
  /\ header' = Append(header, Current)
  /\ SetGenerated(Current)
  /\ gen' = TRUE
  /\ pos' = pos + 1
  /\ UNCHANGED <<schema, phase, repeat, body, pass>>

EmitAgain ==
  /\ AtEntry("interface")
  /\ schema.parent[Current] = NoParent
  /\ OkToGenerate(schema, generated, Current)
  /\ header' = Append(header, Current)
  /\ SetGenerated(Current)
  /\ gen' = TRUE
  /\ pos' = pos + 1
  /\ UNCHANGED <<schema, phase, repeat, body, pass>>

EmitSilently ==
  /\ AtEntry("interface")
  /\ schema.parent[Current] = NoParent /\ ~IsGenerated(Current)
  /\ OkToGenerate(schema, generated, Current)
  /\ header' = Append(header, Current)
  /\ SetGenerated(Current)
  /\ pos' = pos + 1
  /\ UNCHANGED <<schema, phase, repeat, gen, body, pass>>

\* CreateInterface of the type, its nested classes included, and SetGenerated.
Emit ==
  /\ AtEntry("interface")
  /\ schema.parent[Current] = NoParent /\ ~IsGenerated(Current)
  /\ OkToGenerate(schema, generated, Current)
  /\ header' = Append(header, Current)
  /\ SetGenerated(Current)
  /\ gen' = TRUE
  /\ pos' = pos + 1
  /\ UNCHANGED <<schema, phase, repeat, body, pass>>

\* Broken: repeat is not set.
PostponeSilently ==
  /\ AtEntry("interface")
  /\ schema.parent[Current] = NoParent /\ ~IsGenerated(Current)
  /\ ~OkToGenerate(schema, generated, Current)
  /\ pos' = pos + 1
  /\ UNCHANGED <<schema, phase, repeat, gen, generated, header, body, pass>>

Postpone ==
  /\ AtEntry("interface")
  /\ schema.parent[Current] = NoParent /\ ~IsGenerated(Current)
  /\ ~OkToGenerate(schema, generated, Current)
  /\ repeat' = TRUE
  /\ pos' = pos + 1
  /\ UNCHANGED <<schema, phase, gen, generated, header, body, pass>>

\* Broken: gen keeps its value from the last sweep.
NextPassKeepsGen ==
  /\ AtEnd("interface")
  /\ repeat /\ gen
  /\ repeat' = FALSE
  /\ pos' = 1
  /\ pass' = pass + 1
  /\ UNCHANGED <<schema, phase, gen, generated, header, body>>

NextPass ==
  /\ AtEnd("interface")
  /\ repeat /\ gen
  /\ repeat' = FALSE /\ gen' = FALSE
  /\ pos' = 1
  /\ pass' = pass + 1
  /\ UNCHANGED <<schema, phase, generated, header, body>>

FinishInterface ==
  /\ AtEnd("interface")
  /\ ~(repeat /\ gen)
  /\ phase' = "implementation"
  /\ pos' = 1
  /\ UNCHANGED <<schema, repeat, gen, generated, header, body, pass>>

\* CreateImplementation asks neither IsGenerated nor for a parent.
Implement ==
  /\ AtEntry("implementation")
  /\ body' = Append(body, Current)
  /\ pos' = pos + 1
  /\ UNCHANGED <<schema, phase, repeat, gen, generated, header, pass>>

FinishImplementation ==
  /\ AtEnd("implementation")
  /\ phase' = "done"
  /\ UNCHANGED <<schema, pos, repeat, gen, generated, header, body, pass>>

Next ==
  \/ Skip \/ Emit \/ Postpone \/ NextPass \/ FinishInterface
  \/ Implement \/ FinishImplementation

SafeSpec == Init /\ [][Next]_vars

\* The generator is one thread of straight-line code: it never rests while
\* a step is possible.
Spec == SafeSpec /\ WF_vars(Next)

-----------------------------------------------------------------------------
Written == {header[i] : i \in DOMAIN header}

\* The classes the .h file defines: CreateInterface of a class writes those
\* nested in it inside it, to any depth.
Defined ==
  {t \in Listed(schema) :
     \A S \in SUBSET Listed(schema) :
        (Written \subseteq S /\ \A u \in S : NestedIn(schema, u) \subseteq S) => t \in S}

Implemented == {body[i] : i \in DOMAIN body}

TypeOK ==
  /\ schema \in SchemaType
  /\ phase \in {"interface", "implementation", "done"}
  /\ pos \in 1..(Len(schema.types) + 1)
  /\ repeat \in BOOLEAN /\ gen \in BOOLEAN
  /\ generated \in SUBSET Names
  /\ header \in Seq(TopLevel(schema))
  /\ body \in Seq(Listed(schema))
  /\ pass \in Nat \ {0}

\* C++ needs a class before a member of its type: each member class of a
\* written class is nested in it, or a class of its local name stands before.
\* The code is OkToGenerate and the order of Emit's CreateInterface calls.
MembersFirst ==
  \A i \in DOMAIN header :
     IF schema.item[header[i]] # NoItem
     THEN \E j \in 1..(i - 1) : header[j].name = schema.item[header[i]]
     ELSE \A m \in schema.members[header[i]] :
            \/ schema.parent[[ns |-> header[i].ns, name |-> m.name]] = header[i].name
            \/ \E j \in 1..(i - 1) : header[j].name = m.name

\* What C++ needs before a class beside its members: its base, and the members
\* of the classes nested in it.
AlsoNeeded(t) ==
  schema.base[t] \cup
  UNION {schema.members[u] \ (NestedIn(schema, t) \cup NestedIn(schema, u)) : u \in NestedIn(schema, t)}

Before(t, u) ==
  \E k \in DOMAIN schema.types :
    schema.types[k] = t /\ \A l \in 1..k : schema.types[l] # u

\* Classes that are registered behind all they wait for, which the first sweep
\* writes.
InOrder(S) ==
  \A t \in S : /\ schema.item[t] = NoItem
              /\ \A m \in schema.members[t] \ NestedIn(schema, t) : m \in S /\ Before(m, t)

\* OkToGenerate waits for none of these: the order of registration has to do.
\* A class that stands in order, and before the one that needs it, is before it
\* in the header too, however many sweeps the latter takes.
NeededFirst ==
  NoHomonyms(schema) =>
    \A i \in DOMAIN header : \A n \in AlsoNeeded(header[i]) :
      (Before(n, header[i]) /\ \E S \in SUBSET TopLevel(schema) : n \in S /\ InOrder(S))
        => \E j \in 1..(i - 1) : header[j] = n

\* The result does not depend on the order of the types: when the do-while
\* loop is left, exactly the derivable names are written.
LeastFixpoint == phase # "interface" => generated = Derivable(schema)

\* The header and the implementation agree, and nothing is dropped, for a
\* schema whose types can be ordered and whose local names are distinct:
\* every registered type has its methods and its class.
WholeWhenOrderable ==
  phase = "done" /\ Orderable(schema) /\ NoHomonyms(schema)
    => /\ Implemented = Listed(schema)
       /\ Implemented \subseteq Defined

\* The do-while loop makes progress in every sweep but the last, so it sweeps
\* at most once more than there are names to write.
SweepsBounded == pass <= Cardinality(generated) + 1

\* The generator ends, whether or not the types can be ordered.
Termination == <>(phase = "done")

\* The header is written as EmissionOrder promises.
Abstract == INSTANCE EmissionOrder WITH stopped <- phase # "interface"

AbstractSpec == Abstract!Spec

\* README.md: the generator converts a .xsd file to C++ classes.  Every type
\* it writes methods for would have a class.
EveryImplementedTypeDefined == phase = "done" => Implemented \subseteq Defined

\* xsd.h: names are mapped in each namespace.  A type that could be written
\* would not be left out because another namespace has its local name.
NamespacesApart ==
  phase = "done"
    => \A t \in TopLevel(schema) :
          t.name \in generated /\ OkToGenerate(schema, generated, t) => t \in Written
=============================================================================
