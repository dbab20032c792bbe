----------------------------- MODULE WsdlQueries -----------------------------
(***************************************************************************)
(* What class Xsd answers about a WSDL document: ports, operations and     *)
(* messages, and GetMessageParameters, which follows the type of a message *)
(* from node to node to the parameters it stands for.                      *)
(***************************************************************************)
EXTENDS SchemaLookup, Functions, Concatenation

CONSTANTS Wsdls,    \* documents
          MaxPath   \* bound: how long a path is followed

\* What Wsdls must be: trees, numbered in document order, so that the children
\* of a node come before what follows it, with at most one types, below the
\* root, and the registry holds nodes.
WellFormed ==
  \A d \in Wsdls :
    /\ IsTree(d) /\ Root \in NodesOf(d)
    /\ \A k \in NodesOf(d) : d.up[k] = Nil <=> k = Root
    /\ \A j, k \in NodesOf(d) : d.up[k] < d.up[j] /\ d.up[j] < k => j < k
    /\ \A j, k \in NodesOf(d) :
         d.name[j] = "types" /\ d.name[k] = "types" => j = k /\ d.up[k] = Root
    /\ \A t \in DOMAIN d.types : d.types[t] \in NodesOf(d)

VARIABLES doc,      \* the document: only read
          message,  \* the name GetMessageParameters is asked about
          phase,    \* "new", "parts", "walk", "lookup" or "done"
          part,     \* the cursor over the parts
          vec,      \* parts with a type, in the end the parameters
          element,  \* the element of the last part that names one
          el,       \* the node that is looked at
          path,     \* the names passed
          sought,   \* what GetElement looks up
          at        \* the schema it has come to

vars == <<doc, message, phase, part, vec, element, el, path, sought, at>>

-----------------------------------------------------------------------------
(* Queries answered in one call.                                           *)

GetPorts(d) ==
  LET ports == Loop(d, GetFirstElement(d, Root, "service"), "port")
  IN [i \in DOMAIN ports |-> Name(d, ports[i])]

\* The operations of the portTypes that portname selects.
Operations(d, portname) ==
  LET ports == Loop(d, Root, "portType")
      Of(port) == IF portname \in {Name(d, port), ""} THEN Loop(d, port, "operation") ELSE << >>
  IN Concatenation([i \in DOMAIN ports |-> Of(ports[i])])

GetOperations(d, portname) ==
  LET ops == Operations(d, portname) IN [i \in DOMAIN ops |-> Name(d, ops[i])]

\* The first operation that fits of the portTypes, or bindings, that portname
\* selects.
FirstOp(d, kind, portname, Fits(_)) ==
  LET Op(port) == FirstThat(d, port, "operation", Fits)
  IN Op(FirstThat(d, Root, kind, LAMBDA x : portname \in {Name(d, x), ""} /\ Op(x) # Nil))

\* GetPortTypeOp and GetBindingOp, for kind "portType" and "binding".
GetOp(d, kind, portname, op) ==
  FirstOp(d, kind, portname, LAMBDA x : Name(d, x) = op)

\* Broken: the first operation of the name answers, with or without the type.
MessageOfFirstOp(d, portname, op, type) ==
  GetProperty(d, GetFirstElement(d, GetOp(d, "portType", portname, op), type), "message")

\* type is "input" or "output".
GetMessageForOp(d, portname, op, type) ==
  LET first == FirstOp(d, "portType", portname,
                       LAMBDA x : Name(d, x) = op /\ GetFirstElement(d, x, type) # Nil)
  IN GetProperty(d, GetFirstElement(d, first, type), "message")

GetMessage(d, msgname) ==
  FirstThat(d, Root, "message", LAMBDA x : Name(d, x) = Type(msgname))

\* Class ComplexType on a node: its elements, in a sequence or else in an all.
Members(d, x) ==
  LET start == Start(d, x)
      Group == IF GetFirstElement(d, start, "sequence") # Nil THEN "sequence" ELSE "all"
  IN Loop(d, GetFirstElement(d, start, Group), "element")

\* NumberOfMembers() == 1 and GetRef(ref).
IsSingleRef(d, x) == Len(Members(d, x)) = 1 /\ PropertyExists(d, Members(d, x)[1], "ref")

\* The type an attribute of x names, prefix resolved at x.
TypeNamedBy(d, x, p) ==
  LET type == GetProperty(d, x, p)
  IN FindComplexType(d, Href(GetNsMap(d, x), NS(type)), type)
-----------------------------------------------------------------------------
(* GetMessageParameters, a turn of a loop at a time.                       *)

Init ==
  /\ doc \in Wsdls
  /\ message \in {GetProperty(doc, x, "name") : x \in {k \in NodesOf(doc) : doc.name[k] = "message"}}
  /\ phase = "new" /\ part = Nil /\ vec = << >> /\ element = << >>
  /\ el = Nil /\ path = << >> /\ sought = << >> /\ at = Nil

Begin ==
  /\ phase = "new"
  /\ phase' = "parts"
  /\ part' = GetFirstElement(doc, GetMessage(doc, message), "part")
  /\ UNCHANGED <<doc, message, vec, element, el, path, sought, at>>

ReadPart ==
  /\ phase = "parts" /\ part # Nil
  /\ vec' = IF PropertyExists(doc, part, "type") THEN Append(vec, part) ELSE vec
  /\ element' = IF PropertyExists(doc, part, "element")
                THEN GetProperty(doc, part, "element") ELSE element
  /\ part' = GetNextElement(doc, part, "part")
  /\ UNCHANGED <<doc, message, phase, el, path, sought, at>>

\* GetElement(name): on to the schema of the prefix, as the root declares it,
\* or to no element.
LookUp(name) ==
  LET schema == GetSchema(doc, Href(GetNsMap(doc, Root), NS(name)))
  IN /\ at' = schema
     /\ sought' = name
     /\ IF schema = Nil THEN phase' = "walk" /\ el' = Nil ELSE phase' = "lookup" /\ el' = el

\* The walk begins at the one part with a type, or at the root, unless a part
\* has an element.
Choose ==
  /\ phase = "parts" /\ part = Nil
  /\ vec' = IF Len(vec) = 1 THEN << >> ELSE vec
  /\ IF element # << >> THEN LookUp(element)
     ELSE /\ el' = IF Len(vec) = 1 THEN TypeNamedBy(doc, vec[1], "type") ELSE Root
          /\ phase' = "walk"
          /\ UNCHANGED <<sought, at>>
  /\ UNCHANGED <<doc, message, part, element, path>>

\* GetElement(node, name): the first import that names a schema of the
\* document answers alone, whether it has the element or not.
SearchImport ==
  /\ phase = "lookup" /\ Imported(doc, at) # Nil
  /\ at' = Imported(doc, at)
  /\ UNCHANGED <<doc, message, phase, part, vec, element, el, path, sought>>

SearchElements ==
  /\ phase = "lookup" /\ Imported(doc, at) = Nil
  /\ el' = ElementBelow(doc, at, sought)
  /\ phase' = "walk"
  /\ UNCHANGED <<doc, message, part, vec, element, path, sought, at>>

\* The turn passes el.
Pass ==
  /\ phase = "walk" /\ el # Nil
  /\ Len(path) < MaxPath
  /\ path' = IF PropertyExists(doc, el, "name") THEN Append(path, Name(doc, el)) ELSE path
  /\ UNCHANGED <<doc, message, part, element>>

IsElement == el # Nil /\ doc.name[el] = "element"

\* Broken: continue without a new el.
FollowTypeInPlace ==
  /\ Pass /\ IsElement /\ ~PropertyExists(doc, el, "ref") /\ PropertyExists(doc, el, "type")
  /\ UNCHANGED <<phase, vec, el, sought, at>>

FollowRef ==
  /\ Pass /\ IsElement /\ PropertyExists(doc, el, "ref")
  /\ LookUp(GetProperty(doc, el, "ref"))
  /\ UNCHANGED vec

FollowType ==
  /\ Pass /\ IsElement /\ ~PropertyExists(doc, el, "ref") /\ PropertyExists(doc, el, "type")
  /\ el' = TypeNamedBy(doc, el, "type")
  /\ UNCHANGED <<phase, vec, sought, at>>

\* Broken: the members are the parameters, a single reference too.
UnfoldSingleRef(type) ==
  /\ phase' = "done" /\ vec' = Members(doc, type) /\ UNCHANGED <<el, sought, at>>

\* A complex type: on to the element that its only member refers to, or to
\* the end with its members.
Unfold(type) ==
  IF IsSingleRef(doc, type)
  THEN LookUp(GetProperty(doc, Members(doc, type)[1], "ref")) /\ UNCHANGED vec
  ELSE phase' = "done" /\ vec' = Members(doc, type) /\ UNCHANGED <<el, sought, at>>

UnfoldElement ==
  /\ Pass /\ IsElement
  /\ ~PropertyExists(doc, el, "ref") /\ ~PropertyExists(doc, el, "type")
  /\ LET anonymous == GetFirstElement(doc, el, "complexType")
     IN IF anonymous # Nil THEN Unfold(anonymous)
        ELSE phase' = "done" /\ UNCHANGED <<vec, el, sought, at>>

UnfoldType == Pass /\ el # Nil /\ doc.name[el] = "complexType" /\ Unfold(el)

\* A node of another name: the loop goes round without moving.
Circle ==
  /\ Pass /\ el # Nil /\ doc.name[el] \notin {"element", "complexType"}
  /\ UNCHANGED <<phase, vec, el, sought, at>>

Leave ==
  /\ phase = "walk" /\ el = Nil
  /\ phase' = "done"
  /\ UNCHANGED <<doc, message, part, vec, element, el, path, sought, at>>

Next ==
  \/ Begin \/ ReadPart \/ Choose
  \/ SearchImport \/ SearchElements
  \/ FollowRef \/ FollowType \/ UnfoldElement \/ UnfoldType \/ Circle \/ Leave

Spec == Init /\ [][Next]_vars /\ WF_vars(Next)

-----------------------------------------------------------------------------
NodeOrNil == NodesOf(doc) \cup {Nil}

TypeOK ==
  /\ phase \in {"new", "parts", "walk", "lookup", "done"}
  /\ {part, el, at} \subseteq NodeOrNil
  /\ vec \in Seq(NodesOf(doc))
  /\ Len(path) <= MaxPath
  /\ {Len(message), Len(element), Len(sought)} \subseteq 0..2

Kind(kind) == {x \in NodesOf(doc) : doc.name[x] = kind}

Called(x, name) == Name(doc, x) = name

\* The operations called op below the portTypes or bindings called portname.
OpsCalled(kind, portname, op) ==
  {x \in Kind("operation") :
     LET port == doc.up[x]
     IN /\ port \in Kind(kind) /\ doc.up[port] = Root
        /\ portname = "" \/ Called(port, portname)
        /\ Called(x, op)}

\* The queries about operations agree with each other and the document, for a
\* name that several portTypes have and for overloaded operations: the message
\* for input or output is that of the first operation that has one.
OperationsAnswered ==
  phase = "new" =>
    \A portname \in {Name(doc, x) : x \in Kind("portType")} \cup {""},
       op \in {Name(doc, x) : x \in Kind("operation")} :
      LET ops == OpsCalled("portType", portname, op)
      IN /\ op \in Range(GetOperations(doc, portname)) <=> ops # {}
         /\ GetOp(doc, "portType", portname, op) = Earliest(ops)
         /\ GetOp(doc, "binding", portname, op) = Earliest(OpsCalled("binding", portname, op))
         /\ \A type \in {"input", "output"} :
              LET typed == {x \in Kind(type) : doc.up[x] \in ops}
              IN GetMessageForOp(doc, portname, op, type)
                   = GetProperty(doc, Earliest({x \in typed :
                       \A y \in typed : doc.up[x] <= doc.up[y]}), "message")

\* The schemas of the document for a namespace.
SchemasOf(href) ==
  {x \in Kind("schema") : /\ doc.up[x] \in Kind("types") \cup {Nil}
                          /\ Type(GetProperty(doc, x, "targetNamespace")) = href}

\* Where no schema imports one that stands in the same document, GetElement
\* finds the element of the namespace its prefix names at the root.  An import
\* that does name one hides the elements of the schema it stands in.
ElementsOfTheirNamespace ==
  [][phase = "lookup" /\ phase' = "walk" =>
       LET home == Earliest(SchemasOf(Href(GetNsMap(doc, Root), NS(sought))))
           Below(schema) == Earliest({x \in Kind("element") :
                                        doc.up[x] = schema /\ Called(x, Type(sought))})
       IN IF Imported(doc, home) = Nil THEN el' = Below(home)
          ELSE \E leaf \in Kind("schema") : Imported(doc, leaf) = Nil /\ el' = Below(leaf)]_vars

\* The parameters are parts of the message, or all members of one complex
\* type, and never the single reference that stands for another element.
ParametersUnwrapped ==
  phase = "done" =>
    \/ \A i \in DOMAIN vec : vec[i] \in Kind("part") /\ Called(doc.up[vec[i]], Type(message))
    \/ \E type \in Kind("complexType") : vec = Members(doc, type) /\ ~IsSingleRef(doc, type)

\* No nodes of a set lead to each other in a circle.
NoCircle(nodes, Succ(_)) ==
  LET leads == [x \in nodes |-> Succ(x)]
  IN \A circle \in SUBSET {x \in nodes : leads[x] # {}} :
       circle # {} => \E x \in circle : leads[x] \cap circle = {}

ElementsCalled(name) == {x \in Kind("element") : Called(x, Type(name))}

TypesCalled(name) == {doc.types[k] : k \in {q \in DOMAIN doc.types : q[2] = Type(name)}}

\* What a node may lead to, by local names alone.
LeadsTo(x) ==
  LET Single(type) == IF type # Nil /\ IsSingleRef(doc, type)
                      THEN ElementsCalled(GetProperty(doc, Members(doc, type)[1], "ref"))
                      ELSE {}
  IN CASE PropertyExists(doc, x, "ref") -> ElementsCalled(GetProperty(doc, x, "ref"))
       [] ~PropertyExists(doc, x, "ref") /\ PropertyExists(doc, x, "type") ->
            TypesCalled(GetProperty(doc, x, "type"))
       [] ~PropertyExists(doc, x, "ref") /\ ~PropertyExists(doc, x, "type") ->
            Single(x) \cup Single(GetFirstElement(doc, x, "complexType"))

\* The message leads somewhere, no element or type of the schemas leads back
\* to itself, nor to a node GetMessageParameters has no case for, and no schema
\* imports itself through others.
Settled ==
  LET parts  == {x \in Kind("part") : doc.up[x] = GetMessage(doc, message)}
      With(p) == {x \in parts : PropertyExists(doc, x, p)}
      Targets(x) == {Imported(doc, x)} \ {Nil}
  IN /\ With("element") # {} \/ Cardinality(With("type")) = 1
     /\ \A k \in DOMAIN doc.types : doc.types[k] \in Kind("complexType")
     /\ NoCircle({x \in Kind("element") \cup Kind("complexType") : doc.up[x] \in Kind("schema")},
                 LeadsTo)
     /\ NoCircle(Kind("schema"), Targets)

\* GetMessageParameters returns, for messages and schemas without circles; it
\* remembers nothing of its way, so that a circle holds it forever.
WalkEnds == phase = "new" /\ Settled => <>(phase = "done")
=============================================================================
