------------------------------ MODULE Registry ------------------------------
(***************************************************************************)
(* How class Xsd fills its registry from one schema document: ParseTypes,  *)
(* the recursive ParseElements and ParseComplexType, with the C++ call     *)
(* stack made explicit, one loop iteration at a time.  One namespace is    *)
(* enough: a document has one targetNamespace (not empty here) and every   *)
(* map of the registry is keyed by it first.                               *)
(*                                                                         *)
(* A document is a record:                                                 *)
(*   types    the global complexTypes, [name, node]                        *)
(*   simple   the names of the global simpleTypes                          *)
(*   content  what stands in the sequence or all of a complexType node,    *)
(*            and the global elements, those of Root                       *)
(*   attrs    the names of a node's attributes with an anonymous           *)
(*            simpleType                                                   *)
(* An element's type is "typed": named by its type attribute, "complex":   *)
(* an anonymous complexType, node, or "simple": an anonymous simpleType.   *)
(***************************************************************************)
EXTENDS Schema, FiniteSets

CONSTANTS Ns,         \* the targetNamespace
          Nodes,      \* complexType nodes
          Root,       \* the schema node
          NoNode,
          Documents

Elements == [name : Names, kind : {"typed"}, type : Names]
       \cup [name : Names, kind : {"complex"}, node : Nodes]
       \cup [name : Names, kind : {"simple"}]

DocumentType == [types   : Seq([name : Names, node : Nodes]),
                 simple  : Seq(Names),
                 content : [Nodes \cup {Root} -> Seq(Elements)],
                 attrs   : [Nodes \cup {Root} -> Seq(Names)]]

Values(s) == {s[i] : i \in DOMAIN s}

Owners == Nodes \cup {Root}

\* What a document declares, read off its tree.
AnonymousIn(d) ==
  {x \in [name : Names, node : Nodes, owner : Owners] :
     \E e \in Values(d.content[x.owner]) :
        e.kind = "complex" /\ e.name = x.name /\ e.node = x.node}

DeclaredIn(d) ==
  AnonymousIn(d) \cup {[name |-> t.name, node |-> t.node, owner |-> Root] : t \in Values(d.types)}

\* XML: a node stands in one place, nothing stands in a node that stands in
\* no place, and no node stands in itself, at any depth.
IsTree(d) ==
  /\ \A x, y \in DeclaredIn(d) : x.node = y.node => x = y
  /\ \A n \in Nodes :
       \/ \E x \in DeclaredIn(d) : x.node = n
       \/ d.content[n] = << >> /\ d.attrs[n] = << >>
  /\ \A S \in SUBSET DeclaredIn(d) :
       S # {} => \E x \in S : \A y \in S : y.node # x.owner

ASSUME DocumentAssumption ==
  /\ Ns \in Namespaces
  /\ Root \notin Nodes /\ NoNode \notin Nodes
  /\ \A d \in Documents : d \in DocumentType /\ IsTree(d)

VARIABLES
  doc,      \* the document: only read
  next,     \* the global complexType ParseTypes has reached
  stack,    \* the activations of ParseElements and ParseComplexType
  list,     \* complexType_: names in the order they are pushed
  map,      \* complexType_Map_: name to node
  simples,  \* simpleType_
  parent,   \* parent_
  done

vars == <<doc, next, stack, list, map, simples, parent, done>>

-----------------------------------------------------------------------------
\* An activation of ParseComplexType, or of ParseElements for Root: the node
\* and its name, parent_class, who called, and the loops' cursors.
Frame(node, name, class, via) ==
  [node |-> node, name |-> name, class |-> class, via |-> via, elem |-> 1, attr |-> 1]

Frames == [node : Nodes \cup {Root}, name : Names \cup {NoParent},
           class : Names \cup {NoParent}, via : {"type", "element", "root"},
           elem : Nat \ {0}, attr : Nat \ {0}]

Top == stack[Len(stack)]

Popped == SubSeq(stack, 1, Len(stack) - 1)

\* The stack once a loop of its top activation has moved on.
PastElement == [stack EXCEPT ![Len(stack)] = [Top EXCEPT !.elem = @ + 1]]

PastAttribute == [stack EXCEPT ![Len(stack)] = [Top EXCEPT !.attr = @ + 1]]

AtElement(kind) ==
  /\ stack # << >>
  /\ Top.elem <= Len(doc.content[Top.node])
  /\ doc.content[Top.node][Top.elem].kind = kind

AtAttribute ==
  /\ stack # << >>
  /\ Top.elem > Len(doc.content[Top.node])
  /\ Top.attr <= Len(doc.attrs[Top.node])

Element == doc.content[Top.node][Top.elem]

\* The constructor of ComplexType walks the parents of the name (SetCType):
\* on a chain that does not end it never returns, and no step follows.
ChainReturns(name) ==
  ~ \E S \in SUBSET Names : name \in S /\ \A n \in S : parent[n] \in S

Init ==
  /\ doc \in Documents
  /\ next = 1
  /\ stack = << >>
  /\ list = << >> /\ simples = << >>
  /\ map = [n \in Names |-> NoNode]
  /\ parent = [n \in Names |-> NoParent]
  /\ done = FALSE

\* ParseTypes: the next global complexType.
EnterType ==
  /\ ~done /\ stack = << >>
  /\ next <= Len(doc.types)
  /\ LET t == doc.types[next] IN
       /\ ChainReturns(t.name)
       /\ list' = Append(list, t.name)
       /\ stack' = <<Frame(t.node, t.name, NoParent, "type")>>
  /\ next' = next + 1
  /\ UNCHANGED <<doc, map, simples, parent, done>>

\* Broken: the cursor of ParseTypes moves once more.
EnterRootPast ==
  /\ ~done /\ stack = << >>
  /\ next > Len(doc.types)
  /\ next' = next + 1
  /\ simples' = simples \o doc.simple
  /\ stack' = <<Frame(Root, NoParent, NoParent, "root")>>
  /\ UNCHANGED <<doc, list, map, parent, done>>

\* After the complexTypes ParseTypes lists the simpleTypes, and then comes
\* ParseElements(root, ns_href).
EnterRoot ==
  /\ ~done /\ stack = << >>
  /\ next > Len(doc.types)
  /\ simples' = simples \o doc.simple
  /\ stack' = <<Frame(Root, NoParent, NoParent, "root")>>
  /\ UNCHANGED <<doc, next, list, map, parent, done>>

\* Broken: the loop does not advance.
PassTypedAgain ==
  /\ AtElement("typed")
  /\ UNCHANGED vars

PassTyped ==
  /\ AtElement("typed")
  /\ stack' = PastElement
  /\ UNCHANGED <<doc, next, list, map, simples, parent, done>>

\* Broken: the name is not listed before the recursive call.
EnterElementUnlisted ==
  /\ AtElement("complex")
  /\ ChainReturns(Element.name)
  /\ stack' = Append(PastElement,
                     Frame(Element.node, Element.name, Top.name, "element"))
  /\ UNCHANGED <<doc, next, list, map, simples, parent, done>>

\* Broken: the element's own name is passed on as that of its class.
EnterElementInItself ==
  /\ AtElement("complex")
  /\ ChainReturns(Element.name)
  /\ list' = Append(list, Element.name)
  /\ stack' = Append(PastElement,
                     Frame(Element.node, Element.name, Element.name, "element"))
  /\ UNCHANGED <<doc, next, map, simples, parent, done>>

\* An element with an anonymous complexType: the name is listed before the
\* recursive call.
EnterElement ==
  /\ AtElement("complex")
  /\ ChainReturns(Element.name)
  /\ list' = Append(list, Element.name)
  /\ stack' = Append(PastElement,
                     Frame(Element.node, Element.name, Top.name, "element"))
  /\ UNCHANGED <<doc, next, map, simples, parent, done>>

\* Broken: the class is not recorded.
AddSimpleOutside ==
  /\ AtElement("simple")
  /\ simples' = Append(simples, Element.name)
  /\ stack' = PastElement
  /\ UNCHANGED <<doc, next, list, map, parent, done>>

AddSimple ==
  /\ AtElement("simple")
  /\ simples' = Append(simples, Element.name)
  /\ parent' = [parent EXCEPT ![Element.name] = Top.name]
  /\ stack' = PastElement
  /\ UNCHANGED <<doc, next, list, map, done>>

AddAttribute ==
  /\ AtAttribute
  /\ LET a == doc.attrs[Top.node][Top.attr] IN
       /\ simples' = Append(simples, a)
       /\ parent' = [parent EXCEPT ![a] = Top.name]
  /\ stack' = PastAttribute
  /\ UNCHANGED <<doc, next, list, map, done>>

AtReturn ==
  /\ stack # << >>
  /\ Top.elem > Len(doc.content[Top.node])
  /\ Top.attr > Len(doc.attrs[Top.node])

\* The map and, for an anonymous type, its parent are assigned after the
\* recursive call has returned.
LeaveType ==
  /\ AtReturn /\ Top.via = "type"
  /\ map' = [map EXCEPT ![Top.name] = Top.node]
  /\ stack' = Popped
  /\ UNCHANGED <<doc, next, list, simples, parent, done>>

LeaveElement ==
  /\ AtReturn /\ Top.via = "element"
  /\ map' = [map EXCEPT ![Top.name] = Top.node]
  /\ parent' = [parent EXCEPT ![Top.name] = Top.class]
  /\ stack' = Popped
  /\ UNCHANGED <<doc, next, list, simples, done>>

LeaveRoot ==
  /\ AtReturn /\ Top.via = "root"
  /\ done' = TRUE
  /\ stack' = Popped
  /\ UNCHANGED <<doc, next, list, map, simples, parent>>

Next ==
  \/ EnterType \/ EnterRoot \/ EnterElement
  \/ PassTyped \/ AddSimple \/ AddAttribute
  \/ LeaveType \/ LeaveElement \/ LeaveRoot

SafeSpec == Init /\ [][Next]_vars

\* The parser is one thread of straight-line code.
Spec == SafeSpec /\ WF_vars(Next)

-----------------------------------------------------------------------------
\* The registry as the generator reads it.
Resolved(n) ==
  {m \in Names :
     /\ map[n] # NoNode /\ map[m] # NoNode
     /\ \E e \in Values(doc.content[map[n]]) :
          \/ e.kind = "typed" /\ e.type = m
          \/ e.kind = "complex" /\ e.name = m}

\* These documents extend nothing.
AsSchema ==
  [types   |-> [i \in DOMAIN list |-> [ns |-> Ns, name |-> list[i]]],
   members |-> [t \in Types |->
                  IF t.ns = Ns THEN [ns : {Ns}, name : Resolved(t.name)] ELSE {}],
   base    |-> [t \in Types |-> {}],
   item    |-> [t \in Types |-> NoItem],
   parent  |-> [t \in Types |-> IF t.ns = Ns THEN parent[t.name] ELSE NoParent]]

-----------------------------------------------------------------------------
(* The document against the registry.                                       *)

Declared == DeclaredIn(doc)

NameOf(o) ==
  IF o = Root THEN NoParent ELSE (CHOOSE d \in Declared : d.node = o).name

\* The places where a type, complex or simple, is given the name n: in the
\* node o, and among the global types.
PlacesIn(o, n) ==
  {<<o, "element", i>> : i \in {j \in DOMAIN doc.content[o] :
      doc.content[o][j].kind # "typed" /\ doc.content[o][j].name = n}}
  \cup {<<o, "attribute", i>> : i \in {j \in DOMAIN doc.attrs[o] : doc.attrs[o][j] = n}}

GlobalPlaces(n) ==
  {<<Root, "type", i>> : i \in {j \in DOMAIN doc.types : doc.types[j].name = n}}
  \cup {<<Root, "simple", i>> : i \in {j \in DOMAIN doc.simple : doc.simple[j] = n}}

Places(n) == GlobalPlaces(n) \cup UNION {PlacesIn(o, n) : o \in Owners}

UniqueNames == \A n \in Names : \A p, q \in Places(n) : p = q

-----------------------------------------------------------------------------
\* The cursor of ParseTypes stays within one past its last type, and the
\* activations and maps hold names and nodes of the document.
TypeOK ==
  /\ doc \in DocumentType
  /\ next \in 1..(Len(doc.types) + 1)
  /\ stack \in Seq(Frames)
  /\ list \in Seq(Names) /\ simples \in Seq(Names)
  /\ map \in [Names -> Nodes \cup {NoNode}]
  /\ parent \in [Names -> Names \cup {NoParent}]
  /\ done \in BOOLEAN

\* Whatever the names of the document, and at every moment of the parse, a
\* type is nested only in a class that is listed already (ParseElements
\* pushes the name before it recurses).
ParentsRegistered ==
  \A n \in Names : parent[n] # NoParent => parent[n] \in Values(list)

\* The registry mirrors the tree: with distinct names every complexType is
\* listed once and mapped to its own node, and every type, complex or simple,
\* is nested in the class it stands in, although lists, maps and parents are
\* written at different moments of a recursion.
TreeMirrored ==
  done /\ UniqueNames
    => /\ Len(list) = Cardinality(Declared)
       /\ \A d \in Declared : map[d.name] = d.node
       /\ \A n \in Names : \A p \in Places(n) : parent[n] = NameOf(p[1])

\* What Generation assumes of a schema is what the parser establishes, for a
\* document with distinct names.
HandsOverWellFormed == done /\ UniqueNames => WellFormed(AsSchema)

\* The parse of a document with distinct names ends: no constructor walks a
\* chain of parents that has no end.
Termination == UniqueNames => <>done

\* xsd.h: "Map complexType names in each namespace to XmlNode of definition".
\* A global complexType would be found under its name.
MapNamesDefinitions ==
  done => \A t \in Values(doc.types) :
             (\A u \in Values(doc.types) : u.name = t.name => u = t) => map[t.name] = t.node
=============================================================================
