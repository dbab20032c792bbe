---------------------------- MODULE SchemaLookup ----------------------------
(***************************************************************************)
(* The lookups of class Xsd by namespace and name, in the main document    *)
(* and in the registry.                                                    *)
(*                                                                         *)
(* A document has, beside what XmlNode reads, the registry's maps from     *)
(* <<href, local name>>: types is complexType_Map_, simples is             *)
(* simpleType_Map_, both to nodes, and parents is parent_, to names.       *)
(***************************************************************************)
EXTENDS XmlNode

Name(d, x) == Type(GetProperty(d, x, "name"))

\* Where a loop of XmlNode n(base, name) stops that returns at the first that fits.
FirstThat(d, base, name, Fits(_)) ==
  LET from[k \in NodesOf(d) \cup {Nil}] ==
        IF k = Nil \/ Fits(k) THEN k ELSE from[GetNextElement(d, k, name)]
  IN from[GetFirstElement(d, base, name)]

\* Broken: the first schema of types, whatever it is of.
GetFirstSchema(d, target) ==
  IF d.name[Root] = "schema" THEN Root
  ELSE GetFirstElement(d, GetFirstElement(d, Root, "types"), "schema")

GetSchema(d, target) ==
  LET targets(x) == Type(GetProperty(d, x, "targetNamespace")) = target
  IN IF d.name[Root] = "schema" /\ targets(Root) THEN Root
     ELSE FirstThat(d, GetFirstElement(d, Root, "types"), "schema", targets)

FindComplexType(d, href, type) ==
  IF <<href, Type(type)>> \in DOMAIN d.types THEN d.types[<<href, Type(type)>>] ELSE Nil

FindSimpleType(d, href, type) ==
  IF <<href, Type(type)>> \in DOMAIN d.simples THEN d.simples[<<href, Type(type)>>] ELSE Nil

GetParent(d, href, class) ==
  IF <<href, class>> \in DOMAIN d.parents THEN d.parents[<<href, class>>] ELSE ""

\* The schema that the first import of x names of those that name one of the
\* document, or Nil.
Imported(d, x) ==
  LET schema(import) == GetSchema(d, Type(GetProperty(d, import, "namespace")))
      first == FirstThat(d, x, "import", LAMBDA import : schema(import) # Nil)
  IN IF first = Nil THEN Nil ELSE schema(first)

\* The first element below schema x with the local name.
ElementBelow(d, x, name) ==
  FirstThat(d, x, "element", LAMBDA k : Name(d, k) = Type(name))

\* Where a type that extends another has its members.
Start(d, x) ==
  LET extension == GetFirstElement(d, GetFirstElement(d, x, "complexContent"), "extension")
  IN IF PropertyExists(d, extension, "base") THEN extension ELSE x
=============================================================================
