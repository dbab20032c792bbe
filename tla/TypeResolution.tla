--------------------------- MODULE TypeResolution ---------------------------
(***************************************************************************)
(* What type the generator takes an element, attribute or simpleType to    *)
(* be: class TypeBase and the constructors of the classes derived from it, *)
(* each one call.  Documents are forests: the tree of Root is the main     *)
(* document, the others are imported ones.                                 *)
(*                                                                         *)
(* A C++ type is a record: the C++ namespace, and the classes from the     *)
(* outermost to the type itself.                                           *)
(***************************************************************************)
EXTENDS SchemaLookup

CONSTANTS Schemas,     \* documents
          XMLSchema,   \* http://www.w3.org/2001/XMLSchema
          Space,       \* NamespaceFromHref: C++ namespaces of hrefs, "" for ""
          CName1up,    \* of Split: class names of local names
          Words        \* the words of hrefs between colons

-----------------------------------------------------------------------------
(* What XML says of namespaces and classes.                                *)

Path(d, x) ==
  LET up[k \in NodesOf(d) \cup {Nil}] == IF k = Nil THEN {} ELSE {k} \cup up[d.up[k]]
  IN up[x]

TargetNamespace(d, x) ==
  Type(d.attr[CHOOSE k \in Path(d, x) : d.name[k] = "schema"]["targetNamespace"])

\* The name a type is registered with.
TypeName(d, x) == IF Name(d, x) # "" THEN Name(d, x) ELSE Name(d, d.up[x])

\* The class around x, or Nil.
ClassAround(d, x) ==
  LET around == {k \in Path(d, d.up[x]) : d.name[k] = "complexType"}
  IN IF around = {} THEN Nil ELSE CHOOSE k \in around : \A j \in around : j <= k

\* The registry as Registry fills it for distinct names: under a namespace and
\* a name stands one class, or what it is extended with, and the name of the
\* class around it; parents are classes.  An element with a class of its own
\* names no other.
ClassesKnown(d) ==
  LET classes == {k \in NodesOf(d) : d.name[k] = "complexType"}
      Key(c)  == <<TargetNamespace(d, c), TypeName(d, c)>>
  IN /\ \A c \in classes :
          /\ TargetNamespace(d, c) # "" /\ TypeName(d, c) \in DOMAIN CName1up \ {""}
          /\ Key(c) \in DOMAIN d.types /\ d.types[Key(c)] = Start(d, c)
          /\ LET e == ClassAround(d, c)
             IN GetParent(d, Key(c)[1], Key(c)[2]) = IF e = Nil THEN "" ELSE TypeName(d, e)
          /\ d.name[d.up[c]] = "element" =>
               {"type", "ref"} \cap DOMAIN d.attr[d.up[c]] = {} /\ "name" \notin DOMAIN d.attr[c]
     /\ \A b, c \in classes : Key(b) = Key(c) => b = c
     /\ \A key \in DOMAIN d.parents : \E c \in classes : Key(c) = <<key[1], d.parents[key]>>

\* What Schemas must be: the roots are schemas, which alone have targets, none
\* that of XML Schema itself, no import names the schema it stands in, and the
\* registry holds what it was filled with.
WellFormed ==
  \A d \in Schemas :
    /\ IsTree(d)
    /\ \A k \in NodesOf(d) :
         /\ d.name[k] = "schema" <=> d.up[k] = Nil
         /\ "targetNamespace" \in DOMAIN d.attr[k] <=> d.up[k] = Nil
         /\ Type(GetProperty(d, k, "targetNamespace")) # XMLSchema
         /\ d.name[k] = "import" /\ d.up[k] = Root =>
              Type(GetProperty(d, k, "namespace")) # Type(GetProperty(d, Root, "targetNamespace"))
    /\ \A t \in DOMAIN d.simples : d.simples[t] \in NodesOf(d)
    /\ ClassesKnown(d)

-----------------------------------------------------------------------------
VARIABLES doc,     \* the document: only read
          node,    \* the node an object is made of, Nil before
          kind,    \* the class of the object
          object   \* the object, what differs in the classes included

vars == <<doc, node, kind, object>>

-----------------------------------------------------------------------------
(* Class TypeBase.                                                         *)

\* kTypeMap: the builtin types with a class of their own.
Strings == {"string", "date", "dateTime", "anySimpleType", "anyURI", "any", "time"}
Numbers == {"byte", "decimal", "int", "integer", "long", "short", "unsignedByte",
            "unsignedInt", "unsignedShort", "unsignedLong", "negativeInteger",
            "nonNegativeInteger", "nonPositiveInteger", "positiveInteger"}

TypeClass(type, before) ==
  CASE type \in Strings -> "string"
    [] type \in Numbers -> "number"
    [] type = "boolean" -> "boolean"
    [] type \notin Strings \cup Numbers \cup {"boolean"} -> before

NoCType == [space |-> "", path |-> << >>]

\* ns_href_, type_, t_type_ and c_type_ of an object without a type, base_type_
\* and extends_cls_ of one without a base.
Untyped(href) == [href |-> href, type |-> "", class |-> "unknown", ctype |-> NoCType,
                  base |-> NoCType, extends |-> NoCType]

\* The parents of a class, outermost first.
Parents(d, href, class) ==
  LET up[n \in DOMAIN CName1up] ==
        LET p == GetParent(d, href, n) IN IF p = "" THEN << >> ELSE Append(up[p], CName1up[p])
  IN up[class]

CType(d, href, type) ==
  IF href = XMLSchema THEN [space |-> "", path |-> <<type>>]
  ELSE [space |-> Space[href], path |-> Append(Parents(d, href, type), CName1up[type])]

\* Broken: the targetNamespace of the main document, wherever x stands.
TargetOfMain(d, x) == Type(GetProperty(d, Root, "targetNamespace"))

\* The namespace of names without a prefix.
Target(d, x) ==
  LET alt == Type(FindProperty(d, x, "targetNamespace").value)
  IN IF alt # "" THEN alt ELSE Type(GetProperty(d, Root, "targetNamespace"))

HrefOf(d, x, value) ==
  IF NS(value) = "" THEN Target(d, x) ELSE Href(GetNsMap(d, x), NS(value))

\* SetType and SetCType: nothing changes when the prefix is not found.
SetType(d, x, o, value) ==
  LET href == HrefOf(d, x, value)
  IN IF href = "" THEN o
     ELSE [o EXCEPT !.href = href, !.type = Type(value), !.ctype = CType(d, href, Type(value)),
                    !.class = IF href = XMLSchema THEN TypeClass(Type(value), @) ELSE "complex"]

TypeBase(d, x, href, name) ==
  IF name = "" THEN Untyped(href) ELSE SetType(d, x, Untyped(href), <<name>>)

-----------------------------------------------------------------------------
(* The constructors.                                                       *)

SimpleType(d, x, name, href) ==
  LET restriction == GetFirstElement(d, x, "restriction")
      o == TypeBase(d, x, href, name)
  IN IF PropertyExists(d, restriction, "base")
     THEN SetType(d, x, o, GetProperty(d, restriction, "base")) ELSE o

IsSimpleType(d, o) == o.href # XMLSchema /\ FindSimpleType(d, o.href, <<o.type>>) # Nil

IsComplexType(d, o) == o.href # XMLSchema /\ FindComplexType(d, o.href, <<o.type>>) # Nil

\* Broken: the base of a simpleType is resolved where the type is used.
BaseTypeAtUse(d, x, o) ==
  IF ~IsSimpleType(d, o) THEN o.ctype
  ELSE LET restriction == GetFirstElement(d, FindSimpleType(d, o.href, <<o.type>>), "restriction")
       IN SetType(d, x, TypeBase(d, x, "", o.type), GetProperty(d, restriction, "base")).ctype

\* base_type_, and the t of CType_decl, CType_in and CType_out.
BaseType(d, x, o) ==
  IF ~IsSimpleType(d, o) THEN o.ctype
  ELSE SimpleType(d, FindSimpleType(d, o.href, <<o.type>>), o.type, "").ctype

\* GetNsMapRe()[href]: of the declarations that GetNsMap finds, some prefix.
DeclaredAs(d, x, href) ==
  LET map == GetNsMap(d, x)
      bound == {p \in DOMAIN map : map[p] = href}
  IN IF bound = {} THEN {""} ELSE bound

\* GetElement(name) in documents whose schemas do not import each other.
GetElement(d, name) ==
  LET in[s \in NodesOf(d)] ==
        IF Imported(d, s) # Nil THEN in[Imported(d, s)] ELSE ElementBelow(d, s, name)
      schema == GetSchema(d, Href(GetNsMap(d, Root), NS(name)))
  IN IF schema = Nil THEN Nil ELSE in[schema]

\* The objects that Element(xsd, x, ..., "", href) may be.
Element(d, x, href) ==
  LET Typed(value) == SetType(d, x, Untyped(href), value)
      referred == GetElement(d, GetProperty(d, x, "ref"))
  IN CASE PropertyExists(d, x, "type") -> {Typed(GetProperty(d, x, "type"))}
       [] ~PropertyExists(d, x, "type") /\ PropertyExists(d, x, "ref") ->
            {IF PropertyExists(d, referred, "type") THEN Typed(GetProperty(d, referred, "type"))
             ELSE Untyped(href)}
       [] ~PropertyExists(d, x, "type") /\ ~PropertyExists(d, x, "ref") ->
            IF GetFirstElement(d, x, "complexType") = Nil THEN {Untyped(href)}
            ELSE {Typed(IF p = "" THEN <<Name(d, x)>> ELSE <<p, Name(d, x)>>) :
                    p \in DeclaredAs(d, x, href)}

\* The type of an anonymous simpleType is the text href::name, of which Split
\* takes the first two words.
Attribute(d, x, name, href) ==
  LET o     == TypeBase(d, x, href, name)
      words == Append(Words[href], Name(d, x))
  IN CASE PropertyExists(d, x, "type") -> SetType(d, x, o, GetProperty(d, x, "type"))
       [] ~PropertyExists(d, x, "type") /\ GetFirstElement(d, x, "simpleType") # Nil ->
            SetType(d, x, o, <<words[1], words[2]>>)
       [] ~PropertyExists(d, x, "type") /\ GetFirstElement(d, x, "simpleType") = Nil -> o

\* extends_cls_
Extends(d, x) ==
  LET base == GetProperty(d, Start(d, x), "base")
      href == Href(GetNsMap(d, x), NS(base))
  IN IF base = << >> THEN NoCType ELSE [space |-> Space[href], path |-> <<CName1up[Type(base)]>>]

\* A restriction of Array takes its item for its type.
ComplexType(d, x, name, href) ==
  LET restriction == GetFirstElement(d, GetFirstElement(d, x, "complexContent"), "restriction")
      attribute   == GetFirstElement(d, restriction, "attribute")
      o           == TypeBase(d, x, href, name)
  IN IF Type(GetProperty(d, restriction, "base")) = "Array" /\ PropertyExists(d, attribute, "arrayType")
     THEN SetType(d, x, o, GetProperty(d, attribute, "arrayType")) ELSE o

-----------------------------------------------------------------------------
(* An object is made as CreateInterface and CreateImplementation make it:  *)
(* of what stands in a class, with the NsHref() of the class, or of a type *)
(* with its registered name and namespace; both are the targetNamespace.   *)

Nodes(name) == {x \in NodesOf(doc) : doc.name[x] = name}

Members == {x \in Nodes("element") : doc.name[doc.up[x]] \in {"sequence", "all"}}

Init ==
  /\ doc \in Schemas
  /\ node = Nil /\ kind = "none"
  /\ object = Untyped("")

Make(x, as, o, base, extends) ==
  /\ node = Nil
  /\ node' = x /\ kind' = as
  /\ object' = [o EXCEPT !.base = base, !.extends = extends]
  /\ UNCHANGED doc

MakeElement(x) ==
  \E o \in Element(doc, x, Target(doc, x)) :
    Make(x, "element", o, BaseType(doc, x, o), NoCType)

\* In the header an attribute is made with its name, in the implementation
\* without.
MakeAttribute(x, name) ==
  LET o == Attribute(doc, x, name, Target(doc, x))
  IN Make(x, IF name = "" THEN "attribute" ELSE "named attribute", o, BaseType(doc, x, o), NoCType)

MakeSimpleType(x) ==
  Make(x, "simpleType", SimpleType(doc, x, TypeName(doc, x), Target(doc, x)), NoCType, NoCType)

\* A ComplexType is made of the node in the registry: the extension of x, if any.
MakeComplexType(x) ==
  LET start == Start(doc, x)
  IN Make(start, "complexType", ComplexType(doc, start, TypeName(doc, x), Target(doc, x)),
          NoCType, Extends(doc, start))

Next ==
  \/ \E x \in Members : MakeElement(x)
  \/ \E x \in Nodes("attribute") : \E name \in {"", Name(doc, x)} : MakeAttribute(x, name)
  \/ \E x \in Nodes("simpleType") : MakeSimpleType(x)
  \/ \E x \in Nodes("complexType") : MakeComplexType(x)

Spec == Init /\ [][Next]_vars

-----------------------------------------------------------------------------
(* What XML says of qualified names, and where it is what the code reads:  *)
(* where one element on the way to the root declares prefixes, and a name  *)
(* without a prefix is in the targetNamespace.                             *)

HrefInScope(x, value) ==
  LET declaring == {k \in Path(doc, x) : NS(value) \in DOMAIN doc.decl[k]}
  IN IF declaring = {} THEN ""
     ELSE doc.decl[CHOOSE k \in declaring : \A j \in declaring : j <= k][NS(value)]

Readable(x, value) ==
  /\ Cardinality({k \in Path(doc, x) : doc.decl[k] # << >>}) = 1
  /\ HrefInScope(x, value) # ""
  /\ NS(value) = "" => HrefInScope(x, value) = TargetNamespace(doc, x)

\* The name of a type that stands at the node or below.
NamedType ==
  LET restriction == GetFirstElement(doc, node, "restriction")
  IN IF kind = "simpleType" THEN GetProperty(doc, restriction, "base")
     ELSE IF kind = "complexType" THEN GetProperty(doc, Start(doc, node), "base")
     ELSE GetProperty(doc, node, "type")

\* The classes around node x in the tree, outermost first: a class has its own
\* name or that of its element.
Classes(x) ==
  LET in[k \in NodesOf(doc) \cup {Nil}] ==
        IF k = Nil THEN << >>
        ELSE IF doc.name[k] # "complexType" THEN in[doc.up[k]]
        ELSE Append(in[doc.up[k]], CName1up[TypeName(doc, k)])
  IN in[x]

Named == kind \in {"element", "attribute", "named attribute"}

-----------------------------------------------------------------------------
\* An object has a C++ type exactly when it has a type.
TypeOK ==
  /\ node \in NodesOf(doc) \cup {Nil}
  /\ kind \in {"none", "element", "attribute", "named attribute", "simpleType", "complexType"}
  /\ object.href \in DOMAIN Space
  /\ object.class \in {"unknown", "string", "number", "boolean", "complex"}
  /\ object.type = "" <=> object.ctype = NoCType

\* SetType and the constructor of ComplexType read a qualified name as XML
\* does, wherever it stands and however far up its prefix is declared, where
\* one element declares them all.
ResolvesAsDeclared ==
  NamedType # << >> /\ Readable(node, NamedType) =>
    LET href == HrefInScope(node, NamedType)
    IN IF kind = "complexType"
       THEN object.extends = [space |-> Space[href], path |-> <<CName1up[Type(NamedType)]>>]
       ELSE object.href = href /\ object.type = Type(NamedType)

\* An element with an anonymous complexType finds the class that was registered
\* for it, or its extension, through the reversed map of prefixes or without one,
\* and names it by the classes it is nested in, from the maps of parents.
AnonymousIsOwn ==
  \A c \in Nodes("complexType") :
    kind = "element" /\ doc.up[c] = node =>
      /\ FindComplexType(doc, object.href, <<object.type>>) = Start(doc, c)
      /\ object.ctype = [space |-> Space[TargetNamespace(doc, node)], path |-> Classes(c)]

\* The C++ type of a member whose type is a simpleType is that of the builtin
\* type the simpleType restricts, by the prefixes where the simpleType stands.
BaseAsDefined ==
  Named /\ IsSimpleType(doc, object) =>
    LET s    == FindSimpleType(doc, object.href, <<object.type>>)
        base == GetProperty(doc, GetFirstElement(doc, s, "restriction"), "base")
    IN base # << >> /\ Readable(s, base) =>
         object.base = CType(doc, HrefInScope(s, base), Type(base))

\* The header declares an attribute with its name, the implementation defines
\* its methods without: both get the C++ type that the attribute names, and
\* numbers and booleans are told from the rest alike.
HeaderAgrees ==
  kind = "named attribute" /\ NamedType # << >> /\ Readable(node, NamedType) =>
    LET implemented == Attribute(doc, node, "", Target(doc, node))
    IN /\ object.ctype = implemented.ctype
       /\ object.base = BaseType(doc, node, implemented)
       /\ \A c \in {"number", "boolean"} : object.class = c <=> implemented.class = c

\* What a member or attribute is declared as, in both files.
MembersTyped == BaseAsDefined /\ HeaderAgrees

\* x reads a qualified name as the root does.
ReadAtRoot(x, value) == Readable(x, value) /\ GetNsMap(doc, x) = GetNsMap(doc, Root)

\* An element that refers to another has the type of the global element of the
\* main document that XML means, where the root declares the prefixes of both
\* and, without one, the namespace is the same at both.  One of an imported
\* document is not found, and leaves no type, never a wrong one.
RefsNeverMistaken ==
  LET ref == GetProperty(doc, node, "ref")
      Meant(g) == /\ doc.up[g] = Root
                  /\ TargetNamespace(doc, g) = HrefInScope(node, ref) /\ Name(doc, g) = Type(ref)
  IN kind = "element" /\ ~PropertyExists(doc, node, "type") /\ ref # << >> /\ ReadAtRoot(node, ref)
     /\ (object.type # "" \/ \E g \in Nodes("element") : Meant(g)) =>
       \E g \in Nodes("element") :
         LET type == GetProperty(doc, g, "type")
         IN /\ Meant(g)
            /\ ReadAtRoot(g, type) /\ ReadAtRoot(node, type) =>
                 object.href = HrefInScope(g, type) /\ object.type = Type(type)
=============================================================================
