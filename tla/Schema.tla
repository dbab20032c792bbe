------------------------------- MODULE Schema -------------------------------
(***************************************************************************)
(* The registry class Xsd (src/include/xsd2cc/xsd.h) holds once parsing is *)
(* over, as a value, and the tests the generator makes on it.              *)
(*                                                                         *)
(* A complex type is known by its namespace and its local name.  A schema  *)
(* is a record:                                                            *)
(*   types    complexType_ read in the order of the generator's loops: the *)
(*            namespaces in map order, each one's list in document order;  *)
(*            a type registered twice is listed twice                      *)
(*   members  the complex types a type's elements resolve to               *)
(*   base     the complex type a type extends, or none                     *)
(*   item     for a SOAP array, the local name of its item type            *)
(*   parent   parent_: the class an anonymous type is nested in            *)
(***************************************************************************)
EXTENDS Naturals, Sequences

CONSTANTS Namespaces,   \* xml namespace hrefs
          Names,        \* local names of complex types, and of array items
          NoParent,     \* the empty string parent_ yields at top level
          NoItem        \* the type is not an array

ASSUME NameAssumption == NoParent \notin Names /\ NoItem \notin Names

Types == [ns : Namespaces, name : Names]

SchemaType == [types   : Seq(Types),
               members : [Types -> SUBSET Types],
               base    : [Types -> SUBSET Types],
               item    : [Types -> Names \cup {NoItem}],
               parent  : [Types -> Names \cup {NoParent}]]

Listed(s) == {s.types[i] : i \in DOMAIN s.types}

TopLevel(s) == {t \in Listed(s) : s.parent[t] = NoParent}

\* The classes CreateInterface nests directly in the class of t: those of
\* t's namespace whose parent bears t's local name.
NestedIn(s, t) == {u \in Listed(s) : u.ns = t.ns /\ s.parent[u] = t.name}

\* The parent chain of every listed type ends: the loops that walk it
\* (type_base.cc, complex_type.cc) return.
ChainsEnd(s) ==
  \A S \in SUBSET Listed(s) :
     S # {} => \E t \in S : \A u \in S : t \notin NestedIn(s, u)

\* The parser registers a class before those nested in it.
ParentsListed(s) ==
  \A t \in Listed(s) \ TopLevel(s) : \E u \in Listed(s) : t \in NestedIn(s, u)

WellFormed(s) ==
  /\ s \in SchemaType
  /\ ChainsEnd(s)
  /\ ParentsListed(s)
  /\ \A t \in Listed(s) : s.members[t] \cup s.base[t] \subseteq Listed(s)

-----------------------------------------------------------------------------
\* Broken on purpose, to test the properties: a member nested in any class
\* is taken for one nested in t.
OkWithAnyParent(s, G, t) ==
  IF s.item[t] # NoItem
  THEN s.item[t] \in G
  ELSE \A m \in s.members[t] :
          \/ m.name \in G
          \/ s.parent[[ns |-> t.ns, name |-> m.name]] # NoParent

\* ComplexType::OkToGenerate, where G is the set of local names whose class
\* is already written.  It does not look at the base of t, nor at the members
\* of classes nested in t.  A member that is nested in t itself never waits; its
\* parent is looked up in t's namespace, whatever namespace it is from.
OkToGenerate(s, G, t) ==
  IF s.item[t] # NoItem
  THEN s.item[t] \in G
  ELSE \A m \in s.members[t] :
          \/ m.name \in G
          \/ s.parent[[ns |-> t.ns, name |-> m.name]] = t.name

\* A top-level class that is not written yet and could be written now.
Ready(s, G, t) ==
  t \in TopLevel(s) /\ t.name \notin G /\ OkToGenerate(s, G, t)

\* What the generator is meant to write: the least set of local names that
\* contains every type whose members it contains.
Closed(s, X) == \A t \in TopLevel(s) : OkToGenerate(s, X, t) => t.name \in X

Derivable(s) == {n \in Names : \A X \in SUBSET Names : Closed(s, X) => n \in X}

\* The members can be put in an order: in every set of top-level types there
\* is one that has no member in the set and none outside the top level but
\* its own nested classes.
Orderable(s) ==
  \A U \in SUBSET TopLevel(s) :
     U # {} =>
       \E t \in U :
          IF s.item[t] # NoItem
          THEN \E u \in TopLevel(s) \ U : u.name = s.item[t]
          ELSE s.members[t] \subseteq (TopLevel(s) \ U) \cup NestedIn(s, t)

NoHomonyms(s) == \A t, u \in Listed(s) : t.name = u.name => t = u
=============================================================================
