----------------------------- MODULE MCRegistry -----------------------------
(***************************************************************************)
(* Registry for TLC: every tree of three complexType nodes, under every    *)
(* choice of names.  A node is a global complexType ("type"), the          *)
(* anonymous type of a global element ("element") or of a member of an     *)
(* earlier node.  The second one may have a member with an anonymous       *)
(* simpleType, the third one has a member of a named type and may have an  *)
(* attribute with an anonymous simpleType, and there may be a global       *)
(* simpleType.                                                             *)
(***************************************************************************)
EXTENDS Registry

Trees ==
  [1..3 -> {"type", "element"} \cup {"in1", "in2"}]

InNode(n) == IF n = 1 THEN "in1" ELSE IF n = 2 THEN "in2" ELSE "none"

EarlierOnly(tree) ==
  tree[1] \in {"type", "element"} /\ tree[2] # "in2"

Absent == "-"

\* The first name is a: names are interchangeable.
Namings == {m \in [1..3 -> {"a", "b", "c"}] : m[1] = "a"}

Build(tree, naming, simple, typed, attr, global) ==
  LET When(b, x) == IF b THEN <<x>> ELSE << >>
      Kid(n, at) == When(tree[n] = at, [name |-> naming[n], kind |-> "complex", node |-> n])
      Kids(at)   == Kid(1, at) \o Kid(2, at) \o Kid(3, at)
      Global(n)  == When(tree[n] = "type", [name |-> naming[n], node |-> n])
  IN [types   |-> Global(1) \o Global(2) \o Global(3),
      simple  |-> When(global # Absent, global),
      content |-> [o \in Owners |->
                     When(o = 2 /\ simple # Absent, [name |-> simple, kind |-> "simple"])
                     \o Kids(IF o = Root THEN "element" ELSE InNode(o))
                     \o When(o = 3, [name |-> "x", kind |-> "typed", type |-> typed])],
      attrs   |-> [o \in Owners |-> When(o = 3 /\ attr # Absent, attr)]]

AllDocuments ==
  {Build(tree, naming, simple, typed, attr, global) :
     tree \in {t \in Trees : EarlierOnly(t)}, naming \in Namings,
     simple \in {Absent, "d"}, typed \in {"a", "b"}, attr \in {Absent, "a", "b", "d"},
     global \in {Absent, "d"}}
=============================================================================
