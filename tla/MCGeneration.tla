---------------------------- MODULE MCGeneration ----------------------------
(***************************************************************************)
(* Generation for TLC.  Names are strings: "string" stands for a builtin   *)
(* type, which is the item of some arrays and never the name of a class.   *)
(***************************************************************************)
EXTENDS Generation

T(n, m) == [ns |-> n, name |-> m]

\* A schema from its list of types: the members, items and parents given
\* are those of some types, every other type has none, and no type a base.
Make(types, members, item, parent) ==
  [types   |-> types,
   members |-> [t \in Types |-> IF t \in DOMAIN members THEN members[t] ELSE {}],
   base    |-> [t \in Types |-> {}],
   item    |-> [t \in Types |-> IF t \in DOMAIN item THEN item[t] ELSE NoItem],
   parent  |-> [t \in Types |-> IF t \in DOMAIN parent THEN parent[t] ELSE NoParent]]

None == << >>

\* Every member graph over the types S.
Graphs(S) == [S -> SUBSET S]

a1 == T("n1", "a")
b1 == T("n1", "b")
c1 == T("n1", "c")
a2 == T("n2", "a")

\* Three types of one namespace, in any member relation.
OneNamespace ==
  {Make(<<a1, b1, c1>>, g, None, None) : g \in Graphs({a1, b1, c1})}

\* A local name that two namespaces share.
TwoNamespaces ==
  {Make(<<a1, b1, a2>>, g, None, None) : g \in Graphs({a1, b1, a2})}

\* c is an array, of one of the classes or of a builtin type.
WithArray ==
  {Make(<<a1, b1, c1>>, g, [t \in {c1} |-> i], None) :
     g \in Graphs({a1, b1, c1}), i \in {"a", "b", "c", "string"}}

\* c is an anonymous type of a member of b, b possibly one of a member of a.
WithNested ==
  {Make(<<a1, b1, c1>>, g, None, [t \in {b1, c1} |-> IF t = c1 THEN "b" ELSE p]) :
     g \in {h \in Graphs({a1, b1, c1}) : c1 \in h[b1]}, p \in {"a", NoParent}}

\* The document of a and b is imported twice.
ImportedTwice ==
  {Make(<<a1, b1, a1, b1>>, g, None, None) : g \in Graphs({a1, b1})}

\* Two types extend one listed before or after them.
WithBases ==
  {[Make(order, g, None, None) EXCEPT !.base[b1] = {a1}, !.base[c1] = {x}] :
     g \in Graphs({a1, b1, c1}), x \in {a1, b1},
     order \in {<<a1, b1, c1>>, <<b1, c1, a1>>}}

AllSchemas ==
  OneNamespace \cup TwoNamespaces \cup WithArray \cup WithNested \cup ImportedTwice
  \cup WithBases

\* A type with a member of its own type, beside one without.
RecursiveSchemas ==
  {Make(<<a1, b1, c1>>, g, None, None) :
     g \in {h \in Graphs({a1, b1, c1}) : b1 \in h[b1]}}

\* b may have members, the two types named a have none.
HomonymSchemas ==
  {Make(<<a1, b1, a2>>, g, None, None) :
     g \in {h \in Graphs({a1, b1, a2}) : h[a1] = {} /\ h[a2] = {}}}
=============================================================================
