------------------------------- MODULE XmlNode -------------------------------
(***************************************************************************)
(* What class XmlNode reads of a document: searches among children and     *)
(* siblings, attributes and namespace declarations.  Each operator returns *)
(* where current_ is after the call, or what the call returns.             *)
(*                                                                         *)
(* A document is a record over node numbers, which follow its order:       *)
(*   child   the first child, next the next sibling, up the parent, or Nil *)
(*   name    the name: libxml2 calls text "text" and comments "comment"    *)
(*   blank   the nodes of white space                                      *)
(*   attr    the attributes, a function from their names to values         *)
(*   decl    the xmlns declarations, prefixes to hrefs, "" by default      *)
(* A value is a sequence: << >> where there is none, <<local>>, or         *)
(* <<prefix, local>> for a qualified name.                                 *)
(***************************************************************************)
EXTENDS Naturals, Sequences, FiniteSets

Nil == 0

Root == 1

NodesOf(d) == DOMAIN d.name

Earliest(S) == IF S = {} THEN Nil ELSE CHOOSE k \in S : \A j \in S : k <= j

ChildrenOf(d, x) == {k \in NodesOf(d) : x # Nil /\ d.up[k] = x}

\* A tree as libxml2 links it, or several beside each other.
IsTree(d) ==
  /\ d.name \in Seq(STRING)
  /\ \A k \in NodesOf(d) :
       /\ d.up[k] \in 0..(k - 1)
       /\ d.child[k] = Earliest(ChildrenOf(d, k))
       /\ d.next[k] = Earliest({j \in ChildrenOf(d, d.up[k]) : j > k})
       /\ k \in d.blank => d.name[k] = "text"

\* The first child may be white space, a next sibling is not.
GetChildrenNode(d, x) == IF x = Nil THEN Nil ELSE d.child[x]

GetNextNode(d, x) ==
  LET from[k \in NodesOf(d) \cup {Nil}] ==
        IF k = Nil \/ k \notin d.blank THEN k ELSE from[d.next[k]]
  IN IF x = Nil THEN Nil ELSE from[d.next[x]]

\* From x through its siblings up to one with the name.
Sought(d, x, name) ==
  LET from[k \in NodesOf(d) \cup {Nil}] ==
        IF k = Nil \/ d.name[k] = name THEN k ELSE from[GetNextNode(d, k)]
  IN from[x]

GetFirstElement(d, base, name) == Sought(d, GetChildrenNode(d, base), name)

GetNextElement(d, x, name) == Sought(d, GetNextNode(d, x), name)

\* The nodes that XmlNode n(base, name); while (n) { ++n; } stops at.
Loop(d, base, name) ==
  LET from[k \in NodesOf(d) \cup {Nil}] ==
        IF k = Nil THEN << >> ELSE <<k>> \o from[GetNextElement(d, k, name)]
  IN from[GetFirstElement(d, base, name)]

PropertyExists(d, x, p) == x # Nil /\ p \in DOMAIN d.attr[x]

GetProperty(d, x, p) == IF PropertyExists(d, x, p) THEN d.attr[x][p] ELSE << >>

\* Class Split on a value.
NS(value) == IF Len(value) = 2 THEN value[1] ELSE ""

Type(value) == IF value = << >> THEN "" ELSE value[Len(value)]

\* FindProperty(p, true) as [value, cur]: it climbs with the cursor.
FindProperty(d, x, p) ==
  LET from[k \in NodesOf(d) \cup {Nil}] ==
        IF k = Nil \/ PropertyExists(d, k, p)
        THEN [value |-> GetProperty(d, k, p), cur |-> k]
        ELSE from[d.up[k]]
  IN from[x]

\* Broken: the declarations of x alone.
OwnNsMap(d, x) == IF x = Nil THEN << >> ELSE d.decl[x]

\* The list of xmlGetNsList goes up from x; the loop over it breaks behind the
\* last declaration of a node.
GetNsMap(d, x) ==
  LET from[k \in NodesOf(d) \cup {Nil}] ==
        IF k = Nil THEN << >>
        ELSE IF d.decl[k] # << >> THEN d.decl[k] ELSE from[d.up[k]]
  IN from[x]

\* map[prefix] of a map that may not hold it.
Href(map, prefix) == IF prefix \in DOMAIN map THEN map[prefix] ELSE ""

\* The content of the first child: text, a comment's too; none for an element.
GetContent(d, x) ==
  LET first == GetChildrenNode(d, x)
  IN IF first # Nil /\ d.name[first] \in {"text", "comment"} THEN first ELSE Nil
=============================================================================
