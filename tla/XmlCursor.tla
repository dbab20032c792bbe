------------------------------ MODULE XmlCursor ------------------------------
(***************************************************************************)
(* One XmlNode used as the cursor of a loop                                *)
(*   XmlNode n(base, name); while (n) { queries of n; ++n; }               *)
(* the idiom of the whole generator and of the FromXml it generates.  All  *)
(* members are mutable and const queries move current_ about, so that      *)
(* whether the loop visits what it should depends on each of them.         *)
(***************************************************************************)
EXTENDS XmlNode

CONSTANTS Docs,
          Wanted     \* names searched for, not those of text and comments

\* What Docs and Wanted must be: an element named text or comment would be
\* told apart from neither.
WellFormed ==
  /\ \A d \in Docs : IsTree(d)
  /\ Wanted \cap {"", "text", "comment"} = {}

VARIABLES doc,     \* the document: only read
          base, name,
          current, \* current_
          lookup,  \* lookup_name_, "" when empty
          found    \* the node the last query has found

vars == <<doc, base, name, current, lookup, found>>

Elements(d) == {k \in NodesOf(d) : d.name[k] \notin {"text", "comment"}}

\* Of the body of a loop, at the node n is at.
Within == current # Nil

-----------------------------------------------------------------------------
\* The constructor searches among the children of base; lookup_name_ was empty.
Init ==
  /\ doc \in Docs /\ base \in Elements(doc) /\ name \in Wanted
  /\ current = GetFirstElement(doc, base, name)
  /\ lookup = name
  /\ found = Nil

\* ++n: on to the next sibling with the name of the first search.
Increment ==
  /\ Within
  /\ current' = GetNextElement(doc, current, lookup)
  /\ UNCHANGED <<doc, base, name, lookup, found>>

\* Broken: each search is remembered.
SearchRenaming(q) ==
  /\ Within
  /\ found' = GetFirstElement(doc, current, q)
  /\ lookup' = q
  /\ UNCHANGED <<doc, base, name, current>>

\* n[q], and Exists(q), which says whether it found one: both put current_ back.
Search(q) ==
  /\ Within
  /\ found' = GetFirstElement(doc, current, q)
  /\ lookup' = IF lookup = "" THEN q ELSE lookup
  /\ UNCHANGED <<doc, base, name, current>>

\* GetContent goes to the first child and back.
Content ==
  /\ Within
  /\ found' = GetContent(doc, current)
  /\ UNCHANGED <<doc, base, name, current, lookup>>

\* SetType climbs to the targetNamespace with a copy of the node.
ClimbCopy ==
  /\ Within
  /\ found' = FindProperty(doc, current, "targetNamespace").cur
  /\ UNCHANGED <<doc, base, name, current, lookup>>

Next == Increment \/ (\E q \in Wanted : Search(q)) \/ Content \/ ClimbCopy

SafeSpec == Init /\ [][Next]_vars

Spec == SafeSpec /\ WF_vars(Increment)

-----------------------------------------------------------------------------
TypeOK ==
  /\ base \in Elements(doc) /\ name \in Wanted
  /\ {current, found} \subseteq NodesOf(doc) \cup {Nil}
  /\ lookup \in Wanted

\* The elements with the name among the children of base.
Children == {k \in ChildrenOf(doc, base) : doc.name[k] = name}

Sequence == INSTANCE ChildSequence WITH items <- Children, at <- current

\* Whatever is asked of the cursor in between, the loop visits the children
\* with the name, each once and in order, and ends: generated FromXml methods
\* query the very cursor that their caller counts on.
LoopVisitsChildren == Sequence!Spec
=============================================================================
