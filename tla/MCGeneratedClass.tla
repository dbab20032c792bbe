-------------------------- MODULE MCGeneratedClass --------------------------
(* Instances of GeneratedClass: one class per shape of member. *)
EXTENDS GeneratedClass

M(name, kind, class_, named, vector, optional, default) ==
  [name |-> name, kind |-> kind, class |-> class_, named |-> named,
   vector |-> vector, optional |-> optional, default |-> default]

Simple(name, kind, optional, default) == M(name, kind, "", FALSE, FALSE, optional, default)

A(name, kind, optional, default) ==
  [name |-> name, kind |-> kind, optional |-> optional, default |-> default]

Class(base, members, attrs, mixed) ==
  [base |-> base, members |-> members, attrs |-> attrs, mixed |-> mixed]

\* Leaf and Item are the children of Tree, Tip is the child of Note, Basis the base of Derived.
\* Note is mixed, Named has simpleType members, Flat one member of every kind.
MCClasses ==
  [Leaf    |-> Class("", <<Simple("a", "string", FALSE, "none")>>,
                     <<A("k", "number", TRUE, "none")>>, FALSE),
   Item    |-> Class("", <<Simple("f", "boolean", TRUE, "none")>>,
                     <<A("s", "string", TRUE, "x")>>, FALSE),
   Tip     |-> Class("", <<Simple("a", "string", FALSE, "none")>>, << >>, FALSE),
   Tree    |-> Class("", <<M("leaf", "complex", "Leaf", FALSE, FALSE, FALSE, "none"),
                           M("items", "complex", "Item", FALSE, TRUE, TRUE, "none")>>,
                     << >>, FALSE),
   Note    |-> Class("", <<M("opt", "complex", "Tip", FALSE, FALSE, TRUE, "none"),
                           M("v", "number", "", FALSE, TRUE, TRUE, "none")>>,
                     <<A("r", "boolean", FALSE, "none")>>, TRUE),
   Named   |-> Class("", <<M("e", "string", "", TRUE, FALSE, FALSE, "x"),
                           M("g", "boolean", "", TRUE, FALSE, TRUE, "none"),
                           M("w", "string", "", TRUE, TRUE, FALSE, "none")>>,
                     << >>, FALSE),
   Flat    |-> Class("", <<Simple("s", "string", FALSE, "none"),
                           Simple("n", "number", TRUE, "1"),
                           Simple("b", "boolean", FALSE, "false"),
                           Simple("o", "string", TRUE, "x")>>,
                     <<A("t", "string", FALSE, "x"), A("u", "number", TRUE, "none")>>, FALSE),
   Bare    |-> Class("", <<Simple("s", "string", TRUE, "none"),
                           Simple("n", "number", FALSE, "none"),
                           Simple("b", "boolean", FALSE, "none")>>,
                     <<A("t", "string", FALSE, "none")>>, FALSE),
   Basis   |-> Class("", <<Simple("a", "string", FALSE, "none")>>,
                     <<A("k", "number", TRUE, "none")>>, FALSE),
   Derived |-> Class("Basis", <<Simple("r", "double", FALSE, "none")>>,
                     <<A("t", "string", TRUE, "none")>>, FALSE)]

\* Note and Derived have nothing that is left uninitialised.
MCRoots == ({"Tree", "Named", "Flat", "Bare"} \X BOOLEAN) \cup ({"Note", "Derived"} \X {FALSE})

Opt(values) == {<< >>} \cup {<<v>> : v \in values}

Attrs(name, values) == {<< >>} \cup {[n \in {name} |-> v] : v \in values}

D(elem, attr, text) == [elem |-> elem, attr |-> attr, text |-> text, inner |-> << >>]

\* The documents with these elements, attributes and texts.
Ds(elems, attrs, texts) == [elem : elems, attr : attrs, text : texts, inner : {<< >>}]

LeafDocuments == {D([a |-> <<"x">>], [k |-> "1"], ""), D([a |-> <<"">>], << >>, ""),
                  D([a |-> << >>], [k |-> "1"], "")}

TipDocuments == {D([a |-> <<"x">>], << >>, ""), D([a |-> << >>], << >>, "")}

BareItem == D([f |-> << >>], [s |-> ""], "")

ItemDocuments == {D([f |-> <<"yes">>], << >>, ""), BareItem}

\* Complete and incomplete documents of each class.
MCDocuments ==
  [Leaf    |-> LeafDocuments,
   Tip     |-> TipDocuments,
   Item    |-> ItemDocuments,
   Tree    |-> Ds([leaf : Opt(LeafDocuments),
                   items : {<< >>} \cup {<<d, e>> : d \in ItemDocuments, e \in {BareItem}}],
                  {<< >>}, {""}),
   Note    |-> Ds([opt : Opt(TipDocuments), v : {<< >>, <<"1", "x">>}],
                  Attrs("r", {"yes"}), {"", "x"}),
   Named   |-> Ds([e : Opt({"", "y"}), g : Opt({"1"}), w : {<< >>, <<"x">>}], {<< >>}, {""}),
   Flat    |-> Ds([s : Opt({"x"}), n : Opt({"x"}), b : Opt({"true"}), o : Opt({""})],
                  Attrs("t", {"y"}) \cup Attrs("u", {"1"}), {""}),
   Bare    |-> Ds([s : Opt({"x"}), n : Opt({"1"}), b : Opt({"true", "0"})],
                  Attrs("t", {"x"}), {""}),
   Derived |-> Ds([a : Opt({"x"}), r : Opt({"1.5"})],
                  Attrs("k", {"1"}) \cup Attrs("t", {"x"}), {""})]
=============================================================================
