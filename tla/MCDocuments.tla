----------------------------- MODULE MCDocuments -----------------------------
(***************************************************************************)
(* The documents that TLC reads: all small trees of elements and text, and *)
(* WSDL documents built from nested elements.                              *)
(***************************************************************************)
EXTENDS SchemaLookup, SequencesExt, TLC

\* The first child and the next sibling of each node, from their parents.
Child(up) == [k \in DOMAIN up |-> Earliest({j \in DOMAIN up : up[j] = k})]

Sibling(up) == [k \in DOMAIN up |-> Earliest({j \in DOMAIN up : up[j] = up[k] /\ up[k] # Nil /\ j > k})]

\* Five nodes below each other in every way, of elements a and b, white space
\* and comments; two texts are never neighbours.
Trees ==
  LET Ups   == {u \in [1..5 -> 0..4] : u[1] = Nil /\ \A k \in 2..5 : u[k] \in 1..(k - 1)}
      Kinds == {c \in [1..5 -> {"a", "b", "blank", "comment"}] : c[1] = "a"}
      Made(up, kind) ==
        [up |-> up, child |-> Child(up), next |-> Sibling(up),
         name  |-> [k \in 1..5 |-> IF kind[k] = "blank" THEN "text" ELSE kind[k]],
         blank |-> {k \in 1..5 : kind[k] = "blank"},
         attr  |-> [k \in 1..5 |-> IF k = Root THEN "targetNamespace" :> <<"n1">> ELSE << >>],
         decl  |-> [k \in 1..5 |-> << >>]]
      Parents(up, kind) == \A k \in 2..5 : kind[up[k]] \in {"a", "b"}
      OneText(up, kind) == \A k \in 2..4 : ~(kind[k] = "blank" /\ Sibling(up)[k] # Nil
                                              /\ kind[Sibling(up)[k]] = "blank")
  IN {Made(p[1], p[2]) : p \in {q \in Ups \X Kinds : Parents(q[1], q[2]) /\ OneText(q[1], q[2])}}

-----------------------------------------------------------------------------
\* Nodes of trees, in document order: each with the number of its parent, or
\* Nil.  Joined appends a tree and puts it below node up.
Joined(rows, tree, up) ==
  rows \o [k \in DOMAIN tree |->
             [tree[k] EXCEPT !.up = IF @ = Nil THEN up ELSE @ + Len(rows)]]

\* An element with its attributes and children.
E(name, attr, kids) ==
  FoldLeft(LAMBDA rows, kid : Joined(rows, kid, Root),
           <<[up |-> Nil, name |-> name, attr |-> attr, decl |-> << >>]>>,
           kids)

With(tree, decl) == [tree EXCEPT ![Root].decl = decl]

Called(name) == "name" :> <<name>>

Declared == "t" :> "n1" @@ "u" :> "n2"

\* The documents of trees, the first one Root's.  The registry is filled as
\* Registry fills it for distinct names: a type has its own name or that of the
\* element or attribute it stands in, its parent is the class around it, and a
\* type that extends another is entered with its extension.
ForestOf(trees) ==
  LET rows == FoldLeft(LAMBDA before, tree : Joined(before, tree, Nil), << >>, trees)
      up   == [k \in DOMAIN rows |-> rows[k].up]
      above[k \in 0..Len(rows)] == IF k = Nil THEN {} ELSE {k} \cup above[up[k]]
      Is(k, kind) == rows[k].name = kind
      Registered(kind) == {k \in DOMAIN rows : Is(k, kind)}
      Own(k) == Type(rows[IF "name" \in DOMAIN rows[k].attr THEN k ELSE up[k]].attr["name"])
      Key(k) == LET schema == CHOOSE j \in above[k] : Is(j, "schema")
                IN <<Type(rows[schema].attr["targetNamespace"]), Own(k)>>
      Around(k) == {j \in above[up[k]] : Is(j, "complexType")}
      Nearest(k) == CHOOSE j \in Around(k) : \A i \in Around(k) : i <= j
      Extension(k) == {x \in DOMAIN rows : Is(x, "extension") /\ up[up[x]] = k}
      Node(k) == IF Extension(k) = {} THEN k ELSE CHOOSE x \in Extension(k) : TRUE
      Map(ks, Value(_)) ==
        [key \in {Key(k) : k \in ks} |-> Value(CHOOSE k \in ks : Key(k) = key)]
      types   == Registered("complexType")
      simples == Registered("simpleType")
  IN [up |-> up, child |-> Child(up), next |-> Sibling(up),
      name  |-> [k \in DOMAIN rows |-> rows[k].name],
      attr  |-> [k \in DOMAIN rows |-> rows[k].attr],
      decl  |-> [k \in DOMAIN rows |-> rows[k].decl],
      blank |-> {},
      types   |-> Map(types, Node),
      simples |-> Map(simples, LAMBDA k : k),
      parents |-> Map({k \in types \cup simples : Around(k) # {}}, LAMBDA k : Own(Nearest(k)))]

DocumentOf(tree) == ForestOf(<<With(tree, Declared)>>)

-----------------------------------------------------------------------------
(* For GetMessageParameters: two schemas, one message.                     *)

Member(name) == E("element", Called(name), << >>)
RefTo(value) == E("element", "ref" :> value, << >>)
Sequence(members) == E("sequence", << >>, members)
Anonymous(members) == E("complexType", << >>, <<Sequence(members)>>)

FirstElements ==
  {E("element", Called("a"), << >>),
   E("element", Called("a") @@ "type" :> <<"t", "T">>, << >>),
   E("element", Called("a") @@ "ref" :> <<"u", "a">>, << >>),
   E("element", Called("a"), <<Anonymous(<<Member("x"), Member("y")>>)>>),
   E("element", Called("a"), <<Anonymous(<<RefTo(<<"t", "b">>)>>)>>)}

SecondElements ==
  {E("element", Called("b") @@ "type" :> <<"t", "T">>, << >>),
   E("element", Called("b"), <<Anonymous(<<RefTo(<<"t", "a">>)>>)>>),
   E("element", Called("b"), <<Anonymous(<<Member("x"), RefTo(<<"t", "a">>)>>)>>)}

NamedTypes ==
  {E("complexType", Called("T"), <<Sequence(<<Member("x")>>)>>),
   E("complexType", Called("T"), <<E("all", << >>, <<RefTo(<<"t", "b">>)>>)>>),
   E("complexType", Called("T"),
     <<E("complexContent", << >>, <<E("extension", "base" :> <<"t", "B">>,
                                      <<Sequence(<<Member("x")>>)>>)>>)>>)}

Importing(href) ==
  IF href = "" THEN << >> ELSE <<E("import", "namespace" :> <<href>>, << >>)>>

Part(name, attr) == E("part", Called(name) @@ attr, << >>)

PartLists ==
  LET typed == "type" :> <<"t", "T">>
  IN {<< >>,
      <<Part("p", "element" :> <<"t", "a">>)>>,
      <<Part("p", typed)>>,
      <<Part("p", "type" :> <<"u", "T">>)>>,
      <<Part("p", typed), Part("q", typed)>>,
      <<Part("p", typed), Part("q", "element" :> <<"u", "a">>)>>,
      <<Part("p", typed), Part("q", typed), Part("r", "element" :> <<"v", "a">>)>>}

Calls ==
  {DocumentOf(
     E("definitions", Called("d"),
       <<E("types", << >>,
           <<E("schema", "targetNamespace" :> <<"n1">>, Importing(i1) \o <<a, b, type>>),
             E("schema", "targetNamespace" :> <<"n2">>,
               Importing(i2) \o <<E("element", Called("a"), <<Anonymous(<<Member("z")>>)>>)>>)>>),
         E("message", Called("M"), parts)>>)) :
   i1 \in {"", "n2", "n9"}, i2 \in {"", "n1"}, a \in FirstElements, b \in SecondElements,
   type \in NamedTypes, parts \in PartLists}

-----------------------------------------------------------------------------
(* For the other queries: two portTypes and bindings with operations that  *)
(* may have one name, with input or output.                                *)

Op(name, way, id) ==
  E("operation", Called(name), <<E(way, "message" :> <<"t", id>>, << >>)>>)

Ops(id) ==
  {<< >>} \cup {<<Op(n, w, id \o "1")>> : n \in {"o", "r"}, w \in {"input", "output"}}
  \cup {<<Op(n, v, id \o "1"), Op(m, w, id \o "2")>> :
          n \in {"o", "r"}, m \in {"o", "r"}, v \in {"input", "output"}, w \in {"input", "output"}}

Interfaces ==
  {DocumentOf(
     E("definitions", << >>,
       <<E("message", Called("M"), << >>)>>
       \o <<E("portType", Called("P"), ops1), E("binding", Called("P"), ops2),
            E("portType", Called(second), ops2), E("binding", Called(second), ops1)>>)) :
   ops1 \in Ops("p"), ops2 \in Ops("q"), second \in {"P", "Q"}}
=============================================================================
