----------------------------- MODULE MCSchemas -----------------------------
(***************************************************************************)
(* Pairs of schemas that TLC resolves types in: the main document, of n1,  *)
(* and one it imports, of n2.  Each has a class with a member and an       *)
(* attribute, and what they may name.                                      *)
(***************************************************************************)
EXTENDS MCDocuments

Schema(ns, decl, kids) == With(E("schema", "targetNamespace" :> <<ns>>, kids), decl)

Simple(attr, base) ==
  E("simpleType", attr, <<E("restriction", "base" :> base, << >>)>>)

Class(attr, member, attribute) ==
  E("complexType", attr, <<E("sequence", << >>, <<member>>), attribute>>)

Derived(name, base, decl) ==
  E("complexType", Called(name),
    <<E("complexContent", << >>, <<With(E("extension", "base" :> base, << >>), decl)>>)>>)

ArrayOf(item) ==
  E("complexType", Called("Y"),
    <<E("complexContent", << >>,
        <<E("restriction", "base" :> <<"s", "Array">>,
            <<E("attribute", "arrayType" :> item, << >>)>>)>>)>>)

Typed(name, value) == E("element", Called(name) @@ "type" :> value, << >>)

Attr(value) == E("attribute", Called("q") @@ "type" :> value, << >>)

InnerAttr == E("attribute", Called("q"), <<Simple(<< >>, <<"x", "long">>)>>)

Deep == E("element", Called("m"),
          <<Class(<< >>, E("element", Called("m2"), <<Class(<< >>, Typed("m3", <<"x", "int">>), InnerAttr)>>),
                  Attr(<<"x", "int">>))>>)

AllMembers ==
  {Typed("m", v) : v \in {<<"t", "S">>, <<"u", "S">>, <<"S">>, <<"x", "int">>, <<"t", "D">>, <<"v", "S">>}}
  \cup {E("element", Called("m") @@ "ref" :> r, << >>) : r \in {<<"t", "g">>, <<"u", "g">>, <<"g">>}}
  \cup {Deep, E("element", Called("m"), <<Simple(<< >>, <<"x", "int">>)>>)}

AllAttributes == {Attr(<<"x", "int">>), Attr(<<"t", "S">>), Attr(<<"x", "float">>), InnerAttr}

Prefixed == "t" :> "n1" @@ "u" :> "n2" @@ "x" :> "xs"

\* What the main document declares at its root, at class C and at the extension
\* of class D.
Declarations ==
  {<<Prefixed, << >>, << >>>>, <<Prefixed, "t" :> "n2", << >>>>,
   <<Prefixed, "x" :> "xs" @@ "t" :> "n1", "t" :> "n2">>,
   <<"" :> "n1" @@ "u" :> "n2" @@ "x" :> "xs", << >>, << >>>>,
   <<"" :> "xs" @@ "t" :> "n1" @@ "x" :> "xs", << >>, << >>>>,
   << << >>, Prefixed, Prefixed>>, << << >>, "" :> "n1" @@ "x" :> "xs", "" :> "n1">>}

ImportedDeclarations ==
  {"t" :> "n2" @@ "x" :> "xs", "x" :> "xs", "n2" :> "n2" @@ "x" :> "n1" @@ "t" :> "xs"}

TwoSchemas(declared, imported, member, attribute, base) ==
  ForestOf(
    <<Schema("n1", declared[1],
        <<Simple(Called("S"), <<"x", "boolean">>), Typed("g", <<"t", "S">>),
          With(Class(Called("C"), member, attribute), declared[2]),
          Derived("D", base, declared[3]), ArrayOf(<<"t", "C">>)>>),
      Schema("n2", imported,
        <<Simple(Called("S"), <<"x", "int">>), Typed("g", <<"x", "string">>),
          Class(Called("C"), Deep, InnerAttr)>>)>>)

AllSchemas ==
  {TwoSchemas(declared, imported, member, attribute, <<"t", "C">>) :
     declared \in Declarations, imported \in ImportedDeclarations,
     member \in AllMembers, attribute \in AllAttributes}
  \cup {TwoSchemas(declared, imported, Deep, InnerAttr, base) :
     declared \in Declarations, imported \in ImportedDeclarations, base \in {<<"C">>, <<"u", "C">>}}

\* n1 and n2 stand for two URIs, n2 for one without a colon.
Spaces == "n1" :> "N1" @@ "n2" :> "N2" @@ "xs" :> "XS" @@ "" :> ""

WordsOf == "n1" :> <<"http", "//n1">> @@ "n2" :> <<"n2">> @@ "xs" :> <<"http", "//xs">>

ClassNames ==
  [n \in {"S", "C", "D", "Y", "m", "m2", "m3", "q", "g", "int", "boolean", "long", "float", "string", "//n1"} |->
     CASE n = "m" -> "M" [] n = "m2" -> "M2" [] n = "m3" -> "M3" [] n = "q" -> "Q" [] n = "g" -> "G"
       [] n = "//n1" -> "__n1" [] n \notin {"m", "m2", "m3", "q", "g", "//n1"} -> n]
=============================================================================
