------------------------------ MODULE MCWorlds ------------------------------
(***************************************************************************)
(* The worlds of Imports for TLC.  In the directory w, the first one,      *)
(* stand a document m and a schema l; in its subdirectory s a WSDL v and   *)
(* another schema l; in the root nothing.  m imports l and v by various    *)
(* locations, some of a file that is not there, and v imports l.  The      *)
(* namespace "" is none.                                                   *)
(***************************************************************************)
EXTENDS Naturals, Sequences

Start == <<"w">>

Sub == <<"w", "s">>

Naming(ns, dir, name) == [ns |-> ns, dir |-> dir, name |-> name]

Schema(ns, imports) == [ns |-> ns, imports |-> imports]

Leaf(ns) == [kind |-> "schema", schemas |-> <<Schema(ns, << >>)>>]

World(main, v) ==
  [start |-> Start, main |-> Start \o <<"m">>,
   dirs  |-> {<< >>, Start, Sub},
   files |-> [f \in {Start \o <<"m">>, Start \o <<"l">>, Start \o <<"v">>,
                     Sub \o <<"l">>, Sub \o <<"v">>} |->
                CASE f = Start \o <<"m">> -> main
                  [] f[Len(f)] = "l" -> Leaf("n1")
                  [] f[Len(f)] = "v" -> v]]

SomeImports == [ns : {"", "n1", "n2"}, dir : {<< >>, <<"s">>, <<"..">>, <<"t">>}, name : {"l", "v"}]

UpToTwo(S) == {<< >>} \cup {<<i>> : i \in S} \cup {<<i, j>> : i, j \in S}

Wsdl(first, second) == [kind |-> "wsdl", schemas |-> <<Schema("n0", first), Schema("n1", second)>>]

ImportingV == {[kind |-> "wsdl", schemas |-> <<Schema("n2", imports)>>] :
                 imports \in {<< >>, <<Naming("n1", << >>, "l")>>, <<Naming("n1", <<"..">>, "l")>>}}

WsdlWorlds ==
  {World(Wsdl(first, second), v) :
     first \in UpToTwo(SomeImports),
     second \in {<< >>, <<Naming("n1", << >>, "l")>>}, v \in ImportingV}

SchemaWorlds ==
  {World([kind |-> "schema", schemas |-> <<Schema("n0", imports)>>], v) :
     imports \in UpToTwo({Naming("n1", << >>, "l"), Naming("n1", <<"s">>, "l")}), v \in ImportingV}
=============================================================================
