----------------------------- MODULE MCProgram -----------------------------
(***************************************************************************)
(* Program for TLC: command lines of up to two options or file names, some *)
(* more that end with a file, and some that end in an option without its   *)
(* values, with every disk but one document that imports nothing; and the  *)
(* documents of MCWorlds, with one command line and few disks.            *)
(***************************************************************************)
EXTENDS Program, MCWorlds

Element(option, values) == [option |-> option, values |-> values]

OptionElements ==
  {Element(x, <<v>>) : x \in {"-namespace", "-lt"}, v \in {<<"g">>, <<"-ns">>}}
  \cup {Element("-classname", <<v>>) : v \in {<<"c", "-", "d">>, <<"s", "/", "c">>, << >>}}
  \cup {Element("-todir", << <<"d", "/", "e">> >>)}
  \cup {Element("-ns", <<h, p>>) : h \in {<<"h">>, <<"-lt">>}, p \in {<<"p">>, <<"q">>}}

FileElements ==
  {Element("file", <<v>>) : v \in {<<"a", ".", "x">>, <<"a", ".", "b", "%", ".", "x">>,
                                      <<".", "/", "a", ".", "x">>, <<"a">>}}

ShortElements ==
  {Element("short", v) : v \in {<< <<"-ns">> >>, << <<"-ns">>, <<"h">> >>, << <<"-lt">> >>}}

AllLines ==
  LET Elements == OptionElements \cup FileElements
      Ends     == Elements \cup ShortElements
  IN {<< >>} \cup {<<e>> : e \in Ends} \cup {<<d, e>> : d \in Elements, e \in Ends}
     \cup {<<c, d, e>> : c \in OptionElements, d \in OptionElements,
                         e \in {Element("file", << <<"a", ".", "x">> >>)}}

AllGlobals == {<<"g">>, <<"-ns">>, NoName}

TwoBlocks == {<<"n">>, <<"m">>}

Plain == World(Wsdl(<< >>, << >>), [kind |-> "wsdl", schemas |-> <<Schema("n2", << >>)>>])

Each(h, cc) == [f \in {"h", "cc"} |-> IF f = "h" THEN h ELSE cc]

Pairs(S) == {Each(h, cc) : h \in S, cc \in S}

AllCases ==
  {[lines  |-> AllLines, worlds |-> {Plain},
    disks  |-> Pairs(BOOLEAN) \X Pairs(BOOLEAN) \X Pairs({"absent", "old"})],
   [lines  |-> {<< Element("file", << <<"a", ".", "x">> >>) >>}, worlds |-> WsdlWorlds,
    disks  |-> {<<Each(TRUE, FALSE), Each(TRUE, TRUE), Each("old", "old")>>}]}
=============================================================================
