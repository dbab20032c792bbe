------------------------------ MODULE MCNames ------------------------------
(***************************************************************************)
(* The texts that TLC reads with Parse (module Names): all of up to        *)
(* MaxText characters over the alphabet of each way to set a Parse up, the *)
(* last two those of Split and NamespaceFromHref.                          *)
(***************************************************************************)
EXTENDS Reading

CONSTANT MaxText

\* A Parse with separators, and one that has a character for breaks too.
Splits(chars, quotes) ==
  [splits |-> chars, nospace |-> quotes, break |-> End, disable |-> End, enable |-> End]

Fields == [Splits({}, FALSE) EXCEPT !.break = "b", !.disable = "d", !.enable = "e"]

TextsOver(chars) == UNION {[1..n -> chars] : n \in 0..MaxText}

Labels == {<<"a">>, <<"z">>, <<"a", "z">>}

Hosts == Labels \cup {u \o <<d>> \o v : u \in Labels, v \in Labels, d \in {".", ":"}}
               \cup {<<"a", ".">> \o v \o <<".">> \o w : v \in Labels, w \in Labels}

AllSessions ==
  LET On(texts, m) == {[text |-> t, mode |-> m] : t \in texts}
  IN On(TextsOver({"a", " ", "n", "s"}), Splits({"s"}, FALSE))
     \cup On(TextsOver({"a", " ", "s", "="}), Splits({"s"}, FALSE))
     \cup On(TextsOver({"a", " ", "b", "d", "e"}), Fields)
     \cup On(TextsOver({"a", "s", "q"}), Splits({"s"}, TRUE))
     \cup On(TextsOver({"a", "-", ":"}), Splits({":"}, FALSE))
     \cup On(Hosts, Splits({".", ":"}, FALSE))

Paths == {<< >>, <<"/">>, <<"/", "z">>, <<"/", "z", "/">>, <<"/", "z", "-">>, <<"/", "/", "z">>}

\* Every host and path under two schemes, and names like urn:a.
AllHrefs ==
  [scheme : {"http://", "https://"}, host : Hosts, path : Paths]
  \cup [scheme : {""}, host : Hosts, path : {<< >>}]

NoPrefixes ==
  [h \in {[scheme |-> "http://", host |-> <<"a">>, path |-> << >>]} |-> <<"z">>]
=============================================================================
