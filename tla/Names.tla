-------------------------------- MODULE Names --------------------------------
(***************************************************************************)
(* What the generator makes of names: Split takes a qualified name apart,  *)
(* NamespaceFromHref makes a C++ namespace of the URI of an XML namespace. *)
(* Both read their text with getword of Parse.                             *)
(*                                                                         *)
(* "A" stands for the capital of the letter "a"; "-" for every character   *)
(* that is neither letter nor digit and has no other name here.            *)
(***************************************************************************)
EXTENDS Tokenizer

CONSTANTS Hrefs,         \* URIs in three parts: see HrefsWellFormed
          Href2Prefix    \* nsmap_ of the application: some Hrefs to texts

Alnum == {"a", "z", "A"}

Mapped(t) == [i \in DOMAIN t |-> IF t[i] \in Alnum THEN t[i] ELSE "_"]

Upper(t) == IF t # << >> /\ t[1] = "a" THEN [t EXCEPT ![1] = "A"] ELSE t

Splitting(separators) == Mode(separators, FALSE, End, End, End)

Split(name) ==
  LET prefix == Word(name, Splitting({":"}), 0)
      Named(ns, local) == [NS |-> ns, Type |-> local, CName1up |-> Upper(Mapped(local))]
  IN CASE name # << >> /\ name[1] = ":" -> Named(<< >>, Tail(name))
       [] ":" \notin Range(name) -> Named(<< >>, name)
       [] name # << >> /\ name[1] # ":" /\ ":" \in Range(name) ->
            Named(prefix.ord, Word(name, Splitting({":"}), prefix.ptr).ord)

Host == Splitting({".", ":"})

\* Broken: no underscore between the labels of the host.
HostSpaceJoined(host) ==
  LET from[p \in 0..(Len(host) + 1)] ==
        LET label == Word(host, Host, p)
        IN IF label.ord = << >> THEN << >> ELSE from[label.ptr] \o label.ord
  IN from[Word(host, Host, 0).ptr]

\* The labels of a host without the first one, from the last to the second,
\* each with an underscore behind it.
HostSpace(host) ==
  LET from[p \in 0..(Len(host) + 1)] ==
        LET label == Word(host, Host, p)
        IN IF label.ord = << >> THEN << >> ELSE from[label.ptr] \o label.ord \o <<"_">>
  IN from[Word(host, Host, 0).ptr]

Renamed(href) == href \in DOMAIN Href2Prefix /\ Href2Prefix[href] # << >>

\* What stands behind the slash that ends the host.
Below(href) == IF href.path = << >> THEN << >> ELSE Tail(href.path)

\* The scheme is looked for and left out, whatever it is.
NamespaceFromHref(href) ==
  CASE Renamed(href) -> Href2Prefix[href]
    [] ~Renamed(href) /\ href.scheme # "" -> HostSpace(href.host) \o Mapped(Below(href))
    [] ~Renamed(href) /\ href.scheme = "" -> Mapped(href.host)

Dots(host) == {i \in DOMAIN host : host[i] \in {".", ":"}}

\* What Hrefs must be: scheme is all up to "://", that included, or "" without
\* it; host is a text of labels, none empty, with dots or colons between them,
\* and without blanks, slashes and underscores; path is the rest as a text, and
\* begins with a slash if there is any.  Without a scheme, host is all.
HrefsWellFormed ==
  \A u \in Hrefs :
    /\ u.scheme \in STRING /\ u.host \in Seq(STRING) /\ u.path \in Seq(STRING)
    /\ u.path # << >> => u.path[1] = "/"
    /\ u.scheme = "" => u.path = << >>
    /\ u.scheme # "" => /\ Range(u.host) \cap (Whitespace \cup {End, "_", "/"}) = {}
                       /\ \A i \in Dots(u.host) :
                            {i - 1, i + 1} \subseteq DOMAIN u.host \ Dots(u.host)

-----------------------------------------------------------------------------
\* Split finds prefix and local part of every qualified name, and no prefix in
\* a name without colon or with a single one at its start: Element makes such
\* a name of an empty prefix, a colon and its own name.  No name holds a blank.
QNamesSplit ==
  call = "new" /\ mode = Splitting({":"}) /\ Range(text) \cap Whitespace = {} =>
    /\ ":" \notin Range(text) =>
         Split(text).NS = << >> /\ Split(text).Type = text
    /\ \A colon \in 1..(Len(text) - 1) :
         text[colon] = ":" /\ (\A i \in DOMAIN text \ {colon} : text[i] # ":") =>
           /\ Split(text).NS = SubSeq(text, 1, colon - 1)
           /\ Split(text).Type = SubSeq(text, colon + 1, Len(text))

\* A host from its first dot or colon on, with dots for both.
Domain(host) ==
  LET joints == {i \in 1..Len(host) : host[i] \in {".", ":"}}
      first  == Min(joints)
  IN IF joints = {} THEN << >>
     ELSE [i \in 1..(Len(host) - first) |-> IF host[first + i] = ":" THEN "." ELSE host[first + i]]

\* Two texts agree, except where both have neither letter nor digit.
AgreeInAlnum(s, t) ==
  /\ Len(s) = Len(t)
  /\ \A i \in DOMAIN s : s[i] = t[i] \/ {s[i], t[i]} \cap Alnum = {}

\* The URIs that get one C++ namespace, unless -ns says otherwise.  Of those
\* with a scheme and as many labels in their hosts: exactly those that agree in
\* the host from its second label on, dots and colons aside, and in what is
\* behind it, signs aside.  The scheme, the first label and a lone slash at the
\* end tell no two apart: http://a.b, https://z.b and http://a.b/ are one C++
\* namespace.  Of those without a scheme: exactly those that agree but for signs.
\* It says nothing of hosts with more labels against fewer, which meet too:
\* http://a.b.c/ and http://x.c/b/ are both c_b_.
NamespacesApart ==
  call = "new" /\ mode = Host =>
    \A h \in {u \in Hrefs : u.host = text}, k \in Hrefs :
      LET meet == NamespaceFromHref(h) = NamespaceFromHref(k)
      IN ~Renamed(h) /\ ~Renamed(k) =>
           /\ h.scheme # "" /\ k.scheme # "" /\ Cardinality(Dots(h.host)) = Cardinality(Dots(k.host)) =>
                (meet <=> Domain(h.host) = Domain(k.host) /\ AgreeInAlnum(Below(h), Below(k)))
           /\ h.scheme = "" /\ k.scheme = "" => (meet <=> AgreeInAlnum(h.host, k.host))

\* Names and URIs are told apart as far as the code needs it.
NamesRead == QNamesSplit /\ NamespacesApart
=============================================================================
