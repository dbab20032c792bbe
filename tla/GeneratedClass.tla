--------------------------- MODULE GeneratedClass ---------------------------
(***************************************************************************)
(* An object of a class the generator writes, under any sequence of calls: *)
(* the constructor, clear, FromXml, ToString, IsSet and the setters, as    *)
(* the format strings of ComplexType emit them.                            *)
(*                                                                         *)
(* A class is [base, members, attrs, mixed], the base "" or a class that   *)
(* it extends.  A member is [name, kind, class, named, vector, optional,   *)
(* default]: kind is that of the C++ type, class that of a "complex" one,  *)
(* named says it is a simpleType of the schema; an attribute, of a builtin *)
(* type, is [name, kind, optional, default].  Values of any kind are       *)
(* strings; a document is [elem, attr, text, inner]: the texts or          *)
(* subdocuments under each member name, those of a base included, the      *)
(* attributes there are, the text it begins with, and the subdocuments     *)
(* under the name of the class itself.                                     *)
(***************************************************************************)
EXTENDS Naturals, Sequences, SequencesExt

CONSTANTS Classes,     \* class name -> class
          Roots,       \* <<class, garbage>> of the objects looked at
          Documents,   \* class name -> the documents FromXml is given
          NoDefault,
          MaxItems     \* bound: items in a vector of the object looked at

VARIABLES
  class,     \* the object's class
  garbage,   \* what a number or bool nobody has initialised holds
  obj        \* the object

vars == <<class, garbage, obj>>

Values(s) == {s[i] : i \in DOMAIN s}

NamesOf(fields) == {f.name : f \in Values(fields)}

Base(c) == Classes[c].base

HasBase(c) == Base(c) # ""

-----------------------------------------------------------------------------
(* Conversions: atoi, atof and the test for booleans when reading,         *)
(* l2string, which takes a long, when writing.                             *)

Numbers == {"0", "1"}

Doubles == Numbers \cup {"1.5"}

\* Broken: a boolean is not tested as a number.
ReadWords(kind, text) ==
  CASE kind = "string"  -> text
    [] kind = "number"  -> IF text \in Numbers THEN text ELSE "0"
    [] kind = "double"  -> IF text \in Doubles THEN text ELSE "0"
    [] kind = "boolean" -> IF text \in {"true", "yes"} THEN "true" ELSE "false"

Read(kind, text) ==
  CASE kind = "string"  -> text
    [] kind = "number"  -> IF text \in Numbers THEN text ELSE "0"
    [] kind = "double"  -> IF text \in Doubles THEN text ELSE "0"
    [] kind = "boolean" -> IF text \in {"true", "yes", "1"} THEN "true" ELSE "false"

Whole(v) == IF v = "1.5" THEN "1" ELSE v

Show(kind, v) ==
  CASE kind = "boolean" -> IF v = "true" THEN "1" ELSE "0"
    [] kind = "double"  -> Whole(v)
    [] kind \notin {"boolean", "double"} -> v

\* The value of a variable its constructor does not set, g one bit of noise.
Noise(kind, g) ==
  CASE kind = "string"             -> ""
    [] kind \in {"number", "double"} -> IF g THEN "1" ELSE "0"
    [] kind = "boolean"            -> IF g THEN "true" ELSE "false"

Zero(kind) == Noise(kind, FALSE)

\* A default is emitted as a string literal unless it is a number, and a
\* pointer to one converts to the bool true.
MemberDefault(m) == IF m.kind = "boolean" THEN "true" ELSE m.default

\* These have no _is_set_ flag.
Computed(m) == m.vector \/ m.kind = "complex"

Flags(c) == {m.name : m \in {n \in Values(Classes[c].members) : ~Computed(n)}}

Member(c, n) == CHOOSE m \in Values(Classes[c].members) : m.name = n

Attribute(c, n) == CHOOSE a \in Values(Classes[c].attrs) : a.name = n

-----------------------------------------------------------------------------
\* The constructor (reset_members).
RECURSIVE Fresh(_, _)
FreshMember(m, g) ==
  CASE m.vector                                  -> << >>
    [] m.kind = "complex" /\ ~m.vector           -> Fresh(m.class, g)
    [] ~Computed(m) /\ ~m.named /\ m.default # NoDefault -> MemberDefault(m)
    [] ~Computed(m) /\ ~m.named /\ m.default = NoDefault ->
         IF m.kind \in {"number", "double"} THEN "0" ELSE Noise(m.kind, g)
    [] ~Computed(m) /\ m.named                   -> Noise(m.kind, g)

FreshAttribute(a) == IF a.default # NoDefault THEN a.default ELSE Zero(a.kind)

Fresh(c, g) ==
  [base    |-> IF HasBase(c) THEN Fresh(Base(c), g) ELSE << >>,
   elem    |-> [n \in NamesOf(Classes[c].members) |-> FreshMember(Member(c, n), g)],
   set     |-> [n \in Flags(c) |-> Member(c, n).default # NoDefault],
   attr    |-> [n \in NamesOf(Classes[c].attrs) |-> FreshAttribute(Attribute(c, n))],
   attrSet |-> [n \in NamesOf(Classes[c].attrs) |-> Attribute(c, n).default # NoDefault],
   mixed   |-> "",
   setted  |-> FALSE]

\* Broken: a child object is left as it is.
ClearedShallow(m, v) ==
  CASE m.vector                        -> << >>
    [] ~m.vector /\ m.named            -> v
    [] ~m.vector /\ m.kind = "complex" -> v
    [] ~Computed(m) /\ ~m.named        ->
         IF m.default # NoDefault THEN MemberDefault(m) ELSE Zero(m.kind)

\* clear (clear_members): a simpleType member and the mixed content stay.
RECURSIVE Cleared(_, _)
ClearedMember(m, v) ==
  CASE m.vector                        -> << >>
    [] ~m.vector /\ m.named            -> v
    [] ~m.vector /\ m.kind = "complex" -> Cleared(m.class, v)
    [] ~Computed(m) /\ ~m.named        ->
         IF m.default # NoDefault THEN MemberDefault(m) ELSE Zero(m.kind)

Cleared(c, o) ==
  [base    |-> IF HasBase(c) THEN Cleared(Base(c), o.base) ELSE << >>,
   elem    |-> [n \in DOMAIN o.elem |-> ClearedMember(Member(c, n), o.elem[n])],
   set     |-> [n \in Flags(c) |-> Member(c, n).default # NoDefault],
   attr    |-> [n \in DOMAIN o.attr |-> FreshAttribute(Attribute(c, n))],
   attrSet |-> [n \in DOMAIN o.attr |-> Attribute(c, n).default # NoDefault],
   mixed   |-> o.mixed,
   setted  |-> FALSE]

-----------------------------------------------------------------------------
\* IsSet: any member, any attribute, or some mixed content; none of the base.
RECURSIVE IsSet(_, _)
IsSet(c, o) ==
  \/ \E m \in Values(Classes[c].members) :
        CASE m.vector                        -> o.elem[m.name] # << >>
          [] ~m.vector /\ m.kind = "complex" -> IsSet(m.class, o.elem[m.name])
          [] ~Computed(m)                    -> o.set[m.name]
  \/ \E n \in DOMAIN o.attrSet : o.attrSet[n]
  \/ Classes[c].mixed /\ o.mixed # ""

-----------------------------------------------------------------------------
\* FromXml (from_xml): [ok, obj].  Nothing is cleared first; the base reads
\* what it finds, then the members are read in order up to one that fails, then
\* the attributes.
RECURSIVE FromXml(_, _, _, _)

SetElem(o, m, v) == [o EXCEPT !.elem[m.name] = v, !.set[m.name] = TRUE]

\* The item of a vector, or what FromXml makes of it.
Item(m, d, g) ==
  IF m.kind = "complex" THEN FromXml(m.class, Fresh(m.class, g), d, g)
  ELSE [ok |-> TRUE, obj |-> Read(m.kind, d)]

\* An item that fails, or comes after one, is not appended.
Added(m, acc, r) ==
  IF acc.ok /\ r.ok THEN [acc EXCEPT !.obj.elem[m.name] = Append(@, r.obj)]
  ELSE [acc EXCEPT !.ok = FALSE]

ReadItems(m, o, items, g) ==
  FoldLeft(LAMBDA acc, d : Added(m, acc, Item(m, d, g)), [ok |-> TRUE, obj |-> o], items)

ReadChild(m, o, r) == [ok |-> r.ok, obj |-> [o EXCEPT !.elem[m.name] = r.obj]]

\* Broken: a member that is set keeps its value.
ReadMemberOnce(m, o, d, g) ==
  LET found == d.elem[m.name] IN
  CASE found = << >> /\ ~m.optional -> [ok |-> FALSE, obj |-> o]
    [] found = << >> /\ m.optional  -> [ok |-> TRUE, obj |-> o]
    [] found # << >> /\ m.vector    -> ReadItems(m, o, found, g)
    [] found # << >> /\ ~m.vector /\ m.kind = "complex" ->
         ReadChild(m, o, FromXml(m.class, o.elem[m.name], found[1], g))
    [] found # << >> /\ ~Computed(m) ->
         [ok |-> TRUE,
          obj |-> IF o.set[m.name] THEN o ELSE SetElem(o, m, Read(m.kind, found[1]))]

ReadMember(m, o, d, g) ==
  LET found == d.elem[m.name] IN
  CASE found = << >> /\ ~m.optional -> [ok |-> FALSE, obj |-> o]
    [] found = << >> /\ m.optional  -> [ok |-> TRUE, obj |-> o]
    [] found # << >> /\ m.vector    -> ReadItems(m, o, found, g)
    [] found # << >> /\ ~m.vector /\ m.kind = "complex" ->
         ReadChild(m, o, FromXml(m.class, o.elem[m.name], found[1], g))
    [] found # << >> /\ ~Computed(m) ->
         [ok |-> TRUE, obj |-> SetElem(o, m, Read(m.kind, found[1]))]

ReadMembers(c, o, d, g) ==
  FoldLeft(LAMBDA acc, m : IF acc.ok THEN ReadMember(m, acc.obj, d, g) ELSE acc,
           [ok |-> TRUE, obj |-> o], Classes[c].members)

\* A required attribute that is missing reads as the empty string.
ReadAttributes(c, o, d) ==
  LET Given(n) == n \in DOMAIN d.attr
      Reads(n) == Given(n) \/ ~Attribute(c, n).optional
  IN [o EXCEPT
        !.attr = [n \in DOMAIN o.attr |->
                    IF Reads(n)
                    THEN Read(Attribute(c, n).kind, IF Given(n) THEN d.attr[n] ELSE "")
                    ELSE @[n]],
        !.attrSet = [n \in DOMAIN o.attr |-> @[n] \/ Reads(n)],
        !.mixed = IF Classes[c].mixed THEN d.text ELSE @]

\* Whether the base could read does not matter.
Begun(c, o, d, g) ==
  [o EXCEPT !.setted = TRUE,
            !.base = IF HasBase(c) THEN FromXml(Base(c), @, d, g).obj ELSE @]

\* The attributes are read if all members could be.
Completed(c, d, r) == IF r.ok THEN [r EXCEPT !.obj = ReadAttributes(c, @, d)] ELSE r

\* Broken: the object is cleared first.
FromXmlClearing(c, o, d, g) ==
  Completed(c, d, ReadMembers(c, Begun(c, Cleared(c, o), d, g), d, g))

FromXml(c, o, d, g) == Completed(c, d, ReadMembers(c, Begun(c, o, d, g), d, g))

-----------------------------------------------------------------------------
\* ToString (to_string) with a name, as the document it writes.
RECURSIVE Text(_, _)

ShowMember(c, o, m) ==
  LET v == o.elem[m.name] IN
  CASE m.vector ->
         [i \in DOMAIN v |-> IF m.kind = "complex" THEN Text(m.class, v[i])
                                                   ELSE Show(m.kind, v[i])]
    [] ~m.vector /\ m.kind = "complex" ->
         IF IsSet(m.class, v) THEN <<Text(m.class, v)>> ELSE << >>
    [] ~Computed(m) ->
         IF m.optional /\ ~o.set[m.name] THEN << >> ELSE <<Show(m.kind, v)>>

\* A string attribute is left out when it is empty.
ShownAttributes(c, o) ==
  {n \in DOMAIN o.attr :
     /\ Attribute(c, n).optional => o.attrSet[n]
     /\ Attribute(c, n).kind = "string" => o.attr[n] # ""}

\* The names of all members, those of the base too, with no element.
Nothing(c) ==
  LET all[d \in DOMAIN Classes] ==
        NamesOf(Classes[d].members) \cup (IF HasBase(d) THEN all[Base(d)] ELSE {})
  IN [n \in all[c] |-> << >>]

\* A text is read back only where no element stands before it.
First(elem, text) == IF \A n \in DOMAIN elem : elem[n] = << >> THEN text ELSE ""

Empty(c) == [elem |-> Nothing(c), attr |-> << >>, text |-> "", inner |-> << >>]

\* The members and the mixed content of a class, more those of one that extends it.
Before(own, mixed, more) ==
  [elem |-> own @@ more.elem, text |-> First(own, mixed \o First(more.elem, more.text))]

Nought == [elem |-> << >>, text |-> ""]

\* The element of o, with contents and elements of its class's name in it.
Holding(c, o, contents, inner) ==
  [elem |-> contents.elem @@ Nothing(c), text |-> contents.text, inner |-> inner,
   attr |-> [n \in ShownAttributes(c, o) |-> Show(Attribute(c, n).kind, o.attr[n])]]

\* The element of o with more behind its members, those of a class that extends
\* c.  The base writes itself, with all these, as an element within; or, with
\* nothing set, as two empty ones around them.
RECURSIVE Element(_, _, _)

Around(c, o, contents) ==
  CASE ~HasBase(c) -> Holding(c, o, contents, << >>)
    [] HasBase(c) /\ (IsSet(Base(c), o.base) \/ ~o.base.setted) ->
         Holding(c, o, Nought, <<Element(Base(c), o.base, contents)>>)
    [] HasBase(c) /\ ~(IsSet(Base(c), o.base) \/ ~o.base.setted) ->
         Holding(c, o, [contents EXCEPT !.text = ""], <<Empty(Base(c)), Empty(Base(c))>>)

Element(c, o, more) ==
  IF IsSet(c, o) \/ ~o.setted
  THEN LET own == [n \in DOMAIN o.elem |-> ShowMember(c, o, Member(c, n))]
       IN Around(c, o, Before(own, o.mixed, more))
  ELSE Empty(c)

Text(c, o) == Element(c, o, Nought)

-----------------------------------------------------------------------------
(* The calls of a program that holds one object. *)

KindValues(kind) ==
  CASE kind = "string"  -> {"", "x"}
    [] kind = "number"  -> Numbers
    [] kind = "double"  -> Doubles
    [] kind = "boolean" -> {"true", "false"}

\* The objects one Set call turns o into; a vector is set whole.
SimpleSet(c, o) ==
  UNION {{SetElem(o, m, v) : v \in KindValues(m.kind)} :
           m \in {n \in Values(Classes[c].members) : ~Computed(n)}}

AttributeSet(c, o) ==
  UNION {{[o EXCEPT !.attr[a.name] = v, !.attrSet[a.name] = TRUE] :
            v \in KindValues(a.kind)} : a \in Values(Classes[c].attrs)}

\* Broken: every class has the setter of mixed content.
MixedSetAlways(c, o) == {[o EXCEPT !.mixed = v] : v \in {"", "x"}}

MixedSet(c, o) == IF Classes[c].mixed THEN {[o EXCEPT !.mixed = v] : v \in {"", "x"}} ELSE {}

\* What a program may put into a vector or use as a child: new objects, or
\* new ones parsed.
Items(m, g) ==
  IF m.kind = "complex"
  THEN {Fresh(m.class, g)} \cup {Item(m, d, g).obj : d \in Documents[m.class]}
  ELSE KindValues(m.kind)

VectorSet(c, o, g) ==
  UNION {{[o EXCEPT !.elem[m.name] = v] :
            v \in {<< >>} \cup {Append(o.elem[m.name], i) : i \in Items(m, g)}} :
           m \in {n \in Values(Classes[c].members) :
                    n.vector /\ Len(o.elem[n.name]) < MaxItems}}

ChildSet(c, o, g) ==
  UNION {{[o EXCEPT !.elem[m.name] = v] : v \in Items(m, g)} :
           m \in {n \in Values(Classes[c].members) : ~n.vector /\ n.kind = "complex"}}

Init ==
  /\ \E r \in Roots : class = r[1] /\ garbage = r[2]
  /\ obj = Fresh(class, garbage)

Updated(objects) ==
  /\ obj' \in objects
  /\ UNCHANGED <<class, garbage>>

SetMember == Updated(SimpleSet(class, obj))

SetAttribute == Updated(AttributeSet(class, obj))

SetMixed == Updated(MixedSet(class, obj))

SetVector == Updated(VectorSet(class, obj, garbage))

SetChild == Updated(ChildSet(class, obj, garbage))

SetNodeState == Updated({[obj EXCEPT !.setted = s] : s \in BOOLEAN})

\* The non-const Get<Member> returns a reference: a call on the child.
ChangeChild ==
  \E m \in {n \in Values(Classes[class].members) : ~n.vector /\ n.kind = "complex"} :
    LET child == obj.elem[m.name]
        Calls == SimpleSet(m.class, child) \cup AttributeSet(m.class, child)
                 \cup MixedSet(m.class, child) \cup {Cleared(m.class, child)}
    IN Updated({[obj EXCEPT !.elem[m.name] = v] : v \in Calls})

\* The setters that the class has from its base.
ChangeBase ==
  /\ HasBase(class)
  /\ LET c == Base(class)
         Calls == SimpleSet(c, obj.base) \cup AttributeSet(c, obj.base) \cup MixedSet(c, obj.base)
                  \cup VectorSet(c, obj.base, garbage) \cup ChildSet(c, obj.base, garbage)
     IN Updated({[obj EXCEPT !.base = v] : v \in Calls})

Clear == Updated({Cleared(class, obj)})

\* No vector of the object outgrows the bound.
Fits(c, o) == \A m \in Values(Classes[c].members) : m.vector => Len(o.elem[m.name]) <= MaxItems

\* The object of a parse that fails is used all the same.
Parse ==
  \E d \in Documents[class] :
    /\ obj' = FromXml(class, obj, d, garbage).obj
    /\ Fits(class, obj') /\ (HasBase(class) => Fits(Base(class), obj'.base))
    /\ UNCHANGED <<class, garbage>>

Next ==
  \/ SetMember \/ SetAttribute \/ SetMixed \/ SetVector \/ SetChild
  \/ SetNodeState \/ ChangeChild \/ ChangeBase \/ Clear \/ Parse

Spec == Init /\ [][Next]_vars

-----------------------------------------------------------------------------
\* The fields a class declares, of their kinds, at every depth.
RECURSIVE HasShape(_, _)
HasShape(c, o) ==
  /\ IF HasBase(c) THEN HasShape(Base(c), o.base) ELSE o.base = << >>
  /\ DOMAIN o.elem = NamesOf(Classes[c].members)
  /\ \A m \in Values(Classes[c].members) :
       LET v == o.elem[m.name]
           Right(x) == IF m.kind = "complex" THEN HasShape(m.class, x) ELSE x \in STRING
       IN IF m.vector THEN \A i \in DOMAIN v : Right(v[i]) ELSE Right(v)
  /\ DOMAIN o.set = Flags(c) /\ \A n \in Flags(c) : o.set[n] \in BOOLEAN
  /\ DOMAIN o.attr = NamesOf(Classes[c].attrs) /\ DOMAIN o.attrSet = DOMAIN o.attr
  /\ o.mixed \in STRING /\ o.setted \in BOOLEAN

\* The object has the fields its class declares, children and items included,
\* and no mixed content unless its class is mixed.
TypeOK ==
  /\ <<class, garbage>> \in Roots
  /\ HasShape(class, obj)
  /\ ~Classes[class].mixed => obj.mixed = ""

\* Everything the schema requires has been given, at every depth; and what no
\* document can carry is avoided: mixed content after a member, an empty
\* optional attribute that has a default, children with a base, and a base of an
\* object that has nothing set of its own.
RECURSIVE Complete(_, _)
Complete(c, o) ==
  /\ HasBase(c) => /\ IsSet(c, o) /\ ~Classes[c].mixed
                   /\ IF IsSet(Base(c), o.base) THEN Complete(Base(c), o.base) ELSE o.base.setted
  /\ \A m \in Values(Classes[c].members) :
       LET v == o.elem[m.name]
           Carried(x) == ~HasBase(m.class) /\ Complete(m.class, x) IN
       CASE m.vector -> /\ ~m.optional => v # << >>
                        /\ m.kind = "complex" => \A i \in DOMAIN v : Carried(v[i])
         [] ~m.vector /\ m.kind = "complex" ->
              IF IsSet(m.class, v) THEN Carried(v) ELSE m.optional
         [] ~Computed(m) -> m.optional \/ o.set[m.name]
  /\ \A a \in Values(Classes[c].attrs) : ~a.optional => o.attrSet[a.name]
  /\ \A a \in Values(Classes[c].attrs) :
       a.kind = "string" /\ a.optional /\ a.default # NoDefault => o.attr[a.name] # ""
  /\ o.mixed # "" => \A m \in Values(Classes[c].members) :
                       IF Computed(m) THEN ShowMember(c, o, m) = << >>
                       ELSE m.optional /\ ~o.set[m.name]

\* Every value given to o is in n, a double without its fraction.
RECURSIVE Keeps(_, _, _)
Keeps(c, o, n) ==
  LET Same(kind, v, w) == w = IF kind = "double" THEN Whole(v) ELSE v IN
  /\ HasBase(c) /\ IsSet(Base(c), o.base) => Keeps(Base(c), o.base, n.base)
  /\ \A m \in Values(Classes[c].members) :
       LET was == o.elem[m.name]
           now == n.elem[m.name]
           Kept(v, w) == IF m.kind = "complex" THEN Keeps(m.class, v, w) ELSE Same(m.kind, v, w)
       IN CASE m.vector -> Len(was) = Len(now) /\ \A i \in DOMAIN was : Kept(was[i], now[i])
            [] ~m.vector /\ m.kind = "complex" -> IsSet(m.class, was) => Kept(was, now)
            [] ~Computed(m) -> o.set[m.name] => n.set[m.name] /\ Kept(was, now)
  /\ \A a \in DOMAIN o.attr :
       o.attrSet[a] /\ o.attr[a] # "" =>
         n.attrSet[a] /\ Same(Attribute(c, a).kind, o.attr[a], n.attr[a])
  /\ o.mixed = n.mixed

\* What FromXml would have to be given of a document: the contents of the
\* element that a base has written, with the attributes of both.
RECURSIVE Unwrapped(_)
Unwrapped(d) ==
  IF Len(d.inner) # 1 THEN d
  ELSE [Unwrapped(d.inner[1]) EXCEPT !.attr = d.attr @@ @]

\* What a new object becomes.
Parsed(c, d) == FromXml(c, Fresh(c, garbage), d, garbage)

\* What ToString writes of a complete object, whatever calls built it, a new
\* object accepts with FromXml, holds every value of but fractions, and writes
\* the same: no other value is lost and no default comes back in place of one
\* (from_xml against to_string).  For a class with a base that is so of the
\* element within, which FromXml itself does not look into.
RoundTrip ==
  Complete(class, obj) =>
    \E t \in {Text(class, obj)} : \E r \in {Parsed(class, Unwrapped(t))} :
      r.ok /\ Keeps(class, obj, r.obj) /\ Text(class, r.obj) = t

\* What clear resets: no simpleType member outside a vector, no mixed content.
RECURSIVE Resettable(_)
Resettable(c) ==
  /\ ~Classes[c].mixed
  /\ HasBase(c) => Resettable(Base(c))
  /\ \A m \in Values(Classes[c].members) :
       ~m.vector => ~m.named /\ (m.kind = "complex" => Resettable(m.class))

\* After clear an object is a new one, at every depth, whatever was parsed
\* into it before, completely or up to a failure (clear_members against
\* reset_members).
ClearForgets == Resettable(class) => Cleared(class, obj) = Fresh(class, FALSE)

\* The values o and n print in common: what n shows, o shows too.
RECURSIVE Shows(_, _, _)
Shows(c, o, n) ==
  /\ \A m \in Values(Classes[c].members) :
       LET shown == ShowMember(c, n, m)
           now   == ShowMember(c, o, m)
       IN shown # << >> =>
            CASE m.vector -> IsSuffix(shown, now)
              [] ~m.vector /\ m.kind = "complex" ->
                   now # << >> /\ Shows(m.class, o.elem[m.name], n.elem[m.name])
              [] ~Computed(m) -> now = shown
  /\ \A a \in ShownAttributes(c, n) : o.attr[a] = n.attr[a]

\* Without defaults, a document shows nothing its class did not read from it.
RECURSIVE Plain(_)
Plain(c) ==
  /\ HasBase(c) => Plain(Base(c))
  /\ \A f \in Values(Classes[c].members) : f.kind = "complex" => Plain(f.class)
  /\ \A f \in Values(Classes[c].members) : ~Computed(f) => f.default = NoDefault
  /\ \A f \in Values(Classes[c].attrs) : f.default = NoDefault

Latest(c, again, first, d) ==
  /\ again.ok = first.ok /\ (first.ok => Shows(c, again.obj, first.obj))
  /\ HasBase(c) => LET base == Parsed(Base(c), d)
                   IN base.ok => Shows(Base(c), again.obj.base, base.obj)

\* A document an object accepts is in the object afterwards as it would be in
\* a new one, however the object was used before, failed parses included: the
\* latest values win, and a vector ends with the latest items (from_xml
\* clears nothing first).  So is what its base accepts in the base.
LatestWins ==
  Plain(class) =>
    \A d \in Documents[class] : Latest(class, FromXml(class, obj, d, garbage), Parsed(class, d), d)

\* What is set in the object, in its base or in a child is set afterwards.
StaysSet(c, was, now) == ~Classes[c].mixed /\ IsSet(c, was) => IsSet(c, now)

StaysSetWithin(after) ==
  /\ StaysSet(class, obj, after)
  /\ HasBase(class) => StaysSet(Base(class), obj.base, after.base)
  /\ ~Classes[class].mixed =>
       \A m \in Values(Classes[class].members) :
         ~m.vector /\ m.kind = "complex" =>
           StaysSet(m.class, obj.elem[m.name], after.elem[m.name])

\* A parse, failed or not, never makes a set object unset, at the top, in its
\* base or in a child, so it never turns what ToString would write into an
\* empty element.
ParseNeverUnsets ==
  \A d \in Documents[class] : StaysSetWithin(FromXml(class, obj, d, garbage).obj)
=============================================================================
