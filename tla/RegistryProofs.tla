--------------------------- MODULE RegistryProofs ---------------------------
(***************************************************************************)
(* The registry mirrors the tree of the document: proofs about module      *)
(* Registry, for documents of any size, depth and names.                   *)
(*                                                                         *)
(* The invariant says what each activation on the stack stands for, which  *)
(* part of the document the loops have passed, and what lists, map and     *)
(* parents hold of that part.  Only the parts that follow UniqueNames in   *)
(* IInv need distinct names.                                               *)
(***************************************************************************)
EXTENDS Registry, SequenceFacts, FiniteSetTheorems

-----------------------------------------------------------------------------
(* The inductive invariant.                                                 *)

Active(o) == \E i \in DOMAIN stack : stack[i].node = o

Finished(o) == IF o = Root THEN done ELSE \E n \in Names : map[n] = o

\* The loop over the elements of o has passed its j-th one, that over its
\* attributes the j-th one.
Passed(o, j) == Finished(o) \/ \E i \in DOMAIN stack : stack[i].node = o /\ j < stack[i].elem

PassedAttribute(o, j) ==
  Finished(o) \/ \E i \in DOMAIN stack : stack[i].node = o /\ j < stack[i].attr

Located(f, owner) == [name |-> f.name, node |-> f.node, owner |-> owner] \in Declared

FrameInv(i) ==
  LET f == stack[i] IN
    \/ /\ f.via = "root" /\ i = 1 /\ f.node = Root /\ f.name = NoParent
       /\ next = Len(doc.types) + 1
    \/ /\ f.via = "type" /\ i = 1 /\ Located(f, Root) /\ f.name \in Values(list)
       /\ \E k \in DOMAIN doc.types : doc.types[k].name = f.name
    \/ /\ f.via = "element" /\ i > 1 /\ Located(f, stack[i - 1].node)
       /\ f.name \in Values(list) /\ f.class = stack[i - 1].name

StackInv ==
  /\ \A i \in DOMAIN stack : FrameInv(i)
  /\ done => stack = << >> /\ next = Len(doc.types) + 1

MapInv ==
  \A n \in Names : map[n] # NoNode =>
    /\ n \in Values(list)
    /\ \E x \in Declared : x.name = n /\ x.node = map[n]

TreeInv == doc \in DocumentType /\ IsTree(doc)

OpenOnce ==
  \A i \in DOMAIN stack :
     /\ ~Finished(stack[i].node)
     /\ \A j \in DOMAIN stack : stack[i].node = stack[j].node => i = j

ElementRecorded(o, j) ==
  LET e == doc.content[o][j] IN
    /\ e.kind = "simple" => parent[e.name] = NameOf(o)
    /\ e.kind = "complex" =>
         /\ e.name \in Values(list)
         /\ Active(e.node) \/ (map[e.name] = e.node /\ parent[e.name] = NameOf(o))

TypeRecorded(k) ==
  LET t == doc.types[k] IN
    /\ t.name \in Values(list)
    /\ Active(t.node) \/ map[t.name] = t.node

Recorded ==
  /\ \A o \in Owners : \A j \in DOMAIN doc.content[o] : Passed(o, j) => ElementRecorded(o, j)
  /\ \A o \in Owners : \A j \in DOMAIN doc.attrs[o] :
        PassedAttribute(o, j) => parent[doc.attrs[o][j]] = NameOf(o)
  /\ \A k \in DOMAIN doc.types : k < next => TypeRecorded(k)

GlobalsOutside ==
  /\ \A k \in DOMAIN doc.types : parent[doc.types[k].name] = NoParent
  /\ \A k \in DOMAIN doc.simple : parent[doc.simple[k]] = NoParent

\* Why the name n is listed.
Reached(n) ==
  \/ \E k \in DOMAIN doc.types : k < next /\ doc.types[k].name = n
  \/ \E o \in Owners : \E j \in DOMAIN doc.content[o] :
       /\ doc.content[o][j].kind = "complex" /\ doc.content[o][j].name = n
       /\ Passed(o, j)

ListedOnce ==
  /\ \A i, j \in DOMAIN list : list[i] = list[j] => i = j
  /\ \A n \in Values(list) : Reached(n)

IInv ==
  /\ TypeOK
  /\ TreeInv
  /\ StackInv
  /\ ParentsRegistered
  /\ MapInv
  /\ UniqueNames => OpenOnce /\ Recorded /\ GlobalsOutside /\ ListedOnce

-----------------------------------------------------------------------------
(* The document.                                                            *)

LEMMA ElementTypes ==
  ASSUME NEW e \in Elements
  PROVE  /\ e.name \in Names /\ e.kind \in {"typed", "complex", "simple"}
         /\ e.kind = "complex" => e.node \in Nodes
         /\ e.kind = "typed" => e.type \in Names
  BY DEF Elements

\* The fields of a document.
LEMMA DocumentTypes ==
  ASSUME TreeInv
  PROVE  /\ doc.types \in Seq([name : Names, node : Nodes])
         /\ doc.simple \in Seq(Names)
         /\ \A k \in DOMAIN doc.types :
               doc.types[k].name \in Names /\ doc.types[k].node \in Nodes
         /\ \A k \in DOMAIN doc.simple : doc.simple[k] \in Names
         /\ \A o \in Owners :
               /\ doc.content[o] \in Seq(Elements) /\ doc.attrs[o] \in Seq(Names)
               /\ \A j \in DOMAIN doc.content[o] :
                     doc.content[o][j] \in Elements /\ doc.content[o][j].name \in Names
               /\ \A j \in DOMAIN doc.attrs[o] : doc.attrs[o][j] \in Names
<1>1. /\ doc.types \in Seq([name : Names, node : Nodes])
      /\ doc.simple \in Seq(Names)
      /\ doc.content \in [Owners -> Seq(Elements)]
      /\ doc.attrs \in [Owners -> Seq(Names)]
  BY DEF TreeInv, DocumentType, Owners
<1>2. \A o \in Owners : doc.content[o] \in Seq(Elements) /\ doc.attrs[o] \in Seq(Names)
  BY <1>1
<1>3. \A k \in DOMAIN doc.types : doc.types[k] \in [name : Names, node : Nodes]
  <2> DEFINE T == [name : Names, node : Nodes]
  <2>1. doc.types \in Seq(T)
    BY <1>1
  <2> HIDE DEF T
  <2>2. \A k \in DOMAIN doc.types : doc.types[k] \in T
    BY <2>1
  <2> QED
    BY <2>2 DEF T
<1>4. \A o \in Owners : \A j \in DOMAIN doc.content[o] : doc.content[o][j] \in Elements
  BY <1>2
<1>5. \A o \in Owners : \A j \in DOMAIN doc.attrs[o] : doc.attrs[o][j] \in Names
  BY <1>2
<1>6. \A k \in DOMAIN doc.simple : doc.simple[k] \in Names
  BY <1>1
<1>7. \A k \in DOMAIN doc.types : doc.types[k].name \in Names /\ doc.types[k].node \in Nodes
  BY <1>3
<1>8. \A o \in Owners : \A j \in DOMAIN doc.content[o] : doc.content[o][j].name \in Names
  BY <1>4, ElementTypes
<1> QED
  BY <1>1, <1>2, <1>4, <1>5, <1>6, <1>7, <1>8

\* What is declared is declared by an element or as a global type.
LEMMA DeclaredWhere ==
  ASSUME TreeInv, NEW x \in Declared
  PROVE  /\ x.name \in Names /\ x.node \in Nodes /\ x.owner \in Owners
         /\ x = [name |-> x.name, node |-> x.node, owner |-> x.owner]
         /\ \/ \E j \in DOMAIN doc.content[x.owner] :
                 LET e == doc.content[x.owner][j]
                 IN  e.kind = "complex" /\ e.name = x.name /\ e.node = x.node
            \/ /\ x.owner = Root
               /\ \E k \in DOMAIN doc.types :
                     doc.types[k].name = x.name /\ doc.types[k].node = x.node
<1>1. CASE x \in AnonymousIn(doc)
  BY <1>1 DEF AnonymousIn, Values
<1>2. CASE x \in {[name |-> t.name, node |-> t.node, owner |-> Root] : t \in Values(doc.types)}
  <2>1. PICK k \in DOMAIN doc.types :
          x = [name |-> doc.types[k].name, node |-> doc.types[k].node, owner |-> Root]
    BY <1>2 DEF Values
  <2> QED
    BY <2>1, DocumentTypes DEF Owners
<1> QED
  BY <1>1, <1>2 DEF Declared, DeclaredIn

LEMMA ElementDeclares ==
  ASSUME TreeInv, NEW o \in Owners, NEW j \in DOMAIN doc.content[o],
         doc.content[o][j].kind = "complex"
  PROVE  [name |-> doc.content[o][j].name, node |-> doc.content[o][j].node, owner |-> o]
           \in Declared
<1> DEFINE e == doc.content[o][j]
<1>1. e.name \in Names /\ e.node \in Nodes
  BY DocumentTypes, ElementTypes
<1>2. e \in Values(doc.content[o])
  BY DEF Values
<1> HIDE DEF e
<1> QED
  BY <1>1, <1>2 DEF Declared, DeclaredIn, AnonymousIn, e

LEMMA TypeDeclares ==
  ASSUME TreeInv, NEW k \in DOMAIN doc.types
  PROVE  [name |-> doc.types[k].name, node |-> doc.types[k].node, owner |-> Root] \in Declared
  BY DEF Declared, DeclaredIn, Values

\* A node is declared once, so it has one name.
LEMMA NameOfDeclared ==
  ASSUME TreeInv, NEW x \in Declared
  PROVE  NameOf(x.node) = x.name /\ x.node # Root
<1>1. x.node \in Nodes /\ x.node # Root
  BY DeclaredWhere, DocumentAssumption
<1>2. \A y \in Declared : y.node = x.node => y = x
  BY DEF TreeInv, IsTree, Declared
<1> QED
  BY <1>1, <1>2 DEF NameOf

LEMMA NameOfRoot == NameOf(Root) = NoParent
  BY DEF NameOf

\* The places of a name.
LEMMA PlaceOfElement ==
  ASSUME NEW o \in Owners, NEW j \in DOMAIN doc.content[o], doc.content[o][j].kind # "typed"
  PROVE  <<o, "element", j>> \in Places(doc.content[o][j].name)
<1> DEFINE n == doc.content[o][j].name
<1>1. <<o, "element", j>> \in PlacesIn(o, n)
  BY DEF PlacesIn
<1> HIDE DEF n
<1>2. PlacesIn(o, n) \subseteq Places(n)
  BY DEF Places
<1>3. <<o, "element", j>> \in Places(n)
  BY <1>1, <1>2
<1> QED
  BY <1>3 DEF n

LEMMA PlaceOfAttribute ==
  ASSUME NEW o \in Owners, NEW j \in DOMAIN doc.attrs[o]
  PROVE  <<o, "attribute", j>> \in Places(doc.attrs[o][j])
<1> DEFINE n == doc.attrs[o][j]
<1>1. <<o, "attribute", j>> \in PlacesIn(o, n)
  BY DEF PlacesIn
<1> HIDE DEF n
<1>2. PlacesIn(o, n) \subseteq Places(n)
  BY DEF Places
<1>3. <<o, "attribute", j>> \in Places(n)
  BY <1>1, <1>2
<1> QED
  BY <1>3 DEF n

LEMMA PlaceOfType ==
  ASSUME NEW k \in DOMAIN doc.types
  PROVE  <<Root, "type", k>> \in Places(doc.types[k].name)
  BY DEF Places, GlobalPlaces

LEMMA PlaceOfSimple ==
  ASSUME NEW k \in DOMAIN doc.simple
  PROVE  <<Root, "simple", k>> \in Places(doc.simple[k])
  BY DEF Places, GlobalPlaces

\* With distinct names, a name is declared once.
LEMMA DeclaredOnce ==
  ASSUME TreeInv, UniqueNames, NEW x \in Declared, NEW y \in Declared, x.name = y.name
  PROVE  x = y
<1> DEFINE At(z, p) ==
      \/ /\ p \in {<<z.owner, "element", j>> : j \in DOMAIN doc.content[z.owner]}
         /\ LET e == doc.content[z.owner][p[3]]
            IN  e.kind = "complex" /\ e.name = z.name /\ e.node = z.node
      \/ /\ p \in {<<Root, "type", k>> : k \in DOMAIN doc.types} /\ z.owner = Root
         /\ doc.types[p[3]].name = z.name /\ doc.types[p[3]].node = z.node
<1>1. ASSUME NEW z \in Declared
      PROVE  \E p \in Places(z.name) : At(z, p)
  <2>1. CASE \E j \in DOMAIN doc.content[z.owner] :
               LET e == doc.content[z.owner][j]
               IN  e.kind = "complex" /\ e.name = z.name /\ e.node = z.node
    <3>1. PICK j \in DOMAIN doc.content[z.owner] :
            LET e == doc.content[z.owner][j]
            IN  e.kind = "complex" /\ e.name = z.name /\ e.node = z.node
      BY <2>1
    <3>2. z.owner \in Owners
      BY DeclaredWhere
    <3>3. <<z.owner, "element", j>> \in Places(z.name)
      BY <3>1, <3>2, PlaceOfElement
    <3> QED
      BY <3>1, <3>3
  <2>2. CASE z.owner = Root /\ \E k \in DOMAIN doc.types :
                doc.types[k].name = z.name /\ doc.types[k].node = z.node
    <3>1. PICK k \in DOMAIN doc.types : doc.types[k].name = z.name /\ doc.types[k].node = z.node
      BY <2>2
    <3>2. <<Root, "type", k>> \in Places(z.name)
      BY <3>1, PlaceOfType
    <3> QED
      BY <2>2, <3>1, <3>2
  <2> QED
    BY <2>1, <2>2, DeclaredWhere
<1>2. PICK p \in Places(x.name) : At(x, p)
  BY <1>1
<1>3. PICK q \in Places(y.name) : At(y, q)
  BY <1>1
<1>4. p = q
  BY <1>2, <1>3, DeclaredWhere DEF UniqueNames
<1>5. x.node = y.node
  <2>1. p[3] = q[3] /\ p[2] = q[2] /\ p[1] = q[1]
    BY <1>4
  <2> QED
    BY <1>2, <1>3, <2>1
<1> QED
  BY <1>5 DEF TreeInv, IsTree, Declared

-----------------------------------------------------------------------------
(* The stack.                                                               *)

LEMMA TopTypes ==
  ASSUME TypeOK, stack # << >>
  PROVE  /\ Len(stack) \in Nat \ {0} /\ Len(stack) \in DOMAIN stack
         /\ DOMAIN stack = 1..Len(stack)
         /\ Top \in Frames /\ Top.node \in Owners
         /\ Top.name \in Names \cup {NoParent} /\ Top.class \in Names \cup {NoParent}
         /\ Top.elem \in Nat \ {0} /\ Top.attr \in Nat \ {0}
<1>1. stack \in Seq(Frames)
  BY DEF TypeOK
<1>2. Len(stack) \in Nat \ {0} /\ DOMAIN stack = 1..Len(stack)
  BY <1>1, EmptySeq
<1>3. Top \in Frames
  BY <1>1, <1>2, ElementOfSeq DEF Top
<1> QED
  BY <1>2, <1>3 DEF Frames, Owners

LEMMA FrameTypes ==
  ASSUME TypeOK, NEW i \in DOMAIN stack
  PROVE  /\ stack[i] \in Frames /\ stack[i].node \in Owners
         /\ stack[i].name \in Names \cup {NoParent}
         /\ stack[i].elem \in Nat \ {0} /\ stack[i].attr \in Nat \ {0}
         /\ i \in Nat \ {0} /\ i <= Len(stack)
<1>1. stack \in Seq(Frames)
  BY DEF TypeOK
<1>2. stack[i] \in Frames /\ i \in 1..Len(stack) /\ Len(stack) \in Nat
  BY <1>1, ElementOfSeq
<1> QED
  BY <1>2 DEF Frames, Owners

\* The cursor of an element loop moves, that of an attribute loop moves, a
\* call is pushed on a stack that is empty or not, and a call returns.
LEMMA PastElementStack ==
  ASSUME TypeOK, stack # << >>
  PROVE  /\ PastElement \in Seq(Frames) /\ Len(PastElement) = Len(stack)
         /\ PastElement[Len(stack)] = [Top EXCEPT !.elem = @ + 1]
         /\ PastElement[Len(stack)].elem = Top.elem + 1
         /\ \A i \in 1..(Len(stack) - 1) : PastElement[i] = stack[i]
         /\ \A i \in DOMAIN stack :
              /\ PastElement[i].node = stack[i].node /\ PastElement[i].name = stack[i].name
              /\ PastElement[i].class = stack[i].class /\ PastElement[i].via = stack[i].via
              /\ PastElement[i].attr = stack[i].attr
<1> DEFINE f == [Top EXCEPT !.elem = @ + 1]
<1>1. /\ f \in Frames /\ f.elem = Top.elem + 1
      /\ f.node = Top.node /\ f.name = Top.name /\ f.class = Top.class /\ f.via = Top.via
      /\ f.attr = Top.attr
  BY TopTypes DEF Frames
<1>2. stack \in Seq(Frames)
  BY DEF TypeOK
<1> HIDE DEF f
<1>3. /\ PastElement \in Seq(Frames) /\ Len(PastElement) = Len(stack)
      /\ PastElement[Len(stack)] = f
      /\ \A i \in 1..(Len(stack) - 1) : PastElement[i] = stack[i]
  BY <1>1, <1>2, ChangeTop DEF PastElement, f
<1>4. \A i \in DOMAIN stack : i = Len(stack) \/ i \in 1..(Len(stack) - 1)
  BY TopTypes
<1>5. ASSUME NEW i \in DOMAIN stack
      PROVE  /\ PastElement[i].node = stack[i].node /\ PastElement[i].name = stack[i].name
             /\ PastElement[i].class = stack[i].class /\ PastElement[i].via = stack[i].via
             /\ PastElement[i].attr = stack[i].attr
  <2>1. CASE i = Len(stack)
    BY <1>1, <1>3, <2>1 DEF Top
  <2>2. CASE i \in 1..(Len(stack) - 1)
    BY <1>3, <2>2
  <2> QED
    BY <1>4, <2>1, <2>2
<1> QED
  BY <1>1, <1>3, <1>5 DEF f

LEMMA PastAttributeStack ==
  ASSUME TypeOK, stack # << >>
  PROVE  /\ PastAttribute \in Seq(Frames) /\ Len(PastAttribute) = Len(stack)
         /\ PastAttribute[Len(stack)].attr = Top.attr + 1
         /\ \A i \in 1..(Len(stack) - 1) : PastAttribute[i] = stack[i]
         /\ \A i \in DOMAIN stack :
              /\ PastAttribute[i].node = stack[i].node /\ PastAttribute[i].name = stack[i].name
              /\ PastAttribute[i].class = stack[i].class /\ PastAttribute[i].via = stack[i].via
              /\ PastAttribute[i].elem = stack[i].elem
<1> DEFINE f == [Top EXCEPT !.attr = @ + 1]
<1>1. /\ f \in Frames /\ f.attr = Top.attr + 1
      /\ f.node = Top.node /\ f.name = Top.name /\ f.class = Top.class /\ f.via = Top.via
      /\ f.elem = Top.elem
  BY TopTypes DEF Frames
<1>2. stack \in Seq(Frames)
  BY DEF TypeOK
<1> HIDE DEF f
<1>3. /\ PastAttribute \in Seq(Frames) /\ Len(PastAttribute) = Len(stack)
      /\ PastAttribute[Len(stack)] = f
      /\ \A i \in 1..(Len(stack) - 1) : PastAttribute[i] = stack[i]
  BY <1>1, <1>2, ChangeTop DEF PastAttribute, f
<1>4. \A i \in DOMAIN stack : i = Len(stack) \/ i \in 1..(Len(stack) - 1)
  BY TopTypes
<1>5. ASSUME NEW i \in DOMAIN stack
      PROVE  /\ PastAttribute[i].node = stack[i].node /\ PastAttribute[i].name = stack[i].name
             /\ PastAttribute[i].class = stack[i].class /\ PastAttribute[i].via = stack[i].via
             /\ PastAttribute[i].elem = stack[i].elem
  <2>1. CASE i = Len(stack)
    BY <1>1, <1>3, <2>1 DEF Top
  <2>2. CASE i \in 1..(Len(stack) - 1)
    BY <1>3, <2>2
  <2> QED
    BY <1>4, <2>1, <2>2
<1> QED
  BY <1>1, <1>3, <1>5

LEMMA FrameType ==
  ASSUME NEW o \in Owners, NEW n \in Names \cup {NoParent}, NEW c \in Names \cup {NoParent},
         NEW v \in {"type", "element", "root"}
  PROVE  /\ Frame(o, n, c, v) \in Frames
         /\ Frame(o, n, c, v).node = o /\ Frame(o, n, c, v).name = n
         /\ Frame(o, n, c, v).class = c /\ Frame(o, n, c, v).via = v
         /\ Frame(o, n, c, v).elem = 1 /\ Frame(o, n, c, v).attr = 1
  BY DEF Frame, Frames, Owners

LEMMA PushStack ==
  ASSUME TypeOK, stack # << >>, NEW f \in Frames
  PROVE  LET t == Append(PastElement, f)
         IN  /\ t \in Seq(Frames) /\ Len(t) = Len(stack) + 1
             /\ t[Len(stack) + 1] = f
             /\ t[Len(stack)].elem = Top.elem + 1
             /\ \A i \in 1..(Len(stack) - 1) : t[i] = stack[i]
             /\ \A i \in DOMAIN stack :
                  /\ t[i].node = stack[i].node /\ t[i].name = stack[i].name
                  /\ t[i].class = stack[i].class /\ t[i].via = stack[i].via
                  /\ t[i].attr = stack[i].attr
<1> DEFINE t == Append(PastElement, f)
<1>1. PastElement \in Seq(Frames) /\ Len(PastElement) = Len(stack)
  BY PastElementStack
<1>2. /\ t \in Seq(Frames) /\ Len(t) = Len(stack) + 1
      /\ t[Len(stack) + 1] = f
      /\ \A i \in 1..Len(stack) : t[i] = PastElement[i]
  BY <1>1, PushTop
<1> HIDE DEF t
<1>3. DOMAIN stack = 1..Len(stack) /\ Len(stack) \in Nat \ {0}
  BY TopTypes
<1>4. t[Len(stack)] = PastElement[Len(stack)]
  BY <1>2, <1>3
<1>5. \A i \in 1..(Len(stack) - 1) : t[i] = stack[i]
  BY <1>2, <1>3, PastElementStack
<1> QED
  <2>1. t[Len(stack)].elem = Top.elem + 1
    BY <1>4, PastElementStack
  <2>2. \A i \in DOMAIN stack : t[i] = PastElement[i]
    BY <1>2, <1>3
  <2>3. \A i \in DOMAIN stack :
           /\ t[i].node = stack[i].node /\ t[i].name = stack[i].name
           /\ t[i].class = stack[i].class /\ t[i].via = stack[i].via
           /\ t[i].attr = stack[i].attr
    BY <2>2, PastElementStack
  <2> QED
    BY <1>2, <1>5, <2>1, <2>3 DEF t

LEMMA PoppedStack ==
  ASSUME TypeOK, stack # << >>
  PROVE  /\ Popped \in Seq(Frames) /\ Len(Popped) = Len(stack) - 1
         /\ \A i \in 1..(Len(stack) - 1) : Popped[i] = stack[i]
  BY PopTop DEF TypeOK, Popped

LEMMA ElementNow ==
  ASSUME TypeOK, TreeInv, NEW k, AtElement(k)
  PROVE  /\ stack # << >>
         /\ Top.elem \in DOMAIN doc.content[Top.node]
         /\ Element = doc.content[Top.node][Top.elem] /\ Element.kind = k
         /\ Element \in Elements /\ Element.name \in Names
<1>1. stack # << >> /\ Top.elem <= Len(doc.content[Top.node]) /\ Element.kind = k
  BY DEF AtElement, Element
<1>2. doc.content[Top.node] \in Seq(Elements)
  BY <1>1, TopTypes, DocumentTypes
<1>3. Top.elem \in DOMAIN doc.content[Top.node]
  BY <1>1, <1>2, TopTypes
<1> QED
  BY <1>1, <1>3, TopTypes, DocumentTypes DEF Element

LEMMA AttributeNow ==
  ASSUME TypeOK, TreeInv, AtAttribute
  PROVE  /\ stack # << >>
         /\ Top.attr \in DOMAIN doc.attrs[Top.node]
         /\ doc.attrs[Top.node][Top.attr] \in Names
<1>1. stack # << >> /\ Top.attr <= Len(doc.attrs[Top.node])
  BY DEF AtAttribute
<1>2. doc.attrs[Top.node] \in Seq(Names)
  BY <1>1, TopTypes, DocumentTypes
<1>3. Top.attr \in DOMAIN doc.attrs[Top.node]
  BY <1>1, <1>2, TopTypes
<1> QED
  BY <1>1, <1>3, TopTypes, DocumentTypes

LEMMA AppendValues ==
  ASSUME NEW S, NEW s \in Seq(S), NEW n \in S
  PROVE  Append(s, n) \in Seq(S) /\ Values(Append(s, n)) = Values(s) \cup {n}
<1> DEFINE t == Append(s, n)
<1>1. /\ t \in Seq(S) /\ Len(t) = Len(s) + 1 /\ Len(s) \in Nat
      /\ t[Len(s) + 1] = n /\ \A i \in 1..Len(s) : t[i] = s[i]
  BY PushTop
<1> HIDE DEF t
<1>2. DOMAIN s = 1..Len(s) /\ DOMAIN t = 1..(Len(s) + 1)
  BY <1>1
<1>3. ASSUME NEW v \in Values(t) PROVE v \in Values(s) \cup {n}
  BY <1>1, <1>2 DEF Values
<1>4. ASSUME NEW v \in Values(s) PROVE v \in Values(t)
  BY <1>1, <1>2 DEF Values
<1>5. n \in Values(t)
  BY <1>1, <1>2 DEF Values
<1>6. Values(t) = Values(s) \cup {n}
  BY <1>3, <1>4, <1>5
<1> QED
  BY <1>1, <1>6 DEF t

-----------------------------------------------------------------------------
(* Steps.                                                                   *)

LEMMA SameDocument ==
  ASSUME doc' = doc
  PROVE  /\ Declared' = Declared /\ TreeInv' = TreeInv /\ UniqueNames' = UniqueNames
         /\ \A n : Places(n)' = Places(n)
         /\ \A o : NameOf(o)' = NameOf(o)
<1>1. Declared' = Declared
  BY DEF Declared
<1>2. \A n : Places(n)' = Places(n)
  BY DEF Places, PlacesIn, GlobalPlaces
<1>3. \A o : NameOf(o)' = NameOf(o)
  BY <1>1 DEF NameOf
<1>4. TreeInv' = TreeInv
  BY DEF TreeInv
<1>5. UniqueNames' = UniqueNames
  BY <1>2 DEF UniqueNames
<1> QED
  BY <1>1, <1>2, <1>3, <1>4, <1>5

LEMMA NextDocument == ASSUME [Next]_vars PROVE doc' = doc
  BY DEF Next, vars, EnterType, EnterRoot, EnterElement, PassTyped, AddSimple, AddAttribute,
         LeaveType, LeaveElement, LeaveRoot

\* The node and the name of an activation that is not the root's.
LEMMA TopDeclared ==
  ASSUME TypeOK, TreeInv, StackInv, stack # << >>, Top.via # "root"
  PROVE  /\ Top.node \in Nodes /\ Top.name \in Names /\ Top.name \in Values(list)
         /\ NameOf(Top.node) = Top.name
         /\ \E x \in Declared : x.name = Top.name /\ x.node = Top.node
<1>1. FrameInv(Len(stack)) /\ Len(stack) \in DOMAIN stack
  BY TopTypes DEF StackInv
<1>2. PICK w : Located(Top, w) /\ Top.name \in Values(list)
  BY <1>1 DEF FrameInv, Top
<1> DEFINE x == [name |-> Top.name, node |-> Top.node, owner |-> w]
<1>3. x \in Declared /\ x.name = Top.name /\ x.node = Top.node
  BY <1>2 DEF Located
<1> HIDE DEF x
<1> QED
  BY <1>2, <1>3, DeclaredWhere, NameOfDeclared

LEMMA NextTypeOK ==
  ASSUME TypeOK, TreeInv, StackInv, [Next]_vars
  PROVE  TypeOK'
<1>0. /\ doc' \in DocumentType /\ doc' = doc
      /\ next \in 1..(Len(doc.types) + 1) /\ Len(doc.types) \in Nat
      /\ stack \in Seq(Frames) /\ list \in Seq(Names) /\ simples \in Seq(Names)
      /\ map \in [Names -> Nodes \cup {NoNode}]
      /\ parent \in [Names -> Names \cup {NoParent}]
      /\ done \in BOOLEAN
  BY NextDocument, DocumentTypes DEF TypeOK, TreeInv
<1>1. CASE EnterType
  <2> DEFINE t == doc.types[next]
  <2>1. next \in DOMAIN doc.types /\ next' = next + 1 /\ next + 1 \in 1..(Len(doc.types) + 1)
    BY <1>0, <1>1, DocumentTypes DEF EnterType
  <2>2. t.name \in Names /\ t.node \in Owners
    BY <2>1, DocumentTypes DEF Owners
  <2>3. /\ list' = Append(list, t.name) /\ stack' = <<Frame(t.node, t.name, NoParent, "type")>>
        /\ UNCHANGED <<map, simples, parent, done>>
    BY <1>1 DEF EnterType
  <2> HIDE DEF t
  <2>4. Frame(t.node, t.name, NoParent, "type") \in Frames
    BY <2>2, FrameType
  <2>5. list' \in Seq(Names) /\ stack' \in Seq(Frames)
    BY <1>0, <2>2, <2>3, <2>4, AppendValues
  <2> QED
    BY <1>0, <2>1, <2>3, <2>5 DEF TypeOK
<1>2. CASE EnterRoot
  <2>1. /\ simples' = simples \o doc.simple /\ stack' = <<Frame(Root, NoParent, NoParent, "root")>>
        /\ UNCHANGED <<next, list, map, parent, done>>
    BY <1>2 DEF EnterRoot
  <2>2. Frame(Root, NoParent, NoParent, "root") \in Frames
    BY FrameType DEF Owners
  <2>3. simples' \in Seq(Names) /\ stack' \in Seq(Frames)
    BY <1>0, <2>1, <2>2, DocumentTypes, ConcatProperties
  <2> QED
    BY <1>0, <2>1, <2>3 DEF TypeOK
<1>3. CASE EnterElement
  <2>1. /\ AtElement("complex")
        /\ list' = Append(list, Element.name)
        /\ stack' = Append(PastElement, Frame(Element.node, Element.name, Top.name, "element"))
        /\ UNCHANGED <<next, map, simples, parent, done>>
    BY <1>3 DEF EnterElement
  <2>2. /\ Element.name \in Names /\ Element.node \in Owners
        /\ Top.name \in Names \cup {NoParent} /\ stack # << >>
    BY <2>1, ElementNow, ElementTypes, TopTypes DEF Owners
  <2>3. Frame(Element.node, Element.name, Top.name, "element") \in Frames
    BY <2>2, FrameType
  <2>4. list' \in Seq(Names) /\ stack' \in Seq(Frames)
    BY <1>0, <2>1, <2>2, <2>3, AppendValues, PushStack
  <2> QED
    BY <1>0, <2>1, <2>4 DEF TypeOK
<1>4. CASE PassTyped
  <2>1. stack # << >> /\ stack' = PastElement /\ UNCHANGED <<next, list, map, simples, parent, done>>
    BY <1>4 DEF PassTyped, AtElement
  <2> QED
    BY <1>0, <2>1, PastElementStack DEF TypeOK
<1>5. CASE AddSimple
  <2>1. /\ AtElement("simple") /\ simples' = Append(simples, Element.name)
        /\ parent' = [parent EXCEPT ![Element.name] = Top.name]
        /\ stack' = PastElement /\ UNCHANGED <<next, list, map, done>>
    BY <1>5 DEF AddSimple
  <2>2. Element.name \in Names /\ Top.name \in Names \cup {NoParent} /\ stack # << >>
    BY <2>1, ElementNow, TopTypes
  <2>3. simples' \in Seq(Names) /\ parent' \in [Names -> Names \cup {NoParent}]
    BY <1>0, <2>1, <2>2, AppendValues
  <2> QED
    BY <1>0, <2>1, <2>2, <2>3, PastElementStack DEF TypeOK
<1>6. CASE AddAttribute
  <2> DEFINE a == doc.attrs[Top.node][Top.attr]
  <2>1. /\ AtAttribute /\ simples' = Append(simples, a)
        /\ parent' = [parent EXCEPT ![a] = Top.name]
        /\ stack' = PastAttribute /\ UNCHANGED <<next, list, map, done>>
    BY <1>6 DEF AddAttribute
  <2>2. a \in Names /\ Top.name \in Names \cup {NoParent} /\ stack # << >>
    BY <2>1, AttributeNow, TopTypes
  <2> HIDE DEF a
  <2>3. simples' \in Seq(Names) /\ parent' \in [Names -> Names \cup {NoParent}]
    BY <1>0, <2>1, <2>2, AppendValues
  <2> QED
    BY <1>0, <2>1, <2>2, <2>3, PastAttributeStack DEF TypeOK
<1>7. CASE LeaveType
  <2>1. /\ stack # << >> /\ Top.via = "type" /\ map' = [map EXCEPT ![Top.name] = Top.node]
        /\ stack' = Popped /\ UNCHANGED <<next, list, simples, parent, done>>
    BY <1>7 DEF LeaveType, AtReturn
  <2>2. Top.node \in Nodes
    BY <2>1, TopDeclared
  <2> QED
    BY <1>0, <2>1, <2>2, PoppedStack DEF TypeOK
<1>8. CASE LeaveElement
  <2>1. /\ stack # << >> /\ Top.via = "element" /\ map' = [map EXCEPT ![Top.name] = Top.node]
        /\ parent' = [parent EXCEPT ![Top.name] = Top.class]
        /\ stack' = Popped /\ UNCHANGED <<next, list, simples, done>>
    BY <1>8 DEF LeaveElement, AtReturn
  <2>2. Top.node \in Nodes /\ Top.class \in Names \cup {NoParent}
    BY <2>1, TopDeclared, TopTypes
  <2> QED
    BY <1>0, <2>1, <2>2, PoppedStack DEF TypeOK
<1>9. CASE LeaveRoot
  <2>1. /\ stack # << >> /\ done' = TRUE /\ stack' = Popped
        /\ UNCHANGED <<next, list, map, simples, parent>>
    BY <1>9 DEF LeaveRoot, AtReturn
  <2> QED
    BY <1>0, <2>1, PoppedStack DEF TypeOK
<1>10. CASE UNCHANGED vars
  BY <1>10 DEF vars, TypeOK
<1> QED
  BY <1>1, <1>2, <1>3, <1>4, <1>5, <1>6, <1>7, <1>8, <1>9, <1>10 DEF Next

LEMMA ActiveNames ==
  ASSUME TypeOK, TreeInv, StackInv, NEW i \in DOMAIN stack
  PROVE  /\ stack[i].name = NameOf(stack[i].node)
         /\ stack[i].name = NoParent \/ stack[i].name \in Values(list)
         /\ stack[i].via # "root" => stack[i].name \in Values(list)
         /\ stack[i].node = Root => stack[i].via = "root"
<1>1. FrameInv(i)
  BY DEF StackInv
<1>2. CASE stack[i].via = "root"
  BY <1>1, <1>2, NameOfRoot DEF FrameInv
<1>3. CASE stack[i].via # "root"
  <2>1. PICK w : Located(stack[i], w) /\ stack[i].name \in Values(list)
    BY <1>1, <1>3 DEF FrameInv
  <2> DEFINE x == [name |-> stack[i].name, node |-> stack[i].node, owner |-> w]
  <2>2. x \in Declared /\ x.name = stack[i].name /\ x.node = stack[i].node
    BY <2>1 DEF Located
  <2> HIDE DEF x
  <2> QED
    BY <1>3, <2>1, <2>2, NameOfDeclared
<1> QED
  BY <1>2, <1>3

\* The class an element's activation was given is that of the node the
\* element stands in.
LEMMA TopElement ==
  ASSUME TypeOK, TreeInv, StackInv, stack # << >>, Top.via = "element"
  PROVE  /\ Top.class = NoParent \/ Top.class \in Values(list)
         /\ \E x \in Declared :
              x.name = Top.name /\ x.node = Top.node /\ Top.class = NameOf(x.owner)
<1> DEFINE n == Len(stack)
<1>1. n \in DOMAIN stack /\ DOMAIN stack = 1..n /\ n \in Nat
  BY TopTypes
<1>2. /\ n > 1 /\ Located(Top, stack[n - 1].node)
      /\ Top.class = stack[n - 1].name
  BY <1>1 DEF StackInv, FrameInv, Top
<1>3. n - 1 \in DOMAIN stack
  BY <1>1, <1>2
<1>4. /\ stack[n - 1].name = NameOf(stack[n - 1].node)
      /\ stack[n - 1].name = NoParent \/ stack[n - 1].name \in Values(list)
  BY <1>3, ActiveNames
<1> DEFINE x == [name |-> Top.name, node |-> Top.node, owner |-> stack[n - 1].node]
<1>5. /\ x \in Declared /\ x.name = Top.name /\ x.node = Top.node
      /\ x.owner = stack[n - 1].node
  BY <1>2 DEF Located
<1> HIDE DEF x, n
<1> QED
  BY <1>2, <1>4, <1>5

\* An activation that stays on the stack, over a list that only grows.
LEMMA FrameStays ==
  ASSUME TypeOK, StackInv, doc' = doc, next' = next, Values(list) \subseteq Values(list'),
         NEW i \in DOMAIN stack,
         \A k \in DOMAIN stack : k <= i =>
            /\ stack'[k].node = stack[k].node /\ stack'[k].name = stack[k].name
            /\ stack'[k].class = stack[k].class /\ stack'[k].via = stack[k].via
  PROVE  FrameInv(i)'
<1>1. FrameInv(i) /\ i \in Nat \ {0} /\ DOMAIN stack = 1..Len(stack)
  BY FrameTypes, EmptySeq DEF StackInv, TypeOK
<1>2. /\ stack'[i].node = stack[i].node /\ stack'[i].name = stack[i].name
      /\ stack'[i].class = stack[i].class /\ stack'[i].via = stack[i].via
  BY <1>1
<1>3. i > 1 => /\ stack'[i - 1].node = stack[i - 1].node
               /\ stack'[i - 1].name = stack[i - 1].name
  BY <1>1, FrameTypes
<1>4. Declared' = Declared
  BY SameDocument
<1>5. ASSUME NEW w
      PROVE  Located(stack[i], w) =>
               [name |-> stack'[i].name, node |-> stack'[i].node, owner |-> w] \in Declared'
  BY <1>2, <1>4 DEF Located
<1>6. CASE stack[i].via = "root"
  <2>1. /\ i = 1 /\ stack[i].node = Root /\ stack[i].name = NoParent
        /\ next = Len(doc.types) + 1
    BY <1>1, <1>6 DEF FrameInv
  <2> QED
    BY <1>2, <1>6, <2>1 DEF FrameInv
<1>7. CASE stack[i].via = "type"
  <2>1. /\ i = 1 /\ Located(stack[i], Root) /\ stack[i].name \in Values(list)
        /\ \E k \in DOMAIN doc.types : doc.types[k].name = stack[i].name
    BY <1>1, <1>7 DEF FrameInv
  <2>2. [name |-> stack'[i].name, node |-> stack'[i].node, owner |-> Root] \in Declared'
    BY <1>5, <2>1
  <2> QED
    BY <1>2, <1>7, <2>1, <2>2 DEF FrameInv, Located
<1>8. CASE stack[i].via = "element"
  <2>1. /\ i > 1 /\ Located(stack[i], stack[i - 1].node)
        /\ stack[i].name \in Values(list) /\ stack[i].class = stack[i - 1].name
    BY <1>1, <1>8 DEF FrameInv
  <2>2. [name |-> stack'[i].name, node |-> stack'[i].node, owner |-> stack'[i - 1].node]
          \in Declared'
    BY <1>3, <1>5, <2>1
  <2> QED
    BY <1>2, <1>3, <1>8, <2>1, <2>2 DEF FrameInv, Located
<1> QED
  BY <1>1, <1>6, <1>7, <1>8 DEF FrameInv

\* Steps of the loops keep the stack's meaning.
LEMMA MoveKeepsStack ==
  ASSUME TypeOK, TypeOK', StackInv, doc' = doc, stack # << >>,
         stack' = PastElement \/ stack' = PastAttribute,
         UNCHANGED <<next, list, done>>
  PROVE  StackInv'
<1>1. Len(stack') = Len(stack) /\ DOMAIN stack = 1..Len(stack) /\ DOMAIN stack' = 1..Len(stack')
  BY PastElementStack, PastAttributeStack, TopTypes DEF TypeOK
<1>2. \A i \in DOMAIN stack :
         /\ stack'[i].node = stack[i].node /\ stack'[i].name = stack[i].name
         /\ stack'[i].class = stack[i].class /\ stack'[i].via = stack[i].via
  BY PastElementStack, PastAttributeStack
<1>3. \A i \in DOMAIN stack' : FrameInv(i)'
  BY <1>1, <1>2, FrameStays
<1>4. ~done'
  BY DEF StackInv
<1> QED
  BY <1>3, <1>4 DEF StackInv

LEMMA ReturnKeepsStack ==
  ASSUME TypeOK, TypeOK', StackInv, doc' = doc, stack # << >>, stack' = Popped,
         UNCHANGED <<next, list>>
  PROVE  \A i \in DOMAIN stack' : FrameInv(i)'
<1>0. stack' \in Seq(Frames) /\ Len(stack) \in Nat \ {0} /\ DOMAIN stack = 1..Len(stack)
  BY TopTypes DEF TypeOK
<1>1. /\ Len(stack') = Len(stack) - 1 /\ Len(stack) \in Nat \ {0}
      /\ DOMAIN stack = 1..Len(stack) /\ DOMAIN stack' = 1..Len(stack')
      /\ \A i \in 1..(Len(stack) - 1) : stack'[i] = stack[i]
  <2>1. Len(stack') = Len(stack) - 1 /\ \A i \in 1..(Len(stack) - 1) : stack'[i] = stack[i]
    BY PoppedStack
  <2>2. DOMAIN stack' = 1..Len(stack')
    BY <1>0
  <2> QED
    BY <1>0, <2>1, <2>2
<1>2. SUFFICES ASSUME NEW i \in DOMAIN stack' PROVE FrameInv(i)'
  OBVIOUS
<1>3. i \in DOMAIN stack /\ \A k \in DOMAIN stack : k <= i => stack'[k] = stack[k]
  BY <1>1
<1> QED
  BY <1>3, FrameStays

LEMMA NextStack ==
  ASSUME TypeOK, TypeOK', TreeInv, StackInv, [Next]_vars
  PROVE  StackInv'
<1>0. doc' = doc /\ Declared' = Declared
  BY NextDocument, SameDocument
<1>1. CASE EnterType
  <2>0. PICK t, f : t = doc.types[next] /\ f = Frame(t.node, t.name, NoParent, "type")
    OBVIOUS
  <2>1. /\ ~done /\ UNCHANGED done /\ next \in DOMAIN doc.types
        /\ stack' = <<f>> /\ list' = Append(list, t.name)
    BY <1>1, <2>0, DocumentTypes DEF EnterType, TypeOK
  <2>2. /\ t.name \in Names /\ t.node \in Owners
        /\ [name |-> t.name, node |-> t.node, owner |-> Root] \in Declared
    BY <2>0, <2>1, DocumentTypes, TypeDeclares DEF Owners
  <2>3. f.node = t.node /\ f.name = t.name /\ f.via = "type"
    BY <2>0, <2>2, FrameType
  <2>4. t.name \in Values(list')
    BY <2>1, <2>2, AppendValues DEF TypeOK
  <2>5. \E k \in DOMAIN doc'.types : doc'.types[k].name = f.name
    BY <1>0, <2>0, <2>1, <2>3
  <2>6. [name |-> f.name, node |-> f.node, owner |-> Root] \in Declared'
    BY <1>0, <2>2, <2>3
  <2>7. DOMAIN stack' = {1} /\ stack'[1] = f
    BY <2>1
  <2>8. FrameInv(1)'
    BY <2>3, <2>4, <2>5, <2>6, <2>7 DEF FrameInv, Located
  <2> QED
    BY <2>1, <2>7, <2>8 DEF StackInv
<1>2. CASE EnterRoot
  <2>0. PICK f : f = Frame(Root, NoParent, NoParent, "root")
    OBVIOUS
  <2>1. /\ ~done /\ UNCHANGED <<done, next>> /\ next > Len(doc.types) /\ stack' = <<f>>
    BY <1>2, <2>0 DEF EnterRoot
  <2>2. f.node = Root /\ f.name = NoParent /\ f.via = "root"
    BY <2>0, FrameType DEF Owners
  <2>3. next' = Len(doc'.types) + 1
    BY <1>0, <2>1, DocumentTypes DEF TypeOK
  <2>4. DOMAIN stack' = {1} /\ stack'[1] = f
    BY <2>1
  <2>5. FrameInv(1)'
    BY <2>2, <2>3, <2>4 DEF FrameInv
  <2> QED
    BY <2>1, <2>4, <2>5 DEF StackInv
<1>3. CASE EnterElement
  <2>0. PICK e, f, n :
           e = Element /\ n = Len(stack) /\ f = Frame(e.node, e.name, Top.name, "element")
    OBVIOUS
  <2>1. /\ AtElement("complex") /\ list' = Append(list, e.name)
        /\ stack' = Append(PastElement, f)
        /\ UNCHANGED <<next, done>>
    BY <1>3, <2>0 DEF EnterElement
  <2>2. /\ e.name \in Names /\ e.node \in Owners
        /\ Top.name \in Names \cup {NoParent} /\ stack # << >> /\ Top.node \in Owners
        /\ Top.elem \in DOMAIN doc.content[Top.node]
        /\ e = doc.content[Top.node][Top.elem] /\ e.kind = "complex"
    BY <2>0, <2>1, ElementNow, ElementTypes, TopTypes DEF Owners
  <2>3. /\ f \in Frames /\ f.node = e.node /\ f.name = e.name
        /\ f.class = Top.name /\ f.via = "element"
    <3>1. e.node \in Owners /\ e.name \in Names \cup {NoParent} /\ Top.name \in Names \cup {NoParent}
      BY <2>2
    <3>2. /\ Frame(e.node, e.name, Top.name, "element") \in Frames
          /\ Frame(e.node, e.name, Top.name, "element").node = e.node
          /\ Frame(e.node, e.name, Top.name, "element").name = e.name
          /\ Frame(e.node, e.name, Top.name, "element").class = Top.name
          /\ Frame(e.node, e.name, Top.name, "element").via = "element"
      BY <3>1, FrameType
    <3> QED
      BY <2>0, <3>2
  <2>4. [name |-> e.name, node |-> e.node, owner |-> Top.node] \in Declared
    BY <2>2, ElementDeclares
  <2>5. Values(list') = Values(list) \cup {e.name}
    <3>1. PICK x \in Names : x = e.name
      BY <2>2
    <3>2. list \in Seq(Names) /\ list' = Append(list, x)
      BY <2>1, <3>1 DEF TypeOK
    <3> QED
      BY <3>1, <3>2, AppendValues
  <2>6. /\ stack' \in Seq(Frames) /\ Len(stack') = n + 1 /\ stack'[n + 1] = f
        /\ \A i \in DOMAIN stack :
             /\ stack'[i].node = stack[i].node /\ stack'[i].name = stack[i].name
             /\ stack'[i].class = stack[i].class /\ stack'[i].via = stack[i].via
    <3>1. stack # << >> /\ f \in Frames /\ stack' = Append(PastElement, f) /\ n = Len(stack)
      BY <2>0, <2>1, <2>2, <2>3
    <3> QED
      BY <3>1, PushStack
  <2>7. n \in Nat \ {0} /\ n \in DOMAIN stack /\ DOMAIN stack = 1..n /\ DOMAIN stack' = 1..(n + 1)
    <3>1. n \in Nat \ {0} /\ n \in DOMAIN stack /\ DOMAIN stack = 1..n
      BY <2>0, <2>2, TopTypes
    <3>2. DOMAIN stack' = 1..Len(stack')
      BY <2>6
    <3> QED
      BY <2>6, <3>1, <3>2
  <2>8. stack'[n].node = Top.node /\ stack'[n].name = Top.name
    BY <2>0, <2>6, <2>7 DEF Top
  <2>9. FrameInv(n + 1)'
    <3>1. PICK m \in Nat : m = n + 1
      BY <2>7
    <3>2. /\ m > 1 /\ stack'[m] = f /\ stack'[m - 1].node = Top.node
          /\ stack'[m - 1].name = Top.name /\ f.name \in Values(list')
      BY <2>3, <2>5, <2>6, <2>7, <2>8, <3>1
    <3>3. [name |-> f.name, node |-> f.node, owner |-> stack'[m - 1].node] \in Declared'
      BY <1>0, <2>3, <2>4, <3>2
    <3>4. FrameInv(m)'
      BY <2>3, <3>2, <3>3 DEF FrameInv, Located
    <3> QED
      BY <3>1, <3>4
  <2>10. \A i \in DOMAIN stack : FrameInv(i)'
    BY <1>0, <2>1, <2>5, <2>6, FrameStays
  <2>11. ASSUME NEW i \in DOMAIN stack' PROVE FrameInv(i)'
    BY <2>7, <2>9, <2>10
  <2>12. ~done'
    BY <2>1, <2>2 DEF StackInv
  <2> QED
    BY <2>11, <2>12 DEF StackInv
<1>4. CASE PassTyped \/ AddSimple \/ AddAttribute
  BY <1>0, <1>4, MoveKeepsStack DEF PassTyped, AddSimple, AddAttribute, AtElement, AtAttribute
<1>5. CASE LeaveType \/ LeaveElement
  <2>1. /\ stack # << >> /\ stack' = Popped /\ UNCHANGED <<next, list, done>>
    BY <1>5 DEF LeaveType, LeaveElement, AtReturn
  <2>2. ~done'
    BY <2>1 DEF StackInv
  <2> QED
    BY <1>0, <2>1, <2>2, ReturnKeepsStack DEF StackInv
<1>6. CASE LeaveRoot
  <2>1. stack # << >> /\ Top.via = "root" /\ stack' = Popped /\ UNCHANGED <<next, list>>
    BY <1>6 DEF LeaveRoot, AtReturn
  <2>2. Len(stack) = 1 /\ next = Len(doc.types) + 1
    BY <2>1, TopTypes DEF StackInv, FrameInv, Top
  <2>3. stack' = << >>
    BY <2>1, <2>2, PoppedStack, EmptySeq
  <2> QED
    BY <1>0, <2>1, <2>2, <2>3, ReturnKeepsStack DEF StackInv
<1>7. CASE UNCHANGED vars
  BY <1>7 DEF vars, StackInv, FrameInv, Located, Declared
<1> QED
  BY <1>1, <1>2, <1>3, <1>4, <1>5, <1>6, <1>7 DEF Next

\* What a step does to the list, to the parents and to the map.
LEMMA ListGrows ==
  ASSUME TypeOK, TreeInv, [Next]_vars
  PROVE  Values(list) \subseteq Values(list')
<1>1. CASE EnterType
  <2>1. PICK n \in Names : list' = Append(list, n)
    <3>1. next \in DOMAIN doc.types
      BY <1>1, DocumentTypes DEF EnterType, TypeOK
    <3> QED
      BY <1>1, <3>1, DocumentTypes DEF EnterType
  <2> QED
    BY <2>1, AppendValues DEF TypeOK
<1>2. CASE EnterElement
  <2>1. PICK n \in Names : list' = Append(list, n)
    BY <1>2, ElementNow DEF EnterElement
  <2> QED
    BY <2>1, AppendValues DEF TypeOK
<1>3. CASE UNCHANGED list
  BY <1>3
<1> QED
  BY <1>1, <1>2, <1>3
  DEF Next, EnterRoot, PassTyped, AddSimple, AddAttribute, LeaveType, LeaveElement, LeaveRoot, vars

LEMMA ElementNameAt ==
  ASSUME TreeInv, NEW x \in Declared
  PROVE  \E p \in Places(x.name) : p[1] = x.owner
<1>1. x.owner \in Owners
  BY DeclaredWhere
<1>2. CASE \E j \in DOMAIN doc.content[x.owner] :
              LET e == doc.content[x.owner][j]
              IN  e.kind = "complex" /\ e.name = x.name /\ e.node = x.node
  <2>1. PICK j \in DOMAIN doc.content[x.owner] :
          LET e == doc.content[x.owner][j]
          IN  e.kind = "complex" /\ e.name = x.name /\ e.node = x.node
    BY <1>2
  <2>2. <<x.owner, "element", j>> \in Places(x.name)
    BY <1>1, <2>1, PlaceOfElement
  <2> QED
    BY <2>2
<1>3. CASE x.owner = Root /\ \E k \in DOMAIN doc.types :
              doc.types[k].name = x.name /\ doc.types[k].node = x.node
  <2>1. PICK k \in DOMAIN doc.types : doc.types[k].name = x.name
    BY <1>3
  <2>2. <<Root, "type", k>> \in Places(x.name)
    BY <2>1, PlaceOfType
  <2> QED
    BY <1>3, <2>2
<1> QED
  BY <1>2, <1>3, DeclaredWhere

LEMMA ParentWritten ==
  ASSUME TypeOK, TreeInv, StackInv, [Next]_vars
  PROVE  \/ parent' = parent
         \/ \E n \in Names : \E p \in Places(n) :
              /\ parent' = [parent EXCEPT ![n] = NameOf(p[1])]
              /\ NameOf(p[1]) = NoParent \/ NameOf(p[1]) \in Values(list)
<1>1. CASE AddSimple
  <2>1. PICK e : e = Element
    OBVIOUS
  <2>2. /\ AtElement("simple") /\ parent' = [parent EXCEPT ![e.name] = Top.name]
    BY <1>1, <2>1 DEF AddSimple
  <2>3. /\ Top.elem \in DOMAIN doc.content[Top.node] /\ e = doc.content[Top.node][Top.elem]
        /\ e.kind = "simple" /\ e.name \in Names /\ stack # << >>
    BY <2>1, <2>2, ElementNow
  <2>4. <<Top.node, "element", Top.elem>> \in Places(e.name)
    BY <2>3, PlaceOfElement, TopTypes
  <2>5. /\ Top.name = NameOf(Top.node)
        /\ Top.name = NoParent \/ Top.name \in Values(list)
    BY <2>3, ActiveNames, TopTypes DEF Top
  <2> QED
    BY <2>2, <2>3, <2>4, <2>5
<1>2. CASE AddAttribute
  <2>1. PICK a : a = doc.attrs[Top.node][Top.attr]
    OBVIOUS
  <2>2. /\ AtAttribute /\ parent' = [parent EXCEPT ![a] = Top.name]
    BY <1>2, <2>1 DEF AddAttribute
  <2>3. /\ Top.attr \in DOMAIN doc.attrs[Top.node] /\ a \in Names /\ stack # << >>
    BY <2>1, <2>2, AttributeNow
  <2>4. <<Top.node, "attribute", Top.attr>> \in Places(a)
    BY <2>1, <2>3, PlaceOfAttribute, TopTypes
  <2>5. /\ Top.name = NameOf(Top.node)
        /\ Top.name = NoParent \/ Top.name \in Values(list)
    BY <2>3, ActiveNames, TopTypes DEF Top
  <2> QED
    BY <2>2, <2>3, <2>4, <2>5
<1>3. CASE LeaveElement
  <2>1. /\ stack # << >> /\ Top.via = "element"
        /\ parent' = [parent EXCEPT ![Top.name] = Top.class]
    BY <1>3 DEF LeaveElement, AtReturn
  <2>2. /\ Top.class = NoParent \/ Top.class \in Values(list)
        /\ \E x \in Declared :
             x.name = Top.name /\ x.node = Top.node /\ Top.class = NameOf(x.owner)
    BY <2>1, TopElement
  <2>3. \E p \in Places(Top.name) : NameOf(p[1]) = Top.class
    BY <2>2, ElementNameAt
  <2>4. Top.name \in Names
    BY <2>2, DeclaredWhere
  <2> QED
    BY <2>1, <2>2, <2>3, <2>4
<1> QED
  BY <1>1, <1>2, <1>3
  DEF Next, EnterType, EnterRoot, EnterElement, PassTyped, LeaveType, LeaveRoot, vars

LEMMA MapWritten ==
  ASSUME TypeOK, TreeInv, StackInv, [Next]_vars
  PROVE  \/ map' = map
         \/ \E x \in Declared :
              /\ map' = [map EXCEPT ![x.name] = x.node]
              /\ x.name \in Values(list) /\ x.node = Top.node /\ stack # << >>
<1>1. CASE LeaveType \/ LeaveElement
  <2>1. /\ stack # << >> /\ Top.via # "root" /\ map' = [map EXCEPT ![Top.name] = Top.node]
    BY <1>1 DEF LeaveType, LeaveElement, AtReturn
  <2> QED
    BY <2>1, TopDeclared
<1> QED
  BY <1>1
  DEF Next, EnterType, EnterRoot, EnterElement, PassTyped, AddSimple, AddAttribute, LeaveRoot, vars

LEMMA NextParents ==
  ASSUME TypeOK, TreeInv, StackInv, ParentsRegistered, [Next]_vars
  PROVE  ParentsRegistered'
<1>1. Values(list) \subseteq Values(list')
  BY ListGrows
<1>2. CASE parent' = parent
  BY <1>1, <1>2 DEF ParentsRegistered
<1>3. CASE \E n \in Names : \E p \in Places(n) :
              /\ parent' = [parent EXCEPT ![n] = NameOf(p[1])]
              /\ NameOf(p[1]) = NoParent \/ NameOf(p[1]) \in Values(list)
  BY <1>1, <1>3 DEF ParentsRegistered, TypeOK
<1> QED
  BY <1>2, <1>3, ParentWritten

LEMMA NextMap ==
  ASSUME TypeOK, TreeInv, StackInv, MapInv, [Next]_vars
  PROVE  MapInv'
<1>1. Values(list) \subseteq Values(list') /\ Declared' = Declared
  BY ListGrows, NextDocument, SameDocument
<1>2. CASE map' = map
  BY <1>1, <1>2 DEF MapInv
<1>3. CASE \E x \in Declared : map' = [map EXCEPT ![x.name] = x.node] /\ x.name \in Values(list)
  BY <1>1, <1>3 DEF MapInv, TypeOK
<1> QED
  BY <1>2, <1>3, MapWritten

\* With distinct names, what is once right in the map or the parents stays.
LEMMA ParentStays ==
  ASSUME TypeOK, TreeInv, StackInv, UniqueNames, [Next]_vars,
         NEW n \in Names, NEW p \in Places(n), parent[n] = NameOf(p[1])
  PROVE  parent'[n] = NameOf(p[1])
<1>1. CASE parent' = parent
  BY <1>1
<1>2. CASE \E m \in Names : \E q \in Places(m) : parent' = [parent EXCEPT ![m] = NameOf(q[1])]
  <2>0. PICK m \in Names : \E q \in Places(m) : parent' = [parent EXCEPT ![m] = NameOf(q[1])]
    BY <1>2
  <2>1. PICK q \in Places(m) : parent' = [parent EXCEPT ![m] = NameOf(q[1])]
    BY <2>0
  <2>2. m = n => q = p
    BY DEF UniqueNames
  <2> QED
    BY <2>1, <2>2 DEF TypeOK
<1> QED
  BY <1>1, <1>2, ParentWritten

LEMMA MapStays ==
  ASSUME TypeOK, TreeInv, StackInv, UniqueNames, [Next]_vars,
         NEW x \in Declared, map[x.name] = x.node
  PROVE  map'[x.name] = x.node
<1>1. CASE map' = map
  BY <1>1
<1>2. CASE \E y \in Declared : map' = [map EXCEPT ![y.name] = y.node]
  <2>1. PICK y \in Declared : map' = [map EXCEPT ![y.name] = y.node]
    BY <1>2
  <2>2. y.name = x.name => y = x
    BY DeclaredOnce
  <2> QED
    BY <2>1, <2>2 DEF TypeOK
<1> QED
  BY <1>1, <1>2, MapWritten

\* The steps, by what they do to the activations: nothing, the first one
\* opens, a loop over elements or attributes moves (an element may open
\* another activation), the top one returns and its node is finished.
Keeps == UNCHANGED <<stack, map, done>>

Opens ==
  /\ stack = << >> /\ DOMAIN stack' = {1}
  /\ stack'[1].elem = 1 /\ stack'[1].attr = 1
  /\ UNCHANGED <<map, done>>

PassesElement ==
  /\ stack # << >> /\ Top.elem \in DOMAIN doc.content[Top.node]
  /\ DOMAIN stack \subseteq DOMAIN stack'
  /\ \A i \in DOMAIN stack :
       /\ stack'[i].node = stack[i].node /\ stack'[i].attr = stack[i].attr
       /\ stack'[i].elem = IF i = Len(stack) THEN stack[i].elem + 1 ELSE stack[i].elem
  /\ \A i \in DOMAIN stack' \ DOMAIN stack :
       /\ stack'[i].elem = 1 /\ stack'[i].attr = 1 /\ stack'[i].node = Element.node
       /\ i = Len(stack) + 1 /\ Element.kind = "complex"
  /\ UNCHANGED <<map, done>>

PassesAttribute ==
  /\ stack # << >> /\ Top.attr \in DOMAIN doc.attrs[Top.node]
  /\ DOMAIN stack = DOMAIN stack'
  /\ \A i \in DOMAIN stack :
       /\ stack'[i].node = stack[i].node /\ stack'[i].elem = stack[i].elem
       /\ stack'[i].attr = IF i = Len(stack) THEN stack[i].attr + 1 ELSE stack[i].attr
  /\ UNCHANGED <<map, done>>

Returns ==
  /\ AtReturn
  /\ DOMAIN stack' = 1..(Len(stack) - 1)
  /\ \A i \in DOMAIN stack' : stack'[i] = stack[i]
  /\ \/ Top.node = Root /\ done' = TRUE /\ map' = map
     \/ /\ Top.node \in Nodes /\ Top.name \in Names /\ done' = done
        /\ map' = [map EXCEPT ![Top.name] = Top.node]

LEMMA PassesElementBy ==
  ASSUME TypeOK, TypeOK', stack # << >>, Top.elem \in DOMAIN doc.content[Top.node],
         UNCHANGED <<map, done>>, stack' = PastElement
  PROVE  PassesElement
<1>1. /\ DOMAIN stack = 1..Len(stack) /\ DOMAIN stack' = DOMAIN stack
      /\ Len(stack) \in Nat \ {0}
  BY PastElementStack, TopTypes DEF TypeOK
<1>2. ASSUME NEW i \in DOMAIN stack
      PROVE  /\ stack'[i].node = stack[i].node /\ stack'[i].attr = stack[i].attr
             /\ stack'[i].elem = IF i = Len(stack) THEN stack[i].elem + 1 ELSE stack[i].elem
  <2>1. CASE i = Len(stack)
    BY <2>1, PastElementStack DEF Top
  <2>2. CASE i # Len(stack)
    BY <1>1, <2>2, PastElementStack
  <2> QED
    BY <2>1, <2>2
<1> QED
  BY <1>1, <1>2 DEF PassesElement

LEMMA ReturnsBy ==
  ASSUME TypeOK, TypeOK', AtReturn, stack' = Popped,
         \/ Top.node = Root /\ done' = TRUE /\ map' = map
         \/ /\ Top.node \in Nodes /\ Top.name \in Names /\ done' = done
            /\ map' = [map EXCEPT ![Top.name] = Top.node]
  PROVE  Returns
<1>1. stack # << >>
  BY DEF AtReturn
<1>2. /\ Len(stack') = Len(stack) - 1 /\ DOMAIN stack' = 1..(Len(stack) - 1)
      /\ \A i \in 1..(Len(stack) - 1) : stack'[i] = stack[i]
  <2>1. /\ Len(stack') = Len(stack) - 1
        /\ \A i \in 1..(Len(stack) - 1) : stack'[i] = stack[i]
    BY <1>1, PoppedStack
  <2>2. DOMAIN stack' = 1..Len(stack')
    BY DEF TypeOK
  <2> QED
    BY <2>1, <2>2
<1> QED
  BY <1>2 DEF Returns

LEMMA StepCases ==
  ASSUME TypeOK, TypeOK', TreeInv, StackInv, [Next]_vars
  PROVE  Keeps \/ Opens \/ PassesElement \/ PassesAttribute \/ Returns
<1>1. CASE EnterType
  <2>0. PICK t, f : t = doc.types[next] /\ f = Frame(t.node, t.name, NoParent, "type")
    OBVIOUS
  <2>1. stack = << >> /\ stack' = <<f>> /\ UNCHANGED <<map, done>>
    BY <1>1, <2>0 DEF EnterType
  <2>2. f.elem = 1 /\ f.attr = 1
    BY <2>0 DEF Frame
  <2>3. DOMAIN stack' = {1} /\ stack'[1] = f
    BY <2>1
  <2> QED
    BY <2>1, <2>2, <2>3 DEF Opens
<1>2. CASE EnterRoot
  <2>0. PICK f : f = Frame(Root, NoParent, NoParent, "root")
    OBVIOUS
  <2>1. stack = << >> /\ stack' = <<f>> /\ UNCHANGED <<map, done>>
    BY <1>2, <2>0 DEF EnterRoot
  <2>2. f.elem = 1 /\ f.attr = 1
    BY <2>0 DEF Frame
  <2>3. DOMAIN stack' = {1} /\ stack'[1] = f
    BY <2>1
  <2> QED
    BY <2>1, <2>2, <2>3 DEF Opens
<1>3. CASE EnterElement
  <2>0. PICK e, f, n :
           e = Element /\ n = Len(stack) /\ f = Frame(e.node, e.name, Top.name, "element")
    OBVIOUS
  <2>1. /\ AtElement("complex") /\ stack' = Append(PastElement, f) /\ UNCHANGED <<map, done>>
    BY <1>3, <2>0 DEF EnterElement
  <2>2. /\ e.name \in Names \cup {NoParent} /\ e.node \in Owners /\ e.kind = "complex"
        /\ Top.name \in Names \cup {NoParent} /\ stack # << >>
        /\ Top.elem \in DOMAIN doc.content[Top.node]
    BY <2>0, <2>1, ElementNow, ElementTypes, TopTypes DEF Owners
  <2>3. /\ Frame(e.node, e.name, Top.name, "element") \in Frames
        /\ Frame(e.node, e.name, Top.name, "element").node = e.node
        /\ Frame(e.node, e.name, Top.name, "element").elem = 1
        /\ Frame(e.node, e.name, Top.name, "element").attr = 1
    <3>1. /\ e.node \in Owners /\ e.name \in Names \cup {NoParent}
          /\ Top.name \in Names \cup {NoParent}
      BY <2>2
    <3> QED
      BY <3>1, FrameType
  <2>4. f \in Frames /\ f.node = e.node /\ f.elem = 1 /\ f.attr = 1
    BY <2>0, <2>3
  <2>5. /\ stack' \in Seq(Frames) /\ Len(stack') = n + 1 /\ stack'[n + 1] = f
        /\ stack'[n].elem = Top.elem + 1
        /\ \A i \in 1..(n - 1) : stack'[i] = stack[i]
        /\ \A i \in DOMAIN stack :
             stack'[i].node = stack[i].node /\ stack'[i].attr = stack[i].attr
    BY <2>0, <2>1, <2>2, <2>4, PushStack
  <2>6. n \in Nat \ {0} /\ DOMAIN stack = 1..n /\ DOMAIN stack' = 1..(n + 1) /\ Top = stack[n]
    BY <2>0, <2>2, <2>5, TopTypes DEF Top
  <2>7. \A i \in DOMAIN stack :
           stack'[i].elem = IF i = n THEN stack[i].elem + 1 ELSE stack[i].elem
    BY <2>5, <2>6
  <2>8. \A i \in DOMAIN stack' \ DOMAIN stack : i = n + 1
    BY <2>6
  <2> QED
    <3>1. /\ stack # << >> /\ Top.elem \in DOMAIN doc.content[Top.node]
          /\ DOMAIN stack \subseteq DOMAIN stack'
      BY <2>2, <2>6
    <3>2. \A i \in DOMAIN stack :
             /\ stack'[i].node = stack[i].node /\ stack'[i].attr = stack[i].attr
             /\ stack'[i].elem = IF i = Len(stack) THEN stack[i].elem + 1 ELSE stack[i].elem
      BY <2>0, <2>5, <2>7
    <3>3. \A i \in DOMAIN stack' \ DOMAIN stack :
             /\ stack'[i].elem = 1 /\ stack'[i].attr = 1 /\ stack'[i].node = Element.node
             /\ i = Len(stack) + 1 /\ Element.kind = "complex"
      BY <2>0, <2>2, <2>3, <2>4, <2>5, <2>8
    <3> QED
      BY <2>1, <3>1, <3>2, <3>3, Zenon DEF PassesElement
<1>4. CASE PassTyped
  <2>1. PICK k : AtElement(k) /\ stack' = PastElement /\ UNCHANGED <<map, done>>
    BY <1>4 DEF PassTyped
  <2> QED
    BY <2>1, ElementNow, PassesElementBy
<1>5. CASE AddSimple
  <2>1. PICK k : AtElement(k) /\ stack' = PastElement /\ UNCHANGED <<map, done>>
    BY <1>5 DEF AddSimple
  <2> QED
    BY <2>1, ElementNow, PassesElementBy
<1>6. CASE AddAttribute
  <2>1. AtAttribute /\ stack' = PastAttribute /\ UNCHANGED <<map, done>>
    BY <1>6 DEF AddAttribute
  <2>2. stack # << >> /\ Top.attr \in DOMAIN doc.attrs[Top.node]
    BY <2>1, AttributeNow
  <2>3. /\ DOMAIN stack = 1..Len(stack) /\ DOMAIN stack' = DOMAIN stack
        /\ Len(stack) \in Nat \ {0}
    BY <2>1, <2>2, PastAttributeStack, TopTypes DEF TypeOK
  <2>4. ASSUME NEW i \in DOMAIN stack
        PROVE  /\ stack'[i].node = stack[i].node /\ stack'[i].elem = stack[i].elem
               /\ stack'[i].attr = IF i = Len(stack) THEN stack[i].attr + 1 ELSE stack[i].attr
    <3>1. CASE i = Len(stack)
      BY <2>1, <2>2, <3>1, PastAttributeStack DEF Top
    <3>2. CASE i # Len(stack)
      BY <2>1, <2>2, <2>3, <3>2, PastAttributeStack
    <3> QED
      BY <3>1, <3>2
  <2> QED
    BY <2>1, <2>2, <2>3, <2>4 DEF PassesAttribute
<1>7. CASE LeaveType \/ LeaveElement
  <2>1. /\ AtReturn /\ stack # << >> /\ Top.via # "root" /\ stack' = Popped /\ done' = done
        /\ map' = [map EXCEPT ![Top.name] = Top.node]
    BY <1>7 DEF LeaveType, LeaveElement, AtReturn
  <2> QED
    BY <2>1, TopDeclared, ReturnsBy
<1>8. CASE LeaveRoot
  <2>1. /\ AtReturn /\ stack # << >> /\ Top.via = "root" /\ stack' = Popped /\ done' = TRUE
        /\ map' = map
    BY <1>8 DEF LeaveRoot, AtReturn
  <2>2. Top.node = Root
    BY <2>1, TopTypes DEF StackInv, FrameInv, Top
  <2> QED
    BY <2>1, <2>2, ReturnsBy
<1>9. CASE UNCHANGED vars
  BY <1>9 DEF vars, Keeps
<1> QED
  BY <1>1, <1>2, <1>3, <1>4, <1>5, <1>6, <1>7, <1>8, <1>9 DEF Next

\* A node becomes finished when its activation returns, and stays so.
LEMMA FinishedNew ==
  ASSUME TypeOK, TypeOK', TreeInv, StackInv, [Next]_vars, NEW o \in Owners, Finished(o)'
  PROVE  Finished(o) \/ (Returns /\ stack # << >> /\ Top.node = o)
<1>1. CASE UNCHANGED <<map, done>>
  BY <1>1 DEF Finished
<1>2. CASE Returns
  <2>1. stack # << >> /\ Root \notin Nodes
    BY <1>2, DocumentAssumption DEF Returns, AtReturn
  <2>2. CASE Top.node = Root /\ done' = TRUE /\ map' = map
    BY <1>2, <2>1, <2>2 DEF Finished
  <2>3. CASE /\ Top.node \in Nodes /\ Top.name \in Names /\ done' = done
             /\ map' = [map EXCEPT ![Top.name] = Top.node]
    BY <1>2, <2>1, <2>3 DEF Finished, TypeOK
  <2> QED
    BY <1>2, <2>2, <2>3 DEF Returns
<1> QED
  BY <1>1, <1>2, StepCases DEF Keeps, Opens, PassesElement, PassesAttribute

LEMMA FinishedStays ==
  ASSUME TypeOK, TypeOK', TreeInv, StackInv, MapInv, UniqueNames, [Next]_vars,
         NEW o \in Owners, Finished(o)
  PROVE  Finished(o)'
<1>1. CASE o = Root
  <2>1. done /\ done' \in BOOLEAN
    BY <1>1 DEF Finished, TypeOK
  <2>2. done'
    BY <2>1, StepCases DEF Keeps, Opens, PassesElement, PassesAttribute, Returns
  <2> QED
    BY <1>1, <2>2 DEF Finished
<1>2. CASE o # Root
  <2>1. PICK n \in Names : map[n] = o
    BY <1>2 DEF Finished
  <2>2. o \in Nodes /\ o # NoNode
    BY <1>2, DocumentAssumption DEF Owners
  <2>3. PICK x \in Declared : x.name = n /\ x.node = o
    BY <2>1, <2>2 DEF MapInv
  <2>4. map'[n] = o
    BY <2>1, <2>3, MapStays
  <2> QED
    BY <1>2, <2>4 DEF Finished
<1> QED
  BY <1>1, <1>2

LEMMA ReturnFinishes ==
  ASSUME TypeOK, Returns, NEW o, o = Top.node
  PROVE  Finished(o)'
<1>1. Root \notin Nodes
  BY DocumentAssumption
<1>2. CASE Top.node = Root /\ done' = TRUE
  BY <1>2 DEF Finished
<1>3. CASE /\ Top.node \in Nodes /\ Top.name \in Names
           /\ map' = [map EXCEPT ![Top.name] = Top.node]
  <2>1. map'[Top.name] = o /\ Top.name \in Names /\ o # Root
    BY <1>1, <1>3 DEF TypeOK
  <2> QED
    BY <2>1 DEF Finished
<1> QED
  BY <1>2, <1>3 DEF Returns

\* An activation ends only by returning.
LEMMA ActiveStays ==
  ASSUME TypeOK, TypeOK', TreeInv, StackInv, [Next]_vars, NEW o, Active(o)
  PROVE  Active(o)' \/ (Returns /\ stack # << >> /\ Top.node = o)
<1>1. PICK i \in DOMAIN stack : stack[i].node = o
  BY DEF Active
<1>2. CASE Keeps
  BY <1>1, <1>2 DEF Keeps, Active
<1>3. CASE Opens
  BY <1>1, <1>3 DEF Opens
<1>4. CASE PassesElement
  <2>1. i \in DOMAIN stack' /\ stack'[i].node = o
    BY <1>1, <1>4 DEF PassesElement
  <2> QED
    BY <2>1 DEF Active
<1>5. CASE PassesAttribute
  <2>1. i \in DOMAIN stack' /\ stack'[i].node = o
    BY <1>1, <1>5 DEF PassesAttribute
  <2> QED
    BY <2>1 DEF Active
<1>6. CASE Returns
  <2>1. stack # << >> /\ DOMAIN stack = 1..Len(stack) /\ Len(stack) \in Nat \ {0}
    BY <1>6, TopTypes DEF Returns, AtReturn
  <2>2. CASE i = Len(stack)
    BY <1>1, <1>6, <2>1, <2>2 DEF Top
  <2>3. CASE i # Len(stack)
    <3>1. i \in DOMAIN stack' /\ stack'[i].node = o
      BY <1>1, <1>6, <2>1, <2>3 DEF Returns
    <3> QED
      BY <3>1 DEF Active
  <2> QED
    BY <2>2, <2>3
<1> QED
  BY <1>2, <1>3, <1>4, <1>5, <1>6, StepCases

\* The loops pass one element at a time, at the top of the stack.
LEMMA PassedNew ==
  ASSUME TypeOK, TypeOK', TreeInv, StackInv, [Next]_vars,
         NEW o \in Owners, NEW j \in DOMAIN doc.content[o], Passed(o, j)'
  PROVE  Passed(o, j) \/ (PassesElement /\ o = Top.node /\ j = Top.elem)
<1>0. j \in Nat \ {0} /\ j <= Len(doc.content[o]) /\ Len(doc.content[o]) \in Nat
  BY DocumentTypes
<1>1. CASE Finished(o)'
  <2>1. CASE Returns /\ stack # << >> /\ Top.node = o
    <3>1. Top.elem > Len(doc.content[o]) /\ Len(stack) \in DOMAIN stack /\ Top.elem \in Nat
      BY <2>1, TopTypes DEF Returns, AtReturn
    <3>2. stack[Len(stack)].node = o /\ j < stack[Len(stack)].elem
      BY <1>0, <2>1, <3>1 DEF Top
    <3> QED
      BY <3>1, <3>2 DEF Passed
  <2> QED
    BY <1>1, <2>1, FinishedNew DEF Passed
<1>2. CASE ~Finished(o)'
  <2>1. PICK i \in DOMAIN stack' : stack'[i].node = o /\ j < stack'[i].elem
    BY <1>2 DEF Passed
  <2>2. CASE Keeps
    BY <2>1, <2>2 DEF Keeps, Passed
  <2>3. CASE Opens
    BY <1>0, <2>1, <2>3 DEF Opens
  <2>4. CASE PassesElement
    <3>1. stack # << >> /\ i \in DOMAIN stack
      BY <1>0, <2>1, <2>4 DEF PassesElement
    <3>2. stack[i].node = o /\ stack[i].elem \in Nat
      BY <2>1, <2>4, <3>1, FrameTypes DEF PassesElement
    <3>3. CASE j < stack[i].elem
      BY <3>1, <3>2, <3>3 DEF Passed
    <3>4. CASE ~(j < stack[i].elem)
      <4>1. i = Len(stack) /\ j = stack[i].elem
        BY <1>0, <2>1, <2>4, <3>1, <3>2, <3>4 DEF PassesElement
      <4> QED
        BY <2>4, <3>2, <4>1 DEF Top
    <3> QED
      BY <3>3, <3>4
  <2>5. CASE PassesAttribute
    <3>1. i \in DOMAIN stack /\ stack[i].node = o /\ j < stack[i].elem
      BY <2>1, <2>5 DEF PassesAttribute
    <3> QED
      BY <3>1 DEF Passed
  <2>6. CASE Returns
    <3>1. DOMAIN stack = 1..Len(stack) /\ Len(stack) \in Nat \ {0}
      BY <2>6, TopTypes DEF Returns, AtReturn
    <3>2. i \in DOMAIN stack /\ stack[i].node = o /\ j < stack[i].elem
      BY <2>1, <2>6, <3>1 DEF Returns
    <3> QED
      BY <3>2 DEF Passed
  <2> QED
    BY <2>2, <2>3, <2>4, <2>5, <2>6, StepCases
<1> QED
  BY <1>1, <1>2

LEMMA PassedAttributeNew ==
  ASSUME TypeOK, TypeOK', TreeInv, StackInv, [Next]_vars,
         NEW o \in Owners, NEW j \in DOMAIN doc.attrs[o], PassedAttribute(o, j)'
  PROVE  PassedAttribute(o, j) \/ (PassesAttribute /\ o = Top.node /\ j = Top.attr)
<1>0. j \in Nat \ {0} /\ j <= Len(doc.attrs[o]) /\ Len(doc.attrs[o]) \in Nat
  BY DocumentTypes
<1>1. CASE Finished(o)'
  <2>1. CASE Returns /\ stack # << >> /\ Top.node = o
    <3>1. Top.attr > Len(doc.attrs[o]) /\ Len(stack) \in DOMAIN stack /\ Top.attr \in Nat
      BY <2>1, TopTypes DEF Returns, AtReturn
    <3>2. stack[Len(stack)].node = o /\ j < stack[Len(stack)].attr
      BY <1>0, <2>1, <3>1 DEF Top
    <3> QED
      BY <3>1, <3>2 DEF PassedAttribute
  <2> QED
    BY <1>1, <2>1, FinishedNew DEF PassedAttribute
<1>2. CASE ~Finished(o)'
  <2>1. PICK i \in DOMAIN stack' : stack'[i].node = o /\ j < stack'[i].attr
    BY <1>2 DEF PassedAttribute
  <2>2. CASE Keeps
    BY <2>1, <2>2 DEF Keeps, PassedAttribute
  <2>3. CASE Opens
    BY <1>0, <2>1, <2>3 DEF Opens
  <2>4. CASE PassesAttribute
    <3>1. stack # << >> /\ i \in DOMAIN stack
      BY <2>1, <2>4 DEF PassesAttribute
    <3>2. stack[i].node = o /\ stack[i].attr \in Nat
      BY <2>1, <2>4, <3>1, FrameTypes DEF PassesAttribute
    <3>3. CASE j < stack[i].attr
      BY <3>1, <3>2, <3>3 DEF PassedAttribute
    <3>4. CASE ~(j < stack[i].attr)
      <4>1. i = Len(stack) /\ j = stack[i].attr
        BY <1>0, <2>1, <2>4, <3>1, <3>2, <3>4 DEF PassesAttribute
      <4> QED
        BY <2>4, <3>2, <4>1 DEF Top
    <3> QED
      BY <3>3, <3>4
  <2>5. CASE PassesElement
    <3>1. i \in DOMAIN stack
      BY <1>0, <2>1, <2>5 DEF PassesElement
    <3>2. stack[i].node = o /\ j < stack[i].attr
      BY <2>1, <2>5, <3>1 DEF PassesElement
    <3> QED
      BY <3>1, <3>2 DEF PassedAttribute
  <2>6. CASE Returns
    <3>1. DOMAIN stack = 1..Len(stack) /\ Len(stack) \in Nat \ {0}
      BY <2>6, TopTypes DEF Returns, AtReturn
    <3>2. i \in DOMAIN stack /\ stack[i].node = o /\ j < stack[i].attr
      BY <2>1, <2>6, <3>1 DEF Returns
    <3> QED
      BY <3>2 DEF PassedAttribute
  <2> QED
    BY <2>2, <2>3, <2>4, <2>5, <2>6, StepCases
<1> QED
  BY <1>1, <1>2

\* What the loops have passed stays behind them.
LEMMA PassedStays ==
  ASSUME TypeOK, TypeOK', TreeInv, StackInv, MapInv, UniqueNames, [Next]_vars,
         NEW o \in Owners, NEW j \in DOMAIN doc.content[o], Passed(o, j)
  PROVE  Passed(o, j)'
<1>1. CASE Finished(o)
  BY <1>1, FinishedStays DEF Passed
<1>2. CASE ~Finished(o)
  <2>0. j \in Nat
    BY DocumentTypes
  <2>1. PICK i \in DOMAIN stack : stack[i].node = o /\ j < stack[i].elem
    BY <1>2 DEF Passed
  <2>2. CASE Keeps
    BY <2>1, <2>2 DEF Keeps, Passed
  <2>3. CASE Opens
    BY <2>1, <2>3 DEF Opens
  <2>4. CASE PassesElement
    <3>1. i \in DOMAIN stack' /\ stack'[i].node = o /\ j < stack'[i].elem
      BY <2>0, <2>1, <2>4, FrameTypes DEF PassesElement
    <3> QED
      BY <3>1 DEF Passed
  <2>5. CASE PassesAttribute
    <3>1. i \in DOMAIN stack' /\ stack'[i].node = o /\ j < stack'[i].elem
      BY <2>1, <2>5 DEF PassesAttribute
    <3> QED
      BY <3>1 DEF Passed
  <2>6. CASE Returns
    <3>1. stack # << >> /\ DOMAIN stack = 1..Len(stack) /\ Len(stack) \in Nat \ {0}
      BY <2>6, TopTypes DEF Returns, AtReturn
    <3>2. CASE i = Len(stack)
      <4>1. o = Top.node
        BY <2>1, <3>2 DEF Top
      <4>2. Finished(o)'
        BY <2>6, <4>1, ReturnFinishes
      <4> QED
        BY <4>2 DEF Passed
    <3>3. CASE i # Len(stack)
      <4>1. i \in DOMAIN stack' /\ stack'[i].node = o /\ j < stack'[i].elem
        BY <2>1, <2>6, <3>1, <3>3 DEF Returns
      <4> QED
        BY <4>1 DEF Passed
    <3> QED
      BY <3>2, <3>3
  <2> QED
    BY <2>2, <2>3, <2>4, <2>5, <2>6, StepCases
<1> QED
  BY <1>1, <1>2

\* Which actions pass an element, and an attribute.
LEMMA ElementStep ==
  ASSUME TypeOK, TreeInv, [Next]_vars, PassesElement
  PROVE  /\ Element.kind = "simple" => AddSimple
         /\ Element.kind = "complex" => EnterElement
<1>1. /\ stack # << >> /\ Top.elem \in DOMAIN doc.content[Top.node]
      /\ Len(stack) \in DOMAIN stack /\ Top.elem \in Nat
      /\ stack'[Len(stack)].elem = Top.elem + 1
  BY TopTypes DEF PassesElement, Top
<1>2. Top.elem <= Len(doc.content[Top.node]) /\ Len(doc.content[Top.node]) \in Nat
  BY <1>1, TopTypes, DocumentTypes
<1>3. ~EnterType /\ ~EnterRoot
  BY <1>1 DEF EnterType, EnterRoot
<1>4. ~AddAttribute /\ ~LeaveType /\ ~LeaveElement /\ ~LeaveRoot
  <2>1. ~AtAttribute /\ ~AtReturn
    BY <1>1, <1>2 DEF AtAttribute, AtReturn
  <2> QED
    BY <2>1 DEF AddAttribute, LeaveType, LeaveElement, LeaveRoot
<1>5. ~(UNCHANGED vars)
  <2>1. Top.elem # Top.elem + 1
    BY <1>1
  <2> QED
    BY <1>1, <2>1 DEF vars, Top
<1>6. PassTyped => Element.kind = "typed"
  BY DEF PassTyped, AtElement, Element
<1>7. AddSimple => Element.kind = "simple"
  BY DEF AddSimple, AtElement, Element
<1>8. EnterElement => Element.kind = "complex"
  BY DEF EnterElement, AtElement, Element
<1> QED
  BY <1>3, <1>4, <1>5, <1>6, <1>7, <1>8 DEF Next

LEMMA AttributeStep ==
  ASSUME TypeOK, TypeOK', TreeInv, StackInv, [Next]_vars, PassesAttribute
  PROVE  AddAttribute
<1>1. /\ stack # << >> /\ Top.attr \in DOMAIN doc.attrs[Top.node]
      /\ Len(stack) \in DOMAIN stack /\ Top.attr \in Nat
      /\ stack'[Len(stack)].attr = Top.attr + 1
      /\ Top.attr # Top.attr + 1
  BY TopTypes DEF PassesAttribute, Top
<1>2. Top.attr <= Len(doc.attrs[Top.node]) /\ Len(doc.attrs[Top.node]) \in Nat
  BY <1>1, TopTypes, DocumentTypes
<1>3. ~EnterType /\ ~EnterRoot
  BY <1>1 DEF EnterType, EnterRoot
<1>4. ~LeaveType /\ ~LeaveElement /\ ~LeaveRoot
  <2>1. ~AtReturn
    BY <1>1, <1>2 DEF AtReturn
  <2> QED
    BY <2>1 DEF LeaveType, LeaveElement, LeaveRoot
<1>5. ~(UNCHANGED vars)
  BY <1>1 DEF vars, Top
<1>6. ~PassTyped /\ ~AddSimple
  <2>1. stack' # PastElement
    BY <1>1, PastElementStack DEF Top
  <2> QED
    BY <2>1 DEF PassTyped, AddSimple
<1>7. ~EnterElement
  <2>1. EnterElement => DOMAIN stack' # DOMAIN stack
    <3>1. ASSUME EnterElement PROVE Len(stack') = Len(stack) + 1
      BY <1>1, <3>1, PastElementStack, AppendProperties DEF EnterElement
    <3>2. DOMAIN stack = 1..Len(stack) /\ Len(stack) \in Nat
      BY <1>1, TopTypes
    <3>3. DOMAIN stack' = 1..Len(stack')
      BY DEF TypeOK
    <3>4. Len(stack) + 1 \notin 1..Len(stack) /\ Len(stack) + 1 \in 1..(Len(stack) + 1)
      BY <3>2
    <3> QED
      BY <3>1, <3>2, <3>3, <3>4
  <2> QED
    BY <2>1 DEF PassesAttribute
<1> QED
  BY <1>3, <1>4, <1>5, <1>6, <1>7 DEF Next

-----------------------------------------------------------------------------
(* Documents with distinct names.                                           *)

\* A complexType is not listed before the loops come to it.
LEMMA TypeUnlisted ==
  ASSUME UniqueNames, TreeInv, ListedOnce, NEW k \in DOMAIN doc.types, k = next
  PROVE  doc.types[k].name \notin Values(list)
<1> DEFINE n == doc.types[k].name
<1>1. SUFFICES ASSUME Reached(n) PROVE FALSE
  BY DEF ListedOnce
<1>2. n \in Names /\ <<Root, "type", k>> \in Places(n)
  BY DocumentTypes, PlaceOfType
<1>3. CASE \E h \in DOMAIN doc.types : h < next /\ doc.types[h].name = n
  <2>1. PICK h \in DOMAIN doc.types : h < next /\ doc.types[h].name = n
    BY <1>3
  <2>2. <<Root, "type", h>> \in Places(n)
    BY <2>1, PlaceOfType
  <2>3. <<Root, "type", h>> = <<Root, "type", k>>
    BY <1>2, <2>2 DEF UniqueNames
  <2>4. h = k /\ k \in Nat
    BY <2>3, DocumentTypes
  <2> QED
    BY <2>1, <2>4
<1>4. CASE \E o \in Owners : \E j \in DOMAIN doc.content[o] :
             doc.content[o][j].kind = "complex" /\ doc.content[o][j].name = n
  <2>1. PICK o \in Owners : \E j \in DOMAIN doc.content[o] :
             doc.content[o][j].kind = "complex" /\ doc.content[o][j].name = n
    BY <1>4
  <2>2. PICK j \in DOMAIN doc.content[o] :
             doc.content[o][j].kind = "complex" /\ doc.content[o][j].name = n
    BY <2>1
  <2>3. <<o, "element", j>> \in Places(n)
    BY <2>2, PlaceOfElement
  <2>4. <<o, "element", j>> = <<Root, "type", k>>
    BY <1>2, <2>3 DEF UniqueNames
  <2> QED
    BY <2>4
<1> QED
  BY <1>1, <1>3, <1>4 DEF Reached

LEMMA ElementUnlisted ==
  ASSUME UniqueNames, TypeOK, TreeInv, OpenOnce, ListedOnce, AtElement("complex")
  PROVE  Element.name \notin Values(list)
<1>0. PICK e, w, i : e = Element /\ w = Top.node /\ i = Top.elem
  OBVIOUS
<1>1. /\ stack # << >> /\ w \in Owners /\ i \in DOMAIN doc.content[w] /\ i \in Nat
      /\ e = doc.content[w][i] /\ e.kind = "complex" /\ e.name \in Names
  BY <1>0, ElementNow, TopTypes
<1>2. SUFFICES ASSUME Reached(e.name) PROVE FALSE
  BY <1>0 DEF ListedOnce
<1>3. <<w, "element", i>> \in Places(e.name)
  BY <1>1, PlaceOfElement
<1>4. CASE \E h \in DOMAIN doc.types : doc.types[h].name = e.name
  <2>1. PICK h \in DOMAIN doc.types : doc.types[h].name = e.name
    BY <1>4
  <2>2. <<Root, "type", h>> \in Places(e.name)
    BY <2>1, PlaceOfType
  <2>3. <<w, "element", i>> = <<Root, "type", h>>
    BY <1>1, <1>3, <2>2 DEF UniqueNames
  <2> QED
    BY <2>3
<1>5. CASE \E o \in Owners : \E j \in DOMAIN doc.content[o] :
             /\ doc.content[o][j].kind = "complex" /\ doc.content[o][j].name = e.name
             /\ Passed(o, j)
  <2>1. PICK o \in Owners : \E j \in DOMAIN doc.content[o] :
             /\ doc.content[o][j].kind = "complex" /\ doc.content[o][j].name = e.name
             /\ Passed(o, j)
    BY <1>5
  <2>2. PICK j \in DOMAIN doc.content[o] :
             /\ doc.content[o][j].kind = "complex" /\ doc.content[o][j].name = e.name
             /\ Passed(o, j)
    BY <2>1
  <2>3. <<o, "element", j>> \in Places(e.name)
    BY <2>2, PlaceOfElement
  <2>4. <<o, "element", j>> = <<w, "element", i>>
    BY <1>1, <1>3, <2>3 DEF UniqueNames
  <2>5. o = w /\ j = i
    BY <2>4
  <2>6. Len(stack) \in DOMAIN stack /\ stack[Len(stack)].node = w /\ stack[Len(stack)].elem = i
    BY <1>0, <1>1, TopTypes DEF Top
  <2>7. ~Finished(w)
    BY <2>6 DEF OpenOnce
  <2>8. PICK h \in DOMAIN stack : stack[h].node = w /\ i < stack[h].elem
    BY <2>2, <2>5, <2>7 DEF Passed
  <2>9. h = Len(stack)
    BY <2>6, <2>8 DEF OpenOnce
  <2> QED
    BY <1>1, <2>6, <2>8, <2>9
<1> QED
  BY <1>2, <1>4, <1>5 DEF Reached

\* What is not listed was not begun.
LEMMA NotBegun ==
  ASSUME TypeOK, TreeInv, StackInv, MapInv, NEW x \in Declared, x.name \notin Values(list)
  PROVE  ~Active(x.node) /\ ~Finished(x.node)
<1>1. x.node \in Nodes /\ x.node # Root /\ NameOf(x.node) = x.name /\ x.node # NoNode
  BY DeclaredWhere, NameOfDeclared, DocumentAssumption
<1>2. ~Active(x.node)
  <2>1. SUFFICES ASSUME NEW i \in DOMAIN stack, stack[i].node = x.node PROVE FALSE
    BY DEF Active
  <2>2. stack[i].name = x.name
    BY <1>1, <2>1, ActiveNames
  <2>3. stack[i].via # "root"
    BY <1>1, <2>1 DEF StackInv, FrameInv
  <2> QED
    BY <2>2, <2>3, ActiveNames
<1>3. ~Finished(x.node)
  <2>1. SUFFICES ASSUME NEW n \in Names, map[n] = x.node PROVE FALSE
    BY <1>1 DEF Finished
  <2>2. PICK y \in Declared : y.name = n /\ y.node = x.node /\ n \in Values(list)
    BY <1>1, <2>1 DEF MapInv
  <2>3. y.name = x.name
    BY <2>2, NameOfDeclared, <1>1
  <2> QED
    BY <2>2, <2>3
<1> QED
  BY <1>2, <1>3

\* The type that opens, with the node Opens speaks of.
LEMMA OpensAs ==
  ASSUME TypeOK, TypeOK', TreeInv, StackInv, MapInv, ListedOnce, UniqueNames,
         EnterType \/ EnterRoot
  PROVE  ~Finished(stack'[1].node) /\ stack'[1].node \in Owners
<1>1. CASE EnterType
  <2>0. PICK k, t, f : k = next /\ t = doc.types[k] /\ f = Frame(t.node, t.name, NoParent, "type")
    OBVIOUS
  <2>1. stack' = <<f>> /\ k \in DOMAIN doc.types
    BY <1>1, <2>0, DocumentTypes DEF EnterType, TypeOK
  <2>2. f.node = t.node
    BY <2>0 DEF Frame
  <2>3. PICK x \in Declared : x.name = t.name /\ x.node = t.node
    BY <2>0, <2>1, TypeDeclares
  <2>4. t.name \notin Values(list)
    BY <2>0, <2>1, TypeUnlisted
  <2>5. ~Finished(t.node) /\ t.node \in Owners
    BY <2>3, <2>4, NotBegun, DeclaredWhere DEF Owners
  <2>6. stack'[1].node = t.node
    BY <2>1, <2>2
  <2> QED
    BY <2>5, <2>6
<1>2. CASE EnterRoot
  <2>0. PICK f : f = Frame(Root, NoParent, NoParent, "root")
    OBVIOUS
  <2>1. stack' = <<f>> /\ ~done
    BY <1>2, <2>0 DEF EnterRoot
  <2>2. f.node = Root
    BY <2>0 DEF Frame
  <2>3. stack'[1].node = Root
    BY <2>1, <2>2
  <2> QED
    BY <2>1, <2>3 DEF Finished, Owners
<1> QED
  BY <1>1, <1>2

LEMMA NextOpenOnce ==
  ASSUME TypeOK, TypeOK', TreeInv, StackInv, MapInv, UniqueNames, OpenOnce, ListedOnce,
         [Next]_vars
  PROVE  OpenOnce'
<1>0. ASSUME NEW o, UNCHANGED <<map, done>>, ~Finished(o)
      PROVE  ~Finished(o)'
  BY <1>0 DEF Finished
<1>1. CASE Keeps
  BY <1>1 DEF Keeps, OpenOnce, Finished
<1>2. CASE Opens
  <2>1. CASE EnterType \/ EnterRoot
    <3>1. PICK o : o = stack'[1].node
      OBVIOUS
    <3>2. ~Finished(o)'
      BY <1>0, <1>2, <2>1, <3>1, OpensAs DEF Opens
    <3> QED
      BY <1>2, <3>1, <3>2 DEF Opens, OpenOnce
  <2>2. CASE ~(EnterType \/ EnterRoot)
    <3>1. ~EnterElement /\ ~PassTyped /\ ~AddSimple /\ ~AddAttribute
          /\ ~LeaveType /\ ~LeaveElement /\ ~LeaveRoot
      BY <1>2 DEF Opens, EnterElement, PassTyped, AddSimple, AddAttribute, AtElement, AtAttribute,
                  LeaveType, LeaveElement, LeaveRoot, AtReturn
    <3>2. ~(UNCHANGED vars)
      <4>1. ASSUME stack' = stack PROVE FALSE
        BY <1>2, <4>1 DEF Opens
      <4> QED
        BY <4>1 DEF vars
    <3> QED
      BY <2>2, <3>1, <3>2 DEF Next
  <2> QED
    BY <2>1, <2>2
<1>3. CASE PassesElement
  <2>1. ASSUME NEW i \in DOMAIN stack', i \notin DOMAIN stack
        PROVE  /\ i = Len(stack) + 1 /\ stack'[i].node = Element.node
               /\ ~Active(Element.node) /\ ~Finished(Element.node)
    <3>1. /\ stack'[i].node = Element.node /\ i = Len(stack) + 1 /\ Element.kind = "complex"
      BY <1>3, <2>1 DEF PassesElement
    <3>2. EnterElement
      BY <1>3, <3>1, ElementStep
    <3>3. AtElement("complex")
      BY <3>2 DEF EnterElement
    <3>4. PICK x \in Declared : x.name = Element.name /\ x.node = Element.node
      <4>1. PICK e, w, h : e = Element /\ w = Top.node /\ h = Top.elem
        OBVIOUS
      <4>2. /\ w \in Owners /\ h \in DOMAIN doc.content[w]
            /\ e = doc.content[w][h] /\ e.kind = "complex"
        BY <3>3, <4>1, ElementNow, TopTypes
      <4> QED
        BY <4>1, <4>2, ElementDeclares
    <3> QED
      BY <3>1, <3>3, <3>4, ElementUnlisted, NotBegun
  <2>2. ASSUME NEW i \in DOMAIN stack PROVE stack'[i].node = stack[i].node /\ i \in DOMAIN stack'
    BY <1>3 DEF PassesElement
  <2>3. ASSUME NEW i \in DOMAIN stack' PROVE ~Finished(stack'[i].node)
    BY <2>1, <2>2 DEF OpenOnce
  <2>4. ASSUME NEW i \in DOMAIN stack', NEW j \in DOMAIN stack',
               stack'[i].node = stack'[j].node
        PROVE  i = j
    <3>1. CASE i \in DOMAIN stack /\ j \in DOMAIN stack
      BY <2>2, <2>4, <3>1 DEF OpenOnce
    <3>2. CASE i \notin DOMAIN stack /\ j \notin DOMAIN stack
      BY <2>1, <3>2
    <3>3. CASE i \in DOMAIN stack /\ j \notin DOMAIN stack
      BY <2>1, <2>2, <2>4, <3>3 DEF Active
    <3>4. CASE i \notin DOMAIN stack /\ j \in DOMAIN stack
      BY <2>1, <2>2, <2>4, <3>4 DEF Active
    <3> QED
      BY <3>1, <3>2, <3>3, <3>4
  <2>5. UNCHANGED <<map, done>>
    BY <1>3 DEF PassesElement
  <2>6. ASSUME NEW i \in DOMAIN stack', NEW o, o = stack'[i].node PROVE ~Finished(o)'
    BY <1>0, <2>3, <2>5, <2>6
  <2> QED
    BY <2>4, <2>6 DEF OpenOnce, Finished
<1>4. CASE PassesAttribute
  BY <1>4 DEF PassesAttribute, OpenOnce, Finished
<1>5. CASE Returns
  <2>1. /\ stack # << >> /\ DOMAIN stack = 1..Len(stack) /\ Len(stack) \in Nat \ {0}
        /\ Top.node \in Owners
    BY <1>5, TopTypes DEF Returns, AtReturn
  <2>2. ASSUME NEW i \in DOMAIN stack'
        PROVE  i \in DOMAIN stack /\ i # Len(stack) /\ stack'[i].node = stack[i].node
    BY <1>5, <2>1 DEF Returns
  <2>3. ASSUME NEW i \in DOMAIN stack', NEW o, o = stack'[i].node PROVE ~Finished(o)'
    <3>1. ~Finished(o) /\ o # Top.node /\ o \in Owners
      BY <2>1, <2>2, <2>3, FrameTypes DEF OpenOnce, Top
    <3> QED
      BY <3>1, FinishedNew
  <2>4. \A i, j \in DOMAIN stack' : stack'[i].node = stack'[j].node => i = j
    BY <2>2 DEF OpenOnce
  <2> QED
    BY <2>3, <2>4 DEF OpenOnce, Finished
<1> QED
  BY <1>1, <1>2, <1>3, <1>4, <1>5, StepCases

LEMMA NextGlobals ==
  ASSUME TypeOK, TreeInv, StackInv, UniqueNames, GlobalsOutside, [Next]_vars
  PROVE  GlobalsOutside'
<1>1. ASSUME NEW k \in DOMAIN doc.types PROVE parent'[doc.types[k].name] = NoParent
  <2>1. PICK n \in Names : n = doc.types[k].name
    BY DocumentTypes
  <2>2. PICK p \in Places(n) : p = <<Root, "type", k>>
    BY <2>1, PlaceOfType
  <2>3. NameOf(p[1]) = NoParent
    BY <2>2, NameOfRoot
  <2>4. parent[n] = NoParent
    BY <2>1 DEF GlobalsOutside
  <2> QED
    BY <2>1, <2>3, <2>4, ParentStays
<1>2. ASSUME NEW k \in DOMAIN doc.simple PROVE parent'[doc.simple[k]] = NoParent
  <2>1. PICK n \in Names : n = doc.simple[k]
    BY DocumentTypes
  <2>2. PICK p \in Places(n) : p = <<Root, "simple", k>>
    BY <2>1, PlaceOfSimple
  <2>3. NameOf(p[1]) = NoParent
    BY <2>2, NameOfRoot
  <2>4. parent[n] = NoParent
    BY <2>1 DEF GlobalsOutside
  <2> QED
    BY <2>1, <2>3, <2>4, ParentStays
<1>3. doc' = doc
  BY NextDocument
<1> QED
  BY <1>1, <1>2, <1>3 DEF GlobalsOutside

\* A new name at the end of a list without repetitions.
LEMMA AppendOnce ==
  ASSUME NEW S, NEW s \in Seq(S), NEW n \in S, n \notin Values(s),
         \A i, j \in DOMAIN s : s[i] = s[j] => i = j
  PROVE  \A i, j \in DOMAIN Append(s, n) : Append(s, n)[i] = Append(s, n)[j] => i = j
<1> DEFINE t == Append(s, n)
<1>1. /\ t \in Seq(S) /\ Len(t) = Len(s) + 1 /\ Len(s) \in Nat
      /\ t[Len(s) + 1] = n /\ \A i \in 1..Len(s) : t[i] = s[i]
  BY PushTop
<1> HIDE DEF t
<1>2. DOMAIN s = 1..Len(s) /\ DOMAIN t = 1..(Len(s) + 1)
  BY <1>1
<1>3. \A i \in DOMAIN t : i \in DOMAIN s \/ i = Len(s) + 1
  BY <1>1, <1>2
<1>4. \A i \in DOMAIN s : s[i] # n
  BY DEF Values
<1>5. \A i, j \in DOMAIN t : t[i] = t[j] => i = j
  BY <1>1, <1>2, <1>3, <1>4
<1> QED
  BY <1>5 DEF t

LEMMA NextListedOnce ==
  ASSUME TypeOK, TypeOK', TreeInv, StackInv, MapInv, UniqueNames, OpenOnce, ListedOnce,
         [Next]_vars
  PROVE  ListedOnce'
<1>0. doc' = doc
  BY NextDocument
<1>1. ASSUME NEW n, Reached(n) PROVE Reached(n)'
  <2>1. CASE \E k \in DOMAIN doc.types : k < next /\ doc.types[k].name = n
    <3>1. PICK k \in DOMAIN doc.types : k < next /\ doc.types[k].name = n
      BY <2>1
    <3>2. next' = next \/ next' = next + 1
      BY DEF Next, vars, EnterType, EnterRoot, EnterElement, PassTyped, AddSimple, AddAttribute,
             LeaveType, LeaveElement, LeaveRoot
    <3>3. k < next'
      BY <3>1, <3>2, DocumentTypes DEF TypeOK
    <3> QED
      BY <1>0, <3>1, <3>3 DEF Reached
  <2>2. CASE \E o \in Owners : \E j \in DOMAIN doc.content[o] :
               /\ doc.content[o][j].kind = "complex" /\ doc.content[o][j].name = n
               /\ Passed(o, j)
    <3>1. PICK o \in Owners : \E j \in DOMAIN doc.content[o] :
               /\ doc.content[o][j].kind = "complex" /\ doc.content[o][j].name = n
               /\ Passed(o, j)
      BY <2>2
    <3>2. PICK j \in DOMAIN doc.content[o] :
               /\ doc.content[o][j].kind = "complex" /\ doc.content[o][j].name = n
               /\ Passed(o, j)
      BY <3>1
    <3>3. Passed(o, j)'
      BY <3>2, PassedStays
    <3> QED
      BY <1>0, <3>2, <3>3 DEF Reached
  <2> QED
    BY <1>1, <2>1, <2>2 DEF Reached
<1>2. CASE list' = list
  BY <1>1, <1>2 DEF ListedOnce
<1>3. ASSUME NEW n \in Names, list' = Append(list, n), n \notin Values(list), Reached(n)'
      PROVE  ListedOnce'
  <2>1. list \in Seq(Names) /\ \A i, j \in DOMAIN list : list[i] = list[j] => i = j
    BY DEF TypeOK, ListedOnce
  <2>2. \A i, j \in DOMAIN list' : list'[i] = list'[j] => i = j
    BY <1>3, <2>1, AppendOnce
  <2>3. Values(list') = Values(list) \cup {n}
    BY <1>3, <2>1, AppendValues
  <2>4. ASSUME NEW m \in Values(list') PROVE Reached(m)'
    BY <1>1, <1>3, <2>3 DEF ListedOnce
  <2> QED
    BY <2>2, <2>4 DEF ListedOnce
<1>4. CASE EnterType
  <2>1. PICK k : k = next
    OBVIOUS
  <2>2. PICK n : n = doc.types[k].name
    OBVIOUS
  <2>3. /\ k \in DOMAIN doc.types /\ list' = Append(list, n) /\ k < next'
        /\ n \in Names
    BY <1>4, <2>1, <2>2, DocumentTypes DEF EnterType, TypeOK
  <2>4. n \notin Values(list)
    BY <2>1, <2>2, <2>3, TypeUnlisted
  <2>5. Reached(n)'
    BY <1>0, <2>2, <2>3 DEF Reached
  <2> QED
    BY <1>3, <2>3, <2>4, <2>5
<1>5. CASE EnterElement
  <2>1. PICK e, o, j, h : e = Element /\ o = Top.node /\ j = Top.elem /\ h = Len(stack)
    OBVIOUS
  <2>2. PICK n : n = e.name
    OBVIOUS
  <2>3. /\ AtElement("complex") /\ list' = Append(list, n)
        /\ stack' = Append(PastElement, Frame(Element.node, Element.name, Top.name, "element"))
    BY <1>5, <2>1, <2>2 DEF EnterElement
  <2>4. /\ o \in Owners /\ j \in DOMAIN doc.content[o] /\ j \in Nat /\ stack # << >>
        /\ e = doc.content[o][j] /\ e.kind = "complex" /\ n \in Names
    BY <2>1, <2>2, <2>3, ElementNow, TopTypes
  <2>5. n \notin Values(list)
    BY <2>1, <2>2, <2>3, ElementUnlisted
  <2>6. Passed(o, j)'
    <3>1. PassesElement
      <4>1. /\ h \in DOMAIN stack /\ stack'[h].elem = j + 1 /\ stack[h].elem = j
        <5>1. h \in Nat \ {0} /\ h \in DOMAIN stack /\ Len(PastElement) = h /\ PastElement[h].elem = j + 1
          BY <2>1, <2>4, PastElementStack, TopTypes
        <5>2. stack'[h] = PastElement[h]
          <6>1. PICK f : stack' = Append(PastElement, f)
            BY <2>3
          <6>2. PastElement \in Seq(Frames)
            BY <2>4, PastElementStack
          <6> QED
            BY <5>1, <6>1, <6>2
        <5> QED
          BY <2>1, <5>1, <5>2 DEF Top
      <4>2. ~Keeps /\ ~Opens /\ ~PassesAttribute /\ ~Returns
        <5>1. ~Keeps
          BY <2>4, <4>1 DEF Keeps
        <5>2. ~Opens
          BY <2>4 DEF Opens
        <5>3. ~PassesAttribute
          BY <2>4, <4>1 DEF PassesAttribute
        <5>4. ~Returns
          <6>1. Top.elem <= Len(doc.content[Top.node])
            BY <2>3 DEF AtElement
          <6>2. Len(doc.content[o]) \in Nat
            BY <2>4, DocumentTypes
          <6> QED
            BY <2>1, <2>4, <6>1, <6>2 DEF Returns, AtReturn
        <5> QED
          BY <5>1, <5>2, <5>3, <5>4
      <4> QED
        BY <4>2, StepCases
    <3>2. h \in DOMAIN stack' /\ stack'[h].node = o /\ j < stack'[h].elem
      BY <2>1, <2>4, <3>1, TopTypes DEF PassesElement, Top
    <3> QED
      BY <3>2 DEF Passed
  <2>7. Reached(n)'
    BY <1>0, <2>2, <2>4, <2>6 DEF Reached
  <2> QED
    BY <1>3, <2>3, <2>4, <2>5, <2>7
<1> QED
  BY <1>2, <1>4, <1>5
  DEF Next, vars, EnterRoot, PassTyped, AddSimple, AddAttribute, LeaveType, LeaveElement, LeaveRoot

\* The element that opens an activation is begun.
LEMMA EnterActivates ==
  ASSUME TypeOK, TreeInv, EnterElement, NEW o, o = Element.node
  PROVE  Active(o)'
<1>1. PICK e, f, h : e = Element /\ h = Len(stack) /\ f = Frame(e.node, e.name, Top.name, "element")
  OBVIOUS
<1>2. AtElement("complex") /\ stack' = Append(PastElement, f)
  BY <1>1 DEF EnterElement
<1>3. stack # << >> /\ f.node = o
  BY <1>1 DEF Frame, AtElement, EnterElement
<1>4. PastElement \in Seq(Frames) /\ Len(PastElement) = h /\ h \in Nat
  BY <1>1, <1>3, PastElementStack, TopTypes
<1>5. f \in Frames
  <2>1. /\ e.node \in Owners /\ e.name \in Names \cup {NoParent}
        /\ Top.name \in Names \cup {NoParent}
    BY <1>1, <1>2, ElementNow, ElementTypes, TopTypes DEF Owners
  <2>2. Frame(e.node, e.name, Top.name, "element") \in Frames
    BY <2>1, FrameType
  <2> QED
    BY <1>1, <2>2
<1>6. stack' \in Seq(Frames) /\ Len(stack') = h + 1 /\ stack'[h + 1] = f
  BY <1>2, <1>4, <1>5, PushTop
<1>7. h + 1 \in DOMAIN stack' /\ stack'[h + 1].node = o
  BY <1>3, <1>4, <1>6
<1> QED
  BY <1>7 DEF Active

\* The activation of an anonymous type returns to its element: map and parent
\* are those of the place the element stands in.
LEMMA ElementReturns ==
  ASSUME TypeOK, TypeOK', TreeInv, StackInv, UniqueNames, [Next]_vars, Returns,
         NEW o \in Owners, NEW j \in DOMAIN doc.content[o], NEW e, e = doc.content[o][j],
         e.kind = "complex", e.node = Top.node
  PROVE  map'[e.name] = e.node /\ parent'[e.name] = NameOf(o)
<1> DEFINE x == [name |-> e.name, node |-> e.node, owner |-> o]
<1>1. x \in Declared /\ x.name = e.name /\ x.node = e.node /\ x.owner = o
  BY ElementDeclares
<1> HIDE DEF x
<1>2. /\ stack # << >> /\ e.node # Root /\ e.name \in Names
  BY <1>1, DeclaredWhere, NameOfDeclared DEF Returns, AtReturn
<1>3. /\ Top.via # "root" /\ Len(stack) \in DOMAIN stack
  BY <1>2, TopTypes DEF StackInv, FrameInv, Top
<1>4. Top.name = e.name
  BY <1>1, <1>2, <1>3, TopDeclared, NameOfDeclared
<1>5. map'[e.name] = e.node
  BY <1>2, <1>4 DEF Returns, TypeOK
<1>6. Top.via # "type"
  <2>1. SUFFICES ASSUME Top.via = "type" PROVE FALSE
    OBVIOUS
  <2>2. PICK k \in DOMAIN doc.types : doc.types[k].name = e.name
    BY <1>3, <1>4, <2>1 DEF StackInv, FrameInv, Top
  <2>3. <<Root, "type", k>> \in Places(e.name)
    BY <2>2, PlaceOfType
  <2>4. <<o, "element", j>> \in Places(e.name)
    BY PlaceOfElement
  <2>5. <<Root, "type", k>> = <<o, "element", j>>
    BY <1>2, <2>3, <2>4 DEF UniqueNames
  <2> QED
    BY <2>5
<1>7. Top.via = "element"
  BY <1>3, <1>6 DEF StackInv, FrameInv, Top
<1>8. PICK y \in Declared : y.name = Top.name /\ y.node = Top.node /\ Top.class = NameOf(y.owner)
  BY <1>2, <1>7, TopElement
<1>9. y = x
  BY <1>1, <1>4, <1>8, DeclaredOnce
<1>10. LeaveElement
  <2>1. ~Keeps /\ ~Opens /\ ~PassesElement /\ ~PassesAttribute
    <3>1. DOMAIN stack = 1..Len(stack) /\ Len(stack) \in Nat \ {0}
      BY <1>2, TopTypes
    <3>2. Len(stack) \in DOMAIN stack /\ Len(stack) \notin 1..(Len(stack) - 1)
      BY <3>1
    <3>3. Len(stack) \in DOMAIN stack /\ Len(stack) \notin DOMAIN stack'
      BY <3>2 DEF Returns
    <3>4. DOMAIN stack' # DOMAIN stack
      BY <3>3
    <3> QED
      BY <1>2, <3>3, <3>4 DEF Keeps, Opens, PassesElement, PassesAttribute
  <2>2. ~EnterType /\ ~EnterRoot
    BY <1>2 DEF EnterType, EnterRoot
  <2>3. ~EnterElement /\ ~PassTyped /\ ~AddSimple /\ ~AddAttribute
    <3>1. Top.elem \in Nat /\ Top.attr \in Nat /\ Len(doc.content[Top.node]) \in Nat
          /\ Len(doc.attrs[Top.node]) \in Nat
      <4>1. Top.elem \in Nat /\ Top.attr \in Nat /\ Top.node \in Owners
        BY <1>2, TopTypes
      <4>2. /\ Len(doc.content[Top.node]) \in Nat
            /\ Len(doc.attrs[Top.node]) \in Nat
        BY <1>2, <4>1, DocumentTypes
      <4> QED
        BY <4>1, <4>2
    <3>2. \A kind : ~AtElement(kind)
      BY <3>1 DEF Returns, AtReturn, AtElement
    <3>3. ~AtAttribute
      BY <3>1 DEF Returns, AtReturn, AtAttribute
    <3> QED
      BY <3>2, <3>3 DEF EnterElement, PassTyped, AddSimple, AddAttribute
  <2>4. ~LeaveType /\ ~LeaveRoot
    BY <1>7 DEF LeaveType, LeaveRoot
  <2>5. ~(UNCHANGED vars)
    BY <2>1 DEF vars, Keeps
  <2> QED
    BY <2>2, <2>3, <2>4, <2>5 DEF Next
<1>11. parent'[e.name] = Top.class
  BY <1>2, <1>4, <1>10 DEF LeaveElement, TypeOK
<1> QED
  BY <1>1, <1>5, <1>8, <1>9, <1>11

LEMMA NextRecordedElements ==
  ASSUME TypeOK, TypeOK', TreeInv, StackInv, UniqueNames, Recorded, [Next]_vars,
         NEW o \in Owners, NEW j \in DOMAIN doc.content[o], Passed(o, j)'
  PROVE  ElementRecorded(o, j)'
<1> DEFINE E == doc.content[o][j]
<1>0. PICK e : e = E
  OBVIOUS
<1>1. /\ e = doc.content[o][j] /\ doc'.content[o][j] = e /\ e.name \in Names
      /\ \A w : NameOf(w)' = NameOf(w)
  BY <1>0, NextDocument, SameDocument, DocumentTypes
<1> HIDE DEF E
<1>2. /\ e.kind = "simple" => parent'[e.name] = NameOf(o)
      /\ e.kind = "complex" =>
           /\ e.name \in Values(list')
           /\ Active(e.node)' \/ (map'[e.name] = e.node /\ parent'[e.name] = NameOf(o))
  <2>1. CASE Passed(o, j)
    <3>1. ElementRecorded(o, j)
      BY <2>1 DEF Recorded
    <3>2. ASSUME e.kind = "simple" \/ e.kind = "complex", parent[e.name] = NameOf(o)
          PROVE  parent'[e.name] = NameOf(o)
      <4>1. PICK p \in Places(e.name) : p = <<o, "element", j>>
        BY <1>1, <3>2, PlaceOfElement
      <4>2. p[1] = o
        BY <4>1
      <4> QED
        BY <1>1, <3>2, <4>2, ParentStays
    <3>3. CASE e.kind = "simple"
      BY <1>1, <3>1, <3>2, <3>3 DEF ElementRecorded
    <3>4. CASE e.kind = "complex"
      <4>1. /\ e.name \in Values(list)
            /\ Active(e.node) \/ (map[e.name] = e.node /\ parent[e.name] = NameOf(o))
        BY <1>1, <3>1, <3>4 DEF ElementRecorded
      <4>2. e.name \in Values(list')
        BY <4>1, ListGrows
      <4>3. CASE Active(e.node)
        <5>1. Active(e.node)' \/ (Returns /\ stack # << >> /\ Top.node = e.node)
          BY <4>3, ActiveStays
        <5>2. Returns /\ Top.node = e.node => map'[e.name] = e.node /\ parent'[e.name] = NameOf(o)
          BY <1>1, <3>4, ElementReturns
        <5> QED
          BY <3>4, <4>2, <5>1, <5>2
      <4>4. CASE map[e.name] = e.node /\ parent[e.name] = NameOf(o)
        <5>1. PICK x \in Declared : x.name = e.name /\ x.node = e.node
          BY <1>1, <3>4, ElementDeclares
        <5>2. map'[e.name] = e.node
          BY <4>4, <5>1, MapStays
        <5>3. parent'[e.name] = NameOf(o)
          BY <3>2, <3>4, <4>4
        <5> QED
          BY <3>4, <4>2, <5>2, <5>3
      <4> QED
        BY <4>1, <4>3, <4>4
    <3> QED
      BY <3>3, <3>4
  <2>2. CASE PassesElement /\ o = Top.node /\ j = Top.elem
    <3>1. e = Element
      BY <1>1, <2>2 DEF Element
    <3>2. CASE e.kind = "simple"
      <4>1. /\ parent' = [parent EXCEPT ![e.name] = Top.name] /\ stack # << >>
        BY <2>2, <3>1, <3>2, ElementStep DEF AddSimple, PassesElement
      <4>2. Top.name = NameOf(o)
        BY <2>2, <4>1, ActiveNames, TopTypes DEF Top
      <4> QED
        BY <1>1, <3>2, <4>1, <4>2 DEF TypeOK
    <3>3. CASE e.kind = "complex"
      <4>1. EnterElement
        BY <2>2, <3>1, <3>3, ElementStep
      <4>2. e.name \in Values(list')
        BY <1>1, <3>1, <4>1, AppendValues DEF EnterElement, TypeOK
      <4>3. Active(e.node)'
        BY <3>1, <4>1, EnterActivates
      <4> QED
        BY <3>3, <4>2, <4>3
    <3> QED
      BY <3>2, <3>3
  <2> QED
    BY <2>1, <2>2, PassedNew
<1> QED
  BY <1>1, <1>2 DEF ElementRecorded, Active

LEMMA NextRecorded ==
  ASSUME TypeOK, TypeOK', TreeInv, StackInv, UniqueNames, Recorded, [Next]_vars
  PROVE  Recorded'
<1>0. doc' = doc /\ \A w : NameOf(w)' = NameOf(w)
  BY NextDocument, SameDocument
<1>1. ASSUME NEW o \in Owners, NEW j \in DOMAIN doc.attrs[o], PassedAttribute(o, j)'
      PROVE  parent'[doc.attrs[o][j]] = NameOf(o)
  <2>0. PICK a \in Names : a = doc.attrs[o][j]
    BY DocumentTypes
  <2>1. CASE PassedAttribute(o, j)
    <3>1. parent[a] = NameOf(o)
      BY <2>0, <2>1 DEF Recorded
    <3>2. PICK p \in Places(a) : p = <<o, "attribute", j>>
      BY <2>0, PlaceOfAttribute
    <3>3. p[1] = o
      BY <3>2
    <3> QED
      BY <2>0, <3>1, <3>3, ParentStays
  <2>2. CASE PassesAttribute /\ o = Top.node /\ j = Top.attr
    <3>1. parent' = [parent EXCEPT ![a] = Top.name] /\ stack # << >>
      BY <2>0, <2>2, AttributeStep DEF AddAttribute, PassesAttribute
    <3>2. Top.name = NameOf(o)
      BY <2>2, <3>1, ActiveNames, TopTypes DEF Top
    <3> QED
      BY <2>0, <3>1, <3>2 DEF TypeOK
  <2> QED
    BY <1>1, <2>1, <2>2, PassedAttributeNew
<1>2. ASSUME NEW k \in DOMAIN doc.types, k < next'
      PROVE  TypeRecorded(k)'
  <2>0. PICK t : t = doc.types[k]
    OBVIOUS
  <2>1. t.name \in Names /\ k \in Nat /\ doc'.types[k] = t
    BY <1>0, <2>0, DocumentTypes
  <2>2. PICK x \in Declared : x.name = t.name /\ x.node = t.node
    BY <2>0, TypeDeclares
  <2>3. CASE k < next
    <3>1. t.name \in Values(list) /\ (Active(t.node) \/ map[t.name] = t.node)
      BY <2>0, <2>3 DEF Recorded, TypeRecorded
    <3>2. t.name \in Values(list')
      BY <3>1, ListGrows
    <3>3. CASE map[t.name] = t.node
      <4>1. map'[t.name] = t.node
        BY <2>2, <3>3, MapStays
      <4> QED
        BY <2>1, <3>2, <4>1 DEF TypeRecorded
    <3>4. CASE Active(t.node)
      <4>1. CASE Active(t.node)'
        BY <2>1, <3>2, <4>1 DEF TypeRecorded, Active
      <4>2. CASE Returns /\ stack # << >> /\ Top.node = t.node
        <5>1. t.node # Root
          BY <2>2, NameOfDeclared
        <5>2. Top.via # "root"
          BY <4>2, <5>1, TopTypes DEF StackInv, FrameInv, Top
        <5>3. Top.name = t.name
          BY <2>2, <4>2, <5>2, TopDeclared, NameOfDeclared
        <5>4. map'[t.name] = t.node
          BY <2>1, <4>2, <5>1, <5>3 DEF Returns, TypeOK
        <5> QED
          BY <2>1, <3>2, <5>4 DEF TypeRecorded
      <4> QED
        BY <3>4, <4>1, <4>2, ActiveStays
    <3> QED
      BY <3>1, <3>3, <3>4
  <2>4. CASE ~(k < next)
    <3>1. EnterType /\ k = next
      <4>1. EnterType
        BY <1>2, <2>4 DEF Next, vars, EnterRoot, EnterElement, PassTyped, AddSimple, AddAttribute,
                          LeaveType, LeaveElement, LeaveRoot
      <4>2. next' = next + 1
        BY <4>1 DEF EnterType
      <4> QED
        BY <1>2, <2>1, <2>4, <4>1, <4>2, DocumentTypes DEF TypeOK
    <3>2. PICK f : f = Frame(t.node, t.name, NoParent, "type")
      OBVIOUS
    <3>3. list' = Append(list, t.name) /\ stack' = <<f>>
      BY <2>0, <3>1, <3>2 DEF EnterType
    <3>4. t.name \in Values(list')
      BY <2>1, <3>3, AppendValues DEF TypeOK
    <3>5. f.node = t.node
      BY <3>2 DEF Frame
    <3>6. 1 \in DOMAIN stack' /\ stack'[1].node = t.node
      BY <3>3, <3>5
    <3> QED
      BY <2>1, <3>4, <3>6 DEF TypeRecorded, Active
  <2> QED
    BY <2>3, <2>4
<1>3. \A o \in Owners : \A j \in DOMAIN doc'.content[o] : Passed(o, j)' => ElementRecorded(o, j)'
  BY <1>0, NextRecordedElements
<1>4. \A o \in Owners : \A j \in DOMAIN doc'.attrs[o] :
         PassedAttribute(o, j)' => parent'[doc'.attrs[o][j]] = NameOf(o)'
  BY <1>0, <1>1
<1>5. \A k \in DOMAIN doc'.types : k < next' => TypeRecorded(k)'
  BY <1>0, <1>2
<1> QED
  BY <1>3, <1>4, <1>5 DEF Recorded

-----------------------------------------------------------------------------
(* The invariant.                                                           *)

LEMMA InitIInv == Init => IInv
<1> SUFFICES ASSUME Init PROVE IInv
  OBVIOUS
<1>1. /\ doc \in DocumentType /\ IsTree(doc)
      /\ next = 1 /\ stack = << >> /\ list = << >> /\ simples = << >> /\ done = FALSE
      /\ map = [n \in Names |-> NoNode] /\ parent = [n \in Names |-> NoParent]
  BY DocumentAssumption DEF Init
<1>2. TreeInv
  BY <1>1 DEF TreeInv
<1>3. DOMAIN stack = {} /\ DOMAIN list = {}
  BY <1>1
<1>4. TypeOK
  <2>1. Len(doc.types) \in Nat
    BY <1>2, DocumentTypes
  <2>2. next \in 1..(Len(doc.types) + 1) /\ done \in BOOLEAN
    <3>1. PICK m \in Nat : m = Len(doc.types)
      BY <2>1
    <3>2. 1 \in 1..(m + 1)
      OBVIOUS
    <3> QED
      BY <1>1, <3>1, <3>2
  <2>3. stack \in Seq(Frames) /\ list \in Seq(Names) /\ simples \in Seq(Names)
    BY <1>1
  <2>4. /\ map \in [Names -> Nodes \cup {NoNode}]
        /\ parent \in [Names -> Names \cup {NoParent}]
    BY <1>1
  <2> QED
    BY <1>1, <2>2, <2>3, <2>4 DEF TypeOK
<1>5. StackInv /\ ParentsRegistered /\ MapInv
  BY <1>1, <1>3 DEF StackInv, ParentsRegistered, MapInv
<1>6. ASSUME NEW o \in Owners PROVE ~Finished(o)
  BY <1>1, DocumentAssumption DEF Finished, Owners
<1>7. OpenOnce
  BY <1>3 DEF OpenOnce
<1>8. Recorded
  <2>1. \A k \in DOMAIN doc.types : ~(k < next)
    BY <1>1, <1>2, DocumentTypes
  <2>2. \A o \in Owners : \A j : ~Passed(o, j) /\ ~PassedAttribute(o, j)
    BY <1>3, <1>6 DEF Passed, PassedAttribute
  <2> QED
    BY <2>1, <2>2 DEF Recorded
<1>9. GlobalsOutside
  BY <1>1, <1>2, DocumentTypes DEF GlobalsOutside
<1>10. ListedOnce
  BY <1>3 DEF ListedOnce, Values
<1> QED
  BY <1>2, <1>4, <1>5, <1>7, <1>8, <1>9, <1>10 DEF IInv

LEMMA NextIInv == IInv /\ [Next]_vars => IInv'
<1> SUFFICES ASSUME IInv, [Next]_vars PROVE IInv'
  OBVIOUS
<1>1. TypeOK /\ TreeInv /\ StackInv /\ ParentsRegistered /\ MapInv
  BY DEF IInv
<1>2. TypeOK'
  BY <1>1, NextTypeOK
<1>3. TreeInv' /\ UniqueNames' = UniqueNames
  BY <1>1, NextDocument, SameDocument
<1>4. StackInv'
  BY <1>1, <1>2, NextStack
<1>5. ParentsRegistered'
  BY <1>1, NextParents
<1>6. MapInv'
  BY <1>1, NextMap
<1>7. ASSUME UniqueNames PROVE OpenOnce' /\ Recorded' /\ GlobalsOutside' /\ ListedOnce'
  <2>1. OpenOnce /\ Recorded /\ GlobalsOutside /\ ListedOnce
    BY <1>7 DEF IInv
  <2>2. OpenOnce'
    BY <1>1, <1>2, <1>7, <2>1, NextOpenOnce
  <2>3. Recorded'
    BY <1>1, <1>2, <1>7, <2>1, NextRecorded
  <2>4. GlobalsOutside'
    BY <1>1, <1>7, <2>1, NextGlobals
  <2>5. ListedOnce'
    BY <1>1, <1>2, <1>7, <2>1, NextListedOnce
  <2> QED
    BY <2>2, <2>3, <2>4, <2>5
<1> QED
  BY <1>2, <1>3, <1>4, <1>5, <1>6, <1>7 DEF IInv

-----------------------------------------------------------------------------
(* What the invariant says of a parse that is over.                         *)

\* A node that is finished has nothing left to pass, and with no activation
\* on the stack all of it is recorded.
LEMMA FinishedRecorded ==
  ASSUME IInv, done, UniqueNames, NEW o \in Owners, Finished(o)
  PROVE  /\ \A j \in DOMAIN doc.content[o] :
              LET e == doc.content[o][j] IN
                /\ e.kind = "simple" => parent[e.name] = NameOf(o)
                /\ e.kind = "complex" => map[e.name] = e.node /\ parent[e.name] = NameOf(o)
         /\ \A j \in DOMAIN doc.attrs[o] : parent[doc.attrs[o][j]] = NameOf(o)
<1>1. Recorded /\ stack = << >>
  BY DEF IInv, StackInv
<1>2. \A j : Passed(o, j) /\ PassedAttribute(o, j)
  BY DEF Passed, PassedAttribute
<1>3. \A w : ~Active(w)
  BY <1>1 DEF Active
<1> QED
  BY <1>1, <1>2, <1>3 DEF Recorded, ElementRecorded

\* The tree leaves no complexType out.
LEMMA AllMapped ==
  ASSUME IInv, done, UniqueNames
  PROVE  \A x \in Declared : map[x.name] = x.node
<1>0. TreeInv /\ Recorded /\ stack = << >> /\ next = Len(doc.types) + 1 /\ TypeOK
  BY DEF IInv, StackInv
<1> DEFINE S == {x \in Declared : map[x.name] # x.node}
<1>1. SUFFICES ASSUME S # {} PROVE FALSE
  OBVIOUS
<1>2. S \in SUBSET DeclaredIn(doc)
  BY DEF Declared
<1>3. PICK x \in S : \A y \in S : y.node # x.owner
  BY <1>0, <1>1, <1>2 DEF TreeInv, IsTree
<1>4. x \in Declared /\ map[x.name] # x.node
  BY <1>3
<1>5. CASE \E j \in DOMAIN doc.content[x.owner] :
              LET e == doc.content[x.owner][j]
              IN  e.kind = "complex" /\ e.name = x.name /\ e.node = x.node
  <2>1. PICK j \in DOMAIN doc.content[x.owner] :
              LET e == doc.content[x.owner][j]
              IN  e.kind = "complex" /\ e.name = x.name /\ e.node = x.node
    BY <1>5
  <2>2. x.owner \in Owners
    BY <1>0, <1>4, DeclaredWhere
  <2>3. Finished(x.owner)
    <3>1. CASE x.owner = Root
      BY <3>1 DEF Finished
    <3>2. CASE x.owner # Root
      <4>1. x.owner \in Nodes /\ doc.content[x.owner] # << >>
        BY <2>1, <2>2, <3>2 DEF Owners
      <4>2. PICK y \in Declared : y.node = x.owner
        BY <1>0, <4>1 DEF TreeInv, IsTree, Declared
      <4>3. map[y.name] = y.node
        BY <1>3, <4>2
      <4>4. y.name \in Names
        BY <1>0, DeclaredWhere
      <4> QED
        BY <3>2, <4>2, <4>3, <4>4 DEF Finished
    <3> QED
      BY <3>1, <3>2
  <2>4. map[x.name] = x.node
    BY <2>1, <2>2, <2>3, FinishedRecorded
  <2> QED
    BY <1>4, <2>4
<1>6. CASE \E k \in DOMAIN doc.types : doc.types[k].name = x.name /\ doc.types[k].node = x.node
  <2>1. PICK k \in DOMAIN doc.types : doc.types[k].name = x.name /\ doc.types[k].node = x.node
    BY <1>6
  <2>2. k < next
    BY <1>0, <2>1, DocumentTypes
  <2>3. TypeRecorded(k) /\ ~Active(x.node)
    BY <1>0, <2>1, <2>2 DEF Recorded, Active
  <2>4. map[x.name] = x.node
    BY <2>1, <2>3 DEF TypeRecorded
  <2> QED
    BY <1>4, <2>4
<1> QED
  BY <1>0, <1>4, <1>5, <1>6, DeclaredWhere

LEMMA AllFinished ==
  ASSUME IInv, done, UniqueNames, NEW o \in Owners,
         doc.content[o] # << >> \/ doc.attrs[o] # << >>
  PROVE  Finished(o)
<1>0. TreeInv
  BY DEF IInv
<1>1. CASE o = Root
  BY <1>1 DEF Finished
<1>2. CASE o # Root
  <2>1. PICK y \in Declared : y.node = o
    BY <1>0, <1>2 DEF TreeInv, IsTree, Declared, Owners
  <2>2. map[y.name] = o /\ y.name \in Names
    BY <1>0, <2>1, AllMapped, DeclaredWhere
  <2> QED
    BY <1>2, <2>2 DEF Finished
<1> QED
  BY <1>1, <1>2

\* The kinds of places.
LEMMA PlaceKinds ==
  ASSUME NEW n, NEW p \in Places(n)
  PROVE  \/ \E o \in Owners : \E j \in DOMAIN doc.content[o] :
              /\ doc.content[o][j].kind # "typed" /\ doc.content[o][j].name = n
              /\ p = <<o, "element", j>>
         \/ \E o \in Owners : \E j \in DOMAIN doc.attrs[o] :
              doc.attrs[o][j] = n /\ p = <<o, "attribute", j>>
         \/ \E k \in DOMAIN doc.types : doc.types[k].name = n /\ p = <<Root, "type", k>>
         \/ \E k \in DOMAIN doc.simple : doc.simple[k] = n /\ p = <<Root, "simple", k>>
<1>1. CASE p \in GlobalPlaces(n)
  BY <1>1 DEF GlobalPlaces
<1>2. CASE p \in UNION {PlacesIn(o, n) : o \in Owners}
  <2>1. PICK o \in Owners : p \in PlacesIn(o, n)
    BY <1>2
  <2> QED
    BY <2>1 DEF PlacesIn
<1> QED
  BY <1>1, <1>2 DEF Places

LEMMA AllNested ==
  ASSUME IInv, done, UniqueNames, NEW n \in Names, NEW p \in Places(n)
  PROVE  parent[n] = NameOf(p[1])
<1>0. TreeInv /\ GlobalsOutside
  BY DEF IInv
<1>1. CASE \E o \in Owners : \E j \in DOMAIN doc.content[o] :
              /\ doc.content[o][j].kind # "typed" /\ doc.content[o][j].name = n
              /\ p = <<o, "element", j>>
  <2>1. PICK o \in Owners : \E j \in DOMAIN doc.content[o] :
              /\ doc.content[o][j].kind # "typed" /\ doc.content[o][j].name = n
              /\ p = <<o, "element", j>>
    BY <1>1
  <2>2. PICK j \in DOMAIN doc.content[o] :
              /\ doc.content[o][j].kind # "typed" /\ doc.content[o][j].name = n
              /\ p = <<o, "element", j>>
    BY <2>1
  <2>3. doc.content[o][j].kind \in {"simple", "complex"}
    BY <1>0, <2>2, DocumentTypes, ElementTypes
  <2>4. Finished(o)
    BY <2>2, AllFinished
  <2>5. parent[n] = NameOf(o)
    BY <2>2, <2>3, <2>4, FinishedRecorded
  <2> QED
    BY <2>2, <2>5
<1>2. CASE \E o \in Owners : \E j \in DOMAIN doc.attrs[o] :
              doc.attrs[o][j] = n /\ p = <<o, "attribute", j>>
  <2>1. PICK o \in Owners : \E j \in DOMAIN doc.attrs[o] :
              doc.attrs[o][j] = n /\ p = <<o, "attribute", j>>
    BY <1>2
  <2>2. PICK j \in DOMAIN doc.attrs[o] : doc.attrs[o][j] = n /\ p = <<o, "attribute", j>>
    BY <2>1
  <2>3. Finished(o)
    BY <2>2, AllFinished
  <2>4. parent[n] = NameOf(o)
    BY <2>2, <2>3, FinishedRecorded
  <2> QED
    BY <2>2, <2>4
<1>3. CASE \E k \in DOMAIN doc.types : doc.types[k].name = n /\ p = <<Root, "type", k>>
  BY <1>0, <1>3, NameOfRoot DEF GlobalsOutside
<1>4. CASE \E k \in DOMAIN doc.simple : doc.simple[k] = n /\ p = <<Root, "simple", k>>
  BY <1>0, <1>4, NameOfRoot DEF GlobalsOutside
<1> QED
  BY <1>1, <1>2, <1>3, <1>4, PlaceKinds

\* Every complexType is listed once.
LEMMA ListIsDeclared ==
  ASSUME IInv, done, UniqueNames
  PROVE  Values(list) = {x.name : x \in Declared}
<1>0. TreeInv /\ MapInv /\ ListedOnce
  BY DEF IInv
<1>1. ASSUME NEW n \in Values(list) PROVE \E x \in Declared : x.name = n
  <2>1. CASE \E k \in DOMAIN doc.types : doc.types[k].name = n
    BY <1>0, <2>1, TypeDeclares
  <2>2. CASE \E o \in Owners : \E j \in DOMAIN doc.content[o] :
               doc.content[o][j].kind = "complex" /\ doc.content[o][j].name = n
    <3>1. PICK o \in Owners : \E j \in DOMAIN doc.content[o] :
               doc.content[o][j].kind = "complex" /\ doc.content[o][j].name = n
      BY <2>2
    <3>2. PICK j \in DOMAIN doc.content[o] :
               doc.content[o][j].kind = "complex" /\ doc.content[o][j].name = n
      BY <3>1
    <3> DEFINE x == [name |-> doc.content[o][j].name, node |-> doc.content[o][j].node, owner |-> o]
    <3>3. x \in Declared /\ x.name = n
      BY <1>0, <3>2, ElementDeclares
    <3> QED
      BY <3>3
  <2> QED
    BY <1>0, <2>1, <2>2 DEF ListedOnce, Reached
<1>2. ASSUME NEW x \in Declared PROVE x.name \in Values(list)
  <2>1. map[x.name] = x.node /\ x.name \in Names /\ x.node \in Nodes
    BY <1>0, AllMapped, DeclaredWhere
  <2> QED
    BY <1>0, <2>1, DocumentAssumption DEF MapInv
<1> QED
  BY <1>1, <1>2

LEMMA ListCounts ==
  ASSUME IInv, done, UniqueNames
  PROVE  Len(list) = Cardinality(Declared)
<1>0. TreeInv /\ ListedOnce /\ list \in Seq(Names)
  BY DEF IInv, TypeOK
<1>1. Len(list) \in Nat /\ DOMAIN list = 1..Len(list)
  BY <1>0
<1> DEFINE n == Len(list)
           g == [i \in 1..n |-> CHOOSE x \in Declared : x.name = list[i]]
<1>2. ASSUME NEW i \in 1..n PROVE g[i] \in Declared /\ g[i].name = list[i]
  <2>1. list[i] \in Values(list)
    BY <1>1 DEF Values
  <2>2. \E x \in Declared : x.name = list[i]
    BY <2>1, ListIsDeclared
  <2> QED
    BY <2>2
<1>3. g \in [1..n -> Declared]
  BY <1>2
<1>4. ASSUME NEW i \in 1..n, NEW j \in 1..n, g[i] = g[j] PROVE i = j
  <2>1. list[i] = list[j]
    BY <1>2, <1>4
  <2> QED
    BY <1>0, <1>1, <2>1 DEF ListedOnce
<1>5. ASSUME NEW x \in Declared PROVE \E i \in 1..n : g[i] = x
  <2>1. x.name \in Values(list)
    BY ListIsDeclared
  <2>2. PICK i \in 1..n : list[i] = x.name
    BY <1>1, <2>1 DEF Values
  <2>3. g[i] = x
    BY <1>0, <1>2, <2>2, DeclaredOnce
  <2> QED
    BY <2>3
<1> HIDE DEF g
<1>6. g \in Injection(1..n, Declared)
  BY <1>3, <1>4 DEF Injection, IsInjective
<1>7. g \in Surjection(1..n, Declared)
  BY <1>3, <1>5 DEF Surjection
<1>8. ExistsBijection(1..n, Declared)
  BY <1>6, <1>7 DEF ExistsBijection, Bijection
<1> QED
  BY <1>1, <1>8, FS_CountingElements

LEMMA Mirrored == IInv => TreeMirrored
  BY ListCounts, AllMapped, AllNested DEF TreeMirrored

\* The class a type is nested in is listed, and following the classes outwards
\* one leaves the tree.
LEMMA HandedOver == IInv => HandsOverWellFormed
<1> SUFFICES ASSUME IInv, done, UniqueNames PROVE WellFormed(AsSchema)
  BY DEF HandsOverWellFormed
<1>0. /\ TypeOK /\ TreeInv /\ MapInv /\ ParentsRegistered
      /\ list \in Seq(Names) /\ parent \in [Names -> Names \cup {NoParent}]
      /\ Ns \in Namespaces /\ NoParent \notin Names
      /\ DOMAIN list = 1..Len(list) /\ Len(list) \in Nat
  BY DocumentAssumption, NameAssumption DEF IInv, TypeOK
<1> DEFINE s == AsSchema
           T(n) == [ns |-> Ns, name |-> n]
<1>1. \A n \in Names : T(n) \in Types /\ T(n).ns = Ns /\ T(n).name = n
  BY <1>0 DEF Types
<1>2. /\ s.types = [i \in DOMAIN list |-> T(list[i])]
      /\ s.members = [t \in Types |->
                        IF t.ns = Ns THEN [ns : {Ns}, name : Resolved(t.name)] ELSE {}]
      /\ s.base = [t \in Types |-> {}]
      /\ s.item = [t \in Types |-> NoItem]
      /\ s.parent = [t \in Types |-> IF t.ns = Ns THEN parent[t.name] ELSE NoParent]
  BY DEF AsSchema
<1>3. \A n \in Values(list) : n \in Names
  BY <1>0 DEF Values
<1>4. ASSUME NEW t PROVE t \in Listed(s) <=> \E n \in Values(list) : t = T(n)
  BY <1>2 DEF Listed, Values
<1>5. \A n \in Names : s.parent[T(n)] = parent[n]
  BY <1>1, <1>2
<1>6. s \in SchemaType
  <2>1. s.types \in Seq(Types)
    <3>1. \A i \in 1..Len(list) : T(list[i]) \in Types
      BY <1>0, <1>1
    <3>2. s.types \in [1..Len(list) -> Types]
      BY <1>0, <1>2, <3>1
    <3> QED
      BY <1>0, <3>2, FunctionIsSeq
  <2>2. s.members \in [Types -> SUBSET Types]
    <3>1. ASSUME NEW t \in Types PROVE [ns : {Ns}, name : Resolved(t.name)] \subseteq Types
      BY <1>0 DEF Resolved, Types
    <3> QED
      BY <1>2, <3>1
  <2>3. s.base \in [Types -> SUBSET Types]
    BY <1>2
  <2>4. s.item \in [Types -> Names \cup {NoItem}]
    BY <1>2
  <2>5. s.parent \in [Types -> Names \cup {NoParent}]
    <3>1. \A t \in Types : t.name \in Names
      BY DEF Types
    <3> QED
      BY <1>0, <1>2, <3>1
  <2>6. s = [types |-> s.types, members |-> s.members, base |-> s.base, item |-> s.item,
             parent |-> s.parent]
    BY DEF AsSchema
  <2> QED
    BY <2>1, <2>2, <2>3, <2>4, <2>5, <2>6 DEF SchemaType
<1>7. ChainsEnd(s)
  <2>1. SUFFICES ASSUME NEW S \in SUBSET Listed(s), S # {}
                 PROVE  \E t \in S : \A u \in S : t \notin NestedIn(s, u)
    BY DEF ChainsEnd
  <2> DEFINE D == {x \in Declared : T(x.name) \in S}
  <2>2. \A t \in S : \E x \in D : t = T(x.name)
    <3>1. SUFFICES ASSUME NEW t \in S PROVE \E x \in D : t = T(x.name)
      OBVIOUS
    <3>2. PICK n \in Values(list) : t = T(n)
      BY <1>4
    <3>3. PICK x \in Declared : x.name = n
      BY ListIsDeclared
    <3> QED
      BY <3>2, <3>3
  <2>3. D # {} /\ D \in SUBSET DeclaredIn(doc)
    BY <2>1, <2>2 DEF Declared
  <2>4. PICK x \in D : \A y \in D : y.node # x.owner
    BY <1>0, <2>3 DEF TreeInv, IsTree
  <2>5. x \in Declared /\ T(x.name) \in S /\ x.name \in Names /\ x.owner \in Owners
    BY <1>0, <2>4, DeclaredWhere
  <2>6. parent[x.name] = NameOf(x.owner)
    BY <1>0, <2>5, ElementNameAt, AllNested
  <2>7. ASSUME NEW u \in S, T(x.name) \in NestedIn(s, u) PROVE FALSE
    <3>1. PICK y \in D : u = T(y.name)
      BY <2>2
    <3>2. y \in Declared /\ y.name \in Names
      BY <1>0, <3>1, DeclaredWhere
    <3>3. parent[x.name] = y.name
      BY <1>1, <1>5, <2>5, <2>7, <3>1, <3>2 DEF NestedIn
    <3>4. CASE x.owner = Root
      BY <1>0, <2>6, <3>2, <3>3, <3>4, NameOfRoot
    <3>5. CASE x.owner # Root
      <4>1. PICK z \in Declared : z.node = x.owner
        <5>1. \/ \E j \in DOMAIN doc.content[x.owner] :
                   LET e == doc.content[x.owner][j]
                   IN  e.kind = "complex" /\ e.name = x.name /\ e.node = x.node
          BY <1>0, <2>5, <3>5, DeclaredWhere
        <5>2. x.owner \in Nodes /\ doc.content[x.owner] # << >>
          BY <2>5, <3>5, <5>1 DEF Owners
        <5> QED
          BY <1>0, <5>2 DEF TreeInv, IsTree, Declared
      <4>2. z.name = y.name
        BY <1>0, <2>6, <3>3, <4>1, NameOfDeclared
      <4>3. z = y
        BY <1>0, <3>2, <4>1, <4>2, DeclaredOnce
      <4> QED
        BY <2>4, <3>1, <4>1, <4>3
    <3> QED
      BY <3>4, <3>5
  <2> QED
    BY <2>5, <2>7
<1>8. ParentsListed(s)
  <2>1. SUFFICES ASSUME NEW t \in Listed(s), s.parent[t] # NoParent
                 PROVE  \E u \in Listed(s) : t \in NestedIn(s, u)
    BY DEF ParentsListed, TopLevel
  <2>2. PICK n \in Values(list) : t = T(n)
    BY <1>4
  <2>3. n \in Names /\ parent[n] \in Values(list)
    BY <1>0, <1>3, <1>5, <2>1, <2>2 DEF ParentsRegistered
  <2>4. PICK u : u = T(parent[n])
    OBVIOUS
  <2>5. u \in Listed(s) /\ u.ns = Ns /\ u.name = parent[n]
    BY <1>1, <1>3, <1>4, <2>3, <2>4
  <2>6. t.ns = Ns /\ s.parent[t] = parent[n]
    BY <1>1, <1>5, <2>2, <2>3
  <2> QED
    BY <2>5, <2>6 DEF NestedIn
<1>9. \A t \in Listed(s) : s.members[t] \cup s.base[t] \subseteq Listed(s)
  <2>1. SUFFICES ASSUME NEW t \in Listed(s), NEW m \in s.members[t] \cup s.base[t]
                 PROVE  m \in Listed(s)
    OBVIOUS
  <2>2. PICK n \in Values(list) : t = T(n)
    BY <1>4
  <2>3. n \in Names /\ t \in Types /\ t.ns = Ns /\ t.name = n
    BY <1>1, <1>3, <2>2
  <2>4. m \in [ns : {Ns}, name : Resolved(n)]
    BY <1>2, <2>1, <2>3
  <2>5. PICK k \in Names : m = T(k) /\ map[k] # NoNode
    BY <2>4 DEF Resolved
  <2>6. k \in Values(list)
    BY <1>0, <2>5 DEF MapInv
  <2> QED
    BY <1>4, <2>5, <2>6
<1> HIDE DEF s
<1>10. WellFormed(s)
  BY <1>6, <1>7, <1>8, <1>9 DEF WellFormed
<1> QED
  BY <1>10 DEF s

-----------------------------------------------------------------------------
(* The theorems.                                                            *)

\* The invariant holds of every parse.
THEOREM Invariance == Spec => []IInv
<1>1. Init => IInv
  BY InitIInv
<1>2. IInv /\ [Next]_vars => IInv'
  BY NextIInv
<1> QED
  BY <1>1, <1>2, PTL DEF Spec, SafeSpec

\* Type correctness: ParseTypes stays within the document, the recursion
\* holds nodes and names of it.
THEOREM TypeCorrect == Spec => []TypeOK
<1>1. IInv => TypeOK
  BY DEF IInv
<1> QED
  BY <1>1, Invariance, PTL

\* Whatever the names, ParseElements nests a type only in a class that is
\* already listed, at every moment of the parse.
THEOREM NestedInListed == Spec => []ParentsRegistered
<1>1. IInv => ParentsRegistered
  BY DEF IInv
<1> QED
  BY <1>1, Invariance, PTL

\* For distinct names, when ParseTypes and ParseElements are over, every
\* complexType of the document is listed once and mapped to its node, and
\* every type is nested in the class it stands in.
THEOREM MirrorsTree == Spec => []TreeMirrored
  BY Invariance, Mirrored, PTL

\* For distinct names, the schema handed to the generator is one the
\* generator's own proofs start from.
THEOREM HandsOver == Spec => []HandsOverWellFormed
  BY Invariance, HandedOver, PTL
=============================================================================
