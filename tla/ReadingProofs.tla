---------------------------- MODULE ReadingProofs ----------------------------
(***************************************************************************)
(* Theorems about the readers of Reading, for all documents and texts: the *)
(* loop of an XmlNode visits the children with its name; a qualified name  *)
(* is resolved to what XML says it means, and an element finds the class   *)
(* of its own; the queries answer with what the document says; the calls   *)
(* of a Parse lose no character; and UTF-8 is read as far as TextsSurvive  *)
(* says.                                                                   *)
(***************************************************************************)
EXTENDS Reading, SequenceFacts, FiniteSetTheorems, TLAPS

-----------------------------------------------------------------------------
(* Numbers.                                                                *)

\* Earliest is the least of a set of numbers.
LEMMA EarliestLeast ==
  ASSUME NEW S, S \subseteq Nat \ {0}
  PROVE  /\ S = {} => L!Earliest(S) = 0
         /\ S # {} => L!Earliest(S) \in S /\ \A j \in S : L!Earliest(S) <= j
<1>1. CASE S = {}
  BY <1>1 DEF L!Earliest, L!Nil
<1>2. CASE S # {}
  <2>1. \E k \in S : \A j \in S : k <= j
    BY <1>2, LeastNatural
  <2>2. L!Earliest(S) = CHOOSE k \in S : \A j \in S : k <= j
    BY <1>2 DEF L!Earliest
  <2> QED
    BY <1>2, <2>1, <2>2, Zenon
<1> QED
  BY <1>1, <1>2

\* A number that is the least of a set is its earliest.
LEMMA EarliestIs ==
  ASSUME NEW S, S \subseteq Nat \ {0}, NEW k \in S, \A j \in S : k <= j
  PROVE  L!Earliest(S) = k
<1>1. L!Earliest(S) \in S /\ L!Earliest(S) <= k
  BY EarliestLeast
<1>2. k <= L!Earliest(S)
  BY <1>1
<1>3. PICK e \in S : e = L!Earliest(S)
  BY <1>1
<1> QED
  BY <1>1, <1>2, <1>3

\* A set of numbers up to n has a greatest one.
LEMMA GreatestNatural ==
  ASSUME NEW n \in Nat, NEW S, S \subseteq 0..n, S # {}
  PROVE  \E x \in S : \A y \in S : y <= x
<1> DEFINE W == {n - k : k \in S}
<1>1. W \subseteq Nat /\ W # {}
  <2>1. \A k \in S : n - k \in Nat
    OBVIOUS
  <2> QED
    BY <2>1
<1> HIDE DEF W
<1>2. PICK t \in W : \A u \in W : t <= u
  BY <1>1, LeastNatural
<1> USE DEF W
<1>3. PICK x \in S : t = n - x
  BY <1>2
<1>4. ASSUME NEW y \in S PROVE y <= x
  <2>1. n - y \in W
    OBVIOUS
  <2>2. n - x <= n - y
    BY <1>2, <1>3, <2>1
  <2>3. x \in Nat /\ y \in Nat
    OBVIOUS
  <2> QED
    BY <2>2, <2>3
<1> QED
  BY <1>4

-----------------------------------------------------------------------------
(* Walks along nodes.  A walk goes from node to node, each time to one with *)
(* a higher number or to 0, where it ends, unless it ended before.         *)

\* after leads from each number on to a higher one, or to 0.
Links(n, after) == \A k \in 1..n : after[k] = 0 \/ (after[k] \in 1..n /\ after[k] > k)

\* f says where the walk from each number ends.
EndOf(n, Stop, after, f) == f = [k \in 0..n |-> IF k \in Stop THEN k ELSE f[after[k]]]

\* There is a function that says where each walk ends.
LEMMA WalkExists ==
  ASSUME NEW n \in Nat, NEW Stop, 0 \in Stop, NEW after, Links(n, after)
  PROVE  \E f : EndOf(n, Stop, after, f)
<1> DEFINE Value(f, k) == IF k \in Stop THEN k ELSE f[after[k]]
           Reaches(j) == \E f : /\ f = [k \in 0..n |-> f[k]]
                                /\ f[0] = 0
                                /\ \A k \in 1..n : k >= j => f[k] = Value(f, k)
           J == {j \in Nat : Reaches(j)}
<1>1. n + 1 \in J
  <2> DEFINE f == [k \in 0..n |-> 0]
  <2>1. f = [k \in 0..n |-> f[k]] /\ f[0] = 0
    OBVIOUS
  <2> HIDE DEF f
  <2>2. \A k \in 1..n : k >= n + 1 => f[k] = Value(f, k)
    <3>1. \A k \in 1..n : ~(k >= n + 1)
      OBVIOUS
    <3> QED
      BY <3>1
  <2>3. Reaches(n + 1)
    BY <2>1, <2>2, Zenon
  <2> QED
    BY <2>3
<1> HIDE DEF J
<1>2. PICK j \in J : \A i \in J : j <= i
  <2>1. J \subseteq Nat /\ J # {}
    BY <1>1 DEF J
  <2> QED
    BY <2>1, LeastNatural
<1>3. j \in Nat /\ j <= n + 1
  BY <1>1, <1>2 DEF J
<1>4. PICK f : /\ f = [k \in 0..n |-> f[k]]
               /\ f[0] = 0
               /\ \A k \in 1..n : k >= j => f[k] = Value(f, k)
  BY <1>2 DEF J
<1>5. j <= 1
  <2> SUFFICES ASSUME j > 1 PROVE FALSE
    BY <1>3
  <2>1. PICK i \in 1..n : j = i + 1
    <3>1. PICK i \in Nat : i = j - 1
      BY <1>3
    <3>2. i \in 1..n /\ j = i + 1
      BY <1>3, <3>1
    <3> QED
      BY <3>2
  <2> DEFINE g == [k \in 0..n |-> IF k = i THEN Value(f, i) ELSE f[k]]
  <2>2. /\ g = [k \in 0..n |-> g[k]] /\ g[i] = Value(f, i)
        /\ \A k \in 0..n : k # i => g[k] = f[k]
    <3>1. i \in 0..n
      OBVIOUS
    <3> HIDE DEF Value
    <3> QED
      BY <3>1
  <2> HIDE DEF g
  <2>3. ASSUME NEW k \in 1..n, k >= i PROVE g[k] = Value(g, k)
    <3>1. after[k] \in 0..n /\ after[k] # i
      BY <2>3 DEF Links
    <3>2. g[after[k]] = f[after[k]]
      BY <2>2, <3>1
    <3>3. CASE k = i
      BY <2>2, <3>2, <3>3
    <3>4. CASE k # i
      <4>1. k >= j /\ g[k] = f[k]
        BY <1>3, <2>1, <2>2, <2>3, <3>4
      <4> QED
        BY <1>4, <3>2, <4>1
    <3> QED
      BY <3>3, <3>4
  <2>4. g[0] = 0
    BY <1>4, <2>2
  <2>5. i \in J
    <3>1. \A k \in 1..n : k >= i => g[k] = Value(g, k)
      BY <2>3
    <3>2. Reaches(i)
      BY <2>2, <2>4, <3>1, Zenon
    <3> HIDE DEF Reaches
    <3>3. i \in Nat
      OBVIOUS
    <3> QED
      BY <3>2, <3>3 DEF J
  <2> QED
    BY <1>2, <2>1, <2>5
<1>6. \A k \in 1..n : f[k] = Value(f, k)
  <2>1. \A k \in 1..n : k >= j
    BY <1>3, <1>5
  <2> QED
    BY <1>4, <2>1
<1>7. \A k \in 0..n : f[k] = Value(f, k)
  <2>1. \A k \in 0..n : k = 0 \/ k \in 1..n
    OBVIOUS
  <2>2. f[0] = Value(f, 0)
    BY <1>4
  <2> QED
    BY <1>6, <2>1, <2>2, Zenon
<1>8. f = [k \in 0..n |-> Value(f, k)]
  BY <1>4, <1>7
<1> QED
  BY <1>8 DEF EndOf

\* Numbers of S behind k, and those from k on.
Behind(S, k) == {j \in S : j > k}

From(S, k) == {j \in S : j >= k}

\* The walk f along numbers of All, from each to the next of Met, up to one that
\* is sought.
Walk(n, All, Met, Sought, after, f) ==
  /\ n \in Nat /\ All \subseteq 1..n /\ Met \subseteq All /\ Sought \subseteq Met
  /\ f[0] = 0
  /\ \A k \in All : /\ after[k] = L!Earliest(Behind(Met, k))
                    /\ f[k] = IF k \in Sought THEN k ELSE f[after[k]]

\* Along siblings, of which the walk passes over some, it ends at the first
\* one sought.
LEMMA WalkFinds ==
  ASSUME NEW n, NEW All, NEW Met, NEW Sought, NEW after, NEW f,
         Walk(n, All, Met, Sought, after, f)
  PROVE  \A k \in All : f[k] = L!Earliest(From(Sought, k))
<1> USE DEF Walk
<1> DEFINE Bad == {k \in All : f[k] # L!Earliest(From(Sought, k))}
<1>1. \A k \in All : k \in Nat \ {0} /\ k \in 0..n
  OBVIOUS
<1>2. \A k : /\ Behind(Met, k) \subseteq All /\ Behind(Met, k) \subseteq Nat \ {0}
             /\ From(Sought, k) \subseteq Nat \ {0}
  BY <1>1 DEF Behind, From
<1>3. \A k : k \in Bad <=> k \in All /\ f[k] # L!Earliest(From(Sought, k))
  OBVIOUS
<1> HIDE DEF Bad
<1>4. SUFFICES ASSUME Bad # {} PROVE FALSE
  BY <1>3
<1>5. PICK x \in Bad : \A y \in Bad : y <= x
  <2>1. Bad \subseteq 0..n
    BY <1>1, <1>3
  <2> QED
    BY <1>4, <2>1, GreatestNatural
<1>6. x \in All /\ x \in Nat \ {0} /\ f[x] # L!Earliest(From(Sought, x))
  BY <1>1, <1>3
<1>7. x \notin Sought
  <2> SUFFICES ASSUME x \in Sought PROVE FALSE
    OBVIOUS
  <2>1. x \in From(Sought, x) /\ \A j \in From(Sought, x) : x <= j
    BY <1>1, <1>6 DEF From
  <2>2. L!Earliest(From(Sought, x)) = x
    BY <1>2, <2>1, EarliestIs
  <2> QED
    BY <1>6, <2>2
<1>8. f[x] = f[after[x]] /\ after[x] = L!Earliest(Behind(Met, x))
  BY <1>6, <1>7
<1>9. From(Sought, x) \subseteq Behind(Met, x)
  <2> SUFFICES ASSUME NEW j \in From(Sought, x) PROVE j \in Met /\ j > x
    BY DEF Behind
  <2>1. j \in Sought /\ j >= x /\ j # x
    BY <1>7 DEF From
  <2>2. j \in Nat
    BY <1>1, <2>1
  <2> QED
    BY <1>6, <2>1, <2>2
<1>10. CASE Behind(Met, x) = {}
  <2>1. f[x] = 0
    BY <1>2, <1>8, <1>10, EarliestLeast
  <2>2. L!Earliest(From(Sought, x)) = 0
    BY <1>2, <1>9, <1>10, EarliestLeast
  <2> QED
    BY <1>6, <2>1, <2>2
<1>11. CASE Behind(Met, x) # {}
  <2>1. PICK y \in Behind(Met, x) : y = after[x] /\ \A j \in Behind(Met, x) : y <= j
    BY <1>2, <1>8, <1>11, EarliestLeast
  <2>2. y \in All /\ y > x /\ y \in Nat
    BY <1>1, <2>1 DEF Behind
  <2>3. f[y] = L!Earliest(From(Sought, y))
    <3>1. y \notin Bad
      BY <1>5, <1>6, <2>2
    <3> QED
      BY <1>3, <2>2, <3>1
  <2>4. From(Sought, x) = From(Sought, y)
    <3>1. \A j \in From(Sought, x) : j \in Sought /\ j >= y
      BY <1>9, <2>1 DEF From
    <3>2. \A j \in From(Sought, y) : j \in Sought /\ j >= x
      <4> SUFFICES ASSUME NEW j \in From(Sought, y) PROVE j \in Sought /\ j >= x
        OBVIOUS
      <4>1. j \in Sought /\ j \in Nat /\ j >= y
        BY <1>1 DEF From
      <4> QED
        BY <1>6, <2>2, <4>1
    <3> QED
      BY <3>1, <3>2 DEF From
  <2> QED
    BY <1>6, <1>8, <2>1, <2>3, <2>4
<1> QED
  BY <1>10, <1>11

\* From the first node behind m that the walk meets, it ends at the first one
\* sought behind m.
LEMMA WalkOn ==
  ASSUME NEW n, NEW All, NEW Met, NEW Sought, NEW after, NEW f,
         Walk(n, All, Met, Sought, after, f),
         NEW Begun, Sought \subseteq Begun, Begun \subseteq All, NEW m \in Nat
  PROVE  f[L!Earliest(Behind(Begun, m))] = L!Earliest(Behind(Sought, m))
<1>1. \A k \in All : f[k] = L!Earliest(From(Sought, k))
  BY WalkFinds
<1> USE DEF Walk
<1>2. \A k \in All : k \in Nat \ {0}
  OBVIOUS
<1>3. /\ Behind(Sought, m) \subseteq Behind(Begun, m) /\ Behind(Begun, m) \subseteq All
      /\ Behind(Begun, m) \subseteq Nat \ {0} /\ Behind(Sought, m) \subseteq Nat \ {0}
  BY <1>2 DEF Behind
<1>4. CASE Behind(Begun, m) = {}
  <2>1. L!Earliest(Behind(Begun, m)) = 0 /\ L!Earliest(Behind(Sought, m)) = 0
    BY <1>3, <1>4, EarliestLeast
  <2> QED
    BY <2>1
<1>5. CASE Behind(Begun, m) # {}
  <2>1. PICK y \in Behind(Begun, m) :
           y = L!Earliest(Behind(Begun, m)) /\ \A j \in Behind(Begun, m) : y <= j
    BY <1>3, <1>5, EarliestLeast
  <2>2. y \in All /\ y > m /\ y \in Nat
    BY <1>2, <1>3, <2>1 DEF Behind
  <2>3. From(Sought, y) = Behind(Sought, m)
    <3>1. \A j \in Behind(Sought, m) : j \in Sought /\ j >= y
      BY <1>3, <2>1 DEF Behind
    <3>2. ASSUME NEW j \in From(Sought, y) PROVE j \in Sought /\ j > m
      <4>1. j \in Sought /\ j >= y /\ j \in Nat
        BY <1>2 DEF From
      <4> QED
        BY <2>2, <4>1
    <3> QED
      BY <3>1, <3>2 DEF From, Behind
  <2>4. f[y] = L!Earliest(Behind(Sought, m))
    BY <1>1, <2>2, <2>3
  <2> QED
    BY <2>1, <2>4
<1> QED
  BY <1>4, <1>5

-----------------------------------------------------------------------------
(* Searches in a document.                                                 *)

\* The nodes of a tree are numbered, and siblings follow each other.
LEMMA TreeNodes ==
  ASSUME NEW d, L!IsTree(d)
  PROVE  /\ Len(d.name) \in Nat /\ L!NodesOf(d) = 1..Len(d.name)
         /\ L!NodesOf(d) \cup {0} = 0..Len(d.name)
         /\ \A k \in L!NodesOf(d) :
              /\ d.child[k] = L!Earliest(L!ChildrenOf(d, k))
              /\ d.next[k] = L!Earliest(Behind(L!ChildrenOf(d, d.up[k]), k))
              /\ k \in d.blank => d.name[k] = "text"
<1>1. Len(d.name) \in Nat /\ L!NodesOf(d) = 1..Len(d.name)
  BY DEF L!IsTree, L!NodesOf
<1>2. 1..Len(d.name) \cup {0} = 0..Len(d.name)
  BY <1>1
<1>3. \A k \in L!NodesOf(d) :
         /\ d.child[k] = L!Earliest(L!ChildrenOf(d, k))
         /\ d.next[k] = L!Earliest(Behind(L!ChildrenOf(d, d.up[k]), k))
         /\ k \in d.blank => d.name[k] = "text"
  BY DEF L!IsTree, Behind
<1> QED
  BY <1>1, <1>2, <1>3

\* The earliest of some nodes behind k is 0 or one of them.
LEMMA EarliestBehind ==
  ASSUME NEW d, L!IsTree(d), NEW k \in Nat, NEW S, S \subseteq L!NodesOf(d)
  PROVE  LET e == L!Earliest(Behind(S, k))
         IN e = 0 \/ (e \in S /\ e \in 1..Len(d.name) /\ e > k)
<1>1. S \subseteq 1..Len(d.name) /\ Len(d.name) \in Nat
  BY TreeNodes
<1>2. \A j \in S : j \in Nat \ {0}
  BY <1>1
<1>3. /\ Behind(S, k) \subseteq Nat \ {0} /\ Behind(S, k) \subseteq S
      /\ \A j \in Behind(S, k) : j > k
  BY <1>2 DEF Behind
<1>4. L!Earliest(Behind(S, k)) = 0 \/ L!Earliest(Behind(S, k)) \in Behind(S, k)
  BY <1>3, EarliestLeast
<1> QED
  BY <1>1, <1>3, <1>4

\* GetNextNode finds the next sibling that is no white space.
LEMMA NextNode ==
  ASSUME NEW d, L!IsTree(d), NEW k \in L!NodesOf(d)
  PROVE  L!GetNextNode(d, k)
           = L!Earliest({j \in L!ChildrenOf(d, d.up[k]) : j \notin d.blank /\ j > k})
<1>1. PICK n \in Nat : n = Len(d.name)
  BY TreeNodes
<1> DEFINE Ends(f) == f = [i \in L!NodesOf(d) \cup {0} |->
                             IF i = 0 \/ i \notin d.blank THEN i ELSE f[d.next[i]]]
           f == CHOOSE f : Ends(f)
<1>2. L!NodesOf(d) = 1..n /\ L!NodesOf(d) \cup {0} = 0..n /\ k # 0
  BY <1>1, TreeNodes
<1>3. L!GetNextNode(d, k) = f[d.next[k]]
  BY <1>2 DEF L!GetNextNode, L!Nil
<1>4. Ends(f)
  <2>1. Links(n, d.next)
    <3> SUFFICES ASSUME NEW i \in 1..n PROVE d.next[i] = 0 \/ (d.next[i] \in 1..n /\ d.next[i] > i)
      BY DEF Links
    <3>1. L!ChildrenOf(d, d.up[i]) \subseteq L!NodesOf(d) /\ i \in L!NodesOf(d) /\ i \in Nat
      BY <1>2 DEF L!ChildrenOf
    <3>2. d.next[i] = L!Earliest(Behind(L!ChildrenOf(d, d.up[i]), i))
      BY <3>1, TreeNodes
    <3> QED
      BY <1>1, <3>1, <3>2, EarliestBehind
  <2>2. PICK Stop : Stop = {i \in 0..n : i = 0 \/ i \notin d.blank}
    OBVIOUS
  <2>3. PICK g : EndOf(n, Stop, d.next, g)
    BY <2>1, <2>2, WalkExists
  <2>4. \A i \in 0..n : i \in Stop <=> i = 0 \/ i \notin d.blank
    BY <2>2
  <2>5. g = [i \in 0..n |-> IF i = 0 \/ i \notin d.blank THEN i ELSE g[d.next[i]]]
    BY <2>3, <2>4 DEF EndOf
  <2>6. Ends(g)
    BY <1>2, <2>5
  <2> HIDE DEF Ends
  <2> QED
    BY <2>6, Zenon
<1> HIDE DEF f
<1>5. f[0] = 0 /\ \A i \in 1..n : f[i] = IF i \notin d.blank THEN i ELSE f[d.next[i]]
  BY <1>2, <1>4
<1> HIDE DEF Ends
<1>6. PICK All : All = L!ChildrenOf(d, d.up[k])
  OBVIOUS
<1>7. PICK Seen : Seen = {j \in All : j \notin d.blank}
  OBVIOUS
<1>8. All \subseteq 1..n /\ Seen \subseteq All /\ \A j \in All : d.up[j] = d.up[k]
  BY <1>2, <1>6, <1>7 DEF L!ChildrenOf
<1>9. \A j \in All : d.next[j] = L!Earliest(Behind(All, j))
  <2>1. \A j \in All : j \in L!NodesOf(d)
    BY <1>2, <1>8
  <2> QED
    BY <1>6, <1>8, <2>1, TreeNodes
<1>10. \A j \in All : f[j] = IF j \in Seen THEN j ELSE f[d.next[j]]
  <2>1. \A j \in All : j \in 1..n
    BY <1>8
  <2>2. \A j \in All : j \in Seen <=> j \notin d.blank
    BY <1>7
  <2> QED
    BY <1>5, <2>1, <2>2
<1>11. k \in Nat /\ d.next[k] = L!Earliest(Behind(All, k))
  BY <1>2, <1>6, TreeNodes
<1> HIDE DEF f
<1>12. f[d.next[k]] = L!Earliest(Behind(Seen, k))
  <2>1. Walk(n, All, All, Seen, d.next, f)
    BY <1>5, <1>8, <1>9, <1>10 DEF Walk
  <2>2. All \subseteq All /\ Seen \subseteq All
    BY <1>8
  <2>3. f[L!Earliest(Behind(All, k))] = L!Earliest(Behind(Seen, k))
    BY <1>11, <2>1, <2>2, WalkOn
  <2> QED
    BY <1>11, <2>3
<1>13. Behind(Seen, k) = {j \in L!ChildrenOf(d, d.up[k]) : j \notin d.blank /\ j > k}
  BY <1>6, <1>7 DEF Behind
<1> QED
  BY <1>3, <1>12, <1>13

\* The children of a node, those that are no white space, and those with a name.
Seen(d, x) == {j \in L!ChildrenOf(d, x) : j \notin d.blank}

Called(d, x, q) == {j \in L!ChildrenOf(d, x) : d.name[j] = q}

\* A search among the children of a node walks along those that are no white
\* space.
LEMMA SearchWalks ==
  ASSUME NEW d, L!IsTree(d), NEW x \in L!NodesOf(d), NEW q, q # "text"
  PROVE  \E f, after :
           /\ \A k : L!Sought(d, k, q) = f[k]
           /\ \A k \in L!NodesOf(d) : after[k] = L!GetNextNode(d, k)
           /\ Walk(Len(d.name), L!ChildrenOf(d, x), Seen(d, x), Called(d, x, q), after, f)
<1>1. PICK n \in Nat : n = Len(d.name)
  BY TreeNodes
<1>2. L!NodesOf(d) = 1..n /\ L!NodesOf(d) \cup {0} = 0..n
  BY <1>1, TreeNodes
<1>3. PICK after : after = [k \in 1..n |-> L!GetNextNode(d, k)]
  OBVIOUS
<1> DEFINE Ends(f) == f = [k \in L!NodesOf(d) \cup {0} |->
                             IF k = 0 \/ d.name[k] = q THEN k ELSE f[L!GetNextNode(d, k)]]
           f == CHOOSE f : Ends(f)
<1>4. \A k : L!Sought(d, k, q) = f[k]
  BY DEF L!Sought, L!Nil
<1>5. \A k \in 1..n : after[k] = L!GetNextNode(d, k)
  BY <1>3
<1>6. \A k \in 1..n : after[k] = L!Earliest(Behind(Seen(d, d.up[k]), k))
  <2> SUFFICES ASSUME NEW k \in 1..n PROVE after[k] = L!Earliest(Behind(Seen(d, d.up[k]), k))
    OBVIOUS
  <2>1. Behind(Seen(d, d.up[k]), k) = {j \in L!ChildrenOf(d, d.up[k]) : j \notin d.blank /\ j > k}
    BY DEF Behind, Seen
  <2> QED
    BY <1>2, <1>5, <2>1, NextNode
<1>7. Ends(f)
  <2>1. Links(n, after)
    <3> SUFFICES ASSUME NEW k \in 1..n PROVE after[k] = 0 \/ (after[k] \in 1..n /\ after[k] > k)
      BY DEF Links
    <3>1. Seen(d, d.up[k]) \subseteq L!NodesOf(d) /\ k \in Nat
      BY DEF Seen, L!ChildrenOf
    <3> QED
      BY <1>1, <1>6, <3>1, EarliestBehind
  <2>2. PICK Stop : Stop = {k \in 0..n : k = 0 \/ d.name[k] = q}
    OBVIOUS
  <2>3. PICK g : EndOf(n, Stop, after, g)
    BY <2>1, <2>2, WalkExists
  <2>4. \A k \in 0..n : k \in Stop <=> k = 0 \/ d.name[k] = q
    BY <2>2
  <2>5. \A k \in 0..n : k # 0 => k \in 1..n
    OBVIOUS
  <2>6. g = [k \in 0..n |-> IF k = 0 \/ d.name[k] = q THEN k ELSE g[L!GetNextNode(d, k)]]
    BY <1>5, <2>3, <2>4, <2>5 DEF EndOf
  <2>7. Ends(g)
    BY <1>2, <2>6
  <2> HIDE DEF Ends
  <2> QED
    BY <2>7, Zenon
<1> HIDE DEF f
<1>8. f[0] = 0 /\ \A k \in 1..n : f[k] = IF d.name[k] = q THEN k ELSE f[after[k]]
  BY <1>2, <1>5, <1>7
<1> HIDE DEF Ends
<1>9. /\ L!ChildrenOf(d, x) \subseteq 1..n
      /\ \A k \in L!ChildrenOf(d, x) : d.up[k] = x
  BY <1>2 DEF L!ChildrenOf
<1>10. Seen(d, x) \subseteq L!ChildrenOf(d, x) /\ Called(d, x, q) \subseteq Seen(d, x)
  <2>1. \A k \in L!ChildrenOf(d, x) : k \in d.blank => d.name[k] = "text"
    BY <1>2, <1>9, TreeNodes
  <2> QED
    BY <2>1 DEF Seen, Called
<1>11. \A k \in L!ChildrenOf(d, x) :
          /\ after[k] = L!Earliest(Behind(Seen(d, x), k))
          /\ f[k] = IF k \in Called(d, x, q) THEN k ELSE f[after[k]]
  <2> SUFFICES ASSUME NEW k \in L!ChildrenOf(d, x)
               PROVE  /\ after[k] = L!Earliest(Behind(Seen(d, x), k))
                      /\ f[k] = IF k \in Called(d, x, q) THEN k ELSE f[after[k]]
    OBVIOUS
  <2>1. k \in 1..n /\ d.up[k] = x
    BY <1>9
  <2>2. k \in Called(d, x, q) <=> d.name[k] = q
    BY DEF Called
  <2> QED
    BY <1>6, <1>8, <2>1, <2>2
<1>12. Walk(n, L!ChildrenOf(d, x), Seen(d, x), Called(d, x, q), after, f)
  BY <1>8, <1>9, <1>10, <1>11 DEF Walk
<1> QED
  BY <1>1, <1>2, <1>4, <1>5, <1>12

\* The first element found is the first child with the name.
LEMMA FirstElement ==
  ASSUME NEW d, L!IsTree(d), NEW x \in L!NodesOf(d), NEW q, q # "text"
  PROVE  L!GetFirstElement(d, x, q) = L!Earliest(Called(d, x, q))
<1>1. PICK f, after :
        /\ \A k : L!Sought(d, k, q) = f[k]
        /\ Walk(Len(d.name), L!ChildrenOf(d, x), Seen(d, x), Called(d, x, q), after, f)
  BY SearchWalks
<1>2. \A k \in L!ChildrenOf(d, x) : k > 0 /\ x # 0
  BY TreeNodes DEF L!ChildrenOf
<1>3. x # 0 /\ d.child[x] = L!Earliest(L!ChildrenOf(d, x))
  BY TreeNodes
<1>4. L!GetFirstElement(d, x, q) = f[L!Earliest(L!ChildrenOf(d, x))]
  BY <1>1, <1>3 DEF L!GetFirstElement, L!GetChildrenNode, L!Nil
<1>5. /\ L!ChildrenOf(d, x) = Behind(L!ChildrenOf(d, x), 0)
      /\ Called(d, x, q) = Behind(Called(d, x, q), 0)
  BY <1>2 DEF Behind, Called
<1>6. Called(d, x, q) \subseteq L!ChildrenOf(d, x) /\ L!ChildrenOf(d, x) \subseteq L!ChildrenOf(d, x)
  BY DEF Called
<1>7. f[L!Earliest(Behind(L!ChildrenOf(d, x), 0))] = L!Earliest(Behind(Called(d, x, q), 0))
  BY <1>1, <1>6, WalkOn
<1> QED
  BY <1>4, <1>5, <1>7

\* The next element found is the next child with the name.
LEMMA NextElement ==
  ASSUME NEW d, L!IsTree(d), NEW x \in L!NodesOf(d), NEW q, q # "text",
         NEW k \in L!ChildrenOf(d, x)
  PROVE  L!GetNextElement(d, k, q) = L!Earliest(Behind(Called(d, x, q), k))
<1>1. PICK f, after :
        /\ \A i : L!Sought(d, i, q) = f[i]
        /\ \A i \in L!NodesOf(d) : after[i] = L!GetNextNode(d, i)
        /\ Walk(Len(d.name), L!ChildrenOf(d, x), Seen(d, x), Called(d, x, q), after, f)
  BY SearchWalks
<1>2. k \in L!NodesOf(d) /\ k \in Nat
  BY TreeNodes DEF L!ChildrenOf
<1>3. after[k] = L!Earliest(Behind(Seen(d, x), k))
  BY <1>1 DEF Walk
<1>4. L!GetNextElement(d, k, q) = f[L!Earliest(Behind(Seen(d, x), k))]
  BY <1>1, <1>2, <1>3 DEF L!GetNextElement
<1>5. Called(d, x, q) \subseteq Seen(d, x) /\ Seen(d, x) \subseteq L!ChildrenOf(d, x)
  BY <1>1 DEF Walk
<1>6. f[L!Earliest(Behind(Seen(d, x), k))] = L!Earliest(Behind(Called(d, x, q), k))
  BY <1>1, <1>2, <1>5, WalkOn
<1> QED
  BY <1>4, <1>6

\* Nothing is found below no node.
LEMMA NoElement ==
  ASSUME NEW d, L!IsTree(d), 1 \in L!NodesOf(d), NEW q, q # "text"
  PROVE  L!GetFirstElement(d, 0, q) = 0
<1>1. PICK f, after :
        /\ \A k : L!Sought(d, k, q) = f[k]
        /\ Walk(Len(d.name), L!ChildrenOf(d, 1), Seen(d, 1), Called(d, 1, q), after, f)
  BY SearchWalks
<1> QED
  BY <1>1 DEF L!GetFirstElement, L!GetChildrenNode, L!Nil, Walk

\* From every node a search goes on to a later one, or to none.
LEMMA NextIsLater ==
  ASSUME NEW d, L!IsTree(d), NEW q, q # "text", NEW k \in L!NodesOf(d)
  PROVE  LET e == L!GetNextElement(d, k, q)
         IN e = 0 \/ (e \in L!NodesOf(d) /\ e > k)
<1>1. L!NodesOf(d) = 1..Len(d.name) /\ Len(d.name) \in Nat /\ k \in Nat \ {0}
  BY TreeNodes
<1>2. CASE d.up[k] \in L!NodesOf(d)
  <2>1. k \in L!ChildrenOf(d, d.up[k])
    BY <1>1, <1>2 DEF L!ChildrenOf, L!Nil
  <2>2. L!GetNextElement(d, k, q) = L!Earliest(Behind(Called(d, d.up[k], q), k))
    BY <1>2, <2>1, NextElement
  <2>3. Called(d, d.up[k], q) \subseteq L!NodesOf(d)
    BY DEF Called, L!ChildrenOf
  <2> QED
    BY <1>1, <2>2, <2>3, EarliestBehind
<1>3. CASE d.up[k] \notin L!NodesOf(d)
  <2>1. d.up[k] \in 0..(k - 1)
    BY DEF L!IsTree
  <2>2. d.up[k] = 0
    BY <1>1, <1>3, <2>1
  <2>3. {j \in L!ChildrenOf(d, d.up[k]) : j \notin d.blank /\ j > k} = {}
    BY <2>2 DEF L!ChildrenOf, L!Nil
  <2>4. L!GetNextNode(d, k) = 0
    BY <2>3, NextNode DEF L!Earliest, L!Nil
  <2>5. PICK f, after :
          /\ \A i : L!Sought(d, i, q) = f[i]
          /\ Walk(Len(d.name), L!ChildrenOf(d, k), Seen(d, k), Called(d, k, q), after, f)
    BY SearchWalks
  <2> QED
    BY <2>4, <2>5 DEF L!GetNextElement, Walk
<1> QED
  BY <1>2, <1>3

\* f says where a loop over elements called q stops from each node, if it returns
\* at one of F.
StopsAt(d, q, F, f) ==
  f = [k \in L!NodesOf(d) \cup {0} |->
         IF k = 0 \/ k \in F THEN k ELSE f[L!GetNextElement(d, k, q)]]

\* Such a loop stops at the first of the children called q that is in F.
LEMMA LoopStops ==
  ASSUME NEW d, L!IsTree(d), NEW q, q # "text", NEW F, 1 \in L!NodesOf(d)
  PROVE  /\ \E f : StopsAt(d, q, F, f)
         /\ \A f : StopsAt(d, q, F, f) =>
              \A x \in L!NodesOf(d) \cup {0} :
                f[L!GetFirstElement(d, x, q)] = L!Earliest(Called(d, x, q) \cap F)
<1>1. PICK n \in Nat : n = Len(d.name)
  BY TreeNodes
<1>2. L!NodesOf(d) = 1..n /\ L!NodesOf(d) \cup {0} = 0..n
  BY <1>1, TreeNodes
<1>3. PICK after : after = [k \in 1..n |-> L!GetNextElement(d, k, q)]
  OBVIOUS
<1>4. \A k \in 1..n : after[k] = L!GetNextElement(d, k, q)
  BY <1>3
<1>5. Links(n, after)
  BY <1>2, <1>4, NextIsLater DEF Links
<1>6. \E f : StopsAt(d, q, F, f)
  <2>1. PICK Stop : Stop = {k \in 0..n : k = 0 \/ k \in F}
    OBVIOUS
  <2>2. PICK f : EndOf(n, Stop, after, f)
    BY <1>5, <2>1, WalkExists
  <2>3. \A k \in 0..n : /\ k \in Stop <=> k = 0 \/ k \in F
                        /\ k # 0 => k \in 1..n
    BY <2>1
  <2>4. f = [k \in 0..n |-> IF k = 0 \/ k \in F THEN k ELSE f[L!GetNextElement(d, k, q)]]
    BY <1>4, <2>2, <2>3 DEF EndOf
  <2>5. StopsAt(d, q, F, f)
    BY <1>2, <2>4 DEF StopsAt
  <2> QED
    BY <2>5, Zenon
<1>7. ASSUME NEW f, StopsAt(d, q, F, f), NEW x \in L!NodesOf(d) \cup {0}
      PROVE  f[L!GetFirstElement(d, x, q)] = L!Earliest(Called(d, x, q) \cap F)
  <2>1. f[0] = 0 /\ \A k \in 1..n : f[k] = IF k \in F THEN k ELSE f[L!GetNextElement(d, k, q)]
    <3>1. \A k \in 1..n : k \in 0..n /\ k # 0
      OBVIOUS
    <3> QED
      BY <1>2, <1>7, <3>1 DEF StopsAt
  <2>2. CASE x = 0
    <3>1. Called(d, x, q) \cap F = {}
      BY <2>2 DEF Called, L!ChildrenOf, L!Nil
    <3>2. L!Earliest(Called(d, x, q) \cap F) = 0
      BY <3>1 DEF L!Earliest, L!Nil
    <3> QED
      BY <2>1, <2>2, <3>2, NoElement
  <2>3. CASE x \in L!NodesOf(d)
    <3>1. PICK All, Found : All = Called(d, x, q) /\ Found = Called(d, x, q) \cap F
      OBVIOUS
    <3>2. All \subseteq L!ChildrenOf(d, x) /\ All \subseteq 1..n
      BY <1>2, <3>1 DEF Called, L!ChildrenOf
    <3>3. \A k \in All : after[k] = L!Earliest(Behind(All, k))
      BY <1>4, <2>3, <3>1, <3>2, NextElement
    <3>4. \A k \in All : f[k] = IF k \in Found THEN k ELSE f[after[k]]
      BY <1>4, <2>1, <3>1, <3>2
    <3>5. Walk(n, All, All, Found, after, f)
      BY <2>1, <3>1, <3>2, <3>3, <3>4 DEF Walk
    <3>6. f[L!Earliest(Behind(All, 0))] = L!Earliest(Behind(Found, 0))
      <4>1. Found \subseteq All /\ All \subseteq All /\ 0 \in Nat
        BY <3>1
      <4> QED
        BY <3>5, <4>1, WalkOn
    <3>7. Behind(All, 0) = All /\ Behind(Found, 0) = Found
      BY <3>1, <3>2 DEF Behind
    <3>8. L!GetFirstElement(d, x, q) = L!Earliest(All)
      BY <2>3, <3>1, FirstElement
    <3> QED
      BY <3>1, <3>6, <3>7, <3>8
  <2> QED
    BY <2>2, <2>3
<1> QED
  BY <1>6, <1>7

-----------------------------------------------------------------------------
(* The loop.                                                               *)

\* While the reader is a loop, its cursor is at a child with the name, or at
\* none, and the name searched for first is the one it is remembered to seek.
\* Otherwise it is at no node.
LoopInv ==
  \/ /\ reader = "loop"
     /\ doc \in Docs /\ base \in L!Elements(doc) /\ name \in Wanted
     /\ lookup = name
     /\ current \in L!Children \cup {0}
  \/ reader # "loop" /\ base = 0 /\ current = 0

\* What the loop is to visit.
LEMMA ChildrenCalled ==
  ASSUME reader = "loop", LoopInv
  PROVE  /\ L!IsTree(doc) /\ base \in L!NodesOf(doc) /\ name # "text" /\ name # ""
         /\ L!Children = Called(doc, base, name)
         /\ Called(doc, base, name) \subseteq L!ChildrenOf(doc, base)
         /\ Called(doc, base, name) \subseteq Nat \ {0}
<1>1. doc \in Docs /\ base \in L!Elements(doc) /\ name \in Wanted
  BY DEF LoopInv
<1>2. L!IsTree(doc) /\ base \in L!NodesOf(doc) /\ name # "text" /\ name # ""
  BY <1>1, LoopAssumption DEF L!WellFormed, L!Elements
<1>3. /\ L!Children = Called(doc, base, name)
      /\ Called(doc, base, name) \subseteq L!ChildrenOf(doc, base)
      /\ Called(doc, base, name) \subseteq L!NodesOf(doc)
  BY DEF L!Children, Called, L!ChildrenOf
<1>4. \A k \in L!NodesOf(doc) : k \in Nat \ {0}
  <2>1. L!NodesOf(doc) = 1..Len(doc.name) /\ Len(doc.name) \in Nat
    BY <1>2, TreeNodes
  <2> QED
    BY <2>1
<1> QED
  BY <1>2, <1>3, <1>4

\* The sequence of the loop begins and goes on as ChildSequence says.
LEMMA SameEarliest == \A S : L!Sequence!Earliest(S) = L!Earliest(S)
  BY DEF L!Sequence!Earliest, L!Earliest, L!Nil

LEMMA NoChildren == base = 0 => L!Children = {}
  BY DEF L!Children, L!ChildrenOf, L!Nil

LEMMA LoopInit == Init => LoopInv /\ L!Sequence!Init
<1> SUFFICES ASSUME Init PROVE LoopInv /\ L!Sequence!Init
  OBVIOUS
<1>1. CASE reader = "loop"
  <2>1. L!Init
    BY <1>1 DEF Init
  <2>2. doc \in Docs /\ base \in L!Elements(doc) /\ name \in Wanted /\ lookup = name
    BY <2>1 DEF L!Init
  <2>3. L!IsTree(doc) /\ base \in L!NodesOf(doc) /\ name # "text"
    BY <2>2, LoopAssumption DEF L!WellFormed, L!Elements
  <2>4. current = L!Earliest(Called(doc, base, name))
    BY <2>1, <2>3, FirstElement DEF L!Init
  <2>5. L!Children = Called(doc, base, name)
    BY DEF L!Children, Called
  <2>6. L!Children \subseteq Nat \ {0}
    <3>1. \A k \in L!NodesOf(doc) : k \in Nat \ {0}
      BY <2>3, TreeNodes
    <3> QED
      BY <3>1 DEF L!Children, L!ChildrenOf
  <2>7. current \in L!Children \cup {0}
    BY <2>4, <2>5, <2>6, EarliestLeast
  <2> QED
    BY <1>1, <2>2, <2>4, <2>5, <2>7, SameEarliest DEF LoopInv, L!Sequence!Init
<1>2. CASE reader # "loop"
  <2>1. base = 0 /\ current = 0
    BY <1>2 DEF Init, NotLooping, L!Nil
  <2>2. L!Earliest(L!Children) = 0
    BY <2>1, NoChildren DEF L!Earliest, L!Nil
  <2> QED
    BY <1>2, <2>1, <2>2, SameEarliest DEF LoopInv, L!Sequence!Init
<1> QED
  BY <1>1, <1>2

LEMMA LoopNext ==
  LoopInv /\ [Next]_<<reader, doc, parse, loop, query, type, coded>>
    => LoopInv' /\ [L!Sequence!Advance]_(L!Sequence!vars)
<1> SUFFICES ASSUME LoopInv, [Next]_<<reader, doc, parse, loop, query, type, coded>>
             PROVE  LoopInv' /\ [L!Sequence!Advance]_(L!Sequence!vars)
  OBVIOUS
<1>1. reader' = reader
  BY DEF Next
<1>2. CASE reader # "loop"
  <2>1. UNCHANGED loop
    BY <1>2 DEF Next
  <2>2. base = 0 /\ current = 0 /\ base' = 0 /\ current' = 0
    BY <1>2, <2>1 DEF LoopInv, loop
  <2>3. L!Children = {} /\ L!Children' = {}
    BY <2>2 DEF L!Children, L!ChildrenOf, L!Nil
  <2> QED
    BY <1>1, <1>2, <2>2, <2>3 DEF LoopInv, L!Sequence!vars
<1>3. CASE reader = "loop"
  <2>1. L!Next \/ UNCHANGED <<doc, base, name, current, lookup>>
    BY <1>3 DEF Next, loop
  <2>2. doc \in Docs /\ base \in L!Elements(doc) /\ name \in Wanted /\ lookup = name
        /\ current \in L!Children \cup {0}
    BY <1>3 DEF LoopInv
  <2>3. /\ L!IsTree(doc) /\ base \in L!NodesOf(doc) /\ name # "text" /\ name # ""
        /\ L!Children = Called(doc, base, name)
        /\ Called(doc, base, name) \subseteq L!ChildrenOf(doc, base)
        /\ Called(doc, base, name) \subseteq Nat \ {0}
    BY <1>3, ChildrenCalled
  <2>4. UNCHANGED <<doc, base, name, lookup>>
    BY <2>1, <2>2, <2>3
    DEF L!Next, L!Increment, L!Search, L!Content, L!ClimbCopy
  <2>5. L!Children' = L!Children
    BY <2>4 DEF L!Children, L!ChildrenOf, L!NodesOf
  <2>6. CASE current' = current
    BY <1>1, <1>3, <2>2, <2>4, <2>5, <2>6 DEF LoopInv, L!Sequence!vars
  <2>7. CASE current' # current
    <3>1. L!Increment
      BY <2>1, <2>7 DEF L!Next, L!Search, L!Content, L!ClimbCopy
    <3>2. current # 0 /\ current' = L!GetNextElement(doc, current, name)
      BY <2>2, <3>1 DEF L!Increment, L!Within, L!Nil
    <3>3. current \in L!ChildrenOf(doc, base)
      BY <2>2, <2>3, <3>2
    <3>4. current' = L!Earliest(Behind(L!Children, current))
      BY <2>3, <3>2, <3>3, NextElement
    <3>5. /\ Behind(L!Children, current) \subseteq L!Children
          /\ Behind(L!Children, current) = {k \in L!Children : k > current}
      BY DEF Behind
    <3>6. current' \in L!Children \cup {0}
      BY <2>3, <3>4, <3>5, EarliestLeast
    <3>7. L!Sequence!Advance
      BY <2>5, <3>2, <3>4, <3>5, SameEarliest DEF L!Sequence!Advance
    <3> QED
      BY <1>1, <1>3, <2>2, <2>4, <2>5, <3>6, <3>7 DEF LoopInv
  <2> QED
    BY <2>6, <2>7
<1> QED
  BY <1>2, <1>3

\* Whatever is asked of the cursor in its body, the loop of an XmlNode visits the
\* children with the name, each once and in order: the part of
\* LoopVisitsChildren that does not speak of fairness, for every document.
THEOREM LoopKeepsOrder == Spec => L!Sequence!SafeSpec
<1>1. Init => LoopInv /\ L!Sequence!Init
  BY LoopInit
<1>2. LoopInv /\ [Next]_<<reader, doc, parse, loop, query, type, coded>>
        => LoopInv' /\ [L!Sequence!Advance]_(L!Sequence!vars)
  BY LoopNext
<1> QED
  BY <1>1, <1>2, PTL DEF Spec, L!Sequence!SafeSpec

-----------------------------------------------------------------------------
(* Climbs from a node to its root.                                         *)

\* up leads from each number down, in the end to 0.
Roots(n, up) == \A k \in 1..n : up[k] \in 0..(k - 1)

\* f is made of what stands on the way to the root.
Climb(n, up, V, v0, next, f) ==
  /\ f \in [0..n -> V] /\ f[0] = v0
  /\ \A k \in 1..n : f[k] = next[k][f[up[k]]]

\* There is a function that says what each climb finds.
LEMMA ClimbExists ==
  ASSUME NEW n \in Nat, NEW up, Roots(n, up),
         NEW V, NEW v0 \in V, NEW next \in [1..n -> [V -> V]]
  PROVE  \E f : Climb(n, up, V, v0, next, f)
<1> DEFINE Found(m, f) == /\ f \in [0..n -> V] /\ f[0] = v0
                          /\ \A k \in 1..n : k <= m => f[k] = next[k][f[up[k]]]
           Bad == {m \in 0..n : ~\E f : Found(m, f)}
<1>1. \E f : Found(0, f)
  <2> DEFINE f == [k \in 0..n |-> v0]
  <2>1. f \in [0..n -> V] /\ f[0] = v0 /\ \A k \in 1..n : ~(k <= 0)
    OBVIOUS
  <2> HIDE DEF f
  <2>2. Found(0, f)
    BY <2>1
  <2> QED
    BY <2>2, Zenon
<1>2. ASSUME NEW m \in 1..n, \E f : Found(m - 1, f) PROVE \E f : Found(m, f)
  <2>1. PICK f : Found(m - 1, f)
    BY <1>2
  <2> DEFINE v == next[m][f[up[m]]]
             g == [k \in 0..n |-> IF k = m THEN v ELSE f[k]]
  <2>2. m \in 0..n /\ m # 0 /\ up[m] \in 0..n /\ up[m] # m
    BY DEF Roots
  <2>3. v \in V
    BY <2>1, <2>2
  <2> HIDE DEF v
  <2>4. g \in [0..n -> V] /\ g[0] = v0 /\ g[m] = v /\ \A k \in 0..n : k # m => g[k] = f[k]
    BY <2>1, <2>2, <2>3
  <2> HIDE DEF g
  <2>5. ASSUME NEW k \in 1..n, k <= m PROVE g[k] = next[k][g[up[k]]]
    <3>1. up[k] \in 0..n /\ up[k] # m
      BY <2>5 DEF Roots
    <3>2. g[up[k]] = f[up[k]]
      BY <2>4, <3>1
    <3>3. CASE k = m
      BY <2>4, <3>2, <3>3 DEF v
    <3>4. CASE k # m
      <4>1. k <= m - 1 /\ k \in 0..n
        BY <2>5, <3>4
      <4> QED
        BY <2>1, <2>4, <3>2, <3>4, <4>1
    <3> QED
      BY <3>3, <3>4
  <2>6. Found(m, g)
    BY <2>4, <2>5
  <2> QED
    BY <2>6, Zenon
<1> HIDE DEF Found
<1>3. \A m \in 0..n : \E f : Found(m, f)
  <2> SUFFICES ASSUME Bad # {} PROVE FALSE
    BY Zenon
  <2>0. Bad \subseteq Nat
    OBVIOUS
  <2> HIDE DEF Bad
  <2>1. PICK m \in Bad : \A k \in Bad : m <= k
    BY <2>0, LeastNatural
  <2> USE DEF Bad
  <2>2. m \in 1..n
    BY <1>1, <2>1
  <2>3. m - 1 \in 0..n /\ m - 1 \notin Bad
    BY <2>1, <2>2
  <2> QED
    BY <1>2, <2>1, <2>2, <2>3
<1>4. PICK f : Found(n, f)
  <2>1. n \in 0..n
    OBVIOUS
  <2> QED
    BY <1>3, <2>1, Zenon
<1>5. Climb(n, up, V, v0, next, f)
  BY <1>4 DEF Found, Climb
<1> QED
  BY <1>5, Zenon

-----------------------------------------------------------------------------
(* Names and namespaces in a document of schemas.                          *)

LEMMA ForestNodes ==
  ASSUME NEW d, T!IsTree(d)
  PROVE  /\ Len(d.name) \in Nat /\ T!NodesOf(d) = 1..Len(d.name)
         /\ T!NodesOf(d) \cup {0} = 0..Len(d.name)
         /\ Roots(Len(d.name), d.up)
         /\ \A k \in T!NodesOf(d) : d.up[k] \in T!NodesOf(d) \cup {0} /\ d.up[k] < k
<1>1. Len(d.name) \in Nat /\ T!NodesOf(d) = 1..Len(d.name)
  BY DEF T!IsTree, T!NodesOf
<1>2. 1..Len(d.name) \cup {0} = 0..Len(d.name)
  BY <1>1
<1>3. \A k \in T!NodesOf(d) : d.up[k] \in 0..(k - 1)
  BY DEF T!IsTree
<1>4. Roots(Len(d.name), d.up)
  BY <1>1, <1>3 DEF Roots
<1>5. \A k \in T!NodesOf(d) : d.up[k] \in 0..Len(d.name) /\ d.up[k] < k
  BY <1>1, <1>3
<1> QED
  BY <1>1, <1>2, <1>4, <1>5

\* The path from a node up to its root.
LEMMA PathUp ==
  ASSUME T!IsTree(doc)
  PROVE  /\ T!Path(doc, 0) = {}
         /\ \A k \in T!NodesOf(doc) : T!Path(doc, k) = {k} \cup T!Path(doc, doc.up[k])
         /\ \A k \in T!NodesOf(doc) \cup {0} : T!Path(doc, k) \subseteq T!NodesOf(doc)
<1>1. PICK n \in Nat : n = Len(doc.name)
  BY ForestNodes
<1>2. T!NodesOf(doc) = 1..n /\ T!NodesOf(doc) \cup {0} = 0..n /\ Roots(n, doc.up)
  BY <1>1, ForestNodes
<1> DEFINE Is(f) == f = [k \in T!NodesOf(doc) \cup {0} |->
                           IF k = 0 THEN {} ELSE {k} \cup f[doc.up[k]]]
           way == CHOOSE f : Is(f)
<1>3. \A x : T!Path(doc, x) = way[x]
  BY DEF T!Path, T!Nil
<1>4. PICK f : Is(f) /\ f \in [0..n -> SUBSET (1..n)]
  <2> DEFINE V == SUBSET (1..n)
  <2>1. PICK next : next = [k \in 1..n |-> [S \in V |-> {k} \cup S]]
    OBVIOUS
  <2>2. next \in [1..n -> [V -> V]]
    BY <2>1
  <2>3. {} \in V
    OBVIOUS
  <2> HIDE DEF V
  <2>4. PICK f : Climb(n, doc.up, V, {}, next, f)
    BY <1>2, <2>2, <2>3, ClimbExists
  <2>5. \A k \in 1..n : f[doc.up[k]] \in V /\ f[k] = {k} \cup f[doc.up[k]]
    <3>1. \A k \in 1..n : doc.up[k] \in 0..n
      BY <1>2 DEF Roots
    <3> QED
      BY <2>1, <2>4, <3>1 DEF Climb
  <2>6. \A k \in 0..n : f[k] = IF k = 0 THEN {} ELSE {k} \cup f[doc.up[k]]
    <3>1. \A k \in 0..n : k = 0 \/ k \in 1..n
      OBVIOUS
    <3> QED
      BY <2>4, <2>5, <3>1 DEF Climb
  <2>7. f \in [0..n -> V]
    BY <2>4 DEF Climb
  <2>8. Is(f)
    BY <1>2, <2>6, <2>7
  <2> QED
    BY <2>7, <2>8 DEF V
<1>5. Is(way)
  <2> HIDE DEF Is
  <2> QED
    BY <1>4, Zenon
<1> HIDE DEF way
<1>6. way[0] = {} /\ \A k \in 1..n : way[k] = {k} \cup way[doc.up[k]]
  <2>1. 0 \in 0..n /\ \A k \in 1..n : k \in 0..n /\ k # 0
    OBVIOUS
  <2> QED
    BY <1>2, <1>5, <2>1
<1> HIDE DEF Is
<1>7. \A k \in 0..n : way[k] \subseteq 1..n
  <2> DEFINE Bad == {k \in Nat : k \in 0..n /\ ~(way[k] \subseteq 1..n)}
  <2> SUFFICES ASSUME Bad # {} PROVE FALSE
    BY DEF Bad
  <2>0. Bad \subseteq Nat
    OBVIOUS
  <2> HIDE DEF Bad
  <2>1. PICK k \in Bad : \A j \in Bad : k <= j
    BY <2>0, LeastNatural
  <2> USE DEF Bad
  <2>2. k \in 1..n
    BY <1>6, <2>1
  <2>3. doc.up[k] \in 0..n /\ doc.up[k] < k
    BY <1>2, <2>2 DEF Roots
  <2>4. doc.up[k] \notin Bad
    BY <2>1, <2>2, <2>3
  <2>5. way[doc.up[k]] \subseteq 1..n
    BY <2>3, <2>4
  <2> QED
    BY <1>6, <2>1, <2>2, <2>5
<1> QED
  BY <1>2, <1>3, <1>6, <1>7


\* GetNsMap finds what a node declares, or else what its parent finds.
LEMMA NsMapUp ==
  ASSUME NEW d, T!IsTree(d)
  PROVE  \A k \in T!NodesOf(d) :
           T!GetNsMap(d, k) = IF d.decl[k] # << >> THEN d.decl[k] ELSE T!GetNsMap(d, d.up[k])
<1>1. PICK n \in Nat : n = Len(d.name)
  BY ForestNodes
<1>2. T!NodesOf(d) = 1..n /\ T!NodesOf(d) \cup {0} = 0..n /\ Roots(n, d.up)
  BY <1>1, ForestNodes
<1> DEFINE Is(f) == f = [k \in T!NodesOf(d) \cup {0} |->
                           IF k = 0 THEN << >>
                           ELSE IF d.decl[k] # << >> THEN d.decl[k] ELSE f[d.up[k]]]
           map == CHOOSE f : Is(f)
<1>3. \A x : T!GetNsMap(d, x) = map[x]
  BY DEF T!GetNsMap, T!Nil
<1>4. \E f : Is(f)
  <2> DEFINE V == {<< >>} \cup {d.decl[k] : k \in 1..n}
  <2>1. PICK next : next = [k \in 1..n |-> [v \in V |-> IF d.decl[k] # << >> THEN d.decl[k] ELSE v]]
    OBVIOUS
  <2>2. \A k \in 1..n : d.decl[k] \in V
    OBVIOUS
  <2>3. << >> \in V
    OBVIOUS
  <2> HIDE DEF V
  <2>4. next \in [1..n -> [V -> V]]
    BY <2>1, <2>2
  <2>5. PICK f : Climb(n, d.up, V, << >>, next, f)
    BY <1>2, <2>3, <2>4, ClimbExists
  <2>6. \A k \in 1..n : f[k] = IF d.decl[k] # << >> THEN d.decl[k] ELSE f[d.up[k]]
    <3>1. \A k \in 1..n : d.up[k] \in 0..n
      BY <1>2 DEF Roots
    <3> QED
      BY <2>1, <2>5, <3>1 DEF Climb
  <2>7. \A k \in 0..n : k = 0 \/ k \in 1..n
    OBVIOUS
  <2>8. Is(f)
    BY <1>2, <2>5, <2>6, <2>7 DEF Climb
  <2> HIDE DEF Is
  <2> QED
    BY <2>8, Zenon
<1>5. Is(map)
  <2> HIDE DEF Is
  <2> QED
    BY <1>4, Zenon
<1> HIDE DEF map
<1>6. \A k \in 1..n : map[k] = IF d.decl[k] # << >> THEN d.decl[k] ELSE map[d.up[k]]
  <2>1. \A k \in 1..n : k \in 0..n /\ k # 0
    OBVIOUS
  <2> QED
    BY <1>2, <1>5, <2>1
<1> HIDE DEF Is
<1> QED
  BY <1>2, <1>3, <1>6

\* FindProperty finds the property of a node, or else what its parent finds.
LEMMA PropertyUp ==
  ASSUME NEW d, T!IsTree(d), NEW p
  PROVE  \A k \in T!NodesOf(d) :
           T!FindProperty(d, k, p).value =
             IF p \in DOMAIN d.attr[k] THEN d.attr[k][p] ELSE T!FindProperty(d, d.up[k], p).value
<1>1. PICK n \in Nat : n = Len(d.name)
  BY ForestNodes
<1>2. T!NodesOf(d) = 1..n /\ T!NodesOf(d) \cup {0} = 0..n /\ Roots(n, d.up)
  BY <1>1, ForestNodes
<1> DEFINE Own(k) == [value |-> T!GetProperty(d, k, p), cur |-> k]
           Is(f) == f = [k \in T!NodesOf(d) \cup {0} |->
                           IF k = 0 \/ T!PropertyExists(d, k, p) THEN Own(k) ELSE f[d.up[k]]]
           seen == CHOOSE f : Is(f)
<1>3. \A x : T!FindProperty(d, x, p) = seen[x]
  BY DEF T!FindProperty, T!Nil
<1>4. \E f : Is(f)
  <2> HIDE DEF Own
  <2> DEFINE V == {Own(k) : k \in 0..n}
  <2>1. PICK next : next = [k \in 1..n |->
                              [v \in V |-> IF T!PropertyExists(d, k, p) THEN Own(k) ELSE v]]
    OBVIOUS
  <2>2. \A k \in 0..n : Own(k) \in V
    OBVIOUS
  <2>3. Own(0) \in V /\ \A k \in 1..n : k \in 0..n
    BY <2>2
  <2> HIDE DEF V
  <2>4. next \in [1..n -> [V -> V]]
    BY <2>1, <2>2, <2>3
  <2>5. PICK f : Climb(n, d.up, V, Own(0), next, f)
    BY <1>2, <2>3, <2>4, ClimbExists
  <2>6. \A k \in 1..n : f[k] = IF T!PropertyExists(d, k, p) THEN Own(k) ELSE f[d.up[k]]
    <3>1. \A k \in 1..n : d.up[k] \in 0..n
      BY <1>2 DEF Roots
    <3> QED
      BY <2>1, <2>5, <3>1 DEF Climb
  <2>7. \A k \in 0..n : k = 0 \/ k \in 1..n
    OBVIOUS
  <2>8. Is(f)
    BY <1>2, <2>5, <2>6, <2>7 DEF Climb
  <2> HIDE DEF Is
  <2> QED
    BY <2>8, Zenon
<1>5. Is(seen)
  <2> HIDE DEF Is
  <2> QED
    BY <1>4, Zenon
<1> HIDE DEF seen
<1>6. \A k \in 1..n : seen[k] = IF T!PropertyExists(d, k, p) THEN Own(k) ELSE seen[d.up[k]]
  <2>1. \A k \in 1..n : k \in 0..n /\ k # 0
    OBVIOUS
  <2> HIDE DEF Own
  <2> QED
    BY <1>2, <1>5, <2>1
<1> HIDE DEF Is
<1>7. \A k \in 1..n : /\ T!PropertyExists(d, k, p) <=> p \in DOMAIN d.attr[k]
                      /\ T!PropertyExists(d, k, p) => T!GetProperty(d, k, p) = d.attr[k][p]
  BY DEF T!PropertyExists, T!GetProperty, T!Nil
<1> SUFFICES ASSUME NEW k \in 1..n
             PROVE  seen[k].value = IF p \in DOMAIN d.attr[k] THEN d.attr[k][p] ELSE seen[d.up[k]].value
  BY <1>2, <1>3
<1>8. CASE p \in DOMAIN d.attr[k]
  <2>1. seen[k] = Own(k) /\ T!GetProperty(d, k, p) = d.attr[k][p]
    BY <1>6, <1>7, <1>8
  <2> QED
    BY <1>8, <2>1
<1>9. CASE p \notin DOMAIN d.attr[k]
  <2>1. seen[k] = seen[d.up[k]]
    <3> HIDE DEF Own
    <3> QED
      BY <1>6, <1>7, <1>9
  <2> QED
    BY <1>9, <2>1
<1> QED
  BY <1>8, <1>9

\* Where one node on the path declares prefixes, GetNsMap finds these.
LEMMA OneDeclares ==
  ASSUME T!IsTree(doc), NEW m
  PROVE  \A x \in T!NodesOf(doc) : {k \in T!Path(doc, x) : doc.decl[k] # << >>} = {m}
                                     => T!GetNsMap(doc, x) = doc.decl[m]
<1> DEFINE Only(x) == {k \in T!Path(doc, x) : doc.decl[k] # << >>} = {m}
           Bad == {x \in T!NodesOf(doc) : Only(x) /\ T!GetNsMap(doc, x) # doc.decl[m]}
<1> SUFFICES ASSUME Bad # {} PROVE FALSE
  BY Zenon
<1>0. T!NodesOf(doc) \subseteq Nat
  BY ForestNodes
<1>1. Bad \subseteq Nat
  BY <1>0
<1> HIDE DEF Bad
<1>2. PICK x \in Bad : \A y \in Bad : x <= y
  BY <1>1, LeastNatural
<1> USE DEF Bad
<1>3. /\ x \in T!NodesOf(doc) /\ Only(x) /\ T!GetNsMap(doc, x) # doc.decl[m]
      /\ T!Path(doc, x) = {x} \cup T!Path(doc, doc.up[x])
  BY <1>2, PathUp
<1>4. doc.decl[x] = << >>
  <2>1. doc.decl[x] # << >> => x = m
    BY <1>3
  <2> QED
    BY <1>3, <2>1, NsMapUp
<1>5. T!GetNsMap(doc, x) = T!GetNsMap(doc, doc.up[x])
  BY <1>3, <1>4, NsMapUp
<1>6. Only(doc.up[x])
  BY <1>3, <1>4
<1>7. doc.up[x] # 0
  BY <1>6, PathUp
<1>8. doc.up[x] \in T!NodesOf(doc) /\ doc.up[x] < x
  BY <1>3, <1>7, ForestNodes
<1>9. doc.up[x] \in Bad
  BY <1>3, <1>5, <1>6, <1>8
<1> QED
  BY <1>0, <1>2, <1>3, <1>8, <1>9

\* A node is below one schema, whose targetNamespace FindProperty finds.
LEMMA InOneSchema ==
  ASSUME T!WellFormed, doc \in Schemas
  PROVE  \A x \in T!NodesOf(doc) :
           \E r \in T!Path(doc, x) :
             /\ \A k \in T!Path(doc, x) : doc.name[k] = "schema" <=> k = r
             /\ T!FindProperty(doc, x, "targetNamespace").value = doc.attr[r]["targetNamespace"]
<1>1. /\ T!IsTree(doc)
      /\ \A k \in T!NodesOf(doc) : /\ doc.name[k] = "schema" <=> doc.up[k] = 0
                                   /\ "targetNamespace" \in DOMAIN doc.attr[k] <=> doc.up[k] = 0
  BY DEF T!WellFormed, T!Nil
<1> DEFINE Target(x) == T!FindProperty(doc, x, "targetNamespace").value
           In(x) == \E r \in T!Path(doc, x) :
                      /\ \A k \in T!Path(doc, x) : doc.name[k] = "schema" <=> k = r
                      /\ Target(x) = doc.attr[r]["targetNamespace"]
           Bad == {x \in T!NodesOf(doc) : ~In(x)}
<1> HIDE DEF In
<1> SUFFICES ASSUME Bad # {} PROVE FALSE
  BY Zenon DEF In
<1>2. T!NodesOf(doc) \subseteq Nat
  BY <1>1, ForestNodes
<1>3. Bad \subseteq Nat
  BY <1>2
<1> HIDE DEF Bad
<1>4. PICK x \in Bad : \A y \in Bad : x <= y
  BY <1>3, LeastNatural
<1> USE DEF Bad
<1>5. x \in T!NodesOf(doc) /\ T!Path(doc, x) = {x} \cup T!Path(doc, doc.up[x]) /\ ~In(x)
  BY <1>1, <1>4, PathUp
<1> HIDE DEF Target
<1>6. CASE doc.up[x] = 0
  <2>1. T!Path(doc, x) = {x} /\ doc.name[x] = "schema"
    BY <1>1, <1>5, <1>6, PathUp
  <2>2. Target(x) = doc.attr[x]["targetNamespace"]
    BY <1>1, <1>5, <1>6, PropertyUp DEF Target
  <2> QED
    BY <1>5, <2>1, <2>2 DEF In
<1>7. CASE doc.up[x] # 0
  <2>1. doc.up[x] \in T!NodesOf(doc) /\ doc.up[x] < x
    BY <1>1, <1>5, <1>7, ForestNodes
  <2>2. In(doc.up[x])
    <3>1. doc.up[x] \notin Bad
      BY <1>2, <1>4, <1>5, <2>1
    <3> QED
      BY <2>1, <3>1
  <2>3. Target(x) = Target(doc.up[x]) /\ doc.name[x] # "schema"
    BY <1>1, <1>5, <1>7, PropertyUp DEF Target
  <2>4. PICK r \in T!Path(doc, doc.up[x]) :
           /\ \A k \in T!Path(doc, doc.up[x]) : doc.name[k] = "schema" <=> k = r
           /\ Target(doc.up[x]) = doc.attr[r]["targetNamespace"]
    BY <2>2 DEF In
  <2>5. r \in T!Path(doc, x) /\ \A k \in T!Path(doc, x) : doc.name[k] = "schema" <=> k = r
    BY <1>5, <2>3, <2>4
  <2> QED
    BY <1>5, <2>3, <2>4, <2>5 DEF In
<1> QED
  BY <1>6, <1>7


LEMMA SameCardinality == \A S : T!Cardinality(S) = Cardinality(S)
  BY DEF T!Cardinality, Cardinality

\* A qualified name is read as XML does, where this can be read.
LEMMA ReadsPrefix ==
  ASSUME T!WellFormed, doc \in Schemas, NEW x \in T!NodesOf(doc), NEW value, T!Readable(x, value)
  PROVE  /\ T!HrefInScope(x, value) # ""
         /\ T!Href(T!GetNsMap(doc, x), T!NS(value)) = T!HrefInScope(x, value)
         /\ T!HrefOf(doc, x, value) = T!HrefInScope(x, value)
<1> DEFINE ns == T!NS(value)
           declaring == {k \in T!Path(doc, x) : ns \in DOMAIN doc.decl[k]}
<1>1. T!IsTree(doc)
  BY DEF T!WellFormed
<1>2. /\ Cardinality({k \in T!Path(doc, x) : doc.decl[k] # << >>}) = 1
      /\ T!HrefInScope(x, value) # ""
      /\ ns = "" => T!HrefInScope(x, value) = T!TargetNamespace(doc, x)
  BY SameCardinality DEF T!Readable
<1>3. T!Path(doc, x) \subseteq 1..Len(doc.name) /\ Len(doc.name) \in Nat
  BY <1>1, ForestNodes, PathUp
<1>4. IsFiniteSet({k \in T!Path(doc, x) : doc.decl[k] # << >>})
  <2>1. IsFiniteSet(1..Len(doc.name))
    BY <1>3, FS_Interval
  <2>2. {k \in T!Path(doc, x) : doc.decl[k] # << >>} \subseteq 1..Len(doc.name)
    BY <1>3
  <2> QED
    BY <2>1, <2>2, FS_Subset
<1>5. PICK m : {k \in T!Path(doc, x) : doc.decl[k] # << >>} = {m}
  BY <1>2, <1>4, FS_Singleton
<1>6. T!GetNsMap(doc, x) = doc.decl[m]
  BY <1>1, <1>5, OneDeclares
<1>7. T!HrefInScope(x, value) =
        IF declaring = {} THEN ""
        ELSE doc.decl[CHOOSE k \in declaring : \A j \in declaring : j <= k][ns]
  BY DEF T!HrefInScope
<1>8. declaring = {m} /\ m \in Nat
  <2>1. declaring # {}
    BY <1>2, <1>7
  <2>2. \A k \in declaring : doc.decl[k] # << >>
    <3> SUFFICES ASSUME NEW k \in declaring, doc.decl[k] = << >> PROVE FALSE
      OBVIOUS
    <3>1. ns \in DOMAIN << >>
      OBVIOUS
    <3> QED
      BY <3>1
  <2>3. declaring \subseteq {m}
    BY <1>5, <2>2
  <2> QED
    BY <1>3, <2>1, <2>3
<1> HIDE DEF declaring
<1>9. T!HrefInScope(x, value) = doc.decl[m][ns]
  <2>1. (CHOOSE k \in declaring : \A j \in declaring : j <= k) = m
    BY <1>8
  <2> QED
    BY <1>7, <1>8, <2>1
<1>10. T!Href(T!GetNsMap(doc, x), ns) = T!HrefInScope(x, value)
  <2>1. ns \in DOMAIN doc.decl[m]
    BY <1>8 DEF declaring
  <2> QED
    BY <1>6, <1>9, <2>1 DEF T!Href
<1>11. T!HrefOf(doc, x, value) = T!HrefInScope(x, value)
  <2>1. CASE ns # ""
    BY <1>10, <2>1 DEF T!HrefOf
  <2>2. CASE ns = ""
    <3>1. PICK r \in T!Path(doc, x) :
            /\ \A k \in T!Path(doc, x) : doc.name[k] = "schema" <=> k = r
            /\ T!FindProperty(doc, x, "targetNamespace").value = doc.attr[r]["targetNamespace"]
      BY InOneSchema
    <3>2. (CHOOSE k \in T!Path(doc, x) : doc.name[k] = "schema") = r
      BY <3>1
    <3>3. T!TargetNamespace(doc, x) = T!Type(doc.attr[r]["targetNamespace"])
      BY <3>2 DEF T!TargetNamespace
    <3>4. T!Target(doc, x) = T!TargetNamespace(doc, x)
      BY <1>2, <2>2, <3>1, <3>3 DEF T!Target
    <3> QED
      BY <1>2, <2>2, <3>4 DEF T!HrefOf
  <2> QED
    BY <2>1, <2>2
<1> QED
  BY <1>2, <1>10, <1>11

\* What every object has.
Fields == {"href", "type", "class", "ctype", "base", "extends"}

LEMMA ObjectFields ==
  /\ \A h : DOMAIN T!Untyped(h) = Fields
  /\ \A d, x, o, v : DOMAIN o = Fields => DOMAIN T!SetType(d, x, o, v) = Fields
  /\ \A d, x, h, m : DOMAIN T!TypeBase(d, x, h, m) = Fields
<1>1. \A h : DOMAIN T!Untyped(h) = Fields
  BY DEF T!Untyped, Fields
<1>2. \A d, x, o, v : DOMAIN o = Fields => DOMAIN T!SetType(d, x, o, v) = Fields
  BY DEF T!SetType
<1> QED
  BY <1>1, <1>2 DEF T!TypeBase

\* SetType takes the type a name stands for.  Only the class of a builtin type
\* that has none of its own stays what it was.
LEMMA SetTypeReads ==
  ASSUME T!WellFormed, doc \in Schemas, NEW x \in T!NodesOf(doc), NEW value, T!Readable(x, value),
         NEW o, DOMAIN o = Fields
  PROVE  /\ T!SetType(doc, x, o, value).href = T!HrefInScope(x, value)
         /\ T!SetType(doc, x, o, value).type = T!Type(value)
         /\ T!SetType(doc, x, o, value).ctype = T!CType(doc, T!HrefInScope(x, value), T!Type(value))
         /\ T!SetType(doc, x, o, value).class =
              IF T!HrefInScope(x, value) = XMLSchema THEN T!TypeClass(T!Type(value), o.class) ELSE "complex"
<1>1. T!HrefOf(doc, x, value) = T!HrefInScope(x, value) /\ T!HrefInScope(x, value) # ""
  BY ReadsPrefix
<1>2. PICK h : h = T!HrefInScope(x, value)
  OBVIOUS
<1>3. PICK c, t : /\ c = T!CType(doc, h, T!Type(value))
                  /\ t = IF h = XMLSchema THEN T!TypeClass(T!Type(value), o.class) ELSE "complex"
  OBVIOUS
<1>4. T!SetType(doc, x, o, value) =
        [o EXCEPT !.href = h, !.type = T!Type(value), !.ctype = c, !.class = t]
  BY <1>1, <1>2, <1>3 DEF T!SetType
<1> QED
  BY <1>2, <1>3, <1>4 DEF Fields

-----------------------------------------------------------------------------
(* The object of TypeResolution.                                           *)

\* o is what the constructor of a class, as, makes of node x, with its base.
Makes(x, as, o, declared, extends) ==
  LET target == T!Target(doc, x) IN
  \/ /\ as = "element" /\ o \in T!Element(doc, x, target)
     /\ declared = T!BaseType(doc, x, o)
  \/ /\ as \in {"attribute", "named attribute"} /\ \E m : o = T!Attribute(doc, x, m, target)
     /\ declared = T!BaseType(doc, x, o)
  \/ as = "simpleType" /\ o = T!SimpleType(doc, x, T!TypeName(doc, x), target)
  \/ /\ as = "complexType" /\ \E m, h : o = T!ComplexType(doc, x, m, h)
     /\ extends = T!Extends(doc, x)

\* The object is not made yet, or as its class is made.
TypeInv ==
  reader = "type" =>
    /\ doc \in Schemas
    /\ \/ node = 0 /\ kind = "none"
       \/ node \in T!NodesOf(doc) /\ \E o, declared, extends :
            Makes(node, kind, o, declared, extends) /\ object = [o EXCEPT !.base = declared, !.extends = extends]

LEMMA SameFirstElement == \A d, x, q : T!GetFirstElement(d, x, q) = L!GetFirstElement(d, x, q)
  BY DEF T!GetFirstElement, L!GetFirstElement, T!Sought, L!Sought, T!GetNextNode, L!GetNextNode,
         T!GetChildrenNode, L!GetChildrenNode, T!NodesOf, L!NodesOf, T!Nil, L!Nil

\* A class is made of a node of the document.
LEMMA StartIsNode ==
  ASSUME T!WellFormed, doc \in Schemas, NEW x \in T!NodesOf(doc)
  PROVE  T!Start(doc, x) \in T!NodesOf(doc)
<1>1. L!IsTree(doc) /\ L!NodesOf(doc) = T!NodesOf(doc)
  BY DEF T!WellFormed, T!IsTree, L!IsTree, T!NodesOf, L!NodesOf, T!Earliest, L!Earliest, T!ChildrenOf,
         L!ChildrenOf, T!Nil, L!Nil
<1>0. 1 \in L!NodesOf(doc) /\ L!NodesOf(doc) \subseteq Nat \ {0}
  <2>1. PICK n \in Nat : n = Len(doc.name) /\ L!NodesOf(doc) = 1..n
    BY <1>1, TreeNodes
  <2> QED
    BY <1>1, <2>1
<1>2. ASSUME NEW y \in T!NodesOf(doc) \cup {0}, NEW q, q # "text"
      PROVE  T!GetFirstElement(doc, y, q) \in T!NodesOf(doc) \cup {0}
  <2>1. CASE y = 0
    BY <1>0, <1>1, <1>2, <2>1, SameFirstElement, NoElement
  <2>2. CASE y # 0
    <3>1. T!GetFirstElement(doc, y, q) = L!Earliest(Called(doc, y, q))
      BY <1>1, <1>2, <2>2, SameFirstElement, FirstElement
    <3>2. Called(doc, y, q) \subseteq T!NodesOf(doc) /\ Called(doc, y, q) \subseteq Nat \ {0}
      BY <1>0, <1>1 DEF Called, L!ChildrenOf
    <3> QED
      BY <3>1, <3>2, EarliestLeast
  <2> QED
    BY <2>1, <2>2
<1>3. PICK e : e = T!GetFirstElement(doc, T!GetFirstElement(doc, x, "complexContent"), "extension")
  OBVIOUS
<1>4. e \in T!NodesOf(doc) \cup {0}
  BY <1>2, <1>3
<1>5. T!Start(doc, x) = IF T!PropertyExists(doc, e, "base") THEN e ELSE x
  BY <1>3 DEF T!Start
<1> QED
  BY <1>4, <1>5 DEF T!PropertyExists, T!Nil

LEMMA TypeInit == Init => TypeInv
  BY DEF Init, TypeInv, T!Init, T!Nil

LEMMA TypeNext ==
  TypeInv /\ [Next]_<<reader, doc, parse, loop, query, type, coded>> => TypeInv'
<1> SUFFICES ASSUME TypeInv, [Next]_<<reader, doc, parse, loop, query, type, coded>>, reader = "type"
             PROVE  TypeInv'
  BY DEF TypeInv, Next
<1>1. CASE UNCHANGED <<reader, doc, type>>
  BY <1>1 DEF TypeInv, Makes, type
<1>2. CASE T!Next /\ reader' = reader
  <2>1. ASSUME NEW x \in T!NodesOf(doc), NEW as, NEW o, NEW declared, NEW extends,
               T!Make(x, as, o, declared, extends), Makes(x, as, o, declared, extends)
        PROVE  TypeInv'
    <3>1. /\ node' = x /\ kind' = as /\ object' = [o EXCEPT !.base = declared, !.extends = extends]
          /\ doc' = doc
      BY <2>1 DEF T!Make
    <3>2. Makes(x, as, o, declared, extends)'
      BY <2>1, <3>1 DEF Makes
    <3> HIDE DEF Makes
    <3> QED
      BY <1>2, <3>1, <3>2 DEF TypeInv
  <2>2. ASSUME NEW x \in T!Members, T!MakeElement(x) PROVE TypeInv'
    <3>1. PICK o \in T!Element(doc, x, T!Target(doc, x)) :
            T!Make(x, "element", o, T!BaseType(doc, x, o), T!NoCType)
      BY <2>2 DEF T!MakeElement
    <3>2. Makes(x, "element", o, T!BaseType(doc, x, o), T!NoCType) /\ x \in T!NodesOf(doc)
      BY DEF Makes, T!Members, T!Nodes
    <3> QED
      BY <2>1, <3>1, <3>2
  <2>3. ASSUME NEW x \in T!Nodes("attribute"), NEW m, T!MakeAttribute(x, m) PROVE TypeInv'
    <3>1. PICK o, as : /\ o = T!Attribute(doc, x, m, T!Target(doc, x))
                       /\ as \in {"attribute", "named attribute"}
                       /\ T!Make(x, as, o, T!BaseType(doc, x, o), T!NoCType)
      BY <2>3 DEF T!MakeAttribute
    <3>2. Makes(x, as, o, T!BaseType(doc, x, o), T!NoCType) /\ x \in T!NodesOf(doc)
      BY <3>1 DEF Makes, T!Nodes
    <3> QED
      BY <2>1, <3>1, <3>2
  <2>4. ASSUME NEW x \in T!Nodes("simpleType"), T!MakeSimpleType(x) PROVE TypeInv'
    <3>1. PICK o : /\ o = T!SimpleType(doc, x, T!TypeName(doc, x), T!Target(doc, x))
                   /\ T!Make(x, "simpleType", o, T!NoCType, T!NoCType)
      BY <2>4 DEF T!MakeSimpleType
    <3>2. Makes(x, "simpleType", o, T!NoCType, T!NoCType) /\ x \in T!NodesOf(doc)
      BY <3>1 DEF Makes, T!Nodes
    <3> QED
      BY <2>1, <3>1, <3>2
  <2>5. ASSUME NEW x \in T!Nodes("complexType"), T!MakeComplexType(x) PROVE TypeInv'
    <3>1. PICK y, o : /\ y = T!Start(doc, x)
                      /\ o = T!ComplexType(doc, y, T!TypeName(doc, x), T!Target(doc, x))
                      /\ T!Make(y, "complexType", o, T!NoCType, T!Extends(doc, y))
      BY <2>5 DEF T!MakeComplexType
    <3>2. Makes(y, "complexType", o, T!NoCType, T!Extends(doc, y))
      BY <3>1 DEF Makes
    <3>3. y \in T!NodesOf(doc)
      BY <3>1, SchemasAssumption, StartIsNode DEF TypeInv, T!Nodes
    <3> QED
      BY <2>1, <3>1, <3>2, <3>3
  <2> QED
    BY <1>2, <2>2, <2>3, <2>4, <2>5 DEF T!Next
<1> QED
  BY <1>1, <1>2 DEF Next, type

\* Of an object as it is made, the type that its node names.
LEMMA NamedTypeRead ==
  ASSUME T!WellFormed, reader = "type", TypeInv, T!NamedType # << >>, T!Readable(node, T!NamedType)
  PROVE  LET href == T!HrefInScope(node, T!NamedType)
         IN IF kind = "complexType"
            THEN object.extends = [space |-> Space[href], path |-> <<CName1up[T!Type(T!NamedType)]>>]
            ELSE object.href = href /\ object.type = T!Type(T!NamedType)
<1>1. doc \in Schemas
  BY DEF TypeInv
<1>2. \A d, x, p : T!GetProperty(d, x, p) # << >> => T!PropertyExists(d, x, p)
  BY DEF T!GetProperty
<1>3. ~(node = 0 /\ kind = "none")
  <2> SUFFICES ASSUME node = 0, kind = "none" PROVE FALSE
    OBVIOUS
  <2>1. T!NamedType = T!GetProperty(doc, 0, "type") /\ ~T!PropertyExists(doc, 0, "type")
    BY DEF T!NamedType, T!PropertyExists, T!Nil
  <2> QED
    BY <1>2, <2>1
<1>4. PICK o, declared, extends :
        /\ node \in T!NodesOf(doc) /\ Makes(node, kind, o, declared, extends)
        /\ object = [o EXCEPT !.base = declared, !.extends = extends]
  BY <1>3 DEF TypeInv
<1> DEFINE value == T!NamedType
           href == T!HrefInScope(node, value)
<1>5. \A p : DOMAIN p = Fields => /\ T!SetType(doc, node, p, value).href = href
                                  /\ T!SetType(doc, node, p, value).type = T!Type(value)
                                  /\ DOMAIN T!SetType(doc, node, p, value) = Fields
  BY <1>1, <1>4, SetTypeReads, ObjectFields
<1>6. ASSUME DOMAIN o = Fields
      PROVE  /\ object.href = o.href /\ object.type = o.type /\ object.extends = extends
  BY <1>4, <1>6 DEF Fields
<1>7. CASE kind = "element"
  <2>1. value = T!GetProperty(doc, node, "type") /\ T!PropertyExists(doc, node, "type")
    BY <1>2, <1>7 DEF T!NamedType
  <2>2. o \in T!Element(doc, node, T!Target(doc, node))
    BY <1>4, <1>7 DEF Makes
  <2>3. o = T!SetType(doc, node, T!Untyped(T!Target(doc, node)), value)
    BY <2>1, <2>2 DEF T!Element
  <2>4. o.href = href /\ o.type = T!Type(value) /\ DOMAIN o = Fields
    BY <1>5, <2>3, ObjectFields
  <2> QED
    BY <1>6, <1>7, <2>4
<1>8. CASE kind \in {"attribute", "named attribute"}
  <2>1. value = T!GetProperty(doc, node, "type") /\ T!PropertyExists(doc, node, "type")
    BY <1>2, <1>8 DEF T!NamedType
  <2>2. PICK m : o = T!Attribute(doc, node, m, T!Target(doc, node))
    BY <1>4, <1>8 DEF Makes
  <2>3. o = T!SetType(doc, node, T!TypeBase(doc, node, T!Target(doc, node), m), value)
    BY <2>1, <2>2 DEF T!Attribute
  <2>4. o.href = href /\ o.type = T!Type(value) /\ DOMAIN o = Fields
    BY <1>5, <2>3, ObjectFields
  <2> QED
    BY <1>6, <1>8, <2>4
<1>9. CASE kind = "simpleType"
  <2> DEFINE restriction == T!GetFirstElement(doc, node, "restriction")
  <2>1. value = T!GetProperty(doc, restriction, "base") /\ T!PropertyExists(doc, restriction, "base")
    BY <1>2, <1>9 DEF T!NamedType
  <2>2. o = T!SimpleType(doc, node, T!TypeName(doc, node), T!Target(doc, node))
    BY <1>4, <1>9 DEF Makes
  <2> HIDE DEF restriction
  <2>3. PICK p : p = T!TypeBase(doc, node, T!Target(doc, node), T!TypeName(doc, node))
    OBVIOUS
  <2>4. o = T!SetType(doc, node, p, value)
    BY <2>1, <2>2, <2>3 DEF T!SimpleType, restriction
  <2>5. o.href = href /\ o.type = T!Type(value) /\ DOMAIN o = Fields
    BY <1>5, <2>3, <2>4, ObjectFields
  <2> QED
    BY <1>6, <1>9, <2>5
<1>10. CASE kind = "complexType"
  <2>1. value = T!GetProperty(doc, T!Start(doc, node), "base") /\ value # << >>
    BY <1>10 DEF T!NamedType
  <2>2. extends = T!Extends(doc, node)
        /\ \E m, h : o = T!ComplexType(doc, node, m, h)
    BY <1>4, <1>10 DEF Makes
  <2>3. T!Extends(doc, node) = [space |-> Space[T!Href(T!GetNsMap(doc, node), T!NS(value))],
                                path |-> <<CName1up[T!Type(value)]>>]
    BY <2>1 DEF T!Extends
  <2>4. T!Href(T!GetNsMap(doc, node), T!NS(value)) = href
    BY <1>1, <1>4, ReadsPrefix
  <2>5. DOMAIN o = Fields
    BY <2>2, ObjectFields DEF T!ComplexType
  <2> QED
    BY <1>6, <1>10, <2>2, <2>3, <2>4, <2>5
<1>11. kind \in {"element", "attribute", "named attribute", "simpleType", "complexType"}
  BY <1>4 DEF Makes
<1> QED
  BY <1>7, <1>8, <1>9, <1>10, <1>11

\* SetType and the constructor of ComplexType read a qualified name as XML
\* does, in every schema, wherever the name stands and however far up its prefix
\* is declared, where one element declares them all.
THEOREM ReadsAsDeclared == Spec => []ResolvesAsDeclared
<1>1. Init => TypeInv
  BY TypeInit
<1>2. TypeInv /\ [Next]_<<reader, doc, parse, loop, query, type, coded>> => TypeInv'
  BY TypeNext
<1>3. TypeInv => ResolvesAsDeclared
  BY SchemasAssumption, NamedTypeRead DEF ResolvesAsDeclared, T!ResolvesAsDeclared
<1> QED
  BY <1>1, <1>2, <1>3, PTL DEF Spec


\* Whatever is made has what every object has.
LEMMA MadeFields ==
  ASSUME NEW x, NEW as, NEW o, NEW declared, NEW extends, Makes(x, as, o, declared, extends)
  PROVE  DOMAIN o = Fields
<1>1. CASE as = "element"
  <2>1. o \in T!Element(doc, x, T!Target(doc, x))
    BY <1>1 DEF Makes
  <2>2. \E v : o = T!SetType(doc, x, T!Untyped(T!Target(doc, x)), v) \/ o = T!Untyped(T!Target(doc, x))
    BY <2>1 DEF T!Element
  <2> QED
    BY <2>2, ObjectFields
<1>2. CASE as \in {"attribute", "named attribute"}
  <2>1. PICK m : o = T!Attribute(doc, x, m, T!Target(doc, x))
    BY <1>2 DEF Makes
  <2>2. PICK p : p = T!TypeBase(doc, x, T!Target(doc, x), m)
    OBVIOUS
  <2>3. o = p \/ \E v : o = T!SetType(doc, x, p, v)
    BY <2>1, <2>2 DEF T!Attribute
  <2> QED
    BY <2>2, <2>3, ObjectFields
<1>3. CASE as = "simpleType"
  <2>1. o = T!SimpleType(doc, x, T!TypeName(doc, x), T!Target(doc, x))
    BY <1>3 DEF Makes
  <2> QED
    BY <2>1, ObjectFields DEF T!SimpleType
<1>4. CASE as = "complexType"
  <2>1. PICK m, h : o = T!ComplexType(doc, x, m, h)
    BY <1>4 DEF Makes
  <2> QED
    BY <2>1, ObjectFields DEF T!ComplexType
<1> QED
  BY <1>1, <1>2, <1>3, <1>4 DEF Makes

\* No name stands in the namespace of XML Schema for want of a prefix.
LEMMA TargetIsOwn ==
  ASSUME T!WellFormed, doc \in Schemas, NEW x \in T!NodesOf(doc)
  PROVE  T!Target(doc, x) = "" \/ T!Target(doc, x) # XMLSchema
<1>1. /\ T!IsTree(doc)
      /\ \A k \in T!NodesOf(doc) : /\ "targetNamespace" \in DOMAIN doc.attr[k] <=> doc.up[k] = 0
                                   /\ doc.name[k] = "schema" <=> doc.up[k] = 0
                                   /\ T!Type(T!GetProperty(doc, k, "targetNamespace")) # XMLSchema
  BY DEF T!WellFormed, T!Nil
<1>2. PICK r \in T!Path(doc, x) :
        /\ \A k \in T!Path(doc, x) : doc.name[k] = "schema" <=> k = r
        /\ T!FindProperty(doc, x, "targetNamespace").value = doc.attr[r]["targetNamespace"]
  BY InOneSchema
<1>3. r \in T!NodesOf(doc) /\ "targetNamespace" \in DOMAIN doc.attr[r]
  BY <1>1, <1>2, PathUp
<1>4. r # 0 /\ 1 \in T!NodesOf(doc)
  <2>1. T!NodesOf(doc) = 1..Len(doc.name) /\ Len(doc.name) \in Nat
    BY <1>1, ForestNodes
  <2> QED
    BY <1>3, <2>1
<1>5. T!GetProperty(doc, r, "targetNamespace") = doc.attr[r]["targetNamespace"]
  BY <1>3, <1>4 DEF T!GetProperty, T!PropertyExists, T!Nil
<1>6. T!Type(doc.attr[r]["targetNamespace"]) # XMLSchema
  BY <1>1, <1>3, <1>5
<1>7. T!Type(T!GetProperty(doc, 1, "targetNamespace")) # XMLSchema
  BY <1>1, <1>4
<1> QED
  BY <1>2, <1>6, <1>7 DEF T!Target, T!Root

\* Object o has type t of namespace h; numbers and booleans are told from the rest.
HasType(o, h, t) ==
  /\ o.href = h /\ o.type = t /\ o.ctype = T!CType(doc, h, t)
  /\ \A c \in {"number", "boolean"} : o.class = c <=> h = XMLSchema /\ T!TypeClass(t, "unknown") = c

\* Whichever name an attribute is made with, its type is what it names.
LEMMA AttributeReads ==
  ASSUME T!WellFormed, doc \in Schemas, NEW x \in T!NodesOf(doc), NEW m,
         T!GetProperty(doc, x, "type") # << >>, T!Readable(x, T!GetProperty(doc, x, "type"))
  PROVE  HasType(T!Attribute(doc, x, m, T!Target(doc, x)),
                 T!HrefInScope(x, T!GetProperty(doc, x, "type")),
                 T!Type(T!GetProperty(doc, x, "type")))
<1>1. PICK value, h, t, p, o :
        /\ value = T!GetProperty(doc, x, "type") /\ h = T!HrefInScope(x, value) /\ t = T!Type(value)
        /\ p = T!TypeBase(doc, x, T!Target(doc, x), m)
        /\ o = T!Attribute(doc, x, m, T!Target(doc, x))
  OBVIOUS
<1>2. o = T!SetType(doc, x, p, value)
  BY <1>1 DEF T!Attribute, T!GetProperty
<1>3. DOMAIN p = Fields
  BY <1>1, ObjectFields
<1>4. /\ o.href = h /\ o.type = t /\ o.ctype = T!CType(doc, h, t)
      /\ o.class = IF h = XMLSchema THEN T!TypeClass(t, p.class) ELSE "complex"
  BY <1>1, <1>2, <1>3, SetTypeReads
<1>5. p.class \in {"unknown", "complex"}
  <2>1. PICK u : u = T!Untyped(T!Target(doc, x))
    OBVIOUS
  <2>2. u.class = "unknown" /\ DOMAIN u = Fields
    BY <2>1, ObjectFields DEF T!Untyped
  <2>3. T!HrefOf(doc, x, <<m>>) = T!Target(doc, x)
    BY DEF T!HrefOf, T!NS
  <2>4. T!SetType(doc, x, u, <<m>>) = u \/ T!SetType(doc, x, u, <<m>>).class = "complex"
    <3>1. CASE T!Target(doc, x) = ""
      BY <2>3, <3>1 DEF T!SetType
    <3>2. CASE T!Target(doc, x) # ""
      <4>1. T!Target(doc, x) # XMLSchema
        BY <3>2, TargetIsOwn
      <4>2. \E a, b, c : T!SetType(doc, x, u, <<m>>) =
              [u EXCEPT !.href = a, !.type = b, !.ctype = c, !.class = "complex"]
        BY <2>3, <3>2, <4>1 DEF T!SetType
      <4> QED
        BY <2>2, <4>2 DEF Fields
    <3> QED
      BY <3>1, <3>2
  <2>5. p = u \/ p = T!SetType(doc, x, u, <<m>>)
    BY <1>1, <2>1 DEF T!TypeBase
  <2> QED
    BY <2>2, <2>4, <2>5
<1>6. \A c \in {"number", "boolean"} :
        o.class = c <=> h = XMLSchema /\ T!TypeClass(t, "unknown") = c
  <2> SUFFICES ASSUME NEW c \in {"number", "boolean"}
               PROVE  T!TypeClass(t, p.class) = c <=> T!TypeClass(t, "unknown") = c
    BY <1>4
  <2> QED
    BY <1>5 DEF T!TypeClass
<1> QED
  BY <1>1, <1>4, <1>6 DEF HasType

\* The base of a member is that of the simpleType it names.
LEMMA BaseRead == T!WellFormed /\ reader = "type" /\ TypeInv => T!BaseAsDefined
<1> SUFFICES ASSUME T!WellFormed, reader = "type", TypeInv, T!Named, T!IsSimpleType(doc, object),
                    NEW s, NEW value,
                    s = T!FindSimpleType(doc, object.href, <<object.type>>),
                    value = T!GetProperty(doc, T!GetFirstElement(doc, s, "restriction"), "base"),
                    value # << >>, T!Readable(s, value)
             PROVE  object.base = T!CType(doc, T!HrefInScope(s, value), T!Type(value))
  BY DEF T!BaseAsDefined
<1>1. doc \in Schemas
  BY DEF TypeInv
<1>2. PICK o, declared, extends :
        /\ node \in T!NodesOf(doc) /\ Makes(node, kind, o, declared, extends)
        /\ object = [o EXCEPT !.base = declared, !.extends = extends]
  BY DEF TypeInv, T!Named
<1>3. DOMAIN o = Fields
  BY <1>2, MadeFields
<1>4. object.href = o.href /\ object.type = o.type /\ object.base = declared
  BY <1>2, <1>3 DEF Fields
<1>5. declared = T!BaseType(doc, node, o)
  BY <1>2 DEF Makes, T!Named
<1>6. T!IsSimpleType(doc, o) /\ s = T!FindSimpleType(doc, o.href, <<o.type>>)
  BY <1>4 DEF T!IsSimpleType
<1>7. declared = T!SimpleType(doc, s, o.type, "").ctype
  BY <1>5, <1>6 DEF T!BaseType
<1>8. s \in T!NodesOf(doc)
  BY <1>1, <1>6 DEF T!IsSimpleType, T!FindSimpleType, T!WellFormed
<1>9. PICK p : p = T!TypeBase(doc, s, "", o.type)
  OBVIOUS
<1>10. T!SimpleType(doc, s, o.type, "") = T!SetType(doc, s, p, value)
  BY <1>9 DEF T!SimpleType, T!GetProperty
<1>11. DOMAIN p = Fields
  BY <1>9, ObjectFields
<1>12. T!SetType(doc, s, p, value).ctype = T!CType(doc, T!HrefInScope(s, value), T!Type(value))
  BY <1>1, <1>8, <1>11, SetTypeReads
<1> QED
  BY <1>4, <1>7, <1>10, <1>12

\* Header and implementation make the same of an attribute.
LEMMA HeaderReads == T!WellFormed /\ reader = "type" /\ TypeInv => T!HeaderAgrees
<1> SUFFICES ASSUME T!WellFormed, reader = "type", TypeInv, kind = "named attribute",
                    T!NamedType # << >>, T!Readable(node, T!NamedType),
                    NEW i, i = T!Attribute(doc, node, "", T!Target(doc, node))
             PROVE  /\ object.ctype = i.ctype /\ object.base = T!BaseType(doc, node, i)
                    /\ \A c \in {"number", "boolean"} : object.class = c <=> i.class = c
  BY DEF T!HeaderAgrees
<1>1. doc \in Schemas /\ T!NamedType = T!GetProperty(doc, node, "type")
  BY DEF TypeInv, T!NamedType
<1>2. PICK o, declared, extends :
        /\ node \in T!NodesOf(doc) /\ Makes(node, kind, o, declared, extends)
        /\ object = [o EXCEPT !.base = declared, !.extends = extends]
  BY DEF TypeInv
<1>3. DOMAIN o = Fields
  BY <1>2, MadeFields
<1>4. object.ctype = o.ctype /\ object.class = o.class /\ object.base = declared
  BY <1>2, <1>3 DEF Fields
<1>5. PICK m : o = T!Attribute(doc, node, m, T!Target(doc, node)) /\ declared = T!BaseType(doc, node, o)
  BY <1>2 DEF Makes
<1>6. /\ o.href = i.href /\ o.type = i.type /\ o.ctype = i.ctype
      /\ \A c \in {"number", "boolean"} : o.class = c <=> i.class = c
  <2>1. PICK h, t : h = T!HrefInScope(node, T!NamedType) /\ t = T!Type(T!NamedType)
    OBVIOUS
  <2>2. \A n : HasType(T!Attribute(doc, node, n, T!Target(doc, node)), h, t)
    BY <1>1, <1>2, <2>1, AttributeReads
  <2>3. HasType(o, h, t) /\ HasType(i, h, t)
    BY <1>5, <2>2
  <2> QED
    BY <2>3 DEF HasType
<1>7. T!BaseType(doc, node, o) = T!BaseType(doc, node, i)
  BY <1>6 DEF T!BaseType, T!IsSimpleType
<1> QED
  BY <1>4, <1>5, <1>6, <1>7

\* Members and attributes are declared with the type they name, where that is a
\* simpleType with the type it restricts, by the prefixes where the simpleType
\* stands, and the header agrees with the implementation: in every schema.
THEOREM MembersAsTyped == Spec => []MembersTyped
<1>1. Init => TypeInv
  BY TypeInit
<1>2. TypeInv /\ [Next]_<<reader, doc, parse, loop, query, type, coded>> => TypeInv'
  BY TypeNext
<1>3. TypeInv => MembersTyped
  BY SchemasAssumption, BaseRead, HeaderReads DEF MembersTyped, T!MembersTyped
<1> QED
  BY <1>1, <1>2, <1>3, PTL DEF Spec

-----------------------------------------------------------------------------
(* The queries of WsdlQueries.                                             *)

\* They are of the same XmlNode as the loop.
LEMMA SameSearch ==
  /\ Q!Nil = 0 /\ Q!Root = 1
  /\ \A d : Q!IsTree(d) <=> L!IsTree(d)
  /\ \A d : Q!NodesOf(d) = L!NodesOf(d)
  /\ \A S : Q!Earliest(S) = L!Earliest(S)
  /\ \A d, x : Q!ChildrenOf(d, x) = L!ChildrenOf(d, x)
  /\ \A d, x, q : Q!GetFirstElement(d, x, q) = L!GetFirstElement(d, x, q)
  /\ \A d, x, q : Q!GetNextElement(d, x, q) = L!GetNextElement(d, x, q)
<1>1. Q!Nil = 0 /\ Q!Root = 1
  BY DEF Q!Nil, Q!Root
<1>2. \A d : Q!NodesOf(d) = L!NodesOf(d)
  BY DEF Q!NodesOf, L!NodesOf
<1>3. \A S : Q!Earliest(S) = L!Earliest(S)
  BY DEF Q!Earliest, L!Earliest, Q!Nil, L!Nil
<1>4. \A d, x : Q!ChildrenOf(d, x) = L!ChildrenOf(d, x)
  BY DEF Q!ChildrenOf, L!ChildrenOf, Q!Nil, L!Nil, Q!NodesOf, L!NodesOf
<1>5. \A d : Q!IsTree(d) <=> L!IsTree(d)
  BY <1>2, <1>3, <1>4 DEF Q!IsTree, L!IsTree
<1>6. \A d, x : Q!GetNextNode(d, x) = L!GetNextNode(d, x)
  BY DEF Q!GetNextNode, L!GetNextNode, Q!Nil, L!Nil, Q!NodesOf, L!NodesOf
<1>7. \A d, x, q : Q!Sought(d, x, q) = L!Sought(d, x, q)
  BY DEF Q!Sought, L!Sought, Q!GetNextNode, L!GetNextNode, Q!Nil, L!Nil, Q!NodesOf, L!NodesOf
<1>8. \A d, x, q : Q!GetFirstElement(d, x, q) = L!GetFirstElement(d, x, q)
  BY <1>7 DEF Q!GetFirstElement, L!GetFirstElement, Q!GetChildrenNode, L!GetChildrenNode, Q!Nil, L!Nil
<1>9. \A d, x, q : Q!GetNextElement(d, x, q) = L!GetNextElement(d, x, q)
  BY <1>6, <1>7 DEF Q!GetNextElement, L!GetNextElement
<1> QED
  BY <1>1, <1>2, <1>3, <1>4, <1>5, <1>8, <1>9

\* A loop that returns at the first of F returns there.
LEMMA StopsFirst ==
  ASSUME NEW d, L!IsTree(d), 1 \in L!NodesOf(d), NEW q, q # "text", NEW F,
         NEW f, StopsAt(d, q, F, f), NEW x \in L!NodesOf(d) \cup {0}
  PROVE  f[L!GetFirstElement(d, x, q)] = L!Earliest(Called(d, x, q) \cap F)
<1>1. \A g : StopsAt(d, q, F, g) =>
        \A y \in L!NodesOf(d) \cup {0} :
          g[L!GetFirstElement(d, y, q)] = L!Earliest(Called(d, y, q) \cap F)
  BY LoopStops
<1> QED
  BY <1>1

\* What is called q below x is a node, and so is the earliest that fits.
LEMMA CalledNodes ==
  ASSUME NEW d, L!IsTree(d), NEW x, NEW q, NEW F
  PROVE  LET e == L!Earliest(Called(d, x, q) \cap F)
         IN e = 0 \/ (e \in Called(d, x, q) /\ e \in F /\ e \in L!NodesOf(d))
<1>1. Called(d, x, q) \cap F \subseteq L!NodesOf(d)
  BY DEF Called, L!ChildrenOf
<1>2. L!NodesOf(d) \subseteq Nat \ {0}
  BY TreeNodes
<1>3. Called(d, x, q) \cap F \subseteq Nat \ {0}
  BY <1>1, <1>2
<1> QED
  BY <1>1, <1>3, EarliestLeast

\* GetMessage finds the first message of the name.
LEMMA MessageFound ==
  ASSUME NEW d, L!IsTree(d), 1 \in L!NodesOf(d), NEW m
  PROVE  \E F : /\ Q!GetMessage(d, m) = L!Earliest(Called(d, 1, "message") \cap F)
                /\ F = {k \in L!NodesOf(d) : Q!Name(d, k) = Q!Type(m)}
<1> DEFINE F == {k \in L!NodesOf(d) : Q!Name(d, k) = Q!Type(m)}
           Is(g) == g = [k \in Q!NodesOf(d) \cup {Q!Nil} |->
                           IF k = Q!Nil \/ Q!Name(d, k) = Q!Type(m) THEN k
                           ELSE g[Q!GetNextElement(d, k, "message")]]
           f == CHOOSE g : Is(g)
<1>1. Q!GetMessage(d, m) = f[Q!GetFirstElement(d, Q!Root, "message")]
  BY DEF Q!GetMessage, Q!FirstThat
<1>2. \A g : Is(g) <=> StopsAt(d, "message", F, g)
  BY SameSearch DEF StopsAt
<1>3. "message" # "text" /\ 1 \in L!NodesOf(d) \cup {0}
  OBVIOUS
<1> HIDE DEF Is, f
<1>4. F = {k \in L!NodesOf(d) : Q!Name(d, k) = Q!Type(m)}
  OBVIOUS
<1> HIDE DEF F
<1>5. \E g : StopsAt(d, "message", F, g)
  BY <1>3, LoopStops
<1>6. StopsAt(d, "message", F, f)
  <2>1. Is(f)
    BY <1>2, <1>5 DEF f
  <2> QED
    BY <1>2, <2>1
<1>7. f[L!GetFirstElement(d, 1, "message")] = L!Earliest(Called(d, 1, "message") \cap F)
  <2>1. \A g : StopsAt(d, "message", F, g) =>
          \A y \in L!NodesOf(d) \cup {0} :
            g[L!GetFirstElement(d, y, "message")] = L!Earliest(Called(d, y, "message") \cap F)
    BY <1>3, LoopStops
  <2> QED
    BY <1>3, <1>6, <2>1
<1>8. Q!GetMessage(d, m) = L!Earliest(Called(d, 1, "message") \cap F)
  BY <1>1, <1>7, SameSearch
<1> QED
  BY <1>4, <1>8

\* GetElement finds the first element below a schema that has the name.
LEMMA ElementFound ==
  ASSUME NEW d, L!IsTree(d), 1 \in L!NodesOf(d), NEW x \in L!NodesOf(d) \cup {0}, NEW m
  PROVE  \E F : /\ Q!ElementBelow(d, x, m) = L!Earliest(Called(d, x, "element") \cap F)
                /\ F = {k \in L!NodesOf(d) : Q!Name(d, k) = Q!Type(m)}
<1> DEFINE F == {k \in L!NodesOf(d) : Q!Name(d, k) = Q!Type(m)}
           Is(g) == g = [k \in Q!NodesOf(d) \cup {Q!Nil} |->
                           IF k = Q!Nil \/ Q!Name(d, k) = Q!Type(m) THEN k
                           ELSE g[Q!GetNextElement(d, k, "element")]]
           f == CHOOSE g : Is(g)
<1>1. Q!ElementBelow(d, x, m) = f[Q!GetFirstElement(d, x, "element")]
  BY DEF Q!ElementBelow, Q!FirstThat
<1>2. \A g : Is(g) <=> StopsAt(d, "element", F, g)
  BY SameSearch DEF StopsAt
<1>3. "element" # "text"
  OBVIOUS
<1> HIDE DEF Is, f
<1>4. F = {k \in L!NodesOf(d) : Q!Name(d, k) = Q!Type(m)}
  OBVIOUS
<1> HIDE DEF F
<1>5. \E g : StopsAt(d, "element", F, g)
  BY <1>3, LoopStops
<1>6. StopsAt(d, "element", F, f)
  <2>1. Is(f)
    BY <1>2, <1>5 DEF f
  <2> QED
    BY <1>2, <2>1
<1>7. f[L!GetFirstElement(d, x, "element")] = L!Earliest(Called(d, x, "element") \cap F)
  <2>1. \A g : StopsAt(d, "element", F, g) =>
          \A y \in L!NodesOf(d) \cup {0} :
            g[L!GetFirstElement(d, y, "element")] = L!Earliest(Called(d, y, "element") \cap F)
    BY <1>3, LoopStops
  <2> QED
    BY <1>3, <1>6, <2>1
<1>8. Q!ElementBelow(d, x, m) = L!Earliest(Called(d, x, "element") \cap F)
  BY <1>1, <1>7, SameSearch
<1> QED
  BY <1>4, <1>8

\* GetSchema of a document that is not itself the schema finds the first below
\* its types.
LEMMA SchemaBelowTypes ==
  ASSUME NEW d, L!IsTree(d), 1 \in L!NodesOf(d), NEW h
  PROVE  LET t == L!Earliest(Called(d, 1, "types"))
             Targets(k) == Q!Type(Q!GetProperty(d, k, "targetNamespace")) = h
         IN IF d.name[1] = "schema" /\ Targets(1) THEN Q!GetSchema(d, h) = 1
            ELSE \E F : /\ Q!GetSchema(d, h) = L!Earliest(Called(d, t, "schema") \cap F)
                        /\ F = {k \in L!NodesOf(d) : Targets(k)}
<1> DEFINE t == L!Earliest(Called(d, 1, "types"))
           Targets(k) == Q!Type(Q!GetProperty(d, k, "targetNamespace")) = h
           F == {k \in L!NodesOf(d) : Targets(k)}
           Is(g) == g = [k \in Q!NodesOf(d) \cup {Q!Nil} |->
                           IF k = Q!Nil \/ Targets(k) THEN k
                           ELSE g[Q!GetNextElement(d, k, "schema")]]
           f == CHOOSE g : Is(g)
<1>1. Q!GetSchema(d, h)
        = IF d.name[1] = "schema" /\ Targets(1) THEN 1
          ELSE f[Q!GetFirstElement(d, Q!GetFirstElement(d, 1, "types"), "schema")]
  BY SameSearch DEF Q!GetSchema, Q!FirstThat
<1>2. \A g : Is(g) <=> StopsAt(d, "schema", F, g)
  BY SameSearch DEF StopsAt
<1>3. "schema" # "text" /\ "types" # "text"
  OBVIOUS
<1> HIDE DEF Is, f
<1>4. F = {k \in L!NodesOf(d) : Targets(k)}
  OBVIOUS
<1> HIDE DEF F, Targets
<1>5. \E g : StopsAt(d, "schema", F, g)
  BY <1>3, LoopStops
<1>6. StopsAt(d, "schema", F, f)
  <2>1. Is(f)
    BY <1>2, <1>5 DEF f
  <2> QED
    BY <1>2, <2>1
<1>7. t \in L!NodesOf(d) \cup {0}
  <2>1. Called(d, 1, "types") = Called(d, 1, "types") \cap L!NodesOf(d)
    BY DEF Called, L!ChildrenOf
  <2> QED
    BY <2>1, CalledNodes
<1>8. Q!GetFirstElement(d, 1, "types") = t
  BY <1>3, FirstElement, SameSearch
<1> HIDE DEF t
<1>9. f[L!GetFirstElement(d, t, "schema")] = L!Earliest(Called(d, t, "schema") \cap F)
  BY <1>3, <1>6, <1>7, StopsFirst
<1>10. Q!GetFirstElement(d, Q!GetFirstElement(d, 1, "types"), "schema")
         = L!GetFirstElement(d, t, "schema")
  BY <1>8, SameSearch
<1>11. CASE d.name[1] = "schema" /\ Targets(1)
  BY <1>1, <1>11 DEF Targets
<1>12. CASE ~(d.name[1] = "schema" /\ Targets(1))
  <2>1. Q!GetSchema(d, h) = L!Earliest(Called(d, t, "schema") \cap F)
    BY <1>1, <1>9, <1>10, <1>12
  <2> QED
    BY <1>4, <1>12, <2>1 DEF Targets, t
<1> QED
  BY <1>11, <1>12 DEF Targets, t

\* It finds the first of the schemas that stand where a schema may, in either
\* kind of document.
LEMMA SchemaFound ==
  ASSUME Q!WellFormed, doc \in Wsdls, NEW h
  PROVE  /\ Q!GetSchema(doc, h) = L!Earliest(Q!SchemasOf(h))
         /\ Q!GetSchema(doc, h) = 0 \/ Q!GetSchema(doc, h) \in Q!Kind("schema")
<1>1. /\ L!IsTree(doc) /\ 1 \in L!NodesOf(doc)
      /\ \A k \in L!NodesOf(doc) : doc.up[k] = 0 <=> k = 1
      /\ \A j, k \in L!NodesOf(doc) :
           doc.name[j] = "types" /\ doc.name[k] = "types" => j = k /\ doc.up[k] = 1
  BY SameSearch DEF Q!WellFormed
<1>2. /\ L!NodesOf(doc) \subseteq Nat \ {0}
      /\ \A k \in L!NodesOf(doc) : 1 <= k
  BY <1>1, TreeNodes
<1>3. PICK S : S = Q!SchemasOf(h)
  OBVIOUS
<1> DEFINE Targets(k) == Q!Type(Q!GetProperty(doc, k, "targetNamespace")) = h
<1>4. \A k : k \in S <=> /\ k \in L!NodesOf(doc) /\ doc.name[k] = "schema" /\ Targets(k)
                         /\ \/ doc.up[k] = 0
                            \/ doc.up[k] \in L!NodesOf(doc) /\ doc.name[doc.up[k]] = "types"
  BY <1>3, SameSearch DEF Q!SchemasOf, Q!Kind
<1>5. PICK t : t = L!Earliest(Called(doc, 1, "types"))
  OBVIOUS
<1>6. IF doc.name[1] = "schema" /\ Targets(1) THEN Q!GetSchema(doc, h) = 1
      ELSE \E F : /\ Q!GetSchema(doc, h) = L!Earliest(Called(doc, t, "schema") \cap F)
                  /\ F = {k \in L!NodesOf(doc) : Targets(k)}
  BY <1>1, <1>5, SchemaBelowTypes
<1> HIDE DEF Targets
<1>7. CASE doc.name[1] = "schema" /\ Targets(1)
  <2>1. 1 \in S /\ S \subseteq Nat \ {0} /\ \A k \in S : 1 <= k
    BY <1>1, <1>2, <1>4, <1>7
  <2>2. L!Earliest(S) = 1
    BY <2>1, EarliestIs
  <2>3. 1 \in Q!Kind("schema")
    BY <1>1, <1>7, SameSearch DEF Q!Kind
  <2> QED
    BY <1>3, <1>6, <1>7, <2>2, <2>3
<1>8. CASE ~(doc.name[1] = "schema" /\ Targets(1))
  <2>1. PICK F : /\ Q!GetSchema(doc, h) = L!Earliest(Called(doc, t, "schema") \cap F)
                 /\ F = {k \in L!NodesOf(doc) : Targets(k)}
    BY <1>6, <1>8
  <2>2. \A k : k \in Called(doc, 1, "types") <=> k \in L!NodesOf(doc) /\ doc.name[k] = "types"
    BY <1>1 DEF Called, L!ChildrenOf, L!Nil
  <2>3. t = 0 \/ t \in Called(doc, 1, "types")
    <3>1. Called(doc, 1, "types") \subseteq Nat \ {0}
      BY <1>2, <2>2
    <3> QED
      BY <1>5, <3>1, EarliestLeast
  <2>4. ASSUME NEW k \in S PROVE k \in Called(doc, t, "schema") \cap F
    <3>1. k # 1
      BY <1>4, <1>8, <2>4
    <3>2. doc.up[k] \in Called(doc, 1, "types")
      BY <1>1, <1>4, <2>2, <2>4, <3>1
    <3>3. t \in Called(doc, 1, "types")
      <4>1. Called(doc, 1, "types") \subseteq Nat \ {0} /\ Called(doc, 1, "types") # {}
        BY <1>2, <2>2, <3>2
      <4> QED
        BY <1>5, <4>1, EarliestLeast
    <3>4. doc.up[k] = t
      BY <1>1, <2>2, <3>2, <3>3
    <3> QED
      BY <1>2, <1>4, <2>1, <2>2, <2>4, <3>3, <3>4 DEF Called, L!ChildrenOf, L!Nil
  <2>5. ASSUME NEW k \in Called(doc, t, "schema") \cap F PROVE k \in S
    <3>1. t # 0 /\ k \in L!NodesOf(doc) /\ doc.up[k] = t /\ doc.name[k] = "schema" /\ Targets(k)
      BY <2>1 DEF Called, L!ChildrenOf, L!Nil
    <3>2. doc.up[k] \in L!NodesOf(doc) /\ doc.name[doc.up[k]] = "types"
      BY <2>2, <2>3, <3>1
    <3> QED
      BY <1>4, <3>1, <3>2
  <2>6. S = Called(doc, t, "schema") \cap F
    BY <2>4, <2>5
  <2>7. Q!GetSchema(doc, h) = 0 \/ Q!GetSchema(doc, h) \in S
    BY <1>1, <2>1, <2>6, CalledNodes
  <2> QED
    BY <1>3, <1>4, <2>1, <2>6, <2>7, SameSearch DEF Q!Kind
<1> QED
  BY <1>7, <1>8

\* What an import names is a schema of the document.
LEMMA ImportsSchema ==
  ASSUME Q!WellFormed, doc \in Wsdls, NEW x
  PROVE  Q!Imported(doc, x) = 0 \/ Q!Imported(doc, x) \in Q!Kind("schema")
<1>1. Q!Imported(doc, x) = 0 \/ \E h : Q!Imported(doc, x) = Q!GetSchema(doc, h)
  BY SameSearch DEF Q!Imported
<1> QED
  BY <1>1, SchemaFound

\* The parts of the message.
PartsAsked == Called(doc, Q!GetMessage(doc, message), "part")

\* The schema of the document whose namespace the name looked up is in.
Home == Q!Earliest(Q!SchemasOf(Q!Href(Q!GetNsMap(doc, Q!Root), Q!NS(sought))))

\* While the message is followed: what has been collected are parts of it, and
\* the search for an element has left the schema of its namespace only by an
\* import.
QueryInv ==
  \/ /\ reader = "query" /\ doc \in Wsdls
     /\ phase \in {"new", "parts", "walk", "lookup", "done"}
     /\ part \in PartsAsked \cup {0}
     /\ el \in L!NodesOf(doc) \cup {0}
     /\ phase # "done" => vec \in Seq(PartsAsked)
     /\ phase = "lookup" => /\ at \in Q!Kind("schema")
                            /\ at = Home \/ Q!Imported(doc, Home) # 0
     /\ Q!ParametersUnwrapped
  \/ reader # "query" /\ phase = "none"

\* A part that has been collected is one of a message of the name.
LEMMA PartsOfMessage ==
  ASSUME Q!WellFormed, doc \in Wsdls, NEW k \in PartsAsked
  PROVE  k \in Q!Kind("part") /\ Q!Called(doc.up[k], Q!Type(message))
<1>1. L!IsTree(doc) /\ 1 \in L!NodesOf(doc)
  BY SameSearch DEF Q!WellFormed
<1>2. PICK m : m = Q!GetMessage(doc, message)
  OBVIOUS
<1>3. /\ k \in L!NodesOf(doc) /\ doc.name[k] = "part"
      /\ m # 0 /\ doc.up[k] = m
  BY <1>2 DEF PartsAsked, Called, L!ChildrenOf, L!Nil
<1>4. PICK F : /\ m = L!Earliest(Called(doc, 1, "message") \cap F)
               /\ F = {j \in L!NodesOf(doc) : Q!Name(doc, j) = Q!Type(message)}
  BY <1>1, <1>2, MessageFound
<1>5. m \in F
  BY <1>1, <1>3, <1>4, CalledNodes
<1> QED
  BY <1>3, <1>4, <1>5, SameSearch DEF Q!Kind, Q!Called

\* The cursor over the parts goes from part to part.
LEMMA FirstPart ==
  ASSUME Q!WellFormed, doc \in Wsdls
  PROVE  Q!GetFirstElement(doc, Q!GetMessage(doc, message), "part") \in PartsAsked \cup {0}
<1>1. L!IsTree(doc) /\ 1 \in L!NodesOf(doc)
  BY SameSearch DEF Q!WellFormed
<1>2. PICK m : m = Q!GetMessage(doc, message)
  OBVIOUS
<1>3. PICK F : m = L!Earliest(Called(doc, 1, "message") \cap F)
  BY <1>1, <1>2, MessageFound
<1>4. m = 0 \/ m \in L!NodesOf(doc)
  BY <1>1, <1>3, CalledNodes
<1>5. CASE m = 0
  BY <1>1, <1>2, <1>5, NoElement, SameSearch
<1>6. CASE m \in L!NodesOf(doc)
  <2>1. L!GetFirstElement(doc, m, "part") = L!Earliest(Called(doc, m, "part"))
    BY <1>1, <1>6, FirstElement
  <2>2. PICK S : S = Called(doc, m, "part")
    OBVIOUS
  <2>3. S \cap S = S
    OBVIOUS
  <2>4. L!Earliest(S) = 0 \/ L!Earliest(S) \in S
    BY <1>1, <2>2, <2>3, CalledNodes
  <2> QED
    BY <1>2, <2>1, <2>2, <2>4, SameSearch DEF PartsAsked
<1> QED
  BY <1>4, <1>5, <1>6

LEMMA NextPart ==
  ASSUME Q!WellFormed, doc \in Wsdls, NEW k \in PartsAsked
  PROVE  Q!GetNextElement(doc, k, "part") \in PartsAsked \cup {0}
<1>1. L!IsTree(doc) /\ 1 \in L!NodesOf(doc)
  BY SameSearch DEF Q!WellFormed
<1>2. PICK m : m = Q!GetMessage(doc, message)
  OBVIOUS
<1>3. PICK S : S = Called(doc, m, "part")
  OBVIOUS
<1>4. PICK F : m = L!Earliest(Called(doc, 1, "message") \cap F)
  BY <1>1, <1>2, MessageFound
<1>5. k \in L!ChildrenOf(doc, m) /\ m # 0
  BY <1>2 DEF PartsAsked, Called, L!ChildrenOf, L!Nil
<1>6. m \in L!NodesOf(doc)
  BY <1>1, <1>4, <1>5, CalledNodes
<1>7. L!GetNextElement(doc, k, "part") = L!Earliest(Behind(S, k))
  BY <1>1, <1>3, <1>5, <1>6, NextElement
<1>8. Behind(S, k) \subseteq S
  BY DEF Behind
<1>9. S \cap Behind(S, k) = Behind(S, k)
  BY <1>8
<1>10. L!Earliest(Behind(S, k)) = 0 \/ L!Earliest(Behind(S, k)) \in S
  BY <1>1, <1>3, <1>9, CalledNodes
<1> QED
  BY <1>2, <1>3, <1>7, <1>10, SameSearch DEF PartsAsked

\* Every action of the queries keeps what they maintain.
LEMMA QueryStep ==
  ASSUME Q!WellFormed, QueryInv, reader = "query", reader' = reader, Q!Next
  PROVE  QueryInv'
<1>1. /\ doc \in Wsdls /\ part \in PartsAsked \cup {0} /\ el \in L!NodesOf(doc) \cup {0}
      /\ phase # "done" => vec \in Seq(PartsAsked)
      /\ phase = "lookup" => at \in Q!Kind("schema") /\ (at = Home \/ Q!Imported(doc, Home) # 0)
      /\ Q!Nil = 0
  BY SameSearch DEF QueryInv
<1>2. doc' = doc /\ message' = message /\ phase # "done"
  BY DEF Q!Next, Q!Begin, Q!ReadPart, Q!Choose, Q!SearchImport, Q!SearchElements, Q!FollowRef,
         Q!FollowType, Q!UnfoldElement, Q!UnfoldType, Q!Circle, Q!Leave, Q!Pass
<1>3. PartsAsked' = PartsAsked /\ L!NodesOf(doc)' = L!NodesOf(doc)
  BY <1>2 DEF PartsAsked, Called, L!ChildrenOf
<1>4. /\ \A q : (Q!Kind(q))' = Q!Kind(q)
      /\ sought' = sought => Home' = Home /\ (Q!Imported(doc, Home))' = Q!Imported(doc, Home)
  <2>1. \A q : (Q!Kind(q))' = Q!Kind(q)
    BY <1>2 DEF Q!Kind
  <2>2. ASSUME sought' = sought PROVE Home' = Home
    <3>1. \A h : (Q!SchemasOf(h))' = Q!SchemasOf(h)
      BY <1>2 DEF Q!SchemasOf, Q!Kind
    <3> QED
      BY <1>2, <2>2, <3>1 DEF Home
  <2> QED
    BY <1>2, <2>1, <2>2
<1>5. ASSUME NEW n, Q!LookUp(n)
      PROVE  /\ (phase' = "walk" /\ el' = 0) \/ (phase' = "lookup" /\ el' = el)
             /\ phase' = "lookup" => at' \in Q!Kind("schema") /\ at' = Home'
  <2>1. PICK h : h = Q!Href(Q!GetNsMap(doc, Q!Root), Q!NS(n))
    OBVIOUS
  <2>2. PICK s : s = Q!GetSchema(doc, h)
    OBVIOUS
  <2>3. /\ at' = s /\ sought' = n
        /\ IF s = 0 THEN phase' = "walk" /\ el' = 0 ELSE phase' = "lookup" /\ el' = el
    BY <1>1, <1>5, <2>1, <2>2 DEF Q!LookUp
  <2>4. (s = 0 \/ s \in Q!Kind("schema")) /\ s = Q!Earliest(Q!SchemasOf(h))
    BY <1>1, <2>2, SchemaFound, SameSearch
  <2>5. Home' = Q!Earliest(Q!SchemasOf(h))
    <3>1. Q!Href(Q!GetNsMap(doc', Q!Root), Q!NS(sought')) = h
      BY <1>2, <2>1, <2>3
    <3>2. (Q!SchemasOf(h))' = Q!SchemasOf(h)
      BY <1>2 DEF Q!SchemasOf, Q!Kind
    <3> QED
      BY <3>1, <3>2 DEF Home
  <2> QED
    BY <2>3, <2>4, <2>5
<1>6. phase' # "done" => Q!ParametersUnwrapped'
  BY DEF Q!ParametersUnwrapped
<1>7. vec' = vec => Q!ParametersUnwrapped'
  <2> SUFFICES ASSUME vec' = vec, NEW i \in DOMAIN vec
               PROVE  vec[i] \in Q!Kind("part") /\ Q!Called(doc.up[vec[i]], Q!Type(message))
    BY <1>2, <1>4 DEF Q!ParametersUnwrapped, Q!Called
  <2>1. vec[i] \in PartsAsked
    BY <1>1, <1>2
  <2> QED
    BY <1>1, <2>1, PartsOfMessage
<1>8. ASSUME NEW k \in Q!Kind("complexType"), Q!Unfold(k)
      PROVE  /\ (phase' = "walk" /\ el' = 0) \/ (phase' \in {"lookup", "done"} /\ el' = el)
             /\ phase' = "lookup" => at' \in Q!Kind("schema") /\ at' = Home'
             /\ phase' # "done" => vec' = vec
             /\ Q!ParametersUnwrapped'
  <2>1. CASE Q!IsSingleRef(doc, k)
    <3>1. Q!LookUp(Q!GetProperty(doc, Q!Members(doc, k)[1], "ref")) /\ vec' = vec
      BY <1>8, <2>1 DEF Q!Unfold
    <3>2. /\ (phase' = "walk" /\ el' = 0) \/ (phase' = "lookup" /\ el' = el)
          /\ phase' = "lookup" => at' \in Q!Kind("schema") /\ at' = Home'
      BY <1>5, <3>1
    <3> QED
      BY <1>7, <3>1, <3>2
  <2>2. CASE ~Q!IsSingleRef(doc, k)
    <3>1. phase' = "done" /\ vec' = Q!Members(doc, k) /\ el' = el
      BY <1>8, <2>2 DEF Q!Unfold
    <3>2. vec' = Q!Members(doc', k) /\ ~Q!IsSingleRef(doc', k) /\ k \in (Q!Kind("complexType"))'
      BY <1>2, <1>4, <2>2, <3>1
    <3>3. Q!ParametersUnwrapped'
      BY <3>2 DEF Q!ParametersUnwrapped
    <3> QED
      BY <3>1, <3>3
  <2> QED
    BY <2>1, <2>2
<1>9. SUFFICES /\ phase' \in {"new", "parts", "walk", "lookup", "done"}
               /\ part' \in PartsAsked \cup {0}
               /\ el' \in L!NodesOf(doc) \cup {0}
               /\ phase' # "done" => vec' \in Seq(PartsAsked)
               /\ phase' = "lookup" => /\ at' \in Q!Kind("schema")
                                       /\ at' = Home' \/ (Q!Imported(doc, Home))' # 0
               /\ Q!ParametersUnwrapped'
  BY <1>1, <1>2, <1>3, <1>4 DEF QueryInv
<1>10. vec \in Seq(PartsAsked) /\ << >> \in Seq(PartsAsked)
  BY <1>1, <1>2
<1>11. CASE Q!Begin
  <2>1. phase' = "parts" /\ vec' = vec /\ el' = el
    BY <1>11 DEF Q!Begin
  <2>2. part' \in PartsAsked \cup {0}
    BY <1>1, <1>11, FirstPart DEF Q!Begin
  <2> QED
    BY <1>1, <1>6, <1>10, <2>1, <2>2
<1>12. CASE Q!ReadPart
  <2>1. phase = "parts" /\ phase' = phase /\ part \in PartsAsked /\ el' = el
    BY <1>1, <1>12 DEF Q!ReadPart
  <2>2. part' \in PartsAsked \cup {0}
    BY <1>1, <1>12, <2>1, NextPart DEF Q!ReadPart
  <2>3. vec' = vec \/ vec' = Append(vec, part)
    BY <1>12 DEF Q!ReadPart
  <2>4. vec' \in Seq(PartsAsked)
    BY <1>10, <2>1, <2>3
  <2> QED
    BY <1>1, <1>6, <2>1, <2>2, <2>4
<1>13. \A x, p : Q!TypeNamedBy(doc, x, p) \in L!NodesOf(doc) \cup {0}
  <2>1. \A t \in DOMAIN doc.types : doc.types[t] \in L!NodesOf(doc)
    BY <1>1, SameSearch DEF Q!WellFormed
  <2>2. \A h, v : Q!FindComplexType(doc, h, v) \in L!NodesOf(doc) \cup {0}
    BY <1>1, <2>1 DEF Q!FindComplexType
  <2> QED
    BY <2>2 DEF Q!TypeNamedBy
<1>14. CASE Q!Choose
  <2>1. part' = part /\ vec' \in Seq(PartsAsked)
    BY <1>10, <1>14 DEF Q!Choose
  <2>2. CASE element # << >>
    <3>1. Q!LookUp(element)
      BY <1>14, <2>2 DEF Q!Choose
    <3>2. /\ (phase' = "walk" /\ el' = 0) \/ (phase' = "lookup" /\ el' = el)
          /\ phase' = "lookup" => at' \in Q!Kind("schema") /\ at' = Home'
      BY <1>5, <3>1
    <3> QED
      BY <1>1, <1>6, <2>1, <3>2
  <2>3. CASE element = << >>
    <3>1. phase' = "walk" /\ (el' = Q!TypeNamedBy(doc, vec[1], "type") \/ el' = 1)
      BY <1>14, <2>3, SameSearch DEF Q!Choose
    <3>2. 1 \in L!NodesOf(doc)
      BY <1>1, SameSearch DEF Q!WellFormed
    <3> QED
      BY <1>1, <1>6, <1>13, <2>1, <3>1, <3>2
  <2> QED
    BY <2>2, <2>3
<1>15. CASE Q!SearchImport
  <2>1. /\ phase = "lookup" /\ phase' = phase /\ part' = part /\ vec' = vec /\ el' = el
        /\ sought' = sought /\ at' = Q!Imported(doc, at) /\ at' # 0
    BY <1>1, <1>15 DEF Q!SearchImport
  <2>2. at' \in Q!Kind("schema")
    BY <1>1, <2>1, ImportsSchema
  <2>3. Q!Imported(doc, Home) # 0
    BY <1>1, <2>1
  <2> QED
    BY <1>1, <1>4, <1>6, <1>10, <2>1, <2>2, <2>3
<1>16. CASE Q!SearchElements
  <2>1. /\ phase = "lookup" /\ phase' = "walk" /\ part' = part /\ vec' = vec
        /\ el' = Q!ElementBelow(doc, at, sought)
    BY <1>16 DEF Q!SearchElements
  <2>2. L!IsTree(doc) /\ 1 \in L!NodesOf(doc) /\ at \in L!NodesOf(doc)
    BY <1>1, <2>1, SameSearch DEF Q!WellFormed, Q!Kind
  <2>3. PICK F : Q!ElementBelow(doc, at, sought) = L!Earliest(Called(doc, at, "element") \cap F)
    BY <2>2, ElementFound
  <2>4. el' \in L!NodesOf(doc) \cup {0}
    BY <2>1, <2>2, <2>3, CalledNodes
  <2> QED
    BY <1>1, <1>6, <1>10, <2>1, <2>4
<1>17. CASE Q!FollowRef
  <2>1. Q!LookUp(Q!GetProperty(doc, el, "ref")) /\ part' = part /\ vec' = vec
    BY <1>17 DEF Q!FollowRef, Q!Pass
  <2>2. /\ (phase' = "walk" /\ el' = 0) \/ (phase' = "lookup" /\ el' = el)
        /\ phase' = "lookup" => at' \in Q!Kind("schema") /\ at' = Home'
    BY <1>5, <2>1
  <2> QED
    BY <1>1, <1>7, <1>10, <2>1, <2>2
<1>18. CASE Q!FollowType
  <2>1. phase' = phase /\ phase = "walk" /\ part' = part /\ vec' = vec
    BY <1>18 DEF Q!FollowType, Q!Pass
  <2>2. el' \in L!NodesOf(doc) \cup {0}
    BY <1>13, <1>18 DEF Q!FollowType
  <2> QED
    BY <1>1, <1>7, <1>10, <2>1, <2>2
<1>19. CASE Q!UnfoldElement
  <2>1. part' = part /\ el # 0
    BY <1>1, <1>19 DEF Q!UnfoldElement, Q!Pass
  <2>2. PICK k : k = Q!GetFirstElement(doc, el, "complexType")
    OBVIOUS
  <2>3. CASE k # 0
    <3>1. Q!Unfold(k)
      BY <1>1, <1>19, <2>2, <2>3 DEF Q!UnfoldElement
    <3>2. L!IsTree(doc) /\ el \in L!NodesOf(doc)
      BY <1>1, <2>1, SameSearch DEF Q!WellFormed
    <3>3. L!GetFirstElement(doc, el, "complexType") = L!Earliest(Called(doc, el, "complexType"))
      BY <3>2, FirstElement
    <3>4. PICK S : S = Called(doc, el, "complexType")
      OBVIOUS
    <3>5. S \cap S = S
      OBVIOUS
    <3>6. k \in S
      BY <2>2, <2>3, <3>2, <3>3, <3>4, <3>5, CalledNodes, SameSearch
    <3>7. k \in Q!Kind("complexType")
      BY <3>4, <3>6, SameSearch DEF Called, L!ChildrenOf, Q!Kind
    <3>8. /\ (phase' = "walk" /\ el' = 0) \/ (phase' \in {"lookup", "done"} /\ el' = el)
          /\ phase' = "lookup" => at' \in Q!Kind("schema") /\ at' = Home'
          /\ phase' # "done" => vec' = vec
          /\ Q!ParametersUnwrapped'
      BY <1>8, <3>1, <3>7
    <3> QED
      BY <1>1, <1>10, <2>1, <3>8
  <2>4. CASE k = 0
    <3>1. phase' = "done" /\ vec' = vec /\ el' = el
      BY <1>1, <1>19, <2>2, <2>4 DEF Q!UnfoldElement
    <3> QED
      BY <1>1, <1>7, <1>10, <2>1, <3>1
  <2> QED
    BY <2>3, <2>4
<1>20. CASE Q!UnfoldType
  <2>1. part' = part /\ el # 0 /\ doc.name[el] = "complexType" /\ Q!Unfold(el)
    BY <1>1, <1>20 DEF Q!UnfoldType, Q!Pass
  <2>2. el \in Q!Kind("complexType")
    BY <1>1, <2>1, SameSearch DEF Q!Kind
  <2>3. /\ (phase' = "walk" /\ el' = 0) \/ (phase' \in {"lookup", "done"} /\ el' = el)
        /\ phase' = "lookup" => at' \in Q!Kind("schema") /\ at' = Home'
        /\ phase' # "done" => vec' = vec
        /\ Q!ParametersUnwrapped'
    BY <1>8, <2>1, <2>2
  <2> QED
    BY <1>1, <1>10, <2>1, <2>3
<1>21. CASE Q!Circle
  <2>1. phase' = phase /\ phase = "walk" /\ part' = part /\ vec' = vec /\ el' = el
    BY <1>21 DEF Q!Circle, Q!Pass
  <2> QED
    BY <1>1, <1>7, <1>10, <2>1
<1>22. CASE Q!Leave
  <2>1. phase' = "done" /\ part' = part /\ vec' = vec /\ el' = el
    BY <1>22 DEF Q!Leave
  <2> QED
    BY <1>1, <1>7, <1>10, <2>1
<1> QED
  BY <1>11, <1>12, <1>14, <1>15, <1>16, <1>17, <1>18, <1>19, <1>20, <1>21, <1>22 DEF Q!Next

LEMMA QueryInit == Init => QueryInv
<1> SUFFICES ASSUME Init PROVE QueryInv
  OBVIOUS
<1>1. CASE reader = "query"
  <2>1. Q!Init
    BY <1>1 DEF Init
  <2>2. doc \in Wsdls /\ phase = "new" /\ part = 0 /\ el = 0 /\ vec = << >>
    BY <2>1, SameSearch DEF Q!Init
  <2> QED
    BY <1>1, <2>2 DEF QueryInv, Q!ParametersUnwrapped
<1>2. CASE reader # "query"
  <2>1. phase = "none"
    BY <1>2 DEF Init, NotQuerying
  <2> QED
    BY <1>2, <2>1 DEF QueryInv
<1> QED
  BY <1>1, <1>2

\* What a step leaves alone it keeps.
LEMMA QueryFrame == QueryInv /\ UNCHANGED <<reader, doc, query>> => QueryInv'
<1> SUFFICES ASSUME QueryInv, reader' = reader, doc' = doc, query' = query PROVE QueryInv'
  OBVIOUS
<1>1. /\ message' = message /\ phase' = phase /\ part' = part /\ vec' = vec /\ element' = element
      /\ el' = el /\ path' = path /\ sought' = sought /\ at' = at
  BY DEF query
<1>2. PartsAsked' = PartsAsked /\ L!NodesOf(doc)' = L!NodesOf(doc)
  BY <1>1 DEF PartsAsked, Called, L!ChildrenOf
<1>3. \A q : (Q!Kind(q))' = Q!Kind(q)
  BY DEF Q!Kind
<1>4. Home' = Home
  BY <1>1 DEF Home, Q!SchemasOf, Q!Kind
<1>5. (Q!Imported(doc, Home))' = Q!Imported(doc, Home)
  BY <1>4
<1>6. Q!ParametersUnwrapped' <=> Q!ParametersUnwrapped
  BY <1>1, <1>3 DEF Q!ParametersUnwrapped, Q!Called
<1> QED
  BY <1>1, <1>2, <1>3, <1>4, <1>5, <1>6 DEF QueryInv

LEMMA QueryNext ==
  QueryInv /\ [Next]_<<reader, doc, parse, loop, query, type, coded>> => QueryInv'
<1> SUFFICES ASSUME QueryInv, [Next]_<<reader, doc, parse, loop, query, type, coded>>
             PROVE  QueryInv'
  OBVIOUS
<1>1. CASE reader = "query" /\ Q!Next /\ reader' = reader
  BY <1>1, QueryStep, WsdlsAssumption
<1>2. CASE UNCHANGED <<reader, doc, query>>
  BY <1>2, QueryFrame
<1>3. CASE reader # "query" /\ UNCHANGED <<reader, query>>
  BY <1>3 DEF QueryInv, query
<1> QED
  BY <1>1, <1>2, <1>3 DEF Next

\* What GetMessageParameters returns are parts of the message, or all members of
\* one complex type and never a single reference: in every WSDL document, however
\* long the way from the message to the type.
THEOREM ReturnsParameters == Spec => []ParametersUnwrapped
<1>1. Init => QueryInv
  BY QueryInit
<1>2. QueryInv /\ [Next]_<<reader, doc, parse, loop, query, type, coded>> => QueryInv'
  BY QueryNext
<1>3. QueryInv => ParametersUnwrapped
  BY DEF QueryInv, ParametersUnwrapped, Q!ParametersUnwrapped
<1> QED
  BY <1>1, <1>2, <1>3, PTL DEF Spec

\* The element that a search ends with.
LEMMA SearchEnds ==
  QueryInv /\ [Next]_<<reader, doc, parse, loop, query, type, coded>> =>
    [phase = "lookup" /\ phase' = "walk" =>
       LET home == Q!Earliest(Q!SchemasOf(Q!Href(Q!GetNsMap(doc, Q!Root), Q!NS(sought))))
           Below(schema) == Q!Earliest({x \in Q!Kind("element") :
                                          doc.up[x] = schema /\ Q!Called(x, Q!Type(sought))})
       IN IF Q!Imported(doc, home) = Q!Nil THEN el' = Below(home)
          ELSE \E leaf \in Q!Kind("schema") : Q!Imported(doc, leaf) = Q!Nil /\ el' = Below(leaf)]_(Q!vars)
<1> SUFFICES ASSUME QueryInv, [Next]_<<reader, doc, parse, loop, query, type, coded>>,
                    phase = "lookup", phase' = "walk"
             PROVE  LET Below(schema) == Q!Earliest({x \in Q!Kind("element") :
                                            doc.up[x] = schema /\ Q!Called(x, Q!Type(sought))})
                    IN IF Q!Imported(doc, Home) = Q!Nil THEN el' = Below(Home)
                       ELSE \E leaf \in Q!Kind("schema") :
                              Q!Imported(doc, leaf) = Q!Nil /\ el' = Below(leaf)
  BY DEF Home
<1>1. /\ doc \in Wsdls /\ at \in Q!Kind("schema") /\ (at = Home \/ Q!Imported(doc, Home) # 0)
      /\ Q!Nil = 0 /\ reader = "query"
  BY SameSearch DEF QueryInv
<1>2. Q!Next
  BY <1>1 DEF Next, query
<1>3. Q!SearchElements
  BY <1>2 DEF Q!Next, Q!Begin, Q!ReadPart, Q!Choose, Q!SearchImport, Q!FollowRef, Q!FollowType,
              Q!UnfoldElement, Q!UnfoldType, Q!Circle, Q!Leave, Q!Pass
<1>4. Q!Imported(doc, at) = 0 /\ el' = Q!ElementBelow(doc, at, sought)
  BY <1>1, <1>3 DEF Q!SearchElements
<1>5. L!IsTree(doc) /\ 1 \in L!NodesOf(doc) /\ at \in L!NodesOf(doc)
  BY <1>1, SameSearch, WsdlsAssumption DEF Q!WellFormed, Q!Kind
<1>6. el' = Q!Earliest({x \in Q!Kind("element") : doc.up[x] = at /\ Q!Called(x, Q!Type(sought))})
  <2>1. PICK F : /\ Q!ElementBelow(doc, at, sought) = L!Earliest(Called(doc, at, "element") \cap F)
                 /\ F = {k \in L!NodesOf(doc) : Q!Name(doc, k) = Q!Type(sought)}
    BY <1>5, ElementFound
  <2>2. at # 0
    BY <1>5, TreeNodes
  <2>3. \A k : k \in Called(doc, at, "element") \cap F
                 <=> k \in Q!Kind("element") /\ doc.up[k] = at /\ Q!Called(k, Q!Type(sought))
    BY <2>1, <2>2, SameSearch DEF Called, L!ChildrenOf, L!Nil, Q!Kind, Q!Called
  <2>4. Called(doc, at, "element") \cap F
          = {x \in Q!Kind("element") : doc.up[x] = at /\ Q!Called(x, Q!Type(sought))}
    BY <2>3
  <2> QED
    BY <1>4, <2>1, <2>4, SameSearch
<1> QED
  BY <1>1, <1>4, <1>6

\* The search for the element of a qualified name finds that of the namespace its
\* prefix names, where no import leads away from the schema: in every document.
THEOREM FindsTheirElements == Spec => ElementsOfTheirNamespace
<1>1. Init => QueryInv
  BY QueryInit
<1>2. QueryInv /\ [Next]_<<reader, doc, parse, loop, query, type, coded>> => QueryInv'
  BY QueryNext
<1> QED
  BY <1>1, <1>2, SearchEnds, PTL DEF Spec, ElementsOfTheirNamespace, Q!ElementsOfTheirNamespace

-----------------------------------------------------------------------------
(* The references of TypeResolution.                                       *)

\* The lookups are those of the queries.
LEMMA SameLookups ==
  /\ T!Nil = 0 /\ T!Root = 1
  /\ \A d : T!IsTree(d) <=> L!IsTree(d)
  /\ \A d : T!NodesOf(d) = L!NodesOf(d)
  /\ \A d, h : T!GetSchema(d, h) = Q!GetSchema(d, h)
  /\ \A d, x, m : T!ElementBelow(d, x, m) = Q!ElementBelow(d, x, m)
  /\ \A d, x, v : T!GetProperty(d, x, v) = Q!GetProperty(d, x, v)
  /\ \A v : T!Type(v) = Q!Type(v)
  /\ \A d, x : T!Name(d, x) = Q!Name(d, x)
<1>1. T!Nil = 0 /\ T!Root = 1
  BY DEF T!Nil, T!Root
<1>2. \A d : T!NodesOf(d) = L!NodesOf(d)
  BY DEF T!NodesOf, L!NodesOf
<1>3. \A d : T!IsTree(d) <=> L!IsTree(d)
  <2>1. \A S : T!Earliest(S) = L!Earliest(S)
    BY DEF T!Earliest, L!Earliest, T!Nil, L!Nil
  <2>2. \A d, x : T!ChildrenOf(d, x) = L!ChildrenOf(d, x)
    BY DEF T!ChildrenOf, L!ChildrenOf, T!Nil, L!Nil, T!NodesOf, L!NodesOf
  <2> QED
    BY <1>2, <2>1, <2>2 DEF T!IsTree, L!IsTree
<1>4. \A d, x, v : T!GetProperty(d, x, v) = Q!GetProperty(d, x, v)
  BY DEF T!GetProperty, Q!GetProperty, T!PropertyExists, Q!PropertyExists, T!Nil, Q!Nil
<1>5. \A v : T!Type(v) = Q!Type(v)
  BY DEF T!Type, Q!Type
<1>6. \A d, x : T!Name(d, x) = Q!Name(d, x)
  BY <1>4, <1>5 DEF T!Name, Q!Name
<1>7. \A d, x, m : T!ElementBelow(d, x, m) = Q!ElementBelow(d, x, m)
  BY DEF T!ElementBelow, Q!ElementBelow, T!FirstThat, Q!FirstThat, T!Name, Q!Name, T!Type, Q!Type,
         T!GetProperty, Q!GetProperty, T!PropertyExists, Q!PropertyExists, T!Nil, Q!Nil,
         T!NodesOf, Q!NodesOf, T!GetNextElement, Q!GetNextElement, T!Sought, Q!Sought,
         T!GetNextNode, Q!GetNextNode, T!GetFirstElement, Q!GetFirstElement,
         T!GetChildrenNode, Q!GetChildrenNode
<1>8. \A d, h : T!GetSchema(d, h) = Q!GetSchema(d, h)
  BY DEF T!GetSchema, Q!GetSchema, T!FirstThat, Q!FirstThat, T!Type, Q!Type, T!Root, Q!Root,
         T!GetProperty, Q!GetProperty, T!PropertyExists, Q!PropertyExists, T!Nil, Q!Nil,
         T!NodesOf, Q!NodesOf, T!GetNextElement, Q!GetNextElement, T!Sought, Q!Sought,
         T!GetNextNode, Q!GetNextNode, T!GetFirstElement, Q!GetFirstElement,
         T!GetChildrenNode, Q!GetChildrenNode
<1> QED
  BY <1>1, <1>2, <1>3, <1>4, <1>5, <1>6, <1>7, <1>8

\* Of the schemas only the main one is ever found.
LEMMA OnlyRoot ==
  ASSUME T!WellFormed, doc \in Schemas, 1 \in L!NodesOf(doc)
  PROVE  /\ L!IsTree(doc) /\ doc.up[1] = 0 /\ doc.name[1] = "schema"
         /\ \A h : T!GetSchema(doc, h)
                     = IF T!Type(T!GetProperty(doc, 1, "targetNamespace")) = h THEN 1 ELSE 0
<1>1. /\ L!IsTree(doc)
      /\ \A k \in L!NodesOf(doc) : doc.name[k] = "schema" <=> doc.up[k] = 0
  BY SameLookups DEF T!WellFormed
<1>2. doc.up[1] = 0
  <2>1. doc.up[1] \in 0..(1 - 1)
    BY <1>1 DEF L!IsTree
  <2> QED
    BY <2>1
<1>3. doc.name[1] = "schema"
  BY <1>1, <1>2
<1>4. ASSUME NEW h
      PROVE  T!GetSchema(doc, h)
               = IF T!Type(T!GetProperty(doc, 1, "targetNamespace")) = h THEN 1 ELSE 0
  <2>1. PICK t : t = L!Earliest(Called(doc, 1, "types"))
    OBVIOUS
  <2>2. PICK hit : hit <=> T!Type(T!GetProperty(doc, 1, "targetNamespace")) = h
    OBVIOUS
  <2>3. IF hit THEN Q!GetSchema(doc, h) = 1
        ELSE \E F : Q!GetSchema(doc, h) = L!Earliest(Called(doc, t, "schema") \cap F)
    BY <1>1, <1>3, <2>1, <2>2, SchemaBelowTypes, SameLookups
  <2>4. Called(doc, t, "schema") = {}
    BY <1>1 DEF Called, L!ChildrenOf, L!Nil
  <2>5. \A F : L!Earliest(Called(doc, t, "schema") \cap F) = 0
    BY <2>4 DEF L!Earliest, L!Nil
  <2> QED
    BY <2>2, <2>3, <2>5, SameLookups
<1> QED
  BY <1>1, <1>2, <1>3, <1>4

\* No import of the main document leads to a schema there.
LEMMA RootImportsNone ==
  ASSUME T!WellFormed, doc \in Schemas, 1 \in L!NodesOf(doc)
  PROVE  T!Imported(doc, 1) = 0 /\ \A s : T!Imported(doc, s) \in {0, 1}
<1>1. /\ L!IsTree(doc)
      /\ \A h : T!GetSchema(doc, h)
                  = IF T!Type(T!GetProperty(doc, 1, "targetNamespace")) = h THEN 1 ELSE 0
  BY OnlyRoot
<1>2. \A s : T!Imported(doc, s) \in {0, 1}
  <2>1. \A s : T!Imported(doc, s) = 0 \/ \E h : T!Imported(doc, s) = T!GetSchema(doc, h)
    BY SameLookups DEF T!Imported
  <2> QED
    BY <1>1, <2>1
<1> DEFINE Leads(k) == T!GetSchema(doc, T!Type(T!GetProperty(doc, k, "namespace"))) # T!Nil
           F == {k \in L!NodesOf(doc) : Leads(k)}
           Is(g) == g = [k \in T!NodesOf(doc) \cup {T!Nil} |->
                           IF k = T!Nil \/ Leads(k) THEN k
                           ELSE g[T!GetNextElement(doc, k, "import")]]
           f == CHOOSE g : Is(g)
<1>3. T!Imported(doc, 1)
        = IF f[T!GetFirstElement(doc, 1, "import")] = T!Nil THEN T!Nil
          ELSE T!GetSchema(doc, T!Type(T!GetProperty(doc, f[T!GetFirstElement(doc, 1, "import")], "namespace")))
  BY DEF T!Imported, T!FirstThat
<1>4. /\ \A x, q : T!GetNextElement(doc, x, q) = L!GetNextElement(doc, x, q)
      /\ \A x, q : T!GetFirstElement(doc, x, q) = L!GetFirstElement(doc, x, q)
  BY DEF T!GetNextElement, L!GetNextElement, T!Sought, L!Sought, T!GetNextNode, L!GetNextNode,
         T!GetFirstElement, L!GetFirstElement, T!GetChildrenNode, L!GetChildrenNode,
         T!Nil, L!Nil, T!NodesOf, L!NodesOf
<1>5. \A g : Is(g) <=> StopsAt(doc, "import", F, g)
  BY <1>4, SameLookups DEF StopsAt
<1>6. Called(doc, 1, "import") \cap F = {}
  <2> SUFFICES ASSUME NEW k \in Called(doc, 1, "import") PROVE ~Leads(k)
    OBVIOUS
  <2>1. k \in L!NodesOf(doc) /\ doc.name[k] = "import" /\ doc.up[k] = 1
    BY DEF Called, L!ChildrenOf
  <2>2. T!Type(T!GetProperty(doc, k, "namespace")) # T!Type(T!GetProperty(doc, 1, "targetNamespace"))
    BY <2>1, SameLookups DEF T!WellFormed
  <2> QED
    BY <1>1, <2>2, SameLookups
<1>7. "import" # "text" /\ 1 \in L!NodesOf(doc) \cup {0}
  OBVIOUS
<1> HIDE DEF Is, f, F
<1>8. StopsAt(doc, "import", F, f)
  <2>1. \E g : StopsAt(doc, "import", F, g)
    BY <1>1, <1>7, LoopStops
  <2>2. Is(f)
    BY <1>5, <2>1 DEF f
  <2> QED
    BY <1>5, <2>2
<1>9. f[L!GetFirstElement(doc, 1, "import")] = 0
  <2>1. \A g : StopsAt(doc, "import", F, g) =>
          \A y \in L!NodesOf(doc) \cup {0} :
            g[L!GetFirstElement(doc, y, "import")] = L!Earliest(Called(doc, y, "import") \cap F)
    BY <1>1, <1>7, LoopStops
  <2>2. f[L!GetFirstElement(doc, 1, "import")] = L!Earliest(Called(doc, 1, "import") \cap F)
    BY <1>7, <1>8, <2>1
  <2> QED
    BY <1>6, <2>2 DEF L!Earliest, L!Nil
<1> QED
  BY <1>2, <1>3, <1>4, <1>9, SameLookups

\* GetElement finds a global element of the main document, if the name is in its
\* namespace as the root reads the prefix, and nothing otherwise.
LEMMA GlobalFound ==
  ASSUME T!WellFormed, doc \in Schemas, 1 \in L!NodesOf(doc), NEW value
  PROVE  T!GetElement(doc, value)
           = IF T!Type(T!GetProperty(doc, 1, "targetNamespace"))
                  = T!Href(T!GetNsMap(doc, 1), T!NS(value))
             THEN T!ElementBelow(doc, 1, value) ELSE 0
<1>1. T!Imported(doc, 1) = 0 /\ \A s : T!Imported(doc, s) \in {0, 1}
  BY RootImportsNone
<1> DEFINE Is(g) == g = [s \in T!NodesOf(doc) |->
                           IF T!Imported(doc, s) # T!Nil THEN g[T!Imported(doc, s)]
                           ELSE T!ElementBelow(doc, s, value)]
           f == CHOOSE g : Is(g)
<1>2. PICK h : h = T!Href(T!GetNsMap(doc, 1), T!NS(value))
  OBVIOUS
<1>3. T!GetElement(doc, value)
        = IF T!GetSchema(doc, h) = T!Nil THEN T!Nil ELSE f[T!GetSchema(doc, h)]
  BY <1>2, SameLookups DEF T!GetElement
<1>4. T!NodesOf(doc) = L!NodesOf(doc) /\ T!Nil = 0
  BY SameLookups
<1>5. \A g : Is(g) => g[1] = T!ElementBelow(doc, 1, value)
  BY <1>1, <1>4
<1>6. \E g : Is(g)
  <2>1. PICK g : g = [s \in T!NodesOf(doc) |->
                        IF T!Imported(doc, s) # T!Nil THEN T!ElementBelow(doc, 1, value)
                        ELSE T!ElementBelow(doc, s, value)]
    OBVIOUS
  <2>2. g[1] = T!ElementBelow(doc, 1, value)
    BY <1>1, <1>4, <2>1
  <2>3. \A s : T!Imported(doc, s) # T!Nil => g[T!Imported(doc, s)] = T!ElementBelow(doc, 1, value)
    BY <1>1, <1>4, <2>2
  <2>4. Is(g)
    BY <2>1, <2>3
  <2> QED
    BY <2>4
<1> HIDE DEF Is
<1>7. Is(f)
  BY <1>6
<1> HIDE DEF f
<1>8. f[1] = T!ElementBelow(doc, 1, value)
  BY <1>5, <1>7
<1>9. T!GetSchema(doc, h) = IF T!Type(T!GetProperty(doc, 1, "targetNamespace")) = h THEN 1 ELSE 0
  BY OnlyRoot
<1> QED
  BY <1>2, <1>3, <1>4, <1>8, <1>9

\* A global element of the main document is in its namespace.
LEMMA GlobalTarget ==
  ASSUME T!WellFormed, doc \in Schemas, 1 \in L!NodesOf(doc),
         NEW g \in L!NodesOf(doc), doc.up[g] = 1
  PROVE  T!TargetNamespace(doc, g) = T!Type(T!GetProperty(doc, 1, "targetNamespace"))
<1>1. /\ T!IsTree(doc) /\ g \in T!NodesOf(doc) /\ 1 \in T!NodesOf(doc)
      /\ doc.up[1] = 0 /\ doc.name[1] = "schema"
      /\ "targetNamespace" \in DOMAIN doc.attr[1]
  BY OnlyRoot, SameLookups DEF T!WellFormed
<1>2. PICK r \in T!Path(doc, g) :
        /\ \A k \in T!Path(doc, g) : doc.name[k] = "schema" <=> k = r
        /\ T!FindProperty(doc, g, "targetNamespace").value = doc.attr[r]["targetNamespace"]
  BY <1>1, InOneSchema
<1>3. T!Path(doc, g) = {g} \cup T!Path(doc, 1) /\ T!Path(doc, 1) = {1} \cup T!Path(doc, 0)
  BY <1>1, PathUp
<1>4. r = 1
  BY <1>1, <1>2, <1>3
<1>5. (CHOOSE k \in T!Path(doc, g) : doc.name[k] = "schema") = r
  BY <1>2
<1>6. T!TargetNamespace(doc, g) = T!Type(doc.attr[1]["targetNamespace"])
  BY <1>4, <1>5 DEF T!TargetNamespace
<1>7. T!GetProperty(doc, 1, "targetNamespace") = doc.attr[1]["targetNamespace"]
  BY <1>1, SameLookups DEF T!GetProperty, T!PropertyExists
<1> QED
  BY <1>6, <1>7

\* A type is read at a node as at another where both read it at the root.
LEMMA ReadAlike ==
  ASSUME T!WellFormed, doc \in Schemas, NEW x \in T!NodesOf(doc), NEW y \in T!NodesOf(doc),
         NEW value, T!ReadAtRoot(x, value), T!ReadAtRoot(y, value)
  PROVE  T!HrefInScope(x, value) = T!HrefInScope(y, value)
<1>1. /\ T!Readable(x, value) /\ T!GetNsMap(doc, x) = T!GetNsMap(doc, T!Root)
      /\ T!Readable(y, value) /\ T!GetNsMap(doc, y) = T!GetNsMap(doc, T!Root)
  BY DEF T!ReadAtRoot
<1>2. T!Href(T!GetNsMap(doc, x), T!NS(value)) = T!HrefInScope(x, value)
  BY <1>1, ReadsPrefix
<1>3. T!Href(T!GetNsMap(doc, y), T!NS(value)) = T!HrefInScope(y, value)
  BY <1>1, ReadsPrefix
<1> QED
  BY <1>1, <1>2, <1>3

\* The name ref leads to an element: the object has a type, or the main document
\* has the element that is meant.
Leads(ref) ==
  \/ object.type # ""
  \/ \E g \in T!Nodes("element") : /\ T!TargetNamespace(doc, g) = T!HrefInScope(node, ref)
                                   /\ T!Name(doc, g) = T!Type(ref)
                                   /\ doc.up[g] = T!Root

\* An element that refers to another has the type of that element.
LEMMA ReferenceRead ==
  ASSUME T!WellFormed, reader = "type", TypeInv, NEW ref, ref = T!GetProperty(doc, node, "ref"),
         kind = "element", ~T!PropertyExists(doc, node, "type"), ref # << >>,
         T!ReadAtRoot(node, ref), Leads(ref)
  PROVE  \E g \in T!Nodes("element") :
           /\ doc.up[g] = T!Root
           /\ T!TargetNamespace(doc, g) = T!HrefInScope(node, ref) /\ T!Name(doc, g) = T!Type(ref)
           /\ T!ReadAtRoot(g, T!GetProperty(doc, g, "type"))
                /\ T!ReadAtRoot(node, T!GetProperty(doc, g, "type")) =>
                /\ object.href = T!HrefInScope(g, T!GetProperty(doc, g, "type"))
                /\ object.type = T!Type(T!GetProperty(doc, g, "type"))
<1>1. doc \in Schemas
  BY DEF TypeInv
<1>2. PICK o, declared, extends :
        /\ node \in T!NodesOf(doc) /\ Makes(node, kind, o, declared, extends)
        /\ object = [o EXCEPT !.base = declared, !.extends = extends]
  BY DEF TypeInv
<1>3. DOMAIN o = Fields
  BY <1>2, MadeFields
<1>4. object.href = o.href /\ object.type = o.type
  BY <1>2, <1>3 DEF Fields
<1>5. /\ L!IsTree(doc) /\ 1 \in L!NodesOf(doc) /\ L!NodesOf(doc) = T!NodesOf(doc)
      /\ T!Root = 1 /\ T!Nil = 0
  <2>1. L!IsTree(doc) /\ node \in L!NodesOf(doc)
    BY <1>1, <1>2, SameLookups DEF T!WellFormed
  <2>2. L!NodesOf(doc) = 1..Len(doc.name) /\ Len(doc.name) \in Nat
    BY <2>1, TreeNodes
  <2>3. PICK n \in Nat : n = Len(doc.name)
    BY <2>2
  <2>4. node \in 1..n /\ L!NodesOf(doc) = 1..n
    BY <2>1, <2>2, <2>3
  <2>5. 1 \in 1..n
    BY <2>3, <2>4
  <2> QED
    BY <2>1, <2>4, <2>5, SameLookups
<1>7. PICK h, target : /\ h = T!HrefInScope(node, ref)
                       /\ target = T!Type(T!GetProperty(doc, 1, "targetNamespace"))
  OBVIOUS
<1>8. T!Href(T!GetNsMap(doc, 1), T!NS(ref)) = h
  <2>1. T!Readable(node, ref) /\ T!GetNsMap(doc, node) = T!GetNsMap(doc, 1)
    BY <1>5 DEF T!ReadAtRoot
  <2> QED
    BY <1>1, <1>2, <1>7, <2>1, ReadsPrefix
<1>9. T!GetElement(doc, ref) = IF target = h THEN T!ElementBelow(doc, 1, ref) ELSE 0
  BY <1>1, <1>5, <1>7, <1>8, GlobalFound
<1>10. PICK g : g = T!GetElement(doc, ref)
  OBVIOUS
<1>11. PICK F : /\ T!ElementBelow(doc, 1, ref) = L!Earliest(Called(doc, 1, "element") \cap F)
                /\ F = {k \in L!NodesOf(doc) : T!Name(doc, k) = T!Type(ref)}
  <2>1. 1 \in L!NodesOf(doc) \cup {0}
    BY <1>5
  <2>2. PICK F : /\ Q!ElementBelow(doc, 1, ref) = L!Earliest(Called(doc, 1, "element") \cap F)
                 /\ F = {k \in L!NodesOf(doc) : Q!Name(doc, k) = Q!Type(ref)}
    BY <1>5, <2>1, ElementFound
  <2>3. {k \in L!NodesOf(doc) : Q!Name(doc, k) = Q!Type(ref)}
          = {k \in L!NodesOf(doc) : T!Name(doc, k) = T!Type(ref)}
    BY SameLookups
  <2>4. T!ElementBelow(doc, 1, ref) = Q!ElementBelow(doc, 1, ref)
    BY SameLookups
  <2> QED
    BY <2>2, <2>3, <2>4
<1>12. \A k \in L!NodesOf(doc) : doc.up[k] = 1 => T!TargetNamespace(doc, k) = target
  BY <1>1, <1>5, <1>7, GlobalTarget
<1>13. PICK t : t = T!GetProperty(doc, g, "type")
  OBVIOUS
<1>14. PICK href : href = T!Target(doc, node)
  OBVIOUS
<1>15. o = IF T!PropertyExists(doc, g, "type") THEN T!SetType(doc, node, T!Untyped(href), t)
           ELSE T!Untyped(href)
  <2>1. o \in T!Element(doc, node, href)
    BY <1>2, <1>14 DEF Makes
  <2>2. T!PropertyExists(doc, node, "ref")
    BY DEF T!GetProperty
  <2> QED
    BY <1>10, <1>13, <2>1, <2>2 DEF T!Element
<1>16. g # 0
  <2>1. CASE object.type # ""
    <3>1. T!PropertyExists(doc, g, "type")
      BY <1>4, <1>15, <2>1 DEF T!Untyped
    <3> QED
      BY <1>5, <3>1 DEF T!PropertyExists
  <2>2. CASE \E k \in T!Nodes("element") : /\ T!TargetNamespace(doc, k) = h
                                           /\ T!Name(doc, k) = T!Type(ref)
                                           /\ doc.up[k] = 1
    <3>1. PICK k \in T!Nodes("element") : /\ T!TargetNamespace(doc, k) = h
                                          /\ T!Name(doc, k) = T!Type(ref)
                                          /\ doc.up[k] = 1
      BY <2>2
    <3>2. k \in L!NodesOf(doc) /\ doc.name[k] = "element"
      BY <1>5 DEF T!Nodes
    <3>3. target = h
      BY <1>12, <3>1, <3>2
    <3>4. k \in Called(doc, 1, "element") \cap F
      <4>1. k \in Called(doc, 1, "element")
        BY <3>1, <3>2 DEF Called, L!ChildrenOf, L!Nil
      <4>2. k \in F
        BY <1>11, <3>1, <3>2
      <4> QED
        BY <4>1, <4>2
    <3>5. Called(doc, 1, "element") \cap F \subseteq Nat \ {0}
      <4>1. L!NodesOf(doc) \subseteq Nat \ {0}
        BY <1>5, TreeNodes
      <4> QED
        BY <4>1 DEF Called, L!ChildrenOf
    <3>6. L!Earliest(Called(doc, 1, "element") \cap F) \in Nat \ {0}
      BY <3>4, <3>5, EarliestLeast
    <3> QED
      BY <1>9, <1>10, <1>11, <3>3, <3>6
  <2> QED
    BY <1>5, <1>7, <2>1, <2>2 DEF Leads
<1>17. /\ g \in T!Nodes("element") /\ doc.up[g] = 1 /\ g \in L!NodesOf(doc)
       /\ T!Name(doc, g) = T!Type(ref) /\ target = h
  <2>1. target = h /\ g = L!Earliest(Called(doc, 1, "element") \cap F)
    BY <1>9, <1>10, <1>11, <1>16
  <2>2. g \in Called(doc, 1, "element") /\ g \in F
    BY <1>5, <1>16, <2>1, CalledNodes
  <2> QED
    BY <1>5, <1>11, <2>1, <2>2 DEF Called, L!ChildrenOf, T!Nodes
<1>18. T!TargetNamespace(doc, g) = h
  BY <1>12, <1>17
<1>19. ASSUME T!ReadAtRoot(g, t), T!ReadAtRoot(node, t)
       PROVE  object.href = T!HrefInScope(g, t) /\ object.type = T!Type(t)
  <2>1. T!HrefInScope(g, t) = T!HrefInScope(node, t)
    BY <1>1, <1>2, <1>5, <1>17, <1>19, ReadAlike
  <2>2. T!Readable(node, t)
    BY <1>19 DEF T!ReadAtRoot
  <2>3. CASE T!PropertyExists(doc, g, "type")
    <3>1. DOMAIN T!Untyped(href) = Fields
      BY ObjectFields
    <3>2. PICK u : u = T!Untyped(href)
      OBVIOUS
    <3>3. o = T!SetType(doc, node, u, t)
      BY <1>15, <2>3, <3>2
    <3>4. o.href = T!HrefInScope(node, t) /\ o.type = T!Type(t)
      BY <1>1, <1>2, <2>2, <3>1, <3>2, <3>3, SetTypeReads
    <3> QED
      BY <1>4, <2>1, <3>4
  <2>4. CASE ~T!PropertyExists(doc, g, "type")
    <3>1. t = << >> /\ o = T!Untyped(href)
      BY <1>13, <1>15, <2>4 DEF T!GetProperty
    <3>2. o.href = href /\ o.type = ""
      BY <3>1 DEF T!Untyped
    <3>3. T!NS(t) = "" /\ T!Type(t) = ""
      <4>1. Len(<< >>) = 0
        OBVIOUS
      <4> QED
        BY <3>1, <4>1 DEF T!NS, T!Type
    <3>4. T!HrefOf(doc, node, t) = T!HrefInScope(node, t)
      BY <1>1, <1>2, <2>2, ReadsPrefix
    <3>5. T!HrefOf(doc, node, t) = href
      BY <1>14, <3>3 DEF T!HrefOf
    <3> QED
      BY <1>4, <2>1, <3>2, <3>3, <3>4, <3>5
  <2> QED
    BY <2>3, <2>4
<1> QED
  BY <1>5, <1>7, <1>13, <1>17, <1>18, <1>19

\* An element that refers to a global element is given the type of that element,
\* read by the same prefixes, and one that refers out of the main document none:
\* in every schema and the documents it imports.
THEOREM RefersToItsOwn == Spec => []RefsNeverMistaken
<1>1. Init => TypeInv
  BY TypeInit
<1>2. TypeInv /\ [Next]_<<reader, doc, parse, loop, query, type, coded>> => TypeInv'
  BY TypeNext
<1>3. TypeInv => RefsNeverMistaken
  BY SchemasAssumption, ReferenceRead DEF RefsNeverMistaken, T!RefsNeverMistaken, Leads
<1> QED
  BY <1>1, <1>2, <1>3, PTL DEF Spec

-----------------------------------------------------------------------------
(* Classes in classes, and elements that have one of their own.            *)

\* What is on the way from a node on the way is on the way.
LEMMA PathsShrink ==
  ASSUME T!IsTree(doc)
  PROVE  \A x \in T!NodesOf(doc) : \A k \in T!Path(doc, x) :
           k <= x /\ T!Path(doc, k) \subseteq T!Path(doc, x)
<1> DEFINE Good(x) == \A k \in T!Path(doc, x) : k <= x /\ T!Path(doc, k) \subseteq T!Path(doc, x)
           Bad == {x \in T!NodesOf(doc) : ~Good(x)}
<1> SUFFICES ASSUME Bad # {} PROVE FALSE
  BY Zenon
<1>0. T!NodesOf(doc) \subseteq Nat
  BY ForestNodes
<1>1. Bad \subseteq Nat
  BY <1>0
<1> HIDE DEF Bad
<1>2. PICK x \in Bad : \A y \in Bad : x <= y
  BY <1>1, LeastNatural
<1> USE DEF Bad
<1>3. x \in T!NodesOf(doc) /\ ~Good(x) /\ T!Path(doc, x) = {x} \cup T!Path(doc, doc.up[x])
  BY <1>2, PathUp
<1>4. CASE doc.up[x] = 0
  <2>1. T!Path(doc, x) = {x}
    BY <1>3, <1>4, PathUp
  <2> QED
    BY <1>0, <1>3, <2>1
<1>5. CASE doc.up[x] # 0
  <2>1. doc.up[x] \in T!NodesOf(doc) /\ doc.up[x] < x
    BY <1>3, <1>5, ForestNodes
  <2>2. Good(doc.up[x])
    BY <1>0, <1>2, <1>3, <2>1
  <2>3. ASSUME NEW k \in T!Path(doc, x) PROVE k <= x /\ T!Path(doc, k) \subseteq T!Path(doc, x)
    <3>1. CASE k = x
      BY <1>0, <1>3, <3>1
    <3>2. CASE k \in T!Path(doc, doc.up[x])
      <4>1. k <= doc.up[x] /\ T!Path(doc, k) \subseteq T!Path(doc, doc.up[x])
        BY <2>2, <3>2
      <4>2. k \in T!NodesOf(doc)
        BY <2>1, <3>2, PathUp
      <4> QED
        BY <1>0, <1>3, <2>1, <4>1, <4>2
    <3> QED
      BY <1>3, <3>1, <3>2
  <2> QED
    BY <1>3, <2>3
<1> QED
  BY <1>4, <1>5

\* A node is in the namespace of every node on its way, and the code reads it.
LEMMA TargetRead ==
  ASSUME T!WellFormed, doc \in Schemas, NEW x \in T!NodesOf(doc)
  PROVE  /\ \A k \in T!Path(doc, x) : T!TargetNamespace(doc, k) = T!TargetNamespace(doc, x)
         /\ T!TargetNamespace(doc, x) # "" => T!Target(doc, x) = T!TargetNamespace(doc, x)
<1>0. T!IsTree(doc)
  BY DEF T!WellFormed
<1>1. ASSUME NEW y \in T!NodesOf(doc)
      PROVE  \E r \in T!Path(doc, y) :
               /\ \A k \in T!Path(doc, y) : doc.name[k] = "schema" <=> k = r
               /\ T!FindProperty(doc, y, "targetNamespace").value = doc.attr[r]["targetNamespace"]
               /\ T!TargetNamespace(doc, y) = T!Type(doc.attr[r]["targetNamespace"])
  <2>1. PICK r \in T!Path(doc, y) :
          /\ \A k \in T!Path(doc, y) : doc.name[k] = "schema" <=> k = r
          /\ T!FindProperty(doc, y, "targetNamespace").value = doc.attr[r]["targetNamespace"]
    BY InOneSchema
  <2>2. (CHOOSE k \in T!Path(doc, y) : doc.name[k] = "schema") = r
    BY <2>1
  <2>3. T!TargetNamespace(doc, y) = T!Type(doc.attr[r]["targetNamespace"])
    BY <2>2 DEF T!TargetNamespace
  <2> QED
    BY <2>1, <2>3
<1>2. PICK r \in T!Path(doc, x) :
        /\ \A k \in T!Path(doc, x) : doc.name[k] = "schema" <=> k = r
        /\ T!FindProperty(doc, x, "targetNamespace").value = doc.attr[r]["targetNamespace"]
        /\ T!TargetNamespace(doc, x) = T!Type(doc.attr[r]["targetNamespace"])
  BY <1>1
<1>3. ASSUME NEW k \in T!Path(doc, x) PROVE T!TargetNamespace(doc, k) = T!TargetNamespace(doc, x)
  <2>1. k \in T!NodesOf(doc) /\ T!Path(doc, k) \subseteq T!Path(doc, x)
    BY <1>0, PathUp, PathsShrink
  <2>2. PICK s \in T!Path(doc, k) :
          /\ \A j \in T!Path(doc, k) : doc.name[j] = "schema" <=> j = s
          /\ T!TargetNamespace(doc, k) = T!Type(doc.attr[s]["targetNamespace"])
    BY <1>1, <2>1
  <2>3. s = r
    BY <1>2, <2>1, <2>2
  <2> QED
    BY <1>2, <2>2, <2>3
<1>4. T!TargetNamespace(doc, x) # "" => T!Target(doc, x) = T!TargetNamespace(doc, x)
  BY <1>2 DEF T!Target
<1> QED
  BY <1>3, <1>4

ClassNodes == {k \in T!NodesOf(doc) : doc.name[k] = "complexType"}

\* The classes around a node are those around its parent, and itself if it is one.
LEMMA ClassesUp ==
  ASSUME T!IsTree(doc)
  PROVE  /\ T!Classes(0) = << >>
         /\ \A k \in T!NodesOf(doc) :
              T!Classes(k) = IF k \in ClassNodes
                             THEN Append(T!Classes(doc.up[k]), CName1up[T!TypeName(doc, k)])
                             ELSE T!Classes(doc.up[k])
<1>1. PICK n \in Nat : n = Len(doc.name)
  BY ForestNodes
<1>2. T!NodesOf(doc) = 1..n /\ T!NodesOf(doc) \cup {0} = 0..n /\ Roots(n, doc.up)
  BY <1>1, ForestNodes
<1> DEFINE Own(k) == CName1up[T!TypeName(doc, k)]
           Is(f) == f = [k \in T!NodesOf(doc) \cup {0} |->
                           IF k = 0 THEN << >>
                           ELSE IF doc.name[k] # "complexType" THEN f[doc.up[k]]
                           ELSE Append(f[doc.up[k]], Own(k))]
           way == CHOOSE f : Is(f)
<1>3. \A x : T!Classes(x) = way[x]
  BY DEF T!Classes, T!Nil
<1> HIDE DEF Own
<1>4. \E f : Is(f)
  <2> DEFINE W == {Own(k) : k \in 1..n}
             V == Seq(W)
             After(k, v) == IF doc.name[k] # "complexType" THEN v ELSE Append(v, Own(k))
  <2>1. \A k \in 1..n : \A v \in V : After(k, v) \in V
    <3> SUFFICES ASSUME NEW k \in 1..n, NEW v \in Seq(W) PROVE After(k, v) \in Seq(W)
      OBVIOUS
    <3>1. Own(k) \in W
      OBVIOUS
    <3> HIDE DEF W
    <3>2. Append(v, Own(k)) \in Seq(W)
      BY <3>1
    <3> QED
      BY <3>2
  <2>2. << >> \in V
    OBVIOUS
  <2>3. PICK next : next = [k \in 1..n |-> [v \in V |-> After(k, v)]]
    OBVIOUS
  <2> HIDE DEF V, After
  <2>4. next \in [1..n -> [V -> V]]
    BY <2>1, <2>3
  <2>5. PICK f : Climb(n, doc.up, V, << >>, next, f)
    BY <1>2, <2>2, <2>4, ClimbExists
  <2>6. \A k \in 1..n : f[k] = After(k, f[doc.up[k]])
    <3>1. \A k \in 1..n : doc.up[k] \in 0..n
      BY <1>2 DEF Roots
    <3> QED
      BY <2>3, <2>5, <3>1 DEF Climb
  <2>7. \A k \in 0..n : f[k] = IF k = 0 THEN << >>
                               ELSE IF doc.name[k] # "complexType" THEN f[doc.up[k]]
                               ELSE Append(f[doc.up[k]], Own(k))
    <3> SUFFICES ASSUME NEW k \in 0..n
                 PROVE  f[k] = IF k = 0 THEN << >>
                               ELSE IF doc.name[k] # "complexType" THEN f[doc.up[k]]
                               ELSE Append(f[doc.up[k]], Own(k))
      OBVIOUS
    <3>1. CASE k = 0
      BY <2>5, <3>1 DEF Climb
    <3>2. CASE k # 0
      <4>1. k \in 1..n
        BY <3>2
      <4> QED
        BY <2>6, <3>2, <4>1, Zenon DEF After
    <3> QED
      BY <3>1, <3>2
  <2>8. DOMAIN f = 0..n /\ f = [k \in DOMAIN f |-> f[k]]
    BY <2>5 DEF Climb
  <2>9. Is(f)
    BY <1>2, <2>7, <2>8, Zenon
  <2> HIDE DEF Is
  <2> QED
    BY <2>9, Zenon
<1>5. Is(way)
  <2> HIDE DEF Is
  <2> QED
    BY <1>4, Zenon
<1> HIDE DEF way
<1>6. way[0] = << >>
  <2>1. 0 \in 0..n
    OBVIOUS
  <2> QED
    BY <1>2, <1>5, <2>1
<1>7. ASSUME NEW k \in 1..n
      PROVE  way[k] = IF doc.name[k] # "complexType" THEN way[doc.up[k]]
                      ELSE Append(way[doc.up[k]], Own(k))
  <2>1. k \in 0..n /\ k # 0
    OBVIOUS
  <2> QED
    BY <1>2, <1>5, <2>1, Zenon
<1> HIDE DEF Is
<1>8. \A k \in 1..n : k \in ClassNodes <=> doc.name[k] = "complexType"
  BY <1>2 DEF ClassNodes
<1> QED
  BY <1>2, <1>3, <1>6, <1>7, <1>8 DEF Own

\* The nearest class on the way from a node is around it in all its classes.
LEMMA ClassesAbove ==
  ASSUME T!IsTree(doc)
  PROVE  \A x \in T!NodesOf(doc) \cup {0} :
           /\ T!Path(doc, x) \cap ClassNodes = {} => T!Classes(x) = << >>
           /\ \A m \in T!Path(doc, x) \cap ClassNodes :
                (\A j \in T!Path(doc, x) \cap ClassNodes : j <= m) => T!Classes(x) = T!Classes(m)
<1> DEFINE On(x) == T!Path(doc, x) \cap ClassNodes
           Good(x) == /\ On(x) = {} => T!Classes(x) = << >>
                      /\ \A m \in On(x) : (\A j \in On(x) : j <= m) => T!Classes(x) = T!Classes(m)
           Bad == {x \in T!NodesOf(doc) : ~Good(x)}
<1>0. T!NodesOf(doc) \subseteq Nat
  BY ForestNodes
<1>1. Good(0)
  BY PathUp, ClassesUp
<1>2. Bad = {}
  <2> SUFFICES ASSUME Bad # {} PROVE FALSE
    OBVIOUS
  <2>1. Bad \subseteq Nat
    BY <1>0
  <2> HIDE DEF Bad
  <2>2. PICK x \in Bad : \A y \in Bad : x <= y
    BY <2>1, LeastNatural
  <2> USE DEF Bad
  <2>3. x \in T!NodesOf(doc) /\ ~Good(x) /\ T!Path(doc, x) = {x} \cup T!Path(doc, doc.up[x])
    BY <2>2, PathUp
  <2>4. Good(doc.up[x])
    <3>1. doc.up[x] \in T!NodesOf(doc) \cup {0} /\ doc.up[x] < x
      BY <2>3, ForestNodes
    <3>2. doc.up[x] \notin Bad
      <4> HIDE DEF Bad, Good
      <4> QED
        BY <1>0, <2>2, <2>3, <3>1
    <3> HIDE DEF Good
    <3> QED
      BY <1>1, <3>1, <3>2
  <2>5. CASE x \in ClassNodes
    <3>1. x \in On(x) /\ x \in Nat
      BY <1>0, <2>3, <2>5
    <3>2. \A m \in On(x) : (\A j \in On(x) : j <= m) => m = x
      <4>1. \A m \in On(x) : m <= x /\ m \in Nat
        BY <1>0, <2>3, PathsShrink DEF ClassNodes
      <4> HIDE DEF On
      <4> QED
        BY <3>1, <4>1
    <3> QED
      BY <2>3, <3>1, <3>2
  <2>6. CASE x \notin ClassNodes
    <3>1. On(x) = On(doc.up[x])
      BY <2>3, <2>6
    <3>2. T!Classes(x) = T!Classes(doc.up[x])
      BY <2>3, <2>6, ClassesUp
    <3> HIDE DEF On
    <3> QED
      BY <2>3, <2>4, <3>1, <3>2
  <2> QED
    BY <2>5, <2>6
<1> HIDE DEF Good
<1>3. \A x \in T!NodesOf(doc) \cup {0} : Good(x)
  BY <1>1, <1>2
<1> QED
  BY <1>3 DEF Good

\* What the registry has of class e: the class around it in the tree.
Around(h, e) ==
  /\ T!TypeName(doc, e) \in DOMAIN CName1up \ {""}
  /\ T!Classes(e) = Append(T!Classes(doc.up[e]), CName1up[T!TypeName(doc, e)])
  /\ \/ T!GetParent(doc, h, T!TypeName(doc, e)) = "" /\ T!Classes(doc.up[e]) = << >>
     \/ \E a \in ClassNodes :
          /\ a < e /\ T!TargetNamespace(doc, a) = h
          /\ T!GetParent(doc, h, T!TypeName(doc, e)) = T!TypeName(doc, a) /\ T!TypeName(doc, a) # ""
          /\ T!Classes(doc.up[e]) = T!Classes(a)

LEMMA ClassIsAround ==
  ASSUME T!WellFormed, doc \in Schemas, NEW e \in ClassNodes
  PROVE  Around(T!TargetNamespace(doc, e), e)
<1> DEFINE h == T!TargetNamespace(doc, e)
           on == {k \in T!Path(doc, doc.up[e]) : doc.name[k] = "complexType"}
<1>1. T!IsTree(doc) /\ T!ClassesKnown(doc)
  BY DEF T!WellFormed
<1>2. e \in T!NodesOf(doc) /\ doc.up[e] \in T!NodesOf(doc) \cup {0} /\ doc.up[e] < e
      /\ T!NodesOf(doc) \subseteq Nat
  BY <1>1, ForestNodes DEF ClassNodes
<1>3. /\ T!TypeName(doc, e) \in DOMAIN CName1up \ {""}
      /\ T!GetParent(doc, h, T!TypeName(doc, e))
           = IF T!ClassAround(doc, e) = 0 THEN "" ELSE T!TypeName(doc, T!ClassAround(doc, e))
  BY <1>1, Zenon DEF T!ClassesKnown, ClassNodes, T!Nil
<1>4. \A a \in ClassNodes : T!TypeName(doc, a) # ""
  BY <1>1, Zenon DEF T!ClassesKnown, ClassNodes
<1>5. T!Classes(e) = Append(T!Classes(doc.up[e]), CName1up[T!TypeName(doc, e)])
  BY <1>1, <1>2, ClassesUp
<1>6. T!Path(doc, doc.up[e]) \subseteq T!NodesOf(doc) /\ T!Path(doc, doc.up[e]) \subseteq T!Path(doc, e)
  BY <1>1, <1>2, PathUp
<1>7. on = T!Path(doc, doc.up[e]) \cap ClassNodes
  BY <1>6 DEF ClassNodes
<1>8. T!ClassAround(doc, e) = IF on = {} THEN 0 ELSE CHOOSE k \in on : \A j \in on : j <= k
  BY DEF T!ClassAround, T!Nil
<1> HIDE DEF h, on
<1>9. CASE on = {}
  <2>1. T!GetParent(doc, h, T!TypeName(doc, e)) = ""
    BY <1>3, <1>8, <1>9
  <2>2. T!Classes(doc.up[e]) = << >>
    BY <1>1, <1>2, <1>7, <1>9, ClassesAbove
  <2> QED
    BY <1>3, <1>5, <2>1, <2>2 DEF Around, h
<1>10. CASE on # {}
  <2>1. \A k \in on : k \in Nat /\ k <= e
    <3>1. \A k \in on : k \in T!Path(doc, e) /\ k \in T!NodesOf(doc)
      BY <1>6, <1>7
    <3> QED
      BY <1>1, <1>2, <3>1, PathsShrink
  <2>2. PICK a \in on : \A j \in on : j <= a
    <3>1. PICK b : b \in on
      BY <1>10
    <3>2. e \in Nat /\ on \subseteq 0..e /\ on # {}
      BY <1>2, <2>1, <3>1
    <3> QED
      BY <3>2, GreatestNatural
  <2>3. T!ClassAround(doc, e) = a
    <3>1. \A k \in on : (\A j \in on : j <= k) => k = a
      BY <2>1, <2>2
    <3>2. (CHOOSE k \in on : \A j \in on : j <= k) = a
      BY <2>2, <3>1
    <3> QED
      BY <1>8, <1>10, <3>2
  <2>4. a \in ClassNodes /\ a \in T!Path(doc, doc.up[e]) /\ a \in T!Path(doc, e) /\ a # 0
    BY <1>1, <1>6, <1>7, <2>2, ForestNodes
  <2>5. a < e
    <3>1. doc.up[e] # 0
      BY <1>1, <2>4, PathUp
    <3>2. a <= doc.up[e] /\ a \in Nat /\ doc.up[e] \in Nat /\ e \in Nat
      BY <1>1, <1>2, <1>6, <2>4, <3>1, PathsShrink
    <3> QED
      BY <1>2, <3>2
  <2>6. T!TargetNamespace(doc, a) = h
    BY <1>2, <2>4, TargetRead DEF h
  <2>7. T!GetParent(doc, h, T!TypeName(doc, e)) = T!TypeName(doc, a) /\ T!TypeName(doc, a) # ""
    BY <1>3, <1>4, <2>3, <2>4
  <2>8. T!Classes(doc.up[e]) = T!Classes(a)
    BY <1>1, <1>2, <1>7, <2>2, ClassesAbove
  <2> QED
    BY <1>3, <1>5, <2>4, <2>5, <2>6, <2>7, <2>8 DEF Around, h
<1> QED
  BY <1>9, <1>10

\* parent_ names the class around, so a class is named by those it is in.
LEMMA ParentsOfClass ==
  ASSUME T!WellFormed, doc \in Schemas, NEW c \in ClassNodes
  PROVE  T!Parents(doc, T!TargetNamespace(doc, c), T!TypeName(doc, c)) = T!Classes(doc.up[c])
<1>1. PICK h : h = T!TargetNamespace(doc, c)
  OBVIOUS
<1> DEFINE In(e) == e \in ClassNodes /\ T!TargetNamespace(doc, e) = h
           Up(m) == T!GetParent(doc, h, m)
           Of(m) == CHOOSE e : In(e) /\ T!TypeName(doc, e) = m
           Is(f) == f = [m \in DOMAIN CName1up |->
                           IF Up(m) = "" THEN << >> ELSE Append(f[Up(m)], CName1up[Up(m)])]
           way == CHOOSE f : Is(f)
<1>2. T!Parents(doc, h, T!TypeName(doc, c)) = way[T!TypeName(doc, c)]
  BY DEF T!Parents
<1>3. T!IsTree(doc) /\ T!ClassesKnown(doc)
  BY DEF T!WellFormed
<1>4. \A e, a : In(e) /\ In(a) /\ T!TypeName(doc, e) = T!TypeName(doc, a) => e = a
  <2>1. \A e, a \in ClassNodes :
          <<T!TargetNamespace(doc, e), T!TypeName(doc, e)>> = <<T!TargetNamespace(doc, a), T!TypeName(doc, a)>>
            => e = a
    BY <1>3, Zenon DEF T!ClassesKnown, ClassNodes
  <2> QED
    BY <2>1
<1>5. \A m : Up(m) = "" \/ \E e : In(e) /\ T!TypeName(doc, e) = Up(m)
  <2>1. ASSUME NEW m, Up(m) # "" PROVE \E e : In(e) /\ T!TypeName(doc, e) = Up(m)
    <3>1. <<h, m>> \in DOMAIN doc.parents /\ Up(m) = doc.parents[<<h, m>>]
      BY <2>1 DEF T!GetParent
    <3>2. \A key \in DOMAIN doc.parents :
            \E e \in ClassNodes : <<T!TargetNamespace(doc, e), T!TypeName(doc, e)>> = <<key[1], doc.parents[key]>>
      BY <1>3, Zenon DEF T!ClassesKnown, ClassNodes
    <3>3. PICK e \in ClassNodes :
            <<T!TargetNamespace(doc, e), T!TypeName(doc, e)>> = <<<<h, m>>[1], Up(m)>>
      BY <3>1, <3>2
    <3> QED
      BY <3>3
  <2> QED
    BY <2>1
<1>6. \A e : In(e) => Around(h, e)
  BY ClassIsAround
<1> HIDE DEF Up
<1>7. ASSUME NEW e, In(e)
      PROVE  /\ T!TypeName(doc, e) \in DOMAIN CName1up \ {""}
             /\ T!Classes(e) = Append(T!Classes(doc.up[e]), CName1up[T!TypeName(doc, e)])
             /\ \/ Up(T!TypeName(doc, e)) = "" /\ T!Classes(doc.up[e]) = << >>
                \/ \E a : /\ In(a) /\ a < e /\ Up(T!TypeName(doc, e)) = T!TypeName(doc, a)
                          /\ T!TypeName(doc, a) # "" /\ T!Classes(doc.up[e]) = T!Classes(a)
  BY <1>6, <1>7 DEF Around, Up
<1> HIDE DEF In
<1>8. \A e : In(e) => Of(T!TypeName(doc, e)) = e
  <2> SUFFICES ASSUME NEW e, In(e) PROVE Of(T!TypeName(doc, e)) = e
    OBVIOUS
  <2> QED
    BY <1>4
<1> HIDE DEF Of
<1>9. \E f : Is(f)
  <2> DEFINE g == [m \in DOMAIN CName1up |-> IF Up(m) = "" THEN << >> ELSE T!Classes(Of(Up(m)))]
  <2>1. ASSUME NEW m \in DOMAIN CName1up
        PROVE  g[m] = IF Up(m) = "" THEN << >> ELSE Append(g[Up(m)], CName1up[Up(m)])
    <3>1. CASE Up(m) = ""
      BY <3>1
    <3>2. CASE Up(m) # ""
      <4>1. PICK e : In(e) /\ T!TypeName(doc, e) = Up(m)
        BY <1>5, <3>2
      <4>2. Of(Up(m)) = e
        BY <1>8, <4>1
      <4>3. g[m] = T!Classes(e)
        BY <3>2, <4>2
      <4>4. Up(m) \in DOMAIN CName1up /\ T!Classes(e) = Append(T!Classes(doc.up[e]), CName1up[Up(m)])
        BY <1>7, <4>1
      <4>5. g[Up(m)] = T!Classes(doc.up[e])
        <5>1. g[Up(m)] = IF Up(Up(m)) = "" THEN << >> ELSE T!Classes(Of(Up(Up(m))))
          BY <4>4
        <5>2. CASE Up(Up(m)) = "" /\ T!Classes(doc.up[e]) = << >>
          BY <5>1, <5>2
        <5>3. CASE \E a : /\ In(a) /\ Up(Up(m)) = T!TypeName(doc, a)
                          /\ T!TypeName(doc, a) # "" /\ T!Classes(doc.up[e]) = T!Classes(a)
          BY <1>8, <5>1, <5>3
        <5> QED
          BY <1>7, <4>1, <5>2, <5>3
      <4> QED
        BY <3>2, <4>3, <4>4, <4>5
    <3> QED
      BY <3>1, <3>2
  <2>2. DOMAIN g = DOMAIN CName1up /\ g = [m \in DOMAIN g |-> g[m]]
    OBVIOUS
  <2> HIDE DEF g
  <2>3. Is(g)
    BY <2>1, <2>2, Zenon
  <2> HIDE DEF Is
  <2> QED
    BY <2>3, Zenon
<1>10. Is(way)
  <2> HIDE DEF Is
  <2> QED
    BY <1>9, Zenon
<1> HIDE DEF way
<1>11. ASSUME NEW m \in DOMAIN CName1up
       PROVE  way[m] = IF Up(m) = "" THEN << >> ELSE Append(way[Up(m)], CName1up[Up(m)])
  BY <1>10
<1> HIDE DEF Is
<1>12. \A e : In(e) => way[T!TypeName(doc, e)] = T!Classes(doc.up[e])
  <2> DEFINE Good(e) == way[T!TypeName(doc, e)] = T!Classes(doc.up[e])
             Bad == {e \in ClassNodes : In(e) /\ ~Good(e)}
  <2>0. ClassNodes \subseteq Nat /\ \A e : In(e) => e \in ClassNodes
    BY <1>3, ForestNodes DEF ClassNodes, In
  <2>1. Bad = {}
    <3> SUFFICES ASSUME Bad # {} PROVE FALSE
      OBVIOUS
    <3>1. Bad \subseteq Nat
      BY <2>0
    <3> HIDE DEF Bad
    <3>2. PICK e \in Bad : \A k \in Bad : e <= k
      BY <3>1, LeastNatural
    <3> USE DEF Bad
    <3>3. In(e) /\ ~Good(e) /\ T!TypeName(doc, e) \in DOMAIN CName1up
      BY <1>7, <3>2
    <3>4. CASE Up(T!TypeName(doc, e)) = "" /\ T!Classes(doc.up[e]) = << >>
      BY <1>11, <3>3, <3>4
    <3>5. CASE \E a : /\ In(a) /\ a < e /\ Up(T!TypeName(doc, e)) = T!TypeName(doc, a)
                      /\ T!TypeName(doc, a) # "" /\ T!Classes(doc.up[e]) = T!Classes(a)
      <4>1. PICK a : /\ In(a) /\ a < e /\ Up(T!TypeName(doc, e)) = T!TypeName(doc, a)
                     /\ T!TypeName(doc, a) # "" /\ T!Classes(doc.up[e]) = T!Classes(a)
        BY <3>5
      <4>2. a \notin Bad
        <5>1. a \in Nat /\ e \in Nat /\ a < e
          BY <2>0, <3>3, <4>1
        <5>2. ~(e <= a)
          BY <5>1
        <5> HIDE DEF Bad
        <5> QED
          BY <3>2, <5>2
      <4>3. way[T!TypeName(doc, a)] = T!Classes(doc.up[a])
        BY <2>0, <4>1, <4>2
      <4>4. T!Classes(a) = Append(T!Classes(doc.up[a]), CName1up[T!TypeName(doc, a)])
        BY <1>7, <4>1
      <4>5. way[T!TypeName(doc, e)] = Append(way[T!TypeName(doc, a)], CName1up[T!TypeName(doc, a)])
        BY <1>11, <3>3, <4>1
      <4> QED
        BY <3>3, <4>1, <4>3, <4>4, <4>5
    <3> QED
      BY <1>7, <3>3, <3>4, <3>5
  <2> HIDE DEF Good
  <2>2. \A e : In(e) => Good(e)
    BY <2>0, <2>1
  <2> QED
    BY <2>2 DEF Good
<1>13. In(c)
  BY <1>1 DEF In
<1> QED
  BY <1>1, <1>2, <1>12, <1>13

\* Elements are made of elements.
ElementInv == reader = "type" /\ kind = "element" => doc.name[node] = "element"

LEMMA ElementNext ==
  ElementInv /\ [Next]_<<reader, doc, parse, loop, query, type, coded>> => ElementInv'
<1> SUFFICES ASSUME ElementInv, [Next]_<<reader, doc, parse, loop, query, type, coded>>, reader = "type"
             PROVE  ElementInv'
  BY DEF ElementInv, Next
<1>1. CASE UNCHANGED <<reader, doc, type>>
  BY <1>1 DEF ElementInv, type
<1>2. CASE T!Next
  <2>1. ASSUME NEW x, NEW o, NEW b, NEW e, NEW as, T!Make(x, as, o, b, e), as # "element" PROVE ElementInv'
    BY <2>1 DEF T!Make, ElementInv
  <2>2. ASSUME NEW x \in T!Members, T!MakeElement(x) PROVE ElementInv'
    BY <2>2 DEF T!MakeElement, T!Make, T!Members, T!Nodes, ElementInv
  <2>3. ASSUME NEW x, NEW m, T!MakeAttribute(x, m) PROVE ElementInv'
    BY <2>1, <2>3 DEF T!MakeAttribute
  <2>4. ASSUME NEW x, T!MakeSimpleType(x) PROVE ElementInv'
    BY <2>1, <2>4 DEF T!MakeSimpleType
  <2>5. ASSUME NEW x, T!MakeComplexType(x) PROVE ElementInv'
    BY <2>1, <2>5 DEF T!MakeComplexType
  <2> QED
    BY <1>2, <2>2, <2>3, <2>4, <2>5 DEF T!Next
<1> QED
  BY <1>1, <1>2 DEF Next, type

\* An element with a class of its own is given its type by that name.
LEMMA OwnClassNamed ==
  ASSUME T!WellFormed, doc \in Schemas, NEW x \in T!NodesOf(doc), doc.name[x] = "element",
         NEW c \in ClassNodes, doc.up[c] = x,
         NEW o \in T!Element(doc, x, T!Target(doc, x))
  PROVE  LET h == T!TargetNamespace(doc, c)
             m == T!TypeName(doc, c)
         IN /\ h = T!TargetNamespace(doc, x)
            /\ o.href = h /\ o.type = m
            /\ o.ctype = [space |-> Space[h], path |-> T!Classes(c)]
<1>1. T!IsTree(doc) /\ T!ClassesKnown(doc)
  BY DEF T!WellFormed
<1>2. PICK h, m : h = T!TargetNamespace(doc, c) /\ m = T!TypeName(doc, c)
  OBVIOUS
<1>3. c \in T!NodesOf(doc) /\ doc.name[c] = "complexType" /\ c # 0 /\ x # 0
  BY <1>1, ForestNodes DEF ClassNodes
<1>4. h # "" /\ {"type", "ref"} \cap DOMAIN doc.attr[x] = {} /\ "name" \notin DOMAIN doc.attr[c]
  BY <1>1, <1>2, <1>3, Zenon DEF T!ClassesKnown
<1>5. T!TargetNamespace(doc, x) = h /\ T!Target(doc, x) = h /\ h # XMLSchema
  <2>1. x \in T!Path(doc, c)
    BY <1>1, <1>3, PathUp
  <2>2. T!TargetNamespace(doc, x) = h
    BY <1>2, <1>3, <2>1, TargetRead
  <2>3. T!Target(doc, x) = h
    BY <1>4, <2>2, TargetRead
  <2> QED
    BY <1>4, <2>2, <2>3, TargetIsOwn
<1>6. T!Name(doc, x) = m
  <2>1. T!Name(doc, c) = ""
    BY <1>4 DEF T!Name, T!GetProperty, T!PropertyExists, T!Type
  <2> QED
    BY <1>2, <2>1 DEF T!TypeName
<1>7. T!GetFirstElement(doc, x, "complexType") # 0
  <2>1. T!GetFirstElement(doc, x, "complexType") = L!Earliest(Called(doc, x, "complexType"))
    BY <1>1, SameFirstElement, SameLookups, FirstElement
  <2>2. c \in Called(doc, x, "complexType")
    BY <1>3, SameLookups DEF Called, L!ChildrenOf, L!Nil
  <2>3. Called(doc, x, "complexType") \subseteq Nat \ {0}
    BY <1>1, SameLookups, ForestNodes DEF Called, L!ChildrenOf
  <2> QED
    BY <2>1, <2>2, <2>3, EarliestLeast
<1>8. PICK p \in T!DeclaredAs(doc, x, h) :
        o = T!SetType(doc, x, T!Untyped(h), IF p = "" THEN <<m>> ELSE <<p, m>>)
  <2>1. ~T!PropertyExists(doc, x, "type") /\ ~T!PropertyExists(doc, x, "ref")
    BY <1>4 DEF T!PropertyExists
  <2> QED
    BY <1>5, <1>6, <1>7, <2>1 DEF T!Element, T!Nil
<1>9. PICK value : value = IF p = "" THEN <<m>> ELSE <<p, m>>
  OBVIOUS
<1>10. T!Type(value) = m
  BY <1>9 DEF T!Type
<1>11. T!HrefOf(doc, x, value) = h
  <2>1. CASE p = ""
    <3>1. value = <<m>>
      BY <1>9, <2>1
    <3>2. T!NS(<<m>>) = ""
      BY DEF T!NS
    <3> QED
      BY <1>5, <3>1, <3>2 DEF T!HrefOf
  <2>2. CASE p # ""
    <3>1. T!NS(value) = p
      BY <1>9, <2>2 DEF T!NS
    <3>2. p \in DOMAIN T!GetNsMap(doc, x) /\ T!GetNsMap(doc, x)[p] = h
      BY <2>2 DEF T!DeclaredAs
    <3> QED
      BY <2>2, <3>1, <3>2 DEF T!HrefOf, T!Href
  <2> QED
    BY <2>1, <2>2
<1>12. PICK u, b : u = T!Untyped(h) /\ b = T!CType(doc, h, m)
  OBVIOUS
<1>13. DOMAIN u = Fields
  BY <1>12, ObjectFields
<1>14. o = [u EXCEPT !.href = h, !.type = m, !.ctype = b, !.class = "complex"]
  BY <1>4, <1>5, <1>8, <1>9, <1>10, <1>11, <1>12 DEF T!SetType
<1>15. o.href = h /\ o.type = m /\ o.ctype = b
  BY <1>13, <1>14 DEF Fields
<1>16. b = [space |-> Space[h], path |-> T!Classes(c)]
  <2>1. T!Parents(doc, h, m) = T!Classes(doc.up[c])
    BY <1>2, ParentsOfClass
  <2>2. T!Classes(c) = Append(T!Classes(doc.up[c]), CName1up[m])
    BY <1>1, <1>2, <1>3, ClassesUp
  <2> QED
    BY <1>5, <1>12, <2>1, <2>2 DEF T!CType
<1> QED
  BY <1>2, <1>5, <1>15, <1>16

\* And finds the class.
LEMMA OwnClassFound ==
  ASSUME T!WellFormed, reader = "type", TypeInv, ElementInv, kind = "element",
         NEW c \in ClassNodes, doc.up[c] = node
  PROVE  /\ T!FindComplexType(doc, object.href, <<object.type>>) = T!Start(doc, c)
         /\ object.ctype = [space |-> Space[T!TargetNamespace(doc, node)], path |-> T!Classes(c)]
<1>1. doc \in Schemas
  BY DEF TypeInv
<1>2. PICK o, declared, extends :
        /\ node \in T!NodesOf(doc) /\ Makes(node, kind, o, declared, extends)
        /\ object = [o EXCEPT !.base = declared, !.extends = extends]
  BY DEF TypeInv
<1>3. DOMAIN o = Fields /\ o \in T!Element(doc, node, T!Target(doc, node)) /\ doc.name[node] = "element"
  BY <1>2, MadeFields DEF Makes, ElementInv
<1>4. object.href = o.href /\ object.type = o.type /\ object.ctype = o.ctype
  BY <1>2, <1>3 DEF Fields
<1>5. PICK h, m : h = T!TargetNamespace(doc, c) /\ m = T!TypeName(doc, c)
  OBVIOUS
<1>6. /\ h = T!TargetNamespace(doc, node) /\ o.href = h /\ o.type = m
      /\ o.ctype = [space |-> Space[h], path |-> T!Classes(c)]
  BY <1>1, <1>2, <1>3, <1>5, OwnClassNamed
<1>7. <<h, m>> \in DOMAIN doc.types /\ doc.types[<<h, m>>] = T!Start(doc, c)
  <2>1. T!ClassesKnown(doc)
    BY <1>1 DEF T!WellFormed
  <2> QED
    BY <1>5, <2>1, Zenon DEF T!ClassesKnown, ClassNodes
<1>8. T!Type(<<m>>) = m
  BY DEF T!Type
<1>9. T!FindComplexType(doc, h, <<m>>) = T!Start(doc, c)
  BY <1>7, <1>8 DEF T!FindComplexType
<1> QED
  BY <1>4, <1>6, <1>9

\* An element with an anonymous complexType finds the class registered for it,
\* by the reversed map of prefixes or without one, and names it by the classes
\* it is nested in, however deep: in every schema whose classes have distinct
\* names.
THEOREM FindsItsOwnClass == Spec => []AnonymousIsOwn
<1>1. Init => TypeInv /\ ElementInv
  BY TypeInit DEF Init, ElementInv, T!Init
<1>2. TypeInv /\ [Next]_<<reader, doc, parse, loop, query, type, coded>> => TypeInv'
  BY TypeNext
<1>3. TypeInv /\ ElementInv => AnonymousIsOwn
  <2> SUFFICES ASSUME TypeInv, ElementInv, reader = "type", kind = "element",
                      NEW c \in T!Nodes("complexType"), doc.up[c] = node
               PROVE  /\ T!FindComplexType(doc, object.href, <<object.type>>) = T!Start(doc, c)
                      /\ object.ctype = [space |-> Space[T!TargetNamespace(doc, node)], path |-> T!Classes(c)]
    BY Zenon DEF AnonymousIsOwn, T!AnonymousIsOwn
  <2>1. c \in ClassNodes
    BY DEF T!Nodes, ClassNodes
  <2> QED
    BY <2>1, SchemasAssumption, OwnClassFound
<1> QED
  BY <1>1, <1>2, <1>3, ElementNext, PTL DEF Spec

-----------------------------------------------------------------------------
(* Stretches of a text, and cursors that move through it.                  *)

\* The characters of t from position a to before b.
Stretch(t, a, b) == SubSeq(t, a + 1, b)

Clip(n, p) == IF p < n THEN p ELSE n

\* A text without the character that ends it, and how a Parse is set up for it.
Plain(t, m) ==
  /\ t \in Seq(STRING) /\ End \notin P!Range(t)
  /\ End \notin m.splits /\ End \notin {P!Blank, P!Newline, P!Equals, P!Quote}
  /\ m.nospace \in BOOLEAN

LEMMA CharAt ==
  ASSUME NEW t \in Seq(STRING), NEW p \in Nat
  PROVE  /\ Len(t) \in Nat
         /\ p >= Len(t) => P!C(t, p) = End
         /\ p < Len(t) => P!C(t, p) = t[p + 1] /\ P!C(t, p) \in P!Range(t)
<1>1. PICK n \in Nat : n = Len(t) /\ DOMAIN t = 1..n
  OBVIOUS
<1>2. ~(p < n) => P!C(t, p) = End
  BY <1>1 DEF P!C
<1>3. ASSUME p < n PROVE P!C(t, p) = t[p + 1] /\ P!C(t, p) \in P!Range(t)
  <2>1. P!C(t, p) = t[p + 1]
    BY <1>1, <1>3 DEF P!C
  <2>2. p + 1 \in 1..n
    BY <1>3
  <2> QED
    BY <1>1, <2>1, <2>2 DEF P!Range
<1>4. p >= n => ~(p < n)
  OBVIOUS
<1> QED
  BY <1>1, <1>2, <1>3, <1>4

LEMMA StretchIs ==
  ASSUME NEW t \in Seq(STRING), NEW b \in 0..Len(t), NEW a \in 0..b
  PROVE  /\ Stretch(t, a, b) \in Seq(STRING) /\ Len(Stretch(t, a, b)) = b - a
         /\ \A i \in 1..(b - a) : Stretch(t, a, b)[i] = t[a + i]
<1>1. PICK n \in Nat : n = Len(t)
  OBVIOUS
<1>2. a + 1 \in Int /\ b \in Int /\ a \in Nat /\ b \in Nat /\ a <= b /\ b <= n
  BY <1>1
<1>3. \A i \in (a + 1)..b : t[i] \in STRING
  <2> SUFFICES ASSUME NEW i \in (a + 1)..b PROVE i \in 1..Len(t)
    BY ElementOfSeq
  <2> QED
    BY <1>1, <1>2
<1>4. PICK s : s = SubSeq(t, a + 1, b)
  OBVIOUS
<1>5. /\ s \in Seq(STRING) /\ Len(s) = IF a + 1 <= b THEN b - (a + 1) + 1 ELSE 0
      /\ \A i \in 1..(b - (a + 1) + 1) : s[i] = t[(a + 1) + i - 1]
  BY <1>2, <1>3, <1>4, SubSeqProperties
<1>6. Len(s) = b - a
  BY <1>2, <1>5
<1>7. ASSUME NEW i \in 1..(b - a) PROVE s[i] = t[a + i]
  <2>1. i \in 1..(b - (a + 1) + 1) /\ (a + 1) + i - 1 = a + i
    BY <1>2
  <2> QED
    BY <1>5, <2>1
<1> QED
  BY <1>4, <1>5, <1>6, <1>7 DEF Stretch

\* What a stretch consists of.
LEMMA StretchSet ==
  ASSUME NEW t \in Seq(STRING), NEW b \in 0..Len(t), NEW a \in 0..b
  PROVE  P!Range(Stretch(t, a, b)) = {P!C(t, j) : j \in a..(b - 1)}
<1>1. PICK n \in Nat : n = Len(t)
  OBVIOUS
<1>2. a \in Nat /\ b \in Nat /\ a <= b /\ b <= n
  BY <1>1
<1>3. PICK s : s = Stretch(t, a, b)
  OBVIOUS
<1>4. DOMAIN s = 1..(b - a) /\ \A i \in 1..(b - a) : s[i] = t[a + i]
  <2>1. s \in Seq(STRING) /\ Len(s) = b - a
    BY <1>3, StretchIs
  <2>2. DOMAIN s = 1..Len(s)
    BY <2>1
  <2> QED
    BY <1>3, <2>1, <2>2, StretchIs
<1>5. P!Range(s) = {s[i] : i \in 1..(b - a)}
  BY <1>4 DEF P!Range
<1>6. \A j \in a..(b - 1) : P!C(t, j) = t[j + 1]
  BY <1>1, <1>2, CharAt
<1>7. ASSUME NEW i \in 1..(b - a) PROVE \E j \in a..(b - 1) : s[i] = P!C(t, j)
  <2>1. a + i - 1 \in a..(b - 1) /\ (a + i - 1) + 1 = a + i
    BY <1>2
  <2> QED
    BY <1>4, <1>6, <2>1
<1>8. ASSUME NEW j \in a..(b - 1) PROVE \E i \in 1..(b - a) : s[i] = P!C(t, j)
  <2>1. j + 1 - a \in 1..(b - a) /\ a + (j + 1 - a) = j + 1
    BY <1>2
  <2> QED
    BY <1>4, <1>6, <2>1
<1> QED
  BY <1>3, <1>5, <1>7, <1>8

LEMMA StretchOne ==
  ASSUME NEW t \in Seq(STRING), NEW a \in Nat
  PROVE  /\ a <= Len(t) => Stretch(t, a, a) = << >>
         /\ a < Len(t) => Stretch(t, a, a + 1) = <<P!C(t, a)>>
<1>1. PICK n \in Nat : n = Len(t)
  OBVIOUS
<1>2. Stretch(t, a, a) = << >>
  BY SubSeqEmpty DEF Stretch
<1>3. ASSUME a < n PROVE Stretch(t, a, a + 1) = <<P!C(t, a)>>
  <2>0. PICK b : b = a + 1
    OBVIOUS
  <2>1. a + 1 \in 1..Len(t) /\ b \in 0..Len(t) /\ a \in 0..b /\ b - a = 1
    BY <1>1, <1>3, <2>0
  <2>2. PICK s : s = Stretch(t, a, b)
    OBVIOUS
  <2>3. s \in Seq(STRING) /\ Len(s) = 1 /\ s[1] = t[a + 1]
    <3>1. /\ Stretch(t, a, b) \in Seq(STRING) /\ Len(Stretch(t, a, b)) = b - a
          /\ \A i \in 1..(b - a) : Stretch(t, a, b)[i] = t[a + i]
      BY <2>1, StretchIs
    <3> QED
      BY <2>1, <2>2, <3>1
  <2>4. P!C(t, a) = t[a + 1]
    BY <1>1, <1>3, CharAt
  <2>5. t[a + 1] \in STRING
    BY <2>1, ElementOfSeq
  <2>6. s = <<t[a + 1]>>
    BY <2>3, <2>5
  <2> QED
    BY <2>0, <2>2, <2>4, <2>6
<1> QED
  BY <1>1, <1>2, <1>3

\* Adjacent stretches are one.
LEMMA StretchJoin ==
  ASSUME NEW t \in Seq(STRING), NEW c \in 0..Len(t), NEW b \in 0..c, NEW a \in 0..b
  PROVE  Stretch(t, a, b) \o Stretch(t, b, c) = Stretch(t, a, c)
<1>1. PICK n \in Nat : n = Len(t)
  OBVIOUS
<1>2. a + 1 \in 1..(Len(t) + 1) /\ b \in (a + 1 - 1)..Len(t) /\ c \in b..Len(t)
  BY <1>1
<1> QED
  BY <1>2, ConcatAdjacentSubSeq DEF Stretch

\* Substr is a stretch of the text, cut off at its end.
LEMMA SubstrIs ==
  ASSUME NEW t \in Seq(STRING), NEW a \in Nat, NEW b \in Nat, a <= b
  PROVE  /\ P!Substr(t, a, b - a) = Stretch(t, Clip(Len(t), a), Clip(Len(t), b))
         /\ Clip(Len(t), b) \in 0..Len(t) /\ Clip(Len(t), a) \in 0..Clip(Len(t), b)
<1>1. PICK n \in Nat : n = Len(t)
  OBVIOUS
<1>2. a + (b - a) = b /\ (a >= n <=> ~(a < n))
  OBVIOUS
<1>3. Clip(n, b) \in 0..n /\ Clip(n, a) \in 0..Clip(n, b)
  BY DEF Clip
<1>4. CASE a < n
  <2>1. P!Substr(t, a, b - a) = SubSeq(t, a + 1, IF b < n THEN b ELSE n)
    BY <1>1, <1>2, <1>4 DEF P!Substr
  <2> QED
    BY <1>1, <1>3, <1>4, <2>1 DEF Stretch, Clip
<1>5. CASE ~(a < n)
  <2>1. P!Substr(t, a, b - a) = << >>
    BY <1>1, <1>2, <1>5 DEF P!Substr
  <2>2. Clip(n, a) = n /\ Clip(n, b) = n
    BY <1>5 DEF Clip
  <2> QED
    BY <1>1, <1>3, <2>1, <2>2, StretchOne
<1> QED
  BY <1>4, <1>5

\* A cursor that moves from p in a text of n characters stops at y: at the first
\* position of S, or at the end of the text.
Stops(n, p, y, S) ==
  /\ y \in Nat /\ p <= y /\ (y <= n \/ y = p)
  /\ y < n => y \in S
  /\ \A j \in Nat : p <= j /\ j < y => j \notin S

\* The least position is where it stops.
LEMMA Scan ==
  ASSUME NEW n \in Nat, NEW p \in Nat, NEW S, NEW V, V = {q \in p..n : q = n \/ q \in S},
         NEW y, y = IF p >= n THEN p ELSE P!Min(V)
  PROVE  Stops(n, p, y, S)
<1>1. CASE p >= n
  BY <1>1 DEF Stops
<1>2. CASE ~(p >= n)
  <2>1. V \subseteq Nat /\ n \in V
    BY <1>2
  <2>2. \E k \in V : \A j \in V : k <= j
    BY <2>1, LeastNatural
  <2>3. y = CHOOSE k \in V : \A j \in V : k <= j
    BY <1>2 DEF P!Min
  <2>4. y \in V /\ \A j \in V : y <= j
    BY <2>2, <2>3, Zenon
  <2>5. y \in p..n /\ (y = n \/ y \in S)
    BY <2>4
  <2>6. \A j \in p..n : j \in S => y <= j
    BY <2>4
  <2>7. \A j \in Nat : p <= j /\ j < y => j \notin S
    BY <2>5, <2>6
  <2> QED
    BY <2>5, <2>7 DEF Stops
<1> QED
  BY <1>1, <1>2

\* The positions of the characters of S, and of others.
On(t, S) == {q \in Nat : P!C(t, q) \in S}

Off(t, S) == {q \in Nat : P!C(t, q) \notin S}

Spaces(m) == P!Whitespace \cup m.splits

\* Where a word that begins at x may end.
WordStops(t, m, x) ==
  {q \in Nat : P!C(t, q) \in Spaces(m) \/ (P!IsBreak(m, P!C(t, q)) /\ ~P!Disabled(t, m, x, q))}

\* getword without quotes: to the word, along it, and past it.
LEMMA WordCut ==
  ASSUME NEW t, NEW m, Plain(t, m), NEW p \in Nat, ~m.nospace, ~P!IsBreak(m, P!C(t, p))
  PROVE  \E x, y \in Nat :
           /\ Stops(Len(t), p, x, Off(t, Spaces(m)))
           /\ Stops(Len(t), x, y, WordStops(t, m, x))
           /\ P!Word(t, m, p) = [ord |-> P!Substr(t, x, y - x), ptr |-> y + 1]
<1>1. PICK n \in Nat : n = Len(t)
  BY DEF Plain
<1> DEFINE V == {q \in p..n : q = n \/ P!C(t, q) \notin P!Whitespace \cup m.splits}
           x == IF p >= n THEN p ELSE P!Min(V)
           W == {q \in x..n : \/ q = n
                              \/ P!C(t, q) \in P!Whitespace \cup m.splits
                              \/ P!IsBreak(m, P!C(t, q)) /\ ~P!Disabled(t, m, x, q)}
           y == IF x >= n THEN x ELSE P!Min(W)
<1>2. P!Word(t, m, p) = [ord |-> P!Substr(t, x, y - x), ptr |-> y + 1]
  BY <1>1 DEF P!Word, P!MovedTo, P!WordEnd, P!Cut
<1>3. Stops(n, p, x, Off(t, Spaces(m)))
  <2>1. V = {q \in p..n : q = n \/ q \in Off(t, Spaces(m))}
    BY DEF Off, Spaces
  <2>2. x = IF p >= n THEN p ELSE P!Min(V)
    OBVIOUS
  <2> HIDE DEF V, x
  <2> QED
    BY <2>1, <2>2, Scan
<1>4. x \in Nat
  BY <1>3 DEF Stops
<1>5. Stops(n, x, y, WordStops(t, m, x))
  <2> HIDE DEF x
  <2>1. W = {q \in x..n : q = n \/ q \in WordStops(t, m, x)}
    <3>1. \A q \in x..n : q \in Nat
      BY <1>4
    <3> QED
      BY <3>1 DEF WordStops, Spaces
  <2>2. y = IF x >= n THEN x ELSE P!Min(W)
    OBVIOUS
  <2> HIDE DEF W, y
  <2> QED
    BY <1>4, <2>1, <2>2, Scan
<1>6. y \in Nat
  BY <1>5 DEF Stops
<1> HIDE DEF x, y
<1> QED
  BY <1>1, <1>2, <1>3, <1>4, <1>5, <1>6

\* The same for a cursor that one moves with MovedTo.
LEMMA RestCut ==
  ASSUME NEW t, NEW m, Plain(t, m), NEW p \in Nat
  PROVE  \E x \in Nat : /\ Stops(Len(t), p, x, Off(t, {P!Blank} \cup m.splits))
                        /\ P!Rest(t, m, p) = [ord |-> P!Substr(t, x, Len(t)), ptr |-> x]
<1>1. PICK n \in Nat : n = Len(t)
  BY DEF Plain
<1> DEFINE V == {q \in p..n : q = n \/ (P!C(t, q) # P!Blank /\ ~P!issplit(m, P!C(t, q)))}
           x == IF p >= n THEN p ELSE P!Min(V)
<1>2. P!Rest(t, m, p) = [ord |-> P!Substr(t, x, Len(t)), ptr |-> x]
  BY <1>1 DEF P!Rest, P!MovedTo
<1>3. V = {q \in p..n : q = n \/ q \in Off(t, {P!Blank} \cup m.splits)}
  BY DEF Off, P!issplit
<1>4. x = IF p >= n THEN p ELSE P!Min(V)
  OBVIOUS
<1> HIDE DEF V, x
<1>5. Stops(n, p, x, Off(t, {P!Blank} \cup m.splits))
  BY <1>3, <1>4, Scan
<1>6. x \in Nat
  BY <1>5 DEF Stops
<1> QED
  BY <1>1, <1>2, <1>5, <1>6

LEMMA LineCut ==
  ASSUME NEW t, NEW m, Plain(t, m), NEW p \in Nat
  PROVE  \E y \in Nat :
           /\ Stops(Len(t), p, y, On(t, {P!Newline}))
           /\ P!Line(t, p) = [ord |-> P!Substr(t, p, y - p),
                              ptr |-> IF P!C(t, y) = P!Newline THEN y + 1 ELSE y]
<1>1. PICK n \in Nat : n = Len(t)
  BY DEF Plain
<1> DEFINE V == {q \in p..n : q = n \/ P!C(t, q) = P!Newline}
           y == IF p >= n THEN p ELSE P!Min(V)
<1>2. P!Line(t, p) = [ord |-> P!Substr(t, p, y - p),
                      ptr |-> IF P!C(t, y) = P!Newline THEN y + 1 ELSE y]
  BY <1>1 DEF P!Line, P!MovedTo
<1>3. V = {q \in p..n : q = n \/ q \in On(t, {P!Newline})}
  BY DEF On
<1>4. y = IF p >= n THEN p ELSE P!Min(V)
  OBVIOUS
<1> HIDE DEF V, y
<1>5. Stops(n, p, y, On(t, {P!Newline}))
  BY <1>3, <1>4, Scan
<1>6. y \in Nat
  BY <1>5 DEF Stops
<1> QED
  BY <1>1, <1>2, <1>5, <1>6

\* What getsplit returns, from x to before y.
PieceAt(t, p, x, y) ==
  CASE P!C(t, p) = P!Equals -> [ord |-> <<P!Equals>>, ptr |-> p + 1]
    [] P!C(t, p) # P!Equals /\ x = y /\ P!C(t, y) = P!Equals ->
         [ord |-> <<P!Equals>>, ptr |-> y + 1]
    [] P!C(t, p) # P!Equals /\ ~(x = y /\ P!C(t, y) = P!Equals) ->
         [ord |-> P!Substr(t, x, y - x), ptr |-> y]

LEMMA PieceCut ==
  ASSUME NEW t, NEW m, Plain(t, m), NEW p \in Nat
  PROVE  \E x, y \in Nat : /\ Stops(Len(t), p, x, Off(t, m.splits))
                           /\ Stops(Len(t), x, y, On(t, m.splits \cup {P!Equals}))
                           /\ P!Piece(t, m, p) = PieceAt(t, p, x, y)
<1>1. PICK n \in Nat : n = Len(t)
  BY DEF Plain
<1> DEFINE V == {q \in p..n : q = n \/ ~P!issplit(m, P!C(t, q))}
           x == IF p >= n THEN p ELSE P!Min(V)
           W == {q \in x..n : q = n \/ P!issplit(m, P!C(t, q)) \/ P!C(t, q) = P!Equals}
           y == IF x >= n THEN x ELSE P!Min(W)
<1>2. P!Piece(t, m, p) = PieceAt(t, p, x, y)
  BY <1>1 DEF P!Piece, P!MovedTo, PieceAt
<1>3. V = {q \in p..n : q = n \/ q \in Off(t, m.splits)}
  BY DEF Off, P!issplit
<1>4. x = IF p >= n THEN p ELSE P!Min(V)
  OBVIOUS
<1> HIDE DEF V, x
<1>5. Stops(n, p, x, Off(t, m.splits))
  BY <1>3, <1>4, Scan
<1>6. x \in Nat
  BY <1>5 DEF Stops
<1>7. W = {q \in x..n : q = n \/ q \in On(t, m.splits \cup {P!Equals})}
  <2>1. \A q \in x..n : q \in Nat
    BY <1>6
  <2> QED
    BY <2>1 DEF On, P!issplit
<1>8. y = IF x >= n THEN x ELSE P!Min(W)
  OBVIOUS
<1> HIDE DEF W, y
<1>9. Stops(n, x, y, On(t, m.splits \cup {P!Equals}))
  BY <1>6, <1>7, <1>8, Scan
<1>10. y \in Nat
  BY <1>9 DEF Stops
<1> QED
  BY <1>1, <1>2, <1>5, <1>6, <1>9, <1>10

\* The characters that end what getwordlen counts.
Ends(m) == Spaces(m) \cup {c \in {m.break} : c # End}

LEMMA WordLenCut ==
  ASSUME NEW t, NEW m, Plain(t, m), NEW p \in Nat
  PROVE  \E x, y \in Nat :
           /\ Stops(Len(t), p, x, Off(t, Spaces(m)))
           /\ Stops(Len(t), x, y, On(t, Ends(m)))
           /\ P!WordLen(t, m, p) = IF \/ P!IsBreak(m, P!C(t, p))
                                      \/ (x = y /\ P!IsBreak(m, P!C(t, y)))
                                   THEN 1 ELSE y - x
<1>1. PICK n \in Nat : n = Len(t)
  BY DEF Plain
<1> DEFINE V == {q \in p..n : q = n \/ P!C(t, q) \notin P!Whitespace \cup m.splits}
           x == IF p >= n THEN p ELSE P!Min(V)
           W == {q \in x..n : \/ q = n
                              \/ P!C(t, q) \in P!Whitespace \cup m.splits
                              \/ P!IsBreak(m, P!C(t, q))}
           y == IF x >= n THEN x ELSE P!Min(W)
<1>2. P!WordLen(t, m, p) = IF P!IsBreak(m, P!C(t, p)) \/ (x = y /\ P!IsBreak(m, P!C(t, y)))
                           THEN 1 ELSE y - x
  BY <1>1 DEF P!WordLen, P!MovedTo
<1>3. V = {q \in p..n : q = n \/ q \in Off(t, Spaces(m))}
  BY DEF Off, Spaces
<1>4. x = IF p >= n THEN p ELSE P!Min(V)
  OBVIOUS
<1> HIDE DEF V, x
<1>5. Stops(n, p, x, Off(t, Spaces(m)))
  BY <1>3, <1>4, Scan
<1>6. x \in Nat
  BY <1>5 DEF Stops
<1>7. W = {q \in x..n : q = n \/ q \in On(t, Ends(m))}
  <2>1. \A q \in x..n : q \in Nat
    BY <1>6
  <2>2. \A c : c \in Ends(m) <=> c \in P!Whitespace \cup m.splits \/ P!IsBreak(m, c)
    BY DEF Ends, Spaces, P!IsBreak
  <2> QED
    BY <2>1, <2>2 DEF On
<1>8. y = IF x >= n THEN x ELSE P!Min(W)
  OBVIOUS
<1> HIDE DEF W, y
<1>9. Stops(n, x, y, On(t, Ends(m)))
  BY <1>6, <1>7, <1>8, Scan
<1>10. y \in Nat
  BY <1>9 DEF Stops
<1> QED
  BY <1>1, <1>2, <1>5, <1>6, <1>9, <1>10

\* A call passes from p to z: to x over characters of Skip, to y over what it
\* returns, and then over one character of Ending at most, or the end of the text.
Passes(t, p, x, y, z, Skip, Ending) ==
  /\ p \in Nat /\ x \in Nat /\ y \in Nat /\ p <= x /\ x <= y
  /\ \A j \in Nat : p <= j /\ j < x => P!C(t, j) \in Skip
  /\ \/ z = y
     \/ z = y + 1 /\ (P!C(t, y) \in Ending \/ y >= Len(t))

\* What is passed consists of what is skipped, what is returned and an ending.
Lossless(passed, returned, Skip, Ending) ==
  \E u \in 0..Len(passed) :
    /\ P!Range(SubSeq(passed, 1, u)) \subseteq Skip
    /\ \E rest \in {<< >>} \cup {<<c>> : c \in Ending} :
         passed = SubSeq(passed, 1, u) \o returned \o rest

LEMMA StretchPrefix ==
  ASSUME NEW t \in Seq(STRING), NEW c \in 0..Len(t), NEW b \in 0..c, NEW a \in 0..b
  PROVE  /\ Len(Stretch(t, a, c)) = c - a /\ b - a \in 0..(c - a)
         /\ SubSeq(Stretch(t, a, c), 1, b - a) = Stretch(t, a, b)
<1>1. PICK n \in Nat : n = Len(t)
  OBVIOUS
<1>2. /\ a \in Nat /\ b \in Nat /\ c \in Nat /\ a <= b /\ b <= c /\ c <= n
      /\ b \in 0..Len(t) /\ a \in 0..c
  BY <1>1
<1>3. Stretch(t, a, c) \in Seq(STRING) /\ Len(Stretch(t, a, c)) = c - a
  BY <1>2, StretchIs
<1>4. PICK r \in Seq(STRING) : r = Stretch(t, a, b) /\ Len(r) = b - a
  BY <1>2, StretchIs
<1>5. PICK s \in Seq(STRING) : s = Stretch(t, b, c) /\ Len(s) = c - b
  BY <1>2, StretchIs
<1>6. Stretch(t, a, c) = r \o s
  BY <1>4, <1>5, StretchJoin
<1>7. CASE a = b
  <2>1. SubSeq(Stretch(t, a, c), 1, b - a) = << >>
    BY <1>7, <1>2, SubSeqEmpty
  <2>2. Stretch(t, a, b) = << >>
    BY <1>1, <1>2, <1>7, StretchOne
  <2>3. b - a \in 0..(c - a)
    BY <1>2
  <2> QED
    BY <1>3, <2>1, <2>2, <2>3
<1>8. CASE a < b
  <2>1. PICK k \in Nat : k = b - a /\ 1 \in 1..Len(r) /\ k \in 1..Len(r) /\ k = Len(r)
    BY <1>2, <1>4, <1>8
  <2>2. SubSeq(r \o s, 1, k) = SubSeq(r, 1, k)
    BY <2>1, SubSeqOfConcat1
  <2>3. SubSeq(r, 1, k) = r
    BY <2>1, SubSeqFull
  <2> QED
    BY <1>2, <1>3, <1>4, <1>6, <2>1, <2>2, <2>3
<1> QED
  BY <1>2, <1>7, <1>8

LEMMA PassesAll ==
  ASSUME NEW t \in Seq(STRING), NEW p, NEW x, NEW y, NEW z, NEW Skip, NEW Ending,
         Passes(t, p, x, y, z, Skip, Ending)
  PROVE  Lossless(P!Substr(t, p, z - p), P!Substr(t, x, y - x), Skip, Ending)
<1>1. PICK n \in Nat : n = Len(t)
  OBVIOUS
<1>2. p \in Nat /\ x \in Nat /\ y \in Nat /\ z \in Nat /\ p <= x /\ x <= y /\ y <= z /\ p <= z
  BY DEF Passes
<1>3. PICK a \in Nat, b \in Nat, c \in Nat, e \in Nat :
        a = Clip(n, p) /\ b = Clip(n, x) /\ c = Clip(n, y) /\ e = Clip(n, z)
  BY <1>2 DEF Clip
<1>4. a <= b /\ b <= c /\ c <= e /\ e <= n
  BY <1>2, <1>3 DEF Clip
<1>5. P!Substr(t, p, z - p) = Stretch(t, a, e) /\ P!Substr(t, x, y - x) = Stretch(t, b, c)
  BY <1>1, <1>2, <1>3, SubstrIs
<1>6. PICK r \in Seq(STRING), s \in Seq(STRING), w \in Seq(STRING) :
        r = Stretch(t, a, b) /\ s = Stretch(t, b, c) /\ w = Stretch(t, c, e)
  <2>1. b \in 0..Len(t) /\ a \in 0..b /\ c \in 0..Len(t) /\ b \in 0..c /\ e \in 0..Len(t) /\ c \in 0..e
    BY <1>1, <1>4
  <2> QED
    BY <2>1, StretchIs
<1>7. Stretch(t, a, e) = (r \o s) \o w
  <2>1. /\ c \in 0..Len(t) /\ b \in 0..c /\ a \in 0..b /\ a \in 0..c
        /\ e \in 0..Len(t) /\ c \in 0..e
    BY <1>1, <1>4
  <2>2. r \o s = Stretch(t, a, c)
    BY <1>6, <2>1, StretchJoin
  <2>3. Stretch(t, a, c) \o Stretch(t, c, e) = Stretch(t, a, e)
    BY <2>1, StretchJoin
  <2> QED
    BY <1>6, <2>2, <2>3
<1>8. /\ Len(Stretch(t, a, e)) = e - a /\ b - a \in 0..(e - a)
      /\ SubSeq(Stretch(t, a, e), 1, b - a) = r
  <2>1. e \in 0..Len(t) /\ b \in 0..e /\ a \in 0..b
    BY <1>1, <1>4
  <2> QED
    BY <1>6, <2>1, StretchPrefix
<1>9. P!Range(r) \subseteq Skip
  <2>1. b \in 0..Len(t) /\ a \in 0..b
    BY <1>1, <1>4
  <2>2. P!Range(r) = {P!C(t, j) : j \in a..(b - 1)}
    BY <1>6, <2>1, StretchSet
  <2>3. ASSUME NEW j \in a..(b - 1) PROVE P!C(t, j) \in Skip
    <3>1. j \in Nat /\ p <= j /\ j < x
      BY <1>2, <1>3, <1>4 DEF Clip
    <3> QED
      BY <3>1 DEF Passes
  <2> QED
    BY <2>2, <2>3
<1>10. w \in {<< >>} \cup {<<k>> : k \in Ending}
  <2>1. CASE c = e
    <3>1. w = << >>
      BY <1>1, <1>4, <1>6, <2>1, StretchOne
    <3> QED
      BY <3>1
  <2>2. CASE c < e
    <3>1. z = y + 1 /\ c = y /\ e = y + 1 /\ y < n
      BY <1>2, <1>3, <2>2 DEF Clip, Passes
    <3>2. P!C(t, y) \in Ending
      BY <1>1, <1>2, <3>1 DEF Passes
    <3>3. w = <<P!C(t, y)>>
      BY <1>1, <1>2, <1>6, <3>1, StretchOne
    <3> QED
      BY <3>2, <3>3
  <2> QED
    BY <1>4, <2>1, <2>2
<1> QED
  BY <1>5, <1>6, <1>7, <1>8, <1>9, <1>10 DEF Lossless

-----------------------------------------------------------------------------
(* Functions that are defined from the end of a text towards its start.    *)

\* What is found at a position is made of what is found at a later one.
Descent(x, n, past, V, v0, next, f) ==
  /\ f \in [x..n -> V] /\ f[n] = v0
  /\ \A q \in x..n : q < n => f[q] = next[q][f[past[q]]]

Later(x, n, past) == \A q \in x..n : q < n => past[q] \in (q + 1)..n

\* There is such a function: seen from the end, a climb.
LEMMA DescentExists ==
  ASSUME NEW n \in Nat, NEW x \in 0..n, NEW past, Later(x, n, past),
         NEW V, NEW v0 \in V, NEW next \in [x..n -> [V -> V]]
  PROVE  \E f : Descent(x, n, past, V, v0, next, f)
<1>1. PICK m \in Nat : m = n - x /\ x \in Nat
  OBVIOUS
<1>2. \A k \in 0..m : n - k \in x..n
  BY <1>1
<1>3. PICK down : down = [k \in 1..m |-> n - past[n - k]]
  OBVIOUS
<1>4. \A k \in 1..m : down[k] \in 0..(k - 1) /\ down[k] = n - past[n - k]
  <2> SUFFICES ASSUME NEW k \in 1..m
               PROVE  down[k] \in 0..(k - 1) /\ down[k] = n - past[n - k]
    OBVIOUS
  <2>1. n - k \in x..n /\ n - k < n
    BY <1>1
  <2>2. past[n - k] \in ((n - k) + 1)..n
    BY <2>1 DEF Later
  <2> QED
    BY <1>1, <1>3, <2>2
<1>5. Roots(m, down)
  BY <1>4 DEF Roots
<1>6. PICK turn : turn = [k \in 1..m |-> next[n - k]]
  OBVIOUS
<1>7. turn \in [1..m -> [V -> V]]
  <2>1. \A k \in 1..m : n - k \in x..n
    BY <1>1
  <2> QED
    BY <1>6, <2>1
<1>8. PICK g : Climb(m, down, V, v0, turn, g)
  BY <1>5, <1>7, ClimbExists
<1> DEFINE f == [q \in x..n |-> g[n - q]]
<1>9. \A q \in x..n : n - q \in 0..m
  BY <1>1
<1>10. f \in [x..n -> V]
  BY <1>8, <1>9 DEF Climb
<1>11. f[n] = v0
  <2>1. n \in x..n /\ n - n = 0
    OBVIOUS
  <2> QED
    BY <1>8, <2>1 DEF Climb
<1>12. ASSUME NEW q \in x..n, q < n PROVE f[q] = next[q][f[past[q]]]
  <2>1. PICK k \in 1..m : k = n - q /\ n - k = q
    BY <1>1, <1>12
  <2>2. past[q] \in x..n
    BY <1>1, <1>12 DEF Later
  <2>3. f[q] = g[k] /\ f[past[q]] = g[n - past[q]]
    BY <2>1, <2>2
  <2>4. g[k] = turn[k][g[down[k]]]
    BY <1>8 DEF Climb
  <2>5. turn[k] = next[q] /\ down[k] = n - past[q]
    BY <1>4, <1>6, <2>1
  <2> QED
    BY <2>3, <2>4, <2>5
<1> HIDE DEF f
<1>13. Descent(x, n, past, V, v0, next, f)
  BY <1>10, <1>11, <1>12 DEF Descent
<1> QED
  BY <1>13

\* What holds at the end and is handed on from later positions, holds everywhere.
LEMMA Backwards ==
  ASSUME NEW n \in Nat, NEW x \in 0..n, NEW Good,
         \A q \in x..n : (\A r \in x..n : q < r => r \in Good) => q \in Good
  PROVE  \A q \in x..n : q \in Good
<1> DEFINE Bad == {k \in Nat : \E q \in x..n : k = n - q /\ q \notin Good}
<1>1. SUFFICES ASSUME NEW q \in x..n, q \notin Good PROVE FALSE
  OBVIOUS
<1>2. n - q \in Bad
  BY <1>1
<1>3. \E k \in Bad : \A j \in Bad : k <= j
  <2>1. Bad \subseteq Nat
    OBVIOUS
  <2> QED
    BY <1>2, <2>1, LeastNatural
<1>4. PICK k \in Bad : \A j \in Bad : k <= j
  BY <1>3
<1>5. PICK r \in x..n : k = n - r /\ r \notin Good
  BY <1>4
<1>6. ASSUME NEW s \in x..n, r < s PROVE s \in Good
  <2>1. SUFFICES ASSUME s \notin Good PROVE FALSE
    OBVIOUS
  <2>2. n - s \in Bad
    BY <2>1
  <2>3. k <= n - s
    BY <1>4, <2>2
  <2> QED
    BY <1>5, <1>6, <2>3
<1> QED
  BY <1>5, <1>6

-----------------------------------------------------------------------------
(* Words with quotes.                                                      *)

\* A turn of getword's loop moves on, and past a quote to the next one or to
\* the end of the text.
LEMMA PastIs ==
  ASSUME NEW t, NEW m, Plain(t, m), NEW q \in Nat, q < Len(t)
  PROVE  /\ P!Past(t, q) \in (q + 1)..Len(t)
         /\ P!C(t, q) = P!Quote =>
              \/ P!Past(t, q) = Len(t)
              \/ \E e \in (q + 1)..(P!Past(t, q) - 1) : P!C(t, e) = P!Quote
<1>1. PICK n \in Nat : n = Len(t) /\ q < n
  BY DEF Plain
<1> DEFINE V == {r \in (q + 1)..n : r = n \/ P!C(t, r) = P!Quote}
           to == IF q + 1 >= n THEN q + 1 ELSE P!Min(V)
<1>2. PICK body : body = IF P!C(t, q) = P!Quote THEN to ELSE q + 1
  OBVIOUS
<1>3. P!Past(t, q) = IF P!C(t, body) = P!Quote THEN body + 1 ELSE body
  BY <1>1, <1>2 DEF P!Past, P!MovedTo
<1>4. Stops(n, q + 1, to, On(t, {P!Quote}))
  <2>1. V = {r \in (q + 1)..n : r = n \/ r \in On(t, {P!Quote})}
    BY DEF On
  <2>2. to = (IF q + 1 >= n THEN q + 1 ELSE P!Min(V)) /\ q + 1 \in Nat
    OBVIOUS
  <2> HIDE DEF V, to
  <2> QED
    BY <2>1, <2>2, Scan
<1> HIDE DEF to
<1>5. to \in (q + 1)..n /\ (to < n => P!C(t, to) = P!Quote)
  BY <1>1, <1>4 DEF Stops, On
<1>6. body \in (q + 1)..n /\ body \in Nat
  BY <1>1, <1>2, <1>5
<1>7. P!C(t, body) = P!Quote => body < n
  <2>1. body >= n => P!C(t, body) = End
    BY <1>1, <1>6, CharAt DEF Plain
  <2>2. End # P!Quote
    BY DEF Plain
  <2> QED
    BY <1>1, <1>6, <2>1, <2>2
<1>8. P!Past(t, q) \in (q + 1)..n
  BY <1>1, <1>3, <1>6, <1>7
<1>9. ASSUME P!C(t, q) = P!Quote
      PROVE  P!Past(t, q) = n \/ \E e \in (q + 1)..(P!Past(t, q) - 1) : P!C(t, e) = P!Quote
  <2>1. body = to
    BY <1>2, <1>9
  <2>2. CASE to < n
    <3>1. P!C(t, to) = P!Quote /\ P!Past(t, q) = to + 1
      BY <1>3, <1>5, <2>1, <2>2
    <3>2. to \in (q + 1)..((to + 1) - 1)
      BY <1>1, <1>5
    <3> QED
      BY <3>1, <3>2
  <2>3. CASE ~(to < n)
    BY <1>1, <1>3, <1>5, <1>7, <2>1, <2>3
  <2> QED
    BY <2>2, <2>3
<1> QED
  BY <1>1, <1>8, <1>9

\* Where the loop is left.
Halts(t, m, q, off) ==
  q = Len(t) \/ P!issplit(m, P!C(t, q)) \/ (P!IsBreak(m, P!C(t, q)) /\ ~off)

LEMMA QuotedEnd ==
  ASSUME NEW t, NEW m, Plain(t, m), NEW x \in Nat
  PROVE  \E y \in Nat :
           /\ y = P!QuotedWordEnd(t, m, x) /\ x <= y /\ (y <= Len(t) \/ y = x)
           /\ P!C(t, x) = P!Quote /\ y # x =>
                y = Len(t) \/ \E e \in (x + 1)..(y - 1) : P!C(t, e) = P!Quote
<1>1. PICK n \in Nat : n = Len(t)
  BY DEF Plain
<1>2. CASE x >= n
  <2>1. P!QuotedWordEnd(t, m, x) = x
    BY <1>1, <1>2 DEF P!QuotedWordEnd
  <2> QED
    BY <2>1
<1>3. CASE ~(x >= n)
  <2>0. x \in 0..n /\ x < n /\ x \in x..n
    BY <1>3
  <2> DEFINE Turned(q, off) == P!Switched(m, off, P!C(t, q))
             Is(f) == f = [q \in x..n |-> [off \in BOOLEAN |->
                             IF Halts(t, m, q, off) THEN q ELSE f[P!Past(t, q)][Turned(q, off)]]]
             end == CHOOSE f : Is(f)
  <2>1. P!QuotedWordEnd(t, m, x) = end[x][FALSE]
    BY <1>1, <1>3 DEF P!QuotedWordEnd, Halts
  <2>2. PICK past : past = [q \in x..n |-> P!Past(t, q)]
    OBVIOUS
  <2>3. \A q \in x..n : q < n => q \in Nat /\ past[q] = P!Past(t, q) /\ P!Past(t, q) \in (q + 1)..n
    BY <1>1, <2>0, <2>2, PastIs
  <2>4. \A q, off : Turned(q, off) \in BOOLEAN
    BY Zenon DEF P!Switched
  <2> HIDE DEF Turned
  <2>5. \E f : Is(f)
    <3> DEFINE V == [BOOLEAN -> Nat]
    <3>1. PICK v0 : v0 = [off \in BOOLEAN |-> n]
      OBVIOUS
    <3>2. PICK next : next = [q \in x..n |-> [v \in V |-> [off \in BOOLEAN |->
                                IF Halts(t, m, q, off) THEN q ELSE v[Turned(q, off)]]]]
      OBVIOUS
    <3>3. v0 \in V
      BY <3>1
    <3>4. next \in [x..n -> [V -> V]]
      <4>1. \A q \in x..n : q \in Nat
        BY <2>0
      <4>2. \A q \in x..n : \A v \in V : \A off \in BOOLEAN :
              (IF Halts(t, m, q, off) THEN q ELSE v[Turned(q, off)]) \in Nat
        BY <2>4, <4>1
      <4> QED
        BY <3>2, <4>2
    <3> HIDE DEF V
    <3>5. Later(x, n, past)
      BY <2>3 DEF Later
    <3>6. PICK f : Descent(x, n, past, V, v0, next, f)
      BY <2>0, <3>3, <3>4, <3>5, DescentExists
    <3>7. \A q \in x..n : f[q] \in V
      BY <3>6 DEF Descent
    <3>8. ASSUME NEW q \in x..n
          PROVE  f[q] = [off \in BOOLEAN |->
                           IF Halts(t, m, q, off) THEN q ELSE f[P!Past(t, q)][Turned(q, off)]]
      <4>1. CASE q = n
        <5>1. \A off : Halts(t, m, q, off)
          BY <1>1, <4>1 DEF Halts
        <5> QED
          BY <3>1, <3>6, <4>1, <5>1 DEF Descent
      <4>2. CASE q < n
        <5>1. past[q] \in x..n /\ past[q] = P!Past(t, q)
          BY <2>0, <2>3, <4>2
        <5>2. f[q] = next[q][f[past[q]]]
          BY <3>6, <4>2 DEF Descent
        <5> QED
          BY <3>2, <3>7, <5>1, <5>2
      <4>3. q = n \/ q < n
        BY <2>0
      <4> QED
        BY <4>1, <4>2, <4>3
    <3>9. Is(f)
      <4>1. f = [q \in x..n |-> f[q]]
        BY <3>6 DEF Descent
      <4> QED
        BY <3>8, <4>1
    <3> HIDE DEF Is
    <3> QED
      BY <3>9, Zenon
  <2>6. Is(end)
    <3> HIDE DEF Is
    <3> QED
      BY <2>5, Zenon
  <2> HIDE DEF end
  <2>7. \A q \in x..n : \A off \in BOOLEAN :
          end[q][off] = IF Halts(t, m, q, off) THEN q ELSE end[P!Past(t, q)][Turned(q, off)]
    <3> SUFFICES ASSUME NEW q \in x..n
                 PROVE  end[q] = [off \in BOOLEAN |-> IF Halts(t, m, q, off) THEN q
                                                    ELSE end[P!Past(t, q)][Turned(q, off)]]
      OBVIOUS
    <3> QED
      BY <2>6
  <2> HIDE DEF Is
  <2> DEFINE Good == {q \in x..n : \A off \in BOOLEAN : end[q][off] \in q..n}
  <2>8. \A q \in x..n : q \in Good
    <3>1. ASSUME NEW q \in x..n, \A r \in x..n : q < r => r \in Good PROVE q \in Good
      <4> SUFFICES ASSUME NEW off \in BOOLEAN PROVE end[q][off] \in q..n
        OBVIOUS
      <4>1. CASE Halts(t, m, q, off)
        BY <2>0, <2>7, <4>1
      <4>2. CASE ~Halts(t, m, q, off)
        <5>1. q < n
          BY <1>1, <2>0, <4>2 DEF Halts
        <5>2. P!Past(t, q) \in x..n /\ q < P!Past(t, q)
          BY <2>0, <2>3, <5>1
        <5>3. end[P!Past(t, q)][Turned(q, off)] \in P!Past(t, q)..n
          BY <2>4, <3>1, <5>2
        <5> QED
          BY <2>0, <2>7, <4>2, <5>2, <5>3
      <4> QED
        BY <4>1, <4>2
    <3> HIDE DEF Good
    <3> QED
      BY <2>0, <3>1, Backwards
  <2>9. PICK y \in x..n : y = end[x][FALSE]
    BY <2>0, <2>8
  <2>10. ASSUME P!C(t, x) = P!Quote, y # x
         PROVE  y = n \/ \E e \in (x + 1)..(y - 1) : P!C(t, e) = P!Quote
    <3>1. ~Halts(t, m, x, FALSE)
      BY <2>0, <2>7, <2>9, <2>10
    <3>2. PICK z : z = P!Past(t, x) /\ z \in x..n /\ z >= x + 1
      BY <2>0, <2>3
    <3>3. y = end[z][Turned(x, FALSE)]
      BY <2>0, <2>7, <2>9, <3>1, <3>2
    <3>4. y \in z..n
      BY <2>4, <2>8, <3>2, <3>3
    <3>5. z = n \/ \E e \in (x + 1)..(z - 1) : P!C(t, e) = P!Quote
      BY <1>1, <2>0, <2>10, <3>2, PastIs
    <3> QED
      BY <2>0, <3>2, <3>4, <3>5
  <2>11. y = P!QuotedWordEnd(t, m, x)
    BY <2>1, <2>9, Zenon
  <2>12. y \in Nat /\ x <= y /\ y <= n
    OBVIOUS
  <2> HIDE DEF Good
  <2> QED
    BY <1>1, <2>10, <2>11, <2>12
<1> QED
  BY <1>2, <1>3

\* getword with quotes.
LEMMA QuotedCut ==
  ASSUME NEW t, NEW m, Plain(t, m), NEW p \in Nat, m.nospace
  PROVE  \E x, y \in Nat :
           /\ Stops(Len(t), p, x, Off(t, m.splits))
           /\ y = P!QuotedWordEnd(t, m, x)
           /\ P!Word(t, m, p) = [ord |-> P!Substr(t, x, y - x), ptr |-> y]
<1>1. PICK n \in Nat : n = Len(t)
  BY DEF Plain
<1> DEFINE V == {q \in p..n : q = n \/ ~P!issplit(m, P!C(t, q))}
           x == IF p >= n THEN p ELSE P!Min(V)
<1>2. P!Word(t, m, p) = P!Cut(t, x, P!QuotedWordEnd(t, m, x), 0)
  BY <1>1 DEF P!Word, P!MovedTo
<1>3. V = {q \in p..n : q = n \/ q \in Off(t, m.splits)}
  BY DEF Off, P!issplit
<1>4. x = IF p >= n THEN p ELSE P!Min(V)
  OBVIOUS
<1> HIDE DEF V, x
<1>5. Stops(n, p, x, Off(t, m.splits))
  BY <1>3, <1>4, Scan
<1>6. x \in Nat
  BY <1>5 DEF Stops
<1>7. PICK y \in Nat : y = P!QuotedWordEnd(t, m, x)
  BY <1>6, QuotedEnd
<1>8. P!Cut(t, x, y, 0) = [ord |-> P!Substr(t, x, y - x), ptr |-> y]
  BY DEF P!Cut
<1> QED
  BY <1>1, <1>2, <1>5, <1>6, <1>7, <1>8

-----------------------------------------------------------------------------
(* What the calls of a Parse pass over and return.                         *)

Endings(m) == Spaces(m) \cup {m.break}

\* A call that leaves the cursor at z has lost nothing.
Keeps(t, m, p, z, returned, Skip) ==
  /\ z \in Nat /\ z >= p
  /\ Lossless(P!Substr(t, p, z - p), returned, Skip, Endings(m))

LEMMA PassesKeep ==
  ASSUME NEW t, NEW m, Plain(t, m), NEW p, NEW x, NEW y, NEW z, NEW Skip,
         Passes(t, p, x, y, z, Skip, Endings(m))
  PROVE  Keeps(t, m, p, z, P!Substr(t, x, y - x), Skip)
<1>1. Lossless(P!Substr(t, p, z - p), P!Substr(t, x, y - x), Skip, Endings(m))
  BY PassesAll DEF Plain
<1>2. z \in Nat /\ z >= p
  BY DEF Passes
<1> QED
  BY <1>1, <1>2 DEF Keeps

LEMMA NothingBetween ==
  ASSUME NEW t \in Seq(STRING), NEW p \in Nat
  PROVE  P!Substr(t, p, p - p) = << >>
<1>1. PICK n \in Nat, c \in Nat : n = Len(t) /\ c = Clip(n, p)
  BY DEF Clip
<1>2. P!Substr(t, p, p - p) = Stretch(t, c, c) /\ c <= n
  BY <1>1, SubstrIs DEF Clip
<1> QED
  BY <1>1, <1>2, StretchOne

\* A character is returned by itself.
LEMMA OneBetween ==
  ASSUME NEW t \in Seq(STRING), NEW p \in Nat, p < Len(t)
  PROVE  P!Substr(t, p, (p + 1) - p) = <<P!C(t, p)>>
<1>1. PICK n \in Nat, q \in Nat : n = Len(t) /\ q = p + 1 /\ Clip(n, p) = p /\ Clip(n, q) = q
  BY DEF Clip
<1>2. P!Substr(t, p, q - p) = Stretch(t, p, q)
  BY <1>1, SubstrIs
<1> QED
  BY <1>1, <1>2, StretchOne

\* What a call may skip before a word.
Before(m) == IF m.nospace THEN m.splits ELSE Spaces(m)

LEMMA WordKept ==
  ASSUME NEW t, NEW m, Plain(t, m), NEW p \in Nat, NEW r, r = P!Word(t, m, p)
  PROVE  Keeps(t, m, p, r.ptr, r.ord, Before(m))
<1>1. PICK n \in Nat : n = Len(t)
  BY DEF Plain
<1>2. CASE m.nospace
  <2>1. PICK x \in Nat, y \in Nat :
          /\ Stops(Len(t), p, x, Off(t, m.splits))
          /\ y = P!QuotedWordEnd(t, m, x)
          /\ r = [ord |-> P!Substr(t, x, y - x), ptr |-> y]
    BY <1>2, QuotedCut
  <2>2. x <= y
    BY <2>1, QuotedEnd
  <2>3. Passes(t, p, x, y, y, Before(m), Endings(m))
    BY <1>2, <2>1, <2>2 DEF Passes, Stops, Off, Before
  <2> QED
    BY <2>1, <2>3, PassesKeep
<1>3. CASE ~m.nospace /\ P!IsBreak(m, P!C(t, p))
  <2>1. r = [ord |-> << >>, ptr |-> p + 1]
    BY <1>3 DEF P!Word
  <2>2. P!C(t, p) \in Endings(m)
    BY <1>3 DEF P!IsBreak, Endings
  <2>3. Passes(t, p, p, p, p + 1, Before(m), Endings(m))
    BY <2>2 DEF Passes
  <2>4. P!Substr(t, p, p - p) = << >>
    BY NothingBetween DEF Plain
  <2>5. Keeps(t, m, p, p + 1, P!Substr(t, p, p - p), Before(m))
    BY <2>3, PassesKeep
  <2> QED
    BY <2>1, <2>4, <2>5
<1>4. CASE ~m.nospace /\ ~P!IsBreak(m, P!C(t, p))
  <2>1. PICK x \in Nat, y \in Nat :
          /\ Stops(Len(t), p, x, Off(t, Spaces(m)))
          /\ Stops(Len(t), x, y, WordStops(t, m, x))
          /\ r = [ord |-> P!Substr(t, x, y - x), ptr |-> y + 1]
    BY <1>4, WordCut
  <2>2. y < n => P!C(t, y) \in Endings(m)
    BY <1>1, <2>1 DEF Stops, WordStops, P!IsBreak, Endings
  <2>3. p <= x /\ x <= y /\ \A j \in Nat : p <= j /\ j < x => P!C(t, j) \in Before(m)
    BY <1>4, <2>1 DEF Stops, Off, Before
  <2>4. Passes(t, p, x, y, y + 1, Before(m), Endings(m))
    BY <1>1, <2>2, <2>3 DEF Passes
  <2> QED
    BY <2>1, <2>4, PassesKeep
<1> QED
  BY <1>2, <1>3, <1>4

LEMMA PieceKept ==
  ASSUME NEW t, NEW m, Plain(t, m), NEW p \in Nat, NEW r, r = P!Piece(t, m, p)
  PROVE  Keeps(t, m, p, r.ptr, r.ord, m.splits)
<1>1. PICK n \in Nat : n = Len(t) /\ t \in Seq(STRING) /\ End # P!Equals
  BY DEF Plain
<1>2. PICK x \in Nat, y \in Nat : /\ Stops(n, p, x, Off(t, m.splits))
                                  /\ Stops(n, x, y, On(t, m.splits \cup {P!Equals}))
                                  /\ r = PieceAt(t, p, x, y)
  BY <1>1, PieceCut
<1>3. \A q \in Nat : P!C(t, q) = P!Equals => q < n /\ P!Substr(t, q, (q + 1) - q) = <<P!Equals>>
  <2> SUFFICES ASSUME NEW q \in Nat, P!C(t, q) = P!Equals
               PROVE  q < n /\ P!Substr(t, q, (q + 1) - q) = <<P!Equals>>
    OBVIOUS
  <2>1. q < n
    BY <1>1, CharAt
  <2> QED
    BY <1>1, <2>1, OneBetween
<1>4. p <= x /\ x <= y /\ \A j \in Nat : p <= j /\ j < x => P!C(t, j) \in m.splits
  BY <1>2 DEF Stops, Off
<1>5. CASE P!C(t, p) = P!Equals
  <2>1. r = [ord |-> <<P!Equals>>, ptr |-> p + 1]
    BY <1>2, <1>5 DEF PieceAt
  <2>2. Passes(t, p, p, p + 1, p + 1, m.splits, Endings(m))
    BY DEF Passes
  <2>3. Keeps(t, m, p, p + 1, P!Substr(t, p, (p + 1) - p), m.splits)
    BY <2>2, PassesKeep
  <2> QED
    BY <1>3, <1>5, <2>1, <2>3
<1>6. CASE P!C(t, p) # P!Equals /\ x = y /\ P!C(t, y) = P!Equals
  <2>1. r = [ord |-> <<P!Equals>>, ptr |-> y + 1]
    BY <1>2, <1>6 DEF PieceAt
  <2>2. Passes(t, p, y, y + 1, y + 1, m.splits, Endings(m))
    BY <1>4, <1>6 DEF Passes
  <2>3. Keeps(t, m, p, y + 1, P!Substr(t, y, (y + 1) - y), m.splits)
    BY <2>2, PassesKeep
  <2> QED
    BY <1>3, <1>6, <2>1, <2>3
<1>7. CASE P!C(t, p) # P!Equals /\ ~(x = y /\ P!C(t, y) = P!Equals)
  <2>1. r = [ord |-> P!Substr(t, x, y - x), ptr |-> y]
    BY <1>2, <1>7 DEF PieceAt
  <2>2. Passes(t, p, x, y, y, m.splits, Endings(m))
    BY <1>4 DEF Passes
  <2> QED
    BY <2>1, <2>2, PassesKeep
<1> QED
  BY <1>5, <1>6, <1>7

\* getrest passes only what it skips.
LEMMA RestKept ==
  ASSUME NEW t, NEW m, Plain(t, m), NEW p \in Nat, NEW r, r = P!Rest(t, m, p)
  PROVE  Keeps(t, m, p, r.ptr, << >>, {P!Blank} \cup m.splits)
<1>1. PICK x \in Nat : /\ Stops(Len(t), p, x, Off(t, {P!Blank} \cup m.splits))
                       /\ r = [ord |-> P!Substr(t, x, Len(t)), ptr |-> x]
  BY RestCut
<1>2. Passes(t, p, x, x, x, {P!Blank} \cup m.splits, Endings(m))
  BY <1>1 DEF Passes, Stops, Off
<1>3. Keeps(t, m, p, x, P!Substr(t, x, x - x), {P!Blank} \cup m.splits)
  BY <1>2, PassesKeep
<1>4. P!Substr(t, x, x - x) = << >>
  BY NothingBetween DEF Plain
<1> QED
  BY <1>1, <1>3, <1>4

LEMMA LineKept ==
  ASSUME NEW t, NEW m, Plain(t, m), NEW p \in Nat, NEW r, r = P!Line(t, p)
  PROVE  Keeps(t, m, p, r.ptr, r.ord, {})
<1>1. PICK y \in Nat : /\ Stops(Len(t), p, y, On(t, {P!Newline}))
                       /\ r = [ord |-> P!Substr(t, p, y - p),
                               ptr |-> IF P!C(t, y) = P!Newline THEN y + 1 ELSE y]
  BY LineCut
<1>2. P!Newline \in Endings(m)
  BY DEF Endings, Spaces, P!Whitespace
<1>3. p <= y
  BY <1>1 DEF Stops
<1>4. PICK z : z = IF P!C(t, y) = P!Newline THEN y + 1 ELSE y
  OBVIOUS
<1>5. Passes(t, p, p, y, z, {}, Endings(m))
  BY <1>2, <1>3, <1>4 DEF Passes
<1>6. Keeps(t, m, p, z, P!Substr(t, p, y - p), {})
  BY <1>5, PassesKeep
<1> QED
  BY <1>1, <1>4, <1>6

\* A text in which no word is ended by a break character.
Unbroken(t, m) == \A q \in Nat : ~P!IsBreak(m, P!C(t, q))

\* The next longest run of characters that are no separators.
NextRun(t, m, p, r) ==
  \E x, y \in p..(IF p > Len(t) THEN p ELSE Len(t)) :
    /\ P!Range(P!Substr(t, p, x - p)) \subseteq Spaces(m)
    /\ P!C(t, x) \notin Spaces(m)
    /\ P!Range(P!Substr(t, x, y - x)) \cap Spaces(m) = {}
    /\ P!C(t, y) \in Spaces(m) \cup {End}
    /\ r.ord = P!Substr(t, x, y - x) /\ r.ptr = y + 1

LEMMA SubstrSet ==
  ASSUME NEW t \in Seq(STRING), NEW a \in Nat, NEW b \in Nat, a <= b, NEW c \in P!Range(P!Substr(t, a, b - a))
  PROVE  \E j \in Nat : a <= j /\ j < b /\ j < Len(t) /\ c = P!C(t, j)
<1>1. PICK n \in Nat, d \in Nat, e \in Nat : n = Len(t) /\ d = Clip(n, a) /\ e = Clip(n, b)
  BY DEF Clip
<1>2. P!Substr(t, a, b - a) = Stretch(t, d, e) /\ e \in 0..Len(t) /\ d \in 0..e
  BY <1>1, SubstrIs
<1>3. PICK j \in d..(e - 1) : c = P!C(t, j)
  BY <1>2, StretchSet
<1>4. j \in Nat /\ a <= j /\ j < b /\ j < n
  BY <1>1, <1>2 DEF Clip
<1> QED
  BY <1>1, <1>3, <1>4

LEMMA WordIsRun ==
  ASSUME NEW t, NEW m, Plain(t, m), NEW p \in Nat, ~m.nospace, Unbroken(t, m)
  PROVE  NextRun(t, m, p, P!Word(t, m, p))
<1>1. PICK n \in Nat : n = Len(t) /\ t \in Seq(STRING)
  BY DEF Plain
<1>2. End \notin Spaces(m)
  BY DEF Plain, Spaces, P!Whitespace
<1>3. PICK x \in Nat, y \in Nat :
        /\ Stops(n, p, x, Off(t, Spaces(m)))
        /\ Stops(n, x, y, WordStops(t, m, x))
        /\ P!Word(t, m, p) = [ord |-> P!Substr(t, x, y - x), ptr |-> y + 1]
  BY <1>1, WordCut DEF Unbroken
<1>4. \A q \in Nat : q \in WordStops(t, m, x) <=> P!C(t, q) \in Spaces(m)
  BY DEF WordStops, Unbroken
<1>5. \A q \in Nat : q >= n => P!C(t, q) = End
  BY <1>1, CharAt
<1>6. /\ p <= x /\ x <= y /\ (x <= n \/ x = p) /\ (y <= n \/ y = x)
      /\ x < n => P!C(t, x) \notin Spaces(m)
      /\ y < n => P!C(t, y) \in Spaces(m)
      /\ \A j \in Nat : p <= j /\ j < x => P!C(t, j) \in Spaces(m)
      /\ \A j \in Nat : x <= j /\ j < y => P!C(t, j) \notin Spaces(m)
  BY <1>3, <1>4 DEF Stops, Off
<1>7. x \in p..(IF p > n THEN p ELSE n) /\ y \in p..(IF p > n THEN p ELSE n)
  BY <1>6
<1>8. P!Range(P!Substr(t, p, x - p)) \subseteq Spaces(m)
  <2>1. \A c \in P!Range(P!Substr(t, p, x - p)) :
          \E j \in Nat : p <= j /\ j < x /\ j < Len(t) /\ c = P!C(t, j)
    BY <1>1, <1>6, SubstrSet
  <2> QED
    BY <1>6, <2>1
<1>9. P!Range(P!Substr(t, x, y - x)) \cap Spaces(m) = {}
  <2>1. \A c \in P!Range(P!Substr(t, x, y - x)) :
          \E j \in Nat : x <= j /\ j < y /\ j < Len(t) /\ c = P!C(t, j)
    BY <1>1, <1>6, SubstrSet
  <2> QED
    BY <1>6, <2>1
<1>10. P!C(t, x) \notin Spaces(m)
  BY <1>2, <1>5, <1>6
<1>11. P!C(t, y) \in Spaces(m) \cup {End}
  BY <1>5, <1>6
<1>12. P!Word(t, m, p).ord = P!Substr(t, x, y - x) /\ P!Word(t, m, p).ptr = y + 1
  BY <1>3
<1> QED
  BY <1>1, <1>7, <1>8, <1>9, <1>10, <1>11, <1>12 DEF NextRun

\* A field begins at the start of the text or behind a break character.
FieldAt(t, m, p) == p = 0 \/ p > Len(t) \/ t[p] = m.break

\* A text of fields, with no separators and no switches.
OfFields(t, m) ==
  m.break # End /\ P!Range(t) \cap (Spaces(m) \cup {m.disable, m.enable}) = {}

LEMMA WordIsField ==
  ASSUME NEW t, NEW m, Plain(t, m), NEW p \in Nat, ~m.nospace, OfFields(t, m),
         NEW r, r = P!Word(t, m, p)
  PROVE  /\ r.ptr \in Nat /\ FieldAt(t, m, r.ptr) /\ r.ptr > p
         /\ m.break \notin P!Range(r.ord) /\ r.ord = P!Substr(t, p, (r.ptr - 1) - p)
<1>1. PICK n \in Nat : n = Len(t) /\ t \in Seq(STRING)
  BY DEF Plain
<1>2. \A q \in Nat : q < n => P!C(t, q) = t[q + 1] /\ P!C(t, q) \notin Spaces(m)
                               /\ P!C(t, q) # m.disable
  <2> SUFFICES ASSUME NEW q \in Nat, q < n
               PROVE  P!C(t, q) = t[q + 1] /\ P!C(t, q) \in P!Range(t)
    BY DEF OfFields
  <2> QED
    BY <1>1, CharAt
<1>3. CASE P!IsBreak(m, P!C(t, p))
  <2>1. r = [ord |-> << >>, ptr |-> p + 1]
    BY <1>3 DEF P!Word
  <2>2. FieldAt(t, m, p + 1)
    <3>1. p < n => t[p + 1] = m.break
      BY <1>2, <1>3 DEF P!IsBreak
    <3>2. p < n \/ p + 1 > n
      OBVIOUS
    <3> QED
      BY <1>1, <3>1, <3>2 DEF FieldAt
  <2>3. P!Substr(t, p, p - p) = << >> /\ (p + 1) - 1 = p
    BY <1>1, NothingBetween
  <2>4. P!Range(<< >>) = {}
    BY DEF P!Range
  <2> QED
    BY <2>1, <2>2, <2>3, <2>4
<1>4. CASE ~P!IsBreak(m, P!C(t, p))
  <2>1. PICK x \in Nat, y \in Nat :
          /\ Stops(n, p, x, Off(t, Spaces(m)))
          /\ Stops(n, x, y, WordStops(t, m, x))
          /\ r = [ord |-> P!Substr(t, x, y - x), ptr |-> y + 1]
    BY <1>1, <1>4, WordCut
  <2>2. x = p
    <3>1. p <= x /\ (x <= n \/ x = p) /\ \A j \in Nat : p <= j /\ j < x => P!C(t, j) \in Spaces(m)
      BY <2>1 DEF Stops, Off
    <3>2. p < x => P!C(t, p) \in Spaces(m) /\ p < n
      BY <3>1
    <3> QED
      BY <1>2, <3>1, <3>2
  <2>3. \A q \in Nat : q <= n => ~P!Disabled(t, m, p, q)
    <3> SUFFICES ASSUME NEW q \in Nat, q <= n, NEW i \in p..(q - 1), P!C(t, i) = m.disable
                 PROVE  FALSE
      BY DEF P!Disabled
    <3>1. i \in Nat /\ i < n
      OBVIOUS
    <3> QED
      BY <1>2, <3>1
  <2>4. \A q \in Nat : q < n => (q \in WordStops(t, m, p) <=> P!C(t, q) = m.break)
    BY <1>2, <2>3 DEF WordStops, P!IsBreak, OfFields
  <2>5. /\ p <= y /\ (y <= n \/ y = p) /\ (y < n => P!C(t, y) = m.break)
        /\ \A j \in Nat : p <= j /\ j < y /\ j < n => P!C(t, j) # m.break
    BY <2>1, <2>2, <2>4 DEF Stops
  <2>6. FieldAt(t, m, y + 1)
    <3>1. y < n => t[y + 1] = m.break
      BY <1>2, <2>5
    <3>2. y < n \/ y + 1 > n
      OBVIOUS
    <3> QED
      BY <1>1, <3>1, <3>2 DEF FieldAt
  <2>7. m.break \notin P!Range(P!Substr(t, p, y - p))
    <3> SUFFICES ASSUME m.break \in P!Range(P!Substr(t, p, y - p)) PROVE FALSE
      OBVIOUS
    <3>1. \A c \in P!Range(P!Substr(t, p, y - p)) :
            \E j \in Nat : p <= j /\ j < y /\ j < Len(t) /\ c = P!C(t, j)
      BY <1>1, <2>5, SubstrSet
    <3> QED
      BY <1>1, <2>5, <3>1
  <2>8. r.ord = P!Substr(t, p, y - p) /\ r.ptr = y + 1 /\ (y + 1) - 1 = y
    BY <2>1, <2>2
  <2> QED
    BY <2>5, <2>6, <2>7, <2>8
<1> QED
  BY <1>3, <1>4

\* A word that begins with a quote goes on to the next one.
LEMMA WordHoldsTogether ==
  ASSUME NEW t, NEW m, Plain(t, m), NEW p \in Nat, m.nospace,
         NEW r, r = P!Word(t, m, p), r.ord # << >>, r.ord[1] = P!Quote
  PROVE  r.ptr = Len(t) \/ \E q \in 2..Len(r.ord) : r.ord[q] = P!Quote
<1>1. PICK n \in Nat : n = Len(t) /\ t \in Seq(STRING)
  BY DEF Plain
<1>2. PICK x \in Nat, y \in Nat :
        /\ y = P!QuotedWordEnd(t, m, x)
        /\ r = [ord |-> P!Substr(t, x, y - x), ptr |-> y]
  BY QuotedCut
<1>3. /\ x <= y /\ (y <= n \/ y = x)
      /\ P!C(t, x) = P!Quote /\ y # x =>
           y = n \/ \E e \in (x + 1)..(y - 1) : P!C(t, e) = P!Quote
  <2>1. PICK z \in Nat :
          /\ z = P!QuotedWordEnd(t, m, x) /\ x <= z /\ (z <= Len(t) \/ z = x)
          /\ P!C(t, x) = P!Quote /\ z # x =>
               z = Len(t) \/ \E e \in (x + 1)..(z - 1) : P!C(t, e) = P!Quote
    BY QuotedEnd
  <2>2. z = y
    BY <1>2, <2>1
  <2> QED
    BY <1>1, <2>1, <2>2
<1>4. y # x
  <2>1. P!Substr(t, x, x - x) = << >>
    BY <1>1, NothingBetween
  <2> QED
    BY <1>2, <2>1
<1>5. x < y /\ y <= n
  BY <1>3, <1>4
<1>6. r.ord = Stretch(t, x, y)
  <2>1. P!Substr(t, x, y - x) = Stretch(t, Clip(n, x), Clip(n, y))
    BY <1>1, <1>5, SubstrIs
  <2>2. Clip(n, x) = x /\ Clip(n, y) = y
    BY <1>5 DEF Clip
  <2> QED
    BY <1>2, <2>1, <2>2
<1>7. Len(r.ord) = y - x /\ \A i \in 1..(y - x) : r.ord[i] = t[x + i]
  <2>1. y \in 0..Len(t) /\ x \in 0..y
    BY <1>1, <1>5
  <2> QED
    BY <1>1, <1>6, <2>1, StretchIs
<1>8. ASSUME NEW e \in x..(y - 1)
      PROVE  e + 1 - x \in 1..(y - x) /\ r.ord[e + 1 - x] = P!C(t, e)
  <2>1. e + 1 - x \in 1..(y - x) /\ x + (e + 1 - x) = e + 1 /\ e \in Nat /\ e < n
    BY <1>5
  <2>2. P!C(t, e) = t[e + 1]
    BY <1>1, <2>1, CharAt
  <2> QED
    BY <1>7, <2>1, <2>2
<1>9. P!C(t, x) = P!Quote
  <2>1. x \in x..(y - 1) /\ x + 1 - x = 1
    BY <1>5
  <2> QED
    BY <1>8, <2>1
<1>10. CASE y = n
  BY <1>1, <1>2, <1>10
<1>11. ASSUME NEW e \in (x + 1)..(y - 1), P!C(t, e) = P!Quote
       PROVE  \E q \in 2..Len(r.ord) : r.ord[q] = P!Quote
  <2>1. e \in x..(y - 1) /\ e + 1 - x \in 2..(y - x)
    BY <1>5
  <2>2. r.ord[e + 1 - x] = P!Quote
    BY <1>8, <1>11, <2>1
  <2> QED
    BY <1>7, <2>1, <2>2
<1> QED
  BY <1>3, <1>4, <1>9, <1>10, <1>11

\* A cursor stops at one position.
LEMMA StopsOnce ==
  ASSUME NEW n \in Nat, NEW p \in Nat, NEW y, NEW z, NEW S, NEW V,
         Stops(n, p, y, S), Stops(n, p, z, V), \A q \in Nat : q < n => (q \in S <=> q \in V)
  PROVE  y = z
<1>1. /\ y \in Nat /\ p <= y /\ (y <= n \/ y = p) /\ (y < n => y \in S)
      /\ \A j \in Nat : p <= j /\ j < y => j \notin S
  BY DEF Stops
<1>2. /\ z \in Nat /\ p <= z /\ (z <= n \/ z = p) /\ (z < n => z \in V)
      /\ \A j \in Nat : p <= j /\ j < z => j \notin V
  BY DEF Stops
<1>3. ~(y < z)
  BY <1>1, <1>2
<1>4. ~(z < y)
  BY <1>1, <1>2
<1> QED
  BY <1>1, <1>2, <1>3, <1>4

\* getwordlen announces what getword returns.
LEMMA WordMeasured ==
  ASSUME NEW t, NEW m, Plain(t, m), NEW p \in Nat, ~m.nospace, Unbroken(t, m)
  PROVE  P!WordLen(t, m, p) = Len(P!Word(t, m, p).ord)
<1>1. PICK n \in Nat : n = Len(t) /\ t \in Seq(STRING)
  BY DEF Plain
<1>2. PICK x \in Nat, y \in Nat :
        /\ Stops(n, p, x, Off(t, Spaces(m)))
        /\ Stops(n, x, y, WordStops(t, m, x))
        /\ P!Word(t, m, p) = [ord |-> P!Substr(t, x, y - x), ptr |-> y + 1]
  BY <1>1, WordCut DEF Unbroken
<1>3. PICK a \in Nat, b \in Nat :
        /\ Stops(n, p, a, Off(t, Spaces(m)))
        /\ Stops(n, a, b, On(t, Ends(m)))
        /\ P!WordLen(t, m, p) = b - a
  <2>1. PICK a \in Nat, b \in Nat :
          /\ Stops(Len(t), p, a, Off(t, Spaces(m)))
          /\ Stops(Len(t), a, b, On(t, Ends(m)))
          /\ P!WordLen(t, m, p) = IF \/ P!IsBreak(m, P!C(t, p))
                                     \/ (a = b /\ P!IsBreak(m, P!C(t, b)))
                                  THEN 1 ELSE b - a
    BY WordLenCut
  <2>2. ~P!IsBreak(m, P!C(t, p)) /\ ~P!IsBreak(m, P!C(t, b))
    BY DEF Unbroken
  <2>3. P!WordLen(t, m, p) = b - a
    BY <2>1, <2>2
  <2> QED
    BY <1>1, <2>1, <2>3
<1>4. x = a
  BY <1>2, <1>3, StopsOnce
<1>5. y = b
  <2>1. \A q \in Nat : q < n => (q \in WordStops(t, m, x) <=> q \in On(t, Ends(m)))
    BY DEF WordStops, On, Ends, Unbroken, P!IsBreak
  <2> QED
    BY <1>2, <1>3, <1>4, <2>1, StopsOnce
<1>6. Len(P!Substr(t, x, y - x)) = y - x
  <2>1. x <= y /\ (y <= n \/ y = x)
    BY <1>2 DEF Stops
  <2>2. CASE y = x
    <3>1. P!Substr(t, x, y - x) = << >>
      BY <1>1, <2>2, NothingBetween
    <3> QED
      BY <2>2, <3>1
  <2>3. CASE y <= n
    <3>1. P!Substr(t, x, y - x) = Stretch(t, Clip(n, x), Clip(n, y))
      BY <1>1, <2>1, SubstrIs
    <3>2. Clip(n, x) = x /\ Clip(n, y) = y
      BY <2>1, <2>3 DEF Clip
    <3>3. y \in 0..Len(t) /\ x \in 0..y
      BY <1>1, <2>1, <2>3
    <3> QED
      BY <1>1, <3>1, <3>2, <3>3, StretchIs
  <2> QED
    BY <2>1, <2>2, <2>3
<1> QED
  BY <1>2, <1>3, <1>4, <1>5, <1>6

\* getrestlen announces what getrest returns.
LEMMA RestMeasured ==
  ASSUME NEW t, NEW m, Plain(t, m), NEW p \in Nat, p <= Len(t)
  PROVE  Len(t) - P!Rest(t, m, p).ptr = Len(P!Rest(t, m, p).ord)
<1>1. PICK n \in Nat : n = Len(t) /\ t \in Seq(STRING)
  BY DEF Plain
<1>2. PICK x \in Nat : /\ Stops(n, p, x, Off(t, {P!Blank} \cup m.splits))
                       /\ P!Rest(t, m, p) = [ord |-> P!Substr(t, x, n), ptr |-> x]
  BY <1>1, RestCut
<1>3. x <= n
  BY <1>1, <1>2 DEF Stops
<1>4. PICK z \in Nat : z = x + n /\ z - x = n /\ x <= z /\ Clip(n, x) = x /\ Clip(n, z) = n
  BY <1>3 DEF Clip
<1>5. P!Substr(t, x, z - x) = Stretch(t, x, n)
  BY <1>1, <1>4, SubstrIs
<1>6. n \in 0..Len(t) /\ x \in 0..n
  BY <1>1, <1>3
<1>7. Len(Stretch(t, x, n)) = n - x
  BY <1>1, <1>6, StretchIs
<1> QED
  BY <1>1, <1>2, <1>4, <1>5, <1>7

\* What a Parse is set up with, where its cursor is, and what it last announced.
TokInv ==
  /\ reader # "parse" => call = "none"
  /\ reader = "parse" =>
       /\ Plain(text, mode) /\ ptr \in Nat
       /\ DOMAIN mode = {"splits", "nospace", "break", "disable", "enable"}
       /\ call = "wordlen" => len = P!WordLen(text, mode, ptr)
       /\ call = "restlen" => len \in P!RestLens(text, mode, ptr)

LEMMA TokInit == Init => TokInv
<1> SUFFICES ASSUME Init PROVE TokInv
  OBVIOUS
<1>1. CASE reader # "parse"
  <2>1. call = "none"
    BY <1>1 DEF Init, NotParsing
  <2> QED
    BY <1>1, <2>1 DEF TokInv
<1>2. CASE reader = "parse"
  <2>1. P!Init
    BY <1>2 DEF Init
  <2>2. PICK s \in Sessions : text = s.text /\ mode = s.mode
    BY <2>1 DEF P!Init
  <2>3. /\ s.text \in Seq(STRING) /\ End \notin P!Range(s.text) \cup s.mode.splits
        /\ DOMAIN s.mode = {"splits", "nospace", "break", "disable", "enable"}
        /\ s.mode.nospace \in BOOLEAN
        /\ End \notin {P!Blank, P!Newline, P!Equals, P!Quote}
    BY SessionsAssumption DEF P!WellFormed
  <2>4. Plain(text, mode)
    BY <2>2, <2>3 DEF Plain
  <2>5. ptr = 0 /\ call = "new"
    BY <2>1 DEF P!Init
  <2> QED
    BY <1>2, <2>2, <2>3, <2>4, <2>5 DEF TokInv
<1> QED
  BY <1>1, <1>2

\* A call that returns something.
LEMMA TokReturns ==
  ASSUME TokInv, reader = "parse", reader' = reader, NEW c, NEW r, r.ptr \in Nat,
         c \notin {"wordlen", "restlen"}, P!Returns(c, r)
  PROVE  TokInv'
<1>1. Plain(text, mode) /\ DOMAIN mode = {"splits", "nospace", "break", "disable", "enable"}
  BY DEF TokInv
<1>2. text' = text /\ mode' = mode /\ ptr' = r.ptr /\ call' = c
  BY DEF P!Returns
<1>3. Plain(text, mode)'
  BY <1>1, <1>2
<1> QED
  BY <1>1, <1>2, <1>3 DEF TokInv

LEMMA TokMeasures ==
  ASSUME TokInv, reader = "parse", reader' = reader, NEW c, NEW lengths, P!Measures(c, lengths),
         \/ c = "wordlen" /\ lengths = {P!WordLen(text, mode, ptr)}
         \/ c = "restlen" /\ lengths = P!RestLens(text, mode, ptr)
  PROVE  TokInv'
<1>1. /\ Plain(text, mode) /\ DOMAIN mode = {"splits", "nospace", "break", "disable", "enable"}
      /\ ptr \in Nat
  BY DEF TokInv
<1>2. text' = text /\ mode' = mode /\ ptr' = ptr /\ call' = c /\ len' \in lengths
  BY DEF P!Measures
<1>3. Plain(text, mode)'
  BY <1>1, <1>2
<1>4. /\ call' = "wordlen" => len' = P!WordLen(text, mode, ptr)
      /\ call' = "restlen" => len' \in P!RestLens(text, mode, ptr)
  BY <1>2
<1>5. /\ P!WordLen(text, mode, ptr)' = P!WordLen(text, mode, ptr)
      /\ P!RestLens(text, mode, ptr)' = P!RestLens(text, mode, ptr)
  BY <1>2
<1> QED
  BY <1>1, <1>2, <1>3, <1>4, <1>5 DEF TokInv

LEMMA TokNext == TokInv /\ [Next]_<<reader, doc, parse, loop, query, type, coded>> => TokInv'
<1> SUFFICES ASSUME TokInv, [Next]_<<reader, doc, parse, loop, query, type, coded>> PROVE TokInv'
  OBVIOUS
<1>1. ASSUME UNCHANGED reader, UNCHANGED parse PROVE TokInv'
  <2>1. UNCHANGED <<reader, text, mode, ptr, ord, len, call>>
    BY <1>1 DEF parse
  <2>2. /\ Plain(text, mode)' = Plain(text, mode)
        /\ P!WordLen(text, mode, ptr)' = P!WordLen(text, mode, ptr)
        /\ P!RestLens(text, mode, ptr)' = P!RestLens(text, mode, ptr)
    BY <2>1
  <2> QED
    BY <2>1, <2>2 DEF TokInv
<1>2. ASSUME reader = "parse", P!Next, UNCHANGED reader PROVE TokInv'
  <2>1. Plain(text, mode) /\ ptr \in Nat
    BY <1>2 DEF TokInv
  <2>2. CASE P!getword
    <3>1. P!Returns("word", P!Word(text, mode, ptr))
      BY <2>2 DEF P!getword
    <3>2. P!Word(text, mode, ptr).ptr \in Nat
      BY <2>1, WordKept DEF Keeps
    <3> QED
      BY <1>2, <3>1, <3>2, TokReturns
  <2>3. CASE P!getsplit
    <3>1. P!Returns("split", P!Piece(text, mode, ptr))
      BY <2>3 DEF P!getsplit
    <3>2. P!Piece(text, mode, ptr).ptr \in Nat
      BY <2>1, PieceKept DEF Keeps
    <3> QED
      BY <1>2, <3>1, <3>2, TokReturns
  <2>4. CASE P!getrest
    <3>1. P!Returns("rest", P!Rest(text, mode, ptr))
      BY <2>4 DEF P!getrest
    <3>2. P!Rest(text, mode, ptr).ptr \in Nat
      BY <2>1, RestKept DEF Keeps
    <3> QED
      BY <1>2, <3>1, <3>2, TokReturns
  <2>5. CASE P!getline
    <3>1. P!Returns("line", P!Line(text, ptr))
      BY <2>5 DEF P!getline
    <3>2. P!Line(text, ptr).ptr \in Nat
      BY <2>1, LineKept DEF Keeps
    <3> QED
      BY <1>2, <3>1, <3>2, TokReturns
  <2>6. CASE P!getwordlen
    BY <1>2, <2>6, TokMeasures DEF P!getwordlen
  <2>7. CASE P!getrestlen
    BY <1>2, <2>7, TokMeasures DEF P!getrestlen
  <2>8. CASE P!EnableQuote
    <3>1. /\ mode' = [mode EXCEPT !.nospace = ~@] /\ text' = text /\ ptr' = ptr
          /\ call' = "quote"
      BY <2>8 DEF P!EnableQuote
    <3>2. DOMAIN mode = {"splits", "nospace", "break", "disable", "enable"}
      BY <1>2 DEF TokInv
    <3>3. DOMAIN mode' = DOMAIN mode /\ mode'.splits = mode.splits /\ mode'.nospace = ~mode.nospace
      BY <3>1, <3>2
    <3>4. Plain(text, mode)'
      BY <2>1, <3>1, <3>3 DEF Plain
    <3> QED
      BY <1>2, <2>1, <3>1, <3>2, <3>3, <3>4 DEF TokInv
  <2> QED
    BY <1>2, <2>2, <2>3, <2>4, <2>5, <2>6, <2>7, <2>8 DEF P!Next
<1>3. ASSUME Next PROVE (UNCHANGED reader /\ UNCHANGED parse) \/ (reader = "parse" /\ P!Next /\ UNCHANGED reader)
  BY <1>3 DEF Next
<1> QED
  BY <1>1, <1>2, <1>3

\* No break character in the text, none in a word.
LEMMA NoBreaks ==
  ASSUME Plain(text, mode), ~P!Breaks
  PROVE  Unbroken(text, mode)
<1> SUFFICES ASSUME NEW q \in Nat, P!IsBreak(mode, P!C(text, q)) PROVE FALSE
  BY DEF Unbroken
<1>1. PICK n \in Nat : n = Len(text) /\ text \in Seq(STRING)
  BY DEF Plain
<1>2. mode.break # End /\ P!C(text, q) = mode.break
  BY DEF P!IsBreak
<1>3. ~(q >= n)
  BY <1>1, <1>2, CharAt
<1>4. P!C(text, q) \in P!Range(text)
  BY <1>1, <1>3, CharAt
<1> QED
  BY <1>2, <1>4 DEF P!Breaks

\* getwordlen and getrestlen announce what getword and getrest return
\* (parse.cc, getwordlen and getrestlen), for every text without break
\* characters and quotes, and up to its end.
THEOREM AnnouncesLengths == Spec => []MeasuresAgree
<1>1. TokInv => MeasuresAgree
  <2> SUFFICES ASSUME TokInv PROVE MeasuresAgree
    OBVIOUS
  <2>1. ASSUME call = "wordlen", ~mode.nospace, ~P!Breaks
        PROVE  len = Len(P!Word(text, mode, ptr).ord)
    <3>1. Plain(text, mode) /\ ptr \in Nat /\ len = P!WordLen(text, mode, ptr)
      BY <2>1 DEF TokInv
    <3>2. Unbroken(text, mode)
      BY <2>1, <3>1, NoBreaks
    <3> QED
      BY <2>1, <3>1, <3>2, WordMeasured
  <2>2. ASSUME call = "restlen", ptr <= Len(text)
        PROVE  len = Len(P!Rest(text, mode, ptr).ord)
    <3>1. Plain(text, mode) /\ ptr \in Nat /\ len \in P!RestLens(text, mode, ptr)
      BY <2>2 DEF TokInv
    <3>2. len = Len(text) - P!Rest(text, mode, ptr).ptr
      BY <2>2, <3>1 DEF P!RestLens
    <3> QED
      BY <2>2, <3>1, <3>2, RestMeasured
  <2> QED
    BY <2>1, <2>2 DEF MeasuresAgree, P!MeasuresAgree
<1> QED
  BY <1>1, TokInit, TokNext, PTL DEF Spec

\* A step of a Parse that returns something is a call of one of the four.
LEMMA CallMade ==
  ASSUME TokInv, [Next]_<<reader, doc, parse, loop, query, type, coded>>, P!vars' # P!vars,
         call' \in {"word", "split", "rest", "line"}
  PROVE  /\ Plain(text, mode) /\ ptr \in Nat
         /\ \E r : /\ ord' = r.ord /\ ptr' = r.ptr
                   /\ r = CASE call' = "word"  -> P!Word(text, mode, ptr)
                            [] call' = "split" -> P!Piece(text, mode, ptr)
                            [] call' = "rest"  -> P!Rest(text, mode, ptr)
                            [] call' = "line"  -> P!Line(text, ptr)
<1>1. reader = "parse" /\ P!Next
  BY DEF Next, parse, P!vars
<1>2. Plain(text, mode) /\ ptr \in Nat
  BY <1>1 DEF TokInv
<1>3. \/ P!Returns("word", P!Word(text, mode, ptr)) \/ P!Returns("split", P!Piece(text, mode, ptr))
      \/ P!Returns("rest", P!Rest(text, mode, ptr)) \/ P!Returns("line", P!Line(text, ptr))
  BY <1>1 DEF P!Next, P!getword, P!getsplit, P!getrest, P!getline, P!getwordlen, P!getrestlen,
              P!EnableQuote, P!Measures
<1>4. \A c, r : P!Returns(c, r) => call' = c /\ ord' = r.ord /\ ptr' = r.ptr
  BY DEF P!Returns
<1> QED
  BY <1>2, <1>3, <1>4

\* The calls of a Parse (parse.cc): each returns the next word, field, piece,
\* rest or line of the text, whatever the text and the calls before, and no
\* character is lost between what the calls return.
THEOREM ReturnsAllThereIs == Spec => CallsAsDescribed
<1>1. ASSUME TokInv, [Next]_<<reader, doc, parse, loop, query, type, coded>>, P!vars' # P!vars
      PROVE  /\ P!WordIsNextRun /\ P!FieldsBetweenBreaks /\ P!QuotesHoldTogether
             /\ P!NothingLost
  <2>1. ASSUME call' = "word" PROVE /\ Plain(text, mode) /\ ptr \in Nat
                                    /\ ord' = P!Word(text, mode, ptr).ord
                                    /\ ptr' = P!Word(text, mode, ptr).ptr
    BY <1>1, <2>1, CallMade
  <2>2. P!WordIsNextRun
    <3> SUFFICES ASSUME call' = "word", ~mode.nospace, ~P!Breaks
                 PROVE  \E x, y \in ptr..(IF ptr > Len(text) THEN ptr ELSE Len(text)) :
                          /\ P!Range(P!Between(ptr, x)) \subseteq P!Separators
                          /\ P!C(text, x) \notin P!Separators
                          /\ P!Range(P!Between(x, y)) \cap P!Separators = {}
                          /\ P!C(text, y) \in P!Separators \cup {End}
                          /\ ord' = P!Between(x, y) /\ ptr' = y + 1
      BY DEF P!WordIsNextRun
    <3>1. NextRun(text, mode, ptr, P!Word(text, mode, ptr))
      BY <2>1, NoBreaks, WordIsRun
    <3> QED
      BY <2>1, <3>1 DEF NextRun, P!Between, P!Separators, Spaces
  <2>3. P!FieldsBetweenBreaks
    <3> SUFFICES ASSUME call' = "word", ~mode.nospace, P!Breaks,
                        P!Range(text) \cap (P!Separators \cup {mode.disable, mode.enable}) = {},
                        P!AtField(ptr)
                 PROVE  /\ P!AtField(ptr') /\ ptr' > ptr
                        /\ mode.break \notin P!Range(ord')
                        /\ ord' = P!Between(ptr, ptr' - 1)
      BY DEF P!FieldsBetweenBreaks
    <3>1. OfFields(text, mode)
      BY DEF OfFields, P!Breaks, P!Separators, Spaces
    <3>2. PICK r : r = P!Word(text, mode, ptr)
      OBVIOUS
    <3>3. /\ FieldAt(text, mode, r.ptr) /\ r.ptr > ptr
          /\ mode.break \notin P!Range(r.ord) /\ r.ord = P!Substr(text, ptr, (r.ptr - 1) - ptr)
      BY <2>1, <3>1, <3>2, WordIsField
    <3>4. ord' = r.ord /\ ptr' = r.ptr
      BY <2>1, <3>2
    <3> QED
      BY <3>3, <3>4 DEF FieldAt, P!AtField, P!Between
  <2>4. P!QuotesHoldTogether
    <3> SUFFICES ASSUME call' = "word", mode.nospace, ord' # << >>, ord'[1] = P!Quote
                 PROVE  ptr' = Len(text) \/ \E q \in 2..Len(ord') : ord'[q] = P!Quote
      BY DEF P!QuotesHoldTogether
    <3>1. PICK r : r = P!Word(text, mode, ptr)
      OBVIOUS
    <3>2. ord' = r.ord /\ ptr' = r.ptr
      BY <2>1, <3>1
    <3>3. r.ptr = Len(text) \/ \E q \in 2..Len(r.ord) : r.ord[q] = P!Quote
      BY <2>1, <3>1, <3>2, WordHoldsTogether
    <3> QED
      BY <3>2, <3>3
  <2>5. P!NothingLost
    <3> SUFFICES ASSUME call' \in {"word", "split", "rest", "line"}
                 PROVE  /\ ptr' >= ptr
                        /\ Lossless(P!Between(ptr, ptr'), IF call' = "rest" THEN << >> ELSE ord',
                                    P!Skipped(call'), P!Separators \cup {mode.break})
      BY DEF P!NothingLost, Lossless
    <3>1. Plain(text, mode) /\ ptr \in Nat
      BY <1>1, CallMade
    <3>2. PICK r : /\ ord' = r.ord /\ ptr' = r.ptr
                   /\ r = CASE call' = "word"  -> P!Word(text, mode, ptr)
                            [] call' = "split" -> P!Piece(text, mode, ptr)
                            [] call' = "rest"  -> P!Rest(text, mode, ptr)
                            [] call' = "line"  -> P!Line(text, ptr)
      BY <1>1, CallMade
    <3>3. Endings(mode) = P!Separators \cup {mode.break}
      BY DEF Endings, Spaces, P!Separators
    <3>4. Keeps(text, mode, ptr, r.ptr, IF call' = "rest" THEN << >> ELSE r.ord, P!Skipped(call'))
      <4>1. CASE call' = "word"
        <5>1. Keeps(text, mode, ptr, r.ptr, r.ord, Before(mode))
          BY <3>1, <3>2, <4>1, WordKept
        <5>2. P!Skipped(call') = Before(mode)
          BY <4>1 DEF P!Skipped, Before, Spaces, P!Separators
        <5> QED
          BY <4>1, <5>1, <5>2
      <4>2. CASE call' = "split"
        <5>1. Keeps(text, mode, ptr, r.ptr, r.ord, mode.splits)
          BY <3>1, <3>2, <4>2, PieceKept
        <5>2. P!Skipped(call') = mode.splits
          BY <4>2 DEF P!Skipped
        <5> QED
          BY <4>2, <5>1, <5>2
      <4>3. CASE call' = "rest"
        <5>1. Keeps(text, mode, ptr, r.ptr, << >>, {P!Blank} \cup mode.splits)
          BY <3>1, <3>2, <4>3, RestKept
        <5>2. P!Skipped(call') = {P!Blank} \cup mode.splits
          BY <4>3 DEF P!Skipped
        <5> QED
          BY <4>3, <5>1, <5>2
      <4>4. CASE call' = "line"
        <5>1. Keeps(text, mode, ptr, r.ptr, r.ord, {})
          BY <3>1, <3>2, <4>4, LineKept
        <5>2. P!Skipped(call') = {}
          BY <4>4 DEF P!Skipped
        <5> QED
          BY <4>4, <5>1, <5>2
      <4> QED
        BY <4>1, <4>2, <4>3, <4>4
    <3> QED
      BY <3>2, <3>3, <3>4 DEF Keeps, P!Between
  <2> QED
    BY <2>2, <2>3, <2>4, <2>5
<1>2. TokInv /\ [Next]_<<reader, doc, parse, loop, query, type, coded>>
        => [/\ P!WordIsNextRun /\ P!FieldsBetweenBreaks /\ P!QuotesHoldTogether
            /\ P!NothingLost]_P!vars
  BY <1>1
<1> QED
  BY <1>2, TokInit, TokNext, PTL DEF Spec, CallsAsDescribed, P!CallsAsDescribed

-----------------------------------------------------------------------------
(* Texts in UTF-8, and what FromUtf8 makes of them.                        *)

\* What holds at a and is handed on, holds from there on.
LEMMA Upwards ==
  ASSUME NEW n \in Nat, NEW a \in 0..n, NEW Good, a \in Good,
         \A k \in a..n : k < n /\ k \in Good => k + 1 \in Good
  PROVE  \A k \in a..n : k \in Good
<1> DEFINE Bad == {k \in Nat : k \in a..n /\ k \notin Good}
<1>1. SUFFICES ASSUME Bad # {} PROVE FALSE
  OBVIOUS
<1>2. PICK k \in Bad : \A j \in Bad : k <= j
  <2>1. Bad \subseteq Nat
    OBVIOUS
  <2> HIDE DEF Bad
  <2> QED
    BY <1>1, <2>1, LeastNatural
<1>3. k \in a..n /\ k \notin Good /\ k # a /\ k \in Nat
  BY <1>2
<1>4. k - 1 \in a..n /\ k - 1 < n /\ k - 1 \in Nat /\ (k - 1) + 1 = k
  BY <1>3
<1>5. k - 1 \in Good
  BY <1>2, <1>4
<1> QED
  BY <1>3, <1>4, <1>5

\* Every element of r is one of a part, and every part stands in r.
MadeOf(s, r) ==
  /\ \A i \in 1..Len(r) : \E k \in 1..Len(s) : \E j \in 1..Len(s[k]) : r[i] = s[k][j]
  /\ \A k \in 1..Len(s) : \E o \in Nat : /\ o + Len(s[k]) <= Len(r)
                                         /\ \A j \in 1..Len(s[k]) : r[o + j] = s[k][j]

LEMMA AllOfParts ==
  ASSUME NEW S, NEW s \in Seq(Seq(S))
  PROVE  AllOf(s) \in Seq(S) /\ MadeOf(s, AllOf(s))
<1>1. PICK n \in Nat : n = Len(s)
  OBVIOUS
<1>2. PICK g \in [0..n -> Seq(S)] : /\ g[0] = << >> /\ g[n] = AllOf(s)
                                    /\ \A k \in 1..n : g[k] = g[k - 1] \o s[k]
  BY <1>1, Appended
<1>3. \A k \in 1..n : s[k] \in Seq(S)
  BY <1>1, ElementOfSeq
<1>4. ASSUME NEW k \in 0..n, k < n
      PROVE  /\ k + 1 \in 1..n /\ k + 1 \in 0..n /\ g[k] \in Seq(S) /\ g[k + 1] \in Seq(S)
             /\ s[k + 1] \in Seq(S)
             /\ Len(g[k]) \in Nat /\ Len(s[k + 1]) \in Nat
             /\ Len(g[k + 1]) = Len(g[k]) + Len(s[k + 1])
             /\ \A i \in 1..Len(g[k]) : g[k + 1][i] = g[k][i]
             /\ \A i \in 1..Len(s[k + 1]) : g[k + 1][Len(g[k]) + i] = s[k + 1][i]
  <2>1. k + 1 \in 1..n /\ k + 1 \in 0..n /\ (k + 1) - 1 = k
    BY <1>4
  <2>2. PICK a \in Seq(S), b \in Seq(S), c \in Seq(S) :
          a = g[k] /\ b = s[k + 1] /\ c = g[k + 1] /\ c = a \o b
    BY <1>2, <1>3, <2>1
  <2>3. PICK u \in Nat, v \in Nat : u = Len(a) /\ v = Len(b)
    OBVIOUS
  <2>4. Len(c) = u + v /\ \A i \in 1..(u + v) : c[i] = IF i <= u THEN a[i] ELSE b[i - u]
    BY <2>2, <2>3, ConcatProperties
  <2>5. \A i \in 1..u : c[i] = a[i]
    BY <2>4
  <2>6. \A i \in 1..v : c[u + i] = b[i]
    <3> SUFFICES ASSUME NEW i \in 1..v PROVE c[u + i] = b[i]
      OBVIOUS
    <3>1. u + i \in 1..(u + v) /\ ~(u + i <= u) /\ (u + i) - u = i
      OBVIOUS
    <3> QED
      BY <2>4, <3>1
  <2> QED
    BY <2>1, <2>2, <2>3, <2>4, <2>5, <2>6
<1> DEFINE Made == {k \in 0..n : \A i \in 1..Len(g[k]) :
                                   \E m \in 1..n : \E j \in 1..Len(s[m]) : g[k][i] = s[m][j]}
<1>5. \A k \in 0..n : k \in Made
  <2>1. 0 \in Made
    <3>1. Len(g[0]) = 0 /\ 0 \in 0..n
      BY <1>2
    <3> QED
      BY <3>1
  <2>2. ASSUME NEW k \in 0..n, k < n, k \in Made PROVE k + 1 \in Made
    <3> SUFFICES ASSUME NEW i \in 1..Len(g[k + 1])
                 PROVE  \E m \in 1..n : \E j \in 1..Len(s[m]) : g[k + 1][i] = s[m][j]
      BY <1>4, <2>2
    <3>0. /\ \A x \in 1..Len(g[k]) : g[k + 1][x] = g[k][x]
          /\ \A x \in 1..Len(g[k]) : \E m \in 1..n : \E j \in 1..Len(s[m]) : g[k][x] = s[m][j]
      BY <1>4, <2>2
    <3>1. CASE i \in 1..Len(g[k])
      <4>1. g[k + 1][i] = g[k][i]
        BY <3>0, <3>1
      <4>2. \E m \in 1..n : \E j \in 1..Len(s[m]) : g[k][i] = s[m][j]
        BY <3>0, <3>1
      <4> QED
        BY <4>1, <4>2
    <3>2. CASE i \notin 1..Len(g[k])
      <4>1. PICK u \in Nat, v \in Nat : u = Len(g[k]) /\ v = Len(s[k + 1]) /\ Len(g[k + 1]) = u + v
        BY <1>4, <2>2
      <4>2. i \in 1..(u + v) /\ i \notin 1..u
        BY <3>2, <4>1
      <4>3. i - u \in 1..v /\ u + (i - u) = i
        BY <4>2
      <4>4. g[k + 1][u + (i - u)] = s[k + 1][i - u]
        BY <1>4, <2>2, <4>1, <4>3
      <4>5. g[k + 1][i] = s[k + 1][i - u] /\ i - u \in 1..Len(s[k + 1])
        BY <4>1, <4>3, <4>4
      <4>6. k + 1 \in 1..n
        BY <1>4, <2>2
      <4> QED
        BY <4>5, <4>6, Zenon
    <3> QED
      BY <3>1, <3>2
  <2> HIDE DEF Made
  <2>3. 0 \in 0..n /\ \A k \in 0..n : k < n /\ k \in Made => k + 1 \in Made
    BY <2>2
  <2> QED
    BY <2>1, <2>3, Upwards
<1>6. ASSUME NEW m \in 1..n
      PROVE  \E o \in Nat : /\ o + Len(s[m]) <= Len(g[n])
                            /\ \A j \in 1..Len(s[m]) : g[n][o + j] = s[m][j]
  <2>1. PICK v \in Nat : v = Len(s[m])
    BY <1>3
  <2>2. m - 1 \in 0..n /\ m - 1 < n /\ (m - 1) + 1 = m /\ m \in 0..n
    OBVIOUS
  <2>3. PICK o \in Nat : o = Len(g[m - 1])
    BY <1>4, <2>2
  <2> DEFINE Holds == {k \in 0..n : o + v <= Len(g[k]) /\ \A j \in 1..v : g[k][o + j] = s[m][j]}
  <2>4. m \in Holds
    <3>0. PICK k \in 0..n : k = m - 1 /\ k < n /\ k + 1 = m
      BY <2>2
    <3>1. /\ Len(g[k + 1]) = Len(g[k]) + Len(s[k + 1])
          /\ \A j \in 1..Len(s[k + 1]) : g[k + 1][Len(g[k]) + j] = s[k + 1][j]
      BY <1>4, <3>0
    <3>2. Len(g[k]) = o /\ Len(s[k + 1]) = v /\ g[k + 1] = g[m] /\ s[k + 1] = s[m]
      BY <2>1, <2>3, <3>0
    <3>3. Len(g[m]) = o + v /\ \A j \in 1..v : g[m][o + j] = s[m][j]
      BY <3>1, <3>2
    <3> QED
      BY <2>2, <3>3
  <2>5. ASSUME NEW k \in m..n, k < n, k \in Holds PROVE k + 1 \in Holds
    <3>1. k \in 0..n
      BY <2>5
    <3>a. /\ Len(g[k]) \in Nat /\ Len(s[k + 1]) \in Nat
          /\ Len(g[k + 1]) = Len(g[k]) + Len(s[k + 1])
      BY <1>4, <2>5, <3>1
    <3>b. PICK u \in Nat, x \in Nat : u = Len(g[k]) /\ x = Len(s[k + 1])
      BY <3>a
    <3>2. PICK w \in Nat : w = Len(g[k + 1]) /\ u <= w
      <4>1. PICK w \in Nat : w = u + x /\ u <= w
        OBVIOUS
      <4>2. Len(g[k + 1]) = u + x
        BY <3>a, <3>b, Zenon
      <4> QED
        BY <4>1, <4>2
    <3>3. \A i \in 1..u : g[k + 1][i] = g[k][i]
      BY <1>4, <2>5, <3>1, <3>b
    <3>4. \A j \in 1..v : o + j \in 1..u
      BY <2>5, <3>b
    <3>5. \A j \in 1..v : g[k + 1][o + j] = s[m][j]
      BY <2>5, <3>3, <3>4
    <3>6. o + v <= w /\ k + 1 \in 0..n
      BY <2>5, <3>1, <3>b, <3>2
    <3> QED
      BY <3>b, <3>2, <3>5, <3>6
  <2> HIDE DEF Holds
  <2>6. \A k \in m..n : k \in Holds
    BY <2>2, <2>4, <2>5, Upwards
  <2> USE DEF Holds
  <2>7. n \in Holds
    BY <2>6
  <2> QED
    BY <2>1, <2>7
<1>7. \A i \in 1..Len(g[n]) : \E m \in 1..n : \E j \in 1..Len(s[m]) : g[n][i] = s[m][j]
  <2>1. n \in 0..n
    OBVIOUS
  <2>2. n \in Made
    BY <1>5, <2>1
  <2> QED
    BY <2>2
<1> HIDE DEF Made
<1>8. AllOf(s) \in Seq(S)
  BY <1>2
<1>9. MadeOf(s, g[n])
  BY <1>1, <1>6, <1>7 DEF MadeOf
<1> QED
  BY <1>2, <1>8, <1>9

LEMMA PointsAndBytes ==
  /\ \A c \in U!CodePoint : c \in Nat /\ c < 65536
  /\ \A c \in Nat : /\ c \in U!TwoByte <=> c >= 128 /\ c < 2048
                    /\ c \in U!Byte <=> c < 256
                    /\ c \in U!Lead <=> c >= 192 /\ c < 224
                    /\ c \in U!Continuation <=> c >= 128 /\ c < 192
  /\ \A c \in U!Byte : c \in Nat
<1>1. U!MaxPoint \in Nat /\ U!MaxPoint < 65536
  BY DEF U!MaxPoint
<1>2. \A c \in U!CodePoint : c \in Nat /\ c < 65536
  BY <1>1 DEF U!CodePoint
<1>3. ASSUME NEW c \in Nat
      PROVE  /\ c \in U!TwoByte <=> c >= 128 /\ c < 2048
             /\ c \in U!Byte <=> c < 256
             /\ c \in U!Lead <=> c >= 192 /\ c < 224
             /\ c \in U!Continuation <=> c >= 128 /\ c < 192
  <2>1. c \in U!TwoByte <=> c >= 128 /\ c < 2048
    BY DEF U!TwoByte
  <2>2. c \in U!Byte <=> c < 256
    BY DEF U!Byte
  <2>3. c \in U!Lead <=> c >= 192 /\ c < 224
    BY DEF U!Lead
  <2>4. c \in U!Continuation <=> c >= 128 /\ c < 192
    BY DEF U!Continuation
  <2> QED
    BY <2>1, <2>2, <2>3, <2>4
<1>4. \A c \in U!Byte : c \in Nat
  BY DEF U!Byte
<1> QED
  BY <1>2, <1>3, <1>4

\* The bytes of a character: those of one that has two begin with a lead byte
\* that FromUtf8 looks for, and no others do.
LEMMA CharBytes ==
  ASSUME NEW c \in U!CodePoint
  PROVE  /\ U!Utf8Char(c) \in Seq(U!Byte)
         /\ c \notin U!TwoByte => \A j \in 1..Len(U!Utf8Char(c)) : U!Utf8Char(c)[j] \notin U!Lead
         /\ c \in U!TwoByte =>
              /\ Len(U!Utf8Char(c)) = 2
              /\ U!Utf8Char(c)[1] \in U!Lead /\ U!Utf8Char(c)[2] \in U!Continuation
<1>0. c \in Nat /\ c < 65536
  BY PointsAndBytes
<1>1. CASE c < 128
  <2>1. c \in U!Byte /\ c \notin U!Lead /\ c \notin U!TwoByte
    BY <1>0, <1>1, PointsAndBytes
  <2>2. U!Utf8Char(c) = <<c>>
    BY <1>1 DEF U!Utf8Char
  <2> QED
    BY <2>1, <2>2
<1>2. CASE ~(c < 128) /\ c < 2048
  <2>1. PICK a \in Nat, b \in Nat : a = c \div 64 /\ b = c % 64 /\ 2 <= a /\ a < 32 /\ b < 64
    BY <1>0, <1>2
  <2>2. U!Utf8Char(c) = <<192 + a, 128 + b>>
    BY <1>2, <2>1 DEF U!Utf8Char
  <2>3. PICK x \in Nat, y \in Nat :
          x = 192 + a /\ y = 128 + b /\ x >= 192 /\ x < 224 /\ y >= 128 /\ y < 192
    BY <2>1
  <2>4. x \in U!Byte /\ y \in U!Byte /\ x \in U!Lead /\ y \in U!Continuation
    BY <2>3, PointsAndBytes
  <2>5. c \in U!TwoByte
    BY <1>0, <1>2, PointsAndBytes
  <2>6. <<x, y>> \in Seq(U!Byte) /\ Len(<<x, y>>) = 2 /\ <<x, y>>[1] = x /\ <<x, y>>[2] = y
    BY <2>4
  <2> QED
    BY <2>2, <2>3, <2>4, <2>5, <2>6
<1>3. CASE ~(c < 128) /\ ~(c < 2048)
  <2>1. PICK a \in Nat, b \in Nat, d \in Nat :
          /\ a = c \div 4096 /\ b = (c \div 64) % 64 /\ d = c % 64
          /\ a < 16 /\ b < 64 /\ d < 64
    BY <1>0, <1>3
  <2>2. U!Utf8Char(c) = <<224 + a, 128 + b, 128 + d>>
    BY <1>3, <2>1 DEF U!Utf8Char
  <2>3. PICK x \in Nat, y \in Nat, z \in Nat :
          /\ x = 224 + a /\ y = 128 + b /\ z = 128 + d
          /\ x < 256 /\ y < 256 /\ z < 256 /\ x >= 224 /\ y < 192 /\ z < 192
    BY <2>1
  <2>4. /\ x \in U!Byte /\ y \in U!Byte /\ z \in U!Byte
        /\ x \notin U!Lead /\ y \notin U!Lead /\ z \notin U!Lead
    BY <2>3, PointsAndBytes
  <2>5. c \notin U!TwoByte
    BY <1>0, <1>3, PointsAndBytes
  <2>6. PICK s : s = <<x, y, z>>
    OBVIOUS
  <2>7. s \in Seq(U!Byte) /\ Len(s) = 3 /\ s[1] = x /\ s[2] = y /\ s[3] = z
    BY <2>4, <2>6
  <2>8. \A j \in 1..Len(s) : s[j] \notin U!Lead
    <3>1. \A j \in 1..Len(s) : j = 1 \/ j = 2 \/ j = 3
      BY <2>7
    <3> QED
      BY <2>4, <2>7, <3>1
  <2>9. U!Utf8Char(c) = s
    BY <2>2, <2>3, <2>6
  <2> QED
    BY <2>5, <2>7, <2>8, <2>9
<1> QED
  BY <1>1, <1>2, <1>3

\* A text in UTF-8 has a pair exactly if it has a two-byte character.
LEMMA Utf8Pairs ==
  ASSUME NEW t \in Seq(U!CodePoint), NEW bytes, bytes = U!Utf8(t)
  PROVE  /\ bytes \in Seq(U!Byte)
         /\ U!Range(t) \cap U!TwoByte = {} => \A i \in 1..Len(bytes) : ~U!IsPair(bytes, i)
         /\ U!Range(t) \cap U!TwoByte # {} => \E i \in 1..Len(bytes) : U!IsPair(bytes, i)
<1>1. PICK n \in Nat : n = Len(t) /\ DOMAIN t = 1..n /\ \A k \in 1..n : t[k] \in U!CodePoint
  BY ElementOfSeq
<1>2. PICK s : s = [k \in 1..n |-> U!Utf8Char(t[k])]
  OBVIOUS
<1>3. s \in Seq(Seq(U!Byte)) /\ Len(s) = n /\ \A k \in 1..n : s[k] = U!Utf8Char(t[k])
  <2>1. s \in [1..n -> Seq(U!Byte)]
    BY <1>1, <1>2, CharBytes
  <2> QED
    BY <1>2, <2>1, FunctionIsSeq
<1>4. bytes = AllOf(s)
  <2>1. bytes = U!Concatenation(s)
    BY <1>1, <1>2 DEF U!Utf8
  <2>2. U!Concatenation(s) = AllOf(s)
    BY DEF U!Concatenation, AllOf
  <2> QED
    BY <2>1, <2>2
<1>5. bytes \in Seq(U!Byte) /\ MadeOf(s, bytes)
  BY <1>3, <1>4, AllOfParts
<1>6. ASSUME U!Range(t) \cap U!TwoByte = {}, NEW i \in 1..Len(bytes) PROVE ~U!IsPair(bytes, i)
  <2>1. PICK k \in 1..n : \E j \in 1..Len(s[k]) : bytes[i] = s[k][j]
    BY <1>3, <1>5 DEF MadeOf
  <2>2. t[k] \in U!Range(t)
    BY <1>1 DEF U!Range
  <2>3. bytes[i] \notin U!Lead
    BY <1>1, <1>3, <1>6, <2>1, <2>2, CharBytes
  <2> QED
    BY <2>3 DEF U!IsPair
<1>7. ASSUME U!Range(t) \cap U!TwoByte # {} PROVE \E i \in 1..Len(bytes) : U!IsPair(bytes, i)
  <2>1. PICK k \in 1..n : t[k] \in U!TwoByte
    BY <1>1, <1>7 DEF U!Range
  <2>2. Len(s[k]) = 2 /\ s[k][1] \in U!Lead /\ s[k][2] \in U!Continuation
    BY <1>1, <1>3, <2>1, CharBytes
  <2>3. PICK o \in Nat : o + 2 <= Len(bytes) /\ \A j \in 1..2 : bytes[o + j] = s[k][j]
    BY <1>3, <1>5, <2>2 DEF MadeOf
  <2>4. PICK l \in Nat : l = Len(bytes)
    BY <1>5
  <2>5. PICK i \in 1..l : i = o + 1 /\ i < l /\ i + 1 = o + 2
    BY <2>3, <2>4
  <2>6. bytes[o + 1] = s[k][1] /\ bytes[o + 2] = s[k][2]
    BY <2>3
  <2>7. U!IsPair(bytes, i)
    BY <2>2, <2>4, <2>5, <2>6 DEF U!IsPair
  <2> QED
    BY <2>4, <2>7
<1> QED
  BY <1>5, <1>6, <1>7

\* The byte that FromUtf8 makes of a pair.
Folded(bytes, i) == ((bytes[i] % 32) * 64 + (bytes[i + 1] % 64)) % 256

\* FromUtf8 leaves a string without pairs alone, and makes any other shorter.
LEMMA PairsFolded ==
  ASSUME NEW bytes \in Seq(U!Byte)
  PROVE  /\ U!FromUtf8(bytes) \in Seq(U!Byte)
         /\ (\A i \in 1..Len(bytes) : ~U!IsPair(bytes, i)) => U!FromUtf8(bytes) = bytes
         /\ (\E i \in 1..Len(bytes) : U!IsPair(bytes, i)) => Len(U!FromUtf8(bytes)) < Len(bytes)
<1>1. PICK l \in Nat, n \in Nat : l = Len(bytes) /\ n = l + 1 /\ 1 \in 0..n
  OBVIOUS
<1>2. \A i \in 1..l : bytes[i] \in U!Byte /\ bytes[i] \in Nat
  BY <1>1, ElementOfSeq, PointsAndBytes
<1>3. \A i \in 1..l : U!IsPair(bytes, i) => i < l /\ i + 1 \in 1..l
  BY <1>1 DEF U!IsPair
<1>4. \A i \in 1..l : U!IsPair(bytes, i) => Folded(bytes, i) \in U!Byte
  <2> SUFFICES ASSUME NEW i \in 1..l, U!IsPair(bytes, i) PROVE Folded(bytes, i) \in U!Byte
    OBVIOUS
  <2>1. PICK a \in Nat, b \in Nat : a = bytes[i] /\ b = bytes[i + 1]
    BY <1>2, <1>3
  <2>2. PICK u \in Nat, v \in Nat : u = a % 32 /\ v = b % 64
    OBVIOUS
  <2>3. (u * 64 + v) % 256 \in Nat /\ (u * 64 + v) % 256 < 256
    OBVIOUS
  <2> QED
    BY <2>1, <2>2, <2>3, PointsAndBytes DEF Folded
<1> DEFINE Is(f) == f = [i \in 1..(Len(bytes) + 1) |->
                           IF i > Len(bytes) THEN << >>
                           ELSE IF U!IsPair(bytes, i) THEN <<Folded(bytes, i)>> \o f[i + 2]
                           ELSE <<bytes[i]>> \o f[i + 1]]
           from == CHOOSE f : Is(f)
<1>5. U!FromUtf8(bytes) = from[1]
  BY DEF U!FromUtf8, Folded
<1> DEFINE V == Seq(U!Byte)
           After(i) == IF U!IsPair(bytes, i) THEN i + 2 ELSE i + 1
           Head1(i) == IF U!IsPair(bytes, i) THEN Folded(bytes, i) ELSE bytes[i]
<1>6. \A i \in 1..n : i < n => i \in 1..l /\ After(i) \in (i + 1)..n /\ Head1(i) \in U!Byte
  <2> SUFFICES ASSUME NEW i \in 1..n, i < n
               PROVE  i \in 1..l /\ After(i) \in (i + 1)..n /\ Head1(i) \in U!Byte
    OBVIOUS
  <2>1. i \in 1..l
    BY <1>1
  <2> QED
    BY <1>1, <1>2, <1>3, <1>4, <2>1
<1>7. \E f : Is(f)
  <2>1. PICK past : past = [i \in 1..n |-> After(i)]
    OBVIOUS
  <2>2. PICK next : next = [i \in 1..n |-> [v \in V |-> IF i < n THEN <<Head1(i)>> \o v ELSE v]]
    OBVIOUS
  <2> HIDE DEF After, Head1
  <2>3. \A i \in 1..n : i < n => past[i] \in (i + 1)..n /\ past[i] = After(i)
    BY <1>6, <2>1
  <2>4. next \in [1..n -> [V -> V]]
    <3>1. ASSUME NEW i \in 1..n, NEW v \in V PROVE (IF i < n THEN <<Head1(i)>> \o v ELSE v) \in V
      <4>1. CASE i < n
        <5>1. <<Head1(i)>> \in V
          BY <1>6, <4>1
        <5> QED
          BY <4>1, <5>1, ConcatProperties
      <4>2. CASE ~(i < n)
        BY <4>2
      <4> QED
        BY <4>1, <4>2
    <3> HIDE DEF V
    <3> QED
      BY <2>2, <3>1
  <2>5. << >> \in V
    OBVIOUS
  <2> HIDE DEF V
  <2>6. Later(1, n, past)
    BY <2>3 DEF Later
  <2>7. PICK f : Descent(1, n, past, V, << >>, next, f)
    BY <1>1, <2>4, <2>5, <2>6, DescentExists
  <2>8. ASSUME NEW i \in 1..n
        PROVE  f[i] = IF i > l THEN << >>
                      ELSE IF U!IsPair(bytes, i) THEN <<Folded(bytes, i)>> \o f[i + 2]
                      ELSE <<bytes[i]>> \o f[i + 1]
    <3>1. CASE i = n
      BY <1>1, <2>7, <3>1 DEF Descent
    <3>2. CASE i < n
      <4>1. past[i] \in 1..n /\ past[i] = After(i)
        BY <2>3, <3>2
      <4>2. f[past[i]] \in V
        BY <2>7, <4>1 DEF Descent
      <4>3. f[i] = next[i][f[past[i]]]
        BY <2>7, <3>2 DEF Descent
      <4>4. f[i] = <<Head1(i)>> \o f[After(i)]
        BY <2>2, <3>2, <4>1, <4>2, <4>3
      <4>5. ~(i > l)
        BY <1>1, <3>2
      <4> QED
        BY <4>4, <4>5 DEF After, Head1
    <3>3. i = n \/ i < n
      BY <1>1
    <3> QED
      BY <3>1, <3>2, <3>3
  <2>9. f = [i \in 1..n |-> f[i]]
    BY <2>7 DEF Descent
  <2>10. Is(f)
    BY <1>1, <2>8, <2>9
  <2> HIDE DEF Is
  <2> QED
    BY <2>10, Zenon
<1>8. Is(from)
  <2> HIDE DEF Is
  <2> QED
    BY <1>7, Zenon
<1> HIDE DEF from
<1>9. \A i \in 1..n : from[i] = IF i > l THEN << >>
                                ELSE IF U!IsPair(bytes, i) THEN <<Folded(bytes, i)>> \o from[i + 2]
                                ELSE <<bytes[i]>> \o from[i + 1]
  BY <1>1, <1>8
<1> HIDE DEF Is
<1>10. /\ from[n] = << >>
       /\ \A i \in 1..n : i < n => from[i] = <<Head1(i)>> \o from[After(i)]
  <2>1. n \in 1..n /\ n > l
    BY <1>1
  <2>2. \A i \in 1..n : i < n => ~(i > l)
    BY <1>1
  <2> QED
    BY <1>9, <2>1, <2>2
<1> DEFINE Good == {i \in 1..n :
                      /\ from[i] \in V
                      /\ Len(from[i]) <= n - i
                      /\ (\E j \in i..l : U!IsPair(bytes, j)) => Len(from[i]) < n - i
                      /\ (\A j \in i..l : ~U!IsPair(bytes, j)) => from[i] = SubSeq(bytes, i, l)}
<1> HIDE DEF After, Head1
<1>11. ASSUME NEW i \in 1..n, \A r \in 1..n : i < r => r \in Good PROVE i \in Good
  <2>1. CASE i = n
    <3>1. from[i] = << >> /\ Len(from[i]) = 0 /\ from[i] \in V
      <4>1. << >> \in V /\ Len(<< >>) = 0
        OBVIOUS
      <4> HIDE DEF V
      <4> QED
        BY <1>10, <2>1, <4>1, Zenon
    <3>a. 0 <= n - i
      BY <2>1
    <3>2. ~\E j \in i..l : U!IsPair(bytes, j)
      BY <1>1, <2>1
    <3>3. SubSeq(bytes, i, l) = << >>
      BY <1>1, <2>1, SubSeqEmpty
    <3> HIDE DEF V
    <3> QED
      BY <3>1, <3>a, <3>2, <3>3
  <2>2. CASE i < n
    <3>1. PICK r \in 1..n : r = After(i) /\ i < r
      BY <1>6, <2>2
    <3>2. PICK w \in V : w = from[r]
      BY <1>11, <3>1
    <3>3. PICK k \in Nat : k = Len(w)
      OBVIOUS
    <3>4. /\ k <= n - r
          /\ (\E j \in r..l : U!IsPair(bytes, j)) => k < n - r
          /\ (\A j \in r..l : ~U!IsPair(bytes, j)) => w = SubSeq(bytes, r, l)
      BY <1>11, <3>1, <3>2, <3>3
    <3>5. from[i] = <<Head1(i)>> \o w /\ <<Head1(i)>> \in V /\ Len(<<Head1(i)>>) = 1
      BY <1>6, <1>10, <2>2, <3>1, <3>2
    <3>6. from[i] \in V /\ Len(from[i]) = 1 + k
      BY <3>2, <3>3, <3>5, ConcatProperties
    <3>7. i \in 1..l
      BY <1>6, <2>2
    <3>8. CASE U!IsPair(bytes, i)
      <4>1. r = i + 2
        BY <3>1, <3>8 DEF After
      <4>2. 1 + k < n - i
        BY <3>4, <4>1
      <4>3. \E j \in i..l : U!IsPair(bytes, j)
        BY <3>7, <3>8
      <4> QED
        BY <3>6, <4>2, <4>3
    <3>9. CASE ~U!IsPair(bytes, i)
      <4>1. r = i + 1 /\ Head1(i) = bytes[i]
        BY <3>1, <3>9 DEF After, Head1
      <4>2. ASSUME NEW j \in i..l, U!IsPair(bytes, j) PROVE 1 + k < n - i
        <5>1. j \in r..l
          BY <3>9, <4>1, <4>2
        <5> QED
          BY <3>4, <4>1, <4>2, <5>1
      <4>3. ASSUME \A j \in i..l : ~U!IsPair(bytes, j) PROVE from[i] = SubSeq(bytes, i, l)
        <5>1. w = SubSeq(bytes, i + 1, l)
          BY <3>4, <3>7, <4>1, <4>3
        <5>2. i \in 1..Len(bytes) /\ l \in i..Len(bytes)
          BY <1>1, <3>7
        <5>3. SubSeq(bytes, i, l) = <<bytes[i]>> \o SubSeq(bytes, i + 1, l)
          BY <5>2, SubSeqRecursiveFirst
        <5> QED
          BY <3>5, <4>1, <5>1, <5>3
      <4>4. 1 + k <= n - i
        BY <3>4, <4>1
      <4> QED
        BY <3>6, <4>2, <4>3, <4>4
    <3> QED
      BY <3>8, <3>9
  <2>3. i = n \/ i < n
    BY <1>1
  <2> QED
    BY <2>1, <2>2, <2>3
<1>12. 1 \in Good
  <2>1. \A i \in 1..n : (\A r \in 1..n : i < r => r \in Good) => i \in Good
    BY <1>11
  <2> HIDE DEF Good
  <2>a. 1 \in 0..n
    BY <1>1
  <2>2. \A i \in 1..n : i \in Good
    BY <2>a, <2>1, Backwards
  <2>3. 1 \in 1..n
    BY <1>1
  <2> QED
    BY <2>2, <2>3
<1>13. /\ from[1] \in V
       /\ (\E j \in 1..l : U!IsPair(bytes, j)) => Len(from[1]) < n - 1
       /\ (\A j \in 1..l : ~U!IsPair(bytes, j)) => from[1] = SubSeq(bytes, 1, l)
  BY <1>12
<1>14. n - 1 = l /\ SubSeq(bytes, 1, l) = bytes
  BY <1>1, SubSeqFull
<1> HIDE DEF Good
<1> QED
  BY <1>1, <1>5, <1>13, <1>14

\* What has been read, and what has been written of it.
TextInv ==
  reader = "text" =>
    /\ points \in Seq(U!CodePoint)
    /\ step \in {"new", "read", "written"}
    /\ step # "new" => string = U!FromUtf8(U!Utf8(points))
    /\ step = "written" => written = string

LEMMA TextInit == Init => TextInv
<1> SUFFICES ASSUME Init, reader = "text" PROVE TextInv
  BY DEF TextInv
<1>1. U!Init
  BY DEF Init
<1> QED
  BY <1>1, TextsAssumption DEF U!Init, U!WellFormed, TextInv

LEMMA TextNext == TextInv /\ [Next]_<<reader, doc, parse, loop, query, type, coded>> => TextInv'
<1> SUFFICES ASSUME TextInv, [Next]_<<reader, doc, parse, loop, query, type, coded>>, reader' = "text"
             PROVE  TextInv'
  BY DEF TextInv
<1>1. \/ UNCHANGED <<reader, coded>>
      \/ reader = "text" /\ U!Next /\ reader' = reader
  BY DEF Next
<1>2. CASE UNCHANGED <<reader, coded>>
  <2>1. UNCHANGED <<reader, points, string, written, step>>
    BY <1>2 DEF coded
  <2>2. U!FromUtf8(U!Utf8(points))' = U!FromUtf8(U!Utf8(points))
    BY <2>1
  <2> QED
    BY <2>1, <2>2 DEF TextInv
<1>3. CASE reader = "text" /\ U!Read
  <2>1. /\ step = "new" /\ string' = U!FromUtf8(U!Utf8(points)) /\ step' = "read"
        /\ points' = points /\ points \in Seq(U!CodePoint)
    BY <1>3 DEF U!Read, TextInv
  <2>2. U!FromUtf8(U!Utf8(points))' = U!FromUtf8(U!Utf8(points))
    BY <2>1
  <2> QED
    BY <2>1, <2>2 DEF TextInv
<1>4. CASE reader = "text" /\ U!Write
  <2>1. /\ step = "read" /\ written' = string /\ step' = "written" /\ points' = points
        /\ string' = string /\ points \in Seq(U!CodePoint) /\ string = U!FromUtf8(U!Utf8(points))
    BY <1>4 DEF U!Write, TextInv
  <2>2. U!FromUtf8(U!Utf8(points))' = U!FromUtf8(U!Utf8(points))
    BY <2>1
  <2> QED
    BY <2>1, <2>2 DEF TextInv
<1> QED
  BY <1>1, <1>2, <1>3, <1>4 DEF U!Next

\* The text of an element that FromXml reads and ToString writes (utility.cc,
\* FromUtf8): it is the same again exactly if no character of it has two bytes,
\* in every text, however long.
THEOREM WritesWhatItRead == Spec => []TextsSurvive
<1>1. TextInv => TextsSurvive
  <2> SUFFICES ASSUME TextInv, reader = "text", step = "written"
               PROVE  written = U!Utf8(points) <=> U!Range(points) \cap U!TwoByte = {}
    BY DEF TextsSurvive, U!TextsSurvive
  <2>1. points \in Seq(U!CodePoint) /\ written = U!FromUtf8(U!Utf8(points))
    BY DEF TextInv
  <2>2. PICK bytes : bytes = U!Utf8(points)
    OBVIOUS
  <2>3. bytes \in Seq(U!Byte)
    BY <2>1, <2>2, Utf8Pairs
  <2>4. ASSUME U!Range(points) \cap U!TwoByte = {} PROVE written = bytes
    <3>1. \A i \in 1..Len(bytes) : ~U!IsPair(bytes, i)
      BY <2>1, <2>2, <2>4, Utf8Pairs
    <3> QED
      BY <2>1, <2>2, <2>3, <3>1, PairsFolded
  <2>5. ASSUME U!Range(points) \cap U!TwoByte # {} PROVE written # bytes
    <3>1. \E i \in 1..Len(bytes) : U!IsPair(bytes, i)
      BY <2>1, <2>2, <2>5, Utf8Pairs
    <3>2. Len(written) < Len(bytes)
      BY <2>1, <2>2, <2>3, <3>1, PairsFolded
    <3>3. Len(bytes) \in Nat
      BY <2>3
    <3> QED
      BY <3>2, <3>3
  <2> QED
    BY <2>2, <2>4, <2>5
<1> QED
  BY <1>1, TextInit, TextNext, PTL DEF Spec

-----------------------------------------------------------------------------
(* The queries about operations.                                           *)

\* A loop over the children called q stops at each of them, and nowhere else.
LEMMA LoopVisitsAll ==
  ASSUME NEW d, L!IsTree(d), 1 \in L!NodesOf(d), NEW x \in L!NodesOf(d) \cup {0},
         NEW q, q # "text"
  PROVE  /\ Q!Loop(d, x, q) \in Seq(Called(d, x, q))
         /\ \A k \in Called(d, x, q) : \E i \in 1..Len(Q!Loop(d, x, q)) : Q!Loop(d, x, q)[i] = k
<1>1. PICK n \in Nat : n = Len(d.name)
  BY TreeNodes
<1>2. /\ L!NodesOf(d) = 1..n /\ L!NodesOf(d) \cup {0} = 0..n
      /\ Q!NodesOf(d) = 1..n /\ Q!Nil = 0
  BY <1>1, TreeNodes, SameSearch
<1>3. PICK after : after = [k \in 1..n |-> L!GetNextElement(d, k, q)]
  OBVIOUS
<1>4. \A k \in 1..n : /\ after[k] = Q!GetNextElement(d, k, q) /\ after[k] = L!GetNextElement(d, k, q)
                      /\ after[k] = 0 \/ (after[k] \in 1..n /\ after[k] > k)
  BY <1>2, <1>3, NextIsLater, SameSearch
<1> DEFINE Is(g) == g = [k \in Q!NodesOf(d) \cup {Q!Nil} |->
                           IF k = Q!Nil THEN << >> ELSE <<k>> \o g[Q!GetNextElement(d, k, q)]]
           f == CHOOSE g : Is(g)
<1>5. Q!Loop(d, x, q) = f[Q!GetFirstElement(d, x, q)]
  BY DEF Q!Loop
<1>6. \E g : Is(g)
  <2>1. PICK V : V = Seq(1..n)
    OBVIOUS
  <2>2. PICK e \in Nat : e = n + 1
    OBVIOUS
  <2>3. PICK past : past = [k \in 1..e |-> IF k \in 1..n /\ after[k] # 0 THEN after[k] ELSE e]
    OBVIOUS
  <2>4. \A k \in 1..n : k \in 1..e /\ past[k] = IF after[k] # 0 THEN after[k] ELSE e
    BY <2>2, <2>3
  <2>5. Later(1, e, past)
    <3> SUFFICES ASSUME NEW k \in 1..e, k < e PROVE past[k] \in (k + 1)..e
      BY DEF Later
    <3>1. k \in 1..n
      BY <2>2
    <3> QED
      BY <1>4, <2>2, <2>4, <3>1
  <2>6. PICK next : next = [k \in 1..e |-> [s \in V |-> IF k \in 1..n THEN <<k>> \o s ELSE s]]
    OBVIOUS
  <2>7. \A k \in 1..n, s \in V : <<k>> \o s \in V
    BY <2>1
  <2>8. next \in [1..e -> [V -> V]]
    BY <2>6, <2>7
  <2>9. << >> \in V /\ 1 \in 0..e
    BY <2>1, <2>2
  <2>10. PICK h : Descent(1, e, past, V, << >>, next, h)
    BY <2>2, <2>5, <2>8, <2>9, DescentExists
  <2>11. h[e] = << >> /\ \A k \in 1..e : h[k] \in V
    BY <2>10 DEF Descent
  <2>12. ASSUME NEW k \in 1..n PROVE h[k] = <<k>> \o (IF after[k] = 0 THEN << >> ELSE h[after[k]])
    <3>1. k \in 1..e /\ k < e /\ past[k] \in 1..e
      BY <1>4, <2>2, <2>4
    <3>2. h[k] = next[k][h[past[k]]]
      BY <2>10, <3>1 DEF Descent
    <3>3. next[k][h[past[k]]] = <<k>> \o h[past[k]]
      BY <2>6, <2>11, <3>1
    <3>4. h[past[k]] = IF after[k] = 0 THEN << >> ELSE h[after[k]]
      BY <2>4, <2>11
    <3> QED
      BY <3>2, <3>3, <3>4
  <2>13. PICK g : g = [k \in 0..n |-> IF k = 0 THEN << >> ELSE h[k]]
    OBVIOUS
  <2>14. g[0] = << >> /\ \A k \in 1..n : g[k] = h[k]
    BY <2>13
  <2>15. \A k \in 1..n : g[k] = <<k>> \o g[after[k]]
    <3> SUFFICES ASSUME NEW k \in 1..n PROVE g[k] = <<k>> \o g[after[k]]
      OBVIOUS
    <3>1. g[after[k]] = IF after[k] = 0 THEN << >> ELSE h[after[k]]
      BY <1>4, <2>14
    <3> QED
      BY <2>12, <2>14, <3>1
  <2>16. \A k \in 0..n : k = 0 \/ k \in 1..n
    OBVIOUS
  <2>17. g = [k \in 0..n |-> IF k = 0 THEN << >> ELSE <<k>> \o g[after[k]]]
    BY <2>13, <2>14, <2>15, <2>16
  <2>18. g = [k \in 0..n |-> IF k = 0 THEN << >> ELSE <<k>> \o g[Q!GetNextElement(d, k, q)]]
    BY <1>4, <2>16, <2>17
  <2>19. Is(g)
    BY <1>2, <2>18
  <2> HIDE DEF Is
  <2> QED
    BY <2>19
<1>7. Is(f)
  <2> HIDE DEF Is
  <2> QED
    BY <1>6
<1> HIDE DEF f
<1>8. f[0] = << >> /\ \A k \in 1..n : f[k] = <<k>> \o f[after[k]]
  <2>1. f = [k \in 0..n |-> IF k = 0 THEN << >> ELSE <<k>> \o f[Q!GetNextElement(d, k, q)]]
    BY <1>2, <1>7
  <2>2. \A k \in 1..n : k \in 0..n /\ k # 0
    OBVIOUS
  <2>3. \A k \in 1..n : f[k] = <<k>> \o f[Q!GetNextElement(d, k, q)]
    BY <2>1, <2>2
  <2>4. f[0] = << >>
    BY <2>1
  <2> QED
    BY <1>4, <2>3, <2>4
<1> HIDE DEF Is
<1>9. PICK C : C = Called(d, x, q)
  OBVIOUS
<1>10. C \subseteq 1..n /\ C \subseteq Nat \ {0}
  BY <1>2, <1>9 DEF Called, L!ChildrenOf
<1>11. \A k \in C : after[k] = L!Earliest(Behind(C, k))
  <2> SUFFICES ASSUME NEW k \in C PROVE after[k] = L!Earliest(Behind(C, k))
    OBVIOUS
  <2>1. k \in L!ChildrenOf(d, x) /\ x # 0
    BY <1>9 DEF Called, L!ChildrenOf, L!Nil
  <2>2. L!GetNextElement(d, k, q) = L!Earliest(Behind(Called(d, x, q), k))
    BY <2>1, NextElement
  <2> QED
    BY <1>4, <1>9, <1>10, <2>2
<1> DEFINE Good == {k \in 0..n : k \in C => /\ f[k] \in Seq(C)
                                            /\ \A j \in From(C, k) :
                                                 \E i \in 1..Len(f[k]) : f[k][i] = j}
<1>12. \A k \in 0..n : k \in Good
  <2> SUFFICES ASSUME NEW k \in 0..n, \A r \in 0..n : k < r => r \in Good
               PROVE  k \in Good
    <3>1. n \in Nat /\ 0 \in 0..n /\ \A k \in 0..n : (\A r \in 0..n : k < r => r \in Good) => k \in Good
      OBVIOUS
    <3> HIDE DEF Good
    <3> QED
      BY <3>1, Backwards
  <2> SUFFICES ASSUME k \in C
               PROVE  /\ f[k] \in Seq(C)
                      /\ \A j \in From(C, k) : \E i \in 1..Len(f[k]) : f[k][i] = j
    OBVIOUS
  <2>1. k \in 1..n /\ f[k] = <<k>> \o f[after[k]] /\ after[k] = L!Earliest(Behind(C, k))
    BY <1>8, <1>10, <1>11
  <2>2. Behind(C, k) \subseteq Nat \ {0} /\ Behind(C, k) \subseteq C /\ \A j \in Behind(C, k) : j > k
    BY <1>10 DEF Behind
  <2>3. \A j \in From(C, k) : j = k \/ j \in Behind(C, k)
    BY <1>10 DEF From, Behind
  <2>4. PICK s : s = f[after[k]]
    OBVIOUS
  <2>5. s \in Seq(C) /\ \A j \in Behind(C, k) : \E i \in 1..Len(s) : s[i] = j
    <3>1. CASE Behind(C, k) = {}
      <4>1. after[k] = 0
        BY <2>1, <2>2, <3>1, EarliestLeast
      <4>2. s = << >>
        BY <1>8, <2>4, <4>1
      <4> QED
        BY <3>1, <4>2
    <3>2. CASE Behind(C, k) # {}
      <4>1. after[k] \in Behind(C, k) /\ \A j \in Behind(C, k) : after[k] <= j
        BY <2>1, <2>2, <3>2, EarliestLeast
      <4>2. after[k] \in C /\ after[k] \in 0..n /\ k < after[k]
        BY <1>10, <2>2, <4>1
      <4>3. after[k] \in Good
        BY <4>2
      <4>4. Behind(C, k) \subseteq From(C, after[k])
        BY <2>2, <4>1, <4>2 DEF From
      <4> QED
        BY <2>4, <4>2, <4>3, <4>4
    <3> QED
      BY <3>1, <3>2
  <2>6. PICK m \in Nat : m = Len(s)
    BY <2>5
  <2>7. PICK r : r = <<k>> \o s
    OBVIOUS
  <2>8. /\ r \in Seq(C) /\ Len(r) = m + 1 /\ r[1] = k
        /\ \A i \in 1..m : r[i + 1] = s[i]
    <3>1. <<k>> \in Seq(C) /\ Len(<<k>>) = 1 /\ <<k>>[1] = k
      OBVIOUS
    <3>2. PICK u \in Seq(C) : u = <<k>> /\ Len(u) = 1 /\ u[1] = k /\ r = u \o s
      BY <2>7, <3>1
    <3>3. /\ r \in Seq(C) /\ Len(r) = 1 + m
          /\ \A i \in 1..(1 + m) : r[i] = IF i <= 1 THEN u[i] ELSE s[i - 1]
      BY <2>5, <2>6, <3>2, ConcatProperties
    <3>4. \A i \in 1..m : i + 1 \in 1..(1 + m) /\ ~(i + 1 <= 1) /\ (i + 1) - 1 = i
      OBVIOUS
    <3>5. 1 \in 1..(1 + m)
      OBVIOUS
    <3> QED
      BY <3>2, <3>3, <3>4, <3>5
  <2>9. \A i \in 1..m : i + 1 \in 1..Len(r)
    BY <2>8
  <2>10. 1 \in 1..Len(r)
    BY <2>8
  <2>11. \A j \in From(C, k) : \E i \in 1..Len(r) : r[i] = j
    BY <2>3, <2>5, <2>6, <2>8, <2>9, <2>10
  <2> QED
    BY <2>1, <2>4, <2>7, <2>8, <2>11
<1>13. PICK e : e = L!GetFirstElement(d, x, q)
  OBVIOUS
<1>14. e = L!Earliest(C)
  <2>1. CASE x = 0
    <3>1. C = {}
      BY <1>9, <2>1 DEF Called, L!ChildrenOf, L!Nil
    <3>2. L!Earliest(C) = 0
      BY <3>1 DEF L!Earliest, L!Nil
    <3> QED
      BY <1>13, <2>1, <3>2, NoElement
  <2>2. CASE x \in L!NodesOf(d)
    BY <1>9, <1>13, <2>2, FirstElement
  <2> QED
    BY <2>1, <2>2
<1>15. Q!Loop(d, x, q) = f[e]
  BY <1>5, <1>13, SameSearch
<1>16. CASE C = {}
  <2>1. f[e] = << >>
    BY <1>8, <1>14, <1>16 DEF L!Earliest, L!Nil
  <2> QED
    BY <1>9, <1>15, <1>16, <2>1
<1>17. CASE C # {}
  <2>1. e \in C /\ \A j \in C : e <= j
    BY <1>10, <1>14, <1>17, EarliestLeast
  <2>2. e \in 0..n /\ e \in Nat
    BY <1>10, <2>1
  <2>3. f[e] \in Seq(C) /\ \A j \in From(C, e) : \E i \in 1..Len(f[e]) : f[e][i] = j
    <3>1. e \in Good
      BY <1>12, <2>2
    <3> QED
      BY <2>1, <3>1
  <2>4. \A j \in C : j \in From(C, e)
    BY <1>10, <2>1, <2>2 DEF From
  <2> QED
    BY <1>9, <1>15, <2>3, <2>4
<1> QED
  BY <1>16, <1>17

\* The portTypes, or bindings, that a name selects.
Ports(sort, portname) ==
  {p \in Called(doc, 1, sort) : portname \in {Q!Name(doc, p), ""}}

\* Their operations of F.
OpsAmong(sort, portname, F) ==
  {x \in L!NodesOf(doc) : /\ doc.up[x] \in Ports(sort, portname)
                          /\ x \in Called(doc, doc.up[x], "operation") \cap F}

\* What the name selects, if a loop over operations, as f says, does not end below.
Fitting(portname, f) ==
  {k \in L!NodesOf(doc) : /\ portname \in {Q!Name(doc, k), ""}
                          /\ f[L!GetFirstElement(doc, k, "operation")] # 0}

LEMMA OpsAreAmong ==
  ASSUME Q!WellFormed, doc \in Wsdls, NEW sort, NEW portname, NEW op, NEW F,
         F = {k \in L!NodesOf(doc) : Q!Name(doc, k) = op}
  PROVE  Q!OpsCalled(sort, portname, op) = OpsAmong(sort, portname, F)
<1>1. L!IsTree(doc) /\ 1 \in L!NodesOf(doc)
  BY SameSearch DEF Q!WellFormed
<1>2. L!NodesOf(doc) \subseteq Nat \ {0}
  BY <1>1, TreeNodes
<1>3. \A k : k \in Q!Kind(sort) <=> k \in L!NodesOf(doc) /\ doc.name[k] = sort
  BY SameSearch DEF Q!Kind
<1>4. \A k : k \in Q!Kind("operation") <=> k \in L!NodesOf(doc) /\ doc.name[k] = "operation"
  BY SameSearch DEF Q!Kind
<1>5. \A k : k \in Ports(sort, portname)
               <=> /\ k \in Q!Kind(sort) /\ doc.up[k] = 1
                   /\ portname = "" \/ Q!Called(k, portname)
  <2>1. \A k : k \in Called(doc, 1, sort) <=> k \in Q!Kind(sort) /\ doc.up[k] = 1
    BY <1>3 DEF Called, L!ChildrenOf, L!Nil
  <2>2. \A k : Q!Called(k, portname) <=> portname = Q!Name(doc, k)
    BY DEF Q!Called
  <2> QED
    BY <2>1, <2>2 DEF Ports
<1>6. \A x, y : y # 0 => (x \in Called(doc, y, "operation")
                            <=> x \in Q!Kind("operation") /\ doc.up[x] = y)
  BY <1>4 DEF Called, L!ChildrenOf, L!Nil
<1>7. \A k \in Ports(sort, portname) : k # 0
  BY <1>2, <1>3, <1>5
<1>8. \A x : x \in Q!OpsCalled(sort, portname, op)
               <=> /\ x \in Q!Kind("operation") /\ doc.up[x] \in Ports(sort, portname)
                   /\ Q!Called(x, op)
  BY <1>5, SameSearch DEF Q!OpsCalled
<1>9. \A x : x \in OpsAmong(sort, portname, F)
               <=> /\ x \in Q!Kind("operation") /\ doc.up[x] \in Ports(sort, portname)
                   /\ Q!Called(x, op)
  BY <1>4, <1>6, <1>7 DEF OpsAmong, Q!Called
<1> QED
  BY <1>8, <1>9

\* Two loops, one in the other, that return at the first of F, return at the
\* first in the document.
LEMMA FirstOpAmong ==
  ASSUME Q!WellFormed, doc \in Wsdls, NEW sort, sort # "text", NEW portname, NEW F, NEW f,
         StopsAt(doc, "operation", F, f), NEW g, StopsAt(doc, sort, Fitting(portname, f), g)
  PROVE  /\ f[L!GetFirstElement(doc, g[L!GetFirstElement(doc, 1, sort)], "operation")]
              = L!Earliest(OpsAmong(sort, portname, F))
         /\ OpsAmong(sort, portname, F) \subseteq Nat \ {0}
<1>0. \A j, k \in L!NodesOf(doc) : doc.up[k] < doc.up[j] /\ doc.up[j] < k => j < k
  BY SameSearch DEF Q!WellFormed
<1>1. /\ L!IsTree(doc) /\ 1 \in L!NodesOf(doc) /\ 1 \in L!NodesOf(doc) \cup {0}
      /\ "operation" # "text"
  <2>1. /\ Q!IsTree(doc) /\ Q!Root \in Q!NodesOf(doc)
    BY DEF Q!WellFormed
  <2>2. Q!Root = 1 /\ Q!NodesOf(doc) = L!NodesOf(doc) /\ L!IsTree(doc)
    BY <2>1, SameSearch
  <2> QED
    BY <2>1, <2>2
<1>2. L!NodesOf(doc) \subseteq Nat \ {0}
  BY <1>1, TreeNodes
<1> DEFINE G == Fitting(portname, f)
<1>3. PICK p : p = g[L!GetFirstElement(doc, 1, sort)]
  OBVIOUS
<1>4. p = L!Earliest(Called(doc, 1, sort) \cap G)
  <2>1. g[L!GetFirstElement(doc, 1, sort)] = L!Earliest(Called(doc, 1, sort) \cap G)
    BY <1>1, StopsFirst
  <2> QED
    BY <1>3, <2>1
<1>5. p = 0 \/ (p \in Called(doc, 1, sort) /\ p \in G /\ p \in L!NodesOf(doc))
  BY <1>1, <1>4, CalledNodes
<1>6. \A k \in L!NodesOf(doc) \cup {0} :
         f[L!GetFirstElement(doc, k, "operation")] = L!Earliest(Called(doc, k, "operation") \cap F)
  <2>1. \A h : StopsAt(doc, "operation", F, h) =>
          \A k \in L!NodesOf(doc) \cup {0} :
            h[L!GetFirstElement(doc, k, "operation")] = L!Earliest(Called(doc, k, "operation") \cap F)
    BY <1>1, LoopStops
  <2> QED
    BY <2>1
<1>7. PICK S : S = OpsAmong(sort, portname, F)
  OBVIOUS
<1>8. /\ S \subseteq L!NodesOf(doc) /\ S \subseteq Nat \ {0}
      /\ \A x \in S : /\ doc.up[x] \in Ports(sort, portname) /\ doc.up[x] \in L!NodesOf(doc)
                      /\ x \in Called(doc, doc.up[x], "operation") \cap F
  BY <1>2, <1>7 DEF OpsAmong, Ports, Called, L!ChildrenOf
<1>9. \A x \in S : doc.up[x] \in Called(doc, 1, sort) \cap G
  <2> SUFFICES ASSUME NEW x \in S PROVE doc.up[x] \in Called(doc, 1, sort) \cap G
    OBVIOUS
  <2>1. PICK q \in L!NodesOf(doc) : q = doc.up[x] /\ q \in Ports(sort, portname)
    BY <1>8
  <2>2. PICK W : W = Called(doc, q, "operation") \cap F
    OBVIOUS
  <2>3. W \subseteq Nat \ {0} /\ W # {}
    BY <1>2, <1>8, <2>1, <2>2 DEF Called, L!ChildrenOf
  <2>4. L!Earliest(W) # 0
    BY <2>3, EarliestLeast
  <2>5. f[L!GetFirstElement(doc, q, "operation")] # 0
    BY <1>6, <2>1, <2>2, <2>4
  <2> QED
    BY <2>1, <2>5 DEF Ports, Fitting
<1>10. \A x \in S : p # 0 /\ p <= doc.up[x]
  <2> SUFFICES ASSUME NEW x \in S PROVE p # 0 /\ p <= doc.up[x]
    OBVIOUS
  <2>1. PICK W : W = Called(doc, 1, sort) \cap G
    OBVIOUS
  <2>2. W \subseteq Nat \ {0} /\ doc.up[x] \in W
    BY <1>2, <1>9, <2>1 DEF Called, L!ChildrenOf
  <2>3. p \in W /\ p <= doc.up[x]
    BY <1>4, <2>1, <2>2, EarliestLeast
  <2> QED
    BY <2>2, <2>3
<1>11. CASE p = 0
  <2>1. S = {}
    BY <1>10, <1>11
  <2>2. L!Earliest(S) = 0
    BY <2>1 DEF L!Earliest, L!Nil
  <2>3. Called(doc, 0, "operation") \cap F = {}
    BY DEF Called, L!ChildrenOf, L!Nil
  <2>4. L!Earliest(Called(doc, 0, "operation") \cap F) = 0
    BY <2>3 DEF L!Earliest, L!Nil
  <2> QED
    BY <1>3, <1>6, <1>7, <1>8, <1>11, <2>2, <2>4
<1>12. CASE p # 0
  <2>1. PICK y : y = L!Earliest(Called(doc, p, "operation") \cap F)
    OBVIOUS
  <2>2. p \in L!NodesOf(doc) /\ p \in Called(doc, 1, sort) /\ p \in G
    BY <1>5, <1>12
  <2>3. f[L!GetFirstElement(doc, p, "operation")] = y
    BY <1>6, <2>1, <2>2
  <2>4. y # 0 /\ portname \in {Q!Name(doc, p), ""}
    BY <2>2, <2>3 DEF Fitting
  <2>5. y \in Called(doc, p, "operation") /\ y \in F /\ y \in L!NodesOf(doc)
    BY <1>1, <2>1, <2>4, CalledNodes
  <2>6. doc.up[y] = p
    BY <2>5 DEF Called, L!ChildrenOf
  <2>7. y \in S
    BY <1>7, <2>2, <2>4, <2>5, <2>6 DEF OpsAmong, Ports
  <2>8. ASSUME NEW x \in S PROVE y <= x
    <3>1. PICK q \in L!NodesOf(doc) : q = doc.up[x] /\ q \in Ports(sort, portname) /\ p <= q
      BY <1>8, <1>10
    <3>2. y \in Nat /\ x \in Nat /\ p \in Nat /\ q \in Nat
      BY <1>2, <1>8, <2>2, <2>5
    <3>3. CASE p = q
      <4>1. PICK W : W = Called(doc, p, "operation") \cap F
        OBVIOUS
      <4>2. W \subseteq Nat \ {0} /\ x \in W
        BY <1>2, <1>8, <3>1, <3>3, <4>1 DEF Called, L!ChildrenOf
      <4> QED
        BY <2>1, <4>1, <4>2, EarliestLeast
    <3>4. CASE p # q
      <4>1. doc.up[q] = 1 /\ doc.up[p] = 1
        BY <2>2, <3>1 DEF Ports, Called, L!ChildrenOf
      <4>2. doc.up[p] \in 0..(p - 1) /\ doc.up[x] \in 0..(x - 1)
        BY <1>1, <1>8, <2>2 DEF L!IsTree
      <4>3. 1 < p /\ q < x
        BY <3>1, <3>2, <4>1, <4>2
      <4>4. p < q
        BY <3>1, <3>2, <3>4
      <4>5. y < q
        BY <1>0, <2>2, <2>5, <2>6, <4>1, <4>3, <4>4
      <4> QED
        BY <3>2, <4>3, <4>5
    <3> QED
      BY <3>3, <3>4
  <2>9. L!Earliest(S) = y
    BY <1>8, <2>7, <2>8, EarliestIs
  <2> QED
    BY <1>3, <1>7, <1>8, <2>3, <2>9
<1> QED
  BY <1>11, <1>12

\* GetPortTypeOp and GetBindingOp return the first operation of the name.
LEMMA OpAnswered ==
  ASSUME Q!WellFormed, doc \in Wsdls, NEW sort, sort # "text", NEW portname, NEW op
  PROVE  Q!GetOp(doc, sort, portname, op) = L!Earliest(Q!OpsCalled(sort, portname, op))
<1>1. L!IsTree(doc) /\ 1 \in L!NodesOf(doc) /\ "operation" # "text"
  BY SameSearch DEF Q!WellFormed
<1> DEFINE IsF(h) == h = [k \in Q!NodesOf(doc) \cup {Q!Nil} |->
                            IF k = Q!Nil \/ Q!Name(doc, k) = op THEN k
                            ELSE h[Q!GetNextElement(doc, k, "operation")]]
           f == CHOOSE h : IsF(h)
           IsG(h) == h = [k \in Q!NodesOf(doc) \cup {Q!Nil} |->
                            IF \/ k = Q!Nil
                               \/ /\ portname \in {Q!Name(doc, k), ""}
                                  /\ f[Q!GetFirstElement(doc, k, "operation")] # Q!Nil
                            THEN k ELSE h[Q!GetNextElement(doc, k, sort)]]
           g == CHOOSE h : IsG(h)
<1>2. Q!GetOp(doc, sort, portname, op)
        = f[Q!GetFirstElement(doc, g[Q!GetFirstElement(doc, Q!Root, sort)], "operation")]
  BY DEF Q!GetOp, Q!FirstOp, Q!FirstThat
<1>3. PICK F : F = {k \in L!NodesOf(doc) : Q!Name(doc, k) = op}
  OBVIOUS
<1>4. \A h : IsF(h) <=> StopsAt(doc, "operation", F, h)
  BY <1>3, SameSearch DEF StopsAt
<1> HIDE DEF IsF
<1>5. StopsAt(doc, "operation", F, f)
  <2>1. \E h : StopsAt(doc, "operation", F, h)
    BY <1>1, LoopStops
  <2>2. IsF(f)
    BY <1>4, <2>1
  <2> QED
    BY <1>4, <2>2
<1> HIDE DEF f
<1>6. \A h : IsG(h) <=> StopsAt(doc, sort, Fitting(portname, f), h)
  BY SameSearch DEF StopsAt, Fitting
<1> HIDE DEF IsG
<1>7. StopsAt(doc, sort, Fitting(portname, f), g)
  <2>1. \E h : StopsAt(doc, sort, Fitting(portname, f), h)
    BY <1>1, LoopStops
  <2>2. IsG(g)
    BY <1>6, <2>1
  <2> QED
    BY <1>6, <2>2
<1> HIDE DEF g
<1>8. f[L!GetFirstElement(doc, g[L!GetFirstElement(doc, 1, sort)], "operation")]
        = L!Earliest(OpsAmong(sort, portname, F))
  BY <1>5, <1>7, FirstOpAmong
<1>9. Q!OpsCalled(sort, portname, op) = OpsAmong(sort, portname, F)
  BY <1>3, OpsAreAmong
<1> QED
  BY <1>2, <1>8, <1>9, SameSearch

\* The nodes called way below some operations, and those of the first of them.
Below(ops, way) == {x \in Q!Kind(way) : doc.up[x] \in ops}

Topmost(S) == {x \in S : \A y \in S : doc.up[x] <= doc.up[y]}

\* GetMessageForOp returns the message of the first input, or output, below the
\* first of the operations of the name that has one.
LEMMA MessageAnswered ==
  ASSUME Q!WellFormed, doc \in Wsdls, NEW portname, NEW op, NEW way, way # "text"
  PROVE  Q!GetMessageForOp(doc, portname, op, way)
           = Q!GetProperty(doc, L!Earliest(Topmost(Below(Q!OpsCalled("portType", portname, op), way))),
                           "message")
<1>0. PICK typed, Tops : typed = Below(Q!OpsCalled("portType", portname, op), way)
                         /\ Tops = Topmost(typed)
  OBVIOUS
<1>1. L!IsTree(doc) /\ 1 \in L!NodesOf(doc) /\ "operation" # "text" /\ "portType" # "text"
  BY SameSearch DEF Q!WellFormed
<1>2. L!NodesOf(doc) \subseteq Nat \ {0}
  BY <1>1, TreeNodes
<1> DEFINE IsF(h) == h = [k \in Q!NodesOf(doc) \cup {Q!Nil} |->
                            IF k = Q!Nil \/ (Q!Name(doc, k) = op /\ Q!GetFirstElement(doc, k, way) # Q!Nil) THEN k
                            ELSE h[Q!GetNextElement(doc, k, "operation")]]
           f == CHOOSE h : IsF(h)
           IsG(h) == h = [k \in Q!NodesOf(doc) \cup {Q!Nil} |->
                            IF \/ k = Q!Nil
                               \/ /\ portname \in {Q!Name(doc, k), ""}
                                  /\ f[Q!GetFirstElement(doc, k, "operation")] # Q!Nil
                            THEN k ELSE h[Q!GetNextElement(doc, k, "portType")]]
           g == CHOOSE h : IsG(h)
           first == f[Q!GetFirstElement(doc, g[Q!GetFirstElement(doc, Q!Root, "portType")], "operation")]
<1>3. Q!GetMessageForOp(doc, portname, op, way)
        = Q!GetProperty(doc, Q!GetFirstElement(doc, first, way), "message")
  BY DEF Q!GetMessageForOp, Q!FirstOp, Q!FirstThat
<1> DEFINE Has(k) == Q!GetFirstElement(doc, k, way) # Q!Nil
<1>4. PICK F : F = {k \in L!NodesOf(doc) : Q!Name(doc, k) = op /\ Has(k)}
  OBVIOUS
<1>5. \A h : IsF(h) <=> StopsAt(doc, "operation", F, h)
  BY <1>4, SameSearch DEF StopsAt
<1> HIDE DEF IsF
<1>6. StopsAt(doc, "operation", F, f)
  <2>1. \E h : StopsAt(doc, "operation", F, h)
    BY <1>1, LoopStops
  <2>2. IsF(f)
    BY <1>5, <2>1
  <2> QED
    BY <1>5, <2>2
<1> HIDE DEF f
<1>7. \A h : IsG(h) <=> StopsAt(doc, "portType", Fitting(portname, f), h)
  BY SameSearch DEF StopsAt, Fitting
<1> HIDE DEF IsG
<1>8. StopsAt(doc, "portType", Fitting(portname, f), g)
  <2>1. \E h : StopsAt(doc, "portType", Fitting(portname, f), h)
    BY <1>1, LoopStops
  <2>2. IsG(g)
    BY <1>7, <2>1
  <2> QED
    BY <1>7, <2>2
<1> HIDE DEF g
<1>9. PICK S : S = OpsAmong("portType", portname, F)
  OBVIOUS
<1>10. first = L!Earliest(S) /\ S \subseteq Nat \ {0}
  BY <1>1, <1>6, <1>8, <1>9, FirstOpAmong, SameSearch
<1> HIDE DEF first
<1>11. \A x : x \in S <=> x \in Q!OpsCalled("portType", portname, op) /\ Has(x)
  <2>1. PICK E : E = {k \in L!NodesOf(doc) : Q!Name(doc, k) = op}
    OBVIOUS
  <2>2. Q!OpsCalled("portType", portname, op) = OpsAmong("portType", portname, E)
    BY <2>1, OpsAreAmong
  <2>3. \A k \in L!NodesOf(doc) : k \in F <=> k \in E /\ Has(k)
    BY <1>4, <2>1
  <2> HIDE DEF Has
  <2> QED
    BY <1>9, <2>2, <2>3 DEF OpsAmong
<1>12. S \subseteq L!NodesOf(doc)
  BY <1>9 DEF OpsAmong
<1>13. \A k \in L!NodesOf(doc) : Q!GetFirstElement(doc, k, way) = L!Earliest(Called(doc, k, way))
  BY <1>1, FirstElement, SameSearch
<1>14. \A k \in L!NodesOf(doc) : \A x : x \in Called(doc, k, way) <=> x \in Q!Kind(way) /\ doc.up[x] = k
  BY <1>2, SameSearch DEF Called, L!ChildrenOf, L!Nil, Q!Kind
<1>15. \A k \in L!NodesOf(doc) : Called(doc, k, way) \subseteq Nat \ {0}
  BY <1>2 DEF Called, L!ChildrenOf
<1>16. \A x \in typed : doc.up[x] \in S
  <2> SUFFICES ASSUME NEW x \in typed PROVE doc.up[x] \in S
    OBVIOUS
  <2>1. PICK k : k = doc.up[x]
    OBVIOUS
  <2>2. k \in Q!OpsCalled("portType", portname, op) /\ x \in Q!Kind(way)
    BY <1>0, <2>1 DEF Below
  <2>3. k \in L!NodesOf(doc)
    BY <2>2, SameSearch DEF Q!OpsCalled, Q!Kind
  <2>4. x \in Called(doc, k, way)
    BY <1>14, <2>1, <2>2, <2>3
  <2>5. L!Earliest(Called(doc, k, way)) # 0
    BY <1>15, <2>3, <2>4, EarliestLeast
  <2>6. Has(k)
    BY <1>13, <2>3, <2>5, SameSearch
  <2> QED
    BY <1>11, <2>1, <2>2, <2>6
<1>17. CASE S = {}
  <2>1. Tops = {}
    BY <1>0, <1>16, <1>17 DEF Topmost
  <2>2. first = 0 /\ L!Earliest(Tops) = 0
    BY <1>10, <1>17, <2>1 DEF L!Earliest, L!Nil
  <2>3. Q!GetFirstElement(doc, first, way) = 0
    BY <1>1, <2>2, NoElement, SameSearch
  <2> QED
    BY <1>0, <1>3, <2>2, <2>3
<1>18. CASE S # {}
  <2>1. first \in S /\ \A k \in S : first <= k
    BY <1>10, <1>18, EarliestLeast
  <2>2. first \in L!NodesOf(doc) /\ Has(first) /\ first \in Q!OpsCalled("portType", portname, op)
    BY <1>11, <1>12, <2>1
  <2>3. PICK C : C = Called(doc, first, way)
    OBVIOUS
  <2>4. C # {}
    <3>1. L!Earliest(C) # 0
      BY <1>13, <2>2, <2>3, SameSearch
    <3> QED
      BY <3>1 DEF L!Earliest, L!Nil
  <2>5. C \subseteq typed /\ \A x \in C : doc.up[x] = first
    BY <1>0, <1>14, <2>2, <2>3 DEF Below
  <2>6. \A x \in C : x \in Tops
    BY <1>0, <1>16, <2>1, <2>5 DEF Topmost
  <2>7. ASSUME NEW x \in Tops PROVE x \in C
    <3>1. PICK e : e \in C
      BY <2>4
    <3>2. doc.up[x] <= first /\ doc.up[x] \in S /\ x \in typed
      BY <1>0, <1>16, <2>5, <3>1 DEF Topmost
    <3>3. doc.up[x] = first
      <4>1. PICK a \in Nat, b \in Nat : a = doc.up[x] /\ b = first
        BY <1>10, <2>1, <3>2
      <4>2. a <= b /\ b <= a
        BY <2>1, <3>2, <4>1
      <4> QED
        BY <4>1, <4>2
    <3> QED
      BY <1>0, <1>14, <2>2, <2>3, <3>2, <3>3 DEF Below
  <2>8. Tops = C
    BY <2>6, <2>7
  <2> QED
    BY <1>0, <1>3, <1>13, <2>2, <2>3, <2>8
<1> QED
  BY <1>17, <1>18

\* GetOperations lists the names of the operations of the portTypes selected.
LEMMA OperationsListed ==
  ASSUME Q!WellFormed, doc \in Wsdls, NEW portname, NEW op
  PROVE  op \in Q!Range(Q!GetOperations(doc, portname))
           <=> Q!OpsCalled("portType", portname, op) # {}
<1>1. L!IsTree(doc) /\ 1 \in L!NodesOf(doc) /\ "operation" # "text" /\ "portType" # "text"
  BY SameSearch DEF Q!WellFormed
<1>2. L!NodesOf(doc) \subseteq Nat \ {0}
  BY <1>1, TreeNodes
<1>3. PICK ports : ports = Q!Loop(doc, 1, "portType")
  OBVIOUS
<1>4. PICK N : N = L!NodesOf(doc)
  OBVIOUS
<1>5. /\ ports \in Seq(Called(doc, 1, "portType"))
      /\ \A p \in Called(doc, 1, "portType") : \E i \in 1..Len(ports) : ports[i] = p
  BY <1>1, <1>3, LoopVisitsAll
<1>6. PICK m \in Nat : /\ m = Len(ports) /\ DOMAIN ports = 1..m
                       /\ \A i \in 1..m : ports[i] \in Called(doc, 1, "portType") /\ ports[i] \in N
  BY <1>4, <1>5, ElementOfSeq DEF Called, L!ChildrenOf
<1> DEFINE Of(port) == IF portname \in {Q!Name(doc, port), ""} THEN Q!Loop(doc, port, "operation")
                       ELSE << >>
           Sel(port) == portname \in {Q!Name(doc, port), ""}
<1>7. PICK s : s = [i \in 1..m |-> Of(ports[i])]
  OBVIOUS
<1>8. \A k \in N : /\ Q!Loop(doc, k, "operation") \in Seq(Called(doc, k, "operation"))
                   /\ \A x \in Called(doc, k, "operation") :
                        \E i \in 1..Len(Q!Loop(doc, k, "operation")) : Q!Loop(doc, k, "operation")[i] = x
  BY <1>1, <1>4, LoopVisitsAll
<1>9. \A k \in N : Of(k) \in Seq(N)
  <2> SUFFICES ASSUME NEW k \in N PROVE Of(k) \in Seq(N)
    OBVIOUS
  <2>1. Called(doc, k, "operation") \subseteq N
    BY <1>4 DEF Called, L!ChildrenOf
  <2>2. Q!Loop(doc, k, "operation") \in Seq(N)
    BY <1>8, <2>1
  <2>3. << >> \in Seq(N)
    OBVIOUS
  <2> QED
    BY <2>2, <2>3, Zenon
<1>21. \A k : Of(k) = IF Sel(k) THEN Q!Loop(doc, k, "operation") ELSE << >>
  BY Zenon
<1>10. s \in Seq(Seq(N)) /\ Len(s) = m /\ \A i \in 1..m : s[i] = Of(ports[i])
  <2>1. s \in [1..m -> Seq(N)]
    BY <1>6, <1>7, <1>9
  <2> HIDE DEF Of
  <2> QED
    BY <1>7, <2>1, FunctionIsSeq
<1>11. PICK all : all = AllOf(s)
  OBVIOUS
<1>12. all \in Seq(N) /\ MadeOf(s, all)
  BY <1>10, <1>11, AllOfParts
<1>13. Q!Operations(doc, portname) = all
  <2>1. Q!Operations(doc, portname) = Q!Concatenation(s)
    BY <1>3, <1>6, <1>7, SameSearch DEF Q!Operations
  <2>2. Q!Concatenation(s) = AllOf(s)
    BY DEF Q!Concatenation, AllOf
  <2> QED
    BY <1>11, <2>1, <2>2
<1> HIDE DEF Of, Sel
<1>14. PICK a \in Nat : a = Len(all) /\ DOMAIN all = 1..a
  BY <1>12
<1>15. op \in Q!Range(Q!GetOperations(doc, portname)) <=> \E i \in 1..a : Q!Name(doc, all[i]) = op
  <2>1. Q!GetOperations(doc, portname) = [i \in 1..a |-> Q!Name(doc, all[i])]
    BY <1>13, <1>14 DEF Q!GetOperations
  <2> QED
    BY <2>1 DEF Q!Range
<1>16. PICK F : F = {k \in L!NodesOf(doc) : Q!Name(doc, k) = op}
  OBVIOUS
<1>17. PICK S : S = OpsAmong("portType", portname, F)
  OBVIOUS
<1>18. Q!OpsCalled("portType", portname, op) = S
  BY <1>16, <1>17, OpsAreAmong
<1>19. ASSUME NEW i \in 1..a, Q!Name(doc, all[i]) = op PROVE S # {}
  <2>1. PICK j \in 1..m : \E l \in 1..Len(s[j]) : all[i] = s[j][l]
    BY <1>10, <1>12, <1>14 DEF MadeOf
  <2>2. PICK l \in 1..Len(s[j]) : all[i] = s[j][l]
    BY <2>1
  <2>3. PICK p : p = ports[j] /\ p \in N /\ p \in Called(doc, 1, "portType") /\ s[j] = Of(p)
    BY <1>6, <1>10
  <2>4. Sel(p)
    <3> SUFFICES ASSUME ~Sel(p) PROVE FALSE
      OBVIOUS
    <3>1. s[j] = << >>
      BY <1>21, <2>3
    <3>2. Len(s[j]) = 0
      BY <3>1
    <3>3. l \in 1..0
      BY <3>2
    <3> QED
      BY <3>3
  <2>5. s[j] \in Seq(Called(doc, p, "operation"))
    BY <1>8, <1>21, <2>3, <2>4
  <2>6. all[i] \in Called(doc, p, "operation")
    BY <2>2, <2>5, ElementOfSeq
  <2>7. all[i] \in N /\ doc.up[all[i]] = p
    BY <1>4, <2>6 DEF Called, L!ChildrenOf
  <2>8. all[i] \in S
    BY <1>4, <1>16, <1>17, <1>19, <2>3, <2>4, <2>6, <2>7 DEF OpsAmong, Ports, Sel
  <2> QED
    BY <2>8
<1>20. ASSUME NEW x \in S PROVE \E i \in 1..a : Q!Name(doc, all[i]) = op
  <2>1. PICK p : p = doc.up[x]
    OBVIOUS
  <2>2. /\ p \in Ports("portType", portname) /\ x \in Called(doc, p, "operation")
        /\ Q!Name(doc, x) = op
    BY <1>16, <1>17, <2>1 DEF OpsAmong
  <2>3. p \in Called(doc, 1, "portType") /\ Sel(p) /\ p \in N
    BY <1>4, <2>2 DEF Ports, Called, L!ChildrenOf, Sel
  <2>4. PICK j \in 1..m : ports[j] = p
    BY <1>5, <1>6, <2>3
  <2>5. s[j] = Q!Loop(doc, p, "operation")
    BY <1>10, <1>21, <2>3, <2>4
  <2>6. PICK l \in 1..Len(s[j]) : s[j][l] = x
    BY <1>8, <2>2, <2>3, <2>5
  <2>7. PICK o \in Nat : o + Len(s[j]) <= a /\ \A i \in 1..Len(s[j]) : all[o + i] = s[j][i]
    BY <1>10, <1>12, <1>14 DEF MadeOf
  <2>8. s[j] \in Seq(N)
    BY <1>10, ElementOfSeq
  <2>9. PICK b \in Nat : b = Len(s[j])
    BY <2>8
  <2>10. o + l \in 1..a
    BY <2>7, <2>9
  <2>11. all[o + l] = x
    BY <2>6, <2>7
  <2> QED
    BY <2>2, <2>10, <2>11
<1> QED
  BY <1>15, <1>18, <1>19, <1>20

\* Every query about operations answers of the document what it is asked: for a
\* name that several portTypes have, for overloaded operations, and for those
\* without input or output.
THEOREM AnswersForOperations == Spec => []OperationsAnswered
<1>1. ASSUME QueryInv PROVE OperationsAnswered
  <2> SUFFICES ASSUME phase = "new",
                      NEW portname \in {Q!Name(doc, x) : x \in Q!Kind("portType")} \cup {""},
                      NEW op \in {Q!Name(doc, x) : x \in Q!Kind("operation")}
               PROVE
      LET ops == Q!OpsCalled("portType", portname, op)
      IN /\ op \in Q!Range(Q!GetOperations(doc, portname)) <=> ops # {}
         /\ Q!GetOp(doc, "portType", portname, op) = Q!Earliest(ops)
         /\ Q!GetOp(doc, "binding", portname, op) = Q!Earliest(Q!OpsCalled("binding", portname, op))
         /\ \A way \in {"input", "output"} :
              LET typed == {x \in Q!Kind(way) : doc.up[x] \in ops}
              IN Q!GetMessageForOp(doc, portname, op, way)
                   = Q!GetProperty(doc, Q!Earliest({x \in typed :
                       \A y \in typed : doc.up[x] <= doc.up[y]}), "message")
    BY Zenon DEF OperationsAnswered, Q!OperationsAnswered
  <2>1. doc \in Wsdls /\ Q!WellFormed
    BY <1>1, WsdlsAssumption DEF QueryInv
  <2>2. op \in Q!Range(Q!GetOperations(doc, portname))
          <=> Q!OpsCalled("portType", portname, op) # {}
    BY <2>1, OperationsListed
  <2>3. /\ Q!GetOp(doc, "portType", portname, op)
             = L!Earliest(Q!OpsCalled("portType", portname, op))
        /\ Q!GetOp(doc, "binding", portname, op)
             = L!Earliest(Q!OpsCalled("binding", portname, op))
    BY <2>1, OpAnswered
  <2>4. ASSUME NEW way \in {"input", "output"}
        PROVE  LET typed == {x \in Q!Kind(way) : doc.up[x] \in Q!OpsCalled("portType", portname, op)}
               IN Q!GetMessageForOp(doc, portname, op, way)
                    = Q!GetProperty(doc, L!Earliest({x \in typed :
                        \A y \in typed : doc.up[x] <= doc.up[y]}), "message")
    <3>1. way # "text"
      OBVIOUS
    <3>2. Q!GetMessageForOp(doc, portname, op, way)
            = Q!GetProperty(doc, L!Earliest(Topmost(Below(Q!OpsCalled("portType", portname, op), way))),
                            "message")
      BY <2>1, <3>1, MessageAnswered
    <3> QED
      BY <3>2 DEF Topmost, Below
  <2>5. \A S : Q!Earliest(S) = L!Earliest(S)
    BY SameSearch
  <2> QED
    BY <2>2, <2>3, <2>4, <2>5
<1>2. Init => QueryInv
  BY QueryInit
<1>3. QueryInv /\ [Next]_<<reader, doc, parse, loop, query, type, coded>> => QueryInv'
  BY QueryNext
<1> QED
  BY <1>1, <1>2, <1>3, PTL DEF Spec
-----------------------------------------------------------------------------
(* Names and hosts.                                                        *)

\* A Parse that is set up with separators alone.
Alone(m) == ~m.nospace /\ m.break = End

\* Where a word begins, getword returns it and goes on behind its end.
LEMMA WordHere ==
  ASSUME NEW t, NEW m, Plain(t, m), Alone(m), NEW p \in Nat, p < Len(t),
         P!C(t, p) \notin Spaces(m)
  PROVE  \E y \in (p + 1)..Len(t) :
           /\ \A j \in p..(y - 1) : P!C(t, j) \notin Spaces(m)
           /\ y < Len(t) => P!C(t, y) \in Spaces(m)
           /\ P!Word(t, m, p) = [ord |-> Stretch(t, p, y), ptr |-> y + 1]
<1>1. PICK n \in Nat : n = Len(t) /\ t \in Seq(STRING)
  BY DEF Plain
<1>2. ~P!IsBreak(m, P!C(t, p))
  BY DEF Alone, P!IsBreak
<1>3. PICK x \in Nat, y \in Nat :
        /\ Stops(n, p, x, Off(t, Spaces(m)))
        /\ Stops(n, x, y, WordStops(t, m, x))
        /\ P!Word(t, m, p) = [ord |-> P!Substr(t, x, y - x), ptr |-> y + 1]
  BY <1>1, <1>2, WordCut DEF Alone
<1>4. x = p
  <2>1. Stops(n, p, p, Off(t, Spaces(m)))
    BY <1>1 DEF Stops, Off
  <2>2. \A q \in Nat : q < n => (q \in Off(t, Spaces(m)) <=> q \in Off(t, Spaces(m)))
    OBVIOUS
  <2> QED
    BY <1>3, <2>1, <2>2, StopsOnce
<1>5. \A q \in Nat : q \in WordStops(t, m, p) <=> P!C(t, q) \in Spaces(m)
  BY DEF WordStops, Alone, P!IsBreak
<1>6. /\ p <= y /\ (y <= n \/ y = p)
      /\ y < n => P!C(t, y) \in Spaces(m)
      /\ \A j \in Nat : p <= j /\ j < y => P!C(t, j) \notin Spaces(m)
  BY <1>3, <1>4, <1>5 DEF Stops
<1>7. y \in (p + 1)..n
  BY <1>1, <1>6
<1>8. P!Substr(t, p, y - p) = Stretch(t, p, y)
  <2>1. Clip(n, p) = p /\ Clip(n, y) = y
    BY <1>1, <1>7 DEF Clip
  <2> QED
    BY <1>1, <1>6, <2>1, SubstrIs
<1>9. \A j \in p..(y - 1) : P!C(t, j) \notin Spaces(m)
  BY <1>6
<1> QED
  BY <1>1, <1>3, <1>4, <1>6, <1>7, <1>8, <1>9

\* From the end of the text on, there is none.
LEMMA NoWordLeft ==
  ASSUME NEW t, NEW m, Plain(t, m), Alone(m), NEW p \in Nat, p >= Len(t)
  PROVE  P!Word(t, m, p) = [ord |-> << >>, ptr |-> p + 1]
<1>1. PICK n \in Nat : n = Len(t) /\ t \in Seq(STRING)
  BY DEF Plain
<1>2. ~P!IsBreak(m, P!C(t, p))
  BY DEF Alone, P!IsBreak
<1>3. PICK x \in Nat, y \in Nat :
        /\ Stops(n, p, x, Off(t, Spaces(m)))
        /\ Stops(n, x, y, WordStops(t, m, x))
        /\ P!Word(t, m, p) = [ord |-> P!Substr(t, x, y - x), ptr |-> y + 1]
  BY <1>1, <1>2, WordCut DEF Alone
<1>4. p <= x /\ (x <= n \/ x = p) /\ x <= y /\ (y <= n \/ y = x)
  BY <1>3 DEF Stops
<1>5. x = p /\ y = p
  BY <1>1, <1>4
<1> QED
  BY <1>1, <1>3, <1>5, NothingBetween

\* Split takes a name apart at its colon.
LEMMA NameSplit == TokInv => P!QNamesSplit
<1> SUFFICES ASSUME TokInv, call = "new", mode = P!Splitting({":"}),
                    P!Range(text) \cap P!Whitespace = {}
             PROVE  /\ ":" \notin P!Range(text) =>
                         P!Split(text).NS = << >> /\ P!Split(text).Type = text
                    /\ \A colon \in 1..(Len(text) - 1) :
                         text[colon] = ":" /\ (\A i \in DOMAIN text \ {colon} : text[i] # ":") =>
                           /\ P!Split(text).NS = SubSeq(text, 1, colon - 1)
                           /\ P!Split(text).Type = SubSeq(text, colon + 1, Len(text))
  BY DEF P!QNamesSplit
<1>1. Plain(text, mode)
  BY DEF TokInv
<1>2. PICK n \in Nat : n = Len(text) /\ text \in Seq(STRING) /\ DOMAIN text = 1..n
  BY <1>1 DEF Plain
<1>3. Alone(mode) /\ mode.splits = {":"}
  BY DEF Alone, P!Splitting, P!Mode
<1>4. \A i \in 1..n : text[i] \in P!Range(text)
  BY <1>2 DEF P!Range
<1>5. \A j \in 0..(n - 1) : P!C(text, j) = text[j + 1] /\ j + 1 \in 1..n
  BY <1>2, CharAt
<1>6. \A j \in 0..(n - 1) : P!C(text, j) \in Spaces(mode) <=> text[j + 1] = ":"
  BY <1>3, <1>4, <1>5 DEF Spaces
<1> DEFINE Named(ns, local) == [NS |-> ns, Type |-> local, CName1up |-> P!Upper(P!Mapped(local))]
<1>7. ASSUME ":" \notin P!Range(text)
      PROVE  P!Split(text).NS = << >> /\ P!Split(text).Type = text
  <2>1. ~(text # << >> /\ text[1] = ":")
    <3>1. SUFFICES ASSUME text # << >>, text[1] = ":" PROVE FALSE
      OBVIOUS
    <3>2. 1 \in 1..n
      BY <1>2, <3>1
    <3> QED
      BY <1>4, <1>7, <3>1, <3>2
  <2>2. P!Split(text) = Named(<< >>, text)
    BY <1>7, <2>1 DEF P!Split
  <2> QED
    BY <2>2
<1>8. ASSUME NEW colon \in 1..(n - 1), text[colon] = ":",
             \A i \in DOMAIN text \ {colon} : text[i] # ":"
      PROVE  /\ P!Split(text).NS = SubSeq(text, 1, colon - 1)
             /\ P!Split(text).Type = SubSeq(text, colon + 1, n)
  <2>1. text # << >> /\ ":" \in P!Range(text)
    BY <1>2, <1>4, <1>8
  <2>2. CASE colon = 1
    <3>1. P!Split(text) = Named(<< >>, Tail(text))
      BY <1>8, <2>1, <2>2 DEF P!Split
    <3>2. SubSeq(text, 1, colon - 1) = << >>
      BY <2>2, SubSeqEmpty
    <3>3. Tail(text) = SubSeq(text, colon + 1, n)
      BY <1>2, <1>8, <2>2
    <3> QED
      BY <3>1, <3>2, <3>3
  <2>3. CASE colon # 1
    <3>1. text[1] # ":"
      BY <1>2, <1>8, <2>3
    <3>2. colon - 1 \in Nat /\ 0 < colon - 1 /\ colon - 1 < n /\ colon < n
      BY <1>8, <2>3
    <3>3. \A j \in 0..(n - 1) : P!C(text, j) \in Spaces(mode) <=> j = colon - 1
      BY <1>2, <1>5, <1>6, <1>8
    <3>4. P!Word(text, mode, 0) = [ord |-> Stretch(text, 0, colon - 1), ptr |-> colon]
      <4>1. P!C(text, 0) \notin Spaces(mode) /\ 0 < n /\ 0 \in Nat
        BY <3>2, <3>3
      <4>2. PICK y \in (0 + 1)..n :
              /\ \A j \in 0..(y - 1) : P!C(text, j) \notin Spaces(mode)
              /\ y < n => P!C(text, y) \in Spaces(mode)
              /\ P!Word(text, mode, 0) = [ord |-> Stretch(text, 0, y), ptr |-> y + 1]
        BY <1>1, <1>2, <1>3, <4>1, WordHere
      <4>3. y = colon - 1
        BY <3>2, <3>3, <4>2
      <4> QED
        BY <3>2, <4>2, <4>3
    <3>5. P!Word(text, mode, colon).ord = Stretch(text, colon, n)
      <4>1. P!C(text, colon) \notin Spaces(mode) /\ colon \in Nat
        BY <3>2, <3>3
      <4>2. PICK y \in (colon + 1)..n :
              /\ y < n => P!C(text, y) \in Spaces(mode)
              /\ P!Word(text, mode, colon) = [ord |-> Stretch(text, colon, y), ptr |-> y + 1]
        BY <1>1, <1>2, <1>3, <3>2, <4>1, WordHere
      <4>3. y = n
        BY <3>2, <3>3, <4>2
      <4> QED
        BY <4>2, <4>3
    <3>6. P!Split(text) = Named(Stretch(text, 0, colon - 1), Stretch(text, colon, n))
      BY <2>1, <3>1, <3>4, <3>5 DEF P!Split
    <3> QED
      BY <3>6 DEF Stretch
  <2> QED
    BY <2>2, <2>3
<1> QED
  BY <1>2, <1>7, <1>8

Joints == {".", ":"}

Bar == "_"

\* The text of a host, and a Parse to take it apart.
HostText(t) ==
  /\ Plain(t, P!Host) /\ P!Range(t) \cap (P!Whitespace \cup {Bar}) = {}
  /\ \A i \in P!Dots(t) : {i - 1, i + 1} \subseteq DOMAIN t \ P!Dots(t)

LEMMA HostIs ==
  ASSUME NEW t, HostText(t)
  PROVE  /\ t \in Seq(STRING) /\ Len(t) \in Nat /\ DOMAIN t = 1..Len(t)
         /\ Alone(P!Host) /\ Spaces(P!Host) = P!Whitespace \cup Joints
         /\ \A j \in 0..(Len(t) - 1) :
              /\ P!C(t, j) = t[j + 1] /\ P!C(t, j) # Bar
              /\ P!C(t, j) \in Spaces(P!Host) <=> P!C(t, j) \in Joints
              /\ P!C(t, j) \in Joints <=> j + 1 \in P!Dots(t)
         /\ \A i \in P!Dots(t) : i \in 1..Len(t)
<1>0. t \in Seq(STRING)
  BY DEF HostText, Plain
<1>1. PICK n \in Nat : n = Len(t) /\ t \in Seq(STRING) /\ DOMAIN t = 1..n
  BY <1>0
<1>2. Alone(P!Host) /\ P!Host.splits = Joints
  BY DEF Alone, P!Host, P!Splitting, P!Mode, Joints
<1>3. Spaces(P!Host) = P!Whitespace \cup Joints
  BY <1>2 DEF Spaces
<1>4. \A j \in 0..(n - 1) : P!C(t, j) = t[j + 1] /\ P!C(t, j) \in P!Range(t) /\ j + 1 \in DOMAIN t
  BY <1>1, CharAt
<1>5. \A j \in 0..(n - 1) : P!C(t, j) \notin P!Whitespace /\ P!C(t, j) # Bar
  BY <1>4 DEF HostText
<1>6. \A i : i \in P!Dots(t) <=> i \in DOMAIN t /\ t[i] \in Joints
  BY DEF P!Dots, Joints
<1> QED
  BY <1>1, <1>2, <1>3, <1>4, <1>5, <1>6

\* A label begins at p, or there is none left.
AtLabel(t, p) == p = Len(t) + 1 \/ (p \in 0..(Len(t) - 1) /\ P!C(t, p) \notin Joints)

\* How many labels are left.
Left(t, p) == IF p > Len(t) THEN 0 ELSE 1 + Cardinality({i \in P!Dots(t) : i > p})

LEMMA LabelHere ==
  ASSUME NEW t, HostText(t), NEW p \in 0..(Len(t) - 1), P!C(t, p) \notin Joints
  PROVE  \E y \in (p + 1)..Len(t) :
           /\ \A j \in p..(y - 1) : P!C(t, j) \notin Joints
           /\ y < Len(t) => P!C(t, y) \in Joints
           /\ P!Word(t, P!Host, p) = [ord |-> Stretch(t, p, y), ptr |-> y + 1]
           /\ AtLabel(t, y + 1)
           /\ Left(t, y + 1) \in Nat /\ Left(t, p) = Left(t, y + 1) + 1
<1>1. PICK n \in Nat : n = Len(t) /\ t \in Seq(STRING) /\ DOMAIN t = 1..n
  BY HostIs
<1>2. /\ Alone(P!Host) /\ Plain(t, P!Host)
      /\ \A j \in 0..(n - 1) : /\ P!C(t, j) \in Spaces(P!Host) <=> P!C(t, j) \in Joints
                               /\ P!C(t, j) \in Joints <=> j + 1 \in P!Dots(t)
      /\ \A i \in P!Dots(t) : i \in 1..n
  BY <1>1, HostIs DEF HostText
<1>3. p \in Nat /\ p < n
  BY <1>1
<1>4. PICK y \in (p + 1)..n :
        /\ \A j \in p..(y - 1) : P!C(t, j) \notin Spaces(P!Host)
        /\ y < n => P!C(t, y) \in Spaces(P!Host)
        /\ P!Word(t, P!Host, p) = [ord |-> Stretch(t, p, y), ptr |-> y + 1]
  BY <1>1, <1>2, <1>3, WordHere
<1>5. \A j \in p..(y - 1) : P!C(t, j) \notin Joints /\ j + 1 \notin P!Dots(t)
  BY <1>2, <1>3, <1>4
<1>6. y < n => P!C(t, y) \in Joints /\ y + 1 \in P!Dots(t)
  BY <1>2, <1>3, <1>4
<1>7. y < n => y + 1 < n /\ P!C(t, y + 1) \notin Joints
  <2>1. SUFFICES ASSUME y < n PROVE y + 1 < n /\ P!C(t, y + 1) \notin Joints
    OBVIOUS
  <2>2. (y + 1) + 1 \in 1..n /\ (y + 1) + 1 \notin P!Dots(t)
    BY <1>1, <1>6, <2>1 DEF HostText
  <2> QED
    BY <1>2, <1>3, <1>4, <2>2
<1>8. AtLabel(t, y + 1)
  BY <1>1, <1>3, <1>4, <1>7 DEF AtLabel
<1>9. IsFiniteSet(P!Dots(t))
  <2>1. P!Dots(t) \subseteq 1..n
    BY <1>2
  <2>2. IsFiniteSet(1..n)
    BY FS_Interval
  <2> QED
    BY <2>1, <2>2, FS_Subset
<1>10. Left(t, y + 1) \in Nat /\ Left(t, p) = Left(t, y + 1) + 1
  <2> DEFINE After(a) == {i \in P!Dots(t) : i > a}
  <2>1. IsFiniteSet(After(p)) /\ IsFiniteSet(After(y + 1))
    BY <1>9, FS_Subset
  <2>2. Cardinality(After(p)) \in Nat /\ Cardinality(After(y + 1)) \in Nat
    BY <2>1, FS_CardinalityType
  <2>3. Left(t, p) = 1 + Cardinality(After(p))
    BY <1>1, <1>3 DEF Left
  <2>4. CASE y = n
    <3>1. Left(t, y + 1) = 0
      BY <1>1, <2>4 DEF Left
    <3>2. After(p) = {}
      <4> SUFFICES ASSUME NEW i \in After(p) PROVE FALSE
        OBVIOUS
      <4>1. i \in 1..n /\ i > p /\ i \in P!Dots(t)
        BY <1>2
      <4>2. i - 1 \in p..(y - 1) /\ (i - 1) + 1 = i
        BY <1>3, <2>4, <4>1
      <4> QED
        BY <1>5, <4>1, <4>2
    <3>3. Cardinality(After(p)) = 0
      BY <3>2, FS_EmptySet
    <3> HIDE DEF After
    <3> QED
      BY <2>3, <3>1, <3>3
  <2>5. CASE y # n
    <3>1. y < n /\ y + 1 < n /\ y \in Nat
      BY <1>3, <1>4, <1>7, <2>5
    <3>2. Left(t, y + 1) = 1 + Cardinality(After(y + 1))
      BY <1>1, <3>1 DEF Left
    <3>3. After(p) = After(y + 1) \cup {y + 1} /\ y + 1 \notin After(y + 1)
      <4>1. \A i \in After(p) : i = y + 1 \/ i \in After(y + 1)
        <5> SUFFICES ASSUME NEW i \in After(p), i # y + 1 PROVE i \in After(y + 1)
          OBVIOUS
        <5>1. i \in 1..n /\ i > p /\ i \in P!Dots(t)
          BY <1>2
        <5>2. ~(i - 1 \in p..(y - 1))
          <6>1. (i - 1) + 1 = i
            BY <5>1
          <6> QED
            BY <1>5, <5>1, <6>1
        <5>3. i > y + 1
          BY <1>3, <3>1, <5>1, <5>2
        <5> QED
          BY <5>1, <5>3
      <4>2. y + 1 \in After(p)
        BY <1>3, <1>4, <1>6, <3>1
      <4>3. After(y + 1) \subseteq After(p)
        <5> SUFFICES ASSUME NEW i \in After(y + 1) PROVE i \in After(p)
          OBVIOUS
        <5>1. i \in 1..n /\ i > y + 1 /\ i \in P!Dots(t)
          BY <1>2
        <5> QED
          BY <1>3, <1>4, <5>1
      <4>4. y + 1 \notin After(y + 1)
        BY <3>1
      <4> HIDE DEF After
      <4> QED
        BY <4>1, <4>2, <4>3, <4>4
    <3>4. Cardinality(After(p)) = Cardinality(After(y + 1)) + 1
      <4> HIDE DEF After
      <4> QED
        BY <2>1, <3>3, FS_AddElement
    <3> QED
      BY <2>2, <2>3, <3>2, <3>4
  <2> QED
    BY <2>4, <2>5
<1>11. \A j \in p..(y - 1) : P!C(t, j) \notin Joints
  BY <1>5
<1> QED
  BY <1>1, <1>4, <1>6, <1>8, <1>10, <1>11

\* The characters of names of C++ namespaces.
Chars == STRING \cup {Bar}

\* One name behind another.
Cat(a, b) == a \o b

LEMMA CatIs ==
  ASSUME NEW a \in Seq(Chars), NEW b \in Seq(Chars)
  PROVE  /\ Cat(a, b) \in Seq(Chars) /\ Len(Cat(a, b)) = Len(a) + Len(b)
         /\ \A i \in 1..(Len(a) + Len(b)) : Cat(a, b)[i] = IF i <= Len(a) THEN a[i] ELSE b[i - Len(a)]
         /\ Cat(<< >>, b) = b
  BY ConcatProperties, ConcatEmptySeq DEF Cat

LEMMA CatRegroups ==
  ASSUME NEW a \in Seq(Chars), NEW b \in Seq(Chars), NEW c \in Seq(Chars)
  PROVE  Cat(Cat(a, b), c) = Cat(a, Cat(b, c))
  BY ConcatAssociative, SMTT(30) DEF Cat

LEMMA CatTells ==
  ASSUME NEW a \in Seq(Chars), NEW b \in Seq(Chars), NEW c \in Seq(Chars), Cat(a, b) = Cat(a, c)
  PROVE  b = c
  BY ConcatSimplifications DEF Cat

\* The recursion of HostSpace over the positions of a host.
FoldsHost(t, f) ==
  /\ f \in [0..(Len(t) + 1) -> Seq(Chars)]
  /\ \A p \in 0..(Len(t) + 1) :
       f[p] = LET label == P!Word(t, P!Host, p)
              IN IF label.ord = << >> THEN << >> ELSE Cat(Cat(f[label.ptr], label.ord), <<Bar>>)

LEMMA HostFolds ==
  ASSUME NEW t, HostText(t)
  PROVE  \E f : FoldsHost(t, f) /\ P!HostSpace(t) = f[P!Word(t, P!Host, 0).ptr]
<1>0. PICK n \in Nat : n = Len(t) /\ t \in Seq(STRING)
  BY HostIs
<1>1. PICK e \in Nat : n = Len(t) /\ e = n + 1 /\ t \in Seq(STRING) /\ 0 \in 0..e
  BY <1>0
<1>underscore. <<Bar>> \in Seq(Chars) /\ << >> \in Seq(Chars)
  BY DEF Chars
<1>2. Alone(P!Host) /\ Plain(t, P!Host)
  BY HostIs DEF HostText
<1> DEFINE W(p) == P!Word(t, P!Host, p)
           Is(f) == f = [p \in 0..(Len(t) + 1) |->
                           LET label == P!Word(t, P!Host, p)
                           IN IF label.ord = << >> THEN << >>
                              ELSE f[label.ptr] \o label.ord \o <<Bar>>]
<1>3. ASSUME NEW p \in 0..e
      PROVE  W(p).ord \in Seq(Chars) /\ (p < e => W(p).ptr \in (p + 1)..e) /\ (p = e => W(p).ord = << >>)
  <2>1. ~P!IsBreak(P!Host, P!C(t, p))
    BY <1>2 DEF Alone, P!IsBreak
  <2>2. PICK x \in Nat, y \in Nat :
          /\ Stops(n, p, x, Off(t, Spaces(P!Host)))
          /\ Stops(n, x, y, WordStops(t, P!Host, x))
          /\ W(p) = [ord |-> P!Substr(t, x, y - x), ptr |-> y + 1]
    BY <1>1, <1>2, <2>1, WordCut DEF Alone
  <2>3. p <= x /\ (x <= n \/ x = p) /\ x <= y /\ (y <= n \/ y = x)
    BY <2>2 DEF Stops
  <2>4. P!Substr(t, x, y - x) \in Seq(Chars)
    <3>1. PICK a, b : a = Clip(Len(t), x) /\ b = Clip(Len(t), y)
      OBVIOUS
    <3>2. P!Substr(t, x, y - x) = Stretch(t, a, b) /\ b \in 0..Len(t) /\ a \in 0..b
      BY <1>1, <2>3, <3>1, SubstrIs
    <3>3. Stretch(t, a, b) \in Seq(STRING)
      BY <1>1, <3>2, StretchIs
    <3>4. STRING \subseteq Chars
      BY DEF Chars
    <3> QED
      BY <3>2, <3>3, <3>4, SeqMonotonic
  <2>5. p < e => y + 1 \in (p + 1)..e
    BY <1>1, <2>3
  <2>6. p = e => W(p).ord = << >>
    BY <1>1, <1>2, NoWordLeft
  <2> QED
    BY <2>2, <2>4, <2>5, <2>6
<1>4. P!HostSpace(t) = (CHOOSE f : Is(f))[W(0).ptr]
  BY Zenon DEF P!HostSpace, Bar
<1> HIDE DEF W
<1>5. \E f : Is(f) /\ f \in [0..e -> Seq(Chars)]
  <2> DEFINE V == Seq(Chars)
  <2>1. PICK past : past = [p \in 0..e |-> W(p).ptr]
    OBVIOUS
  <2>2. PICK next : next = [p \in 0..e |-> [v \in V |-> IF W(p).ord = << >> THEN << >>
                                                        ELSE v \o W(p).ord \o <<Bar>>]]
    OBVIOUS
  <2>3. Later(0, e, past)
    BY <1>3, <2>1 DEF Later
  <2>4. next \in [0..e -> [V -> V]]
    <3>1. \A p \in 0..e : \A v \in V :
            (IF W(p).ord = << >> THEN << >> ELSE v \o W(p).ord \o <<Bar>>) \in V
      <4> SUFFICES ASSUME NEW p \in 0..e, NEW v \in V
                   PROVE  v \o W(p).ord \o <<Bar>> \in V /\ << >> \in V
        BY Zenon
      <4>1. W(p).ord \in Seq(Chars) /\ v \in Seq(Chars)
        BY <1>3
      <4>2. v \o W(p).ord \in Seq(Chars)
        BY <4>1, ConcatProperties
      <4>3. (v \o W(p).ord) \o <<Bar>> \in Seq(Chars)
        BY <1>underscore, <4>2, ConcatProperties
      <4> QED
        BY <1>underscore, <4>3
    <3> HIDE DEF V
    <3> QED
      BY <2>2, <3>1
  <2>5. << >> \in V
    OBVIOUS
  <2>6. PICK f : Descent(0, e, past, V, << >>, next, f)
    <3> HIDE DEF V
    <3> QED
      BY <1>1, <2>3, <2>4, <2>5, DescentExists
  <2>7. f \in [0..e -> V] /\ f[e] = << >> /\ \A p \in 0..e : p < e => f[p] = next[p][f[past[p]]]
    BY <2>6 DEF Descent
  <2>7a. \A p \in 0..e : p = e \/ p < e
    BY <1>1
  <2>8. ASSUME NEW p \in 0..e
        PROVE  f[p] = IF W(p).ord = << >> THEN << >> ELSE f[W(p).ptr] \o W(p).ord \o <<Bar>>
    <3>1. CASE p = e
      BY <1>3, <2>7, <3>1
    <3>2. CASE p < e
      <4>1. past[p] = W(p).ptr /\ past[p] \in 0..e
        BY <1>1, <1>3, <2>1, <3>2
      <4>2. f[past[p]] \in V
        BY <2>7, <4>1
      <4>3. f[p] = next[p][f[past[p]]]
        BY <2>7, <3>2
      <4> HIDE DEF V
      <4> QED
        BY <2>2, <4>1, <4>2, <4>3
    <3> QED
      BY <2>7a, <3>1, <3>2
  <2>9. f = [p \in 0..e |-> f[p]]
    BY <2>7
  <2>10. f = [p \in 0..e |-> IF W(p).ord = << >> THEN << >> ELSE f[W(p).ptr] \o W(p).ord \o <<Bar>>]
    BY <2>8, <2>9
  <2>11. Is(f)
    BY <1>1, <2>10 DEF W
  <2> QED
    BY <2>7, <2>11
<1>6. PICK f : f = CHOOSE g : Is(g)
  OBVIOUS
<1>7. Is(f)
  <2> HIDE DEF Is
  <2> QED
    BY <1>5, <1>6, Zenon
<1>8. \A p \in 0..e : f[p] = IF W(p).ord = << >> THEN << >> ELSE f[W(p).ptr] \o W(p).ord \o <<Bar>>
  BY <1>1, <1>7 DEF W
<1>9. DOMAIN f = 0..e /\ f = [p \in 0..e |-> f[p]]
  BY <1>1, <1>7
<1> HIDE DEF Is
<1> DEFINE Good == {p \in 0..e : f[p] \in Seq(Chars)}
<1>10. \A p \in 0..e : p \in Good
  <2>1. ASSUME NEW p \in 0..e, \A r \in 0..e : p < r => r \in Good PROVE f[p] \in Seq(Chars)
    <3>1. CASE W(p).ord = << >>
      BY <1>underscore, <1>8, <3>1
    <3>2. CASE W(p).ord # << >>
      <4>1. p < e
        BY <1>1, <1>3, <3>2
      <4>2. W(p).ptr \in 0..e /\ p < W(p).ptr /\ W(p).ord \in Seq(Chars)
        BY <1>1, <1>3, <4>1
      <4>3. f[W(p).ptr] \in Seq(Chars)
        BY <2>1, <4>2
      <4>4. f[W(p).ptr] \o W(p).ord \in Seq(Chars)
        BY <4>2, <4>3, ConcatProperties
      <4>5. (f[W(p).ptr] \o W(p).ord) \o <<Bar>> \in Seq(Chars)
        BY <1>underscore, <4>4, ConcatProperties
      <4> QED
        BY <1>8, <3>2, <4>5
    <3> QED
      BY <3>1, <3>2
  <2>2. ASSUME NEW p \in 0..e, \A r \in 0..e : p < r => r \in Good PROVE p \in Good
    BY <2>1, <2>2
  <2>3. e \in Nat /\ 0 \in 0..e
    BY <1>1
  <2> HIDE DEF Good
  <2>4. \A p \in 0..e : (\A r \in 0..e : p < r => r \in Good) => p \in Good
    BY <2>2
  <2> QED
    BY <2>3, <2>4, Backwards
<1>11. f \in [0..e -> Seq(Chars)]
  BY <1>9, <1>10
<1>12. FoldsHost(t, f)
  BY <1>1, <1>8, <1>11 DEF FoldsHost, W, Cat
<1>13. P!HostSpace(t) = f[P!Word(t, P!Host, 0).ptr]
  BY <1>4, <1>6 DEF W
<1> QED
  BY <1>12, <1>13

LEMMA BarAfter ==
  ASSUME NEW c \in Seq(Chars), NEW u \in Seq(Chars), NEW Z \in Seq(Chars), Len(u) = 1, u[1] = Bar,
         NEW s, s = Cat(Cat(c, u), Z)
  PROVE  Len(c) \in Nat /\ (\A i \in 1..Len(c) : s[i] = c[i]) /\ s[Len(c) + 1] = Bar
<1>1. PICK n \in Nat, l \in Nat : n = Len(c) /\ l = Len(Z)
  BY LenProperties
<1>2. PICK v : v = Cat(c, u)
  OBVIOUS
<1>3. /\ v \in Seq(Chars) /\ Len(v) = n + 1
      /\ \A i \in 1..(n + 1) : v[i] = IF i <= n THEN c[i] ELSE u[i - n]
  <2>1. /\ v \in Seq(Chars) /\ Len(v) = Len(c) + Len(u)
        /\ \A i \in 1..(Len(c) + Len(u)) : v[i] = IF i <= Len(c) THEN c[i] ELSE u[i - Len(c)]
    BY <1>2, CatIs
  <2> QED
    BY <1>1, <2>1
<1>4. \A i \in 1..((n + 1) + l) : s[i] = IF i <= n + 1 THEN v[i] ELSE Z[i - (n + 1)]
  <2>1. \A i \in 1..(Len(v) + Len(Z)) : s[i] = IF i <= Len(v) THEN v[i] ELSE Z[i - Len(v)]
    BY <1>2, <1>3, CatIs
  <2> QED
    BY <1>1, <1>3, <2>1
<1>5. \A i \in 1..n : s[i] = c[i]
  BY <1>3, <1>4
<1>6. s[n + 1] = Bar
  <2>1. n + 1 \in 1..(n + 1) /\ n + 1 \in 1..((n + 1) + l) /\ (n + 1) - n = 1
    OBVIOUS
  <2>2. s[n + 1] = v[n + 1]
    BY <1>4, <2>1
  <2>3. v[n + 1] = u[1]
    BY <1>3, <2>1
  <2> QED
    BY <2>2, <2>3
<1> QED
  BY <1>1, <1>5, <1>6

\* No underscore in a name, and a name that is one.
Barless(s) == \A i \in 1..Len(s) : s[i] # Bar

OnlyBar(u) == Len(u) = 1 /\ u[1] = Bar

\* What stands before the first underscore.
LEMMA SameFirst ==
  ASSUME NEW a \in Seq(Chars), NEW b \in Seq(Chars), NEW X \in Seq(Chars), NEW Y \in Seq(Chars),
         NEW u \in Seq(Chars), OnlyBar(u), Barless(a), Barless(b),
         Cat(Cat(a, u), X) = Cat(Cat(b, u), Y)
  PROVE  a = b /\ X = Y
<1>0. /\ Len(u) = 1 /\ u[1] = Bar
      /\ \A i \in 1..Len(a) : a[i] # Bar
      /\ \A i \in 1..Len(b) : b[i] # Bar
  BY Zenon DEF OnlyBar, Barless
<1>1. PICK s : s = Cat(Cat(a, u), X) /\ s = Cat(Cat(b, u), Y)
  OBVIOUS
<1>2. Len(a) \in Nat /\ (\A i \in 1..Len(a) : s[i] = a[i]) /\ s[Len(a) + 1] = Bar
  BY <1>0, <1>1, BarAfter
<1>3. Len(b) \in Nat /\ (\A i \in 1..Len(b) : s[i] = b[i]) /\ s[Len(b) + 1] = Bar
  BY <1>0, <1>1, BarAfter
<1>4. Len(a) = Len(b)
  <2>1. PICK n \in Nat, l \in Nat : n = Len(a) /\ l = Len(b)
    BY <1>2, <1>3
  <2>2. (\A i \in 1..n : s[i] # Bar) /\ s[n + 1] = Bar
    BY <1>0, <1>2, <2>1
  <2>3. (\A i \in 1..l : s[i] # Bar) /\ s[l + 1] = Bar
    BY <1>0, <1>3, <2>1
  <2>4. n < l => n + 1 \in 1..l
    OBVIOUS
  <2>5. l < n => l + 1 \in 1..n
    OBVIOUS
  <2> QED
    BY <2>1, <2>2, <2>3, <2>4, <2>5
<1>5. a = b
  <2>1. \A i \in 1..Len(a) : a[i] = b[i]
    BY <1>2, <1>3, <1>4
  <2> QED
    BY <1>4, <2>1, SeqEqual
<1>6. X = Y
  <2>1. Cat(a, u) \in Seq(Chars)
    BY CatIs
  <2>2. Cat(Cat(a, u), X) = Cat(Cat(a, u), Y)
    BY <1>5
  <2> QED
    BY <2>1, <2>2, CatTells
<1> QED
  BY <1>5, <1>6

Dotted(c) == IF c = ":" THEN "." ELSE c

\* Two hosts are the same from p and q on, dots and colons aside.
Alike(h, p, k, q) ==
  /\ Len(h) - p = Len(k) - q
  /\ \A i \in Nat : i < Len(h) - p => Dotted(P!C(h, p + i)) = Dotted(P!C(k, q + i))

\* A turn of the recursion, at the label from p to y, and what it has before X.
Turn(t, f, p, y, X) ==
  /\ AtLabel(t, y + 1) /\ Left(t, y + 1) \in Nat /\ Left(t, p) = Left(t, y + 1) + 1
  /\ y < Len(t) => P!C(t, y) \in Joints
  /\ \A j \in p..(y - 1) : P!C(t, j) \notin Joints
  /\ Stretch(t, p, y) \in Seq(Chars) /\ Len(Stretch(t, p, y)) = y - p
  /\ \A i \in 1..(y - p) : /\ Stretch(t, p, y)[i] = P!C(t, p + (i - 1))
                           /\ Stretch(t, p, y)[i] # Bar
  /\ Cat(Cat(Stretch(t, p, y), <<Bar>>), X) \in Seq(Chars)
  /\ Cat(f[p], X) = Cat(f[y + 1], Cat(Cat(Stretch(t, p, y), <<Bar>>), X))

LEMMA FoldStep ==
  ASSUME NEW t, HostText(t), NEW f, FoldsHost(t, f), NEW p \in 0..(Len(t) - 1), P!C(t, p) \notin Joints,
         NEW X \in Seq(Chars)
  PROVE  \E y \in (p + 1)..Len(t) : Turn(t, f, p, y, X)
<1>1. PICK n \in Nat : n = Len(t) /\ t \in Seq(STRING)
  BY HostIs
<1>2. \A j \in 0..(n - 1) : P!C(t, j) = t[j + 1] /\ P!C(t, j) # Bar
  BY <1>1, HostIs
<1>3. PICK y \in (p + 1)..n :
        /\ \A j \in p..(y - 1) : P!C(t, j) \notin Joints
        /\ y < n => P!C(t, y) \in Joints
        /\ P!Word(t, P!Host, p) = [ord |-> Stretch(t, p, y), ptr |-> y + 1]
        /\ AtLabel(t, y + 1)
        /\ Left(t, y + 1) \in Nat /\ Left(t, p) = Left(t, y + 1) + 1
  BY <1>1, LabelHere
<1>4. p \in Nat /\ p < y /\ y \in Nat /\ y <= n
  BY <1>1, <1>3
<1>5. PICK s : s = Stretch(t, p, y)
  OBVIOUS
<1>6. /\ s \in Seq(STRING) /\ Len(s) = y - p
      /\ \A i \in 1..(y - p) : s[i] = t[p + i]
  <2>1. y \in 0..Len(t) /\ p \in 0..y
    BY <1>1, <1>4
  <2> QED
    BY <1>1, <1>5, <2>1, StretchIs
<1>7. s \in Seq(Chars) /\ s # << >>
  <2>1. STRING \subseteq Chars
    BY DEF Chars
  <2>2. s # << >>
    BY <1>4, <1>6
  <2> QED
    BY <1>6, <2>1, <2>2, SeqMonotonic
<1>8. \A i \in 1..(y - p) : s[i] = P!C(t, p + (i - 1)) /\ s[i] # Bar
  <2> SUFFICES ASSUME NEW i \in 1..(y - p) PROVE s[i] = P!C(t, p + (i - 1)) /\ s[i] # Bar
    OBVIOUS
  <2>1. p + (i - 1) \in 0..(n - 1) /\ (p + (i - 1)) + 1 = p + i
    BY <1>4
  <2> QED
    BY <1>2, <1>6, <2>1
<1>9. p \in 0..(Len(t) + 1) /\ y + 1 \in 0..(Len(t) + 1)
  BY <1>1, <1>4
<1>10. f[y + 1] \in Seq(Chars)
  BY <1>9 DEF FoldsHost
<1>11. f[p] = Cat(Cat(f[y + 1], s), <<Bar>>)
  <2>1. f[p] = LET label == P!Word(t, P!Host, p)
               IN IF label.ord = << >> THEN << >> ELSE Cat(Cat(f[label.ptr], label.ord), <<Bar>>)
    BY <1>9 DEF FoldsHost
  <2>2. P!Word(t, P!Host, p).ord = s /\ P!Word(t, P!Host, p).ptr = y + 1
    BY <1>3, <1>5
  <2> QED
    BY <1>7, <2>1, <2>2
<1> DEFINE u == <<Bar>>
<1>12. u \in Seq(Chars)
  BY DEF Chars
<1> HIDE DEF u
<1>13. Cat(s, u) \in Seq(Chars)
  BY <1>7, <1>12, CatIs
<1>14. Cat(Cat(s, u), X) \in Seq(Chars)
  BY <1>13, CatIs
<1>15. Cat(Cat(f[y + 1], s), u) = Cat(f[y + 1], Cat(s, u))
  BY <1>7, <1>10, <1>12, CatRegroups
<1>16. Cat(Cat(f[y + 1], Cat(s, u)), X) = Cat(f[y + 1], Cat(Cat(s, u), X))
  BY <1>10, <1>13, CatRegroups
<1>17. Cat(f[p], X) = Cat(f[y + 1], Cat(Cat(s, u), X))
  BY <1>11, <1>15, <1>16 DEF u
<1>18. Cat(Cat(s, <<Bar>>), X) \in Seq(Chars) /\ Cat(f[p], X) = Cat(f[y + 1], Cat(Cat(s, <<Bar>>), X))
  BY <1>14, <1>17 DEF u
<1>19. Turn(t, f, p, y, X)
  BY <1>1, <1>3, <1>5, <1>6, <1>7, <1>8, <1>18 DEF Turn
<1> QED
  BY <1>1, <1>3, <1>19

\* Two positions with n labels left.
Facing(h, p, k, q, n) == AtLabel(h, p) /\ AtLabel(k, q) /\ Left(h, p) = n /\ Left(k, q) = n

\* Behind the last label the recursion ends, before it is a label.
LEMMA LabelsLeft ==
  ASSUME NEW t, HostText(t), NEW f, FoldsHost(t, f), NEW a, AtLabel(t, a)
  PROVE  /\ Left(t, a) = 0 => a = Len(t) + 1 /\ f[a] = << >>
         /\ \A j \in Nat : Left(t, a) = j + 1 => a \in 0..(Len(t) - 1) /\ P!C(t, a) \notin Joints
<1>1. PICK m \in Nat : m = Len(t)
  BY HostIs
<1>2. ASSUME a \in 0..(m - 1), P!C(t, a) \notin Joints PROVE Left(t, a) # 0
  <2>1. PICK y \in (a + 1)..m : Left(t, y + 1) \in Nat /\ Left(t, a) = Left(t, y + 1) + 1
    BY <1>1, <1>2, LabelHere
  <2> QED
    BY <2>1
<1>3. f[m + 1] = << >>
  <2>1. Alone(P!Host) /\ Plain(t, P!Host)
    BY HostIs DEF HostText
  <2>2. m + 1 \in 0..(m + 1) /\ m + 1 \in Nat /\ m + 1 >= m
    OBVIOUS
  <2>3. P!Word(t, P!Host, m + 1).ord = << >>
    BY <1>1, <2>1, <2>2, NoWordLeft
  <2> QED
    BY <1>1, <2>2, <2>3 DEF FoldsHost
<1>4. Left(t, m + 1) = 0
  BY <1>1 DEF Left
<1> QED
  BY <1>1, <1>2, <1>3, <1>4 DEF AtLabel

\* Equal names with equally many labels come from hosts that are alike.
LEMMA HostsApart ==
  ASSUME NEW h, HostText(h), NEW k, HostText(k), NEW f, FoldsHost(h, f), NEW g, FoldsHost(k, g),
         NEW n \in Nat, NEW p, NEW q, Facing(h, p, k, q, n), NEW X \in Seq(Chars), NEW Y \in Seq(Chars),
         Cat(f[p], X) = Cat(g[q], Y)
  PROVE  X = Y /\ Alike(h, p, k, q)
<1>1. PICK m \in Nat, l \in Nat : m = Len(h) /\ l = Len(k)
  BY HostIs
<1> DEFINE Apart(j) == \A a, b : Facing(h, a, k, b, j) =>
                         \A V, W \in Seq(Chars) : Cat(f[a], V) = Cat(g[b], W) => V = W /\ Alike(h, a, k, b)
           Good == {j \in Nat : Apart(j)}
<1>2. 0 \in Good
  <2> SUFFICES ASSUME NEW a, NEW b, Facing(h, a, k, b, 0), NEW V \in Seq(Chars), NEW W \in Seq(Chars),
                      Cat(f[a], V) = Cat(g[b], W)
               PROVE  V = W /\ Alike(h, a, k, b)
    OBVIOUS
  <2>1. a = m + 1 /\ f[a] = << >>
    BY <1>1, LabelsLeft DEF Facing
  <2>2. b = l + 1 /\ g[b] = << >>
    BY <1>1, LabelsLeft DEF Facing
  <2>4. V = W
    BY <2>1, <2>2, CatIs
  <2>5. Alike(h, a, k, b)
    BY <1>1, <2>1, <2>2 DEF Alike
  <2> QED
    BY <2>4, <2>5
<1>3. ASSUME NEW j \in Nat, j \in Good PROVE j + 1 \in Good
  <2> SUFFICES Apart(j + 1)
    OBVIOUS
  <2> SUFFICES ASSUME NEW a, NEW b, Facing(h, a, k, b, j + 1), NEW V \in Seq(Chars), NEW W \in Seq(Chars),
                      Cat(f[a], V) = Cat(g[b], W)
               PROVE  V = W /\ Alike(h, a, k, b)
    OBVIOUS
  <2>1. a \in 0..(m - 1) /\ P!C(h, a) \notin Joints
    BY <1>1, <1>3, LabelsLeft DEF Facing
  <2>2. b \in 0..(l - 1) /\ P!C(k, b) \notin Joints
    BY <1>1, <1>3, LabelsLeft DEF Facing
  <2>3. PICK y \in (a + 1)..Len(h) : Turn(h, f, a, y, V)
    BY <1>1, <2>1, FoldStep
  <2>4. PICK z \in (b + 1)..Len(k) : Turn(k, g, b, z, W)
    BY <1>1, <2>2, FoldStep
  <2>5. PICK s, r : s = Stretch(h, a, y) /\ r = Stretch(k, b, z)
    OBVIOUS
  <2>i. a \in Nat /\ b \in Nat /\ y \in Nat /\ z \in Nat /\ a < y /\ b < z /\ y <= m /\ z <= l
    BY <1>1, <2>1, <2>2
  <2>h. /\ AtLabel(h, y + 1) /\ Left(h, y + 1) \in Nat /\ Left(h, a) = Left(h, y + 1) + 1
        /\ y < m => P!C(h, y) \in Joints
    BY <1>1, <2>3 DEF Turn
  <2>k. /\ AtLabel(k, z + 1) /\ Left(k, z + 1) \in Nat /\ Left(k, b) = Left(k, z + 1) + 1
        /\ z < l => P!C(k, z) \in Joints
    BY <1>1, <2>4 DEF Turn
  <2>s. /\ s \in Seq(Chars) /\ Len(s) = y - a
        /\ \A i \in 1..(y - a) : s[i] = P!C(h, a + (i - 1)) /\ s[i] # Bar
        /\ Cat(Cat(s, <<Bar>>), V) \in Seq(Chars)
        /\ Cat(f[a], V) = Cat(f[y + 1], Cat(Cat(s, <<Bar>>), V))
    BY <2>3, <2>5 DEF Turn
  <2>r. /\ r \in Seq(Chars) /\ Len(r) = z - b
        /\ \A i \in 1..(z - b) : r[i] = P!C(k, b + (i - 1)) /\ r[i] # Bar
        /\ Cat(Cat(r, <<Bar>>), W) \in Seq(Chars)
        /\ Cat(g[b], W) = Cat(g[z + 1], Cat(Cat(r, <<Bar>>), W))
    BY <2>4, <2>5 DEF Turn
  <2>6. Facing(h, y + 1, k, z + 1, j)
    <3>1. Left(h, a) = j + 1 /\ Left(k, b) = j + 1
      BY DEF Facing
    <3>2. Left(h, y + 1) = j /\ Left(k, z + 1) = j
      BY <2>h, <2>k, <3>1
    <3> QED
      BY <2>h, <2>k, <3>2 DEF Facing
  <2>7. Cat(Cat(s, <<Bar>>), V) = Cat(Cat(r, <<Bar>>), W) /\ Alike(h, y + 1, k, z + 1)
    <3>1. Cat(f[y + 1], Cat(Cat(s, <<Bar>>), V)) = Cat(g[z + 1], Cat(Cat(r, <<Bar>>), W))
      BY <2>s, <2>r
    <3>2. Cat(Cat(s, <<Bar>>), V) \in Seq(Chars) /\ Cat(Cat(r, <<Bar>>), W) \in Seq(Chars)
      BY <2>s, <2>r
    <3>3. Apart(j)
      BY <1>3
    <3> QED
      BY <2>6, <3>1, <3>2, <3>3
  <2>8. s = r /\ V = W
    <3>1. PICK u : u = <<Bar>>
      OBVIOUS
    <3>2. u \in Seq(Chars) /\ OnlyBar(u)
      BY <3>1 DEF Chars, OnlyBar
    <3>3. Barless(s) /\ Barless(r)
      BY <2>s, <2>r DEF Barless
    <3>4. Cat(Cat(s, u), V) = Cat(Cat(r, u), W)
      BY <2>7, <3>1
    <3>5. s \in Seq(Chars) /\ r \in Seq(Chars)
      BY <2>s, <2>r
    <3>6. V \in Seq(Chars) /\ W \in Seq(Chars)
      OBVIOUS
    <3> HIDE DEF Apart
    <3> QED
      BY <3>2, <3>3, <3>4, <3>5, <3>6, SameFirst, Zenon
  <2>9. y - a = z - b
    BY <2>s, <2>r, <2>8
  <2>10. \A i \in 0..((y - a) - 1) : P!C(h, a + i) = P!C(k, b + i)
    <3> SUFFICES ASSUME NEW i \in 0..((y - a) - 1) PROVE P!C(h, a + i) = P!C(k, b + i)
      OBVIOUS
    <3>1. i + 1 \in 1..(y - a) /\ i + 1 \in 1..(z - b) /\ (i + 1) - 1 = i
      BY <2>9, <2>i
    <3>2. s[i + 1] = P!C(h, a + i) /\ r[i + 1] = P!C(k, b + i)
      BY <2>s, <2>r, <3>1
    <3> QED
      BY <2>8, <3>2
  <2>11. /\ m - (y + 1) = l - (z + 1)
         /\ \A i \in Nat : i < m - (y + 1) =>
              Dotted(P!C(h, (y + 1) + i)) = Dotted(P!C(k, (z + 1) + i))
    BY <1>1, <2>7 DEF Alike
  <2>13. m - a = l - b
    BY <2>9, <2>11, <2>i
  <2>14. ASSUME NEW i \in Nat, i < m - a PROVE Dotted(P!C(h, a + i)) = Dotted(P!C(k, b + i))
    <3>1. CASE i < y - a
      <4>1. i \in 0..((y - a) - 1)
        BY <2>i, <3>1
      <4> QED
        BY <2>10, <4>1
    <3>2. CASE i = y - a
      <4>1. a + i = y /\ b + i = z /\ y < m /\ z < l
        BY <2>9, <2>i, <2>13, <2>14, <3>2
      <4>2. P!C(h, y) \in Joints /\ P!C(k, z) \in Joints
        BY <2>h, <2>k, <4>1
      <4>3. Dotted(P!C(h, y)) = "." /\ Dotted(P!C(k, z)) = "."
        BY <4>2 DEF Joints, Dotted
      <4> QED
        BY <4>1, <4>3
    <3>3. CASE i > y - a
      <4>1. PICK o \in Nat : o = i - ((y - a) + 1)
        BY <2>i, <3>3
      <4>2. (y + 1) + o = a + i /\ (z + 1) + o = b + i /\ o < m - (y + 1)
        BY <2>9, <2>i, <2>14, <4>1
      <4>3. Dotted(P!C(h, (y + 1) + o)) = Dotted(P!C(k, (z + 1) + o))
        BY <2>11, <4>2
      <4> QED
        BY <4>2, <4>3
    <3> QED
      BY <2>i, <3>1, <3>2, <3>3
  <2>15. Alike(h, a, k, b)
    BY <1>1, <2>13, <2>14 DEF Alike
  <2> QED
    BY <2>8, <2>15
<1>4. n \in Good
  <2>1. \A i \in 0..n : i < n /\ i \in Good => i + 1 \in Good
    <3> SUFFICES ASSUME NEW i \in 0..n, i \in Good PROVE i + 1 \in Good
      OBVIOUS
    <3>1. i \in Nat
      OBVIOUS
    <3> HIDE DEF Good
    <3> QED
      BY <1>3, <3>1
  <2>2. 0 \in 0..n /\ n \in 0..n
    OBVIOUS
  <2> HIDE DEF Good
  <2> QED
    BY <1>2, <2>1, <2>2, Upwards
<1> QED
  BY <1>4

LEMMA DottedIs == \A c : (c \in Joints <=> Dotted(c) = ".") /\ (c \notin Joints => Dotted(c) = c)
  BY DEF Dotted, Joints

\* Where the first label ends, in hosts that are alike.
LEMMA NoShorterLabel ==
  ASSUME NEW h, NEW k, NEW a \in Nat, NEW b \in Nat, NEW y \in Nat, NEW z \in Nat,
         NEW m \in Nat, NEW l \in Nat, m = Len(h), l = Len(k), a < y, b < z, y <= m, z <= l,
         Alike(h, a, k, b), y < m => P!C(h, y) \in Joints,
         \A j \in b..(z - 1) : P!C(k, j) \notin Joints
  PROVE  z - b <= y - a
<1> SUFFICES ASSUME y - a < z - b PROVE FALSE
  OBVIOUS
<1>1. m - a = l - b /\ \A i \in Nat : i < m - a => Dotted(P!C(h, a + i)) = Dotted(P!C(k, b + i))
  BY DEF Alike
<1>2. PICK i \in Nat : i = y - a
  OBVIOUS
<1>3. i < m - a /\ a + i = y /\ y < m /\ b + i \in b..(z - 1)
  BY <1>1, <1>2
<1>4. P!C(h, y) \in Joints /\ P!C(k, b + i) \notin Joints
  BY <1>3
<1>5. Dotted(P!C(h, y)) = Dotted(P!C(k, b + i))
  BY <1>1, <1>3
<1> QED
  BY <1>4, <1>5, DottedIs

\* Hosts that are alike give equal names.
LEMMA HostsMeet ==
  ASSUME NEW h, HostText(h), NEW k, HostText(k), NEW f, FoldsHost(h, f), NEW g, FoldsHost(k, g),
         NEW n \in Nat, NEW p, NEW q, Facing(h, p, k, q, n), Alike(h, p, k, q)
  PROVE  f[p] = g[q]
<1>1. PICK m \in Nat, l \in Nat : m = Len(h) /\ l = Len(k)
  BY HostIs
<1> DEFINE Meet(j) == \A a, b : Facing(h, a, k, b, j) /\ Alike(h, a, k, b) => f[a] = g[b]
           Good == {j \in Nat : Meet(j)}
<1>2. 0 \in Good
  <2> SUFFICES ASSUME NEW a, NEW b, Facing(h, a, k, b, 0) PROVE f[a] = g[b]
    OBVIOUS
  <2>1. f[a] = << >> /\ g[b] = << >>
    BY LabelsLeft DEF Facing
  <2> QED
    BY <2>1
<1>3. ASSUME NEW j \in Nat, j \in Good PROVE j + 1 \in Good
  <2> SUFFICES ASSUME NEW a, NEW b, Facing(h, a, k, b, j + 1), Alike(h, a, k, b) PROVE f[a] = g[b]
    OBVIOUS
  <2>1. a \in 0..(m - 1) /\ P!C(h, a) \notin Joints
    BY <1>1, <1>3, LabelsLeft DEF Facing
  <2>2. b \in 0..(l - 1) /\ P!C(k, b) \notin Joints
    BY <1>1, <1>3, LabelsLeft DEF Facing
  <2>e. << >> \in Seq(Chars)
    OBVIOUS
  <2>3. PICK y \in (a + 1)..Len(h) : Turn(h, f, a, y, << >>)
    BY <1>1, <2>1, <2>e, FoldStep
  <2>4. PICK z \in (b + 1)..Len(k) : Turn(k, g, b, z, << >>)
    BY <1>1, <2>2, <2>e, FoldStep
  <2>5. PICK s, r : s = Stretch(h, a, y) /\ r = Stretch(k, b, z)
    OBVIOUS
  <2>i. a \in Nat /\ b \in Nat /\ y \in Nat /\ z \in Nat /\ a < y /\ b < z /\ y <= m /\ z <= l
    BY <1>1, <2>1, <2>2
  <2>h. /\ AtLabel(h, y + 1) /\ Left(h, y + 1) \in Nat /\ Left(h, a) = Left(h, y + 1) + 1
        /\ y < m => P!C(h, y) \in Joints
        /\ \A c \in a..(y - 1) : P!C(h, c) \notin Joints
        /\ s \in Seq(Chars) /\ Len(s) = y - a
        /\ \A i \in 1..(y - a) : s[i] = P!C(h, a + (i - 1))
        /\ Cat(f[a], << >>) = Cat(f[y + 1], Cat(Cat(s, <<Bar>>), << >>))
    BY <1>1, <2>3, <2>5 DEF Turn
  <2>k. /\ AtLabel(k, z + 1) /\ Left(k, z + 1) \in Nat /\ Left(k, b) = Left(k, z + 1) + 1
        /\ z < l => P!C(k, z) \in Joints
        /\ \A c \in b..(z - 1) : P!C(k, c) \notin Joints
        /\ r \in Seq(Chars) /\ Len(r) = z - b
        /\ \A i \in 1..(z - b) : r[i] = P!C(k, b + (i - 1))
        /\ Cat(g[b], << >>) = Cat(g[z + 1], Cat(Cat(r, <<Bar>>), << >>))
    BY <1>1, <2>4, <2>5 DEF Turn
  <2>6. Facing(h, y + 1, k, z + 1, j)
    <3>1. Left(h, a) = j + 1 /\ Left(k, b) = j + 1
      BY DEF Facing
    <3>2. Left(h, y + 1) = j /\ Left(k, z + 1) = j
      BY <2>h, <2>k, <3>1
    <3> QED
      BY <2>h, <2>k, <3>2 DEF Facing
  <2>7. m - a = l - b /\ \A i \in Nat : i < m - a => Dotted(P!C(h, a + i)) = Dotted(P!C(k, b + i))
    BY <1>1 DEF Alike
  <2>8. y - a = z - b
    <3>1. z - b <= y - a
      BY <1>1, <2>h, <2>k, <2>i, NoShorterLabel
    <3>2. Alike(k, b, h, a)
      BY <1>1, <2>7 DEF Alike
    <3>3. y - a <= z - b
      BY <1>1, <2>h, <2>k, <2>i, <3>2, NoShorterLabel
    <3> QED
      BY <2>i, <3>1, <3>3
  <2>9. s = r
    <3>1. \A i \in 1..(y - a) : s[i] = r[i]
      <4> SUFFICES ASSUME NEW i \in 1..(y - a) PROVE s[i] = r[i]
        OBVIOUS
      <4>1. PICK o \in Nat : o = i - 1
        OBVIOUS
      <4>2. o < m - a /\ a + o \in a..(y - 1) /\ b + o \in b..(z - 1) /\ i \in 1..(z - b)
        BY <2>8, <2>i, <4>1
      <4>3. Dotted(P!C(h, a + o)) = P!C(h, a + o) /\ Dotted(P!C(k, b + o)) = P!C(k, b + o)
        BY <2>h, <2>k, <4>2, DottedIs
      <4>4. P!C(h, a + o) = P!C(k, b + o)
        BY <2>7, <4>2, <4>3
      <4>5. s[i] = P!C(h, a + o) /\ r[i] = P!C(k, b + o)
        BY <2>h, <2>k, <4>1, <4>2
      <4> QED
        BY <4>4, <4>5
    <3> QED
      BY <2>8, <2>h, <2>k, <3>1, SeqEqual
  <2>10. Alike(h, y + 1, k, z + 1)
    <3>1. m - (y + 1) = l - (z + 1)
      BY <2>7, <2>8, <2>i
    <3>2. ASSUME NEW i \in Nat, i < m - (y + 1)
          PROVE  Dotted(P!C(h, (y + 1) + i)) = Dotted(P!C(k, (z + 1) + i))
      <4>1. PICK o \in Nat : o = i + ((y - a) + 1)
        BY <2>i
      <4>2. a + o = (y + 1) + i /\ b + o = (z + 1) + i /\ o < m - a
        BY <2>8, <2>i, <3>2, <4>1
      <4> QED
        BY <2>7, <4>2
    <3> QED
      BY <1>1, <3>1, <3>2 DEF Alike
  <2>11. f[y + 1] = g[z + 1]
    <3>1. Meet(j)
      BY <1>3
    <3> QED
      BY <2>6, <2>10, <3>1
  <2>12. Cat(f[a], << >>) = Cat(g[b], << >>)
    BY <2>h, <2>k, <2>9, <2>11
  <2>13. f[a] \in Seq(Chars) /\ g[b] \in Seq(Chars)
    <3>1. a \in 0..(Len(h) + 1) /\ b \in 0..(Len(k) + 1)
      BY <1>1, <2>i
    <3> QED
      BY <3>1 DEF FoldsHost
  <2> QED
    BY <2>12, <2>13, ConcatEmptySeq DEF Cat
<1>4. n \in Good
  <2>1. \A i \in 0..n : i < n /\ i \in Good => i + 1 \in Good
    <3> SUFFICES ASSUME NEW i \in 0..n, i \in Good PROVE i + 1 \in Good
      OBVIOUS
    <3>1. i \in Nat
      OBVIOUS
    <3> HIDE DEF Good
    <3> QED
      BY <1>3, <3>1
  <2>2. 0 \in 0..n /\ n \in 0..n
    OBVIOUS
  <2> HIDE DEF Good
  <2> QED
    BY <1>2, <2>1, <2>2, Upwards
<1> QED
  BY <1>4

\* The host of a URI of Hrefs, and what is behind it.
LEMMA HostsAreTexts ==
  ASSUME NEW u \in Hrefs, u.scheme # "", End \notin Joints, TokInv, reader = "parse"
  PROVE  HostText(u.host) /\ P!Below(u) \in Seq(STRING)
<1>1. /\ u.host \in Seq(STRING) /\ u.path \in Seq(STRING)
      /\ P!Range(u.host) \cap (P!Whitespace \cup {End, Bar, "/"}) = {}
      /\ \A i \in P!Dots(u.host) : {i - 1, i + 1} \subseteq DOMAIN u.host \ P!Dots(u.host)
  BY HrefsAssumption, Zenon DEF P!HrefsWellFormed, Bar
<1>2. P!Host.splits = Joints /\ P!Host.nospace = FALSE
  BY DEF P!Host, P!Splitting, P!Mode, Joints
<1>3. End \notin {P!Blank, P!Newline, P!Equals, P!Quote}
  BY DEF TokInv, Plain
<1>4. Plain(u.host, P!Host)
  BY <1>1, <1>2, <1>3 DEF Plain
<1>5. P!Range(u.host) \cap (P!Whitespace \cup {Bar}) = {}
  BY <1>1
<1>6. HostText(u.host)
  BY <1>1, <1>4, <1>5 DEF HostText
<1>7. P!Below(u) \in Seq(STRING)
  BY <1>1, HeadTailProperties DEF P!Below
<1> QED
  BY <1>6, <1>7

\* Where the first label ends, with all others left, and what Domain is.
LEMMA DomainIs ==
  ASSUME NEW t, HostText(t)
  PROVE  \E z \in 1..(Len(t) + 1) :
           /\ P!Word(t, P!Host, 0).ptr = z /\ AtLabel(t, z)
           /\ Left(t, z) = Cardinality(P!Dots(t)) /\ Left(t, z) \in Nat
           /\ P!Domain(t) = IF z > Len(t) THEN << >>
                            ELSE [i \in 1..(Len(t) - z) |-> Dotted(t[z + i])]
<1>1. PICK n \in Nat : n = Len(t) /\ t \in Seq(STRING) /\ DOMAIN t = 1..n
  BY HostIs
<1>2. /\ \A j \in 0..(n - 1) : P!C(t, j) \in Joints <=> j + 1 \in P!Dots(t)
      /\ \A i \in P!Dots(t) : i \in 1..n
      /\ Alone(P!Host) /\ Plain(t, P!Host)
  BY <1>1, HostIs DEF HostText
<1> DEFINE I == {i \in 1..Len(t) : t[i] \in Joints}
           first == P!Min(I)
<1>3. P!Dots(t) = I
  BY <1>1 DEF P!Dots, Joints
<1>4. P!Domain(t) = IF I = {} THEN << >>
                    ELSE [i \in 1..(Len(t) - first) |-> Dotted(t[first + i])]
  BY DEF P!Domain, Joints, Dotted
<1> HIDE DEF I
<1>5. CASE n = 0
  <2>1. P!Word(t, P!Host, 0).ptr = 1
    <3>1. P!Word(t, P!Host, 0) = [ord |-> << >>, ptr |-> 0 + 1]
      BY <1>1, <1>2, <1>5, NoWordLeft
    <3> QED
      BY <3>1
  <2>2. I = {}
    BY <1>2, <1>3, <1>5
  <2>3. Left(t, 1) = 0 /\ Cardinality(P!Dots(t)) = 0
    BY <1>1, <1>3, <1>5, <2>2, FS_EmptySet DEF Left
  <2>4. P!Domain(t) = << >>
    BY <1>4, <2>2
  <2>5. AtLabel(t, 1) /\ 1 \in 1..(n + 1) /\ 1 > n
    BY <1>1, <1>5 DEF AtLabel
  <2> QED
    BY <1>1, <2>1, <2>3, <2>4, <2>5
<1>6. CASE n # 0
  <2>1. 0 \in 0..(n - 1) /\ P!C(t, 0) \notin Joints
    <3>1. 1 \notin P!Dots(t)
      <4>1. 1 \in P!Dots(t) => 0 \in 1..n
        <5>1. 1 \in P!Dots(t) => {1 - 1, 1 + 1} \subseteq 1..n
          BY <1>1 DEF HostText
        <5> QED
          BY <5>1
      <4> QED
        BY <4>1
    <3> QED
      BY <1>2, <1>6, <3>1
  <2>2. PICK y \in (0 + 1)..n :
          /\ \A j \in 0..(y - 1) : P!C(t, j) \notin Joints
          /\ y < n => P!C(t, y) \in Joints
          /\ P!Word(t, P!Host, 0) = [ord |-> Stretch(t, 0, y), ptr |-> y + 1]
          /\ AtLabel(t, y + 1)
          /\ Left(t, y + 1) \in Nat /\ Left(t, 0) = Left(t, y + 1) + 1
    BY <1>1, <2>1, LabelHere
  <2>3. Left(t, y + 1) = Cardinality(P!Dots(t))
    <3>1. {i \in P!Dots(t) : i > 0} = P!Dots(t)
      BY <1>2
    <3>2. Left(t, 0) = 1 + Cardinality(P!Dots(t))
      <4>1. ~(0 > Len(t))
        BY <1>1
      <4>2. Left(t, 0) = 1 + Cardinality({i \in P!Dots(t) : i > 0})
        BY <4>1, Zenon DEF Left
      <4> QED
        BY <3>1, <4>2, Zenon
    <3>3. Cardinality(P!Dots(t)) \in Nat
      <4>1. P!Dots(t) \subseteq 1..n
        BY <1>2
      <4>2. IsFiniteSet(1..n)
        BY FS_Interval
      <4>3. IsFiniteSet(P!Dots(t))
        BY <4>1, <4>2, FS_Subset
      <4> QED
        BY <4>3, FS_CardinalityType
    <3> QED
      BY <2>2, <3>2, <3>3
  <2>4. \A i \in 1..y : i \notin I
    <3> SUFFICES ASSUME NEW i \in 1..y PROVE i \notin I
      OBVIOUS
    <3>1. i - 1 \in 0..(y - 1) /\ i - 1 \in 0..(n - 1) /\ (i - 1) + 1 = i
      BY <2>2
    <3> QED
      BY <1>2, <1>3, <2>2, <3>1
  <2>5. CASE y = n
    <3>1. I = {}
      BY <1>2, <1>3, <2>4, <2>5
    <3>2. P!Domain(t) = << >>
      BY <1>4, <3>1
    <3>3. y + 1 > n /\ y + 1 \in 1..(n + 1)
      BY <2>5
    <3> QED
      BY <1>1, <2>2, <2>3, <3>2, <3>3
  <2>6. CASE y # n
    <3>1. y \in 0..(n - 1) /\ y + 1 \in 1..(n + 1) /\ ~(y + 1 > n) /\ y < n
      BY <2>2, <2>6
    <3>2. y + 1 \in I
      BY <1>2, <1>3, <2>2, <3>1
    <3>3. \A i \in I : y + 1 <= i
      <4>1. \A i \in I : i \in 1..n /\ i \notin 1..y
        BY <1>2, <1>3, <2>4
      <4> QED
        BY <3>1, <4>1
    <3>4. P!Min(I) = y + 1
      <4>1. P!Min(I) = CHOOSE x \in I : \A z \in I : x <= z
        BY DEF P!Min
      <4>2. PICK x : x = P!Min(I)
        OBVIOUS
      <4>3. x \in I /\ x <= y + 1
        BY <3>2, <3>3, <4>1, <4>2
      <4>4. x \in Nat /\ y + 1 <= x
        BY <1>2, <1>3, <3>3, <4>3
      <4> QED
        BY <3>1, <4>2, <4>3, <4>4
    <3>5. first = y + 1 /\ I # {}
      BY <3>2, <3>4
    <3>6. P!Domain(t) = [i \in 1..(Len(t) - (y + 1)) |-> Dotted(t[(y + 1) + i])]
      BY <1>4, <3>5
    <3> HIDE DEF first
    <3>7. PICK z : z = y + 1
      OBVIOUS
    <3>8. z \in 1..(Len(t) + 1) /\ ~(z > Len(t))
      BY <1>1, <3>1, <3>7
    <3>9. /\ P!Word(t, P!Host, 0).ptr = z /\ AtLabel(t, z)
          /\ Left(t, z) = Cardinality(P!Dots(t)) /\ Left(t, z) \in Nat
      BY <2>2, <2>3, <3>7
    <3>10. P!Domain(t) = IF z > Len(t) THEN << >> ELSE [i \in 1..(Len(t) - z) |-> Dotted(t[z + i])]
      BY <3>6, <3>7, <3>8, Zenon
    <3> QED
      BY <3>8, <3>9, <3>10, Zenon
  <2> QED
    BY <2>5, <2>6
<1> QED
  BY <1>5, <1>6

\* Mapped takes only characters that are no letters or digits for each other.
LEMMA MappedAgrees ==
  ASSUME NEW s \in Seq(STRING), NEW r \in Seq(STRING)
  PROVE  P!Mapped(s) = P!Mapped(r) <=> P!AgreeInAlnum(s, r)
<1> DEFINE Image(c) == IF c \in P!Alnum THEN c ELSE Bar
<1>1. P!Mapped(s) = [i \in DOMAIN s |-> Image(s[i])] /\ P!Mapped(r) = [i \in DOMAIN r |-> Image(r[i])]
  BY Zenon DEF P!Mapped, Bar
<1>2. Bar \notin P!Alnum
  BY Zenon DEF Bar, P!Alnum
<1>3. \A c, e : Image(c) = Image(e) <=> c = e \/ {c, e} \cap P!Alnum = {}
  BY <1>2
<1>4. PICK n \in Nat, l \in Nat : n = Len(s) /\ l = Len(r) /\ DOMAIN s = 1..n /\ DOMAIN r = 1..l
  BY LenProperties
<1>5. 1..n = 1..l <=> n = l
  <2>1. n \in 1..n \/ n = 0
    OBVIOUS
  <2>2. l \in 1..l \/ l = 0
    OBVIOUS
  <2> QED
    BY <2>1, <2>2
<1>6. P!Mapped(s) = P!Mapped(r) <=> n = l /\ \A i \in 1..n : Image(s[i]) = Image(r[i])
  <2> HIDE DEF Image
  <2> QED
    BY <1>1, <1>4, <1>5
<1>7. P!AgreeInAlnum(s, r) <=> n = l /\ \A i \in 1..n : s[i] = r[i] \/ {s[i], r[i]} \cap P!Alnum = {}
  BY <1>4 DEF P!AgreeInAlnum
<1> HIDE DEF Image
<1> QED
  BY <1>3, <1>6, <1>7

LEMMA MappedIs ==
  ASSUME NEW s \in Seq(STRING)
  PROVE  P!Mapped(s) \in Seq(Chars)
<1>1. Len(s) \in Nat /\ DOMAIN s = 1..Len(s) /\ \A i \in 1..Len(s) : s[i] \in Chars
  BY DEF Chars
<1>2. P!Mapped(s) = [i \in 1..Len(s) |-> IF s[i] \in P!Alnum THEN s[i] ELSE Bar]
  BY <1>1, Zenon DEF P!Mapped, Bar
<1>3. Bar \in Chars
  BY DEF Chars
<1>4. P!Mapped(s) \in [1..Len(s) -> Chars]
  BY <1>1, <1>2, <1>3
<1> QED
  BY <1>1, <1>4, FunctionIsSeq

\* How many, as Names says it.
LEMMA SoMany ==
  ASSUME NEW S
  PROVE  P!Cardinality(S) = Cardinality(S)
  BY DEF P!Cardinality, Cardinality

\* Two hosts with one Domain are alike behind their first labels.
LEMMA DomainAlike ==
  ASSUME NEW t, HostText(t), NEW u, HostText(u),
         NEW z \in 1..(Len(t) + 1), AtLabel(t, z), NEW y \in 1..(Len(u) + 1), AtLabel(u, y),
         P!Domain(t) = IF z > Len(t) THEN << >> ELSE [i \in 1..(Len(t) - z) |-> Dotted(t[z + i])],
         P!Domain(u) = IF y > Len(u) THEN << >> ELSE [i \in 1..(Len(u) - y) |-> Dotted(u[y + i])]
  PROVE  P!Domain(t) = P!Domain(u) <=> Alike(t, z, u, y)
<1>1. PICK m \in Nat, l \in Nat : m = Len(t) /\ l = Len(u)
  BY HostIs
<1>2. z \in Nat /\ y \in Nat /\ z >= 1 /\ y >= 1 /\ z <= m + 1 /\ y <= l + 1 /\ z # m /\ y # l
  BY <1>1 DEF AtLabel
<1>3. /\ \A j \in 0..(m - 1) : P!C(t, j) = t[j + 1]
      /\ \A j \in 0..(l - 1) : P!C(u, j) = u[j + 1]
  BY <1>1, HostIs
<1>4. CASE m - z # l - y
  <2>1. ~Alike(t, z, u, y)
    BY <1>1, <1>4 DEF Alike
  <2>2. P!Domain(t) # P!Domain(u)
    <3>1. DOMAIN P!Domain(t) = 1..(m - z) /\ DOMAIN P!Domain(u) = 1..(l - y)
      BY <1>1, <1>2
    <3>2. m - z \in 1..(m - z) \/ (m - z = -1 /\ 1..(m - z) = {})
      BY <1>2
    <3>3. l - y \in 1..(l - y) \/ (l - y = -1 /\ 1..(l - y) = {})
      BY <1>2
    <3>4. 1..(m - z) # 1..(l - y)
      BY <1>2, <1>4, <3>2, <3>3
    <3> QED
      BY <3>1, <3>4
  <2> QED
    BY <2>1, <2>2
<1>5. CASE m - z = l - y /\ z > m
  <2>1. P!Domain(t) = << >> /\ P!Domain(u) = << >>
    BY <1>1, <1>2, <1>5
  <2>2. Alike(t, z, u, y)
    BY <1>1, <1>2, <1>5 DEF Alike
  <2> QED
    BY <2>1, <2>2
<1>6. CASE m - z = l - y /\ ~(z > m)
  <2>1. /\ P!Domain(t) = [i \in 1..(m - z) |-> Dotted(t[z + i])]
        /\ P!Domain(u) = [i \in 1..(m - z) |-> Dotted(u[y + i])]
    <3>1. ~(y > l) /\ m - z = l - y
      BY <1>2, <1>6
    <3>2. P!Domain(u) = [i \in 1..(l - y) |-> Dotted(u[y + i])]
      BY <1>1, <3>1, Zenon
    <3>3. P!Domain(t) = [i \in 1..(m - z) |-> Dotted(t[z + i])]
      BY <1>1, <1>6, Zenon
    <3> QED
      BY <3>1, <3>2, <3>3, Zenon
  <2>2. P!Domain(t) = P!Domain(u) <=> \A i \in 1..(m - z) : Dotted(t[z + i]) = Dotted(u[y + i])
    BY <2>1
  <2>3. ASSUME NEW i \in 1..(m - z), NEW o \in Nat, o = i - 1
        PROVE  P!C(t, z + o) = t[z + i] /\ P!C(u, y + o) = u[y + i]
    <3>1. z + o \in 0..(m - 1) /\ (z + o) + 1 = z + i /\ y + o \in 0..(l - 1) /\ (y + o) + 1 = y + i
      BY <1>2, <1>6, <2>3
    <3> QED
      BY <1>3, <3>1
  <2>4. ASSUME Alike(t, z, u, y), NEW i \in 1..(m - z) PROVE Dotted(t[z + i]) = Dotted(u[y + i])
    <3>1. PICK o \in Nat : o = i - 1 /\ o < m - z
      OBVIOUS
    <3>2. Dotted(P!C(t, z + o)) = Dotted(P!C(u, y + o))
      BY <1>1, <2>4, <3>1 DEF Alike
    <3> QED
      BY <2>3, <3>1, <3>2
  <2>5. ASSUME \A i \in 1..(m - z) : Dotted(t[z + i]) = Dotted(u[y + i])
        PROVE  Alike(t, z, u, y)
    <3>1. ASSUME NEW o \in Nat, o < m - z PROVE Dotted(P!C(t, z + o)) = Dotted(P!C(u, y + o))
      <4>1. PICK i \in 1..(m - z) : i = o + 1 /\ o = i - 1
        BY <1>2, <3>1
      <4> QED
        BY <2>3, <2>5, <4>1
    <3> QED
      BY <1>1, <1>6, <3>1 DEF Alike
  <2> QED
    BY <2>2, <2>4, <2>5
<1> QED
  BY <1>4, <1>5, <1>6

\* Two URIs with a scheme and as many labels.
LEMMA SchemedApart ==
  ASSUME NEW t, HostText(t), NEW u, HostText(u), NEW X \in Seq(STRING), NEW Y \in Seq(STRING),
         Cardinality(P!Dots(t)) = Cardinality(P!Dots(u))
  PROVE  P!HostSpace(t) \o P!Mapped(X) = P!HostSpace(u) \o P!Mapped(Y)
           <=> P!Domain(t) = P!Domain(u) /\ P!AgreeInAlnum(X, Y)
<1>5. PICK f : FoldsHost(t, f) /\ P!HostSpace(t) = f[P!Word(t, P!Host, 0).ptr]
  BY HostFolds
<1>6. PICK g : FoldsHost(u, g) /\ P!HostSpace(u) = g[P!Word(u, P!Host, 0).ptr]
  BY HostFolds
<1>7. PICK z \in 1..(Len(t) + 1) :
        /\ P!Word(t, P!Host, 0).ptr = z /\ AtLabel(t, z)
        /\ Left(t, z) = Cardinality(P!Dots(t)) /\ Left(t, z) \in Nat
        /\ P!Domain(t) = IF z > Len(t) THEN << >>
                         ELSE [i \in 1..(Len(t) - z) |-> Dotted(t[z + i])]
  BY DomainIs
<1>8. PICK y \in 1..(Len(u) + 1) :
        /\ P!Word(u, P!Host, 0).ptr = y /\ AtLabel(u, y)
        /\ Left(u, y) = Cardinality(P!Dots(u)) /\ Left(u, y) \in Nat
        /\ P!Domain(u) = IF y > Len(u) THEN << >>
                         ELSE [i \in 1..(Len(u) - y) |-> Dotted(u[y + i])]
  BY DomainIs
<1>9. PICK V \in Seq(Chars), W \in Seq(Chars) : V = P!Mapped(X) /\ W = P!Mapped(Y)
  BY MappedIs
<1>10. P!HostSpace(t) \o P!Mapped(X) = Cat(f[z], V) /\ P!HostSpace(u) \o P!Mapped(Y) = Cat(g[y], W)
  BY <1>5, <1>6, <1>7, <1>8, <1>9, Zenon DEF Cat
<1>11. PICK n \in Nat : n = Left(t, z) /\ n = Left(u, y)
  <2>1. Left(t, z) \in Nat
    BY <1>7
  <2>2. Left(t, z) = Left(u, y)
    BY <1>7, <1>8, Zenon
  <2> QED
    BY <2>1, <2>2
<1>12. Facing(t, z, u, y, n)
  BY <1>7, <1>8, <1>11 DEF Facing
<1>13. Cat(f[z], V) = Cat(g[y], W) => V = W /\ Alike(t, z, u, y)
  <2>1. HostText(t) /\ HostText(u) /\ FoldsHost(t, f) /\ FoldsHost(u, g)
    BY <1>5, <1>6
  <2>2. \A p, q : Facing(t, p, u, q, n) =>
          \A a, b \in Seq(Chars) : Cat(f[p], a) = Cat(g[q], b) => a = b /\ Alike(t, p, u, q)
    BY <2>1, HostsApart
  <2> QED
    BY <1>12, <2>2, Zenon
<1>14. Alike(t, z, u, y) => f[z] = g[y]
  <2>1. \A p, q : Facing(t, p, u, q, n) /\ Alike(t, p, u, q) => f[p] = g[q]
    BY <1>5, <1>6, HostsMeet
  <2> QED
    BY <1>12, <2>1, Zenon
<1>15. P!Domain(t) = P!Domain(u) <=> Alike(t, z, u, y)
  BY <1>7, <1>8, DomainAlike
<1>16. V = W <=> P!AgreeInAlnum(X, Y)
  BY <1>9, MappedAgrees
<1> QED
  BY <1>10, <1>13, <1>14, <1>15, <1>16, Zenon

\* Two URIs get one namespace exactly as NamespacesApart says.
LEMMA UrisApart == TokInv => P!NamespacesApart
<1> DEFINE Meet(h, k) == P!NamespaceFromHref(h) = P!NamespaceFromHref(k)
           Schemed(h, k) ==
             h.scheme # "" /\ k.scheme # "" /\ P!Cardinality(P!Dots(h.host)) = P!Cardinality(P!Dots(k.host)) =>
               (Meet(h, k) <=> P!Domain(h.host) = P!Domain(k.host) /\ P!AgreeInAlnum(P!Below(h), P!Below(k)))
           Bare(h, k) ==
             h.scheme = "" /\ k.scheme = "" => (Meet(h, k) <=> P!AgreeInAlnum(h.host, k.host))
<1> SUFFICES ASSUME TokInv, call = "new", mode = P!Host
             PROVE  \A h \in {u \in Hrefs : u.host = text}, k \in Hrefs :
                      ~P!Renamed(h) /\ ~P!Renamed(k) => Schemed(h, k) /\ Bare(h, k)
  BY Zenon DEF P!NamespacesApart
<1> SUFFICES ASSUME NEW h \in Hrefs, NEW k \in Hrefs, ~P!Renamed(h), ~P!Renamed(k)
             PROVE  Schemed(h, k) /\ Bare(h, k)
  <2> HIDE DEF Schemed, Bare
  <2> QED
    BY Zenon
<1>1. reader = "parse" /\ End \notin Joints
  BY DEF TokInv, Plain, P!Host, P!Splitting, P!Mode, Joints
<1>2. ASSUME h.scheme # "", k.scheme # "", P!Cardinality(P!Dots(h.host)) = P!Cardinality(P!Dots(k.host))
      PROVE  Meet(h, k) <=> P!Domain(h.host) = P!Domain(k.host) /\ P!AgreeInAlnum(P!Below(h), P!Below(k))
  <2>1. HostText(h.host) /\ P!Below(h) \in Seq(STRING)
    BY <1>1, <1>2, HostsAreTexts
  <2>2. HostText(k.host) /\ P!Below(k) \in Seq(STRING)
    BY <1>1, <1>2, HostsAreTexts
  <2>3. Cardinality(P!Dots(h.host)) = Cardinality(P!Dots(k.host))
    BY <1>2, SoMany, Zenon
  <2>4. P!NamespaceFromHref(h) = P!HostSpace(h.host) \o P!Mapped(P!Below(h))
    BY <1>2 DEF P!NamespaceFromHref
  <2>5. P!NamespaceFromHref(k) = P!HostSpace(k.host) \o P!Mapped(P!Below(k))
    BY <1>2 DEF P!NamespaceFromHref
  <2>6. P!HostSpace(h.host) \o P!Mapped(P!Below(h)) = P!HostSpace(k.host) \o P!Mapped(P!Below(k))
          <=> P!Domain(h.host) = P!Domain(k.host) /\ P!AgreeInAlnum(P!Below(h), P!Below(k))
    BY <2>1, <2>2, <2>3, SchemedApart
  <2> QED
    BY <2>4, <2>5, <2>6, Zenon
<1>3. ASSUME h.scheme = "", k.scheme = ""
      PROVE  Meet(h, k) <=> P!AgreeInAlnum(h.host, k.host)
  <2>1. h.host \in Seq(STRING) /\ k.host \in Seq(STRING)
    BY HrefsAssumption DEF P!HrefsWellFormed
  <2>2. P!NamespaceFromHref(h) = P!Mapped(h.host) /\ P!NamespaceFromHref(k) = P!Mapped(k.host)
    BY <1>3 DEF P!NamespaceFromHref
  <2> QED
    BY <2>1, <2>2, MappedAgrees
<1> QED
  BY <1>2, <1>3, Zenon

\* Split takes every qualified name apart at its colon (split.h).  And
\* NamespaceFromHref (xsd.cc) gives two URIs with a scheme and as many labels in
\* their hosts one C++ namespace exactly if they agree behind the first label,
\* dots and colons aside, and behind the host, signs aside: whatever the scheme
\* and the first label, and with or without a slash at the end.
THEOREM TellsNamesApart == Spec => []NamesRead
<1>1. TokInv => NamesRead
  BY NameSplit, UrisApart DEF NamesRead, P!NamesRead
<1> QED
  BY <1>1, TokInit, TokNext, PTL DEF Spec
=============================================================================
