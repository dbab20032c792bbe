--------------------------- MODULE SequenceFacts ---------------------------
(***************************************************************************)
(* Lemmas about sequences and natural numbers that the proofs of several   *)
(* components rest on.                                                     *)
(***************************************************************************)
EXTENDS Naturals, SequenceTheorems, WellFoundedInduction, TLAPS

\* A set of natural numbers has a least one.  With the set of counterexamples
\* in its place this is induction.
LEMMA LeastNatural ==
  ASSUME NEW T, T \subseteq Nat, T # {}
  PROVE  \E x \in T : \A y \in T : x <= y
<1> DEFINE R == {p \in Nat \X Nat : p[1] < p[2]}
<1>1. IsWellFoundedOn(R, Nat)
  BY NatLessThanWellFounded DEF OpToRel
<1>2. PICK x \in T : \A y \in T : <<y, x>> \notin R
  BY <1>1, WFMin
<1>3. ASSUME NEW y \in T PROVE x <= y
  <2>1. ~(<<y, x>>[1] < <<y, x>>[2])
    BY <1>2 DEF R
  <2> QED
    BY <2>1
<1> QED
  BY <1>3

\* What FlattenSeq and Concatenation make of s, in the modules and instances that
\* have them.
AllOf(s) ==
  IF Len(s) = 0 THEN s
  ELSE LET flatten[k \in 1..Len(s)] == IF k = 1 THEN s[k] ELSE flatten[k - 1] \o s[k]
       IN flatten[Len(s)]

\* It appends one sequence after the other: there are partial results, from none
\* to all.
LEMMA Appended ==
  ASSUME NEW S, NEW s \in Seq(Seq(S))
  PROVE  \E g \in [0..Len(s) -> Seq(S)] :
           /\ g[0] = << >> /\ g[Len(s)] = AllOf(s)
           /\ \A k \in 1..Len(s) : g[k] = g[k - 1] \o s[k]
<1> DEFINE Step(f, n) == f = [k \in 1..n |-> IF k = 1 THEN s[k] ELSE f[k - 1] \o s[k]]
           Defined(n) == \E f : Step(f, n)
           T == {n \in 1..Len(s) : ~Defined(n)}
<1>0. Len(s) \in Nat /\ \A k \in 1..Len(s) : s[k] \in Seq(S)
  OBVIOUS
<1>a. Defined(1)
  <2> DEFINE f == [k \in 1..1 |-> s[k]]
  <2>1. Step(f, 1)
    OBVIOUS
  <2> QED
    BY <2>1, Zenon
<1>b. ASSUME NEW n \in Nat, n > 1, Defined(n - 1) PROVE Defined(n)
  <2>1. PICK f : Step(f, n - 1)
    BY <1>b
  <2> DEFINE h == [k \in 1..n |-> IF k < n THEN f[k] ELSE f[n - 1] \o s[n]]
  <2>2. ASSUME NEW k \in 1..n PROVE h[k] = IF k = 1 THEN s[k] ELSE h[k - 1] \o s[k]
    <3>1. CASE k < n
      <4>1. k \in 1..(n - 1) /\ h[k] = f[k] /\ (k # 1 => h[k - 1] = f[k - 1])
        BY <3>1
      <4>2. f[k] = IF k = 1 THEN s[k] ELSE f[k - 1] \o s[k]
        BY <2>1, <4>1
      <4> QED
        BY <4>1, <4>2
    <3>2. CASE k = n
      BY <3>2, <1>b
    <3> QED
      BY <3>1, <3>2
  <2>3. Step(h, n)
    BY <2>2
  <2> QED
    BY <2>3, Zenon
<1> HIDE DEF Defined
<1>1. \A n \in 1..Len(s) : Defined(n)
  <2> SUFFICES ASSUME T # {} PROVE FALSE
    OBVIOUS
  <2>0. T \subseteq Nat
    BY <1>0
  <2> HIDE DEF T
  <2>1. PICK n \in T : \A m \in T : n <= m
    BY <2>0, LeastNatural
  <2> USE DEF T
  <2>2. n \in 1..Len(s) /\ n \in Nat /\ n > 1
    BY <1>0, <1>a, <2>1
  <2>3. n - 1 \in 1..Len(s) /\ n - 1 \notin T
    BY <1>0, <2>1, <2>2
  <2>4. Defined(n - 1)
    BY <2>3
  <2> QED
    BY <1>b, <2>1, <2>2, <2>4
<1>2. CASE Len(s) = 0
  <2>1. s = << >>
    BY <1>2
  <2> DEFINE g == [k \in 0..0 |-> << >>]
  <2>2. g \in [0..Len(s) -> Seq(S)] /\ g[0] = << >> /\ g[Len(s)] = AllOf(s)
    BY <1>2, <2>1 DEF AllOf
  <2>3. \A k \in 1..Len(s) : g[k] = g[k - 1] \o s[k]
    BY <1>2
  <2> HIDE DEF g
  <2> QED
    BY <2>2, <2>3
<1>3. CASE Len(s) # 0
  <2> DEFINE f == CHOOSE f : Step(f, Len(s))
  <2>0. Len(s) \in 1..Len(s)
    BY <1>0, <1>3
  <2>1. \E a : Step(a, Len(s))
    BY <2>0, <1>1 DEF Defined
  <2> HIDE DEF Step
  <2>2. Step(f, Len(s))
    BY <2>1, Zenon
  <2>3. AllOf(s) = f[Len(s)]
    BY <1>3 DEF AllOf, Step
  <2> HIDE DEF f
  <2> DEFINE g == [k \in 0..Len(s) |-> IF k = 0 THEN << >> ELSE f[k]]
  <2>4. g[0] = << >> /\ g[Len(s)] = AllOf(s)
    BY <1>0, <1>3, <2>3
  <2>5. \A k \in 1..Len(s) : g[k] = g[k - 1] \o s[k]
    <3> SUFFICES ASSUME NEW k \in 1..Len(s) PROVE g[k] = g[k - 1] \o s[k]
      OBVIOUS
    <3>0. k # 0 /\ k \in 0..Len(s)
      BY <1>0
    <3>4. f[k] = IF k = 1 THEN s[k] ELSE f[k - 1] \o s[k]
      BY <2>2 DEF Step
    <3>1. g[k] = IF k = 1 THEN s[k] ELSE f[k - 1] \o s[k]
      BY <3>0, <3>4
    <3>2. k = 1 => g[k - 1] \o s[k] = s[k]
      BY <1>0, ConcatEmptySeq
    <3>3. k # 1 => g[k - 1] = f[k - 1]
      BY <1>0
    <3> QED
      BY <3>1, <3>2, <3>3
  <2>6. g \in [0..Len(s) -> Seq(S)]
    <3> DEFINE U == {n \in Nat : n \in 0..Len(s) /\ g[n] \notin Seq(S)}
    <3> HIDE DEF g
    <3>1. U = {}
      <4> SUFFICES ASSUME U # {} PROVE FALSE
        OBVIOUS
      <4>1. PICK n \in U : \A m \in U : n <= m
        BY LeastNatural
      <4>2. n # 0
        BY <2>4, <4>1, EmptySeq
      <4>3. g[n - 1] \in Seq(S) /\ n \in 1..Len(s)
        BY <1>0, <4>1, <4>2
      <4>4. g[n] = g[n - 1] \o s[n] /\ s[n] \in Seq(S)
        BY <1>0, <2>5, <4>3
      <4>5. g[n] \in Seq(S)
        BY <4>3, <4>4, ConcatProperties
      <4> QED
        BY <4>1, <4>5
    <3>2. \A n \in 0..Len(s) : g[n] \in Seq(S)
      BY <1>0, <3>1
    <3> QED
      BY <3>2 DEF g
  <2> QED
    BY <2>4, <2>5, <2>6
<1> QED
  BY <1>2, <1>3

\* A function on 1..n is a sequence.
LEMMA FunctionIsSeq ==
  ASSUME NEW S, NEW n \in Nat, NEW f \in [1..n -> S]
  PROVE  f \in Seq(S) /\ Len(f) = n
  BY SeqDef

\* Sequences of one and two elements under the operators of a stack.
LEMMA Pairs ==
  ASSUME NEW a, NEW b
  PROVE  /\ Len(<<a>>) = 1 /\ Len(<<a, b>>) = 2
         /\ <<a>>[1] = a /\ <<a, b>>[1] = a /\ <<a, b>>[2] = b
         /\ Append(<<a>>, b) = <<a, b>> /\ Append(<< >>, b) = <<b>>
         /\ <<a>> \o <<b>> = <<a, b>>
         /\ <<a>> \o << >> = <<a>> /\ << >> \o <<b>> = <<b>> /\ << >> \o << >> = << >>
         /\ SubSeq(<<a, b>>, 1, 1) = <<a>>
         /\ SubSeq(<<a>>, 1, 0) = << >>
<1> DEFINE S == {a, b}
<1>1. /\ <<a>> \in Seq(S) /\ <<b>> \in Seq(S) /\ <<a, b>> \in Seq(S) /\ << >> \in Seq(S)
      /\ a \in S /\ b \in S
  OBVIOUS
<1>2. /\ Len(<<a>>) = 1 /\ Len(<<a, b>>) = 2
      /\ <<a>>[1] = a /\ <<a, b>>[1] = a /\ <<a, b>>[2] = b
  OBVIOUS
<1> HIDE DEF S
<1>3. Append(<<a>>, b) = <<a, b>>
  <2> DEFINE t == Append(<<a>>, b)
             u == <<a, b>>
  <2>1. t \in Seq(S) /\ Len(t) = 2 /\ t[1] = a /\ t[2] = b
    BY <1>1, <1>2, AppendProperties
  <2>2. u \in Seq(S) /\ Len(u) = 2 /\ u[1] = a /\ u[2] = b
    BY <1>1, <1>2
  <2> HIDE DEF t, u
  <2>3. t = u
    BY <2>1, <2>2, SeqEqual
  <2> QED
    BY <2>3 DEF t, u
<1>4. Append(<< >>, b) = <<b>>
  OBVIOUS
<1>5. <<a>> \o <<b>> = <<a, b>>
  BY <1>1, <1>3, AppendIsConcat
<1>6. <<a>> \o << >> = <<a>> /\ << >> \o <<b>> = <<b>> /\ << >> \o << >> = << >>
  BY <1>1, ConcatEmptySeq
<1>7. SubSeq(<<a, b>>, 1, 1) = <<a>>
  <2> DEFINE t == SubSeq(<<a, b>>, 1, 1)
             u == <<a>>
  <2>1. \A i \in 1..1 : <<a, b>>[i] \in S
    BY <1>1, <1>2
  <2>2. t \in Seq(S) /\ Len(t) = 1 /\ t[1] = a
    BY <2>1, <1>2, SubSeqProperties
  <2>3. u \in Seq(S) /\ Len(u) = 1 /\ u[1] = a
    BY <1>1, <1>2
  <2> HIDE DEF t, u
  <2>4. t = u
    BY <2>2, <2>3, SeqEqual
  <2> QED
    BY <2>4 DEF t, u
<1>8. SubSeq(<<a>>, 1, 0) = << >>
  BY SubSeqEmpty
<1> QED
  BY <1>2, <1>3, <1>4, <1>5, <1>6, <1>7, <1>8

\* Push and pop on a stack of one or two.
LEMMA PushSecond == ASSUME NEW a, NEW b PROVE Append(<<a>>, b) = <<a, b>>
  BY Pairs

LEMMA PopSecond ==
  ASSUME NEW a, NEW b
  PROVE  SubSeq(<<a, b>>, 1, Len(<<a, b>>) - 1) = <<a>>
<1>1. Len(<<a, b>>) - 1 = 1
  BY Pairs
<1> QED
  BY <1>1, Pairs

LEMMA PopOnly == ASSUME NEW a PROVE SubSeq(<<a>>, 1, Len(<<a>>) - 1) = << >>
<1>1. Len(<<a>>) - 1 = 0
  OBVIOUS
<1> QED
  BY <1>1, Pairs

\* The second element of a stack of two changes, the first one stays.
LEMMA ChangeSecond ==
  ASSUME NEW a, NEW b, NEW c
  PROVE  [<<a, b>> EXCEPT ![2] = c] = <<a, c>>
  OBVIOUS

\* The three things the code's loops do to a stack of activations: the top one
\* changes, one is pushed, the top one is popped.
LEMMA ChangeTop ==
  ASSUME NEW F, NEW s \in Seq(F), s # << >>, NEW f \in F
  PROVE  LET t == [s EXCEPT ![Len(s)] = f]
         IN  /\ t \in Seq(F) /\ Len(t) = Len(s) /\ Len(s) \in Nat \ {0}
             /\ t[Len(s)] = f
             /\ \A i \in 1..(Len(s) - 1) : t[i] = s[i]
<1>1. Len(s) \in Nat \ {0} /\ Len(s) \in 1..Len(s)
  BY EmptySeq
<1> QED
  BY <1>1, ExceptSeq

LEMMA PushTop ==
  ASSUME NEW F, NEW s \in Seq(F), NEW f \in F
  PROVE  LET t == Append(s, f)
         IN  /\ t \in Seq(F) /\ Len(t) = Len(s) + 1 /\ Len(s) \in Nat
             /\ t[Len(s) + 1] = f
             /\ \A i \in 1..Len(s) : t[i] = s[i]
  BY AppendProperties

LEMMA PopTop ==
  ASSUME NEW F, NEW s \in Seq(F), s # << >>
  PROVE  LET t == SubSeq(s, 1, Len(s) - 1)
         IN  /\ t \in Seq(F) /\ Len(t) = Len(s) - 1 /\ Len(s) \in Nat \ {0}
             /\ \A i \in 1..(Len(s) - 1) : t[i] = s[i]
<1> DEFINE n == Len(s) - 1
           t == SubSeq(s, 1, n)
<1>1. Len(s) \in Nat \ {0}
  BY EmptySeq
<1>2. n \in Nat /\ n <= Len(s)
  BY <1>1
<1>3. \A i \in 1..n : s[i] \in F
  BY <1>1, ElementOfSeq
<1>4. t \in Seq(F) /\ Len(t) = n /\ \A i \in 1..n : t[i] = s[i]
  <2> HIDE DEF n
  <2> QED
    BY <1>1, <1>2, <1>3, SubSeqProperties
<1> QED
  BY <1>1, <1>4
=============================================================================
