------------------------- MODULE CommandLineProofs -------------------------
(***************************************************************************)
(* Proofs about CommandLine: what the constructor of Application has read  *)
(* after each turn of its loop, for any command line.                      *)
(***************************************************************************)
EXTENDS CommandLine, SequenceFacts

Applications == [global : Text, classname : Text, lt : Text, todir : Text, filename : Text,
                 nsmap : SUBSET (Text \X Text)]

\* The global namespace is none or a value of -namespace.
GlobalTaken ==
  app.global # Blank =>
    \E k \in 1..(Len(args) - 1) : args[k] = <<"-namespace">> /\ app.global = args[k + 1]

\* The loop is at most right behind the last argument, and every field is a
\* text.
IInv ==
  /\ args = ArgvOf(line) /\ args \in Seq(Text)
  /\ line \in Lines
  /\ i \in 1..(Len(args) + 1)
  /\ app \in Applications
  /\ phase \in {"loop", "done", "usage"}
  /\ GlobalTaken

-----------------------------------------------------------------------------
\* FlattenSeq appends one sequence after the other.
LEMMA Flattened ==
  ASSUME NEW S, NEW s \in Seq(Seq(S))
  PROVE  \E g \in [0..Len(s) -> Seq(S)] :
           /\ g[0] = << >> /\ g[Len(s)] = FlattenSeq(s)
           /\ \A k \in 1..Len(s) : g[k] = g[k - 1] \o s[k]
<1>1. AllOf(s) = FlattenSeq(s)
  BY DEF AllOf, FlattenSeq
<1> QED
  BY <1>1, Appended

LEMMA NamesAreStrings ==
  WellFormed => "vector" \in STRING /\ "." \in STRING /\ \A x \in Options : x \in STRING
  BY Zenon DEF WellFormed

\* Every argument of a line is a text.
LEMMA ArgumentsType ==
  ASSUME WellFormed, NEW l \in Lines
  PROVE  [k \in DOMAIN l |-> Arguments(l[k])] \in Seq(Seq(Text))
<1> DEFINE E == [option : Options \cup {"file", "short"}, values : Seq(Text)]
<1>1. l \in Seq(E)
  BY DEF WellFormed
<1> HIDE DEF E
<1>2. Len(l) \in Nat /\ DOMAIN l = 1..Len(l) /\ \A k \in 1..Len(l) : l[k] \in E
  BY <1>1
<1> USE DEF E
<1>3. ASSUME NEW e \in E PROVE Arguments(e) \in Seq(Text)
  <2>1. e.values \in Seq(Text)
    OBVIOUS
  <2>2. CASE e.option \in {"file", "short"}
    BY <2>1, <2>2, ConcatEmptySeq DEF Arguments
  <2>3. CASE e.option \notin {"file", "short"}
    <3>0. e.option \in Options \cup {"file", "short"}
      OBVIOUS
    <3>1. e.option \in Options
      BY <2>3, <3>0
    <3>2. <<e.option>> \in Text
      BY <3>1, NamesAreStrings DEF Text
    <3>3. << <<e.option>> >> \in Seq(Text)
      BY <3>2
    <3>4. Arguments(e) = << <<e.option>> >> \o e.values
      BY <2>3 DEF Arguments
    <3> QED
      BY <2>1, <3>3, <3>4, ConcatProperties
  <2> QED
    BY <2>2, <2>3
<1> HIDE DEF E
<1>4. \A k \in 1..Len(l) : Arguments(l[k]) \in Seq(Text)
  BY <1>2, <1>3
<1>5. [k \in 1..Len(l) |-> Arguments(l[k])] \in Seq(Seq(Text))
  BY <1>2, <1>4, IsASeq
<1> QED
  BY <1>2, <1>5

LEMMA ArgvType == ASSUME WellFormed, NEW l \in Lines PROVE ArgvOf(l) \in Seq(Text)
<1> DEFINE s == [k \in DOMAIN l |-> Arguments(l[k])]
<1>1. s \in Seq(Seq(Text))
  BY ArgumentsType
<1> HIDE DEF s
<1>2. Len(s) \in 0..Len(s)
  BY <1>1
<1>3. FlattenSeq(s) \in Seq(Text)
  <2>1. PICK g \in [0..Len(s) -> Seq(Text)] : g[Len(s)] = FlattenSeq(s)
    BY <1>1, Flattened
  <2> QED
    BY <1>2, <2>1
<1> QED
  BY <1>3 DEF ArgvOf, s

\* A set of positions has a last one.
LEMMA LastPosition ==
  ASSUME NEW n \in Nat, NEW I, I \subseteq 1..n, I # {}
  PROVE  Max(I) \in I /\ \A k \in I : k <= Max(I)
<1> DEFINE T == {n - k : k \in I}
<1>0. \A k \in I : n - k \in Nat
  OBVIOUS
<1>1. T \subseteq Nat /\ T # {}
  BY <1>0
<1> HIDE DEF T
<1>2. PICK x \in T : \A y \in T : x <= y
  BY <1>1, LeastNatural
<1> USE DEF T
<1>3. PICK m \in I : x = n - m
  BY <1>2
<1>4. \A k \in I : m >= k
  <2> SUFFICES ASSUME NEW k \in I PROVE m >= k
    OBVIOUS
  <2>1. n - k \in T
    OBVIOUS
  <2>2. k \in Nat /\ m \in Nat
    OBVIOUS
  <2>3. n - m <= n - k
    BY <1>2, <1>3, <2>1
  <2> QED
    BY <2>2, <2>3
<1>5. Max(I) \in I /\ \A k \in I : Max(I) >= k
  BY <1>4 DEF Max
<1> QED
  BY <1>5

\* The class name is a text.
LEMMA NameType ==
  ASSUME WellFormed, NEW name \in Text
  PROVE  Identifier(name) \in Text /\ Stem(name) \in Text
<1>1. Len(name) \in Nat /\ DOMAIN name = 1..Len(name) /\ \A k \in 1..Len(name) : name[k] \in STRING
  BY DEF Text
<1>2. Identifier(name) \in Text
  <2> DEFINE underscore == "_"
             f == [k \in DOMAIN name |-> IF name[k] \in Special THEN underscore ELSE name[k]]
  <2>1. underscore \in STRING
    BY Zenon DEF WellFormed
  <2>2. Identifier(name) = f
    BY Zenon DEF Identifier
  <2> HIDE DEF underscore
  <2>3. f \in [1..Len(name) -> STRING]
    BY <1>1, <2>1
  <2> HIDE DEF f
  <2> QED
    BY <1>1, <2>2, <2>3, FunctionIsSeq DEF Text
<1>3. Stem(name) \in Text
  <2> DEFINE dot == SelectLastInSeq(name, LAMBDA c : c = ".")
             I == {k \in 1..Len(name) : name[k] = "."}
  <2>1. dot = IF I # {} THEN Max(I) ELSE 0
    BY Zenon DEF SelectLastInSeq
  <2>2. dot \in 0..Len(name)
    <3> HIDE DEF dot
    <3>1. I # {} => Max(I) \in I
      BY <1>1, LastPosition
    <3> QED
      BY <1>1, <2>1, <3>1
  <2> HIDE DEF dot, I
  <2>3. \A k \in 1..(dot - 1) : name[k] \in STRING
    BY <1>1, <2>2
  <2>4. SubSeq(name, 1, dot - 1) \in Text
    BY <1>1, <2>2, <2>3, SubSeqProperties DEF Text
  <2>5. << >> \in Text
    BY DEF Text
  <2>6. Stem(name) = IF dot = 0 THEN << >> ELSE SubSeq(name, 1, dot - 1)
    BY DEF Stem, dot, Blank
  <2> QED
    BY <2>4, <2>5, <2>6
<1> QED
  BY <1>2, <1>3

LEMMA InitIInv == WellFormed /\ Init => IInv
<1> SUFFICES ASSUME WellFormed, Init PROVE IInv
  OBVIOUS
<1>1. args \in Seq(Text)
  BY ArgvType DEF Init
<1>2. Defaults \in Applications /\ Defaults.global = Blank
  <2>1. <<"vector">> \in Text /\ <<".">> \in Text /\ << >> \in Text
    BY NamesAreStrings DEF Text
  <2> QED
    BY <2>1 DEF Defaults, Applications, Blank
<1> QED
  BY <1>1, <1>2 DEF Init, IInv, GlobalTaken

\* A turn reads at most as many values as are left.
LEMMA NextIInv == WellFormed /\ IInv /\ [Next]_vars => IInv'
<1> SUFFICES ASSUME WellFormed, IInv, [Next]_vars PROVE IInv'
  OBVIOUS
<1>0. /\ Len(args) \in Nat /\ DOMAIN args = 1..Len(args)
      /\ \A k \in 1..Len(args) : args[k] \in Text
  BY DEF IInv
<1>1. ASSUME NEW x \in DOMAIN Field, TakeOption(x) PROVE IInv'
  <2>1. i \in 1..Len(args) /\ i + 1 \in 1..Len(args) /\ args[i] = <<x>>
    BY <1>0, <1>1 DEF TakeOption, IInv, Arg
  <2>2. args[i + 1] \in Text /\ Arg(i + 1) = args[i + 1]
    BY <1>0, <2>1 DEF Arg
  <2>3. app' = [app EXCEPT ![Field[x]] = args[i + 1]]
    BY <1>1, <2>2 DEF TakeOption
  <2>4. app' \in Applications
    <3>1. Field[x] \in {"global", "classname", "lt", "todir"}
      BY DEF Field
    <3> QED
      BY <2>2, <2>3, <3>1 DEF IInv, Applications
  <2>5. app'.global = app.global \/ (x = "-namespace" /\ app'.global = args[i + 1])
    <3>1. x # "-namespace" => Field[x] \in {"classname", "lt", "todir"}
      BY DEF Field
    <3>2. Field[x] # "global" => app'.global = app.global
      BY <2>3 DEF IInv, Applications
    <3>3. Field[x] = "global" => app'.global = args[i + 1]
      BY <2>3 DEF IInv, Applications
    <3> QED
      BY <3>1, <3>2, <3>3
  <2>6. UNCHANGED <<line, args, phase>> /\ i' = i + 2
    BY <1>1 DEF TakeOption
  <2>7. GlobalTaken'
    BY <1>0, <2>1, <2>5, <2>6 DEF IInv, GlobalTaken
  <2> QED
    BY <1>0, <2>1, <2>4, <2>6, <2>7 DEF IInv
<1>2. CASE TakeNs
  <2>1. i + 1 \in 1..Len(args) /\ i + 2 \in 1..Len(args)
    BY <1>0, <1>2 DEF TakeNs, IInv
  <2>2. Arg(i + 1) \in Text /\ Arg(i + 2) \in Text
    BY <1>0, <2>1 DEF Arg
  <2>3. Mapped(app.nsmap, Arg(i + 1), Arg(i + 2)) \in SUBSET (Text \X Text)
    BY <2>2 DEF Mapped, IInv, Applications
  <2>4. app' \in Applications /\ app'.global = app.global
    BY <1>2, <2>3 DEF TakeNs, IInv, Applications
  <2>5. GlobalTaken'
    BY <1>2, <2>4 DEF TakeNs, IInv, GlobalTaken
  <2> QED
    BY <1>0, <1>2, <2>1, <2>4, <2>5 DEF TakeNs, IInv
<1>3. CASE TakeFilename
  <2>1. i \in 1..Len(args) /\ Arg(i) \in Text
    BY <1>0, <1>3 DEF TakeFilename, IInv, Arg
  <2>2. app' \in Applications
    BY <1>3, <2>1 DEF TakeFilename, IInv, Applications
  <2>3. app'.global = app.global
    BY <1>3, <2>1 DEF TakeFilename, IInv, Applications
  <2>4. GlobalTaken'
    BY <1>3, <2>3 DEF TakeFilename, IInv, GlobalTaken
  <2> QED
    BY <1>0, <1>3, <2>1, <2>2, <2>4 DEF TakeFilename, IInv
<1>4. CASE NameClass
  <2>1. app' \in Applications /\ app'.global = app.global
    BY <1>4, NameType DEF NameClass, IInv, Applications
  <2> QED
    BY <1>4, <2>1 DEF NameClass, IInv, GlobalTaken
<1>5. CASE UNCHANGED vars
  BY <1>5 DEF vars, IInv, GlobalTaken
<1> QED
  BY <1>1, <1>2, <1>3, <1>4, <1>5 DEF Next

\* argv[argc] is never a value.
LEMMA NeverPastArgv ==
  WellFormed /\ IInv => ReadsWithinArgv /\ DOMAIN app = DOMAIN Defaults
<1> SUFFICES ASSUME WellFormed, IInv PROVE ReadsWithinArgv /\ DOMAIN app = DOMAIN Defaults
  OBVIOUS
<1>1. DOMAIN app = DOMAIN Defaults
  BY DEF IInv, Applications, Defaults
<1>2. \A f \in DOMAIN app \ {"nsmap"} : app[f] \in Text
  BY DEF IInv, Applications
<1>3. \A p \in app.nsmap : p[2] \in Text
  BY DEF IInv, Applications
<1>4. i <= Len(args) + 1
  BY DEF IInv
<1> QED
  BY <1>1, <1>2, <1>3, <1>4 DEF ReadsWithinArgv, WellFormed

-----------------------------------------------------------------------------
(* What a line means.                                                      *)

\* No option is short of values.
AllComplete == \A k \in DOMAIN line : line[k].option # "short"

\* g has the arguments of the first elements of the line.
Partial(g) ==
  /\ g \in [0..Len(line) -> Seq(Text)] /\ g[0] = << >> /\ g[Len(line)] = args
  /\ \A k \in 1..Len(line) : g[k] = g[k - 1] \o Arguments(line[k])

\* v is what the last of the first n elements with option x sets.
IsLast(x, n, default, v) ==
  \/ v = default /\ \A k \in 1..n : line[k].option # x
  \/ \E k \in 1..n : /\ line[k].option = x /\ v = line[k].values[1]
                     /\ \A j \in 1..n : j > k => line[j].option # x

\* Of the first n elements, the last -ns of each href.
PrefixesIn(n) ==
  {v \in {line[k].values : k \in 1..n} :
     \E k \in 1..n : line[k] = OptionAs("-ns", v)
       /\ \A j \in 1..n : j > k /\ line[j].option = "-ns" => line[j].values[1] # v[1]}

\* The first n elements have been read.
HasRead(n) ==
  /\ \A x \in DOMAIN Field : IsLast(x, n, Defaults[Field[x]], app[Field[x]])
  /\ IsLast("file", n, Blank, app.filename)
  /\ app.nsmap = PrefixesIn(n)

\* The loop is at the first argument of an element, and has read those before.
Meant ==
  phase = "loop" /\ AllComplete =>
    \E g : Partial(g) /\ \E n \in 0..Len(line) : i = Len(g[n]) + 1 /\ HasRead(n)

-----------------------------------------------------------------------------
LEMMA LineTypes ==
  ASSUME WellFormed, line \in Lines
  PROVE  /\ Len(line) \in Nat /\ DOMAIN line = 1..Len(line)
         /\ \A k \in 1..Len(line) : /\ DOMAIN line[k] = {"option", "values"}
                                    /\ line[k].values \in Seq(Text)
                                    /\ line[k] = OptionAs(line[k].option, line[k].values)
         /\ AllComplete => \A k \in 1..Len(line) : Complete(line[k])
<1> DEFINE E == [option : Options \cup {"file", "short"}, values : Seq(Text)]
<1>1. line \in Seq(E)
  BY DEF WellFormed
<1>2. \A e \in E : DOMAIN e = {"option", "values"} /\ e.values \in Seq(Text)
                   /\ e = OptionAs(e.option, e.values)
  BY DEF OptionAs
<1> HIDE DEF E
<1>3. Len(line) \in Nat /\ DOMAIN line = 1..Len(line) /\ \A k \in 1..Len(line) : line[k] \in E
  BY <1>1
<1>4. AllComplete => \A k \in 1..Len(line) : Complete(line[k])
  BY <1>3, Zenon DEF AllComplete, WellFormed
<1> QED
  BY <1>2, <1>3, <1>4

\* What stands in args of the first elements, and of the next one.
LEMMA PartialIsPrefix ==
  ASSUME Len(line) \in Nat, args \in Seq(Text), NEW g, Partial(g),
         \A k \in 1..Len(line) : Arguments(line[k]) \in Seq(Text)
  PROVE  \A n \in 0..Len(line) : /\ Len(g[n]) <= Len(args)
                                 /\ \A q \in 1..Len(g[n]) : args[q] = g[n][q]
<1> DEFINE Begins(n) == /\ Len(g[n]) <= Len(args)
                        /\ \A q \in 1..Len(g[n]) : args[q] = g[n][q]
           Bad == {m \in Nat : m \in 0..Len(line) /\ ~Begins(Len(line) - m)}
<1>1. \A n \in 0..Len(line) : g[n] \in Seq(Text)
  BY DEF Partial
<1>2. Begins(Len(line))
  BY <1>1 DEF Partial
<1>3. ASSUME NEW n \in 1..Len(line), Begins(n) PROVE Begins(n - 1)
  <2>1. PICK a : a = Arguments(line[n]) /\ a \in Seq(Text)
    OBVIOUS
  <2>2. g[n] = g[n - 1] \o a
    BY <2>1 DEF Partial
  <2>6. n - 1 \in 0..Len(line)
    OBVIOUS
  <2>3. PICK b : b = g[n - 1] /\ b \in Seq(Text)
    BY <1>1, <2>6
  <2>4. Len(g[n]) = Len(b) + Len(a) /\ \A q \in 1..Len(b) : g[n][q] = b[q]
    <3>1. g[n] = b \o a
      BY <2>2, <2>3
    <3>2. Len(b \o a) = Len(b) + Len(a)
      BY <2>1, <2>3, ConcatProperties
    <3>3. \A q \in 1..Len(b) : (b \o a)[q] = b[q]
      <4> SUFFICES ASSUME NEW q \in 1..Len(b) PROVE (b \o a)[q] = b[q]
        OBVIOUS
      <4>1. Len(b) \in Nat /\ Len(a) \in Nat
        BY <2>1, <2>3
      <4>2. q \in 1..(Len(b) + Len(a)) /\ q <= Len(b)
        BY <4>1
      <4> QED
        BY <2>1, <2>3, <4>2, ConcatProperties
    <3> QED
      BY <3>1, <3>2, <3>3
  <2>5. Len(b) \in Nat /\ Len(a) \in Nat /\ Len(args) \in Nat
    BY <2>1, <2>3
  <2> QED
    BY <1>3, <2>3, <2>4, <2>5
<1> HIDE DEF Begins
<1>4. Bad = {}
  <2> SUFFICES ASSUME Bad # {} PROVE FALSE
    BY Zenon
  <2>0. Bad \subseteq Nat
    OBVIOUS
  <2> HIDE DEF Bad
  <2>1. PICK m \in Bad : \A k \in Bad : m <= k
    BY <2>0, LeastNatural
  <2> USE DEF Bad
  <2>2. m \in 0..Len(line) /\ ~Begins(Len(line) - m) /\ m \in Nat
    BY <2>1
  <2>3. m # 0
    BY <1>2, <2>2
  <2>4. m - 1 \in Nat /\ m - 1 \in 0..Len(line) /\ m - 1 \notin Bad
    <3>1. m - 1 \in Nat /\ m - 1 \in 0..Len(line)
      BY <2>2, <2>3
    <3>2. ~(m <= m - 1)
      BY <2>2
    <3> HIDE DEF Bad
    <3> QED
      BY <2>1, <3>1, <3>2
  <2>5. PICK n \in 1..Len(line) : n = Len(line) - (m - 1) /\ n - 1 = Len(line) - m
    <3>1. m \in 1..Len(line) /\ Len(line) \in Nat
      BY <2>2, <2>3
    <3> HIDE DEF Bad
    <3>2. Len(line) - (m - 1) \in 1..Len(line) /\ (Len(line) - (m - 1)) - 1 = Len(line) - m
      BY <3>1
    <3> QED
      BY <3>2
  <2>6. Begins(n)
    BY <2>4, <2>5
  <2> QED
    BY <1>3, <2>2, <2>5, <2>6
<1>5. \A n \in 0..Len(line) : Begins(n)
  <2> SUFFICES ASSUME NEW n \in 0..Len(line) PROVE Begins(n)
    OBVIOUS
  <2>1. PICK m \in Nat : m = Len(line) - n
    OBVIOUS
  <2>2. n = Len(line) - m /\ m \in 0..Len(line)
    BY <2>1
  <2> QED
    BY <1>4, <2>1, <2>2
<1> QED
  BY <1>5 DEF Begins

\* The arguments of the next element are the next arguments.
LEMMA NextArguments ==
  ASSUME Len(line) \in Nat, args \in Seq(Text), NEW g, Partial(g),
         \A k \in 1..Len(line) : Arguments(line[k]) \in Seq(Text),
         NEW n \in 0..Len(line), n < Len(line)
  PROVE  LET a == Arguments(line[n + 1]) IN
         /\ Len(g[n + 1]) = Len(g[n]) + Len(a) /\ Len(g[n]) + Len(a) <= Len(args)
         /\ \A q \in 1..Len(a) : args[Len(g[n]) + q] = a[q]
         /\ Len(g[n]) \in Nat
<1>1. n + 1 \in 1..Len(line) /\ n + 1 \in 0..Len(line) /\ (n + 1) - 1 = n
  OBVIOUS
<1>2. PICK a : a = Arguments(line[n + 1]) /\ a \in Seq(Text)
  BY <1>1
<1>3. PICK b : b = g[n] /\ b \in Seq(Text)
  BY DEF Partial
<1>4. g[n + 1] = b \o a
  BY <1>1, <1>2, <1>3 DEF Partial
<1>5. /\ Len(g[n + 1]) = Len(b) + Len(a)
      /\ \A q \in 1..(Len(b) + Len(a)) : g[n + 1][q] = IF q <= Len(b) THEN b[q] ELSE a[q - Len(b)]
  <2>1. Len(b \o a) = Len(b) + Len(a)
    BY <1>2, <1>3, ConcatProperties
  <2>2. \A q \in 1..(Len(b) + Len(a)) : (b \o a)[q] = IF q <= Len(b) THEN b[q] ELSE a[q - Len(b)]
    BY <1>2, <1>3
  <2> QED
    BY <1>4, <2>1, <2>2
<1>6. Len(g[n + 1]) <= Len(args) /\ \A q \in 1..Len(g[n + 1]) : args[q] = g[n + 1][q]
  BY <1>1, PartialIsPrefix
<1>7. Len(a) \in Nat /\ Len(b) \in Nat
  BY <1>2, <1>3
<1>8. ASSUME NEW q \in 1..Len(a) PROVE args[Len(b) + q] = a[q]
  <2>1. Len(b) + q \in 1..(Len(b) + Len(a)) /\ ~(Len(b) + q <= Len(b)) /\ (Len(b) + q) - Len(b) = q
    BY <1>7
  <2> QED
    BY <1>5, <1>6, <2>1
<1> QED
  BY <1>2, <1>3, <1>5, <1>6, <1>7, <1>8

\* An element more is read.
LEMMA LastGrows ==
  ASSUME NEW n \in Nat, NEW x, NEW default, NEW v, IsLast(x, n, default, v)
  PROVE  /\ line[n + 1].option # x => IsLast(x, n + 1, default, v)
         /\ line[n + 1].option = x => IsLast(x, n + 1, default, line[n + 1].values[1])
<1>1. \A k \in 1..(n + 1) : k = n + 1 \/ k \in 1..n
  OBVIOUS
<1>2. n + 1 \in 1..(n + 1) /\ \A k \in 1..n : k \in 1..(n + 1)
  OBVIOUS
<1>3. ASSUME line[n + 1].option # x PROVE IsLast(x, n + 1, default, v)
  <2>1. CASE v = default /\ \A k \in 1..n : line[k].option # x
    BY <1>1, <1>3, <2>1 DEF IsLast
  <2>2. CASE \E k \in 1..n : /\ line[k].option = x /\ v = line[k].values[1]
                             /\ \A j \in 1..n : j > k => line[j].option # x
    BY <1>1, <1>2, <1>3, <2>2 DEF IsLast
  <2> QED
    BY <2>1, <2>2 DEF IsLast
<1>4. ASSUME line[n + 1].option = x PROVE IsLast(x, n + 1, default, line[n + 1].values[1])
  <2>1. \A j \in 1..(n + 1) : ~(j > n + 1)
    OBVIOUS
  <2> QED
    BY <1>2, <1>4, <2>1 DEF IsLast
<1> QED
  BY <1>3, <1>4

\* When all is read, it is the last value.
LEMMA LastIs ==
  ASSUME Len(line) \in Nat, DOMAIN line = 1..Len(line), NEW x, NEW default, NEW v,
         IsLast(x, Len(line), default, v)
  PROVE  LastValue(x, default) = v
<1> DEFINE I == {k \in 1..Len(line) : line[k].option = x}
           last == SelectLastInSeq(line, LAMBDA e : e.option = x)
<1>1. last = IF I # {} THEN Max(I) ELSE 0
  BY Zenon DEF SelectLastInSeq
<1>2. LastValue(x, default) = IF last = 0 THEN default ELSE line[last].values[1]
  BY DEF LastValue
<1> HIDE DEF last
<1>3. CASE v = default /\ \A k \in 1..Len(line) : line[k].option # x
  BY <1>1, <1>2, <1>3
<1>4. CASE \E k \in 1..Len(line) : /\ line[k].option = x /\ v = line[k].values[1]
                                   /\ \A j \in 1..Len(line) : j > k => line[j].option # x
  <2>1. PICK k \in 1..Len(line) : /\ line[k].option = x /\ v = line[k].values[1]
                                  /\ \A j \in 1..Len(line) : j > k => line[j].option # x
    BY <1>4
  <2>2. I # {} /\ I \subseteq 1..Len(line) /\ k \in I
    BY <2>1
  <2>3. \A j \in I : ~(j > k)
    BY <2>1
  <2> HIDE DEF I
  <2>4. Max(I) \in I /\ k <= Max(I)
    BY <2>2, LastPosition
  <2>5. Max(I) = k
    <3>1. Max(I) \in 1..Len(line) /\ ~(Max(I) > k)
      BY <2>2, <2>3, <2>4
    <3>2. PICK m \in 1..Len(line) : m = Max(I)
      BY <3>1
    <3> QED
      BY <2>4, <3>1, <3>2
  <2> QED
    BY <1>1, <1>2, <2>1, <2>2, <2>5
<1> QED
  BY <1>3, <1>4 DEF IsLast


\* The arguments of an element that is not short of values.
LEMMA CompleteArguments ==
  ASSUME WellFormed, NEW e, e.values \in Seq(Text), Complete(e)
  PROVE  LET a == Arguments(e) IN
         /\ \A x \in DOMAIN Field : e.option = x =>
              Len(a) = 2 /\ a[1] = <<x>> /\ a[2] = e.values[1]
         /\ e.option = "-ns" =>
              /\ Len(a) = 3 /\ a[1] = <<"-ns">> /\ a[2] = e.values[1] /\ a[3] = e.values[2]
              /\ e.values = <<e.values[1], e.values[2]>>
         /\ e.option = "file" =>
              Len(a) = 1 /\ a[1] = e.values[1] /\ \A x \in Options : a[1] # <<x>>
<1>1. ASSUME e.option \in Options
      PROVE  /\ Len(Arguments(e)) = 1 + Len(e.values) /\ Arguments(e)[1] = <<e.option>>
             /\ \A q \in 1..Len(e.values) : Arguments(e)[q + 1] = e.values[q]
  <2>1. PICK b : b = << <<e.option>> >> /\ b \in Seq(Text) /\ Len(b) = 1 /\ b[1] = <<e.option>>
    <3>1. <<e.option>> \in Text
      BY <1>1, NamesAreStrings DEF Text
    <3>2. PICK t \in Text : t = <<e.option>>
      BY <3>1
    <3>3. <<t>> \in Seq(Text) /\ Len(<<t>>) = 1 /\ <<t>>[1] = t
      OBVIOUS
    <3> QED
      BY <3>2, <3>3
  <2>2. Arguments(e) = b \o e.values
    BY <1>1, <2>1 DEF Arguments, Options, Field
  <2>3. /\ Len(b \o e.values) = 1 + Len(e.values)
        /\ \A q \in 1..(1 + Len(e.values)) : (b \o e.values)[q] = IF q <= 1 THEN b[q] ELSE e.values[q - 1]
    BY <2>1, ConcatProperties
  <2>4. Len(e.values) \in Nat
    OBVIOUS
  <2>5. \A q \in 1..Len(e.values) : q + 1 \in 1..(1 + Len(e.values)) /\ ~(q + 1 <= 1) /\ (q + 1) - 1 = q
    BY <2>4
  <2>6. 1 \in 1..(1 + Len(e.values))
    BY <2>4
  <2> QED
    BY <2>1, <2>2, <2>3, <2>5, <2>6
<1>2. ASSUME NEW x \in DOMAIN Field, e.option = x
      PROVE  Len(Arguments(e)) = 2 /\ Arguments(e)[1] = <<x>> /\ Arguments(e)[2] = e.values[1]
  <2>1. Len(e.values) = 1 /\ e.option \in Options
    BY <1>2 DEF Complete, Options, Field
  <2> QED
    BY <1>1, <1>2, <2>1
<1>3. ASSUME e.option = "-ns"
      PROVE  /\ Len(Arguments(e)) = 3 /\ Arguments(e)[1] = <<"-ns">>
             /\ Arguments(e)[2] = e.values[1] /\ Arguments(e)[3] = e.values[2]
             /\ e.values = <<e.values[1], e.values[2]>>
  <2>1. Len(e.values) = 2 /\ e.option \in Options
    BY <1>3 DEF Complete, Options, Field
  <2>2. e.values = <<e.values[1], e.values[2]>>
    BY <2>1
  <2> QED
    BY <1>1, <1>3, <2>1, <2>2
<1>4. ASSUME e.option = "file"
      PROVE  Len(Arguments(e)) = 1 /\ Arguments(e)[1] = e.values[1]
             /\ \A x \in Options : Arguments(e)[1] # <<x>>
  <2>1. Len(e.values) = 1 /\ \A x \in Options : e.values[1] # <<x>>
    BY <1>4 DEF Complete, Field
  <2>2. Arguments(e) = e.values
    BY <1>4, ConcatEmptySeq DEF Arguments
  <2> QED
    BY <2>1, <2>2
<1> QED
  BY <1>2, <1>3, <1>4

\* The map of prefixes after an element more.
LEMMA PrefixesGrow ==
  ASSUME NEW n \in Nat, \A k \in 1..(n + 1) : line[k] = OptionAs(line[k].option, line[k].values)
  PROVE  /\ line[n + 1].option # "-ns" => PrefixesIn(n + 1) = PrefixesIn(n)
         /\ \A h, p : line[n + 1] = OptionAs("-ns", <<h, p>>)
              => PrefixesIn(n + 1) = Mapped(PrefixesIn(n), h, p)
<1> DEFINE In(m, v) == \E k \in 1..m : line[k] = OptionAs("-ns", v)
             /\ \A j \in 1..m : j > k /\ line[j].option = "-ns" => line[j].values[1] # v[1]
<1>1. \A k, v : line[k] = OptionAs("-ns", v) => line[k].values = v /\ line[k].option = "-ns"
  BY DEF OptionAs
<1>2. \A m, v : v \in PrefixesIn(m) <=> In(m, v)
  BY <1>1 DEF PrefixesIn
<1>3. \A k \in 1..(n + 1) : k = n + 1 \/ k \in 1..n
  OBVIOUS
<1>4. /\ n + 1 \in 1..(n + 1) /\ \A k \in 1..n : k \in 1..(n + 1) /\ n + 1 > k
      /\ \A k \in 1..(n + 1) : ~(k > n + 1)
  OBVIOUS
<1>5. ASSUME line[n + 1].option # "-ns", NEW v PROVE In(n + 1, v) <=> In(n, v)
  <2>1. In(n + 1, v) => In(n, v)
    <3> SUFFICES ASSUME NEW k \in 1..(n + 1), line[k] = OptionAs("-ns", v),
                        \A j \in 1..(n + 1) : j > k /\ line[j].option = "-ns" => line[j].values[1] # v[1]
                 PROVE  In(n, v)
      OBVIOUS
    <3>1. k \in 1..n
      BY <1>1, <1>3, <1>5
    <3> QED
      BY <1>4, <3>1
  <2>2. In(n, v) => In(n + 1, v)
    BY <1>3, <1>4, <1>5
  <2> QED
    BY <2>1, <2>2
<1>6. ASSUME NEW h, NEW p, line[n + 1] = OptionAs("-ns", <<h, p>>), NEW v
      PROVE  In(n + 1, v) <=> (In(n, v) /\ v[1] # h) \/ v = <<h, p>>
  <2>0. line[n + 1].option = "-ns" /\ line[n + 1].values = <<h, p>> /\ line[n + 1].values[1] = h
    BY <1>6 DEF OptionAs
  <2>1. In(n + 1, v) => (In(n, v) /\ v[1] # h) \/ v = <<h, p>>
    <3> SUFFICES ASSUME NEW k \in 1..(n + 1), line[k] = OptionAs("-ns", v),
                        \A j \in 1..(n + 1) : j > k /\ line[j].option = "-ns" => line[j].values[1] # v[1]
                 PROVE  (In(n, v) /\ v[1] # h) \/ v = <<h, p>>
      OBVIOUS
    <3>1. CASE k = n + 1
      BY <1>1, <2>0, <3>1
    <3>2. CASE k \in 1..n
      <4>1. v[1] # h
        BY <1>4, <2>0, <3>2
      <4>2. In(n, v)
        BY <1>4, <3>2
      <4> QED
        BY <4>1, <4>2
    <3> QED
      BY <1>3, <3>1, <3>2
  <2>2. In(n, v) /\ v[1] # h => In(n + 1, v)
    BY <1>3, <1>4, <2>0
  <2>3. v = <<h, p>> => In(n + 1, v)
    BY <1>4, <1>6
  <2> QED
    BY <2>1, <2>2, <2>3
<1> HIDE DEF In
<1>7. line[n + 1].option # "-ns" => PrefixesIn(n + 1) = PrefixesIn(n)
  <2> SUFFICES ASSUME line[n + 1].option # "-ns" PROVE \A v : v \in PrefixesIn(n + 1) <=> v \in PrefixesIn(n)
    BY DEF PrefixesIn
  <2> QED
    BY <1>2, <1>5
<1>8. ASSUME NEW h, NEW p, line[n + 1] = OptionAs("-ns", <<h, p>>)
      PROVE  PrefixesIn(n + 1) = Mapped(PrefixesIn(n), h, p)
  <2>1. \A v : v \in PrefixesIn(n + 1) <=> v \in Mapped(PrefixesIn(n), h, p)
    BY <1>2, <1>6, <1>8 DEF Mapped
  <2> QED
    BY <2>1 DEF PrefixesIn, Mapped
<1> QED
  BY <1>7, <1>8

\* Where the loop stands, and what its next turn reads.
LEMMA AtElement ==
  ASSUME WellFormed, IInv, AllComplete, NEW g, Partial(g), NEW n \in 0..Len(line),
         i = Len(g[n]) + 1, i <= Len(args)
  PROVE  /\ n + 1 \in 1..Len(line) /\ n + 1 \in 0..Len(line)
         /\ Complete(line[n + 1]) /\ line[n + 1].values \in Seq(Text)
         /\ Len(g[n + 1]) + 1 = i + Len(Arguments(line[n + 1]))
         /\ i + Len(Arguments(line[n + 1])) <= Len(args) + 1
         /\ \A q \in 1..Len(Arguments(line[n + 1])) : Arg(i + q - 1) = Arguments(line[n + 1])[q]
<1>1. /\ Len(line) \in Nat /\ DOMAIN line = 1..Len(line)
      /\ \A k \in 1..Len(line) : Complete(line[k]) /\ line[k].values \in Seq(Text)
      /\ args \in Seq(Text)
  BY LineTypes DEF IInv
<1>2. \A k \in 1..Len(line) : Arguments(line[k]) \in Seq(Text)
  <2>1. [k \in DOMAIN line |-> Arguments(line[k])] \in Seq(Seq(Text))
    BY ArgumentsType DEF IInv
  <2>2. PICK s \in Seq(Seq(Text)) : s = [k \in DOMAIN line |-> Arguments(line[k])]
    BY <2>1
  <2>3. DOMAIN s = 1..Len(line) /\ \A k \in DOMAIN s : s[k] \in Seq(Text)
    BY <1>1, <2>2
  <2> QED
    BY <1>1, <2>2, <2>3
<1>3. Len(args) \in Nat /\ DOMAIN args = 1..Len(args) /\ Len(line) \in Nat
  BY <1>1
<1>4. n < Len(line)
  <2>1. n # Len(line)
    <3>1. g[Len(line)] = args
      BY DEF Partial
    <3> QED
      BY <1>3, <3>1
  <2> QED
    BY <1>3, <2>1
<1>5. n + 1 \in 1..Len(line) /\ n + 1 \in 0..Len(line)
  BY <1>3, <1>4
<1>6. PICK a, p : /\ a = Arguments(line[n + 1]) /\ p = Len(g[n]) /\ p \in Nat /\ Len(a) \in Nat
                  /\ Len(g[n + 1]) = p + Len(a) /\ p + Len(a) <= Len(args)
                  /\ \A q \in 1..Len(a) : args[p + q] = a[q]
  <2>1. PICK a \in Seq(Text) : a = Arguments(line[n + 1])
    BY <1>2, <1>5
  <2>2. Len(a) \in Nat
    BY <2>1
  <2>3. /\ Len(g[n + 1]) = Len(g[n]) + Len(a) /\ Len(g[n]) + Len(a) <= Len(args)
        /\ \A q \in 1..Len(a) : args[Len(g[n]) + q] = a[q]
        /\ Len(g[n]) \in Nat
    BY <1>1, <1>2, <1>4, <2>1, NextArguments
  <2> QED
    BY <2>1, <2>2, <2>3
<1>7. PICK l \in Nat : l = Len(a)
  BY <1>6
<1>8. PICK m \in Nat : m = Len(args) /\ DOMAIN args = 1..m
  BY <1>3
<1>9. i = p + 1 /\ p + l <= m /\ Len(g[n + 1]) = p + l
  BY <1>6, <1>7, <1>8
<1>10. ASSUME NEW q \in 1..l PROVE Arg(i + q - 1) = a[q]
  <2>1. i + q - 1 = p + q /\ p + q \in 1..m
    BY <1>6, <1>9
  <2> QED
    BY <1>6, <1>7, <1>8, <2>1 DEF Arg
<1>11. Complete(line[n + 1]) /\ line[n + 1].values \in Seq(Text)
  BY <1>1, <1>5
<1>12. Len(g[n + 1]) + 1 = i + l /\ i + l <= m + 1
  <2>1. p \in Nat
    BY <1>6
  <2>2. (p + l) + 1 = (p + 1) + l /\ (p + 1) + l <= m + 1
    BY <1>9, <2>1
  <2> QED
    BY <1>9, <2>2, Zenon
<1>13. l = Len(Arguments(line[n + 1])) /\ a = Arguments(line[n + 1])
  BY <1>6, <1>7
<1>14. i + l <= Len(args) + 1
  BY <1>8, <1>12
<1>15. \A q \in 1..Len(Arguments(line[n + 1])) : Arg(i + q - 1) = Arguments(line[n + 1])[q]
  BY <1>10, <1>13, Zenon
<1>16. Len(g[n + 1]) + 1 = i + Len(Arguments(line[n + 1]))
       /\ i + Len(Arguments(line[n + 1])) <= Len(args) + 1
  BY <1>12, <1>13, <1>14, Zenon
<1> QED
  BY <1>5, <1>11, <1>15, <1>16, Zenon

\* A turn reads the next element, as what it is.
LEMMA TurnReads ==
  ASSUME WellFormed, IInv, AllComplete, phase = "loop", Next, i <= Len(args),
         NEW g, Partial(g), NEW n \in 0..Len(line), i = Len(g[n]) + 1
  PROVE  LET e == line[n + 1] IN
         /\ UNCHANGED <<line, args, phase>>
         /\ i' = i + Len(Arguments(e))
         /\ \/ \E x \in DOMAIN Field : e.option = x /\ app' = [app EXCEPT ![Field[x]] = e.values[1]]
            \/ /\ e = OptionAs("-ns", <<e.values[1], e.values[2]>>)
               /\ app' = [app EXCEPT !.nsmap = Mapped(@, e.values[1], e.values[2])]
            \/ e.option = "file" /\ app' = [app EXCEPT !.filename = e.values[1]]
<1> DEFINE e == line[n + 1]
           a == Arguments(line[n + 1])
<1>1. /\ n + 1 \in 1..Len(line) /\ Complete(e) /\ e.values \in Seq(Text)
      /\ i + Len(a) <= Len(args) + 1
      /\ \A q \in 1..Len(a) : Arg(i + q - 1) = a[q]
  BY AtElement
<1>2. e = OptionAs(e.option, e.values)
  BY <1>1, LineTypes DEF IInv
<1>3. i \in Nat /\ Len(args) \in Nat
  BY DEF IInv
<1>4. /\ i + 1 - 1 = i /\ i + 2 - 1 = i + 1 /\ i + 3 - 1 = i + 2
      /\ 1 \in 1..1 /\ 1 \in 1..2 /\ 2 \in 1..2 /\ 1 \in 1..3 /\ 2 \in 1..3 /\ 3 \in 1..3
  BY <1>3
<1>5. ~NameClass
  BY <1>3 DEF NameClass
<1>6. "-ns" \notin DOMAIN Field /\ \A x, y : <<x>> = <<y>> => x = y
  BY DEF Field
<1> HIDE DEF e, a
<1>7. CASE \E x \in DOMAIN Field : e.option = x
  <2>1. PICK x \in DOMAIN Field : e.option = x
    BY <1>7
  <2>2. Len(a) = 2 /\ a[1] = <<x>> /\ a[2] = e.values[1]
    BY <1>1, <2>1, CompleteArguments DEF a, e
  <2>3. Arg(i) = <<x>> /\ Arg(i + 1) = e.values[1]
    BY <1>1, <1>4, <2>2
  <2>4. i + 2 <= Len(args) + 1
    BY <1>1, <2>2
  <2>5. i < Len(args) /\ i # Len(args)
    BY <1>3, <2>4
  <2>6. ~TakeNs /\ ~TakeFilename
    BY <1>6, <2>3, <2>5 DEF TakeNs, TakeFilename
  <2>7. PICK y \in DOMAIN Field : TakeOption(y)
    BY <1>5, <2>6 DEF Next
  <2>8. y = x
    BY <1>6, <2>3, <2>7 DEF TakeOption
  <2> QED
    BY <2>1, <2>2, <2>3, <2>7, <2>8 DEF TakeOption, e, a
<1>8. CASE e.option = "-ns"
  <2>1. /\ Len(a) = 3 /\ a[1] = <<"-ns">> /\ a[2] = e.values[1] /\ a[3] = e.values[2]
        /\ e.values = <<e.values[1], e.values[2]>>
    BY <1>1, <1>8, CompleteArguments DEF a, e
  <2>2. Arg(i) = <<"-ns">> /\ Arg(i + 1) = e.values[1] /\ Arg(i + 2) = e.values[2]
    BY <1>1, <1>4, <2>1
  <2>3. i + 3 <= Len(args) + 1
    BY <1>1, <2>1
  <2>4. ~(i + 1 >= Len(args))
    BY <1>3, <2>3
  <2>5. ~TakeFilename /\ ~(\E x \in DOMAIN Field : TakeOption(x))
    BY <1>6, <2>2, <2>4 DEF TakeFilename, TakeOption
  <2>6. TakeNs
    BY <1>5, <2>5 DEF Next
  <2>7. e = OptionAs("-ns", <<e.values[1], e.values[2]>>)
    BY <1>2, <1>8, <2>1
  <2> QED
    BY <2>1, <2>2, <2>6, <2>7 DEF TakeNs, e, a
<1>9. CASE e.option = "file"
  <2>1. Len(a) = 1 /\ a[1] = e.values[1] /\ \A x \in Options : a[1] # <<x>>
    BY <1>1, <1>9, CompleteArguments DEF a, e
  <2>2. Arg(i) = e.values[1] /\ \A x \in Options : Arg(i) # <<x>>
    BY <1>1, <1>4, <2>1
  <2>3. ~TakeNs /\ ~(\E x \in DOMAIN Field : TakeOption(x))
    BY <2>2 DEF TakeNs, TakeOption, Options
  <2>4. TakeFilename
    BY <1>5, <2>3 DEF Next
  <2> QED
    BY <1>9, <2>1, <2>2, <2>4 DEF TakeFilename, e, a
<1> QED
  BY <1>1, <1>7, <1>8, <1>9 DEF Complete

\* One element more has been read after it.
LEMMA ReadOneMore ==
  ASSUME WellFormed, IInv, AllComplete, phase = "loop", Next, i <= Len(args),
         NEW g, Partial(g), NEW n \in 0..Len(line), i = Len(g[n]) + 1, HasRead(n)
  PROVE  /\ n + 1 \in 0..Len(line) /\ UNCHANGED <<line, args>>
         /\ i' = Len(g[n + 1]) + 1
         /\ \A x \in DOMAIN Field : IsLast(x, n + 1, Defaults[Field[x]], app'[Field[x]])
         /\ IsLast("file", n + 1, Blank, app'.filename)
         /\ app'.nsmap = PrefixesIn(n + 1)
<1> DEFINE e == line[n + 1]
<1>1. /\ n + 1 \in 0..Len(line) /\ Len(g[n + 1]) + 1 = i + Len(Arguments(line[n + 1]))
      /\ n + 1 \in 1..Len(line)
  BY AtElement
<1>2. /\ UNCHANGED <<line, args, phase>> /\ i' = i + Len(Arguments(line[n + 1]))
  BY TurnReads
<1>3. \/ \E x \in DOMAIN Field : e.option = x /\ app' = [app EXCEPT ![Field[x]] = e.values[1]]
      \/ /\ e = OptionAs("-ns", <<e.values[1], e.values[2]>>)
         /\ app' = [app EXCEPT !.nsmap = Mapped(@, e.values[1], e.values[2])]
      \/ e.option = "file" /\ app' = [app EXCEPT !.filename = e.values[1]]
  BY TurnReads
<1>4. n \in Nat
  BY <1>1, LineTypes DEF IInv
<1>5. /\ \A x \in DOMAIN Field : IsLast(x, n, Defaults[Field[x]], app[Field[x]])
      /\ IsLast("file", n, Blank, app.filename)
      /\ app.nsmap = PrefixesIn(n)
  BY DEF HasRead
<1>6. \A k \in 1..(n + 1) : line[k] = OptionAs(line[k].option, line[k].values)
  <2>1. \A k \in 1..(n + 1) : k \in 1..Len(line)
    BY <1>1, <1>4, LineTypes DEF IInv
  <2> QED
    BY <2>1, LineTypes DEF IInv
<1>7. \A x, default, v : IsLast(x, n, default, v) =>
        /\ e.option # x => IsLast(x, n + 1, default, v)
        /\ e.option = x => IsLast(x, n + 1, default, e.values[1])
  BY <1>4, LastGrows
<1>8. /\ e.option # "-ns" => PrefixesIn(n + 1) = PrefixesIn(n)
      /\ \A h, p : e = OptionAs("-ns", <<h, p>>) => PrefixesIn(n + 1) = Mapped(PrefixesIn(n), h, p)
  BY <1>4, <1>6, PrefixesGrow
<1> HIDE DEF e
<1>9. DOMAIN app = {"global", "classname", "lt", "todir", "filename", "nsmap"}
  BY DEF IInv, Applications
<1>10. /\ "file" \notin DOMAIN Field /\ "-ns" \notin DOMAIN Field /\ "file" # "-ns"
       /\ \A x \in DOMAIN Field : Field[x] \in {"global", "classname", "lt", "todir"}
       /\ \A x, y \in DOMAIN Field : Field[x] = Field[y] => x = y
  BY DEF Field
<1>11. CASE \E x \in DOMAIN Field : e.option = x /\ app' = [app EXCEPT ![Field[x]] = e.values[1]]
  <2>1. PICK x \in DOMAIN Field : e.option = x /\ app' = [app EXCEPT ![Field[x]] = e.values[1]]
    BY <1>11
  <2>2. /\ app'[Field[x]] = e.values[1] /\ app'.filename = app.filename /\ app'.nsmap = app.nsmap
        /\ \A y \in DOMAIN Field : y # x => app'[Field[y]] = app[Field[y]]
    BY <1>9, <1>10, <2>1
  <2>3. ASSUME NEW y \in DOMAIN Field PROVE IsLast(y, n + 1, Defaults[Field[y]], app'[Field[y]])
    BY <1>5, <1>7, <2>1, <2>2
  <2>4. e.option # "file" /\ e.option # "-ns"
    BY <1>10, <2>1
  <2> QED
    BY <1>1, <1>2, <1>5, <1>7, <1>8, <2>2, <2>3, <2>4
<1>12. CASE /\ e = OptionAs("-ns", <<e.values[1], e.values[2]>>)
            /\ app' = [app EXCEPT !.nsmap = Mapped(@, e.values[1], e.values[2])]
  <2>1. app'.nsmap = Mapped(app.nsmap, e.values[1], e.values[2]) /\ app'.filename = app.filename
        /\ \A y \in DOMAIN Field : app'[Field[y]] = app[Field[y]]
    BY <1>9, <1>10, <1>12
  <2>2. e.option = "-ns"
    BY <1>12 DEF OptionAs
  <2>3. \A y \in DOMAIN Field : IsLast(y, n + 1, Defaults[Field[y]], app'[Field[y]])
    BY <1>5, <1>7, <1>10, <2>1, <2>2
  <2>4. IsLast("file", n + 1, Blank, app'.filename)
    BY <1>5, <1>7, <1>10, <2>1, <2>2
  <2>5. app'.nsmap = PrefixesIn(n + 1)
    BY <1>5, <1>8, <1>12, <2>1
  <2> QED
    BY <1>1, <1>2, <2>3, <2>4, <2>5
<1>13. CASE e.option = "file" /\ app' = [app EXCEPT !.filename = e.values[1]]
  <2>1. app'.filename = e.values[1] /\ app'.nsmap = app.nsmap
        /\ \A y \in DOMAIN Field : app'[Field[y]] = app[Field[y]]
    BY <1>9, <1>10, <1>13
  <2>2. \A y \in DOMAIN Field : IsLast(y, n + 1, Defaults[Field[y]], app'[Field[y]])
    BY <1>5, <1>7, <1>10, <1>13, <2>1
  <2>3. IsLast("file", n + 1, Blank, app'.filename)
    BY <1>5, <1>7, <1>13, <2>1
  <2>4. app'.nsmap = PrefixesIn(n + 1)
    BY <1>5, <1>8, <1>10, <1>13, <2>1
  <2> QED
    BY <1>1, <1>2, <2>2, <2>3, <2>4
<1> QED
  BY <1>3, <1>11, <1>12, <1>13

LEMMA InitMeant == WellFormed /\ Init => Meant
<1> SUFFICES ASSUME WellFormed, Init PROVE Meant
  OBVIOUS
<1> DEFINE s == [k \in DOMAIN line |-> Arguments(line[k])]
<1>1. line \in Lines /\ i = 1 /\ app = Defaults /\ args = ArgvOf(line)
  BY DEF Init
<1>2. Len(line) \in Nat /\ DOMAIN line = 1..Len(line)
  BY <1>1, LineTypes
<1>3. s \in Seq(Seq(Text))
  BY <1>1, ArgumentsType
<1>4. Len(s) = Len(line) /\ \A k \in 1..Len(line) : s[k] = Arguments(line[k])
  <2>1. DOMAIN s = 1..Len(line) /\ \A k \in 1..Len(line) : s[k] = Arguments(line[k])
    BY <1>2
  <2> HIDE DEF s
  <2>2. Len(s) \in Nat /\ DOMAIN s = 1..Len(s)
    BY <1>3
  <2> QED
    BY <1>2, <2>1, <2>2
<1>5. args = FlattenSeq(s)
  BY <1>1 DEF ArgvOf
<1> HIDE DEF s
<1>6. PICK g \in [0..Len(s) -> Seq(Text)] :
        /\ g[0] = << >> /\ g[Len(s)] = FlattenSeq(s)
        /\ \A k \in 1..Len(s) : g[k] = g[k - 1] \o s[k]
  BY <1>3, Flattened
<1>7. Partial(g)
  BY <1>4, <1>5, <1>6 DEF Partial
<1>8. HasRead(0)
  <2>1. \A k \in 1..0 : FALSE
    OBVIOUS
  <2>2. app.nsmap = {} /\ app.filename = Blank
    BY <1>1 DEF Defaults
  <2>3. PrefixesIn(0) = {}
    BY <2>1 DEF PrefixesIn
  <2> QED
    BY <1>1, <2>1, <2>2, <2>3 DEF HasRead, IsLast
<1>9. 0 \in 0..Len(line) /\ i = Len(g[0]) + 1
  BY <1>1, <1>2, <1>6
<1> QED
  BY <1>7, <1>8, <1>9, Zenon DEF Meant

\* Behind the last argument every element has been read.
LEMMA AllRead ==
  ASSUME WellFormed, IInv, AllComplete, i > Len(args),
         NEW g, Partial(g), NEW n \in 0..Len(line), i = Len(g[n]) + 1
  PROVE  n = Len(line)
<1>1. /\ Len(line) \in Nat /\ DOMAIN line = 1..Len(line) /\ args \in Seq(Text)
      /\ \A k \in 1..Len(line) : Complete(line[k]) /\ line[k].values \in Seq(Text)
  BY LineTypes DEF IInv
<1>2. ASSUME NEW k \in 1..Len(line)
      PROVE  Arguments(line[k]) \in Seq(Text) /\ Len(Arguments(line[k])) \in {1, 2, 3}
  <2>1. Len(Arguments(line[k])) \in {1, 2, 3}
    BY <1>1, CompleteArguments DEF Complete
  <2>2. Arguments(line[k]) \in Seq(Text)
    <3>1. PICK s : s = [j \in DOMAIN line |-> Arguments(line[j])] /\ s \in Seq(Seq(Text))
      BY ArgumentsType DEF IInv
    <3>2. s[k] \in Seq(Text)
      BY <1>1, <3>1
    <3> QED
      BY <1>1, <3>1, <3>2
  <2> QED
    BY <2>1, <2>2
<1>3. ASSUME n < Len(line) PROVE FALSE
  <2>1. n + 1 \in 1..Len(line)
    BY <1>1, <1>3
  <2>2. PICK l \in Nat : l = Len(Arguments(line[n + 1])) /\ l >= 1
    <3>1. Len(Arguments(line[n + 1])) \in {1, 2, 3}
      BY <1>2, <2>1, Zenon
    <3>2. \A k \in {1, 2, 3} : k \in Nat /\ k >= 1
      OBVIOUS
    <3> QED
      BY <3>1, <3>2, Zenon
  <2>3. Len(g[n]) + l <= Len(args) /\ Len(g[n]) \in Nat
    <3>1. \A k \in 1..Len(line) : Arguments(line[k]) \in Seq(Text)
      BY <1>2
    <3>2. /\ Len(g[n]) + Len(Arguments(line[n + 1])) <= Len(args) /\ Len(g[n]) \in Nat
      BY <1>1, <1>3, <3>1, NextArguments
    <3> QED
      BY <2>2, <3>2, Zenon
  <2>4. PICK m \in Nat : m = Len(args)
    BY <1>1
  <2>5. PICK q \in Nat : q = Len(g[n])
    BY <2>3
  <2>6. q + l <= m
    BY <2>3, <2>4, <2>5
  <2>7. q + 1 > m
    BY <2>4, <2>5
  <2>8. \A j, k, h \in Nat : j >= 1 /\ k + j <= h => ~(k + 1 > h)
    OBVIOUS
  <2> QED
    BY <2>2, <2>4, <2>5, <2>6, <2>7, <2>8, Zenon
<1>4. PICK c \in Nat : c = Len(line)
  BY <1>1
<1>5. n \in 0..c /\ ~(n < c)
  BY <1>3, <1>4
<1> QED
  BY <1>4, <1>5

LEMMA NextMeant == WellFormed /\ IInv /\ Meant /\ [Next]_vars => Meant'
<1> SUFFICES ASSUME WellFormed, IInv, Meant, [Next]_vars PROVE Meant'
  OBVIOUS
<1>1. CASE UNCHANGED vars
  <2>1. UNCHANGED <<line, args, i, app, phase>>
    BY <1>1 DEF vars
  <2>2. AllComplete' <=> AllComplete
    BY <2>1 DEF AllComplete
  <2>3. ASSUME NEW g PROVE Partial(g)' <=> Partial(g)
    BY <2>1 DEF Partial
  <2>4. ASSUME NEW n PROVE HasRead(n)' <=> HasRead(n)
    <3>1. PrefixesIn(n)' = PrefixesIn(n)
      BY <2>1 DEF PrefixesIn
    <3>2. ASSUME NEW x, NEW default, NEW v PROVE IsLast(x, n, default, v) <=> IsLast(x, n, default, v)'
      BY <2>1 DEF IsLast
    <3> QED
      BY <2>1, <3>1, <3>2 DEF HasRead
  <2> QED
    BY <2>1, <2>2, <2>3, <2>4 DEF Meant
<1>2. CASE Next
  <2> SUFFICES ASSUME phase' = "loop", AllComplete'
               PROVE  \E g : Partial(g)' /\ \E n \in 0..Len(line') : i' = Len(g[n]) + 1 /\ HasRead(n)'
    BY DEF Meant
  <2>1. UNCHANGED <<line, args>> /\ phase = "loop" /\ i <= Len(args)
    BY <1>2 DEF Next, TakeOption, TakeNs, TakeFilename, NameClass, IInv
  <2>2. AllComplete
    BY <2>1 DEF AllComplete
  <2>3. PICK g : Partial(g) /\ \E n \in 0..Len(line) : i = Len(g[n]) + 1 /\ HasRead(n)
    BY <2>1, <2>2 DEF Meant
  <2>4. PICK n \in 0..Len(line) : i = Len(g[n]) + 1 /\ HasRead(n)
    BY <2>3
  <2>5. /\ n + 1 \in 0..Len(line) /\ i' = Len(g[n + 1]) + 1
        /\ \A x \in DOMAIN Field : IsLast(x, n + 1, Defaults[Field[x]], app'[Field[x]])
        /\ IsLast("file", n + 1, Blank, app'.filename)
        /\ app'.nsmap = PrefixesIn(n + 1)
    BY <1>2, <2>1, <2>2, <2>3, <2>4, ReadOneMore
  <2>6. Partial(g)'
    BY <2>1, <2>3 DEF Partial
  <2>7. HasRead(n + 1)'
    BY <2>1, <2>5 DEF HasRead, IsLast, PrefixesIn
  <2> QED
    BY <2>1, <2>5, <2>6, <2>7
<1> QED
  BY <1>1, <1>2

\* A line of complete options and file names is read as the usage says.
LEMMA LineAsMeant == WellFormed /\ IInv /\ Meant /\ Next => ReadAsUsage
<1> SUFFICES ASSUME WellFormed, IInv, Meant, Next, phase = "loop", phase' = "done", AllComplete
             PROVE  ReadAsUsage
  BY DEF ReadAsUsage, AllComplete
<1>1. NameClass
  BY DEF Next, TakeOption, TakeNs, TakeFilename
<1>2. PICK g : Partial(g) /\ \E n \in 0..Len(line) : i = Len(g[n]) + 1 /\ HasRead(n)
  BY DEF Meant
<1>3. PICK n \in 0..Len(line) : i = Len(g[n]) + 1 /\ HasRead(n)
  BY <1>2
<1>4. n = Len(line)
  BY <1>1, <1>2, <1>3, AllRead DEF NameClass
<1>5. HasRead(Len(line))
  BY <1>3, <1>4
<1>6. Len(line) \in Nat /\ DOMAIN line = 1..Len(line)
  BY LineTypes DEF IInv
<1>7. /\ \A x \in DOMAIN Field : LastValue(x, Defaults[Field[x]]) = app[Field[x]]
      /\ LastValue("file", Blank) = app.filename
  BY <1>5, <1>6, LastIs DEF HasRead
<1>8. /\ app' = [app EXCEPT !.classname = Identifier(IF @ = Blank THEN Stem(app.filename) ELSE @)]
      /\ DOMAIN app = {"global", "classname", "lt", "todir", "filename", "nsmap"}
  BY <1>1 DEF NameClass, IInv, Applications
<1>9. /\ "-classname" \in DOMAIN Field /\ Field["-classname"] = "classname"
      /\ \A x \in DOMAIN Field \ {"-classname"} : Field[x] \in {"global", "lt", "todir"}
      /\ Defaults.classname = Blank
  BY DEF Field, Defaults
<1>10. \A x \in DOMAIN Field \ {"-classname"} : app'[Field[x]] = LastValue(x, Defaults[Field[x]])
  BY <1>7, <1>8, <1>9
<1>11. /\ app'.filename = LastValue("file", Blank)
       /\ app'.nsmap = app.nsmap
       /\ app'.classname = Identifier(IF app.classname = Blank THEN Stem(app.filename) ELSE app.classname)
  BY <1>7, <1>8
<1>12. LastValue("-classname", Blank) = app.classname
  BY <1>7, <1>9
<1>13. app.nsmap = {v \in {line[k].values : k \in DOMAIN line} :
         \E k \in DOMAIN line : line[k] = OptionAs("-ns", v)
           /\ \A j \in DOMAIN line : j > k /\ line[j].option = "-ns" => line[j].values[1] # v[1]}
  BY <1>5, <1>6 DEF HasRead, PrefixesIn
<1> QED
  BY <1>7, <1>10, <1>11, <1>12, <1>13, Zenon DEF ReadAsUsage

=============================================================================
