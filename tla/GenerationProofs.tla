--------------------------- MODULE GenerationProofs ---------------------------
(***************************************************************************)
(* Proofs about Generation for every set of well-formed schemas: of any    *)
(* number of namespaces, types, members and nested classes.                *)
(***************************************************************************)
EXTENDS Generation, FiniteSetTheorems, TLAPS

-----------------------------------------------------------------------------
(* Facts about a schema.                                                    *)

\* What is Ok with some classes written stays so when more are.
LEMMA OkMonotone ==
  ASSUME NEW s, NEW G, NEW H, G \subseteq H, NEW t, OkToGenerate(s, G, t)
  PROVE  OkToGenerate(s, H, t)
  BY DEF OkToGenerate

\* A type in the list is a type.
LEMMA ListedTypes ==
  ASSUME NEW s \in SchemaType
  PROVE  /\ Listed(s) \subseteq Types
         /\ \A i \in 1..Len(s.types) : s.types[i] \in Listed(s)
         /\ Len(s.types) \in Nat
         /\ Listed(s) = {s.types[i] : i \in 1..Len(s.types)}
<1>1. s.types \in Seq(Types)
  BY DEF SchemaType
<1>2. DOMAIN s.types = 1..Len(s.types) /\ Len(s.types) \in Nat
  BY <1>1
<1>3. Listed(s) = {s.types[i] : i \in 1..Len(s.types)}
  BY <1>2 DEF Listed
<1>4. \A i \in 1..Len(s.types) : s.types[i] \in Types
  BY <1>1
<1> QED
  BY <1>2, <1>3, <1>4

\* When nothing more can be written, what is written is closed.
LEMMA StuckIsClosed ==
  ASSUME NEW s, NEW G, \A t \in Listed(s) : ~Ready(s, G, t)
  PROVE  Closed(s, G)
  BY DEF Closed, Ready, TopLevel

-----------------------------------------------------------------------------
(* Type correctness.                                                        *)

\* The locals and the static map start with values of their types.
LEMMA InitTypeOK == Init => TypeOK
<1> SUFFICES ASSUME Init PROVE TypeOK
  OBVIOUS
<1>1. schema \in SchemaType
  BY SchemaAssumption DEF Init, WellFormed
<1>2. 1 \in 1..(Len(schema.types) + 1)
  BY <1>1, ListedTypes
<1>3. header \in Seq(TopLevel(schema)) /\ body \in Seq(Listed(schema))
  BY DEF Init
<1>4. pos \in 1..(Len(schema.types) + 1) /\ pass \in Nat \ {0}
  BY <1>2 DEF Init
<1>5. repeat \in BOOLEAN /\ gen \in BOOLEAN
  BY DEF Init
<1> QED
  BY <1>1, <1>3, <1>4, <1>5 DEF Init, TypeOK

\* No step of either pass leaves the types.
LEMMA NextTypeOK == TypeOK /\ [Next]_vars => TypeOK'
<1> SUFFICES ASSUME TypeOK, [Next]_vars PROVE TypeOK'
  OBVIOUS
<1>1. /\ schema \in SchemaType
      /\ Len(schema.types) \in Nat
      /\ \A i \in 1..Len(schema.types) : schema.types[i] \in Listed(schema)
      /\ Listed(schema) \subseteq Types
  BY ListedTypes DEF TypeOK
<1>2. pos \in Nat \ {0}
  BY <1>1 DEF TypeOK
<1>3. ASSUME pos <= Len(schema.types)
      PROVE  /\ Current \in Listed(schema)
             /\ Current.name \in Names
             /\ pos + 1 \in 1..(Len(schema.types) + 1)
  BY <1>1, <1>2, <1>3 DEF Current, Types
<1>4. 1 \in 1..(Len(schema.types) + 1)
  BY <1>1
<1>5. CASE Skip
  BY <1>3, <1>5 DEF Skip, AtEntry, TypeOK
<1>6. CASE Emit
  <2>1. Current \in TopLevel(schema)
    BY <1>3, <1>6 DEF Emit, AtEntry, TopLevel
  <2>2. header' \in Seq(TopLevel(schema))
    BY <2>1, <1>6 DEF Emit, TypeOK
  <2>3. generated' \in SUBSET Names
    BY <1>3, <1>6 DEF Emit, AtEntry, SetGenerated, TypeOK
  <2> QED
    BY <2>2, <2>3, <1>3, <1>6 DEF Emit, AtEntry, TypeOK
<1>7. CASE Postpone
  BY <1>3, <1>7 DEF Postpone, AtEntry, TypeOK
<1>8. CASE NextPass
  <2>1. pos' \in 1..(Len(schema'.types) + 1) /\ pass' \in Nat \ {0}
    BY <1>4, <1>8 DEF NextPass, TypeOK
  <2>2. repeat' \in BOOLEAN /\ gen' \in BOOLEAN
    BY <1>8 DEF NextPass
  <2> QED
    BY <2>1, <2>2, <1>8 DEF NextPass, TypeOK
<1>9. CASE FinishInterface
  BY <1>4, <1>9 DEF FinishInterface, TypeOK
<1>10. CASE Implement
  BY <1>3, <1>10 DEF Implement, AtEntry, TypeOK
<1>11. CASE FinishImplementation
  BY <1>11 DEF FinishImplementation, TypeOK
<1>12. CASE UNCHANGED vars
  BY <1>12 DEF vars, TypeOK
<1> QED
  BY <1>5, <1>6, <1>7, <1>8, <1>9, <1>10, <1>11, <1>12 DEF Next

\* Every variable of the generator keeps its type; the header holds only
\* top-level types and the implementation only registered ones.
THEOREM TypeCorrect == SafeSpec => []TypeOK
<1> QED
  BY InitTypeOK, NextTypeOK, PTL DEF SafeSpec

-----------------------------------------------------------------------------
(* The inductive invariant.                                                 *)

\* b_generated_ is the local names of the classes in the header.
NamesOfHeader == generated = {header[i].name : i \in DOMAIN header}

\* Nothing is written that a closed set of names does without.
OnlyDerivable == \A X \in SUBSET Names : Closed(schema, X) => generated \subseteq X

\* A type this sweep has passed over and left unwritten has made it ask for
\* another sweep, and was not ready unless something was written since.
Passed(t) ==
  t \in TopLevel(schema) /\ t.name \notin generated
    => repeat /\ (gen \/ ~OkToGenerate(schema, generated, t))

Postponed ==
  phase = "interface" => \A i \in 1..(pos - 1) : Passed(schema.types[i])

NoneReady ==
  phase # "interface" => \A t \in Listed(schema) : ~Ready(schema, generated, t)

IInv == TypeOK /\ NamesOfHeader /\ OnlyDerivable /\ Postponed /\ NoneReady

\* Before the first sweep nothing is written and nothing postponed.
LEMMA InitIInv == Init => IInv
<1> SUFFICES ASSUME Init PROVE IInv
  OBVIOUS
<1>1. TypeOK
  BY InitTypeOK
<1>2. NamesOfHeader /\ OnlyDerivable
  BY DEF Init, NamesOfHeader, OnlyDerivable
<1>3. Postponed /\ NoneReady
  BY DEF Init, Postponed, NoneReady
<1> QED
  BY <1>1, <1>2, <1>3 DEF IInv

\* Emit extends the header by one class and the names by its name.
LEMMA EmitAppends ==
  ASSUME TypeOK, Emit
  PROVE  /\ Current \in TopLevel(schema)
         /\ Current \in Listed(schema)
         /\ Current.name \in Names
         /\ header' = Append(header, Current)
         /\ DOMAIN header' = DOMAIN header \cup {Len(header) + 1}
         /\ \A i \in DOMAIN header : header'[i] = header[i]
         /\ header'[Len(header) + 1] = Current
         /\ generated' = generated \cup {Current.name}
<1>1. Current \in Listed(schema) /\ Current.name \in Names
  BY ListedTypes DEF TypeOK, Emit, AtEntry, Current, Types
<1>2. Current \in TopLevel(schema)
  BY <1>1 DEF Emit, TopLevel
<1>3. header \in Seq(TopLevel(schema)) /\ header' = Append(header, Current)
  BY DEF TypeOK, Emit
<1>4. /\ DOMAIN header' = DOMAIN header \cup {Len(header) + 1}
      /\ \A i \in DOMAIN header : header'[i] = header[i]
      /\ header'[Len(header) + 1] = Current
  BY <1>2, <1>3
<1> QED
  BY <1>1, <1>2, <1>3, <1>4 DEF Emit, SetGenerated

\* Every step of the loops keeps the invariant, one case for each action.
LEMMA NextIInv == IInv /\ [Next]_vars => IInv'
<1> SUFFICES ASSUME IInv, [Next]_vars PROVE IInv'
  OBVIOUS
<1>1. TypeOK /\ TypeOK'
  BY NextTypeOK DEF IInv
<1>2. /\ pos \in Nat \ {0}
      /\ Len(schema.types) \in Nat
      /\ Listed(schema) = {schema.types[i] : i \in 1..Len(schema.types)}
  BY <1>1, ListedTypes DEF TypeOK, Listed, SchemaType
\* A step that moves to the next entry and writes nothing keeps the rest.
<1>3. ASSUME AtEntry("interface"), pos' = pos + 1, phase' = phase,
             UNCHANGED <<schema, generated, header>>,
             \A t : Passed(t) => Passed(t)',
             \A c : c = Current => Passed(c)'
      PROVE  IInv'
  <2>1. Postponed'
    <3> SUFFICES ASSUME NEW i \in 1..pos PROVE Passed(schema.types[i])'
      BY <1>2, <1>3 DEF Postponed, AtEntry
    <3>1. CASE i = pos
      <4>1. \A c : c = schema.types[i] => Passed(c)'
        BY <3>1, <1>3 DEF Current
      <4> QED
        BY <4>1, <1>3 DEF Passed
    <3>2. CASE i # pos
      <4>1. i \in 1..(pos - 1)
        BY <3>2, <1>2
      <4>2. Passed(schema.types[i])
        BY <4>1, <1>3 DEF IInv, Postponed, AtEntry
      <4> QED
        BY <4>2, <1>3
    <3> QED
      BY <3>1, <3>2
  <2> QED
    BY <2>1, <1>1, <1>3
       DEF IInv, NamesOfHeader, OnlyDerivable, NoneReady, AtEntry
<1>4. CASE Skip
  <2>1. \A c : c = Current => Passed(c)'
    BY <1>4 DEF Skip, Passed, IsGenerated, TopLevel, Current
  <2> QED
    BY <2>1, <1>3, <1>4 DEF Skip, AtEntry, Passed
<1>5. CASE Emit
  <2>1. NamesOfHeader'
    BY <1>1, <1>5, EmitAppends DEF IInv, NamesOfHeader
  <2>2. OnlyDerivable'
    <3> SUFFICES ASSUME NEW X \in SUBSET Names, Closed(schema, X)
                 PROVE  generated' \subseteq X
      BY <1>5 DEF Emit, OnlyDerivable
    <3>1. generated \subseteq X
      BY DEF IInv, OnlyDerivable
    <3>2. OkToGenerate(schema, X, Current)
      BY <3>1, <1>5, OkMonotone DEF Emit
    <3> QED
      BY <3>1, <3>2, <1>1, <1>5, EmitAppends DEF Closed
  <2>3. Postponed'
    <3> SUFFICES ASSUME NEW i \in 1..pos PROVE Passed(schema.types[i])'
      BY <1>2, <1>5 DEF Postponed, Emit
    <3>1. CASE i = pos
      BY <3>1, <1>1, <1>5, EmitAppends DEF Passed, Current, Emit
    <3>2. CASE i # pos
      <4>1. i \in 1..(pos - 1)
        BY <3>2, <1>2
      <4>2. Passed(schema.types[i])
        BY <4>1, <1>5 DEF IInv, Postponed, Emit, AtEntry
      <4> QED
        BY <4>2, <1>5 DEF Passed, Emit, SetGenerated
    <3> QED
      BY <3>1, <3>2
  <2>4. NoneReady'
    BY <1>5 DEF NoneReady, Emit, AtEntry
  <2> QED
    BY <2>1, <2>2, <2>3, <2>4, <1>1 DEF IInv
<1>6. CASE Postpone
  <2>1. \A c : c = Current => Passed(c)'
    BY <1>6 DEF Postpone, Passed, Current
  <2> QED
    BY <2>1, <1>3, <1>6 DEF Postpone, AtEntry, Passed
<1>7. CASE NextPass
  BY <1>1, <1>7
     DEF NextPass, AtEnd, IInv, NamesOfHeader, OnlyDerivable, Postponed, NoneReady
<1>8. CASE FinishInterface
  <2>1. NoneReady'
    <3> SUFFICES ASSUME NEW t \in Listed(schema), Ready(schema, generated, t)
                 PROVE  FALSE
      BY <1>8 DEF NoneReady, FinishInterface
    <3>1. PICK i \in 1..Len(schema.types) : t = schema.types[i]
      BY <1>2
    <3>2. i \in 1..(pos - 1)
      BY <1>2, <1>8 DEF FinishInterface, AtEnd
    <3>3. Passed(t)
      BY <3>1, <3>2, <1>8 DEF IInv, Postponed, FinishInterface, AtEnd
    <3> QED
      BY <3>3, <1>8 DEF Passed, Ready, FinishInterface
  <2> QED
    BY <2>1, <1>1, <1>8
       DEF FinishInterface, IInv, NamesOfHeader, OnlyDerivable, Postponed
<1>9. CASE Implement \/ FinishImplementation
  <2>1. phase # "interface" /\ phase' # "interface"
    BY <1>9 DEF Implement, FinishImplementation, AtEntry, AtEnd
  <2>2. UNCHANGED <<schema, generated, header>>
    BY <1>9 DEF Implement, FinishImplementation
  <2> QED
    BY <2>1, <2>2, <1>1
       DEF IInv, NamesOfHeader, OnlyDerivable, Postponed, NoneReady
<1>10. CASE UNCHANGED vars
  BY <1>1, <1>10
     DEF vars, IInv, NamesOfHeader, OnlyDerivable, Postponed, NoneReady, Passed
<1> QED
  BY <1>4, <1>5, <1>6, <1>7, <1>8, <1>9, <1>10 DEF Next

\* So it holds of every run of the generator.
LEMMA IInvHolds == SafeSpec => []IInv
<1> QED
  BY InitIInv, NextIInv, PTL DEF SafeSpec

-----------------------------------------------------------------------------
(* What the generator writes.                                               *)

\* When the do-while loop of CreateInterface is left, b_generated_ is the
\* least set of names closed under OkToGenerate, however the types are
\* ordered in their lists and however often one is listed.
THEOREM WritesLeastFixpoint == SafeSpec => []LeastFixpoint
<1>1. IInv => LeastFixpoint
  <2> SUFFICES ASSUME IInv, phase # "interface" PROVE generated = Derivable(schema)
    BY DEF LeastFixpoint
  <2>1. generated \in SUBSET Names
    BY DEF IInv, TypeOK
  <2>2. Closed(schema, generated)
    BY StuckIsClosed DEF IInv, NoneReady
  <2> QED
    BY <2>1, <2>2 DEF Derivable, IInv, OnlyDerivable
<1> QED
  BY <1>1, IInvHolds, PTL

\* A class in the header comes after the classes of its members: whatever
\* OkToGenerate found written is in the header already.
THEOREM MembersComeFirst == SafeSpec => []MembersFirst
<1>1. Init => MembersFirst
  BY DEF Init, MembersFirst
<1>2. IInv /\ MembersFirst /\ [Next]_vars => MembersFirst'
  <2> SUFFICES ASSUME IInv, MembersFirst, [Next]_vars PROVE MembersFirst'
    OBVIOUS
  <2>1. CASE Emit
    <3> DEFINE new == Len(header) + 1
    <3>1. /\ schema' = schema
          /\ DOMAIN header' = DOMAIN header \cup {new}
          /\ \A i \in DOMAIN header : header'[i] = header[i]
          /\ header'[new] = Current
      BY <2>1, EmitAppends DEF IInv, Emit
    <3>2. DOMAIN header = 1..Len(header) /\ Len(header) \in Nat
      BY DEF IInv, TypeOK
    <3>3. \A n \in generated : \E j \in 1..(new - 1) : header'[j].name = n
      BY <3>1, <3>2 DEF IInv, NamesOfHeader
    <3>4. OkToGenerate(schema, generated, Current)
      BY <2>1 DEF Emit
    <3>5. ASSUME NEW i \in DOMAIN header', i = new
          PROVE  IF schema.item[header'[i]] # NoItem
                 THEN \E j \in 1..(i - 1) : header'[j].name = schema.item[header'[i]]
                 ELSE \A m \in schema.members[header'[i]] :
                        \/ schema.parent[[ns |-> header'[i].ns, name |-> m.name]]
                             = header'[i].name
                        \/ \E j \in 1..(i - 1) : header'[j].name = m.name
      BY <3>1, <3>3, <3>4, <3>5 DEF OkToGenerate
    <3>6. ASSUME NEW i \in DOMAIN header, NEW j \in 1..(i - 1)
          PROVE  header'[j] = header[j] /\ header'[i] = header[i]
      BY <3>1, <3>2
    <3> HIDE DEF new
    <3> QED
      BY <3>1, <3>5, <3>6 DEF MembersFirst
  <2>2. CASE ~Emit
    <3>1. UNCHANGED <<schema, header>>
      BY <2>2 DEF Next, vars, Skip, Postpone, NextPass, FinishInterface,
                  Implement, FinishImplementation
    <3> QED
      BY <3>1 DEF MembersFirst
  <2> QED
    BY <2>1, <2>2
<1> QED
  BY <1>1, <1>2, IInvHolds, PTL DEF SafeSpec

\* The first sweep writes every class that stands in order when it reaches it.
Swept(i) == phase # "interface" \/ pass > 1 \/ i < pos

FirstSweep ==
  NoHomonyms(schema) =>
    \A S \in SUBSET TopLevel(schema) : InOrder(S) =>
      \A i \in DOMAIN schema.types :
         schema.types[i] \in S /\ Swept(i) => schema.types[i] \in Written

\* A class that stands in order waits for nothing when the loop reaches it:
\* its members have been written, or are nested in it.
LEMMA InOrderIsOk ==
  ASSUME IInv, FirstSweep, NoHomonyms(schema),
         NEW S \in SUBSET TopLevel(schema), InOrder(S),
         AtEntry("interface"), Current \in S
  PROVE  OkToGenerate(schema, generated, Current)
<1>1. PICK t : t = Current
  OBVIOUS
<1>2. /\ t \in S /\ t = schema.types[pos] /\ pos \in DOMAIN schema.types /\ pos \in Nat
      /\ schema \in SchemaType /\ t \in Types
      /\ schema.item[t] = NoItem
      /\ \A m \in schema.members[t] \ NestedIn(schema, t) : m \in S /\ Before(m, t)
  BY <1>1, ListedTypes DEF IInv, TypeOK, AtEntry, Current, SchemaType, InOrder, TopLevel
<1>3. ASSUME NEW m \in schema.members[t], m \notin NestedIn(schema, t)
      PROVE  m.name \in generated
  <2>1. m \in S /\ Before(m, t)
    BY <1>2, <1>3
  <2>2. PICK k \in DOMAIN schema.types : schema.types[k] = m /\ \A l \in 1..k : schema.types[l] # t
    BY <2>1 DEF Before
  <2>3. DOMAIN schema.types = 1..Len(schema.types) /\ Len(schema.types) \in Nat
    BY <1>2 DEF SchemaType
  <2>4. k < pos
    BY <1>2, <2>2, <2>3
  <2>5. m \in Written
    BY <2>1, <2>2, <2>4 DEF FirstSweep, Swept
  <2> QED
    BY <2>5 DEF Written, IInv, NamesOfHeader
<1>4. ASSUME NEW m \in NestedIn(schema, t)
      PROVE  schema.parent[[ns |-> t.ns, name |-> m.name]] = t.name
  <2>1. m \in Types /\ m.ns = t.ns /\ schema.parent[m] = t.name
    BY <1>2, <1>4, ListedTypes DEF NestedIn
  <2>2. m = [ns |-> t.ns, name |-> m.name]
    BY <2>1 DEF Types
  <2> QED
    BY <2>1, <2>2
<1> QED
  BY <1>1, <1>2, <1>3, <1>4 DEF OkToGenerate

LEMMA NextFirstSweep ==
  ASSUME IInv, FirstSweep, [Next]_vars
  PROVE  FirstSweep'
<1>0. /\ schema \in SchemaType /\ pos \in Nat /\ pass \in Nat \ {0}
      /\ DOMAIN schema.types = 1..Len(schema.types) /\ Len(schema.types) \in Nat
  BY DEF IInv, TypeOK, SchemaType
<1>1. schema' = schema
  BY DEF Next, vars, Skip, Emit, Postpone, NextPass, FinishInterface, Implement,
         FinishImplementation
<1>2. Written \subseteq Written'
  <2>1. CASE Emit
    BY <2>1, EmitAppends DEF IInv, Written
  <2>2. CASE ~Emit
    BY <2>2 DEF Next, vars, Skip, Postpone, NextPass, FinishInterface, Implement,
                FinishImplementation, Written
  <2> QED
    BY <2>1, <2>2
\* What a step adds to the swept entries: the current one.
<1>3. ASSUME NEW i \in DOMAIN schema.types, Swept(i)'
      PROVE  \/ Swept(i)
             \/ AtEntry("interface") /\ i = pos /\ (Skip \/ Emit \/ Postpone)
  <2>1. CASE Skip \/ Emit \/ Postpone
    BY <1>0, <1>3, <2>1 DEF Skip, Emit, Postpone, AtEntry, Swept
  <2>2. CASE NextPass \/ FinishInterface
    BY <1>0, <2>2 DEF NextPass, FinishInterface, AtEnd, Swept
  <2>3. CASE Implement \/ FinishImplementation
    BY <2>3 DEF Implement, FinishImplementation, AtEntry, AtEnd, Swept
  <2>4. CASE UNCHANGED vars
    BY <1>3, <2>4 DEF vars, Swept
  <2> QED
    BY <2>1, <2>2, <2>3, <2>4 DEF Next
<1>4. ASSUME NoHomonyms(schema), NEW S \in SUBSET TopLevel(schema), InOrder(S),
             NEW i \in DOMAIN schema.types, schema.types[i] \in S, Swept(i)'
      PROVE  schema.types[i] \in Written'
  <2>1. CASE Swept(i)
    BY <1>2, <1>4, <2>1 DEF FirstSweep
  <2>2. CASE AtEntry("interface") /\ i = pos /\ (Skip \/ Emit \/ Postpone)
    <3>1. Current = schema.types[i] /\ Current \in S
      BY <1>4, <2>2 DEF Current
    <3>2. OkToGenerate(schema, generated, Current)
      BY <1>4, <2>2, <3>1, InOrderIsOk
    <3>3. Current \in TopLevel(schema) /\ schema.parent[Current] = NoParent
      BY <3>1 DEF TopLevel
    <3>4. CASE Emit
      BY <3>1, <3>4, EmitAppends DEF IInv, Written
    <3>5. CASE Skip
      <4>1. Current.name \in generated
        BY <3>3, <3>5 DEF Skip, IsGenerated
      <4>2. PICK j \in DOMAIN header : header[j].name = Current.name
        BY <4>1 DEF IInv, NamesOfHeader
      <4>3. header[j] \in Listed(schema) /\ Current \in Listed(schema)
        BY <3>3 DEF IInv, TypeOK, TopLevel
      <4>4. Current \in Written
        BY <1>4, <4>2, <4>3 DEF NoHomonyms, Written
      <4> QED
        BY <1>2, <3>1, <4>4
    <3>6. ~Postpone
      BY <3>2 DEF Postpone
    <3> QED
      BY <2>2, <3>4, <3>5, <3>6
  <2> QED
    BY <1>3, <1>4, <2>1, <2>2
<1>5. /\ NoHomonyms(schema)' = NoHomonyms(schema)
      /\ TopLevel(schema)' = TopLevel(schema)
      /\ \A S : InOrder(S)' = InOrder(S)
  BY <1>1 DEF InOrder, Before
<1> QED
  BY <1>1, <1>4, <1>5 DEF FirstSweep

\* What OkToGenerate does not wait for, the base and the members of nested
\* classes, is before the class that needs it all the same, when it stands in
\* order and before it in the registry.
THEOREM NeededComeFirst == SafeSpec => []NeededFirst
<1>1. Init => FirstSweep /\ NeededFirst
  <2> SUFFICES ASSUME Init PROVE FirstSweep /\ NeededFirst
    OBVIOUS
  <2>1. schema \in SchemaType
    BY InitTypeOK DEF TypeOK
  <2>2. DOMAIN schema.types \subseteq Nat \ {0}
    BY <2>1 DEF SchemaType
  <2>3. \A i \in DOMAIN schema.types : ~Swept(i)
    BY <2>2 DEF Init, Swept
  <2>4. DOMAIN header = {}
    BY DEF Init
  <2> QED
    BY <2>3, <2>4 DEF FirstSweep, NeededFirst
<1>2. IInv /\ FirstSweep /\ NeededFirst /\ [Next]_vars => FirstSweep' /\ NeededFirst'
  <2> SUFFICES ASSUME IInv, FirstSweep, NeededFirst, [Next]_vars
               PROVE  FirstSweep' /\ NeededFirst'
    OBVIOUS
  <2>0. /\ schema' = schema /\ FirstSweep'
        /\ \A t : AlsoNeeded(t)' = AlsoNeeded(t)
        /\ \A t, u : Before(t, u)' = Before(t, u)
        /\ \A S : InOrder(S)' = InOrder(S)
    <3>1. schema' = schema
      BY DEF Next, vars, Skip, Emit, Postpone, NextPass, FinishInterface, Implement,
             FinishImplementation
    <3> QED
      BY <3>1, NextFirstSweep DEF AlsoNeeded, Before, InOrder
  <2>1. CASE Emit
    <3> DEFINE new == Len(header) + 1
    <3>1. /\ DOMAIN header' = DOMAIN header \cup {new}
          /\ \A i \in DOMAIN header : header'[i] = header[i]
          /\ header'[new] = Current
          /\ DOMAIN header = 1..Len(header) /\ Len(header) \in Nat
      BY <2>1, EmitAppends DEF IInv, TypeOK
    <3>2. ASSUME NoHomonyms(schema), NEW n, Before(n, Current),
                 NEW S \in SUBSET TopLevel(schema), n \in S, InOrder(S)
          PROVE  \E j \in 1..(new - 1) : header'[j] = n
      <4>1. PICK k \in DOMAIN schema.types :
              schema.types[k] = n /\ \A l \in 1..k : schema.types[l] # Current
        BY <3>2 DEF Before
      <4>2. /\ DOMAIN schema.types = 1..Len(schema.types) /\ Len(schema.types) \in Nat
            /\ pos \in DOMAIN schema.types /\ Current = schema.types[pos]
        BY <2>1 DEF IInv, TypeOK, SchemaType, Emit, AtEntry, Current
      <4>3. k < pos
        BY <4>1, <4>2
      <4>4. n \in Written
        BY <3>2, <4>1, <4>3 DEF FirstSweep, Swept
      <4>5. PICK j \in DOMAIN header : header[j] = n
        BY <4>4 DEF Written
      <4> QED
        BY <3>1, <4>5
    <3>3. ASSUME NoHomonyms(schema), NEW i \in DOMAIN header', NEW n \in AlsoNeeded(header'[i]),
                 Before(n, header'[i]),
                 NEW S \in SUBSET TopLevel(schema), n \in S, InOrder(S)
          PROVE  \E j \in 1..(i - 1) : header'[j] = n
      <4>1. CASE i = new
        BY <3>1, <3>2, <3>3, <4>1
      <4>2. CASE i \in DOMAIN header
        <5>1. header'[i] = header[i]
          BY <3>1, <4>2
        <5>2. PICK j \in 1..(i - 1) : header[j] = n
          BY <3>3, <4>2, <5>1 DEF NeededFirst
        <5>3. j \in DOMAIN header
          BY <3>1, <4>2
        <5> QED
          BY <3>1, <5>2, <5>3
      <4> QED
        BY <3>1, <4>1, <4>2
    <3> HIDE DEF new
    <3> QED
      BY <2>0, <3>3 DEF NeededFirst
  <2>2. CASE ~Emit
    <3>1. UNCHANGED <<schema, header>>
      BY <2>2 DEF Next, vars, Skip, Postpone, NextPass, FinishInterface,
                  Implement, FinishImplementation
    <3> QED
      BY <2>0, <3>1 DEF NeededFirst
  <2> QED
    BY <2>0, <2>1, <2>2
<1> QED
  BY <1>1, <1>2, IInvHolds, PTL DEF SafeSpec

\* Every sweep but the last writes a class, so the sweeps are at most one
\* more than the names written.
SweepInv ==
  /\ IsFiniteSet(generated)
  /\ pass <= Cardinality(generated) + 1
  /\ gen => pass <= Cardinality(generated)

\* Every sweep of the do-while loop but the last writes a new name.
THEOREM SweepsAreBounded == SafeSpec => []SweepsBounded
<1>1. Init => SweepInv
  BY FS_EmptySet DEF Init, SweepInv
<1>2. IInv /\ SweepInv /\ [Next]_vars => SweepInv'
  <2> SUFFICES ASSUME IInv, SweepInv, [Next]_vars PROVE SweepInv'
    OBVIOUS
  <2>1. pass \in Nat /\ Cardinality(generated) \in Nat
    BY FS_CardinalityType DEF IInv, TypeOK, SweepInv
  <2>2. CASE Emit
    <3>1. generated' = generated \cup {Current.name} /\ Current.name \notin generated
      BY <2>2 DEF Emit, SetGenerated, IsGenerated
    <3>2. IsFiniteSet(generated') /\ Cardinality(generated') = Cardinality(generated) + 1
      BY <3>1, FS_AddElement DEF SweepInv
    <3>3. pass' = pass
      BY <2>2 DEF Emit
    <3> QED
      BY <3>2, <3>3, <2>1 DEF SweepInv
  <2>3. CASE NextPass
    <3>1. pass' = pass + 1 /\ generated' = generated /\ gen /\ ~gen'
      BY <2>3 DEF NextPass
    <3> QED
      BY <3>1, <2>1 DEF SweepInv
  <2>4. CASE ~Emit /\ ~NextPass
    <3>1. UNCHANGED <<generated, gen, pass>>
      BY <2>4 DEF Next, vars, Skip, Postpone, FinishInterface,
                  Implement, FinishImplementation
    <3> QED
      BY <3>1 DEF SweepInv
  <2> QED
    BY <2>2, <2>3, <2>4
<1>3. SweepInv => SweepsBounded
  BY DEF SweepInv, SweepsBounded
<1> QED
  BY <1>1, <1>2, <1>3, IInvHolds, PTL DEF SafeSpec

\* The header is written as EmissionOrder allows: Emit is its Write, leaving
\* the do-while loop its Stop, and every other step a stutter.
THEOREM ImplementsEmissionOrder == SafeSpec => Abstract!SafeSpec
<1>1. Init => Abstract!Init
  BY SchemaAssumption
     DEF Init, Abstract!Init, WellFormed, Abstract!WellFormed, SchemaType,
         Abstract!SchemaType, Types, Abstract!Types, ChainsEnd, Abstract!ChainsEnd,
         ParentsListed, Abstract!ParentsListed, NestedIn, Abstract!NestedIn,
         TopLevel, Abstract!TopLevel, Listed, Abstract!Listed
<1>2. IInv /\ IInv' /\ [Next]_vars => [Abstract!Next]_(Abstract!vars)
  <2> SUFFICES ASSUME IInv, IInv', [Next]_vars
               PROVE  Abstract!Next \/ UNCHANGED Abstract!vars
    OBVIOUS
  <2>1. generated = Abstract!Written
    BY DEF IInv, NamesOfHeader, Abstract!Written
  <2>2. /\ Abstract!Listed(schema) = Listed(schema)
        /\ \A G, t : Abstract!Ready(schema, G, t) = Ready(schema, G, t)
    BY DEF Abstract!Listed, Listed, Abstract!Ready, Ready, Abstract!TopLevel,
           TopLevel, Abstract!OkToGenerate, OkToGenerate
  <2>3. CASE Emit
    <3>1. Current \in Listed(schema) /\ header' = Append(header, Current)
      BY <2>3, EmitAppends DEF IInv
    <3>2. Ready(schema, generated, Current)
      BY <2>3, EmitAppends DEF IInv, Emit, Ready, IsGenerated
    <3>3. phase = "interface" /\ UNCHANGED <<schema, phase>>
      BY <2>3 DEF Emit, AtEntry
    <3>4. Abstract!Write(Current)
      BY <2>1, <2>2, <3>1, <3>2, <3>3 DEF Abstract!Write
    <3> QED
      BY <3>1, <3>4, <2>2 DEF Abstract!Next
  <2>4. CASE FinishInterface
    <3>1. /\ phase = "interface" /\ phase' = "implementation"
          /\ UNCHANGED <<schema, header, generated>>
      BY <2>4 DEF FinishInterface, AtEnd
    <3>2. \A t \in Listed(schema) : ~Ready(schema, generated, t)
      BY <3>1 DEF IInv, NoneReady
    <3>3. Abstract!Stop
      BY <2>1, <2>2, <3>1, <3>2 DEF Abstract!Stop
    <3> QED
      BY <3>3 DEF Abstract!Next
  <2>5. CASE ~Emit /\ ~FinishInterface
    <3>1. UNCHANGED <<schema, header>> /\ (phase # "interface")' = (phase # "interface")
      BY <2>5 DEF Next, vars, Skip, Postpone, NextPass, Implement,
                  FinishImplementation, AtEntry, AtEnd
    <3> QED
      BY <3>1 DEF Abstract!vars
  <2> QED
    BY <2>3, <2>4, <2>5
<1> QED
  BY <1>1, <1>2, IInvHolds, PTL DEF SafeSpec, Abstract!SafeSpec

-----------------------------------------------------------------------------
(* Nothing is dropped from an orderable schema.                             *)

\* The .cc file holds the types the implementation loop has passed over.
BodyInv ==
  /\ phase = "interface" => body = << >>
  /\ phase = "implementation" => Implemented = {schema.types[i] : i \in 1..(pos - 1)}
  /\ phase = "done" => Implemented = Listed(schema)

\* CreateImplementation has written the methods of the entries it passed.
LEMMA BodyHolds == SafeSpec => []BodyInv
<1>1. Init => BodyInv
  BY DEF Init, BodyInv
<1>2. TypeOK /\ BodyInv /\ [Next]_vars => BodyInv'
  <2> SUFFICES ASSUME TypeOK, BodyInv, [Next]_vars PROVE BodyInv'
    OBVIOUS
  <2>1. /\ pos \in Nat \ {0}
        /\ Len(schema.types) \in Nat
        /\ \A i \in 1..Len(schema.types) : schema.types[i] \in Listed(schema)
        /\ Listed(schema) = {schema.types[i] : i \in 1..Len(schema.types)}
    <3>1. schema \in SchemaType /\ pos \in Nat \ {0}
      <4>1. schema \in SchemaType /\ pos \in 1..(Len(schema.types) + 1)
        BY DEF TypeOK
      <4> QED
        BY <4>1
    <3> QED
      BY <3>1, ListedTypes
  <2>2. CASE Implement
    <3>1. Current \in Listed(schema) /\ body \in Seq(Listed(schema))
      BY <2>1, <2>2 DEF Implement, AtEntry, Current, TypeOK
    <3>2. Implemented' = Implemented \cup {Current}
      <4>1. body' = Append(body, Current)
        BY <2>2 DEF Implement
      <4>2. /\ DOMAIN body' = DOMAIN body \cup {Len(body) + 1}
            /\ \A i \in DOMAIN body : body'[i] = body[i]
            /\ body'[Len(body) + 1] = Current
        BY <4>1, <3>1
      <4> QED
        BY <4>2 DEF Implemented
    <3>3. pos' = pos + 1 /\ UNCHANGED <<schema, phase>> /\ phase = "implementation"
      BY <2>2 DEF Implement, AtEntry
    <3>4. {schema.types[i] : i \in 1..pos}
            = {schema.types[i] : i \in 1..(pos - 1)} \cup {schema.types[pos]}
      BY <2>1
    <3> QED
      BY <3>2, <3>3, <3>4, <2>1 DEF BodyInv, Current
  <2>3. CASE FinishInterface
    <3>1. phase' = "implementation" /\ pos' = 1 /\ body' = << >>
      BY <2>3 DEF FinishInterface, AtEnd, BodyInv
    <3> QED
      BY <3>1 DEF BodyInv, Implemented
  <2>4. CASE FinishImplementation
    <3>1. /\ phase' = "done" /\ phase = "implementation" /\ pos > Len(schema.types)
          /\ UNCHANGED <<schema, body>>
      BY <2>4 DEF FinishImplementation, AtEnd
    <3>2. pos = Len(schema.types) + 1
      BY <3>1, <2>1 DEF TypeOK
    <3>3. {schema.types[i] : i \in 1..(pos - 1)} = Listed(schema)
      BY <3>2, <2>1
    <3>4. Implemented = Listed(schema)
      BY <3>1, <3>3 DEF BodyInv
    <3>5. Implemented' = Implemented /\ Listed(schema)' = Listed(schema)
      BY <3>1 DEF Implemented, Listed
    <3> QED
      BY <3>1, <3>4, <3>5 DEF BodyInv
  <2>5. CASE Skip \/ Emit \/ Postpone \/ NextPass
    BY <2>5 DEF Skip, Emit, Postpone, NextPass, AtEntry, AtEnd, BodyInv
  <2>6. CASE UNCHANGED vars
    BY <2>6 DEF vars, BodyInv, Implemented
  <2> QED
    BY <2>2, <2>3, <2>4, <2>5, <2>6 DEF Next
<1> QED
  BY <1>1, <1>2, TypeCorrect, PTL DEF SafeSpec

\* Once the loop is left, every top-level type of an orderable schema is
\* written: the unwritten ones would include one that is ready.
LEMMA AllTopLevelWritten ==
  ASSUME IInv, phase # "interface", Orderable(schema), NoHomonyms(schema)
  PROVE  TopLevel(schema) \subseteq Written
<1> DEFINE U == {t \in TopLevel(schema) : t.name \notin generated}
<1>1. U = {}
  <2> SUFFICES ASSUME U # {} PROVE FALSE
    OBVIOUS
  <2>1. PICK t \in U :
          IF schema.item[t] # NoItem
          THEN \E u \in TopLevel(schema) \ U : u.name = schema.item[t]
          ELSE schema.members[t] \subseteq (TopLevel(schema) \ U) \cup NestedIn(schema, t)
    BY DEF Orderable
  <2>2. t \in Listed(schema) /\ Listed(schema) \subseteq Types
    BY <2>1, ListedTypes DEF TopLevel, IInv, TypeOK
  <2>3. ASSUME NEW m \in NestedIn(schema, t)
        PROVE  schema.parent[[ns |-> t.ns, name |-> m.name]] = t.name
    <3>1. m = [ns |-> t.ns, name |-> m.name]
      BY <2>2, <2>3 DEF NestedIn, Types
    <3> QED
      BY <3>1, <2>3 DEF NestedIn
  <2>4. OkToGenerate(schema, generated, t)
    BY <2>1, <2>3 DEF OkToGenerate
  <2>5. Ready(schema, generated, t)
    BY <2>1, <2>4 DEF Ready
  <2> QED
    BY <2>2, <2>5 DEF IInv, NoneReady
<1>2. SUFFICES ASSUME NEW t \in TopLevel(schema) PROVE t \in Written
  OBVIOUS
<1>3. PICK i \in DOMAIN header : t.name = header[i].name
  BY <1>1, <1>2 DEF IInv, NamesOfHeader
<1>4. header[i] \in TopLevel(schema)
  BY <1>3 DEF IInv, TypeOK
<1>5. header[i] = t
  BY <1>2, <1>3, <1>4 DEF NoHomonyms, TopLevel
<1> QED
  BY <1>5 DEF Written

\* With every top-level class written every registered type is defined: a
\* parent chain ends at the top level.
LEMMA NestedAreDefined ==
  ASSUME schema \in Schemas, TopLevel(schema) \subseteq Written
  PROVE  Listed(schema) \subseteq Defined
<1> SUFFICES ASSUME NEW S \in SUBSET Listed(schema),
                    Written \subseteq S,
                    \A u \in S : NestedIn(schema, u) \subseteq S
             PROVE  Listed(schema) \subseteq S
  BY DEF Defined
<1>1. ChainsEnd(schema) /\ ParentsListed(schema)
  BY SchemaAssumption DEF WellFormed
<1> DEFINE R == Listed(schema) \ S
<1>2. SUFFICES ASSUME R # {} PROVE FALSE
  OBVIOUS
<1>3. PICK t \in R : \A u \in R : t \notin NestedIn(schema, u)
  BY <1>1, <1>2 DEF ChainsEnd
<1>4. t \notin TopLevel(schema)
  BY <1>3
<1>5. PICK u \in Listed(schema) : t \in NestedIn(schema, u)
  BY <1>1, <1>3, <1>4 DEF ParentsListed
<1>6. u \in S
  BY <1>3, <1>5
<1> QED
  BY <1>3, <1>5, <1>6

\* A schema whose members can be ordered, and whose local names are distinct,
\* is generated whole: CreateImplementation writes no method of a class that
\* CreateInterface has not defined, and leaves no type out.
THEOREM OrderableIsWhole == SafeSpec => []WholeWhenOrderable
<1>1. SafeSpec => [](schema \in Schemas)
  <2>1. Init => schema \in Schemas
    BY DEF Init
  <2>2. schema \in Schemas /\ [Next]_vars => (schema \in Schemas)'
    BY DEF Next, vars, Skip, Emit, Postpone, NextPass, FinishInterface,
           Implement, FinishImplementation
  <2> QED
    BY <2>1, <2>2, PTL DEF SafeSpec
<1>2. IInv /\ BodyInv /\ schema \in Schemas => WholeWhenOrderable
  <2> SUFFICES ASSUME IInv, BodyInv, schema \in Schemas,
                      phase = "done", Orderable(schema), NoHomonyms(schema)
               PROVE  /\ Implemented = Listed(schema)
                      /\ Implemented \subseteq Defined
    BY DEF WholeWhenOrderable
  <2>1. Listed(schema) \subseteq Defined
    BY AllTopLevelWritten, NestedAreDefined
  <2> QED
    BY <2>1 DEF BodyInv
<1> QED
  BY <1>1, <1>2, IInvHolds, BodyHolds, PTL
=============================================================================
