-------------------------- MODULE OutputFileProofs --------------------------
(***************************************************************************)
(* Proofs about OutputFile: what holds of the C++ scopes, the text and the *)
(* disk after every step, for any blocks, any global namespace, any number *)
(* of turns and whatever can be written or deleted.                        *)
(***************************************************************************)
EXTENDS OutputFile, SequenceFacts, FiniteSetTheorems

\* The NSFile of -namespace, which both functions begin at once.
Outer == [NSFile(global) EXCEPT !.start = TRUE]

\* The opening lines a block has written.
Opened(o) == IF o.start /\ o.ns # NoName THEN <<o.ns>> ELSE << >>

Scopes == [ns : Blocks \cup {NoName}, start : BOOLEAN]

\* Where main is in the scopes of a function, and what its text leaves open.
OutsideScopes == nsfiles = << >> /\ text = << >>

InFunction == nsfiles = <<Outer>> /\ text = Opened(Outer)

InTurn ==
  \E o \in Scopes : nsfiles = <<Outer, o>> /\ text = Opened(Outer) \o Opened(o)

ScopesInv ==
  /\ step \in {"load", "open"} => OutsideScopes
  /\ step = "write" => (file = "h" /\ OutsideScopes) \/ InFunction \/ InTurn
  /\ step = "closed" => IF file = "h" THEN OutsideScopes ELSE InFunction
  /\ step = "failed" => OutsideScopes
  /\ step = "succeeded" => nsfiles = << >> /\ text = Opened(Outer)

\* What each file is at each step: the header is done before the
\* implementation is begun, and only the latter may be left unclosed.
DiskInv ==
  /\ step = "load" => file = "h"
  /\ file = "h" /\ step \in {"load", "open", "failed"} => disk["h"] \in {"absent", "old"}
  /\ file = "h" /\ step = "write" => disk["h"] = "begun"
  /\ file = "cc" \/ step = "closed" => disk["h"] = "complete"
  /\ step = "succeeded" => file = "cc"
  /\ file = "cc" /\ step \in {"closed", "succeeded"} /\ global = NoName => disk["cc"] = "complete"
  /\ file = "cc" /\ step = "failed" /\ deletable["cc"] => disk["cc"] = "absent"
  /\ late => step = "succeeded" /\ global # NoName

IInv == TypeOK /\ ScopesInv /\ DiskInv

-----------------------------------------------------------------------------
\* The outer object has begun, under the global name.
LEMMA OuterBegun ==
  Outer \in [ns : {global}, start : BOOLEAN] /\ Outer.ns = global /\ Outer.start
<1>1. Outer.ns = global
  BY DEF Outer, NSFile
<1>2. Outer.start
  BY DEF Outer, NSFile
<1>3. Outer \in [ns : {global}, start : BOOLEAN]
  BY DEF Outer, NSFile
<1> QED
  BY <1>1, <1>2, <1>3

\* An object opens a block or none.
LEMMA OpenedType ==
  ASSUME NEW S, NEW o, o.ns \in S \cup {NoName}
  PROVE  Opened(o) \in Seq(S)
  BY DEF Opened

\* How deep main is in the scopes.
LEMMA Depth ==
  /\ OutsideScopes => Len(nsfiles) = 0
  /\ InFunction => Len(nsfiles) = 1
  /\ InTurn => Len(nsfiles) = 2
  BY Pairs DEF OutsideScopes, InFunction, InTurn

\* The scopes of either function are NSFiles, and what they leave open are
\* names of blocks.
ScopesTyped ==
  /\ nsfiles \in Seq([ns : Blocks \cup {NoName, global}, start : BOOLEAN])
  /\ Len(nsfiles) <= 2
  /\ text \in Seq(Blocks \cup {global})

InScopes == OutsideScopes \/ InFunction \/ InTurn \/ (nsfiles = << >> /\ text = Opened(Outer))

LEMMA ScopeTypes == InScopes => ScopesTyped
<1> SUFFICES ASSUME InScopes PROVE ScopesTyped
  OBVIOUS
<1> USE DEF InScopes, ScopesTyped
<1> DEFINE O == [ns : Blocks \cup {NoName, global}, start : BOOLEAN]
           B == Blocks \cup {global}
<1>1. Opened(Outer) \in Seq(B)
  BY OuterBegun, OpenedType
<1>2. Outer \in O
  BY OuterBegun
<1>3. CASE OutsideScopes
  BY <1>3 DEF OutsideScopes
<1>4. CASE InFunction
  BY <1>1, <1>2, <1>4 DEF InFunction
<1>5. CASE InTurn
  <2>1. PICK o \in Scopes : nsfiles = <<Outer, o>> /\ text = Opened(Outer) \o Opened(o)
    BY <1>5 DEF InTurn
  <2>2. o \in O /\ Opened(o) \in Seq(B)
    BY <2>1, OpenedType DEF Scopes
  <2> QED
    BY <1>1, <1>2, <2>1, <2>2
<1>6. CASE nsfiles = << >> /\ text = Opened(Outer)
  BY <1>1, <1>6
<1> QED
  BY <1>3, <1>4, <1>5, <1>6

\* Before the first file nothing is open and nothing is written.
LEMMA InitIInv == ASSUME MaxTurns \in Nat, Init PROVE IInv
<1>1. ScopesInv /\ DiskInv
  BY DEF Init, ScopesInv, OutsideScopes, DiskInv, Files
<1>2. nsfiles = << >> /\ text = << >>
  BY DEF Init
<1>3. /\ nsfiles \in Seq([ns : Blocks \cup {NoName, global}, start : BOOLEAN])
      /\ text \in Seq(Blocks \cup {global})
      /\ Len(nsfiles) <= 2
  BY <1>2
<1>4. turns \in 0..MaxTurns
  BY DEF Init
<1>5. disk \in [Files -> {"absent", "old", "begun", "complete", "unclosed"}]
  BY DEF Init
<1>6. TypeOK
  BY <1>3, <1>4, <1>5 DEF Init, TypeOK, Files
<1> QED
  BY <1>1, <1>6 DEF IInv

\* What a block opens is what Begin appends to the text.
LEMMA OpenedGrows ==
  ASSUME NEW o
  PROVE  Opened(Outer) \o Opened(o) =
           IF o.start /\ o.ns # NoName THEN Append(Opened(Outer), o.ns) ELSE Opened(Outer)
<1>1. CASE o.start /\ o.ns # NoName
  BY <1>1, Pairs DEF Opened
<1>2. CASE ~(o.start /\ o.ns # NoName)
  BY <1>2, Pairs DEF Opened
<1> QED
  BY <1>1, <1>2

\* The objects and the text in the middle of a turn: one more than outside it.
LEMMA Turn ==
  ASSUME NEW o, nsfiles = <<Outer, o>>, text = Opened(Outer) \o Opened(o)
  PROVE  /\ Len(nsfiles) = 2 /\ Inner = o
         /\ Destroyed = <<Outer>>
         /\ Closes => WithoutLast(text) = Opened(Outer)
         /\ ~Closes => text = Opened(Outer)
<1>1. Len(nsfiles) = 2 /\ Inner = o
  BY Pairs DEF Inner
<1>2. Destroyed = <<Outer>>
  BY PopSecond DEF Destroyed
<1>3. ASSUME Closes PROVE WithoutLast(text) = Opened(Outer)
  <2>1. Opened(o) = <<o.ns>>
    BY <1>1, <1>3 DEF Closes, Opened
  <2>2. CASE Opened(Outer) = << >>
    <3>1. text = <<o.ns>>
      BY <2>1, <2>2, Pairs
    <3> QED
      BY <3>1, <2>2, PopOnly DEF WithoutLast
  <2>3. CASE Opened(Outer) = <<Outer.ns>>
    <3>1. text = <<Outer.ns, o.ns>>
      BY <2>1, <2>3, Pairs
    <3> QED
      BY <3>1, <2>3, PopSecond DEF WithoutLast
  <2> QED
    BY <2>2, <2>3 DEF Opened
<1>4. ASSUME ~Closes PROVE text = Opened(Outer)
  <2>1. Opened(o) = << >>
    BY <1>1, <1>4 DEF Closes, Opened
  <2> QED
    BY <2>1, Pairs DEF Opened
<1> QED
  BY <1>1, <1>2, <1>3, <1>4

\* The two functions, their scopes and destructors keep the invariant.
LEMMA NextScopes == TypeOK /\ ScopesInv /\ [Next]_vars => ScopesInv'
<1> SUFFICES ASSUME TypeOK, ScopesInv, [Next]_vars PROVE ScopesInv'
  OBVIOUS
<1>2. ASSUME UNCHANGED global
      PROVE  Outer' = Outer /\ \A o : Opened(o)' = Opened(o)
  BY <1>2 DEF Outer, NSFile, Opened
<1>3. Opened(Outer) = IF global # NoName THEN <<global>> ELSE << >>
  BY OuterBegun DEF Opened
<1>4. CASE LoadFails \/ OpenFails
  BY <1>2, <1>4 DEF LoadFails, OpenFails, ScopesInv, OutsideScopes
<1>5. CASE Load
  BY <1>5 DEF Load, ScopesInv, OutsideScopes
<1>6. CASE Open
  <2>2. nsfiles' = <<Outer>> /\ text' = Opened(Outer) /\ UNCHANGED global
    BY <1>3, <1>6 DEF Open, env, Outer
  <2>3. InFunction'
    BY <1>2, <2>2 DEF InFunction
  <2> QED
    BY <2>3, <1>6 DEF Open, ScopesInv
<1>7. ASSUME NEW ns \in Blocks \cup {NoName}, StartTurn(ns) PROVE ScopesInv'
  <2> DEFINE o == [NSFile(ns) EXCEPT !.start = (file = "cc")]
  <2>1. o \in Scopes /\ o.ns = ns /\ o.start = (file = "cc")
    BY DEF Scopes, NSFile
  <2> HIDE DEF o
  <2>2. InFunction
    BY Depth, <1>7 DEF StartTurn, ScopesInv
  <2>3. nsfiles' = <<Outer, o>>
    BY <1>7, <2>2, PushSecond DEF StartTurn, InFunction, o
  <2>4. text' = Opened(Outer) \o Opened(o)
    <3>1. text' = IF o.start /\ o.ns # NoName THEN Append(Opened(Outer), o.ns) ELSE Opened(Outer)
      BY <1>7, <2>1, <2>2 DEF StartTurn, InFunction
    <3> QED
      BY <3>1, OpenedGrows
  <2>5. InTurn'
    BY <1>2, <1>7, <2>1, <2>3, <2>4 DEF StartTurn, env, InTurn, Scopes
  <2> QED
    BY <2>5, <1>7 DEF StartTurn, ScopesInv
<1>8. CASE WriteClass
  <2>1. PICK o \in Scopes : nsfiles = <<Outer, o>> /\ text = Opened(Outer) \o Opened(o)
    BY Depth, <1>8 DEF WriteClass, ScopesInv, InTurn
  <2> DEFINE begun == [o EXCEPT !.start = TRUE]
  <2>2. begun \in Scopes /\ begun.start /\ begun.ns = o.ns
    BY <2>1 DEF Scopes
  <2>3. nsfiles' = <<Outer, begun>>
    <3>1. nsfiles' = [nsfiles EXCEPT ![2] = [nsfiles[2] EXCEPT !.start = TRUE]]
      BY <2>1, Turn, <1>8 DEF WriteClass, Begin
    <3>2. nsfiles[2] = o
      BY <2>1, Pairs
    <3>3. nsfiles' = [<<Outer, o>> EXCEPT ![2] = begun]
      BY <3>1, <3>2, <2>1
    <3> QED
      BY <3>3, ChangeSecond
  <2> HIDE DEF begun
  <2>4. text' = IF ~o.start /\ o.ns # NoName THEN Append(text, o.ns) ELSE text
    BY <2>1, Turn, <1>8 DEF WriteClass, Begin
  <2>5. text' = Opened(Outer) \o Opened(begun)
    <3>1. CASE o.start \/ o.ns = NoName
      BY <2>1, <2>2, <2>4, <3>1 DEF Opened
    <3>2. CASE ~o.start /\ o.ns # NoName
      <4>1. text = Opened(Outer)
        BY <2>1, <3>2, Turn DEF Closes
      <4> QED
        BY <4>1, <2>2, <2>4, <3>2, OpenedGrows
    <3> QED
      BY <3>1, <3>2
  <2>6. InTurn'
    BY <1>2, <1>8, <2>2, <2>3, <2>5 DEF WriteClass, env, InTurn, Scopes
  <2> QED
    BY <2>6, <1>8 DEF WriteClass, ScopesInv
<1>9. CASE EndTurn
  <2>1. PICK o \in Scopes : nsfiles = <<Outer, o>> /\ text = Opened(Outer) \o Opened(o)
    BY Depth, <1>9 DEF EndTurn, ScopesInv, InTurn
  <2>2. nsfiles' = <<Outer>> /\ text' = Opened(Outer)
    BY <2>1, Turn, <1>9 DEF EndTurn
  <2> QED
    BY <1>2, <2>2, <1>9 DEF EndTurn, env, ScopesInv, InFunction
<1>10. CASE EndScope
  <2>1. nsfiles = <<Outer>> /\ text = Opened(Outer)
    BY Depth, <1>10 DEF EndScope, ScopesInv, InFunction
  <2>2. nsfiles' = << >>
    BY <2>1, Pairs, <1>10 DEF EndScope, Destroyed
  <2>3. text' = << >>
    <3>1. Closes <=> global # NoName
      BY <2>1, Pairs, OuterBegun DEF Closes, Inner
    <3> QED
      BY <3>1, <2>1, <1>3, PopOnly, <1>10 DEF EndScope, WithoutLast
  <2> QED
    BY <2>2, <2>3, <1>10 DEF EndScope, ScopesInv, OutsideScopes
<1>11. CASE Close
  <2>1. IF file = "h" THEN OutsideScopes ELSE InFunction
    BY Depth, <1>11 DEF Close, ScopesInv
  <2> QED
    BY <1>2, <2>1, <1>11 DEF Close, env, ScopesInv, OutsideScopes, InFunction
<1>12. CASE ReturnFromInterface
  BY <1>12 DEF ReturnFromInterface, ScopesInv, OutsideScopes
<1>14. CASE ReturnFromImplementation
  <2>1. nsfiles = <<Outer>> /\ text = Opened(Outer)
    BY <1>14 DEF ReturnFromImplementation, ScopesInv, InFunction
  <2>2. nsfiles' = << >>
    BY <2>1, <1>14, PopOnly DEF ReturnFromImplementation, Destroyed
  <2> QED
    BY <1>2, <2>1, <2>2, <1>14 DEF ReturnFromImplementation, env, ScopesInv
<1>13. CASE UNCHANGED vars
  BY <1>2, <1>13 DEF vars, ScopesInv, OutsideScopes, InFunction, InTurn, Scopes
<1> QED
  BY <1>4, <1>5, <1>6, <1>7, <1>8, <1>9, <1>10, <1>11, <1>12, <1>13, <1>14 DEF Next

\* So do the steps on the disk.
LEMMA NextDisk == TypeOK /\ ScopesInv /\ DiskInv /\ [Next]_vars => DiskInv'
<1> SUFFICES ASSUME TypeOK, ScopesInv, DiskInv, [Next]_vars PROVE DiskInv'
  OBVIOUS
<1>1. file \in {"h", "cc"} /\ disk \in [Files -> {"absent", "old", "begun", "complete", "unclosed"}]
  BY DEF TypeOK, Files
<1>2. CASE LoadFails \/ Load
  BY <1>2 DEF LoadFails, Load, env, DiskInv
<1>3. CASE Open
  BY <1>1, <1>3 DEF Open, env, DiskInv, Files
<1>4. CASE OpenFails
  BY <1>1, <1>4 DEF OpenFails, env, DiskInv, Files
<1>5. ASSUME NEW ns \in Blocks \cup {NoName}, StartTurn(ns) PROVE DiskInv'
  BY <1>5 DEF StartTurn, env, DiskInv
<1>6. CASE WriteClass \/ EndTurn \/ EndScope
  BY <1>6 DEF WriteClass, EndTurn, EndScope, env, DiskInv
<1>7. CASE Close
  <2>1. IF file = "h" THEN OutsideScopes ELSE InFunction
    BY <1>7, Depth DEF Close, ScopesInv
  <2>2. file = "h" \/ global = NoName => text = << >>
    BY <2>1, OuterBegun DEF OutsideScopes, InFunction, Opened
  <2>3. disk' = [disk EXCEPT ![file] = IF text = << >> THEN "complete" ELSE "unclosed"]
    BY <1>7 DEF Close
  <2>4. disk'[file] = IF text = << >> THEN "complete" ELSE "unclosed"
    BY <1>1, <2>3 DEF Files
  <2>5. file = "cc" => disk'["h"] = disk["h"]
    BY <1>1, <2>3 DEF Files
  <2> QED
    BY <1>1, <1>7, <2>2, <2>4, <2>5 DEF Close, env, DiskInv
<1>8. CASE ReturnFromInterface
  BY <1>8 DEF ReturnFromInterface, env, DiskInv
<1>9. CASE ReturnFromImplementation
  <2>1. InFunction
    BY <1>9 DEF ReturnFromImplementation, ScopesInv
  <2>2. Closes <=> global # NoName
    BY <2>1, Pairs, OuterBegun DEF InFunction, Closes, Inner
  <2> QED
    BY <1>9, <2>2 DEF ReturnFromImplementation, env, DiskInv
<1>10. CASE UNCHANGED vars
  BY <1>10 DEF vars, DiskInv
<1> QED
  BY <1>2, <1>3, <1>4, <1>5, <1>6, <1>7, <1>8, <1>9, <1>10 DEF Next

\* The types follow from where main is in the scopes.
LEMMA NextIInv == ASSUME MaxTurns \in Nat PROVE IInv /\ [Next]_vars => IInv'
<1> SUFFICES ASSUME IInv, [Next]_vars PROVE IInv'
  OBVIOUS
<1>1. TypeOK /\ ScopesInv' /\ DiskInv'
  BY NextScopes, NextDisk DEF IInv
<1>2. step' \in {"load", "open", "write", "closed", "failed", "succeeded"} /\ file' \in Files
  BY <1>1 DEF TypeOK, Files, Next, vars, LoadFails, Load, Open, OpenFails, StartTurn, WriteClass,
              EndTurn, EndScope, Close, ReturnFromInterface, ReturnFromImplementation
<1>3. ScopesTyped'
  <2>1. InScopes'
    BY <1>1, <1>2 DEF ScopesInv, InScopes
  <2> QED
    BY <2>1, ScopeTypes, PTL
<1>4. UNCHANGED env
  BY DEF Next, vars, env, LoadFails, Load, Open, OpenFails, StartTurn, WriteClass,
         EndTurn, EndScope, Close, ReturnFromInterface, ReturnFromImplementation
<1>5. disk' \in [Files -> {"absent", "old", "begun", "complete", "unclosed"}]
  BY <1>1 DEF TypeOK, Next, vars, LoadFails, Load, Open, OpenFails, StartTurn, WriteClass,
              EndTurn, EndScope, Close, ReturnFromInterface, ReturnFromImplementation
<1>6. turns' \in 0..MaxTurns
  <2>1. turns \in 0..MaxTurns
    BY <1>1 DEF TypeOK
  <2>2. turns' = turns \/ turns' = 0 \/ (turns < MaxTurns /\ turns' = turns + 1)
    BY DEF Next, vars, LoadFails, Load, Open, OpenFails, StartTurn, WriteClass,
              EndTurn, EndScope, Close, ReturnFromInterface, ReturnFromImplementation
  <2> QED
    BY <2>1, <2>2
<1>7. late' \in BOOLEAN
  BY <1>1 DEF TypeOK, Next, vars, LoadFails, Load, Open, OpenFails, StartTurn, WriteClass,
              EndTurn, EndScope, Close, ReturnFromInterface, ReturnFromImplementation, Closes
<1> QED
  BY <1>1, <1>2, <1>3, <1>4, <1>5, <1>6, <1>7 DEF IInv, TypeOK, env, ScopesTyped

\* Until the schema is loaded the global namespace is still free.
LEMMA GlobalIsFree ==
  IInv /\ step = "load" /\ global' \in Globals
       /\ UNCHANGED <<writable, deletable, disk, step, file, nsfiles, text, turns, late>> => IInv'
<1> SUFFICES ASSUME IInv, step = "load", global' \in Globals,
                    UNCHANGED <<writable, deletable, disk, step, file, nsfiles, text, turns, late>>
             PROVE  IInv'
  OBVIOUS
<1>1. OutsideScopes
  BY DEF IInv, ScopesInv
<1>2. ScopesInv'
  BY <1>1 DEF ScopesInv, OutsideScopes
<1>3. DiskInv'
  BY DEF IInv, DiskInv
<1>4. ScopesTyped'
  BY <1>1 DEF OutsideScopes, ScopesTyped
<1>5. TypeOK'
  BY <1>4 DEF IInv, TypeOK, ScopesTyped
<1> QED
  BY <1>2, <1>3, <1>5 DEF IInv

-----------------------------------------------------------------------------
\* The text names the objects that have begun, in their order.
LEMMA ScopesMatch == IInv => BlocksMatchScopes
<1> DEFINE Begun == {k \in DOMAIN nsfiles : nsfiles[k].start /\ nsfiles[k].ns # NoName}
<1> SUFFICES ASSUME IInv, step = "write"
             PROVE  /\ Len(text) = Cardinality(Begun)
                    /\ \A k \in Begun : text[Cardinality(Begun \cap 1..k)] = nsfiles[k].ns
  BY DEF BlocksMatchScopes
<1>1. /\ Cardinality({}) = 0
      /\ Cardinality({1}) = 1 /\ Cardinality({2}) = 1
      /\ Cardinality({1, 2}) = 2
  <2>1. Cardinality({}) = 0
    BY FS_EmptySet
  <2>2. IsFiniteSet({1}) /\ Cardinality({1}) = 1 /\ Cardinality({2}) = 1
    BY FS_Singleton
  <2>3. Cardinality({1} \cup {2}) = Cardinality({1}) + 1
    BY <2>2, FS_AddElement
  <2>4. {1} \cup {2} = {1, 2}
    OBVIOUS
  <2> QED
    BY <2>1, <2>2, <2>3, <2>4
<1>2. CASE OutsideScopes
  <2>1. Begun = {} /\ Len(text) = 0
    BY <1>2 DEF OutsideScopes
  <2> QED
    BY <2>1, <1>1
<1>3. CASE InFunction
  <2>1. DOMAIN nsfiles = {1} /\ nsfiles[1] = Outer
    BY <1>3 DEF InFunction
  <2>2. CASE global = NoName
    <3>1. Begun = {} /\ text = << >>
      BY <1>3, <2>1, <2>2, OuterBegun DEF InFunction, Opened
    <3> QED
      BY <3>1, <1>1
  <2>3. CASE global # NoName
    <3>1. Begun = {1} /\ text = <<global>>
      BY <1>3, <2>1, <2>3, OuterBegun DEF InFunction, Opened
    <3>2. Begun \cap 1..1 = {1}
      BY <3>1
    <3> QED
      BY <3>1, <3>2, <2>1, <1>1, OuterBegun, Pairs
  <2> QED
    BY <2>2, <2>3
<1>4. CASE InTurn
  <2>1. PICK o \in Scopes : nsfiles = <<Outer, o>> /\ text = Opened(Outer) \o Opened(o)
    BY <1>4 DEF InTurn
  <2>2. DOMAIN nsfiles = {1, 2} /\ nsfiles[1] = Outer /\ nsfiles[2] = o
    BY <2>1
  <2>3. CASE global = NoName /\ ~(o.start /\ o.ns # NoName)
    <3>1. Begun = {} /\ text = << >>
      BY <2>1, <2>2, <2>3, OuterBegun, OpenedGrows DEF Opened
    <3> QED
      BY <3>1, <1>1
  <2>4. CASE global # NoName /\ ~(o.start /\ o.ns # NoName)
    <3>1. Begun = {1}
      BY <2>2, <2>4, OuterBegun
    <3>2. text = <<global>>
      <4>1. Opened(Outer) = <<global>>
        BY <2>4, OuterBegun DEF Opened
      <4>2. Opened(o) = << >>
        BY <2>4 DEF Opened
      <4> QED
        BY <4>1, <4>2, <2>1, Pairs
    <3>3. Begun \cap 1..1 = {1}
      BY <3>1
    <3>4. Len(text) = Cardinality(Begun)
      BY <3>1, <3>2, <1>1
    <3>5. text[Cardinality(Begun \cap 1..1)] = nsfiles[1].ns
      BY <3>2, <3>3, <2>2, <1>1, OuterBegun, Pairs
    <3> QED
      BY <3>1, <3>4, <3>5
  <2>5. CASE global = NoName /\ o.start /\ o.ns # NoName
    <3>1. Begun = {2}
      BY <2>2, <2>5, OuterBegun
    <3>2. text = <<o.ns>>
      BY <2>1, <2>5, OuterBegun, Pairs DEF Opened
    <3>3. Begun \cap 1..2 = {2}
      BY <3>1
    <3> QED
      BY <3>1, <3>2, <3>3, <2>2, <1>1, Pairs
  <2>6. CASE global # NoName /\ o.start /\ o.ns # NoName
    <3>1. Begun = {1, 2}
      BY <2>2, <2>6, OuterBegun
    <3>2. text = <<global, o.ns>>
      BY <2>1, <2>6, OuterBegun, Pairs DEF Opened
    <3>3. Begun \cap 1..1 = {1} /\ Begun \cap 1..2 = {1, 2}
      BY <3>1
    <3> QED
      BY <3>1, <3>2, <3>3, <2>2, <1>1, OuterBegun, Pairs
  <2> QED
    BY <2>3, <2>4, <2>5, <2>6
<1> QED
  BY <1>2, <1>3, <1>4 DEF IInv, ScopesInv

\* A run that succeeds has passed through Close with nothing open, twice.
LEMMA SuccessMeansComplete == IInv => SuccessIsComplete /\ HeaderNeverUnclosed
  BY DEF IInv, TypeOK, DiskInv, SuccessIsComplete, HeaderNeverUnclosed, Files

\* A complete header means that the implementation was tried.
LEMMA FailureLeavesNoPair == IInv => NoStaleImplementation
  BY DEF IInv, TypeOK, DiskInv, NoStaleImplementation, Files
=============================================================================
