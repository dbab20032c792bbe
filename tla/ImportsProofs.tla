--------------------------- MODULE ImportsProofs ---------------------------
(***************************************************************************)
(* Proofs about Imports: the activations of ParseElements, their cursors   *)
(* and the working directory, for any files on the disk, however deep and  *)
(* in whatever circle they import each other.                              *)
(***************************************************************************)
EXTENDS Imports, SequenceFacts, FiniteSetTheorems

Frames == [file : DOMAIN world.files \cup {<< >>}, target : STRING, schema : Nat, import : Nat,
           current : world.dirs \cup {<< >>}]

SchemasOf(f) == world.files[f.file].schemas

ImportsAt(f) == SchemasOf(f)[f.schema].imports

\* The cursors of an activation are within its document.
Inside(f) ==
  f.file # << >> =>
    /\ f.schema \in 1..(Len(SchemasOf(f)) + 1)
    /\ f.schema <= Len(SchemasOf(f)) => f.import \in 1..(Len(ImportsAt(f)) + 1)

\* An activation that has called another one is at an import.
Waiting(f) ==
  /\ f.file # << >>
  /\ f.schema \in 1..Len(SchemasOf(f))
  /\ f.import \in 1..Len(ImportsAt(f))

CallInv ==
  /\ world \in Worlds
  /\ cwd \in world.dirs
  /\ stack \in Seq(Frames)
  /\ \A k \in 1..Len(stack) : Inside(stack[k])
  /\ \A k \in 1..(Len(stack) - 1) : Waiting(stack[k])

\* A working directory that is another one or above it.
Above(d, e) == Len(d) <= Len(e) /\ \A k \in 1..Len(d) : d[k] = e[k]

\* The directory an activation will be back in, or is in.
DirectoryOf(k) == IF k = Len(stack) THEN cwd ELSE stack[k].current

\* The first activation is in the first directory or above it; and below an
\* import without a directory the caller's directory is not left downwards.
DirectoryInv ==
  /\ \A k \in 1..Len(stack) : DirectoryOf(k) \in world.dirs
  /\ \A k \in 1..(Len(stack) - 1) :
       ImportsAt(stack[k])[stack[k].import].dir = << >> => Above(DirectoryOf(k + 1), DirectoryOf(k))
  /\ stack = << >> => Above(cwd, world.start)
  /\ stack # << >> => Above(DirectoryOf(1), world.start)
  /\ ~Located(world) => cwd = world.start

CountInv == registered \in [Schemas(world) -> 0..Many] /\ done \in BOOLEAN

-----------------------------------------------------------------------------
(* What is registered when files are beside each other and only the first  *)
(* one imports.                                                            *)
Simple == Shallow(world) /\ ~Located(world)

Main == world.files[world.main].schemas

\* The import that an activation f is at has led to g.
Calls(f, g) ==
  LET i == ImportsAt(f)[f.import] IN
  g.file = LoadedFrom(world.start, i.name) /\ g.target = i.ns

CalleeInv ==
  /\ stack # << >> => stack[1].file = world.main /\ stack[1].target = NoNs
  /\ \A k \in 1..(Len(stack) - 1) : stack[k].file = world.main /\ Calls(stack[k], stack[k + 1])

\* An import the parser never gets past: that of the first document by itself,
\* and every one of an .xsd file.
Blocking(k, j) ==
  \/ world.files[world.main].kind = "schema"
  \/ Append(world.start, Main[k].imports[j].name) = world.main

Blocked == \E k \in 1..Len(Main) : \E j \in 1..Len(Main[k].imports) : Blocking(k, j)

\* The cursors of an activation are at an import or before it.
NotPast(f, k, j) == f.schema < k \/ (f.schema = k /\ f.import <= j)

BlockInv ==
  /\ Blocked => ~done
  /\ \A k \in 1..Len(Main) : \A j \in 1..Len(Main[k].imports) : Blocking(k, j) =>
       \A m \in 1..Len(stack) : stack[m].file = world.main => NotPast(stack[m], k, j)

\* The loops of the first document are past an import, or past a schema.
Past(p) == stack = << >> \/ ~NotPast(stack[1], p[1], p[2])

PastSchema(k) == stack = << >> \/ k < stack[1].schema

NamingPast(s) == {p \in ImportsNaming(s) : Past(p)}

\* The import under way has registered s.
Under(s) ==
  /\ Len(stack) = 2 /\ stack[2].file = s[1] /\ s[2] < stack[2].schema
  /\ Matches(world.files[s[1]].schemas[s[2]].ns, stack[2].target)

One(b) == IF b THEN 1 ELSE 0

Times(s) == One(s[1] = world.main /\ PastSchema(s[2])) + Cardinality(NamingPast(s)) + One(Under(s))

TimesInv ==
  ~Blocked => /\ Len(stack) <= 2
              /\ done => stack = << >>
              /\ \A s \in Schemas(world) : IsFiniteSet(NamingPast(s)) /\ registered[s] = Least(Times(s))

RegisterInv == Simple => CalleeInv /\ BlockInv /\ TimesInv

IInv == CallInv /\ DirectoryInv /\ CountInv

-----------------------------------------------------------------------------
\* The schemas and imports of a file are sequences.
LEMMA FileTypes ==
  ASSUME WellFormed, CallInv, NEW g \in DOMAIN world.files
  PROVE  LET schemas == world.files[g].schemas
         IN /\ Len(schemas) \in Nat /\ DOMAIN schemas = 1..Len(schemas)
            /\ \A k \in 1..Len(schemas) :
                 /\ schemas[k] \in SchemaElements
                 /\ schemas[k].imports \in Seq(ImportElements)
                 /\ Len(schemas[k].imports) \in Nat
                 /\ \A j \in 1..Len(schemas[k].imports) : schemas[k].imports[j] \in ImportElements
<1> DEFINE schemas == world.files[g].schemas
<1>1. schemas \in Seq(SchemaElements)
  BY DEF WellFormed, CallInv
<1> HIDE DEF schemas
<1>2. /\ Len(schemas) \in Nat /\ DOMAIN schemas = 1..Len(schemas)
      /\ \A k \in 1..Len(schemas) : schemas[k] \in SchemaElements
  BY <1>1
<1>3. ASSUME NEW e \in SchemaElements
      PROVE  /\ e.imports \in Seq(ImportElements) /\ Len(e.imports) \in Nat
             /\ \A j \in 1..Len(e.imports) : e.imports[j] \in ImportElements
  <2>1. e.imports \in Seq(ImportElements)
    BY DEF SchemaElements
  <2> QED
    BY <2>1
<1> QED
  BY <1>2, <1>3 DEF schemas

\* Above is transitive, and holds of the parent of a directory.
LEMMA AboveTransitive ==
  ASSUME NEW d \in Seq(STRING), NEW e \in Seq(STRING), NEW f \in Seq(STRING), Above(d, e), Above(e, f)
  PROVE  Above(d, f)
<1>1. Len(d) \in Nat /\ Len(e) \in Nat /\ Len(f) \in Nat
  OBVIOUS
<1> QED
  BY <1>1 DEF Above

LEMMA AboveParent ==
  ASSUME NEW d \in Seq(STRING)
  PROVE  Above(Parent(d), d) /\ Above(d, d)
<1>0. Len(d) \in Nat /\ \A k \in 1..Len(d) : d[k] \in STRING
  OBVIOUS
<1>1. Above(d, d)
  BY <1>0 DEF Above
<1>2. CASE d # << >>
  <2>1. Len(d) \in Nat \ {0}
    BY <1>2, EmptySeq
  <2> DEFINE e == SubSeq(d, 1, Len(d) - 1)
  <2>2. /\ Len(e) = Len(d) - 1
        /\ \A k \in 1..(Len(d) - 1) : e[k] = d[k]
    <3> DEFINE n == Len(d) - 1
    <3>0. n \in Nat
      BY <2>1
    <3>1. \A k \in 1..n : d[k] \in STRING
      BY <1>0
    <3> HIDE DEF n
    <3>2. /\ Len(SubSeq(d, 1, n)) = IF 1 <= n THEN n - 1 + 1 ELSE 0
          /\ \A k \in 1..(n - 1 + 1) : SubSeq(d, 1, n)[k] = d[1 + k - 1]
      BY <3>0, <3>1, SubSeqProperties
    <3>3. Len(SubSeq(d, 1, n)) = n /\ \A k \in 1..n : SubSeq(d, 1, n)[k] = d[k]
      BY <3>0, <3>2
    <3> QED
      BY <3>3 DEF n
  <2> HIDE DEF e
  <2>3. Above(e, d)
    BY <2>1, <2>2 DEF Above
  <2> QED
    BY <1>1, <1>2, <2>3 DEF Parent, Front, e
<1>3. CASE d = << >>
  BY <1>1, <1>3 DEF Parent
<1> QED
  BY <1>2, <1>3

\* Above is IsPrefix.
LEMMA AboveIsPrefix ==
  ASSUME NEW d \in Seq(STRING), NEW e \in Seq(STRING), Above(d, e)
  PROVE  IsPrefix(d, e)
<1>0. /\ Len(d) \in Nat /\ \A k \in 1..Len(d) : d[k] \in STRING
      /\ Len(e) \in Nat /\ \A k \in 1..Len(e) : e[k] \in STRING
      /\ Len(d) <= Len(e)
  BY DEF Above
<1>1. \A k \in 1..Len(d) : e[k] \in STRING
  BY <1>0
<1> DEFINE s == SubSeq(d, 1, Len(d))
           t == SubSeq(e, 1, Len(d))
<1>2. /\ s \in Seq(STRING) /\ Len(s) = IF 1 <= Len(d) THEN Len(d) - 1 + 1 ELSE 0
      /\ \A k \in 1..(Len(d) - 1 + 1) : s[k] = d[1 + k - 1]
  BY <1>0, SubSeqProperties
<1>3. /\ t \in Seq(STRING) /\ Len(t) = IF 1 <= Len(d) THEN Len(d) - 1 + 1 ELSE 0
      /\ \A k \in 1..(Len(d) - 1 + 1) : t[k] = e[1 + k - 1]
  BY <1>0, <1>1, SubSeqProperties
<1> HIDE DEF s, t
<1>4. Len(s) = Len(t) /\ \A k \in 1..Len(s) : s[k] = t[k]
  BY <1>0, <1>2, <1>3 DEF Above
<1>5. s = t
  BY <1>2, <1>3, <1>4, SeqEqual
<1> QED
  BY <1>0, <1>5 DEF IsPrefix, s, t

-----------------------------------------------------------------------------
\* The activation the parser is in, and what the guards say of it.
LEMMA TopTypes ==
  ASSUME WellFormed, CallInv, stack # << >>
  PROVE  /\ Len(stack) \in Nat \ {0} /\ Top \in Frames /\ Inside(Top)
         /\ AtSchema => /\ Top.file \in DOMAIN world.files /\ Top.schema \in 1..Len(SchemasOf(Top))
                        /\ Current = SchemasOf(Top)[Top.schema]
                        /\ Top.import \in 1..(Len(Current.imports) + 1)
                        /\ Len(Current.imports) \in Nat
<1>1. Len(stack) \in Nat \ {0} /\ Top \in Frames /\ Inside(Top)
  <2>1. Len(stack) \in Nat \ {0}
    BY EmptySeq DEF CallInv
  <2> QED
    BY <2>1 DEF CallInv, Top
<1>2. ASSUME AtSchema
      PROVE  /\ Top.file \in DOMAIN world.files /\ Top.schema \in 1..Len(SchemasOf(Top))
             /\ Current = SchemasOf(Top)[Top.schema]
             /\ Top.import \in 1..(Len(Current.imports) + 1)
             /\ Len(Current.imports) \in Nat
  <2>1. Top.file \in DOMAIN world.files /\ Top.file # << >>
    BY <1>1, <1>2 DEF AtSchema, Frames
  <2>2. Top.schema \in 1..Len(SchemasOf(Top)) /\ Top.import \in 1..(Len(ImportsAt(Top)) + 1)
    <3>1. Top.schema <= Len(SchemasOf(Top))
      BY <1>2 DEF AtSchema, Document, SchemasOf
    <3>2. Len(SchemasOf(Top)) \in Nat
      BY <2>1, FileTypes DEF SchemasOf
    <3> QED
      BY <1>1, <2>1, <3>1, <3>2 DEF Inside
  <2>3. Current = SchemasOf(Top)[Top.schema] /\ Current.imports = ImportsAt(Top)
    BY DEF Current, Document, SchemasOf, ImportsAt
  <2>4. Len(Current.imports) \in Nat
    BY <2>1, <2>2, <2>3, FileTypes DEF SchemasOf
  <2> QED
    BY <2>1, <2>2, <2>3, <2>4
<1> QED
  BY <1>1, <1>2

\* chdir leads to a directory.
LEMMA ChangedType == ASSUME CallInv, NEW d PROVE ChangedTo(d) \in world.dirs
  BY DEF ChangedTo, CallInv

\* The stack after an import, element by element.
LEMMA ImportStack ==
  ASSUME WellFormed, CallInv, Import
  PROVE  LET n == Len(stack)
             e == Current.imports[Top.import]
         IN /\ n \in Nat \ {0} /\ stack # << >>
            /\ e \in ImportElements /\ Waiting(Top)
            /\ e = ImportsAt(stack[n])[stack[n].import]
            /\ Len(stack') = n + 1 /\ stack' \in Seq(Frames)
            /\ \A k \in 1..(n - 1) : stack'[k] = stack[k]
            /\ stack'[n] = [stack[n] EXCEPT !.current = cwd]
            /\ stack'[n + 1] = Frame(LoadedFrom(cwd', e.name), e.ns)
            /\ LoadedFrom(cwd', e.name) \in DOMAIN world.files \cup {<< >>}
            /\ cwd' \in world.dirs /\ (e.dir = << >> => cwd' = cwd)
<1> DEFINE n == Len(stack)
           e == Current.imports[Top.import]
           there == IF e.dir # << >> THEN ChangedTo(Resolve(cwd, e.dir)) ELSE cwd
           f == LoadedFrom(there, e.name)
           caller == [stack[n] EXCEPT !.current = cwd]
<1>1. stack # << >> /\ AtSchema /\ n \in Nat \ {0} /\ Top \in Frames
  BY TopTypes DEF Import, AtSchema
<1>2. /\ Top.file \in DOMAIN world.files /\ Top.schema \in 1..Len(SchemasOf(Top))
      /\ Current = SchemasOf(Top)[Top.schema] /\ Top.import \in 1..Len(Current.imports)
  <2>1. Top.import <= Len(Current.imports)
    BY DEF Import
  <2> QED
    BY <1>1, <2>1, TopTypes
<1>3. e \in ImportElements
  BY <1>2, FileTypes DEF SchemasOf
<1>4. Waiting(Top) /\ e = ImportsAt(stack[n])[stack[n].import]
  BY <1>1, <1>2 DEF Waiting, ImportsAt, AtSchema, Top
<1>5. there \in world.dirs /\ (e.dir = << >> => there = cwd)
  BY ChangedType DEF CallInv
<1>6. f \in DOMAIN world.files \cup {<< >>}
  BY DEF LoadedFrom
<1>7. Frame(f, e.ns) \in Frames
  BY <1>3, <1>6 DEF Frame, Frames, ImportElements
<1>8. caller \in Frames
  BY <1>1 DEF Top, Frames, CallInv
<1>9. cwd' = there /\ stack' = Append([stack EXCEPT ![n] = caller], Frame(f, e.ns))
  BY DEF Import, EnterImportOf
<1> HIDE DEF caller, there, f, n, e
<1>10. /\ [stack EXCEPT ![n] = caller] \in Seq(Frames)
       /\ Len([stack EXCEPT ![n] = caller]) = n
       /\ \A k \in 1..n : [stack EXCEPT ![n] = caller][k] = IF k = n THEN caller ELSE stack[k]
  <2>1. n \in 1..Len(stack) /\ stack \in Seq(Frames)
    BY <1>1 DEF n, CallInv
  <2> QED
    BY <1>8, <2>1, ExceptSeq DEF n
<1>11. /\ stack' \in Seq(Frames) /\ Len(stack') = n + 1
       /\ stack'[n + 1] = Frame(f, e.ns)
       /\ \A k \in 1..n : stack'[k] = IF k = n THEN caller ELSE stack[k]
  BY <1>1, <1>7, <1>9, <1>10, AppendProperties
<1>12. stack'[n] = caller /\ \A k \in 1..(n - 1) : stack'[k] = stack[k]
  BY <1>1, <1>11
<1>13. cwd' \in world.dirs /\ (e.dir = << >> => cwd' = cwd)
  BY <1>5, <1>9
<1>14. f = LoadedFrom(cwd', e.name)
  BY <1>9 DEF f
<1> QED
  BY <1>1, <1>3, <1>4, <1>6, <1>11, <1>12, <1>13, <1>14 DEF n, e, caller

\* The stack after a registration: only the cursors of the top move.
LEMMA RegisterStack ==
  ASSUME WellFormed, CallInv, Register
  PROVE  LET n == Len(stack)
         IN /\ n \in Nat \ {0} /\ stack # << >>
            /\ Len(stack') = n /\ stack' \in Seq(Frames)
            /\ \A k \in 1..(n - 1) : stack'[k] = stack[k]
            /\ stack'[n] = [stack[n] EXCEPT !.schema = @ + 1, !.import = 1]
            /\ Inside(stack'[n]) /\ UNCHANGED <<world, cwd>>
<1> DEFINE n == Len(stack)
           top == [stack[n] EXCEPT !.schema = @ + 1, !.import = 1]
<1>1. stack # << >> /\ AtSchema /\ n \in Nat \ {0} /\ Top \in Frames
  BY TopTypes DEF Register, AtSchema
<1>2. Top.file \in DOMAIN world.files /\ Top.schema \in 1..Len(SchemasOf(Top))
  BY <1>1, TopTypes
<1>3. /\ top \in Frames /\ top.schema = Top.schema + 1 /\ top.import = 1
      /\ top.file = Top.file /\ top.target = Top.target /\ top.current = Top.current
  <2> DEFINE first == [Top EXCEPT !.schema = @ + 1]
  <2>1. /\ first \in Frames /\ first.schema = Top.schema + 1
        /\ first.file = Top.file /\ first.target = Top.target /\ first.current = Top.current
    BY <1>1 DEF Frames
  <2>2. top = [first EXCEPT !.import = 1]
    BY DEF Top
  <2> HIDE DEF first, top
  <2> QED
    BY <2>1, <2>2 DEF Frames
<1>4. Len(SchemasOf(Top)) \in Nat /\ \A k \in 1..Len(SchemasOf(Top)) : Len(SchemasOf(Top)[k].imports) \in Nat
  BY <1>2, FileTypes DEF SchemasOf
<1>5. Inside(top)
  <2>1. SchemasOf(top) = SchemasOf(Top)
    BY <1>3 DEF SchemasOf
  <2>2. top.schema \in 1..(Len(SchemasOf(Top)) + 1)
    BY <1>2, <1>3, <1>4
  <2>3. ASSUME top.schema <= Len(SchemasOf(Top)) PROVE 1 \in 1..(Len(ImportsAt(top)) + 1)
    <3>1. top.schema \in 1..Len(SchemasOf(Top))
      BY <1>4, <2>2, <2>3
    <3>2. Len(ImportsAt(top)) \in Nat
      BY <1>4, <2>1, <3>1 DEF ImportsAt
    <3> QED
      BY <3>2
  <2> QED
    BY <1>3, <2>1, <2>2, <2>3 DEF Inside
<1>6. UNCHANGED <<world, cwd>> /\ stack' = [stack EXCEPT ![n] = top]
  BY DEF Register, Top
<1> HIDE DEF top, n
<1>8. /\ stack' \in Seq(Frames) /\ Len(stack') = n
      /\ \A k \in 1..n : stack'[k] = IF k = n THEN top ELSE stack[k]
  <2>1. n \in 1..Len(stack) /\ stack \in Seq(Frames)
    BY <1>1 DEF n, CallInv
  <2> QED
    BY <1>3, <1>6, <2>1, ExceptSeq DEF n
<1>9. stack'[n] = top /\ \A k \in 1..(n - 1) : stack'[k] = stack[k]
  BY <1>1, <1>8
<1> QED
  <2>1. Inside(stack'[n])
    BY <1>5, <1>9
  <2> QED
    BY <1>1, <1>6, <1>8, <1>9, <2>1 DEF n, top

\* The stack after a return: the caller is at the same import or the next.
LEMMA ReturnStack ==
  ASSUME WellFormed, CallInv, ReturnToImport
  PROVE  LET n == Len(stack)
             caller == stack[n - 1]
         IN /\ n \in Nat /\ n > 1
            /\ Len(stack') = n - 1 /\ stack' \in Seq(Frames)
            /\ \A k \in 1..(n - 2) : stack'[k] = stack[k]
            /\ stack'[n - 1].current = caller.current
            /\ stack'[n - 1].file = caller.file /\ stack'[n - 1].target = caller.target
            /\ stack'[n - 1].schema = caller.schema
            /\ stack'[n - 1].import = IF world.files[caller.file].kind = "schema"
                                      THEN caller.import ELSE caller.import + 1
            /\ Inside(stack'[n - 1])
            /\ cwd' = IF ImportsAt(caller)[caller.import].dir # << >>
                      THEN ChangedTo(Parent(caller.current)) ELSE cwd
            /\ UNCHANGED world
<1> DEFINE n == Len(stack)
           caller == stack[n - 1]
           next == IF world.files[caller.file].kind = "schema" THEN caller.import ELSE caller.import + 1
           back == [caller EXCEPT !.import = next]
<1>1. n \in Nat /\ n > 1 /\ n - 1 \in 1..n /\ n - 1 \in 1..(n - 1)
  <2>1. n > 1
    BY Zenon DEF ReturnToImport
  <2>2. n \in Nat
    BY DEF CallInv
  <2> QED
    BY <2>1, <2>2
<1>2. caller \in Frames /\ Waiting(caller)
  <2>1. caller \in Frames
    BY <1>1 DEF CallInv
  <2> DEFINE m == n - 1
  <2>2. m \in 1..(Len(stack) - 1)
    BY <1>1
  <2> HIDE DEF m
  <2>3. Waiting(stack[m])
    BY <2>2 DEF CallInv
  <2> QED
    BY <2>1, <2>3 DEF m
<1>3. Len(SchemasOf(caller)) \in Nat /\ Len(ImportsAt(caller)) \in Nat
  BY <1>2, FileTypes DEF Waiting, Frames, SchemasOf, ImportsAt
<1>4. next \in 1..(Len(ImportsAt(caller)) + 1) /\ next \in Nat
  <2> HIDE DEF caller
  <2> QED
    BY <1>2, <1>3 DEF Waiting
<1>5. Front(stack) \in Seq(Frames) /\ Len(Front(stack)) = n - 1 /\ \A k \in 1..(n - 1) : Front(stack)[k] = stack[k]
  <2> DEFINE m == n - 1
  <2>1. m \in Nat /\ m >= 1 /\ \A k \in 1..m : stack[k] \in Frames
    BY <1>1 DEF CallInv
  <2>2. Front(stack) = SubSeq(stack, 1, m)
    BY DEF Front
  <2> HIDE DEF m
  <2>3. /\ SubSeq(stack, 1, m) \in Seq(Frames)
        /\ Len(SubSeq(stack, 1, m)) = IF 1 <= m THEN m - 1 + 1 ELSE 0
        /\ \A k \in 1..(m - 1 + 1) : SubSeq(stack, 1, m)[k] = stack[1 + k - 1]
    BY <2>1, SubSeqProperties
  <2>4. /\ Len(SubSeq(stack, 1, m)) = m
        /\ \A k \in 1..m : SubSeq(stack, 1, m)[k] = stack[k]
    BY <2>1, <2>3
  <2> QED
    BY <2>2, <2>3, <2>4 DEF m
<1>6. /\ cwd' = IF ImportsAt(caller)[caller.import].dir # << >>
                THEN ChangedTo(Parent(caller.current)) ELSE cwd
      /\ stack' = [Front(stack) EXCEPT ![n - 1] = back]
      /\ UNCHANGED world
  <2>1. cwd' = IF ImportsAt(caller)[caller.import].dir # << >>
               THEN ChangedTo(Parent(caller.current)) ELSE cwd
    BY Zenon DEF ReturnToImport, ImportsAt, SchemasOf
  <2>2. Front(stack)[n - 1] = caller
    BY <1>1, <1>5
  <2> DEFINE old == Front(stack)[n - 1]
  <2>3. stack' = [Front(stack) EXCEPT ![n - 1] = [old EXCEPT !.import =
                    IF world.files[caller.file].kind = "schema" THEN old.import ELSE old.import + 1]]
    BY DEF ReturnToImport
  <2> HIDE DEF old, n, caller
  <2>4. old = caller
    BY <2>2 DEF old
  <2> QED
    BY <2>1, <2>3, <2>4 DEF ReturnToImport
<1>7. /\ back \in Frames /\ back.current = caller.current /\ back.file = caller.file
      /\ back.target = caller.target /\ back.schema = caller.schema /\ back.import = next
  <2> HIDE DEF caller, next
  <2> QED
    BY <1>2, <1>4 DEF Frames
<1>8. Inside(back)
  <2>1. SchemasOf(back) = SchemasOf(caller) /\ ImportsAt(back) = ImportsAt(caller)
    BY <1>7 DEF SchemasOf, ImportsAt
  <2> HIDE DEF back, caller, next
  <2> QED
    BY <1>2, <1>3, <1>4, <1>7, <2>1 DEF Inside, Waiting
<1> HIDE DEF back, n, next
<1>10. /\ stack' \in Seq(Frames) /\ Len(stack') = n - 1
       /\ \A k \in 1..(n - 1) : stack'[k] = IF k = n - 1 THEN back ELSE Front(stack)[k]
  BY <1>1, <1>5, <1>6, <1>7, ExceptSeq
<1>11. stack'[n - 1] = back /\ \A k \in 1..(n - 2) : stack'[k] = stack[k]
  BY <1>1, <1>5, <1>10
<1>12. Inside(stack'[n - 1])
  BY <1>8, <1>11
<1> HIDE DEF caller
<1> QED
  BY <1>1, <1>6, <1>7, <1>10, <1>11, <1>12 DEF n, caller, next

-----------------------------------------------------------------------------
LEMMA InitIInv == WellFormed /\ Init => IInv
<1> SUFFICES ASSUME WellFormed, Init PROVE IInv
  OBVIOUS
<1>1. stack = <<Frame(world.main, NoNs)>> /\ world \in Worlds /\ cwd = world.start
  BY DEF Init
<1>2. Len(stack) = 1 /\ stack[1] = Frame(world.main, NoNs)
  BY <1>1
<1>3. Frame(world.main, NoNs) \in Frames
  BY <1>1 DEF Frame, Frames, WellFormed
<1>4. stack \in Seq(Frames)
  BY <1>1, <1>3
<1>5. world.start \in world.dirs /\ world.start \in Seq(STRING)
  BY <1>1 DEF WellFormed
<1>6. Inside(stack[1])
  <2> DEFINE schemas == world.files[world.main].schemas
  <2>1. schemas \in Seq(SchemaElements)
    BY <1>1 DEF WellFormed
  <2>2. /\ stack[1].file = world.main /\ stack[1].schema = 1 /\ stack[1].import = 1
        /\ SchemasOf(stack[1]) = schemas
    BY <1>2 DEF Frame, SchemasOf
  <2> HIDE DEF schemas
  <2>3. Len(schemas) \in Nat
    BY <2>1
  <2>4. ASSUME 1 <= Len(schemas) PROVE 1 \in 1..(Len(ImportsAt(stack[1])) + 1)
    <3>1. schemas[1] \in SchemaElements
      BY <2>1, <2>3, <2>4
    <3>2. schemas[1].imports \in Seq(ImportElements)
      BY <3>1 DEF SchemaElements
    <3>3. Len(schemas[1].imports) \in Nat
      BY <3>2
    <3> QED
      BY <2>2, <3>3 DEF ImportsAt
  <2> QED
    BY <2>2, <2>3, <2>4 DEF Inside
<1>7. CallInv
  BY <1>1, <1>2, <1>4, <1>5, <1>6 DEF CallInv
<1>8. DirectoryInv
  <2>1. Above(cwd, world.start)
    BY <1>1, <1>5, AboveParent
  <2>2. DirectoryOf(1) = cwd
    BY <1>2 DEF DirectoryOf
  <2> QED
    BY <1>1, <1>2, <1>5, <2>1, <2>2 DEF DirectoryInv, DirectoryOf
<1>9. CountInv
  <2>1. 0 \in 0..Many
    BY DEF WellFormed
  <2>2. registered = [s \in Schemas(world) |-> 0] /\ done = FALSE
    BY DEF Init
  <2> QED
    BY <2>1, <2>2 DEF CountInv
<1> QED
  BY <1>7, <1>8, <1>9 DEF IInv

\* Calls and returns keep every activation inside its document.
LEMMA NextCall == WellFormed /\ CallInv /\ [Next]_vars => CallInv' /\ world' = world
<1> SUFFICES ASSUME WellFormed, CallInv, [Next]_vars PROVE CallInv' /\ world' = world
  OBVIOUS
<1> DEFINE n == Len(stack)
<1>0. n \in Nat
  BY DEF CallInv
<1>a. ASSUME world' = world, cwd' \in world.dirs, stack' \in Seq(Frames),
             \A k \in 1..Len(stack') : Inside(stack'[k]),
             \A k \in 1..(Len(stack') - 1) : Waiting(stack'[k])
      PROVE  CallInv'
  <2>1. Frames' = Frames
    BY <1>a DEF Frames
  <2>2. \A k \in 1..Len(stack') : Inside(stack[k])'
    BY <1>a DEF Inside, SchemasOf, ImportsAt
  <2>3. \A k \in 1..(Len(stack') - 1) : Waiting(stack[k])'
    BY <1>a DEF Waiting, SchemasOf, ImportsAt
  <2> QED
    BY <1>a, <2>1, <2>2, <2>3 DEF CallInv
<1>1. CASE Import
  <2>1. PICK f \in DOMAIN world.files \cup {<< >>} :
          stack'[n + 1] = Frame(f, Current.imports[Top.import].ns)
    BY <1>1, ImportStack, Zenon
  <2>2. /\ Len(stack') = n + 1 /\ stack' \in Seq(Frames) /\ n \in Nat \ {0}
        /\ \A k \in 1..(n - 1) : stack'[k] = stack[k]
        /\ stack'[n] = [stack[n] EXCEPT !.current = cwd]
        /\ cwd' \in world.dirs /\ Waiting(Top)
    BY <1>1, ImportStack
  <2>3. world' = world
    BY <1>1 DEF Import
  <2>4. Waiting(stack'[n]) /\ Inside(stack'[n])
    <3>1. stack[n] \in Frames /\ Inside(stack[n]) /\ Waiting(stack[n])
      BY <2>2 DEF CallInv, Top
    <3>2. /\ stack'[n].file = stack[n].file /\ stack'[n].schema = stack[n].schema
          /\ stack'[n].import = stack[n].import
      BY <2>2, <3>1 DEF Frames
    <3> QED
      BY <3>1, <3>2 DEF Waiting, Inside, SchemasOf, ImportsAt
  <2>5. Inside(Frame(f, Current.imports[Top.import].ns))
    <3> DEFINE g == Frame(f, Current.imports[Top.import].ns)
    <3>1. g.file = f /\ g.schema = 1 /\ g.import = 1
      BY DEF Frame
    <3> HIDE DEF g
    <3> SUFFICES ASSUME f # << >> PROVE Inside(g)
      BY <3>1 DEF Inside, g
    <3>2. /\ Len(SchemasOf(g)) \in Nat
          /\ \A k \in 1..Len(SchemasOf(g)) : Len(SchemasOf(g)[k].imports) \in Nat
      BY <3>1, FileTypes DEF SchemasOf
    <3>3. 1 <= Len(SchemasOf(g)) => Len(ImportsAt(g)) \in Nat
      BY <3>1, <3>2 DEF ImportsAt
    <3> QED
      BY <3>1, <3>2, <3>3 DEF Inside
  <2>6. \A k \in 1..(n - 1) : Inside(stack'[k]) /\ Waiting(stack'[k])
    BY <2>2 DEF CallInv
  <2>7. /\ \A k \in 1..Len(stack') : Inside(stack'[k])
        /\ \A k \in 1..(Len(stack') - 1) : Waiting(stack'[k])
    <3> HIDE DEF n
    <3>1. \A k \in 1..Len(stack') : k \in 1..(n - 1) \/ k = n \/ k = n + 1
      BY <2>2
    <3>2. \A k \in 1..(Len(stack') - 1) : k \in 1..(n - 1) \/ k = n
      BY <2>2
    <3> QED
      BY <2>1, <2>4, <2>5, <2>6, <3>1, <3>2
  <2> QED
    BY <1>a, <2>2, <2>3, <2>7
<1>2. CASE Register
  <2>1. /\ n \in Nat \ {0} /\ Len(stack') = n /\ stack' \in Seq(Frames)
        /\ \A k \in 1..(n - 1) : stack'[k] = stack[k]
        /\ Inside(stack'[n]) /\ UNCHANGED <<world, cwd>>
    BY <1>2, RegisterStack
  <2>2. \A k \in 1..(n - 1) : Inside(stack'[k]) /\ Waiting(stack'[k])
    BY <2>1 DEF CallInv
  <2>3. \A k \in 1..n : Inside(stack'[k])
    <3> HIDE DEF n
    <3>1. \A k \in 1..n : k \in 1..(n - 1) \/ k = n
      BY <2>1
    <3> QED
      BY <2>1, <2>2, <3>1
  <2>4. cwd' \in world.dirs
    BY <2>1 DEF CallInv
  <2> QED
    BY <1>a, <2>1, <2>2, <2>3, <2>4
<1>3. CASE ReturnToImport
  <2>1. /\ n > 1 /\ Len(stack') = n - 1 /\ stack' \in Seq(Frames)
        /\ \A k \in 1..(n - 2) : stack'[k] = stack[k]
        /\ Inside(stack'[n - 1]) /\ UNCHANGED world
    BY <1>3, ReturnStack
  <2>2. \A k \in 1..(n - 2) : Inside(stack'[k]) /\ Waiting(stack'[k])
    BY <1>0, <2>1 DEF CallInv
  <2>3. /\ \A k \in 1..Len(stack') : Inside(stack'[k])
        /\ \A k \in 1..(Len(stack') - 1) : Waiting(stack'[k])
    <3> HIDE DEF n
    <3>1. \A k \in 1..Len(stack') : k \in 1..(n - 2) \/ k = n - 1
      BY <1>0, <2>1
    <3>2. \A k \in 1..(Len(stack') - 1) : k \in 1..(n - 2)
      BY <1>0, <2>1
    <3> QED
      BY <2>1, <2>2, <3>1, <3>2
  <2>4. cwd' \in world.dirs
    BY <1>3, ReturnStack, ChangedType DEF CallInv
  <2> QED
    BY <1>a, <2>1, <2>3, <2>4
<1>4. CASE Finish
  <2>1. stack' = << >> /\ world' = world /\ cwd' = cwd
    BY <1>4 DEF Finish
  <2> QED
    BY <1>a, <2>1 DEF CallInv
<1>5. CASE UNCHANGED vars
  <2>1. UNCHANGED <<world, cwd, stack>>
    BY <1>5 DEF vars
  <2> QED
    BY <1>a, <2>1 DEF CallInv
<1> QED
  <2>1. CallInv'
    BY <1>1, <1>2, <1>3, <1>4, <1>5 DEF Next
  <2>2. world' = world
    BY DEF Next, vars, Import, Register, ReturnToImport, Finish
  <2> QED
    BY <2>1, <2>2

LEMMA NextCount == WellFormed /\ CountInv /\ world' = world /\ [Next]_vars => CountInv'
<1> SUFFICES ASSUME WellFormed, CountInv, world' = world, [Next]_vars PROVE CountInv'
  OBVIOUS
<1>1. Schemas(world)' = Schemas(world)
  BY DEF Schemas
<1>2. CASE Register
  <2> DEFINE s == <<Top.file, Top.schema>>
  <2>1. registered' = registered \/ (registered[s] < Many /\ registered' = [registered EXCEPT ![s] = @ + 1])
    BY <1>2 DEF Register
  <2>2. Many \in Nat
    BY DEF WellFormed
  <2> HIDE DEF s
  <2>3. registered' \in [Schemas(world) -> 0..Many]
    BY <2>1, <2>2 DEF CountInv
  <2> QED
    BY <1>1, <1>2, <2>3 DEF Register, CountInv
<1>3. CASE Import \/ ReturnToImport \/ UNCHANGED vars
  <2>1. registered' = registered /\ done' = done
    BY <1>3 DEF Import, ReturnToImport, vars
  <2> QED
    BY <1>1, <2>1 DEF CountInv
<1>4. CASE Finish
  <2>1. registered' = registered /\ done' = TRUE
    BY <1>4 DEF Finish
  <2> QED
    BY <1>1, <2>1 DEF CountInv
<1> QED
  BY <1>2, <1>3, <1>4 DEF Next

\* Every import counts among those of its world.
LEMMA ImportIsLocated ==
  ASSUME WellFormed, CallInv, NEW f \in Frames, Waiting(f), ~Located(world)
  PROVE  ImportsAt(f)[f.import].dir = << >>
<1> DEFINE d == world.files[f.file]
           e == SchemasOf(f)[f.schema]
           i == e.imports[f.import]
<1>1. f.file \in DOMAIN world.files
  BY DEF Waiting, Frames
<1>2. e \in Values(d.schemas)
  BY <1>1, FileTypes DEF Waiting, Values, SchemasOf
<1>3. i \in Values(e.imports)
  <2>1. e.imports \in Seq(ImportElements) /\ f.import \in 1..Len(e.imports)
    BY <1>1, FileTypes DEF Waiting, SchemasOf, ImportsAt
  <2> HIDE DEF e
  <2> QED
    BY <2>1 DEF Values
<1> HIDE DEF e, i, d
<1>4. i \in AllImports(d)
  BY <1>2, <1>3 DEF AllImports
<1>5. i \in ImportsOf(world)
  BY <1>1, <1>4 DEF ImportsOf, d
<1>6. i.dir = << >>
  BY <1>5 DEF Located
<1> QED
  BY <1>6 DEF i, e, ImportsAt

\* The directory above a directory can be entered.
LEMMA ParentType ==
  ASSUME WellFormed, CallInv, NEW d \in world.dirs
  PROVE  ChangedTo(Parent(d)) = Parent(d) /\ Parent(d) \in world.dirs
<1>1. Parent(d) \in world.dirs
  BY DEF WellFormed, CallInv, Parent
<1> QED
  BY <1>1 DEF ChangedTo

\* An import enters a directory for its own activation only, and leaves its
\* caller where that was or above.
LEMMA NextDirectory == WellFormed /\ CallInv /\ DirectoryInv /\ [Next]_vars => DirectoryInv'
<1> SUFFICES ASSUME WellFormed, CallInv, DirectoryInv, [Next]_vars PROVE DirectoryInv'
  OBVIOUS
<1> DEFINE Dir(f) == ImportsAt(f)[f.import].dir
<1>n. PICK n \in Nat : n = Len(stack)
  BY DEF CallInv
<1>0. n \in Nat /\ world \in Worlds /\ world' = world /\ CallInv'
  BY NextCall DEF CallInv
<1>t. /\ \A d \in world.dirs : d \in Seq(STRING)
      /\ world.start \in world.dirs
  BY <1>0 DEF WellFormed
<1>b. \A f : Dir(f)' = Dir(f)
  BY <1>0 DEF ImportsAt, SchemasOf
<1>a. ASSUME \A k \in 1..Len(stack') : DirectoryOf(k)' \in world.dirs,
             \A k \in 1..(Len(stack') - 1) :
               Dir(stack'[k]) = << >> => Above(DirectoryOf(k + 1)', DirectoryOf(k)'),
             stack' = << >> => Above(cwd', world.start),
             stack' # << >> => Above(DirectoryOf(1)', world.start),
             ~Located(world) => cwd' = world.start
      PROVE  DirectoryInv'
  <2>1. \A k \in 1..(Len(stack') - 1) : Dir(stack[k])' = Dir(stack'[k])
    BY <1>0 DEF ImportsAt, SchemasOf
  <2> QED
    BY <1>0, <1>a, <2>1 DEF DirectoryInv
<1>c. cwd \in world.dirs /\ \A k \in 1..n : DirectoryOf(k) \in Seq(STRING)
  BY <1>n, <1>t DEF CallInv, DirectoryInv
<1>1. CASE Import
  <2>1. /\ Len(stack') = n + 1 /\ n \in Nat \ {0} /\ stack # << >>
        /\ \A k \in 1..(n - 1) : stack'[k] = stack[k]
        /\ stack'[n] = [stack[n] EXCEPT !.current = cwd]
        /\ cwd' \in world.dirs /\ (Dir(stack[n]) = << >> => cwd' = cwd)
        /\ Waiting(stack[n]) /\ stack' \in Seq(Frames)
    <3> DEFINE e == Current.imports[Top.import]
    <3>1. /\ Len(stack') = n + 1 /\ n \in Nat \ {0} /\ stack # << >>
          /\ \A k \in 1..(n - 1) : stack'[k] = stack[k]
          /\ stack'[n] = [stack[n] EXCEPT !.current = cwd]
          /\ cwd' \in world.dirs /\ (e.dir = << >> => cwd' = cwd)
          /\ e = ImportsAt(stack[n])[stack[n].import]
          /\ Waiting(Top) /\ stack' \in Seq(Frames)
      BY <1>1, <1>n, ImportStack
    <3> HIDE DEF e
    <3>2. Top = stack[n]
      BY <1>n DEF Top
    <3> QED
      BY <3>1, <3>2
  <2>2. stack[n] \in Frames
    <3>1. stack \in Seq(Frames) /\ n \in 1..Len(stack)
      BY <1>n, <2>1 DEF CallInv
    <3> QED
      BY <3>1
  <2>3. stack'[n].current = cwd /\ Dir(stack'[n]) = Dir(stack[n])
    BY <2>1, <2>2 DEF Frames, ImportsAt, SchemasOf
  <2> HIDE DEF Dir
  <2>4. /\ DirectoryOf(n + 1)' = cwd'
        /\ \A k \in 1..n : DirectoryOf(k)' = DirectoryOf(k)
    <3>1. DirectoryOf(n + 1)' = cwd'
      BY <2>1 DEF DirectoryOf
    <3>2. DirectoryOf(n)' = DirectoryOf(n)
      BY <1>n, <2>1, <2>3 DEF DirectoryOf
    <3>3. \A k \in 1..n : k # n => DirectoryOf(k)' = DirectoryOf(k)
      <4> SUFFICES ASSUME NEW k \in 1..n, k # n PROVE DirectoryOf(k)' = DirectoryOf(k)
        OBVIOUS
      <4>1. k \in 1..(n - 1) /\ k # n + 1
        BY <2>1
      <4>2. stack'[k] = stack[k]
        BY <2>1, <4>1
      <4> QED
        BY <1>n, <2>1, <4>1, <4>2 DEF DirectoryOf
    <3> QED
      BY <3>1, <3>2, <3>3
  <2>5. cwd \in world.dirs
    BY DEF CallInv
  <2>6. \A k \in 1..Len(stack') : DirectoryOf(k)' \in world.dirs
    BY <1>n, <2>1, <2>4 DEF DirectoryInv
  <2>7. ASSUME NEW k \in 1..(Len(stack') - 1), Dir(stack'[k]) = << >>
        PROVE  Above(DirectoryOf(k + 1)', DirectoryOf(k)')
    <3>1. CASE k = n
      <4>1. cwd' = cwd /\ DirectoryOf(n) = cwd
        BY <1>n, <2>1, <2>3, <2>7, <3>1 DEF DirectoryOf
      <4> QED
        BY <4>1, <2>1, <2>4, <2>5, <3>1, <1>t, AboveParent
    <3>2. CASE k # n
      <4>1. k \in 1..(n - 1) /\ k \in 1..n /\ k + 1 \in 1..n
        BY <2>1, <3>2
      <4>2. Dir(stack[k]) = << >>
        BY <2>1, <2>7, <4>1
      <4>3. Above(DirectoryOf(k + 1), DirectoryOf(k))
        BY <1>n, <4>1, <4>2 DEF DirectoryInv, Dir
      <4> QED
        BY <2>4, <4>1, <4>3
    <3> QED
      BY <3>1, <3>2
  <2>8. stack' # << >> /\ Above(DirectoryOf(1)', world.start)
    <3>1. 1 \in 1..n /\ stack' # << >>
      BY <2>1
    <3> QED
      BY <2>1, <2>4, <3>1 DEF DirectoryInv
  <2>9. ~Located(world) => cwd' = world.start
    <3>1. ~Located(world) => Dir(stack[n]) = << >>
      BY <2>1, <2>2, ImportIsLocated DEF Dir
    <3> QED
      BY <3>1, <2>1 DEF DirectoryInv
  <2> USE DEF Dir
  <2>10. \A k \in 1..(Len(stack') - 1) :
          Dir(stack'[k]) = << >> => Above(DirectoryOf(k + 1)', DirectoryOf(k)')
    BY <2>7
  <2> QED
    BY <1>a, <2>6, <2>8, <2>9, <2>10
<1>2. CASE Register
  <2>1. /\ n \in Nat \ {0} /\ stack # << >> /\ Len(stack') = n /\ stack' \in Seq(Frames)
        /\ \A k \in 1..(n - 1) : stack'[k] = stack[k]
        /\ stack'[n] = [stack[n] EXCEPT !.schema = @ + 1, !.import = 1]
        /\ cwd' = cwd
    BY <1>2, <1>n, RegisterStack
  <2>2. \A k \in 1..n : DirectoryOf(k)' = DirectoryOf(k)
    <3>1. \A k \in 1..n : k = n \/ k \in 1..(n - 1)
      BY <2>1
    <3> QED
      BY <1>n, <2>1, <3>1 DEF DirectoryOf
  <2>3. 1 \in 1..n /\ stack' # << >>
    BY <2>1
  <2>4. \A k \in 1..(n - 1) : k \in 1..n /\ k + 1 \in 1..n
    BY <2>1
  <2>5. ASSUME NEW k \in 1..(Len(stack') - 1), Dir(stack'[k]) = << >>
        PROVE  Above(DirectoryOf(k + 1)', DirectoryOf(k)')
    <3>1. k \in 1..(n - 1) /\ stack'[k] = stack[k]
      BY <2>1
    <3>2. Above(DirectoryOf(k + 1), DirectoryOf(k))
      BY <1>n, <2>5, <3>1 DEF DirectoryInv
    <3> QED
      BY <2>2, <2>4, <3>1, <3>2
  <2>6. \A k \in 1..Len(stack') : DirectoryOf(k)' \in world.dirs
    BY <1>n, <2>1, <2>2 DEF DirectoryInv
  <2>7. Above(DirectoryOf(1)', world.start)
    BY <2>1, <2>2, <2>3 DEF DirectoryInv
  <2>8. ~Located(world) => cwd' = world.start
    BY <2>1 DEF DirectoryInv
  <2> QED
    BY <1>a, <2>3, <2>5, <2>6, <2>7, <2>8
<1>3. CASE ReturnToImport
  <2>0. PICK m \in Int : m = n - 1
    OBVIOUS
  <2> DEFINE caller == stack[m]
  <2>1. /\ n > 1 /\ Len(stack') = m /\ stack' \in Seq(Frames)
        /\ \A k \in 1..(n - 2) : stack'[k] = stack[k]
        /\ stack'[m].current = caller.current
        /\ cwd' = IF Dir(caller) # << >> THEN ChangedTo(Parent(caller.current)) ELSE cwd
    BY <1>3, <1>n, <2>0, ReturnStack
  <2>2. m \in Nat \ {0} /\ m \in 1..n /\ m \in 1..(n - 1) /\ n = m + 1 /\ n - 2 = m - 1
    BY <2>0, <2>1
  <2>3. caller \in Frames /\ Waiting(caller)
    <3>1. m \in 1..Len(stack) /\ m \in 1..(Len(stack) - 1)
      BY <1>n, <2>2
    <3> QED
      BY <3>1 DEF CallInv
  <2> HIDE DEF caller
  <2>4. DirectoryOf(m) = caller.current /\ DirectoryOf(n) = cwd
    BY <1>n, <2>2 DEF DirectoryOf, caller
  <2>5. caller.current \in world.dirs /\ caller.current \in Seq(STRING)
    BY <1>n, <2>2, <2>4, <1>t DEF DirectoryInv
  <2>6. cwd' \in world.dirs /\ cwd' \in Seq(STRING) /\ Above(cwd', caller.current)
    <3>1. CASE Dir(caller) # << >>
      <4>1. cwd' = Parent(caller.current) /\ cwd' \in world.dirs
        BY <2>1, <2>5, <3>1, ParentType
      <4> QED
        BY <4>1, <2>5, AboveParent, <1>t
    <3>2. CASE Dir(caller) = << >>
      <4>1. Above(DirectoryOf(m + 1), DirectoryOf(m))
        BY <1>n, <2>2, <3>2 DEF DirectoryInv, caller
      <4> QED
        BY <2>1, <2>2, <2>4, <3>2, <4>1, <1>c, <1>t
    <3> QED
      BY <3>1, <3>2
  <2>7. DirectoryOf(m)' = cwd' /\ \A k \in 1..(m - 1) : DirectoryOf(k)' = DirectoryOf(k)
    BY <1>n, <2>1, <2>2 DEF DirectoryOf
  <2>8. \A k \in 1..Len(stack') : DirectoryOf(k)' \in world.dirs
    <3>1. \A k \in 1..m : k = m \/ k \in 1..(m - 1)
      BY <2>2
    <3>2. \A k \in 1..(m - 1) : k \in 1..n
      BY <2>2
    <3> QED
      BY <1>n, <2>1, <2>6, <2>7, <3>1, <3>2 DEF DirectoryInv
  <2>9. ASSUME NEW k \in 1..(Len(stack') - 1), Dir(stack'[k]) = << >>
        PROVE  Above(DirectoryOf(k + 1)', DirectoryOf(k)')
    <3>1. k \in 1..(m - 1) /\ k \in 1..(n - 1) /\ k \in 1..n /\ k + 1 \in 1..n /\ stack'[k] = stack[k]
      BY <2>1, <2>2
    <3>2. Above(DirectoryOf(k + 1), DirectoryOf(k))
      BY <1>n, <2>9, <3>1 DEF DirectoryInv
    <3>3. CASE k + 1 = m
      <4>1. Above(cwd', DirectoryOf(k + 1)) /\ DirectoryOf(k + 1)' = cwd'
        BY <2>4, <2>6, <2>7, <3>3
      <4>2. DirectoryOf(k) \in Seq(STRING) /\ DirectoryOf(k + 1) \in Seq(STRING)
        BY <1>n, <1>c, <3>1
      <4>3. Above(cwd', DirectoryOf(k))
        BY <2>6, <3>2, <4>1, <4>2, AboveTransitive
      <4> QED
        BY <2>7, <3>1, <4>1, <4>3
    <3>4. CASE k + 1 # m
      <4>1. k + 1 \in 1..(m - 1)
        BY <2>2, <3>1, <3>4
      <4> QED
        BY <2>7, <3>1, <3>2, <4>1
    <3> QED
      BY <3>3, <3>4
  <2>10. stack' # << >> /\ Above(DirectoryOf(1)', world.start)
    <3>0. stack' # << >>
      BY <2>1, <2>2
    <3>1. Above(DirectoryOf(1), world.start)
      <4>1. stack # << >>
        BY <1>n, <2>1
      <4> QED
        BY <4>1 DEF DirectoryInv
    <3>2. CASE m = 1
      <4>1. Above(cwd', DirectoryOf(1)) /\ DirectoryOf(1) \in Seq(STRING)
        BY <2>4, <2>5, <2>6, <3>2
      <4>2. Above(cwd', world.start)
        BY <1>t, <2>6, <3>1, <4>1, AboveTransitive
      <4> QED
        BY <2>7, <3>0, <3>2, <4>2
    <3>3. CASE m # 1
      <4>1. 1 \in 1..(m - 1)
        BY <2>2, <3>3
      <4> QED
        BY <2>7, <3>0, <3>1, <4>1
    <3> QED
      BY <3>2, <3>3
  <2>11. ~Located(world) => cwd' = world.start
    <3>1. ~Located(world) => Dir(caller) = << >>
      BY <2>3, ImportIsLocated
    <3> QED
      BY <2>1, <3>1 DEF DirectoryInv
  <2>12. \A k \in 1..(Len(stack') - 1) :
          Dir(stack'[k]) = << >> => Above(DirectoryOf(k + 1)', DirectoryOf(k)')
    BY <2>9
  <2> QED
    BY <1>a, <2>8, <2>10, <2>11, <2>12
<1>4. CASE Finish
  <2>1. stack' = << >> /\ cwd' = cwd /\ Len(stack) = 1
    BY <1>4 DEF Finish
  <2>2. stack # << >> /\ DirectoryOf(1) = cwd
    BY <2>1 DEF DirectoryOf
  <2>3. Above(cwd', world.start) /\ (~Located(world) => cwd' = world.start)
    BY <2>1, <2>2 DEF DirectoryInv
  <2>4. Len(stack') = 0
    BY <2>1
  <2> QED
    BY <1>a, <2>1, <2>3, <2>4
<1>5. CASE UNCHANGED vars
  <2>1. UNCHANGED <<world, cwd, stack>>
    BY <1>5 DEF vars
  <2>2. \A k : DirectoryOf(k)' = DirectoryOf(k)
    BY <2>1 DEF DirectoryOf
  <2> QED
    BY <1>a, <2>1, <2>2 DEF DirectoryInv
<1> QED
  BY <1>1, <1>2, <1>3, <1>4, <1>5 DEF Next

-----------------------------------------------------------------------------
(* Only the first document imports.                                        *)
LEMMA WaitsInMain ==
  ASSUME WellFormed, CallInv, Shallow(world), NEW f \in Frames, Waiting(f)
  PROVE  f.file = world.main
<1> DEFINE d == world.files[f.file]
           e == SchemasOf(f)[f.schema]
           i == e.imports[f.import]
<1>1. f.file \in DOMAIN world.files
  BY DEF Waiting, Frames
<1>2. e \in Values(d.schemas)
  BY <1>1, FileTypes DEF Waiting, Values, SchemasOf
<1>3. i \in Values(e.imports)
  <2>1. e.imports \in Seq(ImportElements) /\ f.import \in 1..Len(e.imports)
    BY <1>1, FileTypes DEF Waiting, SchemasOf, ImportsAt
  <2> HIDE DEF e
  <2> QED
    BY <2>1 DEF Values
<1> HIDE DEF e, i, d
<1>4. i \in AllImports(d)
  BY <1>2, <1>3 DEF AllImports
<1> QED
  BY <1>1, <1>4 DEF Shallow, d

\* What an import under way does, when files are beside each other.
LEMMA SimpleImport ==
  ASSUME WellFormed, CallInv, DirectoryInv, Simple, Import
  PROVE  LET n == Len(stack)
         IN /\ stack[n] \in Frames /\ Waiting(stack[n]) /\ stack[n].file = world.main
            /\ Calls(stack[n], stack'[n + 1])
            /\ stack'[n + 1].schema = 1 /\ stack'[n + 1].import = 1
<1> DEFINE e == Current.imports[Top.import]
<1>1. PICK n \in Nat \ {0} : n = Len(stack)
  BY ImportStack
<1>2. /\ e \in ImportElements /\ Waiting(Top) /\ e = ImportsAt(stack[n])[stack[n].import]
      /\ stack'[n + 1] = Frame(LoadedFrom(cwd', e.name), e.ns)
      /\ (e.dir = << >> => cwd' = cwd)
  BY <1>1, ImportStack
<1> HIDE DEF e
<1>3. stack[n] \in Frames /\ Top = stack[n]
  BY <1>1 DEF CallInv, Top
<1>4. e.dir = << >>
  BY <1>2, <1>3, ImportIsLocated DEF Simple
<1>5. cwd' = world.start
  BY <1>2, <1>4 DEF DirectoryInv, Simple
<1>6. /\ stack'[n + 1].file = LoadedFrom(world.start, e.name) /\ stack'[n + 1].target = e.ns
      /\ stack'[n + 1].schema = 1 /\ stack'[n + 1].import = 1
  BY <1>2, <1>5 DEF Frame
<1>7. Calls(stack[n], stack'[n + 1])
  BY <1>2, <1>6 DEF Calls
<1> QED
  BY <1>1, <1>2, <1>3, <1>6, <1>7, WaitsInMain DEF Simple

\* What a call depends on.
LEMMA SameCall ==
  ASSUME NEW f, NEW g, NEW f1, NEW g1, Calls(f, g), world' = world,
         f1.file = f.file, f1.schema = f.schema, f1.import = f.import,
         g1.file = g.file, g1.target = g.target
  PROVE  Calls(f1, g1) /\ Calls(f1, g1)'
  BY DEF Calls, ImportsAt, SchemasOf, LoadedFrom

LEMMA NextCallee ==
  WellFormed /\ CallInv /\ DirectoryInv /\ Simple /\ CalleeInv /\ [Next]_vars => CalleeInv'
<1> SUFFICES ASSUME WellFormed, CallInv, DirectoryInv, Simple, CalleeInv, [Next]_vars PROVE CalleeInv'
  OBVIOUS
<1>n. PICK n \in Nat : n = Len(stack)
  BY DEF CallInv
<1>0. world' = world /\ stack \in Seq(Frames)
  BY NextCall DEF CallInv
<1>c. /\ stack # << >> => stack[1].file = world.main /\ stack[1].target = NoNs
      /\ \A k \in 1..(n - 1) : stack[k].file = world.main /\ Calls(stack[k], stack[k + 1])
      /\ n # 0 => stack # << >>
  BY <1>n DEF CalleeInv
<1>a. ASSUME stack' # << >> => stack'[1].file = world.main /\ stack'[1].target = NoNs,
             \A k \in 1..(Len(stack') - 1) : stack'[k].file = world.main /\ Calls(stack'[k], stack'[k + 1])
      PROVE  CalleeInv'
  <2>1. \A f, g : Calls(f, g)' <=> Calls(f, g)
    BY <1>0 DEF Calls, ImportsAt, SchemasOf, LoadedFrom
  <2> QED
    BY <1>0, <1>a, <2>1 DEF CalleeInv, Calls, ImportsAt, SchemasOf, LoadedFrom
<1>1. CASE Import
  <2>1. /\ n \in Nat \ {0} /\ Len(stack') = n + 1 /\ stack # << >>
        /\ \A k \in 1..(n - 1) : stack'[k] = stack[k]
        /\ stack'[n] = [stack[n] EXCEPT !.current = cwd]
    BY <1>1, <1>n, ImportStack
  <2>2. stack[n] \in Frames /\ stack[n].file = world.main /\ Calls(stack[n], stack'[n + 1])
    BY <1>1, <1>n, SimpleImport
  <2>3. /\ stack'[n].file = stack[n].file /\ stack'[n].target = stack[n].target
        /\ stack'[n].schema = stack[n].schema /\ stack'[n].import = stack[n].import
    BY <2>1, <2>2 DEF Frames
  <2>4. Calls(stack'[n], stack'[n + 1])
    BY <1>0, <2>2, <2>3, SameCall
  <2>5. \A k \in 1..n : stack'[k].file = stack[k].file /\ stack'[k].target = stack[k].target
    <3>1. \A k \in 1..n : k = n \/ k \in 1..(n - 1)
      BY <2>1
    <3> QED
      BY <2>1, <2>3, <3>1
  <2>6. ASSUME NEW k \in 1..(n - 1)
        PROVE  stack'[k].file = world.main /\ Calls(stack'[k], stack'[k + 1])
    <3>1. k \in 1..n /\ k + 1 \in 1..n /\ stack'[k] = stack[k]
      BY <2>1
    <3>2. Calls(stack[k], stack[k + 1])
      BY <1>c
    <3>3. Calls(stack[k], stack'[k + 1])
      BY <1>0, <2>5, <3>1, <3>2, SameCall
    <3> QED
      BY <1>c, <3>1, <3>3
  <2>7. \A k \in 1..(Len(stack') - 1) : k = n \/ k \in 1..(n - 1)
    BY <2>1
  <2>8. stack'[1].file = world.main /\ stack'[1].target = NoNs
    <3>1. 1 \in 1..n
      BY <2>1
    <3> QED
      BY <1>c, <2>1, <2>5, <3>1
  <2> QED
    BY <1>a, <2>2, <2>3, <2>4, <2>6, <2>7, <2>8
<1>2. CASE Register
  <2>1. /\ n \in Nat \ {0} /\ Len(stack') = n /\ stack # << >>
        /\ \A k \in 1..(n - 1) : stack'[k] = stack[k]
        /\ stack'[n] = [stack[n] EXCEPT !.schema = @ + 1, !.import = 1]
    BY <1>2, <1>n, RegisterStack
  <2>2. stack'[n].file = stack[n].file /\ stack'[n].target = stack[n].target
    BY <2>1
  <2>5. \A k \in 1..n : stack'[k].file = stack[k].file /\ stack'[k].target = stack[k].target
    <3>1. \A k \in 1..n : k = n \/ k \in 1..(n - 1)
      BY <2>1
    <3> QED
      BY <2>1, <2>2, <3>1
  <2>6. ASSUME NEW k \in 1..(n - 1)
        PROVE  stack'[k].file = world.main /\ Calls(stack'[k], stack'[k + 1])
    <3>1. k \in 1..n /\ k + 1 \in 1..n /\ stack'[k] = stack[k]
      BY <2>1
    <3>2. Calls(stack[k], stack[k + 1])
      BY <1>c
    <3>3. Calls(stack[k], stack'[k + 1])
      BY <1>0, <2>5, <3>1, <3>2, SameCall
    <3> QED
      BY <1>c, <3>1, <3>3
  <2>8. stack'[1].file = world.main /\ stack'[1].target = NoNs
    <3>1. 1 \in 1..n
      BY <2>1
    <3> QED
      BY <1>c, <2>1, <2>5, <3>1
  <2> QED
    BY <1>a, <2>1, <2>6, <2>8
<1>3. CASE ReturnToImport
  <2>0. PICK m \in Int : m = n - 1
    OBVIOUS
  <2>1. /\ n > 1 /\ Len(stack') = m
        /\ \A k \in 1..(n - 2) : stack'[k] = stack[k]
        /\ stack'[m].file = stack[m].file /\ stack'[m].target = stack[m].target
    BY <1>3, <1>n, <2>0, ReturnStack
  <2>2. m \in Nat \ {0} /\ n - 2 = m - 1 /\ \A k \in 1..m : k \in 1..(n - 1)
    BY <2>0, <2>1
  <2>5. \A k \in 1..m : stack'[k].file = stack[k].file /\ stack'[k].target = stack[k].target
    <3>1. \A k \in 1..m : k = m \/ k \in 1..(m - 1)
      BY <2>2
    <3> QED
      BY <2>1, <2>2, <3>1
  <2>6. ASSUME NEW k \in 1..(m - 1)
        PROVE  stack'[k].file = world.main /\ Calls(stack'[k], stack'[k + 1])
    <3>1. k \in 1..(n - 1) /\ k + 1 \in 1..m /\ stack'[k] = stack[k]
      BY <2>1, <2>2
    <3>2. Calls(stack[k], stack[k + 1])
      BY <1>c, <3>1
    <3>3. Calls(stack[k], stack'[k + 1])
      BY <1>0, <2>5, <3>1, <3>2, SameCall
    <3> QED
      BY <1>c, <3>1, <3>3
  <2>8. stack'[1].file = world.main /\ stack'[1].target = NoNs
    <3>1. 1 \in 1..m /\ n # 0
      BY <2>1, <2>2
    <3> QED
      BY <1>c, <2>5, <3>1
  <2> QED
    BY <1>a, <2>1, <2>6, <2>8
<1>4. CASE Finish
  <2>1. stack' = << >>
    BY <1>4 DEF Finish
  <2>2. \A k \in 1..(Len(stack') - 1) : FALSE
    BY <2>1
  <2> QED
    BY <1>a, <2>1, <2>2
<1>5. CASE UNCHANGED vars
  <2>1. stack' = stack
    BY <1>5 DEF vars
  <2> QED
    BY <1>a, <1>c, <1>n, <2>1
<1> QED
  BY <1>1, <1>2, <1>3, <1>4, <1>5 DEF Next

-----------------------------------------------------------------------------
\* The loops over the schemas and imports of the first document.
LEMMA MainTypes ==
  ASSUME WellFormed, CallInv
  PROVE  /\ world.main \in DOMAIN world.files /\ world.main # << >> /\ << >> \notin DOMAIN world.files
         /\ Len(Main) \in Nat /\ DOMAIN Main = 1..Len(Main)
         /\ \A k \in 1..Len(Main) : /\ Len(Main[k].imports) \in Nat
                                    /\ DOMAIN Main[k].imports = 1..Len(Main[k].imports)
<1>1. world.main \in DOMAIN world.files /\ << >> \notin DOMAIN world.files
  BY DEF WellFormed, CallInv
<1>2. /\ Len(Main) \in Nat /\ DOMAIN Main = 1..Len(Main)
      /\ \A k \in 1..Len(Main) : Main[k].imports \in Seq(ImportElements)
  BY <1>1, FileTypes DEF Main
<1>3. \A e \in Seq(ImportElements) : Len(e) \in Nat /\ DOMAIN e = 1..Len(e)
  OBVIOUS
<1> QED
  BY <1>1, <1>2, <1>3

\* An activation that returns has been through all its schemas.
LEMMA ReturnIsPast ==
  ASSUME WellFormed, CallInv, AtReturn, Top.file = world.main,
         NEW k \in 1..Len(Main), NEW j \in Nat
  PROVE  ~NotPast(Top, k, j)
<1>1. Top.schema > Len(Main)
  BY MainTypes DEF AtReturn, Document, Main
<1>2. Top.schema \in Nat
  BY TopTypes DEF AtReturn, Frames
<1>3. Len(Main) \in Nat
  BY MainTypes
<1> QED
  BY <1>1, <1>2, <1>3 DEF NotPast

LEMMA NextBlock ==
  WellFormed /\ CallInv /\ DirectoryInv /\ Simple /\ CalleeInv /\ BlockInv /\ [Next]_vars => BlockInv'
<1> SUFFICES ASSUME WellFormed, CallInv, DirectoryInv, Simple, CalleeInv, BlockInv, [Next]_vars
             PROVE  BlockInv'
  OBVIOUS
<1>n. PICK n \in Nat : n = Len(stack)
  BY DEF CallInv
<1>0. world' = world /\ stack \in Seq(Frames)
  BY NextCall DEF CallInv
<1>b. /\ \A k, j : Blocking(k, j)' <=> Blocking(k, j)
      /\ Blocked' <=> Blocked
      /\ Main' = Main
  BY <1>0 DEF Blocking, Blocked, Main
<1>a. ASSUME Blocked => ~done',
             ASSUME NEW k \in 1..Len(Main), NEW j \in 1..Len(Main[k].imports), Blocking(k, j),
                    NEW m \in 1..Len(stack'), stack'[m].file = world.main
             PROVE  NotPast(stack'[m], k, j)
      PROVE  BlockInv'
  BY <1>0, <1>a, <1>b DEF BlockInv, NotPast
<1>c. ASSUME NEW k \in 1..Len(Main), NEW j \in 1..Len(Main[k].imports), Blocking(k, j),
             NEW m \in 1..n, stack[m].file = world.main
      PROVE  NotPast(stack[m], k, j)
  BY <1>n, <1>c DEF BlockInv
<1>t. \A k \in 1..Len(Main) : \A j \in 1..Len(Main[k].imports) : k \in Nat /\ j \in Nat /\ k >= 1 /\ j >= 1
  BY MainTypes
<1>1. CASE Import
  <2>1. /\ n \in Nat \ {0} /\ Len(stack') = n + 1
        /\ \A k \in 1..(n - 1) : stack'[k] = stack[k]
        /\ stack'[n] = [stack[n] EXCEPT !.current = cwd]
    BY <1>1, <1>n, ImportStack
  <2>2. /\ stack[n] \in Frames
        /\ stack'[n + 1].schema = 1 /\ stack'[n + 1].import = 1
    BY <1>1, <1>n, SimpleImport
  <2>3. /\ stack'[n].file = stack[n].file
        /\ stack'[n].schema = stack[n].schema /\ stack'[n].import = stack[n].import
    BY <2>1, <2>2 DEF Frames
  <2>4. done' = done
    BY <1>1 DEF Import
  <2>5. ASSUME NEW k \in 1..Len(Main), NEW j \in 1..Len(Main[k].imports), Blocking(k, j),
               NEW m \in 1..Len(stack'), stack'[m].file = world.main
        PROVE  NotPast(stack'[m], k, j)
    <3>1. CASE m = n + 1
      BY <1>t, <2>2, <3>1 DEF NotPast
    <3>2. CASE m = n
      <4>1. NotPast(stack[n], k, j)
        <5>1. stack[n].file = world.main
          BY <2>3, <2>5, <3>2
        <5>2. n \in 1..n
          BY <2>1
        <5> QED
          BY <1>c, <2>5, <5>1, <5>2
      <4> QED
        BY <2>3, <3>2, <4>1 DEF NotPast
    <3>3. CASE m \in 1..(n - 1)
      <4>1. m \in 1..n /\ stack'[m] = stack[m]
        BY <2>1, <3>3
      <4> QED
        BY <1>c, <2>5, <4>1
    <3> QED
      BY <2>1, <3>1, <3>2, <3>3
  <2> QED
    BY <1>a, <2>4, <2>5 DEF BlockInv
<1>2. CASE Register
  <2>1. /\ n \in Nat \ {0} /\ Len(stack') = n
        /\ \A k \in 1..(n - 1) : stack'[k] = stack[k]
        /\ stack'[n] = [stack[n] EXCEPT !.schema = @ + 1, !.import = 1]
        /\ stack[n] \in Frames
    BY <1>2, <1>n, <1>0, RegisterStack
  <2>2. /\ stack'[n].file = stack[n].file
        /\ stack'[n].schema = stack[n].schema + 1 /\ stack'[n].import = 1
        /\ stack[n].schema \in Nat /\ stack[n].import \in Nat
    BY <2>1 DEF Frames
  <2>3. done' = done /\ Top = stack[n]
    BY <1>2, <1>n DEF Register, Top
  <2>4. stack[n].file = world.main => stack[n].import > Len(Main[stack[n].schema].imports)
    BY <1>2, <2>3 DEF Register, Current, Document, Main
  <2>5. ASSUME NEW k \in 1..Len(Main), NEW j \in 1..Len(Main[k].imports), Blocking(k, j),
               NEW m \in 1..Len(stack'), stack'[m].file = world.main
        PROVE  NotPast(stack'[m], k, j)
    <3>1. CASE m = n
      <4>1. NotPast(stack[n], k, j) /\ stack[n].file = world.main
        BY <1>c, <2>1, <2>2, <2>5, <3>1
      <4>2. stack[n].schema < k
        <5>1. CASE stack[n].schema = k /\ stack[n].import <= j
          <6>1. stack[n].import > Len(Main[k].imports) /\ Len(Main[k].imports) \in Nat
            BY <2>4, <4>1, <5>1, MainTypes
          <6> QED
            BY <2>2, <5>1, <6>1
        <5> QED
          BY <4>1, <5>1 DEF NotPast
      <4>3. k \in Nat /\ j \in Nat /\ j >= 1
        BY <1>t
      <4>4. PICK a \in Nat : a < k /\ stack'[n].schema = a + 1 /\ stack'[n].import = 1
        BY <2>2, <4>2
      <4>5. a + 1 < k \/ a + 1 = k
        BY <4>3, <4>4
      <4> QED
        BY <3>1, <4>3, <4>4, <4>5 DEF NotPast
    <3>2. CASE m \in 1..(n - 1)
      BY <1>c, <2>1, <2>5, <3>2
    <3> QED
      BY <2>1, <3>1, <3>2
  <2> QED
    BY <1>a, <2>3, <2>5 DEF BlockInv
<1>3. CASE ReturnToImport
  <2>0. PICK p \in Int : p = n - 1
    OBVIOUS
  <2>1. /\ n > 1 /\ Len(stack') = p
        /\ \A k \in 1..(n - 2) : stack'[k] = stack[k]
        /\ stack'[p].file = stack[p].file /\ stack'[p].schema = stack[p].schema
        /\ stack'[p].import = IF world.files[stack[p].file].kind = "schema"
                              THEN stack[p].import ELSE stack[p].import + 1
    BY <1>3, <1>n, <2>0, ReturnStack
  <2>2. p \in Nat \ {0} /\ p \in 1..(n - 1) /\ p \in 1..n /\ n = p + 1 /\ n - 2 = p - 1
    BY <2>0, <2>1
  <2>3. done' = done /\ AtReturn /\ Top = stack[n] /\ n \in 1..n
    <3>1. done' = done /\ AtReturn
      BY <1>3 DEF ReturnToImport
    <3> QED
      BY <1>n, <2>2, <3>1 DEF Top
  <2>4. /\ stack[p].file = world.main /\ Calls(stack[p], stack[n])
        /\ stack[p] \in Frames
    <3>1. stack[p].file = world.main /\ Calls(stack[p], stack[p + 1])
      BY <1>n, <2>2 DEF CalleeInv
    <3>2. stack[p] \in Frames
      <4>1. p \in 1..Len(stack)
        BY <1>n, <2>2
      <4> QED
        BY <1>0, <4>1
    <3> QED
      BY <2>2, <3>1, <3>2
  <2>5. ASSUME NEW k \in 1..Len(Main), NEW j \in 1..Len(Main[k].imports), Blocking(k, j),
               NEW m \in 1..Len(stack'), stack'[m].file = world.main
        PROVE  NotPast(stack'[m], k, j)
    <3>1. CASE m = p
      <4>1. NotPast(stack[p], k, j)
        BY <1>c, <2>2, <2>4, <2>5
      <4>2. stack[p].schema \in Nat /\ stack[p].import \in Nat
        BY <2>4 DEF Frames
      <4>3. CASE world.files[world.main].kind = "schema"
        BY <2>1, <2>4, <3>1, <4>1, <4>3 DEF NotPast
      <4>4. CASE world.files[world.main].kind # "schema" /\ stack[p].schema = k /\ stack[p].import = j
        <5>1. Append(world.start, Main[k].imports[j].name) = world.main
          BY <2>5, <4>4 DEF Blocking
        <5>2. Main[k].imports[j] = ImportsAt(stack[p])[stack[p].import]
          BY <2>4, <4>4 DEF ImportsAt, SchemasOf, Main
        <5>3. stack[n].file = world.main
          BY <2>4, <5>1, <5>2, MainTypes DEF Calls, LoadedFrom
        <5>4. NotPast(stack[n], k, j)
          BY <1>c, <2>3, <2>5, <5>3
        <5> QED
          BY <1>t, <2>3, <5>3, <5>4, ReturnIsPast
      <4>5. CASE ~(stack[p].schema = k /\ stack[p].import = j)
        <5>1. stack[p].schema < k \/ (stack[p].schema = k /\ stack[p].import + 1 <= j)
          BY <1>t, <4>1, <4>2, <4>5 DEF NotPast
        <5>2. stack'[p].import = stack[p].import \/ stack'[p].import = stack[p].import + 1
          BY <2>1
        <5> QED
          BY <1>t, <2>1, <3>1, <4>2, <5>1, <5>2 DEF NotPast
      <4> QED
        BY <4>3, <4>4, <4>5
    <3>2. CASE m \in 1..(p - 1)
      <4>1. m \in 1..n /\ stack'[m] = stack[m]
        BY <2>1, <2>2, <3>2
      <4> QED
        BY <1>c, <2>5, <4>1
    <3> QED
      BY <2>1, <2>2, <3>1, <3>2
  <2> QED
    BY <1>a, <2>3, <2>5 DEF BlockInv
<1>4. CASE Finish
  <2>1. stack' = << >> /\ AtReturn /\ n = 1 /\ n \in 1..n
    BY <1>4, <1>n DEF Finish
  <2>2. Top = stack[n] /\ stack[n].file = world.main
    BY <1>n, <2>1 DEF Top, CalleeInv, AtReturn
  <2>3. ~Blocked
    <3> SUFFICES ASSUME NEW k \in 1..Len(Main), NEW j \in 1..Len(Main[k].imports), Blocking(k, j)
                 PROVE  FALSE
      BY DEF Blocked
    <3>1. NotPast(stack[n], k, j)
      BY <1>c, <2>1, <2>2
    <3> QED
      BY <1>t, <2>1, <2>2, <3>1, ReturnIsPast
  <2>4. \A m \in 1..Len(stack') : FALSE
    BY <2>1
  <2> QED
    BY <1>a, <2>3, <2>4
<1>5. CASE UNCHANGED vars
  <2>1. stack' = stack /\ done' = done
    BY <1>5 DEF vars
  <2>2. Blocked => ~done'
    BY <2>1 DEF BlockInv
  <2> QED
    BY <1>a, <1>c, <1>n, <2>1, <2>2
<1> QED
  BY <1>1, <1>2, <1>3, <1>4, <1>5 DEF Next

-----------------------------------------------------------------------------
\* A schema is a file and the number of one of its schemas.
LEMMA SchemaPairs ==
  ASSUME WellFormed, CallInv
  PROVE  /\ \A s \in Schemas(world) : /\ s[1] \in DOMAIN world.files /\ s = <<s[1], s[2]>>
                                      /\ s[2] \in 1..Len(world.files[s[1]].schemas)
         /\ \A f \in DOMAIN world.files : Len(world.files[f].schemas) \in Nat
<1>1. \A f \in DOMAIN world.files : /\ Len(world.files[f].schemas) \in Nat
                                    /\ DOMAIN world.files[f].schemas = 1..Len(world.files[f].schemas)
  BY FileTypes
<1>2. ASSUME NEW s \in Schemas(world)
      PROVE  /\ s[1] \in DOMAIN world.files /\ s = <<s[1], s[2]>>
             /\ s[2] \in 1..Len(world.files[s[1]].schemas)
  <2>1. PICK f \in DOMAIN world.files : \E k \in DOMAIN world.files[f].schemas : s = <<f, k>>
    BY DEF Schemas
  <2>2. PICK k \in 1..Len(world.files[f].schemas) : s = <<f, k>>
    BY <1>1, <2>1
  <2> QED
    BY <2>2
<1> QED
  BY <1>1, <1>2

\* An import names the file and the namespace of s, or no namespace.
NamesSchema(i, s) ==
  /\ Append(world.start, i.name) = s[1]
  /\ i.ns \in {world.files[s[1]].schemas[s[2]].ns, NoNs}

LEMMA NamingPairs ==
  ASSUME WellFormed, CallInv, NEW s
  PROVE  /\ \A p \in ImportsNaming(s) : /\ p[1] \in 1..Len(Main) /\ p = <<p[1], p[2]>>
                                        /\ p[2] \in 1..Len(Main[p[1]].imports)
         /\ \A k \in 1..Len(Main) : \A j \in 1..Len(Main[k].imports) :
              <<k, j>> \in ImportsNaming(s) <=> NamesSchema(Main[k].imports[j], s)
<1>1. \A p : p \in ImportsNaming(s) <=>
        \E k \in DOMAIN Main : \E j \in DOMAIN Main[k].imports :
          p = <<k, j>> /\ NamesSchema(Main[k].imports[j], s)
  <2> DEFINE Chosen(k) == {l \in DOMAIN Main[k].imports : NamesSchema(Main[k].imports[l], s)}
             Of(k) == {<<k, j>> : j \in Chosen(k)}
  <2>1. ImportsNaming(s) = UNION {Of(k) : k \in DOMAIN Main}
    BY DEF ImportsNaming, NamesSchema, Main
  <2>2. \A p, k : p \in Of(k) <=> \E j \in Chosen(k) : p = <<k, j>>
    OBVIOUS
  <2>3. \A k, j : j \in Chosen(k) <=> j \in DOMAIN Main[k].imports /\ NamesSchema(Main[k].imports[j], s)
    OBVIOUS
  <2> HIDE DEF Of, Chosen
  <2>4. \A p : p \in ImportsNaming(s) <=> \E k \in DOMAIN Main : p \in Of(k)
    BY <2>1, Zenon
  <2> QED
    BY <2>2, <2>3, <2>4, Zenon
<1>2. \A p : p \in ImportsNaming(s) <=>
        \E k \in 1..Len(Main) : \E j \in 1..Len(Main[k].imports) :
          p = <<k, j>> /\ NamesSchema(Main[k].imports[j], s)
  <2>1. DOMAIN Main = 1..Len(Main) /\ \A k \in 1..Len(Main) : DOMAIN Main[k].imports = 1..Len(Main[k].imports)
    BY MainTypes
  <2> SUFFICES ASSUME NEW p
               PROVE  p \in ImportsNaming(s) <=>
                        \E k \in 1..Len(Main) : \E j \in 1..Len(Main[k].imports) :
                          p = <<k, j>> /\ NamesSchema(Main[k].imports[j], s)
    OBVIOUS
  <2> QED
    BY <1>1, <2>1
<1>3. \A a, b, c, d : <<a, b>> = <<c, d>> <=> a = c /\ b = d
  OBVIOUS
<1>4. \A a, b : <<a, b>>[1] = a /\ <<a, b>>[2] = b
  OBVIOUS
<1> QED
  BY <1>2, <1>3, <1>4

\* The counter of registrations.
LEMMA LeastSteps ==
  ASSUME WellFormed, NEW t \in Nat
  PROVE  /\ Least(t) \in Nat
         /\ Least(t) < Many => Least(t) + 1 = Least(t + 1)
         /\ ~(Least(t) < Many) => Least(t) = Least(t + 1)
         /\ Least(0) = 0
<1>1. Many \in Nat \ {0}
  BY DEF WellFormed
<1> QED
  BY <1>1 DEF Least

\* What is not blocked has called another file than the first one.
LEMMA CalleeIsOther ==
  ASSUME WellFormed, CallInv, Simple, CalleeInv, ~Blocked, Len(stack) = 2
  PROVE  /\ stack[1] \in Frames /\ Waiting(stack[1]) /\ stack[1].file = world.main
         /\ stack[2] \in Frames
         /\ Calls(stack[1], stack[2]) /\ stack[2].file # world.main
         /\ world.files[world.main].kind # "schema"
<1>1. 1 \in 1..(Len(stack) - 1) /\ 1 \in 1..Len(stack) /\ 2 \in 1..Len(stack) /\ 1 + 1 = 2
  OBVIOUS
<1>2. stack[1] \in Frames /\ Waiting(stack[1]) /\ stack[2] \in Frames
  BY <1>1 DEF CallInv
<1>3. stack[1].file = world.main /\ Calls(stack[1], stack[2])
  BY <1>1 DEF CalleeInv
<1>4. PICK k, j : /\ k = stack[1].schema /\ j = stack[1].import
                  /\ k \in 1..Len(Main) /\ j \in 1..Len(Main[k].imports)
                  /\ ImportsAt(stack[1])[stack[1].import] = Main[k].imports[j]
  BY <1>2, <1>3 DEF Waiting, SchemasOf, ImportsAt, Main
<1>5. ~Blocking(k, j)
  BY <1>4 DEF Blocked
<1>6. stack[2].file # world.main
  BY <1>3, <1>4, <1>5, MainTypes DEF Calls, LoadedFrom, Blocking
<1> QED
  BY <1>2, <1>3, <1>5, <1>6 DEF Blocking

\* A step that leaves the loops of the first document where they are, and one
\* that registers a schema.
LEMMA TimesGrow ==
  ASSUME WellFormed, NEW s, IsFiniteSet(NamingPast(s)), registered[s] = Least(Times(s)),
         NEW b \in {0, 1}, IsFiniteSet(NamingPast(s))', Times(s)' = Times(s) + b,
         registered'[s] = IF b = 1 /\ registered[s] < Many THEN registered[s] + 1 ELSE registered[s]
  PROVE  registered'[s] = Least(Times(s)')
<1>1. Cardinality(NamingPast(s)) \in Nat
  BY FS_CardinalityType
<1>2. PICK t \in Nat : t = Times(s)
  BY <1>1 DEF Times, One
<1>3. Least(t + 0) = Least(t)
  BY <1>2
<1> QED
  BY <1>2, <1>3, LeastSteps

LEMMA NextTimes ==
  /\ WellFormed /\ CallInv /\ DirectoryInv /\ CountInv /\ Simple
  /\ CalleeInv /\ BlockInv /\ TimesInv /\ [Next]_vars
  => TimesInv'
<1> SUFFICES ASSUME WellFormed, CallInv, DirectoryInv, CountInv, Simple, CalleeInv, BlockInv, TimesInv,
                    [Next]_vars
             PROVE  TimesInv'
  OBVIOUS
<1>w. world' = world
  BY NextCall
<1>b. Blocked' <=> Blocked
  BY <1>w DEF Blocking, Blocked, Main
<1> SUFFICES ASSUME ~Blocked PROVE TimesInv'
  BY <1>b DEF TimesInv
<1>n. PICK n \in Nat : n = Len(stack) /\ n <= 2
  BY DEF CallInv, TimesInv
<1>0. /\ world' = world /\ stack \in Seq(Frames)
      /\ Schemas(world)' = Schemas(world) /\ \A s : ImportsNaming(s)' = ImportsNaming(s)
  <2>1. world' = world /\ stack \in Seq(Frames)
    BY NextCall DEF CallInv
  <2>2. Schemas(world)' = Schemas(world)
    BY <2>1 DEF Schemas
  <2>3. ASSUME NEW s PROVE ImportsNaming(s)' = ImportsNaming(s)
    BY <2>1 DEF ImportsNaming
  <2> QED
    BY <2>1, <2>2, <2>3
<1>s. \A s \in Schemas(world) : /\ IsFiniteSet(NamingPast(s)) /\ registered[s] = Least(Times(s))
                                /\ Cardinality(NamingPast(s)) \in Nat
  BY FS_CardinalityType DEF TimesInv
<1>a. ASSUME Len(stack') <= 2, done' => stack' = << >>,
             \A s \in Schemas(world) : (IsFiniteSet(NamingPast(s)))' /\ registered'[s] = Least(Times(s)')
      PROVE  TimesInv'
  BY <1>0, <1>a DEF TimesInv, Least
<1>u. \A s : Under(s) => n = 2
  BY <1>n DEF Under
<1>d. stack # << >> => ~done
  BY DEF TimesInv
<1>1. CASE Import
  <2>1. /\ n \in Nat \ {0} /\ Len(stack') = n + 1 /\ stack # << >>
        /\ stack'[n] = [stack[n] EXCEPT !.current = cwd]
    BY <1>1, <1>n, ImportStack
  <2>2. /\ stack[n] \in Frames /\ stack[n].file = world.main /\ stack'[n + 1].schema = 1
    BY <1>1, <1>n, SimpleImport
  <2>3. n = 1
    <3>1. n # 2
      BY <1>n, <2>2, CalleeIsOther
    <3> QED
      BY <1>n, <2>1, <3>1
  <2>4. /\ stack'[1].schema = stack[1].schema /\ stack'[1].import = stack[1].import
        /\ stack' # << >> /\ stack'[2].schema = 1 /\ Len(stack') = 2
    <3>1. Len(stack') = 2
      BY <2>1, <2>3
    <3>2. stack' # << >>
      BY <3>1
    <3>3. stack'[1].schema = stack[1].schema /\ stack'[1].import = stack[1].import
      BY <2>1, <2>2, <2>3 DEF Frames
    <3> QED
      BY <2>2, <2>3, <3>1, <3>2, <3>3
  <2>5. ASSUME NEW s \in Schemas(world)
        PROVE  (IsFiniteSet(NamingPast(s)))' /\ registered'[s] = Least(Times(s)')
    <3>1. NamingPast(s)' = NamingPast(s)
      BY <1>0, <2>1, <2>4 DEF NamingPast, Past, NotPast
    <3>2. PastSchema(s[2])' <=> PastSchema(s[2])
      BY <2>1, <2>4 DEF PastSchema
    <3>3. ~Under(s) /\ ~Under(s)'
      <4>1. s[2] \in Nat /\ s[2] >= 1
        BY SchemaPairs
      <4>2. ~Under(s)'
        BY <2>4, <4>1 DEF Under
      <4> QED
        BY <1>u, <2>3, <4>2
    <3>4. Times(s)' = Times(s) /\ registered' = registered
      BY <1>0, <1>1, <3>1, <3>2, <3>3 DEF Times, One, Import
    <3> QED
      BY <1>s, <3>1, <3>4
  <2> QED
    <3>1. Len(stack') <= 2
      BY <2>4
    <3>2. ~done'
      BY <1>d, <1>1, <2>1 DEF Import
    <3> QED
      BY <1>a, <2>5, <3>1, <3>2
<1>2. CASE Register
  <2>1. /\ n \in Nat \ {0} /\ Len(stack') = n /\ stack # << >>
        /\ \A k \in 1..(n - 1) : stack'[k] = stack[k]
        /\ stack'[n] = [stack[n] EXCEPT !.schema = @ + 1, !.import = 1]
    BY <1>2, <1>n, RegisterStack
  <2>2. stack[n] \in Frames /\ Top = stack[n] /\ stack' # << >>
    <3>1. n \in 1..Len(stack)
      BY <1>n, <2>1
    <3>2. Len(stack') # 0
      BY <2>1
    <3> QED
      BY <1>0, <1>n, <3>1, <3>2 DEF Top
  <2>3. /\ stack'[n].file = stack[n].file /\ stack'[n].target = stack[n].target
        /\ stack'[n].schema = stack[n].schema + 1 /\ stack'[n].import = 1
        /\ stack[n].schema \in Nat /\ stack[n].import \in Nat
    BY <2>1, <2>2 DEF Frames
  <2>4. /\ AtSchema /\ stack[n].file \in DOMAIN world.files
        /\ stack[n].schema \in 1..Len(world.files[stack[n].file].schemas)
        /\ stack[n].import > Len(world.files[stack[n].file].schemas[stack[n].schema].imports)
    <3>1. AtSchema /\ Top.import > Len(Current.imports)
      BY <1>2 DEF Register
    <3> QED
      BY <2>1, <2>2, <3>1, TopTypes DEF SchemasOf, Current, Document
  <2> DEFINE t == <<stack[n].file, stack[n].schema>>
             matching == Matches(world.files[stack[n].file].schemas[stack[n].schema].ns, stack[n].target)
  <2>5. /\ registered' = IF matching /\ registered[t] < Many
                         THEN [registered EXCEPT ![t] = @ + 1] ELSE registered
        /\ done' = done
    BY <1>2, <2>2 DEF Register, Current, Document
  <2>6. ASSUME NEW s \in Schemas(world)
        PROVE  registered'[s] = IF (matching /\ s = t) /\ registered[s] < Many
                                THEN registered[s] + 1 ELSE registered[s]
    <3>1. registered = [x \in Schemas(world) |-> registered[x]]
      BY DEF CountInv
    <3> HIDE DEF matching, t
    <3> QED
      BY <2>5, <3>1
  <2>7. ASSUME NEW s \in Schemas(world)
        PROVE  /\ s = t <=> s[1] = stack[n].file /\ s[2] = stack[n].schema
               /\ s[2] \in Nat
    BY SchemaPairs
  <2> HIDE DEF t
  <2>8. CASE n = 1
    <3>1. stack[1].file = world.main /\ stack[1].target = NoNs /\ matching
      BY <2>1, <2>8 DEF CalleeInv, Matches
    <3>2. ASSUME NEW s \in Schemas(world)
          PROVE  (IsFiniteSet(NamingPast(s)))' /\ registered'[s] = Least(Times(s)')
      <4>1. NamingPast(s)' = NamingPast(s)
        <5>1. ASSUME NEW p \in ImportsNaming(s)
              PROVE  Past(p)' <=> Past(p)
          <6>1. /\ p[1] \in 1..Len(Main) /\ p[2] \in 1..Len(Main[p[1]].imports)
                /\ p[1] \in Nat /\ p[2] \in Nat /\ p[2] >= 1 /\ Len(Main[p[1]].imports) \in Nat
            BY NamingPairs, MainTypes
          <6>2. p[1] = stack[1].schema => stack[1].import > p[2]
            <7>1. p[1] = stack[1].schema => stack[1].import > Len(Main[p[1]].imports)
              BY <2>4, <2>8, <3>1 DEF Main
            <7>2. PICK l \in Nat : l = Len(Main[p[1]].imports) /\ p[2] <= l
              BY <6>1
            <7>3. PICK i \in Nat : i = stack[1].import
              BY <2>3, <2>8
            <7>4. PICK b \in Nat : b = p[2] /\ b <= l
              BY <6>1, <7>2
            <7>5. p[1] = stack[1].schema => i > l
              BY <7>1, <7>2, <7>3
            <7>6. i > l => i > b
              BY <7>4
            <7> QED
              BY <7>3, <7>4, <7>5, <7>6
          <6>3. NotPast(stack[1], p[1], p[2]) <=> stack[1].schema < p[1]
            BY <2>3, <2>8, <6>1, <6>2 DEF NotPast
          <6>4. NotPast(stack'[1], p[1], p[2]) <=> stack[1].schema < p[1]
            BY <2>3, <2>8, <6>1 DEF NotPast
          <6>5. NotPast(stack[1], p[1], p[2])' <=> NotPast(stack'[1], p[1], p[2])
            BY DEF NotPast
          <6> QED
            BY <2>1, <2>2, <6>3, <6>4, <6>5 DEF Past
        <5> QED
          BY <1>0, <5>1 DEF NamingPast
      <4>2. ~Under(s) /\ ~Under(s)'
        <5>1. Len(stack') # 2
          BY <2>1, <2>8
        <5> QED
          BY <1>u, <2>8, <5>1 DEF Under
      <4>3. /\ PastSchema(s[2]) <=> s[2] < stack[1].schema
            /\ PastSchema(s[2])' <=> s[2] < stack[1].schema + 1
        BY <2>1, <2>2, <2>3, <2>8 DEF PastSchema
      <4>4. CASE s = t
        <5>1. Times(s)' = Times(s) + 1
          <6>1. s[1] = world.main /\ ~PastSchema(s[2]) /\ PastSchema(s[2])'
            BY <2>3, <2>7, <2>8, <3>1, <4>3, <4>4
          <6> QED
            BY <1>0, <1>s, <4>1, <4>2, <6>1 DEF Times, One
        <5> QED
          BY <1>s, <2>6, <3>1, <4>1, <4>4, <5>1, TimesGrow
      <4>5. CASE s # t
        <5>1. Times(s)' = Times(s)
          <6>1. s[1] = world.main => (PastSchema(s[2]) <=> PastSchema(s[2])')
            <7>1. s[1] = world.main => s[2] # stack[1].schema
              BY <2>7, <2>8, <3>1, <4>5
            <7> QED
              BY <2>3, <2>7, <2>8, <4>3, <7>1
          <6> QED
            BY <1>0, <1>s, <4>1, <4>2, <6>1 DEF Times, One
        <5>2. registered'[s] = registered[s]
          BY <2>6, <4>5
        <5> QED
          BY <1>s, <4>1, <5>1, <5>2
      <4> QED
        BY <4>4, <4>5
    <3>3. Len(stack') <= 2
      BY <2>1, <2>8
    <3>4. ~done'
      BY <1>d, <2>1, <2>5
    <3> QED
      BY <1>a, <3>2, <3>3, <3>4
  <2>9. CASE n = 2
    <3>1. stack'[1] = stack[1] /\ stack[2].file # world.main /\ Len(stack') = 2 /\ Len(stack) = 2
      BY <1>n, <2>1, <2>9, CalleeIsOther
    <3>2. ASSUME NEW s \in Schemas(world)
          PROVE  (IsFiniteSet(NamingPast(s)))' /\ registered'[s] = Least(Times(s)')
      <4>1. NamingPast(s)' = NamingPast(s)
        BY <1>0, <2>1, <2>2, <3>1 DEF NamingPast, Past, NotPast
      <4>2. PastSchema(s[2]) <=> PastSchema(s[2])'
        BY <2>1, <2>2, <3>1 DEF PastSchema
      <4> DEFINE fits == Matches(world.files[s[1]].schemas[s[2]].ns, stack[2].target)
      <4>3. /\ Under(s) <=> stack[2].file = s[1] /\ s[2] < stack[2].schema /\ fits
            /\ Under(s)' <=> stack[2].file = s[1] /\ s[2] < stack[2].schema + 1 /\ fits
        <5>1. Matches(world.files[s[1]].schemas[s[2]].ns, stack[2].target)' <=> fits
          BY <1>0, <2>3, <2>9 DEF Matches
        <5> QED
          BY <1>0, <2>3, <2>9, <3>1, <5>1 DEF Under
      <4>4. s = t => (fits <=> matching) /\ s[1] # world.main
        BY <2>7, <2>9, <3>1
      <4> HIDE DEF fits, matching
      <4>5. CASE s = t /\ matching
        <5>1. ~Under(s) /\ Under(s)'
          BY <2>3, <2>7, <2>9, <4>3, <4>4, <4>5
        <5>2. Times(s)' = Times(s) + 1
          BY <1>0, <1>s, <4>1, <4>2, <5>1 DEF Times, One
        <5> QED
          BY <1>s, <2>6, <4>1, <4>5, <5>2, TimesGrow
      <4>6. CASE ~(s = t /\ matching)
        <5>1. Under(s) <=> Under(s)'
          <6>1. CASE s = t
            BY <4>3, <4>4, <4>6, <6>1
          <6>2. CASE s # t
            <7>1. stack[2].file = s[1] => s[2] # stack[2].schema
              BY <2>7, <2>9, <6>2
            <7> QED
              BY <2>3, <2>7, <2>9, <4>3, <7>1
          <6> QED
            BY <6>1, <6>2
        <5>2. Times(s)' = Times(s)
          BY <1>0, <1>s, <4>1, <4>2, <5>1 DEF Times, One
        <5>3. registered'[s] = registered[s]
          BY <2>6, <4>6
        <5> QED
          BY <1>s, <4>1, <5>2, <5>3
      <4> QED
        BY <4>5, <4>6
    <3>3. Len(stack') <= 2
      BY <3>1
    <3>4. ~done'
      BY <1>d, <2>1, <2>5
    <3> QED
      BY <1>a, <3>2, <3>3, <3>4
  <2> QED
    BY <1>n, <2>1, <2>8, <2>9
<1>3. CASE ReturnToImport
  <2>1. /\ n = 2 /\ Len(stack') = 1
        /\ stack'[1].schema = stack[1].schema
        /\ stack'[1].import = IF world.files[stack[1].file].kind = "schema"
                              THEN stack[1].import ELSE stack[1].import + 1
    <3>1. n = 2 /\ n - 1 = 1
      BY <1>3, <1>n, ReturnStack
    <3> QED
      BY <1>3, <1>n, <3>1, ReturnStack
  <2>2. /\ stack[1] \in Frames /\ Waiting(stack[1]) /\ stack[1].file = world.main
        /\ Calls(stack[1], stack[2]) /\ stack[2] \in Frames
        /\ world.files[world.main].kind # "schema"
    BY <1>n, <2>1, CalleeIsOther
  <2>3. PICK k, j : /\ k = stack[1].schema /\ j = stack[1].import /\ k \in Nat /\ j \in Nat
                    /\ k \in 1..Len(Main) /\ j \in 1..Len(Main[k].imports)
                    /\ ImportsAt(stack[1])[stack[1].import] = Main[k].imports[j]
    BY <2>2 DEF Waiting, SchemasOf, ImportsAt, Main, Frames
  <2>4. stack'[1].schema = k /\ stack'[1].import = j + 1
    BY <2>1, <2>2, <2>3
  <2>5. stack # << >> /\ stack' # << >> /\ registered' = registered /\ done' = done
    <3>1. Len(stack') # 0 /\ Len(stack) # 0
      BY <1>n, <2>1
    <3>2. registered' = registered /\ done' = done
      BY <1>3 DEF ReturnToImport
    <3> QED
      BY <3>1, <3>2
  <2>6. AtReturn /\ Top = stack[2]
    BY <1>3, <1>n, <2>1 DEF ReturnToImport, Top
  <2>7. ASSUME NEW s \in Schemas(world)
        PROVE  (IsFiniteSet(NamingPast(s)))' /\ registered'[s] = Least(Times(s)')
    <3>1. ASSUME NEW p \in ImportsNaming(s)
          PROVE  Past(p)' <=> Past(p) \/ p = <<k, j>>
      <4>1. p[1] \in Nat /\ p[2] \in Nat /\ p = <<p[1], p[2]>>
        BY NamingPairs, MainTypes
      <4>2. p = <<k, j>> <=> p[1] = k /\ p[2] = j
        BY <4>1
      <4>3. /\ NotPast(stack[1], p[1], p[2]) <=> k < p[1] \/ (k = p[1] /\ j <= p[2])
            /\ NotPast(stack[1], p[1], p[2])' <=> k < p[1] \/ (k = p[1] /\ j + 1 <= p[2])
        BY <2>3, <2>4 DEF NotPast
      <4>4. NotPast(stack[1], p[1], p[2])' <=> NotPast(stack[1], p[1], p[2]) /\ ~(p[1] = k /\ p[2] = j)
        BY <2>3, <4>1, <4>3
      <4> QED
        BY <2>5, <4>2, <4>4 DEF Past
    <3>2. ~Past(<<k, j>>)
      BY <2>3, <2>5 DEF Past, NotPast
    <3>3. <<k, j>> \in ImportsNaming(s) <=> NamesSchema(Main[k].imports[j], s)
      BY <2>3, NamingPairs
    <3>4. Under(s) <=> NamesSchema(Main[k].imports[j], s)
      <4>1. /\ s[1] \in DOMAIN world.files /\ s[1] # << >> /\ s[2] \in Nat /\ s[2] >= 1
            /\ s[2] \in 1..Len(world.files[s[1]].schemas) /\ Len(world.files[s[1]].schemas) \in Nat
        BY SchemaPairs, MainTypes
      <4>2. /\ stack[2].file = LoadedFrom(world.start, Main[k].imports[j].name)
            /\ stack[2].target = Main[k].imports[j].ns
        BY <2>2, <2>3 DEF Calls
      <4>3. stack[2].file = s[1] <=> Append(world.start, Main[k].imports[j].name) = s[1]
        BY <4>1, <4>2 DEF LoadedFrom
      <4>4. stack[2].file = s[1] => s[2] < stack[2].schema
        <5>1. stack[2].file = s[1] => stack[2].schema > Len(world.files[s[1]].schemas)
          BY <2>6, <4>1 DEF AtReturn, Document
        <5>2. stack[2].schema \in Nat
          BY <2>2 DEF Frames
        <5> QED
          BY <4>1, <5>1, <5>2
      <4>5. Matches(world.files[s[1]].schemas[s[2]].ns, stack[2].target)
              <=> Main[k].imports[j].ns \in {world.files[s[1]].schemas[s[2]].ns, NoNs}
        BY <4>2 DEF Matches
      <4> QED
        BY <1>n, <2>1, <4>3, <4>4, <4>5 DEF Under, NamesSchema
    <3>5. ~Under(s)'
      BY <2>1 DEF Under
    <3>6. PastSchema(s[2])' <=> PastSchema(s[2])
      BY <2>1, <2>5 DEF PastSchema
    <3>7. CASE <<k, j>> \in ImportsNaming(s)
      <4>1. NamingPast(s)' = NamingPast(s) \cup {<<k, j>>} /\ <<k, j>> \notin NamingPast(s)
        BY <1>0, <3>1, <3>2, <3>7 DEF NamingPast
      <4>2. /\ IsFiniteSet(NamingPast(s) \cup {<<k, j>>})
            /\ Cardinality(NamingPast(s) \cup {<<k, j>>}) = Cardinality(NamingPast(s)) + 1
        BY <1>s, <4>1, FS_AddElement
      <4>3. Times(s)' = Times(s)
        BY <1>0, <1>s, <3>3, <3>4, <3>5, <3>6, <3>7, <4>1, <4>2 DEF Times, One
      <4> QED
        BY <1>s, <2>5, <4>1, <4>2, <4>3
    <3>8. CASE <<k, j>> \notin ImportsNaming(s)
      <4>1. NamingPast(s)' = NamingPast(s)
        BY <1>0, <3>1, <3>8 DEF NamingPast
      <4>2. Times(s)' = Times(s)
        BY <1>0, <1>s, <3>3, <3>4, <3>5, <3>6, <3>8, <4>1 DEF Times, One
      <4> QED
        BY <1>s, <2>5, <4>1, <4>2
    <3> QED
      BY <3>7, <3>8
  <2>8. Len(stack') <= 2 /\ ~done'
    BY <1>d, <2>1, <2>5
  <2> QED
    BY <1>a, <2>7, <2>8
<1>4. CASE Finish
  <2>1. stack' = << >> /\ AtReturn /\ n = 1 /\ stack # << >> /\ registered' = registered
    BY <1>4, <1>n DEF Finish, AtReturn
  <2>2. Top = stack[1] /\ stack[1].file = world.main
    BY <1>n, <2>1 DEF Top, CalleeInv
  <2>3. ASSUME NEW s \in Schemas(world)
        PROVE  (IsFiniteSet(NamingPast(s)))' /\ registered'[s] = Least(Times(s)')
    <3>1. NamingPast(s)' = NamingPast(s)
      <4>1. ASSUME NEW p \in ImportsNaming(s) PROVE Past(p) /\ Past(p)'
        <5>1. p[1] \in 1..Len(Main) /\ p[2] \in Nat
          BY NamingPairs, MainTypes
        <5>2. Past(p)
          BY <2>1, <2>2, <5>1, ReturnIsPast DEF Past
        <5> QED
          BY <2>1, <5>2 DEF Past
      <4> QED
        BY <1>0, <4>1 DEF NamingPast
    <3>2. s[1] = world.main => PastSchema(s[2]) /\ PastSchema(s[2])'
      <4>1. PastSchema(s[2])'
        BY <2>1 DEF PastSchema
      <4>2. ASSUME s[1] = world.main PROVE PastSchema(s[2])
        <5>1. s[2] \in 1..Len(Main) /\ Len(Main) \in Nat
          BY <4>2, SchemaPairs, MainTypes DEF Main
        <5>2. stack[1].schema > Len(Main)
          BY <2>1, <2>2, MainTypes DEF AtReturn, Document, Main
        <5>3. stack[1].schema \in Nat
          BY <2>1, <2>2, TopTypes DEF Frames
        <5> QED
          BY <5>1, <5>2, <5>3 DEF PastSchema
      <4> QED
        BY <4>1, <4>2
    <3>3. ~Under(s) /\ ~Under(s)'
      <4>1. Len(stack') # 2
        BY <2>1
      <4> QED
        BY <1>u, <2>1, <4>1 DEF Under
    <3>4. Times(s)' = Times(s)
      BY <1>0, <3>1, <3>2, <3>3 DEF Times, One
    <3> QED
      BY <1>s, <2>1, <3>1, <3>4
  <2>4. Len(stack') <= 2
    BY <2>1
  <2> QED
    BY <1>a, <2>1, <2>3, <2>4
<1>5. CASE UNCHANGED vars
  <2>1. stack' = stack /\ registered' = registered /\ done' = done
    BY <1>5 DEF vars
  <2>2. ASSUME NEW s \in Schemas(world)
        PROVE  (IsFiniteSet(NamingPast(s)))' /\ registered'[s] = Least(Times(s)')
    <3>1. NamingPast(s)' = NamingPast(s)
      BY <1>0, <2>1 DEF NamingPast, Past, NotPast
    <3>2. Under(s)' <=> Under(s)
      BY <1>0, <2>1 DEF Under, Matches
    <3>3. PastSchema(s[2])' <=> PastSchema(s[2])
      BY <2>1 DEF PastSchema
    <3>4. Times(s)' = Times(s)
      BY <1>0, <3>1, <3>2, <3>3 DEF Times, One
    <3> QED
      BY <1>s, <2>1, <3>1, <3>4
  <2> QED
    BY <1>a, <1>n, <2>1, <2>2 DEF TimesInv
<1> QED
  BY <1>1, <1>2, <1>3, <1>4, <1>5 DEF Next

LEMMA InitRegister == WellFormed /\ Init => RegisterInv
<1> SUFFICES ASSUME WellFormed, Init PROVE RegisterInv
  OBVIOUS
<1>1. CallInv /\ stack = <<Frame(world.main, NoNs)>> /\ done = FALSE
  BY InitIInv DEF Init, IInv
<1>2. /\ Len(stack) = 1 /\ stack[1].file = world.main /\ stack[1].target = NoNs
      /\ stack[1].schema = 1 /\ stack[1].import = 1
  BY <1>1 DEF Frame
<1>3. stack # << >>
  BY <1>2
<1>4. CalleeInv
  BY <1>2 DEF CalleeInv
<1>5. \A k \in Nat \ {0} : \A j \in Nat \ {0} : NotPast(stack[1], k, j)
  BY <1>2 DEF NotPast
<1>6. BlockInv
  <2>1. ASSUME NEW k \in 1..Len(Main), NEW j \in 1..Len(Main[k].imports)
        PROVE  k \in Nat \ {0} /\ j \in Nat \ {0}
    BY <1>1, MainTypes
  <2> QED
    BY <1>1, <1>2, <1>5, <2>1 DEF BlockInv
<1>7. ASSUME NEW s \in Schemas(world)
      PROVE  IsFiniteSet(NamingPast(s)) /\ registered[s] = Least(Times(s))
  <2>1. NamingPast(s) = {}
    <3>1. ASSUME NEW p \in ImportsNaming(s) PROVE ~Past(p)
      <4>1. p[1] \in Nat \ {0} /\ p[2] \in Nat \ {0}
        BY <1>1, NamingPairs, MainTypes
      <4> QED
        BY <1>3, <1>5, <4>1 DEF Past
    <3> QED
      BY <3>1 DEF NamingPast
  <2>2. ~PastSchema(s[2]) /\ ~Under(s)
    <3>1. s[2] \in Nat \ {0}
      BY <1>1, SchemaPairs
    <3> QED
      BY <1>2, <1>3, <3>1 DEF PastSchema, Under
  <2>3. Times(s) = 0 /\ IsFiniteSet(NamingPast(s))
    BY <2>1, <2>2, FS_EmptySet DEF Times, One
  <2>4. registered[s] = 0
    BY DEF Init
  <2> QED
    BY <2>3, <2>4, LeastSteps
<1>8. TimesInv
  BY <1>1, <1>2, <1>7 DEF TimesInv
<1> QED
  BY <1>4, <1>6, <1>8 DEF RegisterInv

LEMMA NextRegister == WellFormed /\ IInv /\ RegisterInv /\ [Next]_vars => RegisterInv'
<1> SUFFICES ASSUME WellFormed, IInv, RegisterInv, [Next]_vars, Simple' PROVE RegisterInv'
  BY DEF RegisterInv
<1>1. CallInv /\ DirectoryInv /\ CountInv /\ world' = world
  BY NextCall DEF IInv
<1>2. Simple
  <2>1. Located(world)' <=> Located(world)
    BY <1>1 DEF Located, ImportsOf, AllImports, Values
  <2>2. Shallow(world)' <=> Shallow(world)
    BY <1>1 DEF Shallow, AllImports, Values
  <2> QED
    BY <2>1, <2>2 DEF Simple
<1>3. CalleeInv /\ BlockInv /\ TimesInv
  BY <1>2 DEF RegisterInv
<1>4. CalleeInv' /\ BlockInv' /\ TimesInv'
  BY <1>1, <1>2, <1>3, NextCallee, NextBlock, NextTimes
<1> QED
  BY <1>4 DEF RegisterInv

\* Once the parse is done every import is past.
LEMMA EveryRegistered == WellFormed /\ IInv /\ RegisterInv => EveryImportRegisters
<1> SUFFICES ASSUME WellFormed, IInv, RegisterInv, done, Simple, NEW s \in Schemas(world)
             PROVE  registered[s] = Least((IF s[1] = world.main THEN 1 ELSE 0) + Cardinality(ImportsNaming(s)))
  BY DEF EveryImportRegisters, Simple
<1>1. ~Blocked /\ TimesInv
  BY DEF RegisterInv, BlockInv
<1>2. stack = << >> /\ IsFiniteSet(NamingPast(s)) /\ registered[s] = Least(Times(s))
  BY <1>1 DEF TimesInv
<1>3. NamingPast(s) = ImportsNaming(s) /\ PastSchema(s[2]) /\ ~Under(s)
  <2>1. Len(stack) # 2
    BY <1>2
  <2> QED
    BY <1>2, <2>1 DEF NamingPast, Past, PastSchema, Under
<1>4. Cardinality(ImportsNaming(s)) \in Nat
  BY <1>2, <1>3, FS_CardinalityType
<1>5. Times(s) = (IF s[1] = world.main THEN 1 ELSE 0) + Cardinality(ImportsNaming(s))
  BY <1>3, <1>4 DEF Times, One
<1> QED
  BY <1>2, <1>5

LEMMA NextIInv == WellFormed /\ IInv /\ [Next]_vars => IInv'
  BY NextCall, NextCount, NextDirectory DEF IInv

\* What the parts of the invariant say of the runs' invariants.
LEMMA CursorsInside == WellFormed /\ IInv => TypeOK
<1> SUFFICES ASSUME WellFormed, IInv PROVE TypeOK
  OBVIOUS
<1>1. world.main \in DOMAIN world.files /\ cwd \in world.dirs
  BY DEF IInv, CallInv, WellFormed
<1>2. ASSUME NEW f \in Values(stack)
      PROVE  /\ f.file = << >> \/ f.file \in DOMAIN world.files
             /\ f.file # << >> =>
                  LET schemas == world.files[f.file].schemas IN
                  /\ f.schema \in 1..(Len(schemas) + 1)
                  /\ f.schema <= Len(schemas) => f.import \in 1..(Len(schemas[f.schema].imports) + 1)
  <2>1. stack \in Seq(Frames)
    BY DEF IInv, CallInv
  <2>2. PICK k \in 1..Len(stack) : f = stack[k]
    BY <2>1 DEF Values
  <2>3. f \in Frames /\ Inside(f)
    BY <2>1, <2>2 DEF IInv, CallInv
  <2> QED
    BY <2>3 DEF Frames, Inside, SchemasOf, ImportsAt
<1> QED
  BY <1>1, <1>2 DEF IInv, CountInv, TypeOK

LEMMA StartIsBelow == WellFormed /\ IInv => NeverBelowStart
<1> SUFFICES ASSUME WellFormed, IInv, Len(stack) <= 1
             PROVE  IsPrefix(cwd, world.start) /\ (~Located(world) => cwd = world.start)
  BY DEF NeverBelowStart
<1>1. cwd \in Seq(STRING) /\ world.start \in Seq(STRING)
  BY DEF IInv, CallInv, WellFormed
<1>2. Above(cwd, world.start)
  <2>1. CASE stack = << >>
    BY <2>1 DEF IInv, DirectoryInv
  <2>2. CASE stack # << >>
    <3>1. Len(stack) \in Nat \ {0}
      BY <2>2, EmptySeq DEF IInv, CallInv
    <3>2. Len(stack) = 1
      BY <3>1
    <3>3. DirectoryOf(1) = cwd
      BY <3>2 DEF DirectoryOf
    <3> QED
      BY <2>2, <3>3 DEF IInv, DirectoryInv
  <2> QED
    BY <2>1, <2>2
<1> QED
  BY <1>1, <1>2, AboveIsPrefix DEF IInv, DirectoryInv
=============================================================================
