------------------------------ MODULE Tokenizer ------------------------------
(***************************************************************************)
(* Class Parse, a cursor in a text that hands out words, pieces and lines. *)
(* Every call that reads ord_ has set it before, so that only what the     *)
(* last call returned is kept.                                             *)
(*                                                                         *)
(* A text is a sequence of characters, of which the code tells apart those *)
(* named below; "a" and "z" stand for every letter or digit.  ptr counts   *)
(* from 0, as in the code, and C is the character under it or End.         *)
(***************************************************************************)
EXTENDS Naturals, Sequences, FiniteSetsExt

CONSTANTS End,       \* the 0 of macro C, and of a character that is not set
          Sessions,  \* [text, mode]: the objects looked at
          MaxPast,   \* bound: how far past its text a cursor is followed
          MaxJunk    \* bound: lengths read past the end of a text

Blank   == " "       \* space or tab
Newline == "n"       \* 13 or 10
Equals  == "="
Quote   == "q"

\* splits_, nospace_ and the characters set by setbreak, disablebreak and
\* enablebreak.
Mode(splits, nospace, break, disable, enable) ==
  [splits |-> splits, nospace |-> nospace, break |-> break,
   disable |-> disable, enable |-> enable]

VARIABLES text, mode, ptr,
          ord,    \* what the last call returned, in ord_ or by itself
          len,    \* what it returned if it was getwordlen or getrestlen
          call    \* the last call

vars == <<text, mode, ptr, ord, len, call>>

-----------------------------------------------------------------------------
C(t, p) == IF p < Len(t) THEN t[p + 1] ELSE End

issplit(m, c) == c \in m.splits

\* Where the cursor stops that moves from p while the character is not End
\* and Stop does not hold of it.
MovedTo(t, p, Stop(_)) ==
  IF p >= Len(t) THEN p ELSE Min({q \in p..Len(t) : q = Len(t) \/ Stop(C(t, q))})

\* std::string::substr(x, n), "" from the end of the text on.
Substr(t, x, n) ==
  IF x >= Len(t) THEN << >> ELSE SubSeq(t, x + 1, IF x + n < Len(t) THEN x + n ELSE Len(t))

IsBreak(m, c) == m.break # End /\ c = m.break

\* A break character before q is disabled if the last switch from p on says so.
Disabled(t, m, p, q) ==
  /\ m.break # End
  /\ \E i \in p..(q - 1) : /\ C(t, i) = m.disable
                           /\ \A j \in i..(q - 1) : C(t, j) # m.enable

Whitespace == {Blank, Newline}

\* What Sessions must be: no 0 stands in a text or separates words.
WellFormed ==
  /\ End \notin {Blank, Newline, Equals, Quote}
  /\ \A s \in Sessions :
       /\ s.text \in Seq(STRING) /\ End \notin Range(s.text) \cup s.mode.splits
       /\ DOMAIN s.mode = {"splits", "nospace", "break", "disable", "enable"}
       /\ s.mode.nospace \in BOOLEAN

\* Broken: the switches are not looked at, and break characters never end a word.
WordEndUnbroken(t, m, x) ==
  MovedTo(t, x, LAMBDA c : c \in Whitespace \cup m.splits)

\* Where a word that begins at x ends.
WordEnd(t, m, x) ==
  IF x >= Len(t) THEN x
  ELSE Min({q \in x..Len(t) : \/ q = Len(t)
                              \/ C(t, q) \in Whitespace \cup m.splits
                              \/ IsBreak(m, C(t, q)) /\ ~Disabled(t, m, x, q)})

\* A character takes a quote behind it along, a quote all up to the next one.
Past(t, q) ==
  LET body == IF C(t, q) = Quote THEN MovedTo(t, q + 1, LAMBDA c : c = Quote) ELSE q + 1
  IN IF C(t, body) = Quote THEN body + 1 ELSE body

\* disabled after a character.
Switched(m, off, c) ==
  (m.break = End \/ c # m.enable) /\ (off \/ (m.break # End /\ c = m.disable))

\* Where a word that begins at x ends if quotes are looked at.
QuotedWordEnd(t, m, x) ==
  LET end[q \in x..Len(t)] ==
        [off \in BOOLEAN |->
           IF q = Len(t) \/ issplit(m, C(t, q)) \/ (IsBreak(m, C(t, q)) /\ ~off)
           THEN q
           ELSE end[Past(t, q)][Switched(m, off, C(t, q))]]
  IN IF x >= Len(t) THEN x ELSE end[x][FALSE]

-----------------------------------------------------------------------------
(* The calls, as [ord, ptr].                                               *)

\* What is returned that stands between x and end, the cursor past it.
Cut(t, x, end, past) == [ord |-> Substr(t, x, end - x), ptr |-> end + past]

\* Broken: a character of the word is lost, and past the terminator the cursor
\* runs on with every call.
WordRunning(t, m, p) ==
  LET x   == MovedTo(t, p, LAMBDA c : c \notin Whitespace \cup m.splits)
      end == WordEnd(t, m, x)
  IN [ord |-> Substr(t, x, end - x - 1), ptr |-> end + 2]

\* getword: the word and one character behind it, the end of the text too; at
\* a break character, that alone.
Word(t, m, p) ==
  CASE m.nospace ->
         LET x == MovedTo(t, p, LAMBDA c : ~issplit(m, c))
         IN Cut(t, x, QuotedWordEnd(t, m, x), 0)
    [] ~m.nospace /\ IsBreak(m, C(t, p)) -> [ord |-> << >>, ptr |-> p + 1]
    [] ~m.nospace /\ ~IsBreak(m, C(t, p)) ->
         LET x == MovedTo(t, p, LAMBDA c : c \notin Whitespace \cup m.splits)
         IN Cut(t, x, WordEnd(t, m, x), 1)

\* getsplit: an equals sign is a piece of its own.
Piece(t, m, p) ==
  LET x   == MovedTo(t, p, LAMBDA c : ~issplit(m, c))
      end == MovedTo(t, x, LAMBDA c : issplit(m, c) \/ c = Equals)
  IN CASE C(t, p) = Equals -> [ord |-> <<Equals>>, ptr |-> p + 1]
       [] C(t, p) # Equals /\ x = end /\ C(t, end) = Equals ->
            [ord |-> <<Equals>>, ptr |-> end + 1]
       [] C(t, p) # Equals /\ ~(x = end /\ C(t, end) = Equals) ->
            [ord |-> Substr(t, x, end - x), ptr |-> end]

\* getrest moves to the rest and leaves the cursor there.
Rest(t, m, p) ==
  LET x == MovedTo(t, p, LAMBDA c : c # Blank /\ ~issplit(m, c))
  IN [ord |-> Substr(t, x, Len(t)), ptr |-> x]

Line(t, p) ==
  LET end == MovedTo(t, p, LAMBDA c : c = Newline)
  IN [ord |-> Substr(t, p, end - p), ptr |-> IF C(t, end) = Newline THEN end + 1 ELSE end]

\* getwordlen looks at neither quotes nor switches, and counts a break
\* character as a word.
WordLen(t, m, p) ==
  LET x   == MovedTo(t, p, LAMBDA c : c \notin Whitespace \cup m.splits)
      end == MovedTo(t, x, LAMBDA c : c \in Whitespace \cup m.splits \/ IsBreak(m, c))
  IN IF IsBreak(m, C(t, p)) \/ (x = end /\ IsBreak(m, C(t, end))) THEN 1 ELSE end - x

\* getrestlen is strlen at the cursor; past the terminator it reads what
\* stands there.
\* Broken: the cursor is not moved to the rest first.
RestLensUnmoved(t, m, p) == IF p <= Len(t) THEN {Len(t) - p} ELSE 0..MaxJunk

RestLens(t, m, p) ==
  IF p <= Len(t) THEN {Len(t) - Rest(t, m, p).ptr} ELSE 0..MaxJunk

-----------------------------------------------------------------------------
Init ==
  /\ \E s \in Sessions : text = s.text /\ mode = s.mode
  /\ ptr = 0 /\ ord = << >> /\ len = 0 /\ call = "new"

Returns(name, r) ==
  /\ ord' = r.ord /\ ptr' = r.ptr /\ len' = 0
  /\ call' = name
  /\ UNCHANGED <<text, mode>>

getword == ptr <= Len(text) + MaxPast /\ Returns("word", Word(text, mode, ptr))

getsplit == Returns("split", Piece(text, mode, ptr))

getrest == Returns("rest", Rest(text, mode, ptr))

getline == Returns("line", Line(text, ptr))

Measures(name, lengths) ==
  /\ len' \in lengths /\ ord' = << >>
  /\ call' = name
  /\ UNCHANGED <<text, mode, ptr>>

getwordlen == Measures("wordlen", {WordLen(text, mode, ptr)})

getrestlen == Measures("restlen", RestLens(text, mode, ptr))

\* EnableQuote(b) sets nospace_.
EnableQuote ==
  /\ mode' = [mode EXCEPT !.nospace = ~@]
  /\ call' = "quote" /\ ord' = << >> /\ len' = 0
  /\ UNCHANGED <<text, ptr>>

Next == getword \/ getsplit \/ getrest \/ getline \/ getwordlen \/ getrestlen \/ EnableQuote

Spec == Init /\ [][Next]_vars

-----------------------------------------------------------------------------
TypeOK ==
  /\ mode.nospace \in BOOLEAN
  /\ ptr \in 0..(Len(text) + MaxPast + 1)
  /\ ord \in Seq(Range(text)) /\ Len(ord) <= Len(text)
  /\ len \in 0..(Len(text) + MaxJunk)

Separators == Whitespace \cup mode.splits

Breaks == mode.break # End /\ mode.break \in Range(text)

\* text[from, to), cut at the end of the text.
Between(from, to) == Substr(text, from, to - from)

\* Without break characters and quotes getword returns the next longest run
\* of characters that are no separators, and stops behind the one that ends
\* it: Split and NamespaceFromHref take names apart with it.
WordIsNextRun ==
  call' = "word" /\ ~mode.nospace /\ ~Breaks
    => \E x, y \in ptr..(IF ptr > Len(text) THEN ptr ELSE Len(text)) :
         /\ Range(Between(ptr, x)) \subseteq Separators
         /\ C(text, x) \notin Separators
         /\ Range(Between(x, y)) \cap Separators = {}
         /\ C(text, y) \in Separators \cup {End}
         /\ ord' = Between(x, y) /\ ptr' = y + 1

\* A field begins at the start of the text or behind a break character.
AtField(p) == p = 0 \/ p > Len(text) \/ text[p] = mode.break

\* In a text of fields, with no separators and no switches, each getword
\* returns one field, an empty one too, and leaves the cursor at the next.
FieldsBetweenBreaks ==
  (/\ call' = "word" /\ ~mode.nospace /\ Breaks
   /\ Range(text) \cap (Separators \cup {mode.disable, mode.enable}) = {}
   /\ AtField(ptr))
    => /\ AtField(ptr') /\ ptr' > ptr
       /\ mode.break \notin Range(ord')
       /\ ord' = Between(ptr, ptr' - 1)

\* What a call may skip before what it returns.
Skipped(name) ==
  CASE name = "word"  -> IF mode.nospace THEN mode.splits ELSE Separators
    [] name = "split" -> mode.splits
    [] name = "rest"  -> mode.splits \cup {Blank}
    [] name = "line"  -> {}

\* The cursor never goes back, and no call loses a character: what it passes
\* is what it may skip, then what it returns, then at most one character that
\* ended it.  getrest passes only what it skips.
NothingLost ==
  call' \in {"word", "split", "rest", "line"}
    => /\ ptr' >= ptr
       /\ LET passed   == Between(ptr, ptr')
              returned == IF call' = "rest" THEN << >> ELSE ord'
              Ending   == Separators \cup {mode.break}
          IN \E x \in 0..Len(passed) :
               /\ Range(SubSeq(passed, 1, x)) \subseteq Skipped(call')
               /\ \E rest \in {<< >>} \cup {<<c>> : c \in Ending} :
                    passed = SubSeq(passed, 1, x) \o returned \o rest

\* A word that begins with a quote goes on to the next quote or to the end of
\* the text, whatever is between, and takes that quote along.
QuotesHoldTogether ==
  call' = "word" /\ mode.nospace /\ ord' # << >> /\ ord'[1] = Quote
    => \/ ptr' = Len(text)
       \/ \E q \in 2..Len(ord') : ord'[q] = Quote

\* What getword returns in the three ways to set a Parse up, and what every
\* call passes over.
CallsAsDescribed ==
  [][WordIsNextRun /\ FieldsBetweenBreaks /\ QuotesHoldTogether /\ NothingLost]_vars

\* getwordlen and getrestlen announce what getword and getrest return, except
\* for texts with a break character or a quote and past the end of the text,
\* where getword leaves the cursor behind the last word.
MeasuresAgree ==
  /\ call = "wordlen" /\ ~mode.nospace /\ ~Breaks
       => len = Len(Word(text, mode, ptr).ord)
  /\ call = "restlen" /\ ptr <= Len(text) => len = Len(Rest(text, mode, ptr).ord)
=============================================================================
