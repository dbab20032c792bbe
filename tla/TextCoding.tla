----------------------------- MODULE TextCoding -----------------------------
(***************************************************************************)
(* The text of an element on its way through a generated class: XmlNode    *)
(* reads it from a document with Utility::FromUtf8, FromXml keeps it, and  *)
(* ToString writes it into a document that declares itself UTF-8.          *)
(*                                                                         *)
(* A text is a sequence of code points, a string one of bytes.  A document *)
(* holds its texts in UTF-8; what libxml2 does of it, with references for  *)
(* markup, is Utf8.                                                        *)
(***************************************************************************)
EXTENDS Naturals, Functions, Concatenation

CONSTANTS Texts,       \* texts of elements in documents
          Markup       \* code points that do not stand for themselves in XML

VARIABLES points,      \* the text
          string,      \* elem_ of the object
          written,     \* what ToString writes for it
          step         \* "new", "read", "written"

vars == <<points, string, written, step>>

-----------------------------------------------------------------------------
Byte == 0..255

\* The code points that Utf8Char encodes, and those it encodes in two bytes.
MaxPoint  == 65535
CodePoint == 0..MaxPoint
TwoByte   == 128..2047

Lead         == 192..223
Continuation == 128..191

\* A code point as libxml2 hands it to the program.
Utf8Char(c) ==
  IF c < 128 THEN <<c>>
  ELSE IF c < 2048 THEN <<192 + (c \div 64), 128 + (c % 64)>>
  ELSE <<224 + (c \div 4096), 128 + ((c \div 64) % 64), 128 + (c % 64)>>

Utf8(text) == Concatenation([i \in DOMAIN text |-> Utf8Char(text[i])])

\* Broken: the third bit of a lead byte is not looked at.
IsPairLoose(bytes, i) ==
  i < Len(bytes) /\ bytes[i] >= 192 /\ bytes[i + 1] \in Continuation

\* What FromUtf8 takes for one character: bytes i and i + 1.
IsPair(bytes, i) ==
  i < Len(bytes) /\ bytes[i] \in Lead /\ bytes[i + 1] \in Continuation

\* A pair becomes one byte, (char)c, all else stays.
FromUtf8(bytes) ==
  LET from[i \in 1..(Len(bytes) + 1)] ==
        IF i > Len(bytes) THEN << >>
        ELSE IF IsPair(bytes, i)
        THEN <<((bytes[i] % 32) * 64 + (bytes[i + 1] % 64)) % 256>> \o from[i + 2]
        ELSE <<bytes[i]>> \o from[i + 1]
  IN from[1]

\* What Texts must be: of characters that Utf8Char encodes.
WellFormed == Texts \subseteq Seq(CodePoint)

-----------------------------------------------------------------------------
Init ==
  /\ points \in Texts
  /\ string = << >> /\ written = << >>
  /\ step = "new"

\* GetContent in FromXml.
Read ==
  /\ step = "new"
  /\ string' = FromUtf8(Utf8(points))
  /\ step' = "read"
  /\ UNCHANGED <<points, written>>

\* ToString puts the string between the tags as it is.
Write ==
  /\ step = "read"
  /\ written' = string
  /\ step' = "written"
  /\ UNCHANGED <<points, string>>

Next == Read \/ Write

Spec == Init /\ [][Next]_vars

-----------------------------------------------------------------------------
TypeOK ==
  /\ points \in Seq(CodePoint)
  /\ string \in Seq(Byte) /\ written \in Seq(Byte)
  /\ step \in {"new", "read", "written"}

\* What ToString writes is the text again in UTF-8, as its head says, exactly
\* for texts without a character that FromUtf8 turns into a single byte.
\* Markup aside, which ToString does not escape.
TextsSurvive ==
  step = "written" /\ Range(points) \cap Markup = {} =>
    (written = Utf8(points) <=> Range(points) \cap TwoByte = {})

\* complex_type.cc:805: what ToString writes says of itself that it is in UTF-8.
\* No lead byte would lack its continuation, and no continuation its lead.
WrittenAsDeclared ==
  step = "written" =>
    \A i \in DOMAIN written :
      /\ written[i] \in Lead => IsPair(written, i)
      /\ written[i] \in Continuation => i > 1 /\ written[i - 1] >= 128
      /\ written[i] >= 224 => i < Len(written) /\ written[i + 1] \in Continuation
=============================================================================
