------------------------------- MODULE Reading -------------------------------
(***************************************************************************)
(* The readers of text and documents, side by side: a behaviour is one of  *)
(* a Parse ("parse": Tokenizer and Names), of the cursor of a loop         *)
(* ("loop": XmlCursor), of the queries about a WSDL document ("query":     *)
(* WsdlQueries), of an object that resolves its type ("type":              *)
(* TypeResolution) or of a text that is read and written again ("text":    *)
(* TextCoding).  They do not interact, and what the others would change    *)
(* keeps an idle value.                                                    *)
(***************************************************************************)
EXTENDS Naturals, Sequences

CONSTANTS End, Sessions, MaxPast, MaxJunk, Hrefs, Href2Prefix,
          Docs, Wanted, Wsdls, MaxPath,
          Schemas, XMLSchema, Space, CName1up, Words,
          Texts, Markup

VARIABLES reader, doc,
          text, mode, ptr, ord, len, call,
          base, name, current, lookup, found,
          message, phase, part, vec, element, el, path, sought, at,
          node, kind, object,
          points, string, written, step

parse == <<text, mode, ptr, ord, len, call>>
loop  == <<base, name, current, lookup, found>>
query == <<message, phase, part, vec, element, el, path, sought, at>>
type  == <<node, kind, object>>
coded == <<points, string, written, step>>

P == INSTANCE Names
L == INSTANCE XmlCursor
Q == INSTANCE WsdlQueries
T == INSTANCE TypeResolution
U == INSTANCE TextCoding

ASSUME SessionsAssumption == P!WellFormed

ASSUME HrefsAssumption == P!HrefsWellFormed

ASSUME LoopAssumption == L!WellFormed

ASSUME WsdlsAssumption == Q!WellFormed

ASSUME SchemasAssumption == T!WellFormed

ASSUME TextsAssumption == U!WellFormed

NoDocument ==
  [up |-> << >>, child |-> << >>, next |-> << >>, name |-> << >>, attr |-> << >>,
   blank |-> {}, decl |-> << >>]

NotParsing  == text = << >> /\ mode = P!Splitting({}) /\ ptr = 0 /\ ord = << >>
               /\ len = 0 /\ call = "none"
NotLooping  == base = L!Nil /\ name = "" /\ current = L!Nil /\ lookup = "" /\ found = L!Nil
NotQuerying == /\ message = << >> /\ phase = "none" /\ part = L!Nil /\ vec = << >>
               /\ element = << >> /\ el = L!Nil /\ path = << >> /\ sought = << >> /\ at = L!Nil
NotTyping   == node = L!Nil /\ kind = "none" /\ object = << >>
NotCoding   == points = << >> /\ string = << >> /\ written = << >> /\ step = "none"

Init ==
  \/ reader = "parse" /\ P!Init /\ doc = NoDocument /\ NotLooping /\ NotQuerying /\ NotTyping /\ NotCoding
  \/ reader = "loop"  /\ L!Init /\ NotParsing /\ NotQuerying /\ NotTyping /\ NotCoding
  \/ reader = "query" /\ Q!Init /\ NotParsing /\ NotLooping /\ NotTyping /\ NotCoding
  \/ reader = "type"  /\ T!Init /\ NotParsing /\ NotLooping /\ NotQuerying /\ NotCoding
  \/ reader = "text"  /\ U!Init /\ doc = NoDocument /\ NotParsing /\ NotLooping /\ NotQuerying
                      /\ NotTyping

Next ==
  \/ reader = "parse" /\ P!Next /\ UNCHANGED <<reader, doc, loop, query, type, coded>>
  \/ reader = "loop"  /\ L!Next /\ UNCHANGED <<reader, parse, query, type, coded>>
  \/ reader = "query" /\ Q!Next /\ UNCHANGED <<reader, parse, loop, type, coded>>
  \/ reader = "type"  /\ T!Next /\ UNCHANGED <<reader, parse, loop, query, coded>>
  \/ reader = "text"  /\ U!Next /\ UNCHANGED <<reader, doc, parse, loop, query, type>>

\* A loop advances its cursor in every turn, and a call runs on.
Spec ==
  /\ Init /\ [][Next]_<<reader, doc, parse, loop, query, type, coded>>
  /\ WF_<<doc, loop>>(L!Increment)
  /\ WF_<<doc, query>>(Q!Next)

-----------------------------------------------------------------------------
TypeOK ==
  CASE reader = "parse" -> P!TypeOK
    [] reader = "loop"  -> L!TypeOK
    [] reader = "query" -> Q!TypeOK
    [] reader = "type"  -> T!TypeOK
    [] reader = "text"  -> U!TypeOK

\* The properties of each reader.  Those of a Parse, of a loop and of the
\* queries hold of an idle one too.
CallsAsDescribed         == P!CallsAsDescribed
MeasuresAgree            == P!MeasuresAgree
NamesRead                == P!NamesRead
LoopVisitsChildren       == L!LoopVisitsChildren
OperationsAnswered       == Q!OperationsAnswered
ElementsOfTheirNamespace == Q!ElementsOfTheirNamespace
ParametersUnwrapped      == Q!ParametersUnwrapped
WalkEnds                 == Q!WalkEnds
ResolvesAsDeclared       == reader = "type" => T!ResolvesAsDeclared
AnonymousIsOwn           == reader = "type" => T!AnonymousIsOwn
MembersTyped             == reader = "type" => T!MembersTyped
RefsNeverMistaken        == reader = "type" => T!RefsNeverMistaken
TextsSurvive             == reader = "text" => U!TextsSurvive
=============================================================================
