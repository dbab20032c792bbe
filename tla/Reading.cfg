SPECIFICATION Spec
CONSTANTS
  End = End
  Sessions <- AllSessions
  MaxPast = 1
  MaxJunk = 2
  MaxText = 4
  Hrefs <- AllHrefs
  Href2Prefix <- NoPrefixes
  Docs <- Trees
  Wanted = {"a", "b"}
  Wsdls <- AllWsdls
  MaxPath = 6
  Schemas <- AllSchemas
  XMLSchema = "xs"
  Space <- Spaces
  CName1up <- ClassNames
  Words <- WordsOf
  Texts <- AllTexts
  Markup = {38, 60, 62}
INVARIANTS
  TypeOK
  MeasuresAgree
  NamesRead
  OperationsAnswered
  ParametersUnwrapped
  ResolvesAsDeclared
  AnonymousIsOwn
  MembersTyped
  RefsNeverMistaken
  TextsSurvive
PROPERTIES
  CallsAsDescribed
  LoopVisitsChildren
  ElementsOfTheirNamespace
  WalkEnds
CHECK_DEADLOCK FALSE
