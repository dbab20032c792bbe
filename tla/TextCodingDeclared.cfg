SPECIFICATION Spec
CONSTANTS
  Texts <- AllTexts
  Markup = {38, 60, 62}
INVARIANT WrittenAsDeclared
CHECK_DEADLOCK FALSE
