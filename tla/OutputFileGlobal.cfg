SPECIFICATION Spec
CONSTANTS
  Blocks = {"n", "m"}
  NoName = NoName
  Globals = {"g"}
  MaxTurns = 3
INVARIANT GlobalNamespaceClosed
CHECK_DEADLOCK FALSE
