SPECIFICATION Spec
CONSTANTS
  Namespaces = {"n1", "n2"}
  Names = {"a", "b", "c", "string"}
  NoParent = NoParent
  NoItem = NoItem
  Schemas <- AllSchemas
INVARIANTS
  TypeOK
  MembersFirst
  NeededFirst
  LeastFixpoint
  WholeWhenOrderable
  SweepsBounded
PROPERTIES
  AbstractSpec
  Termination
CHECK_DEADLOCK FALSE
