SPECIFICATION Spec
CONSTANTS
  Namespaces = {"n1", "n2"}
  Names = {"a", "b", "c", "string"}
  NoParent = NoParent
  NoItem = NoItem
  Schemas <- RecursiveSchemas
INVARIANT EveryImplementedTypeDefined
CHECK_DEADLOCK FALSE
