SPECIFICATION Spec
CONSTANTS
  NoNs = ""
  Many = 2
  Worlds <- SchemaWorlds
PROPERTY SchemaParseEnds
CHECK_DEADLOCK FALSE
