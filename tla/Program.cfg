SPECIFICATION Spec
CONSTANTS
  Lines <- AllLines
  NoArg = NoArg
  Worlds <- WsdlWorlds
  NoNs = ""
  Many = 2
  Blocks <- TwoBlocks
  Globals <- AllGlobals
  MaxTurns = 3
  Cases <- AllCases
INVARIANTS
  TypeOK
  NeverBelowStart
  EveryImportRegisters
  BlocksMatchScopes
  SuccessIsComplete
  NoStaleImplementation
PROPERTIES
  OptionsAsUsage
  Termination
CHECK_DEADLOCK FALSE
