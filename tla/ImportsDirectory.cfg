SPECIFICATION Spec
CONSTANTS
  NoNs = ""
  Many = 2
  Worlds <- WsdlWorlds
INVARIANT WorkingDirectoryKept
CHECK_DEADLOCK FALSE
