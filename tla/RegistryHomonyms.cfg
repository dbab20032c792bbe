SPECIFICATION Spec
CONSTANTS
  Namespaces = {"n1"}
  Names = {"a", "b", "c", "d", "x"}
  NoParent = NoParent
  NoItem = NoItem
  Ns = "n1"
  Nodes = {1, 2, 3}
  Root = 0
  NoNode = 9
  Documents <- AllDocuments
CHECK_DEADLOCK FALSE
INVARIANT MapNamesDefinitions
