SPECIFICATION Spec
CONSTANTS
  Classes <- MCClasses
  Roots <- MCRoots
  Documents <- MCDocuments
  NoDefault = "none"
  MaxItems = 2
INVARIANTS
  TypeOK
  RoundTrip
  LatestWins
  ClearForgets
  ParseNeverUnsets
