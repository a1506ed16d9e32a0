CONSTANTS
  PageSize = 4
  PageCount = 10
  FirstPage = 2
  HeapPages = 2
  Align = 2
  MaxWord = 63
  Reserved <- MCReserved
  Maps <- MCMaps
SPECIFICATION Spec
INVARIANTS
  TypeOK
  UsableIsRam
  PagesAccounted
  BlocksAreApart
PROPERTIES
  LowestRunIsGranted
CHECK_DEADLOCK FALSE
