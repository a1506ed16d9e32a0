CONSTANTS
  EventCap = 3
  TxCap = 2
  ObjCap = 3
  MaxSeq = 5
  Span = 1
  Queries <- MCQueries
  Operations <- MCOperations
  Names <- MCNames
  States <- MCStates
  Reports <- MCReports
  Owners <- MCOwners
  TxName <- MCTxName
  ParseId <- MCParseId
SPECIFICATION Spec
INVARIANTS
  TypeOK
  RingIsWindow
  TransactionEnvelope
  ClosedTransactionsAgree
  RevisionsInOrder
PROPERTIES
  ClosedIsFinal
  RevisionsAccountForChanges
  ImplementsWindow
