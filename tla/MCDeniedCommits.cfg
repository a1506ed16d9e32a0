CONSTANTS
  EventCap = 16
  TxCap = 3
  ObjCap = 64
  MaxSeq = 33
  CommandCost = 8
  RuleCap = 23
  BaseRevision = 1
  TestVerbs = {"fault", "deny-policy"}
  BaseRules <- MCBaseRules
  CapabilityName <- MCCapabilityName
  CapabilityState <- MCCapabilityState
  Lines <- MCLines
  Queries <- MCQueries
  Operations <- MCOperations
  Names <- MCNames
  States <- MCStates
  TxName <- MCTxName
  ParseId <- MCParseId
SPECIFICATION Spec
INVARIANT DeniedCommandsAbort
