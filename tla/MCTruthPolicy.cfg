CONSTANTS
  EventCap = 16
  TxCap = 3
  ObjCap = 64
  MaxSeq = 43
  CommandCost = 8
  RuleCap = 24
  BaseRevision = 1
  TestVerbs = {"fault", "deny-policy"}
  BaseRules <- MCBaseRules
  CapabilityName <- MCCapabilityName
  CapabilityState <- MCCapabilityState
  Lines <- PolicyLines
  Queries <- MCQueries
  Operations <- MCOperations
  Names <- MCNames
  States <- MCStates
  TxName <- MCTxName
  ParseId <- MCParseId
SPECIFICATION Spec
INVARIANTS
  PolicyRevisionTracked
PROPERTIES
  LockoutIsPermanent
  NewRuleDecides
