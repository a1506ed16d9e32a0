CONSTANTS
  EventCap = 8
  TxCap = 3
  ObjCap = 64
  MaxSeq = 143
  CommandCost = 70
  RuleCap = 23
  BaseRevision = 1
  TestVerbs = {}
  ProcessCap = 3
  FrameCounts <- MCFrameCounts
  OtherPrograms <- MCOtherPrograms
  ProcessName <- MCProcessName
  ThreadName <- MCThreadName
  SpaceName <- MCSpaceName
  BaseRules <- MCBaseRules
  CapabilityName <- MCCapabilityName
  CapabilityState <- MCCapabilityState
  Lines <- MCUserLines
  Queries <- MCUserQueries
  Operations <- MCUserOperations
  Names <- MCUserNames
  States <- MCUserStates
  TxName <- MCTxName
  ParseId <- MCParseId
SPECIFICATION UserSpec
INVARIANTS
  ProcessesFollowPermission
