CONSTANTS
  Task = {t1}
  Sub = {"echo"}
  Topic <- MCTracks
  Pattern <- MCPattern
  Group <- MCGroup
  TruthGroups = {}
  Emits <- MCEmits
  Fallible = {}
  QueueSize = 1
  MaxPublish = 2
SPECIFICATION FairSpec
INVARIANT TypeOK
PROPERTIES
  PublishReturns
  CloseReturns
  DrainReturns
CHECK_DEADLOCK FALSE
