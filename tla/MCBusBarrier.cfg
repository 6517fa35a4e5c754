CONSTANTS
  Task = {t1}
  Sub = {"tracker", "twin"}
  Topic <- MCTopic
  Pattern <- MCPattern
  Group <- MCGroup
  TruthGroups = {}
  Emits <- MCEmits
  Fallible = {}
  QueueSize = 1
  MaxPublish = 1
SPECIFICATION Spec
PROPERTY
  DrainIsBarrier
CHECK_DEADLOCK FALSE
