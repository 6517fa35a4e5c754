CONSTANTS
  Task = {t1}
  Sub = {"twin", "metrics"}
  Topic <- MCTracks
  Pattern <- MCPattern
  Group <- MCGroup
  TruthGroups = {}
  Emits <- MCEmits
  Fallible = {"metrics"}
  QueueSize = 1
  MaxPublish = 2
SPECIFICATION Spec
INVARIANTS
  AckMeansAccepted
  HandledBeforeStop
  DrainCoversEarlierWork
PROPERTY Delivers
CHECK_DEADLOCK FALSE
