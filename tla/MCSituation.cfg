CONSTANTS
  ScanId = {"n0", "n1", "n4", "n5", "s3", "odd"}
  Scan <- MCScan
  Session = {"north", "south"}
  ConfirmHits = 2
  CoastTimeout = 2
  LostTimeout = 4
  MaxTracks = 2
  TrackerDedup = 1
  MaxRemembered = 3
  EventId <- SituationEventId
  Event <- SituationEvent
  Key <- SituationKey
  MaxEntities = 2
  DedupCapacity = 1
  MaxHistory = 3
  Feed = {"tracks", "environment"}
  QueueSize = 1
  WeatherId = {"env", "broken"}
  Weather <- MCWeather
  MaxTrackId = 1
  MaxOutputs = 3
SPECIFICATION SituationSpec
INVARIANTS
  SituationTypeOK
  ConfirmedByDistinctScans
  LostIsAnnounced
  EntitiesTraceable
  TakenOncePerWindow
  SnapshotsAreRevisions
  LossIsOnRecord
  TwinKnowsLost
  HoldsNewest
CHECK_DEADLOCK FALSE
