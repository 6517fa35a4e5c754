CONSTANTS
  Horizon = 4
  Steps = {1}
  ObsId = {"calm0", "storm1", "calm3", "odd"}
  Obs <- MCObs
  Batches <- MCBatches
  Freshness = 1
  WeatherValidFor = 1
  MaxEstimates = 2
  TracksId = {"beyond0", "away2", "cross3"}
  Tracks <- MCTracks
  VehicleId = {"well", "spent"}
  Vehicle <- MCVehicle
  MinSeparation = 2
  ReactionTime = 1
  CollisionHorizon = 6
  StaleTwin = 1
  EnergyReserve = 20
  RiskValidFor = 2
  MaxRisks = 1
  Goal <- MCGoal
  Clearance = 1
  PathValidFor = 1
  FenceMin <- MCFenceMin
  FenceMax <- MCFenceMax
  MaxPaths = 1
  Component = {"weather", "risk"}
  Critical = {"risk"}
  HeartbeatTimeout = 1
  MaxEntities = 3
  DedupCapacity = 2
  MaxHistory = 2
  Budgets <- MCBudgets
SPECIFICATION AssessmentSpec
INVARIANTS
  ClosestApproachFound
  PlannedPathClear
  CalmRestsOnRecentWeather
  BadWeatherIsNotForgotten
  SilenceIsSeen
CHECK_DEADLOCK FALSE
