CONSTANTS
  Horizon = 4
  Steps = {1, 2}
  RiskId = {"calm0", "storm1", "calm2", "bad2", "other1"}
  PathId = {"p0", "p1", "p2", "blocked1"}
  ReportId = {"ok0", "ok1", "ok2", "failsafe1", "linkLost2", "lowEnergy1", "stranded1", "noAvoid1", "noHover2", "drifting2"}
  Risk <- MCRisk
  Path <- MCPath
  Report <- MCReport
  Vehicle = {"uav"}
  NoPath = NoPath
  StaleAfter = 1
  ValidFor = 2
  RecoveryHold = 2
  LinkLossAction = "RETURN"
  MaxDecisions = 2
SPECIFICATION Spec
INVARIANTS
  ExpiresWithEvidence
  FliesOnlyCoherentPath
  FeasibleManoeuvre
PROPERTY
  AvoidanceOutlastsRecoveryHold
CHECK_DEADLOCK FALSE
