CONSTANTS
  Horizon = 5
  Steps = {1, 2}
  RiskId = {"storm1", "calm2", "calm4"}
  PathId = {"p1", "p2", "p4"}
  ReportId = {"ok1", "ok2", "ok4"}
  Risk <- MCRisk
  Path <- MCPath
  Report <- MCReport
  Vehicle = {"uav"}
  NoPath = NoPath
  StaleAfter = 1
  ValidFor = 2
  RecoveryHold = 3
  LinkLossAction = "RETURN"
  MaxDecisions = 3
SPECIFICATION Spec
PROPERTY
  ContinueWaitsForRecovery
CHECK_DEADLOCK FALSE
