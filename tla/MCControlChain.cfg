CONSTANTS
  Horizon = 4
  Steps = {1}
  RiskId = {"storm1", "hil0"}
  PathId = {"p1"}
  ReportId = {"ok1", "next1", "failsafe1", "other1"}
  Risk <- MCRisk
  Path <- MCPath
  Report <- MCReport
  Vehicle = {"uav", "uav2"}
  NoPath = NoPath
  StaleAfter = 1
  ValidFor = 2
  RecoveryHold = 2
  LinkLossAction = "LAND"
  MaxDecisions = 1
  Gate = {g1, g2}
  NoGate = NoGate
  MaxVerdicts = 2
SYMMETRY GateSymmetry
SPECIFICATION ChainSpec
INVARIANTS
  EffectWithinEvidence
  EffectTraceable
  AtMostOnce
PROPERTY KeepsPromise
CHECK_DEADLOCK FALSE
