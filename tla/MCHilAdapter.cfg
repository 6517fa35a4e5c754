CONSTANTS
  Horizon = 2
  Steps = {1}
  Adapter = {a1, a2}
  Caller = {x, y}
  EvidenceId = {"morning", "renewed", "propellersOn"}
  Bench <- MCBench
  CommandId = {"fly", "later", "sim"}
  Command <- MCCommand
  NoPermit = NoPermit
  MaxTrace = 3
SYMMETRY Symmetry
SPECIFICATION HilSpec
INVARIANTS
  SentUnderApproval
  AcknowledgedNotResent
  ReturnsFollowSends
CHECK_DEADLOCK FALSE
