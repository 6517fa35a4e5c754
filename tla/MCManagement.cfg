CONSTANTS
  CommandId = {"narrow", "wide", "secret", "check1", "check2", "alice1", "bob1", "go1", "back", "reg1", "reg2", "other", "shadow", "shade", "use", "anon", "ack", "pause"}
  Command <- MCCommand
  Resource = {"safety", "risk", "overheat"}
  Values = {"narrow", "wide", "password"}
  SafetyCritical <- MCCritical
  Plaintext = {"password"}
  Plugin = {"v1", "v2"}
  Artifact = {"build1", "build2"}
  Sound = {"build1", "build2"}
  Alert = {"overheat"}
  Nothing = "nothing"
  MaxOperations = 8
  MaxRejected = 1
  MaxRaised = 1
SPECIFICATION MgmtSpec
INVARIANTS
  ActiveIsApproved
  AuditIsChain
  FirstAttemptDecides
  ActivePluginWasShadowed
CHECK_DEADLOCK FALSE
