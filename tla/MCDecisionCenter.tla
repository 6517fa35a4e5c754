-------------------------- MODULE MCDecisionCenter --------------------------
(***************************************************************************)
(* The evidence the configurations choose from: calm and severe risks of   *)
(* two twin revisions, one invalid, and an envelope that is no risk; a     *)
(* path for each risk, one of them infeasible and one shorter-lived than   *)
(* its risk; reports of a healthy vehicle and of one failing in each way   *)
(* the rules distinguish.  One unit of time is about 150 ms.               *)
(***************************************************************************)
EXTENDS DecisionCenter

RiskOf(issued, rev, severe) ==
  [schema |-> "risk/1.0", issuedAt |-> issued, validUntil |-> issued + 3,
   revision |-> rev, severe |-> severe, valid |-> TRUE, mode |-> "SIM"]

MCRisk ==
  [r \in RiskId |->
    CASE r = "calm0" -> RiskOf(0, 1, FALSE)
      [] r = "storm1" -> RiskOf(1, 1, TRUE)
      [] r = "calm2" -> RiskOf(2, 1, FALSE)
      [] r = "calm4" -> RiskOf(4, 2, FALSE)
      [] r = "bad2" -> [RiskOf(2, 1, FALSE) EXCEPT !.valid = FALSE]
      [] r = "other1" -> [RiskOf(1, 1, FALSE) EXCEPT !.schema = "other",
                            !.validUntil = 1]]

MCPath ==
  [p \in PathId |->
    CASE p = "p0" -> [issuedAt |-> 0, validUntil |-> 1, revision |-> 1,
                      risk |-> "calm0", valid |-> TRUE]
      [] p = "p1" -> [issuedAt |-> 1, validUntil |-> 4, revision |-> 1,
                      risk |-> "storm1", valid |-> TRUE]
      [] p = "p2" -> [issuedAt |-> 2, validUntil |-> 5, revision |-> 1,
                      risk |-> "calm2", valid |-> TRUE]
      [] p = "p4" -> [issuedAt |-> 4, validUntil |-> 7, revision |-> 2,
                      risk |-> "calm4", valid |-> TRUE]
      [] p = "blocked1" -> [issuedAt |-> 1, validUntil |-> 4, revision |-> 1,
                            risk |-> "storm1", valid |-> FALSE]]

Healthy(t, rev) ==
  [vehicle |-> "uav", updatedAt |-> t, revision |-> rev,
   valid |-> TRUE, failsafe |-> FALSE, linkHealthy |-> TRUE,
   energy |-> "mission", returnFeasible |-> TRUE, landingFeasible |-> TRUE,
   safeToHold |-> TRUE, capabilities |-> Action]

MCReport ==
  [v \in ReportId |->
    CASE v = "ok0" -> Healthy(0, 1)
      [] v = "ok1" -> Healthy(1, 1)
      [] v = "ok2" -> Healthy(2, 1)
      [] v = "ok4" -> Healthy(4, 2)
      [] v = "failsafe1" -> [Healthy(1, 1) EXCEPT !.failsafe = TRUE]
      [] v = "linkLost2" -> [Healthy(2, 1) EXCEPT !.linkHealthy = FALSE]
      [] v = "lowEnergy1" -> [Healthy(1, 1) EXCEPT !.energy = "return"]
      [] v = "stranded1" -> [Healthy(1, 1) EXCEPT !.energy = "none",
                               !.landingFeasible = FALSE]
      [] v = "noAvoid1" -> [Healthy(1, 1) EXCEPT !.capabilities =
                              {"CONTINUE", "HOLD"}]
      [] v = "noHover2" -> [Healthy(2, 1) EXCEPT !.safeToHold = FALSE]
      [] v = "drifting2" -> [Healthy(2, 1) EXCEPT !.safeToHold = FALSE,
                               !.landingFeasible = FALSE,
                               !.capabilities = {"CONTINUE", "HOLD"}]]
=============================================================================
