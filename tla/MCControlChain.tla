--------------------------- MODULE MCControlChain ---------------------------
(***************************************************************************)
(* A small set of evidence for the control chain.  "calm0" and "storm1"    *)
(* are SIM risks of twin revisions 1 and 2; "replay0" and "hil0" are calm0 *)
(* in another runtime mode.  Every path answers the risk of its number and *)
(* expires before it.  One unit of time is about 150 ms.                   *)
(***************************************************************************)
EXTENDS ControlChain, TLC

\* The gates differ in nothing but their name.
GateSymmetry == Permutations(Gate)

CalmRisk(mode) ==
  [schema |-> "risk/1.0", issuedAt |-> 0, validUntil |-> 3, revision |-> 1,
   severe |-> FALSE, valid |-> TRUE, mode |-> mode]

MCRisk ==
  [r \in RiskId |->
    CASE r = "calm0" -> CalmRisk("SIM")
      [] r = "replay0" -> CalmRisk("REPLAY")
      [] r = "hil0" -> CalmRisk("HIL")
      [] r = "storm1" -> [CalmRisk("SIM") EXCEPT !.issuedAt = 1, !.validUntil = 4,
                            !.revision = 2, !.severe = TRUE]]

MCPath ==
  [p \in PathId |->
    CASE p = "p0" -> [issuedAt |-> 0, validUntil |-> 2, revision |-> 1,
                      risk |-> "calm0", valid |-> TRUE]
      [] p = "h0" -> [issuedAt |-> 0, validUntil |-> 2, revision |-> 1,
                      risk |-> "hil0", valid |-> TRUE]
      [] p = "p1" -> [issuedAt |-> 1, validUntil |-> 3, revision |-> 2,
                      risk |-> "storm1", valid |-> TRUE]]

Healthy(t, rev) ==
  [vehicle |-> "uav", updatedAt |-> t, revision |-> rev,
   valid |-> TRUE, failsafe |-> FALSE, linkHealthy |-> TRUE,
   energy |-> "mission", returnFeasible |-> TRUE, landingFeasible |-> TRUE,
   safeToHold |-> TRUE, capabilities |-> Action]

MCReport ==
  [v \in ReportId |->
    CASE v = "ok0" -> Healthy(0, 1)
      [] v = "ok1" -> Healthy(1, 1)
      [] v = "next1" -> Healthy(1, 2)
      [] v = "failsafe1" -> [Healthy(1, 1) EXCEPT !.failsafe = TRUE]
      [] v = "other1" -> [Healthy(1, 1) EXCEPT !.vehicle = "uav2"]]
=============================================================================
