------------------------------ MODULE Evidence ------------------------------
(***************************************************************************)
(* The events the control chain decides on: risk/1.0, path/1.0 and         *)
(* vehicle.state/1.0.  Each is immutable and has a unique identity, so     *)
(* each is a constant record indexed by its identity.  A handler may be    *)
(* given any event that has already been issued, however old: late,        *)
(* repeated and reordered evidence needs no further mechanism.             *)
(*                                                                         *)
(* "valid" stands for quality.valid of the envelope, and for its schema    *)
(* name except in a risk: decide() reads the expiry of a risk/1.0 only, of *)
(* whatever quality.  For a path it also stands for its status and its     *)
(* three validation flags.  "severe" stands for level HIGH or CRITICAL or  *)
(* a collision score of at least 55.  "energy" classifies battery_pct      *)
(* against the two battery requirements of the mission.                    *)
(***************************************************************************)
EXTENDS SimClock

CONSTANTS
  RiskId, PathId, ReportId,     \* identities of the events
  Risk, Path, Report,           \* their contents
  Vehicle,                      \* vehicle identities
  NoPath,                       \* stands for "no path in this context"
  StaleAfter                    \* DecisionConfig.vehicle_stale_ms

Modes == {"SIM", "REPLAY", "HIL", "LIVE"}
Action == {"CONTINUE", "AVOID", "HOLD", "RETURN", "LAND", "ABORT"}

RiskRecord ==
  [schema: {"risk/1.0", "other"}, issuedAt: Nat, validUntil: Nat, revision: Nat,
   severe: BOOLEAN, valid: BOOLEAN, mode: Modes]

PathRecord ==
  [issuedAt: Nat, validUntil: Nat, revision: Nat,
   risk: RiskId, valid: BOOLEAN]

ReportRecord ==
  [vehicle: Vehicle, updatedAt: Nat, revision: Nat,
   valid: BOOLEAN, failsafe: BOOLEAN, linkHealthy: BOOLEAN,
   energy: {"mission", "return", "none"},
   returnFeasible: BOOLEAN, landingFeasible: BOOLEAN, safeToHold: BOOLEAN,
   capabilities: SUBSET Action]

ASSUME EvidenceAssumption ==
  /\ Risk \in [RiskId -> RiskRecord]
  /\ Path \in [PathId -> PathRecord]
  /\ Report \in [ReportId -> ReportRecord]
  /\ NoPath \notin PathId
  /\ StaleAfter \in Nat

\* The contexts that can be handed to the decision center or the gate now.
IssuedRisk == {r \in RiskId : Risk[r].issuedAt <= now}
IssuedPath == {p \in PathId : Path[p].issuedAt <= now} \cup {NoPath}
IssuedReport == {v \in ReportId : Report[v].updatedAt <= now}

RiskKnown(r) == Risk[r].schema = "risk/1.0" /\ Risk[r].valid

Stale(v) == now - Report[v].updatedAt > StaleAfter

\* Mutant: the path's expiry is not looked at.
PathUsable_Expired(p, r) ==
  /\ p \in PathId
  /\ Path[p].valid
  /\ Path[p].revision = Risk[r].revision
  /\ Path[p].risk = r

\* A path that is feasible, unexpired and planned for this very risk.
PathUsable(p, r) ==
  /\ p \in PathId
  /\ Path[p].valid
  /\ Path[p].validUntil > now
  /\ Path[p].revision = Risk[r].revision
  /\ Path[p].risk = r
=============================================================================
