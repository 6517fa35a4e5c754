--------------------------- MODULE DecisionCenter ---------------------------
(***************************************************************************)
(* DecisionCenter.decide (src/low_altitude_ai/decision/engine.py): the     *)
(* rule baseline that turns a risk, a candidate path and a vehicle report  *)
(* into a PENDING proposal and drives the safety state machine.            *)
(***************************************************************************)
EXTENDS Evidence, Sequences

CONSTANTS
  ValidFor,         \* DecisionConfig.decision_valid_for_s
  RecoveryHold,     \* DecisionConfig.recovery_hold_s
  LinkLossAction,   \* the mission's link_loss_action
  MaxDecisions      \* bound: proposals the center makes

ASSUME CenterAssumption ==
  /\ ValidFor \in Nat \ {0}
  /\ RecoveryHold \in Nat \ {0}
  /\ LinkLossAction \in {"RETURN", "LAND", "HOLD"}
  /\ MaxDecisions \in Nat

VARIABLES
  state,            \* DecisionCenter._state
  lastUnsafeAt,     \* DecisionCenter._last_unsafe_at
  proposals         \* DecisionCenter._cache, in order of _sequence

centerVars == <<state, lastUnsafeAt, proposals>>

Never == -1         \* _last_unsafe_at is None

TargetState ==
  [CONTINUE |-> "CONTINUING", AVOID |-> "AVOIDING", HOLD |-> "HOLDING",
   RETURN |-> "RETURNING", LAND |-> "LANDING", ABORT |-> "ABORTING"]

DecisionState == {"READY"} \cup {TargetState[a] : a \in Action}

(* A proposal keeps the identity of what it was made from: "offered" is    *)
(* the path of the context (part of the cache key), "path" the one the     *)
(* proposal selects.                                                       *)
Proposal ==
  [id: Nat, risk: RiskId, offered: PathId \cup {NoPath},
   path: PathId \cup {NoPath}, report: ReportId, action: Action,
   at: Nat, expiresAt: Nat]

-----------------------------------------------------------------------------
(* The rules, in the order _evaluate tries them.                           *)

Outcome(action, usePath) == [action |-> action, usePath |-> usePath]

\* Mutant: holds without asking whether holding is safe.
MinimumRiskStop_AlwaysHold(v) ==
  IF Report[v].safeToHold \/ Report[v].landingFeasible
  THEN Outcome("HOLD", FALSE) ELSE Outcome("ABORT", FALSE)

MinimumRiskStop(v) ==
  IF Report[v].safeToHold THEN Outcome("HOLD", FALSE)
  ELSE IF Report[v].landingFeasible THEN Outcome("LAND", FALSE)
  ELSE Outcome("ABORT", FALSE)

LinkLoss(v, pathValid) ==
  IF \/ LinkLossAction = "RETURN" /\ Report[v].returnFeasible
     \/ LinkLossAction = "LAND" /\ Report[v].landingFeasible
  THEN Outcome(LinkLossAction, pathValid)
  ELSE MinimumRiskStop(v)

EnergyShortage(v, pathValid) ==
  IF Report[v].returnFeasible /\ Report[v].energy = "return"
  THEN Outcome("RETURN", pathValid)
  ELSE IF Report[v].landingFeasible THEN Outcome("LAND", pathValid)
  ELSE Outcome("ABORT", FALSE)

\* Inputs that are stale, invalid, expired or of another twin revision.
Untrusted(r, v) ==
  \/ Stale(v)
  \/ ~RiskKnown(r)
  \/ Risk[r].validUntil <= now
  \/ Report[v].revision # Risk[r].revision

Evaluate(r, v, pathValid) ==
  IF ~Report[v].valid \/ Report[v].failsafe THEN Outcome("ABORT", FALSE)
  ELSE IF Untrusted(r, v) THEN MinimumRiskStop(v)
  ELSE IF Report[v].energy # "mission" THEN EnergyShortage(v, pathValid)
  ELSE IF ~Report[v].linkHealthy THEN LinkLoss(v, pathValid)
  ELSE IF ~pathValid THEN MinimumRiskStop(v)
  ELSE Outcome(IF Risk[r].severe THEN "AVOID" ELSE "CONTINUE", TRUE)

\* Mutant: the window is a tick too short.
RecoveryHysteresis_Short(o, pathValid) ==
  IF /\ o.action = "CONTINUE"
     /\ state = "AVOIDING"
     /\ lastUnsafeAt # Never
     /\ now - lastUnsafeAt < RecoveryHold - 1
     /\ pathValid
  THEN Outcome("AVOID", TRUE)
  ELSE o

\* While avoiding, CONTINUE has to wait for the recovery window.
RecoveryHysteresis(o, pathValid) ==
  IF /\ o.action = "CONTINUE"
     /\ state = "AVOIDING"
     /\ lastUnsafeAt # Never
     /\ now - lastUnsafeAt < RecoveryHold
     /\ pathValid
  THEN Outcome("AVOID", TRUE)
  ELSE o

EnforceCapability(o, v) ==
  IF o.action \in Report[v].capabilities THEN o
  ELSE IF "HOLD" \in Report[v].capabilities /\ Report[v].safeToHold
  THEN Outcome("HOLD", FALSE)
  ELSE Outcome("ABORT", FALSE)

Earlier(s, t) == IF s <= t THEN s ELSE t

RiskExpiry(r) ==
  IF Risk[r].schema = "risk/1.0"
  THEN Earlier(now + ValidFor, Risk[r].validUntil) ELSE now + ValidFor

\* Mutant: the selected path does not limit the decision.
Expiry_IgnoresPath(r, p) == RiskExpiry(r)

Expiry(r, p) ==
  IF p = NoPath THEN RiskExpiry(r) ELSE Earlier(RiskExpiry(r), Path[p].validUntil)

-----------------------------------------------------------------------------
CenterInit ==
  /\ state = "READY"
  /\ lastUnsafeAt = Never
  /\ proposals = <<>>

\* The cache key is the risk (with its revision) and the offered path; the
\* vehicle report is not part of it.
Decided(r, p) ==
  \E i \in DOMAIN proposals : proposals[i].risk = r /\ proposals[i].offered = p

(* One call of decide().  For a key that was decided before, the call      *)
(* returns the cached proposal whatever the report and the time, and       *)
(* changes nothing: that proposal simply stays a member of "proposals".    *)
Decide(r, p, v) ==
  LET pathValid == PathUsable(p, r)
      raw == Evaluate(r, v, pathValid)
      chosen == EnforceCapability(RecoveryHysteresis(raw, pathValid), v)
      selected == IF chosen.usePath /\ pathValid THEN p ELSE NoPath
  IN  /\ Len(proposals) < MaxDecisions
      /\ ~Decided(r, p)
      /\ lastUnsafeAt' = IF raw.action # "CONTINUE" THEN now ELSE lastUnsafeAt
      /\ state' = TargetState[chosen.action]
      /\ proposals' = Append(proposals,
           [id |-> Len(proposals), risk |-> r, offered |-> p, path |-> selected,
            report |-> v, action |-> chosen.action, at |-> now,
            expiresAt |-> Expiry(r, selected)])

-----------------------------------------------------------------------------
(* The center on its own, with its clock.                                  *)

vars == <<now, state, lastUnsafeAt, proposals>>

Init == ClockInit /\ CenterInit

Tick == \E s \in Steps : Advance(s) /\ UNCHANGED centerVars

Propose ==
  /\ \E r \in IssuedRisk, p \in IssuedPath, v \in IssuedReport : Decide(r, p, v)
  /\ UNCHANGED now

Next == Tick \/ Propose

Spec == Init /\ [][Next]_vars

-----------------------------------------------------------------------------
(* Properties.                                                             *)

TypeOK ==
  /\ ClockTypeOK
  /\ state \in DecisionState
  /\ lastUnsafeAt \in Nat \cup {Never}
  /\ proposals \in Seq(Proposal)

(* A proposal never outlives what it rests on: it expires no later than    *)
(* its risk, if what it was given is one, no later than the path it        *)
(* selects, and within the decision validity of the moment it was made.    *)
(* The gateway re-checks only this expiry, so everything downstream        *)
(* depends on it.                                                          *)
ExpiresWithEvidence ==
  \A i \in DOMAIN proposals :
    LET d == proposals[i] IN
    /\ d.expiresAt <= d.at + ValidFor
    /\ Risk[d.risk].schema = "risk/1.0" => d.expiresAt <= Risk[d.risk].validUntil
    /\ d.path # NoPath => d.expiresAt <= Path[d.path].validUntil

(* CONTINUE and AVOID are the two actions that fly a new path: whichever   *)
(* rule, hysteresis or fallback chose one, it carries a feasible path,     *)
(* unexpired when chosen, planned for the risk it answers, and the vehicle *)
(* report was fresh, healthy and of the same twin revision.                *)
FliesOnlyCoherentPath ==
  \A i \in DOMAIN proposals :
    LET d == proposals[i] IN
    d.action \in {"CONTINUE", "AVOID"} =>
      /\ d.path \in PathId
      /\ Path[d.path].valid /\ Path[d.path].risk = d.risk
      /\ d.at < Path[d.path].validUntil /\ d.at < Risk[d.risk].validUntil
      /\ Path[d.path].revision = Report[d.report].revision
      /\ Report[d.report].linkHealthy /\ ~Report[d.report].failsafe
      /\ d.at - Report[d.report].updatedAt <= StaleAfter

(* Whatever chain of downgrades led to it, a proposal never asks for a     *)
(* manoeuvre the vehicle reported it cannot do: HOLD only if holding is    *)
(* safe, LAND and RETURN only if reported feasible, and anything but the   *)
(* ABORT of last resort only if the vehicle has the capability.            *)
FeasibleManoeuvre ==
  \A i \in DOMAIN proposals :
    LET d == proposals[i]
        v == Report[d.report] IN
    /\ d.action = "HOLD" => v.safeToHold
    /\ d.action = "LAND" => v.landingFeasible
    /\ d.action = "RETURN" => v.returnFeasible /\ v.energy # "none"
    /\ d.action # "ABORT" => d.action \in v.capabilities

(* The recovery window as the code implements it: the machine leaves       *)
(* AVOIDING for CONTINUING only once recovery_hold_s has passed since the  *)
(* last unsafe evaluation, however many proposals lie in between.          *)
AvoidanceOutlastsRecoveryHold ==
  [][state = "AVOIDING" /\ state' = "CONTINUING"
       => now - lastUnsafeAt >= RecoveryHold]_vars

(* The recovery window as documented: a drop in risk has to last           *)
(* recovery_hold_s before the machine returns to CONTINUE, from whichever  *)
(* safe state it is in.  The code checks the window in AVOIDING only.      *)
ContinueWaitsForRecovery ==
  [][state # "CONTINUING" /\ state' = "CONTINUING" /\ lastUnsafeAt # Never
       => now - lastUnsafeAt >= RecoveryHold]_vars
=============================================================================
