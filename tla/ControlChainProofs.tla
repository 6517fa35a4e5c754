------------------------- MODULE ControlChainProofs -------------------------
(***************************************************************************)
(* Proofs about the decision center, for every set of evidence and every   *)
(* value of its thresholds, and about the control chain: the inductive     *)
(* invariant ChainInv, the safety properties it gives, and the refinement  *)
(* of AuthorizedControl.                                                   *)
(***************************************************************************)
EXTENDS ControlChain, SequenceTheorems, TLAPS

-----------------------------------------------------------------------------
(* The decision center by itself.                                          *)


(* The four cases of the expiry computation: Expiry is a lower bound of    *)
(* the decision validity, the risk validity and the path validity.         *)
LEMMA ExpiryBounds ==
  ASSUME TypeOK, NEW r \in RiskId, NEW p \in PathId \cup {NoPath}
  PROVE  /\ Expiry(r, p) \in Nat
         /\ Expiry(r, p) <= now + ValidFor
         /\ Risk[r].schema = "risk/1.0" => Expiry(r, p) <= Risk[r].validUntil
         /\ p # NoPath => Expiry(r, p) <= Path[p].validUntil
<1>1. /\ Risk[r].validUntil \in Nat
      /\ p # NoPath => Path[p].validUntil \in Nat
  BY EvidenceAssumption DEF RiskRecord, PathRecord
<1>2. now + ValidFor \in Nat
  BY ClockAssumption, CenterAssumption DEF TypeOK, ClockTypeOK
<1>3. QED
  BY <1>1, <1>2 DEF Expiry, RiskExpiry, Earlier

(* Every outcome the rules can produce is one of the six actions, and it   *)
(* survives hysteresis and the capability check as one.                    *)
LEMMA ChosenAction ==
  ASSUME NEW r, NEW v, NEW pathValid \in BOOLEAN
  PROVE  EnforceCapability(RecoveryHysteresis(Evaluate(r, v, pathValid), pathValid), v)
           \in [action: Action, usePath: BOOLEAN]
<1> DEFINE Outcomes == [action: Action, usePath: BOOLEAN]
<1>1. \A a \in Action, u \in BOOLEAN : Outcome(a, u) \in Outcomes
  BY DEF Outcome
<1>2. MinimumRiskStop(v) \in Outcomes
  BY <1>1 DEF MinimumRiskStop, Action
<1>3. LinkLoss(v, pathValid) \in Outcomes
  BY <1>1, <1>2, CenterAssumption DEF LinkLoss, Action
<1>4. EnergyShortage(v, pathValid) \in Outcomes
  BY <1>1 DEF EnergyShortage, Action
<1>5. Evaluate(r, v, pathValid) \in Outcomes
  <2>1. Outcome("ABORT", FALSE) \in Outcomes
    BY <1>1 DEF Action
  <2>2. Outcome(IF Risk[r].severe THEN "AVOID" ELSE "CONTINUE", TRUE) \in Outcomes
    BY <1>1 DEF Action
  <2> HIDE DEF Outcomes
  <2>3. QED
    BY <1>2, <1>3, <1>4, <2>1, <2>2 DEF Evaluate
<1>6. ASSUME NEW o \in Outcomes PROVE RecoveryHysteresis(o, pathValid) \in Outcomes
  BY <1>1 DEF RecoveryHysteresis, Action
<1>7. ASSUME NEW o \in Outcomes PROVE EnforceCapability(o, v) \in Outcomes
  BY <1>1 DEF EnforceCapability, Action
<1>8. QED
  BY <1>5, <1>6, <1>7

(* What one new proposal looks like, whichever rule made it.               *)
LEMMA DecideAppends ==
  ASSUME TypeOK, NEW r \in RiskId, NEW p \in PathId \cup {NoPath},
         NEW v \in ReportId, Decide(r, p, v)
  PROVE  \E d \in Proposal :
           /\ proposals' = Append(proposals, d)
           /\ d.id = Len(proposals) /\ d.at = now
           /\ d.expiresAt <= now + ValidFor
           /\ Risk[d.risk].schema = "risk/1.0" => d.expiresAt <= Risk[d.risk].validUntil
           /\ d.path # NoPath => /\ d.expiresAt <= Path[d.path].validUntil
                                 /\ PathUsable(d.path, d.risk)
<1> DEFINE pathValid == PathUsable(p, r)
           chosen == EnforceCapability(
                       RecoveryHysteresis(Evaluate(r, v, pathValid), pathValid), v)
           selected == IF chosen.usePath /\ pathValid THEN p ELSE NoPath
           d == [id |-> Len(proposals), risk |-> r, offered |-> p,
                 path |-> selected, report |-> v, action |-> chosen.action,
                 at |-> now, expiresAt |-> Expiry(r, selected)]
<1>1. pathValid \in BOOLEAN
  BY DEF PathUsable
<1>2. chosen \in [action: Action, usePath: BOOLEAN]
  BY <1>1, ChosenAction
<1>3. selected \in PathId \cup {NoPath}
  OBVIOUS
<1>4. selected # NoPath => PathUsable(selected, r)
  OBVIOUS
<1>5. /\ Expiry(r, selected) \in Nat
      /\ Expiry(r, selected) <= now + ValidFor
      /\ Risk[r].schema = "risk/1.0" => Expiry(r, selected) <= Risk[r].validUntil
      /\ selected # NoPath => Expiry(r, selected) <= Path[selected].validUntil
  BY <1>3, ExpiryBounds
<1>6. Len(proposals) \in Nat /\ now \in Nat
  BY ClockAssumption DEF TypeOK, ClockTypeOK
<1>7. d \in Proposal
  BY <1>2, <1>3, <1>5, <1>6 DEF Proposal
<1>8. proposals' = Append(proposals, d)
  BY DEF Decide
<1>9. QED
  BY <1>4, <1>5, <1>7, <1>8

(* Type correctness of the center's own state is kept by a call of         *)
(* decide(), whatever else changes in the same step.                       *)
LEMMA DecideTypes ==
  ASSUME TypeOK, NEW r \in RiskId, NEW p \in PathId \cup {NoPath},
         NEW v \in ReportId, Decide(r, p, v), now' = now
  PROVE  TypeOK'
<1>1. PICK d \in Proposal : proposals' = Append(proposals, d)
  BY DecideAppends
<1>2. proposals' \in Seq(Proposal)
  BY <1>1 DEF TypeOK
<1>3. state' \in DecisionState
  <2> DEFINE pathValid == PathUsable(p, r)
             chosen == EnforceCapability(
                         RecoveryHysteresis(Evaluate(r, v, pathValid), pathValid), v)
  <2>1. chosen \in [action: Action, usePath: BOOLEAN]
    <3>1. pathValid \in BOOLEAN
      BY DEF PathUsable
    <3>2. QED
      BY <3>1, ChosenAction
  <2>2. state' = TargetState[chosen.action]
    BY DEF Decide
  <2>3. chosen.action \in Action
    BY <2>1
  <2> HIDE DEF chosen
  <2>4. QED
    BY <2>2, <2>3 DEF DecisionState
<1>4. lastUnsafeAt' \in Nat \cup {Never}
  BY ClockAssumption DEF Decide, TypeOK, ClockTypeOK
<1>5. now' \in 0..Horizon
  BY DEF TypeOK, ClockTypeOK
<1>6. QED
  BY <1>2, <1>3, <1>4, <1>5 DEF TypeOK, ClockTypeOK

(* Time passing changes nothing else.                                      *)
LEMMA AdvanceTypes ==
  ASSUME ClockTypeOK, NEW s \in Steps, Advance(s)
  PROVE  ClockTypeOK' /\ now <= now'
BY ClockAssumption DEF ClockTypeOK, Advance

(* Type correctness of the decision center.                                *)
THEOREM CenterTypeCorrect == Spec => []TypeOK
<1>1. Init => TypeOK
  BY ClockAssumption
     DEF Init, ClockInit, CenterInit, TypeOK, ClockTypeOK, DecisionState
<1>2. TypeOK /\ [Next]_vars => TypeOK'
  <2> SUFFICES ASSUME TypeOK, [Next]_vars PROVE TypeOK'
    OBVIOUS
  <2>1. CASE Tick
    BY <2>1, AdvanceTypes DEF Tick, centerVars, TypeOK
  <2>2. CASE Propose
    BY <2>2, DecideTypes DEF Propose, IssuedRisk, IssuedPath, IssuedReport
  <2>3. CASE UNCHANGED vars
    BY <2>3 DEF vars, TypeOK, ClockTypeOK
  <2>4. QED
    BY <2>1, <2>2, <2>3 DEF Next
<1>3. QED
  BY <1>1, <1>2, PTL DEF Spec

(* Appending a proposal that keeps to the bounds keeps ExpiresWithEvidence.*)
LEMMA DecideKeepsExpiry ==
  ASSUME TypeOK, ExpiresWithEvidence,
         NEW r \in RiskId, NEW p \in PathId \cup {NoPath},
         NEW v \in ReportId, Decide(r, p, v)
  PROVE  ExpiresWithEvidence'
<1>1. PICK d \in Proposal :
        /\ proposals' = Append(proposals, d)
        /\ d.at = now
        /\ d.expiresAt <= now + ValidFor
        /\ Risk[d.risk].schema = "risk/1.0" => d.expiresAt <= Risk[d.risk].validUntil
        /\ d.path # NoPath => d.expiresAt <= Path[d.path].validUntil
  BY DecideAppends
<1> SUFFICES ASSUME NEW i \in DOMAIN proposals'
             PROVE  LET e == proposals'[i] IN
                    /\ e.expiresAt <= e.at + ValidFor
                    /\ Risk[e.risk].schema = "risk/1.0" =>
                         e.expiresAt <= Risk[e.risk].validUntil
                    /\ e.path # NoPath => e.expiresAt <= Path[e.path].validUntil
  BY DEF ExpiresWithEvidence
<1>2. CASE i \in DOMAIN proposals
  <2>1. proposals'[i] = proposals[i]
    BY <1>1, <1>2 DEF TypeOK
  <2>2. QED
    BY <1>2, <2>1 DEF ExpiresWithEvidence
<1>3. CASE i \notin DOMAIN proposals
  <2>1. proposals'[i] = d
    BY <1>1, <1>3 DEF TypeOK
  <2>2. QED
    BY <1>1, <2>1
<1>4. QED
  BY <1>2, <1>3

(* No proposal of the center outlives its risk, its path or its validity.  *)
THEOREM ProposalsExpireWithEvidence == Spec => []ExpiresWithEvidence
<1>1. Init => ExpiresWithEvidence
  BY DEF Init, CenterInit, ExpiresWithEvidence
<1>2. TypeOK /\ ExpiresWithEvidence /\ [Next]_vars => ExpiresWithEvidence'
  <2> SUFFICES ASSUME TypeOK, ExpiresWithEvidence, [Next]_vars
               PROVE  ExpiresWithEvidence'
    OBVIOUS
  <2>1. CASE Propose
    BY <2>1, DecideKeepsExpiry DEF Propose, IssuedRisk, IssuedPath, IssuedReport
  <2>2. CASE UNCHANGED proposals
    BY <2>2 DEF ExpiresWithEvidence
  <2>3. QED
    BY <2>1, <2>2 DEF Next, Tick, centerVars, vars
<1>3. QED
  BY <1>1, <1>2, CenterTypeCorrect, PTL DEF Spec

-----------------------------------------------------------------------------
(* What the rules, the recovery window and the fallback can agree on: with *)
(* the inputs of one call, an outcome flies a path only under the          *)
(* conditions of the last two rules, and the vehicle is able to do it.     *)

Flying(o, r, v, pathValid) ==
  o.action \in {"CONTINUE", "AVOID"} =>
    /\ o.usePath /\ pathValid
    /\ Risk[r].validUntil > now
    /\ Report[v].revision = Risk[r].revision
    /\ Report[v].linkHealthy /\ ~Report[v].failsafe
    /\ ~Stale(v)

Able(o, v) ==
  /\ o.action = "HOLD" => Report[v].safeToHold
  /\ o.action = "LAND" => Report[v].landingFeasible
  /\ o.action = "RETURN" => Report[v].returnFeasible /\ Report[v].energy # "none"

\* Each rule by itself.
LEMMA RulesAgree ==
  ASSUME TypeOK, NEW r \in RiskId, NEW v \in ReportId, NEW pathValid \in BOOLEAN
  PROVE  LET o == Evaluate(r, v, pathValid) IN
         Flying(o, r, v, pathValid) /\ Able(o, v)
<1> DEFINE Good(o) == Flying(o, r, v, pathValid) /\ Able(o, v)
<1>1. Risk[r].validUntil \in Nat /\ now \in Nat
  BY EvidenceAssumption, ClockAssumption DEF RiskRecord, TypeOK, ClockTypeOK
<1>2. \A u \in BOOLEAN : Good(Outcome("ABORT", u))
  BY DEF Outcome, Flying, Able
<1>3. Good(MinimumRiskStop(v))
  BY <1>2 DEF MinimumRiskStop, Outcome, Flying, Able
<1>4. ASSUME Report[v].energy # "mission"
      PROVE  Good(EnergyShortage(v, pathValid))
  BY <1>2 DEF EnergyShortage, Outcome, Flying, Able
<1>5. ASSUME Report[v].energy = "mission"
      PROVE  Good(LinkLoss(v, pathValid))
  <2>1. CASE LinkLoss(v, pathValid) = MinimumRiskStop(v)
    BY <2>1, <1>3
  <2>2. CASE /\ LinkLossAction = "RETURN" /\ Report[v].returnFeasible
             /\ LinkLoss(v, pathValid) = Outcome("RETURN", pathValid)
    BY <1>5, <2>2 DEF Outcome, Flying, Able
  <2>3. CASE /\ LinkLossAction = "LAND" /\ Report[v].landingFeasible
             /\ LinkLoss(v, pathValid) = Outcome("LAND", pathValid)
    BY <2>3 DEF Outcome, Flying, Able
  <2>4. QED
    BY <2>1, <2>2, <2>3 DEF LinkLoss
<1>6. ASSUME Report[v].valid /\ ~Report[v].failsafe, ~Untrusted(r, v),
             Report[v].linkHealthy, pathValid, NEW a \in {"AVOID", "CONTINUE"}
      PROVE  Good(Outcome(a, TRUE))
  BY <1>1, <1>6 DEF Outcome, Flying, Able, Untrusted
<1> HIDE DEF Good
<1>7. Good(Evaluate(r, v, pathValid))
  BY <1>2, <1>3, <1>4, <1>5, <1>6 DEF Evaluate
<1>8. QED
  BY <1>7 DEF Good

\* Neither the recovery window nor the fallback undoes it, and what the
\* fallback lets pass the vehicle has the capability for.
LEMMA ChosenAgrees ==
  ASSUME TypeOK, NEW r \in RiskId, NEW v \in ReportId, NEW pathValid \in BOOLEAN
  PROVE  LET o == EnforceCapability(
                    RecoveryHysteresis(Evaluate(r, v, pathValid), pathValid), v) IN
         /\ Flying(o, r, v, pathValid) /\ Able(o, v)
         /\ o.action # "ABORT" => o.action \in Report[v].capabilities
<1> DEFINE raw == Evaluate(r, v, pathValid)
           held == RecoveryHysteresis(raw, pathValid)
<1>1. Flying(raw, r, v, pathValid) /\ Able(raw, v)
  BY RulesAgree
<1> HIDE DEF raw
<1>2. Flying(held, r, v, pathValid) /\ Able(held, v)
  BY <1>1 DEF RecoveryHysteresis, Outcome, Flying, Able
<1> HIDE DEF held
<1>3. LET o == EnforceCapability(held, v) IN
      /\ Flying(o, r, v, pathValid) /\ Able(o, v)
      /\ o.action # "ABORT" => o.action \in Report[v].capabilities
  BY <1>2 DEF EnforceCapability, Outcome, Flying, Able
<1>4. QED
  BY <1>3 DEF held, raw

\* The two properties of one proposal.
Coherent(d) ==
  d.action \in {"CONTINUE", "AVOID"} =>
    /\ d.path \in PathId
    /\ Path[d.path].valid /\ Path[d.path].risk = d.risk
    /\ d.at < Path[d.path].validUntil /\ d.at < Risk[d.risk].validUntil
    /\ Path[d.path].revision = Report[d.report].revision
    /\ Report[d.report].linkHealthy /\ ~Report[d.report].failsafe
    /\ d.at - Report[d.report].updatedAt <= StaleAfter

Manoeuvrable(d) ==
  /\ Able(d, d.report)
  /\ d.action # "ABORT" => d.action \in Report[d.report].capabilities

(* A new proposal is sound, and the earlier ones stay so.                  *)
LEMMA DecideIsSound ==
  ASSUME TypeOK, NEW r \in RiskId, NEW p \in PathId \cup {NoPath},
         NEW v \in ReportId, Decide(r, p, v)
  PROVE  \E d : /\ proposals' = Append(proposals, d)
                /\ Coherent(d) /\ Manoeuvrable(d)
<1> DEFINE pathValid == PathUsable(p, r)
           chosen == EnforceCapability(
                       RecoveryHysteresis(Evaluate(r, v, pathValid), pathValid), v)
           selected == IF chosen.usePath /\ pathValid THEN p ELSE NoPath
           d == [id |-> Len(proposals), risk |-> r, offered |-> p,
                 path |-> selected, report |-> v, action |-> chosen.action,
                 at |-> now, expiresAt |-> Expiry(r, selected)]
<1>1. proposals' = Append(proposals, d)
  BY DEF Decide
<1>2. pathValid \in BOOLEAN
  BY DEF PathUsable
<1>3. /\ Flying(chosen, r, v, pathValid) /\ Able(chosen, v)
      /\ chosen.action # "ABORT" => chosen.action \in Report[v].capabilities
  BY <1>2, ChosenAgrees
<1>4. /\ Report[v].updatedAt \in Nat /\ now \in Nat
      /\ Risk[r].validUntil \in Nat
      /\ p \in PathId => Path[p].validUntil \in Nat
  BY EvidenceAssumption, ClockAssumption
     DEF ReportRecord, RiskRecord, PathRecord, TypeOK, ClockTypeOK
<1> HIDE DEF chosen
<1>5. Manoeuvrable(d)
  BY <1>3 DEF Manoeuvrable, Able
<1>6. Coherent(d)
  <2> SUFFICES ASSUME chosen.action \in {"CONTINUE", "AVOID"} PROVE Coherent(d)
    BY DEF Coherent
  <2>1. /\ chosen.usePath /\ pathValid
        /\ Risk[r].validUntil > now
        /\ Report[v].revision = Risk[r].revision
        /\ Report[v].linkHealthy /\ ~Report[v].failsafe
        /\ ~Stale(v)
    BY <1>3 DEF Flying
  <2>2. d.path = p
    BY <2>1
  <2>3. QED
    BY <2>1, <2>2, <1>4, EvidenceAssumption DEF Coherent, PathUsable, Stale
<1>7. QED
  BY <1>1, <1>5, <1>6

\* Both properties together, as they are proved.
SoundProposals ==
  \A i \in DOMAIN proposals : Coherent(proposals[i]) /\ Manoeuvrable(proposals[i])

(* Every proposal of the center is coherent and can be carried out.        *)
THEOREM ProposalsSound == Spec => []SoundProposals
<1>1. Init => SoundProposals
  BY DEF Init, CenterInit, SoundProposals
<1>2. TypeOK /\ SoundProposals /\ [Next]_vars => SoundProposals'
  <2> SUFFICES ASSUME TypeOK, SoundProposals, [Next]_vars
               PROVE  SoundProposals'
    OBVIOUS
  <2>1. CASE Propose
    <3>1. PICK r \in RiskId, p \in PathId \cup {NoPath}, v \in ReportId :
            Decide(r, p, v)
      BY <2>1 DEF Propose, IssuedRisk, IssuedPath, IssuedReport
    <3>2. PICK d : /\ proposals' = Append(proposals, d)
                   /\ Coherent(d) /\ Manoeuvrable(d)
      BY <3>1, DecideIsSound
    <3> SUFFICES ASSUME NEW i \in DOMAIN proposals'
                 PROVE  Coherent(proposals'[i]) /\ Manoeuvrable(proposals'[i])
      BY DEF SoundProposals, Coherent, Manoeuvrable, Able
    <3>3. proposals \in Seq(Proposal)
      BY DEF TypeOK
    <3>4. IF i \in DOMAIN proposals THEN proposals'[i] = proposals[i]
          ELSE proposals'[i] = d
      BY <3>2, <3>3
    <3>5. QED
      BY <3>2, <3>4 DEF SoundProposals
  <2>2. CASE UNCHANGED proposals
    BY <2>2 DEF SoundProposals, Coherent, Manoeuvrable, Able
  <2>3. QED
    BY <2>1, <2>2 DEF Next, Tick, centerVars, vars
<1>3. QED
  BY <1>1, <1>2, CenterTypeCorrect, PTL DEF Spec

(* CONTINUE and AVOID carry a feasible, unexpired path planned for the     *)
(* risk they answer, on a fresh and healthy report.                        *)
THEOREM FliesOnlyOnCoherentPaths == Spec => []FliesOnlyCoherentPath
<1>1. SoundProposals => FliesOnlyCoherentPath
  BY DEF SoundProposals, Coherent, FliesOnlyCoherentPath
<1>2. QED
  BY <1>1, ProposalsSound, PTL

(* No chain of rules and fallbacks asks for a manoeuvre that the vehicle   *)
(* reported it cannot do.                                                  *)
THEOREM ManoeuvresFeasible == Spec => []FeasibleManoeuvre
<1>1. SoundProposals => FeasibleManoeuvre
  BY DEF SoundProposals, Manoeuvrable, Able, FeasibleManoeuvre
<1>2. QED
  BY <1>1, ProposalsSound, PTL

\* The last moment that was not safe is known while avoiding.
AvoidingSinceUnsafe == state = "AVOIDING" => lastUnsafeAt # Never

(* What decide() chooses is CONTINUE only if the rules say so and the      *)
(* window has passed; it is AVOID by the rules, or to sit out the window.  *)
LEMMA ChoiceAfterWindow ==
  ASSUME TypeOK, NEW r \in RiskId, NEW v \in ReportId, NEW pathValid \in BOOLEAN
  PROVE  LET raw == Evaluate(r, v, pathValid)
             o == EnforceCapability(RecoveryHysteresis(raw, pathValid), v)
         IN  /\ o.action = "CONTINUE" =>
                  \/ state # "AVOIDING"
                  \/ lastUnsafeAt = Never
                  \/ now - lastUnsafeAt >= RecoveryHold
             /\ o.action = "AVOID" =>
                  \/ raw.action # "CONTINUE"
                  \/ lastUnsafeAt # Never
<1> DEFINE raw == Evaluate(r, v, pathValid)
           held == RecoveryHysteresis(raw, pathValid)
           o == EnforceCapability(held, v)
<1>1. Flying(raw, r, v, pathValid)
  BY RulesAgree
<1> HIDE DEF raw
<1>2. now \in Int /\ lastUnsafeAt \in Int /\ RecoveryHold \in Int
  BY ClockAssumption, CenterAssumption DEF TypeOK, ClockTypeOK, Never
<1>3. o.action \in {"CONTINUE", "AVOID"} => o = held
  BY DEF EnforceCapability, Outcome
<1>4. held.action = "CONTINUE" =>
        \/ state # "AVOIDING"
        \/ lastUnsafeAt = Never
        \/ now - lastUnsafeAt >= RecoveryHold
  BY <1>1, <1>2 DEF RecoveryHysteresis, Outcome, Flying
<1>5. held.action = "AVOID" => raw.action # "CONTINUE" \/ lastUnsafeAt # Never
  BY DEF RecoveryHysteresis, Outcome
<1> HIDE DEF held
<1>6. QED
  BY <1>3, <1>4, <1>5 DEF held, raw

LEMMA DecideKeepsWindow ==
  ASSUME TypeOK, AvoidingSinceUnsafe, NEW r \in RiskId, NEW p \in PathId \cup {NoPath},
         NEW v \in ReportId, Decide(r, p, v)
  PROVE  /\ AvoidingSinceUnsafe'
         /\ state = "AVOIDING" /\ state' = "CONTINUING" => now - lastUnsafeAt >= RecoveryHold
<1> DEFINE pathValid == PathUsable(p, r)
           raw == Evaluate(r, v, pathValid)
           chosen == EnforceCapability(RecoveryHysteresis(raw, pathValid), v)
<1>1. pathValid \in BOOLEAN
  BY DEF PathUsable
<1>2. chosen.action \in Action
  BY <1>1, ChosenAction
<1>3. /\ lastUnsafeAt' = IF raw.action # "CONTINUE" THEN now ELSE lastUnsafeAt
      /\ state' = TargetState[chosen.action]
  BY DEF Decide
<1>4. /\ chosen.action = "CONTINUE" =>
           \/ state # "AVOIDING"
           \/ lastUnsafeAt = Never
           \/ now - lastUnsafeAt >= RecoveryHold
      /\ chosen.action = "AVOID" => raw.action # "CONTINUE" \/ lastUnsafeAt # Never
  BY <1>1, ChoiceAfterWindow
<1>5. now # Never
  BY ClockAssumption DEF TypeOK, ClockTypeOK, Never
<1> HIDE DEF raw, chosen
<1>6. /\ state' = "CONTINUING" => chosen.action = "CONTINUE"
      /\ state' = "AVOIDING" => chosen.action = "AVOID"
  BY <1>2, <1>3 DEF TargetState, Action
<1>7. QED
  BY <1>3, <1>4, <1>5, <1>6 DEF AvoidingSinceUnsafe

(* The machine leaves AVOIDING for CONTINUING only once recovery_hold_s    *)
(* has passed since the last unsafe evaluation.                            *)
THEOREM AvoidanceOutlasts == Spec => AvoidanceOutlastsRecoveryHold
<1>1. Init => AvoidingSinceUnsafe
  BY DEF Init, CenterInit, AvoidingSinceUnsafe
<1>2. TypeOK /\ AvoidingSinceUnsafe /\ [Next]_vars =>
        /\ AvoidingSinceUnsafe'
        /\ [state = "AVOIDING" /\ state' = "CONTINUING"
              => now - lastUnsafeAt >= RecoveryHold]_vars
  <2> SUFFICES ASSUME TypeOK, AvoidingSinceUnsafe, [Next]_vars
               PROVE  /\ AvoidingSinceUnsafe'
                      /\ state = "AVOIDING" /\ state' = "CONTINUING"
                           => now - lastUnsafeAt >= RecoveryHold
    OBVIOUS
  <2>1. CASE Propose
    BY <2>1, DecideKeepsWindow DEF Propose, IssuedRisk, IssuedPath, IssuedReport
  <2>2. CASE UNCHANGED <<state, lastUnsafeAt>>
    BY <2>2 DEF AvoidingSinceUnsafe
  <2>3. QED
    BY <2>1, <2>2 DEF Next, Tick, centerVars, vars
<1>3. QED
  BY <1>1, <1>2, CenterTypeCorrect, PTL DEF Spec, AvoidanceOutlastsRecoveryHold

-----------------------------------------------------------------------------
(* The chain.  Each conjunct of ChainInv that a component can disturb is   *)
(* treated under the action of that component.                             *)


\* At the start there is no proposal, answer or effect.
LEMMA ChainInitInv == ChainInit => ChainInv
<1> SUFFICES ASSUME ChainInit PROVE ChainInv
  OBVIOUS
<1> USE DEF ChainInit, ClockInit, CenterInit, GateInit, GatewayInit
<1>1. ChainTypeOK
  BY ClockAssumption DEF ChainTypeOK, TypeOK, ClockTypeOK, DecisionState
<1>2. ExpiresWithEvidence /\ ProposalsOrdered
  BY DEF ExpiresWithEvidence, ProposalsOrdered
<1>3. OutcomesSound /\ GateCacheFunctional
  BY DEF OutcomesSound, GateCacheFunctional
<1>4. EffectsSound /\ AtMostOnce
  BY DEF EffectsSound, AtMostOnce
<1>5. QED
  BY <1>1, <1>2, <1>3, <1>4 DEF ChainInv

(* Time passing: every bound "at <= now" gets weaker.                      *)
LEMMA ChainTickInv ==
  ASSUME ChainInv, ChainTick
  PROVE  ChainInv'
<1>1. PICK s \in Steps : Advance(s)
  BY DEF ChainTick
<1>2. ClockTypeOK' /\ now <= now'
  BY <1>1, AdvanceTypes DEF ChainInv, ChainTypeOK, TypeOK
<1>3. UNCHANGED <<state, lastUnsafeAt, proposals, outcomes, gateSequence, effects>>
  BY DEF ChainTick
<1>4. now \in Nat /\ now' \in Nat
  BY <1>2, ClockAssumption DEF ChainInv, ChainTypeOK, TypeOK, ClockTypeOK
<1>5. ChainTypeOK'
  BY <1>2, <1>3 DEF ChainInv, ChainTypeOK, TypeOK
<1>6. ExpiresWithEvidence'
  BY <1>3 DEF ChainInv, ExpiresWithEvidence
<1>7. ProposalsOrdered'
  <2> SUFFICES ASSUME NEW i \in DOMAIN proposals
               PROVE  proposals[i].id = i - 1 /\ proposals[i].at <= now'
    BY <1>3 DEF ProposalsOrdered
  <2>1. proposals[i] \in Proposal
    BY DEF ChainInv, ChainTypeOK, TypeOK
  <2>2. QED
    BY <1>2, <1>4, <2>1 DEF ChainInv, ProposalsOrdered, Proposal
<1>8. OutcomesSound'
  <2> SUFFICES ASSUME NEW o \in outcomes
               PROVE  o.at <= now'
    BY <1>3 DEF ChainInv, OutcomesSound, Answered, Justified
  <2>1. o.at \in Nat /\ o.at <= now
    BY DEF ChainInv, ChainTypeOK, Verdict, OutcomesSound
  <2>2. QED
    BY <1>2, <1>4, <2>1
<1>9. GateCacheFunctional' /\ AtMostOnce'
  BY <1>3 DEF ChainInv, GateCacheFunctional, AtMostOnce
<1>10. EffectsSound'
  <2> SUFFICES ASSUME NEW i \in DOMAIN effects
               PROVE  effects[i].at <= now'
    BY <1>3 DEF ChainInv, EffectsSound
  <2>1. effects[i] \in Effect
    BY DEF ChainInv, ChainTypeOK
  <2>2. effects[i].at <= now
    BY DEF ChainInv, EffectsSound
  <2>3. QED
    BY <1>2, <1>4, <2>1, <2>2 DEF Effect
<1>11. QED
  BY <1>5, <1>6, <1>7, <1>8, <1>9, <1>10 DEF ChainInv

(* A new proposal leaves the earlier ones where they are.                  *)
LEMMA ChainDecideInv ==
  ASSUME ChainInv, ChainDecide
  PROVE  ChainInv'
<1>1. PICK r \in RiskId, p \in PathId \cup {NoPath}, v \in ReportId : Decide(r, p, v)
  BY DEF ChainDecide, IssuedRisk, IssuedPath, IssuedReport
<1>2. UNCHANGED <<now, outcomes, gateSequence, effects>>
  BY DEF ChainDecide
<1>3. TypeOK /\ ExpiresWithEvidence
  BY DEF ChainInv, ChainTypeOK
<1>4. PICK d \in Proposal :
        proposals' = Append(proposals, d) /\ d.id = Len(proposals) /\ d.at = now
  BY <1>1, <1>3, DecideAppends
<1>5. proposals \in Seq(Proposal)
  BY <1>3 DEF TypeOK
<1>6. /\ DOMAIN proposals' = DOMAIN proposals \cup {Len(proposals) + 1}
      /\ \A i \in DOMAIN proposals : proposals'[i] = proposals[i]
      /\ proposals'[Len(proposals) + 1] = d
  BY <1>4, <1>5
<1>7. ChainTypeOK'
  BY <1>1, <1>2, <1>3, DecideTypes DEF ChainInv, ChainTypeOK
<1>8. ExpiresWithEvidence'
  BY <1>1, <1>3, DecideKeepsExpiry
<1>9. ProposalsOrdered'
  <2> SUFFICES ASSUME NEW i \in DOMAIN proposals'
               PROVE  proposals'[i].id = i - 1 /\ proposals'[i].at <= now
    BY <1>2 DEF ProposalsOrdered
  <2>1. CASE i \in DOMAIN proposals
    BY <1>6, <2>1 DEF ChainInv, ProposalsOrdered
  <2>2. CASE i = Len(proposals) + 1
    <3>1. now \in Nat /\ Len(proposals) \in Nat
      BY <1>3, <1>5, ClockAssumption DEF TypeOK, ClockTypeOK
    <3>2. QED
      BY <1>4, <1>6, <2>2, <3>1
  <2>3. QED
    BY <1>6, <2>1, <2>2
<1>10. OutcomesSound'
  <2> SUFFICES ASSUME NEW o \in outcomes
               PROVE  \E k \in DOMAIN proposals' : proposals'[k] = o.proposal
    BY <1>2 DEF ChainInv, OutcomesSound, Answered, Justified
  <2>1. PICK k \in DOMAIN proposals : proposals[k] = o.proposal
    BY DEF ChainInv, OutcomesSound
  <2>2. QED
    BY <1>6, <2>1
<1>11. GateCacheFunctional' /\ EffectsSound' /\ AtMostOnce'
  BY <1>2 DEF ChainInv, GateCacheFunctional, EffectsSound, AtMostOnce
<1>12. QED
  BY <1>7, <1>8, <1>9, <1>10, <1>11 DEF ChainInv

(* What the gate adds to "outcomes" in one call.                           *)
LEMMA AuthorizeAddsOne ==
  ASSUME ChainInv, NEW g \in Gate, NEW e \in DecisionEvents, NEW r \in RiskId,
         NEW p \in PathId \cup {NoPath}, NEW v \in ReportId,
         NEW endpoint, Authorize(g, e, r, p, v, endpoint)
  PROVE  \E o \in Verdict :
           /\ outcomes' = outcomes \cup {o}
           /\ gateSequence' = [gateSequence EXCEPT ![g] = @ + 1]
           /\ o.gate = g /\ o.at = now
           /\ \E k \in DOMAIN proposals : proposals[k] = o.proposal
           /\ o.proposal = e.proposal /\ o.answers = EventOf(e)
           /\ o.state = "AUTHORIZED" => ~o.reuse /\ Justified(o)
           /\ ~o.reuse => Answered(g, e.proposal.id) = {}
           /\ o.reuse => \E first \in Answered(g, e.proposal.id) :
                           first.answers # o.answers
<1>1. \E k \in DOMAIN proposals : proposals[k] = e.proposal
  BY DEF ChainInv, OutcomesSound, DecisionEvents, Pending
<1>2. e.proposal \in Proposal
  BY <1>1 DEF ChainInv, ChainTypeOK, TypeOK
<1>3. e.gate \in Gate \cup {NoGate} /\ e.n \in Nat
  BY DEF DecisionEvents, Pending, ChainInv, ChainTypeOK, Verdict
<1>4. e.state = "PENDING" => EventOf(e) = EventOf(Pending(e.proposal))
  <2>1. CASE e \in outcomes
    BY <2>1 DEF ChainInv, ChainTypeOK, Verdict
  <2>2. CASE \E k \in DOMAIN proposals : e = Pending(proposals[k])
    BY <2>2 DEF Pending
  <2>3. QED
    BY <2>1, <2>2 DEF DecisionEvents
<1> DEFINE Made(verdict, reuse) ==
      [proposal |-> e.proposal, state |-> verdict, gate |-> g,
       n |-> gateSequence[g], answers |-> EventOf(e), at |-> now,
       report |-> IF verdict = "AUTHORIZED" THEN v ELSE e.proposal.report,
       reuse |-> reuse]
<1>5. ASSUME NEW verdict \in {"AUTHORIZED", "REJECTED"}, NEW reuse \in BOOLEAN
      PROVE  Made(verdict, reuse) \in Verdict
  <2>1. now \in Nat /\ gateSequence[g] \in Nat
    BY ClockAssumption DEF ChainInv, ChainTypeOK, TypeOK, ClockTypeOK
  <2>2. EventOf(e) \in Nat \X (Gate \cup {NoGate}) \X Nat
    BY <1>2, <1>3 DEF EventOf, Proposal
  <2>3. e.proposal.report \in ReportId
    BY <1>2 DEF Proposal
  <2>4. QED
    BY <1>2, <2>1, <2>2, <2>3 DEF Verdict
<1>6. CASE FirstVerdict(g, e, r, p, v, endpoint)
  <2> DEFINE verdict == IF Passes(e, r, p, v, endpoint) THEN "AUTHORIZED"
                        ELSE "REJECTED"
             o == Made(verdict, FALSE)
  <2>1. /\ outcomes' = outcomes \cup {o}
        /\ gateSequence' = [gateSequence EXCEPT ![g] = @ + 1]
        /\ Answered(g, e.proposal.id) = {}
    BY <1>6 DEF FirstVerdict, Emit
  <2>2. o \in Verdict
    BY <1>5
  <2>3. o.state = "AUTHORIZED" => Justified(o)
    <3> SUFFICES ASSUME verdict = "AUTHORIZED" PROVE Justified(o)
      OBVIOUS
    <3>1. Passes(e, r, p, v, endpoint)
      OBVIOUS
    <3>2. o.answers = EventOf(Pending(o.proposal))
      BY <1>4, <3>1 DEF Passes
    <3>3. o.report = v /\ o.proposal = e.proposal /\ o.at = now
      OBVIOUS
    <3> HIDE DEF o, verdict
    <3>4. /\ now \in Nat /\ Report[v].updatedAt \in Nat
      BY EvidenceAssumption, ClockAssumption
         DEF ChainInv, ChainTypeOK, TypeOK, ClockTypeOK, ReportRecord
    <3>5. now - Report[v].updatedAt <= StaleAfter
      BY <3>1, <3>4, EvidenceAssumption DEF Passes, Stale
    <3>6. QED
      BY <3>1, <3>2, <3>3, <3>5 DEF Passes, PathPasses, Justified
  <2>4. QED
    BY <1>1, <2>1, <2>2, <2>3
<1>7. CASE RejectReuse(g, e, v)
  <2> DEFINE o == Made("REJECTED", TRUE)
  <2>1. /\ outcomes' = outcomes \cup {o}
        /\ gateSequence' = [gateSequence EXCEPT ![g] = @ + 1]
        /\ \E first \in Answered(g, e.proposal.id) : first.answers # EventOf(e)
    BY <1>7 DEF RejectReuse, Emit
  <2>2. o \in Verdict
    BY <1>5
  <2>3. QED
    BY <1>1, <2>1, <2>2
<1>8. QED
  BY <1>6, <1>7 DEF Authorize

(* A gate's answer is justified by the evidence it was handed.             *)
LEMMA ChainAuthorizeInv ==
  ASSUME ChainInv, ChainAuthorize
  PROVE  ChainInv'
<1>1. PICK g \in Gate, e \in DecisionEvents, r \in RiskId,
           p \in PathId \cup {NoPath}, v \in ReportId,
           endpoint \in {"SIMULATED", "REAL"} : Authorize(g, e, r, p, v, endpoint)
  BY DEF ChainAuthorize, IssuedRisk, IssuedPath, IssuedReport
<1>2. UNCHANGED <<now, state, lastUnsafeAt, proposals, effects>>
  BY DEF ChainAuthorize
<1>3. PICK new \in Verdict :
        /\ outcomes' = outcomes \cup {new}
        /\ gateSequence' = [gateSequence EXCEPT ![g] = @ + 1]
        /\ new.gate = g /\ new.at = now
        /\ \E k \in DOMAIN proposals : proposals[k] = new.proposal
        /\ new.proposal = e.proposal /\ new.answers = EventOf(e)
        /\ new.state = "AUTHORIZED" => ~new.reuse /\ Justified(new)
        /\ ~new.reuse => Answered(g, e.proposal.id) = {}
        /\ new.reuse => \E first \in Answered(g, e.proposal.id) :
                          first.answers # new.answers
  BY <1>1, AuthorizeAddsOne
<1>4. ChainTypeOK'
  BY <1>2, <1>3 DEF ChainInv, ChainTypeOK, TypeOK, ClockTypeOK
<1>5. ExpiresWithEvidence' /\ ProposalsOrdered' /\ AtMostOnce'
  BY <1>2 DEF ChainInv, ExpiresWithEvidence, ProposalsOrdered, AtMostOnce
<1>6. OutcomesSound'
  <2> SUFFICES ASSUME NEW o \in outcomes'
               PROVE  /\ \E k \in DOMAIN proposals : proposals[k] = o.proposal
                      /\ o.proposal.at <= o.at /\ o.at <= now
                      /\ o.answers[1] = o.proposal.id
                      /\ o.state = "AUTHORIZED" => ~o.reuse /\ Justified(o)
                      /\ o.reuse => \E first \in Answered(o.gate, o.proposal.id)' :
                                      first.answers # o.answers
    BY <1>2 DEF OutcomesSound, Justified
  <2>1. \A gate, id : Answered(gate, id) \subseteq Answered(gate, id)'
    BY <1>3 DEF Answered
  <2>2. CASE o \in outcomes
    BY <2>1, <2>2 DEF ChainInv, OutcomesSound
  <2>3. CASE o = new
    <3>1. now \in Nat
      BY ClockAssumption DEF ChainInv, ChainTypeOK, TypeOK, ClockTypeOK
    <3>2. o.proposal.at <= o.at /\ o.at <= now
      BY <1>3, <2>3, <3>1 DEF ChainInv, ProposalsOrdered
    <3>3. o.answers[1] = o.proposal.id
      BY <1>3, <2>3 DEF EventOf
    <3>4. o.reuse => \E first \in Answered(o.gate, o.proposal.id)' :
                       first.answers # o.answers
      BY <1>3, <2>1, <2>3
    <3>5. QED
      BY <1>3, <2>3, <3>2, <3>3, <3>4
  <2>4. QED
    BY <1>3, <2>2, <2>3
<1>7. GateCacheFunctional'
  <2> SUFFICES ASSUME NEW o1 \in outcomes', NEW o2 \in outcomes',
                      ~o1.reuse, ~o2.reuse, o1.gate = o2.gate,
                      o1.proposal.id = o2.proposal.id
               PROVE  o1 = o2
    BY DEF GateCacheFunctional
  <2>1. CASE o1 \in outcomes /\ o2 \in outcomes
    BY <2>1 DEF ChainInv, GateCacheFunctional
  <2>2. \A o \in outcomes : ~o.reuse /\ ~new.reuse /\ o.gate = new.gate
          => o.proposal.id # new.proposal.id
    BY <1>3 DEF Answered
  <2>3. QED
    BY <1>3, <2>1, <2>2
<1>8. EffectsSound'
  BY <1>2, <1>3 DEF ChainInv, EffectsSound
<1>9. QED
  BY <1>4, <1>5, <1>6, <1>7, <1>8 DEF ChainInv

(* One effect more: the gateway's own two checks, its cache and the        *)
(* expiry, are all that is new.                                            *)
LEMMA ChainDispatchInv ==
  ASSUME ChainInv, ChainDispatch
  PROVE  ChainInv'
<1>1. PICK o \in outcomes : Dispatch(o)
  BY DEF ChainDispatch
<1>2. UNCHANGED <<now, state, lastUnsafeAt, proposals, outcomes, gateSequence>>
  BY DEF ChainDispatch
<1> DEFINE new == [outcome |-> o, at |-> now]
<1>3. now \in Nat
  BY ClockAssumption DEF ChainInv, ChainTypeOK, TypeOK, ClockTypeOK
<1>4. new \in Effect
  BY <1>3 DEF ChainInv, ChainTypeOK, Effect
<1>5. effects \in Seq(Effect)
  BY DEF ChainInv, ChainTypeOK
<1>6. effects' = Append(effects, new)
  BY <1>1 DEF Dispatch
<1>7. /\ DOMAIN effects' = DOMAIN effects \cup {Len(effects) + 1}
      /\ \A i \in DOMAIN effects : effects'[i] = effects[i]
      /\ effects'[Len(effects) + 1] = new
      /\ effects' \in Seq(Effect)
  BY <1>4, <1>5, <1>6
<1>8. ChainTypeOK'
  BY <1>2, <1>7 DEF ChainInv, ChainTypeOK, TypeOK, ClockTypeOK
<1>9. ExpiresWithEvidence' /\ ProposalsOrdered' /\ GateCacheFunctional'
  BY <1>2 DEF ChainInv, ExpiresWithEvidence, ProposalsOrdered, GateCacheFunctional
<1>10. OutcomesSound'
  BY <1>2 DEF ChainInv, OutcomesSound, Answered, Justified
<1>11. EffectsSound'
  <2> SUFFICES ASSUME NEW i \in DOMAIN effects'
               PROVE  LET c == effects'[i].outcome IN
                      /\ c \in outcomes /\ c.state = "AUTHORIZED"
                      /\ Risk[c.proposal.risk].mode = "SIM"
                      /\ c.at <= effects'[i].at /\ effects'[i].at <= now
                      /\ effects'[i].at < c.proposal.expiresAt
    BY <1>2 DEF EffectsSound
  <2>1. CASE i \in DOMAIN effects
    BY <1>7, <2>1 DEF ChainInv, EffectsSound
  <2>2. CASE i = Len(effects) + 1
    <3>1. o.at <= now
      BY DEF ChainInv, OutcomesSound
    <3>2. effects'[i].outcome = o /\ effects'[i].at = now
      BY <1>7, <2>2
    <3>3. QED
      BY <1>1, <1>3, <3>1, <3>2 DEF Dispatch
  <2>3. QED
    BY <1>7, <2>1, <2>2
<1>12. AtMostOnce'
  <2>1. \A i \in DOMAIN effects : effects[i].outcome.proposal.id # o.proposal.id
    BY <1>1 DEF Dispatch, Executed
  <2>2. effects'[Len(effects) + 1].outcome = o
    BY <1>7
  <2>3. QED
    BY <1>7, <2>1, <2>2 DEF ChainInv, AtMostOnce
<1>13. QED
  BY <1>8, <1>9, <1>10, <1>11, <1>12 DEF ChainInv

(* The chain keeps its inductive invariant.                                *)
THEOREM ChainInvariant == ChainSpec => []ChainInv
<1>1. ChainInit => ChainInv
  BY ChainInitInv
<1>2. ChainInv /\ [ChainNext]_chainVars => ChainInv'
  <2> SUFFICES ASSUME ChainInv, [ChainNext]_chainVars PROVE ChainInv'
    OBVIOUS
  <2>1. CASE ChainTick
    BY <2>1, ChainTickInv
  <2>2. CASE ChainDecide
    BY <2>2, ChainDecideInv
  <2>3. CASE ChainAuthorize
    BY <2>3, ChainAuthorizeInv
  <2>4. CASE ChainDispatch
    BY <2>4, ChainDispatchInv
  <2>5. CASE UNCHANGED chainVars
    BY <2>5 DEF chainVars, ChainInv, ChainTypeOK, TypeOK, ClockTypeOK,
         ExpiresWithEvidence, ProposalsOrdered, OutcomesSound, Answered,
         Justified, GateCacheFunctional, EffectsSound, AtMostOnce
  <2>6. QED
    BY <2>1, <2>2, <2>3, <2>4, <2>5 DEF ChainNext
<1>3. QED
  BY <1>1, <1>2, PTL DEF ChainSpec

(* Type correctness of the whole chain.                                    *)
THEOREM ChainTypeCorrect == ChainSpec => []ChainTypeOK
BY ChainInvariant, PTL DEF ChainInv

(* A decision takes effect at most once.                                   *)
THEOREM DecisionsTakeEffectOnce == ChainSpec => []AtMostOnce
BY ChainInvariant, PTL DEF ChainInv

(* Nothing is executed on expired evidence: the expiry the gateway checks  *)
(* is bounded by that of the evidence, and the age of the vehicle report   *)
(* by the limit the gate checked plus the decision validity, because the   *)
(* gate ran after the proposal was made.                                   *)
THEOREM EffectsWithinEvidence == ChainSpec => []EffectWithinEvidence
<1>1. ChainInv => EffectWithinEvidence
  <2> SUFFICES ASSUME ChainInv, NEW i \in DOMAIN effects
               PROVE  LET o == effects[i].outcome
                          d == o.proposal IN
                      /\ effects[i].at < Risk[d.risk].validUntil
                      /\ d.path # NoPath => effects[i].at < Path[d.path].validUntil
                      /\ effects[i].at - Report[o.report].updatedAt
                           < StaleAfter + ValidFor
    BY DEF EffectWithinEvidence
  <2> DEFINE o == effects[i].outcome
             d == o.proposal
  <2>1. /\ o \in outcomes /\ o.state = "AUTHORIZED"
        /\ effects[i].at < d.expiresAt
    BY DEF ChainInv, EffectsSound
  <2>2. PICK k \in DOMAIN proposals : proposals[k] = d
    BY <2>1 DEF ChainInv, OutcomesSound
  <2>3. /\ d.expiresAt <= d.at + ValidFor
        /\ Risk[d.risk].schema = "risk/1.0" => d.expiresAt <= Risk[d.risk].validUntil
        /\ d.path # NoPath => d.expiresAt <= Path[d.path].validUntil
    BY <2>2 DEF ChainInv, ExpiresWithEvidence
  <2>4. /\ d.at <= o.at /\ o.at - Report[o.report].updatedAt <= StaleAfter
        /\ Risk[d.risk].schema = "risk/1.0"
    BY <2>1 DEF ChainInv, OutcomesSound, Justified, RiskKnown
  <2>5. o \in Verdict /\ d \in Proposal
    BY <2>1 DEF ChainInv, ChainTypeOK, Verdict
  <2>6. effects[i] \in Effect
    BY DEF ChainInv, ChainTypeOK
  <2>7. /\ effects[i].at \in Nat /\ d.expiresAt \in Nat /\ d.at \in Nat
        /\ o.at \in Nat /\ d.risk \in RiskId /\ d.path \in PathId \cup {NoPath}
        /\ o.report \in ReportId
    BY <2>5, <2>6 DEF Effect, Verdict, Proposal
  <2>8. /\ Risk[d.risk].validUntil \in Nat
        /\ Report[o.report].updatedAt \in Nat
        /\ d.path # NoPath => Path[d.path].validUntil \in Nat
        /\ StaleAfter \in Nat /\ ValidFor \in Nat
    BY <2>7, EvidenceAssumption, CenterAssumption
       DEF RiskRecord, ReportRecord, PathRecord
  <2> HIDE DEF o, d
  <2>9. /\ effects[i].at < Risk[d.risk].validUntil
        /\ d.path # NoPath => effects[i].at < Path[d.path].validUntil
        /\ effects[i].at - Report[o.report].updatedAt < StaleAfter + ValidFor
    BY <2>1, <2>3, <2>4, <2>7, <2>8
  <2>10. QED
    BY <2>9 DEF o, d
<1>2. QED
  BY <1>1, ChainInvariant, PTL

(* A gate never gives two answers to one event.                            *)
THEOREM GatesAnswerOnce == ChainSpec => []GateAnswersOnce
<1>1. ChainInv => GateAnswersOnce
  <2> SUFFICES ASSUME ChainInv, NEW o1 \in outcomes, NEW o2 \in outcomes,
                      o1.gate = o2.gate, o1.answers = o2.answers
               PROVE  o1.state = o2.state
    BY DEF GateAnswersOnce
  <2>1. o1.proposal.id = o2.proposal.id
    BY DEF ChainInv, OutcomesSound
  <2>2. \A o \in outcomes : o.state \in {"AUTHORIZED", "REJECTED"}
    BY DEF ChainInv, ChainTypeOK, Verdict
  <2>3. CASE ~o1.reuse /\ ~o2.reuse
    BY <2>1, <2>3 DEF ChainInv, GateCacheFunctional
  <2>4. ASSUME NEW a \in outcomes, NEW b \in outcomes, a.reuse, ~b.reuse,
               a.gate = b.gate, a.answers = b.answers,
               a.proposal.id = b.proposal.id
        PROVE  FALSE
    <3>1. PICK first \in Answered(a.gate, a.proposal.id) :
                 first.answers # a.answers
      BY <2>4 DEF ChainInv, OutcomesSound
    <3>2. first = b
      BY <2>4 DEF ChainInv, GateCacheFunctional, Answered
    <3>3. QED
      BY <2>4, <3>1, <3>2
  <2>5. CASE o1.reuse /\ o2.reuse
    BY <2>2, <2>5 DEF ChainInv, OutcomesSound
  <2>6. QED
    BY <2>1, <2>3, <2>4, <2>5
<1>2. QED
  BY <1>1, ChainInvariant, PTL

(* Every effect traces back to a PENDING proposal of the center.           *)
THEOREM EffectsTraceable == ChainSpec => []EffectTraceable
<1>1. ChainInv => EffectTraceable
  <2> SUFFICES ASSUME ChainInv, NEW i \in DOMAIN effects
               PROVE  LET o == effects[i].outcome
                          d == o.proposal IN
                      /\ o \in outcomes
                      /\ \E k \in DOMAIN proposals : proposals[k] = d
                      /\ o.answers = EventOf(Pending(d))
                      /\ Report[o.report].vehicle = Report[d.report].vehicle
                      /\ Report[o.report].revision = Risk[d.risk].revision
                      /\ Risk[d.risk].mode = "SIM"
                      /\ d.at <= o.at /\ o.at <= effects[i].at
    BY DEF EffectTraceable
  <2> DEFINE o == effects[i].outcome
  <2>1. /\ o \in outcomes /\ o.state = "AUTHORIZED" /\ o.at <= effects[i].at
        /\ Risk[o.proposal.risk].mode = "SIM"
    BY DEF ChainInv, EffectsSound
  <2>2. /\ \E k \in DOMAIN proposals : proposals[k] = o.proposal
        /\ o.proposal.at <= o.at /\ Justified(o)
    BY <2>1 DEF ChainInv, OutcomesSound
  <2>3. QED
    BY <2>1, <2>2 DEF Justified
<1>2. QED
  BY <1>1, ChainInvariant, PTL

-----------------------------------------------------------------------------
(* The refinement: a dispatch that reaches the vehicle is one Execute step *)
(* of AuthorizedControl, every other step of the chain is a tick of the    *)
(* clock or leaves the executions alone.                                   *)

\* The abstract record of one effect.
ExecutionOf(f) ==
  LET o == f.outcome IN
  [decision |-> o.proposal.id, action |-> o.proposal.action,
   risk |-> o.proposal.risk, path |-> o.proposal.path,
   report |-> o.report, at |-> f.at]

(* A dispatch that has an effect is one step of AuthorizedControl.         *)
LEMMA DispatchExecutes ==
  ASSUME ChainInv, ChainDispatch
  PROVE  Promise!Next
<1>1. PICK o \in outcomes : Dispatch(o)
  BY DEF ChainDispatch
<1> DEFINE new == [outcome |-> o, at |-> now]
           e == ExecutionOf(new)
           d == o.proposal
<1>2. now' = now /\ now \in Nat
  BY ClockAssumption DEF ChainDispatch, ChainInv, ChainTypeOK, TypeOK, ClockTypeOK
<1>3. o \in Verdict /\ d \in Proposal
  BY DEF ChainInv, ChainTypeOK, Verdict
<1>4. new \in Effect
  BY <1>2, <1>3 DEF Effect
<1>5. effects \in Seq(Effect) /\ effects' = Append(effects, new)
  BY <1>1 DEF Dispatch, ChainInv, ChainTypeOK
<1>6. \A f \in Effect : ExecutionOf(f) \in Promise!Execution
  <2> SUFFICES ASSUME NEW f \in Effect
               PROVE  ExecutionOf(f) \in Promise!Execution
    OBVIOUS
  <2>1. f.outcome \in Verdict /\ f.at \in Nat /\ f.outcome.proposal \in Proposal
        /\ f.outcome.report \in ReportId
    BY DEF Effect, Verdict
  <2>2. QED
    BY <2>1 DEF ExecutionOf, Proposal, Promise!Execution, Promise!Action, Action
<1>7. Executions = [i \in 1..Len(effects) |-> ExecutionOf(effects[i])]
  BY <1>5 DEF Executions, ExecutionOf
<1>8. Executions' = [i \in 1..Len(effects') |-> ExecutionOf(effects'[i])]
  BY <1>4, <1>5 DEF Executions, ExecutionOf
<1>9. /\ Len(effects) \in Nat /\ Len(effects') = Len(effects) + 1
      /\ \A i \in 1..Len(effects) : effects'[i] = effects[i]
      /\ effects'[Len(effects) + 1] = new
  BY <1>4, <1>5
<1>10. /\ Executions \in Seq(Promise!Execution)
       /\ Len(Executions) = Len(effects)
  <2>1. \A i \in 1..Len(effects) : ExecutionOf(effects[i]) \in Promise!Execution
    BY <1>5, <1>6
  <2>2. QED
    BY <1>7, <1>9, <2>1
<1>11. e \in Promise!Execution
  BY <1>4, <1>6
<1>12. Executions' = Append(Executions, e)
  <2> HIDE DEF new, e
  <2>1. /\ Append(Executions, e) \in Seq(Promise!Execution)
        /\ Len(Append(Executions, e)) = Len(effects) + 1
        /\ \A i \in 1..(Len(effects) + 1) :
             Append(Executions, e)[i] =
               IF i = Len(effects) + 1 THEN e ELSE Executions[i]
    BY <1>9, <1>10, <1>11
  <2>2. \A i \in 1..(Len(effects) + 1) :
          Executions'[i] = IF i = Len(effects) + 1 THEN e ELSE Executions[i]
    BY <1>7, <1>8, <1>9 DEF e
  <2>3. Executions' \in Seq(Promise!Execution) /\ Len(Executions') = Len(effects) + 1
    <3>1. \A i \in 1..Len(effects') : effects'[i] \in Effect
      BY <1>4, <1>5
    <3>2. \A i \in 1..Len(effects') : ExecutionOf(effects'[i]) \in Promise!Execution
      BY <1>6, <3>1
    <3>3. QED
      BY <1>8, <1>9, <3>2
  <2>4. \A i \in 1..Len(Executions') : Executions'[i] = Append(Executions, e)[i]
    BY <2>1, <2>2, <2>3
  <2>5. QED
    BY <2>1, <2>3, <2>4, SeqEqual
<1>13. Executions' # <<>> /\ Executions'[Len(Executions')] = e
  BY <1>10, <1>11, <1>12
<1>14. \A i \in DOMAIN Executions : Executions[i].decision # e.decision
  BY <1>1, <1>5, <1>7 DEF Dispatch, Executed, ExecutionOf
<1>15. /\ Justified(o) /\ o.proposal.at <= o.at /\ o.at <= now
       /\ \E k \in DOMAIN proposals : proposals[k] = d
  BY <1>1 DEF Dispatch, ChainInv, OutcomesSound
<1>16. /\ d.expiresAt <= d.at + ValidFor
       /\ Risk[d.risk].schema = "risk/1.0" => d.expiresAt <= Risk[d.risk].validUntil
       /\ d.path # NoPath => d.expiresAt <= Path[d.path].validUntil
       /\ now < d.expiresAt
  BY <1>1, <1>15 DEF Dispatch, ChainInv, ExpiresWithEvidence
<1>17. /\ d.expiresAt \in Nat /\ d.at \in Nat /\ o.at \in Nat
       /\ d.risk \in RiskId /\ d.path \in PathId \cup {NoPath}
       /\ o.report \in ReportId
  BY <1>3 DEF Verdict, Proposal
<1>18. /\ Risk[d.risk].validUntil \in Nat /\ Report[o.report].updatedAt \in Nat
       /\ d.path # NoPath => Path[d.path].validUntil \in Nat
       /\ StaleAfter \in Nat /\ ValidFor \in Nat
  BY <1>17, EvidenceAssumption, CenterAssumption
     DEF RiskRecord, ReportRecord, PathRecord
<1>19. Promise!SoundEvidence(d.risk, d.path, o.report)
  <2>. RiskKnown(d.risk)
    BY <1>15 DEF Justified
  <2>1. now < Risk[d.risk].validUntil
    BY <1>2, <1>16, <1>17, <1>18 DEF RiskKnown
  <2>2. now - Report[o.report].updatedAt < StaleAfter + ValidFor
    <3>1. o.at - Report[o.report].updatedAt <= StaleAfter
      BY <1>15 DEF Justified
    <3> HIDE DEF d
    <3>2. QED
      BY <1>2, <1>15, <1>16, <1>17, <1>18, <3>1 DEF d
  <2>3. d.path # NoPath => Promise!PathUsable(d.path, d.risk)
    BY <1>2, <1>15, <1>16, <1>17, <1>18 DEF Justified, Promise!PathUsable
  <2>4. Risk[d.risk].mode = "SIM"
    BY <1>1 DEF Dispatch
  <2>5. QED
    BY <1>15, <2>1, <2>2, <2>3, <2>4
       DEF Justified, RiskKnown, Promise!SoundEvidence, Promise!RiskKnown,
           Promise!MaxReportAge
<1>20. /\ e.risk = d.risk /\ e.path = d.path /\ e.report = o.report
       /\ e.action = d.action /\ e.at = now
  BY DEF ExecutionOf
<1>21. Promise!Execute(e)
  <2> HIDE DEF e
  <2>1. d.action \in Report[o.report].capabilities
    BY <1>15 DEF Justified
  <2>2. d.action \in {"CONTINUE", "AVOID", "RETURN", "LAND"} => d.path # NoPath
    BY <1>15 DEF Justified, ActionsWithPath
  <2>3. QED
    BY <1>2, <1>11, <1>12, <1>14, <1>19, <1>20, <2>1, <2>2 DEF Promise!Execute
<1>22. QED
  BY <1>13, <1>21 DEF Promise!Next

(* The chain implements AuthorizedControl.                                 *)
THEOREM ChainKeepsPromise == ChainSpec => KeepsPromise
<1>1. ChainInit => Promise!Init
  BY DEF ChainInit, GatewayInit, Executions, Promise!Init, ClockInit,
         Promise!ClockInit
<1>2. ChainInv /\ [ChainNext]_chainVars => [Promise!Next]_(Promise!vars)
  <2> SUFFICES ASSUME ChainInv, [ChainNext]_chainVars
               PROVE  [Promise!Next]_(Promise!vars)
    OBVIOUS
  <2>1. CASE ChainTick
    BY <2>1 DEF ChainTick, Executions, Promise!Next, Promise!Advance, Advance
  <2>2. CASE ChainDispatch
    BY <2>2, DispatchExecutes
  <2>3. CASE UNCHANGED <<now, effects>>
    BY <2>3 DEF Promise!vars, Executions
  <2>4. QED
    BY <2>1, <2>2, <2>3
       DEF ChainNext, ChainDecide, ChainAuthorize, chainVars
<1>3. QED
  BY <1>1, <1>2, ChainInvariant, PTL DEF ChainSpec, KeepsPromise, Promise!Spec
=============================================================================
