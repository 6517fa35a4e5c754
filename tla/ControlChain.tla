---------------------------- MODULE ControlChain ----------------------------
(***************************************************************************)
(* The control chain: decision center -> safety gate -> control gateway,   *)
(* as the applications wire it (src/low_altitude_ai/app/phase5_demo.py).   *)
(* The three components share no state but the clock and pass immutable    *)
(* events.  An event, once emitted, may be handed to the next component    *)
(* at any later time, any number of times and in any order, and a gate     *)
(* may also be handed what a gate emitted: that is what the caches and     *)
(* the identity checks of gate and gateway are there for.                  *)
(***************************************************************************)
EXTENDS DecisionCenter, SafetyGate, ControlGateway

chainVars == <<now, state, lastUnsafeAt, proposals, outcomes, gateSequence, effects>>

ChainInit == ClockInit /\ CenterInit /\ GateInit /\ GatewayInit

ChainTick ==
  /\ \E s \in Steps : Advance(s)
  /\ UNCHANGED <<state, lastUnsafeAt, proposals, outcomes, gateSequence, effects>>

ChainDecide ==
  /\ \E r \in IssuedRisk, p \in IssuedPath, v \in IssuedReport : Decide(r, p, v)
  /\ UNCHANGED <<now, outcomes, gateSequence, effects>>

DecisionEvents == {Pending(proposals[i]) : i \in DOMAIN proposals} \cup outcomes

ChainAuthorize ==
  /\ \E g \in Gate, e \in DecisionEvents, r \in IssuedRisk, p \in IssuedPath,
        v \in IssuedReport, endpoint \in {"SIMULATED", "REAL"} :
        Authorize(g, e, r, p, v, endpoint)
  /\ UNCHANGED <<now, state, lastUnsafeAt, proposals, effects>>

ChainDispatch ==
  /\ \E o \in outcomes : Dispatch(o)
  /\ UNCHANGED <<now, state, lastUnsafeAt, proposals, outcomes, gateSequence>>

ChainNext == ChainTick \/ ChainDecide \/ ChainAuthorize \/ ChainDispatch

ChainSpec == ChainInit /\ [][ChainNext]_chainVars

-----------------------------------------------------------------------------
(* Properties.                                                             *)

Verdict ==
  [proposal: Proposal, state: {"AUTHORIZED", "REJECTED"}, gate: Gate, n: Nat,
   answers: Nat \X (Gate \cup {NoGate}) \X Nat, report: ReportId, at: Nat,
   reuse: BOOLEAN]

Effect == [outcome: Verdict, at: Nat]

ChainTypeOK ==
  /\ TypeOK
  /\ outcomes \subseteq Verdict
  /\ gateSequence \in [Gate -> Nat]
  /\ effects \in Seq(Effect)

(* A decision has at most one side effect, however often its outcome is    *)
(* dispatched and however many gates authorised it (ADR 0005, item 4).     *)
AtMostOnce ==
  \A i, j \in DOMAIN effects :
    effects[i].outcome.proposal.id = effects[j].outcome.proposal.id => i = j

(* Nothing is executed on expired evidence, although the gateway looks at  *)
(* no evidence and the outcome it is given may be an old, cached one: at   *)
(* the instant of the effect the risk and the selected path are unexpired, *)
(* and the report the gate relied on is younger than the vehicle staleness *)
(* limit plus the decision validity.                                       *)
EffectWithinEvidence ==
  \A i \in DOMAIN effects :
    LET o == effects[i].outcome
        d == o.proposal IN
    /\ effects[i].at < Risk[d.risk].validUntil
    /\ d.path # NoPath => effects[i].at < Path[d.path].validUntil
    /\ effects[i].at - Report[o.report].updatedAt < StaleAfter + ValidFor

(* A gate gives every event one answer for good: what it once rejected is  *)
(* never authorised by it later, when the evidence looks better or under   *)
(* another event of the same decision.                                     *)
GateAnswersOnce ==
  \A o1, o2 \in outcomes :
    o1.gate = o2.gate /\ o1.answers = o2.answers => o1.state = o2.state

(* Every effect traces back: its outcome was emitted by a gate, answers    *)
(* the center's own PENDING event and carries the proposal unaltered; the  *)
(* vehicle is the proposal's, revisions agree and the mode is SIM          *)
(* (acceptance criteria 4 to 6 of the decision module).                    *)
EffectTraceable ==
  \A i \in DOMAIN effects :
    LET o == effects[i].outcome
        d == o.proposal IN
    /\ o \in outcomes
    /\ \E k \in DOMAIN proposals : proposals[k] = d
    /\ o.answers = EventOf(Pending(d))
    /\ Report[o.report].vehicle = Report[d.report].vehicle
    /\ Report[o.report].revision = Risk[d.risk].revision
    /\ Risk[d.risk].mode = "SIM"
    /\ d.at <= o.at /\ o.at <= effects[i].at

-----------------------------------------------------------------------------
(* The inductive invariant behind these properties: what is true of every  *)
(* proposal, outcome and effect on record, not only of the last ones.      *)

ProposalsOrdered ==
  \A i \in DOMAIN proposals : proposals[i].id = i - 1 /\ proposals[i].at <= now

\* The evidence an authorisation rests on, as of the instant it was given.
Justified(o) ==
  LET d == o.proposal
      v == Report[o.report] IN
  /\ o.answers = EventOf(Pending(d))
  /\ v.vehicle = Report[d.report].vehicle
  /\ v.valid /\ v.linkHealthy /\ ~v.failsafe
  /\ o.at - v.updatedAt <= StaleAfter
  /\ v.revision = Risk[d.risk].revision
  /\ RiskKnown(d.risk)
  /\ d.action \in v.capabilities
  /\ d.action \in ActionsWithPath => d.path # NoPath
  /\ d.path # NoPath => /\ Path[d.path].valid
                        /\ Path[d.path].revision = Risk[d.risk].revision
                        /\ Path[d.path].risk = d.risk

OutcomesSound ==
  \A o \in outcomes :
    /\ \E k \in DOMAIN proposals : proposals[k] = o.proposal
    /\ o.proposal.at <= o.at /\ o.at <= now
    /\ o.answers[1] = o.proposal.id
    /\ o.state = "AUTHORIZED" => ~o.reuse /\ Justified(o)
    /\ o.reuse => \E first \in Answered(o.gate, o.proposal.id) :
                    first.answers # o.answers

GateCacheFunctional ==
  \A o1, o2 \in outcomes :
    /\ ~o1.reuse /\ ~o2.reuse
    /\ o1.gate = o2.gate /\ o1.proposal.id = o2.proposal.id
    => o1 = o2

EffectsSound ==
  \A i \in DOMAIN effects :
    LET o == effects[i].outcome IN
    /\ o \in outcomes /\ o.state = "AUTHORIZED"
    /\ Risk[o.proposal.risk].mode = "SIM"
    /\ o.at <= effects[i].at /\ effects[i].at <= now
    /\ effects[i].at < o.proposal.expiresAt

ChainInv ==
  /\ ChainTypeOK
  /\ ExpiresWithEvidence
  /\ ProposalsOrdered
  /\ OutcomesSound
  /\ GateCacheFunctional
  /\ EffectsSound
  /\ AtMostOnce

-----------------------------------------------------------------------------
(* The chain implements what the abstract specification promises.          *)
Executions ==
  [i \in DOMAIN effects |->
    LET o == effects[i].outcome IN
    [decision |-> o.proposal.id, action |-> o.proposal.action,
     risk |-> o.proposal.risk, path |-> o.proposal.path,
     report |-> o.report, at |-> effects[i].at]]

Promise == INSTANCE AuthorizedControl WITH executed <- Executions

KeepsPromise == Promise!Spec
=============================================================================
