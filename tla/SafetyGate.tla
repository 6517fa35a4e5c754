----------------------------- MODULE SafetyGate -----------------------------
(***************************************************************************)
(* SafetyGate.authorize (src/low_altitude_ai/decision/safety_gate.py): an  *)
(* independent check of a decision event against fresh evidence.  A gate   *)
(* answers a decision identity once; it repeats that answer to the same    *)
(* event and rejects any other event that carries the identity.            *)
(*                                                                         *)
(* "Gate" may hold several instances, each with a cache of its own, which  *)
(* is what gate_id distinguishes.                                          *)
(***************************************************************************)
EXTENDS Evidence

CONSTANTS
  Gate,             \* identities of the gate instances
  NoGate,           \* in the place of a gate: nobody has authorised yet
  MaxVerdicts       \* bound: outcomes one gate emits

ASSUME GateAssumption == NoGate \notin Gate /\ MaxVerdicts \in Nat

VARIABLES
  outcomes,         \* every event a gate has emitted, in any order
  gateSequence      \* SafetyGate._sequence of each gate

gateVars == <<outcomes, gateSequence>>

(* A decision event carries a proposal and its authorisation state.  Its   *)
(* identity is the proposal's id for the PENDING event of the center, and  *)
(* the gate with its sequence number for an event a gate emitted.          *)
Pending(d) == [proposal |-> d, state |-> "PENDING", gate |-> NoGate, n |-> 0]

EventOf(e) == <<e.proposal.id, e.gate, e.n>>

ActionsWithPath == {"CONTINUE", "AVOID", "RETURN", "LAND"}

\* _path_failures is empty.
PathPasses(d, p) ==
  /\ p = d.path
  /\ Path[p].valid
  /\ now < Path[p].validUntil
  /\ Path[p].revision = Risk[d.risk].revision
  /\ Path[p].risk = d.risk

\* Mutant: the vehicle of the report is not compared with the decision's.
Passes_AnyVehicle(e, r, p, v, endpoint) ==
  LET d == e.proposal
      vehicle == Report[v]
  IN  /\ e.state = "PENDING"
      /\ now < d.expiresAt
      /\ endpoint = "REAL" => Risk[d.risk].mode \notin {"SIM", "REPLAY"}
      /\ vehicle.valid /\ ~Stale(v) /\ vehicle.linkHealthy /\ ~vehicle.failsafe
      /\ RiskKnown(r) /\ now < Risk[r].validUntil
      /\ r = d.risk
      /\ vehicle.revision = Risk[d.risk].revision
      /\ d.action \in vehicle.capabilities
      /\ d.action \in ActionsWithPath => d.path # NoPath
      /\ d.path # NoPath => PathPasses(d, p)

(* _failures is empty.  The risk of the context has to be the risk of the  *)
(* proposal, which makes their revisions equal as well.                    *)
Passes(e, r, p, v, endpoint) ==
  LET d == e.proposal
      vehicle == Report[v]
  IN  /\ e.state = "PENDING"
      /\ now < d.expiresAt
      /\ vehicle.vehicle = Report[d.report].vehicle
      /\ endpoint = "REAL" => Risk[d.risk].mode \notin {"SIM", "REPLAY"}
      /\ vehicle.valid /\ ~Stale(v) /\ vehicle.linkHealthy /\ ~vehicle.failsafe
      /\ RiskKnown(r) /\ now < Risk[r].validUntil
      /\ r = d.risk
      /\ vehicle.revision = Risk[d.risk].revision
      /\ d.action \in vehicle.capabilities
      /\ d.action \in ActionsWithPath => d.path # NoPath
      /\ d.path # NoPath => PathPasses(d, p)

GateInit ==
  /\ outcomes = {}
  /\ gateSequence = [g \in Gate |-> 0]

Answered(g, id) ==
  {o \in outcomes : o.gate = g /\ o.proposal.id = id /\ ~o.reuse}

\* "report" records the evidence an authorisation rests on.
Emit(g, e, verdict, v, reuse) ==
  /\ gateSequence[g] < MaxVerdicts
  /\ gateSequence' = [gateSequence EXCEPT ![g] = @ + 1]
  /\ outcomes' = outcomes \cup
       {[proposal |-> e.proposal, state |-> verdict, gate |-> g,
         n |-> gateSequence[g], answers |-> EventOf(e), at |-> now,
         report |-> IF verdict = "AUTHORIZED" THEN v ELSE e.proposal.report,
         reuse |-> reuse]}

(* One call of authorize() for an identity the gate has not answered yet.  *)
FirstVerdict(g, e, r, p, v, endpoint) ==
  /\ Answered(g, e.proposal.id) = {}
  /\ Emit(g, e, IF Passes(e, r, p, v, endpoint) THEN "AUTHORIZED" ELSE "REJECTED",
          v, FALSE)

(* A call with another event under an identity already answered.  (With    *)
(* the same event it returns the earlier outcome and changes nothing.)     *)
RejectReuse(g, e, v) ==
  /\ \E o \in Answered(g, e.proposal.id) : o.answers # EventOf(e)
  /\ Emit(g, e, "REJECTED", v, TRUE)

Authorize(g, e, r, p, v, endpoint) ==
  \/ FirstVerdict(g, e, r, p, v, endpoint)
  \/ RejectReuse(g, e, v)
=============================================================================
