--------------------------- MODULE ControlGateway ---------------------------
(***************************************************************************)
(* SimulatedControlGateway.dispatch (src/low_altitude_ai/control/          *)
(* gateway.py): executes an authorised SIM decision once and answers a     *)
(* repetition from its cache.                                              *)
(***************************************************************************)
EXTENDS Evidence, Sequences

VARIABLE effects
  \* the side effects applied to the vehicle, in order: the outcome that
  \* caused each and when; also SimulatedControlGateway._cache

GatewayInit == effects = <<>>

\* Mutant: the cache is emptied at every tick.
Executed_ThisTick(id) ==
  \E i \in DOMAIN effects : effects[i].outcome.proposal.id = id
                           /\ effects[i].at = now

\* Mutant: nothing is cached.
Executed_Never(id) == id \in {}

Executed(id) == \E i \in DOMAIN effects : effects[i].outcome.proposal.id = id

\* Mutant: the expiry is left to the gate.
Dispatch_Expired(o) ==
  /\ o.state = "AUTHORIZED"
  /\ Risk[o.proposal.risk].mode = "SIM"
  /\ ~Executed(o.proposal.id)
  /\ effects' = Append(effects, [outcome |-> o, at |-> now])

(* One call of dispatch() that reaches the vehicle.  Every other call      *)
(* (unauthorised, expired, reused, or repeated) raises or answers from the *)
(* cache, and changes nothing.                                             *)
Dispatch(o) ==
  /\ o.state = "AUTHORIZED"
  /\ Risk[o.proposal.risk].mode = "SIM"
  /\ ~Executed(o.proposal.id)
  /\ now < o.proposal.expiresAt
  /\ effects' = Append(effects, [outcome |-> o, at |-> now])
=============================================================================
