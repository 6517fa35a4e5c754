-------------------------- MODULE AuthorizedControl --------------------------
(***************************************************************************)
(* What the control chain promises about the vehicle (ADR 0005, decision   *)
(* module section 16): a decision takes effect at most once, in simulation *)
(* only, and at an instant when the risk it answers and the path it flies  *)
(* are unexpired and of one twin revision with a vehicle report that was   *)
(* sound and not too old.  How proposals and authorisations travel, are    *)
(* cached and repeated is left open.                                       *)
(***************************************************************************)
EXTENDS Evidence, Sequences

CONSTANT ValidFor   \* how long a decision may be acted on

VARIABLE executed
  \* the effects in order, each with the evidence it rests on

vars == <<now, executed>>

Execution ==
  [decision: Nat, action: Action, risk: RiskId, path: PathId \cup {NoPath},
   report: ReportId, at: Nat]

MaxReportAge == StaleAfter + ValidFor

SoundEvidence(r, p, v) ==
  /\ RiskKnown(r) /\ now < Risk[r].validUntil /\ Risk[r].mode = "SIM"
  /\ Report[v].valid /\ Report[v].linkHealthy /\ ~Report[v].failsafe
  /\ Report[v].revision = Risk[r].revision
  /\ now - Report[v].updatedAt < MaxReportAge
  /\ p # NoPath => PathUsable(p, r)

\* One more effect: e takes place now, for a decision with none before.
Execute(e) ==
  /\ e \in Execution
  /\ e.at = now
  /\ \A i \in DOMAIN executed : executed[i].decision # e.decision
  /\ SoundEvidence(e.risk, e.path, e.report)
  /\ e.action \in Report[e.report].capabilities
  /\ e.action \in {"CONTINUE", "AVOID", "RETURN", "LAND"} => e.path # NoPath
  /\ executed' = Append(executed, e)
  /\ UNCHANGED now

Init == ClockInit /\ executed = <<>>

\* The step names the new effect by where it ends up.
Next ==
  \/ \E s \in Steps : Advance(s) /\ UNCHANGED executed
  \/ executed' # <<>> /\ Execute(executed'[Len(executed')])

Spec == Init /\ [][Next]_vars
=============================================================================
