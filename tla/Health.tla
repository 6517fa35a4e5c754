------------------------------- MODULE Health -------------------------------
(***************************************************************************)
(* HealthAggregator (src/low_altitude_ai/management/health.py): the newest *)
(* report of each component, by its sequence number, and what the system   *)
(* as a whole is said to be.                                               *)
(***************************************************************************)
EXTENDS SimClock

CONSTANTS
  Component,        \* component_id of the reports
  Critical,         \* HealthAggregator._critical
  HeartbeatTimeout  \* ._timeout_s

HealthStatus == {"HEALTHY", "DEGRADED", "UNHEALTHY", "UNKNOWN"}

ReportRecord ==
  [component: Component, sequence: Nat, checkedAt: Nat, status: HealthStatus]

ASSUME HealthAssumption == HeartbeatTimeout \in Nat \ {0}

VARIABLE heard      \* HealthAggregator._events

HealthInit == heard = [c \in {} |-> 0]

\* The newest by number; of two with one number, the one that comes last.
IngestReport(r) ==
  /\ IF r.component \in DOMAIN heard
     THEN r.sequence >= heard[r.component].sequence ELSE TRUE
  /\ heard' = [c \in DOMAIN heard \cup {r.component} |->
                 IF c = r.component THEN r ELSE heard[c]]

\* Mutant: silence is not noticed.
StatusOf_Last(c) == heard[c].status

StatusOf(c) ==
  IF now - heard[c].checkedAt > HeartbeatTimeout THEN "UNKNOWN" ELSE heard[c].status

Severity == [HEALTHY |-> 0, DEGRADED |-> 1, UNKNOWN |-> 2, UNHEALTHY |-> 3]

\* A critical component counts only once it has been heard of.
SystemStatus ==
  LET statuses == {StatusOf(c) : c \in DOMAIN heard} IN
  IF DOMAIN heard = {} THEN "UNKNOWN"
  ELSE IF \E c \in DOMAIN heard \cap Critical : StatusOf(c) \in {"UNKNOWN", "UNHEALTHY"}
  THEN "UNHEALTHY"
  ELSE CHOOSE s \in statuses : \A t \in statuses : Severity[t] <= Severity[s]
=============================================================================
