----------------------------- MODULE Assessment -----------------------------
(***************************************************************************)
(* Weather, twin, risk, planning and the health of their plugins composed  *)
(* as app/phase4_demo.py wires them: the newest tracks, the newest         *)
(* environment and a snapshot of the twin go into a rating, the rating and *)
(* its revision into a plan.  Each part runs at a pace of its own, so the  *)
(* inputs of a rating are of different ages.                               *)
(***************************************************************************)
EXTENDS Weather, Planner, Health

CONSTANTS
  MaxEntities, DedupCapacity, MaxHistory,   \* of TwinStore
  Budgets           \* bounds: how often what may happen in one behaviour

BudgetRecord == [estimates: Nat, commits: Nat, reports: Nat, shutdowns: Nat]

ASSUME AssessmentAssumption ==
  /\ Budgets \subseteq BudgetRecord
  /\ \A b \in Budgets : b.estimates <= MaxEstimates /\ b.commits <= MaxHistory

VARIABLES
  budget,           \* bound: the one this behaviour keeps to
  entities, revision, watermark, history, outcome,   \* of TwinStore
  tracks,           \* the newest target/1.0, or none
  reports,          \* health reports made
  downAt            \* when a plugin was shut down, for those that were

-----------------------------------------------------------------------------
(* The twin's events: batches of tracks, and estimates, each of which is   *)
(* an entity of its own.                                                   *)

TwinEventId ==
  {<<"tracks", t>> : t \in TracksId} \cup {<<"environment", e>> : e \in EnvironmentId}

TwinEvent ==
  [x \in TwinEventId |->
    IF x[1] = "tracks"
    THEN [observedAt |-> Tracks[x[2]].observedAt, receivedAt |-> Tracks[x[2]].observedAt,
          keys |-> {<<"track", g.id>> : g \in Tracks[x[2]].targets},
          valid |-> Tracks[x[2]].valid, reducible |-> TRUE]
    ELSE LET environment == EnvironmentOf(x[2]) IN
         [observedAt |-> environment.observedAt, receivedAt |-> x[2].at,
          keys |-> {<<"environment", x[2].sequence>>},
          valid |-> environment.valid, reducible |-> TRUE]]

TwinKey == UNION {TwinEvent[x].keys : x \in TwinEventId}

Twin == INSTANCE TwinStore WITH EventId <- TwinEventId, Event <- TwinEvent, Key <- TwinKey

-----------------------------------------------------------------------------
NoTracks == "none"

Plugin == {"weather", "risk", "planner"}

IsUp(p) ==
  CASE p = "weather" -> weatherUp [] p = "risk" -> riskUp [] p = "planner" -> plannerUp

SequenceOf(p) ==
  CASE p = "weather" -> Len(environments) [] p = "risk" -> risks [] p = "planner" -> paths

storeVars == <<entities, revision, watermark, history, outcome>>
healthVars == <<heard, reports, budget>>
assessmentVars ==
  <<now, weatherVars, riskVars, plannerVars, storeVars, tracks, healthVars, downAt>>

AssessmentInit ==
  /\ ClockInit /\ WeatherInit /\ RiskInit /\ PlannerInit /\ HealthInit
  /\ Twin!TwinInit
  /\ tracks = NoTracks
  /\ reports = {}
  /\ budget \in Budgets
  /\ downAt = [p \in {} |-> 0]

Newest == environments[Len(environments)]

AdvanceClock ==
  /\ \E s \in Steps : Advance(s)
  /\ UNCHANGED <<weatherVars, riskVars, plannerVars, storeVars, tracks, healthVars, downAt>>

\* The tracker's output (module Tracker), newer than the one before.
Perceive ==
  /\ \E t \in TracksId :
       /\ Tracks[t].observedAt <= now
       /\ tracks # NoTracks => Tracks[tracks].observedAt < Tracks[t].observedAt
       /\ tracks' = t
  /\ UNCHANGED <<now, weatherVars, riskVars, plannerVars, storeVars, healthVars, downAt>>

EstimateWeather ==
  /\ Len(environments) < budget.estimates
  /\ Estimate
  /\ UNCHANGED <<now, riskVars, plannerVars, storeVars, tracks, healthVars, downAt>>

Ingest ==
  /\ Len(history) < budget.commits
  /\ \/ tracks # NoTracks /\ Twin!Apply(<<"tracks", tracks>>)
     \/ environments # <<>> /\ Twin!Apply(<<"environment", Newest>>)
  /\ UNCHANGED <<now, weatherVars, riskVars, plannerVars, tracks, healthVars, downAt>>

\* snapshot(now) raises while the twin is empty.
AssessRisk ==
  /\ DOMAIN entities # {}
  /\ tracks # NoTracks /\ environments # <<>>
  /\ \E v \in VehicleId :
       Assess(Twin!SnapshotOf(entities, revision, watermark, now), tracks,
              EnvironmentOf(Newest), v)
  /\ UNCHANGED <<now, weatherVars, plannerVars, storeVars, tracks, healthVars, downAt>>

\* The request names the twin's revision of the moment.
PlanPath ==
  /\ Plan(revision)
  /\ UNCHANGED <<now, weatherVars, riskVars, storeVars, tracks, healthVars, downAt>>

Switch(p, on) ==
  \/ p = "weather" /\ SwitchWeather(on) /\ UNCHANGED <<riskVars, plannerVars>>
  \/ p = "risk" /\ SwitchRisk(on) /\ UNCHANGED <<weatherVars, plannerVars>>
  \/ p = "planner" /\ SwitchPlanner(on) /\ UNCHANGED <<weatherVars, riskVars>>

Initialize ==
  /\ \E p \in Plugin : ~IsUp(p) /\ Switch(p, TRUE)
  /\ UNCHANGED <<now, storeVars, tracks, healthVars, downAt>>

Shutdown ==
  /\ Cardinality(DOMAIN downAt) < budget.shutdowns
  /\ \E p \in Plugin :
       /\ IsUp(p)
       /\ Switch(p, FALSE)
       /\ downAt' = [q \in DOMAIN downAt \cup {p} |-> IF q = p THEN now ELSE downAt[q]]
  /\ UNCHANGED <<now, storeVars, tracks, healthVars>>

\* health() of a plugin; it raises while the plugin is down.
ReportHealth ==
  /\ Cardinality(reports) < budget.reports
  /\ \E p \in Plugin \cap Component :
       /\ IsUp(p)
       /\ reports' = reports \cup
            {[component |-> p, sequence |-> SequenceOf(p), checkedAt |-> now,
              status |-> "HEALTHY"]}
  /\ UNCHANGED <<now, weatherVars, riskVars, plannerVars, storeVars, tracks,
                 heard, budget, downAt>>

HearReport ==
  /\ \E r \in reports : IngestReport(r)
  /\ UNCHANGED <<now, weatherVars, riskVars, plannerVars, storeVars, tracks,
                 reports, budget, downAt>>

AssessmentNext ==
  \/ AdvanceClock \/ Perceive \/ EstimateWeather \/ Ingest \/ AssessRisk \/ PlanPath
  \/ Initialize \/ Shutdown \/ ReportHealth \/ HearReport

AssessmentSpec == AssessmentInit /\ [][AssessmentNext]_assessmentVars

-----------------------------------------------------------------------------
(* Properties.                                                             *)

(* A rating below HIGH that is still valid rests on weather that somebody  *)
(* measured, and every sample it rests on is younger than freshness and    *)
(* the two validities together: three limits, each checked by another part *)
(* at another time, add up to that and no more.                            *)
CalmRestsOnRecentWeather ==
  risk # NoRisk /\ risk.level < 2 /\ now < risk.validUntil =>
    LET samples == risk.environment.provenance IN
    /\ samples # {}
    /\ \A o \in samples :
         now - Obs[o].observedAt < Freshness + WeatherValidFor + RiskValidFor

(* Weather that was once bad stays bad: an estimate is an entity of its    *)
(* own in the twin, so an invalid one keeps every later snapshot invalid,  *)
(* and no rating comes below HIGH any more, whatever the weather became.   *)
BadWeatherIsNotForgotten ==
  risk # NoRisk /\ risk.level < 2 =>
    \A i \in DOMAIN history :
      history[i].revision \in 1..risk.revision /\ history[i].event[1] = "environment"
        => EnvironmentOf(history[i].event[2]).valid

(* The system is not called HEALTHY for longer than the timeout after a    *)
(* plugin it has heard of was shut down for good, however late the         *)
(* plugin's reports come in.                                               *)
SilenceIsSeen ==
  SystemStatus = "HEALTHY" =>
    \A p \in DOMAIN heard : IsUp(p) \/ now - downAt[p] <= HeartbeatTimeout
=============================================================================
