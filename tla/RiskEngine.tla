----------------------------- MODULE RiskEngine -----------------------------
(***************************************************************************)
(* RiskEnginePlugin (src/low_altitude_ai/risk/engine.py): one rating from  *)
(* a twin snapshot, a batch of tracks, the environment and the vehicle.    *)
(* It is the worst of five dimensions, each conservative about what it     *)
(* does not know.                                                          *)
(*                                                                         *)
(* A score is reduced to its band, from 0 (LOW) to 3 (CRITICAL), under the *)
(* default thresholds 25, 50 and 75.  Positions are vectors of integers,   *)
(* and the data are chosen so that roots and quotients come out even.      *)
(***************************************************************************)
EXTENDS SimClock, FiniteSetsExt

CONSTANTS
  TracksId,         \* target/1.0 events
  Tracks,           \* their contents
  VehicleId,        \* states of the vehicle
  Vehicle,          \* their contents (VehicleKinematics)
  MinSeparation,    \* RiskEngineConfig.minimum_separation_m
  ReactionTime,     \* .reaction_time_s
  CollisionHorizon, \* .horizon_s
  StaleTwin,        \* .stale_twin_ms
  EnergyReserve,    \* .energy_reserve_pct
  RiskValidFor,     \* .valid_for_s
  MaxRisks          \* bound: assessments in all

Vector == [1..3 -> Int]

\* "margin": the deviation taken from a target's covariance.
TargetRecord ==
  [id: Nat, lost: BOOLEAN, position: Vector, velocity: Vector, margin: Nat]

TracksRecord == [observedAt: Nat, valid: BOOLEAN, targets: SUBSET TargetRecord]

VehicleRecord ==
  [position: Vector, velocity: Vector, battery: 0..100, linkUp: BOOLEAN]

-----------------------------------------------------------------------------
Dot(a, b) == a[1] * b[1] + a[2] * b[2] + a[3] * b[3]
Square(a) == Dot(a, a)
Minus(a, b) == [i \in 1..3 |-> a[i] - b[i]]
Along(p, v, t) == [i \in 1..3 |-> p[i] + v[i] * t]
IsRoot(n, square) == n * n = square
Root(square) == CHOOSE n \in 0..square : IsRoot(n, square)

Gap(g, v) == Minus(g.position, v.position)
Drift(g, v) == Minus(g.velocity, v.velocity)

\* Mutant: the closest approach may lie in the past.
Tcpa_Unclipped(g, v) ==
  LET speed2 == Square(Drift(g, v))
      along == -Dot(Gap(g, v), Drift(g, v))
  IN  IF speed2 = 0 THEN 0
      ELSE IF along >= CollisionHorizon * speed2 THEN CollisionHorizon
      ELSE along \div speed2

\* Time of the closest approach, within the horizon.
Tcpa(g, v) ==
  LET speed2 == Square(Drift(g, v))
      along == -Dot(Gap(g, v), Drift(g, v))
  IN  IF speed2 = 0 \/ along <= 0 THEN 0
      ELSE IF along >= CollisionHorizon * speed2 THEN CollisionHorizon
      ELSE along \div speed2

Protection(g, v) ==
  MinSeparation + Root(Square(Drift(g, v))) * ReactionTime + g.margin

\* The square of the distance at an instant from now.
Apart2(g, v, t) == Square(Along(Gap(g, v), Drift(g, v), t))

Intrudes(g, v) == Apart2(g, v, Tcpa(g, v)) < Protection(g, v) * Protection(g, v)

(* A target outside the protected distance scores 30 (1 - tcpa/horizon),   *)
(* which reaches 25 at a sixth of the horizon, approaching or not.         *)
CollisionBand(g, v) ==
  IF Intrudes(g, v) THEN 3
  ELSE IF 6 * Tcpa(g, v) <= CollisionHorizon THEN 1 ELSE 0

Live(tracks) == {g \in Tracks[tracks].targets : ~g.lost}

CollisionBandOf(tracks, v) ==
  Max({0} \cup {CollisionBand(g, Vehicle[v]) : g \in Live(tracks)})

\* Which of several targets of one band scores most is left open.
Worst(tracks, v) ==
  {g \in Live(tracks) : CollisionBand(g, Vehicle[v]) = CollisionBandOf(tracks, v)}

\* EXCLUSION_CYLINDER: where the target will be when it comes closest.
ExclusionOf(g, v) ==
  [center |-> Along(g.position, g.velocity, Tcpa(g, v)), radius |-> Protection(g, v)]

\* The constraints recommended: for the worst target, from MODERATE on.
Constraints(tracks, v) ==
  IF CollisionBandOf(tracks, v) = 0 THEN {<<>>}
  ELSE {<<ExclusionOf(g, Vehicle[v])>> : g \in Worst(tracks, v)}

ASSUME RiskAssumption ==
  /\ Tracks \in [TracksId -> TracksRecord]
  /\ Vehicle \in [VehicleId -> VehicleRecord]
  /\ \A p \in {MinSeparation, ReactionTime, CollisionHorizon, StaleTwin,
               EnergyReserve, RiskValidFor} : p \in Nat \ {0}
  /\ MaxRisks \in Nat

\* The data come out even, as the header says.
ASSUME EvenGeometry ==
  \A x \in TracksId, v \in VehicleId : \A g \in Tracks[x].targets :
    LET drift == Drift(g, Vehicle[v])
        along == -Dot(Gap(g, Vehicle[v]), drift)
    IN  /\ \E n \in 0..Square(drift) : IsRoot(n, Square(drift))
        /\ drift # <<0, 0, 0>> /\ along \in 1..(CollisionHorizon * Square(drift))
             => along % Square(drift) = 0

-----------------------------------------------------------------------------
VARIABLES
  risk,             \* the last risk/1.0
  risks,            \* ._sequence
  riskUp            \* ._context is set

riskVars == <<risk, risks, riskUp>>

NoRisk == [level |-> -1]

RiskInit ==
  /\ risk = NoRisk
  /\ risks = 0
  /\ riskUp = TRUE

\* initialize(), shutdown(): what was made and counted stays.
SwitchRisk(on) == riskUp' = on /\ UNCHANGED <<risk, risks>>

\* Mutant: an estimate is good for ever.
WeatherBand_NoExpiry(environment) ==
  Max({environment.band} \cup IF environment.valid THEN {} ELSE {2})

WeatherBand(environment) ==
  Max({environment.band} \cup
        IF environment.valid /\ now < environment.validTo THEN {} ELSE {2})

EnergyBand(v) ==
  LET battery == Vehicle[v].battery
      twice == 2 * (EnergyReserve + 20 - battery)
  IN  IF battery < EnergyReserve THEN 3 ELSE IF twice >= 25 THEN 1 ELSE 0

LinkBand(v) == IF Vehicle[v].linkUp THEN 0 ELSE 3

\* Mutant: only the age of the snapshot counts.
SystemBand_AgeOnly(snapshot) ==
  IF now - snapshot.watermark > StaleTwin THEN 2 ELSE 0

SystemBand(snapshot) ==
  IF now - snapshot.watermark > StaleTwin \/ ~snapshot.valid THEN 2 ELSE 0

Assess(snapshot, tracks, environment, v) ==
  /\ riskUp
  /\ risks < MaxRisks
  /\ \E constraints \in Constraints(tracks, v) :
       risk' =
         [level |-> Max({CollisionBandOf(tracks, v), WeatherBand(environment),
                         EnergyBand(v), LinkBand(v), SystemBand(snapshot)}),
          collision |-> CollisionBandOf(tracks, v),
          valid |-> Tracks[tracks].valid /\ environment.valid /\ snapshot.valid,
          revision |-> snapshot.revision,
          at |-> now,
          validUntil |-> now + RiskValidFor,
          constraints |-> constraints,
          tracks |-> tracks, environment |-> environment, vehicle |-> v]
  /\ risks' = risks + 1
  /\ UNCHANGED riskUp

-----------------------------------------------------------------------------
(* Properties.                                                             *)

(* A rating is CRITICAL for collision exactly when one of the targets that *)
(* are not LOST comes within its protected distance at some instant of the *)
(* horizon, be it approaching, receding, standing still relative to the    *)
(* vehicle or closest beyond the horizon; the closed form of _collision_-  *)
(* risk agrees with looking at every instant.                              *)
ClosestApproachFound ==
  risk # NoRisk =>
    LET v == Vehicle[risk.vehicle] IN
    risk.collision = 3 <=>
      \E g \in Live(risk.tracks), t \in 0..CollisionHorizon :
        Apart2(g, v, t) < Protection(g, v) * Protection(g, v)
=============================================================================
