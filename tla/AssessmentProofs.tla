-------------------------- MODULE AssessmentProofs --------------------------
(***************************************************************************)
(* Proofs about weather, twin, risk, planning and health composed, for any *)
(* samples, tracks, vehicles, limits and budgets.                          *)
(***************************************************************************)
EXTENDS Assessment, TLAPS

-----------------------------------------------------------------------------
(* The parts of the inductive invariant.                                   *)

\* Estimates are numbered through and of the past.
Estimated == {environments[i] : i \in DOMAIN environments}

EstimatesInv ==
  /\ now \in 0..Horizon
  /\ environments \in Seq(EnvironmentId)
  /\ \A i \in DOMAIN environments :
       environments[i].sequence = i - 1 /\ environments[i].at <= now

\* A rating is of tracks and a vehicle that there are.
RatingTyped(r) ==
  /\ r.tracks \in TracksId /\ r.vehicle \in VehicleId
  /\ r.collision = CollisionBandOf(r.tracks, r.vehicle)
  /\ r.constraints \in Constraints(r.tracks, r.vehicle)

\* What was recent, and how recent, when the rating was made.
CalmWhenRated ==
  risk.level < 2 =>
    /\ risk.environment.provenance # {}
    /\ \A o \in risk.environment.provenance :
         o \in ObsId /\ risk.at - Obs[o].observedAt < Freshness + WeatherValidFor

RatedInv ==
  /\ tracks = NoTracks \/ tracks \in TracksId
  /\ risk # NoRisk =>
       /\ RatingTyped(risk) /\ CalmWhenRated
       /\ risk.at \in Nat /\ risk.validUntil = risk.at + RiskValidFor
       /\ risk.revision \in 0..revision

\* A candidate was the best there was for a rating.
PlannedInv ==
  path.status = "CANDIDATE" =>
    /\ RatingTyped(path.risk)
    /\ path.points \in Best(Vehicle[path.risk.vehicle].position, path.risk.constraints)

\* What the twin remembers of an event.
TwinMemory == [event: TwinEventId, revision: Nat]

\* An estimate that was committed is an entity of its own for good.
TwinInv ==
  /\ revision \in Nat
  /\ history \in Seq(TwinMemory)
  /\ \A i \in DOMAIN history : history[i].revision \in 0..revision
  /\ \A i \in DOMAIN history : history[i].event[1] = "environment" =>
       LET estimate == history[i].event[2]
           key == <<"environment", estimate.sequence>>
       IN  /\ estimate \in Estimated
           /\ history[i].revision > 0 =>
                key \in DOMAIN entities /\ entities[key].event = history[i].event

\* A plugin that is down was shut down, after all it has reported.
ReportsInv ==
  /\ weatherUp \in BOOLEAN /\ riskUp \in BOOLEAN /\ plannerUp \in BOOLEAN
  /\ \A p \in DOMAIN downAt : downAt[p] \in Nat
  /\ \A p \in Plugin : IsUp(p) \/ p \in DOMAIN downAt
  /\ \A r \in reports :
       /\ r.component \in Plugin /\ r.status = "HEALTHY"
       /\ r.checkedAt \in Nat /\ r.checkedAt <= now
       /\ IsUp(r.component) \/ r.checkedAt <= downAt[r.component]
  /\ \A c \in DOMAIN heard : heard[c] \in reports /\ heard[c].component = c

AssessmentInv ==
  /\ EstimatesInv /\ RatedInv /\ PlannedInv /\ TwinInv /\ BadWeatherIsNotForgotten
  /\ ReportsInv

-----------------------------------------------------------------------------
(* Bands and estimates.                                                    *)

\* Of several bands there is a worst one.
LEMMA WorstBand ==
  ASSUME NEW S \in SUBSET Band, S # {}
  PROVE  Max(S) \in S /\ \A b \in S : b <= Max(S)
<1>1. \E m \in S : \A b \in S : m >= b
  <2>1. \A b \in S : b = 0 \/ b = 1 \/ b = 2 \/ b = 3
    BY DEF Band
  <2>2. CASE 3 \in S
    BY <2>1, <2>2
  <2>3. CASE 3 \notin S /\ 2 \in S
    BY <2>1, <2>3
  <2>4. CASE 3 \notin S /\ 2 \notin S /\ 1 \in S
    BY <2>1, <2>4
  <2>5. CASE 3 \notin S /\ 2 \notin S /\ 1 \notin S
    BY <2>1, <2>5
  <2>. QED  BY <2>2, <2>3, <2>4, <2>5
<1>2. Max(S) = CHOOSE m \in S : \A b \in S : m >= b
  BY DEF Max
<1>3. Max(S) \in S /\ \A b \in S : Max(S) >= b
  BY <1>1, <1>2
<1>. QED  BY <1>3 DEF Band

\* A rating is as bad as any of its dimensions.
LEMMA LevelIsWorst ==
  ASSUME NEW a \in Band, NEW b \in Band, NEW c \in Band, NEW d \in Band, NEW e \in Band
  PROVE  LET level == Max({a, b, c, d, e}) IN
         level \in Band /\ a <= level /\ b <= level /\ c <= level /\ d <= level /\ e <= level
<1>1. {a, b, c, d, e} \in SUBSET Band /\ {a, b, c, d, e} # {}
  OBVIOUS
<1>. QED  BY <1>1, WorstBand

\* The fields of an estimate.
LEMMA EstimateFields ==
  ASSUME NEW e \in EnvironmentId
  PROVE  /\ e.at \in Nat /\ e.band \in Band /\ e.sequence \in Nat
         /\ UsableOf(e.batch, e.at) \subseteq ObsId
         /\ \A o \in UsableOf(e.batch, e.at) :
              Obs[o].observedAt \in Nat /\ e.at - Obs[o].observedAt <= Freshness
<1>1. /\ e.at \in 0..Horizon /\ e.band \in Band /\ e.sequence \in 0..(MaxEstimates - 1)
      /\ e.batch \in Seq(ObsId)
  BY WeatherAssumption DEF EnvironmentId
<1>2. Range(e.batch) \subseteq ObsId
  BY <1>1 DEF Range
<1>3. \A o \in ObsId : Obs[o].observedAt \in Nat
  BY WeatherAssumption DEF ObsRecord
<1>4. e.at \in Nat /\ Freshness \in Nat
  BY <1>1, WeatherAssumption
<1>5. \A o \in UsableOf(e.batch, e.at) :
        o \in ObsId /\ ~(e.at - Obs[o].observedAt > Freshness)
  BY <1>2 DEF UsableOf, Usable, Outdated
<1>6. \A o \in ObsId : ~(e.at - Obs[o].observedAt > Freshness) =>
                          e.at - Obs[o].observedAt <= Freshness
  BY <1>3, <1>4
<1>. QED  BY <1>1, <1>3, <1>5, <1>6

\* The estimate is what its number says.
LEMMA EstimatedTyped ==
  ASSUME EstimatesInv, NEW e \in Estimated
  PROVE  /\ e \in EnvironmentId /\ e.at <= now
         /\ \A f \in Estimated : f.sequence = e.sequence => f = e
<1>1. PICK i \in DOMAIN environments : e = environments[i]
  BY DEF Estimated
<1>2. /\ environments[i] \in EnvironmentId /\ environments[i].at <= now
      /\ DOMAIN environments \subseteq Nat
      /\ \A j \in DOMAIN environments : environments[j].sequence = j - 1
  BY <1>1 DEF EstimatesInv
<1>3. ASSUME NEW j \in DOMAIN environments, environments[j].sequence = e.sequence
      PROVE  environments[j] = e
  <2>1. j \in Nat /\ i \in Nat /\ j - 1 = i - 1
    BY <1>1, <1>2, <1>3
  <2>. QED  BY <1>1, <2>1
<1>. QED  BY <1>1, <1>2, <1>3 DEF Estimated

\* One more estimate.
LEMMA EstimateAdds ==
  ASSUME EstimatesInv, Estimate
  PROVE  /\ environments' \in Seq(EnvironmentId)
         /\ \A i \in DOMAIN environments' :
              environments'[i].sequence = i - 1 /\ environments'[i].at <= now
         /\ Estimated \subseteq Estimated'
<1>1. PICK batch \in Batches : \E band \in FusedBands(UsableOf(batch, now)) :
        environments' = Append(environments,
          [sequence |-> Len(environments), batch |-> batch, at |-> now, band |-> band])
  BY DEF Estimate
<1>2. PICK band \in FusedBands(UsableOf(batch, now)) :
        environments' = Append(environments,
          [sequence |-> Len(environments), batch |-> batch, at |-> now, band |-> band])
  BY <1>1
<1>3. PICK e : e = [sequence |-> Len(environments), batch |-> batch, at |-> now, band |-> band]
  OBVIOUS
<1>4. band \in Band
  <2>1. UsableOf(batch, now) \subseteq ObsId
    <3>1. Range(batch) \subseteq ObsId
      BY WeatherAssumption DEF Range
    <3>. QED  BY <3>1 DEF UsableOf
  <2>2. \A o \in ObsId : Obs[o].alone \in Band
    BY WeatherAssumption DEF ObsRecord
  <2>3. Unusable \in Band
    BY DEF Unusable, Band
  <2>. QED  BY <1>2, <2>1, <2>2, <2>3 DEF FusedBands
<1>5. now \in 0..Horizon /\ Len(environments) \in 0..(MaxEstimates - 1)
  BY WeatherAssumption DEF EstimatesInv, Estimate
<1>6. e \in EnvironmentId /\ e.sequence = Len(environments) /\ e.at = now
  BY <1>3, <1>4, <1>5 DEF EnvironmentId
<1>7. PICK n \in Nat : n = Len(environments)
  BY DEF EstimatesInv
<1>8. /\ environments' \in Seq(EnvironmentId) /\ DOMAIN environments' = 1..(n + 1)
      /\ environments'[n + 1] = e /\ DOMAIN environments = 1..n
      /\ \A i \in 1..n : environments'[i] = environments[i]
  BY <1>2, <1>3, <1>6, <1>7 DEF EstimatesInv
<1>9. now <= now
  BY <1>5
<1>10. \A i \in 1..(n + 1) : i \in 1..n \/ i = n + 1
  OBVIOUS
<1>11. \A i \in DOMAIN environments' :
         environments'[i].sequence = i - 1 /\ environments'[i].at <= now
  <2>1. \A i \in 1..n : environments[i].sequence = i - 1 /\ environments[i].at <= now
    BY <1>8 DEF EstimatesInv
  <2>2. e.sequence = (n + 1) - 1 /\ e.at <= now
    BY <1>6, <1>7, <1>9
  <2>. QED  BY <1>8, <1>10, <2>1, <2>2
<1>12. Estimated \subseteq Estimated'
  BY <1>7, <1>8, <1>10 DEF Estimated
<1>. QED  BY <1>8, <1>11, <1>12

\* Time passes, and estimates are added.
LEMMA EstimatesKept ==
  ASSUME EstimatesInv, [AssessmentNext]_assessmentVars
  PROVE  /\ EstimatesInv' /\ Estimated \subseteq Estimated'
         /\ now \in Nat /\ now' \in Nat /\ now <= now'
<1>1. Horizon \in Nat /\ now \in 0..Horizon /\ now \in Nat
  BY ClockAssumption DEF EstimatesInv
<1>2. CASE AdvanceClock
  <2>1. PICK s \in Steps : now + s <= Horizon /\ now' = now + s
    BY <1>2 DEF AdvanceClock, Advance
  <2>2. now' \in 0..Horizon /\ now <= now' /\ now' \in Nat
    BY <1>1, <2>1, ClockAssumption
  <2>3. environments' = environments
    BY <1>2 DEF AdvanceClock, weatherVars
  <2>4. \A i \in DOMAIN environments : environments[i].at <= now'
    <3>1. \A i \in DOMAIN environments : environments[i] \in EnvironmentId
      BY DEF EstimatesInv
    <3>2. \A i \in DOMAIN environments : environments[i].at \in Nat
      BY <3>1, EstimateFields
    <3>. QED  BY <1>1, <2>2, <3>2 DEF EstimatesInv
  <2>. QED  BY <1>1, <2>2, <2>3, <2>4 DEF EstimatesInv, Estimated
<1>3. CASE EstimateWeather
  <2>1. now' = now /\ Estimate
    BY <1>3 DEF EstimateWeather
  <2>. QED  BY <1>1, <2>1, EstimateAdds DEF EstimatesInv
<1>4. CASE UNCHANGED <<now, environments>>
  BY <1>1, <1>4 DEF EstimatesInv, Estimated
<1>. QED  BY <1>2, <1>3, <1>4
     DEF AssessmentNext, Perceive, Ingest, AssessRisk, PlanPath, Initialize, Shutdown,
         ReportHealth, HearReport, Switch, SwitchWeather, SwitchRisk, SwitchPlanner,
         assessmentVars, weatherVars

-----------------------------------------------------------------------------
(* A rating.                                                               *)

LEMMA RiskLimits ==
  MinSeparation \in Nat /\ ReactionTime \in Nat /\ CollisionHorizon \in Nat /\ RiskValidFor \in Nat
BY ONLY RiskAssumption DEF RiskAssumption

\* The bands of the five dimensions.
LEMMA BandsTyped ==
  ASSUME NEW t \in TracksId, NEW e, EnvironmentOf(e).band \in Band, NEW v, NEW s
  PROVE  /\ CollisionBandOf(t, v) \in Band /\ WeatherBand(EnvironmentOf(e)) \in Band
         /\ EnergyBand(v) \in Band /\ LinkBand(v) \in Band /\ SystemBand(s) \in Band
         /\ WeatherBand(EnvironmentOf(e)) < 2 =>
              EnvironmentOf(e).valid /\ now < EnvironmentOf(e).validTo
         /\ SystemBand(s) < 2 => s.valid
<1>1. CollisionBandOf(t, v) \in Band
  <2>1. \A g : CollisionBand(g, Vehicle[v]) \in Band
    BY DEF CollisionBand, Band
  <2>2. {0} \cup {CollisionBand(g, Vehicle[v]) : g \in Live(t)} \in SUBSET Band
    BY <2>1 DEF Band
  <2>. QED  BY <2>2, WorstBand DEF CollisionBandOf
<1>2. /\ WeatherBand(EnvironmentOf(e)) \in Band
      /\ WeatherBand(EnvironmentOf(e)) < 2 =>
           EnvironmentOf(e).valid /\ now < EnvironmentOf(e).validTo
  <2>1. PICK S : S = {EnvironmentOf(e).band} \cup
          IF EnvironmentOf(e).valid /\ now < EnvironmentOf(e).validTo THEN {} ELSE {2}
    OBVIOUS
  <2>2. S \in SUBSET Band /\ S # {}
    BY <2>1 DEF Band
  <2>3. Max(S) \in Band /\ \A b \in S : b <= Max(S)
    BY <2>2, WorstBand
  <2>4. WeatherBand(EnvironmentOf(e)) = Max(S)
    BY <2>1 DEF WeatherBand
  <2>5. ~(EnvironmentOf(e).valid /\ now < EnvironmentOf(e).validTo) => 2 <= Max(S)
    BY <2>1, <2>3
  <2>. QED  BY <2>3, <2>4, <2>5 DEF Band
<1>3. EnergyBand(v) \in Band /\ LinkBand(v) \in Band
  BY DEF EnergyBand, LinkBand, Band
<1>4. SystemBand(s) \in Band /\ (SystemBand(s) < 2 => s.valid)
  BY DEF SystemBand, Band
<1>. QED  BY <1>1, <1>2, <1>3, <1>4

\* What a rating below HIGH says of the moment it is made.
LEMMA RatingIsCalm ==
  ASSUME EstimatesInv, NEW t \in TracksId, NEW e \in Estimated, NEW v \in VehicleId,
         NEW s, Assess(s, t, EnvironmentOf(e), v)
  PROVE  /\ RatingTyped(risk') /\ CalmWhenRated'
         /\ risk' # NoRisk /\ risk'.at = now /\ risk'.validUntil = now + RiskValidFor
         /\ risk'.revision = s.revision
         /\ risk'.level < 2 => s.valid
<1>1. PICK constraints \in Constraints(t, v) :
        risk' =
          [level |-> Max({CollisionBandOf(t, v), WeatherBand(EnvironmentOf(e)),
                          EnergyBand(v), LinkBand(v), SystemBand(s)}),
           collision |-> CollisionBandOf(t, v),
           valid |-> Tracks[t].valid /\ EnvironmentOf(e).valid /\ s.valid,
           revision |-> s.revision,
           at |-> now,
           validUntil |-> now + RiskValidFor,
           constraints |-> constraints,
           tracks |-> t, environment |-> EnvironmentOf(e), vehicle |-> v]
  BY DEF Assess
<1>2. PICK environment : environment = EnvironmentOf(e)
  OBVIOUS
<1>3. /\ risk'.level = Max({CollisionBandOf(t, v), WeatherBand(environment),
                            EnergyBand(v), LinkBand(v), SystemBand(s)})
      /\ risk'.collision = CollisionBandOf(t, v) /\ risk'.constraints = constraints
      /\ risk'.tracks = t /\ risk'.vehicle = v /\ risk'.environment = environment
      /\ risk'.at = now /\ risk'.validUntil = now + RiskValidFor
      /\ risk'.revision = s.revision /\ risk' # NoRisk
  <2>. HIDE DEF CollisionBandOf, WeatherBand, EnergyBand, LinkBand, SystemBand
  <2>. QED  BY <1>1, <1>2 DEF NoRisk
<1>4. e \in EnvironmentId
  BY EstimatedTyped
<1>5. /\ environment.band = e.band /\ environment.band \in Band
      /\ environment.provenance = UsableOf(e.batch, e.at)
      /\ environment.valid => UsableOf(e.batch, e.at) # {}
      /\ environment.validTo = e.at + WeatherValidFor
  BY <1>2, <1>4, EstimateFields DEF EnvironmentOf
<1>6. ASSUME risk'.level < 2
      PROVE  environment.valid /\ now < environment.validTo /\ s.valid
  <2>1. /\ CollisionBandOf(t, v) \in Band /\ WeatherBand(environment) \in Band
        /\ EnergyBand(v) \in Band /\ LinkBand(v) \in Band /\ SystemBand(s) \in Band
        /\ WeatherBand(environment) < 2 => environment.valid /\ now < environment.validTo
        /\ SystemBand(s) < 2 => s.valid
    BY <1>2, <1>5, BandsTyped
  <2>2. /\ risk'.level \in Band /\ WeatherBand(environment) <= risk'.level
        /\ SystemBand(s) <= risk'.level
    BY <1>3, <2>1, LevelIsWorst
  <2>3. WeatherBand(environment) < 2 /\ SystemBand(s) < 2
    BY <1>6, <2>1, <2>2 DEF Band
  <2>. QED  BY <2>1, <2>3
<1>7. CalmWhenRated'
  <2>. SUFFICES ASSUME risk'.level < 2, NEW o \in environment.provenance
                PROVE  o \in ObsId /\ now - Obs[o].observedAt < Freshness + WeatherValidFor
    BY <1>3, <1>5, <1>6 DEF CalmWhenRated
  <2>1. now < e.at + WeatherValidFor
    BY <1>5, <1>6
  <2>2. /\ o \in ObsId /\ Obs[o].observedAt \in Nat
        /\ e.at - Obs[o].observedAt <= Freshness /\ e.at \in Nat
    BY <1>4, <1>5, EstimateFields
  <2>3. now \in Nat /\ Freshness \in Nat /\ WeatherValidFor \in Nat
    BY WeatherAssumption, ClockAssumption DEF EstimatesInv
  <2>. QED  BY <2>1, <2>2, <2>3
<1>8. RatingTyped(risk')
  BY <1>3 DEF RatingTyped
<1>. QED  BY <1>3, <1>6, <1>7, <1>8

\* The newest estimate is an estimate.
LEMMA NewestIsEstimated ==
  ASSUME EstimatesInv, environments # <<>>
  PROVE  Newest \in Estimated
<1>1. PICK n \in Nat : n = Len(environments) /\ DOMAIN environments = 1..n /\ n # 0
  BY DEF EstimatesInv
<1>. QED  BY <1>1 DEF Newest, Estimated

LEMMA RatedKept ==
  ASSUME EstimatesInv, RatedInv, TwinInv, [AssessmentNext]_assessmentVars,
         revision' = revision \/ revision' = revision + 1
  PROVE  RatedInv'
<1>1. revision \in Nat /\ now \in Nat
  BY ClockAssumption DEF TwinInv, EstimatesInv
<1>2. \A n \in 0..revision : n \in 0..revision'
  BY <1>1
<1>3. CASE AssessRisk
  <2>1. tracks \in TracksId /\ environments # <<>>
    BY <1>3 DEF AssessRisk, RatedInv
  <2>2. PICK v \in VehicleId :
          Assess(Twin!SnapshotOf(entities, revision, watermark, now), tracks,
                 EnvironmentOf(Newest), v)
    BY <1>3 DEF AssessRisk
  <2>3. PICK s : s = Twin!SnapshotOf(entities, revision, watermark, now)
    OBVIOUS
  <2>4. s.revision = revision
    BY <2>3 DEF Twin!SnapshotOf
  <2>5. Newest \in Estimated
    BY <2>1, NewestIsEstimated
  <2>6. PICK e \in Estimated : e = Newest
    BY <2>5
  <2>7. Assess(s, tracks, EnvironmentOf(e), v)
    BY <2>2, <2>3, <2>6
  <2>8. PICK t \in TracksId : t = tracks
    BY <2>1
  <2>9. Assess(s, t, EnvironmentOf(e), v)
    BY <2>7, <2>8
  <2>10. /\ RatingTyped(risk') /\ CalmWhenRated'
         /\ risk'.at = now /\ risk'.validUntil = now + RiskValidFor
         /\ risk'.revision = revision
    BY <2>4, <2>9, RatingIsCalm
  <2>11. UNCHANGED <<tracks, revision>>
    BY <1>3 DEF AssessRisk, storeVars
  <2>. QED  BY <1>1, <2>1, <2>10, <2>11 DEF RatedInv, RatingTyped
<1>4. CASE UNCHANGED risk
  <2>1. tracks' = NoTracks \/ tracks' \in TracksId
    BY DEF AssessmentNext, AdvanceClock, Perceive, EstimateWeather, Ingest, AssessRisk,
           PlanPath, Initialize, Shutdown, ReportHealth, HearReport, assessmentVars, RatedInv
  <2>. QED  BY <1>2, <1>4, <2>1 DEF RatedInv, RatingTyped, CalmWhenRated
<1>5. AssessRisk \/ UNCHANGED risk
  BY DEF AssessmentNext, AdvanceClock, Perceive, EstimateWeather, Ingest,
         PlanPath, Initialize, Shutdown, ReportHealth, HearReport, assessmentVars,
         Switch, SwitchWeather, SwitchRisk, SwitchPlanner, riskVars
<1>. QED  BY <1>3, <1>4, <1>5

-----------------------------------------------------------------------------
(* The twin.                                                               *)

WeatherKey(e) == <<"environment", e.sequence>>

\* Which entities an event names.
LEMMA TwinEventFields ==
  ASSUME NEW x \in TwinEventId
  PROVE  /\ x[1] = "environment" =>
              /\ TwinEvent[x].keys = {WeatherKey(x[2])}
              /\ TwinEvent[x].valid = EnvironmentOf(x[2]).valid
         /\ x[1] # "environment" => \A e : WeatherKey(e) \notin TwinEvent[x].keys
<1>1. CASE x[1] = "environment"
  BY <1>1 DEF TwinEvent, WeatherKey
<1>2. CASE x[1] # "environment"
  <2>1. x[1] = "tracks"
    BY <1>2 DEF TwinEventId
  <2>2. TwinEvent[x].keys = {<<"track", g.id>> : g \in Tracks[x[2]].targets}
    BY <2>1 DEF TwinEvent
  <2>. QED  BY <1>2, <2>2 DEF WeatherKey
<1>. QED  BY <1>1, <1>2

\* What the twin is given.
LEMMA IngestedEvent ==
  ASSUME EstimatesInv, RatedInv, Ingest
  PROVE  \E x \in TwinEventId :
           Twin!Apply(x) /\ (x[1] = "environment" => x[2] \in Estimated)
<1>1. CASE tracks # NoTracks /\ Twin!Apply(<<"tracks", tracks>>)
  <2>1. <<"tracks", tracks>> \in TwinEventId
    BY <1>1 DEF RatedInv, TwinEventId
  <2>. QED  BY <1>1, <2>1
<1>2. CASE environments # <<>> /\ Twin!Apply(<<"environment", Newest>>)
  <2>1. Newest \in Estimated
    BY <1>2, NewestIsEstimated
  <2>2. Newest \in EnvironmentId
    BY <2>1, EstimatedTyped
  <2>3. <<"environment", Newest>> \in TwinEventId
    BY <2>2 DEF TwinEventId
  <2>. QED  BY <1>2, <2>1, <2>3
<1>. QED  BY <1>1, <1>2 DEF Ingest

\* One more event that the twin remembers.
LEMMA HistoryGrows ==
  ASSUME TwinInv, NEW x \in TwinEventId, NEW r \in Nat, NEW n, n = Len(history) + 1,
         Twin!Remember(x, r)
  PROVE  /\ DOMAIN history' = DOMAIN history \cup {n}
         /\ n \in Nat /\ n \notin DOMAIN history
         /\ \A i \in DOMAIN history : history'[i] = history[i]
         /\ history'[n].event = x /\ history'[n].revision = r
         /\ history' \in Seq(TwinMemory)
BY DEF TwinInv, Twin!Remember, TwinMemory

\* The same, of a commit.
LEMMA CommitGrows ==
  ASSUME TwinInv, NEW x \in TwinEventId, Twin!Commit(x), NEW n, n = Len(history) + 1
  PROVE  /\ revision \in Nat /\ revision' = revision + 1
         /\ DOMAIN history' = DOMAIN history \cup {n}
         /\ n \in Nat /\ n \notin DOMAIN history
         /\ \A i \in DOMAIN history : history'[i] = history[i]
         /\ history'[n].event = x /\ history'[n].revision = revision'
         /\ history' \in Seq(TwinMemory)
<1>1. PICK r \in Nat : r = revision + 1
  BY DEF TwinInv
<1>2. Twin!Remember(x, r)
  BY <1>1 DEF Twin!Commit
<1>3. /\ DOMAIN history' = DOMAIN history \cup {n}
      /\ n \in Nat /\ n \notin DOMAIN history
      /\ \A i \in DOMAIN history : history'[i] = history[i]
      /\ history'[n].event = x /\ history'[n].revision = r
      /\ history' \in Seq(TwinMemory)
  BY <1>1, <1>2 DEF TwinInv, Twin!Remember, TwinMemory
<1>4. revision \in Nat /\ revision' = r
  BY <1>1 DEF TwinInv, Twin!Commit
<1>. QED  BY <1>1, <1>3, <1>4

\* An event remembered is an event.
LEMMA Remembered ==
  ASSUME TwinInv, NEW i \in DOMAIN history
  PROVE  history[i].event \in TwinEventId
<1>1. history[i] \in TwinMemory
  BY DEF TwinInv
<1>. QED  BY <1>1 DEF TwinMemory

\* A commit adds the estimate, or leaves the estimates alone.
LEMMA CommitKeepsTwin ==
  ASSUME EstimatesInv, TwinInv, NEW x \in TwinEventId, Twin!Commit(x),
         x[1] = "environment" => x[2] \in Estimated, UNCHANGED environments
  PROVE  TwinInv'
<1>0. PICK n : n = Len(history) + 1
  OBVIOUS
<1>1. revision \in Nat /\ revision' = revision + 1
  BY DEF TwinInv, Twin!Commit
<1>2. /\ DOMAIN history' = DOMAIN history \cup {n}
      /\ n \in Nat /\ n \notin DOMAIN history
      /\ \A i \in DOMAIN history : history'[i] = history[i]
      /\ history'[n].event = x /\ history'[n].revision = revision'
      /\ history' \in Seq(TwinMemory)
  BY <1>0, CommitGrows
<1>3. entities' = [k \in DOMAIN entities \cup TwinEvent[x].keys |->
                     IF k \in TwinEvent[x].keys
                     THEN [revision |-> revision + 1, event |-> x] ELSE entities[k]]
  BY DEF Twin!Commit
<1>4. \A i \in DOMAIN history' : history'[i].revision \in 0..revision'
  <2>1. \A i \in DOMAIN history : history[i].revision \in 0..revision'
    BY <1>1 DEF TwinInv
  <2>. QED  BY <1>1, <1>2, <2>1
<1>5. ASSUME NEW i \in DOMAIN history', history'[i].event[1] = "environment"
      PROVE  /\ history'[i].event[2] \in Estimated
             /\ history'[i].revision > 0 =>
                  /\ WeatherKey(history'[i].event[2]) \in DOMAIN entities'
                  /\ entities'[WeatherKey(history'[i].event[2])].event = history'[i].event
  <2>1. CASE i = n
    <3>1. WeatherKey(x[2]) \in TwinEvent[x].keys
      BY <1>2, <1>5, <2>1, TwinEventFields
    <3>. QED  BY <1>2, <1>3, <1>5, <2>1, <3>1
  <2>2. CASE i \in DOMAIN history
    <3>1. PICK y \in TwinEventId : y = history[i].event
      BY <2>2, Remembered
    <3>2. /\ y[1] = "environment" /\ y[2] \in Estimated
          /\ history[i].revision > 0 =>
               WeatherKey(y[2]) \in DOMAIN entities /\ entities[WeatherKey(y[2])].event = y
      BY <1>2, <1>5, <2>2, <3>1 DEF TwinInv, WeatherKey
    <3>3. ASSUME WeatherKey(y[2]) \in TwinEvent[x].keys
          PROVE  x = y
      <4>1. x[1] = "environment" /\ WeatherKey(y[2]) = WeatherKey(x[2])
        BY <3>3, TwinEventFields
      <4>2. x[2] = y[2]
        BY <3>2, <4>1, EstimatedTyped DEF WeatherKey
      <4>. QED  BY <3>2, <4>1, <4>2 DEF TwinEventId
    <3>. QED  BY <1>2, <1>3, <2>2, <3>1, <3>2, <3>3
  <2>. QED  BY <1>2, <2>1, <2>2
<1>. QED  BY <1>1, <1>2, <1>4, <1>5 DEF TwinInv, WeatherKey, Estimated

\* The n-th event is remembered, late or under the next revision.
Added(n) ==
  /\ DOMAIN history' = DOMAIN history \cup {n}
  /\ \A i \in DOMAIN history : history'[i] = history[i]
  /\ history'[n].revision \in {0, revision + 1}

LEMMA TwinKept ==
  ASSUME EstimatesInv, RatedInv, TwinInv, [AssessmentNext]_assessmentVars
  PROVE  /\ TwinInv'
         /\ revision' = revision \/ revision' = revision + 1
         /\ history' = history \/ (risk' = risk /\ \E n : Added(n))
<1>0. PICK n : n = Len(history) + 1
  OBVIOUS
<1>1. Estimated \subseteq Estimated'
  BY EstimatesKept
<1>2. CASE UNCHANGED storeVars
  BY <1>1, <1>2 DEF TwinInv, storeVars
<1>3. CASE Ingest
  <2>1. PICK x \in TwinEventId : Twin!Apply(x) /\ (x[1] = "environment" => x[2] \in Estimated)
    BY <1>3, IngestedEvent
  <2>2. environments' = environments /\ risk' = risk
    BY <1>3 DEF Ingest, weatherVars, riskVars
  <2>3. CASE Twin!Duplicate(x) \/ Twin!Refuse(x)
    BY <1>1, <2>3 DEF Twin!Duplicate, Twin!Refuse, TwinInv
  <2>4. CASE Twin!RejectLate(x)
    <3>1. Twin!Remember(x, 0) /\ UNCHANGED <<entities, revision>> /\ 0 \in Nat
      BY <2>4 DEF Twin!RejectLate
    <3>2. /\ DOMAIN history' = DOMAIN history \cup {n}
          /\ \A i \in DOMAIN history : history'[i] = history[i]
          /\ history'[n].event = x /\ history'[n].revision = 0
          /\ history' \in Seq(TwinMemory)
      BY <1>0, <3>1, HistoryGrows
    <3>3. ~(0 > 0) /\ 0 \in 0..revision
      BY DEF TwinInv
    <3>4. TwinInv'
      BY <1>1, <2>1, <3>1, <3>2, <3>3 DEF TwinInv
    <3>5. Added(n)
      BY <3>2 DEF Added
    <3>. QED  BY <2>2, <3>1, <3>4, <3>5
  <2>5. CASE Twin!Commit(x)
    <3>1. TwinInv'
      BY <2>1, <2>2, <2>5, CommitKeepsTwin
    <3>2. /\ DOMAIN history' = DOMAIN history \cup {n} /\ revision' = revision + 1
          /\ \A i \in DOMAIN history : history'[i] = history[i]
          /\ history'[n].event = x /\ history'[n].revision = revision'
      BY <1>0, <2>5, CommitGrows
    <3>3. Added(n)
      BY <3>2 DEF Added
    <3>. QED  BY <2>2, <3>1, <3>2, <3>3
  <2>. QED  BY <2>1, <2>3, <2>4, <2>5 DEF Twin!Apply
<1>4. UNCHANGED storeVars \/ Ingest
  BY DEF AssessmentNext, AdvanceClock, Perceive, EstimateWeather, AssessRisk,
         PlanPath, Initialize, Shutdown, ReportHealth, HearReport, assessmentVars
<1>. QED  BY <1>2, <1>3, <1>4 DEF storeVars

\* A snapshot that is valid has seen no estimate that was not.
LEMMA ValidSnapshot ==
  ASSUME TwinInv, Twin!SnapshotOf(entities, revision, watermark, now).valid,
         NEW i \in DOMAIN history,
         history[i].revision > 0, history[i].event[1] = "environment"
  PROVE  EnvironmentOf(history[i].event[2]).valid
<1>1. PICK x \in TwinEventId : x = history[i].event
  BY Remembered
<1>2. WeatherKey(x[2]) \in DOMAIN entities /\ entities[WeatherKey(x[2])].event = x
  BY <1>1 DEF TwinInv, WeatherKey
<1>3. \A k \in DOMAIN entities : TwinEvent[entities[k].event].valid
  BY DEF Twin!SnapshotOf
<1>4. TwinEvent[x].valid
  BY <1>2, <1>3
<1>5. TwinEvent[x].valid = EnvironmentOf(x[2]).valid
  BY <1>1, TwinEventFields
<1>. QED  BY <1>1, <1>4, <1>5

LEMMA BadWeatherKept ==
  ASSUME EstimatesInv, RatedInv, TwinInv, BadWeatherIsNotForgotten,
         [AssessmentNext]_assessmentVars
  PROVE  BadWeatherIsNotForgotten'
<1>1. CASE AssessRisk
  <2>1. UNCHANGED history
    BY <1>1 DEF AssessRisk, storeVars
  <2>2. tracks \in TracksId /\ environments # <<>>
    BY <1>1 DEF AssessRisk, RatedInv
  <2>3. PICK e \in Estimated : e = Newest
    BY <2>2, NewestIsEstimated
  <2>4. PICK t \in TracksId : t = tracks
    BY <2>2
  <2>5. PICK s : s = Twin!SnapshotOf(entities, revision, watermark, now)
    OBVIOUS
  <2>6. PICK v \in VehicleId : Assess(s, t, EnvironmentOf(e), v)
    BY <1>1, <2>3, <2>4, <2>5 DEF AssessRisk
  <2>7. risk'.level < 2 => s.valid
    BY <2>6, RatingIsCalm
  <2>8. ASSUME risk'.level < 2, NEW i \in DOMAIN history,
               history[i].revision \in 1..risk'.revision,
               history[i].event[1] = "environment"
        PROVE  EnvironmentOf(history[i].event[2]).valid
    <3>1. history[i].revision > 0
      BY <2>8
    <3>. QED  BY <2>5, <2>7, <2>8, <3>1, ValidSnapshot
  <2>. QED  BY <2>1, <2>8 DEF BadWeatherIsNotForgotten
<1>2. CASE risk' = risk /\ history' = history
  BY <1>2 DEF BadWeatherIsNotForgotten
<1>3. ASSUME risk' = risk, NEW n, Added(n)
      PROVE  BadWeatherIsNotForgotten'
  <2>0. /\ DOMAIN history' = DOMAIN history \cup {n}
        /\ \A i \in DOMAIN history : history'[i] = history[i]
        /\ history'[n].revision = 0 \/ history'[n].revision = revision + 1
    BY <1>3 DEF Added
  <2>1. SUFFICES ASSUME risk # NoRisk, risk.level < 2, NEW i \in DOMAIN history',
                        history'[i].revision \in 1..risk.revision,
                        history'[i].event[1] = "environment"
                 PROVE  EnvironmentOf(history'[i].event[2]).valid
    BY <1>3 DEF BadWeatherIsNotForgotten
  <2>2. risk.revision \in 0..revision /\ revision \in Nat
    BY <2>1 DEF RatedInv, TwinInv
  <2>3. i # n
    BY <2>0, <2>1, <2>2
  <2>. QED  BY <2>0, <2>1, <2>3 DEF BadWeatherIsNotForgotten
<1>4. AssessRisk \/ UNCHANGED risk
  BY DEF AssessmentNext, AdvanceClock, Perceive, EstimateWeather, Ingest,
         PlanPath, Initialize, Shutdown, ReportHealth, HearReport, assessmentVars,
         Switch, SwitchWeather, SwitchRisk, SwitchPlanner, riskVars
<1>. QED  BY <1>1, <1>2, <1>3, <1>4, TwinKept

-----------------------------------------------------------------------------
(* Health.                                                                 *)

\* Which plugin is up, field by field.
LEMMA PluginUp ==
  /\ IsUp("weather") = weatherUp /\ IsUp("risk") = riskUp /\ IsUp("planner") = plannerUp
  /\ IsUp("weather")' = weatherUp' /\ IsUp("risk")' = riskUp'
  /\ IsUp("planner")' = plannerUp'
BY DEF IsUp

\* One plugin is switched, the others stay as they are.
LEMMA SwitchOne ==
  ASSUME weatherUp \in BOOLEAN, riskUp \in BOOLEAN, plannerUp \in BOOLEAN,
         NEW p \in Plugin, NEW on \in BOOLEAN, Switch(p, on)
  PROVE  /\ weatherUp' \in BOOLEAN /\ riskUp' \in BOOLEAN /\ plannerUp' \in BOOLEAN
         /\ IsUp(p)' <=> on
         /\ \A q \in Plugin : q # p => (IsUp(q)' <=> IsUp(q))
<1>1. CASE p = "weather"
  <2>1. weatherUp' = on /\ riskUp' = riskUp /\ plannerUp' = plannerUp
    BY <1>1 DEF Switch, SwitchWeather, riskVars, plannerVars
  <2>. QED  BY <1>1, <2>1, PluginUp DEF Plugin
<1>2. CASE p = "risk"
  <2>1. riskUp' = on /\ weatherUp' = weatherUp /\ plannerUp' = plannerUp
    BY <1>2 DEF Switch, SwitchRisk, weatherVars, plannerVars
  <2>. QED  BY <1>2, <2>1, PluginUp DEF Plugin
<1>3. CASE p = "planner"
  <2>1. plannerUp' = on /\ weatherUp' = weatherUp /\ riskUp' = riskUp
    BY <1>3 DEF Switch, SwitchPlanner, weatherVars, riskVars
  <2>. QED  BY <1>3, <2>1, PluginUp DEF Plugin
<1>. QED  BY <1>1, <1>2, <1>3 DEF Plugin

\* Nothing but what the health of the plugins is about.
LEMMA OthersKeepUp ==
  ASSUME ReportsInv, now \in Nat, now' \in Nat, now <= now',
         UNCHANGED <<weatherUp, riskUp, plannerUp, downAt, reports, heard>>
  PROVE  ReportsInv'
<1>1. \A p \in Plugin : IsUp(p)' = IsUp(p)
  BY PluginUp DEF Plugin
<1>2. \A r \in reports : r.checkedAt \in Nat /\ r.checkedAt <= now'
  BY DEF ReportsInv
<1>. QED  BY <1>1, <1>2 DEF ReportsInv

LEMMA InitializeKeeps ==
  ASSUME ReportsInv, Initialize
  PROVE  ReportsInv'
<1>1. PICK p \in Plugin : ~IsUp(p) /\ Switch(p, TRUE)
  BY DEF Initialize
<1>2. UNCHANGED <<now, downAt, reports, heard>>
  BY DEF Initialize, healthVars
<1>3. /\ weatherUp' \in BOOLEAN /\ riskUp' \in BOOLEAN /\ plannerUp' \in BOOLEAN
      /\ \A q \in Plugin : IsUp(q) => IsUp(q)'
      /\ IsUp(p)'
  BY <1>1, SwitchOne DEF ReportsInv
<1>4. \A q \in Plugin : IsUp(q)' \/ q \in DOMAIN downAt
  BY <1>3 DEF ReportsInv
<1>5. \A r \in reports :
        /\ r.component \in Plugin
        /\ IsUp(r.component)' \/ r.checkedAt <= downAt[r.component]
  BY <1>3 DEF ReportsInv
<1>. QED  BY <1>2, <1>3, <1>4, <1>5 DEF ReportsInv

LEMMA ShutdownKeeps ==
  ASSUME ReportsInv, now \in Nat, Shutdown
  PROVE  ReportsInv'
<1>1. PICK p \in Plugin :
        /\ IsUp(p) /\ Switch(p, FALSE)
        /\ downAt' = [q \in DOMAIN downAt \cup {p} |-> IF q = p THEN now ELSE downAt[q]]
  BY DEF Shutdown
<1>2. UNCHANGED <<now, reports, heard>>
  BY DEF Shutdown, healthVars
<1>3. /\ weatherUp' \in BOOLEAN /\ riskUp' \in BOOLEAN /\ plannerUp' \in BOOLEAN
      /\ \A q \in Plugin : q # p => (IsUp(q)' <=> IsUp(q))
  BY <1>1, SwitchOne DEF ReportsInv
<1>4. DOMAIN downAt' = DOMAIN downAt \cup {p} /\ downAt'[p] = now
  BY <1>1
<1>5. \A q \in DOMAIN downAt : q # p => downAt'[q] = downAt[q]
  BY <1>1
<1>6. \A q \in DOMAIN downAt' : downAt'[q] \in Nat
  BY <1>4, <1>5 DEF ReportsInv
<1>7. \A q \in Plugin : IsUp(q)' \/ q \in DOMAIN downAt'
  BY <1>3, <1>4 DEF ReportsInv
<1>8. ASSUME NEW r \in reports
      PROVE  IsUp(r.component)' \/ r.checkedAt <= downAt'[r.component]
  <2>1. PICK c \in Plugin : c = r.component
    BY DEF ReportsInv
  <2>2. r.checkedAt <= now /\ (IsUp(c) \/ r.checkedAt <= downAt[c])
    BY <2>1 DEF ReportsInv
  <2>3. CASE c = p
    BY <1>4, <2>1, <2>2, <2>3
  <2>4. CASE c # p
    <3>1. IsUp(c)' \/ (~IsUp(c) /\ c \in DOMAIN downAt)
      BY <1>3, <2>4 DEF ReportsInv
    <3>2. CASE IsUp(c)'
      BY <2>1, <3>2
    <3>3. CASE ~IsUp(c) /\ c \in DOMAIN downAt
      BY <1>5, <2>1, <2>2, <2>4, <3>3
    <3>. QED  BY <3>1, <3>2, <3>3
  <2>. QED  BY <2>3, <2>4
<1>. QED  BY <1>2, <1>3, <1>6, <1>7, <1>8 DEF ReportsInv

LEMMA ReportHealthKeeps ==
  ASSUME ReportsInv, now \in Nat, ReportHealth
  PROVE  ReportsInv'
<1>1. PICK p \in Plugin \cap Component :
        /\ IsUp(p)
        /\ reports' = reports \cup
             {[component |-> p, sequence |-> SequenceOf(p), checkedAt |-> now,
               status |-> "HEALTHY"]}
  BY DEF ReportHealth
<1>2. UNCHANGED <<now, weatherUp, riskUp, plannerUp, heard, downAt>>
  BY DEF ReportHealth, weatherVars, riskVars, plannerVars
<1>3. PICK new : new = [component |-> p, sequence |-> SequenceOf(p), checkedAt |-> now,
                        status |-> "HEALTHY"]
  OBVIOUS
<1>4. /\ new.component = p /\ new.checkedAt = now /\ new.status = "HEALTHY"
      /\ reports' = reports \cup {new}
  BY <1>1, <1>3
<1>5. \A q \in Plugin : IsUp(q)' = IsUp(q)
  BY <1>2, PluginUp DEF Plugin
<1>6. now <= now
  OBVIOUS
<1>7. \A r \in reports' :
        /\ r.component \in Plugin /\ r.status = "HEALTHY"
        /\ r.checkedAt \in Nat /\ r.checkedAt <= now
        /\ IsUp(r.component) \/ r.checkedAt <= downAt[r.component]
  BY <1>1, <1>4, <1>6 DEF ReportsInv
<1>. QED  BY <1>2, <1>4, <1>5, <1>7 DEF ReportsInv

LEMMA HearReportKeeps ==
  ASSUME ReportsInv, HearReport
  PROVE  ReportsInv'
<1>1. PICK r \in reports : IngestReport(r)
  BY DEF HearReport
<1>2. UNCHANGED <<now, weatherUp, riskUp, plannerUp, reports, downAt>>
  BY DEF HearReport, weatherVars, riskVars, plannerVars
<1>3. heard' = [c \in DOMAIN heard \cup {r.component} |->
                  IF c = r.component THEN r ELSE heard[c]]
  BY <1>1 DEF IngestReport
<1>4. \A c \in DOMAIN heard' : heard'[c] \in reports /\ heard'[c].component = c
  BY <1>1, <1>3 DEF ReportsInv
<1>5. \A q \in Plugin : IsUp(q)' = IsUp(q)
  BY <1>2, PluginUp DEF Plugin
<1>. QED  BY <1>2, <1>4, <1>5 DEF ReportsInv

LEMMA ReportsKept ==
  ASSUME EstimatesInv, ReportsInv, [AssessmentNext]_assessmentVars
  PROVE  ReportsInv'
<1>1. now \in Nat /\ now' \in Nat /\ now <= now'
  BY EstimatesKept
<1>2. \/ Initialize
      \/ Shutdown
      \/ ReportHealth
      \/ HearReport
      \/ UNCHANGED <<weatherUp, riskUp, plannerUp, downAt, reports, heard>>
  BY DEF AssessmentNext, AdvanceClock, Perceive, EstimateWeather, Estimate, Ingest,
         AssessRisk, Assess, PlanPath, Plan, assessmentVars, weatherVars, riskVars,
         plannerVars, healthVars
<1>. QED  BY <1>1, <1>2, InitializeKeeps, ShutdownKeeps, ReportHealthKeeps,
             HearReportKeeps, OthersKeepUp

-----------------------------------------------------------------------------
(* Planning.                                                               *)

LEMMA PlannedKept ==
  ASSUME RatedInv, PlannedInv, [AssessmentNext]_assessmentVars
  PROVE  PlannedInv'
<1>1. CASE PlanPath
  <2>1. risk # NoRisk
    BY <1>1 DEF PlanPath, Plan
  <2>2. RatingTyped(risk)
    BY <2>1 DEF RatedInv
  <2>3. PICK start, best :
          /\ start = Vehicle[risk.vehicle].position
          /\ best = Best(start, risk.constraints)
    OBVIOUS
  <2>4. path' = [status |-> IF best = {} THEN "REJECTED" ELSE "CANDIDATE",
                 points |-> IF best = {} THEN <<start, Goal>>
                            ELSE CHOOSE points \in best : TRUE,
                 revision |-> revision,
                 risk |-> risk,
                 validUntil |-> Sooner(risk.validUntil, now + PathValidFor)]
    BY <1>1, <2>3 DEF PlanPath, Plan
  <2>5. path'.risk = risk
    BY <2>4
  <2>6. path'.status = "CANDIDATE" => path'.points \in best
    BY <2>4
  <2>. QED  BY <2>2, <2>3, <2>5, <2>6 DEF PlannedInv, RatingTyped
<1>2. CASE UNCHANGED path
  BY <1>2 DEF PlannedInv, RatingTyped
<1>. QED  BY <1>1, <1>2
     DEF AssessmentNext, AdvanceClock, Perceive, EstimateWeather, Ingest, AssessRisk,
         Initialize, Shutdown, ReportHealth, HearReport, assessmentVars, plannerVars,
         Switch, SwitchWeather, SwitchRisk, SwitchPlanner

-----------------------------------------------------------------------------
(* The invariant and what it is for.                                       *)

LEMMA AssessmentStarts == AssessmentInit => AssessmentInv
<1>. SUFFICES ASSUME AssessmentInit PROVE AssessmentInv
  OBVIOUS
<1>1. /\ now = 0 /\ environments = <<>> /\ weatherUp = TRUE /\ risk = NoRisk /\ riskUp = TRUE
      /\ path = NoPath /\ plannerUp = TRUE /\ heard = [c \in {} |-> 0]
      /\ revision = 0 /\ history = <<>> /\ tracks = NoTracks /\ reports = {}
      /\ downAt = [p \in {} |-> 0]
  BY DEF AssessmentInit, ClockInit, WeatherInit, RiskInit, PlannerInit, HealthInit,
         Twin!TwinInit
<1>2. EstimatesInv
  <2>1. 0 \in 0..Horizon
    BY ClockAssumption
  <2>. QED  BY <1>1, <2>1 DEF EstimatesInv
<1>3. RatedInv
  BY <1>1 DEF RatedInv
<1>4. PlannedInv
  <2>1. path.status = "none"
    BY <1>1 DEF NoPath
  <2>. QED  BY <2>1 DEF PlannedInv
<1>5. TwinInv
  BY <1>1 DEF TwinInv
<1>6. BadWeatherIsNotForgotten
  BY <1>1 DEF BadWeatherIsNotForgotten
<1>7. ReportsInv
  <2>1. \A p \in Plugin : IsUp(p)
    BY <1>1, PluginUp DEF Plugin
  <2>. QED  BY <1>1, <2>1 DEF ReportsInv
<1>. QED  BY <1>2, <1>3, <1>4, <1>5, <1>6, <1>7 DEF AssessmentInv

LEMMA AssessmentKept ==
  AssessmentInv /\ [AssessmentNext]_assessmentVars => AssessmentInv'
<1>. SUFFICES ASSUME AssessmentInv, [AssessmentNext]_assessmentVars
              PROVE  AssessmentInv'
  OBVIOUS
<1>1. /\ EstimatesInv /\ RatedInv /\ PlannedInv /\ TwinInv
      /\ BadWeatherIsNotForgotten /\ ReportsInv
  BY DEF AssessmentInv
<1>2. EstimatesInv'
  BY <1>1, EstimatesKept
<1>3. TwinInv' /\ (revision' = revision \/ revision' = revision + 1)
  BY <1>1, TwinKept
<1>4. RatedInv'
  BY <1>1, <1>3, RatedKept
<1>5. PlannedInv'
  BY <1>1, PlannedKept
<1>6. BadWeatherIsNotForgotten'
  BY <1>1, BadWeatherKept
<1>7. ReportsInv'
  BY <1>1, ReportsKept
<1>. QED  BY <1>2, <1>3, <1>4, <1>5, <1>6, <1>7 DEF AssessmentInv

(* What is known of estimates, ratings, plans, the twin and health reports *)
(* holds of every state of app/phase4_demo.py's wiring.                    *)
THEOREM AssessmentInvariant == AssessmentSpec => []AssessmentInv
<1>. QED  BY AssessmentStarts, AssessmentKept, PTL DEF AssessmentSpec

(* Of bands HEALTHY and UNKNOWN, UNKNOWN is the worse: a system is called  *)
(* HEALTHY only when every component it has heard of still is.             *)
LEMMA HealthyMeansAll ==
  ASSUME NEW c \in DOMAIN heard, SystemStatus = "HEALTHY",
         \A d \in DOMAIN heard : heard[d].status = "HEALTHY"
  PROVE  ~(now - heard[c].checkedAt > HeartbeatTimeout)
<1>. SUFFICES ASSUME now - heard[c].checkedAt > HeartbeatTimeout PROVE FALSE
  OBVIOUS
<1>1. \A d \in DOMAIN heard : StatusOf(d) = "UNKNOWN" \/ StatusOf(d) = "HEALTHY"
  BY DEF StatusOf
<1>2. StatusOf(c) = "UNKNOWN"
  BY DEF StatusOf
<1>3. PICK statuses : statuses = {StatusOf(d) : d \in DOMAIN heard}
  OBVIOUS
<1>4. "UNKNOWN" \in statuses /\ \A t \in statuses : t = "UNKNOWN" \/ t = "HEALTHY"
  BY <1>1, <1>2, <1>3
<1>5. Severity["UNKNOWN"] = 2 /\ Severity["HEALTHY"] = 0
  BY DEF Severity
<1>6. \E s \in statuses : \A t \in statuses : Severity[t] <= Severity[s]
  BY <1>4, <1>5
<1>7. "HEALTHY" = CHOOSE s \in statuses : \A t \in statuses : Severity[t] <= Severity[s]
  BY <1>3 DEF SystemStatus
<1>8. Severity["UNKNOWN"] <= Severity["HEALTHY"]
  BY <1>4, <1>6, <1>7
<1>. QED  BY <1>5, <1>8

(* However late its reports come in, a plugin that was shut down and stays *)
(* down does not leave the system HEALTHY for longer than the timeout.     *)
THEOREM SilenceCounts == AssessmentSpec => []SilenceIsSeen
<1>1. AssessmentInv => SilenceIsSeen
  <2>. SUFFICES ASSUME AssessmentInv, SystemStatus = "HEALTHY", NEW p \in DOMAIN heard,
                       ~IsUp(p)
                PROVE  now - downAt[p] <= HeartbeatTimeout
    BY DEF SilenceIsSeen
  <2>1. ReportsInv /\ EstimatesInv
    BY DEF AssessmentInv
  <2>2. PICK r \in reports : r = heard[p] /\ r.component = p
    BY <2>1 DEF ReportsInv
  <2>3. /\ r.checkedAt \in Nat /\ r.checkedAt <= downAt[p] /\ p \in Plugin
        /\ \A d \in DOMAIN heard : heard[d].status = "HEALTHY"
    BY <2>1, <2>2 DEF ReportsInv
  <2>4. downAt[p] \in Nat
    BY <2>1, <2>3 DEF ReportsInv
  <2>5. ~(now - r.checkedAt > HeartbeatTimeout)
    BY <2>2, <2>3, HealthyMeansAll
  <2>6. now \in Nat /\ HeartbeatTimeout \in Nat
    BY <2>1, HealthAssumption, ClockAssumption DEF EstimatesInv
  <2>. QED  BY <2>3, <2>4, <2>5, <2>6
<1>. QED  BY <1>1, AssessmentInvariant, PTL

(* A rating below HIGH that is still valid rests on samples, each of them  *)
(* younger than freshness and the two validities together.                 *)
THEOREM CalmIsRecent == AssessmentSpec => []CalmRestsOnRecentWeather
<1>1. AssessmentInv => CalmRestsOnRecentWeather
  <2>. SUFFICES ASSUME AssessmentInv, risk # NoRisk, risk.level < 2, now < risk.validUntil
                PROVE  /\ risk.environment.provenance # {}
                       /\ \A o \in risk.environment.provenance :
                            now - Obs[o].observedAt
                              < Freshness + WeatherValidFor + RiskValidFor
    BY DEF CalmRestsOnRecentWeather
  <2>1. EstimatesInv /\ RatedInv
    BY DEF AssessmentInv
  <2>2. CalmWhenRated /\ risk.at \in Nat /\ risk.validUntil = risk.at + RiskValidFor
    BY <2>1 DEF RatedInv
  <2>3. /\ risk.environment.provenance # {}
        /\ \A o \in risk.environment.provenance :
             o \in ObsId /\ risk.at - Obs[o].observedAt < Freshness + WeatherValidFor
    BY <2>2 DEF CalmWhenRated
  <2>4. \A o \in ObsId : Obs[o].observedAt \in Nat
    BY WeatherAssumption DEF ObsRecord
  <2>5. now \in Nat /\ Freshness \in Nat /\ WeatherValidFor \in Nat
    BY <2>1, WeatherAssumption, ClockAssumption DEF EstimatesInv
  <2>6. RiskValidFor \in Nat
    BY RiskLimits
  <2>. QED  BY <2>2, <2>3, <2>4, <2>5, <2>6
<1>. QED  BY <1>1, AssessmentInvariant, PTL

(* Once an invalid estimate is in the twin, no rating made of it comes     *)
(* below HIGH.                                                             *)
THEOREM BadWeatherStays == AssessmentSpec => []BadWeatherIsNotForgotten
<1>1. AssessmentInv => BadWeatherIsNotForgotten
  BY DEF AssessmentInv
<1>. QED  BY <1>1, AssessmentInvariant, PTL

-----------------------------------------------------------------------------
(* The closest approach: the square of a distance that changes linearly is *)
(* a parabola P + 2 t B + t^2 V.                                           *)

LEMMA Expand ==
  ASSUME NEW p1 \in Int, NEW p2 \in Int, NEW p3 \in Int,
         NEW d1 \in Int, NEW d2 \in Int, NEW d3 \in Int, NEW t \in Int
  PROVE    (p1 + d1 * t) * (p1 + d1 * t) + (p2 + d2 * t) * (p2 + d2 * t)
             + (p3 + d3 * t) * (p3 + d3 * t)
         = (p1 * p1 + p2 * p2 + p3 * p3) + 2 * (t * (p1 * d1 + p2 * d2 + p3 * d3))
             + (t * t) * (d1 * d1 + d2 * d2 + d3 * d3)
OBVIOUS

\* Receding: it is lowest where it begins.
LEMMA LowestAtFirst ==
  ASSUME NEW P \in Int, NEW B \in Int, NEW V \in Int, NEW t \in Int,
         V >= 0, B >= 0, t >= 0
  PROVE  P <= P + 2 * (t * B) + (t * t) * V
OBVIOUS

\* Closest beyond the horizon: it is lowest at the horizon.
LEMMA LowestAtLast ==
  ASSUME NEW P \in Int, NEW B \in Int, NEW V \in Int, NEW t \in Int, NEW H \in Int,
         V >= 0, -B >= H * V, t <= H
  PROVE  P + 2 * (H * B) + (H * H) * V <= P + 2 * (t * B) + (t * t) * V
OBVIOUS

\* In between: it is lowest at its vertex.
LEMMA LowestAtVertex ==
  ASSUME NEW P \in Int, NEW B \in Int, NEW V \in Int, NEW t \in Int, NEW m \in Int,
         V >= 0, -B = V * m
  PROVE  P + 2 * (m * B) + (m * m) * V <= P + 2 * (t * B) + (t * t) * V
OBVIOUS

LEMMA EvenQuotient ==
  ASSUME NEW a \in Nat, NEW b \in Nat, b > 0, a % b = 0
  PROVE  a \div b \in Nat /\ a = b * (a \div b)
OBVIOUS

LEMMA Cancel ==
  ASSUME NEW a \in Int, NEW b \in Int, NEW V \in Int, V > 0, V * a < b * V
  PROVE  a < b
OBVIOUS

\* Only the null vector has no length.
LEMMA NoLength ==
  ASSUME NEW a \in Int, NEW b \in Int, NEW c \in Int, a * a + b * b + c * c = 0
  PROVE  a = 0 /\ b = 0 /\ c = 0
OBVIOUS

LEMMA VectorFields ==
  ASSUME NEW a \in Vector
  PROVE  a[1] \in Int /\ a[2] \in Int /\ a[3] \in Int
BY DEF Vector

\* The operators of the vectors stay among integers and vectors.
LEMMA VectorTypes ==
  ASSUME NEW a \in Vector, NEW b \in Vector
  PROVE  /\ Minus(a, b) \in Vector /\ Dot(a, b) \in Int
         /\ Square(a) \in Int /\ Square(a) >= 0
<1>1. \A i \in 1..3 : a[i] \in Int /\ b[i] \in Int /\ a[i] - b[i] \in Int
  BY DEF Vector
<1>2. Minus(a, b) \in Vector
  BY <1>1 DEF Minus, Vector
<1>3. Dot(a, b) \in Int
  BY VectorFields DEF Dot
<1>4. Square(a) \in Int /\ Square(a) >= 0
  BY VectorFields DEF Square, Dot
<1>. QED  BY <1>2, <1>3, <1>4

\* Where a target and a vehicle are and how they move.
LEMMA Kinematics ==
  ASSUME NEW x \in TracksId, NEW y \in VehicleId, NEW g \in Tracks[x].targets
  PROVE  /\ g.position \in Vector /\ g.velocity \in Vector /\ g.margin \in Nat
         /\ Vehicle[y].position \in Vector /\ Vehicle[y].velocity \in Vector
         /\ Gap(g, Vehicle[y]) \in Vector /\ Drift(g, Vehicle[y]) \in Vector
<1>1. g \in TargetRecord
  BY RiskAssumption DEF TracksRecord
<1>2. Vehicle[y] \in VehicleRecord
  BY RiskAssumption
<1>3. /\ g.position \in Vector /\ g.velocity \in Vector /\ g.margin \in Nat
      /\ Vehicle[y].position \in Vector /\ Vehicle[y].velocity \in Vector
  BY <1>1, <1>2 DEF TargetRecord, VehicleRecord
<1>. QED  BY <1>3, VectorTypes DEF Gap, Drift

LEMMA ClosestApproach ==
  ASSUME NEW x \in TracksId, NEW y \in VehicleId, NEW g \in Tracks[x].targets
  PROVE  /\ Tcpa(g, Vehicle[y]) \in 0..CollisionHorizon
         /\ \A t \in 0..CollisionHorizon :
              /\ Apart2(g, Vehicle[y], t) \in Int
              /\ Apart2(g, Vehicle[y], Tcpa(g, Vehicle[y])) <= Apart2(g, Vehicle[y], t)
<1>1. PICK v : v = Vehicle[y]
  OBVIOUS
<1>2. PICK p \in Vector, d \in Vector : p = Gap(g, v) /\ d = Drift(g, v)
  BY <1>1, Kinematics
<1>3. PICK P \in Int, B \in Int, V \in Int : P = Square(p) /\ B = Dot(p, d) /\ V = Square(d)
  BY VectorTypes
<1>4. V >= 0
  BY <1>3, VectorTypes
<1>5. PICK H \in Nat : H = CollisionHorizon
  BY RiskLimits
<1>6. ASSUME NEW t \in Int
      PROVE  /\ Apart2(g, v, t) = P + 2 * (t * B) + (t * t) * V
             /\ Apart2(g, v, t) \in Int
  <2>1. Apart2(g, v, t) = (p[1] + d[1] * t) * (p[1] + d[1] * t)
          + (p[2] + d[2] * t) * (p[2] + d[2] * t) + (p[3] + d[3] * t) * (p[3] + d[3] * t)
    BY <1>2 DEF Apart2, Along, Square, Dot
  <2>2. Apart2(g, v, t) = P + 2 * (t * B) + (t * t) * V
    BY <1>3, <2>1, VectorFields, Expand DEF Square, Dot
  <2>. QED  BY <2>2
<1>7. Tcpa(g, v) = IF V = 0 \/ -B <= 0 THEN 0
                   ELSE IF -B >= H * V THEN H ELSE (-B) \div V
  BY <1>2, <1>3, <1>5 DEF Tcpa
<1>8. CASE V = 0 \/ -B <= 0
  <2>1. Tcpa(g, v) = 0
    BY <1>7, <1>8
  <2>2. B >= 0
    <3>1. CASE V = 0
      <4>1. d[1] = 0 /\ d[2] = 0 /\ d[3] = 0
        BY <1>3, <3>1, VectorFields, NoLength DEF Square, Dot
      <4>2. B = p[1] * 0 + p[2] * 0 + p[3] * 0
        BY <1>3, <4>1 DEF Dot
      <4>. QED  BY <4>2, VectorFields
    <3>2. CASE -B <= 0
      BY <3>2
    <3>. QED  BY <1>8, <3>1, <3>2
  <2>3. Apart2(g, v, 0) = P
    BY <1>6
  <2>4. ASSUME NEW t \in 0..H
        PROVE  P <= Apart2(g, v, t)
    <3>1. t \in Int /\ t >= 0
      OBVIOUS
    <3>2. P <= P + 2 * (t * B) + (t * t) * V
      BY <1>4, <2>2, <3>1, LowestAtFirst
    <3>. QED  BY <1>6, <3>1, <3>2
  <2>. QED  BY <1>1, <1>5, <1>6, <2>1, <2>3, <2>4
<1>9. CASE ~(V = 0 \/ -B <= 0) /\ -B >= H * V
  <2>1. Tcpa(g, v) = H
    BY <1>7, <1>9
  <2>2. ASSUME NEW t \in 0..H
        PROVE  Apart2(g, v, H) <= Apart2(g, v, t)
    <3>1. t \in Int /\ t <= H /\ H \in Int
      OBVIOUS
    <3>2. P + 2 * (H * B) + (H * H) * V <= P + 2 * (t * B) + (t * t) * V
      BY <1>4, <1>9, <3>1, LowestAtLast
    <3>. QED  BY <1>6, <3>1, <3>2
  <2>. QED  BY <1>1, <1>5, <1>6, <2>1, <2>2
<1>10. CASE ~(V = 0 \/ -B <= 0) /\ ~(-B >= H * V)
  <2>1. PICK m : m = (-B) \div V
    OBVIOUS
  <2>2. Tcpa(g, v) = m
    BY <1>7, <1>10, <2>1
  <2>3. (-B) % V = 0
    <3>1. d # <<0, 0, 0>>
      BY <1>3, <1>10 DEF Square, Dot
    <3>2. -B \in 1..(H * V)
      BY <1>10
    <3>. QED  BY <1>1, <1>2, <1>3, <1>5, <3>1, <3>2, EvenGeometry
  <2>4. m \in Nat /\ -B = V * m
    BY <1>4, <1>10, <2>1, <2>3, EvenQuotient
  <2>5. m < H
    BY <1>4, <1>10, <2>4, Cancel
  <2>6. \A t \in 0..H : Apart2(g, v, m) <= Apart2(g, v, t)
    BY <1>4, <1>6, <2>4, LowestAtVertex
  <2>. QED  BY <1>1, <1>5, <1>6, <2>2, <2>4, <2>5, <2>6
<1>. QED  BY <1>8, <1>9, <1>10

\* The protected distance is a number, the root being exact.
LEMMA ProtectionTyped ==
  ASSUME NEW x \in TracksId, NEW y \in VehicleId, NEW g \in Tracks[x].targets
  PROVE  Protection(g, Vehicle[y]) \in Nat
<1>1. PICK square \in Nat : square = Square(Drift(g, Vehicle[y]))
  BY Kinematics, VectorTypes
<1>2. \E n \in 0..square : IsRoot(n, square)
  BY <1>1, EvenGeometry
<1>3. PICK root \in Nat : root = Root(square)
  BY <1>2 DEF Root
<1>4. PICK margin \in Nat : margin = g.margin
  BY Kinematics
<1>5. MinSeparation \in Nat /\ ReactionTime \in Nat
  BY RiskLimits
<1>6. MinSeparation + root * ReactionTime + margin \in Nat
  BY <1>5
<1>. QED  BY <1>1, <1>3, <1>4, <1>6 DEF Protection

\* A target intrudes when it is too close at any instant of the horizon.
LEMMA IntrudesSometime ==
  ASSUME NEW x \in TracksId, NEW y \in VehicleId, NEW g \in Tracks[x].targets
  PROVE  Intrudes(g, Vehicle[y]) <=>
           \E t \in 0..CollisionHorizon :
             Apart2(g, Vehicle[y], t) < Protection(g, Vehicle[y]) * Protection(g, Vehicle[y])
<1>1. PICK r \in Nat : r = Protection(g, Vehicle[y])
  BY ProtectionTyped
<1>2. PICK square \in Nat : square = r * r
  BY <1>1
<1>3. PICK m \in 0..CollisionHorizon : m = Tcpa(g, Vehicle[y])
  BY ClosestApproach
<1>4. /\ Apart2(g, Vehicle[y], m) \in Int
      /\ \A t \in 0..CollisionHorizon :
           /\ Apart2(g, Vehicle[y], t) \in Int
           /\ Apart2(g, Vehicle[y], m) <= Apart2(g, Vehicle[y], t)
  BY <1>3, ClosestApproach
<1>5. Intrudes(g, Vehicle[y]) <=> Apart2(g, Vehicle[y], m) < square
  BY <1>1, <1>2, <1>3 DEF Intrudes
<1>6. ASSUME NEW t \in 0..CollisionHorizon, Apart2(g, Vehicle[y], t) < square
      PROVE  Apart2(g, Vehicle[y], m) < square
  BY <1>4, <1>6
<1>. QED  BY <1>1, <1>2, <1>3, <1>5, <1>6

(* A rating is CRITICAL for collision exactly when some target that is not *)
(* LOST comes too close at some instant of the horizon.                    *)
THEOREM CollisionsFound == AssessmentSpec => []ClosestApproachFound
<1>1. AssessmentInv => ClosestApproachFound
  <2>. SUFFICES ASSUME AssessmentInv, risk # NoRisk
                PROVE  risk.collision = 3 <=>
                         \E g \in Live(risk.tracks), t \in 0..CollisionHorizon :
                           Apart2(g, Vehicle[risk.vehicle], t)
                             < Protection(g, Vehicle[risk.vehicle])
                                 * Protection(g, Vehicle[risk.vehicle])
    BY DEF ClosestApproachFound
  <2>1. RatingTyped(risk)
    BY DEF AssessmentInv, RatedInv
  <2>2. PICK x \in TracksId, y \in VehicleId : x = risk.tracks /\ y = risk.vehicle
    BY <2>1 DEF RatingTyped
  <2>3. risk.collision = CollisionBandOf(x, y)
    BY <2>1, <2>2 DEF RatingTyped
  <2>4. PICK S : S = {0} \cup {CollisionBand(g, Vehicle[y]) : g \in Live(x)}
    OBVIOUS
  <2>5. S \in SUBSET Band /\ S # {}
    BY <2>4 DEF CollisionBand, Band
  <2>6. CollisionBandOf(x, y) = Max(S)
    BY <2>4 DEF CollisionBandOf
  <2>7. Max(S) = 3 <=> 3 \in S
    <3>1. PICK m \in S : m = Max(S) /\ \A b \in S : b <= m
      BY <2>5, WorstBand
    <3>2. m = 0 \/ m = 1 \/ m = 2 \/ m = 3
      BY <2>5 DEF Band
    <3>. QED  BY <3>1, <3>2
  <2>8. 3 \in S <=> \E g \in Live(x) : Intrudes(g, Vehicle[y])
    BY <2>4 DEF CollisionBand
  <2>9. \A g \in Live(x) : g \in Tracks[x].targets
    BY DEF Live
  <2>10. \A g \in Live(x) :
           Intrudes(g, Vehicle[y]) <=>
             \E t \in 0..CollisionHorizon :
               Apart2(g, Vehicle[y], t) < Protection(g, Vehicle[y]) * Protection(g, Vehicle[y])
    BY <2>9, IntrudesSometime
  <2>. QED  BY <2>2, <2>3, <2>6, <2>7, <2>8, <2>10
<1>. QED  BY <1>1, AssessmentInvariant, PTL

-----------------------------------------------------------------------------
(* The way planned.  A leg goes from a to b = a + d; u = c - a leads from  *)
(* its beginning to a point c, and U = |u|^2, F = u.d, L = |d|^2.          *)

\* What is best is feasible, and is straight or a detour.
LEMMA BestIsFeasible ==
  ASSUME NEW start, NEW constraints, NEW points \in Best(start, constraints)
  PROVE  /\ Feasible(points, constraints)
         /\ points = <<start, Goal>> \/ \E y : points = Detour(start, y)
<1>1. CASE Feasible(<<start, Goal>>, constraints)
  BY <1>1 DEF Best
<1>2. CASE ~Feasible(<<start, Goal>>, constraints)
  <2>1. PICK side : Detours(start, constraints) =
                      [i \in DOMAIN side |-> Detour(start, side[i])]
    BY DEF Detours
  <2>2. PICK i \in DOMAIN side :
          /\ points = Detours(start, constraints)[i]
          /\ Feasible(Detours(start, constraints)[i], constraints)
    BY <1>2, <2>1 DEF Best
  <2>. QED  BY <2>1, <2>2
<1>. QED  BY <1>1, <1>2

\* It has two or four points, the vehicle's and the goal's at its ends.
LEMMA BestEnds ==
  ASSUME NEW start, NEW constraints, NEW points \in Best(start, constraints)
  PROVE  /\ points[1] = start /\ Last(points) = Goal
         /\ Len(points) \in Nat /\ DOMAIN points = 1..Len(points)
<1>1. CASE points = <<start, Goal>>
  BY <1>1 DEF Last
<1>2. ASSUME NEW y, points = Detour(start, y)
      PROVE  /\ points[1] = start /\ Last(points) = Goal
             /\ Len(points) \in Nat /\ DOMAIN points = 1..Len(points)
  <2>1. PICK p, q : points = <<start, p, q, Goal>>
    BY <1>2 DEF Detour
  <2>. QED  BY <2>1 DEF Last
<1>. QED  BY <1>1, <1>2, BestIsFeasible

\* The three cases of KeepsOff, each at a point k quarters along the leg.
LEMMA BeforeTheFoot ==
  ASSUME NEW U \in Int, NEW F \in Int, NEW L \in Int, NEW D \in Int, NEW k \in 0..4,
         L >= 0, F <= 0, U >= D * D
  PROVE  16 * U - 8 * (k * F) + (k * k) * L >= (4 * D) * (4 * D)
OBVIOUS

LEMMA BehindTheFoot ==
  ASSUME NEW U \in Int, NEW F \in Int, NEW L \in Int, NEW D \in Int, NEW k \in 0..4,
         L >= 0, F >= L, U - 2 * F + L >= D * D
  PROVE  16 * U - 8 * (k * F) + (k * k) * L >= (4 * D) * (4 * D)
OBVIOUS

LEMMA AroundTheFoot ==
  ASSUME NEW U \in Int, NEW F \in Int, NEW L \in Int, NEW D \in Int, NEW k \in 0..4,
         F > 0, F < L, U * L - F * F >= D * D * L
  PROVE  16 * U - 8 * (k * F) + (k * k) * L >= (4 * D) * (4 * D)
<1>1. PICK W \in Int : W = 16 * U - 8 * (k * F) + (k * k) * L
  OBVIOUS
<1>2. W * L = 16 * (U * L - F * F) + (4 * F - k * L) * (4 * F - k * L)
  BY <1>1
<1>3. (4 * F - k * L) * (4 * F - k * L) >= 0
  OBVIOUS
<1>4. PICK E \in Int : E = (4 * D) * (4 * D)
  OBVIOUS
<1>5. W * L >= E * L
  BY <1>2, <1>3, <1>4
<1>6. L > 0
  OBVIOUS
<1>7. W >= E
  BY <1>5, <1>6
<1>. QED  BY <1>1, <1>4, <1>7

\* Squares of a point on a leg, of a leg and of its end, as U, F and L say.
LEMMA QuarterSquare ==
  ASSUME NEW u1 \in Int, NEW u2 \in Int, NEW u3 \in Int,
         NEW d1 \in Int, NEW d2 \in Int, NEW d3 \in Int, NEW k \in Int
  PROVE    (4 * (-u1) + k * d1) * (4 * (-u1) + k * d1)
             + (4 * (-u2) + k * d2) * (4 * (-u2) + k * d2)
             + (4 * (-u3) + k * d3) * (4 * (-u3) + k * d3)
         = 16 * (u1 * u1 + u2 * u2 + u3 * u3) - 8 * (k * (u1 * d1 + u2 * d2 + u3 * d3))
             + (k * k) * (d1 * d1 + d2 * d2 + d3 * d3)
OBVIOUS

LEMMA EndSquare ==
  ASSUME NEW u1 \in Int, NEW u2 \in Int, NEW u3 \in Int,
         NEW d1 \in Int, NEW d2 \in Int, NEW d3 \in Int
  PROVE    (u1 - d1) * (u1 - d1) + (u2 - d2) * (u2 - d2) + (u3 - d3) * (u3 - d3)
         = (u1 * u1 + u2 * u2 + u3 * u3) - 2 * (u1 * d1 + u2 * d2 + u3 * d3)
             + (d1 * d1 + d2 * d2 + d3 * d3)
OBVIOUS

\* A leg that keeps off a point keeps off it at every quarter.
LEMMA KeepsOffQuarters ==
  ASSUME NEW a, NEW b, \A i \in 1..3 : a[i] \in Int /\ b[i] \in Int,
         NEW c \in Vector, NEW D \in Nat,
         KeepsOff(<<a, b>>, c, D), NEW q \in Quarters(<<a, b>>, c)
  PROVE  Square(q) >= (4 * D) * (4 * D)
<1>1. PICK k \in 0..4 : q = [i \in 1..3 |-> 4 * (a[i] - c[i]) + k * (b[i] - a[i])]
  BY DEF Quarters
<1>2. PICK u \in Vector, d \in Vector : u = Minus(c, a) /\ d = Minus(b, a)
  <2>1. \A i \in 1..3 : c[i] - a[i] \in Int /\ b[i] - a[i] \in Int
    BY DEF Vector
  <2>. QED  BY <2>1 DEF Minus, Vector
<1>3. PICK U \in Int, F \in Int, L \in Int : U = Square(u) /\ F = Dot(u, d) /\ L = Square(d)
  BY VectorTypes
<1>4. L >= 0
  BY <1>3, VectorTypes
<1>5. /\ a[1] \in Int /\ a[2] \in Int /\ a[3] \in Int
      /\ b[1] \in Int /\ b[2] \in Int /\ b[3] \in Int
      /\ c[1] \in Int /\ c[2] \in Int /\ c[3] \in Int
      /\ u[1] \in Int /\ u[2] \in Int /\ u[3] \in Int
      /\ d[1] \in Int /\ d[2] \in Int /\ d[3] \in Int
  BY VectorFields
<1>6. /\ u[1] = c[1] - a[1] /\ u[2] = c[2] - a[2] /\ u[3] = c[3] - a[3]
      /\ d[1] = b[1] - a[1] /\ d[2] = b[2] - a[2] /\ d[3] = b[3] - a[3]
  BY <1>2 DEF Minus
<1>7. /\ q[1] = 4 * (-u[1]) + k * d[1] /\ q[2] = 4 * (-u[2]) + k * d[2]
      /\ q[3] = 4 * (-u[3]) + k * d[3]
  <2>1. /\ q[1] = 4 * (a[1] - c[1]) + k * (b[1] - a[1])
        /\ q[2] = 4 * (a[2] - c[2]) + k * (b[2] - a[2])
        /\ q[3] = 4 * (a[3] - c[3]) + k * (b[3] - a[3])
    BY <1>1
  <2>2. a[1] - c[1] = -u[1] /\ a[2] - c[2] = -u[2] /\ a[3] - c[3] = -u[3]
    BY <1>5, <1>6
  <2>. QED  BY <1>6, <2>1, <2>2
<1>8. Square(q) = 16 * U - 8 * (k * F) + (k * k) * L
  <2>1. k \in Int
    OBVIOUS
  <2>. QED  BY <1>3, <1>5, <1>7, <2>1, QuarterSquare DEF Square, Dot
<1>9. Square(Minus(c, b)) = U - 2 * F + L
  <2>1. /\ Minus(c, b)[1] = u[1] - d[1] /\ Minus(c, b)[2] = u[2] - d[2]
        /\ Minus(c, b)[3] = u[3] - d[3]
    <3>1. /\ Minus(c, b)[1] = c[1] - b[1] /\ Minus(c, b)[2] = c[2] - b[2]
          /\ Minus(c, b)[3] = c[3] - b[3]
      BY DEF Minus
    <3>2. u[1] - d[1] = c[1] - b[1] /\ u[2] - d[2] = c[2] - b[2] /\ u[3] - d[3] = c[3] - b[3]
      BY ONLY <1>5, <1>6
    <3>. QED  BY <3>1, <3>2
  <2>2. Square(Minus(c, b)) = (u[1] - d[1]) * (u[1] - d[1]) + (u[2] - d[2]) * (u[2] - d[2])
                                 + (u[3] - d[3]) * (u[3] - d[3])
    BY <2>1 DEF Square, Dot
  <2>3. /\ U = u[1] * u[1] + u[2] * u[2] + u[3] * u[3]
        /\ F = u[1] * d[1] + u[2] * d[2] + u[3] * d[3]
        /\ L = d[1] * d[1] + d[2] * d[2] + d[3] * d[3]
    BY <1>3 DEF Square, Dot
  <2>. QED  BY ONLY <1>5, <2>2, <2>3, EndSquare
<1>10. IF F <= 0 THEN U >= D * D
       ELSE IF F >= L THEN U - 2 * F + L >= D * D
       ELSE U * L - F * F >= D * D * L
  BY <1>2, <1>3, <1>9 DEF KeepsOff
<1>11. D \in Int
  OBVIOUS
<1>12. CASE F <= 0
  BY <1>4, <1>8, <1>10, <1>11, <1>12, BeforeTheFoot
<1>13. CASE ~(F <= 0) /\ F >= L
  BY <1>4, <1>8, <1>10, <1>11, <1>13, BehindTheFoot
<1>14. CASE ~(F <= 0) /\ ~(F >= L)
  <2>1. F > 0 /\ F < L
    BY <1>14
  <2>. QED  BY <1>8, <1>10, <1>11, <1>14, <2>1, AroundTheFoot
<1>. QED  BY <1>12, <1>13, <1>14

\* Between two points inside the geofence one stays inside.
LEMMA StaysInside ==
  ASSUME NEW low \in Int, NEW high \in Int, NEW a \in low..high, NEW b \in low..high,
         NEW k \in 0..4
  PROVE  4 * (a - 0) + k * (b - a) \in (4 * low)..(4 * high)
<1>1. k = 0 \/ k = 1 \/ k = 2 \/ k = 3 \/ k = 4
  OBVIOUS
<1>. QED  BY <1>1

\* The constraints of a rating are exclusions with a centre and a radius.
LEMMA ConstraintFields ==
  ASSUME NEW x \in TracksId, NEW y \in VehicleId, NEW constraints \in Constraints(x, y),
         NEW i \in DOMAIN constraints
  PROVE  constraints[i].center \in Vector /\ constraints[i].radius \in Nat
<1>1. PICK g \in Live(x) : constraints = <<ExclusionOf(g, Vehicle[y])>>
  BY DEF Constraints, Worst
<1>2. g \in Tracks[x].targets
  BY DEF Live
<1>3. constraints[i] = ExclusionOf(g, Vehicle[y])
  BY <1>1
<1>4. PICK m \in Nat : m = Tcpa(g, Vehicle[y])
  BY <1>2, ClosestApproach, RiskLimits
<1>5. PICK p \in Vector, w \in Vector : p = g.position /\ w = g.velocity
  BY <1>2, Kinematics
<1>6. Along(p, w, m) \in Vector
  <2>1. \A j \in 1..3 : p[j] + w[j] * m \in Int
    BY DEF Vector
  <2>. QED  BY <2>1 DEF Along, Vector
<1>7. Protection(g, Vehicle[y]) \in Nat
  BY <1>2, ProtectionTyped
<1>. QED  BY <1>3, <1>4, <1>5, <1>6, <1>7 DEF ExclusionOf

(* A path that is offered leads from the vehicle to the goal, keeps its    *)
(* distance from every exclusion all along its legs, and stays inside the  *)
(* geofence.                                                               *)
THEOREM OfferedPathsAreClear == AssessmentSpec => []PlannedPathClear
<1>1. AssessmentInv => PlannedPathClear
  <2>. SUFFICES ASSUME AssessmentInv, path.status = "CANDIDATE"
                PROVE  PlannedPathClear
    BY DEF PlannedPathClear
  <2>1. RatingTyped(path.risk)
    BY DEF AssessmentInv, PlannedInv
  <2>2. PICK start, constraints, points :
          /\ start = Vehicle[path.risk.vehicle].position
          /\ constraints = path.risk.constraints /\ points = path.points
    OBVIOUS
  <2>3. points \in Best(start, constraints)
    BY <2>2 DEF AssessmentInv, PlannedInv
  <2>4. Feasible(points, constraints)
    BY <2>3, BestIsFeasible
  <2>5. /\ points[1] = start /\ Last(points) = Goal
        /\ Len(points) \in Nat /\ DOMAIN points = 1..Len(points)
    BY <2>3, BestEnds
  <2>6. /\ FenceMin[1] \in Int /\ FenceMin[2] \in Int /\ FenceMin[3] \in Int
        /\ FenceMax[1] \in Int /\ FenceMax[2] \in Int /\ FenceMax[3] \in Int
    BY PlannerAssumption, VectorFields
  <2>7. PICK clearance \in Nat : clearance = Clearance
    BY PlannerAssumption
  <2>8. ASSUME NEW leg \in Legs(points)
        PROVE  /\ \A i \in DOMAIN constraints : \A q \in Quarters(leg, constraints[i].center) :
                    Square(q) >= (4 * (constraints[i].radius + Clearance))
                                   * (4 * (constraints[i].radius + Clearance))
               /\ \A q \in Quarters(leg, <<0, 0, 0>>), axis \in 1..3 :
                    q[axis] \in (4 * FenceMin[axis])..(4 * FenceMax[axis])
    <3>1. PICK n \in 1..(Len(points) - 1) : leg = <<points[n], points[n + 1]>>
      BY DEF Legs
    <3>2. n \in DOMAIN points /\ n + 1 \in DOMAIN points
      BY <2>5
    <3>3. PICK a, b : a = points[n] /\ b = points[n + 1]
      OBVIOUS
    <3>4. \A axis \in 1..3 : /\ a[axis] \in FenceMin[axis]..FenceMax[axis]
                             /\ b[axis] \in FenceMin[axis]..FenceMax[axis]
      BY <2>4, <3>2, <3>3 DEF Feasible, InGeofence
    <3>5. ASSUME NEW i \in DOMAIN constraints, NEW q \in Quarters(leg, constraints[i].center)
          PROVE  Square(q) >= (4 * (constraints[i].radius + Clearance))
                                * (4 * (constraints[i].radius + Clearance))
      <4>1. PICK c \in Vector, r \in Nat : c = constraints[i].center /\ r = constraints[i].radius
        BY <2>1, <2>2, ConstraintFields DEF RatingTyped
      <4>2. KeepsOff(<<a, b>>, c, r + Clearance)
        BY <2>4, <3>1, <3>3, <4>1 DEF Feasible, CollisionFree
      <4>3. PICK D \in Nat : D = r + Clearance
        BY <2>7
      <4>4. \A j \in 1..3 : a[j] \in Int /\ b[j] \in Int
        <5>1. \A j \in 1..3 : FenceMin[j] \in Int /\ FenceMax[j] \in Int
          BY PlannerAssumption DEF Vector
        <5>. QED  BY <3>4, <5>1, SMTT(30)
      <4>. QED  BY <3>1, <3>3, <4>1, <4>2, <4>3, <4>4, KeepsOffQuarters
    <3>6. ASSUME NEW q \in Quarters(leg, <<0, 0, 0>>), NEW axis \in 1..3
          PROVE  q[axis] \in (4 * FenceMin[axis])..(4 * FenceMax[axis])
      <4>1. PICK k \in 0..4 :
              q = [j \in 1..3 |-> 4 * (leg[1][j] - <<0, 0, 0>>[j])
                                    + k * (leg[2][j] - leg[1][j])]
        BY DEF Quarters
      <4>2. axis = 1 \/ axis = 2 \/ axis = 3
        OBVIOUS
      <4>3. <<0, 0, 0>>[axis] = 0
        BY <4>2
      <4>4. q[axis] = 4 * (a[axis] - 0) + k * (b[axis] - a[axis])
        BY <3>1, <3>3, <4>1, <4>3
      <4>5. PICK low \in Int, high \in Int : low = FenceMin[axis] /\ high = FenceMax[axis]
        BY <2>6, <4>2
      <4>6. PICK p \in low..high, r \in low..high : p = a[axis] /\ r = b[axis]
        BY <3>4, <4>5
      <4>7. 4 * (p - 0) + k * (r - p) \in (4 * low)..(4 * high)
        BY StaysInside
      <4>. QED  BY <4>4, <4>5, <4>6, <4>7
    <3>. QED  BY <3>5, <3>6
  <2>. QED  BY <2>2, <2>5, <2>8 DEF PlannedPathClear
<1>. QED  BY <1>1, AssessmentInvariant, PTL
=============================================================================
