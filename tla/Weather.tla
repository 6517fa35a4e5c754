------------------------------ MODULE Weather ------------------------------
(***************************************************************************)
(* WeatherEstimatorPlugin (src/low_altitude_ai/weather/estimator.py): the  *)
(* samples of one call in, one estimate of the environment out, valid for  *)
(* a while.  Missing weather is the worst weather.                         *)
(*                                                                         *)
(* Of the fused numbers only the band of risk is kept in which the worst   *)
(* of the risk factors lies, from 0 (LOW) to 3 (CRITICAL).                 *)
(***************************************************************************)
EXTENDS SimClock, Sequences, Functions, FiniteSetsExt

CONSTANTS
  ObsId,            \* weather samples
  Obs,              \* their contents
  Batches,          \* bound: the sequences of samples estimate() is given
  Freshness,        \* WeatherEstimatorConfig.freshness_s
  WeatherValidFor,  \* .valid_for_s
  MaxEstimates      \* bound: estimates in all

Band == 0..3
Unusable == 3       \* band of the uncertainty factor when nothing is known

(* "weather": a WEATHER sensor/1.0 event; "sane": it passes the physical   *)
(* checks and has weight.  "alone" is the band of its own factors; "peak"  *)
(* that of gust, precipitation and visibility, of which fusion takes the   *)
(* worst while it averages everything else.                                *)
ObsRecord ==
  [observedAt: Nat, weather: BOOLEAN, sane: BOOLEAN, alone: Band, peak: Band]

ASSUME WeatherAssumption ==
  /\ Obs \in [ObsId -> ObsRecord]
  /\ \A o \in ObsId : Obs[o].peak <= Obs[o].alone
  /\ Batches \subseteq Seq(ObsId)
  /\ Freshness \in Nat \ {0}
  /\ WeatherValidFor \in Nat \ {0}
  /\ MaxEstimates \in Nat

VARIABLES
  environments,     \* the estimates made; ._sequence is their number
  weatherUp         \* ._context is set

weatherVars == <<environments, weatherUp>>

WeatherInit ==
  /\ environments = <<>>
  /\ weatherUp = TRUE

\* initialize(), shutdown(): what was made and counted stays.
SwitchWeather(on) == weatherUp' = on /\ UNCHANGED environments

-----------------------------------------------------------------------------
(* _parse(): what becomes of a sample at an instant.                       *)

Outdated(o, at) == at - Obs[o].observedAt > Freshness

Usable(o, at) ==
  /\ Obs[o].weather /\ Obs[o].sane
  /\ Obs[o].observedAt <= at
  /\ ~Outdated(o, at)

UsableOf(batch, at) == {o \in Range(batch) : Usable(o, at)}

InOrder(batch) ==
  \A i, j \in DOMAIN batch :
    i < j => Obs[batch[i]].observedAt <= Obs[batch[j]].observedAt

-----------------------------------------------------------------------------
(* _fuse(), _unknown_payload().                                            *)

(* The band of several samples together is not below any peak; averages    *)
(* and the disagreement of the samples may put it anywhere above.          *)
FusedBands(usable) ==
  IF usable = {} THEN {Unusable}
  ELSE IF Cardinality(usable) = 1 THEN {Obs[o].alone : o \in usable}
  ELSE {b \in Band : \A o \in usable : Obs[o].peak <= b}

\* An estimate is identified by its number and says how it came about.
EnvironmentId ==
  [sequence: 0..(MaxEstimates - 1), batch: Batches, at: 0..Horizon, band: Band]

\* environment/1.0.
EnvironmentOf(e) ==
  LET usable == UsableOf(e.batch, e.at) IN
  [observedAt |-> IF usable = {} THEN e.at
                  ELSE Max({Obs[o].observedAt : o \in usable}),
   validTo |-> e.at + WeatherValidFor,
   valid |-> usable # {} /\ InOrder(e.batch),
   band |-> e.band,
   provenance |-> usable]

Estimate ==
  /\ weatherUp
  /\ Len(environments) < MaxEstimates
  /\ \E batch \in Batches : \E band \in FusedBands(UsableOf(batch, now)) :
       environments' = Append(environments,
         [sequence |-> Len(environments), batch |-> batch, at |-> now, band |-> band])
  /\ UNCHANGED weatherUp
=============================================================================
