---------------------------- MODULE MCAssessment ----------------------------
(***************************************************************************)
(* Four batches of tracks around a vehicle that flies east at 2 m/s, four  *)
(* weather samples, and a vehicle that is well or not.                     *)
(***************************************************************************)
EXTENDS Assessment

Target(id, position, velocity) ==
  [id |-> id, lost |-> FALSE, position |-> position, velocity |-> velocity, margin |-> 0]

Crossing == Target(1, <<1, 4, 0>>, <<2, -2, 0>>)   \* 1 m off in two seconds
Receding == Target(2, <<-6, 0, 0>>, <<0, 0, 0>>)   \* was hit 3 seconds ago
Beyond == Target(3, <<0, 9, 0>>, <<2, -1, 0>>)     \* closest after the horizon
Ahead == Target(4, <<3, 0, 0>>, <<2, 0, 0>>)       \* keeps its distance, in the way

Batch(observed, targets) == [observedAt |-> observed, valid |-> TRUE, targets |-> targets]

MCTracks ==
  [t \in TracksId |->
    CASE t = "beyond0" -> Batch(0, {Beyond, [Ahead EXCEPT !.lost = TRUE]})
      [] t = "away2" -> Batch(2, {Receding})
      [] t = "cross3" -> Batch(3, {Crossing, Beyond})]

\* The second vehicle is low and so close that no detour clears the crossing.
MCVehicle ==
  [v \in VehicleId |->
    CASE v = "well" ->
           [position |-> <<0, 0, 0>>, velocity |-> <<2, 0, 0>>,
            battery |-> 80, linkUp |-> TRUE]
      [] v = "spent" ->
           [position |-> <<2, 0, 0>>, velocity |-> <<2, 0, 0>>,
            battery |-> 25, linkUp |-> TRUE]]

Sample(observed, band) ==
  [observedAt |-> observed, weather |-> TRUE, sane |-> TRUE, alone |-> band, peak |-> band]

MCObs ==
  [o \in ObsId |->
    CASE o = "calm0" -> Sample(0, 0)
      [] o = "storm1" -> Sample(1, 2)
      [] o = "calm3" -> Sample(3, 0)
      [] o = "odd" -> [Sample(3, 0) EXCEPT !.sane = FALSE]]

MCBatches == {<<"calm0">>, <<"storm1", "calm0">>, <<"calm3", "odd">>}
MCBudgets ==
  {[estimates |-> 2, commits |-> 2, reports |-> 0, shutdowns |-> 0],
   [estimates |-> 1, commits |-> 0, reports |-> 2, shutdowns |-> 1]}

MCGoal == <<12, 0, 0>>
MCFenceMin == <<0, -6, 0>>
MCFenceMax == <<12, 4, 5>>
=============================================================================
