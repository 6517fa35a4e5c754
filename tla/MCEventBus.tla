----------------------------- MODULE MCEventBus -----------------------------
(***************************************************************************)
(* The wiring of app/phase3_demo.py in small: "tracker" handles sensor     *)
(* events and publishes tracks, "twin" and "metrics" handle tracks.        *)
(* "echo" is a handler that publishes on the topic it subscribes to, so    *)
(* that its queue fills from within.                                       *)
(***************************************************************************)
EXTENDS EventBus

Radar == <<"sensor", "normalized", "radar">>
Tracks == <<"perception", "tracks">>
MCTopic == {Radar, Tracks}
MCTracks == {Tracks}

MCPattern ==
  [s \in Sub |->
    CASE s = "tracker" -> [words |-> <<"sensor", "normalized">>, wild |-> TRUE]
      [] s \in {"twin", "metrics", "echo"} -> [words |-> Tracks, wild |-> FALSE]]

MCGroup == [s \in Sub |-> s]

MCEmits ==
  [s \in Sub |->
    CASE s = "tracker" -> {Tracks}
      [] s \in {"twin", "metrics"} -> {}
      [] s = "echo" -> {Tracks}]
=============================================================================
