------------------------------ MODULE MCConsole ------------------------------
(***************************************************************************)
(* A tracker, a weather service and a decision source.  Events 1 to 3 are  *)
(* the tracker's, with two targets, one and an unreadable payload; 5 and 6 *)
(* are decisions; 7 and 8 are the tracker and 9 the decision source of a   *)
(* recording in which two events were received at once and one is twice.   *)
(***************************************************************************)
EXTENDS Console

Ev(mode, source, sequence, at, keys) ==
  [mode |-> mode, source |-> source, sequence |-> sequence, receivedAt |-> at,
   keys |-> keys, critical |-> source = "decider", projectable |-> TRUE]

MCEvent ==
  [e \in EventId |->
    CASE e = 1 -> Ev("SIM", "tracker", 0, 1, <<"track1", "track2">>)
      [] e = 2 -> Ev("SIM", "tracker", 1, 2, <<"track1">>)
      [] e = 3 -> [Ev("SIM", "tracker", 2, 3, <<>>) EXCEPT !.projectable = FALSE]
      [] e = 4 -> Ev("SIM", "weather", 4, 3, <<"env">>)
      [] e = 5 -> Ev("SIM", "decider", 0, 3, <<"avoid">>)
      [] e = 6 -> Ev("SIM", "decider", 1, 4, <<"hold">>)
      [] e = 7 -> Ev("REPLAY", "tracker", 2, 2, <<"track1">>)
      [] e = 8 -> Ev("REPLAY", "tracker", 1, 2, <<"track2", "track1">>)
      [] e = 9 -> Ev("REPLAY", "decider", 0, 1, <<"hold">>)
      [] e = 10 -> Ev("REPLAY", "decider", 3, 3, <<"avoid">>)
      [] e = 11 -> Ev("REPLAY", "tracker", 3, 4, <<"env">>)]

MCSnapshots == {<<1>>, <<5, 2>>}
MCRecorded == <<11, 8, 9, 7, 10, 8>>
=============================================================================
