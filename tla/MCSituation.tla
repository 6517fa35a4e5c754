---------------------------- MODULE MCSituation ----------------------------
(***************************************************************************)
(* Two radars.  The north one sees two targets, then one, then none; its   *)
(* fourth scan cannot be read.  The south one's scan is observed between   *)
(* them, has a detection that cannot be read, and may arrive late.  One    *)
(* unit of time is about 100 ms.  The environment is told of once,         *)
(* possibly twice, or cannot be read.                                      *)
(***************************************************************************)
EXTENDS Situation

Sweep(session, sequence, at, n) ==
  [session |-> session, sequence |-> sequence, observedAt |-> at,
   detections |-> n, wellFormed |-> TRUE, readable |-> TRUE, sound |-> TRUE]

MCScan ==
  [e \in ScanId |->
    CASE e = "n0" -> Sweep("north", 0, 0, 2)
      [] e = "n1" -> Sweep("north", 1, 1, 1)
      [] e = "n4" -> Sweep("north", 2, 4, 0)
      [] e = "n5" -> [Sweep("north", 3, 5, 1) EXCEPT !.readable = FALSE]
      [] e = "s3" -> [Sweep("south", 1, 3, 2) EXCEPT !.sound = FALSE]
      [] e = "odd" -> [Sweep("south", 2, 4, 0) EXCEPT !.wellFormed = FALSE]]

MCWeather ==
  [w \in WeatherId |->
    [observedAt |-> 2, receivedAt |-> 4,
     keys |-> IF w = "env" THEN {<<"environment", 0>>} ELSE {},
     valid |-> TRUE, reducible |-> w = "env"]]
=============================================================================
