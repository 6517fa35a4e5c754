------------------------------ MODULE Planner ------------------------------
(***************************************************************************)
(* RuleBasedPlannerPlugin (src/low_altitude_ai/planning/planner.py): the   *)
(* straight way or a detour to either side of an exclusion of the risk,    *)
(* the shortest that keeps clear and within the geofence.                  *)
(***************************************************************************)
EXTENDS RiskEngine, Sequences, SequencesExt

CONSTANTS
  Goal,             \* goal_enu_m of the mission
  Clearance,        \* PlannerConfig.minimum_clearance_m
  PathValidFor,     \* .valid_for_s
  FenceMin,         \* .geofence_min_enu_m
  FenceMax,         \* .geofence_max_enu_m
  MaxPaths          \* bound: plans in all

ASSUME PlannerAssumption ==
  /\ Goal \in Vector /\ FenceMin \in Vector /\ FenceMax \in Vector
  /\ Clearance \in Nat \ {0} /\ PathValidFor \in Nat \ {0}
  /\ MaxPaths \in Nat

VARIABLES
  path,             \* the last path/1.0
  paths,            \* ._sequence
  plannerUp         \* ._context is set

plannerVars == <<path, paths, plannerUp>>

NoPath == [status |-> "none"]

PlannerInit ==
  /\ path = NoPath
  /\ paths = 0
  /\ plannerUp = TRUE

\* initialize(), shutdown(): what was made and counted stays.
SwitchPlanner(on) == plannerUp' = on /\ UNCHANGED <<path, paths>>

-----------------------------------------------------------------------------
(* The candidates.                                                         *)

\* A detour leaves, passes and returns on lines parallel to the axes.
Detour(start, y) ==
  <<start, [start EXCEPT ![2] = y], [Goal EXCEPT ![2] = y], Goal>>

Sides(c) == <<c.center[2] - c.radius - Clearance, c.center[2] + c.radius + Clearance>>

Detours(start, constraints) ==
  LET side == FlattenSeq([i \in DOMAIN constraints |-> Sides(constraints[i])]) IN
  [i \in DOMAIN side |-> Detour(start, side[i])]

Legs(points) == {<<points[i], points[i + 1]>> : i \in 1..(Len(points) - 1)}

InGeofence(points) ==
  \A i \in DOMAIN points, axis \in 1..3 :
    points[i][axis] \in FenceMin[axis]..FenceMax[axis]

\* Mutant: the ends of a leg are looked at, not what lies between.
KeepsOff_EndsOnly(leg, c, distance) ==
  \A i \in 1..2 : Square(Minus(c, leg[i])) >= distance * distance

(* _segment_distance() against a distance, free of roots and quotients:    *)
(* the nearest point is an end or the foot of the perpendicular.           *)
KeepsOff(leg, c, distance) ==
  LET a == leg[1]
      d == Minus(leg[2], a)
      foot == Dot(Minus(c, a), d)
      length2 == Square(d)
  IN  IF foot <= 0 THEN Square(Minus(c, a)) >= distance * distance
      ELSE IF foot >= length2 THEN Square(Minus(c, leg[2])) >= distance * distance
      ELSE Square(Minus(c, a)) * length2 - foot * foot >= distance * distance * length2

CollisionFree(points, constraints) ==
  \A leg \in Legs(points), i \in DOMAIN constraints :
    KeepsOff(leg, constraints[i].center, constraints[i].radius + Clearance)

Feasible(points, constraints) ==
  InGeofence(points) /\ CollisionFree(points, constraints)

\* What a detour adds to the length that all detours have in common.
SideWay(points) ==
  LET y == points[2][2] IN
  Max({y - points[1][2], points[1][2] - y}) + Max({y - Goal[2], Goal[2] - y})

(* The straight way is shorter than any detour; of two detours of one      *)
(* length the first is taken.                                              *)
Best(start, constraints) ==
  LET straight == <<start, Goal>>
      detours == Detours(start, constraints)
      open == {i \in DOMAIN detours : Feasible(detours[i], constraints)}
      shortest == {i \in open : \A j \in open :
                     \/ SideWay(detours[i]) < SideWay(detours[j])
                     \/ SideWay(detours[i]) = SideWay(detours[j]) /\ i <= j}
  IN  IF Feasible(straight, constraints) THEN {straight}
      ELSE {detours[i] : i \in shortest}

-----------------------------------------------------------------------------
(* plan().  A deadline that has passed, a risk that has expired and a      *)
(* revision that is not the risk's raise, and nothing changes.             *)

Sooner(s, t) == IF s <= t THEN s ELSE t

Plan(revision) ==
  /\ plannerUp
  /\ paths < MaxPaths
  /\ risk # NoRisk
  /\ now < risk.validUntil
  /\ revision = risk.revision
  /\ LET start == Vehicle[risk.vehicle].position
         best == Best(start, risk.constraints)
     IN  path' = [status |-> IF best = {} THEN "REJECTED" ELSE "CANDIDATE",
                  points |-> IF best = {} THEN <<start, Goal>>
                             ELSE CHOOSE points \in best : TRUE,
                  revision |-> revision,
                  risk |-> risk,
                  validUntil |-> Sooner(risk.validUntil, now + PathValidFor)]
  /\ paths' = paths + 1
  /\ UNCHANGED plannerUp

-----------------------------------------------------------------------------
(* Properties.                                                             *)

\* Quarters of a leg, scaled by four, as seen from a point.
Quarters(leg, c) ==
  {[i \in 1..3 |-> 4 * (leg[1][i] - c[i]) + k * (leg[2][i] - leg[1][i])] : k \in 0..4}

(* A path that is offered keeps the clearance to every exclusion of its    *)
(* risk all along its legs and not only at the waypoints, starts where the *)
(* vehicle was rated, ends at the goal and stays inside the geofence.      *)
PlannedPathClear ==
  path.status = "CANDIDATE" =>
    /\ path.points[1] = Vehicle[path.risk.vehicle].position
    /\ Last(path.points) = Goal
    /\ \A leg \in Legs(path.points) :
         /\ \A i \in DOMAIN path.risk.constraints :
              LET c == path.risk.constraints[i]
                  distance == 4 * (c.radius + Clearance)
              IN  \A q \in Quarters(leg, c.center) : Square(q) >= distance * distance
         /\ \A q \in Quarters(leg, <<0, 0, 0>>), axis \in 1..3 :
              q[axis] \in (4 * FenceMin[axis])..(4 * FenceMax[axis])
=============================================================================
