------------------------------ MODULE SimClock ------------------------------
(***************************************************************************)
(* The injected business clock of the simulation                           *)
(* (src/low_altitude_ai/simulator/clock.py).  Every timestamp in the       *)
(* repository is read from it, so freshness and expiry are comparisons     *)
(* with this one variable.  One unit stands for a fixed number of          *)
(* milliseconds.                                                           *)
(***************************************************************************)
EXTENDS Integers

CONSTANTS
  Horizon,      \* bound: the clock is not advanced past this instant
  Steps         \* the amounts one call of advance() may add

ASSUME ClockAssumption ==
  /\ Horizon \in Nat
  /\ Steps \subseteq Nat \ {0}

VARIABLE now

ClockTypeOK == now \in 0..Horizon

ClockInit == now = 0

\* advance() refuses to move time backwards, hence Steps holds no negatives.
Advance(s) ==
  /\ now + s <= Horizon
  /\ now' = now + s
=============================================================================
