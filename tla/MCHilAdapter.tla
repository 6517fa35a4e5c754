---------------------------- MODULE MCHilAdapter ----------------------------
(***************************************************************************)
(* A bench approval that expires before the command's deadline, its        *)
(* renewal, and a set of evidence with a check that failed.  Command "fly" *)
(* was authorised under the first approval, "later" under the renewal,     *)
(* "sim" is a command of another mode.                                     *)
(***************************************************************************)
EXTENDS HilAdapter, TLC

Symmetry == Permutations(Caller) \cup Permutations(Adapter)

MCBench ==
  [e \in EvidenceId |->
    CASE e = "morning" -> [proven |-> TRUE, endpoint |-> "bench", approvedUntil |-> 1]
      [] e = "renewed" -> [proven |-> TRUE, endpoint |-> "bench", approvedUntil |-> 3]
      [] e = "propellersOn" -> [proven |-> FALSE, endpoint |-> "bench",
                                approvedUntil |-> 3]]

Authorised(token, deadline) ==
  [wellFormed |-> TRUE, mode |-> "HIL", endpoint |-> "bench",
   token |-> token, deadline |-> deadline]

MCCommand ==
  [c \in CommandId |->
    CASE c = "fly" -> Authorised("morning", 2)
      [] c = "later" -> Authorised("renewed", 2)
      [] c = "sim" -> [Authorised("morning", 2) EXCEPT !.mode = "SIM"]]
=============================================================================
