------------------------------ MODULE Delivery ------------------------------
(***************************************************************************)
(* What the event bus promises (docstring of InMemoryEventBus): a receiver *)
(* accepts the messages of one publisher in the order of their numbers and *)
(* none of them twice, never has more than Backlog of them unfinished, and *)
(* finishes them one after the other; a message is acknowledged once every *)
(* receiver it is for has accepted it.  Messages of different publishers   *)
(* may overtake each other, and one that is never acknowledged may reach   *)
(* some of its receivers or none.                                          *)
(***************************************************************************)
EXTENDS Integers, Sequences, Functions

CONSTANTS
  Publisher,
  Receiver,
  Backlog        \* the most messages a receiver leaves unfinished

VARIABLES
  accepted,      \* of each receiver: what it has accepted, in order
  handled,       \* how many of them it has finished
  acked          \* the messages acknowledged to their publishers

vars == <<accepted, handled, acked>>

Message == [by: Publisher, n: Nat, to: SUBSET Receiver]

Accepted(r) == Range(accepted[r])

Init ==
  /\ accepted = [r \in Receiver |-> <<>>]
  /\ handled = [r \in Receiver |-> 0]
  /\ acked = {}

Accept(r, m) ==
  /\ \A earlier \in Accepted(r) : earlier.by = m.by => earlier.n < m.n
  /\ m \in Message /\ r \in m.to
  /\ Len(accepted[r]) - handled[r] < Backlog
  /\ accepted' = [accepted EXCEPT ![r] = Append(@, m)]
  /\ UNCHANGED <<handled, acked>>

Finish(r) ==
  /\ handled[r] < Len(accepted[r])
  /\ handled' = [handled EXCEPT ![r] = @ + 1]
  /\ UNCHANGED <<accepted, acked>>

Acknowledge(m) ==
  /\ m \in Message
  /\ \A r \in m.to : m \in Accepted(r)
  /\ acked' = acked \cup {m}
  /\ UNCHANGED <<accepted, handled>>

\* The message of a step is the one that is new afterwards.
Next ==
  \/ \E r \in Receiver : Finish(r) \/ \E m \in Accepted(r)' \ Accepted(r) : Accept(r, m)
  \/ \E m \in acked' \ acked : Acknowledge(m)

Spec == Init /\ [][Next]_vars
=============================================================================
