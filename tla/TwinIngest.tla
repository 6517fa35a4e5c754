----------------------------- MODULE TwinIngest -----------------------------
(***************************************************************************)
(* TwinIngestService (src/low_altitude_ai/digital_twin/service.py): one    *)
(* subscription per input topic, all feeding one store, each publishing a  *)
(* snapshot of what it committed.  apply() runs without an await; the      *)
(* publish() that follows does not, so the workers of two topics overlap.  *)
(*                                                                         *)
(* The bus is reduced to what module EventBus says of it: a subscription   *)
(* is a bounded queue with one worker, an event that is refused or lost    *)
(* marks the subscription as failed, a failed one accepts no more, and a   *)
(* publish() ends in acceptance, at any later time, or in an error.        *)
(***************************************************************************)
EXTENDS TwinStore

CONSTANTS
  Feed,             \* the input topics
  QueueSize         \* of the bus

ASSUME IngestAssumption == QueueSize \in Nat \ {0}

VARIABLES
  inbox,            \* accepted events of each subscription
  sending,          \* the snapshot each worker is publishing, at most one
  failed,           \* InMemorySubscription._failure is set
  published         \* "twin.snapshot", in the order it was accepted

ingestVars == <<twinVars, inbox, sending, failed, published>>

IngestInit ==
  /\ TwinInit
  /\ inbox = [f \in Feed |-> <<>>]
  /\ sending = [f \in Feed |-> {}]
  /\ failed = [f \in Feed |-> FALSE]
  /\ published = <<>>

Deliver(f, e) ==
  /\ ~failed[f]
  /\ Len(inbox[f]) < QueueSize
  /\ inbox' = [inbox EXCEPT ![f] = Append(@, e)]
  /\ UNCHANGED <<twinVars, sending, failed, published>>

(* _handle() up to its await.  An apply() that raises, be it after the     *)
(* commit, ends the handler.                                               *)
Handle(f) ==
  /\ sending[f] = {}
  /\ inbox[f] # <<>>
  /\ Apply(Head(inbox[f]))
  /\ inbox' = [inbox EXCEPT ![f] = Tail(@)]
  /\ failed' = [failed EXCEPT ![f] = @ \/ outcome' = "error"]
  /\ sending' = [sending EXCEPT ![f] =
       IF outcome' = "applied"
       THEN {SnapshotOf(entities', revision', watermark',
                        Event[Head(inbox[f])].receivedAt)}
       ELSE {}]
  /\ UNCHANGED published

\* Mutant: the references are read when the snapshot goes out.
Send_Rereads(f) ==
  /\ \E s \in sending[f] :
       published' = Append(published, [s EXCEPT !.refs = Refs(entities)])
  /\ sending' = [sending EXCEPT ![f] = {}]
  /\ UNCHANGED <<twinVars, inbox, failed>>

Send(f) ==
  /\ \E s \in sending[f] : published' = Append(published, s)
  /\ sending' = [sending EXCEPT ![f] = {}]
  /\ UNCHANGED <<twinVars, inbox, failed>>

\* Mutant: the error is suppressed.
SendFails_Silent(f) ==
  /\ sending[f] # {}
  /\ sending' = [sending EXCEPT ![f] = {}]
  /\ UNCHANGED <<twinVars, inbox, failed, published>>

\* The consumer's queue stayed full, or the consumer has failed or closed.
SendFails(f) ==
  /\ sending[f] # {}
  /\ sending' = [sending EXCEPT ![f] = {}]
  /\ failed' = [failed EXCEPT ![f] = TRUE]
  /\ UNCHANGED <<twinVars, inbox, published>>

IngestNext ==
  \E f \in Feed :
    \/ \E e \in EventId : Deliver(f, e)
    \/ Handle(f) \/ Send(f) \/ SendFails(f)

IngestSpec == IngestInit /\ [][IngestNext]_ingestVars

-----------------------------------------------------------------------------
(* Properties.                                                             *)

Published == {published[i].revision : i \in DOMAIN published}
InFlight == {s.revision : s \in UNION {sending[f] : f \in Feed}}

\* The entities as the first n remembered events left them.
RefsAfter(n) ==
  LET touched == [k \in Key |-> CommitsOf(k) \cap 1..n] IN
  {<<k, history[Max(touched[k])].revision>> :
     k \in {k \in Key : touched[k] # {}}}

(* A published snapshot is the twin as of one commit, however many commits *)
(* the other topic's worker made before it went out, and no revision is    *)
(* published twice ("one immutable snapshot per revision").                *)
SnapshotsAreRevisions ==
  /\ \A a, b \in DOMAIN published :
       published[a].revision = published[b].revision => a = b
  /\ \A a \in DOMAIN published : \E n \in Commits :
       /\ published[a].revision = history[n].revision
       /\ published[a].refs = RefsAfter(n)
       /\ \A i \in Commits : i <= n =>
            Event[history[i].event].observedAt <= published[a].watermark

(* No revision goes missing silently: one that was committed has been      *)
(* published, is being published, or the failure of a subscription is on   *)
(* record, which the next publish, drain or close raises.                  *)
LossIsOnRecord ==
  \A r \in 1..revision :
    r \in Published \cup InFlight \/ \E f \in Feed : failed[f]
=============================================================================
