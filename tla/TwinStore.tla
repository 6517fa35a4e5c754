----------------------------- MODULE TwinStore -----------------------------
(***************************************************************************)
(* TwinStateStore (src/low_altitude_ai/digital_twin/store.py): the bounded *)
(* in-memory twin.  apply() commits an event's entities under the next     *)
(* revision, or finds the event a duplicate, late, or unacceptable.        *)
(*                                                                         *)
(* Events are immutable and are delivered in any order and repeatedly.     *)
(***************************************************************************)
EXTENDS Integers, Sequences, FiniteSetsExt

CONSTANTS
  EventId,          \* identities of the events
  Event,            \* their contents
  Key,              \* keys of the entities ("track/<id>" and so on)
  MaxEntities,      \* TwinStateStore._max_entities
  DedupCapacity,    \* TwinStateStore._dedup_capacity
  MaxHistory        \* bound: events the store remembers in all

\* "reducible": _reduce knows the schema and finds the keys it needs.
EventRecord ==
  [observedAt: Nat, receivedAt: Nat, keys: SUBSET Key,
   valid: BOOLEAN, reducible: BOOLEAN]

ASSUME TwinAssumption ==
  /\ Event \in [EventId -> EventRecord]
  /\ IsFiniteSet(Key)
  /\ MaxEntities \in Nat \ {0}
  /\ DedupCapacity \in Nat \ {0}
  /\ MaxHistory \in Nat

VARIABLES
  entities,         \* TwinStateStore._entities
  revision,         \* TwinStateStore._revision
  watermark,        \* TwinStateStore._watermark
  history,          \* every event remembered, in order, with the revision
                    \* it was committed under, or 0 if it was late
  outcome           \* of the last apply()

twinVars == <<entities, revision, watermark, history, outcome>>

NoTime == -1        \* _watermark is None

\* Mutant: evicts one event too early.
Seen_Short ==
  {history[i].event :
     i \in {k \in DOMAIN history : k > Len(history) - DedupCapacity + 1}}

\* _seen_order: the remembered events that have not been evicted yet.
Seen ==
  {history[i].event :
     i \in {k \in DOMAIN history : k > Len(history) - DedupCapacity}}

TwinInit ==
  /\ entities = [k \in {} |-> 0]
  /\ revision = 0
  /\ watermark = NoTime
  /\ history = <<>>
  /\ outcome = "none"

-----------------------------------------------------------------------------
(* snapshot(): what is published of the twin.  Its quality is that of all  *)
(* entities together, and it raises when there is none.                    *)

Refs(twin) == {<<k, twin[k].revision>> : k \in DOMAIN twin}

SnapshotOf(twin, rev, mark, asOf) ==
  [revision |-> rev, asOf |-> asOf, watermark |-> mark, refs |-> Refs(twin),
   valid |-> \A k \in DOMAIN twin : Event[twin[k].event].valid]

Report(result, twin) ==
  outcome' = IF DOMAIN twin = {} THEN "error" ELSE result

-----------------------------------------------------------------------------
(* apply().                                                                *)

\* Mutant: events are taken in the order of their arrival.
Late_Never(e) == FALSE

Late(e) ==
  \E k \in Event[e].keys \cap DOMAIN entities :
    Event[e].observedAt < Event[entities[k].event].observedAt

Overflows(e) == Cardinality(DOMAIN entities \cup Event[e].keys) > MaxEntities

Remember(e, rev) == history' = Append(history, [event |-> e, revision |-> rev])

Later(s, t) == IF s >= t THEN s ELSE t

Duplicate(e) ==
  /\ e \in Seen
  /\ Report("duplicate", entities)
  /\ UNCHANGED <<entities, revision, watermark, history>>

\* Neither remembered nor applied: the error goes to the bus.
Refuse(e) ==
  /\ e \notin Seen
  /\ ~Event[e].reducible \/ (~Late(e) /\ Overflows(e))
  /\ Report("error", entities)
  /\ UNCHANGED <<entities, revision, watermark, history>>

RejectLate(e) ==
  /\ e \notin Seen
  /\ Event[e].reducible
  /\ Late(e)
  /\ Remember(e, 0)
  /\ Report("late", entities)
  /\ UNCHANGED <<entities, revision, watermark>>

\* Mutant: what the batch does not mention is forgotten.
Commit_Replaces(e) ==
  /\ e \notin Seen
  /\ Event[e].reducible
  /\ ~Late(e)
  /\ ~Overflows(e)
  /\ entities' =
       [k \in Event[e].keys |-> [revision |-> revision + 1, event |-> e]]
  /\ revision' = revision + 1
  /\ watermark' = Later(watermark, Event[e].observedAt)
  /\ Remember(e, revision + 1)
  /\ Report("applied", entities')

Commit(e) ==
  /\ e \notin Seen
  /\ Event[e].reducible
  /\ ~Late(e)
  /\ ~Overflows(e)
  /\ entities' = [k \in DOMAIN entities \cup Event[e].keys |->
                    IF k \in Event[e].keys
                    THEN [revision |-> revision + 1, event |-> e]
                    ELSE entities[k]]
  /\ revision' = revision + 1
  /\ watermark' = Later(watermark, Event[e].observedAt)
  /\ Remember(e, revision + 1)
  /\ Report("applied", entities')

Apply(e) ==
  /\ Len(history) < MaxHistory
  /\ Duplicate(e) \/ Refuse(e) \/ RejectLate(e) \/ Commit(e)

TwinNext == \E e \in EventId : Apply(e)

TwinSpec == TwinInit /\ [][TwinNext]_twinVars

-----------------------------------------------------------------------------
(* Properties.                                                             *)

TwinTypeOK ==
  /\ DOMAIN entities \subseteq Key
  /\ \A k \in DOMAIN entities : entities[k].revision \in 1..revision
  /\ Cardinality(DOMAIN entities) <= MaxEntities
  /\ revision \in Nat
  /\ watermark \in Nat \cup {NoTime}
  /\ \A i \in DOMAIN history : history[i].revision \in 0..revision
  /\ outcome \in {"none", "duplicate", "late", "applied", "error"}

\* The commits that touched k, and all commits.
CommitsOf(k) ==
  {i \in DOMAIN history :
     history[i].revision > 0 /\ k \in Event[history[i].event].keys}
Commits == {i \in DOMAIN history : history[i].revision > 0}

(* Every entity is exactly what the last commit that touched it says, at   *)
(* that commit's revision, and revisions number the commits: the twin can  *)
(* be traced to its inputs and rebuilt from them (acceptance criteria of   *)
(* the digital twin module, section 14).                                   *)
EntitiesTraceable ==
  LET touched == [k \in Key |-> CommitsOf(k)] IN
  /\ DOMAIN entities = {k \in Key : touched[k] # {}}
  /\ \A k \in DOMAIN entities :
       entities[k] = LET last == history[Max(touched[k])] IN
                     [revision |-> last.revision, event |-> last.event]
  /\ \A i \in Commits :
       history[i].revision = Cardinality({j \in Commits : j <= i})
  /\ revision = Cardinality(Commits)

(* An event is taken twice only after the dedup window has moved past it:  *)
(* at least DedupCapacity other events were remembered in between, the     *)
(* late ones among them.                                                   *)
TakenOncePerWindow ==
  \A i, j \in DOMAIN history :
    i < j /\ history[i].event = history[j].event => j - i > DedupCapacity
=============================================================================
