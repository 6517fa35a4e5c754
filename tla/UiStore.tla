------------------------------- MODULE UiStore -------------------------------
(***************************************************************************)
(* UiStateStore (src/low_altitude_ai/ui/state.py): the bounded projection  *)
(* of events that the operator console shows.  A store is a record; its    *)
(* methods are operators from a store to the next one, because a replay    *)
(* controller throws its store away and builds another.                    *)
(* The order of the ordered dictionary is that of its last updates, which  *)
(* are numbered.                                                           *)
(***************************************************************************)
EXTENDS Integers, Sequences, FiniteSets, Functions

CONSTANTS
  EventId,          \* events, numbered in the order of their event_id
  Event,            \* the immutable event of each number
  Source,           \* (service, instance, schema, vehicle) of an event
  Key,              \* entity keys with their schema
  MaxEntities,      \* max_entities
  MaxCritical       \* max_critical_entities

Mode == {"SIM", "REPLAY"}

(* What apply() reads of an event: "keys" are the entities it projects to, *)
(* in order (a target event has several, or none); "projectable" is false  *)
(* when _project raises.                                                   *)
EventRecord ==
  [mode: Mode, source: Source, sequence: Nat, receivedAt: Nat, keys: Seq(Key),
   critical: BOOLEAN, projectable: BOOLEAN]

ASSUME UiAssumption ==
  /\ EventId \subseteq Nat
  /\ Event \in [EventId -> EventRecord]
  /\ MaxEntities \in Nat \ {0} /\ MaxCritical \in Nat \ {0}
  /\ \A d, e \in EventId : Range(Event[d].keys) \cap Range(Event[e].keys) # {}
       => Event[d].critical = Event[e].critical

Unseen == -1        \* no sequence number is known of a source

\* _entities, a partial function: the event an entity is shown by, and when.
NoEntities == [k \in {} |-> Unseen]

\* Where an event has an entity last; of two projections the second stays.
LastPlace(e, k) ==
  LET keys == Event[e].keys IN
  CHOOSE i \in DOMAIN keys :
    keys[i] = k /\ \A j \in DOMAIN keys : keys[j] = k => j <= i

\* Mutant: an update leaves the entity at its old place in the order.
Project_InPlace(s, e) ==
  [k \in DOMAIN s.entities \cup Range(Event[e].keys) |->
     IF k \in Range(Event[e].keys)
     THEN [event |-> e,
           at |-> IF k \in DOMAIN s.entities THEN s.entities[k].at
                  ELSE s.updates + LastPlace(e, k)]
     ELSE s.entities[k]]

\* _entities[key] = projection, then move_to_end, for each projection.
Project(s, e) ==
  [k \in DOMAIN s.entities \cup Range(Event[e].keys) |->
     IF k \in Range(Event[e].keys)
     THEN [event |-> e, at |-> s.updates + LastPlace(e, k)]
     ELSE s.entities[k]]

Class(entities, critical) ==
  {k \in DOMAIN entities : Event[entities[k].event].critical = critical}

\* The n most recently updated of a class: both _trim methods drop the others.
Newest(entities, class, n) ==
  IF Cardinality(class) <= n THEN class
  ELSE CHOOSE kept \in SUBSET class :
         /\ Cardinality(kept) = n
         /\ \A k \in kept, l \in class \ kept : entities[l].at <= entities[k].at

-----------------------------------------------------------------------------
NewStore(mode) ==
  [mode |-> mode, connection |-> "DISCONNECTED", complete |-> FALSE, cursor |-> 0,
   invalid |-> 0, archived |-> 0, seen |-> [src \in Source |-> Unseen],
   updates |-> 0, entities |-> NoEntities]

Connection(s, c) == [s EXCEPT !.connection = c, !.complete = FALSE]

CompleteSync(s, cursor) ==
  [s EXCEPT !.cursor = IF @ < cursor THEN cursor ELSE @,
            !.complete = TRUE,
            !.connection = IF s.mode = "REPLAY" THEN "REPLAY" ELSE "LIVE"]

ResetForResync(s) ==
  [Connection(s, "SYNCING") EXCEPT
     !.seen = [src \in Source |-> Unseen], !.cursor = 0,
     !.updates = 0, !.entities = NoEntities]

CommandsEnabled(s) == s.connection = "LIVE" /\ s.mode # "REPLAY"

\* Mutant: a gap makes the view incomplete but leaves it connected.
Noted_StaysLive(s, ev) ==
  LET gap == s.seen[ev.source] # Unseen /\ ev.sequence > s.seen[ev.source] + 1
  IN  [s EXCEPT !.seen[ev.source] = ev.sequence, !.complete = @ /\ ~gap]

\* The sequence number is noted before the event is projected.
Noted(s, ev) ==
  LET gap == s.seen[ev.source] # Unseen /\ ev.sequence > s.seen[ev.source] + 1
  IN  [(IF gap THEN Connection(s, "SYNCING") ELSE s)
         EXCEPT !.seen[ev.source] = ev.sequence]

Show(s, e) ==
  LET all == Project(s, e)
      kept == Newest(all, Class(all, FALSE), MaxEntities)
                \cup Newest(all, Class(all, TRUE), MaxCritical)
  IN  [s EXCEPT !.cursor = @ + 1, !.updates = @ + Len(Event[e].keys),
                !.entities = [k \in kept |-> all[k]],
                !.archived = @ + Cardinality(Class(all, TRUE) \ kept)]

\* apply(): wrong mode, late or repeated, unreadable, or shown.
Apply(s, e) ==
  LET ev == Event[e] IN
  IF ev.mode # s.mode THEN [s EXCEPT !.invalid = @ + 1]
  ELSE IF s.seen[ev.source] # Unseen /\ ev.sequence <= s.seen[ev.source] THEN s
  ELSE IF ~ev.projectable THEN [Noted(s, ev) EXCEPT !.invalid = @ + 1]
  ELSE Show(Noted(s, ev), e)

\* The events of a sequence one after the other.
ApplyAll(s, events) ==
  LET after[n \in 0..Len(events)] ==
        IF n = 0 THEN s ELSE Apply(after[n - 1], events[n])
  IN  after[Len(events)]
=============================================================================
